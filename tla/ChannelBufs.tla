---------------------------- MODULE ChannelBufs ----------------------------
(***************************************************************************)
(* The message buffers of one shared-memory channel and everyone who can   *)
(* hold one: the pool (a ring), the application's cache in the channel     *)
(* context and its calls of machnet_sendmsg and machnet_recvmsg            *)
(* (src/ext/machnet.c), the two message rings, the engine's cache          *)
(* (src/include/channel.h), and the flow that sends and reassembles        *)
(* (src/include/flow.h). Ring operations are atomic here (see JRing), and  *)
(* so is one iteration of a loop of the application.                       *)
(***************************************************************************)
EXTENDS Integers, Sequences, SequencesExt, FiniteSets

CONSTANTS
  AppThreads,        \* application threads that use the channel
  NumBufs,           \* buffers: the capacity of the pool's ring
  NUM_CACHED_BUFS,   \* 64
  kBufferBatchSize,  \* 16: buffers machnet_recvmsg releases at a time
  kMaxBurst,         \* 32: messages or buffers the engine handles at a time
  AppRingCapacity, MachnetRingCapacity,
  Lens,              \* lengths of messages, in buffers
  MaxSends,          \* calls of machnet_sendmsg in all
  MaxArrivals        \* packets with data the engine receives

ASSUME ChannelAssumption ==
  /\ IsFiniteSet(AppThreads)
  /\ {NumBufs, NUM_CACHED_BUFS, kBufferBatchSize, kMaxBurst, AppRingCapacity,
      MachnetRingCapacity} \subseteq Nat \ {0}
  /\ Lens \subseteq 1..NumBufs
  /\ {MaxSends, MaxArrivals} \subseteq Nat

Bufs == 1..NumBufs

VARIABLES
  pool,        \* the free buffers, oldest first
  app_cache,   \* app_buffer_cache.indices[0..count-1]
  table,       \* the buffer index table of the channel context
  app_ring, machnet_ring, \* messages, each the chain of its buffers
  thr,         \* thr[t]: the call thread t is in
  eng_cache,   \* cached_bufs[0..cached_buf_count-1]
  tx, rx,      \* buffers of the flow: its chain, and its queue and train
  flow,        \* whether the engine has the flow
  died,        \* "abort": the application did; "check": a free of the engine
               \* failed; "ring_full": it found machnet_ring full
  lost,        \* buffers nobody will ever release (history)
  sends, arrivals

vars == <<pool, app_cache, table, app_ring, machnet_ring, thr, eng_cache, tx, rx,
          flow, died, lost, sends, arrivals>>

engine == <<eng_cache, tx, rx, flow, arrivals>>

\* The channel after __machnet_channel_dataplane_init: all buffers in the pool.
Init ==
  /\ pool = [i \in Bufs |-> i]
  /\ app_cache = <<>> /\ eng_cache = <<>>
  /\ table = [i \in Bufs |-> i]
  /\ app_ring = <<>> /\ machnet_ring = <<>>
  /\ thr = [t \in AppThreads |-> [pc |-> "idle", cnt |-> 0, index |-> 0,
                                  todo |-> <<>>, batch |-> <<>>, last |-> 0]]
  /\ tx = <<>> /\ rx = <<>> /\ flow = TRUE
  /\ died = "none" /\ lost = {} /\ sends = 0 /\ arrivals = 0

First(s, n) == SubSeq(s, 1, n)
After(s, n) == SubSeq(s, n + 1, Len(s))

\* __machnet_channel_buf_alloc_bulk and __machnet_channel_buf_free_bulk take or
\* give all n buffers or none.
CanAlloc(n) == Len(pool) >= n
CanFree(n)  == Len(pool) + n <= NumBufs

\* The rings of the channel: a message, or nothing when the ring is full; a
\* burst from the application, and one message to it.
app_ring_enqueue(m) ==
  Len(app_ring) < AppRingCapacity /\ app_ring' = Append(app_ring, m)

app_ring_dequeue(n) ==
  n = Min({Len(app_ring), kMaxBurst}) /\ app_ring' = After(app_ring, n)

machnet_ring_enqueue(m) ==
  /\ Len(machnet_ring) < MachnetRingCapacity
  /\ machnet_ring' = Append(machnet_ring, m)

machnet_ring_dequeue ==
  machnet_ring # <<>> /\ machnet_ring' = Tail(machnet_ring)

-----------------------------------------------------------------------------
(* The application: machnet_sendmsg.                                        *)

\* _machnet_buffers_alloc: a large message bypasses the cache.
SendStart(t, n) ==
  /\ thr[t].pc = "idle" /\ sends < MaxSends
  /\ sends' = sends + 1
  /\ \/ /\ n > NUM_CACHED_BUFS /\ CanAlloc(n)
        /\ table' = First(pool, n) \o After(table, n)
        /\ pool' = After(pool, n)
        /\ thr' = [thr EXCEPT ![t].pc = "enqueue", ![t].cnt = n, ![t].index = n]
     \/ /\ n > NUM_CACHED_BUFS /\ ~CanAlloc(n)
        /\ UNCHANGED <<table, pool, thr>>
     \/ /\ n <= NUM_CACHED_BUFS
        /\ thr' = [thr EXCEPT ![t].pc = "alloc", ![t].cnt = n, ![t].index = 0]
        /\ UNCHANGED <<table, pool>>
  /\ UNCHANGED <<app_cache, app_ring, machnet_ring, engine, died, lost>>

\* (Mutation: a failed allocation forgets what it already took.)
AllocFailed_forget(t) == app_cache' = app_cache

\* The fail label: the partial allocation goes back to the cache.
AllocFailed(t) == app_cache' = app_cache \o First(table, thr[t].index)

\* One iteration of the loop: refill an empty cache, or take from it.
Alloc(t) ==
  LET i == thr[t].index + 1
      n == Len(app_cache)
  IN  /\ thr[t].pc = "alloc"
      /\ \/ /\ n = 0 /\ CanAlloc(NUM_CACHED_BUFS)
            /\ app_cache' = First(pool, NUM_CACHED_BUFS)
            /\ pool' = After(pool, NUM_CACHED_BUFS)
            /\ UNCHANGED <<table, thr>>
         \/ /\ n = 0 /\ ~CanAlloc(NUM_CACHED_BUFS)
            /\ AllocFailed(t)
            /\ thr' = [thr EXCEPT ![t].pc = "idle"]
            /\ UNCHANGED <<table, pool>>
         \/ /\ n > 0
            /\ table' = [table EXCEPT ![i] = app_cache[n]]
            /\ app_cache' = First(app_cache, n - 1)
            /\ thr' = [thr EXCEPT ![t].index = i, ![t].pc =
                         IF i = thr[t].cnt THEN "enqueue" ELSE "alloc"]
            /\ UNCHANGED pool
      /\ UNCHANGED <<app_ring, machnet_ring, engine, died, lost, sends>>

\* The buffers are linked and the first one is enqueued. When the ring is full
\* the call returns -1 and nobody has the buffers any more.
SendEnqueue(t) ==
  LET chain == First(table, thr[t].cnt)
  IN  /\ thr[t].pc = "enqueue"
      /\ \/ app_ring_enqueue(chain) /\ UNCHANGED lost
         \/ /\ Len(app_ring) >= AppRingCapacity
            /\ lost' = lost \cup Range(chain)
            /\ UNCHANGED app_ring
      /\ thr' = [thr EXCEPT ![t].pc = "idle", ![t].index = 0]
      /\ UNCHANGED <<pool, app_cache, table, machnet_ring, engine, died, sends>>

-----------------------------------------------------------------------------
(* The application: machnet_recvmsg.                                        *)

RecvStart(t) ==
  /\ thr[t].pc = "idle" /\ machnet_ring_dequeue
  /\ thr' = [thr EXCEPT ![t].pc = "copy", ![t].todo = Head(machnet_ring)]
  /\ UNCHANGED <<pool, app_cache, table, app_ring, engine, died, lost, sends>>

\* One buffer of the message is copied out (or skipped when the application's
\* segments are too small: it is released all the same).
Copy(t) ==
  LET batch == Append(thr[t].batch, Head(thr[t].todo))
      todo  == Tail(thr[t].todo)
  IN  /\ thr[t].pc = "copy"
      /\ thr' = [thr EXCEPT
                   ![t].todo = todo, ![t].batch = batch,
                   ![t].last = IF Len(batch) = kBufferBatchSize
                                 THEN Head(thr[t].todo) ELSE 0,
                   ![t].pc = IF todo = <<>> \/ Len(batch) = kBufferBatchSize
                               THEN "release" ELSE "copy"]
      /\ UNCHANGED <<pool, app_cache, table, app_ring, machnet_ring, engine,
                     died, lost, sends>>

\* After a batch was released: more to copy, or the loop's condition again if
\* the batch was released inside the loop.
Released(t) ==
  IF thr[t].todo # <<>> THEN "copy" ELSE IF thr[t].last # 0 THEN "check" ELSE "idle"

\* (Mutation: the batch is given to the pool.)
Release_pool(t) ==
  /\ thr[t].pc = "release"
  /\ pool' = pool \o thr[t].batch
  /\ thr' = [thr EXCEPT ![t].batch = <<>>, ![t].pc = Released(t)]
  /\ UNCHANGED <<app_cache, table, app_ring, machnet_ring, engine, died, lost,
                 sends>>

\* One step of _machnet_buffers_release: free the upper half of a full cache,
\* or put the next buffer there. A free that fails is tried again, and then the
\* call aborts.
Release(t) ==
  LET b == thr[t].batch
      half == NUM_CACHED_BUFS \div 2
      kept == Len(app_cache) - half
  IN  /\ thr[t].pc = "release"
      /\ \/ /\ Len(app_cache) = NUM_CACHED_BUFS
            /\ died' = IF CanFree(half) THEN died ELSE "abort"
            /\ pool' = pool \o After(app_cache, kept)
            /\ app_cache' = First(app_cache, kept)
            /\ UNCHANGED thr
         \/ /\ Len(app_cache) # NUM_CACHED_BUFS
            /\ app_cache' = Append(app_cache, Head(b))
            /\ thr' = [thr EXCEPT ![t].batch = Tail(b), ![t].pc =
                         IF Len(b) > 1 THEN "release" ELSE Released(t)]
            /\ UNCHANGED <<pool, died>>
      /\ UNCHANGED <<table, app_ring, machnet_ring, engine, lost, sends>>

\* The loop's condition reads the length of the last buffer once more, which
\* was released just before because the batch became full with it.
Recheck(t) ==
  /\ thr[t].pc = "check"
  /\ thr' = [thr EXCEPT ![t].pc = "idle"]
  /\ UNCHANGED <<pool, app_cache, table, app_ring, machnet_ring, engine, died,
                 lost, sends>>

-----------------------------------------------------------------------------
(* The engine.                                                              *)

\* Run dequeues a burst of messages and process_msg gives each to its flow. It
\* drops a message for a flow it does not have, and with it the buffers.
ProcessMsgs ==
  \E n \in 1..kMaxBurst :
    LET bufs == FlattenSeq(First(app_ring, n))
    IN
      /\ app_ring_dequeue(n)
      /\ IF flow THEN tx' = tx \o bufs /\ UNCHANGED lost
                 ELSE lost' = lost \cup Range(bufs) /\ UNCHANGED tx
      /\ UNCHANGED <<pool, app_cache, table, machnet_ring, thr, eng_cache, rx,
                     flow, died, sends, arrivals>>

\* MsgBufBulkFree: how many of n buffers go to the cache, and how many to the
\* pool. (Mutation: what was cached is also freed.)
CacheRoom == NUM_CACHED_BUFS - Len(eng_cache)
ToPool_all(n) == n

ToCache(n) == IF n <= CacheRoom THEN n ELSE CacheRoom
ToPool(n) == IF n <= CacheRoom THEN 0 ELSE n - CacheRoom

MsgBufBulkFree(n) ==
  /\ died' = IF CanFree(ToPool(n)) THEN died ELSE "check"
  /\ eng_cache' = eng_cache \o First(tx, ToCache(n))
  /\ pool' = pool \o SubSeq(tx, n - ToPool(n) + 1, n)

\* One batch of acknowledged buffers. A free that finds the pool full would fail
\* the CHECK of ReceiveAcks or, when part of the batch went to the cache, drop
\* the rest; the model stops there.
ReceiveAcks(n) ==
  /\ n \in 1..Len(tx) /\ n <= kMaxBurst
  /\ MsgBufBulkFree(n)
  /\ tx' = After(tx, n)
  /\ UNCHANGED <<app_cache, table, app_ring, machnet_ring, thr, rx, flow, lost,
                 sends, arrivals>>

\* A data packet: MsgBufAlloc (which refills an empty cache with a full one or
\* fails, and then the packet is dropped), and the ring when the message is
\* complete.
Arrive(is_last) ==
  LET refill == eng_cache = <<>>
      cache  == IF refill THEN First(pool, NUM_CACHED_BUFS) ELSE eng_cache
      train  == Append(rx, Last(cache))
      full   == Len(machnet_ring) >= MachnetRingCapacity
  IN  /\ flow /\ arrivals < MaxArrivals
      /\ refill => CanAlloc(NUM_CACHED_BUFS)
      /\ arrivals' = arrivals + 1
      /\ pool' = IF refill THEN After(pool, NUM_CACHED_BUFS) ELSE pool
      /\ eng_cache' = Front(cache)
      /\ IF ~is_last \/ full THEN rx' = train /\ UNCHANGED machnet_ring
         ELSE rx' = <<>> /\ machnet_ring_enqueue(train)
      /\ died' = IF is_last /\ full THEN "ring_full" ELSE died
      /\ UNCHANGED <<app_cache, table, app_ring, thr, tx, flow, lost, sends>>

\* The engine drops the flow: its destructor releases no buffer.
FlowRemoved ==
  /\ flow
  /\ flow' = FALSE
  /\ lost' = lost \cup Range(tx) \cup Range(rx)
  /\ tx' = <<>> /\ rx' = <<>>
  /\ UNCHANGED <<pool, app_cache, table, app_ring, machnet_ring, thr, eng_cache,
                 died, sends, arrivals>>

Next ==
  /\ died = "none"
  /\ \/ \E t \in AppThreads :
          \/ \E n \in Lens : SendStart(t, n)
          \/ Alloc(t) \/ SendEnqueue(t)
          \/ RecvStart(t) \/ Copy(t) \/ Release(t) \/ Recheck(t)
     \/ ProcessMsgs
     \/ \E n \in 1..kMaxBurst : ReceiveAcks(n)
     \/ \E is_last \in BOOLEAN : Arrive(is_last)
     \/ FlowRemoved

Spec == Init /\ [][Next]_vars

-----------------------------------------------------------------------------

\* The buffers a call has in its hands.
InCall(t) ==
  (IF thr[t].pc \in {"alloc", "enqueue"} THEN First(table, thr[t].index)
   ELSE <<>>) \o thr[t].batch \o thr[t].todo

Places ==
  <<pool, app_cache, eng_cache, tx, rx, FlattenSeq(app_ring),
    FlattenSeq(machnet_ring), SetToSeq(lost)>>
  \o [i \in 1..Cardinality(AppThreads) |-> InCall(SetToSeq(AppThreads)[i])]

\* Every buffer is in one place, once: two sides never write the same buffer,
\* and the only ones that disappear are those in lost.
OneOwner ==
  LET all == FlattenSeq(Places)
  IN  Len(all) = NumBufs /\ Range(all) = Bufs

\* "With correct use, this fuction must always succeed" (machnet_common.h:545):
\* a free never finds the pool full, so that machnet_recvmsg never aborts, the
\* CHECK of ReceiveAcks never fails and MsgBufBulkFree drops no buffer.
FreeSucceeds == died \notin {"abort", "check"}

\* When machnet_recvmsg looks at a buffer it has already released, the buffer
\* is still in the application's cache and nobody else can have it.
RecheckIsSafe ==
  \A t \in AppThreads : thr[t].pc = "check" => thr[t].last \in Range(app_cache)
=============================================================================
