------------------------------ MODULE MsgCopy ------------------------------
(***************************************************************************)
(* Messages in the buffers of a channel: machnet_sendmsg gathers the       *)
(* segments of the caller into a chain of buffers, machnet_recvmsg         *)
(* scatters a chain over the segments of the caller (src/ext/machnet.c).   *)
(* One step per iteration of their loops. Between the two the chain is     *)
(* taken by the engine and arrives, cut in other places, in other buffers. *)
(* The channel is created, bound and destroyed as in ChannelMem.           *)
(***************************************************************************)
EXTENDS ChannelMem, Sequences, FiniteSets, SequencesExt, FiniteSetsExt

CONSTANTS
  Iovecs,               \* the segments, by their lengths, of the callers
  MACHNET_MSG_MAX_LEN,
  kBufferBatchSize

VARIABLES
  bufs,     \* the header and the data of each buffer of the pool
  pool,     \* the free buffers
  call,     \* the local variables of the call that runs
  released  \* buffers that machnet_recvmsg gave back, in order (history)

copyVars == <<bufs, pool, call, released>>
vars == <<memVars, copyVars>>

\* The length of a message given in segments.
Total(iov) == FoldFunction(+, 0, iov)

NoBuf == -1
Indices == 0..(Max({p.buf_slots : p \in Params}) - 2)

\* __machnet_channel_buf_init.
buf_init == [flags |-> {}, data |-> <<>>, next |-> NoBuf, last |-> NoBuf,
             msg_len |-> 0]

\* What a message leaves in a buffer when it is freed; which message it was
\* does not matter.
Used == [flags |-> {"SYN", "SG", "FIN"}, data |-> <<0>>, next |-> 0, last |-> 0,
         msg_len |-> 1]

Idle == [pc |-> "idle", iov |-> <<>>, table |-> <<>>, iov_index |-> 1,
         seg |-> 0, cur |-> 1, ofs |-> 0, new |-> TRUE, copied |-> 0,
         len |-> 0, out |-> <<>>, batch |-> <<>>, status |-> 0]

Init ==
  /\ MemInit
  /\ bufs = [i \in Indices |-> buf_init]
  /\ pool = {} /\ call = Idle /\ released = <<>>

mss == client.par.buffer_size

\* __machnet_channel_buf_tailroom.
Tailroom(b) ==
  MsgBufSize(client.par) - MACHNET_MSGBUF_HEADROOM_MAX - Len(b.data)

\* The application is bound to the channel the engine serves.
Served == mem.pc = "created" /\ client.pc = "bound" /\ client.of = creates

\* n free buffers; in which order does not matter.
Tables(n) == {t \in [1..n -> pool] : \A i \in 1..(n - 1) : t[i] < t[i + 1]}

-----------------------------------------------------------------------------
\* machnet_sendmsg: the checks, and the allocation of as many buffers as the
\* message needs. The calls that fail here change nothing.
buffers_nr(len) == (len + mss - 1) \div mss

SendMsg(iov) ==
  LET len == Total(iov)
  IN  /\ call.pc = "idle" /\ Served
      /\ len \in 1..MACHNET_MSG_MAX_LEN
      /\ buffers_nr(len) <= Cardinality(pool)
      /\ \E t \in Tables(buffers_nr(len)) :
           /\ call' = [Idle EXCEPT !.pc = "gather", !.iov = iov, !.table = t,
                                   !.len = len, !.seg = iov[1]]
           /\ pool' = pool \ Range(t)
      /\ UNCHANGED <<bufs, released>>

\* The next segment, when all of this one is copied.
NextSegment ==
  /\ call.pc = "gather" /\ call.seg = 0 /\ call.iov_index < Len(call.iov)
  /\ call' = [call EXCEPT !.iov_index = @ + 1, 
                          !.seg = call.iov[call.iov_index + 1]]
  /\ UNCHANGED <<bufs, pool, released>>

\* Copy what fits in the buffer, and go on to the next buffer when this one is
\* full and the segment has more.
Prepared(b) == IF call.new THEN buf_init ELSE bufs[b]

channel_buf_append(b, octets) == [b EXCEPT !.data = @ \o octets]

Gather ==
  LET b == call.table[call.cur]
      buffer == Prepared(b)
      n == Min({call.seg, Tailroom(buffer)})
      octets == [k \in 1..n |-> call.copied + k]
      filled == [channel_buf_append(buffer, octets) EXCEPT
                   !.flags = @ \cup {"SG"}]
      full == Tailroom(filled) = 0 /\ call.seg > n
  IN  /\ call.pc = "gather" /\ call.seg > 0
      /\ bufs' = [bufs EXCEPT ![b] =
           IF full THEN [filled EXCEPT !.next = call.table[call.cur + 1]]
                   ELSE filled]
      /\ call' = [call EXCEPT !.seg = @ - n, !.copied = @ + n, !.new = full,
                              !.cur = IF full THEN @ + 1 ELSE @]
      /\ UNCHANGED <<pool, released>>

\* Mark the last and the first buffer and enqueue the message.
\* (Mutation: SG stays on the last buffer.)
MarkLast_sg(b) == [b EXCEPT !.flags = @ \cup {"FIN"}]

MarkLast(b) == [b EXCEPT !.flags = (@ \cup {"FIN"}) \ {"SG"}]

SendEnd ==
  LET head == call.table[1]
      tail == call.table[Len(call.table)]
      marked == [bufs EXCEPT ![tail] = MarkLast(@)]
  IN  /\ call.pc = "gather" /\ call.seg = 0 /\ call.iov_index = Len(call.iov)
      /\ bufs' = [marked EXCEPT
                    ![head].flags = @ \cup {"SYN"}, ![head].last = tail,
                    ![head].msg_len = call.len]
      /\ call' = [call EXCEPT !.pc = "sent"]
      /\ UNCHANGED <<pool, released>>

-----------------------------------------------------------------------------
\* The engine takes the chain and frees its buffers when it is acknowledged.
Carry ==
  /\ call.pc = "sent"
  /\ pool' = pool \cup Range(call.table)
  /\ bufs' = [i \in Indices |-> IF i \in pool' THEN Used ELSE bufs[i]]
  /\ call' = [Idle EXCEPT !.pc = "carried", !.len = call.len]
  /\ UNCHANGED released

\* The engine delivers the message in a chain of buffers, cut in pieces of at
\* most mss octets.
Cuts(len) == {c \in UNION {[1..n -> 1..mss] : n \in 1..Cardinality(pool)} :
                Total(c) = len}

Piece(cut, k) ==
  [j \in 1..cut[k] |-> Total(SubSeq(cut, 1, k - 1)) + j]

ChainBuf(cut, t, k) ==
  [flags |-> (IF k = 1 THEN {"SYN"} ELSE {}) \cup
             (IF k = Len(t) THEN {"FIN"} ELSE {"SG"}),
   data |-> Piece(cut, k), next |-> IF k = Len(t) THEN NoBuf ELSE t[k + 1],
   last |-> t[Len(t)], msg_len |-> Total(cut)]

Deliver ==
  /\ call.pc = "carried"
  /\ \E cut \in Cuts(call.len) : \E t \in Tables(Len(cut)) :
       /\ bufs' = [i \in Indices |->
            IF i \in Range(t)
            THEN ChainBuf(cut, t, CHOOSE k \in DOMAIN t : t[k] = i)
            ELSE bufs[i]]
       /\ pool' = pool \ Range(t)
       /\ call' = [call EXCEPT !.pc = "received", !.table = t]
  /\ UNCHANGED released

-----------------------------------------------------------------------------
\* machnet_recvmsg: cur is the buffer it is at, ofs how far it has read it, seg
\* how far it has filled the segment.
RecvMsg(iov) ==
  /\ call.pc = "received"
  /\ call' = [Idle EXCEPT !.pc = "scatter", !.iov = iov, !.table = call.table,
                          !.cur = call.table[1], !.len = call.len]
  /\ UNCHANGED <<bufs, pool, released>>

More == Len(bufs[call.cur].data) > call.ofs

\* _machnet_buffers_release of the batch, when it is full or at the end.
Flush(c, now) ==
  /\ call' = IF now THEN [c EXCEPT !.batch = <<>>] ELSE c
  /\ pool' = IF now THEN pool \cup Range(c.batch) ELSE pool
  /\ released' = IF now THEN released \o c.batch ELSE released

SkipSegment ==
  /\ call.pc = "scatter" /\ More /\ call.iov_index <= Len(call.iov)
  /\ call.iov[call.iov_index] = 0
  /\ call' = [call EXCEPT !.iov_index = @ + 1]
  /\ UNCHANGED <<bufs, pool, released>>

\* The step to the next buffer of the chain.
\* (Mutation: the offset is kept.)
NextBuf_ofs(c) ==
  IF "SG" \in bufs[c.cur].flags THEN [c EXCEPT !.cur = bufs[c.cur].next] ELSE c

NextBuf(c) ==
  IF "SG" \in bufs[c.cur].flags
  THEN [c EXCEPT !.cur = bufs[c.cur].next, !.ofs = 0] ELSE c

\* (Mutation: a segment that is exactly full is not left.)
NextSeg_more(c) ==
  IF c.seg > c.iov[c.iov_index]
  THEN [c EXCEPT !.iov_index = @ + 1, !.seg = 0] ELSE c

NextSeg(c) ==
  IF c.seg = c.iov[c.iov_index]
  THEN [c EXCEPT !.iov_index = @ + 1, !.seg = 0] ELSE c

Scatter ==
  LET data == bufs[call.cur].data
      n == Min({call.iov[call.iov_index] - call.seg, Len(data) - call.ofs})
      copied == [call EXCEPT
                   !.out = @ \o SubSeq(data, call.ofs + 1, call.ofs + n),
                   !.ofs = @ + n, !.seg = @ + n, !.copied = @ + n]
      done == copied.ofs = Len(data)
      left == IF done THEN NextBuf([copied EXCEPT
                                      !.batch = Append(@, call.cur)])
                      ELSE copied
  IN  /\ call.pc = "scatter" /\ More /\ call.iov_index <= Len(call.iov)
      /\ call.iov[call.iov_index] > 0
      /\ Flush(NextSeg(left), done /\ Len(left.batch) = kBufferBatchSize)
      /\ UNCHANGED bufs

RecvEnd ==
  /\ call.pc = "scatter" /\ ~More
  /\ Flush([call EXCEPT !.pc = "returned", !.status = 1], TRUE)
  /\ UNCHANGED bufs

\* The segments are used up: the rest of the chain is released.
NoRoom ==
  /\ call.pc = "scatter" /\ More /\ call.iov_index > Len(call.iov)
  /\ call' = [call EXCEPT !.pc = "fail"]
  /\ UNCHANGED <<bufs, pool, released>>

\* (Mutation: released only when the batch is full.)
FlushDue_full(c, last) == Len(c.batch) = kBufferBatchSize

FlushDue(c, last) == last \/ Len(c.batch) = kBufferBatchSize

FailRelease ==
  LET added == [call EXCEPT !.batch = Append(@, call.cur)]
      last == "SG" \notin bufs[call.cur].flags
      next == IF last THEN [added EXCEPT !.pc = "returned", !.status = -1]
                      ELSE [added EXCEPT !.cur = bufs[call.cur].next]
  IN  /\ call.pc = "fail"
      /\ Flush(next, FlushDue(added, last))
      /\ UNCHANGED bufs

\* The application looks at the result.
Return ==
  /\ call.pc = "returned"
  /\ call' = Idle /\ released' = <<>>
  /\ bufs' = [i \in Indices |-> IF i \in pool THEN Used ELSE bufs[i]]
  /\ UNCHANGED pool

\* What a call of the library does on its own.
Step ==
  \/ NextSegment \/ Gather \/ SendEnd
  \/ SkipSegment \/ Scatter \/ RecvEnd \/ NoRoom \/ FailRelease

\* The calls for a message in one piece.
machnet_send(len) == SendMsg(<<len>>)
machnet_recv(len) == RecvMsg(<<len>>)

CopyNext ==
  \/ \E len \in {iov[1] : iov \in Iovecs} : machnet_send(len) \/ machnet_recv(len)
  \/ \E iov \in Iovecs : SendMsg(iov) \/ RecvMsg(iov)
  \/ Carry \/ Deliver \/ Return \/ Step

\* A channel's pool is filled by its initialisation; messages and the end of
\* the channel or of the application do not overlap here.
Next ==
  \/ /\ call.pc = "idle" /\ MemNext
     /\ pool' = IF mem'.pc = "created" THEN 0..(buf_pool_mask(mem'.par) - 1)
                                       ELSE {}
     /\ bufs' = IF mem'.pc # "created" THEN [i \in Indices |-> buf_init]
                                       ELSE bufs
     /\ UNCHANGED <<call, released>>
  \/ CopyNext /\ UNCHANGED memVars

Spec == Init /\ [][Next]_vars

\* A call that has begun goes on.
FairSpec == Spec /\ WF_vars(Step /\ UNCHANGED memVars)

-----------------------------------------------------------------------------

\* The buffers of the message that is sent.
Chain == [k \in 1..Len(call.table) |-> bufs[call.table[k]]]

\* What machnet_sendmsg enqueues is the message: the chain, followed from its
\* head along next as far as SG goes, has exactly the buffers that were
\* allocated, holds every octet of the segments once and in order, and only its
\* first and last buffer are marked, whatever was left in the buffers and
\* wherever segments and buffers end, also both at the same place.
GatherExact ==
  call.pc = "sent" =>
    /\ FlattenSeq([k \in DOMAIN Chain |-> Chain[k].data])
         = [k \in 1..call.len |-> k]
    /\ \A k \in DOMAIN Chain :
         LET last == k = Len(Chain)
         IN  /\ "SG" \in Chain[k].flags <=> ~last
             /\ "FIN" \in Chain[k].flags <=> last
             /\ "SYN" \in Chain[k].flags <=> k = 1
             /\ ~last => Chain[k].next = call.table[k + 1]
    /\ Chain[1].last = call.table[Len(call.table)]
    /\ Chain[1].msg_len = call.len

\* machnet_recvmsg hands the caller the message, all of it, or fails when the
\* segments are too small for it; what it has filled by then is the beginning
\* of the message, and no segment is written past its end.
ScatterExact ==
  call.pc \in {"scatter", "fail", "returned"} =>
    /\ call.out = [k \in 1..call.copied |-> k]
    /\ call.copied <= Total(call.iov)
    /\ call.pc = "returned" =>
         call.status = IF Total(call.iov) >= call.len THEN 1 ELSE -1
    /\ call.status = 1 => call.copied = call.len

\* Whether it succeeds or fails, a receive gives every buffer of the chain back
\* to the pool exactly once, across the batches it releases them in.
ChainReleased ==
  call.pc = "returned" =>
    /\ IsInjective(released) /\ Range(released) = Range(call.table)
    /\ pool = 0..(buf_pool_mask(client.par) - 1)

\* The loops end: a send or receive that has begun returns, whatever empty
\* segments, full buffers and exact fits it meets.
CallsEnd == call.pc \in {"gather", "scatter", "fail"} ~>
              call.pc \in {"sent", "returned"}
=============================================================================
