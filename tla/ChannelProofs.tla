--------------------------- MODULE ChannelProofs ---------------------------
(***************************************************************************)
(* Proofs about channels, their memory and their life. The layout is sound *)
(* for every choice of parameters the size calculation accepts, and the    *)
(* process that creates channels leaks nothing, whichever system calls     *)
(* fail. The controller gives an application only channels that an engine  *)
(* serves, for as long as both processes live, and an engine that serves   *)
(* all channels keeps none that the controller has dropped.                *)
(***************************************************************************)
EXTENDS ChannelMem, Controller, TLAPS

-----------------------------------------------------------------------------
(* Arithmetic.                                                              *)

\* Division with remainder.
LEMMA DivMod ==
  ASSUME NEW x \in Nat, NEW b \in Nat \ {0}
  PROVE  /\ x \div b \in Nat /\ x % b \in 0..(b - 1)
         /\ x = ((x \div b) * b) + (x % b)
  BY SMT

\* Slot i of an array ends where the next one begins, within the array.
LEMMA SlotEnds ==
  ASSUME NEW i \in Nat, NEW n \in Nat, NEW b \in Nat, i + 1 <= n
  PROVE  /\ i * b \in Nat /\ n * b \in Nat
         /\ (i * b) + b <= n * b
  BY SMT

\* The index of a slot is found from its offset.
LEMMA SlotIndex ==
  ASSUME NEW i \in Nat, NEW b \in Nat \ {0}
  PROVE  (i * b) \div b = i /\ (i * b) % b = 0
  BY SMT

\* Of two multiples the smaller one has the smaller factor.
LEMMA FactorOrder ==
  ASSUME NEW i \in Int, NEW k \in Int, NEW b \in Nat \ {0}, i * b < (k * b) + b
  PROVE  i <= k
  BY SMT

\* A product grows with its factor.
LEMMA FactorMono ==
  ASSUME NEW i \in Int, NEW k \in Int, NEW b \in Nat, i <= k
  PROVE  i * b <= k * b
  BY SMT

\* The sum of two multiples is one.
LEMMA MultipleSum ==
  ASSUME NEW x \in Nat, NEW y \in Nat, NEW b \in Nat \ {0},
         x % b = 0, y % b = 0
  PROVE  (x + y) % b = 0
<1>1. x = (x \div b) * b /\ y = (y \div b) * b
  BY DivMod
<1>2. x \div b \in Nat /\ y \div b \in Nat
  BY DivMod, Zenon
<1>3. x + y = ((x \div b) + (y \div b)) * b
  BY <1>1, <1>2, SMT
<1>4. \A k \in Nat : (k * b) % b = 0
  BY SlotIndex, Zenon
<1>5. (x \div b) + (y \div b) \in Nat
  BY <1>2
<1> QED
  BY <1>3, <1>4, <1>5, Zenon

\* What ALIGN_TO_BOUNDARY returns: the least multiple that is not smaller.
LEMMA AlignUp ==
  ASSUME NEW x \in Nat, NEW b \in Nat \ {0}
  PROVE  /\ ALIGN_TO_BOUNDARY(x, b) \in Nat
         /\ x <= ALIGN_TO_BOUNDARY(x, b)
         /\ ALIGN_TO_BOUNDARY(x, b) < x + b
         /\ ALIGN_TO_BOUNDARY(x, b) % b = 0
<1> DEFINE q == (x + b - 1) \div b
<1>1. x + b - 1 \in Nat
  OBVIOUS
<1>2. /\ q \in Nat /\ (x + b - 1) % b \in 0..(b - 1)
      /\ x + b - 1 = (q * b) + ((x + b - 1) % b)
  BY <1>1, DivMod, Zenon
<1>3. (q * b) % b = 0 /\ q * b \in Nat
  BY <1>2, SlotIndex, SMTT(60)
<1> HIDE DEF q
<1>4. x <= q * b /\ q * b < x + b
  BY <1>2, <1>3, SMT
<1> QED
  BY <1>3, <1>4, Zenon DEF ALIGN_TO_BOUNDARY, q

\* There is a power of two from x up to 2 * x.
LEMMA Pow2Above ==
  ASSUME NEW x \in Nat, 2 <= x, x <= MaxSize
  PROVE  \E n \in Pow2s : x <= n /\ n < 2 * x
<1> SUFFICES ASSUME \A n \in Pow2s : ~(x <= n /\ n < 2 * x) PROVE FALSE
  BY Zenon
<1>0. x \in Nat /\ 2 <= x /\ x <= 1073741824
  BY SMT DEF MaxSize
<1>1. /\ TRUE
        /\ ~(x <= 1 /\ 1 < 2 * x)
        /\ ~(x <= 2 /\ 2 < 2 * x)
        /\ ~(x <= 4 /\ 4 < 2 * x)
        /\ ~(x <= 8 /\ 8 < 2 * x)
        /\ ~(x <= 16 /\ 16 < 2 * x)
        /\ ~(x <= 32 /\ 32 < 2 * x)
        /\ ~(x <= 64 /\ 64 < 2 * x)
        /\ ~(x <= 128 /\ 128 < 2 * x)
        /\ ~(x <= 256 /\ 256 < 2 * x)
        /\ ~(x <= 512 /\ 512 < 2 * x)
        /\ ~(x <= 1024 /\ 1024 < 2 * x)
        /\ ~(x <= 2048 /\ 2048 < 2 * x)
        /\ ~(x <= 4096 /\ 4096 < 2 * x)
        /\ ~(x <= 8192 /\ 8192 < 2 * x)
        /\ ~(x <= 16384 /\ 16384 < 2 * x)
        /\ ~(x <= 32768 /\ 32768 < 2 * x)
        /\ ~(x <= 65536 /\ 65536 < 2 * x)
        /\ ~(x <= 131072 /\ 131072 < 2 * x)
        /\ ~(x <= 262144 /\ 262144 < 2 * x)
        /\ ~(x <= 524288 /\ 524288 < 2 * x)
        /\ ~(x <= 1048576 /\ 1048576 < 2 * x)
        /\ ~(x <= 2097152 /\ 2097152 < 2 * x)
        /\ ~(x <= 4194304 /\ 4194304 < 2 * x)
        /\ ~(x <= 8388608 /\ 8388608 < 2 * x)
        /\ ~(x <= 16777216 /\ 16777216 < 2 * x)
        /\ ~(x <= 33554432 /\ 33554432 < 2 * x)
        /\ ~(x <= 67108864 /\ 67108864 < 2 * x)
        /\ ~(x <= 134217728 /\ 134217728 < 2 * x)
        /\ ~(x <= 268435456 /\ 268435456 < 2 * x)
        /\ ~(x <= 536870912 /\ 536870912 < 2 * x)
        /\ ~(x <= 1073741824 /\ 1073741824 < 2 * x)
  BY <1>0, SMT DEF Pow2s
<1> HIDE DEF Pow2s
<1> QED
  BY ONLY <1>0, <1>1, SMT

\* The powers of two are positive.
LEMMA Pow2Positive == Pow2s \subseteq Nat \ {0}
  BY SMT DEF Pow2s

\* What ROUNDUP_U64_POW2 returns.
LEMMA RoundUp ==
  ASSUME NEW x \in Nat, 2 <= x, x <= MaxSize
  PROVE  ROUNDUP_U64_POW2(x) \in Nat \ {0} /\ x <= ROUNDUP_U64_POW2(x)
<1>1. \E n \in Pow2s : x <= n /\ n < 2 * x
  BY Pow2Above, Zenon
<1>2. ROUNDUP_U64_POW2(x) \in Pow2s /\ x <= ROUNDUP_U64_POW2(x)
  BY <1>1, Zenon DEF ROUNDUP_U64_POW2
<1> QED
  BY <1>2, Pow2Positive, Zenon

-----------------------------------------------------------------------------
(* The layout.                                                              *)

ParamSet == [machnet_slots: Nat, app_slots: Nat, buf_slots: Nat,
             buffer_size: Nat]

\* The constants are positive.
LEMMA Constants ==
  /\ CACHE_LINE_SIZE \in Nat \ {0} /\ getpagesize \in Nat \ {0}
  /\ HUGE_PAGE_2M_SIZE \in Nat \ {0}
  /\ SizeofCtx \in Nat /\ SizeofStats \in Nat /\ SizeofJring \in Nat
  /\ SizeofCtrlQueueEntry \in Nat /\ SizeofRingSlot \in Nat
  /\ MACHNET_MSGBUF_SPACE_RESERVED \in 1..MaxStruct
  /\ MACHNET_MSGBUF_HEADROOM_MAX \in 1..MaxStruct
  /\ MACHNET_CHANNEL_CTRL_SQ_SLOT_NR \in Nat
  /\ MACHNET_CHANNEL_CTRL_CQ_SLOT_NR \in Nat
<1>1. /\ {CACHE_LINE_SIZE, HUGE_PAGE_2M_SIZE, getpagesize} \subseteq Pow2s
      /\ {MACHNET_CHANNEL_CTRL_SQ_SLOT_NR,
          MACHNET_CHANNEL_CTRL_CQ_SLOT_NR} \subseteq Pow2s
  BY LayoutAssumption, Zenon DEF LayoutAssumption
<1>2. {SizeofCtx, SizeofStats, SizeofJring, SizeofCtrlQueueEntry,
       SizeofRingSlot, MACHNET_MSGBUF_SPACE_RESERVED,
       MACHNET_MSGBUF_HEADROOM_MAX} \subseteq 1..MaxStruct
  BY LayoutAssumption, Zenon DEF LayoutAssumption
<1>3. 1..MaxStruct \subseteq Nat
  BY SMT DEF MaxStruct
<1> QED
  BY <1>1, <1>2, <1>3, Pow2Positive, Zenon

\* Both page sizes are positive and no larger than 2 MB.
LEMMA PageSize ==
  ASSUME NEW posix \in BOOLEAN
  PROVE  Page(posix) \in Nat \ {0} /\ Page(posix) <= MaxPage
<1>1. getpagesize \in Nat \ {0} /\ HUGE_PAGE_2M_SIZE \in Nat \ {0}
  BY Constants, Zenon
<1>2. getpagesize <= MaxPage /\ HUGE_PAGE_2M_SIZE <= MaxPage
  BY LayoutAssumption, Zenon DEF LayoutAssumption
<1>3. MaxPage \in Nat
  BY SMT DEF MaxPage
<1>4. CASE posix
  BY <1>1, <1>2, <1>3, <1>4, SMT DEF Page
<1>5. CASE ~posix
  BY <1>1, <1>2, <1>3, <1>5, SMT DEF Page
<1> QED
  BY <1>4, <1>5, Zenon

\* A ring whose size could be calculated has slots, and takes whole cache lines.
LEMMA RingSize ==
  ASSUME NEW esize \in Nat, NEW count \in Nat,
         jring_get_buf_ring_size(esize, count) # Bad
  PROVE  /\ jring_get_buf_ring_size(esize, count) \in Nat
         /\ jring_get_buf_ring_size(esize, count) % CACHE_LINE_SIZE = 0
         /\ count \in Nat \ {0}
<1>1. /\ count \in Pow2s
      /\ jring_get_buf_ring_size(esize, count) =
           ALIGN_TO_BOUNDARY(SizeofJring + count * esize, CACHE_LINE_SIZE)
  BY Zenon DEF jring_get_buf_ring_size, ISPOWEROF2
<1>2. SizeofJring + count * esize \in Nat
  BY Constants
<1>3. CACHE_LINE_SIZE \in Nat \ {0}
  BY Constants, Zenon
<1>4. count \in Nat \ {0}
  BY <1>1, Pow2Positive, Zenon
<1> HIDE DEF jring_get_buf_ring_size
<1> QED
  BY <1>1, <1>2, <1>3, <1>4, AlignUp, Zenon

\* What the checks of the size calculation establish.
LEMMA ValidSizes ==
  ASSUME NEW p \in ParamSet, NEW posix \in BOOLEAN, Valid(p, posix)
  PROVE  /\ \A size \in {CtrlSqSize, CtrlCqSize, DataRingSize(p.machnet_slots),
                         DataRingSize(p.app_slots),
                         DataRingSize(p.buf_slots)} :
              size \in Nat /\ size % CACHE_LINE_SIZE = 0
         /\ p.buf_slots \in Nat \ {0}
         /\ buf_size(p) \in Nat \ {0}
         /\ p.buffer_size + MACHNET_MSGBUF_SPACE_RESERVED
              + MACHNET_MSGBUF_HEADROOM_MAX <= buf_size(p)
<1>1. p.machnet_slots \in Nat /\ p.app_slots \in Nat /\ p.buf_slots \in Nat
      /\ p.buffer_size \in Nat
  BY Zenon DEF ParamSet
<1>2. SizeofCtrlQueueEntry \in Nat /\ SizeofRingSlot \in Nat
      /\ MACHNET_CHANNEL_CTRL_SQ_SLOT_NR \in Nat
      /\ MACHNET_CHANNEL_CTRL_CQ_SLOT_NR \in Nat
  BY Constants, Zenon
<1>3. /\ CtrlSqSize # Bad /\ CtrlCqSize # Bad
      /\ DataRingSize(p.machnet_slots) # Bad /\ DataRingSize(p.app_slots) # Bad
      /\ DataRingSize(p.buf_slots) # Bad
  BY Zenon DEF Valid
<1>4. CtrlSqSize \in Nat /\ CtrlSqSize % CACHE_LINE_SIZE = 0
  BY <1>2, <1>3, RingSize, Zenon DEF CtrlSqSize
<1>5. CtrlCqSize \in Nat /\ CtrlCqSize % CACHE_LINE_SIZE = 0
  BY <1>2, <1>3, RingSize, Zenon DEF CtrlCqSize
<1>6. \A n \in Nat : DataRingSize(n) # Bad =>
        /\ DataRingSize(n) \in Nat /\ DataRingSize(n) % CACHE_LINE_SIZE = 0
        /\ n # 0
  BY <1>2, RingSize, Zenon DEF DataRingSize
<1> DEFINE raw == p.buffer_size + MACHNET_MSGBUF_SPACE_RESERVED
                    + MACHNET_MSGBUF_HEADROOM_MAX
<1>7. raw \in Nat /\ 2 <= raw /\ raw <= MaxSize
  <2>1. p.buffer_size <= Page(posix)
    BY Zenon DEF Valid
  <2>2. Page(posix) \in Nat /\ Page(posix) <= MaxPage
    BY PageSize, Zenon
  <2>3. \A k \in 1..MaxStruct : k \in Nat /\ 1 <= k /\ k <= MaxStruct
    <3>1. \A m \in Nat : \A k \in 1..m : k \in Nat /\ 1 <= k /\ k <= m
      OBVIOUS
    <3>2. MaxStruct \in Nat
      BY DEF MaxStruct
    <3> QED
      BY <3>1, <3>2, Zenon
  <2>4. /\ MACHNET_MSGBUF_SPACE_RESERVED \in Nat
        /\ 1 <= MACHNET_MSGBUF_SPACE_RESERVED
        /\ MACHNET_MSGBUF_SPACE_RESERVED <= MaxStruct
        /\ MACHNET_MSGBUF_HEADROOM_MAX \in Nat
        /\ 1 <= MACHNET_MSGBUF_HEADROOM_MAX
        /\ MACHNET_MSGBUF_HEADROOM_MAX <= MaxStruct
    BY <2>3, Constants, Zenon
  <2>5. MaxStruct = 4096 /\ MaxPage = 2097152 /\ MaxSize = 1073741824
    BY SMT DEF MaxStruct, MaxPage, MaxSize
  <2> HIDE DEF MaxStruct, MaxPage, MaxSize
  <2> QED
    BY ONLY <1>1, <2>1, <2>2, <2>4, <2>5, SMT
<1>8. /\ buf_size(p) \in Nat \ {0}
      /\ p.buffer_size + MACHNET_MSGBUF_SPACE_RESERVED
           + MACHNET_MSGBUF_HEADROOM_MAX <= buf_size(p)
  BY <1>7, RoundUp, Zenon DEF buf_size
<1> QED
  BY <1>1, <1>3, <1>4, <1>5, <1>6, <1>8, Zenon

\* The size calculation and the initialisation compute the same offsets.
LEMMA SameOffsets ==
  ASSUME NEW p \in ParamSet, NEW posix \in BOOLEAN, Valid(p, posix)
  PROVE  /\ RingsEnd(p) = buf_ring_ofs(p) + DataRingSize(p.buf_slots)
         /\ TableEnd(p) =
              buffer_index_table_ofs(p) + p.buf_slots * SizeofRingSlot
         /\ buf_pool_ofs(p, posix) = ALIGN_TO_BOUNDARY(TableEnd(p), Page(posix))
         /\ CalculateSize(p, posix) =
              ALIGN_TO_BOUNDARY(
                buf_pool_ofs(p, posix) + p.buf_slots * buf_size(p),
                Page(posix))
<1>1. /\ CtrlSqSize \in Nat /\ CtrlCqSize \in Nat
      /\ DataRingSize(p.machnet_slots) \in Nat
      /\ DataRingSize(p.app_slots) \in Nat /\ DataRingSize(p.buf_slots) \in Nat
  BY ValidSizes, Zenon
<1>2. SizeofCtx \in Nat /\ SizeofStats \in Nat
  BY Constants, Zenon
<1>3. RingsEnd(p) = buf_ring_ofs(p) + DataRingSize(p.buf_slots)
  BY <1>1, <1>2, Zenon DEF RingsEnd, buf_ring_ofs, app_ring_ofs, machnet_ring_ofs,
     ctrl_cq_ring_ofs, ctrl_sq_ring_ofs, stats_ofs
<1>4. TableEnd(p) = buffer_index_table_ofs(p) + p.buf_slots * SizeofRingSlot
  BY <1>3, Zenon DEF TableEnd, buffer_index_table_ofs
<1>5. buf_pool_ofs(p, posix) = ALIGN_TO_BOUNDARY(TableEnd(p), Page(posix))
  BY <1>4, Zenon DEF buf_pool_ofs
<1>6. CalculateSize(p, posix) =
        ALIGN_TO_BOUNDARY(buf_pool_ofs(p, posix) + p.buf_slots * buf_size(p),
                          Page(posix))
  BY <1>5, Zenon DEF CalculateSize
<1> QED
  BY <1>3, <1>4, <1>5, <1>6, Zenon

\* The offsets are natural numbers, and the rings begin at cache lines.
LEMMA Offsets ==
  ASSUME NEW p \in ParamSet, NEW posix \in BOOLEAN, Valid(p, posix)
  PROVE  /\ \A ofs \in {ctrl_sq_ring_ofs, ctrl_cq_ring_ofs, machnet_ring_ofs,
                        app_ring_ofs(p), buf_ring_ofs(p),
                        buffer_index_table_ofs(p)} :
              ofs \in Nat /\ ofs % CACHE_LINE_SIZE = 0
         /\ buf_ring_ofs(p) + DataRingSize(p.buf_slots)
              <= buffer_index_table_ofs(p)
<1> DEFINE Whole(n) == n \in Nat /\ n % CACHE_LINE_SIZE = 0
<1>1. CACHE_LINE_SIZE \in Nat \ {0}
  BY Constants, Zenon
<1>2. Whole(SizeofCtx) /\ Whole(SizeofStats)
  BY Constants, LayoutAssumption, Zenon DEF LayoutAssumption
<1>3. /\ Whole(CtrlSqSize) /\ Whole(CtrlCqSize)
      /\ Whole(DataRingSize(p.machnet_slots)) /\ Whole(DataRingSize(p.app_slots))
      /\ Whole(DataRingSize(p.buf_slots))
  BY ValidSizes, Zenon
<1>4. ASSUME NEW m, NEW n, Whole(m), Whole(n) PROVE Whole(m + n)
  <2>1. m + n \in Nat
    BY <1>4
  <2>2. (m + n) % CACHE_LINE_SIZE = 0
    BY <1>1, <1>4, MultipleSum, Zenon
  <2> QED
    BY <2>1, <2>2, Zenon
<1> HIDE DEF Whole
<1>5. Whole(ctrl_sq_ring_ofs)
  BY <1>2, <1>4, Zenon DEF ctrl_sq_ring_ofs, stats_ofs
<1>6. Whole(ctrl_cq_ring_ofs)
  BY <1>3, <1>4, <1>5, Zenon DEF ctrl_cq_ring_ofs
<1>7. Whole(machnet_ring_ofs)
  BY <1>3, <1>4, <1>6, Zenon DEF machnet_ring_ofs
<1>8. Whole(app_ring_ofs(p))
  BY <1>3, <1>4, <1>7, Zenon DEF app_ring_ofs
<1>9. Whole(buf_ring_ofs(p))
  BY <1>3, <1>4, <1>8, Zenon DEF buf_ring_ofs
<1>10. Whole(buf_ring_ofs(p) + DataRingSize(p.buf_slots))
  BY <1>3, <1>4, <1>9, Zenon
<1>11. /\ Whole(buffer_index_table_ofs(p))
       /\ buf_ring_ofs(p) + DataRingSize(p.buf_slots)
            <= buffer_index_table_ofs(p)
  BY <1>1, <1>10, AlignUp, Zenon DEF buffer_index_table_ofs, Whole
<1> QED
  BY <1>5, <1>6, <1>7, <1>8, <1>9, <1>11, Zenon DEF Whole

\* The pool begins at a page behind the index table and ends within the size.
LEMMA Pool ==
  ASSUME NEW p \in ParamSet, NEW posix \in BOOLEAN, Valid(p, posix)
  PROVE  /\ buf_pool_ofs(p, posix) \in Nat /\ p.buf_slots * buf_size(p) \in Nat
         /\ buffer_index_table_ofs(p) + p.buf_slots * SizeofRingSlot
              <= buf_pool_ofs(p, posix)
         /\ buf_pool_ofs(p, posix) % Page(posix) = 0
         /\ CalculateSize(p, posix) \in Nat
         /\ CalculateSize(p, posix) % Page(posix) = 0
         /\ buf_pool_ofs(p, posix) + p.buf_slots * buf_size(p)
              <= CalculateSize(p, posix)
<1>1. Page(posix) \in Nat \ {0}
  BY PageSize, Zenon
<1>2. buffer_index_table_ofs(p) \in Nat
  BY Offsets, Zenon
<1>3. p.buf_slots \in Nat /\ SizeofRingSlot \in Nat /\ buf_size(p) \in Nat
  BY ValidSizes, Constants, Zenon
<1>4. p.buf_slots * SizeofRingSlot \in Nat /\ p.buf_slots * buf_size(p) \in Nat
  BY <1>3
<1>5. TableEnd(p) \in Nat
  BY <1>2, <1>4, SameOffsets
<1>6. /\ buf_pool_ofs(p, posix) \in Nat
      /\ TableEnd(p) <= buf_pool_ofs(p, posix)
      /\ buf_pool_ofs(p, posix) % Page(posix) = 0
  BY <1>1, <1>5, SameOffsets, AlignUp, Zenon
<1>7. buf_pool_ofs(p, posix) + p.buf_slots * buf_size(p) \in Nat
  BY <1>4, <1>6
<1>8. /\ CalculateSize(p, posix) \in Nat
      /\ CalculateSize(p, posix) % Page(posix) = 0
      /\ buf_pool_ofs(p, posix) + p.buf_slots * buf_size(p)
           <= CalculateSize(p, posix)
  BY <1>1, <1>7, SameOffsets, AlignUp, Zenon
<1> QED
  BY <1>4, <1>6, <1>8, SameOffsets, Zenon

\* The areas of a channel do not overlap and end within its memory.
LEMMA AreasAreSound ==
  ASSUME NEW p \in ParamSet, NEW posix \in BOOLEAN, Valid(p, posix)
  PROVE  AreasSound(p, posix, CalculateSize(p, posix))
<1>1. /\ CtrlSqSize \in Nat /\ CtrlCqSize \in Nat
      /\ DataRingSize(p.machnet_slots) \in Nat
      /\ DataRingSize(p.app_slots) \in Nat
  BY ValidSizes, Zenon
<1>2. /\ ctrl_sq_ring_ofs \in Nat /\ ctrl_cq_ring_ofs \in Nat
      /\ machnet_ring_ofs \in Nat /\ app_ring_ofs(p) \in Nat
      /\ buf_ring_ofs(p) \in Nat
  BY Offsets, Zenon
<1>3. SizeofCtx \in Nat /\ SizeofStats \in Nat
  BY Constants, Zenon
<1>4. /\ SizeofCtx <= stats_ofs
      /\ stats_ofs + SizeofStats <= ctrl_sq_ring_ofs
  BY <1>3 DEF stats_ofs, ctrl_sq_ring_ofs
<1>5. /\ ctrl_sq_ring_ofs + CtrlSqSize <= ctrl_cq_ring_ofs
      /\ ctrl_cq_ring_ofs + CtrlCqSize <= machnet_ring_ofs
  BY <1>1, <1>2 DEF ctrl_cq_ring_ofs, machnet_ring_ofs
<1>6. /\ machnet_ring_ofs + DataRingSize(p.machnet_slots) <= app_ring_ofs(p)
      /\ app_ring_ofs(p) + DataRingSize(p.app_slots) <= buf_ring_ofs(p)
  BY <1>1, <1>2 DEF app_ring_ofs, buf_ring_ofs
<1>7. \A ofs \in {ctrl_sq_ring_ofs, ctrl_cq_ring_ofs, machnet_ring_ofs,
                  app_ring_ofs(p), buf_ring_ofs(p), buffer_index_table_ofs(p)} :
        ofs % CACHE_LINE_SIZE = 0
  BY Offsets, Zenon
<1>8. buf_ring_ofs(p) + DataRingSize(p.buf_slots) <= buffer_index_table_ofs(p)
  BY Offsets, Zenon
<1> QED
  BY <1>4, <1>5, <1>6, <1>7, <1>8, Pool, Zenon DEF AreasSound

\* Every buffer is within the memory, and its parts within its slot.
LEMMA BuffersAreSound ==
  ASSUME NEW p \in ParamSet, NEW posix \in BOOLEAN, Valid(p, posix)
  PROVE  BuffersSound(p, posix, CalculateSize(p, posix))
<1> DEFINE size == CalculateSize(p, posix)
<1> SUFFICES ASSUME NEW i \in 0..(buf_pool_mask(p) - 1)
             PROVE  LET addr == channel_buf(p, posix, i)
                    IN  /\ addr + buf_size(p) <= size
                        /\ channel_buf_base(addr) + MsgBufSize(p)
                             <= addr + buf_size(p)
                        /\ channel_buf_index(p, posix, addr) = i
  BY Zenon DEF BuffersSound
<1>1. /\ p.buf_slots \in Nat \ {0} /\ buf_size(p) \in Nat \ {0}
      /\ p.buffer_size + MACHNET_MSGBUF_SPACE_RESERVED
           + MACHNET_MSGBUF_HEADROOM_MAX <= buf_size(p)
  BY ValidSizes, Zenon
<1>2. i \in Nat /\ i + 1 <= p.buf_slots
  BY <1>1 DEF buf_pool_mask
<1>3. /\ i * buf_size(p) \in Nat /\ p.buf_slots * buf_size(p) \in Nat
      /\ (i * buf_size(p)) + buf_size(p) <= p.buf_slots * buf_size(p)
  BY <1>1, <1>2, SlotEnds, Zenon
<1>4. /\ buf_pool_ofs(p, posix) \in Nat /\ size \in Nat
      /\ buf_pool_ofs(p, posix) + p.buf_slots * buf_size(p) <= size
  BY Pool, Zenon
<1> HIDE DEF size
<1>5. /\ channel_buf(p, posix, i) = buf_pool_ofs(p, posix) + i * buf_size(p)
      /\ channel_buf(p, posix, i) \in Nat
  BY <1>3, <1>4 DEF channel_buf
<1>6. channel_buf(p, posix, i) + buf_size(p) <= size
  BY <1>1, <1>3, <1>4, <1>5, SMT
<1>7. p.buffer_size \in Nat /\ MACHNET_MSGBUF_SPACE_RESERVED \in Nat
      /\ MACHNET_MSGBUF_HEADROOM_MAX \in Nat
  BY Constants DEF ParamSet, MaxStruct
<1>8. channel_buf_base(channel_buf(p, posix, i)) + MsgBufSize(p)
        <= channel_buf(p, posix, i) + buf_size(p)
  BY <1>1, <1>5, <1>7, SMT DEF channel_buf_base, MsgBufSize
<1>9. channel_buf(p, posix, i) - buf_pool_ofs(p, posix) = i * buf_size(p)
  BY <1>3, <1>4, <1>5, SMT
<1>10. channel_buf_index(p, posix, channel_buf(p, posix, i)) = i
  BY <1>1, <1>2, <1>9, SlotIndex, Zenon DEF channel_buf_index
<1> QED
  BY <1>6, <1>8, <1>10, Zenon

\* The pages registered for DMA are pages of the channel.
LEMMA PagesAreSound ==
  ASSUME NEW p \in ParamSet, NEW posix \in BOOLEAN, Valid(p, posix)
  PROVE  PagesSound(p, posix, CalculateSize(p, posix))
<1> DEFINE b == Page(posix)
           len == channel_buf_pool_size(p)
           ofs == buf_pool_ofs(p, posix)
           size == CalculateSize(p, posix)
           n == pages_nr(p, posix)
<1>1. b \in Nat \ {0}
  BY PageSize, Zenon
<1>2. p.buf_slots \in Nat \ {0} /\ buf_size(p) \in Nat \ {0}
  BY ValidSizes, Zenon
<1>3. len \in Nat /\ len <= p.buf_slots * buf_size(p)
  <2>1. p.buf_slots - 1 \in Nat /\ (p.buf_slots - 1) + 1 <= p.buf_slots
    BY <1>2
  <2>2. /\ (p.buf_slots - 1) * buf_size(p) \in Nat
        /\ p.buf_slots * buf_size(p) \in Nat
        /\ ((p.buf_slots - 1) * buf_size(p)) + buf_size(p)
             <= p.buf_slots * buf_size(p)
    BY <1>2, <2>1, SlotEnds, Zenon
  <2> QED
    BY <1>2, <2>2 DEF channel_buf_pool_size, buf_pool_mask
<1>4. /\ ofs \in Nat /\ size \in Nat /\ ofs % b = 0 /\ size % b = 0
      /\ p.buf_slots * buf_size(p) \in Nat
      /\ ofs + p.buf_slots * buf_size(p) <= size
  BY Pool, Zenon
<1>5. n * b = ALIGN_TO_BOUNDARY(len, b) /\ n \in Nat
  <2>1. len + b - 1 \in Nat
    BY <1>1, <1>3
  <2>2. n \in Nat
    BY <1>1, <2>1, DivMod, Zenon DEF pages_nr
  <2> QED
    BY <2>2, Zenon DEF pages_nr, ALIGN_TO_BOUNDARY
<1> HIDE DEF b, len, ofs, size, n
<1>6. n * b \in Nat /\ len <= n * b /\ n * b < len + b
  BY <1>1, <1>3, <1>5, AlignUp, Zenon
<1>7. /\ ofs = (ofs \div b) * b /\ ofs \div b \in Nat
      /\ size = (size \div b) * b /\ size \div b \in Nat
  BY <1>1, <1>4, DivMod
<1> DEFINE f == ofs \div b
           t == size \div b
<1>8. f \in Nat /\ t \in Nat /\ ofs = f * b /\ size = t * b
  BY <1>7, Zenon
<1> HIDE DEF f, t
<1>9. (f + n) * b = ofs + (n * b)
  BY <1>1, <1>5, <1>8, SMT
<1>10. (f + n) * b < (t * b) + b
  BY <1>1, <1>3, <1>4, <1>6, <1>8, <1>9, SMT
<1>11. f + n <= t
  BY <1>1, <1>5, <1>8, <1>10, FactorOrder, SMT
<1>12. (f + n) * b <= t * b
  BY <1>1, <1>5, <1>8, <1>11, FactorMono, SMT
<1>13. ofs + (n * b) <= size /\ len <= n * b
  BY <1>6, <1>8, <1>9, <1>12, SMT
<1> QED
  BY <1>13, Zenon DEF PagesSound, b, len, ofs, size, n

\* Whatever parameters __machnet_channel_dataplane_calculate_size accepts, the
\* memory it asks for holds all that __machnet_channel_dataplane_init places in
\* it, without overlap, every buffer lies within its slot and the pages that
\* RegisterMemForDMA registers belong to the channel.
THEOREM LayoutIsSound ==
  ASSUME NEW p \in ParamSet, NEW posix \in BOOLEAN,
         CalculateSize(p, posix) # Bad
  PROVE  Sound(p, posix, CalculateSize(p, posix))
<1>1. Valid(p, posix)
  BY Zenon DEF CalculateSize
<1> QED
  BY <1>1, AreasAreSound, BuffersAreSound, PagesAreSound, Zenon DEF Sound

-----------------------------------------------------------------------------
(* The life of the memory.                                                  *)

\* The inductive invariant: what is held at each step of a creation can be
\* undone by the code that runs when the next step fails, and the size that is
\* mapped is the one calculated for the kind of memory.
Resources(posix) == {"fd", "map", "dma"} \cup IF posix THEN {"name"} ELSE {}

MemType ==
  [pc: {"none", "huge", "fallback", "posix", "mapped", "created", "aborted"},
   par: ParamSet, posix: BOOLEAN, size: Int,
   held: SUBSET {"fd", "map", "name", "dma"}, magic: BOOLEAN]

ClientType ==
  [pc: {"none", "bound"}, held: SUBSET {"fd", "map"}, par: ParamSet,
   posix: BOOLEAN, size: Int, of: Nat]

SizeRight(r) == r.size = CalculateSize(r.par, r.posix)

MemInv ==
  /\ mem \in MemType /\ client \in ClientType /\ creates \in Nat
  /\ NothingLeaked
  /\ mem.pc \in {"mapped", "created"} => mem.held \subseteq Resources(mem.posix)
  /\ mem.pc \in {"huge", "posix", "mapped", "created"} => SizeRight(mem)
  /\ mem.pc = "created" => mem.size # Bad
  /\ client.pc = "bound" => SizeRight(client) /\ client.size # Bad

\* A calculated size is an integer.
LEMMA SizeType ==
  ASSUME NEW p \in ParamSet, NEW posix \in BOOLEAN
  PROVE  CalculateSize(p, posix) \in Int
<1>1. CASE Valid(p, posix)
  BY <1>1, Pool
<1>2. CASE ~Valid(p, posix)
  BY <1>2 DEF CalculateSize, Bad
<1> QED
  BY <1>1, <1>2, Zenon

\* It holds at the start.
LEMMA MemInitInv == MemInit => MemInv
  BY DEF MemInit, MemInv, MemType, ClientType, NothingLeaked, None, ParamSet

\* The failed creation has undone all it acquired.
LEMMA UndoAll ==
  ASSUME NEW posix \in BOOLEAN, NEW fault \in Faults
  PROVE  /\ Undo(Acquired(posix, fault)) = {}
         /\ Acquired(posix, fault) \subseteq Resources(posix)
         /\ Acquired(posix, fault) \subseteq {"fd", "map", "name", "dma"}
  BY Zenon DEF Undo, Acquired, Resources, Faults

\* One of the two ways to create the memory.
LEMMA CreatedInv ==
  ASSUME MemInv, NEW fault \in Faults, NEW next \in {"fallback", "none"},
         mem.pc \in {"huge", "posix"}, mem' = Created(fault, next),
         UNCHANGED <<client, creates>>
  PROVE  MemInv'
<1>1. mem.held = {} /\ mem \in MemType /\ SizeRight(mem)
  BY Zenon DEF MemInv, NothingLeaked
<1>2. mem.posix \in BOOLEAN
  BY <1>1, Zenon DEF MemType
<1>3. CASE fault = "none"
  <2>1. mem' = [mem EXCEPT !.pc = "mapped",
                           !.held = mem.held \cup Acquired(mem.posix, fault)]
    BY <1>3, Zenon DEF Created
  <2> DEFINE got == Acquired(mem.posix, fault)
  <2>2. /\ got \subseteq Resources(mem.posix)
        /\ got \subseteq {"fd", "map", "name", "dma"}
    BY <1>2, UndoAll, Zenon
  <2>a. mem' = [mem EXCEPT !.pc = "mapped", !.held = got]
    BY <1>1, <2>1, Zenon
  <2> HIDE DEF got
  <2>3. mem' \in MemType /\ mem'.pc = "mapped" /\ mem'.posix = mem.posix
        /\ mem'.size = mem.size /\ mem'.par = mem.par
        /\ mem'.held = got
    BY <1>1, <2>a, <2>2, Zenon DEF MemType
  <2> QED
    BY <1>1, <2>2, <2>3, Zenon DEF MemInv, NothingLeaked, SizeRight
<1>4. CASE fault # "none"
  <2>1. mem' = [mem EXCEPT !.pc = next,
                  !.held = mem.held \cup Undo(Acquired(mem.posix, fault))]
    BY <1>4, Zenon DEF Created
  <2>2. mem' = [mem EXCEPT !.pc = next, !.held = {}]
    BY <1>1, <1>2, <2>1, UndoAll, Zenon
  <2> QED
    BY <1>1, <2>2, Zenon DEF MemInv, MemType, NothingLeaked, SizeRight
<1> QED
  BY <1>3, <1>4, Zenon

\* A channel that is destroyed holds nothing.
LEMMA DestroyedInv ==
  ASSUME MemInv, NEW n \in Int, mem.pc \in {"mapped", "created"},
         mem' = [Destroyed(mem) EXCEPT !.size = n], UNCHANGED <<client, creates>>
  PROVE  MemInv'
<1>1. mem \in MemType /\ mem.held \subseteq Resources(mem.posix)
  BY Zenon DEF MemInv
<1>2. Destroyed(mem) = [mem EXCEPT !.pc = "none", !.held = {}]
  BY <1>1, Zenon DEF Destroyed, Resources, MemType
<1>3. mem' = [mem EXCEPT !.pc = "none", !.held = {}, !.size = n]
  BY <1>1, <1>2, Zenon DEF MemType
<1> QED
  BY <1>1, <1>3, Zenon DEF MemInv, MemType, NothingLeaked, SizeRight

\* Every step preserves the invariant.
LEMMA MemStepInv ==
  ASSUME MemInv, [MemNext]_memVars PROVE MemInv'
<1> USE DEF MemInv
<1>1. ASSUME NEW p \in Params, AddChannel(p) PROVE MemInv'
  <2>1. p \in ParamSet
    BY MemAssumption, Zenon DEF MemAssumption, ParamSet
  <2>2. CalculateSize(p, FALSE) \in Int
    BY <2>1, SizeType, Zenon
  <2>3. mem.held = {} /\ mem \in MemType
    BY <1>1, Zenon DEF AddChannel, CreateBegins, NothingLeaked
  <2> DEFINE n == CalculateSize(p, FALSE)
  <2>4. mem' = [mem EXCEPT !.pc = "huge", !.par = p, !.posix = FALSE,
                           !.size = n, !.magic = FALSE]
    BY <1>1, Zenon DEF AddChannel, CreateBegins
  <2>5. client' = client /\ creates' \in Nat
    BY <1>1 DEF AddChannel, CreateBegins
  <2> HIDE DEF n
  <2>6. mem' \in MemType
    BY <2>1, <2>2, <2>3, <2>4, Zenon DEF MemType, n
  <2>7. /\ mem'.pc = "huge" /\ mem'.held = {} /\ mem'.size = n
        /\ mem'.par = p /\ mem'.posix = FALSE
    BY <2>3, <2>4, Zenon DEF MemType
  <2> QED
    BY <2>5, <2>6, <2>7, Zenon DEF NothingLeaked, SizeRight, n
<1>2. ASSUME NEW fault \in Faults, HugetlbfsCreate(fault) PROVE MemInv'
  BY <1>2, CreatedInv, Zenon DEF HugetlbfsCreate
<1>3. ASSUME NEW fault \in Faults, PosixCreate(fault) PROVE MemInv'
  BY <1>3, CreatedInv, Zenon DEF PosixCreate
<1>4. ASSUME Fallback PROVE MemInv'
  <2>1. CalculateSize(mem.par, TRUE) \in Int
    BY SizeType, Zenon DEF MemType
  <2> QED
    BY <1>4, <2>1, Zenon DEF Fallback, MemType, NothingLeaked, SizeRight
<1>5. ASSUME NEW ok \in BOOLEAN, DataplaneInit(ok) PROVE MemInv'
  <2>1. CASE ok
    BY <1>5, <2>1, Zenon DEF DataplaneInit, MemType, NothingLeaked, SizeRight
  <2>2. CASE ~ok
    BY <1>5, <2>2, DestroyedInv DEF DataplaneInit
  <2> QED
    BY <2>1, <2>2, Zenon
<1>6. ASSUME NEW ok \in BOOLEAN, RegisterMemForDMA(ok) PROVE MemInv'
  <2>1. CASE ok
    BY <1>6, <2>1, Zenon
       DEF RegisterMemForDMA, MemType, NothingLeaked, SizeRight, Resources
  <2>2. CASE ~ok
    BY <1>6, <2>2, Zenon DEF RegisterMemForDMA, MemType, NothingLeaked, SizeRight
  <2> QED
    BY <2>1, <2>2, Zenon
<1>7. ASSUME NEW ok \in BOOLEAN, machnet_bind(ok) PROVE MemInv'
  BY <1>7, Zenon DEF machnet_bind, MemType, ClientType, NothingLeaked, SizeRight
<1>8. ASSUME Destroy PROVE MemInv'
  <2>1. mem.size \in Int /\ mem' = [Destroyed(mem) EXCEPT !.size = mem.size]
    BY <1>8, Zenon DEF Destroy, Destroyed, MemType
  <2> QED
    BY <1>8, <2>1, DestroyedInv, Zenon DEF Destroy
<1>9. ASSUME ClientExit PROVE MemInv'
  BY <1>9 DEF ClientExit, ClientType, None, ParamSet, NothingLeaked, SizeRight
<1>10. CASE UNCHANGED memVars
  BY <1>10, Zenon DEF memVars, NothingLeaked, SizeRight
<1> QED
  BY <1>1, <1>2, <1>3, <1>4, <1>5, <1>6, <1>7, <1>8, <1>9, <1>10, Zenon DEF MemNext

\* The process that creates and destroys channels leaks no descriptor, mapping,
\* name or registration, whichever of the system calls of a creation fails.
THEOREM CreationLeaksNothing == MemSpec => []NothingLeaked
<1>1. MemInv => NothingLeaked
  BY Zenon DEF MemInv
<1> QED
  BY <1>1, MemInitInv, MemStepInv, PTL DEF MemSpec

\* The layout fits the memory that is mapped, on both sides of the channel.
THEOREM MappedLayoutSound == MemSpec => []LayoutSound
<1>1. MemInv => LayoutSound
  BY LayoutIsSound DEF MemInv, LayoutSound, SizeRight, MemType, ClientType
<1> QED
  BY <1>1, MemInitInv, MemStepInv, PTL DEF MemSpec

-----------------------------------------------------------------------------
(* The controller. An engine takes a new channel in a slow tick, while the *)
(* controller waits and the client may exit; it drops the channels of an   *)
(* application in a later one. The invariant says where a channel can be   *)
(* in between: in the queue of the engine that the controller waits for,   *)
(* and in no engine's removal queue while its application is registered.   *)

\* The values of the variables.
AppType == [pc: {"idle", "init", "attach", "exited"}, uuid: BOOLEAN,
            init: {"no", "ok", "failed"}, calls: Nat,
            held: SUBSET (Apps \X Nat)]
ConnType == [st: {"none", "backlog", "open"},
             req: {NoReq, Register} \cup Channels,
             resp: {"none", "ok", "fail", "closed"}, up: BOOLEAN,
             registered: BOOLEAN]
RegistryType == [apps: SUBSET Apps, owned: [Apps -> SUBSET Channels]]
EngineType == [channels: SUBSET Channels, enq: SUBSET Channels,
               deq: SUBSET Channels]
CtlType == [pc: {"down", "launching", "created", "serving", "waiting", "pausing",
                 "terminating", "exited", "crashed"},
            keep_running: BOOLEAN, app: Apps \cup {"none"},
            chan: {NoReq} \cup Channels, promise: BOOLEAN, left: SUBSET Engines,
            addIndex: Engines \cup {NoEngine},
            removeIndex: Engines \cup {NoEngine}]

ControllerType ==
  /\ app \in [Apps -> AppType] /\ conn \in [Apps -> [Kinds -> ConnType]]
  /\ registry \in RegistryType /\ manager \subseteq Channels
  /\ engine \in [Engines -> EngineType] /\ ctl \in CtlType

\* A socket is closed only by the end of its application, and calls are made
\* only to a controller that listens.
AppOK(x) ==
  /\ app[x].pc = "exited" => app[x].held = {}
  /\ app[x].pc \in {"init", "attach"} => ctl.pc \notin {"down", "launching"}
  /\ \A k \in Kinds :
       conn[x][k].st # "none" /\ ~conn[x][k].up => app[x].pc = "exited"

Own(x) == {x} \X Nat
Granted(x, c) == x \in registry.apps /\ c \in registry.owned[x] /\ c \in manager
Served(c) ==
  \E y \in Engines : c \in engine[y].channels /\ c \notin engine[y].deq

\* An application registers once: what it owned in an earlier life is not
\* taken from an engine in a later one.
NewOK(x) ==
  /\ registry.owned[x] \subseteq Own(x)
  /\ ~app[x].uuid => conn[x]["ctl"].req = NoReq
  /\ ~app[x].uuid \/ conn[x]["ctl"].req = Register => x \notin registry.apps
  /\ ~app[x].uuid \/ conn[x]["ctl"].req = Register \/ x \in registry.apps =>
       \A y \in Engines : engine[y].deq \cap Own(x) = {}

\* A request is that of the call the application is in, and an answer says that
\* its channel is served.
CallOK(x) ==
  LET q == conn[x]["req"]
      c == <<x, app[x].calls>>
  IN  /\ \A d \in app[x].held : d \in Own(x) /\ Granted(x, d) /\ Served(d)
      /\ q.req # NoReq =>
           q.req = c /\ q.resp = "none" /\ app[x].pc \in {"attach", "exited"}
      /\ app[x].pc = "attach" /\ q.resp = "ok" => Granted(x, c) /\ Served(c)

\* The controller waits for the engine that has the new channel in its queue.
WaitOK ==
  ctl.pc = "waiting" =>
    /\ ctl.app \in Apps /\ ctl.chan = conn[ctl.app]["req"].req
    /\ ctl.chan # NoReq /\ Granted(ctl.app, ctl.chan)
    /\ \/ Served(ctl.chan)
       \/ /\ ~ctl.promise
          /\ \E y \in Engines : /\ ctl.chan \in engine[y].enq
                                /\ ctl.chan \notin engine[y].deq

Over == ctl.pc \in {"pausing", "terminating", "exited", "crashed"}

\* As long as the controller serves; what an engine still does for a process
\* that ends is not constrained.
ControllerInv ==
  /\ ControllerType
  /\ \A x \in Apps : AppOK(x) /\ (Over \/ (NewOK(x) /\ CallOK(x)))
  /\ WaitOK

\* It holds at the start.
LEMMA ControllerInit == Init => ControllerInv
<1> SUFFICES ASSUME Init PROVE ControllerInv
  BY Zenon
<1>1. ControllerType
  BY ControllerAssumption, Zenon DEF ControllerAssumption, Init, ControllerType, AppType, ConnType, RegistryType,
     EngineType, CtlType, NoConn, Kinds
<1>2. ASSUME NEW x \in Apps PROVE AppOK(x) /\ NewOK(x) /\ CallOK(x)
  BY Zenon DEF Init, AppOK, NewOK, CallOK, NoConn, Kinds, Register, NoReq
<1>3. WaitOK
  BY Zenon DEF Init, WaitOK
<1> QED
  BY <1>1, <1>2, <1>3, Zenon DEF ControllerInv

\* A new connection.
LEMMA ConnectionFacts ==
  \A r \in {Register} \cup Channels :
    /\ Connection(r) \in ConnType /\ Connection(r).req = r
    /\ Connection(r).resp = "none" /\ Connection(r).up = TRUE
  BY Zenon DEF Connection, NoConn, ConnType

\* The record of one application changes.
LEMMA SetApp ==
  ASSUME NEW A, NEW B, NEW x \in Apps, NEW r \in AppType, A \in [Apps -> AppType],
         B = [A EXCEPT ![x] = r]
  PROVE  /\ B \in [Apps -> AppType] /\ B[x] = r
         /\ \A z \in Apps : z # x => B[z] = A[z]
  BY Zenon

\* One connection changes.
LEMMA SetConn ==
  ASSUME NEW C, NEW D, NEW x \in Apps, NEW k \in Kinds, NEW r \in ConnType,
         C \in [Apps -> [Kinds -> ConnType]], D = [C EXCEPT ![x][k] = r]
  PROVE  /\ D \in [Apps -> [Kinds -> ConnType]] /\ D[x][k] = r
         /\ \A z \in Apps, j \in Kinds : z # x \/ j # k => D[z][j] = C[z][j]
  BY Zenon

\* The controller moves on, and nothing else happens.
LEMMA CtlMoves ==
  ASSUME ControllerInv, UNCHANGED <<app, conn, registry, manager, engine>>,
         ctl' \in CtlType, Over => Over',
         ctl'.pc \in {"down", "launching"} => ctl.pc \in {"down", "launching"},
         ctl'.pc = "waiting" => /\ ctl.pc = "waiting" /\ ctl'.app = ctl.app
                                /\ ctl'.chan = ctl.chan
                                /\ ctl'.promise = ctl.promise
  PROVE  ControllerInv'
<1>1. ControllerType'
  BY Zenon DEF ControllerInv, ControllerType
<1>2. ASSUME NEW x \in Apps
      PROVE  AppOK(x)' /\ (Over' \/ (NewOK(x)' /\ CallOK(x)'))
  <2>1. AppOK(x) /\ (Over \/ (NewOK(x) /\ CallOK(x)))
    BY Zenon DEF ControllerInv
  <2>2. AppOK(x)'
    BY <2>1, Zenon DEF AppOK
  <2>3. NewOK(x) => NewOK(x)'
    BY Zenon DEF NewOK
  <2>4. CallOK(x) => CallOK(x)'
    BY Zenon DEF CallOK, Granted, Served
  <2> QED
    BY <2>1, <2>2, <2>3, <2>4, Zenon
<1>3. WaitOK'
  <2> SUFFICES ASSUME ctl'.pc = "waiting"
               PROVE  WaitOK'
    BY Zenon DEF WaitOK
  <2>1. WaitOK
    BY Zenon DEF ControllerInv
  <2> QED
    BY <2>1, Zenon DEF WaitOK, Granted, Served
<1> QED
  BY <1>1, <1>2, <1>3, Zenon DEF ControllerInv

\* An application moves on: its record and its connections may change.
LEMMA ClientMoves ==
  ASSUME ControllerInv, NEW a \in Apps, UNCHANGED <<registry, manager, engine, ctl>>,
         app' \in [Apps -> AppType], conn' \in [Apps -> [Kinds -> ConnType]],
         \A z \in Apps : z # a =>
            app'[z] = app[z] /\ \A k \in Kinds : conn'[z][k] = conn[z][k],
         AppOK(a)', ~Over => NewOK(a)' /\ CallOK(a)',
         ctl.pc = "waiting" /\ ctl.app = a =>
           conn'[a]["req"].req = conn[a]["req"].req
  PROVE  ControllerInv'
<1>0. "ctl" \in Kinds /\ "req" \in Kinds
  BY Zenon DEF Kinds
<1>1. ControllerType'
  BY Zenon DEF ControllerInv, ControllerType
<1>2. Over' <=> Over
  BY Zenon DEF Over
<1>3. ASSUME NEW x \in Apps
      PROVE  AppOK(x)' /\ (Over' \/ (NewOK(x)' /\ CallOK(x)'))
  <2>1. AppOK(x) /\ (Over \/ (NewOK(x) /\ CallOK(x)))
    BY Zenon DEF ControllerInv
  <2>2. CASE x = a
    BY <1>2, <2>2, Zenon
  <2>3. CASE x # a
    <3>1. /\ app'[x] = app[x] /\ \A k \in Kinds : conn'[x][k] = conn[x][k]
      BY <2>3, Zenon
    <3>2. AppOK(x)'
      BY <2>1, <3>1, Zenon DEF AppOK
    <3>3. NewOK(x) => NewOK(x)'
      BY <1>0, <3>1, Zenon DEF NewOK
    <3>4. CallOK(x) => CallOK(x)'
      BY <1>0, <3>1, Zenon DEF CallOK, Granted, Served
    <3> QED
      BY <1>2, <2>1, <3>2, <3>3, <3>4, Zenon
  <2> QED
    BY <2>2, <2>3, Zenon
<1>4. WaitOK'
  <2> SUFFICES ASSUME ctl.pc = "waiting"
               PROVE  WaitOK'
    BY Zenon DEF WaitOK
  <2>1. WaitOK
    BY Zenon DEF ControllerInv
  <2>2. ctl.app \in Apps /\ conn'[ctl.app]["req"].req = conn[ctl.app]["req"].req
    BY <1>0, <2>1, Zenon DEF WaitOK
  <2> QED
    BY <2>1, <2>2, Zenon DEF WaitOK, Granted, Served
<1> QED
  BY <1>1, <1>3, <1>4, Zenon DEF ControllerInv

\* machnet_init.
LEMMA InitCallStep ==
  ASSUME ControllerInv, NEW a \in Apps, machnet_init(a)
  PROVE  ControllerInv'
<1>1. /\ app[a] \in AppType /\ app \in [Apps -> AppType] /\ app[a].pc = "idle"
      /\ conn \in [Apps -> [Kinds -> ConnType]] /\ "ctl" \in Kinds /\ "req" \in Kinds
      /\ "ctl" # "req" /\ AppOK(a) /\ (~Over => NewOK(a) /\ CallOK(a))
      /\ UNCHANGED <<registry, manager, engine, ctl>>
  BY Zenon DEF ControllerInv, ControllerType, machnet_init, Kinds
<1>2. CASE /\ \E r \in AppType :
                /\ app' = [app EXCEPT ![a] = r]
                /\ r.pc = "idle" /\ r.held = app[a].held /\ r.calls = app[a].calls
                /\ r.uuid
           /\ UNCHANGED conn
  <2>1. PICK r \in AppType : /\ app' = [app EXCEPT ![a] = r]
                             /\ r.pc = "idle" /\ r.held = app[a].held
                             /\ r.calls = app[a].calls /\ r.uuid
    BY <1>2, Zenon
  <2>2. /\ app' \in [Apps -> AppType] /\ app'[a] = r
        /\ \A z \in Apps : z # a => app'[z] = app[z]
    BY <1>1, <2>1, SetApp, Zenon
  <2>3. AppOK(a)'
    BY <1>1, <1>2, <2>1, <2>2, Zenon DEF AppOK
  <2>4. NewOK(a) => NewOK(a)'
    BY <1>1, <1>2, <2>1, <2>2, Zenon DEF NewOK
  <2>5. CallOK(a) => CallOK(a)'
    BY <1>1, <1>2, <2>1, <2>2, Zenon DEF CallOK, Granted, Served
  <2> QED
    BY <1>1, <1>2, <2>2, <2>3, <2>4, <2>5, ClientMoves, Zenon
<1>3. CASE /\ ~app[a].uuid /\ Listening
           /\ app' = [app EXCEPT ![a].uuid = TRUE, ![a].pc = "init"]
           /\ conn' = [conn EXCEPT ![a]["ctl"] = Connection(Register)]
  <2> DEFINE r == [app[a] EXCEPT !.uuid = TRUE, !.pc = "init"]
             n == Connection(Register)
  <2>1. /\ r \in AppType /\ r.pc = "init" /\ r.held = app[a].held
        /\ r.calls = app[a].calls /\ r.uuid
    BY <1>1, Zenon DEF AppType
  <2>2. app' = [app EXCEPT ![a] = r]
    BY <1>1, <1>3, Zenon
  <2>3. n \in ConnType /\ n.req = Register /\ n.resp = "none" /\ n.up = TRUE
    BY ConnectionFacts, Zenon
  <2> HIDE DEF r, n
  <2>4. /\ app' \in [Apps -> AppType] /\ app'[a] = r
        /\ \A z \in Apps : z # a => app'[z] = app[z]
    BY <1>1, <2>1, <2>2, SetApp, Zenon
  <2>5. /\ conn' \in [Apps -> [Kinds -> ConnType]] /\ conn'[a]["ctl"] = n
        /\ \A z \in Apps, j \in Kinds :
             z # a \/ j # "ctl" => conn'[z][j] = conn[z][j]
    BY <1>1, <1>3, <2>3, SetConn DEF n
  <2>6. conn'[a]["req"] = conn[a]["req"]
    BY <1>1, <2>5, Zenon
  <2>7. AppOK(a)'
    BY <1>1, <1>3, <2>1, <2>3, <2>4, <2>5 DEF AppOK, Listening, Gone
  <2>8. NewOK(a) => NewOK(a)'
    BY <1>1, <1>3, <2>1, <2>3, <2>4, <2>5, Zenon DEF NewOK
  <2>9. CallOK(a) => CallOK(a)'
    BY <1>1, <2>1, <2>4, <2>6, Zenon DEF CallOK, Granted, Served
  <2> QED
    BY <1>1, <2>4, <2>5, <2>6, <2>7, <2>8, <2>9, ClientMoves, Zenon
<1>4. CASE app[a].uuid /\ app' = [app EXCEPT ![a].init = "ok"] /\ UNCHANGED conn
  <2> DEFINE r == [app[a] EXCEPT !.init = "ok"]
  <2>1. /\ r \in AppType /\ r.pc = "idle" /\ r.held = app[a].held
        /\ r.calls = app[a].calls /\ r.uuid
    BY <1>1, <1>4, Zenon DEF AppType
  <2>2. app' = [app EXCEPT ![a] = r]
    BY <1>1, <1>4, Zenon
  <2> QED
    BY <1>2, <1>4, <2>1, <2>2, Zenon
<1>5. CASE /\ app' = [app EXCEPT ![a].uuid = TRUE, ![a].init = "failed"]
           /\ UNCHANGED conn
  <2> DEFINE r == [app[a] EXCEPT !.uuid = TRUE, !.init = "failed"]
  <2>1. /\ r \in AppType /\ r.pc = "idle" /\ r.held = app[a].held
        /\ r.calls = app[a].calls /\ r.uuid
    BY <1>1, Zenon DEF AppType
  <2>2. app' = [app EXCEPT ![a] = r]
    BY <1>1, <1>5, Zenon
  <2> QED
    BY <1>2, <1>5, <2>1, <2>2, Zenon
<1> QED
  BY <1>3, <1>4, <1>5, Zenon DEF machnet_init

\* What the invariant says of one application.
LEMMA ClientFacts ==
  ASSUME ControllerInv, NEW a \in Apps
  PROVE  /\ app[a] \in AppType /\ app \in [Apps -> AppType]
         /\ conn \in [Apps -> [Kinds -> ConnType]]
         /\ "ctl" \in Kinds /\ "req" \in Kinds /\ Kinds = {"ctl", "req"}
         /\ conn[a]["ctl"] \in ConnType /\ conn[a]["req"] \in ConnType
         /\ AppOK(a) /\ (~Over => NewOK(a) /\ CallOK(a))
  BY Zenon DEF ControllerInv, ControllerType, Kinds

\* The end of machnet_init.
LEMMA InitReturnsStep ==
  ASSUME ControllerInv, NEW a \in Apps, InitReturns(a)
  PROVE  ControllerInv'
<1> DEFINE init == IF conn[a]["ctl"].resp = "ok" THEN "ok" ELSE "failed"
           r == [app[a] EXCEPT !.pc = "idle", !.init = init]
<1>1. /\ app[a].pc = "init" /\ UNCHANGED <<conn, registry, manager, engine, ctl>>
      /\ app' = [app EXCEPT ![a].pc = "idle", ![a].init = init]
  BY Zenon DEF InitReturns
<1>2. init \in {"ok", "failed"}
  BY Zenon
<1> HIDE DEF init
<1>3. /\ r \in AppType /\ r.pc = "idle" /\ r.held = app[a].held
      /\ r.calls = app[a].calls /\ r.uuid = app[a].uuid
  BY <1>2, ClientFacts, Zenon DEF AppType
<1>4. app' = [app EXCEPT ![a] = r]
  BY <1>1, ClientFacts, Zenon
<1> HIDE DEF r
<1>5. /\ app' \in [Apps -> AppType] /\ app'[a] = r
      /\ \A z \in Apps : z # a => app'[z] = app[z]
  BY <1>3, <1>4, SetApp, ClientFacts, Zenon
<1>6. AppOK(a)'
  BY <1>1, <1>3, <1>5, ClientFacts, Zenon DEF AppOK
<1>7. NewOK(a) => NewOK(a)'
  BY <1>1, <1>3, <1>5, Zenon DEF NewOK
<1>8. CallOK(a) => CallOK(a)'
  BY <1>1, <1>3, <1>5, Zenon DEF CallOK, Granted, Served
<1> QED
  BY <1>1, <1>5, <1>6, <1>7, <1>8, ClientFacts, ClientMoves, Zenon

\* machnet_attach.
LEMMA AttachCallStep ==
  ASSUME ControllerInv, NEW a \in Apps, machnet_attach(a)
  PROVE  ControllerInv'
<1> DEFINE n == app[a].calls + 1
           pc == IF Listening THEN "attach" ELSE "idle"
           r == [app[a] EXCEPT !.calls = n, !.pc = pc]
           c == Connection(<<a, n>>)
<1>1. /\ app[a].pc = "idle" /\ app[a].calls < MaxAttach[a]
      /\ UNCHANGED <<registry, manager, engine, ctl>>
      /\ app' = [app EXCEPT ![a].calls = @ + 1, ![a].pc = pc]
      /\ conn' = IF Listening THEN [conn EXCEPT ![a]["req"] = c] ELSE conn
  BY Zenon DEF machnet_attach
<1>2. n \in Nat /\ <<a, n>> \in Channels
  <2>1. n \in 1..MaxAttach[a]
    BY <1>1, ClientFacts, ControllerAssumption DEF AppType, ControllerAssumption
  <2> QED
    BY <2>1 DEF Channels
<1>3. pc \in {"attach", "idle"} /\ (pc = "attach" <=> Listening)
  BY Zenon
<1>4. app' = [app EXCEPT ![a] = r]
  BY <1>1, ClientFacts, Zenon DEF AppType
<1> HIDE DEF pc, n
<1>5. /\ r \in AppType /\ r.pc = pc /\ r.held = app[a].held
      /\ r.calls = n /\ r.uuid = app[a].uuid
  BY <1>2, <1>3, ClientFacts, Zenon DEF AppType
<1>6. c \in ConnType /\ c.req = <<a, n>> /\ c.resp = "none" /\ c.up = TRUE
  BY <1>2, ConnectionFacts, Zenon
<1> HIDE DEF r, c
<1>7. /\ app' \in [Apps -> AppType] /\ app'[a] = r
      /\ \A z \in Apps : z # a => app'[z] = app[z]
  BY <1>4, <1>5, SetApp, ClientFacts, Zenon
<1>8. CASE Listening
  <2>1. /\ conn' \in [Apps -> [Kinds -> ConnType]] /\ conn'[a]["req"] = c
        /\ \A z \in Apps, j \in Kinds :
             z # a \/ j # "req" => conn'[z][j] = conn[z][j]
    BY <1>1, <1>6, <1>8, SetConn, ClientFacts
  <2>2. conn'[a]["ctl"] = conn[a]["ctl"]
    BY <2>1, ClientFacts, Zenon
  <2>3. AppOK(a)'
    BY <1>1, <1>3, <1>5, <1>6, <1>7, <1>8, <2>1, ClientFacts
       DEF AppOK, Listening, Gone
  <2>4. NewOK(a) => NewOK(a)'
    BY <1>1, <1>5, <1>7, <2>2, Zenon DEF NewOK
  <2>5. CallOK(a) => CallOK(a)'
    <3>1. app'[a].calls = n /\ app'[a].held = app[a].held /\ app'[a].pc = "attach"
      BY <1>3, <1>5, <1>7, <1>8, Zenon
    <3>2. conn'[a]["req"].req = <<a, n>> /\ conn'[a]["req"].resp = "none"
      BY <1>6, <2>1, Zenon
    <3>3. CallOK(a) => \A z \in app'[a].held :
                         z \in Own(a) /\ Granted(a, z)' /\ Served(z)'
      BY <1>1, <3>1, Zenon DEF CallOK, Granted, Served
    <3> QED
      BY <3>1, <3>2, <3>3, Zenon DEF CallOK
  <2>6. ~(ctl.pc = "waiting" /\ ctl.app = a)
    BY <1>1, ClientFacts, Zenon DEF ControllerInv, WaitOK, CallOK, Over
  <2> QED
    BY <1>1, <1>7, <2>1, <2>3, <2>4, <2>5, <2>6, ClientFacts, ClientMoves, Zenon
<1>9. CASE ~Listening
  <2>1. UNCHANGED conn
    BY <1>1, <1>9, Zenon
  <2>2. AppOK(a)'
    BY <1>1, <1>3, <1>5, <1>7, <1>9, <2>1, ClientFacts, Zenon DEF AppOK
  <2>3. NewOK(a) => NewOK(a)'
    BY <1>1, <1>5, <1>7, <2>1, Zenon DEF NewOK
  <2>4. CallOK(a) => CallOK(a)'
    BY <1>1, <1>3, <1>5, <1>7, <1>9, <2>1, Zenon DEF CallOK, Granted, Served
  <2> QED
    BY <1>1, <1>7, <2>1, <2>2, <2>3, <2>4, ClientFacts, ClientMoves, Zenon
<1> QED
  BY <1>8, <1>9, Zenon

\* The end of machnet_attach.
LEMMA AttachReturnsStep ==
  ASSUME ControllerInv, NEW a \in Apps, AttachReturns(a)
  PROVE  ControllerInv'
<1> DEFINE d == <<a, app[a].calls>>
<1>1. PICK bound \in BOOLEAN :
        /\ app[a].pc = "attach" /\ (conn[a]["req"].resp # "none" \/ Gone)
        /\ UNCHANGED <<conn, registry, manager, engine, ctl>>
        /\ app' = [app EXCEPT ![a].pc = "idle",
                              ![a].held = @ \cup Attached(a, bound)]
  BY Zenon DEF AttachReturns
<1> DEFINE new == Attached(a, bound)
           r == [app[a] EXCEPT !.pc = "idle", !.held = @ \cup new]
<1>2. d \in Own(a) /\ d \in Apps \X Nat
  BY ClientFacts, ControllerAssumption, Zenon DEF AppType, Own, ControllerAssumption
<1>3. new \subseteq {d} /\ (conn[a]["req"].resp # "ok" => new = {})
  BY Zenon DEF Attached
<1> HIDE DEF new, d
<1>4. /\ r \in AppType /\ r.pc = "idle" /\ r.held = app[a].held \cup new
      /\ r.calls = app[a].calls /\ r.uuid = app[a].uuid
  BY <1>2, <1>3, ClientFacts DEF AppType
<1>5. app' = [app EXCEPT ![a] = r]
  BY <1>1, ClientFacts, Zenon DEF AppType, new
<1> HIDE DEF r
<1>6. /\ app' \in [Apps -> AppType] /\ app'[a] = r
      /\ \A z \in Apps : z # a => app'[z] = app[z]
  BY <1>4, <1>5, SetApp, ClientFacts, Zenon
<1>7. AppOK(a)'
  BY <1>1, <1>4, <1>6, ClientFacts, Zenon DEF AppOK
<1>8. NewOK(a) => NewOK(a)'
  BY <1>1, <1>4, <1>6, Zenon DEF NewOK
<1>9. ASSUME ~Over
      PROVE  CallOK(a)'
  <2>1. CallOK(a) /\ conn[a]["req"].resp # "none"
    BY <1>1, <1>9, ClientFacts, Zenon DEF AppOK, Gone, Over
  <2>2. new # {} => Granted(a, d) /\ Served(d)
    BY <1>1, <1>3, <2>1, Zenon DEF CallOK, d
  <2>3. \A z \in app[a].held \cup new : z \in Own(a) /\ Granted(a, z) /\ Served(z)
    <3>1. ASSUME NEW z \in new
          PROVE  z \in Own(a) /\ Granted(a, z) /\ Served(z)
      <4>1. z = d
        BY <1>3, Zenon
      <4> QED
        BY <1>2, <2>2, <4>1, Zenon
    <3>2. \A z \in app[a].held : z \in Own(a) /\ Granted(a, z) /\ Served(z)
      BY <2>1, Zenon DEF CallOK
    <3> QED
      BY <3>1, <3>2, Zenon
  <2>4. conn[a]["req"].req = NoReq
    BY <2>1, Zenon DEF CallOK
  <2>5. \A z \in app'[a].held :
           z \in Own(a) /\ Granted(a, z)' /\ Served(z)'
    BY <1>1, <1>4, <1>6, <2>3, Zenon DEF Granted, Served
  <2> QED
    BY <1>1, <1>4, <1>6, <2>4, <2>5, Zenon DEF CallOK
<1> QED
  BY <1>1, <1>6, <1>7, <1>8, <1>9, ClientFacts, ClientMoves, Zenon

\* The end of an application.
LEMMA ExitStep ==
  ASSUME ControllerInv, NEW a \in Apps, Exit(a)
  PROVE  ControllerInv'
<1> DEFINE r == [app[a] EXCEPT !.pc = "exited", !.held = {}]
           C == [k \in Kinds |-> [conn[a][k] EXCEPT !.up = FALSE]]
<1>1. /\ UNCHANGED <<registry, manager, engine, ctl>>
      /\ app' = [app EXCEPT ![a].pc = "exited", ![a].held = {}]
      /\ conn' = [conn EXCEPT ![a] = C]
  BY ClientFacts, Zenon DEF Exit
<1>2. /\ r \in AppType /\ r.pc = "exited" /\ r.held = {}
      /\ r.calls = app[a].calls /\ r.uuid = app[a].uuid
  BY ClientFacts, Zenon DEF AppType
<1>3. app' = [app EXCEPT ![a] = r]
  BY <1>1, ClientFacts, Zenon DEF AppType
<1>4. /\ C \in [Kinds -> ConnType]
      /\ \A k \in Kinds : /\ C[k].req = conn[a][k].req
                          /\ C[k].resp = conn[a][k].resp
  BY ClientFacts DEF ConnType
<1> HIDE DEF r, C
<1>5. /\ app' \in [Apps -> AppType] /\ app'[a] = r
      /\ \A z \in Apps : z # a => app'[z] = app[z]
  BY <1>2, <1>3, SetApp, ClientFacts, Zenon
<1>6. /\ conn' \in [Apps -> [Kinds -> ConnType]] /\ conn'[a] = C
      /\ \A z \in Apps : z # a => conn'[z] = conn[z]
  BY <1>1, <1>4, ClientFacts, Zenon
<1>7. AppOK(a)'
  BY <1>2, <1>5, Zenon DEF AppOK
<1>8. NewOK(a) => NewOK(a)'
  BY <1>1, <1>2, <1>4, <1>5, <1>6, ClientFacts, Zenon DEF NewOK
<1>9. CallOK(a) => CallOK(a)'
  BY <1>1, <1>2, <1>4, <1>5, <1>6, ClientFacts DEF CallOK, Granted, Served
<1> QED
  BY <1>1, <1>4, <1>5, <1>6, <1>7, <1>8, <1>9, ClientFacts, ClientMoves, Zenon

\* A connection is accepted, or closed for want of a context.
LEMMA NewConnectionStep ==
  ASSUME ControllerInv, NEW a \in Apps, NEW k \in Kinds, HandleNewConnection(a, k)
  PROVE  ControllerInv'
<1>1. PICK ok \in BOOLEAN :
        /\ ctl.pc = "serving" /\ conn[a][k].st = "backlog"
        /\ UNCHANGED <<app, registry, manager, engine, ctl>>
        /\ conn' = [conn EXCEPT ![a][k] = AllocateUserData(@, ok)]
  BY Zenon DEF HandleNewConnection
<1> DEFINE c == AllocateUserData(conn[a][k], ok)
<1>2. conn[a][k] \in ConnType
  BY ClientFacts, Zenon
<1>3. /\ c \in ConnType /\ (c.st # "none" => c.up = conn[a][k].up)
      /\ c.req \in {NoReq, conn[a][k].req}
      /\ (c.req # NoReq => c.resp = conn[a][k].resp)
      /\ (c.resp = "ok" => conn[a][k].resp = "ok")
  BY <1>2, Zenon DEF AllocateUserData, ConnType, NoConn
<1>4. conn' = [conn EXCEPT ![a][k] = c]
  BY <1>1, ClientFacts, Zenon
<1> HIDE DEF c
<1>5. /\ conn' \in [Apps -> [Kinds -> ConnType]] /\ conn'[a][k] = c
      /\ \A z \in Apps, j \in Kinds : z # a \/ j # k => conn'[z][j] = conn[z][j]
  BY <1>3, <1>4, SetConn, ClientFacts
<1>6. AppOK(a)'
  BY <1>1, <1>3, <1>5, ClientFacts DEF AppOK
<1>7. /\ \A j \in Kinds : /\ conn'[a][j].req \in {NoReq, conn[a][j].req}
                           /\ (conn'[a][j].req # NoReq =>
                                 conn'[a][j].resp = conn[a][j].resp)
                           /\ (conn'[a][j].resp = "ok" => conn[a][j].resp = "ok")
      /\ NoReq # Register
  BY <1>3, <1>5, Zenon DEF NoReq, Register
<1>8. NewOK(a) => NewOK(a)'
  BY <1>1, <1>7, ClientFacts, Zenon DEF NewOK
<1>9. CallOK(a) => CallOK(a)'
  BY <1>1, <1>7, ClientFacts, Zenon DEF CallOK, Granted, Served
<1> QED
  BY <1>1, <1>5, <1>6, <1>8, <1>9, ClientFacts, ClientMoves, Zenon

-----------------------------------------------------------------------------
(* The controller registers and creates.                                    *)

\* An answer ends the process when its client has gone.
LEMMA RespondFacts ==
  ASSUME ControllerInv, NEW a \in Apps, NEW k \in Kinds,
         NEW status \in {"ok", "fail"}, Respond(a, k, status, "serving")
  PROVE  /\ ctl' \in CtlType /\ conn' \in [Apps -> [Kinds -> ConnType]]
         /\ \A z \in Apps, j \in Kinds : z # a \/ j # k => conn'[z][j] = conn[z][j]
         /\ conn'[a][k].st = conn[a][k].st /\ conn'[a][k].up = conn[a][k].up
         /\ ctl'.addIndex = ctl.addIndex /\ ctl'.removeIndex = ctl.removeIndex
         /\ \/ ctl'.pc = "crashed" /\ UNCHANGED conn
            \/ /\ ctl'.pc = "serving" /\ conn[a][k].up
               /\ conn'[a][k].req = NoReq /\ conn'[a][k].resp = status
<1>1. /\ conn[a][k] \in ConnType /\ ctl \in CtlType
      /\ conn \in [Apps -> [Kinds -> ConnType]]
  BY ClientFacts, Zenon DEF ControllerInv, ControllerType
<1>2. CASE conn[a][k].up
  <2> DEFINE c == Answered(conn[a][k], k, status)
             t == [ctl EXCEPT !.pc = "serving", !.app = "none", !.chan = NoReq]
  <2>1. /\ c \in ConnType /\ c.st = conn[a][k].st /\ c.up = conn[a][k].up
        /\ c.req = NoReq /\ c.resp = status
    <3> DEFINE b == conn[a][k].registered \/ k = "ctl"
    <3>1. b \in BOOLEAN
      BY Zenon
    <3>2. c = [conn[a][k] EXCEPT !.resp = status, !.req = NoReq, !.registered = b]
      BY <1>1, Zenon DEF ConnType, Answered
    <3> HIDE DEF b, c
    <3> QED
      BY <1>1, <3>1, <3>2, Zenon DEF ConnType
  <2>4. conn' = [conn EXCEPT ![a][k] = c]
    BY <1>1, <1>2, Zenon DEF Respond
  <2>2. /\ t \in CtlType /\ t.pc = "serving" /\ t.addIndex = ctl.addIndex
        /\ t.removeIndex = ctl.removeIndex
    BY <1>1, Zenon DEF CtlType
  <2>3. ctl' = t
    BY <1>2, Zenon DEF Respond
  <2> HIDE DEF c, t
  <2>5. /\ conn' \in [Apps -> [Kinds -> ConnType]] /\ conn'[a][k] = c
        /\ \A z \in Apps, j \in Kinds : z # a \/ j # k => conn'[z][j] = conn[z][j]
    BY <1>1, <2>1, <2>4, SetConn, Zenon
  <2> QED
    BY <1>2, <2>1, <2>2, <2>3, <2>5, Zenon
<1>3. CASE ~conn[a][k].up
  <2>1. ctl' = [ctl EXCEPT !.pc = "crashed"] /\ UNCHANGED conn
    BY <1>3, Zenon DEF Respond
  <2>2. /\ ctl' \in CtlType /\ ctl'.pc = "crashed"
        /\ ctl'.addIndex = ctl.addIndex /\ ctl'.removeIndex = ctl.removeIndex
    BY <1>1, <2>1, Zenon DEF CtlType
  <2> QED
    BY <1>1, <2>1, <2>2, Zenon
<1> QED
  BY <1>2, <1>3, Zenon

\* What is left of the invariant when the process ends.
LEMMA ProcessEnds ==
  ASSUME ControllerInv, ControllerType', Over', UNCHANGED app,
         \A x \in Apps, k \in Kinds :
           conn'[x][k].st = "none" \/ /\ conn'[x][k].st = conn[x][k].st
                                      /\ conn'[x][k].up = conn[x][k].up
  PROVE  ControllerInv'
<1>1. ASSUME NEW x \in Apps
      PROVE  AppOK(x)'
  BY Zenon DEF ControllerInv, AppOK, Over
<1>2. WaitOK'
  BY Zenon DEF WaitOK, Over
<1> QED
  BY <1>1, <1>2, Zenon DEF ControllerInv

\* RegisterApplication.
LEMMA RegisterStep ==
  ASSUME ControllerInv, NEW a \in Apps, RegisterApplication(a)
  PROVE  ControllerInv'
<1> DEFINE own == IF a \in registry.apps THEN registry.owned[a] ELSE {}
           status == IF a \in registry.apps THEN "fail" ELSE "ok"
<1>1. /\ ctl.pc = "serving" /\ conn[a]["ctl"].req = Register
      /\ registry' = [registry EXCEPT !.apps = @ \cup {a}, !.owned[a] = own]
      /\ Respond(a, "ctl", status, "serving")
      /\ UNCHANGED <<app, manager, engine>>
  BY Zenon DEF RegisterApplication, Readable, RecvMsgWithFd
<1>2. registry \in RegistryType
  BY Zenon DEF ControllerInv, ControllerType
<1>3. NewOK(a) /\ CallOK(a)
  BY <1>1, ClientFacts, Zenon DEF Over
<1>4. a \notin registry.apps /\ \A y \in Engines : engine[y].deq \cap Own(a) = {}
  BY <1>1, <1>3, Zenon DEF NewOK
<1>5. /\ registry' \in RegistryType /\ registry'.apps = registry.apps \cup {a}
      /\ registry'.owned[a] = {}
      /\ \A z \in Apps : z # a => registry'.owned[z] = registry.owned[z]
  BY <1>1, <1>2, <1>4, Zenon DEF RegistryType
<1>6. status \in {"ok", "fail"}
  BY Zenon
<1> HIDE DEF status, own
<1>7. /\ ctl' \in CtlType /\ conn' \in [Apps -> [Kinds -> ConnType]]
      /\ \A z \in Apps, j \in Kinds :
           z # a \/ j # "ctl" => conn'[z][j] = conn[z][j]
      /\ conn'[a]["ctl"].st = conn[a]["ctl"].st
      /\ conn'[a]["ctl"].up = conn[a]["ctl"].up
      /\ \/ ctl'.pc = "crashed" /\ UNCHANGED conn
         \/ ctl'.pc = "serving" /\ conn'[a]["ctl"].req = NoReq
  BY <1>1, <1>6, RespondFacts, ClientFacts
<1>8. ControllerType'
  BY <1>1, <1>5, <1>7, Zenon DEF ControllerInv, ControllerType
<1>9. \A x \in Apps, k \in Kinds : /\ conn'[x][k].st = conn[x][k].st
                                   /\ conn'[x][k].up = conn[x][k].up
  BY <1>7, ClientFacts, Zenon
<1>10. CASE ctl'.pc = "crashed"
  BY <1>1, <1>8, <1>9, <1>10, ProcessEnds, Zenon DEF Over
<1>11. CASE ctl'.pc = "serving" /\ conn'[a]["ctl"].req = NoReq
  <2>1. ASSUME NEW x \in Apps
        PROVE  AppOK(x)' /\ NewOK(x)' /\ CallOK(x)'
    <3>1. AppOK(x) /\ NewOK(x) /\ CallOK(x) /\ "ctl" \in Kinds /\ "req" \in Kinds
      BY <1>1, ClientFacts, Zenon DEF Over
    <3>2. AppOK(x)'
      BY <1>1, <1>9, <1>11, <3>1, Zenon DEF AppOK
    <3>3. NewOK(x)'
      <4>1. CASE x = a
        BY <1>1, <1>4, <1>5, <1>11, <3>1, <4>1 DEF NewOK, NoReq, Register
      <4>2. CASE x # a
        <5>1. /\ conn'[x]["ctl"] = conn[x]["ctl"]
              /\ registry'.owned[x] = registry.owned[x]
              /\ x \in registry'.apps <=> x \in registry.apps
          BY <1>5, <1>7, <3>1, <4>2, Zenon
        <5> QED
          BY <1>1, <3>1, <5>1, Zenon DEF NewOK
      <4> QED
        BY <4>1, <4>2, Zenon
    <3>4. CallOK(x)'
      <4>1. conn'[x]["req"] = conn[x]["req"]
        BY <1>7, <3>1, Zenon
      <4>2. ASSUME NEW c
            PROVE  Granted(x, c) => Granted(x, c)'
        <5>1. x \in registry.apps => x # a
          BY <1>4, Zenon
        <5> QED
          BY <1>1, <1>5, <5>1, Zenon DEF Granted
      <4> QED
        BY <1>1, <3>1, <4>1, <4>2, Zenon DEF CallOK, Served
    <3> QED
      BY <3>2, <3>3, <3>4, Zenon
  <2>2. WaitOK'
    BY <1>11, Zenon DEF WaitOK
  <2> QED
    BY <1>8, <2>1, <2>2, Zenon DEF ControllerInv
<1> QED
  BY <1>7, <1>10, <1>11, Zenon

\* The lists of one engine change.
LEMMA SetEngine ==
  ASSUME NEW E, NEW G, NEW e \in Engines, NEW r \in EngineType,
         E \in [Engines -> EngineType], G = [E EXCEPT ![e] = r]
  PROVE  /\ G \in [Engines -> EngineType] /\ G[e] = r
         /\ \A y \in Engines : y # e => G[y] = E[y]
  BY Zenon

\* The request that the controller reads is for the channel of the call.
LEMMA RequestFacts ==
  ASSUME ControllerInv, NEW a \in Apps, ~Over, conn[a]["req"].req # NoReq
  PROVE  /\ conn[a]["req"].req = <<a, app[a].calls>>
         /\ conn[a]["req"].req \in Channels /\ conn[a]["req"].req \in Own(a)
         /\ conn[a]["req"].resp = "none"
<1>1. CallOK(a) /\ conn[a]["req"] \in ConnType /\ app[a] \in AppType
  BY ClientFacts, Zenon
<1>2. /\ conn[a]["req"].req = <<a, app[a].calls>> /\ conn[a]["req"].resp = "none"
      /\ conn[a]["req"].req \in {NoReq, Register} \cup Channels
      /\ app[a].calls \in Nat
  BY <1>1, ControllerAssumption, Zenon DEF CallOK, ConnType, AppType, ControllerAssumption
<1>3. <<a, app[a].calls>> # Register
  BY Zenon DEF Register
<1> QED
  BY <1>2, <1>3 DEF Own

\* The engine that an index names.
LEMMA IndexFacts ==
  ASSUME NEW i \in Engines \cup {NoEngine}, NEW cs \in SUBSET Channels
  PROVE  Index(i, cs) \subseteq Engines
  BY ControllerAssumption, Zenon DEF Index, ControllerAssumption

\* An attach is answered; with "ok" only when its channel is served.
LEMMA AnsweredStep ==
  ASSUME ControllerInv, NEW a \in Apps, ~Over, ctl' \in CtlType,
         UNCHANGED <<app, registry, manager, engine>>,
         conn' \in [Apps -> [Kinds -> ConnType]],
         \A z \in Apps, j \in Kinds :
           z # a \/ j # "req" => conn'[z][j] = conn[z][j],
         conn'[a]["req"].st = conn[a]["req"].st,
         conn'[a]["req"].up = conn[a]["req"].up,
         \/ ctl'.pc = "crashed"
         \/ /\ ctl'.pc = "serving" /\ conn'[a]["req"].req = NoReq
            /\ conn'[a]["req"].resp = "ok" =>
                 Granted(a, <<a, app[a].calls>>) /\ Served(<<a, app[a].calls>>)
  PROVE  ControllerInv'
<1>0. "req" \in Kinds /\ "ctl" \in Kinds /\ "ctl" # "req"
  BY Zenon DEF Kinds
<1>1. ControllerType'
  BY Zenon DEF ControllerInv, ControllerType
<1>2. \A x \in Apps, k \in Kinds : /\ conn'[x][k].st = conn[x][k].st
                                   /\ conn'[x][k].up = conn[x][k].up
  BY <1>0, Zenon
<1>3. CASE ctl'.pc = "crashed"
  BY <1>1, <1>2, <1>3, ProcessEnds, Zenon DEF Over
<1>4. CASE /\ ctl'.pc = "serving" /\ conn'[a]["req"].req = NoReq
           /\ conn'[a]["req"].resp = "ok" =>
                Granted(a, <<a, app[a].calls>>) /\ Served(<<a, app[a].calls>>)
  <2>1. ASSUME NEW x \in Apps
        PROVE  AppOK(x)' /\ NewOK(x)' /\ CallOK(x)'
    <3>1. AppOK(x) /\ NewOK(x) /\ CallOK(x)
      BY ClientFacts, Zenon
    <3>2. AppOK(x)'
      BY <1>2, <1>4, <3>1, Zenon DEF AppOK
    <3>3. NewOK(x)'
      <4>1. conn'[x]["ctl"] = conn[x]["ctl"]
        BY <1>0, Zenon
      <4> QED
        BY <3>1, <4>1, Zenon DEF NewOK
    <3>4. \A d : (Granted(x, d) <=> Granted(x, d)') /\ (Served(d) <=> Served(d)')
      BY Zenon DEF Granted, Served
    <3>5. CallOK(x)'
      <4>1. CASE x = a
        BY <1>4, <3>1, <3>4, <4>1, Zenon DEF CallOK
      <4>2. CASE x # a
        <5>1. conn'[x]["req"] = conn[x]["req"]
          BY <1>0, <4>2, Zenon
        <5> QED
          BY <3>1, <3>4, <5>1, Zenon DEF CallOK
      <4> QED
        BY <4>1, <4>2, Zenon
    <3> QED
      BY <3>2, <3>3, <3>5, Zenon
  <2>2. WaitOK'
    BY <1>4, Zenon DEF WaitOK
  <2> QED
    BY <1>1, <2>1, <2>2, Zenon DEF ControllerInv
<1> QED
  BY <1>3, <1>4, Zenon

\* CreateChannel.
LEMMA CreateChannelStep ==
  ASSUME ControllerInv, NEW a \in Apps, CreateChannel(a)
  PROVE  ControllerInv'
<1> DEFINE c == conn[a]["req"].req
<1>1. ctl.pc = "serving" /\ c # NoReq /\ UNCHANGED app /\ ~Over
  BY Zenon DEF CreateChannel, Readable, RecvMsgWithFd, Over
<1>2. c = <<a, app[a].calls>> /\ c \in Channels /\ c \in Own(a)
      /\ conn[a]["req"].resp = "none"
  BY <1>1, RequestFacts, Zenon
<1>3. /\ registry \in RegistryType /\ ctl \in CtlType /\ manager \subseteq Channels
      /\ engine \in [Engines -> EngineType] /\ conn \in [Apps -> [Kinds -> ConnType]]
      /\ app \in [Apps -> AppType] /\ "req" \in Kinds /\ "ctl" \in Kinds
  BY Zenon DEF ControllerInv, ControllerType, Kinds
<1>4. CASE /\ a \in registry.apps /\ manager' = manager \cup {c}
           /\ registry' = [registry EXCEPT !.owned[a] = @ \cup {c}]
           /\ \E e \in Index(ctl.addIndex, {c}) :
                /\ engine' = [engine EXCEPT ![e].enq = @ \cup {c}]
                /\ ctl' = [ctl EXCEPT !.pc = "waiting", !.app = a, !.chan = c,
                                      !.promise = FALSE, !.addIndex = e]
           /\ UNCHANGED conn
  <2>1. PICK e \in Engines :
          /\ engine' = [engine EXCEPT ![e].enq = @ \cup {c}]
          /\ ctl' = [ctl EXCEPT !.pc = "waiting", !.app = a, !.chan = c,
                                !.promise = FALSE, !.addIndex = e]
    <3>1. Index(ctl.addIndex, {c}) \subseteq Engines
      BY <1>2, <1>3, IndexFacts, Zenon DEF CtlType
    <3> QED
      BY <1>4, <3>1, Zenon
  <2>2. /\ engine' \in [Engines -> EngineType] /\ c \in engine'[e].enq
        /\ \A y \in Engines : /\ engine'[y].channels = engine[y].channels
                              /\ engine'[y].deq = engine[y].deq
    <3> DEFINE r == [engine[e] EXCEPT !.enq = @ \cup {c}]
    <3> HIDE DEF c
    <3>1. /\ r \in EngineType /\ c \in r.enq
          /\ r.channels = engine[e].channels /\ r.deq = engine[e].deq
      BY <1>2, <1>3, Zenon DEF EngineType
    <3>2. engine' = [engine EXCEPT ![e] = r]
      BY <1>3, <2>1, Zenon
    <3> HIDE DEF r
    <3>3. /\ engine' \in [Engines -> EngineType] /\ engine'[e] = r
          /\ \A y \in Engines : y # e => engine'[y] = engine[y]
      BY <1>3, <3>1, <3>2, SetEngine, Zenon
    <3> QED
      BY <3>1, <3>3, Zenon
  <2>3. /\ ctl' \in CtlType /\ ctl'.pc = "waiting" /\ ctl'.app = a
        /\ ctl'.chan = c /\ ctl'.promise = FALSE
    BY <1>2, <1>3, <2>1, Zenon DEF CtlType
  <2>4. /\ registry' \in RegistryType /\ registry'.apps = registry.apps
        /\ registry'.owned[a] = registry.owned[a] \cup {c}
        /\ \A z \in Apps : z # a => registry'.owned[z] = registry.owned[z]
    BY <1>2, <1>3, <1>4, Zenon DEF RegistryType
  <2>5. ControllerType'
    BY <1>1, <1>2, <1>3, <1>4, <2>2, <2>3, <2>4, Zenon DEF ControllerType
  <2>6. ASSUME NEW x \in Apps
        PROVE  AppOK(x)' /\ NewOK(x)' /\ CallOK(x)'
    <3>1. AppOK(x) /\ NewOK(x) /\ CallOK(x)
      BY <1>1, ClientFacts, Zenon
    <3>2. AppOK(x)'
      BY <1>1, <1>4, <2>3, <3>1, Zenon DEF AppOK
    <3>3. registry'.owned[x] \subseteq Own(x)
      BY <1>2, <2>4, <3>1, Zenon DEF NewOK
    <3>4. NewOK(x)'
      BY <1>1, <1>4, <2>2, <2>4, <3>1, <3>3, Zenon DEF NewOK
    <3>5. \A d : Granted(x, d) => Granted(x, d)'
      BY <1>4, <2>4, Zenon DEF Granted
    <3>6. \A d : Served(d) => Served(d)'
      BY <2>2, Zenon DEF Served
    <3>7. CallOK(x)'
      BY <1>1, <1>4, <3>1, <3>5, <3>6, Zenon DEF CallOK
    <3> QED
      BY <3>2, <3>4, <3>7, Zenon
  <2>7. WaitOK'
    <3>1. c \notin engine[e].deq
      <4>1. NewOK(a)
        BY <1>1, ClientFacts, Zenon
      <4> QED
        BY <1>2, <1>4, <4>1, Zenon DEF NewOK
    <3>2. a \in registry'.apps /\ c \in registry'.owned[a] /\ c \in manager'
      BY <1>4, <2>4, Zenon
    <3>3. c \in engine'[e].enq /\ c \notin engine'[e].deq
      BY <2>2, <3>1, Zenon
    <3>4. conn'[a]["req"].req = c
      BY <1>4, Zenon
    <3> HIDE DEF c
    <3> QED
      BY <1>1, <2>3, <3>2, <3>3, <3>4, Zenon DEF WaitOK, Granted
  <2> QED
    BY <2>5, <2>6, <2>7, Zenon DEF ControllerInv
<1>5. CASE Respond(a, "req", "fail", "serving") /\ UNCHANGED <<registry, manager, engine>>
  <2>1. /\ ctl' \in CtlType /\ conn' \in [Apps -> [Kinds -> ConnType]]
        /\ \A z \in Apps, j \in Kinds :
             z # a \/ j # "req" => conn'[z][j] = conn[z][j]
        /\ conn'[a]["req"].st = conn[a]["req"].st
        /\ conn'[a]["req"].up = conn[a]["req"].up
        /\ \/ ctl'.pc = "crashed" /\ UNCHANGED conn
           \/ /\ ctl'.pc = "serving" /\ conn'[a]["req"].req = NoReq
              /\ conn'[a]["req"].resp = "fail"
    BY <1>3, <1>5, RespondFacts, Zenon
  <2> QED
    BY <1>1, <1>3, <1>5, <2>1, AnsweredStep, Zenon
<1> QED
  BY <1>1, <1>4, <1>5, Zenon DEF CreateChannel, RecvMsgWithFd

\* The channel that the controller waits for is taken from no engine.
LEMMA WaitFacts ==
  ASSUME ControllerInv, ctl.pc = "waiting"
  PROVE  /\ ctl.app \in Apps /\ ctl.chan = <<ctl.app, app[ctl.app].calls>>
         /\ ctl.chan \in Own(ctl.app) /\ Granted(ctl.app, ctl.chan)
         /\ \A y \in Engines : ctl.chan \notin engine[y].deq
         /\ ctl.promise => Served(ctl.chan)
<1>1. WaitOK /\ ~Over
  BY Zenon DEF ControllerInv, Over
<1>2. /\ ctl.app \in Apps /\ ctl.chan = conn[ctl.app]["req"].req
      /\ ctl.chan # NoReq /\ Granted(ctl.app, ctl.chan)
      /\ ctl.promise => Served(ctl.chan)
  BY <1>1, Zenon DEF WaitOK
<1>3. ctl.chan = <<ctl.app, app[ctl.app].calls>> /\ ctl.chan \in Own(ctl.app)
  BY <1>1, <1>2, RequestFacts, Zenon
<1>4. NewOK(ctl.app)
  BY <1>1, <1>2, ClientFacts, Zenon
<1>5. \A y \in Engines : ctl.chan \notin engine[y].deq
  BY <1>2, <1>3, <1>4, Zenon DEF NewOK, Granted
<1> QED
  BY <1>2, <1>3, <1>5, Zenon

\* The promise is kept.
LEMMA ChannelCreatedStep ==
  ASSUME ControllerInv, ChannelCreated
  PROVE  ControllerInv'
<1>1. /\ ctl.pc = "waiting" /\ ctl.promise /\ ~Over /\ "req" \in Kinds
      /\ Respond(ctl.app, "req", "ok", "serving")
      /\ UNCHANGED <<app, registry, manager, engine>>
  BY Zenon DEF ChannelCreated, Over, Kinds
<1>2. /\ ctl.app \in Apps /\ ctl.chan = <<ctl.app, app[ctl.app].calls>>
      /\ Granted(ctl.app, ctl.chan) /\ Served(ctl.chan)
  BY <1>1, WaitFacts, Zenon
<1>3. /\ ctl' \in CtlType /\ conn' \in [Apps -> [Kinds -> ConnType]]
      /\ \A z \in Apps, j \in Kinds :
           z # ctl.app \/ j # "req" => conn'[z][j] = conn[z][j]
      /\ conn'[ctl.app]["req"].st = conn[ctl.app]["req"].st
      /\ conn'[ctl.app]["req"].up = conn[ctl.app]["req"].up
      /\ \/ ctl'.pc = "crashed" /\ UNCHANGED conn
         \/ ctl'.pc = "serving" /\ conn'[ctl.app]["req"].req = NoReq
  BY <1>1, <1>2, RespondFacts, Zenon
<1> QED
  BY <1>1, <1>2, <1>3, AnsweredStep, Zenon

\* An engine brings its channels up to date.
LEMMA ChannelsUpdateStep ==
  ASSUME ControllerInv, NEW e \in Engines, ChannelsUpdate(e)
  PROVE  ControllerInv'
<1> DEFINE r == [channels |-> (engine[e].channels \cup engine[e].enq) \ engine[e].deq,
                 enq |-> {}, deq |-> {}]
<1>1. /\ UNCHANGED <<app, conn, registry, manager>>
      /\ engine' = [engine EXCEPT ![e] = r]
      /\ ctl' = IF ctl.chan \in engine[e].enq THEN [ctl EXCEPT !.promise = TRUE]
                ELSE ctl
  BY Zenon DEF ChannelsUpdate
<1>2. ControllerType /\ engine \in [Engines -> EngineType] /\ ctl \in CtlType
  BY Zenon DEF ControllerInv, ControllerType
<1>3. /\ r \in EngineType /\ r.enq = {} /\ r.deq = {}
      /\ r.channels = (engine[e].channels \cup engine[e].enq) \ engine[e].deq
  BY <1>2, Zenon DEF EngineType
<1> HIDE DEF r
<1>4. /\ engine' \in [Engines -> EngineType] /\ engine'[e] = r
      /\ \A y \in Engines : y # e => engine'[y] = engine[y]
  BY <1>1, <1>2, <1>3, SetEngine, Zenon
<1>5. /\ ctl' \in CtlType /\ ctl'.pc = ctl.pc /\ ctl'.app = ctl.app
      /\ ctl'.chan = ctl.chan
      /\ ctl'.promise => ctl.promise \/ ctl.chan \in engine[e].enq
  BY <1>1, <1>2, Zenon DEF CtlType
<1>6. ControllerType'
  BY <1>1, <1>2, <1>4, <1>5, Zenon DEF ControllerType
<1>7. \A y \in Engines : engine'[y].deq \subseteq engine[y].deq
  BY <1>3, <1>4, Zenon
<1>8. ASSUME NEW d, Served(d)
      PROVE  \E y \in Engines : d \in engine'[y].channels /\ d \notin engine'[y].deq
  <2>1. PICK y \in Engines : d \in engine[y].channels /\ d \notin engine[y].deq
    BY <1>8, Zenon DEF Served
  <2>2. d \in engine'[y].channels /\ d \notin engine'[y].deq
    BY <1>3, <1>4, <2>1, Zenon
  <2> QED
    BY <2>2, Zenon
<1>9. ASSUME NEW x \in Apps
      PROVE  AppOK(x)' /\ (Over' \/ (NewOK(x)' /\ CallOK(x)'))
  <2>1. AppOK(x) /\ (Over \/ (NewOK(x) /\ CallOK(x))) /\ (Over => Over')
    BY <1>5, Zenon DEF ControllerInv, Over
  <2>2. AppOK(x)'
    BY <1>1, <1>5, <2>1, Zenon DEF AppOK
  <2>3. NewOK(x) => NewOK(x)'
    BY <1>1, <1>7, Zenon DEF NewOK
  <2>4. CallOK(x) => CallOK(x)'
    BY <1>1, <1>8, Zenon DEF CallOK, Granted, Served
  <2> QED
    BY <2>1, <2>2, <2>3, <2>4, Zenon
<1>10. WaitOK'
  <2> SUFFICES ASSUME ctl.pc = "waiting"
               PROVE  WaitOK'
    BY <1>5, Zenon DEF WaitOK
  <2>1. WaitOK
    BY Zenon DEF ControllerInv
  <2>2. /\ ctl.app \in Apps /\ ctl.chan = conn[ctl.app]["req"].req
        /\ ctl.chan # NoReq /\ Granted(ctl.app, ctl.chan)
        /\ \A y \in Engines : ctl.chan \notin engine[y].deq
    BY <2>1, WaitFacts, Zenon DEF WaitOK
  <2>3. CASE Served(ctl.chan) \/ ctl.chan \in engine[e].enq
    <3>1. \E y \in Engines : ctl.chan \in engine'[y].channels
                             /\ ctl.chan \notin engine'[y].deq
      <4>1. CASE Served(ctl.chan)
        BY <1>8, <4>1, Zenon
      <4>2. CASE ctl.chan \in engine[e].enq
        BY <1>3, <1>4, <2>2, <4>2, Zenon
      <4> QED
        BY <2>3, <4>1, <4>2, Zenon
    <3>2. Served(ctl.chan)'
      BY <1>5, <3>1, Zenon DEF Served
    <3>3. Granted(ctl.app, ctl.chan)'
      BY <1>1, <1>5, <2>2 DEF Granted
    <3> QED
      BY <1>1, <1>5, <2>2, <3>2, <3>3, Zenon DEF WaitOK
  <2>4. CASE ~Served(ctl.chan) /\ ctl.chan \notin engine[e].enq
    <3>1. ~ctl.promise /\ \E y \in Engines : ctl.chan \in engine[y].enq
      BY <2>1, <2>4, Zenon DEF WaitOK
    <3>2. \E y \in Engines : ctl.chan \in engine'[y].enq
                             /\ ctl.chan \notin engine'[y].deq
      BY <1>4, <2>2, <2>4, <3>1, Zenon
    <3> QED
      BY <1>1, <1>5, <2>2, <2>4, <3>1, <3>2, Zenon DEF WaitOK, Granted
  <2> QED
    BY <2>3, <2>4, Zenon
<1> QED
  BY <1>6, <1>9, <1>10, Zenon DEF ControllerInv

\* UnregisterApplication takes the channels of the applications S from the
\* manager, and has one engine drop them.
LEMMA UnregisterFacts ==
  ASSUME ControllerInv, NEW S \in SUBSET Apps, NEW next \in CtlType,
         UnregisterApplication(S, next)
  PROVE  LET cs == UNION {registry.owned[z] : z \in S}
         IN  /\ registry' \in RegistryType /\ registry'.apps = registry.apps \ S
             /\ \A x \in Apps : registry'.owned[x] = IF x \in S THEN {}
                                                     ELSE registry.owned[x]
             /\ manager' = manager \ cs /\ cs \subseteq Channels
             /\ engine' \in [Engines -> EngineType]
             /\ \A y \in Engines : /\ engine'[y].channels = engine[y].channels
                                   /\ engine'[y].enq = engine[y].enq
                                   /\ engine'[y].deq \subseteq engine[y].deq \cup cs
             /\ ctl' \in CtlType /\ ctl'.pc = next.pc
<1> DEFINE cs == UNION {registry.owned[z] : z \in S}
           owned == [x \in Apps |-> IF x \in S THEN {} ELSE registry.owned[x]]
<1>1. /\ registry \in RegistryType /\ ctl \in CtlType
      /\ engine \in [Engines -> EngineType]
  BY Zenon DEF ControllerInv, ControllerType
<1>2. /\ registry' = [apps |-> registry.apps \ S, owned |-> owned]
      /\ manager' = manager \ cs
      /\ \/ ctl' = next /\ UNCHANGED engine
         \/ \E i \in Index(ctl.removeIndex, cs) :
              /\ engine' = [engine EXCEPT ![i].deq = @ \cup cs]
              /\ ctl' = [next EXCEPT !.removeIndex = i]
  BY Zenon DEF UnregisterApplication, DestroyChannels
<1>3. cs \subseteq Channels
  BY <1>1, Zenon DEF RegistryType
<1>4. registry' \in RegistryType /\ registry'.apps = registry.apps \ S /\ registry'.owned = owned
  <2>1. owned \in [Apps -> SUBSET Channels]
    BY <1>1, Zenon DEF RegistryType
  <2> HIDE DEF owned
  <2> QED
    BY <1>1, <1>2, <2>1, Zenon DEF RegistryType
<1>5. \A x \in Apps : registry'.owned[x] = IF x \in S THEN {} ELSE registry.owned[x]
  BY <1>4, Zenon
<1> HIDE DEF cs, owned
<1>6. /\ engine' \in [Engines -> EngineType]
      /\ \A y \in Engines : /\ engine'[y].channels = engine[y].channels
                            /\ engine'[y].enq = engine[y].enq
                            /\ engine'[y].deq \subseteq engine[y].deq \cup cs
      /\ ctl' \in CtlType /\ ctl'.pc = next.pc
  <2>1. CASE ctl' = next /\ UNCHANGED engine
    BY <1>1, <2>1, Zenon
  <2>2. CASE \E i \in Index(ctl.removeIndex, cs) :
               /\ engine' = [engine EXCEPT ![i].deq = @ \cup cs]
               /\ ctl' = [next EXCEPT !.removeIndex = i]
    <3>1. Index(ctl.removeIndex, cs) \subseteq Engines
      BY <1>1, <1>3, IndexFacts, Zenon DEF CtlType
    <3>2. PICK i \in Engines : /\ engine' = [engine EXCEPT ![i].deq = @ \cup cs]
                               /\ ctl' = [next EXCEPT !.removeIndex = i]
      BY <2>2, <3>1, Zenon
    <3> DEFINE r == [engine[i] EXCEPT !.deq = @ \cup cs]
    <3>3. /\ r \in EngineType /\ r.deq = engine[i].deq \cup cs
          /\ r.channels = engine[i].channels /\ r.enq = engine[i].enq
      BY <1>1, <1>3, Zenon DEF EngineType
    <3>4. engine' = [engine EXCEPT ![i] = r]
      BY <1>1, <3>2, Zenon
    <3> HIDE DEF r
    <3>5. /\ engine' \in [Engines -> EngineType] /\ engine'[i] = r
          /\ \A y \in Engines : y # i => engine'[y] = engine[y]
      BY <1>1, <3>3, <3>4, SetEngine, Zenon
    <3>6. ctl' \in CtlType /\ ctl'.pc = next.pc
      BY <3>2, Zenon DEF CtlType
    <3> QED
      BY <3>3, <3>5, <3>6, Zenon
  <2> QED
    BY <1>2, <2>1, <2>2, Zenon
<1> QED
  BY <1>2, <1>3, <1>4, <1>5, <1>6, Zenon DEF cs

\* The end of a connection: its application has exited.
LEMMA PassiveCloseStep ==
  ASSUME ControllerInv, NEW a \in Apps, NEW k \in Kinds, HandlePassiveClose(a, k)
  PROVE  ControllerInv'
<1> DEFINE S == {b \in {a} : k = "ctl" /\ Leaving(b)}
           cs == UNION {registry.owned[z] : z \in S}
<1>1. /\ ctl.pc = "serving" /\ conn[a][k].st = "open" /\ ~conn[a][k].up
      /\ conn' = [conn EXCEPT ![a][k] = NoConn] /\ UnregisterApplication(S, ctl)
      /\ UNCHANGED app /\ ~Over
  BY Zenon DEF HandlePassiveClose, Readable, Over
<1>2. /\ conn \in [Apps -> [Kinds -> ConnType]] /\ "req" \in Kinds /\ "ctl" \in Kinds
      /\ app \in [Apps -> AppType] /\ manager \subseteq Channels /\ ctl \in CtlType
  BY Zenon DEF ControllerInv, ControllerType, Kinds
<1>3. /\ S \subseteq {a} /\ S \in SUBSET Apps
      /\ S # {} => k = "ctl" /\ a \in registry.apps
  BY Zenon DEF Leaving
<1>4. NoConn \in ConnType /\ NoConn.req = NoReq /\ NoConn.st = "none"
  BY Zenon DEF NoConn, ConnType
<1>5. /\ conn' \in [Apps -> [Kinds -> ConnType]] /\ conn'[a][k] = NoConn
      /\ \A z \in Apps, j \in Kinds : z # a \/ j # k => conn'[z][j] = conn[z][j]
  BY <1>1, <1>2, <1>4, SetConn
<1> HIDE DEF S
<1>6. /\ registry' \in RegistryType /\ registry'.apps = registry.apps \ S
      /\ \A x \in Apps : registry'.owned[x] = IF x \in S THEN {}
                                              ELSE registry.owned[x]
      /\ manager' = manager \ cs
      /\ engine' \in [Engines -> EngineType]
      /\ \A y \in Engines : /\ engine'[y].channels = engine[y].channels
                            /\ engine'[y].enq = engine[y].enq
                            /\ engine'[y].deq \subseteq engine[y].deq \cup cs
      /\ ctl' \in CtlType /\ ctl'.pc = ctl.pc
  BY <1>1, <1>2, <1>3, UnregisterFacts, Zenon
<1>7. ControllerType'
  BY <1>1, <1>2, <1>5, <1>6, Zenon DEF ControllerType
<1>8. /\ AppOK(a) /\ NewOK(a) /\ CallOK(a) /\ app[a].pc = "exited"
      /\ app[a].held = {}
  BY <1>1, ClientFacts, Zenon DEF AppOK
<1>9. cs \subseteq Own(a) /\ (S = {} => cs = {})
  BY <1>3, <1>8, Zenon DEF NewOK
<1> HIDE DEF cs
<1>10. AppOK(a)' /\ CallOK(a)'
  <2>1. AppOK(a)'
    BY <1>1, <1>2, <1>4, <1>5, <1>6, <1>8, Zenon DEF AppOK
  <2>2. conn'[a]["req"] = conn[a]["req"] \/ conn'[a]["req"].req = NoReq
    BY <1>2, <1>4, <1>5, Zenon
  <2>3. CallOK(a)'
    BY <1>1, <1>8, <2>2, Zenon DEF CallOK
  <2> QED
    BY <2>1, <2>3, Zenon
<1>11. NewOK(a)'
  <2>1. conn'[a]["ctl"] = conn[a]["ctl"] \/ conn'[a]["ctl"].req = NoReq
    BY <1>2, <1>4, <1>5, Zenon
  <2>2. CASE S = {}
    <3>1. /\ registry'.apps = registry.apps /\ registry'.owned[a] = registry.owned[a]
          /\ \A y \in Engines : engine'[y].deq \subseteq engine[y].deq
      BY <1>6, <1>9, <2>2, Zenon
    <3> QED
      BY <1>1, <1>8, <2>1, <3>1 DEF NewOK, NoReq, Register
  <2>3. CASE S # {}
    <3>1. /\ a \notin registry'.apps /\ registry'.owned[a] = {}
          /\ conn'[a]["ctl"].req = NoReq /\ app[a].uuid
      BY <1>3, <1>4, <1>5, <1>6, <1>8, <2>3, Zenon DEF NewOK
    <3> QED
      BY <1>1, <3>1 DEF NewOK, NoReq, Register
  <2> QED
    BY <2>2, <2>3, Zenon
<1>12. ASSUME NEW x \in Apps, x # a
       PROVE  AppOK(x)' /\ NewOK(x)' /\ CallOK(x)'
  <2>1. AppOK(x) /\ NewOK(x) /\ CallOK(x)
    BY <1>1, ClientFacts, Zenon
  <2>2. /\ \A j \in Kinds : conn'[x][j] = conn[x][j]
        /\ registry'.owned[x] = registry.owned[x]
        /\ x \in registry'.apps <=> x \in registry.apps
    BY <1>3, <1>5, <1>6, <1>12, Zenon
  <2>3. \A d \in Own(x) : d \notin cs
    BY <1>9, <1>12, Zenon DEF Own
  <2>4. AppOK(x)'
    BY <1>1, <1>6, <2>1, <2>2, Zenon DEF AppOK
  <2>5. \A y \in Engines : engine'[y].deq \cap Own(x) \subseteq engine[y].deq \cap Own(x)
    BY <1>6, <2>3, Zenon
  <2>6. NewOK(x)'
    BY <1>1, <1>2, <2>1, <2>2, <2>5, Zenon DEF NewOK
  <2>7. ASSUME NEW d \in Own(x)
        PROVE  /\ Granted(x, d) => Granted(x, d)'
               /\ Served(d) => Served(d)'
    <3>1. Granted(x, d) => Granted(x, d)'
      BY <1>6, <2>2, <2>3, Zenon DEF Granted
    <3>2. \A y \in Engines : d \in engine'[y].deq => d \in engine[y].deq
      BY <1>6, <2>3, Zenon
    <3>3. Served(d) => Served(d)'
      BY <1>6, <3>2, Zenon DEF Served
    <3> QED
      BY <3>1, <3>3, Zenon
  <2>8. <<x, app[x].calls>> \in Own(x)
    BY <1>2, ControllerAssumption, Zenon DEF Own, AppType, ControllerAssumption
  <2>9. CallOK(x)'
    BY <1>1, <1>2, <2>1, <2>2, <2>7, <2>8, Zenon DEF CallOK
  <2> QED
    BY <2>4, <2>6, <2>9, Zenon
<1>13. WaitOK'
  BY <1>1, <1>6, Zenon DEF WaitOK
<1> QED
  BY <1>7, <1>10, <1>11, <1>12, <1>13, Zenon DEF ControllerInv

\* The server's loop ends.
LEMMA StopServingStep ==
  ASSUME ControllerInv, StopServing
  PROVE  ControllerInv'
<1> DEFINE S == {a \in Apps : conn[a]["ctl"].st = "open" /\ Leaving(a)}
           next == [ctl EXCEPT !.pc = "pausing", !.left = Engines]
<1>1. /\ UnregisterApplication(S, next) /\ UNCHANGED app
      /\ conn' = [a \in Apps |-> [k \in Kinds |->
                    [conn[a][k] EXCEPT !.registered = FALSE]]]
  BY Zenon DEF StopServing
<1>2. /\ conn \in [Apps -> [Kinds -> ConnType]] /\ app \in [Apps -> AppType]
      /\ manager \subseteq Channels /\ ctl \in CtlType
  BY Zenon DEF ControllerInv, ControllerType
<1>3. S \in SUBSET Apps /\ next \in CtlType /\ next.pc = "pausing"
  BY <1>2, Zenon DEF CtlType
<1> HIDE DEF S, next
<1>4. /\ registry' \in RegistryType /\ manager' \subseteq manager
      /\ engine' \in [Engines -> EngineType] /\ ctl' \in CtlType
      /\ ctl'.pc = "pausing"
  <2>1. /\ registry' \in RegistryType
        /\ manager' = manager \ UNION {registry.owned[z] : z \in S}
        /\ engine' \in [Engines -> EngineType] /\ ctl' \in CtlType
        /\ ctl'.pc = next.pc
    BY <1>1, <1>3, UnregisterFacts, Zenon
  <2> QED
    BY <1>3, <2>1, Zenon
<1>5. ASSUME NEW x \in Apps, NEW k \in Kinds
      PROVE  /\ conn'[x][k] \in ConnType /\ conn'[x][k].st = conn[x][k].st
             /\ conn'[x][k].up = conn[x][k].up
  <2>1. conn'[x][k] = [conn[x][k] EXCEPT !.registered = FALSE]
    BY <1>1, Zenon
  <2>2. conn[x][k] \in ConnType
    BY <1>2, Zenon
  <2> QED
    BY <2>1, <2>2, Zenon DEF ConnType
<1>6. conn' \in [Apps -> [Kinds -> ConnType]]
  BY <1>1, <1>5, Zenon
<1>7. ControllerType'
  BY <1>1, <1>2, <1>4, <1>6, Zenon DEF ControllerType
<1> QED
  BY <1>1, <1>4, <1>5, <1>7, ProcessEnds, Zenon DEF Over

\* The start and the end of the process, and its workers.
LEMMA ProcessStep ==
  ASSUME ControllerInv,
         \/ Start \/ Stop \/ Launch \/ ServerRun \/ End
         \/ \E e \in Engines : \/ Pause(e) \/ Terminate(e) \/ WorkerCycle(e)
                               \/ WorkerChecks(e)
  PROVE  ControllerInv'
<1>1. ctl \in CtlType
  BY Zenon DEF ControllerInv, ControllerType
<1>2. CASE Start
  <2>1. /\ UNCHANGED <<app, conn, registry, manager, engine>> /\ ctl.pc = "down"
        /\ \/ ctl' = [ctl EXCEPT !.pc = "exited"]
           \/ ctl' = [ctl EXCEPT !.pc = "launching"]
    BY <1>2, Zenon DEF Start
  <2>2. ctl' \in CtlType /\ ctl'.pc \in {"exited", "launching"}
    BY <1>1, <2>1, Zenon DEF CtlType
  <2> QED
    BY <2>1, <2>2, CtlMoves, Zenon DEF Over
<1>3. CASE Stop
  <2>1. /\ UNCHANGED <<app, conn, registry, manager, engine>>
        /\ \/ ctl' = [ctl EXCEPT !.pc = "crashed"]
           \/ ctl' = [ctl EXCEPT !.keep_running = FALSE]
    BY <1>3, Zenon DEF Stop, StopController, StopServer
  <2>2. /\ ctl' \in CtlType
        /\ \/ ctl'.pc = "crashed"
           \/ /\ ctl'.pc = ctl.pc /\ ctl'.app = ctl.app
              /\ ctl'.chan = ctl.chan /\ ctl'.promise = ctl.promise
    BY <1>1, <2>1, Zenon DEF CtlType
  <2> QED
    BY <2>1, <2>2, CtlMoves, Zenon DEF Over
<1>4. CASE Launch
  <2>1. /\ UNCHANGED <<app, conn, registry, manager, engine>> /\ ctl.pc = "launching"
        /\ \/ ctl' = [ctl EXCEPT !.pc = "created"]
           \/ ctl' = [ctl EXCEPT !.pc = "crashed"]
    BY <1>4, Zenon DEF Launch, Listen
  <2>2. ctl' \in CtlType /\ ctl'.pc \in {"created", "crashed"}
    BY <1>1, <2>1, Zenon DEF CtlType
  <2> QED
    BY <2>1, <2>2, CtlMoves, Zenon DEF Over
<1>5. CASE ServerRun
  <2>1. /\ UNCHANGED <<app, conn, registry, manager, engine>> /\ ctl.pc = "created"
        /\ ctl' = [ctl EXCEPT !.pc = "serving", !.keep_running = TRUE]
    BY <1>5, Zenon DEF ServerRun
  <2>2. ctl' \in CtlType /\ ctl'.pc = "serving"
    BY <1>1, <2>1, Zenon DEF CtlType
  <2> QED
    BY <2>1, <2>2, CtlMoves, Zenon DEF Over
<1>6. CASE End
  <2>1. /\ UNCHANGED <<app, conn, registry, manager, engine>>
        /\ ctl' = [ctl EXCEPT !.pc = "exited"]
    BY <1>6, Zenon DEF End
  <2>2. ctl' \in CtlType /\ ctl'.pc = "exited"
    BY <1>1, <2>1, Zenon DEF CtlType
  <2> QED
    BY <2>1, <2>2, CtlMoves, Zenon DEF Over
<1>7. ASSUME NEW e \in Engines, Pause(e) \/ Terminate(e)
      PROVE  ControllerInv'
  <2>1. /\ UNCHANGED <<app, conn, registry, manager, engine>>
        /\ ctl.pc \in {"pausing", "terminating"}
        /\ \/ ctl' = [ctl EXCEPT !.pc = "terminating", !.left = Engines]
           \/ ctl' = [ctl EXCEPT !.left = @ \ {e}]
    BY <1>7, Zenon DEF Pause, Terminate
  <2>2. ctl' \in CtlType /\ ctl'.pc \in {"pausing", "terminating"}
    BY <1>1, <2>1, Zenon DEF CtlType
  <2> QED
    BY <2>1, <2>2, CtlMoves, Zenon DEF Over
<1>8. ASSUME NEW e \in Engines, WorkerCycle(e) \/ WorkerChecks(e)
      PROVE  ControllerInv'
  <2>1. UNCHANGED <<app, conn, registry, manager, engine, ctl>>
    BY <1>8, Zenon DEF WorkerCycle, WorkerChecks
  <2> QED
    BY <1>1, <2>1, CtlMoves, Zenon DEF Over
<1> QED
  BY <1>2, <1>3, <1>4, <1>5, <1>6, <1>7, <1>8, Zenon

\* Every step keeps the invariant.
LEMMA ControllerNext == ControllerInv /\ [Next]_vars => ControllerInv'
<1> SUFFICES ASSUME ControllerInv, [Next]_vars
             PROVE  ControllerInv'
  BY Zenon
<1>1. ASSUME NEW a \in Apps,
             machnet_init(a) \/ machnet_attach(a) \/ Exit(a) \/ AppStep(a)
      PROVE  ControllerInv'
  BY <1>1, InitCallStep, AttachCallStep, ExitStep, InitReturnsStep,
     AttachReturnsStep, Zenon DEF AppStep
<1>2. ASSUME NEW a \in Apps, NEW k \in Kinds,
             HandleNewConnection(a, k) \/ HandlePassiveClose(a, k)
      PROVE  ControllerInv'
  BY <1>2, NewConnectionStep, PassiveCloseStep, Zenon
<1>3. ASSUME NEW a \in Apps, HandleNewMessage(a)
      PROVE  ControllerInv'
  BY <1>3, RegisterStep, CreateChannelStep, Zenon DEF HandleNewMessage
<1>4. CASE ChannelCreated \/ StopServing
  BY <1>4, ChannelCreatedStep, StopServingStep, Zenon
<1>5. ASSUME NEW e \in Engines, ChannelsUpdate(e)
      PROVE  ControllerInv'
  BY <1>5, ChannelsUpdateStep, Zenon
<1>6. CASE UNCHANGED vars
  <2>1. UNCHANGED <<app, conn, registry, manager, engine, ctl>>
    BY <1>6, Zenon DEF vars
  <2>2. ctl \in CtlType
    BY Zenon DEF ControllerInv, ControllerType
  <2> QED
    BY <2>1, <2>2, CtlMoves, Zenon DEF Over
<1> QED
  BY <1>1, <1>2, <1>3, <1>4, <1>5, <1>6, ProcessStep, Zenon
     DEF Next, ServerStep, WorkerStep

\* The invariant of the controller, its clients and the engines' channel lists,
\* for any number of applications and engines and any hash of the names.
THEOREM ControllerInvariance == Spec => []ControllerInv
<1> QED
  BY ControllerInit, ControllerNext, PTL DEF Spec

\* A channel that an application has bound is served by an engine as long as both
\* processes live: CreateChannel answers only after the engine has taken the
\* channel, and only the end of the application has it dropped.
THEOREM BoundStaysServed == Spec => []BoundIsServed
<1>1. ControllerInv => BoundIsServed
  BY Zenon DEF ControllerInv, BoundIsServed, CallOK, Granted, Served, Over
<1> QED
  BY <1>1, ControllerInvariance, PTL

\* Every channel is with the engine h, which drops what the manager dropped.
HomeInv(h) ==
  /\ ctl.addIndex \in {h, NoEngine} /\ ctl.removeIndex \in {h, NoEngine}
  /\ \A y \in Engines : y # h => engine[y].channels = {} /\ engine[y].enq = {}
  /\ (engine[h].channels \cup engine[h].enq) \ engine[h].deq \subseteq manager

\* The names of all channels hash to one engine.
OneEngine == \A c \in Channels, d \in Channels : Hash[c] = Hash[d]

\* The channels are as they were.
LEMMA HomeStays ==
  ASSUME NEW h \in Engines, HomeInv(h), UNCHANGED <<manager, engine>>,
         ctl'.addIndex = ctl.addIndex, ctl'.removeIndex = ctl.removeIndex
  PROVE  HomeInv(h)'
  BY Zenon DEF HomeInv

\* With one hash, the index of a new or of a leaving channel is that engine.
LEMMA HomeIndex ==
  ASSUME NEW h \in Engines, \A c \in Channels : Hash[c] = h,
         NEW i \in {h, NoEngine}, NEW cs \in SUBSET Channels,
         NEW e \in Index(i, cs)
  PROVE  e = h
  BY Zenon DEF Index

\* CreateChannel puts a channel that the manager has into the queue of h.
LEMMA HomeCreate ==
  ASSUME ControllerInv, NEW h \in Engines, \A c \in Channels : Hash[c] = h,
         HomeInv(h), NEW a \in Apps, CreateChannel(a)
  PROVE  HomeInv(h)'
<1> DEFINE c == conn[a]["req"].req
<1>1. c \in Channels /\ "req" \in Kinds
  BY RequestFacts, Zenon DEF CreateChannel, Readable, RecvMsgWithFd, Over, Kinds
<1>2. ctl \in CtlType /\ engine \in [Engines -> EngineType]
  BY Zenon DEF ControllerInv, ControllerType
<1>3. CASE /\ manager' = manager \cup {c}
           /\ \E e \in Index(ctl.addIndex, {c}) :
                /\ engine' = [engine EXCEPT ![e].enq = @ \cup {c}]
                /\ ctl' = [ctl EXCEPT !.pc = "waiting", !.app = a, !.chan = c,
                                      !.promise = FALSE, !.addIndex = e]
  <2> HIDE DEF c
  <2>1. /\ engine' = [engine EXCEPT ![h].enq = @ \cup {c}]
        /\ ctl' = [ctl EXCEPT !.pc = "waiting", !.app = a, !.chan = c,
                              !.promise = FALSE, !.addIndex = h]
    BY <1>1, <1>3, HomeIndex, Zenon DEF HomeInv
  <2>2. ctl'.addIndex = h /\ ctl'.removeIndex = ctl.removeIndex
    BY <1>2, <2>1, Zenon DEF CtlType
  <2> DEFINE r == [engine[h] EXCEPT !.enq = @ \cup {c}]
  <2>3. /\ r \in EngineType /\ r.enq = engine[h].enq \cup {c}
        /\ r.channels = engine[h].channels /\ r.deq = engine[h].deq
    BY <1>1, <1>2, Zenon DEF EngineType
  <2>4. engine' = [engine EXCEPT ![h] = r]
    BY <1>2, <2>1, Zenon
  <2> HIDE DEF r
  <2>5. engine'[h] = r /\ \A y \in Engines : y # h => engine'[y] = engine[y]
    BY <1>2, <2>3, <2>4, SetEngine, Zenon
  <2> QED
    BY <1>3, <2>2, <2>3, <2>5, Zenon DEF HomeInv
<1>4. CASE Respond(a, "req", "fail", "serving") /\ UNCHANGED <<registry, manager, engine>>
  <2>1. ctl'.addIndex = ctl.addIndex /\ ctl'.removeIndex = ctl.removeIndex
    BY <1>1, <1>4, RespondFacts, Zenon
  <2> QED
    BY <1>4, <2>1, HomeStays, Zenon
<1> QED
  BY <1>3, <1>4, Zenon DEF CreateChannel, RecvMsgWithFd

\* UnregisterApplication has h drop the channels that the manager drops.
LEMMA HomeUnregister ==
  ASSUME ControllerInv, NEW h \in Engines, \A c \in Channels : Hash[c] = h,
         HomeInv(h), NEW S \in SUBSET Apps, NEW next \in CtlType,
         next.addIndex = ctl.addIndex, next.removeIndex = ctl.removeIndex,
         UnregisterApplication(S, next)
  PROVE  HomeInv(h)'
<1> DEFINE cs == UNION {registry.owned[z] : z \in S}
<1>1. /\ manager' = manager \ cs
      /\ \/ cs = {} /\ ctl' = next /\ UNCHANGED engine
         \/ \E i \in Index(ctl.removeIndex, cs) :
              /\ engine' = [engine EXCEPT ![i].deq = @ \cup cs]
              /\ ctl' = [next EXCEPT !.removeIndex = i]
  BY Zenon DEF UnregisterApplication, DestroyChannels
<1>2. cs \subseteq Channels /\ engine \in [Engines -> EngineType]
  BY DEF ControllerInv, ControllerType, RegistryType
<1> HIDE DEF cs
<1>3. CASE cs = {} /\ ctl' = next /\ UNCHANGED engine
  <2>1. manager' = manager
    BY <1>1, <1>3, Zenon
  <2> QED
    BY <1>3, <2>1, HomeStays, Zenon
<1>4. CASE \E i \in Index(ctl.removeIndex, cs) :
             /\ engine' = [engine EXCEPT ![i].deq = @ \cup cs]
             /\ ctl' = [next EXCEPT !.removeIndex = i]
  <2>1. /\ engine' = [engine EXCEPT ![h].deq = @ \cup cs]
        /\ ctl' = [next EXCEPT !.removeIndex = h]
    BY <1>2, <1>4, HomeIndex, Zenon DEF HomeInv
  <2>2. ctl'.addIndex = ctl.addIndex /\ ctl'.removeIndex = h
    BY <2>1, Zenon DEF CtlType
  <2> DEFINE r == [engine[h] EXCEPT !.deq = @ \cup cs]
  <2>3. /\ r \in EngineType /\ r.deq = engine[h].deq \cup cs
        /\ r.channels = engine[h].channels /\ r.enq = engine[h].enq
    BY <1>2, Zenon DEF EngineType
  <2>4. engine' = [engine EXCEPT ![h] = r]
    BY <1>2, <2>1, Zenon
  <2> HIDE DEF r
  <2>5. engine'[h] = r /\ \A y \in Engines : y # h => engine'[y] = engine[y]
    BY <1>2, <2>3, <2>4, SetEngine, Zenon
  <2> QED
    BY <1>1, <2>2, <2>3, <2>5, Zenon DEF HomeInv
<1> QED
  BY <1>1, <1>3, <1>4, Zenon

\* An engine takes its new channels and drops the old ones.
LEMMA HomeUpdate ==
  ASSUME ControllerInv, NEW h \in Engines, HomeInv(h), NEW e \in Engines,
         ChannelsUpdate(e)
  PROVE  HomeInv(h)'
<1> DEFINE r == [channels |-> (engine[e].channels \cup engine[e].enq) \ engine[e].deq,
                 enq |-> {}, deq |-> {}]
<1>1. /\ UNCHANGED manager /\ engine' = [engine EXCEPT ![e] = r]
      /\ ctl' = IF ctl.chan \in engine[e].enq THEN [ctl EXCEPT !.promise = TRUE]
                ELSE ctl
  BY Zenon DEF ChannelsUpdate
<1>2. engine \in [Engines -> EngineType] /\ ctl \in CtlType
  BY Zenon DEF ControllerInv, ControllerType
<1>3. /\ r \in EngineType /\ r.enq = {} /\ r.deq = {}
      /\ r.channels = (engine[e].channels \cup engine[e].enq) \ engine[e].deq
  BY <1>2, Zenon DEF EngineType
<1> HIDE DEF r
<1>4. engine'[e] = r /\ \A y \in Engines : y # e => engine'[y] = engine[y]
  BY <1>1, <1>2, <1>3, SetEngine, Zenon
<1>5. ctl'.addIndex = ctl.addIndex /\ ctl'.removeIndex = ctl.removeIndex
  BY <1>1, <1>2, Zenon DEF CtlType
<1> QED
  BY <1>1, <1>3, <1>4, <1>5, Zenon DEF HomeInv

\* Every step keeps the channels with h.
LEMMA HomeNext ==
  ASSUME ControllerInv, NEW h \in Engines, \A c \in Channels : Hash[c] = h,
         HomeInv(h), [Next]_vars
  PROVE  HomeInv(h)'
<1>1. ctl \in CtlType
  BY Zenon DEF ControllerInv, ControllerType
<1>2. ASSUME NEW a \in Apps,
             machnet_init(a) \/ machnet_attach(a) \/ Exit(a) \/ AppStep(a)
      PROVE  HomeInv(h)'
  <2>1. UNCHANGED <<manager, engine, ctl>>
    BY <1>2, Zenon DEF machnet_init, machnet_attach, Exit, AppStep, InitReturns,
                AttachReturns
  <2> QED
    BY <2>1, HomeStays, Zenon
<1>3. ASSUME NEW a \in Apps, NEW k \in Kinds, HandleNewConnection(a, k)
      PROVE  HomeInv(h)'
  <2>1. UNCHANGED <<manager, engine, ctl>>
    BY <1>3, Zenon DEF HandleNewConnection
  <2> QED
    BY <2>1, HomeStays, Zenon
<1>4. ASSUME NEW a \in Apps, NEW k \in Kinds, HandlePassiveClose(a, k)
      PROVE  HomeInv(h)'
  <2> DEFINE S == {b \in {a} : k = "ctl" /\ Leaving(b)}
  <2>1. UnregisterApplication(S, ctl) /\ S \in SUBSET Apps
    BY <1>4, Zenon DEF HandlePassiveClose
  <2> HIDE DEF S
  <2> QED
    BY <1>1, <2>1, HomeUnregister, Zenon
<1>5. ASSUME NEW a \in Apps, RegisterApplication(a)
      PROVE  HomeInv(h)'
  <2> DEFINE status == IF a \in registry.apps THEN "fail" ELSE "ok"
  <2>1. /\ Respond(a, "ctl", status, "serving") /\ UNCHANGED <<manager, engine>>
        /\ "ctl" \in Kinds /\ status \in {"ok", "fail"}
    BY <1>5, Zenon DEF RegisterApplication, Kinds
  <2> HIDE DEF status
  <2>2. ctl'.addIndex = ctl.addIndex /\ ctl'.removeIndex = ctl.removeIndex
    BY <2>1, RespondFacts, Zenon
  <2> QED
    BY <2>1, <2>2, HomeStays, Zenon
<1>6. ASSUME NEW a \in Apps, CreateChannel(a)
      PROVE  HomeInv(h)'
  BY <1>6, HomeCreate, Zenon
<1>7. CASE ChannelCreated
  <2>1. /\ Respond(ctl.app, "req", "ok", "serving") /\ UNCHANGED <<manager, engine>>
        /\ "req" \in Kinds /\ ctl.app \in Apps
    BY <1>7, WaitFacts, Zenon DEF ChannelCreated, Kinds
  <2>2. ctl'.addIndex = ctl.addIndex /\ ctl'.removeIndex = ctl.removeIndex
    BY <2>1, RespondFacts, Zenon
  <2> QED
    BY <2>1, <2>2, HomeStays, Zenon
<1>8. CASE StopServing
  <2> DEFINE S == {a \in Apps : conn[a]["ctl"].st = "open" /\ Leaving(a)}
             next == [ctl EXCEPT !.pc = "pausing", !.left = Engines]
  <2>1. UnregisterApplication(S, next)
    BY <1>8, Zenon DEF StopServing
  <2>2. /\ S \in SUBSET Apps /\ next \in CtlType
        /\ next.addIndex = ctl.addIndex /\ next.removeIndex = ctl.removeIndex
    BY <1>1, Zenon DEF CtlType
  <2> HIDE DEF S, next
  <2> QED
    BY <2>1, <2>2, HomeUnregister, Zenon
<1>9. CASE \/ Start \/ Stop \/ Launch \/ ServerRun \/ End
           \/ \E e \in Engines : \/ Pause(e) \/ Terminate(e) \/ WorkerCycle(e)
                                 \/ WorkerChecks(e)
  <2>1. /\ UNCHANGED <<manager, engine>>
        /\ \/ ctl' = ctl
           \/ \E p : ctl' = [ctl EXCEPT !.pc = p]
           \/ ctl' = [ctl EXCEPT !.pc = "serving", !.keep_running = TRUE]
           \/ ctl' = [ctl EXCEPT !.keep_running = FALSE]
           \/ ctl' = [ctl EXCEPT !.pc = "terminating", !.left = Engines]
           \/ \E e \in Engines : ctl' = [ctl EXCEPT !.left = @ \ {e}]
    BY <1>9, Zenon DEF Start, Stop, StopController, StopServer, Launch, Listen, ServerRun,
       End, Pause, Terminate, WorkerCycle, WorkerChecks
  <2>2. ctl'.addIndex = ctl.addIndex /\ ctl'.removeIndex = ctl.removeIndex
    BY <1>1, <2>1, Zenon DEF CtlType
  <2> QED
    BY <2>1, <2>2, HomeStays, Zenon
<1>10. ASSUME NEW e \in Engines, ChannelsUpdate(e)
       PROVE  HomeInv(h)'
  BY <1>10, HomeUpdate, Zenon
<1>11. CASE UNCHANGED vars
  BY <1>11, HomeStays, Zenon DEF vars
<1> QED
  BY <1>2, <1>3, <1>4, <1>5, <1>6, <1>7, <1>8, <1>9, <1>10, <1>11, Zenon
     DEF Next, ServerStep, WorkerStep, HandleNewMessage

\* UnregisterApplication takes the channels of an application from the engine that
\* serves them, when the names of all channels hash to the same engine (with one
\* engine they do). With several hashes the two static indices, of CreateChannel
\* and of UnregisterApplication, may name different engines.
THEOREM ReleasedEverywhere ==
  ASSUME OneEngine
  PROVE  Spec => []EnginesRelease
<1>1. CASE Channels = {}
  <2>1. ControllerInv => EnginesRelease
    <3> SUFFICES ASSUME ControllerInv
                 PROVE  EnginesRelease
      BY Zenon
    <3>1. engine \in [Engines -> EngineType]
      BY Zenon DEF ControllerInv, ControllerType
    <3>2. \A e \in Engines : engine[e].channels = {} /\ engine[e].enq = {}
      BY <1>1, <3>1, Zenon DEF EngineType
    <3> QED
      BY <3>2, Zenon DEF EnginesRelease
  <2> QED
    BY <2>1, ControllerInvariance, PTL
<1>2. ASSUME NEW c \in Channels
      PROVE  Spec => []EnginesRelease
  <2> DEFINE h == Hash[c]
  <2>1. h \in Engines /\ \A d \in Channels : Hash[d] = h
    BY ControllerAssumption, Zenon DEF ControllerAssumption, OneEngine
  <2> HIDE DEF h
  <2>2. Init => HomeInv(h)
    BY <2>1 DEF Init, HomeInv
  <2>3. ControllerInv /\ HomeInv(h) /\ [Next]_vars => HomeInv(h)'
    BY <2>1, HomeNext, Zenon
  <2>4. HomeInv(h) => EnginesRelease
    BY <2>1, Zenon DEF HomeInv, EnginesRelease
  <2> QED
    BY <2>2, <2>3, <2>4, ControllerInvariance, PTL DEF Spec
<1> QED
  BY <1>1, <1>2, Zenon
=============================================================================
