--------------------------- MODULE ChannelLayout ---------------------------
(***************************************************************************)
(* How a channel is laid out in its shared memory: the size calculation,   *)
(* the offsets the initialisation stores in the channel's context, and the *)
(* accessors the application and the engine derive addresses with          *)
(* (src/ext/machnet_private.h, src/ext/machnet_common.h, src/ext/jring.h). *)
(* An address is an offset from the start of the mapping; p is the record  *)
(* of the parameters of a channel; posix tells the kind of memory.         *)
(***************************************************************************)
EXTENDS Integers

CONSTANTS
  CACHE_LINE_SIZE, HUGE_PAGE_2M_SIZE,
  getpagesize,                        \* of the system
  SizeofCtx, SizeofStats, SizeofJring, SizeofCtrlQueueEntry, SizeofRingSlot,
  MACHNET_MSGBUF_SPACE_RESERVED, MACHNET_MSGBUF_HEADROOM_MAX,
  MACHNET_CHANNEL_CTRL_SQ_SLOT_NR, MACHNET_CHANNEL_CTRL_CQ_SLOT_NR,
  RING_SZ_MASK

\* The powers of two that sizes and counts are taken from.
Pow2s ==
  {1, 2, 4, 8, 16, 32, 64, 128, 256, 512, 1024, 2048, 4096, 8192, 16384, 32768,
   65536, 131072, 262144, 524288, 1048576, 2097152, 4194304, 8388608, 16777216,
   33554432, 67108864, 134217728, 268435456, 536870912, 1073741824}

MaxStruct == 4096
MaxPage == 2097152
MaxSize == 1073741824

\* The structures are padded to cache lines, and pages hold whole lines.
ASSUME LayoutAssumption ==
  /\ {CACHE_LINE_SIZE, HUGE_PAGE_2M_SIZE, getpagesize} \subseteq Pow2s
  /\ {SizeofCtx, SizeofStats, SizeofJring, SizeofCtrlQueueEntry,
      SizeofRingSlot, MACHNET_MSGBUF_SPACE_RESERVED,
      MACHNET_MSGBUF_HEADROOM_MAX} \subseteq 1..MaxStruct
  /\ \A s \in {SizeofCtx, SizeofStats, SizeofJring} : s % CACHE_LINE_SIZE = 0
  /\ \A b \in {getpagesize, HUGE_PAGE_2M_SIZE} :
       b % CACHE_LINE_SIZE = 0 /\ b <= MaxPage
  /\ {MACHNET_CHANNEL_CTRL_SQ_SLOT_NR,
      MACHNET_CHANNEL_CTRL_CQ_SLOT_NR} \subseteq Pow2s
  /\ RING_SZ_MASK \in Nat

\* (size_t)-1, the result of a calculation that fails.
Bad == -1

\* IS_POW2 of machnet_private.h takes 0 for a power of two, ISPOWEROF2 of
\* jring.h does not.
IS_POW2(x) == x = 0 \/ x \in Pow2s
ISPOWEROF2(x) == x \in Pow2s

ROUNDUP_U64_POW2(x) == CHOOSE n \in Pow2s : x <= n /\ n < 2 * x

ALIGN_TO_BOUNDARY(x, b) == ((x + b - 1) \div b) * b

Page(posix) == IF posix THEN getpagesize ELSE HUGE_PAGE_2M_SIZE

jring_get_buf_ring_size(esize, count) ==
  IF esize % 4 # 0 \/ ~ISPOWEROF2(count) \/ count > RING_SZ_MASK
  THEN Bad
  ELSE ALIGN_TO_BOUNDARY(SizeofJring + count * esize, CACHE_LINE_SIZE)

CtrlSqSize == jring_get_buf_ring_size(SizeofCtrlQueueEntry,
                                      MACHNET_CHANNEL_CTRL_SQ_SLOT_NR)
CtrlCqSize == jring_get_buf_ring_size(SizeofCtrlQueueEntry,
                                      MACHNET_CHANNEL_CTRL_CQ_SLOT_NR)
DataRingSize(slots) == jring_get_buf_ring_size(SizeofRingSlot, slots)

\* The size of a buffer with its header and the room for packet headers.
buf_size(p) ==
  ROUNDUP_U64_POW2(p.buffer_size + MACHNET_MSGBUF_SPACE_RESERVED
                   + MACHNET_MSGBUF_HEADROOM_MAX)

\* The checks of the size calculation.
Valid(p, posix) ==
  /\ IS_POW2(p.machnet_slots) /\ IS_POW2(p.app_slots) /\ IS_POW2(p.buf_slots)
  /\ p.buffer_size <= Page(posix)
  /\ \A size \in {CtrlSqSize, CtrlCqSize, DataRingSize(p.machnet_slots),
                  DataRingSize(p.app_slots), DataRingSize(p.buf_slots)} :
       size # Bad

RingsEnd(p) ==
  SizeofCtx + SizeofStats + CtrlSqSize + CtrlCqSize
  + DataRingSize(p.machnet_slots) + DataRingSize(p.app_slots)
  + DataRingSize(p.buf_slots)

TableEnd(p) ==
  ALIGN_TO_BOUNDARY(RingsEnd(p), CACHE_LINE_SIZE) + p.buf_slots * SizeofRingSlot

\* __machnet_channel_dataplane_calculate_size.
CalculateSize(p, posix) ==
  IF ~Valid(p, posix) THEN Bad
  ELSE ALIGN_TO_BOUNDARY(
         ALIGN_TO_BOUNDARY(TableEnd(p), Page(posix))
           + p.buf_slots * buf_size(p),
         Page(posix))

-----------------------------------------------------------------------------
\* The offsets __machnet_channel_dataplane_init stores in the context: each
\* area follows the one before.
stats_ofs == SizeofCtx
ctrl_sq_ring_ofs == stats_ofs + SizeofStats
ctrl_cq_ring_ofs == ctrl_sq_ring_ofs + CtrlSqSize
machnet_ring_ofs == ctrl_cq_ring_ofs + CtrlCqSize
app_ring_ofs(p) == machnet_ring_ofs + DataRingSize(p.machnet_slots)

\* (Mutation: the size of the other ring.)
buf_ring_ofs_machnet(p) == app_ring_ofs(p) + DataRingSize(p.machnet_slots)

buf_ring_ofs(p) == app_ring_ofs(p) + DataRingSize(p.app_slots)

buffer_index_table_ofs(p) ==
  ALIGN_TO_BOUNDARY(buf_ring_ofs(p) + DataRingSize(p.buf_slots),
                    CACHE_LINE_SIZE)

buf_pool_ofs(p, posix) ==
  ALIGN_TO_BOUNDARY(buffer_index_table_ofs(p) + p.buf_slots * SizeofRingSlot,
                    Page(posix))

\* The buffer ring holds one entry less than it has slots.
buf_pool_mask(p) == p.buf_slots - 1

\* MachnetMsgBuf_t.size: what there is of a buffer for headers and payload.
MsgBufSize(p) == p.buffer_size + MACHNET_MSGBUF_HEADROOM_MAX

-----------------------------------------------------------------------------
\* The accessors of machnet_common.h.
channel_buf_pool_size(p) == buf_pool_mask(p) * buf_size(p)
channel_buf(p, posix, index) == buf_pool_ofs(p, posix) + index * buf_size(p)
channel_buf_index(p, posix, addr) ==
  (addr - buf_pool_ofs(p, posix)) \div buf_size(p)
channel_buf_base(addr) == addr + MACHNET_MSGBUF_SPACE_RESERVED

\* The pages of the pool that RegisterMemForDMA hands to the device.
pages_nr(p, posix) ==
  (channel_buf_pool_size(p) + Page(posix) - 1) \div Page(posix)

-----------------------------------------------------------------------------
\* The areas of a channel follow each other without overlap: each begins where
\* the one before has ended, the rings and the index table begin at a cache
\* line and the pool at a page, and the pool of buf_slots buffers ends within
\* the size that was calculated for the mapping.
AreasSound(p, posix, size) ==
  /\ SizeofCtx <= stats_ofs
  /\ stats_ofs + SizeofStats <= ctrl_sq_ring_ofs
  /\ ctrl_sq_ring_ofs + CtrlSqSize <= ctrl_cq_ring_ofs
  /\ ctrl_cq_ring_ofs + CtrlCqSize <= machnet_ring_ofs
  /\ machnet_ring_ofs + DataRingSize(p.machnet_slots) <= app_ring_ofs(p)
  /\ app_ring_ofs(p) + DataRingSize(p.app_slots) <= buf_ring_ofs(p)
  /\ buf_ring_ofs(p) + DataRingSize(p.buf_slots) <= buffer_index_table_ofs(p)
  /\ buffer_index_table_ofs(p) + p.buf_slots * SizeofRingSlot
       <= buf_pool_ofs(p, posix)
  /\ buf_pool_ofs(p, posix) + p.buf_slots * buf_size(p) <= size
  /\ \A ofs \in {ctrl_sq_ring_ofs, ctrl_cq_ring_ofs, machnet_ring_ofs,
                 app_ring_ofs(p), buf_ring_ofs(p), buffer_index_table_ofs(p)} :
       ofs % CACHE_LINE_SIZE = 0
  /\ buf_pool_ofs(p, posix) % Page(posix) = 0 /\ size % Page(posix) = 0

\* Every buffer of the pool lies within the mapping, its header, headroom and
\* payload lie within its own slot of the pool, and the address of a buffer
\* leads back to its index.
BuffersSound(p, posix, size) ==
  \A i \in 0..(buf_pool_mask(p) - 1) :
    LET addr == channel_buf(p, posix, i)
    IN  /\ addr + buf_size(p) <= size
        /\ channel_buf_base(addr) + MsgBufSize(p) <= addr + buf_size(p)
        /\ channel_buf_index(p, posix, addr) = i

\* The pages registered for DMA hold every buffer, and none reaches beyond the
\* end of the channel.
PagesSound(p, posix, size) ==
  /\ channel_buf_pool_size(p) <= pages_nr(p, posix) * Page(posix)
  /\ buf_pool_ofs(p, posix) + pages_nr(p, posix) * Page(posix) <= size
=============================================================================
