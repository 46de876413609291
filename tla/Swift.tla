------------------------------- MODULE Swift -------------------------------
(***************************************************************************)
(* swift::Pcb, the protocol control block of a Machnet flow                *)
(* (src/include/cc.h): 32-bit sequence arithmetic, the send window, the    *)
(* retransmission timer counted in slow-timer ticks, and the SACK bitmap.  *)
(* A control block is a record; each method is an operator on it.          *)
(***************************************************************************)
EXTENDS Integers

CONSTANTS
  Modulus,               \* 2^32: the sequence numbers are uint32_t
  kInitialCwnd,          \* 32
  kRexmitThreshold,      \* 3, for duplicate ACKs and for RTO retransmissions
  kRtoThresholdInTicks,  \* 3
  BucketSize,            \* sizeof(uint64_t) = 8: bits of a bucket in use
  BucketWidth,           \* 64: bits a bucket has
  PcbBuckets,            \* 256 / BucketSize = 32 buckets in the Pcb
  HdrBuckets             \* 4 buckets in the packet header

ASSUME SwiftAssumption ==
  /\ Modulus \in Nat \ {0} /\ Modulus % 2 = 0
  /\ kInitialCwnd \in Nat \ {0} /\ kInitialCwnd < Modulus \div 2
  /\ kRexmitThreshold \in Nat \ {0}
  /\ kRtoThresholdInTicks \in Nat \ {0}
  /\ BucketSize \in Nat \ {0} /\ BucketWidth \in Nat \ {0}
  /\ BucketSize <= BucketWidth
  /\ PcbBuckets \in Nat \ {0} /\ HdrBuckets \in 1..PcbBuckets

kRtoDisabled == -1

\* Arithmetic on uint32_t.
Wrap(n) == n % Modulus

\* static_cast<int32_t>(a - b) is negative when the wrapped difference is in
\* the upper half of the range.
seqno_lt(a, b) == Wrap(a - b) >= Modulus \div 2
seqno_eq(a, b) == Wrap(a - b) = 0
seqno_gt(a, b) == ~seqno_lt(a, b) /\ ~seqno_eq(a, b)

\* A fresh Pcb. The SACK bitmap is the set of its 1 bits, each a pair
\* <<bucket, bit in the bucket>>. cwnd never changes.
InitPcb ==
  [snd_nxt |-> 0, snd_una |-> 0, snd_ooo_acks |-> 0, rcv_nxt |-> 0,
   sack_bitmap |-> {}, sack_bitmap_count |-> 0, duplicate_acks |-> 0,
   rto_timer |-> kRtoDisabled, rto_rexmits |-> 0]

PcbType ==
  [snd_nxt: 0..(Modulus - 1), snd_una: 0..(Modulus - 1), snd_ooo_acks: 0..255,
   rcv_nxt: 0..(Modulus - 1),
   sack_bitmap: SUBSET (Int \X Int), sack_bitmap_count: 0..255,
   duplicate_acks: Nat, rto_timer: kRtoDisabled..kRtoThresholdInTicks,
   rto_rexmits: 0..kRexmitThreshold]

effective_wnd(p) ==
  LET w == Wrap(kInitialCwnd - (p.snd_nxt - p.snd_una - p.snd_ooo_acks))
  IN  IF w > kInitialCwnd THEN 0 ELSE w

advance_snd_nxt(p, n) == [p EXCEPT !.snd_nxt = Wrap(@ + n)]
advance_rcv_nxt(p, n) == [p EXCEPT !.rcv_nxt = Wrap(@ + n)]

max_rexmits_reached(p) == p.rto_rexmits >= kRexmitThreshold
rto_disabled(p) == p.rto_timer = kRtoDisabled
rto_expired(p)  == p.rto_timer >= kRtoThresholdInTicks
rto_reset(p)    == [p EXCEPT !.rto_timer = 0]
rto_disable(p)  == [p EXCEPT !.rto_timer = kRtoDisabled]
rto_advance(p)  == [p EXCEPT !.rto_timer = @ + 1]

\* (Mutation: a partial acknowledgement stops the timer.)
rto_maybe_reset_off(p) == rto_disable(p)

rto_maybe_reset(p) ==
  IF p.snd_una = p.snd_nxt THEN rto_disable(p) ELSE rto_reset(p)

\* k calls of sack_bitmap_shift_right_one. A bit moves towards bit 0 of its
\* bucket; bit 0 of a bucket becomes the top bit of the next bucket, and bit 0
\* of the last one is dropped. So the buckets are one tape, top bits first,
\* along which every bit moves by k. The count is a uint8_t.
TapePos(b) == b[1] * BucketWidth + (BucketWidth - 1 - b[2])
TapeBit(n) == <<n \div BucketWidth, BucketWidth - 1 - (n % BucketWidth)>>

sack_bitmap_shift_right(p, k) ==
  [p EXCEPT
     !.sack_bitmap =
        {TapeBit(TapePos(b) + k) :
           b \in {x \in @ : TapePos(x) + k < PcbBuckets * BucketWidth}},
     !.sack_bitmap_count = (@ - k) % 256]

sack_bitmap_bit_set(p, index) ==
  [p EXCEPT
     !.sack_bitmap = @ \cup {<<index \div BucketSize, index % BucketSize>>},
     !.sack_bitmap_count = (@ + 1) % 256]

\* The part of the bitmap that a packet header carries.
HdrBitmap(p) == {b \in p.sack_bitmap : b[1] < HdrBuckets}
=============================================================================
