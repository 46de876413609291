----------------------------- MODULE PacketBag -----------------------------
(***************************************************************************)
(* The packets in flight, as a bag: a function from the packets the network *)
(* holds to the number of copies of each. The operators are those of the    *)
(* standard module Bags that a network needs. Bags itself, and with it      *)
(* SequencesExt, brings the prover's libraries about sets and sequences     *)
(* into every proof obligation, which makes each about ten times as slow.   *)
(***************************************************************************)
EXTENDS Naturals, FiniteSets

IsABag(B) == B \in [DOMAIN B -> Nat \ {0}]

BagToSet(B) == DOMAIN B

CopiesIn(p, B) == IF p \in DOMAIN B THEN B[p] ELSE 0

EmptyBag == [p \in {} |-> 0]

\* B with the packets of the sequence s added.
AddAll(B, s) ==
  [p \in DOMAIN B \cup {s[i] : i \in DOMAIN s} |->
     CopiesIn(p, B) + Cardinality({i \in DOMAIN s : s[i] = p})]

\* B with one copy of p removed.
RemoveOne(B, p) ==
  [q \in {r \in DOMAIN B : r = p => B[p] > 1} |->
     IF q = p THEN B[p] - 1 ELSE B[q]]
=============================================================================
