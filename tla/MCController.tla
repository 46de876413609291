--------------------------- MODULE MCController ---------------------------
(***************************************************************************)
(* Hashes of channel names and numbers of calls for the model-checked      *)
(* instances of Controller.                                                *)
(***************************************************************************)
EXTENDS Controller, TLC

CONSTANTS a, b, e

\* All names hash to the engine e.
OneEngine == [c \in Channels |-> e]

\* Two attaches of one application, one of the other.
TwoAndOne == a :> 2 @@ b :> 1

=============================================================================
