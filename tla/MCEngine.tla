------------------------------ MODULE MCEngine ------------------------------
(***************************************************************************)
(* Requests of the applications for the model-checked instances of Engine. *)
(***************************************************************************)
EXTENDS Engine, TLC

CONSTANTS a, b, x

Conn(proto, isLocal) == [op |-> "connect", proto |-> proto, peer |-> x,
                         isLocal |-> isLocal]
Lstn(proto, port) == [op |-> "listen", proto |-> proto, port |-> port,
                      isLocal |-> TRUE]

\* Both transports, a port that a flow may also be given and that both channels
\* listen on, and an address that is not local.
MixedRequests ==
  a :> {Conn("tcp", TRUE), Lstn("udp", 2)} @@
  b :> {Lstn("tcp", 2), Conn("udp", FALSE)}

TwoAndOne == a :> 2 @@ b :> 1

=============================================================================
