----------------------------- MODULE MCTcpFlow -----------------------------
(***************************************************************************)
(* Sequence numbers and scenarios for the model-checked instances of       *)
(* TcpFlow.                                                                *)
(***************************************************************************)
EXTENDS TcpFlow

\* The client's sequence numbers wrap in its first message.
Wrapping == [client |-> Modulus - 2, server |-> 3]
SmallMSS == [client |-> 3, server |-> 0]

\* A Machnet peer advertises the same window always, a kernel may close it.
OpenWindows  == [client |-> {kInitialWindowSize}, server |-> {kInitialWindowSize}]
ServerStalls == [OpenWindows EXCEPT !.client = @ \cup {0}]

TwoMessages == [client |-> <<<<1>>, <<2, 3>>>>, server |-> <<>>]
OneMessage  == [client |-> <<<<2, 3>>>>, server |-> <<>>]

Scenario(toSend, closers, windows, pool, buf) ==
  [toSend |-> toSend, closers |-> closers, windows |-> windows,
   maxPoolFailures |-> pool, maxBufFailures |-> buf]

\* A stream of two messages and an empty packet pool, or a receiver without
\* buffers; both ends shut down; a receiver that closes its window.
Mixed ==
  {Scenario(TwoMessages, {"client"}, OpenWindows, 1, 0),
   Scenario(TwoMessages, {}, OpenWindows, 0, 1),
   Scenario(OneMessage, Ends, OpenWindows, 0, 0),
   Scenario(OneMessage, {"client"}, ServerStalls, 0, 0)}

=============================================================================
