-------------------------------- MODULE MCUdp --------------------------------
(* Model values and bounds for Udp: the server under load, the server closed *)
(* or cancelled at work, the client closed, and the client cancelled.        *)
EXTENDS Udp

MCSetups ==
  {[writes |-> 2, doubles |-> 1, can |-> {}],
   [writes |-> 1, doubles |-> 1, can |-> {"stop"}],
   [writes |-> 1, doubles |-> 0, can |-> {"cancelServer", "lose"}],
   [writes |-> 1, doubles |-> 1, can |-> {"read", "close"}],
   [writes |-> 1, doubles |-> 1, can |-> {"cancel"}],
   [writes |-> 1, doubles |-> 0, can |-> {"read", "close", "cancel", "timeout"}],
   [writes |-> 1, doubles |-> 0, can |-> {"read", "cancel", "timeout", "steady"}]}

\* The setups of the runs that show one disagreement each.
MCSteady == {[writes |-> 1, doubles |-> 0, can |-> {"read", "cancel", "timeout", "steady"}]}
MCServed == {[writes |-> 2, doubles |-> 0, can |-> {}]}
=============================================================================
