------------------------------ MODULE MCTelnet ------------------------------
(* Model values and bounds for Telnet.                                     *)
EXTENDS Telnet

MCSetups ==
  {[script |-> <<"t", IAC, WILL, "t">>, keep |-> FALSE, calls |-> 1, rival |-> FALSE, stops |-> FALSE],
   [script |-> <<IAC, SB, IAC, SE, "t">>, keep |-> FALSE, calls |-> 1, rival |-> FALSE, stops |-> FALSE],
   [script |-> <<IAC, IAC>>, keep |-> TRUE, calls |-> 2, rival |-> FALSE, stops |-> FALSE],
   [script |-> <<"t">>, keep |-> FALSE, calls |-> 1, rival |-> FALSE, stops |-> TRUE],
   [script |-> <<>>, keep |-> FALSE, calls |-> 1, rival |-> TRUE, stops |-> FALSE],
   [script |-> <<>>, keep |-> FALSE, calls |-> 0, rival |-> TRUE, stops |-> TRUE]}
MCBytes == {"t", "full", IAC, WILL, SB, SE}
MCNotice == <<"full">>
=============================================================================
