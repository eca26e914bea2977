-------------------------------- MODULE MCTcp --------------------------------
(* TcpClient and another client at a server with a limit of one.            *)
EXTENDS TcpClient

CONSTANTS p1, p2, c1

MCPeers == {p1, p2}
MCClosers == {c1}
MCSetups == {{"stop"}, {"timeout", "cancelServer"}, {"close", "cancel"},
             {"timeout", "cancel", "steady"}}

MCSteady   == {{"timeout", "cancel", "steady"}}
MCStopped  == {{"stop"}}
MCServed   == {{}}
=============================================================================
