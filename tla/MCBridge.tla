------------------------------ MODULE MCBridge ------------------------------
(* Bridge with two exits given as model values.                            *)
EXTENDS Bridge, TLC

CONSTANTS e1, e2

MCExits == {e1, e2}

MCPorts == {1, 2}

=============================================================================
