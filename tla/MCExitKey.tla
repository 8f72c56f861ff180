------------------------------ MODULE MCExitKey ------------------------------
(* The exit's key file with five keys as model values.                     *)
EXTENDS ExitKey, TLC

CONSTANTS k1, k2, k3, k4, k5

MCKeys == {k1, k2, k3, k4, k5}

=============================================================================
