--------------------------- MODULE MCConnectivity ---------------------------
(* Small instances of Connectivity for TLC. *)
EXTENDS Connectivity

CONSTANTS m1, m2

TwoMessages == {m1, m2}

=============================================================================
