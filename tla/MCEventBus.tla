----------------------------- MODULE MCEventBus -----------------------------
(* Small instances of EventBus for TLC. *)
EXTENDS EventBus

CONSTANTS e1, e2

TwoEvents == {e1, e2}
OneParam  == {0}

=============================================================================
