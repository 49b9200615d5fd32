---------------------------- MODULE MCScheduler ----------------------------
(* Small instances of Scheduler for TLC. *)
EXTENDS Scheduler

CONSTANTS m1, m2

OneOfEach     == {m1, m2}
OnlyM2        == {m2}
StaticModules == {m1}

=============================================================================
