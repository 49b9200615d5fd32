--------------------------- MODULE MCTimerManager ---------------------------
(* Small instances of TimerManager for TLC. *)
EXTENDS TimerManager

CONSTANTS t1, t2

TwoTimers   == {t1, t2}

(* A program that registers its timers once and never moves them, but      *)
(* creates and destroys them at any time, also from callbacks; and one that *)
(* calls onTimeout() again and moves timers, all of which live for ever.   *)
Programs == {{"destroy"}, {"rearm", "move"}}

=============================================================================
