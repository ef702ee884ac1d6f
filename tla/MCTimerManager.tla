--------------------------- MODULE MCTimerManager ---------------------------
(* Instances of TimerManager for TLC. *)
EXTENDS TimerManager

CONSTANTS a, b, p1

TwoTimers   == {a, b}
OneRecurs   == {b}
OnePoller   == {p1}
ZeroAndTwo  == {0, 2}
=============================================================================
