---------------------------- MODULE MCFdManager ----------------------------
(* Instances of FdManager for TLC. *)
EXTENDS FdManager

CONSTANTS t1, t2, t3

\* 64 is the first number that the initial table of 64 entries does not cover.
TwoFds       == {7, 64}
ThreeThreads == {t1, t2, t3}
OneOfThem    == {t3}
OneTimeout   == {5}
=============================================================================
