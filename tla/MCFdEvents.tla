----------------------------- MODULE MCFdEvents -----------------------------
(* Instances of FdEvents for TLC. *)
EXTENDS FdEvents, TLC

CONSTANTS p1, p2

\* 32 is the first number that the initial table of 32 entries does not cover.
TwoFds     == {5, 32}
ReadWrite  == {"READ", "WRITE"}
TwoPollers == {p1, p2}

PollerSymmetry == Permutations(Pollers)
=============================================================================
