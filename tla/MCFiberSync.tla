---------------------------- MODULE MCFiberSync ----------------------------
(* Instances of FiberSync for TLC. *)
EXTENDS FiberSync

CONSTANTS f1, f2, f3, f4

FourFibers  == {f1, f2, f3, f4}

FiberSymmetry == Permutations(Fibers)
=============================================================================
