---------------------------- MODULE MCScheduler ----------------------------
(* Instances of Scheduler for TLC. *)
EXTENDS Scheduler

CONSTANTS t1, t2, f1, f2, w1, w2

OneThread   == {t1}
TwoThreads  == {t1, t2}
TwoFibers   == {f1, f2}
TwoWorks    == {w1, w2}
NoGroups    == {}
NoPark      == {}
Unpinned    == {AnyThread}
Pinned      == {t1, AnyThread}
SingleGroup == {<<w1>>}
PairGroup   == {<<w1, w2>>}

FiberSymmetry == Permutations(Fibers)
=============================================================================
