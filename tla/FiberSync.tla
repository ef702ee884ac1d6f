----------------------------- MODULE FiberSync -----------------------------
(***************************************************************************)
(* The locks of fibers: FiberMutex (sync/fiber_mutex.cpp) and FiberCondvar *)
(* (sync/fiber_cond.cpp), one of each, used by a set of fibers that run on *)
(* the threads of a scheduler.                                             *)
(*                                                                         *)
(* Every access to a Spinlock, and what is done under m_queue_lock or      *)
(* under the condition variable's m_mutex, is one step.  A fiber that has  *)
(* called YieldToHold continues after somebody submitted it.               *)
(***************************************************************************)
EXTENDS Naturals, FiniteSets, SequencesExt

CONSTANTS
    Fibers,     \* the fibers that use the lock
    None,       \* m_fiber_id = -1, no fiber
    MaxLocks    \* bound: how often one fiber enters lock() or tryLock() from outside

ASSUME NoneAssumption == None \notin Fibers
ASSUME MaxLocksAssumption == MaxLocks \in Nat
ASSUME FibersAssumption == IsFiniteSet(Fibers)

VARIABLES
    mlock,      \* m_lock, the spin lock that tryLock() takes
    owner,      \* m_fiber_id
    waitq,      \* FiberMutex::m_wait_queue
    condq,      \* FiberCondvar::m_wait_queue
    pc,         \* where each fiber is
    popped,     \* unlock()'s local next_fiber
    then,       \* where a fiber continues after unlock(): "out" or "chold"
    ready,      \* fibers that were submitted and have not yet resumed
    locks,      \* how often each fiber has entered lock() or tryLock()
    shortcut    \* history: some lock() has returned because id == m_fiber_id

vars == <<mlock, owner, waitq, condq, pc, popped, then, ready, locks, shortcut>>

Init ==
    /\ mlock = FALSE
    /\ owner = None
    /\ waitq = <<>>
    /\ condq = <<>>
    /\ pc = [f \in Fibers |-> "out"]
    /\ popped = [f \in Fibers |-> None]
    /\ then = [f \in Fibers |-> "out"]
    /\ ready = {}
    /\ locks = [f \in Fibers |-> 0]
    /\ shortcut = FALSE

-----------------------------------------------------------------------------
(* FiberMutex::lock() *)

(* id == m_fiber_id: lock() returns at once. *)
LockEntry(f) ==
    /\ pc' = [pc EXCEPT ![f] = IF owner = f THEN "in" ELSE "try"]
    /\ shortcut' = (shortcut \/ owner = f)

Lock(f) ==
    /\ pc[f] = "out" /\ locks[f] < MaxLocks
    /\ locks' = [locks EXCEPT ![f] = @ + 1]
    /\ LockEntry(f)
    /\ UNCHANGED <<mlock, owner, waitq, condq, popped, then, ready>>

(* A call of FiberMutex::tryLock() from outside. *)
TryLock(f) ==
    /\ pc[f] = "out" /\ locks[f] < MaxLocks
    /\ locks' = [locks EXCEPT ![f] = @ + 1]
    /\ mlock' = TRUE
    /\ pc' = [pc EXCEPT ![f] = IF mlock THEN "out" ELSE "in"]
    /\ UNCHANGED <<owner, waitq, condq, popped, then, ready, shortcut>>

(* while (!tryLock()): the lock was free, or the fiber goes on to spin. *)
FirstTry(f) ==
    /\ pc[f] = "try"
    /\ mlock' = TRUE
    /\ pc' = [pc EXCEPT ![f] = IF mlock THEN "spin" ELSE "in"]
    /\ UNCHANGED <<owner, waitq, condq, popped, then, ready, locks, shortcut>>

(* One of the four further attempts succeeds. *)
SpinWins(f) ==
    /\ pc[f] = "spin" /\ ~mlock
    /\ mlock' = TRUE
    /\ pc' = [pc EXCEPT ![f] = "own"]
    /\ UNCHANGED <<owner, waitq, condq, popped, then, ready, locks, shortcut>>

(* m_fiber_id = id *)
SetOwner(f) ==
    /\ pc[f] = "own"
    /\ owner' = f
    /\ pc' = [pc EXCEPT ![f] = "in"]
    /\ UNCHANGED <<mlock, waitq, condq, popped, then, ready, locks, shortcut>>

(* The last of the four attempts has failed as well. *)
SpinFails(f) ==
    /\ pc[f] = "spin" /\ mlock
    /\ pc' = [pc EXCEPT ![f] = "push"]
    /\ UNCHANGED <<mlock, owner, waitq, condq, popped, then, ready, locks, shortcut>>

(* m_wait_queue.push under m_queue_lock, then YieldToHold. *)
Enqueue(f) ==
    /\ pc[f] = "push"
    /\ waitq' = Append(waitq, f)
    /\ pc' = [pc EXCEPT ![f] = "hold"]
    /\ UNCHANGED <<mlock, owner, condq, popped, then, ready, locks, shortcut>>

(* Mutant: who wakes up takes it that unlock() passed the lock on. *)
Mut_Resume(f) ==
    /\ pc[f] = "hold" /\ f \in ready
    /\ ready' = ready \ {f}
    /\ pc' = [pc EXCEPT ![f] = "in"]
    /\ UNCHANGED <<mlock, owner, waitq, condq, popped, then, locks, shortcut>>

(* YieldToHold returns: the loop condition is evaluated again. *)
Resume(f) ==
    /\ pc[f] = "hold" /\ f \in ready
    /\ ready' = ready \ {f}
    /\ pc' = [pc EXCEPT ![f] = "try"]
    /\ UNCHANGED <<mlock, owner, waitq, condq, popped, then, locks, shortcut>>

-----------------------------------------------------------------------------
(* FiberMutex::unlock(), called to leave the critical section or by        *)
(* FiberCondvar::wait.                                                     *)

Unlock(f) ==
    /\ pc[f] = "in"
    /\ then' = [then EXCEPT ![f] = "out"]
    /\ pc' = [pc EXCEPT ![f] = "unlock"]
    /\ UNCHANGED <<mlock, owner, waitq, condq, popped, ready, locks, shortcut>>

(* m_wait_queue is empty: unlock() returns; m_lock stays as it is. *)
UnlockEmpty(f) ==
    /\ pc[f] = "unlock" /\ waitq = <<>>
    /\ pc' = [pc EXCEPT ![f] = then[f]]
    /\ UNCHANGED <<mlock, owner, waitq, condq, popped, then, ready, locks, shortcut>>

(* Mutant: front() without pop(). *)
Mut_UnlockPops(f) ==
    /\ pc[f] = "unlock" /\ waitq # <<>>
    /\ popped' = [popped EXCEPT ![f] = Head(waitq)]
    /\ pc' = [pc EXCEPT ![f] = "release"]
    /\ UNCHANGED <<mlock, owner, waitq, condq, then, ready, locks, shortcut>>

(* The first waiter is taken from the queue under m_queue_lock. *)
UnlockPops(f) ==
    /\ pc[f] = "unlock" /\ waitq # <<>>
    /\ popped' = [popped EXCEPT ![f] = Head(waitq)]
    /\ waitq' = Tail(waitq)
    /\ pc' = [pc EXCEPT ![f] = "release"]
    /\ UNCHANGED <<mlock, owner, condq, then, ready, locks, shortcut>>

(* m_lock.unlock() *)
Release(f) ==
    /\ pc[f] = "release"
    /\ mlock' = FALSE
    /\ pc' = [pc EXCEPT ![f] = "submit"]
    /\ UNCHANGED <<owner, waitq, condq, popped, then, ready, locks, shortcut>>

(* next_fiber.first->submit(next_fiber.second) *)
SubmitNext(f) ==
    /\ pc[f] = "submit"
    /\ ready' = ready \cup {popped[f]}
    /\ popped' = [popped EXCEPT ![f] = None]
    /\ pc' = [pc EXCEPT ![f] = then[f]]
    /\ UNCHANGED <<mlock, owner, waitq, condq, then, locks, shortcut>>

-----------------------------------------------------------------------------
(* FiberCondvar *)

(* wait(): the fiber queues itself, then calls mutex.unlock(). *)
CondWait(f) ==
    /\ pc[f] = "in"
    /\ condq' = Append(condq, f)
    /\ then' = [then EXCEPT ![f] = "chold"]
    /\ pc' = [pc EXCEPT ![f] = "unlock"]
    /\ UNCHANGED <<mlock, owner, waitq, popped, ready, locks, shortcut>>

(* YieldToHold returns; wait() calls mutex.lock(). *)
CondResume(f) ==
    /\ pc[f] = "chold" /\ f \in ready
    /\ ready' = ready \ {f}
    /\ LockEntry(f)
    /\ UNCHANGED <<mlock, owner, waitq, condq, popped, then, locks>>

(* notify() and notifyAll(), by a fiber inside the lock. *)
Notify(f) ==
    /\ pc[f] = "in" /\ condq # <<>>
    /\ condq' = Tail(condq)
    /\ ready' = ready \cup {Head(condq)}
    /\ UNCHANGED <<mlock, owner, waitq, pc, popped, then, locks, shortcut>>

NotifyAll(f) ==
    /\ pc[f] = "in" /\ condq # <<>>
    /\ condq' = <<>>
    /\ ready' = ready \cup ToSet(condq)
    /\ UNCHANGED <<mlock, owner, waitq, pc, popped, then, locks, shortcut>>

-----------------------------------------------------------------------------
FiberStep(f) ==
    \/ Lock(f) \/ TryLock(f)
    \/ FirstTry(f) \/ SpinWins(f) \/ SetOwner(f) \/ SpinFails(f)
    \/ Enqueue(f) \/ Resume(f)
    \/ Unlock(f) \/ UnlockEmpty(f) \/ UnlockPops(f) \/ Release(f) \/ SubmitNext(f)
    \/ CondWait(f) \/ CondResume(f) \/ Notify(f) \/ NotifyAll(f)

Next == \E f \in Fibers : FiberStep(f)

Spec == Init /\ [][Next]_vars

-----------------------------------------------------------------------------
(* Properties *)

FiberPC == {"out", "try", "spin", "own", "push", "hold", "in", "unlock",
            "release", "submit", "chold"}

(* Type invariant: the fields of FiberMutex and FiberCondvar. *)
TypeOK ==
    /\ mlock \in BOOLEAN
    /\ owner \in Fibers \cup {None}
    /\ waitq \in Seq(Fibers) /\ condq \in Seq(Fibers)
    /\ pc \in [Fibers -> FiberPC]
    /\ popped \in [Fibers -> Fibers \cup {None}]
    /\ then \in [Fibers -> {"out", "chold"}]
    /\ ready \subseteq Fibers
    /\ locks \in [Fibers -> Nat]
    /\ shortcut \in BOOLEAN

(* The critical section: from the successful tryLock() until unlock().     *)
Inside == {"own", "in", "unlock", "release"}

(* Until some lock() has been cut short by the test of m_fiber_id (which   *)
(* unlock() never clears), at most one fiber is between lock() and         *)
(* unlock(), however attempts, barging tryLock()s, wake-ups, cond.wait and *)
(* the hand-over in unlock() interleave.                                   *)
MutualExclusion ==
    ~shortcut => \A f, g \in Fibers : pc[f] \in Inside /\ pc[g] \in Inside => f = g

Occurrences(q, f) == Cardinality({i \in 1..Len(q) : q[i] = f})

(* Where a wake-up for fiber f is pending: in the mutex's queue, in the    *)
(* condition variable's, in an unlock() that has popped it, or submitted.  *)
WakeUps(f) ==
    Occurrences(waitq, f) + Occurrences(condq, f)
    + Cardinality({g \in Fibers : popped[g] = f})
    + (IF f \in ready THEN 1 ELSE 0)

(* A fiber that waits, or is on the way into cond.wait, has exactly one    *)
(* wake-up coming, and any other has none: nobody is submitted while it    *)
(* runs elsewhere, and no waiter is forgotten by the queues.               *)
OneWakeUp ==
    \A f \in Fibers :
        WakeUps(f) = IF \/ pc[f] \in {"hold", "chold"}
                        \/ pc[f] \in {"unlock", "release", "submit"} /\ then[f] = "chold"
                     THEN 1 ELSE 0

-----------------------------------------------------------------------------
(* The inductive strengthenings that the proofs in FiberSyncProofs use. *)

(* unlock() holds the fiber it is about to submit, and only then. *)
PoppedShape ==
    \A f \in Fibers : IF pc[f] \in {"release", "submit"} THEN popped[f] \in Fibers
                                                         ELSE popped[f] = None

(* Without the shortcut, whoever is inside has m_lock. *)
HasLock ==
    /\ ~shortcut => \A f \in Fibers : pc[f] \in Inside => mlock
    /\ MutualExclusion

=============================================================================
