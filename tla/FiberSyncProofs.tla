-------------------------- MODULE FiberSyncProofs --------------------------
(* Machine-checked proofs about FiberSync. *)
EXTENDS FiberSync, FiniteSetTheorems, TLAPS

Base == TypeOK /\ PoppedShape

(* The initial state, before any fiber has called lock(), is well typed. *)
LEMMA BaseInit == Init => Base
  <1> SUFFICES ASSUME Init PROVE Base
    OBVIOUS
  <1>1. mlock \in BOOLEAN /\ owner \in Fibers \cup {None}
    BY DEF Init
  <1>2. waitq \in Seq(Fibers) /\ condq \in Seq(Fibers) /\ ready \subseteq Fibers
    BY DEF Init
  <1>3. /\ pc \in [Fibers -> FiberPC]
        /\ popped \in [Fibers -> Fibers \cup {None}]
        /\ then \in [Fibers -> {"out", "chold"}]
        /\ locks \in [Fibers -> Nat]
        /\ shortcut \in BOOLEAN
    BY DEF Init, FiberPC
  <1>4. PoppedShape
    BY DEF Init, PoppedShape
  <1> QED BY <1>1, <1>2, <1>3, <1>4 DEF Base, TypeOK

(* Every step of lock(), unlock(), wait() and notify() keeps the types. *)
LEMMA BaseNext == Base /\ [Next]_vars => Base'
  <1> SUFFICES ASSUME TypeOK, PoppedShape, [Next]_vars
               PROVE  TypeOK' /\ PoppedShape'
    BY DEF Base
  <1> USE NoneAssumption DEF FiberPC
  <1>1. CASE UNCHANGED vars
    BY <1>1 DEF TypeOK, PoppedShape, vars
  <1>2. ASSUME NEW f \in Fibers, FiberStep(f)
        PROVE  TypeOK' /\ PoppedShape'
    <2>1. CASE Lock(f)
      BY <2>1 DEF Lock, LockEntry, TypeOK, PoppedShape
    <2>2. CASE TryLock(f)
      <3>1. TypeOK'
        BY <2>2 DEF TryLock, TypeOK
      <3>2. PoppedShape'
        BY <2>2 DEF TryLock, TypeOK, PoppedShape
      <3> QED BY <3>1, <3>2
    <2>3. CASE FirstTry(f)
      BY <2>3 DEF FirstTry, TypeOK, PoppedShape
    <2>4. CASE SpinWins(f)
      BY <2>4 DEF SpinWins, TypeOK, PoppedShape
    <2>5. CASE SetOwner(f)
      BY <2>5 DEF SetOwner, TypeOK, PoppedShape
    <2>6. CASE SpinFails(f)
      BY <2>6 DEF SpinFails, TypeOK, PoppedShape
    <2>7. CASE Enqueue(f)
      BY <2>7 DEF Enqueue, TypeOK, PoppedShape
    <2>8. CASE Resume(f)
      BY <2>8 DEF Resume, TypeOK, PoppedShape
    <2>9. CASE Unlock(f)
      BY <2>9 DEF Unlock, TypeOK, PoppedShape
    <2>10. CASE UnlockEmpty(f)
      BY <2>10 DEF UnlockEmpty, TypeOK, PoppedShape
    <2>11. CASE UnlockPops(f)
      <3>1. Head(waitq) \in Fibers /\ Tail(waitq) \in Seq(Fibers)
        BY <2>11 DEF UnlockPops, TypeOK
      <3> QED BY <2>11, <3>1 DEF UnlockPops, TypeOK, PoppedShape
    <2>12. CASE Release(f)
      BY <2>12 DEF Release, TypeOK, PoppedShape
    <2>13. CASE SubmitNext(f)
      <3>1. popped[f] \in Fibers
        BY <2>13 DEF SubmitNext, PoppedShape
      <3> QED BY <2>13, <3>1 DEF SubmitNext, TypeOK, PoppedShape
    <2>14. CASE CondWait(f)
      BY <2>14 DEF CondWait, TypeOK, PoppedShape
    <2>15. CASE CondResume(f)
      BY <2>15 DEF CondResume, LockEntry, TypeOK, PoppedShape
    <2>16. CASE Notify(f)
      <3>1. Head(condq) \in Fibers /\ Tail(condq) \in Seq(Fibers)
        BY <2>16 DEF Notify, TypeOK
      <3> QED BY <2>16, <3>1 DEF Notify, TypeOK, PoppedShape
    <2>17. CASE NotifyAll(f)
      <3>1. ToSet(condq) \subseteq Fibers
        BY DEF ToSet, TypeOK
      <3> QED BY <2>17, <3>1 DEF NotifyAll, TypeOK, PoppedShape
    <2> QED BY <1>2, <2>1, <2>2, <2>3, <2>4, <2>5, <2>6, <2>7, <2>8, <2>9,
               <2>10, <2>11, <2>12, <2>13, <2>14, <2>15, <2>16, <2>17
            DEF FiberStep
  <1> QED BY <1>1, <1>2 DEF Next

(* For any set of fibers and any use of the lock and the condition         *)
(* variable: the queues hold fibers, and what unlock() submits is one.     *)
THEOREM TypeCorrect == Spec => []TypeOK
  <1>1. Base => TypeOK
    BY DEF Base
  <1> QED BY <1>1, BaseInit, BaseNext, PTL DEF Spec

-----------------------------------------------------------------------------
(* Nobody is inside at first. *)
LEMMA HasLockInit == Init => HasLock
  BY DEF Init, HasLock, MutualExclusion, Inside

(* Every step keeps m_lock with whoever is inside: it is taken only when   *)
(* it was free, and unlock() frees it only after a waiter was popped.      *)
LEMMA HasLockNext ==
    ASSUME TypeOK, HasLock, [Next]_vars
    PROVE  HasLock'
  <1> USE DEF Inside, MutualExclusion, HasLock
  <1>1. CASE UNCHANGED vars
    BY <1>1 DEF vars
  <1>2. ASSUME NEW f \in Fibers, FiberStep(f)
        PROVE  HasLock'
    <2>1. CASE Lock(f)
      BY <2>1 DEF Lock, LockEntry, TypeOK
    <2>2. CASE TryLock(f)
      BY <2>2 DEF TryLock, TypeOK
    <2>3. CASE FirstTry(f)
      BY <2>3 DEF FirstTry, TypeOK
    <2>4. CASE SpinWins(f)
      BY <2>4 DEF SpinWins, TypeOK
    <2>5. CASE SetOwner(f)
      BY <2>5 DEF SetOwner, TypeOK
    <2>6. CASE SpinFails(f)
      BY <2>6 DEF SpinFails, TypeOK
    <2>7. CASE Enqueue(f)
      BY <2>7 DEF Enqueue, TypeOK
    <2>8. CASE Resume(f)
      BY <2>8 DEF Resume, TypeOK
    <2>9. CASE Unlock(f)
      BY <2>9 DEF Unlock, TypeOK
    <2>10. CASE UnlockEmpty(f)
      <3>1. then[f] \notin Inside
        BY DEF TypeOK
      <3> QED BY <2>10, <3>1 DEF UnlockEmpty, TypeOK
    <2>11. CASE UnlockPops(f)
      BY <2>11 DEF UnlockPops, TypeOK
    <2>12. CASE Release(f)
      BY <2>12 DEF Release, TypeOK
    <2>13. CASE SubmitNext(f)
      <3>1. then[f] \notin Inside
        BY DEF TypeOK
      <3> QED BY <2>13, <3>1 DEF SubmitNext, TypeOK
    <2>14. CASE CondWait(f)
      BY <2>14 DEF CondWait, TypeOK
    <2>15. CASE CondResume(f)
      BY <2>15 DEF CondResume, LockEntry, TypeOK
    <2>16. CASE Notify(f)
      BY <2>16 DEF Notify, TypeOK
    <2>17. CASE NotifyAll(f)
      BY <2>17 DEF NotifyAll, TypeOK
    <2> QED BY <1>2, <2>1, <2>2, <2>3, <2>4, <2>5, <2>6, <2>7, <2>8, <2>9,
               <2>10, <2>11, <2>12, <2>13, <2>14, <2>15, <2>16, <2>17
            DEF FiberStep
  <1> QED BY <1>1, <1>2 DEF Next

(* FiberMutex, with the condition variable on top of it, excludes any      *)
(* number of fibers from each other for any number of lock() and wait()    *)
(* calls, up to the first lock() that returns through m_fiber_id: every    *)
(* failure of mutual exclusion begins with that shortcut.                  *)
THEOREM ExcludesUntilShortcut == Spec => []MutualExclusion
  <1>1. Base /\ HasLock /\ [Next]_vars => (Base /\ HasLock)'
    BY BaseNext, HasLockNext DEF Base
  <1>2. Init => Base /\ HasLock
    BY BaseInit, HasLockInit
  <1>3. HasLock => MutualExclusion
    BY DEF HasLock
  <1> QED BY <1>1, <1>2, <1>3, PTL DEF Spec

-----------------------------------------------------------------------------
(* Counting in a queue *)

(* The positions of a fiber in a queue are finitely many. *)
LEMMA PositionsFinite ==
    ASSUME NEW S, NEW q \in Seq(S), NEW f
    PROVE  IsFiniteSet({i \in 1..Len(q) : q[i] = f})
  <1>1. IsFiniteSet(1..Len(q))
    BY FS_Interval, Len(q) \in Int, 1 \in Int
  <1>2. {i \in 1..Len(q) : q[i] = f} \in SUBSET (1..Len(q))
    OBVIOUS
  <1> QED BY <1>1, <1>2, FS_Subset

(* The empty queue, and a queue that holds the fiber. *)
LEMMA OccurrencesFacts ==
    ASSUME NEW S, NEW q \in Seq(S), NEW f
    PROVE  /\ Occurrences(q, f) \in Nat
           /\ Occurrences(<<>>, f) = 0
           /\ (Occurrences(q, f) > 0) <=> (f \in ToSet(q))
  <1> DEFINE I == {i \in 1..Len(q) : q[i] = f}
  <1>1. IsFiniteSet(I)
    BY PositionsFinite
  <1>2. Cardinality(I) \in Nat /\ (Cardinality(I) = 0 <=> I = {})
    BY <1>1, FS_CardinalityType, FS_EmptySet
  <1>3. I # {} <=> f \in ToSet(q)
    BY DEF ToSet
  <1>4. {i \in 1..Len(<<>>) : <<>>[i] = f} = {}
    OBVIOUS
  <1>5. Occurrences(<<>>, f) = 0
    BY <1>4, FS_EmptySet DEF Occurrences
  <1>6. Occurrences(q, f) = Cardinality(I)
    BY DEF Occurrences
  <1> HIDE DEF I
  <1> QED BY <1>2, <1>3, <1>5, <1>6

(* push() adds one occurrence of what is pushed. *)
LEMMA OccurrencesAppend ==
    ASSUME NEW S, NEW q \in Seq(S), NEW x \in S, NEW f
    PROVE  Occurrences(Append(q, x), f) = Occurrences(q, f) + (IF x = f THEN 1 ELSE 0)
  <1> DEFINE I == {i \in 1..Len(q) : q[i] = f}
             J == {i \in 1..Len(Append(q, x)) : Append(q, x)[i] = f}
             n == Len(q) + 1
  <1>1. IsFiniteSet(I)
    BY PositionsFinite
  <1>2. Cardinality(I) \in Nat
    BY <1>1, FS_CardinalityType
  <1>3. J = IF x = f THEN I \cup {n} ELSE I
    OBVIOUS
  <1>4. n \notin I
    OBVIOUS
  <1>5. Cardinality(I \cup {n}) = Cardinality(I) + 1
    BY <1>1, <1>4, FS_AddElement
  <1>6. Occurrences(q, f) = Cardinality(I) /\ Occurrences(Append(q, x), f) = Cardinality(J)
    BY DEF Occurrences
  <1> HIDE DEF I, J, n
  <1> QED BY <1>2, <1>3, <1>5, <1>6

(* pop() takes one occurrence of front() away. *)
LEMMA OccurrencesTail ==
    ASSUME NEW S, NEW q \in Seq(S), q # <<>>, NEW f
    PROVE  Occurrences(Tail(q), f) = Occurrences(q, f) - (IF Head(q) = f THEN 1 ELSE 0)
  <1> DEFINE I == {i \in 1..Len(q) : q[i] = f}
             J == {i \in 1..Len(Tail(q)) : Tail(q)[i] = f}
             shift == [j \in J |-> j + 1]
  <1>0. Len(q) \in Nat \ {0} /\ Len(Tail(q)) = Len(q) - 1
        /\ (\A i \in 1..(Len(q) - 1) : Tail(q)[i] = q[i + 1]) /\ Head(q) = q[1]
    OBVIOUS
  <1>1. IsFiniteSet(I) /\ IsFiniteSet(J)
    BY PositionsFinite, Tail(q) \in Seq(S)
  <1>2. Cardinality(I) \in Nat /\ Cardinality(J) \in Nat
    BY <1>1, FS_CardinalityType
  <1>3. shift \in Bijection(J, I \ {1})
    <2>1. shift \in [J -> I \ {1}]
      BY <1>0
    <2>2. \A a, b \in J : shift[a] = shift[b] => a = b
      BY <1>0
    <2>3. \A i \in I \ {1} : \E j \in J : shift[j] = i
      <3> TAKE i \in I \ {1}
      <3>1. i - 1 \in J /\ shift[i - 1] = i
        BY <1>0
      <3> QED BY <3>1
    <2> HIDE DEF I, J, shift
    <2> QED BY <2>1, <2>2, <2>3 DEF Bijection, Injection, Surjection, IsInjective
  <1>4. Cardinality(J) = Cardinality(I \ {1})
    <2> HIDE DEF I, J, shift
    <2> QED BY <1>1, <1>3, FS_Bijection DEF ExistsBijection
  <1>5. 1 \in I <=> Head(q) = f
    BY <1>0
  <1>6. Cardinality(I \ {1}) = IF 1 \in I THEN Cardinality(I) - 1 ELSE Cardinality(I)
    BY <1>1, FS_RemoveElement
  <1>7. Occurrences(q, f) = Cardinality(I) /\ Occurrences(Tail(q), f) = Cardinality(J)
    BY DEF Occurrences
  <1> HIDE DEF I, J, shift
  <1> QED BY <1>2, <1>4, <1>5, <1>6, <1>7

-----------------------------------------------------------------------------
(* One wake-up per waiter *)

(* How many unlock() calls have taken fiber f from the queue. *)
Pops(p, f) == Cardinality({g \in Fibers : p[g] = f})

(* Whether fiber f waits, or is on its way into the wait of FiberCondvar. *)
Due(f) == \/ pc[f] \in {"hold", "chold"}
          \/ pc[f] \in {"unlock", "release", "submit"} /\ then[f] = "chold"

(* Taking fiber x, and dropping it again after the submit. *)
LEMMA PopsStep ==
    ASSUME NEW p \in [Fibers -> Fibers \cup {None}], NEW g \in Fibers, NEW q,
           \A e \in Fibers : e # g => q[e] = p[e], NEW f \in Fibers
    PROVE  /\ Pops(p, f) \in Nat /\ Pops(q, f) \in Nat
           /\ Pops(q, f) = Pops(p, f) - (IF p[g] = f THEN 1 ELSE 0) + (IF q[g] = f THEN 1 ELSE 0)
  <1> DEFINE A == {e \in Fibers : p[e] = f}
             B == {e \in Fibers : q[e] = f}
  <1>1. IsFiniteSet(A) /\ IsFiniteSet(B)
    BY FibersAssumption, FS_Subset, A \in SUBSET Fibers, B \in SUBSET Fibers
  <1>2. Cardinality(A) \in Nat /\ Cardinality(B) \in Nat
    BY <1>1, FS_CardinalityType
  <1>3. /\ Cardinality(A \ {g}) = IF g \in A THEN Cardinality(A) - 1 ELSE Cardinality(A)
        /\ Cardinality(A \cup {g}) = IF g \in A THEN Cardinality(A) ELSE Cardinality(A) + 1
    BY <1>1, FS_AddElement, FS_RemoveElement
  <1>4. g \in A <=> p[g] = f
    OBVIOUS
  <1>5. B = IF q[g] = f THEN A \cup {g} ELSE A \ {g}
    OBVIOUS
  <1>6. Pops(p, f) = Cardinality(A) /\ Pops(q, f) = Cardinality(B)
    BY DEF Pops
  <1> HIDE DEF A, B
  <1> QED BY <1>2, <1>3, <1>4, <1>5, <1>6

(* Before the first lock() there is no waiter and no wake-up. *)
LEMMA OneWakeUpInit == Init => OneWakeUp
  <1> SUFFICES ASSUME Init, NEW f \in Fibers
               PROVE  WakeUps(f) = 0 /\ ~Due(f)
    BY DEF OneWakeUp, Due
  <1>1. Occurrences(waitq, f) = 0 /\ Occurrences(condq, f) = 0
    BY OccurrencesFacts, <<>> \in Seq(Fibers) DEF Init
  <1>2. {g \in Fibers : popped[g] = f} = {}
    BY NoneAssumption DEF Init
  <1>3. Cardinality({g \in Fibers : popped[g] = f}) = 0
    BY <1>2, FS_EmptySet
  <1> QED BY <1>1, <1>3 DEF Init, WakeUps, Due

(* Every step moves a wake-up from one place to the next, makes one for a  *)
(* fiber that goes to sleep, or uses one up for a fiber that resumes.      *)
LEMMA OneWakeUpNext ==
    ASSUME TypeOK, PoppedShape, OneWakeUp, [Next]_vars
    PROVE  OneWakeUp'
  <1> SUFFICES ASSUME NEW h \in Fibers
               PROVE  Occurrences(waitq', h) + Occurrences(condq', h) + Pops(popped', h)
                        + (IF h \in ready' THEN 1 ELSE 0) = IF Due(h)' THEN 1 ELSE 0
    BY DEF OneWakeUp, WakeUps, Pops, Due
  <1> DEFINE Kept == Occurrences(waitq', h) + Occurrences(condq', h) + Pops(popped', h)
                        + (IF h \in ready' THEN 1 ELSE 0) = IF Due(h)' THEN 1 ELSE 0
  <1>0. /\ pc \in [Fibers -> FiberPC] /\ then \in [Fibers -> {"out", "chold"}]
        /\ popped \in [Fibers -> Fibers \cup {None}] /\ ready \subseteq Fibers
        /\ waitq \in Seq(Fibers) /\ condq \in Seq(Fibers)
    BY DEF TypeOK
  <1>1. Occurrences(waitq, h) \in Nat /\ Occurrences(condq, h) \in Nat
    BY <1>0, OccurrencesFacts
  <1>2. Pops(popped, h) \in Nat
    BY <1>0, PopsStep
  <1>3. Occurrences(waitq, h) + Occurrences(condq, h) + Pops(popped, h)
          + (IF h \in ready THEN 1 ELSE 0) = IF Due(h) THEN 1 ELSE 0
    BY DEF OneWakeUp, WakeUps, Pops, Due
  <1>4. CASE UNCHANGED vars
    BY <1>3, <1>4 DEF vars, Due
  <1>5. ASSUME NEW f \in Fibers, FiberStep(f)
        PROVE  Kept
    <2>1. CASE Lock(f)
      <3>1. UNCHANGED <<waitq, condq, popped, ready>> /\ (Due(h)' <=> Due(h))
        BY <2>1, <1>0 DEF Lock, LockEntry, Due
      <3> QED BY <3>1, <1>3
    <2>2. CASE TryLock(f)
      <3>1. UNCHANGED <<waitq, condq, popped, ready>> /\ (Due(h)' <=> Due(h))
        BY <2>2, <1>0 DEF TryLock, Due
      <3> QED BY <3>1, <1>3
    <2>3. CASE FirstTry(f)
      <3>1. UNCHANGED <<waitq, condq, popped, ready>> /\ (Due(h)' <=> Due(h))
        BY <2>3, <1>0 DEF FirstTry, Due
      <3> QED BY <3>1, <1>3
    <2>4. CASE SpinWins(f)
      <3>1. UNCHANGED <<waitq, condq, popped, ready>> /\ (Due(h)' <=> Due(h))
        BY <2>4, <1>0 DEF SpinWins, Due
      <3> QED BY <3>1, <1>3
    <2>5. CASE SetOwner(f)
      <3>1. UNCHANGED <<waitq, condq, popped, ready>> /\ (Due(h)' <=> Due(h))
        BY <2>5, <1>0 DEF SetOwner, Due
      <3> QED BY <3>1, <1>3
    <2>6. CASE SpinFails(f)
      <3>1. UNCHANGED <<waitq, condq, popped, ready>> /\ (Due(h)' <=> Due(h))
        BY <2>6, <1>0 DEF SpinFails, Due
      <3> QED BY <3>1, <1>3
    <2>7. CASE Enqueue(f)
      <3>1. Occurrences(waitq', h) = Occurrences(waitq, h) + (IF f = h THEN 1 ELSE 0)
        BY <2>7, <1>0, OccurrencesAppend DEF Enqueue
      <3>2. UNCHANGED <<condq, popped, ready>>
        BY <2>7 DEF Enqueue
      <3>3. (f = h => ~Due(h) /\ Due(h)') /\ (f # h => (Due(h)' <=> Due(h)))
        BY <2>7, <1>0 DEF Enqueue, Due
      <3> QED BY <3>1, <3>2, <3>3, <1>1, <1>2, <1>3
    <2>8. CASE Resume(f)
      <3>1. UNCHANGED <<waitq, condq, popped>> /\ f \in ready /\ ready' = ready \ {f}
        BY <2>8 DEF Resume
      <3>2. (f = h => Due(h) /\ ~Due(h)') /\ (f # h => (Due(h)' <=> Due(h)))
        BY <2>8, <1>0 DEF Resume, Due
      <3> QED BY <3>1, <3>2, <1>1, <1>2, <1>3
    <2>9. CASE Unlock(f)
      <3>1. UNCHANGED <<waitq, condq, popped, ready>> /\ (Due(h)' <=> Due(h))
        BY <2>9, <1>0 DEF Unlock, Due
      <3> QED BY <3>1, <1>3
    <2>10. CASE UnlockEmpty(f)
      <3>1. UNCHANGED <<waitq, condq, popped, ready>> /\ (Due(h)' <=> Due(h))
        BY <2>10, <1>0 DEF UnlockEmpty, Due
      <3> QED BY <3>1, <1>3
    <2>11. CASE UnlockPops(f)
      <3>1. Occurrences(waitq', h) = Occurrences(waitq, h) - (IF Head(waitq) = h THEN 1 ELSE 0)
        BY <2>11, <1>0, OccurrencesTail DEF UnlockPops
      <3>2. popped[f] = None /\ popped'[f] = Head(waitq) /\ \A e \in Fibers : e # f => popped'[e] = popped[e]
        BY <2>11, <1>0 DEF UnlockPops, PoppedShape
      <3>3. Pops(popped', h) = Pops(popped, h) + (IF Head(waitq) = h THEN 1 ELSE 0)
        <4>1. Pops(popped', h) = Pops(popped, h) - (IF popped[f] = h THEN 1 ELSE 0)
                                                 + (IF popped'[f] = h THEN 1 ELSE 0)
          <5>1. popped \in [Fibers -> Fibers \cup {None}]
            BY <1>0
          <5>2. \A e \in Fibers : e # f => popped'[e] = popped[e]
            BY <3>2
          <5> QED BY <5>1, <5>2, PopsStep
        <4> QED BY <4>1, <3>2, <1>2, NoneAssumption
      <3>4. UNCHANGED <<condq, ready>> /\ (Due(h)' <=> Due(h))
        BY <2>11, <1>0 DEF UnlockPops, Due
      <3> QED BY <3>1, <3>3, <3>4, <1>1, <1>2, <1>3
    <2>12. CASE Release(f)
      <3>1. UNCHANGED <<waitq, condq, popped, ready>> /\ (Due(h)' <=> Due(h))
        BY <2>12, <1>0 DEF Release, Due
      <3> QED BY <3>1, <1>3
    <2>13. CASE SubmitNext(f)
      <3>1. popped[f] \in Fibers /\ popped'[f] = None /\ \A e \in Fibers : e # f => popped'[e] = popped[e]
        BY <2>13, <1>0 DEF SubmitNext, PoppedShape
      <3>2. /\ Pops(popped', h) = Pops(popped, h) - (IF popped[f] = h THEN 1 ELSE 0)
            /\ Pops(popped', h) \in Nat
        <4>1. /\ Pops(popped', h) = Pops(popped, h) - (IF popped[f] = h THEN 1 ELSE 0)
                                                    + (IF popped'[f] = h THEN 1 ELSE 0)
              /\ Pops(popped', h) \in Nat
          <5>1. popped \in [Fibers -> Fibers \cup {None}]
            BY <1>0
          <5>2. \A e \in Fibers : e # f => popped'[e] = popped[e]
            BY <3>1
          <5> QED BY <5>1, <5>2, PopsStep
        <4> QED BY <4>1, <3>1, <1>2, NoneAssumption
      <3>3. UNCHANGED <<waitq, condq>> /\ ready' = ready \cup {popped[f]}
        BY <2>13 DEF SubmitNext
      <3>4. Due(h)' <=> Due(h)
        BY <2>13, <1>0 DEF SubmitNext, Due
      <3>5. CASE popped[f] = h
        BY <3>2, <3>3, <3>4, <3>5, <1>1, <1>2, <1>3
      <3>6. CASE popped[f] # h
        BY <3>2, <3>3, <3>4, <3>6, <1>1, <1>2, <1>3
      <3> QED BY <3>5, <3>6
    <2>14. CASE CondWait(f)
      <3>1. Occurrences(condq', h) = Occurrences(condq, h) + (IF f = h THEN 1 ELSE 0)
        BY <2>14, <1>0, OccurrencesAppend DEF CondWait
      <3>2. UNCHANGED <<waitq, popped, ready>>
        BY <2>14 DEF CondWait
      <3>3. (f = h => ~Due(h) /\ Due(h)') /\ (f # h => (Due(h)' <=> Due(h)))
        BY <2>14, <1>0 DEF CondWait, Due
      <3> QED BY <3>1, <3>2, <3>3, <1>1, <1>2, <1>3
    <2>15. CASE CondResume(f)
      <3>1. UNCHANGED <<waitq, condq, popped>> /\ f \in ready /\ ready' = ready \ {f}
        BY <2>15 DEF CondResume
      <3>2. (f = h => Due(h) /\ ~Due(h)') /\ (f # h => (Due(h)' <=> Due(h)))
        BY <2>15, <1>0 DEF CondResume, LockEntry, Due
      <3> QED BY <3>1, <3>2, <1>1, <1>2, <1>3
    <2>16. CASE Notify(f)
      <3>1. Occurrences(condq', h) = Occurrences(condq, h) - (IF Head(condq) = h THEN 1 ELSE 0)
        BY <2>16, <1>0, OccurrencesTail DEF Notify
      <3>2. condq' \in Seq(Fibers)
        BY <2>16, <1>0 DEF Notify
      <3>3. Occurrences(condq', h) \in Nat
        BY <3>2, OccurrencesFacts
      <3>4. UNCHANGED <<waitq, popped>> /\ ready' = ready \cup {Head(condq)}
        BY <2>16 DEF Notify
      <3>5. Due(h)' <=> Due(h)
        BY <2>16 DEF Notify, Due
      <3> QED BY <3>1, <3>3, <3>4, <3>5, <1>1, <1>2, <1>3
    <2>17. CASE NotifyAll(f)
      <3>1. Occurrences(condq', h) = 0
        BY <2>17, <1>0, OccurrencesFacts DEF NotifyAll
      <3>2. (Occurrences(condq, h) > 0) <=> (h \in ToSet(condq))
        BY <1>0, OccurrencesFacts
      <3>3. UNCHANGED <<waitq, popped>> /\ ready' = ready \cup ToSet(condq)
        BY <2>17 DEF NotifyAll
      <3>4. Due(h)' <=> Due(h)
        BY <2>17 DEF NotifyAll, Due
      <3> QED BY <3>1, <3>2, <3>3, <3>4, <1>1, <1>2, <1>3
    <2> QED BY <1>5, <2>1, <2>2, <2>3, <2>4, <2>5, <2>6, <2>7, <2>8, <2>9,
               <2>10, <2>11, <2>12, <2>13, <2>14, <2>15, <2>16, <2>17
            DEF FiberStep
  <1> QED BY <1>4, <1>5 DEF Next

(* For any finite set of fibers: a fiber that sleeps in lock() or in       *)
(* cond.wait, or is on its way there, is in exactly one of the two queues, *)
(* in the hands of one unlock(), or submitted, and no other fiber has a    *)
(* wake-up pending.  No waiter is lost and no running fiber is submitted.  *)
THEOREM ExactlyOneWakeUp == Spec => []OneWakeUp
  <1>1. Base /\ OneWakeUp /\ [Next]_vars => (Base /\ OneWakeUp)'
    BY BaseNext, OneWakeUpNext DEF Base
  <1>2. Init => Base /\ OneWakeUp
    BY BaseInit, OneWakeUpInit
  <1> QED BY <1>1, <1>2, PTL DEF Spec

=============================================================================
