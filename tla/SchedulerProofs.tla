-------------------------- MODULE SchedulerProofs --------------------------
(* Machine-checked proofs about Scheduler. *)
EXTENDS Scheduler, FiniteSetTheorems, SequenceTheorems, TLAPS

(* Taking element i out of a list, as m_task.erase(iter) does. *)
LEMMA RemoveAtFacts ==
    ASSUME NEW S, NEW s \in Seq(S), NEW i \in 1..Len(s)
    PROVE  /\ RemoveAt(s, i) \in Seq(S)
           /\ Len(RemoveAt(s, i)) = Len(s) - 1
           /\ \A k \in 1..(Len(s) - 1) :
                RemoveAt(s, i)[k] = IF k < i THEN s[k] ELSE s[k + 1]
  <1>1. SubSeq(s, 1, i - 1) \in Seq(S) /\ Len(SubSeq(s, 1, i - 1)) = i - 1
        /\ \A k \in 1..(i-1) : SubSeq(s, 1, i - 1)[k] = s[k]
    OBVIOUS
  <1>2. SubSeq(s, i + 1, Len(s)) \in Seq(S) /\ Len(SubSeq(s, i + 1, Len(s))) = Len(s) - i
        /\ \A k \in 1..(Len(s) - i) : SubSeq(s, i + 1, Len(s))[k] = s[i + k]
    OBVIOUS
  <1> DEFINE a == SubSeq(s, 1, i - 1)
             b == SubSeq(s, i + 1, Len(s))
  <1>3. RemoveAt(s, i) = a \o b
    BY DEF RemoveAt
  <1>4. /\ a \o b \in Seq(S)
        /\ Len(a \o b) = Len(a) + Len(b)
        /\ \A k \in 1..(Len(a) + Len(b)) :
             (a \o b)[k] = IF k <= Len(a) THEN a[k] ELSE b[k - Len(a)]
    <2> a \in Seq(S) /\ b \in Seq(S)
      BY <1>1, <1>2
    <2> HIDE DEF a, b
    <2> QED BY ConcatProperties
  <1> HIDE DEF a, b
  <1>6. Len(a) = i - 1 /\ Len(b) = Len(s) - i /\ Len(s) \in Nat /\ i \in Nat
    BY <1>1, <1>2 DEF a, b
  <1>7. \A k \in 1..(Len(s) - 1) :
          (a \o b)[k] = IF k < i THEN s[k] ELSE s[k + 1]
    <2> TAKE k \in 1..(Len(s) - 1)
    <2>1. CASE k < i
      BY <2>1, <1>1, <1>4, <1>6 DEF a
    <2>2. CASE ~(k < i)
      <3>1. k - (i - 1) \in 1..(Len(s) - i) /\ i + (k - (i - 1)) = k + 1
        BY <2>2, <1>6
      <3>2. b[k - (i - 1)] = s[k + 1]
        BY <3>1, <1>2 DEF b
      <3> QED BY <2>2, <3>2, <1>4, <1>6
    <2> QED BY <2>1, <2>2
  <1> QED BY <1>3, <1>4, <1>6, <1>7

-----------------------------------------------------------------------------
(* Type correctness and exact counters, for every value of the constants. *)

Base == TypeOK /\ CountersExact /\ ThreadShape

(* How moving one thread to another place of run() changes a head count. *)
LEMMA CountStep ==
    ASSUME NEW p \in [Threads -> ThreadPC], NEW t \in Threads, NEW A,
           NEW q, \A u \in Threads : u # t => q[u] = p[u]
    PROVE  /\ Count(p, A) \in Nat
           /\ Count(q, A) \in Nat
           /\ p[t] \in A => Count(p, A) > 0
           /\ (p[t] \in A <=> q[t] \in A) => Count(q, A) = Count(p, A)
           /\ (p[t] \in A /\ q[t] \notin A) => Count(q, A) = Count(p, A) - 1
           /\ (p[t] \notin A /\ q[t] \in A) => Count(q, A) = Count(p, A) + 1
  <1> DEFINE S == {u \in Threads : p[u] \in A}
             T == {u \in Threads : q[u] \in A}
  <1>1. IsFiniteSet(S) /\ IsFiniteSet(T)
    BY ThreadsAssumption, FS_Subset, S \subseteq Threads, T \subseteq Threads
  <1>2. Cardinality(S) \in Nat /\ Cardinality(T) \in Nat
    BY <1>1, FS_CardinalityType
  <1>3. p[t] \in A => S # {}
    OBVIOUS
  <1>4. p[t] \in A => Cardinality(S) > 0
    BY <1>1, <1>2, <1>3, FS_EmptySet
  <1>5. (p[t] \in A <=> q[t] \in A) => T = S
    OBVIOUS
  <1>6. (p[t] \in A /\ q[t] \notin A) => T = S \ {t} /\ t \in S
    OBVIOUS
  <1>7. (p[t] \notin A /\ q[t] \in A) => T = S \cup {t} /\ t \notin S
    OBVIOUS
  <1>8. (p[t] \in A /\ q[t] \notin A) => Cardinality(T) = Cardinality(S) - 1
    BY <1>6, <1>1, FS_RemoveElement
  <1>9. (p[t] \notin A /\ q[t] \in A) => Cardinality(T) = Cardinality(S) + 1
    BY <1>7, <1>1, FS_AddElement
  <1> QED BY <1>2, <1>4, <1>5, <1>8, <1>9 DEF Count

(* The counters under a step that moves one thread only. *)
LEMMA CountersStep ==
    ASSUME TypeOK, CountersExact, NEW t \in Threads, 
           \A u \in Threads : u # t => pc'[u] = pc[u],
           active' = IF pc[t] \in ActivePC
                        THEN IF pc'[t] \in ActivePC THEN active ELSE active - 1
                        ELSE IF pc'[t] \in ActivePC THEN active + 1 ELSE active,
           idle' = IF pc[t] = "wait"
                      THEN IF pc'[t] = "wait" THEN idle ELSE idle - 1
                      ELSE IF pc'[t] = "wait" THEN idle + 1 ELSE idle
    PROVE  CountersExact' /\ active' \in Nat /\ idle' \in Nat
  <1>1. pc \in [Threads -> ThreadPC] /\ active \in Nat /\ idle \in Nat
    BY DEF TypeOK
  <1>a. \A A :
          /\ Count(pc, A) \in Nat
          /\ Count(pc', A) \in Nat
          /\ (pc[t] \in A <=> pc'[t] \in A) => Count(pc', A) = Count(pc, A)
          /\ (pc[t] \in A /\ pc'[t] \notin A) => Count(pc', A) = Count(pc, A) - 1
          /\ (pc[t] \notin A /\ pc'[t] \in A) => Count(pc', A) = Count(pc, A) + 1
    <2> TAKE A
    <2> QED BY <1>1, CountStep
  <1>2. active' = Count(pc', ActivePC) /\ active' \in Nat
    BY <1>1, <1>a DEF CountersExact
  <1>3. idle' = Count(pc', {"wait"}) /\ idle' \in Nat
    BY <1>1, <1>a DEF CountersExact
  <1> QED BY <1>2, <1>3 DEF CountersExact

(* The scheduler is constructed well typed, with no thread counted. *)
LEMMA BaseInit == Init => Base
  <1> SUFFICES ASSUME Init PROVE Base
    OBVIOUS
  <1>1. TypeOK
    BY NullAssumption DEF Init, TypeOK, ThreadPC, Task, NoTask
  <1>2. {t \in Threads : pc[t] \in ActivePC} = {} /\ {t \in Threads : pc[t] \in {"wait"}} = {}
    BY DEF Init, ActivePC
  <1>3. CountersExact
    BY <1>2, FS_EmptySet DEF Init, CountersExact, Count
  <1>4. ThreadShape
    BY DEF Init, ThreadShape
  <1> QED BY <1>1, <1>3, <1>4 DEF Base

(* What a group adds to m_task is a sequence of tasks. *)
LEMMA PushedType ==
    ASSUME NEW q \in Seq(Task), NEW g \in Groups
    PROVE  Pushed(q, g) \in Seq(Task)
  <1>1. g \in Seq(Works) /\ Len(g) > 0
    BY GroupsAssumption
  <1>2. Len(g) \in Nat /\ 1 \in 1..Len(g) /\ \A k \in 1..Len(g) : g[k] \in Works
    BY <1>1
  <1>3. \A k \in 1..Len(g) : CbTask(g[k], AnyThread) \in Task
    BY <1>2 DEF CbTask, Task
  <1>4. [k \in 1..Len(g) |-> CbTask(g[k], AnyThread)] \in Seq(Task)
    BY <1>2, <1>3
  <1>5. <<CbTask(g[1], AnyThread)>> \in Seq(Task)
    BY <1>2, <1>3
  <1>6. q \o [k \in 1..Len(g) |-> CbTask(g[k], AnyThread)] \in Seq(Task)
    BY <1>4, ConcatProperties
  <1> QED BY <1>5, <1>6 DEF Pushed

(* A step that leaves the threads alone keeps counters and thread shape. *)
LEMMA BaseFrame ==
    ASSUME CountersExact, ThreadShape, UNCHANGED <<active, idle, threadVars>>,
           ctl' = ctl
    PROVE  CountersExact' /\ ThreadShape'
  BY DEF CountersExact, ThreadShape, Count, threadVars

(* Every step of submit, start, stop and run() keeps types and counters. *)
LEMMA BaseNext == Base /\ [Next]_vars => Base'
  <1> SUFFICES ASSUME TypeOK, CountersExact, ThreadShape, [Next]_vars
               PROVE  TypeOK' /\ CountersExact' /\ ThreadShape'
    BY DEF Base
  <1> USE NullAssumption
          DEF vars, schedVars, fiberVars, threadVars, ctlVars, workVars
  <1>1. CASE UNCHANGED vars
    BY <1>1 DEF TypeOK, CountersExact, ThreadShape, Count
  <1>2. ASSUME NEW w \in Works, NEW thr \in CbTargets, SubmitCb(w, thr)
        PROVE  TypeOK' /\ CountersExact' /\ ThreadShape'
    <2>1. CbTask(w, thr) \in Task /\ thr \in Threads \cup {AnyThread}
      BY TargetsAssumption DEF CbTask, Task
    <2>2. TypeOK'
      BY <1>2, <2>1 DEF SubmitCb, TypeOK
    <2> QED BY <1>2, <2>2, BaseFrame DEF SubmitCb
  <1>3. ASSUME NEW w \in Works, NEW f \in Fibers, NEW thr \in FiberTargets,
               SubmitFiber(w, f, thr)
        PROVE  TypeOK' /\ CountersExact' /\ ThreadShape'
    <2>1. FiberTask(f, thr) \in Task /\ thr \in Threads \cup {AnyThread}
      BY TargetsAssumption DEF FiberTask, Task
    <2>2. TypeOK'
      BY <1>3, <2>1 DEF SubmitFiber, TypeOK, FiberState
    <2> QED BY <1>3, <2>2, BaseFrame DEF SubmitFiber
  <1>4. ASSUME NEW g \in Groups, SubmitGroup(g)
        PROVE  TypeOK' /\ CountersExact' /\ ThreadShape'
    <2>1. mtask' \in Seq(Task)
      BY <1>4, PushedType DEF SubmitGroup, TypeOK
    <2>2. sub' \subseteq Works
      <3>1. g \in Seq(Works)
        BY GroupsAssumption
      <3> QED BY <1>4, <3>1 DEF SubmitGroup, TypeOK
    <2>3. TypeOK'
      BY <1>4, <2>1, <2>2 DEF SubmitGroup, TypeOK
    <2> QED BY <1>4, <2>3, BaseFrame DEF SubmitGroup
  <1>5. ASSUME NEW f \in Fibers, Wake(f)
        PROVE  TypeOK' /\ CountersExact' /\ ThreadShape'
    <2>1. FiberTask(f, AnyThread) \in Task
      BY DEF FiberTask, Task
    <2>2. TypeOK'
      BY <1>5, <2>1 DEF Wake, TypeOK
    <2> QED BY <1>5, <2>2, BaseFrame DEF Wake
  <1>6. CASE Start
    <2>a. NoTask \in Task
      BY DEF NoTask, Task
    <2>b. wdone' \in [Threads -> BOOLEAN]
      BY <1>6 DEF Start
    <2>c. /\ pc' \in [Threads -> ThreadPC] /\ task' \in [Threads -> Task]
          /\ taskfb' \in [Threads -> Fibers \cup {None}]
      BY <1>6, <2>a DEF Start, ThreadPC
    <2>d. stopping' \in BOOLEAN
      BY <1>6 DEF Start
    <2>e. starts' \in Nat /\ ctl' \in {"off", "running", "stopping"}
      BY <1>6 DEF Start, TypeOK
    <2>1. TypeOK'
      BY <1>6, <2>b, <2>c, <2>d, <2>e DEF Start, TypeOK
    <2>2. \A A : ("off" \notin A /\ "scan" \notin A) => Count(pc', A) = Count(pc, A)
      <3> TAKE A
      <3> HAVE "off" \notin A /\ "scan" \notin A
      <3>1. {t \in Threads : pc[t] \in A} = {} /\ {t \in Threads : pc'[t] \in A} = {}
        BY <1>6 DEF Start, ThreadShape
      <3> QED BY <3>1 DEF Count
    <2>3. CountersExact'
      BY <1>6, <2>2 DEF Start, CountersExact, ActivePC
    <2>4. ThreadShape'
      BY <1>6 DEF Start, ThreadShape
    <2> QED BY <2>1, <2>3, <2>4
  <1>7. CASE Stop
    <2>1. TypeOK'
      BY <1>7 DEF Stop, TypeOK
    <2> QED BY <1>7, <2>1 DEF Stop, CountersExact, ThreadShape, Count
  <1>8. CASE Join
    <2>1. TypeOK'
      BY <1>8 DEF Join, TypeOK
    <2> QED BY <1>8, <2>1 DEF Join, CountersExact, ThreadShape, Count
  <1>9. CASE Finished
    BY <1>9 DEF Finished, TypeOK, CountersExact, ThreadShape, Count
  <1>10. ASSUME NEW t \in Threads, Take(t)
        PROVE  TypeOK' /\ CountersExact' /\ ThreadShape'
    <2>1. CountersExact' /\ active' \in Nat /\ idle' \in Nat
      BY <1>10, CountersStep DEF Take, TypeOK, ActivePC
    <2>a. task' \in [Threads -> Task] /\ mtask' \in Seq(Task)
      <3>1. PICK i \in 1..Len(mtask) : /\ task' = [task EXCEPT ![t] = mtask[i]]
                                       /\ mtask' = RemoveAt(mtask, i)
        BY <1>10 DEF Take
      <3>2. mtask[i] \in Task /\ RemoveAt(mtask, i) \in Seq(Task)
        BY RemoveAtFacts DEF TypeOK
      <3> QED BY <3>1, <3>2 DEF TypeOK
    <2>2. TypeOK'
      BY <1>10, <2>1, <2>a DEF Take, TypeOK, ThreadPC
    <2>3. ThreadShape'
      BY <1>10 DEF Take, ThreadShape, TypeOK
    <2> QED BY <2>1, <2>2, <2>3
  <1>11. ASSUME NEW t \in Threads, FindNothing(t)
        PROVE  TypeOK' /\ CountersExact' /\ ThreadShape'
    <2>1. CountersExact' /\ active' \in Nat /\ idle' \in Nat
      BY <1>11, CountersStep DEF FindNothing, TypeOK, ActivePC
    <2>2. TypeOK'
      BY <1>11, <2>1 DEF FindNothing, TypeOK, ThreadPC
    <2>3. ThreadShape'
      BY <1>11 DEF FindNothing, ThreadShape, TypeOK
    <2> QED BY <2>1, <2>2, <2>3
  <1>12. ASSUME NEW t \in Threads, Activate(t)
        PROVE  TypeOK' /\ CountersExact' /\ ThreadShape'
    <2>1. CountersExact' /\ active' \in Nat /\ idle' \in Nat
      BY <1>12, CountersStep DEF Activate, TypeOK, ActivePC
    <2>2. TypeOK'
      BY <1>12, <2>1 DEF Activate, TypeOK, ThreadPC
    <2>3. ThreadShape'
      BY <1>12 DEF Activate, ThreadShape, TypeOK
    <2> QED BY <2>1, <2>2, <2>3
  <1>13. ASSUME NEW t \in Threads, ResumeFiber(t)
        PROVE  TypeOK' /\ CountersExact' /\ ThreadShape'
    <2>1. CountersExact' /\ active' \in Nat /\ idle' \in Nat
      BY <1>13, CountersStep DEF ResumeFiber, TypeOK, ActivePC
    <2>a. task[t].fiber \in Fibers
      BY <1>13 DEF ResumeFiber, TypeOK, Task
    <2>2. TypeOK'
      BY <1>13, <2>1, <2>a DEF ResumeFiber, TypeOK, ThreadPC, FiberState
    <2>3. ThreadShape'
      BY <1>13, <2>a DEF ResumeFiber, ThreadShape, TypeOK
    <2> QED BY <2>1, <2>2, <2>3
  <1>14. ASSUME NEW t \in Threads, YieldToReady(t)
        PROVE  TypeOK' /\ CountersExact' /\ ThreadShape'
    <2>1. CountersExact' /\ active' \in Nat /\ idle' \in Nat
      BY <1>14, CountersStep DEF YieldToReady, TypeOK, ActivePC
    <2>a. cur[t] \in Fibers
      BY <1>14 DEF YieldToReady, ThreadShape
    <2>b. mcb[cur[t]] \in Works \cup {None}
      BY <2>a DEF TypeOK
    <2>c. yields' \in [Works -> Nat]
      BY <1>14, <2>b, TargetsAssumption DEF YieldToReady, TypeOK
    <2>2. TypeOK'
      BY <1>14, <2>1, <2>c DEF YieldToReady, TypeOK, ThreadPC, FiberState
    <2>3. ThreadShape'
      BY <1>14 DEF YieldToReady, ThreadShape, TypeOK
    <2> QED BY <2>1, <2>2, <2>3
  <1>15. ASSUME NEW t \in Threads, Register(t)
        PROVE  TypeOK' /\ CountersExact' /\ ThreadShape'
    <2>1. CountersExact' /\ active' \in Nat /\ idle' \in Nat
      BY <1>15, CountersStep DEF Register, TypeOK, ActivePC
    <2>a. cur[t] \in Fibers
      BY <1>15 DEF Register, ThreadShape
    <2>b. mcb[cur[t]] \in Works \cup {None}
      BY <2>a DEF TypeOK
    <2>c. yields' \in [Works -> Nat]
      BY <1>15, <2>b, TargetsAssumption DEF Register, TypeOK
    <2>2. TypeOK'
      BY <1>15, <2>1, <2>a, <2>c DEF Register, TypeOK, ThreadPC
    <2>3. ThreadShape'
      BY <1>15 DEF Register, ThreadShape, TypeOK
    <2> QED BY <2>1, <2>2, <2>3
  <1>16. ASSUME NEW t \in Threads, YieldToHold(t)
        PROVE  TypeOK' /\ CountersExact' /\ ThreadShape'
    <2>1. CountersExact' /\ active' \in Nat /\ idle' \in Nat
      BY <1>16, CountersStep DEF YieldToHold, TypeOK, ActivePC
    <2>2. TypeOK'
      BY <1>16, <2>1 DEF YieldToHold, TypeOK, ThreadPC, FiberState
    <2>3. ThreadShape'
      BY <1>16 DEF YieldToHold, ThreadShape, TypeOK
    <2> QED BY <2>1, <2>2, <2>3
  <1>17. ASSUME NEW t \in Threads, SwitchOut(t)
        PROVE  TypeOK' /\ CountersExact' /\ ThreadShape'
    <2>1. CountersExact' /\ active' \in Nat /\ idle' \in Nat
      BY <1>17, CountersStep DEF SwitchOut, TypeOK, ActivePC
    <2>2. TypeOK'
      BY <1>17, <2>1 DEF SwitchOut, TypeOK, ThreadPC
    <2>3. ThreadShape'
      BY <1>17 DEF SwitchOut, ThreadShape, TypeOK
    <2> QED BY <2>1, <2>2, <2>3
  <1>18. ASSUME NEW t \in Threads, Deactivate(t)
        PROVE  TypeOK' /\ CountersExact' /\ ThreadShape'
    <2>1. CountersExact' /\ active' \in Nat /\ idle' \in Nat
      BY <1>18, CountersStep DEF Deactivate, TypeOK, ActivePC
    <2>2. TypeOK'
      BY <1>18, <2>1 DEF Deactivate, TypeOK, ThreadPC
    <2>3. ThreadShape'
      BY <1>18 DEF Deactivate, ThreadShape, TypeOK
    <2> QED BY <2>1, <2>2, <2>3
  <1>19. ASSUME NEW t \in Threads, CheckReady(t)
        PROVE  TypeOK' /\ CountersExact' /\ ThreadShape'
    <2>1. CountersExact' /\ active' \in Nat /\ idle' \in Nat
      BY <1>19, CountersStep DEF CheckReady, TypeOK, ActivePC
    <2>2. TypeOK'
      BY <1>19, <2>1 DEF CheckReady, TypeOK, ThreadPC
    <2>3. ThreadShape'
      BY <1>19 DEF CheckReady, ThreadShape, TypeOK
    <2> QED BY <2>1, <2>2, <2>3
  <1>20. ASSUME NEW t \in Threads, CheckReuse(t)
        PROVE  TypeOK' /\ CountersExact' /\ ThreadShape'
    <2>1. CountersExact' /\ active' \in Nat /\ idle' \in Nat
      BY <1>20, CountersStep DEF CheckReuse, TypeOK, ActivePC
    <2>2. TypeOK'
      BY <1>20, <2>1 DEF CheckReuse, TypeOK, ThreadPC, FiberState
    <2>3. ThreadShape'
      BY <1>20 DEF CheckReuse, ThreadShape, TypeOK
    <2> QED BY <2>1, <2>2, <2>3
  <1>21. ASSUME NEW t \in Threads, CheckRelease(t)
        PROVE  TypeOK' /\ CountersExact' /\ ThreadShape'
    <2>1. CountersExact' /\ active' \in Nat /\ idle' \in Nat
      BY <1>21, CountersStep DEF CheckRelease, TypeOK, ActivePC
    <2>2. TypeOK'
      BY <1>21, <2>1 DEF CheckRelease, TypeOK, ThreadPC
    <2>3. ThreadShape'
      BY <1>21 DEF CheckRelease, ThreadShape, TypeOK
    <2> QED BY <2>1, <2>2, <2>3
  <1>22. ASSUME NEW t \in Threads, CheckForget(t)
        PROVE  TypeOK' /\ CountersExact' /\ ThreadShape'
    <2>1. CountersExact' /\ active' \in Nat /\ idle' \in Nat
      BY <1>22, CountersStep DEF CheckForget, TypeOK, ActivePC
    <2>a. NoTask \in Task
      BY DEF NoTask, Task
    <2>2. TypeOK'
      BY <1>22, <2>1, <2>a DEF CheckForget, TypeOK, ThreadPC
    <2>3. ThreadShape'
      BY <1>22 DEF CheckForget, ThreadShape, TypeOK
    <2> QED BY <2>1, <2>2, <2>3
  <1>23. ASSUME NEW t \in Threads, Resubmit(t)
        PROVE  TypeOK' /\ CountersExact' /\ ThreadShape'
    <2>1. CountersExact' /\ active' \in Nat /\ idle' \in Nat
      BY <1>23, CountersStep DEF Resubmit, TypeOK, ActivePC
    <2>a. FiberTask(Resumed(t), task[t].thr) \in Task /\ NoTask \in Task
      BY DEF FiberTask, Resumed, NoTask, TypeOK, Task
    <2>2. TypeOK'
      BY <1>23, <2>1, <2>a DEF Resubmit, TypeOK, ThreadPC
    <2>3. ThreadShape'
      BY <1>23 DEF Resubmit, ThreadShape, TypeOK
    <2> QED BY <2>1, <2>2, <2>3
  <1>24. ASSUME NEW t \in Threads, GoIdle(t)
        PROVE  TypeOK' /\ CountersExact' /\ ThreadShape'
    <2>1. CountersExact' /\ active' \in Nat /\ idle' \in Nat
      BY <1>24, CountersStep DEF GoIdle, TypeOK, ActivePC
    <2>2. TypeOK'
      BY <1>24, <2>1 DEF GoIdle, TypeOK, ThreadPC
    <2>3. ThreadShape'
      BY <1>24 DEF GoIdle, ThreadShape, TypeOK
    <2> QED BY <2>1, <2>2, <2>3
  <1>25. ASSUME NEW t \in Threads, WaitOnce(t)
        PROVE  TypeOK' /\ CountersExact' /\ ThreadShape'
    <2>1. CountersExact' /\ active' \in Nat /\ idle' \in Nat
      BY <1>25, CountersStep DEF WaitOnce, TypeOK, ActivePC
    <2>a. CanStop \in BOOLEAN
      BY DEF CanStop, TypeOK
    <2>b. wdone' \in [Threads -> BOOLEAN]
      BY <1>25, <2>a DEF WaitOnce, TypeOK
    <2>2. TypeOK'
      BY <1>25, <2>1, <2>b DEF WaitOnce, TypeOK, ThreadPC
    <2>3. ThreadShape'
      BY <1>25 DEF WaitOnce, ThreadShape, TypeOK
    <2> QED BY <2>1, <2>2, <2>3
  <1>26. ASSUME NEW t \in Threads, Exit(t)
        PROVE  TypeOK' /\ CountersExact' /\ ThreadShape'
    <2>1. CountersExact' /\ active' \in Nat /\ idle' \in Nat
      BY <1>26, CountersStep DEF Exit, TypeOK, ActivePC
    <2>2. TypeOK'
      BY <1>26, <2>1 DEF Exit, TypeOK, ThreadPC
    <2>3. ThreadShape'
      BY <1>26 DEF Exit, ThreadShape, TypeOK
    <2> QED BY <2>1, <2>2, <2>3
  <1>27. ASSUME NEW t \in Threads, NEW f \in Fibers, ResumeCb(t, f)
        PROVE  TypeOK' /\ CountersExact' /\ ThreadShape'
    <2>1. CountersExact' /\ active' \in Nat /\ idle' \in Nat
      BY <1>27, CountersStep DEF ResumeCb, TypeOK, ActivePC
    <2>a. NoTask \in Task /\ task[t].cb \in Works \cup {None}
      BY DEF NoTask, Task, TypeOK
    <2>2. TypeOK'
      BY <1>27, <2>1, <2>a DEF ResumeCb, TypeOK, ThreadPC, FiberState
    <2>3. ThreadShape'
      BY <1>27 DEF ResumeCb, ThreadShape, TypeOK
    <2> QED BY <2>1, <2>2, <2>3
  <1>28. ASSUME NEW t \in Threads, NEW outcome \in {"TERM", "EXCEPT"}, Coroutine(t, outcome)
        PROVE  TypeOK' /\ CountersExact' /\ ThreadShape'
    <2>1. CountersExact' /\ active' \in Nat /\ idle' \in Nat
      BY <1>28, CountersStep DEF Coroutine, TypeOK, ActivePC
    <2>2. TypeOK'
      BY <1>28, <2>1 DEF Coroutine, TypeOK, ThreadPC, FiberState, ThreadShape
    <2>3. ThreadShape'
      BY <1>28 DEF Coroutine, ThreadShape, TypeOK
    <2> QED BY <2>1, <2>2, <2>3
  <1> QED BY <1>1, <1>2, <1>3, <1>4, <1>5, <1>6, <1>7, <1>8, <1>9, <1>10,
             <1>11, <1>12, <1>13, <1>14, <1>15, <1>16, <1>17, <1>18, <1>19,
             <1>20, <1>21, <1>22, <1>23, <1>24, <1>25, <1>26, <1>27, <1>28
          DEF Next, Submit, ThreadStep

(* For every pool of threads and fibers and every bound, also when works   *)
(* park: the state of scheduler, fibers and run()'s locals is well typed,  *)
(* and m_active_thread_num and m_idle_thread_num are exact.                *)
THEOREM TypeCorrect == Spec => [](TypeOK /\ CountersExact)
  <1>1. Base => TypeOK /\ CountersExact
    BY DEF Base
  <1> QED BY <1>1, BaseInit, BaseNext, PTL DEF Spec

-----------------------------------------------------------------------------
(* One owner per fiber, when no work parks. *)

(* What a group adds to m_task are callbacks only. *)
LEMMA PushedEntries ==
    ASSUME NEW q \in Seq(Task), NEW g \in Groups, NEW k \in 1..Len(Pushed(q, g))
    PROVE  \/ k \in 1..Len(q) /\ Pushed(q, g)[k] = q[k]
           \/ Pushed(q, g)[k].fiber = None /\ Pushed(q, g)[k].cb # None
  <1>1. g \in Seq(Works) /\ Len(g) > 0
    BY GroupsAssumption
  <1>2. Len(g) \in Nat /\ 1 \in 1..Len(g) /\ \A j \in 1..Len(g) : g[j] \in Works
    BY <1>1
  <1> DEFINE r == [j \in 1..Len(g) |-> CbTask(g[j], AnyThread)]
  <1>3. \A j \in 1..Len(g) : /\ CbTask(g[j], AnyThread) \in Task
                             /\ CbTask(g[j], AnyThread).fiber = None
                             /\ CbTask(g[j], AnyThread).cb # None
    BY <1>2, NullAssumption DEF CbTask, Task
  <1>4. r \in Seq(Task) /\ Len(r) = Len(g)
    BY <1>2, <1>3
  <1>5. CASE q = <<>>
    <2>1. Pushed(q, g) = <<CbTask(g[1], AnyThread)>>
      BY <1>5 DEF Pushed
    <2>2. k = 1 /\ Pushed(q, g)[k] = CbTask(g[1], AnyThread)
      BY <2>1
    <2> QED BY <2>2, <1>2, <1>3
  <1>6. CASE q # <<>>
    <2>1. Pushed(q, g) = q \o r
      BY <1>6 DEF Pushed
    <2>2. Len(q \o r) = Len(q) + Len(r)
          /\ \A j \in 1..(Len(q) + Len(r)) :
               (q \o r)[j] = IF j <= Len(q) THEN q[j] ELSE r[j - Len(q)]
      BY <1>4, ConcatProperties
    <2>3. \A j \in 1..Len(g) : r[j] = CbTask(g[j], AnyThread)
      OBVIOUS
    <2> HIDE DEF r
    <2>4. CASE k <= Len(q)
      BY <2>1, <2>2, <2>4
    <2>5. CASE ~(k <= Len(q))
      <3>1. k - Len(q) \in 1..Len(g)
        BY <2>1, <2>2, <2>5, <1>4, <1>2
      <3>2. Pushed(q, g)[k] = CbTask(g[k - Len(q)], AnyThread)
        BY <2>1, <2>2, <2>3, <2>5, <3>1, <1>4
      <3> QED BY <3>1, <3>2, <1>3
    <2> QED BY <2>4, <2>5
  <1> QED BY <1>5, <1>6

(* No fiber exists before the first submit. *)
LEMMA OwnershipInit == Init => Ownership
  BY
    DEF Init, Ownership, QueueShape, OnePlace, LocalShape, NoTask, EntryShape,
        AfterResumePC

(* Nothing refers to a fiber before it is constructed. *)
LEMMA FreshFiber ==
    ASSUME TypeOK, Ownership, NEW f \in Fibers, state[f] = "FREE"
    PROVE  /\ \A i \in 1..Len(mtask) : mtask[i].fiber # f
           /\ \A u \in Threads : task[u].fiber # f /\ taskfb[u] # f
  <1> USE NullAssumption
  <1>1. ASSUME NEW i \in 1..Len(mtask) PROVE mtask[i].fiber # f
    BY DEF Ownership, QueueShape
  <1>2. ASSUME NEW u \in Threads, task[u].fiber = f PROVE FALSE
    <2>1. LocalShape(u) /\ pc[u] \in ThreadPC /\ pc[u] # "hold" /\ Resumed(u) = f
      BY <1>2 DEF TypeOK, Ownership, Resumed
    <2> QED BY <1>2, <2>1 DEF LocalShape, ThreadPC, NoTask
  <1>3. ASSUME NEW u \in Threads, taskfb[u] = f PROVE FALSE
    <2>1. LocalShape(u)
      BY DEF Ownership
    <2>2. pc[u] \in AfterResumePC /\ Resumed(u) = f
      BY <1>3, <2>1 DEF LocalShape, Resumed
    <2> QED BY <2>1, <2>2 DEF LocalShape, AfterResumePC
  <1> QED BY <1>1, <1>2, <1>3

(* Without parking, every step keeps each fiber in one place. *)
LEMMA OwnershipNext ==
    ASSUME CanPark = {}, Base, Ownership, [Next]_vars
    PROVE  Ownership'
  <1> USE NullAssumption
          DEF vars, schedVars, fiberVars, threadVars, ctlVars, workVars
  <1> TypeOK /\ ThreadShape
    BY DEF Base
  <1>t. /\ mtask \in Seq(Task) /\ Len(mtask) \in Nat
        /\ \A i \in 1..Len(mtask) : mtask[i] \in Task
        /\ state \in [Fibers -> FiberState \cup {"FREE"}]
        /\ pc \in [Threads -> ThreadPC]
        /\ task \in [Threads -> Task]
        /\ taskfb \in [Threads -> Fibers \cup {None}]
        /\ cur \in [Threads -> Fibers \cup {None}]
    BY DEF TypeOK
  <1>1. CASE UNCHANGED vars
    BY <1>1 DEF Ownership, QueueShape, OnePlace, LocalShape, Resumed
  <1>2. ASSUME NEW w \in Works, NEW thr \in CbTargets, SubmitCb(w, thr)
        PROVE  Ownership'
    <2>q. /\ Len(mtask') = Len(mtask) + 1
          /\ \A i \in 1..Len(mtask') :
               mtask'[i] = IF i <= Len(mtask) THEN mtask[i] ELSE CbTask(w, thr)
      BY <1>2 DEF SubmitCb
    <2>1. parked' = {} /\ \A u \in Threads : pc'[u] # "hold"
      BY <1>2 DEF SubmitCb, Ownership
    <2>2. QueueShape'
      BY <1>2 DEF SubmitCb, Ownership, QueueShape, EntryShape, CbTask
    <2>3. OnePlace'
      BY <1>2 DEF SubmitCb, Ownership, OnePlace, LocalShape, Resumed, CbTask
    <2>4. ASSUME NEW u \in Threads PROVE LocalShape(u)'
      BY <1>2 DEF SubmitCb, Ownership, LocalShape, Resumed, CbTask
    <2> QED BY <2>1, <2>2, <2>3, <2>4 DEF Ownership
  <1>3. ASSUME NEW w \in Works, NEW f \in Fibers, NEW thr \in FiberTargets,
               SubmitFiber(w, f, thr)
        PROVE  Ownership'
    <2>q. /\ Len(mtask') = Len(mtask) + 1
          /\ \A i \in 1..Len(mtask') :
               mtask'[i] = IF i <= Len(mtask) THEN mtask[i] ELSE FiberTask(f, thr)
      BY <1>3 DEF SubmitFiber
    <2>f. /\ \A i \in 1..Len(mtask) : mtask[i].fiber # f
          /\ \A u \in Threads : task[u].fiber # f /\ taskfb[u] # f
      BY <1>3, FreshFiber DEF SubmitFiber
    <2>1. parked' = {} /\ \A u \in Threads : pc'[u] # "hold"
      BY <1>3 DEF SubmitFiber, Ownership
    <2>2. QueueShape'
      BY <1>3, <1>t DEF SubmitFiber, Ownership, QueueShape, EntryShape, FiberTask
    <2>3. OnePlace'
      BY <1>3, <1>t, <2>f DEF SubmitFiber, Ownership, OnePlace, LocalShape, FiberTask
    <2>4. ASSUME NEW u \in Threads PROVE LocalShape(u)'
      BY <1>3 DEF SubmitFiber, Ownership, LocalShape, Resumed, FiberTask
    <2> QED BY <2>1, <2>2, <2>3, <2>4 DEF Ownership
  <1>4. ASSUME NEW g \in Groups, SubmitGroup(g)
        PROVE  Ownership'
    <2>q. \A k \in 1..Len(mtask') :
            \/ k \in 1..Len(mtask) /\ mtask'[k] = mtask[k]
            \/ mtask'[k].fiber = None /\ mtask'[k].cb # None
      BY <1>4, <1>t, PushedEntries DEF SubmitGroup
    <2>1. parked' = {} /\ \A u \in Threads : pc'[u] # "hold"
      BY <1>4 DEF SubmitGroup, Ownership
    <2>2. QueueShape'
      BY <1>4, <2>q DEF SubmitGroup, Ownership, QueueShape, EntryShape
    <2>3. OnePlace'
      BY <1>4, <2>q DEF SubmitGroup, Ownership, OnePlace, LocalShape, Resumed
    <2>4. ASSUME NEW u \in Threads PROVE LocalShape(u)'
      BY <1>4 DEF SubmitGroup, Ownership, LocalShape, Resumed
    <2> QED BY <2>1, <2>2, <2>3, <2>4 DEF Ownership
  <1>5. ASSUME NEW f \in Fibers, Wake(f)
        PROVE  Ownership'
    BY <1>5 DEF Wake, Ownership
  <1>6. CASE Start
    <2>1. parked' = {} /\ \A u \in Threads : pc'[u] # "hold"
      BY <1>6 DEF Start, Ownership
    <2>2. QueueShape'
      BY <1>6 DEF Start, Ownership, QueueShape
    <2>3. OnePlace'
      BY <1>6 DEF Start, Ownership, OnePlace, NoTask
    <2>4. ASSUME NEW u \in Threads PROVE LocalShape(u)'
      BY <1>6 DEF Start, Ownership, LocalShape, AfterResumePC, ThreadShape
    <2> QED BY <2>1, <2>2, <2>3, <2>4 DEF Ownership
  <1>7. CASE Stop
    BY <1>7 DEF Stop, Ownership, QueueShape, OnePlace, LocalShape, Resumed
  <1>8. CASE Join
    BY <1>8 DEF Join, Ownership, QueueShape, OnePlace, LocalShape, AfterResumePC
  <1>9. CASE Finished
    BY <1>9 DEF Finished, Ownership, QueueShape, OnePlace, LocalShape, Resumed
  <1>10. ASSUME NEW t \in Threads, Take(t)
        PROVE  Ownership'
    <2>p. PICK i \in 1..Len(mtask) : /\ task' = [task EXCEPT ![t] = mtask[i]]
                                     /\ mtask' = RemoveAt(mtask, i)
      BY <1>10 DEF Take
    <2>q. /\ Len(mtask') = Len(mtask) - 1
          /\ \A j \in 1..Len(mtask') : mtask'[j] = IF j < i THEN mtask[j] ELSE mtask[j + 1]
      <3>1. mtask \in Seq(Task)
        BY <1>t
      <3>2. /\ Len(RemoveAt(mtask, i)) = Len(mtask) - 1
            /\ \A k \in 1..(Len(mtask) - 1) :
                 RemoveAt(mtask, i)[k] = IF k < i THEN mtask[k] ELSE mtask[k + 1]
        BY <3>1, RemoveAtFacts
      <3> QED BY <2>p, <3>2
    <2>r. /\ pc[t] = "scan" /\ pc' = [pc EXCEPT ![t] = "taken"]
          /\ task' = [task EXCEPT ![t] = mtask[i]]
          /\ UNCHANGED <<state, taskfb, cur, parked>>
      BY <1>10, <2>p DEF Take, fiberVars, workVars
    <2>1. parked' = {} /\ \A u \in Threads : pc'[u] # "hold"
      BY <2>r DEF Ownership
    <2> DEFINE old(j) == IF j < i THEN j ELSE j + 1
    <2>s. \A j \in 1..Len(mtask') :
            old(j) \in 1..Len(mtask) /\ old(j) # i /\ mtask'[j] = mtask[old(j)]
      BY <2>q
    <2>n. \A j, k \in 1..Len(mtask') : old(j) = old(k) => j = k
      BY <2>q
    <2> HIDE DEF old
    <2>2. QueueShape'
      BY <2>r, <2>s DEF Ownership, QueueShape
    <2>3. OnePlace'
      <3>1. \A j, k \in 1..Len(mtask') :
              mtask'[j].fiber # None /\ mtask'[j].fiber = mtask'[k].fiber => j = k
        BY <2>s, <2>n DEF Ownership, OnePlace
      <3>2. task[t].fiber = None
        BY <2>r DEF Ownership, LocalShape, NoTask
      <3>3. \A j \in 1..Len(mtask'), u \in Threads :
              mtask'[j].fiber # None => mtask'[j].fiber \notin {task'[u].fiber, taskfb'[u]}
        <4> SUFFICES ASSUME NEW j \in 1..Len(mtask'), NEW u \in Threads,
                            mtask'[j].fiber # None
                     PROVE  mtask'[j].fiber # task'[u].fiber /\ mtask'[j].fiber # taskfb'[u]
          OBVIOUS
        <4>1. /\ old(j) \in 1..Len(mtask) /\ old(j) # i
              /\ mtask'[j].fiber = mtask[old(j)].fiber
          BY <2>s
        <4>2. mtask[old(j)].fiber # mtask[i].fiber /\ mtask[old(j)].fiber # taskfb[u]
              /\ mtask[old(j)].fiber # task[u].fiber
          BY <4>1 DEF Ownership, OnePlace
        <4>3. task'[u] = IF u = t THEN mtask[i] ELSE task[u]
          BY <2>r, <1>t
        <4> QED BY <4>1, <4>2, <4>3, <2>r
      <3>4. \A u, v \in Threads : task'[u].fiber # None =>
              /\ task'[u].fiber # taskfb'[v]
              /\ task'[u].fiber = task'[v].fiber => u = v
        BY <2>r, <3>2 DEF Ownership, OnePlace
      <3>5. \A u, v \in Threads : taskfb'[u] # None /\ taskfb'[u] = taskfb'[v] => u = v
        BY <2>r DEF Ownership, OnePlace
      <3> QED BY <3>1, <3>3, <3>4, <3>5 DEF OnePlace
    <2>4. ASSUME NEW u \in Threads PROVE LocalShape(u)'
      BY <2>r, <1>t DEF Ownership, QueueShape, LocalShape, Resumed, AfterResumePC
    <2> QED BY <2>1, <2>2, <2>3, <2>4 DEF Ownership
  <1>11. ASSUME NEW t \in Threads, FindNothing(t)
        PROVE  Ownership'
    <2>1. parked' = {} /\ \A u \in Threads : pc'[u] # "hold"
      BY <1>11 DEF FindNothing, Ownership
    <2>2. QueueShape'
      BY <1>11 DEF FindNothing, Ownership, QueueShape
    <2>3. OnePlace'
      BY <1>11 DEF FindNothing, Ownership, OnePlace
    <2>4. ASSUME NEW u \in Threads PROVE LocalShape(u)'
      BY <1>11 DEF FindNothing, Ownership, LocalShape, Resumed, AfterResumePC
    <2> QED BY <2>1, <2>2, <2>3, <2>4 DEF Ownership
  <1>12. ASSUME NEW t \in Threads, Activate(t)
        PROVE  Ownership'
    <2>1. parked' = {} /\ \A u \in Threads : pc'[u] # "hold"
      BY <1>12 DEF Activate, Ownership
    <2>2. QueueShape'
      BY <1>12 DEF Activate, Ownership, QueueShape
    <2>3. OnePlace'
      BY <1>12 DEF Activate, Ownership, OnePlace
    <2>4. ASSUME NEW u \in Threads PROVE LocalShape(u)'
      BY <1>12 DEF Activate, Ownership, LocalShape, Resumed, AfterResumePC
    <2> QED BY <2>1, <2>2, <2>3, <2>4 DEF Ownership
  <1>13. ASSUME NEW t \in Threads, ResumeFiber(t)
        PROVE  Ownership'
    <2>1. parked' = {} /\ \A u \in Threads : pc'[u] # "hold"
      BY <1>13 DEF ResumeFiber, Ownership
    <2>2. QueueShape'
      BY <1>13 DEF ResumeFiber, Ownership, QueueShape, OnePlace
    <2>3. OnePlace'
      BY <1>13 DEF ResumeFiber, Ownership, OnePlace
    <2>4. ASSUME NEW u \in Threads PROVE LocalShape(u)'
      BY <1>13, <1>t
        DEF ResumeFiber, Ownership, OnePlace, LocalShape, EntryShape, Resumed, Task
    <2> QED BY <2>1, <2>2, <2>3, <2>4 DEF Ownership
  <1>14. ASSUME NEW t \in Threads, YieldToReady(t)
        PROVE  Ownership'
    <2>1. parked' = {} /\ \A u \in Threads : pc'[u] # "hold"
      BY <1>14 DEF YieldToReady, Ownership
    <2>2. QueueShape'
      BY <1>14 DEF YieldToReady, Ownership, QueueShape
    <2>3. OnePlace'
      BY <1>14 DEF YieldToReady, Ownership, OnePlace
    <2>4. ASSUME NEW u \in Threads PROVE LocalShape(u)'
      BY <1>14, <1>t
        DEF YieldToReady, Ownership, OnePlace, LocalShape, Resumed, AfterResumePC
    <2> QED BY <2>1, <2>2, <2>3, <2>4 DEF Ownership
  <1>15. ASSUME NEW t \in Threads, Register(t)
        PROVE  Ownership'
    BY <1>15 DEF Register
  <1>16. ASSUME NEW t \in Threads, YieldToHold(t)
        PROVE  Ownership'
    BY <1>16 DEF YieldToHold, Ownership
  <1>17. ASSUME NEW t \in Threads, SwitchOut(t)
        PROVE  Ownership'
    <2>1. parked' = {} /\ \A u \in Threads : pc'[u] # "hold"
      BY <1>17 DEF SwitchOut, Ownership
    <2>2. QueueShape'
      BY <1>17 DEF SwitchOut, Ownership, QueueShape
    <2>3. OnePlace'
      BY <1>17 DEF SwitchOut, Ownership, OnePlace
    <2>4. ASSUME NEW u \in Threads PROVE LocalShape(u)'
      BY <1>17, <1>t DEF SwitchOut, Ownership, LocalShape, Resumed, AfterResumePC
    <2> QED BY <2>1, <2>2, <2>3, <2>4 DEF Ownership
  <1>18. ASSUME NEW t \in Threads, Deactivate(t)
        PROVE  Ownership'
    <2>1. parked' = {} /\ \A u \in Threads : pc'[u] # "hold"
      BY <1>18 DEF Deactivate, Ownership
    <2>2. QueueShape'
      BY <1>18 DEF Deactivate, Ownership, QueueShape
    <2>3. OnePlace'
      BY <1>18 DEF Deactivate, Ownership, OnePlace
    <2>4. ASSUME NEW u \in Threads PROVE LocalShape(u)'
      BY <1>18 DEF Deactivate, Ownership, LocalShape, Resumed, AfterResumePC
    <2> QED BY <2>1, <2>2, <2>3, <2>4 DEF Ownership
  <1>19. ASSUME NEW t \in Threads, CheckReady(t)
        PROVE  Ownership'
    <2>1. parked' = {} /\ \A u \in Threads : pc'[u] # "hold"
      BY <1>19 DEF CheckReady, Ownership
    <2>2. QueueShape'
      BY <1>19 DEF CheckReady, Ownership, QueueShape
    <2>3. OnePlace'
      BY <1>19 DEF CheckReady, Ownership, OnePlace
    <2>4. ASSUME NEW u \in Threads PROVE LocalShape(u)'
      BY <1>19 DEF CheckReady, Ownership, LocalShape, Resumed, AfterResumePC
    <2> QED BY <2>1, <2>2, <2>3, <2>4 DEF Ownership
  <1>20. ASSUME NEW t \in Threads, CheckReuse(t)
        PROVE  Ownership'
    <2>f. /\ taskfb[t] # None /\ Resumed(t) = taskfb[t]
          /\ \A u \in Threads : task[u].fiber # taskfb[t] /\ (u # t => taskfb[u] # taskfb[t])
      BY <1>20 DEF CheckReuse, Ownership, OnePlace, LocalShape, Resumed, AfterResumePC
    <2>g. \A u \in Threads \ {t} : Resumed(u) # taskfb[t]
      BY <2>f DEF Resumed
    <2>1. parked' = {} /\ \A u \in Threads : pc'[u] # "hold"
      BY <1>20, <2>g DEF CheckReuse, Ownership
    <2>2. QueueShape'
      BY <1>20, <2>g DEF CheckReuse, Ownership, QueueShape
    <2>3. OnePlace'
      BY <1>20, <2>g DEF CheckReuse, Ownership, OnePlace
    <2>4. ASSUME NEW u \in Threads PROVE LocalShape(u)'
      <3>1. CASE u = t
        BY <3>1, <1>20, <1>t, <2>g DEF CheckReuse, Ownership, LocalShape, AfterResumePC
      <3>2. CASE u # t
        <4>1. /\ pc'[u] = pc[u] /\ task'[u] = task[u] /\ taskfb'[u] = taskfb[u]
              /\ cur'[u] = cur[u] /\ Resumed(u)' = Resumed(u)
              /\ \A f \in Fibers : f # taskfb[t] => state'[f] = state[f]
          BY <1>20, <3>2 DEF CheckReuse, Resumed
        <4>2. /\ LocalShape(u) /\ task[u].fiber \in Fibers \cup {None}
              /\ taskfb[u] \in Fibers \cup {None} /\ Resumed(u) \in Fibers \cup {None}
          BY <1>t DEF Ownership, Task, Resumed
        <4> QED BY <4>1, <4>2, <3>2, <2>f, <2>g DEF LocalShape, AfterResumePC
      <3> QED BY <3>1, <3>2
    <2> QED BY <2>1, <2>2, <2>3, <2>4 DEF Ownership
  <1>21. ASSUME NEW t \in Threads, CheckRelease(t)
        PROVE  Ownership'
    <2>1. parked' = {} /\ \A u \in Threads : pc'[u] # "hold"
      BY <1>21 DEF CheckRelease, Ownership
    <2>2. QueueShape'
      BY <1>21 DEF CheckRelease, Ownership, LocalShape, Resumed
    <2>3. OnePlace'
      BY <1>21 DEF CheckRelease, Ownership, LocalShape, Resumed
    <2>4. ASSUME NEW u \in Threads PROVE LocalShape(u)'
      BY <1>21 DEF CheckRelease, Ownership, LocalShape, Resumed
    <2> QED BY <2>1, <2>2, <2>3, <2>4 DEF Ownership
  <1>22. ASSUME NEW t \in Threads, CheckForget(t)
        PROVE  Ownership'
    <2>1. parked' = {} /\ \A u \in Threads : pc'[u] # "hold"
      BY <1>22 DEF CheckForget, Ownership
    <2>2. QueueShape'
      BY <1>22 DEF CheckForget, Ownership, QueueShape
    <2>3. OnePlace'
      BY <1>22 DEF CheckForget, Ownership, OnePlace, NoTask
    <2>4. ASSUME NEW u \in Threads PROVE LocalShape(u)'
      BY <1>22, <1>t DEF CheckForget, Ownership, LocalShape, Resumed, AfterResumePC
    <2> QED BY <2>1, <2>2, <2>3, <2>4 DEF Ownership
  <1>23. ASSUME NEW t \in Threads, Resubmit(t)
        PROVE  Ownership'
    <2>q. /\ Len(mtask') = Len(mtask) + 1
          /\ \A i \in 1..Len(mtask') :
               mtask'[i] = IF i <= Len(mtask) THEN mtask[i] ELSE FiberTask(Resumed(t), task[t].thr)
      BY <1>23 DEF Resubmit, FiberTask
    <2>1. parked' = {} /\ \A u \in Threads : pc'[u] # "hold"
      BY <1>23 DEF Resubmit, Ownership
    <2>2. QueueShape'
      BY <1>23
        DEF Resubmit, Ownership, QueueShape, EntryShape, LocalShape, AfterResumePC,
            FiberTask
    <2>3. OnePlace'
      BY <1>23, <1>t DEF Resubmit, Ownership, OnePlace, Resumed, NoTask, FiberTask
    <2>4. ASSUME NEW u \in Threads PROVE LocalShape(u)'
      BY <1>23, <1>t
        DEF Resubmit, Ownership, LocalShape, Resumed, AfterResumePC, FiberTask
    <2> QED BY <2>1, <2>2, <2>3, <2>4 DEF Ownership
  <1>24. ASSUME NEW t \in Threads, GoIdle(t)
        PROVE  Ownership'
    <2>1. parked' = {} /\ \A u \in Threads : pc'[u] # "hold"
      BY <1>24 DEF GoIdle, Ownership
    <2>2. QueueShape'
      BY <1>24 DEF GoIdle, Ownership, QueueShape
    <2>3. OnePlace'
      BY <1>24 DEF GoIdle, Ownership, OnePlace
    <2>4. ASSUME NEW u \in Threads PROVE LocalShape(u)'
      BY <1>24 DEF GoIdle, Ownership, LocalShape, Resumed, AfterResumePC
    <2> QED BY <2>1, <2>2, <2>3, <2>4 DEF Ownership
  <1>25. ASSUME NEW t \in Threads, WaitOnce(t)
        PROVE  Ownership'
    <2>1. parked' = {} /\ \A u \in Threads : pc'[u] # "hold"
      BY <1>25 DEF WaitOnce, Ownership
    <2>2. QueueShape'
      BY <1>25 DEF WaitOnce, Ownership, QueueShape
    <2>3. OnePlace'
      BY <1>25 DEF WaitOnce, Ownership, OnePlace
    <2>4. ASSUME NEW u \in Threads PROVE LocalShape(u)'
      BY <1>25 DEF WaitOnce, Ownership, LocalShape, Resumed, AfterResumePC
    <2> QED BY <2>1, <2>2, <2>3, <2>4 DEF Ownership
  <1>26. ASSUME NEW t \in Threads, Exit(t)
        PROVE  Ownership'
    <2>1. parked' = {} /\ \A u \in Threads : pc'[u] # "hold"
      BY <1>26 DEF Exit, Ownership
    <2>2. QueueShape'
      BY <1>26 DEF Exit, Ownership, QueueShape
    <2>3. OnePlace'
      BY <1>26 DEF Exit, Ownership, OnePlace
    <2>4. ASSUME NEW u \in Threads PROVE LocalShape(u)'
      BY <1>26 DEF Exit, Ownership, LocalShape, Resumed, AfterResumePC
    <2> QED BY <2>1, <2>2, <2>3, <2>4 DEF Ownership
  <1>27. ASSUME NEW t \in Threads, NEW f \in Fibers, ResumeCb(t, f)
        PROVE  Ownership'
    <2>f. /\ \A i \in 1..Len(mtask) : mtask[i].fiber # f
          /\ \A u \in Threads : task[u].fiber # f /\ (u # t => taskfb[u] # f)
      <3>1. CASE taskfb[t] # None
        BY <1>27, <3>1 DEF ResumeCb, Ownership, OnePlace
      <3>2. CASE taskfb[t] = None
        <4>1. state[f] = "FREE"
          BY <1>27, <3>2 DEF ResumeCb
        <4>2. \A i \in 1..Len(mtask) : mtask[i].fiber # f
          BY <4>1, NullAssumption DEF Ownership, QueueShape
        <4>3. ASSUME NEW u \in Threads PROVE task[u].fiber # f /\ taskfb[u] # f
          <5>1. LocalShape(u) /\ pc[u] \in ThreadPC /\ pc[u] # "hold"
            BY <1>t DEF Ownership
          <5>2. NoTask.fiber = None
            BY DEF NoTask
          <5>3. task[u].fiber # f
            BY <4>1, <5>1, <5>2, NullAssumption
               DEF LocalShape, Resumed, AfterResumePC, ThreadPC
          <5>4. taskfb[u] # f
            BY <4>1, <5>1, NullAssumption DEF LocalShape, Resumed, AfterResumePC
          <5> QED BY <5>3, <5>4
        <4> QED BY <4>2, <4>3
      <3> QED BY <3>1, <3>2
    <2>1. parked' = {} /\ \A u \in Threads : pc'[u] # "hold"
      BY <1>27 DEF ResumeCb, Ownership
    <2>2. QueueShape'
      BY <1>27, <2>f DEF ResumeCb, Ownership, QueueShape
    <2>3. OnePlace'
      BY <1>27, <2>f DEF ResumeCb, Ownership, OnePlace, NoTask
    <2>4. ASSUME NEW u \in Threads PROVE LocalShape(u)'
      BY <1>27, <1>t, <2>f
        DEF ResumeCb, Ownership, LocalShape, Resumed, AfterResumePC, NoTask
    <2> QED BY <2>1, <2>2, <2>3, <2>4 DEF Ownership
  <1>28. ASSUME NEW t \in Threads, NEW outcome \in {"TERM", "EXCEPT"}, Coroutine(t, outcome)
        PROVE  Ownership'
    <2>1. parked' = {} /\ \A u \in Threads : pc'[u] # "hold"
      BY <1>28 DEF Coroutine, Ownership
    <2>2. QueueShape'
      BY <1>28 DEF Coroutine, Ownership, QueueShape, LocalShape
    <2>3. OnePlace'
      BY <1>28 DEF Coroutine, Ownership, OnePlace
    <2>4. ASSUME NEW u \in Threads PROVE LocalShape(u)'
      BY <1>28, <1>t
        DEF Coroutine, Ownership, OnePlace, LocalShape, Resumed, AfterResumePC
    <2> QED BY <2>1, <2>2, <2>3, <2>4 DEF Ownership
  <1> QED BY <1>1, <1>2, <1>3, <1>4, <1>5, <1>6, <1>7, <1>8, <1>9, <1>10,
             <1>11, <1>12, <1>13, <1>14, <1>15, <1>16, <1>17, <1>18, <1>19,
             <1>20, <1>21, <1>22, <1>23, <1>24, <1>25, <1>26, <1>27, <1>28
          DEF Next, Submit, ThreadStep

(* The invariant of a scheduler whose works do not park. *)
LEMMA OwnershipInvariant ==
    ASSUME CanPark = {}
    PROVE  Spec => [](Base /\ Ownership)
  <1>1. Base /\ Ownership /\ [Next]_vars => (Base /\ Ownership)'
    BY BaseNext, OwnershipNext
  <1>2. Init => Base /\ Ownership
    BY BaseInit, OwnershipInit
  <1> QED BY <1>1, <1>2, PTL DEF Spec

(* If no work parks itself, then however works are submitted, yield and    *)
(* throw, on any number of threads: no fiber is ever on two threads.       *)
THEOREM NoParkSafe ==
    (CanPark = {}) => (Spec => []FiberRunsOnOneThread)
  <1> SUFFICES ASSUME CanPark = {} PROVE Spec => []FiberRunsOnOneThread
    OBVIOUS
  <1>1. Base /\ Ownership => FiberRunsOnOneThread
    BY DEF Base, TypeOK, Ownership, OnePlace, LocalShape, Resumed, FiberRunsOnOneThread
  <1> QED BY <1>1, OwnershipInvariant, PTL

(* Under the same condition the assertions of Fiber::resume and            *)
(* Fiber::reset hold, and no fiber is resumed after its end.               *)
THEOREM ResumesAreLegal ==
    (CanPark = {}) => (Spec => []ResumeLegal)
  <1> SUFFICES ASSUME CanPark = {} PROVE Spec => []ResumeLegal
    OBVIOUS
  <1>1. Base /\ Ownership => ResumeLegal
    BY DEF Base, TypeOK, Ownership, LocalShape, AfterResumePC, ResumeLegal
  <1> QED BY <1>1, OwnershipInvariant, PTL

-----------------------------------------------------------------------------
(* One owner per fiber, when works park on a single thread. *)

(* Nothing refers to a fiber before it is constructed. *)
LEMMA SingleFresh ==
    ASSUME NEW t, Threads = {t}, TypeOK, SingleOwnership, NEW f \in Fibers, state[f] = "FREE"
    PROVE  /\ \A i \in 1..Len(mtask) : mtask[i].fiber # f
           /\ f \notin parked /\ task[t].fiber # f /\ taskfb[t] # f
  <1> USE NullAssumption
  <1>1. ParkShape(t) /\ pc[t] \in ThreadPC
    BY DEF SingleOwnership, TypeOK
  <1>2. task[t].fiber # f
    <2>1. task[t].fiber = f => Resumed(t) = f
      BY DEF Resumed
    <2> QED BY <1>1, <2>1 DEF ParkShape, ThreadPC, AfterResumePC, NoTask
  <1>3. taskfb[t] # f
    BY <1>1 DEF ParkShape, AfterResumePC, Resumed
  <1>4. ~Leaving(t, f)
    BY <1>1, <1>2, <1>3 DEF Leaving, Resumed
  <1>5. ~GivenAway(f, {"INIT", "READY", "HOLD"}) /\ ~GivenAway(f, {"HOLD"})
    BY <1>4 DEF GivenAway
  <1> QED BY <1>2, <1>3, <1>5 DEF SingleOwnership

(* A step that changes neither m_task nor what the wakers have. *)
LEMMA SingleFrame ==
    ASSUME NEW t, Threads = {t}, TypeOK, SingleOwnership,
           mtask' = mtask, parked' = parked, ParkShape(t)',
           \A f \in Fibers :
              /\ GivenAway(f, {"INIT", "READY", "HOLD"}) => GivenAway(f, {"INIT", "READY", "HOLD"})'
              /\ GivenAway(f, {"HOLD"}) => GivenAway(f, {"HOLD"})'
    PROVE  SingleOwnership'
  <1>1. parked \subseteq Fibers /\ \A i \in 1..Len(mtask) : mtask[i].fiber \in Fibers \cup {None}
    <2>1. \A i \in 1..Len(mtask) : mtask[i] \in Task
      BY DEF TypeOK
    <2> QED BY <2>1 DEF TypeOK, Task
  <1>2. \A i \in 1..Len(mtask) : mtask[i].fiber # None =>
          GivenAway(mtask[i].fiber, {"INIT", "READY", "HOLD"})'
    BY <1>1 DEF SingleOwnership
  <1>3. \A f \in parked : GivenAway(f, {"HOLD"})'
    BY <1>1 DEF SingleOwnership
  <1> QED BY <1>2, <1>3 DEF SingleOwnership

(* On one thread every step leaves a fiber with the thread, m_task or a    *)
(* waker, with two of them only while the thread leaves its stack.         *)
LEMMA SingleNext ==
    ASSUME NEW t, Threads = {t}, Base, SingleOwnership, [Next]_vars
    PROVE  SingleOwnership'
  <1> USE NullAssumption
          DEF vars, schedVars, fiberVars, threadVars, ctlVars, workVars
  <1> TypeOK /\ ThreadShape
    BY DEF Base
  <1>t. /\ mtask \in Seq(Task) /\ Len(mtask) \in Nat
        /\ \A i \in 1..Len(mtask) : mtask[i] \in Task
        /\ state \in [Fibers -> FiberState \cup {"FREE"}]
        /\ pc \in [Threads -> ThreadPC] /\ pc[t] \in ThreadPC
        /\ task \in [Threads -> Task] /\ task[t] \in Task
        /\ taskfb \in [Threads -> Fibers \cup {None}] /\ taskfb[t] \in Fibers \cup {None}
        /\ cur \in [Threads -> Fibers \cup {None}]
        /\ parked \subseteq Fibers
    BY DEF TypeOK
  <1>r. Resumed(t) \in Fibers \cup {None} /\ \A i \in 1..Len(mtask) : mtask[i].fiber \in Fibers \cup {None}
    BY <1>t DEF Task, Resumed
  <1>p. ParkShape(t)
    BY DEF SingleOwnership
  <1>1. CASE UNCHANGED <<mtask, state, pc, task, taskfb, cur, parked>>
    <2>1. ParkShape(t)'
      BY <1>1, <1>p DEF ParkShape, Resumed
    <2> QED BY <1>1, <2>1, SingleFrame DEF GivenAway, Leaving, Resumed
  <1>2. ASSUME Len(mtask') \in Nat,
               \A k \in 1..Len(mtask') :
                  \/ k \in 1..Len(mtask) /\ mtask'[k] = mtask[k]
                  \/ mtask'[k].fiber = None /\ mtask'[k].cb # None,
               UNCHANGED <<state, pc, task, taskfb, cur, parked>>
        PROVE  SingleOwnership'
    <2>1. ParkShape(t)' /\ \A f, S : GivenAway(f, S) => GivenAway(f, S)'
      BY <1>2, <1>p DEF ParkShape, Resumed, GivenAway, Leaving
    <2> QED BY <1>2, <2>1 DEF SingleOwnership, EntryShape
  <1>3. ASSUME NEW w \in Works, NEW thr \in CbTargets, SubmitCb(w, thr)
        PROVE  SingleOwnership'
    <2>1. \A k \in 1..Len(mtask') :
            \/ k \in 1..Len(mtask) /\ mtask'[k] = mtask[k]
            \/ mtask'[k].fiber = None /\ mtask'[k].cb # None
      BY <1>3, <1>t DEF SubmitCb, CbTask
    <2>2. Len(mtask') \in Nat
      BY <1>3, <1>t DEF SubmitCb
    <2> QED BY <1>2, <1>3, <2>1, <2>2 DEF SubmitCb
  <1>4. ASSUME NEW g \in Groups, SubmitGroup(g)
        PROVE  SingleOwnership'
    <2>1. \A k \in 1..Len(mtask') :
            \/ k \in 1..Len(mtask) /\ mtask'[k] = mtask[k]
            \/ mtask'[k].fiber = None /\ mtask'[k].cb # None
      BY <1>4, <1>t, PushedEntries DEF SubmitGroup
    <2>2. Len(mtask') \in Nat
      BY <1>4, <1>t, PushedType DEF SubmitGroup
    <2> QED BY <1>2, <1>4, <2>1, <2>2 DEF SubmitGroup
  <1>5. ASSUME NEW f \in Fibers, NEW thr, mtask' = Append(mtask, FiberTask(f, thr)),
               f \notin parked', \A i \in 1..Len(mtask) : mtask[i].fiber # f,
               parked' \subseteq parked, ParkShape(t)', GivenAway(f, {"INIT", "READY", "HOLD"})',
               \A g \in Fibers \ {f} :
                  /\ GivenAway(g, {"INIT", "READY", "HOLD"}) => GivenAway(g, {"INIT", "READY", "HOLD"})'
                  /\ GivenAway(g, {"HOLD"}) => GivenAway(g, {"HOLD"})'
        PROVE  SingleOwnership'
    <2>1. /\ Len(mtask') = Len(mtask) + 1
          /\ \A i \in 1..Len(mtask') :
               mtask'[i] = IF i <= Len(mtask) THEN mtask[i] ELSE FiberTask(f, thr)
      BY <1>5, <1>t
    <2>2. FiberTask(f, thr).fiber = f /\ EntryShape(FiberTask(f, thr))
      BY DEF FiberTask, EntryShape
    <2>3. \A i \in 1..Len(mtask) : mtask[i].fiber \in Fibers \cup {None}
      BY <1>r
    <2>4. \A i \in 1..Len(mtask') : EntryShape(mtask'[i])
      BY <2>1, <2>2, <1>t DEF SingleOwnership
    <2>5. \A i, j \in 1..Len(mtask') :
            mtask'[i].fiber # None /\ mtask'[i].fiber = mtask'[j].fiber => i = j
      BY <1>5, <2>1, <2>2, <1>t DEF SingleOwnership
    <2>6. ASSUME NEW i \in 1..Len(mtask'), mtask'[i].fiber # None
          PROVE  (mtask[i].fiber \notin parked /\ GivenAway(mtask[i].fiber, {"INIT", "READY", "HOLD"}))'
      <3>1. CASE i <= Len(mtask)
        <4>1. i \in 1..Len(mtask) /\ mtask'[i] = mtask[i]
          BY <2>1, <3>1
        <4>2. mtask[i].fiber \in Fibers \ {f} /\ mtask[i].fiber \notin parked
              /\ GivenAway(mtask[i].fiber, {"INIT", "READY", "HOLD"})
          BY <1>5, <2>3, <2>6, <4>1 DEF SingleOwnership
        <4> QED BY <1>5, <4>1, <4>2 DEF GivenAway, Leaving
      <3>2. CASE ~(i <= Len(mtask))
        BY <1>5, <2>1, <2>2, <3>2 DEF GivenAway, Leaving
      <3> QED BY <3>1, <3>2
    <2>7. \A g \in parked' : GivenAway(g, {"HOLD"})'
      BY <1>5, <1>t DEF SingleOwnership
    <2>8. \A i \in 1..Len(mtask') : EntryShape(mtask[i])'
      BY <2>4 DEF EntryShape
    <2> QED BY <1>5, <2>5, <2>6, <2>7, <2>8 DEF SingleOwnership
  <1>6. ASSUME NEW w \in Works, NEW f \in Fibers, NEW thr \in FiberTargets, SubmitFiber(w, f, thr)
        PROVE  SingleOwnership'
    <2>1. /\ \A i \in 1..Len(mtask) : mtask[i].fiber # f
          /\ f \notin parked /\ task[t].fiber # f /\ taskfb[t] # f
      BY <1>6, SingleFresh DEF SubmitFiber
    <2>2. /\ mtask' = Append(mtask, FiberTask(f, thr)) /\ parked' = parked
          /\ state' = [state EXCEPT ![f] = "INIT"] /\ UNCHANGED <<pc, task, taskfb, cur>>
      BY <1>6 DEF SubmitFiber
    <2>3. ParkShape(t)'
      BY <1>p, <1>t, <2>1, <2>2 DEF ParkShape, Resumed
    <2>4. GivenAway(f, {"INIT", "READY", "HOLD"})'
      BY <1>t, <2>1, <2>2 DEF GivenAway
    <2>5. \A g \in Fibers \ {f} :
            /\ GivenAway(g, {"INIT", "READY", "HOLD"}) => GivenAway(g, {"INIT", "READY", "HOLD"})'
            /\ GivenAway(g, {"HOLD"}) => GivenAway(g, {"HOLD"})'
      BY <1>t, <2>2 DEF GivenAway, Leaving, Resumed
    <2> QED BY <1>5, <2>1, <2>2, <2>3, <2>4, <2>5
  <1>7. ASSUME NEW f \in Fibers, Wake(f)
        PROVE  SingleOwnership'
    <2>1. /\ mtask' = Append(mtask, FiberTask(f, AnyThread)) /\ parked' = parked \ {f} /\ f \in parked
          /\ UNCHANGED <<state, pc, task, taskfb, cur>>
      BY <1>7 DEF Wake
    <2>2. ParkShape(t)' /\ \A g, S : GivenAway(g, S) => GivenAway(g, S)'
      BY <1>p, <2>1 DEF ParkShape, Resumed, GivenAway, Leaving
    <2>3. GivenAway(f, {"INIT", "READY", "HOLD"})' /\ \A i \in 1..Len(mtask) : mtask[i].fiber # f
      <3>1. GivenAway(f, {"HOLD"})
        BY <2>1 DEF SingleOwnership
      <3>2. GivenAway(f, {"INIT", "READY", "HOLD"})
        BY <3>1 DEF GivenAway
      <3> QED BY <2>1, <2>2, <3>2 DEF SingleOwnership
    <2> QED BY <1>5, <2>1, <2>2, <2>3
  <1>8. CASE Start
    <2>1. pc[t] = "off" /\ task[t] = NoTask /\ cur[t] = None
      BY <1>8, <1>p DEF Start, ThreadShape, ParkShape
    <2>2. /\ pc'[t] = "scan" /\ task'[t] = NoTask /\ taskfb'[t] = None
          /\ UNCHANGED <<mtask, state, cur, parked>>
      BY <1>8 DEF Start
    <2>3. ParkShape(t)'
      BY <2>1, <2>2 DEF ParkShape, AfterResumePC
    <2>4. \A f, S : GivenAway(f, S) => GivenAway(f, S)'
      BY <2>1, <2>2 DEF GivenAway, Leaving, NoTask
    <2> QED BY <2>2, <2>3, <2>4, SingleFrame
  <1>9. CASE FindNothing(t)
    <2>1. ParkShape(t)'
      BY <1>9, <1>p, <1>t DEF FindNothing, ParkShape, Resumed, AfterResumePC
    <2>2. \A f \in Fibers :
            /\ GivenAway(f, {"INIT", "READY", "HOLD"}) => GivenAway(f, {"INIT", "READY", "HOLD"})'
            /\ GivenAway(f, {"HOLD"}) => GivenAway(f, {"HOLD"})'
      BY <1>9, <1>p, <1>t DEF FindNothing, ParkShape, GivenAway, Leaving, Resumed, AfterResumePC
    <2>3. mtask' = mtask /\ parked' = parked
      BY <1>9 DEF FindNothing
    <2> QED BY <2>1, <2>2, <2>3, SingleFrame
  <1>10. CASE Activate(t)
    <2>1. ParkShape(t)'
      BY <1>10, <1>p, <1>t DEF Activate, ParkShape, Resumed, AfterResumePC
    <2>2. \A f \in Fibers :
            /\ GivenAway(f, {"INIT", "READY", "HOLD"}) => GivenAway(f, {"INIT", "READY", "HOLD"})'
            /\ GivenAway(f, {"HOLD"}) => GivenAway(f, {"HOLD"})'
      BY <1>10, <1>p, <1>t DEF Activate, ParkShape, GivenAway, Leaving, Resumed, AfterResumePC
    <2>3. mtask' = mtask /\ parked' = parked
      BY <1>10 DEF Activate
    <2> QED BY <2>1, <2>2, <2>3, SingleFrame
  <1>11. CASE ResumeFiber(t)
    <2>1. ParkShape(t)'
      BY <1>11, <1>p, <1>t DEF ResumeFiber, ParkShape, Resumed, AfterResumePC, EntryShape, Task
    <2>2. \A f \in Fibers :
            /\ GivenAway(f, {"INIT", "READY", "HOLD"}) => GivenAway(f, {"INIT", "READY", "HOLD"})'
            /\ GivenAway(f, {"HOLD"}) => GivenAway(f, {"HOLD"})'
      BY <1>11, <1>p, <1>t
        DEF ResumeFiber, ParkShape, GivenAway, Leaving, Resumed, AfterResumePC, EntryShape, Task
    <2>3. mtask' = mtask /\ parked' = parked
      BY <1>11 DEF ResumeFiber
    <2> QED BY <2>1, <2>2, <2>3, SingleFrame
  <1>12. CASE YieldToReady(t)
    <2>1. ParkShape(t)'
      BY <1>12, <1>p, <1>t DEF YieldToReady, ParkShape, Resumed, AfterResumePC
    <2>2. \A f \in Fibers :
            /\ GivenAway(f, {"INIT", "READY", "HOLD"}) => GivenAway(f, {"INIT", "READY", "HOLD"})'
            /\ GivenAway(f, {"HOLD"}) => GivenAway(f, {"HOLD"})'
      BY <1>12, <1>p, <1>t DEF YieldToReady, ParkShape, GivenAway, Leaving, Resumed, AfterResumePC
    <2>3. mtask' = mtask /\ parked' = parked
      BY <1>12 DEF YieldToReady
    <2> QED BY <2>1, <2>2, <2>3, SingleFrame
  <1>13. CASE YieldToHold(t)
    <2>1. ParkShape(t)'
      BY <1>13, <1>p, <1>t DEF YieldToHold, ParkShape, Resumed, AfterResumePC
    <2>2. \A f \in Fibers :
            /\ GivenAway(f, {"INIT", "READY", "HOLD"}) => GivenAway(f, {"INIT", "READY", "HOLD"})'
            /\ GivenAway(f, {"HOLD"}) => GivenAway(f, {"HOLD"})'
      BY <1>13, <1>p, <1>t DEF YieldToHold, ParkShape, GivenAway, Leaving, Resumed, AfterResumePC
    <2>3. mtask' = mtask /\ parked' = parked
      BY <1>13 DEF YieldToHold
    <2> QED BY <2>1, <2>2, <2>3, SingleFrame
  <1>14. CASE SwitchOut(t)
    <2>1. ParkShape(t)'
      BY <1>14, <1>p, <1>t DEF SwitchOut, ParkShape, Resumed, AfterResumePC
    <2>2. \A f \in Fibers :
            /\ GivenAway(f, {"INIT", "READY", "HOLD"}) => GivenAway(f, {"INIT", "READY", "HOLD"})'
            /\ GivenAway(f, {"HOLD"}) => GivenAway(f, {"HOLD"})'
      BY <1>14, <1>p, <1>t DEF SwitchOut, ParkShape, GivenAway, Leaving, Resumed, AfterResumePC
    <2>3. mtask' = mtask /\ parked' = parked
      BY <1>14 DEF SwitchOut
    <2> QED BY <2>1, <2>2, <2>3, SingleFrame
  <1>15. CASE Deactivate(t)
    <2>1. ParkShape(t)'
      BY <1>15, <1>p, <1>t DEF Deactivate, ParkShape, Resumed, AfterResumePC
    <2>2. \A f \in Fibers :
            /\ GivenAway(f, {"INIT", "READY", "HOLD"}) => GivenAway(f, {"INIT", "READY", "HOLD"})'
            /\ GivenAway(f, {"HOLD"}) => GivenAway(f, {"HOLD"})'
      BY <1>15, <1>p, <1>t DEF Deactivate, ParkShape, GivenAway, Leaving, Resumed, AfterResumePC
    <2>3. mtask' = mtask /\ parked' = parked
      BY <1>15 DEF Deactivate
    <2> QED BY <2>1, <2>2, <2>3, SingleFrame
  <1>16. CASE CheckReady(t)
    <2>1. ParkShape(t)'
      BY <1>16, <1>p, <1>t DEF CheckReady, ParkShape, Resumed, AfterResumePC
    <2>2. \A f \in Fibers :
            /\ GivenAway(f, {"INIT", "READY", "HOLD"}) => GivenAway(f, {"INIT", "READY", "HOLD"})'
            /\ GivenAway(f, {"HOLD"}) => GivenAway(f, {"HOLD"})'
      BY <1>16, <1>p, <1>t DEF CheckReady, ParkShape, GivenAway, Leaving, Resumed, AfterResumePC
    <2>3. mtask' = mtask /\ parked' = parked
      BY <1>16 DEF CheckReady
    <2> QED BY <2>1, <2>2, <2>3, SingleFrame
  <1>17. CASE CheckReuse(t)
    <2>1. ParkShape(t)'
      BY <1>17, <1>p, <1>t DEF CheckReuse, ParkShape, Resumed, AfterResumePC, NoTask
    <2>2. \A f \in Fibers :
            /\ GivenAway(f, {"INIT", "READY", "HOLD"}) => GivenAway(f, {"INIT", "READY", "HOLD"})'
            /\ GivenAway(f, {"HOLD"}) => GivenAway(f, {"HOLD"})'
      BY <1>17, <1>p, <1>t DEF CheckReuse, ParkShape, GivenAway, Leaving, Resumed, AfterResumePC, NoTask
    <2>3. mtask' = mtask /\ parked' = parked
      BY <1>17 DEF CheckReuse
    <2> QED BY <2>1, <2>2, <2>3, SingleFrame
  <1>18. CASE CheckRelease(t)
    <2>1. ParkShape(t)'
      BY <1>18, <1>p, <1>t DEF CheckRelease, ParkShape, Resumed, AfterResumePC, NoTask
    <2>2. \A f \in Fibers :
            /\ GivenAway(f, {"INIT", "READY", "HOLD"}) => GivenAway(f, {"INIT", "READY", "HOLD"})'
            /\ GivenAway(f, {"HOLD"}) => GivenAway(f, {"HOLD"})'
      BY <1>18, <1>p, <1>t DEF CheckRelease, ParkShape, GivenAway, Leaving, Resumed, AfterResumePC, NoTask
    <2>3. mtask' = mtask /\ parked' = parked
      BY <1>18 DEF CheckRelease
    <2> QED BY <2>1, <2>2, <2>3, SingleFrame
  <1>19. CASE CheckForget(t)
    <2>1. ParkShape(t)'
      BY <1>19, <1>p, <1>t DEF CheckForget, ParkShape, Resumed, AfterResumePC, NoTask
    <2>2. \A f \in Fibers :
            /\ GivenAway(f, {"INIT", "READY", "HOLD"}) => GivenAway(f, {"INIT", "READY", "HOLD"})'
            /\ GivenAway(f, {"HOLD"}) => GivenAway(f, {"HOLD"})'
      BY <1>19, <1>p, <1>t DEF CheckForget, ParkShape, GivenAway, Leaving, Resumed, AfterResumePC, NoTask
    <2>3. mtask' = mtask /\ parked' = parked
      BY <1>19 DEF CheckForget
    <2> QED BY <2>1, <2>2, <2>3, SingleFrame
  <1>20. CASE GoIdle(t)
    <2>1. ParkShape(t)'
      BY <1>20, <1>p, <1>t DEF GoIdle, ParkShape, Resumed, AfterResumePC
    <2>2. \A f \in Fibers :
            /\ GivenAway(f, {"INIT", "READY", "HOLD"}) => GivenAway(f, {"INIT", "READY", "HOLD"})'
            /\ GivenAway(f, {"HOLD"}) => GivenAway(f, {"HOLD"})'
      BY <1>20, <1>p, <1>t DEF GoIdle, ParkShape, GivenAway, Leaving, Resumed, AfterResumePC
    <2>3. mtask' = mtask /\ parked' = parked
      BY <1>20 DEF GoIdle
    <2> QED BY <2>1, <2>2, <2>3, SingleFrame
  <1>21. CASE WaitOnce(t)
    <2>1. ParkShape(t)'
      BY <1>21, <1>p, <1>t DEF WaitOnce, ParkShape, Resumed, AfterResumePC
    <2>2. \A f \in Fibers :
            /\ GivenAway(f, {"INIT", "READY", "HOLD"}) => GivenAway(f, {"INIT", "READY", "HOLD"})'
            /\ GivenAway(f, {"HOLD"}) => GivenAway(f, {"HOLD"})'
      BY <1>21, <1>p, <1>t DEF WaitOnce, ParkShape, GivenAway, Leaving, Resumed, AfterResumePC
    <2>3. mtask' = mtask /\ parked' = parked
      BY <1>21 DEF WaitOnce
    <2> QED BY <2>1, <2>2, <2>3, SingleFrame
  <1>22. CASE Exit(t)
    <2>1. ParkShape(t)'
      BY <1>22, <1>p, <1>t DEF Exit, ParkShape, Resumed, AfterResumePC
    <2>2. \A f \in Fibers :
            /\ GivenAway(f, {"INIT", "READY", "HOLD"}) => GivenAway(f, {"INIT", "READY", "HOLD"})'
            /\ GivenAway(f, {"HOLD"}) => GivenAway(f, {"HOLD"})'
      BY <1>22, <1>p, <1>t DEF Exit, ParkShape, GivenAway, Leaving, Resumed, AfterResumePC
    <2>3. mtask' = mtask /\ parked' = parked
      BY <1>22 DEF Exit
    <2> QED BY <2>1, <2>2, <2>3, SingleFrame
  <1>23. ASSUME NEW outcome \in {"TERM", "EXCEPT"}, Coroutine(t, outcome)
        PROVE  SingleOwnership'
    <2>1. ParkShape(t)'
      BY <1>23, <1>p, <1>t DEF Coroutine, ParkShape, Resumed, AfterResumePC
    <2>2. \A f \in Fibers :
            /\ GivenAway(f, {"INIT", "READY", "HOLD"}) => GivenAway(f, {"INIT", "READY", "HOLD"})'
            /\ GivenAway(f, {"HOLD"}) => GivenAway(f, {"HOLD"})'
      BY <1>23, <1>p, <1>t DEF Coroutine, ParkShape, GivenAway, Leaving, Resumed, AfterResumePC
    <2>3. mtask' = mtask /\ parked' = parked
      BY <1>23 DEF Coroutine
    <2> QED BY <2>1, <2>2, <2>3, SingleFrame
  <1>24. ASSUME NEW f \in Fibers, ResumeCb(t, f)
        PROVE  SingleOwnership'
    <2>1. /\ \A i \in 1..Len(mtask) : mtask[i].fiber # f
          /\ f \notin parked /\ task[t].fiber # f
      <3>1. CASE taskfb[t] = None
        BY <1>24, <3>1, SingleFresh DEF ResumeCb
      <3>2. CASE taskfb[t] # None
        <4>1. pc[t] = "resume" /\ taskfb[t] = f
          BY <1>24, <3>2 DEF ResumeCb
        <4>2. \A S : ~GivenAway(f, S)
          BY <4>1 DEF GivenAway, Leaving
        <4> QED BY <1>p, <3>2, <4>1, <4>2 DEF SingleOwnership, ParkShape
      <3> QED BY <3>1, <3>2
    <2>2. /\ pc[t] = "resume" /\ pc'[t] = "run" /\ task'[t] = NoTask /\ taskfb'[t] = f
          /\ state' = [state EXCEPT ![f] = "RUNNING"] /\ cur'[t] = f /\ UNCHANGED <<mtask, parked>>
          /\ task[t].fiber = None
      BY <1>24, <1>p, <1>t DEF ResumeCb, ParkShape, EntryShape
    <2>3. ParkShape(t)'
      BY <1>t, <2>2 DEF ParkShape, Resumed, AfterResumePC, NoTask
    <2>4. \A g, S : g # f /\ GivenAway(g, S) => GivenAway(g, S)'
      BY <1>t, <2>2 DEF GivenAway, Leaving, NoTask
    <2>5. /\ parked \subseteq Fibers \ {f}
          /\ \A i \in 1..Len(mtask) : mtask[i].fiber \in (Fibers \ {f}) \cup {None}
      BY <1>t, <2>1 DEF Task
    <2> QED BY <2>2, <2>3, <2>4, <2>5 DEF SingleOwnership
  <1>25. CASE Register(t)
    <2>f. PICK f \in Fibers : f = cur[t]
      BY <1>25, <1>p, <1>r DEF Register, ParkShape, AfterResumePC
    <2>1. /\ pc[t] = "run" /\ pc' = [pc EXCEPT ![t] = "hold"] /\ parked' = parked \cup {f}
          /\ UNCHANGED <<mtask, state, task, taskfb, cur>>
      BY <1>25, <2>f DEF Register
    <2>2. f = Resumed(t) /\ (f = task[t].fiber \/ f = taskfb[t])
      BY <1>p, <1>t, <2>f, <2>1 DEF ParkShape, AfterResumePC, Resumed
    <2>3. ParkShape(t)'
      BY <1>p, <1>t, <2>1 DEF ParkShape, Resumed, AfterResumePC
    <2>4. \A g, S : GivenAway(g, S) => g # f /\ GivenAway(g, S)'
      BY <2>1, <2>2 DEF GivenAway, Leaving
    <2>5. GivenAway(f, {"HOLD"})'
      BY <1>t, <2>1, <2>2 DEF GivenAway, Leaving, Resumed
    <2> QED BY <2>1, <2>3, <2>4, <2>5 DEF SingleOwnership
  <1>26. CASE Resubmit(t)
    <2>f. PICK f \in Fibers : f = Resumed(t)
      BY <1>26, <1>p, <1>r DEF Resubmit, ParkShape, AfterResumePC
    <2>1. /\ pc[t] = "resubmit" /\ pc'[t] = "scan" /\ mtask' = Append(mtask, FiberTask(f, task[t].thr))
          /\ task'[t] = NoTask /\ taskfb'[t] = (IF task[t].fiber # None THEN taskfb[t] ELSE None)
          /\ UNCHANGED <<state, cur, parked>>
      BY <1>26, <1>t, <2>f DEF Resubmit
    <2>2. state[f] = "READY" /\ cur[t] = None
      BY <1>p, <1>t, <2>f, <2>1 DEF ParkShape, AfterResumePC
    <2>3. f = task[t].fiber \/ (task[t].fiber = None /\ f = taskfb[t])
      BY <2>f DEF Resumed
    <2>4. ParkShape(t)'
      BY <1>p, <1>t, <2>1, <2>2 DEF ParkShape, AfterResumePC, NoTask
    <2>5. \A S : ~GivenAway(f, S)
      BY <2>1, <2>3 DEF GivenAway, Leaving
    <2>6. f \notin parked /\ \A i \in 1..Len(mtask) : mtask[i].fiber # f
      BY <2>2, <2>5 DEF SingleOwnership
    <2>7. f \notin {task'[t].fiber, taskfb'[t]}
      BY <1>p, <1>t, <2>1, <2>2, <2>3 DEF ParkShape, NoTask
    <2>8. GivenAway(f, {"INIT", "READY", "HOLD"})'
      BY <2>1, <2>2, <2>7 DEF GivenAway
    <2>9. \A g \in Fibers \ {f} : \A S : GivenAway(g, S) => GivenAway(g, S)'
      BY <2>1 DEF GivenAway, Leaving, NoTask
    <2> QED BY <1>5, <2>1, <2>2, <2>4, <2>6, <2>8, <2>9
  <1>27. CASE Take(t)
    <2>1. PICK i \in 1..Len(mtask) : /\ Takeable(t, mtask[i]) /\ task' = [task EXCEPT ![t] = mtask[i]]
                                     /\ mtask' = RemoveAt(mtask, i)
      BY <1>27 DEF Take
    <2>2. /\ Len(mtask') = Len(mtask) - 1
          /\ \A j \in 1..Len(mtask') : mtask'[j] = IF j < i THEN mtask[j] ELSE mtask[j + 1]
      <3>1. mtask \in Seq(Task)
        BY <1>t
      <3>2. /\ Len(RemoveAt(mtask, i)) = Len(mtask) - 1
            /\ \A k \in 1..(Len(mtask) - 1) :
                 RemoveAt(mtask, i)[k] = IF k < i THEN mtask[k] ELSE mtask[k + 1]
        BY <3>1, RemoveAtFacts
      <3> QED BY <2>1, <3>2
    <2>3. /\ pc[t] = "scan" /\ pc'[t] = "taken" /\ task'[t] = mtask[i] /\ task[t].fiber = None
          /\ UNCHANGED <<state, taskfb, cur, parked>>
      BY <1>27, <1>p, <1>t, <2>1 DEF Take, ParkShape, NoTask
    <2> DEFINE old(j) == IF j < i THEN j ELSE j + 1
    <2>4. \A j \in 1..Len(mtask') :
            old(j) \in 1..Len(mtask) /\ old(j) # i /\ mtask'[j] = mtask[old(j)]
      BY <1>t, <2>2
    <2>5. \A j, k \in 1..Len(mtask') : old(j) = old(k) => j = k
      BY <1>t, <2>2
    <2> HIDE DEF old
    <2>6. /\ EntryShape(mtask[i]) /\ mtask[i] \in Task
          /\ mtask[i].fiber # None =>
               /\ state[mtask[i].fiber] \in {"INIT", "READY", "HOLD"}
               /\ mtask[i].fiber # taskfb[t] /\ mtask[i].fiber \notin parked
      BY <1>t, <2>3 DEF SingleOwnership, GivenAway, Leaving
    <2>7. ParkShape(t)'
      BY <1>p, <1>t, <2>3, <2>6 DEF ParkShape, AfterResumePC
    <2>8. \A f, S : f # mtask[i].fiber /\ GivenAway(f, S) => GivenAway(f, S)'
      BY <2>3 DEF GivenAway, Leaving
    <2>9. \A j \in 1..Len(mtask') : EntryShape(mtask'[j])
      BY <2>4 DEF SingleOwnership
    <2>10. \A j, k \in 1..Len(mtask') :
             mtask'[j].fiber # None /\ mtask'[j].fiber = mtask'[k].fiber => j = k
      BY <2>4, <2>5 DEF SingleOwnership
    <2>11. ASSUME NEW j \in 1..Len(mtask'), mtask'[j].fiber # None
           PROVE  (mtask[j].fiber \notin parked /\ GivenAway(mtask[j].fiber, {"INIT", "READY", "HOLD"}))'
      <3>1. /\ mtask'[j].fiber = mtask[old(j)].fiber /\ mtask[old(j)].fiber # mtask[i].fiber
            /\ GivenAway(mtask[old(j)].fiber, {"INIT", "READY", "HOLD"}) /\ mtask[old(j)].fiber \notin parked
        BY <2>4, <2>11 DEF SingleOwnership
      <3> QED BY <2>3, <2>8, <3>1 DEF GivenAway, Leaving
    <2>12. \A f \in parked' : GivenAway(f, {"HOLD"})'
      BY <1>t, <2>3, <2>6, <2>8 DEF SingleOwnership
    <2>13. \A j \in 1..Len(mtask') : EntryShape(mtask[j])'
      BY <2>9 DEF EntryShape
    <2> QED BY <2>7, <2>10, <2>11, <2>12, <2>13 DEF SingleOwnership
  <1>28. UNCHANGED vars \/ Stop \/ Join \/ Finished =>
           UNCHANGED <<mtask, state, pc, task, taskfb, cur, parked>>
    BY DEF Stop, Join, Finished
  <1> QED BY <1>1, <1>3, <1>4, <1>6, <1>7, <1>8, <1>9, <1>10, <1>11, <1>12, <1>13,
             <1>14, <1>15, <1>16, <1>17, <1>18, <1>19, <1>20, <1>21, <1>22, <1>23,
             <1>24, <1>25, <1>26, <1>27, <1>28
          DEF Next, Submit, ThreadStep

(* On a single thread works may also hand their own fiber to a waker,      *)
(* which may submit it before the thread is off its stack: the assertions  *)
(* of Fiber::resume and Fiber::reset hold, and no fiber is resumed after   *)
(* its end.                                                                *)
THEOREM SingleThreadResumesAreLegal ==
    (\A t, u \in Threads : t = u) => (Spec => []ResumeLegal)
  <1> SUFFICES ASSUME \A t, u \in Threads : t = u PROVE Spec => []ResumeLegal
    OBVIOUS
  <1>1. PICK t \in Threads : Threads = {t}
    BY ThreadsAssumption
  <1>2. Init => SingleOwnership
    BY <1>1 DEF Init, SingleOwnership, ParkShape, NoTask, AfterResumePC
  <1>3. Base /\ SingleOwnership /\ [Next]_vars => (Base /\ SingleOwnership)'
    BY <1>1, BaseNext, SingleNext
  <1>4. Base /\ SingleOwnership => ResumeLegal
    BY NullAssumption DEF SingleOwnership, ParkShape, AfterResumePC, ResumeLegal
  <1> QED BY <1>2, <1>3, <1>4, BaseInit, PTL DEF Spec

-----------------------------------------------------------------------------
(* Where works are and which thread they belong to, when no work parks. *)

(* What m_task holds after push_back. *)
LEMMA QueueAppend ==
    ASSUME TypeOK, NEW e \in Task, mtask' = Append(mtask, e)
    PROVE  Queue' = Queue \cup {e}
  <1>1. mtask \in Seq(Task) /\ Len(mtask) \in Nat /\ DOMAIN mtask = 1..Len(mtask)
    BY DEF TypeOK
  <1>2. DOMAIN mtask' = 1..(Len(mtask) + 1)
        /\ \A i \in 1..(Len(mtask) + 1) : mtask'[i] = IF i <= Len(mtask) THEN mtask[i] ELSE e
    BY <1>1
  <1>3. Queue' \subseteq Queue \cup {e}
    BY <1>1, <1>2 DEF Queue, ToSet
  <1>4. Queue \subseteq Queue'
    <2>1. \A i \in DOMAIN mtask : i \in DOMAIN mtask' /\ mtask'[i] = mtask[i]
      BY <1>1, <1>2
    <2> QED BY <2>1 DEF Queue, ToSet
  <1>5. e \in Queue'
    <2>1. Len(mtask) + 1 \in DOMAIN mtask' /\ mtask'[Len(mtask) + 1] = e
      BY <1>1, <1>2
    <2> QED BY <2>1 DEF Queue, ToSet
  <1> QED BY <1>3, <1>4, <1>5

(* What it holds after a thread has taken a task. *)
LEMMA QueueTake ==
    ASSUME TypeOK, NEW t \in Threads, Take(t)
    PROVE  \E e \in Task :
             /\ e \in Queue /\ Takeable(t, e) /\ task' = [task EXCEPT ![t] = e]
             /\ Queue' \subseteq Queue /\ Queue \subseteq Queue' \cup {e}
  <1>1. PICK i \in 1..Len(mtask) :
          /\ Takeable(t, mtask[i]) /\ task' = [task EXCEPT ![t] = mtask[i]]
          /\ mtask' = RemoveAt(mtask, i)
    BY DEF Take
  <1>2. mtask \in Seq(Task) /\ Len(mtask) \in Nat /\ DOMAIN mtask = 1..Len(mtask)
    BY DEF TypeOK
  <1>3. /\ mtask' \in Seq(Task) /\ Len(mtask') = Len(mtask) - 1
        /\ \A k \in 1..(Len(mtask) - 1) : mtask'[k] = IF k < i THEN mtask[k] ELSE mtask[k + 1]
    BY <1>1, <1>2, RemoveAtFacts
  <1>4. DOMAIN mtask' = 1..(Len(mtask) - 1)
    BY <1>2, <1>3
  <1>5. mtask[i] \in Task /\ mtask[i] \in Queue
    BY <1>2 DEF Queue, ToSet
  <1>6. Queue' \subseteq Queue
    BY <1>2, <1>3, <1>4 DEF Queue, ToSet
  <1>7. ASSUME NEW k \in DOMAIN mtask PROVE mtask[k] \in Queue' \cup {mtask[i]}
    <2>1. CASE k < i
      <3>1. k \in DOMAIN mtask' /\ mtask'[k] = mtask[k]
        BY <1>2, <1>3, <1>4, <2>1
      <3> QED BY <3>1 DEF Queue, ToSet
    <2>2. CASE k > i
      <3>1. k - 1 \in DOMAIN mtask' /\ mtask'[k - 1] = mtask[k]
        BY <1>2, <1>3, <1>4, <2>2
      <3> QED BY <3>1 DEF Queue, ToSet
    <2> QED BY <1>2, <2>1, <2>2
  <1>8. Queue \subseteq Queue' \cup {mtask[i]}
    BY <1>7 DEF Queue, ToSet
  <1> QED BY <1>1, <1>5, <1>6, <1>8

(* What it holds after submit(begin, end). *)
LEMMA QueueGroup ==
    ASSUME TypeOK, NEW g \in Groups, mtask' = Pushed(mtask, g)
    PROVE  /\ Queue \subseteq Queue'
           /\ \A e \in Queue' \ Queue : \E k \in 1..Len(g) : e = CbTask(g[k], AnyThread)
           /\ Len(g) = 1 => Queue' = Queue \cup {CbTask(g[1], AnyThread)}
  <1>1. g \in Seq(Works) /\ Len(g) > 0 /\ Len(g) \in Nat
    BY GroupsAssumption
  <1>2. mtask \in Seq(Task) /\ Len(mtask) \in Nat /\ DOMAIN mtask = 1..Len(mtask)
    BY DEF TypeOK
  <1> DEFINE r == [k \in 1..Len(g) |-> CbTask(g[k], AnyThread)]
  <1>3. CASE mtask = <<>>
    <2>1. mtask' = <<CbTask(g[1], AnyThread)>>
      BY <1>3 DEF Pushed
    <2>2. Queue' = {CbTask(g[1], AnyThread)} /\ Queue = {}
      BY <1>3, <2>1 DEF Queue, ToSet
    <2> QED BY <1>1, <2>2
  <1>4. CASE mtask # <<>>
    <2>1. mtask' = mtask \o r
      BY <1>4 DEF Pushed
    <2>2. \A k \in 1..Len(g) : CbTask(g[k], AnyThread) \in Task
      BY <1>1 DEF CbTask, Task
    <2>3. r \in Seq(Task) /\ Len(r) = Len(g) /\ \A k \in 1..Len(g) : r[k] = CbTask(g[k], AnyThread)
      BY <1>1, <2>2
    <2> HIDE DEF r
    <2>4. DOMAIN mtask' = 1..(Len(mtask) + Len(g))
          /\ \A k \in 1..(Len(mtask) + Len(g)) :
               mtask'[k] = IF k <= Len(mtask) THEN mtask[k] ELSE r[k - Len(mtask)]
      <3>1. mtask \o r \in Seq(Task) /\ Len(mtask \o r) = Len(mtask) + Len(r)
            /\ \A k \in 1..(Len(mtask) + Len(r)) :
                 (mtask \o r)[k] = IF k <= Len(mtask) THEN mtask[k] ELSE r[k - Len(mtask)]
        BY <1>2, <2>3, ConcatProperties
      <3>2. DOMAIN (mtask \o r) = 1..(Len(mtask) + Len(g))
        BY <2>3, <3>1
      <3> QED BY <2>1, <2>3, <3>1, <3>2
    <2>5. ASSUME NEW k \in DOMAIN mtask'
          PROVE  mtask'[k] \in Queue \/ \E j \in 1..Len(g) : mtask'[k] = CbTask(g[j], AnyThread)
      <3>1. CASE k <= Len(mtask)
        BY <1>2, <2>4, <3>1 DEF Queue, ToSet
      <3>2. CASE ~(k <= Len(mtask))
        <4>1. k - Len(mtask) \in 1..Len(g) /\ mtask'[k] = r[k - Len(mtask)]
          BY <1>1, <1>2, <2>4, <3>2
        <4> QED BY <2>3, <4>1
      <3> QED BY <3>1, <3>2
    <2>6. Queue \subseteq Queue'
      <3>1. \A k \in DOMAIN mtask : k \in DOMAIN mtask' /\ mtask'[k] = mtask[k]
        BY <1>1, <1>2, <2>4
      <3> QED BY <3>1 DEF Queue, ToSet
    <2>7. \A e \in Queue' \ Queue : \E k \in 1..Len(g) : e = CbTask(g[k], AnyThread)
      BY <2>5 DEF Queue, ToSet
    <2>8. Len(g) = 1 => Queue' = Queue \cup {CbTask(g[1], AnyThread)}
      <3>1. Len(mtask) + 1 \in DOMAIN mtask' /\ mtask'[Len(mtask) + 1] = r[1] /\ r[1] = CbTask(g[1], AnyThread)
        BY <1>1, <1>2, <2>3, <2>4
      <3>2. CbTask(g[1], AnyThread) \in Queue'
        BY <3>1 DEF Queue, ToSet
      <3>3. ASSUME Len(g) = 1, NEW e \in Queue' PROVE e \in Queue \cup {CbTask(g[1], AnyThread)}
        <4>1. CASE e \notin Queue
          <5>1. PICK k \in 1..Len(g) : e = CbTask(g[k], AnyThread)
            BY <2>7, <4>1
          <5>2. k = 1
            BY <3>3
          <5> QED BY <5>1, <5>2
        <4> QED BY <4>1
      <3> QED BY <2>6, <3>2, <3>3
    <2> QED BY <2>6, <2>7, <2>8
  <1> QED BY <1>3, <1>4

(* The steps that need a parked fiber. *)
LEMMA NoParkSteps ==
    ASSUME CanPark = {}, TypeOK, Ownership
    PROVE  /\ \A f \in Fibers : ~Wake(f)
           /\ \A t \in Threads : ~Register(t) /\ ~YieldToHold(t) /\ ~CheckRelease(t)
  <1>1. ASSUME NEW f \in Fibers, Wake(f) PROVE FALSE
    BY <1>1 DEF Wake, Ownership
  <1>2. ASSUME NEW t \in Threads, Register(t) \/ YieldToHold(t) PROVE FALSE
    BY <1>2 DEF Register, YieldToHold, Ownership
  <1>3. ASSUME NEW t \in Threads, CheckRelease(t) PROVE FALSE
    BY <1>3 DEF CheckRelease, Ownership, LocalShape, Resumed
  <1> QED BY <1>1, <1>2, <1>3

(* The entry that Resubmit pushes. *)
LEMMA ResubmitFacts ==
    ASSUME TypeOK, Ownership, NEW t \in Threads, Resubmit(t)
    PROVE  /\ Resumed(t) \in Fibers /\ task[t].cb = None
           /\ task[t].fiber = None => task[t].thr = AnyThread /\ Resumed(t) = taskfb[t]
           /\ FiberTask(Resumed(t), task[t].thr) \in Task
           /\ Queue' = Queue \cup {FiberTask(Resumed(t), task[t].thr)}
  <1> USE NullAssumption
  <1>1. pc[t] = "resubmit" /\ mtask' = Append(mtask, FiberTask(Resumed(t), task[t].thr))
    BY DEF Resubmit
  <1>2. LocalShape(t) /\ task[t] \in Task /\ taskfb[t] \in Fibers \cup {None}
    BY DEF Ownership, TypeOK
  <1>3. Resumed(t) # None /\ task[t].cb = None /\ (task[t].fiber = None => task[t] = NoTask)
    BY <1>1, <1>2 DEF LocalShape, AfterResumePC
  <1>4. Resumed(t) \in Fibers /\ task[t].thr \in Threads \cup {AnyThread}
    BY <1>2, <1>3 DEF Resumed, Task
  <1>5. FiberTask(Resumed(t), task[t].thr) \in Task
    BY <1>4 DEF FiberTask, Task
  <1> QED BY <1>1, <1>3, <1>4, <1>5, QueueAppend DEF NoTask, Resumed

(* A work is known to the scheduler only through submit(). *)
LEMMA SubShapeNext ==
    ASSUME CanPark = {}, Base, Ownership, SubShape, [Next]_vars
    PROVE  SubShape'
  <1> USE NullAssumption
          DEF vars, schedVars, fiberVars, threadVars, ctlVars, workVars
  <1> TypeOK /\ ThreadShape
    BY DEF Base
  <1>t. /\ mcb \in [Fibers -> Works \cup {None}] /\ home \in [Works -> Threads \cup {AnyThread}]
        /\ pc \in [Threads -> ThreadPC] /\ task \in [Threads -> Task]
        /\ taskfb \in [Threads -> Fibers \cup {None}] /\ sub \subseteq Works
        /\ state \in [Fibers -> FiberState \cup {"FREE"}]
    BY DEF TypeOK
  <1>1. CASE UNCHANGED vars
    <2>q. Queue' = Queue
      BY <1>1 DEF Queue
    <2> QED BY <1>1, <2>q DEF SubShape
  <1>2. ASSUME NEW w \in Works, NEW thr \in CbTargets, SubmitCb(w, thr)
        PROVE  SubShape'
    <2>e. CbTask(w, thr) \in Task
      BY <1>2, <1>t, TargetsAssumption DEF SubmitCb, CbTask, Task
    <2>q. Queue' = Queue \cup {CbTask(w, thr)}
      BY <1>2, <2>e, QueueAppend DEF SubmitCb
    <2> QED BY <1>2, <1>t, <2>q DEF SubmitCb, CbTask, SubShape
  <1>3. ASSUME NEW w \in Works, NEW f \in Fibers, NEW thr \in FiberTargets, SubmitFiber(w, f, thr)
        PROVE  SubShape'
    <2>e. FiberTask(f, thr) \in Task
      BY <1>3, <1>t, TargetsAssumption DEF SubmitFiber, FiberTask, Task
    <2>q. Queue' = Queue \cup {FiberTask(f, thr)}
      BY <1>3, <2>e, QueueAppend DEF SubmitFiber
    <2> QED BY <1>3, <1>t, <2>q DEF SubmitFiber, FiberTask, SubShape
  <1>4. ASSUME NEW g \in Groups, SubmitGroup(g)
        PROVE  SubShape'
    <2>1. /\ Queue \subseteq Queue'
          /\ \A e \in Queue' \ Queue : \E k \in 1..Len(g) : e = CbTask(g[k], AnyThread)
      BY <1>4, QueueGroup DEF SubmitGroup
    <2>2. UNCHANGED <<task, mcb, home>> /\ sub' = sub \cup {g[k] : k \in 1..Len(g)}
      BY <1>4 DEF SubmitGroup
    <2>3. \A e \in Queue' : e.cb \in sub' \cup {None}
      BY <2>1, <2>2 DEF SubShape, CbTask
    <2> QED BY <2>2, <2>3 DEF SubShape
  <1>5. CASE Start
    <2>q. Queue' = Queue
      BY <1>5 DEF Start, Queue
    <2> QED BY <1>5, <1>t, <2>q DEF Start, NoTask, SubShape
  <1>6. CASE Stop
    <2>q. Queue' = Queue
      BY <1>6 DEF Stop, Queue
    <2> QED BY <1>6, <1>t, <2>q DEF Stop, SubShape
  <1>7. CASE Join
    <2>q. Queue' = Queue
      BY <1>7 DEF Join, Queue
    <2> QED BY <1>7, <1>t, <2>q DEF Join, SubShape
  <1>8. ASSUME NEW t \in Threads, ThreadStep(t)
        PROVE  SubShape'
    <2>l. LocalShape(t)
      BY DEF Ownership
    <2>1. CASE Take(t)
      <3>1. PICK e \in Task :
              /\ e \in Queue /\ Takeable(t, e) /\ task' = [task EXCEPT ![t] = e]
              /\ Queue' \subseteq Queue /\ Queue \subseteq Queue' \cup {e}
        BY <2>1, QueueTake
      <3> QED BY <2>1, <1>t, <3>1 DEF Take, SubShape
    <2>2. CASE FindNothing(t)
      <3>q. Queue' = Queue
        BY <2>2 DEF FindNothing, Queue
      <3> QED BY <2>2, <1>t, <3>q DEF FindNothing, SubShape
    <2>3. CASE Activate(t)
      <3>q. Queue' = Queue
        BY <2>3 DEF Activate, Queue
      <3> QED BY <2>3, <1>t, <3>q DEF Activate, SubShape
    <2>4. CASE ResumeFiber(t)
      <3>q. Queue' = Queue
        BY <2>4 DEF ResumeFiber, Queue
      <3> QED BY <2>4, <1>t, <3>q DEF ResumeFiber, SubShape
    <2>5. ASSUME NEW f \in Fibers, ResumeCb(t, f) PROVE SubShape'
      <3>q. Queue' = Queue
        BY <2>5 DEF ResumeCb, Queue
      <3> QED BY <2>5, <1>t, <3>q DEF ResumeCb, NoTask, SubShape
    <2>6. CASE YieldToReady(t)
      <3>q. Queue' = Queue
        BY <2>6 DEF YieldToReady, Queue
      <3> QED BY <2>6, <1>t, <3>q DEF YieldToReady, SubShape
    <2>7. ASSUME NEW outcome \in {"TERM", "EXCEPT"}, Coroutine(t, outcome) PROVE SubShape'
      <3>q. Queue' = Queue
        BY <2>7 DEF Coroutine, Queue
      <3> QED BY <2>7, <1>t, <3>q DEF Coroutine, SubShape
    <2>8. CASE SwitchOut(t)
      <3>q. Queue' = Queue
        BY <2>8 DEF SwitchOut, Queue
      <3> QED BY <2>8, <1>t, <3>q DEF SwitchOut, SubShape
    <2>9. CASE Deactivate(t)
      <3>q. Queue' = Queue
        BY <2>9 DEF Deactivate, Queue
      <3> QED BY <2>9, <1>t, <3>q DEF Deactivate, SubShape
    <2>10. CASE CheckReady(t)
      <3>q. Queue' = Queue
        BY <2>10 DEF CheckReady, Queue
      <3> QED BY <2>10, <1>t, <3>q DEF CheckReady, SubShape
    <2>11. CASE CheckReuse(t)
      <3>q. Queue' = Queue
        BY <2>11 DEF CheckReuse, Queue
      <3> QED BY <2>11, <1>t, <3>q DEF CheckReuse, SubShape
    <2>12. CASE CheckForget(t)
      <3>q. Queue' = Queue
        BY <2>12 DEF CheckForget, Queue
      <3> QED BY <2>12, <1>t, <3>q DEF CheckForget, NoTask, SubShape
    <2>13. CASE Resubmit(t)
      <3>1. /\ Resumed(t) \in Fibers /\ task[t].cb = None
            /\ task[t].fiber = None => task[t].thr = AnyThread /\ Resumed(t) = taskfb[t]
            /\ Queue' = Queue \cup {FiberTask(Resumed(t), task[t].thr)}
        BY <2>13, ResubmitFacts
      <3> QED BY <2>13, <1>t, <3>1 DEF Resubmit, FiberTask, NoTask, SubShape
    <2>14. CASE GoIdle(t)
      <3>q. Queue' = Queue
        BY <2>14 DEF GoIdle, Queue
      <3> QED BY <2>14, <1>t, <3>q DEF GoIdle, SubShape
    <2>15. CASE WaitOnce(t)
      <3>q. Queue' = Queue
        BY <2>15 DEF WaitOnce, Queue
      <3> QED BY <2>15, <1>t, <3>q DEF WaitOnce, SubShape
    <2>16. CASE Exit(t)
      <3>q. Queue' = Queue
        BY <2>16 DEF Exit, Queue
      <3> QED BY <2>16, <1>t, <3>q DEF Exit, SubShape
    <2> QED BY <1>8, NoParkSteps, <2>1, <2>2, <2>3, <2>4, <2>5, <2>6, <2>7, <2>8,
               <2>9, <2>10, <2>11, <2>12, <2>13, <2>14, <2>15, <2>16
            DEF ThreadStep
  <1> QED BY NoParkSteps, <1>1, <1>2, <1>3, <1>4, <1>5, <1>6, <1>7, <1>8 DEF Next, Submit, Finished

(* A task_fb is reused only after its callback is over. *)
LEMMA BodyShapeNext ==
    ASSUME CanPark = {}, Base, Ownership, BodyShape, [Next]_vars
    PROVE  BodyShape'
  <1> USE NullAssumption
          DEF vars, schedVars, fiberVars, threadVars, ctlVars, workVars
  <1> TypeOK /\ ThreadShape
    BY DEF Base
  <1>t. /\ mcb \in [Fibers -> Works \cup {None}] /\ home \in [Works -> Threads \cup {AnyThread}]
        /\ pc \in [Threads -> ThreadPC] /\ task \in [Threads -> Task]
        /\ taskfb \in [Threads -> Fibers \cup {None}] /\ sub \subseteq Works
        /\ state \in [Fibers -> FiberState \cup {"FREE"}]
    BY DEF TypeOK
  <1>1. CASE UNCHANGED vars
    BY <1>1 DEF BodyShape
  <1>2. ASSUME NEW w \in Works, NEW thr \in CbTargets, SubmitCb(w, thr)
        PROVE  BodyShape'
    BY <1>2, <1>t DEF SubmitCb, BodyShape, AfterResumePC
  <1>3. ASSUME NEW w \in Works, NEW f \in Fibers, NEW thr \in FiberTargets, SubmitFiber(w, f, thr)
        PROVE  BodyShape'
    BY <1>3, <1>t, FreshFiber DEF SubmitFiber, BodyShape
  <1>4. ASSUME NEW g \in Groups, SubmitGroup(g)
        PROVE  BodyShape'
    BY <1>4, <1>t DEF SubmitGroup, BodyShape, AfterResumePC
  <1>5. CASE Start
    BY <1>5, <1>t DEF Start, BodyShape, AfterResumePC
  <1>6. CASE Stop
    BY <1>6, <1>t DEF Stop, BodyShape, AfterResumePC
  <1>7. CASE Join
    BY <1>7, <1>t DEF Join, BodyShape, AfterResumePC
  <1>8. ASSUME NEW t \in Threads, ThreadStep(t)
        PROVE  BodyShape'
    <2>l. LocalShape(t)
      BY DEF Ownership
    <2>1. CASE Take(t)
      <3>1. pc[t] = "scan" /\ pc' = [pc EXCEPT ![t] = "taken"] /\ UNCHANGED <<taskfb, mcb>>
            /\ \A u \in Threads : u # t => task'[u] = task[u]
        BY <2>1, <1>t DEF Take
      <3> QED BY <1>t, <3>1 DEF BodyShape, AfterResumePC
    <2>2. CASE FindNothing(t)
      BY <2>2, <1>t DEF FindNothing, BodyShape, AfterResumePC
    <2>3. CASE Activate(t)
      BY <2>3, <1>t DEF Activate, BodyShape, AfterResumePC
    <2>4. CASE ResumeFiber(t)
      BY <2>4, <1>t DEF ResumeFiber, BodyShape, AfterResumePC
    <2>5. ASSUME NEW f \in Fibers, ResumeCb(t, f) PROVE BodyShape'
      <3>1. state[f] = "FREE" => \A u \in Threads : taskfb[u] # f
        BY FreshFiber
      <3>2. \A u \in Threads : taskfb[u] # f \/ u = t
        BY <2>5, <1>t, <3>1 DEF ResumeCb, Ownership, OnePlace
      <3> QED BY <2>5, <1>t, <3>2 DEF ResumeCb, BodyShape, AfterResumePC, NoTask
    <2>6. CASE YieldToReady(t)
      BY <2>6, <1>t DEF YieldToReady, BodyShape, AfterResumePC
    <2>7. ASSUME NEW outcome \in {"TERM", "EXCEPT"}, Coroutine(t, outcome) PROVE BodyShape'
      BY <2>7, <1>t DEF Coroutine, BodyShape, AfterResumePC
    <2>8. CASE SwitchOut(t)
      BY <2>8, <1>t DEF SwitchOut, BodyShape, AfterResumePC
    <2>9. CASE Deactivate(t)
      BY <2>9, <1>t DEF Deactivate, BodyShape, AfterResumePC
    <2>10. CASE CheckReady(t)
      BY <2>10, <1>t DEF CheckReady, BodyShape, AfterResumePC
    <2>11. CASE CheckReuse(t)
      BY <2>11, <1>t DEF CheckReuse, BodyShape, AfterResumePC
    <2>12. CASE CheckForget(t)
      BY <2>12, <1>t DEF CheckForget, BodyShape, AfterResumePC
    <2>13. CASE Resubmit(t)
      BY <2>13, <1>t DEF Resubmit, BodyShape, AfterResumePC, NoTask
    <2>14. CASE GoIdle(t)
      BY <2>14, <1>t DEF GoIdle, BodyShape, AfterResumePC
    <2>15. CASE WaitOnce(t)
      BY <2>15, <1>t DEF WaitOnce, BodyShape, AfterResumePC
    <2>16. CASE Exit(t)
      BY <2>16, <1>t DEF Exit, BodyShape, AfterResumePC
    <2> QED BY <1>8, NoParkSteps, <2>1, <2>2, <2>3, <2>4, <2>5, <2>6, <2>7, <2>8,
               <2>9, <2>10, <2>11, <2>12, <2>13, <2>14, <2>15, <2>16
            DEF ThreadStep
  <1> QED BY NoParkSteps, <1>1, <1>2, <1>3, <1>4, <1>5, <1>6, <1>7, <1>8 DEF Next, Submit, Finished

(* A thread leaves run() only after a scan that found nothing any thread   *)
(* may take, and only a running work submits while stop() waits.           *)
LEMMA DrainShapeNext ==
    ASSUME CanPark = {}, Base, Ownership, DrainShape, [Next]_vars
    PROVE  DrainShape'
  <1> USE NullAssumption
          DEF vars, schedVars, fiberVars, threadVars, ctlVars, workVars
  <1> TypeOK /\ ThreadShape
    BY DEF Base
  <1>t. /\ mcb \in [Fibers -> Works \cup {None}] /\ home \in [Works -> Threads \cup {AnyThread}]
        /\ pc \in [Threads -> ThreadPC] /\ task \in [Threads -> Task]
        /\ taskfb \in [Threads -> Fibers \cup {None}] /\ sub \subseteq Works
        /\ state \in [Fibers -> FiberState \cup {"FREE"}]
    BY DEF TypeOK
  <1>1. CASE UNCHANGED vars
    <2>q. Queue' = Queue
      BY <1>1 DEF Queue
    <2> QED BY <1>1, <2>q DEF DrainShape, Watching
  <1>2. ASSUME NEW w \in Works, NEW thr \in CbTargets, SubmitCb(w, thr)
        PROVE  DrainShape'
    <2>1. ctl # "off" => \E u \in Threads : Watching(u)
      BY <1>2, ThreadsAssumption DEF SubmitCb, CanSubmit, DrainShape, Watching
    <2>2. UNCHANGED <<ctl, pc, wdone, stopping>>
      BY <1>2 DEF SubmitCb
    <2> QED BY <2>1, <2>2 DEF DrainShape, Watching
  <1>3. ASSUME NEW w \in Works, NEW f \in Fibers, NEW thr \in FiberTargets, SubmitFiber(w, f, thr)
        PROVE  DrainShape'
    <2>1. ctl # "off" => \E u \in Threads : Watching(u)
      BY <1>3, ThreadsAssumption DEF SubmitFiber, CanSubmit, DrainShape, Watching
    <2>2. UNCHANGED <<ctl, pc, wdone, stopping>>
      BY <1>3 DEF SubmitFiber
    <2> QED BY <2>1, <2>2 DEF DrainShape, Watching
  <1>4. ASSUME NEW g \in Groups, SubmitGroup(g)
        PROVE  DrainShape'
    <2>1. ctl # "off" => \E u \in Threads : Watching(u)
      BY <1>4, ThreadsAssumption DEF SubmitGroup, CanSubmit, DrainShape, Watching
    <2>2. UNCHANGED <<ctl, pc, wdone, stopping>>
      BY <1>4 DEF SubmitGroup
    <2> QED BY <2>1, <2>2 DEF DrainShape, Watching
  <1>5. CASE Start
    BY <1>5, ThreadsAssumption DEF Start, DrainShape, Watching
  <1>6. CASE Stop
    <2>q. Queue' = Queue
      BY <1>6 DEF Stop, Queue
    <2> QED BY <1>6, <1>t, <2>q DEF Stop, DrainShape, Watching
  <1>7. CASE Join
    <2>q. Queue' = Queue
      BY <1>7 DEF Join, Queue
    <2> QED BY <1>7, <1>t, <2>q DEF Join, DrainShape, Watching
  <1>8. ASSUME NEW t \in Threads, ThreadStep(t)
        PROVE  DrainShape'
    <2>l. LocalShape(t)
      BY DEF Ownership
    <2>1. CASE Take(t)
      <3>1. Watching(t)'
        BY <2>1, <1>t DEF Take, Watching
      <3> QED BY <2>1, <1>t, <3>1 DEF Take, DrainShape
    <2>2. CASE FindNothing(t)
      <3>1. UNCHANGED <<ctl, wdone, stopping>> /\ pc[t] = "scan" /\ pc' = [pc EXCEPT ![t] = "idle"]
        BY <2>2 DEF FindNothing
      <3>2. \A e \in Queue : e.thr # AnyThread
        <4> SUFFICES ASSUME NEW i \in 1..Len(mtask) PROVE mtask[i].thr # AnyThread
          BY DEF TypeOK, Queue, ToSet
        <4> QED BY <2>2 DEF FindNothing, Takeable, Ownership, QueueShape
      <3>3. Queue' = Queue
        BY <2>2 DEF FindNothing, Queue
      <3> QED BY <1>t, <3>1, <3>2, <3>3 DEF DrainShape
    <2>3. CASE Activate(t)
      <3>q. Queue' = Queue
        BY <2>3 DEF Activate, Queue
      <3> QED BY <2>3, <1>t, <3>q DEF Activate, DrainShape, Watching
    <2>4. CASE ResumeFiber(t)
      <3>q. Queue' = Queue
        BY <2>4 DEF ResumeFiber, Queue
      <3> QED BY <2>4, <1>t, <3>q DEF ResumeFiber, DrainShape, Watching
    <2>5. ASSUME NEW f \in Fibers, ResumeCb(t, f) PROVE DrainShape'
      <3>q. Queue' = Queue
        BY <2>5 DEF ResumeCb, Queue
      <3> QED BY <2>5, <1>t, <3>q DEF ResumeCb, DrainShape, Watching
    <2>6. CASE YieldToReady(t)
      <3>q. Queue' = Queue
        BY <2>6 DEF YieldToReady, Queue
      <3> QED BY <2>6, <1>t, <3>q DEF YieldToReady, DrainShape, Watching
    <2>7. ASSUME NEW outcome \in {"TERM", "EXCEPT"}, Coroutine(t, outcome) PROVE DrainShape'
      <3>q. Queue' = Queue
        BY <2>7 DEF Coroutine, Queue
      <3> QED BY <2>7, <1>t, <3>q DEF Coroutine, DrainShape, Watching
    <2>8. CASE SwitchOut(t)
      <3>q. Queue' = Queue
        BY <2>8 DEF SwitchOut, Queue
      <3> QED BY <2>8, <1>t, <3>q DEF SwitchOut, DrainShape, Watching
    <2>9. CASE Deactivate(t)
      <3>q. Queue' = Queue
        BY <2>9 DEF Deactivate, Queue
      <3> QED BY <2>9, <1>t, <3>q DEF Deactivate, DrainShape, Watching
    <2>10. CASE CheckReady(t)
      <3>q. Queue' = Queue
        BY <2>10 DEF CheckReady, Queue
      <3> QED BY <2>10, <1>t, <3>q DEF CheckReady, DrainShape, Watching
    <2>11. CASE CheckReuse(t)
      <3>q. Queue' = Queue
        BY <2>11 DEF CheckReuse, Queue
      <3> QED BY <2>11, <1>t, <3>q DEF CheckReuse, DrainShape, Watching
    <2>12. CASE CheckForget(t)
      <3>q. Queue' = Queue
        BY <2>12 DEF CheckForget, Queue
      <3> QED BY <2>12, <1>t, <3>q DEF CheckForget, DrainShape, Watching
    <2>13. CASE Resubmit(t)
      <3>1. Watching(t)'
        BY <2>13, <1>t DEF Resubmit, Watching
      <3> QED BY <2>13, <1>t, <3>1 DEF Resubmit, DrainShape
    <2>14. CASE GoIdle(t)
      <3>q. Queue' = Queue
        BY <2>14 DEF GoIdle, Queue
      <3> QED BY <2>14, <1>t, <3>q DEF GoIdle, DrainShape, Watching
    <2>15. CASE WaitOnce(t)
      <3>1. Watching(t)'
        BY <2>15, <1>t DEF WaitOnce, Watching
      <3>2. UNCHANGED <<ctl, stopping>> /\ pc' = [pc EXCEPT ![t] = "scan"]
            /\ wdone' = [wdone EXCEPT ![t] = CanStop] /\ wdone \in [Threads -> BOOLEAN]
        BY <2>15 DEF WaitOnce, TypeOK
      <3>3. ASSUME ctl = "running", NEW u \in Threads PROVE pc'[u] # "off" /\ ~wdone'[u]
        <4>1. ~stopping /\ pc[u] # "off" /\ ~wdone[u]
          BY <3>3 DEF DrainShape
        <4>2. CanStop = FALSE
          BY <4>1 DEF CanStop
        <4> QED BY <1>t, <3>2, <4>1, <4>2
      <3>4. ctl' = "running" => ~stopping'
        BY <3>2 DEF DrainShape
      <3> QED BY <3>1, <3>2, <3>3, <3>4 DEF DrainShape
    <2>16. CASE Exit(t)
      <3>q. Queue' = Queue
        BY <2>16 DEF Exit, Queue
      <3> QED BY <2>16, <1>t, <3>q DEF Exit, DrainShape, Watching
    <2> QED BY <1>8, NoParkSteps, <2>1, <2>2, <2>3, <2>4, <2>5, <2>6, <2>7, <2>8,
               <2>9, <2>10, <2>11, <2>12, <2>13, <2>14, <2>15, <2>16
            DEF ThreadStep
  <1> QED BY NoParkSteps, <1>1, <1>2, <1>3, <1>4, <1>5, <1>6, <1>7, <1>8 DEF Next, Submit, Finished

(* What m_task holds are tasks. *)
LEMMA QueueType == TypeOK => Queue \subseteq Task
  BY DEF TypeOK, Queue, ToSet

(* A task keeps the thread id of its work until a callback is resumed. *)
LEMMA HomeShapeNext ==
    ASSUME CanPark = {}, Base, Ownership, SubShape, HomeShape, [Next]_vars
    PROVE  HomeShape'
  <1> USE NullAssumption
          DEF vars, schedVars, fiberVars, threadVars, ctlVars, workVars
  <1> TypeOK /\ ThreadShape
    BY DEF Base
  <1>t. /\ mcb \in [Fibers -> Works \cup {None}] /\ home \in [Works -> Threads \cup {AnyThread}]
        /\ pc \in [Threads -> ThreadPC] /\ task \in [Threads -> Task]
        /\ taskfb \in [Threads -> Fibers \cup {None}] /\ sub \subseteq Works
        /\ state \in [Fibers -> FiberState \cup {"FREE"}]
    BY DEF TypeOK
  <1>1. CASE UNCHANGED vars
    <2>q. Queue' = Queue /\ UNCHANGED <<task, taskfb, mcb, home>>
      BY <1>1 DEF Queue
    <2> QED BY <2>q DEF HomeShape, CbHome, FiberHome
  <1>2. ASSUME NEW w \in Works, NEW thr \in CbTargets, SubmitCb(w, thr)
        PROVE  HomeShape'
    <2>e. CbTask(w, thr) \in Task
      BY <1>2, <1>t, TargetsAssumption DEF SubmitCb, CbTask, Task
    <2>q. Queue' = Queue \cup {CbTask(w, thr)}
      BY <1>2, <2>e, QueueAppend DEF SubmitCb
    <2>1. UNCHANGED <<task, taskfb, mcb>> /\ home' = [home EXCEPT ![w] = thr] /\ w \notin sub
      BY <1>2 DEF SubmitCb
    <2>2. \A e \in Queue : CbHome(e.cb, e.thr)' /\ FiberHome(e.fiber, e.thr)'
      BY <1>t, <2>1, QueueType DEF HomeShape, SubShape, CbHome, FiberHome, Task
    <2>3. CbHome(w, thr)'
      BY <1>t, <2>1 DEF CbHome
    <2>4. \A e \in Queue' : CbHome(e.cb, e.thr)' /\ FiberHome(e.fiber, e.thr)'
      BY <2>q, <2>2, <2>3 DEF CbTask, FiberHome
    <2>5. ASSUME NEW u \in Threads
          PROVE  /\ task[u].thr \in {AnyThread, u}
                 /\ CbHome(task[u].cb, task[u].thr)' /\ FiberHome(task[u].fiber, task[u].thr)'
                 /\ FiberHome(taskfb[u], AnyThread)'
      BY <1>t, <2>1 DEF HomeShape, SubShape, CbHome, FiberHome, Task
    <2> QED BY <2>1, <2>4, <2>5 DEF HomeShape
  <1>3. ASSUME NEW w \in Works, NEW f \in Fibers, NEW thr \in FiberTargets, SubmitFiber(w, f, thr)
        PROVE  HomeShape'
    <2>e. FiberTask(f, thr) \in Task
      BY <1>3, <1>t, TargetsAssumption DEF SubmitFiber, FiberTask, Task
    <2>q. Queue' = Queue \cup {FiberTask(f, thr)}
      BY <1>3, <2>e, QueueAppend DEF SubmitFiber
    <2>1. UNCHANGED <<task, taskfb>> /\ home' = [home EXCEPT ![w] = thr] /\ mcb' = [mcb EXCEPT ![f] = w]
          /\ w \notin sub /\ state[f] = "FREE"
      BY <1>3 DEF SubmitFiber
    <2>f. /\ \A e \in Queue : e.fiber # f
          /\ \A u \in Threads : task[u].fiber # f /\ taskfb[u] # f
      BY <2>1, FreshFiber DEF Queue, ToSet, TypeOK
    <2>2. \A e \in Queue : CbHome(e.cb, e.thr)' /\ FiberHome(e.fiber, e.thr)'
      BY <1>t, <2>1, <2>f, QueueType DEF HomeShape, SubShape, CbHome, FiberHome, Task
    <2>3. FiberHome(f, thr)'
      BY <1>t, <2>1 DEF FiberHome
    <2>4. \A e \in Queue' : CbHome(e.cb, e.thr)' /\ FiberHome(e.fiber, e.thr)'
      BY <2>q, <2>2, <2>3 DEF FiberTask, CbHome
    <2>5. ASSUME NEW u \in Threads
          PROVE  /\ task[u].thr \in {AnyThread, u}
                 /\ CbHome(task[u].cb, task[u].thr)' /\ FiberHome(task[u].fiber, task[u].thr)'
                 /\ FiberHome(taskfb[u], AnyThread)'
      BY <1>t, <2>1, <2>f DEF HomeShape, SubShape, CbHome, FiberHome, Task
    <2> QED BY <2>1, <2>4, <2>5 DEF HomeShape
  <1>4. ASSUME NEW g \in Groups, SubmitGroup(g)
        PROVE  HomeShape'
    <2>1. /\ Queue \subseteq Queue'
          /\ \A e \in Queue' \ Queue : \E k \in 1..Len(g) : e = CbTask(g[k], AnyThread)
      BY <1>4, QueueGroup DEF SubmitGroup
    <2>2. UNCHANGED <<task, taskfb, mcb, home>> /\ \A k \in 1..Len(g) : g[k] \notin sub /\ g[k] \in Works
      BY <1>4, GroupsAssumption DEF SubmitGroup
    <2>3. \A k \in 1..Len(g) : CbHome(g[k], AnyThread)
      BY <2>2 DEF SubShape, CbHome
    <2>4. \A e \in Queue' : CbHome(e.cb, e.thr) /\ FiberHome(e.fiber, e.thr)
      BY <2>1, <2>3 DEF HomeShape, CbTask, FiberHome
    <2> QED BY <2>2, <2>4 DEF HomeShape, CbHome, FiberHome
  <1>5. CASE Start
    <2>q. Queue' = Queue /\ UNCHANGED <<mcb, home>> /\ task' = [u \in Threads |-> NoTask]
          /\ taskfb' = [u \in Threads |-> None]
      BY <1>5 DEF Start, Queue
    <2> QED BY <2>q DEF HomeShape, CbHome, FiberHome, NoTask
  <1>6. CASE Stop
    <2>q. Queue' = Queue /\ UNCHANGED <<task, taskfb, mcb, home>>
      BY <1>6 DEF Stop, Queue
    <2> QED BY <2>q DEF HomeShape, CbHome, FiberHome
  <1>7. CASE Join
    <2>q. Queue' = Queue /\ UNCHANGED <<task, taskfb, mcb, home>>
      BY <1>7 DEF Join, Queue
    <2> QED BY <2>q DEF HomeShape, CbHome, FiberHome
  <1>8. ASSUME NEW t \in Threads, ThreadStep(t)
        PROVE  HomeShape'
    <2>l. LocalShape(t)
      BY DEF Ownership
    <2>1. CASE Take(t)
      <3>1. PICK e \in Task :
              /\ e \in Queue /\ Takeable(t, e) /\ task' = [task EXCEPT ![t] = e]
              /\ Queue' \subseteq Queue /\ Queue \subseteq Queue' \cup {e}
        BY <2>1, QueueTake
      <3>2. UNCHANGED <<taskfb, mcb, home>> /\ e.thr \in {AnyThread, t}
        BY <2>1, <3>1 DEF Take, Takeable
      <3> QED BY <1>t, <3>1, <3>2 DEF HomeShape, CbHome, FiberHome
    <2>2. CASE FindNothing(t)
      <3>q. Queue' = Queue /\ UNCHANGED <<task, taskfb, mcb, home>>
        BY <2>2 DEF FindNothing, Queue
      <3> QED BY <3>q DEF HomeShape, CbHome, FiberHome
    <2>3. CASE Activate(t)
      <3>q. Queue' = Queue /\ UNCHANGED <<task, taskfb, mcb, home>>
        BY <2>3 DEF Activate, Queue
      <3> QED BY <3>q DEF HomeShape, CbHome, FiberHome
    <2>4. CASE ResumeFiber(t)
      <3>q. Queue' = Queue /\ UNCHANGED <<task, taskfb, mcb, home>>
        BY <2>4 DEF ResumeFiber, Queue
      <3> QED BY <3>q DEF HomeShape, CbHome, FiberHome
    <2>5. ASSUME NEW f \in Fibers, ResumeCb(t, f) PROVE HomeShape'
      <3>1. state[f] = "FREE" => \A u \in Threads : taskfb[u] # f
        BY FreshFiber
      <3>2. \A u \in Threads : taskfb[u] # f \/ u = t
        BY <2>5, <1>t, <3>1 DEF ResumeCb, Ownership, OnePlace
      <3>3. \A u \in Threads : task[u].fiber # f
        BY <2>5, <1>t, FreshFiber DEF ResumeCb, Ownership, OnePlace
      <3>4. \A e \in Queue : e.fiber # f
        <4> SUFFICES ASSUME NEW i \in 1..Len(mtask) PROVE mtask[i].fiber # f
          BY DEF TypeOK, Queue, ToSet
        <4> QED BY <2>5, <1>t, FreshFiber DEF ResumeCb, Ownership, OnePlace
      <3>5. Queue' = Queue /\ UNCHANGED home /\ mcb' = [mcb EXCEPT ![f] = task[t].cb]
            /\ taskfb' = [taskfb EXCEPT ![t] = f] /\ task' = [task EXCEPT ![t] = NoTask] /\ task[t].cb # None
        BY <2>5 DEF ResumeCb, Queue
      <3>6. \A e \in Queue : CbHome(e.cb, e.thr)' /\ FiberHome(e.fiber, e.thr)'
        BY <1>t, <3>4, <3>5, QueueType DEF HomeShape, CbHome, FiberHome, Task
      <3>7. ASSUME NEW u \in Threads
            PROVE  /\ task'[u].thr \in {AnyThread, u}
                   /\ CbHome(task[u].cb, task[u].thr)' /\ FiberHome(task[u].fiber, task[u].thr)'
        BY <1>t, <3>3, <3>5 DEF HomeShape, CbHome, FiberHome, NoTask, Task
      <3>8. ASSUME NEW u \in Threads PROVE FiberHome(taskfb[u], AnyThread)'
        <4>1. CASE u = t
          BY <1>t, <3>5, <4>1 DEF HomeShape, CbHome, FiberHome
        <4>2. CASE u # t
          BY <1>t, <3>2, <3>5, <4>2 DEF HomeShape, FiberHome
        <4> QED BY <4>1, <4>2
      <3> QED BY <3>5, <3>6, <3>7, <3>8 DEF HomeShape
    <2>6. CASE YieldToReady(t)
      <3>q. Queue' = Queue /\ UNCHANGED <<task, taskfb, mcb, home>>
        BY <2>6 DEF YieldToReady, Queue
      <3> QED BY <3>q DEF HomeShape, CbHome, FiberHome
    <2>7. ASSUME NEW outcome \in {"TERM", "EXCEPT"}, Coroutine(t, outcome) PROVE HomeShape'
      <3>q. Queue' = Queue /\ UNCHANGED <<task, taskfb, home>> /\ \A f \in Fibers : mcb'[f] \in {mcb[f], None}
        BY <2>7, <1>t DEF Coroutine, Queue, ThreadShape
      <3> QED BY <1>t, <3>q, QueueType DEF HomeShape, CbHome, FiberHome, Task
    <2>8. CASE SwitchOut(t)
      <3>q. Queue' = Queue /\ UNCHANGED <<task, taskfb, mcb, home>>
        BY <2>8 DEF SwitchOut, Queue
      <3> QED BY <3>q DEF HomeShape, CbHome, FiberHome
    <2>9. CASE Deactivate(t)
      <3>q. Queue' = Queue /\ UNCHANGED <<task, taskfb, mcb, home>>
        BY <2>9 DEF Deactivate, Queue
      <3> QED BY <3>q DEF HomeShape, CbHome, FiberHome
    <2>10. CASE CheckReady(t)
      <3>q. Queue' = Queue /\ UNCHANGED <<task, taskfb, mcb, home>>
        BY <2>10 DEF CheckReady, Queue
      <3> QED BY <3>q DEF HomeShape, CbHome, FiberHome
    <2>11. CASE CheckReuse(t)
      <3>q. Queue' = Queue /\ UNCHANGED <<task, taskfb, home>> /\ \A f \in Fibers : mcb'[f] \in {mcb[f], None}
        BY <2>11, <1>t DEF CheckReuse, Queue, ThreadShape
      <3> QED BY <1>t, <3>q, QueueType DEF HomeShape, CbHome, FiberHome, Task
    <2>12. CASE CheckForget(t)
      <3>q. Queue' = Queue /\ UNCHANGED <<taskfb, mcb, home>> /\ task' = [task EXCEPT ![t] = NoTask]
        BY <2>12 DEF CheckForget, Queue
      <3> QED BY <1>t, <3>q DEF HomeShape, CbHome, FiberHome, NoTask
    <2>13. CASE Resubmit(t)
      <3>1. /\ Resumed(t) \in Fibers /\ task[t].cb = None
            /\ task[t].fiber = None => task[t].thr = AnyThread /\ Resumed(t) = taskfb[t]
            /\ Queue' = Queue \cup {FiberTask(Resumed(t), task[t].thr)}
        BY <2>13, ResubmitFacts
      <3>2. UNCHANGED <<mcb, home>> /\ task' = [task EXCEPT ![t] = NoTask]
            /\ \A u \in Threads : taskfb'[u] \in {taskfb[u], None}
        BY <2>13, <1>t DEF Resubmit
      <3>3. FiberHome(Resumed(t), task[t].thr)
        BY <3>1 DEF HomeShape, Resumed
      <3>4. \A e \in Queue' : CbHome(e.cb, e.thr) /\ FiberHome(e.fiber, e.thr)
        BY <3>1, <3>3 DEF HomeShape, FiberTask, CbHome
      <3>5. \A u \in Threads :
              /\ task'[u].thr \in {AnyThread, u}
              /\ CbHome(task'[u].cb, task'[u].thr) /\ FiberHome(task'[u].fiber, task'[u].thr)
              /\ FiberHome(taskfb'[u], AnyThread)
        BY <1>t, <3>2 DEF HomeShape, NoTask, CbHome, FiberHome
      <3> QED BY <3>2, <3>4, <3>5 DEF HomeShape, CbHome, FiberHome
    <2>14. CASE GoIdle(t)
      <3>q. Queue' = Queue /\ UNCHANGED <<task, taskfb, mcb, home>>
        BY <2>14 DEF GoIdle, Queue
      <3> QED BY <3>q DEF HomeShape, CbHome, FiberHome
    <2>15. CASE WaitOnce(t)
      <3>q. Queue' = Queue /\ UNCHANGED <<task, taskfb, mcb, home>>
        BY <2>15 DEF WaitOnce, Queue
      <3> QED BY <3>q DEF HomeShape, CbHome, FiberHome
    <2>16. CASE Exit(t)
      <3>q. Queue' = Queue /\ UNCHANGED <<task, mcb, home>> /\ taskfb' = [taskfb EXCEPT ![t] = None]
        BY <2>16 DEF Exit, Queue
      <3> QED BY <1>t, <3>q DEF HomeShape, CbHome, FiberHome
    <2> QED BY <1>8, NoParkSteps, <2>1, <2>2, <2>3, <2>4, <2>5, <2>6, <2>7, <2>8,
               <2>9, <2>10, <2>11, <2>12, <2>13, <2>14, <2>15, <2>16
            DEF ThreadStep
  <1> QED BY NoParkSteps, <1>1, <1>2, <1>3, <1>4, <1>5, <1>6, <1>7, <1>8 DEF Next, Submit, Finished

(* A work is handed on from submit() to the queue, to a thread, to a fiber *)
(* and round again, until its Coroutine is over.                           *)
LEMMA WorkShapeNext ==
    ASSUME CanPark = {}, \A g \in Groups : Len(g) = 1,
           Base, Ownership, BodyShape, WorkShape, [Next]_vars
    PROVE  WorkShape'
  <1> USE NullAssumption
          DEF vars, schedVars, fiberVars, threadVars, ctlVars, workVars
  <1> TypeOK /\ ThreadShape
    BY DEF Base
  <1>t. /\ mcb \in [Fibers -> Works \cup {None}] /\ home \in [Works -> Threads \cup {AnyThread}]
        /\ pc \in [Threads -> ThreadPC] /\ task \in [Threads -> Task]
        /\ taskfb \in [Threads -> Fibers \cup {None}] /\ sub \subseteq Works
        /\ state \in [Fibers -> FiberState \cup {"FREE"}]
    BY DEF TypeOK
  <1>1. CASE UNCHANGED vars
    <2>q. Queue' = Queue
      BY <1>1 DEF Queue
    <2> QED BY <1>1, <2>q DEF WorkShape, Located
  <1>2. ASSUME NEW w \in Works, NEW thr \in CbTargets, SubmitCb(w, thr)
        PROVE  WorkShape'
    <2>e. CbTask(w, thr) \in Task
      BY <1>2, <1>t, TargetsAssumption DEF SubmitCb, CbTask, Task
    <2>q. Queue' = Queue \cup {CbTask(w, thr)}
      BY <1>2, <2>e, QueueAppend DEF SubmitCb
    <2> SUFFICES ASSUME NEW v \in sub' \ done' PROVE Located(v)'
      BY DEF WorkShape
    <2>1. UNCHANGED <<task, taskfb, pc, mcb, state, done>> /\ sub' = sub \cup {w}
      BY <1>2 DEF SubmitCb
    <2>2. CASE v = w
      <3>1. CbTask(w, thr) \in Queue' /\ CbTask(w, thr).cb = v
        BY <2>q, <2>2 DEF CbTask
      <3> QED BY <3>1 DEF Located
    <2>3. CASE v # w
      <3>1. Located(v)
        BY <2>1, <2>3 DEF WorkShape
      <3> QED BY <2>1, <2>q, <3>1 DEF Located
    <2> QED BY <2>2, <2>3
  <1>3. ASSUME NEW w \in Works, NEW f \in Fibers, NEW thr \in FiberTargets, SubmitFiber(w, f, thr)
        PROVE  WorkShape'
    <2>e. FiberTask(f, thr) \in Task
      BY <1>3, <1>t, TargetsAssumption DEF SubmitFiber, FiberTask, Task
    <2>q. Queue' = Queue \cup {FiberTask(f, thr)}
      BY <1>3, <2>e, QueueAppend DEF SubmitFiber
    <2> SUFFICES ASSUME NEW v \in sub' \ done' PROVE Located(v)'
      BY DEF WorkShape
    <2>1. UNCHANGED <<task, taskfb, pc, done>> /\ sub' = sub \cup {w} /\ state[f] = "FREE"
          /\ mcb' = [mcb EXCEPT ![f] = w] /\ state' = [state EXCEPT ![f] = "INIT"]
      BY <1>3 DEF SubmitFiber
    <2>2. CASE v = w
      <3>1. mcb'[f] = v /\ state'[f] = "INIT" /\ FiberTask(f, thr) \in Queue' /\ FiberTask(f, thr).fiber = f
        BY <1>t, <2>1, <2>q, <2>2 DEF FiberTask
      <3> QED BY <3>1 DEF Located
    <2>3. CASE v # w
      <3>1. Located(v)
        BY <2>1, <2>3 DEF WorkShape
      <3> QED BY <1>t, <2>1, <2>q, <3>1 DEF Located
    <2> QED BY <2>2, <2>3
  <1>4. ASSUME NEW g \in Groups, SubmitGroup(g)
        PROVE  WorkShape'
    <2> SUFFICES ASSUME NEW v \in sub' \ done' PROVE Located(v)'
      BY DEF WorkShape
    <2>q. Queue' = Queue \cup {CbTask(g[1], AnyThread)}
      BY <1>4, QueueGroup DEF SubmitGroup
    <2>1. UNCHANGED <<task, taskfb, pc, mcb, state, done>> /\ sub' = sub \cup {g[k] : k \in 1..Len(g)}
      BY <1>4 DEF SubmitGroup
    <2>2. Len(g) = 1 /\ sub' = sub \cup {g[1]}
      BY <2>1
    <2>3. CASE v = g[1]
      <3>1. CbTask(g[1], AnyThread) \in Queue' /\ CbTask(g[1], AnyThread).cb = v
        BY <2>q, <2>3 DEF CbTask
      <3> QED BY <3>1 DEF Located
    <2>4. CASE v # g[1]
      <3>1. Located(v)
        BY <2>1, <2>2, <2>4 DEF WorkShape
      <3> QED BY <2>1, <2>q, <3>1 DEF Located
    <2> QED BY <2>3, <2>4
  <1>5. CASE Start
    <2> SUFFICES ASSUME NEW v \in sub' \ done' PROVE Located(v)'
      BY DEF WorkShape
    <2>1. Queue' = Queue /\ v \in sub \ done /\ UNCHANGED <<state, mcb>>
      BY <1>5 DEF Start, Queue
    <2>2. Located(v) /\ v # None
      BY <1>t, <2>1 DEF WorkShape
    <2>3. \A u \in Threads : pc[u] = "off" /\ task[u] = NoTask
      BY <1>5 DEF Start, ThreadShape, Ownership, LocalShape
    <2> QED BY <2>1, <2>2, <2>3 DEF Located, AfterResumePC, NoTask
  <1>6. CASE Stop
    <2> SUFFICES ASSUME NEW v \in sub' \ done' PROVE Located(v)'
      BY DEF WorkShape
    <2>1. Queue' = Queue /\ v \in sub \ done
      BY <1>6 DEF Stop, Queue
    <2>2. Located(v) /\ v # None
      BY <1>t, <2>1 DEF WorkShape
    <2> QED BY <1>6, <1>t, <2>1, <2>2 DEF Stop, Located, AfterResumePC
  <1>7. CASE Join
    <2> SUFFICES ASSUME NEW v \in sub' \ done' PROVE Located(v)'
      BY DEF WorkShape
    <2>1. Queue' = Queue /\ v \in sub \ done
      BY <1>7 DEF Join, Queue
    <2>2. Located(v) /\ v # None
      BY <1>t, <2>1 DEF WorkShape
    <2> QED BY <1>7, <1>t, <2>1, <2>2 DEF Join, Located, AfterResumePC
  <1>8. ASSUME NEW t \in Threads, ThreadStep(t)
        PROVE  WorkShape'
    <2>l. LocalShape(t)
      BY DEF Ownership
    <2>1. CASE Take(t)
      <3>1. PICK e \in Task :
              /\ e \in Queue /\ Takeable(t, e) /\ task' = [task EXCEPT ![t] = e]
              /\ Queue' \subseteq Queue /\ Queue \subseteq Queue' \cup {e}
        BY <2>1, QueueTake
      <3> SUFFICES ASSUME NEW v \in sub' \ done' PROVE Located(v)'
        BY DEF WorkShape
      <3>2. UNCHANGED <<taskfb, mcb, state, sub, done>> /\ pc[t] = "scan" /\ pc' = [pc EXCEPT ![t] = "taken"]
        BY <2>1 DEF Take
      <3>3. Located(v) /\ v # None /\ task[t] = NoTask
        BY <1>t, <2>l, <3>2 DEF WorkShape, LocalShape
      <3> QED BY <1>t, <3>1, <3>2, <3>3 DEF Located, AfterResumePC, NoTask
    <2>2. CASE FindNothing(t)
      <3> SUFFICES ASSUME NEW v \in sub' \ done' PROVE Located(v)'
        BY DEF WorkShape
      <3>1. Queue' = Queue /\ v \in sub \ done
        BY <2>2 DEF FindNothing, Queue
      <3>2. Located(v) /\ v # None
        BY <1>t, <3>1 DEF WorkShape
      <3> QED BY <2>2, <1>t, <3>1, <3>2 DEF FindNothing, Located, AfterResumePC
    <2>3. CASE Activate(t)
      <3> SUFFICES ASSUME NEW v \in sub' \ done' PROVE Located(v)'
        BY DEF WorkShape
      <3>1. Queue' = Queue /\ v \in sub \ done
        BY <2>3 DEF Activate, Queue
      <3>2. Located(v) /\ v # None
        BY <1>t, <3>1 DEF WorkShape
      <3> QED BY <2>3, <1>t, <3>1, <3>2 DEF Activate, Located, AfterResumePC
    <2>4. CASE ResumeFiber(t)
      <3> SUFFICES ASSUME NEW v \in sub' \ done' PROVE Located(v)'
        BY DEF WorkShape
      <3>1. Queue' = Queue /\ v \in sub \ done
        BY <2>4 DEF ResumeFiber, Queue
      <3>2. Located(v) /\ v # None
        BY <1>t, <3>1 DEF WorkShape
      <3> QED BY <2>4, <1>t, <3>1, <3>2 DEF ResumeFiber, Located, AfterResumePC
    <2>5. ASSUME NEW f \in Fibers, ResumeCb(t, f) PROVE WorkShape'
      <3> SUFFICES ASSUME NEW v \in sub' \ done' PROVE Located(v)'
        BY DEF WorkShape
      <3>1. UNCHANGED <<sub, done>> /\ Queue' = Queue /\ mcb' = [mcb EXCEPT ![f] = task[t].cb]
            /\ taskfb' = [taskfb EXCEPT ![t] = f] /\ task' = [task EXCEPT ![t] = NoTask]
            /\ state' = [state EXCEPT ![f] = "RUNNING"] /\ pc[t] = "resume" /\ pc' = [pc EXCEPT ![t] = "run"]
        BY <2>5 DEF ResumeCb, Queue
      <3>2. Located(v) /\ v # None
        BY <1>t, <3>1 DEF WorkShape
      <3>3. task[t].fiber = None
        BY <2>5, <2>l DEF ResumeCb, LocalShape, EntryShape
      <3>4. state[f] = "FREE" \/ mcb[f] = None
        BY <2>5, <3>1 DEF ResumeCb, BodyShape, AfterResumePC
      <3>5. CASE v = task[t].cb
        BY <1>t, <3>1, <3>5 DEF Located, AfterResumePC
      <3>6. CASE v # task[t].cb
        BY <1>t, <3>1, <3>2, <3>3, <3>4, <3>6 DEF Located, AfterResumePC
      <3> QED BY <3>5, <3>6
    <2>6. CASE YieldToReady(t)
      <3> SUFFICES ASSUME NEW v \in sub' \ done' PROVE Located(v)'
        BY DEF WorkShape
      <3>1. Queue' = Queue /\ v \in sub \ done
        BY <2>6 DEF YieldToReady, Queue
      <3>2. Located(v) /\ v # None
        BY <1>t, <3>1 DEF WorkShape
      <3> QED BY <2>6, <1>t, <3>1, <3>2 DEF YieldToReady, Located, AfterResumePC
    <2>7. ASSUME NEW outcome \in {"TERM", "EXCEPT"}, Coroutine(t, outcome) PROVE WorkShape'
      <3> SUFFICES ASSUME NEW v \in sub' \ done' PROVE Located(v)'
        BY DEF WorkShape
      <3>1. Queue' = Queue /\ UNCHANGED <<task, taskfb, sub>> /\ done' = done \cup {mcb[cur[t]]}
            /\ state' = [state EXCEPT ![cur[t]] = outcome] /\ pc[t] = "run" /\ pc' = [pc EXCEPT ![t] = "switch"]
            /\ \A f \in Fibers : f # cur[t] => mcb'[f] = mcb[f]
        BY <2>7, <1>t DEF Coroutine, Queue
      <3>2. Located(v) /\ v # mcb[cur[t]]
        BY <3>1 DEF WorkShape
      <3> QED BY <1>t, <3>1, <3>2 DEF Located, AfterResumePC
    <2>8. CASE SwitchOut(t)
      <3> SUFFICES ASSUME NEW v \in sub' \ done' PROVE Located(v)'
        BY DEF WorkShape
      <3>1. Queue' = Queue /\ v \in sub \ done
        BY <2>8 DEF SwitchOut, Queue
      <3>2. Located(v) /\ v # None
        BY <1>t, <3>1 DEF WorkShape
      <3> QED BY <2>8, <1>t, <3>1, <3>2 DEF SwitchOut, Located, AfterResumePC
    <2>9. CASE Deactivate(t)
      <3> SUFFICES ASSUME NEW v \in sub' \ done' PROVE Located(v)'
        BY DEF WorkShape
      <3>1. Queue' = Queue /\ v \in sub \ done
        BY <2>9 DEF Deactivate, Queue
      <3>2. Located(v) /\ v # None
        BY <1>t, <3>1 DEF WorkShape
      <3> QED BY <2>9, <1>t, <3>1, <3>2 DEF Deactivate, Located, AfterResumePC
    <2>10. CASE CheckReady(t)
      <3> SUFFICES ASSUME NEW v \in sub' \ done' PROVE Located(v)'
        BY DEF WorkShape
      <3>1. Queue' = Queue /\ v \in sub \ done
        BY <2>10 DEF CheckReady, Queue
      <3>2. Located(v) /\ v # None
        BY <1>t, <3>1 DEF WorkShape
      <3> QED BY <2>10, <1>t, <3>1, <3>2 DEF CheckReady, Located, AfterResumePC
    <2>11. CASE CheckReuse(t)
      <3> SUFFICES ASSUME NEW v \in sub' \ done' PROVE Located(v)'
        BY DEF WorkShape
      <3>1. Queue' = Queue /\ UNCHANGED <<task, taskfb, sub, done>> /\ state' = [state EXCEPT ![taskfb[t]] = "INIT"]
            /\ mcb' = [mcb EXCEPT ![taskfb[t]] = None] /\ state[taskfb[t]] \in {"TERM", "EXCEPT"}
            /\ pc' = [pc EXCEPT ![t] = "scan"]
        BY <2>11 DEF CheckReuse, Queue
      <3>2. Located(v) /\ v # None
        BY <1>t, <3>1 DEF WorkShape
      <3> QED BY <1>t, <3>1, <3>2 DEF Located
    <2>12. CASE CheckForget(t)
      <3> SUFFICES ASSUME NEW v \in sub' \ done' PROVE Located(v)'
        BY DEF WorkShape
      <3>1. Queue' = Queue /\ UNCHANGED <<mcb, state, taskfb, sub, done>> /\ task' = [task EXCEPT ![t] = NoTask]
            /\ pc[t] = "check" /\ pc' = [pc EXCEPT ![t] = "scan"] /\ task[t].fiber # None /\ state[task[t].fiber] # "READY"
        BY <2>12 DEF CheckForget, Queue
      <3>2. Located(v) /\ v # None
        BY <1>t, <3>1 DEF WorkShape
      <3>3. task[t].cb = None /\ state[task[t].fiber] \in {"TERM", "EXCEPT"}
        BY <2>l, <3>1 DEF LocalShape, AfterResumePC, Resumed
      <3>4. taskfb[t] # None => mcb[taskfb[t]] = None
        BY <3>1 DEF BodyShape
      <3> QED BY <1>t, <3>1, <3>2, <3>3, <3>4 DEF Located
    <2>13. CASE Resubmit(t)
      <3>1. /\ Resumed(t) \in Fibers /\ task[t].cb = None
            /\ task[t].fiber = None => task[t].thr = AnyThread /\ Resumed(t) = taskfb[t]
            /\ Queue' = Queue \cup {FiberTask(Resumed(t), task[t].thr)}
        BY <2>13, ResubmitFacts
      <3> SUFFICES ASSUME NEW v \in sub' \ done' PROVE Located(v)'
        BY DEF WorkShape
      <3>2. UNCHANGED <<mcb, state, sub, done>> /\ task' = [task EXCEPT ![t] = NoTask]
            /\ taskfb' = [taskfb EXCEPT ![t] = IF task[t].fiber # None THEN @ ELSE None]
            /\ pc[t] = "resubmit" /\ pc' = [pc EXCEPT ![t] = "scan"]
        BY <2>13 DEF Resubmit
      <3>3. Located(v) /\ v # None
        BY <1>t, <3>2 DEF WorkShape
      <3>4. \A f \in Fibers : task[t].fiber = f \/ (taskfb[t] = f /\ task[t].fiber = None)
              => \E e \in Queue' : e.fiber = f
        <4> DEFINE x == FiberTask(Resumed(t), task[t].thr)
        <4>1. x \in Queue' /\ x.fiber = Resumed(t)
          BY <3>1 DEF FiberTask
        <4> HIDE DEF x
        <4> QED BY <4>1 DEF Resumed
      <3>5. taskfb[t] # None /\ task[t].fiber # None => mcb[taskfb[t]] = None
        BY DEF BodyShape
      <3> QED BY <1>t, <3>1, <3>2, <3>3, <3>4, <3>5 DEF Located
    <2>14. CASE GoIdle(t)
      <3> SUFFICES ASSUME NEW v \in sub' \ done' PROVE Located(v)'
        BY DEF WorkShape
      <3>1. Queue' = Queue /\ v \in sub \ done
        BY <2>14 DEF GoIdle, Queue
      <3>2. Located(v) /\ v # None
        BY <1>t, <3>1 DEF WorkShape
      <3> QED BY <2>14, <1>t, <3>1, <3>2 DEF GoIdle, Located, AfterResumePC
    <2>15. CASE WaitOnce(t)
      <3> SUFFICES ASSUME NEW v \in sub' \ done' PROVE Located(v)'
        BY DEF WorkShape
      <3>1. Queue' = Queue /\ v \in sub \ done
        BY <2>15 DEF WaitOnce, Queue
      <3>2. Located(v) /\ v # None
        BY <1>t, <3>1 DEF WorkShape
      <3> QED BY <2>15, <1>t, <3>1, <3>2 DEF WaitOnce, Located, AfterResumePC
    <2>16. CASE Exit(t)
      <3> SUFFICES ASSUME NEW v \in sub' \ done' PROVE Located(v)'
        BY DEF WorkShape
      <3>1. Queue' = Queue /\ v \in sub \ done
        BY <2>16 DEF Exit, Queue
      <3>2. Located(v) /\ v # None
        BY <1>t, <3>1 DEF WorkShape
      <3> QED BY <2>16, <1>t, <3>1, <3>2 DEF Exit, Located, AfterResumePC
    <2> QED BY <1>8, NoParkSteps, <2>1, <2>2, <2>3, <2>4, <2>5, <2>6, <2>7, <2>8,
               <2>9, <2>10, <2>11, <2>12, <2>13, <2>14, <2>15, <2>16
            DEF ThreadStep
  <1> QED BY NoParkSteps, <1>1, <1>2, <1>3, <1>4, <1>5, <1>6, <1>7, <1>8 DEF Next, Submit, Finished

-----------------------------------------------------------------------------
(* The invariant of works that do not park. *)
WorkInv == SubShape /\ BodyShape /\ HomeShape /\ DrainShape

(* The invariant of the works of a scheduler whose works do not park. *)
LEMMA WorkInvariant ==
    ASSUME CanPark = {}
    PROVE  Spec => [](Base /\ Ownership /\ WorkInv)
  <1>1. Init => WorkInv
    <2> SUFFICES ASSUME Init PROVE WorkInv
      OBVIOUS
    <2>1. Queue = {}
      BY DEF Init, Queue, ToSet
    <2>2. SubShape /\ BodyShape
      BY <2>1 DEF Init, SubShape, BodyShape, NoTask
    <2>3. HomeShape
      BY <2>1 DEF Init, HomeShape, CbHome, FiberHome, NoTask
    <2>4. DrainShape
      BY <2>1 DEF Init, DrainShape
    <2> QED BY <2>2, <2>3, <2>4 DEF WorkInv
  <1>2. Base /\ Ownership /\ WorkInv /\ [Next]_vars => WorkInv'
    <2> SUFFICES ASSUME Base, Ownership, WorkInv, [Next]_vars PROVE WorkInv'
      OBVIOUS
    <2>1. SubShape /\ BodyShape /\ HomeShape /\ DrainShape
      BY DEF WorkInv
    <2>2. SubShape'
      BY <2>1, SubShapeNext
    <2>3. BodyShape'
      BY <2>1, BodyShapeNext
    <2>4. HomeShape'
      BY <2>1, HomeShapeNext
    <2>5. DrainShape'
      BY <2>1, DrainShapeNext
    <2> QED BY <2>2, <2>3, <2>4, <2>5 DEF WorkInv
  <1> QED BY <1>1, <1>2, OwnershipInvariant, PTL DEF Spec

(* If no work parks and callbacks are submitted without a thread id, a     *)
(* fiber submitted with one runs on that thread only, through every yield  *)
(* and resubmission.                                                       *)
THEOREM PinnedStaysHome ==
    (CanPark = {} /\ CbTargets \subseteq {AnyThread}) => (Spec => []PinnedRunsHome)
  <1> SUFFICES ASSUME CanPark = {}, CbTargets \subseteq {AnyThread} PROVE Spec => []PinnedRunsHome
    OBVIOUS
  <1>1. Base /\ Ownership /\ WorkInv => PinnedRunsHome
    <2> SUFFICES ASSUME Base, Ownership, WorkInv, NEW t \in Threads, pc[t] = "run", mcb[cur[t]] # None
                 PROVE  home[mcb[cur[t]]] \in {AnyThread, t}
      BY DEF PinnedRunsHome
    <2>1. cur[t] = Resumed(t) /\ Resumed(t) # None
      BY DEF Ownership, LocalShape, AfterResumePC
    <2>2. /\ task[t].thr \in {AnyThread, t} /\ FiberHome(task[t].fiber, task[t].thr)
          /\ FiberHome(taskfb[t], AnyThread)
      BY DEF WorkInv, HomeShape
    <2> QED BY <2>1, <2>2 DEF Resumed, FiberHome
  <1> QED BY <1>1, WorkInvariant, PTL

(* Where every work is, if submit(begin, end) gets one callback at a time. *)
LEMMA WorksLocated ==
    ASSUME CanPark = {}, \A g \in Groups : Len(g) = 1
    PROVE  Spec => [](Base /\ Ownership /\ WorkInv /\ WorkShape)
  <1>1. Init => WorkShape
    BY DEF Init, WorkShape
  <1>2. Base /\ Ownership /\ WorkInv /\ WorkShape /\ [Next]_vars => WorkShape'
    BY WorkShapeNext DEF WorkInv
  <1> QED BY <1>1, <1>2, WorkInvariant, PTL DEF Spec

(* If no work parks and submit(begin, end) gets one callback at a time, a  *)
(* submitted work that has not finished is in m_task, in a thread's hands  *)
(* or the body of a fiber that one of them refers to.                      *)
THEOREM NothingIsLost ==
    (CanPark = {} /\ \A g \in Groups : Len(g) = 1) => (Spec => []NoLostWork)
  <1> SUFFICES ASSUME CanPark = {}, \A g \in Groups : Len(g) = 1 PROVE Spec => []NoLostWork
    OBVIOUS
  <1>1. Base /\ WorkShape => NoLostWork
    <2> SUFFICES ASSUME Base, WorkShape, NEW w \in sub \ done
                 PROVE  \/ \E i \in 1..Len(mtask) : mtask[i].cb = w
                        \/ \E t \in Threads : task[t].cb = w
                        \/ \E f \in Fibers : /\ mcb[f] = w
                                             /\ state[f] \notin {"FREE", "TERM", "EXCEPT"}
                                             /\ Reachable(f)
      BY DEF NoLostWork
    <2>1. Located(w)
      BY DEF WorkShape
    <2>2. \A e \in Queue : \E i \in 1..Len(mtask) : mtask[i] = e
      BY DEF Base, TypeOK, Queue, ToSet
    <2>3. AfterResumePC \subseteq ActivePC \cup {"check", "resubmit"}
      BY DEF AfterResumePC, ActivePC
    <2> QED BY <2>1, <2>2, <2>3 DEF Located, Reachable
  <1> QED BY <1>1, WorksLocated, PTL

(* Under the same conditions stop() returns only when every work has       *)
(* finished, save those bound to a thread that had left run().             *)
THEOREM StopLeavesNothing ==
    (CanPark = {} /\ \A g \in Groups : Len(g) = 1) => (Spec => StopDrains)
  <1> SUFFICES ASSUME CanPark = {}, \A g \in Groups : Len(g) = 1 PROVE Spec => StopDrains
    OBVIOUS
  <1> DEFINE Drained == ctl = "stopping" /\ ctl' = "off" =>
                          /\ sub \ done \subseteq Stranded
                          /\ \A i \in 1..Len(mtask) : mtask[i].thr # AnyThread
  <1>1. Base /\ Ownership /\ WorkInv /\ WorkShape /\ [Next]_vars => [Drained]_vars
    <2> SUFFICES ASSUME Base, Ownership, WorkInv, WorkShape, Next, ctl = "stopping", ctl' = "off"
                 PROVE  /\ sub \ done \subseteq Stranded
                        /\ \A i \in 1..Len(mtask) : mtask[i].thr # AnyThread
      OBVIOUS
    <2> USE NullAssumption
    <2>1. Join
      BY DEF Next, Submit, ThreadStep, SubmitCb, SubmitFiber, SubmitGroup, Wake, Start, Stop, Finished, vars, ctlVars,
             Take, FindNothing, Activate, ResumeFiber, ResumeCb, YieldToReady, Register, YieldToHold, Coroutine,
             SwitchOut, Deactivate, CheckReady, CheckReuse, CheckRelease, CheckForget, Resubmit, GoIdle, WaitOnce, Exit
    <2>2. \A t \in Threads : pc[t] = "off" /\ task[t] = NoTask
      BY <2>1 DEF Join, Ownership, LocalShape
    <2>3. \A e \in Queue : e.thr # AnyThread
      BY <2>2 DEF WorkInv, DrainShape, Watching
    <2>4. \A i \in 1..Len(mtask) : mtask[i] \in Queue
      BY DEF Base, TypeOK, Queue, ToSet
    <2>5. ASSUME NEW w \in sub \ done PROVE w \in Stranded
      <3>1. Located(w) /\ w \in Works /\ w # None /\ home[w] \in Threads \cup {AnyThread}
        BY DEF WorkShape, Base, TypeOK
      <3>2. \/ \E e \in Queue : e.cb = w
            \/ \E f \in Fibers, e \in Queue : e.fiber = f /\ mcb[f] = w
        BY <2>2, <3>1 DEF Located, NoTask, AfterResumePC
      <3>3. home[w] # AnyThread
        BY <2>3, <3>1, <3>2 DEF WorkInv, HomeShape, CbHome, FiberHome
      <3> QED BY <2>2, <3>1, <3>3 DEF Stranded
    <2> QED BY <2>3, <2>4, <2>5
  <1> QED BY <1>1, WorksLocated, PTL DEF Spec, StopDrains

=============================================================================
