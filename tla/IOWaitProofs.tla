---------------------------- MODULE IOWaitProofs ----------------------------
(* Machine-checked proofs about what the threads of IOManager::wait rely   *)
(* on: IOWait, the queue and the notification, and TimerManager, the       *)
(* deadlines, in the second half.                                          *)
EXTENDS IOWait, TimerManager, FiniteSetTheorems, SequenceTheorems, WellFoundedInduction, TLAPS

(* What m_task holds, after erase(iter). *)
LEMMA RemoveAtFacts ==
    ASSUME NEW S, NEW s \in Seq(S), NEW i \in 1..Len(s)
    PROVE  /\ RemoveAt(s, i) \in Seq(S)
           /\ Len(RemoveAt(s, i)) = Len(s) - 1
           /\ \A k \in 1..(Len(s) - 1) :
                RemoveAt(s, i)[k] = IF k < i THEN s[k] ELSE s[k + 1]
  <1>1. SubSeq(s, 1, i - 1) \in Seq(S) /\ Len(SubSeq(s, 1, i - 1)) = i - 1
        /\ \A k \in 1..(i-1) : SubSeq(s, 1, i - 1)[k] = s[k]
    OBVIOUS
  <1>2. SubSeq(s, i + 1, Len(s)) \in Seq(S) /\ Len(SubSeq(s, i + 1, Len(s))) = Len(s) - i
        /\ \A k \in 1..(Len(s) - i) : SubSeq(s, i + 1, Len(s))[k] = s[i + k]
    OBVIOUS
  <1> DEFINE a == SubSeq(s, 1, i - 1)
             b == SubSeq(s, i + 1, Len(s))
  <1>3. RemoveAt(s, i) = a \o b
    BY DEF RemoveAt
  <1>4. /\ a \o b \in Seq(S)
        /\ Len(a \o b) = Len(a) + Len(b)
        /\ \A k \in 1..(Len(a) + Len(b)) :
             (a \o b)[k] = IF k <= Len(a) THEN a[k] ELSE b[k - Len(a)]
    <2> a \in Seq(S) /\ b \in Seq(S)
      BY <1>1, <1>2
    <2> HIDE DEF a, b
    <2> QED BY ConcatProperties
  <1> HIDE DEF a, b
  <1>6. Len(a) = i - 1 /\ Len(b) = Len(s) - i /\ Len(s) \in Nat /\ i \in Nat
    BY <1>1, <1>2 DEF a, b
  <1>7. \A k \in 1..(Len(s) - 1) :
          (a \o b)[k] = IF k < i THEN s[k] ELSE s[k + 1]
    <2> TAKE k \in 1..(Len(s) - 1)
    <2>1. CASE k < i
      BY <2>1, <1>1, <1>4, <1>6 DEF a
    <2>2. CASE ~(k < i)
      <3>1. k - (i - 1) \in 1..(Len(s) - i) /\ i + (k - (i - 1)) = k + 1
        BY <2>2, <1>6
      <3>2. b[k - (i - 1)] = s[k + 1]
        BY <3>1, <1>2 DEF b
      <3> QED BY <2>2, <3>2, <1>4, <1>6
    <2> QED BY <2>1, <2>2
  <1> QED BY <1>3, <1>4, <1>6, <1>7

(* What it holds after a thread of run() has taken a task. *)
LEMMA TakeFacts ==
    ASSUME NEW S, NEW s \in Seq(S), IsInjective(s), NEW i \in 1..Len(s)
    PROVE  /\ RemoveAt(s, i) \in Seq(S)
           /\ Len(RemoveAt(s, i)) = Len(s) - 1
           /\ IsInjective(RemoveAt(s, i))
           /\ s[i] \in ToSet(s) /\ s[i] \in S
           /\ ToSet(RemoveAt(s, i)) = ToSet(s) \ {s[i]}
  <1> DEFINE u == RemoveAt(s, i)
  <1>1. /\ u \in Seq(S) /\ Len(u) = Len(s) - 1
        /\ \A k \in 1..(Len(s) - 1) : u[k] = IF k < i THEN s[k] ELSE s[k + 1]
    BY RemoveAtFacts
  <1> HIDE DEF u
  <1>2. Len(s) \in Nat /\ DOMAIN s = 1..Len(s) /\ DOMAIN u = 1..(Len(s) - 1)
    BY <1>1
  <1>3. IsInjective(u)
    <2> SUFFICES ASSUME NEW x \in DOMAIN u, NEW y \in DOMAIN u, u[x] = u[y] PROVE x = y
      BY DEF IsInjective
    <2>1. \A k, m \in 1..Len(s) : s[k] = s[m] => k = m
      BY <1>2 DEF IsInjective
    <2>2. Len(s) \in Nat /\ i \in Nat /\ x \in Nat /\ y \in Nat
          /\ x \in 1..(Len(s) - 1) /\ y \in 1..(Len(s) - 1)
      BY <1>2
    <2>3. u[x] = (IF x < i THEN s[x] ELSE s[x + 1]) /\ u[y] = (IF y < i THEN s[y] ELSE s[y + 1])
      BY <1>1, <2>2
    <2> DEFINE from(k) == IF k < i THEN k ELSE k + 1
    <2>4. from(x) \in 1..Len(s) /\ from(y) \in 1..Len(s)
      BY <2>2
    <2>5. s[from(x)] = s[from(y)]
      <3>1. u[x] = s[from(x)] /\ u[y] = s[from(y)]
        BY <2>3
      <3> QED BY <3>1
    <2>6. from(x) = from(y)
      <3> HIDE DEF from
      <3> QED BY <2>1, <2>4, <2>5
    <2> QED BY <2>2, <2>6
  <1>4. ASSUME NEW k \in 1..Len(s), k # i PROVE s[k] \in ToSet(u)
    <2>1. CASE k < i
      <3>1. k \in DOMAIN u /\ u[k] = s[k]
        BY <1>1, <1>2, <2>1
      <3> QED BY <3>1 DEF ToSet
    <2>2. CASE k > i
      <3>1. k - 1 \in DOMAIN u /\ u[k - 1] = s[k]
        BY <1>1, <1>2, <2>2
      <3> QED BY <3>1 DEF ToSet
    <2> QED BY <1>2, <1>4, <2>1, <2>2
  <1>5. ASSUME NEW k \in DOMAIN u PROVE u[k] \in ToSet(s) \ {s[i]}
    <2>1. CASE k < i
      BY <1>1, <1>2, <2>1 DEF ToSet, IsInjective
    <2>2. CASE ~(k < i)
      BY <1>1, <1>2, <2>2 DEF ToSet, IsInjective
    <2> QED BY <2>1, <2>2
  <1>6. ToSet(u) = ToSet(s) \ {s[i]}
    <2>1. ToSet(u) \subseteq ToSet(s) \ {s[i]}
      BY <1>5 DEF ToSet
    <2>2. ToSet(s) \ {s[i]} \subseteq ToSet(u)
      <3> SUFFICES ASSUME NEW k \in DOMAIN s, s[k] # s[i] PROVE s[k] \in ToSet(u)
        BY DEF ToSet
      <3> QED BY <1>2, <1>4
    <2> QED BY <2>1, <2>2
  <1>7. s[i] \in ToSet(s) /\ s[i] \in S
    BY <1>2 DEF ToSet
  <1> QED BY <1>1, <1>3, <1>6, <1>7 DEF u

(* After push_back, and after the loop of submit(begin, end). *)
LEMMA ConcatFacts ==
    ASSUME NEW S, NEW s \in Seq(S), NEW u \in Seq(S)
    PROVE  /\ s \o u \in Seq(S)
           /\ ToSet(s \o u) = ToSet(s) \cup ToSet(u)
           /\ IsInjective(s) /\ IsInjective(u) /\ ToSet(s) \cap ToSet(u) = {}
                => IsInjective(s \o u)
           /\ s \o u = <<>> => s = <<>> /\ u = <<>>
  <1> DEFINE c == s \o u
  <1>1. /\ c \in Seq(S) /\ Len(c) = Len(s) + Len(u)
        /\ \A k \in 1..(Len(s) + Len(u)) : c[k] = IF k <= Len(s) THEN s[k] ELSE u[k - Len(s)]
    BY ConcatProperties
  <1> HIDE DEF c
  <1>2. /\ Len(s) \in Nat /\ Len(u) \in Nat
        /\ DOMAIN s = 1..Len(s) /\ DOMAIN u = 1..Len(u) /\ DOMAIN c = 1..(Len(s) + Len(u))
    BY <1>1
  <1>3. ASSUME NEW k \in DOMAIN s PROVE k \in DOMAIN c /\ c[k] = s[k]
    BY <1>1, <1>2
  <1>4. ASSUME NEW k \in DOMAIN u PROVE Len(s) + k \in DOMAIN c /\ c[Len(s) + k] = u[k]
    BY <1>1, <1>2
  <1>5. ASSUME NEW k \in DOMAIN c
        PROVE  \/ k \in DOMAIN s /\ c[k] = s[k]
               \/ k - Len(s) \in DOMAIN u /\ c[k] = u[k - Len(s)]
    BY <1>1, <1>2
  <1>6. ToSet(c) = ToSet(s) \cup ToSet(u)
    <2>1. ToSet(c) \subseteq ToSet(s) \cup ToSet(u)
      BY <1>5 DEF ToSet
    <2>2. ToSet(s) \subseteq ToSet(c)
      BY <1>3 DEF ToSet
    <2>3. ToSet(u) \subseteq ToSet(c)
      BY <1>4 DEF ToSet
    <2> QED BY <2>1, <2>2, <2>3
  <1>7. ASSUME IsInjective(s), IsInjective(u), ToSet(s) \cap ToSet(u) = {}
        PROVE  IsInjective(c)
    <2>1. \A k \in DOMAIN s, m \in DOMAIN u : s[k] # u[m]
      BY <1>7 DEF ToSet
    <2> SUFFICES ASSUME NEW k \in DOMAIN c, NEW m \in DOMAIN c, c[k] = c[m] PROVE k = m
      BY DEF IsInjective
    <2>2. k \in Nat /\ m \in Nat
      BY <1>2
    <2>3. CASE k \in DOMAIN s /\ c[k] = s[k]
      BY <1>5, <1>7, <2>1, <2>3 DEF IsInjective
    <2>4. CASE k - Len(s) \in DOMAIN u /\ c[k] = u[k - Len(s)]
      <3>1. m - Len(s) \in DOMAIN u /\ c[m] = u[m - Len(s)]
        BY <1>5, <2>1, <2>4
      <3>2. k - Len(s) = m - Len(s)
        BY <1>7, <2>4, <3>1 DEF IsInjective
      <3> QED BY <1>2, <2>2, <3>2
    <2> QED BY <1>5, <2>3, <2>4
  <1>8. c = <<>> => s = <<>> /\ u = <<>>
    BY <1>1, <1>2
  <1> QED BY <1>1, <1>6, <1>7, <1>8 DEF c

(* After push_back of one task. *)
LEMMA AppendFacts ==
    ASSUME NEW S, NEW s \in Seq(S), NEW w \in S
    PROVE  /\ Append(s, w) \in Seq(S) /\ Append(s, w) # <<>>
           /\ ToSet(Append(s, w)) = ToSet(s) \cup {w}
           /\ IsInjective(s) /\ w \notin ToSet(s) => IsInjective(Append(s, w))
  <1> DEFINE u == <<w>>
  <1>1. Append(s, w) = s \o u /\ u \in Seq(S) /\ u # <<>>
    OBVIOUS
  <1>2. ToSet(u) = {w} /\ IsInjective(u)
    BY DEF ToSet, IsInjective
  <1> HIDE DEF u
  <1>3. /\ s \o u \in Seq(S)
        /\ ToSet(s \o u) = ToSet(s) \cup ToSet(u)
        /\ IsInjective(s) /\ IsInjective(u) /\ ToSet(s) \cap ToSet(u) = {} => IsInjective(s \o u)
        /\ s \o u = <<>> => s = <<>> /\ u = <<>>
    BY <1>1, ConcatFacts
  <1> QED BY <1>1, <1>2, <1>3

(* The callbacks that submit(begin, end) pushes are some of those that     *)
(* listExpiredCb returned, each once.                                      *)
LEMMA PushedFacts ==
    ASSUME NEW S, IsFiniteSet(S), NEW cbs \in SetToSeqs(S)
    PROVE  /\ Pushed(cbs) \in Seq(S)
           /\ IsInjective(Pushed(cbs))
           /\ ToSet(Pushed(cbs)) \subseteq S
           /\ S = {} => Pushed(cbs) = <<>>
  <1>1. Cardinality(S) \in Nat
    BY FS_CardinalityType
  <1>2. /\ cbs \in [1..Cardinality(S) -> S]
        /\ \A i, j \in 1..Cardinality(S) : i # j => cbs[i] # cbs[j]
    BY DEF SetToSeqs
  <1>3. cbs \in Seq(S) /\ DOMAIN cbs = 1..Cardinality(S) /\ Len(cbs) = Cardinality(S)
    BY <1>1, <1>2
  <1>4. IsInjective(cbs) /\ ToSet(cbs) \subseteq S
    BY <1>2, <1>3 DEF IsInjective, ToSet
  <1>5. cbs # <<>> => Head(cbs) \in S
    BY <1>3
  <1>6. S = {} => cbs = <<>>
    BY <1>3, FS_EmptySet
  <1>7. cbs # <<>> => <<Head(cbs)>> \in Seq(S) /\ IsInjective(<<Head(cbs)>>) /\ ToSet(<<Head(cbs)>>) \subseteq S
    BY <1>5 DEF IsInjective, ToSet
  <1> QED BY <1>3, <1>4, <1>6, <1>7 DEF Pushed

-----------------------------------------------------------------------------
(* How moving one thread to another place of run() changes a head count. *)
LEMMA CountStep ==
    ASSUME NEW p \in [Threads -> ThreadPC], NEW t \in Threads, NEW A,
           NEW q, \A u \in Threads : u # t => q[u] = p[u]
    PROVE  /\ Count(p, A) \in Nat
           /\ Count(q, A) \in Nat
           /\ p[t] \in A => Count(p, A) > 0
           /\ (p[t] \in A <=> q[t] \in A) => Count(q, A) = Count(p, A)
           /\ (p[t] \in A /\ q[t] \notin A) => Count(q, A) = Count(p, A) - 1
           /\ (p[t] \notin A /\ q[t] \in A) => Count(q, A) = Count(p, A) + 1
  <1> DEFINE S == {u \in Threads : p[u] \in A}
             T == {u \in Threads : q[u] \in A}
  <1>1. IsFiniteSet(S) /\ IsFiniteSet(T)
    BY IOWaitAssumption, FS_Subset, S \subseteq Threads, T \subseteq Threads
  <1>2. Cardinality(S) \in Nat /\ Cardinality(T) \in Nat
    BY <1>1, FS_CardinalityType
  <1>3. p[t] \in A => S # {}
    OBVIOUS
  <1>4. p[t] \in A => Cardinality(S) > 0
    BY <1>1, <1>2, <1>3, FS_EmptySet
  <1>5. (p[t] \in A <=> q[t] \in A) => T = S
    OBVIOUS
  <1>6. (p[t] \in A /\ q[t] \notin A) => T = S \ {t} /\ t \in S
    OBVIOUS
  <1>7. (p[t] \notin A /\ q[t] \in A) => T = S \cup {t} /\ t \notin S
    OBVIOUS
  <1>8. (p[t] \in A /\ q[t] \notin A) => Cardinality(T) = Cardinality(S) - 1
    BY <1>6, <1>1, FS_RemoveElement
  <1>9. (p[t] \notin A /\ q[t] \in A) => Cardinality(T) = Cardinality(S) + 1
    BY <1>7, <1>1, FS_AddElement
  <1> QED BY <1>2, <1>4, <1>5, <1>8, <1>9 DEF Count

(* notify() leaves a byte with its edge in the pipe, or has found nobody.  *)
LEMMA NotifyFacts ==
    ASSUME TypeOK, Notify
    PROVE  /\ bytes' \in 0..MaxBytes /\ edge' \in BOOLEAN /\ missed' \in BOOLEAN
           /\ Tickled' \/ missed'
  <1>1. CASE idle = 0
    BY <1>1 DEF Notify, TypeOK
  <1>2. CASE idle # 0
    <2>1. bytes' \in 0..MaxBytes /\ bytes' > 0
      BY <1>2, IOWaitAssumption DEF Notify, TypeOK
    <2>2. edge' = TRUE /\ missed' = FALSE
      BY <1>2 DEF Notify
    <2> QED BY <2>1, <2>2 DEF Tickled
  <1> QED BY <1>1, <1>2

(* The counters under a step that moves one thread only. *)
LEMMA CountersStep ==
    ASSUME TypeOK, CountersExact, NEW t \in Threads,
           \A u \in Threads : u # t => pc'[u] = pc[u],
           active' = IF pc[t] = "run"
                        THEN IF pc'[t] = "run" THEN active ELSE active - 1
                        ELSE IF pc'[t] = "run" THEN active + 1 ELSE active,
           idle' = IF pc[t] \in IdlePC
                      THEN IF pc'[t] \in IdlePC THEN idle ELSE idle - 1
                      ELSE IF pc'[t] \in IdlePC THEN idle + 1 ELSE idle
    PROVE  CountersExact' /\ active' \in Nat /\ idle' \in Nat
  <1>1. pc \in [Threads -> ThreadPC] /\ active \in Nat /\ idle \in Nat
    BY DEF TypeOK
  <1>2. \A A :
          /\ Count(pc, A) \in Nat
          /\ Count(pc', A) \in Nat
          /\ (pc[t] \in A <=> pc'[t] \in A) => Count(pc', A) = Count(pc, A)
          /\ (pc[t] \in A /\ pc'[t] \notin A) => Count(pc', A) = Count(pc, A) - 1
          /\ (pc[t] \notin A /\ pc'[t] \in A) => Count(pc', A) = Count(pc, A) + 1
    <2> TAKE A
    <2> QED BY <1>1, CountStep
  <1>3. active' = Count(pc', {"run"}) /\ active' \in Nat
    BY <1>1, <1>2 DEF CountersExact
  <1>4. idle' = Count(pc', IdlePC) /\ idle' \in Nat
    BY <1>1, <1>2 DEF CountersExact
  <1> QED BY <1>3, <1>4 DEF CountersExact

(* Every path through run() and wait() balances its increments. *)
LEMMA CountersNext ==
    ASSUME TypeOK, CountersExact, [Next]_vars
    PROVE  CountersExact' /\ active' \in Nat /\ idle' \in Nat
  <1> USE DEF queueVars, wakeVars, armVars, thrVars, ctlVars, endVars, Goto
  <1>1. CASE UNCHANGED vars
    BY <1>1 DEF vars, TypeOK, CountersExact, Count
  <1>2. CASE Stop
    BY <1>2 DEF Stop, TypeOK, CountersExact, Count
  <1>3. CASE SubmitNotify
    BY <1>3 DEF SubmitNotify, TypeOK, CountersExact, Count
  <1>4. CASE StopNotify
    BY <1>4 DEF StopNotify, TypeOK, CountersExact, Count
  <1>5. CASE Join
    BY <1>5 DEF Join, TypeOK, CountersExact, Count
  <1>6. ASSUME NEW w \in Works,
               Submit(w) \/ ArmTimer(w) \/ AddEvent(w) \/ Expire(w) \/ BecomeReady(w)
        PROVE  CountersExact' /\ active' \in Nat /\ idle' \in Nat
    <2>1. CASE Submit(w)
      BY <2>1 DEF Submit, TypeOK, CountersExact, Count
    <2>2. CASE ArmTimer(w)
      BY <2>2 DEF ArmTimer, Overtake, TypeOK, CountersExact, Count
    <2>3. CASE AddEvent(w)
      BY <2>3 DEF AddEvent, Overtake, TypeOK, CountersExact, Count
    <2>4. CASE Expire(w)
      BY <2>4 DEF Expire, TypeOK, CountersExact, Count
    <2>5. CASE BecomeReady(w)
      BY <2>5 DEF BecomeReady, TypeOK, CountersExact, Count
    <2> QED BY <1>6, <2>1, <2>2, <2>3, <2>4, <2>5
  <1>7. ASSUME NEW t \in Threads, ThreadStep(t)
        PROVE  CountersExact' /\ active' \in Nat /\ idle' \in Nat
    <2>1. CASE TakeTask(t)
      <3>1. pc' \in [Threads -> ThreadPC]
        BY <2>1 DEF TakeTask, TypeOK, ThreadPC
      <3> QED BY <2>1, <3>1, CountersStep DEF TakeTask, TypeOK, IdlePC
    <2>2. CASE TakeNone(t)
      <3>1. pc' \in [Threads -> ThreadPC]
        BY <2>2 DEF TakeNone, TypeOK, ThreadPC
      <3> QED BY <2>2, <3>1, CountersStep DEF TakeNone, TypeOK, IdlePC
    <2>3. CASE NotifyMe(t)
      <3>1. pc' \in [Threads -> ThreadPC]
        BY <2>3 DEF NotifyMe, TypeOK, ThreadPC
      <3> QED BY <2>3, <3>1, CountersStep DEF NotifyMe, TypeOK, IdlePC
    <2>4. CASE StartWork(t)
      <3>1. pc' \in [Threads -> ThreadPC]
        BY <2>4 DEF StartWork, TypeOK, ThreadPC
      <3> QED BY <2>4, <3>1, CountersStep DEF StartWork, TypeOK, IdlePC
    <2>5. CASE EndWork(t)
      <3>1. pc' \in [Threads -> ThreadPC]
        BY <2>5 DEF EndWork, TypeOK, ThreadPC
      <3> QED BY <2>5, <3>1, CountersStep DEF EndWork, TypeOK, IdlePC
    <2>6. CASE Leave(t)
      <3>1. pc' \in [Threads -> ThreadPC]
        BY <2>6 DEF Leave, TypeOK, ThreadPC
      <3> QED BY <2>6, <3>1, CountersStep DEF Leave, TypeOK, IdlePC
    <2>7. CASE GoIdle(t)
      <3>1. pc' \in [Threads -> ThreadPC]
        BY <2>7 DEF GoIdle, TypeOK, ThreadPC
      <3> QED BY <2>7, <3>1, CountersStep DEF GoIdle, TypeOK, IdlePC
    <2>8. CASE WaitOver(t)
      <3>1. pc' \in [Threads -> ThreadPC]
        BY <2>8 DEF WaitOver, TypeOK, ThreadPC
      <3> QED BY <2>8, <3>1, CountersStep DEF WaitOver, TypeOK, IdlePC
    <2>9. CASE WaitMore(t)
      <3>1. pc' \in [Threads -> ThreadPC]
        BY <2>9 DEF WaitMore, TypeOK, ThreadPC
      <3> QED BY <2>9, <3>1, CountersStep DEF WaitMore, TypeOK, IdlePC
    <2>10. CASE EpollReport(t)
      <3>1. pc' \in [Threads -> ThreadPC]
        BY <2>10 DEF EpollReport, TypeOK, ThreadPC
      <3> QED BY <2>10, <3>1, CountersStep DEF EpollReport, TypeOK, IdlePC
    <2>11. CASE EpollTimeout(t)
      <3>1. pc' \in [Threads -> ThreadPC]
        BY <2>11 DEF EpollTimeout, TypeOK, ThreadPC
      <3> QED BY <2>11, <3>1, CountersStep DEF EpollTimeout, TypeOK, IdlePC
    <2>12. CASE Collect(t)
      <3>1. pc' \in [Threads -> ThreadPC]
        BY <2>12 DEF Collect, TypeOK, ThreadPC
      <3> QED BY <2>12, <3>1, CountersStep DEF Collect, TypeOK, IdlePC
    <2>13. CASE CollectNotify(t)
      <3>1. pc' \in [Threads -> ThreadPC]
        BY <2>13 DEF CollectNotify, TypeOK, ThreadPC
      <3> QED BY <2>13, <3>1, CountersStep DEF CollectNotify, TypeOK, IdlePC
    <2>14. CASE Drain(t)
      BY <2>14 DEF Drain, TypeOK, CountersExact, Count
    <2>15. ASSUME NEW w \in Io, Dispatch(t, w) PROVE CountersExact' /\ active' \in Nat /\ idle' \in Nat
      BY <2>15 DEF Dispatch, TypeOK, CountersExact, Count
    <2>16. ASSUME NEW w \in Io, SkipReport(t, w) PROVE CountersExact' /\ active' \in Nat /\ idle' \in Nat
      BY <2>16 DEF SkipReport, TypeOK, CountersExact, Count
    <2>17. CASE BackToRun(t)
      <3>1. pc' \in [Threads -> ThreadPC]
        BY <2>17 DEF BackToRun, TypeOK, ThreadPC
      <3> QED BY <2>17, <3>1, CountersStep DEF BackToRun, TypeOK, IdlePC
    <2>18. CASE ReadTimers(t)
      <3>1. pc' \in [Threads -> ThreadPC]
        BY <2>18 DEF ReadTimers, TypeOK, ThreadPC
      <3> QED BY <2>18, <3>1, CountersStep DEF ReadTimers, TypeOK, IdlePC
    <2>19. CASE ReadPending(t)
      <3>1. pc' \in [Threads -> ThreadPC]
        BY <2>19 DEF ReadPending, TypeOK, ThreadPC
      <3> QED BY <2>19, <3>1, CountersStep DEF ReadPending, TypeOK, IdlePC
    <2>20. CASE SubmitExpired(t)
      <3>1. pc' \in [Threads -> ThreadPC]
        BY <2>20 DEF SubmitExpired, TypeOK, ThreadPC
      <3> QED BY <2>20, <3>1, CountersStep DEF SubmitExpired, TypeOK, IdlePC
    <2> QED BY <1>7, <2>1, <2>2, <2>3, <2>4, <2>5, <2>6, <2>7, <2>8, <2>9,
               <2>10, <2>11, <2>12, <2>13, <2>14, <2>15, <2>16, <2>17,
               <2>18, <2>19, <2>20
            DEF ThreadStep
  <1> QED BY <1>1, <1>2, <1>3, <1>4, <1>5, <1>6, <1>7 DEF Next, User, Finished

(* Every step of the users, the clock, the peers and the threads keeps the *)
(* types.                                                                  *)
LEMMA TypeNext ==
    ASSUME TypeOK, CountersExact, ThreadShape, [Next]_vars
    PROVE  TypeOK'
  <1> USE DEF queueVars, wakeVars, armVars, thrVars, ctlVars, endVars, Goto
  <1>1. CASE UNCHANGED vars
    BY <1>1 DEF vars, TypeOK, ThreadPC
  <1>2. CASE Stop
    <2>1. Cardinality(Threads) \in Nat
      BY IOWaitAssumption, FS_CardinalityType
    <2> QED BY <1>2, <2>1 DEF Stop, TypeOK, ThreadPC
  <1>3. CASE SubmitNotify
    BY <1>3, NotifyFacts DEF SubmitNotify, TypeOK, ThreadPC
  <1>4. CASE StopNotify
    BY <1>4, NotifyFacts DEF StopNotify, TypeOK, ThreadPC
  <1>5. CASE Join
    BY <1>5, CountersNext DEF Join, TypeOK, ThreadPC
  <1>6. ASSUME NEW w \in Works,
               Submit(w) \/ ArmTimer(w) \/ AddEvent(w) \/ Expire(w) \/ BecomeReady(w)
        PROVE  TypeOK'
    <2>1. CASE Submit(w)
      BY <2>1, AppendFacts DEF Submit, TypeOK, ThreadPC
    <2>2. CASE ArmTimer(w)
      <3>1. IsFiniteSet(timers \cup {w})
        BY FS_AddElement DEF TypeOK
      <3> QED BY <2>2, <3>1 DEF ArmTimer, Overtake, TypeOK, ThreadPC
    <2>3. CASE AddEvent(w)
      BY <2>3, CountersNext DEF AddEvent, Overtake, TypeOK, ThreadPC
    <2>4. CASE Expire(w)
      BY <2>4, CountersNext DEF Expire, TypeOK, ThreadPC
    <2>5. CASE BecomeReady(w)
      BY <2>5, CountersNext DEF BecomeReady, TypeOK, ThreadPC
    <2> QED BY <1>6, <2>1, <2>2, <2>3, <2>4, <2>5
  <1>7. ASSUME NEW t \in Threads, ThreadStep(t)
        PROVE  TypeOK'
    <2>1. CASE TakeTask(t)
      <3>1. PICK i \in 1..Len(mtask) :
              job' = [job EXCEPT ![t] = mtask[i]] /\ mtask' = RemoveAt(mtask, i)
        BY <2>1 DEF TakeTask
      <3>2. mtask[i] \in Works /\ mtask' \in Seq(Works)
        BY <3>1, RemoveAtFacts DEF TypeOK
      <3> QED BY <2>1, <3>1, <3>2 DEF TakeTask, TypeOK, ThreadPC
    <2>2. CASE TakeNone(t)
      BY <2>2, CountersNext DEF TakeNone, TypeOK, ThreadPC
    <2>3. CASE NotifyMe(t)
      BY <2>3, NotifyFacts DEF NotifyMe, TypeOK, ThreadPC
    <2>4. CASE StartWork(t)
      BY <2>4, CountersNext DEF StartWork, TypeOK, ThreadPC
    <2>5. CASE EndWork(t)
      <3>1. job[t] \in Works
        BY <2>5 DEF EndWork, TypeOK, ThreadShape
      <3> QED BY <2>5, <3>1, CountersNext DEF EndWork, TypeOK, ThreadPC
    <2>6. CASE Leave(t)
      BY <2>6, CountersNext DEF Leave, TypeOK, ThreadPC
    <2>7. CASE GoIdle(t)
      BY <2>7, CountersNext DEF GoIdle, TypeOK, ThreadPC
    <2>8. CASE WaitOver(t)
      BY <2>8, CountersNext DEF WaitOver, TypeOK, ThreadPC
    <2>9. CASE WaitMore(t)
      BY <2>9, CountersNext DEF WaitMore, TypeOK, ThreadPC
    <2>10. CASE EpollReport(t)
      <3>1. got' \in [Threads -> [tickle : BOOLEAN, ios : SUBSET Io, cbs : SUBSET Timed]]
        BY <2>10 DEF EpollReport, TypeOK, Tickled
      <3>2. bytes' \in 0..MaxBytes
        BY <2>10, IOWaitAssumption DEF EpollReport, TypeOK
      <3>3. active' \in Nat /\ idle' \in Nat
        BY CountersNext
      <3>4. mtask' \in Seq(Works) /\ pc' \in [Threads -> ThreadPC]
        BY <2>10 DEF EpollReport, TypeOK, ThreadPC
      <3>5. \A u \in Threads : IsFiniteSet(got'[u].cbs)
        BY <2>10, FS_EmptySet DEF EpollReport, TypeOK
      <3> QED BY <2>10, <3>1, <3>2, <3>3, <3>4, <3>5 DEF EpollReport, TypeOK
    <2>11. CASE EpollTimeout(t)
      BY <2>11, CountersNext DEF EpollTimeout, TypeOK, ThreadPC
    <2>12. CASE Collect(t)
      <3>1. IsFiniteSet(due) /\ IsFiniteSet(timers \ due) /\ due \subseteq Timed
        BY FS_Subset DEF TypeOK
      <3>2. got' \in [Threads -> [tickle : BOOLEAN, ios : SUBSET Io, cbs : SUBSET Timed]]
        BY <2>12, <3>1 DEF Collect, TypeOK
      <3>3. \A u \in Threads : IsFiniteSet(got'[u].cbs)
        BY <2>12, <3>1 DEF Collect, TypeOK
      <3>4. pc' \in [Threads -> ThreadPC] /\ mtask' \in Seq(Works)
        BY <2>12 DEF Collect, TypeOK, ThreadPC
      <3> QED BY <2>12, <3>1, <3>2, <3>3, <3>4 DEF Collect, TypeOK
    <2>13. CASE CollectNotify(t)
      BY <2>13, NotifyFacts DEF CollectNotify, TypeOK, ThreadPC
    <2>14. CASE Drain(t)
      <3>1. got' \in [Threads -> [tickle : BOOLEAN, ios : SUBSET Io, cbs : SUBSET Timed]]
        BY <2>14 DEF Drain, TypeOK, Tickled
      <3>2. bytes' \in 0..MaxBytes
        BY <2>14, IOWaitAssumption DEF Drain, TypeOK
      <3>3. active' \in Nat /\ idle' \in Nat
        BY CountersNext
      <3>4. mtask' \in Seq(Works) /\ pc' \in [Threads -> ThreadPC]
        BY <2>14 DEF Drain, TypeOK, ThreadPC
      <3>5. \A u \in Threads : IsFiniteSet(got'[u].cbs)
        BY <2>14 DEF Drain, TypeOK
      <3> QED BY <2>14, <3>1, <3>2, <3>3, <3>4, <3>5 DEF Drain, TypeOK
    <2>15. ASSUME NEW w \in Io, Dispatch(t, w) PROVE TypeOK'
      <3>1. mtask' \in Seq(Works)
        BY <2>15, AppendFacts DEF Dispatch, TypeOK, Works
      <3>2. bytes' \in 0..MaxBytes /\ edge' \in BOOLEAN /\ missed' \in BOOLEAN
        BY <2>15, NotifyFacts DEF Dispatch, TypeOK
      <3>3. got' \in [Threads -> [tickle : BOOLEAN, ios : SUBSET Io, cbs : SUBSET Timed]]
            /\ \A u \in Threads : IsFiniteSet(got'[u].cbs)
        BY <2>15 DEF Dispatch, TypeOK
      <3> QED BY <2>15, <3>1, <3>2, <3>3 DEF Dispatch, TypeOK, ThreadPC
    <2>16. ASSUME NEW w \in Io, SkipReport(t, w) PROVE TypeOK'
      <3>1. got' \in [Threads -> [tickle : BOOLEAN, ios : SUBSET Io, cbs : SUBSET Timed]]
            /\ \A u \in Threads : IsFiniteSet(got'[u].cbs)
        BY <2>16 DEF SkipReport, TypeOK
      <3> QED BY <2>16, <3>1, CountersNext DEF SkipReport, TypeOK, ThreadPC
    <2>17. CASE BackToRun(t)
      BY <2>17, CountersNext DEF BackToRun, TypeOK, ThreadPC
    <2>18. CASE ReadTimers(t)
      BY <2>18, CountersNext DEF ReadTimers, TypeOK, ThreadPC
    <2>19. CASE ReadPending(t)
      BY <2>19, CountersNext DEF ReadPending, TypeOK, ThreadPC
    <2>20. CASE SubmitExpired(t)
      <3>1. PICK cbs \in SetToSeqs(got[t].cbs) :
              mtask' = mtask \o Pushed(cbs) /\ dropped' = dropped \cup (got[t].cbs \ ToSet(Pushed(cbs)))
        BY <2>20 DEF SubmitExpired
      <3>2. IsFiniteSet(got[t].cbs) /\ got[t].cbs \subseteq Works
        BY DEF TypeOK, Works
      <3>3. Pushed(cbs) \in Seq(Works)
        BY <3>2, PushedFacts
      <3>4. mtask' \in Seq(Works)
        BY <3>1, <3>3, ConcatFacts DEF TypeOK
      <3>5. got' \in [Threads -> [tickle : BOOLEAN, ios : SUBSET Io, cbs : SUBSET Timed]]
            /\ \A u \in Threads : IsFiniteSet(got'[u].cbs)
        BY <2>20, FS_EmptySet DEF SubmitExpired, TypeOK
      <3> QED BY <2>20, <3>1, <3>2, <3>4, <3>5 DEF SubmitExpired, TypeOK, ThreadPC
    <2> QED BY <1>7, <2>1, <2>2, <2>3, <2>4, <2>5, <2>6, <2>7, <2>8, <2>9,
               <2>10, <2>11, <2>12, <2>13, <2>14, <2>15, <2>16, <2>17,
               <2>18, <2>19, <2>20
            DEF ThreadStep
  <1> QED BY <1>1, <1>2, <1>3, <1>4, <1>5, <1>6, <1>7 DEF Next, User, Finished

(* A thread holds a task from the scan to the end of the task, and a       *)
(* report of epoll_wait until it has handled all of it.                    *)
LEMMA ThreadShapeNext ==
    ASSUME TypeOK, ThreadShape, [Next]_vars
    PROVE  ThreadShape'
  <1> USE DEF queueVars, wakeVars, armVars, thrVars, ctlVars, endVars, Goto
  <1>1. CASE UNCHANGED vars
    BY <1>1 DEF vars, TypeOK, ThreadShape
  <1>2. CASE Stop
    BY <1>2 DEF Stop, TypeOK, ThreadShape
  <1>3. CASE SubmitNotify
    BY <1>3 DEF SubmitNotify, TypeOK, ThreadShape
  <1>4. CASE StopNotify
    BY <1>4 DEF StopNotify, TypeOK, ThreadShape
  <1>5. CASE Join
    BY <1>5 DEF Join, TypeOK, ThreadShape
  <1>6. ASSUME NEW w \in Works,
               Submit(w) \/ ArmTimer(w) \/ AddEvent(w) \/ Expire(w) \/ BecomeReady(w)
        PROVE  ThreadShape'
    <2>1. CASE Submit(w)
      BY <2>1 DEF Submit, TypeOK, ThreadShape
    <2>2. CASE ArmTimer(w)
      BY <2>2 DEF ArmTimer, TypeOK, ThreadShape
    <2>3. CASE AddEvent(w)
      BY <2>3 DEF AddEvent, TypeOK, ThreadShape
    <2>4. CASE Expire(w)
      BY <2>4 DEF Expire, TypeOK, ThreadShape
    <2>5. CASE BecomeReady(w)
      BY <2>5 DEF BecomeReady, TypeOK, ThreadShape
    <2> QED BY <1>6, <2>1, <2>2, <2>3, <2>4, <2>5
  <1>7. ASSUME NEW t \in Threads, ThreadStep(t)
        PROVE  ThreadShape'
    <2>1. CASE TakeTask(t)
      <3>1. PICK i \in 1..Len(mtask) :
              job' = [job EXCEPT ![t] = mtask[i]] /\ mtask' = RemoveAt(mtask, i)
              /\ pc' = [pc EXCEPT ![t] = IF Len(mtask) > 1 THEN "notify" ELSE "start"]
        BY <2>1 DEF TakeTask
      <3>2. mtask[i] \in Works /\ mtask[i] # NoWork
        BY <3>1, IOWaitAssumption DEF TypeOK
      <3> QED BY <2>1, <3>1, <3>2 DEF TakeTask, TypeOK, ThreadShape
    <2>2. CASE TakeNone(t)
      BY <2>2 DEF TakeNone, TypeOK, ThreadShape
    <2>3. CASE NotifyMe(t)
      <3>1. UNCHANGED <<job, wdone, got>> /\ pc[t] = "notify"
            /\ pc' = [pc EXCEPT ![t] = IF job[t] = NoWork THEN "empty" ELSE "start"]
        BY <2>3 DEF NotifyMe
      <3> QED BY <3>1 DEF TypeOK, ThreadShape
    <2>4. CASE StartWork(t)
      BY <2>4 DEF StartWork, TypeOK, ThreadShape
    <2>5. CASE EndWork(t)
      BY <2>5 DEF EndWork, TypeOK, ThreadShape
    <2>6. CASE Leave(t)
      BY <2>6 DEF Leave, TypeOK, ThreadShape
    <2>7. CASE GoIdle(t)
      BY <2>7 DEF GoIdle, TypeOK, ThreadShape
    <2>8. CASE WaitOver(t)
      BY <2>8 DEF WaitOver, TypeOK, ThreadShape
    <2>9. CASE WaitMore(t)
      BY <2>9 DEF WaitMore, TypeOK, ThreadShape
    <2>10. CASE EpollReport(t)
      BY <2>10 DEF EpollReport, TypeOK, ThreadShape, Nothing
    <2>11. CASE EpollTimeout(t)
      BY <2>11 DEF EpollTimeout, TypeOK, ThreadShape
    <2>12. CASE Collect(t)
      BY <2>12 DEF Collect, TypeOK, ThreadShape, Nothing
    <2>13. CASE CollectNotify(t)
      BY <2>13 DEF CollectNotify, TypeOK, ThreadShape
    <2>14. CASE Drain(t)
      BY <2>14 DEF Drain, TypeOK, ThreadShape, Nothing
    <2>15. ASSUME NEW w \in Io, Dispatch(t, w) PROVE ThreadShape'
      BY <2>15 DEF Dispatch, TypeOK, ThreadShape, Nothing
    <2>16. ASSUME NEW w \in Io, SkipReport(t, w) PROVE ThreadShape'
      BY <2>16 DEF SkipReport, TypeOK, ThreadShape, Nothing
    <2>17. CASE BackToRun(t)
      BY <2>17 DEF BackToRun, TypeOK, ThreadShape, Nothing
    <2>18. CASE ReadTimers(t)
      BY <2>18 DEF ReadTimers, TypeOK, ThreadShape
    <2>19. CASE ReadPending(t)
      BY <2>19 DEF ReadPending, TypeOK, ThreadShape
    <2>20. CASE SubmitExpired(t)
      BY <2>20 DEF SubmitExpired, TypeOK, ThreadShape, Nothing
    <2> QED BY <1>7, <2>1, <2>2, <2>3, <2>4, <2>5, <2>6, <2>7, <2>8, <2>9,
               <2>10, <2>11, <2>12, <2>13, <2>14, <2>15, <2>16, <2>17,
               <2>18, <2>19, <2>20
            DEF ThreadStep
  <1> QED BY <1>1, <1>2, <1>3, <1>4, <1>5, <1>6, <1>7 DEF Next, User, Finished

(* What is left after a task has been taken was there before. *)
LEMMA RemoveAtIn ==
    ASSUME NEW s \in Seq(Works), NEW i \in 1..Len(s)
    PROVE  ToSet(RemoveAt(s, i)) \subseteq ToSet(s)
  <1>1. /\ RemoveAt(s, i) \in Seq(Works) /\ Len(RemoveAt(s, i)) = Len(s) - 1
        /\ \A k \in 1..(Len(s) - 1) : RemoveAt(s, i)[k] = IF k < i THEN s[k] ELSE s[k + 1]
    BY RemoveAtFacts
  <1>2. DOMAIN RemoveAt(s, i) = 1..(Len(s) - 1) /\ DOMAIN s = 1..Len(s) /\ Len(s) \in Nat
    BY <1>1
  <1> QED BY <1>1, <1>2 DEF ToSet

(* A timer or an event that canStop() did not count was armed behind its   *)
(* back, and once it has been true only expired timers and events arrive.  *)
LEMMA StopShapeNext ==
    ASSUME TypeOK, ThreadShape, StopShape, [Next]_vars
    PROVE  StopShape'
  <1> USE DEF queueVars, wakeVars, armVars, thrVars, ctlVars, endVars, Goto
  <1>1. CASE UNCHANGED vars
    BY <1>1 DEF vars, TypeOK, StopShape, Queue
  <1>2. CASE Stop
    BY <1>2 DEF Stop, TypeOK, StopShape, Queue
  <1>3. CASE SubmitNotify
    BY <1>3 DEF SubmitNotify, TypeOK, StopShape, Queue
  <1>4. CASE StopNotify
    BY <1>4 DEF StopNotify, TypeOK, StopShape, Queue
  <1>5. CASE Join
    BY <1>5 DEF Join, TypeOK, StopShape, Queue
  <1>6. ASSUME NEW w \in Works,
               Submit(w) \/ ArmTimer(w) \/ AddEvent(w) \/ Expire(w) \/ BecomeReady(w)
        PROVE  StopShape'
    <2>1. CASE Submit(w)
      <3>1. \A u \in Threads : ~wdone[u]
        BY <2>1 DEF Submit, StopShape
      <3> QED BY <2>1, <3>1 DEF Submit, TypeOK, StopShape
    <2>2. CASE ArmTimer(w)
      <3>1. \A u \in Threads : ~wdone[u]
        BY <2>2 DEF ArmTimer, StopShape
      <3>2. overtaken \subseteq overtaken'
            /\ ((\E u \in Threads : pc[u] \in {"pending", "quit"}) => w \in overtaken')
        BY <2>2 DEF ArmTimer, Overtake
      <3> QED BY <2>2, <3>1, <3>2 DEF ArmTimer, TypeOK, StopShape
    <2>3. CASE AddEvent(w)
      <3>1. \A u \in Threads : ~wdone[u]
        BY <2>3 DEF AddEvent, StopShape
      <3>2. overtaken \subseteq overtaken'
            /\ ((\E u \in Threads : pc[u] \in {"quit"}) => w \in overtaken')
        BY <2>3 DEF AddEvent, Overtake
      <3> QED BY <2>3, <3>1, <3>2 DEF AddEvent, TypeOK, StopShape
    <2>4. CASE Expire(w)
      BY <2>4 DEF Expire, TypeOK, StopShape, Queue
    <2>5. CASE BecomeReady(w)
      BY <2>5 DEF BecomeReady, TypeOK, StopShape, Queue
    <2> QED BY <1>6, <2>1, <2>2, <2>3, <2>4, <2>5
  <1>7. ASSUME NEW t \in Threads, ThreadStep(t)
        PROVE  StopShape'
    <2>1. CASE TakeTask(t)
      <3>1. PICK i \in 1..Len(mtask) :
              job' = [job EXCEPT ![t] = mtask[i]] /\ mtask' = RemoveAt(mtask, i)
              /\ pc' = [pc EXCEPT ![t] = IF Len(mtask) > 1 THEN "notify" ELSE "start"]
        BY <2>1 DEF TakeTask
      <3>2. mtask[i] \in Works /\ mtask[i] # NoWork
        BY <3>1, IOWaitAssumption DEF TypeOK
      <3>3. \A w \in Queue' : w \in Queue
        BY <3>1, RemoveAtIn DEF Queue, TypeOK
      <3> QED BY <2>1, <3>1, <3>2, <3>3 DEF TakeTask, TypeOK, StopShape
    <2>2. CASE TakeNone(t)
      <3>1. ASSUME mtask # <<>> PROVE ~wdone[t]
        <4>1. 1 \in 1..Len(mtask) /\ mtask[1] \in Queue /\ Home[mtask[1]] # AnyThread
          BY <2>2, <3>1 DEF TakeNone, Takeable, TypeOK, Queue, ToSet
        <4> QED BY <4>1 DEF StopShape
      <3> QED BY <2>2, <3>1 DEF TakeNone, TypeOK, StopShape, Queue
    <2>3. CASE NotifyMe(t)
      BY <2>3 DEF NotifyMe, TypeOK, StopShape, Queue
    <2>4. CASE StartWork(t)
      BY <2>4 DEF StartWork, TypeOK, StopShape, Queue
    <2>5. CASE EndWork(t)
      BY <2>5 DEF EndWork, TypeOK, StopShape, Queue
    <2>6. CASE Leave(t)
      BY <2>6 DEF Leave, TypeOK, StopShape, Queue
    <2>7. CASE GoIdle(t)
      BY <2>7 DEF GoIdle, TypeOK, StopShape, Queue
    <2>8. CASE WaitOver(t)
      <3>1. Queue' = {}
        BY <2>8 DEF WaitOver, CanStop, Queue, ToSet
      <3> QED BY <2>8, <3>1 DEF WaitOver, CanStop, TypeOK, StopShape
    <2>9. CASE WaitMore(t)
      BY <2>9 DEF WaitMore, TypeOK, StopShape, Queue
    <2>10. CASE EpollReport(t)
      BY <2>10 DEF EpollReport, TypeOK, StopShape, Queue
    <2>11. CASE EpollTimeout(t)
      BY <2>11 DEF EpollTimeout, TypeOK, StopShape, Queue
    <2>12. CASE Collect(t)
      BY <2>12 DEF Collect, TypeOK, StopShape, Queue
    <2>13. CASE CollectNotify(t)
      BY <2>13 DEF CollectNotify, TypeOK, StopShape, Queue
    <2>14. CASE Drain(t)
      BY <2>14 DEF Drain, TypeOK, StopShape, Queue
    <2>15. ASSUME NEW w \in Io, Dispatch(t, w) PROVE StopShape'
      <3>1. mtask' = Append(mtask, w) /\ Home[w] = AnyThread
        BY <2>15, IOWaitAssumption DEF Dispatch
      <3>2. Queue' = Queue \cup {w}
        BY <3>1, AppendFacts DEF Queue, TypeOK, Works
      <3> QED BY <2>15, <3>1, <3>2 DEF Dispatch, TypeOK, StopShape
    <2>16. ASSUME NEW w \in Io, SkipReport(t, w) PROVE StopShape'
      BY <2>16 DEF SkipReport, TypeOK, StopShape, Queue
    <2>17. CASE BackToRun(t)
      BY <2>17 DEF BackToRun, TypeOK, StopShape, Queue
    <2>18. CASE ReadTimers(t)
      BY <2>18 DEF ReadTimers, TypeOK, StopShape, Queue
    <2>19. CASE ReadPending(t)
      BY <2>19 DEF ReadPending, TypeOK, StopShape, Queue
    <2>20. CASE SubmitExpired(t)
      <3>1. PICK cbs \in SetToSeqs(got[t].cbs) : mtask' = mtask \o Pushed(cbs)
        BY <2>20 DEF SubmitExpired
      <3>2. IsFiniteSet(got[t].cbs) /\ got[t].cbs \subseteq Timed /\ got[t].cbs \subseteq Works
        BY DEF TypeOK, Works
      <3>3. Pushed(cbs) \in Seq(Works) /\ ToSet(Pushed(cbs)) \subseteq Timed
        BY <3>2, PushedFacts
      <3>4. Queue' = Queue \cup ToSet(Pushed(cbs))
        BY <3>1, <3>3, ConcatFacts DEF Queue, TypeOK
      <3>5. \A w \in Queue' : w \in Queue \/ Home[w] = AnyThread
        BY <3>3, <3>4, IOWaitAssumption
      <3> QED BY <2>20, <3>5 DEF SubmitExpired, TypeOK, StopShape
    <2> QED BY <1>7, <2>1, <2>2, <2>3, <2>4, <2>5, <2>6, <2>7, <2>8, <2>9,
               <2>10, <2>11, <2>12, <2>13, <2>14, <2>15, <2>16, <2>17,
               <2>18, <2>19, <2>20
            DEF ThreadStep
  <1> QED BY <1>1, <1>2, <1>3, <1>4, <1>5, <1>6, <1>7 DEF Next, User, Finished

(* Whoever leaves a queue that is not empty has called notify() before it  *)
(* goes to sleep.                                                          *)
LEMMA QueueWatchedNext ==
    ASSUME TypeOK, QueueWatched, [Next]_vars
    PROVE  QueueWatched'
  <1> USE DEF queueVars, wakeVars, armVars, thrVars, ctlVars, endVars, Goto
  <1>1. CASE UNCHANGED vars
    BY <1>1 DEF vars, TypeOK, QueueWatched, Tickled
  <1>2. CASE Stop
    BY <1>2 DEF Stop, TypeOK, QueueWatched, Tickled
  <1>3. CASE SubmitNotify
    BY <1>3, NotifyFacts DEF SubmitNotify, QueueWatched
  <1>4. CASE StopNotify
    BY <1>4, NotifyFacts DEF StopNotify, QueueWatched
  <1>5. CASE Join
    BY <1>5 DEF Join, TypeOK, QueueWatched, Tickled
  <1>6. ASSUME NEW w \in Works,
               Submit(w) \/ ArmTimer(w) \/ AddEvent(w) \/ Expire(w) \/ BecomeReady(w)
        PROVE  QueueWatched'
    <2>1. CASE Submit(w)
      BY <2>1 DEF Submit, TypeOK, QueueWatched, Tickled
    <2>2. CASE ArmTimer(w)
      BY <2>2 DEF ArmTimer, TypeOK, QueueWatched, Tickled
    <2>3. CASE AddEvent(w)
      BY <2>3 DEF AddEvent, TypeOK, QueueWatched, Tickled
    <2>4. CASE Expire(w)
      BY <2>4 DEF Expire, TypeOK, QueueWatched, Tickled
    <2>5. CASE BecomeReady(w)
      BY <2>5 DEF BecomeReady, TypeOK, QueueWatched, Tickled
    <2> QED BY <1>6, <2>1, <2>2, <2>3, <2>4, <2>5
  <1>7. ASSUME NEW t \in Threads, ThreadStep(t)
        PROVE  QueueWatched'
    <2>1. CASE TakeTask(t)
      <3>1. PICK i \in 1..Len(mtask) :
              job' = [job EXCEPT ![t] = mtask[i]] /\ mtask' = RemoveAt(mtask, i)
              /\ pc' = [pc EXCEPT ![t] = IF Len(mtask) > 1 THEN "notify" ELSE "start"]
        BY <2>1 DEF TakeTask
      <3>2. mtask[i] \in Works /\ mtask[i] # NoWork
        BY <3>1, IOWaitAssumption DEF TypeOK
      <3>3. Len(mtask') = Len(mtask) - 1 /\ mtask' \in Seq(Works)
        BY <3>1, RemoveAtFacts DEF TypeOK
      <3>4. CASE Len(mtask) > 1
        BY <3>1, <3>4 DEF TypeOK, QueueWatched
      <3>5. CASE ~(Len(mtask) > 1)
        BY <3>3, <3>5 DEF TypeOK, QueueWatched
      <3> QED BY <3>4, <3>5
    <2>2. CASE TakeNone(t)
      BY <2>2 DEF TakeNone, TypeOK, QueueWatched, Tickled
    <2>3. CASE NotifyMe(t)
      BY <2>3, NotifyFacts DEF NotifyMe, QueueWatched
    <2>4. CASE StartWork(t)
      BY <2>4 DEF StartWork, TypeOK, QueueWatched
    <2>5. CASE EndWork(t)
      BY <2>5 DEF EndWork, TypeOK, QueueWatched
    <2>6. CASE Leave(t)
      BY <2>6 DEF Leave, TypeOK, QueueWatched, Tickled
    <2>7. CASE GoIdle(t)
      BY <2>7 DEF GoIdle, TypeOK, QueueWatched, Tickled
    <2>8. CASE WaitOver(t)
      BY <2>8 DEF WaitOver, TypeOK, QueueWatched
    <2>9. CASE WaitMore(t)
      BY <2>9 DEF WaitMore, TypeOK, QueueWatched, Tickled
    <2>10. CASE EpollReport(t)
      BY <2>10 DEF EpollReport, TypeOK, QueueWatched
    <2>11. CASE EpollTimeout(t)
      BY <2>11 DEF EpollTimeout, TypeOK, QueueWatched
    <2>12. CASE Collect(t)
      BY <2>12 DEF Collect, TypeOK, QueueWatched
    <2>13. CASE CollectNotify(t)
      BY <2>13, NotifyFacts DEF CollectNotify, QueueWatched
    <2>14. CASE Drain(t)
      BY <2>14 DEF Drain, TypeOK, QueueWatched
    <2>15. ASSUME NEW w \in Io, Dispatch(t, w) PROVE QueueWatched'
      BY <2>15 DEF Dispatch, TypeOK, QueueWatched
    <2>16. ASSUME NEW w \in Io, SkipReport(t, w) PROVE QueueWatched'
      BY <2>16 DEF SkipReport, TypeOK, QueueWatched
    <2>17. CASE BackToRun(t)
      BY <2>17 DEF BackToRun, TypeOK, QueueWatched
    <2>18. CASE ReadTimers(t)
      BY <2>18 DEF ReadTimers, TypeOK, QueueWatched, Tickled
    <2>19. CASE ReadPending(t)
      BY <2>19 DEF ReadPending, TypeOK, QueueWatched, Tickled
    <2>20. CASE SubmitExpired(t)
      BY <2>20 DEF SubmitExpired, TypeOK, QueueWatched
    <2> QED BY <1>7, <2>1, <2>2, <2>3, <2>4, <2>5, <2>6, <2>7, <2>8, <2>9,
               <2>10, <2>11, <2>12, <2>13, <2>14, <2>15, <2>16, <2>17,
               <2>18, <2>19, <2>20
            DEF ThreadStep
  <1> QED BY <1>1, <1>2, <1>3, <1>4, <1>5, <1>6, <1>7 DEF Next, User, Finished

(* The thread that pushes late works looks at the queue itself afterwards, *)
(* and one that finds work bound elsewhere is not on its way out.          *)
LEMMA LastOneLooksNext ==
    ASSUME TypeOK, ThreadShape, StopShape, LastOneLooks, [Next]_vars
    PROVE  LastOneLooks'
  <1> USE DEF queueVars, wakeVars, armVars, thrVars, ctlVars, endVars, Goto
  <1>1. CASE UNCHANGED vars
    BY <1>1 DEF vars, LastOneLooks
  <1>2. CASE Stop
    BY <1>2 DEF Stop, LastOneLooks
  <1>3. CASE SubmitNotify
    BY <1>3 DEF SubmitNotify, LastOneLooks
  <1>4. CASE StopNotify
    BY <1>4 DEF StopNotify, LastOneLooks
  <1>5. CASE Join
    BY <1>5 DEF Join, LastOneLooks
  <1>6. ASSUME NEW w \in Works,
               Submit(w) \/ ArmTimer(w) \/ AddEvent(w) \/ Expire(w) \/ BecomeReady(w)
        PROVE  LastOneLooks'
    <2>1. CASE Submit(w)
      BY <2>1, IOWaitAssumption DEF Submit, LastOneLooks, StopShape, ThreadShape
    <2> QED BY <1>6, <2>1 DEF ArmTimer, AddEvent, Expire, BecomeReady, LastOneLooks
  <1>7. ASSUME NEW t \in Threads, ThreadStep(t)
        PROVE  LastOneLooks'
    <2>1. CASE TakeTask(t)
      <3>1. pc'[t] \in {"notify", "start"}
        BY <2>1 DEF TakeTask, TypeOK
      <3> QED BY <3>1 DEF LastOneLooks
    <2>2. CASE TakeNone(t)
      <3>1. ASSUME mtask # <<>> PROVE pc'[t] = "notify"
        BY <2>2, <3>1 DEF TakeNone, TypeOK
      <3> QED BY <2>2, <3>1 DEF TakeNone, LastOneLooks
    <2>3. CASE NotifyMe(t)
      BY <2>3 DEF NotifyMe, TypeOK, LastOneLooks, StopShape
    <2>4. CASE StartWork(t)
      BY <2>4 DEF StartWork, TypeOK, LastOneLooks
    <2>5. CASE EndWork(t)
      BY <2>5 DEF EndWork, TypeOK, LastOneLooks
    <2>6. CASE Leave(t)
      BY <2>6 DEF Leave, TypeOK, LastOneLooks
    <2>7. CASE GoIdle(t)
      BY <2>7 DEF GoIdle, TypeOK, LastOneLooks
    <2>8. CASE WaitOver(t)
      BY <2>8 DEF WaitOver, TypeOK, LastOneLooks
    <2>9. CASE WaitMore(t)
      BY <2>9 DEF WaitMore, TypeOK, LastOneLooks
    <2>10. CASE EpollReport(t)
      BY <2>10 DEF EpollReport, TypeOK, LastOneLooks
    <2>11. CASE EpollTimeout(t)
      BY <2>11 DEF EpollTimeout, TypeOK, LastOneLooks
    <2>12. CASE Collect(t)
      BY <2>12 DEF Collect, TypeOK, LastOneLooks
    <2>13. CASE CollectNotify(t)
      BY <2>13 DEF CollectNotify, TypeOK, LastOneLooks
    <2>14. CASE Drain(t)
      BY <2>14 DEF Drain, TypeOK, LastOneLooks
    <2>15. ASSUME NEW w \in Io, Dispatch(t, w) PROVE LastOneLooks'
      BY <2>15 DEF Dispatch, TypeOK, LastOneLooks
    <2>16. ASSUME NEW w \in Io, SkipReport(t, w) PROVE LastOneLooks'
      BY <2>16 DEF SkipReport, TypeOK, LastOneLooks
    <2>17. CASE BackToRun(t)
      BY <2>17 DEF BackToRun, TypeOK, LastOneLooks
    <2>18. CASE ReadTimers(t)
      BY <2>18 DEF ReadTimers, TypeOK, LastOneLooks
    <2>19. CASE ReadPending(t)
      BY <2>19 DEF ReadPending, TypeOK, LastOneLooks
    <2>20. CASE SubmitExpired(t)
      BY <2>20 DEF SubmitExpired, TypeOK, LastOneLooks
    <2> QED BY <1>7, <2>1, <2>2, <2>3, <2>4, <2>5, <2>6, <2>7, <2>8, <2>9,
               <2>10, <2>11, <2>12, <2>13, <2>14, <2>15, <2>16, <2>17,
               <2>18, <2>19, <2>20
            DEF ThreadStep
  <1> QED BY <1>1, <1>2, <1>3, <1>4, <1>5, <1>6, <1>7 DEF Next, User, Finished

(* A thread takes a task, and gives it back. *)
LEMMA HeldFacts ==
    ASSUME TypeOK, NEW t \in Threads
    PROVE  /\ \A w \in Works : job[t] = NoWork /\ job' = [job EXCEPT ![t] = w]
                                => Held' = Held \cup {w}
           /\ OnePlace /\ job' = [job EXCEPT ![t] = NoWork] => Held' = Held \ {job[t]}
  <1>1. job \in [Threads -> Works \cup {NoWork}] /\ NoWork \notin Works
    BY IOWaitAssumption DEF TypeOK
  <1>2. ASSUME NEW w \in Works, job[t] = NoWork, job' = [job EXCEPT ![t] = w]
        PROVE  Held' = Held \cup {w}
    BY <1>1, <1>2 DEF Held
  <1>3. ASSUME OnePlace, job' = [job EXCEPT ![t] = NoWork]
        PROVE  Held' = Held \ {job[t]}
    <2>1. \A u \in Threads : u # t => job'[u] = job[u] /\ (job[u] # NoWork => job[u] # job[t])
      BY <1>1, <1>3 DEF OnePlace
    <2>2. job'[t] = NoWork
      BY <1>1, <1>3
    <2> QED BY <1>1, <2>1, <2>2 DEF Held
  <1> QED BY <1>2, <1>3

(* How one thread's callbacks change what is between m_timers and m_task. *)
LEMMA ExpiredFacts ==
    ASSUME TypeOK, NEW t \in Threads, \A u \in Threads : u # t => got'[u] = got[u]
    PROVE  /\ got'[t].cbs = got[t].cbs => Expired' = Expired
           /\ got[t].cbs = {} => Expired' = Expired \cup got'[t].cbs
           /\ OnePlace /\ got'[t].cbs = {} => Expired' = Expired \ got[t].cbs
  BY DEF Expired, OnePlace

(* A work is handed on, never copied: from the users to m_timers, epoll or *)
(* the queue, from there to a thread, and from the thread to where it has  *)
(* been run.                                                               *)
LEMMA OnePlaceNext ==
    ASSUME TypeOK, ThreadShape, OnePlace, [Next]_vars
    PROVE  OnePlace'
  <1> USE DEF queueVars, wakeVars, armVars, thrVars, ctlVars, endVars, Goto
  <1>1. CASE UNCHANGED vars
    BY <1>1 DEF vars, OnePlace, Queue, Held, Expired
  <1>2. CASE Stop
    BY <1>2 DEF Stop, OnePlace, Queue, Held, Expired
  <1>3. CASE SubmitNotify
    BY <1>3 DEF SubmitNotify, OnePlace, Queue, Held, Expired
  <1>4. CASE StopNotify
    BY <1>4 DEF StopNotify, OnePlace, Queue, Held, Expired
  <1>5. CASE Join
    BY <1>5 DEF Join, OnePlace, Queue, Held, Expired
  <1>6. ASSUME NEW w \in Works,
               Submit(w) \/ ArmTimer(w) \/ AddEvent(w) \/ Expire(w) \/ BecomeReady(w)
        PROVE  OnePlace'
    <2>1. CASE Submit(w)
      <3>1. UNCHANGED <<got, job, timers, waiting, ran>> /\ mtask' = Append(mtask, w) /\ w \notin Known
        BY <2>1 DEF Submit, Fresh
      <3>2. Held' = Held /\ Expired' = Expired
        BY <3>1 DEF Held, Expired
      <3>3. w \notin Queue \cup Held \cup Expired \cup timers \cup waiting \cup ran
        BY <3>1 DEF Known, Handed
      <3>4. Queue' = Queue \cup {w} /\ (IsInjective(mtask) => IsInjective(mtask'))
        BY <3>1, <3>3, AppendFacts DEF Queue, TypeOK
      <3> QED BY <3>1, <3>2, <3>3, <3>4 DEF OnePlace
    <2>2. CASE ArmTimer(w)
      <3>1. UNCHANGED <<got, mtask, job, waiting, ran>> /\ timers' = timers \cup {w} /\ w \notin Known
        BY <2>2 DEF ArmTimer, Fresh
      <3>2. w \notin Queue \cup Held \cup Expired \cup timers \cup waiting \cup ran
        BY <3>1 DEF Known, Handed
      <3>3. Held' = Held /\ Queue' = Queue /\ Expired' = Expired
        BY <3>1 DEF Held, Queue, Expired
      <3> QED BY <3>1, <3>2, <3>3 DEF OnePlace
    <2>3. CASE AddEvent(w)
      <3>1. UNCHANGED <<got, mtask, job, timers, ran>> /\ waiting' = waiting \cup {w} /\ w \notin Known
        BY <2>3 DEF AddEvent, Fresh
      <3>2. w \notin Queue \cup Held \cup Expired \cup timers \cup waiting \cup ran
        BY <3>1 DEF Known, Handed
      <3>3. Held' = Held /\ Queue' = Queue /\ Expired' = Expired
        BY <3>1 DEF Held, Queue, Expired
      <3> QED BY <3>1, <3>2, <3>3 DEF OnePlace
    <2>4. CASE Expire(w)
      BY <2>4 DEF Expire, OnePlace, Queue, Held, Expired
    <2>5. CASE BecomeReady(w)
      BY <2>5 DEF BecomeReady, OnePlace, Queue, Held, Expired
    <2> QED BY <1>6, <2>1, <2>2, <2>3, <2>4, <2>5
  <1>7. ASSUME NEW t \in Threads, ThreadStep(t)
        PROVE  OnePlace'
    <2>1. CASE TakeTask(t)
      <3>1. PICK i \in 1..Len(mtask) :
              job' = [job EXCEPT ![t] = mtask[i]] /\ mtask' = RemoveAt(mtask, i)
        BY <2>1 DEF TakeTask
      <3>2. UNCHANGED <<got, timers, waiting, ran>> /\ job[t] = NoWork
        BY <2>1 DEF TakeTask, ThreadShape
      <3>3. mtask[i] \in Works /\ mtask[i] \in Queue /\ Queue' = Queue \ {mtask[i]} /\ IsInjective(mtask')
        BY <3>1, TakeFacts DEF TypeOK, OnePlace, Queue
      <3>4. Held' = Held \cup {mtask[i]}
        BY <3>1, <3>2, <3>3, HeldFacts
      <3>5. \A u \in Threads : job[u] # mtask[i]
        BY <3>3, IOWaitAssumption DEF OnePlace, Held
      <3>6. \A u, v \in Threads : job'[u] # NoWork /\ job'[u] = job'[v] => u = v
        BY <3>1, <3>5 DEF OnePlace, TypeOK
      <3>7. Expired' = Expired
        BY <3>2 DEF Expired
      <3> QED BY <3>2, <3>3, <3>4, <3>6, <3>7 DEF OnePlace
    <2>2. CASE TakeNone(t)
      BY <2>2 DEF TakeNone, OnePlace, Queue, Held, Expired
    <2>3. CASE NotifyMe(t)
      BY <2>3 DEF NotifyMe, OnePlace, Queue, Held, Expired
    <2>4. CASE StartWork(t)
      BY <2>4 DEF StartWork, OnePlace, Queue, Held, Expired
    <2>5. CASE EndWork(t)
      <3>1. UNCHANGED <<mtask, got, timers, waiting>> /\ job' = [job EXCEPT ![t] = NoWork]
            /\ ran' = ran \cup {job[t]}
        BY <2>5 DEF EndWork
      <3>2. Held' = Held \ {job[t]} /\ job[t] \in Held /\ Queue' = Queue
        BY <2>5, <3>1, HeldFacts DEF EndWork, ThreadShape, Held, Queue
      <3>3. \A u, v \in Threads : job'[u] # NoWork /\ job'[u] = job'[v] => u = v
        BY <3>1 DEF OnePlace, TypeOK
      <3>4. Expired' = Expired
        BY <3>1 DEF Expired
      <3> QED BY <3>1, <3>2, <3>3, <3>4 DEF OnePlace
    <2>6. CASE Leave(t)
      BY <2>6 DEF Leave, OnePlace, Queue, Held, Expired
    <2>7. CASE GoIdle(t)
      BY <2>7 DEF GoIdle, OnePlace, Queue, Held, Expired
    <2>8. CASE WaitOver(t)
      BY <2>8 DEF WaitOver, OnePlace, Queue, Held, Expired
    <2>9. CASE WaitMore(t)
      BY <2>9 DEF WaitMore, OnePlace, Queue, Held, Expired
    <2>10. CASE EpollReport(t)
      <3>1. UNCHANGED <<mtask, job, timers, waiting, ran>>
        BY <2>10 DEF EpollReport
      <3>2. \A u \in Threads : got'[u].cbs = got[u].cbs
        BY <2>10 DEF EpollReport, TypeOK, ThreadShape, Nothing
      <3>3. Expired' = Expired /\ Queue' = Queue /\ Held' = Held
        BY <3>1, <3>2 DEF Expired, Queue, Held
      <3> QED BY <3>1, <3>2, <3>3 DEF OnePlace
    <2>11. CASE EpollTimeout(t)
      BY <2>11 DEF EpollTimeout, OnePlace, Queue, Held, Expired
    <2>12. CASE Collect(t)
      <3>1. UNCHANGED <<mtask, job, waiting, ran>> /\ timers' = timers \ due /\ due \subseteq timers
        BY <2>12 DEF Collect, TypeOK
      <3>2. got[t].cbs = {} /\ got'[t].cbs = due /\ \A u \in Threads : u # t => got'[u] = got[u]
        BY <2>12 DEF Collect, ThreadShape, TypeOK
      <3>3. Expired' = Expired \cup due
        BY <3>2, ExpiredFacts
      <3>4. \A u \in Threads : got[u].cbs \cap timers = {}
        BY DEF OnePlace, Expired
      <3>5. \A u, v \in Threads : u # v => got'[u].cbs \cap got'[v].cbs = {}
        BY <3>1, <3>2, <3>4 DEF OnePlace
      <3>6. Queue' = Queue /\ Held' = Held
        BY <3>1 DEF Queue, Held
      <3> QED BY <3>1, <3>3, <3>5, <3>6 DEF OnePlace
    <2>13. CASE CollectNotify(t)
      BY <2>13 DEF CollectNotify, OnePlace, Queue, Held, Expired
    <2>14. CASE Drain(t)
      <3>1. UNCHANGED <<mtask, job, timers, waiting, ran>>
        BY <2>14 DEF Drain
      <3>2. \A u \in Threads : got'[u].cbs = got[u].cbs
        BY <2>14 DEF Drain, TypeOK
      <3>3. Expired' = Expired /\ Queue' = Queue /\ Held' = Held
        BY <3>1, <3>2 DEF Expired, Queue, Held
      <3> QED BY <3>1, <3>2, <3>3 DEF OnePlace
    <2>15. ASSUME NEW w \in Io, Dispatch(t, w) PROVE OnePlace'
      <3>1. UNCHANGED <<job, timers, ran>> /\ waiting' = waiting \ {w} /\ w \in waiting
            /\ mtask' = Append(mtask, w) /\ \A u \in Threads : got'[u].cbs = got[u].cbs
        BY <2>15 DEF Dispatch, TypeOK
      <3>2. Queue' = Queue \cup {w} /\ (IsInjective(mtask) /\ w \notin Queue => IsInjective(mtask'))
        BY <3>1, AppendFacts DEF Queue, TypeOK, Works
      <3>3. Held' = Held /\ Expired' = Expired
        BY <3>1 DEF Held, Expired
      <3> QED BY <3>1, <3>2, <3>3 DEF OnePlace
    <2>16. ASSUME NEW w \in Io, SkipReport(t, w) PROVE OnePlace'
      <3>1. UNCHANGED <<mtask, job, timers, waiting, ran>>
        BY <2>16 DEF SkipReport
      <3>2. \A u \in Threads : got'[u].cbs = got[u].cbs
        BY <2>16 DEF SkipReport, TypeOK
      <3>3. Expired' = Expired /\ Queue' = Queue /\ Held' = Held
        BY <3>1, <3>2 DEF Expired, Queue, Held
      <3> QED BY <3>1, <3>2, <3>3 DEF OnePlace
    <2>17. CASE BackToRun(t)
      BY <2>17 DEF BackToRun, OnePlace, Queue, Held, Expired
    <2>18. CASE ReadTimers(t)
      BY <2>18 DEF ReadTimers, OnePlace, Queue, Held, Expired
    <2>19. CASE ReadPending(t)
      BY <2>19 DEF ReadPending, OnePlace, Queue, Held, Expired
    <2>20. CASE SubmitExpired(t)
      <3> DEFINE S == got[t].cbs
      <3>1. PICK cbs \in SetToSeqs(S) : mtask' = mtask \o Pushed(cbs)
        BY <2>20 DEF SubmitExpired
      <3>2. UNCHANGED <<job, timers, waiting, ran>>
        BY <2>20 DEF SubmitExpired
      <3>3. IsFiniteSet(S) /\ S \subseteq Expired /\ S \subseteq Works
        BY DEF TypeOK, Works, Expired
      <3>4. got'[t].cbs = {} /\ \A u \in Threads : u # t => got'[u] = got[u]
        BY <2>20 DEF SubmitExpired, TypeOK
      <3>5. Expired' = Expired \ S
        BY <3>4, ExpiredFacts
      <3> HIDE DEF S
      <3>6. Pushed(cbs) \in Seq(Works) /\ IsInjective(Pushed(cbs)) /\ ToSet(Pushed(cbs)) \subseteq S
        BY <3>3, PushedFacts
      <3>7. Queue' = Queue \cup ToSet(Pushed(cbs))
        BY <3>1, <3>6, ConcatFacts DEF TypeOK, Queue
      <3>8. IsInjective(mtask')
        <4>1. ToSet(mtask) \cap ToSet(Pushed(cbs)) = {}
          BY <3>3, <3>6 DEF OnePlace, Queue
        <4>2. mtask \in Seq(Works) /\ IsInjective(mtask)
          BY DEF TypeOK, OnePlace
        <4> QED BY <3>1, <3>6, <4>1, <4>2, ConcatFacts
      <3>9. Held' = Held
        BY <3>2 DEF Held
      <3>10. \A u, v \in Threads : u # v => got'[u].cbs \cap got'[v].cbs = {}
        BY <3>4 DEF OnePlace
      <3> QED BY <3>2, <3>3, <3>5, <3>6, <3>7, <3>8, <3>9, <3>10 DEF OnePlace
    <2> QED BY <1>7, <2>1, <2>2, <2>3, <2>4, <2>5, <2>6, <2>7, <2>8, <2>9,
               <2>10, <2>11, <2>12, <2>13, <2>14, <2>15, <2>16, <2>17,
               <2>18, <2>19, <2>20
            DEF ThreadStep
  <1> QED BY <1>1, <1>2, <1>3, <1>4, <1>5, <1>6, <1>7 DEF Next, User, Finished

(* How one thread's report changes what has been reported. *)
LEMMA ReportedFacts ==
    ASSUME TypeOK, NEW t \in Threads, \A u \in Threads : u # t => got'[u] = got[u]
    PROVE  /\ got'[t].ios = got[t].ios => Reported' = Reported
           /\ got[t].ios = {} => Reported' = Reported \cup got'[t].ios
           /\ \A w : got'[t].ios = got[t].ios \ {w} =>
                Reported \ {w} \subseteq Reported' /\ Reported' \subseteq Reported
  BY DEF Reported

(* What epoll_wait has reported is registered, or has been handed on by    *)
(* whichever thread was first.                                             *)
LEMMA ReportShapeNext ==
    ASSUME TypeOK, ThreadShape, OnePlace, ReportShape, [Next]_vars
    PROVE  ReportShape'
  <1> USE DEF queueVars, wakeVars, armVars, thrVars, ctlVars, endVars, Goto
  <1>1. ASSUME UNCHANGED <<mtask, job, waiting, ran, got>> PROVE ReportShape'
    BY <1>1 DEF ReportShape, Reported, Queue, Held
  <1>2. CASE UNCHANGED vars \/ Stop \/ SubmitNotify \/ StopNotify \/ Join
    BY <1>1, <1>2 DEF vars, Stop, SubmitNotify, StopNotify, Join
  <1>3. ASSUME NEW w \in Works,
               Submit(w) \/ ArmTimer(w) \/ AddEvent(w) \/ Expire(w) \/ BecomeReady(w)
        PROVE  ReportShape'
    <2>1. CASE Submit(w)
      <3>1. Queue' = Queue \cup {w}
        BY <2>1, AppendFacts DEF Submit, Queue, TypeOK
      <3> QED BY <2>1, <3>1 DEF Submit, ReportShape, Reported, Held
    <2>2. CASE AddEvent(w)
      BY <2>2 DEF AddEvent, ReportShape, Reported, Queue, Held
    <2> QED BY <1>1, <1>3, <2>1, <2>2 DEF ArmTimer, Expire, BecomeReady
  <1>4. ASSUME NEW t \in Threads, ThreadStep(t)
        PROVE  ReportShape'
    <2>1. CASE TakeTask(t)
      <3>1. PICK i \in 1..Len(mtask) :
              job' = [job EXCEPT ![t] = mtask[i]] /\ mtask' = RemoveAt(mtask, i)
        BY <2>1 DEF TakeTask
      <3>2. UNCHANGED <<waiting, ran, got>> /\ job[t] = NoWork
        BY <2>1 DEF TakeTask, ThreadShape
      <3>3. mtask[i] \in Works /\ Queue' = Queue \ {mtask[i]}
        BY <3>1, TakeFacts DEF TypeOK, OnePlace, Queue
      <3>4. Held' = Held \cup {mtask[i]}
        BY <3>1, <3>2, <3>3, HeldFacts
      <3> QED BY <3>2, <3>3, <3>4 DEF ReportShape, Reported
    <2>2. CASE EndWork(t)
      <3>1. UNCHANGED <<mtask, waiting, got>> /\ job' = [job EXCEPT ![t] = NoWork]
            /\ ran' = ran \cup {job[t]}
        BY <2>2 DEF EndWork
      <3>2. Held' = Held \ {job[t]} /\ Queue' = Queue
        BY <3>1, HeldFacts DEF Queue
      <3> QED BY <3>1, <3>2 DEF ReportShape, Reported
    <2>3. CASE EpollReport(t)
      <3>1. UNCHANGED <<mtask, job, waiting, ran>>
        BY <2>3 DEF EpollReport
      <3>2. got[t].ios = {} /\ got'[t].ios = ready /\ \A u \in Threads : u # t => got'[u] = got[u]
        <4>1. got[t].ios = {}
          BY <2>3 DEF EpollReport, ThreadShape, Nothing
        <4>2. DOMAIN got = Threads
          BY DEF TypeOK
        <4>3. got' = [got EXCEPT ![t] = [tickle |-> Tickled, ios |-> ready, cbs |-> {}]]
          BY <2>3 DEF EpollReport
        <4>4. got'[t] = [tickle |-> Tickled, ios |-> ready, cbs |-> {}]
              /\ \A u \in Threads : u # t => got'[u] = got[u]
          BY <4>2, <4>3
        <4> QED BY <4>1, <4>4
      <3>3. Reported' = Reported \cup ready /\ ready \subseteq waiting
        BY <3>2, ReportedFacts DEF TypeOK
      <3> QED BY <3>1, <3>3 DEF ReportShape, Queue, Held
    <2>4. ASSUME NEW w \in Io, Dispatch(t, w) PROVE ReportShape'
      <3>1. UNCHANGED <<job, ran>> /\ waiting' = waiting \ {w} /\ mtask' = Append(mtask, w)
        BY <2>4 DEF Dispatch
      <3>2. got'[t].ios = got[t].ios \ {w} /\ \A u \in Threads : u # t => got'[u] = got[u]
        BY <2>4 DEF Dispatch, TypeOK
      <3>3. Reported' \subseteq Reported
        BY <3>2, ReportedFacts
      <3>4. Queue' = Queue \cup {w} /\ Held' = Held
        BY <3>1, AppendFacts DEF Queue, Held, TypeOK, Works
      <3> QED BY <3>1, <3>3, <3>4 DEF ReportShape
    <2>5. ASSUME NEW w \in Io, SkipReport(t, w) PROVE ReportShape'
      <3>1. UNCHANGED <<mtask, job, waiting, ran>>
        BY <2>5 DEF SkipReport
      <3>2. got'[t].ios = got[t].ios \ {w} /\ \A u \in Threads : u # t => got'[u] = got[u]
        BY <2>5 DEF SkipReport, TypeOK
      <3>3. Reported' \subseteq Reported
        BY <3>2, ReportedFacts
      <3> QED BY <3>1, <3>3 DEF ReportShape, Queue, Held
    <2>6. CASE Drain(t) \/ Collect(t)
      <3>1. UNCHANGED <<mtask, job, waiting, ran>>
        BY <2>6 DEF Drain, Collect
      <3>2. got'[t].ios = got[t].ios /\ \A u \in Threads : u # t => got'[u] = got[u]
        BY <2>6 DEF Drain, Collect, TypeOK
      <3>3. Reported' = Reported
        BY <3>2, ReportedFacts
      <3> QED BY <3>1, <3>3 DEF ReportShape, Queue, Held
    <2>7. CASE SubmitExpired(t)
      <3>1. PICK cbs \in SetToSeqs(got[t].cbs) : mtask' = mtask \o Pushed(cbs)
        BY <2>7 DEF SubmitExpired
      <3>2. IsFiniteSet(got[t].cbs) /\ got[t].cbs \subseteq Works
        BY DEF TypeOK, Works
      <3>3. Pushed(cbs) \in Seq(Works)
        BY <3>2, PushedFacts
      <3>4. Queue \subseteq Queue'
        BY <3>1, <3>3, ConcatFacts DEF Queue, TypeOK
      <3>5. UNCHANGED <<job, waiting, ran>>
        BY <2>7 DEF SubmitExpired
      <3>6. got'[t].ios = got[t].ios /\ \A u \in Threads : u # t => got'[u] = got[u]
        BY <2>7 DEF SubmitExpired, TypeOK
      <3>7. Reported' = Reported
        BY <3>6, ReportedFacts
      <3> QED BY <3>4, <3>5, <3>7 DEF ReportShape, Held
    <2>8. ASSUME TakeNone(t) \/ NotifyMe(t) \/ StartWork(t) \/ Leave(t) \/ GoIdle(t)
                 \/ ReadTimers(t) \/ ReadPending(t) \/ WaitOver(t) \/ WaitMore(t)
                 \/ EpollTimeout(t) \/ CollectNotify(t) \/ BackToRun(t)
          PROVE  ReportShape'
      <3>1. UNCHANGED <<mtask, job, waiting, ran, got>>
        BY <2>8 DEF TakeNone, NotifyMe, StartWork, Leave, GoIdle, ReadTimers, ReadPending,
                    WaitOver, WaitMore, EpollTimeout, CollectNotify, BackToRun
      <3> QED BY <3>1, <1>1
    <2> QED BY <1>4, <2>1, <2>2, <2>3, <2>4, <2>5, <2>6, <2>7, <2>8 DEF ThreadStep
  <1> QED BY <1>2, <1>3, <1>4 DEF Next, User, Finished

-----------------------------------------------------------------------------
(* The inductive invariant. *)
Inv ==
    /\ TypeOK
    /\ CountersExact
    /\ ThreadShape
    /\ OnePlace
    /\ ReportShape
    /\ StopShape
    /\ LastOneLooks
    /\ QueueWatched

(* An IOManager that has just been started satisfies the invariant. *)
LEMMA InvInit == Init => Inv
  <1> SUFFICES ASSUME Init PROVE Inv
    OBVIOUS
  <1>1. IsFiniteSet(timers) /\ MaxBytes \in Nat
    BY FS_EmptySet, IOWaitAssumption DEF Init
  <1>2. TypeOK
    <2>1. got \in [Threads -> [tickle : BOOLEAN, ios : SUBSET Io, cbs : SUBSET Timed]]
          /\ \A t \in Threads : IsFiniteSet(got[t].cbs)
      BY FS_EmptySet DEF Init, Nothing
    <2>2. pc \in [Threads -> ThreadPC] /\ wdone \in [Threads -> BOOLEAN]
      BY DEF Init, ThreadPC
    <2>3. job \in [Threads -> Works \cup {NoWork}]
      BY DEF Init
    <2>4. mtask \in Seq(Works) /\ bytes \in 0..MaxBytes
      BY <1>1 DEF Init
    <2> QED BY <1>1, <2>1, <2>2, <2>3, <2>4 DEF Init, TypeOK
  <1>3. CountersExact
    <2>1. {t \in Threads : pc[t] \in {"run"}} = {} /\ {t \in Threads : pc[t] \in IdlePC} = {}
      BY DEF Init, IdlePC
    <2> QED BY <2>1, FS_EmptySet DEF Init, CountersExact, Count
  <1>4. ThreadShape
    BY DEF Init, ThreadShape, Nothing
  <1>5. OnePlace
    <2>1. Queue = {} /\ Held = {} /\ Expired = {} /\ IsInjective(mtask)
          /\ \A t \in Threads : got[t].cbs = {}
      BY DEF Init, Queue, Held, Expired, Nothing, ToSet, IsInjective
    <2> QED BY <2>1 DEF Init, OnePlace
  <1>6. StopShape /\ QueueWatched /\ LastOneLooks
    BY DEF Init, StopShape, QueueWatched, LastOneLooks
  <1>7. ReportShape
    BY DEF Init, ReportShape, Reported, Nothing
  <1> QED BY <1>2, <1>3, <1>4, <1>5, <1>6, <1>7 DEF Inv

(* Every step keeps the invariant. *)
LEMMA InvNext == Inv /\ [Next]_vars => Inv'
  <1> SUFFICES ASSUME Inv, [Next]_vars PROVE Inv'
    OBVIOUS
  <1>1. TypeOK /\ CountersExact /\ ThreadShape /\ OnePlace /\ ReportShape
        /\ StopShape /\ LastOneLooks /\ QueueWatched
    BY DEF Inv
  <1>2. TypeOK'
    BY <1>1, TypeNext
  <1>3. CountersExact'
    BY <1>1, CountersNext
  <1>4. ThreadShape'
    BY <1>1, ThreadShapeNext
  <1>5. OnePlace'
    BY <1>1, OnePlaceNext
  <1>6. StopShape'
    BY <1>1, StopShapeNext
  <1>7. QueueWatched'
    BY <1>1, QueueWatchedNext
  <1>8. ReportShape'
    BY <1>1, ReportShapeNext
  <1>9. LastOneLooks'
    BY <1>1, LastOneLooksNext
  <1> QED BY <1>2, <1>3, <1>4, <1>5, <1>6, <1>7, <1>8, <1>9 DEF Inv

(* m_active_thread_num and m_idle_thread_num, which canStop() and notify() *)
(* read, count the threads inside a task and inside the wait fiber, and    *)
(* never go below zero; every other field keeps its type.                  *)
THEOREM CountersCorrect == Safety => [](TypeOK /\ CountersExact)
  <1>1. Inv => TypeOK /\ CountersExact
    BY DEF Inv
  <1> QED BY <1>1, InvInit, InvNext, PTL DEF Safety

(* With any number of threads and works, all threads sleep on a queue that *)
(* one of them could serve only if a byte is in the pipe or the last       *)
(* notify() found nobody counted idle.                                     *)
THEOREM NobodySleepsSilently == Spec => []NoSilentSleep
  <1>1. Inv => NoSilentSleep
    <2> SUFFICES ASSUME Inv, \A t \in Threads : pc[t] = "epoll", mtask # <<>>, ~owed
                 PROVE  Tickled \/ missed
      BY DEF NoSilentSleep, Inv, TypeOK
    <2> QED BY DEF Inv, QueueWatched
  <1>2. Safety => []NoSilentSleep
    BY <1>1, InvInit, InvNext, PTL DEF Safety
  <1> QED BY <1>2, PTL DEF Spec

-----------------------------------------------------------------------------
(* The IOManager implements the safety of WorkPool. *)

(* A step that changes neither the places of the works nor the reports. *)
LEMMA PoolFrame ==
    ASSUME UNCHANGED <<mtask, job, timers, due, waiting, ready, got, ran, overtaken>>, ctl' = ctl
    PROVE  UNCHANGED Pool!wpVars
  BY DEF Pool!wpVars, Handed, Caused, Queue, Held, Expired, Reported

(* Every step is a step of WorkPool, or leaves it alone. *)
LEMMA PoolNext ==
    ASSUME TypeOK, ThreadShape, OnePlace, ReportShape, StopShape, LastOneLooks, [Next]_vars
    PROVE  [Pool!Next]_(Pool!wpVars)
  <1> USE DEF queueVars, wakeVars, armVars, thrVars, ctlVars, endVars, Goto
  <1>1. CASE UNCHANGED vars
    BY <1>1, PoolFrame DEF vars
  <1>2. CASE Stop
    <2>1. UNCHANGED <<Handed, Caused, ran, overtaken>> /\ ctl = "run" /\ ctl' = "stopping"
      BY <1>2 DEF Stop, Handed, Caused, Queue, Held, Expired, Reported
    <2> QED BY <2>1 DEF Pool!wpVars
  <1>3. CASE SubmitNotify
    BY <1>3, PoolFrame DEF SubmitNotify
  <1>4. CASE StopNotify
    BY <1>4, PoolFrame DEF StopNotify
  <1>5. CASE Join
    <2>1. \A t \in Threads : pc[t] = "off" /\ job[t] = NoWork /\ wdone[t] /\ got[t].cbs = {}
      BY <1>5 DEF Join, ThreadShape
    <2>2. mtask = <<>> /\ timers \subseteq overtaken /\ waiting \subseteq overtaken
      BY <2>1, IOWaitAssumption DEF StopShape, LastOneLooks
    <2>3. Handed \subseteq overtaken
      BY <2>1, <2>2 DEF Handed, Queue, Held, Expired, ToSet
    <2>4. UNCHANGED <<Handed, Caused, ran, overtaken>> /\ ctl = "stopping" /\ ctl' = "off"
      BY <1>5 DEF Join, Handed, Caused, Queue, Held, Expired, Reported
    <2> QED BY <2>3, <2>4 DEF Pool!Next, Pool!Close
  <1>6. ASSUME NEW w \in Works,
               Submit(w) \/ ArmTimer(w) \/ AddEvent(w) \/ Expire(w) \/ BecomeReady(w)
        PROVE  [Pool!Next]_(Pool!wpVars)
    <2>1. CASE Submit(w)
      <3>1. UNCHANGED <<job, timers, due, waiting, ready, got, ran, overtaken, ctl>> /\ mtask' = Append(mtask, w)
            /\ w \notin Known /\ ctl = "run"
        BY <2>1 DEF Submit, Fresh
      <3>2. w \notin Handed \cup ran
        BY <3>1 DEF Known
      <3>3. Queue' = Queue \cup {w}
        BY <3>1, AppendFacts DEF Queue, TypeOK
      <3>4. Held' = Held /\ Expired' = Expired /\ Reported' = Reported
        BY <3>1 DEF Held, Expired, Reported
      <3>5. Handed' = Handed \cup {w} /\ Caused' = Caused \cup {w}
        BY <3>1, <3>3, <3>4 DEF Handed, Caused
      <3> QED BY <3>1, <3>2, <3>5 DEF Pool!Next, Pool!Hand
    <2>2. CASE ArmTimer(w)
      <3>1. UNCHANGED <<mtask, job, due, waiting, ready, got, ran, ctl>> /\ timers' = timers \cup {w}
            /\ w \notin Known /\ ctl = "run" /\ overtaken' \in {overtaken, overtaken \cup {w}}
        BY <2>2 DEF ArmTimer, Fresh, Overtake
      <3>2. w \notin Handed \cup ran
        BY <3>1 DEF Known
      <3>3. Handed' = Handed \cup {w} /\ Caused' = Caused
        BY <3>1 DEF Handed, Caused, Queue, Held, Expired, Reported
      <3> QED BY <3>1, <3>2, <3>3 DEF Pool!Next, Pool!Hand
    <2>3. CASE AddEvent(w)
      <3>1. UNCHANGED <<mtask, job, timers, due, ready, got, ran, ctl>> /\ waiting' = waiting \cup {w}
            /\ w \notin Known /\ ctl = "run" /\ overtaken' \in {overtaken, overtaken \cup {w}}
        BY <2>3 DEF AddEvent, Fresh, Overtake
      <3>2. w \notin Handed \cup ran
        BY <3>1 DEF Known
      <3>3. Queue' = Queue /\ Held' = Held /\ Expired' = Expired /\ Reported' = Reported
        BY <3>1 DEF Queue, Held, Expired, Reported
      <3>4. w \notin Reported /\ w \notin ready
        BY <3>1, <3>2 DEF ReportShape, Known, Handed, TypeOK
      <3>5. Handed' = Handed \cup {w} /\ Caused' = Caused
        BY <3>1, <3>3, <3>4 DEF Handed, Caused
      <3> QED BY <3>1, <3>2, <3>5 DEF Pool!Next, Pool!Hand
    <2>4. CASE Expire(w)
      <3>1. UNCHANGED <<mtask, job, timers, waiting, ready, got, ran, overtaken, ctl>> /\ due' = due \cup {w}
            /\ w \in timers \ due
        BY <2>4 DEF Expire
      <3>2. Queue' = Queue /\ Held' = Held /\ Expired' = Expired /\ Reported' = Reported
        BY <3>1 DEF Queue, Held, Expired, Reported
      <3>3. Handed' = Handed /\ Caused' = Caused \cup {w} /\ w \in Handed \ Caused
        BY <3>1, <3>2 DEF Handed, Caused, OnePlace
      <3> QED BY <3>1, <3>3 DEF Pool!Next, Pool!Cause
    <2>5. CASE BecomeReady(w)
      <3>1. UNCHANGED <<mtask, job, timers, due, waiting, got, ran, overtaken, ctl>> /\ ready' = ready \cup {w}
            /\ w \in waiting \ ready
        BY <2>5 DEF BecomeReady
      <3>2. Queue' = Queue /\ Held' = Held /\ Expired' = Expired /\ Reported' = Reported
        BY <3>1 DEF Queue, Held, Expired, Reported
      <3>3. Handed' = Handed
        BY <3>1, <3>2 DEF Handed
      <3>4. CASE w \in Reported
        <4>1. Caused' = Caused
          BY <3>1, <3>2, <3>4 DEF Caused
        <4> QED BY <3>1, <3>3, <4>1 DEF Pool!wpVars
      <3>5. CASE w \notin Reported
        <4>1. Caused' = Caused \cup {w} /\ w \in Handed \ Caused
          BY <3>1, <3>2, <3>5 DEF Handed, Caused, OnePlace, TypeOK
        <4> QED BY <3>1, <3>3, <4>1 DEF Pool!Next, Pool!Cause
      <3> QED BY <3>4, <3>5
    <2> QED BY <1>6, <2>1, <2>2, <2>3, <2>4, <2>5
  <1>7. ASSUME NEW t \in Threads, ThreadStep(t)
        PROVE  [Pool!Next]_(Pool!wpVars)
    <2>1. CASE TakeTask(t)
      <3>1. PICK i \in 1..Len(mtask) :
              job' = [job EXCEPT ![t] = mtask[i]] /\ mtask' = RemoveAt(mtask, i)
        BY <2>1 DEF TakeTask
      <3>2. UNCHANGED <<timers, due, waiting, ready, got, ran, overtaken, ctl>> /\ job[t] = NoWork
        BY <2>1 DEF TakeTask, ThreadShape
      <3>3. mtask[i] \in Works /\ mtask[i] \in Queue /\ Queue' = Queue \ {mtask[i]}
        BY <3>1, TakeFacts DEF TypeOK, OnePlace, Queue
      <3>4. Held' = Held \cup {mtask[i]}
        BY <3>1, <3>2, <3>3, HeldFacts
      <3>5. Reported' = Reported /\ Expired' = Expired
        BY <3>2 DEF Reported, Expired
      <3>6. Handed' = Handed /\ Caused' = Caused
        BY <3>2, <3>3, <3>4, <3>5 DEF Handed, Caused
      <3> QED BY <3>2, <3>6 DEF Pool!wpVars
    <2>2. CASE TakeNone(t)
      BY <2>2, PoolFrame DEF TakeNone
    <2>3. CASE NotifyMe(t)
      BY <2>3, PoolFrame DEF NotifyMe
    <2>4. CASE StartWork(t)
      BY <2>4, PoolFrame DEF StartWork
    <2>5. CASE EndWork(t)
      <3>1. UNCHANGED <<mtask, timers, due, waiting, ready, got, overtaken, ctl>>
            /\ job' = [job EXCEPT ![t] = NoWork] /\ ran' = ran \cup {job[t]} /\ ctl # "off"
        BY <2>5 DEF EndWork, StopShape
      <3>2. Held' = Held \ {job[t]} /\ job[t] \in Held /\ job[t] \in Works
        BY <2>5, <3>1, HeldFacts DEF EndWork, ThreadShape, Held, TypeOK
      <3>3. Queue' = Queue /\ Reported' = Reported /\ Expired' = Expired
        BY <3>1 DEF Queue, Reported, Expired
      <3>4. Handed' = Handed \ {job[t]} /\ Caused' = Caused \ {job[t]} /\ job[t] \in Caused
        BY <3>1, <3>2, <3>3 DEF Handed, Caused, OnePlace, TypeOK
      <3> QED BY <3>1, <3>2, <3>4 DEF Pool!Next, Pool!Run
    <2>6. CASE Leave(t)
      BY <2>6, PoolFrame DEF Leave
    <2>7. CASE GoIdle(t)
      BY <2>7, PoolFrame DEF GoIdle
    <2>8. CASE WaitOver(t)
      BY <2>8, PoolFrame DEF WaitOver
    <2>9. CASE WaitMore(t)
      BY <2>9, PoolFrame DEF WaitMore
    <2>10. CASE EpollReport(t)
      <3>1. UNCHANGED <<mtask, job, timers, due, waiting, ran, overtaken, ctl>> /\ ready' = {}
        BY <2>10 DEF EpollReport
      <3>2. got[t].ios = {} /\ got'[t].ios = ready /\ got'[t].cbs = got[t].cbs
            /\ \A u \in Threads : u # t => got'[u] = got[u]
        BY <2>10 DEF EpollReport, ThreadShape, Nothing, TypeOK
      <3>3. Reported' = Reported \cup ready
        BY <3>2, ReportedFacts
      <3>4. Queue' = Queue /\ Held' = Held /\ Expired' = Expired
        BY <3>1, <3>2, ExpiredFacts DEF Queue, Held
      <3>5. Handed' = Handed /\ Caused' = Caused
        BY <3>1, <3>3, <3>4 DEF Handed, Caused
      <3> QED BY <3>1, <3>5 DEF Pool!wpVars
    <2>11. CASE EpollTimeout(t)
      BY <2>11, PoolFrame DEF EpollTimeout
    <2>12. CASE Collect(t)
      <3>1. UNCHANGED <<mtask, job, waiting, ready, ran, overtaken, ctl>> /\ timers' = timers \ due
            /\ due' = {} /\ due \subseteq timers
        BY <2>12 DEF Collect, TypeOK
      <3>2. got[t].cbs = {} /\ got'[t].cbs = due /\ got'[t].ios = got[t].ios
            /\ \A u \in Threads : u # t => got'[u] = got[u]
        BY <2>12 DEF Collect, ThreadShape, TypeOK
      <3>3. Expired' = Expired \cup due /\ Reported' = Reported
        BY <3>2, ExpiredFacts, ReportedFacts
      <3>4. Queue' = Queue /\ Held' = Held
        BY <3>1 DEF Queue, Held
      <3>5. Handed' = Handed /\ Caused' = Caused
        BY <3>1, <3>3, <3>4 DEF Handed, Caused
      <3> QED BY <3>1, <3>5 DEF Pool!wpVars
    <2>13. CASE CollectNotify(t)
      BY <2>13, PoolFrame DEF CollectNotify
    <2>14. CASE Drain(t)
      <3>1. UNCHANGED <<mtask, job, timers, due, waiting, ready, ran, overtaken, ctl>>
        BY <2>14 DEF Drain
      <3>2. got'[t].ios = got[t].ios /\ got'[t].cbs = got[t].cbs
            /\ \A u \in Threads : u # t => got'[u] = got[u]
        BY <2>14 DEF Drain, TypeOK
      <3>3. Reported' = Reported /\ Expired' = Expired
        BY <3>2, ReportedFacts, ExpiredFacts
      <3>4. Handed' = Handed /\ Caused' = Caused
        BY <3>1, <3>3 DEF Handed, Caused, Queue, Held
      <3> QED BY <3>1, <3>4 DEF Pool!wpVars
    <2>15. ASSUME NEW w \in Io, Dispatch(t, w) PROVE [Pool!Next]_(Pool!wpVars)
      <3>1. UNCHANGED <<job, timers, due, ran, overtaken, ctl>> /\ waiting' = waiting \ {w} /\ ready' = ready \ {w}
            /\ mtask' = Append(mtask, w) /\ w \in waiting /\ w \in got[t].ios
        BY <2>15 DEF Dispatch
      <3>2. got'[t].ios = got[t].ios \ {w} /\ got'[t].cbs = got[t].cbs
            /\ \A u \in Threads : u # t => got'[u] = got[u]
        BY <2>15 DEF Dispatch, TypeOK
      <3>3. Reported \ {w} \subseteq Reported' /\ Reported' \subseteq Reported
            /\ Expired' = Expired
        BY <3>2, ReportedFacts, ExpiredFacts
      <3>4. Queue' = Queue \cup {w}
        BY <3>1, AppendFacts DEF Queue, TypeOK, Works
      <3>5. Held' = Held /\ w \in Reported
        BY <3>1 DEF Held, Reported
      <3>6. Handed' = Handed /\ Caused' = Caused
        BY <3>1, <3>3, <3>4, <3>5 DEF Handed, Caused
      <3> QED BY <3>1, <3>6 DEF Pool!wpVars
    <2>16. ASSUME NEW w \in Io, SkipReport(t, w) PROVE [Pool!Next]_(Pool!wpVars)
      <3>1. UNCHANGED <<mtask, job, timers, due, waiting, ready, ran, overtaken, ctl>> /\ w \notin waiting
        BY <2>16 DEF SkipReport
      <3>2. got'[t].ios = got[t].ios \ {w} /\ got'[t].cbs = got[t].cbs
            /\ \A u \in Threads : u # t => got'[u] = got[u]
        BY <2>16 DEF SkipReport, TypeOK
      <3>3. Reported \ {w} \subseteq Reported' /\ Reported' \subseteq Reported
            /\ Expired' = Expired
        BY <3>2, ReportedFacts, ExpiredFacts
      <3>4. Queue' = Queue /\ Held' = Held
        BY <3>1 DEF Queue, Held
      <3>5. Handed' = Handed /\ Caused' = Caused
        BY <3>1, <3>3, <3>4 DEF Handed, Caused
      <3> QED BY <3>1, <3>5 DEF Pool!wpVars
    <2>17. CASE BackToRun(t)
      BY <2>17, PoolFrame DEF BackToRun
    <2>18. CASE ReadTimers(t)
      BY <2>18, PoolFrame DEF ReadTimers
    <2>19. CASE ReadPending(t)
      BY <2>19, PoolFrame DEF ReadPending
    <2>20. CASE SubmitExpired(t)
      <3> DEFINE S == got[t].cbs
      <3>1. PICK cbs \in SetToSeqs(S) : mtask' = mtask \o Pushed(cbs)
        BY <2>20 DEF SubmitExpired
      <3>2. UNCHANGED <<job, timers, due, waiting, ready, ran, overtaken, ctl>> /\ ctl # "off"
        BY <2>20 DEF SubmitExpired, StopShape
      <3>3. IsFiniteSet(S) /\ S \subseteq Expired /\ S \subseteq Works /\ S \subseteq Timed
        BY DEF TypeOK, Works, Expired
      <3>4. got'[t].cbs = {} /\ got'[t].ios = got[t].ios /\ \A u \in Threads : u # t => got'[u] = got[u]
        BY <2>20 DEF SubmitExpired, TypeOK
      <3>5. Expired' = Expired \ S /\ Reported' = Reported
        BY <3>4, ExpiredFacts, ReportedFacts
      <3> HIDE DEF S
      <3>6. Pushed(cbs) \in Seq(Works) /\ ToSet(Pushed(cbs)) \subseteq S
        BY <3>3, PushedFacts
      <3>7. Queue' = Queue \cup ToSet(Pushed(cbs)) /\ Held' = Held
        BY <3>1, <3>2, <3>6, ConcatFacts DEF TypeOK, Queue, Held
      <3> DEFINE W == S \ ToSet(Pushed(cbs))
      <3>8. Handed' = Handed \ W /\ Caused' = Caused \ W /\ W \subseteq Caused \cap Timed
        BY <3>2, <3>3, <3>5, <3>6, <3>7 DEF Handed, Caused, OnePlace, TypeOK
      <3> HIDE DEF W
      <3>9. CASE W = {}
        BY <3>2, <3>8, <3>9 DEF Pool!wpVars
      <3>10. CASE W # {}
        <4>1. Pool!Drop(W)
          BY <3>2, <3>8, <3>10 DEF Pool!Drop
        <4>2. W \in SUBSET Timed
          BY <3>8
        <4> QED BY <4>1, <4>2 DEF Pool!Next
      <3> QED BY <3>9, <3>10
    <2> QED BY <1>7, <2>1, <2>2, <2>3, <2>4, <2>5, <2>6, <2>7, <2>8, <2>9,
               <2>10, <2>11, <2>12, <2>13, <2>14, <2>15, <2>16, <2>17,
               <2>18, <2>19, <2>20
            DEF ThreadStep
  <1> QED BY <1>1, <1>2, <1>3, <1>4, <1>5, <1>6, <1>7 DEF Next, User, Finished

(* The IOManager implements WorkPool, as far as safety goes: for any       *)
(* threads and works nothing is run twice, invented or lost, save the      *)
(* callbacks that submit(begin, end) drops, and when stop() has returned   *)
(* nothing is run and nothing is outstanding, save the timers and events   *)
(* that were armed while a thread was in the middle of its canStop().      *)
THEOREM ImplementsWorkPoolSafely == Spec => Pool!Safety
  <1>1. Init => Pool!Init
    BY DEF Init, Pool!Init, Handed, Caused, Queue, Held, Expired, Reported, Nothing, ToSet
  <1>2. Inv /\ [Next]_vars => [Pool!Next]_(Pool!wpVars)
    BY PoolNext DEF Inv
  <1>3. Safety => Pool!Safety
    BY <1>1, <1>2, InvInit, InvNext, PTL DEF Safety, Pool!Safety
  <1> QED BY <1>3, PTL DEF Spec

-----------------------------------------------------------------------------
(* The timers: TimerManager. *)

(* The smallest of a set of deadlines exists: Min is what its name says,   *)
(* the first timer of the ordered m_timers.                                *)
LEMMA MinOfNaturals ==
    ASSUME NEW S, S \subseteq Nat, S # {}
    PROVE  Min(S) \in S /\ \A x \in S : Min(S) <= x
  <1> DEFINE Less == {ss \in Nat \X Nat : ss[1] < ss[2]}
  <1>1. IsWellFoundedOn(Less, Nat)
    BY NatLessThanWellFounded DEF OpToRel
  <1>2. \A k, m \in Nat : k < m => <<k, m>> \in Less
    OBVIOUS
  <1> HIDE DEF Less
  <1>3. PICK x \in S : \A y \in S : ~(<<y, x>> \in Less)
    BY <1>1, WFMin
  <1>4. \A y \in S : x <= y
    <2> TAKE y \in S
    <2>1. x \in Nat /\ y \in Nat
      OBVIOUS
    <2>2. ~(y < x)
      BY <1>2, <1>3, <2>1
    <2> QED BY <2>1, <2>2
  <1>5. \E z \in S : \A y \in S : z <= y
    BY <1>4
  <1> QED BY <1>5 DEF Min

(* A timeout that starts now ends by the earliest deadline, or is zero.    *)
LEMMA TimeoutFacts ==
    ASSUME TimerTypeOK
    PROVE  /\ Timeout \in Nat
           /\ \A i \in mtimers : now + Timeout <= next[i] \/ Timeout = 0
  <1> DEFINE Deadlines == {next[j] : j \in mtimers}
  <1>1. now \in Nat /\ MaxSlot \in Nat /\ None \notin Nat /\ mtimers \subseteq Timers
        /\ next \in [Timers -> Nat]
    BY ClockAssumption DEF TimerTypeOK
  <1>2. CASE mtimers = {}
    BY <1>1, <1>2 DEF Timeout, Interval
  <1>3. CASE mtimers # {}
    <2>1. Deadlines \subseteq Nat /\ Deadlines # {}
      BY <1>1, <1>3
    <2>2. Min(Deadlines) \in Nat /\ \A i \in mtimers : Min(Deadlines) <= next[i]
      BY <2>1, MinOfNaturals
    <2>3. Interval = IF now >= Min(Deadlines) THEN 0 ELSE Min(Deadlines) - now
      BY <1>3 DEF Interval
    <2>4. Interval \in Nat /\ \A i \in mtimers : now + Interval <= next[i] \/ Interval = 0
      <3> HIDE DEF Deadlines
      <3> QED BY <1>1, <2>2, <2>3
    <2>5. {MaxSlot, Interval} \subseteq Nat /\ {MaxSlot, Interval} # {}
      BY <1>1, <2>4
    <2>6. Min({MaxSlot, Interval}) \in {MaxSlot, Interval}
          /\ \A x \in {MaxSlot, Interval} : Min({MaxSlot, Interval}) <= x
      BY <2>5, MinOfNaturals
    <2>7. Timeout = Min({MaxSlot, Interval})
      BY <1>1, <2>4 DEF Timeout
    <2>8. Timeout \in Nat /\ Timeout <= Interval
      BY <2>5, <2>6, <2>7
    <2> QED BY <1>1, <2>4, <2>8
  <1> QED BY <1>2, <1>3

(* Every step of a timer, a poller and the clock keeps the types; reset()   *)
(* needs that no deadline is before its own period.                        *)
LEMMA TimerTypeNext ==
    ASSUME TimerTypeOK, ClockShape, [TimerNext]_tmVars
    PROVE  TimerTypeOK'
  <1> USE DEF clockVars, timerVars, pollVars, runVars
  <1>1. CASE UNCHANGED tmVars
    BY <1>1 DEF tmVars, TimerTypeOK
  <1>2. CASE Tick
    BY <1>2 DEF Tick, TimerTypeOK
  <1>3. CASE StepBack
    BY <1>3 DEF StepBack, TimerTypeOK
  <1>4. ASSUME NEW i \in Timers, UserStep(i) \/ InsertTimer(i) \/ NotifyFront(i) \/ RunCb(i)
        PROVE  TimerTypeOK'
    <2>1. ASSUME NEW m \in Periods, NewTimer(i, m) PROVE TimerTypeOK'
      BY <2>1, PeriodsAssumption DEF NewTimer, TimerTypeOK
    <2>2. CASE Cancel(i)
      BY <2>2 DEF Cancel, TimerTypeOK
    <2>3. CASE Refresh(i)
      BY <2>3 DEF Refresh, TimerTypeOK
    <2>4. ASSUME NEW m \in Periods, NEW fromNow \in BOOLEAN, Reset(i, m, fromNow) PROVE TimerTypeOK'
      BY <2>4, PeriodsAssumption DEF Reset, Owes, TimerTypeOK, ClockShape
    <2>5. CASE InsertTimer(i)
      BY <2>5 DEF InsertTimer, Owes, TimerTypeOK
    <2>6. CASE NotifyFront(i)
      BY <2>6 DEF NotifyFront, TimerTypeOK
    <2>7. CASE RunCb(i)
      BY <2>7 DEF RunCb, TimerTypeOK
    <2> QED BY <1>4, <2>1, <2>2, <2>3, <2>4, <2>5, <2>6, <2>7 DEF UserStep
  <1>5. ASSUME NEW p \in Pollers, PollStep(p) \/ WakeIo(p) PROVE TimerTypeOK'
    <2>1. CASE AskInterval(p)
      BY <2>1, TimeoutFacts DEF AskInterval, MoveTo, TimerTypeOK
    <2>2. CASE EpollWait(p)
      BY <2>2 DEF EpollWait, MoveTo, TimerTypeOK
    <2>3. CASE WakeTimeout(p)
      BY <2>3 DEF WakeTimeout, WakeUp, MoveTo, TimerTypeOK
    <2>4. CASE WakeTickled(p)
      BY <2>4 DEF WakeTickled, WakeUp, MoveTo, TimerTypeOK
    <2>5. CASE WakeIo(p)
      BY <2>5 DEF WakeIo, WakeUp, MoveTo, TimerTypeOK
    <2>6. CASE ListExpiredCb(p)
      BY <2>6 DEF ListExpiredCb, MoveTo, TimerTypeOK
    <2>7. CASE DrainPipe(p)
      BY <2>7 DEF DrainPipe, MoveTo, TimerTypeOK
    <2> QED BY <1>5, <2>1, <2>2, <2>3, <2>4, <2>5, <2>6, <2>7 DEF PollStep
  <1> QED BY <1>1, <1>2, <1>3, <1>4, <1>5 DEF TimerNext

(* A one-shot timer is collected or cancelled, never both. *)
LEMMA LifeNext ==
    ASSUME TimerTypeOK, LifeShape, CancelledNeverRuns, [TimerNext]_tmVars
    PROVE  (LifeShape /\ CancelledNeverRuns)'
  <1> USE DEF clockVars, timerVars, pollVars, runVars
  <1>1. CASE UNCHANGED tmVars
    BY <1>1 DEF tmVars, TimerTypeOK, LifeShape, CancelledNeverRuns
  <1>2. CASE Tick
    BY <1>2 DEF Tick, TimerTypeOK, LifeShape, CancelledNeverRuns
  <1>3. CASE StepBack
    BY <1>3 DEF StepBack, TimerTypeOK, LifeShape, CancelledNeverRuns
  <1>4. ASSUME NEW i \in Timers, UserStep(i) \/ InsertTimer(i) \/ NotifyFront(i) \/ RunCb(i)
        PROVE  (LifeShape /\ CancelledNeverRuns)'
    <2>1. ASSUME NEW m \in Periods, NewTimer(i, m) PROVE (LifeShape /\ CancelledNeverRuns)'
      BY <2>1, PeriodsAssumption DEF NewTimer, TimerTypeOK, LifeShape, CancelledNeverRuns
    <2>2. CASE Cancel(i)
      BY <2>2 DEF Cancel, TimerTypeOK, LifeShape, CancelledNeverRuns
    <2>3. CASE Refresh(i)
      BY <2>3 DEF Refresh, TimerTypeOK, LifeShape, CancelledNeverRuns
    <2>4. ASSUME NEW m \in Periods, NEW fromNow \in BOOLEAN, Reset(i, m, fromNow) PROVE (LifeShape /\ CancelledNeverRuns)'
      BY <2>4, PeriodsAssumption DEF Reset, Owes, TimerTypeOK, LifeShape, CancelledNeverRuns
    <2>5. CASE InsertTimer(i)
      BY <2>5 DEF InsertTimer, Owes, TimerTypeOK, LifeShape, CancelledNeverRuns
    <2>6. CASE NotifyFront(i)
      BY <2>6 DEF NotifyFront, TimerTypeOK, LifeShape, CancelledNeverRuns
    <2>7. CASE RunCb(i)
      BY <2>7 DEF RunCb, TimerTypeOK, LifeShape, CancelledNeverRuns
    <2> QED BY <1>4, <2>1, <2>2, <2>3, <2>4, <2>5, <2>6, <2>7 DEF UserStep
  <1>5. ASSUME NEW p \in Pollers, PollStep(p) \/ WakeIo(p) PROVE (LifeShape /\ CancelledNeverRuns)'
    <2>1. CASE AskInterval(p)
      BY <2>1 DEF AskInterval, MoveTo, TimerTypeOK, LifeShape, CancelledNeverRuns
    <2>2. CASE EpollWait(p)
      BY <2>2 DEF EpollWait, MoveTo, TimerTypeOK, LifeShape, CancelledNeverRuns
    <2>3. CASE WakeTimeout(p)
      BY <2>3 DEF WakeTimeout, WakeUp, MoveTo, TimerTypeOK, LifeShape, CancelledNeverRuns
    <2>4. CASE WakeTickled(p)
      BY <2>4 DEF WakeTickled, WakeUp, MoveTo, TimerTypeOK, LifeShape, CancelledNeverRuns
    <2>5. CASE WakeIo(p)
      BY <2>5 DEF WakeIo, WakeUp, MoveTo, TimerTypeOK, LifeShape, CancelledNeverRuns
    <2>6. CASE ListExpiredCb(p)
      BY <2>6 DEF ListExpiredCb, MoveTo, TimerTypeOK, LifeShape, CancelledNeverRuns
    <2>7. CASE DrainPipe(p)
      BY <2>7 DEF DrainPipe, MoveTo, TimerTypeOK, LifeShape, CancelledNeverRuns
    <2> QED BY <1>5, <2>1, <2>2, <2>3, <2>4, <2>5, <2>6, <2>7 DEF PollStep
  <1> QED BY <1>1, <1>2, <1>3, <1>4, <1>5 DEF TimerNext

(* A deadline is set from the clock, or moved by a change of the period. *)
LEMMA ClockNext ==
    ASSUME TimerTypeOK, ClockShape, [TimerNext]_tmVars
    PROVE  ClockShape'
  <1> USE DEF clockVars, timerVars, pollVars, runVars
  <1>1. CASE UNCHANGED tmVars
    BY <1>1 DEF tmVars, TimerTypeOK, ClockShape
  <1>2. CASE Tick
    BY <1>2 DEF Tick, TimerTypeOK, ClockShape
  <1>3. CASE StepBack
    BY <1>3 DEF StepBack, TimerTypeOK, ClockShape
  <1>4. ASSUME NEW i \in Timers, UserStep(i) \/ InsertTimer(i) \/ NotifyFront(i) \/ RunCb(i)
        PROVE  ClockShape'
    <2>1. ASSUME NEW m \in Periods, NewTimer(i, m) PROVE ClockShape'
      BY <2>1, PeriodsAssumption DEF NewTimer, TimerTypeOK, ClockShape
    <2>2. CASE Cancel(i)
      BY <2>2 DEF Cancel, TimerTypeOK, ClockShape
    <2>3. CASE Refresh(i)
      BY <2>3 DEF Refresh, TimerTypeOK, ClockShape
    <2>4. ASSUME NEW m \in Periods, NEW fromNow \in BOOLEAN, Reset(i, m, fromNow) PROVE ClockShape'
      BY <2>4, PeriodsAssumption DEF Reset, Owes, TimerTypeOK, ClockShape
    <2>5. CASE InsertTimer(i)
      BY <2>5 DEF InsertTimer, Owes, TimerTypeOK, ClockShape
    <2>6. CASE NotifyFront(i)
      BY <2>6 DEF NotifyFront, TimerTypeOK, ClockShape
    <2>7. CASE RunCb(i)
      BY <2>7 DEF RunCb, TimerTypeOK, ClockShape
    <2> QED BY <1>4, <2>1, <2>2, <2>3, <2>4, <2>5, <2>6, <2>7 DEF UserStep
  <1>5. ASSUME NEW p \in Pollers, PollStep(p) \/ WakeIo(p) PROVE ClockShape'
    <2>1. CASE AskInterval(p)
      BY <2>1 DEF AskInterval, MoveTo, TimerTypeOK, ClockShape
    <2>2. CASE EpollWait(p)
      BY <2>2 DEF EpollWait, MoveTo, TimerTypeOK, ClockShape
    <2>3. CASE WakeTimeout(p)
      BY <2>3 DEF WakeTimeout, WakeUp, MoveTo, TimerTypeOK, ClockShape
    <2>4. CASE WakeTickled(p)
      BY <2>4 DEF WakeTickled, WakeUp, MoveTo, TimerTypeOK, ClockShape
    <2>5. CASE WakeIo(p)
      BY <2>5 DEF WakeIo, WakeUp, MoveTo, TimerTypeOK, ClockShape
    <2>6. CASE ListExpiredCb(p)
      BY <2>6 DEF ListExpiredCb, MoveTo, TimerTypeOK, ClockShape
    <2>7. CASE DrainPipe(p)
      BY <2>7 DEF DrainPipe, MoveTo, TimerTypeOK, ClockShape
    <2> QED BY <1>5, <2>1, <2>2, <2>3, <2>4, <2>5, <2>6, <2>7 DEF PollStep
  <1> QED BY <1>1, <1>2, <1>3, <1>4, <1>5 DEF TimerNext

(* A poller reads the clock when it wakes and keeps the value until it     *)
(* collects.                                                               *)
LEMMA PollNext ==
    ASSUME TimerTypeOK, PollShape, [TimerNext]_tmVars
    PROVE  PollShape'
  <1> USE DEF clockVars, timerVars, pollVars, runVars
  <1>1. CASE UNCHANGED tmVars
    BY <1>1 DEF tmVars, TimerTypeOK, PollShape
  <1>2. CASE Tick
    BY <1>2 DEF Tick, TimerTypeOK, PollShape
  <1>3. CASE StepBack
    BY <1>3 DEF StepBack, TimerTypeOK, PollShape
  <1>4. ASSUME NEW i \in Timers, UserStep(i) \/ InsertTimer(i) \/ NotifyFront(i) \/ RunCb(i)
        PROVE  PollShape'
    <2>1. ASSUME NEW m \in Periods, NewTimer(i, m) PROVE PollShape'
      BY <2>1, PeriodsAssumption DEF NewTimer, TimerTypeOK, PollShape
    <2>2. CASE Cancel(i)
      BY <2>2 DEF Cancel, TimerTypeOK, PollShape
    <2>3. CASE Refresh(i)
      BY <2>3 DEF Refresh, TimerTypeOK, PollShape
    <2>4. ASSUME NEW m \in Periods, NEW fromNow \in BOOLEAN, Reset(i, m, fromNow) PROVE PollShape'
      BY <2>4, PeriodsAssumption DEF Reset, Owes, TimerTypeOK, PollShape
    <2>5. CASE InsertTimer(i)
      BY <2>5 DEF InsertTimer, Owes, TimerTypeOK, PollShape
    <2>6. CASE NotifyFront(i)
      BY <2>6 DEF NotifyFront, TimerTypeOK, PollShape
    <2>7. CASE RunCb(i)
      BY <2>7 DEF RunCb, TimerTypeOK, PollShape
    <2> QED BY <1>4, <2>1, <2>2, <2>3, <2>4, <2>5, <2>6, <2>7 DEF UserStep
  <1>5. ASSUME NEW p \in Pollers, PollStep(p) \/ WakeIo(p) PROVE PollShape'
    <2>1. CASE AskInterval(p)
      BY <2>1 DEF AskInterval, MoveTo, TimerTypeOK, PollShape
    <2>2. CASE EpollWait(p)
      BY <2>2 DEF EpollWait, MoveTo, TimerTypeOK, PollShape
    <2>3. CASE WakeTimeout(p)
      BY <2>3, ClockAssumption DEF WakeTimeout, WakeUp, MoveTo, TimerTypeOK, PollShape
    <2>4. CASE WakeTickled(p)
      BY <2>4, ClockAssumption DEF WakeTickled, WakeUp, MoveTo, TimerTypeOK, PollShape
    <2>5. CASE WakeIo(p)
      BY <2>5, ClockAssumption DEF WakeIo, WakeUp, MoveTo, TimerTypeOK, PollShape
    <2>6. CASE ListExpiredCb(p)
      BY <2>6 DEF ListExpiredCb, MoveTo, TimerTypeOK, PollShape
    <2>7. CASE DrainPipe(p)
      BY <2>7 DEF DrainPipe, MoveTo, TimerTypeOK, PollShape
    <2> QED BY <1>5, <2>1, <2>2, <2>3, <2>4, <2>5, <2>6, <2>7 DEF PollStep
  <1> QED BY <1>1, <1>2, <1>3, <1>4, <1>5 DEF TimerNext

(* Where TimelyWake holds for a timer: some poller will ask again, sleeps  *)
(* no longer than to the deadline d, or will be woken.                     *)
Watched(d) ==
    \/ \E p \in Pollers : place[p] \notin {"timed", "asleep"}
    \/ \E p \in Pollers : left[p] = 0 \/ now + left[p] <= d + lost[p]
    \/ tickled \/ owe # {}

(* A deadline that is not before a watched one is watched. *)
LEMMA WatchedLater ==
    ASSUME TimerTypeOK, NEW c \in Nat, NEW d \in Nat, c <= d, Watched(c)
    PROVE  Watched(d)
  <1>1. CASE \E p \in Pollers : left[p] = 0 \/ now + left[p] <= c + lost[p]
    <2>1. PICK p \in Pollers : left[p] = 0 \/ now + left[p] <= c + lost[p]
      BY <1>1
    <2>2. left[p] \in Nat /\ lost[p] \in Nat /\ now \in Nat
      BY DEF TimerTypeOK
    <2>3. left[p] = 0 \/ now + left[p] <= d + lost[p]
      BY <2>1, <2>2
    <2> QED BY <2>3 DEF Watched
  <1> QED BY <1>1 DEF Watched

(* An inserter that owes nothing has seen a timer that is not later. *)
LEMMA OwesFacts ==
    ASSUME NEW i, NEW n, NEW o \in Owes(i, n)
    PROVE  \/ o = owe \cup {i}
           \/ o = owe /\ \E j \in mtimers \ {i} : next[j] <= n
  BY DEF Owes, MayBeBehind

(* Whoever brings a deadline nearer than every other one owes a wake-up,   *)
(* and whoever computes a timeout has looked at every deadline.            *)
LEMMA TimelyNext ==
    ASSUME TimerTypeOK, LifeShape, ClockShape, TimelyWake, [TimerNext]_tmVars
    PROVE  TimelyWake'
  <1> USE DEF clockVars, timerVars, pollVars, runVars
  <1>0. ~back => \A i \in mtimers : Watched(next[i])
    BY DEF TimelyWake, Watched
  <1> SUFFICES ASSUME ~back', NEW k \in mtimers' PROVE Watched(next[k])'
    BY DEF TimelyWake, Watched
  <1>1. CASE UNCHANGED tmVars
    BY <1>0, <1>1 DEF tmVars, Watched
  <1>2. CASE Tick
    <2>1. Watched(next[k]) /\ k \in Timers /\ next' = next
      BY <1>0, <1>2 DEF Tick, TimerTypeOK
    <2>2. UNCHANGED <<tickled, place, owe>>
      BY <1>2 DEF Tick
    <2>3. CASE \E p \in Pollers : left[p] = 0 \/ now + left[p] <= next[k] + lost[p]
      <3>1. PICK p \in Pollers : left[p] = 0 \/ now + left[p] <= next[k] + lost[p]
        BY <2>3
      <3>2. left[p] \in Nat /\ lost[p] \in Nat /\ now \in Nat /\ next[k] \in Nat /\ MaxNow \in Nat
        BY <2>1, ClockAssumption DEF TimerTypeOK
      <3>3. /\ now' = IF now < MaxNow THEN now + 1 ELSE now
            /\ left'[p] = IF place[p] = "asleep" /\ left[p] > 0 THEN left[p] - 1 ELSE left[p]
            /\ lost'[p] = IF place[p] = "timed" /\ now < MaxNow THEN lost[p] + 1 ELSE lost[p]
        BY <1>2 DEF Tick
      <3>4. CASE place[p] \notin {"timed", "asleep"}
        BY <2>2, <3>4 DEF Watched
      <3>5. CASE place[p] = "timed"
        <4>1. left'[p] = 0 \/ now' + left'[p] <= next[k] + lost'[p]
          BY <3>1, <3>2, <3>3, <3>5
        <4> QED BY <2>1, <4>1 DEF Watched
      <3>6. CASE place[p] = "asleep"
        <4>1. left'[p] = 0 \/ now' + left'[p] <= next[k] + lost'[p]
          BY <3>1, <3>2, <3>3, <3>6
        <4> QED BY <2>1, <4>1 DEF Watched
      <3> QED BY <3>4, <3>5, <3>6
    <2> QED BY <2>1, <2>2, <2>3 DEF Watched
  <1>3. CASE StepBack
    BY <1>3 DEF StepBack
  <1>4. ASSUME NEW i \in Timers, UserStep(i) \/ InsertTimer(i) \/ NotifyFront(i) \/ RunCb(i)
        PROVE  Watched(next[k])'
    <2>1. ASSUME NEW m \in Periods, NewTimer(i, m) PROVE Watched(next[k])'
      <3>1. k \in mtimers /\ k # i
        BY <2>1 DEF NewTimer, LifeShape
      <3>2. next'[k] = next[k] /\ UNCHANGED <<clockVars, owe, pollVars>>
        BY <2>1, <3>1 DEF NewTimer, TimerTypeOK
      <3> QED BY <1>0, <3>1, <3>2 DEF Watched
    <2>2. CASE Cancel(i)
      BY <1>0, <2>2 DEF Cancel, Watched
    <2>3. CASE Refresh(i)
      <3>1. k \in mtimers /\ ~back /\ UNCHANGED <<clockVars, owe, pollVars>>
        BY <2>3 DEF Refresh
      <3>2. next[k] \in Nat /\ next'[k] \in Nat /\ next[k] <= next'[k]
        BY <2>3, <3>1 DEF Refresh, TimerTypeOK, ClockShape
      <3>3. Watched(next'[k])
        BY <1>0, <3>1, <3>2, WatchedLater
      <3> QED BY <3>1, <3>3 DEF Watched
    <2>4. ASSUME NEW m \in Periods, NEW fromNow \in BOOLEAN, Reset(i, m, fromNow)
          PROVE  Watched(next[k])'
      <3>1. CASE owe' # {}
        BY <3>1 DEF Watched
      <3>2. CASE owe' = {}
        <4>1. mtimers' = mtimers /\ ~back /\ UNCHANGED <<clockVars, pollVars>>
          BY <2>4 DEF Reset
        <4>2. /\ owe' \in Owes(i, next'[i])
              /\ \A j \in Timers \ {i} : next'[j] = next[j]
              /\ next' \in [Timers -> Nat]
          BY <2>4, PeriodsAssumption DEF Reset, TimerTypeOK, ClockShape
        <4>3. owe = {} /\ \E j \in mtimers \ {i} : next[j] <= next'[i]
          BY <3>2, <4>2, OwesFacts
        <4>4. PICK j \in mtimers \ {i} : next[j] <= next'[i]
          BY <4>3
        <4>5. k \in Timers /\ j \in Timers /\ next[k] \in Nat /\ next[j] \in Nat
          BY <4>1 DEF TimerTypeOK
        <4>6. Watched(next'[k])
          <5>1. CASE k = i
            BY <1>0, <4>1, <4>2, <4>4, <4>5, <5>1, WatchedLater
          <5>2. CASE k # i
            BY <1>0, <4>1, <4>2, <4>5, <5>2
          <5> QED BY <5>1, <5>2
        <4> QED BY <3>2, <4>1, <4>3, <4>6 DEF Watched
      <3> QED BY <3>1, <3>2
    <2>5. CASE InsertTimer(i)
      <3>1. CASE owe' # {}
        BY <3>1 DEF Watched
      <3>2. CASE owe' = {}
        <4>1. mtimers' = mtimers \cup {i} /\ ~back /\ UNCHANGED <<clockVars, pollVars, next>>
              /\ owe' \in Owes(i, next[i])
          BY <2>5 DEF InsertTimer
        <4>2. owe = {} /\ \E j \in mtimers \ {i} : next[j] <= next[i]
          BY <3>2, <4>1, OwesFacts
        <4>3. PICK j \in mtimers \ {i} : next[j] <= next[i]
          BY <4>2
        <4>4. next[i] \in Nat /\ next[j] \in Nat
          BY DEF TimerTypeOK
        <4>5. Watched(next[k])
          <5>1. CASE k = i
            BY <1>0, <4>1, <4>3, <4>4, <5>1, WatchedLater
          <5>2. CASE k # i
            BY <1>0, <4>1, <5>2
          <5> QED BY <5>1, <5>2
        <4> QED BY <3>2, <4>1, <4>2, <4>5 DEF Watched
      <3> QED BY <3>1, <3>2
    <2>6. CASE NotifyFront(i)
      <3>1. PICK q \in Pollers : TRUE
        BY PollersAssumption
      <3>2. CASE place[q] = "out"
        BY <2>6, <3>2 DEF NotifyFront, Watched
      <3>3. CASE place[q] # "out"
        BY <2>6, <3>3 DEF NotifyFront, Watched
      <3> QED BY <3>2, <3>3
    <2>7. CASE RunCb(i)
      BY <1>0, <2>7 DEF RunCb, Watched
    <2> QED BY <1>4, <2>1, <2>2, <2>3, <2>4, <2>5, <2>6, <2>7 DEF UserStep
  <1>5. ASSUME NEW p \in Pollers, PollStep(p) \/ WakeIo(p) PROVE Watched(next[k])'
    <2>1. CASE AskInterval(p)
      <3>1. k \in mtimers /\ next' = next /\ left'[p] = Timeout /\ UNCHANGED <<now, lost>>
        BY <2>1 DEF AskInterval, TimerTypeOK
      <3>2. next[k] \in Nat /\ lost[p] \in Nat /\ now \in Nat /\ Timeout \in Nat
        BY <3>1, TimeoutFacts DEF TimerTypeOK
      <3>3. Timeout = 0 \/ now + Timeout <= next[k] + lost[p]
        BY <3>1, <3>2, TimeoutFacts
      <3>4. left'[p] = 0 \/ now' + left'[p] <= next'[k] + lost'[p]
        BY <3>1, <3>3
      <3> QED BY <3>4 DEF Watched
    <2>2. CASE EpollWait(p)
      <3>1. Watched(next[k]) /\ UNCHANGED <<clockVars, timerVars, tickled, left, lost>>
        BY <1>0, <2>2 DEF EpollWait
      <3>2. \A q \in Pollers : place[q] \notin {"timed", "asleep"} => q # p /\ place'[q] = place[q]
        BY <2>2 DEF EpollWait, MoveTo, TimerTypeOK
      <3> QED BY <3>1, <3>2 DEF Watched
    <2>3. CASE WakeTimeout(p)
      BY <2>3 DEF WakeTimeout, MoveTo, TimerTypeOK, Watched
    <2>4. CASE WakeTickled(p)
      BY <2>4 DEF WakeTickled, MoveTo, TimerTypeOK, Watched
    <2>5. CASE WakeIo(p)
      BY <2>5 DEF WakeIo, MoveTo, TimerTypeOK, Watched
    <2>6. CASE ListExpiredCb(p)
      BY <2>6 DEF ListExpiredCb, MoveTo, TimerTypeOK, Watched
    <2>7. CASE DrainPipe(p)
      BY <2>7 DEF DrainPipe, MoveTo, TimerTypeOK, Watched
    <2> QED BY <1>5, <2>1, <2>2, <2>3, <2>4, <2>5, <2>6, <2>7 DEF PollStep
  <1> QED BY <1>1, <1>2, <1>3, <1>4, <1>5 DEF TimerNext

-----------------------------------------------------------------------------
(* The inductive invariant. *)
TimerInv ==
    /\ TimerTypeOK
    /\ LifeShape
    /\ ClockShape
    /\ PollShape
    /\ CancelledNeverRuns
    /\ TimelyWake

(* An empty TimerManager satisfies the invariant. *)
LEMMA TimerInvInit == TimerInit => TimerInv
  <1> SUFFICES ASSUME TimerInit PROVE TimerInv
    OBVIOUS
  <1>1. TimerTypeOK
    BY DEF TimerInit, TimerTypeOK
  <1>2. LifeShape /\ CancelledNeverRuns
    BY DEF TimerInit, LifeShape, CancelledNeverRuns
  <1>3. ClockShape
    BY DEF TimerInit, ClockShape
  <1>4. PollShape /\ TimelyWake
    BY DEF TimerInit, PollShape, TimelyWake
  <1> QED BY <1>1, <1>2, <1>3, <1>4 DEF TimerInv

(* Every step keeps the invariant. *)
LEMMA TimerInvNext == TimerInv /\ [TimerNext]_tmVars => TimerInv'
  <1> SUFFICES ASSUME TimerInv, [TimerNext]_tmVars PROVE TimerInv'
    OBVIOUS
  <1>1. TimerTypeOK /\ LifeShape /\ ClockShape /\ PollShape /\ CancelledNeverRuns /\ TimelyWake
    BY DEF TimerInv
  <1>2. TimerTypeOK'
    BY <1>1, TimerTypeNext
  <1>3. LifeShape' /\ CancelledNeverRuns'
    BY <1>1, LifeNext
  <1>4. ClockShape'
    BY <1>1, ClockNext
  <1>5. PollShape'
    BY <1>1, PollNext
  <1>6. TimelyWake'
    BY <1>1, TimelyNext
  <1> QED BY <1>2, <1>3, <1>4, <1>5, <1>6 DEF TimerInv

(* The fields of Timer and TimerManager keep their types for any number of *)
(* timers, periods and pollers; reset() never computes a negative moment.  *)
THEOREM TimerTypeCorrect == TimerSpec => []TimerTypeOK
  <1>1. TimerInv => TimerTypeOK
    BY DEF TimerInv
  <1> QED BY <1>1, TimerInvInit, TimerInvNext, PTL DEF TimerSpec

(* After cancel() of a one-shot timer has answered true no call of its     *)
(* callback is left, whatever listExpiredCb was doing meanwhile.           *)
THEOREM CancelIsFinal == TimerSpec => []CancelledNeverRuns
  <1>1. TimerInv => CancelledNeverRuns
    BY DEF TimerInv
  <1> QED BY <1>1, TimerInvInit, TimerInvNext, PTL DEF TimerSpec

(* No deadline is slept over, for any number of pollers: addTimer and      *)
(* reset() wake one when they bring the first deadline nearer, also one    *)
(* that has computed its timeout and does not sleep yet, and nobody else   *)
(* can bring it nearer.  A poller may still sleep too long by the time it  *)
(* lost before it slept.                                                   *)
THEOREM NobodyOversleeps == TimerSpec => []TimelyWake
  <1>1. TimerInv => TimelyWake
    BY DEF TimerInv
  <1> QED BY <1>1, TimerInvInit, TimerInvNext, PTL DEF TimerSpec

(* listExpiredCb compares deadlines with a clock value that has passed.    *)
THEOREM CollectsOnlyDue == TimerSpec => NeverEarly
  <1> DEFINE Due == ~back => \A i \in Timers : handed'[i] > handed[i] => next[i] <= now
  <1>1. TimerInv /\ [TimerNext]_tmVars => [Due]_tmVars
    <2> SUFFICES ASSUME TimerInv, TimerNext, ~back, NEW i \in Timers, handed'[i] > handed[i]
                 PROVE  next[i] <= now
      OBVIOUS
    <2>1. TimerTypeOK /\ PollShape
      BY DEF TimerInv
    <2>2. PICK p \in Pollers : ListExpiredCb(p)
      <3>1. ASSUME NEW j \in Timers, RunCb(j) PROVE FALSE
        BY <2>1, <3>1 DEF RunCb, TimerTypeOK
      <3>2. handed' # handed
        BY <2>1 DEF TimerTypeOK
      <3> QED BY <3>1, <3>2
              DEF TimerNext, UserStep, PollStep, Tick, StepBack, NewTimer, Cancel, Refresh, Reset, InsertTimer, NotifyFront,
                  AskInterval, EpollWait, WakeTimeout, WakeTickled, WakeIo, DrainPipe, runVars
    <2>3. i \in mtimers /\ next[i] <= seen[p] /\ seen[p] # None
      BY <2>1, <2>2 DEF ListExpiredCb, TimerTypeOK, PollShape
    <2>4. seen[p] \in Nat /\ seen[p] <= now
      BY <2>1, <2>3 DEF PollShape, TimerTypeOK
    <2> QED BY <2>1, <2>3, <2>4 DEF TimerTypeOK
  <1> QED BY <1>1, TimerInvInit, TimerInvNext, PTL DEF TimerSpec, NeverEarly

(* refresh() may leave the pollers alone: it only moves a deadline later. *)
THEOREM RefreshMovesLater == TimerSpec => RefreshNeverEarlier
  <1> DEFINE Later == ~back => \A i \in Timers : Refresh(i) => next[i] <= next'[i]
  <1>1. TimerInv /\ [TimerNext]_tmVars => [Later]_tmVars
    <2> SUFFICES ASSUME TimerInv, ~back, NEW i \in Timers, Refresh(i)
                 PROVE  next[i] <= next'[i]
      OBVIOUS
    <2>1. TimerTypeOK /\ ClockShape
      BY DEF TimerInv
    <2> QED BY <2>1 DEF Refresh, TimerTypeOK, ClockShape
  <1> QED BY <1>1, TimerInvInit, TimerInvNext, PTL DEF TimerSpec, RefreshNeverEarlier

=============================================================================
