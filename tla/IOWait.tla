------------------------------- MODULE IOWait -------------------------------
(***************************************************************************)
(* The idle side of an IOManager (iomanager.cpp: notify, wait, canStop)    *)
(* composed with the loop of Scheduler::run that calls it: which thread    *)
(* sleeps in epoll_wait, who writes the byte that wakes it, and what it    *)
(* does before it looks at the queue again.                                *)
(*                                                                         *)
(* A work reaches the queue in one of three ways: submit(), the expiry of  *)
(* a timer, or an event of a descriptor.  Registrations and timers are in  *)
(* detail in FdEvents and TimerManager; here they are the sets of works    *)
(* that are armed and those whose cause has come.                          *)
(***************************************************************************)
EXTENDS Naturals, FiniteSets, SequencesExt

CONSTANTS
    Threads, AnyThread,
    Plain,      \* works passed to submit(cb, thrNum)
    Home,       \* the thrNum each plain work is submitted with
    Timed,      \* works armed with addTimerEvent
    Io,         \* works registered with addEvent
    MaxBytes,   \* bound: bytes in the pipe that are told apart
    MaxWorks    \* bound: works handed over in one behaviour

Works == Plain \cup Timed \cup Io
NoWork == "none"

ASSUME IOWaitAssumption ==
    /\ IsFiniteSet(Threads) /\ Threads # {} /\ AnyThread \notin Threads
    /\ NoWork \notin Works
    /\ Home \in [Works -> Threads \cup {AnyThread}]
    /\ \A w \in Timed \cup Io : Home[w] = AnyThread
    /\ MaxBytes \in Nat \ {0} /\ MaxWorks \in Nat

VARIABLES
    mtask,      \* m_task
    active,     \* m_active_thread_num
    idle,       \* m_idle_thread_num
    stopping,   \* m_stopping
    bytes,      \* bytes in the pipe m_tickle_fds
    edge,       \* an edge of the pipe that epoll has not yet reported
    timers,     \* works in m_timers
    due,        \* those whose deadline has passed
    waiting,    \* works registered with epoll, m_pending_event_count of them
    ready,      \* those whose descriptor is ready
    pc, job,    \* per thread: position in run() and wait(), task taken
    wdone,      \* the wait fiber is in FIBER_TERM
    got,        \* what epoll_wait and listExpiredCb have returned: [tickle, ios, cbs]
    ctl,        \* the thread that submits and calls stop()
    stops,      \* notify() calls stop() has left
    owed,       \* submit has pushed on an empty list: notify() is next
    ran, dropped,   \* works run, and works lost by submit(begin, end)
    missed,     \* the last notify() found no idle thread
    overtaken   \* history: works armed while a thread was inside canStop(), past
                \* the read that would have counted them

queueVars == <<mtask, active, idle, stopping>>
wakeVars  == <<bytes, edge, missed>>
armVars   == <<timers, due, waiting, ready>>
thrVars   == <<pc, job, wdone, got>>
ctlVars   == <<ctl, stops, owed>>
endVars   == <<ran, dropped, overtaken>>
vars == <<queueVars, wakeVars, armVars, thrVars, ctlVars, endVars>>

Nothing == [tickle |-> FALSE, ios |-> {}, cbs |-> {}]

Init ==
    /\ mtask = <<>> /\ active = 0 /\ idle = 0 /\ stopping = FALSE
    /\ bytes = 0 /\ edge = FALSE /\ missed = FALSE
    /\ timers = {} /\ due = {} /\ waiting = {} /\ ready = {}
    /\ pc = [t \in Threads |-> "scan"] /\ job = [t \in Threads |-> NoWork]
    /\ wdone = [t \in Threads |-> FALSE] /\ got = [t \in Threads |-> Nothing]
    /\ ctl = "run" /\ stops = 0 /\ owed = FALSE
    /\ ran = {} /\ dropped = {} /\ overtaken = {}

-----------------------------------------------------------------------------
(* Mutant: notify() counts the threads the wrong way round. *)
Mut_Notify ==
    IF idle = 0
    THEN bytes' = bytes + 1 /\ edge' = TRUE /\ missed' = FALSE
    ELSE missed' = FALSE /\ UNCHANGED <<bytes, edge>>

(* notify(): a byte for a sleeping thread, nothing when none is counted    *)
(* idle.  The pipe is registered EPOLLET: every write is a new edge.  Bytes *)
(* beyond MaxBytes are not told apart, the reader takes them all.          *)
Notify ==
    IF idle = 0
    THEN missed' = TRUE /\ UNCHANGED <<bytes, edge>>
    ELSE /\ bytes' = IF bytes < MaxBytes THEN bytes + 1 ELSE bytes
         /\ edge' = TRUE /\ missed' = FALSE

(* submit(begin, end): on an empty list only the first callback is pushed. *)
Pushed(cbs) == IF mtask = <<>> /\ cbs # <<>> THEN <<Head(cbs)>> ELSE cbs

-----------------------------------------------------------------------------
(* The users: submit() pushes under the lock and notifies after it. *)
Queue   == ToSet(mtask)
Held    == {job[t] : t \in Threads} \ {NoWork}
Expired == UNION {got[t].cbs : t \in Threads}
Handed  == Queue \cup Held \cup Expired \cup timers \cup waiting
Known   == Handed \cup ran \cup dropped

(* The works a user may hand over now: none is handed over twice. *)
Fresh == IF Cardinality(Known) < MaxWorks THEN Works \ Known ELSE {}

Submit(w) ==
    /\ ctl = "run" /\ ~owed /\ w \in Plain \cap Fresh
    /\ mtask' = Append(mtask, w)
    /\ owed' = (mtask = <<>>)
    /\ UNCHANGED <<active, idle, stopping, wakeVars, armVars, thrVars, ctl, stops, endVars>>

(* The work w is armed; some thread has passed the read that counts it. *)
Overtake(w, places) ==
    overtaken' = IF \E t \in Threads : pc[t] \in places THEN overtaken \cup {w} ELSE overtaken

(* addTimerEvent: at the front of m_timers, the manager calls notify(). *)
ArmTimer(w) ==
    /\ ctl = "run" /\ ~owed /\ w \in Timed \cap Fresh
    /\ timers' = timers \cup {w}
    /\ owed' \in {TRUE, FALSE}
    /\ Overtake(w, {"pending", "quit"})
    /\ UNCHANGED <<queueVars, wakeVars, due, waiting, ready, thrVars, ctl, stops, ran, dropped>>

AddEvent(w) ==
    /\ ctl = "run" /\ ~owed /\ w \in Io \cap Fresh
    /\ waiting' = waiting \cup {w}
    /\ Overtake(w, {"quit"})
    /\ UNCHANGED <<queueVars, wakeVars, timers, due, ready, thrVars, ctlVars, ran, dropped>>

SubmitNotify ==
    /\ owed /\ owed' = FALSE
    /\ Notify
    /\ UNCHANGED <<queueVars, armVars, thrVars, ctl, stops, endVars>>

(* The clock and the peers. *)
Expire(w) ==
    /\ w \in timers \ due /\ due' = due \cup {w}
    /\ UNCHANGED <<queueVars, wakeVars, timers, waiting, ready, thrVars, ctlVars, endVars>>

BecomeReady(w) ==
    /\ w \in waiting \ ready /\ ready' = ready \cup {w}
    /\ UNCHANGED <<queueVars, wakeVars, timers, due, waiting, thrVars, ctlVars, endVars>>

(* Scheduler::stop(): m_stopping, one notify() per thread, then join(). *)
Stop ==
    /\ ctl = "run" /\ ~owed
    /\ stopping' = TRUE /\ ctl' = "stopping" /\ stops' = Cardinality(Threads)
    /\ UNCHANGED <<mtask, active, idle, wakeVars, armVars, thrVars, owed, endVars>>

StopNotify ==
    /\ stops > 0 /\ stops' = stops - 1
    /\ Notify
    /\ UNCHANGED <<queueVars, armVars, thrVars, ctl, owed, endVars>>

Join ==
    /\ ctl = "stopping" /\ stops = 0 /\ \A t \in Threads : pc[t] = "off"
    /\ ctl' = "off"
    /\ UNCHANGED <<queueVars, wakeVars, armVars, thrVars, stops, owed, endVars>>

-----------------------------------------------------------------------------
(* Scheduler::run() *)
Goto(t, where) == pc' = [pc EXCEPT ![t] = where]

Takeable(t, w) == Home[w] \in {AnyThread, t}

(* notify_me: a task was skipped, or the list is not empty after the take. *)
TakeTask(t) ==
    /\ pc[t] = "scan"
    /\ \E i \in 1..Len(mtask) :
        /\ Takeable(t, mtask[i]) /\ \A j \in 1..(i - 1) : ~Takeable(t, mtask[j])
        /\ job' = [job EXCEPT ![t] = mtask[i]]
        /\ mtask' = RemoveAt(mtask, i)
        /\ Goto(t, IF Len(mtask) > 1 THEN "notify" ELSE "start")
    /\ UNCHANGED <<active, idle, stopping, wakeVars, armVars, wdone, got, ctlVars, endVars>>

TakeNone(t) ==
    /\ pc[t] = "scan" /\ \A i \in 1..Len(mtask) : ~Takeable(t, mtask[i])
    /\ Goto(t, IF mtask # <<>> THEN "notify" ELSE "empty")
    /\ UNCHANGED <<queueVars, wakeVars, armVars, job, wdone, got, ctlVars, endVars>>

NotifyMe(t) ==
    /\ pc[t] = "notify"
    /\ Notify
    /\ Goto(t, IF job[t] = NoWork THEN "empty" ELSE "start")
    /\ UNCHANGED <<queueVars, armVars, job, wdone, got, ctlVars, endVars>>

StartWork(t) ==
    /\ pc[t] = "start" /\ active' = active + 1
    /\ Goto(t, "run")
    /\ UNCHANGED <<mtask, idle, stopping, wakeVars, armVars, job, wdone, got, ctlVars, endVars>>

EndWork(t) ==
    /\ pc[t] = "run" /\ active' = active - 1
    /\ ran' = ran \cup {job[t]}
    /\ job' = [job EXCEPT ![t] = NoWork]
    /\ Goto(t, "scan")
    /\ UNCHANGED <<mtask, idle, stopping, wakeVars, armVars, wdone, got, ctlVars, dropped, overtaken>>

(* The wait fiber is over: run() breaks. *)
Leave(t) ==
    /\ pc[t] = "empty" /\ wdone[t]
    /\ Goto(t, "off")
    /\ UNCHANGED <<queueVars, wakeVars, armVars, job, wdone, got, ctlVars, endVars>>

GoIdle(t) ==
    /\ pc[t] = "empty" /\ ~wdone[t] /\ idle' = idle + 1
    /\ Goto(t, "wait")
    /\ UNCHANGED <<mtask, active, stopping, wakeVars, armVars, job, wdone, got, ctlVars, endVars>>

-----------------------------------------------------------------------------
(* IOManager::wait() *)

(* canStop(next_timer) is three reads, each under its own lock or none:    *)
(* the timers, the pending events, and last what Scheduler::canStop() sees. *)

(* Mutant: IOManager does not override canStop(), or asks for neither. *)
Mut_ReadTimers(t) ==
    /\ pc[t] = "wait"
    /\ Goto(t, "quit")
    /\ UNCHANGED <<queueVars, wakeVars, armVars, job, wdone, got, ctlVars, endVars>>

ReadTimers(t) ==
    /\ pc[t] = "wait"
    /\ Goto(t, IF timers = {} THEN "pending" ELSE "epoll")
    /\ UNCHANGED <<queueVars, wakeVars, armVars, job, wdone, got, ctlVars, endVars>>

ReadPending(t) ==
    /\ pc[t] = "pending"
    /\ Goto(t, IF waiting = {} THEN "quit" ELSE "epoll")
    /\ UNCHANGED <<queueVars, wakeVars, armVars, job, wdone, got, ctlVars, endVars>>

(* Scheduler::canStop() *)
CanStop == stopping /\ active = 0 /\ mtask = <<>>

(* The wait fiber returns, and run() takes the thread out of the count. *)
WaitOver(t) ==
    /\ pc[t] = "quit" /\ CanStop
    /\ wdone' = [wdone EXCEPT ![t] = TRUE] /\ idle' = idle - 1
    /\ Goto(t, "scan")
    /\ UNCHANGED <<mtask, active, stopping, wakeVars, armVars, job, got, ctlVars, endVars>>

WaitMore(t) ==
    /\ pc[t] = "quit" /\ ~CanStop
    /\ Goto(t, "epoll")
    /\ UNCHANGED <<queueVars, wakeVars, armVars, job, wdone, got, ctlVars, endVars>>

(* epoll_wait reports: an edge of the pipe, if it still holds bytes, to one *)
(* thread, and ready descriptors; one that becomes ready once more before   *)
(* the first report is handled is reported again.                           *)
Tickled == edge /\ bytes > 0

EpollReport(t) ==
    /\ pc[t] = "epoll" /\ (Tickled \/ ready # {})
    /\ got' = [got EXCEPT ![t] = [tickle |-> Tickled, ios |-> ready, cbs |-> {}]]
    /\ edge' = FALSE /\ ready' = {}
    /\ Goto(t, "collect")
    /\ UNCHANGED <<queueVars, bytes, missed, timers, due, waiting, job, wdone, ctlVars, endVars>>

(* The timeout, the next timer or the slot of 3000 ms, and nothing ready. *)
EpollTimeout(t) ==
    /\ pc[t] = "epoll" /\ ~Tickled /\ ready = {}
    /\ Goto(t, "collect")
    /\ UNCHANGED <<queueVars, wakeVars, armVars, job, wdone, got, ctlVars, endVars>>

(* listExpiredCb takes what is due out of m_timers ... *)
Collect(t) ==
    /\ pc[t] = "collect"
    /\ timers' = timers \ due /\ due' = {}
    /\ got' = [got EXCEPT ![t].cbs = due]
    /\ Goto(t, IF due # {} THEN "submit" ELSE "dispatch")
    /\ UNCHANGED <<queueVars, wakeVars, waiting, ready, job, wdone, ctlVars, endVars>>

(* ... and submit(begin, end) pushes it, under another lock. *)
SubmitExpired(t) ==
    /\ pc[t] = "submit"
    /\ \E cbs \in SetToSeqs(got[t].cbs) :
        /\ mtask' = mtask \o Pushed(cbs)
        /\ dropped' = dropped \cup (got[t].cbs \ ToSet(Pushed(cbs)))
    /\ got' = [got EXCEPT ![t].cbs = {}]
    /\ Goto(t, IF mtask = <<>> THEN "wake" ELSE "dispatch")
    /\ UNCHANGED <<active, idle, stopping, wakeVars, armVars, job, wdone, ctlVars, ran, overtaken>>

CollectNotify(t) ==
    /\ pc[t] = "wake"
    /\ Notify
    /\ Goto(t, "dispatch")
    /\ UNCHANGED <<queueVars, armVars, job, wdone, got, ctlVars, endVars>>

(* The pipe is read until it is empty. *)
Drain(t) ==
    /\ pc[t] = "dispatch" /\ got[t].tickle
    /\ bytes' = 0
    /\ got' = [got EXCEPT ![t].tickle = FALSE]
    /\ UNCHANGED <<queueVars, edge, missed, armVars, pc, job, wdone, ctlVars, endVars>>

(* triggerContext submits, and the pending count is decremented after it;  *)
(* the registration is gone from epoll.                                    *)
Dispatch(t, w) ==
    /\ pc[t] = "dispatch" /\ ~got[t].tickle /\ w \in got[t].ios \cap waiting
    /\ mtask' = Append(mtask, w)
    /\ IF mtask = <<>> THEN Notify ELSE UNCHANGED wakeVars
    /\ waiting' = waiting \ {w} /\ ready' = ready \ {w}
    /\ got' = [got EXCEPT ![t].ios = @ \ {w}]
    /\ UNCHANGED <<active, idle, stopping, timers, due, pc, job, wdone, ctlVars, endVars>>

(* A report of an event that another thread has dispatched already. *)
SkipReport(t, w) ==
    /\ pc[t] = "dispatch" /\ ~got[t].tickle /\ w \in got[t].ios \ waiting
    /\ got' = [got EXCEPT ![t].ios = @ \ {w}]
    /\ UNCHANGED <<queueVars, wakeVars, armVars, pc, job, wdone, ctlVars, endVars>>

(* YieldToHold; run() decrements m_idle_thread_num and looks at the list. *)
BackToRun(t) ==
    /\ pc[t] = "dispatch" /\ got[t] = Nothing
    /\ idle' = idle - 1
    /\ Goto(t, "scan")
    /\ UNCHANGED <<mtask, active, stopping, wakeVars, armVars, job, wdone, got, ctlVars, endVars>>

ThreadStep(t) ==
    \/ TakeTask(t) \/ TakeNone(t) \/ NotifyMe(t) \/ StartWork(t) \/ EndWork(t)
    \/ Leave(t) \/ GoIdle(t) \/ ReadTimers(t) \/ ReadPending(t) \/ WaitOver(t) \/ WaitMore(t)
    \/ EpollReport(t) \/ EpollTimeout(t) \/ Collect(t) \/ SubmitExpired(t) \/ CollectNotify(t)
    \/ Drain(t) \/ (\E w \in Io : Dispatch(t, w) \/ SkipReport(t, w)) \/ BackToRun(t)

User ==
    \/ \E w \in Works : Submit(w) \/ ArmTimer(w) \/ AddEvent(w)
    \/ Stop

Finished == ctl = "off" /\ UNCHANGED vars

Next ==
    \/ User \/ SubmitNotify \/ StopNotify \/ Join
    \/ \E w \in Works : Expire(w) \/ BecomeReady(w)
    \/ \E t \in Threads : ThreadStep(t)
    \/ Finished

Safety == Init /\ [][Next]_vars

(* Every thread runs; epoll_wait returns after at most one slot; submit()  *)
(* and stop() go on to notify().  Nothing makes a user, a clock or a peer  *)
(* act.                                                                    *)
Spec ==
    /\ Safety
    /\ \A t \in Threads : WF_vars(ThreadStep(t))
    /\ WF_vars(SubmitNotify) /\ WF_vars(StopNotify)

-----------------------------------------------------------------------------
(* Properties *)

Reported == UNION {got[t].ios : t \in Threads}
Caused == Queue \cup Held \cup Expired \cup due \cup (waiting \cap (ready \cup Reported))

(* The IOManager implements WorkPool: nothing is run twice or invented,    *)
(* what has been submitted, has expired or is ready is run although        *)
(* notify() may find nobody to wake, because epoll_wait ends after a slot, *)
(* and stop() leaves nothing behind that was not armed in the middle of a  *)
(* canStop().                                                              *)
Pool == INSTANCE WorkPool WITH
    Droppable <- Timed,
    handed <- Handed,
    caused <- Caused,
    late   <- overtaken,
    ran    <- ran,
    closed <- ctl = "off"
ImplementsWorkPool == Pool!Spec

(* All threads asleep with a work that any of them could take: then a byte *)
(* is on its way, or the last notify() found nobody counted idle.          *)
NoSilentSleep ==
    /\ \A t \in Threads : pc[t] = "epoll"
    /\ \E i \in 1..Len(mtask) : Home[mtask[i]] = AnyThread
    /\ ~owed
    => Tickled \/ missed

-----------------------------------------------------------------------------
(* Strengthenings that make the invariants inductive. *)

ThreadPC == {"scan", "notify", "start", "run", "empty", "wait", "pending", "quit",
             "epoll", "collect", "submit", "wake", "dispatch", "off"}

(* Type invariant: what is due was armed, what is ready is registered. *)
TypeOK ==
    /\ mtask \in Seq(Works)
    /\ active \in Nat /\ idle \in Nat /\ stopping \in BOOLEAN
    /\ bytes \in 0..MaxBytes /\ edge \in BOOLEAN /\ missed \in BOOLEAN
    /\ timers \subseteq Timed /\ IsFiniteSet(timers) /\ due \subseteq timers
    /\ waiting \subseteq Io /\ ready \subseteq waiting
    /\ pc \in [Threads -> ThreadPC]
    /\ job \in [Threads -> Works \cup {NoWork}]
    /\ wdone \in [Threads -> BOOLEAN]
    /\ got \in [Threads -> [tickle : BOOLEAN, ios : SUBSET Io, cbs : SUBSET Timed]]
    /\ ctl \in {"run", "stopping", "off"} /\ stops \in Nat /\ owed \in BOOLEAN
    /\ ran \subseteq Works /\ dropped \subseteq Works /\ overtaken \subseteq Works
    /\ \A t \in Threads : IsFiniteSet(got[t].cbs)

IdlePC == {"wait", "pending", "quit", "epoll", "collect", "submit", "wake", "dispatch"}

(* The number of threads whose program counter is in A. *)
Count(p, A) == Cardinality({t \in Threads : p[t] \in A})

(* What notify() and canStop() read is exact. *)
CountersExact == active = Count(pc, {"run"}) /\ idle = Count(pc, IdlePC)

(* A thread's task and its report of epoll_wait at each point of the loop; *)
(* only a thread whose wait fiber is over has left.                        *)
ThreadShape ==
    \A t \in Threads :
        /\ pc[t] \notin {"notify", "start", "run"} => job[t] = NoWork
        /\ pc[t] \in {"start", "run"} => job[t] # NoWork
        /\ pc[t] \notin {"collect", "submit", "wake", "dispatch"} => got[t] = Nothing
        /\ pc[t] # "submit" => got[t].cbs = {}
        /\ pc[t] = "off" => wdone[t]

(* A work is in one place at most. *)
OnePlace ==
    /\ IsInjective(mtask)
    /\ \A t, u \in Threads : job[t] # NoWork /\ job[t] = job[u] => t = u
    /\ \A t, u \in Threads : t # u => got[t].cbs \cap got[u].cbs = {}
    /\ Queue \cap (Held \cup Expired \cup timers \cup waiting \cup ran) = {}
    /\ Held \cap (Expired \cup timers \cup waiting \cup ran) = {}
    /\ Expired \cap (timers \cup waiting \cup ran) = {}
    /\ timers \cap (waiting \cup ran) = {} /\ waiting \cap ran = {}

(* A report is of a registered event or of one that has been handed on. *)
ReportShape == Reported \subseteq waiting \cup Queue \cup Held \cup ran

(* What canStop() has read is still so, but for works that have overtaken  *)
(* it.  Once a wait fiber is over nothing new is bound to a thread.        *)
StopShape ==
    /\ stopping <=> ctl # "run"
    /\ \A t \in Threads :
        /\ pc[t] \in {"pending", "quit"} \/ wdone[t] => timers \subseteq overtaken
        /\ pc[t] = "quit" \/ wdone[t] => waiting \subseteq overtaken
        /\ wdone[t] => stopping /\ \A w \in Queue : Home[w] = AnyThread
        /\ pc[t] = "notify" /\ job[t] = NoWork => ~wdone[t]
    /\ ctl = "off" => \A t \in Threads : pc[t] = "off"

(* Not every thread has looked at the queue for the last time while there  *)
(* is something in it.                                                     *)
LastOneLooks ==
    mtask # <<>> => \E t \in Threads : pc[t] # "off" /\ ~(pc[t] = "empty" /\ wdone[t])

(* Somebody will look at a queue that is not empty: a submitter or a byte  *)
(* in the pipe is about to wake a thread, or one is on its way to the      *)
(* scan, or the last notify() found nobody counted idle.                   *)
QueueWatched ==
    mtask # <<>> =>
        \/ owed \/ Tickled \/ missed
        \/ \E t \in Threads : pc[t] \notin {"empty", "wait", "pending", "quit", "epoll", "off"}
=============================================================================
