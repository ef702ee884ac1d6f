----------------------------- MODULE Scheduler -----------------------------
(***************************************************************************)
(* The coroutine scheduler (scheduler.h, scheduler.cpp) together with the  *)
(* fibers it runs (fiber.h, fiber.cpp).                                    *)
(*                                                                         *)
(* A pool of threads executes Scheduler::run: each takes the first entry   *)
(* of the shared list m_task that it may run, resumes a fiber for it, and  *)
(* looks at the fiber's state when the fiber has switched back.  A queue   *)
(* entry is a callback (run in a fiber the thread keeps in task_fb) or a   *)
(* fiber.  A controlling thread calls start, submit and stop.              *)
(*                                                                         *)
(* What a callback computes is abstracted to what the scheduler can see of *)
(* it: it may yield READY, hand its fiber to a waker and yield HOLD,       *)
(* submit further work, and finish normally or with an exception.          *)
(***************************************************************************)
EXTENDS Naturals, FiniteSets, SequencesExt

CONSTANTS
    Threads,        \* the scheduling threads, m_thread_pool
    Fibers,         \* pool from which Fiber objects are constructed
    Works,          \* the callbacks that get submitted, each at most once
    AnyThread,      \* threadId = -1: every thread may run the task
    None,           \* a null Fiber::ptr or an empty std::function
    CbTargets,      \* values of thrNum used when a callback is submitted
    FiberTargets,   \* values of thrNum used when a fiber is submitted
    Groups,         \* sequences of callbacks passed to submit(begin, end)
    CanPark,        \* the works that may hand themselves to a waker and hold
    MaxYields,      \* bound: how often one work yields
    MaxStarts       \* bound: how often start() is called

ASSUME ThreadsAssumption == IsFiniteSet(Threads) /\ Threads # {}
ASSUME NullAssumption ==
    /\ None \notin Fibers /\ None \notin Works
    /\ AnyThread \notin Threads
ASSUME TargetsAssumption ==
    /\ CbTargets \subseteq Threads \cup {AnyThread}
    /\ FiberTargets \subseteq Threads \cup {AnyThread}
    /\ CanPark \subseteq Works
ASSUME GroupsAssumption ==
    \A g \in Groups : g \in Seq(Works) /\ Len(g) > 0
ASSUME BoundsAssumption == MaxYields \in Nat /\ MaxStarts \in Nat

VARIABLES
    mtask,      \* m_task, the list of tasks, guarded by m_mutex
    active,     \* m_active_thread_num
    idle,       \* m_idle_thread_num
    stopping,   \* m_stopping
    state,      \* Fiber::m_state of every fiber; "FREE" before construction
    mcb,        \* Fiber::m_cb of every fiber
    pc,         \* where each thread is in run()
    task,       \* run()'s local task
    taskfb,     \* run()'s local task_fb
    cur,        \* the fiber whose stack the thread is on; None: its main fiber
    wdone,      \* the thread's wait fiber is in FIBER_TERM
    ctl,        \* the thread that calls start() and stop()
    starts,     \* number of calls of start()
    parked,     \* fibers that a waker holds
    yields,     \* how often each work has yielded
    sub,        \* works passed to submit
    done,       \* works that have finished
    home        \* the thread each work was submitted to

schedVars  == <<mtask, active, idle, stopping>>
fiberVars  == <<state, mcb>>
threadVars == <<pc, task, taskfb, cur, wdone>>
ctlVars    == <<ctl, starts>>
workVars   == <<parked, yields, sub, done, home>>
vars == <<schedVars, fiberVars, threadVars, ctlVars, workVars>>

FiberState == {"INIT", "RUNNING", "HOLD", "READY", "TERM", "EXCEPT"}

Task == [fiber : Fibers \cup {None}, cb : Works \cup {None},
         thr : Threads \cup {AnyThread}]

NoTask == [fiber |-> None, cb |-> None, thr |-> AnyThread]      \* Task::reset()

FiberTask(f, thr) == [fiber |-> f, cb |-> None, thr |-> thr]
CbTask(w, thr)    == [fiber |-> None, cb |-> w, thr |-> thr]

Init ==
    /\ mtask = <<>>
    /\ active = 0
    /\ idle = 0
    /\ stopping = TRUE
    /\ state = [f \in Fibers |-> "FREE"]
    /\ mcb = [f \in Fibers |-> None]
    /\ pc = [t \in Threads |-> "off"]
    /\ task = [t \in Threads |-> NoTask]
    /\ taskfb = [t \in Threads |-> None]
    /\ cur = [t \in Threads |-> None]
    /\ wdone = [t \in Threads |-> FALSE]
    /\ ctl = "off"
    /\ starts = 0
    /\ parked = {}
    /\ yields = [w \in Works |-> 0]
    /\ sub = {}
    /\ done = {}
    /\ home = [w \in Works |-> AnyThread]

-----------------------------------------------------------------------------
(* Submitting work.  The controlling thread submits while it is not inside *)
(* stop(); a callback submits at any point of its body.                    *)

CanSubmit ==
    \/ ctl \in {"off", "running"}
    \/ \E t \in Threads : pc[t] = "run"

(* submit(callback, thrNum) *)
SubmitCb(w, thr) ==
    /\ CanSubmit
    /\ w \notin sub
    /\ mtask' = Append(mtask, CbTask(w, thr))
    /\ sub' = sub \cup {w}
    /\ home' = [home EXCEPT ![w] = thr]
    /\ UNCHANGED <<active, idle, stopping, fiberVars, threadVars, ctlVars,
                   parked, yields, done>>

(* submit(Fiber::ptr(new Fiber(callback)), thrNum) *)
SubmitFiber(w, f, thr) ==
    /\ CanSubmit
    /\ w \notin sub
    /\ state[f] = "FREE"
    /\ state' = [state EXCEPT ![f] = "INIT"]
    /\ mcb' = [mcb EXCEPT ![f] = w]
    /\ mtask' = Append(mtask, FiberTask(f, thr))
    /\ sub' = sub \cup {w}
    /\ home' = [home EXCEPT ![w] = thr]
    /\ UNCHANGED <<active, idle, stopping, threadVars, ctlVars,
                   parked, yields, done>>

(* submit(begin, end).  needNotify || submitNoLock(...) evaluates its right *)
(* operand only while needNotify is false, and submitNoLock returns whether *)
(* the list was empty: on an empty list only the first callback is pushed.  *)
Pushed(q, g) ==
    IF q = <<>> THEN <<CbTask(g[1], AnyThread)>>
                ELSE q \o [k \in 1..Len(g) |-> CbTask(g[k], AnyThread)]

SubmitGroup(g) ==
    /\ CanSubmit
    /\ \A k \in 1..Len(g) : g[k] \notin sub
    /\ mtask' = Pushed(mtask, g)
    /\ sub' = sub \cup {g[k] : k \in 1..Len(g)}
    /\ UNCHANGED <<active, idle, stopping, fiberVars, threadVars, ctlVars,
                   parked, yields, done, home>>

(* A waker (IOManager, a timer, FiberMutex) submits a fiber handed to it. *)
Wake(f) ==
    /\ f \in parked
    /\ parked' = parked \ {f}
    /\ mtask' = Append(mtask, FiberTask(f, AnyThread))
    /\ UNCHANGED <<active, idle, stopping, fiberVars, threadVars, ctlVars,
                   yields, sub, done, home>>

-----------------------------------------------------------------------------
(* Scheduler::start() and Scheduler::stop() *)

Start ==
    /\ ctl = "off" /\ starts < MaxStarts
    /\ stopping                                 \* if (!m_stopping) return
    /\ stopping' = FALSE
    /\ pc' = [t \in Threads |-> "scan"]
    /\ task' = [t \in Threads |-> NoTask]
    /\ taskfb' = [t \in Threads |-> None]
    /\ wdone' = [t \in Threads |-> FALSE]
    /\ ctl' = "running"
    /\ starts' = starts + 1
    /\ UNCHANGED <<mtask, active, idle, fiberVars, cur, workVars>>

Stop ==
    /\ ctl = "running"
    /\ stopping' = TRUE
    /\ ctl' = "stopping"
    /\ UNCHANGED <<mtask, active, idle, fiberVars, threadVars, starts, workVars>>

(* The join loop of stop() has joined every thread of the pool. *)
Join ==
    /\ ctl = "stopping"
    /\ \A t \in Threads : pc[t] = "off"
    /\ ctl' = "off"
    /\ UNCHANGED <<schedVars, fiberVars, threadVars, starts, workVars>>

-----------------------------------------------------------------------------
(* Scheduler::run(), one iteration of its loop *)

(* The loop over m_task skips tasks of other threads and fibers that have  *)
(* not yet left FIBER_RUNNING.                                             *)
Takeable(t, e) ==
    /\ e.thr \in {AnyThread, t}
    /\ e.fiber # None => state[e.fiber] # "RUNNING"

(* Under m_mutex: take the first takeable task out of the list. *)
Take(t) ==
    /\ pc[t] = "scan"
    /\ \E i \in 1..Len(mtask) :
        /\ Takeable(t, mtask[i])
        /\ \A j \in 1..(i-1) : ~Takeable(t, mtask[j])
        /\ task' = [task EXCEPT ![t] = mtask[i]]
        /\ mtask' = RemoveAt(mtask, i)
    /\ pc' = [pc EXCEPT ![t] = "taken"]
    /\ UNCHANGED <<active, idle, stopping, fiberVars, taskfb, cur, wdone,
                   ctlVars, workVars>>

(* Under m_mutex: no task of the list is takeable. *)
FindNothing(t) ==
    /\ pc[t] = "scan"
    /\ \A i \in 1..Len(mtask) : ~Takeable(t, mtask[i])
    /\ pc' = [pc EXCEPT ![t] = "idle"]
    /\ UNCHANGED <<schedVars, fiberVars, task, taskfb, cur, wdone, ctlVars, workVars>>

(* ++m_active_thread_num, after the lock has been released. *)
Activate(t) ==
    /\ pc[t] = "taken"
    /\ active' = active + 1
    /\ pc' = [pc EXCEPT ![t] = "resume"]
    /\ UNCHANGED <<mtask, idle, stopping, fiberVars, task, taskfb, cur, wdone,
                   ctlVars, workVars>>

(* task.fiber->resume(); the assertion of Fiber::resume is its guard. *)
ResumeFiber(t) ==
    LET f == task[t].fiber IN
    /\ pc[t] = "resume" /\ f # None
    /\ state[f] # "RUNNING"
    /\ state' = [state EXCEPT ![f] = "RUNNING"]
    /\ cur' = [cur EXCEPT ![t] = f]
    /\ pc' = [pc EXCEPT ![t] = "run"]
    /\ UNCHANGED <<schedVars, mcb, task, taskfb, wdone, ctlVars, workVars>>

(* A callback: Fiber::reset on task_fb, whose assertion is the guard, or a *)
(* new Fiber; then task.reset() and task_fb->resume().                     *)
ResumeCb(t, f) ==
    /\ pc[t] = "resume" /\ task[t].cb # None
    /\ IF taskfb[t] # None
          THEN f = taskfb[t] /\ state[f] \in {"INIT", "EXCEPT", "TERM"}
          ELSE state[f] = "FREE"
    /\ mcb' = [mcb EXCEPT ![f] = task[t].cb]
    /\ taskfb' = [taskfb EXCEPT ![t] = f]
    /\ task' = [task EXCEPT ![t] = NoTask]
    /\ state' = [state EXCEPT ![f] = "RUNNING"]
    /\ cur' = [cur EXCEPT ![t] = f]
    /\ pc' = [pc EXCEPT ![t] = "run"]
    /\ UNCHANGED <<schedVars, wdone, ctlVars, workVars>>

(* Mutant: the fiber submits itself before it yields, as well. *)
Mut_YieldToReady(t) ==
    LET w == mcb[cur[t]] IN
    /\ pc[t] = "run"
    /\ w # None /\ yields[w] < MaxYields
    /\ yields' = [yields EXCEPT ![w] = @ + 1]
    /\ state' = [state EXCEPT ![cur[t]] = "READY"]
    /\ mtask' = Append(mtask, FiberTask(cur[t], AnyThread))
    /\ pc' = [pc EXCEPT ![t] = "switch"]
    /\ UNCHANGED <<active, idle, stopping, mcb, task, taskfb, cur, wdone, ctlVars,
                   parked, sub, done, home>>

(* YieldToReady: m_state changes before the context is switched. *)
YieldToReady(t) ==
    LET w == mcb[cur[t]] IN
    /\ pc[t] = "run"
    /\ w # None /\ yields[w] < MaxYields
    /\ yields' = [yields EXCEPT ![w] = @ + 1]
    /\ state' = [state EXCEPT ![cur[t]] = "READY"]
    /\ pc' = [pc EXCEPT ![t] = "switch"]
    /\ UNCHANGED <<schedVars, mcb, task, taskfb, cur, wdone, ctlVars,
                   parked, sub, done, home>>

(* The callback hands Fiber::Self() to a waker, and will then hold. *)
Register(t) ==
    LET w == mcb[cur[t]] IN
    /\ pc[t] = "run"
    /\ w \in CanPark /\ yields[w] < MaxYields
    /\ yields' = [yields EXCEPT ![w] = @ + 1]
    /\ parked' = parked \cup {cur[t]}
    /\ pc' = [pc EXCEPT ![t] = "hold"]
    /\ UNCHANGED <<schedVars, fiberVars, task, taskfb, cur, wdone, ctlVars,
                   sub, done, home>>

(* YieldToHold: m_state changes before the context is switched. *)
YieldToHold(t) ==
    /\ pc[t] = "hold"
    /\ state' = [state EXCEPT ![cur[t]] = "HOLD"]
    /\ pc' = [pc EXCEPT ![t] = "switch"]
    /\ UNCHANGED <<schedVars, mcb, task, taskfb, cur, wdone, ctlVars, workVars>>

(* Fiber::Coroutine: the callback returned, or threw (m_cb is then kept). *)
Coroutine(t, outcome) ==
    LET f == cur[t] IN
    /\ pc[t] = "run"
    /\ mcb[f] # None
    /\ done' = done \cup {mcb[f]}
    /\ state' = [state EXCEPT ![f] = outcome]
    /\ mcb' = [mcb EXCEPT ![f] = IF outcome = "TERM" THEN None ELSE @]
    /\ pc' = [pc EXCEPT ![t] = "switch"]
    /\ UNCHANGED <<schedVars, task, taskfb, cur, wdone, ctlVars,
                   parked, yields, sub, home>>

(* Fiber::yield: swapcontext to the thread's main fiber is complete. *)
SwitchOut(t) ==
    /\ pc[t] = "switch"
    /\ cur' = [cur EXCEPT ![t] = None]
    /\ pc' = [pc EXCEPT ![t] = "back"]
    /\ UNCHANGED <<schedVars, fiberVars, task, taskfb, wdone, ctlVars, workVars>>

(* Mutant: the decrement is missing. *)
Mut_Deactivate(t) ==
    /\ pc[t] = "back"
    /\ pc' = [pc EXCEPT ![t] = "check"]
    /\ UNCHANGED <<schedVars, fiberVars, task, taskfb, cur, wdone, ctlVars, workVars>>

(* --m_active_thread_num *)
Deactivate(t) ==
    /\ pc[t] = "back"
    /\ active' = active - 1
    /\ pc' = [pc EXCEPT ![t] = "check"]
    /\ UNCHANGED <<mtask, idle, stopping, fiberVars, task, taskfb, cur, wdone,
                   ctlVars, workVars>>

(* The fiber that the thread resumed last. *)
Resumed(t) == IF task[t].fiber # None THEN task[t].fiber ELSE taskfb[t]

(* getState() == FIBER_READY: the fiber will be submitted again. *)
CheckReady(t) ==
    /\ pc[t] = "check"
    /\ state[Resumed(t)] = "READY"
    /\ pc' = [pc EXCEPT ![t] = "resubmit"]
    /\ UNCHANGED <<schedVars, fiberVars, task, taskfb, cur, wdone, ctlVars, workVars>>

(* A callback's fiber in FIBER_TERM or FIBER_EXCEPT is reset for the next  *)
(* callback.                                                               *)
CheckReuse(t) ==
    /\ pc[t] = "check" /\ task[t].fiber = None
    /\ state[taskfb[t]] \in {"TERM", "EXCEPT"}
    /\ state' = [state EXCEPT ![taskfb[t]] = "INIT"]
    /\ mcb' = [mcb EXCEPT ![taskfb[t]] = None]
    /\ pc' = [pc EXCEPT ![t] = "scan"]
    /\ UNCHANGED <<schedVars, task, taskfb, cur, wdone, ctlVars, workVars>>

(* Mutant: task_fb.reset() is missing, the held fiber stays in task_fb. *)
Mut_CheckRelease(t) ==
    /\ pc[t] = "check" /\ task[t].fiber = None
    /\ state[taskfb[t]] \notin {"READY", "TERM", "EXCEPT"}
    /\ pc' = [pc EXCEPT ![t] = "scan"]
    /\ UNCHANGED <<schedVars, fiberVars, task, taskfb, cur, wdone, ctlVars, workVars>>

(* A callback's fiber in another state is left to whoever resumes it. *)
CheckRelease(t) ==
    /\ pc[t] = "check" /\ task[t].fiber = None
    /\ state[taskfb[t]] \notin {"READY", "TERM", "EXCEPT"}
    /\ taskfb' = [taskfb EXCEPT ![t] = None]
    /\ pc' = [pc EXCEPT ![t] = "scan"]
    /\ UNCHANGED <<schedVars, fiberVars, task, cur, wdone, ctlVars, workVars>>

(* A fiber task that is not READY is forgotten: task.reset(). *)
CheckForget(t) ==
    /\ pc[t] = "check" /\ task[t].fiber # None
    /\ state[task[t].fiber] # "READY"
    /\ task' = [task EXCEPT ![t] = NoTask]
    /\ pc' = [pc EXCEPT ![t] = "scan"]
    /\ UNCHANGED <<schedVars, fiberVars, taskfb, cur, wdone, ctlVars, workVars>>

(* Mutant: task.reset() comes before the submit, which then gets a null    *)
(* Fiber::ptr and pushes nothing.                                          *)
Mut_ResubmitAfterReset(t) ==
    /\ pc[t] = "resubmit"
    /\ taskfb' = [taskfb EXCEPT ![t] = IF task[t].fiber # None THEN @ ELSE None]
    /\ task' = [task EXCEPT ![t] = NoTask]
    /\ pc' = [pc EXCEPT ![t] = "scan"]
    /\ UNCHANGED <<schedVars, fiberVars, cur, wdone, ctlVars, workVars>>

(* Mutant: submit(task.fiber) without the thread id. *)
Mut_ResubmitUnpinned(t) ==
    /\ pc[t] = "resubmit"
    /\ mtask' = Append(mtask, FiberTask(Resumed(t), AnyThread))
    /\ taskfb' = [taskfb EXCEPT ![t] = IF task[t].fiber # None THEN @ ELSE None]
    /\ task' = [task EXCEPT ![t] = NoTask]
    /\ pc' = [pc EXCEPT ![t] = "scan"]
    /\ UNCHANGED <<active, idle, stopping, fiberVars, cur, wdone, ctlVars, workVars>>

(* submit(task.fiber, task.threadId) or submit(task_fb, task.threadId).  A *)
(* callback's task was reset before it was resumed: its threadId is -1.    *)
Resubmit(t) ==
    /\ pc[t] = "resubmit"
    /\ mtask' = Append(mtask, FiberTask(Resumed(t), task[t].thr))
    /\ taskfb' = [taskfb EXCEPT ![t] = IF task[t].fiber # None THEN @ ELSE None]
    /\ task' = [task EXCEPT ![t] = NoTask]
    /\ pc' = [pc EXCEPT ![t] = "scan"]
    /\ UNCHANGED <<active, idle, stopping, fiberVars, cur, wdone, ctlVars, workVars>>

(* ++m_idle_thread_num and wait->resume(), unless the wait fiber is over. *)
GoIdle(t) ==
    /\ pc[t] = "idle" /\ ~wdone[t]
    /\ idle' = idle + 1
    /\ pc' = [pc EXCEPT ![t] = "wait"]
    /\ UNCHANGED <<mtask, active, stopping, fiberVars, task, taskfb, cur, wdone,
                   ctlVars, workVars>>

(* canStop(), evaluated under m_mutex *)
CanStop == stopping /\ active = 0 /\ mtask = <<>>

(* Mutant: the thread leaves run() as soon as m_stopping is set. *)
Mut_WaitOnce(t) ==
    /\ pc[t] = "wait"
    /\ wdone' = [wdone EXCEPT ![t] = stopping]
    /\ idle' = idle - 1
    /\ pc' = [pc EXCEPT ![t] = IF stopping THEN "off" ELSE "scan"]
    /\ UNCHANGED <<mtask, active, stopping, fiberVars, task, taskfb, cur,
                   ctlVars, workVars>>

(* Scheduler::wait asks canStop once, then holds or returns; the thread    *)
(* leaves the wait fiber and decrements m_idle_thread_num.                 *)
WaitOnce(t) ==
    /\ pc[t] = "wait"
    /\ wdone' = [wdone EXCEPT ![t] = CanStop]
    /\ idle' = idle - 1
    /\ pc' = [pc EXCEPT ![t] = "scan"]
    /\ UNCHANGED <<mtask, active, stopping, fiberVars, task, taskfb, cur,
                   ctlVars, workVars>>

(* The wait fiber is in FIBER_TERM: run() breaks, its locals are destroyed. *)
Exit(t) ==
    /\ pc[t] = "idle" /\ wdone[t]
    /\ taskfb' = [taskfb EXCEPT ![t] = None]
    /\ pc' = [pc EXCEPT ![t] = "off"]
    /\ UNCHANGED <<schedVars, fiberVars, task, cur, wdone, ctlVars, workVars>>

-----------------------------------------------------------------------------
Submit ==
    \/ \E w \in Works, thr \in CbTargets : SubmitCb(w, thr)
    \/ \E w \in Works, f \in Fibers, thr \in FiberTargets : SubmitFiber(w, f, thr)
    \/ \E g \in Groups : SubmitGroup(g)

ThreadStep(t) ==
    \/ Take(t) \/ FindNothing(t) \/ Activate(t)
    \/ ResumeFiber(t) \/ \E f \in Fibers : ResumeCb(t, f)
    \/ YieldToReady(t) \/ Register(t) \/ YieldToHold(t)
    \/ \E outcome \in {"TERM", "EXCEPT"} : Coroutine(t, outcome)
    \/ SwitchOut(t) \/ Deactivate(t)
    \/ CheckReady(t) \/ CheckReuse(t) \/ CheckRelease(t) \/ CheckForget(t)
    \/ Resubmit(t)
    \/ GoIdle(t) \/ WaitOnce(t) \/ Exit(t)

(* The program ends after its last stop(). *)
Finished ==
    /\ ctl = "off" /\ starts = MaxStarts
    /\ UNCHANGED vars

Next ==
    \/ Submit
    \/ \E f \in Fibers : Wake(f)
    \/ Start \/ Stop \/ Join
    \/ \E t \in Threads : ThreadStep(t)
    \/ Finished

Spec == Init /\ [][Next]_vars

(* Every scheduling thread is run by the operating system, join() returns  *)
(* when the threads have returned, and a waker eventually wakes.           *)
FairSpec ==
    /\ Spec
    /\ \A t \in Threads : WF_vars(ThreadStep(t))
    /\ \A f \in Fibers : WF_vars(Wake(f))
    /\ WF_vars(Join)

-----------------------------------------------------------------------------
(* Properties *)

ThreadPC == {"off", "scan", "taken", "resume", "run", "hold", "switch", "back",
             "check", "resubmit", "idle", "wait"}

(* Type invariant: the fields of Scheduler, Fiber and run()'s locals. *)
TypeOK ==
    /\ mtask \in Seq(Task)
    /\ active \in Nat /\ idle \in Nat
    /\ stopping \in BOOLEAN
    /\ state \in [Fibers -> FiberState \cup {"FREE"}]
    /\ mcb \in [Fibers -> Works \cup {None}]
    /\ pc \in [Threads -> ThreadPC]
    /\ task \in [Threads -> Task]
    /\ taskfb \in [Threads -> Fibers \cup {None}]
    /\ cur \in [Threads -> Fibers \cup {None}]
    /\ wdone \in [Threads -> BOOLEAN]
    /\ ctl \in {"off", "running", "stopping"}
    /\ starts \in Nat
    /\ parked \subseteq Fibers
    /\ yields \in [Works -> Nat]
    /\ sub \subseteq Works /\ done \subseteq Works
    /\ home \in [Works -> Threads \cup {AnyThread}]

ActivePC == {"resume", "run", "hold", "switch", "back"}

(* The number of threads whose program counter is in A. *)
Count(p, A) == Cardinality({t \in Threads : p[t] \in A})

(* The counters that canStop() and hasIdleThreads() consult are exact:     *)
(* m_active_thread_num counts the threads inside a task, and               *)
(* m_idle_thread_num those inside the wait fiber, whatever path through    *)
(* run() each of them took.                                                *)
CountersExact ==
    /\ active = Count(pc, ActivePC)
    /\ idle = Count(pc, {"wait"})

(* No two threads are ever on the stack of the same fiber: a fiber is not  *)
(* resumed before its previous swapcontext is complete (the race that the  *)
(* comment in run() is about).                                             *)
FiberRunsOnOneThread ==
    \A t, u \in Threads : cur[t] # None /\ cur[t] = cur[u] => t = u

(* The assertions of Fiber::resume and Fiber::reset hold when run() calls  *)
(* them, and a fiber whose Coroutine is over is never resumed (it would    *)
(* return from Coroutine and end the thread).                              *)
ResumeLegal ==
    \A t \in Threads : pc[t] = "resume" =>
        IF task[t].fiber # None THEN state[task[t].fiber] \in {"INIT", "READY", "HOLD"}
        ELSE taskfb[t] # None => state[taskfb[t]] \in {"INIT", "EXCEPT", "TERM"}

(* Fiber f is somewhere from which it will be resumed or finished. *)
Reachable(f) ==
    \/ \E i \in 1..Len(mtask) : mtask[i].fiber = f
    \/ \E t \in Threads : task[t].fiber = f
    \/ \E t \in Threads : taskfb[t] = f /\ pc[t] \in ActivePC \cup {"check", "resubmit"}
    \/ f \in parked

(* A submitted callback that has not finished is still in m_task, in some  *)
(* thread's hands, or the body of a fiber that something still refers to.  *)
NoLostWork ==
    \A w \in sub \ done :
        \/ \E i \in 1..Len(mtask) : mtask[i].cb = w
        \/ \E t \in Threads : task[t].cb = w
        \/ \E f \in Fibers : /\ mcb[f] = w
                             /\ state[f] \notin {"FREE", "TERM", "EXCEPT"}
                             /\ Reachable(f)

(* A work submitted with a thread id runs on that thread only, also after  *)
(* it has yielded and been submitted again.                                *)
PinnedRunsHome ==
    \A t \in Threads : pc[t] = "run" /\ mcb[cur[t]] # None =>
        home[mcb[cur[t]]] \in {AnyThread, t}

(* Works bound to a thread that has left run(): submitted after its wait   *)
(* fiber has found nothing to wait for, by a work on another thread.       *)
Stranded == {w \in sub \ done : home[w] # AnyThread /\ pc[home[w]] = "off"}

(* stop() returns only when every submitted work has finished, although    *)
(* threads may leave run() one by one while others still create work; only *)
(* works bound to a thread that had left by then stay behind.              *)
StopDrains ==
    [][ctl = "stopping" /\ ctl' = "off" =>
          /\ sub \ done \subseteq Stranded
          /\ \A i \in 1..Len(mtask) : mtask[i].thr # AnyThread]_vars

(* What is submitted while the scheduler runs eventually finishes, or is   *)
(* left behind by the thread it is bound to.                               *)
WorkCompletes == \A w \in Works : (w \in sub /\ ctl # "off") ~> (w \in done \/ w \in Stranded)

(* stop() returns: its join loop does not wait for ever, unless for a      *)
(* thread that finds the queue never empty because of such a work.         *)
StopReturns == (ctl = "stopping") ~> (ctl = "off" \/ Stranded # {})

-----------------------------------------------------------------------------
(* The inductive strengthening that the proofs in SchedulerProofs use. *)

(* No scheduling thread exists outside start() .. stop(), and a thread in  *)
(* a callback's body is on the stack of some fiber.                        *)
ThreadShape ==
    /\ ctl = "off" => \A t \in Threads : pc[t] = "off"
    /\ \A t \in Threads : pc[t] \in {"run", "hold", "switch"} => cur[t] \in Fibers

(* A queue entry is a fiber or a callback, never both and never neither. *)
EntryShape(e) == (e.fiber = None) <=> (e.cb # None)

AfterResumePC == {"run", "switch", "back", "check", "resubmit"}

(* What run()'s locals and the fiber's state are at each point of the loop *)
(* when no work parks.                                                     *)
LocalShape(t) ==
    /\ pc[t] \in {"off", "scan", "idle", "wait"} => task[t] = NoTask
    /\ pc[t] \in {"taken", "resume"} =>
         /\ EntryShape(task[t])
         /\ task[t].fiber # None => state[task[t].fiber] \in {"INIT", "READY"}
    /\ pc[t] \in AfterResumePC =>
         /\ task[t].cb = None /\ Resumed(t) # None
         /\ task[t].fiber = None => task[t] = NoTask
    /\ pc[t] \in {"run", "switch"} => cur[t] = Resumed(t)
    /\ pc[t] \notin {"run", "switch"} => cur[t] = None
    /\ pc[t] = "run" => state[Resumed(t)] = "RUNNING"
    /\ pc[t] \in {"switch", "back", "check"} => state[Resumed(t)] \in {"READY", "TERM", "EXCEPT"}
    /\ pc[t] = "resubmit" => state[Resumed(t)] = "READY"
    /\ taskfb[t] # None =>
         \/ state[taskfb[t]] = "INIT"
         \/ pc[t] \in AfterResumePC /\ task[t].fiber = None

(* Every fiber is in at most one place: one queue entry, one thread's task *)
(* or one thread's task_fb.                                                *)
OnePlace ==
    /\ \A i, j \in 1..Len(mtask) :
         mtask[i].fiber # None /\ mtask[i].fiber = mtask[j].fiber => i = j
    /\ \A i \in 1..Len(mtask), t \in Threads :
         mtask[i].fiber # None => mtask[i].fiber \notin {task[t].fiber, taskfb[t]}
    /\ \A t, u \in Threads : task[t].fiber # None =>
         /\ task[t].fiber # taskfb[u]
         /\ task[t].fiber = task[u].fiber => t = u
    /\ \A t, u \in Threads : taskfb[t] # None /\ taskfb[t] = taskfb[u] => t = u

QueueShape ==
    \A i \in 1..Len(mtask) :
        /\ EntryShape(mtask[i])
        /\ mtask[i].fiber # None => state[mtask[i].fiber] \in {"INIT", "READY"}

(* When no work parks itself (CanPark = {}): every fiber has one owner and *)
(* the state its place calls for.  FiberRunsOnOneThread and ResumeLegal    *)
(* follow from it.                                                         *)
Ownership ==
    /\ parked = {}
    /\ \A t \in Threads : pc[t] # "hold"
    /\ QueueShape
    /\ OnePlace
    /\ \A t \in Threads : LocalShape(t)

(* With one thread works may park.  The thread is on its way off the stack *)
(* of fiber f, which a waker has or has already submitted again.           *)
Leaving(t, f) ==
    /\ f = Resumed(t)
    /\ \/ pc[t] = "hold"
       \/ pc[t] \in {"switch", "back", "check"} /\ state[f] = "HOLD"

(* Fiber f is in m_task or with a waker: nothing else refers to it, and its *)
(* state is in S, unless the thread is still leaving it.                    *)
GivenAway(f, S) ==
    \A t \in Threads :
        \/ Leaving(t, f)
        \/ state[f] \in S /\ f \notin {task[t].fiber, taskfb[t]}

(* What run()'s locals and the fiber's state are at each point of the loop *)
(* when works may park.                                                    *)
ParkShape(t) ==
    /\ pc[t] \in {"off", "scan", "idle", "wait"} => task[t] = NoTask
    /\ pc[t] \in {"taken", "resume"} =>
         /\ EntryShape(task[t])
         /\ task[t].fiber # None => state[task[t].fiber] \in {"INIT", "READY", "HOLD"}
    /\ pc[t] \in AfterResumePC \cup {"hold"} =>
         /\ task[t].cb = None /\ Resumed(t) # None
         /\ task[t].fiber = None => task[t] = NoTask
    /\ cur[t] = IF pc[t] \in {"run", "hold", "switch"} THEN Resumed(t) ELSE None
    /\ pc[t] \in {"run", "hold"} => state[Resumed(t)] = "RUNNING"
    /\ pc[t] \in {"switch", "back", "check"} =>
         state[Resumed(t)] \in {"READY", "HOLD", "TERM", "EXCEPT"}
    /\ pc[t] = "resubmit" => state[Resumed(t)] = "READY"
    /\ taskfb[t] # None =>
         /\ taskfb[t] # task[t].fiber
         /\ \/ state[taskfb[t]] = "INIT"
            \/ pc[t] \in AfterResumePC \cup {"hold"} /\ task[t].fiber = None

(* The ownership of fibers by a single thread, m_task and the wakers.      *)
(* ResumeLegal follows from it.                                            *)
SingleOwnership ==
    /\ \A i \in 1..Len(mtask) : EntryShape(mtask[i])
    /\ \A i, j \in 1..Len(mtask) :
         mtask[i].fiber # None /\ mtask[i].fiber = mtask[j].fiber => i = j
    /\ \A i \in 1..Len(mtask) : mtask[i].fiber # None =>
         mtask[i].fiber \notin parked /\ GivenAway(mtask[i].fiber, {"INIT", "READY", "HOLD"})
    /\ \A f \in parked : GivenAway(f, {"HOLD"})
    /\ \A t \in Threads : ParkShape(t)

Queue == ToSet(mtask)

(* What the queue, the threads and the fibers know of a work when no work  *)
(* parks: only what has been submitted is referred to.                     *)
SubShape ==
    /\ \A w \in Works \ sub : home[w] = AnyThread
    /\ \A e \in Queue : e.cb \in sub \cup {None}
    /\ \A t \in Threads : task[t].cb \in sub \cup {None}
    /\ \A f \in Fibers : mcb[f] \in sub \cup {None}

(* A task_fb that waits for its next callback has no body. *)
BodyShape ==
    \A t \in Threads : taskfb[t] # None =>
        \/ mcb[taskfb[t]] = None
        \/ pc[t] \in AfterResumePC /\ task[t].fiber = None

(* A task is bound to the home of its work, or to no thread; to the home   *)
(* exactly if callbacks are submitted without a thread id, because a       *)
(* callback loses it when it yields.                                       *)
CbHome(w, thr) ==
    w # None => /\ thr \in {home[w], AnyThread}
                /\ CbTargets \subseteq {AnyThread} => home[w] = AnyThread
FiberHome(f, thr) ==
    f # None /\ mcb[f] # None =>
        /\ thr \in {home[mcb[f]], AnyThread}
        /\ CbTargets \subseteq {AnyThread} => thr = home[mcb[f]]

HomeShape ==
    /\ \A e \in Queue : CbHome(e.cb, e.thr) /\ FiberHome(e.fiber, e.thr)
    /\ \A t \in Threads :
         /\ task[t].thr \in {AnyThread, t}
         /\ CbHome(task[t].cb, task[t].thr) /\ FiberHome(task[t].fiber, task[t].thr)
         /\ FiberHome(taskfb[t], AnyThread)

(* The thread will look at the queue again before it leaves run(). *)
Watching(t) == pc[t] # "off" /\ ~(pc[t] = "idle" /\ wdone[t])

(* While the scheduler is started somebody will look at what any thread    *)
(* may take.                                                               *)
DrainShape ==
    /\ ctl = "running" => ~stopping /\ \A t \in Threads : pc[t] # "off" /\ ~wdone[t]
    /\ ctl # "off" /\ (\E e \in Queue : e.thr = AnyThread) =>
         \E t \in Threads : Watching(t)

(* Where a work that has not finished is, when no work parks. *)
Located(w) ==
    \/ \E e \in Queue : e.cb = w
    \/ \E t \in Threads : task[t].cb = w
    \/ \E f \in Fibers :
         /\ mcb[f] = w /\ state[f] \notin {"FREE", "TERM", "EXCEPT"}
         /\ \/ \E e \in Queue : e.fiber = f
            \/ \E t \in Threads : task[t].fiber = f
            \/ \E t \in Threads : taskfb[t] = f /\ pc[t] \in AfterResumePC

WorkShape == \A w \in sub \ done : Located(w)

=============================================================================
