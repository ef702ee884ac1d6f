---------------------------- MODULE TimerManager ----------------------------
(***************************************************************************)
(* Timer and TimerManager (timer.h, timer.cpp), with the threads that ask  *)
(* for the next deadline, sleep in epoll_wait and collect what has expired *)
(* (IOManager::wait, iomanager.cpp).                                       *)
(*                                                                         *)
(* Every operation on m_timers runs under m_mutex and is one step.  What   *)
(* happens outside the lock is a step of its own: constructing a timer     *)
(* (which reads the clock) before it is inserted, calling the insert-at-   *)
(* front callback after it was, entering epoll_wait after the timeout was  *)
(* computed, reading the clock before collecting and the pipe after it.    *)
(***************************************************************************)
EXTENDS Integers, FiniteSetsExt

CONSTANTS
    Timers,        \* Timer objects, each constructed at most once
    Recurring,     \* the timers constructed with recurring = true
    Pollers,       \* threads in IOManager::wait
    Periods,       \* values of ms
    MaxSlot,       \* MAX_TIME_SLOT, the longest epoll_wait
    None,
    MaxNow,        \* bound: the clock
    MaxHanded      \* bound: collected calls of one timer that have not run

ASSUME TimersAssumption == Recurring \subseteq Timers
ASSUME PollersAssumption == Pollers # {}   \* IOManager is started with threads
ASSUME PeriodsAssumption == Periods \subseteq Nat
ASSUME ClockAssumption ==
    /\ MaxSlot \in Nat /\ MaxNow \in Nat /\ MaxHanded \in Nat
    /\ None \notin Nat

VARIABLES
    now,        \* the wall clock, GetCurMS()
    back,       \* history: the wall clock has been set back
    phase,      \* "none", "new": constructed and not inserted, "live"
    armed,      \* m_cb # nullptr
    next,       \* m_next
    ms,         \* m_ms
    mtimers,    \* m_timers
    owe,        \* timers whose inserter still has to call the at-front callback
    tickled,    \* a wake-up is in the notification pipe
    place,      \* where each poller is: "out" of wait(), "timed": its timeout is
                \* computed, "asleep", awake ("listing", or "told" by the pipe),
                \* "drain": about to read the pipe
    left,       \* what is left of its timeout
    lost,       \* history: clock time between computing the timeout and sleeping
    seen,       \* the clock value read by a poller that is about to collect
    handed,     \* callbacks collected and not yet run
    result      \* what cancel() has returned

timerVars == <<phase, armed, next, ms, mtimers, owe>>
pollVars  == <<tickled, place, left, lost, seen>>
runVars   == <<handed, result>>
clockVars == <<now, back>>
tmVars == <<clockVars, timerVars, pollVars, runVars>>

TimerInit ==
    /\ now = 0
    /\ back = FALSE
    /\ phase = [i \in Timers |-> "none"]
    /\ armed = [i \in Timers |-> FALSE]
    /\ next = [i \in Timers |-> 0]
    /\ ms = [i \in Timers |-> 0]
    /\ mtimers = {}
    /\ owe = {}
    /\ tickled = FALSE
    /\ place = [p \in Pollers |-> "out"]
    /\ left = [p \in Pollers |-> 0]
    /\ lost = [p \in Pollers |-> 0]
    /\ seen = [p \in Pollers |-> None]
    /\ handed = [i \in Timers |-> 0]
    /\ result = [i \in Timers |-> "none"]

(* Time passes: on the wall clock (gettimeofday), which is followed up to  *)
(* MaxNow, and for the timeouts of the pollers in epoll_wait.              *)
Tick ==
    /\ now < MaxNow \/ \E p \in Pollers : place[p] = "asleep" /\ left[p] > 0
    /\ now' = IF now < MaxNow THEN now + 1 ELSE now
    /\ left' = [p \in Pollers |-> IF place[p] = "asleep" /\ left[p] > 0 THEN left[p] - 1 ELSE left[p]]
    /\ lost' = [p \in Pollers |-> IF place[p] = "timed" /\ now < MaxNow THEN lost[p] + 1 ELSE lost[p]]
    /\ UNCHANGED <<back, timerVars, tickled, place, seen, runVars>>

(* The wall clock may be set back, once; timeouts do not follow it. *)
StepBack ==
    /\ ~back /\ back' = TRUE
    /\ now' \in 0..(now - 1)
    /\ UNCHANGED <<timerVars, pollVars, runVars>>

-----------------------------------------------------------------------------
(* Timer::Timer, called by addTimer before it takes the lock. *)
NewTimer(i, m) ==
    /\ phase[i] = "none"
    /\ phase' = [phase EXCEPT ![i] = "new"]
    /\ armed' = [armed EXCEPT ![i] = TRUE]
    /\ ms' = [ms EXCEPT ![i] = m]
    /\ next' = [next EXCEPT ![i] = now + m]
    /\ UNCHANGED <<clockVars, mtimers, owe, pollVars, runVars>>

(* Timer i with deadline n may sort before every other timer, or behind    *)
(* one: at equal deadlines the order of addresses decides.                 *)
MayBeFirst(i, n)  == \A j \in mtimers \ {i} : n <= next[j]
MayBeBehind(i, n) == \E j \in mtimers \ {i} : next[j] <= n

(* addTimer(timer, lock): the inserter that finds its timer at the front   *)
(* will call m_onTimerInsertAtFrontCb after unlocking.                     *)
Owes(i, n) ==
    {o \in {owe, owe \cup {i}} :
        \/ o = owe \cup {i} /\ MayBeFirst(i, n)
        \/ o = owe /\ MayBeBehind(i, n)}

InsertTimer(i) ==
    /\ phase[i] = "new"
    /\ phase' = [phase EXCEPT ![i] = "live"]
    /\ mtimers' = mtimers \cup {i}
    /\ owe' \in Owes(i, next[i])
    /\ UNCHANGED <<clockVars, armed, next, ms, pollVars, runVars>>

(* Mutant: only a thread that is asleep is counted idle. *)
Mut_NotifyFront(i) ==
    /\ i \in owe
    /\ owe' = owe \ {i}
    /\ tickled' = (tickled \/ \E p \in Pollers : place[p] = "asleep")
    /\ UNCHANGED <<clockVars, phase, armed, next, ms, mtimers, place, left, lost, seen, runVars>>

(* m_onTimerInsertAtFrontCb() is IOManager::notify: it writes to the pipe  *)
(* unless no thread is counted idle.  A poller inside wait() is counted,   *)
(* one outside may or may not be.                                          *)
NotifyFront(i) ==
    /\ i \in owe
    /\ owe' = owe \ {i}
    /\ tickled' \in {tickled, TRUE}
    /\ (\E p \in Pollers : place[p] # "out") => tickled'
    /\ UNCHANGED <<clockVars, phase, armed, next, ms, mtimers, place, left, lost, seen, runVars>>

(* Mutant: cancel() does not look at m_cb and always reports success. *)
Mut_CancelAlways(i) ==
    /\ phase[i] = "live"
    /\ armed' = [armed EXCEPT ![i] = FALSE]
    /\ mtimers' = mtimers \ {i}
    /\ result' = [result EXCEPT ![i] = "true"]
    /\ UNCHANGED <<clockVars, phase, next, ms, owe, pollVars, handed>>

(* Timer::cancel(): false without a callback, else the timer leaves the    *)
(* set.  The first answer is remembered.                                   *)
Cancel(i) ==
    /\ phase[i] = "live"
    /\ armed' = [armed EXCEPT ![i] = FALSE]
    /\ mtimers' = IF armed[i] THEN mtimers \ {i} ELSE mtimers
    /\ result' = [result EXCEPT ![i] =
                    IF armed[i] /\ i \in mtimers THEN "true" ELSE
                    IF @ = "none" THEN "false" ELSE @]
    /\ UNCHANGED <<clockVars, phase, next, ms, owe, pollVars, handed>>

(* Timer::refresh(), which never notifies. *)
Refresh(i) ==
    /\ phase[i] = "live" /\ armed[i] /\ i \in mtimers
    /\ next' = [next EXCEPT ![i] = now + ms[i]]
    /\ UNCHANGED <<clockVars, phase, armed, ms, mtimers, owe, pollVars, runVars>>

(* Mutant: reset() keeps the old m_ms. *)
Mut_Reset(i, m, fromNow) ==
    LET n == (IF fromNow THEN now ELSE next[i] - ms[i]) + m IN
    /\ phase[i] = "live" /\ armed[i] /\ i \in mtimers
    /\ next' = [next EXCEPT ![i] = n]
    /\ owe' \in Owes(i, n)
    /\ UNCHANGED <<clockVars, phase, armed, ms, mtimers, pollVars, runVars>>

(* Timer::reset(ms, from_now) *)
Reset(i, m, fromNow) ==
    LET n == (IF fromNow THEN now ELSE next[i] - ms[i]) + m IN
    /\ phase[i] = "live" /\ armed[i] /\ i \in mtimers
    /\ next' = [next EXCEPT ![i] = n]
    /\ ms' = [ms EXCEPT ![i] = m]
    /\ owe' \in Owes(i, n)
    /\ UNCHANGED <<clockVars, phase, armed, mtimers, pollVars, runVars>>

-----------------------------------------------------------------------------
(* getNextTimerInterval(): time to the earliest deadline; None for ~0ull.  *)
Interval ==
    IF mtimers = {} THEN None
    ELSE LET first == Min({next[j] : j \in mtimers}) IN
         IF now >= first THEN 0 ELSE first - now

(* The timeout given to epoll_wait. *)
Timeout == IF Interval = None THEN MaxSlot ELSE Min({MaxSlot, Interval})

MoveTo(p, where) == place' = [place EXCEPT ![p] = where]

(* canStop(next_timer): the timeout is computed from the timers there are. *)
AskInterval(p) ==
    /\ place[p] = "out"
    /\ left' = [left EXCEPT ![p] = Timeout]
    /\ MoveTo(p, "timed")
    /\ UNCHANGED <<clockVars, timerVars, tickled, lost, seen, runVars>>

EpollWait(p) ==
    /\ place[p] = "timed"
    /\ MoveTo(p, "asleep")
    /\ UNCHANGED <<clockVars, timerVars, tickled, left, lost, seen, runVars>>

WakeUp(p) ==
    /\ seen' = [seen EXCEPT ![p] = now]
    /\ left' = [left EXCEPT ![p] = 0] /\ lost' = [lost EXCEPT ![p] = 0]

(* epoll_wait returns, for the edge of a notification, at the timeout or   *)
(* for a descriptor; listExpiredCb starts by reading the clock.            *)
WakeTickled(p) ==
    /\ place[p] = "asleep" /\ tickled
    /\ tickled' = FALSE
    /\ MoveTo(p, "told")
    /\ WakeUp(p)
    /\ UNCHANGED <<clockVars, timerVars, runVars>>

WakeTimeout(p) ==
    /\ place[p] = "asleep" /\ ~tickled /\ left[p] = 0
    /\ MoveTo(p, "listing")
    /\ WakeUp(p)
    /\ UNCHANGED <<clockVars, timerVars, tickled, runVars>>

WakeIo(p) ==
    /\ place[p] = "asleep" /\ ~tickled
    /\ MoveTo(p, "listing")
    /\ WakeUp(p)
    /\ UNCHANGED <<clockVars, timerVars, tickled, runVars>>

(* Mutant: a timer expires one millisecond before its deadline. *)
Mut_ListExpiredEarly(p) ==
    LET expire == {i \in mtimers : next[i] <= seen[p] + 1} IN
    /\ place[p] \in {"listing", "told"}
    /\ \A i \in expire : handed[i] < MaxHanded
    /\ mtimers' = (mtimers \ expire) \cup (expire \cap Recurring)
    /\ next' = [i \in Timers |-> IF i \in expire \cap Recurring THEN now + ms[i] ELSE next[i]]
    /\ armed' = [i \in Timers |-> armed[i] /\ ~(i \in expire /\ i \notin Recurring)]
    /\ handed' = [i \in Timers |-> IF i \in expire /\ armed[i] THEN handed[i] + 1 ELSE handed[i]]
    /\ seen' = [seen EXCEPT ![p] = None]
    /\ MoveTo(p, IF place[p] = "told" THEN "drain" ELSE "out")
    /\ UNCHANGED <<clockVars, phase, ms, owe, tickled, left, lost, result>>

(* Mutant: a one-shot timer loses its callback before it is collected. *)
Mut_ListExpiredLost(p) ==
    LET expire == {i \in mtimers : next[i] <= seen[p]} IN
    /\ place[p] \in {"listing", "told"}
    /\ \A i \in expire : handed[i] < MaxHanded
    /\ mtimers' = (mtimers \ expire) \cup (expire \cap Recurring)
    /\ next' = [i \in Timers |-> IF i \in expire \cap Recurring THEN now + ms[i] ELSE next[i]]
    /\ armed' = [i \in Timers |-> armed[i] /\ ~(i \in expire /\ i \notin Recurring)]
    /\ handed' = [i \in Timers |-> IF i \in expire \cap Recurring THEN handed[i] + 1 ELSE handed[i]]
    /\ seen' = [seen EXCEPT ![p] = None]
    /\ MoveTo(p, IF place[p] = "told" THEN "drain" ELSE "out")
    /\ UNCHANGED <<clockVars, phase, ms, owe, tickled, left, lost, result>>

(* The rest of listExpiredCb, under the lock: everything whose deadline is *)
(* not after the clock value read before is collected; a recurring timer   *)
(* is inserted again, another one loses its callback.                      *)
ListExpiredCb(p) ==
    LET expire == {i \in mtimers : next[i] <= seen[p]} IN
    /\ place[p] \in {"listing", "told"}
    /\ \A i \in expire : handed[i] < MaxHanded
    /\ mtimers' = (mtimers \ expire) \cup (expire \cap Recurring)
    /\ next' = [i \in Timers |-> IF i \in expire \cap Recurring THEN now + ms[i] ELSE next[i]]
    /\ armed' = [i \in Timers |-> armed[i] /\ ~(i \in expire /\ i \notin Recurring)]
    /\ handed' = [i \in Timers |-> IF i \in expire /\ armed[i] THEN handed[i] + 1 ELSE handed[i]]
    /\ seen' = [seen EXCEPT ![p] = None]
    /\ MoveTo(p, IF place[p] = "told" THEN "drain" ELSE "out")
    /\ UNCHANGED <<clockVars, phase, ms, owe, tickled, left, lost, result>>

(* The poller that was told reads the pipe until it is empty, the bytes of *)
(* notifications that came after its own included.                         *)
DrainPipe(p) ==
    /\ place[p] = "drain"
    /\ tickled' = FALSE
    /\ MoveTo(p, "out")
    /\ UNCHANGED <<clockVars, timerVars, left, lost, seen, runVars>>

(* A scheduler thread runs a collected callback. *)
RunCb(i) ==
    /\ handed[i] > 0
    /\ handed' = [handed EXCEPT ![i] = @ - 1]
    /\ UNCHANGED <<clockVars, timerVars, pollVars, result>>

-----------------------------------------------------------------------------
UserStep(i) ==
    \/ \E m \in Periods : NewTimer(i, m)
    \/ Cancel(i)
    \/ Refresh(i)
    \/ \E m \in Periods, fromNow \in BOOLEAN : Reset(i, m, fromNow)

PollStep(p) ==
    \/ AskInterval(p) \/ EpollWait(p) \/ WakeTimeout(p) \/ WakeTickled(p)
    \/ ListExpiredCb(p) \/ DrainPipe(p)

TimerNext ==
    \/ Tick \/ StepBack
    \/ \E i \in Timers : UserStep(i) \/ InsertTimer(i) \/ NotifyFront(i) \/ RunCb(i)
    \/ \E p \in Pollers : PollStep(p) \/ WakeIo(p)

TimerSpec == TimerInit /\ [][TimerNext]_tmVars

(* Time passes; pollers, inserters and scheduler threads take their steps. *)
(* Nothing makes a descriptor ready.                                       *)
TimerFairSpec ==
    /\ TimerSpec
    /\ WF_tmVars(Tick)
    /\ \A p \in Pollers : WF_tmVars(PollStep(p))
    /\ \A i \in Timers : WF_tmVars(InsertTimer(i)) /\ WF_tmVars(NotifyFront(i)) /\ WF_tmVars(RunCb(i))

-----------------------------------------------------------------------------
(* Properties *)

(* Type invariant: the fields of Timer and TimerManager. *)
TimerTypeOK ==
    /\ now \in Nat /\ back \in BOOLEAN
    /\ phase \in [Timers -> {"none", "new", "live"}]
    /\ armed \in [Timers -> BOOLEAN]
    /\ next \in [Timers -> Nat] /\ ms \in [Timers -> Nat]
    /\ mtimers \subseteq Timers /\ owe \subseteq Timers
    /\ tickled \in BOOLEAN
    /\ place \in [Pollers -> {"out", "timed", "asleep", "listing", "told", "drain"}]
    /\ left \in [Pollers -> Nat] /\ lost \in [Pollers -> Nat]
    /\ seen \in [Pollers -> Nat \cup {None}]
    /\ handed \in [Timers -> Nat]
    /\ result \in [Timers -> {"none", "true", "false"}]

(* No callback is collected before its deadline, although the clock was    *)
(* read before the lock was taken and the timer may have been moved since. *)
NeverEarly ==
    [][~back => \A i \in Timers : handed'[i] > handed[i] => next[i] <= now]_tmVars

(* refresh() moves a deadline later, never earlier, which is why it does   *)
(* not notify the pollers.                                                 *)
RefreshNeverEarlier ==
    [][~back => \A i \in Timers : Refresh(i) => next[i] <= next'[i]]_tmVars

(* After cancel() of a one-shot timer has returned true its callback does  *)
(* not run any more.                                                       *)
CancelledNeverRuns ==
    \A i \in Timers \ Recurring : result[i] = "true" => handed[i] = 0

(* No pending timer is forgotten while everybody sleeps, also when it was  *)
(* inserted between computing a timeout and sleeping: some poller will ask *)
(* again, or its timeout ends by the deadline (or is over), or a wake-up   *)
(* is in the pipe or about to be put there.  The timeout is relative, so a *)
(* poller sleeps too long by what it lost before it slept, and no more.    *)
TimelyWake ==
    ~back => \A i \in mtimers :
        \/ \E p \in Pollers : place[p] \notin {"timed", "asleep"}
        \/ \E p \in Pollers : left[p] = 0 \/ now + left[p] <= next[i] + lost[p]
        \/ tickled \/ owe # {}

(* The callback of a timer that is due is collected, unless the timer is   *)
(* cancelled or moved, or the clock is set back.                           *)
DueIsCollected ==
    \A i \in Timers :
        (i \in mtimers /\ next[i] <= now)
            ~> (handed[i] > 0 \/ result[i] = "true" \/ next[i] > now \/ back)

-----------------------------------------------------------------------------
(* Strengthenings that make the invariants inductive. *)

(* What the fields of a Timer say together: a timer in m_timers has its    *)
(* callback, and a one-shot timer loses it when it is collected.           *)
LifeShape ==
    \A i \in Timers :
        /\ i \in mtimers => phase[i] = "live" /\ armed[i]
        /\ phase[i] = "new" => armed[i]
        /\ phase[i] # "live" => handed[i] = 0 /\ result[i] = "none"
        /\ i \notin Recurring /\ armed[i] => handed[i] = 0 /\ result[i] # "true"

(* Deadlines and the clock: a deadline is m_ms after a moment that has     *)
(* passed, unless the clock was set back since.                            *)
ClockShape ==
    /\ \A i \in Timers : ms[i] <= next[i]
    /\ ~back => \A i \in Timers : next[i] - ms[i] <= now

(* A poller keeps the clock value it has read until it collects; it is a   *)
(* moment that has passed.                                                 *)
PollShape ==
    \A p \in Pollers :
        /\ place[p] \in {"listing", "told"} => seen[p] # None
        /\ seen[p] # None => (~back => seen[p] <= now)

=============================================================================
