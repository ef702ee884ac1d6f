------------------------------- MODULE HookIO -------------------------------
(***************************************************************************)
(* The hooked system calls of one socket (hook.cpp): do_io, which all the  *)
(* reading and writing calls share, and connect_with_timeout.              *)
(*                                                                         *)
(* A call belongs to an event, READ or WRITE, and at most one fiber is     *)
(* inside a call for each event.  A call that cannot proceed arms a timer, *)
(* registers its event and holds; the poller submits it when the socket    *)
(* becomes ready, the timer's callback when the time is over.  The         *)
(* callback sets t_info->cancelled in one step and calls cancelEvent in a  *)
(* later one.  It keeps a weak pointer: once the call has returned it does *)
(* nothing.                                                                *)
(***************************************************************************)
EXTENDS Integers

CONSTANTS
    Events,      \* the events for which the program makes calls
    Connects,    \* those whose calls are connect() and not do_io()
    Timed,       \* those whose calls have a timeout
    MaxCalls,    \* bound: calls for each event
    MaxSpurious  \* bound: wake-ups by cancel, and readiness lost to others

ASSUME EventsAssumption ==
    Connects \subseteq Events /\ Timed \subseteq Events
ASSUME HookBoundAssumption == MaxCalls \in Nat /\ MaxSpurious \in Nat

VARIABLES
    iopc,        \* where the call of each event is
    open,        \* the socket has not been closed
    avail,       \* the kernel would let the call proceed
    reg,         \* events registered with the IOManager
    sub,         \* calls whose fiber has been submitted to the scheduler
    timer,       \* the timer of the current wait is in TimerManager's set
    late,        \* callbacks of this call's timers, collected and not run
    firing,      \* callbacks between setting cancelled and cancelEvent
    cancelled,   \* t_info->cancelled is ETIMEDOUT
    expired,     \* a timer of this call has expired
    ret,         \* what the last call returned
    calls,       \* calls made
    spurious     \* cancels, and readiness taken by others, so far

callVars == <<iopc, ret, calls>>
envVars  == <<open, avail, spurious>>
timeVars == <<timer, late, firing, cancelled, expired>>
ioVars == <<callVars, envVars, timeVars, reg, sub>>

CallInit ==
    /\ iopc = [e \in Events |-> "out"]
    /\ open = TRUE
    /\ avail = [e \in Events |-> FALSE]
    /\ reg = {}
    /\ sub = {}
    /\ timer = [e \in Events |-> FALSE]
    /\ late = [e \in Events |-> 0]
    /\ firing = [e \in Events |-> 0]
    /\ cancelled = [e \in Events |-> FALSE]
    /\ expired = [e \in Events |-> FALSE]
    /\ ret = [e \in Events |-> "none"]
    /\ calls = [e \in Events |-> 0]
    /\ spurious = 0

-----------------------------------------------------------------------------
(* The environment: the kernel, other users of the socket. *)

BecomeReady(e) ==
    /\ open /\ ~avail[e]
    /\ avail' = [avail EXCEPT ![e] = TRUE]
    /\ UNCHANGED <<callVars, open, spurious, timeVars, reg, sub>>

(* Another process reads what was there: the readiness was spurious. *)
LoseReady(e) ==
    /\ open /\ avail[e] /\ e \notin Connects
    /\ spurious < MaxSpurious
    /\ spurious' = spurious + 1
    /\ avail' = [avail EXCEPT ![e] = FALSE]
    /\ UNCHANGED <<callVars, open, timeVars, reg, sub>>

(* Mutant: the fiber is submitted although its event is not registered. *)
Mut_CancelEffect(e) ==
    /\ reg' = reg \ {e}
    /\ sub' = sub \cup {e}

(* cancelEvent: a registered event is removed and its fiber submitted. *)
CancelEffect(e) ==
    /\ reg' = reg \ {e}
    /\ sub' = IF e \in reg THEN sub \cup {e} ELSE sub

(* Socket::cancelRead and Socket::cancelWrite *)
UserCancel(e) ==
    /\ e \in reg
    /\ spurious < MaxSpurious
    /\ spurious' = spurious + 1
    /\ CancelEffect(e)
    /\ UNCHANGED <<callVars, open, avail, timeVars>>

(* close(): cancelAll submits the reader or else the writer; the system    *)
(* call then takes the descriptor out of epoll.  (FdEvents takes the steps *)
(* of close() apart.)                                                      *)
Close ==
    /\ open
    /\ open' = FALSE
    /\ avail' = [e \in Events |-> TRUE]          \* every call fails at once
    /\ LET first == IF "READ" \in reg THEN {"READ"} ELSE reg IN
       reg' = reg \ first /\ sub' = sub \cup first
    /\ UNCHANGED <<callVars, spurious, timeVars>>

(* Mutant: the event is removed and the fiber forgotten. *)
Mut_Report(e) ==
    /\ open /\ e \in reg /\ avail[e]
    /\ reg' = reg \ {e}
    /\ UNCHANGED <<callVars, envVars, timeVars, sub>>

(* A wait fiber dispatches the readiness that epoll_wait reported. *)
Report(e) ==
    /\ open /\ e \in reg /\ avail[e]
    /\ CancelEffect(e)
    /\ UNCHANGED <<callVars, envVars, timeVars>>

-----------------------------------------------------------------------------
(* The timer of a wait *)

(* listExpiredCb collects the callback. *)
Expire(e) ==
    /\ timer[e]
    /\ timer' = [timer EXCEPT ![e] = FALSE]
    /\ late' = [late EXCEPT ![e] = @ + 1]
    /\ expired' = [expired EXCEPT ![e] = TRUE]
    /\ UNCHANGED <<callVars, envVars, firing, cancelled, reg, sub>>

(* The callback locks its weak pointer; it returns if t_info->cancelled is *)
(* already set, else it sets it.                                           *)
TimerCb(e) ==
    /\ late[e] > 0
    /\ late' = [late EXCEPT ![e] = @ - 1]
    /\ cancelled' = [cancelled EXCEPT ![e] = TRUE]
    /\ firing' = [firing EXCEPT ![e] = IF cancelled[e] THEN @ ELSE @ + 1]
    /\ UNCHANGED <<callVars, envVars, timer, expired, reg, sub>>

(* iom->cancelEvent(fd, event), by the callback. *)
TimerCancels(e) ==
    /\ firing[e] > 0
    /\ firing' = [firing EXCEPT ![e] = @ - 1]
    /\ CancelEffect(e)
    /\ UNCHANGED <<callVars, envVars, timer, late, cancelled, expired>>

-----------------------------------------------------------------------------
(* do_io and connect_with_timeout *)

(* A call begins with a t_info of its own. *)
Enter(e) ==
    /\ iopc[e] = "out" /\ calls[e] < MaxCalls
    /\ calls' = [calls EXCEPT ![e] = @ + 1]
    /\ iopc' = [iopc EXCEPT ![e] = "call"]
    /\ cancelled' = [cancelled EXCEPT ![e] = FALSE]
    /\ expired' = [expired EXCEPT ![e] = FALSE]
    /\ UNCHANGED <<ret, envVars, timer, late, firing, reg, sub>>

(* The call returns r and destroys t_info: what is late will do nothing. *)
Return(e, r) ==
    /\ iopc' = [iopc EXCEPT ![e] = "out"]
    /\ ret' = [ret EXCEPT ![e] = r]
    /\ late' = [late EXCEPT ![e] = 0]

(* Readiness is used up, except that of a connection once established. *)
UseReady(e, r) ==
    avail' = IF open /\ ~(e \in Connects /\ r = "ok")
             THEN [avail EXCEPT ![e] = FALSE] ELSE avail

(* The system call succeeds or fails for good.  (EINTR is tried again.) *)
Proceed(e) ==
    /\ iopc[e] = "call" /\ avail[e]
    /\ \E r \in IF open THEN {"ok", "error"} ELSE {"error"} :
            Return(e, r) /\ UseReady(e, r)
    /\ UNCHANGED <<calls, open, spurious, timer, firing, cancelled, expired, reg, sub>>

(* EAGAIN, or EINPROGRESS from connect: a timer is armed if there is a     *)
(* timeout.                                                                *)
Arm(e) ==
    /\ iopc[e] = "call" /\ ~avail[e]
    /\ iopc' = [iopc EXCEPT ![e] = "add"]
    /\ timer' = [timer EXCEPT ![e] = e \in Timed]
    /\ UNCHANGED <<ret, calls, envVars, late, firing, cancelled, expired, reg, sub>>

(* From here on the fiber can be submitted, although it still runs. *)
AddEvent(e) ==
    /\ iopc[e] = "add" /\ open
    /\ e \notin reg                              \* the assertion of addEvent
    /\ reg' = reg \cup {e}
    /\ iopc' = [iopc EXCEPT ![e] = "yield"]
    /\ UNCHANGED <<ret, calls, envVars, timeVars, sub>>

(* addEvent fails: timer->cancel(); do_io returns -1, connect goes on. *)
AddFails(e) ==
    /\ iopc[e] = "add" /\ ~open
    /\ timer' = [timer EXCEPT ![e] = FALSE]
    /\ IF e \in Connects
       THEN iopc' = [iopc EXCEPT ![e] = "sockopt"] /\ UNCHANGED <<ret, late>>
       ELSE Return(e, "error")
    /\ UNCHANGED <<calls, envVars, firing, cancelled, expired, reg, sub>>

(* YieldToHold: the fiber is off its stack. *)
Yield(e) ==
    /\ iopc[e] = "yield"
    /\ iopc' = [iopc EXCEPT ![e] = "hold"]
    /\ UNCHANGED <<ret, calls, envVars, timeVars, reg, sub>>

(* YieldToHold returns.  The scheduler leaves a fiber that still runs in   *)
(* its queue; Scheduler has the moment in which it does not.               *)
Resume(e) ==
    /\ iopc[e] = "hold" /\ e \in sub
    /\ sub' = sub \ {e}
    /\ iopc' = [iopc EXCEPT ![e] = "woken"]
    /\ UNCHANGED <<ret, calls, envVars, timeVars, reg>>

(* Mutant: the timer is not cancelled. *)
Mut_CancelTimer(e) ==
    /\ iopc[e] = "woken"
    /\ iopc' = [iopc EXCEPT ![e] = "check"]
    /\ UNCHANGED <<ret, calls, envVars, timeVars, reg, sub>>

(* timer->cancel() *)
CancelTimer(e) ==
    /\ iopc[e] = "woken"
    /\ timer' = [timer EXCEPT ![e] = FALSE]
    /\ iopc' = [iopc EXCEPT ![e] = "check"]
    /\ UNCHANGED <<ret, calls, envVars, late, firing, cancelled, expired, reg, sub>>

(* t_info->cancelled is set: errno = ETIMEDOUT. *)
TimeOut(e) ==
    /\ iopc[e] = "check" /\ cancelled[e]
    /\ Return(e, "timeout")
    /\ UNCHANGED <<calls, envVars, timer, firing, cancelled, expired, reg, sub>>

(* Mutant: do_io treats a wake-up without readiness as a timeout. *)
Mut_Retry(e) ==
    /\ iopc[e] = "check" /\ ~cancelled[e] /\ e \notin Connects
    /\ IF avail[e] THEN iopc' = [iopc EXCEPT ![e] = "call"] /\ UNCHANGED <<ret, late>>
       ELSE Return(e, "timeout")
    /\ UNCHANGED <<calls, envVars, timer, firing, cancelled, expired, reg, sub>>

(* do_io: goto retry *)
Retry(e) ==
    /\ iopc[e] = "check" /\ ~cancelled[e] /\ e \notin Connects
    /\ iopc' = [iopc EXCEPT ![e] = "call"]
    /\ UNCHANGED <<ret, calls, envVars, timeVars, reg, sub>>

(* connect was not timed out. *)
ConnectWoken(e) ==
    /\ iopc[e] = "check" /\ ~cancelled[e] /\ e \in Connects
    /\ iopc' = [iopc EXCEPT ![e] = "sockopt"]
    /\ UNCHANGED <<ret, calls, envVars, timeVars, reg, sub>>

(* getsockopt(SO_ERROR) decides; it is 0 also while the connection is      *)
(* still being established.                                                *)
ConnectEnds(e) ==
    /\ iopc[e] = "sockopt"
    /\ \E r \in IF ~open THEN {"error"} ELSE
                IF avail[e] THEN {"ok", "error"} ELSE {"ok"} :
            Return(e, r) /\ UseReady(e, r)
    /\ UNCHANGED <<calls, open, spurious, timer, firing, cancelled, expired, reg, sub>>

-----------------------------------------------------------------------------
CallStep(e) ==
    \/ Proceed(e) \/ Arm(e) \/ AddEvent(e) \/ AddFails(e)
    \/ Yield(e) \/ Resume(e) \/ CancelTimer(e) \/ TimeOut(e) \/ Retry(e)
    \/ ConnectWoken(e) \/ ConnectEnds(e)

EventStep(e) ==
    \/ BecomeReady(e) \/ LoseReady(e) \/ UserCancel(e) \/ Report(e)
    \/ Expire(e) \/ TimerCb(e) \/ TimerCancels(e)
    \/ Enter(e) \/ CallStep(e)

CallNext == Close \/ \E e \in Events : EventStep(e)

CallSpec == CallInit /\ [][CallNext]_ioVars

(* The scheduler runs what is submitted, pollers report and collect, time  *)
(* passes.  Nothing says that the peer ever sends anything.                *)
CallFairSpec ==
    /\ CallSpec
    /\ \A e \in Events :
        /\ WF_ioVars(CallStep(e)) /\ WF_ioVars(Report(e))
        /\ WF_ioVars(Expire(e)) /\ WF_ioVars(TimerCb(e)) /\ WF_ioVars(TimerCancels(e))

-----------------------------------------------------------------------------
(* Properties *)

(* Type invariant: the locals of the calls, t_info and its callbacks. *)
CallTypeOK ==
    /\ iopc \in [Events -> {"out", "call", "add", "yield", "hold", "woken", "check", "sockopt"}]
    /\ open \in BOOLEAN /\ avail \in [Events -> BOOLEAN]
    /\ reg \subseteq Events /\ sub \subseteq Events
    /\ timer \in [Events -> BOOLEAN]
    /\ late \in [Events -> Nat] /\ firing \in [Events -> Nat]
    /\ cancelled \in [Events -> BOOLEAN] /\ expired \in [Events -> BOOLEAN]
    /\ ret \in [Events -> {"none", "ok", "error", "timeout"}]
    /\ calls \in [Events -> Nat] /\ spurious \in Nat

(* A fiber that holds, or is about to, is registered or submitted, never   *)
(* both, and nobody submits one that does not wait: the readiness, the     *)
(* timeout, a cancel and close() of one wait wake it once between them,    *)
(* although each of them may come before it has left its stack.            *)
WokenOnce ==
    \A e \in Events :
        /\ ~(e \in reg /\ e \in sub)
        /\ e \in reg \cup sub <=> iopc[e] \in {"yield", "hold"}

(* A call reports ETIMEDOUT only if a timer of this call has expired: no   *)
(* wake-up for another reason, and no callback left over from an earlier   *)
(* call, is taken for a timeout.                                           *)
TimeoutIsOwn ==
    [][\A e \in Events : ret[e] # "timeout" /\ ret'[e] = "timeout" => expired[e]]_ioVars

(* When a call has returned none of its timers is left in TimerManager.    *)
NoTimerLeft ==
    \A e \in Events : timer[e] => iopc[e] \in {"add", "yield", "hold", "woken"}

(* A call whose socket stays ready and open returns, whatever cancels,     *)
(* late callbacks and lost readiness came before.                          *)
ReadyEndsCall ==
    \A e \in Events : (iopc[e] # "out") ~> (iopc[e] = "out" \/ ~avail[e] \/ ~open)

-----------------------------------------------------------------------------
(* The inductive strengthening that the proofs in HookProofs use: what     *)
(* is late or has set t_info->cancelled comes from a timer of this call,   *)
(* and a call that has returned leaves no callback that would do anything. *)
TimerShape ==
    \A e \in Events :
        /\ cancelled[e] => expired[e]
        /\ late[e] > 0 => expired[e] /\ iopc[e] # "out"

=============================================================================
