------------------------------ MODULE FdEvents ------------------------------
(***************************************************************************)
(* IOManager's table of file descriptors (iomanager.h, iomanager.cpp): the *)
(* FdContext of every descriptor, the interest list of the epoll instance, *)
(* the number of pending events, and the wait fibers that dispatch what    *)
(* epoll_wait reported.  close() is the hooked close of hook.cpp.          *)
(*                                                                         *)
(* Every operation runs under FdContext::m_mutex and is one step.  A       *)
(* poller reads its events from the kernel in one step and handles each of *)
(* them, under the lock, in a later one: in between the descriptor's       *)
(* registrations can change.  What waits is a waiter (a fiber or a         *)
(* callback), numbered in the order of registration; waking it is          *)
(* submitting it to the scheduler.                                         *)
(***************************************************************************)
EXTENDS Integers, FiniteSets, FiniteSetsExt

CONSTANTS
    Fds,             \* file descriptor numbers in use
    Kinds,           \* the events, of READ and WRITE, that the program waits for
    Pollers,         \* threads inside IOManager::wait
    InitialSize,     \* contextResize(32)
    None,            \* no waiter, no event to dispatch
    MaxWaiters       \* bound: registrations

ASSUME FdsAssumption == Fds \subseteq Nat /\ IsFiniteSet(Fds)
ASSUME KindsAssumption == Kinds \subseteq {"READ", "WRITE"}
ASSUME SizeAssumption == InitialSize \in Nat /\ InitialSize >= 2
ASSUME BoundAssumption == MaxWaiters \in Nat /\ None \notin 1..MaxWaiters

VARIABLES
    size,      \* m_fd_contexts.size()
    events,    \* FdContext::events, as a set
    ctx,       \* FdContext::read and FdContext::write
    watched,   \* the descriptor is in the epoll instance's interest list
    interest,  \* the events it is there for
    pending,   \* m_pending_event_count
    batch,     \* what each poller has taken from the kernel and not yet handled
    life,      \* progress of close() on each descriptor
    reg,       \* waiters registered so far
    woken,     \* waiters submitted to the scheduler
    dropped,   \* waiters removed without being submitted
    torn       \* history: descriptors on which cancelAll met a reader and a
               \* writer, or that got an event while they were being closed

fdVars == <<size, events, ctx, watched, interest, pending>>
vars   == <<fdVars, batch, life, reg, woken, dropped, torn>>

Waiters == 1..MaxWaiters

Init ==
    /\ size = InitialSize
    /\ events = [fd \in Fds |-> {}]
    /\ ctx = [fd \in Fds |-> [k \in Kinds |-> None]]
    /\ watched = [fd \in Fds |-> FALSE]
    /\ interest = [fd \in Fds |-> {}]
    /\ pending = 0
    /\ batch = [p \in Pollers |-> None]
    /\ life = [fd \in Fds |-> "open"]
    /\ reg = 0
    /\ woken = {}
    /\ dropped = {}
    /\ torn = {}

-----------------------------------------------------------------------------
(* epoll_ctl, as the kernel treats the calls made here: ADD fails on a     *)
(* descriptor that is in the interest list, MOD and DEL on one that is not.*)
CtlOk(op, fd) == watched[fd] <=> (op # "ADD")

(* The state of the interest list after a successful epoll_ctl. *)
Ctl(op, fd, evs) ==
    /\ watched' = [watched EXCEPT ![fd] = (op # "DEL")]
    /\ interest' = [interest EXCEPT ![fd] = IF op = "DEL" THEN {} ELSE evs]

(* contextResize(fd * 1.5) when the table is too small. *)
SizeFor(fd) == IF size <= fd THEN (fd * 3) \div 2 ELSE size

InTable(fd) == fd < size

(* addEvent(fd, event, cb).  Its assertion that the event is not yet       *)
(* registered is a guard; epoll_ctl may fail, addEvent then returns -1.    *)
AddEvent(fd, k) ==
    LET op == IF events[fd] # {} THEN "MOD" ELSE "ADD" IN
    /\ reg < MaxWaiters
    /\ life[fd] # "closed"
    /\ k \notin events[fd]
    /\ size' = SizeFor(fd)
    /\ IF CtlOk(op, fd)
       THEN /\ Ctl(op, fd, events[fd] \cup {k})
            /\ pending' = pending + 1
            /\ events' = [events EXCEPT ![fd] = @ \cup {k}]
            /\ reg' = reg + 1
            /\ ctx' = [ctx EXCEPT ![fd][k] = reg + 1]
       ELSE UNCHANGED <<watched, interest, pending, events, reg, ctx>>
    /\ torn' = IF life[fd] = "open" THEN torn ELSE torn \cup {fd}
    /\ UNCHANGED <<batch, life, woken, dropped>>

(* The part that delEvent and cancelEvent share: the event leaves events,  *)
(* its context is cleared and the interest list follows.                   *)
Remove(fd, k) ==
    LET left == events[fd] \ {k}
        op == IF left # {} THEN "MOD" ELSE "DEL" IN
    /\ InTable(fd) /\ k \in events[fd]
    /\ CtlOk(op, fd)
    /\ Ctl(op, fd, left)
    /\ events' = [events EXCEPT ![fd] = left]
    /\ ctx' = [ctx EXCEPT ![fd][k] = None]
    /\ pending' = pending - 1

(* delEvent: resetContext forgets the waiter. *)
DelEvent(fd, k) ==
    /\ Remove(fd, k)
    /\ dropped' = dropped \cup {ctx[fd][k]}
    /\ UNCHANGED <<size, batch, life, reg, woken, torn>>

(* Mutant: cancelEvent resets the context instead of triggering it. *)
Mut_CancelEvent(fd, k) ==
    /\ Remove(fd, k)
    /\ UNCHANGED <<size, batch, life, reg, woken, dropped, torn>>

(* Mutant: the last event of a descriptor is removed with MOD. *)
Mut_CancelEventMod(fd, k) ==
    /\ InTable(fd) /\ k \in events[fd] /\ CtlOk("MOD", fd)
    /\ Ctl("MOD", fd, events[fd] \ {k})
    /\ events' = [events EXCEPT ![fd] = @ \ {k}]
    /\ ctx' = [ctx EXCEPT ![fd][k] = None]
    /\ pending' = pending - 1
    /\ woken' = woken \cup {ctx[fd][k]}
    /\ UNCHANGED <<size, batch, life, reg, dropped, torn>>

(* cancelEvent: triggerContext submits the waiter. *)
CancelEvent(fd, k) ==
    /\ Remove(fd, k)
    /\ woken' = woken \cup {ctx[fd][k]}
    /\ UNCHANGED <<size, batch, life, reg, dropped, torn>>

(* The event that cancelAll triggers: READ, or else WRITE. *)
CancelledByAll(fd) == IF "READ" \in events[fd] THEN "READ" ELSE "WRITE"

(* The effect of cancelAll(fd): the descriptor leaves the interest list    *)
(* with all its events, one of which is triggered.                         *)
CancelAllEffect(fd) ==
    IF InTable(fd) /\ events[fd] # {} /\ CtlOk("DEL", fd)
    THEN LET k == CancelledByAll(fd) IN
         /\ Ctl("DEL", fd, {})
         /\ events' = [events EXCEPT ![fd] = @ \ {k}]
         /\ ctx' = [ctx EXCEPT ![fd][k] = None]
         /\ woken' = woken \cup {ctx[fd][k]}
         /\ pending' = pending - 1
         /\ torn' = IF events[fd] = {k} THEN torn ELSE torn \cup {fd}
    ELSE UNCHANGED <<watched, interest, events, ctx, woken, pending, torn>>

(* The effect of delAll(fd): the contexts are reset and the events counted *)
(* off, events itself keeps its value.                                     *)
DelAllEffect(fd) ==
    IF InTable(fd) /\ events[fd] # {} /\ CtlOk("DEL", fd)
    THEN /\ Ctl("DEL", fd, {})
         /\ ctx' = [ctx EXCEPT ![fd] = [k \in Kinds |-> IF k \in events[fd] THEN None ELSE @[k]]]
         /\ dropped' = dropped \cup {ctx[fd][k] : k \in events[fd]}
         /\ pending' = pending - Cardinality(events[fd])
    ELSE UNCHANGED <<watched, interest, ctx, dropped, pending>>

(* Socket::cancelAll, when the server stops. *)
CancelAll(fd) ==
    /\ life[fd] = "open"
    /\ CancelAllEffect(fd)
    /\ UNCHANGED <<size, batch, life, reg, dropped>>

(* Mutant: close() without cancelAll. *)
Mut_CloseCancels(fd) ==
    /\ life[fd] = "open"
    /\ life' = [life EXCEPT ![fd] = "cancelled"]
    /\ UNCHANGED <<fdVars, batch, reg, woken, dropped, torn>>

(* The hooked close(fd): cancelAll, then delAll, then the system call,     *)
(* which takes the descriptor out of the interest list.                    *)
CloseCancels(fd) ==
    /\ life[fd] = "open"
    /\ CancelAllEffect(fd)
    /\ life' = [life EXCEPT ![fd] = "cancelled"]
    /\ UNCHANGED <<size, batch, reg, dropped>>

CloseDeletes(fd) ==
    /\ life[fd] = "cancelled"
    /\ DelAllEffect(fd)
    /\ life' = [life EXCEPT ![fd] = "deleted"]
    /\ UNCHANGED <<size, events, batch, reg, woken, torn>>

CloseSyscall(fd) ==
    /\ life[fd] = "deleted"
    /\ watched' = [watched EXCEPT ![fd] = FALSE]
    /\ interest' = [interest EXCEPT ![fd] = {}]
    /\ life' = [life EXCEPT ![fd] = "closed"]
    /\ UNCHANGED <<size, events, ctx, pending, batch, reg, woken, dropped, torn>>

(* The number of a closed descriptor is given to a new socket. *)
Reopen(fd) ==
    /\ life[fd] = "closed"
    /\ life' = [life EXCEPT ![fd] = "open"]
    /\ UNCHANGED <<fdVars, batch, reg, woken, dropped, torn>>

-----------------------------------------------------------------------------
(* IOManager::wait *)

(* epoll_wait reports a descriptor of the interest list: some of the       *)
(* events it is watched for, or an error or hang-up.                       *)
EpollWait(p, fd, ev, err) ==
    /\ batch[p] = None
    /\ watched[fd]
    /\ ev \subseteq interest[fd]
    /\ ev # {} \/ err
    /\ batch' = [batch EXCEPT ![p] = [fd |-> fd, ev |-> ev, err |-> err]]
    /\ UNCHANGED <<fdVars, life, reg, woken, dropped, torn>>

(* real_event: an error counts as every event registered by now. *)
RealEvent(b) == IF b.err THEN b.ev \cup events[b.fd] ELSE b.ev

(* Nothing of what was reported is still registered. *)
DispatchSkip(p) ==
    /\ batch[p] # None
    /\ events[batch[p].fd] \cap RealEvent(batch[p]) = {}
    /\ batch' = [batch EXCEPT ![p] = None]
    /\ UNCHANGED <<fdVars, life, reg, woken, dropped, torn>>

(* Mutant: --m_pending_event_count once, whatever was triggered. *)
Mut_Dispatch(p) ==
    /\ batch[p] # None
    /\ LET fd == batch[p].fd
           real == RealEvent(batch[p])
           left == events[fd] \ real
           op == IF left # {} THEN "MOD" ELSE "DEL" IN
       /\ events[fd] \cap real # {} /\ CtlOk(op, fd)
       /\ real \subseteq events[fd]
       /\ Ctl(op, fd, left)
       /\ events' = [events EXCEPT ![fd] = left]
       /\ ctx' = [ctx EXCEPT ![fd] = [k \in Kinds |-> IF k \in real THEN None ELSE @[k]]]
       /\ woken' = woken \cup {ctx[fd][k] : k \in real}
       /\ pending' = pending - 1
    /\ batch' = [batch EXCEPT ![p] = None]
    /\ UNCHANGED <<size, life, reg, dropped, torn>>

(* The reported events leave the interest list and their waiters are       *)
(* submitted.  triggerContext asserts, for each reported event, that it is *)
(* registered: that is the guard real \subseteq events[fd].                *)
Dispatch(p) ==
    /\ batch[p] # None
    /\ LET fd == batch[p].fd
           real == RealEvent(batch[p])
           left == events[fd] \ real
           op == IF left # {} THEN "MOD" ELSE "DEL" IN
       /\ events[fd] \cap real # {}
       /\ IF CtlOk(op, fd)
          THEN /\ real \subseteq events[fd]
               /\ Ctl(op, fd, left)
               /\ events' = [events EXCEPT ![fd] = left]
               /\ ctx' = [ctx EXCEPT ![fd] = [k \in Kinds |-> IF k \in real THEN None ELSE @[k]]]
               /\ woken' = woken \cup {ctx[fd][k] : k \in real}
               /\ pending' = pending - Cardinality(real)
          ELSE UNCHANGED <<watched, interest, events, ctx, woken, pending>>
    /\ batch' = [batch EXCEPT ![p] = None]
    /\ UNCHANGED <<size, life, reg, dropped, torn>>

-----------------------------------------------------------------------------
FdStep(fd) ==
    \/ \E k \in Kinds : AddEvent(fd, k) \/ DelEvent(fd, k) \/ CancelEvent(fd, k)
    \/ CancelAll(fd) \/ CloseCancels(fd) \/ CloseDeletes(fd) \/ CloseSyscall(fd) \/ Reopen(fd)

PollStep(p) ==
    \/ \E fd \in Fds, ev \in SUBSET Kinds, err \in BOOLEAN : EpollWait(p, fd, ev, err)
    \/ DispatchSkip(p)
    \/ Dispatch(p)

Next ==
    \/ \E fd \in Fds : FdStep(fd)
    \/ \E p \in Pollers : PollStep(p)

Spec == Init /\ [][Next]_vars

-----------------------------------------------------------------------------
(* Properties *)

Batch == [fd : Fds, ev : SUBSET Kinds, err : BOOLEAN]

(* Type invariant: the fields of IOManager and FdContext. *)
TypeOK ==
    /\ size \in Nat /\ size >= InitialSize
    /\ events \in [Fds -> SUBSET Kinds]
    /\ ctx \in [Fds -> [Kinds -> Waiters \cup {None}]]
    /\ watched \in [Fds -> BOOLEAN]
    /\ interest \in [Fds -> SUBSET Kinds]
    /\ pending \in Nat
    /\ batch \in [Pollers -> Batch \cup {None}]
    /\ life \in [Fds -> {"open", "cancelled", "deleted", "closed"}]
    /\ reg \in 0..MaxWaiters
    /\ woken \subseteq Waiters /\ dropped \subseteq Waiters /\ torn \subseteq Fds

(* The three records of one registration agree: an event is in             *)
(* FdContext::events exactly when its context holds a waiter (the          *)
(* assertion in addEvent) and when the kernel watches for it.              *)
RegistrationExact ==
    \A fd \in Fds \ torn :
        /\ \A k \in Kinds : k \in events[fd] <=> ctx[fd][k] # None
        /\ interest[fd] = events[fd]
        /\ watched[fd] <=> events[fd] # {}

(* m_pending_event_count, which canStop() waits to become 0, is the number *)
(* of registered events; it never wraps below zero.                        *)
PendingExact ==
    torn = {} => pending = Cardinality({r \in Fds \X Kinds : r[2] \in events[r[1]]})

(* Every waiter that was registered has been submitted or removed on       *)
(* request, exactly once, or the kernel still watches for its event, while *)
(* no descriptor is torn.                                                  *)
NoLostWaiter ==
    torn = {} => \A w \in 1..reg :
        IF w \in woken \cup dropped
        THEN ~(w \in woken /\ w \in dropped) /\ \A fd \in Fds, k \in Kinds : ctx[fd][k] # w
        ELSE \E fd \in Fds, k \in Kinds : ctx[fd][k] = w /\ k \in interest[fd]

(* After close() no event is registered for the descriptor's number, so    *)
(* that addEvent's assertion holds for the socket that gets it next.  Torn *)
(* descriptors are excepted: those that had a reader and a writer when     *)
(* cancelAll met them, or got an event while they were being closed.       *)
CloseCleansUnlessTorn ==
    \A fd \in Fds \ torn : life[fd] = "closed" => events[fd] = {}

-----------------------------------------------------------------------------
(* The inductive strengthenings that the proofs in FdEventsProofs use. *)

(* What the kernel watches is registered in full, also on a torn           *)
(* descriptor; an untorn one is watched when it has events, has none once  *)
(* its close() began, and none outside the table.                          *)
FdShape(fd) ==
    /\ IF watched[fd]
       THEN /\ interest[fd] = events[fd] /\ events[fd] # {}
            /\ \A k \in events[fd] : ctx[fd][k] # None
       ELSE interest[fd] = {}
    /\ \A k \in Kinds \ events[fd] : ctx[fd][k] = None
    /\ events[fd] # {} => InTable(fd)
    /\ (fd \notin torn /\ events[fd] # {}) => watched[fd] /\ life[fd] = "open"

ContextShape == \A fd \in Fds : FdShape(fd)

(* The events of watched descriptors. *)
Regs(w, e) == {r \in Fds \X Kinds : w[r[1]] /\ r[2] \in e[r[1]]}

(* The counter covers every watched event, and without torn descriptors    *)
(* counts nothing else.                                                    *)
PendingShape ==
    LET n == Cardinality(Regs(watched, events)) IN
    pending >= n /\ (torn = {} => pending = n)

(* Waiters are numbered apart. *)
WaiterShape ==
    torn = {} =>
        /\ woken \cup dropped \subseteq 1..reg
        /\ \A fd \in Fds, k \in Kinds : ctx[fd][k] # None => ctx[fd][k] \in 1..reg
        /\ \A fd, gd \in Fds, k, l \in Kinds :
              ctx[fd][k] # None /\ ctx[fd][k] = ctx[gd][l] => fd = gd /\ k = l

=============================================================================
