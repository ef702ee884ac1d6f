----------------------------- MODULE FdManager -----------------------------
(***************************************************************************)
(* The contexts of the hooked sockets: FdManager and FdCtx (fdmanager.h,   *)
(* fdmanager.cpp) with the hooked calls that create, change and remove     *)
(* them (socket, accept, close, fcntl, ioctl, setsockopt of hook.cpp).     *)
(*                                                                         *)
(* The kernel keeps for every descriptor number which socket it stands for *)
(* and whether O_NONBLOCK is set.  A context is made for one socket; it    *)
(* records the socket it was made for so that a context that outlives its  *)
(* socket can be told apart.  get() with auto_create has two critical      *)
(* sections, close() several steps; between them other threads run.        *)
(***************************************************************************)
EXTENDS Naturals

CONSTANTS
    Fds,          \* descriptor numbers
    Threads,      \* threads that call socket(), accept() and close()
    Unhooked,     \* those for which IsHookEnable() is false when they close
    InitialSize,  \* m_container.resize(64)
    Timeouts,     \* values of SO_RCVTIMEO
    None,
    MaxOpens      \* bound: sockets created

(* FdCtx: m_sys_nonblock, m_user_nonblock, m_recv_timeout, and the socket  *)
(* it was made for.                                                        *)
Context == [sock : Nat, sys : BOOLEAN, user : BOOLEAN, timeout : Timeouts \cup {None}]

ASSUME FdAssumption == Fds \subseteq Nat /\ None \notin Fds
ASSUME ThreadAssumption == Unhooked \subseteq Threads
ASSUME FdConstAssumption ==
    /\ None \notin Timeouts /\ None \notin Context
    /\ InitialSize \in Nat /\ InitialSize >= 2 /\ MaxOpens \in Nat

VARIABLES
    sock,      \* the socket each number stands for; 0: closed
    nonblock,  \* O_NONBLOCK in the kernel
    size,      \* m_container.size()
    ctx,       \* m_container[fd]
    pc,        \* where each thread is
    at,        \* the descriptor it works on
    usable,    \* descriptors that socket() or accept() have returned
    opens,     \* sockets created
    bypassed,  \* history: numbers closed without hooks, context left behind
    userset    \* history: O_NONBLOCK set by SOCK_NONBLOCK, cleared by FIONBIO

kernelVars == <<sock, nonblock, opens>>
histVars   == <<bypassed, userset>>
vars == <<kernelVars, histVars, size, ctx, pc, at, usable>>

Init ==
    /\ sock = [fd \in Fds |-> 0]
    /\ nonblock = [fd \in Fds |-> FALSE]
    /\ size = InitialSize
    /\ ctx = [fd \in Fds |-> None]
    /\ pc = [t \in Threads |-> "idle"]
    /\ at = [t \in Threads |-> None]
    /\ usable = {}
    /\ opens = 0
    /\ bypassed = {} /\ userset = {}

-----------------------------------------------------------------------------
(* socket() and accept() *)

(* The system call returns an unused number. *)
NewFd(t, fd, nb) ==
    /\ pc[t] = "idle" /\ t \notin Unhooked
    /\ sock[fd] = 0 /\ opens < MaxOpens
    /\ opens' = opens + 1
    /\ sock' = [sock EXCEPT ![fd] = opens + 1]
    /\ nonblock' = [nonblock EXCEPT ![fd] = nb]
    /\ pc' = [pc EXCEPT ![t] = "get"]
    /\ at' = [at EXCEPT ![t] = fd]
    /\ userset' = IF nb THEN userset \cup {fd} ELSE userset \ {fd}
    /\ UNCHANGED <<size, ctx, usable, bypassed>>

(* FdManager::get(fd) *)
Get(fd) == IF fd < size THEN ctx[fd] ELSE None

(* get(fd, true), under the read lock: a context that exists is returned.  *)
GetFinds(t) ==
    /\ pc[t] = "get" /\ Get(at[t]) # None
    /\ pc' = [pc EXCEPT ![t] = "idle"]
    /\ usable' = usable \cup {at[t]}
    /\ UNCHANGED <<kernelVars, size, ctx, at, histVars>>

GetMisses(t) ==
    /\ pc[t] = "get" /\ Get(at[t]) = None
    /\ pc' = [pc EXCEPT ![t] = "create"]
    /\ UNCHANGED <<kernelVars, size, ctx, at, usable, histVars>>

SizeFor(fd) == IF fd >= size THEN (fd * 3) \div 2 ELSE size

(* get(fd, true), under the write lock: FdCtx::init makes the socket       *)
(* non-blocking and remembers in m_sys_nonblock that it did so.            *)
Create(t) ==
    LET fd == at[t] IN
    /\ pc[t] = "create"
    /\ size' = SizeFor(fd)
    /\ ctx' = [ctx EXCEPT ![fd] =
                 [sock |-> sock[fd], sys |-> ~nonblock[fd], user |-> FALSE, timeout |-> None]]
    /\ nonblock' = [nonblock EXCEPT ![fd] = TRUE]
    /\ pc' = [pc EXCEPT ![t] = "idle"]
    /\ usable' = usable \cup {fd}
    /\ UNCHANGED <<sock, opens, at, histVars>>

-----------------------------------------------------------------------------
(* close() *)

(* A hooked thread looks the context up; cancelAll and delAll are in       *)
(* FdEvents.                                                               *)
CloseGets(t, fd) ==
    /\ pc[t] = "idle" /\ t \notin Unhooked
    /\ fd \in usable
    /\ usable' = usable \ {fd}
    /\ pc' = [pc EXCEPT ![t] = IF Get(fd) # None THEN "del" ELSE "close"]
    /\ at' = [at EXCEPT ![t] = fd]
    /\ UNCHANGED <<kernelVars, size, ctx, histVars>>

(* Mutant: the system call comes before FdManager::del. *)
Mut_CloseDel(t) ==
    /\ pc[t] = "del"
    /\ IF sock[at[t]] # 0
       THEN /\ sock' = [sock EXCEPT ![at[t]] = 0]
            /\ UNCHANGED <<ctx, pc, histVars>>
       ELSE /\ ctx' = [ctx EXCEPT ![at[t]] = None]
            /\ pc' = [pc EXCEPT ![t] = "idle"]
            /\ UNCHANGED sock
    /\ UNCHANGED <<nonblock, opens, size, at, usable, histVars>>

(* FdManager::del *)
CloseDel(t) ==
    /\ pc[t] = "del"
    /\ ctx' = IF at[t] < size THEN [ctx EXCEPT ![at[t]] = None] ELSE ctx
    /\ bypassed' = bypassed \ {at[t]}
    /\ pc' = [pc EXCEPT ![t] = "close"]
    /\ UNCHANGED <<kernelVars, size, at, usable, userset>>

(* close_f *)
CloseSyscall(t) ==
    /\ pc[t] = "close"
    /\ sock' = [sock EXCEPT ![at[t]] = 0]
    /\ pc' = [pc EXCEPT ![t] = "idle"]
    /\ UNCHANGED <<nonblock, opens, size, ctx, at, usable, histVars>>

(* A thread without hooks closes: the context is not touched. *)
PlainClose(t, fd) ==
    /\ pc[t] = "idle" /\ t \in Unhooked
    /\ fd \in usable
    /\ usable' = usable \ {fd}
    /\ sock' = [sock EXCEPT ![fd] = 0]
    /\ bypassed' = bypassed \cup {fd}
    /\ UNCHANGED <<nonblock, opens, size, ctx, pc, at, userset>>

-----------------------------------------------------------------------------
(* Changing a socket.  These calls are not gated by IsHookEnable(). *)

(* Mutant: the flags of the user go to the kernel as they are. *)
Mut_FcntlSetFl(fd, nb) ==
    /\ fd \in usable
    /\ ctx' = IF Get(fd) # None THEN [ctx EXCEPT ![fd].user = nb] ELSE ctx
    /\ nonblock' = [nonblock EXCEPT ![fd] = nb]
    /\ UNCHANGED <<sock, opens, size, pc, at, usable, histVars>>

(* fcntl(F_SETFL): the user's choice is recorded, the kernel gets the      *)
(* value of m_sys_nonblock.                                                *)
FcntlSetFl(fd, nb) ==
    /\ fd \in usable
    /\ ctx' = IF Get(fd) # None THEN [ctx EXCEPT ![fd].user = nb] ELSE ctx
    /\ nonblock' = [nonblock EXCEPT ![fd] = IF Get(fd) # None THEN ctx[fd].sys ELSE nb]
    /\ UNCHANGED <<sock, opens, size, pc, at, usable, histVars>>

(* ioctl(FIONBIO): the user's choice is recorded and given to the kernel.  *)
Ioctl(fd, nb) ==
    /\ fd \in usable
    /\ ctx' = IF Get(fd) # None THEN [ctx EXCEPT ![fd].user = nb] ELSE ctx
    /\ nonblock' = [nonblock EXCEPT ![fd] = nb]
    /\ userset' = IF nb THEN userset ELSE userset \cup {fd}
    /\ UNCHANGED <<sock, opens, size, pc, at, usable, bypassed>>

(* setsockopt(SO_RCVTIMEO), by a hooked thread. *)
SetTimeout(fd, to) ==
    /\ fd \in usable
    /\ Get(fd) # None
    /\ ctx' = [ctx EXCEPT ![fd].timeout = to]
    /\ UNCHANGED <<kernelVars, size, pc, at, usable, histVars>>

-----------------------------------------------------------------------------
ThreadStep(t) ==
    \/ \E fd \in Fds, nb \in BOOLEAN : NewFd(t, fd, nb)
    \/ GetFinds(t) \/ GetMisses(t) \/ Create(t)
    \/ \E fd \in Fds : CloseGets(t, fd) \/ PlainClose(t, fd)
    \/ CloseDel(t) \/ CloseSyscall(t)

FdStep(fd) ==
    \/ \E nb \in BOOLEAN : FcntlSetFl(fd, nb) \/ Ioctl(fd, nb)
    \/ \E to \in Timeouts : SetTimeout(fd, to)

Next ==
    \/ \E t \in Threads : ThreadStep(t)
    \/ \E fd \in Fds : FdStep(fd)

Spec == Init /\ [][Next]_vars

-----------------------------------------------------------------------------
(* Properties *)

(* Type invariant: the fields of FdManager and FdCtx. *)
TypeOK ==
    /\ sock \in [Fds -> Nat] /\ nonblock \in [Fds -> BOOLEAN]
    /\ size \in Nat
    /\ ctx \in [Fds -> Context \cup {None}]
    /\ pc \in [Threads -> {"idle", "get", "create", "del", "close"}]
    /\ at \in [Threads -> Fds \cup {None}]
    /\ usable \subseteq Fds /\ opens \in Nat
    /\ bypassed \subseteq Fds /\ userset \subseteq Fds

(* Once socket() or accept() has returned a descriptor, the context that   *)
(* do_io will consult is there and was made for this very socket, not for  *)
(* an earlier one with the same number: no flag and no timeout is          *)
(* inherited, however closes and opens of other threads interleave, unless *)
(* a thread without hooks was the last to close the number.                *)
CtxIsCurrent ==
    \A fd \in usable \ bypassed : Get(fd) # None /\ ctx[fd].sock = sock[fd]

(* m_container is never indexed beyond its end. *)
IndexInRange == \A fd \in Fds : ctx[fd] # None => fd < size

(* Every socket that the hooks hand out is non-blocking in the kernel, so  *)
(* that a hooked call never blocks its thread, whatever F_SETFL was asked  *)
(* for; the exceptions are sockets created with SOCK_NONBLOCK, sockets     *)
(* cleared by FIONBIO and numbers closed without hooks.                    *)
HookedIsNonblocking == \A fd \in usable \ (bypassed \cup userset) : nonblock[fd]

-----------------------------------------------------------------------------
(* The inductive strengthening that the proofs in HookProofs use. *)

Working == {"get", "create", "del", "close"}

(* A thread inside socket(), accept() or close() works on a descriptor. *)
WorkerShape == \A t \in Threads : pc[t] \in Working => at[t] \in Fds

(* A descriptor that is being opened or closed is in one thread's hands.   *)
(* Unless a close went round the hooks, it has a context only before       *)
(* FdManager::del, and a closed number has none.                           *)
OneWorker ==
    /\ \A t, u \in Threads :
         pc[t] \in Working /\ pc[u] \in Working /\ at[t] = at[u] => t = u
    /\ \A t \in Threads : pc[t] \in Working =>
         at[t] \notin usable /\ sock[at[t]] # 0
    /\ \A t \in Threads : pc[t] \in {"get", "create", "close"} =>
         at[t] \in bypassed \/ ctx[at[t]] = None
    /\ \A fd \in usable : sock[fd] # 0
    /\ \A fd \in Fds \ bypassed : sock[fd] = 0 => ctx[fd] = None

(* A socket blocks until FdCtx::init has switched it, and every context    *)
(* remembers that it did.                                                  *)
SysNonblock ==
    /\ \A t \in Threads : pc[t] \in {"get", "create"} =>
         at[t] \in bypassed \cup userset \/ ~nonblock[at[t]]
    /\ \A fd \in Fds \ (bypassed \cup userset) : ctx[fd] # None => ctx[fd].sys

=============================================================================
