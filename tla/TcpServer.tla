----------------------------- MODULE TcpServer -----------------------------
(***************************************************************************)
(* TcpServer (tcp_server.cpp) with the Socket objects it listens on and    *)
(* accepts (socket.cpp).  bind, start and stop are called by the owner;    *)
(* every startAccept is a fiber of the accept worker, the closing of the   *)
(* listening sockets is a task of the same worker, and an accepted client  *)
(* is handled by a fiber of the io worker.  All of them interleave.        *)
(*                                                                         *)
(* A Socket is a shared_ptr: when its last holder lets go, ~Socket closes  *)
(* the descriptor, as part of the step that lets go.  Waiting in accept()  *)
(* is do_io of hook.cpp (HookIO) without a timeout.  Reuse of descriptor   *)
(* numbers is left to FdManager.                                           *)
(***************************************************************************)
EXTENDS Naturals, FiniteSets

CONSTANTS
    Socks,      \* listening sockets that bind() creates
    Clients,    \* peers that connect once
    None,
    MaxStarts,  \* bound: calls of start() that submit accept fibers
    MaxStops    \* bound: calls of stop()

ASSUME TcpAssumption ==
    /\ None \notin Socks \cup Clients \cup (Socks \X {"cancelled", "close"})
    /\ MaxStarts \in Nat /\ MaxStops \in Nat

Acceptors == Socks \X (1..MaxStarts)
SockOf(a) == a[1]

VARIABLES
    stopped,    \* m_is_stop
    lsocks,     \* m_listen_socks
    fd,         \* listening descriptor: "new", "open" or "closed" (-1)
    starts, stops,
    acc,        \* position of each accept fiber in startAccept
    client,     \* the client an accept fiber has accepted
    event,      \* listening sockets with a registered read event
    closers,    \* closing tasks in the queue of the accept worker
    todo, at,   \* the running closing task: sockets left, <<socket, stage>>
    conn,       \* each peer's connection, seen from the server
    target,     \* the socket in whose backlog a peer waits
    aborted,    \* addEvent's assertion has failed
    torn,       \* accept fibers registered inside close(): the event is lost
    early,      \* start() was called while a closing task was outstanding
    late,       \* sockets bound while the server runs: no accept fiber yet
    dropped     \* sockets that a failed bind() took out of m_listen_socks

srvVars == <<stopped, lsocks, fd, starts, stops>>
accVars == <<acc, client, event>>
clsVars == <<closers, todo, at>>
conVars == <<conn, target>>
hisVars == <<aborted, torn, early, late, dropped>>
vars == <<srvVars, accVars, clsVars, conVars, hisVars>>

Init ==
    /\ stopped = TRUE /\ lsocks = {} /\ fd = [s \in Socks |-> "new"]
    /\ starts = 0 /\ stops = 0
    /\ acc = [a \in Acceptors |-> "none"] /\ client = [a \in Acceptors |-> None]
    /\ event = {}
    /\ closers = 0 /\ todo = {} /\ at = None
    /\ conn = [c \in Clients |-> "new"] /\ target = [c \in Clients |-> None]
    /\ aborted = FALSE /\ torn = {} /\ early = FALSE /\ late = {} /\ dropped = {}

Live(a) == acc[a] \notin {"none", "ended"}
HeldBy(s) == {a \in Acceptors : SockOf(a) = s /\ Live(a)}
Backlog(s) == {c \in Clients : target[c] = s}

(* The kernel resets what waits on a descriptor that is closed. *)
ResetBacklog(S) ==
    /\ conn' = [c \in Clients |-> IF target[c] \in S THEN "closed" ELSE conn[c]]
    /\ target' = [c \in Clients |-> IF target[c] \in S THEN None ELSE target[c]]

(* Mutant: ~Socket does not close. *)
Mut_Destroyed(S) == {}

(* ~Socket, for the sockets of S that nobody else holds. *)
Destroyed(S) == {s \in S : HeldBy(s) = {} /\ fd[s] = "open"}

Outstanding == closers > 0 \/ todo # {} \/ at # None

-----------------------------------------------------------------------------
(* bind(addrs, fails): every address gets a socket; if one of them fails,  *)
(* the whole vector is cleared, the sockets of earlier calls included.     *)
(* An owner does not bind while a closing task may clear the same vector.  *)
Bind(S, F) ==
    /\ S # {} /\ F \subseteq S /\ \A s \in S : fd[s] = "new"
    /\ ~Outstanding
    /\ IF F = {}
       THEN /\ lsocks' = lsocks \cup S
            /\ fd' = [s \in Socks |-> IF s \in S THEN "open" ELSE fd[s]]
            /\ late' = IF stopped THEN late ELSE late \cup S
            /\ UNCHANGED <<conn, target, dropped>>
       ELSE /\ lsocks' = {}
            /\ fd' = [s \in Socks |->
                        IF s \in S \cup Destroyed(lsocks) THEN "closed" ELSE fd[s]]
            /\ dropped' = dropped \cup lsocks /\ late' = {}
            /\ ResetBacklog(Destroyed(lsocks))
    /\ UNCHANGED <<stopped, starts, stops, accVars, clsVars, aborted, torn, early>>

(* Mutant: start() does not look at m_is_stop. *)
Mut_Start ==
    /\ starts < MaxStarts
    /\ stopped' = FALSE /\ starts' = starts + 1
    /\ acc' = [a \in Acceptors |->
                 IF a[1] \in lsocks /\ a[2] = starts + 1 THEN "test" ELSE acc[a]]
    /\ early' = (early \/ Outstanding) /\ late' = {}
    /\ UNCHANGED <<lsocks, fd, stops, client, event, clsVars, conVars, aborted, torn, dropped>>

Start ==
    /\ stopped /\ starts < MaxStarts
    /\ stopped' = FALSE /\ starts' = starts + 1
    /\ acc' = [a \in Acceptors |->
                 IF a[1] \in lsocks /\ a[2] = starts + 1 THEN "test" ELSE acc[a]]
    /\ early' = (early \/ Outstanding) /\ late' = {}
    /\ UNCHANGED <<lsocks, fd, stops, client, event, clsVars, conVars, aborted, torn, dropped>>

(* stop() only sets the flag and submits the task that closes. *)
Stop ==
    /\ stops < MaxStops /\ stops' = stops + 1
    /\ stopped' = TRUE /\ closers' = closers + 1
    /\ UNCHANGED <<lsocks, fd, starts, accVars, todo, at, conVars, hisVars>>

-----------------------------------------------------------------------------
(* The closing task, for each socket: cancelAll(); then in close() once    *)
(* more cancelAll() and delAll(), and the descriptor goes away.            *)

(* A task that finds the vector already empty ends at once. *)
CloseTask ==
    /\ closers > 0 /\ ~(todo # {} \/ at # None)
    /\ closers' = closers - 1 /\ todo' = lsocks
    /\ UNCHANGED <<srvVars, accVars, at, conVars, hisVars>>

Woken(s) == [a \in Acceptors |-> IF SockOf(a) = s /\ acc[a] = "held" /\ s \in event
                                  THEN "call" ELSE acc[a]]

(* Mutant: the task closes the sockets without cancelling first. *)
Mut_CancelAll(s) ==
    /\ at = None /\ s \in todo
    /\ at' = <<s, "close">> /\ todo' = todo \ {s}
    /\ UNCHANGED <<srvVars, accVars, closers, conVars, hisVars>>

CancelAll(s) ==
    /\ at = None /\ s \in todo
    /\ at' = <<s, "cancelled">> /\ todo' = todo \ {s}
    /\ acc' = Woken(s) /\ event' = event \ {s}
    /\ UNCHANGED <<srvVars, client, closers, conVars, hisVars>>

CloseCancels(s) ==
    /\ at = <<s, "cancelled">> /\ at' = <<s, "close">>
    /\ acc' = Woken(s) /\ event' = event \ {s}
    /\ UNCHANGED <<srvVars, client, closers, todo, conVars, hisVars>>

(* close_f and m_sock_fd = -1; after the last socket the vector is cleared. *)
CloseFd(s) ==
    /\ at = <<s, "close">> /\ at' = None
    /\ fd' = [fd EXCEPT ![s] = "closed"]
    /\ ResetBacklog({s})
    /\ lsocks' = IF todo = {} THEN {} ELSE lsocks
    /\ UNCHANGED <<stopped, starts, stops, accVars, closers, todo, hisVars>>

-----------------------------------------------------------------------------
(* startAccept, one fiber *)

(* The bound std::function lets go of its socket. *)
Leave(a) ==
    LET s == SockOf(a) IN
    /\ acc[a] = "test" /\ stopped
    /\ acc' = [acc EXCEPT ![a] = "ended"]
    /\ IF s \notin lsocks /\ HeldBy(s) = {a} /\ fd[s] = "open"
       THEN fd' = [fd EXCEPT ![s] = "closed"] /\ ResetBacklog({s})
       ELSE UNCHANGED <<fd, conn, target>>
    /\ UNCHANGED <<stopped, lsocks, starts, stops, client, event, clsVars, hisVars>>

Loop(a) ==
    /\ acc[a] = "test" /\ ~stopped
    /\ acc' = [acc EXCEPT ![a] = "call"]
    /\ UNCHANGED <<srvVars, client, event, clsVars, conVars, hisVars>>

(* Socket::accept got a descriptor and init() found its FdCtx. *)
AcceptOk(a, c) ==
    /\ acc[a] = "call" /\ fd[SockOf(a)] = "open" /\ c \in Backlog(SockOf(a))
    /\ acc' = [acc EXCEPT ![a] = "accepted"] /\ client' = [client EXCEPT ![a] = c]
    /\ conn' = [conn EXCEPT ![c] = "accepted"] /\ target' = [target EXCEPT ![c] = None]
    /\ UNCHANGED <<srvVars, event, clsVars, hisVars>>

(* EBADF: accept() returns nullptr, the loop only logs it. *)
AcceptFails(a) ==
    /\ acc[a] \in {"call", "add"} /\ fd[SockOf(a)] = "closed"
    /\ acc' = [acc EXCEPT ![a] = "test"]
    /\ UNCHANGED <<srvVars, client, event, clsVars, conVars, hisVars>>

(* accept() fails on an open socket and the loop only logs it: for want of *)
(* a descriptor (EMFILE), or because the peer c has gone (ECONNABORTED).   *)
AcceptErrs(a) ==
    /\ acc[a] = "call" /\ fd[SockOf(a)] = "open"
    /\ acc' = [acc EXCEPT ![a] = "test"]
    /\ \/ UNCHANGED conVars
       \/ \E c \in Backlog(SockOf(a)) :
            /\ conn' = [conn EXCEPT ![c] = "closed"]
            /\ target' = [target EXCEPT ![c] = None]
    /\ UNCHANGED <<srvVars, client, event, clsVars, hisVars>>

(* EAGAIN *)
AcceptWaits(a) ==
    /\ acc[a] = "call" /\ fd[SockOf(a)] = "open" /\ Backlog(SockOf(a)) = {}
    /\ acc' = [acc EXCEPT ![a] = "add"]
    /\ UNCHANGED <<srvVars, client, event, clsVars, conVars, hisVars>>

(* Mutant: accept() waits for the write event. *)
Mut_AddEvent(a) ==
    /\ acc[a] = "add" /\ fd[SockOf(a)] = "open"
    /\ acc' = [acc EXCEPT ![a] = "held"]
    /\ UNCHANGED <<srvVars, client, event, clsVars, conVars, hisVars>>

(* addEvent asserts that no other fiber waits for the same event. *)
AddEvent(a) ==
    LET s == SockOf(a) IN
    /\ acc[a] = "add" /\ fd[s] = "open"
    /\ aborted' = (aborted \/ s \in event)
    /\ event' = event \cup {s}
    /\ acc' = [acc EXCEPT ![a] = "held"]
    /\ torn' = IF at = <<s, "close">> THEN torn \cup {a} ELSE torn
    /\ UNCHANGED <<srvVars, client, clsVars, conVars, early, late, dropped>>

(* The poller dispatches the event of a socket with a backlog. *)
Dispatch(s) ==
    /\ s \in event /\ fd[s] = "open" /\ Backlog(s) # {}
    /\ acc' = Woken(s) /\ event' = event \ {s}
    /\ UNCHANGED <<srvVars, client, clsVars, conVars, hisVars>>

(* setRecvTimeout, and handleClient is submitted to the io worker. *)
HandOver(a) ==
    /\ acc[a] = "accepted"
    /\ acc' = [acc EXCEPT ![a] = "test"] /\ client' = [client EXCEPT ![a] = None]
    /\ conn' = [conn EXCEPT ![client[a]] = "queued"]
    /\ UNCHANGED <<srvVars, event, clsVars, target, hisVars>>

-----------------------------------------------------------------------------
(* The peers and the handlers of clients *)

(* Socket::connect of a peer.  Where nobody listens it fails, closes the   *)
(* peer's socket again and changes nothing here.                           *)
Connect(c, s) ==
    /\ conn[c] = "new" /\ fd[s] = "open"
    /\ conn' = [conn EXCEPT ![c] = "backlog"] /\ target' = [target EXCEPT ![c] = s]
    /\ UNCHANGED <<srvVars, accVars, clsVars, hisVars>>

(* handleClient runs in a fiber; it ends with Socket::close. *)
HandleClient(c) ==
    /\ conn[c] = "queued" /\ conn' = [conn EXCEPT ![c] = "closed"]
    /\ UNCHANGED <<srvVars, accVars, clsVars, target, hisVars>>

(* ~TcpServer, when no fiber and no task holds the server any more. *)
Destroy ==
    /\ stops = MaxStops /\ lsocks # {} /\ ~Outstanding
    /\ \A a \in Acceptors : ~Live(a)
    /\ \A c \in Clients : conn[c] \notin {"accepted", "queued"}
    /\ fd' = [s \in Socks |-> IF s \in lsocks THEN "closed" ELSE fd[s]]
    /\ ResetBacklog(lsocks) /\ lsocks' = {}
    /\ UNCHANGED <<stopped, starts, stops, accVars, clsVars, hisVars>>

AcceptStep(a) ==
    \/ Leave(a) \/ Loop(a) \/ (\E c \in Clients : AcceptOk(a, c)) \/ AcceptFails(a)
    \/ AcceptErrs(a) \/ AcceptWaits(a) \/ AddEvent(a) \/ HandOver(a)
CloserStep == CloseTask \/ \E s \in Socks : CancelAll(s) \/ CloseCancels(s) \/ CloseFd(s)

(* A failed assertion ends the process. *)
Next ==
    /\ ~aborted
    /\ \/ \E S \in SUBSET Socks : \E F \in SUBSET S : Bind(S, F)
       \/ Start \/ Stop \/ Destroy
       \/ CloserStep
       \/ \E a \in Acceptors : AcceptStep(a)
       \/ \E s \in Socks : Dispatch(s)
       \/ \E c \in Clients, s \in Socks : Connect(c, s)
       \/ \E c \in Clients : HandleClient(c)

(* The workers run their fibers and tasks, and dispatch what epoll reports; *)
(* owners and peers need not act.  The process does not stay out of         *)
(* descriptors for ever: a peer that could be accepted again and again is.  *)
Spec ==
    /\ Init /\ [][Next]_vars
    /\ \A a \in Acceptors : WF_vars(AcceptStep(a))
    /\ WF_vars(CloserStep) /\ \A s \in Socks : WF_vars(Dispatch(s))
    /\ \A c \in Clients : WF_vars(HandleClient(c))
    /\ \A c \in Clients : SF_vars(\E a \in Acceptors : AcceptOk(a, c))

-----------------------------------------------------------------------------
(* Properties *)

(* Type invariant: the fields of TcpServer and Socket and the fibers' positions. *)
TypeOK ==
    /\ stopped \in BOOLEAN /\ lsocks \subseteq Socks /\ event \subseteq Socks
    /\ fd \in [Socks -> {"new", "open", "closed"}]
    /\ starts \in 0..MaxStarts /\ stops \in 0..MaxStops /\ closers \in 0..stops
    /\ acc \in [Acceptors -> {"none", "test", "call", "add", "held", "accepted", "ended"}]
    /\ client \in [Acceptors -> Clients \cup {None}]
    /\ todo \subseteq Socks
    /\ at \in {None} \cup (Socks \X {"cancelled", "close"})
    /\ conn \in [Clients -> {"new", "backlog", "accepted", "queued", "closed"}]
    /\ target \in [Clients -> Socks \cup {None}]
    /\ aborted \in BOOLEAN /\ early \in BOOLEAN
    /\ torn \subseteq Acceptors /\ late \subseteq Socks /\ dropped \subseteq Socks

(* Every open listening descriptor has an owner that will close it, and    *)
(* every accepted one is with exactly the fiber that accepted it or with   *)
(* its handler: bind, stop, restart and the destructors leak nothing.      *)
NoFdLeak ==
    /\ \A s \in Socks : fd[s] = "open" => s \in lsocks \/ HeldBy(s) # {}
    /\ \A c \in Clients : (conn[c] = "accepted") <=> (\E a \in Acceptors : client[a] = c)
    /\ \A a, b \in Acceptors : client[a] = client[b] /\ client[a] # None => a = b

(* Two accept fibers wait on one socket, which addEvent answers with an    *)
(* assertion, only if start() overtook the closing task of a stop().       *)
AbortNeedsEarlyStart == aborted => early

(* When the server stays stopped every accept fiber ends, except one that  *)
(* registered inside the close() of its socket, and one whose socket a     *)
(* failed bind() had dropped from the vector that stop() closes.           *)
StopEndsAccept ==
    <>[]stopped => <>[](\A a \in Acceptors :
        ~Live(a) \/ a \in torn \/ SockOf(a) \in dropped \/ aborted)

(* A connection in the backlog of a started socket is accepted or reset;   *)
(* a socket bound after start() has no accept fiber.                       *)
BacklogServed ==
    \A c \in Clients :
        (conn[c] = "backlog" /\ ~stopped)
            ~> (conn[c] # "backlog" \/ stopped \/ target[c] \in late \/ aborted)
-----------------------------------------------------------------------------
(* The inductive strengthenings that the proofs in TcpServerProofs use. *)

(* A fiber holds a client exactly in the accepted position, a peer has a   *)
(* socket exactly while it is in the backlog, and fibers of later calls of *)
(* start() do not exist yet.                                               *)
AcceptShape ==
    /\ \A a \in Acceptors : (client[a] # None) <=> (acc[a] = "accepted")
    /\ \A c \in Clients : (target[c] # None) <=> (conn[c] = "backlog")
    /\ \A a \in Acceptors : a[2] > starts => acc[a] = "none"

(* A running closing task still has before it every socket of the vector   *)
(* that is open.                                                           *)
CloserShape ==
    (todo # {} \/ at # None) =>
        \A s \in lsocks : fd[s] = "open" =>
            s \in todo \/ at = <<s, "cancelled">> \/ at = <<s, "close">>

(* A registered event has a fiber that waits for it; and as long as no     *)
(* start() overtook a closing task, one socket has at most one accept      *)
(* fiber, and a server that is stopped and closed has none for the sockets *)
(* that the next start() will serve.                                       *)
WaiterShape ==
    /\ \A s \in event : \E a \in Acceptors : SockOf(a) = s /\ acc[a] = "held"
    /\ \A a \in Acceptors : acc[a] # "none" => fd[SockOf(a)] # "new"
    /\ \A s \in lsocks : fd[s] # "new"
    /\ ~early => \A a, b \in Acceptors :
                    Live(a) /\ Live(b) /\ SockOf(a) = SockOf(b) => a = b
    /\ (~early /\ stopped /\ ~Outstanding) =>
            \A a \in Acceptors : Live(a) => SockOf(a) \notin lsocks
=============================================================================
