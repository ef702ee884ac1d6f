---------------------------- MODULE HookProofs -----------------------------
(* Machine-checked proofs about the hooked calls: FdManager, which keeps   *)
(* the contexts of the sockets, and HookIO in the second half.             *)
EXTENDS FdManager, HookIO, TLAPS

(* The table that get() has resized covers fd and has not shrunk. *)
LEMMA SizeForCovers ==
    ASSUME NEW fd \in Nat, size \in Nat, size >= 2
    PROVE  SizeFor(fd) \in Nat /\ fd < SizeFor(fd) /\ size <= SizeFor(fd)
  BY DEF SizeFor

Base == TypeOK /\ size >= 2 /\ IndexInRange /\ WorkerShape

(* FdManager is constructed with an empty table of at least two entries. *)
LEMMA BaseInit == Init => Base
  BY FdConstAssumption DEF Init, Base, TypeOK, IndexInRange, WorkerShape, Working

(* No step leaves the types or indexes m_container beyond its end. *)
LEMMA BaseNext == Base /\ [Next]_vars => Base'
  <1> SUFFICES ASSUME TypeOK, size >= 2, IndexInRange, WorkerShape, [Next]_vars
               PROVE  TypeOK' /\ (size >= 2)' /\ IndexInRange' /\ WorkerShape'
    BY DEF Base
  <1> USE DEF kernelVars, histVars, WorkerShape, Working
  <1>1. CASE UNCHANGED vars
    BY <1>1 DEF vars, TypeOK, IndexInRange
  <1>2. ASSUME NEW t \in Threads, ThreadStep(t)
        PROVE  TypeOK' /\ (size >= 2)' /\ IndexInRange' /\ WorkerShape'
    <2>1. ASSUME NEW fd \in Fds, NEW nb \in BOOLEAN, NewFd(t, fd, nb)
          PROVE  TypeOK' /\ (size >= 2)' /\ IndexInRange' /\ WorkerShape'
      BY <2>1 DEF NewFd, TypeOK, IndexInRange
    <2>2. CASE GetFinds(t)
      BY <2>2 DEF GetFinds, TypeOK, IndexInRange
    <2>3. CASE GetMisses(t)
      BY <2>3 DEF GetMisses, TypeOK, IndexInRange
    <2>4. CASE Create(t)
      <3>1. at[t] \in Fds /\ at[t] \in Nat
        BY <2>4, FdAssumption DEF Create
      <3>2. SizeFor(at[t]) \in Nat /\ at[t] < SizeFor(at[t]) /\ size <= SizeFor(at[t])
        BY <3>1, SizeForCovers DEF TypeOK
      <3>3. [sock |-> sock[at[t]], sys |-> ~nonblock[at[t]], user |-> FALSE,
             timeout |-> None] \in Context
        BY <3>1 DEF TypeOK, Context
      <3>4. TypeOK'
        BY <2>4, <3>1, <3>2, <3>3 DEF Create, TypeOK
      <3>5. (size >= 2)' /\ IndexInRange' /\ WorkerShape'
        BY <2>4, <3>1, <3>2, FdAssumption DEF Create, TypeOK, IndexInRange
      <3> QED BY <3>4, <3>5
    <2>5. ASSUME NEW fd \in Fds, CloseGets(t, fd)
          PROVE  TypeOK' /\ (size >= 2)' /\ IndexInRange' /\ WorkerShape'
      BY <2>5 DEF CloseGets, TypeOK, IndexInRange
    <2>6. ASSUME NEW fd \in Fds, PlainClose(t, fd)
          PROVE  TypeOK' /\ (size >= 2)' /\ IndexInRange' /\ WorkerShape'
      BY <2>6 DEF PlainClose, TypeOK, IndexInRange
    <2>7. CASE CloseDel(t)
      BY <2>7 DEF CloseDel, TypeOK, IndexInRange
    <2>8. CASE CloseSyscall(t)
      BY <2>8 DEF CloseSyscall, TypeOK, IndexInRange
    <2> QED BY <1>2, <2>1, <2>2, <2>3, <2>4, <2>5, <2>6, <2>7, <2>8 DEF ThreadStep
  <1>3. ASSUME NEW fd \in Fds, FdStep(fd)
        PROVE  TypeOK' /\ (size >= 2)' /\ IndexInRange' /\ WorkerShape'
    <2>1. ASSUME NEW nb \in BOOLEAN, FcntlSetFl(fd, nb)
          PROVE  TypeOK' /\ (size >= 2)' /\ IndexInRange' /\ WorkerShape'
      BY <2>1 DEF FcntlSetFl, Get, TypeOK, IndexInRange, Context
    <2>2. ASSUME NEW nb \in BOOLEAN, Ioctl(fd, nb)
          PROVE  TypeOK' /\ (size >= 2)' /\ IndexInRange' /\ WorkerShape'
      BY <2>2 DEF Ioctl, Get, TypeOK, IndexInRange, Context
    <2>3. ASSUME NEW to \in Timeouts, SetTimeout(fd, to)
          PROVE  TypeOK' /\ (size >= 2)' /\ IndexInRange' /\ WorkerShape'
      BY <2>3 DEF SetTimeout, Get, TypeOK, IndexInRange, Context
    <2> QED BY <1>3, <2>1, <2>2, <2>3 DEF FdStep
  <1> QED BY <1>1, <1>2, <1>3 DEF Next

(* For any descriptors and threads, hooked or not, and any calls: the      *)
(* contexts are well typed and m_container is indexed within its size.     *)
THEOREM TypeCorrect == Spec => [](TypeOK /\ IndexInRange)
  <1>1. Base => TypeOK /\ IndexInRange
    BY DEF Base
  <1> QED BY <1>1, BaseInit, BaseNext, PTL DEF Spec

-----------------------------------------------------------------------------
(* Contexts belong to the current socket. *)

(* In the beginning nothing is open. *)
LEMMA OneWorkerInit == Init => OneWorker /\ CtxIsCurrent
  BY DEF Init, OneWorker, CtxIsCurrent, Working

(* FdManager::del before the system call keeps a closed number without a   *)
(* context until its next socket is given one.                             *)
LEMMA OneWorkerNext ==
    ASSUME Base, OneWorker, CtxIsCurrent, [Next]_vars
    PROVE  OneWorker' /\ CtxIsCurrent'
  <1> USE DEF kernelVars, histVars, Working
  <1>t. /\ TypeOK /\ size \in Nat /\ size >= 2 /\ IndexInRange
        /\ \A u \in Threads : pc[u] \in Working => at[u] \in Fds
    BY DEF Base, TypeOK, WorkerShape
  <1>1. CASE UNCHANGED vars
    BY <1>1 DEF vars, OneWorker, CtxIsCurrent, Get
  <1>2. ASSUME NEW t \in Threads, ThreadStep(t)
        PROVE  OneWorker' /\ CtxIsCurrent'
    <2>1. ASSUME NEW fd \in Fds, NEW nb \in BOOLEAN, NewFd(t, fd, nb)
          PROVE  OneWorker' /\ CtxIsCurrent'
      BY <1>t, <2>1 DEF NewFd, OneWorker, CtxIsCurrent, Get, TypeOK
    <2>2. CASE GetFinds(t)
      <3>1. at[t] \in Fds /\ ctx[at[t]] # None /\ at[t] \in bypassed
        BY <1>t, <2>2 DEF GetFinds, OneWorker, Get
      <3> QED BY <1>t, <2>2, <3>1 DEF GetFinds, OneWorker, CtxIsCurrent, Get, TypeOK
    <2>3. CASE GetMisses(t)
      BY <1>t, <2>3 DEF GetMisses, OneWorker, CtxIsCurrent, Get, TypeOK
    <2>4. CASE Create(t)
      <3>1. at[t] < SizeFor(at[t]) /\ size <= SizeFor(at[t]) /\ SizeFor(at[t]) \in Nat
        BY <1>t, <2>4, SizeForCovers, FdAssumption DEF Create
      <3>2. OneWorker'
        <4>1. \A u \in Threads : u # t /\ pc[u] \in Working => at[u] # at[t]
          BY <2>4 DEF Create, OneWorker
        <4>2. /\ pc'[t] = "idle" /\ usable' = usable \cup {at[t]}
              /\ sock[at[t]] # 0 /\ at[t] \in Fds /\ sock' = sock /\ at' = at
              /\ bypassed' = bypassed
              /\ \A u \in Threads : u # t => pc'[u] = pc[u]
              /\ \A g \in Fds : g # at[t] => ctx'[g] = ctx[g]
          BY <1>t, <2>4 DEF Create, OneWorker, TypeOK
        <4>3. \A u \in Threads : pc'[u] \in Working => u # t /\ pc[u] = pc'[u]
          BY <4>2
        <4>4. \A u, v \in Threads :
                pc'[u] \in Working /\ pc'[v] \in Working /\ at[u] = at[v] => u = v
          BY <4>3 DEF OneWorker
        <4>5. \A u \in Threads : pc'[u] \in Working => at[u] \notin usable' /\ sock[at[u]] # 0
          BY <4>1, <4>2, <4>3 DEF OneWorker
        <4>6. \A u \in Threads : pc'[u] \in {"get", "create", "close"} =>
                at[u] \in bypassed \/ ctx'[at[u]] = None
          BY <1>t, <4>1, <4>2, <4>3 DEF OneWorker
        <4>7. \A g \in usable' : sock[g] # 0
          BY <4>2 DEF OneWorker
        <4>8. \A g \in Fds \ bypassed : sock[g] = 0 => ctx'[g] = None
          BY <4>2 DEF OneWorker
        <4> QED BY <4>2, <4>4, <4>5, <4>6, <4>7, <4>8 DEF OneWorker
      <3>3. CtxIsCurrent'
        <4>1. at[t] \in Fds /\ at[t] \in Nat /\ at[t] < size'
          BY <1>t, <2>4, <3>1, FdAssumption DEF Create
        <4>2. [sock |-> sock[at[t]], sys |-> ~nonblock[at[t]], user |-> FALSE,
               timeout |-> None] \in Context
          BY <1>t, <4>1 DEF TypeOK, Context
        <4>3. ctx'[at[t]] # None /\ ctx'[at[t]].sock = sock[at[t]]
          BY <1>t, <2>4, <4>1, <4>2, FdConstAssumption DEF Create, TypeOK
        <4>4. \A g \in usable \ bypassed : g # at[t] => Get(g)' # None /\ ctx'[g].sock = sock[g]
          <5> SUFFICES ASSUME NEW g \in usable \ bypassed, g # at[t]
                       PROVE  Get(g)' # None /\ ctx'[g].sock = sock[g]
            OBVIOUS
          <5>1. g \in Nat /\ g < size /\ ctx'[g] = ctx[g] /\ ctx[g] # None /\ ctx[g].sock = sock[g]
            BY <1>t, <2>4, FdAssumption DEF Create, CtxIsCurrent, Get, TypeOK
          <5>2. g < size'
            BY <1>t, <2>4, <3>1, <5>1 DEF Create
          <5> QED BY <5>1, <5>2 DEF Get
        <4> QED BY <2>4, <4>1, <4>3, <4>4 DEF Create, CtxIsCurrent, Get
      <3> QED BY <3>2, <3>3
    <2>5. ASSUME NEW fd \in Fds, CloseGets(t, fd)
          PROVE  OneWorker' /\ CtxIsCurrent'
      BY <1>t, <2>5 DEF CloseGets, OneWorker, CtxIsCurrent, Get, TypeOK
    <2>6. ASSUME NEW fd \in Fds, PlainClose(t, fd)
          PROVE  OneWorker' /\ CtxIsCurrent'
      <3>1. \A u \in Threads : pc[u] \in Working => at[u] # fd
        BY <2>6 DEF PlainClose, OneWorker
      <3> QED BY <1>t, <2>6, <3>1 DEF PlainClose, OneWorker, CtxIsCurrent, Get, TypeOK
    <2>7. CASE CloseDel(t)
      BY <1>t, <2>7 DEF CloseDel, OneWorker, CtxIsCurrent, Get, TypeOK, IndexInRange
    <2>8. CASE CloseSyscall(t)
      BY <1>t, <2>8 DEF CloseSyscall, OneWorker, CtxIsCurrent, Get, TypeOK
    <2> QED BY <1>2, <2>1, <2>2, <2>3, <2>4, <2>5, <2>6, <2>7, <2>8 DEF ThreadStep
  <1>3. ASSUME NEW fd \in Fds, FdStep(fd)
        PROVE  OneWorker' /\ CtxIsCurrent'
    <2>1. ASSUME NEW nb \in BOOLEAN, FcntlSetFl(fd, nb)
          PROVE  OneWorker' /\ CtxIsCurrent'
      <3>1. fd \in usable /\ UNCHANGED <<sock, pc, at, usable, size, bypassed>>
        BY <2>1 DEF FcntlSetFl
      <3>2. CASE Get(fd) = None
        BY <1>t, <2>1, <3>1, <3>2 DEF FcntlSetFl, OneWorker, CtxIsCurrent, Get, TypeOK
      <3>3. CASE Get(fd) # None
        <4>1. fd < size /\ ctx[fd] # None /\ ctx[fd] \in Context
          BY <1>t, <3>1, <3>3 DEF Get, TypeOK
        <4>2. /\ ctx'[fd] # None /\ ctx'[fd].sock = ctx[fd].sock
              /\ \A g \in Fds \ {fd} : ctx'[g] = ctx[g]
          BY <1>t, <2>1, <3>3, <4>1, FdConstAssumption DEF FcntlSetFl, TypeOK, Context
        <4> QED BY <1>t, <3>1, <4>1, <4>2 DEF OneWorker, CtxIsCurrent, Get, TypeOK
      <3> QED BY <3>2, <3>3
    <2>2. ASSUME NEW nb \in BOOLEAN, Ioctl(fd, nb)
          PROVE  OneWorker' /\ CtxIsCurrent'
      <3>1. fd \in usable /\ UNCHANGED <<sock, pc, at, usable, size, bypassed>>
        BY <2>2 DEF Ioctl
      <3>2. CASE Get(fd) = None
        BY <1>t, <2>2, <3>1, <3>2 DEF Ioctl, OneWorker, CtxIsCurrent, Get, TypeOK
      <3>3. CASE Get(fd) # None
        <4>1. fd < size /\ ctx[fd] # None /\ ctx[fd] \in Context
          BY <1>t, <3>1, <3>3 DEF Get, TypeOK
        <4>2. /\ ctx'[fd] # None /\ ctx'[fd].sock = ctx[fd].sock
              /\ \A g \in Fds \ {fd} : ctx'[g] = ctx[g]
          BY <1>t, <2>2, <3>3, <4>1, FdConstAssumption DEF Ioctl, TypeOK, Context
        <4> QED BY <1>t, <3>1, <4>1, <4>2 DEF OneWorker, CtxIsCurrent, Get, TypeOK
      <3> QED BY <3>2, <3>3
    <2>3. ASSUME NEW to \in Timeouts, SetTimeout(fd, to)
          PROVE  OneWorker' /\ CtxIsCurrent'
      <3>1. fd \in usable /\ fd < size /\ ctx[fd] # None /\ ctx[fd] \in Context
        BY <1>t, <2>3 DEF SetTimeout, Get, TypeOK
      <3>2. /\ ctx'[fd] # None /\ ctx'[fd].sock = ctx[fd].sock
            /\ \A g \in Fds \ {fd} : ctx'[g] = ctx[g]
        BY <1>t, <2>3, <3>1, FdConstAssumption DEF SetTimeout, Get, TypeOK, Context
      <3> QED BY <1>t, <2>3, <3>1, <3>2 DEF SetTimeout, OneWorker, CtxIsCurrent, Get, TypeOK
    <2> QED BY <1>3, <2>1, <2>2, <2>3 DEF FdStep
  <1> QED BY <1>1, <1>2, <1>3 DEF Next

(* For any descriptors and threads and any interleaving of opens and       *)
(* closes, a descriptor in use has the context that was made for its own   *)
(* socket, unless its number was last closed by a thread without hooks.    *)
THEOREM ContextsCurrent == Spec => []CtxIsCurrent
  <1>1. Init => Base /\ OneWorker /\ CtxIsCurrent
    BY BaseInit, OneWorkerInit
  <1>2. Base /\ OneWorker /\ CtxIsCurrent /\ [Next]_vars
          => (Base /\ OneWorker /\ CtxIsCurrent)'
    BY BaseNext, OneWorkerNext
  <1> QED BY <1>1, <1>2, PTL DEF Spec

-----------------------------------------------------------------------------
(* Sockets are non-blocking. *)

(* FdCtx::init made every socket in use non-blocking, and F_SETFL keeps it *)
(* so because m_sys_nonblock says that the hooks did it.                   *)
LEMMA NonblockNext ==
    ASSUME Base, OneWorker, CtxIsCurrent, SysNonblock, HookedIsNonblocking,
           [Next]_vars
    PROVE  SysNonblock' /\ HookedIsNonblocking'
  <1> USE DEF kernelVars, histVars, Working
  <1>t. /\ TypeOK /\ \A u \in Threads : pc[u] \in Working => at[u] \in Fds
        /\ \A u \in Threads : pc[u] \in Working => at[u] \notin usable /\ sock[at[u]] # 0
        /\ \A u, v \in Threads :
             pc[u] \in Working /\ pc[v] \in Working /\ at[u] = at[v] => u = v
        /\ \A fd \in usable : sock[fd] # 0
    BY DEF Base, WorkerShape, OneWorker
  <1>1. CASE UNCHANGED vars
    BY <1>1 DEF vars, SysNonblock, HookedIsNonblocking
  <1>2. ASSUME NEW t \in Threads, ThreadStep(t)
        PROVE  SysNonblock' /\ HookedIsNonblocking'
    <2>1. ASSUME NEW fd \in Fds, NEW nb \in BOOLEAN, NewFd(t, fd, nb)
          PROVE  SysNonblock' /\ HookedIsNonblocking'
      <3>1. /\ fd \notin usable /\ (fd \in bypassed \/ ctx[fd] = None)
            /\ \A u \in Threads : pc[u] \in Working => u # t /\ at[u] # fd
        BY <1>t, <2>1 DEF NewFd, OneWorker
      <3>2. /\ UNCHANGED <<ctx, usable, bypassed>>
            /\ nonblock'[fd] = nb /\ pc'[t] = "get" /\ at'[t] = fd
            /\ \A g \in Fds : g # fd => nonblock'[g] = nonblock[g]
            /\ \A u \in Threads : u # t => pc'[u] = pc[u] /\ at'[u] = at[u]
        BY <1>t, <2>1 DEF NewFd, TypeOK
      <3>3. /\ fd \in userset' <=> nb
            /\ \A g : g # fd => (g \in userset' <=> g \in userset)
        BY <2>1 DEF NewFd
      <3>4. SysNonblock'
        BY <1>t, <3>1, <3>2, <3>3 DEF SysNonblock
      <3>5. HookedIsNonblocking'
        BY <1>t, <3>1, <3>2, <3>3 DEF HookedIsNonblocking, TypeOK
      <3> QED BY <3>4, <3>5
    <2>2. CASE GetFinds(t)
      <3>1. at[t] \in Fds /\ ctx[at[t]] # None /\ at[t] \in bypassed
        BY <1>t, <2>2 DEF GetFinds, OneWorker, Get
      <3> QED BY <1>t, <2>2, <3>1 DEF GetFinds, SysNonblock, HookedIsNonblocking, TypeOK
    <2>3. CASE GetMisses(t)
      BY <1>t, <2>3 DEF GetMisses, SysNonblock, HookedIsNonblocking, TypeOK
    <2>4. CASE Create(t)
      <3>1. /\ at[t] \in bypassed \cup userset \/ ~nonblock[at[t]]
            /\ at[t] \in Fds /\ UNCHANGED <<bypassed, userset>>
            /\ \A u \in Threads : u # t /\ pc[u] \in Working => at[u] # at[t]
        BY <1>t, <2>4 DEF Create, SysNonblock
      <3>2. nonblock'[at[t]] /\ (at[t] \in bypassed \cup userset \/ ctx'[at[t]].sys)
        BY <1>t, <2>4, <3>1 DEF Create, TypeOK
      <3>3. \A g \in Fds : g # at[t] => ctx'[g] = ctx[g] /\ nonblock'[g] = nonblock[g]
        BY <1>t, <2>4 DEF Create, TypeOK
      <3>4. \A u \in Threads : pc'[u] \in Working => u # t /\ pc[u] = pc'[u]
        BY <1>t, <2>4 DEF Create, TypeOK
      <3>5. \A u \in Threads : pc'[u] \in {"get", "create"} =>
              at[u] \in bypassed \cup userset \/ ~nonblock'[at[u]]
        BY <1>t, <3>1, <3>3, <3>4 DEF SysNonblock
      <3>6. SysNonblock'
        BY <2>4, <3>1, <3>2, <3>3, <3>5 DEF Create, SysNonblock
      <3>7. HookedIsNonblocking'
        BY <1>t, <2>4, <3>1, <3>2, <3>3 DEF Create, HookedIsNonblocking, TypeOK
      <3> QED BY <3>6, <3>7
    <2>5. ASSUME NEW fd \in Fds, CloseGets(t, fd)
          PROVE  SysNonblock' /\ HookedIsNonblocking'
      BY <1>t, <2>5 DEF CloseGets, SysNonblock, HookedIsNonblocking, TypeOK
    <2>6. ASSUME NEW fd \in Fds, PlainClose(t, fd)
          PROVE  SysNonblock' /\ HookedIsNonblocking'
      BY <1>t, <2>6 DEF PlainClose, SysNonblock, HookedIsNonblocking, TypeOK
    <2>7. CASE CloseDel(t)
      <3>1. /\ at[t] \in Fds /\ at[t] \notin usable /\ ctx'[at[t]] = None
            /\ \A g \in Fds : g # at[t] => ctx'[g] = ctx[g]
            /\ \A u \in Threads : pc'[u] \in {"get", "create"} =>
                 pc[u] = pc'[u] /\ at[u] # at[t]
        BY <1>t, <2>7 DEF CloseDel, TypeOK, Base, IndexInRange
      <3>2. /\ UNCHANGED <<nonblock, at, usable, userset>>
            /\ \A g : g # at[t] => (g \in bypassed' <=> g \in bypassed)
        BY <2>7 DEF CloseDel
      <3> QED BY <1>t, <3>1, <3>2 DEF SysNonblock, HookedIsNonblocking, TypeOK
    <2>8. CASE CloseSyscall(t)
      BY <1>t, <2>8 DEF CloseSyscall, SysNonblock, HookedIsNonblocking, TypeOK
    <2> QED BY <1>2, <2>1, <2>2, <2>3, <2>4, <2>5, <2>6, <2>7, <2>8 DEF ThreadStep
  <1>3. ASSUME NEW fd \in Fds, FdStep(fd)
        PROVE  SysNonblock' /\ HookedIsNonblocking'
    <2>1. ASSUME NEW nb \in BOOLEAN, FcntlSetFl(fd, nb)
          PROVE  SysNonblock' /\ HookedIsNonblocking'
      <3>1. fd \in usable /\ UNCHANGED <<pc, at, usable, bypassed, userset>>
        BY <2>1 DEF FcntlSetFl
      <3>2. \A g \in Fds : g # fd => ctx'[g] = ctx[g] /\ nonblock'[g] = nonblock[g]
        BY <1>t, <2>1 DEF FcntlSetFl, TypeOK
      <3>3. ASSUME fd \notin bypassed \cup userset
            PROVE  ctx'[fd].sys /\ nonblock'[fd]
        <4>1. Get(fd) # None /\ ctx[fd] # None /\ ctx[fd] \in Context /\ ctx[fd].sys = TRUE
          BY <1>t, <3>1, <3>3 DEF CtxIsCurrent, Get, SysNonblock, TypeOK, Context
        <4> QED BY <1>t, <2>1, <4>1 DEF FcntlSetFl, TypeOK, Context
      <3> QED BY <1>t, <3>1, <3>2, <3>3 DEF SysNonblock, HookedIsNonblocking, TypeOK
    <2>2. ASSUME NEW nb \in BOOLEAN, Ioctl(fd, nb)
          PROVE  SysNonblock' /\ HookedIsNonblocking'
      <3>1. /\ fd \in usable /\ UNCHANGED <<pc, at, usable, bypassed>>
            /\ userset \subseteq userset' /\ (fd \in userset' \/ nb = TRUE)
            /\ \A g : g # fd => (g \in userset' <=> g \in userset)
        BY <2>2 DEF Ioctl
      <3>2. \A g \in Fds : g # fd => ctx'[g] = ctx[g] /\ nonblock'[g] = nonblock[g]
        BY <1>t, <2>2 DEF Ioctl, TypeOK
      <3>3. ASSUME fd \notin bypassed \cup userset'
            PROVE  ctx'[fd].sys /\ nonblock'[fd]
        <4>1. ctx[fd] # None /\ ctx[fd] \in Context /\ ctx[fd].sys = TRUE
          BY <1>t, <3>1, <3>3 DEF CtxIsCurrent, Get, SysNonblock, TypeOK, Context
        <4> QED BY <1>t, <2>2, <3>1, <3>3, <4>1 DEF Ioctl, TypeOK, Context
      <3> QED BY <1>t, <3>1, <3>2, <3>3 DEF SysNonblock, HookedIsNonblocking, TypeOK
    <2>3. ASSUME NEW to \in Timeouts, SetTimeout(fd, to)
          PROVE  SysNonblock' /\ HookedIsNonblocking'
      <3>1. ctx[fd] # None /\ ctx[fd] \in Context
        BY <1>t, <2>3 DEF SetTimeout, Get, TypeOK
      <3>2. ctx'[fd].sys = ctx[fd].sys /\ \A g \in Fds : g # fd => ctx'[g] = ctx[g]
        BY <1>t, <2>3, <3>1 DEF SetTimeout, TypeOK, Context
      <3> QED BY <2>3, <3>1, <3>2 DEF SetTimeout, SysNonblock, HookedIsNonblocking
    <2> QED BY <1>3, <2>1, <2>2, <2>3 DEF FdStep
  <1> QED BY <1>1, <1>2, <1>3 DEF Next

(* Every socket in use is non-blocking in the kernel, whatever F_SETFL is  *)
(* asked for, unless it was created with SOCK_NONBLOCK, cleared by FIONBIO *)
(* or its number was last closed by a thread without hooks.                *)
THEOREM HookedNonblocking == Spec => []HookedIsNonblocking
  <1> DEFINE IInv == Base /\ OneWorker /\ CtxIsCurrent /\ SysNonblock /\ HookedIsNonblocking
  <1>1. Init => SysNonblock /\ HookedIsNonblocking
    BY DEF Init, SysNonblock, HookedIsNonblocking
  <1>2. Init => IInv
    BY <1>1, BaseInit, OneWorkerInit
  <1>3. IInv /\ [Next]_vars => IInv'
    BY BaseNext, OneWorkerNext, NonblockNext
  <1> QED BY <1>2, <1>3, PTL DEF Spec

-----------------------------------------------------------------------------
(* The blocking calls of one socket: HookIO. *)

(* Every step of a call, its timer and the kernel keeps the types. *)
LEMMA CallTypeNext ==
    ASSUME CallTypeOK, [CallNext]_ioVars
    PROVE  CallTypeOK'
  <1> USE DEF callVars, envVars, timeVars
  <1>1. CASE UNCHANGED ioVars
    BY <1>1 DEF ioVars, CallTypeOK
  <1>2. CASE Close
    BY <1>2 DEF Close, CallTypeOK
  <1>3. ASSUME NEW e \in Events, EventStep(e) PROVE CallTypeOK'
    <2>1. CASE BecomeReady(e)
      BY <2>1 DEF BecomeReady, CallTypeOK
    <2>2. CASE LoseReady(e)
      BY <2>2 DEF LoseReady, CallTypeOK
    <2>3. CASE UserCancel(e)
      BY <2>3 DEF UserCancel, CancelEffect, CallTypeOK
    <2>4. CASE Report(e)
      BY <2>4 DEF Report, CancelEffect, CallTypeOK
    <2>5. CASE Expire(e)
      BY <2>5 DEF Expire, CallTypeOK
    <2>6. CASE TimerCb(e)
      BY <2>6 DEF TimerCb, CallTypeOK
    <2>7. CASE TimerCancels(e)
      BY <2>7 DEF TimerCancels, CancelEffect, CallTypeOK
    <2>8. CASE Enter(e)
      BY <2>8 DEF Enter, CallTypeOK
    <2>9. CASE Proceed(e)
      BY <2>9 DEF Proceed, Return, UseReady, CallTypeOK
    <2>10. CASE Arm(e)
      BY <2>10 DEF Arm, CallTypeOK
    <2>11. CASE AddEvent(e)
      BY <2>11 DEF AddEvent, CallTypeOK
    <2>12. CASE AddFails(e)
      BY <2>12 DEF AddFails, Return, CallTypeOK
    <2>13. CASE Resume(e)
      BY <2>13 DEF Resume, CallTypeOK
    <2>14. CASE CancelTimer(e)
      BY <2>14 DEF CancelTimer, CallTypeOK
    <2>15. CASE TimeOut(e)
      BY <2>15 DEF TimeOut, Return, CallTypeOK
    <2>16. CASE Retry(e)
      BY <2>16 DEF Retry, CallTypeOK
    <2>17. CASE ConnectWoken(e)
      BY <2>17 DEF ConnectWoken, CallTypeOK
    <2>18. CASE ConnectEnds(e)
      BY <2>18 DEF ConnectEnds, Return, UseReady, CallTypeOK
    <2>19. CASE Yield(e)
      BY <2>19 DEF Yield, CallTypeOK
    <2> QED BY <1>3, <2>1, <2>2, <2>3, <2>4, <2>5, <2>6, <2>7, <2>8, <2>9, 
               <2>10, <2>11, <2>12, <2>13, <2>14, <2>15, <2>16, <2>17, <2>18, <2>19
            DEF EventStep, CallStep
  <1> QED BY <1>1, <1>2, <1>3 DEF CallNext

(* Every step that ends a registration submits the fiber that held it, and *)
(* only a fiber that holds, or is about to, is registered.                 *)
LEMMA WokenOnceNext ==
    ASSUME CallTypeOK, WokenOnce, [CallNext]_ioVars
    PROVE  WokenOnce'
  <1> USE DEF callVars, envVars, timeVars
  <1>1. CASE UNCHANGED ioVars
    BY <1>1 DEF ioVars, CallTypeOK, WokenOnce
  <1>2. CASE Close
    BY <1>2 DEF Close, CallTypeOK, WokenOnce
  <1>3. ASSUME NEW e \in Events, EventStep(e) PROVE WokenOnce'
    <2>1. CASE BecomeReady(e)
      BY <2>1 DEF BecomeReady, CallTypeOK, WokenOnce
    <2>2. CASE LoseReady(e)
      BY <2>2 DEF LoseReady, CallTypeOK, WokenOnce
    <2>3. CASE UserCancel(e)
      BY <2>3 DEF UserCancel, CancelEffect, CallTypeOK, WokenOnce
    <2>4. CASE Report(e)
      BY <2>4 DEF Report, CancelEffect, CallTypeOK, WokenOnce
    <2>5. CASE Expire(e)
      BY <2>5 DEF Expire, CallTypeOK, WokenOnce
    <2>6. CASE TimerCb(e)
      BY <2>6 DEF TimerCb, CallTypeOK, WokenOnce
    <2>7. CASE TimerCancels(e)
      BY <2>7 DEF TimerCancels, CancelEffect, CallTypeOK, WokenOnce
    <2>8. CASE Enter(e)
      BY <2>8 DEF Enter, CallTypeOK, WokenOnce
    <2>9. CASE Proceed(e)
      BY <2>9 DEF Proceed, Return, UseReady, CallTypeOK, WokenOnce
    <2>10. CASE Arm(e)
      BY <2>10 DEF Arm, CallTypeOK, WokenOnce
    <2>11. CASE AddEvent(e)
      BY <2>11 DEF AddEvent, CallTypeOK, WokenOnce
    <2>12. CASE AddFails(e)
      BY <2>12 DEF AddFails, Return, CallTypeOK, WokenOnce
    <2>13. CASE Resume(e)
      BY <2>13 DEF Resume, CallTypeOK, WokenOnce
    <2>14. CASE CancelTimer(e)
      BY <2>14 DEF CancelTimer, CallTypeOK, WokenOnce
    <2>15. CASE TimeOut(e)
      BY <2>15 DEF TimeOut, Return, CallTypeOK, WokenOnce
    <2>16. CASE Retry(e)
      BY <2>16 DEF Retry, CallTypeOK, WokenOnce
    <2>17. CASE ConnectWoken(e)
      BY <2>17 DEF ConnectWoken, CallTypeOK, WokenOnce
    <2>18. CASE ConnectEnds(e)
      BY <2>18 DEF ConnectEnds, Return, UseReady, CallTypeOK, WokenOnce
    <2>19. CASE Yield(e)
      BY <2>19 DEF Yield, CallTypeOK, WokenOnce
    <2> QED BY <1>3, <2>1, <2>2, <2>3, <2>4, <2>5, <2>6, <2>7, <2>8, <2>9, 
               <2>10, <2>11, <2>12, <2>13, <2>14, <2>15, <2>16, <2>17, <2>18, <2>19
            DEF EventStep, CallStep
  <1> QED BY <1>1, <1>2, <1>3 DEF CallNext

(* A timer is armed on the way into a wait and cancelled on the way out. *)
LEMMA NoTimerLeftNext ==
    ASSUME CallTypeOK, NoTimerLeft, [CallNext]_ioVars
    PROVE  NoTimerLeft'
  <1> USE DEF callVars, envVars, timeVars
  <1>1. CASE UNCHANGED ioVars
    BY <1>1 DEF ioVars, CallTypeOK, NoTimerLeft
  <1>2. CASE Close
    BY <1>2 DEF Close, CallTypeOK, NoTimerLeft
  <1>3. ASSUME NEW e \in Events, EventStep(e) PROVE NoTimerLeft'
    <2>1. CASE BecomeReady(e)
      BY <2>1 DEF BecomeReady, CallTypeOK, NoTimerLeft
    <2>2. CASE LoseReady(e)
      BY <2>2 DEF LoseReady, CallTypeOK, NoTimerLeft
    <2>3. CASE UserCancel(e)
      BY <2>3 DEF UserCancel, CallTypeOK, NoTimerLeft
    <2>4. CASE Report(e)
      BY <2>4 DEF Report, CallTypeOK, NoTimerLeft
    <2>5. CASE Expire(e)
      BY <2>5 DEF Expire, CallTypeOK, NoTimerLeft
    <2>6. CASE TimerCb(e)
      BY <2>6 DEF TimerCb, CallTypeOK, NoTimerLeft
    <2>7. CASE TimerCancels(e)
      BY <2>7 DEF TimerCancels, CallTypeOK, NoTimerLeft
    <2>8. CASE Enter(e)
      BY <2>8 DEF Enter, CallTypeOK, NoTimerLeft
    <2>9. CASE Proceed(e)
      BY <2>9 DEF Proceed, Return, UseReady, CallTypeOK, NoTimerLeft
    <2>10. CASE Arm(e)
      BY <2>10 DEF Arm, CallTypeOK, NoTimerLeft
    <2>11. CASE AddEvent(e)
      BY <2>11 DEF AddEvent, CallTypeOK, NoTimerLeft
    <2>12. CASE AddFails(e)
      BY <2>12 DEF AddFails, Return, CallTypeOK, NoTimerLeft
    <2>13. CASE Resume(e)
      BY <2>13 DEF Resume, CallTypeOK, NoTimerLeft
    <2>14. CASE CancelTimer(e)
      BY <2>14 DEF CancelTimer, CallTypeOK, NoTimerLeft
    <2>15. CASE TimeOut(e)
      BY <2>15 DEF TimeOut, Return, CallTypeOK, NoTimerLeft
    <2>16. CASE Retry(e)
      BY <2>16 DEF Retry, CallTypeOK, NoTimerLeft
    <2>17. CASE ConnectWoken(e)
      BY <2>17 DEF ConnectWoken, CallTypeOK, NoTimerLeft
    <2>18. CASE ConnectEnds(e)
      BY <2>18 DEF ConnectEnds, Return, UseReady, CallTypeOK, NoTimerLeft
    <2>19. CASE Yield(e)
      BY <2>19 DEF Yield, CallTypeOK, NoTimerLeft
    <2> QED BY <1>3, <2>1, <2>2, <2>3, <2>4, <2>5, <2>6, <2>7, <2>8, <2>9, 
               <2>10, <2>11, <2>12, <2>13, <2>14, <2>15, <2>16, <2>17, <2>18, <2>19
            DEF EventStep, CallStep
  <1> QED BY <1>1, <1>2, <1>3 DEF CallNext

(* Callbacks stay within the call whose timer they come from. *)
LEMMA TimerShapeNext ==
    ASSUME CallTypeOK, NoTimerLeft, TimerShape, [CallNext]_ioVars
    PROVE  TimerShape'
  <1> USE DEF callVars, envVars, timeVars
  <1>1. CASE UNCHANGED ioVars
    BY <1>1 DEF ioVars, CallTypeOK, NoTimerLeft, TimerShape
  <1>2. CASE Close
    BY <1>2 DEF Close, CallTypeOK, NoTimerLeft, TimerShape
  <1>3. ASSUME NEW e \in Events, EventStep(e) PROVE TimerShape'
    <2>1. CASE BecomeReady(e)
      BY <2>1 DEF BecomeReady, CallTypeOK, NoTimerLeft, TimerShape
    <2>2. CASE LoseReady(e)
      BY <2>2 DEF LoseReady, CallTypeOK, NoTimerLeft, TimerShape
    <2>3. CASE UserCancel(e)
      BY <2>3 DEF UserCancel, CallTypeOK, NoTimerLeft, TimerShape
    <2>4. CASE Report(e)
      BY <2>4 DEF Report, CallTypeOK, NoTimerLeft, TimerShape
    <2>5. CASE Expire(e)
      BY <2>5 DEF Expire, CallTypeOK, NoTimerLeft, TimerShape
    <2>6. CASE TimerCb(e)
      BY <2>6 DEF TimerCb, CallTypeOK, NoTimerLeft, TimerShape
    <2>7. CASE TimerCancels(e)
      BY <2>7 DEF TimerCancels, CallTypeOK, NoTimerLeft, TimerShape
    <2>8. CASE Enter(e)
      BY <2>8 DEF Enter, CallTypeOK, NoTimerLeft, TimerShape
    <2>9. CASE Proceed(e)
      BY <2>9 DEF Proceed, Return, UseReady, CallTypeOK, NoTimerLeft, TimerShape
    <2>10. CASE Arm(e)
      BY <2>10 DEF Arm, CallTypeOK, NoTimerLeft, TimerShape
    <2>11. CASE AddEvent(e)
      BY <2>11 DEF AddEvent, CallTypeOK, NoTimerLeft, TimerShape
    <2>12. CASE AddFails(e)
      BY <2>12 DEF AddFails, Return, CallTypeOK, NoTimerLeft, TimerShape
    <2>13. CASE Resume(e)
      BY <2>13 DEF Resume, CallTypeOK, NoTimerLeft, TimerShape
    <2>14. CASE CancelTimer(e)
      BY <2>14 DEF CancelTimer, CallTypeOK, NoTimerLeft, TimerShape
    <2>15. CASE TimeOut(e)
      BY <2>15 DEF TimeOut, Return, CallTypeOK, NoTimerLeft, TimerShape
    <2>16. CASE Retry(e)
      BY <2>16 DEF Retry, CallTypeOK, NoTimerLeft, TimerShape
    <2>17. CASE ConnectWoken(e)
      BY <2>17 DEF ConnectWoken, CallTypeOK, NoTimerLeft, TimerShape
    <2>18. CASE ConnectEnds(e)
      BY <2>18 DEF ConnectEnds, Return, UseReady, CallTypeOK, NoTimerLeft, TimerShape
    <2>19. CASE Yield(e)
      BY <2>19 DEF Yield, CallTypeOK, NoTimerLeft, TimerShape
    <2> QED BY <1>3, <2>1, <2>2, <2>3, <2>4, <2>5, <2>6, <2>7, <2>8, <2>9, 
               <2>10, <2>11, <2>12, <2>13, <2>14, <2>15, <2>16, <2>17, <2>18, <2>19
            DEF EventStep, CallStep
  <1> QED BY <1>1, <1>2, <1>3 DEF CallNext

-----------------------------------------------------------------------------
CallInv == CallTypeOK /\ WokenOnce /\ NoTimerLeft /\ TimerShape

(* Before the first call nothing is registered, armed or late. *)
LEMMA CallInvInit == CallInit => CallInv
  <1> SUFFICES ASSUME CallInit PROVE CallInv
    OBVIOUS
  <1>1. open \in BOOLEAN /\ spurious \in Nat /\ reg \subseteq Events /\ sub \subseteq Events
    BY DEF CallInit
  <1>2. /\ iopc \in [Events -> {"out", "call", "add", "yield", "hold", "woken", "check", "sockopt"}]
        /\ ret \in [Events -> {"none", "ok", "error", "timeout"}]
        /\ late \in [Events -> Nat] /\ firing \in [Events -> Nat] /\ calls \in [Events -> Nat]
    BY DEF CallInit
  <1>3. /\ avail \in [Events -> BOOLEAN] /\ timer \in [Events -> BOOLEAN]
        /\ cancelled \in [Events -> BOOLEAN] /\ expired \in [Events -> BOOLEAN]
    BY DEF CallInit
  <1>4. WokenOnce /\ NoTimerLeft /\ TimerShape
    BY DEF CallInit, WokenOnce, NoTimerLeft, TimerShape
  <1> QED BY <1>1, <1>2, <1>3, <1>4 DEF CallInv, CallTypeOK

(* Every step keeps all of it. *)
LEMMA CallInvNext == CallInv /\ [CallNext]_ioVars => CallInv'
  BY CallTypeNext, WokenOnceNext, NoTimerLeftNext, TimerShapeNext DEF CallInv

(* The locals of the calls, t_info and the callbacks keep their types for  *)
(* any number of calls and wake-ups.                                       *)
THEOREM CallTypeCorrect == CallSpec => []CallTypeOK
  <1>1. CallInv => CallTypeOK
    BY DEF CallInv
  <1> QED BY <1>1, CallInvInit, CallInvNext, PTL DEF CallSpec

(* However the readiness, the timeout, cancels and close() race, one wait  *)
(* in do_io or connect is ended by exactly one submit, and a fiber that    *)
(* does not wait is never submitted.                                       *)
THEOREM OneSubmitPerWait == CallSpec => []WokenOnce
  <1>1. CallInv => WokenOnce
    BY DEF CallInv
  <1> QED BY <1>1, CallInvInit, CallInvNext, PTL DEF CallSpec

(* No path out of a call, the failing addEvent included, leaves its timer  *)
(* in TimerManager.                                                        *)
THEOREM TimersAreCancelled == CallSpec => []NoTimerLeft
  <1>1. CallInv => NoTimerLeft
    BY DEF CallInv
  <1> QED BY <1>1, CallInvInit, CallInvNext, PTL DEF CallSpec

(* ETIMEDOUT is returned only by a call whose own timer expired, for any   *)
(* number of calls on the socket, whatever callbacks of earlier ones are   *)
(* still on their way.                                                     *)
THEOREM TimeoutsAreOwn == CallSpec => TimeoutIsOwn
  <1> DEFINE Own == \A e \in Events : ret[e] # "timeout" /\ ret'[e] = "timeout" => expired[e]
  <1>1. CallInv /\ [CallNext]_ioVars => [Own]_ioVars
    <2> SUFFICES ASSUME CallInv, CallNext PROVE Own
      OBVIOUS
    <2> USE DEF callVars, envVars, timeVars
    <2>1. CallTypeOK /\ TimerShape
      BY DEF CallInv
    <2>2. CASE Close
      BY <2>2 DEF Close
    <2>3. ASSUME NEW e \in Events, EventStep(e) PROVE Own
      <3>1. CASE Proceed(e)
        BY <2>1, <3>1 DEF Proceed, Return, CallTypeOK, TimerShape
      <3>2. CASE AddFails(e)
        BY <2>1, <3>2 DEF AddFails, Return, CallTypeOK, TimerShape
      <3>3. CASE TimeOut(e)
        BY <2>1, <3>3 DEF TimeOut, Return, CallTypeOK, TimerShape
      <3>4. CASE ConnectEnds(e)
        BY <2>1, <3>4 DEF ConnectEnds, Return, CallTypeOK, TimerShape
      <3>5. CASE ret' = ret
        BY <3>5
      <3> QED BY <2>3, <3>1, <3>2, <3>3, <3>4, <3>5
              DEF EventStep, CallStep, BecomeReady, LoseReady, UserCancel, Report, Expire, TimerCb, TimerCancels, Enter, Arm,
                  AddEvent, Yield, Resume, CancelTimer, Retry, ConnectWoken
    <2> QED BY <2>2, <2>3 DEF CallNext
  <1> QED BY <1>1, CallInvInit, CallInvNext, PTL DEF CallSpec, TimeoutIsOwn

=============================================================================
