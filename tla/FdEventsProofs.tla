--------------------------- MODULE FdEventsProofs ---------------------------
(* Machine-checked proofs about FdEvents. *)
EXTENDS FdEvents, FiniteSetTheorems, TLAPS

-----------------------------------------------------------------------------
(* What each operation does to one descriptor *)

(* The operation leaves every other descriptor alone. *)
Frame(fd) ==
    \A gd \in Fds : gd # fd =>
        /\ events'[gd] = events[gd] /\ ctx'[gd] = ctx[gd]
        /\ watched'[gd] = watched[gd] /\ interest'[gd] = interest[gd]

(* The events of R are taken off descriptor fd, with the rest left watched. *)
TakenOff(fd, R) ==
    /\ Frame(fd) /\ R \subseteq events[fd] /\ watched[fd]
    /\ events'[fd] = events[fd] \ R
    /\ interest'[fd] = events[fd] \ R
    /\ watched'[fd] = (events[fd] \ R # {})
    /\ \A l \in Kinds : ctx'[fd][l] = IF l \in R THEN None ELSE ctx[fd][l]
    /\ pending' = pending - Cardinality(R)

(* epoll_ctl changes the one descriptor it is called for. *)
LEMMA CtlFacts ==
    ASSUME TypeOK, NEW fd \in Fds, NEW op, NEW evs, Ctl(op, fd, evs)
    PROVE  /\ watched'[fd] = (op # "DEL")
           /\ interest'[fd] = IF op = "DEL" THEN {} ELSE evs
           /\ \A gd \in Fds : gd # fd => watched'[gd] = watched[gd] /\ interest'[gd] = interest[gd]
  BY DEF TypeOK, Ctl

(* delEvent and cancelEvent take one event off. *)
LEMMA RemoveFacts ==
    ASSUME TypeOK, NEW fd \in Fds, NEW k \in Kinds, Remove(fd, k)
    PROVE  TakenOff(fd, {k})
  <1> DEFINE left == events[fd] \ {k}
             op == IF left # {} THEN "MOD" ELSE "DEL"
  <1>1. /\ k \in events[fd] /\ CtlOk(op, fd) /\ Ctl(op, fd, left)
        /\ events' = [events EXCEPT ![fd] = left] /\ ctx' = [ctx EXCEPT ![fd][k] = None]
        /\ pending' = pending - 1
    BY DEF Remove
  <1>2. op # "ADD" /\ (op = "DEL" <=> left = {})
    OBVIOUS
  <1>3. watched[fd]
    BY <1>1, <1>2 DEF CtlOk, TypeOK
  <1>4. /\ watched'[fd] = (op # "DEL") /\ interest'[fd] = IF op = "DEL" THEN {} ELSE left
        /\ \A gd \in Fds : gd # fd => watched'[gd] = watched[gd] /\ interest'[gd] = interest[gd]
    <2> HIDE DEF op, left
    <2> QED BY <1>1, CtlFacts
  <1>5. events'[fd] = left /\ \A gd \in Fds : gd # fd => events'[gd] = events[gd]
    BY <1>1 DEF TypeOK
  <1>6. /\ \A gd \in Fds : gd # fd => ctx'[gd] = ctx[gd]
        /\ \A l \in Kinds : ctx'[fd][l] = IF l \in {k} THEN None ELSE ctx[fd][l]
    BY <1>1 DEF TypeOK
  <1>7. Cardinality({k}) = 1
    BY FS_Singleton
  <1>8. watched'[fd] = (left # {}) /\ interest'[fd] = left
    BY <1>2, <1>4
  <1> QED BY <1>1, <1>3, <1>4, <1>5, <1>6, <1>7, <1>8 DEF TakenOff, Frame

(* A dispatched batch takes its events off, or changes nothing. *)
LEMMA DispatchFacts ==
    ASSUME TypeOK, NEW p \in Pollers, Dispatch(p)
    PROVE  /\ batch[p] \in Batch
           /\ \/ UNCHANGED <<watched, interest, events, ctx, woken, pending>>
              \/ /\ TakenOff(batch[p].fd, RealEvent(batch[p]))
                 /\ woken' = woken \cup {ctx[batch[p].fd][k] : k \in RealEvent(batch[p])}
  <1> DEFINE fd == batch[p].fd
             real == RealEvent(batch[p])
             left == events[fd] \ real
             op == IF left # {} THEN "MOD" ELSE "DEL"
  <1>1. batch[p] \in Batch /\ fd \in Fds
    BY DEF Dispatch, TypeOK, Batch
  <1>2. IF CtlOk(op, fd)
        THEN /\ real \subseteq events[fd] /\ Ctl(op, fd, left)
             /\ events' = [events EXCEPT ![fd] = left]
             /\ ctx' = [ctx EXCEPT ![fd] = [k \in Kinds |-> IF k \in real THEN None ELSE @[k]]]
             /\ woken' = woken \cup {ctx[fd][k] : k \in real}
             /\ pending' = pending - Cardinality(real)
        ELSE UNCHANGED <<watched, interest, events, ctx, woken, pending>>
    BY DEF Dispatch
  <1>3. CASE CtlOk(op, fd)
    <2> HIDE DEF real
    <2>2. op # "ADD" /\ (op = "DEL" <=> left = {})
      OBVIOUS
    <2>3. watched[fd]
      BY <1>1, <1>3, <2>2 DEF CtlOk, TypeOK
    <2>4. /\ watched'[fd] = (op # "DEL") /\ interest'[fd] = IF op = "DEL" THEN {} ELSE left
          /\ \A gd \in Fds : gd # fd => watched'[gd] = watched[gd] /\ interest'[gd] = interest[gd]
      <3> HIDE DEF op, left, fd
      <3> QED BY <1>1, <1>2, <1>3, CtlFacts
    <2>5. events'[fd] = left /\ \A gd \in Fds : gd # fd => events'[gd] = events[gd]
      BY <1>1, <1>2, <1>3 DEF TypeOK
    <2>6. /\ \A gd \in Fds : gd # fd => ctx'[gd] = ctx[gd]
          /\ \A l \in Kinds : ctx'[fd][l] = IF l \in real THEN None ELSE ctx[fd][l]
      BY <1>1, <1>2, <1>3 DEF TypeOK
    <2>8. watched'[fd] = (left # {}) /\ interest'[fd] = left
      BY <2>2, <2>4
    <2>9. TakenOff(fd, real)
      BY <1>2, <1>3, <2>3, <2>4, <2>5, <2>6, <2>8 DEF TakenOff, Frame
    <2> QED BY <1>1, <1>2, <1>3, <2>9 DEF real
  <1>4. CASE ~CtlOk(op, fd)
    BY <1>1, <1>2, <1>4
  <1> QED BY <1>3, <1>4

(* A registration puts one event on, or changes nothing. *)
LEMMA AddFacts ==
    ASSUME TypeOK, NEW fd \in Fds, NEW k \in Kinds, AddEvent(fd, k)
    PROVE  /\ k \notin events[fd] /\ size' \in Nat /\ size' >= size /\ fd < size'
           /\ life[fd] # "closed"
           /\ torn' = IF life[fd] = "open" THEN torn ELSE torn \cup {fd}
           /\ \/ UNCHANGED <<watched, interest, pending, events, reg, ctx>>
              \/ /\ Frame(fd) /\ watched[fd] = (events[fd] # {})
                 /\ reg' = reg + 1 /\ reg + 1 \in Waiters
                 /\ events'[fd] = events[fd] \cup {k} /\ interest'[fd] = events[fd] \cup {k}
                 /\ watched'[fd] /\ pending' = pending + 1
                 /\ \A l \in Kinds : ctx'[fd][l] = IF l = k THEN reg + 1 ELSE ctx[fd][l]
  <1> DEFINE op == IF events[fd] # {} THEN "MOD" ELSE "ADD"
  <1>1. /\ reg < MaxWaiters /\ life[fd] # "closed" /\ k \notin events[fd] /\ size' = SizeFor(fd)
        /\ IF CtlOk(op, fd)
           THEN /\ Ctl(op, fd, events[fd] \cup {k}) /\ pending' = pending + 1
                /\ events' = [events EXCEPT ![fd] = @ \cup {k}]
                /\ reg' = reg + 1 /\ ctx' = [ctx EXCEPT ![fd][k] = reg + 1]
           ELSE UNCHANGED <<watched, interest, pending, events, reg, ctx>>
        /\ torn' = IF life[fd] = "open" THEN torn ELSE torn \cup {fd}
    BY DEF AddEvent
  <1>2. size' \in Nat /\ size' >= size /\ fd < size'
    <2>1. fd \in Nat /\ size \in Nat /\ size >= 2
      BY FdsAssumption, SizeAssumption DEF TypeOK
    <2>2. CASE size <= fd
      <3>1. (fd * 3) \div 2 \in Nat /\ (fd * 3) \div 2 > fd
        BY <2>1, <2>2
      <3> QED BY <1>1, <2>1, <2>2, <3>1 DEF SizeFor
    <2>3. CASE ~(size <= fd)
      BY <1>1, <2>1, <2>3 DEF SizeFor
    <2> QED BY <2>2, <2>3
  <1>3. op # "DEL" /\ (op # "ADD" <=> events[fd] # {})
    OBVIOUS
  <1>4. CASE CtlOk(op, fd)
    <2>1. watched[fd] = (events[fd] # {})
      BY <1>3, <1>4 DEF CtlOk, TypeOK
    <2>2. /\ watched'[fd] /\ interest'[fd] = events[fd] \cup {k}
          /\ \A gd \in Fds : gd # fd => watched'[gd] = watched[gd] /\ interest'[gd] = interest[gd]
      <3> HIDE DEF op
      <3> QED BY <1>1, <1>3, <1>4, CtlFacts
    <2>3. events'[fd] = events[fd] \cup {k} /\ \A gd \in Fds : gd # fd => events'[gd] = events[gd]
      BY <1>1, <1>4 DEF TypeOK
    <2>4. /\ \A gd \in Fds : gd # fd => ctx'[gd] = ctx[gd]
          /\ \A l \in Kinds : ctx'[fd][l] = IF l = k THEN reg + 1 ELSE ctx[fd][l]
      BY <1>1, <1>4 DEF TypeOK
    <2>5. reg + 1 \in Waiters
      BY <1>1, BoundAssumption DEF TypeOK, Waiters
    <2> QED BY <1>1, <1>2, <1>4, <2>1, <2>2, <2>3, <2>4, <2>5 DEF Frame
  <1>5. CASE ~CtlOk(op, fd)
    BY <1>1, <1>2, <1>5
  <1> QED BY <1>4, <1>5

(* cancelAll wakes one waiter and takes the descriptor out of the kernel's *)
(* list with all its events, or changes nothing.                           *)
LEMMA CancelAllFacts ==
    ASSUME TypeOK, ContextShape, NEW fd \in Fds, CancelAllEffect(fd)
    PROVE  LET k == CancelledByAll(fd) IN
           \/ /\ UNCHANGED <<watched, interest, events, ctx, woken, pending, torn>>
              /\ fd \notin torn => events[fd] = {}
           \/ /\ Frame(fd) /\ watched[fd] /\ ~watched'[fd] /\ interest'[fd] = {}
              /\ k \in events[fd] /\ k \in Kinds /\ events'[fd] = events[fd] \ {k}
              /\ \A l \in Kinds : ctx'[fd][l] = IF l = k THEN None ELSE ctx[fd][l]
              /\ woken' = woken \cup {ctx[fd][k]} /\ pending' = pending - 1
              /\ torn' = IF events[fd] = {k} THEN torn ELSE torn \cup {fd}
  <1> DEFINE k == CancelledByAll(fd)
  <1>1. CASE InTable(fd) /\ events[fd] # {} /\ CtlOk("DEL", fd)
    <2>1. /\ Ctl("DEL", fd, {}) /\ events' = [events EXCEPT ![fd] = @ \ {k}]
          /\ ctx' = [ctx EXCEPT ![fd][k] = None] /\ woken' = woken \cup {ctx[fd][k]}
          /\ pending' = pending - 1 /\ torn' = IF events[fd] = {k} THEN torn ELSE torn \cup {fd}
      BY <1>1 DEF CancelAllEffect
    <2>2. k \in events[fd] /\ k \in Kinds
      <3>1. events[fd] \subseteq Kinds /\ events[fd] \subseteq {"READ", "WRITE"} /\ events[fd] # {}
        BY <1>1, KindsAssumption DEF TypeOK
      <3>2. "READ" \in events[fd] \/ "WRITE" \in events[fd]
        BY <3>1
      <3> QED BY <3>1, <3>2 DEF CancelledByAll
    <2> HIDE DEF k
    <2>3. watched[fd]
      BY <1>1 DEF CtlOk, TypeOK
    <2>4. /\ ~watched'[fd] /\ interest'[fd] = {}
          /\ \A gd \in Fds : gd # fd => watched'[gd] = watched[gd] /\ interest'[gd] = interest[gd]
      BY <2>1, CtlFacts
    <2>5. events'[fd] = events[fd] \ {k} /\ \A gd \in Fds : gd # fd => events'[gd] = events[gd]
      BY <2>1 DEF TypeOK
    <2>6. /\ \A gd \in Fds : gd # fd => ctx'[gd] = ctx[gd]
          /\ \A l \in Kinds : ctx'[fd][l] = IF l = k THEN None ELSE ctx[fd][l]
      BY <2>1, <2>2 DEF TypeOK
    <2> QED BY <2>1, <2>2, <2>3, <2>4, <2>5, <2>6 DEF Frame, k
  <1>2. CASE ~(InTable(fd) /\ events[fd] # {} /\ CtlOk("DEL", fd))
    <2>1. UNCHANGED <<watched, interest, events, ctx, woken, pending, torn>>
      BY <1>2 DEF CancelAllEffect
    <2>2. fd \notin torn => events[fd] = {}
      BY <1>2 DEF ContextShape, FdShape, CtlOk
    <2> QED BY <2>1, <2>2
  <1> QED BY <1>1, <1>2

(* delAll finds events only on a torn descriptor; their contexts are reset *)
(* and the events counted off.                                             *)
LEMMA DelAllFacts ==
    ASSUME TypeOK, ContextShape, NEW fd \in Fds, DelAllEffect(fd), life[fd] = "cancelled"
    PROVE  \/ UNCHANGED <<watched, interest, ctx, dropped, pending>>
           \/ /\ fd \in torn /\ watched[fd] /\ ~watched'[fd] /\ interest'[fd] = {}
              /\ \A gd \in Fds : gd # fd =>
                    ctx'[gd] = ctx[gd] /\ watched'[gd] = watched[gd] /\ interest'[gd] = interest[gd]
              /\ \A l \in Kinds : ctx'[fd][l] = IF l \in events[fd] THEN None ELSE ctx[fd][l]
              /\ dropped' = dropped \cup {ctx[fd][k] : k \in events[fd]}
              /\ pending' = pending - Cardinality(events[fd])
  <1>1. CASE InTable(fd) /\ events[fd] # {} /\ CtlOk("DEL", fd)
    <2>1. /\ Ctl("DEL", fd, {})
          /\ ctx' = [ctx EXCEPT ![fd] = [k \in Kinds |-> IF k \in events[fd] THEN None ELSE @[k]]]
          /\ dropped' = dropped \cup {ctx[fd][k] : k \in events[fd]}
          /\ pending' = pending - Cardinality(events[fd])
      BY <1>1 DEF DelAllEffect
    <2>2. watched[fd] /\ fd \in torn
      BY <1>1 DEF CtlOk, ContextShape, FdShape
    <2>3. /\ ~watched'[fd] /\ interest'[fd] = {}
          /\ \A gd \in Fds : gd # fd => watched'[gd] = watched[gd] /\ interest'[gd] = interest[gd]
      BY <2>1, CtlFacts
    <2>4. /\ \A gd \in Fds : gd # fd => ctx'[gd] = ctx[gd]
          /\ \A l \in Kinds : ctx'[fd][l] = IF l \in events[fd] THEN None ELSE ctx[fd][l]
      BY <2>1 DEF TypeOK
    <2> QED BY <2>1, <2>2, <2>3, <2>4
  <1>2. CASE ~(InTable(fd) /\ events[fd] # {} /\ CtlOk("DEL", fd))
    BY <1>2 DEF DelAllEffect
  <1> QED BY <1>1, <1>2

-----------------------------------------------------------------------------
(* The records of one registration *)

(* What an operation on one descriptor keeps of all the others. *)
LEMMA ContextFrame ==
    ASSUME TypeOK, ContextShape, NEW fd \in Fds, Frame(fd),
           size' \in Nat, size' >= size, torn \subseteq torn',
           \A gd \in Fds : gd # fd => life'[gd] = life[gd],
           FdShape(fd)'
    PROVE  ContextShape'
  <1> SUFFICES ASSUME NEW gd \in Fds, gd # fd PROVE FdShape(gd)'
    BY DEF ContextShape
  <1>1. FdShape(gd) /\ gd \in Nat /\ size \in Nat
    BY FdsAssumption DEF ContextShape, TypeOK
  <1> QED BY <1>1 DEF FdShape, Frame, InTable

(* Taking events off keeps the records together. *)
LEMMA TakenOffShape ==
    ASSUME TypeOK, ContextShape, NEW fd \in Fds, NEW R, TakenOff(fd, R),
           UNCHANGED <<size, torn, life>>
    PROVE  ContextShape'
  <1>1. FdShape(fd)
    BY DEF ContextShape
  <1>2. FdShape(fd)'
    BY <1>1 DEF FdShape, TakenOff, InTable, TypeOK
  <1>3. size' \in Nat /\ size' >= size
    BY DEF TypeOK
  <1> QED BY <1>2, <1>3, ContextFrame DEF TakenOff

(* cancelAll keeps the records of an untorn descriptor together: it ends   *)
(* without events.                                                         *)
LEMMA CancelAllShape ==
    ASSUME TypeOK, ContextShape, NEW fd \in Fds, CancelAllEffect(fd), size' = size,
           life' = life \/ life' = [life EXCEPT ![fd] = "cancelled"]
    PROVE  ContextShape'
  <1>1. FdShape(fd)
    BY DEF ContextShape
  <1>2. /\ size' \in Nat /\ size' >= size /\ torn \subseteq torn'
        /\ \A gd \in Fds : gd # fd => life'[gd] = life[gd]
    BY DEF TypeOK, CancelAllEffect
  <1>3. FdShape(fd)' /\ Frame(fd)
    <2> DEFINE k == CancelledByAll(fd)
    <2>1. CASE UNCHANGED <<watched, interest, events, ctx, torn>> /\ (fd \notin torn => events[fd] = {})
      BY <1>1, <2>1 DEF FdShape, InTable, Frame
    <2>2. CASE /\ Frame(fd) /\ watched[fd] /\ ~watched'[fd] /\ interest'[fd] = {}
               /\ k \in events[fd] /\ k \in Kinds /\ events'[fd] = events[fd] \ {k}
               /\ \A l \in Kinds : ctx'[fd][l] = IF l = k THEN None ELSE ctx[fd][l]
               /\ torn' = IF events[fd] = {k} THEN torn ELSE torn \cup {fd}
      <3> HIDE DEF k
      <3> QED BY <1>1, <2>2 DEF FdShape, InTable
    <2> QED BY <2>1, <2>2, CancelAllFacts
  <1> QED BY <1>2, <1>3, ContextFrame

(* Every operation keeps the records of a registration together. *)
LEMMA ContextNext ==
    ASSUME TypeOK, ContextShape, [Next]_vars
    PROVE  ContextShape'
  <1> USE DEF fdVars
  <1>0. CASE UNCHANGED vars
    BY <1>0 DEF vars, ContextShape, FdShape, InTable
  <1>1. ASSUME NEW fd \in Fds, NEW k \in Kinds, AddEvent(fd, k) PROVE ContextShape'
    <2>1. life' = life /\ FdShape(fd)
      BY <1>1 DEF AddEvent, ContextShape
    <2>2. /\ k \notin events[fd] /\ size' \in Nat /\ size' >= size /\ fd < size'
          /\ torn' = IF life[fd] = "open" THEN torn ELSE torn \cup {fd}
      BY <1>1, AddFacts
    <2>3. CASE UNCHANGED <<watched, interest, pending, events, reg, ctx>>
      <3>1. FdShape(fd)' /\ Frame(fd)
        BY <2>1, <2>2, <2>3 DEF FdShape, InTable, Frame
      <3> QED BY <2>1, <2>2, <3>1, ContextFrame
    <2>4. CASE /\ Frame(fd) /\ watched[fd] = (events[fd] # {})
               /\ reg' = reg + 1 /\ reg + 1 \in Waiters
               /\ events'[fd] = events[fd] \cup {k} /\ interest'[fd] = events[fd] \cup {k}
               /\ watched'[fd]
               /\ \A l \in Kinds : ctx'[fd][l] = IF l = k THEN reg + 1 ELSE ctx[fd][l]
      <3>1. reg + 1 # None
        BY <2>4, BoundAssumption DEF Waiters
      <3>2. \A l \in events[fd] : l \in Kinds
        BY DEF TypeOK
      <3>3. FdShape(fd)'
        BY <2>1, <2>2, <2>4, <3>1, <3>2 DEF FdShape, InTable
      <3> QED BY <2>1, <2>2, <2>4, <3>3, ContextFrame
    <2> QED BY <1>1, <2>3, <2>4, AddFacts
  <1>2. ASSUME NEW fd \in Fds, NEW k \in Kinds, DelEvent(fd, k) PROVE ContextShape'
    BY <1>2, RemoveFacts, TakenOffShape DEF DelEvent
  <1>3. ASSUME NEW fd \in Fds, NEW k \in Kinds, CancelEvent(fd, k) PROVE ContextShape'
    BY <1>3, RemoveFacts, TakenOffShape DEF CancelEvent
  <1>4. ASSUME NEW fd \in Fds, CancelAll(fd) PROVE ContextShape'
    BY <1>4, CancelAllShape DEF CancelAll
  <1>5. ASSUME NEW fd \in Fds, CloseCancels(fd) PROVE ContextShape'
    BY <1>5, CancelAllShape DEF CloseCancels
  <1>6. ASSUME NEW fd \in Fds, CloseDeletes(fd) PROVE ContextShape'
    <2>1. /\ DelAllEffect(fd) /\ life[fd] = "cancelled" /\ FdShape(fd)
          /\ UNCHANGED <<size, events, torn>> /\ life' = [life EXCEPT ![fd] = "deleted"]
      BY <1>6 DEF CloseDeletes, ContextShape
    <2>2. size' \in Nat /\ size' >= size /\ \A gd \in Fds : gd # fd => life'[gd] = life[gd]
      BY <2>1 DEF TypeOK
    <2>3. FdShape(fd)' /\ Frame(fd)
      BY <2>1, DelAllFacts DEF FdShape, InTable, Frame, TypeOK
    <2> QED BY <2>1, <2>2, <2>3, ContextFrame
  <1>7. ASSUME NEW fd \in Fds, CloseSyscall(fd) PROVE ContextShape'
    BY <1>7 DEF CloseSyscall, ContextShape, FdShape, InTable, TypeOK
  <1>8. ASSUME NEW fd \in Fds, Reopen(fd) PROVE ContextShape'
    BY <1>8 DEF Reopen, ContextShape, FdShape, InTable, TypeOK
  <1>9. ASSUME NEW p \in Pollers, NEW fd \in Fds, NEW ev \in SUBSET Kinds, NEW err \in BOOLEAN,
               EpollWait(p, fd, ev, err)
        PROVE  ContextShape'
    BY <1>9 DEF EpollWait, ContextShape, FdShape, InTable
  <1>10. ASSUME NEW p \in Pollers, DispatchSkip(p) PROVE ContextShape'
    BY <1>10 DEF DispatchSkip, ContextShape, FdShape, InTable
  <1>11. ASSUME NEW p \in Pollers, Dispatch(p) PROVE ContextShape'
    <2>1. UNCHANGED <<size, life, torn>> /\ batch[p].fd \in Fds
      BY <1>11, DispatchFacts DEF Dispatch, Batch
    <2>2. CASE TakenOff(batch[p].fd, RealEvent(batch[p]))
      BY <2>1, <2>2, TakenOffShape
    <2>3. CASE UNCHANGED <<watched, interest, events, ctx>>
      BY <2>1, <2>3 DEF ContextShape, FdShape, InTable
    <2> QED BY <1>11, <2>2, <2>3, DispatchFacts
  <1> QED BY <1>0, <1>1, <1>2, <1>3, <1>4, <1>5, <1>6, <1>7, <1>8, <1>9, <1>10, <1>11
          DEF Next, FdStep, PollStep

-----------------------------------------------------------------------------
(* m_pending_event_count *)

(* The watched events of descriptor fd. *)
Part(w, e, fd) == IF w[fd] THEN Cardinality(e[fd]) ELSE 0

(* The watched events of all other descriptors. *)
Others(w, e, fd) == {r \in Fds \X Kinds : r[1] # fd /\ w[r[1]] /\ r[2] \in e[r[1]]}

(* Events are few: READ and WRITE. *)
LEMMA EventsFinite ==
    ASSUME NEW E \in SUBSET Kinds
    PROVE  IsFiniteSet(E) /\ Cardinality(E) \in Nat
  <1>1. IsFiniteSet({"READ", "WRITE"})
    <2>1. IsFiniteSet({"READ"} \cup {"WRITE"})
      BY FS_Singleton, FS_AddElement
    <2>2. {"READ"} \cup {"WRITE"} = {"READ", "WRITE"}
      OBVIOUS
    <2> QED BY <2>1, <2>2
  <1>2. E \in SUBSET {"READ", "WRITE"}
    BY KindsAssumption
  <1>3. IsFiniteSet(E)
    BY <1>1, <1>2, FS_Subset
  <1> QED BY <1>3, FS_CardinalityType

(* The count of watched events is that of one descriptor and of the others. *)
LEMMA RegsSplit ==
    ASSUME NEW w, NEW e, NEW fd \in Fds, e[fd] \in SUBSET Kinds
    PROVE  /\ Cardinality(Regs(w, e)) \in Nat /\ Cardinality(Others(w, e, fd)) \in Nat
           /\ Cardinality(Regs(w, e)) = Cardinality(Others(w, e, fd)) + Part(w, e, fd)
  <1> DEFINE O == Others(w, e, fd)
             P == IF w[fd] THEN {fd} \X e[fd] ELSE {}
  <1>1. IsFiniteSet(Fds \X Kinds)
    BY FdsAssumption, EventsFinite, FS_Product
  <1>2. O \in SUBSET (Fds \X Kinds) /\ P \in SUBSET (Fds \X Kinds)
    BY DEF Others
  <1>3. IsFiniteSet(O) /\ IsFiniteSet(P)
    BY <1>1, <1>2, FS_Subset
  <1>4. Regs(w, e) = O \cup P
    BY DEF Regs, Others
  <1>5. O \cap P = {}
    BY DEF Others
  <1>6. Cardinality(P) = Part(w, e, fd)
    <2>1. CASE w[fd]
      <3>1. IsFiniteSet(e[fd]) /\ Cardinality(e[fd]) \in Nat
        BY EventsFinite
      <3>2. IsFiniteSet({fd}) /\ Cardinality({fd}) = 1
        BY FS_Singleton
      <3>3. Cardinality({fd} \X e[fd]) = Cardinality({fd}) * Cardinality(e[fd])
        BY <3>1, <3>2, FS_Product
      <3> QED BY <2>1, <3>1, <3>2, <3>3 DEF Part
    <2>2. CASE ~w[fd]
      BY <2>2, FS_EmptySet DEF Part
    <2> QED BY <2>1, <2>2
  <1>7. Cardinality(O) \in Nat /\ Cardinality(P) \in Nat
    BY <1>3, FS_CardinalityType
  <1>8. Cardinality(O \cap P) = 0
    BY <1>5, FS_EmptySet
  <1>9. Cardinality(O \cup P) = Cardinality(O) + Cardinality(P) - Cardinality(O \cap P)
    BY <1>3, FS_Union
  <1> HIDE DEF O, P
  <1>10. Cardinality(Regs(w, e)) = Cardinality(O) + Cardinality(P)
    BY <1>4, <1>7, <1>8, <1>9
  <1> QED BY <1>6, <1>7, <1>10 DEF O

(* How an operation on one descriptor changes the count. *)
LEMMA RegsStep ==
    ASSUME TypeOK, NEW fd \in Fds, events'[fd] \in SUBSET Kinds,
           \A gd \in Fds : gd # fd => watched'[gd] = watched[gd] /\ events'[gd] = events[gd]
    PROVE  /\ Cardinality(Regs(watched, events)) \in Nat
           /\ Cardinality(Regs(watched, events)') \in Nat
           /\ Cardinality(Regs(watched, events)')
                = Cardinality(Regs(watched, events)) - Part(watched, events, fd)
                                                     + Part(watched, events, fd)'
           /\ Part(watched, events, fd) \in Nat /\ Part(watched, events, fd)' \in Nat
  <1> DEFINE n == Cardinality(Regs(watched, events))
             o == Cardinality(Others(watched, events, fd))
  <1>1. events[fd] \in SUBSET Kinds
    BY DEF TypeOK
  <1>2. n \in Nat /\ o \in Nat /\ n = o + Part(watched, events, fd)
    BY <1>1, RegsSplit
  <1>3. n' \in Nat /\ o' \in Nat /\ n' = o' + Part(watched, events, fd)'
    BY RegsSplit
  <1>4. Others(watched, events, fd)' = Others(watched, events, fd)
    BY DEF Others
  <1>5. Part(watched, events, fd) \in Nat /\ Part(watched, events, fd)' \in Nat
    BY <1>1, EventsFinite DEF Part
  <1> QED BY <1>2, <1>3, <1>4, <1>5

(* Taking events off keeps the counter with the count. *)
LEMMA TakenOffPending ==
    ASSUME TypeOK, ContextShape, PendingShape, NEW fd \in Fds, NEW R, TakenOff(fd, R), torn' = torn
    PROVE  PendingShape' /\ pending' \in Nat
  <1> DEFINE n == Cardinality(Regs(watched, events))
  <1>1. events[fd] \in SUBSET Kinds /\ events'[fd] \in SUBSET Kinds /\ R \in SUBSET Kinds
    BY DEF TakenOff, TypeOK
  <1>2. /\ n \in Nat /\ n' \in Nat
        /\ n' = n - Part(watched, events, fd) + Part(watched, events, fd)'
    BY <1>1, RegsStep DEF TakenOff, Frame
  <1>3. IsFiniteSet(events[fd]) /\ Cardinality(events[fd]) \in Nat /\ Cardinality(R) \in Nat
    BY <1>1, EventsFinite
  <1>4. events[fd] \cap R = R
    BY DEF TakenOff
  <1>5. Cardinality(events[fd] \ R) = Cardinality(events[fd]) - Cardinality(R)
    BY <1>3, <1>4, FS_Difference
  <1>6. Part(watched, events, fd) = Cardinality(events[fd])
    BY DEF TakenOff, Part
  <1>7. Part(watched, events, fd)' = Cardinality(events[fd] \ R)
    <2>1. CASE events[fd] \ R # {}
      BY <2>1 DEF TakenOff, Part
    <2>2. CASE events[fd] \ R = {}
      BY <2>2, FS_EmptySet DEF TakenOff, Part
    <2> QED BY <2>1, <2>2
  <1>8. n' = n - Cardinality(R) /\ pending' = pending - Cardinality(R) /\ pending \in Nat
    BY <1>2, <1>3, <1>5, <1>6, <1>7 DEF TakenOff, TypeOK
  <1>9. pending >= n /\ (torn = {} => pending = n)
    BY DEF PendingShape
  <1>10. pending' >= n' /\ (torn' = {} => pending' = n') /\ pending' \in Nat
    BY <1>2, <1>3, <1>8, <1>9
  <1> QED BY <1>10 DEF PendingShape

(* cancelAll counts one event off and takes at least one out of the        *)
(* kernel's list.                                                          *)
LEMMA CancelAllPending ==
    ASSUME TypeOK, ContextShape, PendingShape, NEW fd \in Fds, CancelAllEffect(fd)
    PROVE  PendingShape' /\ pending' \in Nat
  <1> DEFINE n == Cardinality(Regs(watched, events))
             k == CancelledByAll(fd)
  <1>1. pending \in Nat /\ pending >= n /\ (torn = {} => pending = n)
    BY DEF PendingShape, TypeOK
  <1>2. CASE UNCHANGED <<watched, events, pending, torn>>
    BY <1>1, <1>2 DEF PendingShape
  <1>3. CASE /\ Frame(fd) /\ watched[fd] /\ ~watched'[fd]
             /\ k \in events[fd] /\ events'[fd] = events[fd] \ {k} /\ pending' = pending - 1
             /\ torn' = IF events[fd] = {k} THEN torn ELSE torn \cup {fd}
    <2> HIDE DEF k
    <2>1. events[fd] \in SUBSET Kinds /\ events'[fd] \in SUBSET Kinds
      BY <1>3 DEF TypeOK
    <2>2. /\ n \in Nat /\ n' \in Nat
          /\ n' = n - Part(watched, events, fd) + Part(watched, events, fd)'
      BY <1>3, <2>1, RegsStep DEF Frame
    <2>3. Part(watched, events, fd) = Cardinality(events[fd]) /\ Part(watched, events, fd)' = 0
      BY <1>3 DEF Part
    <2>4. Cardinality(events[fd]) \in Nat /\ Cardinality(events[fd]) # 0
      BY <1>3, <2>1, EventsFinite, FS_EmptySet
    <2>5. torn' = {} => torn = {} /\ Cardinality(events[fd]) = 1
      BY <1>3, FS_Singleton
    <2>6. n' = n - Cardinality(events[fd])
      BY <2>2, <2>3, <2>4
    <2>7. pending' >= n' /\ (torn' = {} => pending' = n') /\ pending' \in Nat
      BY <1>1, <1>3, <2>2, <2>4, <2>5, <2>6
    <2> QED BY <2>7 DEF PendingShape
  <1> QED BY <1>2, <1>3, CancelAllFacts

(* Every operation keeps the counter at or above the number of watched     *)
(* events, and equal to it while nothing is torn.                          *)
LEMMA PendingNext ==
    ASSUME TypeOK, ContextShape, PendingShape, [Next]_vars
    PROVE  PendingShape' /\ pending' \in Nat
  <1> USE DEF fdVars
  <1> DEFINE n == Cardinality(Regs(watched, events))
  <1>a. pending \in Nat /\ pending >= n /\ (torn = {} => pending = n)
    BY DEF PendingShape, TypeOK
  <1>b. CASE UNCHANGED <<watched, events, pending>> /\ torn \subseteq torn'
    BY <1>a, <1>b DEF PendingShape
  <1>1. ASSUME NEW fd \in Fds, NEW k \in Kinds, AddEvent(fd, k)
        PROVE  PendingShape' /\ pending' \in Nat
    <2>1. torn \subseteq torn'
      BY <1>1 DEF AddEvent
    <2>2. CASE /\ Frame(fd) /\ watched[fd] = (events[fd] # {}) /\ k \notin events[fd]
               /\ events'[fd] = events[fd] \cup {k}
               /\ watched'[fd] /\ pending' = pending + 1
      <3>1. events[fd] \in SUBSET Kinds /\ events'[fd] \in SUBSET Kinds
        BY <2>2 DEF TypeOK
      <3>2. /\ n \in Nat /\ n' \in Nat
            /\ n' = n - Part(watched, events, fd) + Part(watched, events, fd)'
        BY <2>2, <3>1, RegsStep DEF Frame
      <3>3. IsFiniteSet(events[fd]) /\ Cardinality(events[fd]) \in Nat
        BY <3>1, EventsFinite
      <3>4. Part(watched, events, fd)' = Cardinality(events[fd]) + 1
        BY <2>2, <3>3, FS_AddElement DEF Part
      <3>5. Part(watched, events, fd) = Cardinality(events[fd])
        BY <2>2, <3>3, FS_EmptySet DEF Part
      <3>6. n' = n + 1
        BY <3>2, <3>3, <3>4, <3>5
      <3>7. pending' >= n' /\ (torn' = {} => pending' = n') /\ pending' \in Nat
        BY <1>a, <2>1, <2>2, <3>2, <3>6
      <3> QED BY <3>7 DEF PendingShape
    <2> QED BY <1>1, <1>b, <2>1, <2>2, AddFacts
  <1>2. ASSUME NEW fd \in Fds, NEW k \in Kinds, DelEvent(fd, k)
        PROVE  PendingShape' /\ pending' \in Nat
    BY <1>2, RemoveFacts, TakenOffPending DEF DelEvent
  <1>3. ASSUME NEW fd \in Fds, NEW k \in Kinds, CancelEvent(fd, k)
        PROVE  PendingShape' /\ pending' \in Nat
    BY <1>3, RemoveFacts, TakenOffPending DEF CancelEvent
  <1>4. ASSUME NEW fd \in Fds, CancelAll(fd) \/ CloseCancels(fd)
        PROVE  PendingShape' /\ pending' \in Nat
    BY <1>4, CancelAllPending DEF CancelAll, CloseCancels
  <1>5. ASSUME NEW fd \in Fds, CloseDeletes(fd)
        PROVE  PendingShape' /\ pending' \in Nat
    <2>1. DelAllEffect(fd) /\ life[fd] = "cancelled" /\ events' = events /\ torn' = torn
      BY <1>5 DEF CloseDeletes
    <2>2. CASE /\ fd \in torn /\ watched[fd] /\ ~watched'[fd]
               /\ \A gd \in Fds : gd # fd => watched'[gd] = watched[gd]
               /\ pending' = pending - Cardinality(events[fd])
      <3>1. events[fd] \in SUBSET Kinds /\ Cardinality(events[fd]) \in Nat
        BY EventsFinite DEF TypeOK
      <3>2. /\ n \in Nat /\ n' \in Nat
            /\ n' = n - Part(watched, events, fd) + Part(watched, events, fd)'
        BY <2>1, <2>2, <3>1, RegsStep
      <3>3. Part(watched, events, fd) = Cardinality(events[fd]) /\ Part(watched, events, fd)' = 0
        BY <2>1, <2>2 DEF Part
      <3>4. n' = n - Cardinality(events[fd])
        BY <3>1, <3>2, <3>3
      <3>5. pending' >= n' /\ torn' # {} /\ pending' \in Nat
        BY <1>a, <2>1, <2>2, <3>1, <3>2, <3>4
      <3> QED BY <3>5 DEF PendingShape
    <2> QED BY <1>b, <2>1, <2>2, DelAllFacts
  <1>6. ASSUME NEW fd \in Fds, CloseSyscall(fd)
        PROVE  PendingShape' /\ pending' \in Nat
    <2>1. /\ UNCHANGED <<events, pending, torn>> /\ ~watched'[fd]
          /\ \A gd \in Fds : gd # fd => watched'[gd] = watched[gd]
      BY <1>6 DEF CloseSyscall, TypeOK
    <2>2. events[fd] \in SUBSET Kinds /\ Cardinality(events[fd]) \in Nat
      BY EventsFinite DEF TypeOK
    <2>3. /\ n \in Nat /\ n' \in Nat
          /\ n' = n - Part(watched, events, fd) + Part(watched, events, fd)'
      BY <2>1, <2>2, RegsStep
    <2>4. Part(watched, events, fd)' = 0 /\ Part(watched, events, fd) \in Nat
      BY <2>1, <2>2 DEF Part
    <2>5. fd \notin torn => Part(watched, events, fd) = 0
      <3>1. fd \notin torn => ~watched[fd]
        BY <1>6 DEF CloseSyscall, ContextShape, FdShape
      <3> QED BY <3>1 DEF Part
    <2>6. pending' >= n' /\ (torn' = {} => pending' = n') /\ pending' \in Nat
      BY <1>a, <2>1, <2>3, <2>4, <2>5
    <2> QED BY <2>6 DEF PendingShape
  <1>7. ASSUME NEW p \in Pollers, Dispatch(p)
        PROVE  PendingShape' /\ pending' \in Nat
    <2>1. torn' = torn /\ batch[p].fd \in Fds
      BY <1>7, DispatchFacts DEF Dispatch, Batch
    <2>2. CASE TakenOff(batch[p].fd, RealEvent(batch[p]))
      BY <2>1, <2>2, TakenOffPending
    <2> QED BY <1>7, <1>b, <2>1, <2>2, DispatchFacts
  <1>8. ASSUME NEW p \in Pollers, NEW fd \in Fds, NEW ev \in SUBSET Kinds, NEW err \in BOOLEAN,
               EpollWait(p, fd, ev, err)
        PROVE  PendingShape' /\ pending' \in Nat
    BY <1>8, <1>b DEF EpollWait
  <1>9. ASSUME NEW fd \in Fds, Reopen(fd) PROVE PendingShape' /\ pending' \in Nat
    BY <1>9, <1>b DEF Reopen
  <1>10. ASSUME NEW p \in Pollers, DispatchSkip(p) PROVE PendingShape' /\ pending' \in Nat
    BY <1>10, <1>b DEF DispatchSkip
  <1>11. CASE UNCHANGED vars
    BY <1>11, <1>b DEF vars
  <1> QED BY <1>1, <1>2, <1>3, <1>4, <1>5, <1>6, <1>7, <1>8, <1>9, <1>10, <1>11
          DEF Next, FdStep, PollStep

-----------------------------------------------------------------------------
(* Types *)

(* Every operation keeps the types; the counter's is part of its own proof. *)
LEMMA TypeNext ==
    ASSUME TypeOK, ContextShape, pending' \in Nat, [Next]_vars
    PROVE  TypeOK'
  <1> USE DEF fdVars
  <1>a. ASSUME NEW fd \in Fds, NEW R, R \subseteq events[fd], watched[fd]
        PROVE  {ctx[fd][k] : k \in R} \subseteq Waiters
    <2>1. \A k \in R : k \in Kinds /\ ctx[fd][k] # None
      BY <1>a DEF TypeOK, ContextShape, FdShape
    <2> QED BY <2>1 DEF TypeOK
  <1>1. ASSUME NEW fd \in Fds, NEW k \in Kinds, AddEvent(fd, k) PROVE TypeOK'
    <2>1. /\ size' \in Nat /\ size' >= InitialSize
          /\ (reg' = reg \/ (reg' = reg + 1 /\ reg + 1 \in Waiters))
      BY <1>1, AddFacts, SizeAssumption DEF TypeOK
    <2>2. reg' \in 0..MaxWaiters /\ torn' \subseteq Fds
      BY <1>1, <2>1, BoundAssumption DEF AddEvent, TypeOK, Waiters
    <2>3. reg < MaxWaiters /\ reg + 1 \in Waiters
      BY <1>1, BoundAssumption DEF AddEvent, TypeOK, Waiters
    <2>4. events' \in [Fds -> SUBSET Kinds]
      BY <1>1 DEF AddEvent, TypeOK
    <2>5. interest' \in [Fds -> SUBSET Kinds]
      BY <1>1 DEF AddEvent, Ctl, TypeOK
    <2>6. watched' \in [Fds -> BOOLEAN]
      BY <1>1 DEF AddEvent, Ctl, TypeOK
    <2>7. ctx' \in [Fds -> [Kinds -> Waiters \cup {None}]]
      BY <1>1, <2>3 DEF AddEvent, TypeOK
    <2> QED BY <1>1, <2>1, <2>2, <2>4, <2>5, <2>6, <2>7 DEF AddEvent, TypeOK
  <1>2. ASSUME NEW fd \in Fds, NEW k \in Kinds, Remove(fd, k)
        PROVE  /\ events' \in [Fds -> SUBSET Kinds] /\ interest' \in [Fds -> SUBSET Kinds]
               /\ watched' \in [Fds -> BOOLEAN] /\ ctx' \in [Fds -> [Kinds -> Waiters \cup {None}]]
               /\ {ctx[fd][k]} \subseteq Waiters
    <2>1. {ctx[fd][l] : l \in {k}} \subseteq Waiters
      BY <1>2, <1>a, RemoveFacts DEF TakenOff
    <2> QED BY <1>2, <2>1 DEF Remove, Ctl, TypeOK
  <1>3. ASSUME NEW fd \in Fds, NEW k \in Kinds, DelEvent(fd, k) PROVE TypeOK'
    BY <1>2, <1>3 DEF DelEvent, TypeOK
  <1>4. ASSUME NEW fd \in Fds, NEW k \in Kinds, CancelEvent(fd, k) PROVE TypeOK'
    BY <1>2, <1>4 DEF CancelEvent, TypeOK
  <1>5. ASSUME NEW fd \in Fds, CancelAllEffect(fd)
        PROVE  /\ events' \in [Fds -> SUBSET Kinds] /\ interest' \in [Fds -> SUBSET Kinds]
               /\ watched' \in [Fds -> BOOLEAN] /\ ctx' \in [Fds -> [Kinds -> Waiters \cup {None}]]
               /\ woken' \subseteq Waiters /\ torn' \subseteq Fds
    <2>1. events' \in [Fds -> SUBSET Kinds] /\ torn' \subseteq Fds
      BY <1>5 DEF CancelAllEffect, TypeOK
    <2>2. interest' \in [Fds -> SUBSET Kinds]
      BY <1>5 DEF CancelAllEffect, Ctl, TypeOK
    <2>4. watched' \in [Fds -> BOOLEAN]
      BY <1>5 DEF CancelAllEffect, Ctl, TypeOK
    <2>5. ctx' \in [Fds -> [Kinds -> Waiters \cup {None}]]
      <3> DEFINE k == CancelledByAll(fd)
      <3>1. CASE ctx' = ctx
        BY <3>1 DEF TypeOK
      <3>2. CASE ctx' = [ctx EXCEPT ![fd][k] = None]
        <4> HIDE DEF k
        <4> QED BY <3>2 DEF TypeOK
      <3> QED BY <1>5, <3>1, <3>2 DEF CancelAllEffect
    <2>3. woken' \subseteq Waiters
      <3> DEFINE k == CancelledByAll(fd)
      <3>1. CASE woken' = woken
        BY <3>1 DEF TypeOK
      <3>2. CASE watched[fd] /\ k \in events[fd] /\ woken' = woken \cup {ctx[fd][k]}
        <4> HIDE DEF k
        <4>1. {ctx[fd][l] : l \in {k}} \subseteq Waiters
          BY <1>a, <3>2
        <4> QED BY <3>2, <4>1 DEF TypeOK
      <3> QED BY <1>5, <3>1, <3>2, CancelAllFacts
    <2> QED BY <2>1, <2>2, <2>3, <2>4, <2>5
  <1>6. ASSUME NEW fd \in Fds, CancelAll(fd) PROVE TypeOK'
    BY <1>5, <1>6 DEF CancelAll, TypeOK
  <1>7. ASSUME NEW fd \in Fds, CloseCancels(fd) PROVE TypeOK'
    BY <1>5, <1>7 DEF CloseCancels, TypeOK
  <1>8. ASSUME NEW fd \in Fds, CloseDeletes(fd) PROVE TypeOK'
    <2>1. DelAllEffect(fd) /\ life[fd] = "cancelled"
      BY <1>8 DEF CloseDeletes
    <2>2. interest' \in [Fds -> SUBSET Kinds]
      BY <2>1 DEF DelAllEffect, Ctl, TypeOK
    <2>4. watched' \in [Fds -> BOOLEAN]
      BY <2>1 DEF DelAllEffect, Ctl, TypeOK
    <2>5. ctx' \in [Fds -> [Kinds -> Waiters \cup {None}]]
      BY <2>1 DEF DelAllEffect, TypeOK
    <2>3. dropped' \subseteq Waiters
      <3>1. CASE dropped' = dropped
        BY <3>1 DEF TypeOK
      <3>2. CASE watched[fd] /\ dropped' = dropped \cup {ctx[fd][k] : k \in events[fd]}
        <4>1. {ctx[fd][k] : k \in events[fd]} \subseteq Waiters
          BY <1>a, <3>2
        <4> QED BY <3>2, <4>1 DEF TypeOK
      <3> QED BY <2>1, <3>1, <3>2, DelAllFacts
    <2> QED BY <1>8, <2>2, <2>3, <2>4, <2>5 DEF CloseDeletes, TypeOK
  <1>9. ASSUME NEW fd \in Fds, CloseSyscall(fd) PROVE TypeOK'
    BY <1>9 DEF CloseSyscall, TypeOK
  <1>10. ASSUME NEW fd \in Fds, Reopen(fd) PROVE TypeOK'
    BY <1>10 DEF Reopen, TypeOK
  <1>11. ASSUME NEW p \in Pollers, NEW fd \in Fds, NEW ev \in SUBSET Kinds, NEW err \in BOOLEAN,
                EpollWait(p, fd, ev, err)
         PROVE  TypeOK'
    BY <1>11 DEF EpollWait, TypeOK, Batch
  <1>12. ASSUME NEW p \in Pollers, DispatchSkip(p) PROVE TypeOK'
    BY <1>12 DEF DispatchSkip, TypeOK
  <1>13. ASSUME NEW p \in Pollers, Dispatch(p) PROVE TypeOK'
    <2> DEFINE fd == batch[p].fd
               real == RealEvent(batch[p])
    <2>1. batch[p] \in Batch /\ fd \in Fds
      BY <1>13, DispatchFacts DEF Batch
    <2>2. events' \in [Fds -> SUBSET Kinds]
      BY <1>13, <2>1 DEF Dispatch, TypeOK
    <2>5. interest' \in [Fds -> SUBSET Kinds]
      BY <1>13, <2>1 DEF Dispatch, Ctl, TypeOK
    <2>6. watched' \in [Fds -> BOOLEAN]
      BY <1>13, <2>1 DEF Dispatch, Ctl, TypeOK
    <2>3. ctx' \in [Fds -> [Kinds -> Waiters \cup {None}]]
      BY <1>13, <2>1 DEF Dispatch, TypeOK
    <2>4. woken' \subseteq Waiters
      <3>1. CASE woken' = woken
        BY <3>1 DEF TypeOK
      <3>2. CASE TakenOff(fd, real) /\ woken' = woken \cup {ctx[fd][k] : k \in real}
        <4> HIDE DEF fd, real
        <4>1. {ctx[fd][k] : k \in real} \subseteq Waiters
          BY <1>a, <2>1, <3>2 DEF TakenOff
        <4> QED BY <3>2, <4>1 DEF TypeOK
      <3> QED BY <1>13, <3>1, <3>2, DispatchFacts
    <2> QED BY <1>13, <2>2, <2>3, <2>4, <2>5, <2>6 DEF Dispatch, TypeOK
  <1>14. CASE UNCHANGED vars
    BY <1>14 DEF vars, TypeOK
  <1> QED BY <1>1, <1>3, <1>4, <1>6, <1>7, <1>8, <1>9, <1>10, <1>11, <1>12, <1>13, <1>14
          DEF Next, FdStep, PollStep

-----------------------------------------------------------------------------
(* The fate of every waiter *)

(* Taking events off moves their waiters, and no other, to woken or to     *)
(* dropped.                                                                *)
LEMMA TakenOffWaiters ==
    ASSUME TypeOK, ContextShape, WaiterShape, NoLostWaiter, torn = {}, torn' = {},
           NEW fd \in Fds, NEW R, TakenOff(fd, R), reg' = reg,
           LET W == {ctx[fd][k] : k \in R} IN
           \/ woken' = woken \cup W /\ dropped' = dropped
           \/ dropped' = dropped \cup W /\ woken' = woken
    PROVE  WaiterShape' /\ NoLostWaiter'
  <1> DEFINE W == {ctx[fd][k] : k \in R}
  <1>1. \A k \in R : k \in Kinds /\ k \in events[fd] /\ ctx[fd][k] # None /\ ctx[fd][k] \in 1..reg
    BY DEF TakenOff, ContextShape, FdShape, WaiterShape, TypeOK
  <1>2. \A gd \in Fds, l \in Kinds :
          ctx'[gd][l] = IF gd = fd /\ l \in R THEN None ELSE ctx[gd][l]
    BY DEF TakenOff, Frame
  <1>3. \A gd, hd \in Fds, k, l \in Kinds :
          ctx[gd][k] # None /\ ctx[gd][k] = ctx[hd][l] => gd = hd /\ k = l
    BY DEF WaiterShape
  <1>4. \A gd \in Fds, l \in Kinds : ctx[gd][l] # None => ctx[gd][l] \notin woken \cup dropped
    <2> SUFFICES ASSUME NEW gd \in Fds, NEW l \in Kinds, ctx[gd][l] # None,
                        ctx[gd][l] \in woken \cup dropped
                 PROVE  FALSE
      OBVIOUS
    <2>1. ctx[gd][l] \in 1..reg
      BY DEF WaiterShape
    <2> QED BY <2>1 DEF NoLostWaiter
  <1>5. W \subseteq 1..reg /\ W \cap (woken \cup dropped) = {}
    BY <1>1, <1>4
  <1>6. \A w \in W : w # None /\ \A gd \in Fds, l \in Kinds : ctx'[gd][l] # w
    BY <1>1, <1>2, <1>3
  <1>7. woken' \cup dropped' = (woken \cup dropped) \cup W
    OBVIOUS
  <1>8. WaiterShape'
    <2>1. woken' \cup dropped' \subseteq 1..reg'
      BY <1>5, <1>7 DEF WaiterShape
    <2>2. \A gd \in Fds, l \in Kinds : ctx'[gd][l] # None => ctx'[gd][l] \in 1..reg'
      BY <1>2 DEF WaiterShape
    <2>3. \A gd, hd \in Fds, k, l \in Kinds :
            ctx'[gd][k] # None /\ ctx'[gd][k] = ctx'[hd][l] => gd = hd /\ k = l
      BY <1>2, <1>3
    <2> QED BY <2>1, <2>2, <2>3 DEF WaiterShape
  <1>9. NoLostWaiter'
    <2> SUFFICES ASSUME NEW w \in 1..reg
                 PROVE  IF w \in woken' \cup dropped'
                        THEN /\ ~(w \in woken' /\ w \in dropped')
                             /\ \A gd \in Fds, l \in Kinds : ctx'[gd][l] # w
                        ELSE \E gd \in Fds, l \in Kinds : ctx'[gd][l] = w /\ l \in interest'[gd]
      BY DEF NoLostWaiter
    <2>0. IF w \in woken \cup dropped
          THEN ~(w \in woken /\ w \in dropped) /\ \A gd \in Fds, l \in Kinds : ctx[gd][l] # w
          ELSE \E gd \in Fds, l \in Kinds : ctx[gd][l] = w /\ l \in interest[gd]
      BY DEF NoLostWaiter
    <2>1. CASE w \in W
      <3>1. w \notin woken \cup dropped
        BY <1>5, <2>1
      <3> HIDE DEF W
      <3> QED BY <1>6, <1>7, <2>1, <3>1
    <2>2. CASE w \in woken \cup dropped /\ w \notin W
      <3>1. \A gd \in Fds, l \in Kinds : ctx'[gd][l] # w
        <4>1. w # None
          BY BoundAssumption DEF TypeOK
        <4> QED BY <1>2, <2>0, <2>2, <4>1
      <3> QED BY <2>0, <2>2, <3>1
    <2>3. CASE w \notin woken \cup dropped /\ w \notin W
      <3>1. PICK gd \in Fds, l \in Kinds : ctx[gd][l] = w /\ l \in interest[gd]
        BY <2>0, <2>3
      <3>2. ~(gd = fd /\ l \in R)
        BY <2>3, <3>1
      <3>3. ctx'[gd][l] = w
        BY <1>2, <3>1, <3>2
      <3>4. l \in interest'[gd]
        BY <3>1, <3>2 DEF TakenOff, Frame, ContextShape, FdShape
      <3> QED BY <1>7, <2>3, <3>3, <3>4
    <2> QED BY <2>1, <2>2, <2>3
  <1> QED BY <1>8, <1>9

(* cancelAll on a descriptor that it does not tear. *)
LEMMA CancelAllWaiters ==
    ASSUME TypeOK, ContextShape, WaiterShape, NoLostWaiter, torn = {}, torn' = {},
           NEW fd \in Fds, CancelAllEffect(fd), reg' = reg, dropped' = dropped
    PROVE  WaiterShape' /\ NoLostWaiter'
  <1> DEFINE k == CancelledByAll(fd)
  <1>1. CASE UNCHANGED <<watched, interest, events, ctx, woken, torn>>
    BY <1>1 DEF WaiterShape, NoLostWaiter
  <1>2. CASE /\ Frame(fd) /\ watched[fd] /\ ~watched'[fd] /\ interest'[fd] = {}
             /\ k \in events[fd] /\ k \in Kinds /\ events'[fd] = events[fd] \ {k}
             /\ \A l \in Kinds : ctx'[fd][l] = IF l = k THEN None ELSE ctx[fd][l]
             /\ woken' = woken \cup {ctx[fd][k]} /\ pending' = pending - 1
             /\ torn' = IF events[fd] = {k} THEN torn ELSE torn \cup {fd}
    <2> HIDE DEF k
    <2>1. events[fd] = {k} /\ Cardinality({k}) = 1
      BY <1>2, FS_Singleton
    <2>2. watched' \in [Fds -> BOOLEAN] => watched'[fd] = (events[fd] \ {k} # {})
      BY <1>2, <2>1
    <2>3. watched' \in [Fds -> BOOLEAN]
      BY DEF CancelAllEffect, Ctl, TypeOK
    <2>4. TakenOff(fd, {k})
      BY <1>2, <2>1, <2>2, <2>3 DEF TakenOff
    <2>5. {ctx[fd][k]} = {ctx[fd][l] : l \in {k}}
      OBVIOUS
    <2> QED BY <1>2, <2>4, <2>5, TakenOffWaiters
  <1> QED BY <1>1, <1>2, CancelAllFacts

(* Every operation gives each waiter exactly one of its fates. *)
LEMMA WaiterNext ==
    ASSUME TypeOK, ContextShape, WaiterShape, NoLostWaiter, [Next]_vars
    PROVE  WaiterShape' /\ NoLostWaiter'
  <1> USE DEF fdVars
  <1>a. torn \subseteq torn'
    BY DEF Next, FdStep, PollStep, AddEvent, DelEvent, CancelEvent, CancelAll, CancelAllEffect,
           CloseCancels, CloseDeletes, CloseSyscall, Reopen, EpollWait, DispatchSkip, Dispatch, vars
  <1>b. CASE torn' # {}
    BY <1>b DEF WaiterShape, NoLostWaiter
  <1>c. CASE torn' = {}
    <2>0. torn = {}
      BY <1>a, <1>c
    <2>a. CASE UNCHANGED <<interest, ctx, reg, woken, dropped>>
      BY <1>c, <2>0, <2>a DEF WaiterShape, NoLostWaiter
    <2>1. ASSUME NEW fd \in Fds, NEW k \in Kinds, AddEvent(fd, k)
          PROVE  WaiterShape' /\ NoLostWaiter'
      <3>1. UNCHANGED <<woken, dropped>>
        BY <2>1 DEF AddEvent
      <3>2. CASE /\ Frame(fd) /\ k \notin events[fd] /\ reg' = reg + 1 /\ reg + 1 \in Waiters
                 /\ interest'[fd] = events[fd] \cup {k}
                 /\ \A l \in Kinds : ctx'[fd][l] = IF l = k THEN reg + 1 ELSE ctx[fd][l]
        <4>1. ctx[fd][k] = None /\ interest[fd] \subseteq events[fd]
          BY <3>2 DEF ContextShape, FdShape
        <4>2. \A gd \in Fds, l \in Kinds :
                ctx'[gd][l] = IF gd = fd /\ l = k THEN reg + 1 ELSE ctx[gd][l]
          BY <3>2 DEF Frame
        <4>3. /\ woken \cup dropped \subseteq 1..reg /\ reg \in Nat
              /\ \A gd \in Fds, l \in Kinds : ctx[gd][l] # None => ctx[gd][l] \in 1..reg
              /\ \A gd, hd \in Fds, l, m \in Kinds :
                    ctx[gd][l] # None /\ ctx[gd][l] = ctx[hd][m] => gd = hd /\ l = m
          BY <2>0 DEF WaiterShape, TypeOK
        <4>4. reg + 1 # None /\ reg + 1 \notin 1..reg /\ 1..reg \subseteq 1..(reg + 1)
          BY <3>2, <4>3, BoundAssumption DEF Waiters
        <4>5. WaiterShape'
          <5>1. woken' \cup dropped' \subseteq 1..reg'
            BY <3>1, <3>2, <4>3, <4>4
          <5>2. \A gd \in Fds, l \in Kinds : ctx'[gd][l] # None => ctx'[gd][l] \in 1..reg'
            BY <3>2, <4>2, <4>3, <4>4
          <5>3. \A gd, hd \in Fds, l, m \in Kinds :
                  ctx'[gd][l] # None /\ ctx'[gd][l] = ctx'[hd][m] => gd = hd /\ l = m
            BY <4>2, <4>3, <4>4
          <5> QED BY <5>1, <5>2, <5>3 DEF WaiterShape
        <4>6. NoLostWaiter'
          <5> SUFFICES ASSUME NEW w \in 1..(reg + 1)
                       PROVE  IF w \in woken \cup dropped
                              THEN /\ ~(w \in woken /\ w \in dropped)
                                   /\ \A gd \in Fds, l \in Kinds : ctx'[gd][l] # w
                              ELSE \E gd \in Fds, l \in Kinds : ctx'[gd][l] = w /\ l \in interest'[gd]
            BY <3>1, <3>2 DEF NoLostWaiter
          <5>1. CASE w = reg + 1
            <6>1. w \notin woken \cup dropped
              BY <4>3, <4>4, <5>1
            <6>2. ctx'[fd][k] = w /\ k \in interest'[fd]
              BY <3>2, <5>1
            <6> QED BY <6>1, <6>2
          <5>2. CASE w \in 1..reg
            <6>1. IF w \in woken \cup dropped
                  THEN ~(w \in woken /\ w \in dropped) /\ \A gd \in Fds, l \in Kinds : ctx[gd][l] # w
                  ELSE \E gd \in Fds, l \in Kinds : ctx[gd][l] = w /\ l \in interest[gd]
              BY <2>0, <5>2 DEF NoLostWaiter
            <6>2. w # None /\ w # reg + 1
              BY <4>4, <5>2, BoundAssumption DEF TypeOK
            <6>3. CASE w \in woken \cup dropped
              BY <4>2, <6>1, <6>2, <6>3
            <6>4. CASE w \notin woken \cup dropped
              <7>1. PICK gd \in Fds, l \in Kinds : ctx[gd][l] = w /\ l \in interest[gd]
                BY <6>1, <6>4
              <7>2. ctx'[gd][l] = w
                BY <4>1, <4>2, <6>2, <7>1
              <7>3. l \in interest'[gd]
                BY <3>2, <4>1, <7>1 DEF Frame
              <7> QED BY <6>4, <7>2, <7>3
            <6> QED BY <6>3, <6>4
          <5> QED BY <4>3, <5>1, <5>2
        <4> QED BY <4>5, <4>6
      <3> QED BY <2>1, <2>a, <3>1, <3>2, AddFacts
    <2>2. ASSUME NEW fd \in Fds, NEW k \in Kinds, DelEvent(fd, k)
          PROVE  WaiterShape' /\ NoLostWaiter'
      <3>1. {ctx[fd][k]} = {ctx[fd][l] : l \in {k}}
        OBVIOUS
      <3>2. /\ TakenOff(fd, {k}) /\ reg' = reg
            /\ dropped' = dropped \cup {ctx[fd][l] : l \in {k}} /\ woken' = woken
        BY <2>2, <3>1, RemoveFacts DEF DelEvent
      <3> QED BY <1>c, <2>0, <3>2, TakenOffWaiters
    <2>3. ASSUME NEW fd \in Fds, NEW k \in Kinds, CancelEvent(fd, k)
          PROVE  WaiterShape' /\ NoLostWaiter'
      <3>1. {ctx[fd][k]} = {ctx[fd][l] : l \in {k}}
        OBVIOUS
      <3>2. /\ TakenOff(fd, {k}) /\ reg' = reg
            /\ woken' = woken \cup {ctx[fd][l] : l \in {k}} /\ dropped' = dropped
        BY <2>3, <3>1, RemoveFacts DEF CancelEvent
      <3> QED BY <1>c, <2>0, <3>2, TakenOffWaiters
    <2>4. ASSUME NEW fd \in Fds, CancelAll(fd) \/ CloseCancels(fd)
          PROVE  WaiterShape' /\ NoLostWaiter'
      BY <1>c, <2>0, <2>4, CancelAllWaiters DEF CancelAll, CloseCancels
    <2>5. ASSUME NEW fd \in Fds, CloseDeletes(fd)
          PROVE  WaiterShape' /\ NoLostWaiter'
      <3>1. DelAllEffect(fd) /\ life[fd] = "cancelled" /\ UNCHANGED <<reg, woken>>
        BY <2>5 DEF CloseDeletes
      <3>2. UNCHANGED <<interest, ctx, dropped>>
        BY <2>0, <3>1, DelAllFacts
      <3> QED BY <2>a, <3>1, <3>2
    <2>6. ASSUME NEW fd \in Fds, CloseSyscall(fd)
          PROVE  WaiterShape' /\ NoLostWaiter'
      <3>1. interest[fd] = {}
        BY <2>0, <2>6 DEF CloseSyscall, ContextShape, FdShape
      <3>2. interest' = interest
        BY <2>6, <3>1 DEF CloseSyscall, TypeOK
      <3> QED BY <2>6, <2>a, <3>2 DEF CloseSyscall
    <2>7. ASSUME NEW p \in Pollers, Dispatch(p)
          PROVE  WaiterShape' /\ NoLostWaiter'
      <3>1. batch[p].fd \in Fds /\ UNCHANGED <<reg, dropped>>
        BY <2>7, DispatchFacts DEF Dispatch, Batch
      <3>2. CASE /\ TakenOff(batch[p].fd, RealEvent(batch[p]))
                 /\ woken' = woken \cup {ctx[batch[p].fd][k] : k \in RealEvent(batch[p])}
        BY <1>c, <2>0, <3>1, <3>2, TakenOffWaiters
      <3> QED BY <2>7, <2>a, <3>1, <3>2, DispatchFacts
    <2>8. ASSUME NEW fd \in Fds, Reopen(fd) PROVE WaiterShape' /\ NoLostWaiter'
      BY <2>8, <2>a DEF Reopen
    <2>9. ASSUME NEW p \in Pollers, NEW fd \in Fds, NEW ev \in SUBSET Kinds, NEW err \in BOOLEAN,
                 EpollWait(p, fd, ev, err)
          PROVE  WaiterShape' /\ NoLostWaiter'
      BY <2>9, <2>a DEF EpollWait
    <2>10. ASSUME NEW p \in Pollers, DispatchSkip(p) PROVE WaiterShape' /\ NoLostWaiter'
      BY <2>10, <2>a DEF DispatchSkip
    <2>11. CASE UNCHANGED vars
      BY <2>11, <2>a DEF vars
    <2> QED BY <2>1, <2>2, <2>3, <2>4, <2>5, <2>6, <2>7, <2>8, <2>9, <2>10, <2>11
            DEF Next, FdStep, PollStep
  <1> QED BY <1>b, <1>c

-----------------------------------------------------------------------------
(* The theorems *)

Inv == TypeOK /\ ContextShape /\ PendingShape /\ WaiterShape /\ NoLostWaiter

(* An empty table, with nothing registered. *)
LEMMA InvInit == Init => Inv
  <1> SUFFICES ASSUME Init PROVE Inv
    OBVIOUS
  <1>1. size \in Nat /\ size >= InitialSize /\ pending \in Nat /\ reg \in 0..MaxWaiters
    BY SizeAssumption, BoundAssumption DEF Init
  <1>2. /\ events \in [Fds -> SUBSET Kinds] /\ interest \in [Fds -> SUBSET Kinds]
        /\ watched \in [Fds -> BOOLEAN]
        /\ ctx \in [Fds -> [Kinds -> Waiters \cup {None}]]
    BY DEF Init
  <1>3. /\ batch \in [Pollers -> Batch \cup {None}]
        /\ life \in [Fds -> {"open", "cancelled", "deleted", "closed"}]
        /\ woken \subseteq Waiters /\ dropped \subseteq Waiters /\ torn \subseteq Fds
    BY DEF Init
  <1>4. TypeOK
    BY <1>1, <1>2, <1>3 DEF TypeOK
  <1>5. ContextShape
    BY DEF Init, ContextShape, FdShape
  <1>6. PendingShape
    <2>1. Regs(watched, events) = {}
      BY DEF Init, Regs
    <2>2. Cardinality(Regs(watched, events)) = 0
      BY <2>1, FS_EmptySet
    <2> QED BY <2>2 DEF Init, PendingShape
  <1>7. WaiterShape /\ NoLostWaiter
    BY DEF Init, WaiterShape, NoLostWaiter
  <1> QED BY <1>4, <1>5, <1>6, <1>7 DEF Inv

(* Every operation of the table and of its pollers keeps all of it. *)
LEMMA InvNext == Inv /\ [Next]_vars => Inv'
  BY ContextNext, PendingNext, TypeNext, WaiterNext DEF Inv

(* For any descriptors and pollers, the fields keep their types;           *)
(* m_pending_event_count is unsigned and does not wrap below zero, also    *)
(* with torn descriptors.                                                  *)
THEOREM TypeCorrect == Spec => []TypeOK
  <1>1. Inv => TypeOK
    BY DEF Inv
  <1> QED BY <1>1, InvInit, InvNext, PTL DEF Spec

(* FdContext::events, the contexts and the kernel's interest list agree on *)
(* every descriptor that was not torn, whatever a poller still has in hand *)
(* from before the registration changed.                                   *)
THEOREM RegistrationsAgree == Spec => []RegistrationExact
  <1>1. Inv => RegistrationExact
    <2> SUFFICES ASSUME Inv, NEW fd \in Fds \ torn
                 PROVE  /\ \A k \in Kinds : k \in events[fd] <=> ctx[fd][k] # None
                        /\ interest[fd] = events[fd]
                        /\ watched[fd] <=> events[fd] # {}
      BY DEF RegistrationExact
    <2>1. FdShape(fd)
      BY DEF Inv, ContextShape
    <2> QED BY <2>1 DEF FdShape
  <1> QED BY <1>1, InvInit, InvNext, PTL DEF Spec

(* m_pending_event_count is the number of registered events until some     *)
(* descriptor is torn.                                                     *)
THEOREM PendingCountsEvents == Spec => []PendingExact
  <1>1. Inv => PendingExact
    <2> SUFFICES ASSUME Inv, torn = {}
                 PROVE  pending = Cardinality({r \in Fds \X Kinds : r[2] \in events[r[1]]})
      BY DEF PendingExact
    <2>1. \A fd \in Fds : events[fd] # {} => watched[fd]
      BY DEF Inv, ContextShape, FdShape
    <2>2. Regs(watched, events) = {r \in Fds \X Kinds : r[2] \in events[r[1]]}
      BY <2>1 DEF Regs
    <2> QED BY <2>2 DEF Inv, PendingShape
  <1> QED BY <1>1, InvInit, InvNext, PTL DEF Spec

(* Until some descriptor is torn, every waiter is submitted once, removed  *)
(* once on request, or still watched for: an event dispatched late, after  *)
(* a cancel or a close, neither loses a waiter nor wakes it twice.         *)
THEOREM WaitersAccounted == Spec => []NoLostWaiter
  <1>1. Inv => NoLostWaiter
    BY DEF Inv
  <1> QED BY <1>1, InvInit, InvNext, PTL DEF Spec

(* A closed descriptor that was not torn has no event left for the next    *)
(* socket with its number.                                                 *)
THEOREM CloseCleans == Spec => []CloseCleansUnlessTorn
  <1>1. Inv => CloseCleansUnlessTorn
    BY DEF Inv, ContextShape, FdShape, CloseCleansUnlessTorn
  <1> QED BY <1>1, InvInit, InvNext, PTL DEF Spec

=============================================================================
