--------------------------- MODULE TcpServerProofs ---------------------------
(* Machine-checked proofs about TcpServer. *)
EXTENDS TcpServer, TLAPS

(* An accept fiber is a pair of its socket and the start() that made it. *)
LEMMA AcceptorParts ==
    ASSUME NEW a \in Acceptors
    PROVE  /\ SockOf(a) \in Socks /\ a[1] \in Socks /\ a[2] \in 1..MaxStarts
           /\ a[1] = SockOf(a) /\ a = <<a[1], a[2]>>
  BY DEF Acceptors, SockOf

(* Every step of bind, start, stop, the closing task, the accept fibers,   *)
(* the peers and the handlers keeps the types.                             *)
LEMMA TypeNext == TypeOK /\ [Next]_vars => TypeOK'
  <1> SUFFICES ASSUME TypeOK, [Next]_vars PROVE TypeOK'
    OBVIOUS
  <1> USE TcpAssumption DEF TypeOK, vars, srvVars, accVars, clsVars, conVars, hisVars
  <1>0. CASE UNCHANGED vars
    BY <1>0
  <1>1. ASSUME NEW S \in SUBSET Socks, NEW F \in SUBSET S, Bind(S, F) PROVE TypeOK'
    BY <1>1 DEF Bind, ResetBacklog
  <1>2. ASSUME Start PROVE TypeOK'
    <2>1. early' \in BOOLEAN
      BY <1>2 DEF Start
    <2>2. starts' = starts + 1 /\ starts < MaxStarts /\ late' = {} /\ stopped' = FALSE
      BY <1>2 DEF Start
    <2>5. starts' \in 0..MaxStarts
      BY <2>2
    <2>3. acc' \in [Acceptors -> {"none", "test", "call", "add", "held", "accepted", "ended"}]
      BY <1>2 DEF Start
    <2>4. UNCHANGED <<lsocks, fd, stops, client, event, closers, todo, at, conn, target,
                      aborted, torn, dropped>>
      BY <1>2 DEF Start
    <2> QED BY <2>1, <2>2, <2>3, <2>4, <2>5
  <1>3. ASSUME Stop PROVE TypeOK'
    BY <1>3 DEF Stop
  <1>4. ASSUME Destroy PROVE TypeOK'
    BY <1>4 DEF Destroy, ResetBacklog
  <1>5. ASSUME CloseTask PROVE TypeOK'
    BY <1>5 DEF CloseTask
  <1>6. ASSUME NEW s \in Socks, CancelAll(s) PROVE TypeOK'
    BY <1>6 DEF CancelAll, Woken
  <1>7. ASSUME NEW s \in Socks, CloseCancels(s) PROVE TypeOK'
    BY <1>7 DEF CloseCancels, Woken
  <1>8. ASSUME NEW s \in Socks, CloseFd(s) PROVE TypeOK'
    BY <1>8 DEF CloseFd, ResetBacklog
  <1>9. ASSUME NEW a \in Acceptors, Leave(a) PROVE TypeOK'
    BY <1>9 DEF Leave, ResetBacklog
  <1>10. ASSUME NEW a \in Acceptors, Loop(a) PROVE TypeOK'
    BY <1>10 DEF Loop
  <1>11. ASSUME NEW a \in Acceptors, NEW c \in Clients, AcceptOk(a, c) PROVE TypeOK'
    BY <1>11 DEF AcceptOk
  <1>12. ASSUME NEW a \in Acceptors, AcceptFails(a) PROVE TypeOK'
    BY <1>12 DEF AcceptFails
  <1>13. ASSUME NEW a \in Acceptors, AcceptWaits(a) PROVE TypeOK'
    BY <1>13 DEF AcceptWaits
  <1>14. ASSUME NEW a \in Acceptors, AddEvent(a) PROVE TypeOK'
    BY <1>14, AcceptorParts DEF AddEvent
  <1>15. ASSUME NEW a \in Acceptors, HandOver(a) PROVE TypeOK'
    BY <1>15 DEF HandOver
  <1>16. ASSUME NEW s \in Socks, Dispatch(s) PROVE TypeOK'
    BY <1>16 DEF Dispatch, Woken
  <1>17. ASSUME NEW c \in Clients, NEW s \in Socks, Connect(c, s) PROVE TypeOK'
    BY <1>17 DEF Connect
  <1>18. ASSUME NEW c \in Clients, HandleClient(c) PROVE TypeOK'
    BY <1>18 DEF HandleClient
  <1>19. ASSUME NEW a \in Acceptors, AcceptErrs(a) PROVE TypeOK'
    BY <1>19, AcceptorParts DEF AcceptErrs, Backlog
  <1> QED BY <1>0, <1>1, <1>2, <1>3, <1>4, <1>5, <1>6, <1>7, <1>8, <1>9,
             <1>10, <1>11, <1>12, <1>13, <1>14, <1>15, <1>16, <1>17, <1>18, <1>19
          DEF Next, CloserStep, AcceptStep

(* The server is constructed stopped, without sockets. *)
LEMMA TypeInit == Init => TypeOK
  <1> SUFFICES ASSUME Init PROVE TypeOK
    OBVIOUS
  <1>0. stopped \in BOOLEAN /\ aborted \in BOOLEAN /\ early \in BOOLEAN
    BY DEF Init
  <1>1. /\ starts \in 0..MaxStarts /\ stops \in 0..MaxStops /\ closers \in 0..stops
    BY TcpAssumption DEF Init
  <1>2. /\ lsocks \subseteq Socks /\ event \subseteq Socks /\ todo \subseteq Socks
        /\ torn \subseteq Acceptors /\ late \subseteq Socks /\ dropped \subseteq Socks
        /\ at \in {None} \cup (Socks \X {"cancelled", "close"})
    BY DEF Init
  <1>3. /\ fd \in [Socks -> {"new", "open", "closed"}]
        /\ acc \in [Acceptors -> {"none", "test", "call", "add", "held", "accepted", "ended"}]
        /\ client \in [Acceptors -> Clients \cup {None}]
    BY DEF Init
  <1>4. /\ conn \in [Clients -> {"new", "backlog", "accepted", "queued", "closed"}]
        /\ target \in [Clients -> Socks \cup {None}]
    BY DEF Init
  <1> QED BY <1>0, <1>1, <1>2, <1>3, <1>4 DEF TypeOK

(* Every step keeps the client of a fiber with its position and the target *)
(* of a peer with its connection.                                          *)
LEMMA AcceptShapeNext ==
    ASSUME TypeOK, AcceptShape, NoFdLeak, [Next]_vars
    PROVE  AcceptShape'
  <1> USE TcpAssumption DEF TypeOK, vars, srvVars, accVars, clsVars, conVars, hisVars
  <1>0. CASE UNCHANGED vars
    BY <1>0 DEF AcceptShape
  <1>1. ASSUME NEW S \in SUBSET Socks, NEW F \in SUBSET S, Bind(S, F) PROVE AcceptShape'
    BY <1>1 DEF Bind, ResetBacklog, AcceptShape
  <1>2. ASSUME Start PROVE AcceptShape'
    BY <1>2, AcceptorParts DEF Start, AcceptShape
  <1>3. ASSUME Stop PROVE AcceptShape'
    BY <1>3 DEF Stop, AcceptShape
  <1>4. ASSUME Destroy PROVE AcceptShape'
    BY <1>4 DEF Destroy, ResetBacklog, AcceptShape
  <1>5. ASSUME CloseTask PROVE AcceptShape'
    BY <1>5 DEF CloseTask, AcceptShape
  <1>6. ASSUME NEW s \in Socks, CancelAll(s) PROVE AcceptShape'
    BY <1>6 DEF CancelAll, Woken, AcceptShape
  <1>7. ASSUME NEW s \in Socks, CloseCancels(s) PROVE AcceptShape'
    BY <1>7 DEF CloseCancels, Woken, AcceptShape
  <1>8. ASSUME NEW s \in Socks, CloseFd(s) PROVE AcceptShape'
    BY <1>8 DEF CloseFd, ResetBacklog, AcceptShape
  <1>9. ASSUME NEW a \in Acceptors, Leave(a) PROVE AcceptShape'
    BY <1>9 DEF Leave, ResetBacklog, AcceptShape
  <1>10. ASSUME NEW a \in Acceptors, Loop(a) PROVE AcceptShape'
    BY <1>10 DEF Loop, AcceptShape
  <1>11. ASSUME NEW a \in Acceptors, NEW c \in Clients, AcceptOk(a, c) PROVE AcceptShape'
    BY <1>11 DEF AcceptOk, AcceptShape
  <1>12. ASSUME NEW a \in Acceptors, AcceptFails(a) PROVE AcceptShape'
    BY <1>12, AcceptorParts DEF AcceptFails, AcceptShape, Backlog
  <1>13. ASSUME NEW a \in Acceptors, AcceptWaits(a) PROVE AcceptShape'
    BY <1>13 DEF AcceptWaits, AcceptShape
  <1>14. ASSUME NEW a \in Acceptors, AddEvent(a) PROVE AcceptShape'
    BY <1>14 DEF AddEvent, AcceptShape
  <1>15. ASSUME NEW a \in Acceptors, HandOver(a) PROVE AcceptShape'
    <2>1. client[a] \in Clients /\ conn[client[a]] = "accepted"
      BY <1>15 DEF HandOver, AcceptShape, NoFdLeak
    <2> QED BY <1>15, <2>1 DEF HandOver, AcceptShape
  <1>16. ASSUME NEW s \in Socks, Dispatch(s) PROVE AcceptShape'
    BY <1>16 DEF Dispatch, Woken, AcceptShape
  <1>17. ASSUME NEW c \in Clients, NEW s \in Socks, Connect(c, s) PROVE AcceptShape'
    BY <1>17 DEF Connect, AcceptShape
  <1>18. ASSUME NEW c \in Clients, HandleClient(c) PROVE AcceptShape'
    BY <1>18 DEF HandleClient, AcceptShape
  <1>19. ASSUME NEW a \in Acceptors, AcceptErrs(a) PROVE AcceptShape'
    BY <1>19, AcceptorParts DEF AcceptErrs, Backlog, AcceptShape
  <1> QED BY <1>0, <1>1, <1>2, <1>3, <1>4, <1>5, <1>6, <1>7, <1>8, <1>9,
             <1>10, <1>11, <1>12, <1>13, <1>14, <1>15, <1>16, <1>17, <1>18, <1>19
          DEF Next, CloserStep, AcceptStep

(* Every step keeps what a running closing task has before it: sockets are *)
(* closed one by one, and none is added to the vector meanwhile.           *)
LEMMA CloserShapeNext ==
    ASSUME TypeOK, CloserShape, [Next]_vars
    PROVE  CloserShape'
  <1> USE TcpAssumption DEF TypeOK, vars, srvVars, accVars, clsVars, conVars, hisVars
  <1>0. CASE UNCHANGED vars
    BY <1>0 DEF CloserShape
  <1>1. ASSUME NEW S \in SUBSET Socks, NEW F \in SUBSET S, Bind(S, F) PROVE CloserShape'
    BY <1>1 DEF Bind, ResetBacklog, CloserShape, Outstanding
  <1>2. ASSUME Start PROVE CloserShape'
    BY <1>2 DEF Start, CloserShape
  <1>3. ASSUME Stop PROVE CloserShape'
    BY <1>3 DEF Stop, CloserShape
  <1>4. ASSUME Destroy PROVE CloserShape'
    BY <1>4 DEF Destroy, ResetBacklog, CloserShape
  <1>5. ASSUME CloseTask PROVE CloserShape'
    BY <1>5 DEF CloseTask, CloserShape
  <1>6. ASSUME NEW s \in Socks, CancelAll(s) PROVE CloserShape'
    BY <1>6 DEF CancelAll, Woken, CloserShape
  <1>7. ASSUME NEW s \in Socks, CloseCancels(s) PROVE CloserShape'
    BY <1>7 DEF CloseCancels, Woken, CloserShape
  <1>8. ASSUME NEW s \in Socks, CloseFd(s) PROVE CloserShape'
    BY <1>8 DEF CloseFd, ResetBacklog, CloserShape
  <1>9. ASSUME NEW a \in Acceptors, Leave(a) PROVE CloserShape'
    BY <1>9 DEF Leave, ResetBacklog, CloserShape
  <1>10. ASSUME NEW a \in Acceptors, Loop(a) PROVE CloserShape'
    BY <1>10 DEF Loop, CloserShape
  <1>11. ASSUME NEW a \in Acceptors, NEW c \in Clients, AcceptOk(a, c) PROVE CloserShape'
    BY <1>11 DEF AcceptOk, CloserShape
  <1>12. ASSUME NEW a \in Acceptors, AcceptFails(a) PROVE CloserShape'
    BY <1>12 DEF AcceptFails, CloserShape
  <1>13. ASSUME NEW a \in Acceptors, AcceptWaits(a) PROVE CloserShape'
    BY <1>13 DEF AcceptWaits, CloserShape
  <1>14. ASSUME NEW a \in Acceptors, AddEvent(a) PROVE CloserShape'
    BY <1>14 DEF AddEvent, CloserShape
  <1>15. ASSUME NEW a \in Acceptors, HandOver(a) PROVE CloserShape'
    BY <1>15 DEF HandOver, CloserShape
  <1>16. ASSUME NEW s \in Socks, Dispatch(s) PROVE CloserShape'
    BY <1>16 DEF Dispatch, Woken, CloserShape
  <1>17. ASSUME NEW c \in Clients, NEW s \in Socks, Connect(c, s) PROVE CloserShape'
    BY <1>17 DEF Connect, CloserShape
  <1>18. ASSUME NEW c \in Clients, HandleClient(c) PROVE CloserShape'
    BY <1>18 DEF HandleClient, CloserShape
  <1>19. ASSUME NEW a \in Acceptors, AcceptErrs(a) PROVE CloserShape'
    BY <1>19, AcceptorParts DEF AcceptErrs, Backlog, CloserShape
  <1> QED BY <1>0, <1>1, <1>2, <1>3, <1>4, <1>5, <1>6, <1>7, <1>8, <1>9,
             <1>10, <1>11, <1>12, <1>13, <1>14, <1>15, <1>16, <1>17, <1>18, <1>19
          DEF Next, CloserStep, AcceptStep

(* Every step keeps an owner for every open listening descriptor and for   *)
(* every accepted one.                                                     *)
LEMMA NoFdLeakNext ==
    ASSUME TypeOK, AcceptShape, CloserShape, NoFdLeak, [Next]_vars
    PROVE  NoFdLeak'
  <1> USE TcpAssumption DEF TypeOK, vars, srvVars, accVars, clsVars, conVars, hisVars
  <1>0. CASE UNCHANGED vars
    BY <1>0 DEF NoFdLeak, HeldBy, Live
  <1>1. ASSUME NEW S \in SUBSET Socks, NEW F \in SUBSET S, Bind(S, F) PROVE NoFdLeak'
    BY <1>1 DEF Bind, Destroyed, ResetBacklog, AcceptShape, NoFdLeak, HeldBy, Live, Destroyed
  <1>2. ASSUME Start PROVE NoFdLeak'
    BY <1>2 DEF Start, NoFdLeak, HeldBy, Live
  <1>3. ASSUME Stop PROVE NoFdLeak'
    BY <1>3 DEF Stop, NoFdLeak, HeldBy, Live
  <1>4. ASSUME Destroy PROVE NoFdLeak'
    BY <1>4 DEF Destroy, ResetBacklog, NoFdLeak, HeldBy
  <1>5. ASSUME CloseTask PROVE NoFdLeak'
    BY <1>5 DEF CloseTask, NoFdLeak, HeldBy, Live
  <1>6. ASSUME NEW s \in Socks, CancelAll(s) PROVE NoFdLeak'
    BY <1>6 DEF CancelAll, Woken, NoFdLeak, HeldBy, Live
  <1>7. ASSUME NEW s \in Socks, CloseCancels(s) PROVE NoFdLeak'
    BY <1>7 DEF CloseCancels, Woken, NoFdLeak, HeldBy, Live
  <1>8. ASSUME NEW s \in Socks, CloseFd(s) PROVE NoFdLeak'
    BY <1>8 DEF CloseFd, ResetBacklog, AcceptShape, CloserShape, NoFdLeak, HeldBy, Live
  <1>9. ASSUME NEW a \in Acceptors, Leave(a) PROVE NoFdLeak'
    BY <1>9, AcceptorParts DEF Leave, ResetBacklog, AcceptShape, NoFdLeak, HeldBy, Live
  <1>10. ASSUME NEW a \in Acceptors, Loop(a) PROVE NoFdLeak'
    BY <1>10 DEF Loop, NoFdLeak, HeldBy, Live
  <1>11. ASSUME NEW a \in Acceptors, NEW c \in Clients, AcceptOk(a, c) PROVE NoFdLeak'
    BY <1>11, AcceptorParts DEF AcceptOk, AcceptShape, NoFdLeak, Backlog, HeldBy, Live
  <1>12. ASSUME NEW a \in Acceptors, AcceptFails(a) PROVE NoFdLeak'
    BY <1>12 DEF AcceptFails, NoFdLeak, HeldBy, Live
  <1>13. ASSUME NEW a \in Acceptors, AcceptWaits(a) PROVE NoFdLeak'
    BY <1>13 DEF AcceptWaits, NoFdLeak, HeldBy, Live
  <1>14. ASSUME NEW a \in Acceptors, AddEvent(a) PROVE NoFdLeak'
    BY <1>14 DEF AddEvent, NoFdLeak, HeldBy, Live
  <1>15. ASSUME NEW a \in Acceptors, HandOver(a) PROVE NoFdLeak'
    BY <1>15 DEF HandOver, NoFdLeak, HeldBy, Live
  <1>16. ASSUME NEW s \in Socks, Dispatch(s) PROVE NoFdLeak'
    BY <1>16 DEF Dispatch, Woken, NoFdLeak, HeldBy, Live
  <1>17. ASSUME NEW c \in Clients, NEW s \in Socks, Connect(c, s) PROVE NoFdLeak'
    BY <1>17 DEF Connect, NoFdLeak, HeldBy, Live
  <1>18. ASSUME NEW c \in Clients, HandleClient(c) PROVE NoFdLeak'
    BY <1>18 DEF HandleClient, NoFdLeak, HeldBy, Live
  <1>19. ASSUME NEW a \in Acceptors, AcceptErrs(a) PROVE NoFdLeak'
    <2>1. /\ UNCHANGED <<srvVars, client>> /\ acc[a] = "call"
          /\ acc' = [acc EXCEPT ![a] = "test"]
          /\ \A b \in Acceptors : Live(b)' = Live(b)
      BY <1>19 DEF AcceptErrs, Live
    <2>2. \A c \in Clients : conn'[c] # conn[c] => conn'[c] = "closed" /\ conn[c] = "backlog"
      <3>1. CASE UNCHANGED conVars
        BY <3>1
      <3>2. ASSUME NEW c \in Backlog(SockOf(a)), conn' = [conn EXCEPT ![c] = "closed"]
            PROVE  \A d \in Clients : conn'[d] # conn[d] => conn'[d] = "closed" /\ conn[d] = "backlog"
        <4>1. c \in Clients /\ conn[c] = "backlog"
          BY AcceptorParts DEF Backlog, AcceptShape
        <4> QED BY <3>2, <4>1
      <3> QED BY <1>19, <3>1, <3>2 DEF AcceptErrs
    <2>3. \A s \in Socks : fd[s] = "open" => s \in lsocks \/ HeldBy(s)' # {}
      BY <2>1 DEF NoFdLeak, HeldBy
    <2>4. \A c \in Clients : (conn'[c] = "accepted") <=> (conn[c] = "accepted")
      BY <2>2
    <2> QED BY <2>1, <2>3, <2>4 DEF NoFdLeak
  <1> QED BY <1>0, <1>1, <1>2, <1>3, <1>4, <1>5, <1>6, <1>7, <1>8, <1>9,
             <1>10, <1>11, <1>12, <1>13, <1>14, <1>15, <1>16, <1>17, <1>18, <1>19
          DEF Next, CloserStep, AcceptStep

(* Every step keeps one accept fiber per socket while no start() overtakes *)
(* a closing task, so addEvent finds its event free.                       *)
LEMMA WaiterNext ==
    ASSUME TypeOK, AcceptShape, WaiterShape, AbortNeedsEarlyStart, [Next]_vars
    PROVE  WaiterShape' /\ AbortNeedsEarlyStart'
  <1> USE TcpAssumption DEF TypeOK, vars, srvVars, accVars, clsVars, conVars, hisVars
  <1>0. CASE UNCHANGED vars
    BY <1>0 DEF WaiterShape, AbortNeedsEarlyStart, Outstanding, Live
  <1>1. ASSUME NEW S \in SUBSET Socks, NEW F \in SUBSET S, Bind(S, F)
        PROVE WaiterShape' /\ AbortNeedsEarlyStart'
    BY <1>1, AcceptorParts DEF Bind, ResetBacklog, WaiterShape, AbortNeedsEarlyStart, Live
  <1>2. ASSUME Start PROVE WaiterShape' /\ AbortNeedsEarlyStart'
    <2>1. /\ stopped /\ ~stopped' /\ starts < MaxStarts /\ aborted' = aborted
          /\ lsocks' = lsocks /\ fd' = fd /\ event' = event
          /\ early' = (early \/ Outstanding)
      BY <1>2 DEF Start
    <2>2. \A a \in Acceptors :
            acc'[a] = IF a[1] \in lsocks /\ a[2] = starts + 1 THEN "test" ELSE acc[a]
      BY <1>2 DEF Start
    <2>3. \A s \in event' : \E a \in Acceptors : SockOf(a) = s /\ acc'[a] = "held"
      <3> TAKE s \in event'
      <3>1. PICK a \in Acceptors : SockOf(a) = s /\ acc[a] = "held"
        BY <2>1 DEF WaiterShape
      <3>2. a[2] # starts + 1
        BY <3>1 DEF AcceptShape
      <3> QED BY <3>1, <3>2, <2>2
    <2>4. \A a \in Acceptors : acc'[a] # "none" => fd'[SockOf(a)] # "new"
      BY <2>1, <2>2, AcceptorParts DEF WaiterShape
    <2>5. ~early' => \A a, b \in Acceptors :
                        Live(a)' /\ Live(b)' /\ SockOf(a) = SockOf(b) => a = b
      <3> SUFFICES ASSUME ~early', NEW a \in Acceptors, NEW b \in Acceptors,
                          Live(a)', Live(b)', SockOf(a) = SockOf(b)
                   PROVE  a = b
        OBVIOUS
      <3>1. ~early /\ ~Outstanding
        BY <2>1
      <3>2. \A e \in Acceptors : Live(e) => SockOf(e) \notin lsocks
        BY <3>1, <2>1 DEF WaiterShape
      <3>3. \A e \in Acceptors : Live(e)' =>
               \/ Live(e) /\ SockOf(e) \notin lsocks
               \/ SockOf(e) \in lsocks /\ e[2] = starts + 1
        <4> TAKE e \in Acceptors
        <4>1. e[1] = SockOf(e)
          BY AcceptorParts
        <4>2. acc'[e] = IF SockOf(e) \in lsocks /\ e[2] = starts + 1 THEN "test" ELSE acc[e]
          BY <2>2, <4>1
        <4>3. CASE SockOf(e) \in lsocks /\ e[2] = starts + 1
          BY <4>3
        <4>4. CASE ~(SockOf(e) \in lsocks /\ e[2] = starts + 1)
          <5>1. acc'[e] = acc[e]
            BY <4>2, <4>4
          <5>2. Live(e)' => Live(e)
            BY <5>1 DEF Live
          <5> QED BY <5>2, <3>2
        <4> QED BY <4>3, <4>4
      <3>4. CASE SockOf(a) \in lsocks
        <4>1. a[2] = b[2] /\ a[1] = b[1]
          BY <3>3, <3>4, AcceptorParts
        <4> QED BY <4>1, AcceptorParts
      <3>5. CASE SockOf(a) \notin lsocks
        BY <3>1, <3>3, <3>5 DEF WaiterShape
      <3> QED BY <3>4, <3>5
    <2>6. AbortNeedsEarlyStart'
      BY <2>1 DEF AbortNeedsEarlyStart
    <2>7. \A s \in lsocks' : fd'[s] # "new"
      BY <2>1 DEF WaiterShape
    <2> QED BY <2>1, <2>3, <2>4, <2>5, <2>6, <2>7 DEF WaiterShape
  <1>3. ASSUME Stop PROVE WaiterShape' /\ AbortNeedsEarlyStart'
    BY <1>3 DEF Stop, WaiterShape, AbortNeedsEarlyStart, Outstanding, Live
  <1>4. ASSUME Destroy PROVE WaiterShape' /\ AbortNeedsEarlyStart'
    BY <1>4, AcceptorParts DEF Destroy, ResetBacklog, WaiterShape, AbortNeedsEarlyStart, Live
  <1>5. ASSUME CloseTask PROVE WaiterShape' /\ AbortNeedsEarlyStart'
    BY <1>5 DEF CloseTask, Outstanding, WaiterShape, AbortNeedsEarlyStart, Outstanding, Live
  <1>6. ASSUME NEW s \in Socks, CancelAll(s) PROVE WaiterShape' /\ AbortNeedsEarlyStart'
    BY <1>6 DEF CancelAll, Woken, WaiterShape, AbortNeedsEarlyStart, Outstanding, Live
  <1>7. ASSUME NEW s \in Socks, CloseCancels(s) PROVE WaiterShape' /\ AbortNeedsEarlyStart'
    BY <1>7 DEF CloseCancels, Woken, WaiterShape, AbortNeedsEarlyStart, Outstanding, Live
  <1>8. ASSUME NEW s \in Socks, CloseFd(s) PROVE WaiterShape' /\ AbortNeedsEarlyStart'
    BY <1>8 DEF CloseFd, ResetBacklog, WaiterShape, AbortNeedsEarlyStart, Outstanding, Live
  <1>9. ASSUME NEW a \in Acceptors, Leave(a) PROVE WaiterShape' /\ AbortNeedsEarlyStart'
    BY <1>9, AcceptorParts DEF Leave, ResetBacklog, WaiterShape, AbortNeedsEarlyStart, Outstanding, Live
  <1>10. ASSUME NEW a \in Acceptors, Loop(a) PROVE WaiterShape' /\ AbortNeedsEarlyStart'
    BY <1>10 DEF Loop, WaiterShape, AbortNeedsEarlyStart, Live
  <1>11. ASSUME NEW a \in Acceptors, NEW c \in Clients, AcceptOk(a, c)
        PROVE WaiterShape' /\ AbortNeedsEarlyStart'
    BY <1>11 DEF AcceptOk, WaiterShape, AbortNeedsEarlyStart, Outstanding, Live
  <1>12. ASSUME NEW a \in Acceptors, AcceptFails(a) PROVE WaiterShape' /\ AbortNeedsEarlyStart'
    BY <1>12 DEF AcceptFails, WaiterShape, AbortNeedsEarlyStart, Outstanding, Live
  <1>13. ASSUME NEW a \in Acceptors, AcceptWaits(a) PROVE WaiterShape' /\ AbortNeedsEarlyStart'
    BY <1>13 DEF AcceptWaits, WaiterShape, AbortNeedsEarlyStart, Outstanding, Live
  <1>14. ASSUME NEW a \in Acceptors, AddEvent(a) PROVE WaiterShape' /\ AbortNeedsEarlyStart'
    <2>1. /\ acc[a] = "add" /\ fd[SockOf(a)] = "open" /\ SockOf(a) \in Socks
          /\ aborted' = (aborted \/ SockOf(a) \in event)
          /\ event' = event \cup {SockOf(a)} /\ acc' = [acc EXCEPT ![a] = "held"]
          /\ UNCHANGED <<stopped, lsocks, fd, starts, closers, todo, at, early>>
      BY <1>14, AcceptorParts DEF AddEvent
    <2>2. \A e \in Acceptors : Live(e)' <=> Live(e)
      BY <2>1 DEF Live
    <2>3. \A s \in event' : \E e \in Acceptors : SockOf(e) = s /\ acc'[e] = "held"
      BY <2>1 DEF WaiterShape
    <2>4. aborted' => early'
      <3>1. SUFFICES ASSUME SockOf(a) \in event, ~early PROVE FALSE
        BY <2>1 DEF AbortNeedsEarlyStart
      <3>2. PICK b \in Acceptors : SockOf(b) = SockOf(a) /\ acc[b] = "held"
        BY <3>1 DEF WaiterShape
      <3>3. Live(a) /\ Live(b) /\ a # b
        BY <2>1, <3>2 DEF Live
      <3> QED BY <3>1, <3>2, <3>3 DEF WaiterShape
    <2>5. \A e \in Acceptors : acc'[e] # "none" => fd'[SockOf(e)] # "new"
      BY <2>1 DEF WaiterShape
    <2>6. Outstanding' = Outstanding
      BY <2>1 DEF Outstanding
    <2> QED BY <2>1, <2>2, <2>3, <2>4, <2>5, <2>6 DEF WaiterShape, AbortNeedsEarlyStart
  <1>15. ASSUME NEW a \in Acceptors, HandOver(a) PROVE WaiterShape' /\ AbortNeedsEarlyStart'
    BY <1>15 DEF HandOver, WaiterShape, AbortNeedsEarlyStart, Outstanding, Live
  <1>16. ASSUME NEW s \in Socks, Dispatch(s) PROVE WaiterShape' /\ AbortNeedsEarlyStart'
    BY <1>16 DEF Dispatch, Woken, WaiterShape, AbortNeedsEarlyStart, Outstanding, Live
  <1>17. ASSUME NEW c \in Clients, NEW s \in Socks, Connect(c, s) PROVE WaiterShape' /\ AbortNeedsEarlyStart'
    BY <1>17 DEF Connect, WaiterShape, AbortNeedsEarlyStart, Outstanding, Live
  <1>18. ASSUME NEW c \in Clients, HandleClient(c) PROVE WaiterShape' /\ AbortNeedsEarlyStart'
    BY <1>18, AcceptorParts DEF HandleClient, WaiterShape, AbortNeedsEarlyStart, Outstanding, Live, Destroyed
  <1>19. ASSUME NEW a \in Acceptors, AcceptErrs(a) PROVE WaiterShape' /\ AbortNeedsEarlyStart'
    BY <1>19 DEF AcceptErrs, WaiterShape, AbortNeedsEarlyStart, Outstanding, Live
  <1> QED BY <1>0, <1>1, <1>2, <1>3, <1>4, <1>5, <1>6, <1>7, <1>8, <1>9,
             <1>10, <1>11, <1>12, <1>13, <1>14, <1>15, <1>16, <1>17, <1>18, <1>19
          DEF Next, CloserStep, AcceptStep

-----------------------------------------------------------------------------
(* A server without sockets, fibers and peers satisfies all of it. *)
LEMMA ServerInit ==
    Init => AcceptShape /\ CloserShape /\ WaiterShape /\ NoFdLeak /\ AbortNeedsEarlyStart
  <1> SUFFICES ASSUME Init
               PROVE  AcceptShape /\ CloserShape /\ WaiterShape /\ NoFdLeak /\ AbortNeedsEarlyStart
    OBVIOUS
  <1>1. AcceptShape /\ CloserShape
    BY TcpAssumption DEF Init, AcceptShape, CloserShape
  <1>2. WaiterShape /\ AbortNeedsEarlyStart
    BY DEF Init, WaiterShape, AbortNeedsEarlyStart, Live
  <1>3. NoFdLeak
    BY TcpAssumption DEF Init, NoFdLeak
  <1> QED BY <1>1, <1>2, <1>3

(* The fields of the server, its sockets and its fibers keep their types   *)
(* for any number of sockets, peers, starts and stops.                     *)
THEOREM TypeCorrect == Spec => []TypeOK
  BY TypeInit, TypeNext, PTL DEF Spec

(* bind, stop, restart and the destructors leak no descriptor, whatever    *)
(* the interleaving of the owner, the closing task, the accept fibers and  *)
(* the handlers, for any number of sockets, peers, starts and stops.       *)
THEOREM LeaksNothing == Spec => []NoFdLeak
  <1> DEFINE Inv == TypeOK /\ AcceptShape /\ CloserShape /\ NoFdLeak
  <1>1. Inv /\ [Next]_vars => Inv'
    BY TypeNext, AcceptShapeNext, CloserShapeNext, NoFdLeakNext
  <1>2. Init => Inv
    BY TypeInit, ServerInit
  <1> QED BY <1>1, <1>2, PTL DEF Spec

(* addEvent's assertion about a second waiter can fail only after a        *)
(* start() that overtook the closing task of a stop(): an owner who waits  *)
(* for the sockets to be closed before restarting never meets it.          *)
THEOREM AbortsOnlyAfterEarlyStart == Spec => []AbortNeedsEarlyStart
  <1> DEFINE Inv == /\ TypeOK /\ AcceptShape /\ CloserShape /\ NoFdLeak
                    /\ WaiterShape /\ AbortNeedsEarlyStart
  <1>1. Inv /\ [Next]_vars => Inv'
    BY TypeNext, AcceptShapeNext, CloserShapeNext, NoFdLeakNext, WaiterNext
  <1>2. Init => Inv
    BY TypeInit, ServerInit
  <1> QED BY <1>1, <1>2, PTL DEF Spec

=============================================================================
