----------------------------- MODULE WSSession ------------------------------
(***************************************************************************)
(* A WebSocket connection: a client that sends messages in frames, pings   *)
(* and closes; the fiber of WSServer::handleClient that receives messages, *)
(* answers pings and lets the servlet echo each message; and another fiber *)
(* of the server that pushes messages through the same session.            *)
(*                                                                         *)
(* A frame travels as its fields, each of which one call of writeFixedSize *)
(* puts on the wire and one call of readFixedSize takes off: the head, the *)
(* extended length, the mask, the payload.  A receiver that expects one    *)
(* field and finds another is lost, and nothing is followed past that.     *)
(***************************************************************************)
EXTENDS Naturals, Sequences, SequencesExt

CONSTANTS InHead,      \* lengths below it are in the head (126)
          In16,        \* lengths below it take the 16-bit field (0xff)
          Wide,        \* what the 16-bit field cannot hold any more (2^16)
          MaxSize,     \* websocket.message.max_size
          Lengths,     \* payload lengths of the client's frames
          PushLengths, \* and of the messages the server pushes
          MaxFrames,   \* bound: data frames of the client
          MaxPings,    \* bound: pings of the client
          MaxPush      \* bound: messages the server pushes

Dirs == {"in", "out"}                  \* to the server, to the client
Senders == {"handler", "push"}         \* the fibers of the server that send

VARIABLES lib,        \* the client sends with this library's WSSendMessage
          phase,      \* of handleClient: "shake", "open", "pong", "echo", "over"
          closed,     \* who has closed the connection: "no", "client", "server"
          wire,       \* fields in flight in each direction
          left,       \* fields a fiber of the server has still to write
          rx,         \* WSRecvMessage on each side
          got,        \* messages each receiver has returned
          sent,       \* history: messages wholly sent in each direction
          part,       \* history: the client's fragments of the current one
          frames, pings, pushes,
          faulty      \* history: a direction was disturbed

wsVars == <<lib, phase, closed, wire, left, rx, got, sent, part, frames, pings, pushes, faulty>>

Start == [want |-> "head", op |-> "none", data |-> <<>>, cur |-> 0, len |-> 0, mask |-> FALSE, fin |-> FALSE]

Init ==
  /\ lib \in BOOLEAN /\ phase = "shake" /\ closed = "no"
  /\ wire = [d \in Dirs |-> <<>>] /\ left = [s \in Senders |-> <<>>]
  /\ rx = [d \in Dirs |-> Start] /\ got = [d \in Dirs |-> <<>>]
  /\ sent = [d \in Dirs |-> <<>>] /\ part = <<>>
  /\ frames = 0 /\ pings = 0 /\ pushes = 0 /\ faulty = [d \in Dirs |-> FALSE]

-----------------------------------------------------------------------------
(* Sending *)

\* Mutant: every length that is not in the head is announced as 16 bits.
Mut_Head2(fin, op, mask, len) ==
  LET ext == IF len < InHead THEN "no" ELSE "len16"
  IN [f |-> "head", fin |-> fin, op |-> op, mask |-> mask,
      ext |-> ext, len |-> IF ext = "no" THEN len ELSE 0]

\* head.payload: the length, or the mark (126, 127) of the field it is in
Head2(fin, op, mask, len) ==
  LET ext == IF len < InHead THEN "no" ELSE IF len < In16 THEN "len16" ELSE "len64"
  IN [f |-> "head", fin |-> fin, op |-> op, mask |-> mask,
      ext |-> ext, len |-> IF ext = "no" THEN len ELSE 0]

\* WSSendMessage: the fields behind the head.  With client set it draws a
\* mask and applies it to a copy, and sends the payload as it is.
Fields(head, client, masked, len, body) ==
  (CASE head.ext = "no"    -> <<>>
     [] head.ext = "len16" -> <<[f |-> "len16", len |-> len % Wide]>>
     [] head.ext = "len64" -> <<[f |-> "len64", len |-> len]>>)
  \o (IF client THEN <<[f |-> "mask"]>> ELSE <<>>)
  \o <<[f |-> "data", len |-> len, body |-> body, masked |-> masked]>>

\* writeFixedSize: a field on the wire; after a short write the whole field
\* is written again.  A field put between those of another frame, or torn,
\* disturbs its direction.  One field is torn at most, to bound the runs.
Put(s, field) ==
  \E whole \in {TRUE, \E d \in Dirs : faulty[d]} :
    /\ wire' = [wire EXCEPT !["out"] = Append(@, IF whole THEN field ELSE [f |-> "torn"])]
    /\ faulty' = [faulty EXCEPT !["out"] = @ \/ ~whole \/ \E o \in Senders \ {s} : left[o] # <<>>]

\* sendMessage() as far as the head
Send(s, op, len, body) ==
  /\ left[s] = <<>>
  /\ LET head == Head2(TRUE, op, FALSE, len)
     IN /\ Put(s, head)
        /\ left' = [left EXCEPT ![s] = Fields(head, FALSE, FALSE, len, body)]
  /\ sent' = [sent EXCEPT !["out"] = Append(@, [op |-> op, data |-> <<[id |-> body, len |-> len]>>])]

\* The next field.  A payload of length 0 is "written" with the result 0,
\* which counts as a failure and closes the connection.
WriteField(s) ==
  LET field == Head(left[s])
      empty == field.f = "data" /\ field.len = 0
  IN /\ left[s] # <<>> /\ closed = "no"
     /\ \/ empty /\ closed' = "server" /\ UNCHANGED <<wire, faulty>>
        \/ ~empty /\ Put(s, field) /\ UNCHANGED closed
     /\ left' = [left EXCEPT ![s] = Tail(@)]
     /\ UNCHANGED <<lib, phase, rx, got, sent, part, frames, pings, pushes>>

\* A write on a closed connection fails, and the sender gives up.
SendFails(s) ==
  /\ left[s] # <<>> /\ closed # "no"
  /\ left' = [left EXCEPT ![s] = <<>>]
  /\ UNCHANGED <<lib, phase, closed, wire, rx, got, sent, part, frames, pings, pushes, faulty>>

\* The client has no other sender, so its frames are on the wire whole; the
\* first fragment of a message names its opcode.  The library's sender closes
\* after an empty payload.
ClientFrame ==
  /\ phase # "shake" /\ closed = "no" /\ frames < MaxFrames
  /\ \E len \in Lengths, fin \in BOOLEAN :
       LET op    == IF part = <<>> THEN "text" ELSE "continue"
           body  == Append(part, [id |-> frames, len |-> len])
           head  == Head2(fin, op, TRUE, len)
           frame == <<head>> \o Fields(head, TRUE, ~lib, len, frames)
       IN /\ wire' = [wire EXCEPT !["in"] = @ \o IF len > 0 THEN frame ELSE Front(frame)]
          /\ part' = IF fin THEN <<>> ELSE body
          /\ sent' = IF fin THEN [sent EXCEPT !["in"] = Append(@, [op |-> "text", data |-> body])] ELSE sent
          /\ closed' = IF lib /\ len = 0 THEN "client" ELSE "no"
  /\ frames' = frames + 1
  /\ UNCHANGED <<lib, phase, left, rx, got, pings, pushes, faulty>>

\* A ping: WSPing sets no mask.  The mask any other client must send is not
\* read by the server, which takes it for a head.
ClientPing ==
  /\ phase # "shake" /\ closed = "no" /\ pings < MaxPings
  /\ wire' = [wire EXCEPT !["in"] =
                 @ \o <<Head2(TRUE, "ping", ~lib, 0)>> \o IF lib THEN <<>> ELSE <<[f |-> "mask"]>>]
  /\ faulty' = [faulty EXCEPT !["in"] = @ \/ ~lib]
  /\ pings' = pings + 1
  /\ UNCHANGED <<lib, phase, closed, left, rx, got, sent, part, frames, pushes>>

\* The client closes, or is gone before all it wrote has left it.
ClientClose ==
  /\ closed = "no" /\ closed' = "client"
  /\ \E n \in 0 .. Len(wire["in"]) : wire' = [wire EXCEPT !["in"] = SubSeq(@, 1, n)]
  /\ UNCHANGED <<lib, phase, left, rx, got, sent, part, frames, pings, pushes, faulty>>

\* Another fiber of the server sends a message; nothing orders its writes
\* and those of the handler.
Push ==
  /\ phase \in {"open", "pong", "echo"} /\ closed = "no" /\ pushes < MaxPush
  /\ \E len \in PushLengths : Send("push", "text", len, 10 + pushes)
  /\ pushes' = pushes + 1
  /\ UNCHANGED <<lib, phase, closed, rx, got, part, frames, pings>>

-----------------------------------------------------------------------------
(* Receiving *)

\* handleShake, getWSServlet and onConnect
Shake ==
  /\ phase = "shake" /\ closed = "no"
  /\ \/ phase' = "open" /\ UNCHANGED closed
     \/ phase' = "over" /\ closed' = "server"
  /\ UNCHANGED <<lib, wire, left, rx, got, sent, part, frames, pings, pushes, faulty>>

Lost(d) == [rx EXCEPT ![d] = [Start EXCEPT !.want = "lost"]]

\* What WSRecvMessage does with a head: a ping is answered, a pong or an
\* unknown opcode skipped, whatever follows; a data frame without a mask is
\* refused by the server; the length is in the head, or follows.
OnHead(d, r, h) ==
  IF h.op \in {"ping", "pong", "close"} THEN r
  ELSE IF d = "in" /\ ~h.mask THEN [r EXCEPT !.want = "fail"]
  ELSE [r EXCEPT !.want = h.ext, !.len = h.len, !.mask = h.mask, !.fin = h.fin,
                 !.op = IF @ = "none" /\ h.op # "continue" THEN h.op ELSE @]

\* The size is tested once the length is known; then come mask and payload,
\* and a payload of length 0 fails.
OnLength(r) ==
  [r EXCEPT !.want = IF r.cur + r.len >= MaxSize THEN "fail"
                     ELSE IF r.mask THEN "mask" ELSE IF r.len = 0 THEN "fail" ELSE "data"]

OnField(d, r, u) ==
  CASE u.f = "head" -> LET n == OnHead(d, r, u) IN IF n.want = "no" THEN OnLength(n) ELSE n
    [] u.f \in {"len16", "len64"} -> OnLength([r EXCEPT !.len = u.len])
    [] u.f = "mask" -> [r EXCEPT !.want = IF r.len = 0 THEN "fail" ELSE "data"]
    [] u.f = "data" ->
         [r EXCEPT !.want = IF r.fin THEN "done" ELSE "head", !.cur = @ + r.len,
                   !.data = Append(@, [id |-> IF r.mask = u.masked THEN u.body ELSE 99, len |-> u.len])]

\* The field is there, and of the kind and size that is read next.
Expected(r, u) == u.f = r.want /\ (u.f = "data" => u.len = r.len)

\* readFixedSize and what follows it, up to the next read.  Bytes of a field
\* that arrive in two reads overwrite each other.
Recv(d) ==
  LET u == Head(wire[d])
      r == OnField(d, rx[d], u)
  IN /\ IF d = "in" THEN phase = "open" /\ closed # "server" ELSE closed # "client"
     /\ wire[d] # <<>> /\ rx[d].want \notin {"fail", "done", "lost"}
     /\ wire' = [wire EXCEPT ![d] = Tail(@)]
     /\ \/ /\ Expected(rx[d], u)
           /\ rx' = [rx EXCEPT ![d] = r]
           /\ phase' = IF d = "in" /\ u.f = "head" /\ u.op = "ping" THEN "pong" ELSE phase
           /\ UNCHANGED faulty
        \/ /\ ~Expected(rx[d], u) \/ \A e \in Dirs : ~faulty[e]
           /\ rx' = Lost(d) /\ UNCHANGED phase
           /\ faulty' = [faulty EXCEPT ![d] = @ \/ Expected(rx[d], u)]
     /\ UNCHANGED <<lib, closed, left, got, sent, part, frames, pings, pushes>>

\* WSPong.  On a connection this side has closed the write fails, on one the
\* client has left it may; then WSRecvMessage closes and returns null.
Pong ==
  /\ phase = "pong"
  /\ \/ closed = "no" /\ phase' = "open" /\ Put("handler", Head2(TRUE, "pong", FALSE, 0))
     \/ closed = "client" /\ phase' = "open" /\ UNCHANGED <<wire, faulty>>
     \/ closed # "no" /\ phase' = "over" /\ UNCHANGED <<wire, faulty>>
  /\ UNCHANGED <<lib, closed, left, rx, got, sent, part, frames, pings, pushes>>

\* WSRecvMessage returns a message.  The servlet of the server echoes it.
Deliver(d) ==
  LET msg == [op |-> rx[d].op, data |-> rx[d].data]
      len == rx[d].cur
      id  == 20 + Len(got["in"])
  IN /\ rx[d].want = "done"
     /\ got' = [got EXCEPT ![d] = Append(@, msg)]
     /\ rx' = [rx EXCEPT ![d] = Start]
     /\ IF d = "out" \/ closed # "no" THEN UNCHANGED <<phase, wire, left, sent, faulty>>
        ELSE Send("handler", msg.op, len, id) /\ phase' = "echo"
     /\ UNCHANGED <<lib, closed, part, frames, pings, pushes>>

\* The servlet returns once its frame is written: 0, and the next message is
\* received, or not, and the connection is closed.
Echoed ==
  /\ phase = "echo" /\ left["handler"] = <<>>
  /\ \/ phase' = "open" /\ UNCHANGED closed
     \/ phase' = "over" /\ closed' = IF closed = "no" THEN "server" ELSE closed
  /\ UNCHANGED <<lib, wire, left, rx, got, sent, part, frames, pings, pushes, faulty>>

\* A refused frame, or the end of the connection: WSRecvMessage closes and
\* returns null; onClose; close.
HandlerEnds ==
  /\ phase = "open" /\ rx["in"].want \notin {"done", "lost"}
  /\ rx["in"].want = "fail" \/ closed = "server" \/ (closed = "client" /\ wire["in"] = <<>>)
  /\ phase' = "over" /\ closed' = IF closed = "no" THEN "server" ELSE closed
  /\ UNCHANGED <<lib, wire, left, rx, got, sent, part, frames, pings, pushes, faulty>>

Next ==
  /\ \A d \in Dirs : rx[d].want # "lost"
  /\ \E d \in Dirs : ~faulty[d]
  /\ \/ \E s \in Senders : WriteField(s) \/ SendFails(s)
     \/ ClientFrame \/ ClientPing \/ ClientClose \/ Push
     \/ Shake \/ Pong \/ Echoed \/ HandlerEnds
     \/ \E d \in Dirs : Recv(d) \/ Deliver(d)

-----------------------------------------------------------------------------
\* What reaches the other side of a message: the payload the library's own
\* client sends is not the masked one, so the server unmasks what is plain
Arrives(d, m) ==
  IF d = "in" /\ lib THEN [m EXCEPT !.data = [i \in DOMAIN @ |-> [@[i] EXCEPT !.id = 99]]] ELSE m

InFlight(d) ==
  wire[d] # <<>> \/ rx[d].want # "head" \/ (d = "out" /\ \E s \in Senders : left[s] # <<>>)

\* In either direction, whatever the lengths, the fragments, the pings between
\* them and the fibers that send, each message is put together from its own
\* fragments, in the order sent, and none is left out while the connection
\* stays open.  The exceptions are the ones `faulty' records: a field that is
\* written or read in two parts (writeFixedSize starts over, readFixedSize
\* overwrites), a ping with a mask, and two fibers of the server that write
\* frames at the same time.
DeliveredExact ==
  \A d \in Dirs : ~faulty[d] =>
    LET all == [i \in DOMAIN sent[d] |-> Arrives(d, sent[d][i])]
    IN /\ rx[d].want # "lost"
       /\ IsPrefix(got[d], all)
       /\ closed = "no" /\ ~InFlight(d) => got[d] = all
=============================================================================
