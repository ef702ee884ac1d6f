----------------------------- MODULE HttpSession ----------------------------
(***************************************************************************)
(* One HTTP connection: HttpServer::handleClient() reads requests with     *)
(* HttpSession::recvRequest(), dispatches them to a servlet and writes the *)
(* response.  The network delivers what the client wrote in reads of any   *)
(* size.  The client (external) may send its next request before it has    *)
(* read the last response, and reads responses with HttpResponseParser.    *)
(***************************************************************************)
EXTENDS HttpParser, FiniteSets

CONSTANTS Workloads,      \* sequences of messages a client may send: records
                          \*   wire: the pieces, want: the message, or NoMessage
          NoMessage,      \* the "want" of a message the server must refuse
          Registrations,  \* sequences of calls to ServletDispatch
          Fnmatch(_, _),  \* fnmatch(pattern, path) = 0 (external)
          BodyOf(_),      \* the body a servlet sets
          BufSize,        \* http.request.buffer_size, in pieces
          MaxCuts         \* bound: reads of a connection that end inside a name, value or URL

VARIABLES load,      \* what this client sends
          calls,     \* how the dispatcher was set up
          keep,      \* m_keep_alive
          sent,      \* messages written to the socket
          pos,       \* pieces read by the server
          start,     \* pos when the current parser was made
          parser,    \* the HttpRequestParser of recvRequest()
          offset,    \* bytes in the buffer the parser has not consumed
          pc,        \* "recv", "parse", "handle", or why handleClient() ended
          req,       \* the request recvRequest() returned
          got,       \* the paths of the requests handled
          replies,   \* responses written
          cuts,      \* history: reads that ended inside a URL, a name or a value
          cparser,   \* the client's HttpResponseParser
          cpos,      \* pieces it has read of the current response
          ccut,      \* history: as cut, for the current response
          answers    \* responses the client has read

setup == <<load, calls, keep>>

server == <<pos, start, parser, offset, pc, req, got, replies, cuts>>

client == <<cparser, cpos, ccut, answers>>

vars == <<setup, sent, server, client>>

-----------------------------------------------------------------------------
(* ServletDispatch *)

NotFound == "NotFoundServlet"

Without(globs, uri) == SelectSeq(globs, LAMBDA g : g[1] # uri)

\* The dispatcher's tables after one more call
Register(d, call) ==
  CASE call.op = "addServlet" ->
         [d EXCEPT !.datas = [u \in DOMAIN @ \union {call.uri} |->
                                IF u = call.uri THEN call.slt ELSE @[u]]]
    [] call.op = "delServlet" ->
         [d EXCEPT !.datas = [u \in DOMAIN @ \ {call.uri} |-> @[u]]]
    [] call.op = "addGlobServlet" ->
         [d EXCEPT !.globs = Append(Without(@, call.uri), <<call.uri, call.slt>>)]
    [] call.op = "delGlobServlet" -> [d EXCEPT !.globs = Without(@, call.uri)]

Dispatcher(cs) ==
  LET after[i \in 0 .. Len(cs)] ==
        IF i = 0 THEN [datas |-> NoHeaders, globs |-> <<>>] ELSE Register(after[i - 1], cs[i])
  IN after[Len(cs)]

\* getMatchedServlet(): the exact path, then the first pattern that matches
MatchedServlet(d, path) ==
  LET hits == SelectSeq(d.globs, LAMBDA g : Fnmatch(g[1], path))
  IN CASE path \in DOMAIN d.datas -> d.datas[path]
       [] path \notin DOMAIN d.datas /\ hits # <<>> -> hits[1][2]
       [] OTHER -> NotFound

-----------------------------------------------------------------------------
(* HttpRequest and HttpResponse *)

ConnectionName == <<"con", "nection">>
LengthName     == <<"con", "tent-length">>
KeepAlive      == <<"keep-", "alive">>
Close          == <<"clo", "se">>

HeaderLine(name, value) == name \o <<":", "SP">> \o value \o CRLF

DigitOf(n) == CHOOSE c \in DOMAIN DigitVal : DigitVal[c] = n

Version(v) == <<"HT", "TP", "/">> \o <<DigitOf(v[1])>> \o <<".">> \o <<DigitOf(v[2])>>

\* Mutants: a length that is one too large, and none at all.
Mut_DumpBody(body) ==
  (IF body = <<>> THEN <<>> ELSE HeaderLine(LengthName, <<DigitOf(Len(body) + 1)>>)) \o CRLF \o body

Mut_DumpNoLength(body) == CRLF \o body

\* The end both dump() functions share: the length is written only for a
\* body that is not empty.
DumpBody(body) ==
  (IF body = <<>> THEN <<>> ELSE HeaderLine(LengthName, <<DigitOf(Len(body))>>)) \o CRLF \o body

\* HttpResponse::dump()
DumpResponse(r) ==
  Version(r.version) \o <<"SP">> \o r.code \o <<"SP", "w">> \o CRLF
    \o HeaderLine(<<"v">>, <<"w">>)
    \o HeaderLine(ConnectionName, IF r.close THEN Close ELSE KeepAlive)
    \o DumpBody(r.body)

\* HttpRequest::init(): any value but "keep-alive" closes, and so does none
IsClose(m) ==
  \/ ConnectionName \notin DOMAIN m.headers
  \/ m.headers[ConnectionName] = <<>>
  \/ m.headers[ConnectionName] # KeepAlive

\* createResponse(), and what the servlet makes of it; short: the socket took
\* only a part of it at first
ResponseTo(m, short) ==
  LET slt == MatchedServlet(Dispatcher(calls), m.path)
  IN [servlet |-> slt, version |-> m.version, close |-> IsClose(m), body |-> BodyOf(slt),
      short |-> short,
      code |-> IF slt = NotFound THEN <<"4", "0", "4">> ELSE <<"2", "0", "0">>]

-----------------------------------------------------------------------------
(* The connection *)

Wires == [i \in DOMAIN load |-> load[i].wire]

Stream == FlattenSeq(Wires)

\* Where the first k messages end in the stream
End(k) == Len(FlattenSeq(SubSeq(Wires, 1, k)))

Init ==
  /\ load \in Workloads /\ calls \in Registrations /\ keep \in BOOLEAN
  /\ sent = 0 /\ pos = 0 /\ start = 0
  /\ parser = NewParser("request") /\ offset = 0
  /\ pc = "recv" /\ req = NewMessage
  /\ got = <<>> /\ replies = <<>> /\ cuts = 0
  /\ cparser = NewParser("response") /\ cpos = 0 /\ ccut = FALSE /\ answers = <<>>

\* The client writes its next request.
Send ==
  /\ sent < Len(load)
  /\ sent' = sent + 1
  /\ UNCHANGED <<setup, server, client>>

\* The next byte of the read.  Behind an error or an upgrade the parser takes
\* no more: the byte stays in the buffer.
TakeByte(p) ==
  LET q == IF Stopped(p) THEN p ELSE Byte(p, Stream[pos + 1])
  IN /\ pos < End(sent)
     /\ parser' = q
     /\ offset' = IF Stopped(p) \/ q.errno # "OK" THEN offset + 1 ELSE offset
     /\ pos' = pos + 1

\* recvRequest(): read() returns at least one byte and the parser starts on it.
Recv ==
  /\ pc = "recv"
  /\ TakeByte(Enter(parser))
  /\ pc' = "parse"
  /\ UNCHANGED <<setup, sent, start, req, got, replies, cuts, client>>

\* The read holds one byte more.  A read never holds more than the room left
\* in the buffer, which only matters once bytes stay behind.
More ==
  /\ pc = "parse"
  /\ offset < BufSize
  /\ TakeByte(parser)
  /\ UNCHANGED <<setup, sent, start, pc, req, got, replies, cuts, client>>

\* The read ends here; the rest of the loop of recvRequest().
EndRead ==
  LET p == Finish(parser)
  IN /\ pc = "parse"
     /\ pc' = IF p.errno # "OK" /\ ~ p.upgrade THEN "refused"
              ELSE IF offset >= BufSize THEN "overflow"
              ELSE IF p.finished THEN "handle" ELSE "recv"
     /\ parser' = IF pc' = "recv" THEN p ELSE NewParser("request")
     /\ req' = IF pc' = "handle" THEN p.data ELSE req
     /\ cuts' = IF EntryMark(p.state) = "none" THEN cuts ELSE cuts + 1
     /\ cuts' <= MaxCuts
     /\ UNCHANGED <<setup, sent, pos, start, offset, got, replies, client>>

\* The rest of handleClient(): dispatch, sendResponse(), and the next round
\* with a new parser and a new buffer, or close: setClose(true) comes when the
\* response has been written.  After a short write writeFixedSize() starts
\* again at the beginning of the response.
Respond ==
  /\ pc = "handle"
  /\ \E short \in BOOLEAN : replies' = Append(replies, ResponseTo(req, short))
  /\ got' = Append(got, req.path) /\ req' = NewMessage
  /\ IF ~ keep \/ IsClose(req)
     THEN pc' = "closed" /\ UNCHANGED start
     ELSE pc' = "recv" /\ start' = pos
  /\ offset' = 0
  /\ UNCHANGED <<setup, sent, pos, parser, cuts, client>>

\* The response the client is reading
Reply == DumpResponse(replies[Len(answers) + 1])

\* The server can do no more.  What the client reads cannot change what the
\* server does, so it is enough to let it read then.
ServerAtRest ==
  pc \in {"closed", "refused", "overflow"} \/ (pc = "recv" /\ pos = Len(Stream))

\* A response whose beginning was sent twice: what the client makes of it, and
\* of all that follows, is not followed up.
Spoiled == replies[Len(answers) + 1].short

\* The client (external) reads one more byte of the response, in the same
\* read or as the first of the next one; one cut inside a name or a value is
\* enough to spoil the response.
ReadReply ==
  /\ ServerAtRest /\ Len(answers) < Len(replies) /\ ~ Spoiled
  /\ cpos < Len(Reply) /\ ~ Stopped(cparser)
  /\ \E next \in BOOLEAN :
       LET p == IF next THEN Enter(Finish(cparser)) ELSE cparser
       IN /\ next => cpos > 0 /\ ~ (ccut /\ p.mark # "none")
          /\ cparser' = Byte(p, Reply[cpos + 1])
          /\ ccut' = (ccut \/ (next /\ p.mark # "none"))
  /\ cpos' = cpos + 1
  /\ UNCHANGED <<setup, sent, server, answers>>

\* The response is there, or the connection is closed behind it.
EndReply ==
  LET p == Finish(cparser)
      e == IF p.finished \/ pc = "recv" THEN p ELSE ExecuteEof(p)
  IN /\ ServerAtRest /\ Len(answers) < Len(replies)
     /\ cpos = Len(Reply) \/ Stopped(cparser)
     /\ e.finished \/ e.errno # "OK"
     /\ answers' = Append(answers, [cut |-> ccut, errno |-> e.errno,
                                    data |-> IF ccut THEN NewMessage ELSE e.data])
     /\ cparser' = NewParser("response") /\ cpos' = 0 /\ ccut' = FALSE
     /\ UNCHANGED <<setup, sent, server>>

Next == Send \/ Recv \/ More \/ EndRead \/ Respond \/ ReadReply \/ EndReply

\* Every step brings the connection nearer to its end, so no behaviour goes
\* on for ever and what must happen in the end is stated of the states at
\* rest.
Spec == Init /\ [][Next]_vars

-----------------------------------------------------------------------------
(* Properties *)

\* The message the current parser is reading, and whether it began where that
\* message begins.
Current == Len(got) + 1

Aligned == Current \in DOMAIN load /\ start = End(Current - 1)

WellFormed(k) == load[k].want # NoMessage

\* Framing: recvRequest() returns a request in the read that brings the last
\* byte of the message and in no earlier one, never returns a message the
\* parser must refuse, and refuses a good one only when a read cut a URL, a
\* name or a value in two, or brought bytes of the next message along.
FramingExact ==
  Aligned =>
    /\ pc = "recv" => pos < End(Current) \/ ~ WellFormed(Current)
    /\ pc = "handle" => pos >= End(Current) /\ WellFormed(Current)
    /\ pc \in {"refused", "overflow"} =>
         cuts > 0 \/ pos > End(Current) \/ ~ WellFormed(Current)

\* The request a servlet sees is the one the client sent, however the network
\* cut it into reads, unless a read ended inside (or right behind) a URL, a
\* header name or a value, or brought bytes of the next message along.
RequestExact ==
  pc = "handle" /\ Aligned /\ pos = End(Current) /\ cuts = 0 => req = load[Current].want

\* No assertion of the parser fails: a chunk-size line starts with an empty
\* header count, and a body is never entered with length 0 or "no length".
AssertsHold == parser.errno # "assert" /\ cparser.errno # "assert"

\* Some call left a servlet for the path: an exact or matching registration
\* that was not deleted later.
Registered(path) ==
  \E j \in DOMAIN calls :
    LET c == calls[j]
        stays(del) == \A k \in DOMAIN calls : k > j /\ calls[k].op = del => calls[k].uri # c.uri
    IN \/ c.op = "addServlet" /\ c.uri = path /\ stays("delServlet")
       \/ c.op = "addGlobServlet" /\ Fnmatch(c.uri, path) /\ stays("delGlobServlet")

\* The client reads 200 exactly for the paths a servlet is registered for and
\* 404 for the others, and the body the servlet set, whichever way the response
\* is cut, unless the cut is inside a name, a value or the reason phrase.  When
\* it reads "close" the server does close behind that response; when it reads
\* "keep-alive" the server does not, unless it runs with m_keep_alive false,
\* which closes every connection whatever the response has said.
ReplyExact ==
  \A i \in DOMAIN answers :
    LET a == answers[i].data
    IN \/ answers[i].cut
       \/ /\ answers[i].errno = "OK"
          /\ a.body = replies[i].body
          /\ a.status = IF Registered(got[i]) THEN 200 ELSE 404
          /\ \/ a.headers[ConnectionName] = Close /\ i = Len(replies) /\ pc = "closed"
             \/ a.headers[ConnectionName] = KeepAlive /\ (keep /\ i = Len(replies) => pc # "closed")

\* Nothing is under way: all is sent and read, and the client has read every
\* response or the one it is reading does not end.
AtRest ==
  /\ sent = Len(load) /\ ServerAtRest
  /\ Len(answers) < Len(replies) =>
       Spoiled \/ (cpos = Len(Reply) /\ pc = "recv" /\ ~ Finish(cparser).finished)

\* When nothing is under way any more, the client has an answer to each of
\* its requests or the connection is closed, unless a read took bytes of two
\* requests (the second is lost in the parser of the first), a response
\* without a body, hence without a length, was sent on a connection that
\* stays open (its reader waits for the end of the body), or a response was
\* written short.
NobodyLeftWaiting ==
  AtRest => \/ pc # "recv"
            \/ Len(answers) = Len(load)
            \/ start # End(Len(got))
            \/ \E i \in DOMAIN load : ~ WellFormed(i)
            \/ \E i \in DOMAIN replies : replies[i].body = <<>> \/ replies[i].short
=============================================================================
