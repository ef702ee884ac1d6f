--------------------------- MODULE MCHttpSession ----------------------------
(***************************************************************************)
(* Messages and dispatcher set-ups for HttpSession.                        *)
(***************************************************************************)
EXTENDS HttpSession

Line(method, url) == method \o <<"SP">> \o url \o <<"SP">> \o Version(<<1, 1>>) \o CRLF

Msg(wire, want) == [wire |-> wire, want |-> want]

Names(h) == [n \in {h[i][1] : i \in DOMAIN h} |-> h[CHOOSE i \in DOMAIN h : h[i][1] = n][2]]

Lines(h) == FlattenSeq([i \in DOMAIN h |-> HeaderLine(h[i][1], h[i][2])])

Get == <<"G", "ET">>
Post == <<"P", "OST">>

\* GET /w?v#w, keep-alive, no body
Plain ==
  LET h == <<<<ConnectionName, KeepAlive>>>>
  IN Msg(Line(Get, <<"/", "w", "?", "v", "#", "w">>) \o Lines(h) \o CRLF,
         [NewMessage EXCEPT !.path = <<"/", "w">>, !.query = <<"v">>, !.fragment = <<"w">>,
                            !.headers = Names(h)])

\* PUT /v with a length, a header of its own and a body that looks like a head
Put ==
  LET h == <<<<ConnectionName, KeepAlive>>, <<<<"v">>, <<"w", "SP", "v">>>>,
             <<LengthName, <<"4">>>>>>
  IN Msg(Line(<<"P", "UT">>, <<"/", "v">>) \o Lines(h) \o CRLF \o <<"CR", "LF", "G", "ET">>,
         [NewMessage EXCEPT !.method = "PUT", !.path = <<"/", "v">>, !.headers = Names(h),
                            !.body = <<"CR", "LF", "G", "ET">>])

\* POST in two chunks, the first with a parameter, and a trailer
Chunked ==
  LET h == <<<<<<"transfer-", "encoding">>, <<"chun", "ked">>>>>>
      t == <<<<<<"w">>, <<"v">>>>>>
  IN Msg(Line(Post, <<"/", "w">>) \o Lines(h) \o CRLF
           \o <<"2", ";", "w">> \o CRLF \o <<"w", "CR">> \o CRLF
           \o <<"0", "1">> \o CRLF \o <<"v">> \o CRLF \o <<"0">> \o CRLF \o Lines(t) \o CRLF,
         [NewMessage EXCEPT !.method = "POST", !.path = <<"/", "w">>, !.headers = Names(h \o t),
                            !.body = <<"w", "CR", "v">>])

\* Connection: w, close: a list of words
Closing ==
  LET h == <<<<ConnectionName, <<"w", ",", "SP", "clo", "se">>>>>>
  IN Msg(Line(Get, <<"/">>) \o Lines(h) \o CRLF, [NewMessage EXCEPT !.headers = Names(h)])

\* An upgrade; what follows on the wire is not HTTP
Switch ==
  LET h == <<<<ConnectionName, <<"up", "grade">>>>, <<<<"up", "grade">>, <<"w">>>>>>
  IN Msg(Line(Get, <<"/", "v">>) \o Lines(h) \o CRLF,
         [NewMessage EXCEPT !.path = <<"/", "v">>, !.headers = Names(h)])

\* A proxy's request: the URL names the host, a user and a port
Absolute ==
  LET h == <<<<ConnectionName, Close>>>>
  IN Msg(Line(Get, <<"w", ":", "/", "/", "v", "@", "w", ":", "9", "/", "w">>) \o Lines(h) \o CRLF,
         [NewMessage EXCEPT !.path = <<"/", "w">>, !.headers = Names(h)])

\* Messages the server must refuse: a length and chunks, a length too large,
\* a coding that does not end in chunked, two lengths, no length at all, a
\* control character, a port out of range; an upgrade whose chunks are broken.
Bad(h, tail) == Msg(Line(Post, <<"/">>) \o Lines(h) \o tail, NoMessage)

Refused ==
  LET te == <<"transfer-", "encoding">>
  IN { Bad(<<<<LengthName, <<"2">>>>, <<te, <<"chun", "ked">>>>>>, CRLF),
       Bad(<<<<LengthName, <<"2", "4", "9">>>>, <<<<"w">>, <<"v">>>>,
             <<LengthName, <<"2">>>>>>, CRLF),
       Bad(<<<<LengthName, <<"2", "9", "9">>>>>>, CRLF),
       Bad(<<<<te, <<"chun", "ked", ",", "SP", "w">>>>>>, CRLF),
       Bad(<<<<LengthName, <<>>>>>>, CRLF),
       Bad(<<<<<<"w">>, <<"w", "CTL">>>>>>, CRLF),
       Bad(<<<<te, <<"w", ",", "SP", "chun", "ked">>>>,
             <<ConnectionName, <<"up", "grade">>>>, <<<<"up", "grade">>, <<"w">>>>>>,
           CRLF \o <<"w">> \o [i \in 1 .. 40 |-> "v"]),
       Msg(Line(Get, <<"w", ":", "/", "/", "w", ":", "9", "9", "9", "9", "9", "/">>) \o CRLF,
           NoMessage) }

\* CONNECT v:9, which on_request_url_cb cannot parse: every one is refused
Connect ==
  Msg(Line(<<"C", "ONNECT">>, <<"v", ":", "9">>) \o HeaderLine(ConnectionName, Close) \o CRLF,
      NoMessage)

MCWorkloads ==
  { <<Plain, Put>>, <<Put, Chunked>>, <<Chunked, Closing>>, <<Closing, Plain>>, <<Switch>>, <<Absolute>> }
    \union { <<m>> : m \in Refused \union {Connect} }

Call(op, uri, slt) == [op |-> op, uri |-> uri, slt |-> slt]

MCRegistrations ==
  LET w == <<"/", "w">>
      any == <<"/", "*">>
  IN { <<Call("addServlet", w, "s1"), Call("addGlobServlet", any, "s2")>>,
       <<Call("addGlobServlet", any, "s2"), Call("addGlobServlet", w, "empty"),
         Call("addGlobServlet", any, "s1"), Call("delGlobServlet", w, "s1")>>,
       <<Call("addServlet", w, "s1"), Call("addServlet", w, "empty"),
         Call("addGlobServlet", any, "s2"), Call("delGlobServlet", any, "s2")>> }

MCFnmatch(pattern, path) == pattern = <<"/", "*">> \/ pattern = path

MCBodyOf(slt) == IF slt = "empty" THEN <<>> ELSE <<"w">>
=============================================================================
