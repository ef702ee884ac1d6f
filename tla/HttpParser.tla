----------------------------- MODULE HttpParser -----------------------------
(***************************************************************************)
(* http_parser_execute(), the incremental HTTP/1.x parser, together with   *)
(* the callbacks HttpRequestParser and HttpResponseParser register.  The   *)
(* parser object is a record, every group of parser states is an operator  *)
(* (parser, piece) -> parser.  A call of http_parser_execute() is Enter,    *)
(* Byte for every byte of the read() it was given, and Finish.             *)
(*                                                                         *)
(* Data abstraction: a PIECE stands for one byte, or for a run of bytes    *)
(* the parser only compares with a keyword.  Every keyword is cut once     *)
(* ("con" "tent-length"), so that a read may end inside it; the index the  *)
(* code keeps inside a keyword is the distance between the two halves.     *)
(* Letters are lower case (the code lowers them before it compares).  The  *)
(* build is HTTP_PARSER_STRICT; lenient_http_headers and                   *)
(* allow_chunked_length are 0, as http_parser_init leaves them.            *)
(***************************************************************************)
EXTENDS Naturals, Sequences, SequencesExt

CONSTANTS UllMax,        \* ULLONG_MAX, scaled down: the "no length" mark
          MaxHeaderSize  \* max_header_size, in pieces

ASSUME ParserAssumption == /\ UllMax \in Nat /\ UllMax > 15   \* two hex digits overflow at the earliest
                           /\ MaxHeaderSize \in Nat

CRLF == <<"CR", "LF">>

Spaces == {"SP", "TAB"}

Separators == Spaces \union {"CR", "LF", ":", "/", ",", ";", "?", "@", "[", "]", "CTL"}

\* Every byte that is not a separator or a control character.
IsToken(c) == c \notin Separators

\* IS_URL_CHAR of the strict build
IsUrlChar(c) == c \notin Spaces \union {"CR", "LF", "?", "#", "CTL"}

IsHeaderChar(c) == c # "CTL"

Alpha == {"w", "v"}

DigitVal == [c \in {"0", "1", "2", "4", "9"} |->
               CASE c = "0" -> 0 [] c = "1" -> 1 [] c = "2" -> 2
                 [] c = "4" -> 4 [] OTHER -> 9]

IsNum(c) == c \in DOMAIN DigitVal

\* unhex[], for the digits and one letter
HexVal == [c \in DOMAIN DigitVal \union {"f"} |-> IF c = "f" THEN 15 ELSE DigitVal[c]]

IsUserinfoChar(c) == IsNum(c) \/ c \in Alpha \union {":", ";", ",", "."}

IsHostChar(c) == IsNum(c) \/ c \in Alpha \union {".", "f"}

-----------------------------------------------------------------------------
(* URLs *)

\* parse_url_char(): the state after one more byte of the URL, s_dead when
\* the byte may not stand there.
ParseUrlChar(s, c) ==
  LET server == CASE c = "/" -> "s_req_path"
                  [] c = "?" -> "s_req_query_string_start"
                  [] c = "@" -> "s_req_server_with_at"
                  [] IsUserinfoChar(c) \/ c \in {"[", "]"} -> "s_req_server"
                  [] OTHER -> "s_dead"
      tail(more, query, hash) == CASE IsUrlChar(c) -> more
                                   [] c = "?" -> query
                                   [] c = "#" -> hash
                                   [] OTHER -> "s_dead"
  IN IF c \in Spaces \union {"CR", "LF"} THEN "s_dead"
     ELSE
     CASE s = "s_req_spaces_before_url" ->
            (CASE c \in {"/", "*"} -> "s_req_path"
               [] c \in Alpha -> "s_req_schema"
               [] OTHER -> "s_dead")
       [] s = "s_req_schema" ->
            (CASE c \in Alpha -> s [] c = ":" -> "s_req_schema_slash" [] OTHER -> "s_dead")
       [] s = "s_req_schema_slash" -> IF c = "/" THEN "s_req_schema_slash_slash" ELSE "s_dead"
       [] s = "s_req_schema_slash_slash" -> IF c = "/" THEN "s_req_server_start" ELSE "s_dead"
       [] s = "s_req_server_with_at" -> IF c = "@" THEN "s_dead" ELSE server
       [] s \in {"s_req_server_start", "s_req_server"} -> server
       [] s = "s_req_path" -> tail(s, "s_req_query_string_start", "s_req_fragment_start")
       [] s \in {"s_req_query_string_start", "s_req_query_string"} ->
            tail("s_req_query_string", "s_req_query_string", "s_req_fragment_start")
       [] s = "s_req_fragment_start" -> tail("s_req_fragment", "s_req_fragment", s)
       [] s = "s_req_fragment" -> tail(s, s, s)
       [] OTHER -> "s_dead"

\* http_parse_host_char()
ParseHostChar(s, c) ==
  LET port == IF c = ":" THEN "port_start" ELSE "dead"
      v6   == CASE s = "v6" /\ c = "]" -> "v6_end"
                [] IsNum(c) \/ c \in {"f", ":", "."} -> "v6"
                [] s = "v6" /\ c = "%" -> "zone_start"
                [] OTHER -> "dead"
      zone == CASE s = "zone" /\ c = "]" -> "v6_end"
                [] IsHostChar(c) \/ c = "%" -> "zone"
                [] OTHER -> "dead"
  IN CASE s \in {"userinfo", "userinfo_start"} ->
            (CASE c = "@" -> "host_start" [] IsUserinfoChar(c) -> "userinfo" [] OTHER -> "dead")
       [] s = "host_start" ->
            (CASE c = "[" -> "v6_start" [] IsHostChar(c) -> "host" [] OTHER -> "dead")
       [] s = "host" -> IF IsHostChar(c) THEN "host" ELSE port
       [] s = "v6_end" -> port
       [] s \in {"v6", "v6_start"} -> v6
       [] s \in {"zone", "zone_start"} -> zone
       [] s \in {"port", "port_start"} -> IF IsNum(c) THEN "port" ELSE "dead"
       [] OTHER -> "dead"

\* http_parse_host(): the authority must end in a host, an IPv6 literal or a
\* port; the port is collected for the range test of the caller.
ParseHost(host, foundAt) ==
  LET next(a, c, s) == [s |-> s, port |-> IF s = "port" THEN Append(a.port, c) ELSE a.port]
      run[i \in 0 .. Len(host)] ==
        IF i = 0 THEN [s |-> IF foundAt THEN "userinfo_start" ELSE "host_start", port |-> <<>>]
        ELSE LET a == run[i - 1] IN next(a, host[i], ParseHostChar(a.s, host[i]))
      result(end) == [ok |-> end.s \in {"host", "v6_end", "port"}, port |-> end.port]
  IN result(run[Len(host)])

PortMax == 65535

NoUrl == [s |-> "s_req_spaces_before_url", uf |-> "none", at |-> FALSE,
          schema |-> <<>>, host |-> <<>>, path |-> <<>>, query |-> <<>>, fragment |-> <<>>]

UrlFieldOf ==
  [s_req_schema |-> "schema", s_req_server |-> "host", s_req_server_with_at |-> "host",
   s_req_path |-> "path", s_req_query_string |-> "query", s_req_fragment |-> "fragment"]

\* http_parser_parse_url() with is_connect = 0, as on_request_url_cb calls it.
ParseUrl(buf) ==
  LET extend(v, uf, c) == [v EXCEPT ![uf] = IF uf = v.uf THEN Append(@, c) ELSE <<c>>, !.uf = uf]
      next(u, c, s) ==
        LET v == [u EXCEPT !.s = s, !.at = @ \/ s = "s_req_server_with_at"]
        IN IF u.s = "s_dead" THEN u
           ELSE IF s \in DOMAIN UrlFieldOf THEN extend(v, UrlFieldOf[s], c)
           ELSE v                                    \* a delimiter, or dead
      run[i \in 0 .. Len(buf)] ==
        IF i = 0 THEN NoUrl
        ELSE LET u == run[i - 1] IN next(u, buf[i], ParseUrlChar(u.s, buf[i]))
      port(p) == LET val[i \in 0 .. Len(p)] == IF i = 0 THEN 0 ELSE 10 * val[i - 1] + DigitVal[p[i]]
                 IN val[Len(p)]
      result(u, host) ==
        [ok |-> /\ buf # <<>>
                /\ u.s # "s_dead"
                /\ u.schema # <<>> => u.host # <<>>
                /\ u.host # <<>> => host.ok
                /\ port(host.port) <= PortMax,
         path |-> u.path, query |-> u.query, fragment |-> u.fragment]
      parts(u) == result(u, ParseHost(u.host, u.at))
  IN parts(run[Len(buf)])

-----------------------------------------------------------------------------
(* The parser object and the callbacks *)

NoHeaders == [name \in {} |-> <<>>]

\* HttpRequest / HttpResponse as their constructors leave them
NewMessage == [method |-> "GET", version |-> <<1, 1>>, status |-> 200, path |-> <<"/">>,
               query |-> <<>>, fragment |-> <<>>, headers |-> NoHeaders, body |-> <<>>]

\* http_parser_init(), and the constructor of HttpRequestParser or
\* HttpResponseParser around it.
NewParser(t) ==
  [type |-> t, state |-> IF t = "request" THEN "s_start_req" ELSE "s_start_res",
   header_state |-> "h_general", index |-> 0, nread |-> 0, flags |-> {},
   uses_te |-> FALSE, content_length |-> 0, method |-> "DELETE", major |-> 0, minor |-> 0,
   status_code |-> 0, upgrade |-> FALSE, errno |-> "OK", left |-> FALSE,
   mark |-> "none", buf |-> <<>>,                        \* X_mark and the bytes since it
   field |-> <<>>, data |-> NewMessage, finished |-> FALSE]

Goto(p, s) == [p EXCEPT !.state = s]

Fail(p, e) == [p EXCEPT !.errno = e]

\* STRICT_CHECK
Expect(p, c, want, q) == IF c = want THEN q ELSE Fail(p, "HPE_STRICT")

Mark(p, what, c) == [p EXCEPT !.mark = what, !.buf = Append(IF p.mark = what THEN @ ELSE <<>>, c)]

\* One more byte behind the mark
Keep(p, c) == [p EXCEPT !.buf = Append(@, c)]

OnUrl(p, at) ==
  LET set(old, new) == IF new = <<>> THEN old ELSE new
      store(u) == IF ~ u.ok THEN Fail(p, "HPE_CB_url")
                  ELSE [p EXCEPT !.data.path = set(@, u.path), !.data.query = set(@, u.query),
                                 !.data.fragment = set(@, u.fragment)]
  IN store(ParseUrl(at))

OnHeaderField(p, at) == [p EXCEPT !.field = at]

OnHeaderValue(p, at) ==
  [p EXCEPT !.data.headers = [n \in DOMAIN @ \union {p.field} |-> IF n = p.field THEN at ELSE @[n]]]

OnHeadersComplete(p) ==
  [p EXCEPT !.data.version = <<p.major, p.minor>>,
            !.data.method = IF p.type = "request" THEN p.method ELSE @,
            !.data.status = IF p.type = "response" THEN p.status_code ELSE @]

OnStatus(p, at) == IF p.type = "response" THEN [p EXCEPT !.data.status = p.status_code] ELSE p

\* Mutant: a part of the body replaces what came before it.
Mut_OnBody(p, at) == [p EXCEPT !.data.body = at]

OnBody(p, at) == [p EXCEPT !.data.body = @ \o at]

OnMessageComplete(p) == [p EXCEPT !.finished = TRUE]

\* CALLBACK_DATA: runs the callback of the mark that is set, and clears it.
CallbackData(p) ==
  LET q == [p EXCEPT !.mark = "none", !.buf = <<>>]
  IN CASE p.mark = "none" -> q
       [] p.mark = "url" -> IF p.type = "request" THEN OnUrl(q, p.buf) ELSE q
       [] p.mark = "header_field" -> OnHeaderField(q, p.buf)
       [] p.mark = "header_value" -> OnHeaderValue(q, p.buf)
       [] p.mark = "body" -> OnBody(q, p.buf)
       [] p.mark = "status" -> OnStatus(q, p.buf)

NeedsEof(p) ==
  /\ p.type = "response"
  /\ ~ (p.status_code \div 100 = 1 \/ p.status_code \in {204, 304} \/ "SKIPBODY" \in p.flags)
  /\ \/ p.uses_te /\ "CHUNKED" \notin p.flags
     \/ "CHUNKED" \notin p.flags /\ p.content_length = UllMax

ShouldKeepAlive(p) ==
  /\ IF p.major > 0 /\ p.minor > 0 THEN "CLOSE" \notin p.flags ELSE "KEEP_ALIVE" \in p.flags
  /\ ~ NeedsEof(p)

\* UPDATE_STATE(NEW_MESSAGE()) and the message_complete callback
Complete(p) ==
  OnMessageComplete(Goto(p, IF ~ ShouldKeepAlive(p) THEN "s_dead"
                            ELSE IF p.type = "request" THEN "s_start_req" ELSE "s_start_res"))

\* Leaves http_parser_execute() before the end of the data: what follows an
\* upgraded message is another protocol.
Leave(p) == [p EXCEPT !.left = TRUE]

MessageDone(p) == LET q == Complete(p) IN IF p.upgrade THEN Leave(q) ELSE q

\* The fields a new message starts from
StartMessage(p) == [p EXCEPT !.flags = {}, !.uses_te = FALSE, !.content_length = UllMax]

-----------------------------------------------------------------------------
(* The request line *)

MethodOf == [G |-> "GET", P |-> "POST", H |-> "HEAD", C |-> "CONNECT"]

RestOf == [GET |-> "ET", POST |-> "OST", PUT |-> "UT", HEAD |-> "EAD", CONNECT |-> "ONNECT"]

StartReq(p, c) ==
  CASE c \in {"CR", "LF"} -> p
    [] c \in DOMAIN MethodOf ->
         [Goto(StartMessage(p), "s_req_method") EXCEPT !.method = MethodOf[c], !.index = 1]
    [] OTHER -> Fail(StartMessage(p), "HPE_INVALID_METHOD")

\* index = 1: the first letter was read; 2: the whole word.  A word that
\* starts as POST may still turn out to be PUT.
ReqMethod(p, c) ==
  CASE p.index = 2 /\ c = "SP" -> [Goto(p, "s_req_spaces_before_url") EXCEPT !.index = 3]
    [] p.index = 1 /\ c = RestOf[p.method] -> [p EXCEPT !.index = 2]
    [] p.index = 1 /\ p.method = "POST" /\ c = "UT" -> [p EXCEPT !.method = "PUT", !.index = 2]
    [] OTHER -> Fail(p, "HPE_INVALID_METHOD")

UrlStates == {"s_req_schema", "s_req_schema_slash", "s_req_schema_slash_slash",
              "s_req_server_start", "s_req_server", "s_req_server_with_at", "s_req_path",
              "s_req_query_string_start", "s_req_query_string", "s_req_fragment_start",
              "s_req_fragment"}

\* The states of a URL that may not end yet
UrlOpenStates == {"s_req_schema", "s_req_schema_slash", "s_req_schema_slash_slash",
                  "s_req_server_start"}

UrlByte(p, c) ==
  LET s == ParseUrlChar(p.state, c)
  IN IF s = "s_dead" THEN Fail(p, "HPE_INVALID_URL") ELSE Goto(Mark(p, "url", c), s)

SpacesBeforeUrl(p, c) ==
  IF c = "SP" THEN p
  ELSE UrlByte(IF p.method = "CONNECT" THEN Goto(p, "s_req_server_start") ELSE p, c)

Url(p, c) ==
  IF c \notin {"SP", "CR", "LF"} THEN UrlByte(p, c)
  ELSE IF p.state \in UrlOpenStates THEN Fail(p, "HPE_INVALID_URL")
  ELSE IF c = "SP" THEN CallbackData(Goto(p, "s_req_http_start"))
  ELSE CallbackData([Goto(p, IF c = "CR" THEN "s_req_line_almost_done"
                             ELSE "s_header_field_start") EXCEPT !.major = 0, !.minor = 9])

HttpVersion(p, c) ==
  CASE p.state = "s_req_http_start" ->
         (CASE c = "SP" -> p
            [] c = "HT" -> Goto(p, "s_req_http_HT")
            [] OTHER -> Fail(p, "HPE_INVALID_CONSTANT"))
    [] p.state = "s_req_http_HT" -> Expect(p, c, "TP", Goto(p, "s_req_http_HTTP"))
    [] p.state = "s_req_http_HTTP" -> Expect(p, c, "/", Goto(p, "s_req_http_major"))
    [] p.state = "s_req_http_major" /\ IsNum(c) ->
         [Goto(p, "s_req_http_dot") EXCEPT !.major = DigitVal[c]]
    [] p.state = "s_req_http_dot" /\ c = "." -> Goto(p, "s_req_http_minor")
    [] p.state = "s_req_http_minor" /\ IsNum(c) ->
         [Goto(p, "s_req_http_end") EXCEPT !.minor = DigitVal[c]]
    [] p.state = "s_req_http_end" /\ c = "CR" -> Goto(p, "s_req_line_almost_done")
    [] p.state = "s_req_http_end" /\ c = "LF" -> Goto(p, "s_header_field_start")
    [] p.state = "s_req_line_almost_done" ->
         IF c = "LF" THEN Goto(p, "s_header_field_start") ELSE Fail(p, "HPE_LF_EXPECTED")
    [] OTHER -> Fail(p, "HPE_INVALID_VERSION")

-----------------------------------------------------------------------------
(* The status line *)

StartRes(p, c) ==
  CASE c \in {"CR", "LF"} -> p
    [] c = "HT" -> Goto(StartMessage(p), "s_res_HT")
    [] OTHER -> Fail(StartMessage(p), "HPE_INVALID_CONSTANT")

ResStatus(p, c) ==
  CASE c = "CR" -> CallbackData(Goto(p, "s_res_line_almost_done"))
    [] c = "LF" -> CallbackData(Goto(p, "s_header_field_start"))
    [] OTHER -> Keep(p, c)

ResStatusStart(p, c) ==
  LET q == [Goto(p, "s_res_status") EXCEPT !.mark = "status", !.buf = <<>>]
  IN IF c \in {"CR", "LF"} THEN ResStatus(q, c) ELSE Keep(q, c)

StatusLine(p, c) ==
  CASE p.state = "s_res_HT" -> Expect(p, c, "TP", Goto(p, "s_res_HTTP"))
    [] p.state = "s_res_HTTP" -> Expect(p, c, "/", Goto(p, "s_res_http_major"))
    [] p.state = "s_res_http_major" /\ IsNum(c) ->
         [Goto(p, "s_res_http_dot") EXCEPT !.major = DigitVal[c]]
    [] p.state = "s_res_http_dot" /\ c = "." -> Goto(p, "s_res_http_minor")
    [] p.state = "s_res_http_minor" /\ IsNum(c) ->
         [Goto(p, "s_res_http_end") EXCEPT !.minor = DigitVal[c]]
    [] p.state = "s_res_http_end" /\ c = "SP" -> Goto(p, "s_res_first_status_code")
    [] p.state = "s_res_first_status_code" ->
         (CASE IsNum(c) -> [Goto(p, "s_res_status_code") EXCEPT !.status_code = DigitVal[c]]
            [] c = "SP" -> p
            [] OTHER -> Fail(p, "HPE_INVALID_STATUS"))
    [] p.state = "s_res_status_code" ->
         (CASE IsNum(c) /\ 10 * p.status_code + DigitVal[c] <= 999 ->
                 [p EXCEPT !.status_code = 10 * @ + DigitVal[c]]
            [] c = "SP" -> Goto(p, "s_res_status_start")
            [] c \in {"CR", "LF"} -> ResStatusStart(p, c)
            [] OTHER -> Fail(p, "HPE_INVALID_STATUS"))
    [] p.state = "s_res_status_start" -> ResStatusStart(p, c)
    [] p.state = "s_res_status" -> ResStatus(p, c)
    [] p.state = "s_res_line_almost_done" -> Expect(p, c, "LF", Goto(p, "s_header_field_start"))
    [] OTHER -> Fail(p, "HPE_INVALID_VERSION")

-----------------------------------------------------------------------------
(* Headers *)

HasBody(p) == "CHUNKED" \in p.flags \/ p.content_length \notin {0, UllMax}

\* s_headers_done: what follows the headers
HeadersDone(p) ==
  LET q == [p EXCEPT !.nread = 0]
  IN IF p.upgrade /\ (p.method = "CONNECT" \/ ~ HasBody(p)) THEN Leave(Complete(q))
     ELSE IF "CHUNKED" \in p.flags THEN Goto(q, "s_chunk_size_start")
     ELSE IF p.uses_te THEN IF p.type = "request" THEN Fail(q, "HPE_INVALID_TRANSFER_ENCODING")
                            ELSE Goto(q, "s_body_identity_eof")
     ELSE IF p.content_length = 0 THEN Complete(q)
     ELSE IF p.content_length # UllMax THEN Goto(q, "s_body_identity")
     ELSE IF NeedsEof(p) THEN Goto(q, "s_body_identity_eof")
     ELSE Complete(q)

HeadersAlmostDone(p, c) ==
  LET switch == {"UPGRADE", "CONN_UPGRADE"} \subseteq p.flags
      q == OnHeadersComplete([Goto(p, "s_headers_done") EXCEPT !.upgrade =
             IF switch THEN p.type = "request" \/ p.status_code = 101
             ELSE p.method = "CONNECT"])
  IN IF c # "LF" THEN Fail(p, "HPE_STRICT")
     ELSE IF "TRAILING" \in p.flags THEN MessageDone(p)
     ELSE IF p.uses_te /\ "CONTENTLENGTH" \in p.flags THEN Fail(p, "HPE_UNEXPECTED_CONTENT_LENGTH")
     ELSE HeadersDone(q)

NameStart == [c \in {"con", "proxy-con", "transfer-", "up"} |->
                CASE c = "con" -> "h_CON" [] c = "proxy-con" -> "h_matching_proxy_connection"
                  [] c = "transfer-" -> "h_matching_transfer_encoding"
                  [] OTHER -> "h_matching_upgrade"]

HeaderFieldStart(p, c) ==
  CASE c = "CR" -> Goto(p, "s_headers_almost_done")
    [] c = "LF" -> HeadersAlmostDone(p, c)
    [] IsToken(c) -> [Goto(Mark(p, "header_field", c), "s_header_field") EXCEPT
                        !.header_state = IF c \in DOMAIN NameStart THEN NameStart[c] ELSE "h_general"]
    [] OTHER -> Fail(p, "HPE_INVALID_HEADER_TOKEN")

\* Mutant: Content-Length is not recognised.
Mut_NameNext(h, c) ==
  CASE h \in {"h_CON", "h_matching_proxy_connection"} /\ c = "nection" -> "h_connection"
    [] h = "h_matching_transfer_encoding" /\ c = "encoding" -> "h_transfer_encoding"
    [] h = "h_matching_upgrade" /\ c = "grade" -> "h_upgrade"
    [] OTHER -> "h_general"

\* The name is compared with the five names the parser knows; one more byte
\* behind a known name makes it an ordinary one.
NameNext(h, c) ==
  CASE h \in {"h_CON", "h_matching_proxy_connection"} /\ c = "nection" -> "h_connection"
    [] h = "h_CON" /\ c = "tent-length" -> "h_content_length"
    [] h = "h_matching_transfer_encoding" /\ c = "encoding" -> "h_transfer_encoding"
    [] h = "h_matching_upgrade" /\ c = "grade" -> "h_upgrade"
    [] OTHER -> "h_general"

HeaderField(p, c) ==
  LET h == NameNext(p.header_state, c)
  IN CASE IsToken(c) -> [Keep(p, c) EXCEPT !.header_state = h,
                                            !.uses_te = @ \/ h = "h_transfer_encoding"]
       [] c = ":" -> CallbackData(Goto(p, "s_header_value_discard_ws"))
       [] OTHER -> Fail(p, "HPE_INVALID_HEADER_TOKEN")

ConnectionWord(c) ==
  CASE c = "keep-" -> "h_matching_connection_keep_alive"
    [] c = "clo" -> "h_matching_connection_close"
    [] c = "up" -> "h_matching_connection_upgrade"
    [] OTHER -> "h_matching_connection_token"

HeaderValueStart(p, c) ==
  LET q == Goto(Mark(p, "header_value", c), "s_header_value")
      h == p.header_state
  IN CASE h = "h_upgrade" ->
            [q EXCEPT !.flags = @ \union {"UPGRADE"}, !.header_state = "h_general"]
       [] h = "h_transfer_encoding" ->
            [q EXCEPT !.header_state = IF c = "chun" THEN "h_matching_transfer_encoding_chunked"
                                       ELSE "h_matching_transfer_encoding_token"]
       [] h = "h_content_length" ->
            IF ~ IsNum(c) THEN Fail(q, "HPE_INVALID_CONTENT_LENGTH")
            ELSE IF "CONTENTLENGTH" \in p.flags THEN Fail(q, "HPE_UNEXPECTED_CONTENT_LENGTH")
            ELSE [q EXCEPT !.flags = @ \union {"CONTENTLENGTH"}, !.content_length = DigitVal[c],
                           !.header_state = "h_content_length_num"]
       [] h = "h_connection" -> [q EXCEPT !.header_state = ConnectionWord(c)]
       [] h \in {"h_matching_transfer_encoding_token_start", "h_content_length_ws",
                 "h_matching_connection_token_start"} -> q
       [] OTHER -> [q EXCEPT !.header_state = "h_general"]

\* What a finished word of a Connection or Transfer-Encoding value sets
FlagOf == [h_connection_keep_alive |-> "KEEP_ALIVE", h_connection_close |-> "CLOSE",
           h_connection_upgrade |-> "CONN_UPGRADE", h_transfer_encoding_chunked |-> "CHUNKED"]

SetFlag(p) == IF p.header_state \in DOMAIN FlagOf
              THEN [p EXCEPT !.flags = @ \union {FlagOf[p.header_state]}] ELSE p

WordEnd == [h_matching_connection_keep_alive |-> <<"alive", "h_connection_keep_alive">>,
            h_matching_connection_close |-> <<"se", "h_connection_close">>,
            h_matching_connection_upgrade |-> <<"grade", "h_connection_upgrade">>,
            h_matching_transfer_encoding_chunked |-> <<"ked", "h_transfer_encoding_chunked">>]

\* STRICT_TOKEN(LOWER(ch)): LOWER sets bit 5, which makes a token of '@' and a
\* bracket, not a space, of TAB
IsLowered(c) == IsToken(c) \/ c = "@"

\* One byte of a header value, by what the parser is looking for in it.  A
\* word that stops matching swallows the byte that ended the match.
ValueByte(q, c) ==
  LET h == q.header_state
      to(s) == [q EXCEPT !.header_state = s]
      token == IF h \in {"h_matching_transfer_encoding_chunked", "h_transfer_encoding_chunked"}
               THEN to("h_matching_transfer_encoding_token") ELSE to("h_matching_connection_token")
  IN CASE h = "h_content_length_num" ->
            IF c = "SP" THEN to("h_content_length_ws")
            ELSE IF IsNum(c) /\ (UllMax - 10) \div 10 >= q.content_length
            THEN [q EXCEPT !.content_length = 10 * @ + DigitVal[c]]
            ELSE Fail(q, "HPE_INVALID_CONTENT_LENGTH")
       [] h = "h_content_length_ws" ->
            IF c = "SP" THEN q ELSE Fail(q, "HPE_INVALID_CONTENT_LENGTH")
       [] h \in DOMAIN WordEnd -> IF c = WordEnd[h][1] THEN to(WordEnd[h][2]) ELSE token
       [] h = "h_transfer_encoding_chunked" -> IF c = "SP" THEN q ELSE token
       [] h = "h_matching_transfer_encoding_token" ->
            IF c = "," THEN to("h_matching_transfer_encoding_token_start") ELSE q
       [] h = "h_matching_transfer_encoding_token_start" ->
            (CASE c = "chun" -> to("h_matching_transfer_encoding_chunked")
               [] c = "SP" -> q
               [] c # "chun" /\ IsLowered(c) -> to("h_matching_transfer_encoding_token")
               [] OTHER -> to("h_general"))
       [] h = "h_matching_connection_token" ->
            IF c = "," THEN to("h_matching_connection_token_start") ELSE q
       [] h = "h_matching_connection_token_start" ->
            (CASE c = "SP" -> q
               [] IsLowered(c) -> to(ConnectionWord(c))
               [] OTHER -> to("h_general"))
       [] h \in DOMAIN FlagOf \ {"h_transfer_encoding_chunked"} ->
            (CASE c = "," -> [SetFlag(q) EXCEPT !.header_state = "h_matching_connection_token_start"]
               [] c = "SP" -> q
               [] OTHER -> token)
       [] OTHER -> to("h_general")

HeaderValue(p, c) ==
  CASE c = "CR" -> CallbackData(Goto(p, "s_header_almost_done"))
    [] c = "LF" -> CallbackData(Goto(p, "s_header_value_lws"))
    [] ~ IsHeaderChar(c) -> Fail(p, "HPE_INVALID_HEADER_TOKEN")
    [] OTHER -> ValueByte(Keep(p, c), c)

\* s_header_value_lws: a line that starts with a space goes on with the value
ValueLws(p, c) ==
  IF c \in Spaces
  THEN HeaderValueStart([p EXCEPT !.header_state = IF @ = "h_content_length_num"
                                                   THEN "h_content_length_ws" ELSE @], c)
  ELSE HeaderFieldStart(Goto(SetFlag(p), "s_header_field_start"), c)

\* s_header_value_discard_lws: the value was empty
DiscardLws(p, c) ==
  IF c \in Spaces THEN Goto(p, "s_header_value_discard_ws")
  ELSE IF p.header_state = "h_content_length" THEN Fail(p, "HPE_INVALID_CONTENT_LENGTH")
  ELSE HeaderFieldStart(CallbackData([Goto(SetFlag(p), "s_header_field_start")
                                        EXCEPT !.mark = "header_value"]), c)

DiscardWs(p, c) ==
  CASE c \in Spaces -> p
    [] c = "CR" -> Goto(p, "s_header_value_discard_ws_almost_done")
    [] c = "LF" -> Goto(p, "s_header_value_discard_lws")
    [] OTHER -> HeaderValueStart(p, c)

Headers(p, c) ==
  CASE p.state = "s_header_field_start" -> HeaderFieldStart(p, c)
    [] p.state = "s_header_field" -> HeaderField(p, c)
    [] p.state = "s_header_value_discard_ws" -> DiscardWs(p, c)
    [] p.state = "s_header_value_discard_ws_almost_done" ->
         Expect(p, c, "LF", Goto(p, "s_header_value_discard_lws"))
    [] p.state = "s_header_value_discard_lws" -> DiscardLws(p, c)
    [] p.state = "s_header_value" -> HeaderValue(p, c)
    [] p.state = "s_header_almost_done" ->
         IF c = "LF" THEN Goto(p, "s_header_value_lws") ELSE Fail(p, "HPE_LF_EXPECTED")
    [] p.state = "s_header_value_lws" -> ValueLws(p, c)
    [] p.state = "s_headers_almost_done" -> HeadersAlmostDone(p, c)

-----------------------------------------------------------------------------
(* Bodies and chunks *)

\* The build aborts
AssertFails(p) == Fail(p, "assert")

BodyIdentity(p, c) ==
  LET q == [Mark(p, "body", c) EXCEPT !.content_length = @ - 1]
  IN CASE p.content_length \in {0, UllMax} -> AssertFails(p)
       [] q.content_length = 0 -> MessageDone(CallbackData(q))
       [] OTHER -> q

ChunkSizeStart(p, c) ==
  IF p.nread # 1 THEN AssertFails(p)
  ELSE IF c \in DOMAIN HexVal THEN [Goto(p, "s_chunk_size") EXCEPT !.content_length = HexVal[c]]
  ELSE Fail(p, "HPE_INVALID_CHUNK_SIZE")

ChunkSize(p, c) ==
  CASE c = "CR" -> Goto(p, "s_chunk_size_almost_done")
    [] c \in {";", "SP"} -> Goto(p, "s_chunk_parameters")
    [] c \in DOMAIN HexVal -> IF (UllMax - 16) \div 16 < p.content_length
                              THEN Fail(p, "HPE_INVALID_CONTENT_LENGTH")
                              ELSE [p EXCEPT !.content_length = 16 * @ + HexVal[c]]
    [] OTHER -> Fail(p, "HPE_INVALID_CHUNK_SIZE")

ChunkSizeDone(p, c) ==
  Expect(p, c, "LF",
    IF p.content_length = 0
    THEN [Goto(p, "s_header_field_start") EXCEPT !.nread = 0, !.flags = @ \union {"TRAILING"}]
    ELSE [Goto(p, "s_chunk_data") EXCEPT !.nread = 0])

\* Mutant: the end of the chunk is not noticed.
Mut_ChunkData(p, c) ==
  IF p.content_length \in {0, UllMax} THEN AssertFails(p)
  ELSE [Mark(p, "body", c) EXCEPT !.content_length = @ - 1]

ChunkData(p, c) ==
  LET q == [Mark(p, "body", c) EXCEPT !.content_length = @ - 1]
  IN CASE p.content_length \in {0, UllMax} -> AssertFails(p)
       [] q.content_length = 0 -> Goto(q, "s_chunk_data_almost_done")
       [] OTHER -> q

ChunkDataAlmostDone(p, c) ==
  IF p.content_length # 0 THEN AssertFails(p)
  ELSE Expect(p, c, "CR", CallbackData(Goto(p, "s_chunk_data_done")))

\* Every state of a chunk asserts F_CHUNKED first.
Chunks(p, c) ==
  IF "CHUNKED" \notin p.flags THEN AssertFails(p)
  ELSE
  CASE p.state = "s_chunk_size_start" -> ChunkSizeStart(p, c)
    [] p.state = "s_chunk_size" -> ChunkSize(p, c)
    [] p.state = "s_chunk_parameters" ->
         IF c = "CR" THEN Goto(p, "s_chunk_size_almost_done") ELSE p
    [] p.state = "s_chunk_size_almost_done" -> ChunkSizeDone(p, c)
    [] p.state = "s_chunk_data" -> ChunkData(p, c)
    [] p.state = "s_chunk_data_almost_done" -> ChunkDataAlmostDone(p, c)
    [] p.state = "s_chunk_data_done" ->
         Expect(p, c, "LF", [Goto(p, "s_chunk_size_start") EXCEPT !.nread = 0])

-----------------------------------------------------------------------------
(* http_parser_execute() *)

BodyStates == {"s_chunk_data", "s_chunk_data_almost_done", "s_chunk_data_done",
               "s_body_identity", "s_body_identity_eof"}

ChunkStates == {"s_chunk_size_start", "s_chunk_size", "s_chunk_parameters",
                "s_chunk_size_almost_done", "s_chunk_data", "s_chunk_data_almost_done",
                "s_chunk_data_done"}

VersionStates == {"s_req_http_start", "s_req_http_HT", "s_req_http_HTTP", "s_req_http_major",
                  "s_req_http_dot", "s_req_http_minor", "s_req_http_end",
                  "s_req_line_almost_done"}

HeaderStates == {"s_header_field_start", "s_header_field", "s_header_value_discard_ws",
                 "s_header_value_discard_ws_almost_done", "s_header_value_discard_lws",
                 "s_header_value", "s_header_almost_done", "s_header_value_lws",
                 "s_headers_almost_done"}

\* COUNT_HEADER_SIZE of one byte
CountHeader(p) ==
  IF p.state \in BodyStates THEN p
  ELSE IF p.nread < MaxHeaderSize THEN [p EXCEPT !.nread = @ + 1]
  ELSE Fail([p EXCEPT !.nread = @ + 1], "HPE_HEADER_OVERFLOW")

\* One byte, by the state it is met in
Dispatch(q, c) ==
  CASE q.state = "s_dead" -> IF c \in {"CR", "LF"} THEN q ELSE Fail(q, "HPE_CLOSED_CONNECTION")
    [] q.state = "s_start_req" -> StartReq(q, c)
    [] q.state = "s_start_res" -> StartRes(q, c)
    [] q.state = "s_req_method" -> ReqMethod(q, c)
    [] q.state = "s_req_spaces_before_url" -> SpacesBeforeUrl(q, c)
    [] q.state \in UrlStates -> Url(q, c)
    [] q.state \in VersionStates -> HttpVersion(q, c)
    [] q.state \in HeaderStates -> Headers(q, c)
    [] q.state \in ChunkStates -> Chunks(q, c)
    [] q.state = "s_body_identity" -> BodyIdentity(q, c)
    [] q.state = "s_body_identity_eof" -> Mark(q, "body", c)
    [] OTHER -> StatusLine(q, c)

\* One round of the loop over the data
Byte(p, c) == LET q == CountHeader(p) IN IF q.errno # "OK" THEN q ELSE Dispatch(q, c)

\* The mark a call sets before its first byte, from the state the previous
\* call ended in: the part of a URL, a name, a value or a reason phrase that
\* came with an earlier read has been handed to the callback already.
EntryMark(s) ==
  CASE s \in UrlStates -> "url"
    [] s = "s_header_field" -> "header_field"
    [] s = "s_header_value" -> "header_value"
    [] s = "s_res_status" -> "status"
    [] OTHER -> "none"

\* The call begins.  One that finds an earlier error returns at once.
Enter(p) == IF p.errno # "OK" THEN p ELSE [p EXCEPT !.mark = EntryMark(p.state), !.buf = <<>>]

\* The loop is over: it met an error, or left behind an upgrade.
Stopped(p) == p.errno # "OK" \/ p.left

\* The call ends.  What stands behind a mark when the data runs out goes to
\* its callback.
Finish(p) ==
  IF Stopped(p) THEN [p EXCEPT !.mark = "none", !.buf = <<>>, !.left = FALSE] ELSE CallbackData(p)

\* http_parser_execute() with len = 0: the peer closed
ExecuteEof(p) ==
  IF p.errno # "OK" \/ p.state \in {"s_dead", "s_start_res", "s_start_req"} THEN p
  ELSE IF p.state = "s_body_identity_eof" THEN OnMessageComplete(p)
  ELSE Fail(p, "HPE_INVALID_EOF_STATE")

-----------------------------------------------------------------------------
(* What the assertions rest on *)

\* The values X_mark takes
Marks == {"none", "url", "header_field", "header_value", "status", "body"}

\* Types of the fields the assertions depend on; no assertion has failed
ParserType(p) ==
  /\ {"state", "errno", "nread", "flags", "content_length", "mark"} \subseteq DOMAIN p
  /\ p.errno # "assert" /\ p.mark \in Marks
  /\ p.nread \in Nat /\ p.content_length \in 0 .. UllMax

\* A chunk is only read under F_CHUNKED, a size being read stays below the "no
\* length" mark, a body is entered with bytes to come, and a chunk is left when
\* none is left of it.
LengthsKnown(p) ==
  /\ p.state \in ChunkStates => "CHUNKED" \in p.flags
  /\ p.state \in ChunkStates \ {"s_chunk_size_start"} => p.content_length < UllMax
  /\ p.state \in {"s_body_identity", "s_chunk_data"} => p.content_length \in 1 .. UllMax - 1
  /\ p.state = "s_chunk_data_almost_done" => p.content_length = 0

\* What http_parser_execute() keeps true between two bytes while it has met no
\* error: the above, and a chunk-size line begins with an empty header count.
ParserInv(p) ==
  /\ ParserType(p)
  /\ p.errno = "OK" => LengthsKnown(p) /\ (p.state = "s_chunk_size_start" => p.nread = 0)
=============================================================================
