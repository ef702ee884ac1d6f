------------------------- MODULE HttpSessionProofs --------------------------
(* Machine-checked proofs about HttpParser and HttpSession. *)
EXTENDS HttpSession, TLAPS

(* Between COUNT_HEADER_SIZE and the handling of the byte: the first byte  *)
(* of a chunk-size line has been counted.                                  *)
Counted(p) ==
  /\ ParserType(p) /\ p.errno = "OK" /\ LengthsKnown(p)
  /\ p.state = "s_chunk_size_start" => p.nread = 1

(* In any state but these the assertions ask nothing of the parser. *)
Armed == ChunkStates \union {"s_body_identity"}

Neutral(p) == ParserType(p) /\ (p.errno = "OK" => p.state \notin Armed)

(* A parser in a neutral state keeps the invariant. *)
LEMMA NeutralIsFine ==
    ASSUME NEW p, Neutral(p)
    PROVE  ParserInv(p)
  BY DEF Neutral, ParserInv, LengthsKnown, Armed, ChunkStates

(* The digits of a length and of a chunk size. *)
LEMMA Digits ==
    /\ \A c : IsNum(c) => DigitVal[c] \in 0 .. 9
    /\ \A c \in DOMAIN HexVal : HexVal[c] \in 0 .. 15
  BY DEF IsNum, DigitVal, HexVal

(* What the parser keeps of two records that differ in the mark, the text  *)
(* behind it and the message only.                                         *)
Alike(p, q) ==
  /\ DOMAIN q = DOMAIN p
  /\ q.state = p.state /\ q.nread = p.nread /\ q.flags = p.flags
  /\ q.content_length = p.content_length

(* A callback is handed the text behind the mark.  It may refuse the URL   *)
(* and changes nothing the state machine reads.                            *)
LEMMA CallbackAlike ==
    ASSUME NEW p, ParserType(p)
    PROVE  /\ Alike(p, CallbackData(p)) /\ CallbackData(p).mark = "none"
           /\ CallbackData(p).errno \in {p.errno, "HPE_CB_url"}
  <1> DEFINE q == [p EXCEPT !.mark = "none", !.buf = <<>>]
  <1>1. Alike(p, q) /\ q.mark = "none" /\ q.errno = p.errno
    BY DEF Alike, ParserType
  <1>2. CASE p.mark = "none"
    BY <1>1, <1>2 DEF CallbackData
  <1>3. CASE p.mark = "url"
    BY <1>1, <1>3 DEF CallbackData, OnUrl, Fail, Alike, ParserType
  <1>4. CASE p.mark = "header_field"
    BY <1>1, <1>4 DEF CallbackData, OnHeaderField, Alike, ParserType
  <1>5. CASE p.mark = "header_value"
    BY <1>1, <1>5 DEF CallbackData, OnHeaderValue, Alike, ParserType
  <1>6. CASE p.mark = "body"
    BY <1>1, <1>6 DEF CallbackData, OnBody, Alike, ParserType
  <1>7. CASE p.mark = "status"
    BY <1>1, <1>7 DEF CallbackData, OnStatus, Alike, ParserType
  <1> QED BY <1>2, <1>3, <1>4, <1>5, <1>6, <1>7 DEF ParserType, Marks

(* Running a callback keeps the types. *)
LEMMA CallbackType ==
    ASSUME NEW p, ParserType(p)
    PROVE  ParserType(CallbackData(p))
  BY CallbackAlike DEF Alike, ParserType, Marks

(* A message that is complete leaves the parser dead or before the next. *)
LEMMA CompleteNeutral ==
    ASSUME NEW p, ParserType(p)
    PROVE  Neutral(Complete(p)) /\ Neutral(Leave(Complete(p))) /\ Neutral(MessageDone(p))
  <1>1. Neutral(Complete(p))
    BY DEF Complete, OnMessageComplete, Goto, Neutral, ParserType, Armed, ChunkStates
  <1>2. Neutral(Leave(Complete(p)))
    BY <1>1 DEF Leave, Neutral, ParserType
  <1> QED BY <1>1, <1>2 DEF MessageDone

-----------------------------------------------------------------------------
(* The request line and the status line *)

(* The bytes before a message, and its first one. *)
LEMMA StartNeutral ==
    ASSUME NEW p, NEW c, ParserType(p), p.state \in {"s_start_req", "s_start_res"}
    PROVE  Neutral(StartReq(p, c)) /\ Neutral(StartRes(p, c))
  <1> USE ParserAssumption DEF StartMessage, Goto, Fail, Neutral, ParserType, Armed, ChunkStates
  <1>1. Neutral(StartReq(p, c))
    BY DEF StartReq
  <1>2. Neutral(StartRes(p, c))
    BY DEF StartRes
  <1> QED BY <1>1, <1>2

(* The method. *)
LEMMA MethodNeutral ==
    ASSUME NEW p, NEW c, ParserType(p), p.state = "s_req_method"
    PROVE  Neutral(ReqMethod(p, c))
  BY DEF ReqMethod, Goto, Fail, Neutral, ParserType, Armed, ChunkStates

(* A URL is followed by a state of a URL or none. *)
LEMMA UrlCharStates ==
    ASSUME NEW s, NEW c
    PROVE  ParseUrlChar(s, c) \in UrlStates \union {"s_dead"}
  BY DEF ParseUrlChar, UrlStates

(* One byte of a URL. *)
LEMMA UrlByteNeutral ==
    ASSUME NEW p, NEW c, ParserType(p), p.state \notin Armed
    PROVE  Neutral(UrlByte(p, c))
  <1>1. ParseUrlChar(p.state, c) \notin Armed
    BY UrlCharStates DEF UrlStates, Armed, ChunkStates
  <1> QED BY <1>1 DEF UrlByte, Mark, Goto, Fail, Neutral, ParserType, Marks

(* The target of the request, from the space before it to the one behind. *)
LEMMA UrlNeutral ==
    ASSUME NEW p, NEW c, ParserType(p)
    PROVE  /\ p.state = "s_req_spaces_before_url" => Neutral(SpacesBeforeUrl(p, c))
           /\ p.state \in UrlStates => Neutral(Url(p, c))
  <1>1. ASSUME p.state = "s_req_spaces_before_url" PROVE Neutral(SpacesBeforeUrl(p, c))
    <2> DEFINE q == IF p.method = "CONNECT" THEN Goto(p, "s_req_server_start") ELSE p
    <2>1. ParserType(q) /\ q.state \notin Armed
      BY <1>1 DEF Goto, ParserType, Armed, ChunkStates
    <2>2. Neutral(UrlByte(q, c))
      BY <2>1, UrlByteNeutral
    <2>3. Neutral(p)
      BY <1>1 DEF Neutral, Armed, ChunkStates
    <2> QED BY <2>2, <2>3 DEF SpacesBeforeUrl
  <1>2. ASSUME p.state \in UrlStates PROVE Neutral(Url(p, c))
    <2>1. CASE c \notin {"SP", "CR", "LF"}
      <3>1. p.state \notin Armed
        BY <1>2 DEF UrlStates, Armed, ChunkStates
      <3> QED BY <2>1, <3>1, UrlByteNeutral DEF Url
    <2>2. CASE c \in {"SP", "CR", "LF"} /\ p.state \in UrlOpenStates
      BY <2>2 DEF Url, Fail, Neutral, ParserType
    <2>3. CASE c = "SP" /\ p.state \notin UrlOpenStates
      <3> DEFINE q == Goto(p, "s_req_http_start")
      <3>1. ParserType(q) /\ q.state = "s_req_http_start"
        BY DEF Goto, ParserType
      <3>2. Neutral(CallbackData(q))
        BY <3>1, CallbackType, CallbackAlike DEF Alike, Neutral, Armed, ChunkStates
      <3> QED BY <2>3, <3>2 DEF Url
    <2>4. CASE c \in {"CR", "LF"} /\ p.state \notin UrlOpenStates
      <3> DEFINE q == [Goto(p, IF c = "CR" THEN "s_req_line_almost_done"
                               ELSE "s_header_field_start") EXCEPT !.major = 0, !.minor = 9]
      <3>1. ParserType(q) /\ q.state \in {"s_req_line_almost_done", "s_header_field_start"}
        BY DEF Goto, ParserType
      <3>2. Neutral(CallbackData(q))
        BY <3>1, CallbackType, CallbackAlike DEF Alike, Neutral, Armed, ChunkStates
      <3> QED BY <2>4, <3>2 DEF Url
    <2> QED BY <2>1, <2>2, <2>3, <2>4
  <1> QED BY <1>1, <1>2

(* The version of a request. *)
LEMMA VersionNeutral ==
    ASSUME NEW p, NEW c, ParserType(p), p.state \in VersionStates
    PROVE  Neutral(HttpVersion(p, c))
  BY DEF HttpVersion, Expect, Goto, Fail, Neutral, ParserType, Armed, ChunkStates, VersionStates

(* The reason phrase. *)
LEMMA StatusNeutral ==
    ASSUME NEW p, NEW c, ParserType(p), p.state \notin Armed
    PROVE  Neutral(ResStatus(p, c)) /\ Neutral(ResStatusStart(p, c))
  <1>1. ASSUME NEW r, ParserType(r), r.state \notin Armed
        PROVE  Neutral(ResStatus(r, c))
    <2>1. ASSUME NEW s \in {"s_res_line_almost_done", "s_header_field_start"}
          PROVE  Neutral(CallbackData(Goto(r, s)))
      <3>1. ParserType(Goto(r, s)) /\ Goto(r, s).state = s
        BY <1>1 DEF Goto, ParserType
      <3> QED BY <3>1, CallbackType, CallbackAlike DEF Alike, Neutral, Armed, ChunkStates
    <2>2. Neutral(Keep(r, c))
      BY <1>1 DEF Keep, Neutral, ParserType
    <2> QED BY <2>1, <2>2 DEF ResStatus
  <1> DEFINE q == [Goto(p, "s_res_status") EXCEPT !.mark = "status", !.buf = <<>>]
  <1>2. ParserType(q) /\ q.state \notin Armed
    BY DEF Goto, ParserType, Marks, Armed, ChunkStates
  <1>3. Neutral(Keep(q, c))
    BY <1>2 DEF Keep, Neutral, ParserType
  <1>4. Neutral(ResStatus(q, c))
    BY <1>1, <1>2
  <1>5. Neutral(ResStatusStart(p, c))
    BY <1>3, <1>4 DEF ResStatusStart
  <1> QED BY <1>1, <1>5

(* The status line of a response. *)
LEMMA StatusLineNeutral ==
    ASSUME NEW p, NEW c, ParserType(p), p.state \notin Armed
    PROVE  Neutral(StatusLine(p, c))
  <1>1. Neutral(ResStatus(p, c)) /\ Neutral(ResStatusStart(p, c))
    BY StatusNeutral
  <1>2. CASE p.state \in {"s_res_status_start", "s_res_status"}
    BY <1>1, <1>2 DEF StatusLine
  <1>3. CASE p.state = "s_res_status_code"
    <2>1. /\ Neutral([p EXCEPT !.status_code = 10 * @ + DigitVal[c]])
          /\ Neutral(Goto(p, "s_res_status_start")) /\ Neutral(Fail(p, "HPE_INVALID_STATUS"))
      BY DEF Goto, Fail, Neutral, ParserType, Armed, ChunkStates
    <2> QED BY <1>1, <1>3, <2>1 DEF StatusLine
  <1>4. CASE p.state \notin {"s_res_status_code", "s_res_status_start", "s_res_status"}
    BY <1>4 DEF StatusLine, Expect, Goto, Fail, Neutral, ParserType, Armed, ChunkStates
  <1> QED BY <1>2, <1>3, <1>4

-----------------------------------------------------------------------------
(* Headers *)

(* Setting a flag, a state of a header value. *)
LEMMA SetFlagType ==
    ASSUME NEW p, ParserType(p)
    PROVE  /\ ParserType(SetFlag(p))
           /\ SetFlag(p).errno = p.errno /\ SetFlag(p).state = p.state
  BY DEF SetFlag, ParserType

(* What follows the headers: a body is entered with its length known, or   *)
(* chunk by chunk with the count at zero.                                  *)
LEMMA HeadersDoneFine ==
    ASSUME NEW p, ParserType(p)
    PROVE  ParserInv(HeadersDone(p))
  <1> DEFINE q == [p EXCEPT !.nread = 0]
  <1>1. /\ ParserType(q) /\ q.nread = 0 /\ q.flags = p.flags
        /\ q.content_length = p.content_length
    BY DEF ParserType
  <1> HIDE DEF q
  <1>2. ParserInv(Complete(q)) /\ ParserInv(Leave(Complete(q)))
    BY <1>1, CompleteNeutral, NeutralIsFine
  <1>3. ParserInv(Fail(q, "HPE_INVALID_TRANSFER_ENCODING"))
    BY <1>1 DEF Fail, ParserInv, ParserType
  <1>4. ParserInv(Goto(q, "s_body_identity_eof"))
    BY <1>1 DEF Goto, ParserInv, ParserType, LengthsKnown, ChunkStates
  <1>5. ASSUME "CHUNKED" \in p.flags PROVE ParserInv(Goto(q, "s_chunk_size_start"))
    BY <1>1, <1>5 DEF Goto, ParserInv, ParserType, LengthsKnown, ChunkStates
  <1>6. ASSUME p.content_length # 0, p.content_length # UllMax
        PROVE  ParserInv(Goto(q, "s_body_identity"))
    BY <1>1, <1>6, ParserAssumption
       DEF Goto, ParserInv, ParserType, LengthsKnown, ChunkStates
  <1> QED BY <1>2, <1>3, <1>4, <1>5, <1>6 DEF HeadersDone, q

(* The empty line behind the headers, or behind the trailer. *)
LEMMA HeadersAlmostDoneFine ==
    ASSUME NEW p, NEW c, ParserType(p)
    PROVE  ParserInv(HeadersAlmostDone(p, c))
  <1> DEFINE switch == {"UPGRADE", "CONN_UPGRADE"} \subseteq p.flags
             q == OnHeadersComplete([Goto(p, "s_headers_done") EXCEPT !.upgrade =
                    IF switch THEN p.type = "request" \/ p.status_code = 101
                    ELSE p.method = "CONNECT"])
  <1>1. ParserType(q)
    BY DEF OnHeadersComplete, Goto, ParserType
  <1> HIDE DEF q
  <1>2. ParserInv(HeadersDone(q))
    BY <1>1, HeadersDoneFine
  <1>3. ParserInv(MessageDone(p))
    BY CompleteNeutral, NeutralIsFine
  <1>4. ParserInv(Fail(p, "HPE_STRICT")) /\ ParserInv(Fail(p, "HPE_UNEXPECTED_CONTENT_LENGTH"))
    BY DEF Fail, ParserInv, ParserType
  <1> QED BY <1>2, <1>3, <1>4 DEF HeadersAlmostDone, q

(* The first byte of a header line. *)
LEMMA HeaderFieldStartFine ==
    ASSUME NEW p, NEW c, ParserType(p)
    PROVE  ParserInv(HeaderFieldStart(p, c))
  <1>1. CASE c = "CR"
    BY <1>1 DEF HeaderFieldStart, IsToken, Separators, Goto, ParserInv, ParserType,
                LengthsKnown, ChunkStates
  <1>2. CASE c = "LF"
    BY <1>2, HeadersAlmostDoneFine DEF HeaderFieldStart, IsToken, Separators
  <1>3. CASE c \notin {"CR", "LF"}
    BY <1>3 DEF HeaderFieldStart, Mark, Goto, Fail, ParserInv, ParserType, LengthsKnown,
                ChunkStates, Marks
  <1> QED BY <1>1, <1>2, <1>3

(* A header name. *)
LEMMA HeaderFieldNeutral ==
    ASSUME NEW p, NEW c, ParserType(p), p.state = "s_header_field"
    PROVE  Neutral(HeaderField(p, c))
  <1>1. Neutral(CallbackData(Goto(p, "s_header_value_discard_ws")))
    <2>1. /\ ParserType(Goto(p, "s_header_value_discard_ws"))
          /\ Goto(p, "s_header_value_discard_ws").state \notin Armed
      BY DEF Goto, ParserType, Armed, ChunkStates
    <2> QED BY <2>1, CallbackType, CallbackAlike DEF Alike, Neutral
  <1>2. ASSUME NEW h
        PROVE  Neutral([Keep(p, c) EXCEPT !.header_state = h, !.uses_te = @ \/ h = "h_transfer_encoding"])
    BY DEF Keep, Neutral, ParserType, Armed, ChunkStates
  <1>3. Neutral(Fail(p, "HPE_INVALID_HEADER_TOKEN"))
    BY DEF Fail, Neutral, ParserType
  <1> QED BY <1>1, <1>2, <1>3 DEF HeaderField

(* The first byte of a value: a length starts with one digit. *)
LEMMA ValueStartNeutral ==
    ASSUME NEW p, NEW c, ParserType(p)
    PROVE  Neutral(HeaderValueStart(p, c))
  <1> DEFINE q == Goto(Mark(p, "header_value", c), "s_header_value")
  <1>1. ParserType(q) /\ q.state = "s_header_value"
    BY DEF Goto, Mark, ParserType, Marks
  <1> HIDE DEF q
  <1>2. Neutral(q) /\ \A h, f : Neutral([q EXCEPT !.flags = f, !.header_state = h])
    BY <1>1 DEF Neutral, ParserType, Armed, ChunkStates
  <1>3. \A h : Neutral([q EXCEPT !.header_state = h])
    BY <1>1 DEF Neutral, ParserType, Armed, ChunkStates
  <1>4. /\ Neutral(Fail(q, "HPE_INVALID_CONTENT_LENGTH"))
        /\ Neutral(Fail(q, "HPE_UNEXPECTED_CONTENT_LENGTH"))
    BY <1>1 DEF Fail, Neutral, ParserType
  <1>5. ASSUME IsNum(c)
        PROVE  Neutral([q EXCEPT !.flags = @ \union {"CONTENTLENGTH"}, !.content_length = DigitVal[c],
                                 !.header_state = "h_content_length_num"])
    <2>1. DigitVal[c] \in 0 .. UllMax
      BY <1>5, Digits, ParserAssumption
    <2> QED BY <1>1, <2>1 DEF Neutral, ParserType, Armed, ChunkStates
  <1> QED BY <1>2, <1>3, <1>4, <1>5 DEF HeaderValueStart, q

(* A digit more, where the code has tested that there is room for it. *)
LEMMA RoomForDigit ==
    ASSUME NEW n \in Nat, NEW d \in 0 .. 9, (UllMax - 10) \div 10 >= n
    PROVE  10 * n + d \in 0 .. UllMax - 1
  BY ParserAssumption

(* The same of a digit of a chunk size. *)
LEMMA RoomForHex ==
    ASSUME NEW n \in Nat, NEW d \in 0 .. 15, ~ ((UllMax - 16) \div 16 < n)
    PROVE  16 * n + d \in 0 .. UllMax - 1
  BY ParserAssumption

(* One byte of a value: the length does not overflow. *)
LEMMA ValueByteNeutral ==
    ASSUME NEW q, NEW c, ParserType(q), q.state = "s_header_value"
    PROVE  Neutral(ValueByte(q, c))
  <1>1. Neutral(q) /\ \A h : Neutral([q EXCEPT !.header_state = h])
    BY DEF Neutral, ParserType, Armed, ChunkStates
  <1>2. Neutral(Fail(q, "HPE_INVALID_CONTENT_LENGTH"))
    BY DEF Fail, Neutral, ParserType
  <1>3. \A h : Neutral([SetFlag(q) EXCEPT !.header_state = h])
    BY SetFlagType DEF Neutral, ParserType, Armed, ChunkStates
  <1>4. ASSUME IsNum(c), (UllMax - 10) \div 10 >= q.content_length
        PROVE  Neutral([q EXCEPT !.content_length = 10 * @ + DigitVal[c]])
    <2>1. 10 * q.content_length + DigitVal[c] \in 0 .. UllMax
      BY <1>4, Digits, RoomForDigit, ParserAssumption DEF ParserType
    <2> QED BY <2>1 DEF Neutral, ParserType, Armed, ChunkStates
  <1> QED BY <1>1, <1>2, <1>3, <1>4 DEF ValueByte

(* The rest of a value. *)
LEMMA HeaderValueNeutral ==
    ASSUME NEW p, NEW c, ParserType(p), p.state = "s_header_value"
    PROVE  Neutral(HeaderValue(p, c))
  <1>1. ASSUME NEW s \in {"s_header_almost_done", "s_header_value_lws"}
        PROVE  Neutral(CallbackData(Goto(p, s)))
    <2>1. ParserType(Goto(p, s)) /\ Goto(p, s).state \notin Armed
      BY DEF Goto, ParserType, Armed, ChunkStates
    <2> QED BY <2>1, CallbackType, CallbackAlike DEF Alike, Neutral
  <1>2. ParserType(Keep(p, c)) /\ Keep(p, c).state = "s_header_value"
    BY DEF Keep, ParserType
  <1>3. Neutral(ValueByte(Keep(p, c), c))
    BY <1>2, ValueByteNeutral
  <1>4. Neutral(Fail(p, "HPE_INVALID_HEADER_TOKEN"))
    BY DEF Fail, Neutral, ParserType
  <1> QED BY <1>1, <1>3, <1>4 DEF HeaderValue

(* Every byte of the headers keeps the invariant. *)
LEMMA HeadersFine ==
    ASSUME NEW p, NEW c, ParserType(p), p.state \in HeaderStates
    PROVE  ParserInv(Headers(p, c))
  <1>n. p.state \notin Armed
    BY DEF HeaderStates, Armed, ChunkStates
  <1>1. CASE p.state = "s_header_field_start"
    BY <1>1, HeaderFieldStartFine DEF Headers
  <1>2. CASE p.state = "s_header_field"
    BY <1>2, HeaderFieldNeutral, NeutralIsFine DEF Headers
  <1>3. CASE p.state = "s_header_value_discard_ws"
    <2>1. Neutral(DiscardWs(p, c))
      BY <1>n, ValueStartNeutral DEF DiscardWs, Goto, Neutral, ParserType, Armed, ChunkStates
    <2> QED BY <1>3, <2>1, NeutralIsFine DEF Headers
  <1>4. CASE p.state = "s_header_value_discard_ws_almost_done"
    <2>1. Neutral(Expect(p, c, "LF", Goto(p, "s_header_value_discard_lws")))
      BY DEF Expect, Fail, Goto, Neutral, ParserType, Armed, ChunkStates
    <2> QED BY <1>4, <2>1, NeutralIsFine DEF Headers
  <1>5. CASE p.state = "s_header_value_discard_lws"
    <2> DEFINE q == [Goto(SetFlag(p), "s_header_field_start") EXCEPT !.mark = "header_value"]
    <2>1. ParserType(q)
      BY SetFlagType DEF Goto, ParserType, Marks
    <2> HIDE DEF q
    <2>2. ParserInv(HeaderFieldStart(CallbackData(q), c))
      BY <2>1, CallbackType, HeaderFieldStartFine
    <2>3. Neutral(Goto(p, "s_header_value_discard_ws")) /\ Neutral(Fail(p, "HPE_INVALID_CONTENT_LENGTH"))
      BY DEF Goto, Fail, Neutral, ParserType, Armed, ChunkStates
    <2>4. ParserInv(DiscardLws(p, c))
      BY <2>2, <2>3, NeutralIsFine DEF DiscardLws, q
    <2> QED BY <1>5, <2>4 DEF Headers
  <1>6. CASE p.state = "s_header_value"
    BY <1>6, HeaderValueNeutral, NeutralIsFine DEF Headers
  <1>7. CASE p.state = "s_header_almost_done"
    <2>1. Neutral(Goto(p, "s_header_value_lws")) /\ Neutral(Fail(p, "HPE_LF_EXPECTED"))
      BY DEF Fail, Goto, Neutral, ParserType, Armed, ChunkStates
    <2> QED BY <1>7, <2>1, NeutralIsFine DEF Headers
  <1>8. CASE p.state = "s_header_value_lws"
    <2>1. \A h : ParserType([p EXCEPT !.header_state = h])
      BY DEF ParserType
    <2>2. ParserType(Goto(SetFlag(p), "s_header_field_start"))
      BY SetFlagType DEF Goto, ParserType
    <2>3. ParserInv(HeaderFieldStart(Goto(SetFlag(p), "s_header_field_start"), c))
      BY <2>2, HeaderFieldStartFine
    <2>4. \A h : ParserInv(HeaderValueStart([p EXCEPT !.header_state = h], c))
      BY <2>1, ValueStartNeutral, NeutralIsFine
    <2>5. ParserInv(ValueLws(p, c))
      BY <2>3, <2>4 DEF ValueLws
    <2> QED BY <1>8, <2>5 DEF Headers
  <1>9. CASE p.state = "s_headers_almost_done"
    BY <1>9, HeadersAlmostDoneFine DEF Headers
  <1> QED BY <1>1, <1>2, <1>3, <1>4, <1>5, <1>6, <1>7, <1>8, <1>9 DEF HeaderStates

-----------------------------------------------------------------------------
(* Bodies and chunks *)

(* A body of known length: it is left in the step that reads its last      *)
(* byte, so the assertion on the length holds at every byte.               *)
LEMMA BodyFine ==
    ASSUME NEW p, NEW c, Counted(p), p.state = "s_body_identity"
    PROVE  ParserInv(BodyIdentity(p, c))
  <1> DEFINE q == [Mark(p, "body", c) EXCEPT !.content_length = @ - 1]
  <1>1. p.content_length \in 1 .. UllMax - 1 /\ ParserType(p) /\ p.errno = "OK"
    BY DEF Counted, LengthsKnown
  <1>2. /\ ParserType(q) /\ q.state = p.state /\ q.errno = "OK"
        /\ q.content_length = p.content_length - 1
    BY <1>1, ParserAssumption DEF Mark, ParserType, Marks
  <1> HIDE DEF q
  <1>3. ParserInv(MessageDone(CallbackData(q)))
    BY <1>2, CallbackType, CompleteNeutral, NeutralIsFine
  <1>4. ASSUME q.content_length # 0 PROVE ParserInv(q)
    BY <1>1, <1>2, <1>4, ParserAssumption DEF ParserInv, LengthsKnown, ChunkStates
  <1>5. p.content_length \notin {0, UllMax}
    BY <1>1, ParserAssumption
  <1> QED BY <1>3, <1>4, <1>5 DEF BodyIdentity, q

(* Every byte of a chunk keeps the invariant, the first of its size line   *)
(* with a count of one, each byte of its data with a length above zero.    *)
LEMMA ChunksFine ==
    ASSUME NEW p, NEW c, Counted(p), p.state \in ChunkStates
    PROVE  ParserInv(Chunks(p, c))
  <1>t. /\ ParserType(p) /\ p.errno = "OK" /\ "CHUNKED" \in p.flags
        /\ p.content_length \in Nat /\ p.content_length <= UllMax /\ UllMax \in Nat
    BY ParserAssumption DEF Counted, LengthsKnown, ParserType
  <1>u. p.state # "s_chunk_size_start" => p.content_length < UllMax
    BY DEF Counted, LengthsKnown
  <1>f. \A e : e \notin {"assert", "OK"} => ParserInv(Fail(p, e))
    BY <1>t DEF Fail, ParserInv, ParserType
  <1> USE DEF ParserInv, ParserType, LengthsKnown, ChunkStates, Goto
  <1>1. CASE p.state = "s_chunk_size_start"
    <2>1. p.nread = 1
      BY <1>1 DEF Counted
    <2>2. ASSUME c \in DOMAIN HexVal
          PROVE  ParserInv([Goto(p, "s_chunk_size") EXCEPT !.content_length = HexVal[c]])
      <3>1. HexVal[c] \in 0 .. UllMax /\ HexVal[c] < UllMax
        BY <2>2, Digits, ParserAssumption
      <3> QED BY <1>t, <3>1
    <2>3. ParserInv(ChunkSizeStart(p, c))
      BY <1>t, <1>f, <2>1, <2>2 DEF ChunkSizeStart
    <2> QED BY <1>t, <1>1, <2>3 DEF Chunks
  <1>2. CASE p.state = "s_chunk_size"
    <2>1. ParserInv(Goto(p, "s_chunk_size_almost_done")) /\ ParserInv(Goto(p, "s_chunk_parameters"))
      <3>1. p.content_length < UllMax
        BY <1>u, <1>2
      <3> QED BY <1>t, <3>1
    <2>2. ASSUME c \in DOMAIN HexVal, ~ ((UllMax - 16) \div 16 < p.content_length)
          PROVE  ParserInv([p EXCEPT !.content_length = 16 * @ + HexVal[c]])
      <3>1. 16 * p.content_length + HexVal[c] \in 0 .. UllMax - 1
        BY <1>t, <2>2, Digits, RoomForHex
      <3> QED BY <1>t, <1>2, <3>1
    <2>3. ParserInv(ChunkSize(p, c))
      <3> HIDE DEF ParserInv, Goto
      <3> QED BY <1>f, <2>1, <2>2 DEF ChunkSize
    <2> QED BY <1>t, <1>2, <2>3 DEF Chunks
  <1>3. CASE p.state = "s_chunk_parameters"
    <2>1. ParserInv(Goto(p, "s_chunk_size_almost_done")) /\ ParserInv(p)
      BY <1>t, <1>u, <1>3
    <2> QED BY <1>t, <1>3, <2>1 DEF Chunks
  <1>4. CASE p.state = "s_chunk_size_almost_done"
    <2>1. ParserInv([Goto(p, "s_header_field_start") EXCEPT !.nread = 0, !.flags = @ \union {"TRAILING"}])
      BY <1>t
    <2>2. ASSUME p.content_length # 0
          PROVE  ParserInv([Goto(p, "s_chunk_data") EXCEPT !.nread = 0])
      BY <1>t, <1>u, <1>4, <2>2
    <2>3. ParserInv(ChunkSizeDone(p, c))
      BY <1>f, <2>1, <2>2 DEF ChunkSizeDone, Expect
    <2> QED BY <1>t, <1>4, <2>3 DEF Chunks
  <1>5. CASE p.state = "s_chunk_data"
    <2> DEFINE q == [Mark(p, "body", c) EXCEPT !.content_length = @ - 1]
    <2>1. p.content_length \in 1 .. UllMax - 1
      BY <1>5 DEF Counted
    <2>2. /\ ParserType(q) /\ q.state = "s_chunk_data" /\ q.errno = "OK" /\ q.flags = p.flags
          /\ q.content_length = p.content_length - 1
      BY <1>t, <1>5, <2>1 DEF Mark, Marks
    <2> HIDE DEF q
    <2>3. ASSUME q.content_length # 0 PROVE ParserInv(q)
      BY <1>t, <2>1, <2>2, <2>3
    <2>4. ASSUME q.content_length = 0 PROVE ParserInv(Goto(q, "s_chunk_data_almost_done"))
      BY <1>t, <2>1, <2>2, <2>4
    <2>5. p.content_length \notin {0, UllMax}
      BY <1>t, <2>1
    <2>6. ParserInv(ChunkData(p, c))
      BY <2>3, <2>4, <2>5 DEF ChunkData, q
    <2> QED BY <1>t, <1>5, <2>6 DEF Chunks
  <1>6. CASE p.state = "s_chunk_data_almost_done"
    <2> DEFINE q == Goto(p, "s_chunk_data_done")
    <2>0. p.content_length = 0
      BY <1>6 DEF Counted
    <2>1. /\ ParserType(q) /\ q.state = "s_chunk_data_done" /\ "CHUNKED" \in q.flags
          /\ q.content_length < UllMax
      BY <1>t, <1>u, <1>6
    <2> HIDE DEF q
    <2>2. ParserInv(CallbackData(q))
      BY <2>1, CallbackType, CallbackAlike DEF Alike
    <2>3. ParserInv(ChunkDataAlmostDone(p, c))
      BY <1>f, <2>0, <2>2 DEF ChunkDataAlmostDone, Expect, q
    <2> QED BY <1>t, <1>6, <2>3 DEF Chunks
  <1>7. CASE p.state = "s_chunk_data_done"
    <2>1. ParserInv([Goto(p, "s_chunk_size_start") EXCEPT !.nread = 0])
      BY <1>t
    <2> QED BY <1>t, <1>f, <1>7, <2>1 DEF Chunks, Expect
  <1> QED BY <1>1, <1>2, <1>3, <1>4, <1>5, <1>6, <1>7

-----------------------------------------------------------------------------
(* http_parser_execute() *)

(* COUNT_HEADER_SIZE makes the count of a chunk-size line one, or fails. *)
LEMMA CountFine ==
    ASSUME NEW p, ParserInv(p)
    PROVE  /\ ParserInv(CountHeader(p)) \/ Counted(CountHeader(p))
           /\ CountHeader(p).errno = "OK" => Counted(CountHeader(p))
  <1>1. CASE p.state \in BodyStates
    BY <1>1 DEF CountHeader, ParserInv, Counted, BodyStates
  <1>2. CASE p.state \notin BodyStates
    BY <1>2, ParserAssumption DEF CountHeader, Fail, ParserInv, ParserType, LengthsKnown, Counted
  <1> QED BY <1>1, <1>2

(* The byte, by the state it is met in. *)
LEMMA DispatchFine ==
    ASSUME NEW p, NEW c, Counted(p)
    PROVE  ParserInv(Dispatch(p, c))
  <1>t. ParserType(p)
    BY DEF Counted
  <1> USE DEF Dispatch, UrlStates, VersionStates, HeaderStates, ChunkStates
  <1>1. CASE p.state = "s_dead"
    <2>1. ParserInv(p) /\ ParserInv(Fail(p, "HPE_CLOSED_CONNECTION"))
      BY <1>t, <1>1 DEF Fail, ParserInv, ParserType, LengthsKnown
    <2> QED BY <1>1, <2>1
  <1>2. CASE p.state \in {"s_start_req", "s_start_res"}
    BY <1>t, <1>2, StartNeutral, NeutralIsFine
  <1>3. CASE p.state = "s_req_method"
    BY <1>t, <1>3, MethodNeutral, NeutralIsFine
  <1>4. CASE p.state = "s_req_spaces_before_url"
    BY <1>t, <1>4, UrlNeutral, NeutralIsFine
  <1>5. CASE p.state \in UrlStates
    BY <1>t, <1>5, UrlNeutral, NeutralIsFine
  <1>6. CASE p.state \in VersionStates
    BY <1>t, <1>6, VersionNeutral, NeutralIsFine
  <1>7. CASE p.state \in HeaderStates
    BY <1>t, <1>7, HeadersFine
  <1>8. CASE p.state \in ChunkStates
    BY <1>8, ChunksFine
  <1>9. CASE p.state = "s_body_identity"
    BY <1>9, BodyFine
  <1>10. CASE p.state = "s_body_identity_eof"
    <2>1. ParserInv(Mark(p, "body", c))
      BY <1>t, <1>10 DEF Mark, ParserInv, ParserType, LengthsKnown, Marks
    <2> QED BY <1>10, <2>1
  <1>11. CASE p.state \notin UrlStates \union VersionStates \union HeaderStates \union Armed
                            \union {"s_dead", "s_start_req", "s_start_res", "s_req_method",
                                    "s_req_spaces_before_url", "s_body_identity_eof"}
    BY <1>t, <1>11, StatusLineNeutral, NeutralIsFine DEF Armed
  <1> QED BY <1>1, <1>2, <1>3, <1>4, <1>5, <1>6, <1>7, <1>8, <1>9, <1>10, <1>11 DEF Armed

(* Whatever byte comes, in whatever state: the loop of                     *)
(* http_parser_execute() fails no assertion and stays able to meet the     *)
(* next byte.                                                              *)
THEOREM ByteKeepsInv ==
    ASSUME NEW p, NEW c, ParserInv(p)
    PROVE  ParserInv(Byte(p, c))
  <1>1. CASE CountHeader(p).errno = "OK"
    BY <1>1, CountFine, DispatchFine DEF Byte
  <1>2. CASE CountHeader(p).errno # "OK"
    BY <1>2, CountFine DEF Byte, Counted
  <1> QED BY <1>1, <1>2

(* A parser as http_parser_init() leaves it. *)
LEMMA NewParserFine ==
    ASSUME NEW t
    PROVE  ParserInv(NewParser(t))
  BY ParserAssumption DEF NewParser, ParserInv, ParserType, LengthsKnown, ChunkStates, Marks

(* The beginning and the end of a call touch the mark only. *)
LEMMA CallFine ==
    ASSUME NEW p, ParserInv(p)
    PROVE  ParserInv(Enter(p)) /\ ParserInv(Finish(p))
  <1>1. ParserInv(Enter(p))
    BY DEF Enter, EntryMark, ParserInv, ParserType, LengthsKnown, Marks
  <1>2. CASE Stopped(p)
    BY <1>1, <1>2 DEF Finish, ParserInv, ParserType, LengthsKnown, Marks
  <1>3. CASE ~ Stopped(p)
    <2>1. ParserInv(CallbackData(p))
      BY CallbackType, CallbackAlike DEF Alike, ParserInv, LengthsKnown
    <2> QED BY <1>1, <1>3, <2>1 DEF Finish
  <1> QED BY <1>2, <1>3

-----------------------------------------------------------------------------
(* The connection *)

(* The parsers of both ends. *)
ParsersFine == ParserInv(parser) /\ ParserInv(cparser)

(* A byte of the read, or one that a stopped parser leaves in the buffer. *)
LEMMA TakeByteFine ==
    ASSUME NEW p, ParserInv(p), TakeByte(p)
    PROVE  ParserInv(parser)'
  <1>1. ParserInv(Byte(p, Stream[pos + 1]))
    BY ByteKeepsInv
  <1>2. parser' = p \/ parser' = Byte(p, Stream[pos + 1])
    BY DEF TakeByte
  <1> QED BY <1>1, <1>2

(* Every step of the server, the client and the network keeps the parsers  *)
(* within the invariant.                                                   *)
LEMMA ParsersNext == ParsersFine /\ [Next]_vars => ParsersFine'
  <1> SUFFICES ASSUME ParserInv(parser), ParserInv(cparser), [Next]_vars
               PROVE  ParserInv(parser)' /\ ParserInv(cparser)'
    BY DEF ParsersFine
  <1>1. CASE UNCHANGED vars
    BY <1>1 DEF vars, server, client
  <1>2. CASE Send
    BY <1>2 DEF Send, server, client
  <1>3. CASE Recv
    <2>1. ParserInv(Enter(parser)) /\ TakeByte(Enter(parser)) /\ cparser' = cparser
      BY <1>3, CallFine DEF Recv, client
    <2> QED BY <2>1, TakeByteFine
  <1>4. CASE More
    <2>1. TakeByte(parser) /\ cparser' = cparser
      BY <1>4 DEF More, client
    <2> QED BY <2>1, TakeByteFine
  <1>5. CASE EndRead
    <2>1. ParserInv(Finish(parser)) /\ ParserInv(NewParser("request"))
      BY CallFine, NewParserFine
    <2>2. parser' \in {Finish(parser), NewParser("request")} /\ cparser' = cparser
      BY <1>5 DEF EndRead, client
    <2> QED BY <2>1, <2>2
  <1>6. CASE Respond
    BY <1>6 DEF Respond, client
  <1>7. CASE ReadReply
    <2>1. PICK p : ParserInv(p) /\ cparser' = Byte(p, Reply[cpos + 1])
      BY <1>7, CallFine DEF ReadReply
    <2>2. parser' = parser
      BY <1>7 DEF ReadReply, server
    <2> QED BY <2>1, <2>2, ByteKeepsInv
  <1>8. CASE EndReply
    BY <1>8, NewParserFine DEF EndReply, server
  <1> QED BY <1>1, <1>2, <1>3, <1>4, <1>5, <1>6, <1>7, <1>8 DEF Next

(* No assertion of http_parser_execute() fails, in the server or in the    *)
(* client, whatever the messages are, well formed or not, and however the  *)
(* network cuts them into reads.                                           *)
THEOREM ParserAssertsHold == Spec => []AssertsHold
  <1>1. Init => ParsersFine
    BY NewParserFine DEF Init, ParsersFine
  <1>2. ParsersFine => AssertsHold
    BY DEF ParsersFine, ParserInv, ParserType, AssertsHold
  <1> QED BY <1>1, <1>2, ParsersNext, PTL DEF Spec
=============================================================================
