-------------------------------- MODULE Parsing --------------------------------
(***************************************************************************)
(* Request_parse() of bjoern/request.c at the grain of the callbacks that  *)
(* http_parser makes, with the environ that they build.  Request has the   *)
(* same callbacks as one step for each read(); here the stream is cut into *)
(* read()s anywhere, also inside of an escape, a name or a value, and a    *)
(* read() may hold the end of one message and the start of the next.       *)
(*                                                                         *)
(* What a message says is a record.  What is sent of it is a sequence of   *)
(* symbols: parts of a token, the delimiter ("stop") behind it, and a      *)
(* "complete" that has no bytes of its own.  http_parser, external, calls  *)
(* back with the part of a token that lies in the current read(), which is *)
(* empty when the read() starts with the delimiter.  Messages are answered *)
(* at once and whole, by an application that asks for keep-alive.          *)
(***************************************************************************)
EXTENDS Integers, Sequences, SequencesExt

CONSTANTS
  MessageKinds,  (* What the client may send.                               *)
  Parts,         (* What names, values, queries and bodies are made of.     *)
  N              (* Bound: messages on the connection.                      *)

(* path: "c" is a character, "esc" one that is sent as an escape, "bad" a  *)
(* percent sign with no two hexadecimal digits behind it.  garbled: a line *)
(* that is not HTTP ends the headers.  length: whether http_parser knows   *)
(* the length of the body.                                                 *)
Text == Seq(Parts)

ASSUME ParsingAssumption ==
  /\ N \in Nat \ {0}
  /\ MessageKinds \subseteq
       [minor : {0, 1}, path : Seq({"c", "esc", "bad"}) \ {<<>>}, query : Text,
        headers : Seq([name : Text \ {<<>>}, value : Text \ {<<>>}]),
        body : Text, length : BOOLEAN, garbled : BOOLEAN]

VARIABLES
  messages,         (* What the client says.                                *)
  stream,           (* What it sends.                                       *)
  from, limit,      (* The read(): the symbols from + 1 .. limit.           *)
  pos,              (* Symbols parsed.                                      *)
  dead,             (* http_parser has met an error.                        *)
  mode,             (* What the handler of the connection is doing.         *)
  headers,          (* What request->headers points to.                     *)
  environ,          (* The dict, while it does to one.                      *)
  field,            (* parser.field, <<>> when NULL.                        *)
  last_call_was_header_value, invalid_header,
  expect_continue, parse_finished, error_code, keep_alive,
  calls,            (* Ghost: the environs the application was called with. *)
  overran, cut      (* Ghosts: a read() went on behind a complete message,  *)
                    (* or was cut where bjoern is sensitive to it.          *)

clientVars == <<messages, stream>>
readVars == <<from, limit, overran, cut>>
parserVars == <<pos, dead>>
dictVars == <<headers, environ>>
fieldVars == <<field, last_call_was_header_value, invalid_header>>
flagVars == <<expect_continue, parse_finished, error_code, keep_alive>>
vars == <<clientVars, readVars, parserVars, mode, dictVars, fieldVars,
          flagVars, calls>>

HTTP_BAD_REQUEST == 400
HTTP_LENGTH_REQUIRED == 411
HTTP_EXPECTATION_FAILED == 417

PATH_INFO == <<"PATH_INFO">>
QUERY_STRING == <<"QUERY_STRING">>
SERVER_PROTOCOL == <<"SERVER_PROTOCOL">>
wsgi_input == <<"wsgi.input">>
HTTP_EXPECT == <<"HTTP_", "EXPECT">>
Expectation == <<"100-", "continue">>

-----------------------------------------------------------------------------
(* What is sent. *)

Mapped(s, Op(_)) == [i \in DOMAIN s |-> Op(s[i])]

(* An escape has a high and a low digit.                                   *)
Quote(c) ==
  IF c = "esc" THEN <<"%", "h", "l">> ELSE IF c = "bad" THEN <<"%", "c">> ELSE <<c>>

(* Ghosts: the message and the header that a symbol belongs to, and what   *)
(* number of the parts that the client sends of the token.                 *)
Symbol(token, part, m, h, n) ==
  [token |-> token, part |-> part, of |-> m, header |-> h, nth |-> n]

Numbered(token, parts, m, h) ==
  [i \in DOMAIN parts |-> Symbol(token, parts[i], m, h, i)]

Token(token, parts, m, h) ==
  Numbered(token, parts, m, h) \o <<Symbol("stop", token, m, h, Len(parts))>>

Quoted(c, m, i) == Mapped(Quote(c), LAMBDA p : Symbol("path", p, m, 0, i))

Field(h, m, i) == Token("name", h.name, m, i) \o Token("value", h.value, m, i)

Symbols(k, m) ==
  LET last == Len(k.headers)
  IN  <<Symbol("begin", "line", m, 0, 0)>>
      \o FlattenSeq([i \in DOMAIN k.path |-> Quoted(k.path[i], m, i)])
      \o <<Symbol("stop", "path", m, 0, Len(k.path))>>
      \o (IF k.query = <<>> THEN <<>> ELSE Token("query", k.query, m, 0))
      \o FlattenSeq([i \in DOMAIN k.headers |-> Field(k.headers[i], m, i)])
      \o <<Symbol(IF k.garbled THEN "garbage" ELSE "stop", "headers", m, last, 0)>>
      \o Numbered("body", k.body, m, last)
      \o <<Symbol("complete", "body", m, last, Len(k.body))>>

Init ==
  /\ messages \in [1..N -> MessageKinds]
  /\ stream = FlattenSeq([m \in 1..N |-> Symbols(messages[m], m)])
  /\ from = 0 /\ limit = 0 /\ overran = FALSE /\ cut = FALSE
  /\ pos = 0 /\ dead = FALSE
  /\ mode = "reading"
  /\ headers = "NULL" /\ environ = <<>>
  /\ field = <<>>
  /\ last_call_was_header_value = TRUE /\ invalid_header = FALSE
  /\ expect_continue = FALSE /\ parse_finished = FALSE /\ error_code = 0
  /\ keep_alive = FALSE
  /\ calls = <<>>

-----------------------------------------------------------------------------
(* http_parser. *)

(* The part of the token at hand that lies in this read().                 *)
PieceEnd ==
  CHOOSE e \in pos..limit :
    /\ \A i \in pos + 1..e : stream[i].token = stream[pos + 1].token
    /\ e = limit \/ stream[e + 1].token # stream[pos + 1].token

Piece(token) ==
  IF stream[pos + 1].token = "stop" THEN <<>>
  ELSE Mapped(SubSeq(stream, pos + 1, PieceEnd), LAMBDA s : s.part)

(* A callback for the token is due.                                        *)
Due(token) ==
  /\ mode = "parsing" /\ pos < limit
  /\ \/ stream[pos + 1].token = token
     \/ /\ stream[pos + 1].token = "stop" /\ stream[pos + 1].part = token
        /\ pos = from

(* Behind the token's delimiter, if that is in this read(), too.           *)
GoOn ==
  /\ pos' = IF PieceEnd < limit /\ stream[PieceEnd + 1].token = "stop"
            THEN PieceEnd + 1 ELSE PieceEnd
  /\ mode' = IF pos' = limit THEN "parsed" ELSE "parsing"
  /\ UNCHANGED dead

Current == messages[stream[pos + 1].of]

HeadersEnd ==
  /\ mode = "parsing" /\ pos < limit
  /\ stream[pos + 1].token = "stop" /\ stream[pos + 1].part = "headers"
  /\ GoOn
  /\ UNCHANGED <<clientVars, readVars, dictVars, fieldVars, flagVars, calls>>

(* The callback has returned 1: Request_parse stores 400, but that the     *)
(* bytes of a piece at the end of a read() do not count as parsed is not   *)
(* certain, and then nothing is noticed before the next read().            *)
Stop(code) ==
  /\ dead' = TRUE
  /\ mode' = "parsed"
  /\ pos' = limit
  /\ \/ error_code' = HTTP_BAD_REQUEST
     \/ stream[pos + 1].token # "stop" /\ PieceEnd = limit /\ error_code' = code

(* NULL is asked for its type, or has its references counted.              *)
Crash ==
  /\ mode' = "crashed"
  /\ UNCHANGED <<clientVars, readVars, parserVars, dictVars, fieldVars,
                 flagVars, calls>>

-----------------------------------------------------------------------------
(* The callbacks. *)

(* Mutant: a header that is there already is replaced.                     *)
Set_or_append_header_replaces(k, val) ==
  IF headers = "list" THEN UNCHANGED environ
  ELSE environ' = [j \in DOMAIN environ \cup {k} |-> IF j = k THEN val ELSE environ[j]]

(* PyDict_SetItem refuses a list, and nobody looks at what it returns.     *)
Set_or_append_header(k, val) ==
  IF headers = "list" THEN UNCHANGED environ
  ELSE environ' = [j \in DOMAIN environ \cup {k} |->
                     IF j # k THEN environ[j]
                     ELSE IF k \in DOMAIN environ THEN environ[k] \o val ELSE val]

on_message_begin ==
  /\ Due("begin")
  /\ headers' = "dict" /\ environ' = <<>>
  /\ GoOn
  /\ UNCHANGED <<clientVars, readVars, fieldVars, flagVars, calls>>

Escape(s, i) ==
  s[i] = "%" /\ i + 2 <= Len(s) /\ s[i + 1] = "h" /\ s[i + 2] = "l"

(* <<>> when there is a percent sign with nothing to decode.               *)
unquote_url_inplace(s) ==
  IF \E i \in DOMAIN s : s[i] = "%" /\ ~Escape(s, i) THEN <<>>
  ELSE FlattenSeq([i \in DOMAIN s |->
         IF \E d \in 1..2 : i - d \in DOMAIN s /\ s[i - d] = "%" THEN <<>>
         ELSE IF s[i] = "%" THEN <<"esc">> ELSE <<s[i]>>])

on_path ==
  /\ Due("path")
  /\ LET path == unquote_url_inplace(Piece("path"))
     IN  \/ /\ path = <<>>
            /\ Stop(error_code)
            /\ UNCHANGED <<dictVars, expect_continue, parse_finished, keep_alive>>
         \/ /\ path # <<>> /\ headers # "NULL"
            /\ Set_or_append_header(PATH_INFO, path)
            /\ GoOn
            /\ UNCHANGED <<headers, flagVars>>
  /\ UNCHANGED <<clientVars, readVars, fieldVars, calls>>

on_query_string ==
  /\ Due("query") /\ headers # "NULL"
  /\ Set_or_append_header(QUERY_STRING, Piece("query"))
  /\ GoOn
  /\ UNCHANGED <<clientVars, readVars, headers, fieldVars, flagVars, calls>>

Dashes(p) == IF p = "-" THEN "_" ELSE p

(* Mutant: whether a name is valid is asked of each piece of it.           *)
on_header_field_forgets ==
  /\ Due("name")
  /\ LET piece == Piece("name")
         name == IF last_call_was_header_value THEN <<"HTTP_">> ELSE field
     IN  /\ invalid_header' = Contains(piece, "_")
         /\ field' = IF invalid_header' THEN name ELSE name \o Mapped(piece, Dashes)
  /\ last_call_was_header_value' = FALSE
  /\ GoOn
  /\ UNCHANGED <<clientVars, readVars, dictVars, flagVars, calls>>

on_header_field ==
  /\ Due("name")
  /\ LET piece == Piece("name")
         name == IF last_call_was_header_value THEN <<"HTTP_">> ELSE field
     IN  /\ invalid_header' = \/ invalid_header /\ ~last_call_was_header_value
                              \/ Contains(piece, "_")
         /\ field' = IF invalid_header' THEN name ELSE name \o Mapped(piece, Dashes)
  /\ last_call_was_header_value' = FALSE
  /\ GoOn
  /\ UNCHANGED <<clientVars, readVars, dictVars, flagVars, calls>>

(* Mutant: HTTP/1.0 has expectations, too.                                 *)
Expect_any_version(piece) ==
  IF ~expect_continue /\ error_code = 0 /\ field = HTTP_EXPECT
  THEN IF IsPrefix(piece, Expectation)
       THEN expect_continue' = TRUE /\ UNCHANGED error_code
       ELSE error_code' = HTTP_EXPECTATION_FAILED /\ UNCHANGED expect_continue
  ELSE UNCHANGED <<expect_continue, error_code>>

(* Only the first piece counts that is not refused or waited upon yet, and *)
(* strncmp with its length takes any prefix.                               *)
Expect(piece) ==
  IF /\ ~expect_continue /\ error_code = 0
     /\ Current.minor = 1 /\ field = HTTP_EXPECT
  THEN IF IsPrefix(piece, Expectation)
       THEN expect_continue' = TRUE /\ UNCHANGED error_code
       ELSE error_code' = HTTP_EXPECTATION_FAILED /\ UNCHANGED expect_continue
  ELSE UNCHANGED <<expect_continue, error_code>>

on_header_value ==
  /\ Due("value")
  /\ LET piece == Piece("value")
     IN  \/ invalid_header /\ UNCHANGED <<environ, expect_continue, error_code>>
         \/ /\ ~invalid_header /\ headers # "NULL"
            /\ Set_or_append_header(field, piece)
            /\ Expect(piece)
  /\ last_call_was_header_value' = TRUE
  /\ GoOn
  /\ UNCHANGED <<clientVars, readVars, headers, field, invalid_header,
                 parse_finished, keep_alive, calls>>

(* Mutant: an expectation is pending when its body has come.               *)
on_body_still_expects ==
  /\ Due("body")
  /\ \/ /\ headers # "NULL" /\ wsgi_input \notin DOMAIN environ
        /\ ~Current.length
        /\ Stop(HTTP_LENGTH_REQUIRED)
        /\ UNCHANGED environ
     \/ /\ headers = "dict" /\ (wsgi_input \in DOMAIN environ \/ Current.length)
        /\ Set_or_append_header(wsgi_input, Piece("body"))
        /\ GoOn
        /\ UNCHANGED error_code
  /\ UNCHANGED <<clientVars, readVars, headers, fieldVars, expect_continue,
                 parse_finished, keep_alive, calls>>

on_body ==
  /\ Due("body")
  /\ expect_continue' = FALSE
  /\ \/ /\ headers # "NULL" /\ wsgi_input \notin DOMAIN environ
        /\ ~Current.length
        /\ Stop(HTTP_LENGTH_REQUIRED)
        /\ UNCHANGED environ
     \/ /\ headers = "dict" /\ (wsgi_input \in DOMAIN environ \/ Current.length)
        /\ Set_or_append_header(wsgi_input, Piece("body"))
        /\ GoOn
        /\ UNCHANGED error_code
  /\ UNCHANGED <<clientVars, readVars, headers, fieldVars, parse_finished,
                 keep_alive, calls>>

Renamed(k) ==
  IF k \in {<<"HTTP_", "CONTENT", "_", "LENGTH">>, <<"HTTP_", "CONTENT", "_", "TYPE">>}
  THEN Tail(k) ELSE k

(* Mutant: a message is complete with its body.                            *)
Complete_with_body == parse_finished' = (wsgi_input \in DOMAIN environ)

Complete == parse_finished' = TRUE

on_message_complete ==
  /\ Due("complete") /\ headers = "dict"
  /\ environ' =
       [k \in {Renamed(j) : j \in DOMAIN environ} \cup {SERVER_PROTOCOL, wsgi_input} |->
          IF k = SERVER_PROTOCOL THEN <<Current.minor>>
          ELSE IF \E j \in DOMAIN environ : Renamed(j) = k
               THEN environ[CHOOSE j \in DOMAIN environ : Renamed(j) = k]
               ELSE <<>>]
  /\ Complete
  /\ GoOn
  /\ UNCHANGED <<clientVars, readVars, headers, fieldVars, expect_continue,
                 error_code, keep_alive, calls>>

Garbage ==
  /\ Due("garbage") /\ Stop(HTTP_BAD_REQUEST)
  /\ UNCHANGED <<clientVars, readVars, dictVars, fieldVars, expect_continue,
                 parse_finished, keep_alive, calls>>

UsesDict ==
  \/ Due("path") /\ unquote_url_inplace(Piece("path")) # <<>>
  \/ Due("query") \/ Due("body") \/ Due("complete")
  \/ Due("value") /\ ~invalid_header

(* The BytesIO of the body is used or released though it was not stored.   *)
UsesBody == (Due("body") /\ Current.length) \/ Due("complete")

LosesDict ==
  /\ \/ headers = "NULL" /\ UsesDict
     \/ headers = "list" /\ UsesBody
  /\ Crash

-----------------------------------------------------------------------------
(* The handlers of the connection, and the application. *)

(* Where the client, or the network, may cut the stream so that it matters *)
(* to bjoern: in an escape, in front of the delimiter of the path, in the  *)
(* value of Expect.                                                        *)
Sensitive(p) ==
  /\ p < Len(stream)
  /\ \/ stream[p + 1].token = "path" /\ stream[p + 1].part \in {"h", "l"}
     \/ stream[p + 1].token = "stop" /\ stream[p + 1].part = "path"
     \/ \E i \in 1..p - 1 :
          /\ stream[i].token = "name" /\ stream[i].part = "EXPECT"
          /\ \A j \in i + 2..p + 1 : stream[j].token = "value"

ReadData(to) ==
  /\ mode = "reading"
  /\ to < Len(stream) => stream[to + 1].token # "complete"
  /\ from' = pos /\ limit' = to
  /\ overran' = (overran \/ \E i \in pos + 1..to - 1 : stream[i].token = "complete")
  /\ cut' = (cut \/ Sensitive(to))
  /\ mode' = IF dead THEN "parsed" ELSE "parsing"
  /\ error_code' = IF dead THEN HTTP_BAD_REQUEST ELSE error_code
  /\ UNCHANGED <<clientVars, parserVars, dictVars, fieldVars, expect_continue,
                 parse_finished, keep_alive, calls>>

(* What ev_io_on_write does behind the last byte: an expectation that is   *)
(* pending makes it read on with the Request as it is.                     *)
Resume ==
  /\ mode' = "reading"
  /\ expect_continue' = FALSE
  /\ UNCHANGED <<fieldVars, parse_finished, error_code>>

(* Mutant: the parser's part of the Request is forgotten.                  *)
Reset_forgets_parser ==
  /\ mode' = "reading"
  /\ headers' = "NULL" /\ environ' = <<>>
  /\ field' = <<>> /\ UNCHANGED <<last_call_was_header_value, invalid_header>>
  /\ expect_continue' = FALSE /\ parse_finished' = FALSE /\ error_code' = 0
  /\ keep_alive' = FALSE

(* Request_clean and Request_reset.                                        *)
Reset ==
  /\ mode' = "reading"
  /\ headers' = "NULL" /\ environ' = <<>>
  /\ field' = <<>> /\ last_call_was_header_value' = TRUE /\ invalid_header' = FALSE
  /\ expect_continue' = FALSE /\ parse_finished' = FALSE /\ error_code' = 0
  /\ keep_alive' = FALSE

(* 400, 411 or 417.  keep_alive is that of a reply before, if an           *)
(* expectation cut its end off.                                            *)
Refuse ==
  /\ mode = "parsed" /\ error_code # 0
  /\ \/ expect_continue /\ Resume /\ UNCHANGED <<dictVars, keep_alive>>
     \/ ~expect_continue /\ keep_alive /\ Reset
     \/ /\ ~expect_continue /\ ~keep_alive
        /\ mode' = "refused"
        /\ UNCHANGED <<dictVars, fieldVars, flagVars>>
  /\ UNCHANGED <<clientVars, readVars, parserVars, calls>>

(* The application is called with the environ, and answers.                *)
CallApplication ==
  /\ mode = "parsed" /\ error_code = 0 /\ parse_finished
  /\ headers = "dict"
  /\ calls' = Append(calls, environ)
  /\ \/ /\ expect_continue /\ Resume
        /\ headers' = "list" /\ environ' = <<>> /\ keep_alive' = TRUE
     \/ ~expect_continue /\ Reset
  /\ UNCHANGED <<clientVars, readVars, parserVars>>

(* It is called with the headers of its own response, and answered 500.    *)
CallWithList ==
  /\ mode = "parsed" /\ error_code = 0 /\ parse_finished
  /\ headers = "list"
  /\ \/ /\ expect_continue /\ Resume
        /\ headers' = "NULL" /\ UNCHANGED <<environ, keep_alive>>
     \/ ~expect_continue /\ Reset
  /\ UNCHANGED <<clientVars, readVars, parserVars, calls>>

CallLosesDict ==
  /\ mode = "parsed" /\ error_code = 0 /\ parse_finished
  /\ headers = "NULL"
  /\ Crash

Continue100 ==
  /\ mode = "parsed" /\ error_code = 0 /\ ~parse_finished
  /\ expect_continue
  /\ Resume
  /\ UNCHANGED <<clientVars, readVars, parserVars, dictVars, keep_alive, calls>>

WaitForMore ==
  /\ mode = "parsed" /\ error_code = 0 /\ ~parse_finished
  /\ ~expect_continue
  /\ mode' = "reading"
  /\ UNCHANGED <<clientVars, readVars, parserVars, dictVars, fieldVars,
                 flagVars, calls>>

Callback ==
  \/ on_message_begin \/ on_path \/ on_query_string
  \/ on_header_field \/ on_header_value
  \/ on_body \/ on_message_complete

ev_io_on_read ==
  \/ \E to \in pos + 1..Len(stream) : ReadData(to)
  \/ Callback \/ HeadersEnd \/ Garbage \/ LosesDict
  \/ Refuse \/ Continue100 \/ WaitForMore
  \/ CallApplication \/ CallWithList \/ CallLosesDict

Spec == Init /\ [][ev_io_on_read]_vars

(* The client sends all of what it began, and libev calls back.            *)
FairSpec == Spec /\ WF_vars(ev_io_on_read)

-----------------------------------------------------------------------------
(* What a message means, however it is sent. *)

Valid(h) == ~Contains(h.name, "_")
RawKey(h) == <<"HTTP_">> \o Mapped(h.name, Dashes)
Key(h) == Renamed(RawKey(h))

Environ(k) ==
  LET valid == {i \in DOMAIN k.headers : Valid(k.headers[i])}
      Values(key) ==
        FlattenSeq([i \in DOMAIN k.headers |->
          IF i \in valid /\ Key(k.headers[i]) = key THEN k.headers[i].value ELSE <<>>])
      query == IF k.query = <<>> THEN {} ELSE {QUERY_STRING}
  IN  [key \in {PATH_INFO, SERVER_PROTOCOL, wsgi_input} \cup query
               \cup {Key(k.headers[i]) : i \in valid} |->
         CASE key = PATH_INFO -> k.path
           [] key = SERVER_PROTOCOL -> <<k.minor>>
           [] key = wsgi_input -> k.body
           [] key = QUERY_STRING -> k.query
           [] OTHER -> Values(key)]

(* What bjoern serves.  For the value of Expect see UnmetIsRefused.        *)
Acceptable(k) ==
  /\ ~k.garbled /\ "bad" \notin ToSet(k.path)
  /\ k.body # <<>> => k.length
  /\ k.minor = 1 =>
       \A i \in DOMAIN k.headers :
         k.headers[i].name = <<"EXPECT">> => IsPrefix(k.headers[i].value, Expectation)

-----------------------------------------------------------------------------
(* Properties. *)

(* The type invariant: when the parser works, the Request is in a state    *)
(* that the callbacks expect, and a name is being put together only        *)
(* between a header's name and its value.                                  *)
TypeOK ==
  /\ messages \in [1..N -> MessageKinds]
  /\ from \in 0..limit /\ pos \in 0..limit /\ limit \in 0..Len(stream)
  /\ mode \in {"reading", "parsing", "parsed", "refused", "crashed"}
  /\ mode = "parsing" => pos < limit /\ ~dead
  /\ headers \in {"NULL", "dict", "list"} /\ (headers # "dict" => environ = <<>>)
  /\ dead \in BOOLEAN /\ overran \in BOOLEAN /\ cut \in BOOLEAN
  /\ last_call_was_header_value \in BOOLEAN /\ invalid_header \in BOOLEAN
  /\ expect_continue \in BOOLEAN /\ parse_finished \in BOOLEAN
  /\ keep_alive \in BOOLEAN
  /\ error_code \in {0, HTTP_BAD_REQUEST, HTTP_LENGTH_REQUIRED, HTTP_EXPECTATION_FAILED}
  /\ field \in Seq(Parts \cup {"HTTP_", "_"})
  /\ ~last_call_was_header_value => field # <<>> /\ field[1] = "HTTP_"

(* request.c:123, 130, 183, 243 and 285: the callbacks find the dict that  *)
(* on_message_begin made, and no NULL or list in its place, as long as no  *)
(* read() goes on behind a message.                                        *)
NeverLosesDict == ~overran => mode # "crashed"

(* server.c:244-249: the application is never called more often than       *)
(* messages have begun, wherever read()s end.  As long as none goes on     *)
(* behind a message (overran; of the messages that such a read() runs      *)
(* over, only the last is served), it has also been called for each of     *)
(* those before the one that bjoern reads, whether it was asked for 100    *)
(* Continue or not.                                                        *)
CalledInTurn ==
  /\ Len(calls) <= IF pos = 0 THEN 0 ELSE stream[pos].of
  /\ ~overran /\ ~dead /\ mode = "reading" /\ pos < Len(stream) =>
       Len(calls) = stream[pos + 1].of - 1

(* The n-th call of the application is for the n-th message, and its       *)
(* environ says what the message says, wherever the stream is cut: names,  *)
(* values, escapes and bodies are put together from their pieces, repeated *)
(* headers are concatenated, and names with an underscore ignored          *)
(* (request.c:155), as long as no read() goes on behind a message.         *)
EnvironExact ==
  ~overran => \A n \in DOMAIN calls : calls[n] = Environ(messages[n])

(* Even when it does: an environ holds nothing of two messages, nothing of *)
(* an ignored header, and nothing of a message served before.              *)
EnvironOfOne ==
  \A n \in DOMAIN calls : \E m \in n..N : \A k \in DOMAIN calls[n] :
    /\ Renamed(k) \in DOMAIN Environ(messages[m])
    /\ IsPrefix(calls[n][k], Environ(messages[m])[Renamed(k)])

(* Whether a message is served or refused depends on the message alone,    *)
(* unless a read() ends in the middle of an escape, in front of the path's *)
(* delimiter, or in the value of Expect (cut), or goes on behind a message *)
(* (overran).  What bjoern accepts is what the code accepts: of Expect any *)
(* beginning of 100-continue, against its comment (UnmetIsRefused).        *)
VerdictOfMessage ==
  ~overran /\ ~cut =>
    /\ \A n \in DOMAIN calls : Acceptable(messages[n])
    /\ mode = "refused" => ~Acceptable(messages[Len(calls) + 1])

(* request.c:202-205, "`417 Expectation Failed` if the header contains     *)
(* anything other than "100-continue"": no message that says something     *)
(* else is served, even if it comes in one read().                         *)
UnmetIsRefused ==
  ~overran /\ ~cut =>
    \A n \in DOMAIN calls : messages[n].minor = 1 =>
      \A i \in DOMAIN messages[n].headers :
        messages[n].headers[i].name = <<"EXPECT">> =>
          messages[n].headers[i].value = Expectation

(* If no read() goes on behind a message, each one is served, or it is     *)
(* refused and the last, in however many read()s they come; the process    *)
(* does not crash instead.                                                 *)
EveryMessageHandled == <>[](overran \/ error_code # 0 \/ Len(calls) = N)

=============================================================================
