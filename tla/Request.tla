------------------------------- MODULE Request --------------------------------
(***************************************************************************)
(* The Request structure of bjoern/request.h and the functions of          *)
(* bjoern/request.c that create, parse into, clean and reset it.           *)
(*                                                                         *)
(* A connection owns one Request for all the messages that it carries.     *)
(* What the client sends is a stream in which a message has four stages:   *)
(* request line, headers, a first part of the body, everything.  Stage s   *)
(* of message m sits at position At(m, s), so a read() that returns some   *)
(* bytes moves `parsed' from one position to a later one, and the          *)
(* callbacks http_parser makes on the way are those of the positions       *)
(* passed.  The parser itself is vendored and external.                    *)
(***************************************************************************)
EXTENDS Integers

CONSTANTS
  MaxRequests,   (* Bound: messages the client may send on the connection. *)
  Requests       (* The kinds of request that it may send.                 *)

(* minor: HTTP/1.<minor>.  keep: http_should_keep_alive() of the message.  *)
(* expect: what its Expect header asks, "other" is anything bjoern refuses.*)
(* body: whether it has one.  bad: the stage at which it stops being HTTP  *)
(* (bytes http_parser rejects, or a callback that returns 1), 0 for none.  *)
RequestKinds ==
  [minor : {0, 1}, keep : BOOLEAN, expect : {"none", "continue", "other"},
   body : BOOLEAN, bad : 0..3]

ASSUME RequestsAssumption ==
  /\ MaxRequests \in Nat \ {0}
  /\ Requests \subseteq RequestKinds

VARIABLES
  ev_watcher,       (* The callback ev_watcher is started with.             *)
  state,            (* The bits that are set in request->state.             *)
  error_code,       (* request->state.error_code.                           *)
  field,            (* Whether parser.field holds a string.                 *)
  headers,          (* Whether request->headers holds a dict or a list.     *)
  current_chunk,    (* The buffer being sent.                               *)
  current_chunk_p,  (* Offset in the buffer, or in the file.                *)
  iterable,         (* What the WSGI application returned.                  *)
  iterator,         (* The iterator over it.                                *)
  unclosed,         (* Ghost: iterables returned and not yet close()d.      *)
  reqs,             (* The messages of this client, in order.               *)
  parsed,           (* Position up to which the stream has been parsed.     *)
  dead              (* Whether http_parser has met an error.                *)

bitFields == <<state, error_code>>
chunkVars == <<current_chunk, current_chunk_p>>
bodyVars == <<iterable, iterator, unclosed>>
parserVars == <<reqs, parsed, dead, field>>

Flags == {"parse_finished", "start_response_called", "wsgi_call_done",
          "keep_alive", "response_length_unknown", "chunked_response",
          "expect_continue"}

(* error_code; HTTP_SERVER_ERROR is 4 and never stored (the field has two  *)
(* bits).                                                                  *)
NO_ERROR == 0
HTTP_BAD_REQUEST == 1
HTTP_EXPECTATION_FAILED == 3

-----------------------------------------------------------------------------
(* Buffers.  "none" is NULL; "freed" is a pointer to a released object;    *)
(* "torn" is a text of which sending starts behind its first byte.         *)
(* framing: how the headers in the buffer delimit the body that follows.   *)
(* pieces: parts of the body carried.  cruft: wrapped as an HTTP chunk.    *)
Parts == {"none", "freed", "torn", "continue", "error", "head", "body", "end"}
Framings == {"none", "length", "chunked", "close"}
Buffers ==
  {b \in [part : Parts, framing : Framings, pieces : Nat, cruft : BOOLEAN] :
     b.part = "head" => b.framing # "none"}

Text(part) ==
  [part |-> part, framing |-> "none", pieces |-> 0, cruft |-> FALSE]

(* A text stored in current_chunk without a store to current_chunk_p.      *)
TextAt(part, p) == IF p = 0 THEN Text(part) ELSE Text("torn")

-----------------------------------------------------------------------------
(* Life of the structure. *)

Request_new ==
  /\ state = {"response_length_unknown"}
  /\ error_code = NO_ERROR
  /\ field = FALSE
  /\ headers = FALSE
  /\ current_chunk = Text("none")
  /\ current_chunk_p = 0
  /\ iterable = "none"
  /\ iterator = "none"
  /\ unclosed = 0
  /\ parsed = 0
  /\ dead = FALSE

(* Mutant: the bits of the previous exchange survive.                      *)
Request_reset_keeps_bits ==
  /\ state' = state
  /\ error_code' = NO_ERROR
  /\ field' = FALSE
  /\ headers' = FALSE
  /\ current_chunk' = Text("none")
  /\ current_chunk_p' = 0
  /\ iterable' = "none"
  /\ iterator' = "none"

(* Mutant: parser.field is left behind for the next message.               *)
Request_reset_keeps_field ==
  /\ state' = {"response_length_unknown"}
  /\ error_code' = NO_ERROR
  /\ field' = field
  /\ headers' = FALSE
  /\ current_chunk' = Text("none")
  /\ current_chunk_p' = 0
  /\ iterable' = "none"
  /\ iterator' = "none"

Request_reset ==
  /\ state' = {"response_length_unknown"}
  /\ error_code' = NO_ERROR
  /\ field' = FALSE
  /\ headers' = FALSE
  /\ current_chunk' = Text("none")
  /\ current_chunk_p' = 0
  /\ iterable' = "none"
  /\ iterator' = "none"

(* Mutant: the close() method of the iterable is not called.               *)
Request_clean_forgets_close == unclosed' = unclosed

(* close() of the iterable is called if it has one, whatever it raises is  *)
(* printed, and the references are dropped.                                *)
Request_clean == unclosed' = unclosed - (IF iterable = "none" THEN 0 ELSE 1)

(* Mutant: the structure is freed without being cleaned.                   *)
Request_free_unclean ==
  /\ unclosed' = unclosed
  /\ iterable' = "none"
  /\ iterator' = "none"

(* The structure is gone after this; current_chunk is not looked at.       *)
Request_free ==
  /\ Request_clean
  /\ iterable' = "none"
  /\ iterator' = "none"

-----------------------------------------------------------------------------
(* Parsing.  A definition with an argument `to' is about a read() that     *)
(* ends at that position.                                                  *)

Messages == 1..MaxRequests
At(m, s) == 4 * m - 4 + s
Passes(m, s, to) == parsed < At(m, s) /\ At(m, s) <= to

Malformed(to) ==
  {m \in Messages : reqs[m].bad # 0 /\ Passes(m, reqs[m].bad, to)}

(* http_parser gets to stage s of message m.                               *)
Runs(m, s, to) ==
  /\ ~dead
  /\ Passes(m, s, to)
  /\ \A b \in Malformed(to) : At(m, s) < At(b, reqs[b].bad)

on_body(m, to) == Runs(m, 3, to) /\ reqs[m].body
on_message_complete(m, to) == Runs(m, 4, to)

(* The Expect header, of which HTTP/1.0 knows nothing.                     *)
on_header_value(m, value, to) ==
  Runs(m, 2, to) /\ reqs[m].minor = 1 /\ reqs[m].expect = value

(* Mutant: the body does not take the expectation back.                    *)
ExpectContinue_despite_body(to) ==
  \/ "expect_continue" \in state
  \/ /\ error_code = NO_ERROR
     /\ \E m \in Messages : on_header_value(m, "continue", to)

ExpectContinue(to) ==
  \/ /\ "expect_continue" \in state
     /\ \A b \in Messages : ~on_body(b, to)
  \/ /\ error_code = NO_ERROR
     /\ \E m \in Messages :
          /\ on_header_value(m, "continue", to)
          /\ \A b \in Messages : on_body(b, to) => b < m

(* Mutant: a message is complete when its headers are.                     *)
Request_parse_no_body(to) ==
  (state \ {"expect_continue"})
  \cup {f \in {"expect_continue"} : ExpectContinue(to)}
  \cup {f \in {"parse_finished"} : \E m \in Messages : Runs(m, 2, to)}

(* request->state after Request_parse.                                     *)
Request_parse(to) ==
  (state \ {"expect_continue"})
  \cup {f \in {"expect_continue"} : ExpectContinue(to)}
  \cup {f \in {"parse_finished"} :
          \E m \in Messages : on_message_complete(m, to)}

(* request->state.error_code after it: a parse that stops short overrides  *)
(* what the callbacks stored.                                              *)
ErrorCode(to) ==
  IF dead \/ Malformed(to) # {} THEN HTTP_BAD_REQUEST
  ELSE IF /\ error_code = NO_ERROR
          /\ "expect_continue" \notin state
          /\ \E m \in Messages : on_header_value(m, "other", to)
       THEN HTTP_EXPECTATION_FAILED
       ELSE error_code

(* request->headers after it: a dict from on_message_begin on.             *)
Headers(to) == headers \/ \E m \in Messages : Runs(m, 1, to)

(* A callback of a message that began in an earlier read() and whose dict  *)
(* is gone hands NULL to PyDict_GetItem: for a header, a part of the body, *)
(* or at the end.                                                          *)
LosesHeaders(to) ==
  /\ ~headers
  /\ \E m \in Messages :
       /\ ~Runs(m, 1, to)
       /\ Runs(m, 2, to) \/ on_body(m, to) \/ on_message_complete(m, to)

(* parser.field is a string from the first header's name on.               *)
on_header_field(to) == field' = (field \/ \E m \in Messages : Runs(m, 2, to))

(* What http_parser keeps.                                                 *)
Parse(to) ==
  /\ parsed' = to
  /\ dead' = (dead \/ Malformed(to) # {})
  /\ on_header_field(to)
  /\ UNCHANGED reqs

-----------------------------------------------------------------------------
RequestTypeOK ==
  /\ ev_watcher \in {"read", "write", "closed", "crashed"}
  /\ state \subseteq Flags
  /\ error_code \in {NO_ERROR, HTTP_BAD_REQUEST, HTTP_EXPECTATION_FAILED}
  /\ field \in BOOLEAN /\ headers \in BOOLEAN /\ dead \in BOOLEAN
  /\ current_chunk \in Buffers
  /\ current_chunk_p \in Int
  /\ iterable \in {"none", "iter", "file"}
  /\ iterator \in {"none", "live"}
  /\ unclosed \in Int
  /\ reqs \in [Messages -> RequestKinds]
  /\ parsed \in 0..4 * MaxRequests

=============================================================================
