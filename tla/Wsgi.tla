-------------------------------- MODULE Wsgi ----------------------------------
(***************************************************************************)
(* bjoern/wsgi.c: the call of the WSGI application and what its answer     *)
(* makes of the Request.  An application is the record of what it does     *)
(* during one call; the body that it returns is a number of nonempty       *)
(* pieces (empty ones are skipped by wsgi_iterable_get_next_chunk).        *)
(***************************************************************************)
EXTENDS Request

CONSTANT Apps      (* What an application may do when it is called.         *)

(* ret: it raises, or returns a byte string (or a list of exactly one), a  *)
(* wsgi.file_wrapper with a descriptor, or any other iterable.  start: it  *)
(* calls start_response (an iterator, while its first item is asked for).  *)
(* length: with a Content-Length, which is true.  nobody: with status 204  *)
(* or 304.  fails: the iterator raises where it should end, the descriptor *)
(* cannot be lseek()ed or sendfile() from it fails, sooner or later.       *)
AppKinds ==
  [ret : {"raise", "bytes", "iter", "file"}, start : BOOLEAN,
   length : BOOLEAN, nobody : BOOLEAN, pieces : Nat, fails : BOOLEAN]

ASSUME AppsAssumption ==
  /\ Apps \subseteq AppKinds
  /\ \A a \in Apps : /\ a.nobody => a.pieces = 0
                     /\ a.ret = "bytes" => a.pieces <= 1

VARIABLES
  app,      (* The answer of the application to the request being served.  *)
  more,     (* Pieces left in the iterator, or in the file.                 *)
  served    (* Ghost: the message that the application was called for last. *)

wsgiVars == <<app, more, served>>

NoApp == [ret |-> "raise", start |-> FALSE, length |-> FALSE,
          nobody |-> FALSE, pieces |-> 0, fails |-> FALSE]

-----------------------------------------------------------------------------
(* start_response, called once at most.  `st' is the state of the request. *)

CalledAgain(a) == a.start /\ "start_response_called" \in state

start_response(a, st) ==
  IF ~a.start THEN st
  ELSE IF CalledAgain(a) THEN st \cup {"response_length_unknown"}
  ELSE (st \ {"response_length_unknown"})
       \cup {"start_response_called"}
       \cup {f \in {"response_length_unknown"} : ~a.length}

-----------------------------------------------------------------------------
(* The returned object. *)

Sendfile(a, st) ==
  a.ret = "file" /\ "response_length_unknown" \notin start_response(a, st)

(* Generic iterables are asked for their first piece at once.              *)
FirstPieces(a, st) ==
  CASE a.ret = "bytes" -> a.pieces
    [] Sendfile(a, st) -> 0
    [] OTHER -> IF a.pieces = 0 THEN 0 ELSE 1

(* Mutant: the first piece, sent with the headers, comes again.            *)
Take_rewinds(a, st) ==
  /\ iterable' = IF a.ret = "bytes" THEN "none" ELSE a.ret
  /\ unclosed' = unclosed + (IF a.ret = "bytes" THEN 0 ELSE 1)
  /\ more' = a.pieces

(* A file that is read through its Python object is read ahead of what     *)
(* was asked for, by an unknown amount.                                    *)
Take(a, st) ==
  /\ iterable' = IF a.ret = "bytes" THEN "none" ELSE a.ret
  /\ unclosed' = unclosed + (IF a.ret = "bytes" THEN 0 ELSE 1)
  /\ LET rest == a.pieces - FirstPieces(a, st)
     IN  IF a.ret = "file" /\ ~Sendfile(a, st) THEN more' \in 0..rest
         ELSE more' = rest

-----------------------------------------------------------------------------
(* Mutant: chunked responses for HTTP/1.0 clients as well.                 *)
ChunkedTransfer_ignores_version(q, st) ==
  q.keep /\ "response_length_unknown" \in st

(* Only a client of HTTP/1.1 understands chunks.                           *)
ChunkedTransfer(q, st) ==
  q.keep /\ "response_length_unknown" \in st /\ q.minor = 1

(* Mutant: whether the client asked to go on is not looked at.             *)
ShouldKeepAlive_unasked(q, st) == "response_length_unknown" \in st => q.minor = 1

(* Mutant: Connection: keep-alive of HTTP/1.0 is not honoured.             *)
ShouldKeepAlive_only_1_1(q, st) == q.keep /\ q.minor = 1

ShouldKeepAlive(q, st) ==
  q.keep /\ ("response_length_unknown" \in st => q.minor = 1)

(* The bits after a successful call; q is the message in the parser.       *)
Committed(a, st, q) ==
  LET known == start_response(a, st) \
                 {f \in {"response_length_unknown"} : a.nobody}
  IN  (known \ {"keep_alive"})
      \cup {"wsgi_call_done"}
      \cup {f \in {"keep_alive"} : ShouldKeepAlive(q, known)}
      \cup {f \in {"chunked_response"} : ChunkedTransfer(q, known)}

(* The response headers with the first piece behind them, when st are the  *)
(* bits after the call.                                                    *)
wsgi_getheaders(a, st, pieces) ==
  [part |-> "head",
   framing |-> IF {"keep_alive", "chunked_response"} \subseteq st
               THEN "chunked"
               ELSE IF a.length \/ a.nobody THEN "length" ELSE "close",
   pieces |-> pieces,
   cruft |-> "chunked_response" \in st]

(* The application raised, and nothing was returned.                       *)
Raises(a) == a.ret = "raise" \/ (a.ret # "iter" /\ CalledAgain(a))

(* It raised when it was asked for the first piece.                        *)
FirstRaises(a) ==
  a.ret = "iter" /\ (CalledAgain(a) \/ (a.pieces = 0 /\ a.fails))

(* wsgi_call_application returns true.                                     *)
Responds(a, st, q) ==
  /\ a.start /\ ~Raises(a) /\ ~FirstRaises(a)
  /\ Take(a, st)
  /\ iterator' = IF a.ret = "iter" \/ (a.ret = "file" /\ ~Sendfile(a, st))
                 THEN "live" ELSE "none"
  /\ state' = Committed(a, st, q)
  /\ headers' = TRUE
  /\ current_chunk' =
       wsgi_getheaders(a, Committed(a, st, q), FirstPieces(a, st))
  /\ current_chunk_p' = 0

(* It returns false, for which ev_io_on_read answers 500.                  *)
Refuses(a, st) ==
  /\ ~a.start \/ Raises(a) \/ FirstRaises(a)
  /\ IF Raises(a) THEN UNCHANGED <<iterable, unclosed, more>>
     ELSE Take(a, st)
  /\ iterator' = "none"
  /\ state' = start_response(a, st)
  /\ headers' = (a.start /\ ~CalledAgain(a))
  /\ current_chunk' = TextAt("error", current_chunk_p)
  /\ UNCHANGED current_chunk_p

wsgi_call_application(a, st, m) ==
  /\ app' = a
  /\ served' = m
  /\ Responds(a, st, reqs[m]) \/ Refuses(a, st)

-----------------------------------------------------------------------------
WsgiTypeOK ==
  /\ app \in AppKinds
  /\ more \in Nat
  /\ served \in 0..MaxRequests

=============================================================================
