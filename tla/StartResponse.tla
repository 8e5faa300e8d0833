----------------------------- MODULE StartResponse -----------------------------
(***************************************************************************)
(* start_response() of bjoern/wsgi.c: what any number of calls of it, with *)
(* any arguments and at any time, make of the Request, and the response    *)
(* that wsgi_call_application() takes from there.                          *)
(*                                                                         *)
(* The callable points to the Request, which is that of the connection, and *)
(* does not own it.  An application may call it while it is called itself, *)
(* while its first item or a later one is asked for and while its close()  *)
(* runs; one that keeps it may also do so when the Request has been reset  *)
(* for the next message, or freed.  Whether the application catches what   *)
(* start_response raises is its own choice.                                *)
(***************************************************************************)
EXTENDS Integers, Sequences

CONSTANTS
  Args,          (* The arguments that an application may pass.             *)
  Kept,          (* Applications keep start_response for later.             *)
  MaxExchanges,  (* Bound: messages on the connection.                      *)
  MaxCalls       (* Bound: calls of start_response.                         *)

(* arity: two or three arguments.  exc: exc_info is absent (or None), not  *)
(* a 3-tuple, or one.  status: too short, a text, 204 or 304, or no string *)
(* of latin-1.  headers: not a list of pairs of such strings; with a       *)
(* Content-Length; with another name that is a prefix of it; without.      *)
ArgKinds ==
  [arity : BOOLEAN, exc : {"none", "bad", "tuple"},
   status : {"short", "text", "nobody", "bad"},
   headers : {"bad", "length", "prefix", "plain"}]

ASSUME StartResponseAssumption ==
  /\ Args \subseteq ArgKinds
  /\ Kept \in BOOLEAN
  /\ MaxExchanges \in Nat /\ MaxCalls \in Nat

VARIABLES
  phase,          (* Where in the exchange the connection is.               *)
  exchange,       (* Calls of the application.                              *)
  status,         (* request->status: the call that stored it, 0 for NULL.  *)
  headers,        (* request->headers, likewise; -1 for the request's dict. *)
  start_response_called, wsgi_call_done, response_length_unknown,
  alive,          (* Status strings and header lists that are not released. *)
  response,       (* What is sent: the call it stems from, 0 for an error.  *)
  log             (* Ghost: the calls of start_response.                    *)

flags == <<start_response_called, wsgi_call_done, response_length_unknown>>
stored == <<status, headers, alive>>
vars == <<phase, exchange, stored, flags, response, log>>

DICT == -1
Phases == {"idle", "reading", "call", "first", "sending", "item", "close",
           "freed", "crashed"}
Running == {"call", "first", "item", "close"}

Nothing == [call |-> 0, known |-> FALSE]

Init ==
  /\ phase = "idle"
  /\ exchange = 0
  /\ status = 0 /\ headers = 0 /\ alive = {}
  /\ start_response_called = FALSE /\ wsgi_call_done = FALSE
  /\ response_length_unknown = TRUE
  /\ response = Nothing
  /\ log = <<>>

-----------------------------------------------------------------------------
(* start_response.  Status and headers that are there are thrown away      *)
(* before the arguments are looked at, if one call has succeeded.          *)

Status(n) == <<"status", n>>
Headers(n) == <<"headers", n>>

(* Mutant: exc_info is only asked for, not whether the headers were sent.  *)
Outcome_never_late(a) ==
  IF ~a.arity THEN "arguments"
  ELSE IF a.exc = "bad" THEN "exc_info"
  ELSE IF a.exc = "none" /\ start_response_called THEN "called twice"
  ELSE IF a.status \in {"bad", "short"} THEN "status"
  ELSE IF a.headers = "bad" THEN "headers"
  ELSE "nothing"

(* What the call raises, in the order of the checks.                   *)
Outcome(a) ==
  IF ~a.arity THEN "arguments"
  ELSE IF a.exc = "bad" THEN "exc_info"
  ELSE IF a.exc = "tuple" /\ wsgi_call_done THEN "too late"
  ELSE IF a.exc = "none" /\ start_response_called THEN "called twice"
  ELSE IF a.status \in {"bad", "short"} THEN "status"
  ELSE IF a.headers = "bad" THEN "headers"
  ELSE "nothing"

(* Mutant: only a call that succeeds throws them away.                     *)
Clears_on_success(out) == start_response_called /\ out = "nothing"

Clears(out) == start_response_called

Store(n, out) ==
  /\ status' = IF out \in {"nothing", "headers"} THEN n
               ELSE IF out = "status" \/ Clears(out) THEN 0 ELSE status
  /\ headers' = IF out = "nothing" THEN n
                ELSE IF out = "headers" \/ Clears(out) THEN 0 ELSE headers
  /\ alive' = (alive \ (IF Clears(out) THEN {Status(status), Headers(headers)} ELSE {}))
              \cup (IF out \in {"nothing", "headers"} THEN {Status(n)} ELSE {})
              \cup (IF out = "nothing" THEN {Headers(n)} ELSE {})

(* Any prefix of Content-Length counts as one.                             *)
FoundContentLength(a) == a.headers \in {"length", "prefix"}

(* Mutant: nothing resets what an earlier call said of the length.         *)
Mark_keeps_length(a, out) ==
  /\ start_response_called' = (start_response_called \/ out = "nothing")
  /\ response_length_unknown' =
       (response_length_unknown /\ ~(out = "nothing" /\ FoundContentLength(a)))

Mark(a, out) ==
  /\ start_response_called' = (start_response_called \/ out = "nothing")
  /\ response_length_unknown' =
       IF out = "nothing" THEN ~FoundContentLength(a)
       ELSE start_response_called \/ response_length_unknown

(* A call of the object that was made for exchange o.                      *)
start_response(a, o) ==
  /\ Len(log) < MaxCalls
  /\ IF phase \in Running THEN o = exchange \/ Kept
     ELSE Kept /\ phase \notin {"freed", "crashed"}
  /\ LET out == Outcome(a)
     IN  /\ Store(Len(log) + 1, out)
         /\ Mark(a, out)
         /\ log' = Append(log, [args |-> a, raised |-> out, at |-> exchange,
                                kept |-> phase \notin Running \/ o # exchange])
  /\ UNCHANGED <<phase, exchange, wsgi_call_done, response>>

(* The object points to a Request that has been freed.                     *)
DanglingCall ==
  /\ Kept /\ phase = "freed" /\ Len(log) < MaxCalls
  /\ phase' = "crashed"
  /\ UNCHANGED <<exchange, stored, flags, response, log>>

-----------------------------------------------------------------------------
(* The exchange. *)

on_message_begin ==
  /\ phase = "idle"
  /\ phase' = "reading"
  /\ headers' = DICT
  /\ UNCHANGED <<exchange, status, alive, flags, response, log>>

(* The callbacks meet what start_response has put in the dict's place.     *)
(* NULL ends the process at once, a list when the message is complete.     *)
LosesDict ==
  /\ phase = "reading" /\ headers # DICT
  /\ phase' = "crashed"
  /\ UNCHANGED <<exchange, stored, flags, response, log>>

Call ==
  /\ phase = "reading" /\ headers = DICT
  /\ exchange < MaxExchanges
  /\ exchange' = exchange + 1
  /\ phase' = "call"
  /\ headers' = 0
  /\ UNCHANGED <<status, alive, flags, response, log>>

(* An iterable was returned, and is asked for its first item.              *)
FirstItem ==
  /\ phase = "call"
  /\ phase' = "first"
  /\ UNCHANGED <<exchange, stored, flags, response, log>>

Nobody(a) == a.status = "nobody"

Commit ==
  /\ phase \in {"call", "first"} /\ headers # 0
  /\ response' = [call |-> headers,
                  known |-> Nobody(log[status].args) \/ ~response_length_unknown]
  /\ response_length_unknown' = ~response'.known
  /\ wsgi_call_done' = TRUE
  /\ phase' = "sending"
  /\ UNCHANGED <<exchange, stored, start_response_called, log>>

(* The application raises, now or for its first item, or has no headers.   *)
Refuse ==
  /\ phase \in {"call", "first"}
  /\ phase' = "sending"
  /\ response' = Nothing
  /\ UNCHANGED <<exchange, stored, flags, log>>

NextItem ==
  /\ \/ phase = "sending" /\ wsgi_call_done /\ phase' = "item"
     \/ phase = "item" /\ phase' = "sending"
  /\ UNCHANGED <<exchange, stored, flags, response, log>>

(* Request_clean calls close() before anything else.                       *)
Close ==
  /\ phase = "sending"
  /\ phase' = "close"
  /\ UNCHANGED <<exchange, stored, flags, response, log>>

(* Mutant: the status is forgotten.                                        *)
Request_clean_headers == alive' = alive \ {Headers(headers)}

Request_clean == alive' = alive \ {Headers(headers), Status(status)}

KeepAlive ==
  /\ phase = "close"
  /\ Request_clean
  /\ phase' = "idle"
  /\ status' = 0 /\ headers' = 0
  /\ start_response_called' = FALSE /\ wsgi_call_done' = FALSE
  /\ response_length_unknown' = TRUE
  /\ UNCHANGED <<exchange, response, log>>

(* Before the application is called, the client may leave or go wrong.     *)
Free ==
  /\ phase \in {"idle", "reading", "close"}
  /\ Request_clean
  /\ phase' = "freed"
  /\ status' = 0 /\ headers' = 0
  /\ UNCHANGED <<exchange, flags, response, log>>

Next ==
  \/ \E a \in Args, o \in 1..exchange : start_response(a, o)
  \/ DanglingCall
  \/ on_message_begin \/ LosesDict
  \/ Call \/ FirstItem \/ Commit \/ Refuse \/ NextItem \/ Close
  \/ KeepAlive \/ Free

Spec == Init /\ [][Next]_vars

-----------------------------------------------------------------------------
(* Properties. *)

(* The type invariant, with what the bits say of the pointers: headers are *)
(* those of a call that succeeded, and the status is of the same call, so  *)
(* that wsgi_getheaders never meets one without the other.                 *)
TypeOK ==
  /\ phase \in Phases
  /\ exchange \in 0..MaxExchanges
  /\ start_response_called \in BOOLEAN /\ wsgi_call_done \in BOOLEAN
  /\ response_length_unknown \in BOOLEAN
  /\ status \in 0..Len(log) /\ headers \in {DICT} \cup 0..Len(log)
  /\ headers > 0 => /\ start_response_called /\ status = headers
                    /\ log[headers].raised = "nothing"
  /\ wsgi_call_done => start_response_called
  /\ response.call \in 0..Len(log) /\ response.known \in BOOLEAN

(* A response has the status and the headers of one call, made in the same *)
(* exchange: the last one that was made, which did not fail.  Its body is  *)
(* delimited by what that call said of its length.                         *)
ResponseOfLastCall ==
  [][wsgi_call_done' /\ ~wsgi_call_done =>
       LET n == response'.call
           a == log[n].args
       IN  /\ n = Len(log) /\ log[n].raised = "nothing" /\ log[n].at = exchange
           /\ response'.known <=> a.headers \in {"length", "prefix"} \/ a.status = "nobody"]_vars

(* wsgi.c:358: when the headers have been sent, every call raises, and a   *)
(* call with exc_info raises the exception it was given.                   *)
LateCallsRaise ==
  [][wsgi_call_done /\ log' # log =>
       LET c == log'[Len(log')]
       IN  /\ c.raised # "nothing"
           /\ c.args.arity /\ c.args.exc = "tuple" => c.raised = "too late"]_vars

(* Each status and each list of headers that a call has stored is released *)
(* once, when a later call, Request_clean or Request_free lets go of it.   *)
(* Only the status of a call that fails over its headers may be lost, and  *)
(* what is stored by an object that was kept too long.                     *)
References ==
  (\A n \in DOMAIN log : ~log[n].kept) =>
    \A n \in DOMAIN log :
      /\ status = n => Status(n) \in alive
      /\ headers = n => Headers(n) \in alive
      /\ Headers(n) \in alive => headers = n
      /\ Status(n) \in alive => status = n \/ log[n].raised = "headers"

(* The inductive invariant behind them: headers are always those of the    *)
(* last call, made in this exchange, and the length is marked as it said;  *)
(* a status without headers is that of a call that failed over its         *)
(* headers; nothing is alive that no call has stored; and a message finds  *)
(* no headers in the place of its dict.                                    *)
Calls ==
  [args : Args, at : Nat, kept : BOOLEAN,
   raised : {"arguments", "exc_info", "too late", "called twice", "status",
             "headers", "nothing"}]

Stored ==
  /\ log \in Seq(Calls)
  /\ phase \in {"call", "first"} => headers # DICT
  /\ headers > 0 =>
       /\ headers = Len(log) /\ log[headers].at = exchange
       /\ wsgi_call_done \/
            (response_length_unknown <=> ~FoundContentLength(log[headers].args))
  /\ ~start_response_called /\ status > 0 => log[status].raised = "headers"
  /\ alive \subseteq {Status(n) : n \in DOMAIN log} \cup {Headers(n) : n \in DOMAIN log}
  /\ phase = "idle" /\ (\A n \in DOMAIN log : ~log[n].kept) => headers = 0

=============================================================================
