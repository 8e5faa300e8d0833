------------------------- MODULE StartResponse_proofs -------------------------
(***************************************************************************)
(* Theorems about StartResponse, for any arguments, and any number of      *)
(* exchanges and calls: the inductive invariant Stored, and what follows   *)
(* from it for the response, for late calls and for the references.        *)
(***************************************************************************)
EXTENDS StartResponse, TLAPS

(* What the fields may hold, one by one.                                   *)
LEMMA Fields ==
  ASSUME TypeOK, Stored, StartResponseAssumption
  PROVE  /\ exchange \in Nat
         /\ start_response_called \in BOOLEAN /\ wsgi_call_done \in BOOLEAN
         /\ response_length_unknown \in BOOLEAN
         /\ log \in Seq(Calls) /\ Len(log) \in Nat /\ DOMAIN log = 1..Len(log)
         /\ status \in 0..Len(log) /\ headers \in {-1} \cup 0..Len(log)
         /\ \A n \in 1..Len(log) : log[n] \in Calls
<1>1. log \in Seq(Calls)
  BY DEF Stored
<1>2. /\ Len(log) \in Nat /\ DOMAIN log = 1..Len(log)
      /\ \A n \in 1..Len(log) : log[n] \in Calls
  BY <1>1
<1>3. /\ start_response_called \in BOOLEAN /\ wsgi_call_done \in BOOLEAN
      /\ response_length_unknown \in BOOLEAN
  BY Zenon DEF TypeOK
<1>4. status \in 0..Len(log) /\ headers \in {DICT} \cup 0..Len(log)
  BY Zenon DEF TypeOK
<1>5. exchange \in 0..MaxExchanges
  BY Zenon DEF TypeOK
<1>6. exchange \in Nat
  BY <1>5 DEF StartResponseAssumption
<1> QED BY <1>1, <1>2, <1>3, <1>4, <1>6 DEF DICT

(* A call of start_response is logged.                                     *)
LEMMA Logged ==
  ASSUME TypeOK, Stored, StartResponseAssumption,
         NEW a \in Args, NEW o \in 1..exchange, start_response(a, o)
  PROVE  LET n == Len(log')
         IN  /\ n = Len(log) + 1 /\ log' \in Seq(Calls)
             /\ \A i \in 1..Len(log) : log'[i] = log[i]
             /\ log'[n].args = a /\ log'[n].raised = Outcome(a)
             /\ log'[n].at = exchange
             /\ ~log'[n].kept => phase \in Running
<1> DEFINE c == [args |-> a, raised |-> Outcome(a), at |-> exchange,
                 kept |-> phase \notin Running \/ o # exchange]
<1>1. log' = Append(log, c)
  BY DEF start_response
<1>2. c \in Calls
  <2>1. exchange \in Nat
    BY Fields
  <2>2. Outcome(a) \in {"arguments", "exc_info", "too late", "called twice",
                       "status", "headers", "nothing"}
    BY DEF Outcome
  <2> QED BY <2>1, <2>2 DEF Calls
<1>3. /\ c.args = a /\ c.raised = Outcome(a) /\ c.at = exchange
      /\ ~c.kept => phase \in Running
  OBVIOUS
<1> HIDE DEF c
<1> QED BY <1>1, <1>2, <1>3, Fields

(* What it makes of the pointers and of the bits.                          *)
LEMMA CallStores ==
  ASSUME start_response_called \in BOOLEAN,
         NEW a \in Args, NEW o, start_response(a, o)
  PROVE  LET n == Len(log) + 1
             out == Outcome(a)
         IN  /\ phase' = phase /\ phase \notin {"freed", "crashed"}
             /\ exchange' = exchange
             /\ wsgi_call_done' = wsgi_call_done /\ response' = response
             /\ out = "nothing" => /\ status' = n /\ headers' = n
                            /\ start_response_called' = TRUE
                            /\ response_length_unknown' = ~FoundContentLength(a)
             /\ out = "headers" => status' = n /\ headers' = 0
             /\ out # "nothing" => start_response_called' = start_response_called
             /\ out # "nothing" /\ start_response_called => headers' = 0
             /\ out \notin {"nothing", "headers"} /\ start_response_called => status' = 0
             /\ out = "status" => status' = 0
             /\ out \notin {"nothing", "headers"} /\ ~start_response_called =>
                  headers' = headers /\ (status' = 0 \/ status' = status)
<1> DEFINE n == Len(log) + 1
           out == Outcome(a)
<1>1. Store(n, out) /\ Mark(a, out)
  BY DEF start_response
<1>2. /\ phase' = phase /\ phase \notin {"freed", "crashed"}
      /\ exchange' = exchange
      /\ wsgi_call_done' = wsgi_call_done /\ response' = response
  BY DEF start_response, Running
<1> HIDE DEF n, out
<1>3. CASE out = "nothing"
  BY <1>1, <1>2, <1>3 DEF Store, Mark, Clears, n, out
<1>4. CASE out = "headers"
  BY <1>1, <1>2, <1>4 DEF Store, Mark, Clears, n, out
<1>5. CASE out \notin {"nothing", "headers"}
  BY <1>1, <1>2, <1>5 DEF Store, Mark, Clears, n, out
<1> QED BY <1>3, <1>4, <1>5

-----------------------------------------------------------------------------
(* Each step of the connection, and each call, preserves the invariant. *)

(* What the invariant says of the pointers, with no fact about sequences.   *)
LEMMA Pointers ==
  ASSUME TypeOK, Stored, StartResponseAssumption
  PROVE  /\ headers > 0 => /\ start_response_called /\ status = headers
                           /\ headers = Len(log) /\ log[headers].raised = "nothing"
                           /\ log[headers].at = exchange
         /\ ~start_response_called => headers \in {-1, 0}
         /\ wsgi_call_done => start_response_called
         /\ phase \in {"call", "first"} => headers # -1
         /\ ~start_response_called /\ status > 0 => log[status].raised = "headers"
<1>1. /\ headers > 0 => /\ start_response_called /\ status = headers
                        /\ log[headers].raised = "nothing"
      /\ wsgi_call_done => start_response_called
  BY Zenon DEF TypeOK
<1>2. /\ headers > 0 => headers = Len(log) /\ log[headers].at = exchange
      /\ phase \in {"call", "first"} => headers # -1
      /\ ~start_response_called /\ status > 0 => log[status].raised = "headers"
  BY Zenon DEF Stored, DICT
<1>3. headers \in {-1} \cup 0..Len(log) /\ Len(log) \in Nat
  BY Fields
<1>4. ~start_response_called => headers \in {-1, 0}
  BY <1>1, <1>3
<1> QED BY <1>1, <1>2, <1>4

LEMMA CallStored ==
  ASSUME TypeOK, Stored, StartResponseAssumption,
         NEW a \in Args, NEW o \in 1..exchange, start_response(a, o)
  PROVE  TypeOK' /\ Stored'
<1> DEFINE n == Len(log')
           out == Outcome(a)
<1>1. /\ n = Len(log) + 1 /\ log' \in Seq(Calls)
      /\ \A i \in 1..Len(log) : log'[i] = log[i]
      /\ log'[n].args = a /\ log'[n].raised = out /\ log'[n].at = exchange
      /\ ~log'[n].kept => phase \in Running
  BY Logged
<1>2. start_response_called \in BOOLEAN
  BY Fields
<1>3. /\ phase' = phase /\ phase \notin {"freed", "crashed"}
      /\ exchange' = exchange
      /\ wsgi_call_done' = wsgi_call_done /\ response' = response
      /\ out = "nothing" => /\ status' = n /\ headers' = n
                     /\ start_response_called' = TRUE
                     /\ response_length_unknown' = ~FoundContentLength(a)
      /\ out = "headers" => status' = n /\ headers' = 0
      /\ out # "nothing" => start_response_called' = start_response_called
      /\ out # "nothing" /\ start_response_called => headers' = 0
      /\ out \notin {"nothing", "headers"} /\ start_response_called => status' = 0
      /\ out = "status" => status' = 0
      /\ out \notin {"nothing", "headers"} /\ ~start_response_called =>
           headers' = headers /\ (status' = 0 \/ status' = status)
  BY <1>1, <1>2, CallStores
<1>4. /\ alive' \subseteq alive \cup {Status(n), Headers(n)}
      /\ response_length_unknown' \in BOOLEAN
  <2>1. Store(n, out) /\ Mark(a, out)
    BY <1>1 DEF start_response
  <2>2. response_length_unknown \in BOOLEAN
    BY Fields
  <2> QED BY <2>1, <2>2, <1>2 DEF Store, Mark, FoundContentLength
<1>5. /\ DOMAIN log' = 1..n /\ n \in Nat \ {0} /\ n = Len(log) + 1
      /\ Len(log) \in Nat /\ DOMAIN log = 1..Len(log)
      /\ status \in 0..Len(log) /\ headers \in {-1} \cup 0..Len(log)
  BY <1>1, Fields
<1> HIDE DEF n, out
<1>6. \/ status' = n /\ headers' = n /\ out = "nothing" /\ start_response_called'
      \/ status' = n /\ headers' = 0 /\ out = "headers"
      \/ status' = 0 /\ headers' = 0
      \/ /\ ~start_response_called /\ ~start_response_called'
         /\ headers' = headers /\ headers \in {-1, 0} /\ status' \in {0, status}
  BY <1>2, <1>3, Pointers
<1>7. TypeOK'
  <2>1. start_response_called' \in BOOLEAN /\ wsgi_call_done' \in BOOLEAN
    BY <1>2, <1>3, Fields
  <2>2. status' \in 0..n /\ headers' \in {DICT} \cup 0..n
    BY <1>1, <1>5, <1>6 DEF DICT
  <2>3. headers' > 0 => /\ start_response_called' /\ status' = headers'
                        /\ log'[headers'].raised = "nothing"
    BY <1>1, <1>5, <1>6
  <2>4. wsgi_call_done' => start_response_called'
    BY <1>2, <1>3, Pointers
  <2>5. /\ phase' \in Phases /\ exchange' \in 0..MaxExchanges
        /\ response'.call \in 0..Len(log) /\ response'.known \in BOOLEAN
    BY <1>3, Zenon DEF TypeOK
  <2>6. response'.call \in 0..n
    BY <2>5, <1>1, <1>5
  <2> QED BY <1>4, <2>1, <2>2, <2>3, <2>4, <2>5, <2>6, Zenon DEF TypeOK, n
<1>8. Stored'
  <2>1. phase' \in {"call", "first"} => headers' # DICT
    <3>1. phase \in {"call", "first"} => headers # -1
      BY Pointers
    <3> QED BY <1>3, <1>5, <1>6, <3>1 DEF DICT
  <2>2. headers' > 0 =>
          /\ headers' = n /\ log'[headers'].at = exchange'
          /\ response_length_unknown' <=> ~FoundContentLength(log'[headers'].args)
    <3>1. CASE out = "nothing"
      <4>1. /\ headers' = n /\ log'[headers'].at = exchange'
            /\ log'[headers'].args = a
        BY <1>1, <1>3, <3>1
      <4>2. response_length_unknown' <=> ~FoundContentLength(a)
        BY <1>3, <3>1
      <4> QED BY <4>1, <4>2
    <3>2. CASE out # "nothing"
      BY <1>5, <1>6, <3>2
    <3> QED BY <3>1, <3>2
  <2>3. ~start_response_called' /\ status' > 0 => log'[status'].raised = "headers"
    <3> SUFFICES ASSUME ~start_response_called', status' > 0
                 PROVE  log'[status'].raised = "headers"
      OBVIOUS
    <3>1. CASE status' = n
      <4>1. out = "headers"
        BY <1>2, <1>3, <1>5, <1>6, <3>1
      <4> QED BY <1>1, <3>1, <4>1
    <3>2. CASE status' = status /\ ~start_response_called
      <4>1. status > 0 => log[status].raised = "headers"
        BY <3>2, Pointers
      <4> QED BY <1>1, <1>5, <3>2, <4>1
    <3> QED BY <1>6, <3>1, <3>2
  <2>4. alive' \subseteq {Status(i) : i \in DOMAIN log'}
                         \cup {Headers(i) : i \in DOMAIN log'}
    <3>1. DOMAIN log \subseteq DOMAIN log' /\ n \in DOMAIN log'
      BY <1>1, <1>5
    <3>2. alive \subseteq {Status(i) : i \in DOMAIN log}
                          \cup {Headers(i) : i \in DOMAIN log}
      BY Zenon DEF Stored
    <3> QED BY <1>4, <3>1, <3>2
  <2>5. phase' = "idle" => \E i \in DOMAIN log' : log'[i].kept
    BY <1>1, <1>3, <1>5 DEF Running
  <2>6. phase' = "idle" /\ (\A i \in DOMAIN log' : ~log'[i].kept) => headers' = 0
    BY <2>5
  <2> QED BY <1>1, <2>1, <2>2, <2>3, <2>4, <2>6, Zenon DEF Stored, n
<1> QED BY <1>7, <1>8

(* The exchange makes no call of start_response: one step per action.      *)
LEMMA ExchangeStored ==
  ASSUME TypeOK, Stored, StartResponseAssumption,
         \/ on_message_begin \/ LosesDict \/ DanglingCall
         \/ Call \/ FirstItem \/ Commit \/ Refuse \/ NextItem \/ Close
         \/ KeepAlive \/ Free \/ UNCHANGED vars
  PROVE  TypeOK' /\ Stored'
<1> USE DEF TypeOK, Stored, DICT, Phases, stored, flags
<1>1. CASE on_message_begin
  BY <1>1, Fields DEF on_message_begin
<1>2. CASE LosesDict \/ DanglingCall
  BY <1>2, Fields DEF LosesDict, DanglingCall
<1>3. CASE Call
  BY <1>3, Fields DEF Call
<1>4. CASE FirstItem
  BY <1>4, Fields DEF FirstItem
<1>5. CASE Commit
  BY <1>5, Fields DEF Commit
<1>6. CASE Refuse
  BY <1>6, Fields DEF Refuse, Nothing
<1>7. CASE NextItem \/ Close
  BY <1>7, Fields DEF NextItem, Close
<1>8. CASE KeepAlive
  <2>1. /\ phase' = "idle" /\ status' = 0 /\ headers' = 0
        /\ start_response_called' = FALSE /\ wsgi_call_done' = FALSE
        /\ response_length_unknown' = TRUE
        /\ UNCHANGED <<exchange, response, log>> /\ alive' \subseteq alive
    BY <1>8 DEF KeepAlive, Request_clean
  <2>2. TypeOK'
    <3>1. /\ status' \in 0..Len(log') /\ headers' \in {DICT} \cup 0..Len(log')
          /\ ~(headers' > 0)
      BY <2>1, Fields
    <3>2. response'.call \in 0..Len(log') /\ response'.known \in BOOLEAN
      BY <2>1
    <3> QED BY <2>1, <3>1, <3>2, Zenon
  <2>3. Stored'
    BY <2>1, Fields
  <2> QED BY <2>2, <2>3
<1>9. CASE Free
  BY <1>9, Fields DEF Free, Request_clean
<1>10. CASE UNCHANGED vars
  BY <1>10, Fields DEF vars
<1> QED BY <1>1, <1>2, <1>3, <1>4, <1>5, <1>6, <1>7, <1>8, <1>9, <1>10

(* Every step is one of these. *)
LEMMA StepStored ==
  ASSUME TypeOK, Stored, StartResponseAssumption, [Next]_vars
  PROVE  TypeOK' /\ Stored'
BY CallStored, ExchangeStored DEF Next

LEMMA StoredCorrect == Spec => [](TypeOK /\ Stored)
<1>1. Init => TypeOK /\ Stored
  <2> SUFFICES ASSUME Init
               PROVE  TypeOK /\ Stored
    OBVIOUS
  <2>1. /\ phase = "idle" /\ exchange = 0 /\ status = 0 /\ headers = 0
        /\ alive = {} /\ log = <<>> /\ response.call = 0
        /\ response.known = FALSE /\ start_response_called = FALSE
        /\ wsgi_call_done = FALSE /\ response_length_unknown = TRUE
    BY DEF Init, Nothing
  <2>2. log \in Seq(Calls) /\ Len(log) = 0
    BY <2>1
  <2>3. TypeOK
    <3>1. /\ status \in 0..Len(log) /\ headers \in {DICT} \cup 0..Len(log)
          /\ ~(headers > 0) /\ response.call \in 0..Len(log)
      BY <2>1, <2>2 DEF DICT
    <3>2. exchange \in 0..MaxExchanges
      BY <2>1, StartResponseAssumption
    <3>3. phase \in Phases
      BY <2>1 DEF Phases
    <3> QED BY <2>1, <3>1, <3>2, <3>3, Zenon DEF TypeOK
  <2> QED BY <2>1, <2>2, <2>3 DEF Stored, DICT
<1>2. TypeOK /\ Stored /\ [Next]_vars => (TypeOK /\ Stored)'
  BY StepStored, StartResponseAssumption
<1> QED BY <1>1, <1>2, PTL DEF Spec

-----------------------------------------------------------------------------
(* What follows from it. *)

(* start_response (wsgi.c:332) may be called in any phase, with anything,  *)
(* and fail at any of its checks: the pointers and the bits still fit      *)
(* together, and wsgi_getheaders finds a status whenever it finds headers. *)
THEOREM TypeCorrect == Spec => []TypeOK
BY StoredCorrect, PTL

(* wsgi_call_application (wsgi.c:102-144) answers with what the last call   *)
(* stored, whatever calls came before it, and in which exchange: a call    *)
(* that failed has left no headers to answer with.                         *)
THEOREM AnswersWithLastCall == Spec => ResponseOfLastCall
<1>1. TypeOK /\ Stored /\ [Next]_vars =>
        (wsgi_call_done' /\ ~wsgi_call_done =>
           LET n == response'.call
               a == log[n].args
           IN  /\ n = Len(log) /\ log[n].raised = "nothing"
               /\ log[n].at = exchange
               /\ response'.known <=>
                     a.headers \in {"length", "prefix"} \/ a.status = "nobody")
  <2> SUFFICES ASSUME TypeOK, Stored, [Next]_vars,
                      wsgi_call_done', ~wsgi_call_done
               PROVE  LET n == response'.call
                          a == log[n].args
                      IN  /\ n = Len(log) /\ log[n].raised = "nothing"
                          /\ log[n].at = exchange
                          /\ response'.known <=>
                                a.headers \in {"length", "prefix"} \/ a.status = "nobody"
    OBVIOUS
  <2>1. Commit
    BY DEF Next, vars, flags, start_response, DanglingCall, on_message_begin,
           LosesDict, Call, FirstItem, Refuse, NextItem, Close, KeepAlive, Free
  <2>2. /\ headers > 0 /\ headers = Len(log) /\ status = headers
        /\ log[headers].raised = "nothing" /\ log[headers].at = exchange
    BY <2>1, Fields, Pointers, StartResponseAssumption DEF Commit
  <2>3. response_length_unknown <=> ~FoundContentLength(log[headers].args)
    BY <2>2 DEF Stored
  <2>4. /\ response'.call = headers
        /\ response'.known = (Nobody(log[status].args) \/ ~response_length_unknown)
    BY <2>1 DEF Commit
  <2> QED BY <2>2, <2>3, <2>4 DEF Nobody, FoundContentLength
<1>2. TypeOK /\ Stored /\ [Next]_vars =>
        [wsgi_call_done' /\ ~wsgi_call_done =>
           LET n == response'.call
               a == log[n].args
           IN  /\ n = Len(log) /\ log[n].raised = "nothing"
               /\ log[n].at = exchange
               /\ response'.known <=>
                     a.headers \in {"length", "prefix"} \/ a.status = "nobody"]_vars
  BY <1>1
<1> QED BY <1>2, StoredCorrect, PTL DEF Spec, ResponseOfLastCall

(* Once the headers have been sent, no call of start_response succeeds, and *)
(* with exc_info it raises what it was given (wsgi.c:358-366): the bit      *)
(* wsgi_call_done is never set without start_response_called.               *)
THEOREM LateCallsCorrect == Spec => LateCallsRaise
<1>1. TypeOK /\ Stored /\ [Next]_vars =>
        [wsgi_call_done /\ log' # log =>
           LET c == log'[Len(log')]
           IN  /\ c.raised # "nothing"
               /\ c.args.arity /\ c.args.exc = "tuple" => c.raised = "too late"]_vars
  <2> SUFFICES ASSUME TypeOK, Stored, [Next]_vars, wsgi_call_done, log' # log
               PROVE  LET c == log'[Len(log')]
                      IN  /\ c.raised # "nothing"
                          /\ c.args.arity /\ c.args.exc = "tuple" =>
                               c.raised = "too late"
    OBVIOUS
  <2>1. PICK a \in Args, o \in 1..exchange : start_response(a, o)
    BY DEF Next, vars, flags, DanglingCall, on_message_begin, LosesDict, Call,
           FirstItem, Commit, Refuse, NextItem, Close, KeepAlive, Free
  <2>2. log'[Len(log')].args = a /\ log'[Len(log')].raised = Outcome(a)
    BY <2>1, Logged, StartResponseAssumption
  <2>3. start_response_called
    BY Pointers, StartResponseAssumption
  <2>4. a.exc \in {"none", "bad", "tuple"}
    BY StartResponseAssumption DEF ArgKinds
  <2> QED BY <2>2, <2>3, <2>4 DEF Outcome
<1> QED BY <1>1, StoredCorrect, PTL DEF Spec, LateCallsRaise

-----------------------------------------------------------------------------
(* The references: References is inductive with Stored. *)

LEMMA Distinct ==
  ASSUME NEW i, NEW j
  PROVE  /\ Status(i) = Status(j) <=> i = j
         /\ Headers(i) = Headers(j) <=> i = j
         /\ Status(i) # Headers(j)
BY DEF Status, Headers

(* What a call does to what is alive. *)
LEMMA CallReferences ==
  ASSUME TypeOK, Stored, References, StartResponseAssumption,
         NEW a \in Args, NEW o \in 1..exchange, start_response(a, o)
  PROVE  References'
<1> DEFINE n == Len(log')
           out == Outcome(a)
<1>1. /\ n = Len(log) + 1 /\ \A i \in 1..Len(log) : log'[i] = log[i]
      /\ log'[n].raised = out
      /\ DOMAIN log = 1..Len(log) /\ DOMAIN log' = 1..n /\ Len(log) \in Nat
  BY Logged, Fields
<1>2. start_response_called \in BOOLEAN
  BY Fields
<1>3. /\ out = "nothing" => status' = n /\ headers' = n
      /\ out = "headers" => status' = n /\ headers' = 0
      /\ out # "nothing" /\ start_response_called => headers' = 0
      /\ out \notin {"nothing", "headers"} /\ start_response_called => status' = 0
      /\ out \notin {"nothing", "headers"} /\ ~start_response_called =>
           headers' = headers /\ (status' = 0 \/ status' = status)
  BY <1>1, <1>2, CallStores
<1>4. \A x : x \in alive' <=>
        \/ x \in alive /\ ~(start_response_called
                            /\ x \in {Status(status), Headers(headers)})
        \/ out \in {"nothing", "headers"} /\ x = Status(n)
        \/ out = "nothing" /\ x = Headers(n)
  <2>1. Store(n, out)
    BY <1>1 DEF start_response
  <2> HIDE DEF n, out
  <2> QED BY <2>1, <1>2 DEF Store, Clears
<1>5. /\ status \in 0..Len(log) /\ headers \in {-1} \cup 0..Len(log)
      /\ ~start_response_called => headers \in {-1, 0}
      /\ ~start_response_called /\ status > 0 => log[status].raised = "headers"
  BY Fields, Pointers
<1>6. \A x \in alive : \E i \in 1..Len(log) : x = Status(i) \/ x = Headers(i)
  BY <1>1 DEF Stored
<1> HIDE DEF n, out
<1> SUFFICES ASSUME \A i \in 1..n : ~log'[i].kept, NEW i \in 1..n
             PROVE  /\ status' = i => Status(i) \in alive'
                    /\ headers' = i => Headers(i) \in alive'
                    /\ Headers(i) \in alive' => headers' = i
                    /\ Status(i) \in alive' => status' = i \/ log'[i].raised = "headers"
  BY <1>1 DEF References
<1>7. \A j \in 1..Len(log) :
        /\ status = j => Status(j) \in alive
        /\ headers = j => Headers(j) \in alive
        /\ Headers(j) \in alive => headers = j
        /\ Status(j) \in alive => status = j \/ log[j].raised = "headers"
  BY <1>1 DEF References
<1>8. CASE i = n
  <2>1. Status(n) \notin alive /\ Headers(n) \notin alive
    BY <1>1, <1>6, Distinct
  <2>2. headers' = n => out = "nothing"
    BY <1>1, <1>2, <1>3, <1>5
  <2>3. status' = n => out \in {"nothing", "headers"}
    BY <1>1, <1>2, <1>3, <1>5
  <2> QED BY <1>1, <1>3, <1>4, <1>8, <2>1, <2>2, <2>3, Distinct
<1>9. CASE i \in 1..Len(log)
  <2>1. i # n /\ i # 0 /\ log'[i] = log[i]
    BY <1>1, <1>9
  <2>2. /\ Status(i) \in alive' <=>
             Status(i) \in alive /\ ~(start_response_called /\ i = status)
        /\ Headers(i) \in alive' <=>
             Headers(i) \in alive /\ ~(start_response_called /\ i = headers)
    BY <1>4, <2>1, Distinct
  <2>3. /\ status' = i => status = i /\ ~start_response_called
        /\ headers' = i => headers = i /\ ~start_response_called
    BY <1>2, <1>3, <2>1
  <2>4. status' # i /\ Status(i) \in alive' => log[i].raised = "headers"
    BY <1>5, <1>7, <1>9, <2>1, <2>2, <2>3
  <2>5. Headers(i) \in alive' => headers' = i
    BY <1>5, <1>7, <1>9, <2>1, <2>2
  <2> QED BY <1>7, <1>9, <2>1, <2>2, <2>3, <2>4, <2>5
<1> QED BY <1>1, <1>8, <1>9

(* The other steps only let go of what the pointers hold.                  *)
LEMMA ExchangeReferences ==
  ASSUME TypeOK, Stored, References, StartResponseAssumption,
         \/ on_message_begin \/ LosesDict \/ DanglingCall
         \/ Call \/ FirstItem \/ Commit \/ Refuse \/ NextItem \/ Close
         \/ KeepAlive \/ Free \/ UNCHANGED vars
  PROVE  References'
<1>1. log' = log
  BY DEF on_message_begin, LosesDict, DanglingCall, Call, FirstItem, Commit,
         Refuse, NextItem, Close, KeepAlive, Free, vars
<1> SUFFICES ASSUME \A i \in DOMAIN log : ~log[i].kept, NEW i \in DOMAIN log
             PROVE  /\ status' = i => Status(i) \in alive'
                    /\ headers' = i => Headers(i) \in alive'
                    /\ Headers(i) \in alive' => headers' = i
                    /\ Status(i) \in alive' => status' = i \/ log[i].raised = "headers"
  BY <1>1 DEF References
<1>2. /\ status = i => Status(i) \in alive
      /\ headers = i => Headers(i) \in alive
      /\ Headers(i) \in alive => headers = i
      /\ Status(i) \in alive => status = i \/ log[i].raised = "headers"
  BY DEF References
<1>3. i > 0
  BY Fields
<1>4. CASE on_message_begin
  <2>1. headers = 0 /\ headers' = -1 /\ UNCHANGED <<status, alive>>
    BY <1>4 DEF on_message_begin, Stored, DICT
  <2> QED BY <1>2, <1>3, <2>1
<1>5. CASE Call
  <2>1. headers = -1 /\ headers' = 0 /\ UNCHANGED <<status, alive>>
    BY <1>5 DEF Call, DICT
  <2> QED BY <1>2, <1>3, <2>1
<1>6. CASE KeepAlive \/ Free
  <2>1. /\ status' = 0 /\ headers' = 0
        /\ alive' = alive \ {Headers(headers), Status(status)}
    BY <1>6 DEF KeepAlive, Free, Request_clean
  <2> QED BY <1>2, <1>3, <2>1
<1>7. CASE UNCHANGED stored
  BY <1>2, <1>7 DEF stored
<1> QED BY <1>4, <1>5, <1>6, <1>7
        DEF LosesDict, DanglingCall, FirstItem, Commit, Refuse, NextItem, Close, vars

(* Py_CLEAR in start_response (wsgi.c:336-342) and the XDECREFs of         *)
(* Request_clean (request.c:50-70) release each status and each list of    *)
(* headers once, and nothing that is still pointed to.                     *)
THEOREM ReferencesCorrect == Spec => []References
<1>1. Init => References
  BY DEF Init, References
<1>2. TypeOK /\ Stored /\ References /\ [Next]_vars => References'
  BY CallReferences, ExchangeReferences, StartResponseAssumption DEF Next
<1> QED BY <1>1, <1>2, StoredCorrect, PTL DEF Spec

=============================================================================
