----------------------------- MODULE Verdict_proofs -----------------------------
(***************************************************************************)
(* What becomes of a message, proved for any messages in any pieces that   *)
(* are not cut where it matters: it is served or refused for what it says. *)
(***************************************************************************)
EXTENDS Environ_proofs

-----------------------------------------------------------------------------
(* Only the first Expect header of a read() is looked at (request.c:209),  *)
(* so that the verdict is that of the message alone only when it has no    *)
(* two of them.                                                            *)

IsExpect(k, i) == k.headers[i].name = <<"EXPECT">>

ExpectsOnce ==
  \A k \in MessageKinds : \A i, j \in DOMAIN k.headers : IsExpect(k, i) /\ IsExpect(k, j) => i = j

(* Nothing that was said up to a symbol is a reason to refuse the message. *)
Approved(k, s) ==
  /\ s.token # "begin" =>
       \A i \in DOMAIN k.path : (Place(s) = "path" => i <= s.nth) => k.path[i] # "bad"
  /\ Place(s) \in {"headers", "garbage", "body", "complete"} => ~k.garbled
  /\ Place(s) \in {"body", "complete"} => (k.body # <<>> => k.length)
  /\ k.minor = 1 =>
       \A i \in DOMAIN k.headers :
         IsExpect(k, i) /\ Begun(s, i) => IsPrefix(k.headers[i].value, Expectation)

BegunExpect(k, s) == \E i \in DOMAIN k.headers : IsExpect(k, i) /\ Begun(s, i)

(* The inductive invariant.                                                *)
AllAcceptable == \A n \in DOMAIN calls : Acceptable(messages[n])

RefusedRightly ==
  dead \/ error_code # 0 => Len(calls) < N /\ ~Acceptable(messages[Len(calls) + 1])

ApprovedSoFar ==
  pos > 0 /\ ~dead /\ error_code = 0 => Approved(messages[stream[pos].of], stream[pos])

ExpectKnown ==
  expect_continue /\ ~dead => pos > 0 /\ BegunExpect(messages[stream[pos].of], stream[pos])

RefusedForError == mode = "refused" => error_code # 0

Judged == AllAcceptable /\ RefusedRightly /\ ApprovedSoFar /\ ExpectKnown /\ RefusedForError

Verdict == ~overran /\ ~cut => Judged

LEMMA InitVerdict == Init => Verdict
<1> SUFFICES ASSUME Init PROVE Judged
  BY Zenon DEF Verdict
<1>1. /\ mode = "reading" /\ pos = 0 /\ dead = FALSE /\ error_code = 0 /\ calls = <<>>
      /\ expect_continue = FALSE
  BY DEF Init
<1>2. AllAcceptable
  BY <1>1 DEF AllAcceptable
<1>3. RefusedRightly /\ ApprovedSoFar /\ ExpectKnown /\ RefusedForError
  <2>1. ~(pos > 0) /\ mode # "refused" /\ error_code = 0
    BY <1>1
  <2> QED BY <1>1, <2>1, Zenon DEF RefusedRightly, ApprovedSoFar, ExpectKnown, RefusedForError
<1> QED BY <1>2, <1>3, Zenon DEF Judged

(* A callback meets a message that was neither served nor refused yet.     *)
Judging == Streaming /\ Turn /\ Exact /\ ReadFrom /\ Judged /\ ~overran /\ ~cut /\ mode = "parsing"

LEMMA JudgingFacts ==
  ASSUME Judging
  PROVE  /\ ~dead /\ dead = FALSE /\ pos < limit /\ pos \in Nat
         /\ pos + 1 \in 1..Len(stream) /\ Len(stream) \in Nat /\ Streaming
         /\ Len(calls) \in Nat /\ Len(calls) + 1 = stream[pos + 1].of
         /\ stream[pos + 1].of \in 1..N /\ Len(calls) < N
<1>1. Streaming /\ Turn /\ ~overran /\ mode = "parsing"
  BY DEF Judging
<1>2. /\ ~dead /\ pos + 1 \in 1..Len(stream) /\ Len(calls) = stream[pos + 1].of - 1
  BY <1>1, Before DEF Streaming
<1>3. pos \in Nat /\ pos < limit /\ Len(stream) \in Nat /\ dead = FALSE
  BY <1>1, Symbols2, Places, ParsingAlive DEF Streaming
<1>4. stream[pos + 1].of \in 1..N
  BY <1>1, <1>2, Symbols2, SentTyped
<1>5. Len(calls) \in Nat
  BY <1>1 DEF Streaming, CallsOK
<1> QED BY <1>1, <1>2, <1>3, <1>4, <1>5, ParsingAssumption

LEMMA JudgedOn ==
  ASSUME Judging, pos' \in pos + 1..Len(stream), mode' \in {"parsing", "parsed"},
         UNCHANGED <<messages, stream, calls, dead>>,
         NEW k, k = messages[stream[pos + 1].of], stream[pos'].of = stream[pos + 1].of,
         error_code' # 0 => error_code # 0 \/ ~Acceptable(k),
         error_code' = 0 => Approved(k, stream[pos']),
         expect_continue' => BegunExpect(k, stream[pos'])
  PROVE  Verdict'
<1>1. Len(calls) < N /\ k = messages[Len(calls) + 1] /\ pos' > 0
  BY JudgingFacts
<1>2. AllAcceptable'
  BY Zenon DEF Judging, Judged, AllAcceptable
<1>3. RefusedRightly'
  <2>1. error_code # 0 => ~Acceptable(k)
    BY <1>1, Zenon DEF Judging, Judged, RefusedRightly
  <2>2. ~dead'
    BY JudgingFacts
  <2> QED BY <1>1, <2>1, <2>2, Zenon DEF RefusedRightly
<1>4. ApprovedSoFar'
  <2>1. messages'[stream'[pos'].of] = k /\ stream' = stream
    OBVIOUS
  <2> QED BY <2>1, Zenon DEF ApprovedSoFar
<1>5. ExpectKnown'
  <2>1. messages'[stream'[pos'].of] = k /\ stream' = stream
    OBVIOUS
  <2> QED BY <1>1, <2>1, Zenon DEF ExpectKnown
<1>6. RefusedForError'
  BY DEF RefusedForError
<1> QED BY <1>2, <1>3, <1>4, <1>5, <1>6, Zenon DEF Judged, Verdict

LEMMA JudgedStopped ==
  ASSUME Judging, dead' = TRUE, mode' = "parsed", UNCHANGED <<messages, calls>>,
         ~Acceptable(messages[stream[pos + 1].of])
  PROVE  Verdict'
<1>1. Len(calls) < N /\ ~Acceptable(messages[Len(calls) + 1])
  BY JudgingFacts
<1>2. AllAcceptable'
  BY Zenon DEF Judging, Judged, AllAcceptable
<1>3. RefusedRightly'
  BY <1>1, Zenon DEF RefusedRightly
<1>4. ApprovedSoFar' /\ ExpectKnown' /\ RefusedForError'
  BY Zenon DEF ApprovedSoFar, ExpectKnown, RefusedForError
<1> QED BY <1>2, <1>3, <1>4, Zenon DEF Judged, Verdict

(* What was approved stays so when nothing is added that matters.          *)
LEMMA ApprovedOn ==
  ASSUME NEW k, Known(k), NEW s, NEW t, Spot(k, s), Approved(k, s),
         s.token # "begin", Place(s) = "path" => s.token = "stop", Place(t) # "path",
         Place(t) \in {"headers", "garbage", "body", "complete"} => ~k.garbled,
         Place(t) \in {"body", "complete"} => (k.body # <<>> => k.length),
         \A i \in DOMAIN k.headers :
           k.minor = 1 /\ IsExpect(k, i) /\ Begun(t, i) /\ ~Begun(s, i) =>
             IsPrefix(k.headers[i].value, Expectation)
  PROVE  Approved(k, t)
<1>1. ASSUME NEW i \in DOMAIN k.path
      PROVE  k.path[i] # "bad"
  <2>1. Place(s) = "path" => s.nth = Len(k.path)
    BY DEF Spot, TextOf, Place
  <2>2. i <= Len(k.path)
    BY DEF Known
  <2>3. Place(s) = "path" => i <= s.nth
    BY <2>1, <2>2
  <2> QED BY <2>3, Zenon DEF Approved
<1>2. ASSUME k.minor = 1, NEW i \in DOMAIN k.headers, IsExpect(k, i), Begun(t, i)
      PROVE  IsPrefix(k.headers[i].value, Expectation)
  BY <1>2, Zenon DEF Approved
<1> QED BY <1>1, <1>2, Zenon DEF Approved

(* What a callback is given of a header has then begun.                    *)
LEMMA BegunTold ==
  ASSUME Streaming, NEW token \in {"query", "name", "value", "body"},
         NEW k, NEW s, NEW u, NEW t, NEW a, Tells(token, k, s, u, t, a)
  PROVE  /\ s.token # "begin" /\ (Place(s) = "path" => s.token = "stop")
         /\ Place(t) \notin {"path", "complete"} /\ (Place(t) = "body" <=> token = "body")
         /\ Place(t) \in {"headers", "garbage"} => ~k.garbled
         /\ token = "body" => Place(s) \in {"headers", "garbage", "body"}
         /\ \A i \in 1..Len(k.headers) :
              IF token = "value" THEN Begun(t, i) <=> Begun(s, i) \/ i = u.header
              ELSE Begun(t, i) <=> Begun(s, i)
<1>1. /\ Known(k) /\ Spot(k, s) /\ Spot(k, u) /\ Place(u) = token
      /\ From(k, s, token, u.header, a) /\ k = messages[t.of]
      /\ t \in Sent /\ t.token \in {token, "stop"}
      /\ \/ u = t
         \/ Place(t) \in {"headers", "garbage"} /\ u.token = "stop" /\ u.header = Len(k.headers)
      /\ token \in {"name", "body"} => u = t
  BY Zenon DEF Tells
<1>2. Spot(k, t) /\ Meant(k, t)
  BY <1>1, Symbols2, SentSpot, SentTyped
<1>3. s.token = token \/ (s.token # token /\ Begins(k, s, token, u.header))
  BY <1>1, Zenon DEF From
<1>4. /\ s.token # "begin" /\ (Place(s) = "path" => s.token = "stop")
      /\ token = "body" => Place(s) \in {"headers", "garbage", "body"}
  BY <1>3 DEF Begins, EndsFields, EndsHeaders, Place
<1>5. t.token = "stop" => t.part \in Stopped
  BY <1>2, Zenon DEF Meant
<1>6. Place(t) = token \/ Place(t) \in {"headers", "garbage"}
  BY <1>1
<1>7. Place(t) \in {"headers", "garbage"} => ~k.garbled
  <2> SUFFICES ASSUME Place(t) \in {"headers", "garbage"}
               PROVE  ~k.garbled
    OBVIOUS
  <2>1. t.token = "stop" /\ t.part = "headers"
    BY <1>1, <1>5 DEF Place, Stopped
  <2>2. EndsHeaders(t) /\ t.token # "garbage"
    BY <2>1 DEF EndsHeaders
  <2> QED BY <1>2, <2>2, Zenon DEF Meant
<1>8. /\ s.header \in Nat /\ u.header \in Nat /\ t.header \in Nat /\ Len(k.headers) \in Nat
      /\ s.header <= Len(k.headers) /\ u.header <= Len(k.headers)
      /\ Place(t) \in {"headers", "garbage", "body"} => t.header = Len(k.headers)
      /\ token = "query" => u.header = 0
      /\ token \in {"name", "value"} => u.header > 0
      /\ token = "body" => u.header = Len(k.headers)
  <2>1. token = "query" => u.header = 0
    BY <1>1 DEF Spot
  <2>2. token \in {"name", "value"} => u.header > 0
    BY <1>1 DEF Spot
  <2>3. token = "body" => u.header = Len(k.headers)
    BY <1>1 DEF Spot
  <2>4. Place(t) \in {"headers", "garbage", "body"} => t.header = Len(k.headers)
    BY <1>2, Zenon DEF Spot
  <2> QED BY <1>1, <1>2, <2>1, <2>2, <2>3, <2>4, Zenon DEF Spot, Known
<1>9. ASSUME NEW i \in 1..Len(k.headers)
      PROVE  IF token = "value" THEN Begun(t, i) <=> Begun(s, i) \/ i = u.header
             ELSE Begun(t, i) <=> Begun(s, i)
  <2>1. Begun(t, i) <=> Begun(u, i)
    <3>1. CASE u = t
      BY <3>1
    <3>2. CASE Place(t) \in {"headers", "garbage"} /\ u.token = "stop" /\ u.header = Len(k.headers)
      <4>1. Place(u) # "name"
        <5>1. token = "name" => u = t
          BY <1>1
        <5>2. Place(t) # "name"
          BY <3>2
        <5> QED BY <1>1, <5>1, <5>2
      <4> QED BY <1>8, <3>2, <4>1 DEF Begun
    <3> QED BY <1>1, <3>1, <3>2
  <2>2. CASE token = "query"
    <3>1. s.header = 0
      <4>1. Place(s) \in {"path", "query"}
        BY <1>3, <2>2 DEF Begins, Place
      <4> QED BY <1>1, <4>1, Zenon DEF Spot
    <3> QED BY <1>8, <2>1, <2>2, <3>1 DEF Begun
  <2>3. CASE token = "name"
    <3>1. CASE s.token = "name"
      <4>1. s.header = u.header /\ Place(s) = "name"
        BY <1>1, <2>3, <3>1 DEF From, Place
      <4> QED BY <1>1, <2>1, <2>3, <4>1 DEF Begun
    <3>2. CASE s.token # "name"
      <4>1. EndsFields(k, s) /\ u.header = s.header + 1
        BY <1>3, <2>3, <3>2 DEF Begins
      <4>2. Place(s) # "name"
        BY <4>1 DEF EndsFields, Place
      <4> QED BY <1>1, <1>8, <2>1, <2>3, <4>1, <4>2 DEF Begun
    <3> QED BY <3>1, <3>2
  <2>4. CASE token = "value"
    <3>1. s.header = u.header
      BY <1>1, <2>4 DEF From, Begins
    <3> QED BY <1>1, <1>8, <2>1, <2>4, <3>1 DEF Begun
  <2>5. CASE token = "body"
    <3>1. s.header = Len(k.headers) /\ Place(s) # "name"
      BY <1>1, <1>4, <2>5 DEF Spot
    <3> QED BY <1>1, <1>8, <2>1, <2>5, <3>1 DEF Begun
  <2> QED BY <2>2, <2>3, <2>4, <2>5
<1> QED BY <1>1, <1>4, <1>6, <1>7, <1>9

(* One callback for a part of a query, a name, a value or a body: what it  *)
(* has to see to is a body without a length, and an expectation.           *)
LEMMA JudgedTold ==
  ASSUME Judging, NEW token \in {"query", "name", "value", "body"}, Due(token), GoOn,
         UNCHANGED <<messages, stream, calls>>,
         NEW k, NEW s, NEW u, NEW t, NEW a, Tells(token, k, s, u, t, a),
         error_code' # 0 => error_code # 0 \/ ~Acceptable(k),
         error_code' = 0 => error_code = 0,
         token = "body" /\ error_code = 0 => (k.body # <<>> => k.length),
         token = "value" /\ error_code' = 0 /\ k.minor = 1 /\ IsExpect(k, u.header) =>
           IsPrefix(k.headers[u.header].value, Expectation),
         expect_continue' => expect_continue \/ (token = "value" /\ IsExpect(k, u.header))
  PROVE  Verdict'
<1>1. Streaming /\ pos < limit /\ dead = FALSE /\ Judged
  BY JudgingFacts DEF Judging
<1>2. /\ pos' \in pos + 1..Len(stream) /\ mode' \in {"parsing", "parsed"} /\ dead' = dead
      /\ pos > 0
  <2>1. pos' \in pos + 1..Len(stream) /\ pos > 0
    BY <1>1, Told
  <2>2. mode' \in {"parsing", "parsed"} /\ dead' = dead
    BY DEF GoOn
  <2> QED BY <2>1, <2>2
<1>3. /\ s = stream[pos] /\ s.token # "complete" /\ t = stream[pos'] /\ t.of = stream[pos + 1].of
      /\ k = messages[s.of] /\ k = messages[t.of] /\ Known(k) /\ Spot(k, s) /\ Spot(k, u)
      /\ Place(u) = token
  BY Zenon DEF Tells
<1>4. /\ s.token # "begin" /\ (Place(s) = "path" => s.token = "stop")
      /\ Place(t) \notin {"path", "complete"} /\ (Place(t) = "body" <=> token = "body")
      /\ Place(t) \in {"headers", "garbage"} => ~k.garbled
      /\ token = "body" => Place(s) \in {"headers", "garbage", "body"}
      /\ \A i \in 1..Len(k.headers) :
           IF token = "value" THEN Begun(t, i) <=> Begun(s, i) \/ i = u.header
           ELSE Begun(t, i) <=> Begun(s, i)
  BY <1>1, BegunTold
<1>5. DOMAIN k.headers = 1..Len(k.headers)
  BY <1>3 DEF Known
<1>6. ASSUME error_code' = 0
      PROVE  Approved(k, t)
  <2>1. Approved(k, s)
    <3>1. error_code = 0 /\ ~dead
      BY <1>1, <1>6
    <3> QED BY <1>1, <1>2, <1>3, <3>1, Zenon DEF Judged, ApprovedSoFar
  <2>2. Place(t) \in {"headers", "garbage", "body", "complete"} => ~k.garbled
    <3>1. token = "body" => ~k.garbled
      BY <1>4, <2>1, Zenon DEF Approved
    <3> QED BY <1>4, <3>1
  <2>3. Place(t) \in {"body", "complete"} => (k.body # <<>> => k.length)
    <3>1. error_code = 0
      BY <1>6
    <3> QED BY <1>4, <3>1
  <2>4. ASSUME NEW i \in DOMAIN k.headers, k.minor = 1, IsExpect(k, i), Begun(t, i), ~Begun(s, i)
        PROVE  IsPrefix(k.headers[i].value, Expectation)
    <3>1. token = "value" /\ i = u.header
      BY <1>4, <1>5, <2>4
    <3> QED BY <1>6, <2>4, <3>1
  <2> QED BY <1>3, <1>4, <2>1, <2>2, <2>3, <2>4, ApprovedOn
<1>7. ASSUME expect_continue'
      PROVE  BegunExpect(k, t)
  <2>1. CASE expect_continue
    <3>1. BegunExpect(k, s)
      <4>1. ~dead
        BY <1>1
      <4> QED BY <1>1, <1>3, <2>1, <4>1, Zenon DEF Judged, ExpectKnown
    <3>2. PICK i \in DOMAIN k.headers : IsExpect(k, i) /\ Begun(s, i)
      BY <3>1, Zenon DEF BegunExpect
    <3>3. Begun(t, i)
      BY <1>4, <1>5, <3>2
    <3> QED BY <3>2, <3>3, Zenon DEF BegunExpect
  <2>2. CASE token = "value" /\ IsExpect(k, u.header)
    <3>1. u.header \in 1..Len(k.headers)
      <4>1. Len(k.headers) \in Nat /\ u.header \in Nat /\ u.header <= Len(k.headers)
        BY <1>3, Zenon DEF Spot, Known
      <4>2. Place(u) \in {"name", "value"}
        BY <1>3, <2>2
      <4>3. u.header > 0
        BY <1>3, <4>2, Zenon DEF Spot
      <4> PICK h, n : h = u.header /\ n = Len(k.headers)
        OBVIOUS
      <4>4. h \in 1..n
        BY <4>1, <4>3
      <4> QED BY <4>4
    <3>2. Begun(t, u.header)
      BY <1>4, <2>2, <3>1
    <3> QED BY <1>5, <2>2, <3>1, <3>2, Zenon DEF BegunExpect
  <2> QED BY <1>7, <2>1, <2>2, Zenon
<1>8. k = messages[stream[pos + 1].of] /\ stream[pos'].of = stream[pos + 1].of
  BY <1>3
<1>9. error_code' = 0 => Approved(k, stream[pos'])
  BY <1>3, <1>6
<1>10. expect_continue' => BegunExpect(k, stream[pos'])
  BY <1>3, <1>7
<1> QED BY <1>2, <1>8, <1>9, <1>10, JudgedOn

LEMMA JudgedQuery ==
  ASSUME Judging, on_query_string
  PROVE  Verdict'
<1>1. /\ Due("query") /\ GoOn
      /\ UNCHANGED <<messages, stream, calls, expect_continue, error_code>>
  BY DEF on_query_string, clientVars, flagVars
<1>2. PICK k, s, u, t, a : Tells("query", k, s, u, t, a)
  BY <1>1, JudgingFacts, Told
<1> QED BY <1>1, <1>2, JudgedTold

LEMMA JudgedField ==
  ASSUME Judging, on_header_field
  PROVE  Verdict'
<1>1. /\ Due("name") /\ GoOn
      /\ UNCHANGED <<messages, stream, calls, expect_continue, error_code>>
  BY DEF on_header_field, clientVars, flagVars
<1>2. PICK k, s, u, t, a : Tells("name", k, s, u, t, a)
  BY <1>1, JudgingFacts, Told
<1> QED BY <1>1, <1>2, JudgedTold

(* There is a body, and http_parser knows its length or it has begun.      *)
LEMMA JudgedBody ==
  ASSUME Judging, on_body
  PROVE  Verdict'
<1>1. /\ Due("body") /\ UNCHANGED <<messages, stream, calls>> /\ expect_continue' = FALSE
  BY DEF on_body, clientVars
<1> PICK k : k = messages[stream[pos + 1].of]
  OBVIOUS
<1>2. CASE Stop(HTTP_LENGTH_REQUIRED) /\ ~Current.length
  <2> PICK x : x = stream[pos + 1]
    OBVIOUS
  <2>1. x \in Sent /\ Meant(k, x) /\ Known(k)
    <3>1. x \in Sent /\ Known(k)
      BY JudgingFacts, Symbols2, SentSpot
    <3> QED BY <3>1, SentTyped
  <2>2. x.token = "body"
    <3>1. x.token = "body" \/ (x.token = "stop" /\ x.part = "body")
      BY <1>1 DEF Due
    <3>2. x.token = "stop" => x.part \in Stopped
      BY <2>1, Zenon DEF Meant
    <3> QED BY <3>1, <3>2 DEF Stopped
  <2>3. k.body # <<>>
    <3>1. x.nth \in 1..Len(k.body)
      BY <2>1, <2>2 DEF Meant, TextOf
    <3>2. k.body = <<>> => Len(k.body) = 0
      OBVIOUS
    <3> QED BY <3>1, <3>2
  <2>4. ~k.length
    BY <1>2 DEF Current
  <2>5. ~Acceptable(messages[stream[pos + 1].of])
    BY <2>3, <2>4, Zenon DEF Acceptable
  <2> QED BY <1>1, <1>2, <2>5, JudgedStopped DEF Stop
<1>3. CASE /\ headers = "dict" /\ (wsgi_input \in DOMAIN environ \/ Current.length)
           /\ GoOn /\ UNCHANGED error_code
  <2>1. PICK y, s, u, t, a : Tells("body", y, s, u, t, a)
    BY <1>1, <1>3, JudgingFacts, Told
  <2>2. /\ s = stream[pos] /\ s.token # "complete" /\ Known(y) /\ y = messages[s.of]
        /\ y = messages[t.of] /\ t.of = stream[pos + 1].of
    BY <2>1, Zenon DEF Tells
  <2>3. y = k
    BY <2>2
  <2>4. error_code = 0 => (k.body # <<>> => k.length)
    <3>1. CASE Current.length
      BY <3>1 DEF Current
    <3>2. CASE wsgi_input \in DOMAIN environ
      <4>1. environ = SoFar(k, s)
        <5>1. Exact /\ dead = FALSE
          BY JudgingFacts DEF Judging
        <5> QED BY <1>3, <2>2, <2>3, <5>1, HeldNow, Zenon DEF HoldsAt
      <4>2. wsgi_input \in Keys(k, s)
        BY <2>2, <3>2, <4>1 DEF SoFar
      <4>3. Place(s) = "body"
        <5>1. wsgi_input \notin HeaderKeys(k, s)
          <6>1. wsgi_input \in Others
            BY DEF Others
          <6> QED BY <2>2, <2>3, <6>1, HeaderKeysOther
        <5> QED BY <4>2, <5>1, OthersDiffer DEF Keys
      <4>4. ASSUME error_code = 0
            PROVE  Approved(k, s)
        <5>1. ~dead /\ pos > 0
          BY <1>1, <1>3, JudgingFacts, Told
        <5> QED BY <2>2, <2>3, <4>4, <5>1, Zenon DEF Judging, Judged, ApprovedSoFar
      <4> QED BY <4>3, <4>4, Zenon DEF Approved
    <3> QED BY <1>3, <3>1, <3>2
  <2> QED BY <1>1, <1>3, <2>1, <2>3, <2>4, JudgedTold
<1> QED BY <1>2, <1>3, Zenon DEF on_body

(* A line that is not HTTP. *)
LEMMA JudgedGarbage ==
  ASSUME Judging, Garbage
  PROVE  Verdict'
<1>1. Due("garbage") /\ dead' = TRUE /\ mode' = "parsed" /\ UNCHANGED <<messages, calls>>
  BY DEF Garbage, Stop, clientVars
<1> PICK k, x : k = messages[stream[pos + 1].of] /\ x = stream[pos + 1]
  OBVIOUS
<1>2. Meant(k, x)
  BY JudgingFacts, Symbols2, SentTyped
<1>3. x.token = "garbage"
  <2>1. x.token = "garbage" \/ (x.token = "stop" /\ x.part = "garbage")
    BY <1>1 DEF Due
  <2>2. x.token = "stop" => x.part \in Stopped
    BY <1>2, Zenon DEF Meant
  <2> QED BY <2>1, <2>2 DEF Stopped
<1>4. k.garbled
  <2>1. x.part = "headers"
    BY <1>2, <1>3, Zenon DEF Meant
  <2>2. EndsHeaders(x)
    BY <1>3, <2>1 DEF EndsHeaders
  <2> QED BY <1>2, <1>3, <2>2, Zenon DEF Meant
<1>5. ~Acceptable(messages[stream[pos + 1].of])
  BY <1>4, Zenon DEF Acceptable
<1> QED BY <1>1, <1>5, JudgedStopped

(* The start of a message says nothing yet, and nothing is expected.       *)
LEMMA JudgedBegin ==
  ASSUME Judging, on_message_begin
  PROVE  Verdict'
<1>1. /\ Due("begin") /\ GoOn
      /\ UNCHANGED <<messages, stream, calls, expect_continue, error_code>>
  BY DEF on_message_begin, clientVars, flagVars
<1> PICK k, t : k = messages[stream[pos + 1].of] /\ t = stream[pos + 1]
  OBVIOUS
<1>2. Known(k) /\ Spot(k, t)
  BY JudgingFacts, Symbols2, SentSpot
<1>3. Place(t) = "begin"
  BY <1>1, DuePlace
<1>4. t.token = "begin" /\ t.header = 0
  BY <1>2, <1>3, Zenon DEF Spot
<1>5. pos' = pos + 1 /\ pos + 1 \in 1..Len(stream)
  BY <1>1, <1>4, JudgingFacts, SingleStep
<1>6. Approved(k, t)
  <2>1. \A i \in DOMAIN k.headers : ~Begun(t, i)
    BY <1>2, <1>3, <1>4 DEF Begun, Known
  <2> QED BY <1>3, <1>4, <2>1 DEF Approved
<1>7. ~expect_continue
  BY <1>4, Before DEF Judging, Streaming
<1>8. pos' \in pos + 1..Len(stream) /\ mode' \in {"parsing", "parsed"} /\ dead' = dead
  BY <1>1, <1>5, JudgingFacts DEF GoOn
<1>9. /\ stream[pos'].of = stream[pos + 1].of /\ Approved(k, stream[pos'])
      /\ ~expect_continue' /\ (error_code' # 0 => error_code # 0)
  BY <1>1, <1>5, <1>6, <1>7
<1> QED BY <1>1, <1>8, <1>9, JudgedOn

(* Two symbols that end something, of which the second says nothing new.   *)
LEMMA JudgedEnd ==
  ASSUME Judging, pos' = pos + 1, GoOn,
         UNCHANGED <<messages, stream, calls, expect_continue, error_code>>,
         NEW k, NEW s, NEW t, s = stream[pos], t = stream[pos + 1], k = messages[t.of],
         s.of = t.of, pos > 0, Spot(k, s), Known(k),
         s.header = Len(k.headers), Place(s) # "name", s.token \notin {"begin", "complete"},
         Place(s) = "path" => s.token = "stop", Place(t) \in {"headers", "complete"},
         Place(t) = "headers" => ~k.garbled,
         Place(t) = "complete" => /\ Place(s) \in {"headers", "garbage", "body"}
                                  /\ k.body # <<>> => Place(s) = "body"
  PROVE  Verdict'
<1>1. \A i \in DOMAIN k.headers : Begun(s, i)
  BY DEF Begun, Known, Spot
<1>2. ASSUME error_code = 0
      PROVE  Approved(k, t)
  <2>1. Approved(k, s)
    <3>1. ~dead
      BY JudgingFacts
    <3> QED BY <1>2, <3>1, Zenon DEF Judging, Judged, ApprovedSoFar
  <2>2. Place(t) \in {"headers", "garbage", "body", "complete"} => ~k.garbled
    BY <2>1 DEF Approved
  <2>3. Place(t) \in {"body", "complete"} => (k.body # <<>> => k.length)
    BY <2>1 DEF Approved
  <2>4. Place(t) # "path"
    OBVIOUS
  <2> QED BY <1>1, <2>1, <2>2, <2>3, <2>4, ApprovedOn
<1>3. ASSUME expect_continue
      PROVE  BegunExpect(k, t)
  <2>1. BegunExpect(k, s)
    <3>1. ~dead
      BY JudgingFacts
    <3> QED BY <1>3, <3>1, Zenon DEF Judging, Judged, ExpectKnown
  <2>2. \A i \in DOMAIN k.headers : Begun(t, i)
    <3>1. t.header = Len(k.headers)
      <4>1. Spot(k, t)
        BY JudgingFacts, Symbols2, SentSpot
      <4> QED BY <4>1 DEF Spot
    <3>2. Place(t) # "name"
      OBVIOUS
    <3> QED BY <3>1, <3>2, SMTT(40) DEF Begun, Known
  <2> QED BY <2>1, <2>2, Zenon DEF BegunExpect
<1>4. pos' \in pos + 1..Len(stream) /\ mode' \in {"parsing", "parsed"} /\ dead' = dead
  BY JudgingFacts DEF GoOn
<1>5. /\ stream[pos'].of = stream[pos + 1].of
      /\ error_code' = 0 => Approved(k, stream[pos'])
      /\ expect_continue' => BegunExpect(k, stream[pos'])
      /\ error_code' # 0 => error_code # 0
  BY <1>2, <1>3
<1> QED BY <1>4, <1>5, JudgedOn

LEMMA JudgedHeadersEnd ==
  ASSUME Judging, HeadersEnd
  PROVE  Verdict'
<1>1. /\ mode = "parsing" /\ pos < limit /\ GoOn
      /\ stream[pos + 1].token = "stop" /\ stream[pos + 1].part = "headers"
      /\ UNCHANGED <<messages, stream, calls, expect_continue, error_code>>
  BY DEF HeadersEnd, clientVars, flagVars
<1>2. pos' = pos + 1
  <2>1. pos' \in {pos + 1, pos + 2} /\ (pos' = pos + 2 => stream[pos + 1].part # "headers")
    BY <1>1, JudgingFacts, StopRun
  <2> QED BY <1>1, <2>1
<1>3. /\ pos \in 1..Len(stream) - 1 /\ stream[pos] \in Sent /\ stream[pos + 1] \in Sent
      /\ Link(stream[pos], stream[pos + 1])
  BY <1>1, JudgingFacts, NotFirst
<1> PICK s, t, k : s = stream[pos] /\ t = stream[pos + 1] /\ k = messages[t.of]
  OBVIOUS
<1>4. s.token # "complete" /\ t.of = s.of /\ Links(k, s, t)
  <2>1. s.token # "complete"
    <3>1. s.token = "complete" => t.token = "begin"
      BY <1>3, Zenon DEF Link
    <3> QED BY <1>1, <3>1
  <2>2. t.of = s.of /\ Links(messages[s.of], s, t)
    BY <1>3, <2>1, Zenon DEF Link
  <2> QED BY <2>1, <2>2
<1>5. EndsHeaders(t) /\ EndsFields(k, s) /\ s.header = Len(k.headers)
  <2>1. EndsHeaders(t)
    BY <1>1 DEF EndsHeaders
  <2> QED BY <1>4, <2>1, Zenon DEF Links
<1>6. Known(k) /\ Spot(k, s) /\ Meant(k, t)
  BY <1>3, <1>4, JudgingFacts, Symbols2, SentSpot, SentTyped
<1>7. ~k.garbled
  BY <1>1, <1>5, <1>6 DEF Meant
<1>8. /\ Place(s) # "name" /\ s.token \notin {"begin", "complete"}
      /\ Place(s) = "path" => s.token = "stop"
  BY <1>5 DEF EndsFields, Place
<1>9. Place(t) = "headers" /\ pos > 0
  BY <1>1, <1>3 DEF Place
<1> QED BY <1>1, <1>2, <1>4, <1>5, <1>6, <1>7, <1>8, <1>9, JudgedEnd

LEMMA JudgedComplete ==
  ASSUME Judging, on_message_complete
  PROVE  Verdict'
<1>1. /\ Due("complete") /\ GoOn
      /\ UNCHANGED <<messages, stream, calls, expect_continue, error_code>>
  BY DEF on_message_complete, clientVars
<1>2. Place(stream[pos + 1]) = "complete" /\ pos < limit
  BY <1>1, DuePlace
<1> PICK s, t, k : s = stream[pos] /\ t = stream[pos + 1] /\ k = messages[t.of]
  OBVIOUS
<1>3. Known(k) /\ Spot(k, t)
  BY JudgingFacts, Symbols2, SentSpot
<1>4. t.token = "complete"
  BY <1>2, <1>3, Zenon DEF Spot
<1>5. pos' = pos + 1
  BY <1>1, <1>4, JudgingFacts, SingleStep
<1>6. pos \in 1..Len(stream) - 1 /\ s \in Sent /\ Link(s, t) /\ pos > 0
  <2>1. stream[pos + 1].token # "begin"
    BY <1>4
  <2> QED BY <2>1, JudgingFacts, NotFirst
<1>7. s.token # "complete" /\ t.of = s.of /\ AllSaid(k, s)
  <2>1. s.token # "complete"
    <3>1. s.token = "complete" => t.token = "begin"
      BY <1>6, Zenon DEF Link
    <3> QED BY <1>4, <3>1
  <2>2. t.of = s.of /\ Links(messages[s.of], s, t)
    BY <1>6, <2>1, Zenon DEF Link
  <2>3. Links(k, s, t)
    BY <2>2
  <2>4. AllSaid(k, s)
    BY <1>4, <2>3, Zenon DEF Links, AllSaid
  <2> QED BY <2>1, <2>2, <2>4
<1>8. Spot(k, s)
  BY <1>6, <1>7, JudgingFacts, Symbols2, SentSpot
<1>9. /\ Place(s) \in {"headers", "garbage", "body"} /\ (k.body # <<>> => Place(s) = "body")
      /\ s.header = Len(k.headers) /\ s.token # "begin"
  <2>1. /\ Place(s) \in {"headers", "garbage", "body"} /\ (k.body # <<>> => Place(s) = "body")
        /\ s.token # "begin"
    BY <1>7 DEF AllSaid, EndsHeaders, Place
  <2> QED BY <1>8, <2>1, Zenon DEF Spot
<1>10. /\ s.token \notin {"begin", "complete"} /\ Place(s) # "name" /\ Place(s) # "path"
       /\ Place(t) # "headers" /\ Place(t) = "complete"
  BY <1>2, <1>7, <1>9
<1> QED BY <1>1, <1>3, <1>5, <1>6, <1>7, <1>8, <1>9, <1>10, JudgedEnd

(* The message is not over at a symbol that does not complete it.          *)
LEMMA GoesFurther ==
  ASSUME Streaming, NEW q \in 1..Len(stream), stream[q].token # "complete"
  PROVE  /\ q \in 1..Len(stream) - 1 /\ q + 1 \in 1..Len(stream)
         /\ stream[q + 1] \in Sent /\ stream[q + 1].of = stream[q].of
         /\ Links(messages[stream[q].of], stream[q], stream[q + 1])
<1>1. q # Len(stream) /\ Len(stream) \in Nat
  BY Symbols2 DEF Streaming, Stream
<1>2. q \in 1..Len(stream) - 1 /\ q + 1 \in 1..Len(stream)
  BY <1>1
<1>3. Link(stream[q], stream[q + 1]) /\ stream[q + 1] \in Sent
  BY <1>2, Symbols2
<1> QED BY <1>2, <1>3, Zenon DEF Link

(* Behind the first symbol of the stream there is one before.              *)
LEMMA ComesAfter ==
  ASSUME Streaming, NEW q \in 1..Len(stream), stream[q].token # "begin"
  PROVE  /\ q - 1 \in 1..Len(stream) /\ stream[q - 1] \in Sent /\ stream[q].of = stream[q - 1].of
         /\ Links(messages[stream[q].of], stream[q - 1], stream[q])
<1>1. q # 1 /\ Len(stream) \in Nat
  BY Symbols2 DEF Streaming, Stream
<1> PICK x : x = q - 1
  OBVIOUS
<1>2. x \in 1..Len(stream) - 1 /\ x + 1 = q /\ x \in 1..Len(stream)
  BY <1>1
<1>3. Link(stream[x], stream[q]) /\ stream[x] \in Sent
  <2>1. Link(stream[x], stream[x + 1]) /\ stream[x] \in Sent
    BY <1>2, Symbols2
  <2> QED BY <1>2, <2>1
<1>4. stream[x].token # "complete"
  <2>1. stream[x].token = "complete" => stream[q].token = "begin"
    BY <1>3, Zenon DEF Link
  <2> QED BY <2>1
<1>5. stream[q].of = stream[x].of /\ Links(messages[stream[x].of], stream[x], stream[q])
  BY <1>3, <1>4, Zenon DEF Link
<1> QED BY <1>2, <1>3, <1>5

(* In front of a part of a value are those before it, the delimiter of the *)
(* name, and the last part of the name.                                    *)
LEMMA ValueRun ==
  ASSUME Streaming, NEW q \in 1..Len(stream), stream[q].token = "value"
  PROVE  \E r \in 1..q - 2 :
           /\ \A j \in r + 2..q : stream[j].token = "value"
           /\ stream[r] \in Sent /\ stream[r].token = "name" /\ stream[r].of = stream[q].of
           /\ stream[r].header = stream[q].header
           /\ stream[r].nth = Len(TextOf(messages[stream[q].of], "name", stream[q].header))
<1> PICK last, b, k : last = stream[q] /\ b = last.nth /\ k = messages[last.of]
  OBVIOUS
<1>0. /\ last \in Sent /\ b \in Nat \ {0} /\ Len(stream) \in Nat
      /\ \A i \in 1..Len(stream) : stream[i] \in Sent
  <2>1. last \in Sent /\ Len(stream) \in Nat /\ \A i \in 1..Len(stream) : stream[i] \in Sent
    BY Symbols2
  <2>2. Meant(k, last) /\ b \in Nat
    BY <2>1, SentTyped
  <2>3. b \in 1..Len(TextOf(k, "value", last.header))
    BY <2>2 DEF Meant
  <2> QED BY <2>1, <2>2, <2>3
<1> DEFINE Run(x) == /\ q - x + 1 \in 1..Len(stream)
                     /\ stream[q - x + 1].token = "value" /\ stream[q - x + 1].of = last.of
                     /\ stream[q - x + 1].header = last.header
                     /\ stream[q - x + 1].nth = b - x + 1
           P == {x \in 1..b : Run(x)}
<1>1. \A x : x \in P <=> x \in 1..b /\ Run(x)
  OBVIOUS
<1> HIDE DEF P
<1>2. 1 \in P
  <2>1. q - 1 + 1 = q /\ b - 1 + 1 = b
    BY <1>0
  <2>2. Run(1)
    BY <2>1
  <2> QED BY <1>0, <1>1, <2>2, SMTT(40)
<1>3. ASSUME NEW x \in 1..b, x + 1 \in 1..b, x \in P
      PROVE  x + 1 \in P
  <2> PICK y, z : y = q - x + 1 /\ z = q - (x + 1) + 1
    OBVIOUS
  <2>1. /\ y \in 1..Len(stream) /\ stream[y].token = "value" /\ stream[y].of = last.of
        /\ stream[y].header = last.header /\ stream[y].nth = b - x + 1
    BY <1>1, <1>3
  <2>2. y - 1 = z /\ b - x + 1 # 1 /\ b - (x + 1) + 1 = b - x
    BY <1>0, <1>3
  <2>3. z \in 1..Len(stream) /\ stream[z] \in Sent /\ stream[y].of = stream[z].of
        /\ Links(k, stream[z], stream[y])
    BY <2>1, <2>2, ComesAfter
  <2>4. Within(stream[z], stream[y])
    BY <2>1, <2>2, <2>3 DEF Links
  <2>5. stream[z].token = "value" /\ stream[z].header = last.header
        /\ stream[y].nth = stream[z].nth + 1
    BY <2>1, <2>4 DEF Within
  <2>6. stream[z].nth = b - x
    <3>1. stream[z].nth \in Nat
      BY <2>3, SentTyped
    <3>2. stream[z].nth + 1 = b - x + 1
      BY <2>1, <2>5
    <3>3. \A n \in Nat : n + 1 = b - x + 1 => n = b - x
      BY <1>0
    <3> QED BY <3>1, <3>2, <3>3
  <2>7. Run(x + 1)
    BY <2>1, <2>2, <2>3, <2>5, <2>6
  <2> QED BY <1>1, <1>3, <2>7
<1>4. 1..b \subseteq P
  BY <1>0, <1>2, <1>3, UpTo
<1> PICK v, w, r : v = q - b + 1 /\ w = q - b /\ r = q - b - 1
  OBVIOUS
<1>5. /\ v \in 1..Len(stream) /\ stream[v].token = "value" /\ stream[v].of = last.of
      /\ stream[v].header = last.header /\ stream[v].nth = 1 /\ v - 1 = w /\ w - 1 = r
      /\ r + 2 = v /\ v <= q
  <2>1. Run(b)
    <3>1. b \in 1..b
      BY <1>0, SMTT(40)
    <3>2. b \in P
      BY <1>4, <3>1
    <3> QED BY <1>1, <3>2
  <2>2. /\ q - b + 1 = v /\ b - b + 1 = 1 /\ v - 1 = w /\ w - 1 = r /\ r + 2 = v /\ v <= q
    BY <1>0, SMTT(40)
  <2> QED BY <2>1, <2>2
<1>6. ASSUME NEW j \in v..q
      PROVE  stream[j].token = "value"
  <2> PICK x : x = q - j + 1
    OBVIOUS
  <2>1. x \in 1..b /\ q - x + 1 = j
    <3>1. q \in Nat /\ j \in Int /\ b \in Nat /\ v = q - b + 1 /\ v <= j /\ j <= q
      BY <1>0, <1>5
    <3> QED BY <3>1, SMTT(40)
  <2>2. Run(x)
    BY <1>1, <1>4, <2>1
  <2> QED BY <2>1, <2>2
<1>7. w \in 1..Len(stream) /\ stream[w] \in Sent /\ stream[v].of = stream[w].of
      /\ Links(k, stream[w], stream[v])
  BY <1>5, ComesAfter
<1>8. stream[w].token = "stop" /\ stream[w].part = "name" /\ stream[w].header = last.header
      /\ stream[w].of = last.of
  <2>1. ~Within(stream[w], stream[v])
    <3> SUFFICES ASSUME Within(stream[w], stream[v])
                 PROVE  FALSE
      OBVIOUS
    <3>1. stream[w].token = "value" /\ stream[v].nth = stream[w].nth + 1
      BY <1>5 DEF Within
    <3>2. stream[w].nth \in Nat \ {0}
      <4>1. Meant(messages[stream[w].of], stream[w]) /\ stream[w].nth \in Nat
        BY <1>7, SentTyped
      <4>2. stream[w].nth \in 1..Len(TextOf(messages[stream[w].of], "value", stream[w].header))
        BY <3>1, <4>1 DEF Meant
      <4>3. stream[w].nth # 0
        BY <4>2
      <4> QED BY <4>1, <4>3
    <3> PICK n : n = stream[w].nth
      OBVIOUS
    <3>3. n + 1 = 1 /\ n \in Nat /\ n # 0
      BY <1>5, <3>1, <3>2
    <3> QED BY <3>3, SMTT(40)
  <2> QED BY <1>5, <1>7, <2>1 DEF Links
<1>9. r \in 1..Len(stream) /\ stream[r] \in Sent /\ stream[w].of = stream[r].of
      /\ Links(k, stream[r], stream[w])
  BY <1>5, <1>7, <1>8, ComesAfter
<1>10. stream[r].token = "name" /\ stream[r].header = last.header /\ stream[r].nth = stream[w].nth
  BY <1>8, <1>9 DEF Links
<1>11. stream[w].nth = Len(TextOf(k, "name", last.header))
  <2>1. Meant(k, stream[w])
    BY <1>7, <1>8, SentTyped
  <2> QED BY <1>8, <2>1 DEF Meant
<1>12. r \in 1..q - 2
  BY <1>0, <1>5, <1>9
<1> QED BY <1>5, <1>6, <1>8, <1>9, <1>10, <1>11, <1>12

(* A read() that ends in the value of Expect is cut where it matters.      *)
LEMMA SensitiveInValue ==
  ASSUME Streaming, NEW q \in 1..Len(stream) - 1, stream[q].token = "value",
         stream[q + 1].token = "value", NEW k, k = messages[stream[q].of],
         IsExpect(k, stream[q].header)
  PROVE  Sensitive(q)
<1>0. Len(stream) \in Nat /\ q \in 1..Len(stream) /\ q < Len(stream)
  BY Symbols2
<1>1. PICK r \in 1..q - 2 :
        /\ \A j \in r + 2..q : stream[j].token = "value"
        /\ stream[r] \in Sent /\ stream[r].token = "name" /\ stream[r].of = stream[q].of
        /\ stream[r].header = stream[q].header
        /\ stream[r].nth = Len(TextOf(messages[stream[q].of], "name", stream[q].header))
  BY <1>0, ValueRun
<1>2. stream[r].part = "EXPECT"
  <2>1. TextOf(k, "name", stream[r].header) = <<"EXPECT">>
    BY <1>1 DEF TextOf, IsExpect
  <2>2. Len(<<"EXPECT">>) = 1 /\ <<"EXPECT">>[1] = "EXPECT"
    OBVIOUS
  <2>3. stream[r].nth = 1
    BY <1>1, <2>1, <2>2
  <2>4. Meant(k, stream[r])
    BY <1>1, SentTyped
  <2>5. stream[r].part = TextOf(k, "name", stream[r].header)[stream[r].nth]
    BY <1>1, <2>4 DEF Meant
  <2> QED BY <2>1, <2>2, <2>3, <2>5
<1>3. \A j \in r + 2..q + 1 : stream[j].token = "value"
  <2>1. \A j \in r + 2..q + 1 : j \in r + 2..q \/ j = q + 1
    BY <1>0
  <2> QED BY <1>1, <2>1
<1>4. r \in 1..q - 1
  BY <1>0
<1> QED BY <1>0, <1>1, <1>2, <1>3, <1>4 DEF Sensitive

(* A value that is not over goes on.                                       *)
LEMMA ValueGoesOn ==
  ASSUME Streaming, NEW q \in 1..Len(stream), stream[q].token = "value",
         NEW k, k = messages[stream[q].of],
         stream[q].nth # Len(k.headers[stream[q].header].value)
  PROVE  q \in 1..Len(stream) - 1 /\ stream[q + 1].token = "value"
<1> PICK s, t : s = stream[q] /\ t = stream[q + 1]
  OBVIOUS
<1>1. q \in 1..Len(stream) - 1 /\ t \in Sent /\ t.of = s.of /\ Links(k, s, t)
  BY GoesFurther
<1>2. Meant(k, t) /\ t.token \in SentTokens
  BY <1>1, SentTyped
<1>3. t.token \notin {"begin", "path", "query", "name", "body", "complete"}
  BY <1>1 DEF Links, Within, EndsFields, EndsHeaders
<1>4. ~EndsHeaders(t)
  BY <1>1 DEF Links, EndsFields
<1>5. t.token # "garbage"
  <2>1. t.token = "garbage" => t.part = "headers"
    BY <1>2, Zenon DEF Meant
  <2> QED BY <1>4, <2>1 DEF EndsHeaders
<1>6. t.token # "stop"
  <2> SUFFICES ASSUME t.token = "stop"
               PROVE  FALSE
    OBVIOUS
  <2>1. t.part # "headers"
    BY <1>4 DEF EndsHeaders
  <2>2. t.part = "value" /\ t.header = s.header /\ t.nth = s.nth
    BY <1>1, <2>1 DEF Links
  <2>3. t.nth = Len(TextOf(k, "value", t.header))
    BY <1>2, <2>1, <2>2 DEF Meant
  <2> QED BY <2>2, <2>3 DEF TextOf
<1> QED BY <1>1, <1>2, <1>3, <1>5, <1>6 DEF SentTokens

(* What unquote_url_inplace leaves has no percent sign without its digits. *)
LEMMA UnquotedParts ==
  ASSUME NEW p \in Seq(PathParts)
  PROVE  unquote_url_inplace(p) \in Seq(PathParts \cup {"esc"})
<1> PICK Q, m : Q = PathParts \cup {"esc"} /\ m = Len(p)
  OBVIOUS
<1>1. m \in Nat /\ DOMAIN p = 1..m /\ \A i \in 1..m : p[i] \in PathParts
  OBVIOUS
<1>2. Decoded(p) = [i \in 1..m |->
        IF \E d \in 1..2 : i - d \in DOMAIN p /\ p[i - d] = "%" THEN <<>>
        ELSE IF p[i] = "%" THEN <<"esc">> ELSE <<p[i]>>]
  BY <1>1 DEF Decoded
<1> PICK R : R = Seq(Q)
  OBVIOUS
<1>3. <<>> \in R /\ <<"esc">> \in R /\ \A i \in 1..m : <<p[i]>> \in R
  BY <1>1
<1>4. Decoded(p) \in [1..m -> R]
  BY <1>2, <1>3
<1>5. Decoded(p) \in Seq(R)
  BY <1>1, <1>4
<1>6. FlattenSeq(Decoded(p)) \in Seq(Q)
  BY <1>5, FlattenSeqType
<1>7. unquote_url_inplace(p) = <<>> \/ unquote_url_inplace(p) = FlattenSeq(Decoded(p))
  BY Zenon DEF unquote_url_inplace, Decoded
<1>8. <<>> \in Seq(Q)
  OBVIOUS
<1>9. unquote_url_inplace(p) \in Seq(Q)
  BY <1>6, <1>7, <1>8, Zenon
<1> QED BY <1>9

(* Where a callback for the path finds the message.                        *)
LEMMA PathDue ==
  ASSUME Judging, Due("path")
  PROVE  /\ pos > 0 /\ pos \in 1..Len(stream) - 1
         /\ stream[pos].of = stream[pos + 1].of /\ stream[pos] \in Sent
         /\ stream[pos].token = "path" => stream[pos].part \notin {"%", "h"}
<1>1. stream[pos + 1].token # "begin"
  BY DEF Due
<1>2. /\ pos \in 1..Len(stream) - 1 /\ stream[pos] \in Sent
  BY <1>1, JudgingFacts, NotFirst
<1>3. headers = "dict" /\ stream[pos].of = stream[pos + 1].of
  BY <1>1, Before DEF Judging, Streaming
<1>4. WholeUnit(stream[pos])
  <2>1. Exact /\ dead = FALSE
    BY JudgingFacts DEF Judging
  <2> QED BY <1>3, <2>1, HeldNow, Zenon DEF HoldsAt
<1> QED BY <1>2, <1>3, <1>4 DEF WholeUnit

(* A path that is decoded has nothing in it that cannot be.                *)
LEMMA JudgedPathOn ==
  ASSUME Judging, Due("path"), GoOn, unquote_url_inplace(Piece("path")) # <<>>,
         UNCHANGED <<messages, stream, calls, expect_continue, error_code>>
  PROVE  Verdict'
<1> PICK k, s, t, path : /\ k = messages[stream[pos + 1].of] /\ s = stream[pos]
                         /\ t = stream[pos'] /\ path = unquote_url_inplace(Piece("path"))
  OBVIOUS
<1>1. /\ pos > 0 /\ s.of = stream[pos + 1].of /\ s \in Sent
      /\ s.token = "path" => s.part \notin {"%", "h"}
  BY PathDue
<1>2. /\ pos' \in pos + 1..Len(stream) /\ t.of = stream[pos + 1].of
      /\ PathSays(k, path, s, t)
  BY <1>1, JudgingFacts, PathSaid
<1>3. t \in Sent /\ Known(k) /\ Spot(k, t) /\ Spot(k, s)
  <2>1. t \in Sent
    BY <1>2, JudgingFacts, Symbols2
  <2> QED BY <1>1, <1>2, <2>1, JudgingFacts, Symbols2, SentSpot
<1>4. PICK a \in Nat : /\ \/ s.token = "begin" /\ a = 0
                          \/ s.token = "path" /\ s.nth = a
                       /\ a <= t.nth /\ path = SubSeq(k.path, a + 1, t.nth)
  BY <1>2, Zenon DEF PathSays
<1>5. Place(t) = "path" /\ t.header = 0 /\ s.header = 0 /\ t.nth \in Nat /\ t.nth <= Len(k.path)
  <2>1. Place(t) = "path"
    BY <1>2, Zenon DEF PathSays
  <2>2. Place(s) \in {"begin", "path"}
    BY <1>4 DEF Place
  <2> QED BY <1>3, <2>1, <2>2 DEF Spot, TextOf
<1>6. \A i \in DOMAIN k.headers : ~Begun(t, i) /\ ~Begun(s, i)
  <2> SUFFICES ASSUME NEW i \in DOMAIN k.headers PROVE ~Begun(t, i) /\ ~Begun(s, i)
    OBVIOUS
  <2>1. DOMAIN k.headers = 1..Len(k.headers)
    BY <1>3, Zenon DEF Known
  <2>2. ~(i < 0) /\ i # 0
    BY <2>1
  <2> QED BY <1>5, <2>2 DEF Begun
<1>7. path \in Seq(PathParts \cup {"esc"})
  <2>1. Piece("path") \in Seq(PathParts)
    <3>1. CASE stream[pos + 1].token = "stop"
      BY <3>1 DEF Piece
    <3>2. CASE stream[pos + 1].token # "stop"
      <4>1. stream[pos + 1].token = "path"
        BY <3>2 DEF Due
      <4>2. pos \in 1..Len(stream)
        BY PathDue
      <4>3. \E n, nth, a0 : Walk(Piece("path"), k.path, n, a0, nth)
        BY <1>1, <4>1, <4>2, JudgingFacts, PathWalk, ZenonT(40)
      <4> QED BY <4>3, Zenon DEF Walk
    <3> QED BY <3>1, <3>2
  <2> QED BY <2>1, UnquotedParts
<1>8. ASSUME NEW i \in a + 1..t.nth
      PROVE  k.path[i] # "bad"
  <2>1. k.path \in Seq(Units) /\ a \in Nat /\ t.nth \in Nat /\ t.nth <= Len(k.path)
    BY <1>3, <1>5 DEF Known, Units
  <2> PICK b, x, text : b = t.nth /\ x = i - a /\ text = k.path
    OBVIOUS
  <2>range. i \in a + 1..b /\ b \in Nat /\ b <= Len(text) /\ text \in Seq(Units)
    BY <2>1
  <2>2. x \in 1..b - a /\ a + x = i /\ b - a \in Nat /\ Len(text) \in Nat
    <3>1. a \in Nat /\ b \in Nat /\ i \in Int /\ a + 1 <= i /\ i <= b /\ Len(text) \in Nat
      BY <2>range
    <3> QED BY <3>1
  <2>3. PICK c : c = a + 1
    OBVIOUS
  <2>4. c \in Int /\ b \in Int /\ c <= b /\ b - c + 1 = b - a /\ c + x - 1 = i
        /\ \A j \in c..b : text[j] \in Units
    <3>1. a \in Nat /\ b \in Nat /\ i \in Int /\ a + 1 <= i /\ i <= b /\ b <= Len(text)
      BY <2>range
    <3>2. \A j \in 1..Len(text) : text[j] \in Units
      BY <2>range
    <3>3. \A j \in c..b : j \in 1..Len(text)
      BY <2>2, <2>3, <3>1, SMTT(40)
    <3> QED BY <2>2, <2>3, <3>1, <3>2, <3>3, SMTT(40)
  <2>6. path[x] = text[i] /\ x \in 1..Len(path)
    <3>1. path = SubSeq(text, c, b)
      BY <1>4, <2>3
    <3>2. /\ Len(SubSeq(text, c, b)) = (IF c <= b THEN b - c + 1 ELSE 0)
          /\ \A j \in 1..b - c + 1 : SubSeq(text, c, b)[j] = text[c + j - 1]
      BY <2>4, SubSeqProperties
    <3>3. Len(path) = b - a /\ path[x] = text[c + x - 1]
      BY <2>2, <2>4, <3>1, <3>2
    <3> QED BY <2>2, <2>4, <3>3
  <2>5. path[x] \in PathParts \cup {"esc"}
    BY <1>7, <2>6
  <2> QED BY <2>5, <2>6 DEF PathParts
<1>9. ASSUME error_code' = 0
      PROVE  Approved(k, t)
  <2>1. ASSUME NEW i \in DOMAIN k.path, i <= t.nth
        PROVE  k.path[i] # "bad"
    <3>1. i \in Nat /\ i >= 1
      BY <1>3, SMTT(40) DEF Known
    <3>2. CASE i > a
      <4>1. i \in a + 1..t.nth
        BY <1>5, <2>1, <3>1, <3>2
      <4> QED BY <1>8, <4>1
    <3>3. CASE ~(i > a)
      <4>1. s.token = "path" /\ i <= s.nth
        BY <1>4, <3>1, <3>3
      <4>2. Approved(k, s)
        <5>1. error_code = 0 /\ ~dead
          BY <1>9, JudgingFacts
        <5> QED BY <1>1, <5>1, Zenon DEF Judging, Judged, ApprovedSoFar
      <4> QED BY <4>1, <4>2, Zenon DEF Approved
    <3> QED BY <3>2, <3>3
  <2> QED BY <1>5, <1>6, <2>1 DEF Approved
<1>10. ~expect_continue
  <2> SUFFICES ASSUME expect_continue
               PROVE  FALSE
    OBVIOUS
  <2>1. BegunExpect(k, s)
    <3>1. ~dead
      BY JudgingFacts
    <3> QED BY <1>1, <3>1, Zenon DEF Judging, Judged, ExpectKnown
  <2> QED BY <1>6, <2>1, Zenon DEF BegunExpect
<1>11. /\ stream[pos'].of = stream[pos + 1].of
       /\ error_code' = 0 => Approved(k, stream[pos'])
       /\ expect_continue' => BegunExpect(k, stream[pos'])
       /\ error_code' # 0 => error_code # 0
  BY <1>2, <1>9, <1>10
<1>12. mode' \in {"parsing", "parsed"} /\ dead' = dead
  BY DEF GoOn
<1> QED BY <1>2, <1>11, <1>12, JudgedOn

(* The symbols of an escape are sent one after the other.                  *)
LEMMA EscapeGoesOn ==
  ASSUME Streaming, NEW q \in 1..Len(stream), stream[q].token = "path",
         stream[q].part \in {"%", "h"}, NEW k, k = messages[stream[q].of],
         k.path[stream[q].nth] # "bad"
  PROVE  /\ q + 1 \in 1..Len(stream) /\ stream[q + 1].token = "path"
         /\ stream[q + 1].part = (IF stream[q].part = "%" THEN "h" ELSE "l")
         /\ stream[q + 1].of = stream[q].of
         /\ k.path[stream[q + 1].nth] # "bad"
<1> PICK s, t : s = stream[q] /\ t = stream[q + 1]
  OBVIOUS
<1>1. q + 1 \in 1..Len(stream) /\ t \in Sent /\ t.of = s.of /\ Links(k, s, t)
  BY GoesFurther
<1>2. Meant(k, t) /\ t.token \in SentTokens
  BY <1>1, SentTyped
<1>3. t.token \notin {"begin", "query", "name", "value", "body", "complete"}
  BY <1>1 DEF Links, Within, EndsFields, EndsHeaders
<1>4. ~EndsHeaders(t)
  BY <1>1 DEF Links, EndsFields
<1>5. t.token # "garbage"
  <2>1. t.token = "garbage" => t.part = "headers"
    BY <1>2, Zenon DEF Meant
  <2> QED BY <1>4, <2>1 DEF EndsHeaders
<1>6. t.token # "stop"
  <2>1. t.token = "stop" => t.part # "headers"
    BY <1>4 DEF EndsHeaders
  <2> QED BY <1>1, <2>1 DEF Links
<1>7. t.token = "path"
  BY <1>2, <1>3, <1>5, <1>6 DEF SentTokens
<1>8. Escapes(k, s, t) /\ t.part \in {"%", "h", "l", "c"}
  BY <1>1, <1>2, <1>7 DEF Links, Meant
<1>9. t.part \notin {"%", "c"}
  BY <1>8 DEF Escapes
<1>10. t.nth = s.nth /\ s.part = (IF t.part = "h" THEN "%" ELSE "h")
  BY <1>8, <1>9 DEF Escapes
<1> QED BY <1>1, <1>7, <1>8, <1>9, <1>10

(* A read() that ends in an escape is cut where it matters.                *)
LEMMA SensitiveInEscape ==
  ASSUME Streaming, NEW q \in 1..Len(stream), stream[q].token = "path",
         stream[q].part \in {"%", "h"}, NEW k, k = messages[stream[q].of],
         k.path[stream[q].nth] # "bad"
  PROVE  Sensitive(q)
<1>1. /\ q + 1 \in 1..Len(stream) /\ stream[q + 1].token = "path"
      /\ stream[q + 1].part \in {"h", "l"}
  BY EscapeGoesOn
<1>2. q < Len(stream)
  BY <1>1, Symbols2
<1> QED BY <1>1, <1>2 DEF Sensitive

(* An escape that is not cut is there as a whole.                          *)
LEMMA PieceKeepsEscapes ==
  ASSUME Streaming, pos < limit, stream[pos + 1].token = "path", ~Sensitive(limit),
         NEW i \in pos + 1..PieceEnd, stream[i].part \in {"%", "h"},
         NEW k, k = messages[stream[i].of], k.path[stream[i].nth] # "bad"
  PROVE  /\ i + 1 \in pos + 1..PieceEnd
         /\ stream[i + 1].part = (IF stream[i].part = "%" THEN "h" ELSE "l")
         /\ stream[i + 1].of = stream[i].of
         /\ k.path[stream[i + 1].nth] # "bad"
<1> PICK e : e = PieceEnd
  OBVIOUS
<1>1. /\ e \in pos + 1..limit
      /\ \A x \in pos + 1..e : stream[x].token = "path"
      /\ e = limit \/ stream[e + 1].token # "path"
  BY PieceEnds DEF Streaming
<1>2. pos \in Nat /\ limit \in Nat /\ Len(stream) \in Nat /\ limit <= Len(stream)
  BY Symbols2
<1>3. i \in 1..Len(stream) /\ i \in pos + 1..e /\ i \in Nat /\ e \in Nat
  BY <1>1, <1>2
<1>4. stream[i].token = "path"
  BY <1>1, <1>3
<1>5. /\ stream[i + 1].token = "path"
      /\ stream[i + 1].part = (IF stream[i].part = "%" THEN "h" ELSE "l")
      /\ stream[i + 1].of = stream[i].of /\ k.path[stream[i + 1].nth] # "bad"
  BY <1>3, <1>4, EscapeGoesOn
<1>6. Sensitive(i)
  BY <1>3, <1>4, SensitiveInEscape
<1>7. i # e
  <2> SUFFICES ASSUME i = e
               PROVE  FALSE
    OBVIOUS
  <2>1. e = limit
    BY <1>1, <1>5
  <2> QED BY <1>6, <2>1
<1>8. i + 1 \in pos + 1..e
  BY <1>2, <1>3, <1>7
<1> QED BY <1>5, <1>8

(* When nothing is left, a percent sign has not got its digits.            *)
LEMMA NotAllEscaped ==
  ASSUME NEW n \in Nat \ {0}, NEW a \in Nat, NEW p, NEW t, NEW nth,
         Walk(p, t, n, a, nth), t \in Seq(Units), unquote_url_inplace(p) = <<>>
  PROVE  ~Escaped(p, n)
<1> SUFFICES ASSUME Escaped(p, n)
             PROVE  FALSE
  OBVIOUS
<1>1. p \in Seq(PathParts) /\ Len(p) = n /\ nth[n] \in 1..Len(t)
  <2>1. n \in 1..n
    OBVIOUS
  <2> QED BY <2>1, Zenon DEF Walk
<1>2. DOMAIN p = 1..n
  BY <1>1
<1>3. /\ FlattenSeq(Decoded(p)) = SubSeq(t, a + 1, nth[n])
      /\ a + 1 <= nth[n] /\ nth[n] <= Len(t)
  BY DecodedText
<1>4. ~\E i \in DOMAIN p : p[i] = "%" /\ ~Escape(p, i)
  BY <1>1, <1>2 DEF Escaped, Escape
<1>5. unquote_url_inplace(p) = FlattenSeq(Decoded(p))
  BY <1>4, Zenon DEF unquote_url_inplace, Decoded
<1> PICK b, c : b = nth[n] /\ c = a + 1
  OBVIOUS
<1>6. c \in Int /\ b \in Int /\ c <= b /\ \A j \in c..b : t[j] \in Units
  <2>1. a \in Nat /\ b \in 1..Len(t) /\ a + 1 <= b /\ Len(t) \in Nat
    BY <1>1, <1>3
  <2>2. \A j \in 1..Len(t) : t[j] \in Units
    OBVIOUS
  <2> QED BY <2>1, <2>2
<1>7. Len(SubSeq(t, c, b)) = b - c + 1
  BY <1>6, SubSeqProperties
<1>8. SubSeq(t, c, b) = <<>>
  BY <1>3, <1>5
<1>9. Len(SubSeq(t, c, b)) = 0
  BY <1>8
<1> QED BY <1>6, <1>7, <1>9

(* When there is nothing to store, the path cannot be decoded.             *)
LEMMA PathRefused ==
  ASSUME Judging, Due("path"), unquote_url_inplace(Piece("path")) = <<>>
  PROVE  ~Acceptable(messages[stream[pos + 1].of])
<1> PICK k, p, n, a, nth : /\ k = messages[stream[pos + 1].of] /\ p = Piece("path")
                           /\ n = PieceEnd - pos /\ a = stream[pos].nth
                           /\ nth = [i \in 1..n |-> stream[pos + i].nth]
  OBVIOUS
<1>1. /\ Streaming /\ pos < limit /\ pos \in Nat /\ pos + 1 \in 1..Len(stream)
      /\ ~Sensitive(limit) /\ ~Sensitive(from)
  BY JudgingFacts DEF Judging, ReadFrom, CutsKnown
<1>2. stream[pos + 1].token = "path"
  <2> SUFFICES ASSUME stream[pos + 1].token = "stop", stream[pos + 1].part = "path", pos = from
               PROVE  FALSE
    BY DEF Due
  <2>1. pos < Len(stream)
    BY <1>1
  <2>2. Sensitive(from)
    BY <2>1 DEF Sensitive
  <2> QED BY <1>1, <2>2
<1>3. /\ pos \in 1..Len(stream) /\ stream[pos].of = stream[pos + 1].of
      /\ stream[pos].token = "path" => stream[pos].part \notin {"%", "h"}
  BY PathDue
<1>4. n \in Nat \ {0} /\ a \in Nat /\ Walk(p, k.path, n, a, nth)
  BY <1>1, <1>2, <1>3, PathWalk
<1>5. k.path \in Seq(Units)
  <2>1. Known(k)
    BY <1>1, Symbols2, SentSpot
  <2> QED BY <2>1 DEF Known, Units
<1>8. ~Escaped(p, n)
  BY <1>4, <1>5, NotAllEscaped
<1>9. PICK i \in 1..n : p[i] = "%" /\ ~(i + 2 <= n /\ p[i + 1] = "h" /\ p[i + 2] = "l")
  BY <1>8, Zenon DEF Escaped
<1> PICK e : e = PieceEnd
  OBVIOUS
<1>10. e \in Nat /\ n = e - pos /\ p = [x \in 1..n |-> stream[pos + x].part]
  <2>1. limit \in Nat /\ e \in pos + 1..limit
    BY <1>1, Symbols2, PieceEnds DEF Streaming
  <2>2. p = [x \in 1..n |-> stream[pos + x].part]
    BY <1>1, <1>2, PieceParts
  <2> QED BY <1>1, <2>1, <2>2
<1> SUFFICES ASSUME Acceptable(k)
             PROVE  FALSE
  OBVIOUS
<1>11. \A j \in 1..Len(k.path) : k.path[j] # "bad"
  <2>1. "bad" \notin ToSet(k.path)
    BY Zenon DEF Acceptable
  <2>2. DOMAIN k.path = 1..Len(k.path)
    BY <1>5
  <2> QED BY <2>1, <2>2, Zenon DEF ToSet
<1>12. /\ pos + i \in pos + 1..e /\ stream[pos + i].part = "%"
       /\ stream[pos + i].of = stream[pos + 1].of
       /\ k.path[stream[pos + i].nth] # "bad"
  <2>1. pos + i \in pos + 1..e /\ i \in Nat
    BY <1>1, <1>4, <1>10
  <2>2. stream[pos + i].part = "%"
    BY <1>9, <1>10
  <2>3. nth[i] \in 1..Len(k.path) /\ nth[i] = stream[pos + i].nth
    BY <1>4, Zenon DEF Walk
  <2>4. stream[pos + i].of = stream[pos + 1].of
    <3> PICK x, y : x = pos + 1 /\ y = pos + i
      OBVIOUS
    <3>1. x \in 1..Len(stream) /\ y \in x..Len(stream)
      <4>1. e \in pos + 1..limit /\ limit <= Len(stream) /\ Len(stream) \in Nat /\ limit \in Nat
        BY <1>1, Symbols2, PieceEnds DEF Streaming
      <4> QED BY <1>1, <2>1, <4>1
    <3>2. \A j \in x + 1..y : stream[j].token # "begin"
      <4>1. \A j \in pos + 1..e : stream[j].token = "path"
        BY <1>1, <1>2, <1>10, PieceEnds DEF Streaming
      <4>2. \A j \in x + 1..y : j \in pos + 1..e
        <5>1. pos \in Nat /\ i \in Nat /\ e \in Nat /\ pos + i <= e
          BY <1>1, <1>10, <2>1
        <5> QED BY <5>1
      <4> QED BY <4>1, <4>2
    <3>3. stream[y].of = stream[x].of
      BY <1>1, <3>1, <3>2, SameMessage DEF Streaming
    <3> QED BY <3>3
  <2> QED BY <1>11, <2>1, <2>2, <2>3, <2>4
<1>13. /\ pos + i + 1 \in pos + 1..e /\ stream[pos + i + 1].part = "h"
       /\ stream[pos + i + 1].of = stream[pos + 1].of
       /\ k.path[stream[pos + i + 1].nth] # "bad"
  BY <1>1, <1>2, <1>12, PieceKeepsEscapes
<1>14. pos + i + 1 + 1 \in pos + 1..e /\ stream[pos + i + 1 + 1].part = "l"
  BY <1>1, <1>2, <1>13, PieceKeepsEscapes
<1>15. i + 1 \in 1..n /\ i + 2 \in 1..n /\ pos + i + 1 = pos + (i + 1)
       /\ pos + i + 1 + 1 = pos + (i + 2)
  BY <1>1, <1>4, <1>10, <1>13, <1>14
<1>16. p[i + 1] = "h" /\ p[i + 2] = "l" /\ i + 2 <= n
  BY <1>10, <1>13, <1>14, <1>15
<1> QED BY <1>9, <1>16

LEMMA JudgedPath ==
  ASSUME Judging, on_path
  PROVE  Verdict'
<1> PICK path : path = unquote_url_inplace(Piece("path"))
  OBVIOUS
<1>1. /\ Due("path") /\ UNCHANGED <<messages, stream, calls>>
      /\ \/ path = <<>> /\ Stop(error_code)
         \/ path # <<>> /\ GoOn /\ UNCHANGED <<expect_continue, error_code>>
  BY Zenon DEF on_path, clientVars, flagVars
<1>2. CASE path = <<>> /\ Stop(error_code)
  <2>1. ~Acceptable(messages[stream[pos + 1].of])
    BY <1>1, <1>2, PathRefused
  <2> QED BY <1>1, <1>2, <2>1, JudgedStopped DEF Stop
<1>3. CASE path # <<>> /\ GoOn /\ UNCHANGED <<expect_continue, error_code>>
  BY <1>1, <1>3, JudgedPathOn
<1> QED BY <1>1, <1>2, <1>3

(* The key of Expect is that of no other header.                           *)
LEMMA ExpectKey ==
  ASSUME NEW h, h.name \in Seq(Parts)
  PROVE  RawKey(h) = HTTP_EXPECT <=> h.name = <<"EXPECT">>
<1> PICK key, name : key = RawKey(h) /\ name = h.name
  OBVIOUS
<1>1. /\ Len(key) = 1 + Len(name) /\ key[1] = "HTTP_"
      /\ \A i \in 1..Len(name) : key[i + 1] = Dashes(name[i])
      /\ \E S : key \in Seq(S)
  BY RawKeys
<1>2. Len(HTTP_EXPECT) = 2 /\ HTTP_EXPECT[1] = "HTTP_" /\ HTTP_EXPECT[2] = "EXPECT"
  BY DEF HTTP_EXPECT
<1>3. name \in Seq(Parts) /\ Len(name) \in Nat
  OBVIOUS
<1>4. \A x : Dashes(x) = "EXPECT" <=> x = "EXPECT"
  <2>1. \A x : Dashes(x) = "EXPECT" => x = "EXPECT"
    BY Zenon DEF Dashes
  <2>2. Dashes("EXPECT") = "EXPECT"
    BY DEF Dashes
  <2> QED BY <2>1, <2>2
<1>5. ASSUME key = HTTP_EXPECT
      PROVE  name = <<"EXPECT">>
  <2>1. Len(name) = 1
    <3>1. 2 = 1 + Len(name)
      BY <1>1, <1>2, <1>5
    <3>2. \A n \in Nat : 2 = 1 + n => n = 1
      OBVIOUS
    <3> QED BY <1>3, <3>1, <3>2, Zenon
  <2>2. 1 \in 1..Len(name) /\ 1 + 1 = 2
    BY <2>1
  <2>3. Dashes(name[1]) = "EXPECT"
    BY <1>1, <1>2, <1>5, <2>2
  <2>4. name[1] = "EXPECT"
    BY <1>4, <2>3
  <2> QED BY <1>3, <2>1, <2>4
<1>6. ASSUME name = <<"EXPECT">>
      PROVE  key = HTTP_EXPECT
  <2>1. Len(name) = 1 /\ name[1] = "EXPECT" /\ 1 + 1 = 2 /\ 1 \in 1..Len(name)
    BY <1>6
  <2>2. Len(key) = 2 /\ key[2] = "EXPECT"
    <3>1. key[1 + 1] = Dashes(name[1])
      BY <1>1, <2>1
    <3> QED BY <1>1, <1>4, <2>1, <3>1
  <2>3. PICK S : key \in Seq(S)
    BY <1>1
  <2>4. key = <<"HTTP_", "EXPECT">>
    BY <1>1, <2>2, <2>3
  <2> QED BY <2>4 DEF HTTP_EXPECT
<1> QED BY <1>5, <1>6

LEMMA ExpectIsValid ==
  ASSUME NEW h, h.name = <<"EXPECT">>
  PROVE  Valid(h)
<1> PICK name : name = h.name
  OBVIOUS
<1>1. Len(name) = 1 /\ name[1] = "EXPECT"
  OBVIOUS
<1>2. ASSUME NEW i \in 1..Len(name)
      PROVE  name[i] # "_"
  <2>1. \A j \in 1..1 : j = 1
    OBVIOUS
  <2>2. i = 1
    BY <1>1, <2>1, Zenon
  <2>3. name[i] = "EXPECT"
    BY <1>1, <2>2, Zenon
  <2>4. "EXPECT" # "_"
    OBVIOUS
  <2> QED BY <2>3, <2>4, Zenon
<1> QED BY <1>2, Zenon DEF Valid, Contains

(* When the value of a header is an expectation that is looked at.         *)
LooksAt(k, h) == ~expect_continue /\ error_code = 0 /\ k.minor = 1 /\ IsExpect(k, h)

Decides(k, h, piece) ==
  IF LooksAt(k, h)
  THEN IF IsPrefix(piece, Expectation)
       THEN expect_continue' = TRUE /\ UNCHANGED error_code
       ELSE error_code' = HTTP_EXPECTATION_FAILED /\ UNCHANGED expect_continue
  ELSE UNCHANGED <<expect_continue, error_code>>

LEMMA ValueLooked ==
  ASSUME Judging, on_header_value,
         NEW k, NEW s, NEW u, NEW t, NEW a, Tells("value", k, s, u, t, a)
  PROVE  u.header \in 1..Len(k.headers) /\ Decides(k, u.header, Piece("value"))
<1> PICK h : h = u.header
  OBVIOUS
<1>1. /\ Due("value")
      /\ \/ invalid_header /\ UNCHANGED <<expect_continue, error_code>>
         \/ ~invalid_header /\ Expect(Piece("value"))
  BY Zenon DEF on_header_value
<1>2. /\ Known(k) /\ Spot(k, s) /\ Spot(k, u) /\ From(k, s, "value", h, a)
      /\ k = messages[s.of] /\ k = messages[t.of] /\ t.of = stream[pos + 1].of /\ s = stream[pos]
  BY Zenon DEF Tells
<1>3. (s.token = "value" \/ (s.token = "stop" /\ s.part = "name")) /\ h = s.header
  BY <1>2 DEF From, Begins
<1>4. HoldsAt(k, s, environ, last_call_was_header_value, invalid_header, field)
  <2>1. headers = "dict"
    <3>1. stream[pos + 1].token # "begin"
      BY <1>1 DEF Due
    <3> QED BY <3>1, Before DEF Judging, Streaming
  <2>2. Exact /\ dead = FALSE
    BY JudgingFacts DEF Judging
  <2> QED BY <1>2, <2>1, <2>2, HeldNow
<1>5. /\ h \in 1..Len(k.headers)
      /\ invalid_header <=> ~Valid(k.headers[h])
      /\ ~invalid_header => field = RawKey(k.headers[h])
  BY <1>2, <1>3, <1>4, NameOfValue
<1>6. k.headers[h].name \in Seq(Parts)
  BY <1>2, <1>5 DEF Known
<1>7. IsExpect(k, h) <=> ~invalid_header /\ field = HTTP_EXPECT
  <2>1. IsExpect(k, h) => Valid(k.headers[h])
    BY ExpectIsValid, Zenon DEF IsExpect
  <2>2. RawKey(k.headers[h]) = HTTP_EXPECT <=> IsExpect(k, h)
    BY <1>6, ExpectKey DEF IsExpect
  <2> QED BY <1>5, <2>1, <2>2, Zenon
<1>8. Current = k
  BY <1>2 DEF Current
<1>9. Decides(k, h, Piece("value"))
  <2>1. CASE invalid_header /\ UNCHANGED <<expect_continue, error_code>>
    BY <1>7, <2>1, Zenon DEF Decides, LooksAt
  <2>2. CASE ~invalid_header /\ Expect(Piece("value"))
    <3>1. Expect(Piece("value"))
      BY <2>2
    <3>2. LooksAt(k, h) <=> ~expect_continue /\ error_code = 0
                             /\ Current.minor = 1 /\ field = HTTP_EXPECT
      BY <1>7, <1>8, <2>2, Zenon DEF LooksAt
    <3> QED BY <3>1, <3>2, Zenon DEF Decides, Expect
  <2> QED BY <1>1, <2>1, <2>2, Zenon
<1> QED BY <1>5, <1>9

(* What a value that is expected starts with is expected, too.             *)
LEMMA PrefixOfPrefix ==
  ASSUME NEW v \in Seq(Parts), NEW n \in Nat, n <= Len(v), IsPrefix(v, Expectation)
  PROVE  IsPrefix(SubSeq(v, 1, n), Expectation)
<1> PICK m, x, e : m = Len(v) /\ x = SubSeq(v, 1, n) /\ e = Expectation
  OBVIOUS
<1>1. m \in Nat /\ \A i \in 1..m : v[i] \in Parts
  OBVIOUS
<1>2. m <= Len(e) /\ SubSeq(v, 1, m) = SubSeq(e, 1, m) /\ Len(e) = 2
  BY DEF IsPrefix, Expectation
<1>3. v = SubSeq(e, 1, m)
  BY <1>2, SubSeqFull
<1>4. n \in 0..m /\ m \in 0..2
  BY <1>1, <1>2
<1>5. x = SubSeq(e, 1, n) /\ Len(x) = n
  <2>1. e = <<"100-", "continue">>
    BY DEF Expectation
  <2>2. (m = 0 \/ m = 1 \/ m = 2) /\ (n = 0 \/ n = 1 \/ n = 2)
    BY <1>4
  <2> QED BY <1>3, <1>4, <2>1, <2>2
<1>6. SubSeq(x, 1, n) = x
  BY <1>5, SubSeqFull
<1>7. n <= Len(e)
  BY <1>2, <1>4
<1> QED BY <1>5, <1>6, <1>7 DEF IsPrefix

(* A callback that ends within a value ends the read(), too, where it      *)
(* matters.                                                                *)
LEMMA ValueNotCut ==
  ASSUME Judging, Due("value"), GoOn, pos' \in pos + 1..Len(stream),
         stream[pos'].token = "value", NEW k, k = messages[stream[pos'].of],
         IsExpect(k, stream[pos'].header)
  PROVE  stream[pos'].nth = Len(k.headers[stream[pos'].header].value)
<1> PICK q, e : q = pos' /\ e = PieceEnd
  OBVIOUS
<1> SUFFICES ASSUME stream[q].nth # Len(k.headers[stream[q].header].value)
             PROVE  FALSE
  OBVIOUS
<1>1. /\ Streaming /\ pos < limit /\ pos \in Nat /\ Len(stream) \in Nat
      /\ limit \in Nat /\ limit <= Len(stream) /\ ~Sensitive(limit)
  <2>1. ~Sensitive(limit)
    BY JudgingFacts, Zenon DEF Judging, ReadFrom, CutsKnown
  <2>2. limit \in Nat /\ limit <= Len(stream)
    BY JudgingFacts, Symbols2
  <2> QED BY <2>1, <2>2, JudgingFacts
<1>2. q \in 1..Len(stream) /\ stream[q].token = "value"
  BY <1>1
<1>3. q \in 1..Len(stream) - 1 /\ stream[q + 1].token = "value"
  BY <1>1, <1>2, ValueGoesOn
<1>4. /\ e \in pos + 1..limit
      /\ \A i \in pos + 1..e : stream[i].token = stream[pos + 1].token
      /\ e = limit \/ stream[e + 1].token # stream[pos + 1].token
  BY <1>1, PieceEnds DEF Streaming
<1>5. q = e
  <2>1. e < limit /\ stream[e + 1].token = "stop" => q = e + 1
    BY DEF GoOn
  <2>2. ~(e < limit /\ stream[e + 1].token = "stop") => q = e
    BY DEF GoOn
  <2> QED BY <1>2, <2>1, <2>2
<1>6. stream[pos + 1].token = "value"
  <2>1. e \in pos + 1..e
    BY <1>1, <1>4
  <2> QED BY <1>2, <1>4, <1>5, <2>1
<1>7. q = limit
  BY <1>3, <1>4, <1>5, <1>6
<1>8. Sensitive(q)
  BY <1>1, <1>2, <1>3, SensitiveInValue
<1> QED BY <1>1, <1>7, <1>8

(* What is looked at is the start of the value.                            *)
LEMMA ValueFromStart ==
  ASSUME Judging, Due("value"), NEW k, NEW s, NEW u, NEW t, NEW a,
         Tells("value", k, s, u, t, a), IsExpect(k, u.header), Piece("value") # <<>>
  PROVE  a = 0
<1> SUFFICES ASSUME a # 0
             PROVE  FALSE
  OBVIOUS
<1>1. s = stream[pos] /\ k = messages[s.of] /\ From(k, s, "value", u.header, a)
  BY Zenon DEF Tells
<1>2. s.token = "value" /\ s.header = u.header
  BY <1>1 DEF From
<1>3. stream[pos + 1].token = "value"
  BY DEF Due, Piece
<1>4. /\ Streaming /\ mode = "parsing" /\ ~Sensitive(from)
  BY JudgingFacts, Zenon DEF Judging, ReadFrom, CutsKnown
<1>5. pos = from
  BY <1>1, <1>2, <1>3, <1>4, JudgingFacts DEF Judging, ReadFrom, NewPiece
<1>6. pos \in 1..Len(stream) - 1
  BY <1>3, JudgingFacts, NotFirst
<1>7. Sensitive(pos)
  BY <1>1, <1>2, <1>3, <1>4, <1>6, SensitiveInValue
<1> QED BY <1>4, <1>5, <1>7

LEMMA ValueRefused ==
  ASSUME Judging, Due("value"), NEW k, NEW s, NEW u, NEW t, NEW a,
         Tells("value", k, s, u, t, a), Decides(k, u.header, Piece("value")),
         u.header \in 1..Len(k.headers), error_code = 0, error_code' # 0
  PROVE  ~Acceptable(k)
<1> PICK h, v, piece : h = u.header /\ v = k.headers[h].value /\ piece = Piece("value")
  OBVIOUS
<1>1. k.minor = 1 /\ IsExpect(k, h) /\ ~IsPrefix(piece, Expectation)
  BY Zenon DEF Decides, LooksAt
<1>2. piece # <<>>
  <2>1. IsPrefix(<<>>, Expectation)
    <3>1. Len(<<>>) = 0 /\ SubSeq(<<>>, 1, 0) = <<>> /\ SubSeq(Expectation, 1, 0) = <<>>
      BY SubSeqEmpty
    <3>2. Len(Expectation) = 2
      BY DEF Expectation
    <3> QED BY <3>1, <3>2 DEF IsPrefix
  <2> QED BY <1>1, <2>1
<1>3. a = 0
  BY <1>1, <1>2, ValueFromStart
<1>4. v \in Seq(Parts) /\ u.nth \in Nat /\ u.nth <= Len(v) /\ piece = SubSeq(v, 1, u.nth)
  <2>1. TextOf(k, "value", u.header) = v
    BY DEF TextOf
  <2>2. piece = SubSeq(v, a + 1, u.nth) /\ v \in Seq(Parts) /\ u.nth <= Len(v)
        /\ Spot(k, u)
    BY <2>1, Zenon DEF Tells
  <2>3. u.nth \in Nat
    BY <2>2, Zenon DEF Spot
  <2> QED BY <1>3, <2>2, <2>3
<1>5. ~IsPrefix(v, Expectation)
  BY <1>1, <1>4, PrefixOfPrefix
<1>6. h \in DOMAIN k.headers
  <2>1. Known(k)
    BY Zenon DEF Tells
  <2> QED BY <2>1 DEF Known
<1>7. k.headers[h].name = <<"EXPECT">>
  BY <1>1, Zenon DEF IsExpect
<1> QED BY <1>1, <1>5, <1>6, <1>7, Zenon DEF Acceptable

LEMMA ValueAccepted ==
  ASSUME ExpectsOnce, Judging, Due("value"), GoOn, pos' \in pos + 1..Len(stream), pos > 0,
         NEW k, NEW s, NEW u, NEW t, NEW a,
         Tells("value", k, s, u, t, a), Decides(k, u.header, Piece("value")),
         u.header \in 1..Len(k.headers), error_code = 0, error_code' = 0,
         k.minor = 1, IsExpect(k, u.header)
  PROVE  IsPrefix(k.headers[u.header].value, Expectation)
<1> PICK h, v, piece : h = u.header /\ v = k.headers[h].value /\ piece = Piece("value")
  OBVIOUS
<1>1. /\ s = stream[pos] /\ t = stream[pos'] /\ k = messages[s.of] /\ k = messages[t.of]
      /\ From(k, s, "value", h, a) /\ Known(k) /\ Spot(k, u) /\ Spot(k, s) /\ Place(u) = "value"
      /\ \/ u = t
         \/ Place(t) \in {"headers", "garbage"} /\ u.token = "stop" /\ u.header = Len(k.headers)
  BY Zenon DEF Tells
<1>2. h \in DOMAIN k.headers /\ ~dead
  BY <1>1, JudgingFacts DEF Known
<1>3. CASE Begun(s, h)
  <2>1. Approved(k, s)
    BY <1>1, <1>2, Zenon DEF Judging, Judged, ApprovedSoFar
  <2> QED BY <1>2, <1>3, <2>1, Zenon DEF Approved
<1>4. CASE ~Begun(s, h)
  <2>1. s.token # "value"
    <3>1. s.token = "value" => s.header = h /\ Place(s) = "value"
      BY <1>1 DEF From, Place
    <3> QED BY <1>4, <3>1 DEF Begun
  <2>2. a = 0
    BY <1>1, <2>1 DEF From
  <2>3. ~expect_continue
    <3> SUFFICES ASSUME expect_continue
                 PROVE  FALSE
      OBVIOUS
    <3>1. BegunExpect(k, s)
      BY <1>1, <1>2, Zenon DEF Judging, Judged, ExpectKnown
    <3>2. PICK i \in DOMAIN k.headers : IsExpect(k, i) /\ Begun(s, i)
      BY <3>1, Zenon DEF BegunExpect
    <3>3. k \in MessageKinds
      <4>1. s \in Sent
        <5>1. stream[pos + 1].token # "begin"
          BY DEF Due
        <5> QED BY <1>1, <5>1, JudgingFacts, NotFirst
      <4>2. s.of \in 1..N /\ messages \in [1..N -> MessageKinds]
        BY <4>1, JudgingFacts, Symbols2, SentTyped
      <4> QED BY <1>1, <4>2
    <3>4. i = h
      BY <1>2, <3>2, <3>3, Zenon DEF ExpectsOnce
    <3> QED BY <1>4, <3>2, <3>4
  <2>4. LooksAt(k, h)
    BY <2>3, Zenon DEF LooksAt
  <2>5. IsPrefix(piece, Expectation)
    <3>1. error_code' # HTTP_EXPECTATION_FAILED
      BY DEF HTTP_EXPECTATION_FAILED
    <3> QED BY <2>4, <3>1, Zenon DEF Decides
  <2>6. v \in Seq(Parts) /\ u.nth \in Nat /\ u.nth <= Len(v) /\ piece = SubSeq(v, 1, u.nth)
    <3>1. TextOf(k, "value", u.header) = v
      BY DEF TextOf
    <3>2. piece = SubSeq(v, a + 1, u.nth) /\ v \in Seq(Parts) /\ u.nth <= Len(v)
      BY <3>1, Zenon DEF Tells
    <3>3. u.nth \in Nat
      BY <1>1, Zenon DEF Spot
    <3> QED BY <2>2, <3>2, <3>3
  <2>7. u.nth = Len(v)
    <3>1. CASE u.token = "stop"
      BY <1>1, <3>1 DEF Spot, Place, TextOf
    <3>2. CASE u.token # "stop"
      <4>1. u.token = "value" /\ u = t
        BY <1>1, <3>2 DEF Place
      <4>2. stream[pos'].token = "value" /\ k = messages[stream[pos'].of]
            /\ stream[pos'].header = u.header /\ stream[pos'].nth = u.nth
        BY <1>1, <4>1
      <4>3. stream[pos'].nth = Len(k.headers[stream[pos'].header].value)
        BY <4>2, ValueNotCut
      <4> QED BY <4>2, <4>3
    <3> QED BY <3>1, <3>2
  <2>8. piece = v
    BY <2>6, <2>7, SubSeqFull
  <2> QED BY <2>5, <2>8
<1> QED BY <1>3, <1>4

LEMMA JudgedValue ==
  ASSUME ExpectsOnce, Judging, on_header_value
  PROVE  Verdict'
<1>1. Due("value") /\ GoOn /\ UNCHANGED <<messages, stream, calls>>
  BY DEF on_header_value, clientVars
<1>2. /\ pos > 0 /\ pos' \in pos + 1..Len(stream)
      /\ \E k, s, u, t, a : Tells("value", k, s, u, t, a)
  BY <1>1, JudgingFacts, Told
<1>3. PICK k, s, u, t, a : Tells("value", k, s, u, t, a)
  BY <1>2
<1>4. u.header \in 1..Len(k.headers) /\ Decides(k, u.header, Piece("value"))
  BY <1>3, ValueLooked
<1>5. error_code' # 0 => error_code # 0 \/ ~Acceptable(k)
  BY <1>1, <1>3, <1>4, ValueRefused
<1>6. error_code' = 0 => error_code = 0
  BY <1>4, Zenon DEF Decides, LooksAt
<1>7. error_code' = 0 /\ k.minor = 1 /\ IsExpect(k, u.header) =>
        IsPrefix(k.headers[u.header].value, Expectation)
  BY <1>1, <1>2, <1>3, <1>4, <1>6, ValueAccepted
<1>8. expect_continue' => expect_continue \/ IsExpect(k, u.header)
  BY <1>4, Zenon DEF Decides, LooksAt
<1> QED BY <1>1, <1>3, <1>5, <1>6, <1>7, <1>8, JudgedTold

(* What the handlers do leaves the judgement as it is, ...                 *)
LEMMA JudgedInPlace ==
  ASSUME Judged, UNCHANGED <<messages, stream, pos, dead, calls>>,
         error_code' = error_code \/ dead, expect_continue' => expect_continue,
         mode' = "refused" => error_code' # 0
  PROVE  Verdict'
<1>1. AllAcceptable'
  BY Zenon DEF Judged, AllAcceptable
<1>2. RefusedRightly'
  <2>1. dead' \/ error_code' # 0 => dead \/ error_code # 0
    BY Zenon
  <2> QED BY <2>1, Zenon DEF Judged, RefusedRightly
<1>3. ApprovedSoFar'
  <2>1. ~dead' /\ error_code' = 0 => ~dead /\ error_code = 0
    BY Zenon
  <2> QED BY <2>1, Zenon DEF Judged, ApprovedSoFar
<1>4. ExpectKnown'
  BY Zenon DEF Judged, ExpectKnown
<1>5. RefusedForError'
  BY Zenon DEF RefusedForError
<1> QED BY <1>1, <1>2, <1>3, <1>4, <1>5, Zenon DEF Judged, Verdict

(* ... until a message that is complete is served.                         *)
LEMMA ApprovedWhole ==
  ASSUME NEW k, Known(k), NEW s, Spot(k, s), s.token = "complete", Approved(k, s)
  PROVE  Acceptable(k)
<1>1. Place(s) = "complete" /\ s.header = Len(k.headers)
  BY DEF Spot, Place
<1>2. \A i \in DOMAIN k.path : k.path[i] # "bad"
  BY <1>1, Zenon DEF Approved
<1>3. "bad" \notin ToSet(k.path)
  BY <1>2, Zenon DEF ToSet
<1>4. \A i \in DOMAIN k.headers : Begun(s, i)
  BY <1>1 DEF Begun, Known
<1>5. ~k.garbled /\ (k.body # <<>> => k.length)
  BY <1>1, Zenon DEF Approved
<1>6. k.minor = 1 =>
        \A i \in DOMAIN k.headers :
          k.headers[i].name = <<"EXPECT">> => IsPrefix(k.headers[i].value, Expectation)
  BY <1>4, Zenon DEF Approved, IsExpect
<1> QED BY <1>3, <1>5, <1>6, Zenon DEF Acceptable

LEMMA JudgedCall ==
  ASSUME Streaming, Turn, Judged, ~overran, CallApplication
  PROVE  Verdict'
<1>1. /\ parse_finished /\ error_code = 0 /\ UNCHANGED <<messages, stream, pos, dead>>
      /\ calls' = Append(calls, environ) /\ mode' = "reading"
      /\ error_code' = 0 /\ expect_continue' = FALSE
  BY DEF CallApplication, Resume, Reset, clientVars, parserVars
<1>2. /\ ~dead /\ pos > 0 /\ ~Underway /\ Len(calls) = stream[pos].of - 1
  BY <1>1, Zenon DEF Turn
<1> PICK s, k : s = stream[pos] /\ k = messages[s.of]
  OBVIOUS
<1>3. s \in Sent /\ Known(k) /\ Spot(k, s) /\ s.of \in Nat
  <2>1. pos \in 1..Len(stream)
    BY <1>2, Symbols2
  <2>2. s \in Sent
    BY <2>1, Symbols2
  <2>3. s.of \in 1..N /\ N \in Nat
    BY <2>2, SentTyped, ParsingAssumption
  <2> QED BY <2>2, <2>3, Symbols2, SentSpot
<1>4. s.token = "complete" /\ Approved(k, s)
  <2>1. s.token = "complete"
    BY <1>2 DEF Underway
  <2> QED BY <1>1, <1>2, <2>1, Zenon DEF Judged, ApprovedSoFar
<1>5. Acceptable(k)
  BY <1>3, <1>4, ApprovedWhole
<1>6. AllAcceptable'
  <2> PICK S : calls \in Seq(S)
    BY DEF Streaming, CallsOK
  <2>1. ASSUME NEW n \in DOMAIN calls'
        PROVE  n \in DOMAIN calls \/ n = s.of
    BY <1>1, <1>2, <1>3
  <2>2. \A n \in DOMAIN calls' : Acceptable(messages'[n])
    BY <1>1, <1>5, <2>1, Zenon DEF Judged, AllAcceptable
  <2> QED BY <2>2, Zenon DEF AllAcceptable
<1>7. RefusedRightly'
  BY <1>1, <1>2, Zenon DEF RefusedRightly
<1>8. ApprovedSoFar'
  BY <1>1, <1>4, Zenon DEF ApprovedSoFar
<1>9. ExpectKnown' /\ RefusedForError'
  BY <1>1 DEF ExpectKnown, RefusedForError
<1> QED BY <1>6, <1>7, <1>8, <1>9, Zenon DEF Judged, Verdict

LEMMA VerdictKept ==
  ASSUME ExpectsOnce, Streaming, Turn, Exact, ReadFrom, Verdict, [ev_io_on_read]_vars
  PROVE  Verdict'
<1>1. (overran => overran') /\ (cut => cut')
  <2>1. CASE \E to \in pos + 1..Len(stream) : ReadData(to)
    <3>1. PICK to \in pos + 1..Len(stream) : ReadData(to)
      BY <2>1
    <3>2. overran => overran'
      BY <3>1 DEF ReadData
    <3>3. cut => cut'
      BY <3>1 DEF ReadData
    <3> QED BY <3>2, <3>3
  <2>2. CASE UNCHANGED readVars
    BY <2>2 DEF readVars
  <2>3. CASE Callback \/ HeadersEnd \/ Garbage
    <3>1. on_message_begin => UNCHANGED readVars
      BY Zenon DEF on_message_begin
    <3>2. on_path => UNCHANGED readVars
      BY Zenon DEF on_path
    <3>3. on_query_string => UNCHANGED readVars
      BY Zenon DEF on_query_string
    <3>4. on_header_field => UNCHANGED readVars
      BY Zenon DEF on_header_field
    <3>5. on_header_value => UNCHANGED readVars
      BY Zenon DEF on_header_value
    <3>6. on_body => UNCHANGED readVars
      BY Zenon DEF on_body
    <3>7. on_message_complete => UNCHANGED readVars
      BY Zenon DEF on_message_complete
    <3>8. HeadersEnd \/ Garbage => UNCHANGED readVars
      BY Zenon DEF HeadersEnd, Garbage
    <3> QED BY <2>2, <2>3, <3>1, <3>2, <3>3, <3>4, <3>5, <3>6, <3>7, <3>8, Zenon DEF Callback
  <2>4. CASE Refuse \/ Continue100 \/ WaitForMore \/ LosesDict \/ CallLosesDict
             \/ CallApplication \/ CallWithList
    BY <2>2, <2>4, Zenon DEF LosesDict, Crash, Refuse, Continue100, WaitForMore, CallApplication,
                 CallWithList, CallLosesDict
  <2>5. CASE UNCHANGED vars
    BY <2>5 DEF vars, readVars
  <2> QED BY <2>1, <2>3, <2>4, <2>5, Zenon DEF ev_io_on_read
<1> USE DEF clientVars, readVars, parserVars, flagVars
<1>2. CASE overran \/ cut
  BY <1>1, <1>2, Zenon DEF Verdict
<1>3. CASE ~overran /\ ~cut
  <2>1. Judged
    BY <1>3, Zenon DEF Verdict
  <2>2. CASE Callback \/ HeadersEnd \/ Garbage
    <3>1. mode = "parsing"
      BY <2>2 DEF Callback, on_message_begin, on_path, on_query_string, on_header_field,
                  on_header_value, on_body, on_message_complete, HeadersEnd, Garbage, Due
    <3>2. Judging
      BY <1>3, <2>1, <3>1, Zenon DEF Judging
    <3> QED BY <2>2, <3>2, JudgedBegin, JudgedPath, JudgedQuery, JudgedField, JudgedValue,
               JudgedBody, JudgedComplete, JudgedHeadersEnd, JudgedGarbage, Zenon DEF Callback
  <2>3. CASE \E to \in pos + 1..Len(stream) : ReadData(to)
    <3>1. PICK to \in pos + 1..Len(stream) : ReadData(to)
      BY <2>3
    <3>2. /\ UNCHANGED <<messages, stream, pos, dead, calls, expect_continue>>
          /\ mode' # "refused" /\ (error_code' = error_code \/ dead)
      BY <3>1 DEF ReadData
    <3> QED BY <2>1, <3>2, JudgedInPlace
  <2>4. CASE Refuse
    <3>1. ~keep_alive
      BY <1>3, Zenon DEF Turn
    <3>2. /\ UNCHANGED <<messages, stream, pos, dead, calls, error_code>>
          /\ expect_continue' => expect_continue
          /\ error_code # 0
      BY <2>4, <3>1 DEF Refuse, Resume
    <3> QED BY <2>1, <3>2, JudgedInPlace
  <2>5. CASE Continue100 \/ WaitForMore \/ LosesDict \/ CallLosesDict \/ UNCHANGED vars
    <3>1. /\ UNCHANGED <<messages, stream, pos, dead, calls, error_code>>
          /\ expect_continue' => expect_continue
          /\ mode' = "refused" => mode = "refused"
      BY <2>5 DEF Continue100, WaitForMore, LosesDict, CallLosesDict, Crash, Resume, vars
    <3>2. mode' = "refused" => error_code' # 0
      BY <2>1, <3>1, Zenon DEF Judged, RefusedForError
    <3> QED BY <2>1, <3>1, <3>2, JudgedInPlace
  <2>6. CASE CallApplication
    BY <1>3, <2>1, <2>6, JudgedCall
  <2>7. ~CallWithList
    BY <1>3 DEF CallWithList, Turn
  <2> QED BY <2>2, <2>3, <2>4, <2>5, <2>6, <2>7, Zenon DEF ev_io_on_read
<1> QED BY <1>2, <1>3

(* A message that has one Expect header at most, and a body if it has one, *)
(* is served if it is one that bjoern serves and refused otherwise, in     *)
(* whatever pieces it comes, unless a read() ends in an escape, in front   *)
(* of the delimiter of the path, or in the value of Expect, or goes on     *)
(* behind a message (request.c:118-125, 177-259; server.c:234-262).        *)
THEOREM VerdictIsTheMessages ==
  ASSUME BodyIsExpected, ExpectsOnce
  PROVE  Spec => []VerdictOfMessage
<1>1. Init => Verdict
  BY InitVerdict
<1>2. Streaming /\ Turn /\ Exact /\ ReadFrom /\ Verdict /\ [ev_io_on_read]_vars => Verdict'
  BY VerdictKept
<1>3. Verdict => VerdictOfMessage
  BY Zenon DEF Verdict, Judged, AllAcceptable, RefusedRightly, RefusedForError, VerdictOfMessage
<1>4. Spec => []Turn
  BY TurnCorrect
<1> QED BY <1>1, <1>2, <1>3, <1>4, StreamingCorrect, ExactCorrect, ReadFromCorrect, PTL DEF Spec

=============================================================================
