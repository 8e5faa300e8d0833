---------------------------- MODULE Parsing_proofs ----------------------------
(***************************************************************************)
(* Theorems about Parsing, for any messages and any number of them, sent   *)
(* in any pieces.  The stream is put together with FlattenSeq, a recursive *)
(* function, so that what it looks like takes an induction; it is by the   *)
(* least counterexample (UpTo), as a set of numbers and not as an operator. *)
(***************************************************************************)
EXTENDS Parsing, WellFoundedInduction, TLAPS

(* The inductive invariant behind NeverLosesDict and CalledInTurn, if no   *)
(* message that may ask for 100 Continue is without a body: while one is   *)
(* under way the Request has its dict and no other's name, and what it     *)
(* expects is the body that is still to come; behind it the Request is as  *)
(* new.                                                                    *)
Expects(k) == \E i \in DOMAIN k.headers : Contains(k.headers[i].name, "EXPECT")

BodyIsExpected == \A k \in MessageKinds : k.minor = 1 /\ Expects(k) => k.body # <<>>

Follows(s, t) ==
  IF s.token = "complete" THEN t.token = "begin" /\ t.of = s.of + 1
  ELSE /\ t.token # "begin" /\ t.of = s.of
       /\ t.token = "complete" /\ messages[t.of].body # <<>> => s.token = "body"

Underway == pos > 0 /\ stream[pos].token # "complete"

Turn ==
  ~overran =>
    /\ mode # "crashed" /\ ~keep_alive
    /\ mode = "parsing" => \A i \in pos + 1..limit - 1 : stream[i].token # "complete"
    /\ parse_finished =>
         /\ mode \in {"parsed", "refused"} /\ ~dead /\ pos > 0 /\ ~Underway
         /\ headers = "dict" /\ Len(calls) = stream[pos].of - 1
    /\ ~dead /\ ~parse_finished =>
         IF Underway
         THEN /\ headers = "dict" /\ Len(calls) = stream[pos].of - 1
              /\ Contains(field, "EXPECT") => Expects(messages[stream[pos].of])
         ELSE /\ field = <<>>
              /\ Len(calls) = IF pos = 0 THEN 0 ELSE stream[pos].of
    /\ ~dead /\ expect_continue =>
         /\ Underway /\ stream[pos].token # "body"
         /\ messages[stream[pos].of].body # <<>>

Stream ==
  /\ stream[1].token = "begin" /\ stream[1].of = 1
  /\ stream[Len(stream)].token = "complete"
  /\ \A i \in 1..Len(stream) - 1 : Follows(stream[i], stream[i + 1])

-----------------------------------------------------------------------------
(* A set of natural numbers has a least member.                            *)
LEMMA Least ==
  ASSUME NEW T, T \subseteq Nat, T # {}
  PROVE  \E x \in T : \A y \in T : x <= y
<1> DEFINE R == OpToRel(<, Nat)
<1>1. \A x, y \in Nat : y < x => <<y, x>> \in R
  BY DEF OpToRel
<1>2. IsWellFoundedOn(R, Nat)
  BY NatLessThanWellFounded
<1> HIDE DEF R
<1>3. PICK x \in T : \A y \in T : ~ (<<y, x>> \in R)
  BY <1>2, WFMin
<1>4. ASSUME NEW y \in T
      PROVE  x <= y
  <2>1. x \in Nat /\ y \in Nat
    OBVIOUS
  <2>2. ~(y < x)
    BY <1>1, <1>3, <2>1
  <2> QED BY <2>1, <2>2
<1> QED BY <1>4

(* Induction on 1..n. *)
LEMMA UpTo ==
  ASSUME NEW n \in Nat, NEW P,
         n > 0 => 1 \in P,
         \A i \in 1..n : i + 1 \in 1..n /\ i \in P => i + 1 \in P
  PROVE  1..n \subseteq P
<1> DEFINE T == {i \in 1..n : i \notin P}
<1> SUFFICES ASSUME T # {} PROVE FALSE
  OBVIOUS
<1>1. T \subseteq Nat
  OBVIOUS
<1>2. \A i : i \in T <=> i \in 1..n /\ i \notin P
  OBVIOUS
<1> HIDE DEF T
<1>3. PICK k \in T : \A j \in T : k <= j
  BY <1>1, Least
<1>4. k \in 1..n /\ k \notin P
  BY <1>2
<1>5. k # 1
  BY <1>4
<1>6. k - 1 \in 1..n /\ k - 1 < k /\ (k - 1) + 1 = k
  BY <1>4, <1>5
<1>7. k - 1 \in P
  BY <1>2, <1>3, <1>6
<1> QED BY <1>4, <1>6, <1>7

-----------------------------------------------------------------------------
(* Sequences, and FlattenSeq. *)

LEMMA ContainsConcat ==
  ASSUME NEW S, NEW T, NEW s \in Seq(S), NEW t \in Seq(T), NEW e, Contains(s \o t, e)
  PROVE  Contains(s, e) \/ Contains(t, e)
<1>1. s \in Seq(S \cup T) /\ t \in Seq(S \cup T) /\ Len(s) \in Nat /\ Len(t) \in Nat
  OBVIOUS
<1>2. /\ Len(s \o t) = Len(s) + Len(t)
      /\ \A j \in 1..Len(s) : (s \o t)[j] = s[j]
      /\ \A j \in 1..Len(t) : (s \o t)[Len(s) + j] = t[j]
  BY <1>1
<1>3. PICK i \in 1..Len(s \o t) : (s \o t)[i] = e
  BY DEF Contains
<1>4. CASE i <= Len(s)
  BY <1>1, <1>2, <1>3, <1>4 DEF Contains
<1>5. CASE ~(i <= Len(s))
  <2> DEFINE j == i - Len(s)
  <2>1. j \in 1..Len(t) /\ i = Len(s) + j
    BY <1>1, <1>2, <1>5
  <2> HIDE DEF j
  <2>2. t[j] = e
    BY <1>2, <1>3, <2>1
  <2> QED BY <2>1, <2>2 DEF Contains
<1> QED BY <1>4, <1>5

LEMMA DashedPiece ==
  ASSUME NEW piece \in Seq(Parts)
  PROVE  /\ Mapped(piece, Dashes) \in Seq({Dashes(x) : x \in Parts})
         /\ Contains(Mapped(piece, Dashes), "EXPECT") => Contains(piece, "EXPECT")
<1> DEFINE dashed == Mapped(piece, Dashes)
           T == {Dashes(x) : x \in Parts}
<1>1. dashed = [i \in 1..Len(piece) |-> Dashes(piece[i])]
  BY DEF Mapped
<1>2. \A x : Dashes(x) = "EXPECT" => x = "EXPECT"
  BY Zenon DEF Dashes
<1>3. Len(piece) \in Nat /\ \A i \in 1..Len(piece) : Dashes(piece[i]) \in T
  OBVIOUS
<1> HIDE DEF dashed, T
<1>4. dashed \in Seq(T) /\ Len(dashed) = Len(piece)
  BY <1>1, <1>3
<1>5. ASSUME Contains(dashed, "EXPECT")
      PROVE  Contains(piece, "EXPECT")
  <2>1. PICK i \in 1..Len(piece) : dashed[i] = "EXPECT"
    BY <1>4, <1>5 DEF Contains
  <2>2. piece[i] = "EXPECT"
    BY <1>1, <1>2, <2>1
  <2> QED BY <2>2 DEF Contains
<1> QED BY <1>4, <1>5 DEF dashed, T

LEMMA FlattenSteps ==
  ASSUME NEW S, NEW seqs \in Seq(Seq(S)), seqs # <<>>
  PROVE  \E f \in [1..Len(seqs) -> Seq(S)] :
           /\ FlattenSeq(seqs) = f[Len(seqs)]
           /\ \A i \in 1..Len(seqs) :
                f[i] = IF i = 1 THEN seqs[i] ELSE f[i - 1] \o seqs[i]
<1> DEFINE n == Len(seqs)
           Eq(f) == f = [i \in 1..n |-> IF i = 1 THEN seqs[i] ELSE f[i - 1] \o seqs[i]]
           To(k, f) == \A i \in 1..k : f[i] = IF i = 1 THEN seqs[i] ELSE f[i - 1] \o seqs[i]
           Flat(k) == \E f \in [1..k -> Seq(S)] : To(k, f)
<1>1. n \in Nat \ {0} /\ \A i \in 1..n : seqs[i] \in Seq(S)
  OBVIOUS
<1>2. Flat(1)
  <2> DEFINE f == [i \in 1..1 |-> seqs[1]]
  <2>1. f \in [1..1 -> Seq(S)] /\ To(1, f)
    BY <1>1
  <2> QED BY <2>1
<1>3. ASSUME NEW j \in 1..n, j + 1 \in 1..n, Flat(j)
      PROVE  Flat(j + 1)
  <2> DEFINE k == j + 1
  <2>1. PICK f \in [1..j -> Seq(S)] : To(j, f)
    BY <1>3
  <2> DEFINE new == f[j] \o seqs[k]
             g == [i \in 1..k |-> IF i = k THEN new ELSE f[i]]
  <2>2. k \in 2..n /\ j \in 1..j /\ j + 1 = k
    BY <1>1, <1>3
  <2>3. new \in Seq(S)
    BY <1>1, <2>2
  <2> HIDE DEF new
  <2>4. g \in [1..k -> Seq(S)] /\ g[k] = new /\ \A i \in 1..j : g[i] = f[i]
    BY <2>2, <2>3
  <2> HIDE DEF g
  <2>5. ASSUME NEW i \in 1..k
        PROVE  g[i] = IF i = 1 THEN seqs[i] ELSE g[i - 1] \o seqs[i]
    <3>1. CASE i = k
      <4>1. g[j] = f[j]
        BY <2>2, <2>4
      <4>2. g[k] = g[j] \o seqs[k]
        BY <2>4, <4>1 DEF new
      <4>3. i # 1 /\ i - 1 = j
        BY <2>2, <3>1
      <4> QED BY <3>1, <4>2, <4>3
    <3>2. CASE i # k
      <4>1. i \in 1..j /\ (i # 1 => i - 1 \in 1..j)
        BY <2>2, <3>2
      <4>2. f[i] = IF i = 1 THEN seqs[i] ELSE f[i - 1] \o seqs[i]
        BY <2>1, <4>1
      <4>3. g[i] = f[i] /\ (i # 1 => g[i - 1] = f[i - 1])
        BY <2>4, <4>1
      <4> QED BY <4>2, <4>3
    <3> QED BY <3>1, <3>2
  <2> QED BY <2>4, <2>5
<1>4. Flat(n)
  <2> DEFINE P == {k \in 1..n : Flat(k)}
  <2> HIDE DEF Flat
  <2>1. 1 \in P /\ \A i \in 1..n : i + 1 \in 1..n /\ i \in P => i + 1 \in P
    BY <1>1, <1>2, <1>3
  <2>2. 1..n \subseteq P
    <3> HIDE DEF P
    <3> QED BY <1>1, <2>1, UpTo
  <2> QED BY <1>1, <2>2
<1>5. PICK f \in [1..n -> Seq(S)] : To(n, f)
  BY <1>4
<1> DEFINE g == CHOOSE h : Eq(h)
<1>6. Eq(g)
  <2>1. Eq(f)
    BY <1>5
  <2> QED BY <2>1
<1>7. FlattenSeq(seqs) = g[n]
  BY <1>1 DEF FlattenSeq
<1> HIDE DEF g
<1>8. \A i \in 1..n : g[i] = IF i = 1 THEN seqs[i] ELSE g[i - 1] \o seqs[i]
  BY <1>6
<1>9. \A i \in 1..n : f[i] = IF i = 1 THEN seqs[i] ELSE f[i - 1] \o seqs[i]
  BY <1>5
<1>10. g[n] = f[n]
  <2> DEFINE P == {i \in 1..n : g[i] = f[i]}
  <2>1. \A i : i \in P <=> i \in 1..n /\ g[i] = f[i]
    OBVIOUS
  <2> HIDE DEF P
  <2>2. 1 \in P
    <3>1. 1 \in 1..n
      BY <1>1
    <3>2. g[1] = seqs[1]
      BY <1>8, <3>1
    <3>3. f[1] = seqs[1]
      BY <1>9, <3>1
    <3> QED BY <2>1, <3>1, <3>2, <3>3
  <2>3. ASSUME NEW i \in 1..n, i + 1 \in 1..n, i \in P
        PROVE  i + 1 \in P
    <3>1. i + 1 # 1 /\ (i + 1) - 1 = i
      OBVIOUS
    <3>2. g[i + 1] = g[i] \o seqs[i + 1]
      BY <1>8, <2>3, <3>1
    <3>3. f[i + 1] = f[i] \o seqs[i + 1]
      BY <1>9, <2>3, <3>1
    <3>4. g[i] = f[i]
      BY <2>1, <2>3
    <3> QED BY <2>1, <2>3, <3>2, <3>3, <3>4
  <2>4. 1..n \subseteq P
    BY <1>1, <2>2, <2>3, UpTo
  <2>5. n \in 1..n
    BY <1>1
  <2>6. n \in P
    BY <2>4, <2>5
  <2> QED BY <2>1, <2>6
<1> QED BY <1>5, <1>7, <1>10

LEMMA FlattenSeqType ==
  ASSUME NEW S, NEW seqs \in Seq(Seq(S))
  PROVE  FlattenSeq(seqs) \in Seq(S)
<1>1. CASE seqs = <<>>
  BY <1>1 DEF FlattenSeq
<1>2. CASE seqs # <<>>
  <2>1. PICK f \in [1..Len(seqs) -> Seq(S)] : FlattenSeq(seqs) = f[Len(seqs)]
    BY <1>2, FlattenSteps
  <2>2. Len(seqs) \in 1..Len(seqs)
    BY <1>2
  <2> QED BY <2>1, <2>2
<1> QED BY <1>1, <1>2

-----------------------------------------------------------------------------
(* What is sent. *)

Stopped == {"path", "query", "name", "value", "headers"}
SentTokens == {"begin", "path", "query", "name", "value", "stop", "garbage", "body", "complete"}
SentParts == Parts \cup Stopped \cup {"%", "h", "l", "c", "line", "body"}

(* The token that a symbol is a part of, or the end of.                    *)
Place(s) == IF s.token = "stop" THEN s.part ELSE s.token

(* Where the headers are over.                                             *)
EndsHeaders(s) == s.token \in {"stop", "garbage"} /\ s.part = "headers"

(* What is said in the token that ends or goes on with a symbol.           *)
TextOf(k, place, h) ==
  CASE place = "path" -> k.path
    [] place = "query" -> k.query
    [] place = "name" -> k.headers[h].name
    [] place = "value" -> k.headers[h].value
    [] place = "body" -> k.body

(* A symbol is what the message says at its place.                         *)
Meant(k, s) ==
  /\ s.header <= Len(k.headers)
  /\ s.token = "begin" => s.nth = 0 /\ s.part = "line"
  /\ s.token \in {"path", "query", "name", "value", "body"} =>
       s.nth \in 1..Len(TextOf(k, s.token, s.header))
  /\ s.token \in {"query", "name", "value", "body"} =>
       s.part = TextOf(k, s.token, s.header)[s.nth]
  /\ s.token = "path" =>
       /\ s.part = "%" => k.path[s.nth] # "c"
       /\ s.part \in {"h", "l"} => k.path[s.nth] = "esc"
       /\ s.part = "c" => k.path[s.nth] # "esc"
       /\ s.part \in {"%", "h", "l", "c"}
  /\ s.token = "stop" =>
       /\ s.part \in Stopped
       /\ s.part # "headers" => s.nth = Len(TextOf(k, s.part, s.header))
  /\ s.token = "garbage" => s.part = "headers"
  /\ EndsHeaders(s) => s.nth = 0 /\ (k.garbled <=> s.token = "garbage")
  /\ Place(s) \in {"begin", "path", "query"} => s.header = 0
  /\ Place(s) = "query" => k.query # <<>>
  /\ Place(s) \in {"name", "value"} => s.header > 0
  /\ Place(s) \in {"headers", "garbage", "body", "complete"} => s.header = Len(k.headers)

Sent ==
  {s \in [token : SentTokens, part : SentParts, of : 1..N, header : Nat, nth : Nat] :
     Meant(messages[s.of], s)}

(* What comes behind a symbol.                                             *)
EndsFields(k, s) ==
  s.token = "stop" /\ (s.part \in {"query", "value"} \/ (s.part = "path" /\ k.query = <<>>))

Within(s, t) == s.token = t.token /\ s.header = t.header /\ t.nth = s.nth + 1

Escapes(k, s, t) ==
  /\ t.part \in {"h", "l"} =>
       s.token = "path" /\ t.nth = s.nth /\ s.part = IF t.part = "h" THEN "%" ELSE "h"
  /\ t.part = "%" => t.nth = s.nth + 1 /\ (s.token = "path" => s.part \notin {"%", "h"})
  /\ t.part = "c" =>
       \/ t.nth = s.nth + 1 /\ k.path[t.nth] = "c" /\ (s.token = "path" => s.part \notin {"%", "h"})
       \/ t.nth = s.nth /\ k.path[t.nth] = "bad" /\ s.token = "path" /\ s.part = "%"

Links(k, s, t) ==
  /\ t.token # "begin"
  /\ t.token = "path" => s.token \in {"begin", "path"} /\ Escapes(k, s, t)
  /\ t.token = "query" =>
       Within(s, t) \/ (s.token = "stop" /\ s.part = "path" /\ t.nth = 1)
  /\ t.token = "name" =>
       Within(s, t) \/ (EndsFields(k, s) /\ t.header = s.header + 1 /\ t.nth = 1)
  /\ t.token = "value" =>
       Within(s, t) \/ (s.token = "stop" /\ s.part = "name" /\ t.header = s.header /\ t.nth = 1)
  /\ t.token = "body" => Within(s, t) \/ (EndsHeaders(s) /\ t.nth = 1)
  /\ EndsHeaders(t) => EndsFields(k, s) /\ s.header = Len(k.headers)
  /\ t.token = "stop" /\ t.part # "headers" =>
       /\ s.token = t.part /\ s.header = t.header /\ s.nth = t.nth
       /\ t.part = "path" => s.part \notin {"%", "h"}
  /\ t.token = "complete" =>
       IF k.body = <<>> THEN EndsHeaders(s) ELSE s.token = "body" /\ s.nth = Len(k.body)

Link(s, t) ==
  IF s.token = "complete" THEN t.token = "begin" /\ t.of = s.of + 1
  ELSE t.of = s.of /\ Links(messages[s.of], s, t)

Linked == \A i \in 1..Len(stream) - 1 : Link(stream[i], stream[i + 1])

Chain(s) ==
  /\ s \in Seq(Sent) /\ s # <<>>
  /\ \A i \in 1..Len(s) - 1 : Link(s[i], s[i + 1])

Final(s) == s[Len(s)]

LEMMA LinkFollows ==
  ASSUME NEW s \in Sent, NEW t \in Sent, Link(s, t)
  PROVE  Follows(s, t)
<1>1. CASE s.token = "complete"
  BY <1>1 DEF Link, Follows
<1>2. CASE s.token # "complete"
  <2>1. t.of = s.of /\ Links(messages[s.of], s, t)
    BY <1>2 DEF Link
  <2> QED BY <1>2, <2>1 DEF Links, Follows
<1> QED BY <1>1, <1>2

LEMMA ChainConcat ==
  ASSUME NEW s, NEW t, Chain(s), Chain(t), Link(Final(s), t[1])
  PROVE  /\ Chain(s \o t)
         /\ (s \o t)[1] = s[1] /\ Final(s \o t) = Final(t)
<1>1. /\ s \in Seq(Sent) /\ t \in Seq(Sent)
      /\ Len(s) \in Nat \ {0} /\ Len(t) \in Nat \ {0}
  BY DEF Chain
<1>2. /\ s \o t \in Seq(Sent) /\ Len(s \o t) = Len(s) + Len(t)
      /\ \A i \in 1..Len(s) : (s \o t)[i] = s[i]
      /\ \A i \in 1..Len(t) : (s \o t)[Len(s) + i] = t[i]
  BY <1>1
<1> DEFINE u == s \o t
<1> HIDE DEF u
<1>3. ASSUME NEW i \in 1..Len(u) - 1
      PROVE  Link(u[i], u[i + 1])
  <2>1. CASE i < Len(s)
    <3>1. i \in 1..Len(s) - 1 /\ u[i] = s[i] /\ u[i + 1] = s[i + 1]
      BY <1>1, <1>2, <2>1 DEF u
    <3> QED BY <3>1 DEF Chain
  <2>2. CASE i = Len(s)
    <3>1. u[i] = Final(s) /\ u[i + 1] = t[1]
      BY <1>1, <1>2, <2>2 DEF u, Final
    <3> QED BY <3>1
  <2>3. CASE i > Len(s)
    <3> DEFINE j == i - Len(s)
    <3>1. j \in 1..Len(t) - 1 /\ i = Len(s) + j /\ i + 1 = Len(s) + (j + 1)
      BY <1>1, <1>2, <2>3 DEF u
    <3> HIDE DEF j
    <3>2. j \in 1..Len(t) /\ j + 1 \in 1..Len(t)
      BY <1>1, <3>1
    <3>3. u[i] = t[j] /\ u[i + 1] = t[j + 1]
      BY <1>2, <3>1, <3>2 DEF u
    <3> QED BY <3>1, <3>3 DEF Chain
  <2>4. i \in Int /\ Len(s) \in Int
    BY <1>1, <1>2 DEF u
  <2> QED BY <2>1, <2>2, <2>3, <2>4
<1>4. u # <<>> /\ u[1] = s[1] /\ u[Len(u)] = t[Len(t)]
  BY <1>1, <1>2 DEF u
<1> QED BY <1>2, <1>3, <1>4 DEF Chain, Final, u

(* The kinds of messages. *)
LEMMA Kind ==
  ASSUME messages \in [1..N -> MessageKinds], NEW m \in 1..N
  PROVE  LET k == messages[m]
         IN  /\ k.path \in Seq({"c", "esc", "bad"}) /\ k.path # <<>>
             /\ k.query \in Seq(Parts) /\ k.body \in Seq(Parts)
             /\ k.headers \in Seq([name : Text \ {<<>>}, value : Text \ {<<>>}])
             /\ Len(k.headers) \in Nat
             /\ \A i \in 1..Len(k.headers) :
                  /\ k.headers[i].name \in Seq(Parts) /\ k.headers[i].name # <<>>
                  /\ k.headers[i].value \in Seq(Parts) /\ k.headers[i].value # <<>>
             /\ k.minor \in {0, 1} /\ k.garbled \in BOOLEAN /\ k.length \in BOOLEAN
<1> DEFINE k == messages[m]
           H == [name : Text \ {<<>>}, value : Text \ {<<>>}]
<1>1. k \in [minor : {0, 1}, path : Seq({"c", "esc", "bad"}) \ {<<>>}, query : Text,
             headers : Seq(H), body : Text, length : BOOLEAN, garbled : BOOLEAN]
  BY ParsingAssumption DEF ParsingAssumption
<1> HIDE DEF k
<1>2. k.headers \in Seq(H) /\ Len(k.headers) \in Nat
  BY <1>1
<1> DEFINE hs == k.headers
<1>3. ASSUME NEW i \in 1..Len(hs)
      PROVE  /\ hs[i].name \in Seq(Parts) /\ hs[i].name # <<>>
             /\ hs[i].value \in Seq(Parts) /\ hs[i].value # <<>>
  <2>1. hs[i] \in H
    <3> HIDE DEF H
    <3> QED BY <1>2
  <2> QED BY <2>1 DEF Text
<1>4. /\ k.path \in Seq({"c", "esc", "bad"}) /\ k.path # <<>>
      /\ k.query \in Seq(Parts) /\ k.body \in Seq(Parts)
      /\ k.minor \in {0, 1} /\ k.garbled \in BOOLEAN /\ k.length \in BOOLEAN
  BY <1>1 DEF Text
<1> QED BY <1>2, <1>3, <1>4 DEF k

LEMMA TextTyped ==
  ASSUME messages \in [1..N -> MessageKinds], NEW m \in 1..N, NEW h,
         NEW token \in {"query", "name", "value", "body"},
         token \in {"name", "value"} => h \in 1..Len(messages[m].headers)
  PROVE  TextOf(messages[m], token, h) \in Seq(Parts)
<1> DEFINE k == messages[m]
<1>1. /\ k.query \in Seq(Parts) /\ k.body \in Seq(Parts)
      /\ \A i \in 1..Len(k.headers) :
           k.headers[i].name \in Seq(Parts) /\ k.headers[i].value \in Seq(Parts)
  BY Kind
<1> HIDE DEF k
<1>2. TextOf(k, token, h) \in Seq(Parts)
  <2>1. CASE token = "query" \/ token = "body"
    BY <1>1, <2>1 DEF TextOf
  <2>2. CASE token = "name"
    BY <1>1, <2>2 DEF TextOf, k
  <2>3. CASE token = "value"
    BY <1>1, <2>3 DEF TextOf, k
  <2> QED BY <2>1, <2>2, <2>3
<1> QED BY <1>2 DEF k

(* The parts of a message. *)
LEMMA NumberedChain ==
  ASSUME NEW m \in 1..N, NEW h \in Nat, messages \in [1..N -> MessageKinds],
         NEW token \in {"query", "name", "value", "body"},
         token = "query" => h = 0,
         token \in {"name", "value"} => h \in 1..Len(messages[m].headers),
         token = "body" => h = Len(messages[m].headers),
         NEW parts, parts = TextOf(messages[m], token, h), parts # <<>>
  PROVE  LET s == Numbered(token, parts, m, h)
         IN  /\ Chain(s) /\ Len(s) = Len(parts)
             /\ \A i \in 1..Len(s) : s[i] = Symbol(token, parts[i], m, h, i)
<1> DEFINE k == messages[m]
           s == Numbered(token, parts, m, h)
           Sym(i) == Symbol(token, parts[i], m, h, i)
           n == Len(parts)
<1>1. parts \in Seq(Parts)
  BY TextTyped
<1>2. n \in Nat \ {0} /\ \A i \in 1..n : parts[i] \in Parts
  BY <1>1
<1>3. s = [i \in 1..n |-> Sym(i)]
  BY <1>1 DEF Numbered
<1>4. h <= Len(k.headers) /\ Len(k.headers) \in Nat
  BY Kind
<1>5. ASSUME NEW i \in 1..n
      PROVE  Sym(i) \in Sent
  <2> DEFINE x == Sym(i)
  <2>1. /\ x.token = token /\ x.part = parts[i] /\ x.of = m /\ x.header = h /\ x.nth = i
        /\ x \in [token : SentTokens, part : SentParts, of : 1..N, header : Nat, nth : Nat]
    BY <1>2 DEF Symbol, SentTokens, SentParts
  <2> HIDE DEF x
  <2>2. Meant(k, x)
    <3>1. Place(x) = token /\ ~EndsHeaders(x)
      BY <2>1 DEF Place, EndsHeaders
    <3>2. x.token \in {"query", "name", "value", "body"} /\ x.token \notin {"begin", "path", "stop", "garbage", "complete"}
      BY <2>1
    <3>3. parts = TextOf(k, x.token, x.header)
      BY <2>1
    <3>4. token = "query" => k.query # <<>>
      BY DEF TextOf
    <3>5. x.nth \in 1..Len(TextOf(k, x.token, x.header))
          /\ x.part = TextOf(k, x.token, x.header)[x.nth]
      BY <2>1, <3>3
    <3>6. x.header <= Len(k.headers)
      BY <1>4, <2>1
    <3>7. token = "query" => h = 0
      OBVIOUS
    <3>8. token \in {"name", "value"} => h > 0
      OBVIOUS
    <3>9. token = "body" => h = Len(k.headers)
      OBVIOUS
    <3> HIDE DEF k
    <3> QED BY <2>1, <3>1, <3>2, <3>4, <3>5, <3>6, <3>7, <3>8, <3>9 DEF Meant
  <2> QED BY <2>1, <2>2 DEF Sent, x
<1>6. \A i \in 1..n - 1 : Link(Sym(i), Sym(i + 1))
  <2> SUFFICES ASSUME NEW i \in 1..n - 1
               PROVE  Link(Sym(i), Sym(i + 1))
    OBVIOUS
  <2> DEFINE x == Sym(i)
             y == Sym(i + 1)
  <2>1. /\ x.token = token /\ x.of = m /\ x.header = h /\ x.nth = i
        /\ y.token = token /\ y.of = m /\ y.header = h /\ y.nth = i + 1
    BY DEF Symbol
  <2> HIDE DEF x, y
  <2>2. Within(x, y)
    BY <2>1 DEF Within
  <2>3. Link(x, y)
    BY <2>1, <2>2 DEF Link, Links, EndsHeaders
  <2> QED BY <2>3 DEF x, y
<1> HIDE DEF Sym, k, s
<1>7. s \in Seq(Sent) /\ Len(s) = n /\ s # <<>> /\ \A i \in 1..n : s[i] = Sym(i)
  BY <1>2, <1>3, <1>5
<1>8. \A i \in 1..Len(s) - 1 : Link(s[i], s[i + 1])
  <2>1. \A i \in 1..Len(s) - 1 : i \in 1..n /\ i + 1 \in 1..n
    BY <1>2, <1>7
  <2> QED BY <1>6, <1>7, <2>1
<1> QED BY <1>7, <1>8 DEF Chain, s, Sym

(* The delimiter of a token. *)
LEMMA StopSent ==
  ASSUME NEW m \in 1..N, NEW h \in Nat, messages \in [1..N -> MessageKinds],
         NEW token \in {"path", "query", "name", "value"},
         token \in {"path", "query"} => h = 0,
         token = "query" => messages[m].query # <<>>,
         token \in {"name", "value"} => h \in 1..Len(messages[m].headers)
  PROVE  Symbol("stop", token, m, h, Len(TextOf(messages[m], token, h))) \in Sent
<1> DEFINE k == messages[m]
           n == Len(TextOf(k, token, h))
           x == Symbol("stop", token, m, h, n)
<1>1. n \in Nat /\ h <= Len(k.headers)
  <2>1. h <= Len(k.headers)
    BY Kind
  <2>2. CASE token = "path"
    <3>1. TextOf(k, token, h) = k.path
      BY <2>2 DEF TextOf
    <3> QED BY <2>1, <3>1, Kind
  <2>3. CASE token # "path"
    <3>1. TextOf(k, token, h) \in Seq(Parts)
      BY <2>3, TextTyped
    <3> QED BY <2>1, <3>1
  <2> QED BY <2>2, <2>3
<1> HIDE DEF n
<1>2. /\ x.token = "stop" /\ x.part = token /\ x.of = m /\ x.header = h /\ x.nth = n
      /\ x \in [token : SentTokens, part : SentParts, of : 1..N, header : Nat, nth : Nat]
  BY <1>1 DEF Symbol, SentTokens, SentParts, Stopped
<1> HIDE DEF x
<1>3. Place(x) = token /\ ~EndsHeaders(x) /\ token \in Stopped /\ token # "headers"
  BY <1>2 DEF Place, EndsHeaders, Stopped
<1>4. Meant(k, x)
  BY <1>1, <1>2, <1>3 DEF Meant, n
<1> QED BY <1>2, <1>4 DEF Sent, x, n

LEMMA TokenChain ==
  ASSUME NEW m \in 1..N, NEW h \in Nat, messages \in [1..N -> MessageKinds],
         NEW token \in {"query", "name", "value"},
         token = "query" => h = 0,
         token \in {"name", "value"} => h \in 1..Len(messages[m].headers),
         NEW parts, parts = TextOf(messages[m], token, h), parts # <<>>
  PROVE  LET s == Token(token, parts, m, h)
         IN  /\ Chain(s)
             /\ s[1].token = token /\ s[1].of = m /\ s[1].header = h /\ s[1].nth = 1
             /\ Final(s) = Symbol("stop", token, m, h, Len(parts))
<1> DEFINE w == Numbered(token, parts, m, h)
           stop == Symbol("stop", token, m, h, Len(parts))
           n == Len(parts)
<1>1. parts \in Seq(Parts) /\ n \in Nat \ {0}
  <2>1. parts \in Seq(Parts)
    BY TextTyped
  <2> QED BY <2>1
<1>2. /\ Chain(w) /\ Len(w) = n
      /\ \A i \in 1..Len(w) : w[i] = Symbol(token, parts[i], m, h, i)
  <2>1. token \in {"query", "name", "value", "body"} /\ token # "body"
    OBVIOUS
  <2> QED BY <2>1, NumberedChain
<1>3. stop \in Sent
  BY StopSent DEF TextOf
<1>4. /\ stop.token = "stop" /\ stop.part = token /\ stop.of = m /\ stop.header = h
      /\ stop.nth = n
  BY DEF Symbol
<1>5. /\ w[1].token = token /\ w[1].of = m /\ w[1].header = h /\ w[1].nth = 1
      /\ Final(w).token = token /\ Final(w).of = m /\ Final(w).header = h /\ Final(w).nth = n
  <2>1. w[1] = Symbol(token, parts[1], m, h, 1) /\ w[n] = Symbol(token, parts[n], m, h, n)
    BY <1>1, <1>2
  <2>2. Final(w) = w[n]
    BY <1>2 DEF Final
  <2> HIDE DEF w
  <2> QED BY <2>1, <2>2 DEF Symbol
<1> HIDE DEF w, stop, n
<1>6. Link(Final(w), stop)
  BY <1>4, <1>5 DEF Link, Links, EndsHeaders
<1>7. Chain(<<stop>>) /\ Final(<<stop>>) = stop /\ <<stop>>[1] = stop
  BY <1>3 DEF Chain, Final
<1>8. Chain(w \o <<stop>>) /\ (w \o <<stop>>)[1] = w[1] /\ Final(w \o <<stop>>) = stop
  BY <1>2, <1>6, <1>7, ChainConcat
<1>9. Token(token, parts, m, h) = w \o <<stop>>
  BY DEF Token, w, stop
<1> QED BY <1>5, <1>8, <1>9 DEF stop

LEMMA FieldChain ==
  ASSUME NEW m \in 1..N, messages \in [1..N -> MessageKinds],
         NEW i \in 1..Len(messages[m].headers)
  PROVE  LET s == Field(messages[m].headers[i], m, i)
         IN  /\ Chain(s)
             /\ s[1].token = "name" /\ s[1].of = m /\ s[1].header = i /\ s[1].nth = 1
             /\ Final(s).token = "stop" /\ Final(s).part = "value" /\ Final(s).of = m
             /\ Final(s).header = i
<1> DEFINE k == messages[m]
           h == k.headers[i]
           a == Token("name", h.name, m, i)
           b == Token("value", h.value, m, i)
<1>1. i \in Nat /\ h.name # <<>> /\ h.value # <<>>
  BY Kind
<1>2. /\ Chain(a) /\ Final(a) = Symbol("stop", "name", m, i, Len(h.name))
      /\ a[1].token = "name" /\ a[1].of = m /\ a[1].header = i /\ a[1].nth = 1
  BY <1>1, TokenChain DEF TextOf
<1>3. /\ Chain(b) /\ Final(b) = Symbol("stop", "value", m, i, Len(h.value))
      /\ b[1].token = "value" /\ b[1].of = m /\ b[1].header = i /\ b[1].nth = 1
  BY <1>1, TokenChain DEF TextOf
<1> HIDE DEF a, b
<1>4. /\ Final(a).token = "stop" /\ Final(a).part = "name" /\ Final(a).of = m
      /\ Final(a).header = i
      /\ Final(b).token = "stop" /\ Final(b).part = "value" /\ Final(b).of = m
      /\ Final(b).header = i
  BY <1>2, <1>3 DEF Symbol
<1>5. Link(Final(a), b[1])
  BY <1>3, <1>4 DEF Link, Links, EndsHeaders
<1>6. Chain(a \o b) /\ (a \o b)[1] = a[1] /\ Final(a \o b) = Final(b)
  BY <1>2, <1>3, <1>5, ChainConcat
<1>7. Field(h, m, i) = a \o b
  BY DEF Field, a, b
<1> QED BY <1>2, <1>4, <1>6, <1>7

LEMMA PathSymbol ==
  ASSUME NEW m \in 1..N, messages \in [1..N -> MessageKinds],
         NEW i \in 1..Len(messages[m].path), NEW p \in {"%", "h", "l", "c"},
         messages[m].path[i] = "c" => p = "c",
         messages[m].path[i] = "esc" => p \in {"%", "h", "l"},
         messages[m].path[i] = "bad" => p \in {"%", "c"}
  PROVE  Symbol("path", p, m, 0, i) \in Sent
<1> DEFINE k == messages[m]
           x == Symbol("path", p, m, 0, i)
<1>1. /\ k.path \in Seq({"c", "esc", "bad"}) /\ Len(k.headers) \in Nat /\ i \in Nat
      /\ k.path[i] \in {"c", "esc", "bad"}
  BY Kind
<1>2. /\ x.token = "path" /\ x.part = p /\ x.of = m /\ x.header = 0 /\ x.nth = i
      /\ x \in [token : SentTokens, part : SentParts, of : 1..N, header : Nat, nth : Nat]
  BY <1>1 DEF Symbol, SentTokens, SentParts
<1> HIDE DEF x
<1>3. Place(x) = "path" /\ ~EndsHeaders(x) /\ TextOf(k, x.token, x.header) = k.path
  BY <1>2 DEF Place, EndsHeaders, TextOf
<1>4. Meant(k, x)
  BY <1>1, <1>2, <1>3 DEF Meant
<1> QED BY <1>2, <1>4 DEF Sent, x

LEMMA UnitChain ==
  ASSUME NEW m \in 1..N, messages \in [1..N -> MessageKinds],
         NEW i \in 1..Len(messages[m].path)
  PROVE  LET c == messages[m].path[i]
             s == Quoted(c, m, i)
         IN  /\ Chain(s)
             /\ s[1].token = "path" /\ s[1].of = m /\ s[1].nth = i
             /\ s[1].part = IF c = "c" THEN "c" ELSE "%"
             /\ Final(s).token = "path" /\ Final(s).of = m /\ Final(s).nth = i
             /\ Final(s).part \in {"l", "c"}
<1> DEFINE k == messages[m]
           c == k.path[i]
           Sym(p) == Symbol("path", p, m, 0, i)
           s == Quoted(c, m, i)
<1>1. c \in {"c", "esc", "bad"} /\ i \in Nat
  BY Kind
<1>2. s = [j \in DOMAIN Quote(c) |-> Sym(Quote(c)[j])]
  BY DEF Quoted, Mapped
<1>3. \A p : /\ Sym(p).token = "path" /\ Sym(p).part = p /\ Sym(p).of = m
             /\ Sym(p).nth = i /\ Sym(p).header = 0
  BY DEF Symbol
<1>4. CASE c = "c"
  <2>1. s = <<Sym("c")>>
    BY <1>2, <1>4 DEF Quote
  <2>2. Sym("c") \in Sent
    BY <1>4, PathSymbol
  <2> HIDE DEF s, Sym
  <2>3. Chain(s) /\ s[1] = Sym("c") /\ Final(s) = Sym("c")
    BY <2>1, <2>2 DEF Chain, Final
  <2> QED BY <1>3, <1>4, <2>3 DEF s
<1>5. CASE c = "esc"
  <2>1. s = <<Sym("%"), Sym("h"), Sym("l")>>
    BY <1>2, <1>5 DEF Quote
  <2>2. Sym("%") \in Sent /\ Sym("h") \in Sent /\ Sym("l") \in Sent
    BY <1>5, PathSymbol
  <2> HIDE DEF s, Sym, k
  <2>3. Links(k, Sym("%"), Sym("h")) /\ Links(k, Sym("h"), Sym("l"))
    BY <1>3 DEF Links, Escapes, EndsHeaders
  <2>4. Link(Sym("%"), Sym("h")) /\ Link(Sym("h"), Sym("l"))
    BY <1>3, <2>3 DEF Link, k
  <2> DEFINE a == Sym("%")
             b == Sym("h")
             d == Sym("l")
  <2>5. a \in Sent /\ b \in Sent /\ d \in Sent /\ Link(a, b) /\ Link(b, d) /\ s = <<a, b, d>>
    BY <2>1, <2>2, <2>4
  <2> HIDE DEF a, b, d
  <2>6. s \in Seq(Sent) /\ Len(s) = 3 /\ s[1] = a /\ s[2] = b /\ s[3] = d
    BY <2>5
  <2>7. Chain(s) /\ s[1] = a /\ Final(s) = d
    <3>1. ASSUME NEW j \in 1..Len(s) - 1 PROVE Link(s[j], s[j + 1])
      <4>1. j = 1 \/ j = 2
        BY <2>6
      <4> QED BY <2>5, <2>6, <4>1
    <3>2. s # <<>>
      BY <2>5
    <3>3. Len(s) - 1 = 2 /\ s[1] = a /\ s[Len(s)] = d
      BY <2>6
    <3> QED BY <2>6, <3>1, <3>2, <3>3 DEF Chain, Final
  <2>8. s[1] = Sym("%") /\ Final(s) = Sym("l")
    BY <2>7 DEF a, d
  <2> QED BY <1>3, <1>5, <2>7, <2>8 DEF s, k
<1>6. CASE c = "bad"
  <2>1. s = <<Sym("%"), Sym("c")>>
    BY <1>2, <1>6 DEF Quote
  <2>2. Sym("%") \in Sent /\ Sym("c") \in Sent
    BY <1>6, PathSymbol
  <2> HIDE DEF s, Sym
  <2>3. Links(k, Sym("%"), Sym("c"))
    BY <1>3, <1>6 DEF Links, Escapes, EndsHeaders
  <2>4. Link(Sym("%"), Sym("c"))
    BY <1>3, <2>3 DEF Link
  <2> DEFINE a == Sym("%")
             d == Sym("c")
  <2>5. a \in Sent /\ d \in Sent /\ Link(a, d) /\ s = <<a, d>>
    BY <2>1, <2>2, <2>4
  <2> HIDE DEF a, d
  <2>6. s \in Seq(Sent) /\ Len(s) = 2 /\ s[1] = a /\ s[2] = d
    BY <2>5
  <2>7. Chain(s) /\ s[1] = a /\ Final(s) = d
    <3>1. ASSUME NEW j \in 1..Len(s) - 1 PROVE Link(s[j], s[j + 1])
      <4>1. j = 1
        BY <2>6
      <4> QED BY <2>5, <2>6, <4>1
    <3>2. s # <<>>
      BY <2>5
    <3>3. Len(s) - 1 = 1 /\ s[1] = a /\ s[Len(s)] = d
      BY <2>6
    <3> QED BY <2>6, <3>1, <3>2, <3>3 DEF Chain, Final
  <2>8. s[1] = Sym("%") /\ Final(s) = Sym("c")
    BY <2>7 DEF a, d
  <2> QED BY <1>3, <1>6, <2>7, <2>8 DEF s
<1> QED BY <1>1, <1>4, <1>5, <1>6

(* A path is the chain of what its characters are sent as. *)
LEMMA PathChain ==
  ASSUME NEW m \in 1..N, messages \in [1..N -> MessageKinds]
  PROVE  LET k == messages[m]
             s == FlattenSeq([i \in DOMAIN k.path |-> Quoted(k.path[i], m, i)])
         IN  /\ Chain(s)
             /\ s[1].token = "path" /\ s[1].of = m /\ s[1].nth = 1
             /\ s[1].part = IF k.path[1] = "c" THEN "c" ELSE "%"
             /\ Final(s).token = "path" /\ Final(s).of = m /\ Final(s).nth = Len(k.path)
             /\ Final(s).part \in {"l", "c"}
<1> DEFINE k == messages[m]
           n == Len(k.path)
           Unit(i) == Quoted(k.path[i], m, i)
           seqs == [i \in 1..n |-> Unit(i)]
           First(c, i) == /\ c[1].token = "path" /\ c[1].of = m /\ c[1].nth = i
                          /\ c[1].part = IF k.path[i] = "c" THEN "c" ELSE "%"
           EndsAt(c, i) == /\ Final(c).token = "path" /\ Final(c).of = m /\ Final(c).nth = i
                           /\ Final(c).part \in {"l", "c"}
<1>1. n \in Nat \ {0} /\ DOMAIN k.path = 1..n
  BY Kind
<1>2. ASSUME NEW i \in 1..n
      PROVE  Chain(seqs[i]) /\ First(seqs[i], i) /\ EndsAt(seqs[i], i) /\ seqs[i] \in Seq(Sent)
  <2>1. Chain(Unit(i)) /\ First(Unit(i), i) /\ EndsAt(Unit(i), i)
    BY UnitChain
  <2>2. seqs[i] = Unit(i)
    OBVIOUS
  <2> HIDE DEF seqs, Unit
  <2> QED BY <2>1, <2>2 DEF Chain
<1>3. seqs \in Seq(Seq(Sent)) /\ Len(seqs) = n /\ seqs # <<>>
  <2>1. seqs = [i \in 1..n |-> seqs[i]] /\ \A i \in 1..n : seqs[i] \in Seq(Sent)
    BY <1>2
  <2> HIDE DEF seqs, n
  <2> QED BY <1>1, <2>1
<1> HIDE DEF seqs
<1>4. PICK f \in [1..n -> Seq(Sent)] :
        /\ FlattenSeq(seqs) = f[n]
        /\ \A i \in 1..n : f[i] = IF i = 1 THEN seqs[i] ELSE f[i - 1] \o seqs[i]
  <2> DEFINE j == Len(seqs)
  <2>1. \E f \in [1..j -> Seq(Sent)] :
          /\ FlattenSeq(seqs) = f[j]
          /\ \A i \in 1..j : f[i] = IF i = 1 THEN seqs[i] ELSE f[i - 1] \o seqs[i]
    BY <1>3, FlattenSteps, ZenonT(40)
  <2>2. j = n
    BY <1>3
  <2> HIDE DEF j
  <2> QED BY <2>1, <2>2
<1> DEFINE Whole(i) == Chain(f[i]) /\ First(f[i], 1) /\ EndsAt(f[i], i)
           P == {i \in 1..n : Whole(i)}
<1>5. \A i : i \in P <=> i \in 1..n /\ Whole(i)
  OBVIOUS
<1> HIDE DEF P
<1>6. 1 \in P
  <2>1. 1 \in 1..n
    BY <1>1
  <2>2. f[1] = seqs[1]
    BY <1>4, <2>1
  <2> QED BY <1>2, <1>5, <2>1, <2>2
<1>7. ASSUME NEW i \in 1..n, i + 1 \in 1..n, i \in P
      PROVE  i + 1 \in P
  <2>1. i + 1 # 1 /\ (i + 1) - 1 = i /\ i \in Nat
    BY <1>1
  <2>2. f[i + 1] = f[i] \o seqs[i + 1]
    BY <1>4, <1>7, <2>1
  <2> DEFINE u == f[i]
             t == seqs[i + 1]
  <2>3. Chain(u) /\ First(u, 1) /\ EndsAt(u, i) /\ Chain(t) /\ First(t, i + 1) /\ EndsAt(t, i + 1)
    BY <1>2, <1>5, <1>7
  <2> HIDE DEF u, t
  <2>4. Link(Final(u), t[1])
    <3> DEFINE x == Final(u)
               y == t[1]
    <3>1. /\ x.token = "path" /\ x.of = m /\ x.nth = i /\ x.part \in {"l", "c"}
          /\ y.token = "path" /\ y.of = m /\ y.nth = i + 1
          /\ y.part = IF k.path[i + 1] = "c" THEN "c" ELSE "%"
      BY <2>3
    <3> HIDE DEF x, y, First, EndsAt
    <3>2. Escapes(k, x, y)
      BY <3>1 DEF Escapes
    <3> HIDE DEF k
    <3>3. Links(k, x, y)
      BY <3>1, <3>2 DEF Links, EndsHeaders
    <3>4. Link(x, y)
      BY <3>1, <3>3 DEF Link, k
    <3> QED BY <3>4 DEF x, y
  <2>5. Chain(u \o t) /\ (u \o t)[1] = u[1] /\ Final(u \o t) = Final(t)
    BY <2>3, <2>4, ChainConcat
  <2>6. Whole(i + 1)
    BY <2>2, <2>3, <2>5 DEF u, t
  <2> HIDE DEF Whole
  <2> QED BY <1>5, <1>7, <2>6
<1>8. n \in P
  <2>1. 1..n \subseteq P
    BY <1>1, <1>6, <1>7, UpTo
  <2> QED BY <1>1, <2>1
<1>9. Whole(n)
  BY <1>5, <1>8
<1>10. FlattenSeq([i \in DOMAIN k.path |-> Quoted(k.path[i], m, i)]) = f[n]
  BY <1>1, <1>4 DEF seqs
<1> QED BY <1>9, <1>10


(* The headers are the chain of their fields. *)
LEMMA HeadersChain ==
  ASSUME NEW m \in 1..N, messages \in [1..N -> MessageKinds], messages[m].headers # <<>>
  PROVE  LET k == messages[m]
             s == FlattenSeq([i \in DOMAIN k.headers |-> Field(k.headers[i], m, i)])
         IN  /\ Chain(s)
             /\ s[1].token = "name" /\ s[1].of = m /\ s[1].header = 1 /\ s[1].nth = 1
             /\ Final(s).token = "stop" /\ Final(s).part = "value" /\ Final(s).of = m
             /\ Final(s).header = Len(k.headers)
<1> DEFINE k == messages[m]
           n == Len(k.headers)
           Unit(i) == Field(k.headers[i], m, i)
           seqs == [i \in 1..n |-> Unit(i)]
           First(c, i) == c[1].token = "name" /\ c[1].of = m /\ c[1].header = i /\ c[1].nth = 1
           EndsAt(c, i) == /\ Final(c).token = "stop" /\ Final(c).part = "value" /\ Final(c).of = m
                           /\ Final(c).header = i
<1>1. n \in Nat \ {0} /\ DOMAIN k.headers = 1..n
  BY Kind
<1>2. ASSUME NEW i \in 1..n
      PROVE  Chain(seqs[i]) /\ First(seqs[i], i) /\ EndsAt(seqs[i], i) /\ seqs[i] \in Seq(Sent)
  <2>1. Chain(Unit(i)) /\ First(Unit(i), i) /\ EndsAt(Unit(i), i)
    BY FieldChain
  <2>2. seqs[i] = Unit(i)
    OBVIOUS
  <2> HIDE DEF seqs, Unit
  <2> QED BY <2>1, <2>2 DEF Chain
<1>3. seqs \in Seq(Seq(Sent)) /\ Len(seqs) = n /\ seqs # <<>>
  <2>1. seqs = [i \in 1..n |-> seqs[i]] /\ \A i \in 1..n : seqs[i] \in Seq(Sent)
    BY <1>2
  <2> HIDE DEF seqs, n
  <2> QED BY <1>1, <2>1
<1> HIDE DEF seqs
<1>4. PICK f \in [1..n -> Seq(Sent)] :
        /\ FlattenSeq(seqs) = f[n]
        /\ \A i \in 1..n : f[i] = IF i = 1 THEN seqs[i] ELSE f[i - 1] \o seqs[i]
  <2> DEFINE j == Len(seqs)
  <2>1. \E f \in [1..j -> Seq(Sent)] :
          /\ FlattenSeq(seqs) = f[j]
          /\ \A i \in 1..j : f[i] = IF i = 1 THEN seqs[i] ELSE f[i - 1] \o seqs[i]
    BY <1>3, FlattenSteps, ZenonT(40)
  <2>2. j = n
    BY <1>3
  <2> HIDE DEF j
  <2> QED BY <2>1, <2>2
<1> DEFINE Whole(i) == Chain(f[i]) /\ First(f[i], 1) /\ EndsAt(f[i], i)
           P == {i \in 1..n : Whole(i)}
<1>5. \A i : i \in P <=> i \in 1..n /\ Whole(i)
  OBVIOUS
<1> HIDE DEF P
<1>6. 1 \in P
  <2>1. 1 \in 1..n
    BY <1>1
  <2>2. f[1] = seqs[1]
    BY <1>4, <2>1
  <2> QED BY <1>2, <1>5, <2>1, <2>2
<1>7. ASSUME NEW i \in 1..n, i + 1 \in 1..n, i \in P
      PROVE  i + 1 \in P
  <2>1. i + 1 # 1 /\ (i + 1) - 1 = i /\ i \in Nat
    BY <1>1
  <2>2. f[i + 1] = f[i] \o seqs[i + 1]
    BY <1>4, <1>7, <2>1
  <2> DEFINE u == f[i]
             t == seqs[i + 1]
  <2>3. Chain(u) /\ First(u, 1) /\ EndsAt(u, i) /\ Chain(t) /\ First(t, i + 1) /\ EndsAt(t, i + 1)
    BY <1>2, <1>5, <1>7
  <2> HIDE DEF u, t
  <2>4. Link(Final(u), t[1])
    <3> DEFINE x == Final(u)
               y == t[1]
    <3>1. /\ x.token = "stop" /\ x.part = "value" /\ x.of = m /\ x.header = i
          /\ y.token = "name" /\ y.of = m /\ y.header = i + 1 /\ y.nth = 1
      BY <2>3
    <3> HIDE DEF x, y, First, EndsAt
    <3>2. Links(messages[m], x, y)
      BY <3>1 DEF Links, EndsFields, EndsHeaders
    <3>3. Link(x, y)
      BY <3>1, <3>2 DEF Link
    <3> QED BY <3>3 DEF x, y
  <2>5. Chain(u \o t) /\ (u \o t)[1] = u[1] /\ Final(u \o t) = Final(t)
    BY <2>3, <2>4, ChainConcat
  <2>6. Whole(i + 1)
    BY <2>2, <2>3, <2>5 DEF u, t
  <2> HIDE DEF Whole
  <2> QED BY <1>5, <1>7, <2>6
<1>8. n \in P
  <2>1. 1..n \subseteq P
    BY <1>1, <1>6, <1>7, UpTo
  <2> QED BY <1>1, <2>1
<1>9. Whole(n)
  BY <1>5, <1>8
<1>10. FlattenSeq([i \in DOMAIN k.headers |-> Field(k.headers[i], m, i)]) = f[n]
  BY <1>1, <1>4 DEF seqs
<1> QED BY <1>9, <1>10

(* The symbols that stand for no text. *)
LEMMA MarksSent ==
  ASSUME NEW m \in 1..N, messages \in [1..N -> MessageKinds]
  PROVE  LET k == messages[m]
             last == Len(k.headers)
         IN  /\ Symbol("begin", "line", m, 0, 0) \in Sent
             /\ Symbol(IF k.garbled THEN "garbage" ELSE "stop", "headers", m, last, 0) \in Sent
             /\ Symbol("complete", "body", m, last, Len(k.body)) \in Sent
<1> DEFINE k == messages[m]
           last == Len(k.headers)
           len == Len(k.body)
           a == Symbol("begin", "line", m, 0, 0)
           b == Symbol(IF k.garbled THEN "garbage" ELSE "stop", "headers", m, last, 0)
           d == Symbol("complete", "body", m, last, len)
           All == [token : SentTokens, part : SentParts, of : 1..N, header : Nat, nth : Nat]
<1>1. last \in Nat /\ k.garbled \in BOOLEAN
  BY Kind
<1>2. len \in Nat
  <2>1. k.body \in Seq(Parts)
    BY Kind
  <2> QED BY <2>1
<1> HIDE DEF len
<1>3. /\ a.token = "begin" /\ a.part = "line" /\ a.of = m /\ a.header = 0 /\ a.nth = 0
      /\ b.token = (IF k.garbled THEN "garbage" ELSE "stop") /\ b.part = "headers" /\ b.of = m
      /\ b.header = last /\ b.nth = 0
      /\ d.token = "complete" /\ d.part = "body" /\ d.of = m /\ d.header = last /\ d.nth = len
  BY DEF Symbol
<1>4. a \in All /\ b \in All /\ d \in All
  BY <1>1, <1>2 DEF Symbol, SentTokens, SentParts, Stopped
<1> HIDE DEF a, b, d, All
<1>5. Meant(k, a)
  BY <1>1, <1>3 DEF Meant, Place, EndsHeaders
<1>6. Meant(k, b)
  BY <1>1, <1>3 DEF Meant, Place, EndsHeaders, Stopped
<1>7. Meant(k, d)
  BY <1>1, <1>3 DEF Meant, Place, EndsHeaders
<1> QED BY <1>3, <1>4, <1>5, <1>6, <1>7 DEF Sent, a, b, d, All, len

(* A chain goes on with another, or with nothing. *)
LEMMA ChainPerhaps ==
  ASSUME NEW s, NEW t, NEW u, Chain(s), t # <<>> => Chain(t) /\ Link(Final(s), t[1]),
         u = s \o t
  PROVE  /\ Chain(u) /\ u[1] = s[1]
         /\ Final(u) = IF t = <<>> THEN Final(s) ELSE Final(t)
<1>1. CASE t = <<>>
  <2>1. s \in Seq(Sent)
    BY DEF Chain
  <2>2. s \o t = s
    BY <1>1, <2>1
  <2> QED BY <1>1, <2>2
<1>2. CASE t # <<>>
  BY <1>2, ChainConcat
<1> QED BY <1>1, <1>2

(* A message is one chain, from its first symbol to its last. *)
LEMMA MessageChain ==
  ASSUME NEW m \in 1..N, messages \in [1..N -> MessageKinds]
  PROVE  LET s == Symbols(messages[m], m)
         IN  /\ Chain(s) /\ s[1].token = "begin" /\ s[1].of = m
             /\ Final(s).token = "complete" /\ Final(s).of = m
<1> DEFINE k == messages[m]
           last == Len(k.headers)
           begin == Symbol("begin", "line", m, 0, 0)
           path == FlattenSeq([i \in DOMAIN k.path |-> Quoted(k.path[i], m, i)])
           behind == Symbol("stop", "path", m, 0, Len(k.path))
           query == IF k.query = <<>> THEN <<>> ELSE Token("query", k.query, m, 0)
           fields == FlattenSeq([i \in DOMAIN k.headers |-> Field(k.headers[i], m, i)])
           end == Symbol(IF k.garbled THEN "garbage" ELSE "stop", "headers", m, last, 0)
           body == Numbered("body", k.body, m, last)
           complete == Symbol("complete", "body", m, last, Len(k.body))
<1>0. last \in Nat /\ k.garbled \in BOOLEAN /\ k.body \in Seq(Parts) /\ k.query \in Seq(Parts)
      /\ k.headers \in Seq([name : Text \ {<<>>}, value : Text \ {<<>>}])
  BY Kind
<1>1. begin \in Sent /\ end \in Sent /\ complete \in Sent
  BY MarksSent
<1>2. behind \in Sent
  BY StopSent DEF TextOf
<1>3. /\ Chain(path)
      /\ path[1].token = "path" /\ path[1].of = m /\ path[1].nth = 1
      /\ path[1].part = IF k.path[1] = "c" THEN "c" ELSE "%"
      /\ Final(path).token = "path" /\ Final(path).of = m /\ Final(path).nth = Len(k.path)
      /\ Final(path).part \in {"l", "c"}
  BY PathChain
<1>4. query # <<>> =>
        /\ k.query # <<>> /\ Chain(query)
        /\ query[1].token = "query" /\ query[1].of = m /\ query[1].header = 0 /\ query[1].nth = 1
        /\ Final(query) = Symbol("stop", "query", m, 0, Len(k.query))
  <2>1. CASE k.query = <<>>
    BY <2>1
  <2>2. CASE k.query # <<>>
    <3>1. LET s == Token("query", k.query, m, 0)
          IN  /\ Chain(s)
              /\ s[1].token = "query" /\ s[1].of = m /\ s[1].header = 0 /\ s[1].nth = 1
              /\ Final(s) = Symbol("stop", "query", m, 0, Len(k.query))
      BY <2>2, TokenChain DEF TextOf
    <3> QED BY <2>2, <3>1
  <2> QED BY <2>1, <2>2
<1>5. query = <<>> <=> k.query = <<>>
  <2>1. CASE k.query # <<>>
    <3>1. LET s == Token("query", k.query, m, 0)
          IN  /\ Chain(s)
              /\ s[1].token = "query" /\ s[1].of = m /\ s[1].header = 0 /\ s[1].nth = 1
              /\ Final(s) = Symbol("stop", "query", m, 0, Len(k.query))
      BY <2>1, TokenChain DEF TextOf
    <3> QED BY <2>1, <3>1 DEF Chain
  <2> QED BY <2>1
<1>6. fields # <<>> =>
        /\ Chain(fields)
        /\ fields[1].token = "name" /\ fields[1].of = m /\ fields[1].header = 1 /\ fields[1].nth = 1
        /\ Final(fields).token = "stop" /\ Final(fields).part = "value" /\ Final(fields).of = m
        /\ Final(fields).header = last
  <2>1. CASE k.headers = <<>>
    <3>1. [i \in DOMAIN k.headers |-> Field(k.headers[i], m, i)] = <<>>
      BY <2>1
    <3>2. fields = <<>>
      BY <3>1 DEF FlattenSeq
    <3> QED BY <3>2
  <2>2. CASE k.headers # <<>>
    BY <2>2, HeadersChain
  <2> QED BY <2>1, <2>2
<1>7. fields = <<>> => last = 0
  <2>1. CASE k.headers = <<>>
    BY <2>1
  <2>2. CASE k.headers # <<>>
    <3>1. Chain(fields)
      BY <2>2, HeadersChain
    <3> QED BY <3>1 DEF Chain
  <2> QED BY <2>1, <2>2
<1>8. body # <<>> =>
        /\ k.body # <<>> /\ Chain(body)
        /\ body[1].token = "body" /\ body[1].of = m /\ body[1].header = last /\ body[1].nth = 1
        /\ Final(body).token = "body" /\ Final(body).of = m /\ Final(body).header = last
        /\ Final(body).nth = Len(k.body)
  <2>1. CASE k.body = <<>>
    <3>1. body = <<>>
      BY <2>1 DEF Numbered
    <3> QED BY <3>1
  <2>2. CASE k.body # <<>>
    <3>1. /\ Chain(body) /\ Len(body) = Len(k.body)
          /\ \A i \in 1..Len(body) : body[i] = Symbol("body", k.body[i], m, last, i)
      BY <1>0, <2>2, NumberedChain DEF TextOf
    <3>2. Len(k.body) \in Nat \ {0}
      BY <1>0, <2>2
    <3> DEFINE n == Len(k.body)
    <3> HIDE DEF body
    <3>3. body[1] = Symbol("body", k.body[1], m, last, 1) /\ body[n] = Symbol("body", k.body[n], m, last, n)
      BY <3>1, <3>2
    <3>4. Final(body) = body[n]
      BY <3>1 DEF Final
    <3> QED BY <2>2, <3>1, <3>3, <3>4 DEF Symbol
  <2> QED BY <2>1, <2>2
<1>9. body = <<>> <=> k.body = <<>>
  <2>1. CASE k.body # <<>>
    <3>1. Chain(body)
      BY <1>0, <2>1, NumberedChain DEF TextOf
    <3> QED BY <2>1, <3>1 DEF Chain
  <2>2. CASE k.body = <<>>
    BY <2>2 DEF Numbered
  <2> QED BY <2>1, <2>2
<1>10. /\ begin.token = "begin" /\ begin.part = "line" /\ begin.of = m /\ begin.header = 0
       /\ begin.nth = 0
       /\ behind.token = "stop" /\ behind.part = "path" /\ behind.of = m /\ behind.header = 0
       /\ behind.nth = Len(k.path)
       /\ end.token = (IF k.garbled THEN "garbage" ELSE "stop") /\ end.part = "headers"
       /\ end.of = m /\ end.header = last /\ end.nth = 0
       /\ complete.token = "complete" /\ complete.of = m
  BY DEF Symbol
<1>11. Symbols(k, m) =
         <<begin>> \o path \o <<behind>> \o query \o fields \o <<end>> \o body \o <<complete>>
  BY DEF Symbols
<1>12. \A x \in Sent : Chain(<<x>>) /\ Final(<<x>>) = x /\ <<x>>[1] = x /\ <<x>> # <<>>
  BY DEF Chain, Final
<1> DEFINE s1 == <<begin>> \o path
           s2 == s1 \o <<behind>>
           s3 == s2 \o query
           s4 == s3 \o fields
           s5 == s4 \o <<end>>
           s6 == s5 \o body
           s7 == s6 \o <<complete>>
<1>13. Symbols(k, m) = s7
  BY <1>11
<1>14. path # <<>>
  BY <1>3 DEF Chain
<1> HIDE DEF begin, path, behind, query, fields, end, body, complete
<1>15. Chain(s1) /\ s1[1] = begin /\ Final(s1) = Final(path)
  <2> DEFINE x == path[1]
  <2>1. x.token = "path" /\ x.of = m /\ x.nth = 1 /\ x.part = IF k.path[1] = "c" THEN "c" ELSE "%"
    BY <1>3
  <2> HIDE DEF x
  <2>2. Escapes(k, begin, x)
    BY <1>10, <2>1 DEF Escapes
  <2> HIDE DEF k
  <2>3. Links(k, begin, x)
    BY <1>10, <2>1, <2>2 DEF Links, EndsHeaders
  <2>4. Link(begin, x)
    BY <1>10, <2>1, <2>3 DEF Link, k
  <2>5. Chain(<<begin>>) /\ <<begin>>[1] = begin /\ Link(Final(<<begin>>), path[1])
    BY <1>1, <1>12, <2>4 DEF x
  <2>6. Chain(<<begin>> \o path) /\ (<<begin>> \o path)[1] = <<begin>>[1]
        /\ Final(<<begin>> \o path) = Final(path)
    BY <1>3, <2>5, ChainConcat
  <2> QED BY <2>5, <2>6
<1>16. Chain(s2) /\ s2[1] = begin /\ Final(s2) = behind
  <2>1. Link(Final(path), behind)
    <3> DEFINE x == Final(path)
    <3>1. x.token = "path" /\ x.of = m /\ x.nth = Len(k.path) /\ x.part \in {"l", "c"} /\ x \in Sent
      <4>1. path \in Seq(Sent) /\ path # <<>>
        BY <1>3 DEF Chain
      <4> QED BY <1>3, <4>1 DEF Final
    <3> HIDE DEF x
    <3>2. x.header = 0
      BY <3>1 DEF Sent, Meant, Place
    <3> HIDE DEF k
    <3>3. Links(k, x, behind)
      BY <1>10, <3>1, <3>2 DEF Links, EndsHeaders
    <3> QED BY <1>10, <3>1, <3>3 DEF Link, k, x
  <2>2. Chain(<<behind>>) /\ Final(<<behind>>) = behind /\ <<behind>>[1] = behind /\ <<behind>> # <<>>
    BY <1>2, <1>12
  <2> HIDE DEF s1
  <2>3. Chain(s1 \o <<behind>>) /\ (s1 \o <<behind>>)[1] = s1[1]
        /\ Final(s1 \o <<behind>>) = Final(<<behind>>)
    BY <1>15, <2>1, <2>2, ChainConcat
  <2> QED BY <1>15, <2>2, <2>3
<1>17. /\ Chain(s3) /\ s3[1] = begin
       /\ Final(s3).token = "stop" /\ Final(s3).of = m /\ Final(s3).header = 0
       /\ Final(s3).part = "query" \/ (Final(s3).part = "path" /\ k.query = <<>>)
  <2>1. query # <<>> => Chain(query) /\ Link(Final(s2), query[1])
    <3> SUFFICES ASSUME query # <<>> PROVE Chain(query) /\ Link(Final(s2), query[1])
      OBVIOUS
    <3> DEFINE x == query[1]
    <3>1. /\ x.token = "query" /\ x.of = m /\ x.nth = 1 /\ Chain(query)
      BY <1>4
    <3> HIDE DEF x, k
    <3>2. Links(k, behind, x)
      BY <1>10, <3>1 DEF Links, EndsHeaders
    <3> QED BY <1>10, <1>16, <3>1, <3>2 DEF Link, k, x
  <2> HIDE DEF s2
  <2>2. Chain(s3) /\ s3[1] = s2[1] /\ Final(s3) = IF query = <<>> THEN Final(s2) ELSE Final(query)
    BY <1>16, <2>1, ChainPerhaps
  <2> HIDE DEF s3
  <2>3. CASE query = <<>>
    BY <1>5, <1>10, <1>16, <2>2, <2>3
  <2>4. CASE query # <<>>
    BY <1>4, <1>16, <2>2, <2>4 DEF Symbol
  <2> QED BY <2>3, <2>4
<1>18. /\ Chain(s4) /\ s4[1] = begin
       /\ Final(s4).of = m /\ Final(s4).header = last /\ EndsFields(k, Final(s4))
  <2>1. fields # <<>> => Chain(fields) /\ Link(Final(s3), fields[1])
    <3> SUFFICES ASSUME fields # <<>> PROVE Chain(fields) /\ Link(Final(s3), fields[1])
      OBVIOUS
    <3> DEFINE x == fields[1]
               y == Final(s3)
    <3>1. /\ x.token = "name" /\ x.of = m /\ x.header = 1 /\ x.nth = 1 /\ Chain(fields)
          /\ y.token = "stop" /\ y.of = m /\ y.header = 0
          /\ y.part = "query" \/ (y.part = "path" /\ k.query = <<>>)
      BY <1>6, <1>17
    <3> HIDE DEF x, y, k
    <3>2. Links(k, y, x)
      BY <3>1 DEF Links, EndsHeaders, EndsFields
    <3>3. Link(y, x)
      BY <3>1, <3>2 DEF Link, k
    <3> QED BY <3>1, <3>3 DEF x, y
  <2> HIDE DEF s3
  <2>2. Chain(s4) /\ s4[1] = s3[1] /\ Final(s4) = IF fields = <<>> THEN Final(s3) ELSE Final(fields)
    BY <1>17, <2>1, ChainPerhaps
  <2> HIDE DEF s4, k, last
  <2>3. CASE fields = <<>>
    BY <1>7, <1>17, <2>2, <2>3 DEF EndsFields
  <2>4. CASE fields # <<>>
    BY <1>6, <1>17, <2>2, <2>4 DEF EndsFields
  <2> QED BY <2>3, <2>4
<1>19. Chain(s5) /\ s5[1] = begin /\ Final(s5) = end
  <2>1. Link(Final(s4), end)
    <3> DEFINE x == Final(s4)
    <3>1. x.of = m /\ x.header = last /\ EndsFields(k, x) /\ x.token # "complete"
      BY <1>18 DEF EndsFields
    <3> HIDE DEF x
    <3>2. Links(k, x, end)
      BY <1>10, <3>1 DEF Links, EndsHeaders
    <3> QED BY <1>10, <3>1, <3>2 DEF Link, x
  <2>2. Chain(<<end>>) /\ Final(<<end>>) = end /\ <<end>>[1] = end /\ <<end>> # <<>>
    BY <1>1, <1>12
  <2> HIDE DEF s4
  <2> QED BY <1>18, <2>1, <2>2, ChainPerhaps, ZenonT(40)
<1>20. EndsHeaders(end) /\ end.token # "complete"
  BY <1>10 DEF EndsHeaders
<1>21. /\ Chain(s6) /\ s6[1] = begin
       /\ Final(s6).of = m /\ Final(s6).token # "complete"
       /\ IF k.body = <<>> THEN EndsHeaders(Final(s6))
          ELSE Final(s6).token = "body" /\ Final(s6).nth = Len(k.body)
  <2>1. body # <<>> => Chain(body) /\ Link(Final(s5), body[1])
    <3> SUFFICES ASSUME body # <<>> PROVE Chain(body) /\ Link(Final(s5), body[1])
      OBVIOUS
    <3> DEFINE x == body[1]
    <3>1. x.token = "body" /\ x.of = m /\ x.nth = 1 /\ Chain(body)
      BY <1>8
    <3> HIDE DEF x, k
    <3>2. ~EndsHeaders(x)
      BY <3>1 DEF EndsHeaders
    <3>3. Links(k, end, x)
      BY <1>20, <3>1, <3>2 DEF Links
    <3> QED BY <1>10, <1>19, <1>20, <3>1, <3>3 DEF Link, k, x
  <2> HIDE DEF s5
  <2>2. Chain(s6) /\ s6[1] = s5[1] /\ Final(s6) = IF body = <<>> THEN Final(s5) ELSE Final(body)
    BY <1>19, <2>1, ChainPerhaps
  <2> HIDE DEF s6
  <2>3. CASE body = <<>>
    BY <1>9, <1>10, <1>19, <1>20, <2>2, <2>3
  <2>4. CASE body # <<>>
    BY <1>8, <1>19, <2>2, <2>4
  <2> QED BY <2>3, <2>4
<1>22. Chain(s7) /\ s7[1] = begin /\ Final(s7) = complete
  <2>1. Link(Final(s6), complete)
    <3> DEFINE x == Final(s6)
    <3>1. /\ x.of = m /\ x.token # "complete"
          /\ IF k.body = <<>> THEN EndsHeaders(x) ELSE x.token = "body" /\ x.nth = Len(k.body)
      BY <1>21
    <3> HIDE DEF x
    <3>2. Links(k, x, complete)
      BY <1>10, <3>1 DEF Links, EndsHeaders
    <3> QED BY <1>10, <3>1, <3>2 DEF Link, x
  <2>2. Chain(<<complete>>) /\ Final(<<complete>>) = complete /\ <<complete>>[1] = complete
        /\ <<complete>> # <<>>
    BY <1>1, <1>12
  <2> HIDE DEF s6
  <2>3. Chain(s6 \o <<complete>>) /\ (s6 \o <<complete>>)[1] = s6[1]
        /\ Final(s6 \o <<complete>>) = Final(<<complete>>)
    BY <1>21, <2>1, <2>2, ChainConcat
  <2> QED BY <1>21, <2>2, <2>3
<1> HIDE DEF s7
<1> QED BY <1>10, <1>13, <1>22

-----------------------------------------------------------------------------
(* The stream is one chain of messages, from the first to the last.        *)
LEMMA StreamCorrect ==
  ASSUME Init
  PROVE  stream \in Seq(Sent) /\ Stream /\ Linked
<1> DEFINE seqs == [m \in 1..N |-> Symbols(messages[m], m)]
<1>1. N \in Nat \ {0} /\ messages \in [1..N -> MessageKinds] /\ stream = FlattenSeq(seqs)
  BY ParsingAssumption DEF Init, ParsingAssumption
<1>2. \A m \in 1..N : /\ Chain(seqs[m]) /\ seqs[m][1].token = "begin" /\ seqs[m][1].of = m
                      /\ Final(seqs[m]).token = "complete" /\ Final(seqs[m]).of = m
  BY <1>1, MessageChain, ParsingAssumption
<1>3. seqs \in Seq(Seq(Sent)) /\ Len(seqs) = N /\ seqs # <<>>
  <2>1. \A m \in 1..N : seqs[m] \in Seq(Sent)
    BY <1>2 DEF Chain
  <2>2. seqs = [m \in 1..N |-> seqs[m]]
    OBVIOUS
  <2> HIDE DEF seqs
  <2> QED BY <1>1, <2>1, <2>2
<1> HIDE DEF seqs
<1>4. PICK f \in [1..N -> Seq(Sent)] :
        /\ stream = f[N]
        /\ \A i \in 1..N : f[i] = IF i = 1 THEN seqs[i] ELSE f[i - 1] \o seqs[i]
  <2> DEFINE n == Len(seqs)
  <2>1. \E f \in [1..n -> Seq(Sent)] :
          /\ FlattenSeq(seqs) = f[n]
          /\ \A i \in 1..n : f[i] = IF i = 1 THEN seqs[i] ELSE f[i - 1] \o seqs[i]
    BY <1>3, FlattenSteps
  <2>2. n = N
    BY <1>3
  <2> HIDE DEF n
  <2> QED BY <1>1, <2>1, <2>2
<1> DEFINE Whole(i) == /\ Chain(f[i]) /\ f[i][1].token = "begin" /\ f[i][1].of = 1
                       /\ Final(f[i]).token = "complete" /\ Final(f[i]).of = i
           P == {i \in 1..N : Whole(i)}
<1>5. \A i : i \in P <=> i \in 1..N /\ Whole(i)
  OBVIOUS
<1> HIDE DEF P
<1>6. 1 \in P
  <2>1. 1 \in 1..N
    BY <1>1
  <2>2. f[1] = seqs[1]
    BY <1>4, <2>1
  <2> QED BY <1>2, <1>5, <2>1, <2>2
<1>7. ASSUME NEW i \in 1..N, i + 1 \in 1..N, i \in P
      PROVE  i + 1 \in P
  <2>1. i + 1 # 1 /\ (i + 1) - 1 = i
    OBVIOUS
  <2>2. f[i + 1] = f[i] \o seqs[i + 1]
    BY <1>4, <1>7, <2>1
  <2>3. Whole(i)
    BY <1>5, <1>7
  <2>4. /\ Chain(seqs[i + 1]) /\ seqs[i + 1][1].token = "begin" /\ seqs[i + 1][1].of = i + 1
        /\ Final(seqs[i + 1]).token = "complete" /\ Final(seqs[i + 1]).of = i + 1
    BY <1>2, <1>7
  <2>5. Link(Final(f[i]), seqs[i + 1][1])
    BY <2>3, <2>4 DEF Link
  <2>6. Chain(f[i + 1]) /\ f[i + 1][1] = f[i][1] /\ Final(f[i + 1]) = Final(seqs[i + 1])
    <3>1. Chain(f[i]) /\ Chain(seqs[i + 1])
      BY <2>3, <2>4
    <3> DEFINE t == seqs[i + 1]
               u == f[i]
    <3>2. Chain(u) /\ Chain(t) /\ Link(Final(u), t[1]) /\ f[i + 1] = u \o t
      BY <2>2, <2>5, <3>1
    <3> HIDE DEF t, u
    <3>3. Chain(u \o t) /\ (u \o t)[1] = u[1] /\ Final(u \o t) = Final(t)
      BY <3>2, ChainConcat
    <3> QED BY <3>2, <3>3 DEF t, u
  <2>7. Whole(i + 1)
    BY <2>3, <2>4, <2>6
  <2> HIDE DEF Whole
  <2> QED BY <1>5, <1>7, <2>7
<1>8. N \in P
  <2>1. 1..N \subseteq P
    BY <1>1, <1>6, <1>7, UpTo
  <2> QED BY <1>1, <2>1
<1>9. Whole(N)
  BY <1>5, <1>8
<1>10. stream \in Seq(Sent) /\ Linked /\ stream[1].token = "begin" /\ stream[1].of = 1
       /\ stream[Len(stream)].token = "complete"
  BY <1>4, <1>9 DEF Chain, Linked, Final
<1>11. ASSUME NEW i \in 1..Len(stream) - 1
       PROVE  Follows(stream[i], stream[i + 1])
  <2>1. i \in 1..Len(stream) /\ i + 1 \in 1..Len(stream)
    BY <1>10
  <2>2. stream[i] \in Sent /\ stream[i + 1] \in Sent
    BY <1>10, <2>1
  <2>3. Link(stream[i], stream[i + 1])
    BY <1>10 DEF Linked
  <2> QED BY <2>2, <2>3, LinkFollows
<1> QED BY <1>10, <1>11 DEF Stream

-----------------------------------------------------------------------------
(* Pieces. *)

(* Between two places of the stream with no start of a message behind the  *)
(* first, it is the same message.                                          *)
LEMMA SameMessage ==
  ASSUME stream \in Seq(Sent), Stream, NEW a \in 1..Len(stream), NEW b \in a..Len(stream),
         \A i \in a + 1..b : stream[i].token # "begin"
  PROVE  stream[b].of = stream[a].of
<1> DEFINE T == {i \in a..b : stream[i].of # stream[a].of}
<1> SUFFICES ASSUME T # {} PROVE FALSE
  OBVIOUS
<1>0. Len(stream) \in Nat
  OBVIOUS
<1>1. T \subseteq Nat
  BY <1>0
<1>2. \A i : i \in T <=> i \in a..b /\ stream[i].of # stream[a].of
  OBVIOUS
<1> HIDE DEF T
<1>3. PICK k \in T : \A j \in T : k <= j
  BY <1>1, Least
<1>4. k \in a..b /\ stream[k].of # stream[a].of
  BY <1>2
<1>5. k # a
  BY <1>4
<1>6. /\ k - 1 \in a..b /\ k - 1 < k /\ k \in a + 1..b
      /\ k - 1 \in 1..Len(stream) - 1 /\ (k - 1) + 1 = k
  BY <1>0, <1>4, <1>5
<1>7. stream[k - 1].of = stream[a].of
  BY <1>2, <1>3, <1>6
<1>8. Follows(stream[k - 1], stream[k])
  BY <1>6 DEF Stream
<1>9. stream[k].of = stream[k - 1].of
  BY <1>6, <1>8 DEF Follows
<1> QED BY <1>4, <1>7, <1>9

(* What http_parser calls back with ends in the read(), behind at least one *)
(* symbol, and is all of one token.                                        *)
LEMMA PieceEnds ==
  ASSUME TypeOK, stream \in Seq(Sent), pos < limit
  PROVE  /\ PieceEnd \in pos + 1..limit
         /\ \A i \in pos + 1..PieceEnd : stream[i].token = stream[pos + 1].token
         /\ PieceEnd = limit \/ stream[PieceEnd + 1].token # stream[pos + 1].token
<1>0. pos \in Nat /\ limit \in Nat
  <2>1. pos \in 0..limit /\ limit \in 0..Len(stream)
    BY Zenon DEF TypeOK
  <2>2. Len(stream) \in Nat
    OBVIOUS
  <2> QED BY <2>1, <2>2
<1> DEFINE token == stream[pos + 1].token
           End(e) == /\ \A i \in pos + 1..e : stream[i].token = token
                     /\ e = limit \/ stream[e + 1].token # token
           T == {e \in pos..limit : e = limit \/ stream[e + 1].token # token}
<1>1. \A e : e \in T <=> e \in pos..limit /\ (e = limit \/ stream[e + 1].token # token)
  OBVIOUS
<1>2. T \subseteq Nat /\ limit \in T
  BY <1>0
<1> HIDE DEF T
<1>3. PICK e \in T : \A y \in T : e <= y
  BY <1>2, Least
<1>4. e \in pos..limit /\ (e = limit \/ stream[e + 1].token # token)
  BY <1>1
<1>5. ASSUME NEW i \in pos + 1..e
      PROVE  stream[i].token = token
  <2>1. i - 1 \in pos..limit /\ ~(e <= i - 1) /\ (i - 1) + 1 = i /\ i - 1 # limit
    BY <1>0, <1>4
  <2>2. i - 1 \notin T
    BY <1>3, <2>1
  <2> QED BY <1>1, <2>1, <2>2
<1>6. \E x \in pos..limit : End(x)
  BY <1>4, <1>5
<1>7. PieceEnd = CHOOSE x \in pos..limit : End(x)
  BY DEF PieceEnd
<1> HIDE DEF End
<1>8. PieceEnd \in pos..limit /\ End(PieceEnd)
  BY <1>6, <1>7
<1>9. PieceEnd # pos
  BY <1>0, <1>8 DEF End
<1> QED BY <1>0, <1>8, <1>9 DEF End

(* A callback that goes on leaves the token at hand, and no message is     *)
(* begun on the way but with its own symbol.                               *)
LEMMA GoesOn ==
  ASSUME TypeOK, stream \in Seq(Sent), pos < limit, GoOn
  PROVE  /\ pos' \in pos + 1..limit
         /\ mode' = IF pos' = limit THEN "parsed" ELSE "parsing"
         /\ dead' = dead
         /\ \A i \in pos + 1..pos' : stream[i].token \in {stream[pos + 1].token, "stop"}
<1>0. pos \in Nat /\ limit \in Nat
  <2>1. pos \in 0..limit /\ limit \in 0..Len(stream)
    BY Zenon DEF TypeOK
  <2>2. Len(stream) \in Nat
    OBVIOUS
  <2> QED BY <2>1, <2>2
<1>1. /\ PieceEnd \in pos + 1..limit
      /\ \A i \in pos + 1..PieceEnd : stream[i].token = stream[pos + 1].token
  BY PieceEnds
<1>2. /\ pos' = IF PieceEnd < limit /\ stream[PieceEnd + 1].token = "stop"
                THEN PieceEnd + 1 ELSE PieceEnd
      /\ mode' = IF pos' = limit THEN "parsed" ELSE "parsing"
      /\ dead' = dead
  BY DEF GoOn
<1> DEFINE e == PieceEnd
<1>3. /\ e \in pos + 1..limit
      /\ \A i \in pos + 1..e : stream[i].token = stream[pos + 1].token
      /\ \/ pos' = e
         \/ e < limit /\ pos' = e + 1 /\ stream[e + 1].token = "stop"
  BY <1>1, <1>2
<1> HIDE DEF e
<1>4. pos' \in pos + 1..limit
  BY <1>0, <1>3
<1>5. ASSUME NEW i \in pos + 1..pos'
      PROVE  stream[i].token \in {stream[pos + 1].token, "stop"}
  <2>1. i \in pos + 1..e \/ (i = e + 1 /\ stream[e + 1].token = "stop")
    BY <1>0, <1>3
  <2> QED BY <1>3, <2>1
<1> QED BY <1>2, <1>4, <1>5

(* The parts of a header's name are those of the name that was sent, and   *)
(* EXPECT is among them only if it is in a header of the message.          *)
LEMMA NamePiece ==
  ASSUME TypeOK, stream \in Seq(Sent), Stream, Due("name"), ParsingAssumption
  PROVE  /\ Piece("name") \in Seq(Parts)
         /\ Contains(Piece("name"), "EXPECT") => Expects(messages[stream[pos + 1].of])
<1>0. pos \in Nat /\ limit \in Nat /\ Len(stream) \in Nat /\ pos < limit /\ limit <= Len(stream)
  <2>1. pos \in 0..limit /\ limit \in 0..Len(stream)
    BY Zenon DEF TypeOK
  <2>2. Len(stream) \in Nat /\ pos < limit
    BY DEF Due
  <2> QED BY <2>1, <2>2
<1>1. CASE stream[pos + 1].token = "stop"
  <2>1. Piece("name") = <<>>
    BY <1>1 DEF Piece
  <2>2. <<>> \in Seq(Parts)
    OBVIOUS
  <2>3. ~Contains(<<>>, "EXPECT")
    BY DEF Contains
  <2> HIDE DEF Piece
  <2> QED BY <2>1, <2>2, <2>3
<1>2. CASE stream[pos + 1].token # "stop"
  <2> DEFINE e == PieceEnd
             sub == SubSeq(stream, pos + 1, e)
             m == stream[pos + 1].of
  <2>1. stream[pos + 1].token = "name"
    BY <1>2 DEF Due
  <2>2. /\ e \in pos + 1..limit
        /\ \A i \in pos + 1..e : stream[i].token = "name"
    BY <1>0, <2>1, PieceEnds
  <2>3. Piece("name") = Mapped(sub, LAMBDA s : s.part)
    BY <1>2 DEF Piece
  <2> HIDE DEF e
  <2>4. \A i \in pos + 1..e : i \in 1..Len(stream) /\ stream[i] \in Sent
    BY <1>0, <2>2
  <2>5. ASSUME NEW i \in pos + 1..e
        PROVE  /\ stream[i].of = m
               /\ \E j \in DOMAIN messages[m].headers :
                    Contains(messages[m].headers[j].name, stream[i].part)
    <3>1. pos + 1 \in 1..Len(stream) /\ i \in pos + 1..Len(stream)
      BY <1>0, <2>2
    <3>2. \A x \in (pos + 1) + 1..i : stream[x].token # "begin"
      BY <1>0, <2>2
    <3>3. stream[i].of = m
      BY <3>1, <3>2, SameMessage
    <3>4. stream[i] \in Sent /\ stream[i].token = "name"
      BY <2>2, <2>4
    <3> DEFINE x == stream[i]
               h == x.header
               name == messages[m].headers[h].name
    <3>5. /\ m \in 1..N /\ h \in Nat /\ h <= Len(messages[m].headers) /\ h > 0
          /\ x.nth \in 1..Len(name) /\ x.part = name[x.nth]
      BY <3>3, <3>4 DEF Sent, Meant, Place, TextOf
    <3>6. h \in DOMAIN messages[m].headers
      <4>1. messages \in [1..N -> MessageKinds]
        BY Zenon DEF TypeOK
      <4>2. m \in 1..N
        BY <3>5
      <4> HIDE DEF m
      <4>3. messages[m].headers \in Seq([name : Text \ {<<>>}, value : Text \ {<<>>}])
        BY <4>1, <4>2, Kind
      <4> QED BY <3>5, <4>3
    <3>7. Contains(name, x.part)
      BY <3>5 DEF Contains
    <3> QED BY <3>3, <3>6, <3>7
  <2>6. m \in 1..N
    <3>1. stream[pos + 1] \in Sent
      BY <1>0, <2>2, <2>4
    <3> QED BY <3>1 DEF Sent
  <2>7. ASSUME NEW i \in pos + 1..e
        PROVE  stream[i].part \in Parts
    <3>1. PICK j \in DOMAIN messages[m].headers :
            Contains(messages[m].headers[j].name, stream[i].part)
      BY <2>5
    <3>2. messages[m] \in MessageKinds
      <4>1. messages \in [1..N -> MessageKinds]
        BY Zenon DEF TypeOK
      <4> QED BY <2>6, <4>1
    <3> DEFINE hs == messages[m].headers
               H == [name : Text \ {<<>>}, value : Text \ {<<>>}]
    <3>3. hs \in Seq(H)
      BY <3>2 DEF ParsingAssumption
    <3>4. j \in DOMAIN hs /\ Contains(hs[j].name, stream[i].part)
      BY <3>1
    <3> HIDE DEF hs, H
    <3>5. hs[j] \in H
      BY <3>3, <3>4
    <3>6. hs[j].name \in Seq(Parts)
      BY <3>5 DEF H, Text
    <3> QED BY <3>4, <3>6 DEF Contains
  <2>8. /\ Piece("name") = [x \in 1..e - pos |-> stream[pos + x].part]
        /\ \A x \in 1..e - pos : pos + x \in pos + 1..e
    <3>1. sub = [x \in 1..e - pos |-> stream[pos + x]]
      BY <1>0, <2>2 DEF sub
    <3> HIDE DEF sub
    <3>2. Piece("name") = [x \in 1..e - pos |-> stream[pos + x].part]
      BY <2>3, <3>1 DEF Mapped
    <3> QED BY <1>0, <2>2, <3>2
  <2>9. e - pos \in Nat
    BY <1>0, <2>2
  <2> DEFINE piece == Piece("name")
  <2>10. /\ piece \in Seq(Parts)
         /\ \A x \in 1..Len(piece) : \E j \in DOMAIN messages[m].headers :
              Contains(messages[m].headers[j].name, piece[x])
    <3> DEFINE n == e - pos
               part(x) == stream[pos + x].part
    <3>1. \A x \in 1..n : part(x) \in Parts
      BY <2>7, <2>8
    <3>2. \A x \in 1..n : \E j \in DOMAIN messages[m].headers :
            Contains(messages[m].headers[j].name, part(x))
      BY <2>5, <2>8
    <3>3. piece = [x \in 1..n |-> part(x)] /\ n \in Nat
      BY <2>8, <2>9
    <3> HIDE DEF piece, n, part
    <3>4. piece \in Seq(Parts) /\ Len(piece) = n /\ \A x \in 1..n : piece[x] = part(x)
      BY <3>1, <3>3
    <3> QED BY <3>2, <3>4
  <2> HIDE DEF piece, m
  <2>11. Contains(piece, "EXPECT") => Expects(messages[m])
    BY <2>10 DEF Contains, Expects
  <2> QED BY <2>10, <2>11 DEF piece, m
<1> QED BY <1>1, <1>2

-----------------------------------------------------------------------------
(* The type invariant, in parts. *)

ReadOK ==
  /\ from \in 0..limit /\ pos \in 0..limit /\ limit \in 0..Len(stream)
  /\ mode \in {"reading", "parsing", "parsed", "refused", "crashed"}
  /\ mode = "parsing" => pos < limit /\ dead = FALSE

DictOK ==
  headers \in {"NULL", "dict", "list"} /\ (headers # "dict" => environ = <<>>)

FlagsOK ==
  /\ dead \in BOOLEAN /\ overran \in BOOLEAN /\ cut \in BOOLEAN
  /\ last_call_was_header_value \in BOOLEAN /\ invalid_header \in BOOLEAN
  /\ expect_continue \in BOOLEAN /\ parse_finished \in BOOLEAN
  /\ keep_alive \in BOOLEAN

CodesOK ==
  error_code \in {0, HTTP_BAD_REQUEST, HTTP_LENGTH_REQUIRED, HTTP_EXPECTATION_FAILED}

FieldOK ==
  /\ field \in Seq(Parts \cup {"HTTP_", "_"})
  /\ last_call_was_header_value = FALSE => field # <<>> /\ field[1] = "HTTP_"

LEMMA Typed ==
  TypeOK <=> /\ messages \in [1..N -> MessageKinds]
             /\ ReadOK /\ DictOK /\ FlagsOK /\ CodesOK /\ FieldOK
<1>1. dead \in BOOLEAN => (~dead <=> dead = FALSE)
  OBVIOUS
<1>2. last_call_was_header_value \in BOOLEAN =>
        (~last_call_was_header_value <=> last_call_was_header_value = FALSE)
  OBVIOUS
<1> QED BY <1>1, <1>2, Zenon DEF TypeOK, ReadOK, DictOK, FlagsOK, CodesOK, FieldOK

LEMMA InitTyped == Init => TypeOK
<1> SUFFICES ASSUME Init PROVE TypeOK
  OBVIOUS
<1>1. Len(stream) \in Nat
  BY StreamCorrect
<1>2. ReadOK /\ DictOK /\ CodesOK /\ messages \in [1..N -> MessageKinds]
  BY <1>1 DEF Init, ReadOK, DictOK, CodesOK
<1>3. FlagsOK
  BY Zenon DEF Init, FlagsOK
<1>4. FieldOK
  BY DEF Init, FieldOK
<1> QED BY <1>2, <1>3, <1>4, Typed

LEMMA TypedStep ==
  ASSUME TypeOK, stream \in Seq(Sent), Stream, [ev_io_on_read]_vars
  PROVE  TypeOK'
<1> USE DEF clientVars, readVars, parserVars, dictVars, fieldVars, flagVars
<1>0. /\ messages \in [1..N -> MessageKinds]
      /\ ReadOK /\ DictOK /\ FlagsOK /\ CodesOK /\ FieldOK
  BY Typed
<1>1. UNCHANGED <<messages, stream>>
  BY DEF vars, ev_io_on_read, ReadData, Callback, on_message_begin, on_path,
         on_query_string, on_header_field, on_header_value, on_body,
         on_message_complete, HeadersEnd, Garbage, LosesDict, Crash, Refuse,
         Continue100, WaitForMore, CallApplication, CallWithList, CallLosesDict
<1>2. ReadOK'
  <2> DEFINE Goes == GoOn /\ mode = "parsing" /\ UNCHANGED <<from, limit>>
             Stops == mode' = "parsed" /\ pos' = limit /\ UNCHANGED <<from, limit>>
             Stays == /\ mode' \in {"reading", "refused", "crashed"}
                      /\ UNCHANGED <<from, limit, pos>>
             Reads == \E to \in pos + 1..Len(stream) : ReadData(to)
  <2>1. Goes \/ Stops \/ Stays \/ Reads \/ UNCHANGED vars
    <3>1. CASE Callback
      BY <3>1 DEF Callback, on_message_begin, on_path, on_query_string,
                  on_header_field, on_header_value, on_body, on_message_complete,
                  Due, Stop
    <3>2. CASE HeadersEnd \/ Garbage \/ LosesDict
      BY <3>2 DEF HeadersEnd, Garbage, LosesDict, Crash, Stop
    <3>3. CASE Refuse \/ Continue100 \/ WaitForMore
      BY <3>3 DEF Refuse, Continue100, WaitForMore, Resume, Reset
    <3>4. CASE CallApplication \/ CallWithList \/ CallLosesDict
      BY <3>4 DEF CallApplication, CallWithList, CallLosesDict, Crash, Resume, Reset
    <3> QED BY <3>1, <3>2, <3>3, <3>4 DEF ev_io_on_read
  <2>2. pos \in Nat /\ limit \in Nat /\ from \in Nat /\ Len(stream) \in Nat
    BY <1>0 DEF ReadOK
  <2>3. CASE Goes
    <3>1. /\ pos' \in pos + 1..limit /\ dead' = dead
          /\ mode' = IF pos' = limit THEN "parsed" ELSE "parsing"
      BY <1>0, <2>3, GoesOn DEF ReadOK
    <3> QED BY <1>0, <1>1, <2>2, <2>3, <3>1 DEF ReadOK
  <2>4. CASE Stops
    BY <1>0, <1>1, <2>2, <2>4 DEF ReadOK
  <2>5. CASE Stays
    BY <1>0, <1>1, <2>2, <2>5 DEF ReadOK
  <2>6. CASE Reads
    <3>1. PICK to \in pos + 1..Len(stream) : ReadData(to)
      BY <2>6
    <3>2. /\ from' = pos /\ limit' = to /\ UNCHANGED <<pos, dead>>
          /\ mode' = IF dead THEN "parsed" ELSE "parsing"
      BY <3>1 DEF ReadData
    <3>3. mode' \in {"parsed", "parsing"} /\ (mode' = "parsing" => dead' = FALSE)
      <4>1. dead \in BOOLEAN
        BY <1>0 DEF FlagsOK
      <4> QED BY <3>2, <4>1
    <3>4. from' \in 0..limit' /\ pos' \in 0..limit' /\ limit' \in 0..Len(stream') /\ pos' < limit'
      BY <1>1, <2>2, <3>1, <3>2
    <3> QED BY <3>3, <3>4 DEF ReadOK
  <2>7. CASE UNCHANGED vars
    BY <1>0, <2>7 DEF ReadOK, vars
  <2> QED BY <2>1, <2>3, <2>4, <2>5, <2>6, <2>7
<1>3. DictOK'
  <2>1. CASE Callback
    BY <1>0, <2>1 DEF DictOK, Callback, on_message_begin, on_path, on_query_string,
                      on_header_field, on_header_value, on_body, on_message_complete,
                      Set_or_append_header
  <2>2. CASE ~Callback
    BY <1>0, <2>2
       DEF DictOK, vars, ev_io_on_read, ReadData, HeadersEnd, Garbage, LosesDict, Crash,
           Refuse, Continue100, WaitForMore, CallApplication, CallWithList,
           CallLosesDict, Reset
  <2> QED BY <2>1, <2>2
<1>4. CodesOK'
  <2>1. CASE Callback
    BY <1>0, <2>1 DEF CodesOK, Callback, on_message_begin, on_path, on_query_string,
                      on_header_field, on_header_value, on_body, on_message_complete,
                      Stop, Expect
  <2>2. CASE ~Callback
    BY <1>0, <2>2
       DEF CodesOK, vars, ev_io_on_read, ReadData, HeadersEnd, Garbage, LosesDict, Crash,
           Refuse, Continue100, WaitForMore, CallApplication, CallWithList,
           CallLosesDict, Reset, Resume, Stop
  <2> QED BY <2>1, <2>2
<1>5. FlagsOK'
  <2>1. CASE Callback
    BY <1>0, <2>1, ZenonT(40)
       DEF FlagsOK, Callback, on_message_begin, on_path, on_query_string,
           on_header_field, on_header_value, on_body, on_message_complete,
           Stop, Expect, GoOn, Complete
  <2>2. CASE ~Callback
    BY <1>0, <2>2, ZenonT(40)
       DEF FlagsOK, vars, ev_io_on_read, ReadData, HeadersEnd, Garbage, LosesDict, Crash,
           Refuse, Continue100, WaitForMore, CallApplication, CallWithList,
           CallLosesDict, Reset, Resume, Stop, GoOn
  <2> QED BY <2>1, <2>2
<1>6. FieldOK'
  <2>1. CASE on_header_field
    <3> DEFINE piece == Piece("name")
               name == IF last_call_was_header_value THEN <<"HTTP_">> ELSE field
               S == Parts \cup {"HTTP_", "_"}
    <3>1. /\ field' = IF invalid_header' THEN name ELSE name \o Mapped(piece, Dashes)
          /\ last_call_was_header_value' = FALSE
      BY <2>1 DEF on_header_field
    <3>2. piece \in Seq(Parts)
      BY <2>1, NamePiece, ParsingAssumption DEF on_header_field
    <3>3. Mapped(piece, Dashes) = [i \in 1..Len(piece) |-> IF piece[i] = "-" THEN "_" ELSE piece[i]]
      BY <3>2 DEF Mapped, Dashes
    <3> HIDE DEF piece
    <3>4. Mapped(piece, Dashes) \in Seq(S)
      <4> DEFINE n == Len(piece)
                 part(i) == IF piece[i] = "-" THEN "_" ELSE piece[i]
      <4>1. n \in Nat /\ \A i \in 1..n : part(i) \in S
        <5>1. n \in Nat /\ \A i \in 1..n : piece[i] \in Parts
          BY <3>2
        <5>2. \A i \in 1..n : part(i) = "_" \/ part(i) = piece[i]
          OBVIOUS
        <5> HIDE DEF n, part
        <5> QED BY <5>1, <5>2
      <4>2. Mapped(piece, Dashes) = [i \in 1..n |-> part(i)]
        BY <3>3
      <4> HIDE DEF part, n, S
      <4> QED BY <4>1, <4>2
    <3>5. name \in Seq(S) /\ name # <<>> /\ name[1] = "HTTP_"
      <4>1. CASE last_call_was_header_value
        <5>1. name = <<"HTTP_">>
          BY <4>1
        <5> HIDE DEF name
        <5> QED BY <5>1
      <4>2. CASE ~last_call_was_header_value
        <5>1. name = field
          BY <4>2
        <5>2. last_call_was_header_value = FALSE
          <6>1. last_call_was_header_value \in BOOLEAN
            BY <1>0, Zenon DEF FlagsOK
          <6> QED BY <4>2, <6>1, Zenon
        <5> HIDE DEF name
        <5> QED BY <1>0, <5>1, <5>2 DEF FieldOK
      <4> QED BY <4>1, <4>2
    <3> DEFINE dashed == Mapped(piece, Dashes)
    <3> HIDE DEF name, dashed, S
    <3>6. name \o dashed \in Seq(S) /\ name \o dashed # <<>> /\ (name \o dashed)[1] = "HTTP_"
      BY <3>4, <3>5 DEF dashed
    <3>7. field' = name \/ field' = name \o dashed
      BY <3>1 DEF dashed
    <3>8. field' \in Seq(S) /\ field' # <<>> /\ field'[1] = "HTTP_"
      BY <3>5, <3>6, <3>7
    <3> QED BY <3>8 DEF FieldOK, S
  <2>2. CASE Callback /\ ~on_header_field
    <3>1. field' = field /\ (\/ last_call_was_header_value' = last_call_was_header_value
                             \/ last_call_was_header_value' = TRUE)
      BY <2>2 DEF Callback, on_message_begin, on_path, on_query_string,
                  on_header_value, on_body, on_message_complete
    <3> QED BY <1>0, <3>1 DEF FieldOK
  <2>3. CASE ~Callback
    <3>1. \/ UNCHANGED <<field, last_call_was_header_value>>
          \/ field' = <<>> /\ last_call_was_header_value' = TRUE
      BY <2>3 DEF vars, ev_io_on_read, ReadData, HeadersEnd, Garbage, LosesDict, Crash,
           Refuse, Continue100, WaitForMore, CallApplication, CallWithList,
           CallLosesDict, Reset, Resume
    <3>2. CASE UNCHANGED <<field, last_call_was_header_value>>
      BY <1>0, <3>2 DEF FieldOK
    <3>3. CASE field' = <<>> /\ last_call_was_header_value' = TRUE
      <4>1. field' \in Seq(Parts \cup {"HTTP_", "_"}) /\ last_call_was_header_value' # FALSE
        BY <3>3
      <4> QED BY <4>1, Zenon DEF FieldOK
    <3> QED BY <3>1, <3>2, <3>3
  <2> QED BY <2>1, <2>2, <2>3
<1> HIDE DEF clientVars, readVars, parserVars, dictVars, fieldVars, flagVars
<1>7. messages' \in [1..N -> MessageKinds]
  BY <1>0, <1>1
<1>8. /\ dead' \in BOOLEAN => (~dead' <=> dead' = FALSE)
      /\ last_call_was_header_value' \in BOOLEAN =>
           (~last_call_was_header_value' <=> last_call_was_header_value' = FALSE)
  OBVIOUS
<1> QED BY <1>2, <1>3, <1>4, <1>5, <1>6, <1>7, <1>8, Zenon
        DEF TypeOK, ReadOK, DictOK, FlagsOK, CodesOK, FieldOK

-----------------------------------------------------------------------------
(* The order of the callbacks. *)

LEMMA Places ==
  ASSUME TypeOK, stream \in Seq(Sent)
  PROVE  /\ pos \in Nat /\ limit \in Nat /\ Len(stream) \in Nat
         /\ pos <= limit /\ limit <= Len(stream)
         /\ mode = "parsing" => pos < limit /\ ~dead
<1>1. /\ pos \in 0..limit /\ limit \in 0..Len(stream)
      /\ mode = "parsing" => pos < limit /\ ~dead
  BY Zenon DEF TypeOK
<1>2. Len(stream) \in Nat
  OBVIOUS
<1> QED BY <1>1, <1>2

LEMMA DueToken ==
  ASSUME TypeOK, stream \in Seq(Sent), NEW token, Due(token)
  PROVE  \/ stream[pos + 1].token = token
         \/ stream[pos + 1].token = "stop" /\ token \in Stopped
<1>1. pos + 1 \in 1..Len(stream)
  BY Places DEF Due
<1>2. stream[pos + 1] \in Sent
  BY <1>1
<1> QED BY <1>2 DEF Due, Sent, Meant

(* What a callback finds: the start of a message behind the end of the one *)
(* before, and anything else within a message that has been begun.         *)
LEMMA Before ==
  ASSUME TypeOK, stream \in Seq(Sent), Stream, Turn, ~overran, mode = "parsing"
  PROVE  /\ ~dead /\ ~parse_finished /\ pos + 1 \in 1..Len(stream)
         /\ Len(calls) = stream[pos + 1].of - 1
         /\ IF stream[pos + 1].token = "begin"
            THEN ~Underway /\ field = <<>> /\ ~expect_continue
            ELSE /\ Underway /\ headers = "dict" /\ stream[pos].of = stream[pos + 1].of
                 /\ Follows(stream[pos], stream[pos + 1])
<1>1. /\ pos \in Nat /\ limit \in Nat /\ Len(stream) \in Nat /\ pos < limit
      /\ limit <= Len(stream) /\ ~dead
  BY Places
<1>2. ~parse_finished
  BY DEF Turn
<1>3. /\ IF Underway
         THEN headers = "dict" /\ Len(calls) = stream[pos].of - 1
         ELSE field = <<>> /\ Len(calls) = IF pos = 0 THEN 0 ELSE stream[pos].of
      /\ expect_continue => Underway
  BY <1>1, <1>2 DEF Turn
<1>4. CASE pos = 0
  BY <1>1, <1>2, <1>3, <1>4 DEF Stream, Underway
<1>5. CASE pos # 0
  <2>1. pos \in 1..Len(stream) - 1
    BY <1>1, <1>5
  <2>2. Follows(stream[pos], stream[pos + 1])
    BY <2>1 DEF Stream
  <2>3. stream[pos] \in Sent /\ stream[pos + 1] \in Sent
    BY <2>1
  <2>4. stream[pos].of \in Int /\ stream[pos + 1].of \in Int
    BY <2>3, ParsingAssumption DEF Sent, ParsingAssumption
  <2>5. CASE Underway
    <3>1. stream[pos + 1].token # "begin" /\ stream[pos + 1].of = stream[pos].of
      BY <2>2, <2>5 DEF Follows, Underway
    <3> QED BY <1>1, <1>2, <1>3, <2>1, <2>2, <2>5, <3>1
  <2>6. CASE ~Underway
    <3>1. stream[pos].token = "complete"
      BY <1>1, <1>5, <2>6 DEF Underway
    <3>2. stream[pos + 1].token = "begin" /\ stream[pos + 1].of = stream[pos].of + 1
      BY <2>2, <3>1 DEF Follows
    <3> QED BY <1>1, <1>2, <1>3, <1>5, <2>1, <2>4, <2>6, <3>2
  <2> QED BY <2>5, <2>6
<1> QED BY <1>4, <1>5

(* A callback other than the last of a message stays in it.                *)
LEMMA StaysInMessage ==
  ASSUME TypeOK, stream \in Seq(Sent), Stream, pos < limit, GoOn,
         stream[pos + 1].token # "complete"
  PROVE  /\ pos' \in pos + 1..limit
         /\ stream[pos'].token \in {stream[pos + 1].token, "stop"}
         /\ stream[pos'].of = stream[pos + 1].of
<1>1. /\ pos \in Nat /\ limit \in Nat /\ Len(stream) \in Nat /\ limit <= Len(stream)
  BY Places
<1>2. /\ pos' \in pos + 1..limit
      /\ \A i \in pos + 1..pos' : stream[i].token \in {stream[pos + 1].token, "stop"}
  BY GoesOn
<1>3. pos' \in pos + 1..pos' /\ pos + 1 \in 1..Len(stream) /\ pos' \in pos + 1..Len(stream)
  BY <1>1, <1>2
<1>4. ASSUME NEW i \in (pos + 1) + 1..pos'
      PROVE  stream[i].token # "begin"
  <2>1. /\ i - 1 \in pos + 1..pos' /\ i - 1 \in 1..Len(stream) - 1 /\ (i - 1) + 1 = i
    BY <1>1, <1>2
  <2>2. Follows(stream[i - 1], stream[i])
    BY <2>1 DEF Stream
  <2>3. stream[i - 1].token # "complete"
    BY <1>2, <2>1
  <2> QED BY <2>2, <2>3 DEF Follows
<1>5. stream[pos'].of = stream[pos + 1].of
  <2> DEFINE a == pos + 1
             b == pos'
  <2>1. a \in 1..Len(stream) /\ b \in a..Len(stream) /\ \A i \in a + 1..b : stream[i].token # "begin"
    BY <1>3, <1>4
  <2> HIDE DEF a, b
  <2>2. stream[b].of = stream[a].of
    BY <2>1, SameMessage
  <2> QED BY <2>2 DEF a, b
<1> QED BY <1>2, <1>3, <1>5

-----------------------------------------------------------------------------
(* Turn is kept, by a callback in the middle of a message, ... *)
LEMMA KeptWithin ==
  ASSUME TypeOK, stream \in Seq(Sent), Stream, Turn, ~overran, mode = "parsing", GoOn,
         stream[pos + 1].token \notin {"begin", "complete"},
         UNCHANGED <<messages, stream, limit, headers, calls, parse_finished, keep_alive>>,
         Contains(field', "EXPECT") =>
           Contains(field, "EXPECT") \/ Expects(messages[stream[pos + 1].of]),
         expect_continue' =>
           /\ stream[pos + 1].token # "body"
           /\ expect_continue \/ messages[stream[pos + 1].of].body # <<>>
  PROVE  Turn'
<1> DEFINE of == stream[pos + 1].of
<1>1. /\ pos \in Nat /\ limit \in Nat /\ Len(stream) \in Nat /\ pos < limit
      /\ limit <= Len(stream)
  BY Places
<1>2. /\ ~dead /\ ~parse_finished /\ Len(calls) = of - 1 /\ headers = "dict"
      /\ Underway /\ stream[pos].of = of
  BY Before
<1>3. /\ pos' \in pos + 1..limit
      /\ stream[pos'].token \in {stream[pos + 1].token, "stop"}
      /\ stream[pos'].of = of
  BY <1>1, StaysInMessage
<1>4. dead' = dead /\ mode' = IF pos' = limit THEN "parsed" ELSE "parsing"
  BY <1>1, GoesOn
<1>5. /\ ~keep_alive /\ \A i \in pos + 1..limit - 1 : stream[i].token # "complete"
      /\ Contains(field, "EXPECT") => Expects(messages[of])
      /\ expect_continue => messages[of].body # <<>>
  BY <1>2 DEF Turn
<1> HIDE DEF of
<1>6. Underway' /\ stream'[pos'].of = of
  BY <1>1, <1>3 DEF Underway
<1>7. mode' # "crashed" /\ ~keep_alive'
  BY <1>4, <1>5
<1>8. mode' = "parsing" => \A i \in pos' + 1..limit' - 1 : stream'[i].token # "complete"
  <2>1. ASSUME NEW q \in pos + 1..limit
        PROVE  \A i \in q + 1..limit - 1 : stream[i].token # "complete"
    <3>1. \A i \in q + 1..limit - 1 : i \in pos + 1..limit - 1
      BY <1>1
    <3> QED BY <1>5, <3>1
  <2> QED BY <1>3, <2>1
<1>9. ~parse_finished'
  BY <1>2
<1>10. headers' = "dict" /\ Len(calls') = stream'[pos'].of - 1
  BY <1>2, <1>6
<1>11. Contains(field', "EXPECT") => Expects(messages'[stream'[pos'].of])
  <2>1. Contains(field', "EXPECT") => Expects(messages[of])
    BY <1>5 DEF of
  <2>2. messages'[stream'[pos'].of] = messages[of]
    BY <1>6
  <2> QED BY <2>1, <2>2
<1>12. expect_continue' =>
         stream'[pos'].token # "body" /\ messages'[stream'[pos'].of].body # <<>>
  <2>1. expect_continue' => stream[pos + 1].token # "body" /\ messages[of].body # <<>>
    BY <1>5 DEF of
  <2> QED BY <1>3, <1>6, <2>1
<1> QED BY <1>6, <1>7, <1>8, <1>9, <1>10, <1>11, <1>12 DEF Turn

(* ... its start, ... *)
LEMMA KeptAtStart ==
  ASSUME TypeOK, stream \in Seq(Sent), Stream, Turn, ~overran, mode = "parsing",
         on_message_begin
  PROVE  Turn'
<1> USE DEF clientVars, readVars, fieldVars, flagVars
<1>1. /\ pos \in Nat /\ limit \in Nat /\ Len(stream) \in Nat /\ pos < limit
      /\ limit <= Len(stream)
  BY Places
<1>2. /\ headers' = "dict" /\ GoOn /\ Due("begin")
      /\ UNCHANGED <<messages, stream, limit, field, calls, parse_finished, keep_alive,
                     expect_continue>>
  BY DEF on_message_begin
<1>3. stream[pos + 1].token = "begin"
  BY <1>2, DueToken DEF Stopped
<1>4. /\ ~dead /\ ~parse_finished /\ Len(calls) = stream[pos + 1].of - 1
      /\ field = <<>> /\ ~expect_continue
  BY <1>3, Before
<1>5. /\ pos' \in pos + 1..limit
      /\ stream[pos'].token \in {"begin", "stop"}
      /\ stream[pos'].of = stream[pos + 1].of
  BY <1>1, <1>2, <1>3, StaysInMessage
<1>6. dead' = dead /\ mode' = IF pos' = limit THEN "parsed" ELSE "parsing"
  BY <1>1, <1>2, GoesOn
<1>7. ~keep_alive /\ \A i \in pos + 1..limit - 1 : stream[i].token # "complete"
  BY DEF Turn
<1>8. Underway' /\ Len(calls') = stream'[pos'].of - 1
  BY <1>1, <1>2, <1>4, <1>5 DEF Underway
<1>9. ~Contains(field', "EXPECT")
  BY <1>2, <1>4 DEF Contains
<1>10. mode' = "parsing" => \A i \in pos' + 1..limit' - 1 : stream'[i].token # "complete"
  <2> SUFFICES ASSUME NEW i \in pos' + 1..limit' - 1
               PROVE  stream'[i].token # "complete"
    OBVIOUS
  <2>1. i \in pos + 1..limit - 1
    BY <1>1, <1>2, <1>5
  <2> QED BY <1>2, <1>7, <2>1
<1>11. mode' # "crashed" /\ ~keep_alive' /\ ~parse_finished' /\ ~expect_continue'
  BY <1>2, <1>4, <1>6, <1>7
<1> QED BY <1>2, <1>8, <1>9, <1>10, <1>11 DEF Turn

(* ... and its end.                                                        *)
LEMMA KeptAtEnd ==
  ASSUME TypeOK, stream \in Seq(Sent), Stream, Turn, ~overran, mode = "parsing",
         on_message_complete
  PROVE  Turn'
<1> USE DEF clientVars, readVars, fieldVars
<1>1. /\ pos \in Nat /\ limit \in Nat /\ Len(stream) \in Nat /\ pos < limit
      /\ limit <= Len(stream)
  BY Places
<1>2. /\ headers = "dict" /\ GoOn /\ Due("complete") /\ parse_finished' = TRUE
      /\ UNCHANGED <<messages, stream, limit, headers, field, calls, keep_alive,
                     expect_continue>>
  BY DEF on_message_complete, Complete
<1>3. stream[pos + 1].token = "complete"
  BY <1>2, DueToken DEF Stopped
<1>4. /\ ~dead /\ Len(calls) = stream[pos + 1].of - 1
      /\ Underway /\ Follows(stream[pos], stream[pos + 1])
      /\ stream[pos].of = stream[pos + 1].of
  BY <1>3, Before
<1>5. ~keep_alive /\ \A i \in pos + 1..limit - 1 : stream[i].token # "complete"
  BY DEF Turn
<1>6. pos + 1 = limit
  <2> SUFFICES ASSUME pos + 1 # limit PROVE FALSE
    OBVIOUS
  <2>1. pos + 1 \in pos + 1..limit - 1
    BY <1>1
  <2> QED BY <1>3, <1>5, <2>1
<1>7. pos' = pos + 1 /\ mode' = "parsed" /\ dead' = dead
  BY <1>1, <1>2, <1>6, GoesOn
<1>8. ~expect_continue
  <2> SUFFICES ASSUME expect_continue PROVE FALSE
    OBVIOUS
  <2>1. stream[pos].token # "body" /\ messages[stream[pos].of].body # <<>>
    BY <1>4 DEF Turn
  <2>2. stream[pos].token # "complete"
    BY <1>4 DEF Underway
  <2> QED BY <1>3, <1>4, <2>1, <2>2 DEF Follows
<1>9. ~Underway' /\ pos' > 0 /\ Len(calls') = stream'[pos'].of - 1
  BY <1>1, <1>2, <1>3, <1>4, <1>7 DEF Underway
<1>10. mode' = "parsed" /\ ~keep_alive' /\ ~dead' /\ parse_finished' /\ headers' = "dict"
       /\ ~expect_continue'
  BY <1>2, <1>4, <1>5, <1>7, <1>8
<1> QED BY <1>9, <1>10 DEF Turn

(* Nor by a callback that fails. *)
LEMMA KeptWhenStopped ==
  ASSUME TypeOK, stream \in Seq(Sent), Stream, Turn, ~overran, mode = "parsing",
         dead' = TRUE, mode' = "parsed", UNCHANGED <<parse_finished, keep_alive>>
  PROVE  Turn'
<1>1. ~parse_finished /\ ~keep_alive
  BY Before DEF Turn
<1>2. ~parse_finished' /\ ~keep_alive' /\ dead'
  BY <1>1
<1> QED BY <1>2 DEF Turn

LEMMA KeptByCallback ==
  ASSUME BodyIsExpected, TypeOK, stream \in Seq(Sent), Stream, Turn, ~overran,
         Callback \/ HeadersEnd \/ Garbage
  PROVE  Turn'
<1> USE DEF clientVars, readVars, dictVars, fieldVars, flagVars
<1> DEFINE token == stream[pos + 1].token
           Stays == /\ GoOn /\ UNCHANGED <<messages, stream, limit, headers, calls,
                                           parse_finished, keep_alive>>
           Stopping == /\ dead' = TRUE /\ mode' = "parsed"
                       /\ UNCHANGED <<parse_finished, keep_alive>>
<1>1. mode = "parsing"
  BY DEF Callback, on_message_begin, on_path, on_query_string, on_header_field,
         on_header_value, on_body, on_message_complete, HeadersEnd, Garbage, Due
<1>2. CASE on_message_begin
  BY <1>1, <1>2, KeptAtStart
<1>3. CASE on_message_complete
  BY <1>1, <1>3, KeptAtEnd
<1>4. ASSUME Stays, token \notin {"begin", "complete"}, field' = field,
             expect_continue' => token # "body" /\ expect_continue
      PROVE  Turn'
  BY <1>1, <1>4, KeptWithin
<1>5. CASE on_path
  <2>1. Due("path")
    BY <1>5 DEF on_path
  <2>2. token \in {"path", "stop"}
    BY <2>1, DueToken
  <2>3. Stopping \/ (Stays /\ UNCHANGED <<field, expect_continue>>)
    BY <1>5 DEF on_path, Stop
  <2>4. CASE Stopping
    BY <1>1, <2>4, KeptWhenStopped
  <2>5. CASE Stays /\ UNCHANGED <<field, expect_continue>>
    BY <1>4, <2>2, <2>5
  <2> QED BY <2>3, <2>4, <2>5
<1>6. CASE on_query_string
  <2>1. Due("query") /\ Stays /\ UNCHANGED <<field, expect_continue>>
    BY <1>6 DEF on_query_string
  <2>2. token \in {"query", "stop"}
    BY <2>1, DueToken
  <2> QED BY <1>4, <2>1, <2>2
<1>7. CASE on_header_field
  <2>1. Due("name") /\ Stays /\ UNCHANGED expect_continue
    BY <1>7 DEF on_header_field
  <2>2. token \in {"name", "stop"}
    BY <2>1, DueToken
  <2> DEFINE piece == Piece("name")
             name == IF last_call_was_header_value THEN <<"HTTP_">> ELSE field
             m == stream[pos + 1].of
  <2>3. piece \in Seq(Parts) /\ (Contains(piece, "EXPECT") => Expects(messages[m]))
    BY <2>1, NamePiece, ParsingAssumption
  <2>4. field' = name \/ field' = name \o Mapped(piece, Dashes)
    BY <1>7 DEF on_header_field
  <2>5. name = <<"HTTP_">> \/ name = field
    OBVIOUS
  <2> DEFINE S == Parts \cup {"HTTP_", "_"}
  <2>6. field \in Seq(S) /\ "HTTP_" \in S
    BY Zenon DEF TypeOK
  <2> HIDE DEF piece, name, m, S
  <2>7. name \in Seq(S)
    <3>1. <<"HTTP_">> \in Seq(S)
      BY <2>6
    <3> QED BY <2>5, <2>6, <3>1
  <2>8. Contains(name, "EXPECT") => Contains(field, "EXPECT")
    <3>1. ~Contains(<<"HTTP_">>, "EXPECT")
      BY DEF Contains
    <3> QED BY <2>5, <3>1
  <2>9. ASSUME Contains(field', "EXPECT"), ~Contains(field, "EXPECT")
        PROVE  Expects(messages[m])
    <3> DEFINE dashed == Mapped(piece, Dashes)
               T == {Dashes(x) : x \in Parts}
    <3>1. dashed \in Seq(T) /\ (Contains(dashed, "EXPECT") => Contains(piece, "EXPECT"))
      BY <2>3, DashedPiece
    <3>2. field' = name \o dashed
      BY <2>4, <2>8, <2>9
    <3> HIDE DEF dashed, T
    <3>3. Contains(name \o dashed, "EXPECT") /\ ~Contains(name, "EXPECT")
      BY <2>8, <2>9, <3>2
    <3>4. Contains(dashed, "EXPECT")
      BY <2>7, <3>1, <3>3, ContainsConcat
    <3> QED BY <2>3, <3>1, <3>4
  <2> QED BY <1>1, <2>1, <2>2, <2>9, KeptWithin DEF m
<1>8. CASE on_header_value
  <2>1. Due("value") /\ Stays /\ UNCHANGED field
    BY <1>8 DEF on_header_value
  <2>2. token \in {"value", "stop"}
    BY <2>1, DueToken
  <2>3. CASE expect_continue' => expect_continue
    BY <1>4, <2>1, <2>2, <2>3
  <2>4. CASE ~(expect_continue' => expect_continue)
    <3>1. Current.minor = 1 /\ field = HTTP_EXPECT
      BY <1>8, <2>4 DEF on_header_value, Expect
    <3> DEFINE m == stream[pos + 1].of
    <3>2. ~parse_finished /\ ~dead /\ Underway /\ stream[pos].of = m
      BY <1>1, <2>2, Before
    <3>3. Contains(field, "EXPECT")
      BY <3>1 DEF HTTP_EXPECT, Contains
    <3>4. Expects(messages[m])
      BY <3>2, <3>3 DEF Turn
    <3>5. messages[m] \in MessageKinds
      <4>1. stream[pos + 1] \in Sent
        BY <1>1, Places
      <4>2. m \in 1..N
        BY <4>1 DEF Sent
      <4>3. messages \in [1..N -> MessageKinds]
        BY Zenon DEF TypeOK
      <4> QED BY <4>2, <4>3
    <3>6. messages[m].body # <<>>
      BY <3>1, <3>4, <3>5 DEF BodyIsExpected, Current
    <3> QED BY <1>1, <2>1, <2>2, <3>6, KeptWithin
  <2> QED BY <2>3, <2>4
<1>9. CASE on_body
  <2>1. Due("body") /\ expect_continue' = FALSE
    BY <1>9 DEF on_body
  <2>2. token = "body"
    BY <2>1, DueToken DEF Stopped
  <2>3. Stopping \/ (Stays /\ UNCHANGED field)
    BY <1>9 DEF on_body, Stop
  <2>4. CASE Stopping
    BY <1>1, <2>4, KeptWhenStopped
  <2>5. CASE Stays /\ UNCHANGED field
    BY <1>4, <2>1, <2>2, <2>5
  <2> QED BY <2>3, <2>4, <2>5
<1>10. CASE HeadersEnd
  BY <1>4, <1>10 DEF HeadersEnd
<1>11. CASE Garbage
  BY <1>1, <1>11, KeptWhenStopped DEF Garbage, Stop
<1> QED BY <1>2, <1>3, <1>5, <1>6, <1>7, <1>8, <1>9, <1>10, <1>11 DEF Callback

LEMMA NeverLost ==
  ASSUME TypeOK, stream \in Seq(Sent), Stream, Turn, ~overran
  PROVE  ~LosesDict /\ ~CallLosesDict /\ ~CallWithList
<1>1. ASSUME LosesDict PROVE FALSE
  <2>1. headers # "dict" /\ (UsesDict \/ UsesBody)
    BY <1>1 DEF LosesDict
  <2>2. PICK token \in {"path", "query", "body", "complete", "value"} : Due(token)
    BY <2>1 DEF UsesDict, UsesBody
  <2>3. stream[pos + 1].token # "begin" /\ mode = "parsing"
    <3>1. mode = "parsing"
      BY <2>2 DEF Due
    <3> QED BY <2>2, <3>1, DueToken
  <2> QED BY <2>1, <2>3, Before
<1>2. ASSUME CallLosesDict \/ CallWithList PROVE FALSE
  BY <1>2 DEF CallLosesDict, CallWithList, Turn
<1> QED BY <1>1, <1>2

LEMMA KeptByRead ==
  ASSUME TypeOK, stream \in Seq(Sent), Stream, Turn,
         NEW to \in pos + 1..Len(stream), ReadData(to)
  PROVE  Turn'
<1> USE DEF clientVars, parserVars, dictVars, fieldVars
<1> SUFFICES ASSUME ~overran' PROVE Turn'
  BY DEF Turn
<1>1. /\ ~overran
      /\ \A i \in pos + 1..to - 1 : stream[i].token # "complete"
  BY DEF ReadData
<1>2. /\ mode = "reading" /\ limit' = to /\ mode' = IF dead THEN "parsed" ELSE "parsing"
      /\ UNCHANGED <<messages, stream, pos, dead, headers, field, expect_continue,
                     parse_finished, keep_alive, calls>>
  BY DEF ReadData
<1>3. /\ ~keep_alive /\ ~parse_finished
      /\ ~dead =>
           IF Underway
           THEN /\ headers = "dict" /\ Len(calls) = stream[pos].of - 1
                /\ Contains(field, "EXPECT") => Expects(messages[stream[pos].of])
           ELSE field = <<>> /\ Len(calls) = IF pos = 0 THEN 0 ELSE stream[pos].of
      /\ ~dead /\ expect_continue =>
           Underway /\ stream[pos].token # "body" /\ messages[stream[pos].of].body # <<>>
  BY <1>1, <1>2 DEF Turn
<1>4. Underway' = Underway
  BY <1>2 DEF Underway
<1>5. mode' # "crashed" /\ ~keep_alive' /\ ~parse_finished'
  BY <1>2, <1>3
<1>6. mode' = "parsing" => \A i \in pos' + 1..limit' - 1 : stream'[i].token # "complete"
  BY <1>1, <1>2
<1>7. ~dead' =>
        IF Underway'
        THEN /\ headers' = "dict" /\ Len(calls') = stream'[pos'].of - 1
             /\ Contains(field', "EXPECT") => Expects(messages'[stream'[pos'].of])
        ELSE field' = <<>> /\ Len(calls') = IF pos' = 0 THEN 0 ELSE stream'[pos'].of
  BY <1>2, <1>3, <1>4
<1>8. ~dead' /\ expect_continue' =>
        Underway' /\ stream'[pos'].token # "body" /\ messages'[stream'[pos'].of].body # <<>>
  BY <1>2, <1>3, <1>4
<1> QED BY <1>5, <1>6, <1>7, <1>8 DEF Turn

(* What the handlers do when the bytes have been parsed.                   *)
LEMMA KeptByHandler ==
  ASSUME TypeOK, stream \in Seq(Sent), Stream, Turn, ~overran, \E S : calls \in Seq(S),
         Refuse \/ Continue100 \/ WaitForMore \/ CallApplication
  PROVE  Turn'
<1> USE DEF clientVars, readVars, parserVars, dictVars, fieldVars, flagVars
<1>1. /\ pos \in Nat /\ mode = "parsed" /\ UNCHANGED <<messages, stream, pos, dead>>
  BY Places DEF Refuse, Continue100, WaitForMore, CallApplication
<1>2. ~keep_alive /\ (parse_finished /\ expect_continue => FALSE)
  BY <1>1 DEF Turn
<1>3. Underway' = Underway
  BY <1>1 DEF Underway
<1>4. CASE CallApplication
  <2>1. /\ parse_finished /\ ~dead /\ pos > 0 /\ ~Underway /\ Len(calls) = stream[pos].of - 1
    BY <1>4 DEF CallApplication, Turn
  <2>2. ~expect_continue
    BY <1>2, <2>1
  <2>3. Reset /\ calls' = Append(calls, environ)
    BY <1>4, <2>2 DEF CallApplication
  <2>4. Len(calls') = stream[pos].of
    <3>1. pos \in 1..Len(stream)
      BY <2>1, Places
    <3>2. stream[pos] \in Sent
      BY <3>1
    <3>3. stream[pos].of \in Int
      BY <3>2, ParsingAssumption DEF Sent, ParsingAssumption
    <3>4. PICK S : calls \in Seq(S)
      OBVIOUS
    <3>5. Len(calls') = Len(calls) + 1 /\ Len(calls) \in Nat
      BY <2>3, <3>4
    <3> QED BY <2>1, <3>3, <3>5
  <2>5. /\ mode' = "reading" /\ field' = <<>>
        /\ ~expect_continue' /\ ~parse_finished' /\ ~keep_alive'
    BY <2>3 DEF Reset
  <2>6. pos' # 0 /\ Len(calls') = stream'[pos'].of /\ ~Underway'
    BY <1>1, <1>3, <2>1, <2>4
  <2> QED BY <2>5, <2>6 DEF Turn
<1>5. CASE Refuse \/ Continue100 \/ WaitForMore
  <2>1. /\ UNCHANGED <<headers, field, parse_finished, keep_alive, calls>>
        /\ expect_continue' => expect_continue
        /\ mode' \in {"reading", "refused"} /\ (mode' = "reading" => ~parse_finished)
    BY <1>2, <1>5 DEF Refuse, Continue100, WaitForMore, Resume, Reset
  <2>2. /\ parse_finished =>
             /\ ~dead /\ pos > 0 /\ ~Underway /\ headers = "dict"
             /\ Len(calls) = stream[pos].of - 1
        /\ ~dead /\ ~parse_finished =>
             IF Underway
             THEN /\ headers = "dict" /\ Len(calls) = stream[pos].of - 1
                  /\ Contains(field, "EXPECT") => Expects(messages[stream[pos].of])
             ELSE field = <<>> /\ Len(calls) = IF pos = 0 THEN 0 ELSE stream[pos].of
        /\ ~dead /\ expect_continue =>
             Underway /\ stream[pos].token # "body" /\ messages[stream[pos].of].body # <<>>
    BY DEF Turn
  <2>3. parse_finished' =>
          /\ mode' = "refused" /\ ~dead' /\ pos' > 0 /\ ~Underway' /\ headers' = "dict"
          /\ Len(calls') = stream'[pos'].of - 1
    BY <1>1, <1>3, <2>1, <2>2
  <2>4. ~dead' /\ ~parse_finished' =>
          IF Underway'
          THEN /\ headers' = "dict" /\ Len(calls') = stream'[pos'].of - 1
               /\ Contains(field', "EXPECT") => Expects(messages'[stream'[pos'].of])
          ELSE field' = <<>> /\ Len(calls') = IF pos' = 0 THEN 0 ELSE stream'[pos'].of
    BY <1>1, <1>3, <2>1, <2>2
  <2>5. ~dead' /\ expect_continue' =>
          Underway' /\ stream'[pos'].token # "body" /\ messages'[stream'[pos'].of].body # <<>>
    BY <1>1, <1>3, <2>1, <2>2
  <2>6. mode' \in {"reading", "refused"} /\ ~keep_alive'
    BY <1>2, <2>1
  <2> QED BY <2>3, <2>4, <2>5, <2>6 DEF Turn
<1> QED BY <1>4, <1>5

-----------------------------------------------------------------------------
(* The theorems. *)

CallsOK == \E S : calls \in Seq(S)

Streaming == TypeOK /\ stream \in Seq(Sent) /\ Stream /\ Linked /\ CallsOK

LEMMA StreamKept ==
  ASSUME Streaming, [ev_io_on_read]_vars
  PROVE  Streaming'
<1> USE DEF clientVars, readVars, parserVars, dictVars, fieldVars, flagVars
<1>1. UNCHANGED <<messages, stream>> /\ (calls' = calls \/ calls' = Append(calls, environ))
  BY DEF vars, ev_io_on_read, ReadData, Callback, on_message_begin, on_path,
         on_query_string, on_header_field, on_header_value, on_body,
         on_message_complete, HeadersEnd, Garbage, LosesDict, Crash, Refuse,
         Continue100, WaitForMore, CallApplication, CallWithList, CallLosesDict
<1>2. TypeOK'
  BY TypedStep DEF Streaming
<1>3. (stream \in Seq(Sent))'
  BY <1>1 DEF Streaming, Sent
<1>4. Stream' /\ Linked'
  BY <1>1 DEF Streaming, Stream, Follows, Linked, Link
<1>5. CallsOK'
  <2>1. PICK S : calls \in Seq(S)
    BY DEF Streaming, CallsOK
  <2>2. calls \in Seq(S \cup {environ})
    BY <2>1
  <2>3. calls' \in Seq(S \cup {environ})
    BY <1>1, <2>2
  <2> QED BY <2>3 DEF CallsOK
<1> QED BY <1>2, <1>3, <1>4, <1>5 DEF Streaming

LEMMA StreamingCorrect == Spec => []Streaming
<1>1. Init => Streaming
  <2> SUFFICES ASSUME Init PROVE Streaming
    OBVIOUS
  <2>1. calls = <<>>
    BY DEF Init
  <2>2. CallsOK
    <3>1. calls \in Seq({})
      BY <2>1
    <3> QED BY <3>1 DEF CallsOK
  <2> QED BY <2>2, InitTyped, StreamCorrect DEF Streaming
<1>2. Streaming /\ [ev_io_on_read]_vars => Streaming'
  BY StreamKept
<1> QED BY <1>1, <1>2, PTL DEF Spec

(* The states of the Request and of http_parser, whatever the client sends *)
(* and in whatever pieces: while the parser works there are bytes for it,  *)
(* a dict is only read where there is one, and parser.field starts with    *)
(* HTTP_ from the name of a header to its value (request.c:123-193).       *)
THEOREM TypeCorrect == Spec => []TypeOK
<1>1. Streaming => TypeOK
  BY DEF Streaming
<1> QED BY <1>1, StreamingCorrect, PTL

LEMMA TurnKept ==
  ASSUME BodyIsExpected, Streaming, Turn, [ev_io_on_read]_vars
  PROVE  Turn'
<1> USE DEF clientVars, readVars, parserVars, dictVars, fieldVars, flagVars
<1>1. TypeOK /\ stream \in Seq(Sent) /\ Stream /\ \E S : calls \in Seq(S)
  BY DEF Streaming, CallsOK
<1>2. CASE UNCHANGED vars
  BY <1>2 DEF vars, Turn, Underway
<1>3. CASE \E to \in pos + 1..Len(stream) : ReadData(to)
  BY <1>1, <1>3, KeptByRead
<1>4. CASE ev_io_on_read /\ ~\E to \in pos + 1..Len(stream) : ReadData(to)
  <2>1. overran' = overran
    BY <1>4
       DEF ev_io_on_read, Callback, on_message_begin, on_path,
           on_query_string, on_header_field, on_header_value, on_body,
           on_message_complete, HeadersEnd, Garbage, LosesDict, Crash, Refuse,
           Continue100, WaitForMore, CallApplication, CallWithList, CallLosesDict
  <2>2. CASE overran
    BY <2>1, <2>2 DEF Turn
  <2>3. CASE ~overran
    <3>1. ~LosesDict /\ ~CallLosesDict /\ ~CallWithList
      BY <1>1, <2>3, NeverLost
    <3>2. CASE Callback \/ HeadersEnd \/ Garbage
      BY <1>1, <2>3, <3>2, KeptByCallback
    <3>3. CASE Refuse \/ Continue100 \/ WaitForMore \/ CallApplication
      BY <1>1, <2>3, <3>3, KeptByHandler
    <3> QED BY <1>4, <3>1, <3>2, <3>3 DEF ev_io_on_read
  <2> QED BY <2>2, <2>3
<1> QED BY <1>2, <1>3, <1>4

(* Turn, the inductive invariant: as long as no read() goes on behind a    *)
(* message, what the Request holds is of the message under way alone.      *)
THEOREM TurnCorrect ==
  ASSUME BodyIsExpected
  PROVE  Spec => []Turn
<1>1. Init => Turn
  <2> SUFFICES ASSUME Init PROVE Turn
    OBVIOUS
  <2>1. /\ pos = 0 /\ mode = "reading" /\ ~keep_alive /\ ~parse_finished /\ ~expect_continue
        /\ field = <<>> /\ calls = <<>>
    BY DEF Init
  <2>2. ~Underway /\ Len(calls) = 0
    BY <2>1 DEF Underway
  <2> QED BY <2>1, <2>2 DEF Turn
<1>2. Streaming /\ Turn /\ [ev_io_on_read]_vars => Turn'
  BY TurnKept
<1> QED BY <1>1, <1>2, StreamingCorrect, PTL DEF Spec

(* The callbacks of request.c that need the dict (request.c:123, 130,      *)
(* 183, 243, 285) find the one that on_message_begin made, in however many *)
(* read()s a message comes, unless a read() goes on behind a message or a  *)
(* message asks for 100 Continue and has no body.                          *)
THEOREM DictIsThere ==
  ASSUME BodyIsExpected
  PROVE  Spec => []NeverLosesDict
<1>1. Turn => NeverLosesDict
  BY DEF Turn, NeverLosesDict
<1> QED BY <1>1, TurnCorrect, PTL

=============================================================================
