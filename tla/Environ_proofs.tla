----------------------------- MODULE Environ_proofs -----------------------------
(***************************************************************************)
(* What the environ says, proved for any messages in any pieces: what has  *)
(* been put into the dict is, at every symbol of the stream, what the      *)
(* message has said up to there (SoFar), so that an application that is    *)
(* called at its end gets what the message says as a whole.                *)
(***************************************************************************)
EXTENDS Parsing_proofs, SequenceTheorems

(* Whether the value of a header has begun, and what has been said in it.  *)
Begun(s, i) == i < s.header \/ (i = s.header /\ Place(s) # "name")

Said(k, s, i) ==
  IF ~Valid(k.headers[i]) \/ ~Begun(s, i) THEN <<>>
  ELSE IF i = s.header /\ Place(s) = "value" THEN SubSeq(k.headers[i].value, 1, s.nth)
  ELSE k.headers[i].value

SaidAs(k, s, key) ==
  [i \in DOMAIN k.headers |-> IF RawKey(k.headers[i]) = key THEN Said(k, s, i) ELSE <<>>]

(* What has been said of a text that is at another place than the symbol   *)
(* as a whole.                                                             *)
Upto(s, place, text) == IF Place(s) = place THEN SubSeq(text, 1, s.nth) ELSE text
-----------------------------------------------------------------------------
(* Concatenation, as what is needed of it. *)
Join(s, t) == s \o t

LEMMA Joins ==
  ASSUME NEW S
  PROVE  /\ <<>> \in Seq(S)
         /\ \A s, t \in Seq(S) : Join(s, t) \in Seq(S)
         /\ \A s \in Seq(S) : Join(s, <<>>) = s
         /\ \A s, t, u \in Seq(S) : Join(Join(s, t), u) = Join(s, Join(t, u))
<1>1. \A s, t, u \in Seq(S) : (s \o t) \o u = s \o (t \o u)
  BY ConcatAssociative
<1>2. <<>> \in Seq(S) /\ \A s \in Seq(S) : s \o <<>> = s
  BY EmptySeq, ConcatEmptySeq
<1>3. \A s, t \in Seq(S) : s \o t \in Seq(S)
  BY ConcatProperties
<1> QED BY <1>1, <1>2, <1>3, Zenon DEF Join

(* Sums of two lists of things that can be joined, where one member of the *)
(* second list has grown by a piece and what is behind it was nothing.     *)
Sums(Q, n, a, f) ==
  \A j \in 1..n : a[j] \in Q /\ f[j] \in Q /\ f[j] = IF j = 1 THEN a[j] ELSE Join(f[j - 1], a[j])

Growing(Q, nil, n, i, piece, a, b, f, g) ==
  /\ n \in Nat \ {0} /\ i \in 1..n /\ nil \in Q /\ piece \in Q
  /\ \A s, t \in Q : Join(s, t) \in Q
  /\ \A s \in Q : Join(s, nil) = s
  /\ \A s, t, u \in Q : Join(Join(s, t), u) = Join(s, Join(t, u))
  /\ Sums(Q, n, a, f) /\ Sums(Q, n, b, g)
  /\ b[i] = Join(a[i], piece)
  /\ \A j \in 1..i - 1 : b[j] = a[j]
  /\ \A j \in i + 1..n : a[j] = nil

LEMMA Grows ==
  ASSUME NEW Q, NEW nil, NEW n \in Nat \ {0}, NEW i \in 1..n, NEW piece \in Q,
         NEW a, NEW b, NEW f, NEW g, Growing(Q, nil, n, i, piece, a, b, f, g)
  PROVE  \E rest \in Q :
           /\ g[n] = Join(Join(f[n], piece), rest)
           /\ (\A j \in i + 1..n : b[j] = nil) => rest = nil
<1>0. /\ b[i] = Join(a[i], piece)
      /\ \A j \in 1..i - 1 : b[j] = a[j]
      /\ \A j \in i + 1..n : a[j] = nil
  BY Zenon DEF Growing
<1>sums. Sums(Q, n, a, f) /\ Sums(Q, n, b, g) /\ nil \in Q
  BY Zenon DEF Growing
<1> DEFINE Silent == \A j \in i + 1..n : b[j] = nil
           Grown(j) == \E rest \in Q : g[j] = Join(Join(f[j], piece), rest) /\ (Silent => rest = nil)
           P == {j \in 1..n : IF j < i THEN g[j] = f[j] ELSE Grown(j)}
<1>1. \A j : j \in P <=> j \in 1..n /\ IF j < i THEN g[j] = f[j] ELSE Grown(j)
  OBVIOUS
<1>2. Silent => \A j \in i + 1..n : b[j] = nil
  OBVIOUS
<1>3. ASSUME NEW j \in 1..n, NEW rest \in Q, g[j] = Join(Join(f[j], piece), rest),
             Silent => rest = nil
      PROVE  Grown(j)
  BY <1>3
<1>4. ASSUME NEW j \in 1..n, Grown(j)
      PROVE  \E rest \in Q : g[j] = Join(Join(f[j], piece), rest) /\ (Silent => rest = nil)
  BY <1>4
<1> HIDE DEF P, Silent, Grown
<1>closed. \A s, t \in Q : Join(s, t) \in Q
  BY Zenon DEF Growing
<1>nil. \A s \in Q : Join(s, nil) = s
  BY Zenon DEF Growing
<1>assoc. \A s, t, u \in Q : Join(Join(s, t), u) = Join(s, Join(t, u))
  BY Zenon DEF Growing
<1>typed. \A j \in 1..n : a[j] \in Q /\ b[j] \in Q /\ f[j] \in Q /\ g[j] \in Q
  BY <1>sums DEF Sums
<1>steps. \A j \in 1..n : j # 1 => f[j] = Join(f[j - 1], a[j]) /\ g[j] = Join(g[j - 1], b[j])
  BY <1>sums DEF Sums
<1>5. ASSUME NEW j \in 1..n, g[j] = Join(f[j], piece)
      PROVE  Grown(j)
  <2>1. f[j] \in Q
    BY <1>typed
  <2>2. Join(f[j], piece) \in Q
    BY <1>closed, <2>1
  <2>3. Join(Join(f[j], piece), nil) = Join(f[j], piece)
    BY <1>nil, <2>2
  <2> QED BY <1>3, <1>5, <1>sums, <2>3
<1>6. 1 \in P
  <2>1. 1 \in 1..n
    OBVIOUS
  <2>2. f[1] = a[1] /\ g[1] = b[1]
    BY <1>sums, <2>1 DEF Sums
  <2>3. CASE 1 < i
    <3>1. 1 \in 1..i - 1
      BY <2>3
    <3> QED BY <1>0, <1>1, <2>1, <2>2, <2>3, <3>1
  <2>4. CASE ~(1 < i)
    <3>1. i = 1
      BY <2>4
    <3>2. g[1] = Join(f[1], piece)
      BY <1>0, <2>2, <3>1
    <3>3. Grown(1)
      BY <1>5, <2>1, <3>2
    <3> QED BY <1>1, <2>1, <2>4, <3>3
  <2> QED BY <2>3, <2>4
<1>7. ASSUME NEW j \in 1..n, j + 1 \in 1..n, j \in P
      PROVE  j + 1 \in P
  <2>1. PICK q : q = j + 1
    OBVIOUS
  <2>2. q # 1 /\ q - 1 = j /\ q \in 1..n
    BY <1>7, <2>1
  <2>3. f[q] = Join(f[j], a[q]) /\ g[q] = Join(g[j], b[q])
    BY <1>steps, <2>2
  <2>4. f[j] \in Q /\ a[q] \in Q /\ b[q] \in Q /\ f[q] \in Q
    BY <1>typed, <2>2
  <2>5. CASE q < i
    <3>1. j < i /\ q \in 1..i - 1
      BY <2>2, <2>5
    <3>2. g[j] = f[j] /\ b[q] = a[q]
      BY <1>0, <1>1, <1>7, <3>1
    <3>3. g[q] = f[q]
      BY <2>3, <3>2
    <3> QED BY <1>1, <2>1, <2>2, <2>5, <3>3
  <2>6. CASE q = i
    <3>1. j < i /\ ~(q < i)
      BY <2>2, <2>6
    <3>2. g[j] = f[j]
      BY <1>1, <1>7, <3>1
    <3>3. b[q] = Join(a[q], piece)
      BY <1>0, <2>6
    <3>4. Join(Join(f[j], a[q]), piece) = Join(f[j], Join(a[q], piece))
      BY <1>assoc, <2>4
    <3>5. g[q] = Join(f[q], piece)
      BY <2>3, <3>2, <3>3, <3>4
    <3>6. Grown(q)
      BY <1>5, <2>2, <3>5
    <3> QED BY <1>1, <2>1, <2>2, <3>1, <3>6
  <2>7. CASE q > i
    <3>1. ~(j < i) /\ q \in i + 1..n /\ ~(q < i)
      BY <2>2, <2>7
    <3>2. Grown(j)
      BY <1>1, <1>7, <3>1
    <3>3. PICK rest \in Q : g[j] = Join(Join(f[j], piece), rest) /\ (Silent => rest = nil)
      BY <1>4, <3>2
    <3>4. a[q] = nil
      BY <1>0, <3>1
    <3>5. f[q] = f[j]
      BY <1>nil, <2>3, <2>4, <3>4
    <3>6. Join(f[j], piece) \in Q
      BY <1>closed, <2>4
    <3>7. Join(Join(Join(f[j], piece), rest), b[q]) = Join(Join(f[j], piece), Join(rest, b[q]))
      BY <1>assoc, <2>4, <3>6
    <3>8. Join(rest, b[q]) \in Q
      BY <1>closed, <2>4
    <3>9. Silent => Join(rest, b[q]) = nil
      <4>1. Join(nil, nil) = nil
        BY <1>nil, <1>sums
      <4> QED BY <1>2, <3>1, <3>3, <4>1
    <3>10. g[q] = Join(Join(f[q], piece), Join(rest, b[q]))
      BY <2>3, <3>3, <3>5, <3>7
    <3>11. Grown(q)
      BY <1>3, <2>2, <3>8, <3>9, <3>10
    <3> QED BY <1>1, <2>1, <2>2, <3>1, <3>11
  <2> QED BY <2>2, <2>5, <2>6, <2>7
<1>8. 1..n \subseteq P
  BY <1>6, <1>7, UpTo
<1>9. n \in P /\ ~(n < i)
  BY <1>8
<1>10. Grown(n)
  BY <1>1, <1>9
<1>11. n \in 1..n
  OBVIOUS
<1> QED BY <1>4, <1>10, <1>11 DEF Silent

LEMMA FlattenSums ==
  ASSUME NEW S, NEW seqs \in Seq(Seq(S)), seqs # <<>>
  PROVE  \E f : FlattenSeq(seqs) = f[Len(seqs)] /\ Sums(Seq(S), Len(seqs), seqs, f)
<1> DEFINE Steps(f) == \A i \in 1..Len(seqs) :
                         f[i] = IF i = 1 THEN seqs[i] ELSE f[i - 1] \o seqs[i]
<1>1. \E f \in [1..Len(seqs) -> Seq(S)] : FlattenSeq(seqs) = f[Len(seqs)] /\ Steps(f)
  BY FlattenSteps
<1>2. ASSUME NEW f \in [1..Len(seqs) -> Seq(S)], Steps(f)
      PROVE  Sums(Seq(S), Len(seqs), seqs, f)
  <2>1. \A i \in 1..Len(seqs) : seqs[i] \in Seq(S)
    OBVIOUS
  <2>2. \A i \in 1..Len(seqs) : f[i] \in Seq(S)
    BY Zenon
  <2> QED BY <1>2, <2>1, <2>2, Zenon DEF Sums, Join
<1> HIDE DEF Steps
<1> QED BY <1>1, <1>2, Zenon

(* What FlattenSeq makes of sequences when one of them grows and those     *)
(* behind it were empty: it goes on with the piece, and with what else     *)
(* there is behind.                                                        *)
GrownAt(S, n, i, piece, old, new) ==
  /\ old \in Seq(Seq(S)) /\ new \in Seq(Seq(S)) /\ Len(old) = n /\ Len(new) = n
  /\ new[i] = Join(old[i], piece)
  /\ \A j \in 1..i - 1 : new[j] = old[j]
  /\ \A j \in i + 1..n : old[j] = <<>>

LEMMA FlattenGrows ==
  ASSUME NEW S, NEW n \in Nat \ {0}, NEW i \in 1..n, NEW piece \in Seq(S),
         NEW old, NEW new, GrownAt(S, n, i, piece, old, new)
  PROVE  \E rest \in Seq(S) :
           /\ FlattenSeq(new) = Join(Join(FlattenSeq(old), piece), rest)
           /\ (\A j \in i + 1..n : new[j] = <<>>) => rest = <<>>
<1>0. /\ old \in Seq(Seq(S)) /\ new \in Seq(Seq(S)) /\ Len(old) = n /\ Len(new) = n
      /\ new[i] = Join(old[i], piece)
      /\ \A j \in 1..i - 1 : new[j] = old[j]
      /\ \A j \in i + 1..n : old[j] = <<>>
  BY Zenon DEF GrownAt
<1>1. old # <<>> /\ new # <<>>
  BY <1>0, EmptySeq
<1>2. \E f : FlattenSeq(old) = f[n] /\ Sums(Seq(S), n, old, f)
  BY <1>0, <1>1, FlattenSums
<1>3. \E g : FlattenSeq(new) = g[n] /\ Sums(Seq(S), n, new, g)
  BY <1>0, <1>1, FlattenSums
<1>4. PICK f : FlattenSeq(old) = f[n] /\ Sums(Seq(S), n, old, f)
  BY <1>2
<1>5. PICK g : FlattenSeq(new) = g[n] /\ Sums(Seq(S), n, new, g)
  BY <1>3
<1>6. PICK Q : Q = Seq(S)
  OBVIOUS
<1>7. PICK nil : nil = <<>>
  OBVIOUS
<1>8. /\ nil \in Q /\ piece \in Q
      /\ \A s, t \in Q : Join(s, t) \in Q
      /\ \A s \in Q : Join(s, nil) = s
      /\ \A s, t, u \in Q : Join(Join(s, t), u) = Join(s, Join(t, u))
  BY <1>6, <1>7, Joins
<1>9. /\ Sums(Q, n, old, f) /\ Sums(Q, n, new, g)
      /\ \A j \in i + 1..n : old[j] = nil
  BY <1>0, <1>4, <1>5, <1>6, <1>7
<1>10. /\ new[i] = Join(old[i], piece)
       /\ \A j \in 1..i - 1 : new[j] = old[j]
  BY <1>0
<1>11. Growing(Q, nil, n, i, piece, old, new, f, g)
  BY <1>8, <1>9, <1>10, Zenon DEF Growing
<1>12. \E rest \in Q :
         /\ g[n] = Join(Join(f[n], piece), rest)
         /\ (\A j \in i + 1..n : new[j] = nil) => rest = nil
  BY <1>8, <1>11, Grows
<1> QED BY <1>4, <1>5, <1>6, <1>7, <1>12

LEMMA FlattenNothing ==
  ASSUME NEW S, NEW seqs \in Seq(Seq(S)), \A i \in 1..Len(seqs) : seqs[i] = <<>>
  PROVE  FlattenSeq(seqs) = <<>>
<1>1. CASE seqs = <<>>
  BY <1>1 DEF FlattenSeq
<1>2. CASE seqs # <<>>
  <2>1. PICK n : n = Len(seqs)
    OBVIOUS
  <2>2. n \in Nat \ {0}
    BY <1>2, <2>1, EmptySeq
  <2>3. PICK f : FlattenSeq(seqs) = f[n] /\ Sums(Seq(S), n, seqs, f)
    BY <1>2, <2>1, FlattenSums
  <2> DEFINE P == {i \in 1..n : f[i] = <<>>}
  <2>4. \A i : i \in P <=> i \in 1..n /\ f[i] = <<>>
    OBVIOUS
  <2>5. \A i \in 1..n : seqs[i] = <<>>
    BY <2>1
  <2>6. n \in 1..n /\ 1 \in 1..n
    BY <2>2
  <2> HIDE DEF P
  <2>7. 1 \in P
    BY <2>3, <2>4, <2>5, <2>6 DEF Sums
  <2>8. ASSUME NEW i \in 1..n, i + 1 \in 1..n, i \in P
        PROVE  i + 1 \in P
    <3>1. i + 1 # 1 /\ (i + 1) - 1 = i
      BY <2>2
    <3>2. f[i + 1] = Join(f[i], seqs[i + 1])
      BY <2>3, <2>8, <3>1 DEF Sums
    <3>3. f[i] = <<>> /\ seqs[i + 1] = <<>>
      BY <2>4, <2>5, <2>8
    <3>4. Join(<<>>, <<>>) = <<>>
      BY Joins
    <3> QED BY <2>4, <2>8, <3>2, <3>3, <3>4
  <2>9. 1..n \subseteq P
    BY <2>2, <2>7, <2>8, UpTo
  <2> QED BY <2>3, <2>4, <2>6, <2>9
<1> QED BY <1>1, <1>2
-----------------------------------------------------------------------------
(* What has been said up to a symbol. *)

Under(k, s, key) == FlattenSeq(SaidAs(k, s, key))

HeaderKeys(k, s) ==
  {RawKey(k.headers[i]) : i \in {j \in DOMAIN k.headers : Valid(k.headers[j]) /\ Begun(s, j)}}

Keys(k, s) ==
  (IF s.token = "begin" THEN {} ELSE {PATH_INFO})
  \cup (IF s.token = "begin" \/ Place(s) = "path" \/ k.query = <<>> THEN {} ELSE {QUERY_STRING})
  \cup HeaderKeys(k, s)
  \cup (IF Place(s) = "body" THEN {wsgi_input} ELSE {})

ValueOf(k, s, key) ==
  CASE key = PATH_INFO -> Upto(s, "path", k.path)
    [] key = QUERY_STRING -> Upto(s, "query", k.query)
    [] key = wsgi_input -> Upto(s, "body", k.body)
    [] OTHER -> Under(k, s, key)

SoFar(k, s) ==
  IF s.token = "complete" THEN Environ(k) ELSE [key \in Keys(k, s) |-> ValueOf(k, s, key)]

-----------------------------------------------------------------------------
(* Parts of texts. *)

LEMMA Cuts ==
  ASSUME NEW S, NEW t \in Seq(S), NEW a \in Nat, NEW b \in Nat, a <= b, b <= Len(t)
  PROVE  /\ SubSeq(t, 1, a) \in Seq(S) /\ SubSeq(t, a + 1, b) \in Seq(S)
         /\ Join(SubSeq(t, 1, a), SubSeq(t, a + 1, b)) = SubSeq(t, 1, b)
<1>1. Len(t) \in Nat
  OBVIOUS
<1>2. 1 \in 1..Len(t) + 1 /\ a \in 1 - 1..Len(t) /\ b \in a..Len(t)
  BY <1>1
<1>3. SubSeq(t, 1, a) \o SubSeq(t, a + 1, b) = SubSeq(t, 1, b)
  BY <1>2, ConcatAdjacentSubSeq
<1>4. (\A i \in 1..a : t[i] \in S) /\ (\A i \in a + 1..b : t[i] \in S)
  BY <1>1
<1>5. SubSeq(t, 1, a) \in Seq(S)
  BY <1>4, SubSeqProperties
<1>6. SubSeq(t, a + 1, b) \in Seq(S)
  BY <1>4, SubSeqProperties
<1> QED BY <1>3, <1>5, <1>6, Zenon DEF Join

LEMMA WholeText ==
  ASSUME NEW S, NEW t \in Seq(S)
  PROVE  SubSeq(t, 1, Len(t)) = t /\ SubSeq(t, 1, 0) = <<>> /\ Join(<<>>, t) = t
BY SubSeqFull, SubSeqEmpty, ConcatEmptySeq DEF Join

LEMMA JoinPrefix ==
  ASSUME NEW S, NEW s \in Seq(S), NEW t \in Seq(S)
  PROVE  IsPrefix(s, Join(s, t))
<1> DEFINE u == s \o t
<1>1. u \in Seq(S) /\ Len(u) = Len(s) + Len(t) /\ Len(s) \in Nat /\ Len(t) \in Nat
      /\ \A i \in 1..Len(s) : u[i] = s[i]
  BY ConcatProperties
<1> HIDE DEF u
<1>2. /\ SubSeq(u, 1, Len(s)) \in Seq(S) /\ Len(SubSeq(u, 1, Len(s))) = Len(s)
      /\ \A i \in 1..Len(s) : SubSeq(u, 1, Len(s))[i] = u[i]
  BY <1>1
<1>3. SubSeq(u, 1, Len(s)) = s
  BY <1>1, <1>2, SeqEqual
<1>4. SubSeq(s, 1, Len(s)) = s
  BY SubSeqFull
<1> QED BY <1>1, <1>3, <1>4 DEF IsPrefix, Join, u

-----------------------------------------------------------------------------
(* Pieces. *)

LEMMA Symbols2 ==
  ASSUME Streaming
  PROVE  /\ pos \in Nat /\ limit \in Nat /\ Len(stream) \in Nat
         /\ pos <= limit /\ limit <= Len(stream)
         /\ messages \in [1..N -> MessageKinds]
         /\ \A i \in 1..Len(stream) : stream[i] \in Sent
         /\ \A i \in 1..Len(stream) - 1 : Link(stream[i], stream[i + 1])
<1>1. TypeOK /\ stream \in Seq(Sent)
  BY DEF Streaming
<1>2. messages \in [1..N -> MessageKinds]
  BY <1>1, Zenon DEF TypeOK
<1>3. \A i \in 1..Len(stream) : stream[i] \in Sent
  BY <1>1
<1>4. \A i \in 1..Len(stream) - 1 : Link(stream[i], stream[i + 1])
  BY Zenon DEF Streaming, Linked
<1> QED BY <1>1, <1>2, <1>3, <1>4, Places

LEMMA SentTyped ==
  ASSUME NEW s \in Sent
  PROVE  /\ s.token \in SentTokens /\ s.part \in SentParts /\ s.of \in 1..N
         /\ s.header \in Nat /\ s.nth \in Nat
         /\ Meant(messages[s.of], s)
BY DEF Sent

(* A run of stops: the token's own, and the one behind the headers.        *)
LEMMA StopRun ==
  ASSUME Streaming, pos < limit, stream[pos + 1].token = "stop", GoOn
  PROVE  /\ pos' = PieceEnd /\ pos' \in {pos + 1, pos + 2}
         /\ pos' = pos + 2 => EndsHeaders(stream[pos']) /\ stream[pos + 1].part # "headers"
<1>1. /\ PieceEnd \in pos + 1..limit
      /\ \A i \in pos + 1..PieceEnd : stream[i].token = "stop"
      /\ PieceEnd = limit \/ stream[PieceEnd + 1].token # "stop"
  BY PieceEnds DEF Streaming
<1>2. pos' = PieceEnd
  BY <1>1 DEF GoOn
<1>3. PICK e : e = PieceEnd
  OBVIOUS
<1>4. /\ pos \in Nat /\ limit \in Nat /\ Len(stream) \in Nat /\ limit <= Len(stream)
      /\ \A i \in 1..Len(stream) : stream[i] \in Sent
      /\ \A i \in 1..Len(stream) - 1 : Link(stream[i], stream[i + 1])
  BY Symbols2
<1>5. ASSUME NEW i \in pos + 2..e
      PROVE  stream[i].part = "headers" /\ stream[i - 1].part # "headers"
  <2>1. i - 1 \in 1..Len(stream) - 1 /\ (i - 1) + 1 = i /\ i - 1 \in pos + 1..PieceEnd
        /\ i \in pos + 1..PieceEnd /\ i \in 1..Len(stream)
    BY <1>1, <1>3, <1>4
  <2>2. Link(stream[i - 1], stream[i]) /\ stream[i] \in Sent
        /\ stream[i - 1].token = "stop" /\ stream[i].token = "stop"
    BY <1>1, <1>4, <2>1
  <2>3. Links(messages[stream[i - 1].of], stream[i - 1], stream[i])
    BY <2>2 DEF Link
  <2>4. stream[i].part \in Stopped
    BY <2>2, SentTyped DEF Meant
  <2>5. stream[i].part = "headers"
    BY <2>2, <2>3, <2>4 DEF Links, Stopped
  <2>6. EndsFields(messages[stream[i - 1].of], stream[i - 1])
    BY <2>2, <2>3, <2>5 DEF Links, EndsHeaders
  <2> QED BY <2>5, <2>6 DEF EndsFields
<1>6. e < pos + 3
  <2>1. SUFFICES ASSUME ~(e < pos + 3) PROVE FALSE
    OBVIOUS
  <2>2. pos + 2 \in pos + 2..e /\ pos + 3 \in pos + 2..e /\ (pos + 3) - 1 = pos + 2
    BY <1>1, <1>3, <1>4, <2>1
  <2> QED BY <1>5, <2>2
<1>7. e \in {pos + 1, pos + 2}
  BY <1>1, <1>3, <1>4, <1>6
<1>8. ASSUME e = pos + 2
      PROVE  EndsHeaders(stream[e]) /\ stream[pos + 1].part # "headers"
  <2>1. pos + 2 \in pos + 2..e /\ (pos + 2) - 1 = pos + 1 /\ e \in pos + 1..PieceEnd
    BY <1>3, <1>4, <1>8
  <2> QED BY <1>1, <1>5, <1>8, <2>1 DEF EndsHeaders
<1> QED BY <1>2, <1>3, <1>7, <1>8

(* The symbols of a piece are consecutive parts of one text.               *)
LEMMA Runs ==
  ASSUME Streaming, pos < limit, NEW token \in {"query", "name", "value", "body"},
         stream[pos + 1].token = token, NEW x \in 1..PieceEnd - pos
  PROVE  /\ stream[pos + x] \in Sent /\ stream[pos + x].token = token
         /\ stream[pos + x].of = stream[pos + 1].of
         /\ stream[pos + x].header = stream[pos + 1].header
         /\ stream[pos + x].nth = stream[pos + 1].nth + x - 1
<1>1. /\ pos \in Nat /\ limit \in Nat /\ Len(stream) \in Nat /\ limit <= Len(stream)
      /\ \A i \in 1..Len(stream) : stream[i] \in Sent
      /\ \A i \in 1..Len(stream) - 1 : Link(stream[i], stream[i + 1])
  BY Symbols2
<1>2. /\ PieceEnd \in pos + 1..limit
      /\ \A i \in pos + 1..PieceEnd : stream[i].token = token
  BY PieceEnds DEF Streaming
<1>3. PICK n : n = PieceEnd - pos
  OBVIOUS
<1>4. PICK first : first = stream[pos + 1]
  OBVIOUS
<1> DEFINE Same(i) == /\ stream[pos + i].of = first.of
                      /\ stream[pos + i].header = first.header
                      /\ stream[pos + i].nth = first.nth + i - 1
           P == {i \in 1..n : Same(i)}
<1>5. \A i : i \in P <=> i \in 1..n /\ Same(i)
  OBVIOUS
<1> HIDE DEF P
<1>6. n \in Nat \ {0} /\ \A i \in 1..n : pos + i \in 1..Len(stream) /\ pos + i \in pos + 1..PieceEnd
  BY <1>1, <1>2, <1>3
<1>7. first \in Sent /\ first.nth \in Nat
  <2>1. 1 \in 1..n
    BY <1>6
  <2>2. first \in Sent
    BY <1>1, <1>4, <1>6, <2>1
  <2> QED BY <2>2, SentTyped
<1>8. 1 \in P
  BY <1>4, <1>5, <1>6, <1>7
<1>9. ASSUME NEW i \in 1..n, i + 1 \in 1..n, i \in P
      PROVE  i + 1 \in P
  <2>1. PICK s : s = stream[pos + i]
    OBVIOUS
  <2>2. PICK t : t = stream[pos + (i + 1)]
    OBVIOUS
  <2>3. s.token = token /\ t.token = token
    BY <1>2, <1>6, <1>9, <2>1, <2>2
  <2>4. Link(s, t)
    <3>1. pos + i \in 1..Len(stream) /\ pos + (i + 1) \in 1..Len(stream)
      BY <1>6, <1>9
    <3>2. pos + i \in 1..Len(stream) - 1 /\ pos + (i + 1) = (pos + i) + 1
      <4>1. pos \in Nat /\ Len(stream) \in Nat /\ i \in Nat
        BY <1>1, <1>6
      <4> QED BY <3>1, <4>1
    <3> QED BY <1>1, <2>1, <2>2, <3>2
  <2>5. t.of = s.of /\ Links(messages[s.of], s, t)
    BY <2>3, <2>4 DEF Link
  <2>6. Within(s, t)
    BY <2>3, <2>5 DEF Links, EndsFields, EndsHeaders
  <2>7. t.header = s.header /\ t.nth = s.nth + 1
    BY <2>6 DEF Within
  <2>8. s.of = first.of /\ s.header = first.header /\ s.nth = first.nth + i - 1
    BY <1>5, <1>9, <2>1
  <2>9. t.nth = first.nth + (i + 1) - 1
    BY <1>7, <2>7, <2>8
  <2> QED BY <1>5, <1>9, <2>2, <2>5, <2>7, <2>8, <2>9
<1>10. 1..n \subseteq P
  BY <1>6, <1>8, <1>9, UpTo
<1>11. x \in P
  BY <1>3, <1>10
<1> QED BY <1>1, <1>2, <1>3, <1>4, <1>5, <1>6, <1>11

(* What the parts of a piece are, whatever the token.                      *)
LEMMA PieceParts ==
  ASSUME Streaming, pos < limit, NEW token, stream[pos + 1].token # "stop"
  PROVE  /\ PieceEnd - pos \in Nat \ {0}
         /\ Piece(token) = [x \in 1..PieceEnd - pos |-> stream[pos + x].part]
<1>1. /\ pos \in Nat /\ limit \in Nat /\ Len(stream) \in Nat /\ limit <= Len(stream)
  BY Symbols2
<1>2. PieceEnd \in pos + 1..limit
  BY PieceEnds DEF Streaming
<1>3. PICK e : e = PieceEnd
  OBVIOUS
<1> DEFINE sub == SubSeq(stream, pos + 1, e)
<1>4. Piece(token) = Mapped(sub, LAMBDA s : s.part)
  BY <1>3 DEF Piece
<1>5. sub = [x \in 1..e - pos |-> stream[pos + x]]
  BY <1>1, <1>2, <1>3 DEF sub
<1> HIDE DEF sub
<1>6. Piece(token) = [x \in 1..e - pos |-> stream[pos + x].part]
  BY <1>4, <1>5 DEF Mapped
<1>7. PieceEnd - pos \in Nat \ {0}
  BY <1>1, <1>2
<1> QED BY <1>3, <1>6, <1>7

LEMMA PieceOfText ==
  ASSUME Streaming, pos < limit, NEW token \in {"query", "name", "value", "body"},
         stream[pos + 1].token = token
  PROVE  LET first == stream[pos + 1]
             last == stream[PieceEnd]
             text == TextOf(messages[first.of], token, first.header)
         IN  /\ first \in Sent /\ last \in Sent /\ last.token = token
             /\ last.of = first.of /\ last.header = first.header
             /\ text \in Seq(Parts)
             /\ 1 <= first.nth /\ first.nth <= last.nth /\ last.nth <= Len(text)
             /\ Piece(token) = SubSeq(text, first.nth, last.nth)
<1>1. /\ pos \in Nat /\ limit \in Nat /\ Len(stream) \in Nat /\ limit <= Len(stream)
      /\ messages \in [1..N -> MessageKinds]
  BY Symbols2
<1>2. PieceEnd \in pos + 1..limit
  BY PieceEnds DEF Streaming
<1>3. PICK n : n = PieceEnd - pos
  OBVIOUS
<1>4. PICK first : first = stream[pos + 1]
  OBVIOUS
<1>5. PICK last : last = stream[PieceEnd]
  OBVIOUS
<1>6. n \in Nat \ {0} /\ pos + n = PieceEnd /\ 1 \in 1..n /\ n \in 1..n
  BY <1>1, <1>2, <1>3
<1>7. ASSUME NEW x \in 1..n
      PROVE  /\ stream[pos + x] \in Sent /\ stream[pos + x].token = token
             /\ stream[pos + x].of = first.of /\ stream[pos + x].header = first.header
             /\ stream[pos + x].nth = first.nth + x - 1
  BY <1>3, <1>4, Runs
<1>8. /\ first \in Sent /\ last \in Sent /\ first.token = token /\ last.token = token
      /\ last.of = first.of /\ last.header = first.header
      /\ last.nth = first.nth + n - 1
  BY <1>4, <1>5, <1>6, <1>7
<1>9. PICK m : m = first.of
  OBVIOUS
<1>10. PICK h : h = first.header
  OBVIOUS
<1>11. PICK text : text = TextOf(messages[m], token, h)
  OBVIOUS
<1>12. ASSUME NEW x \in 1..n
       PROVE  /\ stream[pos + x].nth \in 1..Len(text)
              /\ stream[pos + x].part = text[stream[pos + x].nth]
  <2>1. PICK s : s = stream[pos + x]
    OBVIOUS
  <2>2. s \in Sent /\ s.token = token /\ s.of = m /\ s.header = h
    BY <1>7, <1>9, <1>10, <2>1
  <2>3. Meant(messages[m], s)
    BY <2>2, SentTyped
  <2>4. s.nth \in 1..Len(TextOf(messages[m], token, h))
        /\ s.part = TextOf(messages[m], token, h)[s.nth]
    BY <2>2, <2>3 DEF Meant
  <2> QED BY <1>11, <2>1, <2>4
<1>13. text \in Seq(Parts)
  <2>1. m \in 1..N /\ h \in Nat
    BY <1>8, <1>9, <1>10, SentTyped
  <2>2. Meant(messages[m], first)
    BY <1>8, <1>9, SentTyped
  <2>3. token \in {"name", "value"} => h \in 1..Len(messages[m].headers)
    <3>1. Len(messages[m].headers) \in Nat
      BY <1>1, <2>1, Kind
    <3>2. h <= Len(messages[m].headers) /\ (token \in {"name", "value"} => h > 0)
      BY <1>8, <1>10, <2>2 DEF Meant, Place
    <3> QED BY <2>1, <3>1, <3>2
  <2> QED BY <1>1, <1>11, <2>1, <2>3, TextTyped
<1>14. first.nth \in Nat /\ Len(text) \in Nat
  BY <1>8, <1>13, SentTyped
<1>15. 1 <= first.nth /\ first.nth <= last.nth /\ last.nth <= Len(text)
  <2>1. first.nth \in 1..Len(text) /\ last.nth \in 1..Len(text)
    BY <1>3, <1>4, <1>5, <1>6, <1>12
  <2> QED BY <1>6, <1>8, <1>14, <2>1
<1>16. Piece(token) = SubSeq(text, first.nth, last.nth)
  <2>1. Piece(token) = [x \in 1..n |-> stream[pos + x].part]
    <3>1. stream[pos + 1].token # "stop"
      OBVIOUS
    <3> QED BY <1>3, <3>1, PieceParts
  <2>2. PICK a : a = first.nth
    OBVIOUS
  <2>3. PICK b : b = last.nth
    OBVIOUS
  <2>4. a \in Nat /\ b \in Nat /\ b - a + 1 = n /\ b = a + n - 1
    BY <1>6, <1>8, <1>14, <2>2, <2>3
  <2>5. SubSeq(text, a, b) = [x \in 1..n |-> text[a + x - 1]]
    BY <2>4
  <2>6. \A x \in 1..n : stream[pos + x].part = text[a + x - 1]
    BY <1>7, <1>12, <2>2
  <2> QED BY <2>1, <2>2, <2>3, <2>5, <2>6
<1> QED BY <1>4, <1>5, <1>8, <1>9, <1>10, <1>11, <1>13, <1>15, <1>16

(* The bytes a callback is for, in the text they belong to: they go on     *)
(* behind the symbol parsed last, and end at a symbol of the token or at   *)
(* its delimiter, which the one of the headers may follow at once.         *)
Begins(k, s, token, h) ==
  CASE token = "query" -> s.token = "stop" /\ s.part = "path"
    [] token = "name" -> EndsFields(k, s) /\ h = s.header + 1
    [] token = "value" -> s.token = "stop" /\ s.part = "name" /\ s.header = h
    [] token = "body" -> EndsHeaders(s)

From(k, s, token, h, a) ==
  IF s.token = token THEN s.header = h /\ s.nth = a ELSE a = 0 /\ Begins(k, s, token, h)

Reaches(q) == q = pos' \/ (pos' = q + 1 /\ EndsHeaders(stream[pos']))

Says(k, token, a, q) ==
  LET u == stream[q]
      text == TextOf(k, token, u.header)
  IN  /\ u.token \in {token, "stop"} /\ Place(u) = token /\ u.of = stream[pos + 1].of
      /\ text \in Seq(Parts) /\ a <= u.nth /\ u.nth <= Len(text)
      /\ From(k, stream[pos], token, u.header, a)
      /\ Piece(token) = SubSeq(text, a + 1, u.nth)
      /\ Reaches(q)

LEMMA NotFirst ==
  ASSUME Streaming, pos < limit, stream[pos + 1].token # "begin"
  PROVE  /\ pos \in 1..Len(stream) - 1 /\ stream[pos] \in Sent /\ stream[pos + 1] \in Sent
         /\ Link(stream[pos], stream[pos + 1])
<1>1. /\ pos \in Nat /\ limit \in Nat /\ Len(stream) \in Nat /\ limit <= Len(stream)
      /\ \A i \in 1..Len(stream) : stream[i] \in Sent
      /\ \A i \in 1..Len(stream) - 1 : Link(stream[i], stream[i + 1])
  BY Symbols2
<1>2. pos # 0
  BY DEF Streaming, Stream
<1> QED BY <1>1, <1>2

LEMMA PieceSaid ==
  ASSUME Streaming, NEW token \in {"query", "name", "value", "body"}, Due(token), GoOn
  PROVE  /\ pos \in 1..Len(stream) - 1 /\ stream[pos].of = stream[pos + 1].of
         /\ stream[pos] \in Sent /\ stream[pos].token # "complete"
         /\ \E q \in pos + 1..pos', a \in Nat : Says(messages[stream[pos + 1].of], token, a, q)
<1>1. /\ pos \in Nat /\ limit \in Nat /\ Len(stream) \in Nat /\ limit <= Len(stream)
      /\ messages \in [1..N -> MessageKinds]
      /\ \A i \in 1..Len(stream) : stream[i] \in Sent
      /\ \A i \in 1..Len(stream) - 1 : Link(stream[i], stream[i + 1])
  BY Symbols2
<1>2. PICK s : s = stream[pos]
  OBVIOUS
<1>3. PICK first : first = stream[pos + 1]
  OBVIOUS
<1>4. PICK k : k = messages[first.of]
  OBVIOUS
<1>5. pos < limit /\ (first.token = token \/ (first.token = "stop" /\ first.part = token))
  BY <1>3 DEF Due
<1>6. first.token # "begin" /\ first.token # "complete"
  BY <1>5
<1>7. /\ pos \in 1..Len(stream) - 1 /\ s \in Sent /\ first \in Sent
      /\ Link(s, first)
  BY <1>2, <1>3, <1>5, <1>6, NotFirst
<1>8. s.token # "complete" /\ first.of = s.of /\ Links(k, s, first)
  BY <1>4, <1>6, <1>7 DEF Link
<1>9. s.nth \in Nat /\ s.header \in Nat /\ first.nth \in Nat /\ first.header \in Nat
      /\ first.of \in 1..N /\ Meant(k, first)
  BY <1>4, <1>7, SentTyped
<1>10. CASE first.token = token
  <2>1. PICK last : last = stream[PieceEnd]
    OBVIOUS
  <2>2. PICK h : h = first.header
    OBVIOUS
  <2>3. PICK text : text = TextOf(k, token, h)
    OBVIOUS
  <2>4. /\ last \in Sent /\ last.token = token
        /\ last.of = first.of /\ last.header = h
        /\ text \in Seq(Parts)
        /\ 1 <= first.nth /\ first.nth <= last.nth /\ last.nth <= Len(text)
        /\ Piece(token) = SubSeq(text, first.nth, last.nth)
    BY <1>3, <1>4, <1>5, <1>10, <2>1, <2>2, <2>3, PieceOfText
  <2>5. PICK a : a = first.nth - 1
    OBVIOUS
  <2>6. a \in Nat /\ a + 1 = first.nth /\ last.nth \in Nat /\ a <= last.nth
    <3>1. last.nth \in Nat
      BY <2>4, SentTyped
    <3> QED BY <1>9, <2>4, <2>5, <3>1
  <2>7. From(k, s, token, h, a)
    <3>1. Within(s, first) => s.token = token /\ s.header = h /\ s.nth = a
      BY <1>9, <1>10, <2>2, <2>5 DEF Within
    <3>2. \/ Within(s, first)
          \/ first.nth = 1 /\ Begins(k, s, token, h) /\ s.token # token
      BY <1>8, <1>10, <2>2 DEF Links, Begins, EndsFields, EndsHeaders
    <3>3. first.nth = 1 => a = 0
      BY <2>5
    <3> QED BY <3>1, <3>2, <3>3 DEF From
  <2>8. PICK e : e = PieceEnd
    OBVIOUS
  <2>9. e \in pos + 1..limit /\ last = stream[e]
    BY <1>5, <2>1, <2>8, PieceEnds DEF Streaming
  <2>10. CASE e < limit /\ stream[e + 1].token = "stop"
    <3>1. pos' = e + 1 /\ pos' \in pos + 1..pos'
      BY <1>1, <2>8, <2>9, <2>10 DEF GoOn
    <3>2. PICK u : u = stream[pos']
      OBVIOUS
    <3>3. Link(last, u) /\ u \in Sent /\ u.token = "stop"
      <4>1. e \in 1..Len(stream) - 1 /\ e + 1 \in 1..Len(stream)
        BY <1>1, <2>9, <2>10
      <4> QED BY <1>1, <2>9, <2>10, <3>1, <3>2, <4>1
    <3>4. last.token # "complete" /\ last.token # "stop"
      BY <2>4
    <3>5. u.of = first.of /\ Links(k, last, u)
      BY <1>4, <2>4, <3>3, <3>4 DEF Link
    <3>6. u.part # "headers"
      BY <3>3, <3>4, <3>5 DEF Links, EndsHeaders, EndsFields
    <3>7. u.part = token /\ u.header = h /\ u.nth = last.nth
      BY <2>4, <3>3, <3>5, <3>6 DEF Links
    <3>8. /\ u.token \in {token, "stop"} /\ Place(u) = token /\ u.of = first.of
      BY <3>3, <3>5, <3>7 DEF Place
    <3>9. Reaches(pos')
      BY DEF Reaches
    <3>10. Says(k, token, a, pos')
      BY <1>2, <1>3, <2>3, <2>4, <2>6, <2>7, <3>2, <3>7, <3>8, <3>9 DEF Says
    <3> QED BY <1>2, <1>3, <1>4, <1>7, <1>8, <2>6, <3>1, <3>10
  <2>11. CASE ~(e < limit /\ stream[e + 1].token = "stop")
    <3>1. pos' = e /\ pos' \in pos + 1..pos'
      BY <1>1, <2>8, <2>9, <2>11 DEF GoOn
    <3>2. Place(last) = token
      BY <2>4 DEF Place
    <3>3. Reaches(pos')
      BY DEF Reaches
    <3>4. Says(k, token, a, pos')
      BY <1>2, <1>3, <2>3, <2>4, <2>6, <2>7, <2>9, <3>1, <3>2, <3>3 DEF Says
    <3> QED BY <1>2, <1>3, <1>4, <1>7, <1>8, <2>6, <3>1, <3>4
  <2> QED BY <2>10, <2>11
<1>11. CASE first.token = "stop" /\ first.part = token
  <2>1. token # "headers" /\ token # "body"
    BY <1>9, <1>11 DEF Meant, Stopped
  <2>2. PICK h : h = first.header
    OBVIOUS
  <2>3. PICK text : text = TextOf(k, token, h)
    OBVIOUS
  <2>4. PICK a : a = first.nth
    OBVIOUS
  <2>5. s.token = token /\ s.header = h /\ s.nth = a
    BY <1>8, <1>11, <2>1, <2>2, <2>4 DEF Links
  <2>6. From(k, s, token, h, a)
    BY <2>5 DEF From
  <2>7. text \in Seq(Parts)
    <3>1. token \in {"name", "value"} => h \in 1..Len(k.headers)
      <4>1. Len(k.headers) \in Nat
        BY <1>1, <1>4, <1>9, Kind
      <4>2. h <= Len(k.headers) /\ (token \in {"name", "value"} => h > 0)
        BY <1>9, <1>11, <2>2 DEF Meant, Place
      <4> QED BY <1>9, <2>2, <4>1, <4>2
    <3> QED BY <1>1, <1>4, <1>9, <2>3, <3>1, TextTyped
  <2>8. a = Len(text) /\ a \in Nat
    BY <1>9, <1>11, <2>1, <2>2, <2>3, <2>4 DEF Meant
  <2>9. Piece(token) = SubSeq(text, a + 1, first.nth)
    <3>1. Piece(token) = <<>>
      BY <1>3, <1>11 DEF Piece
    <3>2. SubSeq(text, a + 1, a) = <<>>
      BY <2>8, SubSeqEmpty
    <3> QED BY <2>4, <3>1, <3>2
  <2>10. Place(first) = token
    BY <1>11 DEF Place
  <2>11. pos' \in {pos + 1, pos + 2} /\ (pos' = pos + 2 => EndsHeaders(stream[pos']))
    BY <1>3, <1>5, <1>11, StopRun
  <2>12. Reaches(pos + 1) /\ pos + 1 \in pos + 1..pos'
    BY <1>1, <2>11 DEF Reaches
  <2>13. Says(k, token, a, pos + 1)
    <3>1. /\ first.token \in {token, "stop"} /\ Place(first) = token /\ first.of = stream[pos + 1].of
          /\ TextOf(k, token, first.header) \in Seq(Parts)
          /\ From(k, stream[pos], token, first.header, a)
      BY <1>2, <1>3, <1>11, <2>2, <2>3, <2>6, <2>7, <2>10
    <3>2. TextOf(k, token, first.header) = text
      BY <2>2, <2>3
    <3>3. a <= a
      BY <2>8
    <3>4. /\ a <= first.nth /\ first.nth <= Len(TextOf(k, token, first.header))
          /\ Piece(token) = SubSeq(TextOf(k, token, first.header), a + 1, first.nth)
      BY <2>4, <2>8, <2>9, <3>2, <3>3, Zenon
    <3> QED BY <1>3, <2>12, <3>1, <3>4, Zenon DEF Says
  <2> QED BY <1>2, <1>3, <1>4, <1>7, <1>8, <2>8, <2>12, <2>13
<1> QED BY <1>5, <1>10, <1>11

-----------------------------------------------------------------------------
(* Keys. *)

Known(k) ==
  /\ k.path \in Seq({"c", "esc", "bad"}) /\ k.path # <<>>
  /\ k.query \in Seq(Parts) /\ k.body \in Seq(Parts)
  /\ Len(k.headers) \in Nat /\ DOMAIN k.headers = 1..Len(k.headers)
  /\ \A i \in 1..Len(k.headers) :
       k.headers[i].name \in Seq(Parts) /\ k.headers[i].value \in Seq(Parts)

LEMMA KindKnown ==
  ASSUME messages \in [1..N -> MessageKinds], NEW m \in 1..N
  PROVE  Known(messages[m])
<1>1. PICK k : k = messages[m]
  OBVIOUS
<1>2. /\ k.path \in Seq({"c", "esc", "bad"}) /\ k.path # <<>>
      /\ k.query \in Seq(Parts) /\ k.body \in Seq(Parts)
      /\ k.headers \in Seq([name : Text \ {<<>>}, value : Text \ {<<>>}])
      /\ Len(k.headers) \in Nat
      /\ \A i \in 1..Len(k.headers) :
           k.headers[i].name \in Seq(Parts) /\ k.headers[i].value \in Seq(Parts)
  BY <1>1, Kind
<1>3. DOMAIN k.headers = 1..Len(k.headers)
  BY <1>2, LenProperties
<1> QED BY <1>1, <1>2, <1>3 DEF Known

Others == {PATH_INFO, QUERY_STRING, wsgi_input, SERVER_PROTOCOL}

LEMMA OthersDiffer ==
  /\ PATH_INFO # QUERY_STRING /\ PATH_INFO # wsgi_input /\ PATH_INFO # SERVER_PROTOCOL
  /\ QUERY_STRING # wsgi_input /\ QUERY_STRING # SERVER_PROTOCOL
  /\ wsgi_input # SERVER_PROTOCOL
BY DEF PATH_INFO, QUERY_STRING, wsgi_input, SERVER_PROTOCOL

(* A key starts with HTTP_, so it is none of the environ's others.         *)
LEMMA RawKeys ==
  ASSUME NEW h, h.name \in Seq(Parts)
  PROVE  /\ RawKey(h) \notin Others
         /\ Len(RawKey(h)) = 1 + Len(h.name) /\ RawKey(h)[1] = "HTTP_"
         /\ \A i \in 1..Len(h.name) : RawKey(h)[i + 1] = Dashes(h.name[i])
         /\ \E S : RawKey(h) \in Seq(S)
<1> DEFINE T == {Dashes(x) : x \in Parts} \cup {"HTTP_"}
           name == Mapped(h.name, Dashes)
<1>1. /\ name \in Seq({Dashes(x) : x \in Parts})
  BY DashedPiece
<1>2. Len(name) = Len(h.name) /\ \A i \in 1..Len(h.name) : name[i] = Dashes(h.name[i])
  <2>1. name = [i \in 1..Len(h.name) |-> Dashes(h.name[i])] /\ Len(h.name) \in Nat
    BY DEF Mapped
  <2> QED BY <2>1
<1> HIDE DEF name
<1>3. PICK D : D = {Dashes(x) : x \in Parts}
  OBVIOUS
<1>4. PICK E : E = D \cup {"HTTP_"}
  OBVIOUS
<1>5. name \in Seq(E) /\ <<"HTTP_">> \in Seq(E) /\ Len(name) \in Nat
  BY <1>1, <1>3, <1>4
<1>6. PICK u : u = <<"HTTP_">> \o name
  OBVIOUS
<1>7. /\ u \in Seq(E) /\ Len(u) = 1 + Len(name) /\ u[1] = "HTTP_"
      /\ \A i \in 1..Len(name) : u[i + 1] = name[i]
  BY <1>5, <1>6
<1>8. RawKey(h) = u
  BY <1>6 DEF RawKey, name
<1>9. u \notin Others
  <2>1. PATH_INFO[1] # "HTTP_" /\ QUERY_STRING[1] # "HTTP_" /\ wsgi_input[1] # "HTTP_"
        /\ SERVER_PROTOCOL[1] # "HTTP_"
    BY DEF PATH_INFO, QUERY_STRING, wsgi_input, SERVER_PROTOCOL
  <2> QED BY <1>7, <2>1, Zenon DEF Others
<1> QED BY <1>2, <1>7, <1>8, <1>9

LEMMA Values ==
  ASSUME NEW k, NEW s
  PROVE  /\ ValueOf(k, s, PATH_INFO) = Upto(s, "path", k.path)
         /\ ValueOf(k, s, QUERY_STRING) = Upto(s, "query", k.query)
         /\ ValueOf(k, s, wsgi_input) = Upto(s, "body", k.body)
         /\ \A key : key \notin Others => ValueOf(k, s, key) = Under(k, s, key)
<1>1. ValueOf(k, s, PATH_INFO) = Upto(s, "path", k.path)
  BY OthersDiffer, Zenon DEF ValueOf
<1>2. ValueOf(k, s, QUERY_STRING) = Upto(s, "query", k.query)
  BY OthersDiffer, Zenon DEF ValueOf
<1>3. ValueOf(k, s, wsgi_input) = Upto(s, "body", k.body)
  BY OthersDiffer, Zenon DEF ValueOf
<1>4. ASSUME NEW key, key \notin Others
      PROVE  ValueOf(k, s, key) = Under(k, s, key)
  <2>1. key # PATH_INFO /\ key # QUERY_STRING /\ key # wsgi_input
    BY <1>4, Zenon DEF Others
  <2> QED BY <2>1, Zenon DEF ValueOf
<1> QED BY <1>1, <1>2, <1>3, <1>4

(* What Set_or_append_header makes of the environ.                         *)
Added(env, key, val) ==
  [j \in DOMAIN env \cup {key} |->
     IF j # key THEN env[j]
     ELSE IF key \in DOMAIN env THEN env[key] \o val ELSE val]

Adds(k, s, u, key, piece) ==
  /\ s.token # "complete" /\ u.token # "complete"
  /\ Keys(k, u) = Keys(k, s) \cup {key}
  /\ \A j \in Keys(k, s) : j # key => ValueOf(k, u, j) = ValueOf(k, s, j)
  /\ key \in Keys(k, s) => ValueOf(k, u, key) = Join(ValueOf(k, s, key), piece)
  /\ key \notin Keys(k, s) => ValueOf(k, u, key) = piece

LEMMA Appended ==
  ASSUME NEW k, NEW s, NEW u, NEW key, NEW piece, Adds(k, s, u, key, piece)
  PROVE  SoFar(k, u) = Added(SoFar(k, s), key, piece)
<1>1. PICK K : K = Keys(k, s)
  OBVIOUS
<1>2. PICK env : env = [j \in K |-> ValueOf(k, s, j)]
  OBVIOUS
<1>3. SoFar(k, s) = env
  BY <1>1, <1>2, Zenon DEF SoFar, Adds
<1>4. SoFar(k, u) = [j \in K \cup {key} |-> ValueOf(k, u, j)]
  BY <1>1, Zenon DEF SoFar, Adds
<1>5. DOMAIN env = K /\ \A j \in K : env[j] = ValueOf(k, s, j)
  BY <1>2
<1>6. ASSUME NEW j \in K \cup {key}
      PROVE  ValueOf(k, u, j) = IF j # key THEN env[j]
                                ELSE IF key \in K THEN env[key] \o piece ELSE piece
  BY <1>1, <1>5, Zenon DEF Join, Adds
<1> QED BY <1>3, <1>4, <1>5, <1>6 DEF Added

LEMMA Unchanged ==
  ASSUME NEW k, NEW s, NEW u, s.token # "complete", u.token # "complete",
         Keys(k, u) = Keys(k, s),
         \A j \in Keys(k, s) : ValueOf(k, u, j) = ValueOf(k, s, j)
  PROVE  SoFar(k, u) = SoFar(k, s)
BY DEF SoFar

-----------------------------------------------------------------------------
(* What has been said, from symbol to symbol. *)

(* What a symbol that is sent says of its place in the message.            *)
Spot(k, s) ==
  /\ s.header \in Nat /\ s.nth \in Nat /\ s.header <= Len(k.headers)
  /\ (s.token = "begin" <=> Place(s) = "begin") /\ (s.token = "complete" <=> Place(s) = "complete")
  /\ Place(s) \in {"path", "query", "name", "value", "body"} =>
       s.nth <= Len(TextOf(k, Place(s), s.header))
  /\ s.token = "stop" /\ s.part # "headers" => s.nth = Len(TextOf(k, s.part, s.header))
  /\ Place(s) \in {"begin", "path", "query"} => s.header = 0
  /\ Place(s) = "query" => k.query # <<>>
  /\ Place(s) \in {"name", "value"} => s.header > 0
  /\ Place(s) \in {"headers", "garbage", "body", "complete"} => s.header = Len(k.headers)

LEMMA SentSpot ==
  ASSUME messages \in [1..N -> MessageKinds], NEW s \in Sent
  PROVE  Spot(messages[s.of], s) /\ Known(messages[s.of])
<1>1. PICK k : k = messages[s.of]
  OBVIOUS
<1>2. Known(k) /\ Meant(k, s) /\ s.header \in Nat /\ s.nth \in Nat /\ s.token \in SentTokens
  BY <1>1, SentTyped, KindKnown
<1>3. s.token = "stop" => s.part \in Stopped
  BY <1>2 DEF Meant
<1>4. (s.token = "begin" <=> Place(s) = "begin") /\ (s.token = "complete" <=> Place(s) = "complete")
  BY <1>3 DEF Place, Stopped
<1>5. s.token = "stop" /\ s.part # "headers" => s.nth = Len(TextOf(k, s.part, s.header))
  BY <1>2 DEF Meant
<1>6. ASSUME Place(s) \in {"path", "query", "name", "value", "body"}
      PROVE  s.nth <= Len(TextOf(k, Place(s), s.header))
  <2>1. CASE s.token = "stop"
    <3>1. s.nth = Len(TextOf(k, Place(s), s.header))
      BY <1>5, <1>6, <2>1 DEF Place
    <3> QED BY <1>2, <3>1
  <2>2. CASE s.token # "stop"
    <3>1. s.nth \in 1..Len(TextOf(k, Place(s), s.header))
      BY <1>2, <1>6, <2>2 DEF Place, Meant
    <3> QED BY <3>1
  <2> QED BY <2>1, <2>2
<1>7. /\ Place(s) \in {"begin", "path", "query"} => s.header = 0
      /\ Place(s) = "query" => k.query # <<>>
      /\ Place(s) \in {"name", "value"} => s.header > 0
      /\ Place(s) \in {"headers", "garbage", "body", "complete"} => s.header = Len(k.headers)
      /\ s.header <= Len(k.headers)
  BY <1>2 DEF Meant
<1> QED BY <1>1, <1>2, <1>4, <1>5, <1>6, <1>7 DEF Spot

LEMMA SaidTyped ==
  ASSUME NEW k, Known(k), NEW s, Spot(k, s), NEW key
  PROVE  /\ SaidAs(k, s, key) \in Seq(Seq(Parts)) /\ Len(SaidAs(k, s, key)) = Len(k.headers)
         /\ \A i \in 1..Len(k.headers) :
              /\ SaidAs(k, s, key)[i] = IF RawKey(k.headers[i]) = key THEN Said(k, s, i) ELSE <<>>
              /\ Said(k, s, i) \in Seq(Parts)
<1>1. PICK n : n = Len(k.headers)
  OBVIOUS
<1>2. n \in Nat /\ DOMAIN k.headers = 1..n /\ \A i \in 1..n : k.headers[i].value \in Seq(Parts)
  BY <1>1 DEF Known
<1>3. <<>> \in Seq(Parts)
  BY EmptySeq
<1>4. ASSUME NEW i \in 1..n
      PROVE  Said(k, s, i) \in Seq(Parts)
  <2>1. PICK t : t = k.headers[i].value
    OBVIOUS
  <2>2. t \in Seq(Parts)
    BY <1>2, <2>1
  <2>3. CASE i = s.header /\ Place(s) = "value"
    <3>1. s.nth <= Len(t) /\ s.nth \in Nat
      <4>1. s.nth \in Nat /\ s.nth <= Len(TextOf(k, "value", i))
        BY <2>3 DEF Spot
      <4> QED BY <2>1, <4>1 DEF TextOf
    <3>2. SubSeq(t, 1, s.nth) \in Seq(Parts)
      <4>1. 0 \in Nat /\ Len(t) \in Nat /\ s.nth <= Len(t) /\ Len(t) <= Len(t)
        BY <2>2, <3>1
      <4> QED BY <2>2, <3>1, <4>1, Cuts
    <3> QED BY <1>3, <2>1, <2>2, <2>3, <3>2, Zenon DEF Said
  <2>4. CASE ~(i = s.header /\ Place(s) = "value")
    BY <1>3, <2>1, <2>2, <2>4, Zenon DEF Said
  <2> QED BY <2>3, <2>4
<1>5. PICK f : f = SaidAs(k, s, key)
  OBVIOUS
<1>6. f = [i \in 1..n |-> IF RawKey(k.headers[i]) = key THEN Said(k, s, i) ELSE <<>>]
  BY <1>2, <1>5 DEF SaidAs
<1>7. PICK Q : Q = Seq(Parts)
  OBVIOUS
<1>8. \A i \in 1..n : (IF RawKey(k.headers[i]) = key THEN Said(k, s, i) ELSE <<>>) \in Q
  BY <1>3, <1>4, <1>7
<1>9. f \in [1..n -> Q]
  BY <1>6, <1>8, Zenon
<1>10. f \in Seq(Q) /\ Len(f) = n
  BY <1>2, <1>9
<1> QED BY <1>1, <1>4, <1>5, <1>6, <1>7, <1>10

(* Nothing of a header has been said between the symbols.                  *)
SameSaid(k, s, u) ==
  \A i \in DOMAIN k.headers :
    /\ Said(k, u, i) = Said(k, s, i)
    /\ Valid(k.headers[i]) => (Begun(u, i) <=> Begun(s, i))

LEMMA SameUnder ==
  ASSUME NEW k, NEW s, NEW u, SameSaid(k, s, u)
  PROVE  HeaderKeys(k, u) = HeaderKeys(k, s) /\ \A key : Under(k, u, key) = Under(k, s, key)
<1>1. HeaderKeys(k, u) = HeaderKeys(k, s)
  BY DEF SameSaid, HeaderKeys
<1>2. ASSUME NEW key
      PROVE  SaidAs(k, u, key) = SaidAs(k, s, key)
  BY DEF SameSaid, SaidAs
<1> QED BY <1>1, <1>2 DEF Under

(* Before the headers and behind them.                                     *)
LEMMA SameAround ==
  ASSUME NEW k, Known(k), NEW s, NEW u, Spot(k, s), Spot(k, u),
         \/ s.header = 0 /\ u.header = 0
         \/ /\ s.header = Len(k.headers) /\ u.header = Len(k.headers)
            /\ Place(s) # "name" /\ Place(u) # "name" /\ Place(u) # "value"
            /\ Place(s) = "value" => s.token = "stop"
  PROVE  SameSaid(k, s, u)
<1>1. PICK n : n = Len(k.headers)
  OBVIOUS
<1>2. n \in Nat /\ DOMAIN k.headers = 1..n /\ \A i \in 1..n : k.headers[i].value \in Seq(Parts)
  BY <1>1 DEF Known
<1>3. ASSUME NEW i \in 1..n
      PROVE  Said(k, u, i) = Said(k, s, i) /\ (Begun(u, i) <=> Begun(s, i))
  <2>1. CASE s.header = 0 /\ u.header = 0
    <3>1. ~Begun(s, i) /\ ~Begun(u, i)
      BY <1>2, <2>1 DEF Begun
    <3> QED BY <3>1 DEF Said
  <2>2. CASE /\ s.header = Len(k.headers) /\ u.header = Len(k.headers)
             /\ Place(s) # "name" /\ Place(u) # "name" /\ Place(u) # "value"
             /\ Place(s) = "value" => s.token = "stop"
    <3>1. Begun(s, i) /\ Begun(u, i)
      BY <1>1, <1>2, <2>2 DEF Begun
    <3>2. i = s.header /\ Place(s) = "value" => SubSeq(k.headers[i].value, 1, s.nth) = k.headers[i].value
      <4>1. SUFFICES ASSUME i = s.header, Place(s) = "value"
                     PROVE  SubSeq(k.headers[i].value, 1, s.nth) = k.headers[i].value
        OBVIOUS
      <4>2. s.token = "stop" /\ s.part = "value"
        BY <2>2, <4>1 DEF Place
      <4>3. s.nth = Len(k.headers[i].value)
        BY <4>1, <4>2 DEF Spot, TextOf
      <4> QED BY <1>2, <4>3, WholeText
    <3> QED BY <2>2, <3>1, <3>2, Zenon DEF Said
  <2> QED BY <2>1, <2>2
<1> QED BY <1>2, <1>3 DEF SameSaid

LEMMA HeaderKeysOther ==
  ASSUME NEW k, Known(k), NEW s
  PROVE  \A key \in HeaderKeys(k, s) : key \notin Others
<1>1. \A i \in DOMAIN k.headers : k.headers[i].name \in Seq(Parts)
  BY DEF Known
<1> QED BY <1>1, RawKeys DEF HeaderKeys

LEMMA CutOff ==
  ASSUME NEW S, NEW t \in Seq(S), NEW a \in Nat, NEW b \in Nat, a <= b, b <= Len(t)
  PROVE  /\ Join(SubSeq(t, 1, a), SubSeq(t, a + 1, b)) = SubSeq(t, 1, b)
         /\ a = 0 => SubSeq(t, a + 1, b) = SubSeq(t, 1, b)
<1>1. a = 0 => a + 1 = 1
  OBVIOUS
<1> QED BY <1>1, Cuts

LEMMA AppendQuery ==
  ASSUME NEW k, Known(k), NEW s, NEW u, Spot(k, s), Spot(k, u), Place(u) = "query",
         NEW a \in Nat, From(k, s, "query", u.header, a), a <= u.nth
  PROVE  SoFar(k, u) = Added(SoFar(k, s), QUERY_STRING, SubSeq(k.query, a + 1, u.nth))
<1>1. \/ s.token = "query" /\ s.nth = a /\ Place(s) = "query"
      \/ s.token = "stop" /\ s.part = "path" /\ a = 0 /\ Place(s) = "path"
  BY DEF From, Begins, Place
<1>2. s.header = 0 /\ u.header = 0 /\ k.query # <<>>
  BY <1>1 DEF Spot
<1>3. SameSaid(k, s, u)
  BY <1>2, SameAround
<1>4. HeaderKeys(k, u) = HeaderKeys(k, s) /\ \A key : Under(k, u, key) = Under(k, s, key)
  BY <1>3, SameUnder
<1>5. /\ s.token # "complete" /\ u.token # "complete" /\ s.token # "begin" /\ u.token # "begin"
  BY <1>1 DEF Spot
<1>6. Keys(k, u) = {PATH_INFO} \cup {QUERY_STRING} \cup HeaderKeys(k, s)
  BY <1>2, <1>4, <1>5 DEF Keys
<1>7. Keys(k, s) = {PATH_INFO} \cup (IF Place(s) = "path" THEN {} ELSE {QUERY_STRING}) \cup HeaderKeys(k, s)
  BY <1>1, <1>2, <1>5 DEF Keys
<1>8. Keys(k, u) = Keys(k, s) \cup {QUERY_STRING}
  BY <1>6, <1>7
<1>9. Upto(s, "path", k.path) = Upto(u, "path", k.path)
  <2>1. Upto(u, "path", k.path) = k.path
    BY DEF Upto
  <2>2. CASE Place(s) = "path"
    <3>1. s.nth = Len(k.path)
      BY <1>1, <2>2 DEF Spot, TextOf
    <3>2. SubSeq(k.path, 1, Len(k.path)) = k.path
      BY WholeText DEF Known
    <3> QED BY <2>1, <2>2, <3>1, <3>2 DEF Upto
  <2>3. CASE Place(s) # "path"
    BY <2>1, <2>3 DEF Upto
  <2> QED BY <2>2, <2>3
<1>10. ASSUME NEW j \in Keys(k, s), j # QUERY_STRING
       PROVE  ValueOf(k, u, j) = ValueOf(k, s, j)
  <2>1. CASE j = PATH_INFO
    BY <1>9, <2>1, Values
  <2>2. CASE j # PATH_INFO
    <3>1. j \in HeaderKeys(k, s)
      BY <1>7, <1>10, <2>2
    <3>2. j \notin Others
      BY <3>1, HeaderKeysOther
    <3> QED BY <1>4, <3>2, Values
  <2> QED BY <2>1, <2>2
<1>11. /\ k.query \in Seq(Parts) /\ u.nth \in Nat /\ u.nth <= Len(k.query)
  BY DEF Known, Spot, TextOf
<1>12. /\ Join(SubSeq(k.query, 1, a), SubSeq(k.query, a + 1, u.nth)) = SubSeq(k.query, 1, u.nth)
       /\ a = 0 => SubSeq(k.query, a + 1, u.nth) = SubSeq(k.query, 1, u.nth)
  BY <1>11, CutOff
<1>13. ValueOf(k, u, QUERY_STRING) = SubSeq(k.query, 1, u.nth)
  BY Values DEF Upto
<1>14. QUERY_STRING \in Keys(k, s) =>
         ValueOf(k, u, QUERY_STRING) = Join(ValueOf(k, s, QUERY_STRING), SubSeq(k.query, a + 1, u.nth))
  <2>1. QUERY_STRING \in Keys(k, s) => Place(s) = "query"
    <3>1. QUERY_STRING \notin HeaderKeys(k, s)
      BY HeaderKeysOther DEF Others
    <3> QED BY <1>1, <1>7, <3>1, OthersDiffer
  <2>2. Place(s) = "query" => ValueOf(k, s, QUERY_STRING) = SubSeq(k.query, 1, a)
    BY <1>1, Values DEF Upto
  <2> QED BY <1>12, <1>13, <2>1, <2>2
<1>15. QUERY_STRING \notin Keys(k, s) => ValueOf(k, u, QUERY_STRING) = SubSeq(k.query, a + 1, u.nth)
  BY <1>1, <1>7, <1>12, <1>13
<1>16. Adds(k, s, u, QUERY_STRING, SubSeq(k.query, a + 1, u.nth))
  BY <1>5, <1>8, <1>10, <1>14, <1>15, Zenon DEF Adds
<1> QED BY <1>16, Appended

LEMMA AppendPath ==
  ASSUME NEW k, Known(k), NEW s, NEW u, Spot(k, s), Spot(k, u), Place(u) = "path",
         NEW a \in Nat, a <= u.nth,
         \/ s.token = "begin" /\ a = 0
         \/ s.token = "path" /\ s.nth = a
  PROVE  SoFar(k, u) = Added(SoFar(k, s), PATH_INFO, SubSeq(k.path, a + 1, u.nth))
<1>1. Place(s) = s.token /\ (s.token = "begin" \/ s.token = "path")
  BY DEF Place
<1>2. s.header = 0 /\ u.header = 0
  BY <1>1 DEF Spot
<1>3. HeaderKeys(k, u) = {} /\ HeaderKeys(k, s) = {}
  <2>1. \A i \in DOMAIN k.headers : i \in Nat \ {0}
    BY DEF Known
  <2>2. \A i \in DOMAIN k.headers : ~Begun(s, i) /\ ~Begun(u, i)
    BY <1>2, <2>1 DEF Begun
  <2> QED BY <2>2 DEF HeaderKeys
<1>4. /\ s.token # "complete" /\ u.token # "complete" /\ u.token # "begin"
  BY <1>1 DEF Spot
<1>5. Keys(k, u) = {PATH_INFO}
  BY <1>3, <1>4 DEF Keys
<1>6. Keys(k, s) = IF s.token = "begin" THEN {} ELSE {PATH_INFO}
  BY <1>1, <1>3 DEF Keys
<1>7. /\ k.path \in Seq({"c", "esc", "bad"}) /\ u.nth \in Nat /\ u.nth <= Len(k.path)
  BY DEF Known, Spot, TextOf
<1>8. /\ Join(SubSeq(k.path, 1, a), SubSeq(k.path, a + 1, u.nth)) = SubSeq(k.path, 1, u.nth)
      /\ a = 0 => SubSeq(k.path, a + 1, u.nth) = SubSeq(k.path, 1, u.nth)
  BY <1>7, CutOff
<1>9. ValueOf(k, u, PATH_INFO) = SubSeq(k.path, 1, u.nth)
  BY Values DEF Upto
<1>10. PATH_INFO \in Keys(k, s) =>
         ValueOf(k, u, PATH_INFO) = Join(ValueOf(k, s, PATH_INFO), SubSeq(k.path, a + 1, u.nth))
  <2>1. PATH_INFO \in Keys(k, s) => Place(s) = "path" /\ s.nth = a
    BY <1>1, <1>6
  <2>2. Place(s) = "path" => ValueOf(k, s, PATH_INFO) = SubSeq(k.path, 1, s.nth)
    BY Values DEF Upto
  <2> QED BY <1>8, <1>9, <2>1, <2>2
<1>11. PATH_INFO \notin Keys(k, s) => ValueOf(k, u, PATH_INFO) = SubSeq(k.path, a + 1, u.nth)
  BY <1>1, <1>6, <1>8, <1>9
<1>12. Keys(k, u) = Keys(k, s) \cup {PATH_INFO}
       /\ \A j \in Keys(k, s) : j # PATH_INFO => ValueOf(k, u, j) = ValueOf(k, s, j)
  BY <1>5, <1>6
<1>13. Adds(k, s, u, PATH_INFO, SubSeq(k.path, a + 1, u.nth))
  BY <1>4, <1>10, <1>11, <1>12, Zenon DEF Adds
<1> QED BY <1>13, Appended

(* Between two symbols that are both behind the path and the query, or     *)
(* where these end, and both in front of the body or in it.                *)
LEMMA SameLine ==
  ASSUME NEW k, Known(k), NEW s, Spot(k, s), Place(s) # "begin",
         Place(s) = "path" => k.query = <<>>, Place(s) \in {"path", "query"} => s.token = "stop"
  PROVE  /\ Upto(s, "path", k.path) = k.path /\ Upto(s, "query", k.query) = k.query
         /\ s.token # "begin"
         /\ (s.token = "begin" \/ Place(s) = "path" \/ k.query = <<>>) <=> k.query = <<>>
<1>1. s.token # "begin"
  BY DEF Spot
<1>2. Place(s) = "path" => s.nth = Len(k.path)
  BY DEF Spot, TextOf, Place
<1>3. Place(s) = "query" => s.nth = Len(k.query)
  BY DEF Spot, TextOf, Place
<1>4. SubSeq(k.path, 1, Len(k.path)) = k.path /\ SubSeq(k.query, 1, Len(k.query)) = k.query
  BY WholeText DEF Known
<1> QED BY <1>1, <1>2, <1>3, <1>4 DEF Upto

LEMMA AppendBody ==
  ASSUME NEW k, Known(k), NEW s, NEW u, Spot(k, s), Spot(k, u), Place(u) = "body",
         NEW a \in Nat, From(k, s, "body", u.header, a), a <= u.nth
  PROVE  SoFar(k, u) = Added(SoFar(k, s), wsgi_input, SubSeq(k.body, a + 1, u.nth))
<1>1. \/ s.token = "body" /\ s.nth = a /\ Place(s) = "body"
      \/ EndsHeaders(s) /\ a = 0 /\ Place(s) \in {"headers", "garbage"}
  BY DEF From, Begins, Place, EndsHeaders
<1>2. s.header = Len(k.headers) /\ u.header = Len(k.headers)
  BY <1>1 DEF Spot
<1>3. SameSaid(k, s, u)
  BY <1>1, <1>2, SameAround
<1>4. HeaderKeys(k, u) = HeaderKeys(k, s) /\ \A key : Under(k, u, key) = Under(k, s, key)
  BY <1>3, SameUnder
<1>5. /\ s.token # "complete" /\ u.token # "complete"
  BY <1>1 DEF Spot
<1>6. /\ Upto(s, "path", k.path) = k.path /\ Upto(s, "query", k.query) = k.query
      /\ s.token # "begin"
      /\ (s.token = "begin" \/ Place(s) = "path" \/ k.query = <<>>) <=> k.query = <<>>
  BY <1>1, SameLine
<1>7. /\ Upto(u, "path", k.path) = k.path /\ Upto(u, "query", k.query) = k.query
      /\ u.token # "begin"
      /\ (u.token = "begin" \/ Place(u) = "path" \/ k.query = <<>>) <=> k.query = <<>>
  BY SameLine
<1> DEFINE Line == {PATH_INFO} \cup (IF k.query = <<>> THEN {} ELSE {QUERY_STRING}) \cup HeaderKeys(k, s)
<1>8. Keys(k, u) = Line \cup {wsgi_input}
  BY <1>4, <1>7 DEF Keys
<1>9. Keys(k, s) = Line \cup (IF Place(s) = "body" THEN {wsgi_input} ELSE {})
  BY <1>6 DEF Keys
<1>10. wsgi_input \notin Line
  <2>1. wsgi_input \notin HeaderKeys(k, s)
    BY HeaderKeysOther DEF Others
  <2> QED BY <2>1, OthersDiffer
<1>11. ASSUME NEW j \in Line
       PROVE  ValueOf(k, u, j) = ValueOf(k, s, j)
  <2>1. CASE j = PATH_INFO
    BY <1>6, <1>7, <2>1, Values
  <2>2. CASE j = QUERY_STRING
    BY <1>6, <1>7, <2>2, Values
  <2>3. CASE j \in HeaderKeys(k, s)
    <3>1. j \notin Others
      BY <2>3, HeaderKeysOther
    <3> QED BY <1>4, <3>1, Values, ZenonT(40)
  <2> QED BY <2>1, <2>2, <2>3
<1> HIDE DEF Line
<1>12. Keys(k, u) = Keys(k, s) \cup {wsgi_input}
       /\ \A j \in Keys(k, s) : j # wsgi_input => ValueOf(k, u, j) = ValueOf(k, s, j)
  BY <1>8, <1>9, <1>11
<1>13. /\ k.body \in Seq(Parts) /\ u.nth \in Nat /\ u.nth <= Len(k.body)
  BY DEF Known, Spot, TextOf
<1>14. /\ Join(SubSeq(k.body, 1, a), SubSeq(k.body, a + 1, u.nth)) = SubSeq(k.body, 1, u.nth)
       /\ a = 0 => SubSeq(k.body, a + 1, u.nth) = SubSeq(k.body, 1, u.nth)
  BY <1>13, CutOff
<1>15. ValueOf(k, u, wsgi_input) = SubSeq(k.body, 1, u.nth)
  BY Values DEF Upto
<1>16. wsgi_input \in Keys(k, s) =>
         ValueOf(k, u, wsgi_input) = Join(ValueOf(k, s, wsgi_input), SubSeq(k.body, a + 1, u.nth))
  <2>1. wsgi_input \in Keys(k, s) => Place(s) = "body" /\ s.nth = a
    BY <1>1, <1>9, <1>10
  <2>2. Place(s) = "body" => ValueOf(k, s, wsgi_input) = SubSeq(k.body, 1, s.nth)
    BY Values DEF Upto
  <2> QED BY <1>14, <1>15, <2>1, <2>2
<1>17. wsgi_input \notin Keys(k, s) => ValueOf(k, u, wsgi_input) = SubSeq(k.body, a + 1, u.nth)
  BY <1>1, <1>9, <1>14, <1>15
<1>18. Adds(k, s, u, wsgi_input, SubSeq(k.body, a + 1, u.nth))
  BY <1>5, <1>12, <1>16, <1>17, Zenon DEF Adds
<1> QED BY <1>18, Appended

(* The headers' names and the delimiters say nothing that is in a dict.    *)
AfterLine(k, s) ==
  /\ Place(s) \notin {"begin", "complete", "body"}
  /\ Place(s) = "path" => k.query = <<>>
  /\ Place(s) \in {"path", "query"} => s.token = "stop"

LEMMA SameLines ==
  ASSUME NEW k, Known(k), NEW s, NEW u, Spot(k, s), Spot(k, u), SameSaid(k, s, u),
         AfterLine(k, s), AfterLine(k, u)
  PROVE  SoFar(k, u) = SoFar(k, s)
<1>1. HeaderKeys(k, u) = HeaderKeys(k, s) /\ \A key : Under(k, u, key) = Under(k, s, key)
  BY SameUnder
<1>2. /\ Upto(s, "path", k.path) = k.path /\ Upto(s, "query", k.query) = k.query
      /\ s.token # "begin"
      /\ (s.token = "begin" \/ Place(s) = "path" \/ k.query = <<>>) <=> k.query = <<>>
  BY SameLine DEF AfterLine
<1>3. /\ Upto(u, "path", k.path) = k.path /\ Upto(u, "query", k.query) = k.query
      /\ u.token # "begin"
      /\ (u.token = "begin" \/ Place(u) = "path" \/ k.query = <<>>) <=> k.query = <<>>
  BY SameLine DEF AfterLine
<1>4. s.token # "complete" /\ u.token # "complete" /\ Place(s) # "body" /\ Place(u) # "body"
  BY DEF Spot, AfterLine
<1> DEFINE Line == {PATH_INFO} \cup (IF k.query = <<>> THEN {} ELSE {QUERY_STRING}) \cup HeaderKeys(k, s)
<1>5. Keys(k, u) = Line /\ Keys(k, s) = Line
  BY <1>1, <1>2, <1>3, <1>4 DEF Keys
<1>6. ASSUME NEW j \in Line
      PROVE  ValueOf(k, u, j) = ValueOf(k, s, j)
  <2>1. CASE j = PATH_INFO
    BY <1>2, <1>3, <2>1, Values
  <2>2. CASE j = QUERY_STRING
    BY <1>2, <1>3, <2>2, Values
  <2>3. CASE j \in HeaderKeys(k, s)
    <3>1. j \notin Others
      BY <2>3, HeaderKeysOther
    <3> QED BY <1>1, <3>1, Values, ZenonT(40)
  <2> QED BY <2>1, <2>2, <2>3
<1> HIDE DEF Line
<1> QED BY <1>4, <1>5, <1>6, Unchanged

LEMMA SameAtName ==
  ASSUME NEW k, Known(k), NEW s, NEW u, Spot(k, s), Spot(k, u), Place(u) = "name",
         NEW a, From(k, s, "name", u.header, a)
  PROVE  SoFar(k, u) = SoFar(k, s)
<1>1. PICK h : h = u.header
  OBVIOUS
<1>2. PICK n : n = Len(k.headers)
  OBVIOUS
<1>3. /\ n \in Nat /\ DOMAIN k.headers = 1..n /\ \A i \in 1..n : k.headers[i].value \in Seq(Parts)
      /\ h \in Nat /\ s.header \in Nat
  BY <1>1, <1>2 DEF Known, Spot
<1>4. \/ s.token = "name" /\ Place(s) = "name" /\ s.header = h
      \/ /\ EndsFields(k, s) /\ h = s.header + 1 /\ s.token = "stop" /\ Place(s) = s.part
         /\ s.part \in {"path", "query", "value"} /\ (s.part = "path" => k.query = <<>>)
  BY <1>1 DEF From, Begins, Place, EndsFields
<1>5. AfterLine(k, s) /\ AfterLine(k, u)
  BY <1>4 DEF AfterLine
<1>6. ASSUME NEW i \in 1..n
      PROVE  Begun(u, i) = (i < h) /\ Begun(s, i) = (i < h)
  <2>1. Begun(u, i) = (i < h)
    BY <1>1 DEF Begun
  <2>2. Begun(s, i) = (i < h)
    BY <1>3, <1>4 DEF Begun
  <2> QED BY <2>1, <2>2
<1>7. ASSUME NEW i \in 1..n, i = s.header, Place(s) = "value"
      PROVE  SubSeq(k.headers[i].value, 1, s.nth) = k.headers[i].value
  <2>1. s.nth = Len(k.headers[i].value)
    BY <1>4, <1>7 DEF Spot, TextOf
  <2> QED BY <1>3, <2>1, WholeText
<1>8. ASSUME NEW i \in 1..n
      PROVE  Said(k, u, i) = Said(k, s, i)
  <2>1. Place(u) # "value"
    OBVIOUS
  <2> QED BY <1>6, <1>7, <2>1, Zenon DEF Said
<1>9. SameSaid(k, s, u)
  BY <1>3, <1>6, <1>8 DEF SameSaid
<1> QED BY <1>5, <1>9, SameLines

LEMMA SameAtStop ==
  ASSUME NEW k, Known(k), NEW s, NEW u, Spot(k, s), Spot(k, u), EndsHeaders(u),
         EndsFields(k, s), s.header = Len(k.headers)
  PROVE  SoFar(k, u) = SoFar(k, s)
<1>1. /\ s.token = "stop" /\ Place(s) = s.part
      /\ s.part \in {"path", "query", "value"} /\ (s.part = "path" => k.query = <<>>)
  BY DEF EndsFields, Place
<1>2. Place(u) \in {"headers", "garbage"}
  BY DEF EndsHeaders, Place
<1>3. u.header = Len(k.headers)
  BY <1>2 DEF Spot
<1>4. SameSaid(k, s, u)
  BY <1>1, <1>2, <1>3, SameAround
<1>5. AfterLine(k, s) /\ AfterLine(k, u)
  BY <1>1, <1>2 DEF AfterLine
<1> QED BY <1>4, <1>5, SameLines

InValue(s, u, a) ==
  \/ s.token = "value" /\ Place(s) = "value" /\ s.header = u.header /\ s.nth = a
  \/ s.token = "stop" /\ s.part = "name" /\ Place(s) = "name" /\ s.header = u.header /\ a = 0

LEMMA FromInValue ==
  ASSUME NEW k, NEW s, NEW u, NEW a, From(k, s, "value", u.header, a)
  PROVE  InValue(s, u, a)
BY DEF From, Begins, Place, InValue

(* A value of another header, or of one that is ignored.                   *)
LEMMA SaidElsewhere ==
  ASSUME NEW k, Known(k), NEW s, NEW u, Spot(k, s), Spot(k, u), Place(u) = "value",
         NEW a, InValue(s, u, a), NEW i \in 1..Len(k.headers)
  PROVE  /\ i # u.header => Said(k, u, i) = Said(k, s, i) /\ (Begun(u, i) <=> Begun(s, i))
         /\ i > u.header => Said(k, u, i) = <<>> /\ Said(k, s, i) = <<>>
         /\ ~Valid(k.headers[i]) => Said(k, u, i) = <<>> /\ Said(k, s, i) = <<>>
         /\ Begun(u, u.header)
<1>1. i \in Nat /\ u.header \in Nat /\ s.header = u.header
  BY DEF Known, Spot, InValue
<1>2. Begun(u, u.header)
  BY DEF Begun
<1>3. i # u.header => (Begun(u, i) <=> i < u.header) /\ (Begun(s, i) <=> i < u.header)
  BY <1>1 DEF Begun
<1>4. i > u.header => i # u.header /\ ~(i < u.header)
  BY <1>1
<1>5. ~Valid(k.headers[i]) => Said(k, u, i) = <<>> /\ Said(k, s, i) = <<>>
  BY DEF Said
<1>6. i # u.header => Said(k, u, i) = Said(k, s, i)
  BY <1>1, <1>3, Zenon DEF Said
<1>7. i > u.header => Said(k, u, i) = <<>> /\ Said(k, s, i) = <<>>
  BY <1>3, <1>4, Zenon DEF Said
<1> QED BY <1>2, <1>3, <1>5, <1>6, <1>7

LEMMA SameWhenIgnored ==
  ASSUME NEW k, Known(k), NEW s, NEW u, Spot(k, s), Spot(k, u), Place(u) = "value",
         NEW a, From(k, s, "value", u.header, a), ~Valid(k.headers[u.header])
  PROVE  SoFar(k, u) = SoFar(k, s)
<1>1. InValue(s, u, a) /\ DOMAIN k.headers = 1..Len(k.headers)
  BY FromInValue DEF Known
<1>2. SameSaid(k, s, u)
  BY <1>1, SaidElsewhere DEF SameSaid
<1>3. AfterLine(k, s) /\ AfterLine(k, u)
  BY <1>1 DEF AfterLine, InValue
<1> QED BY <1>2, <1>3, SameLines

LEMMA UnderGrows ==
  ASSUME NEW k, Known(k), NEW s, NEW u, Spot(k, s), Spot(k, u), Place(u) = "value",
         NEW a \in Nat, InValue(s, u, a), a <= u.nth,
         NEW h, h = u.header, Valid(k.headers[h]), NEW key, key = RawKey(k.headers[h])
  PROVE  /\ h \in 1..Len(k.headers)
         /\ Under(k, u, key) = Join(Under(k, s, key), SubSeq(k.headers[h].value, a + 1, u.nth))
<1>1. PICK n : n = Len(k.headers)
  OBVIOUS
<1>2. n \in Nat /\ DOMAIN k.headers = 1..n /\ \A i \in 1..n : k.headers[i].value \in Seq(Parts)
  BY <1>1 DEF Known
<1>3. h \in 1..n /\ n \in Nat \ {0}
  <2>1. h \in Nat /\ h <= n /\ h > 0
    BY <1>1 DEF Spot
  <2> QED BY <1>2, <2>1
<1>4. PICK text : text = k.headers[h].value
  OBVIOUS
<1>5. text \in Seq(Parts) /\ u.nth \in Nat /\ u.nth <= Len(text)
  BY <1>2, <1>3, <1>4 DEF Spot, TextOf
<1>6. PICK piece : piece = SubSeq(text, a + 1, u.nth)
  OBVIOUS
<1>7. /\ piece \in Seq(Parts)
      /\ Join(SubSeq(text, 1, a), piece) = SubSeq(text, 1, u.nth)
      /\ a = 0 => piece = SubSeq(text, 1, u.nth)
  BY <1>5, <1>6, Cuts, CutOff
<1>8. Join(<<>>, piece) = piece
  BY <1>7, WholeText
<1>9. PICK old : old = SaidAs(k, s, key)
  OBVIOUS
<1>10. PICK new : new = SaidAs(k, u, key)
  OBVIOUS
<1>11. /\ old \in Seq(Seq(Parts)) /\ new \in Seq(Seq(Parts)) /\ Len(old) = n /\ Len(new) = n
       /\ \A i \in 1..n :
            /\ old[i] = IF RawKey(k.headers[i]) = key THEN Said(k, s, i) ELSE <<>>
            /\ new[i] = IF RawKey(k.headers[i]) = key THEN Said(k, u, i) ELSE <<>>
  BY <1>1, <1>9, <1>10, SaidTyped, SMTT(40)
<1>12. new[h] = Join(old[h], piece)
  <2>1. old[h] = Said(k, s, h) /\ new[h] = Said(k, u, h)
    BY <1>3, <1>11
  <2>2. Begun(u, h)
    BY DEF Begun
  <2>3. Said(k, u, h) = SubSeq(text, 1, u.nth)
    BY <1>4, <2>2 DEF Said
  <2>4. CASE Place(s) = "value" /\ s.header = h /\ s.nth = a
    <3>1. Begun(s, h)
      BY <2>4 DEF Begun
    <3>2. Said(k, s, h) = SubSeq(text, 1, a)
      BY <1>4, <2>4, <3>1 DEF Said
    <3> QED BY <1>7, <2>1, <2>3, <3>2
  <2>5. CASE Place(s) = "name" /\ s.header = h /\ a = 0
    <3>1. ~Begun(s, h)
      BY <1>3, <2>5 DEF Begun
    <3>2. Said(k, s, h) = <<>>
      BY <3>1 DEF Said
    <3> QED BY <1>7, <1>8, <2>1, <2>3, <2>5, <3>2
  <2> QED BY <2>4, <2>5 DEF InValue
<1>13. \A i \in 1..n :
         /\ i # h => Said(k, u, i) = Said(k, s, i)
         /\ i > h => Said(k, u, i) = <<>> /\ Said(k, s, i) = <<>>
  BY <1>1, SaidElsewhere
<1>14. \A i \in 1..h - 1 : i \in 1..n /\ i # h
  BY <1>3
<1>15. \A i \in h + 1..n : i \in 1..n /\ i > h
  BY <1>3
<1>16. \A i \in 1..h - 1 : new[i] = old[i]
  BY <1>11, <1>13, <1>14
<1>17. \A i \in h + 1..n : old[i] = <<>> /\ new[i] = <<>>
  BY <1>11, <1>13, <1>15
<1>18. \E rest \in Seq(Parts) :
         /\ FlattenSeq(new) = Join(Join(FlattenSeq(old), piece), rest)
         /\ (\A i \in h + 1..n : new[i] = <<>>) => rest = <<>>
  <2>1. GrownAt(Parts, n, h, piece, old, new)
    BY <1>11, <1>12, <1>16, <1>17, Zenon DEF GrownAt
  <2> QED BY <1>3, <1>7, <2>1, FlattenGrows
<1>19. FlattenSeq(new) = Join(Join(FlattenSeq(old), piece), <<>>)
  BY <1>17, <1>18
<1>20. FlattenSeq(old) \in Seq(Parts)
  BY <1>11, FlattenSeqType
<1>21. Join(FlattenSeq(old), piece) \in Seq(Parts)
  BY <1>7, <1>20, Joins
<1>22. FlattenSeq(new) = Join(FlattenSeq(old), piece)
  BY <1>19, <1>21, Joins
<1> QED BY <1>1, <1>3, <1>4, <1>6, <1>9, <1>10, <1>22 DEF Under

LEMMA AppendValue ==
  ASSUME NEW k, Known(k), NEW s, NEW u, Spot(k, s), Spot(k, u), Place(u) = "value",
         NEW a \in Nat, From(k, s, "value", u.header, a), a <= u.nth,
         NEW h, h = u.header, Valid(k.headers[h])
  PROVE  SoFar(k, u) = Added(SoFar(k, s), RawKey(k.headers[h]),
                             SubSeq(k.headers[h].value, a + 1, u.nth))
<1>1. PICK key : key = RawKey(k.headers[h])
  OBVIOUS
<1>2. PICK piece : piece = SubSeq(k.headers[h].value, a + 1, u.nth)
  OBVIOUS
<1>3. PICK n : n = Len(k.headers)
  OBVIOUS
<1>4. n \in Nat /\ DOMAIN k.headers = 1..n /\ \A i \in 1..n : k.headers[i].value \in Seq(Parts)
  BY <1>3 DEF Known
<1>5. InValue(s, u, a)
  BY FromInValue
<1>6. h \in 1..n /\ Under(k, u, key) = Join(Under(k, s, key), piece)
  BY <1>1, <1>2, <1>3, <1>5, UnderGrows
<1>7. \A i \in 1..n :
        /\ i # h => Said(k, u, i) = Said(k, s, i) /\ (Begun(u, i) <=> Begun(s, i))
        /\ Begun(u, h)
  BY <1>3, <1>5, SaidElsewhere
<1>8. HeaderKeys(k, u) = HeaderKeys(k, s) \cup {key}
  <2>1. ASSUME NEW x \in HeaderKeys(k, u)
        PROVE  x \in HeaderKeys(k, s) \cup {key}
    <3>1. PICK i \in 1..n : Valid(k.headers[i]) /\ Begun(u, i) /\ x = RawKey(k.headers[i])
      BY <1>4 DEF HeaderKeys
    <3>2. i # h => Begun(s, i)
      BY <1>7, <3>1
    <3> QED BY <1>1, <1>4, <3>1, <3>2 DEF HeaderKeys
  <2>2. ASSUME NEW x \in HeaderKeys(k, s)
        PROVE  x \in HeaderKeys(k, u)
    <3>1. PICK i \in 1..n : Valid(k.headers[i]) /\ Begun(s, i) /\ x = RawKey(k.headers[i])
      BY <1>4 DEF HeaderKeys
    <3>2. Begun(u, i)
      BY <1>7, <3>1
    <3> QED BY <1>4, <3>1, <3>2 DEF HeaderKeys
  <2>3. key \in HeaderKeys(k, u)
    BY <1>1, <1>4, <1>6, <1>7 DEF HeaderKeys
  <2> QED BY <2>1, <2>2, <2>3
<1>9. AfterLine(k, s) /\ AfterLine(k, u)
  BY <1>5 DEF AfterLine, InValue
<1>10. /\ Upto(s, "path", k.path) = k.path /\ Upto(s, "query", k.query) = k.query
       /\ s.token # "begin"
       /\ (s.token = "begin" \/ Place(s) = "path" \/ k.query = <<>>) <=> k.query = <<>>
  BY <1>9, SameLine DEF AfterLine
<1>11. /\ Upto(u, "path", k.path) = k.path /\ Upto(u, "query", k.query) = k.query
       /\ u.token # "begin"
       /\ (u.token = "begin" \/ Place(u) = "path" \/ k.query = <<>>) <=> k.query = <<>>
  BY <1>9, SameLine DEF AfterLine
<1>12. s.token # "complete" /\ u.token # "complete" /\ Place(s) # "body" /\ Place(u) # "body"
  BY <1>9 DEF Spot, AfterLine
<1> DEFINE Line == {PATH_INFO} \cup (IF k.query = <<>> THEN {} ELSE {QUERY_STRING})
<1>13. Keys(k, u) = Line \cup HeaderKeys(k, u)
  BY <1>11, <1>12 DEF Keys
<1>14. Keys(k, s) = Line \cup HeaderKeys(k, s)
  BY <1>10, <1>12 DEF Keys
<1>15. key \in HeaderKeys(k, u) /\ key \notin Others
  BY <1>8, HeaderKeysOther
<1>16. ASSUME NEW j, j # key
       PROVE  Under(k, u, j) = Under(k, s, j)
  <2>1. ASSUME NEW i \in 1..n
        PROVE  (IF RawKey(k.headers[i]) = j THEN Said(k, u, i) ELSE <<>>)
               = (IF RawKey(k.headers[i]) = j THEN Said(k, s, i) ELSE <<>>)
    BY <1>1, <1>7, <1>16
  <2>2. SaidAs(k, u, j) = SaidAs(k, s, j)
    BY <1>4, <2>1 DEF SaidAs
  <2> QED BY <2>2 DEF Under
<1>17. ASSUME NEW j \in Keys(k, s), j # key
       PROVE  ValueOf(k, u, j) = ValueOf(k, s, j)
  <2>1. CASE j = PATH_INFO
    BY <1>10, <1>11, <2>1, Values
  <2>2. CASE j = QUERY_STRING
    BY <1>10, <1>11, <2>2, Values
  <2>3. CASE j \in HeaderKeys(k, s)
    <3>1. j \notin Others
      BY <2>3, HeaderKeysOther
    <3> QED BY <1>16, <1>17, <3>1, Values, ZenonT(40)
  <2> QED BY <1>14, <2>1, <2>2, <2>3
<1>18. ValueOf(k, u, key) = Join(ValueOf(k, s, key), piece)
  BY <1>6, <1>15, Values
<1>19. key \notin HeaderKeys(k, s) => Under(k, s, key) = <<>>
  <2>1. SUFFICES ASSUME key \notin HeaderKeys(k, s) PROVE Under(k, s, key) = <<>>
    OBVIOUS
  <2>2. ASSUME NEW i \in 1..n, RawKey(k.headers[i]) = key
        PROVE  Said(k, s, i) = <<>>
    <3>1. ~Valid(k.headers[i]) \/ ~Begun(s, i)
      BY <1>4, <2>1, <2>2 DEF HeaderKeys
    <3> QED BY <3>1 DEF Said
  <2>3. PICK old : old = SaidAs(k, s, key)
    OBVIOUS
  <2>4. /\ old \in Seq(Seq(Parts)) /\ Len(old) = n
        /\ \A i \in 1..n : old[i] = IF RawKey(k.headers[i]) = key THEN Said(k, s, i) ELSE <<>>
    BY <1>3, <2>3, SaidTyped, SMTT(40)
  <2>5. \A i \in 1..Len(old) : old[i] = <<>>
    BY <2>2, <2>4
  <2>6. FlattenSeq(old) = <<>>
    BY <2>4, <2>5, FlattenNothing
  <2> QED BY <2>3, <2>6 DEF Under
<1>20. key \notin Keys(k, s) => ValueOf(k, u, key) = piece
  <2>1. u.nth \in Nat /\ u.nth <= Len(k.headers[h].value) /\ k.headers[h].value \in Seq(Parts)
    BY <1>4, <1>6 DEF Spot, TextOf
  <2>2. piece \in Seq(Parts)
    BY <1>2, <2>1, Cuts
  <2>3. Join(<<>>, piece) = piece
    BY <2>2, WholeText
  <2>4. ValueOf(k, u, key) = Join(Under(k, s, key), piece)
    BY <1>6, <1>15, Values
  <2> QED BY <1>14, <1>19, <2>3, <2>4
<1>21. Keys(k, u) = Keys(k, s) \cup {key}
  BY <1>8, <1>13, <1>14
<1>22. Adds(k, s, u, key, piece)
  BY <1>12, <1>17, <1>18, <1>20, <1>21, Zenon DEF Adds
<1> QED BY <1>1, <1>2, <1>22, Appended

-----------------------------------------------------------------------------
(* The path. *)

PathParts == {"%", "h", "l", "c"}
Units == {"c", "esc", "bad"}

(* Parts of a path t, of which p[i] belongs to the unit nth[i]: each is    *)
(* where it can be, and the first starts a unit.                           *)
Walk(p, t, n, a, nth) ==
  /\ p \in Seq(PathParts) /\ Len(p) = n
  /\ p[1] \in {"%", "c"} /\ nth[1] = a + 1 /\ (p[1] = "c" => t[a + 1] = "c")
  /\ \A i \in 1..n :
       /\ nth[i] \in 1..Len(t)
       /\ p[i] = "%" => t[nth[i]] # "c"
       /\ p[i] \in {"h", "l"} => t[nth[i]] = "esc"
  /\ \A i \in 2..n :
       /\ p[i] = "h" => p[i - 1] = "%" /\ nth[i] = nth[i - 1]
       /\ p[i] = "l" => p[i - 1] = "h" /\ nth[i] = nth[i - 1]
       /\ p[i] = "%" => p[i - 1] \notin {"%", "h"} /\ nth[i] = nth[i - 1] + 1
       /\ p[i] = "c" =>
            \/ p[i - 1] \notin {"%", "h"} /\ nth[i] = nth[i - 1] + 1 /\ t[nth[i]] = "c"
            \/ p[i - 1] = "%"

Escaped(p, n) == \A i \in 1..n : p[i] = "%" => i + 2 <= n /\ p[i + 1] = "h" /\ p[i + 2] = "l"

Decoded(p) ==
  [i \in DOMAIN p |->
     IF \E d \in 1..2 : i - d \in DOMAIN p /\ p[i - d] = "%" THEN <<>>
     ELSE IF p[i] = "%" THEN <<"esc">> ELSE <<p[i]>>]

(* A part of an escape in front of its end adds nothing, any other one its *)
(* unit.                                                                   *)
LEMMA DecodedPart ==
  ASSUME NEW n \in Nat \ {0}, NEW a \in Nat, NEW p, NEW t, NEW nth,
         Walk(p, t, n, a, nth), Escaped(p, n), t \in Seq(Units), NEW i \in 1..n
  PROVE  /\ Decoded(p)[i] \in {<<>>, <<t[nth[i]]>>}
         /\ i = 1 => Decoded(p)[i] = <<t[a + 1]>>
         /\ i # 1 => IF Decoded(p)[i] = <<>> THEN nth[i] = nth[i - 1]
                     ELSE nth[i] = nth[i - 1] + 1
         /\ i = n => p[i] \in {"l", "c"}
<1>1. /\ DOMAIN p = 1..n /\ p[i] \in PathParts
  <2>1. p \in Seq(PathParts) /\ Len(p) = n
    BY Zenon DEF Walk
  <2> QED BY <2>1
<1>2. Decoded(p)[i] = IF \E d \in 1..2 : i - d \in DOMAIN p /\ p[i - d] = "%" THEN <<>>
                      ELSE IF p[i] = "%" THEN <<"esc">> ELSE <<p[i]>>
  BY <1>1 DEF Decoded
<1> DEFINE In == \E d \in 1..2 : i - d \in 1..n /\ p[i - d] = "%"
<1>3. In <=> \/ i - 1 \in 1..n /\ p[i - 1] = "%"
             \/ i - 2 \in 1..n /\ p[i - 2] = "%"
  <2>1. \A d \in 1..2 : d = 1 \/ d = 2
    OBVIOUS
  <2>2. 1 \in 1..2 /\ 2 \in 1..2
    OBVIOUS
  <2> QED BY <2>1, <2>2, Zenon
<1>4. Decoded(p)[i] = IF In THEN <<>> ELSE IF p[i] = "%" THEN <<"esc">> ELSE <<p[i]>>
  BY <1>1, <1>2
<1> HIDE DEF In
<1>5. /\ i # 1 => i \in 2..n /\ i - 1 \in 1..n
      /\ i - 1 \in 1..n => i # 1 /\ (i - 1) + 1 = i /\ (i - 1) + 2 = i + 1
      /\ i - 2 \in 1..n => (i - 2) + 2 = i /\ (i - 2) + 1 = i - 1
  OBVIOUS
<1>6. /\ p[1] \in {"%", "c"} /\ nth[1] = a + 1 /\ (p[1] = "c" => t[a + 1] = "c")
      /\ nth[i] \in 1..Len(t)
      /\ p[i] = "%" => t[nth[i]] # "c"
      /\ p[i] \in {"h", "l"} => t[nth[i]] = "esc"
  BY Zenon DEF Walk
<1>7. i # 1 =>
       /\ p[i] = "h" => p[i - 1] = "%" /\ nth[i] = nth[i - 1]
       /\ p[i] = "l" => p[i - 1] = "h" /\ nth[i] = nth[i - 1]
       /\ p[i] = "%" => p[i - 1] \notin {"%", "h"} /\ nth[i] = nth[i - 1] + 1
       /\ p[i] = "c" =>
            \/ p[i - 1] \notin {"%", "h"} /\ nth[i] = nth[i - 1] + 1 /\ t[nth[i]] = "c"
            \/ p[i - 1] = "%"
  BY <1>5, Zenon DEF Walk
<1>8. \A j \in 1..n : p[j] = "%" => j + 2 <= n /\ p[j + 1] = "h" /\ p[j + 2] = "l"
  BY Zenon DEF Escaped
<1>9. t[nth[i]] \in Units
  BY <1>6
<1>10. <<>> # <<t[nth[i]]>>
  OBVIOUS
<1>11. i - 1 \in 1..n /\ p[i - 1] = "%" => p[i] = "h"
  BY <1>5, <1>8
<1>12. i - 2 \in 1..n /\ p[i - 2] = "%" => p[i] = "l"
  BY <1>5, <1>8
<1>13. CASE p[i] = "%"
  <2>1. i + 2 <= n /\ p[i + 1] = "h" /\ i + 1 \in 2..n /\ (i + 1) - 1 = i
    BY <1>8, <1>13
  <2>2. ~In
    BY <1>3, <1>11, <1>12, <1>13
  <2>next. PICK q : q = i + 1
    OBVIOUS
  <2>range. q \in 2..n /\ q \in 1..n /\ q - 1 = i /\ p[q] = "h"
    BY <2>1, <2>next
  <2>same. nth[q] = nth[q - 1] /\ t[nth[q]] = "esc"
    BY <2>range, Zenon DEF Walk
  <2>3. nth[i + 1] = nth[i]
    BY <2>next, <2>range, <2>same
  <2>4. t[nth[i + 1]] = "esc"
    BY <2>next, <2>same
  <2>5. t[nth[i]] = "esc"
    BY <2>3, <2>4
  <2>6. i # n
    BY <2>1
  <2>7. Decoded(p)[i] = <<t[nth[i]]>>
    BY <1>4, <1>13, <2>2, <2>5
  <2>8. i = 1 => nth[i] = a + 1
    BY <1>6
  <2> QED BY <1>7, <1>10, <1>13, <2>6, <2>7, <2>8
<1>14. CASE p[i] = "h"
  <2>1. i # 1 /\ p[i - 1] = "%" /\ nth[i] = nth[i - 1]
    BY <1>6, <1>7, <1>14
  <2>2. i - 1 \in 1..n
    BY <1>5, <2>1
  <2>3. (i - 1) + 2 <= n
    BY <1>8, <2>1, <2>2
  <2>4. i # n
    BY <2>3
  <2>5. Decoded(p)[i] = <<>>
    BY <1>3, <1>4, <2>1, <2>2
  <2> QED BY <2>1, <2>4, <2>5
<1>15. CASE p[i] = "l"
  <2>1. i # 1 /\ p[i - 1] = "h" /\ nth[i] = nth[i - 1] /\ i - 1 \in 1..n
    BY <1>5, <1>6, <1>7, <1>15
  <2>2. i - 1 # 1
    BY <1>6, <2>1
  <2>3. i - 1 \in 2..n /\ (i - 1) - 1 = i - 2 /\ i - 2 \in 1..n
    BY <2>1, <2>2
  <2>4. p[i - 2] = "%"
    BY <2>1, <2>3, Zenon DEF Walk
  <2>5. Decoded(p)[i] = <<>>
    BY <1>3, <1>4, <2>3, <2>4
  <2> QED BY <1>15, <2>1, <2>5
<1>16. CASE p[i] = "c"
  <2>1. ~In
    BY <1>3, <1>11, <1>12, <1>16
  <2>2. i # 1 => p[i - 1] # "%"
    BY <1>5, <1>11, <1>16
  <2>3. t[nth[i]] = "c"
    BY <1>6, <1>7, <1>16, <2>2
  <2>4. Decoded(p)[i] = <<t[nth[i]]>>
    BY <1>4, <1>16, <2>1, <2>3
  <2>5. i = 1 => nth[i] = a + 1
    BY <1>6
  <2> QED BY <1>7, <1>10, <1>16, <2>2, <2>4, <2>5
<1> QED BY <1>1, <1>13, <1>14, <1>15, <1>16 DEF PathParts

LEMMA DecodedText ==
  ASSUME NEW n \in Nat \ {0}, NEW a \in Nat, NEW p, NEW t, NEW nth,
         Walk(p, t, n, a, nth), Escaped(p, n), t \in Seq(Units)
  PROVE  /\ FlattenSeq(Decoded(p)) = SubSeq(t, a + 1, nth[n])
         /\ a + 1 <= nth[n] /\ a <= nth[n] /\ nth[n] <= Len(t) /\ p[n] \in {"l", "c"}
<1>1. DOMAIN p = 1..n
  <2>1. p \in Seq(PathParts) /\ Len(p) = n
    BY Zenon DEF Walk
  <2> QED BY <2>1
<1>2. PICK seqs : seqs = Decoded(p)
  OBVIOUS
<1>3. \A i \in 1..n :
        /\ seqs[i] \in {<<>>, <<t[nth[i]]>>}
        /\ i = 1 => seqs[i] = <<t[a + 1]>>
        /\ i # 1 => IF seqs[i] = <<>> THEN nth[i] = nth[i - 1] ELSE nth[i] = nth[i - 1] + 1
        /\ i = n => p[i] \in {"l", "c"}
  BY <1>2, DecodedPart
<1>4. \A i \in 1..n : nth[i] \in 1..Len(t) /\ nth[i] \in Nat
  <2>1. \A i \in 1..n : nth[i] \in 1..Len(t)
    BY Zenon DEF Walk
  <2> QED BY <2>1
<1>5. nth[1] = a + 1 /\ 1 \in 1..n /\ n \in 1..n
  <2>1. nth[1] = a + 1
    BY Zenon DEF Walk
  <2> QED BY <2>1
<1>6. Len(t) \in Nat /\ \A i \in 1..n : t[nth[i]] \in Units
  BY <1>4
<1>7. PICK Q : Q = Seq(Units)
  OBVIOUS
<1>8. <<>> \in Q /\ \A x \in Units : <<x>> \in Q
  BY <1>7
<1>9. \A i \in 1..n : seqs[i] \in Q
  BY <1>3, <1>6, <1>8
<1>10. seqs = [i \in 1..n |-> seqs[i]]
  BY <1>1, <1>2 DEF Decoded
<1>11. seqs \in Seq(Q) /\ Len(seqs) = n
  <2>1. seqs \in [1..n -> Q]
    BY <1>9, <1>10
  <2> QED BY <2>1
<1>12. seqs # <<>>
  BY <1>11
<1>13. \E f : FlattenSeq(seqs) = f[n] /\ Sums(Seq(Units), n, seqs, f)
  BY <1>7, <1>11, <1>12, FlattenSums
<1>14. PICK f : FlattenSeq(seqs) = f[n] /\ Sums(Seq(Units), n, seqs, f)
  BY <1>13
<1> DEFINE Good(i) == f[i] = SubSeq(t, a + 1, nth[i]) /\ a + 1 <= nth[i]
           P == {i \in 1..n : Good(i)}
<1>15. \A i : i \in P <=> i \in 1..n /\ Good(i)
  OBVIOUS
<1> HIDE DEF P
<1>16. ASSUME NEW m \in 1..Len(t)
       PROVE  SubSeq(t, m, m) = <<t[m]>>
  <2>1. SubSeq(t, m, m) = SubSeq(t, m, m - 1) \o <<t[m]>>
    BY <1>6, SubSeqRecursiveSecond
  <2>2. SubSeq(t, m, m - 1) = <<>>
    BY <1>6, SubSeqEmpty
  <2>3. t[m] \in Units
    BY <1>6
  <2>4. <<t[m]>> \in Seq(Units)
    BY <1>7, <1>8, <2>3
  <2>5. <<>> \o <<t[m]>> = <<t[m]>>
    BY <2>4, ConcatEmptySeq
  <2> QED BY <2>1, <2>2, <2>5
<1>17. ASSUME NEW m \in 1..Len(t), a + 1 <= m - 1
       PROVE  SubSeq(t, a + 1, m) = SubSeq(t, a + 1, m - 1) \o <<t[m]>>
  <2>1. a + 1 \in 1..Len(t) /\ m \in a + 1..Len(t)
    BY <1>6, <1>17
  <2> QED BY <2>1, SubSeqRecursiveSecond
<1>18. 1 \in P
  <2>1. f[1] = seqs[1]
    BY <1>5, <1>14, Zenon DEF Sums
  <2>2. seqs[1] = <<t[a + 1]>> /\ a + 1 \in 1..Len(t)
    BY <1>3, <1>4, <1>5
  <2>3. SubSeq(t, a + 1, a + 1) = <<t[a + 1]>>
    BY <1>16, <2>2
  <2>4. Good(1)
    <3>1. f[1] = SubSeq(t, a + 1, nth[1])
      BY <1>5, <2>1, <2>2, <2>3, Zenon
    <3>2. a + 1 <= nth[1]
      BY <1>5
    <3> QED BY <3>1, <3>2
  <2> QED BY <1>5, <1>15, <2>4
<1>19. ASSUME NEW i \in 1..n, i + 1 \in 1..n, i \in P
       PROVE  i + 1 \in P
  <2>1. PICK q : q = i + 1
    OBVIOUS
  <2>2. q \in 1..n /\ q # 1 /\ q - 1 = i
    BY <1>19, <2>1
  <2>3. f[q] = Join(f[i], seqs[q]) /\ f[i] \in Seq(Units)
    <3>1. f[q] = Join(f[q - 1], seqs[q])
      BY <1>14, <2>2, Zenon DEF Sums
    <3>2. f[i] \in Seq(Units)
      BY <1>14, Zenon DEF Sums
    <3> QED BY <2>2, <3>1, <3>2
  <2>4. Good(i)
    BY <1>15, <1>19
  <2>5. nth[q] \in 1..Len(t) /\ nth[i] \in Nat /\ nth[q] \in Nat
    BY <1>4, <2>2
  <2>6. CASE seqs[q] = <<>>
    <3>1. nth[q] = nth[i]
      BY <1>3, <2>2, <2>6
    <3>2. f[q] = f[i]
      BY <2>3, <2>6, Joins
    <3>3. Good(q)
      BY <2>4, <3>1, <3>2
    <3> QED BY <1>15, <2>1, <2>2, <3>3
  <2>7. CASE seqs[q] # <<>>
    <3>1. seqs[q] = <<t[nth[q]]>> /\ nth[q] = nth[i] + 1
      BY <1>3, <2>2, <2>7
    <3>2. a + 1 <= nth[q] - 1 /\ nth[q] - 1 = nth[i] /\ a + 1 <= nth[q]
      BY <2>4, <2>5, <3>1
    <3>3. SubSeq(t, a + 1, nth[q]) = SubSeq(t, a + 1, nth[i]) \o <<t[nth[q]]>>
      BY <1>17, <2>5, <3>2
    <3>4. f[q] = SubSeq(t, a + 1, nth[q])
      BY <2>3, <2>4, <3>1, <3>3, Zenon DEF Join
    <3> QED BY <1>15, <2>1, <2>2, <3>2, <3>4
  <2> QED BY <2>6, <2>7
<1>20. 1..n \subseteq P
  BY <1>18, <1>19, UpTo
<1>21. Good(n)
  BY <1>5, <1>15, <1>20
<1>22. nth[n] \in 1..Len(t) /\ nth[n] \in Nat
  BY <1>4, <1>5
<1>23. a + 1 <= nth[n] /\ a <= nth[n] /\ nth[n] <= Len(t)
  BY <1>6, <1>21, <1>22
<1>24. p[n] \in {"l", "c"}
  BY <1>3, <1>5
<1> QED BY <1>2, <1>14, <1>21, <1>23, <1>24

(* What unquote_url_inplace leaves of a piece of a path.                   *)
LEMMA UnquotedText ==
  ASSUME NEW n \in Nat \ {0}, NEW a \in Nat, NEW p, NEW t, NEW nth,
         Walk(p, t, n, a, nth), t \in Seq(Units), unquote_url_inplace(p) # <<>>
  PROVE  /\ unquote_url_inplace(p) = SubSeq(t, a + 1, nth[n])
         /\ a <= nth[n] /\ nth[n] <= Len(t) /\ p[n] \in {"l", "c"}
<1>1. p \in Seq(PathParts) /\ Len(p) = n
  BY Zenon DEF Walk
<1>2. DOMAIN p = 1..n
  BY <1>1
<1>3. ~(\E i \in DOMAIN p : p[i] = "%" /\ ~Escape(p, i))
  BY DEF unquote_url_inplace
<1>4. unquote_url_inplace(p) = FlattenSeq(Decoded(p))
  BY <1>3, Zenon DEF unquote_url_inplace, Decoded
<1>5. Escaped(p, n)
  BY <1>1, <1>2, <1>3 DEF Escape, Escaped
<1> QED BY <1>4, <1>5, DecodedText

LEMMA PathWalk ==
  ASSUME Streaming, pos < limit, stream[pos + 1].token = "path", pos \in 1..Len(stream),
         stream[pos].token = "path" => stream[pos].part \notin {"%", "h"},
         NEW n, n = PieceEnd - pos, NEW p, p = Piece("path"),
         NEW nth, nth = [i \in 1..n |-> stream[pos + i].nth],
         NEW a, a = stream[pos].nth
  PROVE  /\ n \in Nat \ {0} /\ a \in Nat
         /\ Walk(p, messages[stream[pos + 1].of].path, n, a, nth)
         /\ stream[pos].of = stream[pos + 1].of
         /\ \/ stream[pos].token = "begin" /\ a = 0
            \/ stream[pos].token = "path"
         /\ stream[PieceEnd].of = stream[pos + 1].of /\ stream[PieceEnd].nth = nth[n]
         /\ stream[PieceEnd].part = p[n]
<1>1. /\ pos \in Nat /\ limit \in Nat /\ Len(stream) \in Nat /\ limit <= Len(stream)
      /\ \A i \in 1..Len(stream) : stream[i] \in Sent
      /\ \A i \in 1..Len(stream) - 1 : Link(stream[i], stream[i + 1])
  BY Symbols2
<1>2. /\ PieceEnd \in pos + 1..limit
      /\ \A i \in pos + 1..PieceEnd : stream[i].token = "path"
  BY PieceEnds DEF Streaming
<1>3. n \in Nat \ {0} /\ p = [i \in 1..n |-> stream[pos + i].part]
  BY PieceParts
<1>4. \A i \in 1..n : pos + i \in 1..Len(stream) /\ pos + i \in pos + 1..PieceEnd
  BY <1>1, <1>2
<1>5. PICK first : first = stream[pos + 1]
  OBVIOUS
<1>6. PICK k : k = messages[first.of]
  OBVIOUS
<1>7. PICK s : s = stream[pos]
  OBVIOUS
<1>8. /\ s \in Sent /\ first \in Sent /\ first.token = "path"
      /\ Link(s, first)
  BY <1>5, <1>7, NotFirst
<1>9. s.of = first.of /\ Links(k, s, first)
  BY <1>6, <1>8 DEF Link
<1>10. s.token \in {"begin", "path"} /\ Escapes(k, s, first)
  BY <1>8, <1>9 DEF Links
<1>11. s.nth \in Nat /\ a = s.nth /\ Meant(k, s) /\ Meant(k, first)
  BY <1>6, <1>7, <1>8, <1>9, SentTyped
<1>12. s.token = "begin" => a = 0
  BY <1>11 DEF Meant
<1>13. first.part \in {"%", "c"} /\ first.nth = a + 1 /\ (first.part = "c" => k.path[a + 1] = "c")
  <2>1. s.token = "path" => s.part \notin {"%", "h"}
    BY <1>7
  <2>2. first.part \in {"%", "h", "l", "c"}
    BY <1>8, <1>11 DEF Meant
  <2>3. /\ first.part = "h" => s.token = "path" /\ s.part = "%"
        /\ first.part = "l" => s.token = "path" /\ s.part = "h"
        /\ first.part = "%" => first.nth = s.nth + 1
        /\ first.part = "c" =>
             \/ first.nth = s.nth + 1 /\ k.path[first.nth] = "c"
             \/ s.token = "path" /\ s.part = "%"
    BY <1>10 DEF Escapes
  <2>4. first.part \in {"%", "c"} /\ first.nth = s.nth + 1
        /\ (first.part = "c" => k.path[first.nth] = "c")
    BY <2>1, <2>2, <2>3
  <2> QED BY <1>11, <2>4
<1> DEFINE P == {i \in 1..n : stream[pos + i].of = first.of}
<1>14. \A i : i \in P <=> i \in 1..n /\ stream[pos + i].of = first.of
  OBVIOUS
<1> HIDE DEF P
<1>15. ASSUME NEW i \in 1..n, i + 1 \in 1..n
       PROVE  /\ Link(stream[pos + i], stream[pos + (i + 1)])
              /\ stream[pos + i].token = "path" /\ stream[pos + (i + 1)].token = "path"
  <2>1. pos + i \in 1..Len(stream) /\ pos + (i + 1) \in 1..Len(stream)
        /\ pos + i \in pos + 1..PieceEnd /\ pos + (i + 1) \in pos + 1..PieceEnd
    BY <1>4, <1>15
  <2>2. pos + i \in 1..Len(stream) - 1 /\ pos + (i + 1) = (pos + i) + 1
    <3>1. i \in Nat
      BY <1>3
    <3> QED BY <1>1, <2>1, <3>1
  <2> QED BY <1>1, <1>2, <2>1, <2>2
<1>16. 1 \in P
  BY <1>3, <1>5, <1>14
<1>17. ASSUME NEW i \in 1..n, i + 1 \in 1..n, i \in P
       PROVE  i + 1 \in P
  <2>1. stream[pos + (i + 1)].of = stream[pos + i].of
    BY <1>15, <1>17 DEF Link
  <2> QED BY <1>14, <1>17, <2>1
<1>18. \A i \in 1..n : stream[pos + i].of = first.of
  <2>1. 1..n \subseteq P
    BY <1>3, <1>16, <1>17, UpTo
  <2> QED BY <1>14, <2>1
<1>19. ASSUME NEW i \in 1..n
       PROVE  /\ p[i] = stream[pos + i].part /\ nth[i] = stream[pos + i].nth
              /\ p[i] \in PathParts
              /\ nth[i] \in 1..Len(k.path)
              /\ p[i] = "%" => k.path[nth[i]] # "c"
              /\ p[i] \in {"h", "l"} => k.path[nth[i]] = "esc"
  <2>1. PICK x : x = stream[pos + i]
    OBVIOUS
  <2>2. x \in Sent /\ x.token = "path" /\ x.of = first.of
    BY <1>1, <1>2, <1>4, <1>18, <2>1
  <2>3. Meant(k, x)
    BY <1>6, <2>2, SentTyped
  <2>4. /\ x.part \in PathParts /\ x.nth \in 1..Len(k.path)
        /\ x.part = "%" => k.path[x.nth] # "c"
        /\ x.part \in {"h", "l"} => k.path[x.nth] = "esc"
    BY <2>2, <2>3 DEF Meant, TextOf, PathParts
  <2>5. p[i] = x.part /\ nth[i] = x.nth
    BY <1>3, <2>1
  <2> QED BY <2>1, <2>4, <2>5
<1>20. ASSUME NEW i \in 2..n
       PROVE  /\ p[i] = "h" => p[i - 1] = "%" /\ nth[i] = nth[i - 1]
              /\ p[i] = "l" => p[i - 1] = "h" /\ nth[i] = nth[i - 1]
              /\ p[i] = "%" => p[i - 1] \notin {"%", "h"} /\ nth[i] = nth[i - 1] + 1
              /\ p[i] = "c" =>
                   \/ p[i - 1] \notin {"%", "h"} /\ nth[i] = nth[i - 1] + 1 /\ k.path[nth[i]] = "c"
                   \/ p[i - 1] = "%"
  <2>1. i \in 1..n /\ i - 1 \in 1..n /\ (i - 1) + 1 = i
    BY <1>3
  <2>2. PICK x : x = stream[pos + (i - 1)]
    OBVIOUS
  <2>3. PICK y : y = stream[pos + i]
    OBVIOUS
  <2>4. Link(x, y) /\ x.token = "path" /\ y.token = "path"
    BY <1>15, <2>1, <2>2, <2>3
  <2>5. x.of = first.of
    BY <1>18, <2>1, <2>2
  <2>6. Escapes(k, x, y)
    BY <1>6, <2>4, <2>5 DEF Link, Links
  <2>7. p[i - 1] = x.part /\ nth[i - 1] = x.nth /\ p[i] = y.part /\ nth[i] = y.nth
    BY <1>19, <2>1, <2>2, <2>3
  <2>8. /\ y.part = "h" => x.part = "%" /\ y.nth = x.nth
        /\ y.part = "l" => x.part = "h" /\ y.nth = x.nth
        /\ y.part = "%" => x.part \notin {"%", "h"} /\ y.nth = x.nth + 1
        /\ y.part = "c" =>
             \/ x.part \notin {"%", "h"} /\ y.nth = x.nth + 1 /\ k.path[y.nth] = "c"
             \/ x.part = "%"
    BY <2>4, <2>6 DEF Escapes
  <2> QED BY <2>7, <2>8
<1>21. p \in Seq(PathParts) /\ Len(p) = n
  <2>1. p \in [1..n -> PathParts]
    BY <1>3, <1>19
  <2> QED BY <1>3, <2>1
<1>22. p[1] \in {"%", "c"} /\ nth[1] = a + 1 /\ (p[1] = "c" => k.path[a + 1] = "c")
  <2>1. 1 \in 1..n
    BY <1>3
  <2> QED BY <1>5, <1>13, <1>19, <2>1
<1>23. Walk(p, k.path, n, a, nth)
  BY <1>19, <1>20, <1>21, <1>22, Zenon DEF Walk
<1>24. n \in 1..n /\ pos + n = PieceEnd
  BY <1>1, <1>2, <1>3
<1>25. stream[PieceEnd].of = first.of /\ stream[PieceEnd].nth = nth[n] /\ stream[PieceEnd].part = p[n]
  BY <1>18, <1>19, <1>24
<1> QED BY <1>3, <1>5, <1>6, <1>7, <1>9, <1>10, <1>11, <1>12, <1>23, <1>25

-----------------------------------------------------------------------------
(* The end of a message. *)

LengthKey == <<"HTTP_", "CONTENT", "_", "LENGTH">>
TypeKey == <<"HTTP_", "CONTENT", "_", "TYPE">>

LEMMA TailIs ==
  ASSUME NEW S, NEW s \in Seq(S), NEW t \in Seq(S), Len(s) = Len(t) + 1,
         \A i \in 1..Len(t) : t[i] = s[i + 1]
  PROVE  Tail(s) = t
<1>1. s # <<>> /\ Len(t) \in Nat
  BY EmptySeq
<1>2. PICK u : u = Tail(s)
  OBVIOUS
<1>3. u \in Seq(S) /\ Len(u) = Len(s) - 1 /\ \A i \in 1..Len(u) : u[i] = s[i + 1]
  BY <1>1, <1>2, HeadTailProperties, Zenon
<1>4. u = t
  BY <1>1, <1>3, SeqEqual
<1> QED BY <1>2, <1>4

LEMMA TailOfFour ==
  ASSUME NEW a, NEW b, NEW c, NEW d
  PROVE  Tail(<<a, b, c, d>>) = <<b, c, d>>
<1> DEFINE S == {a, b, c, d}
           s == <<a, b, c, d>>
           t == <<b, c, d>>
<1>1. s \in Seq(S) /\ Len(s) = 4 /\ s[2] = b /\ s[3] = c /\ s[4] = d
  OBVIOUS
<1>2. t \in Seq(S) /\ Len(t) = 3 /\ t[1] = b /\ t[2] = c /\ t[3] = d
  OBVIOUS
<1> HIDE DEF S, s, t
<1>3. ASSUME NEW i \in 1..3
      PROVE  t[i] = s[i + 1]
  <2>1. i = 1 \/ i = 2 \/ i = 3
    OBVIOUS
  <2> QED BY <1>1, <1>2, <2>1
<1>4. Len(s) = Len(t) + 1 /\ \A i \in 1..Len(t) : t[i] = s[i + 1]
  BY <1>1, <1>2, <1>3
<1>5. Tail(s) = t
  BY <1>1, <1>2, <1>4, TailIs
<1> QED BY <1>5 DEF s, t

LEMMA RenamedKey ==
  ASSUME NEW r
  PROVE  /\ r = LengthKey => Renamed(r) = <<"CONTENT", "_", "LENGTH">>
         /\ r = TypeKey => Renamed(r) = <<"CONTENT", "_", "TYPE">>
         /\ r \notin {LengthKey, TypeKey} => Renamed(r) = r
<1>1. Tail(LengthKey) = <<"CONTENT", "_", "LENGTH">>
  BY TailOfFour, Zenon DEF LengthKey
<1>2. Tail(TypeKey) = <<"CONTENT", "_", "TYPE">>
  BY TailOfFour, Zenon DEF TypeKey
<1>3. Renamed(r) = IF r \in {LengthKey, TypeKey} THEN Tail(r) ELSE r
  BY Zenon DEF Renamed, LengthKey, TypeKey
<1> QED BY <1>1, <1>2, <1>3

LEMMA RenamedOther ==
  ASSUME NEW r \in Others
  PROVE  Renamed(r) = r
<1>1. r[1] # "HTTP_"
  BY DEF Others, PATH_INFO, QUERY_STRING, wsgi_input, SERVER_PROTOCOL
<1>2. LengthKey[1] = "HTTP_" /\ TypeKey[1] = "HTTP_"
  BY DEF LengthKey, TypeKey
<1>3. r \notin {LengthKey, TypeKey}
  BY <1>1, <1>2
<1> QED BY <1>3, RenamedKey

(* A key whose first part is HTTP_ keeps its identity.                     *)
LEMMA RenamedRaw ==
  ASSUME NEW r, r[1] = "HTTP_", r \notin Others
  PROVE  /\ Renamed(r) \notin Others /\ Renamed(Renamed(r)) = Renamed(r)
         /\ \A q : q[1] = "HTTP_" /\ Renamed(q) = Renamed(r) => q = r
<1> DEFINE length == <<"CONTENT", "_", "LENGTH">>
           type == <<"CONTENT", "_", "TYPE">>
<1>1. length[1] = "CONTENT" /\ type[1] = "CONTENT" /\ length # type
  <2>1. length[3] # type[3]
    OBVIOUS
  <2> QED BY <2>1
<1>2. \A o \in Others : o[1] # "CONTENT"
  BY DEF Others, PATH_INFO, QUERY_STRING, wsgi_input, SERVER_PROTOCOL
<1>3. LengthKey[1] = "HTTP_" /\ TypeKey[1] = "HTTP_"
  BY DEF LengthKey, TypeKey
<1> HIDE DEF length, type
<1>4. \A q : /\ q = LengthKey => Renamed(q) = length
             /\ q = TypeKey => Renamed(q) = type
             /\ q \notin {LengthKey, TypeKey} => Renamed(q) = q
  BY RenamedKey DEF length, type
<1>5. length \notin {LengthKey, TypeKey} /\ type \notin {LengthKey, TypeKey}
      /\ length \notin Others /\ type \notin Others
  BY <1>1, <1>2, <1>3
<1>6. Renamed(r) \in {r, length, type}
  BY <1>4
<1>7. Renamed(r) \notin Others
  BY <1>5, <1>6
<1>8. Renamed(Renamed(r)) = Renamed(r)
  BY <1>4, <1>5
<1>9. ASSUME NEW q, q[1] = "HTTP_", Renamed(q) = Renamed(r)
      PROVE  q = r
  <2>1. q # length /\ q # type /\ r # length /\ r # type
    BY <1>1, <1>9
  <2> QED BY <1>1, <1>4, <1>9, <2>1
<1> QED BY <1>7, <1>8, <1>9

ValidOnes(k) == {i \in DOMAIN k.headers : Valid(k.headers[i])}

Whole(k, key) ==
  FlattenSeq([i \in DOMAIN k.headers |->
    IF i \in ValidOnes(k) /\ Key(k.headers[i]) = key THEN k.headers[i].value ELSE <<>>])

EnvironKeys(k) ==
  {PATH_INFO, SERVER_PROTOCOL, wsgi_input}
  \cup (IF k.query = <<>> THEN {} ELSE {QUERY_STRING})
  \cup {Key(k.headers[i]) : i \in ValidOnes(k)}

LEMMA EnvironIs ==
  ASSUME NEW k
  PROVE  /\ DOMAIN Environ(k) = EnvironKeys(k)
         /\ Environ(k) = [key \in EnvironKeys(k) |-> Environ(k)[key]]
         /\ Environ(k)[PATH_INFO] = k.path
         /\ Environ(k)[SERVER_PROTOCOL] = <<k.minor>>
         /\ Environ(k)[wsgi_input] = k.body
         /\ QUERY_STRING \in EnvironKeys(k) => Environ(k)[QUERY_STRING] = k.query
         /\ \A key \in EnvironKeys(k) \ Others : Environ(k)[key] = Whole(k, key)
<1> DEFINE At_(key) == CASE key = PATH_INFO -> k.path
                         [] key = SERVER_PROTOCOL -> <<k.minor>>
                         [] key = wsgi_input -> k.body
                         [] key = QUERY_STRING -> k.query
                         [] OTHER -> Whole(k, key)
<1>1. Environ(k) = [key \in EnvironKeys(k) |-> At_(key)]
  BY DEF Environ, EnvironKeys, ValidOnes, Whole
<1>2. /\ At_(PATH_INFO) = k.path /\ At_(SERVER_PROTOCOL) = <<k.minor>>
      /\ At_(wsgi_input) = k.body /\ At_(QUERY_STRING) = k.query
  BY OthersDiffer, Zenon
<1>3. ASSUME NEW key, key \notin Others
      PROVE  At_(key) = Whole(k, key)
  <2>1. key # PATH_INFO /\ key # QUERY_STRING /\ key # wsgi_input /\ key # SERVER_PROTOCOL
    BY <1>3, Zenon DEF Others
  <2> QED BY <2>1, Zenon
<1>4. {PATH_INFO, SERVER_PROTOCOL, wsgi_input} \subseteq EnvironKeys(k)
  BY DEF EnvironKeys
<1> HIDE DEF At_
<1> QED BY <1>1, <1>2, <1>3, <1>4

(* A key of the dict is one of those that bjoern sets or that of a header. *)
LEMMA KeysAre ==
  ASSUME NEW k, Known(k), NEW s, NEW j \in Keys(k, s)
  PROVE  \/ j \in Others /\ j # SERVER_PROTOCOL
         \/ j \in HeaderKeys(k, s) /\ j \notin Others /\ j[1] = "HTTP_"
<1>1. CASE j \in HeaderKeys(k, s)
  <2>1. PICK i \in 1..Len(k.headers) : j = RawKey(k.headers[i])
    BY <1>1 DEF HeaderKeys, Known
  <2>2. k.headers[i].name \in Seq(Parts)
    BY DEF Known
  <2> QED BY <1>1, <2>1, <2>2, RawKeys
<1>2. CASE j \notin HeaderKeys(k, s)
  <2>1. j \in {PATH_INFO, QUERY_STRING, wsgi_input}
    BY <1>2 DEF Keys
  <2> QED BY <2>1, OthersDiffer DEF Others
<1> QED BY <1>1, <1>2

LEMMA RenamedOnce ==
  ASSUME NEW k, Known(k), NEW s, NEW i \in Keys(k, s), NEW j \in Keys(k, s),
         Renamed(i) = Renamed(j)
  PROVE  i = j
<1>1. ASSUME NEW q \in Keys(k, s)
      PROVE  \/ Renamed(q) = q /\ q \in Others
             \/ Renamed(q) \notin Others /\ q[1] = "HTTP_" /\ q \notin Others
  BY <1>1, KeysAre, RenamedOther, RenamedRaw
<1>2. CASE Renamed(i) \in Others
  BY <1>1, <1>2
<1>3. CASE Renamed(i) \notin Others
  BY <1>1, <1>3, RenamedRaw
<1> QED BY <1>2, <1>3

(* on_message_complete: the dict with the last of its names and values.    *)
Finished(env, k) ==
  [key \in {Renamed(j) : j \in DOMAIN env} \cup {SERVER_PROTOCOL, wsgi_input} |->
     IF key = SERVER_PROTOCOL THEN <<k.minor>>
     ELSE IF \E j \in DOMAIN env : Renamed(j) = key
          THEN env[CHOOSE j \in DOMAIN env : Renamed(j) = key]
          ELSE <<>>]

AllSaid(k, s) ==
  IF k.body = <<>> THEN EndsHeaders(s) ELSE s.token = "body" /\ s.nth = Len(k.body)

LEMMA UnderAll ==
  ASSUME NEW k, Known(k), NEW s, Spot(k, s), AllSaid(k, s), NEW i \in ValidOnes(k)
  PROVE  Under(k, s, RawKey(k.headers[i])) = Whole(k, Key(k.headers[i]))
<1>0. i \in 1..Len(k.headers) /\ DOMAIN k.headers = 1..Len(k.headers)
  BY DEF ValidOnes, Known
<1>1. Place(s) \in {"headers", "garbage", "body"} /\ s.header = Len(k.headers)
  BY DEF AllSaid, Spot, EndsHeaders, Place
<1>2. ASSUME NEW x \in 1..Len(k.headers)
      PROVE  Said(k, s, x) = IF Valid(k.headers[x]) THEN k.headers[x].value ELSE <<>>
  <2>1. Begun(s, x) /\ Place(s) # "value"
    BY <1>1 DEF Begun, Spot
  <2> QED BY <2>1 DEF Said
<1>3. ASSUME NEW x \in 1..Len(k.headers)
      PROVE  RawKey(k.headers[x]) = RawKey(k.headers[i]) <=> Key(k.headers[x]) = Key(k.headers[i])
  <2>1. k.headers[x].name \in Seq(Parts) /\ k.headers[i].name \in Seq(Parts)
    BY <1>0 DEF Known
  <2>2. PICK p, q : p = RawKey(k.headers[x]) /\ q = RawKey(k.headers[i])
    OBVIOUS
  <2>3. p[1] = "HTTP_" /\ q[1] = "HTTP_" /\ p \notin Others /\ q \notin Others
    BY <2>1, <2>2, RawKeys
  <2>4. Key(k.headers[x]) = Renamed(p) /\ Key(k.headers[i]) = Renamed(q)
    BY <2>2 DEF Key
  <2>5. Renamed(p) = Renamed(q) => p = q
    BY <2>3, RenamedRaw
  <2> QED BY <2>2, <2>4, <2>5
<1>4. SaidAs(k, s, RawKey(k.headers[i])) =
        [x \in DOMAIN k.headers |->
           IF x \in ValidOnes(k) /\ Key(k.headers[x]) = Key(k.headers[i])
           THEN k.headers[x].value ELSE <<>>]
  <2>1. ASSUME NEW x \in DOMAIN k.headers
        PROVE  (IF RawKey(k.headers[x]) = RawKey(k.headers[i]) THEN Said(k, s, x) ELSE <<>>) =
                 (IF x \in ValidOnes(k) /\ Key(k.headers[x]) = Key(k.headers[i])
                  THEN k.headers[x].value ELSE <<>>)
    <3>1. (x \in ValidOnes(k) <=> Valid(k.headers[x])) /\ x \in 1..Len(k.headers)
      BY <1>0 DEF ValidOnes
    <3>2. CASE RawKey(k.headers[x]) = RawKey(k.headers[i])
      <4>1. Key(k.headers[x]) = Key(k.headers[i])
        BY <1>3, <3>1, <3>2, Zenon
      <4> QED BY <1>2, <3>1, <3>2, <4>1, Zenon
    <3>3. CASE RawKey(k.headers[x]) # RawKey(k.headers[i])
      <4>1. Key(k.headers[x]) # Key(k.headers[i])
        BY <1>3, <3>1, <3>3, Zenon
      <4> QED BY <3>3, <4>1, Zenon
    <3> QED BY <3>2, <3>3, Zenon
  <2> QED BY <2>1, Zenon DEF SaidAs
<1> QED BY <1>4, Zenon DEF Under, Whole

LEMMA KeysAll ==
  ASSUME NEW k, Known(k), NEW s, Spot(k, s), AllSaid(k, s)
  PROVE  /\ s.token # "complete"
         /\ Keys(k, s) = {PATH_INFO} \cup (IF k.query = <<>> THEN {} ELSE {QUERY_STRING})
                         \cup {RawKey(k.headers[i]) : i \in ValidOnes(k)}
                         \cup (IF k.body = <<>> THEN {} ELSE {wsgi_input})
         /\ ValueOf(k, s, PATH_INFO) = k.path
         /\ ValueOf(k, s, QUERY_STRING) = k.query
         /\ k.body # <<>> => ValueOf(k, s, wsgi_input) = k.body
         /\ \A i \in ValidOnes(k) :
              ValueOf(k, s, RawKey(k.headers[i])) = Whole(k, Key(k.headers[i]))
<1>1. /\ Place(s) \in {"headers", "garbage", "body"} /\ s.header = Len(k.headers)
      /\ s.token \notin {"begin", "complete"} /\ (Place(s) = "body" <=> k.body # <<>>)
      /\ k.body # <<>> => s.nth = Len(k.body)
  BY DEF AllSaid, Spot, EndsHeaders, Place
<1>2. HeaderKeys(k, s) = {RawKey(k.headers[i]) : i \in ValidOnes(k)}
  <2>1. \A i \in DOMAIN k.headers : Begun(s, i)
    BY <1>1 DEF Begun, Known
  <2> QED BY <2>1, Zenon DEF HeaderKeys, ValidOnes
<1>3. Keys(k, s) = {PATH_INFO} \cup (IF k.query = <<>> THEN {} ELSE {QUERY_STRING})
                   \cup {RawKey(k.headers[i]) : i \in ValidOnes(k)}
                   \cup (IF k.body = <<>> THEN {} ELSE {wsgi_input})
  BY <1>1, <1>2 DEF Keys
<1>4. ValueOf(k, s, PATH_INFO) = k.path /\ ValueOf(k, s, QUERY_STRING) = k.query
  BY <1>1, Values DEF Upto
<1>5. k.body # <<>> => ValueOf(k, s, wsgi_input) = k.body
  <2>1. SubSeq(k.body, 1, Len(k.body)) = k.body
    BY WholeText DEF Known
  <2> QED BY <1>1, <2>1, Values DEF Upto
<1>6. ASSUME NEW i \in ValidOnes(k)
      PROVE  ValueOf(k, s, RawKey(k.headers[i])) = Whole(k, Key(k.headers[i]))
  <2>1. k.headers[i].name \in Seq(Parts)
    BY DEF Known, ValidOnes
  <2>2. RawKey(k.headers[i]) \notin Others
    BY <2>1, RawKeys
  <2> QED BY <2>2, Values, UnderAll
<1> QED BY <1>1, <1>3, <1>4, <1>5, <1>6

LEMMA FinishedAt ==
  ASSUME NEW k, Known(k), NEW s, s.token # "complete", NEW j \in Keys(k, s)
  PROVE  /\ Renamed(j) \in DOMAIN Finished(SoFar(k, s), k)
         /\ Finished(SoFar(k, s), k)[Renamed(j)] = ValueOf(k, s, j)
<1> PICK env : env = SoFar(k, s)
  OBVIOUS
<1>1. DOMAIN env = Keys(k, s) /\ env[j] = ValueOf(k, s, j)
  BY DEF SoFar
<1>2. Renamed(j) # SERVER_PROTOCOL
  <2>1. SERVER_PROTOCOL \in Others
    BY DEF Others
  <2>2. CASE j \in Others /\ j # SERVER_PROTOCOL
    BY <2>2, RenamedOther
  <2>3. CASE j \notin Others /\ j[1] = "HTTP_"
    BY <2>1, <2>3, RenamedRaw
  <2> QED BY <2>2, <2>3, KeysAre
<1>3. \A i \in Keys(k, s) : Renamed(i) = Renamed(j) => i = j
  BY RenamedOnce
<1>4. (CHOOSE i \in DOMAIN env : Renamed(i) = Renamed(j)) = j
  BY <1>1, <1>3
<1>5. \E i \in DOMAIN env : Renamed(i) = Renamed(j)
  BY <1>1
<1>6. Renamed(j) \in {Renamed(i) : i \in DOMAIN env} \cup {SERVER_PROTOCOL, wsgi_input}
  BY <1>5
<1>7. Finished(env, k)[Renamed(j)] = env[j]
  <2>1. Finished(env, k)[Renamed(j)] =
          IF Renamed(j) = SERVER_PROTOCOL THEN <<k.minor>>
          ELSE IF \E i \in DOMAIN env : Renamed(i) = Renamed(j)
               THEN env[CHOOSE i \in DOMAIN env : Renamed(i) = Renamed(j)]
               ELSE <<>>
    BY <1>6 DEF Finished
  <2> QED BY <1>2, <1>4, <1>5, <2>1, Zenon
<1>8. Renamed(j) \in DOMAIN Finished(env, k)
  BY <1>6 DEF Finished
<1> QED BY <1>1, <1>7, <1>8

LEMMA FinishedRest ==
  ASSUME NEW k, NEW env
  PROVE  /\ DOMAIN Finished(env, k) = {Renamed(j) : j \in DOMAIN env} \cup {SERVER_PROTOCOL, wsgi_input}
         /\ Finished(env, k)[SERVER_PROTOCOL] = <<k.minor>>
         /\ (\A j \in DOMAIN env : Renamed(j) # wsgi_input) => Finished(env, k)[wsgi_input] = <<>>
         /\ Finished(env, k) = [key \in DOMAIN Finished(env, k) |-> Finished(env, k)[key]]
<1>1. wsgi_input # SERVER_PROTOCOL
  BY OthersDiffer
<1> QED BY <1>1 DEF Finished

(* The message is complete, and so is its environ.                         *)
LEMMA Completed ==
  ASSUME NEW k, Known(k), NEW s, Spot(k, s), AllSaid(k, s)
  PROVE  Finished(SoFar(k, s), k) = Environ(k)
<1> PICK env, new, end : env = SoFar(k, s) /\ new = Finished(env, k) /\ end = Environ(k)
  OBVIOUS
<1>1. s.token # "complete" /\ DOMAIN env = Keys(k, s)
  BY KeysAll DEF SoFar
<1>2. \A j \in Keys(k, s) : Renamed(j) \in DOMAIN new /\ new[Renamed(j)] = ValueOf(k, s, j)
  BY <1>1, FinishedAt
<1>3. /\ DOMAIN new = {Renamed(j) : j \in Keys(k, s)} \cup {SERVER_PROTOCOL, wsgi_input}
      /\ new[SERVER_PROTOCOL] = <<k.minor>>
      /\ new = [key \in DOMAIN new |-> new[key]]
      /\ (\A j \in Keys(k, s) : Renamed(j) # wsgi_input) => new[wsgi_input] = <<>>
  BY <1>1, FinishedRest
<1>4. \A o \in Others : Renamed(o) = o
  BY RenamedOther
<1>5. \A i \in ValidOnes(k) : /\ Renamed(RawKey(k.headers[i])) = Key(k.headers[i])
                              /\ Key(k.headers[i]) \notin Others
  <2> TAKE i \in ValidOnes(k)
  <2>1. k.headers[i].name \in Seq(Parts)
    BY DEF Known, ValidOnes
  <2> PICK r : r = RawKey(k.headers[i])
    OBVIOUS
  <2>2. r[1] = "HTTP_" /\ r \notin Others
    BY <2>1, RawKeys
  <2>3. Renamed(r) \notin Others
    BY <2>2, RenamedRaw
  <2> QED BY <2>3 DEF Key
<1>6. PATH_INFO \in Keys(k, s) /\ (k.query # <<>> => QUERY_STRING \in Keys(k, s))
      /\ (wsgi_input \in Keys(k, s) <=> k.body # <<>>)
      /\ \A i \in ValidOnes(k) : RawKey(k.headers[i]) \in Keys(k, s)
  <2>1. \A i \in ValidOnes(k) : RawKey(k.headers[i]) # wsgi_input
    BY RawKeys DEF ValidOnes, Known, Others
  <2> QED BY <2>1, KeysAll, OthersDiffer
<1>7. DOMAIN new = EnvironKeys(k)
  <2>1. ASSUME NEW key \in EnvironKeys(k)
        PROVE  key \in DOMAIN new
    <3>1. \A j \in Keys(k, s) : Renamed(j) \in DOMAIN new
      BY <1>2
    <3>2. key \in {PATH_INFO, SERVER_PROTOCOL, wsgi_input} \/ (key = QUERY_STRING /\ k.query # <<>>)
          \/ \E i \in ValidOnes(k) : key = Key(k.headers[i])
      BY DEF EnvironKeys
    <3>3. PATH_INFO \in Others /\ QUERY_STRING \in Others
      BY DEF Others
    <3> QED BY <1>3, <1>4, <1>5, <1>6, <3>1, <3>2, <3>3
  <2>2. ASSUME NEW j \in Keys(k, s)
        PROVE  Renamed(j) \in EnvironKeys(k)
    <3>1. \/ j = PATH_INFO \/ (j = QUERY_STRING /\ k.query # <<>>) \/ j = wsgi_input
          \/ \E i \in ValidOnes(k) : j = RawKey(k.headers[i])
      BY KeysAll
    <3>2. PATH_INFO \in Others /\ QUERY_STRING \in Others /\ wsgi_input \in Others
      BY DEF Others
    <3> QED BY <1>4, <1>5, <3>1, <3>2 DEF EnvironKeys
  <2>3. {SERVER_PROTOCOL, wsgi_input} \subseteq EnvironKeys(k)
    BY DEF EnvironKeys
  <2> QED BY <1>3, <2>1, <2>2, <2>3
<1>8. ASSUME NEW key \in EnvironKeys(k)
      PROVE  new[key] = end[key]
  <2>1. CASE key = PATH_INFO
    BY <1>2, <1>4, <1>6, <2>1, KeysAll, EnvironIs DEF Others
  <2>2. CASE key = QUERY_STRING
    <3>1. k.query # <<>>
      <4>1. \A i \in ValidOnes(k) : Key(k.headers[i]) # QUERY_STRING
        BY <1>5 DEF Others
      <4> QED BY <2>2, <4>1, OthersDiffer DEF EnvironKeys
    <3> QED BY <1>2, <1>4, <1>6, <2>2, <3>1, KeysAll, EnvironIs DEF Others
  <2>3. CASE key = SERVER_PROTOCOL
    BY <1>3, <2>3, EnvironIs
  <2>4. CASE key = wsgi_input
    <3>1. CASE k.body = <<>>
      <4>1. ASSUME NEW j \in Keys(k, s)
            PROVE  Renamed(j) # wsgi_input
        <5>1. j # wsgi_input
          BY <1>6, <3>1
        <5>2. CASE j \in Others
          BY <1>4, <5>1, <5>2
        <5>3. CASE j \notin Others /\ j[1] = "HTTP_"
          BY <5>3, RenamedRaw DEF Others
        <5> QED BY <5>2, <5>3, KeysAre
      <4>2. new[wsgi_input] = <<>>
        BY <1>3, <4>1
      <4> QED BY <2>4, <3>1, <4>2, EnvironIs
    <3>2. CASE k.body # <<>>
      BY <1>2, <1>4, <1>6, <2>4, <3>2, KeysAll, EnvironIs DEF Others
    <3> QED BY <3>1, <3>2
  <2>5. CASE key \notin Others
    <3>1. PICK i \in ValidOnes(k) : key = Key(k.headers[i])
      BY <2>5 DEF EnvironKeys, Others
    <3>2. new[key] = ValueOf(k, s, RawKey(k.headers[i]))
      BY <1>2, <1>5, <1>6, <3>1
    <3>3. end[key] = Whole(k, key)
      BY <2>5, EnvironIs
    <3> QED BY <3>1, <3>2, <3>3, KeysAll
  <2> QED BY <2>1, <2>2, <2>3, <2>4, <2>5 DEF Others
<1>9. end = [key \in EnvironKeys(k) |-> end[key]]
  BY EnvironIs, Zenon
<1>10. new = [key \in EnvironKeys(k) |-> new[key]]
  BY <1>3, <1>7
<1>11. new = end
  BY <1>8, <1>9, <1>10
<1> QED BY <1>11

-----------------------------------------------------------------------------
(* What has been said is the start of what will have been.                 *)

LEMMA Starts ==
  ASSUME NEW S, NEW t \in Seq(S)
  PROVE  /\ IsPrefix(t, t) /\ IsPrefix(<<>>, t)
         /\ \A b \in Nat : b <= Len(t) => IsPrefix(SubSeq(t, 1, b), t)
<1>1. Join(t, <<>>) = t /\ Join(<<>>, t) = t /\ <<>> \in Seq(S)
  BY Joins, WholeText
<1>2. IsPrefix(t, t) /\ IsPrefix(<<>>, t)
  BY <1>1, JoinPrefix
<1>3. ASSUME NEW b \in Nat, b <= Len(t)
      PROVE  IsPrefix(SubSeq(t, 1, b), t)
  <2>1. Len(t) \in Nat
    OBVIOUS
  <2>2. PICK x, y : x = SubSeq(t, 1, b) /\ y = SubSeq(t, b + 1, Len(t))
    OBVIOUS
  <2>3. x \in Seq(S) /\ y \in Seq(S) /\ Join(x, y) = SubSeq(t, 1, Len(t))
    BY <1>3, <2>1, <2>2, Cuts
  <2>4. SubSeq(t, 1, Len(t)) = t
    BY WholeText
  <2> QED BY <2>2, <2>3, <2>4, JoinPrefix
<1> QED BY <1>2, <1>3

(* The last symbol of a message before it is complete.                     *)
LastSymbol(k) ==
  [token |-> IF k.body = <<>> THEN "stop" ELSE "body", part |-> "headers",
   header |-> Len(k.headers), nth |-> Len(k.body)]

LEMMA LastSpot ==
  ASSUME NEW k, Known(k)
  PROVE  Spot(k, LastSymbol(k)) /\ AllSaid(k, LastSymbol(k))
<1>1. PICK u : u = LastSymbol(k)
  OBVIOUS
<1>2. /\ u.token = IF k.body = <<>> THEN "stop" ELSE "body"
      /\ u.part = "headers" /\ u.header = Len(k.headers) /\ u.nth = Len(k.body)
  BY <1>1 DEF LastSymbol
<1>3. Place(u) = IF k.body = <<>> THEN "headers" ELSE "body"
  BY <1>2 DEF Place
<1>4. Len(k.headers) \in Nat /\ Len(k.body) \in Nat
  BY DEF Known
<1>5. Len(TextOf(k, "body", u.header)) = Len(k.body)
  BY DEF TextOf
<1>6. Spot(k, u)
  BY <1>2, <1>3, <1>4, <1>5 DEF Spot
<1>7. AllSaid(k, u)
  BY <1>2 DEF AllSaid, EndsHeaders
<1> QED BY <1>1, <1>6, <1>7

LEMMA SaidLast ==
  ASSUME NEW k, Known(k), NEW i \in 1..Len(k.headers)
  PROVE  Said(k, LastSymbol(k), i) = IF Valid(k.headers[i]) THEN k.headers[i].value ELSE <<>>
<1>1. PICK u : u = LastSymbol(k)
  OBVIOUS
<1>2. Place(u) \in {"headers", "body"} /\ u.header = Len(k.headers)
  BY <1>1 DEF LastSymbol, Place
<1>3. Len(k.headers) \in Nat
  BY DEF Known
<1>4. Begun(u, i)
  BY <1>2, <1>3 DEF Begun
<1> QED BY <1>1, <1>2, <1>4 DEF Said

(* What there is to come in the header at hand.                            *)
LEMMA StillToSay ==
  ASSUME NEW k, Known(k), NEW s, Spot(k, s), NEW i \in 1..Len(k.headers), i = s.header
  PROVE  \E piece \in Seq(Parts) : Said(k, LastSymbol(k), i) = Join(Said(k, s, i), piece)
<1>1. k.headers[i].value \in Seq(Parts) /\ <<>> \in Seq(Parts)
  BY Joins DEF Known
<1> PICK t : t = k.headers[i].value
  OBVIOUS
<1>2. Join(t, <<>>) = t /\ Join(<<>>, t) = t /\ Join(<<>>, <<>>) = <<>>
  BY <1>1, Joins, WholeText
<1>3. CASE ~Valid(k.headers[i])
  BY <1>1, <1>2, <1>3, SaidLast DEF Said
<1>4. CASE Valid(k.headers[i]) /\ ~Begun(s, i)
  BY <1>1, <1>2, <1>4, SaidLast DEF Said
<1>5. CASE Valid(k.headers[i]) /\ Begun(s, i) /\ Place(s) # "value"
  BY <1>1, <1>2, <1>5, SaidLast DEF Said
<1>6. CASE Valid(k.headers[i]) /\ Begun(s, i) /\ Place(s) = "value"
  <2>1. s.nth \in Nat /\ s.nth <= Len(t) /\ Len(t) \in Nat
    BY <1>1, <1>6 DEF Spot, TextOf
  <2> PICK a, b : a = s.nth /\ b = Len(t)
    OBVIOUS
  <2>2. SubSeq(t, a + 1, b) \in Seq(Parts)
        /\ Join(SubSeq(t, 1, a), SubSeq(t, a + 1, b)) = SubSeq(t, 1, b)
    <3>1. a \in Nat /\ b \in Nat /\ a <= b /\ b <= Len(t) /\ t \in Seq(Parts)
      BY <1>1, <2>1
    <3> QED BY <3>1, Cuts, ZenonT(40)
  <2>3. SubSeq(t, 1, Len(t)) = t
    BY <1>1, WholeText
  <2>4. Said(k, s, i) = SubSeq(t, 1, s.nth) /\ Said(k, LastSymbol(k), i) = t
    BY <1>6, SaidLast DEF Said
  <2> QED BY <2>2, <2>3, <2>4
<1> QED BY <1>3, <1>4, <1>5, <1>6

LEMMA UnderStarts ==
  ASSUME NEW k, Known(k), NEW s, Spot(k, s), NEW i \in ValidOnes(k),
         NEW key, key = RawKey(k.headers[i])
  PROVE  IsPrefix(Under(k, s, key), Whole(k, Key(k.headers[i])))
<1> PICK u, n : u = LastSymbol(k) /\ n = Len(k.headers)
  OBVIOUS
<1>1. Spot(k, u) /\ AllSaid(k, u)
  BY LastSpot
<1>2. Whole(k, Key(k.headers[i])) = Under(k, u, key)
  BY <1>1, UnderAll
<1>3. n \in Nat \ {0} /\ s.header \in Nat /\ s.header <= n
  <2>1. i \in 1..n /\ n \in Nat
    BY DEF ValidOnes, Known
  <2> QED BY <2>1 DEF Spot
<1> PICK old, new : old = SaidAs(k, s, key) /\ new = SaidAs(k, u, key)
  OBVIOUS
<1>4. /\ old \in Seq(Seq(Parts)) /\ Len(old) = n
      /\ \A j \in 1..n : /\ old[j] = IF RawKey(k.headers[j]) = key THEN Said(k, s, j) ELSE <<>>
                         /\ Said(k, s, j) \in Seq(Parts)
  BY SaidTyped
<1>5. /\ new \in Seq(Seq(Parts)) /\ Len(new) = n
      /\ \A j \in 1..n : new[j] = IF RawKey(k.headers[j]) = key THEN Said(k, u, j) ELSE <<>>
  BY <1>1, SaidTyped
<1>6. FlattenSeq(old) \in Seq(Parts) /\ FlattenSeq(new) \in Seq(Parts)
  BY <1>4, <1>5, FlattenSeqType
<1>7. CASE s.header = 0
  <2>1. ASSUME NEW j \in 1..n
        PROVE  old[j] = <<>>
    <3>1. ~Begun(s, j)
      BY <1>7 DEF Begun
    <3> QED BY <1>4, <3>1 DEF Said
  <2>2. FlattenSeq(old) = <<>>
    BY <1>4, <2>1, FlattenNothing
  <2> QED BY <1>2, <1>6, <2>2, Starts DEF Under
<1>8. CASE s.header # 0
  <2> PICK h : h = s.header
    OBVIOUS
  <2>1. h \in 1..n
    BY <1>3, <1>8
  <2>2. PICK piece \in Seq(Parts) : new[h] = Join(old[h], piece)
    <3>1. PICK rest \in Seq(Parts) : Said(k, u, h) = Join(Said(k, s, h), rest)
      BY <2>1, StillToSay
    <3>2. Join(<<>>, <<>>) = <<>> /\ <<>> \in Seq(Parts)
      BY Joins
    <3> QED BY <1>4, <1>5, <2>1, <3>1, <3>2
  <2>3. ASSUME NEW j \in 1..h - 1
        PROVE  new[j] = old[j]
    <3>1. j \in 1..n /\ j < h
      BY <1>3, <2>1
    <3>2. Begun(s, j)
      BY <3>1 DEF Begun
    <3>3. Said(k, s, j) = IF Valid(k.headers[j]) THEN k.headers[j].value ELSE <<>>
      BY <3>1, <3>2 DEF Said
    <3>4. Said(k, u, j) = Said(k, s, j)
      BY <3>1, <3>3, SaidLast
    <3> QED BY <1>4, <1>5, <3>1, <3>4
  <2>4. ASSUME NEW j \in h + 1..n
        PROVE  old[j] = <<>>
    <3>1. j \in 1..n /\ j > h
      BY <1>3, <2>1
    <3>2. ~Begun(s, j)
      BY <2>1, <3>1 DEF Begun
    <3> QED BY <1>4, <3>1, <3>2 DEF Said
  <2>5. GrownAt(Parts, n, h, piece, old, new)
    BY <1>4, <1>5, <2>2, <2>3, <2>4, Zenon DEF GrownAt
  <2>6. PICK rest \in Seq(Parts) : FlattenSeq(new) = Join(Join(FlattenSeq(old), piece), rest)
    BY <1>3, <2>1, <2>5, FlattenGrows
  <2>7. Join(Join(FlattenSeq(old), piece), rest) = Join(FlattenSeq(old), Join(piece, rest))
        /\ Join(piece, rest) \in Seq(Parts)
    BY <1>6, <2>6, Joins
  <2>8. IsPrefix(FlattenSeq(old), FlattenSeq(new))
    BY <1>6, <2>6, <2>7, JoinPrefix
  <2> QED BY <1>2, <2>8 DEF Under
<1> QED BY <1>7, <1>8

(* What the environ holds are texts.                                       *)
LEMMA EnvironTexts ==
  ASSUME NEW k, Known(k), NEW key \in EnvironKeys(k)
  PROVE  /\ \E S : Environ(k)[key] \in Seq(S)
         /\ Renamed(key) = key
<1>1. CASE key \in Others
  <2>1. Renamed(key) = key
    BY <1>1, RenamedOther
  <2>2. <<k.minor>> \in Seq({k.minor})
    OBVIOUS
  <2>3. CASE key = PATH_INFO
    BY <2>1, <2>3, EnvironIs DEF Known
  <2>4. CASE key = QUERY_STRING
    BY <2>1, <2>4, EnvironIs DEF Known
  <2>5. CASE key = SERVER_PROTOCOL
    BY <2>1, <2>2, <2>5, EnvironIs
  <2>6. CASE key = wsgi_input
    BY <2>1, <2>6, EnvironIs DEF Known
  <2> QED BY <1>1, <2>3, <2>4, <2>5, <2>6 DEF Others
<1>2. CASE key \notin Others
  <2>1. PICK i \in ValidOnes(k) : key = Key(k.headers[i])
    BY <1>2 DEF EnvironKeys, Others
  <2>2. k.headers[i].name \in Seq(Parts)
    BY DEF Known, ValidOnes
  <2> PICK r : r = RawKey(k.headers[i])
    OBVIOUS
  <2>3. r[1] = "HTTP_" /\ r \notin Others
    BY <2>2, RawKeys
  <2>4. Renamed(Renamed(r)) = Renamed(r)
    BY <2>3, RenamedRaw
  <2>5. Renamed(key) = key
    BY <2>1, <2>4 DEF Key
  <2>6. Environ(k)[key] = Whole(k, Key(k.headers[i]))
    BY <1>2, <2>1, EnvironIs
  <2>7. Spot(k, LastSymbol(k)) /\ AllSaid(k, LastSymbol(k))
    BY LastSpot
  <2>8. Whole(k, Key(k.headers[i])) = FlattenSeq(SaidAs(k, LastSymbol(k), r))
    BY <2>7, UnderAll DEF Under
  <2>9. SaidAs(k, LastSymbol(k), r) \in Seq(Seq(Parts))
    BY <2>7, SaidTyped
  <2>10. Environ(k)[key] \in Seq(Parts)
    BY <2>6, <2>8, <2>9, FlattenSeqType
  <2> QED BY <2>5, <2>10
<1> QED BY <1>1, <1>2

LEMMA UptoStarts ==
  ASSUME NEW S, NEW t \in Seq(S), NEW s, NEW place, Place(s) = place => s.nth \in Nat /\ s.nth <= Len(t)
  PROVE  IsPrefix(Upto(s, place, t), t)
BY Starts DEF Upto

(* Nothing is in the dict that is not in the message's environ.            *)
LEMMA SoFarStarts ==
  ASSUME NEW k, Known(k), NEW s, Spot(k, s), NEW key \in DOMAIN SoFar(k, s)
  PROVE  /\ Renamed(key) \in DOMAIN Environ(k)
         /\ IsPrefix(SoFar(k, s)[key], Environ(k)[Renamed(key)])
<1>0. DOMAIN Environ(k) = EnvironKeys(k)
  BY EnvironIs
<1>1. CASE s.token = "complete"
  <2>1. SoFar(k, s) = Environ(k)
    BY <1>1 DEF SoFar
  <2>2. key \in EnvironKeys(k)
    BY <1>0, <2>1
  <2> PICK v : v = Environ(k)[key]
    OBVIOUS
  <2>3. Renamed(key) = key /\ \E S : v \in Seq(S)
    BY <2>2, EnvironTexts
  <2>4. IsPrefix(v, v)
    BY <2>3, Starts
  <2> QED BY <1>0, <2>1, <2>2, <2>3, <2>4
<1>2. CASE s.token # "complete"
  <2>1. key \in Keys(k, s) /\ SoFar(k, s)[key] = ValueOf(k, s, key)
    BY <1>2 DEF SoFar
  <2>2. CASE key \in Others /\ key # SERVER_PROTOCOL
    <3>1. Renamed(key) = key
      BY <2>2, RenamedOther
    <3>2. CASE key = PATH_INFO
      <4>1. Place(s) = "path" => s.nth \in Nat /\ s.nth <= Len(k.path)
        BY DEF Spot, TextOf
      <4>2. IsPrefix(Upto(s, "path", k.path), k.path)
        BY <4>1, UptoStarts DEF Known
      <4>3. PATH_INFO \in EnvironKeys(k)
        BY DEF EnvironKeys
      <4> QED BY <1>0, <2>1, <3>1, <3>2, <4>2, <4>3, Values, EnvironIs
    <3>3. CASE key = QUERY_STRING
      <4>1. Place(s) = "query" => s.nth \in Nat /\ s.nth <= Len(k.query)
        BY DEF Spot, TextOf
      <4>2. IsPrefix(Upto(s, "query", k.query), k.query)
        BY <4>1, UptoStarts DEF Known
      <4>3. QUERY_STRING \in EnvironKeys(k)
        <5>1. QUERY_STRING \notin HeaderKeys(k, s)
          BY HeaderKeysOther DEF Others
        <5>2. k.query # <<>>
          BY <2>1, <3>3, <5>1, OthersDiffer DEF Keys
        <5> QED BY <5>2 DEF EnvironKeys
      <4> QED BY <1>0, <2>1, <3>1, <3>3, <4>2, <4>3, Values, EnvironIs
    <3>4. CASE key = wsgi_input
      <4>1. Place(s) = "body" => s.nth \in Nat /\ s.nth <= Len(k.body)
        BY DEF Spot, TextOf
      <4>2. IsPrefix(Upto(s, "body", k.body), k.body)
        BY <4>1, UptoStarts DEF Known
      <4>3. wsgi_input \in EnvironKeys(k)
        BY DEF EnvironKeys
      <4> QED BY <1>0, <2>1, <3>1, <3>4, <4>2, <4>3, Values, EnvironIs
    <3> QED BY <2>2, <3>2, <3>3, <3>4 DEF Others
  <2>3. CASE key \in HeaderKeys(k, s) /\ key \notin Others
    <3>1. PICK i \in ValidOnes(k) : key = RawKey(k.headers[i])
      BY <2>3 DEF HeaderKeys, ValidOnes
    <3>2. Renamed(key) = Key(k.headers[i]) /\ Key(k.headers[i]) \notin Others
      <4>1. k.headers[i].name \in Seq(Parts)
        BY DEF Known, ValidOnes
      <4> PICK r : r = RawKey(k.headers[i])
        OBVIOUS
      <4>2. r[1] = "HTTP_" /\ r \notin Others
        BY <4>1, RawKeys
      <4>3. Renamed(r) \notin Others
        BY <4>2, RenamedRaw
      <4> QED BY <3>1, <4>3 DEF Key
    <3>3. Key(k.headers[i]) \in EnvironKeys(k)
      BY DEF EnvironKeys
    <3>4. Environ(k)[Key(k.headers[i])] = Whole(k, Key(k.headers[i]))
      BY <3>2, <3>3, EnvironIs
    <3>5. IsPrefix(Under(k, s, key), Whole(k, Key(k.headers[i])))
      BY <3>1, UnderStarts
    <3> QED BY <1>0, <2>1, <2>3, <3>2, <3>3, <3>4, <3>5, Values
  <2> QED BY <2>1, <2>2, <2>3, KeysAre
<1> QED BY <1>1, <1>2

-----------------------------------------------------------------------------
(* What a callback has been given. *)

LEMMA NothingUnquoted == unquote_url_inplace(<<>>) = <<>>
<1>1. DOMAIN <<>> = {} /\ <<>> \in Seq(Seq(Parts))
  OBVIOUS
<1> DEFINE decoded ==
      [i \in DOMAIN <<>> |->
         IF \E d \in 1..2 : i - d \in DOMAIN <<>> /\ <<>>[i - d] = "%" THEN <<>>
         ELSE IF <<>>[i] = "%" THEN <<"esc">> ELSE <<(<<>>[i])>>]
<1>2. decoded = <<>>
  BY <1>1
<1> HIDE DEF decoded
<1>3. FlattenSeq(decoded) = <<>>
  <2>1. decoded \in Seq(Seq(Parts)) /\ \A i \in 1..Len(decoded) : decoded[i] = <<>>
    BY <1>1, <1>2
  <2> QED BY <2>1, FlattenNothing
<1>4. unquote_url_inplace(<<>>) =
        IF \E i \in DOMAIN <<>> : <<>>[i] = "%" /\ ~Escape(<<>>, i) THEN <<>>
        ELSE FlattenSeq(decoded)
  BY Zenon DEF unquote_url_inplace, decoded
<1> QED BY <1>3, <1>4

PathSays(k, path, s, u) ==
  /\ Place(u) = "path"
  /\ u.token = "path" => u.part \notin {"%", "h"}
  /\ \E a \in Nat :
       /\ \/ s.token = "begin" /\ a = 0
          \/ s.token = "path" /\ s.nth = a
       /\ a <= u.nth
       /\ path = SubSeq(k.path, a + 1, u.nth)

LEMMA PathSaid ==
  ASSUME Streaming, Due("path"), GoOn, unquote_url_inplace(Piece("path")) # <<>>,
         pos > 0 /\ stream[pos].token = "path" => stream[pos].part \notin {"%", "h"}
  PROVE  /\ pos \in 1..Len(stream) - 1 /\ stream[pos].of = stream[pos + 1].of
         /\ stream[pos] \in Sent /\ stream[pos].token # "complete"
         /\ pos' \in pos + 1..Len(stream) /\ stream[pos'].of = stream[pos + 1].of
         /\ PathSays(messages[stream[pos + 1].of], unquote_url_inplace(Piece("path")),
                     stream[pos], stream[pos'])
<1>0. pos < limit /\ pos \in Nat /\ limit \in Nat /\ Len(stream) \in Nat /\ limit <= Len(stream)
  BY Symbols2 DEF Due
<1>1. stream[pos + 1].token = "path"
  <2>1. CASE stream[pos + 1].token = "stop"
    BY <2>1, NothingUnquoted DEF Piece
  <2> QED BY <2>1 DEF Due
<1>2. /\ pos \in 1..Len(stream) - 1 /\ stream[pos] \in Sent /\ stream[pos + 1] \in Sent
      /\ Link(stream[pos], stream[pos + 1])
  BY <1>0, <1>1, NotFirst
<1>3. PieceEnd \in pos + 1..limit
  BY <1>0, PieceEnds DEF Streaming
<1>4. PICK k, p, n, nth, a, e :
        /\ k = messages[stream[pos + 1].of] /\ p = Piece("path") /\ n = PieceEnd - pos
        /\ nth = [i \in 1..n |-> stream[pos + i].nth] /\ a = stream[pos].nth /\ e = PieceEnd
  OBVIOUS
<1>5. /\ n \in Nat \ {0} /\ a \in Nat
      /\ Walk(p, k.path, n, a, nth)
      /\ stream[pos].of = stream[pos + 1].of
      /\ \/ stream[pos].token = "begin" /\ a = 0
         \/ stream[pos].token = "path"
      /\ stream[e].of = stream[pos + 1].of /\ stream[e].nth = nth[n]
      /\ stream[e].part = p[n]
  <2>1. stream[pos].token = "path" => stream[pos].part \notin {"%", "h"}
    BY <1>2
  <2>2. pos \in 1..Len(stream)
    BY <1>0, <1>2
  <2> QED BY <1>0, <1>1, <1>4, <2>1, <2>2, PathWalk, SMTT(40)
<1>6. k.path \in Seq(Units)
  <2>1. stream[pos + 1].of \in 1..N /\ messages \in [1..N -> MessageKinds]
    BY <1>2, Symbols2, SentTyped
  <2> QED BY <1>4, <2>1, KindKnown DEF Known, Units
<1>7. /\ unquote_url_inplace(p) = SubSeq(k.path, a + 1, nth[n])
      /\ a <= nth[n] /\ nth[n] <= Len(k.path) /\ p[n] \in {"l", "c"}
  <2>1. n \in Nat \ {0} /\ a \in Nat /\ Walk(p, k.path, n, a, nth)
    BY <1>5
  <2>2. unquote_url_inplace(p) # <<>>
    BY <1>4
  <2> QED BY <1>6, <2>1, <2>2, UnquotedText, Zenon
<1>8. /\ stream[e].token = "path" /\ stream[e] \in Sent /\ e \in pos + 1..limit
      /\ stream[pos].token # "complete"
  <2>1. stream[e].token = "path" /\ e \in pos + 1..limit
    BY <1>0, <1>1, <1>3, <1>4, PieceEnds DEF Streaming
  <2>2. e \in 1..Len(stream)
    BY <1>0, <2>1
  <2> QED BY <1>5, <2>1, <2>2, Symbols2
<1>9. /\ pos' \in pos + 1..Len(stream) /\ stream[pos'].of = stream[pos + 1].of
      /\ stream[pos'].nth = nth[n] /\ Place(stream[pos']) = "path"
      /\ stream[pos'].token = "path" => stream[pos'].part = p[n]
  <2>1. CASE e < limit /\ stream[e + 1].token = "stop"
    <3> PICK q : q = e + 1
      OBVIOUS
    <3>1. pos' = q
      BY <1>4, <2>1 DEF GoOn
    <3>2. q \in pos + 1..Len(stream) /\ e \in 1..Len(stream) - 1
      BY <1>0, <1>8, <2>1
    <3>3. Link(stream[e], stream[q])
      BY <3>2, Symbols2
    <3> PICK s, t : s = stream[e] /\ t = stream[q]
      OBVIOUS
    <3>4. t.of = s.of /\ Links(messages[s.of], s, t) /\ t.token = "stop" /\ s.token = "path"
      BY <1>8, <2>1, <3>3 DEF Link
    <3>5. t.part # "headers"
      BY <3>4 DEF Links, EndsHeaders, EndsFields
    <3>6. t.part = "path" /\ t.nth = s.nth
      BY <3>4, <3>5 DEF Links
    <3> QED BY <1>5, <2>1, <3>1, <3>2, <3>4, <3>6 DEF Place
  <2>2. CASE ~(e < limit /\ stream[e + 1].token = "stop")
    <3>1. pos' = e
      BY <1>4, <2>2 DEF GoOn
    <3> QED BY <1>0, <1>5, <1>8, <3>1 DEF Place
  <2> QED BY <2>1, <2>2
<1>10. PathSays(k, unquote_url_inplace(p), stream[pos], stream[pos'])
  BY <1>4, <1>5, <1>7, <1>9 DEF PathSays
<1> QED BY <1>2, <1>4, <1>5, <1>8, <1>9, <1>10

-----------------------------------------------------------------------------
(* The inductive invariant: as long as there is a dict, it holds what the  *)
(* message at hand has said up to the last symbol that was parsed, and     *)
(* field is what its name is so far; what the application has been called  *)
(* with was a dict like that.                                              *)

At(p) == SoFar(messages[stream[p].of], stream[p])

NameOf(k, s) ==
  IF Place(s) = "name" THEN SubSeq(k.headers[s.header].name, 1, s.nth)
  ELSE k.headers[s.header].name

Naming(k, s, between, invalid, name) ==
  /\ Place(s) = "name" => ~between
  /\ Place(s) \in {"name", "value"} =>
       /\ invalid <=> Contains(NameOf(k, s), "_")
       /\ ~invalid => name = <<"HTTP_">> \o Mapped(NameOf(k, s), Dashes)

WholeUnit(s) == s.token = "path" => s.part \notin {"%", "h"}

HoldsAt(k, s, env, between, invalid, name) ==
  env = SoFar(k, s) /\ Naming(k, s, between, invalid, name) /\ WholeUnit(s)

InName ==
  ~dead /\ ~last_call_was_header_value => pos > 0 /\ Place(stream[pos]) = "name"

Held ==
  headers = "dict" /\ ~dead =>
    /\ pos > 0
    /\ HoldsAt(messages[stream[pos].of], stream[pos], environ,
               last_call_was_header_value, invalid_header, field)

Taken ==
  headers = "dict" => \E p \in 1..pos : environ = At(p) /\ Len(calls) < stream[p].of

Counted == Len(calls) <= IF pos = 0 THEN 0 ELSE stream[pos].of

Served == \A n \in DOMAIN calls : \E p \in 1..pos : calls[n] = At(p) /\ n <= stream[p].of

Exact == InName /\ Held /\ Taken /\ Counted /\ Served

LEMMA InitExact == Init => Exact
<1> SUFFICES ASSUME Init PROVE Exact
  OBVIOUS
<1>1. headers = "NULL" /\ last_call_was_header_value = TRUE /\ pos = 0 /\ calls = <<>>
  BY DEF Init
<1>2. InName /\ Held /\ Taken
  <2>1. headers # "dict"
    BY <1>1
  <2> QED BY <1>1, <2>1, Zenon DEF InName, Held, Taken
<1>3. Counted /\ Served
  BY <1>1 DEF Counted, Served
<1> QED BY <1>2, <1>3 DEF Exact

LEMMA LinkOf ==
  ASSUME NEW s, NEW t, Link(s, t)
  PROVE  t.of = s.of \/ t.of = s.of + 1
<1>1. CASE s.token = "complete"
  BY <1>1, Zenon DEF Link
<1>2. CASE s.token # "complete"
  BY <1>2, Zenon DEF Link
<1> QED BY <1>1, <1>2

(* The messages are sent one after the other.                              *)
LEMMA InOrder ==
  ASSUME Streaming, NEW i \in 1..Len(stream), NEW j \in i..Len(stream)
  PROVE  stream[i].of \in Nat /\ stream[j].of \in Nat /\ stream[i].of <= stream[j].of
<1>1. /\ Len(stream) \in Nat /\ \A x \in 1..Len(stream) : stream[x] \in Sent
      /\ \A x \in 1..Len(stream) - 1 : Link(stream[x], stream[x + 1])
  BY Symbols2
<1>2. \A x \in 1..Len(stream) : stream[x].of \in Nat
  BY <1>1, SentTyped
<1> DEFINE n == j - i + 1
           P == {x \in 1..n : stream[i].of <= stream[i + x - 1].of}
<1>3. n \in Nat /\ n > 0 /\ i \in Nat /\ j \in Nat /\ j <= Len(stream) /\ 1 <= i
  BY <1>1
<1>4. 1 \in P
  BY <1>2, <1>3
<1>5. ASSUME NEW x \in 1..n, x + 1 \in 1..n, x \in P
      PROVE  x + 1 \in P
  <2> PICK y : y = i + x - 1
    OBVIOUS
  <2>1. y \in 1..Len(stream) - 1 /\ y + 1 = i + (x + 1) - 1
    BY <1>3, <1>5
  <2>2. stream[y + 1].of = stream[y].of \/ stream[y + 1].of = stream[y].of + 1
    <3>1. Link(stream[y], stream[y + 1])
      BY <1>1, <2>1
    <3> QED BY <3>1, LinkOf, Zenon
  <2>3. stream[y].of \in Nat /\ stream[i].of \in Nat /\ stream[i].of <= stream[y].of
    <3>1. stream[i].of <= stream[i + x - 1].of
      BY <1>5
    <3>2. y \in 1..Len(stream) /\ i \in 1..Len(stream)
      BY <1>3, <2>1
    <3>3. stream[i].of <= stream[y].of
      BY <3>1
    <3> HIDE DEF P
    <3> QED BY <1>2, <3>2, <3>3
  <2>4. stream[i].of <= stream[y + 1].of
    BY <2>2, <2>3
  <2> QED BY <1>5, <2>1, <2>4
<1> HIDE DEF P
<1>6. 1..n \subseteq P
  BY <1>3, <1>4, <1>5, UpTo
<1>7. n \in P
  BY <1>3, <1>6
<1>8. i + n - 1 = j
  BY <1>3
<1>9. stream[i].of <= stream[j].of
  BY <1>7, <1>8 DEF P
<1> QED BY <1>2, <1>3, <1>9

(* What the calls were made with does not depend on how far one is.        *)
LEMMA ServedOn ==
  ASSUME Streaming, Exact, UNCHANGED <<messages, stream, calls>>,
         pos' \in pos..Len(stream)
  PROVE  Counted' /\ Served'
<1>0. pos \in Nat /\ Len(stream) \in Nat
  BY Symbols2
<1>1. Served'
  <2>1. \A p : At(p)' = At(p)
    BY DEF At
  <2>2. ASSUME NEW n \in DOMAIN calls
        PROVE  \E p \in 1..pos' : calls[n] = At(p) /\ n <= stream[p].of
    <3>1. PICK p \in 1..pos : calls[n] = At(p) /\ n <= stream[p].of
      BY Zenon DEF Exact, Served
    <3>2. p \in 1..pos'
      BY <1>0
    <3> QED BY <3>1, <3>2
  <2> QED BY <2>2 DEF Served, At
<1>2. Counted'
  <2>1. Len(calls) \in Nat
    BY DEF Streaming, CallsOK
  <2>2. CASE pos = 0
    <3>1. Len(calls) <= 0
      BY <2>2 DEF Exact, Counted
    <3>2. pos' # 0 => stream[pos'].of \in Nat
      BY <1>0, InOrder
    <3> QED BY <2>1, <3>1, <3>2 DEF Counted
  <2>3. CASE pos # 0
    <3>1. Len(calls) <= stream[pos].of
      BY <2>3 DEF Exact, Counted
    <3>2. pos \in 1..Len(stream) /\ pos' \in pos..Len(stream) /\ pos' # 0
      BY <1>0, <2>3
    <3>3. stream[pos].of \in Nat /\ stream[pos'].of \in Nat /\ stream[pos].of <= stream[pos'].of
      BY <3>2, InOrder
    <3> QED BY <2>1, <3>1, <3>2, <3>3 DEF Counted
  <2> QED BY <2>2, <2>3
<1> QED BY <1>1, <1>2

(* What a callback keeps.                                                  *)
Stepped ==
  /\ pos' \in pos + 1..Len(stream)
  /\ UNCHANGED <<messages, stream, calls>>
  /\ ~last_call_was_header_value' => Place(stream[pos']) = "name"
  /\ headers' = "dict" =>
       /\ headers = "dict" \/ stream[pos + 1].token = "begin"
       /\ HoldsAt(messages[stream[pos'].of], stream[pos'], environ',
                  last_call_was_header_value', invalid_header', field')

LEMMA SteppedKeeps ==
  ASSUME Streaming, Exact, Stepped, pos < limit
  PROVE  Exact'
<1>0. /\ pos \in Nat /\ Len(stream) \in Nat /\ pos' \in 1..Len(stream)
      /\ pos' \in pos..Len(stream) /\ pos + 1 \in 1..Len(stream) /\ pos' \in pos + 1..Len(stream)
  BY Symbols2 DEF Stepped
<1>1. UNCHANGED <<messages, stream, calls>>
  BY DEF Stepped
<1>2. Counted' /\ Served'
  BY <1>0, <1>1, ServedOn
<1>3. pos' > 0
  BY <1>0
<1>4. InName'
  BY <1>1, <1>3, Zenon DEF InName, Stepped
<1>5. Held'
  BY <1>1, <1>3, Zenon DEF Held, Stepped
<1>6. Taken'
  <2> SUFFICES ASSUME headers' = "dict"
               PROVE  \E p \in 1..pos' : environ' = At(p)' /\ Len(calls') < stream'[p].of
    BY Zenon DEF Taken
  <2>1. environ' = At(pos')
    BY DEF Stepped, HoldsAt, At
  <2>2. Len(calls) \in Nat /\ stream[pos'].of \in Nat
    BY <1>0, InOrder DEF Streaming, CallsOK
  <2>3. Len(calls) < stream[pos'].of
    <3>1. CASE headers = "dict"
      <4>1. PICK p \in 1..pos : Len(calls) < stream[p].of
        BY <3>1, Zenon DEF Exact, Taken
      <4>2. p \in 1..Len(stream) /\ pos' \in p..Len(stream)
        BY <1>0
      <4> QED BY <2>2, <4>1, <4>2, InOrder
    <3>2. CASE stream[pos + 1].token = "begin"
      <4>1. stream[pos + 1].of \in Nat /\ stream[pos + 1].of <= stream[pos'].of
        BY <1>0, InOrder
      <4>2. CASE pos = 0
        <5>1. Len(calls) <= 0 /\ stream[1].of = 1
          BY <4>2 DEF Exact, Counted, Streaming, Stream
        <5> QED BY <2>2, <4>1, <4>2, <5>1
      <4>3. CASE pos # 0
        <5>1. pos \in 1..Len(stream) - 1
          BY <1>0, <4>3
        <5>2. Link(stream[pos], stream[pos + 1])
          BY <5>1, Symbols2
        <5> PICK s, t : s = stream[pos] /\ t = stream[pos + 1]
          OBVIOUS
        <5>3. t.of = s.of + 1
          BY <3>2, <5>2 DEF Link, Links
        <5>4. Len(calls) <= s.of /\ s.of \in Nat
          <6>1. pos \in 1..Len(stream) /\ pos \in pos..Len(stream)
            BY <5>1
          <6>2. s.of \in Nat
            BY <6>1, InOrder
          <6> QED BY <4>3, <6>2 DEF Exact, Counted
        <5> QED BY <2>2, <4>1, <5>3, <5>4
      <4> QED BY <4>2, <4>3
    <3>3. headers = "dict" \/ stream[pos + 1].token = "begin"
      BY DEF Stepped
    <3> QED BY <3>1, <3>2, <3>3
  <2>4. PICK q : q = pos'
    OBVIOUS
  <2>5. stream' = stream /\ calls' = calls /\ messages' = messages
    BY <1>1
  <2>6. environ' = At(q)'
    BY <2>1, <2>4, <2>5 DEF At
  <2>7. q \in 1..pos' /\ Len(calls') < stream'[q].of
    BY <1>0, <2>3, <2>4, <2>5
  <2> QED BY <2>6, <2>7
<1> QED BY <1>2, <1>4, <1>5, <1>6, Zenon DEF Exact

-----------------------------------------------------------------------------
(* The callbacks and the handlers, one by one. *)

(* http_parser met an error: what was put into the dict before stays.      *)
LEMMA StoppedKeeps ==
  ASSUME Streaming, Exact, dead' = TRUE, pos' = limit,
         UNCHANGED <<messages, stream, calls, headers, environ>>
  PROVE  Exact'
<1>0. pos \in Nat /\ pos' \in pos..Len(stream)
  BY Symbols2
<1>1. Counted' /\ Served'
  BY <1>0, ServedOn
<1>2. InName' /\ Held'
  BY Zenon DEF InName, Held
<1>3. Taken'
  <2> SUFFICES ASSUME headers' = "dict"
               PROVE  \E p \in 1..pos' : environ' = At(p)' /\ Len(calls') < stream'[p].of
    BY Zenon DEF Taken
  <2>1. PICK p \in 1..pos : environ = At(p) /\ Len(calls) < stream[p].of
    BY Zenon DEF Exact, Taken
  <2>2. p \in 1..pos'
    BY <1>0
  <2>3. environ' = At(p)'
    BY <2>1 DEF At
  <2> QED BY <2>1, <2>2, <2>3
<1> QED BY <1>1, <1>2, <1>3, Zenon DEF Exact

(* Nothing is parsed, and the dict stays, or is given away.                *)
LEMMA KeptInPlace ==
  ASSUME Streaming, Exact, UNCHANGED <<messages, stream, calls, pos, dead>>,
         \/ headers' # "dict"
         \/ UNCHANGED <<headers, environ, invalid_header, field, last_call_was_header_value>>,
         last_call_was_header_value' = TRUE \/ UNCHANGED last_call_was_header_value
  PROVE  Exact'
<1>0. pos \in Nat /\ pos' \in pos..Len(stream)
  BY Symbols2
<1>1. Counted' /\ Served'
  BY <1>0, ServedOn
<1>2. InName'
  BY Zenon DEF InName, Exact
<1>3. Held'
  <2> SUFFICES ASSUME headers' = "dict"
               PROVE  Held'
    BY Zenon DEF Held
  <2> QED BY Zenon DEF Exact, Held
<1>4. Taken'
  <2> SUFFICES ASSUME headers' = "dict"
               PROVE  \E p \in 1..pos' : environ' = At(p)' /\ Len(calls') < stream'[p].of
    BY Zenon DEF Taken
  <2>1. headers = "dict"
    OBVIOUS
  <2>2. PICK p \in 1..pos : environ = At(p) /\ Len(calls) < stream[p].of
    BY <2>1, Zenon DEF Exact, Taken
  <2>3. environ' = At(p)'
    BY <2>2 DEF At
  <2> QED BY <2>2, <2>3
<1> QED BY <1>1, <1>2, <1>3, <1>4, Zenon DEF Exact

(* A name is followed by more of it or by its value.                       *)
LEMMA AfterName ==
  ASSUME NEW s, NEW t \in Sent, Link(s, t), Place(s) = "name", s.token # "complete"
  PROVE  t.token \in {"name", "value"} \/ (t.token = "stop" /\ t.part = "name")
<1>1. t.of = s.of /\ Links(messages[s.of], s, t)
  BY Zenon DEF Link
<1>2. s.token \in {"name", "stop"} /\ (s.token = "stop" => s.part = "name")
  BY DEF Place
<1>3. ~EndsFields(messages[s.of], s) /\ ~EndsHeaders(s) /\ s.token # "body" /\ s.token # "begin"
  BY <1>2 DEF EndsFields, EndsHeaders
<1>4. t.token # "begin" /\ t.token # "path" /\ t.token # "query" /\ t.token # "body"
      /\ t.token # "complete"
  BY <1>1, <1>2, <1>3 DEF Links, Within
<1>5. ~EndsHeaders(t) /\ (t.token = "stop" => t.part = "name")
  <2> PICK k : k = messages[s.of]
    OBVIOUS
  <2>1. Links(k, s, t) /\ ~EndsFields(k, s)
    BY <1>1, <1>3
  <2>2. EndsHeaders(t) => EndsFields(k, s)
    BY <2>1, Zenon DEF Links
  <2>3. t.token = "stop" /\ t.part # "headers" => s.token = t.part
    BY <2>1, Zenon DEF Links
  <2>4. t.token = "stop" => t.part # "headers"
    BY <2>1, <2>2, Zenon DEF EndsHeaders
  <2>5. t.token = "stop" => t.part \in Stopped
    BY SentTyped DEF Meant
  <2> QED BY <1>2, <2>1, <2>2, <2>3, <2>4, <2>5 DEF Stopped
<1>6. t.token \in SentTokens /\ (t.token = "garbage" => EndsHeaders(t))
  BY SentTyped DEF Meant, EndsHeaders
<1> QED BY <1>4, <1>5, <1>6 DEF SentTokens

LEMMA NotInName ==
  ASSUME Streaming, Exact, dead = FALSE, pos < limit,
         Place(stream[pos + 1]) \notin {"name", "value"}
  PROVE  last_call_was_header_value = TRUE
<1> SUFFICES ASSUME last_call_was_header_value # TRUE
             PROVE  FALSE
  OBVIOUS
<1>1. ~last_call_was_header_value
  <2>1. last_call_was_header_value \in BOOLEAN
    BY Zenon DEF Streaming, TypeOK
  <2> QED BY <2>1
<1>2. pos > 0 /\ Place(stream[pos]) = "name"
  BY <1>1, Zenon DEF Exact, InName
<1>3. pos \in 1..Len(stream) - 1 /\ pos + 1 \in 1..Len(stream)
  BY <1>2, Symbols2
<1>4. Link(stream[pos], stream[pos + 1]) /\ stream[pos + 1] \in Sent
  BY <1>3, Symbols2
<1>5. stream[pos].token # "complete"
  BY <1>2 DEF Place
<1>6. Place(stream[pos + 1]) \in {"name", "value"}
  BY <1>2, <1>4, <1>5, AfterName DEF Place
<1> QED BY <1>6

(* The end of the headers says nothing itself.                             *)
LEMMA Reached ==
  ASSUME Streaming, NEW q \in 1..Len(stream), Reaches(q), pos' \in 1..Len(stream),
         Place(stream[q]) \in {"query", "name", "value", "body"},
         NEW k, k = messages[stream[q].of]
  PROVE  /\ stream[pos'].of = stream[q].of /\ SoFar(k, stream[pos']) = SoFar(k, stream[q])
         /\ \/ q = pos'
            \/ /\ Place(stream[pos']) \in {"headers", "garbage"}
               /\ stream[q].token = "stop" /\ stream[q].header = Len(k.headers)
         /\ Place(stream[q]) \in {"name", "body"} => q = pos'
<1>1. CASE q = pos'
  BY <1>1
<1>2. CASE q # pos'
  <2>1. pos' = q + 1 /\ EndsHeaders(stream[pos'])
    BY <1>2 DEF Reaches
  <2>2. q \in 1..Len(stream) - 1
    BY <2>1, Symbols2
  <2> PICK s, t : s = stream[q] /\ t = stream[pos']
    OBVIOUS
  <2>3. Link(s, t) /\ s \in Sent /\ t \in Sent
    BY <2>1, <2>2, Symbols2
  <2>4. s.token # "complete"
    BY DEF Place
  <2>5. t.of = s.of /\ Links(k, s, t)
    BY <2>3, <2>4, Zenon DEF Link
  <2>6. EndsFields(k, s) /\ s.header = Len(k.headers)
    BY <2>1, <2>5, Zenon DEF Links
  <2>7. Place(s) \notin {"name", "body"} /\ s.token = "stop"
    BY <2>6 DEF EndsFields, Place
  <2>8. Place(t) \in {"headers", "garbage"}
    BY <2>1 DEF EndsHeaders, Place
  <2>9. Spot(k, s) /\ Known(k) /\ Spot(k, t)
    BY <2>3, <2>5, Symbols2, SentSpot
  <2>10. SoFar(k, t) = SoFar(k, s)
    BY <2>1, <2>6, <2>9, SameAtStop
  <2> QED BY <2>5, <2>6, <2>7, <2>8, <2>10
<1> QED BY <1>1, <1>2

LEMMA SetAdds ==
  ASSUME headers = "dict", NEW key, NEW val, Set_or_append_header(key, val)
  PROVE  environ' = Added(environ, key, val)
<1>1. headers # "list"
  OBVIOUS
<1> QED BY <1>1, Zenon DEF Set_or_append_header, Added

LEMMA DuePlace ==
  ASSUME NEW token, Due(token), token # "stop"
  PROVE  Place(stream[pos + 1]) = token /\ pos < limit /\ mode = "parsing"
BY DEF Due, Place

LEMMA ParsingAlive ==
  ASSUME Streaming, mode = "parsing"
  PROVE  dead = FALSE
<1>1. TypeOK
  BY DEF Streaming
<1>2. ~dead /\ dead \in BOOLEAN
  BY <1>1, Zenon DEF TypeOK
<1> QED BY <1>2

(* What one callback tells: of the message k, behind s, up to u, and http_ *)
(* parser is at t then.                                                    *)
Tells(token, k, s, u, t, a) ==
  /\ s = stream[pos] /\ s.token # "complete" /\ t = stream[pos'] /\ t.of = stream[pos + 1].of
  /\ k = messages[s.of] /\ k = messages[t.of]
  /\ Known(k) /\ Spot(k, s) /\ Spot(k, u) /\ Place(u) = token
  /\ a \in Nat /\ a <= u.nth /\ From(k, s, token, u.header, a)
  /\ TextOf(k, token, u.header) \in Seq(Parts) /\ u.nth <= Len(TextOf(k, token, u.header))
  /\ Piece(token) = SubSeq(TextOf(k, token, u.header), a + 1, u.nth)
  /\ SoFar(k, t) = SoFar(k, u)
  /\ t \in Sent /\ t.token \in {token, "stop"}
  /\ \/ u = t
     \/ Place(t) \in {"headers", "garbage"} /\ u.token = "stop" /\ u.header = Len(k.headers)
  /\ token \in {"name", "body"} => u = t

LEMMA Told ==
  ASSUME Streaming, NEW token \in {"query", "name", "value", "body"}, Due(token), GoOn
  PROVE  /\ pos < limit /\ dead = FALSE /\ pos > 0 /\ pos' \in pos + 1..Len(stream)
         /\ Place(stream[pos + 1]) = token
         /\ \E k, s, u, t, a : Tells(token, k, s, u, t, a)
<1>1. Place(stream[pos + 1]) = token /\ pos < limit /\ dead = FALSE
  BY DuePlace, ParsingAlive
<1>2. PICK q \in pos + 1..pos', a \in Nat : Says(messages[stream[pos + 1].of], token, a, q)
  BY PieceSaid
<1>3. /\ pos \in 1..Len(stream) - 1 /\ stream[pos].of = stream[pos + 1].of
      /\ stream[pos] \in Sent /\ stream[pos].token # "complete"
  BY PieceSaid
<1>4. pos' \in pos + 1..limit /\ limit \in Nat /\ Len(stream) \in Nat /\ limit <= Len(stream)
  BY <1>1, GoesOn, Symbols2 DEF Streaming
<1>5. /\ pos' \in pos + 1..Len(stream) /\ q \in 1..Len(stream) /\ pos' \in 1..Len(stream)
      /\ pos > 0
  BY <1>2, <1>3, <1>4
<1> PICK k, s, u, t :
      k = messages[stream[pos + 1].of] /\ s = stream[pos] /\ u = stream[q] /\ t = stream[pos']
  OBVIOUS
<1>6. /\ Place(u) = token /\ u.of = stream[pos + 1].of
      /\ a <= u.nth /\ From(k, s, token, u.header, a) /\ Reaches(q)
      /\ TextOf(k, token, u.header) \in Seq(Parts) /\ u.nth <= Len(TextOf(k, token, u.header))
      /\ Piece(token) = SubSeq(TextOf(k, token, u.header), a + 1, u.nth)
  BY <1>2, Zenon DEF Says
<1>7. s \in Sent /\ u \in Sent /\ k = messages[s.of] /\ k = messages[u.of]
  BY <1>3, <1>5, <1>6, Symbols2
<1>8. Known(k) /\ Spot(k, s) /\ Spot(k, u)
  BY <1>7, Symbols2, SentSpot
<1>9. /\ t.of = u.of /\ SoFar(k, t) = SoFar(k, u)
      /\ \/ u = t
         \/ Place(t) \in {"headers", "garbage"} /\ u.token = "stop" /\ u.header = Len(k.headers)
      /\ token \in {"name", "body"} => u = t
  BY <1>5, <1>6, <1>7, Reached
<1>10. t \in Sent /\ t.token \in {token, "stop"}
  <2>1. stream[pos + 1].token \in {token, "stop"}
    BY DEF Due
  <2>2. t.token \in {stream[pos + 1].token, "stop"}
    BY <1>1, <1>4, GoesOn DEF Streaming
  <2> QED BY <1>5, <2>1, <2>2, Symbols2
<1>11. Tells(token, k, s, u, t, a)
  <2>1. t.of = u.of /\ u.of = stream[pos + 1].of
    BY <1>6, <1>9, Zenon
  <2>2. t.of = stream[pos + 1].of
    BY <2>1
  <2> QED BY <1>2, <1>3, <1>6, <1>7, <1>8, <1>9, <1>10, <2>2, Zenon DEF Tells
<1> QED BY <1>1, <1>5, <1>11, Zenon

(* The dict of the message at hand, and what its name is.                  *)
LEMMA HeldNow ==
  ASSUME Exact, dead = FALSE, headers = "dict", NEW s, s = stream[pos],
         NEW k, k = messages[s.of]
  PROVE  HoldsAt(k, s, environ, last_call_was_header_value, invalid_header, field)
<1>1. ~dead
  OBVIOUS
<1> QED BY <1>1, Zenon DEF Exact, Held

LEMMA QueryKeeps ==
  ASSUME Streaming, Exact, on_query_string
  PROVE  Exact'
<1>1. /\ Due("query") /\ GoOn /\ Set_or_append_header(QUERY_STRING, Piece("query"))
      /\ UNCHANGED <<messages, stream, calls, headers, last_call_was_header_value>>
  BY DEF on_query_string, clientVars, fieldVars
<1>2. /\ pos < limit /\ dead = FALSE /\ pos' \in pos + 1..Len(stream)
      /\ Place(stream[pos + 1]) = "query"
  BY <1>1, Told
<1>3. last_call_was_header_value = TRUE
  BY <1>2, NotInName
<1>4. PICK k, s, u, t, a : Tells("query", k, s, u, t, a)
  BY <1>1, Told
<1>5. ASSUME headers' = "dict"
      PROVE  HoldsAt(messages[t.of], t, environ', last_call_was_header_value',
                     invalid_header', field')
  <2>1. Piece("query") = SubSeq(k.query, a + 1, u.nth)
    BY <1>4 DEF Tells, TextOf
  <2>2. SoFar(k, u) = Added(SoFar(k, s), QUERY_STRING, SubSeq(k.query, a + 1, u.nth))
    <3>1. /\ Known(k) /\ Spot(k, s) /\ Spot(k, u) /\ Place(u) = "query"
         /\ a \in Nat /\ a <= u.nth /\ From(k, s, "query", u.header, a)
      BY <1>4, Zenon DEF Tells
    <3> QED BY <3>1, AppendQuery, Zenon
  <2>3. headers = "dict"
    BY <1>1, <1>5
  <2>4. environ = SoFar(k, s)
    BY <1>2, <1>4, <2>3, HeldNow, Zenon DEF Tells, HoldsAt
  <2>5. environ' = Added(environ, QUERY_STRING, Piece("query"))
    BY <1>1, <2>3, SetAdds
  <2>6. environ' = SoFar(k, t) /\ k = messages[t.of]
    BY <1>4, <2>1, <2>2, <2>4, <2>5, Zenon DEF Tells
  <2>7. Place(t) \notin {"name", "value"} /\ t.token # "path"
    BY <1>4 DEF Tells, Place
  <2> QED BY <2>6, <2>7 DEF HoldsAt, Naming, WholeUnit
<1>6. Stepped
  <2>1. t = stream[pos']
    BY <1>4, Zenon DEF Tells
  <2> QED BY <1>1, <1>2, <1>3, <1>5, <2>1 DEF Stepped
<1> QED BY <1>2, <1>6, SteppedKeeps

LEMMA BodyKeeps ==
  ASSUME Streaming, Exact, on_body
  PROVE  Exact'
<1>1. /\ Due("body")
      /\ UNCHANGED <<messages, stream, calls, headers, last_call_was_header_value>>
  BY DEF on_body, clientVars, fieldVars
<1>2. CASE Stop(HTTP_LENGTH_REQUIRED) /\ UNCHANGED environ
  BY <1>1, <1>2, StoppedKeeps DEF Stop
<1>3. CASE headers = "dict" /\ Set_or_append_header(wsgi_input, Piece("body")) /\ GoOn
  <2>2. /\ pos < limit /\ dead = FALSE /\ pos' \in pos + 1..Len(stream)
        /\ Place(stream[pos + 1]) = "body"
    BY <1>1, <1>3, Told
  <2>3. last_call_was_header_value = TRUE
    BY <2>2, NotInName
  <2>4. PICK k, s, u, t, a : Tells("body", k, s, u, t, a)
    BY <1>1, <1>3, Told
  <2>5. HoldsAt(messages[t.of], t, environ', last_call_was_header_value', invalid_header', field')
    <3>1. Piece("body") = SubSeq(k.body, a + 1, u.nth)
      BY <2>4 DEF Tells, TextOf
    <3>2. SoFar(k, u) = Added(SoFar(k, s), wsgi_input, SubSeq(k.body, a + 1, u.nth))
      <4>1. /\ Known(k) /\ Spot(k, s) /\ Spot(k, u) /\ Place(u) = "body"
           /\ a \in Nat /\ a <= u.nth /\ From(k, s, "body", u.header, a)
        BY <2>4, Zenon DEF Tells
      <4> QED BY <4>1, AppendBody, Zenon
    <3>3. environ = SoFar(k, s)
      BY <1>3, <2>2, <2>4, HeldNow, Zenon DEF Tells, HoldsAt
    <3>4. environ' = Added(environ, wsgi_input, Piece("body"))
      BY <1>3, SetAdds
    <3>5. environ' = SoFar(k, t) /\ k = messages[t.of]
      BY <2>4, <3>1, <3>2, <3>3, <3>4, Zenon DEF Tells
    <3>6. Place(t) \notin {"name", "value"} /\ t.token # "path"
      BY <2>4 DEF Tells, Place
    <3> QED BY <3>5, <3>6 DEF HoldsAt, Naming, WholeUnit
  <2>6. Stepped
    <3>1. t = stream[pos']
      BY <2>4, Zenon DEF Tells
    <3> QED BY <1>1, <1>3, <2>2, <2>3, <2>5, <3>1 DEF Stepped
  <2> QED BY <2>2, <2>6, SteppedKeeps
<1> QED BY <1>2, <1>3, Zenon DEF on_body

LEMMA PathKeeps ==
  ASSUME Streaming, Exact, on_path
  PROVE  Exact'
<1> DEFINE path == unquote_url_inplace(Piece("path"))
<1>1. Due("path") /\ UNCHANGED <<messages, stream, calls, last_call_was_header_value>>
  BY DEF on_path, clientVars, fieldVars
<1>2. \/ Stop(error_code) /\ UNCHANGED <<headers, environ>>
      \/ /\ path # <<>> /\ headers # "NULL"
         /\ Set_or_append_header(PATH_INFO, path) /\ GoOn /\ UNCHANGED headers
  BY Zenon DEF on_path, dictVars
<1> HIDE DEF path
<1>3. CASE Stop(error_code) /\ UNCHANGED <<headers, environ>>
  BY <1>1, <1>3, StoppedKeeps DEF Stop
<1>4. CASE path # <<>> /\ Set_or_append_header(PATH_INFO, path) /\ GoOn /\ UNCHANGED headers
  <2>1. Place(stream[pos + 1]) = "path" /\ pos < limit /\ dead = FALSE
    BY <1>1, DuePlace, ParsingAlive
  <2>2. last_call_was_header_value = TRUE
    BY <2>1, NotInName
  <2>3. CASE headers = "dict"
    <3> PICK s, t, k : s = stream[pos] /\ t = stream[pos'] /\ k = messages[stream[pos + 1].of]
      OBVIOUS
    <3>1. pos > 0 => HoldsAt(messages[s.of], s, environ, last_call_was_header_value,
                             invalid_header, field)
      BY <2>1, <2>3, HeldNow
    <3>2. pos > 0 /\ stream[pos].token = "path" => stream[pos].part \notin {"%", "h"}
      BY <3>1, Zenon DEF HoldsAt, WholeUnit
    <3>3. /\ pos \in 1..Len(stream) - 1 /\ s.of = stream[pos + 1].of
          /\ s \in Sent /\ s.token # "complete"
          /\ pos' \in pos + 1..Len(stream) /\ t.of = stream[pos + 1].of
          /\ PathSays(k, path, s, t)
      BY <1>1, <1>4, <3>2, PathSaid DEF path
    <3>4. k = messages[s.of] /\ k = messages[t.of] /\ t \in Sent /\ pos > 0
      BY <3>3, Symbols2
    <3>5. Known(k) /\ Spot(k, s) /\ Spot(k, t)
      BY <3>3, <3>4, Symbols2, SentSpot
    <3>6. PICK a \in Nat : /\ \/ s.token = "begin" /\ a = 0
                              \/ s.token = "path" /\ s.nth = a
                           /\ a <= t.nth /\ path = SubSeq(k.path, a + 1, t.nth)
      BY <3>3, Zenon DEF PathSays
    <3>7. Place(t) = "path" /\ WholeUnit(t)
      BY <3>3, Zenon DEF PathSays, WholeUnit
    <3>8. SoFar(k, t) = Added(SoFar(k, s), PATH_INFO, path)
      <4>1. SoFar(k, t) = Added(SoFar(k, s), PATH_INFO, SubSeq(k.path, a + 1, t.nth))
        <5>1. a \in Nat /\ a <= t.nth
          BY <3>6
        <5>2. (s.token = "begin" /\ a = 0) \/ (s.token = "path" /\ s.nth = a)
          BY <3>6, Zenon
        <5>3. Known(k) /\ Spot(k, s) /\ Spot(k, t) /\ Place(t) = "path"
          BY <3>5, <3>7
        <5>4. CASE s.token = "begin" /\ a = 0
          BY <5>1, <5>3, <5>4, AppendPath
        <5>5. CASE s.token = "path" /\ s.nth = a
          BY <5>1, <5>3, <5>5, AppendPath
        <5> QED BY <5>2, <5>4, <5>5
      <4> QED BY <3>6, <4>1
    <3>9. environ = SoFar(k, s)
      BY <3>1, <3>4, Zenon DEF HoldsAt
    <3>10. environ' = Added(environ, PATH_INFO, path)
      BY <1>4, <2>3, SetAdds
    <3>11. HoldsAt(k, t, environ', last_call_was_header_value', invalid_header', field')
      BY <3>7, <3>8, <3>9, <3>10 DEF HoldsAt, Naming
    <3>12. Stepped
      BY <1>1, <2>2, <2>3, <3>3, <3>4, <3>11 DEF Stepped
    <3> QED BY <2>1, <3>12, SteppedKeeps
  <2>4. CASE headers # "dict"
    <3>1. pos' \in pos + 1..Len(stream)
      BY <1>4, <2>1, GoesOn, Symbols2 DEF Streaming
    <3>2. headers' # "dict"
      BY <1>4, <2>4
    <3>3. Stepped
      BY <1>1, <2>2, <3>1, <3>2 DEF Stepped
    <3> QED BY <2>1, <3>3, SteppedKeeps
  <2> QED BY <2>3, <2>4
<1> QED BY <1>2, <1>3, <1>4

(* Only one symbol begins a message, and only one is its end.              *)
LEMMA SingleStep ==
  ASSUME Streaming, pos < limit, GoOn, stream[pos + 1].token \in {"begin", "complete"}
  PROVE  pos' = pos + 1 /\ pos + 1 \in 1..Len(stream)
<1>0. /\ pos \in Nat /\ limit \in Nat /\ Len(stream) \in Nat /\ limit <= Len(stream)
      /\ \A i \in 1..Len(stream) : stream[i] \in Sent
      /\ \A i \in 1..Len(stream) - 1 : Link(stream[i], stream[i + 1])
  BY Symbols2
<1>1. ASSUME pos + 2 <= limit
      PROVE  stream[pos + 2].token \notin {stream[pos + 1].token, "stop"}
  <2> PICK x : x = pos + 1
    OBVIOUS
  <2>1. x \in 1..Len(stream) - 1 /\ x + 1 = pos + 2 /\ x \in 1..Len(stream)
    BY <1>0, <1>1
  <2>2. Link(stream[x], stream[x + 1]) /\ stream[x] \in Sent
    BY <1>0, <2>1
  <2> PICK s, t : s = stream[x] /\ t = stream[x + 1]
    OBVIOUS
  <2>3. s.token \in {"begin", "complete"} /\ Link(s, t)
    BY <2>2
  <2>4. CASE s.token = "complete"
    <3>1. t.token = "begin"
      BY <2>3, <2>4, Zenon DEF Link
    <3> QED BY <2>1, <2>4, <3>1
  <2>5. CASE s.token = "begin"
    <3>1. Links(messages[s.of], s, t)
      BY <2>3, <2>5 DEF Link
    <3>2. t.token # "begin"
      BY <3>1, Zenon DEF Links
    <3>3. t.token # "stop"
      <4>1. ~EndsFields(messages[s.of], s)
        BY <2>5 DEF EndsFields
      <4>2. ~EndsHeaders(t)
        BY <3>1, <4>1, Zenon DEF Links
      <4>3. t.token = "stop" /\ t.part # "headers" => t.part = s.token
        BY <3>1, Zenon DEF Links
      <4>4. t \in Sent
        BY <1>0, <2>1
      <4>5. t.token = "stop" => t.part \in Stopped
        BY <4>4, SentTyped DEF Meant
      <4>6. "begin" \notin Stopped
        BY DEF Stopped
      <4> QED BY <2>5, <4>2, <4>3, <4>5, <4>6 DEF EndsHeaders
    <3> QED BY <2>1, <2>5, <3>2, <3>3
  <2> QED BY <2>3, <2>4, <2>5
<1>2. PieceEnd \in pos + 1..limit /\ \A i \in pos + 1..PieceEnd : stream[i].token = stream[pos + 1].token
  BY PieceEnds DEF Streaming
<1>3. PieceEnd = pos + 1
  <2> SUFFICES ASSUME PieceEnd # pos + 1
               PROVE  FALSE
    OBVIOUS
  <2>1. pos + 2 \in pos + 1..PieceEnd /\ pos + 2 <= limit
    BY <1>0, <1>2
  <2> QED BY <1>1, <1>2, <2>1
<1>4. ~(PieceEnd < limit /\ stream[PieceEnd + 1].token = "stop")
  <2>1. pos + 1 + 1 = pos + 2 /\ (pos + 1 < limit => pos + 2 <= limit)
    BY <1>0
  <2> QED BY <1>1, <1>3, <2>1
<1>5. pos' = PieceEnd
  BY <1>4, Zenon DEF GoOn
<1> QED BY <1>0, <1>3, <1>5

LEMMA BeginKeeps ==
  ASSUME Streaming, Exact, on_message_begin
  PROVE  Exact'
<1>1. /\ Due("begin") /\ GoOn /\ environ' = <<>>
      /\ UNCHANGED <<messages, stream, calls, last_call_was_header_value>>
  BY DEF on_message_begin, clientVars, fieldVars
<1>2. Place(stream[pos + 1]) = "begin" /\ pos < limit /\ dead = FALSE
  BY <1>1, DuePlace, ParsingAlive
<1>3. last_call_was_header_value = TRUE
  BY <1>2, NotInName
<1>4. pos + 1 \in 1..Len(stream)
  BY <1>2, Symbols2
<1> PICK t, k : t = stream[pos + 1] /\ k = messages[t.of]
  OBVIOUS
<1>5. Known(k) /\ Spot(k, t)
  BY <1>4, Symbols2, SentSpot
<1>6. t.token = "begin" /\ t.header = 0
  BY <1>2, <1>5, Zenon DEF Spot
<1>7. pos' = pos + 1
  BY <1>1, <1>2, <1>6, SingleStep
<1>8. SoFar(k, t) = <<>>
  <2>1. HeaderKeys(k, t) = {}
    <3>1. \A j \in 1..Len(k.headers) : ~Begun(t, j)
      BY <1>6 DEF Begun
    <3> QED BY <1>5, <3>1 DEF HeaderKeys, Known
  <2>2. Keys(k, t) = {}
    BY <1>2, <1>6, <2>1 DEF Keys
  <2> QED BY <1>6, <2>2 DEF SoFar
<1>9. HoldsAt(k, t, environ', last_call_was_header_value', invalid_header', field')
  BY <1>1, <1>2, <1>6, <1>8 DEF HoldsAt, Naming, WholeUnit
<1>10. pos' \in pos + 1..Len(stream)
  BY <1>2, <1>7, Symbols2
<1>11. Stepped
  BY <1>1, <1>3, <1>6, <1>7, <1>9, <1>10 DEF Stepped
<1> QED BY <1>2, <1>11, SteppedKeeps

LEMMA HeadersEndKeeps ==
  ASSUME Streaming, Exact, HeadersEnd
  PROVE  Exact'
<1>1. /\ mode = "parsing" /\ pos < limit /\ GoOn
      /\ stream[pos + 1].token = "stop" /\ stream[pos + 1].part = "headers"
      /\ UNCHANGED <<messages, stream, calls, headers, environ, field, invalid_header,
                     last_call_was_header_value>>
  BY DEF HeadersEnd, clientVars, dictVars, fieldVars
<1>2. Place(stream[pos + 1]) = "headers" /\ dead = FALSE
  BY <1>1, ParsingAlive DEF Place
<1>3. last_call_was_header_value = TRUE
  BY <1>1, <1>2, NotInName
<1>4. pos' = pos + 1
  <2>1. pos' \in {pos + 1, pos + 2} /\ (pos' = pos + 2 => stream[pos + 1].part # "headers")
    BY <1>1, StopRun
  <2> QED BY <1>1, <2>1
<1>5. /\ pos \in 1..Len(stream) - 1 /\ stream[pos] \in Sent /\ stream[pos + 1] \in Sent
      /\ Link(stream[pos], stream[pos + 1])
  BY <1>1, NotFirst
<1> PICK s, t, k : s = stream[pos] /\ t = stream[pos + 1] /\ k = messages[s.of]
  OBVIOUS
<1>6. s.token # "complete" /\ t.of = s.of /\ Links(k, s, t)
  <2>1. s.token # "complete"
    <3>1. s.token = "complete" => t.token = "begin"
      BY <1>5, Zenon DEF Link
    <3> QED BY <1>1, <3>1
  <2> QED BY <1>5, <2>1, Zenon DEF Link
<1>7. EndsHeaders(t) /\ EndsFields(k, s) /\ s.header = Len(k.headers)
  <2>1. EndsHeaders(t)
    BY <1>1 DEF EndsHeaders
  <2> QED BY <1>6, <2>1, Zenon DEF Links
<1>8. Known(k) /\ Spot(k, s) /\ Spot(k, t)
  BY <1>5, <1>6, Symbols2, SentSpot
<1>9. SoFar(k, t) = SoFar(k, s)
  BY <1>7, <1>8, SameAtStop
<1>10. ASSUME headers = "dict"
       PROVE  HoldsAt(k, t, environ, last_call_was_header_value, invalid_header, field)
  <2>1. environ = SoFar(k, s)
    BY <1>2, <1>10, HeldNow, Zenon DEF HoldsAt
  <2>2. Place(t) = "headers" /\ t.token = "stop"
    BY <1>1, <1>2
  <2> QED BY <1>9, <2>1, <2>2 DEF HoldsAt, Naming, WholeUnit
<1>11. Stepped
  <2>1. pos' \in pos + 1..Len(stream)
    BY <1>4, <1>5
  <2> QED BY <1>1, <1>3, <1>4, <1>6, <1>10, <2>1 DEF Stepped
<1> QED BY <1>1, <1>11, SteppedKeeps

LEMMA CompleteKeeps ==
  ASSUME Streaming, Exact, on_message_complete
  PROVE  Exact'
<1>1. /\ Due("complete") /\ headers = "dict" /\ GoOn
      /\ environ' = Finished(environ, messages[stream[pos + 1].of])
      /\ UNCHANGED <<messages, stream, calls, headers, last_call_was_header_value>>
  BY DEF on_message_complete, Finished, Current, clientVars, fieldVars
<1>2. Place(stream[pos + 1]) = "complete" /\ pos < limit /\ dead = FALSE
  BY <1>1, DuePlace, ParsingAlive
<1>3. last_call_was_header_value = TRUE
  BY <1>2, NotInName
<1>4. pos + 1 \in 1..Len(stream)
  BY <1>2, Symbols2
<1> PICK s, t, k : s = stream[pos] /\ t = stream[pos + 1] /\ k = messages[t.of]
  OBVIOUS
<1>5. Known(k) /\ Spot(k, t)
  BY <1>4, Symbols2, SentSpot
<1>6. t.token = "complete"
  BY <1>2, <1>5, Zenon DEF Spot
<1>7. pos' = pos + 1
  BY <1>1, <1>2, <1>6, SingleStep
<1>8. pos \in 1..Len(stream) - 1 /\ s \in Sent /\ Link(s, t) /\ pos > 0
  <2>1. stream[pos + 1].token # "begin"
    BY <1>6
  <2> QED BY <1>2, <2>1, NotFirst
<1>9. t.of = s.of /\ AllSaid(k, s)
  <2>1. s.token # "complete"
    <3>1. s.token = "complete" => t.token = "begin"
      BY <1>8, Zenon DEF Link
    <3> QED BY <1>6, <3>1
  <2>2. t.of = s.of /\ Links(k, s, t)
    BY <1>8, <2>1, Zenon DEF Link
  <2>3. AllSaid(k, s)
    BY <1>6, <2>2, Zenon DEF Links, AllSaid
  <2> QED BY <2>2, <2>3
<1>10. Spot(k, s)
  BY <1>8, <1>9, Symbols2, SentSpot
<1>11. environ = SoFar(k, s)
  BY <1>1, <1>2, <1>9, HeldNow, Zenon DEF HoldsAt
<1>12. environ' = SoFar(k, t)
  <2>1. environ' = Environ(k)
    BY <1>1, <1>5, <1>9, <1>10, <1>11, Completed
  <2> QED BY <1>6, <2>1 DEF SoFar
<1>13. HoldsAt(k, t, environ', last_call_was_header_value', invalid_header', field')
  BY <1>2, <1>6, <1>12 DEF HoldsAt, Naming, WholeUnit
<1>14. Stepped
  <2>1. pos' \in pos + 1..Len(stream)
    BY <1>7, <1>8
  <2> QED BY <1>1, <1>3, <1>7, <1>13, <2>1 DEF Stepped
<1> QED BY <1>2, <1>14, SteppedKeeps

LEMMA JoinAt ==
  ASSUME NEW S, NEW s \in Seq(S), NEW t \in Seq(S),
         NEW m \in Nat, m = Len(s), NEW n \in Nat, n = Len(t), NEW j, j = Join(s, t)
  PROVE  /\ j \in Seq(S) /\ Len(j) = m + n
         /\ \A i \in 1..m : j[i] = s[i]
         /\ \A i \in 1..n : j[m + i] = t[i]
BY ConcatProperties DEF Join

LEMMA SingleIn ==
  ASSUME NEW S, NEW e \in S
  PROVE  <<e>> \in Seq(S)
OBVIOUS

(* A name is put together, and looked through, piece by piece.             *)
LEMMA ContainsJoin ==
  ASSUME NEW S, NEW s \in Seq(S), NEW t \in Seq(S), NEW e
  PROVE  Contains(Join(s, t), e) <=> Contains(s, e) \/ Contains(t, e)
<1>1. PICK u, m, n : u = s \o t /\ m = Len(s) /\ n = Len(t)
  OBVIOUS
<1>2. /\ m \in Nat /\ n \in Nat /\ Len(u) = m + n
      /\ \A i \in 1..m : u[i] = s[i]
      /\ \A i \in 1..n : u[m + i] = t[i]
  BY <1>1, ConcatProperties
<1>3. ASSUME NEW i \in 1..m, s[i] = e
      PROVE  Contains(u, e)
  <2>1. i \in 1..Len(u) /\ u[i] = e
    BY <1>2, <1>3
  <2> QED BY <2>1 DEF Contains
<1>4. ASSUME NEW i \in 1..n, t[i] = e
      PROVE  Contains(u, e)
  <2>1. m + i \in 1..Len(u) /\ u[m + i] = e
    BY <1>2, <1>4
  <2> QED BY <2>1 DEF Contains
<1>5. Contains(s, e) \/ Contains(t, e) => Contains(u, e)
  BY <1>1, <1>3, <1>4 DEF Contains
<1>6. Contains(u, e) => Contains(s, e) \/ Contains(t, e)
  BY <1>1, ContainsConcat
<1> QED BY <1>1, <1>5, <1>6 DEF Join

DashedParts == {Dashes(x) : x \in Parts} \cup {"HTTP_"}

LEMMA DashedJoin ==
  ASSUME NEW s \in Seq(Parts), NEW t \in Seq(Parts)
  PROVE  /\ Mapped(s, Dashes) \in Seq(DashedParts) /\ Mapped(t, Dashes) \in Seq(DashedParts)
         /\ Mapped(Join(s, t), Dashes) = Join(Mapped(s, Dashes), Mapped(t, Dashes))
<1>1. PICK m, n, u : m = Len(s) /\ n = Len(t) /\ u = Join(s, t)
  OBVIOUS
<1>2. /\ u \in Seq(Parts) /\ m \in Nat /\ n \in Nat /\ Len(u) = m + n
      /\ \A i \in 1..m : u[i] = s[i]
      /\ \A i \in 1..n : u[m + i] = t[i]
  BY <1>1, ConcatProperties DEF Join
<1>3. ASSUME NEW x \in Seq(Parts)
      PROVE  /\ Mapped(x, Dashes) \in Seq(DashedParts) /\ Len(Mapped(x, Dashes)) = Len(x)
             /\ \A i \in 1..Len(x) : Mapped(x, Dashes)[i] = Dashes(x[i])
  BY DEF Mapped, DashedParts
<1>4. PICK ms, mt, mu : ms = Mapped(s, Dashes) /\ mt = Mapped(t, Dashes) /\ mu = Mapped(u, Dashes)
  OBVIOUS
<1>5. /\ ms \in Seq(DashedParts) /\ Len(ms) = m /\ \A i \in 1..m : ms[i] = Dashes(s[i])
      /\ mt \in Seq(DashedParts) /\ Len(mt) = n /\ \A i \in 1..n : mt[i] = Dashes(t[i])
      /\ mu \in Seq(DashedParts) /\ Len(mu) = m + n /\ \A i \in 1..m + n : mu[i] = Dashes(u[i])
  BY <1>1, <1>2, <1>3, <1>4
<1>6. PICK j : j = ms \o mt
  OBVIOUS
<1>7. /\ j \in Seq(DashedParts) /\ Len(j) = m + n
      /\ \A i \in 1..m : j[i] = ms[i]
      /\ \A i \in 1..n : j[m + i] = mt[i]
  <2>1. ms \in Seq(DashedParts) /\ mt \in Seq(DashedParts) /\ m = Len(ms) /\ n = Len(mt)
        /\ m \in Nat /\ n \in Nat
    BY <1>2, <1>5
  <2>2. j = Join(ms, mt)
    BY <1>6 DEF Join
  <2> QED BY <2>1, <2>2, JoinAt, SMTT(40)
<1>8. ASSUME NEW i \in 1..m + n
      PROVE  mu[i] = j[i]
  <2>1. CASE i <= m
    <3>1. i \in 1..m
      BY <1>2, <2>1
    <3> QED BY <1>2, <1>5, <1>7, <3>1
  <2>2. CASE i > m
    <3>1. PICK x : x = i - m
      OBVIOUS
    <3>2. x \in 1..n /\ m + x = i
      BY <1>2, <2>2, <3>1
    <3>3. mu[m + x] = Dashes(u[m + x]) /\ u[m + x] = t[x] /\ mt[x] = Dashes(t[x]) /\ j[m + x] = mt[x]
      BY <1>2, <1>5, <1>7, <3>2
    <3> QED BY <3>2, <3>3
  <2> QED BY <1>2, <2>1, <2>2
<1>9. mu = j
  BY <1>5, <1>7, <1>8, SeqEqual
<1> QED BY <1>1, <1>4, <1>5, <1>6, <1>9 DEF Join

(* What on_header_field makes of the next piece of a name.                 *)
NamedSo(name, text) ==
  ~Contains(text, "_") => name = <<"HTTP_">> \o Mapped(text, Dashes)

LEMMA NameGrows ==
  ASSUME NEW old \in Seq(Parts), NEW piece \in Seq(Parts), NEW new, new = Join(old, piece),
         NEW name, NamedSo(name, old)
  PROVE  /\ Contains(new, "_") <=> Contains(old, "_") \/ Contains(piece, "_")
         /\ NamedSo(name \o Mapped(piece, Dashes), new)
<1>1. Contains(new, "_") <=> Contains(old, "_") \/ Contains(piece, "_")
  BY ContainsJoin
<1>2. ASSUME ~Contains(new, "_")
      PROVE  name \o Mapped(piece, Dashes) = <<"HTTP_">> \o Mapped(new, Dashes)
  <2>1. PICK x, y : x = Mapped(old, Dashes) /\ y = Mapped(piece, Dashes)
    OBVIOUS
  <2>2. x \in Seq(DashedParts) /\ y \in Seq(DashedParts) /\ Mapped(new, Dashes) = Join(x, y)
    BY <2>1, DashedJoin
  <2>3. PICK h : h = <<"HTTP_">>
    OBVIOUS
  <2>4. h \in Seq(DashedParts)
    <3>1. "HTTP_" \in DashedParts
      BY DEF DashedParts
    <3> QED BY <2>3, <3>1, SingleIn, Zenon
  <2>5. name = Join(h, x)
    BY <1>1, <1>2, <2>1, <2>3, Zenon DEF Join, NamedSo
  <2>6. Join(Join(h, x), y) = Join(h, Join(x, y))
    <3>1. \A p, q, r \in Seq(DashedParts) : Join(Join(p, q), r) = Join(p, Join(q, r))
      BY Joins, Zenon
    <3> QED BY <2>2, <2>4, <3>1, Zenon
  <2> QED BY <2>1, <2>2, <2>3, <2>5, <2>6, Zenon DEF Join
<1> QED BY <1>1, <1>2, Zenon DEF NamedSo

LEMMA NoNameYet ==
  Mapped(<<>>, Dashes) = <<>> /\ ~Contains(<<>>, "_") /\ <<"HTTP_">> \o <<>> = <<"HTTP_">>
<1>1. Mapped(<<>>, Dashes) = <<>>
  BY DEF Mapped
<1>2. ~Contains(<<>>, "_")
  BY DEF Contains
<1>3. <<"HTTP_">> \o <<>> = <<"HTTP_">>
  OBVIOUS
<1> QED BY <1>1, <1>2, <1>3

LEMMA FieldKeeps ==
  ASSUME Streaming, Exact, on_header_field
  PROVE  Exact'
<1> DEFINE name == IF last_call_was_header_value THEN <<"HTTP_">> ELSE field
           piece == Piece("name")
<1>1. /\ Due("name") /\ GoOn
      /\ last_call_was_header_value' = FALSE
      /\ UNCHANGED <<messages, stream, calls, headers, environ>>
  BY DEF on_header_field, clientVars, dictVars
<1>2. /\ invalid_header' = (\/ invalid_header /\ ~last_call_was_header_value
                            \/ Contains(piece, "_"))
      /\ field' = IF invalid_header' THEN name ELSE name \o Mapped(piece, Dashes)
  BY Zenon DEF on_header_field
<1> HIDE DEF name, piece
<1>3. /\ pos < limit /\ dead = FALSE /\ pos > 0 /\ pos' \in pos + 1..Len(stream)
  BY <1>1, Told
<1>4. PICK k, s, t, a : Tells("name", k, s, t, t, a)
  <2>1. PICK k, s, u, t, a : Tells("name", k, s, u, t, a)
    BY <1>1, Told
  <2>2. u = t
    BY <2>1, Zenon DEF Tells
  <2> QED BY <2>1, <2>2, Zenon
<1>5. Place(t) = "name" /\ t = stream[pos'] /\ s = stream[pos] /\ k = messages[s.of]
      /\ k = messages[t.of] /\ From(k, s, "name", t.header, a)
  BY <1>4, Zenon DEF Tells
<1>6. ASSUME headers = "dict"
      PROVE  HoldsAt(k, t, environ, FALSE, invalid_header', field')
  <2> PICK text : text = k.headers[t.header].name
    OBVIOUS
  <2>1. /\ text \in Seq(Parts) /\ a \in Nat /\ t.nth \in Nat /\ a <= t.nth /\ t.nth <= Len(text)
        /\ piece = SubSeq(text, a + 1, t.nth)
    <3>1. TextOf(k, "name", t.header) = text
      BY DEF TextOf
    <3> QED BY <1>4, <3>1, Zenon DEF Tells, Spot, piece
  <2> PICK old, new : old = SubSeq(text, 1, a) /\ new = SubSeq(text, 1, t.nth)
    OBVIOUS
  <2>2. old \in Seq(Parts) /\ piece \in Seq(Parts) /\ new = Join(old, piece)
    BY <2>1, Cuts
  <2>3. HoldsAt(k, s, environ, last_call_was_header_value, invalid_header, field)
    BY <1>3, <1>5, <1>6, HeldNow
  <2>4. ((invalid_header /\ ~last_call_was_header_value) <=> Contains(old, "_"))
        /\ NamedSo(name, old)
    <3>1. CASE s.token = "name"
      <4>1. s.header = t.header /\ s.nth = a
        BY <1>5, <3>1, Zenon DEF From
      <4>2. Place(s) = "name" /\ NameOf(k, s) = old
        BY <3>1, <4>1 DEF Place, NameOf
      <4>3. /\ ~last_call_was_header_value
            /\ invalid_header <=> Contains(old, "_")
            /\ ~invalid_header => field = <<"HTTP_">> \o Mapped(old, Dashes)
        BY <2>3, <4>2 DEF HoldsAt, Naming
      <4> QED BY <4>3, Zenon DEF name, NamedSo
    <3>2. CASE s.token # "name"
      <4>1. a = 0 /\ EndsFields(k, s)
        BY <1>5, <3>2 DEF From, Begins
      <4>2. Place(s) # "name"
        BY <4>1 DEF EndsFields, Place
      <4>3. last_call_was_header_value
        BY <1>3, <1>5, <4>2, Zenon DEF Exact, InName
      <4>4. old = <<>>
        BY <2>1, <4>1, WholeText
      <4> QED BY <4>3, <4>4, NoNameYet, Zenon DEF name, NamedSo
    <3> QED BY <3>1, <3>2
  <2>5. /\ Contains(new, "_") <=> Contains(old, "_") \/ Contains(piece, "_")
        /\ NamedSo(name \o Mapped(piece, Dashes), new)
    BY <2>2, <2>4, NameGrows
  <2>6. invalid_header' <=> Contains(new, "_")
    BY <1>2, <2>4, <2>5, Zenon
  <2>7. ~invalid_header' => field' = <<"HTTP_">> \o Mapped(new, Dashes)
    BY <1>2, <2>5, <2>6, Zenon DEF NamedSo
  <2>8. NameOf(k, t) = new
    BY <1>5 DEF NameOf
  <2>9. Naming(k, t, FALSE, invalid_header', field')
    BY <2>6, <2>7, <2>8, Zenon DEF Naming
  <2>10. SoFar(k, t) = SoFar(k, s)
    <3>1. Known(k) /\ Spot(k, s) /\ Spot(k, t)
      BY <1>4, Zenon DEF Tells
    <3> QED BY <1>5, <3>1, SameAtName
  <2>11. WholeUnit(t)
    BY <1>5 DEF WholeUnit, Place
  <2> QED BY <2>3, <2>9, <2>10, <2>11, Zenon DEF HoldsAt
<1>7. Stepped
  BY <1>1, <1>3, <1>5, <1>6, Zenon DEF Stepped
<1> QED BY <1>3, <1>7, SteppedKeeps

(* The name is complete when its value comes.                              *)
LEMMA NameOfValue ==
  ASSUME NEW k, Known(k), NEW s, Spot(k, s), NEW h, h = s.header,
         (s.token = "value") \/ (s.token = "stop" /\ s.part = "name"),
         NEW env, NEW between, NEW invalid, NEW name, HoldsAt(k, s, env, between, invalid, name)
  PROVE  /\ h \in 1..Len(k.headers)
         /\ invalid <=> ~Valid(k.headers[h])
         /\ ~invalid => name = RawKey(k.headers[h])
<1>1. Place(s) \in {"name", "value"}
  BY DEF Place
<1>2. h \in 1..Len(k.headers)
  BY <1>1 DEF Spot, Known
<1>3. NameOf(k, s) = k.headers[h].name
  <2>1. CASE s.token = "value"
    BY <2>1 DEF NameOf, Place
  <2>2. CASE s.token = "stop" /\ s.part = "name"
    <3>1. s.nth = Len(k.headers[h].name)
      BY <2>2 DEF Spot, TextOf
    <3>2. k.headers[h].name \in Seq(Parts)
      BY <1>2 DEF Known
    <3> QED BY <2>2, <3>1, <3>2, WholeText DEF NameOf, Place
  <2> QED BY <2>1, <2>2
<1>4. /\ invalid <=> Contains(NameOf(k, s), "_")
      /\ ~invalid => name = <<"HTTP_">> \o Mapped(NameOf(k, s), Dashes)
  BY <1>1, Zenon DEF HoldsAt, Naming
<1> QED BY <1>2, <1>3, <1>4, Zenon DEF Valid, RawKey

LEMMA ValueKeeps ==
  ASSUME Streaming, Exact, on_header_value
  PROVE  Exact'
<1>1. /\ Due("value") /\ GoOn /\ last_call_was_header_value' = TRUE
      /\ UNCHANGED <<messages, stream, calls, headers, field, invalid_header>>
  BY DEF on_header_value, clientVars
<1>2. \/ invalid_header /\ UNCHANGED environ
      \/ ~invalid_header /\ Set_or_append_header(field, Piece("value"))
  BY Zenon DEF on_header_value
<1>3. pos < limit /\ dead = FALSE /\ pos > 0 /\ pos' \in pos + 1..Len(stream)
  BY <1>1, Told
<1>4. PICK k, s, u, t, a : Tells("value", k, s, u, t, a)
  BY <1>1, Told
<1>5. t = stream[pos'] /\ s = stream[pos] /\ k = messages[s.of] /\ k = messages[t.of]
  BY <1>4, Zenon DEF Tells
<1>6. ASSUME headers = "dict"
      PROVE  HoldsAt(k, t, environ', TRUE, invalid_header, field)
  <2> PICK h : h = u.header
    OBVIOUS
  <2>1. /\ Known(k) /\ Spot(k, s) /\ Spot(k, u) /\ Place(u) = "value"
        /\ a \in Nat /\ a <= u.nth /\ From(k, s, "value", u.header, a)
        /\ SoFar(k, t) = SoFar(k, u)
        /\ u = t \/ Place(t) \in {"headers", "garbage"}
    BY <1>4, Zenon DEF Tells
  <2>2. (s.token = "value" \/ (s.token = "stop" /\ s.part = "name")) /\ h = s.header
    BY <2>1 DEF From, Begins
  <2>3. HoldsAt(k, s, environ, last_call_was_header_value, invalid_header, field)
    BY <1>3, <1>5, <1>6, HeldNow
  <2>4. /\ h \in 1..Len(k.headers)
        /\ invalid_header <=> ~Valid(k.headers[h])
        /\ ~invalid_header => field = RawKey(k.headers[h])
    BY <2>1, <2>2, <2>3, NameOfValue
  <2>5. environ = SoFar(k, s)
    BY <2>3 DEF HoldsAt
  <2>6. environ' = SoFar(k, u)
    <3>1. CASE invalid_header /\ UNCHANGED environ
      <4>1. ~Valid(k.headers[u.header])
        BY <2>4, <3>1, Zenon
      <4>2. SoFar(k, u) = SoFar(k, s)
        BY <2>1, <4>1, SameWhenIgnored
      <4> QED BY <2>5, <3>1, <4>2
    <3>2. CASE ~invalid_header /\ Set_or_append_header(field, Piece("value"))
      <4>1. environ' = Added(environ, field, Piece("value"))
        BY <1>6, <3>2, SetAdds
      <4>2. Valid(k.headers[h])
        BY <2>4, <3>2, Zenon
      <4>3. SoFar(k, u) = Added(SoFar(k, s), RawKey(k.headers[h]),
                                SubSeq(k.headers[h].value, a + 1, u.nth))
        BY <2>1, <4>2, AppendValue
      <4>4. Piece("value") = SubSeq(k.headers[h].value, a + 1, u.nth)
        BY <1>4 DEF Tells, TextOf
      <4>5. field = RawKey(k.headers[h])
        BY <2>4, <3>2, Zenon
      <4> QED BY <2>5, <4>1, <4>3, <4>4, <4>5, Zenon
    <3> QED BY <1>2, <3>1, <3>2, Zenon
  <2>7. WholeUnit(t)
    BY <2>1 DEF WholeUnit, Place
  <2>8. Naming(k, t, TRUE, invalid_header, field)
    <3>1. CASE u = t
      <4>1. Place(t) = "value"
        BY <2>1, <3>1
      <4>2. NameOf(k, t) = k.headers[h].name
        BY <3>1, <4>1 DEF NameOf
      <4> QED BY <2>4, <4>1, <4>2, Zenon DEF Naming, Valid, RawKey
    <3>2. CASE Place(t) \in {"headers", "garbage"}
      BY <3>2 DEF Naming
    <3> QED BY <2>1, <3>1, <3>2
  <2> QED BY <2>1, <2>6, <2>7, <2>8, Zenon DEF HoldsAt
<1>7. Stepped
  BY <1>1, <1>3, <1>5, <1>6, Zenon DEF Stepped
<1> QED BY <1>3, <1>7, SteppedKeeps

(* The application is called with the dict.                                *)
LEMMA CallKeeps ==
  ASSUME Streaming, Exact, CallApplication
  PROVE  Exact'
<1>1. /\ headers = "dict" /\ calls' = Append(calls, environ)
      /\ UNCHANGED <<messages, stream, pos, dead>>
  BY DEF CallApplication, clientVars, parserVars
<1>2. headers' # "dict" /\ (last_call_was_header_value' = TRUE \/ UNCHANGED last_call_was_header_value)
  BY DEF CallApplication, Resume, Reset, fieldVars
<1>3. InName'
  <2>1. stream' = stream /\ pos' = pos /\ dead' = dead
    BY <1>1
  <2>2. CASE last_call_was_header_value' = TRUE
    BY <2>2, Zenon DEF InName
  <2>3. CASE last_call_was_header_value' = last_call_was_header_value
    <3>1. InName
      BY Zenon DEF Exact
    <3> QED BY <2>1, <2>3, <3>1, Zenon DEF InName
  <2> QED BY <1>2, <2>2, <2>3
<1>4. Held' /\ Taken'
  BY <1>2, Zenon DEF Held, Taken
<1>5. PICK p \in 1..pos : environ = At(p) /\ Len(calls) < stream[p].of
  BY <1>1, Zenon DEF Exact, Taken
<1>6. /\ pos \in 1..Len(stream) /\ p \in 1..Len(stream) /\ pos \in p..Len(stream)
  BY <1>5, Symbols2
<1>7. stream[p].of \in Nat /\ stream[pos].of \in Nat /\ stream[p].of <= stream[pos].of
  BY <1>6, InOrder
<1>8. PICK n : n = Len(calls)
  OBVIOUS
<1>9. /\ n \in Nat /\ DOMAIN calls = 1..n /\ Len(calls') = n + 1 /\ DOMAIN calls' = 1..n + 1
      /\ calls'[n + 1] = environ /\ \A i \in 1..n : calls'[i] = calls[i]
  <2>1. PICK S : calls \in Seq(S)
    BY DEF Streaming, CallsOK
  <2>2. calls \in Seq(S \cup {environ})
    BY <2>1
  <2> QED BY <1>1, <1>8, <2>2
<1>10. Counted'
  <2>1. n + 1 <= stream[pos].of
    BY <1>5, <1>7, <1>8, <1>9
  <2> QED BY <1>1, <1>6, <1>9, <2>1 DEF Counted
<1>11. Served'
  <2>1. ASSUME NEW i \in 1..n + 1
        PROVE  \E q \in 1..pos : calls'[i] = At(q) /\ i <= stream[q].of
    <3>1. CASE i = n + 1
      BY <1>5, <1>7, <1>8, <1>9, <3>1
    <3>2. CASE i # n + 1
      <4>1. i \in DOMAIN calls /\ calls'[i] = calls[i]
        BY <1>9, <3>2
      <4>2. PICK q \in 1..pos : calls[i] = At(q) /\ i <= stream[q].of
        BY <4>1, Zenon DEF Exact, Served
      <4> QED BY <4>1, <4>2
    <3> QED BY <3>1, <3>2
  <2>2. pos' = pos /\ stream' = stream /\ messages' = messages
    BY <1>1
  <2>3. \A i \in DOMAIN calls' : \E q \in 1..pos' : calls'[i] = At(q)' /\ i <= stream'[q].of
    BY <1>9, <2>1, <2>2 DEF At
  <2> QED BY <2>3, Zenon DEF Served
<1> QED BY <1>3, <1>4, <1>10, <1>11, Zenon DEF Exact

(* Every step, of the callbacks and of the handlers.                       *)
LEMMA ExactKept ==
  ASSUME Streaming, Exact, [ev_io_on_read]_vars
  PROVE  Exact'
<1> USE DEF clientVars, readVars, parserVars, dictVars, fieldVars
<1>1. CASE \E to \in pos + 1..Len(stream) : ReadData(to)
  BY <1>1, KeptInPlace DEF ReadData
<1>2. CASE Callback
  <2>1. CASE on_message_begin
    BY <2>1, BeginKeeps
  <2>2. CASE on_path
    BY <2>2, PathKeeps
  <2>3. CASE on_query_string
    BY <2>3, QueryKeeps
  <2>4. CASE on_header_field
    BY <2>4, FieldKeeps
  <2>5. CASE on_header_value
    BY <2>5, ValueKeeps
  <2>6. CASE on_body
    BY <2>6, BodyKeeps
  <2>7. CASE on_message_complete
    BY <2>7, CompleteKeeps
  <2> QED BY <1>2, <2>1, <2>2, <2>3, <2>4, <2>5, <2>6, <2>7 DEF Callback
<1>3. CASE HeadersEnd
  BY <1>3, HeadersEndKeeps
<1>4. CASE Garbage
  BY <1>4, StoppedKeeps DEF Garbage, Stop
<1>5. CASE LosesDict \/ CallLosesDict
  BY <1>5, KeptInPlace DEF LosesDict, CallLosesDict, Crash
<1>6. CASE Refuse
  BY <1>6, KeptInPlace DEF Refuse, Resume, Reset
<1>7. CASE CallApplication
  BY <1>7, CallKeeps
<1>8. CASE CallWithList
  BY <1>8, KeptInPlace DEF CallWithList, Resume, Reset
<1>9. CASE Continue100 \/ WaitForMore
  BY <1>9, KeptInPlace DEF Continue100, WaitForMore, Resume
<1>10. CASE UNCHANGED vars
  BY <1>10, KeptInPlace DEF vars
<1> QED BY <1>1, <1>2, <1>3, <1>4, <1>5, <1>6, <1>7, <1>8, <1>9, <1>10 DEF ev_io_on_read

(* request.c: while there is a dict, it holds what the message at hand has *)
(* said up to the last symbol that http_parser has read, and so did every  *)
(* dict that the application was called with.                              *)
THEOREM ExactCorrect == Spec => []Exact
<1>1. Init => Exact
  BY InitExact
<1>2. Streaming /\ Exact /\ [ev_io_on_read]_vars => Exact'
  BY ExactKept
<1> QED BY <1>1, <1>2, StreamingCorrect, PTL DEF Spec

-----------------------------------------------------------------------------
(* What the application is called with. *)

(* request.c: what the application finds in an environ was said, as it is  *)
(* or as the start of it, by one message that it was not called for yet,   *)
(* for any messages in any pieces and also when a read() goes on behind a  *)
(* message.                                                                *)
THEOREM OfOneMessage == Spec => []EnvironOfOne
<1>1. ASSUME Streaming, Exact
      PROVE  EnvironOfOne
  <2>1. ASSUME NEW n \in DOMAIN calls
        PROVE  \E m \in n..N : \A key \in DOMAIN calls[n] :
                 /\ Renamed(key) \in DOMAIN Environ(messages[m])
                 /\ IsPrefix(calls[n][key], Environ(messages[m])[Renamed(key)])
    <3>1. PICK p \in 1..pos : calls[n] = At(p) /\ n <= stream[p].of
      BY <1>1, Zenon DEF Exact, Served
    <3>2. p \in 1..Len(stream) /\ stream[p] \in Sent
      BY <1>1, <3>1, Symbols2
    <3> PICK m, s, k : m = stream[p].of /\ s = stream[p] /\ k = messages[m]
      OBVIOUS
    <3>3. m \in 1..N /\ Spot(k, s) /\ Known(k)
      BY <1>1, <3>2, Symbols2, SentSpot, SentTyped
    <3>4. n \in Nat
      BY <1>1 DEF Streaming, CallsOK
    <3>5. m \in n..N
      BY <3>1, <3>3, <3>4, ParsingAssumption
    <3>6. calls[n] = SoFar(k, s)
      BY <3>1 DEF At
    <3>7. ASSUME NEW key \in DOMAIN calls[n]
          PROVE  /\ Renamed(key) \in DOMAIN Environ(k)
                 /\ IsPrefix(calls[n][key], Environ(k)[Renamed(key)])
      BY <3>3, <3>6, SoFarStarts
    <3> QED BY <3>5, <3>7
  <2> QED BY <2>1, Zenon DEF EnvironOfOne
<1> QED BY <1>1, StreamingCorrect, ExactCorrect, PTL

LEMMA EnvironsKept ==
  ASSUME BodyIsExpected, Streaming, Turn, Exact, EnvironExact, [ev_io_on_read]_vars
  PROVE  EnvironExact'
<1> USE DEF clientVars, readVars
<1>1. (~overran' => ~overran) /\ UNCHANGED messages
  <2> USE DEF Streaming, TypeOK
  <2>1. CASE \E to \in pos + 1..Len(stream) : ReadData(to)
    BY <2>1, Zenon DEF ReadData
  <2>2. CASE Callback
    BY <2>2, Zenon DEF Callback, on_message_begin, on_path, on_query_string, on_header_field,
                       on_header_value, on_body, on_message_complete
  <2>3. CASE HeadersEnd \/ Garbage \/ LosesDict \/ CallLosesDict
    BY <2>3, Zenon DEF HeadersEnd, Garbage, LosesDict, CallLosesDict, Crash
  <2>4. CASE Refuse \/ CallApplication \/ CallWithList \/ Continue100 \/ WaitForMore
    BY <2>4, Zenon DEF Refuse, CallApplication, CallWithList, Continue100, WaitForMore
  <2>5. CASE UNCHANGED vars
    BY <2>5, Zenon DEF vars
  <2> QED BY <2>1, <2>2, <2>3, <2>4, <2>5, Zenon DEF ev_io_on_read
<1>2. CASE CallApplication
  <2> SUFFICES ASSUME ~overran'
               PROVE  \A i \in DOMAIN calls' : calls'[i] = Environ(messages'[i])
    BY Zenon DEF EnvironExact
  <2>1. ~overran
    BY <1>1, Zenon
  <2>2. headers = "dict" /\ calls' = Append(calls, environ) /\ parse_finished
    BY <1>2, Zenon DEF CallApplication
  <2>3. ~dead /\ pos > 0 /\ ~Underway /\ Len(calls) = stream[pos].of - 1
    BY <2>1, <2>2, Zenon DEF Turn
  <2>4. pos \in 1..Len(stream) /\ stream[pos] \in Sent /\ stream[pos].of \in Nat
    <3>1. pos \in 1..Len(stream) /\ stream[pos] \in Sent
      BY <2>3, Symbols2
    <3> QED BY <3>1, SentTyped
  <2> PICK n, s : n = Len(calls) /\ s = stream[pos]
    OBVIOUS
  <2>5. s.token = "complete"
    BY <2>3, Zenon DEF Underway
  <2>6. environ = Environ(messages[s.of])
    <3>1. environ = SoFar(messages[s.of], s)
      BY <2>2, <2>3, Zenon DEF Exact, Held, HoldsAt
    <3> QED BY <2>5, <3>1 DEF SoFar
  <2>7. /\ n \in Nat /\ DOMAIN calls = 1..n /\ DOMAIN calls' = 1..n + 1
        /\ calls'[n + 1] = environ /\ \A i \in 1..n : calls'[i] = calls[i]
    <3>1. PICK S : calls \in Seq(S)
      BY DEF Streaming, CallsOK
    <3>2. calls \in Seq(S \cup {environ})
      BY <3>1
    <3> QED BY <2>2, <3>2
  <2>8. n + 1 = s.of
    BY <2>3, <2>4
  <2>9. \A i \in 1..n : calls[i] = Environ(messages[i])
    BY <2>1, <2>7, Zenon DEF EnvironExact
  <2>10. ASSUME NEW i \in 1..n + 1
         PROVE  calls'[i] = Environ(messages[i])
    <3>1. i = n + 1 \/ i \in 1..n
      BY <2>7
    <3> QED BY <2>6, <2>7, <2>8, <2>9, <3>1
  <2> QED BY <1>1, <2>7, <2>10
<1>3. CASE ~CallApplication
  <2>1. UNCHANGED calls
    <3>1. CASE \E to \in pos + 1..Len(stream) : ReadData(to)
      BY <3>1, Zenon DEF ReadData
    <3>2. CASE Callback
      BY <3>2, Zenon DEF Callback, on_message_begin, on_path, on_query_string, on_header_field,
                         on_header_value, on_body, on_message_complete
    <3>3. CASE HeadersEnd \/ Garbage \/ LosesDict \/ CallLosesDict
      BY <3>3, Zenon DEF HeadersEnd, Garbage, LosesDict, CallLosesDict, Crash
    <3>4. CASE Refuse \/ CallWithList \/ Continue100 \/ WaitForMore
      BY <3>4, Zenon DEF Refuse, CallWithList, Continue100, WaitForMore
    <3>5. CASE UNCHANGED vars
      BY <3>5, Zenon DEF vars
    <3> QED BY <1>3, <3>1, <3>2, <3>3, <3>4, <3>5, Zenon DEF ev_io_on_read
  <2> QED BY <1>1, <2>1, Zenon DEF EnvironExact
<1> QED BY <1>2, <1>3

(* request.c, server.c:229-249: the n-th call of the application is made   *)
(* with just what the n-th message says, for any messages in any pieces,   *)
(* as long as no read() goes on behind a message, if a client that asks    *)
(* for 100 Continue has a body to send.                                    *)
THEOREM ExactEnvirons ==
  ASSUME BodyIsExpected
  PROVE  Spec => []EnvironExact
<1>1. Init => EnvironExact
  <2> SUFFICES ASSUME Init PROVE EnvironExact
    OBVIOUS
  <2>1. calls = <<>>
    BY DEF Init
  <2> QED BY <2>1 DEF EnvironExact
<1>2. Streaming /\ Turn /\ Exact /\ EnvironExact /\ [ev_io_on_read]_vars => EnvironExact'
  BY EnvironsKept
<1>3. Spec => []Turn
  BY TurnCorrect
<1> QED BY <1>1, <1>2, <1>3, StreamingCorrect, ExactCorrect, PTL DEF Spec

(* The application is never called more often than messages have begun,    *)
(* wherever read()s end.  When bjoern reads on for a message, and no       *)
(* read() has gone on behind one, it has been called once for every        *)
(* message before this one and not for this one, whether bytes are still   *)
(* missing or 100 Continue was sent (server.c:230-268).                    *)
THEOREM CalledOnce ==
  ASSUME BodyIsExpected
  PROVE  Spec => []CalledInTurn
<1>1. Streaming /\ Turn /\ Exact => CalledInTurn
  <2> SUFFICES ASSUME Streaming, Turn, Exact, ~overran, ~dead, mode = "reading",
                      pos < Len(stream)
               PROVE  Len(calls) = stream[pos + 1].of - 1
    BY DEF CalledInTurn, Exact, Counted
  <2>1. /\ TypeOK /\ stream \in Seq(Sent) /\ Stream
    BY DEF Streaming
  <2>2. pos \in Nat /\ Len(stream) \in Nat
    BY <2>1, Places
  <2>3. ~parse_finished
    BY DEF Turn
  <2>4. IF Underway THEN Len(calls) = stream[pos].of - 1
        ELSE Len(calls) = IF pos = 0 THEN 0 ELSE stream[pos].of
    BY <2>3 DEF Turn
  <2>5. CASE pos = 0
    BY <2>1, <2>4, <2>5 DEF Underway, Stream
  <2>6. CASE pos # 0
    <3>1. pos \in 1..Len(stream) - 1 /\ pos + 1 \in 1..Len(stream)
      BY <2>2, <2>6
    <3>2. Follows(stream[pos], stream[pos + 1])
      BY <2>1, <3>1 DEF Stream
    <3>3. stream[pos].of \in Int
      <4>1. stream[pos] \in Sent
        BY <2>1, <2>2, <3>1
      <4>2. stream[pos].of \in 1..N
        BY <4>1 DEF Sent
      <4> QED BY <4>2
    <3>4. CASE Underway
      BY <2>4, <3>2, <3>4 DEF Follows, Underway
    <3>5. CASE ~Underway
      <4>1. Len(calls) = stream[pos].of
        BY <2>4, <2>6, <3>5
      <4>2. stream[pos + 1].of = stream[pos].of + 1
        BY <2>2, <2>6, <3>2, <3>5 DEF Follows, Underway
      <4> QED BY <3>3, <4>1, <4>2
    <3> QED BY <3>4, <3>5
  <2> QED BY <2>5, <2>6
<1>2. Spec => []Turn
  BY TurnCorrect
<1> QED BY <1>1, <1>2, StreamingCorrect, ExactCorrect, PTL

-----------------------------------------------------------------------------
(* How a read() is used up: the handlers wait until all of it is parsed, a *)
(* callback is given what is left of its token in this read(), and cut     *)
(* tells where read()s have ended.                                         *)

AtEnd == mode \in {"reading", "parsed", "refused"} /\ ~dead => pos = limit

NewPiece ==
  mode = "parsing" /\ pos # from =>
    /\ pos > 0
    /\ stream[pos + 1].token # stream[pos].token \/ stream[pos + 1].token = "stop"

CutsKnown == ~cut /\ ~dead => ~Sensitive(limit) /\ ~Sensitive(from)

ReadFrom == AtEnd /\ NewPiece /\ CutsKnown

LEMMA InitReadFrom == Init => ReadFrom
<1> SUFFICES ASSUME Init PROVE ReadFrom
  OBVIOUS
<1>1. /\ mode = "reading" /\ pos = 0 /\ limit = 0 /\ from = 0
      /\ stream \in Seq(Sent) /\ stream[1].token = "begin"
  BY StreamCorrect DEF Init, Stream
<1>2. ~Sensitive(0)
  BY <1>1 DEF Sensitive
<1>3. AtEnd /\ NewPiece
  BY <1>1, Zenon DEF AtEnd, NewPiece
<1>4. CutsKnown
  BY <1>1, <1>2, Zenon DEF CutsKnown
<1> QED BY <1>3, <1>4 DEF ReadFrom

LEMMA GoOnReads ==
  ASSUME Streaming, ReadFrom, pos < limit, dead = FALSE, GoOn,
         UNCHANGED <<stream, from, limit, cut>>
  PROVE  ReadFrom'
<1>0. pos \in Nat /\ limit \in Nat /\ Len(stream) \in Nat /\ limit <= Len(stream)
  BY Symbols2
<1>1. mode' = (IF pos' = limit THEN "parsed" ELSE "parsing") /\ dead' = dead
      /\ pos' \in pos + 1..limit
  BY GoesOn DEF Streaming
<1>2. AtEnd'
  BY <1>1 DEF AtEnd
<1>3. NewPiece'
  <2> SUFFICES ASSUME mode' = "parsing"
               PROVE  /\ pos' > 0
                      /\ stream[pos' + 1].token # stream[pos'].token \/ stream[pos' + 1].token = "stop"
    BY Zenon DEF NewPiece
  <2>1. pos' # limit /\ pos' > 0
    BY <1>0, <1>1
  <2>2. PICK e : e = PieceEnd
    OBVIOUS
  <2>3. /\ e \in pos + 1..limit
        /\ \A i \in pos + 1..e : stream[i].token = stream[pos + 1].token
        /\ e = limit \/ stream[e + 1].token # stream[pos + 1].token
    BY <2>2, PieceEnds DEF Streaming
  <2>4. stream[e].token = stream[pos + 1].token
    BY <1>0, <2>3
  <2>5. CASE e < limit /\ stream[e + 1].token = "stop"
    <3>1. pos' = e + 1
      BY <2>2, <2>5 DEF GoOn
    <3> QED BY <2>1, <2>5, <3>1
  <2>6. CASE ~(e < limit /\ stream[e + 1].token = "stop")
    <3>1. pos' = e
      BY <2>2, <2>6 DEF GoOn
    <3> QED BY <2>1, <2>3, <2>4, <3>1
  <2> QED BY <2>5, <2>6
<1>4. CutsKnown'
  BY <1>1, Zenon DEF CutsKnown, Sensitive, ReadFrom
<1> QED BY <1>2, <1>3, <1>4 DEF ReadFrom

LEMMA StopReads ==
  ASSUME dead' = TRUE, mode' = "parsed"
  PROVE  ReadFrom'
BY Zenon DEF ReadFrom, AtEnd, NewPiece, CutsKnown

LEMMA WaitReads ==
  ASSUME ReadFrom, UNCHANGED <<stream, from, limit, cut, pos, dead>>,
         mode' = mode \/ mode' = "crashed" \/ (mode = "parsed" /\ mode' \in {"reading", "refused"})
  PROVE  ReadFrom'
<1>1. AtEnd'
  BY DEF ReadFrom, AtEnd
<1>2. NewPiece'
  <2>1. mode' = "parsing" => mode = "parsing"
    OBVIOUS
  <2> QED BY <2>1, Zenon DEF ReadFrom, NewPiece
<1>3. CutsKnown'
  BY Zenon DEF ReadFrom, CutsKnown, Sensitive
<1> QED BY <1>1, <1>2, <1>3 DEF ReadFrom

LEMMA DataReads ==
  ASSUME Streaming, ReadFrom, NEW to \in pos + 1..Len(stream), ReadData(to)
  PROVE  ReadFrom'
<1>1. /\ mode = "reading" /\ from' = pos /\ limit' = to /\ UNCHANGED <<stream, pos, dead>>
      /\ mode' = IF dead THEN "parsed" ELSE "parsing"
      /\ cut' = (cut \/ Sensitive(to))
  BY DEF ReadData, clientVars, parserVars
<1>2. AtEnd' /\ NewPiece'
  <2>1. CASE dead
    BY <1>1, <2>1, Zenon DEF AtEnd, NewPiece
  <2>2. CASE ~dead
    <3>1. mode' = "parsing" /\ pos' = from'
      BY <1>1, <2>2
    <3> QED BY <3>1 DEF AtEnd, NewPiece
  <2> QED BY <2>1, <2>2
<1>3. CutsKnown'
  <2> SUFFICES ASSUME ~cut', ~dead'
               PROVE  ~Sensitive(to) /\ ~Sensitive(pos)
    BY <1>1, Zenon DEF CutsKnown, Sensitive
  <2>1. ~cut /\ ~Sensitive(to) /\ ~dead
    BY <1>1, Zenon
  <2>2. pos = limit
    BY <1>1, <2>1 DEF ReadFrom, AtEnd
  <2> QED BY <2>1, <2>2, Zenon DEF ReadFrom, CutsKnown
<1> QED BY <1>2, <1>3 DEF ReadFrom

LEMMA ReadFromKept ==
  ASSUME Streaming, ReadFrom, [ev_io_on_read]_vars
  PROVE  ReadFrom'
<1> USE DEF clientVars, readVars, parserVars
<1>1. CASE \E to \in pos + 1..Len(stream) : ReadData(to)
  BY <1>1, DataReads
<1>2. CASE Callback \/ HeadersEnd \/ Garbage
  <2>1. /\ mode = "parsing" /\ pos < limit /\ UNCHANGED <<stream, from, limit, cut>>
        /\ GoOn \/ (dead' = TRUE /\ mode' = "parsed")
    BY <1>2 DEF Callback, on_message_begin, on_path, on_query_string, on_header_field,
                on_header_value, on_body, on_message_complete, HeadersEnd, Garbage, Due, Stop
  <2>2. dead = FALSE
    BY <2>1, ParsingAlive
  <2> QED BY <2>1, <2>2, GoOnReads, StopReads
<1>3. CASE LosesDict \/ CallLosesDict
  BY <1>3, WaitReads DEF LosesDict, CallLosesDict, Crash
<1>4. CASE Refuse \/ CallApplication \/ CallWithList \/ Continue100 \/ WaitForMore
  BY <1>4, WaitReads DEF Refuse, CallApplication, CallWithList, Continue100, WaitForMore,
                         Resume, Reset
<1>5. CASE UNCHANGED vars
  BY <1>5, WaitReads DEF vars
<1> QED BY <1>1, <1>2, <1>3, <1>4, <1>5, Zenon DEF ev_io_on_read

LEMMA ReadFromCorrect == Spec => []ReadFrom
<1>1. Init => ReadFrom
  BY InitReadFrom
<1>2. Streaming /\ ReadFrom /\ [ev_io_on_read]_vars => ReadFrom'
  BY ReadFromKept
<1> QED BY <1>1, <1>2, StreamingCorrect, PTL DEF Spec

=============================================================================
