---------------------------- MODULE Delivery_proofs ----------------------------
(***************************************************************************)
(* That replies arrive: theorems about what Connection writes, for clients *)
(* and applications that do not run into the findings (the hypotheses      *)
(* ExpectIsServed and FilesHaveLength, without which they are false), and  *)
(* the proof that Connection implements KeepAlive.                         *)
(***************************************************************************)
EXTENDS Connection_proofs

(* What is known of a state besides Delivery.                              *)
Context ==
  /\ TypeOK /\ Sent /\ Exchange /\ SendsLiveBuffer
  /\ RequestsAssumption /\ AppsAssumption /\ ConnectionAssumption
  /\ ExpectIsServed /\ FilesHaveLength

(* The messages of the client do not change, and are requests.             *)
LEMMA SameMessages ==
  ASSUME [Next]_vars PROVE reqs' = reqs
BY DEF Next, ev_io_on_read, ReadData, Parse, ReadCrashes, ReadAborts,
   ev_io_on_write, on_write_chunk, on_write_sendfile_head,
   on_write_sendfile_body, SendSome, TryAgain, FlushChunk, FailChunk,
   NextChunk, Terminate, FlushHead, FailHead, SeekFile, SendFile, EndOfFile,
   FailFile, Conclude, WriteReleased, ClientMoves, ClientSend, ClientClose,
   ClientReset, Gone, vars, parserVars

LEMMA SentCorrect == Spec => []Sent
<1>1. Init => Sent
  BY DEF Init, ClientInit, Sent
<1>2. Sent /\ [Next]_vars => Sent'
  BY SameMessages DEF Sent, Messages
<1> QED BY <1>1, <1>2, PTL DEF Spec

-----------------------------------------------------------------------------
(* Reading. *)

(* bjoern does not refuse a message of which it has just stored the        *)
(* expectation.                                                            *)
LEMMA RefusesNothingAwaited ==
  ASSUME Context, Delivery, NEW to \in 1..4 * MaxRequests, ReadData(to),
         "expect_continue" \in Request_parse(to)
  PROVE  ErrorCode(to) = NO_ERROR
<1> USE DEF Context
<1>1. "expect_continue" \notin state /\ error_code = NO_ERROR /\ ~dead
  BY DEF ReadData, Delivery, Ready
<1>2. PICK n \in Messages : on_header_value(n, "continue", to)
  BY <1>1 DEF Request_parse, ExpectContinue
<1>3. n = replies + 1 /\ to \in Nat
  BY <1>2, ReadsNext, PassesNext DEF on_header_value, Runs
<1>4. reqs[n] \in Requests /\ reqs[n].expect = "continue" /\ reqs[n].bad # 3
  BY <1>2 DEF on_header_value, ExpectIsServed, Sent
<1>5. ASSUME NEW m \in Messages, Passes(m, reqs[m].bad, to), reqs[m].bad # 0
      PROVE  m = n
  <2>1. reqs[m].bad \in 1..4
    BY <1>5, RequestsAssumption DEF Sent, RequestKinds
  <2> QED BY <1>3, <1>5, <2>1, ReadsNext, PassesNext
<1>6. Malformed(to) = {}
  <2> SUFFICES ASSUME NEW b \in Malformed(to) PROVE FALSE
    OBVIOUS
  <2>1. b = n /\ reqs[n].bad # 0
    BY <1>5 DEF Malformed
  <2>2. At(n, 2) < At(n, reqs[n].bad)
    BY <1>2, <2>1 DEF on_header_value, Runs
  <2>3. reqs[n].bad \in 0..3
    BY <1>4, RequestsAssumption DEF RequestKinds
  <2> QED BY <1>4, <2>1, <2>2, <2>3 DEF At, Messages
<1>7. ASSUME NEW m \in Messages, on_header_value(m, "other", to) PROVE FALSE
  <2>1. m = n
    BY <1>3, <1>7, ReadsNext, PassesNext DEF on_header_value, Runs
  <2> QED BY <1>4, <1>7, <2>1 DEF on_header_value
<1> QED BY <1>1, <1>6, <1>7 DEF ErrorCode

(* What a successful call of the application leaves behind.                *)
LEMMA CommitFacts ==
  ASSUME NEW a \in AppKinds, NEW q, NEW st,
         st \subseteq {"response_length_unknown", "parse_finished"},
         "start_response_called" \notin state,
         a.start, q.minor \in {0, 1}, q.keep \in BOOLEAN
  PROVE  LET bits == Committed(a, st, q)
             head == wsgi_getheaders(a, bits, 0)
         IN  /\ "expect_continue" \notin bits
             /\ head.framing \in {"length", "chunked", "close"}
             /\ "chunked_response" \in bits <=> head.framing = "chunked"
             /\ head.framing = "chunked" => q.minor = 1 /\ q.keep
             /\ "keep_alive" \in bits <=> q.keep /\ head.framing # "close"
             /\ "wsgi_call_done" \in bits
             /\ a.length => head.framing = "length"
<1> DEFINE known == start_response(a, st) \
                      {f \in {"response_length_unknown"} : a.nobody}
<1>1. "response_length_unknown" \in known <=> ~a.length /\ ~a.nobody
  BY DEF start_response, CalledAgain
<1>2. {"expect_continue", "chunked_response", "keep_alive"} \cap known = {}
  BY DEF start_response, CalledAgain
<1>3. /\ "keep_alive" \in Committed(a, st, q) <=> ShouldKeepAlive(q, known)
      /\ "chunked_response" \in Committed(a, st, q) <=> ChunkedTransfer(q, known)
      /\ "expect_continue" \notin Committed(a, st, q)
      /\ "wsgi_call_done" \in Committed(a, st, q)
  BY <1>2 DEF Committed
<1> HIDE DEF known
<1> QED BY <1>1, <1>3 DEF wsgi_getheaders, ShouldKeepAlive, ChunkedTransfer

(* A parser that is content does not die.                                  *)
LEMMA ParserLives ==
  ASSUME NEW to, ReadData(to), ErrorCode(to) = NO_ERROR
  PROVE  ~dead'
<1>1. ~(dead \/ Malformed(to) # {})
  BY DEF ErrorCode, NO_ERROR, HTTP_BAD_REQUEST
<1>2. dead' = (dead \/ Malformed(to) # {})
  BY DEF ReadData, Parse
<1> QED BY <1>1, <1>2, Zenon

(* The application's answer is an error reply, or a head that announces    *)
(* the rest of what it has returned.                                       *)
LEMMA CallDelivery ==
  ASSUME Context, Delivery, NEW to \in 1..4 * MaxRequests, ReadData(to),
         CallApplication(to)
  PROVE  Delivery'
<1> USE DEF Context
<1>1. /\ Ready /\ state = {"response_length_unknown"} /\ view # "garbled"
      /\ view = "wait" => left = 0
      /\ ev_watcher = "read" /\ sock # "reset"
  BY DEF ReadData, Delivery
<1>2. PICK a \in Apps, m \in Messages :
        /\ At(m, 1) <= to /\ to <= At(m, 4)
        /\ wsgi_call_application(a, Request_parse(to), m)
  BY DEF CallApplication
<1> DEFINE st == Request_parse(to)
           bits == Committed(a, st, reqs[m])
           head == wsgi_getheaders(a, bits, 0)
<1>3. /\ "parse_finished" \in st /\ "expect_continue" \notin st
      /\ st \subseteq {"response_length_unknown", "parse_finished"}
  BY <1>1, NeverBoth DEF CallApplication, Request_parse, ExpectIsServed,
     ExpectHasBody
<1>4. m = replies + 1 /\ served' = m /\ app' = a
  BY <1>2, <1>3, CallsNext DEF wsgi_call_application
<1>5. /\ view' = view /\ left' = left /\ replies' = replies /\ sent' = sent
      /\ sock' = sock /\ reqs' = reqs /\ ev_watcher' = "write"
      /\ sent > 4 * replies /\ replies \in Nat
  <2>1. to <= sent /\ sent \in Nat /\ to \in Nat
    BY DEF ReadData, TypeOK, ClientTypeOK
  <2>2. 4 * replies <= parsed /\ parsed < to /\ replies \in Nat /\ parsed \in Nat
    BY ReadsNext
  <2> QED BY <2>1, <2>2 DEF ReadData, clientVars, inbox, Parse,
          CallApplication, start_writing
<1>6. ~dead'
  BY ParserLives DEF CallApplication
<1>7. a \in AppKinds /\ reqs[m] \in RequestKinds
  BY AppsAssumption, RequestsAssumption DEF Sent, AppsAssumption
<1>8. ~CalledAgain(a)
  BY <1>1 DEF CalledAgain
<1>9. a.ret = "file" => a.start /\ Sendfile(a, st) /\ a.length
  BY <1>2, <1>8 DEF FilesHaveLength, Sendfile, start_response
<1>10. SUFFICES /\ "expect_continue" \notin state'
                /\ SendsError' \/ SendsHead'
                /\ OffsetInBuffer'
  BY <1>1, <1>5, <1>6 DEF Delivery, NoChunkLeaked, Closes
<1>11. BufferUnits \in Nat \ {0}
  BY DEF ConnectionAssumption
<1>12. CASE Responds(a, st, reqs[m])
  <2> DEFINE first == FirstPieces(a, st)
  <2>1. /\ a.start /\ a.ret # "raise" /\ Take(a, st)
        /\ iterator' = IF a.ret = "iter" \/ (a.ret = "file" /\ ~Sendfile(a, st))
                       THEN "live" ELSE "none"
        /\ state' = bits
        /\ current_chunk' = wsgi_getheaders(a, bits, first)
        /\ current_chunk_p' = 0
    BY <1>12 DEF Responds, Raises
  <2>2. /\ "expect_continue" \notin bits
        /\ head.framing \in {"length", "chunked", "close"}
        /\ "chunked_response" \in bits <=> head.framing = "chunked"
        /\ head.framing = "chunked" => reqs[m].minor = 1 /\ reqs[m].keep
        /\ "keep_alive" \in bits <=> reqs[m].keep /\ head.framing # "close"
        /\ "wsgi_call_done" \in bits
        /\ a.length => head.framing = "length"
    BY <1>1, <1>3, <1>7, <2>1, CommitFacts DEF RequestKinds
  <2>3. /\ current_chunk'.part = "head"
        /\ current_chunk'.framing = head.framing
        /\ current_chunk'.cruft <=> "chunked_response" \in bits
        /\ current_chunk'.pieces = first
    BY <2>1 DEF wsgi_getheaders
  <2>4. Replying(current_chunk.framing)'
    BY <1>4, <1>5, <2>1, <2>2, <2>3 DEF Replying
  <2>5. /\ first \in Nat /\ first <= a.pieces /\ a.pieces \in Nat
        /\ a.ret = "file" => first = 0
        /\ a.ret = "bytes" => first = a.pieces
    <3>1. Sendfile(a, st) => a.ret = "file"
      BY DEF Sendfile
    <3> QED BY <1>7, <1>9, <3>1 DEF FirstPieces, AppKinds
  <2> HIDE DEF first, bits, head
  <2>6. more' = a.pieces - first
    BY <1>9, <2>1 DEF Take, first
  <2>7. SendsHead'
    <3>1. current_chunk'.pieces + more' = app'.pieces
      BY <1>4, <2>3, <2>5, <2>6
    <3>2. /\ iterator' = "live" <=> app'.ret = "iter"
          /\ iterable' = "file" <=> app'.ret = "file"
      BY <1>4, <1>9, <2>1 DEF Take
    <3>3. /\ app'.ret = "file" =>
               current_chunk'.framing = "length" /\ current_chunk'.pieces = 0
          /\ app'.ret \in {"raise", "bytes"} => more' = 0
      BY <1>4, <1>9, <2>1, <2>2, <2>3, <2>5, <2>6
    <3> QED BY <1>1, <1>5, <2>1, <2>3, <2>4, <3>1, <3>2, <3>3
            DEF SendsHead, Ready
  <2> QED BY <1>11, <2>1, <2>2, <2>3, <2>7 DEF OffsetInBuffer, Size
<1>13. CASE Refuses(a, st)
  <2>1. /\ iterator' = "none" /\ state' = start_response(a, st)
        /\ current_chunk' = Text("error") /\ current_chunk_p' = 0
    BY <1>1, <1>13 DEF Refuses, TextAt, Ready
  <2>2. {"keep_alive", "chunked_response", "expect_continue"} \cap state' = {}
    BY <1>3, <2>1 DEF start_response
  <2>3. iterable' # "file"
    <3>1. CASE Raises(a)
      BY <1>1, <1>13, <3>1 DEF Refuses, Ready
    <3>2. CASE ~Raises(a)
      <4>1. a.ret # "file"
        BY <1>9, <1>13, <3>2 DEF Refuses, FirstRaises
      <4> QED BY <1>13, <3>2, <4>1 DEF Refuses, Take
    <3> QED BY <3>1, <3>2
  <2>4. SendsError'
    BY <1>1, <1>5, <2>1, <2>2, <2>3 DEF SendsError, Text, Ready
  <2> QED BY <2>1, <2>2, <2>4 DEF OffsetInBuffer, Size, Text
<1> QED BY <1>2, <1>12, <1>13 DEF wsgi_call_application

(* ev_io_on_read preserves Delivery.                                       *)
LEMMA ReadDelivery ==
  ASSUME Context, Delivery, NEW to \in 1..4 * MaxRequests, ReadData(to)
  PROVE  Delivery'
<1> USE DEF Context
<1>1. /\ Ready /\ state = {"response_length_unknown"} /\ view # "garbled"
      /\ view = "wait" => left = 0
      /\ ev_watcher = "read" /\ sock # "reset"
      /\ NoChunkLeaked \/ Dropped
      /\ OffsetInBuffer
  BY DEF ReadData, Delivery
<1>2. /\ view' = view /\ left' = left /\ replies' = replies /\ sent' = sent
      /\ sock' = sock /\ reqs' = reqs
      /\ sent > 4 * replies
  <2>1. to <= sent /\ sent \in Nat /\ to \in Nat
    BY DEF ReadData, TypeOK, ClientTypeOK
  <2>2. 4 * replies <= parsed /\ parsed < to /\ replies \in Nat /\ parsed \in Nat
    BY ReadsNext
  <2> QED BY <2>1, <2>2 DEF ReadData, clientVars, inbox, Parse
<1>3. /\ error_code' = ErrorCode(to)
      /\ ErrorCode(to) = NO_ERROR => ~dead'
  BY ParserLives DEF ReadData
<1>4. CASE ParseError(to)
  <2>1. /\ ev_watcher' = "write" /\ state' = Request_parse(to)
        /\ current_chunk' = Text("error") /\ current_chunk_p' = 0
        /\ iterable' = "none" /\ iterator' = "none"
    BY <1>1, <1>4 DEF ParseError, start_writing, TextAt, Ready, bodyVars
  <2>2. "expect_continue" \notin Request_parse(to)
    BY <1>4, RefusesNothingAwaited DEF ParseError
  <2>3. {"keep_alive", "chunked_response", "expect_continue"} \cap state' = {}
    BY <1>1, <2>1, <2>2 DEF Request_parse
  <2>4. SendsError'
    BY <1>1, <1>2, <2>1, <2>3 DEF SendsError, Text, Ready
  <2>5. OffsetInBuffer' /\ NoChunkLeaked'
    BY <2>1 DEF OffsetInBuffer, Size, Text, NoChunkLeaked
  <2> QED BY <1>1, <1>2, <2>1, <2>3, <2>4, <2>5 DEF Delivery, Closes
<1>5. CASE PauseRead(to)
  <2>1. /\ ev_watcher' = "write" /\ state' = Request_parse(to)
        /\ "expect_continue" \in state' /\ "parse_finished" \notin state'
        /\ current_chunk' = Text("continue") /\ current_chunk_p' = 0
        /\ ~dead' /\ error_code' = NO_ERROR
        /\ UNCHANGED <<iterable, iterator, served>>
    BY <1>1, <1>3, <1>5 DEF PauseRead, start_writing, TextAt, Ready, bodyVars,
       wsgiVars
  <2>2. state' = {"response_length_unknown", "expect_continue"}
    BY <1>1, <2>1 DEF Request_parse
  <2>3. Ready'
    BY <1>1, <1>2, <2>1 DEF Ready
  <2>4. OffsetInBuffer' /\ NoChunkLeaked'
    BY <2>1 DEF OffsetInBuffer, Size, Text, NoChunkLeaked
  <2>5. Expecting
    <3>1. PICK m \in Messages : on_header_value(m, "continue", to)
      BY <1>1, <2>1 DEF Request_parse, ExpectContinue
    <3>2. reqs[m] \in Requests
      BY DEF Sent
    <3> QED BY <3>1, <3>2 DEF on_header_value, Expecting
  <2> QED BY <1>1, <1>2, <2>1, <2>2, <2>3, <2>4, <2>5 DEF Delivery, Text, Closes
<1>6. CASE WaitForMore(to)
  <2>1. /\ ev_watcher' = "read"
        /\ state' = Request_parse(to)
        /\ {"parse_finished", "expect_continue"} \cap state' = {}
        /\ current_chunk' = current_chunk /\ current_chunk_p' = current_chunk_p
        /\ ~dead' /\ error_code' = NO_ERROR
        /\ UNCHANGED <<iterable, iterator, served>>
    BY <1>1, <1>3, <1>6 DEF WaitForMore, Ready, bodyVars, wsgiVars, chunkVars
  <2>2. state' = {"response_length_unknown"}
    BY <1>1, <2>1 DEF Request_parse
  <2>3. Ready'
    BY <1>1, <1>2, <2>1 DEF Ready
  <2>4. /\ OffsetInBuffer'
        /\ NoChunkLeaked' \/ Dropped'
    BY <1>1, <2>1 DEF OffsetInBuffer, Size, HasChunk, NoChunkLeaked, Dropped
  <2> QED BY <1>1, <1>2, <2>1, <2>2, <2>3, <2>4 DEF Delivery, Closes
<1> QED BY <1>4, <1>5, <1>6, CallDelivery DEF ReadData

-----------------------------------------------------------------------------
(* Writing. *)

(* The Request of the next message starts with nothing.                    *)
LEMMA CleanDelivery ==
  ASSUME Context, view' = "wait", left' = 0, replies' = served',
         served' > 0 => reqs'[served'].keep,
         ~dead', Request_reset, ev_watcher' = "read"
  PROVE  Delivery'
<1>1. /\ state' = {"response_length_unknown"}
      /\ current_chunk' = Text("none") /\ current_chunk_p' = 0
  BY DEF Request_reset
<1>2. Ready'
  BY DEF Request_reset, Ready
<1>3. ~HasChunk'
  BY <1>1 DEF HasChunk, Text
<1> QED BY <1>1, <1>2, <1>3 DEF Delivery, NoChunkLeaked, OffsetInBuffer, Closes

(* 100 Continue is written, or not, and reading goes on.                   *)
LEMMA ContinueDelivery ==
  ASSUME Context, Delivery, "expect_continue" \in state,
         ev_watcher = "write", on_write_chunk
  PROVE  Delivery'
<1> USE DEF Context
<1>1. /\ Ready /\ state = {"response_length_unknown", "expect_continue"}
      /\ current_chunk.part = "continue" /\ sent > 4 * replies
      /\ view = "wait" /\ left = 0 /\ Expecting
  BY DEF Delivery, Ready
<1>2. /\ served' = served /\ sent' = sent
      /\ Size(current_chunk) = 1 /\ current_chunk_p = 0
  BY <1>1 DEF on_write_chunk, Size, Ready
<1>3. ASSUME NEW ws, NEW st, NEW chunk,
             Conclude(ws, st, chunk, 0, "none"),
             "expect_continue" \in st, st \subseteq state,
             "response_length_unknown" \in st,
             chunk.part \in {"none", "freed"} \/ (Spurious /\ chunk = current_chunk),
             view' = view, left' = left, replies' = replies
      PROVE  Delivery'
  <2>1. /\ state' = st \ {"expect_continue"} /\ ev_watcher' = "read"
        /\ current_chunk' = chunk /\ current_chunk_p' = 0
        /\ iterator' = "none" /\ UNCHANGED <<iterable, error_code, reqs, dead>>
    BY <1>3 DEF Conclude, start_reading, parserVars
  <2>2. state' = {"response_length_unknown"}
    BY <1>1, <1>3, <2>1
  <2>3. Ready'
    BY <1>1, <1>2, <1>3, <2>1 DEF Ready
  <2>4. NoChunkLeaked' \/ Dropped'
    BY <1>1, <1>3, <2>1 DEF NoChunkLeaked, HasChunk, Dropped
  <2>5. OffsetInBuffer'
    BY <1>1, <1>3, <2>1 DEF OffsetInBuffer, HasChunk, Size
  <2> QED BY <1>1, <1>3, <2>1, <2>2, <2>3, <2>4, <2>5 DEF Delivery, Closes
<1>4. ASSUME SendSome PROVE FALSE
  BY <1>2, <1>4, ConnectionAssumption DEF SendSome, Partial
<1>5. CASE TryAgain
  <2>1. Conclude("not_yet_done", state, current_chunk, 0, "none") /\ Spurious
    BY <1>1, <1>2, <1>5 DEF TryAgain, Ready
  <2> QED BY <1>1, <1>3, <1>5, <2>1 DEF TryAgain, inbox
<1>6. CASE FlushChunk
  <2>1. Legal(current_chunk, Promised)
    BY <1>1 DEF Legal, Asked
  <2>2. UNCHANGED <<view, left, replies>>
    BY <1>1, <1>6, <2>1 DEF FlushChunk, Deliver, Receive
  <2>3. Conclude("done", state, Text("none"), 0, "none")
    BY <1>1, <1>6 DEF FlushChunk, NextChunk, Terminate, Ready
  <2> QED BY <1>1, <1>3, <2>2, <2>3 DEF Text
<1>7. CASE FailChunk
  <2>1. Conclude("done", state \ {"keep_alive"}, Released, 0, "none")
    BY <1>1, <1>2, <1>7 DEF FailChunk, Terminate
  <2>2. Released.part \in {"none", "freed"}
    BY DEF Released, Text
  <2> QED BY <1>1, <1>3, <1>7, <2>1, <2>2 DEF FailChunk, inbox
<1> QED BY <1>4, <1>5, <1>6, <1>7 DEF on_write_chunk

(* After a reset the reply does not matter any more; the connection ends,  *)
(* sooner or later, and is not read from.                                  *)
LEMMA ResetDelivery ==
  ASSUME Context, Delivery, "expect_continue" \notin state, sock = "reset",
         ev_watcher = "write", ev_io_on_write
  PROVE  Delivery'
<1> USE DEF Context
<1>1. view # "garbled" /\ (view = "wait" => left = 0)
  BY DEF Delivery
<1>2. ASSUME NEW ws, NEW st, NEW chunk, NEW p, NEW it,
             Conclude(ws, st, chunk, p, it),
             "expect_continue" \notin st,
             ws = "done" => "keep_alive" \notin st,
             ws # "not_yet_done" => chunk.part \in {"none", "freed"},
             sock' = sock, UNCHANGED inbox
      PROVE  Delivery'
  <2>1. /\ state' = st /\ current_chunk' = chunk
        /\ \/ ev_watcher' = "write" 
           \/ ev_watcher' = "closed" /\ ws # "not_yet_done"
    BY <1>2 DEF Conclude, close_connection
  <2>2. NoChunkLeaked'
    BY <1>2, <2>1 DEF NoChunkLeaked, HasChunk
  <2> QED BY <1>1, <1>2, <2>1, <2>2 DEF Delivery, inbox, Closes
<1>3. Released.part \in {"none", "freed"} /\ Text("none").part = "none"
  BY DEF Released, Text
<1>4. CASE on_write_chunk
  <2>1. CASE TryAgain
    BY <1>2, <1>4, <2>1 DEF TryAgain, on_write_chunk
  <2>2. CASE FailChunk
    BY <1>2, <1>3, <1>4, <2>2 DEF FailChunk, Terminate, on_write_chunk
  <2> QED BY <1>4, <2>1, <2>2 DEF on_write_chunk, SendSome, Partial, FlushChunk
<1>5. CASE on_write_sendfile_head
  <2>1. CASE TryAgain
    BY <1>2, <1>5, <2>1 DEF TryAgain, on_write_sendfile_head
  <2>2. CASE FailHead
    BY <1>2, <1>3, <1>5, <2>2 DEF FailHead, SeekFile, on_write_sendfile_head
  <2> QED BY <1>5, <2>1, <2>2
          DEF on_write_sendfile_head, SendSome, Partial, FlushHead
<1>6. CASE on_write_sendfile_body
  <2>1. CASE TryAgain
    BY <1>2, <1>6, <2>1 DEF TryAgain, on_write_sendfile_body
  <2>2. CASE FailFile
    BY <1>2, <1>6, <2>2 DEF FailFile, on_write_sendfile_body
  <2> QED BY <1>6, <2>1, <2>2 DEF on_write_sendfile_body, SendFile, EndOfFile
<1>7. CASE WriteReleased
  <2>1. /\ ev_watcher' \in {"write", "crashed"}
        /\ UNCHANGED <<state, sock, view, left>>
    BY <1>7 DEF WriteReleased, bitFields, clientVars, inbox
  <2> QED BY <1>1, <2>1 DEF Delivery, NoChunkLeaked, Closes
<1> QED BY <1>4, <1>5, <1>6, <1>7 DEF ev_io_on_write

(* Where the healthy reply is.                                             *)
Sending ==
  \/ SendsError
  \/ ~dead /\ (SendsHead \/ SendsBody \/ SendsEnd \/ SendsFile)

(* It is there as long as nobody touches it.                               *)
LEMMA SameReply ==
  ASSUME Sending,
         UNCHANGED <<state, current_chunk, iterable, iterator, reqs, dead, app,
                     more, served, view, left, replies>>,
         sent > 4 * replies => sent' > 4 * replies
  PROVE  Sending'
<1>1. Promised' = Promised /\ \A f : Replying(f) => Replying(f)'
  BY DEF Promised, Replying
<1>2. SendsError => SendsError'
  BY DEF SendsError
<1>3. SendsHead => SendsHead'
  BY <1>1 DEF SendsHead
<1>4. SendsBody => SendsBody'
  BY <1>1 DEF SendsBody
<1>5. SendsEnd => SendsEnd'
  BY <1>1 DEF SendsEnd
<1>6. SendsFile => SendsFile'
  BY <1>1 DEF SendsFile
<1> QED BY <1>2, <1>3, <1>4, <1>5, <1>6 DEF Sending

(* A connection that is closed keeps nothing.                              *)
LEMMA ClosedDelivery ==
  ASSUME Context, ev_watcher' = "closed", "expect_continue" \notin state',
         current_chunk'.part = "none",
         view' # "garbled", view' = "wait" => left' = 0,
         \/ left' = 0 /\ (Ended' \/ view' = "close")
         \/ Torn'
  PROVE  Delivery'
BY DEF Delivery, NoChunkLeaked, OffsetInBuffer, HasChunk, Closes

(* The reply is complete.                                                  *)
LEMMA DoneDelivery ==
  ASSUME Context, NEW chunk, NEW p, NEW it,
         Conclude("done", state, chunk, p, it), chunk.part = "none",
         "expect_continue" \notin state,
         left' = 0, served' = served, ~dead,
         \/ view' = "wait" /\ replies' = served'
         \/ view' = "close" /\ "keep_alive" \notin state,
         view' = "wait" => /\ served > 0
                           /\ "keep_alive" \in state <=> reqs[served].keep
  PROVE  Delivery'
<1>1. CASE "keep_alive" \in state
  <2>1. Request_reset /\ ev_watcher' = "read" /\ reqs' = reqs /\ dead' = dead
    BY <1>1 DEF Conclude, start_reading
  <2> QED BY <1>1, <2>1, CleanDelivery
<1>2. CASE "keep_alive" \notin state
  <2>1. /\ ev_watcher' = "closed" /\ state' = state
        /\ current_chunk' = chunk /\ reqs' = reqs
    BY <1>2 DEF Conclude, close_connection, parserVars
  <2>2. left' = 0 /\ (Ended' \/ view' = "close")
    BY <1>2, <2>1 DEF Ended
  <2> QED BY <2>1, <2>2, ClosedDelivery
<1> QED BY <1>1, <1>2

(* A step of ev_io_on_write that goes on sending.                          *)
LEMMA SendingDelivery ==
  ASSUME Context, Sending', ev_watcher' = "write",
         "expect_continue" \notin state', view' # "garbled",
         view' = "wait" => left' = 0, OffsetInBuffer'
  PROVE  Delivery'
BY DEF Delivery, Sending, NoChunkLeaked, Closes

(* Partial writes.                                                         *)
LEMMA PartialDelivery ==
  ASSUME Context, Delivery, "expect_continue" \notin state,
         sock # "reset", ev_watcher = "write", SendSome \/ TryAgain,
         UNCHANGED <<app, served, sent>>
  PROVE  Delivery'
<1> USE DEF Context
<1>1. PICK p \in Int :
        /\ Conclude("not_yet_done", state, current_chunk, p, iterator)
        /\ OffsetInBuffer /\ HasChunk => 0 <= p /\ p < Size(current_chunk)
  <2>1. CASE SendSome
    <3>1. PICK n \in 1..BufferUnits :
            /\ Partial(n)
            /\ Conclude("not_yet_done", state, current_chunk,
                        current_chunk_p + n, iterator)
      BY <2>1 DEF SendSome
    <3>2. current_chunk_p \in Int /\ BufferUnits \in Nat
      BY Fields DEF ConnectionAssumption
    <3> QED BY <3>1, <3>2 DEF Partial, OffsetInBuffer, HasChunk
  <2>2. CASE TryAgain
    BY <2>2, Fields DEF TryAgain, OffsetInBuffer, HasChunk
  <2> QED BY <2>1, <2>2
<1>2. /\ UNCHANGED <<ev_watcher, state, current_chunk, iterable, iterator, reqs,
                     dead, more, inbox>>
      /\ current_chunk_p' = p
  BY <1>1 DEF Conclude, SendSome, TryAgain, parserVars
<1>3. Sending /\ OffsetInBuffer /\ view # "garbled" /\ (view = "wait" => left = 0)
  BY DEF Delivery, Sending
<1>4. Sending'
  BY <1>2, <1>3, SameReply DEF inbox
<1>5. OffsetInBuffer'
  BY <1>1, <1>2, <1>3 DEF OffsetInBuffer, HasChunk, Size
<1> QED BY <1>2, <1>3, <1>4, <1>5, SendingDelivery DEF inbox

(* The part of the body that is still to come.                             *)
Rest == Promised - app.pieces + more

(* What the client makes of the next part that it was told to expect.      *)
LEMMA GoesOnAs ==
  ASSUME NEW f \in {"length", "chunked", "close"}, NEW rest \in Nat,
         GoesOn(f, rest), served = replies + 1, served' = served,
         replies \in Nat
  PROVE  /\ left' = rest
         /\ f = "length" /\ rest = 0 => view' = "wait" /\ replies' = served
         /\ f # "length" \/ rest # 0 => view' = f /\ replies' = replies
BY DEF GoesOn

(* The application's iterable is asked for the next piece, with `f' the    *)
(* framing of the body.                                                    *)
LEMMA NextDelivery ==
  ASSUME Context, NEW f, Replying(f), GoesOn(f, Rest), NextChunk, ~dead,
         "expect_continue" \notin state,
         ev_watcher = "write", iterable # "file",
         iterator = "live" <=> app.ret = "iter",
         app.ret \in {"raise", "bytes"} => more = 0, app.ret # "file",
         UNCHANGED <<app, served, sent, sock>>
  PROVE  Delivery'
<1> USE DEF Context
<1>1. app.pieces \in Nat /\ more \in Nat /\ replies \in Nat /\ Promised \in Nat
      /\ app.ret \in {"raise", "bytes", "iter", "file"}
  BY SendType DEF TypeOK, WsgiTypeOK, ClientTypeOK, InboxTypeOK, AppKinds
<1>2. /\ Promised = app.pieces \/ (Promised = app.pieces + 1 /\ app.fails)
      /\ app.ret = "iter" /\ app.fails <=> Promised # app.pieces
      /\ Rest \in Nat /\ Rest >= more
  BY <1>1 DEF Promised, Rest
<1>3. /\ f \in {"length", "chunked", "close"}
      /\ left' = Rest
      /\ f = "length" /\ Rest = 0 => view' = "wait" /\ replies' = served
      /\ f # "length" \/ Rest # 0 => view' = f /\ replies' = replies
  <2>1. f \in {"length", "chunked", "close"} /\ served = replies + 1
    BY DEF Replying
  <2> QED BY <1>1, <1>2, <2>1, GoesOnAs
<1>4. view' # "garbled" /\ (view' = "wait" => left' = 0)
  BY <1>3
<1>5. CASE /\ iterator = "live" /\ more > 0
           /\ more' = more - 1
           /\ Conclude("not_yet_done", state, Piece(state), 0, "live")
  <2>1. /\ UNCHANGED <<state, iterable, reqs, dead, ev_watcher>>
        /\ current_chunk' = Piece(state) /\ current_chunk_p' = 0
        /\ iterator' = "live"
    BY <1>5 DEF Conclude, parserVars
  <2>2. view' = f /\ replies' = replies
    BY <1>1, <1>2, <1>3, <1>5
  <2>3. Replying(view)'
    BY <2>1, <2>2 DEF Replying
  <2>4. left' = Promised' - app'.pieces + more' + 1
    BY <1>1, <1>2, <1>3, <1>5 DEF Promised, Rest
  <2>5. SendsBody'
    BY <1>5, <2>1, <2>3, <2>4 DEF SendsBody, Piece
  <2>6. OffsetInBuffer'
    BY <2>1 DEF OffsetInBuffer, Size, Piece, ConnectionAssumption
  <2> QED BY <1>4, <2>1, <2>5, <2>6, SendingDelivery DEF Sending
<1>6. CASE /\ iterator = "live" /\ app.fails
           /\ Conclude("aborted", state, Text("none"), 0, "live")
  <2>1. /\ ev_watcher' = "closed" /\ state' = state
        /\ current_chunk' = Text("none") /\ app'.fails
    BY <1>6 DEF Conclude, close_connection
  <2>2. Rest > 0
    BY <1>1, <1>2, <1>6 DEF Rest
  <2>3. replies < served /\ f \in {"length", "chunked", "close"}
    BY <1>1 DEF Replying
  <2>4. Torn'
    BY <1>1, <1>2, <1>3, <2>1, <2>2, <2>3 DEF Torn
  <2> QED BY <1>4, <2>1, <2>4, ClosedDelivery DEF Text
<1>7. CASE /\ iterator = "none" \/ (more = 0 /\ ~app.fails)
           /\ Terminate(state, Text("none"), 0)
           /\ UNCHANGED more
  <2>1. more = 0 /\ Promised = app.pieces /\ Rest = 0
    BY <1>1, <1>2, <1>7 DEF Rest
  <2>2. CASE "chunked_response" \in state
    <3>1. /\ ev_watcher' = "write" /\ state' = state \ {"chunked_response"}
          /\ UNCHANGED <<iterable, reqs, dead>>
          /\ current_chunk' = Text("end") /\ current_chunk_p' = 0
          /\ iterator' = "none"
      BY <1>7, <2>2 DEF Terminate, Conclude, parserVars, TextAt
    <3>2. f = "chunked" /\ view' = "chunked" /\ replies' = replies /\ left' = 0
      BY <1>3, <2>1, <2>2 DEF Replying
    <3>3. SendsEnd'
      BY <1>7, <2>1, <3>1, <3>2 DEF SendsEnd, Replying, Promised
    <3>4. OffsetInBuffer'
      BY <3>1 DEF OffsetInBuffer, Size, Text
    <3> QED BY <1>4, <3>1, <3>3, <3>4, SendingDelivery DEF Sending
  <2>3. CASE "chunked_response" \notin state
    <3>1. Conclude("done", state, Text("none"), 0, "none")
      BY <1>7, <2>3 DEF Terminate
    <3>2. \/ view' = "wait" /\ replies' = served'
          \/ view' = "close" /\ "keep_alive" \notin state
      BY <1>3, <2>1, <2>3 DEF Replying
    <3>3. view' = "wait" => /\ served > 0
                            /\ "keep_alive" \in state <=> reqs[served].keep
      BY <1>1, <1>3 DEF Replying
    <3>4. Text("none").part = "none" /\ left' = 0 /\ served' = served
      BY <1>3, <2>1 DEF Text
    <3> QED BY <3>1, <3>2, <3>3, <3>4, DoneDelivery
  <2> QED BY <2>2, <2>3
<1> QED BY <1>5, <1>6, <1>7 DEF NextChunk

(* on_write_chunk preserves Delivery when it has sent all of the buffer.   *)
LEMMA FlushDelivery ==
  ASSUME Context, Delivery, on_write_chunk, FlushChunk,
         "expect_continue" \notin state
  PROVE  Delivery'
<1> USE DEF Context
<1>1. /\ ev_watcher = "write" /\ iterable # "file" /\ sock # "reset"
      /\ UNCHANGED <<app, served, sent, sock>>
      /\ Receive(current_chunk, Promised) /\ NextChunk
  BY DEF on_write_chunk, FlushChunk, Deliver
<1>2. Sending /\ view # "garbled" /\ (view = "wait" => left = 0)
  BY <1>1 DEF Delivery, Sending
<1>3. /\ app.pieces \in Nat /\ more \in Nat /\ replies \in Nat
      /\ Promised \in Nat /\ Promised >= app.pieces
      /\ app.ret \in {"raise", "bytes", "iter", "file"}
      /\ app.ret = "iter" => Promised \in {app.pieces, app.pieces + 1}
  BY SendType DEF TypeOK, WsgiTypeOK, ClientTypeOK, InboxTypeOK, AppKinds,
     Promised
<1>4. CASE SendsError
  <2>1. Legal(current_chunk, Promised)
    BY <1>4 DEF SendsError, Legal, Asked
  <2>2. GoesOn("close", 0)
    BY <1>1, <1>4, <2>1 DEF SendsError, Receive
  <2>3. Conclude("done", state, Text("none"), 0, "none")
    BY <1>1, <1>4 DEF SendsError, NextChunk, Terminate
  <2>4. /\ ev_watcher' = "closed" /\ state' = state
        /\ current_chunk' = Text("none")
    BY <1>4, <2>3 DEF SendsError, Conclude, close_connection
  <2> QED BY <2>2, <2>4, ClosedDelivery DEF GoesOn, Text
<1>5. CASE SendsHead /\ ~dead
  <2> DEFINE f == current_chunk.framing
  <2>1. /\ Replying(f) /\ view = "wait" /\ app.ret # "file"
        /\ current_chunk.part = "head"
        /\ current_chunk.pieces + more = app.pieces
        /\ current_chunk.cruft <=> "chunked_response" \in state
        /\ current_chunk \in Buffers
    BY <1>1, <1>5, Fields DEF SendsHead
  <2>2. Legal(current_chunk, Promised)
    BY <1>3, <2>1 DEF Legal, LegalHead, Asked, Replying, Buffers
  <2>3. GoesOn(f, Promised - current_chunk.pieces)
    BY <1>1, <2>1, <2>2 DEF Receive
  <2>4. Promised - current_chunk.pieces = Rest
    BY <1>3, <2>1 DEF Rest, Buffers
  <2> QED BY <1>1, <1>5, <2>1, <2>3, <2>4, NextDelivery DEF SendsHead
<1>6. CASE SendsBody /\ ~dead
  <2>1. /\ Replying(view) /\ current_chunk.part = "body"
        /\ current_chunk.pieces = 1 /\ left = Rest + 1 /\ Rest \in Nat
        /\ current_chunk.cruft <=> "chunked_response" \in state
        /\ app.ret = "iter"
    BY <1>3, <1>6 DEF SendsBody, Rest
  <2>2. Legal(current_chunk, Promised)
    BY <1>3, <2>1 DEF Legal, LegalBody, Asked, Replying
  <2>3. GoesOn(view, Rest)
    BY <1>1, <2>1, <2>2 DEF Receive
  <2> QED BY <1>1, <1>6, <2>1, <2>3, NextDelivery DEF SendsBody
<1>7. CASE SendsEnd /\ ~dead
  <2>1. Legal(current_chunk, Promised) /\ served = replies + 1
    BY <1>7 DEF SendsEnd, Legal, Asked, Text
  <2>2. GoesOn("length", 0)
    BY <1>1, <1>7, <2>1 DEF SendsEnd, Receive, Text
  <2>3. left' = 0 /\ view' = "wait" /\ replies' = served'
    BY <1>1, <1>3, <2>1, <2>2, GoesOnAs
  <2>4. Conclude("done", state, Text("none"), 0, "none")
    BY <1>1, <1>7 DEF SendsEnd, NextChunk, Terminate
  <2>5. /\ served > 0 /\ "keep_alive" \in state /\ reqs[served].keep
        /\ Text("none").part = "none"
    BY <1>3, <1>7 DEF SendsEnd, Text
  <2> QED BY <1>1, <1>7, <2>3, <2>4, <2>5, DoneDelivery
<1> QED BY <1>1, <1>2, <1>4, <1>5, <1>6, <1>7 DEF Sending, SendsFile

(* on_write_sendfile preserves Delivery: the client is told of a body with *)
(* a length, and gets the file's pieces.                                   *)
LEMMA FileDelivery ==
  ASSUME Context, Delivery, "expect_continue" \notin state, sock # "reset",
         ev_watcher = "write", iterable = "file",
         \/ HasChunk /\ FlushHead
         \/ ~HasChunk /\ (SendFile \/ EndOfFile \/ FailFile),
         UNCHANGED <<app, served, sent, sock>>
  PROVE  Delivery'
<1> USE DEF Context
<1>1. /\ Sending /\ ~SendsError /\ ~SendsBody /\ ~SendsEnd
      /\ view # "garbled" /\ (view = "wait" => left = 0)
  BY DEF Delivery, Sending, SendsError, SendsBody, SendsEnd
<1>2. /\ app.pieces \in Nat /\ more \in Nat /\ replies \in Nat /\ left \in Nat
      /\ served \in Nat
  BY DEF TypeOK, WsgiTypeOK, ClientTypeOK, InboxTypeOK, AppKinds
<1>3. app.ret = "file" => Promised = app.pieces
  BY <1>2 DEF Promised
<1>4. CASE HasChunk /\ FlushHead
  <2>1. SendsHead /\ app.ret = "file" /\ ~dead
    BY <1>1, <1>4 DEF Sending, SendsHead, SendsFile, HasChunk
  <2>2. /\ current_chunk.part = "head" /\ current_chunk.framing = "length"
        /\ current_chunk.pieces = 0 /\ more = app.pieces /\ view = "wait"
        /\ Replying("length")
    BY <1>2, <2>1 DEF SendsHead
  <2>3. Legal(current_chunk, Promised)
    BY <1>2, <1>3, <2>1, <2>2 DEF Legal, LegalHead, Asked, Replying
  <2>4. GoesOn("length", app.pieces)
    BY <1>2, <1>3, <1>4, <2>1, <2>2, <2>3 DEF FlushHead, Deliver, Receive
  <2>5. /\ left' = more /\ served = replies + 1
        /\ more = 0 => view' = "wait" /\ replies' = served
        /\ more # 0 => view' = "length" /\ replies' = replies
    BY <1>2, <2>2, <2>4 DEF GoesOn, Replying
  <2>6. CASE /\ app.fails
             /\ Conclude("aborted", state, Text("none"), -1, iterator)
    <3>1. /\ ev_watcher' = "closed" /\ state' = state
          /\ current_chunk' = Text("none") /\ reqs' = reqs
      BY <2>6 DEF Conclude, close_connection, parserVars
    <3>2. FailingFile' /\ served > 0
      BY <1>2, <2>1, <2>5, <2>6 DEF FailingFile
    <3>3. (left' = 0 /\ Ended') \/ Torn'
      BY <1>2, <2>5, <3>2 DEF Ended, Torn, FailingFile
    <3> QED BY <2>5, <3>1, <3>3, ClosedDelivery DEF Text
  <2>7. CASE Conclude("not_yet_done", state, Text("none"), app.pieces - more,
                      iterator)
    <3>1. /\ UNCHANGED <<ev_watcher, state, iterable, reqs, dead, more>>
          /\ current_chunk' = Text("none")
      BY <1>4, <2>7 DEF FlushHead, Conclude, parserVars
    <3>2. \/ view' = "length" /\ more' > 0 /\ Replying("length")'
          \/ view' = "wait" /\ more' = 0 /\ replies' = served' /\ served' > 0
      BY <1>2, <2>2, <2>5, <3>1 DEF Replying
    <3>3. SendsFile'
      BY <2>1, <2>2, <2>5, <3>1, <3>2 DEF SendsFile, Replying, Text
    <3>4. OffsetInBuffer'
      BY <3>1 DEF OffsetInBuffer, HasChunk, Text
    <3> QED BY <2>1, <2>5, <3>1, <3>3, <3>4, SendingDelivery DEF Sending
  <2> QED BY <1>4, <2>6, <2>7 DEF FlushHead, SeekFile
<1>5. CASE ~HasChunk /\ (SendFile \/ EndOfFile \/ FailFile)
  <2>1. SendsFile /\ ~dead /\ current_chunk.part = "none"
    BY <1>1, <1>5 DEF Sending, SendsHead, SendsFile, HasChunk
  <2>2. CASE SendFile
    <3>1. PICK k \in 1..more :
            /\ more' = more - k
            /\ Deliver(FilePieces(k), Promised)
            /\ Conclude("not_yet_done", state, current_chunk,
                        current_chunk_p + k, iterator)
      BY <2>2 DEF SendFile
    <3>2. k \in Nat /\ k > 0 /\ k <= more /\ more > 0
      BY <1>2
    <3>3. view = "length" /\ left = more /\ Replying("length")
      BY <2>1, <3>2 DEF SendsFile
    <3>4. Legal(FilePieces(k), Promised)
      BY <3>2, <3>3 DEF Legal, LegalBody, FilePieces, Asked, Replying
    <3>5. GoesOn("length", more - k)
      BY <3>1, <3>3, <3>4 DEF Deliver, Receive, FilePieces
    <3>6. /\ left' = more' /\ more' \in Nat
          /\ more' = 0 => view' = "wait" /\ replies' = served
          /\ more' # 0 => view' = "length" /\ replies' = replies
      BY <1>2, <3>1, <3>2, <3>3, <3>5 DEF GoesOn, Replying
    <3>7. UNCHANGED <<ev_watcher, state, iterable, reqs, dead, current_chunk>>
      BY <3>1 DEF Conclude, parserVars
    <3>8. \/ view' = "length" /\ more' > 0 /\ Replying("length")'
          \/ view' = "wait" /\ more' = 0 /\ replies' = served' /\ served' > 0
      BY <1>2, <3>3, <3>6, <3>7 DEF Replying
    <3>9. SendsFile'
      BY <2>1, <3>6, <3>7, <3>8 DEF SendsFile
    <3>10. OffsetInBuffer'
      BY <2>1, <3>7 DEF OffsetInBuffer, HasChunk
    <3> QED BY <2>1, <3>6, <3>7, <3>9, <3>10, SendingDelivery DEF Sending
  <2>3. CASE EndOfFile
    <3>1. /\ UNCHANGED <<view, left, replies>> /\ more = 0
          /\ Conclude("done", state, current_chunk, current_chunk_p, iterator)
      BY <2>3 DEF EndOfFile, inbox
    <3>2. /\ view' = "wait" /\ left' = 0 /\ replies' = served' /\ served > 0
          /\ "keep_alive" \in state <=> reqs[served].keep
      BY <1>2, <2>1, <3>1 DEF SendsFile
    <3> QED BY <2>1, <3>1, <3>2, DoneDelivery
  <2>4. CASE FailFile
    <3>1. /\ UNCHANGED <<view, left, replies, reqs>> /\ FailingFile'
          /\ ev_watcher' = "closed" /\ current_chunk' = current_chunk
          /\ "expect_continue" \notin state'
      BY <2>4 DEF FailFile, FailingFile, Conclude, close_connection, inbox,
         parserVars
    <3>2. (left' = 0 /\ Ended') \/ Torn'
      BY <1>2, <2>1, <3>1 DEF SendsFile, Replying, Ended, Torn, FailingFile
    <3> QED BY <1>1, <2>1, <3>1, <3>2, ClosedDelivery
  <2> QED BY <1>5, <2>2, <2>3, <2>4
<1> QED BY <1>4, <1>5

(* ev_io_on_write preserves Delivery.                                      *)
LEMMA WriteDelivery ==
  ASSUME Context, Delivery, ev_io_on_write
  PROVE  Delivery'
<1> USE DEF Context
<1>1. ev_watcher = "write"
  BY DEF ev_io_on_write, on_write_chunk, on_write_sendfile_head,
     on_write_sendfile_body, WriteReleased
<1>2. CASE "expect_continue" \in state
  <2>1. on_write_chunk
    BY <1>2 DEF Delivery, Ready, ev_io_on_write, on_write_chunk,
       on_write_sendfile_head, on_write_sendfile_body, WriteReleased, HasChunk
  <2> QED BY <1>1, <1>2, <2>1, ContinueDelivery
<1>3. CASE "expect_continue" \notin state /\ sock = "reset"
  BY <1>1, <1>3, ResetDelivery
<1>4. CASE "expect_continue" \notin state /\ sock # "reset"
  <2>1. Sending
    BY <1>1, <1>4 DEF Delivery, Sending
  <2>2. ~Hangup /\ ~WriteReleased
    BY <1>4, <2>1 DEF Hangup, WriteReleased, HasChunk, SendsLiveBuffer,
       Sending, SendsError, SendsHead, SendsBody, SendsEnd, SendsFile, Text
  <2>3. CASE on_write_chunk
    BY <1>1, <1>4, <2>2, <2>3, PartialDelivery, FlushDelivery
       DEF on_write_chunk, FailChunk
  <2>4. CASE on_write_sendfile_head
    BY <1>1, <1>4, <2>2, <2>4, PartialDelivery, FileDelivery
       DEF on_write_sendfile_head, FailHead
  <2>5. CASE on_write_sendfile_body
    <3>1. ~HasChunk
      BY <2>5 DEF on_write_sendfile_body, HasChunk
    <3>2. CASE TryAgain
      BY <1>1, <1>4, <2>5, <3>2, PartialDelivery DEF on_write_sendfile_body
    <3>3. CASE SendFile \/ EndOfFile \/ FailFile
      BY <1>1, <1>4, <2>5, <3>1, <3>3, FileDelivery DEF on_write_sendfile_body
    <3> QED BY <1>4, <2>5, <3>2, <3>3 DEF on_write_sendfile_body
  <2> QED BY <2>2, <2>3, <2>4, <2>5 DEF ev_io_on_write
<1> QED BY <1>2, <1>3, <1>4

-----------------------------------------------------------------------------
(* Everything else. *)

(* What the client does, and a handler that leaves the Request alone or    *)
(* lets go of it.                                                          *)
LEMMA QuietDelivery ==
  ASSUME Context, Delivery,
         UNCHANGED <<state, current_chunk, current_chunk_p, iterator,
                     error_code, reqs, dead, app, more, served, view, left,
                     replies>>,
         sent > 4 * replies => sent' > 4 * replies,
         sock = "reset" => sock' = "reset",
         \/ ev_watcher' = ev_watcher /\ iterable' = iterable
         \/ ev_watcher = "read" /\ ev_watcher' \in {"closed", "crashed"}
  PROVE  Delivery'
<1>1. /\ HasChunk' <=> HasChunk
      /\ Size(current_chunk)' = Size(current_chunk)
      /\ Dropped' <=> Dropped
  BY DEF HasChunk, Size, Dropped
<1>2. sock' # "reset" => OffsetInBuffer'
  BY <1>1 DEF Delivery, OffsetInBuffer
<1>3. CASE ev_watcher' = ev_watcher /\ iterable' = iterable
  <2>1. Ready => Ready'
    BY <1>3 DEF Ready
  <2>2. NoChunkLeaked' <=> NoChunkLeaked
    BY <1>1, <1>3 DEF NoChunkLeaked
  <2>3. Sending => Sending'
    BY <1>3, SameReply
  <2>4. Closes'
    BY <1>3 DEF Delivery, Closes, Idle, Ended, Torn, FailingFile
  <2> QED BY <1>1, <1>2, <1>3, <2>1, <2>2, <2>3, <2>4 DEF Delivery, Sending
<1>4. CASE ~(ev_watcher' = ev_watcher /\ iterable' = iterable)
  <2>1. /\ ev_watcher = "read" /\ ev_watcher' \in {"closed", "crashed"}
        /\ "expect_continue" \notin state
    BY <1>4 DEF Delivery
  <2>2. NoChunkLeaked' \/ Dropped'
    BY <1>1, <2>1 DEF Delivery, NoChunkLeaked
  <2>3. Closes'
    BY <2>1 DEF Delivery, Ready, Closes, Idle
  <2> QED BY <1>2, <2>1, <2>2, <2>3 DEF Delivery
<1> QED BY <1>3, <1>4

LEMMA DeliveryStep ==
  ASSUME Context, Delivery, [Next]_vars
  PROVE  Delivery'
<1>1. CASE \E to \in 1..4 * MaxRequests : ReadData(to)
  BY <1>1, ReadDelivery
<1>2. CASE ev_io_on_write
  BY <1>2, WriteDelivery
<1>3. CASE \E to \in 1..4 * MaxRequests : ReadCrashes(to)
  BY <1>3, QuietDelivery DEF ReadCrashes, bitFields, chunkVars, bodyVars,
     parserVars, wsgiVars, clientVars, inbox
<1>4. CASE ReadAborts
  BY <1>4, QuietDelivery DEF ReadAborts, close_connection, Request_free,
     bitFields, chunkVars, parserVars, wsgiVars, clientVars, inbox, Delivery,
     Ready
<1>5. CASE ClientMoves
  <2>1. /\ UNCHANGED <<ev_watcher, state, error_code, current_chunk,
                       current_chunk_p, iterable, iterator, dead, app, more,
                       served>>
        /\ UNCHANGED <<reqs, view, left, replies>>
    BY <1>5 DEF ClientMoves, ClientSend, ClientClose, ClientReset, bitFields,
       chunkVars, bodyVars, wsgiVars, inbox
  <2>2. sent' = sent \/ (sent' \in Nat /\ sent < sent')
    BY <1>5 DEF ClientMoves, ClientSend, ClientClose, ClientReset
  <2>3. sock = "reset" => sock' = "reset"
    BY <1>5 DEF ClientMoves, ClientSend, ClientClose, ClientReset
  <2>4. sent > 4 * replies => sent' > 4 * replies
    BY <2>2 DEF Context, TypeOK, ClientTypeOK, InboxTypeOK
  <2> QED BY <2>1, <2>3, <2>4, QuietDelivery
<1>6. CASE UNCHANGED vars
  BY <1>6, QuietDelivery DEF vars, bitFields, chunkVars, bodyVars, parserVars,
     wsgiVars, clientVars, inbox
<1> QED BY <1>1, <1>2, <1>3, <1>4, <1>5, <1>6
        DEF Next, ev_io_on_read, Gone

-----------------------------------------------------------------------------
(* The theorems. *)

(* In each place that a reply can be in, what the client expects next is   *)
(* what bjoern has left.                                                   *)
THEOREM DeliveryCorrect ==
  ASSUME ExpectIsServed, FilesHaveLength PROVE Spec => []Delivery
<1> USE RequestsAssumption, AppsAssumption, ConnectionAssumption
<1>1. ExpectHasBody
  BY DEF ExpectIsServed, ExpectHasBody
<1>2. Init => Delivery
  BY DEF Init, Request_new, ClientInit, Delivery, Ready, NoChunkLeaked,
     OffsetInBuffer, HasChunk, Text, Closes
<1>3. TypeOK /\ Sent /\ Exchange /\ SendsLiveBuffer /\ Delivery /\ [Next]_vars
        => Delivery'
  BY DeliveryStep DEF Context
<1>4. Spec => []Exchange
  BY <1>1, ExchangeCorrect
<1> QED BY <1>2, <1>3, <1>4, TypeCorrect, SentCorrect, ChunkIsLive, PTL DEF Spec

(* Everything that is known of a state.                                    *)
LEMMA KnownCorrect ==
  ASSUME ExpectIsServed, FilesHaveLength
  PROVE  Spec => [](TypeOK /\ Exchange /\ SendsLiveBuffer /\ Delivery)
<1>1. ExpectHasBody
  BY DEF ExpectIsServed, ExpectHasBody
<1>2. Spec => []Exchange
  BY <1>1, ExchangeCorrect
<1>3. Spec => []Delivery
  BY DeliveryCorrect
<1> QED BY <1>2, <1>3, TypeCorrect, ChunkIsLive, PTL

(* The client can decode everything that bjoern writes.                    *)
THEOREM RepliesDecode ==
  ASSUME ExpectIsServed, FilesHaveLength PROVE Spec => []NeverGarbled
<1>1. Delivery => NeverGarbled
  BY DEF Delivery, NeverGarbled
<1> QED BY <1>1, DeliveryCorrect, PTL

(* No piece of a body is dropped, sent twice or overtaken.                 *)
THEOREM PiecesAccounted ==
  ASSUME ExpectIsServed, FilesHaveLength PROVE Spec => []PiecesConserved
<1>1. TypeOK /\ Delivery => PiecesConserved
  <2> SUFFICES ASSUME TypeOK, Delivery, ev_watcher = "write",
                      sock # "reset", served = replies + 1,
                      error_code = NO_ERROR, view # "wait",
                      current_chunk.part # "error"
               PROVE  left = Promised - app.pieces + more +
                               (IF HasChunk THEN current_chunk.pieces ELSE 0)
    BY DEF PiecesConserved
  <2>1. /\ more \in Nat /\ left \in Nat /\ Promised \in Nat
        /\ app.pieces \in Nat /\ replies \in Nat
    BY SendType, ConnectionAssumption
       DEF TypeOK, WsgiTypeOK, ClientTypeOK, InboxTypeOK, AppKinds
  <2>2. "expect_continue" \notin state
    BY DEF Delivery, Ready
  <2>3. SendsBody \/ SendsEnd \/ SendsFile
    BY <2>2 DEF Delivery, SendsError, SendsHead
  <2>4. SendsFile => Promised = app.pieces /\ ~HasChunk
    BY <2>1 DEF SendsFile, Promised, HasChunk
  <2> QED BY <2>1, <2>3, <2>4 DEF SendsBody, SendsEnd, SendsFile, HasChunk, Text
<1> QED BY <1>1, TypeCorrect, DeliveryCorrect, PTL

(* The writer gives up 100 Continue at an EAGAIN: what it leaves behind is *)
(* all that can be left behind, and never is if no such text is written or *)
(* every ready socket takes it.                                            *)
THEOREM ChunksAreReleased ==
  ASSUME ExpectIsServed, FilesHaveLength, ~(Spurious /\ Expecting)
  PROVE  Spec => []NoChunkLeaked
<1>1. Delivery => NoChunkLeaked
  BY DEF Delivery, Dropped
<1> QED BY <1>1, DeliveryCorrect, PTL

(* Nothing is read while a reply is due, or into its remains.              *)
THEOREM ReadsBetweenReplies ==
  ASSUME ExpectIsServed, FilesHaveLength, ~(Spurious /\ Expecting)
  PROVE  Spec => []ReadsOnlyBetweenReplies
<1>1. Delivery => ReadsOnlyBetweenReplies
  BY DEF Delivery, Dropped, NoChunkLeaked, Ready, ReadsOnlyBetweenReplies
<1> QED BY <1>1, DeliveryCorrect, PTL

(* On a connection that is not reset, the offset is inside of the buffer.  *)
THEOREM OffsetsInBuffer ==
  ASSUME ExpectIsServed, FilesHaveLength
  PROVE  Spec => [](sock # "reset" => OffsetInBuffer)
<1>1. Delivery => (sock # "reset" => OffsetInBuffer)
  BY DEF Delivery
<1> QED BY <1>1, DeliveryCorrect, PTL

(* Except for a file on a connection that is reset, no callback finds a    *)
(* buffer that has been released.                                          *)
THEOREM ReleasedIsCleared ==
  ASSUME ExpectIsServed, FilesHaveLength
  PROVE  Spec => [](~(iterable = "file" /\ sock = "reset") =>
                      NothingReleasedIsKept)
<1>1. SendsLiveBuffer /\ Delivery =>
        (~(iterable = "file" /\ sock = "reset") => NothingReleasedIsKept)
  <2> SUFFICES ASSUME SendsLiveBuffer, Delivery, ev_watcher = "write",
                      iterable = "file", sock # "reset",
                      current_chunk.part = "freed"
               PROVE  FALSE
    BY DEF NothingReleasedIsKept, SendsLiveBuffer, HasChunk
  <2> QED BY DEF Delivery, SendsError, SendsHead, SendsBody, SendsEnd,
             SendsFile, Text
<1> QED BY <1>1, KnownCorrect, PTL

(* A connection is closed after an error text, or when the application's   *)
(* answer was under way.                                                   *)
LEMMA CloseFacts ==
  ASSUME TypeOK, SendsLiveBuffer, Delivery, ev_io_on_write,
         ev_watcher' = "closed", sock # "reset"
  PROVE  view' = "close" \/ "wsgi_call_done" \in state'
<1>1. ev_watcher = "write"
  BY DEF ev_io_on_write, on_write_chunk, on_write_sendfile_head,
     on_write_sendfile_body, WriteReleased
<1>2. /\ "expect_continue" \notin state
      /\ state \ {"keep_alive", "chunked_response"} \subseteq state'
  <2>1. CASE on_write_chunk
    <3>1. FlushChunk \/ FailChunk
      BY <1>1, <2>1 DEF on_write_chunk, SendSome, TryAgain, Conclude,
         start_reading
    <3>2. PICK st, chunk, p, it :
            /\ \/ Conclude("aborted", st, chunk, p, it)
               \/ Terminate(st, chunk, p)
            /\ state \ {"keep_alive"} \subseteq st
      BY <1>1, <3>1 DEF FlushChunk, FailChunk, NextChunk, Conclude,
         start_reading
    <3> QED BY <1>1, <3>2 DEF Terminate, Conclude, start_reading
  <2>2. CASE on_write_sendfile_head
    BY <1>1, <2>2 DEF on_write_sendfile_head, SendSome, TryAgain, FlushHead,
       FailHead, SeekFile, Conclude, start_reading
  <2>3. CASE on_write_sendfile_body
    BY <1>1, <2>3 DEF on_write_sendfile_body, SendFile, TryAgain, EndOfFile,
       FailFile, Conclude, start_reading
  <2> QED BY <2>1, <2>2, <2>3 DEF ev_io_on_write, WriteReleased
<1>4. CASE SendsError
  <2>1. FlushChunk
    BY <1>1, <1>4 DEF ev_io_on_write, on_write_chunk, on_write_sendfile_head,
       on_write_sendfile_body, WriteReleased, HasChunk, SendsError, SendSome,
       TryAgain, FailChunk, Hangup, Conclude, start_reading
  <2>2. Legal(current_chunk, Promised)
    BY <1>4 DEF SendsError, Legal, Asked
  <2> QED BY <1>4, <2>1, <2>2
          DEF FlushChunk, Deliver, Receive, SendsError, GoesOn
<1>5. CASE SendsHead \/ SendsBody \/ SendsEnd \/ SendsFile
  <2>1. "wsgi_call_done" \in state
    BY <1>5 DEF SendsHead, SendsBody, SendsEnd, SendsFile, Replying
  <2> QED BY <1>2, <2>1
<1> QED BY <1>1, <1>2, <1>4, <1>5 DEF Delivery

(* After a whole reply the connection goes on exactly if the client asked  *)
(* it to, but for a file that fails behind its end.                        *)
THEOREM ContinuesAsAsked ==
  ASSUME ExpectIsServed, FilesHaveLength PROVE Spec => ContinuesIfAsked
<1>1. TypeOK /\ SendsLiveBuffer /\ Delivery /\ Delivery' /\ [Next]_vars =>
        [\A m \in Messages :
           /\ ev_watcher = "write" /\ ev_watcher' \in {"read", "closed"}
           /\ sock # "reset"
           /\ served = m /\ view' = "wait" /\ replies' = m
           => /\ ev_watcher' = "read" => reqs[m].keep
              /\ ev_watcher' = "closed" => ~reqs[m].keep \/ FailingFile]_vars
  <2> SUFFICES ASSUME TypeOK, SendsLiveBuffer, Delivery, Delivery', Next,
                      NEW m \in Messages, ev_watcher = "write",
                      ev_watcher' \in {"read", "closed"}, sock # "reset",
                      served = m, view' = "wait", replies' = m
               PROVE  /\ ev_watcher' = "read" => reqs[m].keep
                      /\ ev_watcher' = "closed" => ~reqs[m].keep \/ FailingFile
    BY Zenon
  <2>1. m > 0 /\ reqs' = reqs
    BY RequestsAssumption, SameMessages DEF Messages
  <2>2. ev_io_on_write /\ app' = app /\ sock' = sock /\ served' = served
    BY DEF Next, ev_io_on_read, ReadData, ReadCrashes, ReadAborts,
       ev_io_on_write, on_write_chunk, on_write_sendfile_head,
       on_write_sendfile_body, WriteReleased, ClientMoves, Gone, Serving,
       wsgiVars, clientVars
  <2>3. CASE ev_watcher' = "read"
    BY <2>1, <2>3 DEF Delivery, Ready
  <2>4. CASE ev_watcher' = "closed"
    <3>1. "wsgi_call_done" \in state'
      BY <2>2, <2>4, CloseFacts
    <3>2. Ended'
      BY <2>2, <2>4, <3>1 DEF Delivery, Closes, Idle, Torn
    <3> QED BY <2>1, <2>2, <2>4, <3>2 DEF Ended, FailingFile
  <2> QED BY <2>3, <2>4
<1> QED BY <1>1, KnownCorrect, PTL DEF Spec, ContinuesIfAsked

(* bjoern hangs up on a healthy connection only after a whole reply, or to *)
(* complete one, or because the application failed half-way, and then the  *)
(* reply is not made to look whole.                                        *)
THEOREM ClosesWhenDone ==
  ASSUME ExpectIsServed, FilesHaveLength PROVE Spec => ClosesAfterReply
<1>1. Delivery' /\ [Next]_vars =>
        [ev_watcher = "write" /\ ev_watcher' = "closed" /\ sock # "reset" =>
           \/ view' = "wait" /\ replies' = served' /\ left' = 0
           \/ view' = "close" /\ left' = 0
           \/ /\ app.fails /\ replies' < served' /\ left' > 0
              /\ view' \in {"length", "chunked", "close"}]_vars
  <2> SUFFICES ASSUME Delivery', Next, ev_watcher = "write",
                      ev_watcher' = "closed", sock # "reset"
               PROVE  \/ view' = "wait" /\ replies' = served' /\ left' = 0
                      \/ view' = "close" /\ left' = 0
                      \/ /\ app.fails /\ replies' < served' /\ left' > 0
                         /\ view' \in {"length", "chunked", "close"}
    BY Zenon
  <2>1. app' = app /\ sock' = sock
    BY DEF Next, ev_io_on_read, ReadData, ReadCrashes, ReadAborts,
       ev_io_on_write, on_write_chunk, on_write_sendfile_head,
       on_write_sendfile_body, WriteReleased, ClientMoves, Gone, Serving,
       wsgiVars, clientVars
  <2> QED BY <2>1 DEF Delivery, Closes, Idle, Ended, Torn
<1> QED BY <1>1, DeliveryCorrect, PTL DEF Spec, ClosesAfterReply

-----------------------------------------------------------------------------
(* Connection implements KeepAlive. *)

(* A step of ev_io_on_write completes the reply that is due, or none.      *)
LEMMA RepliesOnce ==
  ASSUME Context, Delivery, Exchange', ev_io_on_write
  PROVE  /\ served' = served
         /\ replies' # replies => replies < served /\ replies' = served
<1> USE DEF Context
<1>1. served' = served /\ ev_watcher = "write"
  BY DEF ev_io_on_write, on_write_chunk, on_write_sendfile_head,
     on_write_sendfile_body, WriteReleased, wsgiVars
<1>2. SUFFICES ASSUME replies' # replies
               PROVE  replies < served /\ replies' = served
  BY <1>1
<1>3. replies \in Nat /\ served \in Nat /\ replies' <= served
  BY <1>1 DEF TypeOK, WsgiTypeOK, ClientTypeOK, InboxTypeOK, Exchange
<1>4. PICK b :
        /\ sock # "reset" /\ Receive(b, Promised)
        /\ b = current_chunk \/ (iterable = "file" /\ b.part = "body")
  <2>1. CASE FlushChunk \/ FlushHead
    BY <2>1 DEF FlushChunk, FlushHead, Deliver
  <2>2. CASE SendFile /\ iterable = "file"
    <3>1. PICK k \in 1..more : sock # "reset" /\ Receive(FilePieces(k), Promised)
      BY <2>2 DEF SendFile, Deliver
    <3>2. FilePieces(k).part = "body"
      BY DEF FilePieces
    <3> QED BY <2>2, <3>1, <3>2
  <2>3. CASE UNCHANGED inbox
    BY <1>2, <2>3 DEF inbox
  <2> QED BY <2>1, <2>2, <2>3 DEF ev_io_on_write, on_write_chunk,
          on_write_sendfile_head, on_write_sendfile_body, WriteReleased,
          SendSome, TryAgain, FailChunk, FailHead, EndOfFile, FailFile,
          clientVars
<1>5. replies' = replies + 1 /\ b.part \in {"head", "body", "end"}
  BY <1>2, <1>3, <1>4 DEF Receive, Legal, GoesOn
<1>6. served <= replies + 1
  <2>1. CASE "expect_continue" \in state
    BY <1>3, <2>1 DEF Delivery, Ready
  <2>2. CASE "expect_continue" \notin state
    <3>1. ~SendsError
      BY <1>4, <1>5 DEF SendsError
    <3> QED BY <1>1, <1>3, <1>4, <2>2, <3>1
            DEF Delivery, SendsHead, SendsBody, SendsEnd, SendsFile, Replying
  <2> QED BY <2>1, <2>2
<1> QED BY <1>3, <1>5, <1>6

(* The application is called in turn, with no reply due, and while the     *)
(* client wishes to go on.                                                 *)
LEMMA CallsOnce ==
  ASSUME Context, Delivery, NEW to \in 1..4 * MaxRequests, ReadData(to)
  PROVE  /\ UNCHANGED <<reqs, replies>> /\ replies = served
         /\ ev_watcher = "read" /\ Serving'
         /\ served' # served => /\ served' = served + 1
                                /\ served' <= MaxRequests
                                /\ served = 0 \/ reqs[served].keep
<1> USE DEF Context
<1>1. /\ ev_watcher = "read" /\ Ready /\ replies = served
      /\ UNCHANGED <<reqs, replies>>
  BY DEF ReadData, Parse, Delivery, Ready, clientVars, inbox
<1>2. Serving'
  BY DEF ReadData, ParseError, CallApplication, PauseRead, WaitForMore,
     start_writing, Serving
<1>3. served \in Nat
  BY DEF TypeOK, WsgiTypeOK
<1>4. ASSUME served' # served
      PROVE  served' = served + 1 /\ served' <= MaxRequests
  <2>1. PICK a \in Apps, m \in Messages :
          /\ "parse_finished" \in Request_parse(to)
          /\ At(m, 1) <= to /\ to <= At(m, 4)
          /\ wsgi_call_application(a, Request_parse(to), m)
    BY <1>4 DEF ReadData, ParseError, CallApplication, PauseRead,
       WaitForMore, wsgiVars
  <2>2. served' = m /\ m = replies + 1
    BY <2>1, CallsNext DEF wsgi_call_application
  <2> QED BY <1>1, <2>2 DEF Messages, RequestsAssumption
<1> QED BY <1>1, <1>2, <1>3, <1>4 DEF Ready

(* Without its liveness, the dialogue is that of KeepAlive: each step of   *)
(* the handlers and of the client is a Call, a Reply, a Close or nothing.  *)
THEOREM FollowsKeepAlive ==
  ASSUME ExpectIsServed, FilesHaveLength PROVE Spec => Dialogue!Spec
<1> USE RequestsAssumption, AppsAssumption, ConnectionAssumption
<1> DEFINE keeps == [m \in Messages |-> reqs[m].keep]
<1>1. Init => Dialogue!Init
  <2> SUFFICES ASSUME Init PROVE Dialogue!Init
    OBVIOUS
  <2>1. keeps \in [1..MaxRequests -> BOOLEAN]
    BY DEF Init, ClientInit, RequestsAssumption, RequestKinds, Messages
  <2>2. served = 0 /\ replies = 0 /\ Serving
    BY DEF Init, ClientInit, Serving
  <2> QED BY <2>1, <2>2 DEF Dialogue!Init
<1>2. /\ TypeOK /\ Sent /\ Exchange /\ SendsLiveBuffer /\ Delivery
      /\ Exchange' /\ [Next]_vars
      => [Dialogue!Next]_(Dialogue!vars)
  <2> SUFFICES ASSUME Context, Delivery, Exchange', [Next]_vars
               PROVE  [Dialogue!Next]_(Dialogue!vars)
    BY DEF Context
  <2>1. keeps' = keeps
    BY SameMessages DEF Messages
  <2>2. ASSUME served' = served, replies' = replies, Serving' => Serving
        PROVE  [Dialogue!Next]_(Dialogue!vars)
    <3>1. CASE Serving' <=> Serving
      BY <2>1, <2>2, <3>1 DEF Dialogue!vars, Serving
    <3>2. CASE Serving /\ ~Serving'
      BY <2>1, <2>2, <3>2 DEF Dialogue!Next, Dialogue!Close
    <3> QED BY <2>2, <3>1, <3>2
  <2>3. CASE \E to \in 1..4 * MaxRequests : ReadData(to)
    <3>1. PICK to \in 1..4 * MaxRequests : ReadData(to)
      BY <2>3
    <3>2. /\ replies' = replies /\ replies = served /\ Serving /\ Serving'
          /\ served' # served => /\ served' = served + 1
                                 /\ served' <= MaxRequests
                                 /\ served = 0 \/ reqs[served].keep
      BY <3>1, CallsOnce DEF Serving
    <3>3. CASE served' = served
      BY <2>2, <3>2, <3>3
    <3>4. CASE served' # served
      <4>1. served \in Nat /\ served < MaxRequests
        BY <3>2, <3>4 DEF Context, TypeOK, WsgiTypeOK
      <4>2. served = 0 \/ keeps[served]
        BY <3>2, <3>4, <4>1 DEF Messages, RequestsAssumption
      <4> QED BY <2>1, <3>2, <3>4, <4>1, <4>2 DEF Dialogue!Next, Dialogue!Call
    <3> QED BY <3>3, <3>4
  <2>4. CASE ev_io_on_write
    <3>1. /\ served' = served /\ Serving
          /\ replies' # replies => replies < served /\ replies' = served
      BY <2>4, RepliesOnce DEF Serving, ev_io_on_write, on_write_chunk,
         on_write_sendfile_head, on_write_sendfile_body, WriteReleased
    <3>2. CASE replies' = replies
      BY <2>2, <3>1, <3>2
    <3>3. CASE replies' # replies
      <4>1. Serving' \in BOOLEAN
        BY DEF Serving
      <4> QED BY <2>1, <3>1, <3>3, <4>1 DEF Dialogue!Next, Dialogue!Reply
    <3> QED BY <3>2, <3>3
  <2>5. CASE \/ \E to \in 1..4 * MaxRequests : ReadCrashes(to)
             \/ ReadAborts \/ ClientMoves \/ UNCHANGED vars
    <3>1. served' = served /\ replies' = replies /\ (Serving' => Serving)
      BY <2>5 DEF ReadCrashes, ReadAborts, ClientMoves, ClientSend,
         ClientClose, ClientReset, vars, wsgiVars, clientVars, inbox, Serving
    <3> QED BY <2>2, <3>1
  <2> QED BY <2>3, <2>4, <2>5 DEF Next, ev_io_on_read, Gone
<1>3. Spec => [](TypeOK /\ Exchange /\ SendsLiveBuffer /\ Delivery)
  BY KnownCorrect
<1> QED BY <1>1, <1>2, <1>3, SentCorrect, PTL DEF Spec, Dialogue!Spec

=============================================================================
