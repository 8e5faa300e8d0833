-------------------------- MODULE Connection_proofs ---------------------------
(***************************************************************************)
(* Theorems about Connection, for every value of its constants: any        *)
(* requests and applications, with hangups, resets and spurious wakeups.   *)
(* First its type and what it may send, then the exchanges.                *)
(***************************************************************************)
EXTENDS Connection, TLAPS

-----------------------------------------------------------------------------
(* Type correctness. *)

(* The texts that server.c stores in current_chunk are buffers.            *)
LEMMA TextType ==
  ASSUME NEW part \in Parts \ {"head"}, NEW p \in Int
  PROVE  Text(part) \in Buffers /\ TextAt(part, p) \in Buffers
BY DEF Text, TextAt, Buffers, Parts, Framings

(* What the client makes of a buffer keeps its state well-typed.           *)
LEMMA DeliverType ==
  ASSUME ClientTypeOK, NEW b \in Buffers, NEW total \in Nat, Deliver(b, total)
  PROVE  InboxTypeOK'
<1> USE RequestsAssumption
<1>1. CASE UNCHANGED inbox
  BY <1>1 DEF ClientTypeOK, InboxTypeOK, inbox
<1>2. CASE Receive(b, total)
  <2>1. CASE view' = "garbled" /\ UNCHANGED <<left, replies, interim>>
    BY <2>1 DEF ClientTypeOK, InboxTypeOK, Views
  <2> SUFFICES ASSUME Legal(b, total) PROVE InboxTypeOK'
    BY <1>2, <2>1 DEF Receive
  <2>2. replies + 1 \in 0..MaxRequests
    BY DEF Legal, Asked, ClientTypeOK, InboxTypeOK
  <2>3. ASSUME NEW as \in Views, NEW rest \in Nat, GoesOn(as, rest)
        PROVE  InboxTypeOK'
    BY <2>2, <2>3 DEF GoesOn, ClientTypeOK, InboxTypeOK, Views
  <2>4. CASE b.part = "continue"
    BY <1>2, <2>2, <2>4 DEF Receive, ClientTypeOK, InboxTypeOK
  <2>5. CASE b.part = "error"
    BY <1>2, <2>3, <2>5 DEF Receive, Views
  <2>6. CASE b.part = "head"
    <3>1. b.framing \in Views /\ total - b.pieces \in Nat
      BY <2>6 DEF Legal, LegalHead, Buffers, Framings, Views
    <3> QED BY <1>2, <2>3, <2>6, <3>1 DEF Receive
  <2>7. CASE b.part = "body"
    <3>1. view \in Views /\ left - b.pieces \in Nat
      BY <2>7 DEF Legal, LegalBody, Buffers, ClientTypeOK, InboxTypeOK
    <3> QED BY <1>2, <2>3, <2>7, <3>1 DEF Receive
  <2>8. CASE b.part = "end"
    BY <1>2, <2>3, <2>8 DEF Receive, Views
  <2> QED BY <1>2, <2>4, <2>5, <2>6, <2>7, <2>8 DEF Receive
<1> QED BY <1>1, <1>2 DEF Deliver

(* The end of ev_io_on_write keeps the Request well-typed.                 *)
LEMMA ConcludeType ==
  ASSUME RequestTypeOK, ConnectionAssumption,
         NEW ws, NEW st \in SUBSET Flags, NEW chunk \in Buffers,
         NEW p \in Int, NEW it \in {"none", "live"},
         Conclude(ws, st, chunk, p, it)
  PROVE  RequestTypeOK'
<1>1. CASE /\ Request_clean /\ Request_reset
           /\ start_reading
           /\ UNCHANGED <<reqs, parsed, dead>>
  <2>1. Text("none") \in Buffers
    BY TextType DEF Parts
  <2>2. {"response_length_unknown"} \subseteq Flags
    BY DEF Flags
  <2>3. unclosed' \in Int
    BY <1>1 DEF Request_clean, RequestTypeOK
  <2>4. /\ ev_watcher' = "read"
        /\ state' \subseteq Flags
        /\ error_code' = NO_ERROR
        /\ field' \in BOOLEAN /\ headers' \in BOOLEAN
        /\ current_chunk' \in Buffers /\ current_chunk_p' = 0
        /\ iterable' = "none" /\ iterator' = "none"
    BY <1>1, <2>1, <2>2 DEF Request_reset, start_reading
  <2>5. /\ dead' \in BOOLEAN
        /\ reqs' \in [Messages -> RequestKinds]
        /\ parsed' \in 0..4 * MaxRequests
    BY <1>1 DEF RequestTypeOK
  <2> QED BY <2>3, <2>4, <2>5 DEF RequestTypeOK
<1>2. CASE /\ close_connection
           /\ state' = st
           /\ current_chunk' = chunk /\ current_chunk_p' = p
           /\ UNCHANGED <<error_code, headers, parserVars>>
  BY <1>2 DEF RequestTypeOK, close_connection, Request_free, Request_clean,
     parserVars, Messages
<1>3. CASE /\ state' \in SUBSET Flags
           /\ ev_watcher' \in {"read", ev_watcher}
           /\ current_chunk' = chunk /\ current_chunk_p' = p
           /\ iterator' = it
           /\ UNCHANGED <<error_code, headers, parserVars, iterable, unclosed>>
  BY <1>3 DEF RequestTypeOK, parserVars, Messages
<1> QED BY <1>1, <1>2, <1>3 DEF Conclude, start_reading

(* start_response and what follows it only handle the bits of Flags.       *)
LEMMA FlagsType ==
  ASSUME NEW a, NEW q, NEW st \in SUBSET Flags, NEW to
  PROVE  /\ start_response(a, st) \in SUBSET Flags
         /\ Committed(a, st, q) \in SUBSET Flags
         /\ state \in SUBSET Flags => Request_parse(to) \in SUBSET Flags
<1>1. start_response(a, st) \in SUBSET Flags
  BY DEF start_response, Flags
<1>2. Committed(a, st, q) \in SUBSET Flags
  BY <1>1 DEF Committed, Flags
<1>3. state \in SUBSET Flags => Request_parse(to) \in SUBSET Flags
  BY DEF Request_parse, Flags
<1> QED BY <1>1, <1>2, <1>3

(* The call of the application keeps the Request well-typed.               *)
LEMMA CallType ==
  ASSUME RequestTypeOK, WsgiTypeOK, AppsAssumption,
         NEW a \in Apps, NEW st \in SUBSET Flags, NEW m \in Messages,
         wsgi_call_application(a, st, m)
  PROVE  /\ state' \in SUBSET Flags
         /\ headers' \in BOOLEAN
         /\ current_chunk' \in Buffers /\ current_chunk_p' \in Int
         /\ iterable' \in {"none", "iter", "file"}
         /\ iterator' \in {"none", "live"}
         /\ unclosed' \in Int
         /\ WsgiTypeOK'
<1> DEFINE first == FirstPieces(a, st)
<1>1. a \in AppKinds
  BY DEF AppsAssumption
<1>2. first \in Nat /\ a.pieces - first \in Nat
  BY <1>1 DEF FirstPieces, AppKinds
<1>3. ASSUME a.ret # "raise", Take(a, st)
      PROVE  /\ iterable' \in {"none", "iter", "file"}
             /\ unclosed' \in Int
             /\ more' \in Nat
  BY <1>1, <1>2, <1>3 DEF Take, AppKinds, RequestTypeOK
<1>4. app' \in AppKinds /\ served' \in 0..MaxRequests
  BY <1>1, RequestsAssumption DEF wsgi_call_application, Messages
<1>5. CASE Responds(a, st, reqs[m])
  <2> DEFINE bits == Committed(a, st, reqs[m])
  <2>1. bits \in SUBSET Flags
    BY FlagsType
  <2> HIDE DEF bits, first
  <2>2. wsgi_getheaders(a, bits, first) \in Buffers
    BY <1>2 DEF wsgi_getheaders, Buffers, Parts, Framings
  <2>3. a.ret # "raise" /\ Take(a, st)
    BY <1>5 DEF Responds, Raises
  <2>4. /\ iterator' \in {"none", "live"}
        /\ state' = bits
        /\ headers' \in BOOLEAN
        /\ current_chunk' = wsgi_getheaders(a, bits, first)
        /\ current_chunk_p' = 0
    BY <1>5 DEF Responds, bits, first
  <2> QED BY <1>3, <1>4, <2>1, <2>2, <2>3, <2>4 DEF WsgiTypeOK
<1>6. CASE Refuses(a, st)
  <2>1. /\ state' \in SUBSET Flags
        /\ iterator' = "none"
        /\ headers' \in BOOLEAN
        /\ current_chunk_p' = current_chunk_p
    BY <1>1, <1>6, FlagsType DEF Refuses, AppKinds, CalledAgain
  <2>2. current_chunk' \in Buffers
    BY <1>6, TextType DEF Refuses, Parts, RequestTypeOK
  <2>3. CASE Raises(a)
    BY <1>4, <1>6, <2>1, <2>2, <2>3 DEF Refuses, RequestTypeOK, WsgiTypeOK
  <2>4. CASE ~Raises(a)
    <3>1. a.ret # "raise" /\ Take(a, st)
      BY <1>6, <2>4 DEF Refuses, Raises
    <3> QED BY <1>3, <1>4, <2>1, <2>2, <3>1 DEF RequestTypeOK, WsgiTypeOK
  <2> QED BY <2>3, <2>4
<1> QED BY <1>5, <1>6 DEF wsgi_call_application

(* What TypeOK says of the arguments that Conclude is given.               *)
LEMMA Fields ==
  ASSUME TypeOK
  PROVE  /\ RequestTypeOK
         /\ state \in SUBSET Flags /\ state \ {"keep_alive"} \in SUBSET Flags
         /\ current_chunk \in Buffers /\ current_chunk_p \in Int
         /\ iterator \in {"none", "live"}
         /\ "none" \in {"none", "live"} /\ "live" \in {"none", "live"}
         /\ 0 \in Int
         /\ more \in Nat
BY DEF TypeOK, RequestTypeOK, WsgiTypeOK

(* The outcomes that the routines of ev_io_on_write share.                 *)
LEMMA SendType ==
  ASSUME TypeOK, ConnectionAssumption
  PROVE  /\ SendSome \/ TryAgain => RequestTypeOK' /\ more' \in Nat
         /\ Released \in Buffers
         /\ Promised \in Nat
<1>1. ASSUME SendSome PROVE RequestTypeOK' /\ more' \in Nat
  <2>1. PICK n \in 1..BufferUnits :
          Conclude("not_yet_done", state, current_chunk, current_chunk_p + n,
                   iterator)
    BY <1>1 DEF SendSome
  <2>2. current_chunk_p + n \in Int
    BY Fields, ConnectionAssumption
  <2>3. RequestTypeOK'
    BY <2>1, <2>2, Fields, ConcludeType
  <2> QED BY <1>1, <2>3, Fields DEF SendSome
<1>2. ASSUME TryAgain PROVE RequestTypeOK' /\ more' \in Nat
  <2>1. RequestTypeOK'
    BY <1>2, Fields, ConcludeType DEF TryAgain
  <2> QED BY <1>2, <2>1, Fields DEF TryAgain
<1>3. Released \in Buffers
  BY TextType DEF Released, TypeOK, RequestTypeOK, Parts
<1>4. Promised \in Nat
  BY DEF Promised, TypeOK, WsgiTypeOK, AppKinds
<1> QED BY <1>1, <1>2, <1>3, <1>4

(* The end of a generic response leaves a well-typed Request.              *)
LEMMA TerminateType ==
  ASSUME TypeOK, ConnectionAssumption,
         NEW st \in SUBSET Flags, NEW chunk \in Buffers, NEW p \in Int,
         Terminate(st, chunk, p)
  PROVE  RequestTypeOK'
<1>1. TextAt("end", p) \in Buffers
  BY TextType DEF Parts
<1>2. st \ {"chunked_response"} \in SUBSET Flags
  OBVIOUS
<1> QED BY <1>1, <1>2, Fields, ConcludeType DEF Terminate

(* on_write_chunk keeps every type.                                        *)
LEMMA ChunkType ==
  ASSUME TypeOK, ConnectionAssumption, on_write_chunk
  PROVE  TypeOK'
<1> USE DEF TypeOK
<1>1. UNCHANGED <<app, served, sent, sock>>
  BY DEF on_write_chunk
<1>2. Text("none") \in Buffers
  BY TextType DEF Parts
<1>3. SUFFICES RequestTypeOK' /\ more' \in Nat /\ InboxTypeOK'
  BY <1>1 DEF WsgiTypeOK, ClientTypeOK
<1>4. CASE SendSome \/ TryAgain
  BY <1>4, SendType
     DEF SendSome, TryAgain, inbox, ClientTypeOK, InboxTypeOK
<1>5. CASE FlushChunk
  <2>1. InboxTypeOK'
    BY <1>5, Fields, SendType, DeliverType DEF FlushChunk
  <2>2. CASE /\ iterator = "live" /\ more > 0
             /\ more' = more - 1
             /\ Conclude("not_yet_done", state, Piece(state), 0, "live")
    <3>1. Piece(state) \in Buffers
      BY DEF Piece, Buffers, Parts, Framings
    <3>2. RequestTypeOK'
      BY <2>2, <3>1, Fields, ConcludeType
    <3> QED BY <2>1, <2>2, <3>2 DEF WsgiTypeOK
  <2>3. CASE /\ Conclude("aborted", state, Text("none"), 0, "live")
             /\ UNCHANGED more
    <3>1. RequestTypeOK'
      BY <1>2, <2>3, Fields, ConcludeType
    <3> QED BY <2>1, <2>3, <3>1 DEF WsgiTypeOK
  <2>4. CASE Terminate(state, Text("none"), 0) /\ UNCHANGED more
    <3>1. RequestTypeOK'
      BY <1>2, <2>4, Fields, TerminateType
    <3> QED BY <2>1, <2>4, <3>1 DEF WsgiTypeOK
  <2> QED BY <1>5, <2>2, <2>3, <2>4 DEF FlushChunk, NextChunk
<1>6. CASE FailChunk
  <2>1. RequestTypeOK'
    BY <1>6, Fields, SendType, TerminateType DEF FailChunk
  <2> QED BY <1>6, <2>1
          DEF FailChunk, inbox, WsgiTypeOK, ClientTypeOK, InboxTypeOK
<1> QED BY <1>4, <1>5, <1>6 DEF on_write_chunk

(* So does phase B of on_write_sendfile, an offset of -1 included.         *)
LEMMA SeekType ==
  ASSUME TypeOK, ConnectionAssumption,
         NEW st \in SUBSET Flags, NEW chunk \in Buffers,
         NEW it \in {"none", "live"},
         SeekFile(st, chunk, it)
  PROVE  RequestTypeOK'
<1>1. -1 \in Int /\ app.pieces - more \in Int
  BY DEF TypeOK, WsgiTypeOK, AppKinds
<1>2. CASE Conclude("aborted", st, chunk, -1, it)
  BY <1>1, <1>2, Fields, ConcludeType
<1>3. CASE Conclude("not_yet_done", st, chunk, app.pieces - more, it)
  BY <1>1, <1>3, Fields, ConcludeType
<1> QED BY <1>2, <1>3 DEF SeekFile

(* on_write_sendfile keeps every type while it sends the headers,          *)
LEMMA FileHeadType ==
  ASSUME TypeOK, ConnectionAssumption, on_write_sendfile_head
  PROVE  TypeOK'
<1> USE DEF TypeOK
<1>1. UNCHANGED <<app, served, sent, sock>>
  BY DEF on_write_sendfile_head
<1>2. Text("none") \in Buffers
  BY TextType DEF Parts
<1>3. SUFFICES RequestTypeOK' /\ more' \in Nat /\ InboxTypeOK'
  BY <1>1 DEF WsgiTypeOK, ClientTypeOK
<1>4. CASE SendSome \/ TryAgain
  BY <1>4, SendType
     DEF SendSome, TryAgain, inbox, ClientTypeOK, InboxTypeOK
<1>5. CASE FlushHead
  <2>1. InboxTypeOK'
    BY <1>5, Fields, SendType, DeliverType DEF FlushHead
  <2>2. RequestTypeOK'
    BY <1>2, <1>5, Fields, SeekType DEF FlushHead
  <2> QED BY <1>5, <2>1, <2>2 DEF FlushHead, WsgiTypeOK
<1>6. CASE FailHead
  <2>1. RequestTypeOK'
    BY <1>6, Fields, SendType, SeekType DEF FailHead
  <2> QED BY <1>6, <2>1
          DEF FailHead, inbox, WsgiTypeOK, ClientTypeOK, InboxTypeOK
<1> QED BY <1>4, <1>5, <1>6 DEF on_write_sendfile_head

(* and while it sends the file.                                            *)
LEMMA FileBodyType ==
  ASSUME TypeOK, ConnectionAssumption, on_write_sendfile_body
  PROVE  TypeOK'
<1> USE DEF TypeOK
<1>1. UNCHANGED <<app, served, sent, sock>>
  BY DEF on_write_sendfile_body
<1>2. SUFFICES RequestTypeOK' /\ more' \in Nat /\ InboxTypeOK'
  BY <1>1 DEF WsgiTypeOK, ClientTypeOK
<1>3. CASE TryAgain
  BY <1>3, SendType DEF TryAgain, inbox, ClientTypeOK, InboxTypeOK
<1>4. CASE SendFile
  <2>1. PICK k \in 1..more :
          /\ more' = more - k
          /\ Deliver(FilePieces(k), Promised)
          /\ Conclude("not_yet_done", state, current_chunk,
                      current_chunk_p + k, iterator)
    BY <1>4 DEF SendFile
  <2>2. k \in Nat /\ more - k \in Nat /\ current_chunk_p + k \in Int
    BY DEF WsgiTypeOK, RequestTypeOK
  <2>3. FilePieces(k) \in Buffers
    BY <2>2 DEF FilePieces, Buffers, Parts, Framings
  <2>4. InboxTypeOK'
    BY <2>1, <2>3, SendType, DeliverType
  <2>5. RequestTypeOK'
    BY <2>1, <2>2, Fields, ConcludeType
  <2> QED BY <2>1, <2>2, <2>4, <2>5
<1>5. CASE EndOfFile
  <2>1. RequestTypeOK'
    BY <1>5, Fields, ConcludeType DEF EndOfFile
  <2> QED BY <1>5, <2>1
          DEF EndOfFile, inbox, WsgiTypeOK, ClientTypeOK, InboxTypeOK
<1>6. CASE FailFile
  <2>1. RequestTypeOK'
    BY <1>6, Fields, ConcludeType DEF FailFile
  <2> QED BY <1>6, <2>1
          DEF FailFile, inbox, WsgiTypeOK, ClientTypeOK, InboxTypeOK
<1> QED BY <1>3, <1>4, <1>5, <1>6 DEF on_write_sendfile_body

(* ev_io_on_read keeps every type.                                         *)
LEMMA ReadType ==
  ASSUME TypeOK, AppsAssumption, NEW to \in 1..4 * MaxRequests, ReadData(to)
  PROVE  TypeOK'
<1>1. UNCHANGED clientVars /\ ev_watcher = "read"
  BY DEF ReadData
<1>2. ClientTypeOK'
  BY <1>1 DEF TypeOK, ClientTypeOK, InboxTypeOK, clientVars, inbox
<1>3. Request_parse(to) \in SUBSET Flags
  BY Fields, FlagsType
<1>4. /\ error_code' \in {NO_ERROR, HTTP_BAD_REQUEST, HTTP_EXPECTATION_FAILED}
      /\ field' \in BOOLEAN /\ dead' \in BOOLEAN
      /\ reqs' \in [Messages -> RequestKinds]
      /\ parsed' \in 0..4 * MaxRequests
  BY RequestsAssumption
     DEF ReadData, Parse, on_header_field, ErrorCode, TypeOK, RequestTypeOK
<1>5. Headers(to) \in BOOLEAN
  BY DEF Headers, TypeOK, RequestTypeOK
<1>6. SUFFICES /\ ev_watcher' \in {"read", "write", "closed", "crashed"}
               /\ state' \in SUBSET Flags
               /\ headers' \in BOOLEAN
               /\ current_chunk' \in Buffers /\ current_chunk_p' \in Int
               /\ iterable' \in {"none", "iter", "file"}
               /\ iterator' \in {"none", "live"}
               /\ unclosed' \in Int
               /\ WsgiTypeOK'
  BY <1>2, <1>4 DEF TypeOK, RequestTypeOK
<1>7. CASE UNCHANGED <<bodyVars, wsgiVars>>
  <2>1. /\ iterable' \in {"none", "iter", "file"}
        /\ iterator' \in {"none", "live"}
        /\ unclosed' \in Int
        /\ WsgiTypeOK'
    BY <1>7 DEF TypeOK, RequestTypeOK, WsgiTypeOK, bodyVars, wsgiVars
  <2>2. CASE ParseError(to)
    <3>1. TextAt("error", current_chunk_p) \in Buffers
      BY Fields, TextType DEF Parts
    <3> QED BY <1>3, <1>5, <2>1, <2>2, <3>1, Fields
            DEF ParseError, start_writing
  <2>3. CASE PauseRead(to)
    <3>1. TextAt("continue", current_chunk_p) \in Buffers
      BY Fields, TextType DEF Parts
    <3> QED BY <1>3, <1>5, <2>1, <2>3, <3>1, Fields
            DEF PauseRead, start_writing
  <2>4. CASE WaitForMore(to)
    BY <1>1, <1>3, <1>5, <2>1, <2>4, Fields DEF WaitForMore, chunkVars
  <2>5. CASE CallApplication(to)
    BY <1>1, <1>3, <2>5, CallType DEF CallApplication, start_writing, TypeOK
  <2> QED BY <2>2, <2>3, <2>4, <2>5 DEF ReadData
<1>8. CASE CallApplication(to)
  BY <1>1, <1>3, <1>8, CallType DEF CallApplication, start_writing, TypeOK
<1> QED BY <1>7, <1>8 DEF ReadData, ParseError, PauseRead, WaitForMore

(* Neither does the client break them.                                     *)
LEMMA ClientMovesType ==
  ASSUME TypeOK, ClientMoves
  PROVE  TypeOK'
<1>1. RequestTypeOK' /\ WsgiTypeOK' /\ InboxTypeOK'
  <2>1. UNCHANGED <<reqs, inbox>>
    BY DEF ClientMoves, ClientSend, ClientClose, ClientReset
  <2> QED BY <2>1 DEF ClientMoves, TypeOK, RequestTypeOK, WsgiTypeOK,
          ClientTypeOK, InboxTypeOK, bitFields, chunkVars, bodyVars, wsgiVars,
          inbox
<1>2. sent' \in 0..4 * MaxRequests /\ sock' \in {"open", "closed", "reset"}
  BY RequestsAssumption DEF ClientMoves, ClientSend, ClientClose, ClientReset,
     TypeOK, ClientTypeOK
<1> QED BY <1>1, <1>2 DEF TypeOK, ClientTypeOK

(* TypeOK holds of every reachable state.                                  *)
THEOREM TypeCorrect == Spec => []TypeOK
<1> USE RequestsAssumption, AppsAssumption, ConnectionAssumption
<1>1. Init => TypeOK
  <2> SUFFICES ASSUME Init PROVE TypeOK
    OBVIOUS
  <2>1. RequestTypeOK
    <3>1. Text("none") \in Buffers
      BY TextType DEF Parts
    <3>2. reqs \in [Messages -> RequestKinds]
      BY DEF Init, ClientInit
    <3>3. {"response_length_unknown"} \subseteq Flags
      BY DEF Flags
    <3>4. /\ state = {"response_length_unknown"} /\ error_code = NO_ERROR
          /\ field \in BOOLEAN /\ headers \in BOOLEAN /\ dead \in BOOLEAN
          /\ current_chunk = Text("none") /\ current_chunk_p = 0
          /\ iterable = "none" /\ iterator = "none" /\ unclosed = 0
          /\ parsed = 0
          /\ ev_watcher = "read"
      BY DEF Init, Request_new
    <3> QED BY <3>1, <3>2, <3>3, <3>4 DEF RequestTypeOK
  <2>2. WsgiTypeOK
    BY DEF Init, WsgiTypeOK, NoApp, AppKinds
  <2>3. ClientTypeOK
    BY DEF Init, ClientInit, ClientTypeOK, InboxTypeOK, Views
  <2> QED BY <2>1, <2>2, <2>3 DEF TypeOK
<1>2. TypeOK /\ [Next]_vars => TypeOK'
  <2> SUFFICES ASSUME TypeOK, [Next]_vars PROVE TypeOK'
    OBVIOUS
  <2>1. ASSUME NEW to \in 1..4 * MaxRequests, ReadData(to) PROVE TypeOK'
    BY <2>1, ReadType
  <2>2. CASE /\ ev_watcher' \in {"write", "crashed"}
             /\ UNCHANGED <<bitFields, chunkVars, bodyVars, parserVars,
                            headers, wsgiVars, clientVars>>
    BY <2>2 DEF TypeOK, RequestTypeOK, WsgiTypeOK, ClientTypeOK, InboxTypeOK,
       bitFields, chunkVars, bodyVars, parserVars, wsgiVars, clientVars, inbox
  <2>3. CASE ReadAborts
    BY <2>3 DEF ReadAborts, close_connection, Request_free, Request_clean,
       TypeOK, RequestTypeOK, WsgiTypeOK, ClientTypeOK, InboxTypeOK,
       bitFields, chunkVars, parserVars, wsgiVars, clientVars, inbox
  <2>4. CASE ev_io_on_write
    BY <2>2, <2>4, ChunkType, FileHeadType, FileBodyType
       DEF ev_io_on_write, WriteReleased
  <2>5. CASE ClientMoves
    BY <2>5, ClientMovesType
  <2>6. CASE UNCHANGED vars
    BY <2>6 DEF vars, TypeOK, RequestTypeOK, WsgiTypeOK, ClientTypeOK,
       InboxTypeOK, bitFields, chunkVars, bodyVars, parserVars, wsgiVars,
       clientVars, inbox
  <2> QED BY <2>1, <2>2, <2>3, <2>4, <2>5, <2>6
          DEF Next, ev_io_on_read, ReadCrashes, Gone
<1> QED BY <1>1, <1>2, PTL DEF Spec

-----------------------------------------------------------------------------
(* The buffer that is written. *)

(* Conclude goes on writing only with the chunk that it is given.          *)
LEMMA ConcludeSends ==
  ASSUME NEW ws, NEW st, NEW chunk, NEW p, NEW it,
         Conclude(ws, st, chunk, p, it),
         iterable = "file" \/ chunk.part \notin {"none", "freed"} \/ ws # "not_yet_done"
  PROVE  SendsLiveBuffer'
BY DEF Conclude, start_reading, close_connection, SendsLiveBuffer, HasChunk

(* The texts of bjoern are objects that are never released.                *)
LEMMA TextLives ==
  ASSUME NEW p
  PROVE  \A part \in {"error", "continue", "end"} :
           TextAt(part, p).part \notin {"none", "freed"}
BY DEF TextAt, Text

(* What is left to send after the end of the iteration is such a text.     *)
LEMMA TerminateSends ==
  ASSUME NEW st, NEW chunk, NEW p, Terminate(st, chunk, p)
  PROVE  SendsLiveBuffer'
<1>1. TextAt("end", p).part \notin {"none", "freed"}
  BY TextLives
<1> QED BY <1>1, ConcludeSends DEF Terminate

(* do_send_chunk's assertion (server.c:473) holds in every reachable       *)
(* state, and the buffer it is about has not been released.                *)
THEOREM ChunkIsLive == Spec => []SendsLiveBuffer
<1>1. Init => SendsLiveBuffer
  BY DEF Init, SendsLiveBuffer
<1>2. SendsLiveBuffer /\ [Next]_vars => SendsLiveBuffer'
  <2> SUFFICES ASSUME SendsLiveBuffer, [Next]_vars PROVE SendsLiveBuffer'
    OBVIOUS
  <2>1. ASSUME NEW to, ReadData(to) PROVE SendsLiveBuffer'
    <3>1. CASE ParseError(to) \/ PauseRead(to)
      BY <3>1, TextLives DEF ParseError, PauseRead, SendsLiveBuffer, HasChunk
    <3>2. CASE WaitForMore(to)
      BY <2>1, <3>2 DEF ReadData, WaitForMore, SendsLiveBuffer
    <3>3. CASE CallApplication(to)
      <4>1. PICK a \in Apps, m \in Messages :
              wsgi_call_application(a, Request_parse(to), m)
        BY <3>3 DEF CallApplication
      <4>2. CASE Responds(a, Request_parse(to), reqs[m])
        BY <4>2 DEF Responds, wsgi_getheaders, SendsLiveBuffer, HasChunk
      <4>3. CASE Refuses(a, Request_parse(to))
        BY <4>3, TextLives DEF Refuses, SendsLiveBuffer, HasChunk
      <4> QED BY <4>1, <4>2, <4>3 DEF wsgi_call_application
    <3> QED BY <2>1, <3>1, <3>2, <3>3 DEF ReadData
  <2>2. CASE ReadAborts \/ \E to \in 1..4 * MaxRequests : ReadCrashes(to)
    BY <2>2 DEF ReadAborts, close_connection, ReadCrashes, SendsLiveBuffer
  <2>3. CASE on_write_chunk
    <3>1. CASE SendSome \/ TryAgain
      BY <2>3, <3>1, ConcludeSends
         DEF on_write_chunk, SendSome, TryAgain, HasChunk
    <3>2. CASE FlushChunk
      <4>1. Piece(state).part = "body"
        BY DEF Piece
      <4> QED BY <3>2, <4>1, ConcludeSends, TerminateSends
              DEF FlushChunk, NextChunk
    <3>3. CASE FailChunk
      BY <3>3, TerminateSends DEF FailChunk
    <3> QED BY <2>3, <3>1, <3>2, <3>3 DEF on_write_chunk
  <2>4. CASE on_write_sendfile_head
    BY <2>4, ConcludeSends DEF on_write_sendfile_head, SendSome, TryAgain,
       FlushHead, FailHead, SeekFile
  <2>5. CASE on_write_sendfile_body
    BY <2>5, ConcludeSends DEF on_write_sendfile_body, TryAgain, SendFile,
       EndOfFile, FailFile
  <2>6. CASE WriteReleased
    BY <2>6 DEF WriteReleased, SendsLiveBuffer, HasChunk, chunkVars, bodyVars
  <2>7. CASE ClientMoves \/ Gone \/ UNCHANGED vars
    BY <2>7 DEF ClientMoves, Gone, vars, SendsLiveBuffer, HasChunk, chunkVars,
       bodyVars
  <2> QED BY <2>1, <2>2, <2>3, <2>4, <2>5, <2>6, <2>7
          DEF Next, ev_io_on_read, ev_io_on_write
<1> QED BY <1>1, <1>2, PTL DEF Spec

(* handle_nonzero_errno is final: once a write has met the reset, nothing  *)
(* in ev_io_on_write starts reading from the connection again.             *)
THEOREM HangsUp == Spec => HangsUpAfterFailure
<1>1. [Next]_vars =>
        [ev_watcher = "write" /\ sock = "reset" /\ "expect_continue" \notin state
           => ev_watcher' # "read"]_vars
  <2> SUFFICES ASSUME Next, ev_watcher = "write", sock = "reset",
                      "expect_continue" \notin state
               PROVE  ev_watcher' # "read"
    BY Zenon
  <2>1. ASSUME NEW ws, NEW st \in SUBSET state, NEW chunk, NEW p, NEW it,
               Conclude(ws, st, chunk, p, it),
               ws = "done" => "keep_alive" \notin st
        PROVE  ev_watcher' # "read"
    BY <2>1 DEF Conclude, close_connection
  <2> DEFINE quiet == state \ {"keep_alive"}
  <2>2. quiet \in SUBSET state /\ quiet \ {"chunked_response"} \in SUBSET state
    OBVIOUS
  <2>3. CASE TryAgain
    BY <2>1, <2>3 DEF TryAgain
  <2>4. CASE FailChunk
    BY <2>1, <2>2, <2>4 DEF FailChunk, Terminate
  <2>5. CASE FailHead \/ FailFile
    BY <2>1, <2>2, <2>5 DEF FailHead, FailFile, SeekFile
  <2>6. CASE WriteReleased \/ ClientMoves \/ Gone
    BY <2>6 DEF WriteReleased, ClientMoves, Gone, Serving
  <2> QED BY <2>3, <2>4, <2>5, <2>6 DEF Next, ev_io_on_read, ReadData,
          ReadCrashes, ReadAborts, ev_io_on_write, on_write_chunk,
          on_write_sendfile_head, on_write_sendfile_body, SendSome, Partial,
          FlushChunk, FlushHead, SendFile, EndOfFile
<1> QED BY <1>1, PTL DEF Spec, HangsUpAfterFailure

-----------------------------------------------------------------------------
(***************************************************************************)
(* That exchanges do not get into each other's way, for clients that send  *)
(* an Expect header only with a body (the hypothesis ExpectHasBody,        *)
(* without which these theorems are false).                                *)
(***************************************************************************)

(* Reading. *)

(* The client's messages are requests that it may send.                    *)
Sent == reqs \in [Messages -> Requests]

(* What Exchange says when bjoern reads up to `to': nothing that is over   *)
(* is read again, and only the next message is there.                      *)
LEMMA ReadsNext ==
  ASSUME TypeOK, Exchange, NEW to \in 1..4 * MaxRequests, ReadData(to)
  PROVE  /\ replies \in Nat /\ served \in Nat /\ parsed \in Nat
         /\ replies = served
         /\ 4 * replies <= parsed /\ parsed < to /\ to <= 4 * replies + 4
<1>1. replies \in Nat /\ served \in Nat /\ parsed \in Nat /\ sent \in Nat
  BY DEF TypeOK, RequestTypeOK, WsgiTypeOK, ClientTypeOK, InboxTypeOK
<1>2. /\ replies <= served /\ 4 * served <= parsed
      /\ sent <= 4 * replies + 4
  BY DEF Exchange
<1>3. parsed < to /\ to <= sent
  BY DEF ReadData
<1> QED BY <1>1, <1>2, <1>3

(* A message of which a part is passed is the one after the last reply.    *)
LEMMA PassesNext ==
  ASSUME RequestsAssumption, NEW m \in Messages, NEW s \in 1..4,
         NEW to \in Nat, NEW r \in Nat, parsed \in Nat,
         4 * r <= parsed, to <= 4 * r + 4, Passes(m, s, to)
  PROVE  m = r + 1
BY DEF Passes, At, Messages

(* An expectation is taken back by the body that completes its message.    *)
LEMMA NeverBoth ==
  ASSUME RequestsAssumption, ExpectHasBody, Sent, TypeOK, Exchange,
         NEW to \in 1..4 * MaxRequests, ReadData(to),
         "parse_finished" \in Request_parse(to)
  PROVE  "expect_continue" \notin Request_parse(to)
<1> SUFFICES ASSUME "expect_continue" \in Request_parse(to) PROVE FALSE
  OBVIOUS
<1> to \in Nat
  OBVIOUS
<1>1. "parse_finished" \notin state /\ "expect_continue" \notin state
  BY DEF ReadData, Exchange
<1>2. PICK m \in Messages : on_message_complete(m, to)
  BY <1>1 DEF Request_parse
<1>3. PICK n \in Messages : /\ on_header_value(n, "continue", to)
                            /\ \A b \in Messages : on_body(b, to) => b < n
  BY <1>1 DEF Request_parse, ExpectContinue
<1>4. m = replies + 1
  BY <1>2, ReadsNext, PassesNext DEF on_message_complete, Runs
<1>5. n = replies + 1
  BY <1>3, ReadsNext, PassesNext DEF on_header_value, Runs
<1>6. reqs[n].body
  BY <1>3 DEF on_header_value, ExpectHasBody, Sent
<1>7. Passes(n, 3, to) /\ ~dead
  BY <1>2, <1>3, <1>4, <1>5, ReadsNext
     DEF on_message_complete, on_header_value, Runs, Passes, At, Messages
<1>8. ASSUME NEW b \in Malformed(to)
      PROVE  At(n, 3) < At(b, reqs[b].bad)
  <2>1. b \in Messages /\ reqs[b].bad \in Int
    BY RequestsAssumption DEF Malformed, Sent, RequestKinds
  <2>2. At(n, 4) < At(b, reqs[b].bad)
    BY <1>2, <1>4, <1>5 DEF on_message_complete, Runs
  <2> QED BY <2>1, <2>2 DEF At, Messages
<1>9. on_body(n, to)
  BY <1>6, <1>7, <1>8 DEF on_body, Runs
<1> QED BY <1>3, <1>9 DEF Messages

(* The application is called for the message after the last reply, when    *)
(* all of it has been read.                                                *)
LEMMA CallsNext ==
  ASSUME RequestsAssumption, TypeOK, Exchange,
         NEW to \in 1..4 * MaxRequests, ReadData(to),
         "parse_finished" \in Request_parse(to),
         NEW m \in Messages, At(m, 1) <= to, to <= At(m, 4)
  PROVE  m = replies + 1 /\ to = 4 * m
<1>1. "parse_finished" \notin state
  BY DEF ReadData, Exchange
<1>2. PICK n \in Messages : on_message_complete(n, to)
  BY <1>1 DEF Request_parse
<1>3. n = replies + 1
  BY <1>2, ReadsNext, PassesNext DEF on_message_complete, Runs
<1>4. At(n, 4) <= to
  BY <1>2 DEF on_message_complete, Runs, Passes
<1> QED BY <1>3, <1>4, ReadsNext DEF At, Messages

-----------------------------------------------------------------------------
(* Writing. *)

(* Of the replies that are due, at most one arrives with a buffer, and an  *)
(* answer to an expectation is none.                                       *)
LEMMA DeliverReplies ==
  ASSUME TypeOK, Exchange, NEW b \in Buffers, NEW total \in Nat,
         Deliver(b, total), b.part = "head" => replies < served
  PROVE  /\ replies' \in Nat
         /\ replies <= replies' /\ replies' <= served
         /\ view' \in {"length", "chunked"} => replies' < served
         /\ b.part \in {"continue", "error", "torn"} => replies' = replies
<1>1. replies \in Nat /\ served \in Nat /\ replies <= served
  BY DEF TypeOK, WsgiTypeOK, ClientTypeOK, InboxTypeOK, Exchange
<1>2. view \in {"length", "chunked"} => replies < served
  BY DEF Exchange
<1>3. CASE UNCHANGED <<view, replies>>
  BY <1>1, <1>2, <1>3
<1>4. CASE Receive(b, total)
  <2>1. CASE view' = "garbled" /\ UNCHANGED <<left, replies, interim>>
    BY <1>1, <2>1
  <2> SUFFICES ASSUME Legal(b, total)
               PROVE  /\ replies' \in Nat
                      /\ replies <= replies' /\ replies' <= served
                      /\ view' \in {"length", "chunked"} => replies' < served
                      /\ b.part \in {"continue", "error", "torn"} =>
                           replies' = replies
    BY <1>4, <2>1 DEF Receive
  <2>2. ASSUME NEW f, NEW rest, GoesOn(f, rest),
               f \in {"length", "chunked"} => replies < served
        PROVE  /\ replies' \in Nat
               /\ replies <= replies' /\ replies' <= served
               /\ view' \in {"length", "chunked"} => replies' < served
    <3>1. CASE f = "length" /\ rest = 0
      BY <1>1, <2>2, <3>1 DEF GoesOn
    <3>2. CASE ~(f = "length" /\ rest = 0)
      BY <1>1, <2>2, <3>2 DEF GoesOn
    <3> QED BY <3>1, <3>2
  <2>3. CASE b.part = "continue"
    BY <1>3, <1>4, <2>3 DEF Receive
  <2>4. CASE b.part = "error"
    BY <1>1, <1>4, <2>4 DEF Receive, GoesOn
  <2>5. CASE b.part = "head"
    BY <1>4, <2>2, <2>5 DEF Receive
  <2>6. CASE b.part = "body"
    BY <1>2, <1>4, <2>2, <2>6 DEF Receive
  <2>7. CASE b.part = "end"
    BY <1>2, <1>4, <2>2, <2>7 DEF Receive, Legal
  <2> QED BY <1>4, <2>3, <2>4, <2>5, <2>6, <2>7 DEF Receive
<1> QED BY <1>3, <1>4 DEF Deliver, inbox

(* A bound on what is sent that grows with the replies.                    *)
LEMMA BoundGrows ==
  ASSUME NEW s \in Nat, NEW r \in Nat, NEW t \in Nat, s <= 4 * r + 4, r <= t
  PROVE  s <= 4 * t + 4
OBVIOUS

(* ev_io_on_write ends with the accounts of Exchange in order.             *)
LEMMA ConcludeExchange ==
  ASSUME TypeOK, Exchange, ev_watcher = "write",
         NEW ws, NEW st \in SUBSET state, NEW chunk, NEW p, NEW it,
         Conclude(ws, st, chunk, p, it),
         "expect_continue" \in state => "expect_continue" \in st,
         served' = served, sent' = sent,
         replies' \in Nat, replies <= replies', replies' <= served,
         chunk.part = "head" \/ view' \in {"length", "chunked"} =>
           replies' < served,
         "expect_continue" \in state => replies' = replies
  PROVE  Exchange'
<1>1. /\ replies \in Nat /\ served \in Nat /\ parsed \in Nat /\ sent \in Nat
      /\ unclosed \in Int
  BY DEF TypeOK, RequestTypeOK, WsgiTypeOK, ClientTypeOK, InboxTypeOK
<1>2. parsed' = parsed
  BY DEF Conclude, parserVars, close_connection
<1>3. /\ 4 * served' <= parsed'
      /\ replies' <= served'
      /\ sent' <= 4 * replies' + 4
  <2>1. 4 * served <= parsed /\ sent <= 4 * replies + 4
    BY DEF Exchange
  <2>2. sent <= 4 * replies' + 4
    BY <1>1, <2>1, BoundGrows, Zenon
  <2> QED BY <1>2, <2>1, <2>2, Zenon
<1>4. CASE /\ "expect_continue" \in st
           /\ state' = st \ {"expect_continue"}
           /\ start_reading
           /\ current_chunk' = chunk
           /\ UNCHANGED <<error_code, headers, parserVars, iterable, unclosed>>
  BY <1>3, <1>4 DEF Exchange, IterableAccounting, start_reading, parserVars
<1>5. CASE /\ "expect_continue" \notin st
           /\ state' = st
           /\ current_chunk' = chunk
           /\ UNCHANGED <<ev_watcher, error_code, headers, parserVars,
                          iterable, unclosed>>
  BY <1>3, <1>5 DEF Exchange, IterableAccounting
<1>6. CASE /\ Request_clean /\ Request_reset
           /\ start_reading
           /\ UNCHANGED <<reqs, parsed, dead>>
  <2>1. iterable' = "none" /\ IterableAccounting'
    BY <1>1, <1>6 DEF Exchange, IterableAccounting, Request_clean, Request_reset
  <2>2. /\ state' = {"response_length_unknown"}
        /\ current_chunk' = Text("none")
        /\ ev_watcher' = "read"
    BY <1>6 DEF Request_reset, start_reading
  <2>3. ~field'
    BY <1>6 DEF Request_reset
  <2> QED BY <1>3, <2>1, <2>2, <2>3 DEF Exchange, Text
<1>7. CASE /\ "expect_continue" \notin st
           /\ close_connection
           /\ state' = st
           /\ current_chunk' = chunk
           /\ UNCHANGED <<error_code, headers, parserVars>>
  <2>1. iterable' = "none" /\ IterableAccounting'
    BY <1>1, <1>7 DEF Exchange, IterableAccounting, close_connection,
       Request_free, Request_clean
  <2>2. ev_watcher' = "closed"
    BY <1>7 DEF close_connection
  <2> QED BY <1>3, <1>7, <2>1, <2>2 DEF Exchange
<1> QED BY <1>4, <1>5, <1>6, <1>7 DEF Conclude

(* The two ways in which a routine of ev_io_on_write leaves the client:    *)
(* it has nothing new, or it has received current_chunk.                   *)
LEMMA QuietExchange ==
  ASSUME TypeOK, Exchange, ev_watcher = "write",
         NEW ws, NEW st \in SUBSET state, NEW chunk, NEW p, NEW it,
         Conclude(ws, st, chunk, p, it),
         "expect_continue" \in state => "expect_continue" \in st,
         served' = served, sent' = sent, UNCHANGED inbox,
         chunk.part = "head" => current_chunk.part = "head"
  PROVE  Exchange'
<1>1. replies' = replies /\ view' = view
  BY DEF inbox
<1>2. replies \in Nat /\ replies <= served
  BY DEF TypeOK, ClientTypeOK, InboxTypeOK, Exchange
<1>3. chunk.part = "head" \/ view \in {"length", "chunked"} => replies < served
  BY DEF Exchange
<1>4. replies' \in Nat /\ replies <= replies' /\ replies' <= served
  BY <1>1, <1>2
<1>5. chunk.part = "head" \/ view' \in {"length", "chunked"} =>
        replies' < served
  BY <1>1, <1>3
<1> QED BY <1>1, <1>4, <1>5, ConcludeExchange

(* A step of ev_io_on_write that hands current_chunk to the client.        *)
LEMMA DeliverExchange ==
  ASSUME TypeOK, Exchange, ev_watcher = "write",
         NEW ws, NEW st \in SUBSET state, NEW chunk, NEW p, NEW it,
         Conclude(ws, st, chunk, p, it),
         "expect_continue" \in state => "expect_continue" \in st,
         served' = served, sent' = sent,
         Deliver(current_chunk, Promised),
         chunk.part # "head"
  PROVE  Exchange'
<1>1. current_chunk \in Buffers /\ Promised \in Nat
  BY ConnectionAssumption, Fields, SendType
<1>2. current_chunk.part = "head" => replies < served
  BY DEF Exchange
<1>3. /\ replies' \in Nat
      /\ replies <= replies' /\ replies' <= served
      /\ view' \in {"length", "chunked"} => replies' < served
      /\ current_chunk.part \in {"continue", "error", "torn"} =>
           replies' = replies
  BY <1>1, <1>2, DeliverReplies
<1>4. "expect_continue" \in state => replies' = replies
  BY <1>3 DEF Exchange
<1> QED BY <1>3, <1>4, ConcludeExchange

(* The texts and pieces that follow a buffer are no response headers.      *)
LEMMA NoHead ==
  ASSUME NEW p, NEW st
  PROVE  /\ \A part \in Parts \ {"head"} :
              Text(part).part # "head" /\ TextAt(part, p).part # "head"
         /\ Piece(st).part # "head"
         /\ Released.part # "head"
BY DEF Text, TextAt, Piece, Released, Parts

(* on_write_chunk preserves Exchange.                                      *)
LEMMA ChunkExchange ==
  ASSUME TypeOK, Exchange, on_write_chunk
  PROVE  Exchange'
<1> DEFINE quiet == state \ {"keep_alive"}
<1>1. ev_watcher = "write" /\ served' = served /\ sent' = sent
  BY DEF on_write_chunk
<1>2. /\ quiet \in SUBSET state /\ state \in SUBSET state
      /\ quiet \ {"chunked_response"} \in SUBSET state
      /\ state \ {"chunked_response"} \in SUBSET state
  OBVIOUS
<1>3. "none" \in Parts \ {"head"} /\ "end" \in Parts \ {"head"}
  BY DEF Parts
<1>4. CASE SendSome \/ TryAgain
  BY <1>1, <1>2, <1>4, QuietExchange DEF SendSome, TryAgain
<1>5. CASE FlushChunk
  <2>1. Deliver(current_chunk, Promised)
    BY <1>5 DEF FlushChunk
  <2>2. CASE Conclude("not_yet_done", state, Piece(state), 0, "live")
    BY <1>1, <1>2, <2>1, <2>2, NoHead, DeliverExchange
  <2>3. CASE Conclude("aborted", state, Text("none"), 0, "live")
    BY <1>1, <1>2, <1>3, <2>1, <2>3, NoHead, DeliverExchange
  <2>4. CASE Terminate(state, Text("none"), 0)
    BY <1>1, <1>2, <1>3, <2>1, <2>4, NoHead, DeliverExchange DEF Terminate
  <2> QED BY <1>5, <2>2, <2>3, <2>4 DEF FlushChunk, NextChunk
<1>6. CASE FailChunk
  <2>1. Terminate(quiet, Released, current_chunk_p) /\ UNCHANGED inbox
    BY <1>6 DEF FailChunk
  <2>2. CASE Conclude("not_yet_done", quiet \ {"chunked_response"},
                      TextAt("end", current_chunk_p), current_chunk_p, "none")
    BY <1>1, <1>2, <1>3, <2>1, <2>2, NoHead, QuietExchange
  <2>3. CASE Conclude("done", quiet, Released, current_chunk_p, "none")
    BY <1>1, <1>2, <2>1, <2>3, NoHead, QuietExchange
  <2> QED BY <2>1, <2>2, <2>3 DEF Terminate
<1> QED BY <1>4, <1>5, <1>6 DEF on_write_chunk

(* on_write_sendfile preserves Exchange.                                   *)
LEMMA FileExchange ==
  ASSUME TypeOK, Exchange, on_write_sendfile_head \/ on_write_sendfile_body
  PROVE  Exchange'
<1> DEFINE quiet == state \ {"keep_alive"}
<1>1. ev_watcher = "write" /\ served' = served /\ sent' = sent
  BY DEF on_write_sendfile_head, on_write_sendfile_body
<1>2. quiet \in SUBSET state /\ state \in SUBSET state
  OBVIOUS
<1>3. "none" \in Parts \ {"head"}
  BY DEF Parts
<1>4. iterable = "file"
  BY DEF on_write_sendfile_head, on_write_sendfile_body
<1>5. CASE SendSome \/ TryAgain \/ EndOfFile \/ FailFile
  BY <1>1, <1>2, <1>5, QuietExchange
     DEF SendSome, TryAgain, EndOfFile, FailFile
<1>6. CASE FlushHead
  BY <1>1, <1>2, <1>3, <1>6, NoHead, DeliverExchange DEF FlushHead, SeekFile
<1>7. CASE FailHead
  BY <1>1, <1>2, <1>7, NoHead, QuietExchange DEF FailHead, SeekFile
<1>8. CASE SendFile /\ current_chunk.part = "none"
  <2>1. PICK k \in 1..more :
          /\ Deliver(FilePieces(k), Promised)
          /\ Conclude("not_yet_done", state, current_chunk,
                      current_chunk_p + k, iterator)
    BY <1>8 DEF SendFile
  <2>2. FilePieces(k) \in Buffers /\ Promised \in Nat
    BY ConnectionAssumption, SendType DEF FilePieces, Buffers, Parts, Framings
  <2>3. FilePieces(k).part # "head"
    BY DEF FilePieces
  <2>4. /\ replies' \in Nat
        /\ replies <= replies' /\ replies' <= served
        /\ view' \in {"length", "chunked"} => replies' < served
    BY <2>1, <2>2, <2>3, DeliverReplies
  <2>5. "expect_continue" \notin state
    BY <1>4 DEF Exchange
  <2> QED BY <1>1, <1>2, <1>8, <2>1, <2>4, <2>5, ConcludeExchange
<1> QED BY <1>5, <1>6, <1>7, <1>8
        DEF on_write_sendfile_head, on_write_sendfile_body

(* The call of the application takes what it returned into the accounts    *)
(* and leaves no expectation behind.                                       *)
LEMMA CallAccounts ==
  ASSUME unclosed = 0, iterable = "none", NEW a \in AppKinds, NEW st, NEW m,
         "expect_continue" \notin st,
         wsgi_call_application(a, st, m)
  PROVE  IterableAccounting' /\ "expect_continue" \notin state'
<1>1. Take(a, st) /\ a.ret # "raise" => IterableAccounting'
  BY DEF Take, IterableAccounting, AppKinds
<1>2. /\ "expect_continue" \notin start_response(a, st)
      /\ "expect_continue" \notin Committed(a, st, reqs[m])
  BY DEF start_response, Committed
<1>3. CASE Responds(a, st, reqs[m])
  BY <1>1, <1>2, <1>3 DEF Responds, Raises
<1>4. CASE Refuses(a, st)
  <2>1. CASE Raises(a)
    BY <1>2, <1>4, <2>1 DEF Refuses, IterableAccounting
  <2>2. CASE ~Raises(a)
    BY <1>1, <1>2, <1>4, <2>2 DEF Refuses, Raises
  <2> QED BY <2>1, <2>2
<1> QED BY <1>3, <1>4 DEF wsgi_call_application

(* ev_io_on_read preserves Exchange.                                       *)
LEMMA ReadExchange ==
  ASSUME RequestsAssumption, AppsAssumption, ExpectHasBody, Sent, TypeOK,
         Exchange, NEW to \in 1..4 * MaxRequests, ReadData(to)
  PROVE  Exchange'
<1>1. /\ ev_watcher = "read" /\ iterable = "none" /\ unclosed = 0
      /\ "parse_finished" \notin state /\ "expect_continue" \notin state
  BY DEF ReadData, Exchange, IterableAccounting
<1>2. /\ parsed' = to
      /\ sent' = sent /\ replies' = replies /\ view' = view
  BY DEF ReadData, Parse, clientVars, inbox
<1>3. view \notin {"length", "chunked"} /\ current_chunk.part # "head"
  <2>1. ~(replies < served)
    BY ReadsNext
  <2> QED BY <2>1 DEF Exchange
<1>4. parsed' > 4 * replies' /\ sent' <= 4 * replies' + 4
  <2>1. to > 4 * replies
    BY ReadsNext
  <2>2. sent <= 4 * replies + 4
    BY DEF Exchange
  <2> QED BY <1>2, <2>1, <2>2
<1>5. CASE CallApplication(to)
  <2>1. PICK a \in Apps, m \in Messages :
          /\ At(m, 1) <= to /\ to <= At(m, 4)
          /\ wsgi_call_application(a, Request_parse(to), m)
    BY <1>5 DEF CallApplication
  <2>2. "parse_finished" \in Request_parse(to)
    BY <1>5 DEF CallApplication
  <2>3. IterableAccounting' /\ "expect_continue" \notin state'
    BY <1>1, <2>1, <2>2, AppsAssumption, NeverBoth, CallAccounts
       DEF AppsAssumption
  <2>4. served' = m /\ m = replies + 1 /\ to = 4 * m
    BY <2>1, <2>2, CallsNext DEF wsgi_call_application
  <2>5. replies < m /\ replies <= m /\ 4 * m <= to
    BY <2>4, ReadsNext DEF Messages
  <2>6. replies' < served' /\ replies' <= served' /\ 4 * served' <= parsed'
    BY <1>2, <2>4, <2>5
  <2>7. ev_watcher' = "write"
    BY <1>5 DEF CallApplication, start_writing
  <2> QED BY <1>4, <2>3, <2>6, <2>7 DEF Exchange
<1>6. CASE ParseError(to) \/ PauseRead(to) \/ WaitForMore(to)
  <2>1. /\ iterable' = iterable /\ unclosed' = unclosed /\ served' = served
        /\ state' = Request_parse(to)
        /\ current_chunk' \in {current_chunk, TextAt("error", current_chunk_p),
                               TextAt("continue", current_chunk_p)}
    BY <1>6 DEF ParseError, PauseRead, WaitForMore, bodyVars, wsgiVars,
       chunkVars
  <2>2. replies' <= served' /\ 4 * served' <= parsed'
    BY <1>2, <2>1, ReadsNext
  <2>3. CASE ParseError(to) \/ PauseRead(to)
    <3>1. /\ ev_watcher' = "write"
          /\ current_chunk'.part \in {"continue", "error", "torn"}
      BY <2>3 DEF ParseError, PauseRead, start_writing, TextAt, Text
    <3>2. "expect_continue" \in state' => "parse_finished" \notin state'
      BY <2>1, NeverBoth
    <3>3. view' \notin {"length", "chunked"} /\ current_chunk'.part # "head"
      BY <1>2, <1>3, <3>1
    <3>4. iterable' = "none" /\ IterableAccounting'
      BY <1>1, <2>1 DEF IterableAccounting
    <3> QED BY <1>4, <2>2, <3>1, <3>2, <3>3, <3>4 DEF Exchange
  <2>4. CASE WaitForMore(to)
    <3>1. /\ current_chunk' = current_chunk
          /\ "parse_finished" \notin state' /\ "expect_continue" \notin state'
      BY <2>4 DEF WaitForMore, chunkVars
    <3>2. view' \notin {"length", "chunked"} /\ current_chunk'.part # "head"
      BY <1>2, <1>3, <3>1
    <3>3. iterable' = "none" /\ IterableAccounting'
      BY <1>1, <2>1 DEF IterableAccounting
    <3> QED BY <1>4, <2>2, <3>1, <3>2, <3>3 DEF Exchange
  <2> QED BY <1>6, <2>3, <2>4
<1> QED BY <1>5, <1>6 DEF ReadData

-----------------------------------------------------------------------------
(* The theorems. *)

(* Exchange holds of every reachable state.                                *)
THEOREM ExchangeCorrect == ASSUME ExpectHasBody PROVE Spec => []Exchange
<1> USE RequestsAssumption, AppsAssumption, ConnectionAssumption
<1>1. Init => Sent /\ Exchange
  <2> SUFFICES ASSUME Init PROVE Sent /\ Exchange
    OBVIOUS
  <2>1. Sent
    BY DEF Init, ClientInit, Sent
  <2>2. /\ state = {"response_length_unknown"} /\ ~field
        /\ current_chunk = Text("none") /\ iterable = "none" /\ unclosed = 0
        /\ parsed = 0 /\ served = 0 /\ sent = 0 /\ replies = 0
        /\ view = "wait"
    BY DEF Init, Request_new, ClientInit
  <2>3. replies <= served /\ 4 * served <= parsed /\ sent <= 4 * replies + 4
    BY <2>2
  <2>4. IterableAccounting
    BY <2>2 DEF IterableAccounting
  <2> QED BY <2>1, <2>2, <2>3, <2>4 DEF Exchange, Text
<1>2. TypeOK /\ TypeOK' /\ Sent /\ Exchange /\ [Next]_vars => Sent' /\ Exchange'
  <2> SUFFICES ASSUME TypeOK, TypeOK', Sent, Exchange, [Next]_vars
               PROVE  Sent' /\ Exchange'
    OBVIOUS
  <2>1. Sent'
    <3>1. reqs' = reqs
      BY DEF Next, ev_io_on_read, ReadData, Parse, ReadCrashes, ReadAborts,
         ev_io_on_write, on_write_chunk, on_write_sendfile_head,
         on_write_sendfile_body, SendSome, TryAgain, FlushChunk, FailChunk,
         NextChunk, Terminate, FlushHead, FailHead, SeekFile, SendFile,
         EndOfFile, FailFile, Conclude, WriteReleased, ClientMoves,
         ClientSend, ClientClose, ClientReset, Gone, vars, parserVars
    <3> QED BY <3>1 DEF Sent, Messages
  <2>2. CASE \E to \in 1..4 * MaxRequests : ReadData(to)
    BY <2>1, <2>2, ReadExchange
  <2>3. CASE \/ \E to \in 1..4 * MaxRequests : ReadCrashes(to)
             \/ WriteReleased
    <3>1. /\ UNCHANGED <<bitFields, chunkVars, bodyVars, parserVars, headers,
                         wsgiVars, clientVars>>
          /\ ev_watcher' \in {"write", "crashed"}
      BY <2>3 DEF ReadCrashes, WriteReleased
    <3>2. "expect_continue" \notin state
      BY <2>3 DEF ReadCrashes, WriteReleased, HasChunk, Exchange
    <3> QED BY <2>1, <3>1, <3>2 DEF Exchange, IterableAccounting, bitFields,
            chunkVars, bodyVars, parserVars, wsgiVars, clientVars, inbox
  <2>4. CASE ReadAborts
    <3>1. iterable' = "none" /\ IterableAccounting'
      BY <2>4 DEF ReadAborts, close_connection, Request_free, Request_clean,
         Exchange, IterableAccounting
    <3>2. /\ ev_watcher' = "closed" /\ "expect_continue" \notin state
          /\ UNCHANGED <<bitFields, chunkVars, parserVars, wsgiVars, clientVars>>
      BY <2>4 DEF ReadAborts, close_connection, Exchange
    <3> QED BY <2>1, <3>1, <3>2 DEF Exchange, bitFields, chunkVars, parserVars,
            wsgiVars, clientVars, inbox
  <2>5. CASE on_write_chunk
    BY <2>1, <2>5, ChunkExchange
  <2>6. CASE on_write_sendfile_head \/ on_write_sendfile_body
    BY <2>1, <2>6, FileExchange
  <2>7. CASE ClientMoves
    <3>1. /\ UNCHANGED <<ev_watcher, bitFields, chunkVars, bodyVars, parsed,
                         dead, field, wsgiVars, inbox>>
          /\ sent' = sent \/ sent' <= 4 * replies + 4
      <4>1. CASE \E to \in 1..4 * MaxRequests : ClientSend(to)
        <5>1. PICK to \in 1..4 * MaxRequests, m \in Messages :
                m = replies + 1 /\ to <= At(m, 4) /\ sent' = to
          BY <4>1 DEF ClientSend
        <5>2. to <= 4 * replies + 4
          BY <5>1 DEF At, TypeOK, ClientTypeOK, InboxTypeOK
        <5> QED BY <2>7, <4>1, <5>1, <5>2 DEF ClientMoves, ClientSend
      <4>2. CASE ClientClose \/ ClientReset
        BY <2>7, <4>2 DEF ClientMoves, ClientClose, ClientReset
      <4> QED BY <2>7, <4>1, <4>2 DEF ClientMoves
    <3>2. sent' <= 4 * replies' + 4
      BY <3>1 DEF Exchange, inbox
    <3> QED BY <2>1, <3>1, <3>2 DEF Exchange, IterableAccounting, bitFields,
            chunkVars, bodyVars, wsgiVars, inbox
  <2>8. CASE UNCHANGED vars
    BY <2>1, <2>8 DEF Exchange, IterableAccounting, vars, bitFields, chunkVars,
       bodyVars, parserVars, wsgiVars, clientVars, inbox
  <2> QED BY <2>2, <2>3, <2>4, <2>5, <2>6, <2>7, <2>8
          DEF Next, ev_io_on_read, ev_io_on_write, Gone
<1> QED BY <1>1, <1>2, TypeCorrect, PTL DEF Spec

(* No iterable is leaked and none is closed twice.                         *)
THEOREM IterablesAccounted ==
  ASSUME ExpectHasBody PROVE Spec => []IterableAccounting
<1>1. Exchange => IterableAccounting
  BY DEF Exchange
<1> QED BY <1>1, ExchangeCorrect, PTL

(* on_message_begin's assertion (request.c:113) holds whenever http_parser *)
(* makes that callback.                                                    *)
THEOREM MessagesBeginClean == ASSUME ExpectHasBody PROVE Spec => MessageBeginsClean
<1>1. TypeOK /\ Exchange /\ [Next]_vars =>
        [\A m \in Messages : Runs(m, 1, parsed') => ~field]_vars
  <2> SUFFICES ASSUME TypeOK, Exchange, Next, NEW m \in Messages,
                      Runs(m, 1, parsed'), field
               PROVE  FALSE
    BY Zenon
  <2>1. parsed' # parsed
    BY DEF Runs, Passes, At, TypeOK, RequestTypeOK, Messages
  <2>2. PICK to \in 1..4 * MaxRequests : ReadData(to)
    BY <2>1 DEF Next, ev_io_on_read, ReadCrashes, ReadAborts,
       ev_io_on_write, on_write_chunk, on_write_sendfile_head,
       on_write_sendfile_body, SendSome, TryAgain, FlushChunk, FailChunk,
       NextChunk, Terminate, FlushHead, FailHead, SeekFile, SendFile,
       EndOfFile, FailFile, Conclude, WriteReleased, ClientMoves, Gone, vars,
       parserVars
  <2>3. parsed' = to /\ ev_watcher = "read" /\ ~dead
    BY <2>2 DEF ReadData, Parse, Runs
  <2>4. parsed > 4 * replies
    BY <2>3 DEF Exchange
  <2>5. parsed < 4 * m - 3 /\ 4 * m - 3 <= to
    BY <2>3 DEF Runs, Passes, At, Messages
  <2>6. to <= 4 * replies + 4 /\ replies \in Nat /\ parsed \in Nat
    BY <2>2, ReadsNext
  <2> QED BY <2>4, <2>5, <2>6, RequestsAssumption DEF Messages
<1> QED BY <1>1, TypeCorrect, ExchangeCorrect, PTL DEF Spec, MessageBeginsClean

(* The application is called for one whole message after the other, and    *)
(* only when the client has the reply to the last one.                     *)
THEOREM CallsInOrder == ASSUME ExpectHasBody PROVE Spec => ServedInOrder
<1>1. TypeOK /\ Exchange /\ [Next]_vars =>
        [served' # served =>
           /\ served' = served + 1
           /\ replies = served
           /\ parsed' = 4 * served']_vars
  <2> SUFFICES ASSUME TypeOK, Exchange, Next, served' # served
               PROVE  /\ served' = served + 1
                      /\ replies = served
                      /\ parsed' = 4 * served'
    BY Zenon
  <2>1. PICK to \in 1..4 * MaxRequests : ReadData(to)
    BY DEF Next, ev_io_on_read, ReadCrashes, ReadAborts, ev_io_on_write,
       on_write_chunk, on_write_sendfile_head, on_write_sendfile_body,
       WriteReleased, ClientMoves, Gone, vars, wsgiVars
  <2>2. PICK a \in Apps, m \in Messages :
          /\ "parse_finished" \in Request_parse(to)
          /\ At(m, 1) <= to /\ to <= At(m, 4)
          /\ wsgi_call_application(a, Request_parse(to), m)
    BY <2>1 DEF ReadData, ParseError, CallApplication, PauseRead, WaitForMore,
       wsgiVars
  <2>3. served' = m /\ m = replies + 1 /\ to = 4 * m
    BY <2>1, <2>2, RequestsAssumption, CallsNext DEF wsgi_call_application
  <2>4. replies = served /\ parsed' = to
    BY <2>1, ReadsNext DEF ReadData, Parse
  <2> QED BY <2>3, <2>4
<1> QED BY <1>1, TypeCorrect, ExchangeCorrect, PTL DEF Spec, ServedInOrder

=============================================================================
