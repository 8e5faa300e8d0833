------------------------------ MODULE Connection ------------------------------
(***************************************************************************)
(* One accepted connection: the handlers of bjoern/server.c that libev     *)
(* calls for it (ev_io_on_read, ev_io_on_write), the Request and the WSGI  *)
(* call, and the client.  A handler runs from start to end with the GIL    *)
(* held and on one thread, so each outcome of a handler is one action; in  *)
(* between, the client and the network move.                               *)
(*                                                                         *)
(* This is the build without assertions (WITHOUT_ASSERTS in common.h, or   *)
(* the NDEBUG that Python adds to the compiler's flags): the assertions of *)
(* the source are properties below.                                        *)
(***************************************************************************)
EXTENDS Wsgi, Client

CONSTANTS
  BufferUnits,   (* Bound: write()s that a response buffer may be split in. *)
  Spurious       (* A socket reported writable may still answer EAGAIN.     *)

ASSUME ConnectionAssumption ==
  /\ BufferUnits \in Nat \ {0}
  /\ Spurious \in BOOLEAN

vars == <<ev_watcher, bitFields, chunkVars, bodyVars, parserVars, headers,
          wsgiVars, clientVars>>

-----------------------------------------------------------------------------
(* Watchers and the end of the connection. *)

start_reading == ev_watcher' = "read"
start_writing == ev_watcher' = "write"

close_connection == ev_watcher' = "closed" /\ Request_free

(* ev_io_on_request has accepted the connection.                           *)
Init ==
  /\ Request_new
  /\ ev_watcher = "read"
  /\ app = NoApp
  /\ more = 0
  /\ served = 0
  /\ ClientInit

-----------------------------------------------------------------------------
(* ev_io_on_read. *)

ParseError(to) ==
  /\ ErrorCode(to) # NO_ERROR
  /\ state' = Request_parse(to)
  /\ headers' = Headers(to)
  /\ current_chunk' = TextAt("error", current_chunk_p)
  /\ start_writing
  /\ UNCHANGED <<current_chunk_p, bodyVars, wsgiVars>>

(* The application is called for the message that the parser is in.        *)
CallApplication(to) ==
  /\ ErrorCode(to) = NO_ERROR
  /\ "parse_finished" \in Request_parse(to)
  /\ \E a \in Apps, m \in Messages :
       /\ At(m, 1) <= to /\ to <= At(m, 4)
       /\ wsgi_call_application(a, Request_parse(to), m)
  /\ start_writing

(* Mutant: the client is not told to go on.                                *)
PauseRead_no_answer(to) ==
  /\ ErrorCode(to) = NO_ERROR
  /\ "parse_finished" \notin Request_parse(to)
  /\ "expect_continue" \in Request_parse(to)
  /\ state' = Request_parse(to)
  /\ headers' = Headers(to)
  /\ UNCHANGED <<ev_watcher, chunkVars, bodyVars, wsgiVars>>

PauseRead(to) ==
  /\ ErrorCode(to) = NO_ERROR
  /\ "parse_finished" \notin Request_parse(to)
  /\ "expect_continue" \in Request_parse(to)
  /\ state' = Request_parse(to)
  /\ headers' = Headers(to)
  /\ current_chunk' = TextAt("continue", current_chunk_p)
  /\ start_writing
  /\ UNCHANGED <<current_chunk_p, bodyVars, wsgiVars>>

WaitForMore(to) ==
  /\ ErrorCode(to) = NO_ERROR
  /\ {"parse_finished", "expect_continue"} \cap Request_parse(to) = {}
  /\ state' = Request_parse(to)
  /\ headers' = Headers(to)
  /\ UNCHANGED <<ev_watcher, chunkVars, bodyVars, wsgiVars>>

ReadData(to) ==
  /\ ev_watcher = "read" /\ sock # "reset"
  /\ parsed < to /\ to <= sent /\ Stop(to)
  /\ ~LosesHeaders(to)
  /\ ParseError(to) \/ CallApplication(to) \/ PauseRead(to) \/ WaitForMore(to)
  /\ error_code' = ErrorCode(to)
  /\ Parse(to)
  /\ UNCHANGED clientVars

(* A callback is handed a dict that is no more.                            *)
ReadCrashes(to) ==
  /\ ev_watcher = "read" /\ sock # "reset"
  /\ parsed < to /\ to <= sent /\ Stop(to)
  /\ LosesHeaders(to)
  /\ ev_watcher' = "crashed"
  /\ UNCHANGED <<bitFields, chunkVars, bodyVars, parserVars, headers,
                 wsgiVars, clientVars>>

(* read() returns 0, or an error.                                          *)
ReadAborts ==
  /\ ev_watcher = "read"
  /\ sock = "reset" \/ (sock = "closed" /\ parsed = sent)
  /\ close_connection
  /\ UNCHANGED <<bitFields, chunkVars, parserVars, headers, wsgiVars,
                 clientVars>>

-----------------------------------------------------------------------------
(* ev_io_on_write.  What the handler does last is a function of the state  *)
(* that on_write_sendfile or on_write_chunk returns, and of what they have *)
(* made of request->state (st), current_chunk, current_chunk_p, iterator.  *)

Conclude(ws, st, chunk, p, it) ==
  \/ /\ "expect_continue" \in st
     /\ state' = st \ {"expect_continue"}
     /\ start_reading
     /\ current_chunk' = chunk /\ current_chunk_p' = p
     /\ iterator' = it
     /\ UNCHANGED <<error_code, headers, parserVars, iterable, unclosed>>
  \/ /\ "expect_continue" \notin st /\ ws = "not_yet_done"
     /\ state' = st
     /\ current_chunk' = chunk /\ current_chunk_p' = p
     /\ iterator' = it
     /\ UNCHANGED <<ev_watcher, error_code, headers, parserVars, iterable,
                    unclosed>>
  \/ /\ "expect_continue" \notin st /\ ws = "done" /\ "keep_alive" \in st
     /\ Request_clean /\ Request_reset
     /\ start_reading
     /\ UNCHANGED <<reqs, parsed, dead>>
  \/ /\ "expect_continue" \notin st
     /\ ws = "aborted" \/ (ws = "done" /\ "keep_alive" \notin st)
     /\ close_connection
     /\ state' = st
     /\ current_chunk' = chunk /\ current_chunk_p' = p
     /\ UNCHANGED <<error_code, headers, parserVars>>

-----------------------------------------------------------------------------
(* do_send_chunk and do_sendfile. *)

Size(b) == IF b.part \in {"head", "body"} THEN BufferUnits ELSE 1

(* A write() that takes n units leaves some of the buffer.                 *)
Partial(n) == sock # "reset" /\ current_chunk_p + n < Size(current_chunk)

(* handle_nonzero_errno.  The length that is passed for a text of which    *)
(* less than current_chunk_p is there is negative.                         *)
Hangup == sock = "reset" \/ current_chunk.part = "torn"

(* EAGAIN.                                                                 *)
TryAgain ==
  /\ Spurious
  /\ Conclude("not_yet_done", state, current_chunk, current_chunk_p, iterator)
  /\ UNCHANGED <<more, inbox>>

SendSome ==
  /\ \E n \in 1..BufferUnits :
       /\ Partial(n)
       /\ Conclude("not_yet_done", state, current_chunk, current_chunk_p + n,
                   iterator)
  /\ UNCHANGED <<more, inbox>>

(* Pieces that the returned iterable promises, the one it fails at too.    *)
Promised == app.pieces + (IF app.ret = "iter" /\ app.fails THEN 1 ELSE 0)

(* The mask of Py_XDECREF: a pointer that is not cleared.                  *)
Released == IF current_chunk.part = "none" THEN current_chunk ELSE Text("freed")

-----------------------------------------------------------------------------
(* on_write_chunk. *)

HasChunk == current_chunk.part \notin {"none", "freed"}

(* Mutant: the terminating chunk is not sent.                              *)
Terminate_not(st, chunk, p) == Conclude("done", st, chunk, p, "none")

(* Mutant: it is only announced.                                           *)
Terminate_without_text(st, chunk, p) ==
  \/ /\ "chunked_response" \in st
     /\ Conclude("not_yet_done", st \ {"chunked_response"}, chunk, p, "none")
  \/ /\ "chunked_response" \notin st
     /\ Conclude("done", st, chunk, p, "none")

Terminate(st, chunk, p) ==
  \/ /\ "chunked_response" \in st
     /\ Conclude("not_yet_done", st \ {"chunked_response"}, TextAt("end", p),
                 p, "none")
  \/ /\ "chunked_response" \notin st
     /\ Conclude("done", st, chunk, p, "none")

Piece(st) ==
  [part |-> "body", framing |-> "none", pieces |-> 1,
   cruft |-> "chunked_response" \in st]

(* Mutant: the end of the iteration goes unnoticed.                        *)
NextChunk_endless ==
  \/ /\ iterator = "live"
     /\ more' = more - 1
     /\ Conclude("not_yet_done", state, Piece(state), 0, "live")
  \/ /\ iterator = "none"
     /\ Terminate(state, Text("none"), 0)
     /\ UNCHANGED more

(* Mutant: the iterator is not asked again.                                *)
NextChunk_first_only ==
  /\ Terminate(state, Text("none"), 0)
  /\ UNCHANGED more

(* Mutant: Py_CLEAR(current_chunk) is left to Request_clean.               *)
NextChunk_keeps_buffer ==
  \/ /\ iterator = "live" /\ more > 0
     /\ more' = more - 1
     /\ Conclude("not_yet_done", state, Piece(state), 0, "live")
  \/ /\ iterator = "none" \/ more = 0
     /\ Terminate(state, current_chunk, 0)
     /\ UNCHANGED more

(* Mutant: current_chunk_p is not set back.                                *)
NextChunk_keeps_offset ==
  \/ /\ iterator = "live" /\ more > 0
     /\ more' = more - 1
     /\ Conclude("not_yet_done", state, Piece(state), Size(current_chunk),
                 "live")
  \/ /\ iterator = "none" \/ more = 0
     /\ Terminate(state, Text("none"), Size(current_chunk))
     /\ UNCHANGED more

(* do_send_chunk has returned false because the buffer is empty.           *)
NextChunk ==
  \/ /\ iterator = "live" /\ more > 0
     /\ more' = more - 1
     /\ Conclude("not_yet_done", state, Piece(state), 0, "live")
  \/ /\ iterator = "live" /\ more = 0
     /\ app.fails
     /\ Conclude("aborted", state, Text("none"), 0, "live")
     /\ UNCHANGED more
  \/ /\ iterator = "none" \/ (more = 0 /\ ~app.fails)
     /\ Terminate(state, Text("none"), 0)
     /\ UNCHANGED more

FlushChunk ==
  /\ sock # "reset"
  /\ Deliver(current_chunk, Promised)
  /\ NextChunk

(* Mutant: every error is EAGAIN.                                          *)
FailChunk_retries ==
  /\ Hangup
  /\ Conclude("not_yet_done", state, current_chunk, current_chunk_p, iterator)
  /\ UNCHANGED <<more, inbox>>

(* Mutant: keep_alive stays set.                                           *)
FailChunk_keeps_alive ==
  /\ Hangup
  /\ Terminate(state, Released, current_chunk_p)
  /\ UNCHANGED <<more, inbox>>

(* Mutant: the caller goes on as if there were something left to send.     *)
FailChunk_unnoticed ==
  /\ Hangup
  /\ Conclude("not_yet_done", state \ {"keep_alive"}, Released,
              current_chunk_p, "none")
  /\ UNCHANGED <<more, inbox>>

(* It has returned false because the transmission failed.                  *)
FailChunk ==
  /\ Hangup
  /\ Terminate(state \ {"keep_alive"}, Released, current_chunk_p)
  /\ UNCHANGED <<more, inbox>>

on_write_chunk ==
  /\ ev_watcher = "write" /\ iterable # "file" /\ HasChunk
  /\ SendSome \/ TryAgain \/ FlushChunk \/ FailChunk
  /\ UNCHANGED <<app, served, sent, sock>>

-----------------------------------------------------------------------------
(* on_write_sendfile. *)

(* Phase A has left `chunk'.                                               *)
SeekFile(st, chunk, it) ==
  \/ app.fails /\ Conclude("aborted", st, chunk, -1, it)
  \/ Conclude("not_yet_done", st, chunk, app.pieces - more, it)

FlushHead ==
  /\ sock # "reset"
  /\ Deliver(current_chunk, Promised)
  /\ SeekFile(state, Text("none"), iterator)
  /\ UNCHANGED more

FailHead ==
  /\ Hangup
  /\ SeekFile(state \ {"keep_alive"}, Released, "none")
  /\ UNCHANGED <<more, inbox>>

on_write_sendfile_head ==
  /\ ev_watcher = "write" /\ iterable = "file" /\ HasChunk
  /\ SendSome \/ TryAgain \/ FlushHead \/ FailHead
  /\ UNCHANGED <<app, served, sent, sock>>

(* What one call of sendfile() carries.                                    *)
FilePieces(k) ==
  [part |-> "body", framing |-> "none", pieces |-> k, cruft |-> FALSE]

SendFile ==
  /\ sock # "reset"
  /\ \E k \in 1..more :
       /\ more' = more - k
       /\ Deliver(FilePieces(k), Promised)
       /\ Conclude("not_yet_done", state, current_chunk, current_chunk_p + k,
                   iterator)

(* Mutant: sendfile() returning 0 is not the end.                          *)
EndOfFile_retries ==
  /\ sock # "reset" /\ more = 0
  /\ Conclude("not_yet_done", state, current_chunk, current_chunk_p, iterator)
  /\ UNCHANGED <<more, inbox>>

EndOfFile ==
  /\ sock # "reset" /\ more = 0
  /\ Conclude("done", state, current_chunk, current_chunk_p, iterator)
  /\ UNCHANGED <<more, inbox>>

FailingFile == app.ret = "file" /\ app.fails

(* sendfile() fails for the connection, or for the file.                   *)
FailFile ==
  /\ sock = "reset" \/ FailingFile
  /\ Conclude("done", state \ {"keep_alive"}, current_chunk, current_chunk_p,
              "none")
  /\ UNCHANGED <<more, inbox>>

on_write_sendfile_body ==
  /\ ev_watcher = "write" /\ iterable = "file"
  /\ current_chunk.part = "none"
  /\ SendFile \/ TryAgain \/ EndOfFile \/ FailFile
  /\ UNCHANGED <<app, served, sent, sock>>

-----------------------------------------------------------------------------
(* The next call of the handler after FailHead, on a buffer that may be    *)
(* gone: it fails again, or anything else happens.  NULL is the same.      *)
WriteReleased ==
  /\ ev_watcher = "write" /\ ~HasChunk
  /\ current_chunk.part = "freed" \/ iterable # "file"
  /\ ev_watcher' \in {"write", "crashed"}
  /\ UNCHANGED <<bitFields, chunkVars, bodyVars, parserVars, headers,
                 wsgiVars, clientVars>>

-----------------------------------------------------------------------------
Serving == ev_watcher \in {"read", "write"}

ClientMoves ==
  /\ Serving
  /\ \/ \E to \in 1..4 * MaxRequests : ClientSend(to)
     \/ ClientClose
     \/ ClientReset
  /\ UNCHANGED <<ev_watcher, bitFields, chunkVars, bodyVars, parsed, dead,
                 field, headers, wsgiVars>>

Gone == ~Serving /\ UNCHANGED vars

ev_io_on_read ==
  \/ \E to \in 1..4 * MaxRequests : ReadData(to) \/ ReadCrashes(to)
  \/ ReadAborts

ev_io_on_write ==
  \/ on_write_chunk
  \/ on_write_sendfile_head
  \/ on_write_sendfile_body
  \/ WriteReleased

Next == ev_io_on_read \/ ev_io_on_write \/ ClientMoves \/ Gone

Spec == Init /\ [][Next]_vars

(* libev calls back for every socket that stays ready, and the client      *)
(* keeps emptying its side of the socket.                                  *)
Fairness == WF_vars(ev_io_on_read) /\ WF_vars(ev_io_on_write)

FairSpec == Spec /\ Fairness

-----------------------------------------------------------------------------
(* Properties. *)

(* The type invariant: what each field of the Request, the application and *)
(* the client may hold.                                                    *)
TypeOK == RequestTypeOK /\ WsgiTypeOK /\ ClientTypeOK

(* The client can decode everything that is written: no piece outside of a *)
(* body or in the wrong framing, none beyond Content-Length, no terminator *)
(* too early, no header in the middle of a body, no 100 Continue that      *)
(* starts behind its first byte.                                           *)
NeverGarbled == view # "garbled"

(* start_reading is called when the exchange is over: the reply to the     *)
(* last request that was served has arrived whole, and nothing of it is    *)
(* left in the Request for the next one to meet.                           *)
ReadsOnlyBetweenReplies ==
  ev_watcher = "read" =>
    /\ view = "wait" /\ replies = served
    /\ ~HasChunk /\ current_chunk_p = 0
    /\ iterable = "none" /\ iterator = "none"
    /\ error_code = NO_ERROR
    /\ state \subseteq {"response_length_unknown"}

(* request.c:113, assert(PARSER->field == NULL) in on_message_begin: no    *)
(* message begins in what the one before it has left behind.               *)
MessageBeginsClean ==
  [][\A m \in Messages : Runs(m, 1, parsed') => ~field]_vars

(* Every iterable an application has returned is close()d once, and        *)
(* exactly when the Request lets go of it: Request_clean is neither        *)
(* skipped nor run twice, on any way out of a response.                    *)
IterableAccounting == unclosed = (IF iterable = "none" THEN 0 ELSE 1)

(* The Request is never reused or freed with a buffer in current_chunk,    *)
(* which Request_clean does not release.                                   *)
NoChunkLeaked == ev_watcher \in {"read", "closed"} => ~HasChunk

(* server.c:473, assert(request->current_chunk != NULL) in do_send_chunk,  *)
(* and that it is not a buffer that has been released: on_write_chunk is   *)
(* never called back without something to send.                            *)
SendsLiveBuffer == ev_watcher = "write" /\ iterable # "file" => HasChunk

(* server.c:385, "current_chunk has been set to NULL" when do_send_chunk   *)
(* has returned false: no callback finds the buffer that it released.      *)
NothingReleasedIsKept == ev_watcher = "write" => current_chunk.part # "freed"

(* After handle_nonzero_errno has hung up, no further message is read from *)
(* the connection, whatever the callbacks in between still try to send.    *)
(* (100 Continue is written once and its failure not noticed: the read()   *)
(* that follows fails by itself.)                                          *)
HangsUpAfterFailure ==
  [][ev_watcher = "write" /\ sock = "reset" /\ "expect_continue" \notin state
       => ev_watcher' # "read"]_vars

(* server.c:424 and 457 (current_chunk_p == 0 for a new buffer) and 474    *)
(* (nothing to send): the offset is always one inside of the buffer.       *)
OffsetInBuffer ==
  HasChunk => 0 <= current_chunk_p /\ current_chunk_p < Size(current_chunk)

(* What an application's iterable has yielded is what the client has       *)
(* received and what is in the buffer, so that no piece is dropped, sent   *)
(* twice or overtaken between the iterator, wsgi_getheaders and write().   *)
PiecesConserved ==
  ev_watcher = "write" /\ sock # "reset" /\ served = replies + 1 /\ error_code = NO_ERROR =>
    \/ view = "wait"
    \/ current_chunk.part = "error"
    \/ view = "close" /\ iterable = "none"
    \/ left = Promised - app.pieces + more +
                (IF HasChunk THEN current_chunk.pieces ELSE 0)

(* The application is called for one message after the other, when the     *)
(* whole of it has been read and the client has the reply to the last.     *)
ServedInOrder ==
  [][served' # served =>
       /\ served' = served + 1
       /\ replies = served
       /\ parsed' = 4 * served']_vars

(* server.c:340-352, wsgi.c:127-150: after a whole reply the connection    *)
(* goes on exactly if the client asked for that.  One that did not is      *)
(* never read from again; one that did is not closed, but after a file of  *)
(* which sendfile() failed behind its last byte.                           *)
ContinuesIfAsked ==
  [][\A m \in Messages :
       /\ ev_watcher = "write" /\ ev_watcher' \in {"read", "closed"}
       /\ sock # "reset"
       /\ served = m /\ view' = "wait" /\ replies' = m
       => /\ ev_watcher' = "read" => reqs[m].keep
          /\ ev_watcher' = "closed" => ~reqs[m].keep \/ FailingFile]_vars

(* On a healthy connection, what ev_io_on_write ends by closing it is a    *)
(* whole reply, or one that the end of the connection makes whole.  Only   *)
(* an application's iterator or file that fails half-way tears a reply,    *)
(* and then pieces are missing and nothing was sent to hide it: the client *)
(* takes the torso for whole only where it has no other sign of the end    *)
(* than the close (server.c:353-357, 505-510).                             *)
ClosesAfterReply ==
  [][ev_watcher = "write" /\ ev_watcher' = "closed" /\ sock # "reset" =>
       \/ view' = "wait" /\ replies' = served' /\ left' = 0
       \/ view' = "close" /\ left' = 0
       \/ /\ app.fails /\ replies' < served' /\ left' > 0
          /\ view' \in {"length", "chunked", "close"}]_vars

(* A call of the application ends in a whole reply or in the end of the    *)
(* connection: no response gets stuck between two callbacks.               *)
EveryRequestEnds ==
  \A m \in Messages : served = m ~> (replies >= m \/ ~Serving)

(* A client that has sent its headers and waits for 100 Continue with the  *)
(* body is not left waiting (request.c:195-197).                           *)
Awaits(m) ==
  /\ parsed = At(m, 2) /\ sent = At(m, 2)
  /\ reqs[m].minor = 1 /\ reqs[m].expect = "continue" /\ reqs[m].body

ExpectationAnswered ==
  \A m \in Messages :
    Awaits(m) ~> (interim = m \/ sent > At(m, 2) \/ ~Serving)

(* server.c:455, "We have to send a terminating empty chunk": the next     *)
(* request is not read while the client is still inside of a chunked body. *)
ChunkedResponsesEnd == ev_watcher = "read" => view # "chunked"

(* tests/keep-alive-behaviour.py:157, "Only "close" in case of error": the *)
(* connection does not go on after an error reply.                         *)
OnlyCloseInCaseOfError == ev_watcher = "read" => error_code = NO_ERROR

(* The inductive invariant behind IterableAccounting and                   *)
(* MessageBeginsClean, for clients that ask for 100 Continue only when     *)
(* there is a body to wait for: whenever bjoern reads, it is for the       *)
(* message of which the client has no reply, with nothing left of the      *)
(* application's last answer; an expectation is pending only while its     *)
(* answer is the text that is being sent.                                  *)
ExpectHasBody ==
  \A r \in Requests : r.minor = 1 /\ r.expect = "continue" => r.body

Exchange ==
  /\ IterableAccounting
  /\ ev_watcher = "read" =>
       /\ iterable = "none"
       /\ "parse_finished" \notin state /\ "expect_continue" \notin state
  /\ "expect_continue" \in state =>
       /\ ev_watcher = "write" /\ iterable = "none"
       /\ "parse_finished" \notin state
       /\ current_chunk.part \in {"continue", "error", "torn"}
  /\ current_chunk.part = "head" \/ view \in {"length", "chunked"} =>
       replies < served
  /\ replies <= served /\ 4 * served <= parsed
  /\ sent <= 4 * replies + 4
  /\ field /\ ~dead /\ (ev_watcher = "read" \/ "expect_continue" \in state) =>
       parsed > 4 * replies

(* The inductive invariant behind NeverGarbled, PiecesConserved and the    *)
(* other properties of replies: in each place that a reply can be in, what *)
(* the client expects next is what bjoern has left.  It holds if a message *)
(* that asks for 100 Continue has a body and is HTTP from its headers on,  *)
(* and files come with their length; the runs of the findings show why.    *)
ExpectIsServed ==
  \A r \in Requests : r.minor = 1 /\ r.expect = "continue" => r.body /\ r.bad # 3

FilesHaveLength == \A a \in Apps : a.ret = "file" => a.start /\ a.length

(* A client may ask for 100 Continue.                                      *)
Expecting == \E r \in Requests : r.minor = 1 /\ r.expect = "continue"

(* Nothing is due, and the client may send the next message.               *)
Ready ==
  /\ view = "wait" /\ replies = served
  /\ iterable = "none" /\ iterator = "none"
  /\ current_chunk_p = 0 /\ error_code = NO_ERROR /\ ~dead
  /\ served > 0 => reqs[served].keep

(* The reply to the last call is under way, in a framing that the client   *)
(* understands, and the connection is kept exactly if the client asked for *)
(* that and can tell the end.                                              *)
Replying(framing) ==
  /\ served = replies + 1 /\ sent > 4 * replies
  /\ framing \in {"length", "chunked", "close"}
  /\ "chunked_response" \in state <=> framing = "chunked"
  /\ framing = "chunked" => reqs[served].minor = 1 /\ reqs[served].keep
  /\ "keep_alive" \in state <=> reqs[served].keep /\ framing # "close"
  /\ "wsgi_call_done" \in state

SendsError ==
  /\ current_chunk.part = "error"
  /\ view = "wait" /\ sent > 4 * replies
  /\ iterable # "file" /\ iterator = "none"
  /\ {"keep_alive", "chunked_response"} \cap state = {}

SendsHead ==
  /\ current_chunk.part = "head" /\ view = "wait"
  /\ Replying(current_chunk.framing)
  /\ current_chunk.cruft <=> "chunked_response" \in state
  /\ current_chunk.pieces + more = app.pieces
  /\ iterator = "live" <=> app.ret = "iter"
  /\ iterable = "file" <=> app.ret = "file"
  /\ app.ret = "file" => current_chunk.framing = "length" /\ current_chunk.pieces = 0
  /\ app.ret \in {"raise", "bytes"} => more = 0

SendsBody ==
  /\ current_chunk.part = "body" /\ current_chunk.pieces = 1
  /\ Replying(view)
  /\ current_chunk.cruft <=> "chunked_response" \in state
  /\ left = Promised - app.pieces + more + 1
  /\ iterable # "file" /\ iterator = "live" /\ app.ret = "iter"

SendsEnd ==
  /\ current_chunk = Text("end") /\ view = "chunked" /\ left = 0
  /\ served = replies + 1 /\ sent > 4 * replies
  /\ {"keep_alive", "wsgi_call_done"} \subseteq state /\ reqs[served].keep
  /\ "chunked_response" \notin state
  /\ iterable # "file" /\ iterator = "none"
  /\ more = 0 /\ Promised = app.pieces

SendsFile ==
  /\ current_chunk.part = "none" /\ iterable = "file" /\ app.ret = "file"
  /\ more = left
  /\ \/ view = "length" /\ more > 0 /\ Replying("length")
     \/ view = "wait" /\ more = 0 /\ replies = served /\ served > 0
  /\ "keep_alive" \in state <=> reqs[served].keep
  /\ "wsgi_call_done" \in state

(* 100 Continue that met EAGAIN, and is given up.                          *)
Dropped == Spurious /\ Expecting /\ current_chunk.part = "continue"

(* How a healthy connection ends: while bjoern waits for a message, after  *)
(* a reply, as the end of a reply, or in the middle of one.                *)
Idle == view = "wait" /\ replies = served /\ "wsgi_call_done" \notin state

Ended ==
  /\ view = "wait" /\ replies = served /\ served > 0
  /\ ~reqs[served].keep \/ FailingFile

Torn ==
  /\ app.fails /\ replies < served /\ left > 0
  /\ view \in {"length", "chunked", "close"}

Closes ==
  ev_watcher = "closed" /\ sock # "reset" =>
    \/ left = 0 /\ (Idle \/ Ended \/ view = "close")
    \/ Torn

Delivery ==
  /\ view # "garbled"
  /\ view = "wait" => left = 0
  /\ ev_watcher = "read" =>
       Ready /\ state = {"response_length_unknown"}
  /\ "expect_continue" \in state =>
       /\ Ready /\ state = {"response_length_unknown", "expect_continue"}
       /\ current_chunk.part = "continue" /\ sent > 4 * replies
       /\ Expecting
  /\ ev_watcher = "write" /\ sock # "reset" /\ "expect_continue" \notin state =>
       \/ SendsError
       \/ ~dead /\ (SendsHead \/ SendsBody \/ SendsEnd \/ SendsFile)
  /\ NoChunkLeaked \/ Dropped
  /\ sock # "reset" => OffsetInBuffer
  /\ Closes

(* The dialogue is that of KeepAlive.                                      *)
Dialogue ==
  INSTANCE KeepAlive WITH
    N <- MaxRequests,
    keep <- [m \in Messages |-> reqs[m].keep],
    called <- served,
    replied <- replies,
    open <- Serving

ImplementsKeepAlive == Dialogue!FairSpec

=============================================================================
