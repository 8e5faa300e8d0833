# A specification of bjoern

bjoern is a WSGI server for CPython: a C extension around libev and Node's
`http_parser`, with a thin Python module on top. This directory holds TLA+
modules that model it, the TLC configurations that check them on small
instances, and proofs, checked by TLAPS, that hold for every instance.

`PROJECT.json` lists the components, the runs, the hazards each property is
aimed at, the source lines every definition stands for, the findings and the
theorems. For every property it also names a *mutant*: an operator of the
modules (its comment begins with "Mutant:") that is a plausible bug in one
mapped definition, and with which TLC finds the property violated.

    tlc -workers 2 -config core.cfg MCConnection      one of the runs
    tlapm Delivery_proofs.tla                         one of the proof modules

## 1. Inventory

### Components, state and operations

| component | state | operations |
|---|---|---|
| **connection handlers**, `server.c:187-542` | `Request.ev_watcher` (which callback, on what event), `current_chunk`, `current_chunk_p`, the bits of `request->state` | `ev_io_on_read`, `ev_io_on_write`, `on_write_sendfile`, `on_write_chunk`, `do_send_chunk`, `do_sendfile`, `handle_nonzero_errno`, `close_connection`, `start_reading`, `start_writing` |
| **server loop and signals**, `server.c:78-185` | the libev loop: accept, SIGINT and timer watchers; the process's pending signals; the C globals `timeout_watcher`, `read_buf` | `server_run`, `ev_io_on_request`, `ev_signal_on_sigint`, `ev_timer_ontick`, `pyerr_set_interrupt` |
| **Request and parser callbacks**, `request.c`, `request.h` | one `Request` per connection: parser with `field`, `state` (7 bits and `error_code`), `headers`, `iterable`, `iterator` | `Request_new`, `Request_reset`, `Request_clean`, `Request_free`, `Request_parse`, the `on_...` callbacks |
| **WSGI call**, `wsgi.c` | the `StartResponse` object, which points to the Request; `status`, `headers`, `response_length_unknown`, `keep_alive`, `chunked_response` | `wsgi_call_application`, `start_response`, `wsgi_getheaders`, `wsgi_iterable_get_next_chunk`, `wrap_http_chunk_cruft_around` |
| **FileWrapper**, `filewrapper.c`, `portable_sendfile.c` | the wrapped file and its descriptor | iteration, `close`, `FileWrapper_GetFd`, `portable_sendfile` |
| **Python API**, `bjoern.py` | `_default_instance`, the listening socket; in the kernel and the file system, the address it is bound to | `bind_and_listen`, `listen`, `run`, `server_run` |
| **extension glue**, `_bjoernmodule.c` | `ServerInfo`, the cached `wsgi_base_dict` (`request.c:321`) | `run`: descriptor and name of the socket, arguments |
| **utilities**, `common.c` | none | `unquote_url_inplace`, interned strings |
| **statsd**, `statsd_tags.c` and macros in `server.h` | counters | UDP packets; influence nothing |
| `http_parser`, libev, `statsd-c-client` | third party | external |

### Interactions

libev calls a handler when a descriptor is ready. A handler runs from start to
end, in one thread and with the GIL held, so handlers of one process are
atomic with respect to one another; what interleaves with them is the client
and the network (bytes arrive, the send buffer fills and drains, the
connection is half-closed or reset), signals, and other processes that share
the listening socket. `ev_io_on_read` feeds the parser, whose callbacks fill
the Request; when a message is complete the handler calls the application, and
hands the response over to `ev_io_on_write`, which is called back until the
response has been sent. On a persistent connection the same Request is then
cleaned, reset and used for the next message.

### What is hard, and what makes the parts correct

* **One Request, many messages.** Whatever survives `Request_clean` and
  `Request_reset` is met by the next message. Correct: reading resumes only when
  the reply is out and nothing of it is left; iterables are closed exactly once;
  messages are served in order.
* **A response is a sequence of callbacks** that agree about where they are
  only through `current_chunk`, `current_chunk_p`, `iterator` and three bits.
  Correct: what the client receives is what the application returned, in the
  framing that was announced; the terminating chunk is sent once; the offset
  stays inside of the buffer; every response ends.
* **Failure half-way**: the iterator raises, the client resets, the message
  turns out malformed after 100 Continue was due. Correct: the connection ends,
  no released buffer is used, the client never takes a torso for a whole reply.
* **Framing** depends on the HTTP version, on what the client asked, on the
  status and on Content-Length; and two places (`wsgi.c:91`, `server.c:324`)
  decide independently whether a response goes through `sendfile()`.
* **Several workers, one socket**: all are woken for one connection, `accept()`
  may find nothing or have no descriptor left. Correct: one owner per
  connection, and each request that is sent is answered.
* **Signals**: SIGINT stops the library's own watchers and lets connections
  finish; Python handlers run only when Python code runs, hence the timer.
  Correct: the loop ends, not too early, and takes no new connections.
* **Ordering of input**: headers and URLs come in pieces that depend on how
  they were split over `read()`s; several messages may come in one `read()`.
  Correct: the environ and the verdict on a message depend on the message alone.
* **Calls out of turn**: `start_response` is a Python object that an application
  may call at any time, often, with wrong arguments, and after the Request is
  gone. Correct: one call's status goes with the same call's headers; a late
  call raises; nothing is lost.
* **What outlives a process**: paths of Unix sockets, sockets that children
  share, `_default_instance` after the loop. Correct: what is served can be
  reached, and `run()` leaves nothing behind.

The hazards in `PROJECT.json` name the line at which each of these bites, and
the properties that cover it or the reason why none does yet.

## 2. Modules

    Request ──── Wsgi ────┐
       │                  ├── Connection ── MCConnection   (7 configurations)
       └────── Client ────┘        │  └──── Connection_proofs ── Delivery_proofs
                                   │ implements
                               KeepAlive

    Parsing ── MCParsing                                     (2 configurations)
       │
       │       Server ── MCServer       StartResponse ── MCStartResponse       Lifecycle ── MCLifecycle
       │          └───── Server_proofs        └───────── StartResponse_proofs      └─────── Lifecycle_proofs
       └────── Parsing_proofs
                     │
               Environ_proofs ── Verdict_proofs

| module | models |
|---|---|
| `Request` | the structure, its life, and what one `read()` makes of it through the parser's callbacks |
| `Wsgi` | the call of the application: every kind of answer, and what becomes of the bits, the iterator and the first buffer |
| `Client` | external: the socket and a client that decodes what it gets according to RFC 2616 |
| `Connection` | the handlers of one connection, composed with the three above; its properties |
| `KeepAlive` | the abstract specification: what a persistent connection promises |
| `Server` | the worker processes: loop, accept, signals, shutdown |
| `Parsing` | the input of one connection at the grain of the parser's callbacks: the stream cut anywhere, and the environ it yields |
| `StartResponse` | `start_response` called at any time and with any arguments; what it stores, and what is sent of it |
| `Lifecycle` | `bjoern.py` in processes that fork, listen, serve, return and die; sockets, paths, `_default_instance` |
| `MC...` | requests, applications, the socket that is shared |
| `..._proofs` | theorems |

### How the state corresponds to the code

**Request.** `state` is the set of bits that are set; `current_chunk` is what
the buffer carries as far as its receiver can tell: headers (with the framing
they announce), pieces of the body (wrapped as a chunk or not), one of the fixed
texts, or the terminating chunk. A pointer to a released object is the buffer
`"freed"`, which is not NULL. A fixed text that is stored while
`current_chunk_p` is not 0 is `"torn"`, its beginning is not sent.
The stream of a client is a line of positions, four to a message: request line,
headers, a first part of the body, everything. A `read()` moves `parsed` from
one to a later one, and the callbacks that http_parser makes are those of the
positions in between, up to the first malformed one. Definitions with the
argument `to` tell what such a read makes of one field.

**Wsgi.** An application is the record of what it does in one call: raise, return
bytes, a `wsgi.file_wrapper` or another iterable; call `start_response` or not;
with Content-Length or not; a status without body; the number of nonempty
pieces; whether it fails at the end. A file that fails is one that cannot be
`lseek()`ed, or of which `sendfile()` fails, at any point (`FailingFile`). `Responds` and `Refuses` are the two return
values of `wsgi_call_application`; `Committed` computes the bits.

**Connection.** `ReadData` is `ev_io_on_read` with data, `ReadAborts` without.
Its four outcomes are the branches of the code: `ParseError`, `CallApplication`,
`PauseRead` (100 Continue), `WaitForMore`. `on_write_chunk`,
`on_write_sendfile_head` (phase A) and `on_write_sendfile_body` (phase B) are
the callbacks of `ev_io_on_write`; each ends in `Conclude`, the handler's last
part, which maps the returned state to: go on reading after 100 Continue, call
back again, clean and reset, or close. The order in which the code tests
`expect_continue`, the return value and `keep_alive` is kept, since two of the
findings are due to it. `ReadCrashes` and `WriteReleased` are what undefined
behaviour may do: a NULL dictionary, a released or missing buffer; the state
`"crashed"` is the end of the process.

The build modelled is the one without assertions (`WITHOUT_ASSERTS`, or the
`NDEBUG` that Python adds to the flags). The assertions are properties.

**Server.** One iteration of the loop is `Poll`, which makes watchers pending,
followed by the callback of each of them in any order; between any two steps
anything else may happen, so that an event is stale when it is handled.
`active` holds the watchers that are started, `"cleanup"` stands for the
signal's own cleanup state after SIGINT. A connection is reduced to reading a
request and answering it; what happens in between is the subject of
`Connection`. `Interrupt` distinguishes who gets SIGINT: Python before the loop,
libev during it, and nobody, which kills the process, after `ev_signal_stop`.
`Release` is what the kernel does when a process ends.

**How the modules fit together.** `Parsing` has the grain that `Request` lacks:
there a `read()` moves from one of four positions of a message to another,
here it consumes symbols, and each callback is an action. `Request` keeps the
iterable, the buffers and the write side, which `Parsing` abstracts to "answered
at once"; the branch of `ev_io_on_write` that both findings about Expect are due
to (`Resume`) is in both. `StartResponse` has the calls that `Wsgi` takes as one
record of an application. `Lifecycle` yields the sockets that `Server` starts
from (its constant `Listens`), and has `server_run` as one state.

**Parsing.** A message is a record (version, path, query, headers, body, and
whether it is HTTP at all). A name, a value, a path is a sequence of a few parts,
of which a `read()` may bring some; `%`, `h`, `h` are an escape, and `_`, `-`
are kept apart from other characters, since the code does. `http_parser` calls
back for the part of a token in this `read()`; it also does with an empty part,
if the `read()` begins with the token's delimiter (`Due`). A callback that
returns 1 ends the parsing (`Stop`); whether that is noticed in this `read()`
or the next one depends on the byte at which http_parser stops, so both are
allowed. `environ` is the dict that `request->headers` points to. After a
call of the application it points to the list of the response, and should a
callback meet that, `PyDict_SetItem` refuses it and nobody notices, until the
body that was not stored is used; NULL ends the process at once (`Crash`). The ghosts
`overran` and `cut` say that a `read()` went on behind a complete message, and
that one ended where bjoern is sensitive to it; the properties are stated
with and without them, so that they say just where bjoern depends on the cuts. A
symbol carries ghosts, too: its message, its header, and which part of the token
it is (`of`, `header`, `nth`). http_parser does not act on them, except that its
state has the version and the length of the message (`Current`).

**StartResponse.** `status` and `headers` are the number of the call that stored
what they point to (0 is NULL, `DICT` the environ of a message that is being
read), and `alive` the objects that have a reference, so that an object in
`alive` that nothing points to is a leak. `phase` says where in the exchange
the connection is, the points at which Python code runs (`Running`) among
them. `Outcome` has the checks of the code in its order. A call of a kept
object acts on the Request of the next message or on freed memory
(`DanglingCall`).

**Lifecycle.** A socket is a number; `open[p]` are those that process `p` has,
and a socket listens while any process has it. `inode` says where a path leads,
whoever listens there. `Return` is the `finally` of `run()` with its order:
name, `os.unlink`, `close`, `_default_instance`. Calls that raise and change
nothing (`RuntimeError`, `EADDRINUSE`, a closed descriptor) are actions that are
not enabled. `bind()` and `listen()` are one step; between them another process
could bind a TCP address as well, and fail in `listen()` instead. Two ghosts say what
became of a socket: `shared`, that a fork gave it to a second process, and
`died`, that a process had it when it ended.

## 3. What is checked

### Runs of `MCConnection`

The constants common to all: `MaxRequests = 2` messages on the connection,
`BufferUnits = 2` writes per buffer.

| run | who takes part | what it shows |
|---|---|---|
| `core` | requests of both versions, with and without the wish to go on, with and without a body, malformed in the headers or in the body; all kinds of applications; half-closing; partial writes, EAGAIN | Replies can be decoded (`NeverGarbled`, `PiecesConserved`); when bjoern closes a connection at the end of a response, the reply is whole, or the close makes it whole, or an iterator or a file failed and nothing hides that pieces are missing (`ClosesAfterReply`); after a whole reply the connection goes on if the client asked for that, and only then (`ContinuesIfAsked`; the exception is a file of which `sendfile()` fails behind its last byte); one exchange leaves nothing to the next (`ReadsOnlyBetweenReplies`, `MessageBeginsClean`, `IterableAccounting`, `NoChunkLeaked`); every call ends (`EveryRequestEnds`); `OffsetInBuffer`; the inductive invariant `Delivery` behind most of them |
| `expect` | messages with and without `Expect`, which comes with a body that is sent before, during or after the answer; byte strings and iterators; resets at any point | `ExpectationAnswered`, `ServedInOrder` (calls are in the order of the messages), `HangsUpAfterFailure`, `NothingReleasedIsKept`, the inductive invariant `Exchange` (with `IterableAccounting`), and the refinement `ImplementsKeepAlive` with its liveness: resets included, every call ends |
| `anything` | all kinds at once, those of the findings included | `SendsLiveBuffer` and `TypeOK` hold even there |

Four more runs of `MCConnection` end in a violation, each of a sentence of the
repository (section 5): `expect_no_body`, `expect_malformed`, `file_no_length`,
`reset_file`. So does one of `MCParsing`, `expect_prefix`.

### The run of `MCServer`

| run | instance | what it shows |
|---|---|---|
| `workers` | 2 workers, 1 socket, 2 connections, 2 signals to the worker that has room for both | `TypeOK` (its part `Descriptors`: one owner for each connection, watchers and descriptors together), `CompletesRequests`, `AcceptsNoMore`; `ShutsDown`; `HandlesSignals`; `AnswersRequests`: no request waits for ever, though `accept()` may find that the other worker was faster, or have no descriptor left |

A worker may end and a client need not return, so this run checks no
deadlock. The runs of `MCConnection` do: there `Gone` is the only way to stop.
Workers with `reuse_port` have a socket each and share nothing, so that they are
independent instances with one worker.

### The other runs

| run | instance | what it shows |
|---|---|---|
| `parsing` | two messages out of eight kinds (escapes, ignored and repeated headers, Expect met, unmet and as a prefix, HTTP/1.0, a body of unknown length, an invalid path, garbage) and every way to cut the stream | `NeverLosesDict`: callbacks find the dict of their message, if no `read()` goes on behind a message. `CalledInTurn`: the application is never called more often than messages have begun, and if no `read()` goes on behind a message, each is served once before the next is read. (`Turn`, the inductive invariant behind both, is proved.) `EnvironExact`: the environ of a call is what the message says. `EnvironOfOne`: even if a `read()` goes on behind a message, an environ holds nothing of two. `VerdictOfMessage`: served or refused on the message's own merits, if no `read()` goes on behind a message or ends at one of the places below; of the value of Expect what counts is what the code accepts. `EveryMessageHandled`: if no `read()` goes on behind a message, each is served, or one is refused and is the last |
| `start_response` | 3 calls with 12 kinds of arguments, 2 exchanges, the callable may be kept | `ResponseOfLastCall`, `LateCallsRaise`, `References`, `TypeOK` with the invariant that `headers` and `status` are of one call that succeeded |
| `lifecycle` | 2 processes, a TCP address, a path and an abstract name, 3 sockets, Python 3 | `DefaultInstance`: what `run()` leaves behind. `PathIsServed`: a path leads to the server that listens there. `OnlyTheDeadLeavePaths`: a path that stands in the way of the next server was left by a process that ended, never by `run()`. (`Lives`, the inductive invariant that the proofs use, has the first and the last as parts) |

These systems may stop at any time (the client has sent all, the bounds are
met), so `parsing`, `expect_prefix` and `start_response` check no deadlock.

What the properties had to except is how bjoern behaves, and worth knowing:

* The verdict depends on the cuts of the stream (`Sensitive`): an escape that
  two `read()`s share is answered 400, and so is a path whose delimiter comes
  first in a `read()`. An Expect value that is cut gets 100 Continue for its
  first part and is refused with 417 for the second.
* Of several messages in one `read()` only the last is served, or the server
  calls the application with a message it has begun to read, or with the list of
  its own response headers, or it crashes where that list or NULL is taken for
  the dict. No property covers the messages that such a `read()` loses
  (`overran`): `EnvironOfOne` and the first part of `CalledInTurn` are what holds
  of it.
* A call of `start_response` whose headers are wrong leaks its status. One by an
  application that kept the callable acts on the next message's Request (its
  headers replace the environ that is being built) or on freed memory.
* In Python 3, `run()` for an abstract Unix socket always ends in a `ValueError`
  of `os.unlink`; the socket stays open and `listen()` raises from then on.
* Of workers that share a Unix socket the first to end removes the path. The
  others fail in `os.unlink`, or remove the path of a new server.
* An error of `sendfile()` ends a response in the middle of a Content-Length:
  the client sees the connection closed before the length is reached.

### Bounds

* `MaxRequests = 2`: every hazard is about one message and the next; the third
  meets the state that the second met, since `Request_reset` depends on nothing.
* `BufferUnits = 2`: one write leaves a part of the buffer, the next ends it.
  More units only repeat the first. The fixed texts (at most 53 bytes) and the
  terminating chunk (5 bytes) are one unit.
* At most two pieces in a body: the first goes with the headers, the second
  through the write handler.
* `MaxFds`: in `workers` one worker has one descriptor and the other two. The
  first meets its limit as soon as the second connection comes; the other never
  does, because a worker at its limit would not get as far as blocking in
  `accept()`, and that is a part of what the run is about.
* `MaxSignals`, `Signalled`: two signals, SIGINT or SIGTERM, to the worker that
  has room for both connections, so that it may get a second SIGINT while it
  drains. The other is not signalled: where `AnswersRequests` says that a request
  is answered, somebody must be left to do it, and it is the one that may lack a
  descriptor.
* `parsing`: two messages, since the Request is reset in between, and two or
  three symbols to a token, so that it has a start, a middle and an end. All kinds
  that expect 100 Continue have a body; the others are the subject of
  `expect_no_body`. There is
  no bound on `read()`s: every cut is taken.
* `start_response`: three calls: one that fails or succeeds, one that replaces it,
  and one that comes late or is made by a kept object. Two exchanges, for the
  second to meet what the first left.
* `lifecycle`: two processes share, inherit, and stand in each other's way;
  three sockets: a shared one, its successor at the same path, and another.
  Process identifiers are used again, so the number of processes that ever live
  is not bounded.
* `Hangups`, `Resets`, `Spurious` turn half-closing, resets and EAGAIN on. They
  are off where a finding would end the run, and the finding has a run of its own.

### Fairness

* `Connection`: weak fairness of `ev_io_on_read` and of `ev_io_on_write`. libev
  is level-triggered: a socket that stays readable or writable is reported in
  every iteration. That a socket is writable sooner or later assumes that the
  client empties its side (bjoern has no timeouts; `tests/slow_client.py`). No
  fairness is assumed of the client's sending.
* `Parsing`: weak fairness of the handler's steps, the reading of data among
  them: the client sends all of the messages it began. Where a message is left
  unfinished bjoern waits, without a timeout, as it should in this model.
* `StartResponse` and `Lifecycle` state no liveness: applications, programs and
  users do what they want.
* `Server`: weak fairness of each worker's steps; strong fairness of a poll in
  which the timer is due, since the timer repeats while other events come and
  go; strong fairness of idle clients leaving. The last is an assumption about
  the environment which the code does nothing to enforce: a client that stays
  keeps a worker from ending, and with `MaxFds` connections from accepting.

## 4. What is proved

TLAPS checks the following for all values of the constants, under the `ASSUME`s
of the modules (the bounds are positive numbers, messages, requests, calls and
applications are of the declared kinds, each worker listens on one socket and
may have a positive number of descriptors).

| theorem | statement |
|---|---|
| `Connection_proofs!TypeCorrect` | `Spec => []TypeOK` |
| `Connection_proofs!ChunkIsLive` | `Spec => []SendsLiveBuffer`: the assertion of `do_send_chunk` on the path of generic responses, whatever clients and applications do |
| `Connection_proofs!HangsUp` | `Spec => HangsUpAfterFailure`, whatever clients and applications do |
| `Connection_proofs!ExchangeCorrect` | `ExpectHasBody` implies `Spec => []Exchange` |
| `Connection_proofs!IterablesAccounted` | ... `[]IterableAccounting` |
| `Connection_proofs!MessagesBeginClean` | ... `MessageBeginsClean` |
| `Connection_proofs!CallsInOrder` | ... `ServedInOrder` |
| `Delivery_proofs!DeliveryCorrect` | `ExpectIsServed` and `FilesHaveLength` imply `Spec => []Delivery` |
| `Delivery_proofs!RepliesDecode` | ... `[]NeverGarbled` |
| `Delivery_proofs!PiecesAccounted` | ... `[]PiecesConserved` |
| `Delivery_proofs!ContinuesAsAsked` | ... `ContinuesIfAsked` |
| `Delivery_proofs!ClosesWhenDone` | ... `ClosesAfterReply` |
| `Delivery_proofs!OffsetsInBuffer` | ... `[](sock # "reset" => OffsetInBuffer)` |
| `Delivery_proofs!ReleasedIsCleared` | ... `[]NothingReleasedIsKept`, except for files on a connection that was reset |
| `Delivery_proofs!ChunksAreReleased` | ... `[]NoChunkLeaked`, and |
| `Delivery_proofs!ReadsBetweenReplies` | ... `[]ReadsOnlyBetweenReplies`, unless 100 Continue may meet EAGAIN |
| `Delivery_proofs!FollowsKeepAlive` | ... `Dialogue!Spec`: the handlers implement `KeepAlive`, without its liveness |
| `Server_proofs!TypeCorrect` | `Spec => []TypeOK`, for any number of workers, sockets and connections |
| `Server_proofs!RequestsComplete` | `Spec => []CompletesRequests` |
| `Server_proofs!NothingAccepted` | `Spec => AcceptsNoMore` |
| `StartResponse_proofs!TypeCorrect` | `Spec => []TypeOK`, for any number of calls and exchanges |
| `StartResponse_proofs!AnswersWithLastCall` | `Spec => ResponseOfLastCall` |
| `StartResponse_proofs!LateCallsCorrect` | `Spec => LateCallsRaise` |
| `StartResponse_proofs!ReferencesCorrect` | `Spec => []References` |
| `Lifecycle_proofs!TypeCorrect` | `Spec => []TypeOK`, for any processes, addresses and sockets |
| `Lifecycle_proofs!InstanceIsOpen` | `Spec => []DefaultInstance` |
| `Lifecycle_proofs!PathsAreServed` | `Spec => []PathIsServed` |
| `Lifecycle_proofs!PathsAreRemoved` | `Spec => []OnlyTheDeadLeavePaths` |
| `Parsing_proofs!TypeCorrect` | `Spec => []TypeOK`, for any messages and any cut of the stream |
| `Parsing_proofs!TurnCorrect` | `BodyIsExpected` implies `Spec => []Turn` |
| `Parsing_proofs!DictIsThere` | ... `[]NeverLosesDict` |
| `Environ_proofs!CalledOnce` | ... `[]CalledInTurn` |
| `Environ_proofs!ExactCorrect` | `Spec => []Exact`, for any messages and any cut of the stream |
| `Environ_proofs!OfOneMessage` | `Spec => []EnvironOfOne` |
| `Environ_proofs!ExactEnvirons` | `BodyIsExpected` implies `Spec => []EnvironExact` |
| `Verdict_proofs!VerdictIsTheMessages` | `BodyIsExpected` and `ExpectsOnce` imply `Spec => []VerdictOfMessage` |

### The arguments

**Connection.** `TypeOK` is inductive by itself; `SendsLiveBuffer` is, with it.
`HangsUpAfterFailure` rests on `keep_alive` being gone once a write has failed.
`IterableAccounting` and `MessageBeginsClean` are not inductive. An iterable
would be lost if an application were called while one is held, so reading must
begin with `iterable = "none"`; it begins in `Conclude`, through
`expect_continue`, without a clean-up, so that bit must not be set while a
response is sent; it is not because a body takes it back before the message is
complete, *if there is a body*. That is the hypothesis `ExpectHasBody`, and
without it the theorems are false, as the run `expect_no_body` shows. `Exchange`
states this chain, with the positions that say that bjoern reads only the
message to which the client has no reply. `Connection_proofs` shows it step by
step: `ReadsNext`, `NeverBoth` and `CallsNext` are the lemmas about reading,
`ConcludeExchange` and `DeliverExchange` about writing.

**Delivery.** What the client can make of the bytes depends on bjoern and the
client agreeing about where in a reply they are. `Delivery` lists the places: an
error text, the headers, a piece of the body, the terminating chunk, a file
(`SendsError`, ... `SendsFile`), or nothing (`Ready`), and says for each what the
buffer, the offset, the iterator and the bits hold and what the client's decoder
expects (`view`, `left`, `more`). Every write either stays in its place, with a
part of the buffer sent, or goes to the next. Its part `Closes` says how that can
end on a healthy connection: between two messages (`Idle`), after a whole reply
(`Ended`), by the close that completes a reply, or in the middle of one, when an
iterator or a file has failed and pieces are missing (`Torn`). It has two hypotheses, and each is
one of the findings: `ExpectIsServed` (what asks for 100 Continue has a body and
is HTTP at its end, else the reply or the error is cut off: `expect_no_body`,
`expect_malformed`) and `FilesHaveLength` (`file_no_length`). That a released
buffer of a file is met again after a reset is the fourth, and the exception in
`ReleasedIsCleared`. The exception in `ChunksAreReleased` is a hazard without a
finding: 100 Continue is tried once, and what EAGAIN leaves of it is overwritten.
`FollowsKeepAlive` maps each handler to a step of `KeepAlive` or to none
(`called` is `served`, `replied` what the client has counted).

**Server.** That a connection has one owner rests on what the backlogs hold: a
waiting connection waits once and nobody has accepted it (`Waiting`). That
KeyboardInterrupt comes after the last close rests on `Stopped`; that nothing
is accepted after SIGINT on `Draining` and on `pending` being a part of
`active`: libev drops the pending event of a watcher that is stopped. The
inductive invariant is their conjunction with `TypeOK`.

**StartResponse.** `ResponseOfLastCall` needs that headers are never those of a
call that was followed by another: a call that gets past the checks throws the
old ones away before it stores, and one that fails over its headers leaves none
(`Stored`). `References` needs besides that nothing lives that no call stored.
There are no hypotheses; what a kept object does is an exception in the
properties themselves.

**Lifecycle.** `DefaultInstance` is inductive with `Ownership` (a socket that two
processes have was shared by a fork; the path of an open socket leads to it
until it is shared; a process that is gone has none). `OnlyTheDeadLeavePaths` is
shown in the form `Held`: a path leads to a socket that some process has, or had
when it ended. It is inductive, since `run()` removes the path before it closes
the socket, whichever socket the path leads to by then. No hypotheses.

**Parsing.** The stream is built by `FlattenSeq`, so the proofs begin with what
it looks like (`StreamCorrect`): every symbol is followed by one of its message
or by the start of the next (`Stream`). The library's induction theorems cannot
be used, since they have an operator as a parameter. `UpTo` replaces them: a set
of numbers without a least counterexample has none, by `WFMin` over the
well-founded `<`; with it `FlattenSteps` shows what the recursive function
computes, `SameMessage` that the message is the same along a piece of the
stream, and `PieceEnds` that the `CHOOSE` of `PieceEnd` has something to choose.
`TypeOK` is then inductive for all messages and cuts. `Turn` says that while a
message is under way the Request has its dict and the name of one of its headers,
and that what it expects is a body still to come; at its end parsing stops, since
the `read()` does not go on (the guard `~overran` of the properties), and behind
it the Request is new. Its hypothesis `BodyIsExpected` is that of the other
theorems about Expect, for the same reason: without a body `expect_continue`
survives the message, and the list of the response is met by the next one.

**The environ.** `EnvironExact` speaks of the end of a message, while the code
appends to the dict piece by piece, so the invariant has to say what the dict
holds in the middle. `SoFar(k, s)` is that, for message `k` and a symbol `s`:
the header that `s` belongs to and its number in the token (the ghosts `header`
and `nth`) tell which headers are complete, how much of the one at hand was
said, and that the rest has not been said at all. `Exact` says that the dict,
and `field` while a name is put together, is what was said up to `pos` (`Held`),
and that each environ is what was said up to some earlier symbol (`Taken`,
`Served`). A callback must then add just the difference. That is three lemmas
about the data: a sum of values under one key grows at its end (`Grows`, of
headers that come more than once), a piece of a name is a part of it with its
dashes replaced, and the decoding of a piece of a path is the part of the path
that it encodes, if the piece ends between two escapes (`Walk` counts them along
the piece; a piece that does not is refused, or the parser has gone on beyond
it). `EnvironOfOne` follows without hypotheses, also when a `read()` goes on
behind a message: what was said so far is a prefix of what the message says. For
`EnvironExact` `Turn` adds that the calls and the messages are in step.

**The verdict.** `Verdict` says of the symbol at `pos` that nothing said up to
there is a reason to refuse (`Approved`), or that there is an error and the
message deserves it. What needs an argument is the piece: `on_path` refuses a
piece because of an escape cut in two, which is no fault of the message, and
`strncmp` with the length of a piece takes any prefix of `100-continue` and
compares a second piece with its beginning. `Sensitive` names these ends of a
`read()`, and the ghost `cut` remembers them. `ReadFrom` ties the piece to them:
a piece starts with its token or with its `read()`, and unless `cut` no `read()`
started or ended at such a place. So an accepted message had the whole value of
Expect in one piece, and an escape that is incomplete in a piece is so in the
message. While `expect_continue` is set, Expect is not looked at again
(`request.c:209`): of two such headers in one `read()` the second does not count,
but a `read()` that ends between them makes it count. Hence the hypothesis
`ExpectsOnce`; a message with two, the second unmet, violates `VerdictOfMessage`
in TLC. The messages of the run `parsing` satisfy both hypotheses.

### Only model-checked

* Liveness (`EveryRequestEnds`, `ExpectationAnswered`, `AnswersRequests`,
  `ShutsDown`, `HandlesSignals`, `EveryMessageHandled`, the fairness part of
  `ImplementsKeepAlive`): reasoning about `ENABLED` and fairness is out of the
  prover's reach.
* `ServedInOrder`, `NeverGarbled` and the others behind hypotheses, where the
  hypotheses do not hold: there the findings show them violated.

## 5. Findings

1. **Expect without a body** (`expect_no_body`). `state.expect_continue` is
   cleared by `on_body` only. A complete message without body that asks for 100
   Continue is answered, but `ev_io_on_write` takes the override of
   `server.c:330`: it drops what is left of the reply and goes on reading
   without `Request_clean` and `Request_reset`. The assertion of
   `request.c:113` fails for the next message. Against `README.rst:22`.
2. **Error with an expectation pending** (`expect_malformed`). If the message
   is malformed behind its Expect header, 400 is sent, and the same override
   keeps the connection open. Against `tests/keep-alive-behaviour.py:157`.
3. **Files of unknown length** (`file_no_length`). `wsgi.c:91` prepares a
   chunked response, `server.c:324` sends the file with `sendfile()`: no chunk
   sizes, no terminator. Against `server.c:455`.
4. **Reset while the headers of a file are sent** (`reset_file`).
   `handle_nonzero_errno` releases `current_chunk` and does not clear it; the
   next callback writes from it. Against `server.c:385`.

5. **A part of 100-continue** (`expect_prefix`). `on_header_value` compares as
   many bytes as the value has, so any beginning of `100-continue` is accepted
   (`request.c:218`), even if it comes in one `read()`. Against
   `request.c:202-205`, which promises 417 for "anything other".

## 6. Not modelled

* `REQUEST_METHOD`, `REMOTE_ADDR` and the constants in the environ; header
  values and bodies of a response; logging; statsd; argument parsing in the
  glue; the compatibility macros: data or pure I/O, no control.
* `SERVER_NAME` and `SERVER_PORT`, from a dict that is built once in a process
  (`request.c:329`): no document says what a second server should find there.
* HEAD requests: to bjoern the method is a header like any other, so a reply to
  HEAD is sent with its body or terminating chunk; the client of the model asks
  for bodies.
* The descriptor behind a `wsgi.file_wrapper`, which the application may close;
  the size of a chunk, printed as an unsigned int.
* `http_parser`, libev and the kernel, beyond what bjoern relies on.
* A failing `fcntl()` on an accepted descriptor; running out of memory.
* Builds without `WANT_SIGINT_HANDLING` or `WANT_SIGNAL_HANDLING`; several loops
  in threads of one process.
* What the plan below has left.

## 7. Plan

Done: all modules of section 2, their runs, and the proofs of section 4. To
come, in this order:

1. `Server`: Python signal handlers that raise, whose exception stays set after
   `ev_timer_ontick`; several loops in threads with `timeout_watcher` and
   `read_buf` shared.
2. The 500 for an application that returns a file and does not call
   `start_response`, behind which the file is sent; it is a behaviour of the run
   `anything` so far.
3. The chunk size (`% 2^32`) as a function.
