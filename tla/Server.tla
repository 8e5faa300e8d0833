-------------------------------- MODULE Server --------------------------------
(***************************************************************************)
(* The worker processes of bjoern: each runs server_run() of               *)
(* bjoern/server.c, a libev loop with a watcher for the listening socket,  *)
(* one for SIGINT, a timer, and one for each connection.  Workers that     *)
(* were forked after bjoern.listen() share the socket, those that use      *)
(* reuse_port have one each (bjoern.py).                                   *)
(*                                                                         *)
(* An iteration of the loop polls, which makes events of some watchers     *)
(* pending, and then runs the callback of every pending one; by then what  *)
(* was polled may be stale, since other processes run in between.  libev   *)
(* drops the pending event of a watcher that is stopped.  What happens on  *)
(* one connection is the subject of Connection; here a request is read by  *)
(* one callback and answered by the next.  The build is the default one,   *)
(* WANT_SIGINT_HANDLING and WANT_SIGNAL_HANDLING.                          *)
(***************************************************************************)
EXTENDS Integers, Sequences, FiniteSets

CONSTANTS
  Workers,      (* Processes that call bjoern.run().                        *)
  Clients,      (* Connections that are made, each of them once.            *)
  Sockets,      (* Listening sockets.                                       *)
  Listens,      (* The socket that each worker accepts from.                *)
  MaxFds,       (* Client descriptors that each of them may have open.      *)
  Signalled,    (* Bound: processes that somebody sends signals.            *)
  MaxSignals    (* Bound: signals sent, to all of them together.            *)

ASSUME ServerAssumption ==
  /\ Listens \in [Workers -> Sockets]
  /\ MaxSignals \in Nat

ASSUME LimitsAssumption ==
  /\ MaxFds \in [Workers -> Nat \ {0}]
  /\ Signalled \subseteq Workers

VARIABLES
  loop,         (* How far each worker has come in bjoern.run().            *)
  active,       (* Its watchers that are started, connections apart.        *)
  pending,      (* Those of them that have an event to be handled.          *)
  ready,        (* The connections that have.                               *)
  caught,       (* Signals delivered to the process and not yet acted upon. *)
  fds,          (* Client descriptors that are open in the process.         *)
  watcher,      (* ev_watcher of the connection's Request.                  *)
  blocking,     (* Whether accept() on the listening sockets blocks.        *)
  backlog,      (* Connections that wait to be accepted.                    *)
  client,       (* The other end of the connection.                         *)
  request,      (* The last request on the connection.                      *)
  signals       (* Signals sent so far.                                     *)

processVars == <<loop, active, pending, caught>>
requestVars == <<ready, fds, watcher>>
networkVars == <<blocking, backlog, client, request>>
vars == <<processVars, requestVars, networkVars, signals>>

Signals == {"SIGINT", "SIGTERM"}
Watchers == {"accept", "sigint", "timer"}

Running(w) == loop[w] = "running"
Gone(w) == loop[w] \in {"exited", "killed"}

(* The clients C learn that the server has closed the connection.          *)
HungUp(C) ==
  client' = [c \in Clients |-> IF c \in C /\ client[c] = "here" THEN "closed"
                               ELSE client[c]]

-----------------------------------------------------------------------------
(* Start. *)

(* Mutant: setblocking(False) is missing.                                  *)
bind_and_listen_blocking == blocking = TRUE

bind_and_listen == blocking = FALSE

Init ==
  /\ bind_and_listen
  /\ loop = [w \in Workers |-> "new"]
  /\ active = [w \in Workers |-> {}]
  /\ pending = [w \in Workers |-> {}]
  /\ caught = [w \in Workers |-> {}]
  /\ fds = [w \in Workers |-> {}]
  /\ ready = {}
  /\ watcher = [c \in Clients |-> "none"]
  /\ backlog = [s \in Sockets |-> <<>>]
  /\ client = [c \in Clients |-> "away"]
  /\ request = [c \in Clients |-> "none"]
  /\ signals = 0

(* Mutant: built without WANT_SIGNAL_HANDLING, there is no timer.          *)
server_run_without_timer(w) ==
  /\ loop[w] = "new"
  /\ loop' = [loop EXCEPT ![w] = "running"]
  /\ active' = [active EXCEPT ![w] = {"accept", "sigint"}]
  /\ UNCHANGED <<pending, caught, requestVars, networkVars, signals>>

server_run(w) ==
  /\ loop[w] = "new"
  /\ loop' = [loop EXCEPT ![w] = "running"]
  /\ active' = [active EXCEPT ![w] = Watchers]
  /\ UNCHANGED <<pending, caught, requestVars, networkVars, signals>>

-----------------------------------------------------------------------------
(* The loop. *)

Idle(w) == Running(w) /\ pending[w] = {} /\ ready \cap fds[w] = {}

Happened(w) ==
  active[w] \cap ( {e \in {"accept"} : backlog[Listens[w]] # <<>>}
                   \cup {e \in {"sigint"} : "SIGINT" \in caught[w]} )

Readable(c) ==
  watcher[c] = "read" /\ (request[c] = "sent" \/ client[c] = "left")

(* The peer's receive window is open, sooner or later.                     *)
Writable(c) == watcher[c] = "write"

(* `due' tells whether SIGNAL_CHECK_INTERVAL is over.                      *)
Poll(w, due) ==
  /\ Idle(w)
  /\ due \in SUBSET ({"timer"} \cap active[w])
  /\ LET able == {c \in fds[w] : Readable(c) \/ Writable(c)}
     IN  /\ Happened(w) \cup due # {} \/ able # {}
         /\ pending' = [pending EXCEPT ![w] = Happened(w) \cup due]
         /\ ready' = ready \cup able
  /\ UNCHANGED <<loop, active, caught, fds, watcher, networkVars, signals>>

(* ev_run returns when no watcher is left, and ev_loop_destroy calls       *)
(* pyerr_set_interrupt.                                                    *)
EndLoop(w) ==
  /\ Idle(w)
  /\ active[w] \cap Watchers = {}
  /\ \A c \in fds[w] : watcher[c] = "none"
  /\ loop' = [loop EXCEPT ![w] = "interrupted"]
  /\ active' = [active EXCEPT ![w] = {}]
  /\ UNCHANGED <<pending, caught, requestVars, networkVars, signals>>

-----------------------------------------------------------------------------
(* The end of a process.  With the last one that holds it, a listening     *)
(* socket is closed, and so are the connections in its backlog.            *)

Release(w) ==
  LET s == Listens[w]
      last == \A v \in Workers \ {w} : Listens[v] = s => Gone(v)
      lost == IF last THEN {c \in Clients : \E i \in DOMAIN backlog[s] :
                                              backlog[s][i] = c}
              ELSE {}
  IN  /\ backlog' = IF last THEN [backlog EXCEPT ![s] = <<>>] ELSE backlog
      /\ HungUp(lost \cup fds[w])
      /\ fds' = [fds EXCEPT ![w] = {}]
      /\ watcher' = [c \in Clients |-> IF c \in fds[w] THEN "none"
                                       ELSE watcher[c]]
      /\ ready' = ready \ fds[w]
      /\ caught' = [caught EXCEPT ![w] = {}]
      /\ active' = [active EXCEPT ![w] = {}]
      /\ pending' = [pending EXCEPT ![w] = {}]

(* The interpreter raises KeyboardInterrupt, run() closes the socket.      *)
run_finally(w) ==
  /\ loop[w] = "interrupted"
  /\ loop' = [loop EXCEPT ![w] = "exited"]
  /\ Release(w)
  /\ UNCHANGED <<blocking, request, signals>>

(* The default action of SIGINT, which libev restores in ev_signal_stop.   *)
Killed(w) ==
  /\ loop' = [loop EXCEPT ![w] = "killed"]
  /\ Release(w)
  /\ UNCHANGED <<blocking, request>>

-----------------------------------------------------------------------------
(* Signals. *)

(* To Python before the loop runs, to libev while the watcher is active.   *)
Interrupt(w) ==
  \/ /\ loop[w] = "new"
     /\ loop' = [loop EXCEPT ![w] = "interrupted"]
     /\ UNCHANGED <<active, pending, caught, requestVars, networkVars>>
  \/ /\ Running(w) /\ "sigint" \in active[w]
     /\ caught' = [caught EXCEPT ![w] = @ \cup {"SIGINT"}]
     /\ UNCHANGED <<loop, active, pending, requestVars, networkVars>>
  \/ /\ (Running(w) /\ "sigint" \notin active[w]) \/ loop[w] = "interrupted"
     /\ Killed(w)

(* Python has a handler for it (tests/test_signal.py).                     *)
Terminate(w) ==
  /\ ~Gone(w)
  /\ caught' = [caught EXCEPT ![w] = @ \cup {"SIGTERM"}]
  /\ UNCHANGED <<loop, active, pending, requestVars, networkVars>>

Signal(w) ==
  /\ signals < MaxSignals
  /\ signals' = signals + 1
  /\ Interrupt(w) \/ Terminate(w)

(* Mutant: the loop is left at once.                                       *)
ev_signal_on_sigint_breaks(w) ==
  /\ "sigint" \in pending[w]
  /\ caught' = [caught EXCEPT ![w] = @ \ {"SIGINT"}]
  /\ active' = [active EXCEPT ![w] = {}]
  /\ pending' = [pending EXCEPT ![w] = {}]
  /\ loop' = [loop EXCEPT ![w] = "interrupted"]
  /\ UNCHANGED <<requestVars, networkVars, signals>>

(* Mutant: the accept watcher is not stopped.                              *)
ev_signal_on_sigint_accepts(w) ==
  /\ "sigint" \in pending[w]
  /\ caught' = [caught EXCEPT ![w] = @ \ {"SIGINT"}]
  /\ active' = [active EXCEPT ![w] = {"accept", "cleanup"}]
  /\ pending' = [pending EXCEPT ![w] = @ \ {"sigint", "timer"}]
  /\ UNCHANGED <<loop, requestVars, networkVars, signals>>

(* Mutant: the timer is not stopped.                                       *)
ev_signal_on_sigint_ticks(w) ==
  /\ "sigint" \in pending[w]
  /\ caught' = [caught EXCEPT ![w] = @ \ {"SIGINT"}]
  /\ active' = [active EXCEPT ![w] = {"timer", "cleanup"}]
  /\ pending' = [pending EXCEPT ![w] = @ \ {"sigint", "accept"}]
  /\ UNCHANGED <<loop, requestVars, networkVars, signals>>

ev_signal_on_sigint(w) ==
  /\ "sigint" \in pending[w]
  /\ caught' = [caught EXCEPT ![w] = @ \ {"SIGINT"}]
  /\ active' = [active EXCEPT ![w] = (@ \ Watchers) \cup {"cleanup"}]
  /\ pending' = [pending EXCEPT ![w] = @ \ Watchers]
  /\ UNCHANGED <<loop, requestVars, networkVars, signals>>

(* PyErr_CheckSignals runs the Python handler.                             *)
ev_timer_ontick(w) ==
  /\ "timer" \in pending[w]
  /\ caught' = [caught EXCEPT ![w] = @ \ {"SIGTERM"}]
  /\ pending' = [pending EXCEPT ![w] = @ \ {"timer"}]
  /\ UNCHANGED <<loop, active, requestVars, networkVars, signals>>

-----------------------------------------------------------------------------
(* Connections. *)

(* Mutant: ev_io_stop is forgotten.                                        *)
close_connection_watches(w, c) ==
  /\ fds' = [fds EXCEPT ![w] = @ \ {c}]
  /\ HungUp({c})
  /\ UNCHANGED watcher

(* Mutant: close() is forgotten.                                           *)
close_connection_leaks(w, c) ==
  /\ watcher' = [watcher EXCEPT ![c] = "none"]
  /\ UNCHANGED <<fds, client>>

close_connection(w, c) ==
  /\ watcher' = [watcher EXCEPT ![c] = "none"]
  /\ fds' = [fds EXCEPT ![w] = @ \ {c}]
  /\ HungUp({c})

(* accept() succeeds; the client may have left again.                      *)
Accept(w) ==
  /\ backlog[Listens[w]] # <<>> /\ Cardinality(fds[w]) < MaxFds[w]
  /\ LET c == Head(backlog[Listens[w]])
     IN  /\ fds' = [fds EXCEPT ![w] = @ \cup {c}]
         /\ watcher' = [watcher EXCEPT ![c] = "read"]
  /\ backlog' = [backlog EXCEPT ![Listens[w]] = Tail(@)]

(* It returns EAGAIN, another worker was faster (if it blocks it does not  *)
(* return), or EMFILE.                                                     *)
AcceptFails(w) ==
  /\ \/ backlog[Listens[w]] = <<>> /\ ~blocking
     \/ Cardinality(fds[w]) >= MaxFds[w]
  /\ UNCHANGED <<fds, watcher, backlog>>

ev_io_on_request(w) ==
  /\ "accept" \in pending[w]
  /\ Accept(w) \/ AcceptFails(w)
  /\ pending' = [pending EXCEPT ![w] = @ \ {"accept"}]
  /\ UNCHANGED <<loop, active, caught, ready, blocking, client, request,
                 signals>>

(* The application runs, and Python may handle signals meanwhile.          *)
ReadRequest(w, c) ==
  /\ request[c] = "sent"
  /\ request' = [request EXCEPT ![c] = "read"]
  /\ watcher' = [watcher EXCEPT ![c] = "write"]
  /\ caught' \in {caught, [caught EXCEPT ![w] = @ \ {"SIGTERM"}]}
  /\ UNCHANGED <<fds, client>>

ReadEnd(w, c) ==
  /\ request[c] # "sent"
  /\ close_connection(w, c)
  /\ UNCHANGED <<request, caught>>

ev_io_on_read(w, c) ==
  /\ c \in ready \cap fds[w] /\ watcher[c] = "read"
  /\ ReadRequest(w, c) \/ ReadEnd(w, c)
  /\ ready' = ready \ {c}
  /\ UNCHANGED <<loop, active, pending, blocking, backlog, signals>>

KeepAlive(c) ==
  /\ watcher' = [watcher EXCEPT ![c] = "read"]
  /\ UNCHANGED <<fds, client>>

(* The rest of the response is sent.                                       *)
ev_io_on_write(w, c) ==
  /\ c \in ready \cap fds[w] /\ watcher[c] = "write"
  /\ request' = [request EXCEPT ![c] = "answered"]
  /\ KeepAlive(c) \/ close_connection(w, c)
  /\ ready' = ready \ {c}
  /\ UNCHANGED <<loop, active, pending, caught, blocking, backlog, signals>>

-----------------------------------------------------------------------------
(* Clients. *)

Connect(c, s) ==
  /\ client[c] = "away"
  /\ \E w \in Workers : Listens[w] = s /\ ~Gone(w)
  /\ client' = [client EXCEPT ![c] = "here"]
  /\ backlog' = [backlog EXCEPT ![s] = Append(@, c)]
  /\ UNCHANGED <<processVars, requestVars, blocking, request, signals>>

Send(c) ==
  /\ client[c] = "here" /\ request[c] \in {"none", "answered"}
  /\ request' = [request EXCEPT ![c] = "sent"]
  /\ UNCHANGED <<processVars, requestVars, blocking, backlog, client, signals>>

Leave(c) ==
  /\ client[c] = "here"
  /\ client' = [client EXCEPT ![c] = "left"]
  /\ UNCHANGED <<processVars, requestVars, blocking, backlog, request, signals>>

(* It does not wait for a reply.                                           *)
LeaveIdle(c) == request[c] \in {"none", "answered"} /\ Leave(c)

-----------------------------------------------------------------------------
Worker(w) ==
  \/ server_run(w)
  \/ \E due \in SUBSET {"timer"} : Poll(w, due)
  \/ ev_io_on_request(w)
  \/ ev_signal_on_sigint(w)
  \/ ev_timer_ontick(w)
  \/ \E c \in Clients : ev_io_on_read(w, c) \/ ev_io_on_write(w, c)
  \/ EndLoop(w)
  \/ run_finally(w)

Environment ==
  \/ \E w \in Signalled : Signal(w)
  \/ \E c \in Clients : \/ \E s \in Sockets : Connect(c, s)
                        \/ Send(c)
                        \/ Leave(c)

Next == (\E w \in Workers : Worker(w)) \/ Environment

Spec == Init /\ [][Next]_vars

(* A worker runs on, libev handles every pending event of an iteration and *)
(* the timer expires again and again; clients do not stay forever without  *)
(* having something to ask.                                                *)
Fairness ==
  /\ \A w \in Workers :
       /\ WF_vars(Worker(w))
       /\ SF_vars(Poll(w, {"timer"}))
  /\ \A c \in Clients : SF_vars(LeaveIdle(c))

FairSpec == Spec /\ Fairness

-----------------------------------------------------------------------------
(* Properties. *)

(* How the descriptors, the watchers and the pending events of libev go    *)
(* together: the watcher of a connection is active from ev_io_on_request   *)
(* to close_connection, in one worker, which has its descriptor open for   *)
(* as long.                                                                *)
Descriptors ==
  /\ \A c \in Clients :
       watcher[c] # "none" <=> \E w \in Workers : c \in fds[w]
  /\ \A v, w \in Workers : v # w => fds[v] \cap fds[w] = {}
  /\ \A w \in Workers : pending[w] \subseteq active[w]
  /\ \A c \in ready : watcher[c] # "none"

Types ==
  /\ loop \in [Workers -> {"new", "running", "interrupted", "exited", "killed"}]
  /\ active \in [Workers -> SUBSET (Watchers \cup {"cleanup"})]
  /\ pending \in [Workers -> SUBSET Watchers]
  /\ caught \in [Workers -> SUBSET Signals]
  /\ fds \in [Workers -> SUBSET Clients]
  /\ ready \subseteq Clients
  /\ watcher \in [Clients -> {"none", "read", "write"}]
  /\ blocking \in BOOLEAN
  /\ backlog \in [Sockets -> Seq(Clients)]
  /\ client \in [Clients -> {"away", "here", "left", "closed"}]
  /\ request \in [Clients -> {"none", "sent", "read", "answered"}]
  /\ signals \in 0..MaxSignals

(* The type invariant.                                                     *)
TypeOK == Types /\ Descriptors

(* tests/interrupt-during-request.py: KeyboardInterrupt is raised in a     *)
(* worker when the last of its connections is closed, and not before.      *)
CompletesRequests == \A w \in Workers : loop[w] = "interrupted" => fds[w] = {}

(* server.c:126: a worker that is shutting down accepts no connection any  *)
(* more, not even one that the poll before the signal had reported.        *)
AcceptsNoMore ==
  [][\A w \in Workers : "cleanup" \in active[w] => fds'[w] \subseteq fds[w]]_vars

(* A worker that has caught SIGINT ends, when its clients have left.       *)
ShutsDown == \A w \in Signalled : "SIGINT" \in caught[w] ~> Gone(w)

(* CHANGELOG #91, and setup.py's SIGNAL_CHECK_INTERVAL: the Python handler *)
(* of a signal runs though bjoern is idle.                                 *)
HandlesSignals ==
  \A w \in Signalled : []<>("SIGTERM" \notin caught[w])

(* CHANGELOG #169, "Fix blocking accept()": a request that was sent is     *)
(* answered, whichever worker gets it, unless every worker goes.           *)
AnswersRequests ==
  \A c \in Clients :
    []<>(request[c] \notin {"sent", "read"} \/ client[c] # "here")

=============================================================================
