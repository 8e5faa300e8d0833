----------------------------- MODULE Server_proofs -----------------------------
(***************************************************************************)
(* Proofs about the workers, for any number of processes, sockets and      *)
(* connections.                                                            *)
(*                                                                         *)
(* Descriptors is not inductive: that accept() hands out a connection of   *)
(* which no process has a descriptor rests on what the backlogs hold, and  *)
(* that a process that has left its loop has no descriptor open rests on   *)
(* the way its watchers were stopped.                                      *)
(***************************************************************************)
EXTENDS Server, TLAPS

(* Nothing runs in a process before or after its loop.                     *)
Stopped ==
  \A w \in Workers : ~Running(w) => active[w] = {} /\ fds[w] = {}

(* What libev still watches after SIGINT.                                  *)
Draining ==
  \A w \in Workers : "cleanup" \in active[w] => active[w] = {"cleanup"}

(* A connection waits once, and nobody has accepted it before.             *)
Waiting ==
  /\ \A s \in Sockets : \A i \in 1..Len(backlog[s]) :
       watcher[backlog[s][i]] = "none" /\ client[backlog[s][i]] # "away"
  /\ \A s, t \in Sockets :
       \A i \in 1..Len(backlog[s]), j \in 1..Len(backlog[t]) :
         backlog[s][i] = backlog[t][j] => s = t /\ i = j
  /\ \A c \in Clients : client[c] = "away" => watcher[c] = "none"

Inv == TypeOK /\ Stopped /\ Draining /\ Waiting

-----------------------------------------------------------------------------
USE ServerAssumption

(* Nothing runs and nothing is connected at first.                         *)
LEMMA InvInit == Init => Inv
<1> SUFFICES ASSUME Init PROVE Inv
  OBVIOUS
<1>1. Types
  <2>1. signals \in 0..MaxSignals
    BY DEF Init
  <2>2. backlog \in [Sockets -> Seq(Clients)]
    BY DEF Init
  <2> QED
    BY <2>1, <2>2 DEF Init, bind_and_listen, Types
<1>2. Descriptors /\ Stopped /\ Draining
  BY DEF Init, Descriptors, Stopped, Draining
<1>3. Waiting
  <2>1. \A s \in Sockets : Len(backlog[s]) = 0
    BY DEF Init
  <2> QED
    BY <2>1 DEF Init, Waiting
<1> QED
  BY <1>1, <1>2, <1>3 DEF Inv, TypeOK

(* server_run starts the watchers.                                         *)
LEMMA InvStart ==
  ASSUME Inv, NEW w \in Workers, server_run(w)
  PROVE  Inv'
<1>1. Types'
  BY DEF Inv, TypeOK, server_run, Watchers, requestVars, networkVars, Types
<1>2. Descriptors'
  BY DEF Inv, TypeOK, server_run, Watchers, requestVars, networkVars, Types, Descriptors, Stopped
<1>3. Stopped'
  BY DEF Inv, TypeOK, server_run, Watchers, requestVars, networkVars, Types, Descriptors, Stopped, Running
<1>4. Draining'
  BY DEF Inv, TypeOK, server_run, Watchers, requestVars, networkVars, Types, Descriptors, Draining, Stopped, Running
<1>5. Waiting'
  BY DEF Inv, TypeOK, server_run, Watchers, requestVars, networkVars, Types, Waiting
<1> QED
  BY <1>1, <1>2, <1>3, <1>4, <1>5 DEF Inv, TypeOK

(* Polling makes events of started watchers pending.                       *)
LEMMA InvPoll ==
  ASSUME Inv, NEW w \in Workers, NEW due \in SUBSET {"timer"}, Poll(w, due)
  PROVE  Inv'
<1>1. Types'
  BY DEF Inv, TypeOK, Poll, Idle, Happened, Readable, Writable, Watchers, networkVars, Types
<1>2. Descriptors'
  BY DEF Inv, TypeOK, Poll, Idle, Happened, Readable, Writable, Watchers, networkVars, Types, Descriptors, Stopped
<1>3. Stopped'
  BY DEF Inv, TypeOK, Poll, Idle, Happened, Readable, Writable, Watchers, networkVars, Types, Descriptors, Stopped, Running
<1>4. Draining'
  BY DEF Inv, TypeOK, Poll, Idle, Happened, Readable, Writable, Watchers, networkVars, Types, Descriptors, Draining, Stopped, Running
<1>5. Waiting'
  BY DEF Inv, TypeOK, Poll, Idle, Happened, Readable, Writable, Watchers, networkVars, Types, Waiting
<1> QED
  BY <1>1, <1>2, <1>3, <1>4, <1>5 DEF Inv, TypeOK

(* Without a Request the loop ends, and no descriptor is left.             *)
LEMMA InvEnd ==
  ASSUME Inv, NEW w \in Workers, EndLoop(w)
  PROVE  Inv'
<1>1. Types'
  BY DEF Inv, TypeOK, EndLoop, Idle, Watchers, requestVars, networkVars, Types
<1>2. Descriptors'
  BY DEF Inv, TypeOK, EndLoop, Idle, Watchers, requestVars, networkVars, Types, Descriptors, Stopped
<1>3. Stopped'
  BY DEF Inv, TypeOK, EndLoop, Idle, Watchers, requestVars, networkVars, Types, Descriptors, Stopped, Running
<1>4. Draining'
  BY DEF Inv, TypeOK, EndLoop, Idle, Watchers, requestVars, networkVars, Types, Descriptors, Draining, Stopped, Running
<1>5. Waiting'
  BY DEF Inv, TypeOK, EndLoop, Idle, Watchers, requestVars, networkVars, Types, Waiting
<1> QED
  BY <1>1, <1>2, <1>3, <1>4, <1>5 DEF Inv, TypeOK

(* What is stopped after SIGINT has nothing pending.                       *)
LEMMA InvSigint ==
  ASSUME Inv, NEW w \in Workers, ev_signal_on_sigint(w)
  PROVE  Inv'
<1>1. Types'
  BY DEF Inv, TypeOK, ev_signal_on_sigint, Watchers, requestVars, networkVars, Types
<1>2. Descriptors'
  BY DEF Inv, TypeOK, ev_signal_on_sigint, Watchers, requestVars, networkVars, Types, Descriptors, Stopped
<1>3. Stopped'
  BY DEF Inv, TypeOK, ev_signal_on_sigint, Watchers, requestVars, networkVars, Types, Descriptors, Stopped, Running
<1>4. Draining'
  BY DEF Inv, TypeOK, ev_signal_on_sigint, Watchers, requestVars, networkVars, Types, Descriptors, Draining, Stopped, Running
<1>5. Waiting'
  BY DEF Inv, TypeOK, ev_signal_on_sigint, Watchers, requestVars, networkVars, Types, Waiting
<1> QED
  BY <1>1, <1>2, <1>3, <1>4, <1>5 DEF Inv, TypeOK

(* The timer is left running.                                              *)
LEMMA InvTick ==
  ASSUME Inv, NEW w \in Workers, ev_timer_ontick(w)
  PROVE  Inv'
<1>1. Types'
  BY DEF Inv, TypeOK, ev_timer_ontick, Watchers, requestVars, networkVars, Types
<1>2. Descriptors'
  BY DEF Inv, TypeOK, ev_timer_ontick, Watchers, requestVars, networkVars, Types, Descriptors, Stopped
<1>3. Stopped'
  BY DEF Inv, TypeOK, ev_timer_ontick, Watchers, requestVars, networkVars, Types, Descriptors, Stopped, Running
<1>4. Draining'
  BY DEF Inv, TypeOK, ev_timer_ontick, Watchers, requestVars, networkVars, Types, Descriptors, Draining, Stopped, Running
<1>5. Waiting'
  BY DEF Inv, TypeOK, ev_timer_ontick, Watchers, requestVars, networkVars, Types, Waiting
<1> QED
  BY <1>1, <1>2, <1>3, <1>4, <1>5 DEF Inv, TypeOK

(* An accepted connection leaves the backlog for one process.              *)
LEMMA InvRequest ==
  ASSUME Inv, NEW w \in Workers, ev_io_on_request(w)
  PROVE  Inv'
<1>1. CASE AcceptFails(w)
  BY <1>1 DEF ev_io_on_request, AcceptFails, Inv, TypeOK, Types, Descriptors,
              Stopped, Draining, Waiting, Running, Watchers
<1>2. CASE Accept(w)
  <2> DEFINE s == Listens[w]
             q == backlog[s]
             c == Head(q)
  <2>1. s \in Sockets /\ q \in Seq(Clients) /\ q # <<>>
    BY <1>2 DEF Accept, Inv, TypeOK, Types
  <2>2. /\ c \in Clients /\ c = q[1]
        /\ 1 \in 1..Len(q)
        /\ Tail(q) \in Seq(Clients)
        /\ Len(Tail(q)) = Len(q) - 1
        /\ \A i \in 1..Len(Tail(q)) : i + 1 \in 1..Len(q) /\ Tail(q)[i] = q[i + 1]
    BY <2>1
  <2>3. /\ fds' = [fds EXCEPT ![w] = @ \cup {c}]
        /\ watcher' = [watcher EXCEPT ![c] = "read"]
        /\ backlog' = [backlog EXCEPT ![s] = Tail(q)]
        /\ pending' = [pending EXCEPT ![w] = @ \ {"accept"}]
        /\ UNCHANGED <<loop, active, caught, ready, blocking, client, request,
                       signals>>
    BY <1>2 DEF ev_io_on_request, Accept
  <2>4. watcher[c] = "none" /\ client[c] # "away"
    BY <2>1, <2>2 DEF Inv, Waiting
  <2>5. Running(w)
    BY DEF ev_io_on_request, Inv, TypeOK, Descriptors, Stopped
  <2> HIDE DEF s, q, c
  <2>6. Types'
    BY <2>1, <2>2, <2>3 DEF Inv, TypeOK, Types
  <2>7. Descriptors'
    BY <2>2, <2>3, <2>4 DEF Inv, TypeOK, Types, Descriptors
  <2>8. Stopped' /\ Draining'
    BY <2>3, <2>5 DEF Inv, TypeOK, Types, Stopped, Draining, Running
  <2>9. Waiting'
    <3>1. \A t \in Sockets \ {s} : backlog'[t] = backlog[t]
      BY <2>3 DEF Inv, TypeOK, Types
    <3>2. backlog'[s] = Tail(q) /\ backlog[s] = q
      BY <2>1, <2>3 DEF Inv, TypeOK, Types, s, q
    <3>3. \A t \in Sockets : \A i \in 1..Len(backlog'[t]) :
            \E k \in 1..Len(backlog[t]) :
              /\ backlog'[t][i] = backlog[t][k]
              /\ k = IF t = s THEN i + 1 ELSE i
      BY <3>1, <3>2, <2>2
    <3>4. \A t \in Sockets : \A i \in 1..Len(backlog'[t]) :
            backlog'[t][i] # c /\ backlog'[t][i] \in Clients
      <4>1. \A t \in Sockets : \A k \in 1..Len(backlog[t]) :
              /\ backlog[t][k] \in Clients
              /\ backlog[t][k] = c => t = s /\ k = 1
        BY <3>2, <2>1, <2>2 DEF Inv, TypeOK, Types, Waiting
      <4>2. TAKE t \in Sockets
      <4>3. TAKE i \in 1..Len(backlog'[t])
      <4>4. PICK k \in 1..Len(backlog[t]) :
              /\ backlog'[t][i] = backlog[t][k]
              /\ k = IF t = s THEN i + 1 ELSE i
        BY <3>3
      <4>5. t = s => k # 1
        <5>1. i \in Nat \ {0}
          BY <3>1, <3>2, <2>2 DEF Inv, TypeOK, Types
        <5> QED
          BY <4>4, <5>1
      <4> QED
        BY <4>1, <4>4, <4>5
    <3>5. \A t \in Sockets : \A i \in 1..Len(backlog'[t]) :
            /\ watcher'[backlog'[t][i]] = "none"
            /\ client'[backlog'[t][i]] # "away"
      <4>1. \A d \in Clients : d # c => watcher'[d] = watcher[d]
        BY <2>3 DEF Inv, TypeOK, Types
      <4>2. client' = client
        BY <2>3
      <4> QED
        BY <3>3, <3>4, <4>1, <4>2 DEF Inv, Waiting
    <3>6. ASSUME NEW t \in Sockets, NEW u \in Sockets,
                 NEW i \in 1..Len(backlog'[t]), NEW j \in 1..Len(backlog'[u]),
                 backlog'[t][i] = backlog'[u][j]
          PROVE  t = u /\ i = j
      <4>1. PICK k \in 1..Len(backlog[t]) :
              /\ backlog'[t][i] = backlog[t][k]
              /\ k = IF t = s THEN i + 1 ELSE i
        BY <3>3
      <4>2. PICK l \in 1..Len(backlog[u]) :
              /\ backlog'[u][j] = backlog[u][l]
              /\ l = IF u = s THEN j + 1 ELSE j
        BY <3>3
      <4>3. backlog[t][k] = backlog[u][l]
        BY <3>6, <4>1, <4>2
      <4>4. t = u /\ k = l
        BY <4>3 DEF Inv, Waiting
      <4>5. i \in Int /\ j \in Int
        BY <3>1, <3>2, <2>2 DEF Inv, TypeOK, Types
      <4> QED
        BY <4>1, <4>2, <4>4, <4>5
    <3>7. \A d \in Clients : client'[d] = "away" => watcher'[d] = "none"
      BY <2>3, <2>4 DEF Inv, TypeOK, Types, Waiting
    <3> QED
      BY <3>5, <3>6, <3>7 DEF Waiting
  <2> QED
    BY <2>6, <2>7, <2>8, <2>9 DEF Inv, TypeOK
<1> QED
  BY <1>1, <1>2 DEF ev_io_on_request

(* A callback closes its connection, or goes on with it.                   *)
LEMMA InvConnection ==
  ASSUME Inv, NEW w \in Workers, NEW c \in fds[w],
         \/ close_connection(w, c)
         \/ /\ \E how \in {"read", "write"} :
                 watcher' = [watcher EXCEPT ![c] = how]
            /\ UNCHANGED <<fds, client>>,
         ready' = ready \ {c},
         caught' \in [Workers -> SUBSET Signals],
         request' \in [Clients -> {"none", "sent", "read", "answered"}],
         UNCHANGED <<loop, active, pending, blocking, backlog, signals>>
  PROVE  Inv'
<1>1. c \in Clients /\ watcher[c] # "none" /\ client[c] # "away"
  BY DEF Inv, TypeOK, Types, Descriptors, Waiting
<1>2. \A v \in Workers : v # w => c \notin fds[v]
  BY DEF Inv, TypeOK, Descriptors
<1>3. \A s \in Sockets : \A i \in 1..Len(backlog[s]) :
        backlog[s][i] # c /\ backlog[s][i] \in Clients
  BY <1>1 DEF Inv, TypeOK, Types, Waiting
<1>4. CASE close_connection(w, c)
  <2>1. /\ watcher' = [watcher EXCEPT ![c] = "none"]
        /\ fds' = [fds EXCEPT ![w] = @ \ {c}]
        /\ client' \in [Clients -> {"away", "here", "left", "closed"}]
        /\ \A d \in Clients : client'[d] = "away" <=> client[d] = "away"
    BY <1>4 DEF close_connection, HungUp, Inv, TypeOK, Types
  <2>2. Types'
    BY <2>1, <1>1 DEF Inv, TypeOK, Types
  <2>3. Descriptors'
    BY <2>1, <1>1, <1>2 DEF Inv, TypeOK, Types, Descriptors
  <2>4. Stopped' /\ Draining'
    BY <2>1 DEF Inv, TypeOK, Types, Stopped, Draining, Running
  <2>5. Waiting'
    BY <2>1, <1>1, <1>3 DEF Inv, TypeOK, Types, Waiting
  <2> QED
    BY <2>2, <2>3, <2>4, <2>5 DEF Inv, TypeOK
<1>5. CASE /\ \E how \in {"read", "write"} :
                watcher' = [watcher EXCEPT ![c] = how]
           /\ UNCHANGED <<fds, client>>
  <2>1. PICK how \in {"read", "write"} : watcher' = [watcher EXCEPT ![c] = how]
    BY <1>5
  <2>2. Types'
    BY <2>1, <1>1, <1>5 DEF Inv, TypeOK, Types
  <2>3. Descriptors'
    BY <2>1, <1>1, <1>5 DEF Inv, TypeOK, Types, Descriptors
  <2>4. Stopped' /\ Draining'
    BY <1>5 DEF Inv, Stopped, Draining, Running
  <2>5. Waiting'
    BY <2>1, <1>1, <1>3, <1>5 DEF Inv, TypeOK, Types, Waiting
  <2> QED
    BY <2>2, <2>3, <2>4, <2>5 DEF Inv, TypeOK
<1> QED
  BY <1>4, <1>5

(* The callbacks of a connection are two such.                             *)
LEMMA InvRead ==
  ASSUME Inv, NEW w \in Workers, NEW c \in Clients, ev_io_on_read(w, c)
  PROVE  Inv'
<1>1. /\ c \in fds[w] /\ ready' = ready \ {c}
      /\ ReadRequest(w, c) \/ ReadEnd(w, c)
      /\ UNCHANGED <<loop, active, pending, blocking, backlog, signals>>
  BY DEF ev_io_on_read
<1>2. /\ caught \in [Workers -> SUBSET Signals]
      /\ request \in [Clients -> {"none", "sent", "read", "answered"}]
  BY DEF Inv, TypeOK, Types
<1>3. CASE ReadRequest(w, c)
  <2>1. /\ caught' \in [Workers -> SUBSET Signals]
        /\ request' \in [Clients -> {"none", "sent", "read", "answered"}]
    BY <1>2, <1>3 DEF ReadRequest
  <2> QED
    BY <1>1, <1>3, <2>1, InvConnection DEF ReadRequest
<1>4. CASE ReadEnd(w, c)
  BY <1>1, <1>2, <1>4, InvConnection DEF ReadEnd
<1> QED
  BY <1>1, <1>3, <1>4

(* ev_io_on_write reuses the connection or closes it.                      *)
LEMMA InvWrite ==
  ASSUME Inv, NEW w \in Workers, NEW c \in Clients, ev_io_on_write(w, c)
  PROVE  Inv'
<1>1. /\ caught' \in [Workers -> SUBSET Signals]
      /\ request' \in [Clients -> {"none", "sent", "read", "answered"}]
  BY DEF ev_io_on_write, Inv, TypeOK, Types
<1> QED
  BY <1>1, InvConnection DEF ev_io_on_write, KeepAlive

(* The end of a process closes its descriptors and no other.               *)
LEMMA InvRelease ==
  ASSUME Inv, NEW w \in Workers, Release(w),
         NEW how \in {"exited", "killed"},
         loop' = [loop EXCEPT ![w] = how],
         signals' \in 0..MaxSignals, UNCHANGED <<blocking, request>>
  PROVE  Inv'
<1>1. Types'
  BY DEF Inv, TypeOK, Release, HungUp, Types
<1>2. Descriptors'
  BY DEF Inv, TypeOK, Release, HungUp, Types, Descriptors, Stopped
<1>3. Stopped'
  BY DEF Inv, TypeOK, Release, HungUp, Types, Descriptors, Stopped, Running
<1>4. Draining'
  BY DEF Inv, TypeOK, Release, HungUp, Types, Descriptors, Draining, Stopped, Running
<1>5. Waiting'
  BY DEF Inv, TypeOK, Release, HungUp, Types, Waiting
<1> QED
  BY <1>1, <1>2, <1>3, <1>4, <1>5 DEF Inv, TypeOK

(* A signal is noted, or ends the process.                                 *)
LEMMA InvSignal ==
  ASSUME Inv, NEW w \in Workers, Signal(w)
  PROVE  Inv'
<1>1. signals' \in 0..MaxSignals
  BY DEF Signal, Inv, TypeOK, Types
<1>2. CASE Killed(w)
  BY <1>1, <1>2, InvRelease DEF Killed
<1>3. CASE Interrupt(w) /\ ~Killed(w)
  <2>1. \/ /\ loop[w] = "new"
           /\ loop' = [loop EXCEPT ![w] = "interrupted"]
           /\ caught' = caught
        \/ /\ Running(w) /\ "sigint" \in active[w]
           /\ caught' = [caught EXCEPT ![w] = @ \cup {"SIGINT"}]
           /\ loop' = loop
    BY <1>3 DEF Interrupt
  <2>2. UNCHANGED <<active, pending, requestVars, networkVars>>
    BY <1>3 DEF Interrupt
  <2>3. Types'
    <3>1. Types
      BY DEF Inv, TypeOK
    <3>2. /\ caught' \in [Workers -> SUBSET Signals]
          /\ loop' \in [Workers -> {"new", "running", "interrupted", "exited",
                                    "killed"}]
      <4>1. /\ caught \in [Workers -> SUBSET Signals]
            /\ loop \in [Workers -> {"new", "running", "interrupted",
                                     "exited", "killed"}]
        BY <3>1 DEF Types
      <4>2. CASE loop' = loop
        BY <2>1, <4>1, <4>2 DEF Signals
      <4>3. CASE loop' = [loop EXCEPT ![w] = "interrupted"]
        BY <2>1, <4>1, <4>3 DEF Signals
      <4> QED
        BY <2>1, <4>2, <4>3
    <3>3. UNCHANGED <<active, pending, fds, ready, watcher, blocking, backlog,
                      client, request>>
      BY <2>2 DEF requestVars, networkVars
    <3>4. fds' \in [Workers -> SUBSET Clients] /\ backlog' \in [Sockets -> Seq(Clients)]
      BY <3>1, <3>3 DEF Types
    <3>5. /\ active' \in [Workers -> SUBSET (Watchers \cup {"cleanup"})]
          /\ pending' \in [Workers -> SUBSET Watchers]
          /\ ready' \subseteq Clients
      BY <3>1, <3>3 DEF Types
    <3>6. /\ watcher' \in [Clients -> {"none", "read", "write"}]
          /\ blocking' \in BOOLEAN
          /\ client' \in [Clients -> {"away", "here", "left", "closed"}]
          /\ request' \in [Clients -> {"none", "sent", "read", "answered"}]
      BY <3>1, <3>3 DEF Types
    <3> QED
      BY <1>1, <3>2, <3>4, <3>5, <3>6 DEF Types
  <2>4. Descriptors' /\ Draining'
    BY <2>2 DEF Inv, TypeOK, Descriptors, Draining, requestVars
  <2>5. Waiting'
    BY <2>2 DEF Inv, Waiting, requestVars, networkVars
  <2>6. Stopped'
    <3>1. \A v \in Workers : loop'[v] = "running" <=> loop[v] = "running"
      BY <2>1 DEF Inv, TypeOK, Types, Running
    <3> QED
      BY <2>2, <3>1 DEF Inv, Stopped, Running, requestVars
  <2> QED
    BY <2>3, <2>4, <2>5, <2>6 DEF Inv, TypeOK
<1>4. CASE Terminate(w)
  BY <1>1, <1>4 DEF Terminate, Inv, TypeOK, Types, Descriptors, Stopped,
       Draining, Waiting, Running, Signals, requestVars, networkVars
<1> QED
  BY <1>2, <1>3, <1>4 DEF Signal

(* A new connection waits at the end of one backlog.                       *)
LEMMA InvConnect ==
  ASSUME Inv, NEW c \in Clients, NEW s \in Sockets, Connect(c, s)
  PROVE  Inv'
<1>1. /\ client[c] = "away"
      /\ client' = [client EXCEPT ![c] = "here"]
      /\ backlog' = [backlog EXCEPT ![s] = Append(@, c)]
      /\ UNCHANGED <<processVars, requestVars, blocking, request, signals>>
  BY DEF Connect
<1>2. \A t \in Sockets : \A i \in 1..Len(backlog'[t]) :
        \/ /\ i \in 1..Len(backlog[t])
           /\ backlog'[t][i] = backlog[t][i] /\ backlog[t][i] \in Clients
        \/ t = s /\ i = Len(backlog[s]) + 1 /\ backlog'[t][i] = c
  BY <1>1 DEF Inv, TypeOK, Types
<1>3. \A t \in Sockets : \A i \in 1..Len(backlog[t]) :
        backlog'[t][i] = backlog[t][i]
  BY <1>1 DEF Inv, TypeOK, Types
<1>4. Types'
  BY <1>1 DEF Inv, TypeOK, Types, processVars, requestVars
<1>5. Descriptors' /\ Stopped' /\ Draining'
  BY <1>1 DEF Inv, TypeOK, Descriptors, Stopped, Draining, Running,
              processVars, requestVars
<1>6. Waiting'
  <2>1. watcher' = watcher /\ watcher[c] = "none"
    BY <1>1 DEF Inv, Waiting, requestVars
  <2>2. \A t \in Sockets : \A i \in 1..Len(backlog[t]) :
          /\ backlog[t][i] # c
          /\ watcher[backlog[t][i]] = "none"
          /\ client[backlog[t][i]] # "away"
    BY <1>1 DEF Inv, Waiting
  <2>3. \A d \in Clients : client'[d] = IF d = c THEN "here" ELSE client[d]
    BY <1>1 DEF Inv, TypeOK, Types
  <2>4. \A t \in Sockets : \A i \in 1..Len(backlog'[t]) :
          /\ watcher'[backlog'[t][i]] = "none"
          /\ client'[backlog'[t][i]] # "away"
    BY <1>2, <2>1, <2>2, <2>3
  <2>5. ASSUME NEW t \in Sockets, NEW u \in Sockets,
               NEW i \in 1..Len(backlog'[t]), NEW j \in 1..Len(backlog'[u]),
               backlog'[t][i] = backlog'[u][j]
        PROVE  t = u /\ i = j
    <3>1. CASE i \in 1..Len(backlog[t]) /\ j \in 1..Len(backlog[u])
      <4>1. backlog'[t][i] = backlog[t][i] /\ backlog'[u][j] = backlog[u][j]
        BY <1>3, <3>1
      <4> QED
        <5>1. backlog[t][i] = backlog[u][j]
          BY <2>5, <4>1
        <5> QED
          BY <3>1, <5>1 DEF Inv, Waiting
    <3>2. CASE i \notin 1..Len(backlog[t]) \/ j \notin 1..Len(backlog[u])
      <4>1. backlog'[t][i] = c \/ backlog'[u][j] = c
        BY <1>2, <3>2
      <4>2. i \notin 1..Len(backlog[t]) /\ j \notin 1..Len(backlog[u])
        <5>1. /\ i \in 1..Len(backlog[t]) => backlog'[t][i] # c
              /\ j \in 1..Len(backlog[u]) => backlog'[u][j] # c
          BY <1>3, <2>2
        <5> QED
          BY <2>5, <4>1, <5>1
      <4> QED
        BY <1>2, <4>2
    <3> QED
      BY <3>1, <3>2
  <2>6. \A d \in Clients : client'[d] = "away" => watcher'[d] = "none"
    BY <2>1, <2>3 DEF Inv, Waiting
  <2> QED
    BY <2>4, <2>5, <2>6 DEF Waiting
<1> QED
  BY <1>4, <1>5, <1>6 DEF Inv, TypeOK

(* What a client does on its connection is none of the server's state.     *)
LEMMA InvClient ==
  ASSUME Inv, NEW c \in Clients, Send(c) \/ Leave(c)
  PROVE  Inv'
<1>1. /\ client' \in [Clients -> {"away", "here", "left", "closed"}]
      /\ request' \in [Clients -> {"none", "sent", "read", "answered"}]
      /\ \A d \in Clients : client'[d] = "away" <=> client[d] = "away"
  <2>1. CASE Send(c)
    BY <2>1 DEF Send, Inv, TypeOK, Types
  <2>2. CASE Leave(c)
    BY <2>2 DEF Leave, Inv, TypeOK, Types
  <2> QED
    BY <2>1, <2>2
<1>2. UNCHANGED <<processVars, requestVars, blocking, backlog, signals>>
  BY DEF Send, Leave
<1>3. Types'
  BY <1>1, <1>2 DEF Inv, TypeOK, Types, processVars, requestVars
<1>4. Descriptors' /\ Stopped' /\ Draining'
  BY <1>2 DEF Inv, TypeOK, Descriptors, Stopped, Draining, Running,
              processVars, requestVars
<1>5. Waiting'
  <2>1. \A s \in Sockets : \A i \in 1..Len(backlog[s]) : backlog[s][i] \in Clients
    BY DEF Inv, TypeOK, Types
  <2> QED
    BY <1>1, <1>2, <2>1 DEF Inv, Waiting, requestVars
<1> QED
  BY <1>3, <1>4, <1>5 DEF Inv, TypeOK

-----------------------------------------------------------------------------
(* Every step preserves the invariant.                                     *)
LEMMA InvNext == Inv /\ [Next]_vars => Inv'
<1> SUFFICES ASSUME Inv, [Next]_vars
             PROVE  Inv'
  OBVIOUS
<1>1. CASE \E w \in Workers : Worker(w)
  <2>1. PICK w \in Workers : Worker(w)
    BY <1>1
  <2>2. CASE run_finally(w)
    <3>1. signals' \in 0..MaxSignals
      BY <2>2 DEF run_finally, Inv, TypeOK, Types
    <3> QED
      BY <2>2, <3>1, InvRelease DEF run_finally
  <2>3. CASE \E c \in Clients : ev_io_on_read(w, c) \/ ev_io_on_write(w, c)
    BY <2>3, InvRead, InvWrite
  <2> QED
    BY <2>1, <2>2, <2>3, InvStart, InvPoll, InvEnd, InvSigint, InvTick,
       InvRequest DEF Worker
<1>2. CASE Environment
  <2>1. CASE \E w \in Signalled : Signal(w)
    BY <2>1, LimitsAssumption, InvSignal
  <2>2. CASE \E c \in Clients : \/ \E s \in Sockets : Connect(c, s)
                                \/ Send(c)
                                \/ Leave(c)
    BY <2>2, InvConnect, InvClient
  <2> QED
    BY <1>2, <2>1, <2>2 DEF Environment
<1>3. CASE UNCHANGED vars
  BY <1>3 DEF vars, processVars, requestVars, networkVars, Inv, TypeOK, Types,
       Descriptors, Stopped, Draining, Waiting, Running
<1> QED
  BY <1>1, <1>2, <1>3 DEF Next

(* The invariant holds in every reachable state.                           *)
LEMMA InvHolds == Spec => []Inv
  BY InvInit, InvNext, PTL DEF Spec

(* Types, and Descriptors: no connection has two processes, and no watcher *)
(* of a closed descriptor is left in a loop.                               *)
THEOREM TypeCorrect == Spec => []TypeOK
<1>1. Inv => TypeOK
  BY DEF Inv
<1> QED
  BY <1>1, InvHolds, PTL

(* No KeyboardInterrupt before the last connection is closed.              *)
THEOREM RequestsComplete == Spec => []CompletesRequests
<1>1. Inv => CompletesRequests
  BY DEF Inv, Stopped, CompletesRequests, Running
<1> QED
  BY <1>1, InvHolds, PTL

(* No connection is accepted after SIGINT was handled.                     *)
THEOREM NothingAccepted == Spec => AcceptsNoMore
<1>1. ASSUME Inv, [Next]_vars, NEW w \in Workers, "cleanup" \in active[w]
      PROVE  fds'[w] \subseteq fds[w]
  <2>1. "accept" \notin pending[w]
    BY <1>1 DEF Inv, TypeOK, Descriptors, Draining
  <2>2. fds \in [Workers -> SUBSET Clients]
    BY <1>1 DEF Inv, TypeOK, Types
  <2>3. CASE \E v \in Workers : ev_io_on_request(v)
    BY <2>1, <2>2, <2>3 DEF ev_io_on_request, Accept, AcceptFails
  <2>4. CASE \E v \in Workers : run_finally(v) \/ Signal(v)
    BY <2>2, <2>4 DEF run_finally, Signal, Interrupt, Terminate, Killed,
                      Release, requestVars
  <2>5. CASE \E v \in Workers, c \in Clients :
               ev_io_on_read(v, c) \/ ev_io_on_write(v, c)
    BY <2>2, <2>5 DEF ev_io_on_read, ReadRequest, ReadEnd, ev_io_on_write,
                      KeepAlive, close_connection
  <2>6. \/ UNCHANGED fds
        \/ \E v \in Workers : \/ ev_io_on_request(v)
                              \/ run_finally(v) \/ Signal(v)
                              \/ \E c \in Clients : \/ ev_io_on_read(v, c)
                                                    \/ ev_io_on_write(v, c)
    BY <1>1, LimitsAssumption
            DEF Next, Worker, Environment, vars, server_run, Poll, EndLoop,
                ev_signal_on_sigint, ev_timer_ontick, Connect, Send, Leave,
                requestVars
  <2> QED
    BY <2>3, <2>4, <2>5, <2>6
<1>2. Inv /\ [Next]_vars =>
        [\A w \in Workers : "cleanup" \in active[w] => fds'[w] \subseteq fds[w]]_vars
  BY <1>1
<1> QED
  BY <1>2, InvHolds, PTL DEF Spec, AcceptsNoMore

=============================================================================
