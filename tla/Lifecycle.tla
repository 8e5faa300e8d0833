------------------------------- MODULE Lifecycle -------------------------------
(***************************************************************************)
(* The life of listening sockets: bind_and_listen(), listen(), run() and   *)
(* server_run() of bjoern.py in several processes that fork, return from   *)
(* the main loop, or die; and what they leave behind in the kernel, in the *)
(* file system and in the processes.                                       *)
(* The main loop itself is the subject of Server: here it only returns.    *)
(* A call that raises and changes nothing is no step.                      *)
(***************************************************************************)
EXTENDS Integers, Sequences

CONSTANTS
  Processes,   (* Process identifiers, which are used again.               *)
  Addresses,   (* The addresses that are given to listen().                *)
  Family,      (* Of each: "inet", "path" (unix:) or "abstract" (unix:@).  *)
  Python3,     (* socket.getsockname() returns abstract names as bytes.    *)
  MaxSockets   (* Bound: sockets that are ever bound.                      *)

ASSUME LifecycleAssumption ==
  /\ Family \in [Addresses -> {"inet", "path", "abstract"}]
  /\ Python3 \in BOOLEAN
  /\ MaxSockets \in Nat

VARIABLES
  proc,      (* What each process does.                                     *)
  serves,    (* The socket whose loop it is in, 0 for none.                 *)
  open,      (* The listening sockets that are open in it.                  *)
  instance,  (* The socket of _default_instance, 0 for None.                *)
  bound,     (* The sockets that were bound, in that order.                 *)
  inode,     (* The socket that a path leads to, 0 if it does not exist.    *)
  ran,       (* Ghost: sockets whose run() has returned in the process.     *)
  shared,    (* Ghost: sockets that two processes have had.                 *)
  died       (* Ghost: sockets that a process had when it ended.            *)

kernel == <<open, bound, inode, shared, died>>
python == <<proc, serves, instance, ran>>
vars == <<kernel, python>>

Ids == 1..MaxSockets
Paths == {a \in Addresses : Family[a] = "path"}
Address(s) == bound[s].addr
Listens(a) == {s \in DOMAIN bound : Address(s) = a /\ \E p \in Processes : s \in open[p]}

Init ==
  /\ proc = [p \in Processes |-> "gone"]
  /\ serves = [p \in Processes |-> 0]
  /\ open = [p \in Processes |-> {}]
  /\ instance = [p \in Processes |-> 0]
  /\ bound = <<>>
  /\ inode = [a \in Paths |-> 0]
  /\ ran = [p \in Processes |-> {}]
  /\ shared = {}
  /\ died = {}

-----------------------------------------------------------------------------
(* Listening. *)

(* Mutant: a path that exists is removed before it is bound.               *)
Free_unlinks_first(a, reuse) ==
  CASE Family[a] = "path" -> TRUE
    [] Family[a] = "abstract" -> Listens(a) = {}
    [] OTHER -> \A s \in Listens(a) : reuse /\ bound[s].reuse

(* bind() and listen() succeed.  A path must not exist, even if nothing    *)
(* listens there; SO_REUSEADDR makes up for sockets that were closed, and  *)
(* SO_REUSEPORT, if all of them set it, for those that are open.           *)
Free(a, reuse) ==
  CASE Family[a] = "path" -> inode[a] = 0
    [] Family[a] = "abstract" -> Listens(a) = {}
    [] OTHER -> \A s \in Listens(a) : reuse /\ bound[s].reuse

bind_and_listen(p, a, reuse) ==
  /\ Len(bound) < MaxSockets
  /\ Free(a, reuse)
  /\ bound' = Append(bound, [addr |-> a, reuse |-> reuse /\ Family[a] = "inet"])
  /\ open' = [open EXCEPT ![p] = @ \cup {Len(bound')}]
  /\ inode' = IF a \in Paths THEN [inode EXCEPT ![a] = Len(bound')] ELSE inode
  /\ UNCHANGED <<shared, died>>

(* The program keeps the socket to itself.                                 *)
Bind(p, a, reuse) ==
  /\ proc[p] = "python"
  /\ bind_and_listen(p, a, reuse)
  /\ UNCHANGED python

(* "Only one global server instance possible".                             *)
listen(p, a, reuse) ==
  /\ proc[p] = "python"
  /\ instance[p] = 0
  /\ bind_and_listen(p, a, reuse)
  /\ instance' = [instance EXCEPT ![p] = Len(bound')]

Listen(p, a, reuse) ==
  /\ listen(p, a, reuse)
  /\ UNCHANGED <<proc, serves, ran>>

-----------------------------------------------------------------------------
(* Serving. *)

(* Mutant: PyObject_AsFileDescriptor() is not checked.                     *)
IsDescriptor_unchecked(p, s, now) == TRUE

(* A socket that was closed has the descriptor -1.                         *)
IsDescriptor(p, s, now) == s \in now[p]

server_run(p, s, how) ==
  /\ IsDescriptor(p, s, open')
  /\ proc' = [proc EXCEPT ![p] = how]
  /\ serves' = [serves EXCEPT ![p] = s]

(* bjoern.server_run(), for a socket of the program's.                     *)
ServerRun(p, s) ==
  /\ proc[p] = "python"
  /\ s \in open[p] \cup ran[p]
  /\ UNCHANGED <<kernel, instance, ran>>
  /\ server_run(p, s, "server_run")

(* bjoern.run(wsgi_app, host, ...) *)
RunWithArguments(p, a, reuse) ==
  /\ listen(p, a, reuse)
  /\ server_run(p, instance'[p], "run")
  /\ UNCHANGED ran

(* bjoern.run() *)
Run(p) ==
  /\ proc[p] = "python"
  /\ instance[p] # 0
  /\ UNCHANGED <<kernel, instance, ran>>
  /\ server_run(p, instance[p], "run")

(* Mutant: the socket is closed first.                                     *)
Cleanup_closes_first(p, s, unlinks, raises) ==
  /\ inode' = IF unlinks THEN [inode EXCEPT ![Address(s)] = 0] ELSE inode
  /\ open' = [open EXCEPT ![p] = @ \ {s}]
  /\ instance' = [instance EXCEPT ![p] = IF raises THEN @ ELSE 0]

(* Mutant: the path is left to the next server.                            *)
Cleanup_leaves_path(p, s, unlinks, raises) ==
  /\ UNCHANGED inode
  /\ open' = [open EXCEPT ![p] = @ \ {s}]
  /\ instance' = [instance EXCEPT ![p] = 0]

(* os.unlink() comes first, and if it raises the socket stays as it is.    *)
Cleanup(p, s, unlinks, raises) ==
  /\ inode' = IF unlinks THEN [inode EXCEPT ![Address(s)] = 0] ELSE inode
  /\ open' = [open EXCEPT ![p] = IF raises THEN @ ELSE @ \ {s}]
  /\ instance' = [instance EXCEPT ![p] = IF raises THEN @ ELSE 0]

(* The main loop returns, and run() cleans up.  The path is whosever it is *)
(* by now; os.unlink() raises if there is none, or if it is asked to       *)
(* remove the name of an abstract socket: bytes[0] is not '\0', it is 0.   *)
Return(p) ==
  /\ proc[p] \in {"run", "server_run"}
  /\ LET s == serves[p]
         named == Family[Address(s)]
     IN  IF proc[p] = "server_run" THEN UNCHANGED <<open, inode, instance, ran>>
         ELSE /\ Cleanup(p, s, named = "path" /\ inode[Address(s)] # 0,
                         \/ named = "path" /\ inode[Address(s)] = 0
                         \/ named = "abstract" /\ Python3)
              /\ ran' = [ran EXCEPT ![p] = @ \cup {s}]
  /\ proc' = [proc EXCEPT ![p] = "python"]
  /\ serves' = [serves EXCEPT ![p] = 0]
  /\ UNCHANGED <<bound, shared, died>>

-----------------------------------------------------------------------------
(* Processes and files. *)

Start(p) ==
  /\ proc[p] = "gone"
  /\ proc' = [proc EXCEPT ![p] = "python"]
  /\ UNCHANGED <<kernel, serves, instance, ran>>

(* os.fork() before the main loop, as a master does for its workers.       *)
Fork(p, q) ==
  /\ proc[p] = "python" /\ proc[q] = "gone"
  /\ proc' = [proc EXCEPT ![q] = "python"]
  /\ open' = [open EXCEPT ![q] = open[p]]
  /\ instance' = [instance EXCEPT ![q] = instance[p]]
  /\ ran' = [ran EXCEPT ![q] = ran[p]]
  /\ shared' = shared \cup open[p]
  /\ UNCHANGED <<serves, bound, inode, died>>

(* The process exits, or SIGKILL ends it in the middle of the main loop.   *)
End(p) ==
  /\ proc[p] # "gone"
  /\ proc' = [proc EXCEPT ![p] = "gone"]
  /\ serves' = [serves EXCEPT ![p] = 0]
  /\ open' = [open EXCEPT ![p] = {}]
  /\ instance' = [instance EXCEPT ![p] = 0]
  /\ ran' = [ran EXCEPT ![p] = {}]
  /\ died' = died \cup open[p]
  /\ UNCHANGED <<bound, inode, shared>>

(* Somebody removes the path of a server that is no more.                  *)
RemovePath(a) ==
  /\ inode[a] # 0 /\ inode[a] \notin Listens(a)
  /\ inode' = [inode EXCEPT ![a] = 0]
  /\ UNCHANGED <<open, bound, shared, died, python>>

Next ==
  \/ \E p \in Processes :
       \/ Start(p) \/ End(p) \/ Return(p) \/ Run(p)
       \/ \E q \in Processes : Fork(p, q)
       \/ \E s \in DOMAIN bound : ServerRun(p, s)
       \/ \E a \in Addresses, reuse \in BOOLEAN :
            Bind(p, a, reuse) \/ Listen(p, a, reuse) \/ RunWithArguments(p, a, reuse)
  \/ \E a \in Paths : RemovePath(a)

Spec == Init /\ [][Next]_vars

-----------------------------------------------------------------------------
(* Properties. *)

(* The type invariant; a main loop only runs for a socket that is open in  *)
(* its process, and a path leads to a socket that was bound to it.         *)
TypeOK ==
  /\ proc \in [Processes -> {"gone", "python", "run", "server_run"}]
  /\ bound \in Seq([addr : Addresses, reuse : BOOLEAN]) /\ Len(bound) <= MaxSockets
  /\ open \in [Processes -> SUBSET DOMAIN bound]
  /\ instance \in [Processes -> {0} \cup DOMAIN bound]
  /\ inode \in [Paths -> {0} \cup DOMAIN bound]
  /\ ran \in [Processes -> SUBSET DOMAIN bound]
  /\ shared \subseteq DOMAIN bound /\ died \subseteq DOMAIN bound
  /\ serves \in [Processes -> {0} \cup DOMAIN bound]
  /\ \A p \in Processes : serves[p] # 0 => serves[p] \in open[p]
  /\ \A a \in Paths : inode[a] # 0 => Address(inode[a]) = a

Shared(a) == \E s \in shared : Address(s) = a

(* bjoern.py:96-102.  The default instance has a socket that is open; when *)
(* run() has returned, its socket is closed, and listen() can be called    *)
(* again, unless the socket is an abstract one in Python 3, or workers     *)
(* have shared a socket at its path.                                       *)
DefaultInstance ==
  \A p \in Processes :
    /\ instance[p] # 0 => instance[p] \in open[p]
    /\ \A s \in ran[p] :
         /\ s \in open[p] <=> instance[p] = s
         /\ s \in open[p] => \/ Family[Address(s)] = "abstract" /\ Python3
                             \/ Family[Address(s)] = "path" /\ Shared(Address(s))

(* bjoern.py:100.  The path of a socket that is served leads to it,        *)
(* whoever else has listened, stopped or died there; only workers that     *)
(* share a socket may remove the path of another.                          *)
PathIsServed ==
  \A p \in Processes :
    serves[p] # 0 =>
      LET a == Address(serves[p])
      IN  a \in Paths /\ ~Shared(a) => inode[a] = serves[p]

(* bjoern.py:96-102.  Only a process that ends leaves a path behind that   *)
(* leads nowhere, so that the next server there must fail: run() has       *)
(* removed the path by the time it closes the socket, whichever process    *)
(* has run the socket, and whoever else has listened at the path.          *)
OnlyTheDeadLeavePaths ==
  \A a \in Paths : inode[a] # 0 /\ inode[a] \notin Listens(a) => inode[a] \in died

(* The inductive invariant behind the three: a loop runs for a socket of   *)
(* its own process, a process that is gone has none, a socket that two     *)
(* processes have was shared by a fork, and the path of an open socket     *)
(* leads to it until it is shared.                                         *)
Ownership ==
  \A p \in Processes :
    /\ serves[p] # 0 <=> proc[p] \in {"run", "server_run"}
    /\ proc[p] = "run" => instance[p] = serves[p]
    /\ proc[p] = "gone" => open[p] = {}
    /\ \A s \in open[p] :
         /\ \A q \in Processes \ {p} : s \in open[q] => s \in shared
         /\ Address(s) \in Paths /\ ~Shared(Address(s)) => inode[Address(s)] = s

Lives == Ownership /\ DefaultInstance /\ OnlyTheDeadLeavePaths

=============================================================================
