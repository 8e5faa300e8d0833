--------------------------- MODULE Lifecycle_proofs ---------------------------
(***************************************************************************)
(* Theorems about Lifecycle, for any number of processes, addresses and    *)
(* sockets: the inductive invariant Lives, and what follows from it for    *)
(* _default_instance and the paths of unix sockets.                        *)
(***************************************************************************)
EXTENDS Lifecycle, TLAPS

Sockets == [addr : Addresses, reuse : BOOLEAN]

(* The kernel with one socket more.                                        *)
Adds(n, p, a) ==
  /\ n \in Nat \ {0} /\ Len(bound') = n
  /\ bound' \in Seq(Sockets) /\ n <= MaxSockets
  /\ n \notin DOMAIN bound /\ DOMAIN bound' = DOMAIN bound \cup {n}
  /\ \A s \in DOMAIN bound : bound'[s] = bound[s]
  /\ bound'[n].addr = a
  /\ open' = [open EXCEPT ![p] = @ \cup {n}]
  /\ inode' = IF a \in Paths THEN [inode EXCEPT ![a] = n] ELSE inode
  /\ shared' = shared /\ died' = died

(* What bind() and listen() do to the kernel.                              *)
LEMMA BindFacts ==
  ASSUME TypeOK, LifecycleAssumption,
         NEW p \in Processes, NEW a \in Addresses, NEW reuse \in BOOLEAN,
         bind_and_listen(p, a, reuse)
  PROVE  Adds(Len(bound'), p, a)
<1> DEFINE n == Len(bound) + 1
           b == [addr |-> a, reuse |-> reuse /\ Family[a] = "inet"]
<1>1. bound \in Seq(Sockets) /\ b \in Sockets /\ Len(bound) \in Nat
  BY DEF TypeOK, Sockets
<1>2. bound' = Append(bound, b)
  BY DEF bind_and_listen
<1>3. b.addr = a
  OBVIOUS
<1> HIDE DEF b
<1>4. /\ bound' \in Seq(Sockets) /\ Len(bound') = n
      /\ \A s \in 1..Len(bound) : bound'[s] = bound[s]
      /\ bound'[n] = b
      /\ DOMAIN bound = 1..Len(bound) /\ DOMAIN bound' = 1..Len(bound')
  BY <1>1, <1>2
<1> QED BY <1>1, <1>3, <1>4
        DEF Adds, bind_and_listen, Address, LifecycleAssumption

(* A socket that is bound is not 0, and its address is one of those given. *)
LEMMA SocketFacts ==
  ASSUME TypeOK
  PROVE  /\ \A s \in DOMAIN bound : s \in Nat \ {0} /\ Address(s) \in Addresses
         /\ \A p \in Processes : open[p] \subseteq DOMAIN bound
         /\ Paths \subseteq Addresses
<1>1. bound \in Seq(Sockets)
  BY DEF TypeOK, Sockets
<1>2. \A s \in DOMAIN bound : s \in Nat \ {0} /\ bound[s] \in Sockets
  BY <1>1
<1> QED BY <1>2 DEF TypeOK, Address, Sockets, Paths

-----------------------------------------------------------------------------
(* Types. *)

LEMMA BindType ==
  ASSUME TypeOK, LifecycleAssumption,
         NEW p \in Processes, NEW a \in Addresses, NEW reuse \in BOOLEAN,
         bind_and_listen(p, a, reuse),
         proc' \in [Processes -> {"gone", "python", "run", "server_run"}],
         instance' \in [Processes -> {0} \cup DOMAIN bound'],
         serves' \in [Processes -> {0} \cup DOMAIN bound'],
         \A q \in Processes : serves'[q] \in {0, serves[q], Len(bound')},
         \A q \in Processes \ {p} : serves'[q] # Len(bound'),
         ran' = ran
  PROVE  TypeOK'
<1> DEFINE n == Len(bound')
<1>1. Adds(n, p, a)
  BY BindFacts
<1> USE DEF Adds
<1> HIDE DEF n
<1>2. /\ open' \in [Processes -> SUBSET DOMAIN bound']
      /\ \A q \in Processes : open[q] \subseteq open'[q]
      /\ n \in open'[p]
  <2>1. open \in [Processes -> SUBSET DOMAIN bound]
    BY DEF TypeOK
  <2>2. open'[p] = open[p] \cup {n}
    BY <1>1, <2>1
  <2> QED BY <1>1, <2>1, <2>2
<1>3. /\ inode' \in [Paths -> {0} \cup DOMAIN bound']
      /\ \A c \in Paths : inode'[c] # 0 => bound'[inode'[c]].addr = c
  <2>1. /\ inode \in [Paths -> {0} \cup DOMAIN bound]
        /\ \A c \in Paths : inode[c] # 0 => Address(inode[c]) = c
    BY DEF TypeOK
  <2>2. CASE a \in Paths
    <3>1. inode' = [inode EXCEPT ![a] = n]
      BY <1>1, <2>2
    <3>2. inode' \in [Paths -> {0} \cup DOMAIN bound']
      BY <1>1, <2>1, <3>1
    <3>3. ASSUME NEW c \in Paths, inode'[c] # 0
          PROVE  bound'[inode'[c]].addr = c
      <4>1. CASE c = a
        <5>1. inode'[c] = n
          BY <2>1, <3>1, <4>1
        <5> QED BY <1>1, <4>1, <5>1 DEF Address
      <4>2. CASE c # a
        <5>1. inode'[c] = inode[c] /\ inode[c] \in DOMAIN bound
          BY <2>1, <3>1, <3>3, <4>2
        <5>2. bound'[inode[c]].addr = c
          BY <1>1, <2>1, <3>3, <5>1 DEF Address
        <5> QED BY <5>1, <5>2 DEF Address
      <4> QED BY <4>1, <4>2
    <3> QED BY <3>2, <3>3
  <2>3. CASE a \notin Paths
    <3>1. inode' = inode
      BY <1>1, <2>3
    <3>2. ASSUME NEW c \in Paths, inode[c] # 0 PROVE bound'[inode[c]].addr = c
      BY <1>1, <2>1, <3>2 DEF Address
    <3> QED BY <1>1, <2>1, <3>1, <3>2 DEF Address
  <2> QED BY <2>2, <2>3
<1>4. \A q \in Processes : serves'[q] # 0 => serves'[q] \in open'[q]
  BY <1>1, <1>2 DEF TypeOK
<1>5. /\ ran' \in [Processes -> SUBSET DOMAIN bound']
      /\ shared' \subseteq DOMAIN bound' /\ died' \subseteq DOMAIN bound'
  BY <1>1 DEF TypeOK
<1> QED BY <1>1, <1>2, <1>3, <1>4, <1>5 DEF TypeOK, Sockets, Address, n

-----------------------------------------------------------------------------
(* Sockets and their paths. *)

(* A socket that is bound belongs to one process, and the path to it.      *)
LEMMA BindOwnership ==
  ASSUME TypeOK, Ownership, LifecycleAssumption,
         NEW p \in Processes, NEW a \in Addresses, NEW reuse \in BOOLEAN,
         bind_and_listen(p, a, reuse), proc[p] = "python",
         \/ UNCHANGED <<proc, serves, instance>>
         \/ /\ instance' = [instance EXCEPT ![p] = Len(bound')]
            /\ \/ UNCHANGED <<proc, serves>>
               \/ /\ proc' = [proc EXCEPT ![p] = "run"]
                  /\ serves' = [serves EXCEPT ![p] = Len(bound')]
  PROVE  Ownership'
<1> DEFINE n == Len(bound')
<1>1. Adds(n, p, a)
  BY BindFacts
<1>2. a \in Paths => inode[a] = 0
  BY DEF bind_and_listen, Free, Paths
<1> HIDE DEF n
<1>3. /\ proc \in [Processes -> {"gone", "python", "run", "server_run"}]
      /\ serves \in [Processes -> {0} \cup DOMAIN bound]
      /\ instance \in [Processes -> {0} \cup DOMAIN bound]
      /\ open \in [Processes -> SUBSET DOMAIN bound]
      /\ inode \in [Paths -> {0} \cup DOMAIN bound]
      /\ shared \subseteq DOMAIN bound
  BY DEF TypeOK
<1>4. ASSUME NEW q \in Processes
      PROVE  /\ serves'[q] # 0 <=> proc'[q] \in {"run", "server_run"}
             /\ proc'[q] = "run" => instance'[q] = serves'[q]
             /\ proc'[q] = "gone" => proc[q] = "gone" /\ q # p
  <2>1. /\ serves[q] # 0 <=> proc[q] \in {"run", "server_run"}
        /\ proc[q] = "run" => instance[q] = serves[q]
        /\ n # 0
    BY <1>1 DEF Ownership, Adds
  <2>2. CASE UNCHANGED <<proc, serves, instance>>
    BY <2>1, <2>2
  <2>3. CASE /\ instance' = [instance EXCEPT ![p] = n]
             /\ UNCHANGED <<proc, serves>>
    BY <1>3, <2>1, <2>3
  <2>4. CASE /\ instance' = [instance EXCEPT ![p] = n]
             /\ proc' = [proc EXCEPT ![p] = "run"]
             /\ serves' = [serves EXCEPT ![p] = n]
    BY <1>3, <2>1, <2>4
  <2> QED BY <2>2, <2>3, <2>4 DEF n
<1>5. ASSUME NEW q \in Processes
      PROVE  open'[q] = open[q] \cup (IF q = p THEN {n} ELSE {})
  BY <1>1, <1>3 DEF Adds
<1>6. ASSUME NEW q \in Processes, NEW r \in Processes \ {q},
             NEW s \in open'[q], s \in open'[r]
      PROVE  s \in shared'
  BY <1>1, <1>3, <1>5, <1>6 DEF Ownership, Adds
<1>7. ASSUME NEW q \in Processes, NEW s \in open'[q],
             bound'[s].addr \in Paths, ~\E r \in shared' : bound'[r].addr = bound'[s].addr
      PROVE  inode'[bound'[s].addr] = s
  <2>1. CASE s = n
    BY <1>1, <1>3, <1>7, <2>1 DEF Adds
  <2>2. CASE s # n
    <3>1. s \in open[q] /\ s \in DOMAIN bound /\ bound'[s] = bound[s]
      BY <1>1, <1>3, <1>5, <1>7, <2>2 DEF Adds
    <3>2. \A r \in shared : bound'[r] = bound[r]
      BY <1>1, <1>3 DEF Adds
    <3>3. inode[Address(s)] = s
      <4>1. shared' = shared
        BY <1>1 DEF Adds
      <4>2. Address(s) \in Paths /\ ~Shared(Address(s))
        BY <1>7, <3>1, <3>2, <4>1 DEF Address, Shared
      <4> QED BY <3>1, <4>2 DEF Ownership
    <3>4. s # 0
      BY <3>1, SocketFacts
    <3>5. Address(s) # a
      BY <1>2, <1>7, <3>1, <3>3, <3>4 DEF Address
    <3> QED BY <1>1, <1>3, <1>7, <3>1, <3>3, <3>5 DEF Address, Adds
  <2> QED BY <2>1, <2>2
<1>8. Paths' = Paths
  BY DEF Paths
<1>9. ASSUME NEW q \in Processes, proc'[q] = "gone" PROVE open'[q] = {}
  BY <1>4, <1>5, <1>9 DEF Ownership
<1> QED BY <1>4, <1>6, <1>7, <1>8, <1>9 DEF Ownership, Address, Shared

(* A default instance has a socket that is open; one that has been served  *)
(* is closed, or could not be.                                             *)
LEMMA BindInstance ==
  ASSUME TypeOK, DefaultInstance, LifecycleAssumption,
         NEW p \in Processes, NEW a \in Addresses, NEW reuse \in BOOLEAN,
         bind_and_listen(p, a, reuse),
         \/ instance' = instance
         \/ instance[p] = 0 /\ instance' = [instance EXCEPT ![p] = Len(bound')],
         ran' = ran
  PROVE  DefaultInstance'
<1> DEFINE n == Len(bound')
<1>1. Adds(n, p, a)
  BY BindFacts
<1>2. \/ instance' = instance
      \/ instance[p] = 0 /\ instance' = [instance EXCEPT ![p] = n]
  OBVIOUS
<1> HIDE DEF n
<1>3. /\ instance \in [Processes -> {0} \cup DOMAIN bound]
      /\ open \in [Processes -> SUBSET DOMAIN bound]
      /\ ran \in [Processes -> SUBSET DOMAIN bound]
      /\ shared \subseteq DOMAIN bound
  BY DEF TypeOK
<1>4. ASSUME NEW q \in Processes
      PROVE  /\ open'[q] = open[q] \cup (IF q = p THEN {n} ELSE {})
             /\ instance'[q] \in {instance[q]} \cup (IF q = p THEN {n} ELSE {})
  BY <1>1, <1>2, <1>3 DEF Adds
<1>5. \A s \in DOMAIN bound :
        /\ Address(s)' = Address(s)
        /\ Shared(Address(s))' <=> Shared(Address(s))
  BY <1>1, <1>3 DEF Adds, Address, Shared
<1>6. ASSUME NEW q \in Processes
      PROVE  /\ instance'[q] # 0 => instance'[q] \in open'[q]
             /\ \A s \in ran[q] : s \in open'[q] => s \in open[q]
             /\ \A s \in ran[q] : s \in open'[q] <=> instance'[q] = s
  <2>1. /\ instance[q] # 0 => instance[q] \in open[q]
        /\ \A s \in ran[q] : s \in open[q] <=> instance[q] = s
        /\ n \notin ran[q] /\ 0 \notin ran[q] /\ n \in Nat \ {0}
    BY <1>1, <1>3, SocketFacts DEF DefaultInstance, Adds
  <2>2. CASE instance'[q] = instance[q]
    BY <1>4, <2>1, <2>2
  <2>3. CASE instance'[q] # instance[q]
    <3>1. q = p /\ instance[q] = 0 /\ instance'[q] = n
      BY <1>2, <1>3, <2>3
    <3> QED BY <1>4, <2>1, <3>1
  <2> QED BY <2>2, <2>3
<1> QED BY <1>3, <1>5, <1>6 DEF DefaultInstance

(* A main loop begins for a socket that is open.                           *)
LEMMA ServeSockets ==
  ASSUME TypeOK, Ownership, DefaultInstance,
         NEW p \in Processes, NEW s \in DOMAIN bound, NEW how,
         s \in open[p],
         how = "server_run" \/ (how = "run" /\ instance[p] = s),
         proc' = [proc EXCEPT ![p] = how],
         serves' = [serves EXCEPT ![p] = s],
         UNCHANGED <<kernel, instance, ran>>
  PROVE  TypeOK' /\ Ownership' /\ DefaultInstance'
<1>1. UNCHANGED <<open, bound, inode, shared, died>> /\ Paths' = Paths
  BY DEF kernel, Paths
<1>2. /\ proc \in [Processes -> {"gone", "python", "run", "server_run"}]
      /\ serves \in [Processes -> {0} \cup DOMAIN bound]
  BY DEF TypeOK
<1>3. s # 0
  BY SocketFacts
<1>4. TypeOK'
  BY <1>1, <1>2 DEF TypeOK, Address
<1>5. Ownership'
  BY <1>1, <1>2, <1>3 DEF Ownership, Address, Shared
<1>6. DefaultInstance'
  BY <1>1 DEF DefaultInstance, Address, Shared
<1> QED BY <1>4, <1>5, <1>6

(* run() closes the socket, or raises and leaves it as it is.              *)
LEMMA ReturnSockets ==
  ASSUME TypeOK, Ownership, DefaultInstance, NEW p \in Processes, Return(p)
  PROVE  TypeOK' /\ Ownership' /\ DefaultInstance'
<1> DEFINE s == serves[p]
           c == Address(s)
<1>1. /\ proc \in [Processes -> {"gone", "python", "run", "server_run"}]
      /\ serves \in [Processes -> {0} \cup DOMAIN bound]
      /\ instance \in [Processes -> {0} \cup DOMAIN bound]
      /\ open \in [Processes -> SUBSET DOMAIN bound]
      /\ inode \in [Paths -> {0} \cup DOMAIN bound]
      /\ ran \in [Processes -> SUBSET DOMAIN bound]
      /\ shared \subseteq DOMAIN bound
  BY DEF TypeOK
<1>2. s # 0 /\ s \in open[p] /\ s \in DOMAIN bound /\ c \in Addresses
  BY <1>1, SocketFacts DEF Return, Ownership, TypeOK
<1>3. /\ UNCHANGED <<bound, shared, died>> /\ Paths' = Paths
      /\ proc' = [proc EXCEPT ![p] = "python"]
      /\ serves' = [serves EXCEPT ![p] = 0]
  BY DEF Return, Paths
<1> HIDE DEF s
<1>4. CASE UNCHANGED <<open, inode, instance, ran>>
  <2>1. TypeOK'
    BY <1>1, <1>3, <1>4 DEF TypeOK, Address
  <2>2. Ownership'
    BY <1>1, <1>3, <1>4 DEF Ownership, Address, Shared
  <2>3. DefaultInstance'
    BY <1>3, <1>4 DEF DefaultInstance, Address, Shared
  <2> QED BY <2>1, <2>2, <2>3
<1>5. CASE /\ proc[p] = "run"
           /\ Cleanup(p, s, Family[c] = "path" /\ inode[c] # 0,
                      \/ Family[c] = "path" /\ inode[c] = 0
                      \/ Family[c] = "abstract" /\ Python3)
           /\ ran' = [ran EXCEPT ![p] = @ \cup {s}]
  <2> DEFINE raises == \/ Family[c] = "path" /\ inode[c] = 0
                       \/ Family[c] = "abstract" /\ Python3
  <2>1. instance[p] = s
    BY <1>5 DEF Ownership, s
  <2>2. Family[c] = "path" <=> c \in Paths
    BY <1>2 DEF Paths
  <2>3. raises => \/ Family[c] = "abstract" /\ Python3
                  \/ Family[c] = "path" /\ Shared(c)
    BY <1>2, <2>2 DEF Ownership
  <2>4. /\ inode' = IF c \in Paths THEN [inode EXCEPT ![c] = 0] ELSE inode
        /\ open' = [open EXCEPT ![p] = IF raises THEN @ ELSE @ \ {s}]
        /\ instance' = [instance EXCEPT ![p] = IF raises THEN @ ELSE 0]
    <3>1. c \in Paths /\ inode[c] = 0 => inode = [inode EXCEPT ![c] = 0]
      BY <1>1
    <3> QED BY <1>5, <2>2, <3>1 DEF Cleanup
  <2> HIDE DEF raises, c
  <2>5. /\ \A q \in Processes : open'[q] \subseteq open[q]
        /\ \A q \in Processes \ {p} :
             open'[q] = open[q] /\ instance'[q] = instance[q] /\ ran'[q] = ran[q]
        /\ open'[p] = IF raises THEN open[p] ELSE open[p] \ {s}
        /\ instance'[p] = IF raises THEN s ELSE 0
        /\ ran'[p] = ran[p] \cup {s}
    BY <1>1, <1>5, <2>1, <2>4
  <2>6. TypeOK'
    <3>1. /\ inode' \in [Paths -> {0} \cup DOMAIN bound]
          /\ open' \in [Processes -> SUBSET DOMAIN bound]
          /\ instance' \in [Processes -> {0} \cup DOMAIN bound]
          /\ ran' \in [Processes -> SUBSET DOMAIN bound]
          /\ \A a \in Paths : inode'[a] # 0 => inode'[a] = inode[a]
      BY <1>1, <1>2, <1>5, <2>4
    <3>2. \A q \in Processes : serves'[q] # 0 => serves'[q] \in open'[q]
      BY <1>1, <1>3, <2>5 DEF TypeOK
    <3> QED BY <1>1, <1>3, <3>1, <3>2 DEF TypeOK, Address
  <2>7. Ownership'
    <3>1. ASSUME NEW q \in Processes
          PROVE  /\ serves'[q] # 0 <=> proc'[q] \in {"run", "server_run"}
                 /\ proc'[q] = "run" => instance'[q] = serves'[q]
                 /\ proc'[q] = "gone" => open'[q] = {}
      BY <1>1, <1>3, <2>5 DEF Ownership
    <3>2. ASSUME NEW q \in Processes, NEW r \in Processes \ {q},
                 NEW t \in open'[q], t \in open'[r]
          PROVE  t \in shared
      BY <2>5, <3>2 DEF Ownership
    <3>3. ASSUME NEW q \in Processes, NEW t \in open'[q],
                 Address(t) \in Paths, ~Shared(Address(t))
          PROVE  inode'[Address(t)] = t
      <4>1. t \in open[q] /\ inode[Address(t)] = t
        BY <2>5, <3>3 DEF Ownership
      <4>2. Address(t) # c
        <5> SUFFICES ASSUME Address(t) = c PROVE FALSE
          OBVIOUS
        <5>1. inode[c] = s
          BY <1>2, <3>3 DEF Ownership, c
        <5>2. t = s /\ ~raises
          BY <1>2, <2>3, <3>3, <4>1, <5>1, <2>2 DEF raises
        <5>3. s \in shared
          BY <1>2, <2>5, <3>3, <4>1, <5>2 DEF Ownership
        <5> QED BY <3>3, <5>3 DEF Shared, c
      <4> QED BY <1>1, <2>4, <3>3, <4>1, <4>2
    <3>4. ASSUME NEW t PROVE /\ Address(t)' = Address(t)
                             /\ Shared(Address(t))' <=> Shared(Address(t))
      BY <1>3 DEF Address, Shared
    <3> QED BY <1>3, <3>1, <3>2, <3>3, <3>4 DEF Ownership
  <2>8. DefaultInstance'
    <3>1. ASSUME NEW q \in Processes
          PROVE  /\ instance'[q] # 0 => instance'[q] \in open'[q]
                 /\ \A t \in ran'[q] :
                      /\ t \in open'[q] <=> instance'[q] = t
                      /\ t \in open'[q] =>
                           \/ Family[Address(t)] = "abstract" /\ Python3
                           \/ Family[Address(t)] = "path" /\ Shared(Address(t))
      <4>1. CASE q # p
        BY <2>5, <4>1 DEF DefaultInstance
      <4>2. CASE q = p
        <5>1. /\ 0 \notin ran[p]
              /\ \A t \in ran[p] :
                   /\ t \in open[p] <=> t = s
                   /\ t \in open[p] =>
                        \/ Family[Address(t)] = "abstract" /\ Python3
                        \/ Family[Address(t)] = "path" /\ Shared(Address(t))
          BY <1>1, <2>1, SocketFacts DEF DefaultInstance
        <5>2. CASE raises
          BY <1>2, <2>3, <2>5, <4>2, <5>1, <5>2 DEF c
        <5>3. CASE ~raises
          BY <1>2, <2>5, <4>2, <5>1, <5>3
        <5> QED BY <5>2, <5>3
      <4> QED BY <4>1, <4>2
    <3> QED BY <1>3, <3>1 DEF DefaultInstance, Address, Shared
  <2> QED BY <2>6, <2>7, <2>8
<1> QED BY <1>4, <1>5 DEF Return, s

(* A process begins, is forked or ends.                                    *)
LEMMA ProcessSockets ==
  ASSUME TypeOK, Ownership, DefaultInstance, NEW p \in Processes,
         \/ Start(p)
         \/ End(p)
         \/ \E q \in Processes : Fork(p, q)
  PROVE  TypeOK' /\ Ownership' /\ DefaultInstance'
<1>1. /\ proc \in [Processes -> {"gone", "python", "run", "server_run"}]
      /\ serves \in [Processes -> {0} \cup DOMAIN bound]
      /\ instance \in [Processes -> {0} \cup DOMAIN bound]
      /\ open \in [Processes -> SUBSET DOMAIN bound]
      /\ ran \in [Processes -> SUBSET DOMAIN bound]
      /\ shared \subseteq DOMAIN bound
      /\ \A q \in Processes : serves[q] # 0 => serves[q] \in open[q]
  BY DEF TypeOK
<1>2. Paths' = Paths /\ UNCHANGED <<bound, inode>>
  BY DEF Paths, Start, End, Fork, kernel
<1>3. CASE Start(p)
  <2>1. UNCHANGED <<open, shared, died, serves, instance, ran>>
    BY <1>3 DEF Start, kernel
  <2>2. proc[p] = "gone" /\ proc' = [proc EXCEPT ![p] = "python"]
    BY <1>3 DEF Start
  <2> QED BY <1>1, <1>2, <2>1, <2>2
          DEF TypeOK, Ownership, DefaultInstance, Address, Shared
<1>4. CASE End(p)
  <2>1. /\ \A q \in Processes \ {p} :
             /\ proc'[q] = proc[q] /\ serves'[q] = serves[q]
             /\ open'[q] = open[q] /\ instance'[q] = instance[q]
             /\ ran'[q] = ran[q]
        /\ proc'[p] = "gone" /\ serves'[p] = 0 /\ open'[p] = {}
        /\ instance'[p] = 0 /\ ran'[p] = {}
        /\ shared' = shared
    BY <1>1, <1>4 DEF End
  <2>2. TypeOK'
    BY <1>1, <1>2, <1>4 DEF TypeOK, End, Address
  <2>3. Ownership'
    BY <1>2, <2>1 DEF Ownership, Address, Shared
  <2>4. DefaultInstance'
    BY <1>2, <2>1 DEF DefaultInstance, Address, Shared
  <2> QED BY <2>2, <2>3, <2>4
<1>5. ASSUME NEW q \in Processes, Fork(p, q)
      PROVE  TypeOK' /\ Ownership' /\ DefaultInstance'
  <2>1. /\ \A r \in Processes \ {q} :
             /\ proc'[r] = proc[r] /\ open'[r] = open[r]
             /\ instance'[r] = instance[r] /\ ran'[r] = ran[r]
        /\ proc'[q] = "python" /\ open'[q] = open[p]
        /\ instance'[q] = instance[p] /\ ran'[q] = ran[p]
        /\ serves' = serves /\ serves[q] = 0 /\ q # p
        /\ shared' = shared \cup open[p]
    BY <1>1, <1>5 DEF Fork, Ownership
  <2>2. TypeOK'
    <3>1. /\ proc' \in [Processes -> {"gone", "python", "run", "server_run"}]
          /\ instance' \in [Processes -> {0} \cup DOMAIN bound]
          /\ open' \in [Processes -> SUBSET DOMAIN bound]
          /\ ran' \in [Processes -> SUBSET DOMAIN bound]
          /\ shared' \subseteq DOMAIN bound
      BY <1>1, <1>5 DEF Fork
    <3>2. \A r \in Processes : serves[r] # 0 => serves[r] \in open'[r]
      BY <1>1, <2>1
    <3>3. /\ bound \in Seq([addr : Addresses, reuse : BOOLEAN])
          /\ Len(bound) <= MaxSockets
          /\ inode \in [Paths -> {0} \cup DOMAIN bound]
          /\ \A a \in Paths : inode[a] # 0 => Address(inode[a]) = a
          /\ died \subseteq DOMAIN bound /\ died' = died
      BY <1>5 DEF TypeOK, Fork
    <3> QED BY <1>1, <1>2, <2>1, <3>1, <3>2, <3>3 DEF TypeOK, Address
  <2>3. \A s : /\ Address(s)' = Address(s)
               /\ Shared(Address(s)) => Shared(Address(s))'
    BY <1>2, <2>1 DEF Address, Shared
  <2>4. Ownership'
    <3>1. ASSUME NEW r \in Processes
          PROVE  /\ serves'[r] # 0 <=> proc'[r] \in {"run", "server_run"}
                 /\ proc'[r] = "run" => instance'[r] = serves'[r]
                 /\ proc'[r] = "gone" => open'[r] = {}
      BY <2>1 DEF Ownership
    <3>2. ASSUME NEW r \in Processes, NEW s \in open'[r],
                 NEW t \in Processes \ {r}, s \in open'[t]
          PROVE  s \in shared'
      BY <2>1, <3>2 DEF Ownership
    <3>3. ASSUME NEW r \in Processes, NEW s \in open'[r],
                 Address(s) \in Paths, ~Shared(Address(s))'
          PROVE  inode[Address(s)] = s
      BY <2>1, <2>3, <3>3 DEF Ownership
    <3> QED BY <1>2, <2>3, <3>1, <3>2, <3>3 DEF Ownership
  <2>5. DefaultInstance'
    BY <2>1, <2>3 DEF DefaultInstance
  <2> QED BY <2>2, <2>4, <2>5
<1> QED BY <1>3, <1>4, <1>5

(* Only the path of a server that is no more is removed.                   *)
LEMMA RemoveSockets ==
  ASSUME TypeOK, Ownership, DefaultInstance, NEW a \in Paths, RemovePath(a)
  PROVE  TypeOK' /\ Ownership' /\ DefaultInstance'
<1>1. /\ UNCHANGED <<open, bound, shared, died, proc, serves, instance, ran>>
      /\ inode' = [inode EXCEPT ![a] = 0] /\ Paths' = Paths
      /\ inode[a] # 0 /\ inode[a] \notin Listens(a)
  BY DEF RemovePath, python, Paths
<1>2. inode \in [Paths -> {0} \cup DOMAIN bound]
  BY DEF TypeOK
<1>3. TypeOK'
  <2>1. /\ inode' \in [Paths -> {0} \cup DOMAIN bound]
        /\ \A c \in Paths : inode'[c] # 0 => inode'[c] = inode[c]
    BY <1>1, <1>2
  <2> QED BY <1>1, <2>1 DEF TypeOK, Address
<1>4. Ownership'
  <2>1. ASSUME NEW p \in Processes, NEW s \in open[p],
               Address(s) \in Paths, ~Shared(Address(s))
        PROVE  inode'[Address(s)] = s
    <3>1. inode[Address(s)] = s /\ s \in DOMAIN bound
      BY <2>1, SocketFacts DEF Ownership
    <3>2. Address(s) # a
      BY <1>1, <3>1 DEF Listens
    <3> QED BY <1>1, <1>2, <2>1, <3>1, <3>2
  <2> QED BY <1>1, <2>1 DEF Ownership, Address, Shared
<1>5. DefaultInstance'
  BY <1>1 DEF DefaultInstance, Address, Shared
<1> QED BY <1>3, <1>4, <1>5

-----------------------------------------------------------------------------
(* Paths that lead nowhere. *)

(* A path leads to a socket that is open, or that a process had when it    *)
(* ended.                                                                  *)
Held ==
  \A a \in Paths :
    inode[a] # 0 => inode[a] \in died \/ \E p \in Processes : inode[a] \in open[p]

LEMMA HeldPaths == TypeOK => (OnlyTheDeadLeavePaths <=> Held)
BY DEF TypeOK, OnlyTheDeadLeavePaths, Held, Listens

LEMMA StepHeld ==
  ASSUME LifecycleAssumption, TypeOK, Ownership, Held, [Next]_vars
  PROVE  Held'
<1>1. /\ open \in [Processes -> SUBSET DOMAIN bound]
      /\ inode \in [Paths -> {0} \cup DOMAIN bound]
      /\ \A a \in Paths : inode[a] # 0 => Address(inode[a]) = a
      /\ Paths' = Paths
  BY DEF TypeOK, Paths
<1>2. ASSUME NEW p \in Processes, NEW a \in Addresses, NEW reuse \in BOOLEAN,
             Bind(p, a, reuse) \/ Listen(p, a, reuse)
                               \/ RunWithArguments(p, a, reuse)
      PROVE  Held'
  <2> DEFINE n == Len(bound')
  <2>1. Adds(n, p, a)
    BY <1>2, BindFacts DEF Bind, Listen, RunWithArguments, listen
  <2> HIDE DEF n
  <2>2. /\ \A q \in Processes : open[q] \subseteq open'[q]
        /\ n \in open'[p]
        /\ \A c \in Paths : inode'[c] \in {inode[c], n}
    BY <1>1, <2>1 DEF Adds
  <2> QED BY <1>1, <2>1, <2>2 DEF Held, Adds
<1>3. ASSUME UNCHANGED kernel
      PROVE  Held'
  BY <1>1, <1>3 DEF Held, kernel
<1>4. ASSUME NEW p \in Processes, Return(p)
      PROVE  Held'
  <2> DEFINE s == serves[p]
  <2>1. CASE UNCHANGED <<open, inode>>
    BY <1>1, <1>4, <2>1 DEF Held, Return
  <2>2. CASE \E raises : Cleanup(p, s, Family[Address(s)] = "path"
                                         /\ inode[Address(s)] # 0, raises)
    <3>1. \A q \in Processes : open[q] \ {s} \subseteq open'[q]
      BY <1>1, <2>2 DEF Cleanup
    <3>2. ASSUME NEW c \in Paths, inode'[c] # 0
          PROVE  inode'[c] = inode[c] /\ inode[c] # s
      <4>1. inode'[c] = inode[c]
        BY <1>1, <2>2, <3>2 DEF Cleanup
      <4>2. ASSUME inode[c] = s PROVE FALSE
        <5>1. Address(s) = c /\ Family[c] = "path" /\ inode[c] # 0
          BY <1>1, <3>2, <4>1, <4>2 DEF Paths
        <5>2. inode' = [inode EXCEPT ![c] = 0]
          BY <2>2, <5>1 DEF Cleanup
        <5> QED BY <1>1, <3>2, <5>2
      <4> QED BY <4>1, <4>2
    <3>3. died' = died
      BY <1>4 DEF Return
    <3> QED BY <1>1, <3>1, <3>2, <3>3 DEF Held
  <2> QED BY <1>4, <2>1, <2>2 DEF Return
<1>5. ASSUME NEW p \in Processes, NEW q \in Processes, Fork(p, q)
      PROVE  Held'
  <2>1. \A r \in Processes : r # q => open'[r] = open[r]
    BY <1>1, <1>5 DEF Fork
  <2>2. open[q] = {}
    BY <1>5 DEF Fork, Ownership
  <2> QED BY <1>1, <1>5, <2>1, <2>2 DEF Held, Fork
<1>6. ASSUME NEW p \in Processes, End(p)
      PROVE  Held'
  <2>1. \A q \in Processes : q # p => open'[q] = open[q]
    BY <1>1, <1>6 DEF End
  <2>2. inode' = inode /\ died' = died \cup open[p]
    BY <1>6 DEF End
  <2> QED BY <1>1, <2>1, <2>2 DEF Held
<1>7. ASSUME NEW a \in Paths, RemovePath(a)
      PROVE  Held'
  <2>1. UNCHANGED <<open, died>> /\ \A c \in Paths : inode'[c] \in {0, inode[c]}
    BY <1>1, <1>7 DEF RemovePath
  <2> QED BY <1>1, <2>1 DEF Held
<1>8. CASE UNCHANGED vars
  BY <1>3, <1>8 DEF vars
<1>9. ASSUME NEW p \in Processes,
             Start(p) \/ Run(p) \/ \E s \in DOMAIN bound : ServerRun(p, s)
      PROVE  UNCHANGED kernel
  BY <1>9 DEF Start, Run, ServerRun
<1> QED BY <1>2, <1>3, <1>4, <1>5, <1>6, <1>7, <1>8, <1>9 DEF Next

-----------------------------------------------------------------------------
(* The theorems. *)

LEMMA StepLives ==
  ASSUME LifecycleAssumption, TypeOK, Ownership, DefaultInstance, [Next]_vars
  PROVE  TypeOK' /\ Ownership' /\ DefaultInstance'
<1>1. ASSUME NEW p \in Processes, NEW a \in Addresses, NEW reuse \in BOOLEAN,
             Bind(p, a, reuse) \/ Listen(p, a, reuse)
                               \/ RunWithArguments(p, a, reuse)
      PROVE  TypeOK' /\ Ownership' /\ DefaultInstance'
  <2>1. bind_and_listen(p, a, reuse) /\ proc[p] = "python" /\ ran' = ran
    BY <1>1 DEF Bind, Listen, RunWithArguments, listen, python
  <2> DEFINE n == Len(bound')
  <2>2. Adds(n, p, a)
    BY <2>1, BindFacts
  <2> HIDE DEF n
  <2>3. /\ \/ instance' = instance
           \/ instance[p] = 0 /\ instance' = [instance EXCEPT ![p] = n]
        /\ \/ UNCHANGED <<proc, serves>>
           \/ /\ proc' = [proc EXCEPT ![p] = "run"]
              /\ serves' = [serves EXCEPT ![p] = n]
              /\ instance' = [instance EXCEPT ![p] = n]
    <3>1. CASE Bind(p, a, reuse)
      BY <3>1 DEF Bind, python
    <3>2. CASE Listen(p, a, reuse)
      BY <3>2 DEF Listen, listen, n
    <3>3. CASE RunWithArguments(p, a, reuse)
      <4>1. instance[p] = 0 /\ instance' = [instance EXCEPT ![p] = n]
        BY <3>3 DEF RunWithArguments, listen, n
      <4>2. instance'[p] = n
        BY <4>1 DEF TypeOK
      <4> QED BY <3>3, <4>1, <4>2 DEF RunWithArguments, server_run
    <3> QED BY <1>1, <3>1, <3>2, <3>3
  <2>5. /\ proc \in [Processes -> {"gone", "python", "run", "server_run"}]
        /\ serves \in [Processes -> {0} \cup DOMAIN bound]
        /\ instance \in [Processes -> {0} \cup DOMAIN bound]
    BY DEF TypeOK
  <2>6. /\ proc' \in [Processes -> {"gone", "python", "run", "server_run"}]
        /\ serves' \in [Processes -> {0} \cup DOMAIN bound']
        /\ instance' \in [Processes -> {0} \cup DOMAIN bound']
        /\ \A q \in Processes : serves'[q] \in {0, serves[q], n}
        /\ \A q \in Processes \ {p} : serves'[q] # n
    <3>1. /\ DOMAIN bound' = DOMAIN bound \cup {n} /\ n \notin DOMAIN bound
          /\ n \in Nat \ {0}
      BY <2>2 DEF Adds
    <3>2. CASE UNCHANGED <<proc, serves>>
      BY <2>3, <2>5, <3>1, <3>2
    <3>3. CASE /\ proc' = [proc EXCEPT ![p] = "run"]
               /\ serves' = [serves EXCEPT ![p] = n]
               /\ instance' = [instance EXCEPT ![p] = n]
      BY <2>5, <3>1, <3>3
    <3> QED BY <2>3, <3>2, <3>3
  <2>7. TypeOK'
    BY <2>1, <2>6, BindType DEF n
  <2>8. Ownership'
    BY <2>1, <2>3, BindOwnership DEF n
  <2>9. DefaultInstance'
    BY <2>1, <2>3, BindInstance DEF n
  <2> QED BY <2>7, <2>8, <2>9
<1>2. ASSUME NEW p \in Processes,
             Run(p) \/ \E s \in DOMAIN bound : ServerRun(p, s)
      PROVE  TypeOK' /\ Ownership' /\ DefaultInstance'
  <2>1. PICK s \in DOMAIN bound, how \in {"run", "server_run"} :
          /\ server_run(p, s, how)
          /\ UNCHANGED <<kernel, instance, ran>>
          /\ how = "server_run" \/ (how = "run" /\ instance[p] = s)
    <3>1. CASE Run(p)
      <4>1. instance[p] \in DOMAIN bound
        BY <3>1 DEF Run, TypeOK
      <4> QED BY <3>1, <4>1 DEF Run
    <3>2. CASE \E s \in DOMAIN bound : ServerRun(p, s)
      BY <3>2 DEF ServerRun
    <3> QED BY <1>2, <3>1, <3>2
  <2>2. /\ s \in open[p]
        /\ proc' = [proc EXCEPT ![p] = how]
        /\ serves' = [serves EXCEPT ![p] = s]
    BY <2>1 DEF server_run, IsDescriptor, kernel
  <2> QED BY <2>1, <2>2, ServeSockets
<1>3. ASSUME NEW p \in Processes, Return(p)
      PROVE  TypeOK' /\ Ownership' /\ DefaultInstance'
  BY <1>3, ReturnSockets
<1>4. ASSUME NEW p \in Processes,
             Start(p) \/ End(p) \/ \E q \in Processes : Fork(p, q)
      PROVE  TypeOK' /\ Ownership' /\ DefaultInstance'
  BY <1>4, ProcessSockets
<1>5. ASSUME NEW a \in Paths, RemovePath(a)
      PROVE  TypeOK' /\ Ownership' /\ DefaultInstance'
  BY <1>5, RemoveSockets
<1>6. CASE UNCHANGED vars
  BY <1>6 DEF vars, kernel, python, TypeOK, Ownership, DefaultInstance, Address, Shared, Paths
<1> QED BY <1>1, <1>2, <1>3, <1>4, <1>5, <1>6 DEF Next

(* The inductive invariant, with the types that it needs.                  *)
LEMMA LivesCorrect == Spec => [](TypeOK /\ Lives)
<1> USE LifecycleAssumption
<1>1. Init => TypeOK /\ Lives
  <2> SUFFICES ASSUME Init PROVE TypeOK /\ Lives
    OBVIOUS
  <2>1. bound = <<>> /\ Len(bound) = 0 /\ DOMAIN bound = {} /\ bound \in Seq(Sockets)
    BY DEF Init
  <2>2. TypeOK
    BY <2>1 DEF Init, TypeOK, LifecycleAssumption, Sockets, Paths
  <2>3. Ownership /\ DefaultInstance /\ OnlyTheDeadLeavePaths
    BY DEF Init, Ownership, DefaultInstance, OnlyTheDeadLeavePaths
  <2> QED BY <2>2, <2>3 DEF Lives
<1>2. TypeOK /\ Lives /\ [Next]_vars => TypeOK' /\ Lives'
  <2> SUFFICES ASSUME TypeOK, Lives, [Next]_vars PROVE TypeOK' /\ Lives'
    OBVIOUS
  <2>1. TypeOK' /\ Ownership' /\ DefaultInstance'
    BY StepLives DEF Lives
  <2>2. Held'
    BY HeldPaths, StepHeld DEF Lives
  <2>3. TypeOK' => (OnlyTheDeadLeavePaths' <=> Held')
    BY HeldPaths, PTL
  <2> QED BY <2>1, <2>2, <2>3 DEF Lives
<1> QED BY <1>1, <1>2, PTL DEF Spec

(* A main loop only runs for a socket that is open in its process, and a   *)
(* path leads to a socket that was bound to it (server_run, server.c:78).  *)
THEOREM TypeCorrect == Spec => []TypeOK
BY LivesCorrect, PTL

(* bjoern.py:96-102: what run() leaves of _default_instance, after any     *)
(* number of calls, forks and deaths.                                      *)
THEOREM InstanceIsOpen == Spec => []DefaultInstance
<1>1. Lives => DefaultInstance
  BY DEF Lives
<1> QED BY <1>1, LivesCorrect, PTL

(* bjoern.py:100: nobody but a worker that shares it takes the path of a   *)
(* socket that is served away.                                             *)
THEOREM PathsAreServed == Spec => []PathIsServed
<1>1. TypeOK /\ Lives => PathIsServed
  BY DEF TypeOK, Lives, Ownership, PathIsServed
<1> QED BY <1>1, LivesCorrect, PTL

(* bjoern.py:96-102: run() leaves no path behind that nobody listens at,   *)
(* so whatever stops the next server there had a process that ended.       *)
THEOREM PathsAreRemoved == Spec => []OnlyTheDeadLeavePaths
<1>1. Lives => OnlyTheDeadLeavePaths
  BY DEF Lives
<1> QED BY <1>1, LivesCorrect, PTL

=============================================================================
