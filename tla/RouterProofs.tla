---------------------------- MODULE RouterProofs ----------------------------
(***************************************************************************)
(* The lock discipline of a router, for any number of routers, threads and *)
(* registrations: proofs of the types of Router and of RegistrationAlone,  *)
(* and that the maps under these locks implement RouteTable.               *)
(*                                                                         *)
(* The inductive invariant says of each thread which locks it holds where  *)
(* it is: the write lock inside a registration, a read lock in a dispatch  *)
(* and while it has routes of a mounted router still to copy.  A thread    *)
(* that mounts does not dispatch, so that the one never gives up the lock  *)
(* of the other.  With the locks held, what a session has yet to call is   *)
(* still in the maps (TableInv), and every step is one of the table or is  *)
(* not seen there.                                                         *)
(***************************************************************************)
EXTENDS Router, SequenceTheorems, FiniteSetTheorems, TLAPS

Asked == [router : Routers, request : Request]
Mounted == [router : Routers, prefix : Regex]

(* What insert has made for the emplace that follows. *)
Ready(j) ==
  IF j.method = NoMethod THEN IsPathMap(resource_map[j.router])
  ELSE IsMethodMap(method_map[j.router]) /\ j.method \in DOMAIN method_map[j.router]

AddInv(t) ==
  /\ adding[t] # "no" => job[t] \in Job
  /\ adding[t] \in {"insert", "emplace", "unlock"} => mutex[job[t].router].writer = t
  /\ adding[t] = "emplace" => Ready(job[t])
UseInv(t) ==
  /\ source[t] # nobody => target_router[t] \in Mounted /\ dispatching[t] = "no"
  /\ source[t] = nobody => todo[t] = {}
  /\ todo[t] # {} => t \in mutex[source[t]].readers
DispatchInv(t) ==
  /\ dispatching[t] # "no" => asked[t] \in Asked
  /\ dispatching[t] \in {"provide", "execute", "handler"} =>
       t \in mutex[asked[t].router].readers
ThreadInv(t) == AddInv(t) /\ UseInv(t) /\ DispatchInv(t)
LockInv(r) == mutex[r].writer # nobody => mutex[r].readers = {}

IInv ==
  /\ RouterTypeOK
  /\ \A t \in Threads : ThreadInv(t)
  /\ \A r \in Routers : LockInv(r)
-----------------------------------------------------------------------------
(* The lock. *)
MutexOK == mutex \in [Routers -> [writer : {nobody} \cup Threads, readers : SUBSET Threads]]

(* Who enters to write finds nobody in, and is the writer. *)
LEMMA EnterToWrite ==
  ASSUME MutexOK, NEW t \in Threads, NEW r \in Routers, enter_to_write(t, r)
  PROVE  /\ MutexOK' /\ mutex[r].writer = nobody /\ mutex[r].readers = {}
         /\ mutex'[r].writer = t /\ mutex'[r].readers = mutex[r].readers
         /\ \A q \in Routers : q # r => mutex'[q] = mutex[q]
BY DEF MutexOK, enter_to_write

(* Who enters to read finds no writer, and is one of the readers. *)
LEMMA EnterToRead ==
  ASSUME MutexOK, NEW t \in Threads, NEW r \in Routers, enter_to_read(t, r)
  PROVE  /\ MutexOK' /\ mutex[r].writer = nobody
         /\ mutex'[r].writer = mutex[r].writer /\ mutex'[r].readers = mutex[r].readers \cup {t}
         /\ \A q \in Routers : q # r => mutex'[q] = mutex[q]
BY DEF MutexOK, enter_to_read

(* Only the reader that leaves is gone. *)
LEMMA LeaveRead ==
  ASSUME MutexOK, NEW t \in Threads, NEW r \in Routers, leave_read(t, r)
  PROVE  /\ MutexOK'
         /\ mutex'[r].writer = mutex[r].writer /\ mutex'[r].readers = mutex[r].readers \ {t}
         /\ \A q \in Routers : q # r => mutex'[q] = mutex[q]
BY DEF MutexOK, leave_read

(* Nobody writes after the writer has left. *)
LEMMA LeaveWrite ==
  ASSUME MutexOK, NEW r \in Routers, leave_write(r)
  PROVE  /\ MutexOK'
         /\ mutex'[r].writer = nobody /\ mutex'[r].readers = mutex[r].readers
         /\ \A q \in Routers : q # r => mutex'[q] = mutex[q]
BY DEF MutexOK, leave_write

(* What a step must leave a thread that does not take it. *)
Holds(u) ==
  \A r \in Routers : /\ mutex[r].writer = u => mutex'[r].writer = u
                     /\ u \in mutex[r].readers => u \in mutex'[r].readers
Keeps(u) ==
  \A r \in Routers : mutex[r].writer = u =>
    resource_map'[r] = resource_map[r] /\ method_map'[r] = method_map[r]

(* A registration stands if its thread and its locks are left alone. *)
LEMMA AddAside ==
  ASSUME NEW u \in Threads, AddInv(u), Holds(u), Keeps(u),
         adding'[u] = adding[u], job'[u] = job[u]
  PROVE  AddInv(u)'
<1>1. adding[u] # "no" => job[u].router \in Routers
  BY DEF AddInv, Job
<1>2. adding[u] = "emplace" => Ready(job[u])'
  BY <1>1 DEF AddInv, Ready, Keeps
<1> QED  BY <1>1, <1>2 DEF AddInv, Holds

(* So does a mount. *)
LEMMA UseAside ==
  ASSUME RouterTypeOK, NEW u \in Threads, UseInv(u), Holds(u),
         source'[u] = source[u], target_router'[u] = target_router[u], todo'[u] = todo[u],
         source[u] # nobody => dispatching'[u] = dispatching[u]
  PROVE  UseInv(u)'
<1>1. source[u] # nobody => source[u] \in Routers
  BY DEF RouterTypeOK
<1> QED  BY <1>1 DEF UseInv, Holds

(* So does the dispatch of a request. *)
LEMMA DispatchAside ==
  ASSUME NEW u \in Threads, DispatchInv(u), Holds(u),
         dispatching'[u] = dispatching[u], asked'[u] = asked[u]
  PROVE  DispatchInv(u)'
<1>1. dispatching[u] # "no" => asked[u].router \in Routers
  BY DEF DispatchInv, Asked
<1> QED  BY <1>1 DEF DispatchInv, Holds
-----------------------------------------------------------------------------
(* The maps and the expressions they are filled with. *)
LEMMA PutPath ==
  ASSUME NEW f, IsPathMap(f), NEW p \in Regex, NEW v \in Nat
  PROVE  IsPathMap(Put(f, p, v))
BY DEF IsPathMap, Put

(* A map that was just made has no routes. *)
LEMMA EmptyMap == DOMAIN <<>> = {}
OBVIOUS

(* A map is one from expressions to storages after an emplace as well. *)
LEMMA EmplacedPath ==
  ASSUME NEW f, IsPathMap(f), NEW p \in Regex, NEW v \in Nat, NEW map \in Emplaced(f, p, v)
  PROVE  IsPathMap(map)
BY PutPath DEF Emplaced

(* The anchors are expressions. *)
LEMMA Anchors == <<"^">> \in Regex /\ <<"$">> \in Regex
BY DEF Regex

(* The pasted expressions are an expression. *)
LEMMA ConcatType ==
  ASSUME NEW r1 \in Regex, NEW r2 \in Regex
  PROVE  concat(r1, r2) \in Regex
<1> USE DEF Regex
<1> DEFINE body == SubSeq(r1, 1, Len(r1) - 1)
<1>1. ASSUME Anchored(r1) PROVE body \in Regex
  <2>1. Len(r1) \in Nat /\ Len(r1) # 0
    BY <1>1, EmptySeq DEF Anchored
  <2> QED  BY <2>1, SubSeqProperties
<1>2. ASSUME Anchored(r2) PROVE Tail(r2) \in Regex
  BY <1>2 DEF Anchored
<1>3. CASE Anchored(r1) /\ Anchored(r2)
  BY <1>1, <1>2, <1>3 DEF concat
<1>4. CASE Anchored(r1) /\ ~Anchored(r2)
  <2>1. concat(r1, r2) = (body \o r2) \o <<"$">>
    BY Zenon, <1>4 DEF concat
  <2>2. <<"$">> \in Regex /\ body \o r2 \in Regex
    BY <1>1, <1>4, Anchors, ConcatProperties
  <2> QED  BY <2>1, <2>2, ConcatProperties
<1>5. CASE ~Anchored(r1) /\ Anchored(r2)
  <2>1. concat(r1, r2) = (<<"^">> \o r1) \o Tail(r2)
    BY Zenon, <1>5 DEF concat
  <2>2. <<"^">> \o r1 \in Regex
    BY Anchors, ConcatProperties
  <2> QED  BY <1>2, <1>5, <2>1, <2>2, ConcatProperties
<1>6. CASE ~Anchored(r1) /\ ~Anchored(r2)
  <2>1. concat(r1, r2) = r1 \o r2
    BY Zenon, <1>6 DEF concat
  <2> QED  BY <2>1
<1> QED  BY <1>3, <1>4, <1>5, <1>6

(* What a request is matched against are entries of the maps. *)
LEMMA Entries ==
  ASSUME RouterTypeOK, NEW r \in Routers, NEW k \in keys_of(r)
  PROVE  /\ k \in Keys /\ storage_of(r, k) \in Nat
         /\ [method |-> k[1], path |-> k[2], storage |-> storage_of(r, k)] \in Entry
<1>1. CASE resource_map[r] # nullptr /\ k \in {NoMethod} \X DOMAIN resource_map[r]
  <2>1. IsPathMap(resource_map[r])
    BY <1>1 DEF RouterTypeOK
  <2>2. k[1] = NoMethod /\ k[2] \in DOMAIN resource_map[r] /\ k = <<k[1], k[2]>>
    BY <1>1
  <2> QED  BY <2>1, <2>2 DEF IsPathMap, Keys, Entry, storage_of
<1>2. CASE /\ method_map[r] # nullptr
           /\ k \in UNION {{m} \X DOMAIN method_map[r][m] : m \in DOMAIN method_map[r]}
  <2>1. PICK m \in DOMAIN method_map[r] : k \in {m} \X DOMAIN method_map[r][m]
    BY <1>2
  <2>2. IsPathMap(method_map[r][m]) /\ m \in Methods
    BY <1>2, <2>1 DEF RouterTypeOK, IsMethodMap
  <2>3. k[1] = m /\ k[2] \in DOMAIN method_map[r][m] /\ k = <<k[1], k[2]>>
    BY <2>1
  <2> QED  BY <2>2, <2>3, NullAssumption DEF IsPathMap, Keys, Entry, storage_of
<1> QED  BY <1>1, <1>2 DEF keys_of
-----------------------------------------------------------------------------
(* What a step must leave a thread for all it has in progress to stand. *)
LEMMA Others ==
  ASSUME IInv, NEW u \in Threads, Holds(u), Keeps(u),
         adding'[u] = adding[u], job'[u] = job[u],
         source'[u] = source[u], target_router'[u] = target_router[u], todo'[u] = todo[u],
         dispatching'[u] = dispatching[u], asked'[u] = asked[u]
  PROVE  ThreadInv(u)'
BY AddAside, UseAside, DispatchAside DEF IInv, ThreadInv

(* A step that leaves the maps and the locks alone. *)
LEMMA Quiet ==
  ASSUME IInv, UNCHANGED <<map_vars, mutex>>
  PROVE  /\ \A u \in Threads : Holds(u) /\ Keeps(u)
         /\ \A r \in Routers : LockInv(r)'
BY DEF IInv, Holds, Keeps, LockInv, map_vars

(* The beginning of a registration. *)
LEMMA AddBegins ==
  ASSUME IInv, NEW t \in Threads, NEW j \in Job,
         add_resource_cb(t, j.router, j.method, j.path, j.storage, j.meant)
  PROVE  /\ adding' \in [Threads -> {"no", "lock", "insert", "emplace", "unlock"}]
         /\ job' \in [Threads -> {nobody} \cup Job]
         /\ AddInv(t)'
         /\ \A u \in Threads : u # t => adding'[u] = adding[u] /\ job'[u] = job[u]
<1>1. adding' = [adding EXCEPT ![t] = "lock"] /\ job' = [job EXCEPT ![t] = j]
  BY DEF add_resource_cb, Job
<1>2. /\ adding \in [Threads -> {"no", "lock", "insert", "emplace", "unlock"}]
      /\ job \in [Threads -> {nobody} \cup Job]
  BY DEF IInv, RouterTypeOK
<1> QED  BY <1>1, <1>2 DEF AddInv

(* The number of the storage a registration builds. *)
LEMMA BuildType ==
  ASSUME IInv, build
  PROVE  built + 1 \in Nat /\ built' \in 0 .. MaxRegistrations
BY BoundAssumption DEF IInv, RouterTypeOK, build

(* A verb of a basic_router begins a registration. *)
LEMMA IInvVerb ==
  ASSUME IInv, NEW t \in Threads, NEW r \in Routers, NEW m \in Methods \cup {NoMethod},
         NEW path \in Paths, verb(t, r, m, path)
  PROVE  IInv'
<1> DEFINE j == [router |-> r, method |-> m, path |-> path, storage |-> built + 1,
                 meant |-> TargetsOf(path)]
<1>1. j \in Job
  BY PathsAssumption, BuildType DEF Job, TargetsOf, verb
<1>2. /\ add_resource_cb(t, j.router, j.method, j.path, j.storage, j.meant)
      /\ UNCHANGED <<map_vars, chain_vars, mutex, use_vars, dispatch_vars>>
  BY DEF verb
<1> HIDE DEF j
<1>3. RouterTypeOK'
  BY <1>1, <1>2, AddBegins, BuildType
     DEF verb, IInv, RouterTypeOK, map_vars, chain_vars, use_vars, dispatch_vars
<1>4. ThreadInv(t)'
  BY <1>1, <1>2, AddBegins DEF IInv, ThreadInv, UseInv, DispatchInv, use_vars, dispatch_vars
<1>5. ASSUME NEW u \in Threads, u # t PROVE ThreadInv(u)'
  BY <1>1, <1>2, <1>5, AddBegins, Quiet, Others DEF use_vars, dispatch_vars
<1>6. ASSUME NEW q \in Routers PROVE LockInv(q)'
  BY <1>2, Quiet
<1> QED  BY <1>3, <1>4, <1>5, <1>6 DEF IInv

(* route() only notes the path. *)
LEMMA IInvRoute ==
  ASSUME IInv, NEW t \in Threads, NEW r \in Routers, NEW path \in Paths, route(t, r, path)
  PROVE  IInv'
<1>1. /\ tmp_res_regex' = [tmp_res_regex EXCEPT ![r] = path]
      /\ node' = [node EXCEPT ![t] = [router |-> r, path |-> path]]
      /\ UNCHANGED <<map_vars, mutex, add_vars, use_vars, dispatch_vars>>
  BY DEF route
<1>2. RouterTypeOK'
  BY <1>1 DEF IInv, RouterTypeOK, map_vars, add_vars, use_vars, dispatch_vars
<1>3. ASSUME NEW u \in Threads PROVE ThreadInv(u)'
  BY <1>1, Quiet, Others DEF add_vars, use_vars, dispatch_vars
<1>4. ASSUME NEW q \in Routers PROVE LockInv(q)'
  BY <1>1, Quiet
<1> QED  BY <1>2, <1>3, <1>4 DEF IInv

(* What a chain node registers. *)
LEMMA ChainedJob ==
  ASSUME IInv, NEW t \in Threads, NEW m \in Methods \cup {NoMethod}, chain_verb(t, m)
  PROVE  [router |-> node[t].router, method |-> m, path |-> tmp_res_regex[node[t].router],
          storage |-> built + 1, meant |-> TargetsOf(node[t].path)] \in Job
<1> DEFINE r == node[t].router
<1>1. r \in Routers
  BY DEF IInv, RouterTypeOK, chain_verb
<1>2. tmp_res_regex[r] \in Regex
  <2>1. <<>> \in Regex
    BY DEF Regex
  <2>2. tmp_res_regex[r] \in {<<>>} \cup Paths
    BY <1>1 DEF IInv, RouterTypeOK
  <2> QED  BY Zenon, <2>1, <2>2, PathsAssumption
<1>3. built + 1 \in Nat
  BY BuildType DEF chain_verb
<1>4. TargetsOf(node[t].path) \in SUBSET Targets
  BY DEF TargetsOf
<1> QED  BY <1>1, <1>2, <1>3, <1>4 DEF Job

(* A verb of a chain node begins a registration. *)
LEMMA IInvChainVerb ==
  ASSUME IInv, NEW t \in Threads, NEW m \in Methods \cup {NoMethod}, chain_verb(t, m)
  PROVE  IInv'
<1> DEFINE r == node[t].router
           j == [router |-> r, method |-> m, path |-> tmp_res_regex[r], storage |-> built + 1,
                 meant |-> TargetsOf(node[t].path)]
<1>1. j \in Job
  BY ChainedJob
<1>2. /\ add_resource_cb(t, j.router, j.method, j.path, j.storage, j.meant)
      /\ UNCHANGED <<map_vars, chain_vars, mutex, use_vars, dispatch_vars>>
  BY DEF chain_verb
<1> HIDE DEF j
<1>3. RouterTypeOK'
  BY <1>1, <1>2, AddBegins, BuildType
     DEF chain_verb, IInv, RouterTypeOK, map_vars, chain_vars, use_vars, dispatch_vars
<1>4. ThreadInv(t)'
  BY <1>1, <1>2, AddBegins DEF IInv, ThreadInv, UseInv, DispatchInv, use_vars, dispatch_vars
<1>5. ASSUME NEW u \in Threads, u # t PROVE ThreadInv(u)'
  BY <1>1, <1>2, <1>5, AddBegins, Quiet, Others DEF use_vars, dispatch_vars
<1>6. ASSUME NEW q \in Routers PROVE LockInv(q)'
  BY <1>2, Quiet
<1> QED  BY <1>3, <1>4, <1>5, <1>6 DEF IInv
-----------------------------------------------------------------------------
(* add_resource_cb. *)
LEMMA IInvAddLock ==
  ASSUME IInv, NEW t \in Threads, add_lock(t)
  PROVE  IInv'
<1> DEFINE r == job[t].router
<1>1. /\ adding[t] = "lock" /\ adding' = [adding EXCEPT ![t] = "insert"]
      /\ UNCHANGED <<map_vars, chain_vars, job, built, use_vars, dispatch_vars>>
  BY DEF add_lock
<1>2. job[t] \in Job /\ r \in Routers /\ MutexOK
  BY <1>1 DEF IInv, RouterTypeOK, MutexOK, ThreadInv, AddInv, Job
<1>3. /\ MutexOK' /\ mutex[r].writer = nobody /\ mutex[r].readers = {}
      /\ mutex'[r].writer = t /\ mutex'[r].readers = mutex[r].readers
      /\ \A q \in Routers : q # r => mutex'[q] = mutex[q]
  BY <1>2, EnterToWrite DEF add_lock
<1> HIDE DEF r
<1>4. RouterTypeOK'
  BY <1>1, <1>3 DEF IInv, RouterTypeOK, MutexOK, map_vars, chain_vars, use_vars, dispatch_vars
<1>5. ASSUME NEW u \in Threads PROVE Holds(u) /\ Keeps(u)
  BY <1>1, <1>3, NullAssumption DEF Holds, Keeps, map_vars
<1>6. ThreadInv(t)'
  <2>1. UseInv(t)' /\ DispatchInv(t)'
    BY <1>1, <1>5, UseAside, DispatchAside DEF IInv, ThreadInv, use_vars, dispatch_vars
  <2>2. adding'[t] = "insert" /\ job'[t] = job[t]
    BY <1>1 DEF IInv, RouterTypeOK
  <2> QED  BY <1>2, <1>3, <2>1, <2>2 DEF ThreadInv, AddInv, r
<1>7. ASSUME NEW u \in Threads, u # t PROVE ThreadInv(u)'
  BY <1>1, <1>5, <1>7, Others DEF IInv, RouterTypeOK, use_vars, dispatch_vars
<1>8. ASSUME NEW q \in Routers PROVE LockInv(q)'
  BY <1>3 DEF IInv, LockInv
<1> QED  BY <1>4, <1>6, <1>7, <1>8 DEF IInv

(* The steps inside a registration that change the maps. *)
LEMMA IInvFilled ==
  ASSUME IInv, NEW t \in Threads, NEW at \in {"emplace", "unlock"},
         adding[t] \in {"insert", "emplace"}, adding' = [adding EXCEPT ![t] = at],
         UNCHANGED <<chain_vars, mutex, job, built, use_vars, dispatch_vars>>,
         DOMAIN resource_map' = Routers, DOMAIN method_map' = Routers,
         \A r \in Routers : /\ resource_map'[r] = nullptr \/ IsPathMap(resource_map'[r])
                            /\ method_map'[r] = nullptr \/ IsMethodMap(method_map'[r]),
         \A r \in Routers : r # job[t].router =>
           resource_map'[r] = resource_map[r] /\ method_map'[r] = method_map[r],
         at = "emplace" => Ready(job[t])'
  PROVE  IInv'
<1>1. RouterTypeOK'
  BY DEF IInv, RouterTypeOK, chain_vars, use_vars, dispatch_vars
<1>2. \A u \in Threads : Holds(u)
  BY DEF Holds
<1>0. ASSUME NEW u \in Threads, u # t PROVE Keeps(u)
  BY <1>0 DEF Keeps, IInv, ThreadInv, AddInv
<1>3. ThreadInv(t)'
  <2>1. UseInv(t)' /\ DispatchInv(t)'
    BY <1>2, UseAside, DispatchAside DEF IInv, ThreadInv, use_vars, dispatch_vars
  <2>2. adding'[t] = at /\ job'[t] = job[t]
    BY DEF IInv, RouterTypeOK
  <2>3. AddInv(t)'
    BY <2>2 DEF IInv, ThreadInv, AddInv
  <2> QED  BY <2>1, <2>3 DEF ThreadInv
<1>4. ASSUME NEW u \in Threads, u # t PROVE ThreadInv(u)'
  BY <1>0, <1>2, <1>4, Others DEF IInv, RouterTypeOK, use_vars, dispatch_vars
<1>5. ASSUME NEW q \in Routers PROVE LockInv(q)'
  BY DEF IInv, LockInv
<1> QED  BY <1>1, <1>3, <1>4, <1>5 DEF IInv

(* operator[] on the maps: they are made, the method gets its map. *)
LEMMA IInvInsert ==
  ASSUME IInv, NEW t \in Threads, add_insert(t)
  PROVE  IInv'
<1> DEFINE r == job[t].router
           m == job[t].method
           methods == IF method_map[r] = nullptr THEN <<>> ELSE method_map[r]
<1>1. /\ adding[t] = "insert" /\ adding' = [adding EXCEPT ![t] = "emplace"]
      /\ UNCHANGED <<chain_vars, mutex, job, built, use_vars, dispatch_vars>>
  BY DEF add_insert
<1>2. r \in Routers /\ m \in Methods \cup {NoMethod}
  BY <1>1 DEF IInv, ThreadInv, AddInv, Job
<1>3. /\ DOMAIN resource_map = Routers /\ DOMAIN method_map = Routers
      /\ \A q \in Routers : /\ resource_map[q] = nullptr \/ IsPathMap(resource_map[q])
                            /\ method_map[q] = nullptr \/ IsMethodMap(method_map[q])
  BY DEF IInv, RouterTypeOK
<1>4. CASE m = NoMethod
  <2> DEFINE map == IF resource_map[r] = nullptr THEN <<>> ELSE resource_map[r]
  <2>1. resource_map' = [resource_map EXCEPT ![r] = map] /\ method_map' = method_map
    BY <1>4 DEF add_insert
  <2>2. IsPathMap(map)
    <3>1. IsPathMap(<<>>)
      BY EmptyMap DEF IsPathMap
    <3> QED  BY <1>2, <1>3, <3>1
  <2> HIDE DEF map
  <2>3. Ready(job[t])'
    BY <1>1, <1>2, <1>3, <1>4, <2>1, <2>2 DEF Ready
  <2>4. \A q \in Routers : resource_map'[q] = IF q = r THEN map ELSE resource_map[q]
    BY <1>2, <1>3, <2>1
  <2> QED  BY <1>1, <1>2, <1>3, <2>1, <2>2, <2>3, <2>4, IInvFilled
<1>5. CASE m # NoMethod
  <2> DEFINE map == IF m \in DOMAIN methods THEN methods ELSE Put(methods, m, <<>>)
  <2>1. method_map' = [method_map EXCEPT ![r] = map] /\ resource_map' = resource_map
    BY <1>5 DEF add_insert
  <2>2. /\ IsMethodMap(map)
        /\ m \in DOMAIN map /\ DOMAIN methods \subseteq DOMAIN map
    <3>1. IsMethodMap(methods)
      <4>1. IsMethodMap(<<>>)
        BY EmptyMap DEF IsMethodMap
      <4> QED  BY <1>2, <1>3, <4>1
    <3>2. IsPathMap(<<>>)
      BY EmptyMap DEF IsPathMap
    <3>3. /\ IsMethodMap(Put(methods, m, <<>>))
          /\ DOMAIN Put(methods, m, <<>>) = DOMAIN methods \cup {m}
      BY <1>2, <1>5, <3>1, <3>2 DEF IsMethodMap, Put
    <3> QED  BY <3>1, <3>3
  <2> HIDE DEF map, methods
  <2>4. \A q \in Routers : method_map'[q] = IF q = r THEN map ELSE method_map[q]
    BY <1>2, <1>3, <2>1
  <2>5. Ready(job[t])'
    BY <1>1, <1>2, <1>5, <2>2, <2>4 DEF Ready
  <2> QED  BY <1>1, <1>2, <1>3, <2>1, <2>2, <2>4, <2>5, IInvFilled
<1> QED  BY <1>4, <1>5

(* emplace, and the assignment when it inserts nothing. *)
LEMMA IInvEmplace ==
  ASSUME IInv, NEW t \in Threads, add_emplace(t)
  PROVE  IInv'
<1> DEFINE r == job[t].router
           m == job[t].method
<1>1. /\ adding[t] = "emplace" /\ adding' = [adding EXCEPT ![t] = "unlock"]
      /\ UNCHANGED <<chain_vars, mutex, job, built, use_vars, dispatch_vars>>
  BY DEF add_emplace
<1>2. /\ r \in Routers /\ m \in Methods \cup {NoMethod} /\ job[t].path \in Regex
      /\ job[t].storage \in Nat /\ Ready(job[t])
  BY <1>1 DEF IInv, ThreadInv, AddInv, Job
<1>3. /\ DOMAIN resource_map = Routers /\ DOMAIN method_map = Routers
      /\ \A q \in Routers : /\ resource_map[q] = nullptr \/ IsPathMap(resource_map[q])
                            /\ method_map[q] = nullptr \/ IsMethodMap(method_map[q])
  BY DEF IInv, RouterTypeOK
<1>4. CASE m = NoMethod
  <2>1. PICK map \in Emplaced(resource_map[r], job[t].path, job[t].storage) :
          resource_map' = [resource_map EXCEPT ![r] = map]
    BY <1>4 DEF add_emplace
  <2>2. IsPathMap(map)
    BY <1>2, <1>3, <1>4, EmplacedPath DEF Ready
  <2>4. method_map' = method_map
    BY <1>4 DEF add_emplace
  <2>5. \A q \in Routers : resource_map'[q] = IF q = r THEN map ELSE resource_map[q]
    BY <1>2, <1>3, <2>1
  <2> QED  BY <1>1, <1>3, <2>1, <2>2, <2>4, <2>5, IInvFilled
<1>5. CASE m # NoMethod
  <2>1. PICK map \in Emplaced(method_map[r][m], job[t].path, job[t].storage) :
          method_map' = [method_map EXCEPT ![r][m] = map]
    BY <1>5 DEF add_emplace
  <2>2. IsMethodMap(method_map[r]) /\ m \in DOMAIN method_map[r]
    BY <1>2, <1>3, <1>5 DEF Ready
  <2>3. IsPathMap(map)
    BY <1>2, <2>2, EmplacedPath DEF IsMethodMap
  <2>4. resource_map' = resource_map
    BY <1>5 DEF add_emplace
  <2> DEFINE maps == [method_map[r] EXCEPT ![m] = map]
  <2>5. \A q \in Routers : method_map'[q] = IF q = r THEN maps ELSE method_map[q]
    BY <1>2, <1>3, <2>1
  <2>6. IsMethodMap(maps) /\ DOMAIN maps = DOMAIN method_map[r]
    BY <2>2, <2>3 DEF IsMethodMap
  <2>7. DOMAIN method_map' = Routers
    BY <1>3, <2>1
  <2> HIDE DEF maps
  <2> QED  BY <1>1, <1>3, <2>4, <2>5, <2>6, <2>7, IInvFilled
<1> QED  BY <1>4, <1>5

(* The write lock is given up. *)
LEMMA IInvAddReturn ==
  ASSUME IInv, NEW t \in Threads, add_return(t)
  PROVE  IInv'
<1> DEFINE r == job[t].router
<1>1. /\ adding[t] = "unlock" /\ adding' = [adding EXCEPT ![t] = "no"]
      /\ job' = [job EXCEPT ![t] = nobody]
      /\ UNCHANGED <<map_vars, chain_vars, built, use_vars, dispatch_vars>>
  BY DEF add_return
<1>2. r \in Routers /\ mutex[r].writer = t /\ MutexOK
  BY <1>1 DEF IInv, RouterTypeOK, MutexOK, ThreadInv, AddInv, Job
<1>3. /\ MutexOK' /\ mutex'[r].writer = nobody /\ mutex'[r].readers = mutex[r].readers
      /\ \A q \in Routers : q # r => mutex'[q] = mutex[q]
  BY <1>2, LeaveWrite DEF add_return
<1> HIDE DEF r
<1>4. RouterTypeOK'
  BY <1>1, <1>3 DEF IInv, RouterTypeOK, MutexOK, map_vars, chain_vars, use_vars, dispatch_vars
<1>6. ASSUME NEW u \in Threads, u # t PROVE Holds(u) /\ Keeps(u)
  BY <1>1, <1>2, <1>3, <1>6 DEF Holds, Keeps, map_vars
<1>7. ThreadInv(t)'
  <2>1. AddInv(t)'
    BY <1>1 DEF IInv, RouterTypeOK, AddInv
  <2>2. \A q \in Routers : t \in mutex[q].readers => t \in mutex'[q].readers
    BY <1>3
  <2>3. /\ source[t] # nobody => source[t] \in Routers
        /\ dispatching[t] # "no" => asked[t].router \in Routers
    BY DEF IInv, RouterTypeOK, ThreadInv, DispatchInv, Asked
  <2>4. UseInv(t)' /\ DispatchInv(t)'
    BY <1>1, <2>2, <2>3 DEF IInv, ThreadInv, UseInv, DispatchInv, use_vars, dispatch_vars
  <2> QED  BY <2>1, <2>4 DEF ThreadInv
<1>8. ASSUME NEW u \in Threads, u # t PROVE ThreadInv(u)'
  BY <1>1, <1>6, <1>8, Others DEF IInv, RouterTypeOK, use_vars, dispatch_vars
<1>9. ASSUME NEW q \in Routers PROVE LockInv(q)'
  BY <1>3 DEF IInv, LockInv
<1> QED  BY <1>4, <1>7, <1>8, <1>9 DEF IInv
-----------------------------------------------------------------------------
(* use. *)
LEMMA IInvUseCall ==
  ASSUME IInv, NEW t \in Threads, NEW mount \in Mounts, use_call(t, mount)
  PROVE  IInv'
<1>1. /\ source' = [source EXCEPT ![t] = mount[3]]
      /\ target_router' = [target_router EXCEPT
                             ![t] = [router |-> mount[1], prefix |-> mount[2]]]
      /\ UNCHANGED <<map_vars, chain_vars, mutex, add_vars, todo, dispatch_vars>>
      /\ source[t] = nobody /\ dispatching[t] = "no"
  BY DEF use_call, Registering
<1>2. mount[1] \in Routers /\ mount[2] \in Regex /\ mount[3] \in Routers
  BY MountsAssumption
<1>3. RouterTypeOK'
  BY <1>1, <1>2 DEF IInv, RouterTypeOK, map_vars, chain_vars, add_vars, dispatch_vars
<1>4. ThreadInv(t)'
  <2>1. AddInv(t)' /\ DispatchInv(t)'
    BY <1>1, Quiet, AddAside, DispatchAside DEF IInv, ThreadInv, add_vars, dispatch_vars
  <2>2. /\ source'[t] = mount[3] /\ todo'[t] = todo[t] /\ dispatching'[t] = "no"
        /\ target_router'[t] = [router |-> mount[1], prefix |-> mount[2]]
    BY <1>1 DEF IInv, RouterTypeOK, dispatch_vars
  <2>3. todo[t] = {}
    BY <1>1 DEF IInv, ThreadInv, UseInv
  <2>4. target_router'[t] \in Mounted /\ mount[3] # nobody
    BY <1>2, <2>2, NullAssumption DEF Mounted
  <2> QED  BY <2>1, <2>2, <2>3, <2>4 DEF ThreadInv, UseInv
<1>5. ASSUME NEW u \in Threads, u # t PROVE ThreadInv(u)'
  BY <1>1, <1>5, Quiet, Others DEF IInv, RouterTypeOK, add_vars, dispatch_vars
<1>6. ASSUME NEW q \in Routers PROVE LockInv(q)'
  BY <1>1, Quiet
<1> QED  BY <1>3, <1>4, <1>5, <1>6 DEF IInv

(* A thread that takes a read lock takes nothing from the others. *)
LEMMA ReadLocks ==
  ASSUME IInv, NEW t \in Threads, NEW r \in Routers, enter_to_read(t, r), UNCHANGED map_vars
  PROVE  /\ MutexOK' /\ t \in mutex'[r].readers
         /\ \A u \in Threads : Holds(u) /\ Keeps(u)
         /\ \A q \in Routers : LockInv(q)'
<1>1. MutexOK
  BY DEF IInv, RouterTypeOK, MutexOK
<1>2. /\ MutexOK' /\ mutex[r].writer = nobody
      /\ mutex'[r].writer = mutex[r].writer /\ mutex'[r].readers = mutex[r].readers \cup {t}
      /\ \A q \in Routers : q # r => mutex'[q] = mutex[q]
  BY <1>1, EnterToRead
<1>3. \A u \in Threads : Holds(u) /\ Keeps(u)
  BY <1>2 DEF Holds, Keeps, map_vars
<1>4. \A q \in Routers : LockInv(q)'
  BY <1>2 DEF IInv, LockInv
<1> QED  BY <1>2, <1>3, <1>4

(* One that gives one up keeps the others from nothing. *)
LEMMA ReadUnlocks ==
  ASSUME IInv, NEW t \in Threads, NEW r \in Routers, leave_read(t, r), UNCHANGED map_vars
  PROVE  /\ MutexOK'
         /\ \A u \in Threads : Keeps(u) /\ (u # t => Holds(u))
         /\ \A q \in Routers : mutex[q].writer = t => mutex'[q].writer = t
         /\ \A q \in Routers : LockInv(q)'
<1>1. MutexOK
  BY DEF IInv, RouterTypeOK, MutexOK
<1>2. /\ MutexOK'
      /\ mutex'[r].writer = mutex[r].writer /\ mutex'[r].readers = mutex[r].readers \ {t}
      /\ \A q \in Routers : q # r => mutex'[q] = mutex[q]
  BY <1>1, LeaveRead
<1>3. \A u \in Threads : Keeps(u) /\ (u # t => Holds(u))
  BY <1>2 DEF Holds, Keeps, map_vars
<1>4. \A q \in Routers : LockInv(q)'
  BY <1>2 DEF IInv, LockInv
<1> QED  BY <1>2, <1>3, <1>4

(* The mounted router is locked for reading. *)
LEMMA IInvUseLock ==
  ASSUME IInv, NEW t \in Threads, use_lock(t)
  PROVE  IInv'
<1> DEFINE entries == {[method |-> k[1], path |-> k[2], storage |-> storage_of(source[t], k)] :
                         k \in keys_of(source[t])}
<1>1. /\ source[t] # nobody /\ enter_to_read(t, source[t])
      /\ todo' = [todo EXCEPT ![t] = entries]
      /\ UNCHANGED <<map_vars, chain_vars, add_vars, source, target_router, dispatch_vars>>
  BY DEF use_lock
<1>2. source[t] \in Routers
  BY <1>1 DEF IInv, RouterTypeOK
<1>3. /\ MutexOK' /\ t \in mutex'[source[t]].readers
      /\ \A u \in Threads : Holds(u) /\ Keeps(u)
      /\ \A q \in Routers : LockInv(q)'
  BY <1>1, <1>2, ReadLocks
<1>4. entries \in SUBSET Entry
  BY <1>2, Entries DEF IInv
<1> HIDE DEF entries
<1>5. RouterTypeOK'
  BY <1>1, <1>3, <1>4
     DEF IInv, RouterTypeOK, MutexOK, map_vars, chain_vars, add_vars, dispatch_vars
<1>6. ThreadInv(t)'
  <2>1. AddInv(t)' /\ DispatchInv(t)'
    BY <1>1, <1>3, AddAside, DispatchAside DEF IInv, ThreadInv, add_vars, dispatch_vars
  <2> QED  BY <1>1, <1>3, <2>1 DEF IInv, ThreadInv, UseInv, dispatch_vars
<1>7. ASSUME NEW u \in Threads, u # t PROVE ThreadInv(u)'
  BY <1>1, <1>3, <1>7, Others DEF IInv, RouterTypeOK, add_vars, dispatch_vars
<1> QED  BY <1>3, <1>5, <1>6, <1>7 DEF IInv

(* What a mount registers for one of the routes. *)
LEMMA MountedJob ==
  ASSUME IInv, NEW t \in Threads, NEW e \in todo[t], use_next(t, e)
  PROVE  [router |-> target_router[t].router, method |-> e.method,
          path |-> concat(target_router[t].prefix, e.path), storage |-> e.storage,
          meant |-> MountedTargets(target_router[t].prefix, e.path)] \in Job
<1>1. e \in Entry /\ target_router[t] \in Mounted
  BY DEF IInv, RouterTypeOK, ThreadInv, UseInv, Mounted, use_next, Mounting
<1> QED  BY <1>1, ConcatType DEF Entry, Mounted, Job, MountedTargets

(* Each of its routes begins a registration under that lock. *)
LEMMA IInvUseNext ==
  ASSUME IInv, NEW t \in Threads, NEW e \in todo[t], use_next(t, e)
  PROVE  IInv'
<1> DEFINE at == target_router[t]
           j == [router |-> at.router, method |-> e.method, path |-> concat(at.prefix, e.path),
                 storage |-> e.storage, meant |-> MountedTargets(at.prefix, e.path)]
<1>2. j \in Job
  BY MountedJob
<1>3. /\ add_resource_cb(t, j.router, j.method, j.path, j.storage, j.meant)
      /\ todo' = [todo EXCEPT ![t] = @ \ {e}]
      /\ UNCHANGED <<map_vars, chain_vars, mutex, built, source, target_router, dispatch_vars>>
  BY DEF use_next
<1> HIDE DEF j, at
<1>4. RouterTypeOK'
  BY <1>2, <1>3, AddBegins DEF IInv, RouterTypeOK, map_vars, chain_vars, dispatch_vars
<1>5. ThreadInv(t)'
  <2>1. AddInv(t)' /\ DispatchInv(t)'
    BY <1>2, <1>3, AddBegins, Quiet, DispatchAside DEF IInv, ThreadInv, dispatch_vars
  <2>2. todo'[t] \subseteq todo[t]
    BY <1>3 DEF IInv, RouterTypeOK
  <2> QED  BY <1>3, <2>1, <2>2 DEF IInv, ThreadInv, UseInv, dispatch_vars
<1>6. ASSUME NEW u \in Threads, u # t PROVE ThreadInv(u)'
  BY <1>2, <1>3, <1>6, AddBegins, Quiet, Others DEF IInv, RouterTypeOK, dispatch_vars
<1>7. ASSUME NEW q \in Routers PROVE LockInv(q)'
  BY <1>3, Quiet
<1> QED  BY <1>4, <1>5, <1>6, <1>7 DEF IInv

(* The read lock of the mounted router is given up. *)
LEMMA IInvUseReturn ==
  ASSUME IInv, NEW t \in Threads, use_return(t)
  PROVE  IInv'
<1>1. /\ source[t] # nobody /\ adding[t] = "no" /\ todo[t] = {} /\ leave_read(t, source[t])
      /\ source' = [source EXCEPT ![t] = nobody]
      /\ target_router' = [target_router EXCEPT ![t] = nobody]
      /\ UNCHANGED <<map_vars, chain_vars, add_vars, todo, dispatch_vars>>
  BY DEF use_return, Mounting
<1>2. source[t] \in Routers /\ dispatching[t] = "no"
  BY <1>1 DEF IInv, RouterTypeOK, ThreadInv, UseInv
<1>3. /\ MutexOK' /\ \A u \in Threads : Keeps(u) /\ (u # t => Holds(u))
      /\ \A q \in Routers : LockInv(q)'
  BY <1>1, <1>2, ReadUnlocks
<1>4. RouterTypeOK'
  BY <1>1, <1>3 DEF IInv, RouterTypeOK, MutexOK, map_vars, chain_vars, add_vars, dispatch_vars
<1>5. ThreadInv(t)'
  BY <1>1, <1>2 DEF IInv, RouterTypeOK, ThreadInv, AddInv, UseInv, DispatchInv,
                   add_vars, dispatch_vars
<1>6. ASSUME NEW u \in Threads, u # t PROVE ThreadInv(u)'
  BY <1>1, <1>3, <1>6, Others DEF IInv, RouterTypeOK, add_vars, dispatch_vars
<1> QED  BY <1>3, <1>4, <1>5, <1>6 DEF IInv
-----------------------------------------------------------------------------
(* do_process_request. *)
LEMMA IInvRequest ==
  ASSUME IInv, NEW t \in Threads, NEW r \in Routers, NEW q \in Request, process_request(t, r, q)
  PROVE  IInv'
<1>1. /\ dispatching[t] = "no" /\ source[t] = nobody
      /\ dispatching' = [dispatching EXCEPT ![t] = "lock"]
      /\ asked' = [asked EXCEPT ![t] = [router |-> r, request |-> q]]
      /\ UNCHANGED <<map_vars, chain_vars, mutex, add_vars, use_vars, plan>>
  BY DEF process_request
<1>2. RouterTypeOK'
  BY <1>1 DEF IInv, RouterTypeOK, map_vars, chain_vars, add_vars, use_vars
<1>3. ThreadInv(t)'
  <2>1. AddInv(t)' /\ UseInv(t)'
    BY <1>1, Quiet, AddAside, UseAside DEF IInv, ThreadInv, add_vars, use_vars
  <2>2. asked'[t] \in Asked /\ dispatching'[t] = "lock"
    BY <1>1 DEF IInv, RouterTypeOK, Asked
  <2> QED  BY <2>1, <2>2 DEF ThreadInv, DispatchInv
<1>4. ASSUME NEW u \in Threads, u # t PROVE ThreadInv(u)'
  BY <1>1, <1>4, Quiet, Others DEF IInv, RouterTypeOK, add_vars, use_vars
<1>5. ASSUME NEW s \in Routers PROVE LockInv(s)'
  BY <1>1, Quiet
<1> QED  BY <1>2, <1>3, <1>4, <1>5 DEF IInv

(* A session locks the router for reading. *)
LEMMA IInvProcessLock ==
  ASSUME IInv, NEW t \in Threads, process_lock(t)
  PROVE  IInv'
<1>1. /\ dispatching[t] = "lock" /\ enter_to_read(t, asked[t].router)
      /\ dispatching' = [dispatching EXCEPT ![t] = "provide"]
      /\ UNCHANGED <<map_vars, chain_vars, add_vars, use_vars, asked, plan>>
  BY DEF process_lock
<1>2. asked[t] \in Asked /\ asked[t].router \in Routers /\ source[t] = nobody
  BY <1>1 DEF IInv, ThreadInv, DispatchInv, UseInv, Asked
<1>3. /\ MutexOK' /\ t \in mutex'[asked[t].router].readers
      /\ \A u \in Threads : Holds(u) /\ Keeps(u)
      /\ \A q \in Routers : LockInv(q)'
  BY <1>1, <1>2, ReadLocks
<1>4. RouterTypeOK'
  BY <1>1, <1>3 DEF IInv, RouterTypeOK, MutexOK, map_vars, chain_vars, add_vars, use_vars
<1>5. ThreadInv(t)'
  <2>1. AddInv(t)' /\ UseInv(t)'
    BY <1>1, <1>2, <1>3, AddAside, UseAside DEF IInv, ThreadInv, add_vars, use_vars
  <2> QED  BY <1>1, <1>2, <1>3, <2>1 DEF ThreadInv, DispatchInv
<1>6. ASSUME NEW u \in Threads, u # t PROVE ThreadInv(u)'
  BY <1>1, <1>3, <1>6, Others DEF IInv, RouterTypeOK, add_vars, use_vars
<1> QED  BY <1>3, <1>4, <1>5, <1>6 DEF IInv

(* What matches a request are entries of the maps. *)
LEMMA ProvidedType ==
  ASSUME RouterTypeOK, NEW r \in Routers, NEW q
  PROVE  provided(r, q) \in SUBSET Keys
BY Entries DEF provided, matching

(* The steps between taking the lock and giving it up. *)
LEMMA IInvExecutes ==
  ASSUME IInv, NEW t \in Threads, dispatching[t] \in {"provide", "execute", "handler"},
         NEW at \in {"execute", "handler"}, dispatching' = [dispatching EXCEPT ![t] = at],
         plan' \in [Threads -> SUBSET Keys],
         UNCHANGED <<map_vars, chain_vars, mutex, add_vars, use_vars, asked>>
  PROVE  IInv'
<1>1. RouterTypeOK'
  BY DEF IInv, RouterTypeOK, map_vars, chain_vars, add_vars, use_vars
<1>2. ThreadInv(t)'
  <2>1. source[t] = nobody
    BY DEF IInv, ThreadInv, UseInv
  <2>2. AddInv(t)' /\ UseInv(t)'
    BY <2>1, Quiet, AddAside, UseAside DEF IInv, ThreadInv, add_vars, use_vars
  <2> QED  BY <2>2 DEF IInv, ThreadInv, DispatchInv
<1>3. ASSUME NEW u \in Threads, u # t PROVE ThreadInv(u)'
  BY <1>3, Quiet, Others DEF IInv, RouterTypeOK, add_vars, use_vars
<1>4. ASSUME NEW s \in Routers PROVE LockInv(s)'
  BY Quiet
<1> QED  BY <1>1, <1>2, <1>3, <1>4 DEF IInv

(* The matching entries are found, ... *)
LEMMA IInvProvide ==
  ASSUME IInv, NEW t \in Threads, provide(t)
  PROVE  IInv'
<1>1. asked[t].router \in Routers
  BY DEF IInv, ThreadInv, DispatchInv, Asked, provide
<1>2. provided(asked[t].router, asked[t].request) \in SUBSET Keys
  BY <1>1, ProvidedType DEF IInv
<1>3. plan' \in [Threads -> SUBSET Keys]
  BY <1>2 DEF provide, IInv, RouterTypeOK
<1> QED  BY <1>3, IInvExecutes DEF provide

(* ... one of them is executed, ... *)
LEMMA IInvExecute ==
  ASSUME IInv, NEW t \in Threads, NEW k \in plan[t], execute(t, k) \/ handler_return(t)
  PROVE  IInv'
<1>1. plan' \in [Threads -> SUBSET Keys]
  BY DEF execute, handler_return, IInv, RouterTypeOK
<1> QED  BY <1>1, IInvExecutes DEF execute, handler_return

(* ... and its handler returns. *)
LEMMA IInvHandlerReturn ==
  ASSUME IInv, NEW t \in Threads, handler_return(t)
  PROVE  IInv'
<1>1. plan' \in [Threads -> SUBSET Keys]
  BY DEF handler_return, IInv, RouterTypeOK
<1> QED  BY <1>1, IInvExecutes DEF handler_return

(* The session gives the read lock up. *)
LEMMA IInvProcessReturn ==
  ASSUME IInv, NEW t \in Threads, process_return(t)
  PROVE  IInv'
<1>1. /\ dispatching[t] = "execute" /\ leave_read(t, asked[t].router)
      /\ dispatching' = [dispatching EXCEPT ![t] = "no"]
      /\ asked' = [asked EXCEPT ![t] = nobody]
      /\ UNCHANGED <<map_vars, chain_vars, add_vars, use_vars, plan>>
  BY DEF process_return
<1>2. asked[t].router \in Routers /\ source[t] = nobody /\ todo[t] = {}
  BY <1>1 DEF IInv, ThreadInv, DispatchInv, UseInv, Asked
<1>3. /\ MutexOK' /\ \A u \in Threads : Keeps(u) /\ (u # t => Holds(u))
      /\ \A q \in Routers : mutex[q].writer = t => mutex'[q].writer = t
      /\ \A q \in Routers : LockInv(q)'
  BY <1>1, <1>2, ReadUnlocks
<1>4. RouterTypeOK'
  BY <1>1, <1>3 DEF IInv, RouterTypeOK, MutexOK, map_vars, chain_vars, add_vars, use_vars
<1>5. ThreadInv(t)'
  <2>1. AddInv(t)'
    <3>1. adding[t] # "no" => job[t].router \in Routers
      BY DEF IInv, ThreadInv, AddInv, Job
    <3> QED  BY <1>1, <1>3, <3>1 DEF IInv, ThreadInv, AddInv, Ready, map_vars, add_vars
  <2>2. UseInv(t)' /\ DispatchInv(t)'
    BY <1>1, <1>2 DEF IInv, RouterTypeOK, UseInv, DispatchInv, use_vars
  <2> QED  BY <2>1, <2>2 DEF ThreadInv
<1>6. ASSUME NEW u \in Threads, u # t PROVE ThreadInv(u)'
  BY <1>1, <1>3, <1>6, Others DEF IInv, RouterTypeOK, add_vars, use_vars
<1> QED  BY <1>3, <1>4, <1>5, <1>6 DEF IInv
-----------------------------------------------------------------------------
(* The invariant holds of routers without routes. *)
LEMMA IInvInit == Init => IInv
<1> SUFFICES ASSUME Init PROVE IInv
  OBVIOUS
<1>1. RouterTypeOK
  BY BoundAssumption DEF Init, RouterTypeOK
<1>2. ASSUME NEW t \in Threads PROVE ThreadInv(t)
  BY DEF Init, ThreadInv, AddInv, UseInv, DispatchInv
<1>3. ASSUME NEW r \in Routers PROVE LockInv(r)
  BY DEF Init, LockInv
<1> QED  BY <1>1, <1>2, <1>3 DEF IInv

(* It does not depend on anything else. *)
LEMMA IInvStutter == ASSUME IInv, UNCHANGED vars PROVE IInv'
<1>1. UNCHANGED <<map_vars, chain_vars, mutex, add_vars, use_vars, dispatch_vars>>
  BY DEF vars
<1>2. RouterTypeOK'
  BY <1>1 DEF IInv, RouterTypeOK, map_vars, chain_vars, add_vars, use_vars, dispatch_vars
<1>3. ASSUME NEW u \in Threads PROVE ThreadInv(u)'
  BY <1>1, Quiet, Others DEF add_vars, use_vars, dispatch_vars
<1>4. ASSUME NEW q \in Routers PROVE LockInv(q)'
  BY <1>1, Quiet
<1> QED  BY <1>2, <1>3, <1>4 DEF IInv

(* Every step of every thread preserves it. *)
LEMMA IInvNext == IInv /\ [Next]_vars => IInv'
<1> SUFFICES ASSUME IInv, [Next]_vars PROVE IInv'
  OBVIOUS
<1>1. ASSUME NEW t \in Threads, register(t) PROVE IInv'
  BY <1>1, IInvVerb, IInvRoute, IInvChainVerb, IInvUseCall DEF register, all, chain_all
<1>2. ASSUME NEW t \in Threads, add_step(t) PROVE IInv'
  BY <1>2, IInvAddLock, IInvInsert, IInvEmplace, IInvAddReturn DEF add_step
<1>3. ASSUME NEW t \in Threads, use_step(t) PROVE IInv'
  BY <1>3, IInvUseLock, IInvUseNext, IInvUseReturn DEF use_step
<1>4. ASSUME NEW t \in Threads, process_step(t) PROVE IInv'
  BY <1>4, IInvProcessLock, IInvProvide, IInvExecute, IInvHandlerReturn, IInvProcessReturn
     DEF process_step
<1>5. ASSUME NEW t \in Threads, NEW r \in Routers, NEW q \in Request, process_request(t, r, q)
      PROVE  IInv'
  BY <1>5, IInvRequest
<1> QED  BY <1>1, <1>2, <1>3, <1>4, <1>5, IInvStutter DEF Next

(* Every thread holds exactly the locks its place in the code needs, and    *)
(* the maps a registration has to itself are as it left them: in every      *)
(* reachable state.                                                         *)
THEOREM IInvHolds == Spec => []IInv
BY IInvInit, IInvNext, PTL DEF Spec
-----------------------------------------------------------------------------
(* The maps, the locks and the steps of every thread keep their types,      *)
(* whatever expressions a mount pastes together.                           *)
THEOREM RouterTypeCorrect == Spec => []RouterTypeOK
<1>1. IInv => RouterTypeOK
  BY DEF IInv
<1> QED  BY <1>1, IInvHolds, PTL

(* A registration has a router's maps to itself while it changes them, for  *)
(* any number of threads that register, mount and dispatch.                 *)
THEOREM RegistrationAloneHolds == Spec => []RegistrationAlone
<1>1. IInv => RegistrationAlone
  <2> SUFFICES ASSUME IInv, NEW t \in Threads, NEW u \in Threads, NEW r \in Routers,
                      t # u, Changes(t, r)
               PROVE  ~Changes(u, r) /\ ~Reads(u, r)
    BY DEF RegistrationAlone
  <2>1. mutex[r].writer = t
    BY DEF IInv, ThreadInv, AddInv, Changes
  <2>2. mutex[r].readers = {}
    BY <2>1, NullAssumption DEF IInv, LockInv
  <2>3. ~Changes(u, r)
    BY <2>1 DEF IInv, ThreadInv, AddInv, Changes
  <2>4. ~Reads(u, r)
    BY <2>2 DEF IInv, ThreadInv, UseInv, DispatchInv, Reads
  <2> QED  BY <2>3, <2>4
<1> QED  BY <1>1, IInvHolds, PTL
-----------------------------------------------------------------------------
(* The null pointer is no map.                                             *)
NullIsNoMap == ~IsPathMap(nullptr) /\ ~IsMethodMap(nullptr)

(* emplace leaves alone the argument that it does not insert, which the     *)
(* standard does not promise; or it inserts what it is given, because no    *)
(* route is registered a second time.  What follows is not so otherwise.    *)
EmplaceKeeps == EmplaceMoves = {FALSE}
KeyOf(j) == <<j.method, j.path>>
FilesNewKeys ==
  \A t \in Threads : adding[t] = "emplace" => KeyOf(job[t]) \notin keys_of(job[t].router)
NothingLost == EmplaceKeeps \/ FilesNewKeys

(* A session holds entries of the router it reads, and no registration or   *)
(* mount carries an empty storage.                                         *)
PlanInv(t) ==
  plan[t] # {} => /\ dispatching[t] \in {"execute", "handler"}
                  /\ plan[t] \subseteq keys_of(asked[t].router)
CarriesNoEmpty(t) ==
  /\ adding[t] # "no" => job[t].storage # 0
  /\ \A e \in todo[t] : e.storage # 0
FullInv == StorageNeverEmpty /\ \A t \in Threads : CarriesNoEmpty(t)
TableInv == IInv /\ (\A t \in Threads : PlanInv(t)) /\ FullInv

(* A router's row of the table, and the calls a thread has yet to make.     *)
Row(r) == [k \in keys_of(r) |-> storage_of(r, k)]
CallsOf(t) == {<<k, storage_of(asked[t].router, k)>> : k \in plan[t]}

(* The keys of a pair of maps, and the storage behind one of them.          *)
KeysIn(res, met) ==
  (IF res = nullptr THEN {} ELSE {NoMethod} \X DOMAIN res)
  \cup
  (IF met = nullptr THEN {} ELSE UNION {{m} \X DOMAIN met[m] : m \in DOMAIN met})
StorageIn(res, met, k) == IF k[1] = NoMethod THEN res[k[2]] ELSE met[k[1]][k[2]]

(* What it is to be a key of a pair of maps. *)
LEMMA KeysAre ==
  ASSUME NEW res, NEW met, NEW k
  PROVE  k \in KeysIn(res, met) <=>
           /\ k = <<k[1], k[2]>>
           /\ \/ res # nullptr /\ k[1] = NoMethod /\ k[2] \in DOMAIN res
              \/ met # nullptr /\ k[1] \in DOMAIN met /\ k[2] \in DOMAIN met[k[1]]
BY DEF KeysIn

(* The rows of two pairs of maps with the same entries are the same. *)
LEMMA RowsAre ==
  ASSUME NEW r
  PROVE  /\ keys_of(r) = KeysIn(resource_map[r], method_map[r])
         /\ keys_of(r)' = KeysIn(resource_map'[r], method_map'[r])
         /\ \A k : /\ storage_of(r, k) = StorageIn(resource_map[r], method_map[r], k)
                   /\ storage_of(r, k)' = StorageIn(resource_map'[r], method_map'[r], k)
BY DEF keys_of, storage_of, KeysIn, StorageIn

(* A map that is made has no routes. *)
LEMMA MadeResource ==
  ASSUME NEW met, NoMethod \notin DOMAIN met \/ met = nullptr
  PROVE  /\ KeysIn(<<>>, met) = KeysIn(nullptr, met)
         /\ \A k \in KeysIn(nullptr, met) : StorageIn(<<>>, met, k) = StorageIn(nullptr, met, k)
<1>1. \A k : k \in KeysIn(<<>>, met) <=> k \in KeysIn(nullptr, met)
  BY KeysAre, EmptyMap
<1>2. \A k \in KeysIn(nullptr, met) : k[1] # NoMethod
  BY KeysAre
<1> QED  BY <1>1, <1>2 DEF StorageIn

(* The map of a method is made: no key of the table changes.               *)
LEMMA MadeMethod ==
  ASSUME NEW res, NEW met, NEW m \in Methods, IsMethodMap(met) \/ met = nullptr, NullIsNoMap,
         NEW methods, methods = IF met = nullptr THEN <<>> ELSE met, m \notin DOMAIN methods
  PROVE  /\ KeysIn(res, Put(methods, m, <<>>)) = KeysIn(res, met)
         /\ \A k \in KeysIn(res, met) :
              StorageIn(res, Put(methods, m, <<>>), k) = StorageIn(res, met, k)
<1> DEFINE new == Put(methods, m, <<>>)
<1>1. /\ DOMAIN new = DOMAIN methods \cup {m} /\ new[m] = <<>>
      /\ \A n \in DOMAIN methods : new[n] = methods[n]
  BY DEF Put
<1>2. DOMAIN new[m] = {}
  BY <1>1, EmptyMap
<1>3. met = nullptr => DOMAIN methods = {}
  BY EmptyMap
<1> HIDE DEF new
<1>4. new # nullptr
  <2>1. IsPathMap(<<>>) /\ (met = nullptr => IsMethodMap(methods))
    BY <1>3, EmptyMap DEF IsPathMap, IsMethodMap
  <2>2. IsMethodMap(methods)
    BY <2>1
  <2>3. IsMethodMap(new)
    BY <1>1, <2>1, <2>2 DEF IsMethodMap
  <2> QED  BY <2>3 DEF NullIsNoMap
<1>5. \A k : k \in KeysIn(res, new) <=> k \in KeysIn(res, met)
  BY <1>1, <1>2, <1>3, <1>4, KeysAre
<1>6. \A k \in KeysIn(res, met) : StorageIn(res, new, k) = StorageIn(res, met, k)
  BY <1>1, <1>3, KeysAre DEF StorageIn
<1> QED  BY <1>5, <1>6 DEF new

(* Storing at a path adds or replaces one entry. *)
LEMMA StoredResource ==
  ASSUME NEW res, NEW met, NEW p, NEW v, res # nullptr, Put(res, p, v) # nullptr,
         NoMethod \notin DOMAIN met \/ met = nullptr
  PROVE  /\ KeysIn(Put(res, p, v), met) = KeysIn(res, met) \cup {<<NoMethod, p>>}
         /\ StorageIn(Put(res, p, v), met, <<NoMethod, p>>) = v
         /\ \A k \in KeysIn(res, met) : k # <<NoMethod, p>> =>
              StorageIn(Put(res, p, v), met, k) = StorageIn(res, met, k)
<1> DEFINE new == Put(res, p, v)
           key == <<NoMethod, p>>
<1>1. /\ DOMAIN new = DOMAIN res \cup {p} /\ new[p] = v
      /\ \A n \in DOMAIN res : n # p => new[n] = res[n]
  BY DEF Put
<1>2. key[1] = NoMethod /\ key[2] = p
  OBVIOUS
<1> HIDE DEF new
<1>3. \A k : k \in KeysIn(new, met) <=> k \in KeysIn(res, met) \/ k = key
  BY <1>1, <1>2, KeysAre DEF new
<1>4. \A k \in KeysIn(res, met) : k # key => StorageIn(new, met, k) = StorageIn(res, met, k)
  BY <1>1, KeysAre DEF StorageIn
<1>5. StorageIn(new, met, key) = v
  BY <1>1, <1>2 DEF StorageIn
<1> QED  BY <1>3, <1>4, <1>5 DEF new

(* So it does in the map of a method. *)
LEMMA StoredMethod ==
  ASSUME NEW res, NEW met, NEW m \in Methods, NEW p, NEW v, NEW new, met # nullptr,
         m \in DOMAIN met, new = [met EXCEPT ![m] = Put(met[m], p, v)], new # nullptr,
         DOMAIN met \subseteq Methods
  PROVE  /\ KeysIn(res, new) = KeysIn(res, met) \cup {<<m, p>>}
         /\ StorageIn(res, new, <<m, p>>) = v
         /\ \A k \in KeysIn(res, met) : k # <<m, p>> =>
              StorageIn(res, new, k) = StorageIn(res, met, k)
<1> DEFINE key == <<m, p>>
<1>1. /\ DOMAIN new = DOMAIN met /\ DOMAIN new[m] = DOMAIN met[m] \cup {p} /\ new[m][p] = v
      /\ \A n \in DOMAIN met[m] : n # p => new[m][n] = met[m][n]
      /\ \A o \in DOMAIN met : o # m => new[o] = met[o]
  BY DEF Put
<1>2. key[1] = m /\ key[2] = p /\ m # NoMethod
  BY NullAssumption
<1>3. \A k : k \in KeysIn(res, new) <=> k \in KeysIn(res, met) \/ k = key
  <2> SUFFICES ASSUME NEW k, k = <<k[1], k[2]>>
               PROVE  k \in KeysIn(res, new) <=> k \in KeysIn(res, met) \/ k = key
    BY <1>2, KeysAre
  <2>1. \A f : f # nullptr =>
          (k \in KeysIn(res, f) <=>
             \/ res # nullptr /\ k[1] = NoMethod /\ k[2] \in DOMAIN res
             \/ k[1] \in DOMAIN f /\ k[2] \in DOMAIN f[k[1]])
    BY KeysAre, Zenon
  <2>2. k = key <=> k[1] = m /\ k[2] = p
    BY <1>2
  <2> QED  BY <1>1, <2>1, <2>2
<1>4. \A k \in KeysIn(res, met) : k # key => StorageIn(res, new, k) = StorageIn(res, met, k)
  BY <1>1, <1>2, KeysAre DEF StorageIn
<1>5. StorageIn(res, new, key) = v
  BY <1>1, <1>2 DEF StorageIn
<1> QED  BY <1>3, <1>4, <1>5

-----------------------------------------------------------------------------
(* A router whose maps are left alone keeps its row. *)
LEMMA RowKept ==
  ASSUME NEW r, resource_map'[r] = resource_map[r], method_map'[r] = method_map[r]
  PROVE  /\ keys_of(r)' = keys_of(r) /\ Row(r)' = Row(r)
         /\ \A k : storage_of(r, k)' = storage_of(r, k)
<1>1. keys_of(r)' = keys_of(r)
  BY DEF keys_of
<1>2. \A k : storage_of(r, k)' = storage_of(r, k)
  BY DEF storage_of
<1> QED  BY <1>1, <1>2 DEF Row

(* Making the maps adds no entry. *)
LEMMA InsertRows ==
  ASSUME IInv, NullIsNoMap, NEW t \in Threads, add_insert(t)
  PROVE  \A r \in Routers : /\ keys_of(r)' = keys_of(r) /\ Row(r)' = Row(r)
                            /\ \A k \in keys_of(r) : storage_of(r, k)' = storage_of(r, k)
<1>0. PICK r : r = job[t].router
  OBVIOUS
<1> DEFINE m == job[t].method
           methods == IF method_map[r] = nullptr THEN <<>> ELSE method_map[r]
<1>1. r \in Routers /\ m \in Methods \cup {NoMethod}
  BY <1>0 DEF IInv, ThreadInv, AddInv, Job, add_insert
<1>2. /\ DOMAIN resource_map = Routers /\ DOMAIN method_map = Routers
      /\ method_map[r] = nullptr \/ IsMethodMap(method_map[r])
  BY <1>1 DEF IInv, RouterTypeOK
<1> HIDE DEF m
<1>3. SUFFICES /\ keys_of(r)' = keys_of(r)
               /\ \A k \in keys_of(r) : storage_of(r, k)' = storage_of(r, k)
  <2>1. \A q \in Routers : q # r =>
          resource_map'[q] = resource_map[q] /\ method_map'[q] = method_map[q]
    BY <1>0, <1>1, <1>2 DEF add_insert
  <2>2. Row(r)' = Row(r)
    BY <1>3 DEF Row
  <2> QED  BY <1>3, <2>1, <2>2, RowKept
<1>4. CASE m = NoMethod
  <2>1. /\ resource_map'[r] = IF resource_map[r] = nullptr THEN <<>> ELSE resource_map[r]
        /\ method_map'[r] = method_map[r]
    BY <1>1, <1>2, <1>0, <1>4 DEF add_insert, m
  <2>2. NoMethod \notin DOMAIN method_map[r] \/ method_map[r] = nullptr
    BY <1>2, NullAssumption DEF IsMethodMap
  <2> QED  BY <2>1, <2>2, MadeResource, RowsAre
<1>5. CASE m # NoMethod
  <2>1. /\ method_map'[r] = IF m \in DOMAIN methods THEN methods ELSE Put(methods, m, <<>>)
        /\ resource_map'[r] = resource_map[r]
    BY <1>1, <1>2, <1>0, <1>5 DEF add_insert, m
  <2>2. CASE m \in DOMAIN methods
    <3>1. method_map'[r] = method_map[r]
      BY <2>1, <2>2, EmptyMap
    <3> QED  BY <2>1, <3>1, RowKept
  <2>3. CASE m \notin DOMAIN methods
    BY <1>1, <1>2, <1>5, <2>1, <2>3, MadeMethod, RowsAre
  <2> QED  BY <2>2, <2>3
<1> QED  BY <1>4, <1>5

(* emplace files the job's storage under the job's key, and nothing else;   *)
(* only the storage depends on what emplace moves.                          *)
LEMMA EmplaceRows ==
  ASSUME IInv, IInv', NullIsNoMap, NEW t \in Threads, add_emplace(t),
         NEW r, r = job[t].router, NEW key, key = <<job[t].method, job[t].path>>
  PROVE  /\ keys_of(r)' = keys_of(r) \cup {key}
         /\ EmplaceKeeps \/ key \notin keys_of(r) => storage_of(r, key)' = job[t].storage
         /\ \A k \in keys_of(r) : k # key => storage_of(r, k)' = storage_of(r, k)
         /\ \A q \in Routers : q # r => keys_of(q)' = keys_of(q) /\ Row(q)' = Row(q)
         /\ \A q \in Routers : q # r => \A k : storage_of(q, k)' = storage_of(q, k)
<1> DEFINE m == job[t].method
           p == job[t].path
           v == job[t].storage
<1>1. /\ r \in Routers /\ m \in Methods \cup {NoMethod} /\ Ready(job[t])
      /\ p \in Regex /\ v \in Nat
  BY DEF IInv, ThreadInv, AddInv, Job, add_emplace
<1>2. /\ DOMAIN resource_map = Routers /\ DOMAIN method_map = Routers
      /\ method_map[r] = nullptr \/ IsMethodMap(method_map[r])
  BY <1>1 DEF IInv, RouterTypeOK
<1>3. \A f : \A map \in Emplaced(f, p, v) :
        \E w \in Nat : map = Put(f, p, w) /\ (EmplaceKeeps \/ p \notin DOMAIN f => w = v)
  BY <1>1 DEF Emplaced, EmplaceKeeps
<1>4. \A q \in Routers : q # r =>
        resource_map'[q] = resource_map[q] /\ method_map'[q] = method_map[q]
  BY <1>1, <1>2 DEF add_emplace
<1>5. CASE m = NoMethod
  <2>1. PICK w \in Nat : /\ resource_map'[r] = Put(resource_map[r], p, w)
                         /\ method_map'[r] = method_map[r]
                         /\ EmplaceKeeps \/ p \notin DOMAIN resource_map[r] => w = v
    <3>1. PICK map \in Emplaced(resource_map[r], p, v) :
            resource_map' = [resource_map EXCEPT ![r] = map] /\ method_map' = method_map
      BY <1>5 DEF add_emplace
    <3> QED  BY <1>1, <1>2, <1>3, <3>1
  <2>2. NoMethod \notin DOMAIN method_map[r] \/ method_map[r] = nullptr
    BY <1>2, NullAssumption DEF IsMethodMap
  <2>3. resource_map[r] # nullptr
    BY <1>1, <1>5 DEF Ready, NullIsNoMap
  <2>4. Put(resource_map[r], p, w) # nullptr
    BY <1>1, <1>5, PutPath DEF Ready, NullIsNoMap
  <2>5. /\ keys_of(r)' = keys_of(r) \cup {key} /\ storage_of(r, key)' = w
        /\ \A k \in keys_of(r) : k # key => storage_of(r, k)' = storage_of(r, k)
    BY <1>5, <2>1, <2>2, <2>3, <2>4, StoredResource, RowsAre
  <2>6. p \in DOMAIN resource_map[r] => key \in keys_of(r)
    BY <1>5, <2>3 DEF keys_of
  <2> QED  BY <1>4, <2>1, <2>5, <2>6, RowKept
<1>6. CASE m # NoMethod
  <2>1. PICK w \in Nat :
          /\ method_map'[r] = [method_map[r] EXCEPT ![m] = Put(method_map[r][m], p, w)]
          /\ resource_map'[r] = resource_map[r]
          /\ EmplaceKeeps \/ p \notin DOMAIN method_map[r][m] => w = v
    <3>1. PICK map \in Emplaced(method_map[r][m], p, v) :
            method_map' = [method_map EXCEPT ![r][m] = map]
      BY <1>6 DEF add_emplace
    <3>2. resource_map' = resource_map
      BY <1>6 DEF add_emplace
    <3>3. PICK w \in Nat : map = Put(method_map[r][m], p, w)
                         /\ (EmplaceKeeps \/ p \notin DOMAIN method_map[r][m] => w = v)
      BY <1>3
    <3>4. method_map'[r] = [method_map[r] EXCEPT ![m] = Put(method_map[r][m], p, w)]
      BY <1>1, <1>2, <3>1, <3>3
    <3> QED  BY <3>2, <3>3, <3>4
  <2>2. /\ method_map[r] # nullptr /\ m \in DOMAIN method_map[r]
        /\ DOMAIN method_map[r] \subseteq Methods
    BY <1>1, <1>2, <1>6 DEF Ready, NullIsNoMap, IsMethodMap
  <2>3. method_map'[r] # nullptr
    <3>1. IsMethodMap(method_map[r]) /\ m \in Methods
      BY <1>1, <1>2, <1>6, <2>2
    <3>2. IsPathMap(Put(method_map[r][m], p, w))
      BY <1>1, <2>2, <3>1, PutPath DEF IsMethodMap
    <3>3. IsMethodMap(method_map'[r])
      BY <2>1, <3>1, <3>2 DEF IsMethodMap
    <3> QED  BY <3>3 DEF NullIsNoMap
  <2>4. /\ keys_of(r)' = keys_of(r) \cup {key} /\ storage_of(r, key)' = w
        /\ \A k \in keys_of(r) : k # key => storage_of(r, k)' = storage_of(r, k)
    BY <1>6, <1>1, <2>1, <2>2, <2>3, StoredMethod, RowsAre
  <2>5. p \in DOMAIN method_map[r][m] => key \in keys_of(r)
    BY <2>2 DEF keys_of
  <2> QED  BY <1>4, <2>1, <2>4, <2>5, RowKept
<1> QED  BY <1>5, <1>6
-----------------------------------------------------------------------------
(* No entry comes, goes or changes. *)
RowsKept ==
  \A r \in Routers : /\ keys_of(r)' = keys_of(r) /\ Row(r)' = Row(r)
                     /\ \A k \in keys_of(r) : storage_of(r, k)' = storage_of(r, k)

(* They stay while the maps do. *)
LEMMA UnchangedRows == ASSUME UNCHANGED map_vars PROVE RowsKept
BY RowKept DEF RowsKept, map_vars

(* What a thread has yet to execute stays if its dispatch and the keys do.  *)
LEMMA PlanAside ==
  ASSUME IInv, NEW u \in Threads, PlanInv(u),
         \A r \in Routers : keys_of(r) \subseteq keys_of(r)',
         plan'[u] \subseteq plan[u], dispatching'[u] = dispatching[u], asked'[u] = asked[u]
  PROVE  PlanInv(u)'
<1>1. PICK r : r = asked[u].router
  OBVIOUS
<1>2. plan[u] # {} => r \in Routers
  BY <1>1 DEF PlanInv, IInv, ThreadInv, DispatchInv, Asked
<1> QED  BY <1>1, <1>2 DEF PlanInv

(* A registration carries no empty storage if it begins with none. *)
LEMMA CarriesAside ==
  ASSUME NEW u \in Threads, CarriesNoEmpty(u),
         adding'[u] # "no" => adding[u] # "no" /\ job'[u] = job[u], todo'[u] \subseteq todo[u]
  PROVE  CarriesNoEmpty(u)'
BY DEF CarriesNoEmpty

(* The steps that begin a registration. *)
LEMMA CarriesBegins ==
  ASSUME IInv, NEW t \in Threads, NEW j \in Job, j.storage # 0, \A e \in todo'[t] : e.storage # 0,
         add_resource_cb(t, j.router, j.method, j.path, j.storage, j.meant)
  PROVE  /\ CarriesNoEmpty(t)'
         /\ \A u \in Threads : u # t => adding'[u] = adding[u] /\ job'[u] = job[u]
<1>1. job' = [job EXCEPT ![t] = j] /\ adding' = [adding EXCEPT ![t] = "lock"]
  BY DEF add_resource_cb, Job
<1> QED  BY <1>1 DEF CarriesNoEmpty, IInv, RouterTypeOK

(* Every storage in the maps stays if the entries do. *)
LEMMA FullAside == ASSUME StorageNeverEmpty, RowsKept PROVE StorageNeverEmpty'
BY DEF StorageNeverEmpty, RowsKept

(* Registration and mounting leave what is dispatched alone. *)
LEMMA PlansAside ==
  ASSUME TableInv, \A r \in Routers : keys_of(r) \subseteq keys_of(r)', UNCHANGED dispatch_vars
  PROVE  \A u \in Threads : PlanInv(u)'
BY PlanAside DEF TableInv, dispatch_vars

(* Dispatching leaves what is registered alone. *)
LEMMA FullsAside ==
  ASSUME TableInv, UNCHANGED <<map_vars, add_vars, use_vars>>
  PROVE  FullInv'
BY CarriesAside, UnchangedRows, FullAside DEF TableInv, FullInv, add_vars, use_vars
-----------------------------------------------------------------------------
(* The interface is called: a storage that is built is not empty. *)
LEMMA FullRegister ==
  ASSUME TableInv, NEW t \in Threads, register(t)
  PROVE  FullInv' /\ RowsKept /\ UNCHANGED dispatch_vars
<1> USE DEF TableInv
<1>1. UNCHANGED map_vars /\ UNCHANGED dispatch_vars
  BY DEF register, all, chain_all, verb, route, chain_verb, use_call
<1>2. RowsKept /\ StorageNeverEmpty'
  BY <1>1, UnchangedRows, FullAside DEF FullInv
<1>3. ASSUME NEW j \in Job, j.storage = built + 1, build, UNCHANGED use_vars,
             add_resource_cb(t, j.router, j.method, j.path, j.storage, j.meant)
      PROVE  \A u \in Threads : CarriesNoEmpty(u)'
  <2>1. j.storage # 0
    BY <1>3, BoundAssumption DEF IInv, RouterTypeOK
  <2>2. CarriesNoEmpty(t)' /\ \A u \in Threads : u # t => adding'[u] = adding[u] /\ job'[u] = job[u]
    BY <1>3, <2>1, CarriesBegins DEF FullInv, CarriesNoEmpty, use_vars
  <2> QED  BY <1>3, <2>2, CarriesAside DEF FullInv, use_vars
<1>4. ASSUME NEW r \in Routers, NEW m \in Methods \cup {NoMethod}, NEW path \in Paths,
             verb(t, r, m, path)
      PROVE  \A u \in Threads : CarriesNoEmpty(u)'
  <2> DEFINE j == [router |-> r, method |-> m, path |-> path, storage |-> built + 1,
                   meant |-> TargetsOf(path)]
  <2>1. j \in Job
    BY <1>4, PathsAssumption, BuildType DEF Job, TargetsOf, verb
  <2> QED  BY <1>3, <1>4, <2>1 DEF verb
<1>5. ASSUME NEW m \in Methods \cup {NoMethod}, chain_verb(t, m)
      PROVE  \A u \in Threads : CarriesNoEmpty(u)'
  <2> DEFINE j == [router |-> node[t].router, method |-> m,
                   path |-> tmp_res_regex[node[t].router], storage |-> built + 1,
                   meant |-> TargetsOf(node[t].path)]
  <2>1. j \in Job
    BY <1>5, ChainedJob
  <2> QED  BY <1>3, <1>5, <2>1 DEF chain_verb
<1>6. ASSUME UNCHANGED <<add_vars, todo>>
      PROVE  \A u \in Threads : CarriesNoEmpty(u)'
  BY <1>6, CarriesAside DEF FullInv, add_vars
<1>7. \A u \in Threads : CarriesNoEmpty(u)'
  BY <1>4, <1>5, <1>6 DEF register, all, chain_all, route, use_call, use_vars
<1> QED  BY <1>1, <1>2, <1>7 DEF FullInv

(* add_resource_cb files what it was given, once. *)
LEMMA FullAdd ==
  ASSUME TableInv, IInv', NullIsNoMap, NothingLost, NEW t \in Threads, add_step(t)
  PROVE  /\ FullInv' /\ UNCHANGED dispatch_vars
         /\ \A r \in Routers : keys_of(r) \subseteq keys_of(r)'
         /\ ~add_emplace(t) => RowsKept
<1> USE DEF TableInv
<1>1. /\ adding[t] # "no" /\ UNCHANGED <<todo, dispatch_vars>>
      /\ \A u \in Threads : adding'[u] # "no" => adding[u] # "no" /\ job'[u] = job[u]
  BY DEF add_step, add_lock, add_insert, add_emplace, add_return, use_vars, IInv, RouterTypeOK
<1>2. \A u \in Threads : CarriesNoEmpty(u)'
  BY <1>1, CarriesAside DEF FullInv
<1>3. CASE add_lock(t) \/ add_return(t)
  BY <1>1, <1>2, <1>3, UnchangedRows, FullAside DEF add_lock, add_return, FullInv, RowsKept
<1>4. CASE add_insert(t)
  <2>1. RowsKept
    BY <1>4, InsertRows DEF RowsKept
  <2> QED  BY <1>1, <1>2, <2>1, FullAside DEF FullInv, RowsKept
<1>5. CASE add_emplace(t)
  <2>1. PICK r, key : r = job[t].router /\ key = <<job[t].method, job[t].path>>
    OBVIOUS
  <2>2. /\ keys_of(r)' = keys_of(r) \cup {key} /\ storage_of(r, key)' = job[t].storage
        /\ \A k \in keys_of(r) : k # key => storage_of(r, k)' = storage_of(r, k)
        /\ \A q \in Routers : q # r => keys_of(q)' = keys_of(q)
        /\ \A q \in Routers : q # r => \A k : storage_of(q, k)' = storage_of(q, k)
    <3>1. EmplaceKeeps \/ key \notin keys_of(r)
      BY <1>5, <2>1 DEF NothingLost, FilesNewKeys, KeyOf, add_emplace
    <3> QED  BY <1>5, <2>1, <3>1, EmplaceRows
  <2>3. job[t].storage # 0
    BY <1>1 DEF FullInv, CarriesNoEmpty
  <2>4. StorageNeverEmpty'
    BY <2>2, <2>3 DEF FullInv, StorageNeverEmpty
  <2> QED  BY <1>1, <1>2, <1>5, <2>2, <2>4 DEF FullInv
<1> QED  BY <1>3, <1>4, <1>5 DEF add_step

(* A mount copies no empty storage. *)
LEMMA FullUse ==
  ASSUME TableInv, NEW t \in Threads, use_step(t)
  PROVE  FullInv' /\ RowsKept /\ UNCHANGED dispatch_vars
<1> USE DEF TableInv
<1>1. UNCHANGED map_vars /\ UNCHANGED dispatch_vars
  BY DEF use_step, use_lock, use_next, use_return
<1>2. RowsKept /\ StorageNeverEmpty'
  BY <1>1, UnchangedRows, FullAside DEF FullInv
<1>3. CASE use_lock(t)
  <2>1. /\ UNCHANGED add_vars /\ source[t] \in Routers
        /\ todo' = [todo EXCEPT ![t] =
             {[method |-> k[1], path |-> k[2], storage |-> storage_of(source[t], k)] :
                k \in keys_of(source[t])}]
    BY <1>3 DEF use_lock, IInv, RouterTypeOK
  <2>2. \A e \in todo'[t] : e.storage # 0
    BY <2>1 DEF FullInv, StorageNeverEmpty, IInv, RouterTypeOK
  <2>3. CarriesNoEmpty(t)'
    BY <2>1, <2>2 DEF FullInv, CarriesNoEmpty, add_vars
  <2>4. \A u \in Threads : u # t => todo'[u] = todo[u]
    BY <2>1 DEF IInv, RouterTypeOK
  <2> QED  BY <1>1, <1>2, <2>1, <2>3, <2>4, CarriesAside DEF FullInv, add_vars
<1>4. ASSUME NEW e \in todo[t], use_next(t, e)
      PROVE  \A u \in Threads : CarriesNoEmpty(u)'
  <2> DEFINE at == target_router[t]
             j == [router |-> at.router, method |-> e.method,
                   path |-> concat(at.prefix, e.path), storage |-> e.storage,
                   meant |-> MountedTargets(at.prefix, e.path)]
  <2>1. j \in Job
    BY <1>4, MountedJob
  <2>2. add_resource_cb(t, j.router, j.method, j.path, j.storage, j.meant)
    BY <1>4 DEF use_next
  <2>3. \A u \in Threads : todo'[u] \subseteq todo[u]
    BY <1>4 DEF use_next, IInv, RouterTypeOK
  <2>4. j.storage # 0 /\ \A f \in todo'[t] : f.storage # 0
    BY <2>3 DEF FullInv, CarriesNoEmpty
  <2> HIDE DEF j
  <2>5. CarriesNoEmpty(t)' /\ \A u \in Threads : u # t => adding'[u] = adding[u] /\ job'[u] = job[u]
    BY <2>1, <2>2, <2>4, CarriesBegins
  <2> QED  BY <2>3, <2>5, CarriesAside DEF FullInv
<1>5. CASE use_return(t)
  BY <1>1, <1>2, <1>5, CarriesAside DEF use_return, FullInv, add_vars
<1> QED  BY <1>1, <1>2, <1>3, <1>4, <1>5 DEF use_step, FullInv

(* The entries to execute are of the router that is locked. *)
LEMMA PlanDispatch ==
  ASSUME TableInv, NEW t \in Threads,
         process_step(t) \/ \E r \in Routers, q \in Request : process_request(t, r, q)
  PROVE  (\A u \in Threads : PlanInv(u)') /\ UNCHANGED <<map_vars, add_vars, use_vars>>
<1> USE DEF TableInv
<1>1. UNCHANGED <<map_vars, add_vars, use_vars>>
  BY DEF process_step, process_lock, provide, execute, handler_return, process_return,
         process_request
<1>2. \A r \in Routers : keys_of(r)' = keys_of(r)
  BY <1>1, UnchangedRows DEF RowsKept
<1>3. ASSUME NEW u \in Threads, u # t
      PROVE  plan'[u] = plan[u] /\ dispatching'[u] = dispatching[u] /\ asked'[u] = asked[u]
  BY <1>3 DEF process_step, process_lock, provide, execute, handler_return, process_return,
              process_request,
     IInv, RouterTypeOK
<1>4. PlanInv(t)'
  <2>1. PICK r : r = asked[t].router
    OBVIOUS
  <2>2. dispatching[t] # "no" => r \in Routers
    BY <2>1 DEF IInv, ThreadInv, DispatchInv, Asked
  <2>3. CASE provide(t)
    <3>1. plan'[t] = provided(r, asked[t].request) /\ dispatching'[t] = "execute" /\ asked' = asked
      BY <2>1, <2>3 DEF provide, IInv, RouterTypeOK
    <3>2. provided(r, asked[t].request) \subseteq keys_of(r)
      BY DEF provided, matching
    <3> QED  BY <1>2, <2>1, <2>2, <2>3, <3>1, <3>2 DEF PlanInv, provide
  <2>4. CASE (\E k \in plan[t] : execute(t, k)) \/ handler_return(t)
    <3>1. plan'[t] \subseteq plan[t] /\ dispatching'[t] \in {"execute", "handler"} /\ asked' = asked
          /\ dispatching[t] # "no"
      BY <2>4 DEF execute, handler_return, IInv, RouterTypeOK
    <3> QED  BY <1>2, <2>1, <2>2, <3>1 DEF PlanInv
  <2>5. CASE \/ process_lock(t) \/ process_return(t)
             \/ \E s \in Routers, q \in Request : process_request(t, s, q)
    <3>1. plan'[t] = {}
      BY <2>5 DEF process_lock, process_return, process_request, PlanInv
    <3> QED  BY <3>1 DEF PlanInv
  <2> QED  BY <2>3, <2>4, <2>5 DEF process_step
<1> QED  BY <1>1, <1>2, <1>3, <1>4, PlanAside
-----------------------------------------------------------------------------
(* The invariant holds of routers without routes. *)
LEMMA TableInvInit == ASSUME NullIsNoMap PROVE Init => TableInv
<1> SUFFICES ASSUME Init PROVE TableInv
  OBVIOUS
<1>1. \A t \in Threads : PlanInv(t) /\ CarriesNoEmpty(t)
  BY DEF Init, PlanInv, CarriesNoEmpty
<1>2. \A r \in Routers : keys_of(r) = {}
  BY DEF Init, keys_of
<1> QED  BY <1>1, <1>2, IInvInit DEF TableInv, FullInv, StorageNeverEmpty

(* Every step preserves it. *)
LEMMA TableInvNext ==
  ASSUME NullIsNoMap PROVE TableInv /\ NothingLost /\ [Next]_vars => TableInv'
<1> SUFFICES ASSUME TableInv, NothingLost, [Next]_vars PROVE TableInv'
  OBVIOUS
<1>1. IInv'
  BY IInvNext DEF TableInv
<1>2. ASSUME NEW t \in Threads, register(t) \/ use_step(t) PROVE TableInv'
  BY <1>1, <1>2, FullRegister, FullUse, PlansAside DEF TableInv, RowsKept
<1>3. ASSUME NEW t \in Threads, add_step(t) PROVE TableInv'
  BY <1>1, <1>3, FullAdd, PlansAside DEF TableInv
<1>4. ASSUME NEW t \in Threads,
             process_step(t) \/ \E r \in Routers, q \in Request : process_request(t, r, q)
      PROVE  TableInv'
  BY <1>1, <1>4, PlanDispatch, FullsAside DEF TableInv
<1>5. ASSUME UNCHANGED vars PROVE TableInv'
  <2>1. UNCHANGED <<map_vars, add_vars, use_vars>> /\ UNCHANGED dispatch_vars
    BY <1>5 DEF vars
  <2> QED  BY <1>1, <2>1, FullsAside, PlansAside, UnchangedRows DEF TableInv, RowsKept
<1> QED  BY <1>2, <1>3, <1>4, <1>5 DEF Next

(* No storage in the maps is ever without a callback, as long as emplace    *)
(* leaves alone the argument it does not insert or no route is registered  *)
(* twice.                                                                  *)
THEOREM StorageNeverEmptyHolds ==
  ASSUME NullIsNoMap PROVE Spec /\ []NothingLost => []StorageNeverEmpty
<1>1. TableInv => StorageNeverEmpty
  BY DEF TableInv, FullInv
<1> QED  BY <1>1, TableInvInit, TableInvNext, PTL DEF Spec
-----------------------------------------------------------------------------
(* The steps of the table. *)
TableBar == [r \in Routers |-> Row(r)]
CallsBar == [t \in Threads |-> CallsOf(t)]

(* A step that keeps the rows and the calls is not seen. *)
LEMMA TableStutters ==
  ASSUME RowsKept, \A t \in Threads : CallsOf(t)' = CallsOf(t)
  PROVE  UNCHANGED Table!vars
BY DEF RowsKept, Row, CallsOf, Table!vars

(* One that changes one entry registers. *)
LEMMA TableRegisters ==
  ASSUME NEW r \in Routers, NEW key, NEW v \in Nat \ {0},
         Row(r)' = Put(Row(r), key, v), \A q \in Routers : q # r => Row(q)' = Row(q),
         \A t \in Threads : CallsOf(t)' = CallsOf(t)
  PROVE  Table!Register(r)
<1>1. TableBar' = [TableBar EXCEPT ![r] = Put(TableBar[r], key, TableBar'[r][key])]
  BY DEF TableBar, Put
<1>2. key \in DOMAIN TableBar'[r] /\ TableBar'[r][key] \in Nat \ {0}
  BY DEF TableBar, Put
<1>3. CallsBar' = CallsBar
  BY DEF CallsBar
<1> QED  BY <1>1, <1>2, <1>3 DEF TableBar, CallsBar, Row, CallsOf, Put, Table!Register, Table!Put

(* One that gives a thread without calls those for a request asks. *)
LEMMA TableAnswers ==
  ASSUME RowsKept, NEW t \in Threads, NEW r \in Routers, NEW q \in Request,
         CallsOf(t) = {}, CallsOf(t)' = {<<k, Row(r)[k]>> : k \in answer(Row(r), q)},
         \A u \in Threads : u # t => CallsOf(u)' = CallsOf(u)
  PROVE  Table!Ask(t, r, q)
<1>1. TableBar' = TableBar
  BY DEF TableBar, RowsKept
<1>2. CallsBar' = [CallsBar EXCEPT ![t] = {<<k, TableBar[r][k]>> : k \in answer(TableBar[r], q)}]
  BY DEF TableBar, CallsBar
<1>3. CallsBar[t] = {}
  BY DEF CallsBar
<1> QED  BY <1>1, <1>2, <1>3 DEF TableBar, CallsBar, Row, CallsOf, Table!Ask

(* One that takes away a call that is still registered calls. *)
LEMMA TableCalls ==
  ASSUME RowsKept, NEW t \in Threads, NEW r \in Routers, NEW k \in keys_of(r),
         <<k, storage_of(r, k)>> \in CallsOf(t),
         CallsOf(t)' = CallsOf(t) \ {<<k, storage_of(r, k)>>},
         \A u \in Threads : u # t => CallsOf(u)' = CallsOf(u)
  PROVE  Table!Call(t, r)
<1> DEFINE c == <<k, storage_of(r, k)>>
<1>1. TableBar' = TableBar
  BY DEF TableBar, RowsKept
<1>2. CallsBar' = [CallsBar EXCEPT ![t] = CallsBar[t] \ {c}]
  BY DEF CallsBar
<1>3. c \in CallsBar[t] /\ c[1] \in DOMAIN TableBar[r] /\ TableBar[r][c[1]] = c[2]
  BY DEF CallsBar, TableBar, Row
<1> QED  BY <1>1, <1>2, <1>3 DEF TableBar, CallsBar, Row, CallsOf, Table!Call
-----------------------------------------------------------------------------
(* A session with callbacks to call asks a router it reads. *)
LEMMA PlanReads ==
  ASSUME TableInv, NEW u \in Threads, plan[u] # {}, NEW r, r = asked[u].router
  PROVE  r \in Routers /\ plan[u] \subseteq keys_of(r) /\ u \in mutex[r].readers
BY DEF TableInv, PlanInv, IInv, ThreadInv, DispatchInv, Asked

(* Its calls stand while its router's entries do. *)
LEMMA CallsKept ==
  ASSUME NEW u \in Threads, plan'[u] = plan[u], plan[u] # {} => asked'[u] = asked[u],
         NEW r, r = asked[u].router, \A k \in plan[u] : storage_of(r, k)' = storage_of(r, k)
  PROVE  CallsOf(u)' = CallsOf(u)
BY DEF CallsOf, storage_of

(* Calls stand while all entries do. *)
LEMMA AllCallsKept ==
  ASSUME TableInv, RowsKept, NEW u \in Threads,
         plan'[u] = plan[u], plan[u] # {} => asked'[u] = asked[u]
  PROVE  CallsOf(u)' = CallsOf(u)
<1>1. PICK r : r = asked[u].router
  OBVIOUS
<1>2. \A k \in plan[u] : storage_of(r, k)' = storage_of(r, k)
  BY <1>1, PlanReads DEF RowsKept
<1> QED  BY <1>1, <1>2, CallsKept

(* A request is answered by what the table holds for it. *)
LEMMA Provided ==
  ASSUME NEW r, NEW q PROVE answer(Row(r), q) = provided(r, q)
BY DEF answer, provided, matching, Row

(* emplace registers; the other steps of a registration are not seen. *)
LEMMA StepAdd ==
  ASSUME TableInv, IInv', NullIsNoMap, NothingLost, NEW t \in Threads, add_step(t)
  PROVE  (\E r \in Routers : Table!Register(r)) \/ UNCHANGED Table!vars
<1> USE DEF TableInv
<1>1. UNCHANGED dispatch_vars
  BY FullAdd
<1>2. CASE add_emplace(t)
  <2>1. PICK r, key : r = job[t].router /\ key = <<job[t].method, job[t].path>>
    OBVIOUS
  <2>2. /\ keys_of(r)' = keys_of(r) \cup {key} /\ storage_of(r, key)' = job[t].storage
        /\ \A k \in keys_of(r) : k # key => storage_of(r, k)' = storage_of(r, k)
        /\ \A q \in Routers : q # r => keys_of(q)' = keys_of(q) /\ Row(q)' = Row(q)
        /\ \A q \in Routers : q # r => \A k : storage_of(q, k)' = storage_of(q, k)
    <3>1. EmplaceKeeps \/ key \notin keys_of(r)
      BY <1>2, <2>1 DEF NothingLost, FilesNewKeys, KeyOf, add_emplace
    <3> QED  BY <1>2, <2>1, <3>1, EmplaceRows
  <2>3. r \in Routers /\ job[t].storage \in Nat \ {0} /\ mutex[r].readers = {}
    BY <1>2, <2>1, NullAssumption DEF FullInv, CarriesNoEmpty, IInv, ThreadInv, AddInv, LockInv,
       Job, add_emplace
  <2>4. Row(r)' = Put(Row(r), key, job[t].storage)
    BY <2>2 DEF Row, Put
  <2>5. ASSUME NEW u \in Threads PROVE CallsOf(u)' = CallsOf(u)
    <3>1. PICK s : s = asked[u].router
      OBVIOUS
    <3>2. \A k \in plan[u] : storage_of(s, k)' = storage_of(s, k)
      BY <2>2, <2>3, <3>1, PlanReads
    <3> QED  BY <1>1, <3>1, <3>2, CallsKept DEF dispatch_vars
  <2> QED  BY <2>2, <2>3, <2>4, <2>5, TableRegisters
<1>3. CASE ~add_emplace(t)
  BY <1>1, <1>3, FullAdd, AllCallsKept, TableStutters DEF dispatch_vars
<1> QED  BY <1>2, <1>3

(* Neither are the interface and a mount. *)
LEMMA StepRegister ==
  ASSUME TableInv, NEW t \in Threads, register(t) \/ use_step(t)
  PROVE  UNCHANGED Table!vars
BY FullRegister, FullUse, AllCallsKept, TableStutters DEF dispatch_vars

(* provide asks, execute calls; the locks of a session are not seen. *)
LEMMA StepDispatch ==
  ASSUME TableInv, NEW t \in Threads,
         process_step(t) \/ \E r \in Routers, q \in Request : process_request(t, r, q)
  PROVE  \/ \E r \in Routers : Table!Call(t, r) \/ \E q \in Request : Table!Ask(t, r, q)
         \/ UNCHANGED Table!vars
<1> USE DEF TableInv
<1>1. RowsKept
  BY PlanDispatch, UnchangedRows
<1>2. ASSUME NEW u \in Threads, u # t PROVE CallsOf(u)' = CallsOf(u)
  <2>1. plan'[u] = plan[u] /\ asked'[u] = asked[u]
    BY <1>2 DEF process_step, process_lock, provide, execute, handler_return, process_return,
       process_request, IInv, RouterTypeOK
  <2> QED  BY <1>1, <2>1, AllCallsKept
<1>3. CASE provide(t)
  <2>1. PICK r, q : r = asked[t].router /\ q = asked[t].request
    OBVIOUS
  <2>2. r \in Routers /\ q \in Request /\ plan[t] = {}
    BY <1>3, <2>1 DEF provide, PlanInv, IInv, ThreadInv, DispatchInv, Asked
  <2>3. plan'[t] = provided(r, q) /\ asked' = asked
    BY <1>3, <2>1 DEF provide, IInv, RouterTypeOK
  <2>4. provided(r, q) \subseteq keys_of(r)
    BY DEF provided, matching
  <2>5. CallsOf(t)' = {<<k, storage_of(r, k)'>> : k \in provided(r, q)}
    BY <2>1, <2>3 DEF CallsOf, storage_of
  <2>6. \A k \in provided(r, q) : storage_of(r, k)' = Row(r)[k]
    BY <1>1, <2>2, <2>4 DEF RowsKept, Row
  <2>7. CallsOf(t)' = {<<k, Row(r)[k]>> : k \in answer(Row(r), q)}
    BY <2>5, <2>6, Provided
  <2>8. CallsOf(t) = {}
    BY <2>2 DEF CallsOf
  <2> QED  BY <1>1, <1>2, <2>2, <2>7, <2>8, TableAnswers
<1>4. ASSUME NEW k \in plan[t], execute(t, k)
      PROVE  \E r \in Routers : Table!Call(t, r)
  <2>1. PICK r : r = asked[t].router
    OBVIOUS
  <2>2. r \in Routers /\ plan[t] \subseteq keys_of(r)
    BY <1>4, <2>1, PlanReads
  <2>3. plan'[t] = plan[t] \ {k} /\ asked' = asked
    BY <1>4 DEF execute, IInv, RouterTypeOK
  <2>4. CallsOf(t)' = {<<l, storage_of(r, l)'>> : l \in plan[t] \ {k}}
    BY <2>1, <2>3 DEF CallsOf, storage_of
  <2>5. CallsOf(t) = {<<l, storage_of(r, l)>> : l \in plan[t]}
    BY <2>1 DEF CallsOf
  <2>6. \A l \in plan[t] : storage_of(r, l)' = storage_of(r, l)
    BY <1>1, <2>2 DEF RowsKept
  <2>7. <<k, storage_of(r, k)>> \in CallsOf(t)
    BY <2>5
  <2>8. CallsOf(t)' = CallsOf(t) \ {<<k, storage_of(r, k)>>}
    BY <2>4, <2>5, <2>6
  <2> QED  BY <1>1, <1>2, <2>2, <2>7, <2>8, TableCalls
<1>5. CASE process_lock(t) \/ handler_return(t) \/ process_return(t)
           \/ \E r \in Routers, q \in Request : process_request(t, r, q)
  <2>1. plan'[t] = plan[t] /\ (plan[t] # {} => asked'[t] = asked[t])
    BY <1>5 DEF process_lock, handler_return, process_return, process_request, PlanInv,
       IInv, RouterTypeOK
  <2>2. \A u \in Threads : CallsOf(u)' = CallsOf(u)
    BY <1>1, <1>2, <2>1, AllCallsKept
  <2> QED  BY <1>1, <2>2, TableStutters
<1> QED  BY <1>3, <1>4, <1>5 DEF process_step

(* Routers without routes have an empty table. *)
LEMMA TableInit == Init => Table!Init
<1> SUFFICES ASSUME Init PROVE Table!Init
  OBVIOUS
<1>1. \A r \in Routers : keys_of(r) = {}
  BY DEF Init, keys_of
<1>2. \A r \in Routers : Row(r) = <<>>
  BY <1>1 DEF Row
<1>3. \A t \in Threads : CallsOf(t) = {}
  BY DEF Init, CallsOf
<1> QED  BY <1>2, <1>3 DEF Table!Init, Row, CallsOf

(* Every step is one of the table, or not seen. *)
LEMMA TableNext ==
  ASSUME NullIsNoMap
  PROVE  TableInv /\ TableInv' /\ NothingLost /\ [Next]_vars => [Table!Next]_(Table!vars)
<1> SUFFICES ASSUME TableInv, TableInv', NothingLost, [Next]_vars PROVE [Table!Next]_(Table!vars)
  OBVIOUS
<1>1. CASE UNCHANGED vars
  <2>1. UNCHANGED map_vars /\ UNCHANGED dispatch_vars
    BY <1>1 DEF vars
  <2> QED  BY <2>1, UnchangedRows, AllCallsKept, TableStutters DEF dispatch_vars
<1>2. ASSUME NEW t \in Threads, add_step(t) PROVE [Table!Next]_(Table!vars)
  BY <1>2, StepAdd DEF TableInv, Table!Next
<1>3. ASSUME NEW t \in Threads, register(t) \/ use_step(t) PROVE [Table!Next]_(Table!vars)
  BY <1>3, StepRegister
<1>4. ASSUME NEW t \in Threads,
             process_step(t) \/ \E r \in Routers, q \in Request : process_request(t, r, q)
      PROVE  [Table!Next]_(Table!vars)
  BY <1>4, StepDispatch DEF Table!Next
<1> QED  BY <1>1, <1>2, <1>3, <1>4 DEF Next

(* The maps and locks of the routers implement the table: a registration    *)
(* replaces one key at one instant, a request is answered by the routes of  *)
(* one instant, and each callback that runs is registered at that time.     *)
(* What emplace moves is lost only if a route is registered twice.          *)
THEOREM RouterImplementsTable ==
  ASSUME NullIsNoMap PROVE Spec /\ []NothingLost => ImplementsTable
<1>1. Init => TableInv /\ Table!Init
  BY TableInvInit, TableInit
<1>2. TableInv /\ NothingLost /\ [Next]_vars => TableInv'
  BY TableInvNext
<1>3. TableInv /\ TableInv' /\ NothingLost /\ [Next]_vars => [Table!Next]_(Table!vars)
  BY TableNext
<1> QED  BY <1>1, <1>2, <1>3, PTL DEF Spec, ImplementsTable, Table!Spec
-----------------------------------------------------------------------------
(* The expressions of the examples: anchored at both ends, or at neither.   *)
Body == Seq({".*"} \cup Names)
Enclosed(s) == <<"^">> \o s \o <<"$">>
Straight(regex) == \E s \in Body : regex \in {s, Enclosed(s)}
PathsAreStraight == \A path \in Paths : Straight(path)
PrefixesAreLiteral ==
  \A mount \in Mounts : \E q \in Seq(Names) : mount[2] \in {q, Enclosed(q)}

(* The tokens of an enclosed expression. *)
LEMMA EnclosedAt ==
  ASSUME NEW s \in Body
  PROVE  /\ Enclosed(s) \in Regex /\ s \in Regex /\ Len(Enclosed(s)) = Len(s) + 2
         /\ Enclosed(s)[1] = "^" /\ Enclosed(s)[Len(s) + 2] = "$"
         /\ \A i \in 1 .. Len(s) : Enclosed(s)[i + 1] = s[i]
BY DEF Enclosed, Body, Regex

(* Nothing between the anchors is one. *)
LEMMA BodyAt ==
  ASSUME NEW s \in Body, NEW i \in 1 .. Len(s)
  PROVE  IsSegment(s[i])
BY NamesAssumption DEF Body, IsSegment

(* Counting an anchor that does not occur, or occurs once. *)
LEMMA CountNone ==
  ASSUME NEW regex, NEW a, \A i \in DOMAIN regex : regex[i] # a
  PROVE  CountOf(regex, a) = 0
<1>1. {i \in DOMAIN regex : regex[i] = a} = {}
  OBVIOUS
<1> QED  BY <1>1, FS_EmptySet DEF CountOf

(* A token at one position only is counted once. *)
LEMMA CountOne ==
  ASSUME NEW regex, NEW a, NEW n \in DOMAIN regex, regex[n] = a,
         \A i \in DOMAIN regex : regex[i] = a => i = n
  PROVE  CountOf(regex, a) = 1
<1>1. {i \in DOMAIN regex : regex[i] = a} = {n}
  OBVIOUS
<1> QED  BY <1>1, FS_Singleton DEF CountOf

(* What is between the anchors. *)
LEMMA SegmentsAre ==
  ASSUME NEW s \in Body, NEW regex \in {s, Enclosed(s)}
  PROVE  AnchorsOutside(regex) /\ Segments(regex) = s
<1>0. Len(s) \in Nat /\ DOMAIN s = 1 .. Len(s) /\ s \in Seq({".*"} \cup Names)
  BY DEF Body
<1>1. CASE regex = s
  <2>1. \A i \in DOMAIN s : s[i] # "^" /\ s[i] # "$"
    BY <1>0, BodyAt DEF IsSegment
  <2>2. CountOf(s, "^") = 0 /\ CountOf(s, "$") = 0
    BY <2>1, CountNone
  <2>3. Segments(s) = SubSeq(s, 1, Len(s))
    BY <1>0, <2>2 DEF Segments
  <2>4. SubSeq(s, 1, Len(s)) = s
    BY <1>0
  <2> QED  BY <1>1, <2>1, <2>3, <2>4 DEF AnchorsOutside
<1>2. CASE regex = Enclosed(s)
  <2>1. DOMAIN regex = 1 .. Len(s) + 2
    BY <1>0, <1>2, EnclosedAt DEF Regex
  <2>2. \A i \in DOMAIN regex : /\ i = 1 => regex[i] = "^"
                                /\ i = Len(s) + 2 => regex[i] = "$"
                                /\ i # 1 /\ i # Len(s) + 2 => IsSegment(regex[i])
    <3> SUFFICES ASSUME NEW i \in DOMAIN regex, i # 1, i # Len(s) + 2
                 PROVE  IsSegment(regex[i])
      BY <1>2, EnclosedAt
    <3>1. i - 1 \in 1 .. Len(s) /\ (i - 1) + 1 = i
      BY <1>0, <2>1
    <3>2. regex[i] = s[i - 1]
      BY <1>2, <3>1, EnclosedAt
    <3> QED  BY <3>1, <3>2, BodyAt
  <2>3. CountOf(regex, "^") = 1 /\ CountOf(regex, "$") = 1
    <3>1. 1 \in DOMAIN regex /\ Len(s) + 2 \in DOMAIN regex
      BY <1>0, <2>1
    <3>2. regex[1] = "^" /\ \A i \in DOMAIN regex : regex[i] = "^" => i = 1
      BY <2>2, <3>1 DEF IsSegment
    <3>3. regex[Len(s) + 2] = "$" /\ \A i \in DOMAIN regex : regex[i] = "$" => i = Len(s) + 2
      BY <1>0, <2>2, <3>1 DEF IsSegment
    <3> QED  BY <3>1, <3>2, <3>3, CountOne
  <2>4. Segments(regex) = SubSeq(regex, 2, Len(s) + 1)
    <3>1. Len(regex) = Len(s) + 2
      BY <1>2, EnclosedAt
    <3> QED  BY <1>0, <2>3, <3>1 DEF Segments
  <2>5. SubSeq(regex, 2, Len(s) + 1) = s
    <3>1. regex \in Seq({"^", "$", ".*"} \cup Names) /\ Len(regex) = Len(s) + 2
      BY <1>2, EnclosedAt DEF Regex
    <3>2. \A i \in 1 .. Len(s) : regex[i + 1] = s[i]
      BY <1>2, EnclosedAt
    <3> QED  BY <1>0, <3>1, <3>2
  <2>6. AnchorsOutside(regex)
    BY <1>0, <2>1, <2>2 DEF AnchorsOutside, IsSegment
  <2> QED  BY <2>4, <2>5, <2>6
<1> QED  BY <1>1, <1>2

(* A body ends with ".*", or is the target. *)
Takes(s, x) == s = x \/ \E k \in 0 .. Len(x) : s = SubSeq(x, 1, k) \o <<".*">>
LEMMA MatchIs ==
  ASSUME NEW s \in Body, NEW regex \in {s, Enclosed(s)}, NEW x
  PROVE  match(regex, x) <=> Takes(s, x)
BY SegmentsAre DEF match, Takes

(* Which expressions are anchored. *)
LEMMA AnchoredIs ==
  ASSUME NEW s \in Body
  PROVE  ~Anchored(s) /\ Anchored(Enclosed(s))
<1>1. Len(s) \in Nat /\ (s # <<>> => 1 \in 1 .. Len(s))
  BY DEF Body
<1>2. ~Anchored(s)
  BY <1>1, BodyAt DEF Anchored, IsSegment
<1>3. Enclosed(s) # <<>>
  BY <1>1, EnclosedAt
<1> QED  BY <1>2, <1>3, EnclosedAt DEF Anchored

(* What concat() does to an anchored expression: it drops the last or the first token. *)
LEMMA CutEnclosed ==
  ASSUME NEW s \in Body
  PROVE  /\ SubSeq(Enclosed(s), 1, Len(Enclosed(s)) - 1) = <<"^">> \o s
         /\ Tail(Enclosed(s)) = s \o <<"$">>
<1>1. Len(s) \in Nat /\ Len(Enclosed(s)) = Len(s) + 2
  BY EnclosedAt DEF Body
<1>2. SubSeq(Enclosed(s), 1, Len(s) + 1) = <<"^">> \o s
  BY <1>1 DEF Enclosed, Body
<1>3. Tail(Enclosed(s)) = s \o <<"$">>
  BY <1>1 DEF Enclosed, Body
<1> QED  BY <1>1, <1>2, <1>3

(* What concat pastes together. *)
LEMMA ConcatIs ==
  ASSUME NEW q \in Body, NEW s \in Body, NEW r1 \in {q, Enclosed(q)}, NEW r2 \in {s, Enclosed(s)}
  PROVE  q \o s \in Body /\ concat(r1, r2) \in {q \o s, Enclosed(q \o s)}
<1>1. q \o s \in Body
  BY DEF Body
<1>2. CASE r1 = q /\ r2 = s
  <2>1. concat(r1, r2) = r1 \o r2
    BY Zenon, <1>2, AnchoredIs DEF concat
  <2> QED  BY <1>1, <1>2, <2>1
<1>3. CASE r1 = q /\ r2 = Enclosed(s)
  <2>1. concat(r1, r2) = (<<"^">> \o r1) \o Tail(r2)
    BY Zenon, <1>3, AnchoredIs DEF concat
  <2>2. (<<"^">> \o q) \o (s \o <<"$">>) = Enclosed(q \o s)
    BY DEF Enclosed, Body
  <2> QED  BY <1>1, <1>3, <2>1, <2>2, CutEnclosed
<1>4. CASE r1 = Enclosed(q) /\ r2 = s
  <2>1. concat(r1, r2) = SubSeq(r1, 1, Len(r1) - 1) \o r2 \o <<"$">>
    BY Zenon, <1>4, AnchoredIs DEF concat
  <2>2. (<<"^">> \o q) \o s \o <<"$">> = Enclosed(q \o s)
    BY DEF Enclosed, Body
  <2> QED  BY <1>1, <1>4, <2>1, <2>2, CutEnclosed
<1>5. CASE r1 = Enclosed(q) /\ r2 = Enclosed(s)
  <2>1. concat(r1, r2) = SubSeq(r1, 1, Len(r1) - 1) \o Tail(r2)
    BY Zenon, <1>5, AnchoredIs DEF concat
  <2>2. (<<"^">> \o q) \o (s \o <<"$">>) = Enclosed(q \o s)
    BY DEF Enclosed, Body
  <2> QED  BY <1>1, <1>5, <2>1, <2>2, CutEnclosed
<1> QED  BY <1>2, <1>3, <1>4, <1>5, <1>1


(* A literal is no shorter target with ".*" behind it. *)
LEMMA LiteralTakes ==
  ASSUME NEW q \in Seq(Names), NEW x \in Seq(Names)
  PROVE  q \in Body /\ (Takes(q, x) <=> q = x)
<1>1. q \in Body
  BY DEF Body
<1>2. ASSUME NEW k \in 0 .. Len(x), q = SubSeq(x, 1, k) \o <<".*">> PROVE FALSE
  <2>1. SubSeq(x, 1, k) \in Seq(Names) /\ Len(SubSeq(x, 1, k)) = k
    OBVIOUS
  <2>2. q[k + 1] = ".*" /\ k + 1 \in 1 .. Len(q)
    BY <1>2, <2>1
  <2> QED  BY <2>2, NamesAssumption
<1> QED  BY <1>1, <1>2 DEF Takes

(* Two expressions one after the other take the target that begins with what *)
(* the first takes and goes on with what the second takes.                  *)
LEMMA TakesBoth ==
  ASSUME NEW q \in Seq(Names), NEW s \in Body, NEW x \in Seq(Names)
  PROVE  Takes(q \o s, x) <=>
           \E k \in 0 .. Len(x) : q = SubSeq(x, 1, k) /\ Takes(s, SubSeq(x, k + 1, Len(x)))
<1>0. Len(q) \in Nat /\ Len(s) \in Nat /\ Len(x) \in Nat /\ s \in Seq({".*"} \cup Names)
  BY DEF Body
<1> DEFINE rest(k) == SubSeq(x, k + 1, Len(x))
<1>1. ASSUME NEW k \in 0 .. Len(x)
      PROVE  /\ rest(k) \in Seq(Names) /\ Len(rest(k)) = Len(x) - k
             /\ \A i \in 1 .. Len(x) - k : rest(k)[i] = x[k + i]
             /\ x = SubSeq(x, 1, k) \o rest(k)
  <2>1. /\ rest(k) \in Seq(Names) /\ Len(rest(k)) = Len(x) - k
        /\ \A i \in 1 .. Len(x) - k : rest(k)[i] = x[k + i]
    BY <1>0
  <2>2. SubSeq(x, 1, k) \in Seq(Names) /\ Len(SubSeq(x, 1, k)) = k
    BY <1>0
  <2>3. x = SubSeq(x, 1, k) \o rest(k)
    <3> HIDE DEF rest
    <3>1. Len(SubSeq(x, 1, k) \o rest(k)) = Len(x)
      BY <1>0, <2>1, <2>2
    <3>2. ASSUME NEW i \in 1 .. Len(x) PROVE (SubSeq(x, 1, k) \o rest(k))[i] = x[i]
      <4>1. CASE i <= k
        BY <1>0, <2>1, <2>2, <4>1
      <4>2. CASE i > k
        <5>1. i - k \in 1 .. Len(x) - k /\ k + (i - k) = i
          BY <1>0, <4>2
        <5>2. (SubSeq(x, 1, k) \o rest(k))[i] = rest(k)[i - k]
          BY <1>0, <2>1, <2>2, <4>2
        <5> QED  BY <2>1, <5>1, <5>2
      <4>3. i \in Int /\ k \in Int
        BY <1>0
      <4>4. i <= k \/ i > k
        BY <4>3
      <4> QED  BY Zenon, <4>1, <4>2, <4>4
    <3>3. SubSeq(x, 1, k) \o rest(k) \in Seq(Names)
      BY <2>1, <2>2
    <3> QED  BY <3>1, <3>2, <3>3, SeqEqual
  <2> QED  BY <2>1, <2>3
<1>2. ASSUME NEW k \in 0 .. Len(x), NEW j \in 0 .. Len(x) - k
      PROVE  SubSeq(x, 1, k) \o SubSeq(rest(k), 1, j) = SubSeq(x, 1, k + j)
  BY <1>0, <1>1
<1>3. ASSUME q \o s = x
      PROVE  Len(q) \in 0 .. Len(x) /\ q = SubSeq(x, 1, Len(q)) /\ s = rest(Len(q))
  BY <1>0, <1>3
<1>4. ASSUME NEW k \in 0 .. Len(x), q \o s = SubSeq(x, 1, k) \o <<".*">>
      PROVE  /\ Len(q) \in 0 .. k /\ q = SubSeq(x, 1, Len(q))
             /\ s = SubSeq(rest(Len(q)), 1, k - Len(q)) \o <<".*">>
  <2>1. Len(q \o s) = k + 1 /\ Len(q) + Len(s) = k + 1
    BY <1>0, <1>4
  <2>2. \A i \in 1 .. k : (q \o s)[i] = x[i]
    BY <1>0, <1>4
  <2>3. (q \o s)[k + 1] = ".*"
    BY <1>0, <1>4
  <2>4. Len(q) # k + 1
    <3>1. ASSUME Len(q) = k + 1 PROVE FALSE
      BY <1>0, <2>3, <3>1, NamesAssumption
    <3> QED  BY <3>1
  <2>5. Len(q) \in 0 .. k
    BY <1>0, <2>1, <2>4
  <2>6. q = SubSeq(x, 1, Len(q))
    BY <1>0, <2>2, <2>5
  <2>7. /\ Len(s) = k - Len(q) + 1 /\ s[k - Len(q) + 1] = ".*"
        /\ \A i \in 1 .. k - Len(q) : s[i] = x[Len(q) + i]
    BY <1>0, <2>1, <2>2, <2>3, <2>5
  <2>8. s = SubSeq(rest(Len(q)), 1, k - Len(q)) \o <<".*">>
    BY <1>0, <1>1, <2>5, <2>7
  <2> QED  BY <2>5, <2>6, <2>8
<1> HIDE DEF rest
<1>5. ASSUME Takes(q \o s, x)
      PROVE  \E k \in 0 .. Len(x) : q = SubSeq(x, 1, k) /\ Takes(s, rest(k))
  <2>1. CASE q \o s = x
    BY <1>3, <2>1 DEF Takes
  <2>2. ASSUME NEW k \in 0 .. Len(x), q \o s = SubSeq(x, 1, k) \o <<".*">>
        PROVE  Len(q) \in 0 .. Len(x) /\ q = SubSeq(x, 1, Len(q)) /\ Takes(s, rest(Len(q)))
    <3>1. /\ Len(q) \in 0 .. k /\ q = SubSeq(x, 1, Len(q))
          /\ s = SubSeq(rest(Len(q)), 1, k - Len(q)) \o <<".*">>
      BY <1>4, <2>2
    <3>2. Len(q) \in 0 .. Len(x) /\ k - Len(q) \in 0 .. Len(x) - Len(q)
      BY <1>0, <3>1
    <3>3. Len(rest(Len(q))) = Len(x) - Len(q)
      BY <1>1, <3>2
    <3> QED  BY <3>1, <3>2, <3>3 DEF Takes
  <2> QED  BY <1>5, <2>1, <2>2 DEF Takes
<1>6. ASSUME NEW k \in 0 .. Len(x), q = SubSeq(x, 1, k), Takes(s, rest(k))
      PROVE  Takes(q \o s, x)
  <2>1. CASE s = rest(k)
    BY <1>1, <1>6, <2>1 DEF Takes
  <2>2. ASSUME NEW j \in 0 .. Len(rest(k)), s = SubSeq(rest(k), 1, j) \o <<".*">>
        PROVE  Takes(q \o s, x)
    <3>1. j \in 0 .. Len(x) - k
      BY <1>1, <2>2
    <3>2. q \in Seq(Names) /\ SubSeq(rest(k), 1, j) \in Seq(Names)
      BY <1>0, <1>1, <3>1
    <3>3. q \o s = (q \o SubSeq(rest(k), 1, j)) \o <<".*">>
      <4>1. \A a, b \in Seq(Names) : a \o (b \o <<".*">>) = (a \o b) \o <<".*">>
        OBVIOUS
      <4> QED  BY <2>2, <3>2, <4>1
    <3>4. q \o s = SubSeq(x, 1, k + j) \o <<".*">>
      BY <1>2, <1>6, <3>1, <3>3
    <3>5. k + j \in 0 .. Len(x)
      BY <1>0, <3>1
    <3> QED  BY <3>4, <3>5 DEF Takes
  <2> QED  BY <1>6, <2>1, <2>2 DEF Takes
<1> QED  BY <1>5, <1>6 DEF rest

(* A route that is mounted answers what the mount is for. *)
LEMMA MountedMeans ==
  ASSUME NEW q \in Seq(Names), NEW prefix \in {q, Enclosed(q)},
         NEW path, Straight(path)
  PROVE  /\ Straight(concat(prefix, path))
         /\ TargetsOf(concat(prefix, path)) = MountedTargets(prefix, path)
<1>1. PICK s \in Body : path \in {s, Enclosed(s)}
  BY DEF Straight
<1>2. q \in Body
  BY DEF Body
<1>3. q \o s \in Body /\ concat(prefix, path) \in {q \o s, Enclosed(q \o s)}
  BY <1>1, <1>2, ConcatIs
<1>4. ASSUME NEW x \in Targets
      PROVE  match(concat(prefix, path), x) <=> x \in MountedTargets(prefix, path)
  <2>1. x \in Seq(Names) /\ Len(x) \in Nat
    BY PathsAssumption
  <2>2. match(concat(prefix, path), x) <=> Takes(q \o s, x)
    BY <1>3, MatchIs
  <2>3. ASSUME NEW k \in 0 .. Len(x)
        PROVE  /\ match(path, SubSeq(x, k + 1, Len(x))) <=> Takes(s, SubSeq(x, k + 1, Len(x)))
               /\ match(prefix, SubSeq(x, 1, k)) <=> q = SubSeq(x, 1, k)
               /\ prefix = <<>> /\ k = 0 => q = SubSeq(x, 1, k)
    <3>1. SubSeq(x, 1, k) \in Seq(Names)
      BY <2>1
    <3>2. match(prefix, SubSeq(x, 1, k)) <=> q = SubSeq(x, 1, k)
      <4>1. match(prefix, SubSeq(x, 1, k)) <=> Takes(q, SubSeq(x, 1, k))
        BY <1>2, MatchIs
      <4>2. Takes(q, SubSeq(x, 1, k)) <=> q = SubSeq(x, 1, k)
        BY <3>1, LiteralTakes
      <4> QED  BY <4>1, <4>2
    <3>3. ASSUME prefix = <<>>, k = 0 PROVE q = SubSeq(x, 1, k)
      <4>1. Enclosed(q) # <<>>
        BY <1>2, EnclosedAt
      <4>2. q = <<>>
        BY <3>3, <4>1
      <4>3. SubSeq(x, 1, 0) = <<>>
        BY <2>1
      <4> QED  BY <3>3, <4>2, <4>3
    <3> QED  BY <1>1, <3>2, <3>3, MatchIs
  <2>4. x \in MountedTargets(prefix, path) <=>
          \E k \in 0 .. Len(x) : q = SubSeq(x, 1, k) /\ Takes(s, SubSeq(x, k + 1, Len(x)))
    BY <2>3 DEF MountedTargets
  <2> QED  BY <2>1, <2>2, <2>4, TakesBoth
<1>5. TargetsOf(concat(prefix, path)) = MountedTargets(prefix, path)
  BY <1>4 DEF TargetsOf, MountedTargets
<1> QED  BY <1>3, <1>5 DEF Straight
-----------------------------------------------------------------------------
(* The expressions in the maps, in a mount and in a registration are        *)
(* straight, so that they may be mounted in their turn; a registration does *)
(* what was meant; and what a chain router notes is what the one chain node *)
(* was made for.                                                            *)
KeysStraight == \A r \in Routers : \A k \in keys_of(r) : Straight(k[2])
MountMeant(t) ==
  /\ \A e \in todo[t] : Straight(e.path)
  /\ source[t] # nobody =>
       \E q \in Seq(Names) : target_router[t].prefix \in {q, Enclosed(q)}
JobMeant(t) ==
  adding[t] # "no" =>
    /\ Straight(job[t].path)
    /\ OneChains => TargetsOf(job[t].path) = job[t].meant
NodeMeant(t) == OneChains /\ node[t] # nobody => tmp_res_regex[node[t].router] = node[t].path
MeantInv ==
  /\ IInv /\ KeysStraight
  /\ \A t \in Threads : MountMeant(t) /\ JobMeant(t) /\ NodeMeant(t)

(* The empty expression of a chain router without a route is straight. *)
LEMMA NothingStraight == Straight(<<>>)
<1>1. <<>> \in Body
  BY DEF Body
<1> QED  BY Zenon, <1>1 DEF Straight

(* A registration in progress is meant while it goes on. *)
LEMMA MeantAside ==
  ASSUME NEW u \in Threads, MountMeant(u), JobMeant(u), OneChains' => OneChains,
         adding'[u] # "no" => adding[u] # "no" /\ job'[u] = job[u],
         todo'[u] \subseteq todo[u],
         source'[u] # nobody => source[u] # nobody /\ target_router'[u] = target_router[u]
  PROVE  MountMeant(u)' /\ JobMeant(u)'
<1>1. MountMeant(u)'
  BY DEF MountMeant
<1>2. JobMeant(u)'
  BY DEF JobMeant, TargetsOf
<1> QED  BY <1>1, <1>2

(* One that begins is meant if its expression does what it is for. *)
LEMMA MeantBegins ==
  ASSUME IInv, NEW t \in Threads, NEW r, NEW m, NEW path, NEW storage, NEW meant,
         add_resource_cb(t, r, m, path, storage, meant), Straight(path),
         OneChains' => TargetsOf(path) = meant
  PROVE  /\ JobMeant(t)'
         /\ \A u \in Threads : u # t => adding'[u] = adding[u] /\ job'[u] = job[u]
<1>1. /\ adding' = [adding EXCEPT ![t] = "lock"]
      /\ job' = [job EXCEPT ![t] = [router |-> r, method |-> m, path |-> path,
                                    storage |-> storage, meant |-> meant]]
  BY DEF add_resource_cb
<1>2. job'[t].path = path /\ job'[t].meant = meant
  BY <1>1 DEF IInv, RouterTypeOK
<1>3. JobMeant(t)'
  BY <1>2 DEF JobMeant, TargetsOf
<1> QED  BY <1>1, <1>3 DEF IInv, RouterTypeOK

(* The steps that leave the nodes alone. *)
LEMMA NodesAside ==
  ASSUME MeantInv, UNCHANGED chain_vars
  PROVE  (OneChains' <=> OneChains) /\ \A u \in Threads : NodeMeant(u)'
BY DEF MeantInv, OneChains, NodeMeant, chain_vars

(* The keys stay straight if the maps do not change. *)
LEMMA KeysAside == ASSUME KeysStraight, UNCHANGED map_vars PROVE KeysStraight'
BY UnchangedRows DEF KeysStraight, RowsKept

(* A verb answers the path it is given. *)
LEMMA MeantVerb ==
  ASSUME MeantInv, IInv', PathsAreStraight, NEW t \in Threads, NEW r \in Routers,
         NEW m \in Methods \cup {NoMethod}, NEW path \in Paths, verb(t, r, m, path)
  PROVE  MeantInv'
<1>1. UNCHANGED <<map_vars, chain_vars, use_vars>>
  BY DEF verb
<1>2. /\ JobMeant(t)'
      /\ \A u \in Threads : u # t => adding'[u] = adding[u] /\ job'[u] = job[u]
  BY MeantBegins DEF MeantInv, verb, PathsAreStraight
<1>3. \A u \in Threads : MountMeant(u)'
  BY <1>1 DEF MeantInv, MountMeant, use_vars
<1>4. ASSUME NEW u \in Threads, u # t PROVE JobMeant(u)'
  BY <1>1, <1>2, <1>4, NodesAside DEF MeantInv, JobMeant, TargetsOf
<1> QED  BY <1>1, <1>2, <1>3, <1>4, NodesAside, KeysAside DEF MeantInv

(* route() notes the path where the node it makes will find it. *)
LEMMA MeantRoute ==
  ASSUME MeantInv, IInv', NEW t \in Threads, NEW r \in Routers, NEW path \in Paths,
         route(t, r, path)
  PROVE  MeantInv'
<1>1. /\ tmp_res_regex' = [tmp_res_regex EXCEPT ![r] = path]
      /\ node' = [node EXCEPT ![t] = [router |-> r, path |-> path]]
      /\ UNCHANGED <<map_vars, add_vars, use_vars>>
  BY DEF route
<1>2. node'[t] = [router |-> r, path |-> path] /\ tmp_res_regex'[r] = path
  BY <1>1 DEF MeantInv, IInv, RouterTypeOK
<1>3. \A u \in Threads : u # t => node'[u] = node[u]
  BY <1>1 DEF MeantInv, IInv, RouterTypeOK
<1>4. node'[t] # nobody
  BY <1>2, NullAssumption
<1>5. OneChains' => OneChains
  BY <1>3, <1>4 DEF OneChains
<1>6. \A u \in Threads : NodeMeant(u)'
  BY <1>2, <1>3, <1>4 DEF NodeMeant, OneChains
<1>7. \A u \in Threads : MountMeant(u)' /\ JobMeant(u)'
  BY <1>1, <1>5, MeantAside DEF MeantInv, add_vars, use_vars
<1> QED  BY <1>1, <1>6, <1>7, KeysAside DEF MeantInv

(* A chain node's verb answers the path of its route() if the router still  *)
(* holds it, as it does if no other thread chains.                          *)
LEMMA MeantChainVerb ==
  ASSUME MeantInv, IInv', PathsAreStraight, NEW t \in Threads,
         NEW m \in Methods \cup {NoMethod}, chain_verb(t, m)
  PROVE  MeantInv'
<1>1. UNCHANGED <<map_vars, chain_vars, use_vars>>
  BY DEF chain_verb
<1>2. OneChains' => tmp_res_regex[node[t].router] = node[t].path
  BY <1>1, NodesAside DEF MeantInv, NodeMeant, chain_verb
<1>3. Straight(tmp_res_regex[node[t].router])
  <2>1. tmp_res_regex[node[t].router] \in {<<>>} \cup Paths
    BY DEF MeantInv, IInv, RouterTypeOK, chain_verb
  <2> QED  BY Zenon, <2>1, NothingStraight DEF PathsAreStraight
<1>4. /\ JobMeant(t)'
      /\ \A u \in Threads : u # t => adding'[u] = adding[u] /\ job'[u] = job[u]
  BY <1>2, <1>3, MeantBegins DEF MeantInv, chain_verb
<1>5. \A u \in Threads : MountMeant(u)'
  BY <1>1 DEF MeantInv, MountMeant, use_vars
<1>6. ASSUME NEW u \in Threads, u # t PROVE JobMeant(u)'
  BY <1>1, <1>4, <1>6, NodesAside DEF MeantInv, JobMeant, TargetsOf
<1> QED  BY <1>1, <1>4, <1>5, <1>6, NodesAside, KeysAside DEF MeantInv

(* The interface is called. *)
LEMMA MeantRegister ==
  ASSUME MeantInv, IInv', PathsAreStraight, PrefixesAreLiteral, NEW t \in Threads, register(t)
  PROVE  MeantInv'
<1>1. ASSUME NEW mount \in Mounts, use_call(t, mount)
      PROVE  MeantInv'
  <2>1. /\ UNCHANGED <<map_vars, chain_vars, add_vars, todo>>
        /\ target_router' = [target_router EXCEPT ![t] = [router |-> mount[1], prefix |-> mount[2]]]
        /\ source' = [source EXCEPT ![t] = mount[3]]
    BY <1>1 DEF use_call
  <2>2. target_router'[t].prefix = mount[2]
    BY <2>1 DEF MeantInv, IInv, RouterTypeOK
  <2>3. \E q \in Seq(Names) : target_router'[t].prefix \in {q, Enclosed(q)}
    BY Zenon, <2>2 DEF PrefixesAreLiteral
  <2>4. \A u \in Threads : u # t => source'[u] = source[u] /\ target_router'[u] = target_router[u]
    BY <2>1 DEF MeantInv, IInv, RouterTypeOK
  <2>5. MountMeant(t)'
    BY <2>1, <2>3 DEF MeantInv, MountMeant
  <2>6. \A u \in Threads : JobMeant(u)'
    BY <2>1, NodesAside DEF MeantInv, JobMeant, TargetsOf, add_vars
  <2>7. ASSUME NEW u \in Threads, u # t PROVE MountMeant(u)'
    BY <2>1, <2>4, <2>7 DEF MeantInv, MountMeant
  <2> QED  BY <2>1, <2>5, <2>6, <2>7, NodesAside, KeysAside DEF MeantInv
<1> QED  BY <1>1, MeantVerb, MeantRoute, MeantChainVerb DEF register, all, chain_all

(* emplace adds a straight key; the other steps add none. *)
LEMMA MeantAdd ==
  ASSUME MeantInv, IInv', NullIsNoMap, NEW t \in Threads, add_step(t)
  PROVE  MeantInv'
<1>1. /\ UNCHANGED <<chain_vars, use_vars>>
      /\ \A u \in Threads : adding'[u] # "no" => adding[u] # "no" /\ job'[u] = job[u]
  BY DEF add_step, add_lock, add_insert, add_emplace, add_return, MeantInv, IInv, RouterTypeOK
<1>2. \A u \in Threads : MountMeant(u)' /\ JobMeant(u)'
  BY <1>1, NodesAside, MeantAside DEF MeantInv, use_vars
<1>3. KeysStraight'
  <2>1. CASE add_lock(t) \/ add_return(t)
    BY <2>1, KeysAside DEF MeantInv, add_lock, add_return
  <2>2. CASE add_insert(t)
    BY <2>2, InsertRows DEF MeantInv, KeysStraight
  <2>3. CASE add_emplace(t)
    <3>1. PICK r, key : r = job[t].router /\ key = <<job[t].method, job[t].path>>
      OBVIOUS
    <3>2. /\ keys_of(r)' = keys_of(r) \cup {key}
          /\ \A q \in Routers : q # r => keys_of(q)' = keys_of(q)
      BY <2>3, <3>1, EmplaceRows DEF MeantInv
    <3>3. Straight(key[2])
      BY <2>3, <3>1 DEF MeantInv, JobMeant, add_emplace
    <3> QED  BY <3>2, <3>3 DEF MeantInv, KeysStraight
  <2> QED  BY <2>1, <2>2, <2>3 DEF add_step
<1> QED  BY <1>1, <1>2, <1>3, NodesAside DEF MeantInv

(* A mount copies straight expressions, and pastes the prefix to them. *)
LEMMA MeantUse ==
  ASSUME MeantInv, IInv', NEW t \in Threads, use_step(t)
  PROVE  MeantInv'
<1>1. UNCHANGED <<map_vars, chain_vars>>
  BY DEF use_step, use_lock, use_next, use_return
<1>2. CASE use_lock(t)
  <2>1. /\ UNCHANGED <<add_vars, source, target_router>> /\ source[t] \in Routers
        /\ todo' = [todo EXCEPT ![t] =
             {[method |-> k[1], path |-> k[2], storage |-> storage_of(source[t], k)] :
                k \in keys_of(source[t])}]
    BY <1>2 DEF use_lock, MeantInv, IInv, RouterTypeOK
  <2>2. \A e \in todo'[t] : Straight(e.path)
    BY <2>1 DEF MeantInv, KeysStraight, IInv, RouterTypeOK
  <2>3. \A u \in Threads : u # t => todo'[u] = todo[u]
    BY <2>1 DEF MeantInv, IInv, RouterTypeOK
  <2>4. MountMeant(t)'
    BY <2>1, <2>2 DEF MeantInv, MountMeant
  <2>5. ASSUME NEW u \in Threads, u # t PROVE MountMeant(u)'
    BY <2>1, <2>3, <2>5 DEF MeantInv, MountMeant
  <2>6. \A u \in Threads : JobMeant(u)'
    BY <1>1, <2>1, NodesAside DEF MeantInv, JobMeant, TargetsOf, add_vars
  <2> QED  BY <1>1, <2>4, <2>5, <2>6, NodesAside, KeysAside DEF MeantInv
<1>3. ASSUME NEW e \in todo[t], use_next(t, e)
      PROVE  MeantInv'
  <2>1. PICK prefix : prefix = target_router[t].prefix
    OBVIOUS
  <2>2. PICK q \in Seq(Names) : prefix \in {q, Enclosed(q)}
    BY <1>3, <2>1 DEF use_next, Mounting, MeantInv, MountMeant
  <2>3. /\ Straight(concat(prefix, e.path))
        /\ TargetsOf(concat(prefix, e.path)) = MountedTargets(prefix, e.path)
    BY <2>2, MountedMeans DEF MeantInv, MountMeant
  <2>4. /\ JobMeant(t)'
        /\ \A u \in Threads : u # t => adding'[u] = adding[u] /\ job'[u] = job[u]
    BY <1>3, <2>1, <2>3, MeantBegins DEF MeantInv, use_next
  <2>5. /\ UNCHANGED <<source, target_router>>
        /\ \A u \in Threads : todo'[u] \subseteq todo[u]
    BY <1>3 DEF use_next, MeantInv, IInv, RouterTypeOK
  <2>6. \A u \in Threads : MountMeant(u)'
    BY <2>5 DEF MeantInv, MountMeant
  <2>7. ASSUME NEW u \in Threads, u # t PROVE JobMeant(u)'
    BY <1>1, <2>4, <2>7, NodesAside DEF MeantInv, JobMeant, TargetsOf
  <2> QED  BY <1>1, <2>4, <2>6, <2>7, NodesAside, KeysAside DEF MeantInv
<1>4. CASE use_return(t)
  <2>1. /\ UNCHANGED <<add_vars, todo>>
        /\ \A u \in Threads : source'[u] # nobody =>
             source[u] # nobody /\ target_router'[u] = target_router[u]
    BY <1>4 DEF use_return, MeantInv, IInv, RouterTypeOK
  <2>2. \A u \in Threads : MountMeant(u)' /\ JobMeant(u)'
    BY <1>1, <2>1, NodesAside, MeantAside DEF MeantInv, add_vars
  <2> QED  BY <1>1, <2>2, NodesAside, KeysAside DEF MeantInv
<1> QED  BY <1>2, <1>3, <1>4 DEF use_step

(* Dispatching leaves what is registered alone. *)
LEMMA MeantDispatch ==
  ASSUME MeantInv, IInv', UNCHANGED <<map_vars, chain_vars, add_vars, use_vars>>
  PROVE  MeantInv'
<1>1. \A u \in Threads : MountMeant(u)' /\ JobMeant(u)'
  BY NodesAside, MeantAside DEF MeantInv, add_vars, use_vars
<1> QED  BY <1>1, NodesAside, KeysAside DEF MeantInv

(* The invariant holds, from the start and in every step. *)
LEMMA MeantInvHolds ==
  ASSUME NullIsNoMap, PathsAreStraight, PrefixesAreLiteral PROVE Spec => []MeantInv
<1>1. Init => MeantInv
  <2> SUFFICES ASSUME Init PROVE MeantInv
    OBVIOUS
  <2>1. \A r \in Routers : keys_of(r) = {}
    BY DEF Init, keys_of
  <2>2. \A t \in Threads : MountMeant(t) /\ JobMeant(t) /\ NodeMeant(t)
    BY DEF Init, MountMeant, JobMeant, NodeMeant
  <2> QED  BY <2>1, <2>2, IInvInit DEF MeantInv, KeysStraight
<1>2. MeantInv /\ [Next]_vars => MeantInv'
  <2> SUFFICES ASSUME MeantInv, [Next]_vars PROVE MeantInv'
    OBVIOUS
  <2>1. IInv'
    BY IInvNext DEF MeantInv
  <2>2. ASSUME NEW t \in Threads,
               process_step(t) \/ \E r \in Routers, q \in Request : process_request(t, r, q)
        PROVE  UNCHANGED <<map_vars, chain_vars, add_vars, use_vars>>
    BY <2>2 DEF process_step, process_lock, provide, execute, handler_return, process_return,
                process_request
  <2>3. CASE UNCHANGED vars
    BY <2>1, <2>3, MeantDispatch DEF vars
  <2>4. ASSUME NEW t \in Threads, register(t) PROVE MeantInv'
    BY <2>1, <2>4, MeantRegister
  <2>5. ASSUME NEW t \in Threads, add_step(t) PROVE MeantInv'
    BY <2>1, <2>5, MeantAdd
  <2>6. ASSUME NEW t \in Threads, use_step(t) PROVE MeantInv'
    BY <2>1, <2>6, MeantUse
  <2>7. ASSUME NEW t \in Threads,
               process_step(t) \/ \E r \in Routers, q \in Request : process_request(t, r, q)
        PROVE  MeantInv'
    BY <2>1, <2>2, <2>7, MeantDispatch
  <2> QED  BY <2>3, <2>4, <2>5, <2>6, <2>7 DEF Next
<1> QED  BY <1>1, <1>2, PTL DEF Spec

(* What is registered answers what it was meant for, if the paths have both *)
(* anchors or none, the prefixes of mounts are literal, and no two threads  *)
(* chain: through any number of mounts inside mounts.                       *)
THEOREM RegistersWhatWasMeantHolds ==
  ASSUME NullIsNoMap, PathsAreStraight, PrefixesAreLiteral
  PROVE  Spec => []RegistersWhatWasMeant
<1>1. MeantInv => RegistersWhatWasMeant
  BY DEF MeantInv, JobMeant, RegistersWhatWasMeant
<1> QED  BY <1>1, MeantInvHolds, PTL
=============================================================================
