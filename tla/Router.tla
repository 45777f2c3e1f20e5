------------------------------- MODULE Router -------------------------------
(***************************************************************************)
(* Routers, the threads that register routes with them (verbs, chains,     *)
(* mounts) and the sessions that dispatch requests through them.           *)
(*                                                                         *)
(* A registration locks the router for writing, a mount holds the mounted  *)
(* router for reading around a registration for each of its routes, and a  *)
(* session runs every route handler of a request under the read lock.      *)
(*                                                                         *)
(* A regular expression is a sequence of tokens: "^", "$", ".*" and path   *)
(* segments; a target is a sequence of segments.  A storage of callbacks   *)
(* is the number of the registration that built it, 0 once moved from.     *)
(***************************************************************************)
EXTENDS Naturals, Sequences, FiniteSets

CONSTANTS
  Routers, Threads,
  Registrars,        \* the threads that call verbs, chains and mounts
  Sessions,          \* the threads that run sessions
  Names,             \* the path segments
  Methods, NoMethod, \* NoMethod: the key of a route for all methods
  Paths, Targets,    \* the expressions routes are registered with; the targets asked for
  Mounts,            \* the triples <<this, prefix, other>> of this.use(prefix, other)
  Chains,            \* the routers of type chain_router
  nullptr, nobody,
  EmplaceMoves,      \* may emplace move its argument although it inserts nothing?
  WriterBlocks,      \* do new readers wait behind a waiting writer? (boost: yes)
  HandlersRegister,  \* do route handlers register routes?
  MaxRegistrations   \* bound: storages built

Regex == Seq({"^", "$", ".*"} \cup Names)

ASSUME RolesAssumption == Registrars \subseteq Threads /\ Sessions \subseteq Threads
ASSUME NullAssumption ==
  /\ NoMethod \notin Methods
  /\ nobody \notin Threads \cup Routers \cup [router : Routers, path : Paths]
ASSUME NamesAssumption == Names \cap {"^", "$", ".*"} = {}
ASSUME PathsAssumption == Paths \subseteq Regex /\ Targets \subseteq Seq(Names)
ASSUME MountsAssumption == Mounts \subseteq Routers \X Regex \X Routers
ASSUME ChainsAssumption == Chains \subseteq Routers
ASSUME FlagsAssumption ==
  /\ EmplaceMoves \subseteq BOOLEAN /\ EmplaceMoves # {}
  /\ WriterBlocks \in BOOLEAN /\ HandlersRegister \in BOOLEAN
ASSUME BoundAssumption == MaxRegistrations \in Nat

VARIABLES
  resource_map,   \* resource_map_: a map from path to storage, or nullptr
  method_map,     \* method_map_: a map from method to such a map, or nullptr
  tmp_res_regex,  \* tmp_res_regex_ of a chain router
  node,           \* the chain node a thread holds: its router and the path asked for
  mutex,          \* mutex_: its writer and its readers
  adding,         \* where a thread is in add_resource_cb ("no": not in it)
  job,            \* what it registers there
  source,         \* the router a thread is mounting, or nobody
  target_router,  \* the router it is mounted on, with the prefix
  todo,           \* the routes of it still to be registered
  dispatching,    \* where a session is in do_process_request
  asked,          \* the router and the request it dispatches
  plan,           \* the matching entries it has still to execute
  built           \* storages built so far

map_vars == <<resource_map, method_map>>
chain_vars == <<tmp_res_regex, node>>
add_vars == <<adding, job, built>>
use_vars == <<source, target_router, todo>>
dispatch_vars == <<dispatching, asked, plan>>
vars == <<map_vars, chain_vars, mutex, add_vars, use_vars, dispatch_vars>>

Keys == (Methods \cup {NoMethod}) \X Regex
Entry == [method : Methods \cup {NoMethod}, path : Regex, storage : Nat]
Job == [router : Routers, method : Methods \cup {NoMethod}, path : Regex,
        storage : Nat, meant : SUBSET Targets]
Request == [method : Methods, target : Targets]

Put(f, k, v) == [x \in DOMAIN f \cup {k} |-> IF x = k THEN v ELSE f[x]]
-----------------------------------------------------------------------------
(* regex::match: the whole target has to match. *)
IsSegment(x) == x \notin {"^", "$"}

(* What is between the anchors, if there are none in the middle. *)
CountOf(regex, anchor) == Cardinality({i \in DOMAIN regex : regex[i] = anchor})
Segments(regex) ==
  SubSeq(regex, CountOf(regex, "^") + 1, Len(regex) - CountOf(regex, "$"))

AnchorsOutside(regex) ==
  \A i, j \in DOMAIN regex :
    i < j => /\ regex[j] = "^" => ~IsSegment(regex[i])
             /\ regex[i] = "$" => ~IsSegment(regex[j])

match(regex, target) ==
  /\ AnchorsOutside(regex)
  /\ \/ Segments(regex) = target
     \/ \E k \in 0 .. Len(target) : Segments(regex) = SubSeq(target, 1, k) \o <<".*">>

Anchored(regex) == regex # <<>> /\ regex[1] = "^" /\ regex[Len(regex)] = "$"

(* Mutant: the end anchor of the prefix stays in the middle.                *)
concat_keeps_anchor(resource1, resource2) ==
  IF Anchored(resource1) /\ Anchored(resource2) THEN resource1 \o Tail(resource2)
  ELSE resource1 \o resource2

(* router::concat; front() and back() of the empty prefix of use(other) are *)
(* no anchors in a build without assertions.                               *)
concat(resource1, resource2) ==
  LET body == SubSeq(resource1, 1, Len(resource1) - 1)
  IN CASE Anchored(resource1) /\ Anchored(resource2)  -> body \o Tail(resource2)
       [] Anchored(resource1) /\ ~Anchored(resource2) -> body \o resource2 \o <<"$">>
       [] ~Anchored(resource1) /\ Anchored(resource2) ->
            <<"^">> \o resource1 \o Tail(resource2)
       [] OTHER -> resource1 \o resource2

TargetsOf(path) == {x \in Targets : match(path, x)}

(* The targets a mount is for: those of the prefix followed by one of path. *)
MountedTargets(prefix, path) ==
  {x \in Targets : \E k \in 0 .. Len(x) :
     /\ \/ match(prefix, SubSeq(x, 1, k))
        \/ prefix = <<>> /\ k = 0
     /\ match(path, SubSeq(x, k + 1, Len(x)))}
-----------------------------------------------------------------------------
(* The maps as one table, and its entries. *)
storage_of(r, k) ==
  IF k[1] = NoMethod THEN resource_map[r][k[2]] ELSE method_map[r][k[1]][k[2]]

keys_of(r) ==
  (IF resource_map[r] = nullptr THEN {} ELSE {NoMethod} \X DOMAIN resource_map[r])
  \cup
  (IF method_map[r] = nullptr THEN {}
   ELSE UNION {{m} \X DOMAIN method_map[r][m] : m \in DOMAIN method_map[r]})

(* lockable: one writer or any number of readers. *)
Writing(t, r) == mutex[r].writer = t
Reading(t, r) == t \in mutex[r].readers
WaitsToWrite(t, r) == adding[t] = "lock" /\ job[t].router = r

(* Mutant: a writer does not wait for the readers.                          *)
enter_to_write_early(t, r) ==
  /\ mutex[r].writer = nobody
  /\ mutex' = [mutex EXCEPT ![r].writer = t]

enter_to_write(t, r) ==
  /\ mutex[r].writer = nobody /\ mutex[r].readers = {}
  /\ mutex' = [mutex EXCEPT ![r].writer = t]

enter_to_read(t, r) ==
  /\ mutex[r].writer = nobody
  /\ WriterBlocks => \A u \in Threads : ~WaitsToWrite(u, r)
  /\ mutex' = [mutex EXCEPT ![r].readers = @ \cup {t}]

leave_read(t, r) == mutex' = [mutex EXCEPT ![r].readers = @ \ {t}]
leave_write(r) == mutex' = [mutex EXCEPT ![r].writer = nobody]
-----------------------------------------------------------------------------
(* add_resource_cb and add_resource_cb_without_method. *)
add_resource_cb(t, r, m, path, storage, meant) ==
  /\ adding[t] = "no"
  /\ adding' = [adding EXCEPT ![t] = "lock"]
  /\ job' = [job EXCEPT ![t] = [router |-> r, method |-> m, path |-> path,
                                storage |-> storage, meant |-> meant]]

add_lock(t) ==
  /\ adding[t] = "lock"
  /\ enter_to_write(t, job[t].router)
  /\ adding' = [adding EXCEPT ![t] = "insert"]
  /\ UNCHANGED <<map_vars, chain_vars, job, built, use_vars, dispatch_vars>>

(* Mutant: the map of a method is made anew by every registration.          *)
add_insert_afresh(t) ==
  LET r == job[t].router
      m == job[t].method
      methods == IF method_map[r] = nullptr THEN <<>> ELSE method_map[r]
  IN /\ adding[t] = "insert"
     /\ adding' = [adding EXCEPT ![t] = "emplace"]
     /\ IF m = NoMethod
        THEN /\ resource_map' = [resource_map EXCEPT ![r] = IF @ = nullptr THEN <<>> ELSE @]
             /\ UNCHANGED method_map
        ELSE /\ method_map' = [method_map EXCEPT ![r] = Put(methods, m, <<>>)]
             /\ UNCHANGED resource_map
     /\ UNCHANGED <<chain_vars, mutex, job, built, use_vars, dispatch_vars>>

(* The maps are made by the first route that needs them. *)
add_insert(t) ==
  LET r == job[t].router
      m == job[t].method
      methods == IF method_map[r] = nullptr THEN <<>> ELSE method_map[r]
  IN /\ adding[t] = "insert"
     /\ adding' = [adding EXCEPT ![t] = "emplace"]
     /\ IF m = NoMethod
        THEN /\ resource_map' = [resource_map EXCEPT ![r] = IF @ = nullptr THEN <<>> ELSE @]
             /\ UNCHANGED method_map
        ELSE /\ method_map' = [method_map EXCEPT ![r] =
                  IF m \in DOMAIN methods THEN methods ELSE Put(methods, m, <<>>)]
             /\ UNCHANGED resource_map
     /\ UNCHANGED <<chain_vars, mutex, job, built, use_vars, dispatch_vars>>

(* Mutant: a path registered again is left with a null storage.             *)
Emplaced_null(map, path, storage) ==
  {Put(map, path, IF path \in DOMAIN map THEN nullptr ELSE storage)}

(* emplace, and the assignment when the path was there already: from a      *)
(* storage that emplace may have moved from without inserting it.          *)
Emplaced(map, path, storage) ==
  IF path \notin DOMAIN map THEN {Put(map, path, storage)}
  ELSE {Put(map, path, IF moved THEN 0 ELSE storage) : moved \in EmplaceMoves}

add_emplace(t) ==
  LET r == job[t].router
      m == job[t].method
  IN /\ adding[t] = "emplace"
     /\ adding' = [adding EXCEPT ![t] = "unlock"]
     /\ IF m = NoMethod
        THEN /\ \E map \in Emplaced(resource_map[r], job[t].path, job[t].storage) :
                  resource_map' = [resource_map EXCEPT ![r] = map]
             /\ UNCHANGED method_map
        ELSE /\ \E map \in Emplaced(method_map[r][m], job[t].path, job[t].storage) :
                  method_map' = [method_map EXCEPT ![r][m] = map]
             /\ UNCHANGED resource_map
     /\ UNCHANGED <<chain_vars, mutex, job, built, use_vars, dispatch_vars>>

add_return(t) ==
  /\ adding[t] = "unlock"
  /\ leave_write(job[t].router)
  /\ adding' = [adding EXCEPT ![t] = "no"]
  /\ job' = [job EXCEPT ![t] = nobody]
  /\ UNCHANGED <<map_vars, chain_vars, built, use_vars, dispatch_vars>>
-----------------------------------------------------------------------------
(* A registrar calls the router's interface between two calls; a route      *)
(* handler calls verbs, if HandlersRegister.                                *)
Registering(t) ==
  t \in Registrars /\ adding[t] = "no" /\ source[t] = nobody /\ dispatching[t] = "no"
Handling(t) == HandlersRegister /\ adding[t] = "no" /\ dispatching[t] = "handler"

build == built < MaxRegistrations /\ built' = built + 1

(* basic_router: get, post, ... *)
verb(t, r, m, path) ==
  /\ Registering(t) \/ Handling(t)
  /\ r \notin Chains
  /\ build
  /\ add_resource_cb(t, r, m, path, built + 1, TargetsOf(path))
  /\ UNCHANGED <<map_vars, chain_vars, mutex, use_vars, dispatch_vars>>

all(t, r, path) == verb(t, r, NoMethod, path)

(* chain_router::route: the node refers to the router, the path stays there. *)
route(t, r, path) ==
  /\ Registering(t) /\ r \in Chains
  /\ tmp_res_regex' = [tmp_res_regex EXCEPT ![r] = path]
  /\ node' = [node EXCEPT ![t] = [router |-> r, path |-> path]]
  /\ UNCHANGED <<map_vars, mutex, add_vars, use_vars, dispatch_vars>>

(* chain_node: get, post, ... *)
chain_verb(t, m) ==
  /\ Registering(t) /\ node[t] # nobody
  /\ build
  /\ LET r == node[t].router
     IN add_resource_cb(t, r, m, tmp_res_regex[r], built + 1, TargetsOf(node[t].path))
  /\ UNCHANGED <<map_vars, chain_vars, mutex, use_vars, dispatch_vars>>

chain_all(t) == chain_verb(t, NoMethod)

(* router::use.  Its loop says *value.second, which a cb::storage does not   *)
(* have (it does not compile when instantiated): it is taken to copy the    *)
(* storage.                                                                *)
use_call(t, mount) ==
  /\ Registering(t)
  /\ source' = [source EXCEPT ![t] = mount[3]]
  /\ target_router' = [target_router EXCEPT ![t] = [router |-> mount[1], prefix |-> mount[2]]]
  /\ UNCHANGED <<map_vars, chain_vars, mutex, add_vars, todo, dispatch_vars>>

Mounting(t) == source[t] # nobody /\ t \in mutex[source[t]].readers

use_lock(t) ==
  /\ source[t] # nobody /\ ~Mounting(t)
  /\ enter_to_read(t, source[t])
  /\ todo' = [todo EXCEPT ![t] =
       {[method |-> k[1], path |-> k[2], storage |-> storage_of(source[t], k)] :
          k \in keys_of(source[t])}]
  /\ UNCHANGED <<map_vars, chain_vars, add_vars, source, target_router, dispatch_vars>>

(* Mutant: the loop over the mounted routes does not move on.               *)
use_next_again(t, e) ==
  LET at == target_router[t]
  IN /\ Mounting(t) /\ e \in todo[t]
     /\ add_resource_cb(t, at.router, e.method, concat(at.prefix, e.path), e.storage,
                        MountedTargets(at.prefix, e.path))
     /\ UNCHANGED <<map_vars, chain_vars, mutex, built, use_vars, dispatch_vars>>

(* One route of the mounted router, copied: first those without a method. *)
use_next(t, e) ==
  LET at == target_router[t]
  IN /\ Mounting(t) /\ e \in todo[t]
     /\ (\E f \in todo[t] : f.method = NoMethod) => e.method = NoMethod
     /\ add_resource_cb(t, at.router, e.method, concat(at.prefix, e.path), e.storage,
                        MountedTargets(at.prefix, e.path))
     /\ todo' = [todo EXCEPT ![t] = @ \ {e}]
     /\ UNCHANGED <<map_vars, chain_vars, mutex, built, source, target_router, dispatch_vars>>

use_return(t) ==
  /\ Mounting(t) /\ adding[t] = "no" /\ todo[t] = {}
  /\ leave_read(t, source[t])
  /\ source' = [source EXCEPT ![t] = nobody]
  /\ target_router' = [target_router EXCEPT ![t] = nobody]
  /\ UNCHANGED <<map_vars, chain_vars, add_vars, todo, dispatch_vars>>
-----------------------------------------------------------------------------
(* request_processor::provide: the matching routes of the method, or, if     *)
(* there are none, the matching routes without a method.                    *)
matching(r, m, target) == {k \in keys_of(r) : k[1] = m /\ match(k[2], target)}

provided(r, q) ==
  IF matching(r, q.method, q.target) # {} THEN matching(r, q.method, q.target)
  ELSE matching(r, NoMethod, q.target)

(* flesh::do_process_request. *)
process_request(t, r, q) ==
  /\ t \in Sessions /\ dispatching[t] = "no" /\ adding[t] = "no" /\ source[t] = nobody
  /\ dispatching' = [dispatching EXCEPT ![t] = "lock"]
  /\ asked' = [asked EXCEPT ![t] = [router |-> r, request |-> q]]
  /\ UNCHANGED <<map_vars, chain_vars, mutex, add_vars, use_vars, plan>>

process_lock(t) ==
  /\ dispatching[t] = "lock"
  /\ enter_to_read(t, asked[t].router)
  /\ dispatching' = [dispatching EXCEPT ![t] = "provide"]
  /\ UNCHANGED <<map_vars, chain_vars, add_vars, use_vars, asked, plan>>

provide(t) ==
  /\ dispatching[t] = "provide"
  /\ dispatching' = [dispatching EXCEPT ![t] = "execute"]
  /\ plan' = [plan EXCEPT ![t] = provided(asked[t].router, asked[t].request)]
  /\ UNCHANGED <<map_vars, chain_vars, mutex, add_vars, use_vars, asked>>

(* Mutant: the loop over the matching entries does not move on.             *)
execute_again(t, k) ==
  /\ dispatching[t] = "execute" /\ k \in plan[t]
  /\ dispatching' = [dispatching EXCEPT ![t] = "handler"]
  /\ UNCHANGED <<map_vars, chain_vars, mutex, add_vars, use_vars, asked, plan>>

(* executor::execute enters the first callback of the entry's storage. *)
execute(t, k) ==
  /\ dispatching[t] = "execute" /\ k \in plan[t]
  /\ dispatching' = [dispatching EXCEPT ![t] = "handler"]
  /\ plan' = [plan EXCEPT ![t] = @ \ {k}]
  /\ UNCHANGED <<map_vars, chain_vars, mutex, add_vars, use_vars, asked>>

handler_return(t) ==
  /\ dispatching[t] = "handler" /\ adding[t] = "no" /\ source[t] = nobody
  /\ dispatching' = [dispatching EXCEPT ![t] = "execute"]
  /\ UNCHANGED <<map_vars, chain_vars, mutex, add_vars, use_vars, asked, plan>>

process_return(t) ==
  /\ dispatching[t] = "execute" /\ plan[t] = {}
  /\ leave_read(t, asked[t].router)
  /\ dispatching' = [dispatching EXCEPT ![t] = "no"]
  /\ asked' = [asked EXCEPT ![t] = nobody]
  /\ UNCHANGED <<map_vars, chain_vars, add_vars, use_vars, plan>>
-----------------------------------------------------------------------------
Init ==
  /\ resource_map = [r \in Routers |-> nullptr]
  /\ method_map = [r \in Routers |-> nullptr]
  /\ tmp_res_regex = [r \in Routers |-> <<>>]
  /\ node = [t \in Threads |-> nobody]
  /\ mutex = [r \in Routers |-> [writer |-> nobody, readers |-> {}]]
  /\ adding = [t \in Threads |-> "no"]
  /\ job = [t \in Threads |-> nobody]
  /\ source = [t \in Threads |-> nobody]
  /\ target_router = [t \in Threads |-> nobody]
  /\ todo = [t \in Threads |-> {}]
  /\ dispatching = [t \in Threads |-> "no"]
  /\ asked = [t \in Threads |-> nobody]
  /\ plan = [t \in Threads |-> {}]
  /\ built = 0

add_step(t) == add_lock(t) \/ add_insert(t) \/ add_emplace(t) \/ add_return(t)
use_step(t) == use_lock(t) \/ (\E e \in todo[t] : use_next(t, e)) \/ use_return(t)
process_step(t) ==
  \/ process_lock(t) \/ provide(t) \/ (\E k \in plan[t] : execute(t, k))
  \/ handler_return(t) \/ process_return(t)

register(t) ==
  \/ \E r \in Routers, path \in Paths :
       (\E m \in Methods : verb(t, r, m, path)) \/ all(t, r, path) \/ route(t, r, path)
  \/ (\E m \in Methods : chain_verb(t, m)) \/ chain_all(t)
  \/ \E mount \in Mounts : use_call(t, mount)

Next ==
  \E t \in Threads :
    \/ register(t) \/ add_step(t) \/ use_step(t) \/ process_step(t)
    \/ \E r \in Routers, q \in Request : process_request(t, r, q)

Spec == Init /\ [][Next]_vars

(* A thread that can go on does; a lock does not starve a thread that waits. *)
Fairness ==
  \A t \in Threads : SF_vars(add_step(t) \/ use_step(t) \/ process_step(t))

FairSpec == Spec /\ Fairness
-----------------------------------------------------------------------------
IsPathMap(f) == DOMAIN f \subseteq Regex /\ \A p \in DOMAIN f : f[p] \in Nat
IsMethodMap(f) == DOMAIN f \subseteq Methods /\ \A m \in DOMAIN f : IsPathMap(f[m])

(* Types: a path is never left behind without storage, and the maps of both *)
(* routers keep their shape while registrations and mounts interleave.     *)
RouterTypeOK ==
  /\ DOMAIN resource_map = Routers /\ DOMAIN method_map = Routers
  /\ \A r \in Routers : /\ resource_map[r] = nullptr \/ IsPathMap(resource_map[r])
                        /\ method_map[r] = nullptr \/ IsMethodMap(method_map[r])
  /\ tmp_res_regex \in [Routers -> {<<>>} \cup Paths]
  /\ node \in [Threads -> {nobody} \cup [router : Routers, path : Paths]]
  /\ mutex \in [Routers -> [writer : {nobody} \cup Threads, readers : SUBSET Threads]]
  /\ adding \in [Threads -> {"no", "lock", "insert", "emplace", "unlock"}]
  /\ job \in [Threads -> {nobody} \cup Job]
  /\ source \in [Threads -> {nobody} \cup Routers]
  /\ target_router \in [Threads -> {nobody} \cup
                         [router : Routers, prefix : Regex]]
  /\ todo \in [Threads -> SUBSET Entry]
  /\ dispatching \in [Threads -> {"no", "lock", "provide", "execute", "handler"}]
  /\ asked \in [Threads -> {nobody} \cup [router : Routers, request : Request]]
  /\ plan \in [Threads -> SUBSET Keys]
  /\ built \in 0 .. MaxRegistrations

(* Which routers a thread is changing, and which it is reading.             *)
Changes(t, r) == adding[t] \in {"insert", "emplace"} /\ job[t].router = r
Reads(t, r) ==
  \/ dispatching[t] \in {"provide", "execute", "handler"} /\ asked[t].router = r
  \/ source[t] = r /\ todo[t] # {}

(* A registration never changes a router's maps while another thread        *)
(* changes, searches or copies them, or runs a callback out of them:        *)
(* inserting rehashes what the others iterate over, and assigning to an     *)
(* entry destroys the callbacks in it.                                      *)
RegistrationAlone ==
  \A t, u \in Threads, r \in Routers :
    t # u /\ Changes(t, r) => ~Changes(u, r) /\ ~Reads(u, r)

(* No two threads hold chain nodes. *)
OneChains == \A t, u \in Threads : node[t] # nobody /\ node[u] # nobody => t = u

(* A route answers the targets it was registered for: those of the path of  *)
(* the route() its chain node came from, though the path is kept in the     *)
(* router, where a second thread that chains would overwrite it; and, when  *)
(* mounted, those of its path below the prefix, though concat only pastes   *)
(* the two expressions together.                                           *)
RegistersWhatWasMeant ==
  OneChains => \A t \in Threads : adding[t] = "emplace" => TargetsOf(job[t].path) = job[t].meant

(* No storage in the maps is without a callback.                            *)
StorageNeverEmpty ==
  \A r \in Routers : \A k \in keys_of(r) : storage_of(r, k) # 0

(* Every registration that is begun returns, mounts included: registering,  *)
(* mounting and dispatching threads never wait for each other for ever.     *)
RegistrationReturns ==
  \A t \in Threads : (adding[t] # "no" \/ source[t] # nobody)
                       ~> (adding[t] = "no" /\ source[t] = nobody)

(* Every request that reaches the router is done with.                      *)
DispatchReturns == \A t \in Threads : dispatching[t] # "no" ~> dispatching[t] = "no"

(* What the table f answers a request with.                                 *)
answer(f, q) ==
  LET hits(m) == {k \in DOMAIN f : k[1] = m /\ match(k[2], q.target)}
  IN IF hits(q.method) = {} THEN hits(NoMethod) ELSE hits(q.method)

Table == INSTANCE RouteTable WITH
  Answer <- answer, Requests <- Request,
  table <- [r \in Routers |-> [k \in keys_of(r) |-> storage_of(r, k)]],
  calls <- [t \in Threads |-> {<<k, storage_of(asked[t].router, k)>> : k \in plan[t]}]

(* The maps are a table: a registration replaces one key at one instant,    *)
(* however late the maps were made; a request is answered by exactly the    *)
(* routes registered at one instant after it came, the ones without a       *)
(* method only if none with its method matches, and every callback that     *)
(* runs is the one registered at that time.                                 *)
ImplementsTable == Table!Spec
=============================================================================
