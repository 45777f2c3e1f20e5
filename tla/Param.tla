------------------------------- MODULE Param -------------------------------
(***************************************************************************)
(* Path parameters: the callbacks of a route wrapped by router.param, all  *)
(* of which share one block: where the route's split expression has been   *)
(* matched to, and the captures so far.  A wrapper locks the block for as  *)
(* long as its callback runs, with everything called from it, so requests  *)
(* go through a route's callbacks one after another, whatever sessions     *)
(* they come from; the block outlives each of them.                        *)
(*                                                                         *)
(* router.param makes a block for one verb of a basic_router, or for one   *)
(* route() of a chain_router, whose verbs then all share it: routes that   *)
(* share a block have the same name and expression.  (Registrations and    *)
(* requests exclude each other: see Router.)                               *)
(***************************************************************************)
EXTENDS Dispatch, FiniteSets

CONSTANTS
  Nodes,         \* the names of the blocks made by a chain_router
  Count,         \* the number of types of the pack
  Default,       \* the value of a parameter that was not captured
  OutOfRange,    \* the value of one read past the end of the captures
  Unconvertible, \* the pieces lexical_cast cannot convert to the parameter's type
  MayStop,       \* may a callback return without calling the next one?
  Catches,       \* does the program catch what io_context::run() throws?
  MaxArgs        \* bound: captures in a block

ASSUME PackAssumption ==
  Count \in 1 .. 12 /\ Default \notin Pieces /\ OutOfRange \notin Pieces \cup {Default}
ASSUME UnconvertibleAssumption == Unconvertible \subseteq Pieces
ASSUME FlagsAssumption == MayStop \in BOOLEAN /\ Catches \in BOOLEAN
ASSUME MaxArgsAssumption == MaxArgs \in Nat
ASSUME BlocksAssumption ==
  \A set \in RouteSets : \A e, f \in set :
    e.name = f.name => e.regex = f.regex /\ e.anchored = f.anchored

VARIABLES
  blocks,  \* the shared block of each route
  given,   \* the arguments handed to the callbacks in `stack'
  thrown   \* a bad_lexical_cast is on its way out of provide()

param_vars == <<vars, blocks, given, thrown>>

(* split_regex: the whole expression, then a part for each of its pieces;   *)
(* in front of "^/..." the '^' makes a part of its own, and matches nothing. *)
split_regex(e) ==
  <<e.regex>> \o (IF e.anchored THEN << <<>> >> ELSE <<>>)
              \o [i \in 1 .. Len(e.regex) |-> <<e.regex[i]>>]

(* rp: rp_iter_, as an index; cur_pos_cb: the callback it has come to.      *)
reset == [rp |-> 1, cur_pos_cb |-> 0, str_args |-> <<>>]

(* The pieces at some positions, in order. *)
Nth(positions, n) == CHOOSE i \in positions : Cardinality({j \in positions : j <= i}) = n
At(pieces, positions) == [n \in 1 .. Cardinality(positions) |-> pieces[Nth(positions, n)]]

(* The smatch of part and target, without the whole match. *)
captures(part, pieces) ==
  IF match(part, pieces) THEN At(pieces, {i \in 1 .. Len(part) : part[i] = Any}) ELSE <<>>

capture(block, e, pieces) ==
  [block EXCEPT !.str_args = @ \o captures(split_regex(e)[block.rp], pieces)]

(* Mutant: the last callback goes on where the one before it left off.      *)
process_classic_stays(block, e, pieces) == capture(block, e, pieces)

(* PROCESS_CLASSIC: the last callback, which has no iterator. *)
process_classic(block, e, pieces) ==
  LET last == Len(split_regex(e))
  IN capture(IF block.rp = 1 THEN block
             ELSE [block EXCEPT !.rp = last, !.cur_pos_cb = last - 1], e, pieces)

(* Mutant: the walk along the parts is not held at the last one.            *)
process_advanced_past(block, e, pos, pieces) ==
  LET steps == IF pos > block.cur_pos_cb THEN pos - block.cur_pos_cb ELSE 0
  IN [block EXCEPT !.rp = IF @ + steps = 1 THEN 2 ELSE @ + steps,
                   !.cur_pos_cb = @ + steps]

(* PROCESS_ADVANCED: any other, with an iterator at position pos. *)
process_advanced(block, e, pos, pieces) ==
  LET last == Len(split_regex(e))
      steps == IF pos > block.cur_pos_cb THEN pos - block.cur_pos_cb ELSE 0
      moved == Least(block.rp + steps, last)
  IN capture([block EXCEPT !.rp = IF moved = 1 THEN 2 ELSE moved,
                           !.cur_pos_cb = @ + steps], e, pieces)

process(block, f) ==
  IF IsLast(f) THEN process_classic(block, f.route, f.seen)
  ELSE process_advanced(block, f.route, f.at, f.seen)

(* paramcb<F, Count>::count, which is 11 for 12 types as well. *)
paramcb_count == IF Count = 12 THEN 11 ELSE Count

(* How many of the parameters paramcb converts: as many as there are         *)
(* captures, found by comparing their number with count - 1, count - 2, ... *)
converted(args) ==
  LET missing == IF Len(args) >= paramcb_count THEN 0 ELSE paramcb_count - Len(args)
  IN IF missing < Count THEN Count - missing ELSE 0

(* The tuple the callback is given.                                         *)
arguments(args) ==
  [i \in 1 .. Count |-> IF i > converted(args) THEN Default
                       ELSE IF i \in DOMAIN args THEN args[i] ELSE OutOfRange]

(* Whether lexical_cast throws; of what is no string, anything.             *)
Throws(args) ==
  IF converted(args) > Len(args) THEN BOOLEAN
  ELSE {\E i \in 1 .. converted(args) : args[i] \in Unconvertible}
-----------------------------------------------------------------------------
Registering == phase = "idle" /\ ~thrown
Added(e) ==
  /\ e \notin routes /\ routes' = routes \cup {e} /\ routes' \in RouteSets
  /\ UNCHANGED <<phase, request_vars, left, invoked, stack, executed, given, thrown>>
NewBlock(name) ==
  /\ name \notin DOMAIN blocks
  /\ blocks' = [n \in DOMAIN blocks \cup {name} |-> IF n = name THEN reset ELSE blocks[n]]

(* basic_router: router.param<...>().get(path, callbacks...), and so on.    *)
param_verb(e) == Registering /\ e.name \notin Nodes /\ Added(e) /\ NewBlock(e.name)

(* chain_router: router.param<...>().route(path) ..., a path of routes that  *)
(* may still come.                                                         *)
param_route(name) ==
  /\ Registering /\ name \in Nodes /\ NewBlock(name)
  /\ \E set \in RouteSets : routes \subseteq set /\ \E e \in set : e.name = name
  /\ UNCHANGED <<vars, given, thrown>>

(* ... .get(callbacks...), and so on, each with the block of the node.      *)
node_verb(e) ==
  /\ Registering /\ e.name \in Nodes /\ e.name \in DOMAIN blocks /\ Added(e)
  /\ UNCHANGED blocks
-----------------------------------------------------------------------------
(* A wrapper is entered with the frame that a step of Dispatch has pushed.   *)
enter ==
  LET f == stack'[Len(stack')]
      block == process(blocks[f.route.name], f)
  IN /\ Len(block.str_args) <= MaxArgs
     /\ blocks' = [blocks EXCEPT ![f.route.name] = block]
     /\ given' = Append(given, arguments(block.str_args))
     /\ thrown' \in Throws(block.str_args)

running == ~thrown

param_begin(e) == running /\ provide_match(e) /\ enter
param_advance(it) == running /\ advance(it) /\ UNCHANGED <<blocks, given, thrown>>
param_call(it) == running /\ call(it) /\ enter

(* Mutant: the last callback leaves its captures.                           *)
param_return_unreset ==
  /\ running /\ stack # <<>>
  /\ IsLast(Top) \/ Top.calls > 0 \/ MayStop
  /\ callback_return
  /\ given' = SubSeq(given, 1, Len(given) - 1)
  /\ UNCHANGED <<blocks, thrown>>

param_return ==
  /\ running /\ stack # <<>>
  /\ IsLast(Top) \/ Top.calls > 0 \/ MayStop
  /\ callback_return
  /\ given' = SubSeq(given, 1, Len(given) - 1)
  /\ blocks' = IF IsLast(Top) THEN [blocks EXCEPT ![Top.route.name] = reset] ELSE blocks
  /\ UNCHANGED thrown

(* The exception leaves provide(), the session's handler and run(): the     *)
(* program ends, unless it catches it.                                     *)
unwind ==
  /\ thrown
  /\ thrown' = FALSE /\ stack' = <<>> /\ given' = <<>>
  /\ left' = {} /\ phase' = IF Catches THEN "idle" ELSE "terminated"
  /\ UNCHANGED <<routes, request_vars, invoked, executed, blocks>>

param_provide(x) == running /\ provide(x) /\ UNCHANGED <<blocks, given, thrown>>
param_skip ==
  /\ running
  /\ (\E e \in left : provide_mismatch(e)) \/ provide_all \/ provide_return
  /\ UNCHANGED <<blocks, given, thrown>>

ParamInit ==
  /\ Init /\ routes = {}
  /\ blocks = [name \in {} |-> reset]
  /\ given = <<>> /\ thrown = FALSE

AllRoutes == UNION RouteSets

ParamNext ==
  \/ \E e \in AllRoutes : param_verb(e) \/ param_route(e.name) \/ node_verb(e)
  \/ \E x \in Targets : param_provide(x)
  \/ param_skip
  \/ \E e \in left : param_begin(e)
  \/ \E it \in Held : param_advance(it) \/ param_call(it)
  \/ param_return
  \/ unwind

ParamSpec == ParamInit /\ [][ParamNext]_param_vars
-----------------------------------------------------------------------------
(* A route with several callbacks is alone in its map: the target it cuts,  *)
(* and the view of it that dangles then, are of no other route's concern.   *)
(* (Where it is not, what the others are matched with is undefined, and     *)
(* nothing of this can be shown.)                                          *)
SoleChains ==
  \A set \in RouteSets : \A e, f \in set :
    e.callbacks > 1 /\ e.has_method = f.has_method => e = f

(* A chain whose callbacks and expression go together: no '^' in front of the *)
(* expression, no capture in its last piece if there are more callbacks than *)
(* pieces (each of those beyond would capture it again), and of the pieces  *)
(* that the last callback may come to, it captures all or none.             *)
FitsRegex(e) ==
  /\ ~e.anchored
  /\ e.callbacks > Len(e.regex) => e.regex[Len(e.regex)] # Any
  /\ \A k, l \in e.callbacks .. Len(e.regex) : e.regex[k] = Any <=> e.regex[l] = Any
ChainsFit == \A set \in RouteSets : \A e \in set : e.callbacks > 1 => FitsRegex(e)
-----------------------------------------------------------------------------
(* Types of the blocks: rp_iter_ always points at a part of the expression, *)
(* however the callbacks of a route move their iterators.                  *)
ParamTypeOK ==
  /\ DispatchTypeOK
  /\ thrown \in BOOLEAN
  /\ Len(given) = Len(stack)
  /\ \A i \in DOMAIN given : given[i] \in [1 .. Count -> Pieces \cup {Default, OutOfRange}]
  /\ \A e \in routes :
       /\ e.name \in DOMAIN blocks
       /\ blocks[e.name].rp \in 1 .. Len(split_regex(e))
       /\ \E f \in routes : f.name = e.name
                         /\ blocks[e.name].cur_pos_cb \in 0 .. f.callbacks + Len(f.regex)
       /\ blocks[e.name].str_args \in Seq(Pieces)

(* What a callback may expect: the pieces of its own request that the route *)
(* captures, of the segments seen by the callbacks that lead to it and its  *)
(* own; all of them if it is the only one.                                 *)
Seen(i) ==
  LET e == stack[i].route
      piece(j) == Least(stack[j].due + 1, Len(whole))
      shown(k) == e.callbacks = 1 \/ \E j \in 1 .. i : piece(j) = k
  IN At(whole, {k \in 1 .. Len(whole) : e.regex[k] = Any /\ shown(k)})

(* The callbacks that run have each called one other, further along, with   *)
(* the iterator that was moved last: std::next(it, n)() at most once each.  *)
OneWay ==
  \A i \in DOMAIN stack :
    /\ stack[i].calls <= 1 /\ stack[i].cut = stack[i].due
    /\ i > 1 => stack[i - 1].due < stack[i].due

(* The arguments of a callback are the parameters of its own request, never *)
(* what another request left in the block that all of them share, and       *)
(* defaults for those not reached; and a conversion fails only for a        *)
(* parameter of the request itself.  Where a callback calls a second one,   *)
(* the last of the first chain has already emptied the block; where it      *)
(* calls without moving, one segment is captured twice.                    *)
ArgumentsAreOwn ==
  OneWay =>
    /\ \A i \in DOMAIN stack :
         given[i] = [n \in 1 .. Count |-> IF n \in DOMAIN Seen(i) THEN Seen(i)[n] ELSE Default]
    /\ thrown => \E n \in 1 .. Count : given[Len(stack)][n] \in Unconvertible

(* Between two requests a route's block is as it was made: the block that   *)
(* every session shares carries nothing from one request to the next.       *)
BlocksReset == phase = "idle" => \A name \in DOMAIN blocks : blocks[name] = reset
=============================================================================
