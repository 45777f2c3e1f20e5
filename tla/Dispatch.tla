------------------------------ MODULE Dispatch ------------------------------
(***************************************************************************)
(* A session dispatching one request after another: which routes provide() *)
(* executes, and the walk of the callback iterator along a route's         *)
(* callbacks, each of which sees its own segment of the target.            *)
(*                                                                         *)
(* A target is a sequence of pieces, cut at each '/' but a leading one     *)
(* ("/a/b" is <<a, b>>, "/" and "*" are one piece each).  The iterator     *)
(* rewrites request.target() as it moves, while provide() goes on matching *)
(* with a view of the old one: once rewritten that view dangles, and       *)
(* what it matches is anything.                                            *)
(***************************************************************************)
EXTENDS Naturals, Sequences

CONSTANTS
  Pieces,     \* the pieces targets are made of
  RouteSets,  \* the sets of routes the router may hold
  Targets,    \* the targets requests come with
  Any,        \* the token of a regular expression that takes (and captures) any piece
  MaxCalls,   \* bound: calls one callback makes through its iterators
  MaxSteps,   \* bound: how often an iterator is advanced
  MaxDepth    \* bound: callbacks running at once, if one is to enter itself

(* has_method: the route is in the map of the request's method, not in the  *)
(* one for all methods; anchored: its expression begins with '^' and ends  *)
(* with '$'; callbacks: how many it has, of which all but the last are      *)
(* handed an iterator.                                                     *)
Route == [name : STRING, has_method : BOOLEAN, regex : Seq(Pieces \cup {Any}),
          anchored : BOOLEAN, callbacks : Nat \ {0}]

ASSUME RoutesAssumption == \A set \in RouteSets : set \subseteq Route
ASSUME TargetsAssumption == Targets \subseteq Seq(Pieces) \ {<<>>}
ASSUME MaxCallsAssumption == MaxCalls \in Nat
ASSUME MaxStepsAssumption == MaxSteps \in Nat /\ MaxDepth \in Nat

VARIABLES
  routes,   \* the routes registered
  phase,    \* "idle", or the map provide() goes through: "method" or "all"
  whole,    \* the target the request came with
  target,   \* request.target()
  view,     \* is provide()'s view of the target valid?
  cut,      \* history: the advances of the iterator that last cut the target
  left,     \* the entries of the map not yet examined
  invoked,  \* did a route of the method match?
  stack,    \* the callbacks running, the innermost last
  executed  \* history: the routes executed for this request

request_vars == <<whole, target, view, cut>>
vars == <<routes, phase, request_vars, left, invoked, stack, executed>>

Of(has_method) == {e \in routes : e.has_method = has_method}

(* regex::match, of the whole string. *)
match(regex, pieces) ==
  /\ Len(regex) = Len(pieces)
  /\ \A i \in 1 .. Len(regex) : regex[i] \in {Any, pieces[i]}
-----------------------------------------------------------------------------
(* const_iterator: where it stands, what is left of the target, and how     *)
(* often it was advanced (history).                                        *)
Iterator(pos, rest, steps) == [pos |-> pos, rest |-> rest, steps |-> steps]

(* skip_target: what it makes of request.target(), and of the iterator.     *)
skipped(rest) == IF Len(rest) > 1 THEN <<Head(rest)>> ELSE rest
remaining(rest) == IF Len(rest) > 1 THEN Tail(rest) ELSE rest

(* Mutant: past its last callback it forgets what it has cut off.          *)
plus_plus_stays(it, e) ==
  IF it.pos + 1 = e.callbacks THEN Iterator(it.pos, it.rest, it.steps + 1)
  ELSE Iterator(it.pos + 1, remaining(it.rest), it.steps + 1)

(* operator++: at the last callback it stays there; it always skips. *)
plus_plus(it, e) ==
  Iterator(IF it.pos + 1 = e.callbacks THEN it.pos ELSE it.pos + 1,
           remaining(it.rest), it.steps + 1)

(* operator(): a callback enters with copies of the request and of an        *)
(* iterator (due: the advances that led to it).                            *)
Frame(e, it, seen, last) ==
  [route |-> e, at |-> it.pos, due |-> it.steps, its |-> {it}, seen |-> seen,
   cut |-> last, calls |-> 0]
Top == stack[Len(stack)]
IsLast(f) == f.at + 1 = f.route.callbacks

(* The iterators that the running callback has: the one it was called with  *)
(* and every copy it made and moved.  The last callback is handed none.     *)
Held == IF stack = <<>> \/ IsLast(Top) THEN {} ELSE Top.its

(* storage::begin_exec and the iterator's constructor. *)
begin_exec(e) ==
  IF e.callbacks > 1
  THEN /\ target' = skipped(target) /\ view' = FALSE /\ cut' = 0
       /\ stack' = <<Frame(e, Iterator(0, remaining(target), 0), skipped(target), 0)>>
  ELSE /\ stack' = <<Frame(e, Iterator(0, target, 0), target, 0)>>
       /\ UNCHANGED <<target, view, cut>>
-----------------------------------------------------------------------------
(* provide() is called. *)
provide(x) ==
  /\ phase = "idle"
  /\ phase' = "method"
  /\ whole' = x /\ target' = x /\ view' = TRUE /\ cut' = 0
  /\ left' = Of(TRUE) /\ invoked' = FALSE /\ executed' = {}
  /\ UNCHANGED <<routes, stack>>

Matches(e) == IF view THEN {match(e.regex, whole)} ELSE BOOLEAN

(* Mutant: provide() forgets that a route of the method matched.            *)
provide_match_uninvoked(e) ==
  /\ stack = <<>> /\ e \in left /\ TRUE \in Matches(e)
  /\ left' = left \ {e}
  /\ begin_exec(e)
  /\ executed' = executed \cup {e}
  /\ UNCHANGED <<routes, phase, whole, invoked>>

provide_match(e) ==
  /\ stack = <<>> /\ e \in left /\ TRUE \in Matches(e)
  /\ left' = left \ {e}
  /\ begin_exec(e)
  /\ invoked' = (invoked \/ phase = "method")
  /\ executed' = executed \cup {e}
  /\ UNCHANGED <<routes, phase, whole>>

provide_mismatch(e) ==
  /\ stack = <<>> /\ e \in left /\ FALSE \in Matches(e)
  /\ left' = left \ {e}
  /\ UNCHANGED <<routes, phase, request_vars, invoked, stack, executed>>

provide_all ==
  /\ phase = "method" /\ left = {} /\ stack = <<>> /\ ~invoked
  /\ phase' = "all" /\ left' = Of(FALSE)
  /\ UNCHANGED <<routes, request_vars, invoked, stack, executed>>

provide_return ==
  /\ left = {} /\ stack = <<>>
  /\ phase = "all" \/ (phase = "method" /\ invoked)
  /\ phase' = "idle"
  /\ UNCHANGED <<routes, request_vars, left, invoked, stack, executed>>

(* operator++ on an iterator, or on a copy of it: std::next and std::advance *)
(* make n such steps.                                                      *)
advance(it) ==
  /\ it \in Held /\ it.steps < MaxSteps
  /\ stack' = [stack EXCEPT ![Len(stack)].its = @ \cup {plus_plus(it, Top.route)}]
  /\ target' = skipped(it.rest) /\ view' = FALSE /\ cut' = it.steps + 1
  /\ UNCHANGED <<routes, phase, whole, left, invoked, executed>>

(* operator(): the callback the iterator has come to is entered, be it the   *)
(* running one itself, with whatever the target is by now.                 *)
call(it) ==
  /\ it \in Held /\ Top.calls < MaxCalls
  /\ it.steps > Top.due \/ Len(stack) < MaxDepth
  /\ stack' = Append([stack EXCEPT ![Len(stack)].calls = @ + 1],
                     Frame(Top.route, it, target, cut))
  /\ UNCHANGED <<routes, phase, request_vars, left, invoked, executed>>

callback_return ==
  /\ stack # <<>>
  /\ stack' = SubSeq(stack, 1, Len(stack) - 1)
  /\ UNCHANGED <<routes, phase, request_vars, left, invoked, executed>>
-----------------------------------------------------------------------------
Init ==
  /\ routes \in RouteSets
  /\ phase = "idle"
  /\ whole = <<>> /\ target = <<>> /\ view = TRUE /\ cut = 0
  /\ left = {} /\ invoked = FALSE /\ stack = <<>> /\ executed = {}
-----------------------------------------------------------------------------
Piece(k) == <<whole[IF k < Len(whole) THEN k ELSE Len(whole)]>>
Least(a, b) == IF a < b THEN a ELSE b

(* Types: no callback beyond the last is ever entered, and no iterator runs *)
(* out of target.                                                          *)
DispatchTypeOK ==
  /\ routes \in RouteSets /\ phase \in {"idle", "method", "all", "terminated"}
  /\ whole \in Targets \cup {<<>>} /\ view \in BOOLEAN /\ invoked \in BOOLEAN
  /\ Len(target) <= Len(whole)
  /\ left \subseteq routes /\ executed \subseteq routes
  /\ \A i \in DOMAIN stack :
       LET f == stack[i]
       IN /\ f.route \in executed /\ f.at \in 0 .. f.route.callbacks - 1
          /\ f.calls \in 0 .. MaxCalls
          /\ \A it \in f.its : it.pos \in f.at .. f.route.callbacks - 1 /\ it.rest # <<>>

(* However callbacks copy, move and call their iterators, in whatever order  *)
(* they do so and return: the callback entered through an iterator that was *)
(* advanced n times is the n-th, or the last when there are fewer.  It sees *)
(* the segment (of the target the request came with, or its last) that the  *)
(* iterator moved last has come to: its own if that was its iterator; if    *)
(* another has moved since (an iterator is called twice, or overtaken by a  *)
(* copy), one that is not before the segment of any running callback that   *)
(* sees its own.  A route with one callback sees the whole target.          *)
CallbackSeesItsSegment ==
  \A i \in DOMAIN stack :
    LET f == stack[i]
    IN IF f.route.callbacks = 1 THEN f.seen = whole
       ELSE /\ f.at = Least(f.due, f.route.callbacks - 1)
            /\ f.seen = Piece(f.cut + 1)
            /\ \A j \in 1 .. i - 1 : stack[j].cut = stack[j].due => stack[j].due <= f.cut

(* The routes that match what the request came with: all of its method, or, *)
(* if there are none, all without a method.                                *)
Expected ==
  LET hits(has_method) == {e \in Of(has_method) : match(e.regex, whole)}
  IN IF hits(TRUE) = {} THEN hits(FALSE) ELSE hits(TRUE)

ProvidesMatching ==
  phase # "idle" /\ phase' = "idle" => executed = Expected

(* When provide() returns it has executed the expected routes and no others, *)
(* although it goes on matching after their callbacks have run.             *)
ProvidesMatchingOnly == [][ProvidesMatching]_vars
=============================================================================
