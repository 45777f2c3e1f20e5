------------------------------ MODULE MCParam ------------------------------
(* Instances of Param for TLC.                                             *)
EXTENDS Param

CONSTANTS any, default, outofrange

SomePieces == {"*", "a", "b", "1", "2", ""}

(* Up to four pieces of "a" and the numbers, the single piece of "*", and    *)
(* an empty last piece.                                                    *)
SomeTargets ==
  {<<"*">>, <<"a">>, <<"1">>, <<"a", "b">>, <<"a", "1">>, <<"a", "2">>, <<"2", "a">>,
   <<"1", "2">>, <<"a", "b", "">>, <<"a", "2", "a", "2">>, <<"a", "1", "a", "2">>}

ARoute(regex, anchored, callbacks) ==
  [name |-> "route", has_method |-> TRUE, regex |-> regex, anchored |-> anchored,
   callbacks |-> callbacks]

(* "/a/(\d+)/b/(\d+)" and shorter, with one callback, with one for each     *)
(* segment, and "/(\d+)/a" with more, as in the tests; a chain of two verbs; *)
(* and any number of routes of both kinds that may match at the same time,  *)
(* with one callback each.                                                 *)
Expressions == {<<any>>, <<"a", any>>, <<any, any>>, <<"a", any, "a", any>>}
TestedRoutes ==
  {{ARoute(regex, anchored, 1)} : regex \in Expressions, anchored \in BOOLEAN}
  \cup {{ARoute(regex, FALSE, Len(regex))} : regex \in Expressions}
  \cup UNION {{{ARoute([i \in 1 .. n |-> any], FALSE, c)} : c \in 1 .. Least(n, 3)} : n \in 1 .. 4}
  \cup {{ARoute(<<any, "a">>, FALSE, 4)}}
ChainOfTwo ==
  {[ARoute(<<"a", any>>, FALSE, 1) EXCEPT !.name = "node"],
   [ARoute(<<"a", any>>, FALSE, 2) EXCEPT !.name = "node", !.has_method = FALSE]}
Single(name, has_method, regex) ==
  [ARoute(regex, FALSE, 1) EXCEPT !.name = name, !.has_method = has_method]
SingleCallbackRoutes ==
  {Single("get a", TRUE, <<"a">>), Single("get x", TRUE, <<any>>),
   Single("get x/b", TRUE, <<any, "b">>), Single("all a", FALSE, <<"a">>),
   Single("all a/x", FALSE, <<"a", any>>)}
RegisteredRoutes == TestedRoutes \cup SUBSET ChainOfTwo \cup SUBSET SingleCallbackRoutes

(* They are used as the proofs about Param expect.                         *)
ASSUME UsageAssumption == SoleChains /\ ChainsFit
=============================================================================
