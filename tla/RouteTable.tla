----------------------------- MODULE RouteTable -----------------------------
(***************************************************************************)
(* What a router promises, whatever its maps and locks: a table from keys  *)
(* (a method, or none, and a path) to callbacks, changed by one            *)
(* registration at a time; a request is answered by the callbacks the      *)
(* table held at one instant, each of them called while still registered.  *)
(***************************************************************************)
EXTENDS Naturals

CONSTANTS
  Routers, Threads,
  Answer(_, _),      \* Answer(f, q): the keys of table f that answer request q
  Requests

VARIABLES
  table,  \* table[r][k]: the registration, a number other than 0, behind key k
  calls   \* calls[t]: the <<key, registration>> pairs thread t has yet to call

vars == <<table, calls>>

Put(f, k, v) == [x \in DOMAIN f \cup {k} |-> IF x = k THEN v ELSE f[x]]

Init ==
  /\ table = [r \in Routers |-> <<>>]
  /\ calls = [t \in Threads |-> {}]

(* A registration replaces the one with the same key and touches no other.  *)
Register(r) ==
  /\ \E k \in DOMAIN table'[r] :
       /\ table'[r][k] \in Nat \ {0}
       /\ table' = [table EXCEPT ![r] = Put(@, k, table'[r][k])]
  /\ UNCHANGED calls

Ask(t, r, q) ==
  /\ calls[t] = {}
  /\ calls' = [calls EXCEPT ![t] = {<<k, table[r][k]>> : k \in Answer(table[r], q)}]
  /\ UNCHANGED table

(* A callback is called while its registration is the current one. *)
Call(t, r) ==
  /\ \E c \in calls[t] :
       /\ c[1] \in DOMAIN table[r] /\ table[r][c[1]] = c[2]
       /\ calls' = [calls EXCEPT ![t] = @ \ {c}]
  /\ UNCHANGED table

Next ==
  \/ \E r \in Routers : Register(r)
  \/ \E t \in Threads, r \in Routers : Call(t, r) \/ \E q \in Requests : Ask(t, r, q)

Spec == Init /\ [][Next]_vars
=============================================================================
