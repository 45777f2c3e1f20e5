--------------------------- MODULE ListenerProofs ---------------------------
(***************************************************************************)
(* Proofs about Listener: its types, that it has one accept at a time, and *)
(* that on_accept gets the connections in the order of their accepts.      *)
(***************************************************************************)
EXTENDS Listener, SequenceTheorems, TLAPS

(* OneAccept is inductive with the types. *)
ListenerInv == ListenerTypeOK /\ OneAccept

(* The connections that are accepted, but not handed out yet, are posted in *)
(* their order; and no connection is accepted twice.                       *)
Due(q) == q \in Seq(Connections) /\ accepted = handed \o q
Posted(q) == ConnectionsOf(Append(strand, completed), q)
Ordered == \E q : Due(q) /\ Posted(q)
Distinct(s) == \A i, j \in DOMAIN s : s[i] = s[j] => i = j
AcceptedOnce ==
  /\ Distinct(accepted) /\ Distinct(backlog)
  /\ Values(accepted) \cap Values(backlog) = {}
OrderInv == ListenerInv /\ Ordered /\ AcceptedOnce
-----------------------------------------------------------------------------
(* Nothing has happened yet when the listener is made. *)
LEMMA ListenerInvInit == ListenerInit => ListenerInv
<1> SUFFICES ASSUME ListenerInit PROVE ListenerInv
  OBVIOUS
<1>1. ListenerTypeOK
  <2>1. accepting \in BOOLEAN /\ stopped \in BOOLEAN
    BY Zenon DEF ListenerInit
  <2>2. errors \in 0 .. MaxErrors
    BY MaxErrorsAssumption DEF ListenerInit
  <2> QED  BY <2>1, <2>2 DEF ListenerInit, ListenerTypeOK
<1>2. OneAccept
  BY DEF ListenerInit, OneAccept
<1> QED  BY <1>1, <1>2 DEF ListenerInv

(* loop() starts the first accept, or fails at one of its steps.            *)
LEMMA ListenerInvLoop ==
  ASSUME ListenerInv, loop \/ \E step \in Steps : loop_error(step)
  PROVE  ListenerInv'
<1>1. CASE loop
  BY <1>1 DEF ListenerInv, ListenerTypeOK, OneAccept, loop, do_accept, network_vars, history_vars
<1>2. ASSUME NEW step \in Steps, loop_error(step) PROVE ListenerInv'
  <2>1. /\ acceptor = "new" /\ acceptor' = step /\ stopped' \in {stopped, TRUE}
        /\ UNCHANGED <<accepting, completed, strand, callback, network_vars, history_vars>>
    BY <1>2 DEF loop_error
  <2>2. step # "new" /\ step # "listening"
    BY DEF Steps
  <2>3. stopped' \in BOOLEAN
    BY Zenon, <2>1 DEF ListenerInv, ListenerTypeOK
  <2>4. ListenerTypeOK'
    BY <2>1, <2>3 DEF ListenerInv, ListenerTypeOK, network_vars, history_vars
  <2>5. OneAccept'
    BY <2>1, <2>2 DEF ListenerInv, OneAccept
  <2> QED  BY <2>4, <2>5 DEF ListenerInv
<1> QED  BY <1>1, <1>2

(* on_accept starts the next accept, whatever this one brought.             *)
LEMMA ListenerInvAccepted ==
  ASSUME ListenerInv, on_accept
  PROVE  ListenerInv'
<1>1. /\ completed # none /\ completed' = none /\ accepting' = TRUE
      /\ strand' = Append(strand, completed)
      /\ UNCHANGED <<acceptor, callback, stopped, network_vars, history_vars>>
  BY DEF on_accept, do_accept
<1>2. strand' \in Seq(Connections \cup {"error"})
  BY <1>1 DEF ListenerInv, ListenerTypeOK
<1>3. ListenerTypeOK'
  BY <1>1, <1>2 DEF ListenerInv, ListenerTypeOK, network_vars, history_vars
<1>4. OneAccept'
  BY <1>1 DEF ListenerInv, OneAccept
<1> QED  BY <1>3, <1>4 DEF ListenerInv

(* The strand's handlers give what is posted first to the user.             *)
LEMMA ListenerInvSpawned ==
  ASSUME ListenerInv, on_spawn_connect \/ on_spawn_error \/ callback_return
  PROVE  ListenerInv'
<1>1. ASSUME strand # <<>>
      PROVE  /\ Head(strand) \in Connections \cup {"error"}
             /\ Tail(strand) \in Seq(Connections \cup {"error"})
  BY <1>1 DEF ListenerInv, ListenerTypeOK
<1>2. accepting' \in BOOLEAN /\ stopped' \in BOOLEAN
  BY Zenon DEF ListenerInv, ListenerTypeOK, on_spawn_connect, on_spawn_error, callback_return
<1>3. /\ callback' \in Connections \cup {"error", none}
      /\ strand' \in Seq(Connections \cup {"error"})
      /\ handed' \in Seq(Connections)
  <2>1. CASE on_spawn_connect
    BY <1>1, <2>1 DEF ListenerInv, ListenerTypeOK, on_spawn_connect
  <2>2. CASE on_spawn_error
    BY <1>1, <2>2 DEF ListenerInv, ListenerTypeOK, on_spawn_error, history_vars
  <2>3. CASE callback_return
    BY <2>3 DEF ListenerInv, ListenerTypeOK, callback_return, history_vars
  <2> QED  BY <2>1, <2>2, <2>3
<1>4. UNCHANGED <<acceptor, accepting, completed, network_vars, accepted>>
  BY DEF on_spawn_connect, on_spawn_error, callback_return, history_vars
<1>5. ListenerTypeOK'
  BY <1>2, <1>3, <1>4 DEF ListenerInv, ListenerTypeOK, network_vars
<1>6. OneAccept'
  BY <1>4 DEF ListenerInv, OneAccept
<1> QED  BY <1>5, <1>6 DEF ListenerInv

(* An accept completes only if one was outstanding.                         *)
LEMMA ListenerInvSystem ==
  ASSUME ListenerInv, system
  PROVE  ListenerInv'
<1>1. CASE \E c \in Connections : connect(c)
  BY <1>1 DEF ListenerInv, ListenerTypeOK, OneAccept, connect, listener_vars, history_vars
<1>2. ASSUME backlog # <<>>
      PROVE  Head(backlog) \in Connections /\ Tail(backlog) \in Seq(Connections)
  BY <1>2 DEF ListenerInv, ListenerTypeOK
<1>3. CASE async_accept
  <2>1. Head(backlog) # none
    BY <1>2, <1>3, AbsenceAssumption, ErrorAssumption DEF async_accept
  <2>2. ListenerTypeOK'
    <3>1. /\ accepting' \in BOOLEAN
          /\ UNCHANGED <<acceptor, strand, callback, stopped, errors, aborted, handed>>
      BY Zenon, <1>3 DEF async_accept
    <3>2. /\ completed' \in Connections /\ backlog' \in Seq(Connections)
          /\ accepted' \in Seq(Connections)
      BY <1>2, <1>3 DEF ListenerInv, ListenerTypeOK, async_accept
    <3> QED  BY <3>1, <3>2 DEF ListenerInv, ListenerTypeOK
  <2>3. OneAccept'
    BY <1>3, <2>1 DEF ListenerInv, OneAccept, async_accept
  <2> QED  BY <2>2, <2>3 DEF ListenerInv
<1>4. CASE async_accept_error
  <2>1. errors' \in 0 .. MaxErrors
    BY <1>4, MaxErrorsAssumption DEF ListenerInv, ListenerTypeOK, async_accept_error
  <2>2. ListenerTypeOK'
    BY <1>2, <1>4, <2>1 DEF ListenerInv, ListenerTypeOK, async_accept_error, history_vars
  <2>3. OneAccept'
    BY <1>4, AbsenceAssumption, ErrorAssumption DEF ListenerInv, OneAccept, async_accept_error
  <2> QED  BY <2>2, <2>3 DEF ListenerInv
<1>5. CASE signal
  BY <1>5 DEF ListenerInv, ListenerTypeOK, OneAccept, signal, network_vars, history_vars
<1> QED  BY <1>1, <1>3, <1>4, <1>5 DEF system

(* Every step of the listener and of the system preserves it.               *)
LEMMA ListenerInvNext == ListenerInv /\ [ListenerNext]_listening_vars => ListenerInv'
<1> SUFFICES ASSUME ListenerInv, [ListenerNext]_listening_vars PROVE ListenerInv'
  OBVIOUS
<1>1. CASE UNCHANGED listening_vars
  BY <1>1 DEF ListenerInv, ListenerTypeOK, OneAccept, listening_vars, listener_vars,
              network_vars, history_vars
<1>2. CASE ListenerNext
  BY <1>2, ListenerInvLoop, ListenerInvAccepted, ListenerInvSpawned, ListenerInvSystem
     DEF ListenerNext
<1> QED  BY <1>1, <1>2

(* Types, and one accept at a time, in every reachable state. *)
THEOREM ListenerInvHolds == ListenerSpec => []ListenerInv
BY ListenerInvInit, ListenerInvNext, PTL DEF ListenerSpec
-----------------------------------------------------------------------------
(* Every variable of the listener keeps its type: what is posted to the     *)
(* strand is a connection or an error, never a socket moved away.           *)
THEOREM ListenerTypeCorrect == ListenerSpec => []ListenerTypeOK
<1>1. ListenerInv => ListenerTypeOK
  BY DEF ListenerInv
<1> QED  BY <1>1, ListenerInvHolds, PTL

(* A listener that listens has one async_accept outstanding, or one that    *)
(* completed and will start the next, for every number of errors.           *)
THEOREM OneAcceptHolds == ListenerSpec => []OneAccept
<1>1. ListenerInv => OneAccept
  BY DEF ListenerInv
<1> QED  BY <1>1, ListenerInvHolds, PTL
-----------------------------------------------------------------------------
(* What ConnectionsOf says of s and q when the positions are given. *)
At(at, s, q) ==
  /\ at \in [DOMAIN q -> DOMAIN s]
  /\ \A i, j \in DOMAIN q : i < j => at[i] < at[j]
  /\ \A i \in DOMAIN q : s[at[i]] = q[i]
  /\ \A k \in DOMAIN s : s[k] \in Connections <=> \E i \in DOMAIN q : at[i] = k

(* There are such positions. *)
LEMMA Places == ASSUME NEW s, NEW q PROVE ConnectionsOf(s, q) <=> \E at : At(at, s, q)
<1>1. ASSUME NEW at, At(at, s, q) PROVE ConnectionsOf(s, q)
  <2>1. {at[i] : i \in DOMAIN q} = {k \in DOMAIN s : s[k] \in Connections}
    BY <1>1 DEF At
  <2> QED  BY <1>1, <2>1 DEF At, ConnectionsOf
<1>2. ASSUME ConnectionsOf(s, q) PROVE \E at : At(at, s, q)
  <2>1. PICK at \in [DOMAIN q -> DOMAIN s] :
          /\ \A i, j \in DOMAIN q : i < j => at[i] < at[j]
          /\ \A i \in DOMAIN q : s[at[i]] = q[i]
          /\ {at[i] : i \in DOMAIN q} = {k \in DOMAIN s : s[k] \in Connections}
    BY <1>2 DEF ConnectionsOf
  <2>2. At(at, s, q)
    BY <2>1 DEF At
  <2> QED  BY <2>2
<1> QED  BY <1>1, <1>2

(* One place more that holds no connection. *)
LEMMA PostedNone ==
  ASSUME NEW S, NEW s \in Seq(S), NEW x, x \notin Connections, NEW q \in Seq(Connections)
  PROVE  ConnectionsOf(Append(s, x), q) <=> ConnectionsOf(s, q)
<1>0. /\ DOMAIN Append(s, x) = 1 .. Len(s) + 1 /\ Append(s, x)[Len(s) + 1] = x
      /\ \A i \in 1 .. Len(s) : Append(s, x)[i] = s[i]
      /\ DOMAIN s = 1 .. Len(s) /\ Len(s) \in Nat
  OBVIOUS
<1>1. ASSUME NEW at, At(at, s, q) PROVE At(at, Append(s, x), q)
  BY <1>0, <1>1 DEF At
<1>2. ASSUME NEW at, At(at, Append(s, x), q) PROVE At(at, s, q)
  <2>1. \A i \in DOMAIN q : at[i] # Len(s) + 1
    BY <1>0, <1>2 DEF At
  <2> QED  BY <1>0, <1>2, <2>1 DEF At
<1> QED  BY <1>1, <1>2, Places

(* The place of a connection that comes last. *)
LEMMA PostedLast ==
  ASSUME NEW S, NEW s \in Seq(S), NEW c \in Connections, NEW q \in Seq(Connections),
         ConnectionsOf(s, q)
  PROVE  ConnectionsOf(Append(s, c), Append(q, c))
<1>1. PICK at : At(at, s, q)
  BY Places
<1> DEFINE new == [i \in 1 .. Len(q) + 1 |-> IF i = Len(q) + 1 THEN Len(s) + 1 ELSE at[i]]
<1>2. /\ DOMAIN Append(s, c) = 1 .. Len(s) + 1 /\ Append(s, c)[Len(s) + 1] = c
      /\ \A i \in 1 .. Len(s) : Append(s, c)[i] = s[i]
      /\ DOMAIN Append(q, c) = 1 .. Len(q) + 1 /\ Append(q, c)[Len(q) + 1] = c
      /\ \A i \in 1 .. Len(q) : Append(q, c)[i] = q[i]
      /\ DOMAIN s = 1 .. Len(s) /\ Len(s) \in Nat /\ DOMAIN q = 1 .. Len(q) /\ Len(q) \in Nat
  OBVIOUS
<1>3. /\ \A i \in 1 .. Len(q) : at[i] \in 1 .. Len(s) /\ s[at[i]] = q[i]
      /\ \A i, j \in 1 .. Len(q) : i < j => at[i] < at[j]
      /\ \A k \in 1 .. Len(s) : s[k] \in Connections <=> \E i \in 1 .. Len(q) : at[i] = k
  BY <1>1, <1>2 DEF At
<1>4. /\ new \in [1 .. Len(q) + 1 -> 1 .. Len(s) + 1] /\ new[Len(q) + 1] = Len(s) + 1
      /\ \A i \in 1 .. Len(q) : new[i] = at[i]
  BY <1>2, <1>3
<1> HIDE DEF new
<1>5. At(new, Append(s, c), Append(q, c))
  <2>0. \A i \in 1 .. Len(q) + 1 : i \in 1 .. Len(q) \/ i = Len(q) + 1
    BY <1>2
  <2>1. ASSUME NEW i \in 1 .. Len(q) + 1, NEW j \in 1 .. Len(q) + 1, i < j
        PROVE  new[i] < new[j]
    <3>1. i \in 1 .. Len(q)
      BY <1>2, <2>1
    <3>2. CASE j \in 1 .. Len(q)
      BY <1>3, <1>4, <2>1, <3>1, <3>2
    <3>3. CASE j = Len(q) + 1
      BY <1>2, <1>3, <1>4, <3>1, <3>3
    <3> QED  BY <2>0, <3>2, <3>3
  <2>2. \A i \in 1 .. Len(q) + 1 : Append(s, c)[new[i]] = Append(q, c)[i]
    BY <1>2, <1>3, <1>4
  <2>3. ASSUME NEW k \in 1 .. Len(s) + 1
        PROVE  Append(s, c)[k] \in Connections <=> \E i \in 1 .. Len(q) + 1 : new[i] = k
    <3>1. CASE k \in 1 .. Len(s)
      <4>1. new[Len(q) + 1] # k
        BY <1>2, <1>4, <3>1
      <4>2. (\E i \in 1 .. Len(q) + 1 : new[i] = k) <=> \E i \in 1 .. Len(q) : at[i] = k
        BY <1>2, <1>4, <2>0, <4>1
      <4> QED  BY <1>2, <1>3, <3>1, <4>2
    <3>2. CASE k = Len(s) + 1
      <4>1. Len(q) + 1 \in 1 .. Len(q) + 1
        BY <1>2
      <4> QED  BY <1>2, <1>4, <3>2, <4>1
    <3> QED  BY <1>2, <3>1, <3>2
  <2> QED  BY <1>2, <1>4, <2>1, <2>2, <2>3 DEF At
<1> QED  BY <1>5, Places

(* The first place is given up: by a connection, or by none. *)
LEMMA PostedHead ==
  ASSUME NEW S, NEW s \in Seq(S), s # <<>>, NEW q \in Seq(Connections), ConnectionsOf(s, q)
  PROVE  IF Head(s) \in Connections
         THEN q # <<>> /\ Head(q) = Head(s) /\ ConnectionsOf(Tail(s), Tail(q))
         ELSE ConnectionsOf(Tail(s), q)
<1>1. PICK at : At(at, s, q)
  BY Places
<1>2. /\ Len(s) \in Nat \ {0} /\ DOMAIN s = 1 .. Len(s) /\ Head(s) = s[1]
      /\ DOMAIN Tail(s) = 1 .. Len(s) - 1 /\ \A i \in 1 .. Len(s) - 1 : Tail(s)[i] = s[i + 1]
      /\ DOMAIN q = 1 .. Len(q) /\ Len(q) \in Nat
  OBVIOUS
<1>0. /\ \A i \in 1 .. Len(q) : at[i] \in 1 .. Len(s) /\ s[at[i]] = q[i]
      /\ \A i, j \in 1 .. Len(q) : i < j => at[i] < at[j]
      /\ \A k \in 1 .. Len(s) : s[k] \in Connections <=> \E i \in 1 .. Len(q) : at[i] = k
  BY <1>1, <1>2 DEF At
<1>3. ASSUME Head(s) \in Connections
      PROVE  q # <<>> /\ Head(q) = Head(s) /\ ConnectionsOf(Tail(s), Tail(q))
  <2>1. PICK first \in 1 .. Len(q) : at[first] = 1
    BY <1>1, <1>2, <1>3 DEF At
  <2>2. first = 1
    BY <1>0, <1>2, <2>1
  <2>3. /\ q # <<>> /\ Head(q) = q[1] /\ DOMAIN Tail(q) = 1 .. Len(q) - 1
        /\ \A i \in 1 .. Len(q) - 1 : Tail(q)[i] = q[i + 1]
    BY <1>2, <2>1
  <2> DEFINE new == [i \in 1 .. Len(q) - 1 |-> at[i + 1] - 1]
  <2>4. /\ new \in [1 .. Len(q) - 1 -> 1 .. Len(s) - 1]
        /\ \A i \in 1 .. Len(q) - 1 : at[i + 1] = new[i] + 1
    BY <1>0, <1>2, <2>1, <2>2
  <2> HIDE DEF new
  <2>5. At(new, Tail(s), Tail(q))
    <3>1. ASSUME NEW i \in 1 .. Len(q) - 1 PROVE Tail(s)[new[i]] = Tail(q)[i]
      <4>1. Tail(q)[i] = q[i + 1] /\ i + 1 \in 1 .. Len(q)
        BY <1>2, <2>3
      <4>2. Tail(s)[new[i]] = s[new[i] + 1]
        BY <1>2, <2>4
      <4>3. new[i] + 1 = at[i + 1]
        BY <2>4
      <4>4. s[at[i + 1]] = q[i + 1]
        BY <1>0, <4>1
      <4> QED  BY Zenon, <4>1, <4>2, <4>3, <4>4
    <3>2. ASSUME NEW i \in 1 .. Len(q) - 1, NEW j \in 1 .. Len(q) - 1, i < j
          PROVE  new[i] < new[j]
      <4>1. at[i + 1] < at[j + 1]
        BY <1>0, <1>2, <3>2
      <4>2. at[i + 1] = new[i] + 1 /\ at[j + 1] = new[j] + 1
        BY <2>4
      <4>3. new[i] \in 1 .. Len(s) - 1 /\ new[j] \in 1 .. Len(s) - 1
        BY <2>4
      <4>4. /\ new[i] \in Int /\ new[j] \in Int
            /\ at[i + 1] \in Int /\ at[j + 1] \in Int
        BY <1>2, <4>2, <4>3
      <4> QED  BY <4>1, <4>2, <4>3, <4>4
    <3>3. ASSUME NEW k \in 1 .. Len(s) - 1
          PROVE  s[k + 1] \in Connections <=> \E i \in 1 .. Len(q) - 1 : new[i] = k
      <4>1. k + 1 \in 1 .. Len(s) /\ k + 1 # 1
        BY <1>2
      <4>2. s[k + 1] \in Connections <=> \E i \in 1 .. Len(q) : at[i] = k + 1
        BY <1>1, <1>2, <4>1 DEF At
      <4>3. ASSUME NEW i \in 1 .. Len(q), at[i] = k + 1
            PROVE  i - 1 \in 1 .. Len(q) - 1 /\ new[i - 1] = k
        <5>1. i # 1
          BY <2>1, <2>2, <4>1, <4>3
        <5>2. i - 1 \in 1 .. Len(q) - 1 /\ (i - 1) + 1 = i
          BY <1>2, <5>1
        <5>3. new[i - 1] + 1 = k + 1 /\ new[i - 1] \in 1 .. Len(s) - 1
          BY <2>4, <4>3, <5>2
        <5> QED  BY <1>2, <5>2, <5>3
      <4>4. ASSUME NEW i \in 1 .. Len(q) - 1, new[i] = k
            PROVE  i + 1 \in 1 .. Len(q) /\ at[i + 1] = k + 1
        BY <1>2, <2>4, <4>4
      <4> QED  BY <4>2, <4>3, <4>4
    <3> QED  BY <1>2, <2>3, <2>4, <3>1, <3>2, <3>3 DEF At
  <2>6. q[1] = s[1]
    BY <1>0, <1>2, <2>1, <2>2
  <2> QED  BY <1>2, <2>3, <2>5, <2>6, Places
<1>4. ASSUME Head(s) \notin Connections PROVE ConnectionsOf(Tail(s), q)
  <2> DEFINE new == [i \in 1 .. Len(q) |-> at[i] - 1]
  <2>1. \A i \in 1 .. Len(q) : at[i] \in 2 .. Len(s)
    BY <1>1, <1>2, <1>4 DEF At
  <2>2. At(new, Tail(s), q)
    <3>1. ASSUME NEW k \in 1 .. Len(s) - 1
          PROVE  s[k + 1] \in Connections <=> \E i \in 1 .. Len(q) : new[i] = k
      <4>1. k + 1 \in 1 .. Len(s)
        BY <1>2
      <4>2. s[k + 1] \in Connections <=> \E i \in 1 .. Len(q) : at[i] = k + 1
        BY <1>1, <1>2, <4>1 DEF At
      <4>3. \A i \in 1 .. Len(q) : at[i] = k + 1 <=> new[i] = k
        BY <2>1
      <4> QED  BY <4>2, <4>3
    <3> QED  BY <1>1, <1>2, <2>1, <3>1 DEF At
  <2> QED  BY <2>2, Places
<1> QED  BY <1>3, <1>4
-----------------------------------------------------------------------------
(* Ordered says what InAcceptOrder does. *)
LEMMA OrderedIs == ASSUME ListenerTypeOK PROVE Ordered <=> InAcceptOrder
<1> DEFINE waiting == SubSeq(accepted, Len(handed) + 1, Len(accepted))
<1>1. accepted \in Seq(Connections) /\ handed \in Seq(Connections)
  BY DEF ListenerTypeOK
<1>2. waiting \in Seq(Connections)
  BY <1>1, SubSeqProperties
<1>3. ASSUME NEW q, Due(q) PROVE waiting = q
  <2>1. q \in Seq(Connections) /\ accepted = handed \o q
    BY <1>3 DEF Due
  <2>2. /\ Len(accepted) = Len(handed) + Len(q) /\ Len(handed) \in Nat /\ Len(q) \in Nat
        /\ \A i \in 1 .. Len(q) : accepted[Len(handed) + i] = q[i]
    BY <1>1, <2>1, ConcatProperties
  <2>3. /\ Len(waiting) = Len(q)
        /\ \A i \in 1 .. Len(q) : waiting[i] = accepted[Len(handed) + i]
    BY <1>1, <2>2, SubSeqProperties
  <2> QED  BY <1>2, <2>1, <2>2, <2>3, SeqEqual
<1>4. Ordered => InAcceptOrder
  <2>1. ASSUME NEW q, Due(q), Posted(q) PROVE InAcceptOrder
    BY Zenon, <1>3, <2>1 DEF Due, Posted, InAcceptOrder
  <2> QED  BY <2>1 DEF Ordered
<1>5. InAcceptOrder => Ordered
  BY <1>2 DEF Ordered, Due, Posted, InAcceptOrder
<1> QED  BY <1>4, <1>5

(* What is neither accepted nor handed out nor posted does not count. *)
LEMMA OrderAside ==
  ASSUME Ordered, UNCHANGED <<accepted, handed, strand, completed>>
  PROVE  Ordered'
BY DEF Ordered, Due, Posted

(* The accept that completed is posted behind the others. *)
LEMMA OrderAccepted == ASSUME OrderInv, on_accept PROVE Ordered'
<1>1. /\ strand' = Append(strand, completed) /\ completed' = none
      /\ UNCHANGED <<accepted, handed>>
  BY DEF on_accept, history_vars
<1>2. strand' \in Seq(Connections \cup {"error"})
  BY ListenerInvAccepted DEF OrderInv, ListenerInv, ListenerTypeOK
<1>3. PICK q : Due(q) /\ Posted(q)
  BY DEF OrderInv, Ordered
<1>4. ConnectionsOf(Append(strand', completed'), q)
  BY <1>1, <1>2, <1>3, PostedNone, AbsenceAssumption, ErrorAssumption DEF Due, Posted
<1> QED  BY <1>1, <1>3, <1>4 DEF Ordered, Due, Posted

(* The first one posted is handed out if it is a connection. *)
LEMMA OrderSpawned == ASSUME OrderInv, on_spawn_connect \/ on_spawn_error PROVE Ordered'
<1>1. /\ strand # <<>> /\ strand' = Tail(strand) /\ UNCHANGED <<accepted, completed>>
      /\ strand \in Seq(Connections \cup {"error"})
      /\ completed \in Connections \cup {"error", none} /\ handed \in Seq(Connections)
  BY DEF OrderInv, ListenerInv, ListenerTypeOK, on_spawn_connect, on_spawn_error, history_vars
<1> DEFINE s == Append(strand, completed)
<1>2. /\ s \in Seq(Connections \cup {"error", none}) /\ s # <<>> /\ Head(s) = Head(strand)
      /\ Tail(s) = Append(strand', completed)
  BY <1>1
<1>3. PICK q : Due(q) /\ ConnectionsOf(s, q)
  BY DEF OrderInv, Ordered, Posted
<1> HIDE DEF s
<1>4. CASE on_spawn_connect
  <2>1. Head(strand) \in Connections /\ handed' = Append(handed, Head(strand))
    BY <1>1, <1>4 DEF on_spawn_connect
  <2>2. q # <<>> /\ Head(q) = Head(strand) /\ ConnectionsOf(Tail(s), Tail(q))
    BY <1>2, <1>3, <2>1, PostedHead DEF Due
  <2>3. Tail(q) \in Seq(Connections) /\ accepted' = handed' \o Tail(q)
    BY <1>1, <1>3, <2>1, <2>2 DEF Due
  <2> QED  BY <1>1, <1>2, <2>2, <2>3 DEF Ordered, Due, Posted
<1>5. CASE on_spawn_error
  <2>1. Head(strand) \notin Connections /\ handed' = handed
    BY <1>5, AbsenceAssumption, ErrorAssumption DEF on_spawn_error, history_vars
  <2>2. ConnectionsOf(Tail(s), q)
    BY <1>2, <1>3, <2>1, PostedHead DEF Due
  <2> QED  BY <1>1, <1>2, <1>3, <2>1, <2>2 DEF Ordered, Due, Posted
<1> QED  BY <1>4, <1>5

(* The connection that is accepted comes behind all others, and an error    *)
(* counts for none.                                                        *)
LEMMA OrderCompleted == ASSUME OrderInv, async_accept \/ async_accept_error PROVE Ordered'
<1>1. /\ completed = none /\ strand \in Seq(Connections \cup {"error"})
      /\ accepted \in Seq(Connections) /\ handed \in Seq(Connections)
      /\ backlog \in Seq(Connections) /\ UNCHANGED <<handed, strand>>
  BY DEF OrderInv, ListenerInv, ListenerTypeOK, OneAccept, async_accept, async_accept_error,
         history_vars
<1>2. PICK q : Due(q) /\ Posted(q)
  BY DEF OrderInv, Ordered
<1>3. ConnectionsOf(strand, q)
  BY <1>1, <1>2, PostedNone, AbsenceAssumption, ErrorAssumption DEF Due, Posted
<1>4. CASE async_accept
  <2>1. PICK c \in Connections : completed' = c /\ accepted' = Append(accepted, c)
    BY <1>1, <1>4 DEF async_accept
  <2>2. ConnectionsOf(Append(strand', completed'), Append(q, c))
    BY <1>1, <1>2, <1>3, <2>1, PostedLast DEF Due
  <2>3. Append(q, c) \in Seq(Connections) /\ accepted' = handed' \o Append(q, c)
    <3>1. q \in Seq(Connections) /\ accepted = handed \o q
      BY <1>2 DEF Due
    <3> QED  BY SMTT(30), <1>1, <2>1, <3>1
  <2> QED  BY <2>2, <2>3 DEF Ordered, Due, Posted
<1>5. CASE async_accept_error
  <2>1. completed' = "error" /\ accepted' = accepted
    BY <1>5 DEF async_accept_error, history_vars
  <2>2. ConnectionsOf(Append(strand', completed'), q)
    BY <1>1, <1>2, <1>3, <2>1, PostedNone, AbsenceAssumption, ErrorAssumption DEF Due
  <2> QED  BY <1>1, <1>2, <2>1, <2>2 DEF Ordered, Due, Posted
<1> QED  BY <1>4, <1>5

(* No connection is established or accepted twice. *)
LEMMA OnceSystem == ASSUME OrderInv, system PROVE AcceptedOnce'
<1>1. /\ accepted \in Seq(Connections) /\ backlog \in Seq(Connections) /\ AcceptedOnce
  BY DEF OrderInv, ListenerInv, ListenerTypeOK
<1>2. ASSUME NEW c \in Connections, connect(c) PROVE AcceptedOnce'
  <2>1. /\ c \notin Values(backlog) \cup Values(accepted)
        /\ backlog' = Append(backlog, c) /\ accepted' = accepted
    BY <1>2 DEF connect, history_vars
  <2>2. /\ DOMAIN backlog' = 1 .. Len(backlog) + 1 /\ backlog'[Len(backlog) + 1] = c
        /\ \A i \in 1 .. Len(backlog) : backlog'[i] = backlog[i]
        /\ DOMAIN backlog = 1 .. Len(backlog) /\ Len(backlog) \in Nat
    BY <1>1, <2>1
  <2>3. \A i \in DOMAIN backlog' : i \in DOMAIN backlog \/ i = Len(backlog) + 1
    BY <2>2
  <2> QED  BY <1>1, <2>1, <2>2, <2>3 DEF AcceptedOnce, Distinct, Values
<1>3. ASSUME backlog # <<>>
      PROVE  /\ DOMAIN Tail(backlog) = 1 .. Len(backlog) - 1 /\ Head(backlog) = backlog[1]
             /\ \A i \in 1 .. Len(backlog) - 1 : Tail(backlog)[i] = backlog[i + 1]
             /\ DOMAIN backlog = 1 .. Len(backlog) /\ Len(backlog) \in Nat \ {0}
  BY <1>1, <1>3
<1>4. ASSUME backlog # <<>>
      PROVE  /\ Distinct(Tail(backlog)) /\ Head(backlog) \notin Values(Tail(backlog))
             /\ Values(Tail(backlog)) \subseteq Values(backlog) /\ Head(backlog) \in Values(backlog)
  <2>1. \A i \in DOMAIN Tail(backlog) :
          i + 1 \in DOMAIN backlog /\ i + 1 # 1 /\ 1 \in DOMAIN backlog
    BY <1>3, <1>4
  <2>2. \A i, j \in DOMAIN Tail(backlog) : i + 1 = j + 1 => i = j
    BY <1>3, <1>4
  <2> QED  BY <1>1, <1>3, <1>4, <2>1, <2>2 DEF AcceptedOnce, Distinct, Values
<1>5. CASE async_accept
  <2>1. /\ backlog # <<>> /\ backlog' = Tail(backlog)
        /\ accepted' = Append(accepted, Head(backlog))
    BY <1>5 DEF async_accept
  <2>2. /\ DOMAIN accepted' = 1 .. Len(accepted) + 1 /\ accepted'[Len(accepted) + 1] = Head(backlog)
        /\ \A i \in 1 .. Len(accepted) : accepted'[i] = accepted[i]
        /\ DOMAIN accepted = 1 .. Len(accepted) /\ Len(accepted) \in Nat
    BY <1>1, <2>1
  <2>3. \A i \in DOMAIN accepted' : i \in DOMAIN accepted \/ i = Len(accepted) + 1
    BY <2>2
  <2>4. Head(backlog) \notin Values(accepted)
    BY <1>1, <1>4, <2>1 DEF AcceptedOnce
  <2>5. Distinct(accepted') /\ Values(accepted') = Values(accepted) \cup {Head(backlog)}
    BY <1>1, <2>2, <2>3, <2>4 DEF AcceptedOnce, Distinct, Values
  <2> QED  BY <1>1, <1>4, <2>1, <2>5 DEF AcceptedOnce
<1>6. CASE async_accept_error
  BY <1>1, <1>4, <1>6 DEF async_accept_error, AcceptedOnce, history_vars
<1>7. CASE signal
  BY <1>1, <1>7 DEF signal, AcceptedOnce, network_vars, history_vars
<1> QED  BY <1>2, <1>5, <1>6, <1>7 DEF system

(* Nothing is accepted at first. *)
LEMMA OrderInvInit == ListenerInit => OrderInv
<1> SUFFICES ASSUME ListenerInit PROVE OrderInv
  OBVIOUS
<1>1. AcceptedOnce
  BY DEF ListenerInit, AcceptedOnce, Distinct, Values
<1>2. Due(<<>>)
  BY DEF ListenerInit, Due
<1>3. Posted(<<>>)
  <2>1. At(<<>>, <<none>>, <<>>)
    BY AbsenceAssumption, ErrorAssumption DEF At
  <2> QED  BY <2>1, Places DEF ListenerInit, Posted
<1> QED  BY <1>1, <1>2, <1>3, ListenerInvInit DEF OrderInv, Ordered

(* Every step keeps the order. *)
LEMMA OrderInvNext == OrderInv /\ [ListenerNext]_listening_vars => OrderInv'
<1> SUFFICES ASSUME OrderInv, [ListenerNext]_listening_vars PROVE OrderInv'
  OBVIOUS
<1>1. ListenerInv'
  BY ListenerInvNext DEF OrderInv
<1>2. CASE UNCHANGED <<accepted, handed, strand, completed, backlog>>
  BY <1>1, <1>2, OrderAside DEF OrderInv, AcceptedOnce
<1>3. CASE on_accept \/ on_spawn_connect \/ on_spawn_error
  <2>1. UNCHANGED <<accepted, backlog>>
    BY <1>3 DEF on_accept, on_spawn_connect, on_spawn_error, network_vars, history_vars
  <2> QED  BY <1>1, <1>3, <2>1, OrderAccepted, OrderSpawned DEF OrderInv, AcceptedOnce
<1>4. CASE system
  <2>1. ASSUME NEW c \in Connections, connect(c) PROVE Ordered'
    BY <2>1, OrderAside DEF OrderInv, connect, listener_vars, history_vars
  <2>2. ASSUME signal PROVE Ordered'
    <3>1. UNCHANGED <<accepted, handed, strand, completed>>
      BY <2>2 DEF signal, history_vars
    <3> QED  BY <3>1, OrderAside DEF OrderInv
  <2> QED  BY <1>1, <1>4, <2>1, <2>2, OrderCompleted, OnceSystem DEF OrderInv, system
<1>5. CASE \/ loop \/ callback_return \/ UNCHANGED listening_vars
           \/ \E step \in Steps : loop_error(step)
  BY <1>2, <1>5 DEF loop, loop_error, callback_return, listening_vars, listener_vars,
                    network_vars, history_vars
<1> QED  BY <1>3, <1>4, <1>5 DEF ListenerNext

(* on_accept gets the connections in the order in which they were accepted, *)
(* each once, for every number of connections and of errors in between.     *)
THEOREM InAcceptOrderHolds == ListenerSpec => []InAcceptOrder
<1>1. OrderInv => InAcceptOrder
  BY OrderedIs DEF OrderInv, ListenerInv
<1> QED  BY <1>1, OrderInvInit, OrderInvNext, PTL DEF ListenerSpec
=============================================================================
