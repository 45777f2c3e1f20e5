---------------------------- MODULE ServerProofs ----------------------------
(***************************************************************************)
(* The listener and the detections put together, for any number of         *)
(* connections and any clients: proofs about Server.                       *)
(*                                                                         *)
(* Every step of the server is a step of the listener or of a detection,   *)
(* or leaves it alone, so that the inductive invariants of both hold; what *)
(* has to be said besides is who owns a connection, and that a session was *)
(* made from the result and the buffer of its detection.                   *)
(***************************************************************************)
EXTENDS Server, ListenerProofs, DetectProofs

Handing(c) == callback = c => c \in Values(handed)
Detecting(c) ==
  /\ detecting[c] \in {"no", "reading", "over"}
  /\ detecting[c] # "no" => c \in Values(handed) /\ callback # c
InSession(c) ==
  session[c] # none =>
    /\ detecting[c] = "over" /\ error[c] = none
    /\ session[c] = IF result[c] THEN "ssl" ELSE "plain"
    /\ fed[c] = consumed[c]
Owned(c) == Handing(c) /\ Detecting(c) /\ InSession(c)
SessionTypeOK ==
  /\ session \in [Connections -> {none, "plain", "ssl"}]
  /\ fed \in [Connections -> Nat]
ServerInv ==
  OrderInv /\ IInv /\ SessionTypeOK /\ \A c \in Connections : Owned(c)
-----------------------------------------------------------------------------
(* A connection that is posted has not been handed out, nor has it just     *)
(* been accepted.                                                          *)
LEMMA PostedOnce ==
  ASSUME OrderInv, NEW c \in Connections, c \in Values(strand)
  PROVE  c \notin Values(handed) /\ completed # c
<1>1. /\ strand \in Seq(Connections \cup {"error"}) /\ handed \in Seq(Connections)
      /\ accepted \in Seq(Connections) /\ completed \in Connections \cup {"error", none}
      /\ Distinct(accepted)
  BY DEF OrderInv, ListenerInv, ListenerTypeOK, AcceptedOnce
<1> DEFINE s == Append(strand, completed)
<1>2. /\ DOMAIN s = 1 .. Len(strand) + 1 /\ s[Len(strand) + 1] = completed
      /\ \A i \in 1 .. Len(strand) : s[i] = strand[i]
      /\ DOMAIN strand = 1 .. Len(strand) /\ Len(strand) \in Nat
      /\ Len(strand) + 1 \in DOMAIN s
  BY <1>1
<1>3. PICK q : q \in Seq(Connections) /\ accepted = handed \o q /\ ConnectionsOf(s, q)
  BY DEF OrderInv, Ordered, Due, Posted
<1> HIDE DEF s
<1>4. PICK at : At(at, s, q)
  BY <1>3, Places
<1>5. PICK k \in 1 .. Len(strand) : s[k] = c
  BY <1>2 DEF Values
<1>6. PICK i \in DOMAIN q : at[i] = k /\ q[i] = c
  BY <1>2, <1>4, <1>5 DEF At
<1>7. /\ \A j \in DOMAIN q : Len(handed) + j \in DOMAIN accepted /\ accepted[Len(handed) + j] = q[j]
      /\ \A j \in DOMAIN handed : j \in DOMAIN accepted /\ accepted[j] = handed[j]
      /\ \A j \in DOMAIN handed : j <= Len(handed) /\ j \in Nat
      /\ \A j \in DOMAIN q : j \in Nat \ {0}
      /\ Len(handed) \in Nat
  BY <1>1, <1>3
<1>8. ASSUME NEW j \in DOMAIN handed PROVE handed[j] # c
  <2>1. j # Len(handed) + i
    BY <1>7
  <2> QED  BY <1>1, <1>6, <1>7, <2>1 DEF Distinct
<1>9. ASSUME completed = c PROVE FALSE
  <2>1. PICK j \in DOMAIN q : at[j] = Len(strand) + 1 /\ q[j] = c
    BY <1>2, <1>4, <1>9 DEF At
  <2>2. Len(handed) + i = Len(handed) + j
    BY <1>1, <1>6, <1>7, <2>1 DEF Distinct
  <2>3. i = j
    BY <1>7, <2>2
  <2> QED  BY <1>2, <1>5, <1>6, <2>1, <2>3
<1> QED  BY <1>8, <1>9 DEF Values

(* What is owned stays so while the connection is left alone. *)
LEMMA OwnedAside ==
  ASSUME NEW d \in Connections, Owned(d), Untouched(d),
         session'[d] = session[d], fed'[d] = fed[d],
         d \in Values(handed) => d \in Values(handed)', callback' \in {callback, none}
  PROVE  Owned(d)'
BY AbsenceAssumption DEF Owned, Handing, Detecting, InSession, Untouched

(* The listener's own steps. *)
LEMMA ServerListens ==
  ASSUME ServerInv, listen \/ onError
  PROVE  ServerInv'
<1> USE DEF ServerInv
<1>1. UNCHANGED <<detection_vars, session_vars>>
  BY DEF listen, onError
<1>2. OrderInv'
  BY OrderInvNext DEF listen, onError, ListenerNext
<1>3. IInv'
  <2>1. UNCHANGED vars
    BY <1>1 DEF detection_vars, vars
  <2> QED  BY <2>1, IInvNext
<1>4. SessionTypeOK'
  BY <1>1 DEF SessionTypeOK, session_vars
<1>5. ASSUME NEW d \in Connections
      PROVE  Untouched(d) /\ session'[d] = session[d] /\ fed'[d] = fed[d]
  BY <1>1 DEF Untouched, detection_vars, session_vars, client_vars, detect_vars
<1>6. handed \in Seq(Connections) /\ strand \in Seq(Connections \cup {"error"})
  BY DEF OrderInv, ListenerInv, ListenerTypeOK
<1>7. CASE on_spawn_connect
  <2>1. PICK c : c = Head(strand)
    OBVIOUS
  <2>2. /\ c \in Values(strand) /\ c \in Connections /\ callback' = c
        /\ handed' = Append(handed, c)
    BY <1>6, <1>7, <2>1 DEF on_spawn_connect, Values
  <2>3. c \notin Values(handed)
    BY <2>2, PostedOnce
  <2>4. Values(handed') = Values(handed) \cup {c}
    <3>1. /\ DOMAIN handed' = 1 .. Len(handed) + 1 /\ handed'[Len(handed) + 1] = c
          /\ \A i \in 1 .. Len(handed) : handed'[i] = handed[i]
          /\ DOMAIN handed = 1 .. Len(handed) /\ Len(handed) \in Nat
      BY <1>6, <2>2
    <3>2. \A i \in DOMAIN handed' : i \in DOMAIN handed \/ i = Len(handed) + 1
      BY <3>1
    <3> QED  BY <3>1, <3>2 DEF Values
  <2>5. ASSUME NEW d \in Connections PROVE Owned(d)'
    BY <1>5, <2>2, <2>3, <2>4 DEF Owned, Handing, Detecting, InSession, Untouched
  <2> QED  BY <1>2, <1>3, <1>4, <2>5
<1>8. CASE ~on_spawn_connect
  <2>1. handed' = handed
    BY <1>8 DEF listen, onError, loop, loop_error, on_accept, on_spawn_error, system, connect,
       async_accept, async_accept_error, signal, callback_return, history_vars
  <2>2. callback' \in {callback, none, "error"}
    BY <1>8 DEF listen, onError, loop, loop_error, on_accept, on_spawn_error, system, connect,
       async_accept, async_accept_error, signal, callback_return, listener_vars
  <2>3. ASSUME NEW d \in Connections PROVE Owned(d)'
    BY <1>5, <2>1, <2>2, AbsenceAssumption, ErrorAssumption
       DEF Owned, Handing, Detecting, InSession, Untouched
  <2> QED  BY <1>2, <1>3, <1>4, <2>3
<1> QED  BY <1>7, <1>8

(* on_accept gives the connection to its detection, or ends the program. *)
LEMMA ServerAccepts ==
  ASSUME ServerInv, NEW c \in Connections, onAccept(c) \/ onAccept_throws(c)
  PROVE  ServerInv'
<1> USE DEF ServerInv
<1>1. CASE onAccept(c)
  <2>1. /\ callback = c /\ do_async(c) /\ callback_return /\ UNCHANGED session_vars
    BY <1>1 DEF onAccept
  <2>2. OrderInv'
    BY <2>1, OrderInvNext DEF ListenerNext
  <2>3. IInv'
    BY <2>1, IInvNext DEF Next
  <2>4. SessionTypeOK'
    BY <2>1 DEF SessionTypeOK, session_vars
  <2>5. callback' = none /\ handed' = handed
    BY <2>1 DEF callback_return, history_vars
  <2>6. /\ detecting[c] = "no" /\ detecting' = [detecting EXCEPT ![c] = "reading"]
        /\ UNCHANGED <<client_vars, consumed, buffer, result, error>>
    BY <2>1 DEF do_async
  <2>7. ASSUME NEW d \in Connections, d # c PROVE Owned(d)'
    <3>1. Untouched(d)
      BY <2>6, <2>7 DEF Untouched, client_vars, IInv, DetectTypeOK
    <3> QED  BY <2>1, <2>5, <3>1, OwnedAside DEF session_vars
  <2>8. Owned(c)'
    BY <2>1, <2>5, <2>6, AbsenceAssumption DEF Owned, Handing, Detecting, InSession, session_vars,
       IInv, DetectTypeOK
  <2> QED  BY <2>2, <2>3, <2>4, <2>7, <2>8
<1>2. CASE onAccept_throws(c)
  <2>1. /\ stopped' = TRUE /\ callback' = none
        /\ UNCHANGED <<acceptor, accepting, completed, strand, network_vars, history_vars,
                       detection_vars, session_vars>>
    BY <1>2 DEF onAccept_throws
  <2>2. OrderInv'
    <3>1. stopped' \in BOOLEAN
      BY Zenon, <2>1
    <3>2. ListenerTypeOK'
      BY <2>1, <3>1 DEF OrderInv, ListenerInv, ListenerTypeOK, network_vars, history_vars
    <3>3. OneAccept' /\ Ordered' /\ AcceptedOnce'
      BY <2>1, OrderAside DEF OrderInv, ListenerInv, OneAccept, AcceptedOnce, network_vars,
         history_vars
    <3> QED  BY <3>2, <3>3 DEF OrderInv, ListenerInv
  <2>3. IInv'
    <3>1. UNCHANGED vars
      BY <2>1 DEF detection_vars, vars
    <3> QED  BY <3>1, IInvNext
  <2>4. SessionTypeOK'
    BY <2>1 DEF SessionTypeOK, session_vars
  <2>5. ASSUME NEW d \in Connections PROVE Owned(d)'
    <3>1. Untouched(d)
      BY <2>1 DEF Untouched, detection_vars, client_vars, detect_vars
    <3> QED  BY <2>1, <3>1, OwnedAside DEF session_vars, history_vars
  <2> QED  BY <2>2, <2>3, <2>4, <2>5
<1> QED  BY <1>1, <1>2

(* A detection reads on, fails, or makes a session of its result. *)
LEMMA ServerDetects ==
  ASSUME ServerInv, NEW c \in Connections, detection(c)
  PROVE  ServerInv'
<1> USE DEF ServerInv
<1>1. UNCHANGED listening_vars
  BY DEF detection, onDetect, onDetectError, detect_goes_on
<1>2. OrderInv'
  BY <1>1, OrderInvNext
<1>3. IInv'
  BY IInvNext DEF detection, onDetect, onDetectError, detect_goes_on, detect_step, Next
<1>4. /\ detecting[c] = "reading" /\ bytes' = bytes
      /\ \A d \in Connections : d # c => Untouched(d)
  BY DEF detection, onDetect, onDetectError, detect_goes_on, detect_result, detect_error, read_on,
     commit, Untouched, client_vars, IInv, DetectTypeOK
<1>5. callback' = callback /\ handed' = handed
  BY <1>1 DEF listening_vars, listener_vars, history_vars
<1>6. session[c] = none
  BY <1>4 DEF Owned, InSession
<1>7. CASE onDetect(c)
  <2>1. /\ detect_result(c)
        /\ session' = [session EXCEPT ![c] = IF result'[c] THEN "ssl" ELSE "plain"]
        /\ fed' = [fed EXCEPT ![c] = buffer'[c]]
    BY <1>7 DEF onDetect
  <2>2. buffer'[c] \in Nat /\ buffer'[c] = consumed'[c]
    BY <1>3 DEF IInv, DetectTypeOK, Sound, Kept
  <2>3. (IF result'[c] THEN "ssl" ELSE "plain") \in {"plain", "ssl"}
    OBVIOUS
  <2>4. SessionTypeOK'
    BY <2>1, <2>2, <2>3 DEF SessionTypeOK
  <2>5. ASSUME NEW d \in Connections, d # c PROVE Owned(d)'
    BY <1>4, <1>5, <2>1, <2>5, OwnedAside DEF SessionTypeOK
  <2>6. Owned(c)'
    <3>1. detecting'[c] = "over" /\ error' = error
      BY <2>1 DEF detect_result, IInv, DetectTypeOK
    <3>2. error[c] = none
      BY <1>4 DEF IInv, Sound, Failed, Over
    <3>3. session'[c] = (IF result'[c] THEN "ssl" ELSE "plain") /\ fed'[c] = consumed'[c]
      BY <2>1, <2>2 DEF SessionTypeOK
    <3> QED  BY <1>4, <1>5, <3>1, <3>2, <3>3 DEF Owned, Handing, Detecting, InSession
  <2> QED  BY <1>2, <1>3, <2>4, <2>5, <2>6
<1>8. CASE onDetectError(c) \/ detect_goes_on(c)
  <2>1. UNCHANGED session_vars
    BY <1>8 DEF onDetectError, detect_goes_on
  <2>2. SessionTypeOK'
    BY <2>1 DEF SessionTypeOK, session_vars
  <2>3. ASSUME NEW d \in Connections, d # c PROVE Owned(d)'
    BY <1>4, <1>5, <2>1, <2>3, OwnedAside DEF session_vars
  <2>4. detecting'[c] \in {"reading", "over"}
    BY <1>8 DEF onDetectError, detect_goes_on, detect_error, read_on, IInv, DetectTypeOK
  <2>5. Owned(c)'
    BY <1>4, <1>5, <1>6, <2>1, <2>4 DEF Owned, Handing, Detecting, InSession, session_vars
  <2> QED  BY <1>2, <1>3, <2>2, <2>3, <2>5
<1> QED  BY <1>7, <1>8 DEF detection

(* Clients change nothing that is owned. *)
LEMMA ServerClients ==
  ASSUME ServerInv, NEW c \in Connections, client_step(c)
  PROVE  ServerInv'
<1> USE DEF ServerInv
<1>1. client(c) /\ UNCHANGED listening_vars /\ UNCHANGED session_vars
  BY DEF client_step
<1>2. OrderInv' /\ IInv'
  BY <1>1, OrderInvNext, IInvNext DEF Next
<1>3. SessionTypeOK'
  BY <1>1 DEF SessionTypeOK, session_vars
<1>4. ASSUME NEW d \in Connections PROVE Owned(d)'
  <2>1. Untouched(d)
    BY <1>1 DEF Untouched, client, client_send, client_end, detect_vars
  <2> QED  BY <1>1, <2>1, OwnedAside DEF session_vars, listening_vars, listener_vars, history_vars
<1> QED  BY <1>2, <1>3, <1>4

(* Nobody has connected at first. *)
LEMMA ServerInvInit == ServerInit => ServerInv
<1> SUFFICES ASSUME ServerInit PROVE ServerInv
  OBVIOUS
<1>1. OrderInv /\ IInv
  BY OrderInvInit, IInvInit DEF ServerInit
<1>2. SessionTypeOK
  BY DEF ServerInit, SessionTypeOK
<1>3. ASSUME NEW c \in Connections PROVE Owned(c)
  BY AbsenceAssumption
     DEF ServerInit, ListenerInit, DetectInit, Owned, Handing, Detecting, InSession
<1> QED  BY <1>1, <1>2, <1>3 DEF ServerInv

(* Every step of the server preserves it. *)
LEMMA ServerInvNext == ServerInv /\ [ServerNext]_server_vars => ServerInv'
<1> SUFFICES ASSUME ServerInv, [ServerNext]_server_vars PROVE ServerInv'
  OBVIOUS
<1>1. CASE UNCHANGED server_vars
  <2>1. UNCHANGED listening_vars /\ UNCHANGED vars /\ UNCHANGED session_vars
    BY <1>1 DEF server_vars, detection_vars, vars
  <2>2. OrderInv' /\ IInv'
    BY <2>1, OrderInvNext, IInvNext DEF ServerInv
  <2>3. SessionTypeOK'
    BY <2>1 DEF ServerInv, SessionTypeOK, session_vars
  <2>4. ASSUME NEW d \in Connections PROVE Owned(d)'
    <3>1. Untouched(d)
      BY <2>1 DEF Untouched, vars, client_vars, detect_vars
    <3> QED  BY <2>1, <3>1, OwnedAside
             DEF ServerInv, session_vars, listening_vars, listener_vars, history_vars
  <2> QED  BY <2>2, <2>3, <2>4 DEF ServerInv
<1>2. CASE ServerNext
  BY <1>2, ServerListens, ServerAccepts, ServerDetects, ServerClients DEF ServerNext
<1> QED  BY <1>1, <1>2

(* The listener, the detections and the sessions agree on who has each      *)
(* connection: in every reachable state.                                    *)
THEOREM ServerInvHolds == ServerSpec => []ServerInv
BY ServerInvInit, ServerInvNext, PTL DEF ServerSpec
-----------------------------------------------------------------------------
(* The types of the listener and of the detections survive their            *)
(* composition, an on_accept that throws included.                          *)
THEOREM ServerTypeCorrect == ServerSpec => []ServerTypeOK
<1>1. ServerInv => ServerTypeOK
  BY DEF ServerInv, OrderInv, ListenerInv, IInv, SessionTypeOK, ServerTypeOK
<1> QED  BY <1>1, ServerInvHolds, PTL

(* Every session is of the kind that all bytes of its client ask for, and   *)
(* finds all that was read of them in its buffer: for any clients, however  *)
(* their bytes arrive, and any number of detections at once.                *)
THEOREM SessionFitsClientHolds == ServerSpec => []SessionFitsClient
<1>1. ServerInv => SessionFitsClient
  <2> SUFFICES ASSUME ServerInv, NEW c \in Connections, session[c] # none
               PROVE  /\ session[c] = IF IsClientHello(bytes[c]) THEN "ssl" ELSE "plain"
                      /\ fed[c] = consumed[c]
    BY DEF SessionFitsClient
  <2>1. /\ detecting[c] = "over" /\ error[c] = none /\ fed[c] = consumed[c]
        /\ session[c] = IF result[c] THEN "ssl" ELSE "plain"
    BY DEF ServerInv, Owned, InSession
  <2>2. result[c] = IsClientHello(bytes[c])
    BY <2>1, VerdictIs DEF ServerInv, VerdictIsRight, Over
  <2> QED  BY <2>1, <2>2
<1> QED  BY <1>1, ServerInvHolds, PTL

(* No connection is the concern of two, and none comes back to who has      *)
(* given it away.                                                          *)
THEOREM OneOwnerHolds == ServerSpec => []OneOwner
<1>1. ServerInv => OneOwner
  BY PostedOnce DEF ServerInv, Owned, Detecting, InSession, OneOwner
<1> QED  BY <1>1, ServerInvHolds, PTL

(* What was shown of the listener alone holds of it in a server: an         *)
(* exception out of on_accept leaves the order and the one accept as they   *)
(* were.                                                                   *)
THEOREM ServerAcceptsInOrder == ServerSpec => [](InAcceptOrder /\ OneAccept)
<1>1. ServerInv => InAcceptOrder /\ OneAccept
  BY OrderedIs DEF ServerInv, OrderInv, ListenerInv
<1> QED  BY <1>1, ServerInvHolds, PTL
=============================================================================
