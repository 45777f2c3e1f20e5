------------------------------- MODULE Server -------------------------------
(***************************************************************************)
(* A server as the reactor_flex example puts it together: the listener's   *)
(* on_accept starts a detection for each connection and returns; on_detect *)
(* makes a TLS session or a plain one of the socket, and gives it the      *)
(* buffer, which holds what the detection has read.  A detection runs on a *)
(* strand of its own, beside the listener and the other detections.        *)
(***************************************************************************)
EXTENDS Listener, Detect

VARIABLES
  session,    \* the kind of session made for a connection: "ssl", "plain" or none
  fed         \* the bytes in the buffer it was given

detection_vars == <<client_vars, detect_vars>>
session_vars == <<session, fed>>
server_vars == <<listening_vars, detection_vars, session_vars>>

Connected(c) == c \in Values(backlog) \cup Values(accepted)
-----------------------------------------------------------------------------
(* Mutant: onAccept calls the blocking form of the detection.               *)
onAccept_sync(c) ==
  /\ callback = c
  /\ \/ do_async(c) /\ UNCHANGED listening_vars
     \/ detecting[c] = "over" /\ callback_return /\ UNCHANGED detection_vars
  /\ UNCHANGED session_vars

(* onAccept, up to its return. *)
onAccept(c) ==
  /\ callback = c /\ ended[c] # "reset"
  /\ do_async(c)
  /\ callback_return
  /\ UNCHANGED session_vars

(* remote_endpoint() throws if the client has reset the connection by then: *)
(* the exception leaves run(), and the thread ends the program.             *)
onAccept_throws(c) ==
  /\ callback = c /\ ended[c] = "reset" /\ detecting[c] = "no"
  /\ ~stopped /\ stopped' = TRUE /\ callback' = none
  /\ UNCHANGED <<acceptor, accepting, completed, strand, network_vars, history_vars,
                 detection_vars, session_vars>>

(* Mutant: the session is not given the detector's buffer.                  *)
onDetect_bufferless(c) ==
  /\ ~stopped
  /\ detect_result(c)
  /\ session' = [session EXCEPT ![c] = IF result'[c] THEN "ssl" ELSE "plain"]
  /\ UNCHANGED <<listening_vars, fed>>

(* Mutant: do_async does not return after an error.                         *)
onDetectError_goes_on(c) ==
  /\ ~stopped
  /\ detect_error(c)
  /\ session' = [session EXCEPT ![c] = "plain"]
  /\ UNCHANGED <<listening_vars, fed>>

(* do_async's second half with onDetect, and with onError. *)
onDetect(c) ==
  /\ ~stopped
  /\ detect_result(c)
  /\ session' = [session EXCEPT ![c] = IF result'[c] THEN "ssl" ELSE "plain"]
  /\ fed' = [fed EXCEPT ![c] = buffer'[c]]
  /\ UNCHANGED listening_vars

onDetectError(c) ==
  /\ ~stopped
  /\ detect_error(c)
  /\ UNCHANGED <<listening_vars, session_vars>>

detect_goes_on(c) ==
  /\ ~stopped
  /\ \E n \in 1 .. Len(bytes[c]) : read_on(c, n)
  /\ UNCHANGED <<listening_vars, session_vars>>

onError ==
  /\ callback = "error" /\ callback_return
  /\ UNCHANGED <<detection_vars, session_vars>>

listen ==
  /\ \/ loop \/ \E step \in Steps : loop_error(step)
     \/ on_accept \/ on_spawn_connect \/ on_spawn_error \/ system
  /\ UNCHANGED <<detection_vars, session_vars>>

client_step(c) ==
  /\ Connected(c)
  /\ client(c)
  /\ UNCHANGED <<listening_vars, session_vars>>
-----------------------------------------------------------------------------
ServerInit ==
  /\ ListenerInit
  /\ DetectInit /\ buffer = [c \in Connections |-> 0]
  /\ session = [c \in Connections |-> none]
  /\ fed = [c \in Connections |-> 0]

detection(c) == onDetect(c) \/ onDetectError(c) \/ detect_goes_on(c)

ServerNext ==
  \/ listen \/ onError
  \/ \E c \in Connections :
       onAccept(c) \/ onAccept_throws(c) \/ detection(c) \/ client_step(c)

ServerSpec == ServerInit /\ [][ServerNext]_server_vars

ServerFairness ==
  /\ WF_server_vars(async_accept /\ UNCHANGED <<detection_vars, session_vars>>)
  /\ WF_server_vars(on_accept /\ UNCHANGED <<detection_vars, session_vars>>)
  /\ WF_server_vars((on_spawn_connect \/ on_spawn_error)
                      /\ UNCHANGED <<detection_vars, session_vars>>)
  /\ WF_server_vars(onError)
  /\ \A c \in Connections :
       WF_server_vars(onAccept(c) \/ onAccept_throws(c)) /\ WF_server_vars(detection(c))

FairServerSpec == ServerSpec /\ ServerFairness
-----------------------------------------------------------------------------
(* Types of the server: what its listener and its detections hold.          *)
ServerTypeOK ==
  /\ ListenerTypeOK /\ DetectTypeOK
  /\ session \in [Connections -> {none, "plain", "ssl"}]
  /\ fed \in [Connections -> Nat]

(* A client that begins with a client_hello, and no other, gets a TLS       *)
(* session; and a session finds every byte the client sent: those that were *)
(* read before it was made in its buffer, the others still in the socket.   *)
SessionFitsClient ==
  \A c \in Connections :
    session[c] # none =>
      /\ session[c] = IF IsClientHello(bytes[c]) THEN "ssl" ELSE "plain"
      /\ fed[c] = consumed[c]

(* Each connection is the concern of one owner at a time: the listener      *)
(* until on_accept has it, then the detection, and then the session or,     *)
(* after an error, nobody; it never comes back.                            *)
OneOwner ==
  \A c \in Connections :
    /\ detecting[c] # "no" => c \in Values(handed) /\ callback # c
    /\ c \in Values(strand) => c \notin Values(handed) /\ completed # c
    /\ session[c] # none => detecting[c] = "over" /\ error[c] = none

(* A client that sends a whole record header, or ends, is answered: with a  *)
(* session or an error, unless it was lost before it was accepted, the      *)
(* io_context was stopped or an exception ended the program (which a client *)
(* that resets its connection in time brings about).  Clients that connect  *)
(* and stay silent hold nobody up.                                         *)
EveryClientAnswered ==
  \A c \in Connections :
    Connected(c) /\ (ended[c] # none \/ sent[c] >= 9)
      ~> session[c] # none \/ error[c] # none \/ c \in aborted \/ stopped
=============================================================================
