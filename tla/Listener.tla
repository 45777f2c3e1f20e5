------------------------------ MODULE Listener ------------------------------
(***************************************************************************)
(* The listener: it opens its acceptor, keeps one async_accept outstanding *)
(* and posts what each one brought, a connection or an error, to its       *)
(* strand, which hands it to the user's on_accept or on_error.             *)
(*                                                                         *)
(* Several threads run the io_context.  The completion of an accept is     *)
(* bound to no strand, so on_accept(ec, socket) runs beside whatever the   *)
(* strand runs; a user callback takes time, and ends.                      *)
(***************************************************************************)
EXTENDS Endpoints, Naturals, Sequences

CONSTANT MaxErrors   \* bound: failed accepts

ASSUME ErrorAssumption == "error" \notin Connections \cup {none}
ASSUME MaxErrorsAssumption == MaxErrors \in Nat

VARIABLES
  acceptor,   \* "new", "listening", or the step of loop() that failed
  accepting,  \* is an async_accept outstanding?
  completed,  \* the accept that has completed: its connection, "error" or none
  strand,     \* what is posted to the strand, as connections and "error"s
  callback,   \* what the user callback now running on the strand was given
  stopped,    \* has the io_context been stopped?
  backlog,    \* the connections the system has established, in their order
  errors,     \* failed accepts so far
  aborted,    \* history: connections lost before they were accepted
  accepted,   \* history: the connections accepted, in this order
  handed      \* history: the connections given to on_accept, in this order

listener_vars == <<acceptor, accepting, completed, strand, callback, stopped>>
network_vars == <<backlog, errors, aborted>>
history_vars == <<accepted, handed>>
listening_vars == <<listener_vars, network_vars, history_vars>>

Values(s) == {s[i] : i \in DOMAIN s}
Steps == {"open", "set_option", "bind", "listen"}  \* of loop()
-----------------------------------------------------------------------------
do_accept == accepting' = TRUE

(* listener::loop. *)
loop ==
  /\ acceptor = "new"
  /\ acceptor' = "listening"
  /\ do_accept
  /\ UNCHANGED <<completed, strand, callback, stopped, network_vars, history_vars>>

(* A step fails: on_error, which may stop the io_context, and no accept.    *)
loop_error(step) ==
  /\ acceptor = "new"
  /\ acceptor' = step
  /\ stopped' \in {stopped, TRUE}
  /\ UNCHANGED <<accepting, completed, strand, callback, network_vars, history_vars>>

(* Mutant: a failed accept is the last.                                     *)
on_accept_gives_up ==
  /\ ~stopped /\ completed # none
  /\ strand' = Append(strand, completed)
  /\ completed' = none
  /\ accepting' = (completed # "error")
  /\ UNCHANGED <<acceptor, callback, stopped, network_vars, history_vars>>

(* Mutant: the socket is bound to the posted handler after it was moved.    *)
on_accept_moved ==
  /\ ~stopped /\ completed # none
  /\ completed' = none
  /\ strand' = Append(strand, completed')
  /\ do_accept
  /\ UNCHANGED <<acceptor, callback, stopped, network_vars, history_vars>>

(* on_accept(ec, socket), the handler of async_accept, whatever it brought. *)
on_accept ==
  /\ ~stopped /\ completed # none
  /\ strand' = Append(strand, completed)
  /\ completed' = none
  /\ do_accept
  /\ UNCHANGED <<acceptor, callback, stopped, network_vars, history_vars>>

(* Mutant: posted to the io_context: any thread may run any of them first.  *)
on_spawn_connect_any ==
  /\ ~stopped
  /\ \E i \in DOMAIN strand :
       /\ strand[i] # "error"
       /\ callback' = strand[i]
       /\ strand' = SubSeq(strand, 1, i - 1) \o SubSeq(strand, i + 1, Len(strand))
       /\ handed' = Append(handed, strand[i])
  /\ UNCHANGED <<acceptor, accepting, completed, stopped, network_vars, accepted>>

(* on_spawn_connect(ec, socket) calls on_accept_ ...                        *)
on_spawn_connect ==
  /\ ~stopped /\ callback = none /\ strand # <<>> /\ Head(strand) # "error"
  /\ callback' = Head(strand) /\ strand' = Tail(strand)
  /\ handed' = Append(handed, Head(strand))
  /\ UNCHANGED <<acceptor, accepting, completed, stopped, network_vars, accepted>>

(* ... or on_error_, which may stop the io_context. *)
on_spawn_error ==
  /\ ~stopped /\ callback = none /\ strand # <<>> /\ Head(strand) = "error"
  /\ callback' = "error" /\ strand' = Tail(strand)
  /\ stopped' \in {stopped, TRUE}
  /\ UNCHANGED <<acceptor, accepting, completed, network_vars, history_vars>>

callback_return ==
  /\ callback # none
  /\ callback' = none
  /\ UNCHANGED <<acceptor, accepting, completed, strand, stopped, network_vars, history_vars>>
-----------------------------------------------------------------------------
(* The system: connections come, accepts complete, with the connection that *)
(* came first or with an error, which may be the loss of that connection.   *)
(* A signal may stop the io_context.                                       *)
connect(c) ==
  /\ acceptor = "listening" /\ c \notin Values(backlog) \cup aborted \cup Values(accepted)
  /\ backlog' = Append(backlog, c)
  /\ UNCHANGED <<listener_vars, errors, aborted, history_vars>>

async_accept ==
  /\ accepting /\ backlog # <<>>
  /\ accepting' = FALSE
  /\ completed' = Head(backlog)
  /\ backlog' = Tail(backlog)
  /\ accepted' = Append(accepted, Head(backlog))
  /\ UNCHANGED <<acceptor, strand, callback, stopped, errors, aborted, handed>>

async_accept_error ==
  /\ accepting /\ errors < MaxErrors
  /\ accepting' = FALSE
  /\ completed' = "error"
  /\ errors' = errors + 1
  /\ \/ UNCHANGED <<backlog, aborted>>
     \/ /\ backlog # <<>>
        /\ backlog' = Tail(backlog)
        /\ aborted' = aborted \cup {Head(backlog)}
  /\ UNCHANGED <<acceptor, strand, callback, stopped, history_vars>>

signal ==
  /\ ~stopped /\ stopped' = TRUE
  /\ UNCHANGED <<acceptor, accepting, completed, strand, callback, network_vars, history_vars>>
-----------------------------------------------------------------------------
ListenerInit ==
  /\ acceptor = "new" /\ accepting = FALSE /\ completed = none
  /\ strand = <<>> /\ callback = none /\ stopped = FALSE
  /\ backlog = <<>> /\ errors = 0 /\ aborted = {}
  /\ accepted = <<>> /\ handed = <<>>

system == (\E c \in Connections : connect(c)) \/ async_accept \/ async_accept_error \/ signal

ListenerNext ==
  \/ loop \/ \E step \in Steps : loop_error(step)
  \/ on_accept \/ on_spawn_connect \/ on_spawn_error \/ callback_return
  \/ system

ListenerSpec == ListenerInit /\ [][ListenerNext]_listening_vars
-----------------------------------------------------------------------------
(* Types of the listener: what it posts is a connection or an error.        *)
ListenerTypeOK ==
  /\ acceptor \in {"new", "listening"} \cup Steps
  /\ accepting \in BOOLEAN /\ stopped \in BOOLEAN
  /\ completed \in Connections \cup {"error", none}
  /\ callback \in Connections \cup {"error", none}
  /\ strand \in Seq(Connections \cup {"error"})
  /\ backlog \in Seq(Connections) /\ aborted \subseteq Connections
  /\ errors \in 0 .. MaxErrors
  /\ accepted \in Seq(Connections) /\ handed \in Seq(Connections)

(* The connections in s are those of q, in the order of q.                  *)
ConnectionsOf(s, q) ==
  \E at \in [DOMAIN q -> DOMAIN s] :
    /\ \A i, j \in DOMAIN q : i < j => at[i] < at[j]
    /\ \A i \in DOMAIN q : s[at[i]] = q[i]
    /\ {at[i] : i \in DOMAIN q} = {k \in DOMAIN s : s[k] \in Connections}

(* Every accepted connection is in one place and keeps its turn: on_accept  *)
(* has had the first ones, those posted to the strand follow in the order   *)
(* they were accepted, and the one that completed last comes behind them,   *)
(* whatever threads run the handlers and whatever errors are in between.    *)
InAcceptOrder ==
  LET waiting == SubSeq(accepted, Len(handed) + 1, Len(accepted))
  IN accepted = handed \o waiting /\ ConnectionsOf(Append(strand, completed), waiting)

(* While the listener listens, an accept is outstanding or has completed    *)
(* and will start the next: no error ends the accepting, and there are      *)
(* never two, which would race for the acceptor; and none is started by a   *)
(* listener that failed.                                                   *)
OneAccept ==
  IF acceptor = "listening" THEN accepting <=> completed = none
  ELSE ~accepting /\ completed = none
=============================================================================
