------------------------------ MODULE Session ------------------------------
(***************************************************************************)
(* One plain (non-TLS) HTTP session: reactor::session::flesh together with *)
(* the response queue, the timer and the socket it owns.                   *)
(*                                                                         *)
(* Every completion handler of a session is bound to the session's strand, *)
(* so handlers never overlap; what interleaves is the order in which the   *)
(* outstanding operations complete, the passage of time, calls made by     *)
(* user code through a context, and the peer.  A handler is one action,    *)
(* except that the user's callback (route handler or on_timer) occupies    *)
(* the strand from the action that calls it until it returns, and each     *)
(* call it makes on its context is an action of its own in between.        *)
(*                                                                         *)
(* Operators named in lower case carry the name of the member function     *)
(* they translate; those without a guard are the effect of a call made     *)
(* inside a handler.                                                       *)
(***************************************************************************)
EXTENDS Naturals, Sequences, FiniteSets

CONSTANTS
  Limit,        \* queue<Flesh>::limit (16 in the code)
  MaxSend,      \* responses one activation of a user callback may produce
  Entries,      \* the static session functions the program starts sessions with
  Calls,        \* Calls[p]: the context functions user code at place p calls
  HasOnTimer,   \* was the session given an on_timer callback?
  MaxRequests,  \* bound: requests the peer sends
  MaxResponses, \* bound: responses user code produces
  MaxWaits,     \* bound: outstanding async_waits
  MaxReads      \* bound: outstanding async_reads started by user code

(* The user callbacks that run on the strand; on_handshake, force_eof and   *)
(* force_cls are those of a TLS session (module SslSession).               *)
Callbacks == {"handshake", "request", "timer"}
Places == Callbacks \cup {"detached"}
ContextCalls == {"recv", "send", "push", "wait", "hold", "timer_cancel",
                 "eof", "cls", "force_eof", "force_cls", "keep"}

ASSUME LimitAssumption == Limit \in Nat \ {0}
ASSUME MaxSendAssumption == MaxSend \in Nat
ASSUME EntriesAssumption == Entries \subseteq {"make", "recv", "send", "wait", "hold", "handshake"}
ASSUME CallsAssumption == Calls \in [Places -> SUBSET ContextCalls]
ASSUME HasOnTimerAssumption == HasOnTimer \in BOOLEAN
ASSUME BoundsAssumption == {MaxRequests, MaxResponses, MaxWaits, MaxReads} \subseteq Nat

VARIABLES
  phase,     \* "unborn", "live", or "released": the flesh was destroyed
  sock,      \* "open" or "closed": connection_.stream().is_open()
  shut,      \* the halves of the socket that were shut down
  reads,     \* async_reads whose on_read has not run; all use the one parser_
  queue,     \* queue_.items_: the responses not yet reported written
  writes,    \* async_writes whose on_write has not run
  serializer,\* the response serializer_ holds (a sequence of at most one)
  armed,     \* waits on timer_ that its current expiry will complete
  stale,     \* waits cancelled by a later expiry, their on_timer still to run
  expiry,    \* "never", "future" or "past": timer_'s expiry against the clock
  strand,    \* "idle", or the user callback that occupies the strand
  credit,    \* responses the running callback may still produce
  kept,      \* requests whose context user code kept (0: the factory's result)
  served,    \* requests dispatched to the router
  sent,      \* history: the responses user code produced, in order
  wire,      \* history: the responses reported written, in order
  ended,     \* history: the directions whose operation chain was broken off
  late       \* history: requests dispatched although the socket was closed

timer_vars == <<armed, stale, expiry>>
sock_vars == <<sock, shut>>
write_vars == <<queue, writes, serializer>>
user_vars == <<strand, credit, kept>>
hist_vars == <<wire, ended, late>>
vars == <<phase, sock_vars, reads, write_vars, timer_vars, user_vars, served,
          sent, hist_vars>>

Halves == {"send", "receive"}

(* `close' is response.need_eof(), bound into on_write when the write starts. *)
Response == [no : Nat \ {0}, req : Nat, close : BOOLEAN]

(* live: the write started on a socket that could still send. *)
WriteOp == [resp : Response, live : BOOLEAN]

TypeOK ==
  /\ phase \in {"unborn", "live", "released"}
  /\ sock \in {"open", "closed"} /\ shut \in SUBSET Halves
  /\ reads \in Nat
  /\ queue \in Seq(Response) /\ writes \in SUBSET WriteOp
  /\ serializer \in Seq(Response)
  /\ armed \in 0 .. 1 /\ stale \in Nat /\ expiry \in {"never", "future", "past"}
  /\ strand \in {"idle"} \cup Callbacks
  /\ credit \in Nat /\ kept \in SUBSET Nat /\ served \in Nat
  /\ sent \in Seq(Response) /\ wire \in Seq(Response)
  /\ ended \in SUBSET {"read", "write"} /\ late \in Nat

Init ==
  /\ phase = "unborn" /\ sock = "open" /\ shut = {}
  /\ reads = 0 /\ queue = <<>> /\ writes = {} /\ serializer = <<>>
  /\ armed = 0 /\ stale = 0 /\ expiry = "never"
  /\ strand = "idle" /\ credit = 0 /\ kept = {}
  /\ served = 0 /\ sent = <<>> /\ wire = <<>> /\ ended = {} /\ late = 0

-----------------------------------------------------------------------------
(* The member functions handlers and contexts are made of.                 *)

is_open == sock = "open"
\* Mutant of is_full: off by one.
is_full_late == Len(queue) > Limit
is_full == Len(queue) >= Limit
Sendable == is_open /\ "send" \notin shut

(* parser_.emplace(), then async_read on it. *)
do_read == reads' = reads + 1

(* serializer_.emplace(response), then async_write on it. *)
do_write(r, outstanding) ==
  /\ serializer' = <<r>>
  /\ writes' = outstanding \cup {[resp |-> r, live |-> Sendable]}

\* Mutants of enqueue: the size() == 1 check is missing; the response is put
\* before the others.
enqueue_unchecked(r) == queue' = Append(queue, r) /\ do_write(r, writes)
enqueue_first(r) ==
  /\ queue' = <<r>> \o queue
  /\ IF queue = <<>> THEN do_write(r, writes) ELSE UNCHANGED <<writes, serializer>>

(* queue::operator(): never refuses; a write starts when it was empty. *)
enqueue(r) ==
  /\ queue' = Append(queue, r)
  /\ IF queue = <<>> THEN do_write(r, writes) ELSE UNCHANGED <<writes, serializer>>

\* Mutant of launch_timer: setting the expiry leaves the pending wait in place.
launch_timer_uncancelled(e) ==
  /\ armed + stale < MaxWaits
  /\ armed' = armed + 1 /\ UNCHANGED stale /\ expiry' = e

(* expires_after / expires_at cancel the waits in progress; async_wait follows. *)
launch_timer(e) ==
  /\ armed + stale < MaxWaits
  /\ armed' = 1 /\ stale' = stale + armed /\ expiry' = e

(* The overloads with a duration or time point set the timer first. *)
optional_timer(timed) ==
  IF timed THEN launch_timer("future") ELSE UNCHANGED timer_vars

do_eof(halves) ==
  /\ shut' = IF is_open THEN shut \cup halves ELSE shut
  /\ UNCHANGED sock

do_cls == sock' = "closed" /\ UNCHANGED shut

\* Mutant of do_timeout: the socket is half-closed, as by eof().
do_timeout_half == shut' = {"send"} /\ UNCHANGED sock

do_timeout == sock' = "closed" /\ shut' = Halves

-----------------------------------------------------------------------------
(* The static functions that make a session.  All return a context, which  *)
(* keeps the flesh alive until the caller drops it.                        *)

born(entry) ==
  /\ phase = "unborn" /\ entry \in Entries
  /\ phase' = "live" /\ kept' = {0}
  /\ UNCHANGED <<sock_vars, strand, credit, served, hist_vars>>

session_make ==
  /\ born("make")
  /\ UNCHANGED <<reads, write_vars, timer_vars, sent>>

session_recv ==
  /\ born("recv") /\ do_read
  /\ UNCHANGED <<write_vars, timer_vars, sent>>

session_recv_timed ==
  /\ born("recv") /\ launch_timer("future") /\ do_read
  /\ UNCHANGED <<write_vars, sent>>

first_response(close) == [no |-> Len(sent) + 1, req |-> 0, close |-> close]

session_send(close) ==
  /\ born("send") /\ enqueue(first_response(close))
  /\ sent' = Append(sent, first_response(close))
  /\ UNCHANGED <<reads, timer_vars>>

session_send_timed(close) ==
  /\ born("send") /\ launch_timer("future") /\ enqueue(first_response(close))
  /\ sent' = Append(sent, first_response(close))
  /\ UNCHANGED reads

session_wait ==
  /\ born("hold") /\ launch_timer("never")
  /\ UNCHANGED <<reads, write_vars, sent>>

session_wait_timed ==
  /\ born("wait") /\ launch_timer("future")
  /\ UNCHANGED <<reads, write_vars, sent>>

-----------------------------------------------------------------------------
(* Calls on a context.  On the strand they run at once; a detached call,   *)
(* from another thread, is dispatched and runs when the strand is idle.    *)

(* User code at p, acting for request c, calls `call' on its context. *)
call_from(p, c, call) ==
  /\ phase = "live" /\ call \in Calls[p]
  /\ IF p = "detached"
     THEN strand = "idle" /\ c \in kept
     ELSE strand = p /\ c = served
  /\ UNCHANGED kept

(* A running callback produces a bounded number of responses. *)
spend_credit(p) ==
  IF p = "detached" THEN UNCHANGED credit ELSE credit > 0 /\ credit' = credit - 1

context_recv(p, c, timed) ==
  /\ call_from(p, c, "recv") /\ reads < MaxReads
  /\ optional_timer(timed) /\ do_read
  /\ UNCHANGED <<phase, sock_vars, write_vars, strand, credit, served, sent, hist_vars>>

context_send(p, c, timed, close) ==
  LET r == [no |-> Len(sent) + 1, req |-> c, close |-> close] IN
  /\ call_from(p, c, "send") /\ spend_credit(p) /\ Len(sent) < MaxResponses
  /\ optional_timer(timed)
  /\ enqueue(r) /\ sent' = Append(sent, r)
  /\ UNCHANGED <<phase, sock_vars, reads, strand, served, hist_vars>>

(* do_push writes at once, past the queue, with serializer_, whoever uses it; *)
(* a failure only reaches on_error_.                                       *)
context_push(p, c, delivered) ==
  LET r == [no |-> Len(sent) + 1, req |-> c, close |-> FALSE] IN
  /\ call_from(p, c, "push") /\ spend_credit(p) /\ Len(sent) < MaxResponses
  /\ serializer' = <<r>>
  /\ delivered => Sendable
  /\ sent' = IF delivered THEN Append(sent, r) ELSE sent
  /\ wire' = IF delivered THEN Append(wire, r) ELSE wire
  /\ UNCHANGED <<phase, sock_vars, reads, queue, writes, timer_vars, strand,
                 served, ended, late>>

unchanged_by_timer_call ==
  UNCHANGED <<phase, sock_vars, reads, write_vars, strand, credit, served, sent, hist_vars>>

context_wait(p, c) ==
  call_from(p, c, "wait") /\ launch_timer("future") /\ unchanged_by_timer_call

(* wait() without an argument: expires_at(max). *)
context_hold(p, c) ==
  call_from(p, c, "hold") /\ launch_timer("never") /\ unchanged_by_timer_call

(* The waits are cancelled; the expiry stays what it was. *)
context_timer_cancel(p, c) ==
  /\ call_from(p, c, "timer_cancel")
  /\ armed' = 0 /\ stale' = stale + armed /\ UNCHANGED expiry
  /\ unchanged_by_timer_call

unchanged_by_close ==
  UNCHANGED <<phase, reads, write_vars, timer_vars, strand, credit, served, sent, hist_vars>>

context_eof(p, c) == call_from(p, c, "eof") /\ do_eof({"send"}) /\ unchanged_by_close

context_cls(p, c) == call_from(p, c, "cls") /\ do_cls /\ unchanged_by_close

(* The callback stores a copy of its context for another thread to use. *)
context_keep(p) ==
  /\ phase = "live" /\ strand = p /\ "keep" \in Calls[p]
  /\ kept' = kept \cup {served}
  /\ UNCHANGED <<phase, sock_vars, reads, write_vars, timer_vars, strand, credit,
                 served, sent, hist_vars>>

context_drop(c) ==
  /\ phase = "live" /\ c \in kept /\ kept' = kept \ {c}
  /\ UNCHANGED <<phase, sock_vars, reads, write_vars, timer_vars, strand, credit,
                 served, sent, hist_vars>>

-----------------------------------------------------------------------------
(* Completion handlers: on_read.  The result is free: a request may be left *)
(* in buffer_ whatever became of the socket.                                *)

completes_read == phase = "live" /\ strand = "idle" /\ reads > 0

(* do_process_request up to the point where the route handler runs. *)
on_read_request ==
  /\ completes_read /\ served < MaxRequests
  /\ reads' = reads - 1 /\ served' = served + 1
  /\ strand' = "request" /\ credit' = MaxSend
  /\ late' = IF is_open THEN late ELSE late + 1
  /\ UNCHANGED <<phase, sock_vars, write_vars, timer_vars, kept, sent, wire, ended>>

resume_if(condition) ==
  /\ phase = "live" /\ strand = "request"
  /\ strand' = "idle" /\ credit' = 0
  /\ IF condition THEN do_read ELSE UNCHANGED reads
  /\ UNCHANGED <<phase, sock_vars, write_vars, timer_vars, kept, served, sent, hist_vars>>

\* Mutants of do_process_request_resume: one of its two conditions is missing.
resume_though_full == resume_if(is_open)
resume_though_closed == resume_if(~is_full)

(* The route handlers returned: read on unless the queue is full. *)
do_process_request_resume == resume_if(~is_full /\ is_open)

(* The stream ended; the caller ends the connection. *)
stream_ended ==
  /\ completes_read /\ reads' = reads - 1
  /\ ended' = ended \cup {"read"}
  /\ UNCHANGED <<phase, write_vars, timer_vars, user_vars, served, sent, wire, late>>

on_read_end_of_stream == stream_ended /\ do_eof(Halves)

(* Any other error is reported and the socket left as it is. *)
on_read_error ==
  /\ completes_read /\ reads' = reads - 1
  /\ ended' = ended \cup {"read"}
  /\ UNCHANGED <<phase, sock_vars, write_vars, timer_vars, user_vars, served, sent,
                 wire, late>>

-----------------------------------------------------------------------------
(* Completion handlers: on_write.                                          *)

completes_write(w) == phase = "live" /\ strand = "idle" /\ w \in writes

(* queue::on_write: the written response is erased and the next one starts. *)
start_next(w) ==
  IF Tail(queue) # <<>>
  THEN do_write(Head(Tail(queue)), writes \ {w})
  ELSE writes' = writes \ {w} /\ UNCHANGED serializer

(* An error leaves the response at the head of the queue. *)
on_write_error(w) ==
  /\ completes_write(w) /\ writes' = writes \ {w}
  /\ ended' = ended \cup {"write"}
  /\ UNCHANGED <<phase, sock_vars, reads, queue, serializer, timer_vars, user_vars,
                 served, sent, wire, late>>

(* A response that ends the connection was written; it stays in the queue. *)
last_written(w) ==
  /\ completes_write(w) /\ w.live /\ w.resp.close
  /\ writes' = writes \ {w} /\ wire' = Append(wire, w.resp)
  /\ ended' = ended \cup {"write"}
  /\ UNCHANGED <<phase, reads, queue, serializer, timer_vars, user_vars, served,
                 sent, late>>

(* Both halves are shut down. *)
on_write_close(w) == last_written(w) /\ do_eof(Halves)

advance_queue(w, resume) ==
  /\ completes_write(w) /\ w.live /\ ~w.resp.close
  /\ wire' = Append(wire, w.resp) /\ queue' = Tail(queue)
  /\ IF resume THEN do_read ELSE UNCHANGED reads
  /\ UNCHANGED <<phase, sock_vars, timer_vars, user_vars, served, sent, ended, late>>

\* Mutants of on_write_next: fullness is tested after the erase; the next
\* response is not started.
on_write_next_late_test(w) == advance_queue(w, Len(Tail(queue)) >= Limit) /\ start_next(w)
on_write_next_idle(w) ==
  advance_queue(w, is_full) /\ writes' = writes \ {w} /\ UNCHANGED serializer

(* Whether the queue was full is read before the erase; reading resumes then. *)
on_write_next(w) == advance_queue(w, is_full) /\ start_next(w)

-----------------------------------------------------------------------------
(* Completion handlers: on_timer.  Only the clock is consulted, not         *)
(* whether this very wait was cancelled.                                    *)

completes_wait ==
  /\ phase = "live" /\ strand = "idle"
  /\ \/ armed > 0 /\ expiry = "past" /\ armed' = armed - 1 /\ UNCHANGED stale
     \/ stale > 0 /\ stale' = stale - 1 /\ UNCHANGED armed
  /\ UNCHANGED expiry

fire_callback ==
  /\ expiry = "past" /\ HasOnTimer /\ completes_wait
  /\ strand' = "timer" /\ credit' = MaxSend
  /\ UNCHANGED <<phase, sock_vars, reads, write_vars, kept, served, sent, hist_vars>>

\* Mutant of on_timer_callback: is_alive is not looked at.
on_timer_callback_closed == fire_callback

on_timer_callback == is_open /\ fire_callback

on_timer_timeout ==
  /\ expiry = "past" /\ is_open /\ ~HasOnTimer /\ completes_wait
  /\ do_timeout
  /\ UNCHANGED <<phase, reads, write_vars, user_vars, served, sent, hist_vars>>

on_timer_ignored ==
  /\ expiry # "past" \/ ~is_open
  /\ completes_wait
  /\ UNCHANGED <<phase, sock_vars, reads, write_vars, user_vars, served, sent, hist_vars>>

on_timer_return ==
  /\ phase = "live" /\ strand = "timer"
  /\ strand' = "idle" /\ credit' = 0
  /\ UNCHANGED <<phase, sock_vars, reads, write_vars, timer_vars, kept, served, sent,
                 hist_vars>>

-----------------------------------------------------------------------------

(* The clock reaches timer_'s expiry. *)
elapse ==
  /\ phase = "live" /\ expiry = "future" /\ expiry' = "past"
  /\ UNCHANGED <<phase, sock_vars, reads, write_vars, armed, stale, user_vars, served,
                 sent, hist_vars>>

(* Nothing holds a shared_ptr to the flesh: its destructor closes the socket. *)
unowned ==
  /\ strand = "idle" /\ reads = 0 /\ writes = {} /\ armed = 0 /\ stale = 0
  /\ kept = {}

destroy ==
  /\ phase = "live" /\ unowned
  /\ phase' = "released" /\ sock' = "closed"
  /\ UNCHANGED <<shut, reads, write_vars, timer_vars, user_vars, served, sent, hist_vars>>

finished == phase = "released" /\ UNCHANGED vars

-----------------------------------------------------------------------------

launch ==
  \/ session_make
  \/ session_recv \/ session_recv_timed
  \/ \E close \in BOOLEAN : session_send(close) \/ session_send_timed(close)
  \/ session_wait \/ session_wait_timed

context_call ==
  \E p \in Places, c \in kept \cup {served} :
    \/ \E timed \in BOOLEAN : context_recv(p, c, timed)
    \/ \E timed, close \in BOOLEAN : context_send(p, c, timed, close)
    \/ \E delivered \in BOOLEAN : context_push(p, c, delivered)
    \/ context_wait(p, c)
    \/ context_hold(p, c)
    \/ context_timer_cancel(p, c)
    \/ context_eof(p, c)
    \/ context_cls(p, c)

ownership ==
  \/ \E p \in Callbacks : context_keep(p)
  \/ \E c \in kept : context_drop(c)
  \/ destroy

on_read ==
  on_read_request \/ do_process_request_resume \/ on_read_end_of_stream \/ on_read_error

on_write ==
  \E w \in writes : on_write_error(w) \/ on_write_close(w) \/ on_write_next(w)

on_timer ==
  on_timer_callback \/ on_timer_timeout \/ on_timer_ignored \/ on_timer_return

Next ==
  launch \/ context_call \/ ownership \/ on_read \/ on_write \/ on_timer \/ elapse
  \/ finished

Spec == Init /\ [][Next]_vars

(* The io_context runs the handlers that are due, user callbacks return and *)
(* contexts are dropped in the end, and an async_write ends one way or the  *)
(* other.  A read on a usable socket may wait for the peer for ever; it     *)
(* completes once the socket is closed or can no longer receive.            *)
read_is_over == ~is_open \/ "receive" \in shut

Fairness ==
  /\ WF_vars(do_process_request_resume) /\ WF_vars(on_timer_return)
  /\ WF_vars(read_is_over /\ (on_read_error \/ on_read_end_of_stream))
  /\ SF_vars(on_write)
  /\ WF_vars(on_timer_callback \/ on_timer_timeout \/ on_timer_ignored)
  /\ WF_vars(elapse) /\ WF_vars(destroy)
  /\ WF_vars(\E c \in kept : context_drop(c))

FairSpec == Spec /\ Fairness

-----------------------------------------------------------------------------
(* Properties.                                                             *)

Called == UNION {Calls[p] : p \in Places}

(* The usage the examples show: the session is started by recv, each       *)
(* request is answered at most once, inside its route handler, and on_timer *)
(* neither reads nor answers.                                              *)
OneAnswerPerRequest ==
  /\ Entries = {"recv"} /\ MaxSend <= 1
  /\ "recv" \notin Called /\ \A p \in Places \ {"request"} : "send" \notin Calls[p]

(* push bypasses the queue: a session that pushes sends nothing through it. *)
PushesOrQueues ==
  "push" \in Called => "send" \notin Called /\ "send" \notin Entries

(* At most one async_write is outstanding, and it writes the response at    *)
(* the head of the queue: the assert(not items_.empty()) of queue::on_write *)
(* holds and the erased response is the one that was written.               *)
OneWriter ==
  \A w \in writes : /\ queue # <<>> /\ w.resp = Head(queue)
                    /\ writes = {w}

(* serializer_ is not replaced while an async_write uses it.               *)
SerializerOwned ==
  PushesOrQueues => \A w \in writes : serializer = <<w.resp>>

(* At most one async_read is outstanding, so parser_ is not replaced under  *)
(* it although both do_process_request and on_write start reads.           *)
OneReader == OneAnswerPerRequest => reads <= 1

(* Reading stops in time: the queue never grows beyond its limit.           *)
QueueBounded == OneAnswerPerRequest => Len(queue) <= Limit

(* Back-pressure never loses the reader: between handlers, an open session  *)
(* neither of whose directions has failed is reading, or its queue is full  *)
(* and the write that will resume reading is outstanding; never both.       *)
NeverStalled ==
  OneAnswerPerRequest /\ phase = "live" /\ strand = "idle" /\ is_open /\ ended = {}
    => (reads = 1 <=> ~(is_full /\ writes # {}))

(* Closing the socket does not stop the session at once: a read in progress *)
(* may still yield a request, and an on_write that finds the queue full     *)
(* reads again without looking at the socket.  No more than these two       *)
(* requests reach the router after the close.                               *)
LateRequestsBounded == OneAnswerPerRequest => late <= 2

(* The responses that reach the peer answer the requests in their order     *)
(* (HTTP pipelining), when they are produced on the strand.                 *)
InRequestOrder ==
  PushesOrQueues /\ {"send", "push"} \cap Calls["detached"] = {} =>
    \A i, j \in 1 .. Len(wire) : i <= j => wire[i].req <= wire[j].req

Pipe == INSTANCE ResponsePipe WITH broken <- queue # <<>> /\ writes = {}

(* The session implements the abstract pipe of responses (where the usage   *)
(* is PushesOrQueues): in order, each once, none after the pipe broke.      *)
ImplementsPipe == Pipe!Spec

(* Every response is written in the end, or the write direction breaks.    *)
EveryResponseSettled ==
  \A n \in 1 .. MaxResponses :
    Len(sent) >= n ~> Len(wire) >= n \/ "write" \in ended

(* The default action of the timer: a deadline that passes closes the       *)
(* connection unless it is moved first (README: "default action: Closing   *)
(* connection").                                                           *)
DeadlineCloses ==
  ~HasOnTimer /\ "timer_cancel" \notin Called =>
    (phase = "live" /\ expiry = "past" ~> sock = "closed" \/ expiry # "past")

(* wait() without an argument is outstanding: nothing but another setting   *)
(* or a cancellation of the timer completes it.                             *)
Held == armed = 1 /\ expiry = "never"

(* A closed session is destroyed: no operation, timer or callback keeps it  *)
(* alive for ever, but a wait without a deadline that nobody cancels.       *)
ClosedIsReleased == sock = "closed" ~> phase = "released" \/ Held
=============================================================================
