----------------------------- MODULE SslSession -----------------------------
(***************************************************************************)
(* One TLS session: reactor::ssl::session::flesh.  Its queue, timer,       *)
(* contexts and handlers repeat those of the plain session, whose actions  *)
(* are used here as they stand; it differs in the handshake before the     *)
(* first read and in the way it ends.  Nothing closes the socket but       *)
(* force_cls and the destructor: end of stream, a response that ends the   *)
(* connection, the deadline and eof() all start an async_shutdown, which   *)
(* sends a close_notify and waits for the peer's.                          *)
(***************************************************************************)
EXTENDS Session

CONSTANT MaxShutdowns \* bound: outstanding async_shutdowns when user code asks for one

ASSUME MaxShutdownsAssumption == MaxShutdowns \in Nat

VARIABLES
  tls,       \* "none", "handshake" (in progress), "established" or "failed"
  eof_,      \* eof_: a shutdown was started
  shutdowns  \* async_shutdowns whose on_shutdown has not run

ssl_vars == <<tls, eof_, shutdowns>>
all_vars == <<vars, ssl_vars>>

SslTypeOK ==
  /\ TypeOK
  /\ tls \in {"none", "handshake", "established", "failed"}
  /\ eof_ \in BOOLEAN /\ shutdowns \in Nat

SslInit == Init /\ tls = "none" /\ eof_ = FALSE /\ shutdowns = 0

-----------------------------------------------------------------------------

(* ssl_stream::is_open only says that the stream was not moved from: it     *)
(* stays true when the socket is closed.                                    *)
ssl_is_open == TRUE

(* After the close_notify nothing can be sent; the receiving half stays.    *)
(* Outside an established connection the TLS library may refuse to send it. *)
close_notify ==
  /\ \/ shut' = shut \cup {"send"}
     \/ tls # "established" /\ UNCHANGED shut
  /\ UNCHANGED sock

(* do_eof: neither the socket nor eof_ is looked at. *)
ssl_do_eof ==
  /\ eof_' = TRUE /\ shutdowns' = shutdowns + 1 /\ close_notify
  /\ UNCHANGED tls

\* Mutants of ssl_do_timeout: eof_ is not looked at; it is looked at the wrong
\* way round.
ssl_do_timeout_again == ssl_do_eof
ssl_do_timeout_late == IF eof_ THEN ssl_do_eof ELSE UNCHANGED <<sock_vars, ssl_vars>>

ssl_do_timeout == IF eof_ THEN UNCHANGED <<sock_vars, ssl_vars>> ELSE ssl_do_eof

-----------------------------------------------------------------------------
(* The only static function that makes a session starts the handshake.  Its *)
(* forms with a duration or time point bind it to the member function       *)
(* without one, which does not compile: the timer is not set here.          *)
session_handshake ==
  /\ born("handshake") /\ UNCHANGED timer_vars
  /\ tls' = "handshake" /\ UNCHANGED <<eof_, shutdowns>>
  /\ UNCHANGED <<reads, write_vars, sent>>

(* on_handshake: the callback is given a context; user code reads from there. *)
on_handshake_success ==
  /\ phase = "live" /\ strand = "idle" /\ tls = "handshake"
  /\ tls' = "established" /\ UNCHANGED <<eof_, shutdowns>>
  /\ strand' = "handshake" /\ credit' = MaxSend
  /\ UNCHANGED <<phase, sock_vars, reads, write_vars, timer_vars, kept, served, sent,
                 hist_vars>>

on_handshake_return ==
  /\ phase = "live" /\ strand = "handshake"
  /\ strand' = "idle" /\ credit' = 0
  /\ UNCHANGED <<phase, sock_vars, reads, write_vars, timer_vars, kept, served, sent,
                 hist_vars, ssl_vars>>

(* An error is only reported. *)
on_handshake_error ==
  /\ phase = "live" /\ strand = "idle" /\ tls = "handshake"
  /\ tls' = "failed" /\ UNCHANGED <<eof_, shutdowns>>
  /\ UNCHANGED vars

\* Mutant of on_shutdown: the shutdown is started again.
on_shutdown_retries ==
  phase = "live" /\ strand = "idle" /\ shutdowns > 0 /\ UNCHANGED all_vars

(* on_shutdown: whatever the result, nothing is closed. *)
on_shutdown ==
  /\ phase = "live" /\ strand = "idle" /\ shutdowns > 0
  /\ shutdowns' = shutdowns - 1 /\ UNCHANGED <<tls, eof_>>
  /\ UNCHANGED vars

-----------------------------------------------------------------------------
(* Calls on a context.                                                     *)

ssl_recv(p, c, timed) == context_recv(p, c, timed) /\ UNCHANGED ssl_vars
ssl_send(p, c, timed, close) == context_send(p, c, timed, close) /\ UNCHANGED ssl_vars
ssl_push(p, c, delivered) == context_push(p, c, delivered) /\ UNCHANGED ssl_vars
ssl_wait(p, c) == context_wait(p, c) /\ UNCHANGED ssl_vars
ssl_hold(p, c) == context_hold(p, c) /\ UNCHANGED ssl_vars
ssl_timer_cancel(p, c) == context_timer_cancel(p, c) /\ UNCHANGED ssl_vars

ssl_eof(p, c, timed) ==
  /\ call_from(p, c, "eof") /\ shutdowns < MaxShutdowns
  /\ optional_timer(timed) /\ ssl_do_eof
  /\ UNCHANGED <<phase, reads, write_vars, strand, credit, served, sent, hist_vars>>

force_eof(p, c) ==
  /\ call_from(p, c, "force_eof") /\ do_eof({"send"})
  /\ unchanged_by_close /\ UNCHANGED ssl_vars

force_cls(p, c) ==
  /\ call_from(p, c, "force_cls") /\ do_cls
  /\ unchanged_by_close /\ UNCHANGED ssl_vars

ssl_keep(p) == context_keep(p) /\ UNCHANGED ssl_vars
ssl_drop(c) == context_drop(c) /\ UNCHANGED ssl_vars

-----------------------------------------------------------------------------
(* Completion handlers.                                                    *)

ssl_on_read_request == on_read_request /\ UNCHANGED ssl_vars

\* Mutant of ssl_resume: it reads on although the queue is full.
ssl_resume_though_full == resume_if(ssl_is_open) /\ UNCHANGED ssl_vars

ssl_resume == resume_if(~is_full /\ ssl_is_open) /\ UNCHANGED ssl_vars

ssl_on_read_end_of_stream == stream_ended /\ ssl_do_eof

ssl_on_read_error == on_read_error /\ UNCHANGED ssl_vars

ssl_on_write_error(w) == on_write_error(w) /\ UNCHANGED ssl_vars

\* Mutant of ssl_on_write_close: no return, the queue advances.
ssl_on_write_close_advances(w) ==
  /\ completes_write(w) /\ w.live /\ w.resp.close
  /\ wire' = Append(wire, w.resp) /\ queue' = Tail(queue) /\ start_next(w)
  /\ ssl_do_eof /\ ended' = ended \cup {"write"}
  /\ UNCHANGED <<phase, reads, timer_vars, user_vars, served, sent, late>>

ssl_on_write_close(w) == last_written(w) /\ ssl_do_eof

\* Mutant of ssl_on_write_next: reading never resumes.
ssl_on_write_next_stalls(w) ==
  advance_queue(w, FALSE) /\ start_next(w) /\ UNCHANGED ssl_vars

ssl_on_write_next(w) == on_write_next(w) /\ UNCHANGED ssl_vars

(* on_timer: is_alive is ssl_is_open. *)
ssl_on_timer_callback == ssl_is_open /\ fire_callback /\ UNCHANGED ssl_vars

ssl_on_timer_timeout ==
  /\ expiry = "past" /\ ssl_is_open /\ ~HasOnTimer /\ completes_wait
  /\ ssl_do_timeout
  /\ UNCHANGED <<phase, reads, write_vars, user_vars, served, sent, hist_vars>>

ssl_on_timer_ignored ==
  /\ expiry # "past" \/ ~ssl_is_open
  /\ completes_wait
  /\ UNCHANGED <<phase, sock_vars, reads, write_vars, user_vars, served, sent,
                 hist_vars, ssl_vars>>

ssl_on_timer_return == on_timer_return /\ UNCHANGED ssl_vars

-----------------------------------------------------------------------------

ssl_elapse == elapse /\ UNCHANGED ssl_vars

(* The bound handlers of a handshake and of a shutdown own the flesh too. *)
ssl_destroy == tls # "handshake" /\ shutdowns = 0 /\ destroy /\ UNCHANGED ssl_vars

ssl_finished == finished /\ UNCHANGED ssl_vars

-----------------------------------------------------------------------------

ssl_context_call ==
  \E p \in Places, c \in kept \cup {served} :
    \/ \E timed \in BOOLEAN : ssl_recv(p, c, timed) \/ ssl_eof(p, c, timed)
    \/ \E timed, close \in BOOLEAN : ssl_send(p, c, timed, close)
    \/ \E delivered \in BOOLEAN : ssl_push(p, c, delivered)
    \/ ssl_wait(p, c) \/ ssl_hold(p, c) \/ ssl_timer_cancel(p, c)
    \/ force_eof(p, c) \/ force_cls(p, c)

ssl_ownership ==
  \/ \E p \in Callbacks : ssl_keep(p)
  \/ \E c \in kept : ssl_drop(c)
  \/ ssl_destroy

on_handshake == on_handshake_success \/ on_handshake_return \/ on_handshake_error

ssl_on_read ==
  ssl_on_read_request \/ ssl_resume \/ ssl_on_read_end_of_stream \/ ssl_on_read_error

ssl_on_write ==
  \E w \in writes : ssl_on_write_error(w) \/ ssl_on_write_close(w) \/ ssl_on_write_next(w)

ssl_on_timer ==
  ssl_on_timer_callback \/ ssl_on_timer_timeout \/ ssl_on_timer_ignored
  \/ ssl_on_timer_return

SslNext ==
  \/ session_handshake
  \/ ssl_context_call \/ ssl_ownership
  \/ on_handshake \/ on_shutdown \/ ssl_on_read \/ ssl_on_write \/ ssl_on_timer
  \/ ssl_elapse \/ ssl_finished

SslSpec == SslInit /\ [][SslNext]_all_vars

(* As for the plain session.  A handshake, a read and a shutdown may all    *)
(* wait for the peer for ever; they end once the socket is closed.          *)
SslFairness ==
  /\ WF_all_vars(ssl_resume) /\ WF_all_vars(ssl_on_timer_return)
  /\ WF_all_vars(on_handshake_return)
  /\ WF_all_vars(sock = "closed" /\ on_handshake_error)
  /\ WF_all_vars(sock = "closed" /\ (ssl_on_read_error \/ ssl_on_read_end_of_stream))
  /\ WF_all_vars(sock = "closed" /\ on_shutdown)
  /\ SF_all_vars(ssl_on_write)
  /\ WF_all_vars(ssl_on_timer_callback \/ ssl_on_timer_timeout \/ ssl_on_timer_ignored)
  /\ WF_all_vars(ssl_elapse) /\ WF_all_vars(ssl_destroy)
  /\ WF_all_vars(\E c \in kept : ssl_drop(c))

SslFairSpec == SslSpec /\ SslFairness

-----------------------------------------------------------------------------
(* Properties.                                                             *)

(* The usage of examples/reactor_ssl and examples/reactor_flex: on_handshake *)
(* starts the only read user code starts, and each request is answered at  *)
(* most once, inside its route handler.                                    *)
OneAnswerAfterHandshake ==
  /\ Entries = {"handshake"} /\ MaxSend <= 1 /\ MaxReads <= 1
  /\ \A p \in Places \ {"handshake"} : "recv" \notin Calls[p]
  /\ \A p \in Places \ {"request"} : "send" \notin Calls[p]

(* No two async_reads share parser_, and the queue stays within its limit,  *)
(* although reading resumes after a close as well.                         *)
SslReaderBounded ==
  OneAnswerAfterHandshake => reads <= 1 /\ Len(queue) <= Limit

(* From the first request on, a session neither of whose directions failed  *)
(* reads, or has a full queue and the write that will resume reading.      *)
SslNeverStalled ==
  OneAnswerAfterHandshake /\ phase = "live" /\ strand = "idle" /\ ended = {} /\ served > 0
    => (reads = 1 <=> ~(is_full /\ writes # {}))

(* do_eof does not ask whether a shutdown is under way.  At most three are: *)
(* the deadline starts one only if it is the first, and the reader and the *)
(* writer each end once.                                                   *)
ShutdownsBounded ==
  OneAnswerAfterHandshake /\ "eof" \notin Called => shutdowns <= 3

(* A deadline that passes starts a shutdown, unless it is moved first.     *)
DeadlineShutsDown ==
  ~HasOnTimer /\ "timer_cancel" \notin Called =>
    (phase = "live" /\ expiry = "past" ~> eof_ \/ expiry # "past")

(* README: "Timer manage (default action: Closing connection)".            *)
DeadlineClosesSsl ==
  ~HasOnTimer /\ "timer_cancel" \notin Called =>
    (phase = "live" /\ expiry = "past" ~> sock = "closed" \/ expiry # "past")

(* force_cls ends the session, and nothing is left behind: operations in    *)
(* progress fail, and what they start fails too.  A call that sets the      *)
(* timer must not come from on_timer, which also runs on a closed socket.   *)
ForcedCloseReleases ==
  /\ "hold" \notin Called
  /\ Calls["timer"] \cap {"recv", "send", "wait", "eof"} = {} =>
    (sock = "closed" ~> phase = "released")
=============================================================================
