----------------------------- MODULE SslProofs -----------------------------
(* Proofs about SslSession.  Where it repeats the plain session, they use   *)
(* the lemmas about the plain session's actions.                            *)
EXTENDS SslSession, SessionPipeProofs

ssl_types ==
  /\ tls \in {"none", "handshake", "established", "failed"}
  /\ eof_ \in BOOLEAN /\ shutdowns \in Nat

SslWriterInv == WriterInv /\ ssl_types

LEMMA SslWriterInvInit == SslInit => SslWriterInv
<1>1. SslInit => WriterInv
  BY WriterInvInit DEF SslInit
<1>2. SslInit => eof_ \in BOOLEAN
  BY Zenon DEF SslInit
<1>3. SslInit => tls = "none" /\ shutdowns \in Nat
  BY DEF SslInit
<1>4. QED
  BY <1>1, <1>2, <1>3 DEF SslWriterInv, ssl_types

LEMMA SslTypes ==
  ASSUME ssl_types, [SslNext]_all_vars
  PROVE  ssl_types'
<1> USE DEF ssl_types, ssl_vars
<1>1. ssl_do_eof => ssl_types'
  BY DEF ssl_do_eof
<1>2. ASSUME session_handshake
      PROVE  ssl_types'
  BY <1>2 DEF session_handshake
<1>3. CASE ssl_context_call
  BY <1>1, <1>3 DEF ssl_context_call, ssl_recv, ssl_send, ssl_push, ssl_wait, ssl_hold,
                    ssl_timer_cancel, ssl_eof, force_eof, force_cls
<1>4. CASE ssl_ownership \/ ssl_elapse \/ ssl_finished \/ UNCHANGED all_vars
  BY <1>4 DEF ssl_ownership, ssl_keep, ssl_drop, ssl_destroy, ssl_elapse, ssl_finished,
              all_vars
<1>5. CASE on_handshake \/ on_shutdown
  BY <1>5 DEF on_handshake, on_handshake_success, on_handshake_return,
              on_handshake_error, on_shutdown
<1>6. CASE ssl_on_read
  BY <1>1, <1>6 DEF ssl_on_read, ssl_on_read_request, ssl_resume,
                    ssl_on_read_end_of_stream, ssl_on_read_error
<1>7. CASE ssl_on_write
  BY <1>1, <1>7 DEF ssl_on_write, ssl_on_write_error, ssl_on_write_close, ssl_on_write_next
<1>8. CASE ssl_on_timer
  BY <1>1, <1>8 DEF ssl_on_timer, ssl_on_timer_callback, ssl_on_timer_timeout,
                    ssl_on_timer_ignored, ssl_on_timer_return, ssl_do_timeout
<1>9. QED
  BY <1>2, <1>3, <1>4, <1>5, <1>6, <1>7, <1>8 DEF SslNext

(* A step that writes nothing and produces nothing keeps WriterInv when     *)
(* what else it changes keeps its type.                                     *)
LEMMA WriterInvAside ==
  ASSUME WriterInv, UNCHANGED <<write_vars, sent, wire>>,
         phase' \in {"unborn", "live", "released"},
         sock' \in {"open", "closed"}, shut' \in SUBSET Halves, reads' \in Nat,
         armed' \in 0 .. 1, stale' \in Nat, expiry' \in {"never", "future", "past"},
         strand' \in {"idle"} \cup Callbacks, credit' \in Nat, kept' \in SUBSET Nat,
         served' \in Nat, ended' \in SUBSET {"read", "write"}, late' \in Nat
  PROVE  WriterInv'
BY DEF WriterInv, TypeOK, OneWriter, write_vars

(* The effect of starting a shutdown on the socket. *)
LEMMA ShutdownStarts ==
  ASSUME TypeOK, ssl_do_eof
  PROVE  sock' = sock /\ shut' \in SUBSET Halves
BY DEF ssl_do_eof, close_notify, TypeOK, Halves

LEMMA SslWriterInvCall ==
  ASSUME WriterInv, ssl_context_call
  PROVE  WriterInv'
<1>0. TypeOK
  BY DEF WriterInv
<1>1. PICK p \in Places, c \in kept \cup {served} :
        \/ \E timed \in BOOLEAN : ssl_recv(p, c, timed) \/ ssl_eof(p, c, timed)
        \/ \E timed, close \in BOOLEAN : ssl_send(p, c, timed, close)
        \/ \E delivered \in BOOLEAN : ssl_push(p, c, delivered)
        \/ ssl_wait(p, c) \/ ssl_hold(p, c) \/ ssl_timer_cancel(p, c)
        \/ force_eof(p, c) \/ force_cls(p, c)
  BY DEF ssl_context_call
<1>2. CASE \E timed, close \in BOOLEAN : ssl_send(p, c, timed, close)
  BY <1>2, WriterInvSend DEF ssl_send
<1>3. CASE \E delivered \in BOOLEAN : ssl_push(p, c, delivered)
  BY <1>3, WriterInvPush DEF ssl_push
<1>4. CASE \/ \E timed \in BOOLEAN : ssl_recv(p, c, timed)
           \/ ssl_wait(p, c) \/ ssl_hold(p, c) \/ ssl_timer_cancel(p, c)
  BY <1>4, WriterInvCall DEF ssl_recv, ssl_wait, ssl_hold, ssl_timer_cancel
<1>5. ASSUME NEW timed \in BOOLEAN, ssl_eof(p, c, timed)
      PROVE  WriterInv'
  <2>1. sock' = sock /\ shut' \in SUBSET Halves
    BY <1>0, <1>5, ShutdownStarts DEF ssl_eof
  <2>2. armed' \in 0 .. 1 /\ stale' \in Nat /\ expiry' \in {"never", "future", "past"}
    BY <1>0, <1>5 DEF ssl_eof, optional_timer, launch_timer, timer_vars, TypeOK
  <2>3. /\ kept' = kept
        /\ UNCHANGED <<phase, reads, write_vars, strand, credit, served, sent, hist_vars>>
    BY <1>5 DEF ssl_eof, call_from
  <2>4. QED
    BY <1>0, <2>1, <2>2, <2>3, WriterInvAside DEF TypeOK, hist_vars
<1>6. CASE force_eof(p, c) \/ force_cls(p, c)
  <2>1. sock' \in {"open", "closed"} /\ shut' \in SUBSET Halves
    BY <1>0, <1>6 DEF force_eof, force_cls, do_eof, do_cls, TypeOK, Halves
  <2>2. /\ kept' = kept
        /\ UNCHANGED <<phase, reads, write_vars, timer_vars, strand, credit, served, sent,
                       hist_vars>>
    BY <1>6 DEF force_eof, force_cls, call_from, unchanged_by_close
  <2>3. QED
    BY <1>0, <2>1, <2>2, WriterInvAside DEF TypeOK, timer_vars, hist_vars
<1>7. QED
  BY <1>1, <1>2, <1>3, <1>4, <1>5, <1>6

LEMMA SslWriterInvOnWrite ==
  ASSUME WriterInv, ssl_on_write
  PROVE  WriterInv'
<1>0. TypeOK
  BY DEF WriterInv
<1>1. ASSUME NEW w \in writes, ssl_on_write_close(w)
      PROVE  WriterInv'
  <2>1. sock' = sock /\ shut' \in SUBSET Halves
    BY <1>0, <1>1, ShutdownStarts DEF ssl_on_write_close
  <2>2. w.resp \in Response /\ writes' = {}
    BY <1>0, <1>1 DEF WriterInv, OneWriter, TypeOK, WriteOp, ssl_on_write_close, last_written
  <2>3. wire' \in Seq(Response)
    BY <1>0, <1>1, <2>2, AppendProperties DEF TypeOK, ssl_on_write_close, last_written
  <2>4. /\ ended' = ended \cup {"write"}
        /\ UNCHANGED <<phase, reads, queue, serializer, timer_vars, user_vars, served, sent,
                       late>>
    BY <1>1 DEF ssl_on_write_close, last_written
  <2>5. QED
    BY <1>0, <2>1, <2>2, <2>3, <2>4 DEF WriterInv, OneWriter, TypeOK, timer_vars, user_vars
<1>2. ASSUME NEW w \in writes, ssl_on_write_error(w) \/ ssl_on_write_next(w)
      PROVE  WriterInv'
  BY <1>2, WriterInvOnWrite DEF ssl_on_write_error, ssl_on_write_next
<1>3. QED
  BY <1>1, <1>2 DEF ssl_on_write

LEMMA SslWriterInvOnRead ==
  ASSUME WriterInv, ssl_on_read
  PROVE  WriterInv'
<1>0. TypeOK
  BY DEF WriterInv
<1>1. CASE ssl_on_read_request \/ ssl_on_read_error
  BY <1>1, WriterInvOnRead DEF ssl_on_read_request, ssl_on_read_error, on_read
<1>2. CASE ssl_resume
  <2>1. /\ reads' \in Nat /\ strand' = "idle" /\ credit' = 0
        /\ UNCHANGED <<phase, sock_vars, write_vars, timer_vars, kept, served, sent,
                       hist_vars>>
    BY <1>0, <1>2 DEF ssl_resume, resume_if, do_read, TypeOK
  <2>2. QED
    BY <1>0, <2>1, WriterInvAside DEF TypeOK, sock_vars, timer_vars, hist_vars
<1>3. CASE ssl_on_read_end_of_stream
  <2>1. sock' = sock /\ shut' \in SUBSET Halves
    BY <1>0, <1>3, ShutdownStarts DEF ssl_on_read_end_of_stream
  <2>2. /\ reads' \in Nat /\ ended' = ended \cup {"read"}
        /\ UNCHANGED <<phase, write_vars, timer_vars, user_vars, served, sent, wire, late>>
    BY <1>0, <1>3 DEF ssl_on_read_end_of_stream, stream_ended, completes_read, TypeOK
  <2>3. QED
    BY <1>0, <2>1, <2>2, WriterInvAside DEF TypeOK, timer_vars, user_vars
<1>4. QED
  BY <1>1, <1>2, <1>3 DEF ssl_on_read

LEMMA SslWriterInvOnTimer ==
  ASSUME WriterInv, ssl_on_timer
  PROVE  WriterInv'
<1>0. TypeOK
  BY DEF WriterInv
<1>1. completes_wait =>
        armed' \in 0 .. 1 /\ stale' \in Nat /\ expiry' \in {"never", "future", "past"}
  BY <1>0 DEF completes_wait, TypeOK
<1>2. CASE ssl_on_timer_callback
  <2>1. /\ completes_wait /\ strand' = "timer" /\ credit' = MaxSend
        /\ UNCHANGED <<phase, sock_vars, reads, write_vars, kept, served, sent, hist_vars>>
    BY <1>2 DEF ssl_on_timer_callback, fire_callback
  <2>2. QED
    BY <1>0, <1>1, <2>1, WriterInvAside, MaxSendAssumption
       DEF TypeOK, sock_vars, hist_vars, Callbacks
<1>3. CASE ssl_on_timer_timeout \/ ssl_on_timer_ignored
  <2>1. sock' = sock /\ shut' \in SUBSET Halves
    BY <1>0, <1>3, ShutdownStarts
       DEF ssl_on_timer_timeout, ssl_on_timer_ignored, ssl_do_timeout, sock_vars, TypeOK
  <2>2. completes_wait /\ UNCHANGED <<phase, reads, write_vars, user_vars, served, sent,
                                      hist_vars>>
    BY <1>3 DEF ssl_on_timer_timeout, ssl_on_timer_ignored
  <2>3. QED
    BY <1>0, <1>1, <2>1, <2>2, WriterInvAside DEF TypeOK, user_vars, hist_vars
<1>4. CASE ssl_on_timer_return
  BY <1>4, WriterInvOnTimer DEF ssl_on_timer_return, on_timer
<1>5. QED
  BY <1>2, <1>3, <1>4 DEF ssl_on_timer

LEMMA SslWriterInvNext ==
  ASSUME SslWriterInv, [SslNext]_all_vars
  PROVE  SslWriterInv'
<1>0. WriterInv /\ TypeOK /\ ssl_types'
  BY SslTypes DEF SslWriterInv, WriterInv
<1> SUFFICES WriterInv'
  BY <1>0 DEF SslWriterInv
<1>1. ASSUME session_handshake
      PROVE  WriterInv'
  <2>1. /\ phase' = "live" /\ kept' = {0}
        /\ UNCHANGED <<sock_vars, strand, credit, served, hist_vars, reads, write_vars, sent>>
    BY <1>1 DEF session_handshake, born
  <2>2. armed' \in 0 .. 1 /\ stale' \in Nat /\ expiry' \in {"never", "future", "past"}
    BY <1>0, <1>1 DEF session_handshake, timer_vars, TypeOK
  <2>3. QED
    BY <1>0, <2>1, <2>2, WriterInvAside DEF TypeOK, sock_vars, hist_vars
<1>2. CASE ssl_ownership \/ ssl_elapse
  BY <1>0, <1>2, WriterInvOwnership
     DEF ssl_ownership, ssl_keep, ssl_drop, ssl_destroy, ssl_elapse, ownership
<1>3. CASE on_handshake_success \/ on_handshake_return
  <2>1. strand' \in {"idle", "handshake"} /\ credit' \in {0, MaxSend}
    BY <1>3 DEF on_handshake_success, on_handshake_return
  <2>2. UNCHANGED <<phase, sock_vars, reads, write_vars, timer_vars, kept, served, sent,
                    hist_vars>>
    BY <1>3 DEF on_handshake_success, on_handshake_return
  <2>3. QED
    BY <1>0, <2>1, <2>2, WriterInvAside, MaxSendAssumption
       DEF TypeOK, sock_vars, timer_vars, hist_vars, Callbacks
<1>4. CASE UNCHANGED vars
  BY <1>0, <1>4, WriterInvNext
<1>5. CASE on_handshake_error \/ on_shutdown \/ ssl_finished \/ UNCHANGED all_vars
  BY <1>4, <1>5 DEF on_handshake_error, on_shutdown, ssl_finished, finished, all_vars
<1>6. QED
  BY <1>0, <1>1, <1>2, <1>3, <1>5, SslWriterInvCall, SslWriterInvOnRead,
     SslWriterInvOnWrite, SslWriterInvOnTimer DEF SslNext, on_handshake

(* The variables of a TLS session keep their types.                        *)
THEOREM SslTypeCorrect == SslSpec => []SslTypeOK
<1>1. SslInit => SslWriterInv
  BY SslWriterInvInit
<1>2. SslWriterInv /\ [SslNext]_all_vars => SslWriterInv'
  BY SslWriterInvNext
<1>3. SslWriterInv => SslTypeOK
  BY DEF SslWriterInv, WriterInv, ssl_types, SslTypeOK
<1>4. QED
  BY <1>1, <1>2, <1>3, PTL DEF SslSpec

(* A TLS session too has one async_write outstanding, of the response at   *)
(* the head of its queue.                                                  *)
THEOREM SslOneWriterHolds == SslSpec => []OneWriter
<1>1. SslInit => SslWriterInv
  BY SslWriterInvInit
<1>2. SslWriterInv /\ [SslNext]_all_vars => SslWriterInv'
  BY SslWriterInvNext
<1>3. SslWriterInv => OneWriter
  BY DEF SslWriterInv, WriterInv
<1>4. QED
  BY <1>1, <1>2, <1>3, PTL DEF SslSpec

(***************************************************************************)
(* The responses.  The steps of a TLS session treat them as those of a     *)
(* plain one do; what a shutdown changes is not part of the pipe.          *)
(***************************************************************************)

LEMMA SslResponseSteps ==
  ASSUME WriterInv, PushesOrQueues, [SslNext]_all_vars
  PROVE  \/ pipe_unchanged
         \/ "push" \notin Called /\ \E r \in Response : produces(r)
         \/ \E p \in Places, c \in kept \cup {served}, delivered \in BOOLEAN :
              context_push(p, c, delivered)
         \/ \E w \in writes : on_write_error(w) \/ last_written(w) \/ on_write_next(w)
<1> USE DEF pipe_unchanged, write_vars, hist_vars
<1>0. TypeOK
  BY DEF WriterInv
<1>1. ASSUME NEW p \in Places, NEW c \in kept \cup {served}, NEW timed \in BOOLEAN,
             NEW close \in BOOLEAN, ssl_send(p, c, timed, close)
      PROVE  "push" \notin Called /\ \E r \in Response : produces(r)
  <2> DEFINE r == [no |-> Len(sent) + 1, req |-> c, close |-> close]
  <2>1. r \in Response
    BY <1>0, NextResponse DEF TypeOK
  <2>2. produces(r)
    BY <1>1 DEF ssl_send, context_send, produces
  <2>3. "push" \notin Called
    BY <1>1 DEF ssl_send, context_send, call_from, PushesOrQueues, Called
  <2>4. QED
    BY <2>1, <2>2, <2>3
<1>2. ASSUME NEW p \in Places, NEW c \in kept \cup {served},
             \/ \E timed \in BOOLEAN : ssl_recv(p, c, timed) \/ ssl_eof(p, c, timed)
             \/ ssl_wait(p, c) \/ ssl_hold(p, c) \/ ssl_timer_cancel(p, c)
             \/ force_eof(p, c) \/ force_cls(p, c)
      PROVE  pipe_unchanged
  BY <1>2 DEF ssl_recv, ssl_eof, ssl_wait, ssl_hold, ssl_timer_cancel, force_eof, force_cls,
              context_recv, context_wait, context_hold, context_timer_cancel,
              unchanged_by_timer_call, unchanged_by_close
<1>3. CASE ssl_context_call
  <2>1. PICK p \in Places, c \in kept \cup {served} :
          \/ \E timed \in BOOLEAN : ssl_recv(p, c, timed) \/ ssl_eof(p, c, timed)
          \/ \E timed, close \in BOOLEAN : ssl_send(p, c, timed, close)
          \/ \E delivered \in BOOLEAN : ssl_push(p, c, delivered)
          \/ ssl_wait(p, c) \/ ssl_hold(p, c) \/ ssl_timer_cancel(p, c)
          \/ force_eof(p, c) \/ force_cls(p, c)
    BY <1>3 DEF ssl_context_call
  <2>2. QED
    BY <1>1, <1>2, <2>1 DEF ssl_push
<1>4. CASE \/ session_handshake
           \/ ssl_ownership \/ ssl_elapse \/ ssl_finished \/ UNCHANGED all_vars
  BY <1>4 DEF session_handshake, born, ssl_ownership, ssl_keep, ssl_drop, ssl_destroy,
              context_keep, context_drop, destroy, ssl_elapse, elapse, ssl_finished,
              finished, all_vars, vars
<1>5. CASE on_handshake \/ on_shutdown
  BY <1>5 DEF on_handshake, on_handshake_success, on_handshake_return,
              on_handshake_error, on_shutdown, vars
<1>6. CASE ssl_on_read
  BY <1>6 DEF ssl_on_read, ssl_on_read_request, on_read_request, ssl_resume, resume_if,
              ssl_on_read_end_of_stream, stream_ended, ssl_on_read_error, on_read_error
<1>7. CASE ssl_on_timer
  BY <1>7 DEF ssl_on_timer, ssl_on_timer_callback, fire_callback, ssl_on_timer_timeout,
              ssl_on_timer_ignored, ssl_on_timer_return, on_timer_return
<1>8. CASE ssl_on_write
  BY <1>8 DEF ssl_on_write, ssl_on_write_error, ssl_on_write_close, ssl_on_write_next
<1>9. QED
  BY <1>3, <1>4, <1>5, <1>6, <1>7, <1>8 DEF SslNext

LEMMA SslPipeInvNext ==
  ASSUME WriterInv, PipeInv, [SslNext]_all_vars
  PROVE  PipeInv'
<1> SUFFICES ASSUME PushesOrQueues
             PROVE  PipeInv'
  BY DEF PipeInv, PushesOrQueues
<1>1. CASE pipe_unchanged
  BY <1>1 DEF pipe_unchanged, PipeInv, whole
<1>2. QED
  BY <1>1, SslResponseSteps, PipeInvProduce, PipeInvPush, PipeInvOnWrite

LEMMA SslPipeStep ==
  ASSUME WriterInv, PipeInv, PushesOrQueues, [SslNext]_all_vars
  PROVE  [Pipe!Next]_(Pipe!pipe)
<1>1. CASE pipe_unchanged
  BY <1>1 DEF pipe_unchanged, Pipe!pipe
<1>2. QED
  BY <1>1, SslResponseSteps, PipeProduce, PipePush, PipeOnWrite DEF Pipe!Next

(* A TLS session implements the same abstract pipe of responses.           *)
THEOREM SslImplementsPipe ==
  ASSUME PushesOrQueues
  PROVE  SslSpec => ImplementsPipe
<1>1. SslInit => SslWriterInv /\ PipeInv /\ Pipe!Init
  BY SslWriterInvInit, PipeInvInit DEF SslInit, Init, Pipe!Init
<1>2. SslWriterInv /\ PipeInv /\ [SslNext]_all_vars
        => (SslWriterInv /\ PipeInv)' /\ [Pipe!Next]_(Pipe!pipe)
  BY SslWriterInvNext, SslPipeInvNext, SslPipeStep DEF SslWriterInv
<1>3. QED
  BY <1>1, <1>2, PTL DEF SslSpec, ImplementsPipe, Pipe!Spec

(* A TLS session does not replace the serializer of a write in progress,   *)
(* as long as pushes and sends are not mixed.                              *)
THEOREM SslSerializerOwnedHolds == SslSpec => []SerializerOwned
<1>1. SslInit => SslWriterInv /\ PipeInv
  BY SslWriterInvInit, PipeInvInit DEF SslInit
<1>2. SslWriterInv /\ PipeInv /\ [SslNext]_all_vars => (SslWriterInv /\ PipeInv)'
  BY SslWriterInvNext, SslPipeInvNext DEF SslWriterInv
<1>3. PipeInv => SerializerOwned
  BY DEF PipeInv, SerializerOwned
<1>4. QED
  BY <1>1, <1>2, <1>3, PTL DEF SslSpec

(***************************************************************************)
(* The reader of a TLS session used as the examples use theirs.  Reading   *)
(* starts in on_handshake; from then on the argument is that of the plain  *)
(* session, with one difference: the reader that resumes does not look at  *)
(* the socket, so closing changes nothing of what follows.                 *)
(***************************************************************************)

not_reading_yet == tls \in {"none", "handshake"} \/ strand = "handshake"

ssl_reader ==
  /\ reader_bounded
  /\ phase = "unborn" => tls = "none"
  /\ tls \in {"none", "handshake"} => reads = 0 /\ strand # "handshake"
  /\ not_reading_yet => queue = <<>> /\ served = 0 /\ "read" \notin ended /\ strand # "request"
  /\ "read" \in ended => reads = 0 /\ Len(queue) < Limit /\ strand # "request"

(* The write direction ended where the queue was left without a write. *)
write_end == "write" \in ended <=> queue # <<>> /\ writes = {}

ssl_below_limit ==
  phase = "live" /\ strand # "request" /\ ended = {} /\ served > 0
    => (reads = 1 <=> ~is_full)

ssl_back_pressure == ssl_reader /\ write_end /\ ssl_below_limit

LEMMA BackPressureInit == SslInit => ssl_back_pressure
BY LimitAssumption
   DEF SslInit, Init, ssl_back_pressure, ssl_reader, reader_bounded, not_reading_yet,
       write_end, ssl_below_limit

LEMMA BackPressureQuiet ==
  ASSUME ssl_back_pressure,
         UNCHANGED <<reads, queue, writes, served, ended, strand, credit, tls>>,
         phase' \in {phase, "released"}
  PROVE  ssl_back_pressure'
BY DEF ssl_back_pressure, ssl_reader, reader_bounded, not_reading_yet, write_end,
       ssl_below_limit, is_full

LEMMA BackPressureSend ==
  ASSUME TypeOK, OneAnswerAfterHandshake, ssl_back_pressure,
         NEW p \in Places, NEW c \in kept \cup {served}, NEW timed \in BOOLEAN,
         NEW close \in BOOLEAN, ssl_send(p, c, timed, close)
  PROVE  ssl_back_pressure'
<1> DEFINE r == [no |-> Len(sent) + 1, req |-> c, close |-> close]
<1>1. p = "request" /\ strand = "request" /\ credit > 0 /\ credit' = credit - 1
  BY DEF ssl_send, context_send, call_from, spend_credit, OneAnswerAfterHandshake, Places,
         Callbacks
<1>2. UNCHANGED <<phase, reads, strand, served, ended, tls>> /\ phase = "live"
  BY DEF ssl_send, context_send, call_from, hist_vars, ssl_vars
<1>3. enqueue(r)
  BY DEF ssl_send, context_send
<1>4. r \in Response
  BY NextResponse DEF TypeOK
<1>5. queue' = Append(queue, r) /\ Len(queue') = Len(queue) + 1 /\ queue' # <<>>
  BY <1>3, <1>4, AppendProperties DEF enqueue, TypeOK
<1>6. ssl_reader'
  BY <1>1, <1>2, <1>5, LimitAssumption
     DEF ssl_back_pressure, ssl_reader, reader_bounded, not_reading_yet, TypeOK
<1>7. CASE queue = <<>>
  <2>1. writes' # {} /\ "write" \notin ended
    BY <1>3, <1>7 DEF enqueue, do_write, ssl_back_pressure, write_end
  <2>2. QED
    BY <1>1, <1>2, <1>6, <2>1 DEF ssl_back_pressure, write_end, ssl_below_limit
<1>8. CASE queue # <<>>
  BY <1>1, <1>2, <1>3, <1>5, <1>6, <1>8
     DEF enqueue, ssl_back_pressure, write_end, ssl_below_limit
<1>9. QED
  BY <1>7, <1>8

LEMMA BackPressureCall ==
  ASSUME TypeOK, OneAnswerAfterHandshake, ssl_back_pressure, ssl_context_call
  PROVE  ssl_back_pressure'
<1>1. PICK p \in Places, c \in kept \cup {served} :
        \/ \E timed \in BOOLEAN : ssl_recv(p, c, timed) \/ ssl_eof(p, c, timed)
        \/ \E timed, close \in BOOLEAN : ssl_send(p, c, timed, close)
        \/ \E delivered \in BOOLEAN : ssl_push(p, c, delivered)
        \/ ssl_wait(p, c) \/ ssl_hold(p, c) \/ ssl_timer_cancel(p, c)
        \/ force_eof(p, c) \/ force_cls(p, c)
  BY DEF ssl_context_call
<1>2. ASSUME NEW timed \in BOOLEAN, ssl_recv(p, c, timed)
      PROVE  ssl_back_pressure'
  <2>1. p = "handshake" /\ strand = "handshake" /\ phase = "live"
    BY <1>2 DEF ssl_recv, context_recv, call_from, OneAnswerAfterHandshake
  <2>2. reads = 0 /\ reads' = 1 /\ tls \notin {"none", "handshake"}
    <3>1. MaxReads \in Nat /\ MaxReads <= 1 /\ reads \in Nat /\ reads < MaxReads
      BY <1>2, BoundsAssumption DEF ssl_recv, context_recv, OneAnswerAfterHandshake, TypeOK
    <3>2. QED
      BY <1>2, <2>1, <3>1
         DEF ssl_recv, context_recv, do_read, ssl_back_pressure, ssl_reader
  <2>3. UNCHANGED <<phase, queue, writes, served, ended, strand, credit, tls>>
    BY <1>2 DEF ssl_recv, context_recv, write_vars, hist_vars, ssl_vars
  <2>4. QED
    BY <2>1, <2>2, <2>3, LimitAssumption
       DEF ssl_back_pressure, ssl_reader, reader_bounded, not_reading_yet, write_end,
           ssl_below_limit
<1>3. ASSUME NEW delivered \in BOOLEAN, ssl_push(p, c, delivered)
      PROVE  ssl_back_pressure'
  <2>1. UNCHANGED <<phase, reads, queue, writes, served, ended, strand, tls>>
    BY <1>3 DEF ssl_push, context_push, ssl_vars
  <2>2. credit' = credit \/ (credit > 0 /\ credit' = credit - 1)
    BY <1>3 DEF ssl_push, context_push, spend_credit
  <2>3. Len(queue) \in Nat /\ credit \in Nat /\ Limit \in Nat
    BY LimitAssumption DEF TypeOK
  <2>4. QED
    BY <2>1, <2>2, <2>3
       DEF ssl_back_pressure, ssl_reader, reader_bounded, not_reading_yet, write_end,
           ssl_below_limit, is_full
<1>4. ASSUME \/ \E timed \in BOOLEAN : ssl_eof(p, c, timed)
             \/ ssl_wait(p, c) \/ ssl_hold(p, c) \/ ssl_timer_cancel(p, c)
             \/ force_eof(p, c) \/ force_cls(p, c)
      PROVE  ssl_back_pressure'
  <2>1. /\ phase' = phase
        /\ UNCHANGED <<reads, queue, writes, served, ended, strand, credit, tls>>
    BY <1>4 DEF ssl_eof, ssl_do_eof, ssl_wait, ssl_hold, ssl_timer_cancel, force_eof,
                force_cls, context_wait, context_hold, context_timer_cancel,
                unchanged_by_timer_call, unchanged_by_close, write_vars, hist_vars, ssl_vars
  <2>2. QED
    BY <2>1, BackPressureQuiet
<1>5. QED
  BY <1>1, <1>2, <1>3, <1>4, BackPressureSend

LEMMA BackPressureOnRead ==
  ASSUME TypeOK, OneAnswerAfterHandshake, ssl_back_pressure, ssl_on_read
  PROVE  ssl_back_pressure'
<1> USE DEF ssl_back_pressure, ssl_reader, reader_bounded, not_reading_yet, write_end,
            ssl_below_limit, is_full, write_vars, user_vars, hist_vars, ssl_vars
<1>0. Len(queue) \in Nat /\ reads \in Nat /\ served \in Nat /\ Limit \in Nat
  BY LimitAssumption DEF TypeOK
<1>1. CASE ssl_on_read_request
  BY <1>0, <1>1, MaxSendAssumption
     DEF ssl_on_read_request, on_read_request, completes_read, OneAnswerAfterHandshake
<1>2. CASE ssl_resume
  BY <1>0, <1>2 DEF ssl_resume, resume_if, do_read, ssl_is_open
<1>3. CASE ssl_on_read_end_of_stream \/ ssl_on_read_error
  BY <1>0, <1>3
     DEF ssl_on_read_end_of_stream, stream_ended, ssl_do_eof, ssl_on_read_error,
         on_read_error, completes_read
<1>4. QED
  BY <1>1, <1>2, <1>3 DEF ssl_on_read

LEMMA BackPressureOnWrite ==
  ASSUME WriterInv, ssl_back_pressure, ssl_on_write
  PROVE  ssl_back_pressure'
<1> USE DEF ssl_back_pressure, ssl_reader, not_reading_yet, write_end, ssl_below_limit
<1>1. PICK w \in writes : on_write_error(w) \/ last_written(w) \/ on_write_next(w)
  BY DEF ssl_on_write, ssl_on_write_error, ssl_on_write_close, ssl_on_write_next
<1>2. reader_bounded'
  BY <1>1, ReaderBoundedOnWrite
<1>3. /\ queue \in Seq(Response) /\ queue # <<>> /\ Len(queue) \in Nat /\ writes = {w}
      /\ Limit \in Nat
  BY LimitAssumption DEF WriterInv, TypeOK, OneWriter
<1>4. tls' = tls
  BY DEF ssl_on_write, ssl_on_write_error, ssl_on_write_close, ssl_on_write_next,
         ssl_do_eof, ssl_vars
<1>5. CASE on_write_error(w) \/ last_written(w)
  BY <1>2, <1>3, <1>4, <1>5 DEF on_write_error, last_written, user_vars
<1>6. CASE on_write_next(w)
  <2>1. /\ queue' = Tail(queue) /\ start_next(w) /\ reads' = IF is_full THEN reads + 1 ELSE reads
        /\ UNCHANGED <<phase, strand, ended, served>> /\ strand = "idle" /\ phase = "live"
    BY <1>6 DEF on_write_next, advance_queue, do_read, completes_write, user_vars
  <2>2. Len(queue') = Len(queue) - 1
    BY <1>3, <2>1, HeadTailProperties
  <2>3. queue' # <<>> <=> writes' # {}
    BY <1>3, <2>1 DEF start_next, do_write
  <2>4. Len(queue) <= Limit /\ reads \in {0, 1} /\ (reads = 1 => Len(queue) < Limit)
    BY DEF reader_bounded, WriterInv, TypeOK
  <2>5. ssl_reader'
    BY <1>2, <1>3, <1>4, <2>1, <2>2, <2>4 DEF is_full
  <2>6. write_end'
    BY <1>3, <2>1, <2>3
  <2>7. ssl_below_limit'
    BY <1>3, <2>1, <2>2, <2>4 DEF is_full
  <2>8. QED
    BY <2>5, <2>6, <2>7
<1>7. QED
  BY <1>1, <1>5, <1>6

LEMMA BackPressureNext ==
  ASSUME WriterInv, OneAnswerAfterHandshake, ssl_back_pressure, [SslNext]_all_vars
  PROVE  ssl_back_pressure'
<1>0. TypeOK
  BY DEF WriterInv
<1>1. ASSUME session_handshake
      PROVE  ssl_back_pressure'
  <2>1. /\ phase = "unborn" /\ phase' = "live" /\ tls' = "handshake"
        /\ UNCHANGED <<reads, queue, writes, served, ended, strand, credit>>
    BY <1>1 DEF session_handshake, born, write_vars, hist_vars
  <2>2. QED
    BY <2>1, LimitAssumption
       DEF ssl_back_pressure, ssl_reader, reader_bounded, not_reading_yet, write_end,
           ssl_below_limit
<1>2. CASE on_handshake \/ on_shutdown
  BY <1>2, LimitAssumption
     DEF on_handshake, on_handshake_success, on_handshake_return, on_handshake_error,
         on_shutdown, ssl_back_pressure, ssl_reader, reader_bounded, not_reading_yet,
         write_end, ssl_below_limit, is_full, vars, write_vars, user_vars, hist_vars, ssl_vars
<1>3. CASE ssl_ownership \/ ssl_elapse \/ ssl_finished \/ UNCHANGED all_vars
  <2>1. /\ phase' \in {phase, "released"}
        /\ UNCHANGED <<reads, queue, writes, served, ended, strand, credit, tls>>
    BY <1>3 DEF ssl_ownership, ssl_keep, ssl_drop, ssl_destroy, context_keep, context_drop,
                destroy, ssl_elapse, elapse, ssl_finished, finished, all_vars, vars,
                write_vars, user_vars, hist_vars, ssl_vars
  <2>2. QED
    BY <2>1, BackPressureQuiet
<1>4. CASE ssl_on_timer
  BY <1>4 DEF ssl_on_timer, ssl_on_timer_callback, fire_callback, ssl_on_timer_timeout,
              ssl_on_timer_ignored, ssl_on_timer_return, on_timer_return, completes_wait,
              ssl_do_timeout, ssl_do_eof, ssl_back_pressure, ssl_reader, reader_bounded,
              not_reading_yet, write_end, ssl_below_limit, is_full, write_vars, user_vars,
              hist_vars, ssl_vars
<1>5. QED
  BY <1>0, <1>1, <1>2, <1>3, <1>4, BackPressureCall, BackPressureOnRead,
     BackPressureOnWrite DEF SslNext

(* A TLS session that reads from on_handshake on and answers each request  *)
(* once never has two async_reads on its parser, and its queue respects    *)
(* the limit.                                                              *)
THEOREM SslReaderBoundedHolds == SslSpec => []SslReaderBounded
<1>1. CASE OneAnswerAfterHandshake
  <2>1. SslInit => SslWriterInv /\ ssl_back_pressure
    BY SslWriterInvInit, BackPressureInit
  <2>2. SslWriterInv /\ ssl_back_pressure /\ [SslNext]_all_vars
          => (SslWriterInv /\ ssl_back_pressure)'
    BY <1>1, SslWriterInvNext, BackPressureNext DEF SslWriterInv
  <2>3. ssl_back_pressure => SslReaderBounded
    BY DEF ssl_back_pressure, ssl_reader, reader_bounded, SslReaderBounded
  <2>4. QED
    BY <2>1, <2>2, <2>3, PTL DEF SslSpec
<1>2. CASE ~OneAnswerAfterHandshake
  <2>1. SslReaderBounded
    BY <1>2 DEF SslReaderBounded
  <2>2. QED
    BY <2>1, PTL
<1>3. QED
  BY <1>1, <1>2

(* Back-pressure is released on a TLS session too, even after a close: it  *)
(* reads, or its queue is full with the write that resumes reading.        *)
THEOREM SslNeverStalledHolds == SslSpec => []SslNeverStalled
<1>1. CASE OneAnswerAfterHandshake
  <2>1. SslInit => SslWriterInv /\ ssl_back_pressure
    BY SslWriterInvInit, BackPressureInit
  <2>2. SslWriterInv /\ ssl_back_pressure /\ [SslNext]_all_vars
          => (SslWriterInv /\ ssl_back_pressure)'
    BY <1>1, SslWriterInvNext, BackPressureNext DEF SslWriterInv
  <2>3. SslWriterInv /\ ssl_back_pressure => SslNeverStalled
    <3>1. is_full /\ SslWriterInv => queue # <<>>
      BY LimitAssumption DEF is_full, SslWriterInv, WriterInv, TypeOK
    <3>2. QED
      BY <3>1 DEF ssl_back_pressure, ssl_below_limit, write_end, SslNeverStalled
  <2>4. QED
    BY <2>1, <2>2, <2>3, PTL DEF SslSpec
<1>2. CASE ~OneAnswerAfterHandshake
  <2>1. SslNeverStalled
    BY <1>2 DEF SslNeverStalled
  <2>2. QED
    BY <2>1, PTL
<1>3. QED
  BY <1>1, <1>2

(***************************************************************************)
(* The shutdowns.  Each place that starts one leaves a mark: the end of    *)
(* the read direction, the end of the write direction, and eof_, which the *)
(* deadline looks at.                                                      *)
(***************************************************************************)

one_if(b) == IF b THEN 1 ELSE 0

shutdowns_marked ==
  shutdowns <= one_if("read" \in ended) + one_if("write" \in ended) + one_if(eof_)

LEMMA ShutdownsNext ==
  ASSUME SslWriterInv, OneAnswerAfterHandshake, "eof" \notin Called, ssl_back_pressure,
         shutdowns_marked, [SslNext]_all_vars
  PROVE  shutdowns_marked'
<1> USE DEF shutdowns_marked, one_if
<1>0. shutdowns \in Nat /\ reads \in Nat
  BY DEF SslWriterInv, WriterInv, TypeOK, ssl_types
<1>1. ASSUME ssl_vars' = ssl_vars, ended \subseteq ended'
      PROVE  shutdowns_marked'
  BY <1>0, <1>1 DEF ssl_vars
<1>2. ASSUME session_handshake
      PROVE  shutdowns_marked'
  BY <1>2 DEF session_handshake, born, hist_vars
<1>3. CASE ssl_context_call
  <2>1. ASSUME NEW p \in Places, NEW c, NEW timed, ssl_eof(p, c, timed)
        PROVE  FALSE
    BY <2>1 DEF ssl_eof, call_from, Called
  <2>2. ssl_vars' = ssl_vars /\ ended' = ended
    BY ZenonT(20), <1>3, <2>1
       DEF ssl_context_call, ssl_recv, context_recv, ssl_send, context_send, ssl_push,
           context_push, ssl_wait, context_wait, ssl_hold, context_hold, ssl_timer_cancel,
           context_timer_cancel, force_eof, force_cls, unchanged_by_timer_call,
           unchanged_by_close, hist_vars
  <2>3. QED
    BY <1>1, <2>2
<1>4. CASE ssl_ownership \/ ssl_elapse \/ ssl_finished \/ UNCHANGED all_vars
  <2>1. ssl_vars' = ssl_vars /\ ended' = ended
    BY <1>4 DEF ssl_ownership, ssl_keep, ssl_drop, ssl_destroy, context_keep, context_drop,
                destroy, ssl_elapse, elapse, ssl_finished, finished, all_vars, vars, hist_vars
  <2>2. QED
    BY <1>1, <2>1
<1>5. CASE on_handshake
  BY <1>0, <1>5 DEF on_handshake, on_handshake_success, on_handshake_return,
                    on_handshake_error, vars, hist_vars, ssl_vars
<1>6. CASE on_shutdown
  BY <1>0, <1>6 DEF on_shutdown, vars, hist_vars
<1>7. CASE ssl_on_read
  <2>1. CASE ssl_on_read_end_of_stream
    <3>1. "read" \notin ended
      BY <1>0, <2>1 DEF ssl_on_read_end_of_stream, stream_ended, completes_read,
                        ssl_back_pressure, ssl_reader
    <3>2. eof_' = TRUE /\ shutdowns' = shutdowns + 1 /\ ended' = ended \cup {"read"}
      BY <2>1 DEF ssl_on_read_end_of_stream, stream_ended, ssl_do_eof
    <3>3. QED
      BY <1>0, <3>1, <3>2
  <2>2. CASE ssl_on_read_request \/ ssl_resume \/ ssl_on_read_error
    BY <1>1, <2>2 DEF ssl_on_read_request, on_read_request, ssl_resume, resume_if,
                      ssl_on_read_error, on_read_error, hist_vars
  <2>3. QED
    BY <1>7, <2>1, <2>2 DEF ssl_on_read
<1>8. CASE ssl_on_write
  <2>1. ASSUME NEW w \in writes, ssl_on_write_close(w)
        PROVE  shutdowns_marked'
    <3>1. "write" \notin ended
      BY <2>1 DEF ssl_back_pressure, write_end
    <3>2. eof_' = TRUE /\ shutdowns' = shutdowns + 1 /\ ended' = ended \cup {"write"}
      BY <2>1 DEF ssl_on_write_close, last_written, ssl_do_eof
    <3>3. QED
      BY <1>0, <3>1, <3>2
  <2>2. ASSUME NEW w \in writes, ssl_on_write_error(w) \/ ssl_on_write_next(w)
        PROVE  shutdowns_marked'
    BY <1>1, <2>2 DEF ssl_on_write_error, on_write_error, ssl_on_write_next, on_write_next,
                      advance_queue
  <2>3. QED
    BY <1>8, <2>1, <2>2 DEF ssl_on_write
<1>9. CASE ssl_on_timer
  <2>1. CASE ssl_on_timer_timeout /\ ~eof_
    <3>1. eof_' = TRUE /\ shutdowns' = shutdowns + 1 /\ ended' = ended
      BY <2>1 DEF ssl_on_timer_timeout, ssl_do_timeout, ssl_do_eof, hist_vars
    <3>2. QED
      BY <1>0, <2>1, <3>1
  <2>2. CASE ssl_on_timer_timeout /\ eof_
    BY <1>1, <2>2 DEF ssl_on_timer_timeout, ssl_do_timeout, hist_vars
  <2>3. CASE ssl_on_timer_callback \/ ssl_on_timer_ignored \/ ssl_on_timer_return
    BY <1>1, <2>3 DEF ssl_on_timer_callback, fire_callback, ssl_on_timer_ignored,
                      ssl_on_timer_return, on_timer_return, hist_vars
  <2>4. QED
    BY <1>9, <2>1, <2>2, <2>3 DEF ssl_on_timer
<1>10. QED
  BY <1>2, <1>3, <1>4, <1>5, <1>6, <1>7, <1>8, <1>9 DEF SslNext

(* Although do_eof does not look at eof_, no more than three shutdowns are *)
(* under way at once when user code starts none.                           *)
THEOREM ShutdownsBoundedHolds == SslSpec => []ShutdownsBounded
<1>1. CASE OneAnswerAfterHandshake /\ "eof" \notin Called
  <2>1. SslInit => SslWriterInv /\ ssl_back_pressure /\ shutdowns_marked
    BY SslWriterInvInit, BackPressureInit DEF SslInit, Init, shutdowns_marked, one_if
  <2>2. SslWriterInv /\ ssl_back_pressure /\ shutdowns_marked /\ [SslNext]_all_vars
          => (SslWriterInv /\ ssl_back_pressure /\ shutdowns_marked)'
    BY <1>1, SslWriterInvNext, BackPressureNext, ShutdownsNext DEF SslWriterInv
  <2>3. SslWriterInv /\ shutdowns_marked => ShutdownsBounded
    BY DEF SslWriterInv, ssl_types, shutdowns_marked, one_if, ShutdownsBounded
  <2>4. QED
    BY <2>1, <2>2, <2>3, PTL DEF SslSpec
<1>2. CASE ~(OneAnswerAfterHandshake /\ "eof" \notin Called)
  <2>1. ShutdownsBounded
    BY <1>2 DEF ShutdownsBounded
  <2>2. QED
    BY <2>1, PTL
<1>3. QED
  BY <1>1, <1>2

=============================================================================
