--------------------------- MODULE SessionProofs ---------------------------
(* Proofs about Session, for every limit, usage and bound: its types and    *)
(* its one writer, then its reader, back-pressure and its end.             *)
EXTENDS Session, SequenceTheorems, TLAPS

(***************************************************************************)
(* Type correctness and the single writer.  on_write erases the head of    *)
(* the queue, so the queue keeps its type only because a write that is     *)
(* outstanding finds its response there: the two are proved together.      *)
(***************************************************************************)

WriterInv == TypeOK /\ OneWriter

(* A response made from the next number is a response. *)
LEMMA NextResponse ==
  ASSUME TypeOK, NEW c \in Nat, NEW close \in BOOLEAN
  PROVE  [no |-> Len(sent) + 1, req |-> c, close |-> close] \in Response
BY DEF TypeOK, Response

(* A write that starts has the type of a write, whatever the socket's state. *)
LEMMA DoWriteType ==
  ASSUME TypeOK, NEW r \in Response, NEW others \in SUBSET WriteOp, do_write(r, others)
  PROVE  writes' \in SUBSET WriteOp /\ serializer' \in Seq(Response)
<1>1. Sendable \in BOOLEAN
  BY DEF Sendable, is_open
<1>2. [resp |-> r, live |-> Sendable] \in WriteOp
  BY <1>1 DEF WriteOp
<1>3. QED
  BY <1>2 DEF do_write

(* A write of the head of the queue, started alone, is the one writer. *)
LEMMA DoWriteAlone ==
  ASSUME NEW r, do_write(r, {}), queue' # <<>>, Head(queue') = r
  PROVE  OneWriter'
<1>1. writes' = {[resp |-> r, live |-> Sendable]}
  BY DEF do_write
<1>2. [resp |-> r, live |-> Sendable].resp = r
  OBVIOUS
<1>3. QED
  BY <1>1, <1>2 DEF OneWriter

(* queue::operator() starts a write exactly when none can be outstanding. *)
LEMMA EnqueueKeeps ==
  ASSUME WriterInv, NEW r \in Response, enqueue(r)
  PROVE  /\ queue' \in Seq(Response) /\ writes' \in SUBSET WriteOp
         /\ serializer' \in Seq(Response) /\ OneWriter'
<1> USE DEF WriterInv
<1>1. queue' \in Seq(Response) /\ queue' # <<>>
      /\ Head(queue') = IF queue = <<>> THEN r ELSE Head(queue)
  BY AppendProperties, HeadTailAppend DEF TypeOK, enqueue
<1>2. CASE queue = <<>>
  <2>1. writes = {}
    BY <1>2 DEF OneWriter
  <2>2. do_write(r, {}) /\ {} \in SUBSET WriteOp
    BY <1>2, <2>1 DEF enqueue
  <2>3. QED
    BY <1>1, <1>2, <2>2, DoWriteType, DoWriteAlone
<1>3. CASE queue # <<>>
  BY <1>1, <1>3 DEF TypeOK, OneWriter, enqueue
<1>4. QED
  BY <1>2, <1>3

(* queue::on_write, called for the write w that completed. *)
LEMMA StartNextKeeps ==
  ASSUME WriterInv, NEW w \in writes, start_next(w), queue' = Tail(queue)
  PROVE  /\ queue' \in Seq(Response) /\ writes' \in SUBSET WriteOp
         /\ serializer' \in Seq(Response) /\ OneWriter'
<1> USE DEF WriterInv
<1>1. queue # <<>> /\ writes \ {w} = {}
  BY DEF OneWriter
<1>2. Tail(queue) \in Seq(Response)
  BY <1>1, HeadTailProperties DEF TypeOK
<1>3. CASE Tail(queue) = <<>>
  BY <1>1, <1>2, <1>3 DEF TypeOK, OneWriter, start_next
<1>4. CASE Tail(queue) # <<>>
  <2>1. Head(Tail(queue)) \in Response
    BY <1>2, <1>4, HeadTailProperties
  <2>2. do_write(Head(Tail(queue)), {}) /\ {} \in SUBSET WriteOp
    BY <1>1, <1>4 DEF start_next
  <2>3. QED
    BY <1>2, <1>4, <2>1, <2>2, DoWriteType, DoWriteAlone
<1>5. QED
  BY <1>3, <1>4

LEMMA WriterInvInit == Init => WriterInv
BY DEF Init, WriterInv, TypeOK, OneWriter, Halves

(* The actions that hand a response to the queue. *)
LEMMA WriterInvSend ==
  ASSUME WriterInv,
         \/ \E close \in BOOLEAN : session_send(close) \/ session_send_timed(close)
         \/ \E p \in Places, c \in kept \cup {served}, timed, close \in BOOLEAN :
              context_send(p, c, timed, close)
  PROVE  WriterInv'
<1> USE DEF WriterInv
<1>1. ASSUME NEW close \in BOOLEAN, session_send(close) \/ session_send_timed(close)
      PROVE  WriterInv'
  <2>1. first_response(close) \in Response
    BY NextResponse DEF first_response
  <2>2. enqueue(first_response(close)) /\ sent' = Append(sent, first_response(close))
    BY <1>1 DEF session_send, session_send_timed
  <2>3. sent' \in Seq(Response)
    BY <2>1, <2>2, AppendProperties DEF TypeOK
  <2>4. /\ armed' \in 0 .. 1 /\ stale' \in Nat
        /\ expiry' \in {"never", "future", "past"}
    BY <1>1 DEF session_send, session_send_timed, launch_timer, timer_vars, TypeOK
  <2>5. /\ phase' = "live" /\ kept' = {0}
        /\ UNCHANGED <<sock_vars, strand, credit, served, hist_vars, reads>>
    BY <1>1 DEF session_send, session_send_timed, born
  <2>6. QED
    BY <2>1, <2>2, <2>3, <2>4, <2>5, EnqueueKeeps DEF TypeOK, sock_vars, hist_vars
<1>2. ASSUME NEW p \in Places, NEW c \in kept \cup {served}, NEW timed \in BOOLEAN,
             NEW close \in BOOLEAN, context_send(p, c, timed, close)
      PROVE  WriterInv'
  <2> DEFINE r == [no |-> Len(sent) + 1, req |-> c, close |-> close]
  <2>1. r \in Response
    BY NextResponse DEF TypeOK
  <2>2. enqueue(r) /\ sent' = Append(sent, r)
    BY <1>2 DEF context_send
  <2>3. sent' \in Seq(Response)
    BY <2>1, <2>2, AppendProperties DEF TypeOK
  <2>4. credit' \in Nat
    BY <1>2 DEF context_send, spend_credit, TypeOK
  <2>5. kept' \in SUBSET Nat
    BY <1>2 DEF context_send, call_from, TypeOK
  <2>6. /\ armed' \in 0 .. 1 /\ stale' \in Nat
        /\ expiry' \in {"never", "future", "past"}
    BY <1>2 DEF context_send, optional_timer, launch_timer, timer_vars, TypeOK
  <2>7. UNCHANGED <<phase, sock_vars, reads, strand, served, hist_vars>>
    BY <1>2 DEF context_send
  <2>8. QED
    BY <2>1, <2>2, <2>3, <2>4, <2>5, <2>6, <2>7, EnqueueKeeps
       DEF TypeOK, sock_vars, hist_vars
<1>3. QED
  BY <1>1, <1>2

(* The actions that report a write. *)
LEMMA WriterInvOnWrite ==
  ASSUME WriterInv, NEW w \in writes,
         on_write_error(w) \/ on_write_close(w) \/ on_write_next(w)
  PROVE  WriterInv'
<1> USE DEF WriterInv
<1>1. w.resp \in Response /\ writes = {w} /\ queue # <<>>
  BY DEF TypeOK, OneWriter, WriteOp
<1>2. Append(wire, w.resp) \in Seq(Response)
  BY <1>1, AppendProperties DEF TypeOK
<1>3. CASE on_write_error(w)
  BY <1>1, <1>3 DEF on_write_error, TypeOK, OneWriter, sock_vars, timer_vars, user_vars
<1>4. CASE on_write_close(w)
  BY <1>1, <1>2, <1>4
     DEF on_write_close, last_written, do_eof, Halves, TypeOK, OneWriter, timer_vars, user_vars
<1>5. CASE on_write_next(w)
  <2>1. start_next(w) /\ queue' = Tail(queue) /\ wire' = Append(wire, w.resp)
    BY <1>5 DEF on_write_next, advance_queue
  <2>2. reads' \in Nat
    BY <1>5 DEF on_write_next, advance_queue, do_read, TypeOK
  <2>3. UNCHANGED <<phase, sock_vars, timer_vars, user_vars, served, sent, ended, late>>
    BY <1>5 DEF on_write_next, advance_queue
  <2>4. QED
    BY <1>2, <2>1, <2>2, <2>3, StartNextKeeps
       DEF TypeOK, sock_vars, timer_vars, user_vars
<1>6. QED
  BY <1>3, <1>4, <1>5

(* push replaces serializer_ only; the queue and the writes stay. *)
LEMMA WriterInvPush ==
  ASSUME WriterInv, NEW p \in Places, NEW c \in kept \cup {served},
         NEW delivered \in BOOLEAN, context_push(p, c, delivered)
  PROVE  WriterInv'
<1> USE DEF WriterInv
<1> DEFINE r == [no |-> Len(sent) + 1, req |-> c, close |-> FALSE]
<1>1. r \in Response
  BY NextResponse DEF TypeOK
<1>2. sent' \in Seq(Response) /\ wire' \in Seq(Response)
  BY <1>1, AppendProperties DEF context_push, TypeOK
<1>3. serializer' = <<r>> /\ <<r>> \in Seq(Response)
  BY <1>1 DEF context_push
<1>4. credit' \in Nat
  BY DEF context_push, spend_credit, TypeOK
<1>5. kept' \in SUBSET Nat
  BY DEF context_push, call_from, TypeOK
<1>6. UNCHANGED <<phase, sock_vars, reads, queue, writes, timer_vars, strand, served,
                  ended, late>>
  BY DEF context_push
<1>7. QED
  BY <1>2, <1>3, <1>4, <1>5, <1>6 DEF TypeOK, OneWriter, sock_vars, timer_vars

(* The remaining actions leave the write side alone. *)
LEMMA WriterInvLaunch ==
  ASSUME WriterInv,
         \/ session_make \/ session_recv \/ session_recv_timed
         \/ session_wait \/ session_wait_timed
  PROVE  WriterInv'
<1> USE DEF WriterInv
<1>1. /\ phase' = "live" /\ kept' = {0}
      /\ UNCHANGED <<sock_vars, strand, credit, served, hist_vars, write_vars, sent>>
  BY DEF session_make, session_recv, session_recv_timed, session_wait,
         session_wait_timed, born
<1>2. reads' \in Nat
  BY DEF session_make, session_recv, session_recv_timed, session_wait,
         session_wait_timed, do_read, TypeOK
<1>3. /\ armed' \in 0 .. 1 /\ stale' \in Nat
      /\ expiry' \in {"never", "future", "past"}
  BY DEF session_make, session_recv, session_recv_timed, session_wait,
         session_wait_timed, launch_timer, timer_vars, TypeOK
<1>4. QED
  BY <1>1, <1>2, <1>3 DEF TypeOK, OneWriter, sock_vars, write_vars, hist_vars

LEMMA WriterInvCall ==
  ASSUME WriterInv, NEW p \in Places, NEW c \in kept \cup {served},
         \/ \E timed \in BOOLEAN : context_recv(p, c, timed)
         \/ context_wait(p, c) \/ context_hold(p, c) \/ context_timer_cancel(p, c)
         \/ context_eof(p, c) \/ context_cls(p, c)
  PROVE  WriterInv'
<1> USE DEF WriterInv
<1>1. kept' \in SUBSET Nat
  BY DEF context_recv, context_wait, context_hold, context_timer_cancel, context_eof,
         context_cls, call_from, TypeOK
<1>2. UNCHANGED <<phase, write_vars, strand, credit, served, sent, hist_vars>>
  BY DEF context_recv, context_wait, context_hold, context_timer_cancel, context_eof,
         context_cls, unchanged_by_timer_call, unchanged_by_close
<1>3. CASE \E timed \in BOOLEAN : context_recv(p, c, timed)
  BY <1>1, <1>2, <1>3
     DEF context_recv, optional_timer, launch_timer, do_read, TypeOK, OneWriter,
         sock_vars, write_vars, timer_vars, hist_vars
<1>4. CASE context_wait(p, c) \/ context_hold(p, c) \/ context_timer_cancel(p, c)
  <2>1. UNCHANGED <<sock_vars, reads>>
    BY <1>4 DEF context_wait, context_hold, context_timer_cancel, unchanged_by_timer_call
  <2>2. /\ armed' \in 0 .. 1 /\ stale' \in Nat
        /\ expiry' \in {"never", "future", "past"}
    BY <1>4 DEF context_wait, context_hold, context_timer_cancel, launch_timer, TypeOK
  <2>3. QED
    BY <1>1, <1>2, <2>1, <2>2 DEF TypeOK, OneWriter, sock_vars, write_vars, hist_vars
<1>5. CASE context_eof(p, c) \/ context_cls(p, c)
  BY <1>1, <1>2, <1>5
     DEF context_eof, context_cls, unchanged_by_close, do_eof, do_cls, Halves, TypeOK,
         OneWriter, write_vars, timer_vars, hist_vars
<1>6. QED
  BY <1>3, <1>4, <1>5

LEMMA WriterInvOwnership ==
  ASSUME WriterInv, ownership \/ elapse
  PROVE  WriterInv'
<1> USE DEF WriterInv, TypeOK, OneWriter, sock_vars, write_vars, user_vars, hist_vars
<1>1. CASE \E p \in Callbacks : context_keep(p)
  BY <1>1 DEF context_keep, timer_vars
<1>2. CASE \E c \in kept : context_drop(c)
  BY <1>2 DEF context_drop, timer_vars
<1>3. CASE destroy
  BY <1>3 DEF destroy, timer_vars
<1>4. CASE elapse
  BY <1>4 DEF elapse
<1>5. QED
  BY <1>1, <1>2, <1>3, <1>4 DEF ownership

LEMMA WriterInvOnRead ==
  ASSUME WriterInv, on_read
  PROVE  WriterInv'
<1> USE DEF WriterInv, TypeOK, OneWriter, sock_vars, write_vars, timer_vars, user_vars,
            hist_vars, completes_read, Callbacks
<1>1. CASE on_read_request
  BY <1>1, MaxSendAssumption DEF on_read_request, is_open
<1>2. CASE do_process_request_resume
  BY <1>2 DEF do_process_request_resume, resume_if, do_read
<1>3. CASE on_read_end_of_stream
  BY <1>3 DEF on_read_end_of_stream, stream_ended, do_eof, Halves
<1>4. CASE on_read_error
  BY <1>4 DEF on_read_error
<1>5. QED
  BY <1>1, <1>2, <1>3, <1>4 DEF on_read

LEMMA WriterInvOnTimer ==
  ASSUME WriterInv, on_timer
  PROVE  WriterInv'
<1> USE DEF WriterInv, TypeOK, OneWriter, sock_vars, write_vars, user_vars, hist_vars,
            completes_wait, Callbacks
<1>1. CASE on_timer_callback
  BY <1>1, MaxSendAssumption DEF on_timer_callback, fire_callback
<1>2. CASE on_timer_timeout
  BY <1>2 DEF on_timer_timeout, do_timeout, Halves
<1>3. CASE on_timer_ignored
  BY <1>3 DEF on_timer_ignored
<1>4. CASE on_timer_return
  BY <1>4 DEF on_timer_return, timer_vars
<1>5. QED
  BY <1>1, <1>2, <1>3, <1>4 DEF on_timer

LEMMA WriterInvNext ==
  ASSUME WriterInv, [Next]_vars
  PROVE  WriterInv'
<1>1. CASE launch
  BY <1>1, WriterInvLaunch, WriterInvSend DEF launch
<1>2. CASE context_call
  BY <1>2, WriterInvSend, WriterInvPush, WriterInvCall DEF context_call
<1>3. CASE on_write
  BY <1>3, WriterInvOnWrite DEF on_write
<1>4. CASE finished \/ UNCHANGED vars
  BY <1>4 DEF finished, vars, WriterInv, TypeOK, OneWriter, sock_vars, write_vars,
              timer_vars, user_vars, hist_vars
<1>5. QED
  BY <1>1, <1>2, <1>3, <1>4, WriterInvOwnership, WriterInvOnRead, WriterInvOnTimer
     DEF Next

(* The state variables have their types in every reachable state.          *)
THEOREM TypeCorrect == Spec => []TypeOK
<1>1. Init => WriterInv
  BY WriterInvInit
<1>2. WriterInv /\ [Next]_vars => WriterInv'
  BY WriterInvNext
<1>3. WriterInv => TypeOK
  BY DEF WriterInv
<1>4. QED
  BY <1>1, <1>2, <1>3, PTL DEF Spec

(* queue::on_write always finds the response that was written at the head  *)
(* of the queue, and no second async_write is ever started beside it.      *)
THEOREM OneWriterHolds == Spec => []OneWriter
<1>1. Init => WriterInv
  BY WriterInvInit
<1>2. WriterInv /\ [Next]_vars => WriterInv'
  BY WriterInvNext
<1>3. WriterInv => OneWriter
  BY DEF WriterInv
<1>4. QED
  BY <1>1, <1>2, <1>3, PTL DEF Spec
-----------------------------------------------------------------------------
(***************************************************************************)
(* The reader.  Two places start reads, and each tests only the queue: at  *)
(* most one read is outstanding because a read is outstanding only while   *)
(* the queue has room, so that an on_write which finds the queue full      *)
(* knows that nobody reads, and because the request being handled can add  *)
(* no more than the one response there was room for.                       *)
(***************************************************************************)

reader_bounded ==
  /\ reads <= 1
  /\ Len(queue) <= Limit
  /\ reads = 1 => Len(queue) < Limit
  /\ strand = "request" => reads = 0 /\ Len(queue) + credit <= Limit
  /\ phase = "unborn" => reads = 0 /\ queue = <<>> /\ strand = "idle"

ReaderInv == OneAnswerPerRequest => reader_bounded

LEMMA ReaderInvInit == Init => ReaderInv
BY LimitAssumption DEF Init, ReaderInv, reader_bounded

(* A session that answers only inside its route handlers. *)
LEMMA ReaderInvCall ==
  ASSUME TypeOK, ReaderInv, context_call
  PROVE  ReaderInv'
<1> USE DEF ReaderInv, reader_bounded
<1> SUFFICES ASSUME OneAnswerPerRequest
             PROVE  ReaderInv'
  BY DEF OneAnswerPerRequest
<1>1. PICK p \in Places, c \in kept \cup {served} :
         \/ \E timed \in BOOLEAN : context_recv(p, c, timed)
         \/ \E timed, close \in BOOLEAN : context_send(p, c, timed, close)
         \/ \E delivered \in BOOLEAN : context_push(p, c, delivered)
         \/ context_wait(p, c) \/ context_hold(p, c) \/ context_timer_cancel(p, c)
         \/ context_eof(p, c) \/ context_cls(p, c)
  BY DEF context_call
<1>2. ~ \E timed \in BOOLEAN : context_recv(p, c, timed)
  BY DEF context_recv, call_from, OneAnswerPerRequest, Called
<1>3. ASSUME NEW timed \in BOOLEAN, NEW close \in BOOLEAN,
             context_send(p, c, timed, close)
      PROVE  ReaderInv'
  <2>1. p = "request" /\ strand = "request" /\ credit > 0 /\ credit' = credit - 1
    BY <1>3 DEF context_send, call_from, spend_credit, OneAnswerPerRequest, Places
  <2>2. UNCHANGED <<phase, reads, strand>> /\ phase = "live"
    BY <1>3 DEF context_send, call_from
  <2>3. queue' = Append(queue, [no |-> Len(sent) + 1, req |-> c, close |-> close])
    BY <1>3 DEF context_send, enqueue
  <2>4. Len(queue') = Len(queue) + 1
    <3>1. [no |-> Len(sent) + 1, req |-> c, close |-> close] \in Response
      BY DEF TypeOK, Response
    <3>2. QED
      BY <2>3, <3>1, AppendProperties DEF TypeOK
  <2>5. Len(queue) \in Nat
    BY DEF TypeOK
  <2>6. QED
    BY <2>1, <2>2, <2>4, <2>5, LimitAssumption DEF TypeOK
<1>4. ASSUME NEW delivered \in BOOLEAN, context_push(p, c, delivered)
      PROVE  ReaderInv'
  <2>1. UNCHANGED <<phase, reads, queue, strand>> /\ phase = "live"
    BY <1>4 DEF context_push, call_from
  <2>2. credit' = credit \/ (credit > 0 /\ credit' = credit - 1)
    BY <1>4 DEF context_push, spend_credit
  <2>3. Len(queue) \in Nat
    BY DEF TypeOK
  <2>4. QED
    BY <2>1, <2>2, <2>3, LimitAssumption DEF TypeOK
<1>5. ASSUME \/ context_wait(p, c) \/ context_hold(p, c) \/ context_timer_cancel(p, c)
             \/ context_eof(p, c) \/ context_cls(p, c)
      PROVE  ReaderInv'
  BY <1>5 DEF context_wait, context_hold, context_timer_cancel, context_eof, context_cls,
              unchanged_by_timer_call, unchanged_by_close, write_vars
<1>6. QED
  BY <1>1, <1>2, <1>3, <1>4, <1>5

LEMMA ReaderInvOnRead ==
  ASSUME TypeOK, ReaderInv, on_read
  PROVE  ReaderInv'
<1> USE DEF ReaderInv, reader_bounded, write_vars, user_vars
<1>0. Len(queue) \in Nat
  BY DEF TypeOK
<1>1. CASE on_read_request
  BY <1>0, <1>1, LimitAssumption, MaxSendAssumption
     DEF on_read_request, completes_read, OneAnswerPerRequest, TypeOK
<1>2. CASE do_process_request_resume
  BY <1>0, <1>2, LimitAssumption
     DEF do_process_request_resume, resume_if, do_read, is_full, TypeOK
<1>3. CASE on_read_end_of_stream \/ on_read_error
  BY <1>0, <1>3, LimitAssumption
     DEF on_read_end_of_stream, stream_ended, on_read_error, completes_read, TypeOK
<1>4. QED
  BY <1>1, <1>2, <1>3 DEF on_read

LEMMA ReaderBoundedOnWrite ==
  ASSUME WriterInv, reader_bounded, NEW w \in writes,
         on_write_error(w) \/ last_written(w) \/ on_write_next(w)
  PROVE  reader_bounded'
<1> USE DEF reader_bounded, user_vars, completes_write
<1>0. Len(queue) \in Nat /\ queue # <<>>
  BY DEF WriterInv, TypeOK, OneWriter
<1>1. CASE on_write_error(w) \/ last_written(w)
  BY <1>1 DEF on_write_error, last_written
<1>2. CASE on_write_next(w)
  <2>1. queue' = Tail(queue) /\ Len(Tail(queue)) = Len(queue) - 1
    BY <1>0, <1>2, HeadTailProperties DEF on_write_next, advance_queue, WriterInv, TypeOK
  <2>2. reads' = IF is_full THEN reads + 1 ELSE reads
    BY <1>2 DEF on_write_next, advance_queue, do_read
  <2>3. UNCHANGED <<phase, strand, credit>> /\ phase = "live" /\ strand = "idle"
    BY <1>2 DEF on_write_next, advance_queue
  <2>4. QED
    BY <1>0, <2>1, <2>2, <2>3, LimitAssumption DEF is_full, WriterInv, TypeOK
<1>3. QED
  BY <1>1, <1>2

LEMMA ReaderInvOnTimer ==
  ASSUME TypeOK, ReaderInv, on_timer
  PROVE  ReaderInv'
BY DEF ReaderInv, reader_bounded, on_timer, on_timer_callback, fire_callback, on_timer_timeout,
       on_timer_ignored, on_timer_return, completes_wait, write_vars, user_vars

LEMMA ReaderInvLaunch ==
  ASSUME TypeOK, ReaderInv, launch
  PROVE  ReaderInv'
<1> USE DEF ReaderInv, reader_bounded, write_vars
<1> SUFFICES ASSUME OneAnswerPerRequest
             PROVE  ReaderInv'
  BY DEF OneAnswerPerRequest
<1>1. session_recv \/ session_recv_timed
  BY DEF launch, session_make, session_send, session_send_timed, session_wait,
         session_wait_timed, born, OneAnswerPerRequest
<1>2. reads' = reads + 1 /\ queue' = queue /\ strand' = strand /\ phase = "unborn"
      /\ phase' = "live"
  BY <1>1 DEF session_recv, session_recv_timed, born, do_read
<1>3. QED
  BY <1>2, LimitAssumption DEF TypeOK

LEMMA ReaderInvNext ==
  ASSUME WriterInv, ReaderInv, [Next]_vars
  PROVE  ReaderInv'
<1>1. TypeOK
  BY DEF WriterInv
<1>2. CASE on_write
  BY <1>2, ReaderBoundedOnWrite
     DEF on_write, on_write_close, ReaderInv, OneAnswerPerRequest, Called
<1>3. CASE ownership \/ elapse \/ finished \/ UNCHANGED vars
  BY <1>3 DEF ownership, context_keep, context_drop, destroy, elapse, finished, vars,
              ReaderInv, reader_bounded, write_vars, user_vars
<1>4. QED
  BY <1>1, <1>2, <1>3, ReaderInvLaunch, ReaderInvCall, ReaderInvOnRead, ReaderInvOnTimer
     DEF Next

(* With one answer per request there is never a second async_read, so      *)
(* do_read never replaces the parser_ a read is using.                     *)
THEOREM OneReaderHolds == Spec => []OneReader
<1>1. Init => WriterInv /\ ReaderInv
  BY WriterInvInit, ReaderInvInit
<1>2. WriterInv /\ ReaderInv /\ [Next]_vars => (WriterInv /\ ReaderInv)'
  BY WriterInvNext, ReaderInvNext
<1>3. ReaderInv => OneReader
  BY DEF ReaderInv, reader_bounded, OneReader
<1>4. QED
  BY <1>1, <1>2, <1>3, PTL DEF Spec

(* With one answer per request the queue never exceeds its limit, although  *)
(* queue::operator() itself refuses nothing.                               *)
THEOREM QueueBoundedHolds == Spec => []QueueBounded
<1>1. Init => WriterInv /\ ReaderInv
  BY WriterInvInit, ReaderInvInit
<1>2. WriterInv /\ ReaderInv /\ [Next]_vars => (WriterInv /\ ReaderInv)'
  BY WriterInvNext, ReaderInvNext
<1>3. ReaderInv => QueueBounded
  BY DEF ReaderInv, reader_bounded, QueueBounded
<1>4. QED
  BY <1>1, <1>2, <1>3, PTL DEF Spec

(***************************************************************************)
(* Back-pressure.  Reading stops for good only when the session is broken: *)
(* a queue that holds a response without a write is the mark of a failed   *)
(* or ended write direction, and an open session outside its route         *)
(* handlers reads exactly while the queue is below its limit.              *)
(***************************************************************************)

reads_below_limit ==
  phase = "live" /\ strand # "request" /\ is_open /\ ended = {}
    => (reads = 1 <=> ~is_full)

StallInv ==
  /\ writes = {} /\ queue # <<>> => "write" \in ended
  /\ OneAnswerPerRequest => reads_below_limit

LEMMA StallInvInit == Init => StallInv
BY DEF Init, StallInv, reads_below_limit

(* A step that leaves what the invariant speaks of, except to end something. *)
LEMMA StallInvQuiet ==
  ASSUME StallInv, UNCHANGED <<queue, writes, reads, strand>>, phase' = phase,
         ended' = ended, sock' \in {sock, "closed"}
  PROVE  StallInv'
BY DEF StallInv, OneAnswerPerRequest, reads_below_limit, is_open, is_full, Called

LEMMA StallInvEnqueue ==
  ASSUME StallInv, TypeOK, NEW r \in Response, enqueue(r), ended' = ended
  PROVE  writes' = {} /\ queue' # <<>> => "write" \in ended'
<1>1. CASE queue = <<>>
  BY <1>1 DEF enqueue, do_write
<1>2. CASE queue # <<>>
  BY <1>2 DEF enqueue, StallInv
<1>3. QED
  BY <1>1, <1>2

LEMMA StallInvLaunch ==
  ASSUME WriterInv, ReaderInv, StallInv, launch
  PROVE  StallInv'
<1>0. TypeOK
  BY DEF WriterInv
<1>1. ASSUME NEW close \in BOOLEAN, session_send(close) \/ session_send_timed(close)
      PROVE  StallInv'
  <2>1. first_response(close) \in Response
    BY <1>0, NextResponse DEF first_response
  <2>2. enqueue(first_response(close)) /\ ended' = ended
    BY <1>1 DEF session_send, session_send_timed, born, hist_vars
  <2>3. ~OneAnswerPerRequest
    BY <1>1 DEF session_send, session_send_timed, born, OneAnswerPerRequest
  <2>4. (~OneAnswerPerRequest)'
    BY <2>3 DEF OneAnswerPerRequest, Called
  <2>5. QED
    BY <1>0, <2>1, <2>2, <2>4, StallInvEnqueue DEF StallInv
<1>2. CASE session_make \/ session_wait \/ session_wait_timed
  <2>1. ~OneAnswerPerRequest
    BY <1>2 DEF session_make, session_wait, session_wait_timed, born, OneAnswerPerRequest
  <2>2. (~OneAnswerPerRequest)'
    BY <2>1 DEF OneAnswerPerRequest, Called
  <2>3. UNCHANGED <<queue, writes, ended>>
    BY <1>2 DEF session_make, session_wait, session_wait_timed, born, write_vars, hist_vars
  <2>4. QED
    BY <2>2, <2>3 DEF StallInv
<1>3. CASE session_recv \/ session_recv_timed
  <2>1. phase = "unborn" /\ reads' = reads + 1 /\ UNCHANGED <<queue, writes, ended>>
    BY <1>3 DEF session_recv, session_recv_timed, born, do_read, write_vars, hist_vars
  <2>2. OneAnswerPerRequest => reads' = 1 /\ queue' = <<>>
    BY <2>1 DEF ReaderInv, reader_bounded
  <2>3. OneAnswerPerRequest => ~is_full'
    BY <2>2, LimitAssumption DEF is_full
  <2>4. QED
    BY <2>1, <2>2, <2>3 DEF StallInv, OneAnswerPerRequest, Called, reads_below_limit
<1>4. QED
  BY <1>1, <1>2, <1>3 DEF launch

LEMMA StallInvCall ==
  ASSUME WriterInv, StallInv, context_call
  PROVE  StallInv'
<1>0. TypeOK
  BY DEF WriterInv
<1>1. PICK p \in Places, c \in kept \cup {served} :
         \/ \E timed \in BOOLEAN : context_recv(p, c, timed)
         \/ \E timed, close \in BOOLEAN : context_send(p, c, timed, close)
         \/ \E delivered \in BOOLEAN : context_push(p, c, delivered)
         \/ context_wait(p, c) \/ context_hold(p, c) \/ context_timer_cancel(p, c)
         \/ context_eof(p, c) \/ context_cls(p, c)
  BY DEF context_call
<1>2. ASSUME \E timed \in BOOLEAN : context_recv(p, c, timed)
      PROVE  StallInv'
  <2>1. ~OneAnswerPerRequest
    BY <1>2 DEF context_recv, call_from, OneAnswerPerRequest, Called
  <2>2. UNCHANGED <<queue, writes, ended>>
    BY <1>2 DEF context_recv, write_vars, hist_vars
  <2>3. QED
    BY <2>1, <2>2 DEF StallInv, OneAnswerPerRequest, Called
<1>3. ASSUME NEW timed \in BOOLEAN, NEW close \in BOOLEAN,
             context_send(p, c, timed, close)
      PROVE  StallInv'
  <2> DEFINE r == [no |-> Len(sent) + 1, req |-> c, close |-> close]
  <2>1. r \in Response
    BY <1>0, NextResponse DEF TypeOK
  <2>2. enqueue(r) /\ ended' = ended /\ strand' = strand
    BY <1>3 DEF context_send, hist_vars
  <2>3. writes' = {} /\ queue' # <<>> => "write" \in ended'
    BY <1>0, <2>1, <2>2, StallInvEnqueue
  <2>4. OneAnswerPerRequest => strand = "request"
    BY <1>3 DEF context_send, call_from, OneAnswerPerRequest, Places
  <2>5. QED
    BY <2>2, <2>3, <2>4 DEF StallInv, OneAnswerPerRequest, Called, reads_below_limit
<1>4. ASSUME \/ \E delivered \in BOOLEAN : context_push(p, c, delivered)
             \/ context_wait(p, c) \/ context_hold(p, c) \/ context_timer_cancel(p, c)
             \/ context_eof(p, c) \/ context_cls(p, c)
      PROVE  StallInv'
  <2>1. UNCHANGED <<phase, queue, writes, reads, strand, ended>>
    BY <1>4 DEF context_push, context_wait, context_hold, context_timer_cancel,
                context_eof, context_cls, unchanged_by_timer_call, unchanged_by_close,
                write_vars, hist_vars
  <2>2. sock' \in {sock, "closed"}
    BY <1>4 DEF context_push, context_wait, context_hold, context_timer_cancel,
                context_eof, context_cls, unchanged_by_timer_call, sock_vars, do_eof, do_cls
  <2>3. QED
    BY <2>1, <2>2, StallInvQuiet
<1>5. QED
  BY <1>1, <1>2, <1>3, <1>4

LEMMA StallInvOnRead ==
  ASSUME WriterInv, ReaderInv, StallInv, on_read
  PROVE  StallInv'
<1> USE DEF StallInv, OneAnswerPerRequest, Called, reads_below_limit, write_vars
<1>1. CASE on_read_request
  BY <1>1 DEF on_read_request
<1>2. CASE do_process_request_resume
  <2>1. UNCHANGED <<queue, writes, ended, sock>> /\ strand = "request" /\ strand' = "idle"
    BY <1>2 DEF do_process_request_resume, resume_if, sock_vars, hist_vars
  <2>2. reads' = IF ~is_full /\ is_open THEN reads + 1 ELSE reads
    BY <1>2 DEF do_process_request_resume, resume_if, do_read
  <2>3. OneAnswerPerRequest => reads = 0
    BY <2>1 DEF ReaderInv, reader_bounded
  <2>4. QED
    BY <2>1, <2>2, <2>3 DEF is_open, is_full
<1>3. CASE on_read_end_of_stream \/ on_read_error
  BY <1>3 DEF on_read_end_of_stream, stream_ended, on_read_error
<1>4. QED
  BY <1>1, <1>2, <1>3 DEF on_read

LEMMA StallInvOnWrite ==
  ASSUME WriterInv, ReaderInv, StallInv, NEW w \in writes,
         on_write_error(w) \/ on_write_close(w) \/ on_write_next(w)
  PROVE  StallInv'
<1> USE DEF StallInv, OneAnswerPerRequest, Called, reads_below_limit
<1>0. queue \in Seq(Response) /\ queue # <<>> /\ Len(queue) \in Nat
  BY DEF WriterInv, TypeOK, OneWriter
<1>1. CASE on_write_error(w) \/ on_write_close(w)
  BY <1>1 DEF on_write_error, on_write_close, last_written
<1>2. CASE on_write_next(w)
  <2>1. /\ queue' = Tail(queue) /\ start_next(w) /\ reads' = IF is_full THEN reads + 1 ELSE reads
        /\ UNCHANGED <<phase, sock, strand, ended>> /\ strand = "idle" /\ phase = "live"
    BY <1>2 DEF on_write_next, advance_queue, do_read, completes_write, sock_vars, user_vars
  <2>2. Len(queue') = Len(queue) - 1
    BY <1>0, <2>1, HeadTailProperties
  <2>3. queue' # <<>> => writes' # {}
    BY <2>1 DEF start_next, do_write
  <2>4. OneAnswerPerRequest => /\ Len(queue) <= Limit /\ reads \in {0, 1}
                               /\ (reads = 1 => Len(queue) < Limit)
    BY DEF ReaderInv, reader_bounded, WriterInv, TypeOK
  <2>5. ASSUME OneAnswerPerRequest, is_open, ended = {}
        PROVE  reads' = 1 /\ ~is_full'
    BY <1>0, <2>1, <2>2, <2>4, <2>5, LimitAssumption DEF is_full
  <2>6. QED
    BY <2>1, <2>3, <2>5 DEF is_open
<1>3. QED
  BY <1>1, <1>2

LEMMA StallInvOnTimer ==
  ASSUME WriterInv, StallInv, on_timer
  PROVE  StallInv'
BY DEF StallInv, OneAnswerPerRequest, Called, reads_below_limit, on_timer,
       on_timer_callback, fire_callback, on_timer_timeout, on_timer_ignored,
       on_timer_return, completes_wait, do_timeout, is_open, is_full, write_vars,
       user_vars, sock_vars, hist_vars

LEMMA StallInvNext ==
  ASSUME WriterInv, ReaderInv, StallInv, [Next]_vars
  PROVE  StallInv'
<1>1. CASE on_write
  BY <1>1, StallInvOnWrite DEF on_write
<1>2. CASE ownership \/ elapse \/ finished \/ UNCHANGED vars
  BY <1>2 DEF ownership, context_keep, context_drop, destroy, elapse, finished, vars,
              StallInv, OneAnswerPerRequest, Called, reads_below_limit, is_open, is_full,
              write_vars, sock_vars, user_vars, hist_vars
<1>3. QED
  BY <1>1, <1>2, StallInvLaunch, StallInvCall, StallInvOnRead, StallInvOnTimer DEF Next

(* Back-pressure is always released: with one answer per request, an open  *)
(* and unbroken session that is between handlers either reads or has a     *)
(* full queue and the write that will resume reading.                      *)
THEOREM NeverStalledHolds == Spec => []NeverStalled
<1>1. Init => WriterInv /\ ReaderInv /\ StallInv
  BY WriterInvInit, ReaderInvInit, StallInvInit
<1>2. WriterInv /\ ReaderInv /\ StallInv /\ [Next]_vars
        => (WriterInv /\ ReaderInv /\ StallInv)'
  BY WriterInvNext, ReaderInvNext, StallInvNext
<1>3. WriterInv /\ StallInv => NeverStalled
  <2>1. is_full /\ WriterInv => queue # <<>>
    BY LimitAssumption DEF is_full, WriterInv, TypeOK
  <2>2. QED
    BY <2>1 DEF StallInv, reads_below_limit, NeverStalled
<1>4. QED
  BY <1>1, <1>2, <1>3, PTL DEF Spec

(***************************************************************************)
(* After a close.  A request is still dispatched only if a read is          *)
(* outstanding, and a read is still started only by the on_write of a       *)
(* write that began before the close; both are at most one.                *)
(***************************************************************************)

resuming_writes == IF \E w \in writes : w.live THEN 1 ELSE 0

LateInv ==
  OneAnswerPerRequest =>
    IF is_open THEN late = 0 ELSE late + reads + resuming_writes <= 2

LEMMA LateInvInit == Init => LateInv
BY DEF Init, LateInv, is_open

(* Closing, or anything else that starts no operation. *)
LEMMA LateInvQuiet ==
  ASSUME WriterInv, ReaderInv, LateInv, writes' = writes, late' = late,
         reads' = reads \/ (reads > 0 /\ reads' = reads - 1),
         sock' \in {sock, "closed"}
  PROVE  LateInv'
<1> SUFFICES ASSUME OneAnswerPerRequest
             PROVE  LateInv'
  BY DEF LateInv, OneAnswerPerRequest, Called
<1>1. reads \in Nat /\ late \in Nat /\ reads <= 1
  BY DEF WriterInv, TypeOK, ReaderInv, reader_bounded
<1>2. resuming_writes' = resuming_writes /\ resuming_writes \in 0 .. 1
  BY DEF resuming_writes
<1>3. late + reads + resuming_writes <= 2 /\ (is_open => late = 0)
  <2>1. CASE is_open
    BY <1>1, <1>2, <2>1 DEF LateInv
  <2>2. CASE ~is_open
    BY <2>2 DEF LateInv
  <2>3. QED
    BY <2>1, <2>2
<1>4. is_open' => is_open
  BY DEF is_open
<1>5. CASE reads' = reads
  BY <1>1, <1>2, <1>3, <1>4, <1>5 DEF LateInv
<1>6. CASE reads > 0 /\ reads' = reads - 1
  BY <1>1, <1>2, <1>3, <1>4, <1>6 DEF LateInv
<1>7. QED
  BY <1>5, <1>6

(* A write started on a closed socket cannot succeed. *)
LEMMA LateInvEnqueue ==
  ASSUME WriterInv, LateInv, NEW r \in Response, enqueue(r),
         UNCHANGED <<sock, reads, late>>
  PROVE  LateInv'
<1> SUFFICES ASSUME OneAnswerPerRequest
             PROVE  LateInv'
  BY DEF LateInv, OneAnswerPerRequest, Called
<1>1. is_open' = is_open
  BY DEF is_open
<1>2. CASE is_open
  BY <1>1, <1>2 DEF LateInv
<1>3. CASE ~is_open
  <2>1. CASE queue = <<>>
    <3>1. do_write(r, {})
      BY <2>1 DEF enqueue, WriterInv, OneWriter
    <3>2. writes' = {[resp |-> r, live |-> FALSE]}
      BY <1>3, <3>1 DEF do_write, Sendable
    <3>3. resuming_writes' = 0
      BY <3>2 DEF resuming_writes
    <3>4. resuming_writes \in 0 .. 1 /\ late + reads + resuming_writes <= 2
      BY <1>3 DEF resuming_writes, LateInv
    <3>5. late \in Nat /\ reads \in Nat
      BY DEF WriterInv, TypeOK
    <3>6. QED
      BY <1>1, <1>3, <3>3, <3>4, <3>5 DEF LateInv
  <2>2. CASE queue # <<>>
    BY <1>1, <1>3, <2>2 DEF enqueue, LateInv, resuming_writes
  <2>3. QED
    BY <2>1, <2>2
<1>4. QED
  BY <1>2, <1>3

LEMMA LateInvOnRead ==
  ASSUME WriterInv, ReaderInv, LateInv, on_read
  PROVE  LateInv'
<1>1. reads \in Nat /\ late \in Nat
  BY DEF WriterInv, TypeOK
<1>2. CASE on_read_request
  <2>1. /\ reads > 0 /\ reads' = reads - 1 /\ writes' = writes /\ sock' = sock
        /\ late' = IF is_open THEN late ELSE late + 1
    BY <1>2 DEF on_read_request, completes_read, sock_vars, write_vars
  <2>2. resuming_writes' = resuming_writes /\ resuming_writes \in 0 .. 1
    BY <2>1 DEF resuming_writes
  <2>3. is_open' = is_open
    BY <2>1 DEF is_open
  <2>4. QED
    BY <1>1, <2>1, <2>2, <2>3 DEF LateInv, OneAnswerPerRequest, Called
<1>3. CASE do_process_request_resume
  <2>1. UNCHANGED <<writes, late, sock>>
    BY <1>3 DEF do_process_request_resume, resume_if, sock_vars, write_vars, hist_vars
  <2>2. reads' = IF ~is_full /\ is_open THEN reads + 1 ELSE reads
    BY <1>3 DEF do_process_request_resume, resume_if, do_read
  <2>3. CASE is_open
    BY <2>1, <2>3 DEF is_open, LateInv, OneAnswerPerRequest, Called
  <2>4. CASE ~is_open
    BY <1>1, <2>1, <2>2, <2>4, LateInvQuiet
  <2>5. QED
    BY <2>3, <2>4
<1>4. CASE on_read_end_of_stream \/ on_read_error
  <2>1. UNCHANGED <<writes, late, sock>> /\ reads > 0 /\ reads' = reads - 1
    BY <1>4 DEF on_read_end_of_stream, stream_ended, on_read_error, completes_read, do_eof,
                sock_vars,
                write_vars
  <2>2. QED
    BY <1>1, <2>1, LateInvQuiet
<1>5. QED
  BY <1>2, <1>3, <1>4 DEF on_read

LEMMA LateInvOnWrite ==
  ASSUME WriterInv, ReaderInv, LateInv, NEW w \in writes,
         on_write_error(w) \/ on_write_close(w) \/ on_write_next(w)
  PROVE  LateInv'
<1> SUFFICES ASSUME OneAnswerPerRequest
             PROVE  LateInv'
  BY DEF LateInv, OneAnswerPerRequest, Called
<1>1. reads \in Nat /\ late \in Nat /\ writes = {w}
  BY DEF WriterInv, TypeOK, OneWriter
<1>2. sock' = sock /\ late' = late
  BY DEF on_write_error, on_write_close, last_written, on_write_next, advance_queue, do_eof,
         sock_vars
<1>3. CASE is_open
  BY <1>2, <1>3 DEF is_open, LateInv
<1>4. CASE ~is_open
  <2>0. ~is_open' /\ late + reads + resuming_writes <= 2
    BY <1>2, <1>4 DEF is_open, LateInv
  <2>1. CASE on_write_error(w) \/ on_write_close(w)
    <3>1. writes' = {} /\ reads' = reads
      BY <1>1, <2>1 DEF on_write_error, on_write_close, last_written
    <3>2. resuming_writes' = 0 /\ resuming_writes \in 0 .. 1
      BY <3>1 DEF resuming_writes
    <3>3. QED
      BY <1>1, <1>2, <2>0, <3>1, <3>2 DEF LateInv
  <2>2. CASE on_write_next(w)
    <3>1. w.live /\ start_next(w) /\ (reads' = reads \/ reads' = reads + 1)
      BY <2>2 DEF on_write_next, advance_queue, do_read
    <3>2. resuming_writes = 1
      BY <1>1, <3>1 DEF resuming_writes
    <3>3. ASSUME NEW v \in writes'
          PROVE  v.live = FALSE
      <4>1. Tail(queue) # <<>> /\ do_write(Head(Tail(queue)), {})
        BY <1>1, <3>1, <3>3 DEF start_next
      <4>2. v = [resp |-> Head(Tail(queue)), live |-> FALSE]
        BY <1>4, <3>3, <4>1 DEF do_write, Sendable
      <4>3. QED
        BY <4>2
    <3>4. resuming_writes' = 0
      BY <3>3 DEF resuming_writes
    <3>5. QED
      BY <1>1, <1>2, <2>0, <3>1, <3>2, <3>4 DEF LateInv
  <2>3. QED
    BY <2>1, <2>2
<1>5. QED
  BY <1>3, <1>4

LEMMA LateInvCall ==
  ASSUME WriterInv, ReaderInv, LateInv, context_call
  PROVE  LateInv'
<1> SUFFICES ASSUME OneAnswerPerRequest
             PROVE  LateInv'
  BY DEF LateInv, OneAnswerPerRequest, Called
<1>0. TypeOK
  BY DEF WriterInv
<1>1. ASSUME NEW p \in Places, NEW c \in kept \cup {served}, NEW timed \in BOOLEAN,
             NEW close \in BOOLEAN, context_send(p, c, timed, close)
      PROVE  LateInv'
  <2> DEFINE r == [no |-> Len(sent) + 1, req |-> c, close |-> close]
  <2>1. r \in Response
    BY <1>0, NextResponse DEF TypeOK
  <2>2. enqueue(r) /\ UNCHANGED <<sock, reads, late>>
    BY <1>1 DEF context_send, sock_vars, hist_vars
  <2>3. QED
    BY <2>1, <2>2, LateInvEnqueue
<1>2. ASSUME NEW p \in Places, NEW c \in kept \cup {served},
             \/ \E delivered \in BOOLEAN : context_push(p, c, delivered)
             \/ context_wait(p, c) \/ context_hold(p, c) \/ context_timer_cancel(p, c)
             \/ context_eof(p, c) \/ context_cls(p, c)
      PROVE  LateInv'
  <2>1. UNCHANGED <<writes, reads, late>>
    BY <1>2 DEF context_push, context_wait, context_hold, context_timer_cancel,
                context_eof, context_cls, unchanged_by_timer_call, unchanged_by_close,
                write_vars, hist_vars
  <2>2. sock' \in {sock, "closed"}
    BY <1>2 DEF context_push, context_wait, context_hold, context_timer_cancel,
                context_eof, context_cls, unchanged_by_timer_call, sock_vars, do_eof, do_cls
  <2>3. QED
    BY <1>0, <2>1, <2>2, LateInvQuiet DEF TypeOK
<1>3. ASSUME NEW p \in Places, NEW c \in kept \cup {served}, NEW timed \in BOOLEAN,
             context_recv(p, c, timed)
      PROVE  FALSE
  BY <1>3 DEF context_recv, call_from, OneAnswerPerRequest, Called
<1>4. QED
  BY <1>1, <1>2, <1>3 DEF context_call

(* Nothing is closed or dispatched before the session starts. *)
UnbornInv == phase = "unborn" => is_open /\ late = 0

LEMMA UnbornInvNext ==
  ASSUME UnbornInv, [Next]_vars
  PROVE  UnbornInv'
<1> USE DEF UnbornInv, is_open, sock_vars, hist_vars
<1>1. CASE launch
  BY <1>1 DEF launch, session_make, session_recv, session_recv_timed, session_send,
              session_send_timed, session_wait, session_wait_timed, born
<1>2. CASE context_call
  <2>1. ASSUME NEW p, NEW c,
               \/ \E timed \in BOOLEAN : context_recv(p, c, timed)
               \/ \E timed, close \in BOOLEAN : context_send(p, c, timed, close)
               \/ \E delivered \in BOOLEAN : context_push(p, c, delivered)
        PROVE  phase = "live" /\ phase' = phase
    BY <2>1 DEF context_recv, context_send, context_push, call_from
  <2>2. ASSUME NEW p, NEW c,
               \/ context_wait(p, c) \/ context_hold(p, c) \/ context_timer_cancel(p, c)
               \/ context_eof(p, c) \/ context_cls(p, c)
        PROVE  phase = "live" /\ phase' = phase
    BY <2>2 DEF context_wait, context_hold, context_timer_cancel, context_eof, context_cls,
                call_from, unchanged_by_timer_call, unchanged_by_close
  <2>3. QED
    BY <1>2, <2>1, <2>2 DEF context_call
<1>3. CASE ownership \/ elapse \/ finished \/ UNCHANGED vars
  BY <1>3 DEF ownership, context_keep, context_drop, destroy, elapse, finished, vars
<1>4. CASE on_read \/ on_write \/ on_timer
  BY <1>4 DEF on_read, on_read_request, do_process_request_resume, resume_if,
              on_read_end_of_stream, stream_ended, on_read_error, completes_read, on_write,
              on_write_error, on_write_close, last_written, on_write_next, advance_queue,
              completes_write, on_timer, on_timer_callback, fire_callback,
              on_timer_timeout, on_timer_ignored, on_timer_return, completes_wait
<1>5. QED
  BY <1>1, <1>2, <1>3, <1>4 DEF Next

LEMMA LateInvNext ==
  ASSUME WriterInv, ReaderInv, UnbornInv, LateInv, [Next]_vars
  PROVE  LateInv'
<1>0. reads \in Nat
  BY DEF WriterInv, TypeOK
<1>1. CASE launch
  <2> SUFFICES ASSUME OneAnswerPerRequest
               PROVE  LateInv'
    BY DEF LateInv, OneAnswerPerRequest, Called
  <2>1. session_recv \/ session_recv_timed
    BY <1>1 DEF launch, session_make, session_send, session_send_timed, session_wait,
                session_wait_timed, born, OneAnswerPerRequest
  <2>2. reads = 0 /\ reads' = 1 /\ UNCHANGED <<writes, late, sock>>
    BY <2>1 DEF session_recv, session_recv_timed, born, do_read, ReaderInv, reader_bounded,
                write_vars,
                sock_vars, hist_vars
  <2>3. is_open /\ late = 0
    BY <2>1 DEF session_recv, session_recv_timed, born, UnbornInv
  <2>4. QED
    BY <2>2, <2>3 DEF LateInv, is_open
<1>2. CASE on_write
  BY <1>2, LateInvOnWrite DEF on_write
<1>3. CASE ownership \/ elapse \/ finished \/ UNCHANGED vars
  <2>1. UNCHANGED <<writes, reads, late>> /\ sock' \in {sock, "closed"}
    BY <1>3 DEF ownership, context_keep, context_drop, destroy, elapse, finished, vars,
                write_vars, sock_vars, hist_vars
  <2>2. QED
    BY <1>0, <2>1, LateInvQuiet
<1>4. CASE on_timer
  <2>1. UNCHANGED <<writes, reads, late>> /\ sock' \in {sock, "closed"}
    BY <1>4 DEF on_timer, on_timer_callback, fire_callback, on_timer_timeout,
                on_timer_ignored, on_timer_return, do_timeout, write_vars, sock_vars,
                hist_vars
  <2>2. QED
    BY <1>0, <2>1, LateInvQuiet
<1>5. QED
  BY <1>1, <1>2, <1>3, <1>4, LateInvCall, LateInvOnRead DEF Next

(* At most two requests are dispatched after the socket was closed.        *)
THEOREM LateRequestsBoundedHolds == Spec => []LateRequestsBounded
<1>1. Init => WriterInv /\ ReaderInv /\ UnbornInv /\ LateInv
  BY WriterInvInit, ReaderInvInit, LateInvInit DEF Init, UnbornInv, is_open
<1>2. WriterInv /\ ReaderInv /\ UnbornInv /\ LateInv /\ [Next]_vars
        => (WriterInv /\ ReaderInv /\ UnbornInv /\ LateInv)'
  BY WriterInvNext, ReaderInvNext, UnbornInvNext, LateInvNext
<1>3. WriterInv /\ LateInv => LateRequestsBounded
  BY DEF LateInv, resuming_writes, LateRequestsBounded, WriterInv, TypeOK
<1>4. QED
  BY <1>1, <1>2, <1>3, PTL DEF Spec
=============================================================================
