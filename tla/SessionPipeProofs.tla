------------------------- MODULE SessionPipeProofs -------------------------
(* Proofs about the responses of Session: it implements ResponsePipe.      *)
EXTENDS SessionProofs

(***************************************************************************)
(* What the peer was given is always a beginning of what user code         *)
(* produced; while the pipe is whole the rest is exactly the queue.  Where *)
(* user code pushes, the queue stays empty.                                *)
(***************************************************************************)

whole == queue = <<>> \/ writes # {}

PipeInv ==
  PushesOrQueues =>
    /\ "push" \in Called => queue = <<>>
    /\ \A w \in writes : serializer = <<w.resp>>
    /\ Len(wire) <= Len(sent)
    /\ \A i \in 1 .. Len(wire) : wire[i] = sent[i]
    /\ whole => /\ Len(sent) = Len(wire) + Len(queue)
                /\ \A i \in 1 .. Len(queue) : queue[i] = sent[Len(wire) + i]

LEMMA PipeInvInit == Init => PipeInv
BY DEF Init, PipeInv, whole

(* The step produces r, for the queue. *)
produces(r) == enqueue(r) /\ sent' = Append(sent, r) /\ wire' = wire

(* Nothing the pipe is made of changes. *)
pipe_unchanged == UNCHANGED <<sent, wire, queue, writes, serializer>>

(* Every step is one of six, as far as responses are concerned. *)
LEMMA ResponseSteps ==
  ASSUME WriterInv, PushesOrQueues, [Next]_vars
  PROVE  \/ pipe_unchanged
         \/ "push" \notin Called /\ \E r \in Response : produces(r)
         \/ \E p \in Places, c \in kept \cup {served}, delivered \in BOOLEAN :
              context_push(p, c, delivered)
         \/ \E w \in writes : on_write_error(w) \/ last_written(w) \/ on_write_next(w)
<1> USE DEF pipe_unchanged, write_vars, hist_vars
<1>0. TypeOK
  BY DEF WriterInv
<1>1. ASSUME NEW close \in BOOLEAN, session_send(close) \/ session_send_timed(close)
      PROVE  "push" \notin Called /\ \E r \in Response : produces(r)
  <2>1. first_response(close) \in Response
    BY <1>0, NextResponse DEF first_response
  <2>2. produces(first_response(close))
    BY <1>1 DEF session_send, session_send_timed, born, produces
  <2>3. "push" \notin Called
    BY <1>1 DEF session_send, session_send_timed, born, PushesOrQueues
  <2>4. QED
    BY <2>1, <2>2, <2>3
<1>2. CASE launch
  <2>1. ASSUME session_make \/ session_recv \/ session_recv_timed \/ session_wait
               \/ session_wait_timed
        PROVE  pipe_unchanged
    BY <2>1 DEF session_make, session_recv, session_recv_timed, session_wait,
                session_wait_timed, born
  <2>2. QED
    BY <1>1, <1>2, <2>1 DEF launch
<1>3. ASSUME NEW p \in Places, NEW c \in kept \cup {served}, NEW timed \in BOOLEAN,
             NEW close \in BOOLEAN, context_send(p, c, timed, close)
      PROVE  "push" \notin Called /\ \E r \in Response : produces(r)
  <2> DEFINE r == [no |-> Len(sent) + 1, req |-> c, close |-> close]
  <2>1. r \in Response
    BY <1>0, NextResponse DEF TypeOK
  <2>2. produces(r)
    BY <1>3 DEF context_send, produces
  <2>3. "push" \notin Called
    BY <1>3 DEF context_send, call_from, PushesOrQueues, Called
  <2>4. QED
    BY <2>1, <2>2, <2>3
<1>4. ASSUME NEW p \in Places, NEW c \in kept \cup {served},
             \/ \E timed \in BOOLEAN : context_recv(p, c, timed)
             \/ context_wait(p, c) \/ context_hold(p, c) \/ context_timer_cancel(p, c)
             \/ context_eof(p, c) \/ context_cls(p, c)
      PROVE  pipe_unchanged
  BY <1>4 DEF context_recv, context_wait, context_hold, context_timer_cancel, context_eof,
              context_cls, unchanged_by_timer_call, unchanged_by_close
<1>5. CASE context_call
  BY <1>3, <1>4, <1>5 DEF context_call
<1>6. CASE ownership \/ elapse \/ finished \/ UNCHANGED vars
  BY <1>6 DEF ownership, context_keep, context_drop, destroy, elapse, finished, vars
<1>7. CASE on_read
  BY <1>7 DEF on_read, on_read_request, do_process_request_resume, resume_if,
              on_read_end_of_stream, stream_ended, on_read_error
<1>8. CASE on_timer
  BY <1>8 DEF on_timer, on_timer_callback, fire_callback, on_timer_timeout,
              on_timer_ignored, on_timer_return
<1>9. CASE on_write
  BY <1>9 DEF on_write, on_write_close
<1>10. QED
  BY <1>2, <1>5, <1>6, <1>7, <1>8, <1>9 DEF Next

(* The serializer of a write started alone is that write's. *)
LEMMA DoWriteSerializes ==
  ASSUME NEW r, do_write(r, {})
  PROVE  \A w \in writes' : serializer' = <<w.resp>>
<1>1. writes' = {[resp |-> r, live |-> Sendable]} /\ serializer' = <<r>>
  BY DEF do_write
<1>2. QED
  BY <1>1

(* A response produced for the queue. *)
LEMMA PipeInvProduce ==
  ASSUME WriterInv, PipeInv, "push" \notin Called, NEW r \in Response, produces(r)
  PROVE  PipeInv'
<1> SUFFICES ASSUME PushesOrQueues
             PROVE  PipeInv'
  BY DEF PipeInv, PushesOrQueues
<1>0. queue \in Seq(Response) /\ sent \in Seq(Response) /\ wire \in Seq(Response)
  BY DEF WriterInv, TypeOK
<1>1. /\ Len(sent') = Len(sent) + 1 /\ sent'[Len(sent) + 1] = r
      /\ \A i \in 1 .. Len(sent) : sent'[i] = sent[i]
  BY <1>0, AppendProperties DEF produces
<1>2. /\ Len(queue') = Len(queue) + 1 /\ queue'[Len(queue) + 1] = r
      /\ \A i \in 1 .. Len(queue) : queue'[i] = queue[i]
  BY <1>0, AppendProperties DEF produces, enqueue
<1>3. Len(sent) \in Nat /\ Len(queue) \in Nat /\ Len(wire) \in Nat
  BY <1>0
<1>4. wire' = wire
  BY DEF produces
<1>5. \A w \in writes' : serializer' = <<w.resp>>
  <2>1. CASE queue = <<>>
    <3>1. do_write(r, {})
      BY <2>1 DEF produces, enqueue, WriterInv, OneWriter
    <3>2. QED
      BY <3>1, DoWriteSerializes
  <2>2. CASE queue # <<>>
    BY <2>2 DEF produces, enqueue, PipeInv
  <2>3. QED
    BY <2>1, <2>2
<1>6. \A i \in 1 .. Len(wire') : wire'[i] = sent'[i]
  BY <1>1, <1>3, <1>4 DEF PipeInv
<1>7. ASSUME whole
      PROVE  /\ Len(sent') = Len(wire') + Len(queue')
             /\ \A i \in 1 .. Len(queue') : queue'[i] = sent'[Len(wire') + i]
  <2>1. Len(sent) = Len(wire) + Len(queue)
    BY <1>7 DEF PipeInv
  <2>2. ASSUME NEW i \in 1 .. Len(queue) + 1
        PROVE  queue'[i] = sent'[Len(wire) + i]
    <3>1. CASE i = Len(queue) + 1
      BY <1>1, <1>2, <1>3, <2>1, <3>1
    <3>2. CASE i \in 1 .. Len(queue)
      <4>1. Len(wire) + i \in 1 .. Len(sent)
        BY <1>3, <2>1, <3>2
      <4>2. QED
        BY <1>1, <1>2, <1>7, <3>2, <4>1 DEF PipeInv
    <3>3. QED
      BY <1>3, <3>1, <3>2
  <2>3. Len(sent') = Len(wire') + Len(queue')
    BY <1>1, <1>2, <1>3, <1>4, <2>1
  <2>4. \A i \in 1 .. Len(queue') : queue'[i] = sent'[Len(wire') + i]
    BY <1>2, <1>4, <2>2
  <2>5. QED
    BY <2>3, <2>4
<1>8. whole' => whole
  BY DEF produces, enqueue, whole
<1>9. Len(wire') <= Len(sent')
  BY <1>1, <1>3, <1>4 DEF PipeInv
<1>10. QED
  BY <1>5, <1>6, <1>7, <1>8, <1>9 DEF PipeInv

(* A response pushed past the queue, which is empty. *)
LEMMA PipeInvPush ==
  ASSUME WriterInv, PipeInv, NEW p \in Places, NEW c \in kept \cup {served},
         NEW delivered \in BOOLEAN, context_push(p, c, delivered)
  PROVE  PipeInv'
<1> SUFFICES ASSUME PushesOrQueues
             PROVE  PipeInv'
  BY DEF PipeInv, PushesOrQueues
<1> DEFINE r == [no |-> Len(sent) + 1, req |-> c, close |-> FALSE]
<1>0. TypeOK /\ r \in Response
  BY NextResponse DEF WriterInv, TypeOK
<1>1. queue = <<>> /\ queue' = <<>> /\ writes = {} /\ writes' = {}
  BY DEF context_push, call_from, Called, PipeInv, WriterInv, OneWriter
<1>2. Len(sent) = Len(wire) /\ Len(wire) \in Nat
  BY <1>0, <1>1 DEF PipeInv, whole, TypeOK
<1>3. CASE delivered
  <2>1. sent' = Append(sent, r) /\ wire' = Append(wire, r)
    BY <1>3 DEF context_push
  <2>2. /\ Len(sent') = Len(sent) + 1 /\ sent'[Len(sent) + 1] = r
        /\ \A i \in 1 .. Len(sent) : sent'[i] = sent[i]
    BY <1>0, <2>1, AppendProperties DEF TypeOK
  <2>3. /\ Len(wire') = Len(wire) + 1 /\ wire'[Len(wire) + 1] = r
        /\ \A i \in 1 .. Len(wire) : wire'[i] = wire[i]
    BY <1>0, <2>1, AppendProperties DEF TypeOK
  <2>4. \A i \in 1 .. Len(wire') : wire'[i] = sent'[i]
    BY <1>2, <2>2, <2>3 DEF PipeInv
  <2>5. QED
    BY <1>1, <1>2, <2>2, <2>3, <2>4 DEF PipeInv
<1>4. CASE ~delivered
  <2>1. sent' = sent /\ wire' = wire
    BY <1>4 DEF context_push
  <2>2. QED
    BY <1>1, <1>2, <2>1 DEF PipeInv
<1>5. QED
  BY <1>3, <1>4

(* A write that is reported: the response it wrote heads the queue. *)
LEMMA PipeInvOnWrite ==
  ASSUME WriterInv, PipeInv, NEW w \in writes,
         on_write_error(w) \/ last_written(w) \/ on_write_next(w)
  PROVE  PipeInv'
<1> SUFFICES ASSUME PushesOrQueues
             PROVE  PipeInv'
  BY DEF PipeInv, PushesOrQueues
<1>0. queue \in Seq(Response) /\ sent \in Seq(Response) /\ wire \in Seq(Response)
  BY DEF WriterInv, TypeOK
<1>1. Len(sent) \in Nat /\ Len(queue) \in Nat \ {0} /\ Len(wire) \in Nat
  BY <1>0 DEF WriterInv, OneWriter
<1>2. writes \ {w} = {} /\ w.resp = Head(queue) /\ queue # <<>> /\ w.resp \in Response
  BY <1>0, HeadTailProperties DEF WriterInv, OneWriter
<1>3. /\ Len(sent) = Len(wire) + Len(queue)
      /\ \A i \in 1 .. Len(queue) : queue[i] = sent[Len(wire) + i]
  BY DEF PipeInv, whole
<1>4. /\ Len(Append(wire, w.resp)) = Len(wire) + 1
      /\ Append(wire, w.resp)[Len(wire) + 1] = w.resp
      /\ \A i \in 1 .. Len(wire) : Append(wire, w.resp)[i] = wire[i]
  BY <1>0, <1>2, AppendProperties
<1>5. w.resp = sent[Len(wire) + 1]
  <2>1. w.resp = queue[1]
    BY <1>0, <1>2
  <2>2. QED
    BY <1>1, <1>3, <2>1
<1>6. \A i \in 1 .. Len(Append(wire, w.resp)) : Append(wire, w.resp)[i] = sent[i]
  BY <1>1, <1>4, <1>5 DEF PipeInv
<1>7. CASE on_write_error(w)
  BY <1>2, <1>7 DEF on_write_error, PipeInv, whole
<1>8. CASE last_written(w)
  BY <1>1, <1>2, <1>3, <1>4, <1>6, <1>8 DEF last_written, PipeInv, whole
<1>9. CASE on_write_next(w)
  <2>1. queue' = Tail(queue) /\ wire' = Append(wire, w.resp) /\ sent' = sent
        /\ start_next(w)
    BY <1>9 DEF on_write_next, advance_queue
  <2>2. /\ Len(queue') = Len(queue) - 1
        /\ \A i \in 1 .. Len(queue') : queue'[i] = queue[i + 1]
    BY <1>0, <1>2, <2>1, HeadTailProperties
  <2>3. ASSUME NEW i \in 1 .. Len(queue')
        PROVE  queue'[i] = sent'[Len(wire') + i]
    <3> DEFINE k == i + 1
    <3>1. k \in 1 .. Len(queue) /\ Len(wire) + k = Len(wire') + i
      BY <1>1, <1>4, <2>1, <2>2
    <3>2. queue'[i] = queue[k]
      BY <2>2
    <3> HIDE DEF k
    <3>3. queue[k] = sent[Len(wire) + k]
      BY <1>3, <3>1
    <3>4. QED
      BY <2>1, <3>1, <3>2, <3>3
  <2>4. Len(sent') = Len(wire') + Len(queue')
    <3>1. Len(sent') = Len(sent) /\ Len(wire') = Len(wire) + 1
      BY <1>4, <2>1
    <3>2. Len(queue') = Len(queue) - 1
      BY <2>2
    <3>3. Len(sent) = Len(wire) + Len(queue)
      BY <1>3
    <3>4. QED
      BY <1>1, <3>1, <3>2, <3>3
  <2>5. \A v \in writes' : serializer' = <<v.resp>>
    <3>1. CASE Tail(queue) = <<>>
      BY <1>2, <2>1, <3>1 DEF start_next
    <3>2. CASE Tail(queue) # <<>>
      <4>1. do_write(Head(Tail(queue)), {})
        BY <1>2, <2>1, <3>2 DEF start_next
      <4>2. QED
        BY <4>1, DoWriteSerializes
    <3>3. QED
      BY <3>1, <3>2
  <2>6. "push" \notin Called
    BY <1>2 DEF PipeInv
  <2>7. Len(wire') <= Len(sent')
    BY <1>1, <1>3, <1>4, <2>1
  <2>8. \A i \in 1 .. Len(wire') : wire'[i] = sent'[i]
    BY <1>6, <2>1
  <2>9. QED
    BY <2>3, <2>4, <2>5, <2>6, <2>7, <2>8 DEF PipeInv
<1>10. QED
  BY <1>7, <1>8, <1>9

LEMMA PipeInvNext ==
  ASSUME WriterInv, PipeInv, [Next]_vars
  PROVE  PipeInv'
<1> SUFFICES ASSUME PushesOrQueues
             PROVE  PipeInv'
  BY DEF PipeInv, PushesOrQueues
<1>1. CASE pipe_unchanged
  BY <1>1 DEF pipe_unchanged, PipeInv, whole
<1>2. QED
  BY <1>1, ResponseSteps, PipeInvProduce, PipeInvPush, PipeInvOnWrite

(***************************************************************************)
(* The simulation: a step of the session is a step of the pipe or none.    *)
(***************************************************************************)

(* A longer sequence extends the shorter one. *)
LEMMA AppendExtends ==
  ASSUME NEW s \in Seq(Response), NEW r \in Response
  PROVE  Len(Append(s, r)) = Len(s) + 1 /\ SubSeq(Append(s, r), 1, Len(s)) = s
<1>1. Len(Append(s, r)) = Len(s) + 1
  BY AppendProperties
<1>2. CASE s = <<>>
  BY <1>2, SubSeqEmpty
<1>3. CASE s # <<>>
  <2>1. Append(s, r) = s \o <<r>> /\ <<r>> \in Seq(Response)
    BY AppendIsConcat
  <2>2. 1 \in 1 .. Len(s) /\ Len(s) \in 1 .. Len(s)
    BY <1>3
  <2>3. SubSeq(s \o <<r>>, 1, Len(s)) = SubSeq(s, 1, Len(s))
    BY <2>1, <2>2, SubSeqOfConcat1
  <2>4. QED
    BY <1>1, <2>1, <2>3, SubSeqFull
<1>4. QED
  BY <1>1, <1>2, <1>3

LEMMA PipeProduce ==
  ASSUME WriterInv, NEW r \in Response, produces(r)
  PROVE  Pipe!Produce
<1>0. TypeOK
  BY DEF WriterInv
<1>1. Pipe!OneMore
  BY <1>0, AppendExtends DEF TypeOK, produces, Pipe!OneMore
<1>2. wire' = wire
  BY DEF produces
<1>3. queue' # <<>>
  BY <1>0, AppendProperties DEF TypeOK, produces, enqueue
<1>4. CASE queue = <<>>
  <2>1. writes' # {}
    BY <1>4 DEF produces, enqueue, do_write
  <2>2. QED
    BY <1>1, <1>2, <1>4, <2>1 DEF Pipe!Produce
<1>5. CASE queue # <<>>
  <2>1. writes' = writes
    BY <1>5 DEF produces, enqueue
  <2>2. QED
    BY <1>1, <1>2, <1>3, <1>5, <2>1 DEF Pipe!Produce
<1>6. QED
  BY <1>4, <1>5

LEMMA PipePush ==
  ASSUME WriterInv, PipeInv, PushesOrQueues, NEW p \in Places,
         NEW c \in kept \cup {served}, NEW delivered \in BOOLEAN,
         context_push(p, c, delivered)
  PROVE  Pipe!Push \/ UNCHANGED Pipe!pipe
<1> DEFINE r == [no |-> Len(sent) + 1, req |-> c, close |-> FALSE]
<1>0. TypeOK /\ r \in Response
  BY NextResponse DEF WriterInv, TypeOK
<1>1. queue = <<>> /\ queue' = <<>>
  BY DEF context_push, call_from, Called, PipeInv
<1>2. wire = sent
  <2>1. wire \in Seq(Response) /\ sent \in Seq(Response)
    BY <1>0 DEF TypeOK
  <2>2. Len(wire) = Len(sent) /\ \A i \in 1 .. Len(wire) : wire[i] = sent[i]
    BY <1>1, <2>1 DEF PipeInv, whole
  <2>3. QED
    BY <2>1, <2>2, SeqEqual
<1>3. CASE delivered
  <2>1. sent' = Append(sent, r) /\ wire' = Append(wire, r)
    BY <1>3 DEF context_push
  <2>2. Pipe!OneMore
    BY <1>0, <2>1, AppendExtends DEF TypeOK, Pipe!OneMore
  <2>3. QED
    BY <1>1, <1>2, <2>1, <2>2 DEF Pipe!Push
<1>4. CASE ~delivered
  BY <1>1, <1>4 DEF context_push, Pipe!pipe
<1>5. QED
  BY <1>3, <1>4

LEMMA PipeOnWrite ==
  ASSUME WriterInv, PipeInv, PushesOrQueues, NEW w \in writes,
         on_write_error(w) \/ last_written(w) \/ on_write_next(w)
  PROVE  Pipe!Break \/ Pipe!Deliver
<1>0. TypeOK
  BY DEF WriterInv
<1>1. queue # <<>> /\ w.resp = Head(queue) /\ writes \ {w} = {}
  BY DEF WriterInv, OneWriter
<1>2. Len(wire) < Len(sent) /\ w.resp = sent[Len(wire) + 1]
  <2>1. Len(queue) \in Nat \ {0} /\ Len(wire) \in Nat /\ w.resp = queue[1]
    BY <1>0, <1>1 DEF TypeOK
  <2>2. Len(sent) = Len(wire) + Len(queue) /\ queue[1] = sent[Len(wire) + 1]
    BY <2>1 DEF PipeInv, whole
  <2>3. QED
    BY <2>1, <2>2
<1>3. CASE on_write_error(w)
  BY <1>1, <1>3 DEF on_write_error, Pipe!Break
<1>4. ASSUME wire' = Append(wire, w.resp)
      PROVE  wire'[Len(wire')] = w.resp
  <2>1. w.resp \in Response
    BY <1>0, <1>1, HeadTailProperties DEF TypeOK
  <2>2. QED
    BY <1>0, <1>4, <2>1, AppendProperties DEF TypeOK
<1>5. CASE last_written(w)
  <2>1. /\ wire' = Append(wire, w.resp) /\ w.resp.close /\ writes' = {}
        /\ UNCHANGED <<sent, queue>>
    BY <1>1, <1>5 DEF last_written
  <2>2. w.resp.close = TRUE
    <3>1. w.resp \in Response
      BY <1>0, <1>1, HeadTailProperties DEF TypeOK
    <3>2. QED
      BY <2>1, <3>1 DEF Response
  <2>3. QED
    BY <1>1, <1>2, <1>4, <2>1, <2>2 DEF Pipe!Deliver
<1>6. CASE on_write_next(w)
  <2>1. /\ wire' = Append(wire, w.resp) /\ ~w.resp.close /\ queue' = Tail(queue)
        /\ start_next(w) /\ sent' = sent
    BY <1>6 DEF on_write_next, advance_queue
  <2>2. w.resp.close = FALSE
    <3>1. w.resp \in Response
      BY <1>0, <1>1, HeadTailProperties DEF TypeOK
    <3>2. QED
      BY <2>1, <3>1 DEF Response
  <2>3. queue' = <<>> \/ writes' # {}
    BY <2>1 DEF start_next, do_write
  <2>4. QED
    BY <1>1, <1>2, <1>4, <2>1, <2>2, <2>3 DEF Pipe!Deliver
<1>7. QED
  BY <1>3, <1>5, <1>6

LEMMA PipeStep ==
  ASSUME WriterInv, PipeInv, PushesOrQueues, [Next]_vars
  PROVE  [Pipe!Next]_(Pipe!pipe)
<1>1. CASE pipe_unchanged
  BY <1>1 DEF pipe_unchanged, Pipe!pipe
<1>2. QED
  BY <1>1, ResponseSteps, PipeProduce, PipePush, PipeOnWrite DEF Pipe!Next

(* The session implements the abstract pipe of responses: the peer is given *)
(* the responses in the order of their production, each once, and none     *)
(* after the pipe broke, whatever the limit and the usage that does not    *)
(* mix pushes with sends.                                                  *)
THEOREM SessionImplementsPipe ==
  ASSUME PushesOrQueues
  PROVE  Spec => ImplementsPipe
<1>1. Init => WriterInv /\ PipeInv /\ Pipe!Init
  BY WriterInvInit, PipeInvInit DEF Init, Pipe!Init
<1>2. WriterInv /\ PipeInv /\ [Next]_vars
        => (WriterInv /\ PipeInv)' /\ [Pipe!Next]_(Pipe!pipe)
  BY WriterInvNext, PipeInvNext, PipeStep
<1>3. QED
  BY <1>1, <1>2, PTL DEF Spec, ImplementsPipe, Pipe!Spec

(* The response serializer_ holds is the one being written, as long as     *)
(* pushes and sends are not mixed.                                         *)
THEOREM SerializerOwnedHolds == Spec => []SerializerOwned
<1>1. Init => WriterInv /\ PipeInv
  BY WriterInvInit, PipeInvInit
<1>2. WriterInv /\ PipeInv /\ [Next]_vars => (WriterInv /\ PipeInv)'
  BY WriterInvNext, PipeInvNext
<1>3. PipeInv => SerializerOwned
  BY DEF PipeInv, SerializerOwned
<1>4. QED
  BY <1>1, <1>2, <1>3, PTL DEF Spec

(***************************************************************************)
(* The order of the requests.  On the strand, user code acts for the       *)
(* request dispatched last, so responses are produced in request order; by *)
(* PipeInv the peer is given a beginning of what was produced.             *)
(***************************************************************************)

produced_on_strand ==
  PushesOrQueues /\ {"send", "push"} \cap Calls["detached"] = {}

OrderInv ==
  produced_on_strand =>
    /\ phase = "unborn" => sent = <<>>
    /\ \A i \in 1 .. Len(sent) : sent[i].req <= served
    /\ \A i, j \in 1 .. Len(sent) : i <= j => sent[i].req <= sent[j].req

LEMMA OrderInvInit == Init => OrderInv
BY DEF Init, OrderInv

(* A response for the request dispatched last. *)
LEMMA OrderInvProduce ==
  ASSUME WriterInv, OrderInv, NEW r \in Response, r.req = served,
         sent' = Append(sent, r), served' = served, phase' # "unborn"
  PROVE  OrderInv'
<1> SUFFICES ASSUME produced_on_strand
             PROVE  OrderInv'
  BY DEF OrderInv, produced_on_strand, PushesOrQueues
<1>0. sent \in Seq(Response) /\ served \in Nat /\ Len(sent) \in Nat
  BY DEF WriterInv, TypeOK
<1>1. /\ Len(sent') = Len(sent) + 1 /\ sent'[Len(sent) + 1] = r
      /\ \A i \in 1 .. Len(sent) : sent'[i] = sent[i]
  BY <1>0, AppendProperties
<1>2. \A i \in 1 .. Len(sent') : sent'[i].req <= served
  BY <1>0, <1>1 DEF OrderInv
<1>3. ASSUME NEW i \in 1 .. Len(sent'), NEW j \in 1 .. Len(sent'), i <= j
      PROVE  sent'[i].req <= sent'[j].req
  <2>1. CASE j = Len(sent) + 1
    BY <1>1, <1>2, <2>1
  <2>2. CASE j \in 1 .. Len(sent)
    <3>1. i \in 1 .. Len(sent)
      BY <1>0, <1>1, <1>3, <2>2
    <3>2. QED
      BY <1>1, <1>3, <2>2, <3>1 DEF OrderInv
  <2>3. QED
    BY <1>0, <1>1, <2>1, <2>2
<1>4. QED
  BY <1>2, <1>3 DEF OrderInv

LEMMA OrderInvCall ==
  ASSUME WriterInv, OrderInv, NEW p \in Places, NEW c \in kept \cup {served},
         \/ \E timed, close \in BOOLEAN : context_send(p, c, timed, close)
         \/ \E delivered \in BOOLEAN : context_push(p, c, delivered)
  PROVE  OrderInv'
<1> SUFFICES ASSUME produced_on_strand
             PROVE  OrderInv'
  BY DEF OrderInv, produced_on_strand, PushesOrQueues
<1>0. TypeOK
  BY DEF WriterInv
<1>1. ASSUME NEW close \in BOOLEAN, c = served, UNCHANGED <<phase, served>>, phase = "live",
             sent' = Append(sent, [no |-> Len(sent) + 1, req |-> c, close |-> close])
      PROVE  OrderInv'
  <2> DEFINE r == [no |-> Len(sent) + 1, req |-> c, close |-> close]
  <2>1. r \in Response /\ r.req = served
    BY <1>0, <1>1, NextResponse DEF TypeOK
  <2>2. sent' = Append(sent, r)
    BY <1>1
  <2> HIDE DEF r
  <2>3. QED
    BY <1>1, <2>1, <2>2, OrderInvProduce
<1>2. ASSUME NEW timed \in BOOLEAN, NEW close \in BOOLEAN, context_send(p, c, timed, close)
      PROVE  OrderInv'
  <2>1. c = served /\ phase = "live"
    BY <1>2 DEF context_send, call_from, produced_on_strand
  <2>2. UNCHANGED <<phase, served>>
        /\ sent' = Append(sent, [no |-> Len(sent) + 1, req |-> c, close |-> close])
    BY <1>2 DEF context_send
  <2>3. QED
    BY <1>1, <2>1, <2>2
<1>3. ASSUME NEW delivered \in BOOLEAN, context_push(p, c, delivered)
      PROVE  OrderInv'
  <2>1. c = served /\ phase = "live"
    BY <1>3 DEF context_push, call_from, produced_on_strand
  <2>2. UNCHANGED <<phase, served>>
    BY <1>3 DEF context_push
  <2>3. CASE delivered
    BY <1>1, <1>3, <2>1, <2>2, <2>3 DEF context_push
  <2>4. CASE ~delivered
    BY <1>3, <2>1, <2>2, <2>4 DEF context_push, OrderInv
  <2>5. QED
    BY <2>3, <2>4
<1>4. QED
  BY <1>2, <1>3

LEMMA OrderInvLaunch ==
  ASSUME WriterInv, OrderInv, launch
  PROVE  OrderInv'
<1> SUFFICES ASSUME produced_on_strand
             PROVE  OrderInv'
  BY DEF OrderInv, produced_on_strand, PushesOrQueues
<1>0. TypeOK
  BY DEF WriterInv
<1>1. phase = "unborn" /\ phase' = "live" /\ served' = served /\ sent = <<>>
  BY DEF launch, session_make, session_recv, session_recv_timed, session_send,
         session_send_timed, session_wait, session_wait_timed, born, OrderInv
<1>2. ASSUME NEW close \in BOOLEAN, sent' = Append(sent, first_response(close))
      PROVE  OrderInv'
  <2>1. first_response(close) = [no |-> 1, req |-> 0, close |-> close]
    BY <1>1 DEF first_response
  <2>2. sent' = <<first_response(close)>>
    BY <1>1, <1>2
  <2>3. Len(sent') = 1 /\ sent'[1].req = 0 /\ served' \in Nat
    BY <1>0, <1>1, <2>1, <2>2 DEF TypeOK
  <2>4. \A i \in 1 .. Len(sent') : i = 1
    BY <2>3
  <2>5. QED
    BY <1>1, <2>3, <2>4 DEF OrderInv
<1>3. CASE sent' = sent
  BY <1>1, <1>3 DEF OrderInv
<1>4. QED
  BY <1>2, <1>3 DEF launch, session_make, session_recv, session_recv_timed, session_send,
         session_send_timed, session_wait, session_wait_timed

LEMMA OrderInvNext ==
  ASSUME WriterInv, OrderInv, [Next]_vars
  PROVE  OrderInv'
<1>0. sent \in Seq(Response) /\ served \in Nat
  BY DEF WriterInv, TypeOK
<1>1. ASSUME sent' = sent, served' \in {served, served + 1},
             phase' = phase \/ phase' = "released"
      PROVE  OrderInv'
  <2>1. ASSUME NEW i \in 1 .. Len(sent)
        PROVE  sent[i].req \in Nat
    <3>1. sent[i] \in Response
      BY <1>0
    <3>2. QED
      BY <3>1 DEF Response
  <2>2. \A i \in 1 .. Len(sent) : sent[i].req <= served => sent[i].req <= served'
    BY <1>0, <1>1, <2>1
  <2>3. phase' = "unborn" => phase = "unborn"
    BY <1>1
  <2>4. produced_on_strand' <=> produced_on_strand
    BY DEF produced_on_strand, PushesOrQueues
  <2>5. QED
    BY <1>1, <2>2, <2>3, <2>4 DEF OrderInv
<1>2. CASE context_call
  <2>1. ASSUME NEW p \in Places, NEW c \in kept \cup {served},
               \/ \E timed \in BOOLEAN : context_recv(p, c, timed)
               \/ context_wait(p, c) \/ context_hold(p, c) \/ context_timer_cancel(p, c)
               \/ context_eof(p, c) \/ context_cls(p, c)
        PROVE  sent' = sent /\ served' = served /\ phase' = phase
    BY <2>1 DEF context_recv, context_wait, context_hold, context_timer_cancel,
                context_eof, context_cls, unchanged_by_timer_call, unchanged_by_close
  <2>2. QED
    BY <1>1, <1>2, <2>1, OrderInvCall DEF context_call
<1>3. CASE ownership \/ elapse \/ finished \/ UNCHANGED vars
  BY <1>1, <1>3 DEF ownership, context_keep, context_drop, destroy, elapse, finished, vars,
                    user_vars
<1>4. CASE on_read
  BY <1>1, <1>4 DEF on_read, on_read_request, do_process_request_resume, resume_if,
                    on_read_end_of_stream, stream_ended, on_read_error
<1>5. CASE on_write
  BY <1>1, <1>5 DEF on_write, on_write_error, on_write_close, last_written, on_write_next,
                    advance_queue
<1>6. CASE on_timer
  BY <1>1, <1>6 DEF on_timer, on_timer_callback, fire_callback, on_timer_timeout,
                    on_timer_ignored, on_timer_return
<1>7. QED
  BY <1>2, <1>3, <1>4, <1>5, <1>6, OrderInvLaunch DEF Next

(* Pipelined requests are answered in their order when the responses are   *)
(* produced on the strand, however many routes match and whatever on_timer *)
(* sends in between.                                                       *)
THEOREM InRequestOrderHolds == Spec => []InRequestOrder
<1>1. Init => WriterInv /\ PipeInv /\ OrderInv
  BY WriterInvInit, PipeInvInit, OrderInvInit
<1>2. WriterInv /\ PipeInv /\ OrderInv /\ [Next]_vars => (WriterInv /\ PipeInv /\ OrderInv)'
  BY WriterInvNext, PipeInvNext, OrderInvNext
<1>3. WriterInv /\ PipeInv /\ OrderInv => InRequestOrder
  <2> SUFFICES ASSUME WriterInv, PipeInv, OrderInv, produced_on_strand,
                      NEW i \in 1 .. Len(wire), NEW j \in 1 .. Len(wire), i <= j
               PROVE  wire[i].req <= wire[j].req
    BY DEF InRequestOrder, produced_on_strand
  <2>1. Len(wire) \in Nat /\ Len(sent) \in Nat
    BY DEF WriterInv, TypeOK
  <2>2. Len(wire) <= Len(sent) /\ wire[i] = sent[i] /\ wire[j] = sent[j]
    BY DEF PipeInv, produced_on_strand
  <2>3. i \in 1 .. Len(sent) /\ j \in 1 .. Len(sent)
    BY <2>1, <2>2
  <2>4. QED
    BY <2>2, <2>3 DEF OrderInv
<1>4. QED
  BY <1>1, <1>2, <1>3, PTL DEF Spec

=============================================================================
