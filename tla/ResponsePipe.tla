---------------------------- MODULE ResponsePipe ----------------------------
(***************************************************************************)
(* What a session promises about the responses of one connection: they     *)
(* reach the peer one at a time, whole, each once, in the order in which   *)
(* user code produced them, until the pipe breaks (a failed write, or a    *)
(* response that ends the connection); after that none does, although user *)
(* code may go on producing them.                                          *)
(***************************************************************************)
EXTENDS Naturals, Sequences

VARIABLES
  sent,   \* the responses produced, in order
  wire,   \* the responses the peer was given, in order
  broken  \* nothing more will be given

pipe == <<sent, wire, broken>>

Init == wire = <<>> /\ broken = FALSE /\ sent = <<>>

(* One more response than before, after the others. *)
OneMore == Len(sent') = Len(sent) + 1 /\ SubSeq(sent', 1, Len(sent)) = sent

Produce == OneMore /\ UNCHANGED <<wire, broken>>

(* The oldest response that was not given yet; it may be the last. *)
Deliver ==
  /\ ~broken /\ Len(wire) < Len(sent)
  /\ wire' = Append(wire, sent[Len(wire) + 1])
  /\ broken' = wire'[Len(wire')].close
  /\ UNCHANGED sent

(* A response given as it is produced, while none is waiting. *)
Push ==
  /\ ~broken /\ wire = sent
  /\ OneMore
  /\ wire' = sent' /\ UNCHANGED broken

Break ==
  /\ broken' = TRUE /\ UNCHANGED <<sent, wire>>

Next == Produce \/ Deliver \/ Push \/ Break

Spec == Init /\ [][Next]_pipe

=============================================================================
