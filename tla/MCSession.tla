----------------------------- MODULE MCSession -----------------------------
(* Instances of Session for TLC: what the user code of each run calls.     *)
EXTENDS Session

NoCalls == {}

(* Routes answer, half-close or close (examples/reactor), and set deadlines *)
(* (examples/reactor_timers without on_timer).                              *)
PipelineCalls ==
  [p \in Places |-> IF p = "request" THEN {"send", "eof", "cls", "wait"} ELSE NoCalls]

(* Routes answer, twice where two routes match; on_timer answers, waits again *)
(* half-closes (examples/reactor_timers) or closes the connection.         *)
CallbackCalls ==
  [p \in Places |->
    CASE p = "request"  -> {"send", "wait"}
      [] p = "timer"    -> {"send", "wait", "eof", "cls"}
      [] OTHER          -> NoCalls]

(* A stream of events that another thread starts, pushes to and closes: the *)
(* route keeps its context and waits, with a deadline or without, on_timer   *)
(* pushes, waits again or closes, and the waits are cancelled at any time.   *)
EventCalls ==
  [p \in Places |->
    CASE p = "request"  -> {"wait", "hold", "keep"}
      [] p = "timer"    -> {"push", "wait", "eof", "cls"}
      [] p = "detached" -> {"recv", "push", "hold", "timer_cancel", "cls"}
      [] OTHER          -> NoCalls]
=============================================================================
