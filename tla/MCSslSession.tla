---------------------------- MODULE MCSslSession ----------------------------
(* Instances of SslSession for TLC: what the user code of each run calls.  *)
EXTENDS SslSession

NoCalls == {}

(* on_handshake starts reading and may push a first event; routes answer,   *)
(* set a deadline or close for good.                                       *)
PipelineCalls ==
  [p \in Places |->
    CASE p = "handshake" -> {"recv", "push"}
      [] p = "request"   -> {"send", "wait", "force_cls"}
      [] OTHER           -> NoCalls]

(* Contexts are kept and used from another thread, even before the handshake *)
(* is over; the connection is ended and held open in every way there is.    *)
BusyCalls ==
  [p \in Places |->
    CASE p = "handshake" -> {"recv"}
      [] p = "request"   -> {"send", "keep", "hold"}
      [] p = "timer"     -> {"send", "force_eof", "force_cls"}
      [] p = "detached"  -> {"send", "eof", "timer_cancel"}]
=============================================================================
