----------------------------- MODULE Endpoints -----------------------------
(* The connections that the listener, the detections and the sessions of a  *)
(* server have in common, and what stands for the absence of one.           *)
CONSTANTS Connections, none

ASSUME AbsenceAssumption == none \notin Connections
=============================================================================
