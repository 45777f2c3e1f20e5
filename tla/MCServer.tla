------------------------------ MODULE MCServer ------------------------------
(* Instances of Server for TLC.                                            *)
EXTENDS Server

CONSTANTS c1, c2

(* A TLS client, one whose client_hello does not fit, and a plain one. *)
SomeClients ==
  {<<22, 3, 1, 0, 34, 1, 0, 0, 30>>, <<22, 3, 1, 0, 34, 1, 0, 0, 31>>, <<71, 69>>}
=============================================================================
