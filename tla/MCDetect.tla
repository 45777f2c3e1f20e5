------------------------------ MODULE MCDetect -----------------------------
(* Instances of Detect for TLC.                                            *)
EXTENDS Detect

CONSTANT conn

(* Record headers on both sides of every test, cut short and not, with one *)
(* byte of what follows; and a request that is no TLS.                     *)
Headers ==
  {<<22, 3, 1, hi, lo, type, s1, s2, s3, 3>> :
     hi \in {0, 1}, lo \in {33, 34, 255}, type \in {1, 2}, s1 \in {0, 1},
     s2 \in {0, 1}, s3 \in {29, 30, 31, 251}}
SomeClients ==
  {SubSeq(h, 1, n) : h \in Headers, n \in {8, 10}}
  \cup {<<22>>, <<22, 3, 1, 0>>, <<22, 3, 1, 0, 34>>, <<71, 69, 84, 32>>}
=============================================================================
