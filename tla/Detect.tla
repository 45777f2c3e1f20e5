------------------------------- MODULE Detect -------------------------------
(***************************************************************************)
(* Protocol detection: each accepted connection is read until its first    *)
(* bytes tell whether a TLS client_hello begins there.  The detector owns  *)
(* the socket and the buffer and runs on a strand of its own, so each of   *)
(* its handlers is one action; the client sends and closes as it likes.    *)
(*                                                                         *)
(* The buffer always holds a prefix of what the client sends: the model    *)
(* keeps its length.  The forms of async() with a deadline are left out:   *)
(* they bind the address of an overloaded do_async_2, which no compiler    *)
(* accepts, so nothing ever waits on the detector's timer.                 *)
(***************************************************************************)
EXTENDS Endpoints, Naturals, Sequences

CONSTANTS
  Clients,     \* what clients may send: sequences of bytes
  Cuts,        \* bound: where what arrives, or what a read takes, may end
  indeterminate

ASSUME ClientsAssumption == Clients \subseteq Seq(0 .. 255)
ASSUME CutsAssumption == Cuts \subseteq Nat
ASSUME NoneAssumption ==
  /\ none \notin {"eof", "reset"} /\ none \notin BOOLEAN
  /\ indeterminate \notin BOOLEAN

VARIABLES
  bytes,      \* what the client of a connection sends in all
  sent,       \* how many of them have arrived
  ended,      \* "eof": the client has closed; "reset"; or none
  consumed,   \* how many were read from the socket
  buffer,     \* how many are in the detector's buffer
  detecting,  \* where its detection is: "no", "reading", "over",
              \* or in detect_ssl: "test", "read_some", "returned",
              \* "aborted" if an assertion has ended the program
  result,     \* the result it ended with, or none
  error       \* the error it ended with, or none

client_vars == <<bytes, sent, ended>>
detect_vars == <<consumed, buffer, detecting, result, error>>
vars == <<client_vars, detect_vars>>
-----------------------------------------------------------------------------
(* The length of a record, and of the handshake message in it.              *)
length(s) == s[4] * 256 + s[5]
size(s) == s[7] * 65536 + s[8] * 256 + s[9]

(* Mutant: the header of the handshake is not counted.                      *)
is_tls_client_hello_unsized(s, n) ==
  IF n < 1 THEN indeterminate
  ELSE IF s[1] # 22 THEN FALSE
  ELSE IF n < 5 THEN indeterminate
  ELSE IF length(s) < 34 THEN FALSE
  ELSE IF n < 6 THEN indeterminate
  ELSE IF s[6] # 1 THEN FALSE
  ELSE IF n < 9 THEN indeterminate
  ELSE size(s) <= length(s)

(* What the first n bytes of a sequence say: TRUE, FALSE or indeterminate.  *)
is_tls_client_hello(s, n) ==
  IF n < 1 THEN indeterminate
  ELSE IF s[1] # 22 THEN FALSE
  ELSE IF n < 5 THEN indeterminate
  ELSE IF length(s) < 34 THEN FALSE
  ELSE IF n < 6 THEN indeterminate
  ELSE IF s[6] # 1 THEN FALSE
  ELSE IF n < 9 THEN indeterminate
  ELSE size(s) + 4 <= length(s)

Determined(c, n) == is_tls_client_hello(bytes[c], n) # indeterminate
-----------------------------------------------------------------------------
(* The client. *)
client_send(c) ==
  /\ ended[c] = none /\ sent[c] < Len(bytes[c])
  /\ \E n \in Cuts \cup {Len(bytes[c])} :
       n \in sent[c] + 1 .. Len(bytes[c]) /\ sent' = [sent EXCEPT ![c] = n]
  /\ UNCHANGED <<bytes, ended, detect_vars>>

client_end(c, how) ==
  /\ ended[c] = none
  /\ ended' = [ended EXCEPT ![c] = how]
  /\ UNCHANGED <<bytes, sent, detect_vars>>

(* A read takes some of what has arrived, and fails when nothing is left of *)
(* what a client sent that has closed, or any time after a reset.          *)
reads(c, n) ==
  /\ n \in 1 .. sent[c] - consumed[c] /\ ended[c] # "reset"
  /\ consumed[c] + n \in Cuts \cup {sent[c]}
read_fails(c) ==
  \/ ended[c] = "reset"
  \/ ended[c] = "eof" /\ consumed[c] = sent[c]

(* Mutant: each read is committed twice.                                      *)
commit_twice(c, n) ==
  /\ consumed' = [consumed EXCEPT ![c] = @ + n]
  /\ buffer' = [buffer EXCEPT ![c] = @ + 2 * n]

(* buffer_.commit. *)
commit(c, n) ==
  /\ consumed' = [consumed EXCEPT ![c] = @ + n]
  /\ buffer' = [buffer EXCEPT ![c] = @ + n]
-----------------------------------------------------------------------------
(* detect::async begins with an empty buffer, which decides nothing. *)
do_async(c) ==
  /\ detecting[c] = "no" /\ buffer[c] = 0
  /\ detecting' = [detecting EXCEPT ![c] = "reading"]
  /\ UNCHANGED <<client_vars, consumed, buffer, result, error>>

(* Mutant: the operation completes only with a read that settles it.        *)
read_on_forever(c, n) ==
  /\ detecting[c] = "reading" /\ reads(c, n)
  /\ commit(c, n)
  /\ UNCHANGED <<client_vars, detecting, result, error>>

(* detect_ssl_op after a read that does not settle it: another one. *)
read_on(c, n) ==
  /\ detecting[c] = "reading" /\ reads(c, n)
  /\ ~Determined(c, buffer[c] + n)
  /\ commit(c, n)
  /\ UNCHANGED <<client_vars, detecting, result, error>>

(* Mutant: the end of the stream is not told from no data.                  *)
detect_error_reset_only(c) ==
  /\ detecting[c] = "reading" /\ read_fails(c) /\ ended[c] = "reset"
  /\ detecting' = [detecting EXCEPT ![c] = "over"]
  /\ error' = [error EXCEPT ![c] = ended[c]]
  /\ UNCHANGED <<client_vars, consumed, buffer, result>>

(* The detection ends in the second half of do_async: with an error, ...    *)
detect_error(c) ==
  /\ detecting[c] = "reading" /\ read_fails(c)
  /\ detecting' = [detecting EXCEPT ![c] = "over"]
  /\ error' = [error EXCEPT ![c] = ended[c]]
  /\ UNCHANGED <<client_vars, consumed, buffer, result>>

(* ... or with a result, which on_detect gets with the socket and buffer.   *)
detect_result(c) ==
  /\ detecting[c] = "reading"
  /\ \E n \in 1 .. Len(bytes[c]) :
       reads(c, n) /\ Determined(c, buffer[c] + n) /\ commit(c, n)
  /\ detecting' = [detecting EXCEPT ![c] = "over"]
  /\ result' = [result EXCEPT ![c] = is_tls_client_hello(bytes[c], buffer'[c])]
  /\ UNCHANGED <<client_vars, error>>
-----------------------------------------------------------------------------
(* detect::sync: detect_ssl, which tests, asserts and reads in a loop.  The *)
(* assertion that fails ends the program, and with it every detection, or  *)
(* is compiled out: a program of either build takes one of the two steps.  *)
sync(c) ==
  /\ detecting[c] = "no"
  /\ detecting' = [detecting EXCEPT ![c] = "test"]
  /\ UNCHANGED <<client_vars, consumed, buffer, result, error>>

(* Mutant: a verdict that it is none is taken for no verdict.               *)
sync_test_true_only(c) ==
  /\ detecting[c] = "test"
  /\ IF is_tls_client_hello(bytes[c], buffer[c]) = TRUE
     THEN /\ detecting' = [detecting EXCEPT ![c] = "returned"]
          /\ result' = [result EXCEPT ![c] = TRUE]
     ELSE /\ detecting' = [detecting EXCEPT ![c] = "read_some"]
          /\ UNCHANGED result
  /\ UNCHANGED <<client_vars, consumed, buffer, error>>

sync_test(c) ==
  /\ detecting[c] = "test"
  /\ IF Determined(c, buffer[c])
     THEN /\ detecting' = [detecting EXCEPT ![c] = "returned"]
          /\ result' = [result EXCEPT ![c] = is_tls_client_hello(bytes[c], buffer[c])]
     ELSE /\ detecting' = [detecting EXCEPT ![c] = "read_some"]
          /\ UNCHANGED result
  /\ UNCHANGED <<client_vars, consumed, buffer, error>>

sync_read(c) ==
  /\ detecting[c] = "read_some"
  /\ \/ /\ \E n \in 1 .. Len(bytes[c]) : reads(c, n) /\ commit(c, n)
        /\ detecting' = [detecting EXCEPT ![c] = "test"]
        /\ UNCHANGED <<error, result>>
     \/ /\ read_fails(c)
        /\ detecting' = [detecting EXCEPT ![c] = "returned"]
        /\ error' = [error EXCEPT ![c] = ended[c]]
        /\ result' = [result EXCEPT ![c] = FALSE]
        /\ UNCHANGED <<consumed, buffer>>
     \/ /\ ~(buffer[c] < 4)
        /\ detecting' = [d \in Connections |-> "aborted"]
        /\ UNCHANGED <<consumed, buffer, error, result>>
  /\ UNCHANGED client_vars
-----------------------------------------------------------------------------
(* sync() may be given a buffer with bytes read before. *)
DetectInit ==
  /\ bytes \in [Connections -> Clients]
  /\ ended = [c \in Connections |-> none]
  /\ buffer \in [Connections -> 0 .. 9] /\ \A c \in Connections : buffer[c] <= Len(bytes[c])
  /\ sent = buffer /\ consumed = buffer
  /\ detecting = [c \in Connections |-> "no"]
  /\ result = [c \in Connections |-> none]
  /\ error = [c \in Connections |-> none]

client(c) == client_send(c) \/ \E how \in {"eof", "reset"} : client_end(c, how)

detect_step(c) ==
  \/ \E n \in 1 .. Len(bytes[c]) : read_on(c, n)
  \/ detect_error(c) \/ detect_result(c)

Next ==
  \E c \in Connections :
    \/ client(c) \/ do_async(c) \/ detect_step(c)
    \/ sync(c) \/ sync_test(c) \/ sync_read(c)

Spec == DetectInit /\ [][Next]_vars

(* A thread that runs the io_context takes up what has completed. *)
FairSpec ==
  Spec /\ \A c \in Connections :
            WF_vars(detect_step(c)) /\ WF_vars(sync_test(c)) /\ WF_vars(sync_read(c))
-----------------------------------------------------------------------------
(* Types: the buffer never holds more than was read from the socket, nor is *)
(* more read than has arrived.                                             *)
DetectTypeOK ==
  /\ bytes \in [Connections -> Clients]
  /\ ended \in [Connections -> {none, "eof", "reset"}]
  /\ detecting \in [Connections -> {"no", "reading", "over",
                                    "test", "read_some", "returned", "aborted"}]
  /\ result \in [Connections -> {none} \cup BOOLEAN]
  /\ error \in [Connections -> {none, "eof", "reset"}]
  /\ {sent, consumed, buffer} \subseteq [Connections -> Nat]
  /\ \A c \in Connections :
       buffer[c] <= consumed[c] /\ consumed[c] <= sent[c] /\ sent[c] <= Len(bytes[c])

Over(c) == detecting[c] \in {"over", "returned"}

(* What the whole record says: a handshake record, with room for a          *)
(* client_hello, that begins with one which fits into it.                  *)
IsClientHello(s) ==
  /\ Len(s) >= 9
  /\ s[1] = 22 /\ length(s) >= 34 /\ s[6] = 1
  /\ size(s) + 4 <= length(s)

(* However the bytes are cut into reads, a detection ends with the answer   *)
(* that all of them would give: what decides it early never decides it      *)
(* differently.                                                            *)
VerdictIsRight ==
  \A c \in Connections :
    Over(c) /\ error[c] = none => result[c] = IsClientHello(bytes[c])

(* Bytes are read from a client only while those before are undecided, and  *)
(* a client that ends before it sent what decides is an error, never a      *)
(* guess; what a detection read is all in the buffer it hands on.          *)
ReadsNoMore ==
  \A c \in Connections :
    /\ detecting[c] \in {"reading", "read_some"} => ~Determined(c, consumed[c])
    /\ error[c] # none => ~Determined(c, consumed[c])
    /\ Over(c) => buffer[c] = consumed[c]

(* A detection that began ends, if its client sends a whole record header   *)
(* or ends; a client that does neither is waited for.  (Unless the program *)
(* is ended before: OnlyCutHelloAborts.)                                   *)
DetectionEnds ==
  \A c \in Connections :
    detecting[c] # "no" /\ (ended[c] # none \/ sent[c] >= 9)
      ~> Over(c) \/ detecting[c] = "aborted"

(* An assertion ends the program only while a blocking detection has read   *)
(* the beginning of a client_hello, four bytes or more but not the nine     *)
(* that decide: never on account of a client that speaks anything else.     *)
(* ("The algorithm should never need more than 4 bytes", says the comment   *)
(* on the assertion; a client_hello cut there needs them.)                  *)
CutHello(s, n) ==
  /\ n \in 4 .. 8 /\ s[1] = 22
  /\ n >= 5 => length(s) >= 34
  /\ n >= 6 => s[6] = 1
OnlyCutHelloAborts ==
  \A c \in Connections : detecting[c] = "aborted" =>
    \E d \in Connections : CutHello(bytes[d], buffer[d])
=============================================================================
