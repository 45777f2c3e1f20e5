---------------------------- MODULE DetectProofs ----------------------------
(***************************************************************************)
(* Detection is right for every client, however its bytes are cut into     *)
(* reads: proofs of the invariants of Detect.                              *)
(*                                                                         *)
(* The inductive invariant says, of each connection, that what was read is *)
(* all in the buffer, that a detection that goes on is undecided, and that *)
(* one that ended with no error was decided by what is in its buffer.      *)
(***************************************************************************)
EXTENDS Detect, SequenceTheorems, TLAPS

Undecided(c) == ~Determined(c, consumed[c])

Kept(c) == buffer[c] = consumed[c]
GoesOn(c) == detecting[c] \in {"reading", "read_some"} => Undecided(c)
Failed(c) ==
  error[c] # none => (Over(c) \/ detecting[c] = "aborted") /\ Undecided(c)
Decided(c) ==
  Over(c) /\ error[c] = none =>
    Determined(c, buffer[c]) /\ result[c] = is_tls_client_hello(bytes[c], buffer[c])

Sound(c) == Kept(c) /\ GoesOn(c) /\ Failed(c) /\ Decided(c)
IInv == DetectTypeOK /\ \A c \in Connections : Sound(c)
-----------------------------------------------------------------------------
(* What decides early decides as the whole record does. *)
LEMMA EarlyVerdict ==
  ASSUME NEW s \in Seq(0 .. 255), NEW n \in 0 .. Len(s),
         is_tls_client_hello(s, n) # indeterminate
  PROVE  is_tls_client_hello(s, n) = IsClientHello(s)
<1>1. Len(s) \in Nat /\ n \in Nat /\ n <= Len(s)
  OBVIOUS
<1>2. /\ Len(s) >= 5 => length(s) \in Nat
      /\ Len(s) >= 9 => size(s) \in Nat
  <2>1. ASSUME NEW i \in 1 .. Len(s) PROVE s[i] \in Nat
    <3>1. s[i] \in 0 .. 255
      BY ElementOfSeq
    <3>2. \A x \in 0 .. 255 : x \in Nat
      OBVIOUS
    <3> QED  BY Zenon, <3>1, <3>2
  <2>2. Len(s) >= 5 => s[4] \in Nat /\ s[5] \in Nat
    BY <1>1, <2>1
  <2>3. Len(s) >= 9 => s[7] \in Nat /\ s[8] \in Nat /\ s[9] \in Nat
    BY <1>1, <2>1
  <2>4. Len(s) >= 5 => length(s) \in Nat
    BY <2>2 DEF length
  <2>5. Len(s) >= 9 => size(s) \in Nat
    BY <2>3 DEF size
  <2> QED  BY <2>4, <2>5
<1>3. IsClientHello(s) \in BOOLEAN
  BY DEF IsClientHello
<1>4. n >= 1
  <2> ~(n < 1)
    BY Zenon DEF is_tls_client_hello
  <2> QED  BY <1>1
<1>5. CASE s[1] # 22
  <2>1. is_tls_client_hello(s, n) = FALSE
    BY <1>1, <1>4, <1>5 DEF is_tls_client_hello
  <2>2. ~IsClientHello(s)
    BY <1>5 DEF IsClientHello
  <2> QED  BY <1>3, <2>1, <2>2
<1>6. CASE s[1] = 22
  <2>1. n >= 5
    <3> ~(n < 5)
      BY Zenon, <1>6 DEF is_tls_client_hello
    <3> QED  BY <1>1
  <2>2. CASE length(s) < 34
    <3>1. is_tls_client_hello(s, n) = FALSE
      BY <1>1, <1>4, <1>6, <2>1, <2>2 DEF is_tls_client_hello
    <3>2. ~IsClientHello(s)
      BY <1>1, <1>2, <2>1, <2>2 DEF IsClientHello
    <3> QED  BY <1>3, <3>1, <3>2
  <2>3. CASE length(s) >= 34
    <3>0. ~(length(s) < 34)
      BY <1>1, <1>2, <2>1, <2>3
    <3>1. n >= 6
      <4> ~(n < 6)
        BY Zenon, <1>6, <3>0 DEF is_tls_client_hello
      <4> QED  BY <1>1
    <3>2. CASE s[6] # 1
      <4>1. is_tls_client_hello(s, n) = FALSE
        BY <1>1, <1>4, <1>6, <2>1, <3>0, <3>1, <3>2 DEF is_tls_client_hello
      <4>2. ~IsClientHello(s)
        BY <3>2 DEF IsClientHello
      <4> QED  BY <1>3, <4>1, <4>2
    <3>3. CASE s[6] = 1
      <4>1. n >= 9
        <5> ~(n < 9)
          BY Zenon, <1>6, <3>0, <3>3 DEF is_tls_client_hello
        <5> QED  BY <1>1
      <4>2. ~(n < 1) /\ ~(n < 5) /\ ~(n < 6) /\ ~(n < 9) /\ Len(s) >= 9
        BY <1>1, <4>1
      <4>3. IsClientHello(s) <=> size(s) + 4 <= length(s)
        BY <1>6, <2>3, <3>3, <4>2 DEF IsClientHello
      <4>4. CASE size(s) + 4 <= length(s)
        <5>1. is_tls_client_hello(s, n) = TRUE
          BY <1>6, <3>0, <3>3, <4>2, <4>4 DEF is_tls_client_hello
        <5> QED  BY Zenon, <1>3, <4>3, <4>4, <5>1
      <4>5. CASE ~(size(s) + 4 <= length(s))
        <5>1. is_tls_client_hello(s, n) = FALSE
          BY <1>6, <3>0, <3>3, <4>2, <4>5 DEF is_tls_client_hello
        <5> QED  BY Zenon, <1>3, <4>3, <4>5, <5>1
      <4> QED  BY <4>4, <4>5
    <3> QED  BY <3>2, <3>3
  <2> QED  BY <1>1, <1>2, <2>1, <2>2, <2>3
<1> QED  BY <1>5, <1>6

(* An empty buffer decides nothing, and a verdict is a truth value. *)
LEMMA Verdicts ==
  ASSUME NEW s \in Seq(0 .. 255)
  PROVE  /\ is_tls_client_hello(s, 0) = indeterminate
         /\ \A n \in 0 .. Len(s) : is_tls_client_hello(s, n) # indeterminate
                                     => is_tls_client_hello(s, n) \in BOOLEAN
<1>1. is_tls_client_hello(s, 0) = indeterminate
  BY DEF is_tls_client_hello
<1>2. IsClientHello(s) \in BOOLEAN
  BY DEF IsClientHello
<1> QED  BY <1>1, <1>2, EarlyVerdict
-----------------------------------------------------------------------------
(* What no action changes of a connection it is not about. *)
Untouched(d) ==
  /\ bytes'[d] = bytes[d] /\ consumed'[d] = consumed[d] /\ buffer'[d] = buffer[d]
  /\ detecting'[d] = detecting[d] /\ result'[d] = result[d] /\ error'[d] = error[d]

(* What holds of a detection stands if the step is not about it. *)
LEMMA SoundAside ==
  ASSUME NEW d \in Connections, Sound(d), Untouched(d)
  PROVE  Sound(d)'
BY DEF Sound, Kept, GoesOn, Failed, Decided, Undecided, Determined, Over, Untouched

(* The bytes of a client, how many they are, and how many were read. *)
LEMMA Lengths ==
  ASSUME DetectTypeOK, NEW c \in Connections
  PROVE  /\ bytes[c] \in Seq(0 .. 255) /\ Len(bytes[c]) \in Nat
         /\ buffer[c] \in 0 .. Len(bytes[c])
<1>1. bytes[c] \in Seq(0 .. 255)
  BY ClientsAssumption DEF DetectTypeOK
<1>2. Len(bytes[c]) \in Nat
  BY <1>1
<1>3. {buffer[c], consumed[c], sent[c]} \subseteq Nat
  BY DEF DetectTypeOK
<1> QED  BY <1>1, <1>2, <1>3 DEF DetectTypeOK

(* The invariant holds before any detection. *)
LEMMA IInvInit == DetectInit => IInv
<1> SUFFICES ASSUME DetectInit PROVE IInv
  OBVIOUS
<1>1. DetectTypeOK
  <2>1. ASSUME NEW c \in Connections
        PROVE  /\ buffer[c] \in Nat /\ consumed[c] = buffer[c] /\ sent[c] = buffer[c]
               /\ Len(bytes[c]) \in Nat /\ sent[c] <= Len(bytes[c])
    <3>1. bytes[c] \in Seq(0 .. 255)
      BY ClientsAssumption DEF DetectInit
    <3>2. /\ buffer[c] \in Nat /\ consumed[c] = buffer[c] /\ sent[c] = buffer[c]
          /\ buffer[c] <= Len(bytes[c])
      BY DEF DetectInit
    <3>3. Len(bytes[c]) \in Nat
      BY <3>1
    <3> QED  BY <3>2, <3>3
  <2>2. {sent, consumed, buffer} \subseteq [Connections -> Nat]
    <3>1. buffer \in [Connections -> Nat]
      <4>1. 0 .. 9 \subseteq Nat /\ buffer \in [Connections -> 0 .. 9]
        BY DEF DetectInit
      <4> QED  BY Zenon, <4>1
    <3>2. sent = buffer /\ consumed = buffer
      BY DEF DetectInit
    <3> QED  BY Zenon, <3>1, <3>2
  <2>3. \A c \in Connections :
          buffer[c] <= consumed[c] /\ consumed[c] <= sent[c] /\ sent[c] <= Len(bytes[c])
    <3> SUFFICES ASSUME NEW c \in Connections
                 PROVE  /\ buffer[c] <= consumed[c] /\ consumed[c] <= sent[c]
                        /\ sent[c] <= Len(bytes[c])
      OBVIOUS
    <3>1. buffer[c] <= buffer[c]
      BY <2>1
    <3> QED  BY <2>1, <3>1
  <2> QED  BY <2>2, <2>3 DEF DetectInit, DetectTypeOK
<1>2. ASSUME NEW c \in Connections PROVE Sound(c)
  BY DEF DetectInit, Sound, Kept, GoesOn, Failed, Decided, Over
<1> QED  BY <1>1, <1>2 DEF IInv

(* What comes from the client changes nothing that was read. *)
LEMMA IInvClient ==
  ASSUME IInv, NEW c \in Connections, client(c)
  PROVE  IInv'
<1> USE DEF IInv
<1>1. UNCHANGED detect_vars /\ bytes' = bytes
  BY DEF client, client_send, client_end
<1>2. ASSUME NEW d \in Connections PROVE Sound(d)'
  BY <1>1, SoundAside DEF Untouched, detect_vars
<1>3. CASE client_send(c)
  <2>1. PICK n \in sent[c] + 1 .. Len(bytes[c]) : sent' = [sent EXCEPT ![c] = n]
    BY <1>3 DEF client_send
  <2>2. n \in Nat /\ n <= Len(bytes[c]) /\ consumed[c] <= n
    BY <2>1, Lengths DEF DetectTypeOK
  <2>3. UNCHANGED <<bytes, ended, detect_vars>>
    BY <1>3 DEF client_send
  <2>4. DetectTypeOK'
    BY <2>1, <2>2, <2>3 DEF DetectTypeOK, detect_vars
  <2> QED  BY <1>2, <2>4
<1>4. CASE \E how \in {"eof", "reset"} : client_end(c, how)
  <2>1. DetectTypeOK'
    BY <1>4 DEF client_end, DetectTypeOK, detect_vars
  <2> QED  BY <1>2, <2>1
<1> QED  BY <1>3, <1>4 DEF client

(* What a read adds to the buffer. *)
LEMMA Read ==
  ASSUME IInv, NEW c \in Connections, NEW n \in 1 .. Len(bytes[c]), reads(c, n), commit(c, n),
         UNCHANGED client_vars
  PROVE  /\ consumed' = [consumed EXCEPT ![c] = @ + n]
         /\ buffer' = [buffer EXCEPT ![c] = @ + n]
         /\ buffer[c] = consumed[c] /\ buffer[c] + n \in 0 .. Len(bytes[c])
         /\ \A d \in Connections :
              /\ d # c => buffer'[d] = buffer[d] /\ consumed'[d] = consumed[d]
              /\ d = c => buffer'[d] = buffer[d] + n /\ consumed'[d] = buffer[d] + n
         /\ {sent', consumed', buffer'} \subseteq [Connections -> Nat]
         /\ \A d \in Connections :
              /\ buffer'[d] <= consumed'[d] /\ consumed'[d] <= sent'[d]
              /\ sent'[d] <= Len(bytes'[d])
<1>1. /\ consumed' = [consumed EXCEPT ![c] = @ + n] /\ buffer' = [buffer EXCEPT ![c] = @ + n]
      /\ sent' = sent /\ bytes' = bytes
  BY DEF commit, client_vars
<1>2. buffer[c] = consumed[c]
  BY DEF IInv, Sound, Kept
<1>3. /\ {sent, consumed, buffer} \subseteq [Connections -> Nat] /\ Len(bytes[c]) \in Nat
      /\ n \in Nat /\ n <= sent[c] - consumed[c] /\ sent[c] <= Len(bytes[c])
  BY Lengths DEF IInv, DetectTypeOK, reads
<1>4. {sent', consumed', buffer'} \subseteq [Connections -> Nat]
  BY <1>1, <1>3
<1>5. ASSUME NEW d \in Connections
      PROVE  /\ d # c => buffer'[d] = buffer[d] /\ consumed'[d] = consumed[d]
             /\ d = c => buffer'[d] = buffer[d] + n /\ consumed'[d] = buffer[d] + n
  BY <1>1, <1>2, <1>3
<1>6. buffer[c] + n \in 0 .. Len(bytes[c]) /\ buffer[c] + n <= sent[c]
  BY <1>2, <1>3
<1>7. ASSUME NEW d \in Connections
      PROVE  /\ buffer'[d] <= consumed'[d] /\ consumed'[d] <= sent'[d]
             /\ sent'[d] <= Len(bytes'[d])
  BY <1>1, <1>3, <1>5, <1>6 DEF IInv, DetectTypeOK
<1> QED  BY <1>1, <1>2, <1>4, <1>5, <1>6, <1>7

(* A detection begins with an empty buffer. *)
LEMMA IInvBegins ==
  ASSUME IInv, NEW c \in Connections, do_async(c) \/ sync(c)
  PROVE  IInv'
<1> USE DEF IInv
<1>1. /\ detecting[c] = "no"
      /\ UNCHANGED <<client_vars, consumed, buffer, result, error>>
      /\ \E at \in {"reading", "test"} : detecting' = [detecting EXCEPT ![c] = at]
  BY DEF do_async, sync
<1>2. detecting'[c] = "reading" => ~Determined(c, consumed[c])
  <2>1. bytes[c] \in Seq(0 .. 255)
    BY ClientsAssumption DEF DetectTypeOK
  <2>2. CASE do_async(c)
    <3>1. consumed[c] = 0
      BY <2>2 DEF do_async, Sound, Kept
    <3> QED  BY <2>1, <3>1, Verdicts DEF Determined
  <2>3. CASE sync(c)
    BY <2>3 DEF sync, DetectTypeOK
  <2> QED  BY <2>2, <2>3
<1>3. DetectTypeOK'
  BY <1>1 DEF DetectTypeOK, client_vars
<1>4. ASSUME NEW d \in Connections, d # c PROVE Sound(d)'
  BY <1>1, <1>4, SoundAside DEF Untouched, client_vars, DetectTypeOK
<1>5. Sound(c)'
  BY <1>1, <1>2 DEF Sound, Kept, GoesOn, Failed, Decided, Undecided, Determined, Over,
                   client_vars, DetectTypeOK
<1> QED  BY <1>3, <1>4, <1>5

(* A read that does not settle it. *)
LEMMA IInvReadOn ==
  ASSUME IInv, NEW c \in Connections, NEW n \in 1 .. Len(bytes[c]), read_on(c, n)
  PROVE  IInv'
<1> USE DEF IInv
<1>1. /\ reads(c, n) /\ commit(c, n) /\ UNCHANGED client_vars
      /\ detecting[c] = "reading" /\ ~Determined(c, buffer[c] + n)
      /\ UNCHANGED <<detecting, result, error>>
  BY DEF read_on
<1>2. DetectTypeOK'
  BY <1>1, Read DEF DetectTypeOK, client_vars
<1>3. buffer'[c] = buffer[c] + n /\ consumed'[c] = buffer[c] + n
  BY <1>1, Read
<1>4. ASSUME NEW d \in Connections, d # c PROVE Sound(d)'
  <2>1. buffer'[d] = buffer[d] /\ consumed'[d] = consumed[d]
    BY <1>1, <1>4, Read
  <2> QED  BY <1>1, <2>1, SoundAside DEF Untouched, client_vars
<1>5. Sound(c)'
  BY <1>1, <1>3 DEF Sound, Kept, GoesOn, Failed, Decided, Undecided, Determined, Over,
                   client_vars, DetectTypeOK
<1> QED  BY <1>2, <1>4, <1>5

(* A read that fails. *)
LEMMA IInvError ==
  ASSUME IInv, NEW c \in Connections, detect_error(c)
  PROVE  IInv'
<1> USE DEF IInv
<1>1. /\ detecting[c] = "reading" /\ ended[c] # none
      /\ detecting' = [detecting EXCEPT ![c] = "over"]
      /\ error' = [error EXCEPT ![c] = ended[c]]
      /\ UNCHANGED <<client_vars, consumed, buffer, result>>
  BY NoneAssumption DEF detect_error, read_fails
<1>2. DetectTypeOK'
  BY <1>1 DEF DetectTypeOK, client_vars
<1>3. ASSUME NEW d \in Connections, d # c PROVE Sound(d)'
  BY <1>1, <1>3, SoundAside DEF Untouched, client_vars, DetectTypeOK
<1>4. Sound(c)'
  BY <1>1 DEF Sound, Kept, GoesOn, Failed, Decided, Undecided, Determined, Over,
             client_vars, DetectTypeOK
<1> QED  BY <1>2, <1>3, <1>4

(* A read that settles it. *)
LEMMA IInvResult ==
  ASSUME IInv, NEW c \in Connections, detect_result(c)
  PROVE  IInv'
<1> USE DEF IInv
<1>1. PICK n \in 1 .. Len(bytes[c]) :
        reads(c, n) /\ Determined(c, buffer[c] + n) /\ commit(c, n)
  BY DEF detect_result
<1>2. /\ detecting[c] = "reading" /\ detecting' = [detecting EXCEPT ![c] = "over"]
      /\ result' = [result EXCEPT ![c] = is_tls_client_hello(bytes[c], buffer'[c])]
      /\ UNCHANGED client_vars /\ error' = error
  BY DEF detect_result
<1>3. /\ buffer'[c] = buffer[c] + n /\ consumed'[c] = buffer[c] + n
      /\ buffer[c] + n \in 0 .. Len(bytes[c])
  BY <1>1, <1>2, Read
<1>4. is_tls_client_hello(bytes[c], buffer'[c]) \in BOOLEAN
  BY <1>1, <1>3, Lengths, Verdicts DEF Determined
<1>5. /\ {sent', consumed', buffer'} \subseteq [Connections -> Nat]
      /\ \A d \in Connections :
           buffer'[d] <= consumed'[d] /\ consumed'[d] <= sent'[d] /\ sent'[d] <= Len(bytes'[d])
  BY <1>1, <1>2, Read
<1>6. DetectTypeOK'
  BY <1>2, <1>4, <1>5 DEF DetectTypeOK, client_vars
<1>7. ASSUME NEW d \in Connections, d # c PROVE Sound(d)'
  <2>1. buffer'[d] = buffer[d] /\ consumed'[d] = consumed[d]
    BY <1>1, <1>2, <1>7, Read
  <2> QED  BY <1>2, <1>7, <2>1, SoundAside DEF Untouched, client_vars, DetectTypeOK
<1>8. Sound(c)'
  BY <1>1, <1>2, <1>3 DEF Sound, Kept, GoesOn, Failed, Decided, Undecided, Determined,
                          Over, client_vars, DetectTypeOK
<1> QED  BY <1>6, <1>7, <1>8

(* The blocking form: the test of the buffer, ... *)
LEMMA IInvSyncTest ==
  ASSUME IInv, NEW c \in Connections, sync_test(c)
  PROVE  IInv'
<1> USE DEF IInv
<1>1. detecting[c] = "test" /\ UNCHANGED <<client_vars, consumed, buffer, error>>
  BY DEF sync_test
<1>2. /\ buffer[c] = consumed[c] /\ buffer[c] \in 0 .. Len(bytes[c])
      /\ bytes[c] \in Seq(0 .. 255)
  BY Lengths DEF Sound, Kept
<1>3. CASE Determined(c, buffer[c])
  <2>1. /\ detecting' = [detecting EXCEPT ![c] = "returned"]
        /\ result' = [result EXCEPT ![c] = is_tls_client_hello(bytes[c], buffer[c])]
    BY <1>3 DEF sync_test
  <2>2. is_tls_client_hello(bytes[c], buffer[c]) \in BOOLEAN
    BY <1>2, <1>3, Verdicts DEF Determined
  <2>3. DetectTypeOK'
    BY <1>1, <2>1, <2>2 DEF DetectTypeOK, client_vars
  <2>4. ASSUME NEW d \in Connections, d # c PROVE Sound(d)'
    BY <1>1, <2>1, <2>4, SoundAside DEF Untouched, client_vars, DetectTypeOK
  <2>5. Sound(c)'
    BY <1>1, <1>2, <1>3, <2>1 DEF Sound, Kept, GoesOn, Failed, Decided, Undecided,
                                 Determined, Over, client_vars, DetectTypeOK
  <2> QED  BY <2>3, <2>4, <2>5
<1>4. CASE ~Determined(c, buffer[c])
  <2>1. detecting' = [detecting EXCEPT ![c] = "read_some"] /\ result' = result
    BY <1>4 DEF sync_test
  <2>3. DetectTypeOK'
    BY <1>1, <2>1 DEF DetectTypeOK, client_vars
  <2>4. ASSUME NEW d \in Connections, d # c PROVE Sound(d)'
    BY <1>1, <2>1, <2>4, SoundAside DEF Untouched, client_vars, DetectTypeOK
  <2>5. Sound(c)'
    BY <1>1, <1>2, <1>4, <2>1 DEF Sound, Kept, GoesOn, Failed, Decided, Undecided,
                                 Determined, Over, client_vars, DetectTypeOK
  <2> QED  BY <2>3, <2>4, <2>5
<1> QED  BY <1>3, <1>4

(* ... and the read that follows it. *)
LEMMA IInvSyncRead ==
  ASSUME IInv, NEW c \in Connections, sync_read(c)
  PROVE  IInv'
<1> USE DEF IInv
<1>1. detecting[c] = "read_some" /\ UNCHANGED client_vars
  BY DEF sync_read
<1>2. CASE /\ \E n \in 1 .. Len(bytes[c]) : reads(c, n) /\ commit(c, n)
           /\ detecting' = [detecting EXCEPT ![c] = "test"]
           /\ UNCHANGED <<error, result>>
  <2>1. PICK n \in 1 .. Len(bytes[c]) : reads(c, n) /\ commit(c, n)
    BY <1>2
  <2>2. DetectTypeOK'
    BY <1>1, <1>2, <2>1, Read DEF DetectTypeOK, client_vars
  <2>3. buffer'[c] = buffer[c] + n /\ consumed'[c] = buffer[c] + n
    BY <1>1, <2>1, Read
  <2>4. ASSUME NEW d \in Connections, d # c PROVE Sound(d)'
    <3>1. buffer'[d] = buffer[d] /\ consumed'[d] = consumed[d]
      BY <1>1, <2>1, <2>4, Read
    <3> QED  BY <1>1, <1>2, <2>4, <3>1, SoundAside DEF Untouched, client_vars, DetectTypeOK
  <2>5. Sound(c)'
    BY <1>1, <1>2, <2>3 DEF Sound, Kept, GoesOn, Failed, Decided, Undecided, Determined,
                           Over, client_vars, DetectTypeOK
  <2> QED  BY <2>2, <2>4, <2>5
<1>3. CASE /\ read_fails(c)
           /\ detecting' = [detecting EXCEPT ![c] = "returned"]
           /\ error' = [error EXCEPT ![c] = ended[c]]
           /\ result' = [result EXCEPT ![c] = FALSE]
           /\ UNCHANGED <<consumed, buffer>>
  <2>1. ended[c] # none
    BY <1>3, NoneAssumption DEF read_fails
  <2>3. DetectTypeOK'
    BY <1>1, <1>3 DEF DetectTypeOK, client_vars
  <2>4. ASSUME NEW d \in Connections, d # c PROVE Sound(d)'
    BY <1>1, <1>3, <2>4, SoundAside DEF Untouched, client_vars, DetectTypeOK
  <2>5. Sound(c)'
    BY <1>1, <1>3, <2>1 DEF Sound, Kept, GoesOn, Failed, Decided, Undecided, Determined,
                           Over, client_vars, DetectTypeOK
  <2> QED  BY <2>3, <2>4, <2>5
<1>4. CASE /\ detecting' = [d \in Connections |-> "aborted"]
           /\ UNCHANGED <<consumed, buffer, error, result>>
  <2>1. DetectTypeOK'
    BY <1>1, <1>4 DEF DetectTypeOK, client_vars
  <2>2. ASSUME NEW d \in Connections PROVE Sound(d)'
    <3>1. /\ detecting'[d] = "aborted" /\ bytes' = bytes /\ consumed' = consumed
          /\ buffer' = buffer /\ error' = error
      BY <1>1, <1>4 DEF client_vars
    <3>2. Kept(d) /\ GoesOn(d) /\ Failed(d) /\ Decided(d)
      BY DEF Sound
    <3> QED  BY <3>1, <3>2 DEF Sound, Kept, GoesOn, Failed, Decided, Undecided, Determined, Over
  <2> QED  BY <2>1, <2>2
<1> QED  BY <1>2, <1>3, <1>4 DEF sync_read

(* Every step preserves it. *)
LEMMA IInvNext == IInv /\ [Next]_vars => IInv'
<1> SUFFICES ASSUME IInv, [Next]_vars PROVE IInv'
  OBVIOUS
<1>1. CASE UNCHANGED vars
  BY <1>1 DEF IInv, DetectTypeOK, Sound, Kept, GoesOn, Failed, Decided, Undecided, Determined,
              Over, vars, client_vars, detect_vars
<1>2. ASSUME NEW c \in Connections,
             \/ client(c) \/ do_async(c) \/ detect_step(c)
             \/ sync(c) \/ sync_test(c) \/ sync_read(c)
      PROVE  IInv'
  BY <1>2, IInvClient, IInvBegins, IInvReadOn, IInvError, IInvResult, IInvSyncTest,
     IInvSyncRead DEF detect_step
<1> QED  BY <1>1, <1>2 DEF Next

(* What a detection has concluded is what its buffer says, and the buffer   *)
(* holds what it has read: in every reachable state.                        *)
THEOREM IInvHolds == Spec => []IInv
BY IInvInit, IInvNext, PTL DEF Spec
-----------------------------------------------------------------------------
(* Every variable keeps its type, and no more is in a buffer than was read. *)
THEOREM DetectTypeCorrect == Spec => []DetectTypeOK
<1>1. IInv => DetectTypeOK
  BY DEF IInv
<1> QED  BY <1>1, IInvHolds, PTL

(* What decided each verdict is in the buffer. *)
LEMMA VerdictIs == IInv => VerdictIsRight
<1> SUFFICES ASSUME IInv, NEW c \in Connections, Over(c), error[c] = none
             PROVE  result[c] = IsClientHello(bytes[c])
  BY DEF VerdictIsRight
<1>1. bytes[c] \in Seq(0 .. 255) /\ buffer[c] \in 0 .. Len(bytes[c])
  BY Lengths DEF IInv
<1>2. /\ is_tls_client_hello(bytes[c], buffer[c]) # indeterminate
      /\ result[c] = is_tls_client_hello(bytes[c], buffer[c])
  BY DEF IInv, Sound, Decided, Determined
<1> QED  BY <1>1, <1>2, EarlyVerdict, Zenon

(* Every detection that ends without an error ends with the answer that the *)
(* whole of what the client sends would give, for every client and every    *)
(* way its bytes may arrive.                                               *)
THEOREM VerdictIsRightHolds == Spec => []VerdictIsRight
BY VerdictIs, IInvHolds, PTL

(* No detection reads on when it could tell, gives up when it could tell,   *)
(* or loses a byte it has read.                                            *)
THEOREM ReadsNoMoreHolds == Spec => []ReadsNoMore
<1>1. IInv => ReadsNoMore
  BY DEF IInv, ReadsNoMore, Sound, Kept, GoesOn, Failed, Undecided, Over
<1> QED  BY <1>1, IInvHolds, PTL
-----------------------------------------------------------------------------
(* What four bytes or more leave undecided is the beginning of a            *)
(* client_hello.                                                           *)
LEMMA Undecides ==
  ASSUME NEW s \in Seq(0 .. 255), NEW n \in 0 .. Len(s),
         is_tls_client_hello(s, n) = indeterminate, ~(n < 4)
  PROVE  CutHello(s, n)
<1>1. n \in Nat /\ ~(n < 1) /\ n <= Len(s) /\ Len(s) \in Nat
  <2> n \in Nat /\ ~(n < 4) /\ Len(s) \in Nat /\ n <= Len(s)
    OBVIOUS
  <2> QED  OBVIOUS
<1>0. indeterminate # FALSE
  BY Zenon, NoneAssumption
<1>2. s[1] = 22
  BY Zenon, <1>0, <1>1 DEF is_tls_client_hello
<1>3. CASE n < 5
  BY <1>1, <1>2, <1>3 DEF CutHello
<1>4. CASE ~(n < 5)
  <2>1. ~(length(s) < 34)
    BY Zenon, <1>0, <1>1, <1>2, <1>4 DEF is_tls_client_hello
  <2>2. length(s) \in Nat
    <3>1. ASSUME NEW i \in 1 .. Len(s) PROVE s[i] \in Nat
      <4>1. s[i] \in 0 .. 255
        BY ElementOfSeq
      <4>2. \A x \in 0 .. 255 : x \in Nat
        OBVIOUS
      <4> QED  BY Zenon, <4>1, <4>2
    <3>3. s[4] \in Nat /\ s[5] \in Nat
      BY <1>1, <1>4, <3>1
    <3> QED  BY <3>3 DEF length
  <2>3. length(s) >= 34
    BY <2>1, <2>2
  <2>4. CASE n < 6
    BY <1>1, <1>2, <1>4, <2>3, <2>4 DEF CutHello
  <2>5. CASE ~(n < 6)
    <3>1. s[6] = 1
      BY Zenon, <1>0, <1>1, <1>2, <1>4, <2>1, <2>5 DEF is_tls_client_hello
    <3>2. n < 9
      <4>1. SUFFICES ASSUME ~(n < 9) PROVE FALSE
        OBVIOUS
      <4>2. indeterminate = (size(s) + 4 <= length(s))
        BY Zenon, <1>0, <1>1, <1>2, <1>4, <2>1, <2>5, <3>1, <4>1 DEF is_tls_client_hello
      <4>3. (size(s) + 4 <= length(s)) \in BOOLEAN
        OBVIOUS
      <4> QED  BY Zenon, <4>2, <4>3, NoneAssumption
    <3> QED  BY <1>1, <1>2, <1>4, <2>3, <3>1, <3>2 DEF CutHello
  <2> QED  BY <2>4, <2>5
<1> QED  BY <1>3, <1>4

(* An assertion that fails ends every detection.                            *)
AbortInv ==
  \/ \A c \in Connections : detecting[c] # "aborted"
  \/ /\ \A c \in Connections : detecting[c] = "aborted"
     /\ \E d \in Connections : CutHello(bytes[d], buffer[d])

(* Nothing but the client goes on when the program has ended.               *)
LEMMA AbortNext == IInv /\ AbortInv /\ [Next]_vars => AbortInv'
<1> SUFFICES ASSUME IInv, AbortInv, [Next]_vars PROVE AbortInv'
  OBVIOUS
<1>1. CASE UNCHANGED <<bytes, buffer, detecting>>
  BY <1>1 DEF AbortInv
<1>2. ASSUME NEW c \in Connections, detecting[c] # "aborted",
             \E at \in {"reading", "over", "test", "read_some", "returned"} :
               detecting' = [detecting EXCEPT ![c] = at]
      PROVE  AbortInv'
  <2>1. \A d \in Connections : detecting[d] # "aborted"
    BY <1>2 DEF AbortInv
  <2>2. detecting \in [Connections -> {"no", "reading", "over", "test", "read_some",
                                       "returned", "aborted"}]
    BY DEF IInv, DetectTypeOK
  <2>3. \A d \in Connections : detecting'[d] # "aborted"
    BY <1>2, <2>1, <2>2
  <2> QED  BY <2>3 DEF AbortInv
<1>3. ASSUME NEW c \in Connections, client(c) PROVE AbortInv'
  BY <1>1, <1>3 DEF client, client_send, client_end, detect_vars
<1>4. ASSUME NEW c \in Connections, do_async(c) \/ sync(c) PROVE AbortInv'
  BY <1>2, <1>4 DEF do_async, sync
<1>5. ASSUME NEW c \in Connections, NEW n, read_on(c, n) PROVE AbortInv'
  <2>1. detecting[c] # "aborted" /\ detecting' = detecting
    BY <1>5 DEF read_on
  <2>2. \A d \in Connections : detecting'[d] # "aborted"
    BY <2>1 DEF AbortInv
  <2> QED  BY <2>2 DEF AbortInv
<1>6. ASSUME NEW c \in Connections, detect_error(c) \/ detect_result(c) PROVE AbortInv'
  BY <1>2, <1>6 DEF detect_error, detect_result
<1>7. ASSUME NEW c \in Connections, sync_test(c) PROVE AbortInv'
  BY <1>2, <1>7 DEF sync_test
<1>8. ASSUME NEW c \in Connections, sync_read(c) PROVE AbortInv'
  <2>1. detecting[c] = "read_some" /\ UNCHANGED client_vars
    BY <1>8 DEF sync_read
  <2>2. CASE \E at \in {"test", "returned"} : detecting' = [detecting EXCEPT ![c] = at]
    BY <1>2, <2>1, <2>2
  <2>3. CASE /\ ~(buffer[c] < 4) /\ buffer' = buffer
             /\ detecting' = [d \in Connections |-> "aborted"]
    <3>1. ~Determined(c, buffer[c])
      BY <2>1 DEF IInv, Sound, GoesOn, Kept, Undecided
    <3>2. CutHello(bytes[c], buffer[c])
      BY <2>3, <3>1, Lengths, Undecides DEF IInv, Determined
    <3>3. CutHello(bytes'[c], buffer'[c])
      BY <2>1, <2>3, <3>2 DEF client_vars
    <3> QED  BY <2>3, <3>3 DEF AbortInv
  <2> QED  BY <1>8, <2>2, <2>3 DEF sync_read
<1> QED
  BY <1>1, <1>3, <1>4, <1>5, <1>6, <1>7, <1>8 DEF Next, detect_step, vars, client_vars,
                                                 detect_vars

(* Only a client_hello of which a blocking detection has read some of the   *)
(* bytes that decide, four or more, ends a program with an assertion.      *)
THEOREM OnlyCutHelloAbortsHolds == Spec => []OnlyCutHelloAborts
<1>1. DetectInit => AbortInv
  BY DEF DetectInit, AbortInv
<1>2. AbortInv => OnlyCutHelloAborts
  BY DEF AbortInv, OnlyCutHelloAborts
<1> QED  BY <1>1, <1>2, AbortNext, IInvHolds, PTL DEF Spec
=============================================================================
