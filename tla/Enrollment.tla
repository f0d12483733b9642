----------------------------- MODULE Enrollment -----------------------------
(***************************************************************************)
(* Certificate enrollment: nr_generate_keypair and nr_enroll of            *)
(* lib/nirantara-net on the devices, the enrollment service (enrollment/   *)
(* src/http.c, enrollment.c, kms.c) and AWS KMS, which signs for it.       *)
(*                                                                         *)
(* The service accepts and serves one connection at a time, without any    *)
(* timeout of its own; nr_enroll blocks until its connection ends.  TCP,   *)
(* TLS and the terminating proxy are external: a connection delivers the   *)
(* pieces of the request and of the reply in order, and may break at any   *)
(* moment for both ends at once.                                           *)
(***************************************************************************)
EXTENDS Integers, Sequences

CONSTANTS
  Devices,    \* devices with the library, each its own process and context
  Allowed,    \* the allowlist of the service
  Strangers,  \* other peers: subset of {"other", "malformed", "silent"}, named for
              \* what they send: another request, no valid header block, nothing
  Faults,     \* subset of {"break", "crash", "local", "accept", "mem"}; "mem": the
              \* certificate may be too long for cert_out or for client_cert_pem
  MaxKeys,    \* bound: key pairs a device generates
  MaxConns    \* bound: connections to the service

ASSUME EnrollmentAssumption ==
  /\ Allowed \subseteq Devices
  /\ Strangers \subseteq {"other", "malformed", "silent"}
  /\ Devices \cap Strangers = {}
  /\ Faults \subseteq {"break", "crash", "local", "accept", "mem"}
  /\ MaxKeys \in Nat /\ MaxConns \in Nat

NoCert == [key |-> 0, whole |-> FALSE]

VARIABLES
  keypair,   \* per device: number of the key pair in ctx->keypair, 0 for none
  csr,       \* per device: key of the CSR cached in ctx->csr, 0 for none
  certOut,   \* per device: the certificate last written to cert_out, or NoCert
  reading,   \* per device: the connection its nr_enroll reads from, 0 when idle
  conns,     \* the connections, in the order they were opened
  stage,     \* the service: "accept", "recv", "issue", "kms", "reply", "down"
  serving,   \* the service: the connection handle_client works on, 0 for none
  generated, \* history: key pairs a device has generated
  issued     \* history: <<device, key>> of the certificates the service assembled

device  == <<keypair, csr, certOut, reading>>
service == <<stage, serving>>
history == <<generated, issued>>
vars    == <<device, conns, service, history>>

Update(c, field, value) == conns' = [conns EXCEPT ![c][field] = value]

Init ==
  /\ keypair = [d \in Devices |-> 0]
  /\ csr = [d \in Devices |-> 0]
  /\ certOut = [d \in Devices |-> NoCert]
  /\ reading = [d \in Devices |-> 0]
  /\ conns = <<>>
  /\ stage = "accept" /\ serving = 0
  /\ generated = [d \in Devices |-> 0] /\ issued = {}
-----------------------------------------------------------------------------
(* The device.                                                             *)

GenerateKeypair(d) ==
  /\ reading[d] = 0 /\ generated[d] < MaxKeys
  /\ generated' = [generated EXCEPT ![d] = @ + 1]
  /\ keypair' = [keypair EXCEPT ![d] = generated[d] + 1]
  /\ UNCHANGED <<csr, certOut, reading, conns, service, issued>>

\* Mutant: the CSR kept in the context "for reuse" is sent again
BuildCsrMutant(d) == IF csr[d] # 0 THEN csr[d] ELSE keypair[d]
BuildCsr(d) == keypair[d]

(* A connection: request and got count the pieces of the request (header   *)
(* block, CSR) and of the reply (part of the header block, everything up   *)
(* to BEGIN CERTIFICATE, the rest) that arrived.                           *)
Connection(peer, k) ==
  [from |-> peer, key |-> k, request |-> 0, reply |-> "none", got |-> 0,
   state |-> "queued", broken |-> FALSE, outcome |-> "none"]

Open(peer, k) ==
  /\ stage # "down" /\ Len(conns) < MaxConns
  /\ conns' = Append(conns, Connection(peer, k))

\* nr_enroll up to SSL_write
Enroll(d) ==
  /\ reading[d] = 0 /\ keypair[d] # 0
  /\ csr' = [csr EXCEPT ![d] = BuildCsr(d)]
  /\ Open(d, BuildCsr(d))
  /\ reading' = [reading EXCEPT ![d] = Len(conns) + 1]
  /\ UNCHANGED <<keypair, certOut, service, history>>

\* No connection, no handshake, or a short SSL_write: only ctx->csr has changed
EnrollFails(d) ==
  /\ reading[d] = 0 /\ keypair[d] # 0
  /\ csr' = [csr EXCEPT ![d] = BuildCsr(d)]
  /\ UNCHANGED <<keypair, certOut, reading, conns, service, history>>

ReplyEndsMutant(c) == conns[c].got > 0 \/ conns[c].broken   \* mutant: one SSL_read
\* SSL_read has returned 0 or an error: the service closed, or the link broke
ReplyEnds(c) == (conns[c].state = "closed" /\ conns[c].got = 3) \/ conns[c].broken

(* What has arrived decides: a 200, the blank line and the BEGIN line are  *)
(* taken for a certificate, whatever follows.                              *)
Accepts(c) == conns[c].reply = "200" /\ conns[c].got >= 2

\* memcpy(cert_out, body, body_len + 1)
Store(d, c) ==
  certOut' = [certOut EXCEPT ![d] = [key |-> conns[c].key, whole |-> conns[c].got = 3]]

(* NR_OK; NR_ERR_MEM for a body too long for cert_out, which stays as it   *)
(* was, or, with cert_out written, for one too long for client_cert_pem;   *)
(* or NR_ERR_PROTO.                                                        *)
EnrollReturns(d) ==
  LET c == reading[d] IN
  /\ c # 0 /\ ReplyEnds(c)
  /\ reading' = [reading EXCEPT ![d] = 0]
  /\ \/ Accepts(c) /\ Update(c, "outcome", "ok") /\ Store(d, c)
     \/ /\ Accepts(c) /\ "mem" \in Faults
        /\ Update(c, "outcome", "mem") /\ (UNCHANGED certOut \/ Store(d, c))
     \/ ~Accepts(c) /\ Update(c, "outcome", "err") /\ UNCHANGED certOut
  /\ UNCHANGED <<keypair, csr, service, history>>

\* The device's process dies and starts again with an empty context
Crash(d) ==
  /\ "crash" \in Faults /\ keypair[d] # 0
  /\ keypair' = [keypair EXCEPT ![d] = 0]
  /\ csr' = [csr EXCEPT ![d] = 0]
  /\ certOut' = [certOut EXCEPT ![d] = NoCert]
  /\ reading' = [reading EXCEPT ![d] = 0]
  /\ IF reading[d] = 0 THEN UNCHANGED conns ELSE Update(reading[d], "broken", TRUE)
  /\ UNCHANGED <<service, history>>
-----------------------------------------------------------------------------
(* The service: nr_enrollment_serve and handle_client.                     *)

Serving(where) == stage = where /\ serving # 0
Respond(status) == Update(serving, "reply", status) /\ stage' = "reply"

Accept ==
  /\ stage = "accept"
  /\ \E c \in DOMAIN conns :
       /\ conns[c].state = "queued"
       /\ \A b \in DOMAIN conns : conns[b].state = "queued" => c <= b
       /\ Update(c, "state", "open") /\ serving' = c
  /\ stage' = "recv"
  /\ UNCHANGED <<device, history>>

\* accept fails for another reason than EINTR: the service returns and exits
AcceptFails ==
  /\ stage = "accept" /\ "accept" \in Faults
  /\ stage' = "down"
  /\ conns' = [c \in DOMAIN conns |->
                 IF conns[c].state = "queued"
                 THEN [conns[c] EXCEPT !.state = "closed", !.broken = TRUE]
                 ELSE conns[c]]
  /\ UNCHANGED <<device, serving, history>>

Restart ==
  /\ stage = "down" /\ stage' = "accept"
  /\ UNCHANGED <<device, conns, serving, history>>

\* read_request has the header block and Content-Length bytes
RequestComplete ==
  /\ Serving("recv") /\ conns[serving].request = 2
  /\ IF conns[serving].from = "other" THEN Respond("404")
     ELSE stage' = "issue" /\ UNCHANGED conns
  /\ UNCHANGED <<device, serving, history>>

\* recv returned 0 or an error before that, or the header block is malformed
RequestFails ==
  /\ Serving("recv") /\ conns[serving].request < 2
  /\ conns[serving].broken \/ conns[serving].from = "malformed"
  /\ Respond("400")
  /\ UNCHANGED <<device, serving, history>>

\* Mutant: the allowlist is not consulted
MayEnrollMutant(peer) == peer \in Devices
MayEnroll(peer) == peer \in Allowed

\* nr_enrollment_issue_certificate up to the digest; "local": CA file, memory
Issue ==
  /\ Serving("issue")
  /\ \/ /\ MayEnroll(conns[serving].from)
        /\ stage' = "kms" /\ UNCHANGED conns
     \/ /\ ~MayEnroll(conns[serving].from) \/ "local" \in Faults
        /\ Respond("403")
  /\ UNCHANGED <<device, serving, history>>

\* The signature came back and the assembled certificate verifies
KmsSigns ==
  /\ Serving("kms")
  /\ issued' = issued \cup {<<conns[serving].from, conns[serving].key>>}
  /\ Respond("200")
  /\ UNCHANGED <<device, serving, generated>>

\* Mutant: CURLOPT_TIMEOUT is not set and KMS never answers
KmsFailsMutant == FALSE

(* An error, no usable signature, one of another key; at the latest,       *)
(* CURLOPT_TIMEOUT's ten seconds have passed.                              *)
KmsFails ==
  /\ Serving("kms")
  /\ Respond("403")
  /\ UNCHANGED <<device, serving, history>>

\* Mutant: the loop accepts before it closes
CloseMutant ==
  /\ Serving("reply")
  /\ Update(serving, "state", "closed")
  /\ stage' = "accept" /\ UNCHANGED <<serving, device, history>>

\* send_response, whose result is ignored, and close
Close ==
  /\ Serving("reply")
  /\ Update(serving, "state", "closed")
  /\ stage' = "accept" /\ serving' = 0
  /\ UNCHANGED <<device, history>>

ServiceStep ==
  \/ Accept \/ Restart \/ RequestComplete \/ RequestFails \/ Issue \/ KmsFails
  \/ Close
-----------------------------------------------------------------------------
(* The network and the other peers.                                        *)

Stranger(peer) == Open(peer, 0) /\ UNCHANGED <<device, service, history>>

\* The next piece of a request reaches the service
Arrive(c) ==
  /\ ~conns[c].broken /\ conns[c].request < 2
  /\ conns[c].from \in Devices \cup {"other"}
  /\ Update(c, "request", conns[c].request + 1)
  /\ UNCHANGED <<device, service, history>>

\* The next piece of a reply reaches the peer
Deliver(c) ==
  /\ ~conns[c].broken /\ conns[c].state = "closed" /\ conns[c].got < 3
  /\ Update(c, "got", conns[c].got + 1)
  /\ UNCHANGED <<device, service, history>>

Break(c) ==
  /\ "break" \in Faults /\ ~conns[c].broken /\ conns[c].outcome = "none"
  /\ Update(c, "broken", TRUE)
  /\ UNCHANGED <<device, service, history>>

Next ==
  \/ \E d \in Devices :
       GenerateKeypair(d) \/ Enroll(d) \/ EnrollFails(d) \/ EnrollReturns(d) \/ Crash(d)
  \/ ServiceStep \/ AcceptFails \/ KmsSigns
  \/ \E peer \in Strangers : Stranger(peer)
  \/ \E c \in DOMAIN conns : Arrive(c) \/ Deliver(c) \/ Break(c)

Spec == Init /\ [][Next]_vars

(* Both programs are scheduled and a connection that does not break        *)
(* delivers what is written to it; a service that exited is started again. *)
(* KMS owes no answer.                                                     *)
Fairness ==
  /\ WF_vars(ServiceStep)
  /\ \A d \in Devices : WF_vars(EnrollReturns(d))
  /\ \A c \in 1..MaxConns :
       /\ WF_vars(c \in DOMAIN conns /\ Arrive(c))
       /\ WF_vars(c \in DOMAIN conns /\ Deliver(c))

FairSpec == Spec /\ Fairness
-----------------------------------------------------------------------------
(* Properties.                                                             *)

Cert == [key : 0..MaxKeys, whole : BOOLEAN]
Conn == [from : Devices \cup Strangers, key : 0..MaxKeys, request : 0..2,
         reply : {"none", "200", "400", "403", "404"}, got : 0..3,
         state : {"queued", "open", "closed"}, broken : BOOLEAN,
         outcome : {"none", "ok", "mem", "err"}]

\* The type of every variable; handle_client always works on a connection it accepted
TypeOK ==
  /\ keypair \in [Devices -> 0..MaxKeys] /\ csr \in [Devices -> 0..MaxKeys]
  /\ certOut \in [Devices -> Cert]
  /\ conns \in Seq(Conn)
  /\ reading \in [Devices -> 0..Len(conns)]
  /\ stage \in {"accept", "recv", "issue", "kms", "reply", "down"}
  /\ serving # 0 <=> stage \in {"recv", "issue", "kms", "reply"}
  /\ serving # 0 => serving \in DOMAIN conns /\ conns[serving].state = "open"
  /\ generated \in [Devices -> 0..MaxKeys]
  /\ issued \subseteq Devices \X (1..MaxKeys)

(* "Validate device_id is in the allowed set" and proof of possession,     *)
(* seen from the device: whatever certificate nr_enroll stores was issued  *)
(* to that device, which is on the allowlist, for a key of its own.        *)
StoredCertIssued ==
  \A d \in Devices : certOut[d] # NoCert =>
    /\ d \in Allowed /\ <<d, certOut[d].key>> \in issued
    /\ certOut[d].key \in 1..generated[d]

(* The certificate an nr_enroll stores belongs to the key pair the device  *)
(* holds at that moment, not to one it had before: of an earlier context,  *)
(* an earlier attempt or a request the service answered late.              *)
CertFitsKey ==
  [][\A d \in Devices : certOut'[d] \notin {certOut[d], NoCert}
       => certOut'[d].key = keypair'[d]]_vars

(* The service's log and the device agree unless the connection broke: a   *)
(* certificate it sent over a connection that held is taken by nr_enroll,  *)
(* which fails at most with NR_ERR_MEM, where a buffer is too small for it,*)
(* and never takes the reply for an error or for something else.           *)
IssuedIsStored ==
  \A c \in DOMAIN conns : conns[c].reply = "200" /\ ~conns[c].broken =>
    /\ conns[c].outcome # "err"
    /\ conns[c].outcome = "mem" => "mem" \in Faults

(* The client verifies the certificate before storing it, so that what it  *)
(* stores is a whole certificate.                                          *)
StoredCertVerifies == \A d \in Devices : certOut[d] # NoCert => certOut[d].whole

(* nr_enroll returns, even if KMS never does: no peer waits for ever       *)
(* behind the connections the service works off one by one.                *)
EnrollCompletes == \A d \in Devices : reading[d] # 0 ~> reading[d] = 0
=============================================================================
