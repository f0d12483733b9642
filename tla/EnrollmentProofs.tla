-------------------------- MODULE EnrollmentProofs --------------------------
(***************************************************************************)
(* What Enrollment guarantees for every number of devices, strangers, key  *)
(* pairs and connections, whichever of the failures occur.                 *)
(***************************************************************************)
EXTENDS Enrollment, SequenceTheorems, TLAPS

-----------------------------------------------------------------------------
(* The inductive invariant.                                                *)

\* A key pair was generated, and a certificate issued, by the device it is for
KeysGenerated ==
  /\ \A d \in Devices : keypair[d] <= generated[d]
  /\ \A pair \in issued : pair[1] \in Allowed /\ pair[2] \in 1..generated[pair[1]]

\* A device's connection carries a key of that device; the one it reads from
\* carries the key it holds
ConnectionKeys ==
  /\ \A c \in DOMAIN conns :
       conns[c].from \in Devices => conns[c].key \in 1..generated[conns[c].from]
  /\ \A d \in Devices : reading[d] # 0 =>
       conns[reading[d]].from = d /\ conns[reading[d]].key = keypair[d]

\* The service asks KMS for devices on the allowlist only, and a 200 is the
\* reply to an issued certificate
RepliesIssued ==
  /\ stage = "kms" => conns[serving].from \in Allowed
  /\ \A c \in DOMAIN conns :
       conns[c].reply = "200" => <<conns[c].from, conns[c].key>> \in issued

\* A device gives up an unbroken connection only after the service has closed it
\* with another reply, or for want of memory
ErrorsFinal ==
  \A c \in DOMAIN conns :
    /\ conns[c].outcome = "err" /\ ~conns[c].broken
         => conns[c].state = "closed" /\ conns[c].reply # "200"
    /\ conns[c].outcome = "mem" => "mem" \in Faults

IInv ==
  /\ TypeOK /\ KeysGenerated /\ ConnectionKeys /\ RepliesIssued /\ ErrorsFinal
  /\ StoredCertIssued
-----------------------------------------------------------------------------
(* What a step does to the connections.                                    *)

Fields == {"from", "key", "request", "reply", "got", "state", "broken", "outcome"}

\* The type of a connection's field that changes
Typed(field, value) ==
  \/ field = "request" /\ value \in 0..2
  \/ field = "reply" /\ value \in {"none", "200", "400", "403", "404"}
  \/ field = "got" /\ value \in 0..3
  \/ field = "state" /\ value \in {"queued", "open", "closed"}
  \/ field = "broken" /\ value \in BOOLEAN
  \/ field = "outcome" /\ value \in {"none", "ok", "mem", "err"}

\* Nothing changes but one field of one connection
Touches(c, field) ==
  /\ conns' \in Seq(Conn) /\ Len(conns') = Len(conns) /\ DOMAIN conns' = DOMAIN conns
  /\ \A b \in DOMAIN conns, f \in Fields :
       b # c \/ f # field => conns'[b][f] = conns[b][f]

(* A connection with one field changed.                                    *)
LEMMA FieldUpdate ==
  ASSUME NEW r \in Conn, NEW field, NEW value, Typed(field, value)
  PROVE  /\ [r EXCEPT ![field] = value] \in Conn
         /\ [r EXCEPT ![field] = value][field] = value
         /\ \A f \in Fields : f # field => [r EXCEPT ![field] = value][f] = r[f]
<1>1. CASE field = "request" /\ value \in 0..2
  BY <1>1 DEF Conn, Fields
<1>2. CASE field = "reply" /\ value \in {"none", "200", "400", "403", "404"}
  BY <1>2 DEF Conn, Fields
<1>3. CASE field = "got" /\ value \in 0..3
  BY <1>3 DEF Conn, Fields
<1>4. CASE field = "state" /\ value \in {"queued", "open", "closed"}
  BY <1>4 DEF Conn, Fields
<1>5. CASE field = "broken" /\ value \in BOOLEAN
  BY <1>5 DEF Conn, Fields
<1>6. CASE field = "outcome" /\ value \in {"none", "ok", "mem", "err"}
  BY <1>6 DEF Conn, Fields
<1> QED
  BY <1>1, <1>2, <1>3, <1>4, <1>5, <1>6 DEF Typed

(* Update changes one field of one connection.                             *)
LEMMA Updated ==
  ASSUME conns \in Seq(Conn), NEW c \in DOMAIN conns, NEW field, NEW value,
         Typed(field, value), Update(c, field, value)
  PROVE  Touches(c, field) /\ conns'[c][field] = value
<1> DEFINE r == [conns[c] EXCEPT ![field] = value]
<1>1. conns[c] \in Conn
  BY ElementOfSeq
<1>2. r \in Conn /\ r[field] = value /\ \A f \in Fields : f # field => r[f] = conns[c][f]
  BY <1>1, FieldUpdate
<1>3. conns' = [conns EXCEPT ![c] = r]
  BY DEF Update
<1> HIDE DEF r
<1>4. /\ conns' \in Seq(Conn) /\ Len(conns') = Len(conns) /\ DOMAIN conns' = DOMAIN conns
      /\ conns'[c] = r /\ \A b \in DOMAIN conns : b # c => conns'[b] = conns[b]
  BY <1>2, <1>3
<1> QED
  BY <1>2, <1>4 DEF Touches

(* A new connection is the last one, and the others stay as they are.      *)
LEMMA Opened ==
  ASSUME conns \in Seq(Conn), NEW peer \in Devices \cup Strangers, NEW k \in 0..MaxKeys,
         Open(peer, k)
  PROVE  /\ conns' \in Seq(Conn) /\ Len(conns') = Len(conns) + 1
         /\ DOMAIN conns' = DOMAIN conns \cup {Len(conns) + 1}
         /\ \A b \in DOMAIN conns : conns'[b] = conns[b]
         /\ conns'[Len(conns) + 1] = Connection(peer, k)
<1>1. Connection(peer, k) \in Conn
  BY EnrollmentAssumption DEF Connection, Conn
<1>2. conns' = Append(conns, Connection(peer, k))
  BY DEF Open
<1> HIDE DEF Connection, Conn
<1> QED
  BY <1>1, <1>2
-----------------------------------------------------------------------------
(* Type correctness.                                                       *)

\* The parts of the type invariant
DeviceTypes ==
  /\ keypair \in [Devices -> 0..MaxKeys] /\ csr \in [Devices -> 0..MaxKeys]
  /\ certOut \in [Devices -> Cert]
  /\ generated \in [Devices -> 0..MaxKeys]

ConnTypes == conns \in Seq(Conn) /\ reading \in [Devices -> 0..Len(conns)]

ServiceTypes ==
  /\ stage \in {"accept", "recv", "issue", "kms", "reply", "down"}
  /\ serving # 0 <=> stage \in {"recv", "issue", "kms", "reply"}
  /\ serving # 0 => serving \in DOMAIN conns /\ conns[serving].state = "open"

IssuedTypes == issued \subseteq Devices \X (1..MaxKeys)

\* TypeOK in four parts.
LEMMA Parts == TypeOK <=> DeviceTypes /\ ConnTypes /\ ServiceTypes /\ IssuedTypes
BY DEF TypeOK, DeviceTypes, ConnTypes, ServiceTypes, IssuedTypes

\* The initial state has the types.
LEMMA InitTypeOK == Init => TypeOK
<1> SUFFICES ASSUME Init PROVE TypeOK
  OBVIOUS
<1>1. conns \in Seq(Conn) /\ Len(conns) = 0
  BY EmptySeq DEF Init
<1>2. NoCert \in Cert
  BY EnrollmentAssumption DEF NoCert, Cert
<1> QED
  BY <1>1, <1>2, EnrollmentAssumption DEF Init, TypeOK

(* A connection's fields have their types.                                 *)
LEMMA ConnFields ==
  ASSUME conns \in Seq(Conn), NEW c \in DOMAIN conns
  PROVE  /\ conns[c].from \in Devices \cup Strangers /\ conns[c].key \in 0..MaxKeys
         /\ conns[c].request \in 0..2 /\ conns[c].got \in 0..3
         /\ conns[c].broken \in BOOLEAN
<1>1. conns[c] \in Conn
  BY ElementOfSeq
<1> QED
  BY <1>1 DEF Conn

(* What nr_enroll reads from is a connection.                              *)
LEMMA ReadingConn ==
  ASSUME ConnTypes, NEW d \in Devices, reading[d] # 0
  PROVE  reading[d] \in DOMAIN conns
BY DEF ConnTypes

\* Every step keeps the devices' types.
LEMMA NextDeviceTypes ==
  ASSUME DeviceTypes, ConnTypes, Next
  PROVE  DeviceTypes'
<1> USE EnrollmentAssumption DEF DeviceTypes
<1>1. ASSUME NEW d \in Devices, GenerateKeypair(d) PROVE DeviceTypes'
  BY <1>1 DEF GenerateKeypair
<1>2. ASSUME NEW d \in Devices, Enroll(d) \/ EnrollFails(d) PROVE DeviceTypes'
  BY <1>2 DEF Enroll, EnrollFails, BuildCsr, history
<1>3. ASSUME NEW d \in Devices, EnrollReturns(d) PROVE DeviceTypes'
  <2> DEFINE c == reading[d]
  <2>1. conns[c].key \in 0..MaxKeys
    BY <1>3, ReadingConn, ConnFields DEF EnrollReturns, ConnTypes
  <2>2. \A b \in BOOLEAN : [key |-> conns[c].key, whole |-> b] \in Cert
    BY <2>1 DEF Cert
  <2>3. [key |-> conns[c].key, whole |-> conns[c].got = 3] \in Cert
    BY <2>2
  <2> QED
    BY <1>3, <2>3 DEF EnrollReturns, Store, history
<1>4. ASSUME NEW d \in Devices, Crash(d) PROVE DeviceTypes'
  <2>1. NoCert \in Cert
    BY DEF NoCert, Cert
  <2> QED
    BY <1>4, <2>1 DEF Crash, history
<1>5. ASSUME UNCHANGED <<keypair, csr, certOut, generated>> PROVE DeviceTypes'
  BY <1>5
<1>6. CASE ServiceStep \/ AcceptFails \/ KmsSigns
  BY <1>5, <1>6 DEF ServiceStep, Accept, Restart, RequestComplete, RequestFails, Issue,
       KmsFails, Close, AcceptFails, KmsSigns, device, history
<1>7. ASSUME NEW peer \in Strangers, Stranger(peer) PROVE DeviceTypes'
  BY <1>5, <1>7 DEF Stranger, device, history
<1>8. ASSUME NEW c \in DOMAIN conns, Arrive(c) \/ Deliver(c) \/ Break(c) PROVE DeviceTypes'
  BY <1>5, <1>8 DEF Arrive, Deliver, Break, device, history
<1> QED
  BY <1>1, <1>2, <1>3, <1>4, <1>6, <1>7, <1>8 DEF Next

\* The result of nr_enroll reading a connection
Result(c, outcome) ==
  /\ outcome = "err" <=> ~Accepts(c)
  /\ outcome = "mem" => "mem" \in Faults

\* What a step does to the connections, to what the devices read and to the service
ConnStep(c, field) == Touches(c, field) /\ c \in DOMAIN conns /\ UNCHANGED device

(* Each step as a change of at most one connection.                        *)
LEMMA ServiceSteps ==
  ASSUME ConnTypes, ServiceTypes
  PROVE  /\ Accept => ConnStep(serving', "state") /\ conns'[serving'].state = "open"
         /\ RequestComplete \/ RequestFails \/ Issue =>
              \/ UNCHANGED <<device, conns>>
              \/ ConnStep(serving, "reply") /\ conns'[serving].reply \in {"400", "403", "404"}
         /\ KmsFails => ConnStep(serving, "reply") /\ conns'[serving].reply = "403"
         /\ KmsSigns => ConnStep(serving, "reply") /\ conns'[serving].reply = "200"
         /\ Close => ConnStep(serving, "state") /\ conns'[serving].state = "closed"
<1> USE DEF ConnTypes
<1>1. ASSUME NEW where, Serving(where),
             NEW s \in {"none", "200", "400", "403", "404"}, Respond(s)
      PROVE  /\ Touches(serving, "reply") /\ serving \in DOMAIN conns
             /\ conns'[serving].reply = s
  BY <1>1, Updated DEF Serving, Respond, Typed, ServiceTypes
<1>2. ASSUME Accept
      PROVE  ConnStep(serving', "state") /\ conns'[serving'].state = "open"
  BY <1>2, Updated DEF Accept, ConnStep, Typed
<1>3. ASSUME RequestComplete \/ RequestFails \/ Issue
      PROVE  \/ UNCHANGED <<device, conns>>
             \/ ConnStep(serving, "reply") /\ conns'[serving].reply \in {"400", "403", "404"}
  BY <1>1, <1>3 DEF RequestComplete, RequestFails, Issue, ConnStep
<1>4. KmsFails => ConnStep(serving, "reply") /\ conns'[serving].reply = "403"
  BY <1>1 DEF KmsFails, ConnStep
<1>5. KmsSigns => ConnStep(serving, "reply") /\ conns'[serving].reply = "200"
  BY <1>1 DEF KmsSigns, ConnStep
<1>6. Close => ConnStep(serving, "state") /\ conns'[serving].state = "closed"
  BY Updated DEF Close, Serving, Typed, ServiceTypes, ConnStep
<1> QED
  BY <1>2, <1>3, <1>4, <1>5, <1>6

\* What nr_enroll's return and a device's death do to its connection.
LEMMA DeviceSteps ==
  ASSUME ConnTypes, NEW d \in Devices
  PROVE  /\ EnrollReturns(d) =>
              /\ Touches(reading[d], "outcome") /\ reading[d] \in DOMAIN conns
              /\ Result(reading[d], conns'[reading[d]].outcome)
         /\ Crash(d) =>
              UNCHANGED conns \/ (Touches(reading[d], "broken") /\ conns'[reading[d]].broken)
<1> USE DEF ConnTypes
<1>1. ASSUME EnrollReturns(d)
      PROVE  /\ Touches(reading[d], "outcome") /\ reading[d] \in DOMAIN conns
             /\ Result(reading[d], conns'[reading[d]].outcome)
  <2>1. reading[d] \in DOMAIN conns
    BY <1>1, ReadingConn DEF EnrollReturns
  <2>2. PICK o \in {"ok", "mem", "err"} : Update(reading[d], "outcome", o) /\ Result(reading[d], o)
    BY <1>1 DEF EnrollReturns, Result
  <2>3. Typed("outcome", o)
    BY DEF Typed
  <2>4. Touches(reading[d], "outcome") /\ conns'[reading[d]].outcome = o
    BY <2>1, <2>2, <2>3, Updated
  <2> QED
    BY <2>1, <2>2, <2>4
<1>2. ASSUME Crash(d)
      PROVE  UNCHANGED conns \/ (Touches(reading[d], "broken") /\ conns'[reading[d]].broken)
  <2>1. CASE reading[d] = 0
    BY <1>2, <2>1 DEF Crash
  <2>2. CASE reading[d] # 0
    BY <1>2, <2>2, ReadingConn, Updated DEF Crash, Typed
  <2> QED
    BY <2>1, <2>2
<1> QED
  BY <1>1, <1>2

\* What the network does to a connection.
LEMMA NetworkSteps ==
  ASSUME ConnTypes, NEW c \in DOMAIN conns
  PROVE  /\ Arrive(c) => ConnStep(c, "request")
         /\ Deliver(c) => ConnStep(c, "got")
         /\ Break(c) => ConnStep(c, "broken") /\ conns'[c].broken
<1> USE DEF ConnTypes, ConnStep
<1>1. conns[c].request \in 0..2 /\ conns[c].got \in 0..3
  BY ConnFields
<1>2. Arrive(c) => ConnStep(c, "request")
  <2>1. Arrive(c) => Typed("request", conns[c].request + 1)
    BY <1>1 DEF Arrive, Typed
  <2> QED
    BY <2>1, Updated DEF Arrive
<1>3. Deliver(c) => ConnStep(c, "got")
  <2>1. Deliver(c) => Typed("got", conns[c].got + 1)
    BY <1>1 DEF Deliver, Typed
  <2> QED
    BY <2>1, Updated DEF Deliver
<1>4. Break(c) => ConnStep(c, "broken") /\ conns'[c].broken
  BY Updated DEF Break, Typed
<1> QED
  BY <1>2, <1>3, <1>4

(* A service that exits refuses the connections it had not accepted.       *)
LEMMA Refused ==
  ASSUME ConnTypes, AcceptFails
  PROVE  /\ conns' \in Seq(Conn) /\ Len(conns') = Len(conns) /\ DOMAIN conns' = DOMAIN conns
         /\ \A b \in DOMAIN conns :
              \/ conns'[b] = conns[b]
              \/ /\ conns[b].state = "queued"
                 /\ conns'[b] = [conns[b] EXCEPT !.state = "closed", !.broken = TRUE]
<1> DEFINE f(b) == IF conns[b].state = "queued"
                   THEN [conns[b] EXCEPT !.state = "closed", !.broken = TRUE]
                   ELSE conns[b]
<1>1. conns' = [b \in 1..Len(conns) |-> f(b)] /\ DOMAIN conns = 1..Len(conns)
  <2>1. DOMAIN conns = 1..Len(conns)
    BY LenProperties DEF ConnTypes
  <2> QED
    BY <2>1, Zenon DEF AcceptFails
<1>2. \A b \in 1..Len(conns) : f(b) \in Conn
  <2> SUFFICES ASSUME NEW b \in 1..Len(conns) PROVE f(b) \in Conn
    OBVIOUS
  <2>1. conns[b] \in Conn
    BY ElementOfSeq DEF ConnTypes
  <2> QED
    BY <2>1 DEF Conn
<1>3. \A b \in 1..Len(conns) :
        \/ f(b) = conns[b]
        \/ /\ conns[b].state = "queued"
           /\ f(b) = [conns[b] EXCEPT !.state = "closed", !.broken = TRUE]
  OBVIOUS
<1> HIDE DEF f
<1>4. conns' \in Seq(Conn) /\ Len(conns') = Len(conns)
  BY <1>1, <1>2, IsASeq, LenProperties DEF ConnTypes
<1> QED
  BY <1>1, <1>3, <1>4

\* Every step keeps the connections' types.
LEMMA NextConnTypes ==
  ASSUME DeviceTypes, ConnTypes, ServiceTypes, Next
  PROVE  ConnTypes'
<1> USE DEF ConnTypes
<1>1. ASSUME UNCHANGED <<device, conns>> PROVE ConnTypes'
  BY <1>1 DEF device
<1>2. ASSUME NEW c, NEW field, ConnStep(c, field) PROVE ConnTypes'
  BY <1>2 DEF ConnStep, Touches, device
<1>3. ASSUME NEW d \in Devices, GenerateKeypair(d) \/ EnrollFails(d) PROVE ConnTypes'
  BY <1>3 DEF GenerateKeypair, EnrollFails
<1>4. ASSUME NEW d \in Devices, Enroll(d) PROVE ConnTypes'
  <2>1. conns' \in Seq(Conn) /\ Len(conns') = Len(conns) + 1
    BY <1>4, Opened DEF Enroll, BuildCsr, DeviceTypes
  <2>2. reading' = [reading EXCEPT ![d] = Len(conns) + 1]
    BY <1>4 DEF Enroll
  <2> QED
    BY <2>1, <2>2
<1>5. ASSUME NEW d \in Devices, EnrollReturns(d) PROVE ConnTypes'
  <2>1. conns' \in Seq(Conn) /\ Len(conns') = Len(conns)
    BY <1>5, DeviceSteps DEF Touches
  <2> QED
    BY <1>5, <2>1 DEF EnrollReturns
<1>6. ASSUME NEW d \in Devices, Crash(d) PROVE ConnTypes'
  <2>1. conns' \in Seq(Conn) /\ Len(conns') = Len(conns)
    BY <1>6, DeviceSteps DEF Touches
  <2> QED
    BY <1>6, <2>1 DEF Crash
<1>7. CASE ServiceStep \/ KmsSigns
  BY <1>1, <1>2, <1>7, ServiceSteps DEF ServiceStep, Restart
<1>8. CASE AcceptFails
  BY <1>8, Refused DEF AcceptFails, device
<1>9. ASSUME NEW peer \in Strangers, Stranger(peer) PROVE ConnTypes'
  BY <1>9, Opened, EnrollmentAssumption DEF Stranger, device
<1>10. ASSUME NEW c \in DOMAIN conns, Arrive(c) \/ Deliver(c) \/ Break(c) PROVE ConnTypes'
  BY <1>2, <1>10, NetworkSteps
<1> QED
  BY <1>3, <1>4, <1>5, <1>6, <1>7, <1>8, <1>9, <1>10 DEF Next

(* The connection handle_client works on stays open until it closes it.    *)
LEMMA NextServiceTypes ==
  ASSUME DeviceTypes, ConnTypes, ServiceTypes, Next
  PROVE  ServiceTypes'
<1> USE DEF ServiceTypes
<1>1. ASSUME UNCHANGED service, DOMAIN conns \subseteq DOMAIN conns',
             \A c \in DOMAIN conns : conns[c].state = "open" => conns'[c].state = "open"
      PROVE  ServiceTypes'
  BY <1>1 DEF service
<1>2. ASSUME NEW c, NEW field, Touches(c, field), field # "state"
      PROVE  /\ DOMAIN conns \subseteq DOMAIN conns'
             /\ \A b \in DOMAIN conns : conns'[b].state = conns[b].state
  BY <1>2 DEF Touches, Fields
<1>3. ASSUME NEW d \in Devices, GenerateKeypair(d) \/ EnrollFails(d) PROVE ServiceTypes'
  BY <1>1, <1>3 DEF GenerateKeypair, EnrollFails
<1>4. ASSUME NEW d \in Devices, Enroll(d) PROVE ServiceTypes'
  <2>1. UNCHANGED service /\ BuildCsr(d) \in 0..MaxKeys
    BY <1>4 DEF Enroll, BuildCsr, DeviceTypes
  <2> QED
    BY <1>1, <1>4, <2>1, Opened DEF Enroll, ConnTypes
<1>5. ASSUME NEW d \in Devices, EnrollReturns(d) PROVE ServiceTypes'
  BY <1>1, <1>2, <1>5, DeviceSteps DEF EnrollReturns
<1>6. ASSUME NEW d \in Devices, Crash(d) PROVE ServiceTypes'
  BY <1>1, <1>2, <1>6, DeviceSteps DEF Crash
<1>7. CASE Accept
  BY <1>7, ServiceSteps DEF Accept, ConnStep, Touches, ConnTypes
<1>8. CASE RequestComplete \/ RequestFails \/ Issue
  <2>1. UNCHANGED serving /\ stage' \in {"recv", "issue", "kms", "reply"} /\ serving # 0
    BY <1>8 DEF RequestComplete, RequestFails, Issue, Serving, Respond
  <2>2. UNCHANGED conns \/ Touches(serving, "reply")
    BY <1>8, ServiceSteps DEF ConnStep
  <2> QED
    BY <1>2, <2>1, <2>2
<1>9. CASE KmsSigns \/ KmsFails
  <2>1. UNCHANGED serving /\ stage' = "reply" /\ serving # 0
    BY <1>9 DEF KmsSigns, KmsFails, Serving, Respond
  <2>2. Touches(serving, "reply")
    BY <1>9, ServiceSteps DEF ConnStep
  <2> QED
    BY <1>2, <2>1, <2>2
<1>10. CASE Close \/ AcceptFails \/ Restart
  BY <1>10 DEF Close, AcceptFails, Restart
<1>11. ASSUME NEW peer \in Strangers, Stranger(peer) PROVE ServiceTypes'
  BY <1>1, <1>11, Opened, EnrollmentAssumption DEF Stranger, ConnTypes
<1>12. ASSUME NEW c \in DOMAIN conns, Arrive(c) \/ Deliver(c) \/ Break(c) PROVE ServiceTypes'
  BY <1>1, <1>2, <1>12, NetworkSteps DEF Arrive, Deliver, Break, ConnStep
<1> QED
  BY <1>3, <1>4, <1>5, <1>6, <1>7, <1>8, <1>9, <1>10, <1>11, <1>12 DEF Next, ServiceStep

\* Every step keeps the type of the certificates issued.
LEMMA NextIssuedTypes ==
  ASSUME TypeOK, KeysGenerated, ConnectionKeys, RepliesIssued, Next
  PROVE  IssuedTypes'
<1> USE DEF IssuedTypes
<1>1. CASE KmsSigns
  <2>1. serving \in DOMAIN conns /\ conns[serving].from \in Allowed
    BY <1>1 DEF KmsSigns, Serving, TypeOK, RepliesIssued
  <2>2. conns[serving].key \in 1..generated[conns[serving].from]
    BY <2>1, EnrollmentAssumption DEF ConnectionKeys
  <2>3. generated[conns[serving].from] \in 0..MaxKeys
    BY <2>1, EnrollmentAssumption DEF TypeOK
  <2>4. <<conns[serving].from, conns[serving].key>> \in Devices \X (1..MaxKeys)
    BY <2>1, <2>2, <2>3, EnrollmentAssumption
  <2> QED
    BY <1>1, <2>4, Parts DEF KmsSigns
<1>2. CASE UNCHANGED issued
  BY <1>2, Parts
<1>3. UNCHANGED issued \/ KmsSigns
  BY DEF Next, GenerateKeypair, Enroll, EnrollFails, EnrollReturns, Crash, ServiceStep,
     Accept, Restart, RequestComplete, RequestFails, Issue, KmsFails, Close, AcceptFails,
     Stranger, Arrive, Deliver, Break, history
<1> QED
  BY <1>1, <1>2, <1>3

\* Every step keeps the types.
LEMMA NextTypeOK ==
  ASSUME TypeOK, KeysGenerated, ConnectionKeys, RepliesIssued, Next
  PROVE  TypeOK'
BY Parts, NextDeviceTypes, NextConnTypes, NextServiceTypes, NextIssuedTypes
   DEF TypeOK, DeviceTypes, ConnTypes, ServiceTypes, IssuedTypes
-----------------------------------------------------------------------------
(* The other parts of the invariant.                                       *)

(* What holds of every connection's peer, key, reply and end: a step of    *)
(* the service or of the network changes neither of the first two.         *)
LEMMA PeersKept ==
  ASSUME TypeOK, Next, NEW c \in DOMAIN conns
  PROVE  /\ c \in DOMAIN conns'
         /\ conns'[c].from = conns[c].from /\ conns'[c].key = conns[c].key
         /\ conns[c].broken => conns'[c].broken
         /\ conns[c].state = "closed" => conns'[c].state = "closed"
         /\ conns'[c].reply = conns[c].reply \/ c = serving
<1> DEFINE Kept == /\ c \in DOMAIN conns'
                   /\ conns'[c].from = conns[c].from /\ conns'[c].key = conns[c].key
                   /\ conns[c].broken => conns'[c].broken
                   /\ conns[c].state = "closed" => conns'[c].state = "closed"
                   /\ conns'[c].reply = conns[c].reply \/ c = serving
<1> SUFFICES Kept
  OBVIOUS
<1>1. ConnTypes /\ ServiceTypes /\ DeviceTypes
  BY Parts
<1>2. CASE UNCHANGED conns
  BY <1>2
<1>3. ASSUME NEW b, NEW field, Touches(b, field), field \in {"request", "got", "outcome"}
      PROVE  Kept
  BY <1>3 DEF Touches, Fields
<1>4. ASSUME NEW b, Touches(b, "broken"), conns'[b].broken PROVE Kept
  BY <1>4 DEF Touches, Fields
<1>5. ASSUME NEW b, Touches(b, "state"), conns'[b].state = "closed" \/ conns[b].state # "closed"
      PROVE  Kept
  BY <1>5 DEF Touches, Fields
<1>6. CASE Touches(serving, "reply")
  BY <1>6 DEF Touches, Fields
<1>7. ASSUME NEW d \in Devices,
             GenerateKeypair(d) \/ EnrollFails(d) \/ EnrollReturns(d) \/ Crash(d)
      PROVE  Kept
  <2>1. CASE GenerateKeypair(d) \/ EnrollFails(d)
    BY <1>2, <2>1 DEF GenerateKeypair, EnrollFails
  <2>2. CASE EnrollReturns(d)
    BY <1>1, <1>3, <2>2, DeviceSteps
  <2>3. CASE Crash(d)
    BY <1>1, <1>2, <1>4, <2>3, DeviceSteps
  <2> QED
    BY <1>7, <2>1, <2>2, <2>3
<1>8. ASSUME NEW peer \in Devices \cup Strangers, NEW k \in 0..MaxKeys, Open(peer, k)
      PROVE  Kept
  BY <1>1, <1>8, Opened DEF ConnTypes
<1>9. ASSUME NEW d \in Devices, Enroll(d) PROVE Kept
  BY <1>1, <1>8, <1>9 DEF Enroll, BuildCsr, DeviceTypes
<1>10. ASSUME NEW peer \in Strangers, Stranger(peer) PROVE Kept
  BY <1>8, <1>10, EnrollmentAssumption DEF Stranger
<1>11. CASE Accept
  <2>1. conns[serving'].state = "queued"
    BY <1>11 DEF Accept
  <2> QED
    BY <1>1, <1>5, <1>11, <2>1, ServiceSteps DEF ConnStep
<1>12. CASE RequestComplete \/ RequestFails \/ Issue
  BY <1>1, <1>2, <1>6, <1>12, ServiceSteps DEF ConnStep
<1>13. CASE KmsSigns \/ KmsFails
  BY <1>1, <1>6, <1>13, ServiceSteps DEF ConnStep
<1>14. CASE Close
  BY <1>1, <1>5, <1>14, ServiceSteps DEF ConnStep
<1>15. CASE Restart
  BY <1>2, <1>15 DEF Restart
<1>16. CASE AcceptFails
  <2>1. conns[c] \in Conn
    BY <1>1, ElementOfSeq DEF ConnTypes
  <2>2. conns'[c] = conns[c]
        \/ conns'[c] = [conns[c] EXCEPT !.state = "closed", !.broken = TRUE]
    BY <1>1, <1>16, Refused
  <2> QED
    BY <1>1, <1>16, <2>1, <2>2, Refused DEF Conn
<1>17. ASSUME NEW b \in DOMAIN conns, Arrive(b) \/ Deliver(b) \/ Break(b) PROVE Kept
  BY <1>1, <1>3, <1>4, <1>17, NetworkSteps DEF ConnStep
<1> QED
  BY <1>7, <1>9, <1>10, <1>11, <1>12, <1>13, <1>14, <1>15, <1>16, <1>17 DEF Next, ServiceStep

(* A connection that was not there before was opened by an nr_enroll, for  *)
(* the key pair its device holds, or by a stranger.                        *)
LEMMA NewConnections ==
  ASSUME TypeOK, Next, NEW c \in DOMAIN conns' \ DOMAIN conns
  PROVE  \/ \E d \in Devices : Enroll(d) /\ conns'[c] = Connection(d, keypair[d])
         \/ \E peer \in Strangers : conns'[c] = Connection(peer, 0)
<1>1. ConnTypes /\ ServiceTypes /\ DeviceTypes
  BY Parts
<1>2. DOMAIN conns' # DOMAIN conns
  OBVIOUS
<1>3. ASSUME NEW b, NEW field, Touches(b, field) PROVE FALSE
  BY <1>2, <1>3 DEF Touches
<1>4. ASSUME NEW d \in Devices, Enroll(d)
      PROVE  conns'[c] = Connection(d, keypair[d])
  <2>1. Open(d, keypair[d]) /\ keypair[d] \in 0..MaxKeys
    BY <1>1, <1>4 DEF Enroll, BuildCsr, DeviceTypes
  <2> QED
    BY <1>1, <2>1, Opened DEF ConnTypes
<1>5. ASSUME NEW peer \in Strangers, Stranger(peer) PROVE conns'[c] = Connection(peer, 0)
  BY <1>1, <1>5, Opened, EnrollmentAssumption DEF Stranger, ConnTypes
<1>6. ASSUME NEW d \in Devices, EnrollReturns(d) \/ Crash(d) PROVE FALSE
  BY <1>1, <1>2, <1>3, <1>6, DeviceSteps
<1>7. ASSUME NEW d \in Devices, GenerateKeypair(d) \/ EnrollFails(d) PROVE FALSE
  BY <1>2, <1>7 DEF GenerateKeypair, EnrollFails
<1>8. CASE ServiceStep \/ KmsSigns
  BY <1>1, <1>2, <1>3, <1>8, ServiceSteps DEF ServiceStep, Restart, ConnStep
<1>9. CASE AcceptFails
  BY <1>1, <1>2, <1>9, Refused
<1>10. ASSUME NEW b \in DOMAIN conns, Arrive(b) \/ Deliver(b) \/ Break(b) PROVE FALSE
  BY <1>1, <1>3, <1>10, NetworkSteps DEF ConnStep
<1> QED
  BY <1>4, <1>5, <1>6, <1>7, <1>8, <1>9, <1>10 DEF Next

(* Only KmsSigns issues, for the connection it serves; key pairs are only  *)
(* generated, never taken back.                                            *)
LEMMA Histories ==
  ASSUME TypeOK, Next
  PROVE  /\ \A d \in Devices : generated[d] \in Nat /\ generated'[d] \in Nat
                               /\ generated[d] <= generated'[d]
         /\ issued \subseteq issued'
         /\ \/ issued' = issued
            \/ KmsSigns /\ issued' = issued \cup {<<conns[serving].from, conns[serving].key>>}
<1>1. \A d \in Devices : generated[d] \in Nat /\ generated'[d] \in Nat
                         /\ generated[d] <= generated'[d]
  <2>1. generated \in [Devices -> Nat]
    BY EnrollmentAssumption DEF TypeOK
  <2>2. CASE UNCHANGED generated
    BY <2>1, <2>2
  <2>3. ASSUME NEW d \in Devices, GenerateKeypair(d)
        PROVE  \A e \in Devices : generated'[e] \in Nat /\ generated[e] <= generated'[e]
    BY <2>1, <2>3 DEF GenerateKeypair
  <2>4. UNCHANGED generated \/ \E d \in Devices : GenerateKeypair(d)
    BY DEF Next, Enroll, EnrollFails, EnrollReturns, Crash, ServiceStep, Accept, Restart,
       RequestComplete, RequestFails, Issue, KmsFails, Close, AcceptFails, KmsSigns,
       Stranger, Arrive, Deliver, Break, history
  <2> QED
    BY <2>1, <2>2, <2>3, <2>4
<1>2. issued' = issued \/ KmsSigns
  BY DEF Next, GenerateKeypair, Enroll, EnrollFails, EnrollReturns, Crash, ServiceStep,
     Accept, Restart, RequestComplete, RequestFails, Issue, KmsFails, Close, AcceptFails,
     Stranger, Arrive, Deliver, Break, history
<1> QED
  BY <1>1, <1>2 DEF KmsSigns

\* Every key that is anywhere was generated, and a new one is new.
LEMMA NextKeysGenerated ==
  ASSUME TypeOK, KeysGenerated, ConnectionKeys, RepliesIssued, Next
  PROVE  KeysGenerated'
<1>1. \A d \in Devices : keypair'[d] <= generated'[d]
  <2>1. keypair \in [Devices -> Nat] /\ generated \in [Devices -> Nat]
    BY EnrollmentAssumption DEF TypeOK
  <2>2. CASE UNCHANGED <<keypair, generated>>
    BY <2>2 DEF KeysGenerated
  <2>3. ASSUME NEW d \in Devices, GenerateKeypair(d)
        PROVE  \A e \in Devices : keypair'[e] <= generated'[e]
    BY <2>1, <2>3 DEF GenerateKeypair, KeysGenerated
  <2>4. ASSUME NEW d \in Devices, Crash(d)
        PROVE  \A e \in Devices : keypair'[e] <= generated'[e]
    BY <2>1, <2>4 DEF Crash, KeysGenerated, history
  <2>5. \/ UNCHANGED <<keypair, generated>>
        \/ \E d \in Devices : GenerateKeypair(d) \/ Crash(d)
    BY DEF Next, Enroll, EnrollFails, EnrollReturns, ServiceStep, Accept, Restart,
       RequestComplete, RequestFails, Issue, KmsFails, Close, AcceptFails, KmsSigns,
       Stranger, Arrive, Deliver, Break, history, device
  <2> QED
    BY <2>2, <2>3, <2>4, <2>5
<1>2. \A pair \in issued' : pair[1] \in Allowed /\ pair[2] \in 1..generated[pair[1]]
  <2>1. CASE issued' = issued
    BY <2>1 DEF KeysGenerated
  <2>2. CASE KmsSigns /\ issued' = issued \cup {<<conns[serving].from, conns[serving].key>>}
    <3>1. serving \in DOMAIN conns /\ conns[serving].from \in Allowed
      BY <2>2 DEF KmsSigns, Serving, TypeOK, RepliesIssued
    <3>2. conns[serving].key \in 1..generated[conns[serving].from]
      BY <3>1, EnrollmentAssumption DEF ConnectionKeys
    <3> QED
      BY <2>2, <3>1, <3>2 DEF KeysGenerated
  <2> QED
    BY <2>1, <2>2, Histories
<1>3. \A pair \in issued' : pair[1] \in Allowed /\ pair[2] \in 1..generated'[pair[1]]
  BY <1>2, Histories, EnrollmentAssumption
<1> QED
  BY <1>1, <1>3 DEF KeysGenerated

\* The connection a device reads from carries the key it holds.
LEMMA NextConnectionKeys ==
  ASSUME TypeOK, KeysGenerated, ConnectionKeys, Next
  PROVE  ConnectionKeys'
<1>0. ConnTypes /\ ServiceTypes /\ DeviceTypes
  BY Parts
<1>1. ASSUME NEW c \in DOMAIN conns', conns'[c].from \in Devices
      PROVE  conns'[c].key \in 1..generated'[conns'[c].from]
  <2>1. CASE c \in DOMAIN conns
    <3>1. conns[c].from \in Devices /\ conns[c].key \in 1..generated[conns[c].from]
      BY <1>1, <2>1, PeersKept DEF ConnectionKeys
    <3> QED
      BY <2>1, <3>1, PeersKept, Histories
  <2>2. CASE c \notin DOMAIN conns
    <3>1. ASSUME NEW d \in Devices, Enroll(d), conns'[c] = Connection(d, keypair[d])
          PROVE  conns'[c].key \in 1..generated'[conns'[c].from]
      <4>1. conns'[c].from = d /\ conns'[c].key = keypair[d]
        BY <3>1 DEF Connection
      <4>2. keypair[d] \in 1..generated[d]
        BY <1>0, <3>1, EnrollmentAssumption DEF Enroll, KeysGenerated, DeviceTypes
      <4> QED
        BY <4>1, <4>2, Histories
    <3>2. ASSUME NEW peer \in Strangers, conns'[c] = Connection(peer, 0) PROVE FALSE
      BY <1>1, <3>2, EnrollmentAssumption DEF Connection
    <3> QED
      BY <2>2, <3>1, <3>2, NewConnections
  <2> QED
    BY <2>1, <2>2
<1>2. ASSUME NEW d \in Devices, reading'[d] # 0
      PROVE  conns'[reading'[d]].from = d /\ conns'[reading'[d]].key = keypair'[d]
  <2>1. CASE reading'[d] = reading[d] /\ keypair'[d] = keypair[d]
    BY <1>0, <1>2, <2>1, ReadingConn, PeersKept DEF ConnectionKeys
  <2>2. CASE Enroll(d)
    <3>1. Open(d, keypair[d]) /\ keypair[d] \in 0..MaxKeys /\ d \in Devices \cup Strangers
      BY <1>0, <2>2 DEF Enroll, BuildCsr, DeviceTypes
    <3>2. conns'[Len(conns) + 1] = Connection(d, keypair[d])
      BY <1>0, <3>1, Opened DEF ConnTypes
    <3>3. reading'[d] = Len(conns) + 1 /\ keypair'[d] = keypair[d]
      BY <1>0, <2>2 DEF Enroll, ConnTypes
    <3> QED
      BY <3>2, <3>3 DEF Connection
  <2>3. CASE \E e \in Devices : GenerateKeypair(e)
    BY <1>0, <1>2, <2>1, <2>3 DEF GenerateKeypair, ConnTypes, DeviceTypes
  <2>4. CASE \E e \in Devices : EnrollReturns(e) \/ Crash(e)
    BY <1>0, <1>2, <2>1, <2>4 DEF EnrollReturns, Crash, ConnTypes, DeviceTypes
  <2>5. CASE \E e \in Devices \ {d} : Enroll(e)
    BY <1>0, <2>1, <2>5 DEF Enroll, ConnTypes
  <2>6. CASE UNCHANGED <<reading, keypair>>
    BY <2>1, <2>6
  <2>7. \/ UNCHANGED <<reading, keypair>>
        \/ \E e \in Devices : GenerateKeypair(e) \/ EnrollReturns(e) \/ Crash(e) \/ Enroll(e)
    BY DEF Next, EnrollFails, ServiceStep, Accept, Restart, RequestComplete, RequestFails,
       Issue, KmsFails, Close, AcceptFails, KmsSigns, Stranger, Arrive, Deliver, Break, device
  <2> QED
    BY <2>2, <2>3, <2>4, <2>5, <2>6, <2>7
<1> QED
  BY <1>1, <1>2 DEF ConnectionKeys

\* A reply of 200 is sent for a certificate that was issued.
LEMMA NextRepliesIssued ==
  ASSUME TypeOK, RepliesIssued, Next
  PROVE  RepliesIssued'
<1>0. ConnTypes /\ ServiceTypes /\ DeviceTypes
  BY Parts
<1>1. stage' = "kms" => conns'[serving'].from \in Allowed
  <2>1. CASE UNCHANGED service
    BY <1>0, <2>1, PeersKept DEF service, ServiceTypes, RepliesIssued
  <2>2. CASE Issue
    BY <1>0, <2>2, PeersKept DEF Issue, Serving, Respond, MayEnroll, ServiceTypes
  <2>3. CASE stage' # "kms"
    BY <2>3
  <2>4. UNCHANGED service \/ stage' # "kms" \/ Issue
    BY DEF Next, GenerateKeypair, Enroll, EnrollFails, EnrollReturns, Crash, ServiceStep,
       Accept, Restart, RequestComplete, RequestFails, KmsFails, KmsSigns, Close,
       AcceptFails, Stranger, Arrive, Deliver, Break, Respond
  <2> QED
    BY <2>1, <2>2, <2>3, <2>4
<1>2. ASSUME NEW c \in DOMAIN conns', conns'[c].reply = "200"
      PROVE  <<conns'[c].from, conns'[c].key>> \in issued'
  <2>1. CASE c \notin DOMAIN conns
    BY <1>2, <2>1, NewConnections DEF Connection
  <2>2. CASE c \in DOMAIN conns /\ conns'[c].reply = conns[c].reply
    BY <1>2, <2>2, PeersKept, Histories DEF RepliesIssued
  <2>3. CASE c \in DOMAIN conns /\ c = serving /\ conns'[c].reply # conns[c].reply
    <3>1. CASE KmsSigns
      BY <2>3, <3>1, PeersKept DEF KmsSigns
    <3>2. ASSUME NEW b, NEW field, Touches(b, field), field # "reply" PROVE FALSE
      BY <2>3, <3>2 DEF Touches, Fields
    <3>3. ASSUME UNCHANGED conns PROVE FALSE
      BY <2>3, <3>3
    <3>4. ASSUME NEW s \in {"400", "403", "404"}, conns'[serving].reply = s PROVE FALSE
      BY <1>2, <2>3, <3>4
    <3>5. CASE ServiceStep
      BY <1>0, <3>2, <3>3, <3>4, <3>5, ServiceSteps DEF ServiceStep, Restart, ConnStep
    <3>6. CASE AcceptFails
      <4>1. serving = 0
        BY <1>0, <3>6 DEF AcceptFails, ServiceTypes
      <4>2. 0 \notin DOMAIN conns
        BY <1>0, LenProperties DEF ConnTypes
      <4> QED
        BY <2>3, <4>1, <4>2
    <3>7. ASSUME NEW peer \in Devices \cup Strangers, NEW k \in 0..MaxKeys, Open(peer, k)
          PROVE  FALSE
      BY <1>0, <2>3, <3>7, Opened DEF ConnTypes
    <3>8. ASSUME NEW d \in Devices,
                 GenerateKeypair(d) \/ EnrollFails(d) \/ EnrollReturns(d) \/ Crash(d)
          PROVE  FALSE
      <4>1. GenerateKeypair(d) \/ EnrollFails(d) => UNCHANGED conns
        BY DEF GenerateKeypair, EnrollFails
      <4>2. ~EnrollReturns(d)
        BY <1>0, <3>2, DeviceSteps
      <4>3. Crash(d) => UNCHANGED conns
        BY <1>0, <3>2, DeviceSteps
      <4> QED
        BY <3>3, <3>8, <4>1, <4>2, <4>3
    <3>9. ASSUME NEW d \in Devices, Enroll(d) PROVE FALSE
      BY <1>0, <3>7, <3>9 DEF Enroll, BuildCsr, DeviceTypes
    <3>10. ASSUME NEW peer \in Strangers, Stranger(peer) PROVE FALSE
      BY <3>7, <3>10, EnrollmentAssumption DEF Stranger
    <3>11. ASSUME NEW b \in DOMAIN conns, Arrive(b) \/ Deliver(b) \/ Break(b) PROVE FALSE
      BY <1>0, <3>2, <3>11, NetworkSteps DEF ConnStep
    <3> QED
      BY <3>1, <3>5, <3>6, <3>8, <3>9, <3>10, <3>11 DEF Next
  <2> QED
    BY <2>1, <2>2, <2>3, PeersKept
<1> QED
  BY <1>1, <1>2 DEF RepliesIssued

(* Only nr_enroll's return decides how a connection ends for its device.   *)
LEMMA OutcomesSet ==
  ASSUME TypeOK, Next, NEW c \in DOMAIN conns, conns'[c].outcome # conns[c].outcome
  PROVE  \E d \in Devices : EnrollReturns(d)
<1>0. ConnTypes /\ ServiceTypes /\ DeviceTypes
  BY Parts
<1>1. \A b, field : field \in Fields \ {"outcome"} => ~Touches(b, field)
  BY DEF Touches, Fields
<1>2. UNCHANGED conns => FALSE
  OBVIOUS
<1>3. ASSUME NEW d \in Devices, GenerateKeypair(d) \/ EnrollFails(d) \/ Crash(d)
      PROVE  FALSE
  BY <1>0, <1>1, <1>2, <1>3, DeviceSteps DEF GenerateKeypair, EnrollFails, Fields
<1>4. ASSUME NEW peer \in Devices \cup Strangers, NEW k \in 0..MaxKeys, Open(peer, k)
      PROVE  FALSE
  BY <1>0, <1>4, Opened DEF ConnTypes
<1>5. ASSUME NEW d \in Devices, Enroll(d) PROVE FALSE
  BY <1>0, <1>4, <1>5 DEF Enroll, BuildCsr, DeviceTypes
<1>6. ASSUME NEW peer \in Strangers, Stranger(peer) PROVE FALSE
  BY <1>4, <1>6, EnrollmentAssumption DEF Stranger
<1>7. CASE ServiceStep \/ KmsSigns
  BY <1>0, <1>1, <1>2, <1>7, ServiceSteps DEF ServiceStep, Restart, ConnStep, Fields
<1>8. CASE AcceptFails
  <2>1. conns[c] \in Conn
    BY <1>0, ElementOfSeq DEF ConnTypes
  <2>2. conns'[c] = conns[c]
        \/ conns'[c] = [conns[c] EXCEPT !.state = "closed", !.broken = TRUE]
    BY <1>0, <1>8, Refused
  <2> QED
    BY <2>1, <2>2 DEF Conn
<1>9. ASSUME NEW b \in DOMAIN conns, Arrive(b) \/ Deliver(b) \/ Break(b) PROVE FALSE
  BY <1>0, <1>1, <1>9, NetworkSteps DEF ConnStep, Fields
<1> QED
  BY <1>3, <1>5, <1>6, <1>7, <1>8, <1>9 DEF Next

(* nr_enroll gives up on what has arrived when the connection ends.        *)
LEMMA NextErrorsFinal ==
  ASSUME TypeOK, ErrorsFinal, Next
  PROVE  ErrorsFinal'
<1>0. ConnTypes /\ ServiceTypes /\ DeviceTypes
  BY Parts
<1>a. ASSUME NEW c \in DOMAIN conns', conns'[c].outcome = "mem" PROVE "mem" \in Faults
  <2>1. CASE c \notin DOMAIN conns
    BY <1>a, <2>1, NewConnections DEF Connection
  <2>2. CASE c \in DOMAIN conns /\ conns[c].outcome = "mem"
    BY <2>2 DEF ErrorsFinal
  <2>3. CASE c \in DOMAIN conns /\ conns'[c].outcome # conns[c].outcome
    <3>1. PICK d \in Devices : EnrollReturns(d)
      BY <2>3, OutcomesSet
    <3>2. c = reading[d]
      BY <1>0, <2>3, <3>1, DeviceSteps DEF Touches, Fields
    <3> QED
      BY <1>0, <1>a, <3>1, <3>2, DeviceSteps DEF Result
  <2> QED
    BY <1>a, <2>1, <2>2, <2>3
<1> SUFFICES ASSUME NEW c \in DOMAIN conns', conns'[c].outcome = "err", ~conns'[c].broken
             PROVE  conns'[c].state = "closed" /\ conns'[c].reply # "200"
  BY <1>a DEF ErrorsFinal
<1>1. CASE c \notin DOMAIN conns
  BY <1>1, NewConnections DEF Connection
<1>2. CASE c \in DOMAIN conns /\ conns[c].outcome = "err"
  <2>1. conns[c].state = "closed" /\ conns[c].reply # "200"
    BY <1>2, PeersKept DEF ErrorsFinal
  <2>2. c # serving
    BY <1>0, <1>2, <2>1 DEF ServiceTypes, ConnTypes
  <2> QED
    BY <1>2, <2>1, <2>2, PeersKept
<1>3. CASE c \in DOMAIN conns /\ conns[c].outcome # "err"
  <2>1. PICK d \in Devices : EnrollReturns(d)
    BY <1>3, OutcomesSet
  <2>2. c = reading[d] /\ ~Accepts(c)
    BY <1>0, <1>3, <2>1, DeviceSteps DEF Touches, Fields, Result
  <2>3. conns[c].state = "closed" /\ conns[c].got = 3
    BY <1>3, <2>1, <2>2, PeersKept DEF EnrollReturns, ReplyEnds
  <2>4. conns[c].reply # "200"
    BY <2>2, <2>3 DEF Accepts
  <2>5. c # serving
    BY <1>0, <1>3, <2>3 DEF ServiceTypes, ConnTypes
  <2> QED
    BY <1>3, <2>3, <2>4, <2>5, PeersKept
<1> QED
  BY <1>1, <1>2, <1>3

(* A certificate is stored where it is for the key the device holds.       *)
LEMMA StoredFits ==
  ASSUME TypeOK, ConnectionKeys, Next, NEW d \in Devices,
         certOut'[d] \notin {certOut[d], NoCert}
  PROVE  /\ EnrollReturns(d) /\ Accepts(reading[d]) /\ reading[d] \in DOMAIN conns
         /\ certOut'[d].key = conns[reading[d]].key
         /\ conns[reading[d]].from = d /\ conns[reading[d]].key = keypair[d]
         /\ keypair'[d] = keypair[d]
<1>1. ConnTypes /\ DeviceTypes
  BY Parts
<1>2. EnrollReturns(d)
  <2>1. ASSUME NEW e \in Devices, EnrollReturns(e) PROVE e = d
    BY <1>1, <2>1 DEF EnrollReturns, Store, DeviceTypes
  <2>2. ASSUME NEW e \in Devices, Crash(e) PROVE FALSE
    BY <1>1, <2>2 DEF Crash, DeviceTypes
  <2>3. \/ UNCHANGED certOut
        \/ \E e \in Devices : EnrollReturns(e) \/ Crash(e)
    BY DEF Next, GenerateKeypair, Enroll, EnrollFails, ServiceStep, Accept, Restart,
       RequestComplete, RequestFails, Issue, KmsFails, Close, AcceptFails, KmsSigns,
       Stranger, Arrive, Deliver, Break, device
  <2> QED
    BY <2>1, <2>2, <2>3
<1>3. Accepts(reading[d]) /\ certOut'[d].key = conns[reading[d]].key /\ UNCHANGED keypair
  BY <1>1, <1>2 DEF EnrollReturns, Store, DeviceTypes
<1>4. reading[d] # 0 /\ reading[d] \in DOMAIN conns
  BY <1>1, <1>2, ReadingConn DEF EnrollReturns
<1> QED
  BY <1>2, <1>3, <1>4 DEF ConnectionKeys

\* What nr_enroll stores came in such a reply.
LEMMA NextStoredCertIssued ==
  ASSUME IInv, Next
  PROVE  StoredCertIssued'
<1> USE DEF IInv
<1> SUFFICES ASSUME NEW d \in Devices, certOut'[d] # NoCert
             PROVE  /\ d \in Allowed /\ <<d, certOut'[d].key>> \in issued'
                    /\ certOut'[d].key \in 1..generated'[d]
  BY DEF StoredCertIssued
<1>1. CASE certOut'[d] = certOut[d]
  BY <1>1, Histories DEF StoredCertIssued
<1>2. CASE certOut'[d] # certOut[d]
  <2>1. /\ Accepts(reading[d]) /\ reading[d] \in DOMAIN conns
        /\ conns[reading[d]].from = d /\ certOut'[d].key = conns[reading[d]].key
    BY <1>2, StoredFits
  <2>2. <<d, certOut'[d].key>> \in issued
    BY <2>1 DEF Accepts, RepliesIssued
  <2>3. d \in Allowed /\ certOut'[d].key \in 1..generated[d]
    BY <2>2 DEF KeysGenerated
  <2> QED
    BY <2>2, <2>3, Histories
<1> QED
  BY <1>1, <1>2
-----------------------------------------------------------------------------
(* The theorems.                                                           *)

\* The invariant holds at the start.
LEMMA InitIInv == Init => IInv
<1> SUFFICES ASSUME Init PROVE IInv
  OBVIOUS
<1>1. DOMAIN conns = {}
  BY DEF Init
<1>2. KeysGenerated /\ ConnectionKeys /\ RepliesIssued /\ ErrorsFinal /\ StoredCertIssued
  BY <1>1 DEF Init, KeysGenerated, ConnectionKeys, RepliesIssued, ErrorsFinal, StoredCertIssued
<1> QED
  BY <1>2, InitTypeOK DEF IInv

\* Where nothing changes it goes on holding.
LEMMA StutterIInv ==
  ASSUME IInv, UNCHANGED vars
  PROVE  IInv'
BY DEF IInv, TypeOK, KeysGenerated, ConnectionKeys, RepliesIssued, ErrorsFinal,
   StoredCertIssued, vars, device, service, history

\* Hence it always holds.
LEMMA Inductive == Spec => []IInv
<1>1. IInv /\ Next => IInv'
  BY NextTypeOK, NextKeysGenerated, NextConnectionKeys, NextRepliesIssued, NextErrorsFinal,
     NextStoredCertIssued DEF IInv
<1>2. IInv /\ [Next]_vars => IInv'
  BY <1>1, StutterIInv
<1> QED
  BY InitIInv, <1>2, PTL DEF Spec

(* Every variable of the devices and the service keeps its type, and       *)
(* handle_client always works on a connection it accepted and has not      *)
(* closed.                                                                 *)
THEOREM TypeCorrect == Spec => []TypeOK
<1>1. IInv => TypeOK
  BY DEF IInv
<1> QED
  BY <1>1, Inductive, PTL

(* Whatever nr_enroll stores was issued by nr_enrollment_issue_certificate *)
(* to that device, which is on the allowlist, for a key pair it generated  *)
(* itself.                                                                 *)
THEOREM OnlyIssuedStored == Spec => []StoredCertIssued
<1>1. IInv => StoredCertIssued
  BY DEF IInv
<1> QED
  BY <1>1, Inductive, PTL

(* A certificate the service sent over a connection that did not break is  *)
(* never taken by nr_enroll for an error or for something else: NR_ERR_MEM *)
(* is all it fails with, and only where a buffer may be too small for it.  *)
THEOREM NothingDiscarded == Spec => []IssuedIsStored
<1>1. IInv => IssuedIsStored
  BY DEF IInv, ErrorsFinal, IssuedIsStored
<1> QED
  BY <1>1, Inductive, PTL

(* At the moment nr_enroll stores a certificate, it is for the key pair in *)
(* ctx->keypair, whatever was generated, lost or enrolled before.          *)
THEOREM FittingKey == Spec => CertFitsKey
<1>1. IInv /\ [Next]_vars =>
        [\A d \in Devices : certOut'[d] \notin {certOut[d], NoCert}
           => certOut'[d].key = keypair'[d]]_vars
  <2> SUFFICES ASSUME IInv, Next, NEW d \in Devices, certOut'[d] \notin {certOut[d], NoCert}
               PROVE  certOut'[d].key = keypair'[d]
    OBVIOUS
  <2> QED
    BY StoredFits DEF IInv
<1> QED
  BY <1>1, Inductive, PTL DEF Spec, CertFitsKey
=============================================================================
