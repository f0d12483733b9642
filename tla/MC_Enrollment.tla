--------------------------- MODULE MC_Enrollment ---------------------------
(***************************************************************************)
(* The instance of Enrollment for TLC, with the inputs for the algorithms  *)
(* the service applies to every request.  The quantified comparisons below *)
(* are constant, so that TLC evaluates each once; the properties say at    *)
(* which point of an enrollment their result counts.                       *)
(***************************************************************************)
EXTENDS Enrollment, DerEncoding, HttpRequest, KmsClient,
  EnrollConfig, EnrollReply
-----------------------------------------------------------------------------
(* Requests as a peer composes them, with what a header value means.       *)

Header(name, text, means) == [name |-> name, text |-> text, means |-> means]

Lengths ==
  {Header("length:", v[1], v[2]) : v \in
     {<< <<"0">>, 0>>, << <<" ", "3", " ">>, 3>>, << <<"0", "1">>, 1>>, << <<"9">>, 9>>,
      << <<>>, 0>>, << <<"x">>, -1>>, << <<"1", " ", "1">>, -1>>,
      << <<"-", "1">>, -1>>, << <<"9", "9">>, -1>>,
      << <<"-", "9", "9", "9", "9", "9">>, 1>>}}
Ids == {Header("device:", t, 0) : t \in {<<"x">>, <<" ", "x", "3">>, <<"x", "x", "x", "x">>}}
Other == Header("other:", <<"-">>, 0)

HeaderLists ==
  {<<l>> : l \in Lengths} \cup {<<d>> : d \in Ids}
    \cup {<<l, d>> : l \in Lengths, d \in Ids}
    \cup {<<d, Other, l>> : d \in Ids, l \in Lengths}
    \cup {<<l, m, d>> : l \in Lengths, m \in Lengths, d \in {h \in Ids : Len(h.text) = 1}}
Bodies == {<<>>, <<"x">>, <<"cr", "lf", "cr">>, Crlf \o Crlf, <<"x">> \o Crlf \o Crlf \o <<"x", "x", "x", "x">>}
Lines == {"POST /enroll HTTP/1.1", "POST /enroll anything", "GET / HTTP/1.1"}
Requests == [line : Lines, headers : HeaderLists, body : Bodies]

Encoded(req) ==
  <<req.line>> \o Crlf
    \o FlattenSeq([i \in DOMAIN req.headers |->
                     <<req.headers[i].name>> \o req.headers[i].text \o Crlf])
    \o Crlf \o req.body

\* Of the headers of a name the first counts
Places(req, name)  == {i \in DOMAIN req.headers : req.headers[i].name = name}
FirstOf(req, name) == req.headers[Min(Places(req, name))]

\* It counts once it has arrived in full; what follows it is ignored
Meant(req) ==
  LET header  == Len(Encoded(req)) - Len(req.body)
      content == FirstOf(req, "length:").means
      id      == Trim(FirstOf(req, "device:").text, Blank)
  IN IF \/ Places(req, "length:") = {} \/ content = -1 \/ content > Len(req.body)
        \/ header + content > RequestMaxBytes
     THEN Refused("malformed enrollment request")
     ELSE IF req.line \notin EnrollLines THEN Refused("expected POST /enroll")
     ELSE IF Places(req, "device:") = {} \/ Len(id) > DeviceIdMaxBytes
     THEN Refused("missing or invalid X-Device-Id")
     ELSE [status |-> "issue", device |-> id, csr |-> SubSeq(req.body, 1, content)]

\* In one piece, in two, with one byte on its own, byte by byte
Cuts(n) == {{i} : i \in 0..n} \cup {{i, i + 1} : i \in 1..n} \cup {1..n}

ReadsAsMeant ==
  \A req \in Requests :
    LET bytes == Encoded(req)
    IN \A cuts \in Cuts(Len(bytes)) : HandleClient(bytes, cuts) = Meant(req)

(* A request is judged by what it says and not by the pieces it arrives    *)
(* in, up to the last byte that fits: read_request neither waits for more  *)
(* than Content-Length nor cuts off less, and the headers handle_client    *)
(* finds in the result are those read_request found.                       *)
HandledAsMeant == \A c \in DOMAIN conns : conns[c].state # "queued" => ReadsAsMeant
-----------------------------------------------------------------------------
\* Lengths of the parts of a certificate around the limits of DER's length forms
PartLengths == (0..3) \cup (110..130) \cup (240..260) \cup {65500, 65501, 16777200}

AssemblyDecodes ==
  \A tbs \in PartLengths, bit \in 0..30 :
    LET der == AssembleCertificateDer(tbs, 12, bit) IN
    /\ der.allocated = Len(der.header) + der.content
    /\ Decode(der.header) = [length |-> tbs + 12 + bit, at |-> Len(der.header) + 1]
    /\ Minimal(der.header)

(* Every certificate sent was written into a buffer that holds exactly it, *)
(* and a decoder finds its parts where they are.                           *)
CertificateDecodes == \A c \in DOMAIN conns : conns[c].reply = "200" => AssemblyDecodes
-----------------------------------------------------------------------------
(* What KMS makes of the request, with the secrets it keeps.               *)

Region == "ap-south-1"
Secret == [AKIA |-> "s1", ASIA |-> "s2"]
KeyIds == SeqOf({"a", ":", "/", Quote, Backslash}, 3)
Digests == {<<0, 16>>, <<255, 254>>}
Configs ==
  [keyId : KeyIds, region : {Region}, accessKey : {"AKIA"}, secret : {"s1"}, token : {NoToken}]
    \cup [keyId : {<<"a">>}, region : {Region}, accessKey : {"ASIA"}, secret : {"s2"}, token : {"t"}]

ValueAt(headers, name) == (CHOOSE h \in headers : h[1] = name)[2]

\* Signature Version 4: the signature covers the headers it names as they arrived
Authentic(request) ==
  LET auth   == request.authorization
      value(name) == ValueAt(request.headers, name)
      arrived == [i \in DOMAIN auth.signed |-> <<auth.signed[i], value(auth.signed[i])>>]
  IN /\ {h[1] : h \in request.headers} = Range(auth.signed)
     /\ auth.scope = <<value("x-amz-date")[1], Region, "kms", "aws4_request">>
     /\ auth.signature =
          Hmac(FoldLeft(Hmac, <<"AWS4", Secret[auth.accessKey]>>, auth.scope),
               <<"AWS4-HMAC-SHA256", value("x-amz-date"), auth.scope,
                 Hash(<<"POST", "/", "", arrived, auth.signed, Hash(request.body)>>)>>)

(* The fields of a JSON object of strings, as a JSON parser reads them:    *)
(* each name with the value behind it, escapes undone.                     *)
StringAt(json, start) ==
  LET read[at \in start..(Len(json) + 1)] ==
        IF at > Len(json) \/ json[at] = Quote THEN [text |-> <<>>, next |-> at + 1]
        ELSE LET size == IF json[at] = Backslash /\ at < Len(json) THEN 2 ELSE 1
                 rest == read[at + size]
             IN [text |-> <<json[at + size - 1]>> \o rest.text, next |-> rest.next]
  IN read[start]
FieldsOf(json) ==
  LET fields[at \in 1..Len(json)] ==
        IF json[at] = "}" THEN {}
        ELSE LET name  == StringAt(json, at + 2)
                 value == StringAt(json, name.next + 2)
                 rest  == IF value.next \in (at + 1)..Len(json) THEN fields[value.next] ELSE {}
             IN {<<name.text, value.text>>} \cup rest
  IN fields[1]

SignsWhatWasMeant ==
  \A cfg \in Configs, digest \in Digests :
    LET request == SignRequest(cfg, digest, [day |-> 7, time |-> 1]) IN
    /\ Authentic(request)
    /\ FieldsOf(request.body) =
         {<< <<"KeyId">>, cfg.keyId>>, << <<"Message">>, EncodeBlock(digest)>>,
          << <<"MessageType">>, <<"DIGEST">> >>,
          << <<"SigningAlgorithm">>, <<"ECDSA_SHA_256">> >>}

(* KMS understands every request the service sends, with and without a     *)
(* session token: it finds the signature over what it received to be the   *)
(* one sent, and reads from the body the configured key, the digest, and   *)
(* the two fields that make it a digest to sign with ECDSA.                *)
RequestUnderstood == stage = "kms" => SignsWhatWasMeant

\* KMS's answers: the fields in any order, blanks where JSON allows them
Answer(order, blank, value) ==
  LET field(name) == <<Quote, name, Quote>> \o blank \o <<":">> \o blank
                       \o <<Quote>> \o value[name] \o <<Quote>>
  IN <<"{">> \o field(order[1]) \o <<",">> \o blank \o field(order[2])
       \o <<",">> \o field(order[3]) \o blank \o <<"}">>

SignaturesRead ==
  \A bytes \in SeqOf({0, 48, 255}, 4) \ {<<>>}, blank \in {<<>>, <<" ", " ">>} :
    \A order \in SetToSeqs({"KeyId", "Signature", "SigningAlgorithm"}) :
      SignResponse(Answer(order, blank,
        [KeyId |-> <<"a", ":", "a">>, Signature |-> EncodeBlock(bytes),
         SigningAlgorithm |-> <<"E">>])) = bytes

(* The signature in a certificate is the one KMS returned, of any length   *)
(* and wherever its answer has it.                                         *)
SignatureRead == \A c \in DOMAIN conns : conns[c].reply = "200" => SignaturesRead
-----------------------------------------------------------------------------
(* Environments and allowlists the service may be started with.            *)

Needed  == [caCert : {<<"f">>}, keyId : {<<"k">>, <<>>}, accessKey : {<<"i">>}, secret : {<<"s">>, NoString}]
Numbers == {NoString, <<>>, <<"0">>, <<"1">>, <<" ", "9">>, <<"9", " ">>, <<"-", "1">>,
            <<"6", "5", "5", "3", "5">>, <<"6", "5", "5", "3", "6">>,
            <<"-", "9", "9", "9", "9", "9">>}
Environments ==
  [port : Numbers, ttl : {NoString, <<"1">>, <<"0">>, <<"-", "9", "9", "9", "9", "9">>}, region : {NoString, <<"r">>},
   defaultRegion : {<<>>, <<"r">>}, required : Needed, token : {NoString},
   allowlist : {NoString, <<"path">>}, allowAny : {NoString, <<>>, <<"0">>, <<"1">>}]
FileLines ==
  {<<"a", "\n">>, <<" ", "a", "b", " ", "\r", "\n">>, <<"#", "a", "\n">>, <<"\n">>,
   <<" ", "#", " ", "b", "\n">>, <<"a", " ", "#", "b", "\n">>, <<"a", "b">>}
Files == {NoFile} \cup SeqOf(FileLines, 2)

\* The id is on the line, alone
Names(fileLine, id) ==
  \E i \in 1..(Len(fileLine) - Len(id) + 1) :
    /\ SubSeq(fileLine, i, i + Len(id) - 1) = id
    /\ \A j \in DOMAIN fileLine \ (i..(i + Len(id) - 1)) : fileLine[j] \in Space

StartsAsConfigured ==
  \A env \in Environments, file \in Files :
    LET cfg == Load(env, file) IN cfg # NoConfig =>
      /\ cfg.port > 0 /\ cfg.port <= 65535 /\ cfg.ttl > 0 /\ cfg.region = <<"r">>
      /\ \A id \in {<<"a">>, <<"b">>, <<"a", "b">>, <<"#", "a">>, <<"a", "a", "a">>} :
           MayIssue(cfg, id, 2) <=>
             /\ Len(id) <= 2 /\ "#" \notin Range(id)
             /\ \/ env.allowAny = <<"1">>
                \/ env.allowlist = <<"path">> /\ \E l \in Range(file) : Names(l, id)

(* Certificates go to the devices the allowlist names, one on a line, with *)
(* or without blanks, comments and a newline at the end of the file, and   *)
(* to any device only if the environment says so in the documented way.    *)
IssuedAsConfigured == \A c \in DOMAIN conns : conns[c].reply = "200" => StartsAsConfigured
-----------------------------------------------------------------------------
\* Certificates from well below to well above the device's buffers
Certificates == {<<"begin">> \o [i \in 1..n |-> "x"] : n \in 0..(EnrollBufSize + 2)}

StoredOrRefused ==
  \A cert \in Certificates, size \in 0..(EnrollBufSize + 4) :
    LET reply  == SendResponse("200", cert)
        result == NrEnroll(reply, Len(reply), size)
    IN /\ result.rc = "ok" <=> Len(cert) + 1 <= size /\ Len(cert) + 1 <= MaxPemLen
       /\ result.rc = "ok" => result.certOut = cert /\ result.cached = cert
       /\ \A arrived \in 0..(Len(reply) - Len(cert)) : NrEnroll(reply, arrived, size).rc # "ok"
       /\ NrEnroll(SendResponse("403", cert), Len(reply), size).rc # "ok"

(* A reply that arrives in full is stored as it was sent, terminator and   *)
(* all, whenever the caller's buffer and the context can hold it, and is   *)
(* otherwise refused: a reply that fills the read buffer is cut, but what  *)
(* is left of it is still too large to be taken for a certificate.         *)
StoredAsSent == \A c \in DOMAIN conns : conns[c].outcome # "none" => StoredOrRefused
=============================================================================
