---------------------------- MODULE EnrollReply ----------------------------
(***************************************************************************)
(* A reply of the enrollment service on its way into the buffers of the    *)
(* device: send_response (enrollment/src/http.c), the second half of       *)
(* nr__enroll_request and the end of nr_enroll (lib/nirantara-net).        *)
(* The header lines and a PEM's BEGIN line are one byte each.              *)
(***************************************************************************)
EXTENDS CText

CONSTANTS
  EnrollBufSize,  \* ENROLL_BUF_SIZE, scaled down
  MaxPemLen       \* NR_MAX_PEM_LEN, the size of ctx->client_cert_pem, scaled down

ASSUME ReplyAssumption == EnrollBufSize \in Nat \ {0} /\ MaxPemLen \in Nat \ {0}

End  == <<"cr", "lf", "cr", "lf">>
None == [rc |-> "none", certOut |-> <<>>, cached |-> <<>>]

\* send_response, and send_all until all is sent
SendResponse(status, body) ==
  <<status, "cr", "lf", "type:", "cr", "lf", "length:">> \o End \o body

\* What the SSL_read loop leaves in buf when that much of the reply arrives
ReadReply(reply, arrived) == SubSeq(reply, 1, Min({arrived, EnrollBufSize - 1}))

\* Mutant: the terminating NUL is forgotten
FitsMutant(len, size) == len <= size
Fits(len, size) == len < size

Error(rc) == [None EXCEPT !.rc = rc]

\* nr__enroll_request from SSL_read on, and what nr_enroll does with its result
NrEnroll(reply, arrived, certOutLen) ==
  LET buf  == ReadReply(reply, arrived)
      end  == Find(buf, End, 1)
      body == SubSeq(buf, end + 4, Len(buf))
  IN IF buf = <<>> \/ end = 0 THEN Error("proto")
     ELSE IF buf[1] # "200" \/ Find(body, <<"begin">>, 1) = 0 THEN Error("proto")
     ELSE IF ~Fits(Len(body), certOutLen) THEN Error("mem")
     ELSE IF ~Fits(Len(body), MaxPemLen)
     THEN [rc |-> "mem", certOut |-> body, cached |-> <<>>]
     ELSE [rc |-> "ok", certOut |-> body, cached |-> body]
=============================================================================
