---------------------------- MODULE HttpRequest ----------------------------
(***************************************************************************)
(* How the enrollment service reads and judges one request: read_request   *)
(* and the checks of handle_client (enrollment/src/http.c).                *)
(*                                                                         *)
(* A request is a sequence of bytes.  The request line and the names of    *)
(* headers (with their colon) are one byte each here; everything a border  *)
(* between two recv calls could fall into keeps its own: CR, LF, blanks,   *)
(* values and the body.                                                    *)
(***************************************************************************)
EXTENDS CText

CONSTANTS
  RequestMaxBytes,  \* REQUEST_MAX_BYTES, scaled down
  DeviceIdMaxBytes  \* DEVICE_ID_MAX_BYTES, scaled down

ASSUME RequestAssumption ==
  /\ RequestMaxBytes \in Nat /\ RequestMaxBytes < MaxUlong
  /\ DeviceIdMaxBytes \in Nat

Crlf     == <<"cr", "lf">>
Blank    == {" "}

HeadersEnd(buf) == Find(buf, Crlf \o Crlf, 1)

\* The value of the first header line of that name up to headersEnd
CopyHeaderValue(buf, headersEnd, name) ==
  LET starts == {1} \cup {i + 2 : i \in {j \in 1..headersEnd : Find(buf, Crlf, j) = j}}
      lines  == {l \in starts : l < headersEnd /\ buf[l] = name}
  IN IF lines = {} THEN NoString
     ELSE LET l == Min(lines)
          IN Trim(SubSeq(buf, l + 1, Find(buf, Crlf, l) - 1), Blank)

\* -1 stands for the function's failure
ParseContentLength(buf, headersEnd) ==
  LET value == CopyHeaderValue(buf, headersEnd, "length:")
  IN IF value = NoString THEN -1 ELSE StrToUl(value, RequestMaxBytes)

\* Mutant: complete only when another byte has come
CompleteMutant(total, headerBytes, contentLen) == total > headerBytes + contentLen
Complete(total, headerBytes, contentLen) == total >= headerBytes + contentLen

(* One turn of read_request's loop, after recv brought the total so far.   *)
(* length is the request's once it is complete, -1 after a failure;        *)
(* content is contentLen once have_content_len is set.                     *)
Received(bytes, total, state) ==
  LET buf == SubSeq(bytes, 1, total)
      end == HeadersEnd(buf)
      content == IF state.content >= 0 THEN state.content ELSE ParseContentLength(buf, end)
  IN IF state.length # 0 \/ end = 0 THEN state
     ELSE IF content = -1 THEN [state EXCEPT !.length = -1]
     ELSE [content |-> content,
           length |-> IF Complete(total, end + 3, content) THEN end + 3 + content ELSE 0]

(* The bytes arrive in pieces that end at cuts; then the peer closes.  The *)
(* result is the request's length, -1 for the function's failure.          *)
ReadRequest(bytes, cuts) ==
  LET last == Min({Len(bytes), RequestMaxBytes})
      after[total \in 0..last] ==
        IF total = 0 THEN [content |-> -1, length |-> 0]
        ELSE IF total \in cuts \cup {last} THEN Received(bytes, total, after[total - 1])
        ELSE after[total - 1]
  IN IF after[last].length = 0 THEN -1 ELSE after[last].length

(* Request lines that begin with "POST /enroll ", whatever follows in them, *)
(* as long as they are as long as the first.                               *)
EnrollLines == {"POST /enroll HTTP/1.1", "POST /enroll anything"}

IsEnrollPost(request) == request[1] \in EnrollLines /\ Find(request, Crlf, 1) # 0

Refused(status) == [status |-> status, device |-> <<>>, csr |-> <<>>]

\* handle_client up to nr_enrollment_issue_certificate
HandleClient(bytes, cuts) ==
  LET length  == ReadRequest(bytes, cuts)
      request == SubSeq(bytes, 1, length)
      end     == HeadersEnd(request)
      content == ParseContentLength(request, end)
      device  == CopyHeaderValue(request, end, "device:")
  IN CASE length = -1 -> Refused("malformed enrollment request")
       [] length # -1 /\ ~IsEnrollPost(request) -> Refused("expected POST /enroll")
       [] OTHER ->
            IF end = 0 \/ content = -1 THEN Refused("missing Content-Length")
            ELSE IF device = NoString \/ Len(device) > DeviceIdMaxBytes
                 THEN Refused("missing or invalid X-Device-Id")
            ELSE IF length - (end + 3) < content THEN Refused("incomplete request body")
            ELSE [status |-> "issue", device |-> device,
                  csr |-> SubSeq(request, end + 4, length)]
=============================================================================
