----------------------------- MODULE KmsClient -----------------------------
(***************************************************************************)
(* How the enrollment service asks AWS KMS for a signature and reads the   *)
(* answer (enrollment/src/kms.c): base64, JSON and the SigV4 request.      *)
(*                                                                         *)
(* A text is a sequence of characters, in which the name of a JSON field   *)
(* is one character.                                                       *)
(* SHA-256 and HMAC are free constructors: results are equal if and only   *)
(* if the arguments are.  A moment is a day and a time of that day.        *)
(***************************************************************************)
EXTENDS CText, SequencesExt

Failed == <<-1>>  \* no bytes
-----------------------------------------------------------------------------
(* Base64.  EncodeBlock and DecodeBlock are OpenSSL's EVP functions, which *)
(* take three bytes to four characters and back; a Pad decodes as zero.    *)

Alphabet ==
  <<"A", "B", "C", "D", "E", "F", "G", "H", "I", "J", "K", "L", "M", "N", "O", "P", "Q",
    "R", "S", "T", "U", "V", "W", "X", "Y", "Z", "a", "b", "c", "d", "e", "f", "g", "h",
    "i", "j", "k", "l", "m", "n", "o", "p", "q", "r", "s", "t", "u", "v", "w", "x", "y",
    "z", "0", "1", "2", "3", "4", "5", "6", "7", "8", "9", "+", "/">>
Pad     == "="
ValueOf == [c \in Range(Alphabet) \cup {Pad} |->
              IF c = Pad THEN 0 ELSE (CHOOSE i \in DOMAIN Alphabet : Alphabet[i] = c) - 1]

EncodeBlock(data) ==
  [i \in 1..(4 * ((Len(data) + 2) \div 3)) |->
     LET before  == 3 * ((i - 1) \div 4)
         byte(n) == IF before + n <= Len(data) THEN data[before + n] ELSE 0
         word    == 65536 * byte(1) + 256 * byte(2) + byte(3)
         nth     == (i - 1) % 4
     IN IF before + nth > Len(data) THEN Pad ELSE Alphabet[((word \div 64^(3 - nth)) % 64) + 1]]

DecodeBlock(text) ==
  [i \in 1..(3 * (Len(text) \div 4)) |->
     LET before  == 4 * ((i - 1) \div 3)
         char(n) == ValueOf[text[before + n]]
         word    == 262144 * char(1) + 4096 * char(2) + 64 * char(3) + char(4)
     IN (word \div 256^(2 - ((i - 1) % 3))) % 256]

Base64Encode(data) == EncodeBlock(data)

\* Mutant: at most one padding character is taken off
PaddingMutant(text) == IF text[Len(text)] = Pad THEN 1 ELSE 0
Padding(text) ==
  (IF text[Len(text)] = Pad THEN 1 ELSE 0) + (IF text[Len(text) - 1] = Pad THEN 1 ELSE 0)

Base64Decode(text) ==
  IF text = <<>> \/ Len(text) % 4 # 0 \/ ~(Range(text) \subseteq DOMAIN ValueOf) THEN Failed
  ELSE LET decoded == DecodeBlock(text)
       IN SubSeq(decoded, 1, Len(decoded) - Padding(text))
-----------------------------------------------------------------------------
(* JSON.                                                                   *)

Quote     == "quote"
Backslash == "backslash"

\* Mutant: backslashes are left as they are
JsonEscapeMutant(text) ==
  FlattenSeq([i \in DOMAIN text |->
    IF text[i] = Quote THEN <<Backslash, Quote>> ELSE <<text[i]>>])
JsonEscape(text) ==
  FlattenSeq([i \in DOMAIN text |->
    IF text[i] \in {Quote, Backslash} THEN <<Backslash, text[i]>> ELSE <<text[i]>>])

BuildJsonBody(keyId, message) ==
  <<"{", Quote, "KeyId", Quote, ":", Quote>> \o JsonEscape(keyId)
    \o <<Quote, ",", Quote, "Message", Quote, ":", Quote>> \o message
    \o <<Quote, ",", Quote, "MessageType", Quote, ":", Quote, "DIGEST", Quote,
         ",", Quote, "SigningAlgorithm", Quote, ":", Quote, "ECDSA_SHA_256", Quote, "}">>

(* Where the value that starts at a position ends: at the first quote no   *)
(* backslash stands before, or behind the text.                            *)
ValueEnd(json, start) ==
  LET end[at \in start..(Len(json) + 1)] ==
        IF at > Len(json) \/ json[at] = Quote THEN at
        ELSE IF json[at] = Backslash /\ at < Len(json) THEN end[at + 2]
        ELSE end[at + 1]
  IN end[start]

\* Mutant: the value follows the first colon of the text
JsonColonMutant(json, from) == Find(json, <<":">>, 1)
JsonColon(json, from) == Find(json, <<":">>, from)

JsonGetString(json, key) ==
  LET name  == Find(json, <<Quote, key, Quote>>, 1)
      colon == JsonColon(json, name + 3)
      open  == SelectInSubSeq(json, colon + 1, Len(json), LAMBDA c : c \notin Space)
      end   == ValueEnd(json, open + 1)
  IN IF \/ name = 0 \/ colon = 0 \/ open = 0
        \/ json[open] # Quote \/ end > Len(json)
     THEN NoString
     ELSE SubSeq(json, open + 1, end - 1)
-----------------------------------------------------------------------------
(* The signed request.                                                     *)

Hash(data)      == <<"sha256", data>>
Hmac(key, data) == <<"hmac", key, data>>
NoToken         == ""
Host(region)    == <<"kms.", region, ".amazonaws.com">>

\* utc_timestamps: one reading of the clock for both
Date(now)    == now.day
AmzDate(now) == <<now.day, now.time>>

BuildSigningKey(secret, date, region) ==
  Hmac(Hmac(Hmac(Hmac(<<"AWS4", secret>>, date), region), "kms"), "aws4_request")

CanonicalHeaders(cfg, amzDate) ==
  << <<"content-type", "application/x-amz-json-1.1">>, <<"host", Host(cfg.region)>>,
     <<"x-amz-date", amzDate>> >>
    \o (IF cfg.token = NoToken THEN <<>> ELSE << <<"x-amz-security-token", cfg.token>> >>)
    \o << <<"x-amz-target", "TrentService.Sign">> >>

\* Mutant: the session token is left out of the signature
SignedHeadersMutant(cfg) == <<"content-type", "host", "x-amz-date", "x-amz-target">>
SignedHeaders(cfg) ==
  <<"content-type", "host", "x-amz-date">>
    \o (IF cfg.token = NoToken THEN <<>> ELSE <<"x-amz-security-token">>)
    \o <<"x-amz-target">>

CanonicalRequest(headers, signed, body) == <<"POST", "/", "", headers, signed, Hash(body)>>
StringToSign(amzDate, scope, request) == <<"AWS4-HMAC-SHA256", amzDate, scope, Hash(request)>>

BuildAuthorization(cfg, body, date, amzDate) ==
  LET scope   == <<date, cfg.region, "kms", "aws4_request">>
      request == CanonicalRequest(CanonicalHeaders(cfg, amzDate), SignedHeaders(cfg), body)
  IN [accessKey |-> cfg.accessKey, scope |-> scope, signed |-> SignedHeaders(cfg),
      signature |-> Hmac(BuildSigningKey(cfg.secret, date, cfg.region),
                         StringToSign(amzDate, scope, request))]

(* nr_kms_sign_sha256_digest up to curl_easy_perform: what goes out.  libcurl *)
(* adds the host of the URL.                                                  *)
SignRequest(cfg, digest, now) ==
  LET body == BuildJsonBody(cfg.keyId, Base64Encode(digest))
  IN [headers |->
        {<<"content-type", "application/x-amz-json-1.1">>, <<"x-amz-target", "TrentService.Sign">>,
         <<"x-amz-date", AmzDate(now)>>, <<"host", Host(cfg.region)>>}
          \cup (IF cfg.token = NoToken THEN {} ELSE {<<"x-amz-security-token", cfg.token>>}),
      authorization |-> BuildAuthorization(cfg, body, Date(now), AmzDate(now)),
      body |-> body]

\* The rest of nr_kms_sign_sha256_digest, after a 200
SignResponse(json) ==
  LET text == JsonGetString(json, "Signature")
  IN IF text = NoString THEN Failed ELSE Base64Decode(text)
=============================================================================
