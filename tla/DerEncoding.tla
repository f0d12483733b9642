---------------------------- MODULE DerEncoding ----------------------------
(***************************************************************************)
(* How the enrollment service builds the certificate it sends: the         *)
(* TBSCertificate, the algorithm and the signature KMS returned, joined    *)
(* under one DER header (enrollment/src/enrollment.c).  A byte is a number *)
(* in 0..255.  The three parts are opaque; OpenSSL has encoded them.       *)
(***************************************************************************)
EXTENDS Integers, Sequences

\* Bytes of a number without leading zeros: the loop over tmp >>= 8
BytesOf[n \in Nat] == IF n = 0 THEN 0 ELSE 1 + BytesOf[n \div 256]

\* Mutant: the short form for one length too many
DerLenSizeMutant(len) == IF len <= 128 THEN 1 ELSE 1 + BytesOf[len]
DerLenSize(len) == IF len < 128 THEN 1 ELSE 1 + BytesOf[len]

WriteDerLen(len) ==
  IF len < 128 THEN <<len>>
  ELSE LET bytes == DerLenSize(len) - 1
       IN <<128 + bytes>> \o
            [i \in 1..bytes |-> (len \div 256^(bytes - i)) % 256]

(* assemble_certificate_der: the size of the buffer it allocates, and what *)
(* it writes; only the lengths of the parts matter.                        *)
AssembleCertificateDer(tbs, alg, bit) ==
  LET content == tbs + alg + bit
  IN [allocated |-> 1 + DerLenSize(content) + content,
      header |-> <<48>> \o WriteDerLen(content),
      content |-> content]
-----------------------------------------------------------------------------
(* The reference: X.690 8.1.3, read from the first byte on.                *)

Number[bytes \in Seq(0..255)] ==
  IF bytes = <<>> THEN 0
  ELSE 256 * Number[SubSeq(bytes, 1, Len(bytes) - 1)] + bytes[Len(bytes)]

\* The content length a decoder reads, and where it finds the content
Decode(header) ==
  IF header[2] < 128 THEN [length |-> header[2], at |-> 3]
  ELSE LET size == header[2] - 128
       IN [length |-> Number[SubSeq(header, 3, 2 + size)], at |-> 3 + size]

\* DER wants the shortest form
Minimal(header) == header[2] >= 128 => header[3] # 0 /\ (header[2] = 129 => header[3] >= 128)
=============================================================================
