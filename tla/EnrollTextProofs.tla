-------------------------- MODULE EnrollTextProofs --------------------------
(***************************************************************************)
(* What the enrollment service makes of its allowlist and of the pieces of *)
(* a request, and the device of a reply, for texts of every length.        *)
(***************************************************************************)
EXTENDS MC_Enrollment, SequenceTheorems, FiniteSetTheorems, TLAPS

-----------------------------------------------------------------------------
(* Positions in a text.                                                    *)

(* The least of some positions, where there is one, ...                    *)
LEMMA MinIs ==
  ASSUME NEW S \in SUBSET Int, NEW n \in S, \A m \in S : n <= m
  PROVE  Min(S) = n
<1>1. \A k \in S : (\A m \in S : k <= m) => k = n
  OBVIOUS
<1> QED
  BY <1>1 DEF Min

(* which there is,                                                         *)
LEMMA MinOf ==
  ASSUME NEW S \in SUBSET Nat, S # {}
  PROVE  Min(S) \in S /\ \A m \in S : Min(S) <= m
<1> DEFINE T == {0..n : n \in S}
<1>1. T \subseteq FiniteSubsetsOf(Nat)
  <2>1. ASSUME NEW n \in S
        PROVE  0..n \in FiniteSubsetsOf(Nat)
    <3>1. n \in Int /\ 0 \in Int
      OBVIOUS
    <3>2. IsFiniteSet(0..n)
      BY <3>1, FS_Interval
    <3>3. 0..n \in SUBSET Nat
      OBVIOUS
    <3> QED
      BY <3>2, <3>3 DEF FiniteSubsetsOf
  <2> QED
    BY <2>1
<1>2. PICK I \in T : \A J \in T : <<J, I>> \notin StrictSubsetOrdering(Nat)
  <2>1. T # {}
    OBVIOUS
  <2>2. IsWellFoundedOn(StrictSubsetOrdering(Nat), FiniteSubsetsOf(Nat))
    BY FS_StrictSubsetOrderingWellFounded
  <2> HIDE DEF T
  <2> QED
    BY <1>1, <2>1, <2>2, WFMin
<1>3. PICK n \in S : I = 0..n
  OBVIOUS
<1>4. ASSUME NEW m \in S, m < n
      PROVE  FALSE
  <2>1. 0..m \subseteq 0..n /\ n \in 0..n /\ n \notin 0..m
    BY <1>4
  <2>2. 0..m \in SUBSET Nat /\ 0..n \in SUBSET Nat /\ 0..m # 0..n
    BY <2>1
  <2>3. <<0..m, 0..n>> \in StrictSubsetOrdering(Nat)
    BY <2>1, <2>2 DEF StrictSubsetOrdering
  <2> QED
    BY <1>2, <1>3, <2>3
<1>5. \A m \in S : n <= m
  BY <1>4
<1> QED
  BY <1>5, MinIs

(* and the greatest of a bounded set of them.                              *)
LEMMA MaxIs ==
  ASSUME NEW S \in SUBSET Int, NEW n \in S, \A m \in S : m <= n
  PROVE  Max(S) = n
<1>1. \A k \in S : (\A m \in S : k >= m) => k = n
  OBVIOUS
<1> QED
  BY <1>1 DEF Max

(* which there is, too.                                                    *)
LEMMA MaxOf ==
  ASSUME NEW b \in Nat, NEW S \in SUBSET (0..b), S # {}
  PROVE  Max(S) \in S /\ \A m \in S : m <= Max(S)
<1> DEFINE T == {b - m : m \in S}
<1>1. T \in SUBSET Nat /\ T # {}
  <2>1. \A m \in S : b - m \in Nat
    OBVIOUS
  <2> QED
    BY <2>1
<1>2. PICK n \in T : \A m \in T : n <= m
  <2> HIDE DEF T
  <2> QED
    BY <1>1, MinOf
<1>3. PICK k \in S : n = b - k
  OBVIOUS
<1>4. \A m \in S : m <= k
  <2>1. \A m \in S : b - k <= b - m
    BY <1>2, <1>3
  <2> QED
    BY <2>1
<1> QED
  BY <1>4, MaxIs

(* strstr finds the first match, ...                                       *)
LEMMA FindAt ==
  ASSUME NEW text, NEW s, Len(text) \in Nat, Len(s) \in Nat, NEW from \in Nat,
         NEW i \in Nat, from <= i, i <= Len(text) - Len(s) + 1, SubSeq(text, i, i + Len(s) - 1) = s,
         \A j \in from..(i - 1) : SubSeq(text, j, j + Len(s) - 1) # s
  PROVE  Find(text, s, from) = i
<1> DEFINE found == {j \in from..(Len(text) - Len(s) + 1) : SubSeq(text, j, j + Len(s) - 1) = s}
<1>1. found \in SUBSET Int /\ i \in found /\ \A j \in found : i <= j
  <2>1. i \in Int /\ found \in SUBSET Int
    OBVIOUS
  <2>2. i \in found
    OBVIOUS
  <2>3. ASSUME NEW j \in found, j < i PROVE FALSE
    <3>1. j \in from..(i - 1) /\ SubSeq(text, j, j + Len(s) - 1) = s
      BY <2>3
    <3> QED
      BY <3>1
  <2>4. \A j \in found : j \in Int
    OBVIOUS
  <2> HIDE DEF found
  <2> QED
    BY <2>1, <2>2, <2>3, <2>4
<1>2. Min(found) = i
  <2> HIDE DEF found
  <2> QED
    BY <1>1, MinIs
<1> QED
  BY <1>1, <1>2 DEF Find

(* which is one, unless there is none.                                     *)
LEMMA FoundAt ==
  ASSUME NEW text, NEW s, Len(text) \in Nat, Len(s) \in Nat, NEW from \in Nat \ {0}
  PROVE  \/ /\ Find(text, s, from) = 0
            /\ \A i \in from..(Len(text) - Len(s) + 1) : SubSeq(text, i, i + Len(s) - 1) # s
         \/ /\ Find(text, s, from) \in from..(Len(text) - Len(s) + 1)
            /\ SubSeq(text, Find(text, s, from), Find(text, s, from) + Len(s) - 1) = s
            /\ \A j \in from..(Find(text, s, from) - 1) : SubSeq(text, j, j + Len(s) - 1) # s
<1> DEFINE found == {j \in from..(Len(text) - Len(s) + 1) : SubSeq(text, j, j + Len(s) - 1) = s}
<1>1. CASE found = {}
  BY <1>1 DEF Find
<1>2. CASE found # {}
  <2>1. PICK i \in found : \A j \in found : i <= j
    <3>1. found \in SUBSET Nat
      OBVIOUS
    <3> HIDE DEF found
    <3> QED
      BY <1>2, <3>1, MinOf
  <2>2. \A j \in from..(i - 1) : SubSeq(text, j, j + Len(s) - 1) # s
    BY <2>1
  <2>3. i \in from..(Len(text) - Len(s) + 1) /\ SubSeq(text, i, i + Len(s) - 1) = s
    BY <2>1
  <2>4. Find(text, s, from) = i
    <3>1. found \in SUBSET Int
      OBVIOUS
    <3>2. Min(found) = i
      <4> HIDE DEF found
      <4> QED
        BY <2>1, <3>1, MinIs
    <3> QED
      BY <1>2, <3>2 DEF Find
  <2> QED
    BY <2>2, <2>3, <2>4
<1> QED
  BY <1>1, <1>2
-----------------------------------------------------------------------------
(* The reply on its way to the device.                                     *)

(* recv takes no more than is there and no more than fits.                 *)
LEMMA MinOfTwo ==
  ASSUME NEW m \in Int, NEW n \in Int
  PROVE  Min({m, n}) = IF m <= n THEN m ELSE n
<1>1. CASE m <= n
  BY <1>1, MinIs
<1>2. CASE ~(m <= n)
  BY <1>2, MinIs
<1> QED
  BY <1>1, <1>2

(* What the headers of a reply are made of, ...                            *)
HeaderBytes == {"cr", "lf", "type:", "length:"}

(* the blank line strstr looks for, ...                                    *)
LEMMA EndBytes ==
  /\ End \in Seq(HeaderBytes) /\ Len(End) = 4
  /\ End[1] = "cr" /\ End[2] = "lf" /\ End[3] = "cr" /\ End[4] = "lf"
<1>1. End = <<"cr", "lf", "cr", "lf">>
  BY DEF End
<1>3. End \in Seq(HeaderBytes)
  BY <1>1 DEF HeaderBytes
<1>4. Len(End) = 4
  BY <1>1
<1>5. End[1] = "cr" /\ End[2] = "lf" /\ End[3] = "cr" /\ End[4] = "lf"
  BY <1>1
<1> QED
  BY <1>3, <1>4, <1>5

(* and the eleven bytes send_response puts before the body: ...            *)
LEMMA ReplyBytes ==
  ASSUME NEW S, HeaderBytes \subseteq S, NEW status \in S, NEW body \in Seq(S)
  PROVE  /\ SendResponse(status, body) \in Seq(S)
         /\ Len(SendResponse(status, body)) = 11 + Len(body)
         /\ SendResponse(status, body)[1] = status
         /\ SendResponse(status, body)[2] = "cr" /\ SendResponse(status, body)[3] = "lf"
         /\ SendResponse(status, body)[4] = "type:"
         /\ SendResponse(status, body)[5] = "cr" /\ SendResponse(status, body)[6] = "lf"
         /\ SendResponse(status, body)[7] = "length:"
         /\ SendResponse(status, body)[8] = "cr" /\ SendResponse(status, body)[9] = "lf"
         /\ SendResponse(status, body)[10] = "cr" /\ SendResponse(status, body)[11] = "lf"
         /\ \A i \in 1..Len(body) : SendResponse(status, body)[i + 11] = body[i]
<1> DEFINE lines  == <<status, "cr", "lf", "type:", "cr", "lf", "length:">>
           header == lines \o End
<1>0. End \in Seq(S)
  BY EndBytes, SeqMonotonic
<1>1. lines \in Seq(S) /\ Len(lines) = 7
  <2>1. "cr" \in S /\ "lf" \in S /\ "type:" \in S /\ "length:" \in S
    BY DEF HeaderBytes
  <2>2. lines \in Seq(S)
    BY <2>1
  <2>3. Len(lines) = 7
    OBVIOUS
  <2> QED
    BY <2>2, <2>3
<1>2. /\ lines[1] = status /\ lines[2] = "cr" /\ lines[3] = "lf" /\ lines[4] = "type:"
      /\ lines[5] = "cr" /\ lines[6] = "lf" /\ lines[7] = "length:"
  OBVIOUS
<1>3. /\ header \in Seq(S) /\ Len(header) = 11
      /\ \A i \in 1..7 : header[i] = lines[i]
      /\ \A i \in 1..4 : header[i + 7] = End[i]
  <2> HIDE DEF lines
  <2>1. /\ header \in Seq(S) /\ Len(header) = Len(lines) + Len(End)
        /\ \A i \in 1..(Len(lines) + Len(End)) :
             header[i] = IF i <= Len(lines) THEN lines[i] ELSE End[i - Len(lines)]
    BY <1>1, <1>0, EndBytes, ConcatProperties
  <2> HIDE DEF header
  <2> QED
    BY <1>1, <2>1, EndBytes
<1>4. /\ header[1] = status /\ header[2] = "cr" /\ header[3] = "lf" /\ header[4] = "type:"
      /\ header[5] = "cr" /\ header[6] = "lf" /\ header[7] = "length:"
      /\ header[8] = "cr" /\ header[9] = "lf" /\ header[10] = "cr" /\ header[11] = "lf"
  <2> HIDE DEF lines, header
  <2>1. /\ header[1 + 7] = End[1] /\ header[2 + 7] = End[2]
        /\ header[3 + 7] = End[3] /\ header[4 + 7] = End[4]
    BY <1>3
  <2>2. header[8] = End[1] /\ header[9] = End[2] /\ header[10] = End[3] /\ header[11] = End[4]
    BY <2>1
  <2> QED
    BY <1>2, <1>3, <2>2, EndBytes
<1>5. SendResponse(status, body) = header \o body
  BY DEF SendResponse
<1>6. /\ header \o body \in Seq(S)
      /\ Len(header \o body) = 11 + Len(body)
      /\ \A i \in 1..11 : (header \o body)[i] = header[i]
      /\ \A i \in 1..Len(body) : (header \o body)[i + 11] = body[i]
  <2> DEFINE reply == header \o body
  <2>1. /\ reply \in Seq(S) /\ Len(reply) = Len(header) + Len(body)
        /\ \A i \in 1..(Len(header) + Len(body)) :
             reply[i] = IF i <= Len(header) THEN header[i] ELSE body[i - Len(header)]
    <3> HIDE DEF header
    <3> QED
      BY <1>3, ConcatProperties
  <2>2. Len(body) \in Nat
    OBVIOUS
  <2> HIDE DEF header, reply
  <2>3. reply \in Seq(S) /\ Len(reply) = 11 + Len(body)
    BY <1>3, <2>1
  <2>4. \A i \in 1..11 : reply[i] = header[i]
    BY <1>3, <2>1, <2>2
  <2>5. \A i \in 1..Len(body) : reply[i + 11] = body[i]
    BY <1>3, <2>1, <2>2
  <2> QED
    BY <2>3, <2>4, <2>5 DEF reply
<1> HIDE DEF header
<1> QED
  BY <1>4, <1>5, <1>6

(* strstr compares a part of the buffer with the blank line byte by byte.  *)
LEMMA IsEnd ==
  ASSUME NEW S, HeaderBytes \subseteq S, NEW buf \in Seq(S),
         NEW i \in Nat \ {0}, i + 3 <= Len(buf)
  PROVE  SubSeq(buf, i, i + 3) = End <=>
           buf[i] = "cr" /\ buf[i + 1] = "lf" /\ buf[i + 2] = "cr" /\ buf[i + 3] = "lf"
<1> DEFINE part == SubSeq(buf, i, i + 3)
<1>0. End \in Seq(S)
  BY EndBytes, SeqMonotonic
<1>1. /\ part \in Seq(S) /\ Len(part) = 4
      /\ \A j \in 1..4 : part[j] = buf[i + j - 1]
  <2>1. \A j \in i..(i + 3) : buf[j] \in S
    OBVIOUS
  <2>2. i \in Int /\ i + 3 \in Int /\ i <= i + 3 /\ (i + 3) - i + 1 = 4
    OBVIOUS
  <2> QED
    BY <2>1, <2>2, SubSeqProperties
<1>2. part[1] = buf[i] /\ part[2] = buf[i + 1] /\ part[3] = buf[i + 2] /\ part[4] = buf[i + 3]
  <2>1. /\ part[1] = buf[i + 1 - 1] /\ part[2] = buf[i + 2 - 1]
        /\ part[3] = buf[i + 3 - 1] /\ part[4] = buf[i + 4 - 1]
    <3> HIDE DEF part
    <3> QED
      BY <1>1
  <2>2. i + 1 - 1 = i /\ i + 2 - 1 = i + 1 /\ i + 3 - 1 = i + 2 /\ i + 4 - 1 = i + 3
    OBVIOUS
  <2> HIDE DEF part
  <2> QED
    BY <2>1, <2>2
<1>3. part = End <=> \A j \in 1..4 : part[j] = End[j]
  <2> HIDE DEF part
  <2> QED
    BY <1>1, <1>0, EndBytes, SeqEqual
<1>4. 1..4 = {1, 2, 3, 4}
  OBVIOUS
<1> HIDE DEF part
<1> QED
  BY <1>2, <1>3, <1>4, EndBytes DEF part

(* The blank line is found in a reply that arrived past it, at its place,  *)
(* and not in a shorter one, ...                                           *)
LEMMA HeaderFound ==
  ASSUME NEW S, HeaderBytes \subseteq S, NEW status \in S, status # "cr", NEW body \in Seq(S),
         NEW m \in 0..(11 + Len(body))
  PROVE  LET buf == SubSeq(SendResponse(status, body), 1, m) IN
         /\ buf \in Seq(S) /\ Len(buf) = m
         /\ m >= 1 => buf[1] = status
         /\ Find(buf, End, 1) = IF m >= 11 THEN 8 ELSE 0
         /\ m >= 11 => SubSeq(buf, 12, m) = SubSeq(body, 1, m - 11)
<1> DEFINE reply == SendResponse(status, body)
           buf   == SubSeq(reply, 1, m)
<1>1. /\ reply \in Seq(S) /\ Len(reply) = 11 + Len(body)
      /\ reply[1] = status /\ reply[2] = "cr" /\ reply[3] = "lf" /\ reply[4] = "type:"
      /\ reply[5] = "cr" /\ reply[6] = "lf" /\ reply[7] = "length:"
      /\ reply[8] = "cr" /\ reply[9] = "lf" /\ reply[10] = "cr" /\ reply[11] = "lf"
      /\ \A i \in 1..Len(body) : reply[i + 11] = body[i]
  BY ReplyBytes
<1>2. Len(body) \in Nat
  OBVIOUS
<1> HIDE DEF reply
<1>3. /\ buf \in Seq(S) /\ Len(buf) = m
      /\ \A i \in 1..m : buf[i] = reply[i]
  <2>1. \A i \in 1..m : reply[i] \in S
    BY <1>1, <1>2
  <2>2. 1 \in Int /\ m \in Int /\ (IF 1 <= m THEN m - 1 + 1 ELSE 0) = m /\ m - 1 + 1 = m
    BY <1>2
  <2>3. /\ buf \in Seq(S) /\ Len(buf) = IF 1 <= m THEN m - 1 + 1 ELSE 0
        /\ \A i \in 1..(m - 1 + 1) : buf[i] = reply[1 + i - 1]
    BY <2>1, <2>2, SubSeqProperties
  <2>4. \A i \in 1..m : 1 + i - 1 = i
    OBVIOUS
  <2> HIDE DEF buf
  <2> QED
    BY <2>2, <2>3, <2>4
<1> HIDE DEF buf
<1>4. \A i \in 1..7 : i + 3 <= m => SubSeq(buf, i, i + 3) # End
  <2> SUFFICES ASSUME NEW i \in 1..7, i + 3 <= m
               PROVE  SubSeq(buf, i, i + 3) # End
    OBVIOUS
  <2>1. i \in Nat \ {0} /\ i + 3 <= Len(buf)
    BY <1>3
  <2>2. ~(buf[i] = "cr" /\ buf[i + 1] = "lf" /\ buf[i + 2] = "cr")
    <3>1. buf[i] = reply[i] /\ buf[i + 1] = reply[i + 1] /\ buf[i + 2] = reply[i + 2]
      BY <1>3
    <3>2. i \in {1, 2, 3, 4, 5, 6, 7}
      OBVIOUS
    <3> QED
      BY <1>1, <3>1, <3>2
  <2>3. buf \in Seq(S)
    BY <1>3
  <2>4. SubSeq(buf, i, i + 3) = End <=>
          buf[i] = "cr" /\ buf[i + 1] = "lf" /\ buf[i + 2] = "cr" /\ buf[i + 3] = "lf"
    BY <2>1, <2>3, IsEnd
  <2> QED
    BY <2>2, <2>4
<1>5. CASE m < 11
  <2>1. Len(buf) - Len(End) + 1 = m - 3
    BY <1>2, <1>3, EndBytes
  <2>2. {i \in 1..(Len(buf) - Len(End) + 1) : SubSeq(buf, i, i + Len(End) - 1) = End} = {}
    <3>1. ASSUME NEW i \in 1..(m - 3) PROVE SubSeq(buf, i, i + Len(End) - 1) # End
      <4>1. i \in 1..7 /\ i + 3 <= m /\ i + Len(End) - 1 = i + 3
        BY <1>2, <1>5, EndBytes
      <4> QED
        BY <1>4, <4>1
    <3> QED
      BY <2>1, <3>1
  <2>3. Find(buf, End, 1) = 0
    BY <2>2 DEF Find
  <2> QED
    BY <1>1, <1>3, <1>5, <2>3 DEF buf, reply
<1>6. CASE m >= 11
  <2>1. Find(buf, End, 1) = 8
    <3>1. SubSeq(buf, 8, 8 + 3) = End
      <4>1. buf[8] = "cr" /\ buf[9] = "lf" /\ buf[10] = "cr" /\ buf[11] = "lf"
        BY <1>1, <1>3, <1>6
      <4>2. 8 \in Nat \ {0} /\ 8 + 3 <= Len(buf)
        BY <1>2, <1>3, <1>6
      <4> QED
        BY <1>3, <4>1, <4>2, IsEnd
    <3>2. Len(End) = 4 /\ Len(buf) = m /\ m \in Nat
      BY <1>2, <1>3, EndBytes
    <3>3. /\ 8 \in Nat /\ 1 \in Nat /\ 1 <= 8
          /\ 8 <= Len(buf) - Len(End) + 1 /\ SubSeq(buf, 8, 8 + Len(End) - 1) = End
      BY <1>6, <3>1, <3>2
    <3>4. \A j \in 1..(8 - 1) : SubSeq(buf, j, j + Len(End) - 1) # End
      <4>1. ASSUME NEW j \in 1..(8 - 1) PROVE SubSeq(buf, j, j + Len(End) - 1) # End
        <5>1. j \in 1..7 /\ j + 3 <= m /\ j + Len(End) - 1 = j + 3
          BY <1>6, <3>2
        <5> QED
          BY <1>4, <5>1
      <4> QED
        BY <4>1
    <3>5. Len(buf) \in Nat /\ Len(End) \in Nat
      BY <3>2
    <3> QED
      BY <3>3, <3>4, <3>5, FindAt
  <2>2. SubSeq(buf, 12, m) = SubSeq(body, 1, m - 11)
    <3> DEFINE rest == SubSeq(buf, 12, m)
               part == SubSeq(body, 1, m - 11)
    <3>1. \A i \in 1..(m - 11) : i + 11 \in 1..m /\ i \in 1..Len(body)
      BY <1>2
    <3>2. /\ rest \in Seq(S) /\ Len(rest) = m - 11
          /\ \A i \in 1..(m - 11) : rest[i] = buf[i + 11]
      <4>1. \A i \in 12..m : buf[i] \in S
        BY <1>2, <1>3
      <4>2. 12 \in Int /\ m \in Int /\ (IF 12 <= m THEN m - 12 + 1 ELSE 0) = m - 11 /\ m - 12 + 1 = m - 11
        BY <1>2, <1>6
      <4>3. /\ rest \in Seq(S) /\ Len(rest) = IF 12 <= m THEN m - 12 + 1 ELSE 0
            /\ \A i \in 1..(m - 12 + 1) : rest[i] = buf[12 + i - 1]
        BY <4>1, <4>2, SubSeqProperties
      <4>4. \A i \in 1..(m - 11) : 12 + i - 1 = i + 11
        BY <4>2
      <4> HIDE DEF rest
      <4> QED
        BY <4>2, <4>3, <4>4
    <3>3. /\ part \in Seq(S) /\ Len(part) = m - 11
          /\ \A i \in 1..(m - 11) : part[i] = body[i]
      <4>1. \A i \in 1..(m - 11) : body[i] \in S
        BY <1>2
      <4>2. 1 \in Int /\ m - 11 \in Int /\ (IF 1 <= m - 11 THEN m - 11 - 1 + 1 ELSE 0) = m - 11
            /\ m - 11 - 1 + 1 = m - 11
        BY <1>2, <1>6
      <4>3. /\ part \in Seq(S) /\ Len(part) = IF 1 <= m - 11 THEN m - 11 - 1 + 1 ELSE 0
            /\ \A i \in 1..(m - 11 - 1 + 1) : part[i] = body[1 + i - 1]
        BY <4>1, <4>2, SubSeqProperties
      <4>4. \A i \in 1..(m - 11) : 1 + i - 1 = i
        BY <4>2
      <4> HIDE DEF part
      <4> QED
        BY <4>2, <4>3, <4>4
    <3> HIDE DEF rest, part
    <3>4. \A i \in 1..(m - 11) : rest[i] = part[i]
      <4>1. ASSUME NEW i \in 1..(m - 11) PROVE rest[i] = part[i]
        <5>1. rest[i] = buf[i + 11] /\ buf[i + 11] = reply[i + 11]
          BY <1>3, <3>1, <3>2
        <5>2. reply[i + 11] = body[i] /\ part[i] = body[i]
          BY <1>1, <3>1, <3>3
        <5> QED
          BY <5>1, <5>2
      <4> QED
        BY <4>1
    <3>5. rest = part
      BY <3>2, <3>3, <3>4, SeqEqual
    <3> QED
      BY <3>5 DEF rest, part
  <2> QED
    BY <1>1, <1>3, <1>6, <2>1, <2>2 DEF buf, reply
<1> QED
  BY <1>2, <1>5, <1>6

(* and the certificate's first line in the body after it, ...              *)
LEMMA BeginFound ==
  ASSUME NEW S, NEW body \in Seq(S)
  PROVE  /\ body = <<>> => Find(body, <<"begin">>, 1) = 0
         /\ body # <<>> /\ body[1] = "begin" => Find(body, <<"begin">>, 1) # 0
<1> DEFINE begin == <<"begin">>
<1>1. begin \in Seq({"begin"}) /\ Len(begin) = 1 /\ begin[1] = "begin"
  OBVIOUS
<1>2. Len(body) \in Nat
  OBVIOUS
<1>3. ASSUME body = <<>>
      PROVE  Find(body, begin, 1) = 0
  <2>1. Len(body) - Len(begin) + 1 = 0
    BY <1>1, <1>3
  <2>2. {i \in 1..(Len(body) - Len(begin) + 1) : SubSeq(body, i, i + Len(begin) - 1) = begin} = {}
    BY <2>1
  <2> QED
    BY <2>2 DEF Find
<1>4. ASSUME body # <<>>, body[1] = "begin"
      PROVE  Find(body, begin, 1) # 0
  <2>1. 1 \in 1..Len(body)
    BY <1>2, <1>4, EmptySeq
  <2>2. SubSeq(body, 1, 1) = begin
    <3>1. body[1] \in S
      BY <2>1
    <3>2. begin \in Seq(S)
      BY <1>4, <3>1
    <3>3. /\ SubSeq(body, 1, 1) \in Seq(S) /\ Len(SubSeq(body, 1, 1)) = 1
          /\ \A i \in 1..1 : SubSeq(body, 1, 1)[i] = body[i]
      BY <2>1, <3>1, SubSeqProperties
    <3>4. SubSeq(body, 1, 1)[1] = begin[1]
      BY <1>1, <1>4, <3>3
    <3>5. \A i \in 1..1 : i = 1
      OBVIOUS
    <3> DEFINE part == SubSeq(body, 1, 1)
    <3> HIDE DEF part, begin
    <3>6. part \in Seq(S) /\ Len(part) = 1 /\ Len(begin) = 1 /\ part[1] = begin[1]
      BY <1>1, <3>3, <3>4 DEF part
    <3>7. part = begin
      BY <3>2, <3>5, <3>6, SeqEqual
    <3> QED
      BY <3>7 DEF part
  <2> HIDE DEF begin
  <2>3. 1 + Len(begin) - 1 = 1 /\ Len(body) - Len(begin) + 1 = Len(body)
    BY <1>1, <1>2
  <2>4. /\ Len(body) \in Nat /\ Len(begin) \in Nat /\ 1 \in Nat
        /\ 1 <= 1 /\ 1 <= Len(body) - Len(begin) + 1
        /\ SubSeq(body, 1, 1 + Len(begin) - 1) = begin
    BY <1>1, <1>2, <2>1, <2>2, <2>3
  <2>5. \A j \in 1..(1 - 1) : SubSeq(body, j, j + Len(begin) - 1) # begin
    OBVIOUS
  <2> QED
    BY <2>4, <2>5, FindAt
<1> QED
  BY <1>3, <1>4

(* so that the device makes of it ...                                      *)
LEMMA NrEnrollCases ==
  ASSUME NEW S, HeaderBytes \subseteq S, NEW status \in S, status # "cr", NEW cert \in Seq(S),
         NEW size \in Nat, NEW arrived \in 0..(11 + Len(cert)), cert # <<>>, cert[1] = "begin"
  PROVE  LET m      == IF arrived <= EnrollBufSize - 1 THEN arrived ELSE EnrollBufSize - 1
             body   == SubSeq(cert, 1, m - 11)
             result == NrEnroll(SendResponse(status, cert), arrived, size)
         IN /\ m <= 11 => result.rc = "proto"
            /\ m > 11 /\ status # "200" => result.rc = "proto"
            /\ m > 11 /\ status = "200" =>
                 /\ Len(body) = m - 11
                 /\ result = IF m - 11 >= size THEN Error("mem")
                             ELSE IF m - 11 >= MaxPemLen
                             THEN [rc |-> "mem", certOut |-> body, cached |-> <<>>]
                             ELSE [rc |-> "ok", certOut |-> body, cached |-> body]
<1> DEFINE m     == IF arrived <= EnrollBufSize - 1 THEN arrived ELSE EnrollBufSize - 1
           body  == SubSeq(cert, 1, m - 11)
           reply == SendResponse(status, cert)
           buf   == SubSeq(reply, 1, m)
<1>1. Len(cert) \in Nat /\ m \in 0..(11 + Len(cert)) /\ m \in Nat
  BY ReplyAssumption
<1>2. ReadReply(reply, arrived) = buf
  <2>1. arrived \in Int /\ EnrollBufSize - 1 \in Int
    BY ReplyAssumption
  <2> QED
    BY <2>1, MinOfTwo DEF ReadReply
<1> HIDE DEF m
<1>3. /\ buf \in Seq(S) /\ Len(buf) = m
      /\ m >= 1 => buf[1] = status
      /\ Find(buf, End, 1) = IF m >= 11 THEN 8 ELSE 0
      /\ m >= 11 => SubSeq(buf, 12, m) = body
  BY <1>1, HeaderFound
<1>4. m >= 11 =>
        /\ body \in Seq(S) /\ Len(body) = m - 11
        /\ m > 11 => body # <<>> /\ body[1] = "begin"
  <2> SUFFICES ASSUME m >= 11
               PROVE  /\ body \in Seq(S) /\ Len(body) = m - 11
                      /\ m > 11 => body # <<>> /\ body[1] = "begin"
    OBVIOUS
  <2>1. \A i \in 1..(m - 11) : cert[i] \in S
    BY <1>1
  <2>2. 1 \in Int /\ m - 11 \in Int /\ (IF 1 <= m - 11 THEN m - 11 - 1 + 1 ELSE 0) = m - 11
        /\ m - 11 - 1 + 1 = m - 11
    BY <1>1
  <2>3. /\ body \in Seq(S) /\ Len(body) = IF 1 <= m - 11 THEN m - 11 - 1 + 1 ELSE 0
        /\ \A i \in 1..(m - 11 - 1 + 1) : body[i] = cert[1 + i - 1]
    BY <2>1, <2>2, SubSeqProperties
  <2>4. body \in Seq(S) /\ Len(body) = m - 11
    BY <2>2, <2>3
  <2>5. ASSUME m > 11
        PROVE  body # <<>> /\ body[1] = "begin"
    <3>1. 1 \in 1..(m - 11 - 1 + 1)
      BY <1>1, <2>5
    <3>2. body[1] = cert[1 + 1 - 1]
      BY <2>3, <3>1
    <3>3. Len(body) # 0
      BY <1>1, <2>4, <2>5
    <3> HIDE DEF body
    <3> QED
      BY <3>2, <3>3
  <2> QED
    BY <2>4, <2>5
<1> DEFINE end == Find(buf, End, 1)
           result == NrEnroll(reply, arrived, size)
<1> HIDE DEF reply, buf, body
<1> DEFINE found == SubSeq(buf, end + 4, Len(buf))
<1>5. result = IF buf = <<>> \/ end = 0 THEN Error("proto")
               ELSE IF buf[1] # "200" \/ Find(found, <<"begin">>, 1) = 0 THEN Error("proto")
               ELSE IF ~Fits(Len(found), size) THEN Error("mem")
               ELSE IF ~Fits(Len(found), MaxPemLen)
               THEN [rc |-> "mem", certOut |-> found, cached |-> <<>>]
               ELSE [rc |-> "ok", certOut |-> found, cached |-> found]
  BY <1>2 DEF NrEnroll
<1>6. Error("proto").rc = "proto"
  BY DEF Error, None
<1>7. CASE m < 11
  BY <1>1, <1>3, <1>5, <1>6, <1>7 DEF m, reply
<1>8. CASE m >= 11
  <2>1. end = 8 /\ buf # <<>> /\ found = body /\ buf[1] = status
    <3>1. end = 8
      BY <1>3, <1>8
    <3>2. SubSeq(buf, 12, m) = body /\ Len(buf) = m
      BY <1>3, <1>8
    <3>3. m # 0 /\ m >= 1
      BY <1>1, <1>8
    <3>4. buf # <<>>
      BY <3>2, <3>3
    <3> QED
      BY <1>3, <3>1, <3>2, <3>3, <3>4
  <2> HIDE DEF end, found
  <2>2. result = IF status # "200" \/ Find(body, <<"begin">>, 1) = 0 THEN Error("proto")
                 ELSE IF ~Fits(Len(body), size) THEN Error("mem")
                 ELSE IF ~Fits(Len(body), MaxPemLen)
                 THEN [rc |-> "mem", certOut |-> body, cached |-> <<>>]
                 ELSE [rc |-> "ok", certOut |-> body, cached |-> body]
    BY <1>5, <2>1
  <2> HIDE DEF result
  <2>3. CASE m = 11
    <3>1. body = <<>>
      BY <1>4, <1>8, <2>3, EmptySeq
    <3>2. Find(body, <<"begin">>, 1) = 0
      BY <1>4, <1>8, <3>1, BeginFound
    <3> QED
      BY <1>6, <2>2, <2>3, <3>2 DEF m, reply, result, body
  <2>4. CASE m > 11
    <3>1. Find(body, <<"begin">>, 1) # 0 /\ Len(body) = m - 11
      BY <1>4, <1>8, <2>4, BeginFound
    <3>2. m - 11 \in Int /\ MaxPemLen \in Int /\ size \in Int
      BY <1>1, ReplyAssumption
    <3>3. status # "200" => result.rc = "proto"
      BY <1>6, <2>2
    <3>4. status = "200" =>
            result = IF m - 11 >= size THEN Error("mem")
                     ELSE IF m - 11 >= MaxPemLen
                     THEN [rc |-> "mem", certOut |-> body, cached |-> <<>>]
                     ELSE [rc |-> "ok", certOut |-> body, cached |-> body]
      BY <2>2, <3>1, <3>2 DEF Fits
    <3> QED
      BY <1>1, <2>4, <3>1, <3>3, <3>4 DEF m, reply, result, body
  <2>5. m = 11 \/ m > 11
    BY <1>1, <1>8
  <2> QED
    BY <2>3, <2>4, <2>5
<1> QED
  BY <1>1, <1>7, <1>8 DEF m, reply, body

(* A certificate of any length: nr_enroll stores what issue_cert sent, and  *)
(* stores it exactly when the caller's buffer and cert_pem hold it with its *)
(* terminator.  A reply cut at or before the blank line, and one that       *)
(* is not a 200, stores nothing.                                            *)
THEOREM CertificateStored ==
  ASSUME NEW S, HeaderBytes \subseteq S, {"200", "403"} \subseteq S,
         NEW cert \in Seq(S), cert # <<>>, cert[1] = "begin", NEW size \in Nat,
         MaxPemLen + 12 <= EnrollBufSize
  PROVE  LET reply  == SendResponse("200", cert)
             result == NrEnroll(reply, Len(reply), size)
         IN /\ result.rc = "ok" <=> Len(cert) + 1 <= size /\ Len(cert) + 1 <= MaxPemLen
            /\ result.rc = "ok" => result.certOut = cert /\ result.cached = cert
            /\ \A arrived \in 0..(Len(reply) - Len(cert)) : NrEnroll(reply, arrived, size).rc # "ok"
            /\ NrEnroll(SendResponse("403", cert), Len(reply), size).rc # "ok"
<1> DEFINE reply  == SendResponse("200", cert)
           result == NrEnroll(reply, Len(reply), size)
           n == Len(cert)
<1>1. "200" \in S /\ "403" \in S /\ "200" # "cr" /\ "403" # "cr" /\ "403" # "200"
  OBVIOUS
<1>2. n \in Nat \ {0} /\ Len(reply) = 11 + n /\ EnrollBufSize \in Nat /\ MaxPemLen \in Nat \ {0}
  BY <1>1, EmptySeq, ReplyBytes, ReplyAssumption
<1>3. Len(reply) \in 0..(11 + Len(cert))
  BY <1>2
<1>4. Error("mem").rc = "mem"
  BY DEF Error, None
<1>5. \A arrived \in 0..(Len(reply) - Len(cert)) : NrEnroll(reply, arrived, size).rc # "ok"
  <2>1. ASSUME NEW arrived \in 0..(Len(reply) - Len(cert))
        PROVE  NrEnroll(reply, arrived, size).rc = "proto"
    <3>1. arrived \in 0..(11 + Len(cert)) /\ arrived <= 11
      BY <1>2
    <3> QED
      BY <1>1, <1>2, <3>1, NrEnrollCases
  <2> QED
    BY <2>1
<1>6. NrEnroll(SendResponse("403", cert), Len(reply), size).rc # "ok"
  <2> DEFINE m == IF Len(reply) <= EnrollBufSize - 1 THEN Len(reply) ELSE EnrollBufSize - 1
  <2>1. m > 11
    BY <1>2
  <2>2. m > 11 /\ "403" # "200" => NrEnroll(SendResponse("403", cert), Len(reply), size).rc = "proto"
    BY <1>1, <1>3, NrEnrollCases
  <2> QED
    BY <1>1, <2>1, <2>2
<1>7. CASE Len(reply) <= EnrollBufSize - 1
  <2>1. result = IF n >= size THEN Error("mem")
                 ELSE IF n >= MaxPemLen THEN [rc |-> "mem", certOut |-> cert, cached |-> <<>>]
                 ELSE [rc |-> "ok", certOut |-> cert, cached |-> cert]
    <3> DEFINE m    == IF Len(reply) <= EnrollBufSize - 1 THEN Len(reply) ELSE EnrollBufSize - 1
               body == SubSeq(cert, 1, m - 11)
    <3>1. m = 11 + n /\ m > 11 /\ m - 11 = n
      BY <1>2, <1>7
    <3>2. body = cert
      BY <3>1, SubSeqFull
    <3>3. m > 11 =>
            result = IF m - 11 >= size THEN Error("mem")
                     ELSE IF m - 11 >= MaxPemLen
                     THEN [rc |-> "mem", certOut |-> body, cached |-> <<>>]
                     ELSE [rc |-> "ok", certOut |-> body, cached |-> body]
      BY <1>1, <1>3, NrEnrollCases
    <3> HIDE DEF m, body, result
    <3> QED
      BY <3>1, <3>2, <3>3
  <2>2. result.rc = "ok" <=> n < size /\ n < MaxPemLen
    <3> HIDE DEF result
    <3> QED
      BY <1>2, <1>4, <2>1
  <2>3. result.rc = "ok" => result.certOut = cert /\ result.cached = cert
    <3> HIDE DEF result
    <3> QED
      BY <1>4, <2>1
  <2>4. (n < size <=> n + 1 <= size) /\ (n < MaxPemLen <=> n + 1 <= MaxPemLen)
    BY <1>2
  <2> QED
    BY <1>5, <1>6, <2>2, <2>3, <2>4
<1>8. CASE ~(Len(reply) <= EnrollBufSize - 1)
  <2>1. result.rc = "mem"
    <3> DEFINE m    == IF Len(reply) <= EnrollBufSize - 1 THEN Len(reply) ELSE EnrollBufSize - 1
               body == SubSeq(cert, 1, m - 11)
    <3>1. m > 11 /\ m - 11 >= MaxPemLen
      BY <1>2, <1>8
    <3>2. m > 11 =>
            result = IF m - 11 >= size THEN Error("mem")
                     ELSE IF m - 11 >= MaxPemLen
                     THEN [rc |-> "mem", certOut |-> body, cached |-> <<>>]
                     ELSE [rc |-> "ok", certOut |-> body, cached |-> body]
      BY <1>1, <1>3, NrEnrollCases
    <3> HIDE DEF m, body, result
    <3> QED
      BY <1>4, <3>1, <3>2
  <2>2. ~(n + 1 <= MaxPemLen)
    BY <1>2, <1>8
  <2> HIDE DEF result
  <2> QED
    BY <1>5, <1>6, <2>1, <2>2 DEF result
<1> QED
  BY <1>7, <1>8

(* Hence the run's property, if nr_enroll's buffer is that much larger than *)
(* cert_pem (16384 and 8192 bytes in the code).                             *)
THEOREM RepliesStored ==
  ASSUME MaxPemLen + 12 <= EnrollBufSize
  PROVE  Spec => []StoredAsSent
<1>1. StoredOrRefused
  <2> SUFFICES ASSUME NEW cert \in Certificates, NEW size \in 0..(EnrollBufSize + 4)
               PROVE  LET reply  == SendResponse("200", cert)
                          result == NrEnroll(reply, Len(reply), size)
                      IN /\ result.rc = "ok" <=> Len(cert) + 1 <= size /\ Len(cert) + 1 <= MaxPemLen
                         /\ result.rc = "ok" => result.certOut = cert /\ result.cached = cert
                         /\ \A arrived \in 0..(Len(reply) - Len(cert)) : NrEnroll(reply, arrived, size).rc # "ok"
                         /\ NrEnroll(SendResponse("403", cert), Len(reply), size).rc # "ok"
    BY DEF StoredOrRefused
  <2> DEFINE S == HeaderBytes \cup {"200", "403", "begin", "x"}
  <2>1. cert \in Seq(S) /\ cert # <<>> /\ cert[1] = "begin"
    <3>1. PICK n \in 0..(EnrollBufSize + 2) : cert = <<"begin">> \o [i \in 1..n |-> "x"]
      BY DEF Certificates
    <3> DEFINE xs == [i \in 1..n |-> "x"]
    <3>2. n \in Nat
      BY ReplyAssumption
    <3>3. xs \in Seq(S) /\ <<"begin">> \in Seq(S) /\ Len(<<"begin">>) = 1
      BY <3>2
    <3>4. <<"begin">>[1] = "begin" /\ Len(xs) \in Nat
      BY <3>3
    <3> HIDE DEF xs, S
    <3>5. cert \in Seq(S) /\ Len(cert) = 1 + Len(xs) /\ cert[1] = "begin"
      BY <3>1, <3>3, <3>4, ConcatProperties DEF xs
    <3> QED
      BY <3>4, <3>5, EmptySeq
  <2>2. HeaderBytes \subseteq S /\ {"200", "403"} \subseteq S
    OBVIOUS
  <2>3. size \in Nat
    BY ReplyAssumption
  <2> HIDE DEF S
  <2> QED
    BY <2>1, <2>2, <2>3, CertificateStored
<1>2. StoredAsSent
  BY <1>1 DEF StoredAsSent
<1> QED
  BY <1>2, PTL
-----------------------------------------------------------------------------
(* The allowlist.                                                          *)

(* A part of a text,                                                       *)
LEMMA SubSeqIs ==
  ASSUME NEW S, NEW text \in Seq(S), NEW m \in Nat \ {0}, NEW n \in Nat, m <= n + 1, n <= Len(text)
  PROVE  /\ SubSeq(text, m, n) \in Seq(S)
         /\ Len(SubSeq(text, m, n)) = n - m + 1
         /\ \A i \in 1..(n - m + 1) : SubSeq(text, m, n)[i] = text[m + i - 1]
<1>1. \A i \in m..n : text[i] \in S
  OBVIOUS
<1>2. m \in Int /\ n \in Int /\ (IF m <= n THEN n - m + 1 ELSE 0) = n - m + 1
  OBVIOUS
<1> QED
  BY <1>1, <1>2, SubSeqProperties

(* a line without the blanks around it, which is what stands on it alone   *)
LEMMA TrimIs ==
  ASSUME NEW S, NEW text \in Seq(S), NEW blanks, NEW m \in 1..Len(text), NEW n \in m..Len(text),
         text[m] \notin blanks, text[n] \notin blanks,
         \A j \in 1..Len(text) : j \notin m..n => text[j] \in blanks
  PROVE  Trim(text, blanks) = SubSeq(text, m, n)
<1> DEFINE kept == {i \in DOMAIN text : text[i] \notin blanks}
<1>1. /\ kept \in SUBSET Int /\ m \in kept /\ n \in kept
      /\ \A i \in kept : m <= i /\ i <= n
  OBVIOUS
<1>2. Trim(text, blanks) = IF kept = {} THEN <<>> ELSE SubSeq(text, Min(kept), Max(kept))
  BY DEF Trim
<1> HIDE DEF kept
<1>3. Min(kept) = m
  BY <1>1, MinIs
<1>4. Max(kept) = n
  BY <1>1, MaxIs
<1> QED
  BY <1>1, <1>2, <1>3, <1>4

(* and begins and ends with no blank.                                      *)
LEMMA TrimKeeps ==
  ASSUME NEW S, NEW text \in Seq(S), NEW blanks, Trim(text, blanks) # <<>>
  PROVE  \E m \in 1..Len(text) : \E n \in m..Len(text) :
           /\ Trim(text, blanks) = SubSeq(text, m, n)
           /\ text[m] \notin blanks /\ text[n] \notin blanks
           /\ \A j \in 1..Len(text) : j \notin m..n => text[j] \in blanks
<1> DEFINE kept == {i \in DOMAIN text : text[i] \notin blanks}
<1>1. kept # {} /\ Trim(text, blanks) = SubSeq(text, Min(kept), Max(kept))
  BY DEF Trim
<1>2. Len(text) \in Nat /\ kept \in SUBSET Nat /\ kept \in SUBSET (0..Len(text)) /\ kept \subseteq 1..Len(text)
  OBVIOUS
<1>3. \A j \in 1..Len(text) : j \notin kept => text[j] \in blanks
  OBVIOUS
<1>4. \A j \in kept : text[j] \notin blanks
  OBVIOUS
<1> HIDE DEF kept
<1>5. Min(kept) \in kept /\ \A j \in kept : Min(kept) <= j
  BY <1>1, <1>2, MinOf
<1>6. Max(kept) \in kept /\ \A j \in kept : j <= Max(kept)
  BY <1>1, <1>2, MaxOf
<1> DEFINE m == Min(kept)
           n == Max(kept)
<1> HIDE DEF m, n
<1>7. m \in kept /\ n \in kept /\ m \in 1..Len(text) /\ n \in m..Len(text)
  <2>1. m \in kept /\ n \in kept
    BY <1>5, <1>6 DEF m, n
  <2>2. m <= n
    BY <1>5, <2>1 DEF m
  <2> QED
    BY <1>2, <2>1, <2>2
<1>8. \A j \in 1..Len(text) : j \notin m..n => text[j] \in blanks
  <2>1. \A j \in kept : m <= j /\ j <= n
    BY <1>5, <1>6 DEF m, n
  <2> QED
    BY <1>3, <1>7, <2>1
<1>9. text[m] \notin blanks /\ text[n] \notin blanks /\ Trim(text, blanks) = SubSeq(text, m, n)
  BY <1>1, <1>4, <1>7 DEF m, n
<1> QED
  BY <1>7, <1>8, <1>9

(* load_allowlist takes from a file of any lines the device ids that stand *)
(* alone on one of them, with any blanks around, and no other.             *)
THEOREM AllowlistNames ==
  ASSUME NEW S, NEW file \in Seq(Seq(S)), NEW id \in Seq(S), id # <<>>, id[1] # "#",
         \A i \in 1..Len(id) : id[i] \notin Space
  PROVE  id \in LoadAllowlist(file) <=> \E i \in DOMAIN file : Names(file[i], id)
<1>1. id \in LoadAllowlist(file) <=> \E i \in DOMAIN file : id = Trim(file[i], Space)
  BY DEF LoadAllowlist
<1>2. ASSUME NEW k \in DOMAIN file
      PROVE  id = Trim(file[k], Space) <=> Names(file[k], id)
  <2> DEFINE line == file[k]
  <2>1. line \in Seq(S) /\ Len(line) \in Nat /\ DOMAIN line = 1..Len(line)
    OBVIOUS
  <2>2. Len(id) \in Nat \ {0}
    BY EmptySeq
  <2> HIDE DEF line
  <2>3. ASSUME id = Trim(line, Space)
        PROVE  Names(line, id)
    <3>1. PICK m \in 1..Len(line) : \E n \in m..Len(line) :
            /\ Trim(line, Space) = SubSeq(line, m, n)
            /\ line[m] \notin Space /\ line[n] \notin Space
            /\ \A j \in 1..Len(line) : j \notin m..n => line[j] \in Space
      BY <2>1, <2>3, TrimKeeps
    <3>2. PICK n \in m..Len(line) :
            /\ Trim(line, Space) = SubSeq(line, m, n)
            /\ \A j \in 1..Len(line) : j \notin m..n => line[j] \in Space
      BY <3>1
    <3>3. m \in Nat \ {0} /\ n \in Nat /\ m <= n + 1 /\ n <= Len(line)
      BY <2>1
    <3>4. Len(SubSeq(line, m, n)) = n - m + 1
      BY <2>1, <3>3, SubSeqIs
    <3>5. n = m + Len(id) - 1 /\ m \in 1..(Len(line) - Len(id) + 1)
      BY <2>1, <2>2, <2>3, <3>2, <3>3, <3>4
    <3> QED
      BY <2>1, <2>3, <3>2, <3>5 DEF Names
  <2>4. ASSUME Names(line, id)
        PROVE  id = Trim(line, Space)
    <3>1. PICK m \in 1..(Len(line) - Len(id) + 1) :
            /\ SubSeq(line, m, m + Len(id) - 1) = id
            /\ \A j \in DOMAIN line \ (m..(m + Len(id) - 1)) : line[j] \in Space
      BY <2>4 DEF Names
    <3> DEFINE n == m + Len(id) - 1
    <3>2. m \in Nat \ {0} /\ n \in Nat /\ m <= n + 1 /\ n <= Len(line) /\ m \in 1..Len(line)
          /\ n \in m..Len(line) /\ n - m + 1 = Len(id)
      BY <2>1, <2>2
    <3>3. \A i \in 1..Len(id) : id[i] = line[m + i - 1]
      <4>1. \A i \in 1..(n - m + 1) : SubSeq(line, m, n)[i] = line[m + i - 1]
        <5> HIDE DEF n
        <5> QED
          BY <2>1, <3>2, SubSeqIs
      <4> QED
        BY <3>1, <3>2, <4>1
    <3>4. line[m] \notin Space /\ line[n] \notin Space
      <4>1. id[1] = line[m] /\ id[Len(id)] = line[n]
        <5>1. id[1] = line[m + 1 - 1] /\ id[Len(id)] = line[m + Len(id) - 1]
          BY <2>2, <3>3
        <5>2. m + 1 - 1 = m
          BY <3>2
        <5> QED
          BY <5>1, <5>2
      <4> QED
        BY <2>2, <4>1
    <3>5. \A j \in 1..Len(line) : j \notin m..n => line[j] \in Space
      BY <2>1, <3>1
    <3>6. Trim(line, Space) = SubSeq(line, m, n)
      <4> HIDE DEF n
      <4> QED
        BY <2>1, <3>2, <3>4, <3>5, TrimIs
    <3> QED
      BY <3>1, <3>6
  <2> QED
    BY <2>3, <2>4 DEF line
<1> QED
  BY <1>1, <1>2
-----------------------------------------------------------------------------
(* Functions that recur on something smaller.  What one makes of t is      *)
(* base[t] where it stops and otherwise step[t, .] of its value at         *)
(* pred[t].                                                                *)

Recurs(f, t, Stop, base, pred, step) ==
  f[t] = IF t \in Stop THEN base[t] ELSE step[<<t, f[pred[t]]>>]
Descends(D, Stop, pred, size) ==
  pred \in [D -> D] /\ size \in [D -> Nat] /\ \A t \in D \ Stop : size[pred[t]] < size[t]
Inherited(D, Stop, pred, Good) ==
  D \cap Stop \subseteq Good /\ \A t \in D \ Stop : pred[t] \in Good => t \in Good
UpTo(D, size, n) == {t \in D : size[t] <= n}
Partial(D, V, Stop, base, pred, step, size, n) ==
  {g \in [UpTo(D, size, n) -> V] : \A t \in UpTo(D, size, n) : Recurs(g, t, Stop, base, pred, step)}

Agreed(D, V, Stop, base, pred, step, size) ==
  \A m, n \in Nat : \A g \in Partial(D, V, Stop, base, pred, step, size, m),
                        h \in Partial(D, V, Stop, base, pred, step, size, n) :
    \A t \in UpTo(D, size, m) \cap UpTo(D, size, n) : g[t] = h[t]

\* Two that recur in this way on what is not too large agree on it
LEMMA PartialsAgree ==
  ASSUME NEW D, NEW V, NEW Stop, NEW base \in [D -> V], NEW pred,
         NEW step \in [D \X V -> V], NEW size, Descends(D, Stop, pred, size)
  PROVE  Agreed(D, V, Stop, base, pred, step, size)
<1> SUFFICES ASSUME NEW m \in Nat, NEW n \in Nat,
                    NEW g \in Partial(D, V, Stop, base, pred, step, size, m),
                    NEW h \in Partial(D, V, Stop, base, pred, step, size, n)
             PROVE  \A t \in UpTo(D, size, m) \cap UpTo(D, size, n) : g[t] = h[t]
  BY DEF Agreed
<1>0. /\ pred \in [D -> D] /\ size \in [D -> Nat]
      /\ \A t \in D \ Stop : size[pred[t]] < size[t]
  BY DEF Descends
<1> DEFINE Both  == UpTo(D, size, m) \cap UpTo(D, size, n)
           apart == {k \in Nat : \E t \in Both : size[t] = k /\ g[t] # h[t]}
<1>1. \A t \in Both : t \in D /\ size[t] \in Nat
  BY <1>0 DEF UpTo
<1>2. CASE apart = {}
  BY <1>1, <1>2
<1>3. CASE apart # {}
  <2>1. PICK k \in apart : \A j \in apart : k <= j
    <3>1. apart \in SUBSET Nat
      OBVIOUS
    <3> HIDE DEF apart
    <3> QED
      BY <1>3, <3>1, MinOf
  <2>2. PICK t \in Both : size[t] = k /\ g[t] # h[t]
    BY <2>1
  <2>3. Recurs(g, t, Stop, base, pred, step) /\ Recurs(h, t, Stop, base, pred, step)
    BY <2>2 DEF Partial
  <2>4. t \notin Stop
    BY <2>2, <2>3 DEF Recurs
  <2>5. pred[t] \in D /\ size[pred[t]] \in Nat /\ size[pred[t]] < k /\ k \in Nat
    BY <1>0, <1>1, <2>2, <2>4
  <2>6. pred[t] \in Both
    BY <2>2, <2>5 DEF UpTo
  <2>7. g[pred[t]] = h[pred[t]]
    <3>1. size[pred[t]] \notin apart
      BY <2>1, <2>5
    <3> QED
      BY <2>5, <2>6, <3>1
  <2> QED
    BY <2>2, <2>3, <2>4, <2>7 DEF Recurs
<1> QED
  BY <1>2, <1>3

\* and there always is one,
LEMMA PartialsExist ==
  ASSUME NEW D, NEW V, NEW Stop, NEW base \in [D -> V], NEW pred,
         NEW step \in [D \X V -> V], NEW size, Descends(D, Stop, pred, size)
  PROVE  \A n \in Nat : Partial(D, V, Stop, base, pred, step, size, n) # {}
<1>0. /\ pred \in [D -> D] /\ size \in [D -> Nat]
      /\ \A t \in D \ Stop : size[pred[t]] < size[t]
  BY DEF Descends
<1> DEFINE P(n) == Partial(D, V, Stop, base, pred, step, size, n)
           none == {n \in Nat : P(n) = {}}
<1>1. CASE none = {}
  BY <1>1
<1>2. CASE none # {}
  <2>1. PICK n \in none : \A k \in none : n <= k
    <3>1. none \in SUBSET Nat
      OBVIOUS
    <3> HIDE DEF none
    <3> QED
      BY <1>2, <3>1, MinOf
  <2>2. n \in Nat /\ P(n) = {}
    BY <2>1
  <2> DEFINE Here == UpTo(D, size, n)
             Less == {t \in Here : size[t] < n}
  <2>3. \A t \in Here : t \in D /\ size[t] \in Nat /\ size[t] <= n
    BY <1>0 DEF UpTo
  <2>4. PICK g : /\ \A t \in Less : g[t] \in V /\ Recurs(g, t, Stop, base, pred, step)
    <3>1. CASE n = 0
      BY <2>3, <3>1
    <3>2. CASE n # 0
      <4>1. n - 1 \in Nat /\ n - 1 \notin none
        <5>1. n - 1 \in Nat /\ ~(n <= n - 1)
          BY <2>2, <3>2
        <5> HIDE DEF none
        <5> QED
          BY <2>1, <5>1, Zenon
      <4>2. PICK g : g \in P(n - 1)
        BY <4>1
      <4>3. \A t \in Less : t \in UpTo(D, size, n - 1)
        BY <2>2, <2>3, <4>1 DEF UpTo
      <4> QED
        BY <4>2, <4>3 DEF Partial
    <3> QED
      BY <3>1, <3>2
  <2> DEFINE next == [t \in Here |-> IF t \in Stop THEN base[t] ELSE step[<<t, g[pred[t]]>>]]
  <2>5. \A t \in Less : next[t] = g[t]
    BY <2>4 DEF Recurs
  <2>6. ASSUME NEW t \in Here
        PROVE  next[t] \in V /\ Recurs(next, t, Stop, base, pred, step)
    <3>1. CASE t \in Stop
      BY <2>3, <3>1 DEF Recurs
    <3>2. CASE t \notin Stop
      <4>1. pred[t] \in D /\ size[pred[t]] \in Nat /\ size[pred[t]] < size[t]
        BY <1>0, <2>3, <3>2
      <4>2. pred[t] \in Less
        BY <2>2, <2>3, <4>1 DEF UpTo
      <4>3. g[pred[t]] \in V /\ next[pred[t]] = g[pred[t]]
        BY <2>4, <2>5, <4>2
      <4>4. next[t] = step[<<t, g[pred[t]]>>] /\ step[<<t, g[pred[t]]>>] \in V
        BY <2>3, <3>2, <4>3
      <4> HIDE DEF next
      <4> QED
        BY <3>2, <4>3, <4>4 DEF Recurs
    <3> QED
      BY <3>1, <3>2
  <2>7. next \in [Here -> V]
    BY <2>6
  <2> HIDE DEF next
  <2>8. next \in P(n)
    BY <2>6, <2>7 DEF Partial
  <2> QED
    BY <2>2, <2>8
<1> QED
  BY <1>1, <1>2

\* so that a recursive function is what its definition says,
LEMMA RecursionExists ==
  ASSUME NEW D, NEW V, NEW Stop, NEW base \in [D -> V], NEW pred,
         NEW step \in [D \X V -> V], NEW size, Descends(D, Stop, pred, size)
  PROVE  \E f \in [D -> V] : \A t \in D : Recurs(f, t, Stop, base, pred, step)
<1>0. /\ pred \in [D -> D] /\ size \in [D -> Nat]
      /\ \A t \in D \ Stop : size[pred[t]] < size[t]
  BY DEF Descends
<1> DEFINE P(n) == Partial(D, V, Stop, base, pred, step, size, n)
           some == [n \in Nat |-> CHOOSE g \in P(n) : TRUE]
           f    == [t \in D |-> some[size[t]][t]]
<1>1. \A n \in Nat : some[n] \in P(n)
  <2>1. \A n \in Nat : P(n) # {}
    BY PartialsExist, Zenon
  <2> HIDE DEF P
  <2> QED
    BY <2>1
<1>2. \A t \in D : size[t] \in Nat /\ t \in UpTo(D, size, size[t])
  BY <1>0 DEF UpTo
<1>5. Agreed(D, V, Stop, base, pred, step, size)
  BY PartialsAgree, ZenonT(30)
<1>6. \A m, n \in Nat : \A g \in P(m), h \in P(n) :
        \A t \in UpTo(D, size, m) \cap UpTo(D, size, n) : g[t] = h[t]
  BY <1>5 DEF Agreed
<1> HIDE DEF some
<1>3. ASSUME NEW t \in D
      PROVE  f[t] \in V /\ Recurs(f, t, Stop, base, pred, step)
  <2>1. f[t] \in V /\ f[t] = some[size[t]][t] /\ Recurs(some[size[t]], t, Stop, base, pred, step)
    BY <1>1, <1>2 DEF Partial
  <2>2. CASE t \in Stop
    BY <2>1, <2>2 DEF Recurs
  <2>3. CASE t \notin Stop
    <3>1. pred[t] \in D /\ size[pred[t]] \in Nat /\ size[pred[t]] < size[t] /\ size[t] \in Nat
      BY <1>0, <2>3
    <3>2. pred[t] \in UpTo(D, size, size[t]) /\ pred[t] \in UpTo(D, size, size[pred[t]])
      BY <3>1 DEF UpTo
    <3>3. some[size[t]][pred[t]] = some[size[pred[t]]][pred[t]]
      <4> HIDE DEF P
      <4> QED
        BY <1>1, <1>6, <3>1, <3>2
    <3>4. f[pred[t]] = some[size[pred[t]]][pred[t]]
      BY <3>1
    <3> HIDE DEF f
    <3> QED
      BY <2>1, <2>3, <3>3, <3>4 DEF Recurs
  <2> QED
    BY <2>2, <2>3
<1>4. f \in [D -> V]
  BY <1>3
<1> HIDE DEF f
<1> QED
  BY <1>3, <1>4

\* and what holds of a text or number if it holds of the one before holds of all.
LEMMA Induction ==
  ASSUME NEW D, NEW Stop, NEW pred, NEW size, Descends(D, Stop, pred, size),
         NEW Good, Inherited(D, Stop, pred, Good)
  PROVE  D \subseteq Good
<1>0. /\ pred \in [D -> D] /\ size \in [D -> Nat]
      /\ \A t \in D \ Stop : size[pred[t]] < size[t]
  BY DEF Descends
<1>9. D \cap Stop \subseteq Good /\ \A t \in D \ Stop : pred[t] \in Good => t \in Good
  BY DEF Inherited
<1> DEFINE bad == {k \in Nat : \E t \in D \ Good : size[t] = k}
<1>1. CASE bad = {}
  BY <1>0, <1>1
<1>2. CASE bad # {}
  <2>1. PICK k \in bad : \A j \in bad : k <= j
    <3>1. bad \in SUBSET Nat
      OBVIOUS
    <3> HIDE DEF bad
    <3> QED
      BY <1>2, <3>1, MinOf
  <2>2. PICK t \in D \ Good : size[t] = k
    BY <2>1
  <2>3. t \notin Stop /\ pred[t] \in D \ Good
    BY <1>0, <1>9, <2>2
  <2>4. size[pred[t]] \in bad /\ size[pred[t]] < k /\ k \in Nat /\ size[pred[t]] \in Nat
    BY <1>0, <2>2, <2>3
  <2> QED
    BY <2>1, <2>4
<1> QED
  BY <1>1, <1>2

-----------------------------------------------------------------------------
(* The numbers in its environment.                                         *)

\* Decimal of a text with one digit more is ten times that of the text, and the digit.
LEMMA DecimalIs ==
  /\ Decimal \in [Seq(DOMAIN Digits) -> Nat]
  /\ Decimal[<<>>] = 0
  /\ \A t \in Seq(DOMAIN Digits) : t # <<>> =>
       Decimal[t] = 10 * Decimal[SubSeq(t, 1, Len(t) - 1)] + Digits[t[Len(t)]]
<1> DEFINE T    == Seq(DOMAIN Digits)
           Stop == {<<>>}
           base == [t \in T |-> 0]
           pred == [t \in T |-> IF t = <<>> THEN t ELSE SubSeq(t, 1, Len(t) - 1)]
           size == [t \in T |-> Len(t)]
           step == [s \in T \X Nat |-> IF s[1] = <<>> THEN 0 ELSE 10 * s[2] + Digits[s[1][Len(s[1])]]]
<1>1. ASSUME NEW t \in T, t # <<>>
      PROVE  /\ SubSeq(t, 1, Len(t) - 1) \in T /\ Len(SubSeq(t, 1, Len(t) - 1)) = Len(t) - 1
             /\ Len(t) \in Nat \ {0} /\ Digits[t[Len(t)]] \in 0..9
  <2> DEFINE k == Len(t) - 1
  <2>1. Len(t) \in Nat \ {0}
    BY <1>1, EmptySeq
  <2>2. k \in Nat /\ 1 \in Nat \ {0} /\ 1 <= k + 1 /\ k <= Len(t) /\ k - 1 + 1 = k
    BY <2>1
  <2>3. t[Len(t)] \in DOMAIN Digits
    BY <2>1
  <2>4. \A d \in DOMAIN Digits : Digits[d] \in 0..9
    BY DEF Digits
  <2> HIDE DEF k
  <2>5. SubSeq(t, 1, k) \in T /\ Len(SubSeq(t, 1, k)) = k - 1 + 1
    BY <2>2, SubSeqIs
  <2> QED
    BY <2>1, <2>2, <2>3, <2>4, <2>5 DEF k
<1>2. base \in [T -> Nat] /\ size \in [T -> Nat] /\ pred \in [T -> T]
  <2>1. \A t \in T : pred[t] \in T
    BY <1>1
  <2>2. \A t \in T : size[t] \in Nat
    OBVIOUS
  <2> HIDE DEF T
  <2> QED
    BY <2>1, <2>2
<1>3. step \in [T \X Nat -> Nat]
  <2>1. ASSUME NEW s \in T \X Nat
        PROVE  step[s] \in Nat
    <3>1. s[1] \in T /\ s[2] \in Nat
      OBVIOUS
    <3>2. CASE s[1] = <<>>
      BY <3>2
    <3>3. CASE s[1] # <<>>
      <4>1. Digits[s[1][Len(s[1])]] \in 0..9
        BY <1>1, <3>1, <3>3
      <4> QED
        BY <3>1, <3>3, <4>1
    <3> QED
      BY <3>2, <3>3
  <2> QED
    BY <2>1
<1>4. Descends(T, Stop, pred, size)
  <2>1. \A t \in T \ Stop : size[pred[t]] < size[t]
    BY <1>1
  <2> HIDE DEF T, Stop, pred, size
  <2> QED
    BY <1>2, <2>1 DEF Descends
<1> DEFINE Turn(f) == [t \in T |-> IF t = <<>> THEN 0
                                   ELSE 10 * f[SubSeq(t, 1, Len(t) - 1)] + Digits[t[Len(t)]]]
<1>5. PICK f \in [T -> Nat] : \A t \in T : Recurs(f, t, Stop, base, pred, step)
  <2> HIDE DEF T, Stop, base, pred, size, step
  <2> QED
    BY <1>2, <1>3, <1>4, RecursionExists
<1>6. f = Turn(f)
  <2>1. ASSUME NEW t \in T
        PROVE  f[t] = Turn(f)[t]
    <3>1. CASE t = <<>>
      BY <1>5, <3>1 DEF Recurs
    <3>2. CASE t # <<>>
      <4>1. f[t] = step[<<t, f[pred[t]]>>] /\ f[pred[t]] \in Nat /\ pred[t] = SubSeq(t, 1, Len(t) - 1)
        BY <1>2, <1>5, <3>2 DEF Recurs
      <4>2. <<t, f[pred[t]]>> \in T \X Nat
        BY <4>1
      <4>3. step[<<t, f[pred[t]]>>] = 10 * f[pred[t]] + Digits[t[Len(t)]]
        BY <3>2, <4>2
      <4> HIDE DEF pred, step
      <4> QED
        BY <3>2, <4>1, <4>3
    <3> QED
      BY <3>1, <3>2
  <2> DEFINE g == Turn(f)
  <2>2. DOMAIN g = T
    OBVIOUS
  <2>3. g = [t \in T |-> g[t]]
    OBVIOUS
  <2> HIDE DEF g, T
  <2> QED
    BY <2>1, <2>2, <2>3 DEF g
<1>7. Decimal = Turn(Decimal)
  BY <1>6, Zenon DEF Decimal
<1>8. /\ Decimal[<<>>] = 0
      /\ \A t \in T : t # <<>> => Decimal[t] = 10 * Decimal[SubSeq(t, 1, Len(t) - 1)] + Digits[t[Len(t)]]
  <2>1. \A t \in T : Turn(Decimal)[t] = IF t = <<>> THEN 0
                                   ELSE 10 * Decimal[SubSeq(t, 1, Len(t) - 1)] + Digits[t[Len(t)]]
    OBVIOUS
  <2>2. <<>> \in T
    OBVIOUS
  <2> HIDE DEF Turn, T
  <2> QED
    BY <1>7, <2>1, <2>2
<1> DEFINE Good == {t \in T : Decimal[t] \in Nat}
<1>9. T \subseteq Good
  <2>1. T \cap Stop \subseteq Good
    BY <1>8
  <2>2. ASSUME NEW t \in T \ Stop, pred[t] \in Good
        PROVE  t \in Good
    <3>1. Decimal[SubSeq(t, 1, Len(t) - 1)] \in Nat /\ Digits[t[Len(t)]] \in 0..9
      BY <1>1, <2>2
    <3> QED
      BY <1>8, <2>2, <3>1
  <2>3. Inherited(T, Stop, pred, Good)
    <3> HIDE DEF T, Stop, pred, size, Good
    <3> QED
      BY <2>1, <2>2 DEF Inherited
  <2> HIDE DEF T, Stop, pred, size, Good
  <2> QED
    BY <1>2, <1>4, <2>1, <2>3, Induction
<1>10. Decimal \in [T -> Nat]
  <2>1. DOMAIN Decimal = T
    BY <1>7
  <2>2. Decimal = [t \in T |-> Decimal[t]]
    BY <1>7
  <2> HIDE DEF T
  <2> QED
    BY <1>9, <2>2
<1> QED
  BY <1>8, <1>10

\* strtoul returns a number up to the limit, or the caller refuses what it returns.
LEMMA ParsedUl ==
  ASSUME NEW S, NEW text \in Seq(S), NEW limit \in Nat
  PROVE  StrToUl(text, limit) \in {-1} \cup 0..limit
<1> DEFINE first    == Min({i \in 1..(Len(text) + 1) : i > Len(text) \/ text[i] \notin Space})
           number   == SubSeq(text, first, Len(text))
           signed   == number # <<>> /\ number[1] \in {"-", "+"}
           digits   == IF signed THEN Tail(number) ELSE number
           isNumber == \A i \in DOMAIN digits : digits[i] \in DOMAIN Digits
           value    == Decimal[digits]
           minus    == number[1] = "-"
           result   == IF minus /\ value # 0 THEN MaxUlong + 1 - value ELSE value
<1>1. StrToUl(text, limit) =
        IF text = <<>> THEN 0
        ELSE IF ~isNumber \/ digits = <<>> THEN -1
        ELSE IF value > MaxUlong \/ result > limit THEN -1
        ELSE result
  BY DEF StrToUl
<1>2. Len(text) \in Nat
  OBVIOUS
<1>3. first \in 1..(Len(text) + 1)
  <2> DEFINE at == {i \in 1..(Len(text) + 1) : i > Len(text) \/ text[i] \notin Space}
  <2>1. at \in SUBSET Nat /\ Len(text) + 1 \in at /\ at \subseteq 1..(Len(text) + 1)
    BY <1>2
  <2>2. Min(at) \in at
    <3> HIDE DEF at
    <3> QED
      BY <2>1, MinOf
  <2> QED
    BY <2>1, <2>2
<1> HIDE DEF first
<1>4. number \in Seq(S)
  <2>1. first \in Nat \ {0} /\ Len(text) \in Nat /\ first <= Len(text) + 1 /\ Len(text) <= Len(text)
    BY <1>2, <1>3
  <2> QED
    BY <2>1, SubSeqIs
<1> HIDE DEF number
<1>5. digits \in Seq(S)
  BY <1>4, HeadTailProperties
<1> HIDE DEF digits
<1>6. isNumber => digits \in Seq(DOMAIN Digits)
  <2> SUFFICES ASSUME isNumber
               PROVE  digits \in Seq(DOMAIN Digits)
    OBVIOUS
  <2>1. DOMAIN digits = 1..Len(digits) /\ Len(digits) \in Nat
    BY <1>5
  <2>2. digits \in [1..Len(digits) -> DOMAIN Digits]
    BY <1>5, <2>1
  <2> QED
    BY <2>1, <2>2, SeqDef
<1>7. isNumber => value \in Nat
  BY <1>6, DecimalIs
<1> HIDE DEF isNumber, value, minus
<1>8. MaxUlong \in Nat
  BY DEF MaxUlong
<1>9. isNumber /\ ~(value > MaxUlong) => result \in Nat
  BY <1>7, <1>8
<1> HIDE DEF result
<1> QED
  BY <1>1, <1>9

\* A number in the environment is one from 1 to the limit, or refused.
LEMMA ParsedNumber ==
  ASSUME NEW S, NEW text \in Seq(S), NEW limit \in Nat
  PROVE  ParsePositive(text, limit) \in {-1} \cup 1..limit
BY ParsedUl DEF ParsePositive

\* So is a number of days.
LEMMA ParsedLong ==
  ASSUME NEW S, NEW text \in Seq(S)
  PROVE  ParseLong(text) \in {-1} \cup 1..MaxLong
<1>1. MaxLong \in Nat
  BY DEF MaxLong
<1>2. ParsePositive(text, MaxLong) \in {-1} \cup 1..MaxLong
  BY <1>1, ParsedNumber
<1> QED
  BY <1>2, Zenon DEF ParseLong

\* So is one with a default.
LEMMA NumberOr ==
  ASSUME NEW S, NEW text \in Seq(S), NEW limit \in Nat, NEW default \in Nat \ {0}, default <= limit,
         NEW number, number = IF text = NoString THEN default ELSE ParsePositive(text, limit),
         number # -1
  PROVE  number \in 1..limit
<1>1. ParsePositive(text, limit) \in {-1} \cup 1..limit
  BY ParsedNumber
<1> QED
  BY <1>1

\* What an id is made of is neither a blank nor the mark of a comment.
LEMMA NotSpace == \A c \in {"a", "b", "1", "-", ":"} : c \notin Space /\ c # "#"
  BY Zenon DEF Space

\* The limit load_config gives for ENROLLMENT_PORT
MaxPort == 65535

(* Started with any environment and any allowlist, the service listens on a *)
(* port, issues for a day or more, and judges a device by the allowlist or, *)
(* told to, takes any: ENROLLMENT_ALLOW_ANY_DEVICE is "1".                  *)
THEOREM LoadedAsConfigured ==
  ASSUME NEW S, NEW env, env.port \in Seq(S), env.ttl \in Seq(S),
         NEW file, file = NoFile \/ file \in Seq(Seq(S)),
         Load(env, file) # NoConfig
  PROVE  LET cfg    == Load(env, file)
             listed == DupEnv(env.allowlist) # NoString
         IN /\ cfg.port \in Nat \ {0} /\ cfg.port <= MaxPort /\ cfg.ttl \in 1..MaxLong
            /\ cfg.region = Either(env.region, DupEnv(env.defaultRegion)) /\ cfg.region # NoString
            /\ cfg.allowAny <=> env.allowAny = <<"1">>
            /\ listed => file # NoFile
            /\ \A id \in Seq(S), maxLen \in Nat :
                 MayIssue(cfg, id, maxLen) <=>
                   /\ ValidDeviceId(id, maxLen)
                   /\ \/ env.allowAny = <<"1">>
                      \/ listed /\ \E i \in DOMAIN file : Names(file[i], id)
<1> DEFINE port    == IF env.port = NoString THEN 8080 ELSE ParsePositive(env.port, 65535)
           ttl     == IF env.ttl = NoString THEN 365 ELSE ParseLong(env.ttl)
           region  == Either(env.region, DupEnv(env.defaultRegion))
           listed  == DupEnv(env.allowlist) # NoString
           allowed == IF listed /\ file # NoFile THEN LoadAllowlist(file) ELSE {}
           cfg     == Load(env, file)
<1>1. /\ port # -1 /\ ttl # -1 /\ region # NoString /\ ~(listed /\ file = NoFile)
      /\ cfg = [port |-> port, ttl |-> ttl, region |-> region, allowed |-> allowed,
                allowAny |-> env.allowAny = <<"1">>, token |-> DupEnv(env.token)]
  BY SMT DEF Load
<1>2. port \in Nat \ {0} /\ port <= MaxPort
  <2> DEFINE limit == 65535
             text  == env.port
  <2>1. limit \in Nat /\ 8080 \in Nat \ {0} /\ 8080 <= limit
    BY SMT
  <2>2. port # -1 /\ text \in Seq(S)
    BY <1>1, SMT
  <2>3. port = IF text = NoString THEN 8080 ELSE ParsePositive(text, limit)
    BY SMT
  <2> HIDE DEF port, text, limit
  <2>4. port \in 1..limit
    BY <2>1, <2>2, <2>3, NumberOr, SMT
  <2> QED
    BY <2>1, <2>4, SMT DEF limit, MaxPort
<1>3. ttl \in 1..MaxLong
  <2>1. MaxLong \in Nat
    BY SMT DEF MaxLong
  <2>2. 365 \in Nat \ {0} /\ 365 <= MaxLong
    BY SMT DEF MaxLong
  <2>3. ttl # -1 /\ env.ttl \in Seq(S)
    BY <1>1, SMT
  <2>4. ttl = 365 \/ ttl = ParseLong(env.ttl)
    BY SMT
  <2> HIDE DEF ttl
  <2>5. ParseLong(env.ttl) \in {-1} \cup 1..MaxLong
    BY <2>3, ParsedLong
  <2> QED
    BY <2>1, <2>2, <2>3, <2>4, <2>5, SMT
<1> HIDE DEF port, ttl, region, cfg
<1>4. ASSUME NEW id \in Seq(S), NEW maxLen \in Nat
      PROVE  MayIssue(cfg, id, maxLen) <=>
               /\ ValidDeviceId(id, maxLen)
               /\ \/ env.allowAny = <<"1">>
                  \/ listed /\ \E i \in DOMAIN file : Names(file[i], id)
  <2>1. MayIssue(cfg, id, maxLen) <=>
          ValidDeviceId(id, maxLen) /\ (env.allowAny = <<"1">> \/ id \in allowed)
    BY <1>1 DEF MayIssue, DeviceAllowed
  <2>2. ASSUME ValidDeviceId(id, maxLen), listed
        PROVE  id \in allowed <=> \E i \in DOMAIN file : Names(file[i], id)
    <3>1. id # <<>> /\ id[1] # "#" /\ \A i \in 1..Len(id) : id[i] \notin Space
      <4>1. Len(id) \in Nat \ {0} /\ DOMAIN id = 1..Len(id)
        BY <2>2 DEF ValidDeviceId
      <4>2. \A i \in 1..Len(id) : id[i] \in {"a", "b", "1", "-", ":"}
        BY <2>2, <4>1 DEF ValidDeviceId
      <4>3. id[1] \in {"a", "b", "1", "-", ":"}
        BY <4>1, <4>2
      <4> QED
        BY <4>1, <4>2, <4>3, NotSpace, SMT
    <3>2. file \in Seq(Seq(S)) /\ allowed = LoadAllowlist(file)
      BY <1>1, <2>2
    <3> HIDE DEF allowed
    <3> QED
      BY <3>1, <3>2, AllowlistNames
  <2>3. ~listed => id \notin allowed
    OBVIOUS
  <2> HIDE DEF allowed, listed
  <2> QED
    BY <2>1, <2>2, <2>3
<1>5. cfg.port = port /\ cfg.ttl = ttl /\ cfg.region = region /\ (cfg.allowAny <=> env.allowAny = <<"1">>)
  BY <1>1, Zenon
<1>6. cfg.port \in Nat \ {0} /\ cfg.port <= MaxPort /\ cfg.ttl \in 1..MaxLong
  BY <1>2, <1>3, <1>5, Zenon
<1>7. cfg.region = Either(env.region, DupEnv(env.defaultRegion)) /\ cfg.region # NoString
  BY <1>1, <1>5, Zenon DEF region
<1>8. listed => file # NoFile
  BY <1>1, Zenon
<1> QED
  BY <1>4, <1>5, <1>6, <1>7, <1>8, Zenon DEF cfg

(* Hence the run's property: the certificates handle_client issues go to   *)
(* the devices the environment and the allowlist name.                     *)
THEOREM IssuedToConfigured == Spec => []IssuedAsConfigured
<1> DEFINE Chars == {"null", "path", "r", "0", "1", "3", "5", "6", "9", "-", " ", "\n", "\r", "a", "b", "#"}
<1>1. Numbers \subseteq Seq(Chars) /\ {NoString, <<"1">>, <<"0">>, <<"-", "9", "9", "9", "9", "9">>}
                                      \subseteq Seq(Chars)
  BY DEF Numbers, NoString
<1>2. FileLines \subseteq Seq(Chars)
  BY DEF FileLines
<1>3. {<<"a">>, <<"b">>, <<"a", "b">>, <<"#", "a">>, <<"a", "a", "a">>} \subseteq Seq(Chars)
  OBVIOUS
<1> HIDE DEF Chars
<1>4. ASSUME NEW file \in Files
      PROVE  file = NoFile \/ file \in Seq(Seq(Chars))
  <2>1. file = NoFile \/ file \in Seq(FileLines)
    <3>1. file = NoFile \/ \E m \in 0..2 : file \in [1..m -> FileLines]
      BY Zenon DEF Files, SeqOf
    <3>2. \A m \in 0..2 : m \in Nat
      OBVIOUS
    <3> QED
      BY <3>1, <3>2, SeqDef, Zenon
  <2> QED
    BY <1>2, <2>1, SeqMonotonic
<1>5. ASSUME NEW id \in {<<"a">>, <<"b">>, <<"a", "b">>, <<"#", "a">>, <<"a", "a", "a">>}
      PROVE  ValidDeviceId(id, 2) <=> Len(id) <= 2 /\ "#" \notin Range(id)
  <2>1. id \in Seq({"a", "b", "#"}) /\ id # <<>>
    <3>1. {<<"a">>, <<"b">>, <<"a", "b">>, <<"#", "a">>, <<"a", "a", "a">>} \subseteq Seq({"a", "b", "#"})
      OBVIOUS
    <3>2. <<>> \notin {<<"a">>, <<"b">>, <<"a", "b">>, <<"#", "a">>, <<"a", "a", "a">>}
      OBVIOUS
    <3> QED
      BY <3>1, <3>2, Zenon
  <2>2. Len(id) \in Nat \ {0} /\ DOMAIN id = 1..Len(id)
    BY <2>1, EmptySeq, LenProperties
  <2>3. \A i \in 1..Len(id) : id[i] \in {"a", "b", "#"}
    BY <2>1, ElementOfSeq
  <2>4. \A c \in {"a", "b", "#"} : c \in {"a", "b", "1", "-", ":"} <=> c # "#"
    OBVIOUS
  <2>5. "#" \notin Range(id) <=> \A i \in 1..Len(id) : id[i] # "#"
    BY <2>2, Zenon DEF Range
  <2>6. Len(id) \in 1..2 <=> Len(id) <= 2
    BY <2>2
  <2>7. ValidDeviceId(id, 2) <=> Len(id) \in 1..2 /\ \A i \in 1..Len(id) : id[i] \in {"a", "b", "1", "-", ":"}
    BY <2>2, Zenon DEF ValidDeviceId
  <2> QED
    BY <2>3, <2>4, <2>5, <2>6, <2>7, Zenon
<1>6. \A env \in Environments, file \in Files :
        LET cfg == Load(env, file) IN cfg # NoConfig =>
          /\ cfg.port > 0 /\ cfg.port <= MaxPort /\ cfg.ttl > 0 /\ cfg.region = <<"r">>
          /\ \A id \in {<<"a">>, <<"b">>, <<"a", "b">>, <<"#", "a">>, <<"a", "a", "a">>} :
               MayIssue(cfg, id, 2) <=>
                 /\ Len(id) <= 2 /\ "#" \notin Range(id)
                 /\ \/ env.allowAny = <<"1">>
                    \/ env.allowlist = <<"path">> /\ \E l \in Range(file) : Names(l, id)
  <2> SUFFICES ASSUME NEW env \in Environments, NEW file \in Files, Load(env, file) # NoConfig
               PROVE  LET cfg == Load(env, file) IN
                      /\ cfg.port > 0 /\ cfg.port <= MaxPort /\ cfg.ttl > 0 /\ cfg.region = <<"r">>
                      /\ \A id \in {<<"a">>, <<"b">>, <<"a", "b">>, <<"#", "a">>, <<"a", "a", "a">>} :
                           MayIssue(cfg, id, 2) <=>
                             /\ Len(id) <= 2 /\ "#" \notin Range(id)
                             /\ \/ env.allowAny = <<"1">>
                                \/ env.allowlist = <<"path">> /\ \E l \in Range(file) : Names(l, id)
    BY Zenon
  <2> DEFINE cfg    == Load(env, file)
             listed == DupEnv(env.allowlist) # NoString
  <2>1. env.port \in Seq(Chars) /\ env.ttl \in Seq(Chars)
    <3>1. env.port \in Numbers
      BY SMT DEF Environments
    <3>2. env.ttl \in {NoString, <<"1">>, <<"0">>, <<"-", "9", "9", "9", "9", "9">>}
      BY SMT DEF Environments
    <3> QED
      BY <1>1, <3>1, <3>2, Zenon
  <2>2. file = NoFile \/ file \in Seq(Seq(Chars))
    BY <1>4
  <2>3. /\ cfg.port \in Nat \ {0} /\ cfg.port <= MaxPort /\ cfg.ttl \in 1..MaxLong
        /\ cfg.region = Either(env.region, DupEnv(env.defaultRegion)) /\ cfg.region # NoString
        /\ listed => file # NoFile
        /\ \A id \in Seq(Chars), maxLen \in Nat :
             MayIssue(cfg, id, maxLen) <=>
               /\ ValidDeviceId(id, maxLen)
               /\ \/ env.allowAny = <<"1">>
                  \/ listed /\ \E i \in DOMAIN file : Names(file[i], id)
    BY <2>1, <2>2, LoadedAsConfigured, Zenon
  <2> HIDE DEF cfg
  <2>4. cfg.ttl > 0 /\ cfg.port > 0
    <3>1. MaxLong \in Nat
      BY SMT DEF MaxLong
    <3> QED
      BY <2>3, <3>1, SMT
  <2>5. cfg.region = <<"r">>
    <3>1. env.region \in {NoString, <<"r">>} /\ env.defaultRegion \in {<<>>, <<"r">>}
      BY SMT DEF Environments
    <3> QED
      BY <2>3, <3>1, SMT DEF Either, DupEnv
  <2>6. listed <=> env.allowlist = <<"path">>
    <3>1. env.allowlist \in {NoString, <<"path">>}
      BY SMT DEF Environments
    <3>2. <<"path">> # NoString /\ <<"path">> # <<>>
      BY SMT DEF NoString
    <3>3. CASE env.allowlist = NoString
      BY <3>2, <3>3, Zenon DEF DupEnv
    <3>4. CASE env.allowlist = <<"path">>
      BY <3>2, <3>4, Zenon DEF DupEnv
    <3> QED
      BY <3>1, <3>3, <3>4, Zenon
  <2>7. \A id : (\E i \in DOMAIN file : Names(file[i], id)) <=> \E l \in Range(file) : Names(l, id)
    BY Zenon DEF Range
  <2> HIDE DEF listed
  <2>8. ASSUME NEW id \in {<<"a">>, <<"b">>, <<"a", "b">>, <<"#", "a">>, <<"a", "a", "a">>}
        PROVE  MayIssue(cfg, id, 2) <=>
                 /\ Len(id) <= 2 /\ "#" \notin Range(id)
                 /\ \/ env.allowAny = <<"1">>
                    \/ env.allowlist = <<"path">> /\ \E l \in Range(file) : Names(l, id)
    <3>0. 2 \in Nat
      OBVIOUS
    <3>1. id \in Seq(Chars) /\ 2 \in Nat
      BY <1>3, <3>0, Zenon
    <3>2. MayIssue(cfg, id, 2) <=>
            /\ ValidDeviceId(id, 2)
            /\ \/ env.allowAny = <<"1">>
               \/ listed /\ \E i \in DOMAIN file : Names(file[i], id)
      BY <2>3, <3>1, Zenon
    <3> QED
      BY <1>5, <2>6, <2>7, <3>2, Zenon
  <2> QED
    BY <2>3, <2>4, <2>5, <2>8, Zenon DEF cfg
<1>7. StartsAsConfigured
  BY <1>6, SMT DEF StartsAsConfigured, MaxPort
<1>8. IssuedAsConfigured
  BY <1>7, Zenon DEF IssuedAsConfigured
<1> QED
  BY <1>8, PTL
-----------------------------------------------------------------------------
(* A request that arrives in pieces.                                       *)

\* A part of what has arrived is that part of the request.
LEMMA SubSeqPrefix ==
  ASSUME NEW S, NEW text \in Seq(S), NEW k \in 0..Len(text),
         NEW m \in Nat \ {0}, NEW n \in Nat, m <= n + 1, n <= k
  PROVE  SubSeq(SubSeq(text, 1, k), m, n) = SubSeq(text, m, n)
<1> DEFINE start == SubSeq(text, 1, k)
           left  == SubSeq(start, m, n)
           right == SubSeq(text, m, n)
<1>1. Len(text) \in Nat /\ k \in Nat /\ 1 \in Nat \ {0} /\ 1 <= k + 1 /\ k <= Len(text) /\ n <= Len(text)
      /\ k - 1 + 1 = k
  OBVIOUS
<1>2. start \in Seq(S) /\ Len(start) = k /\ \A i \in 1..k : start[i] = text[1 + i - 1]
  BY <1>1, SubSeqIs
<1> HIDE DEF start
<1>3. /\ left \in Seq(S) /\ Len(left) = n - m + 1
      /\ \A i \in 1..(n - m + 1) : left[i] = start[m + i - 1]
  BY <1>2, SubSeqIs
<1>4. /\ right \in Seq(S) /\ Len(right) = n - m + 1
      /\ \A i \in 1..(n - m + 1) : right[i] = text[m + i - 1]
  BY <1>1, SubSeqIs
<1> HIDE DEF left, right
<1>5. ASSUME NEW i \in 1..(n - m + 1)
      PROVE  left[i] = right[i]
  <2>1. m + i - 1 \in 1..k /\ 1 + (m + i - 1) - 1 = m + i - 1
    BY <1>1
  <2> QED
    BY <1>2, <1>3, <1>4, <2>1
<1>6. left = right
  BY <1>3, <1>4, <1>5, SeqEqual
<1> QED
  BY <1>6 DEF left, right, start

\* strstr finds in what has arrived a match that lies in it, and no other.
LEMMA FindPrefix ==
  ASSUME NEW S, NEW text \in Seq(S), NEW s \in Seq(S), s # <<>>, NEW from \in Nat \ {0},
         NEW k \in 0..Len(text)
  PROVE  LET i == Find(text, s, from)
         IN Find(SubSeq(text, 1, k), s, from) = IF i # 0 /\ i + Len(s) - 1 <= k THEN i ELSE 0
<1> DEFINE start == SubSeq(text, 1, k)
           i     == Find(text, s, from)
<1>1. Len(text) \in Nat /\ k \in Nat /\ k <= Len(text) /\ Len(s) \in Nat \ {0}
  BY EmptySeq
<1>2. Len(start) = k
  <2>1. 1 \in Nat \ {0} /\ 1 <= k + 1 /\ k - 1 + 1 = k
    BY <1>1
  <2> QED
    BY <1>1, <2>1, SubSeqIs
<1>3. \A j \in from..(k - Len(s) + 1) : SubSeq(start, j, j + Len(s) - 1) = SubSeq(text, j, j + Len(s) - 1)
  <2>1. ASSUME NEW j \in from..(k - Len(s) + 1)
        PROVE  SubSeq(start, j, j + Len(s) - 1) = SubSeq(text, j, j + Len(s) - 1)
    <3> DEFINE n == j + Len(s) - 1
    <3>1. j \in Nat \ {0} /\ n \in Nat /\ j <= n + 1 /\ n <= k
      BY <1>1
    <3> HIDE DEF n
    <3>2. SubSeq(start, j, n) = SubSeq(text, j, n)
      BY <3>1, SubSeqPrefix
    <3> QED
      BY <3>2 DEF n
  <2> QED
    BY <2>1
<1>4. \/ /\ i = 0
         /\ \A j \in from..(Len(text) - Len(s) + 1) : SubSeq(text, j, j + Len(s) - 1) # s
      \/ /\ i \in from..(Len(text) - Len(s) + 1)
         /\ SubSeq(text, i, i + Len(s) - 1) = s
         /\ \A j \in from..(i - 1) : SubSeq(text, j, j + Len(s) - 1) # s
  <2>1. Len(text) \in Nat /\ Len(s) \in Nat
    BY <1>1
  <2> HIDE DEF start
  <2> QED
    BY <2>1, FoundAt, ZenonT(120)
<1> HIDE DEF i, start
<1>5. CASE i # 0 /\ i + Len(s) - 1 <= k
  <2>1. /\ Len(start) \in Nat /\ Len(s) \in Nat /\ from \in Nat /\ i \in Nat
        /\ from <= i /\ i <= Len(start) - Len(s) + 1
    BY <1>1, <1>2, <1>4, <1>5
  <2>2. SubSeq(start, i, i + Len(s) - 1) = s
    <3>1. i \in from..(k - Len(s) + 1)
      BY <1>1, <1>5, <2>1
    <3>2. SubSeq(text, i, i + Len(s) - 1) = s
      BY <1>4, <1>5
    <3> QED
      BY <1>3, <3>1, <3>2
  <2>3. \A j \in from..(i - 1) : SubSeq(start, j, j + Len(s) - 1) # s
    <3>1. ASSUME NEW j \in from..(i - 1)
          PROVE  SubSeq(start, j, j + Len(s) - 1) # s
      <4>1. j \in from..(k - Len(s) + 1)
        BY <1>1, <1>5, <2>1
      <4>2. SubSeq(text, j, j + Len(s) - 1) # s
        BY <1>4, <1>5
      <4> QED
        BY <1>3, <4>1, <4>2
    <3> QED
      BY <3>1
  <2>4. Find(start, s, from) = i
    BY <2>1, <2>2, <2>3, FindAt
  <2> QED
    BY <1>5, <2>4 DEF i, start
<1>6. CASE ~(i # 0 /\ i + Len(s) - 1 <= k)
  <2>1. ASSUME NEW j \in from..(Len(start) - Len(s) + 1)
        PROVE  SubSeq(start, j, j + Len(s) - 1) # s
    <3>1. j \in from..(k - Len(s) + 1) /\ j \in from..(Len(text) - Len(s) + 1)
      BY <1>1, <1>2
    <3>2. i # 0 => j \in from..(i - 1)
      BY <1>1, <1>4, <1>6, <3>1
    <3>3. SubSeq(text, j, j + Len(s) - 1) # s
      <4>1. CASE i = 0
        <5>1. 0 \notin from..(Len(text) - Len(s) + 1)
          BY <1>1
        <5> QED
          BY <1>4, <3>1, <4>1, <5>1, Zenon
      <4>2. CASE i # 0
        BY <1>4, <3>2, <4>2, Zenon
      <4> QED
        BY <4>1, <4>2
    <3>4. SubSeq(start, j, j + Len(s) - 1) = SubSeq(text, j, j + Len(s) - 1)
      BY <1>3, <3>1
    <3> QED
      BY <3>3, <3>4
  <2>2. Find(start, s, from) = 0
    BY <2>1 DEF Find
  <2> QED
    BY <1>6, <2>2 DEF i, start
<1> QED
  BY <1>5, <1>6

\* The ends of lines
LEMMA CrlfBytes ==
  ASSUME NEW S, {"cr", "lf"} \subseteq S
  PROVE  /\ Crlf \in Seq(S) /\ Len(Crlf) = 2 /\ Crlf # <<>>
         /\ Crlf \o Crlf \in Seq(S) /\ Len(Crlf \o Crlf) = 4 /\ Crlf \o Crlf # <<>>
         /\ SubSeq(Crlf \o Crlf, 1, 2) = Crlf
<1>1. Crlf = <<"cr", "lf">>
  BY DEF Crlf
<1>2. Crlf \in Seq(S)
  BY <1>1
<1>3. Len(Crlf) = 2
  BY <1>1
<1>4. Crlf \o Crlf \in Seq(S) /\ Len(Crlf \o Crlf) = 4
  BY <1>2, <1>3, ConcatProperties
<1>5. SubSeq(Crlf \o Crlf, 1, 2) = SubSeq(Crlf, 1, 2)
  <2>1. 1 \in 1..Len(Crlf) /\ 2 \in 1..Len(Crlf)
    BY <1>3
  <2> QED
    BY <1>2, <2>1, SubSeqOfConcat1
<1>6. SubSeq(Crlf, 1, 2) = Crlf
  BY <1>2, <1>3, SubSeqFull
<1> QED
  BY <1>2, <1>3, <1>4, <1>5, <1>6

\* Every line of the headers ends at or before the blank line.
LEMMA HeadersEndAt ==
  ASSUME NEW S, {"cr", "lf"} \subseteq S, NEW text \in Seq(S)
  PROVE  LET end == HeadersEnd(text) IN end # 0 =>
           /\ end \in 1..Len(text) /\ end + 3 <= Len(text)
           /\ \A l \in 1..end : Find(text, Crlf, l) \in l..end
<1> DEFINE end == HeadersEnd(text)
           blank == Crlf \o Crlf
<1>1. Len(text) \in Nat /\ blank \in Seq(S) /\ Len(blank) = 4 /\ Len(Crlf) = 2
  BY CrlfBytes
<1> HIDE DEF blank
<1>2. \/ end = 0
      \/ end \in 1..(Len(text) - Len(blank) + 1) /\ SubSeq(text, end, end + Len(blank) - 1) = blank
  <2>1. Len(text) \in Nat /\ Len(blank) \in Nat /\ 1 \in Nat \ {0}
    BY <1>1
  <2>2. end = Find(text, blank, 1)
    BY DEF HeadersEnd, blank
  <2> DEFINE i == Find(text, blank, 1)
  <2>3. \/ /\ i = 0
           /\ \A j \in 1..(Len(text) - Len(blank) + 1) : SubSeq(text, j, j + Len(blank) - 1) # blank
        \/ /\ i \in 1..(Len(text) - Len(blank) + 1)
           /\ SubSeq(text, i, i + Len(blank) - 1) = blank
           /\ \A j \in 1..(i - 1) : SubSeq(text, j, j + Len(blank) - 1) # blank
    BY <2>1, FoundAt, ZenonT(120)
  <2>4. \/ i = 0
        \/ i \in 1..(Len(text) - Len(blank) + 1) /\ SubSeq(text, i, i + Len(blank) - 1) = blank
    <3> HIDE DEF i
    <3> QED
      BY <2>3
  <2> HIDE DEF i
  <2>5. end = i
    BY <2>2 DEF i
  <2> HIDE DEF end
  <2> QED
    BY <2>4, <2>5, Zenon
<1> HIDE DEF end
<1>3. SUFFICES ASSUME end # 0
               PROVE  /\ end \in 1..Len(text) /\ end + 3 <= Len(text)
                      /\ \A l \in 1..end : Find(text, Crlf, l) \in l..end
  BY DEF end
<1>4. end \in 1..Len(text) /\ end + 3 <= Len(text)
  BY <1>1, <1>2, <1>3
<1>5. SubSeq(text, end, end + 1) = Crlf
  <2>1. SubSeq(text, end, end + 3) = blank
    <3>1. end + Len(blank) - 1 = end + 3
      BY <1>1, <1>4
    <3> QED
      BY <1>2, <1>3, <3>1
  <2>2. SubSeq(SubSeq(text, end, end + 3), 1, 2) = SubSeq(text, end + 1 - 1, end + 2 - 1)
    <3> DEFINE last == end + 3
    <3>1. end \in 1..Len(text) /\ last \in 1..Len(text) /\ 1 \in 1..(last - end + 1) /\ 2 \in 1..(last - end + 1)
      BY <1>1, <1>4
    <3> HIDE DEF last
    <3>2. SubSeq(SubSeq(text, end, last), 1, 2) = SubSeq(text, end + 1 - 1, end + 2 - 1)
      BY <3>1, SubSeqOfSubSeq
    <3> QED
      BY <3>2 DEF last
  <2>3. end + 1 - 1 = end /\ end + 2 - 1 = end + 1
    BY <1>4
  <2>4. SubSeq(blank, 1, 2) = Crlf
    BY CrlfBytes DEF blank
  <2> QED
    BY <2>1, <2>2, <2>3, <2>4
<1>6. ASSUME NEW l \in 1..end
      PROVE  Find(text, Crlf, l) \in l..end
  <2>1. Len(text) \in Nat /\ Len(Crlf) \in Nat /\ l \in Nat \ {0}
    BY <1>1, <1>4
  <2> DEFINE i == Find(text, Crlf, l)
  <2>2. \/ /\ i = 0
           /\ \A j \in l..(Len(text) - Len(Crlf) + 1) : SubSeq(text, j, j + Len(Crlf) - 1) # Crlf
        \/ /\ i \in l..(Len(text) - Len(Crlf) + 1)
           /\ SubSeq(text, i, i + Len(Crlf) - 1) = Crlf
           /\ \A j \in l..(i - 1) : SubSeq(text, j, j + Len(Crlf) - 1) # Crlf
    BY <2>1, FoundAt, ZenonT(120)
  <2> HIDE DEF i
  <2>3. end \in l..(Len(text) - Len(Crlf) + 1) /\ SubSeq(text, end, end + Len(Crlf) - 1) = Crlf
    <3>1. end + Len(Crlf) - 1 = end + 1
      BY <1>1, <1>4
    <3> QED
      BY <1>1, <1>4, <1>5, <3>1
  <2>4. i \in l..(Len(text) - Len(Crlf) + 1) /\ end \notin l..(i - 1)
    BY <2>2, <2>3, Zenon
  <2>5. i \in l..end
    BY <1>1, <1>4, <2>1, <2>4
  <2> QED
    BY <2>5 DEF i
<1> QED
  BY <1>4, <1>6

\* What read_request finds in the headers once they have arrived, it would
\* find in all of the request.
LEMMA HeadersPrefix ==
  ASSUME NEW S, {"cr", "lf"} \subseteq S, NEW text \in Seq(S), NEW k \in 0..Len(text)
  PROVE  LET start == SubSeq(text, 1, k)
             end   == HeadersEnd(text)
         IN /\ HeadersEnd(start) = IF end # 0 /\ end + 3 <= k THEN end ELSE 0
            /\ end # 0 /\ end + 3 <= k =>
                 \A name : CopyHeaderValue(start, end, name) = CopyHeaderValue(text, end, name)
<1> DEFINE start == SubSeq(text, 1, k)
           end   == HeadersEnd(text)
<1>1. /\ Crlf \in Seq(S) /\ Len(Crlf) = 2 /\ Crlf # <<>>
      /\ Crlf \o Crlf \in Seq(S) /\ Len(Crlf \o Crlf) = 4 /\ Crlf \o Crlf # <<>>
  BY CrlfBytes
<1>2. HeadersEnd(start) = IF end # 0 /\ end + 3 <= k THEN end ELSE 0
  <2> DEFINE blank == Crlf \o Crlf
             i     == Find(text, blank, 1)
  <2>1. blank \in Seq(S) /\ blank # <<>> /\ Len(blank) = 4 /\ 1 \in Nat \ {0}
    BY <1>1
  <2>2. end = i /\ HeadersEnd(start) = Find(start, blank, 1)
    BY DEF HeadersEnd
  <2> HIDE DEF blank
  <2>3. Find(start, blank, 1) = IF i # 0 /\ i + Len(blank) - 1 <= k THEN i ELSE 0
    BY <2>1, FindPrefix
  <2>4. i # 0 => i + Len(blank) - 1 = i + 3
    <3>1. end # 0 => end \in 1..Len(text)
      BY HeadersEndAt
    <3> QED
      BY <2>1, <2>2, <3>1
  <2> QED
    BY <2>2, <2>3, <2>4
<1>3. ASSUME end # 0, end + 3 <= k, NEW name
      PROVE  CopyHeaderValue(start, end, name) = CopyHeaderValue(text, end, name)
  <2>1. /\ end \in 1..Len(text) /\ end + 3 <= Len(text)
        /\ \A l \in 1..end : Find(text, Crlf, l) \in l..end
    BY <1>3, HeadersEndAt
  <2> HIDE DEF end
  <2>2. Len(text) \in Nat /\ k \in Nat /\ k <= Len(text)
    OBVIOUS
  <2>3. ASSUME NEW l \in 1..end
        PROVE  Find(start, Crlf, l) = Find(text, Crlf, l)
    <3> DEFINE i == Find(text, Crlf, l)
    <3>1. i \in l..end /\ l \in Nat \ {0}
      BY <2>1
    <3>2. Find(start, Crlf, l) = IF i # 0 /\ i + Len(Crlf) - 1 <= k THEN i ELSE 0
      BY <1>1, <3>1, FindPrefix
    <3> HIDE DEF i
    <3>3. i # 0 /\ i + Len(Crlf) - 1 <= k
      BY <1>1, <1>3, <2>1, <2>2, <3>1
    <3> QED
      BY <3>2, <3>3 DEF i
  <2>4. ASSUME NEW l \in 1..end
        PROVE  start[l] = text[l]
    <3>1. \A i \in 1..(k - 1 + 1) : start[i] = text[1 + i - 1]
      <4>1. 1 \in Nat \ {0} /\ 1 <= k + 1
        BY <2>2
      <4> QED
        BY <2>2, <4>1, SubSeqIs
    <3>2. l \in 1..(k - 1 + 1) /\ 1 + l - 1 = l
      BY <1>3, <2>1, <2>2
    <3> HIDE DEF start
    <3> QED
      BY <3>1, <3>2
  <2> HIDE DEF start
  <2> DEFINE Starts(buf) == {1} \cup {i + 2 : i \in {j \in 1..end : Find(buf, Crlf, j) = j}}
             Lines_(buf) == {l \in Starts(buf) : l < end /\ buf[l] = name}
  <2>5. Starts(start) = Starts(text)
    BY <2>3
  <2>6. Starts(text) \subseteq Nat \ {0}
    BY <2>1
  <2> HIDE DEF Starts
  <2>7. Lines_(start) = Lines_(text) /\ Lines_(text) \subseteq 1..end
    <3>1. \A l \in Starts(text) : l < end => l \in 1..end
      BY <2>1, <2>6
    <3> QED
      BY <2>4, <2>5, <3>1
  <2>8. ASSUME Lines_(text) # {}
        PROVE  LET l == Min(Lines_(text)) IN
               SubSeq(start, l + 1, Find(start, Crlf, l) - 1) = SubSeq(text, l + 1, Find(text, Crlf, l) - 1)
    <3> DEFINE l == Min(Lines_(text))
    <3>1. l \in 1..end
      <4>1. Lines_(text) \in SUBSET Nat
        BY <2>7
      <4> HIDE DEF Lines_
      <4>2. l \in Lines_(text)
        BY <2>8, <4>1, MinOf
      <4> QED
        BY <2>7, <4>2
    <3> HIDE DEF l
    <3>2. Find(start, Crlf, l) = Find(text, Crlf, l) /\ Find(text, Crlf, l) \in l..end
      BY <2>1, <2>3, <3>1
    <3> DEFINE m == l + 1
               n == Find(text, Crlf, l) - 1
    <3>3. m \in Nat \ {0} /\ n \in Nat /\ n <= k
      BY <1>3, <2>1, <2>2, <3>1, <3>2
    <3>4. CASE m <= n + 1
      <4> HIDE DEF m, n
      <4>1. SubSeq(start, m, n) = SubSeq(text, m, n)
        BY <3>3, <3>4, SubSeqPrefix DEF start
      <4> QED
        BY <3>2, <4>1 DEF m, n, l
    <3>5. CASE ~(m <= n + 1)
      <4>1. n < m /\ m \in Int /\ n \in Int
        BY <3>3, <3>5
      <4> HIDE DEF m, n
      <4>2. SubSeq(start, m, n) = <<>> /\ SubSeq(text, m, n) = <<>>
        BY <4>1, SubSeqEmpty
      <4> QED
        BY <3>2, <4>2 DEF m, n, l
    <3> QED
      BY <3>4, <3>5
  <2>9. \A buf : CopyHeaderValue(buf, end, name) =
           IF Lines_(buf) = {} THEN NoString
           ELSE Trim(SubSeq(buf, Min(Lines_(buf)) + 1, Find(buf, Crlf, Min(Lines_(buf))) - 1), Blank)
    BY DEF CopyHeaderValue, Starts
  <2> HIDE DEF Lines_
  <2> QED
    BY <2>7, <2>8, <2>9
<1> QED
  BY <1>2, <1>3

\* parse_content_length returns a length, or refuses.
LEMMA HeaderContent ==
  ASSUME NEW S, {"cr", "lf"} \subseteq S, NEW text \in Seq(S), HeadersEnd(text) # 0
  PROVE  ParseContentLength(text, HeadersEnd(text)) \in {-1} \cup Nat
<1> DEFINE end == HeadersEnd(text)
           value == CopyHeaderValue(text, end, "length:")
<1>1. /\ end \in 1..Len(text) /\ end + 3 <= Len(text)
      /\ \A l \in 1..end : Find(text, Crlf, l) \in l..end
  BY HeadersEndAt
<1> HIDE DEF end
<1>2. value = NoString \/ value \in Seq(S)
  <2> DEFINE starts == {1} \cup {i + 2 : i \in {j \in 1..end : Find(text, Crlf, j) = j}}
             named  == {l \in starts : l < end /\ text[l] = "length:"}
             first  == Min(named)
             n      == Find(text, Crlf, first) - 1
             line   == SubSeq(text, first + 1, n)
  <2>1. value = IF named = {} THEN NoString ELSE Trim(line, Blank)
    BY DEF CopyHeaderValue
  <2>2. named # {} => Trim(line, Blank) \in Seq(S)
    <3> SUFFICES ASSUME named # {}
                 PROVE  Trim(line, Blank) \in Seq(S)
      OBVIOUS
    <3>1. named \subseteq 1..end
      BY <1>1
    <3>2. first \in 1..end
      <4>1. named \in SUBSET Nat
        BY <3>1
      <4> HIDE DEF named
      <4>2. first \in named
        BY <4>1, MinOf
      <4> QED
        BY <3>1, <4>2
    <3> HIDE DEF named, first
    <3>3. line \in Seq(S)
      <4> DEFINE m == first + 1
      <4>0. n \in Int
        <5>1. Find(text, Crlf, first) \in first..end
          BY <1>1, <3>2
        <5> QED
          BY <5>1
      <4>1. n + 1 \in first..end
        BY <1>1, <3>2
      <4> HIDE DEF n
      <4>2. m \in Int /\ n \in Int /\ \A i \in m..n : text[i] \in S
        <5>1. end \in Nat /\ end <= Len(text) /\ first \in Nat \ {0} /\ first <= end
          BY <1>1, <3>2
        <5>2. n \in Int /\ n + 1 <= end
          BY <4>0, <4>1, <5>1
        <5>3. \A i \in m..n : i \in 1..Len(text)
          BY <5>1, <5>2
        <5> QED
          BY <5>1, <5>2, <5>3
      <4> HIDE DEF m
      <4>3. SubSeq(text, m, n) \in Seq(S)
        BY <4>2, SubSeqProperties
      <4> QED
        BY <4>3 DEF m
    <3> HIDE DEF line
    <3>4. CASE Trim(line, Blank) = <<>>
      BY <3>4
    <3>5. CASE Trim(line, Blank) # <<>>
      <4>1. PICK m \in 1..Len(line) : \E k \in m..Len(line) : Trim(line, Blank) = SubSeq(line, m, k)
        BY <3>3, <3>5, TrimKeeps
      <4>2. PICK k \in m..Len(line) : Trim(line, Blank) = SubSeq(line, m, k)
        BY <4>1
      <4>3. m \in Nat \ {0} /\ k \in Nat /\ m <= k + 1 /\ k <= Len(line)
        BY <3>3
      <4> QED
        BY <3>3, <4>2, <4>3, SubSeqIs
    <3> QED
      BY <3>4, <3>5
  <2> HIDE DEF named, line
  <2> QED
    BY <2>1, <2>2
<1>3. ParseContentLength(text, end) = IF value = NoString THEN -1 ELSE StrToUl(value, RequestMaxBytes)
  BY DEF ParseContentLength
<1> HIDE DEF value
<1>4. value \in Seq(S) => StrToUl(value, RequestMaxBytes) \in {-1} \cup 0..RequestMaxBytes
  BY ParsedUl, RequestAssumption
<1>5. 0..RequestMaxBytes \subseteq Nat
  BY RequestAssumption
<1> QED
  BY <1>2, <1>3, <1>4, <1>5 DEF end

-----------------------------------------------------------------------------
(* The state of read_request's loop after some bytes, whatever the pieces. *)
Start == [content |-> -1, length |-> 0]
StateAt(end, content, total) ==
  IF end = 0 \/ total < end + 3 THEN Start
  ELSE IF content = -1 THEN [content |-> -1, length |-> -1]
  ELSE [content |-> content,
        length |-> IF total >= end + 3 + content THEN end + 3 + content ELSE 0]

(* It is that after the next piece, however long.                          *)
LEMMA ReceivedIs ==
  ASSUME NEW S, {"cr", "lf"} \subseteq S, NEW text \in Seq(S),
         NEW k \in 0..Len(text), NEW j \in 0..k, j < k
  PROVE  LET end     == HeadersEnd(text)
             content == ParseContentLength(text, end)
         IN Received(text, k, StateAt(end, content, j)) = StateAt(end, content, k)
<1> DEFINE end     == HeadersEnd(text)
           content == ParseContentLength(text, end)
           start   == SubSeq(text, 1, k)
           at      == HeadersEnd(start)
           state   == StateAt(end, content, j)
           got     == IF state.content >= 0 THEN state.content ELSE ParseContentLength(start, at)
<1>1. at = IF end # 0 /\ end + 3 <= k THEN end ELSE 0
  BY HeadersPrefix
<1>2. end # 0 /\ end + 3 <= k => ParseContentLength(start, end) = content
  BY HeadersPrefix DEF ParseContentLength
<1>3. end = 0 \/ end \in Nat
  BY HeadersEndAt
<1>4. end # 0 => content \in {-1} \cup Nat
  BY HeaderContent
<1>5. Received(text, k, state) =
        IF state.length # 0 \/ at = 0 THEN state
        ELSE IF got = -1 THEN [state EXCEPT !.length = -1]
        ELSE [content |-> got, length |-> IF k >= at + 3 + got THEN at + 3 + got ELSE 0]
  BY DEF Received, Complete
<1>6. k \in Nat /\ j \in Nat
  OBVIOUS
<1> HIDE DEF end, content, at
<1>7. CASE end = 0 \/ k < end + 3
  <2>1. at = 0
    BY <1>1, <1>3, <1>6, <1>7
  <2>2. state = Start /\ StateAt(end, content, k) = Start
    BY <1>3, <1>6, <1>7 DEF StateAt
  <2> HIDE DEF state, got
  <2> QED
    BY <1>5, <2>1, <2>2 DEF state, end, content
<1>8. CASE ~(end = 0 \/ k < end + 3)
  <2>1. at = end /\ end # 0 /\ end \in Nat /\ ParseContentLength(start, at) = content
        /\ content \in {-1} \cup Nat /\ k >= end + 3
    BY <1>1, <1>2, <1>3, <1>4, <1>6, <1>8
  <2>2. CASE j < end + 3
    <3>1. state.content = -1 /\ state.length = 0 /\ state = Start
      BY <2>1, <2>2 DEF StateAt, Start
    <3>2. got = content
      BY <2>1, <3>1
    <3>3. CASE content = -1
      <4>1. [Start EXCEPT !.length = -1] = [content |-> -1, length |-> -1]
        BY DEF Start
      <4>2. StateAt(end, content, k) = [content |-> -1, length |-> -1]
        BY <1>6, <2>1, <3>3 DEF StateAt
      <4> HIDE DEF state, got
      <4> QED
        BY <1>5, <2>1, <3>1, <3>2, <3>3, <4>1, <4>2 DEF state, end, content
    <3>4. CASE content # -1
      <4>1. StateAt(end, content, k) =
              [content |-> content, length |-> IF k >= end + 3 + content THEN end + 3 + content ELSE 0]
        BY <1>6, <2>1, <3>4 DEF StateAt
      <4> HIDE DEF state, got
      <4> QED
        BY <1>5, <2>1, <3>1, <3>2, <3>4, <4>1 DEF state, end, content
    <3> QED
      BY <3>3, <3>4
  <2>3. CASE ~(j < end + 3)
    <3>1. CASE content = -1
      <4>1. /\ state = [content |-> -1, length |-> -1]
            /\ StateAt(end, content, k) = [content |-> -1, length |-> -1]
        BY <1>6, <2>1, <2>3, <3>1 DEF StateAt
      <4>2. state.length # 0
        BY <4>1
      <4> HIDE DEF state, got
      <4> QED
        BY <1>5, <4>1, <4>2 DEF state, end, content
    <3>2. CASE content # -1
      <4> DEFINE length(n) == IF n >= end + 3 + content THEN end + 3 + content ELSE 0
      <4>1. /\ state = [content |-> content, length |-> length(j)]
            /\ StateAt(end, content, k) = [content |-> content, length |-> length(k)]
        BY <1>6, <2>1, <2>3, <3>2 DEF StateAt
      <4>2. state.content = content /\ state.length = length(j) /\ content >= 0
        BY <2>1, <3>2, <4>1
      <4>3. got = content
        BY <4>2
      <4> HIDE DEF state, got
      <4>4. CASE j >= end + 3 + content
        <5>1. length(j) = end + 3 + content /\ length(k) = length(j) /\ length(j) # 0
          BY <1>6, <2>1, <4>2, <4>4
        <5> QED
          BY <1>5, <4>1, <4>2, <5>1 DEF state, end, content
      <4>5. CASE ~(j >= end + 3 + content)
        <5>1. state.length = 0 /\ got # -1
          BY <4>2, <4>3, <4>5
        <5> QED
          BY <1>5, <2>1, <4>1, <4>3, <5>1 DEF state, end, content
      <4> QED
        BY <4>4, <4>5
    <3> QED
      BY <3>1, <3>2
  <2> QED
    BY <2>2, <2>3
<1> QED
  BY <1>7, <1>8

(* read_request takes off a request as many bytes as its headers and its   *)
(* Content-Length say, in whatever pieces they come, or fails.             *)
THEOREM PiecesDoNotMatter ==
  ASSUME NEW S, {"cr", "lf"} \subseteq S, NEW bytes \in Seq(S), NEW cuts
  PROVE  LET last    == Min({Len(bytes), RequestMaxBytes})
             text    == SubSeq(bytes, 1, last)
             end     == HeadersEnd(text)
             content == ParseContentLength(text, end)
         IN ReadRequest(bytes, cuts) =
              IF end = 0 \/ content = -1 \/ end + 3 + content > last THEN -1 ELSE end + 3 + content
<1> DEFINE last    == Min({Len(bytes), RequestMaxBytes})
           text    == SubSeq(bytes, 1, last)
           end     == HeadersEnd(text)
           content == ParseContentLength(text, end)
           ends    == cuts \cup {last}
           Turn(f, total) ==
             IF total = 0 THEN Start
             ELSE IF total \in ends THEN Received(bytes, total, f[total - 1])
             ELSE f[total - 1]
           arrived(total) == {0} \cup (ends \cap 1..total)
           seen(total)    == Max(arrived(total))
           told  == [total \in 0..last |-> StateAt(end, content, seen(total))]
           after == CHOOSE f : f = [total \in 0..last |-> Turn(f, total)]
<1>1. Len(bytes) \in Nat /\ last \in Nat /\ last <= Len(bytes)
  <2>1. Len(bytes) \in Nat /\ RequestMaxBytes \in Nat
    BY RequestAssumption
  <2> QED
    BY <2>1, MinOfTwo
<1> HIDE DEF last
<1>2. text \in Seq(S) /\ Len(text) = last
  <2>1. 1 \in Nat \ {0} /\ 1 <= last + 1 /\ last - 1 + 1 = last
    BY <1>1
  <2> QED
    BY <1>1, <2>1, SubSeqIs
<1>3. ASSUME NEW total \in 1..last, NEW state
      PROVE  Received(bytes, total, state) = Received(text, total, state)
  <2>1. SubSeq(text, 1, total) = SubSeq(bytes, 1, total)
    <3>1. last \in 0..Len(bytes) /\ 1 \in Nat \ {0} /\ total \in Nat /\ 1 <= total + 1 /\ total <= last
      BY <1>1
    <3> QED
      BY <3>1, SubSeqPrefix
  <2> HIDE DEF text
  <2> QED
    BY <2>1 DEF Received
<1> HIDE DEF text
<1>4. /\ seen(0) = 0
      /\ \A total \in 1..last : total \in ends => seen(total) = total
      /\ \A total \in 1..last : total \notin ends => seen(total) = seen(total - 1)
      /\ \A total \in 0..last : seen(total) \in 0..total
  <2>1. arrived(0) = {0}
    OBVIOUS
  <2>2. Max({0}) = 0
    <3> DEFINE zero == {0}
    <3>1. zero \in SUBSET Int /\ 0 \in zero /\ \A c \in zero : c <= 0
      OBVIOUS
    <3> HIDE DEF zero
    <3>2. Max(zero) = 0
      BY <3>1, MaxIs
    <3> QED
      BY <3>2 DEF zero
  <2>3. ASSUME NEW total \in 1..last, total \in ends
        PROVE  seen(total) = total
    <3>1. arrived(total) \in SUBSET Int /\ total \in arrived(total) /\ \A c \in arrived(total) : c <= total
      BY <1>1, <2>3
    <3> HIDE DEF arrived
    <3> QED
      BY <3>1, MaxIs
  <2>4. ASSUME NEW total \in 1..last, total \notin ends
        PROVE  seen(total) = seen(total - 1)
    <3>1. arrived(total) = arrived(total - 1)
      <4>1. ends \cap 1..total = ends \cap 1..(total - 1)
        <5>1. 1..total = 1..(total - 1) \cup {total}
          BY <1>1
        <5> HIDE DEF ends
        <5> QED
          BY <2>4, <5>1, Zenon
      <4> QED
        BY <4>1
    <3> HIDE DEF arrived
    <3> QED
      BY <3>1
  <2>5. ASSUME NEW total \in 0..last
        PROVE  seen(total) \in 0..total
    <3>1. arrived(total) \in SUBSET (0..total) /\ arrived(total) # {} /\ total \in Nat
      BY <1>1
    <3> HIDE DEF arrived
    <3>2. Max(arrived(total)) \in arrived(total)
      BY <3>1, MaxOf
    <3> QED
      BY <3>1, <3>2
  <2> QED
    BY <2>1, <2>2, <2>3, <2>4, <2>5
<1> HIDE DEF seen
<1>5. ASSUME NEW total \in 0..last, NEW f, total # 0 => f[total - 1] = told[total - 1]
      PROVE  told[total] = Turn(f, total)
  <2>1. CASE total = 0
    <3>1. StateAt(end, content, 0) = Start
      <4>1. end = 0 \/ end \in Nat
        BY <1>2, HeadersEndAt
      <4> HIDE DEF end, content
      <4> QED
        BY <4>1 DEF StateAt
    <3> QED
      BY <1>1, <1>4, <2>1, <3>1
  <2>2. CASE total # 0
    <3>1. /\ total \in 1..last /\ total - 1 \in 0..last
          /\ total - 1 \in 0..(total - 1) /\ total \in 0..Len(text)
      BY <1>1, <1>2, <2>2
    <3>2. /\ f[total - 1] = StateAt(end, content, seen(total - 1))
          /\ told[total] = StateAt(end, content, seen(total))
      BY <1>5, <2>2, <3>1
    <3> HIDE DEF told
    <3>3. CASE total \in ends
      <4>1. seen(total) = total /\ seen(total - 1) \in 0..(total - 1)
        BY <1>4, <3>1, <3>3
      <4>2. seen(total - 1) \in 0..total /\ seen(total - 1) < total
        BY <1>1, <3>1, <4>1
      <4>3. Received(text, total, StateAt(end, content, seen(total - 1))) = StateAt(end, content, total)
        BY <1>2, <3>1, <4>2, ReceivedIs
      <4>4. Turn(f, total) = Received(bytes, total, f[total - 1])
        BY <2>2, <3>3
      <4> HIDE DEF Turn, end, content
      <4> QED
        BY <1>3, <3>1, <3>2, <4>1, <4>3, <4>4
    <3>4. CASE total \notin ends
      <4>1. seen(total) = seen(total - 1)
        BY <1>4, <3>1, <3>4
      <4>2. Turn(f, total) = f[total - 1]
        BY <2>2, <3>4
      <4> HIDE DEF Turn, end, content
      <4> QED
        BY <3>2, <4>1, <4>2
    <3> QED
      BY <3>3, <3>4
  <2> QED
    BY <2>1, <2>2
<1> HIDE DEF Turn
<1>6. after = [total \in 0..last |-> Turn(after, total)]
  <2>1. \A total \in 0..last : told[total] = Turn(told, total)
    BY <1>5
  <2>2. told = [total \in 0..last |-> told[total]]
    OBVIOUS
  <2> HIDE DEF told
  <2>3. told = [total \in 0..last |-> Turn(told, total)]
    BY <2>1, <2>2
  <2> QED
    BY <2>3
<1> HIDE DEF after
<1>7. \A total \in 0..last : after[total] = told[total]
  <2> HIDE DEF told
  <2> DEFINE apart == {total \in 0..last : after[total] # told[total]}
  <2>1. CASE apart = {}
    BY <2>1
  <2>2. CASE apart # {}
    <3>1. PICK total \in apart : \A k \in apart : total <= k
      <4>1. apart \in SUBSET Nat
        BY <1>1
      <4> HIDE DEF apart
      <4> QED
        BY <2>2, <4>1, MinOf
    <3>2. total \in 0..last /\ after[total] # told[total]
      OBVIOUS
    <3>3. total # 0 => after[total - 1] = told[total - 1]
      <4>1. total # 0 => total - 1 \in 0..last /\ total - 1 \notin apart
        BY <1>1, <3>1, <3>2
      <4> QED
        BY <4>1
    <3>4. told[total] = Turn(after, total)
      BY <1>5, <3>2, <3>3
    <3>5. after[total] = Turn(after, total)
      BY <1>6, <3>2
    <3> QED
      BY <3>2, <3>4, <3>5
  <2> QED
    BY <2>1, <2>2
<1>8. after[last] = StateAt(end, content, last)
  <2>1. seen(last) = last
    <3>1. CASE last = 0
      BY <1>4, <3>1
    <3>2. CASE last # 0
      BY <1>1, <1>4, <3>2
    <3> QED
      BY <3>1, <3>2
  <2> QED
    BY <1>1, <1>7, <2>1
<1>9. ReadRequest(bytes, cuts) = IF after[last].length = 0 THEN -1 ELSE after[last].length
  BY DEF ReadRequest, after, last, Turn, Start
<1>10. (end = 0 \/ end \in 1..Len(text)) /\ (end # 0 => content \in {-1} \cup Nat)
  BY <1>2, HeadersEndAt, HeaderContent
<1>11. (end # 0 => end + 3 <= last)
  BY <1>2, HeadersEndAt
<1> HIDE DEF end, content, after
<1>12. StateAt(end, content, last).length =
         IF end = 0 THEN 0
         ELSE IF content = -1 THEN -1
         ELSE IF last >= end + 3 + content THEN end + 3 + content ELSE 0
  <2>1. CASE end = 0
    BY <2>1 DEF StateAt, Start
  <2>2. CASE end # 0
    <3>1. ~(last < end + 3)
      BY <1>1, <1>2, <1>10, <1>11, <2>2
    <3> QED
      BY <2>2, <3>1 DEF StateAt
  <2> QED
    BY <2>1, <2>2
<1>13. end # 0 /\ content # -1 => end + 3 + content \in Nat \ {0}
  BY <1>1, <1>2, <1>10
<1> QED
  BY <1>1, <1>8, <1>9, <1>12, <1>13 DEF last, text, end, content

(* So a request is judged by its bytes alone.  Of the checks of            *)
(* handle_client only those on the request line and the device can still   *)
(* refuse one that read_request took: its headers are those read_request   *)
(* found, and the CSR is Content-Length bytes long.                        *)
THEOREM RequestJudged ==
  ASSUME NEW S, {"cr", "lf"} \subseteq S, NEW bytes \in Seq(S), NEW cuts
  PROVE  LET last    == Min({Len(bytes), RequestMaxBytes})
             text    == SubSeq(bytes, 1, last)
             end     == HeadersEnd(text)
             content == ParseContentLength(text, end)
             deviceId == CopyHeaderValue(text, end, "device:")
         IN HandleClient(bytes, cuts) =
              IF end = 0 \/ content = -1 \/ end + 3 + content > last
              THEN Refused("malformed enrollment request")
              ELSE IF ~IsEnrollPost(SubSeq(bytes, 1, end + 3 + content))
              THEN Refused("expected POST /enroll")
              ELSE IF deviceId = NoString \/ Len(deviceId) > DeviceIdMaxBytes
              THEN Refused("missing or invalid X-Device-Id")
              ELSE [status |-> "issue", device |-> deviceId,
                    csr |-> SubSeq(bytes, end + 4, end + 3 + content)]
<1> DEFINE last    == Min({Len(bytes), RequestMaxBytes})
           text    == SubSeq(bytes, 1, last)
           end     == HeadersEnd(text)
           content == ParseContentLength(text, end)
           deviceId == CopyHeaderValue(text, end, "device:")
           length  == ReadRequest(bytes, cuts)
           request == SubSeq(bytes, 1, length)
<1>1. Len(bytes) \in Nat /\ last \in Nat /\ last <= Len(bytes)
  <2>1. Len(bytes) \in Nat /\ RequestMaxBytes \in Nat
    BY RequestAssumption
  <2> QED
    BY <2>1, MinOfTwo
<1>2. length = IF end = 0 \/ content = -1 \/ end + 3 + content > last THEN -1 ELSE end + 3 + content
  BY PiecesDoNotMatter
<1> HIDE DEF last
<1>3. text \in Seq(S) /\ Len(text) = last
  <2>1. 1 \in Nat \ {0} /\ 1 <= last + 1 /\ last - 1 + 1 = last
    BY <1>1
  <2> QED
    BY <1>1, <2>1, SubSeqIs
<1> HIDE DEF text
<1>4. (end = 0 \/ end \in 1..Len(text)) /\ (end # 0 => content \in {-1} \cup Nat)
  BY <1>3, HeadersEndAt, HeaderContent
<1> HIDE DEF length
<1>5. HandleClient(bytes, cuts) =
        IF length = -1 THEN Refused("malformed enrollment request")
        ELSE IF ~IsEnrollPost(request) THEN Refused("expected POST /enroll")
        ELSE IF HeadersEnd(request) = 0 \/ ParseContentLength(request, HeadersEnd(request)) = -1
        THEN Refused("missing Content-Length")
        ELSE IF \/ CopyHeaderValue(request, HeadersEnd(request), "device:") = NoString
                \/ Len(CopyHeaderValue(request, HeadersEnd(request), "device:")) > DeviceIdMaxBytes
        THEN Refused("missing or invalid X-Device-Id")
        ELSE IF length - (HeadersEnd(request) + 3) < ParseContentLength(request, HeadersEnd(request))
        THEN Refused("incomplete request body")
        ELSE [status |-> "issue", device |-> CopyHeaderValue(request, HeadersEnd(request), "device:"),
              csr |-> SubSeq(request, HeadersEnd(request) + 4, length)]
  BY DEF HandleClient, length
<1>6. CASE end = 0 \/ content = -1 \/ end + 3 + content > last
  <2>1. length = -1
    BY <1>2, <1>6
  <2> HIDE DEF request, end, content, deviceId
  <2> QED
    BY <1>5, <1>6, <2>1 DEF end, content, text, last
<1>7. CASE ~(end = 0 \/ content = -1 \/ end + 3 + content > last)
  <2>1. /\ length = end + 3 + content /\ length # -1 /\ end \in Nat \ {0} /\ content \in Nat
        /\ length \in Nat /\ length <= last /\ end + 3 <= length
    BY <1>1, <1>2, <1>3, <1>4, <1>7
  <2>2. request = SubSeq(text, 1, length)
    <3>1. last \in 0..Len(bytes) /\ 1 \in Nat \ {0} /\ 1 <= length + 1
      BY <1>1, <2>1
    <3> QED
      BY <2>1, <3>1, SubSeqPrefix DEF text
  <2>3. length \in 0..Len(text)
    BY <1>1, <1>3, <2>1
  <2>4. /\ HeadersEnd(request) = end
        /\ \A name : CopyHeaderValue(request, end, name) = CopyHeaderValue(text, end, name)
    <3> DEFINE start == SubSeq(text, 1, length)
    <3>1. /\ HeadersEnd(start) = IF end # 0 /\ end + 3 <= length THEN end ELSE 0
          /\ end # 0 /\ end + 3 <= length =>
               \A name : CopyHeaderValue(start, end, name) = CopyHeaderValue(text, end, name)
      BY <1>3, <2>3, HeadersPrefix
    <3>2. end # 0 /\ end + 3 <= length
      BY <2>1
    <3> HIDE DEF end
    <3> QED
      BY <2>2, <3>1, <3>2
  <2>5. ParseContentLength(request, end) = content
    BY <2>4 DEF ParseContentLength
  <2>6. ~(length - (end + 3) < content)
    BY <2>1
  <2>7. SubSeq(request, end + 4, length) = SubSeq(bytes, end + 4, length)
    <3> DEFINE m == end + 4
    <3>1. length \in 0..Len(bytes) /\ m \in Nat \ {0} /\ m <= length + 1 /\ length <= length
      BY <1>1, <2>1
    <3> HIDE DEF m
    <3>2. SubSeq(SubSeq(bytes, 1, length), m, length) = SubSeq(bytes, m, length)
      BY <2>1, <3>1, SubSeqPrefix
    <3> QED
      BY <3>2 DEF m
  <2>8. request = SubSeq(bytes, 1, end + 3 + content)
    BY <2>1
  <2> HIDE DEF request, end, content
  <2>9. HandleClient(bytes, cuts) =
          IF ~IsEnrollPost(request) THEN Refused("expected POST /enroll")
          ELSE IF deviceId = NoString \/ Len(deviceId) > DeviceIdMaxBytes
          THEN Refused("missing or invalid X-Device-Id")
          ELSE [status |-> "issue", device |-> deviceId, csr |-> SubSeq(bytes, end + 4, length)]
    <3>1. CopyHeaderValue(request, HeadersEnd(request), "device:") = deviceId
      BY <2>4
    <3>2. HeadersEnd(request) # 0 /\ ParseContentLength(request, HeadersEnd(request)) # -1
      BY <1>7, <2>1, <2>4, <2>5
    <3>3. ~(length - (HeadersEnd(request) + 3) < ParseContentLength(request, HeadersEnd(request)))
      BY <2>4, <2>5, <2>6
    <3>4. SubSeq(request, HeadersEnd(request) + 4, length) = SubSeq(bytes, end + 4, length)
      BY <2>4, <2>7
    <3> HIDE DEF deviceId
    <3> QED
      BY <1>5, <2>1, <3>1, <3>2, <3>3, <3>4
  <2> QED
    BY <1>7, <2>1, <2>8, <2>9, Zenon DEF end, content, deviceId, text, last
<1> QED
  BY <1>6, <1>7
=============================================================================
