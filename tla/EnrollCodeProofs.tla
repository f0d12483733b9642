-------------------------- MODULE EnrollCodeProofs --------------------------
(***************************************************************************)
(* The codes the enrollment service speaks: DER lengths, base64 and the    *)
(* JSON of KMS's answers, for lengths and data of every size; its requests *)
(* to KMS as KMS reads them, and the requests of its own peers as it reads *)
(* them.                                                                   *)
(***************************************************************************)
EXTENDS EnrollTextProofs

-----------------------------------------------------------------------------
(* Numbers and their bytes.                                                *)

\* What is true of 0, and of n + 1 whenever it is true of n, is true of every number.
LEMMA AllNumbers ==
  ASSUME NEW Good, 0 \in Good, \A n \in Nat : n \in Good => n + 1 \in Good
  PROVE  Nat \subseteq Good
<1> DEFINE bad == Nat \ Good
<1>1. CASE bad = {}
  BY <1>1
<1>2. CASE bad # {}
  <2>1. PICK n \in bad : \A m \in bad : n <= m
    <3>1. bad \in SUBSET Nat
      OBVIOUS
    <3> HIDE DEF bad
    <3> QED
      BY <1>2, <3>1, MinOf
  <2>2. n \in Nat \ {0} /\ n - 1 \in Nat /\ n - 1 \notin bad
    BY <2>1
  <2> QED
    BY <2>1, <2>2
<1> QED
  BY <1>1, <1>2

\* The powers of 256 that write_der_len shifts a length by
Power == [j \in 0..4 |-> 256^j]

\* The values of those powers.
LEMMA Powers ==
  /\ Power[0] = 1 /\ Power[1] = 256 /\ Power[2] = 65536 /\ Power[3] = 16777216
  /\ Power[4] = 4294967296
BY SMT DEF Power

\* The longest length of five bytes, and what is left of a length without its last j
LengthMax == 1099511627775
Rest(n, j) == IF j = 5 THEN 0 ELSE n \div Power[j]

\* Shifting a length by one byte more divides what was left of it by 256.
LEMMA RestIs ==
  ASSUME NEW n \in Nat, n <= LengthMax
  PROVE  /\ Rest(n, 0) = n /\ Rest(n, 5) = 0
         /\ \A j \in 0..5 : Rest(n, j) \in Nat
         /\ \A j \in 0..4 : Rest(n, j + 1) = Rest(n, j) \div 256
<1>1. Rest(n, 0) = n /\ Rest(n, 5) = 0
  BY Powers, SMT DEF Rest
<1>2. \A j \in 0..5 : Rest(n, j) \in Nat
  BY Powers, SMT DEF Rest
<1>3. Rest(n, 1) = Rest(n, 0) \div 256 /\ Rest(n, 2) = Rest(n, 1) \div 256
  BY Powers, SMT DEF Rest
<1>4. Rest(n, 3) = Rest(n, 2) \div 256 /\ Rest(n, 4) = Rest(n, 3) \div 256
  BY Powers, SMT DEF Rest
<1>5. Rest(n, 5) = Rest(n, 4) \div 256
  BY Powers, SMT DEF Rest, LengthMax
<1>6. \A j \in 0..4 : j \in {0, 1, 2, 3, 4}
  OBVIOUS
<1> QED
  BY <1>1, <1>2, <1>3, <1>4, <1>5, <1>6

\* der_len_size counts the bytes of a length, without leading zeros.
LEMMA BytesOfIs ==
  \A n \in Nat : /\ BytesOf[n] \in Nat
                 /\ BytesOf[n] = IF n = 0 THEN 0 ELSE 1 + BytesOf[n \div 256]
<1> DEFINE Stop == {0}
           base == [n \in Nat |-> 0]
           pred == [n \in Nat |-> n \div 256]
           size == [n \in Nat |-> n]
           step == [s \in Nat \X Nat |-> 1 + s[2]]
           Turn(f) == [n \in Nat |-> IF n = 0 THEN 0 ELSE 1 + f[n \div 256]]
<1>1. base \in [Nat -> Nat] /\ size \in [Nat -> Nat] /\ pred \in [Nat -> Nat]
  OBVIOUS
<1>2. step \in [Nat \X Nat -> Nat]
  OBVIOUS
<1>3. Descends(Nat, Stop, pred, size)
  <2>1. \A n \in Nat \ Stop : size[pred[n]] < size[n]
    OBVIOUS
  <2> HIDE DEF Stop, pred, size
  <2> QED
    BY <1>1, <2>1 DEF Descends
<1>4. PICK f \in [Nat -> Nat] : \A n \in Nat : Recurs(f, n, Stop, base, pred, step)
  <2> HIDE DEF Stop, base, pred, size, step
  <2> QED
    BY <1>1, <1>2, <1>3, RecursionExists
<1>5. f = Turn(f)
  <2>1. ASSUME NEW n \in Nat
        PROVE  f[n] = Turn(f)[n]
    <3>1. CASE n = 0
      BY <1>4, <3>1 DEF Recurs
    <3>2. CASE n # 0
      <4>1. f[n] = step[<<n, f[pred[n]]>>] /\ f[pred[n]] \in Nat /\ pred[n] = n \div 256
        BY <1>1, <1>4, <3>2 DEF Recurs
      <4>2. step[<<n, f[pred[n]]>>] = 1 + f[pred[n]]
        BY <4>1
      <4> HIDE DEF pred, step
      <4> QED
        BY <3>2, <4>1, <4>2
    <3> QED
      BY <3>1, <3>2
  <2> DEFINE g == Turn(f)
  <2>2. g = [n \in Nat |-> g[n]]
    OBVIOUS
  <2> HIDE DEF g
  <2> QED
    BY <2>1, <2>2 DEF g
<1>6. BytesOf = Turn(BytesOf)
  BY <1>5, Zenon DEF BytesOf
<1>7. \A n \in Nat : BytesOf[n] = IF n = 0 THEN 0 ELSE 1 + BytesOf[n \div 256]
  <2>1. \A n \in Nat : Turn(BytesOf)[n] = IF n = 0 THEN 0 ELSE 1 + BytesOf[n \div 256]
    OBVIOUS
  <2> HIDE DEF Turn
  <2> QED
    BY <1>6, <2>1
<1> DEFINE Good == {n \in Nat : BytesOf[n] \in Nat}
<1>8. Nat \subseteq Good
  <2>1. Nat \cap Stop \subseteq Good
    BY <1>7
  <2>2. ASSUME NEW n \in Nat \ Stop, pred[n] \in Good
        PROVE  n \in Good
    BY <1>7, <2>2
  <2>3. Inherited(Nat, Stop, pred, Good)
    <3> HIDE DEF Stop, pred, size, Good
    <3> QED
      BY <2>1, <2>2 DEF Inherited
  <2> HIDE DEF Stop, pred, size, Good
  <2> QED
    BY <1>1, <1>3, <2>3, Induction
<1> QED
  BY <1>7, <1>8

Byte == 0..255

\* A byte is a number.
LEMMA BytesAreNumbers == Byte \subseteq Nat
BY DEF Byte

\* A decoder puts the bytes of a length together from the left.
LEMMA NumberIs ==
  /\ Number[<<>>] = 0
  /\ \A t \in Seq(Byte) :
       /\ Number[t] \in Nat
       /\ t # <<>> => Number[t] = 256 * Number[SubSeq(t, 1, Len(t) - 1)] + t[Len(t)]
<1> DEFINE T    == Seq(Byte)
           Stop == {<<>>}
           base == [t \in T |-> 0]
           pred == [t \in T |-> IF t = <<>> THEN t ELSE SubSeq(t, 1, Len(t) - 1)]
           size == [t \in T |-> Len(t)]
           step == [s \in T \X Nat |-> IF s[1] = <<>> THEN 0 ELSE 256 * s[2] + s[1][Len(s[1])]]
           Turn(f) == [t \in T |-> IF t = <<>> THEN 0
                                   ELSE 256 * f[SubSeq(t, 1, Len(t) - 1)] + t[Len(t)]]
<1>1. ASSUME NEW t \in T, t # <<>>
      PROVE  /\ SubSeq(t, 1, Len(t) - 1) \in T /\ Len(SubSeq(t, 1, Len(t) - 1)) = Len(t) - 1
             /\ Len(t) \in Nat \ {0} /\ t[Len(t)] \in Nat
  <2> DEFINE k == Len(t) - 1
  <2>1. Len(t) \in Nat \ {0}
    BY <1>1, EmptySeq
  <2>2. k \in Nat /\ 1 \in Nat \ {0} /\ 1 <= k + 1 /\ k <= Len(t) /\ k - 1 + 1 = k
    BY <2>1
  <2>3. t[Len(t)] \in Nat
    <3>1. t[Len(t)] \in Byte
      BY <2>1
    <3> QED
      BY <3>1, BytesAreNumbers
  <2> HIDE DEF k
  <2>4. SubSeq(t, 1, k) \in T /\ Len(SubSeq(t, 1, k)) = k - 1 + 1
    BY <2>2, SubSeqIs
  <2> QED
    BY <2>1, <2>2, <2>3, <2>4 DEF k
<1>2. base \in [T -> Nat] /\ size \in [T -> Nat] /\ pred \in [T -> T]
  <2>1. \A t \in T : pred[t] \in T
    BY <1>1
  <2>2. \A t \in T : size[t] \in Nat
    OBVIOUS
  <2> HIDE DEF T
  <2> QED
    BY <2>1, <2>2
<1>3. step \in [T \X Nat -> Nat]
  <2>1. ASSUME NEW s \in T \X Nat
        PROVE  step[s] \in Nat
    <3>1. s[1] \in T /\ s[2] \in Nat
      OBVIOUS
    <3>2. CASE s[1] = <<>>
      BY <3>2
    <3>3. CASE s[1] # <<>>
      <4>1. s[1][Len(s[1])] \in Nat
        BY <1>1, <3>1, <3>3
      <4> QED
        BY <3>1, <3>3, <4>1
    <3> QED
      BY <3>2, <3>3
  <2> QED
    BY <2>1
<1>4. Descends(T, Stop, pred, size)
  <2>1. \A t \in T \ Stop : size[pred[t]] < size[t]
    BY <1>1
  <2> HIDE DEF T, Stop, pred, size
  <2> QED
    BY <1>2, <2>1 DEF Descends
<1>5. PICK f \in [T -> Nat] : \A t \in T : Recurs(f, t, Stop, base, pred, step)
  <2> HIDE DEF T, Stop, base, pred, size, step
  <2> QED
    BY <1>2, <1>3, <1>4, RecursionExists
<1>6. f = Turn(f)
  <2>1. ASSUME NEW t \in T
        PROVE  f[t] = Turn(f)[t]
    <3>1. CASE t = <<>>
      BY <1>5, <3>1 DEF Recurs
    <3>2. CASE t # <<>>
      <4>1. pred[t] = SubSeq(t, 1, Len(t) - 1) /\ pred[t] \in T
        BY <1>1, <3>2
      <4>4. f[t] = step[<<t, f[pred[t]]>>] /\ f[pred[t]] \in Nat
        <5> HIDE DEF T, base, pred, step
        <5> QED
          BY <1>5, <3>2, <4>1 DEF Recurs
      <4>2. <<t, f[pred[t]]>> \in T \X Nat
        BY <4>4
      <4>3. step[<<t, f[pred[t]]>>] = 256 * f[pred[t]] + t[Len(t)]
        BY <3>2, <4>2
      <4> HIDE DEF pred, step
      <4> QED
        BY <3>2, <4>1, <4>3, <4>4
    <3> QED
      BY <3>1, <3>2
  <2> DEFINE g == Turn(f)
  <2>2. g = [t \in T |-> g[t]]
    OBVIOUS
  <2> HIDE DEF g, T
  <2> QED
    BY <2>1, <2>2 DEF g
<1>7. Number = Turn(Number)
  BY <1>6, Zenon DEF Number, Byte
<1>8. /\ Number[<<>>] = 0
      /\ \A t \in T : t # <<>> => Number[t] = 256 * Number[SubSeq(t, 1, Len(t) - 1)] + t[Len(t)]
  <2>1. \A t \in T : Turn(Number)[t] = IF t = <<>> THEN 0
                                       ELSE 256 * Number[SubSeq(t, 1, Len(t) - 1)] + t[Len(t)]
    OBVIOUS
  <2>2. <<>> \in T
    OBVIOUS
  <2> HIDE DEF Turn, T
  <2> QED
    BY <1>7, <2>1, <2>2
<1> DEFINE Good == {t \in T : Number[t] \in Nat}
<1>9. T \subseteq Good
  <2>1. T \cap Stop \subseteq Good
    BY <1>8
  <2>2. ASSUME NEW t \in T \ Stop, pred[t] \in Good
        PROVE  t \in Good
    <3>1. Number[SubSeq(t, 1, Len(t) - 1)] \in Nat /\ t[Len(t)] \in Nat
      BY <1>1, <2>2
    <3> QED
      BY <1>8, <2>2, <3>1
  <2>3. Inherited(T, Stop, pred, Good)
    <3> HIDE DEF T, Stop, pred, size, Good
    <3> QED
      BY <2>1, <2>2 DEF Inherited
  <2> HIDE DEF T, Stop, pred, size, Good
  <2> QED
    BY <1>2, <1>4, <2>3, Induction
<1> QED
  BY <1>8, <1>9

\* The bytes of a number, the least significant last, are that number.
LEMMA BytesMakeNumber ==
  ASSUME NEW t \in Seq(Byte), NEW q \in [0..Len(t) -> Nat], q[Len(t)] = 0,
         \A j \in 0..(Len(t) - 1) : q[j + 1] = q[j] \div 256 /\ t[Len(t) - j] = q[j] % 256
  PROVE  Number[t] = q[0]
<1> DEFINE T == Seq(Byte)
           first(k) == SubSeq(t, 1, k)
           Good == {k \in Nat : k <= Len(t) => Number[first(k)] = q[Len(t) - k]}
<1>1. Len(t) \in Nat
  OBVIOUS
<1>2. \A k \in 0..Len(t) : /\ first(k) \in T /\ Len(first(k)) = k
                           /\ \A i \in 1..k : first(k)[i] = t[i]
  <2> TAKE k \in 0..Len(t)
  <2>1. k \in Nat /\ 1 \in Nat \ {0} /\ 1 <= k + 1 /\ k <= Len(t) /\ k - 1 + 1 = k
    OBVIOUS
  <2> DEFINE part == SubSeq(t, 1, k)
  <2>2. part \in T /\ Len(part) = k - 1 + 1 /\ \A i \in 1..(k - 1 + 1) : part[i] = t[1 + i - 1]
    BY <2>1, SubSeqIs
  <2> HIDE DEF part
  <2>3. \A i \in 1..k : part[i] = t[i]
    BY <2>1, <2>2
  <2> QED
    BY <2>1, <2>2, <2>3 DEF part
<1>3. 0 \in Good
  <2>1. first(0) = <<>>
    <3>1. 0 \in 0..Len(t)
      BY <1>1
    <3> HIDE DEF first
    <3> QED
      BY <1>2, <3>1, EmptySeq
  <2>2. Len(t) - 0 = Len(t)
    BY <1>1
  <2> HIDE DEF first
  <2> QED
    BY <2>1, <2>2, NumberIs
<1>4. ASSUME NEW k \in Nat, k \in Good
      PROVE  k + 1 \in Good
  <2> SUFFICES ASSUME k + 1 <= Len(t)
               PROVE  Number[first(k + 1)] = q[Len(t) - (k + 1)]
    OBVIOUS
  <2> DEFINE s == first(k + 1)
  <2>1. Number[first(k)] = q[Len(t) - k]
    BY <1>1, <1>4
  <2>2. s \in T /\ Len(s) = k + 1 /\ s[k + 1] = t[k + 1]
    BY <1>1, <1>2
  <2>3. SubSeq(s, 1, k) = first(k)
    <3>1. k + 1 \in 0..Len(t) /\ 1 \in Nat \ {0} /\ k \in Nat /\ 1 <= k + 1 /\ k <= k + 1
      BY <1>1
    <3> QED
      BY <3>1, SubSeqPrefix
  <2>4. Number[s] = 256 * Number[first(k)] + t[k + 1]
    <3>1. s # <<>> /\ Len(s) - 1 = k
      <4> HIDE DEF s
      <4> QED
        BY <2>2, EmptySeq
    <3> HIDE DEF s, first, T
    <3>2. Number[s] = 256 * Number[SubSeq(s, 1, Len(s) - 1)] + s[Len(s)]
      BY <2>2, <3>1, NumberIs DEF T
    <3>3. SubSeq(s, 1, Len(s) - 1) = first(k)
      BY Zenon, <2>3, <3>1
    <3>4. s[Len(s)] = t[k + 1]
      BY Zenon, <2>2
    <3> QED
      BY Zenon, <3>2, <3>3, <3>4
  <2> DEFINE j == Len(t) - (k + 1)
  <2>5. j \in 0..(Len(t) - 1) /\ j + 1 = Len(t) - k /\ Len(t) - j = k + 1
    BY <1>1
  <2>6. q[j + 1] = q[j] \div 256 /\ t[k + 1] = q[j] % 256 /\ q[j] \in Nat
    <3>1. j \in 0..Len(t)
      BY <1>1, <2>5
    <3>2. \A i \in 0..(Len(t) - 1) : q[i + 1] = q[i] \div 256 /\ t[Len(t) - i] = q[i] % 256
      OBVIOUS
    <3>3. \A i \in 0..Len(t) : q[i] \in Nat
      OBVIOUS
    <3>4. q[j + 1] = q[j] \div 256 /\ t[Len(t) - j] = q[j] % 256
      <4> HIDE DEF j
      <4> QED
        BY <2>5, <3>2
    <3> HIDE DEF j
    <3> QED
      BY <2>5, <3>1, <3>3, <3>4
  <2> HIDE DEF j, s, first
  <2>7. Number[s] = q[j]
    BY <2>1, <2>4, <2>5, <2>6
  <2> QED
    BY <2>7 DEF j, s
<1>5. Nat \subseteq Good
  <2> HIDE DEF Good
  <2> QED
    BY <1>3, <1>4, AllNumbers
<1>6. first(Len(t)) = t
  <2>1. \A i \in 1..Len(t) : first(Len(t))[i] = t[i]
    BY <1>1, <1>2
  <2>2. first(Len(t)) \in T /\ Len(first(Len(t))) = Len(t)
    BY <1>1, <1>2
  <2> HIDE DEF first
  <2> QED
    BY <2>1, <2>2, SeqEqual
<1>7. Number[first(Len(t))] = q[Len(t) - Len(t)] /\ Len(t) - Len(t) = 0
  <2> HIDE DEF first
  <2> QED
    BY <1>1, <1>5
<1> QED
  BY <1>6, <1>7

\* Each byte taken off a length leaves one less to take off.
LEMMA BytesLeft ==
  ASSUME NEW n \in Nat, n <= LengthMax
  PROVE  /\ BytesOf[n] \in 0..5
         /\ \A j \in 0..BytesOf[n] : BytesOf[Rest(n, j)] = BytesOf[n] - j
<1> DEFINE k == BytesOf[n]
           Good == {j \in Nat : j <= 5 /\ j <= k => BytesOf[Rest(n, j)] = k - j}
<1>1. k \in Nat
  BY BytesOfIs
<1>2. 0 \in Good
  <2>1. Rest(n, 0) = n
    BY RestIs
  <2> HIDE DEF k
  <2> QED
    BY <1>1, <2>1 DEF k
<1>3. ASSUME NEW j \in Nat, j \in Good
      PROVE  j + 1 \in Good
  <2> SUFFICES ASSUME j + 1 <= 5, j + 1 <= k
               PROVE  BytesOf[Rest(n, j + 1)] = k - (j + 1)
    OBVIOUS
  <2>1. j \in 0..4 /\ j \in 0..5
    OBVIOUS
  <2>2. Rest(n, j) \in Nat /\ Rest(n, j + 1) = Rest(n, j) \div 256
    BY <2>1, RestIs
  <2>3. BytesOf[Rest(n, j)] = k - j
    <3> HIDE DEF k
    <3> QED
      BY <1>1, <1>3
  <2> HIDE DEF k
  <2>4. BytesOf[Rest(n, j)] = 1 + BytesOf[Rest(n, j) \div 256] /\ BytesOf[Rest(n, j) \div 256] \in Nat
    <3>1. BytesOf[Rest(n, j)] # 0
      BY <1>1, <2>3
    <3>2. Rest(n, j) # 0 /\ Rest(n, j) \div 256 \in Nat
      BY <2>2, <3>1, BytesOfIs
    <3> QED
      BY <2>2, <3>2, BytesOfIs
  <2> QED
    BY <1>1, <2>2, <2>3, <2>4
<1>4. Nat \subseteq Good
  <2> HIDE DEF Good
  <2> QED
    BY <1>2, <1>3, AllNumbers
<1> HIDE DEF k
<1>5. k <= 5
  <2>1. k > 5 => BytesOf[Rest(n, 5)] = k - 5
    BY <1>1, <1>4
  <2>2. BytesOf[Rest(n, 5)] = 0
    BY RestIs, BytesOfIs
  <2> QED
    BY <1>1, <2>1, <2>2
<1>6. \A j \in 0..k : BytesOf[Rest(n, j)] = k - j
  BY <1>1, <1>4, <1>5
<1> QED
  BY <1>1, <1>5, <1>6 DEF k

\* What write_der_len writes of a length the short form does not take: as many
\* bytes as it says, none of them too many, that make up the length.
LEMMA LongForm ==
  ASSUME NEW n \in Nat, n >= 128, n <= LengthMax
  PROVE  LET k     == BytesOf[n]
             bytes == [i \in 1..k |-> (n \div 256^(k - i)) % 256]
         IN /\ k \in 1..5 /\ bytes \in Seq(Byte) /\ Len(bytes) = k
            /\ Number[bytes] = n
            /\ bytes[1] # 0 /\ (k = 1 => bytes[1] >= 128)
<1> DEFINE k     == BytesOf[n]
           bytes == [i \in 1..k |-> (n \div 256^(k - i)) % 256]
           q     == [j \in 0..k |-> Rest(n, j)]
<1>1. k \in 1..5
  <2>1. k # 0
    BY BytesOfIs
  <2> HIDE DEF k
  <2> QED
    BY <2>1, BytesLeft DEF k
<1>2. \A j \in 0..k : BytesOf[Rest(n, j)] = k - j
  BY BytesLeft
<1> HIDE DEF k
<1>3. \A j \in 0..k : Rest(n, j) \in Nat
  BY <1>1, RestIs
<1>4. \A j \in 0..(k - 1) : Rest(n, j + 1) = Rest(n, j) \div 256
  BY <1>1, RestIs
<1>5. Rest(n, k) = 0 /\ Rest(n, k - 1) # 0
  <2>1. k \in 0..k /\ k - 1 \in 0..k /\ k - k = 0 /\ k - (k - 1) = 1
    BY <1>1
  <2>2. BytesOf[Rest(n, k)] = 0 /\ BytesOf[Rest(n, k - 1)] = 1
    BY <1>2, <2>1
  <2>3. Rest(n, k) \in Nat /\ Rest(n, k - 1) \in Nat
    BY <1>3, <2>1
  <2> QED
    BY <2>2, <2>3, BytesOfIs
<1>6. \A i \in 1..k : bytes[i] = Rest(n, k - i) % 256
  <2>1. \A i \in 1..k : k - i \in 0..4 /\ k - i # 5
    BY <1>1
  <2>2. \A j \in 0..4 : 256^j = Power[j]
    BY DEF Power
  <2>3. \A i \in 1..k : 256^(k - i) = Power[k - i]
    BY <2>1, <2>2
  <2>4. \A i \in 1..k : Rest(n, k - i) = n \div Power[k - i]
    BY <2>1 DEF Rest
  <2>5. \A i \in 1..k : bytes[i] = (n \div 256^(k - i)) % 256
    OBVIOUS
  <2> HIDE DEF bytes
  <2> QED
    BY <2>3, <2>4, <2>5
<1>7. bytes \in Seq(Byte) /\ Len(bytes) = k
  <2>1. \A i \in 1..k : bytes[i] \in Byte
    <3>1. \A i \in 1..k : Rest(n, k - i) \in Nat
      BY <1>1, <1>3
    <3>2. \A m \in Nat : m % 256 \in Byte
      BY DEF Byte
    <3> HIDE DEF bytes
    <3> QED
      BY <1>6, <3>1, <3>2
  <2>2. bytes = [i \in 1..k |-> bytes[i]] /\ k \in Nat
    BY <1>1
  <2> HIDE DEF bytes
  <2>3. bytes \in [1..k -> Byte]
    BY <2>1, <2>2
  <2> QED
    BY <2>2, <2>3
<1> HIDE DEF bytes
<1>8. Number[bytes] = n
  <2>1. q \in [0..Len(bytes) -> Nat] /\ q[Len(bytes)] = 0 /\ q[0] = n
    <3>1. k \in 0..k /\ 0 \in 0..k
      BY <1>1
    <3>2. Rest(n, 0) = n
      BY RestIs
    <3> QED
      BY <1>3, <1>5, <1>7, <3>1, <3>2
  <2>2. \A j \in 0..(Len(bytes) - 1) : q[j + 1] = q[j] \div 256
    <3>1. \A j \in 0..(k - 1) : j \in 0..k /\ j + 1 \in 0..k
      BY <1>1
    <3> QED
      BY <1>4, <1>7, <3>1
  <2>3. \A j \in 0..(Len(bytes) - 1) : bytes[Len(bytes) - j] = q[j] % 256
    <3>1. \A j \in 0..(k - 1) : k - j \in 1..k /\ k - (k - j) = j /\ j \in 0..k
      BY <1>1
    <3> QED
      BY <1>6, <1>7, <3>1
  <2> HIDE DEF q
  <2> QED
    BY <1>7, <2>1, <2>2, <2>3, BytesMakeNumber
<1>9. bytes[1] # 0 /\ (k = 1 => bytes[1] >= 128)
  <2>1. k - 1 \in 0..(k - 1) /\ k - 1 + 1 = k /\ k - 1 \in 0..k /\ 1 \in 1..k
    BY <1>1
  <2>2. Rest(n, k - 1) \in Nat \ {0} /\ Rest(n, k - 1) \div 256 = 0
    BY <1>3, <1>4, <1>5, <2>1
  <2>3. bytes[1] = Rest(n, k - 1)
    BY <1>6, <2>1, <2>2
  <2>4. k = 1 => Rest(n, k - 1) = n
    BY RestIs
  <2> QED
    BY <2>2, <2>3, <2>4
<1> QED
  BY <1>1, <1>7, <1>8, <1>9 DEF k, bytes

\* assemble_certificate_der allocates exactly what it writes, and a decoder
\* finds the length of the content in the header, its place behind it, and
\* DER's one form of it, whatever the lengths of the parts.  Each is an int, so
\* that the sum of three is below LengthMax.
THEOREM HeaderDecodes ==
  ASSUME NEW tbs \in Nat, NEW alg \in Nat, NEW bit \in Nat, tbs + alg + bit <= LengthMax
  PROVE  LET der == AssembleCertificateDer(tbs, alg, bit)
         IN /\ der.allocated = Len(der.header) + der.content
            /\ Decode(der.header) = [length |-> tbs + alg + bit, at |-> Len(der.header) + 1]
            /\ Minimal(der.header)
<1> DEFINE n      == tbs + alg + bit
           der    == AssembleCertificateDer(tbs, alg, bit)
           header == <<48>> \o WriteDerLen(n)
<1>1. n \in Nat /\ n <= LengthMax
  OBVIOUS
<1>2. der.allocated = 1 + DerLenSize(n) + n /\ der.header = header /\ der.content = n
  BY DEF AssembleCertificateDer
<1> HIDE DEF n, der
<1>3. ASSUME NEW len \in Seq(Nat), WriteDerLen(n) = len
      PROVE  /\ Len(header) = 1 + Len(len)
             /\ \A i \in 1..Len(len) : header[i + 1] = len[i]
             /\ header \in Seq(Nat)
  <2>1. <<48>> \in Seq(Nat) /\ Len(<<48>>) = 1 /\ Len(len) \in Nat
    OBVIOUS
  <2>2. header = <<48>> \o len
    BY <1>3
  <2> HIDE DEF header
  <2>3. /\ header \in Seq(Nat) /\ Len(header) = 1 + Len(len)
        /\ \A i \in 1..(1 + Len(len)) : header[i] = IF i <= 1 THEN <<48>>[i] ELSE len[i - 1]
    BY <2>1, <2>2, ConcatProperties
  <2>4. ASSUME NEW i \in 1..Len(len)
        PROVE  header[i + 1] = len[i]
    <3>1. i + 1 \in 1..(1 + Len(len)) /\ ~(i + 1 <= 1) /\ i + 1 - 1 = i
      BY <2>1
    <3> QED
      BY <2>3, <3>1
  <2> QED
    BY <2>3, <2>4
<1>4. CASE n < 128
  <2>1. WriteDerLen(n) = <<n>> /\ DerLenSize(n) = 1
    BY <1>4 DEF WriteDerLen, DerLenSize
  <2>2. Len(header) = 2 /\ header[2] = n
    <3> DEFINE len == <<n>>
    <3>1. len \in Seq(Nat) /\ Len(len) = 1 /\ len[1] = n
      BY <1>1
    <3>2. WriteDerLen(n) = len
      BY <2>1
    <3> HIDE DEF header, len
    <3>3. Len(header) = 1 + Len(len) /\ \A i \in 1..Len(len) : header[i + 1] = len[i]
      BY <1>3, <3>1, <3>2
    <3>4. 1 \in 1..Len(len) /\ 1 + 1 = 2
      BY <3>1
    <3> QED
      BY <3>1, <3>3, <3>4
  <2> HIDE DEF header
  <2>3. Decode(header) = [length |-> n, at |-> 3] /\ Minimal(header)
    BY <1>1, <1>4, <2>2 DEF Decode, Minimal
  <2> QED
    BY <1>1, <1>2, <2>1, <2>2, <2>3 DEF n, der
<1>5. CASE ~(n < 128)
  <2> DEFINE k     == BytesOf[n]
             bytes == [i \in 1..k |-> (n \div 256^(k - i)) % 256]
             len   == <<128 + k>> \o bytes
  <2>1. /\ k \in 1..5 /\ bytes \in Seq(Byte) /\ Len(bytes) = k /\ Number[bytes] = n
        /\ bytes[1] # 0 /\ (k = 1 => bytes[1] >= 128)
    BY <1>1, <1>5, LongForm
  <2>2. DerLenSize(n) = 1 + k /\ DerLenSize(n) - 1 = k
    <3>1. DerLenSize(n) = 1 + k
      BY <1>5 DEF DerLenSize
    <3> HIDE DEF k, bytes, len
    <3> QED
      BY <2>1, <3>1
  <2>3. WriteDerLen(n) = len
    BY <1>5, <2>2, Zenon DEF WriteDerLen
  <2> HIDE DEF k, bytes
  <2>4. /\ len \in Seq(Nat) /\ Len(len) = 1 + k /\ len[1] = 128 + k
        /\ \A i \in 1..k : len[i + 1] = bytes[i]
    <3>1. <<128 + k>> \in Seq(Nat) /\ Len(<<128 + k>>) = 1 /\ <<128 + k>>[1] = 128 + k
      BY <2>1
    <3>2. bytes \in Seq(Nat)
      BY <2>1, BytesAreNumbers, SeqMonotonic
    <3> HIDE DEF len
    <3>3. /\ len \in Seq(Nat) /\ Len(len) = 1 + k
          /\ \A i \in 1..(1 + k) : len[i] = IF i <= 1 THEN <<128 + k>>[i] ELSE bytes[i - 1]
      BY <2>1, <3>1, <3>2, ConcatProperties DEF len
    <3>4. ASSUME NEW i \in 1..k
          PROVE  len[i + 1] = bytes[i]
      <4>1. i + 1 \in 1..(1 + k) /\ ~(i + 1 <= 1) /\ i + 1 - 1 = i
        BY <2>1
      <4> QED
        BY <3>3, <4>1
    <3>5. 1 \in 1..(1 + k)
      BY <2>1
    <3> QED
      BY <3>1, <3>3, <3>4, <3>5
  <2> HIDE DEF len, header
  <2>5. /\ header \in Seq(Nat) /\ Len(header) = 2 + k /\ header[2] = 128 + k
        /\ \A i \in 1..k : header[i + 2] = bytes[i]
    <3>1. Len(header) = 1 + Len(len) /\ \A i \in 1..Len(len) : header[i + 1] = len[i]
      BY <1>3, <2>3, <2>4
    <3>2. header \in Seq(Nat)
      BY <1>3, <2>3, <2>4
    <3>3. 1 \in 1..Len(len) /\ \A i \in 1..k : i + 1 \in 1..Len(len) /\ i + 2 = i + 1 + 1
      BY <2>1, <2>4
    <3> QED
      BY <2>1, <2>4, <3>1, <3>2, <3>3
  <2>6. SubSeq(header, 3, 2 + k) = bytes
    <3> DEFINE part == SubSeq(header, 3, 2 + k)
               from == 3
               to   == 2 + k
    <3>1. /\ part \in Seq(Nat) /\ Len(part) = k
          /\ \A i \in 1..k : part[i] = header[3 + i - 1]
      <4>1. /\ from \in Nat \ {0} /\ to \in Nat /\ from <= to + 1 /\ to <= Len(header)
            /\ to - from + 1 = k
        BY <2>1, <2>5
      <4> DEFINE whole == SubSeq(header, from, to)
      <4> HIDE DEF from, to
      <4>2. /\ whole \in Seq(Nat) /\ Len(whole) = to - from + 1
            /\ \A i \in 1..(to - from + 1) : whole[i] = header[from + i - 1]
        BY <2>5, <4>1, SubSeqIs
      <4>3. whole \in Seq(Nat) /\ Len(whole) = k /\ \A i \in 1..k : whole[i] = header[from + i - 1]
        BY <4>1, <4>2
      <4> QED
        BY <4>3 DEF from, to
    <3>2. \A i \in 1..k : 3 + i - 1 = i + 2
      BY <2>1
    <3>3. bytes \in Seq(Nat)
      BY <2>1, BytesAreNumbers, SeqMonotonic
    <3> HIDE DEF part
    <3>4. \A i \in 1..Len(part) : part[i] = bytes[i]
      BY <2>5, <3>1, <3>2
    <3>5. part = bytes
      BY <2>1, <3>1, <3>3, <3>4, SeqEqual
    <3> QED
      BY <3>5 DEF part
  <2>7. Decode(header) = [length |-> n, at |-> 3 + k]
    <3>1. ~(header[2] < 128) /\ header[2] - 128 = k
      BY <2>1, <2>5
    <3> QED
      BY <2>1, <2>6, <3>1 DEF Decode
  <2>8. Minimal(header)
    <3>1. header[3] = bytes[1]
      BY <2>1, <2>5
    <3>2. header[2] = 129 => k = 1
      BY <2>1, <2>5
    <3> QED
      BY <2>1, <3>1, <3>2 DEF Minimal
  <2>9. /\ 1 + DerLenSize(n) + n = Len(header) + n /\ 3 + k = Len(header) + 1
    BY <1>1, <2>1, <2>2, <2>5
  <2> QED
    BY <1>1, <1>2, <2>7, <2>8, <2>9 DEF n, der
<1> QED
  BY <1>4, <1>5

\* Hence the run's property: each certificate sent can be decoded.
THEOREM CertificatesDecode == Spec => []CertificateDecodes
<1>1. AssemblyDecodes
  <2> SUFFICES ASSUME NEW tbs \in PartLengths, NEW bit \in 0..30
               PROVE  LET der == AssembleCertificateDer(tbs, 12, bit)
                      IN /\ der.allocated = Len(der.header) + der.content
                         /\ Decode(der.header) = [length |-> tbs + 12 + bit, at |-> Len(der.header) + 1]
                         /\ Minimal(der.header)
    BY DEF AssemblyDecodes
  <2>1. tbs \in Nat /\ tbs <= 16777200
    BY DEF PartLengths
  <2>2. 12 \in Nat /\ bit \in Nat /\ bit <= 30
    OBVIOUS
  <2>3. tbs + 12 + bit <= LengthMax
    BY <2>1, <2>2 DEF LengthMax
  <2> QED
    BY <2>1, <2>2, <2>3, HeaderDecodes
<1>2. CertificateDecodes
  BY <1>1 DEF CertificateDecodes
<1> QED
  BY <1>2, PTL
-----------------------------------------------------------------------------
(* Base64.                                                                 *)

Chars == Range(Alphabet) \cup {Pad}

\* No two of its 64 characters are the same, and none is the padding.
LEMMA AlphabetIs ==
  /\ DOMAIN Alphabet = 1..64 /\ DOMAIN ValueOf = Chars
  /\ \A v \in 0..63 : /\ Alphabet[v + 1] \in Chars /\ Alphabet[v + 1] # Pad
                      /\ ValueOf[Alphabet[v + 1]] = v
  /\ Pad \in Chars /\ ValueOf[Pad] = 0
<1>1. DOMAIN Alphabet = 1..64
  BY SMT DEF Alphabet
<1>2. \A i, j \in 1..64 : Alphabet[i] = Alphabet[j] => i = j
  BY SMTT(60) DEF Alphabet
<1>3. \A i \in 1..64 : Alphabet[i] # Pad
  BY SMT DEF Alphabet, Pad
<1>4. DOMAIN ValueOf = Chars
  BY DEF ValueOf, Chars
<1>5. ASSUME NEW v \in 0..63
      PROVE  /\ Alphabet[v + 1] \in Chars /\ Alphabet[v + 1] # Pad
             /\ ValueOf[Alphabet[v + 1]] = v
  <2>1. v + 1 \in 1..64 /\ v + 1 - 1 = v
    OBVIOUS
  <2>2. Alphabet[v + 1] \in Range(Alphabet) /\ Alphabet[v + 1] # Pad
    BY <1>1, <1>3, <2>1 DEF Range
  <2>3. (CHOOSE i \in DOMAIN Alphabet : Alphabet[i] = Alphabet[v + 1]) = v + 1
    BY <1>1, <1>2, <2>1
  <2>4. ValueOf[Alphabet[v + 1]] = (CHOOSE i \in DOMAIN Alphabet : Alphabet[i] = Alphabet[v + 1]) - 1
    BY <2>2 DEF ValueOf
  <2> DEFINE at == CHOOSE i \in DOMAIN Alphabet : Alphabet[i] = Alphabet[v + 1]
  <2> HIDE DEF at
  <2>5. ValueOf[Alphabet[v + 1]] = v
    <3>1. ValueOf[Alphabet[v + 1]] = at - 1 /\ at = v + 1
      BY <2>3, <2>4 DEF at
    <3> QED
      BY <2>1, <3>1
  <2> QED
    BY <2>2, <2>5 DEF Chars
<1>6. Pad \in Chars /\ ValueOf[Pad] = 0
  BY DEF Chars, ValueOf
<1> QED
  BY <1>1, <1>4, <1>5, <1>6

Shift  == [r \in 0..3 |-> 64^(3 - r)]
Shift8 == [m \in 0..2 |-> 256^(2 - m)]

\* The shifts by which six bits are taken from 24, and eight bits.
LEMMA Shifts ==
  /\ Shift[0] = 262144 /\ Shift[1] = 4096 /\ Shift[2] = 64 /\ Shift[3] = 1
  /\ Shift8[0] = 65536 /\ Shift8[1] = 256 /\ Shift8[2] = 1
BY SMT DEF Shift, Shift8

\* Three bytes are a number of 24 bits, and so are four numbers of six.
Joined(a, b, c)  == 65536 * a + 256 * b + c
Six(w, r)        == (w \div Shift[r]) % 64
Eight(w, m)      == (w \div Shift8[m]) % 256
OfSix(p, q, r, s) == 262144 * p + 4096 * q + 64 * r + s

\* Three bytes can be got back from the four numbers of six bits made of them.
LEMMA WordIs ==
  ASSUME NEW a \in Byte, NEW b \in Byte, NEW c \in Byte
  PROVE  LET w == Joined(a, b, c)
         IN /\ w \in Nat
            /\ \A r \in 0..3 : Six(w, r) \in 0..63
            /\ OfSix(Six(w, 0), Six(w, 1), Six(w, 2), Six(w, 3)) = w
            /\ Eight(w, 0) = a /\ Eight(w, 1) = b /\ Eight(w, 2) = c
            /\ c = 0 => Six(w, 3) = 0
            /\ b = 0 /\ c = 0 => Six(w, 2) = 0
<1> DEFINE w == Joined(a, b, c)
<1>1. /\ a \in Nat /\ a <= 255 /\ b \in Nat /\ b <= 255 /\ c \in Nat /\ c <= 255
  BY DEF Byte
<1>2. w \in Nat /\ w = 65536 * a + 256 * b + c
  BY <1>1, SMT DEF Joined
<1> HIDE DEF w
<1>3. /\ Six(w, 0) = (w \div 262144) % 64 /\ Six(w, 1) = (w \div 4096) % 64
      /\ Six(w, 2) = (w \div 64) % 64 /\ Six(w, 3) = w % 64
  BY <1>2, Shifts, SMT DEF Six
<1>4. /\ Six(w, 0) \in 0..63 /\ Six(w, 1) \in 0..63 /\ Six(w, 2) \in 0..63 /\ Six(w, 3) \in 0..63
  BY <1>2, <1>3, SMT
<1>5. \A r \in 0..3 : Six(w, r) \in 0..63
  <2>1. \A r \in 0..3 : r \in {0, 1, 2, 3}
    OBVIOUS
  <2> QED
    BY <1>4, <2>1
<1>6. OfSix(Six(w, 0), Six(w, 1), Six(w, 2), Six(w, 3)) = w
  <2>1. w \div 4096 = 64 * (w \div 262144) + ((w \div 4096) % 64)
    BY <1>2, SMT
  <2>2. w \div 64 = 64 * (w \div 4096) + ((w \div 64) % 64)
    BY <1>2, SMT
  <2>3. w = 64 * (w \div 64) + (w % 64)
    BY <1>2, SMT
  <2>4. (w \div 262144) % 64 = w \div 262144
    BY <1>1, <1>2, SMT
  <2> QED
    BY <1>2, <1>3, <2>1, <2>2, <2>3, <2>4, SMT DEF OfSix
<1>7. Eight(w, 0) = a /\ Eight(w, 1) = b /\ Eight(w, 2) = c
  <2>1. w \div 65536 = a /\ w \div 256 = 256 * a + b /\ w \div 1 = w
    BY <1>1, <1>2, SMT
  <2>2. w % 256 = c /\ (256 * a + b) % 256 = b /\ a % 256 = a
    BY <1>1, <1>2, SMT
  <2> QED
    BY <2>1, <2>2, Shifts, SMT DEF Eight
<1>8. /\ c = 0 => Six(w, 3) = 0
      /\ b = 0 /\ c = 0 => Six(w, 2) = 0
  <2>1. c = 0 => w = 64 * (1024 * a + 4 * b)
    BY <1>1, <1>2, SMT
  <2>2. b = 0 /\ c = 0 => w \div 64 = 64 * (16 * a)
    BY <1>1, <1>2, SMT
  <2> QED
    BY <1>1, <1>3, <2>1, <2>2, SMT
<1> QED
  BY <1>2, <1>5, <1>6, <1>7, <1>8 DEF w

\* The three bytes of a group, with zeros behind the last one
ByteAt(data, n) == IF n <= Len(data) THEN data[n] ELSE 0
Word(data, g)   == Joined(ByteAt(data, 3 * g + 1), ByteAt(data, 3 * g + 2), ByteAt(data, 3 * g + 3))
Groups(data)    == (Len(data) + 2) \div 3

\* Behind the data as in it, a group is three bytes, and its parts are below 64.
LEMMA WordOf ==
  ASSUME NEW data \in Seq(Byte), NEW g \in Nat
  PROVE  /\ \A n \in Nat \ {0} : ByteAt(data, n) \in Byte
         /\ Word(data, g) \in Nat
         /\ \A r \in 0..3 : Six(Word(data, g), r) \in 0..63
<1>1. \A n \in Nat \ {0} : ByteAt(data, n) \in Byte
  <2>1. 0 \in Byte
    BY DEF Byte
  <2>2. \A n \in Nat \ {0} : n <= Len(data) => data[n] \in Byte
    OBVIOUS
  <2> QED
    BY <2>1, <2>2 DEF ByteAt
<1>2. 3 * g + 1 \in Nat \ {0} /\ 3 * g + 2 \in Nat \ {0} /\ 3 * g + 3 \in Nat \ {0}
  OBVIOUS
<1> DEFINE a == ByteAt(data, 3 * g + 1)
           b == ByteAt(data, 3 * g + 2)
           c == ByteAt(data, 3 * g + 3)
<1>3. a \in Byte /\ b \in Byte /\ c \in Byte /\ Word(data, g) = Joined(a, b, c)
  BY <1>1, <1>2 DEF Word
<1> HIDE DEF a, b, c
<1> QED
  BY <1>1, <1>3, WordIs

\* base64_encode writes four characters for a group, padding where the bytes end.
LEMMA EncodedIs ==
  ASSUME NEW data \in Seq(Byte)
  PROVE  LET text == EncodeBlock(data)
         IN /\ text \in Seq(Chars) /\ Len(text) = 4 * Groups(data)
            /\ \A g \in 0..(Groups(data) - 1) : \A r \in 0..3 :
                 text[4 * g + r + 1] =
                   IF 3 * g + r > Len(data) THEN Pad
                   ELSE Alphabet[Six(Word(data, g), r) + 1]
<1> DEFINE text == EncodeBlock(data)
           n == Groups(data)
           Char(g, r) == IF 3 * g + r > Len(data) THEN Pad
                         ELSE Alphabet[Six(Word(data, g), r) + 1]
           raw(g, r)  == IF 3 * g + r > Len(data) THEN Pad
                         ELSE Alphabet[((Word(data, g) \div 64^(3 - r)) % 64) + 1]
<1>1. text = [i \in 1..(4 * n) |-> raw((i - 1) \div 4, (i - 1) % 4)]
  BY DEF EncodeBlock, Word, Joined, ByteAt, Groups
<1>2. Len(data) \in Nat /\ n \in Nat
  BY DEF Groups
<1>3. \A g \in Nat : \A r \in 0..3 : raw(g, r) = Char(g, r)
  <2>1. \A r \in 0..3 : 64^(3 - r) = Shift[r]
    BY DEF Shift
  <2> QED
    BY <2>1, Zenon DEF Six
<1>4. \A g \in Nat : \A r \in 0..3 : Char(g, r) \in Chars
  BY AlphabetIs, WordOf
<1> HIDE DEF raw, Char, text, n
<1>5. \A i \in 1..(4 * n) : (i - 1) \div 4 \in Nat /\ (i - 1) % 4 \in 0..3
  BY <1>2
<1>6. \A i \in 1..(4 * n) : text[i] = Char((i - 1) \div 4, (i - 1) % 4) /\ text[i] \in Chars
  BY <1>1, <1>3, <1>4, <1>5
<1>7. text \in Seq(Chars) /\ Len(text) = 4 * n
  <2>1. text \in [1..(4 * n) -> Chars] /\ 4 * n \in Nat
    BY <1>1, <1>2, <1>6
  <2> QED
    BY <2>1
<1>8. ASSUME NEW g \in 0..(n - 1), NEW r \in 0..3
      PROVE  text[4 * g + r + 1] = Char(g, r)
  <2> DEFINE i == 4 * g + r + 1
  <2>1. i \in 1..(4 * n) /\ (i - 1) \div 4 = g /\ (i - 1) % 4 = r
    BY <1>2
  <2> HIDE DEF i
  <2>2. text[i] = Char(g, r)
    BY <1>6, <2>1
  <2> QED
    BY <2>2 DEF i
<1> QED
  BY <1>7, <1>8 DEF text, n, Char

\* The value of a character written, padding included, is that of its six bits.
LEMMA EncodedValue ==
  ASSUME NEW data \in Seq(Byte), NEW g \in 0..(Groups(data) - 1), NEW r \in 0..3
  PROVE  ValueOf[EncodeBlock(data)[4 * g + r + 1]] = Six(Word(data, g), r)
<1> DEFINE w == Word(data, g)
           char == EncodeBlock(data)[4 * g + r + 1]
           a == ByteAt(data, 3 * g + 1)
           b == ByteAt(data, 3 * g + 2)
           c == ByteAt(data, 3 * g + 3)
<1>1. Len(data) \in Nat /\ Groups(data) \in Nat /\ g \in Nat
  BY DEF Groups
<1>2. char = IF 3 * g + r > Len(data) THEN Pad ELSE Alphabet[Six(w, r) + 1]
  BY EncodedIs
<1>3. a \in Byte /\ b \in Byte /\ c \in Byte /\ w = Joined(a, b, c)
  <2>1. 3 * g + 1 \in Nat \ {0} /\ 3 * g + 2 \in Nat \ {0} /\ 3 * g + 3 \in Nat \ {0}
    BY <1>1
  <2> QED
    BY <1>1, <2>1, WordOf DEF Word
<1>4. /\ 3 * g + 3 > Len(data) => c = 0
      /\ 3 * g + 2 > Len(data) => b = 0 /\ c = 0
      /\ ~(3 * g + 1 > Len(data)) /\ ~(3 * g > Len(data))
  <2>1. 3 * g + 1 <= Len(data)
    BY <1>1, SMT DEF Groups
  <2>2. \A n \in Nat : n > Len(data) => ByteAt(data, n) = 0
    BY <1>1, SMT DEF ByteAt
  <2> HIDE DEF w, char
  <2> QED
    BY <1>1, <2>1, <2>2, SMT
<1>5. Six(w, r) \in 0..63
  BY <1>1, WordOf
<1> SUFFICES ValueOf[char] = Six(w, r)
  OBVIOUS
<1> HIDE DEF w, char, a, b, c
<1>6. CASE ~(3 * g + r > Len(data))
  BY <1>2, <1>5, <1>6, AlphabetIs
<1>7. CASE 3 * g + r > Len(data)
  <2>1. r = 3 \/ r = 2
    <3>1. r # 0 /\ r # 1
      BY <1>1, <1>4, <1>7
    <3> QED
      BY <3>1
  <2>2. /\ c = 0 => Six(w, 3) = 0
        /\ b = 0 /\ c = 0 => Six(w, 2) = 0
    BY <1>3, WordIs
  <2>3. Six(w, r) = 0
    BY <1>4, <1>7, <2>1, <2>2
  <2> QED
    BY <1>2, <1>7, <2>1, <2>2, <2>3, AlphabetIs
<1> QED
  BY <1>6, <1>7

\* Decoding the characters gives the bytes back, followed by zeros.
LEMMA DecodedIs ==
  ASSUME NEW data \in Seq(Byte)
  PROVE  LET decoded == DecodeBlock(EncodeBlock(data))
         IN /\ decoded \in Seq(Byte) /\ Len(decoded) = 3 * Groups(data)
            /\ \A i \in 1..Len(data) : decoded[i] = data[i]
<1> DEFINE text    == EncodeBlock(data)
           decoded == DecodeBlock(text)
           n       == Groups(data)
           Value(g, k) == ValueOf[text[4 * g + k]]
           Decoded(g)  == OfSix(Value(g, 1), Value(g, 2), Value(g, 3), Value(g, 4))
           raw(w, m)   == (w \div 256^(2 - m)) % 256
<1>1. Len(data) \in Nat /\ n \in Nat /\ Len(data) <= 3 * n
  BY SMT DEF Groups
<1>2. Len(text) = 4 * n /\ 3 * (Len(text) \div 4) = 3 * n
  <2>1. Len(text) = 4 * n
    BY EncodedIs
  <2> HIDE DEF text, n
  <2> QED
    BY <1>1, <2>1, SMT
<1>3. decoded = [i \in 1..(3 * (Len(text) \div 4)) |-> raw(Decoded((i - 1) \div 3), (i - 1) % 3)]
  BY DEF DecodeBlock, OfSix
<1>4. \A w : \A m \in 0..2 : raw(w, m) = Eight(w, m)
  <2>1. \A m \in 0..2 : 256^(2 - m) = Shift8[m]
    BY DEF Shift8
  <2> QED
    BY <2>1, Zenon DEF Eight
<1>5. \A i \in 1..(3 * n) : /\ (i - 1) \div 3 \in 0..(n - 1) /\ (i - 1) % 3 \in 0..2
                            /\ i = 3 * ((i - 1) \div 3) + ((i - 1) % 3) + 1
  <2> HIDE DEF n
  <2> QED
    BY <1>1, SMT
<1>6. ASSUME NEW g \in 0..(n - 1)
      PROVE  Decoded(g) = Word(data, g)
  <2>1. \A r \in 0..3 : ValueOf[text[4 * g + r + 1]] = Six(Word(data, g), r)
    BY EncodedValue
  <2>2. g \in Nat
    BY <1>1
  <2>3. /\ 4 * g + 0 + 1 = 4 * g + 1 /\ 4 * g + 1 + 1 = 4 * g + 2
        /\ 4 * g + 2 + 1 = 4 * g + 3 /\ 4 * g + 3 + 1 = 4 * g + 4
    BY <2>2, SMT
  <2> DEFINE w == Word(data, g)
  <2> HIDE DEF text, w
  <2>4. /\ Value(g, 1) = Six(w, 0) /\ Value(g, 2) = Six(w, 1)
        /\ Value(g, 3) = Six(w, 2) /\ Value(g, 4) = Six(w, 3)
    BY <2>1, <2>3 DEF w
  <2>5. OfSix(Six(w, 0), Six(w, 1), Six(w, 2), Six(w, 3)) = w
    <3> DEFINE a == ByteAt(data, 3 * g + 1)
               b == ByteAt(data, 3 * g + 2)
               c == ByteAt(data, 3 * g + 3)
    <3>1. a \in Byte /\ b \in Byte /\ c \in Byte /\ w = Joined(a, b, c)
      <4>1. 3 * g + 1 \in Nat \ {0} /\ 3 * g + 2 \in Nat \ {0} /\ 3 * g + 3 \in Nat \ {0}
        BY <2>2
      <4> QED
        BY <2>2, <4>1, WordOf DEF Word, w
    <3> HIDE DEF a, b, c
    <3> QED
      BY <3>1, WordIs
  <2>6. Decoded(g) = w
    BY <2>4, <2>5, Zenon
  <2> QED
    BY <2>6 DEF w
<1>7. ASSUME NEW g \in 0..(n - 1), NEW m \in 0..2
      PROVE  Eight(Word(data, g), m) = ByteAt(data, 3 * g + m + 1) /\ Eight(Word(data, g), m) \in Byte
  <2>1. g \in Nat
    BY <1>1
  <2> DEFINE a == ByteAt(data, 3 * g + 1)
             b == ByteAt(data, 3 * g + 2)
             c == ByteAt(data, 3 * g + 3)
  <2>2. a \in Byte /\ b \in Byte /\ c \in Byte /\ Word(data, g) = Joined(a, b, c)
    <3>1. 3 * g + 1 \in Nat \ {0} /\ 3 * g + 2 \in Nat \ {0} /\ 3 * g + 3 \in Nat \ {0}
      BY <2>1
    <3> QED
      BY <2>1, <3>1, WordOf DEF Word
  <2>3. /\ ByteAt(data, 3 * g + 0 + 1) = a /\ ByteAt(data, 3 * g + 1 + 1) = b
        /\ ByteAt(data, 3 * g + 2 + 1) = c
    <3>1. 3 * g + 0 + 1 = 3 * g + 1 /\ 3 * g + 1 + 1 = 3 * g + 2 /\ 3 * g + 2 + 1 = 3 * g + 3
      BY <2>1, SMT
    <3> QED
      BY <3>1
  <2> HIDE DEF a, b, c
  <2>4. /\ Eight(Word(data, g), 0) = a /\ Eight(Word(data, g), 1) = b
        /\ Eight(Word(data, g), 2) = c
    BY <2>2, WordIs
  <2>5. m \in {0, 1, 2}
    OBVIOUS
  <2> QED
    BY <2>2, <2>3, <2>4, <2>5
<1> HIDE DEF raw, Decoded, decoded, text, n
<1>8. \A i \in 1..(3 * n) : decoded[i] = ByteAt(data, i) /\ decoded[i] \in Byte
  <2> TAKE i \in 1..(3 * n)
  <2> DEFINE g == (i - 1) \div 3
             m == (i - 1) % 3
  <2>1. g \in 0..(n - 1) /\ m \in 0..2 /\ i = 3 * g + m + 1
    BY <1>5
  <2>2. decoded[i] = raw(Decoded(g), m)
    BY <1>2, <1>3
  <2> HIDE DEF g, m
  <2>3. decoded[i] = Eight(Word(data, g), m)
    BY <1>4, <1>6, <2>1, <2>2
  <2> QED
    BY <1>7, <2>1, <2>3
<1>9. decoded \in Seq(Byte) /\ Len(decoded) = 3 * n
  <2> DEFINE all == 3 * n
             at(i) == raw(Decoded((i - 1) \div 3), (i - 1) % 3)
  <2>2. decoded = [i \in 1..all |-> at(i)] /\ \A i \in 1..all : decoded[i] \in Byte
    BY <1>2, <1>3, <1>8
  <2>3. all \in Nat
    BY <1>1
  <2> HIDE DEF all, at
  <2>1. decoded \in [1..all -> Byte]
    BY <2>2
  <2>4. decoded \in Seq(Byte) /\ Len(decoded) = all
    BY <2>1, <2>3
  <2> QED
    BY <2>4 DEF all
<1>10. \A i \in 1..Len(data) : decoded[i] = data[i]
  <2>1. \A i \in 1..Len(data) : i \in 1..(3 * n) /\ i <= Len(data)
    BY <1>1
  <2> QED
    BY <1>8, <2>1 DEF ByteAt
<1> QED
  BY <1>9, <1>10 DEF decoded, text, n

\* There are as many of those zeros as there are padding characters.
LEMMA PaddingIs ==
  ASSUME NEW data \in Seq(Byte), data # <<>>
  PROVE  3 * Groups(data) - Padding(EncodeBlock(data)) = Len(data)
<1> DEFINE text == EncodeBlock(data)
           n    == Groups(data)
           g    == n - 1
<1>1. Len(data) \in Nat \ {0}
  BY EmptySeq
<1>2. n \in Nat \ {0} /\ 3 * n - 2 <= Len(data) /\ Len(data) <= 3 * n
  BY <1>1, SMT DEF Groups
<1>3. ASSUME NEW r \in 0..3
      PROVE  text[4 * g + r + 1] = Pad <=> 3 * g + r > Len(data)
  <2>1. g \in 0..(Groups(data) - 1) /\ g \in Nat
    BY <1>2
  <2> HIDE DEF g
  <2>2. text[4 * g + r + 1] = IF 3 * g + r > Len(data) THEN Pad ELSE Alphabet[Six(Word(data, g), r) + 1]
    BY <2>1, EncodedIs
  <2>3. Alphabet[Six(Word(data, g), r) + 1] # Pad
    BY <2>1, WordOf, AlphabetIs
  <2> HIDE DEF text
  <2> QED
    BY <2>2, <2>3
<1>4. Len(text) = 4 * n
  BY EncodedIs
<1>5. /\ 4 * g + 3 + 1 = 4 * n /\ 4 * g + 2 + 1 = 4 * n - 1
      /\ 3 * g + 3 = 3 * n /\ 3 * g + 2 = 3 * n - 1
  <2> HIDE DEF n
  <2> QED
    BY <1>2, SMT
<1> HIDE DEF text, n, g
<1>6. text[Len(text)] = Pad <=> 3 * n > Len(data)
  BY <1>3, <1>4, <1>5
<1>7. text[Len(text) - 1] = Pad <=> 3 * n - 1 > Len(data)
  BY <1>3, <1>4, <1>5
<1>8. Padding(text) = (IF 3 * n > Len(data) THEN 1 ELSE 0) + (IF 3 * n - 1 > Len(data) THEN 1 ELSE 0)
  BY <1>6, <1>7 DEF Padding
<1>9. 3 * n - Padding(text) = Len(data)
  <2>1. CASE Len(data) = 3 * n
    BY <1>1, <1>2, <1>8, <2>1, SMT
  <2>2. CASE Len(data) = 3 * n - 1
    BY <1>1, <1>2, <1>8, <2>2, SMT
  <2>3. CASE Len(data) = 3 * n - 2
    BY <1>1, <1>2, <1>8, <2>3, SMT
  <2> QED
    BY <1>1, <1>2, <2>1, <2>2, <2>3, SMT
<1> QED
  BY <1>9 DEF text, n

\* base64_decode gives back the bytes base64 was made of, whatever they are and
\* however many: the signature that KMS encoded is the one that is put into the
\* certificate, and not a byte more.
THEOREM Base64RoundTrip ==
  ASSUME NEW data \in Seq(Byte), data # <<>>
  PROVE  Base64Decode(Base64Encode(data)) = data
<1> DEFINE text    == EncodeBlock(data)
           decoded == DecodeBlock(text)
           n       == Groups(data)
<1>1. Len(data) \in Nat \ {0}
  BY EmptySeq
<1>2. n \in Nat \ {0} /\ Len(data) <= 3 * n
  BY <1>1, SMT DEF Groups
<1>3. text \in Seq(Chars) /\ Len(text) = 4 * n
  BY EncodedIs
<1>4. /\ decoded \in Seq(Byte) /\ Len(decoded) = 3 * n
      /\ \A i \in 1..Len(data) : decoded[i] = data[i]
  BY DecodedIs
<1>5. Len(decoded) - Padding(text) = Len(data)
  BY <1>4, PaddingIs
<1> HIDE DEF n
<1>6. text # <<>> /\ Len(text) % 4 = 0
  <2> HIDE DEF text
  <2>1. Len(text) # 0 /\ Len(text) % 4 = 0
    BY <1>2, <1>3, SMT
  <2> QED
    BY <2>1, EmptySeq
<1>7. Range(text) \subseteq DOMAIN ValueOf
  <2>1. DOMAIN text = 1..Len(text) /\ \A i \in 1..Len(text) : text[i] \in Chars
    BY <1>3
  <2> HIDE DEF text
  <2> QED
    BY <2>1, AlphabetIs DEF Range
<1>8. Base64Decode(text) = SubSeq(decoded, 1, Len(decoded) - Padding(text))
  BY <1>6, <1>7, Zenon DEF Base64Decode
<1>9. SubSeq(decoded, 1, Len(data)) = data
  <2> HIDE DEF decoded
  <2> DEFINE part == SubSeq(decoded, 1, Len(data))
             last == Len(data)
  <2>1. 1 \in Nat \ {0} /\ last \in Nat /\ 1 <= last + 1 /\ last <= Len(decoded) /\ last - 1 + 1 = last
    BY <1>1, <1>2, <1>4
  <2> HIDE DEF last
  <2> DEFINE whole == SubSeq(decoded, 1, last)
  <2>2. /\ whole \in Seq(Byte) /\ Len(whole) = last - 1 + 1
        /\ \A i \in 1..(last - 1 + 1) : whole[i] = decoded[1 + i - 1]
    BY <1>4, <2>1, SubSeqIs
  <2> HIDE DEF whole
  <2>3. Len(whole) = Len(data) /\ \A i \in 1..Len(whole) : whole[i] = data[i]
    <3>1. \A i \in 1..last : 1 + i - 1 = i
      BY <2>1
    <3> QED
      BY <1>4, <2>1, <2>2, <3>1 DEF last
  <2>4. whole = data
    BY <2>2, <2>3, SeqEqual
  <2> QED
    BY <2>4 DEF whole, last
<1> HIDE DEF text, decoded
<1>10. Base64Decode(text) = data
  BY <1>5, <1>8, <1>9
<1> QED
  BY <1>10 DEF Base64Encode, text
-----------------------------------------------------------------------------
(* JSON.                                                                   *)

\* A value ends at the first quote if no quote or backslash is in it.
LEMMA ValueEndIs ==
  ASSUME NEW S, NEW json \in Seq(S), NEW start \in Nat \ {0}, NEW to \in start..Len(json),
         json[to] = Quote, \A i \in start..(to - 1) : json[i] # Quote /\ json[i] # Backslash
  PROVE  ValueEnd(json, start) = to
<1> DEFINE D    == start..(Len(json) + 1)
           Stop == {at \in D : at > Len(json) \/ json[at] = Quote}
           base == [at \in D |-> at]
           pred == [at \in D |-> IF at \in Stop THEN at
                                 ELSE IF json[at] = Backslash /\ at < Len(json) THEN at + 2 ELSE at + 1]
           size == [at \in D |-> Len(json) + 1 - at]
           step == [s \in D \X D |-> s[2]]
           Turn(f) == [at \in D |->
             IF at > Len(json) \/ json[at] = Quote THEN at
             ELSE IF json[at] = Backslash /\ at < Len(json) THEN f[at + 2]
             ELSE f[at + 1]]
           end == CHOOSE f : f = Turn(f)
<1>1. Len(json) \in Nat /\ \A at \in D : at \in Nat \ {0} /\ at >= start /\ at <= Len(json) + 1
  OBVIOUS
<1>2. ASSUME NEW at \in D \ Stop
      PROVE  /\ pred[at] \in D /\ pred[at] > at
             /\ pred[at] = IF json[at] = Backslash /\ at < Len(json) THEN at + 2 ELSE at + 1
  <2>1. at <= Len(json) /\ at \in Nat /\ at >= start
    BY <1>1
  <2>2. pred[at] = IF json[at] = Backslash /\ at < Len(json) THEN at + 2 ELSE at + 1
    OBVIOUS
  <2> HIDE DEF pred
  <2>3. CASE json[at] = Backslash /\ at < Len(json)
    BY <1>1, <2>1, <2>2, <2>3
  <2>4. CASE ~(json[at] = Backslash /\ at < Len(json))
    BY <1>1, <2>1, <2>2, <2>4
  <2> QED
    BY <2>2, <2>3, <2>4
<1>3. base \in [D -> D] /\ step \in [D \X D -> D] /\ size \in [D -> Nat] /\ pred \in [D -> D]
  <2>1. \A at \in D : pred[at] \in D
    BY <1>2
  <2>2. \A at \in D : size[at] \in Nat
    BY <1>1
  <2>3. size = [at \in D |-> size[at]] /\ pred = [at \in D |-> pred[at]]
    OBVIOUS
  <2>4. base \in [D -> D] /\ step \in [D \X D -> D]
    <3> HIDE DEF D
    <3> QED
      OBVIOUS
  <2> HIDE DEF D, size, pred
  <2> QED
    BY <2>1, <2>2, <2>3, <2>4
<1>4. Descends(D, Stop, pred, size)
  <2>1. ASSUME NEW at \in D \ Stop
        PROVE  size[pred[at]] < size[at]
    <3>1. pred[at] \in D /\ pred[at] > at /\ at \in D
      BY <1>2
    <3>2. size[pred[at]] = Len(json) + 1 - pred[at] /\ size[at] = Len(json) + 1 - at
      BY <3>1
    <3>3. pred[at] \in Nat /\ at \in Nat
      BY <1>1, <3>1
    <3> HIDE DEF size, pred
    <3> QED
      BY <1>1, <3>1, <3>2, <3>3
  <2> HIDE DEF D, Stop, pred, size
  <2> QED
    BY <1>3, <2>1 DEF Descends
<1>5. PICK f \in [D -> D] : \A at \in D : Recurs(f, at, Stop, base, pred, step)
  <2> HIDE DEF D, Stop, base, pred, size, step
  <2> QED
    BY <1>3, <1>4, RecursionExists
<1>6. f = Turn(f)
  <2>1. ASSUME NEW at \in D
        PROVE  f[at] = Turn(f)[at]
    <3>1. Turn(f)[at] = IF at \in Stop THEN at
                        ELSE IF json[at] = Backslash /\ at < Len(json) THEN f[at + 2]
                        ELSE f[at + 1]
      OBVIOUS
    <3> HIDE DEF Turn
    <3>2. CASE at \in Stop
      <4>1. f[at] = base[at]
        BY <1>5, <3>2 DEF Recurs
      <4> QED
        BY <3>1, <3>2, <4>1
    <3>3. CASE at \notin Stop
      <4>1. f[at] = step[<<at, f[pred[at]]>>] /\ f[pred[at]] \in D
        <5>1. pred[at] \in D
          BY <1>2, <3>3
        <5> HIDE DEF D, Stop, base, pred, step
        <5> QED
          BY <1>5, <3>3, <5>1 DEF Recurs
      <4>2. step[<<at, f[pred[at]]>>] = f[pred[at]]
        BY <4>1
      <4>3. pred[at] = IF json[at] = Backslash /\ at < Len(json) THEN at + 2 ELSE at + 1
        BY <1>2, <3>3
      <4> HIDE DEF step, pred
      <4> QED
        BY <3>1, <3>3, <4>1, <4>2, <4>3
    <3> QED
      BY <3>2, <3>3
  <2> DEFINE g == Turn(f)
  <2>2. g = [at \in D |-> g[at]]
    OBVIOUS
  <2> HIDE DEF g, D
  <2> QED
    BY <2>1, <2>2 DEF g
<1>7. ValueEnd(json, start) = end[start]
  BY Zenon DEF ValueEnd
<1>8. end = Turn(end)
  <2> HIDE DEF Turn
  <2> QED
    BY <1>6, Zenon
<1> HIDE DEF end
<1>9. \A at \in start..to : end[at] = IF json[at] = Quote THEN at
                                      ELSE IF json[at] = Backslash /\ at < Len(json) THEN end[at + 2]
                                      ELSE end[at + 1]
  <2>1. \A at \in start..to : at \in D /\ ~(at > Len(json))
    BY <1>1
  <2>2. \A at \in D : Turn(end)[at] = IF at > Len(json) \/ json[at] = Quote THEN at
                                      ELSE IF json[at] = Backslash /\ at < Len(json) THEN end[at + 2]
                                      ELSE end[at + 1]
    OBVIOUS
  <2> HIDE DEF D, Turn
  <2> QED
    BY <1>8, <2>1, <2>2
<1> DEFINE Good == {k \in Nat : k <= to - start => end[to - k] = to}
<1>10. 0 \in Good
  <2>1. to \in start..to /\ to - 0 = to
    OBVIOUS
  <2> QED
    BY <1>9, <2>1
<1>11. ASSUME NEW k \in Nat, k \in Good
       PROVE  k + 1 \in Good
  <2> SUFFICES ASSUME k + 1 <= to - start
               PROVE  end[to - (k + 1)] = to
    OBVIOUS
  <2> DEFINE at == to - (k + 1)
  <2>1. at \in start..(to - 1) /\ at \in start..to /\ at + 1 = to - k /\ k <= to - start
    OBVIOUS
  <2>2. end[at + 1] = to
    BY <1>11, <2>1
  <2>3. json[at] # Quote /\ json[at] # Backslash
    BY <2>1
  <2> HIDE DEF at
  <2>4. end[at] = to
    BY <1>9, <2>1, <2>2, <2>3
  <2> QED
    BY <2>4 DEF at
<1>12. Nat \subseteq Good
  <2> HIDE DEF Good
  <2> QED
    BY <1>10, <1>11, AllNumbers
<1>13. to - start \in Nat /\ to - start <= to - start /\ to - (to - start) = start
  OBVIOUS
<1>14. end[start] = to
  BY <1>12, <1>13
<1> QED
  BY <1>7, <1>14

\* The string behind the first name that is the key: with blanks before and after
\* the colon, and no quote or backslash in it.
FieldAt(json, key, name, colon, open, end) ==
  /\ name \in Nat \ {0} /\ colon \in Nat /\ open \in Nat /\ end \in Nat
  /\ name + 3 <= colon /\ colon < open /\ open < end /\ end <= Len(json)
  /\ json[name] = Quote /\ json[name + 1] = key /\ json[name + 2] = Quote
  /\ \A i \in 1..name : json[i] # key
  /\ \A i \in (name + 3)..(colon - 1) : json[i] # ":"
  /\ json[colon] = ":"
  /\ \A i \in (colon + 1)..(open - 1) : json[i] \in Space
  /\ json[open] = Quote
  /\ \A i \in (open + 1)..(end - 1) : json[i] # Quote /\ json[i] # Backslash
  /\ json[end] = Quote

\* json_get_string returns the string that stands there.
LEMMA FieldRead ==
  ASSUME NEW S, NEW json \in Seq(S), NEW key, NEW name, NEW colon, NEW open, NEW end,
         FieldAt(json, key, name, colon, open, end)
  PROVE  JsonGetString(json, key) = SubSeq(json, open + 1, end - 1)
<1>1. /\ name \in Nat \ {0} /\ colon \in Nat /\ open \in Nat /\ end \in Nat /\ Len(json) \in Nat
      /\ name + 3 <= colon /\ colon < open /\ open < end /\ end <= Len(json)
  BY DEF FieldAt
<1>2. Find(json, <<Quote, key, Quote>>, 1) = name
  <2> DEFINE s == <<Quote, key, Quote>>
             n == 3
             T == S \cup {Quote, key}
  <2>1. Len(s) = n /\ s[1] = Quote /\ s[2] = key /\ s[3] = Quote /\ s \in Seq(T)
    OBVIOUS
  <2>2. json \in Seq(T)
    OBVIOUS
  <2>3. ASSUME NEW i \in 1..(Len(json) - 2)
        PROVE  SubSeq(json, i, i + n - 1) = s <=>
                 json[i] = Quote /\ json[i + 1] = key /\ json[i + 2] = Quote
    <3> DEFINE last == i + n - 1
               part == SubSeq(json, i, last)
    <3>1. /\ i \in Nat \ {0} /\ last \in Nat /\ i <= last + 1 /\ last <= Len(json) /\ last - i + 1 = 3
          /\ i + 1 - 1 = i /\ i + 2 - 1 = i + 1 /\ i + 3 - 1 = i + 2
      BY <1>1
    <3> HIDE DEF last, s, n, T
    <3>2. /\ part \in Seq(T) /\ Len(part) = last - i + 1
          /\ \A j \in 1..(last - i + 1) : part[j] = json[i + j - 1]
      BY <2>2, <3>1, SubSeqIs
    <3> HIDE DEF part
    <3>3. Len(part) = 3 /\ part[1] = json[i] /\ part[2] = json[i + 1] /\ part[3] = json[i + 2]
      BY <3>1, <3>2
    <3>4. Len(s) = 3
      BY <2>1 DEF n
    <3>5. part = s <=> part[1] = s[1] /\ part[2] = s[2] /\ part[3] = s[3]
      <4>1. ASSUME part[1] = s[1], part[2] = s[2], part[3] = s[3]
            PROVE  part = s
        <5>1. \A j \in 1..Len(part) : part[j] = s[j]
          <6>1. \A j \in 1..3 : j = 1 \/ j = 2 \/ j = 3
            OBVIOUS
          <6> QED
            BY <3>3, <4>1, <6>1
        <5> QED
          BY <2>1, <3>2, <3>3, <3>4, <5>1, SeqEqual
      <4> QED
        BY <4>1
    <3> QED
      BY <2>1, <3>3, <3>5 DEF part, last
  <2>4. /\ name \in 1..(Len(json) - 2)
        /\ \A i \in 1..(name - 1) : i \in 1..(Len(json) - 2) /\ i + 1 \in 1..name
    BY <1>1
  <2>5. SubSeq(json, name, name + n - 1) = s
    <3>1. json[name] = Quote /\ json[name + 1] = key /\ json[name + 2] = Quote
      BY DEF FieldAt
    <3> HIDE DEF s, n
    <3> QED
      BY <2>3, <2>4, <3>1
  <2>6. \A i \in 1..(name - 1) : SubSeq(json, i, i + n - 1) # s
    <3>1. \A i \in 1..name : json[i] # key
      BY DEF FieldAt
    <3> HIDE DEF s, n
    <3> QED
      BY <2>3, <2>4, <3>1
  <2>7. Len(json) \in Nat /\ Len(s) \in Nat /\ 1 \in Nat /\ name \in Nat /\ 1 <= name
        /\ name <= Len(json) - Len(s) + 1
    <3> HIDE DEF s
    <3> QED
      BY <1>1, <2>1
  <2>8. SubSeq(json, name, name + Len(s) - 1) = s
        /\ \A i \in 1..(name - 1) : SubSeq(json, i, i + Len(s) - 1) # s
    <3> HIDE DEF s, n
    <3> QED
      BY <2>1, <2>5, <2>6
  <2> HIDE DEF s, n
  <2>9. Find(json, s, 1) = name
    BY <2>7, <2>8, FindAt
  <2> QED
    BY <2>9 DEF s
<1>3. Find(json, <<":">>, name + 3) = colon
  <2> DEFINE s == <<":">>
             from == name + 3
  <2>1. Len(s) = 1 /\ s[1] = ":"
    OBVIOUS
  <2>2. ASSUME NEW i \in 1..Len(json)
        PROVE  SubSeq(json, i, i + Len(s) - 1) = s <=> json[i] = ":"
    <3>1. i \in Nat \ {0} /\ i + Len(s) - 1 = i /\ i <= i + 1 /\ i <= Len(json) /\ i \in Nat
      BY <2>1
    <3> DEFINE part == SubSeq(json, i, i)
    <3>2. part = <<json[i]>>
      <4>1. part \in Seq(S) /\ Len(part) = i - i + 1 /\ \A j \in 1..(i - i + 1) : part[j] = json[i + j - 1]
        BY <3>1, SubSeqIs
      <4>2. i - i + 1 = 1 /\ i + 1 - 1 = i /\ json[i] \in S
        BY <3>1
      <4> HIDE DEF part
      <4>3. Len(part) = 1 /\ part[1] = json[i]
        BY <4>1, <4>2
      <4>4. <<json[i]>> \in Seq(S) /\ Len(<<json[i]>>) = 1 /\ <<json[i]>>[1] = json[i]
        BY <4>2
      <4>5. \A j \in 1..Len(part) : part[j] = <<json[i]>>[j]
        BY <4>3, <4>4
      <4> QED
        BY <4>1, <4>3, <4>4, <4>5, SeqEqual
    <3>3. part = s <=> json[i] = ":"
      BY <3>2
    <3> HIDE DEF s
    <3> QED
      BY <3>1, <3>3
  <2>3. /\ Len(json) \in Nat /\ Len(s) \in Nat /\ from \in Nat /\ colon \in Nat /\ from <= colon
        /\ colon <= Len(json) - Len(s) + 1 /\ colon \in 1..Len(json)
        /\ \A j \in from..(colon - 1) : j \in 1..Len(json)
    <3> HIDE DEF s
    <3> QED
      BY <1>1, <2>1
  <2>4. json[colon] = ":" /\ \A j \in from..(colon - 1) : json[j] # ":"
    BY DEF FieldAt
  <2> HIDE DEF s, from
  <2>5. SubSeq(json, colon, colon + Len(s) - 1) = s
        /\ \A j \in from..(colon - 1) : SubSeq(json, j, j + Len(s) - 1) # s
    BY <2>2, <2>3, <2>4
  <2>6. Find(json, s, from) = colon
    BY <2>3, <2>5, FindAt
  <2> QED
    BY <2>6 DEF s, from
<1>4. SelectInSubSeq(json, colon + 1, Len(json), LAMBDA c : c \notin Space) = open
  <2> DEFINE found == {i \in (colon + 1)..Len(json) : json[i] \notin Space}
  <2>1. SelectInSubSeq(json, colon + 1, Len(json), LAMBDA c : c \notin Space) =
          IF found # {} THEN Min(found) ELSE 0
    BY DEF SelectInSubSeq
  <2>2. open \in found
    <3>1. json[open] = Quote /\ Quote \notin Space
      BY Zenon DEF FieldAt, Quote, Space
    <3> QED
      BY <1>1, <3>1
  <2>3. \A i \in found : open <= i
    <3>1. \A i \in (colon + 1)..(open - 1) : json[i] \in Space
      BY DEF FieldAt
    <3> QED
      BY <1>1, <3>1
  <2>4. found \in SUBSET Int
    BY <1>1
  <2> HIDE DEF found
  <2>5. Min(found) = open
    BY <2>2, <2>3, <2>4, MinIs
  <2> QED
    BY <2>1, <2>2, <2>5
<1>5. ValueEnd(json, open + 1) = end
  <2> DEFINE start == open + 1
  <2>1. start \in Nat \ {0} /\ end \in start..Len(json)
    BY <1>1
  <2>2. json[end] = Quote /\ \A i \in start..(end - 1) : json[i] # Quote /\ json[i] # Backslash
    BY DEF FieldAt
  <2> HIDE DEF start
  <2>3. ValueEnd(json, start) = end
    BY <2>1, <2>2, ValueEndIs
  <2> QED
    BY <2>3 DEF start
<1>6. json[open] = Quote /\ ~(end > Len(json)) /\ name # 0 /\ colon # 0 /\ open # 0
  BY <1>1 DEF FieldAt
<1>7. JsonColon(json, name + 3) = colon
  BY <1>3 DEF JsonColon
<1> QED
  BY <1>2, <1>4, <1>5, <1>6, <1>7, Zenon DEF JsonGetString

\* The text of a field: its name, its value and the blanks around the colon.
Field(key, blank, value) ==
  <<Quote, key, Quote>> \o blank \o <<":">> \o blank \o <<Quote>> \o value \o <<Quote>>

\* A text with another one behind it
Appended(S, s, t, both) ==
  /\ both \in Seq(S) /\ Len(both) = Len(s) + Len(t)
  /\ \A i \in 1..Len(s) : both[i] = s[i]
  /\ \A i \in 1..Len(t) : both[Len(s) + i] = t[i]

\* That is what \o makes.
LEMMA Behind ==
  ASSUME NEW S, NEW s \in Seq(S), NEW t \in Seq(S)
  PROVE  Appended(S, s, t, s \o t)
<1> DEFINE both == s \o t
<1>1. Len(s) \in Nat /\ Len(t) \in Nat
  OBVIOUS
<1>2. /\ both \in Seq(S) /\ Len(both) = Len(s) + Len(t)
      /\ \A i \in 1..(Len(s) + Len(t)) : both[i] = IF i <= Len(s) THEN s[i] ELSE t[i - Len(s)]
  BY ConcatProperties
<1> HIDE DEF both
<1>3. \A i \in 1..Len(s) : both[i] = s[i]
  BY <1>1, <1>2
<1>4. ASSUME NEW i \in 1..Len(t)
      PROVE  both[Len(s) + i] = t[i]
  <2>1. Len(s) + i \in 1..(Len(s) + Len(t)) /\ ~(Len(s) + i <= Len(s)) /\ Len(s) + i - Len(s) = i
    BY <1>1
  <2> QED
    BY <1>2, <2>1
<1> QED
  BY <1>1, <1>2, <1>3, <1>4 DEF both, Appended

\* Where the parts of a field stand.
FieldParts(f, key, blank, value, b, v) ==
  /\ Len(f) = 6 + 2 * b + v
  /\ f[1] = Quote /\ f[2] = key /\ f[3] = Quote
  /\ \A i \in 1..b : f[3 + i] = blank[i]
  /\ f[4 + b] = ":"
  /\ \A i \in 1..b : f[4 + b + i] = blank[i]
  /\ f[5 + 2 * b] = Quote
  /\ \A i \in 1..v : f[5 + 2 * b + i] = value[i]
  /\ f[6 + 2 * b + v] = Quote

\* A field consists of those parts, in that order.
LEMMA FieldIs ==
  ASSUME NEW S, NEW key \in S, Quote \in S, ":" \in S, NEW blank \in Seq(S), NEW value \in Seq(S)
  PROVE  /\ Field(key, blank, value) \in Seq(S)
         /\ FieldParts(Field(key, blank, value), key, blank, value, Len(blank), Len(value))
<1> DEFINE name  == <<Quote, key, Quote>>
           colon == <<":">>
           quote == <<Quote>>
           f1    == name \o blank
           f2    == f1 \o colon
           f3    == f2 \o blank
           f4    == f3 \o quote
           f5    == f4 \o value
           f6    == f5 \o quote
           b     == Len(blank)
           v     == Len(value)
<1>1. Field(key, blank, value) = f6
  BY DEF Field
<1>2. /\ name \in Seq(S) /\ Len(name) = 3 /\ name[1] = Quote /\ name[2] = key /\ name[3] = Quote
      /\ colon \in Seq(S) /\ Len(colon) = 1 /\ colon[1] = ":"
      /\ quote \in Seq(S) /\ Len(quote) = 1 /\ quote[1] = Quote
  OBVIOUS
<1>3. b \in Nat /\ v \in Nat
  OBVIOUS
<1> HIDE DEF name, colon, quote
<1>4. /\ f1 \in Seq(S) /\ Len(f1) = 3 + b
      /\ f1[1] = Quote /\ f1[2] = key /\ f1[3] = Quote
      /\ \A i \in 1..b : f1[3 + i] = blank[i]
  <2>1. Appended(S, name, blank, f1)
    BY <1>2, Behind
  <2> HIDE DEF f1
  <2> QED
    BY <1>2, <1>3, <2>1 DEF Appended
<1> HIDE DEF f1
<1>5. /\ f2 \in Seq(S) /\ Len(f2) = 4 + b
      /\ \A i \in 1..(3 + b) : f2[i] = f1[i]
      /\ f2[4 + b] = ":"
  <2>1. Appended(S, f1, colon, f2)
    BY <1>2, <1>4, Behind
  <2> HIDE DEF f2
  <2>2. 3 + b + 1 = 4 + b
    BY <1>3
  <2> QED
    BY <1>2, <1>3, <1>4, <2>1, <2>2 DEF Appended
<1> HIDE DEF f2
<1>6. /\ f3 \in Seq(S) /\ Len(f3) = 4 + 2 * b
      /\ \A i \in 1..(4 + b) : f3[i] = f2[i]
      /\ \A i \in 1..b : f3[4 + b + i] = blank[i]
  <2>1. Appended(S, f2, blank, f3)
    BY <1>5, Behind
  <2> HIDE DEF f3
  <2>2. 4 + b + b = 4 + 2 * b
    BY <1>3
  <2> QED
    BY <1>3, <1>5, <2>1, <2>2 DEF Appended
<1> HIDE DEF f3
<1>7. /\ f4 \in Seq(S) /\ Len(f4) = 5 + 2 * b
      /\ \A i \in 1..(4 + 2 * b) : f4[i] = f3[i]
      /\ f4[5 + 2 * b] = Quote
  <2>1. Appended(S, f3, quote, f4)
    BY <1>2, <1>6, Behind
  <2> HIDE DEF f4
  <2>2. 4 + 2 * b + 1 = 5 + 2 * b
    BY <1>3
  <2> QED
    BY <1>2, <1>3, <1>6, <2>1, <2>2 DEF Appended
<1> HIDE DEF f4
<1>8. /\ f5 \in Seq(S) /\ Len(f5) = 5 + 2 * b + v
      /\ \A i \in 1..(5 + 2 * b) : f5[i] = f4[i]
      /\ \A i \in 1..v : f5[5 + 2 * b + i] = value[i]
  <2>1. Appended(S, f4, value, f5)
    BY <1>7, Behind
  <2> HIDE DEF f5
  <2> QED
    BY <1>3, <1>7, <2>1 DEF Appended
<1> HIDE DEF f5
<1>9. /\ f6 \in Seq(S) /\ Len(f6) = 6 + 2 * b + v
      /\ \A i \in 1..(5 + 2 * b + v) : f6[i] = f5[i]
      /\ f6[6 + 2 * b + v] = Quote
  <2>1. Appended(S, f5, quote, f6)
    BY <1>2, <1>8, Behind
  <2> HIDE DEF f6
  <2>2. 5 + 2 * b + v + 1 = 6 + 2 * b + v
    BY <1>3
  <2> QED
    BY <1>2, <1>3, <1>8, <2>1, <2>2 DEF Appended
<1> HIDE DEF f6, b, v
<1>10. \A i \in 1..(4 + b) : f6[i] = f2[i]
  <2>1. \A i \in 1..(4 + b) : i \in 1..(4 + 2 * b) /\ i \in 1..(5 + 2 * b) /\ i \in 1..(5 + 2 * b + v)
    BY <1>3
  <2> QED
    BY <1>6, <1>7, <1>8, <1>9, <2>1
<1>11. f6[1] = Quote /\ f6[2] = key /\ f6[3] = Quote /\ \A i \in 1..b : f6[3 + i] = blank[i]
  <2>1. /\ \A i \in 1..(3 + b) : i \in 1..(4 + b)
        /\ 1 \in 1..(3 + b) /\ 2 \in 1..(3 + b) /\ 3 \in 1..(3 + b)
        /\ \A i \in 1..b : 3 + i \in 1..(3 + b)
    BY <1>3
  <2>2. \A i \in 1..(3 + b) : f6[i] = f1[i]
    BY <1>5, <1>10, <2>1
  <2> QED
    BY <1>4, <2>1, <2>2
<1>12. f6[4 + b] = ":"
  <2>1. 4 + b \in 1..(4 + b)
    BY <1>3
  <2> QED
    BY <1>5, <1>10, <2>1
<1>13. \A i \in 1..b : f6[4 + b + i] = blank[i]
  <2>1. \A i \in 1..b : /\ 4 + b + i \in 1..(4 + 2 * b) /\ 4 + b + i \in 1..(5 + 2 * b)
                        /\ 4 + b + i \in 1..(5 + 2 * b + v)
    BY <1>3
  <2> QED
    BY <1>6, <1>7, <1>8, <1>9, <2>1
<1>14. f6[5 + 2 * b] = Quote
  <2>1. 5 + 2 * b \in 1..(5 + 2 * b) /\ 5 + 2 * b \in 1..(5 + 2 * b + v)
    BY <1>3
  <2> QED
    BY <1>7, <1>8, <1>9, <2>1
<1>15. \A i \in 1..v : f6[5 + 2 * b + i] = value[i]
  <2>1. \A i \in 1..v : 5 + 2 * b + i \in 1..(5 + 2 * b + v)
    BY <1>3
  <2> QED
    BY <1>8, <1>9, <2>1
<1>16. FieldParts(f6, key, blank, value, b, v)
  BY <1>9, <1>11, <1>12, <1>13, <1>14, <1>15 DEF FieldParts
<1> QED
  BY <1>1, <1>9, <1>16 DEF b, v

\* A text begins with another
Begins(text, start) ==
  /\ Len(start) \in Nat /\ Len(text) \in Nat /\ Len(start) <= Len(text)
  /\ \A i \in 1..Len(start) : text[i] = start[i]

\* It goes on doing so when more is put behind it.
LEMMA BeginsLonger ==
  ASSUME NEW S, NEW text \in Seq(S), NEW more \in Seq(S), NEW start, Begins(text, start)
  PROVE  text \o more \in Seq(S) /\ Begins(text \o more, start)
<1> DEFINE both == text \o more
<1>1. Appended(S, text, more, both)
  BY Behind
<1>2. Len(text) \in Nat /\ Len(more) \in Nat
  OBVIOUS
<1> HIDE DEF both
<1>3. both \in Seq(S) /\ Len(both) \in Nat /\ Len(text) <= Len(both)
  BY <1>1, <1>2 DEF Appended
<1>4. Begins(both, start)
  BY <1>1, <1>2, <1>3 DEF Begins, Appended
<1> QED
  BY <1>3, <1>4 DEF both

\* The value of the first field of a name is read, with no blank lost or added.
LEMMA ValueRead ==
  ASSUME NEW S, NEW json \in Seq(S), NEW pre \in Seq(S), NEW key \in S, key # Quote,
         Quote \in S, ":" \in S, ":" # Quote, \A i \in 1..Len(pre) : pre[i] # key,
         NEW blank \in Seq(S), \A i \in 1..Len(blank) : blank[i] \in Space /\ blank[i] # ":",
         NEW value \in Seq(S), \A i \in 1..Len(value) : value[i] # Quote /\ value[i] # Backslash,
         Begins(json, pre \o Field(key, blank, value))
  PROVE  JsonGetString(json, key) = value
<1> DEFINE f     == Field(key, blank, value)
           start == pre \o f
           p     == Len(pre)
           b     == Len(blank)
           v     == Len(value)
           name  == p + 1
           colon == p + 4 + b
           open  == p + 5 + 2 * b
           end   == p + 6 + 2 * b + v
<1>1. p \in Nat /\ b \in Nat /\ v \in Nat
  OBVIOUS
<1>2. /\ f \in Seq(S) /\ Len(f) = 6 + 2 * b + v
      /\ f[1] = Quote /\ f[2] = key /\ f[3] = Quote
      /\ \A i \in 1..b : f[3 + i] = blank[i]
      /\ f[4 + b] = ":"
      /\ \A i \in 1..b : f[4 + b + i] = blank[i]
      /\ f[5 + 2 * b] = Quote
      /\ \A i \in 1..v : f[5 + 2 * b + i] = value[i]
      /\ f[6 + 2 * b + v] = Quote
  <2>1. f \in Seq(S) /\ FieldParts(f, key, blank, value, b, v)
    BY FieldIs
  <2> QED
    BY <2>1 DEF FieldParts
<1> HIDE DEF f
<1>3. Appended(S, pre, f, start)
  BY <1>2, Behind
<1>4. Begins(json, start)
  BY DEF f
<1> HIDE DEF start
<1>5. /\ end <= Len(json) /\ Len(json) \in Nat
      /\ \A i \in 1..p : json[i] = pre[i]
      /\ \A i \in 1..Len(f) : json[p + i] = f[i]
  <2>1. Len(start) = p + Len(f) /\ Len(start) <= Len(json) /\ Len(json) \in Nat /\ Len(start) = end
    BY <1>1, <1>2, <1>3, <1>4 DEF Appended, Begins
  <2>2. \A i \in 1..p : json[i] = pre[i]
    <3>1. \A i \in 1..p : i \in 1..Len(start)
      BY <1>1, <1>2, <2>1
    <3> QED
      BY <1>3, <1>4, <3>1 DEF Appended, Begins
  <2>3. \A i \in 1..Len(f) : json[p + i] = f[i]
    <3>1. \A i \in 1..Len(f) : p + i \in 1..Len(start)
      BY <1>1, <1>2, <2>1
    <3> QED
      BY <1>3, <1>4, <3>1 DEF Appended, Begins
  <2> QED
    BY <2>1, <2>2, <2>3
<1>6. \A i \in 1..p : json[i] # key
  BY <1>5
<1>7. \A i \in 1..b : blank[i] \in Space /\ blank[i] # ":"
  OBVIOUS
<1>8. \A i \in 1..v : value[i] # Quote /\ value[i] # Backslash
  OBVIOUS
<1> DEFINE at(i) == p + i
<1>9. \A i \in 1..(6 + 2 * b + v) : json[at(i)] = f[i]
  BY <1>2, <1>5
<1> HIDE DEF p, b, v
<1>10. /\ json[name] = Quote /\ json[name + 1] = key /\ json[name + 2] = Quote
       /\ json[colon] = ":" /\ json[open] = Quote /\ json[end] = Quote
  <2>1. /\ 1 \in 1..(6 + 2 * b + v) /\ 2 \in 1..(6 + 2 * b + v) /\ 3 \in 1..(6 + 2 * b + v)
        /\ 4 + b \in 1..(6 + 2 * b + v) /\ 5 + 2 * b \in 1..(6 + 2 * b + v)
        /\ 6 + 2 * b + v \in 1..(6 + 2 * b + v)
        /\ at(1) = name /\ at(2) = name + 1 /\ at(3) = name + 2 /\ at(4 + b) = colon
        /\ at(5 + 2 * b) = open /\ at(6 + 2 * b + v) = end
    BY <1>1
  <2>2. /\ json[at(1)] = Quote /\ json[at(2)] = key /\ json[at(3)] = Quote
        /\ json[at(4 + b)] = ":" /\ json[at(5 + 2 * b)] = Quote /\ json[at(6 + 2 * b + v)] = Quote
    <3> HIDE DEF at
    <3> QED
      BY <1>2, <1>9, <2>1
  <2> HIDE DEF at, name, colon, open, end
  <2> QED
    BY <2>1, <2>2
<1>11. /\ \A i \in (name + 3)..(colon - 1) : json[i] # ":"
       /\ \A i \in (colon + 1)..(open - 1) : json[i] \in Space
       /\ \A i \in (open + 1)..(end - 1) : json[i] # Quote /\ json[i] # Backslash
  <2>1. ASSUME NEW i \in (name + 3)..(colon - 1)
        PROVE  json[i] # ":"
    <3> DEFINE n == i - p - 3
    <3>1. n \in 1..b /\ 3 + n \in 1..(6 + 2 * b + v) /\ at(3 + n) = i
      BY <1>1
    <3> HIDE DEF n, at
    <3> QED
      BY <1>2, <1>7, <1>9, <3>1
  <2>2. ASSUME NEW i \in (colon + 1)..(open - 1)
        PROVE  json[i] \in Space
    <3> DEFINE n == i - p - 4 - b
    <3>1. n \in 1..b /\ 4 + b + n \in 1..(6 + 2 * b + v) /\ at(4 + b + n) = i
      BY <1>1
    <3> HIDE DEF n, at
    <3> QED
      BY <1>2, <1>7, <1>9, <3>1
  <2>3. ASSUME NEW i \in (open + 1)..(end - 1)
        PROVE  json[i] # Quote /\ json[i] # Backslash
    <3> DEFINE n == i - p - 5 - 2 * b
    <3>1. n \in 1..v /\ 5 + 2 * b + n \in 1..(6 + 2 * b + v) /\ at(5 + 2 * b + n) = i
      BY <1>1
    <3> HIDE DEF n, at
    <3> QED
      BY <1>2, <1>8, <1>9, <3>1
  <2> HIDE DEF name, colon, open, end
  <2> QED
    BY <2>1, <2>2, <2>3
<1>12. FieldAt(json, key, name, colon, open, end)
  <2>1. /\ name \in Nat \ {0} /\ colon \in Nat /\ open \in Nat /\ end \in Nat
        /\ name + 3 <= colon /\ colon < open /\ open < end
        /\ \A i \in 1..name : i \in 1..p \/ i = name
    BY <1>1
  <2> HIDE DEF name, colon, open, end
  <2>2. \A i \in 1..name : json[i] # key
    BY <1>6, <1>10, <2>1
  <2> QED
    BY <1>5, <1>10, <1>11, <2>1, <2>2 DEF FieldAt
<1>13. JsonGetString(json, key) = SubSeq(json, open + 1, end - 1)
  <2> HIDE DEF open, end, name, colon
  <2> QED
    BY <1>12, FieldRead
<1>14. SubSeq(json, open + 1, end - 1) = value
  <2> DEFINE from == open + 1
             to   == end - 1
             part == SubSeq(json, from, to)
  <2>1. /\ from \in Nat \ {0} /\ to \in Nat /\ from <= to + 1 /\ to <= Len(json) /\ to - from + 1 = v
        /\ \A i \in 1..v : from + i - 1 = at(5 + 2 * b + i) /\ 5 + 2 * b + i \in 1..(6 + 2 * b + v)
    BY <1>1, <1>5
  <2> HIDE DEF from, to, at
  <2>2. /\ part \in Seq(S) /\ Len(part) = to - from + 1
        /\ \A i \in 1..(to - from + 1) : part[i] = json[from + i - 1]
    BY <2>1, SubSeqIs
  <2> HIDE DEF part
  <2>3. Len(part) = Len(value) /\ \A i \in 1..Len(part) : part[i] = value[i]
    <3>1. ASSUME NEW i \in 1..v
          PROVE  part[i] = value[i]
      <4>1. part[i] = json[from + i - 1] /\ from + i - 1 = at(5 + 2 * b + i)
        BY <2>1, <2>2
      <4>2. json[at(5 + 2 * b + i)] = f[5 + 2 * b + i] /\ f[5 + 2 * b + i] = value[i]
        BY <1>2, <1>9, <2>1
      <4> QED
        BY <4>1, <4>2
    <3> QED
      BY <2>1, <2>2, <3>1 DEF v
  <2>4. part = value
    BY <2>2, <2>3, SeqEqual
  <2> QED
    BY <2>4 DEF part, from, to
<1> QED
  BY <1>13, <1>14

\* Base64 has no character that JSON writes otherwise.
LEMMA CharsArePlain == \A c \in Chars : c \notin {Quote, Backslash, "null", "Signature"}
<1>1. \A i \in 1..64 : Alphabet[i] \notin {"quote", "backslash", "null", "Signature"}
  BY SMTT(60) DEF Alphabet
<1>2. DOMAIN Alphabet = 1..64
  BY AlphabetIs
<1>3. Pad \notin {"quote", "backslash", "null", "Signature"}
  BY DEF Pad
<1>4. ASSUME NEW c \in Range(Alphabet)
      PROVE  c \notin {"quote", "backslash", "null", "Signature"}
  <2>1. PICK i \in 1..64 : c = Alphabet[i]
    BY <1>2 DEF Range
  <2> QED
    BY <1>1, <2>1
<1> QED
  BY <1>3, <1>4 DEF Chars, Quote, Backslash

\* nr_kms_sign_sha256_digest takes from KMS's answer the bytes that KMS signed with,
\* however many they are: whatever stands before the field and behind it, and with any
\* blanks around its colon.  No other text before the field may be its name.
THEOREM SignatureIsRead ==
  ASSUME NEW S, NEW json \in Seq(S), NEW pre \in Seq(S), \A i \in 1..Len(pre) : pre[i] # "Signature",
         NEW blank \in Seq(Space), NEW data \in Seq(Byte), data # <<>>,
         Begins(json, pre \o Field("Signature", blank, Base64Encode(data)))
  PROVE  SignResponse(json) = data
<1> DEFINE value == EncodeBlock(data)
           T     == S \cup Space \cup Chars \cup {Quote, ":", "Signature"}
<1>1. value \in Seq(Chars) /\ Base64Encode(data) = value
  BY EncodedIs DEF Base64Encode
<1>2. value # <<"null">>
  <2>1. <<"null">>[1] = "null" /\ Len(<<"null">>) = 1
    OBVIOUS
  <2>2. value = <<"null">> => value[1] \in Chars
    <3> HIDE DEF value
    <3> QED
      BY <1>1, <2>1
  <2> HIDE DEF value
  <2> QED
    BY <2>1, <2>2, CharsArePlain
<1> HIDE DEF value
<1>3. \A i \in 1..Len(value) : value[i] # Quote /\ value[i] # Backslash
  <2>1. \A i \in 1..Len(value) : value[i] \in Chars
    BY <1>1
  <2> QED
    BY <2>1, CharsArePlain
<1>4. \A i \in 1..Len(blank) : blank[i] \in Space /\ blank[i] # ":"
  <2>1. ":" \notin Space
    BY DEF Space
  <2> QED
    BY <2>1
<1>5. /\ S \subseteq T /\ Space \subseteq T /\ Chars \subseteq T
      /\ Quote \in T /\ ":" \in T /\ "Signature" \in T
  OBVIOUS
<1> HIDE DEF T
<1>6. json \in Seq(T) /\ pre \in Seq(T) /\ blank \in Seq(T) /\ value \in Seq(T)
  BY <1>1, <1>5, SeqMonotonic
<1>7. "Signature" # Quote /\ ":" # Quote
  BY DEF Quote
<1>8. JsonGetString(json, "Signature") = value
  <2>1. Begins(json, pre \o Field("Signature", blank, value))
    BY <1>1
  <2> DEFINE key == "Signature"
  <2>2. key \in T /\ key # Quote /\ \A i \in 1..Len(pre) : pre[i] # key
    BY <1>5, <1>7
  <2>3. Begins(json, pre \o Field(key, blank, value))
    BY <2>1
  <2> HIDE DEF key
  <2>4. JsonGetString(json, key) = value
    BY <1>3, <1>4, <1>5, <1>6, <1>7, <2>2, <2>3, ValueRead
  <2> QED
    BY <2>4 DEF key
<1>9. SignResponse(json) = Base64Decode(value)
  BY <1>2, <1>8 DEF SignResponse, NoString
<1> QED
  BY <1>1, <1>9, Base64RoundTrip

\* Texts of S put together are a text of S.
LEMMA ConcatIn ==
  ASSUME NEW S, NEW s \in Seq(S), NEW t \in Seq(S)
  PROVE  s \o t \in Seq(S)
BY ConcatProperties

\* Wherever the field is in the answer, it is the first that could be it.
LEMMA AnswerRead ==
  ASSUME NEW order \in SetToSeqs({"KeyId", "Signature", "SigningAlgorithm"}), NEW blank \in Seq(Space),
         NEW data \in Seq(Byte), data # <<>>
  PROVE  SignResponse(Answer(order, blank,
           [KeyId |-> <<"a", ":", "a">>, Signature |-> EncodeBlock(data),
            SigningAlgorithm |-> <<"E">>])) = data
<1> DEFINE value == [KeyId |-> <<"a", ":", "a">>, Signature |-> EncodeBlock(data),
                     SigningAlgorithm |-> <<"E">>]
           names == {"KeyId", "Signature", "SigningAlgorithm"}
           other == {"KeyId", "SigningAlgorithm"}
           S     == Space \cup other \cup {Quote, ":", ",", "{", "}", "a", "E"}
           T     == S \cup Chars \cup {"Signature"}
           f(name) == Field(name, blank, value[name])
           a0    == <<"{">>
           a1    == a0 \o f(order[1])
           a2    == a1 \o <<",">>
           a3    == a2 \o blank
           a4    == a3 \o f(order[2])
           a5    == a4 \o <<",">>
           a6    == a5 \o f(order[3])
           a7    == a6 \o blank
           a8    == a7 \o <<"}">>
<1>1. Answer(order, blank, value) = a8
  BY Zenon DEF Answer, Field
<1>2. /\ order[1] \in names /\ order[2] \in names /\ order[3] \in names
      /\ order[1] # order[2] /\ order[1] # order[3] /\ order[2] # order[3]
  <2>1. Cardinality(names) = 3
    <3>1. IsFiniteSet({}) /\ Cardinality({}) = 0
      BY FS_EmptySet
    <3> DEFINE one == {"KeyId"}
               two == {"KeyId", "Signature"}
    <3>2. IsFiniteSet(one) /\ Cardinality(one) = 1
      BY FS_Singleton
    <3>3. IsFiniteSet(two) /\ Cardinality(two) = 2
      <4>1. two = one \cup {"Signature"} /\ "Signature" \notin one
        OBVIOUS
      <4> HIDE DEF one, two
      <4>2. Cardinality(one \cup {"Signature"}) = Cardinality(one) + 1 /\ IsFiniteSet(one \cup {"Signature"})
        BY <3>2, <4>1, FS_AddElement
      <4> QED
        BY <3>2, <4>1, <4>2
    <3>4. names = two \cup {"SigningAlgorithm"} /\ "SigningAlgorithm" \notin two
      OBVIOUS
    <3> HIDE DEF two, names
    <3>5. Cardinality(two \cup {"SigningAlgorithm"}) = Cardinality(two) + 1
      BY <3>3, <3>4, FS_AddElement
    <3> QED
      BY <3>3, <3>4, <3>5
  <2> HIDE DEF names
  <2>2. order \in [1..3 -> names] /\ \A i, j \in 1..3 : i # j => order[i] # order[j]
    BY <2>1 DEF SetToSeqs, names
  <2> QED
    BY <2>2
<1>3. \A name \in names : name = "Signature" \/ name \in other
  OBVIOUS
<1>4. /\ Space \subseteq S /\ S \subseteq T /\ Chars \subseteq T /\ other \subseteq S
      /\ Quote \in S /\ ":" \in S /\ "{" \in S /\ "," \in S /\ "}" \in S /\ "Signature" \in T
      /\ <<",">> \in Seq(S) /\ <<"}">> \in Seq(S) /\ a0 \in Seq(S)
      /\ \A name \in other : value[name] \in Seq(S)
  <2>1. /\ Space \subseteq S /\ S \subseteq T /\ Chars \subseteq T /\ other \subseteq S
        /\ Quote \in S /\ ":" \in S /\ "{" \in S /\ "," \in S /\ "}" \in S /\ "Signature" \in T
        /\ "a" \in S /\ "E" \in S
    OBVIOUS
  <2> HIDE DEF S, T, other
  <2>2. /\ <<",">> \in Seq(S) /\ <<"}">> \in Seq(S) /\ a0 \in Seq(S)
        /\ <<"a", ":", "a">> \in Seq(S) /\ <<"E">> \in Seq(S)
    <3> HIDE DEF value
    <3>1. \A c \in S : <<c>> \in Seq(S)
      OBVIOUS
    <3>2. \A c, d \in S : <<c, d, c>> \in Seq(S)
      OBVIOUS
    <3> QED
      BY <2>1, <3>1, <3>2
  <2>3. value["KeyId"] = <<"a", ":", "a">> /\ value["SigningAlgorithm"] = <<"E">>
    OBVIOUS
  <2>4. \A name \in other : value[name] \in Seq(S)
    <3>1. \A name \in other : name = "KeyId" \/ name = "SigningAlgorithm"
      BY DEF other
    <3> HIDE DEF value
    <3> QED
      BY <2>2, <2>3, <3>1
  <2> QED
    BY <2>1, <2>2, <2>4
<1>5. "Signature" \notin S
  BY DEF Space, Quote
<1>6. value["Signature"] = EncodeBlock(data) /\ EncodeBlock(data) \in Seq(Chars)
  BY EncodedIs
<1> HIDE DEF value, S, T, other, names
<1>7. blank \in Seq(S)
  BY <1>4, SeqMonotonic
<1>8. \A name \in other : f(name) \in Seq(S)
  <2> TAKE name \in other
  <2> DEFINE v == value[name]
  <2>1. v \in Seq(S) /\ name \in S
    BY <1>4
  <2> HIDE DEF v
  <2>2. Field(name, blank, v) \in Seq(S)
    BY <1>4, <1>7, <2>1, FieldIs
  <2> QED
    BY <2>2 DEF v
<1>9. \A name \in names : f(name) \in Seq(T)
  <2> TAKE name \in names
  <2>1. CASE name \in other
    BY <1>4, <1>8, <2>1, SeqMonotonic
  <2>2. CASE name = "Signature"
    <3> DEFINE v   == value["Signature"]
               key == "Signature"
    <3>1. v \in Seq(T) /\ key \in T /\ blank \in Seq(T) /\ Quote \in T /\ ":" \in T
      BY <1>4, <1>6, <1>7, SeqMonotonic
    <3> HIDE DEF v, key
    <3>2. Field(key, blank, v) \in Seq(T)
      BY <3>1, FieldIs
    <3> QED
      BY <2>2, <3>2 DEF v, key
  <2> QED
    BY <1>3, <2>1, <2>2
<1>10. blank \in Seq(T) /\ <<",">> \in Seq(T) /\ <<"}">> \in Seq(T) /\ a0 \in Seq(T)
  BY <1>4, <1>7, SeqMonotonic
<1>11. \A t \in Seq(S) : \A i \in 1..Len(t) : t[i] # "Signature"
  BY <1>5
<1>12. ASSUME NEW n \in 1..3, order[n] = "Signature"
       PROVE  f(order[n]) = Field("Signature", blank, Base64Encode(data))
  BY <1>6, <1>12 DEF Base64Encode
<1> HIDE DEF f, a0
<1>13. /\ a1 \in Seq(T) /\ a2 \in Seq(T) /\ a3 \in Seq(T) /\ a4 \in Seq(T)
       /\ a5 \in Seq(T) /\ a6 \in Seq(T) /\ a7 \in Seq(T) /\ a8 \in Seq(T)
  <2>1. a1 \in Seq(T)
    BY <1>2, <1>9, <1>10, ConcatIn
  <2> HIDE DEF a1
  <2>2. a2 \in Seq(T)
    BY <1>10, <2>1, ConcatIn
  <2> HIDE DEF a2
  <2>3. a3 \in Seq(T)
    BY <1>10, <2>2, ConcatIn
  <2> HIDE DEF a3
  <2>4. a4 \in Seq(T)
    BY <1>2, <1>9, <2>3, ConcatIn
  <2> HIDE DEF a4
  <2>5. a5 \in Seq(T)
    BY <1>10, <2>4, ConcatIn
  <2> HIDE DEF a5
  <2>6. a6 \in Seq(T)
    BY <1>2, <1>9, <2>5, ConcatIn
  <2> HIDE DEF a6
  <2>7. a7 \in Seq(T)
    BY <1>10, <2>6, ConcatIn
  <2> HIDE DEF a7
  <2>8. a8 \in Seq(T)
    BY <1>10, <2>7, ConcatIn
  <2> HIDE DEF a8
  <2> QED
    BY <2>1, <2>2, <2>3, <2>4, <2>5, <2>6, <2>7, <2>8
<1>14. \A text \in Seq(T) : Begins(text, text)
  BY DEF Begins
<1> DEFINE Read(pre, n) == pre \in Seq(S) /\ order[n] = "Signature" /\ Begins(a8, pre \o f(order[n]))
<1>15. ASSUME NEW n \in 1..3, NEW pre, Read(pre, n)
       PROVE  SignResponse(a8) = data
  <2>1. pre \in Seq(T) /\ \A i \in 1..Len(pre) : pre[i] # "Signature"
    BY <1>4, <1>11, <1>15, SeqMonotonic
  <2>2. Begins(a8, pre \o Field("Signature", blank, Base64Encode(data)))
    BY <1>12, <1>15
  <2> HIDE DEF a8
  <2> QED
    BY <1>13, <2>1, <2>2, SignatureIsRead
<1>16. ASSUME order[1] = "Signature"
      PROVE  SignResponse(a8) = data
  <2> HIDE DEF a1
  <2>1. Begins(a2, a1)
    BY <1>10, <1>13, <1>14, BeginsLonger
  <2> HIDE DEF a2
  <2>2. Begins(a3, a1)
    BY <1>10, <1>13, <2>1, BeginsLonger
  <2> HIDE DEF a3
  <2>3. Begins(a4, a1)
    BY <1>2, <1>9, <1>13, <2>2, BeginsLonger
  <2> HIDE DEF a4
  <2>4. Begins(a5, a1)
    BY <1>10, <1>13, <2>3, BeginsLonger
  <2> HIDE DEF a5
  <2>5. Begins(a6, a1)
    BY <1>2, <1>9, <1>13, <2>4, BeginsLonger
  <2> HIDE DEF a6
  <2>6. Begins(a7, a1)
    BY <1>10, <1>13, <2>5, BeginsLonger
  <2> HIDE DEF a7
  <2>7. Begins(a8, a1)
    BY <1>10, <1>13, <2>6, BeginsLonger
  <2>8. Read(a0, 1)
    <3> HIDE DEF a8
    <3> QED
      BY <1>4, <1>16, <2>7 DEF a1
  <2> HIDE DEF Read, a8
  <2> QED
    BY <1>15, <2>8
<1>17. ASSUME order[2] = "Signature"
      PROVE  SignResponse(a8) = data
  <2>1. a3 \in Seq(S)
    <3>1. order[1] \in other
      BY <1>2, <1>3, <1>17
    <3>2. a1 \in Seq(S)
      BY <1>4, <1>8, <3>1, ConcatIn
    <3> HIDE DEF a1
    <3>3. a2 \in Seq(S)
      BY <1>4, <3>2, ConcatIn
    <3> HIDE DEF a2
    <3> QED
      BY <1>7, <3>3, ConcatIn
  <2> HIDE DEF a1, a2, a3, a4
  <2>4. Begins(a5, a4)
    BY <1>10, <1>13, <1>14, BeginsLonger
  <2> HIDE DEF a5
  <2>5. Begins(a6, a4)
    BY <1>2, <1>9, <1>13, <2>4, BeginsLonger
  <2> HIDE DEF a6
  <2>6. Begins(a7, a4)
    BY <1>10, <1>13, <2>5, BeginsLonger
  <2> HIDE DEF a7
  <2>7. Begins(a8, a4)
    BY <1>10, <1>13, <2>6, BeginsLonger
  <2>8. Read(a3, 2)
    <3> HIDE DEF a8
    <3> QED
      BY <1>17, <2>1, <2>7 DEF a4
  <2> HIDE DEF Read, a8
  <2> QED
    BY <1>15, <2>8
<1>18. ASSUME order[3] = "Signature"
      PROVE  SignResponse(a8) = data
  <2>1. a5 \in Seq(S)
    <3>1. order[1] \in other /\ order[2] \in other
      BY <1>2, <1>3, <1>18
    <3>2. a1 \in Seq(S)
      BY <1>4, <1>8, <3>1, ConcatIn
    <3> HIDE DEF a1
    <3>3. a2 \in Seq(S)
      BY <1>4, <3>2, ConcatIn
    <3> HIDE DEF a2
    <3>4. a3 \in Seq(S)
      BY <1>7, <3>3, ConcatIn
    <3> HIDE DEF a3
    <3>5. a4 \in Seq(S)
      BY <1>8, <3>1, <3>4, ConcatIn
    <3> HIDE DEF a4
    <3> QED
      BY <1>4, <3>5, ConcatIn
  <2> HIDE DEF a1, a2, a3, a4, a5, a6
  <2>6. Begins(a7, a6)
    BY <1>10, <1>13, <1>14, BeginsLonger
  <2> HIDE DEF a7
  <2>7. Begins(a8, a6)
    BY <1>10, <1>13, <2>6, BeginsLonger
  <2>8. Read(a5, 3)
    <3> HIDE DEF a8
    <3> QED
      BY <1>18, <2>1, <2>7 DEF a6
  <2> HIDE DEF Read, a8
  <2> QED
    BY <1>15, <2>8
<1>19. order[1] = "Signature" \/ order[2] = "Signature" \/ order[3] = "Signature"
  BY <1>2, <1>3 DEF other
<1>20. SignResponse(a8) = data
  <2> HIDE DEF a8
  <2> QED
    BY <1>16, <1>17, <1>18, <1>19
<1> QED
  BY <1>1, <1>20 DEF value

\* A sequence of bounded length is a sequence.
LEMMA SeqOfIs ==
  ASSUME NEW D, NEW n \in Nat
  PROVE  SeqOf(D, n) \subseteq Seq(D)
BY DEF SeqOf

\* The signatures the run tries are bytes.
LEMMA BytesSent == SeqOf({0, 48, 255}, 4) \subseteq Seq(Byte)
<1> DEFINE D == {0, 48, 255}
<1>1. D \subseteq Byte
  <2>1. 0 \in Byte /\ 48 \in Byte /\ 255 \in Byte
    BY DEF Byte
  <2> QED
    BY <2>1
<1>2. 4 \in Nat
  OBVIOUS
<1> HIDE DEF D
<1>3. SeqOf(D, 4) \subseteq Seq(D)
  BY <1>2, SeqOfIs
<1>4. Seq(D) \subseteq Seq(Byte)
  BY <1>1, SeqMonotonic
<1> QED
  BY <1>3, <1>4 DEF D

\* The blanks it tries are blanks of JSON.
LEMMA BlanksSent == {<<>>, <<" ", " ">>} \subseteq Seq(Space)
<1>1. " " \in Space
  BY DEF Space
<1>2. <<>> \in Seq(Space)
  BY EmptySeq
<1>3. <<" ", " ">> \in Seq(Space)
  <2> DEFINE c == " "
  <2> HIDE DEF c
  <2>1. <<c, c>> \in Seq(Space)
    <3>1. c \in Space
      BY <1>1 DEF c
    <3> QED
      BY <3>1
  <2> QED
    BY <2>1 DEF c
<1> QED
  BY <1>2, <1>3

\* Hence the run's property: the signature in a certificate is the one KMS returned.
THEOREM SignatureIsKept == Spec => []SignatureRead
<1>1. SignaturesRead
  <2> SUFFICES ASSUME NEW bytes \in SeqOf({0, 48, 255}, 4) \ {<<>>}, NEW blank \in {<<>>, <<" ", " ">>},
                      NEW order \in SetToSeqs({"KeyId", "Signature", "SigningAlgorithm"})
               PROVE  SignResponse(Answer(order, blank,
                        [KeyId |-> <<"a", ":", "a">>, Signature |-> EncodeBlock(bytes),
                         SigningAlgorithm |-> <<"E">>])) = bytes
    BY Zenon DEF SignaturesRead
  <2>1. bytes \in Seq(Byte) /\ bytes # <<>>
    BY BytesSent
  <2>2. blank \in Seq(Space)
    BY BlanksSent
  <2> QED
    BY <2>1, <2>2, AnswerRead
<1>2. SignatureRead
  BY <1>1 DEF SignatureRead
<1> QED
  BY <1>2, PTL
-----------------------------------------------------------------------------
(* The request to KMS as KMS reads it.                                     *)

\* The character that starts at a position of a string: how long it is
CharSize(json, at) == IF json[at] = Backslash /\ at < Len(json) THEN 2 ELSE 1
\* What reading one character adds to what is read behind it
ReadOn(json, at, rest) ==
  [text |-> <<json[at + CharSize(json, at) - 1]>> \o rest.text, next |-> rest.next]
Reading(json, start, f) ==
  \A at \in start..(Len(json) + 1) :
    f[at] = IF at > Len(json) \/ json[at] = Quote THEN [text |-> <<>>, next |-> at + 1]
            ELSE ReadOn(json, at, f[at + CharSize(json, at)])

\* A parser reads a string character by character, up to the quote.
LEMMA StringAtIs ==
  ASSUME NEW S, NEW json \in Seq(S), NEW start \in Nat \ {0}
  PROVE  \E f : Reading(json, start, f) /\ StringAt(json, start) = f[start]
<1> DEFINE D    == start..(Len(json) + 1)
           V    == [text : Seq(S), next : Nat]
           Stop == {at \in D : at > Len(json) \/ json[at] = Quote}
           base == [at \in D |-> [text |-> <<>>, next |-> at + 1]]
           pred == [at \in D |-> IF at \in Stop THEN at ELSE at + CharSize(json, at)]
           size == [at \in D |-> Len(json) + 1 - at]
           step == [s \in D \X V |-> IF s[1] \in Stop THEN s[2] ELSE ReadOn(json, s[1], s[2])]
           Turn(f) == [at \in D |->
             IF at > Len(json) \/ json[at] = Quote THEN [text |-> <<>>, next |-> at + 1]
             ELSE LET chars == IF json[at] = Backslash /\ at < Len(json) THEN 2 ELSE 1
                      rest  == f[at + chars]
                  IN [text |-> <<json[at + chars - 1]>> \o rest.text, next |-> rest.next]]
           read == CHOOSE f : f = Turn(f)
<1>1. Len(json) \in Nat /\ \A at \in D : at \in Nat \ {0} /\ at >= start /\ at <= Len(json) + 1
  OBVIOUS
<1>2. ASSUME NEW at \in D \ Stop
      PROVE  /\ pred[at] = at + CharSize(json, at) /\ pred[at] \in D /\ pred[at] > at
             /\ json[at + CharSize(json, at) - 1] \in S
  <2>1. at <= Len(json) /\ at \in Nat \ {0} /\ at >= start
    BY <1>1
  <2>2. CharSize(json, at) \in {1, 2} /\ (CharSize(json, at) = 2 => at < Len(json))
    BY DEF CharSize
  <2>3. pred[at] = at + CharSize(json, at)
    OBVIOUS
  <2> HIDE DEF pred
  <2>4. at + CharSize(json, at) \in D /\ at + CharSize(json, at) > at
        /\ at + CharSize(json, at) - 1 \in 1..Len(json)
    BY <1>1, <2>1, <2>2
  <2> QED
    BY <2>3, <2>4
<1>3. base \in [D -> V] /\ size \in [D -> Nat] /\ pred \in [D -> D]
  <2>1. \A at \in D : pred[at] \in D
    BY <1>2
  <2>2. \A at \in D : size[at] \in Nat
    BY <1>1
  <2>3. \A at \in D : base[at] \in V
    <3>1. <<>> \in Seq(S)
      BY EmptySeq
    <3> QED
      BY <1>1, <3>1
  <2>4. /\ size = [at \in D |-> size[at]] /\ pred = [at \in D |-> pred[at]]
        /\ base = [at \in D |-> base[at]]
    OBVIOUS
  <2> HIDE DEF D, V, size, pred, base
  <2> QED
    BY <2>1, <2>2, <2>3, <2>4
<1>4. step \in [D \X V -> V]
  <2>1. ASSUME NEW s \in D \X V
        PROVE  step[s] \in V
    <3>1. s[1] \in D /\ s[2] \in V
      OBVIOUS
    <3>2. CASE s[1] \in Stop
      BY <3>1, <3>2
    <3>3. CASE s[1] \notin Stop
      <4> DEFINE c == <<json[s[1] + CharSize(json, s[1]) - 1]>>
      <4>1. c \in Seq(S)
        BY <1>2, <3>1, <3>3
      <4>2. s[2].text \in Seq(S) /\ s[2].next \in Nat
        BY <3>1
      <4> HIDE DEF c
      <4>3. c \o s[2].text \in Seq(S)
        BY <4>1, <4>2, ConcatIn
      <4>4. ReadOn(json, s[1], s[2]) \in V
        BY <4>2, <4>3 DEF ReadOn, c
      <4> QED
        BY <3>3, <4>4
    <3> QED
      BY <3>2, <3>3
  <2>2. step = [s \in D \X V |-> step[s]]
    OBVIOUS
  <2> HIDE DEF D, V, step
  <2> QED
    BY <2>1, <2>2
<1>5. Descends(D, Stop, pred, size)
  <2>1. ASSUME NEW at \in D \ Stop
        PROVE  size[pred[at]] < size[at]
    <3>1. pred[at] \in D /\ pred[at] > at /\ at \in D
      BY <1>2
    <3>2. size[pred[at]] = Len(json) + 1 - pred[at] /\ size[at] = Len(json) + 1 - at
      BY <3>1
    <3>3. pred[at] \in Nat /\ at \in Nat
      BY <1>1, <3>1
    <3> HIDE DEF size, pred
    <3> QED
      BY <1>1, <3>1, <3>2, <3>3
  <2> HIDE DEF D, Stop, pred, size
  <2> QED
    BY <1>3, <2>1 DEF Descends
<1>6. PICK f \in [D -> V] : \A at \in D : Recurs(f, at, Stop, base, pred, step)
  <2> HIDE DEF D, V, Stop, base, pred, size, step
  <2> QED
    BY <1>3, <1>4, <1>5, RecursionExists
<1>7. \A h : \A at \in D : Turn(h)[at] = IF at \in Stop THEN [text |-> <<>>, next |-> at + 1]
                                          ELSE ReadOn(json, at, h[at + CharSize(json, at)])
  BY DEF ReadOn, CharSize
<1>8. f = Turn(f)
  <2>1. ASSUME NEW at \in D
        PROVE  f[at] = Turn(f)[at]
    <3>1. CASE at \in Stop
      <4>1. f[at] = base[at]
        BY <1>6, <3>1 DEF Recurs
      <4>2. base[at] = [text |-> <<>>, next |-> at + 1]
        OBVIOUS
      <4> HIDE DEF Turn, base
      <4> QED
        BY <1>7, <3>1, <4>1, <4>2
    <3>2. CASE at \notin Stop
      <4>1. pred[at] = at + CharSize(json, at) /\ pred[at] \in D
        BY <1>2, <3>2
      <4>2. f[at] = step[<<at, f[pred[at]]>>] /\ f[pred[at]] \in V
        <5> HIDE DEF D, V, Stop, base, pred, step
        <5> QED
          BY <1>6, <3>2, <4>1 DEF Recurs
      <4>3. step[<<at, f[pred[at]]>>] = ReadOn(json, at, f[pred[at]])
        <5> HIDE DEF D, V, Stop, pred
        <5> QED
          BY <3>2, <4>1, <4>2
      <4> HIDE DEF Turn, step, pred
      <4> QED
        BY <1>7, <3>2, <4>1, <4>2, <4>3
    <3> QED
      BY <3>1, <3>2
  <2> DEFINE g == Turn(f)
  <2>2. g = [at \in D |-> g[at]]
    OBVIOUS
  <2> HIDE DEF g, D
  <2> QED
    BY <2>1, <2>2 DEF g
<1>9. StringAt(json, start) = read[start]
  BY Zenon DEF StringAt
<1>10. read = Turn(read)
  <2> HIDE DEF Turn
  <2> QED
    BY <1>8, Zenon
<1> HIDE DEF read
<1>11. Reading(json, start, read)
  <2>1. \A at \in D : read[at] = IF at \in Stop THEN [text |-> <<>>, next |-> at + 1]
                                 ELSE ReadOn(json, at, read[at + CharSize(json, at)])
    <3> HIDE DEF Turn
    <3> QED
      BY <1>7, <1>10
  <2> QED
    BY <2>1 DEF Reading
<1> QED
  BY <1>9, <1>11

\* Where the parts of a sequence of sequences stand when they are put together
Joins(S, seqs, t, E) ==
  /\ t \in Seq(S) /\ E \in [0..Len(seqs) -> Nat] /\ E[0] = 0 /\ E[Len(seqs)] = Len(t)
  /\ \A i \in 1..Len(seqs) : /\ E[i] = E[i - 1] + Len(seqs[i]) /\ E[i] <= Len(t)
                             /\ \A k \in 1..Len(seqs[i]) : t[E[i - 1] + k] = seqs[i][k]

\* FlattenSeq puts the parts together one by one,
LEMMA FlattenBy ==
  ASSUME NEW S, NEW seqs \in Seq(Seq(S)), seqs # <<>>
  PROVE  \E f \in [1..Len(seqs) -> Seq(S)] :
           /\ FlattenSeq(seqs) = f[Len(seqs)]
           /\ \A i \in 1..Len(seqs) : f[i] = IF i = 1 THEN seqs[1] ELSE f[i - 1] \o seqs[i]
<1> DEFINE D    == 1..Len(seqs)
           Stop == {1}
           pred == [i \in D |-> IF i = 1 THEN 1 ELSE i - 1]
           size == [i \in D |-> i]
           step == [s \in D \X Seq(S) |-> s[2] \o seqs[s[1]]]
           Turn(f) == [i \in D |-> IF i = 1 THEN seqs[i] ELSE f[i - 1] \o seqs[i]]
           flatten == CHOOSE f : f = Turn(f)
<1>1. Len(seqs) \in Nat \ {0} /\ Len(seqs) # 0 /\ \A i \in D : i \in Nat /\ seqs[i] \in Seq(S)
  <2>1. Len(seqs) # 0
    BY EmptySeq
  <2> QED
    BY <2>1
<1>2. size \in [D -> Nat] /\ pred \in [D -> D] /\ seqs \in [D -> Seq(S)]
  <2>1. \A i \in D : i # 1 => i - 1 \in D
    BY <1>1
  <2>2. 1 \in D
    BY <1>1
  <2>3. seqs = [i \in D |-> seqs[i]]
    OBVIOUS
  <2>4. \A i \in D : size[i] \in Nat /\ pred[i] \in D
    BY <1>1, <2>1, <2>2
  <2>5. size = [i \in D |-> size[i]] /\ pred = [i \in D |-> pred[i]]
    OBVIOUS
  <2> HIDE DEF D, size, pred
  <2> QED
    BY <1>1, <2>3, <2>4, <2>5
<1>3. step \in [D \X Seq(S) -> Seq(S)]
  <2>1. ASSUME NEW s \in D \X Seq(S)
        PROVE  step[s] \in Seq(S)
    <3>1. s[1] \in D /\ s[2] \in Seq(S)
      OBVIOUS
    <3>2. s[2] \o seqs[s[1]] \in Seq(S)
      BY <1>1, <3>1, ConcatIn
    <3> QED
      BY <3>2
  <2>2. step = [s \in D \X Seq(S) |-> step[s]]
    OBVIOUS
  <2> HIDE DEF D, step
  <2> QED
    BY <2>1, <2>2
<1>4. Descends(D, Stop, pred, size)
  <2>1. ASSUME NEW i \in D \ Stop
        PROVE  size[pred[i]] < size[i]
    <3>1. pred[i] = i - 1 /\ i - 1 \in D /\ i \in D /\ i \in Nat
      BY <1>1
    <3>2. size[i - 1] = i - 1 /\ size[i] = i
      BY <3>1
    <3> HIDE DEF size, pred
    <3> QED
      BY <3>1, <3>2
  <2> HIDE DEF D, Stop, pred, size
  <2> QED
    BY <1>2, <2>1 DEF Descends
<1>5. PICK f \in [D -> Seq(S)] : \A i \in D : Recurs(f, i, Stop, seqs, pred, step)
  <2> DEFINE V == Seq(S)
  <2>1. /\ seqs \in [D -> V] /\ step \in [D \X V -> V]
    BY <1>2, <1>3
  <2> HIDE DEF D, V, Stop, pred, size, step
  <2>2. \E f \in [D -> V] : \A i \in D : Recurs(f, i, Stop, seqs, pred, step)
    BY <1>4, <2>1, RecursionExists
  <2> QED
    BY <2>2 DEF V
<1>6. f = Turn(f)
  <2>1. ASSUME NEW i \in D
        PROVE  f[i] = Turn(f)[i]
    <3>1. Turn(f)[i] = IF i = 1 THEN seqs[i] ELSE f[i - 1] \o seqs[i]
      OBVIOUS
    <3>2. CASE i = 1
      BY <1>5, <3>1, <3>2 DEF Recurs
    <3>3. CASE i # 1
      <4>1. pred[i] = i - 1 /\ i - 1 \in D
        BY <1>1, <3>3
      <4>2. f[i] = step[<<i, f[i - 1]>>] /\ f[i - 1] \in Seq(S)
        <5> HIDE DEF D, pred, step
        <5> QED
          BY <1>5, <3>3, <4>1 DEF Recurs
      <4>3. step[<<i, f[i - 1]>>] = f[i - 1] \o seqs[i]
        <5> HIDE DEF D
        <5> QED
          BY <4>2
      <4> HIDE DEF Turn, step, pred
      <4> QED
        BY <3>1, <3>3, <4>2, <4>3
    <3> QED
      BY <3>2, <3>3
  <2> DEFINE g == Turn(f)
  <2>2. g = [i \in D |-> g[i]]
    OBVIOUS
  <2> HIDE DEF g, D
  <2> QED
    BY <2>1, <2>2 DEF g
<1>7. FlattenSeq(seqs) = flatten[Len(seqs)]
  BY <1>1, Zenon DEF FlattenSeq
<1>8. flatten = Turn(flatten)
  <2> HIDE DEF Turn
  <2> QED
    BY <1>6, Zenon
<1> HIDE DEF flatten
<1>9. \A i \in D : flatten[i] = IF i = 1 THEN seqs[1] ELSE flatten[i - 1] \o seqs[i]
  <2>1. \A i \in D : Turn(flatten)[i] = IF i = 1 THEN seqs[1] ELSE flatten[i - 1] \o seqs[i]
    OBVIOUS
  <2> HIDE DEF Turn, D
  <2> QED
    BY <1>8, <2>1
<1>16. ASSUME NEW i \in D, i # 1, flatten[i - 1] \in Seq(S)
       PROVE  flatten[i] \in Seq(S)
  <2>1. flatten[i - 1] \o seqs[i] \in Seq(S)
    BY <1>1, <1>16, ConcatIn
  <2>2. flatten[i] = flatten[i - 1] \o seqs[i]
    <3> HIDE DEF D
    <3> QED
      BY <1>9, <1>16
  <2> QED
    BY <2>1, <2>2
<1> DEFINE Good == {n \in Nat : n \in D => flatten[n] \in Seq(S)}
<1>10. 0 \in Good
  BY <1>1
<1>11. ASSUME NEW n \in Nat, n \in Good
       PROVE  n + 1 \in Good
  <2> DEFINE i == n + 1
  <2>1. i \in Nat /\ i - 1 = n /\ (i \in D /\ i # 1 => n \in D)
    BY <1>1
  <2> HIDE DEF i
  <2>2. i \in D /\ i = 1 => flatten[i] \in Seq(S)
    BY <1>1, <1>9
  <2>3. i \in D /\ i # 1 => flatten[i - 1] \in Seq(S)
    BY <1>11, <2>1
  <2>4. i \in D /\ i # 1 => flatten[i] \in Seq(S)
    <3> HIDE DEF D
    <3> QED
      BY <1>16, <2>3, Zenon
  <2>5. i \in Good
    BY <2>1, <2>2, <2>4
  <2> HIDE DEF Good
  <2> QED
    BY <2>5 DEF i
<1>12. Nat \subseteq Good
  <2> HIDE DEF Good
  <2> QED
    BY <1>10, <1>11, AllNumbers
<1>13. \A i \in D : flatten[i] \in Seq(S)
  BY <1>1, <1>12
<1>14. flatten = [i \in D |-> flatten[i]]
  <2>1. Turn(flatten) = [i \in D |-> Turn(flatten)[i]]
    OBVIOUS
  <2> HIDE DEF Turn
  <2> QED
    BY <1>8, <2>1
<1> HIDE DEF D
<1>15. flatten \in [D -> Seq(S)]
  BY <1>13, <1>14
<1> QED
  BY <1>7, <1>9, <1>15 DEF D

\* so that each stands behind those before it.
LEMMA FlattenJoins ==
  ASSUME NEW S, NEW seqs \in Seq(Seq(S)), seqs # <<>>
  PROVE  \E E : Joins(S, seqs, FlattenSeq(seqs), E)
<1> DEFINE n == Len(seqs)
<1>1. PICK f \in [1..n -> Seq(S)] :
           /\ FlattenSeq(seqs) = f[n]
           /\ \A i \in 1..n : f[i] = IF i = 1 THEN seqs[1] ELSE f[i - 1] \o seqs[i]
  BY FlattenBy
<1> DEFINE t == f[n]
           E == [i \in 0..n |-> IF i = 0 THEN 0 ELSE Len(f[i])]
<1>2. /\ n \in Nat \ {0}
      /\ \A i \in 1..n : seqs[i] \in Seq(S)
      /\ \A i \in 1..n : f[i] \in Seq(S)
  <2>1. Len(seqs) # 0
    BY EmptySeq
  <2>2. n \in Nat \ {0}
    BY <2>1
  <2>3. \A i \in 1..n : seqs[i] \in Seq(S)
    OBVIOUS
  <2> HIDE DEF n
  <2>4. \A i \in 1..n : f[i] \in Seq(S)
    OBVIOUS
  <2> QED
    BY <2>2, <2>3, <2>4
<1>11. /\ f[1] = seqs[1]
       /\ \A i \in 1..n : i # 1 => f[i] = f[i - 1] \o seqs[i]
  <2>1. 1 \in 1..n
    BY <1>2
  <2> HIDE DEF n, t, E
  <2> QED
    BY <1>1, <2>1
<1> HIDE DEF n
<1>3. E[0] = 0 /\ E \in [0..n -> Nat] /\ \A i \in 1..n : E[i] = Len(f[i])
  <2>1. \A i \in 1..n : Len(f[i]) \in Nat
    BY <1>2
  <2>2. E[0] = 0 /\ \A i \in 1..n : E[i] = Len(f[i])
    BY <1>2
  <2>3. \A i \in 0..n : i = 0 \/ i \in 1..n
    BY <1>2
  <2>4. E = [i \in 0..n |-> E[i]]
    OBVIOUS
  <2> HIDE DEF E
  <2>5. \A i \in 0..n : E[i] \in Nat
    BY <2>1, <2>2, <2>3
  <2> QED
    BY <2>2, <2>4, <2>5
<1> HIDE DEF E
<1>4. ASSUME NEW i \in 1..n
      PROVE  /\ E[i] = E[i - 1] + Len(seqs[i]) /\ E[i - 1] \in Nat /\ E[i] \in Nat
             /\ \A k \in 1..Len(seqs[i]) : f[i][E[i - 1] + k] = seqs[i][k]
             /\ i # 1 => \A k \in 1..E[i - 1] : f[i][k] = f[i - 1][k]
  <2>1. CASE i = 1
    <3>1. f[1] = seqs[1] /\ E[1] = Len(seqs[1]) /\ E[1 - 1] = 0 /\ Len(seqs[1]) \in Nat
      BY <1>2, <1>3, <1>11, <2>1
    <3>2. \A k \in 1..Len(seqs[1]) : 0 + k = k
      OBVIOUS
    <3> QED
      BY <2>1, <3>1, <3>2
  <2>2. CASE i # 1
    <3>0. i - 1 \in 1..n /\ i \in 1..n
      BY <1>2, <2>2
    <3>1. f[i] = f[i - 1] \o seqs[i]
      BY <1>11, <2>2, Zenon
    <3>2. Appended(S, f[i - 1], seqs[i], f[i])
      BY <1>2, <3>0, <3>1, Behind
    <3>3. E[i] = Len(f[i]) /\ E[i - 1] = Len(f[i - 1])
      BY <1>3, <3>0, Zenon
    <3>4. Len(f[i]) \in Nat /\ Len(f[i - 1]) \in Nat
      <4>1. \A s \in Seq(S) : Len(s) \in Nat
        OBVIOUS
      <4> QED
        BY <1>2, <3>0, <4>1, Zenon
    <3> QED
      BY <2>2, <3>2, <3>3, <3>4 DEF Appended
  <2> QED
    BY <2>1, <2>2
<1> DEFINE Good == {j \in Nat : j <= n - 1 =>
                      /\ E[n - j] <= Len(t)
                      /\ \A k \in 1..E[n - j] : t[k] = f[n - j][k]}
<1>5. 0 \in Good
  <2>1. n \in 1..n /\ n - 0 = n
    BY <1>2
  <2>2. E[n] = Len(t) /\ Len(t) \in Nat
    BY <1>2, <1>3, <2>1
  <2> QED
    BY <2>1, <2>2
<1>6. ASSUME NEW j \in Nat, j \in Good
      PROVE  j + 1 \in Good
  <2> SUFFICES ASSUME j + 1 <= n - 1
               PROVE  /\ E[n - (j + 1)] <= Len(t)
                      /\ \A k \in 1..E[n - (j + 1)] : t[k] = f[n - (j + 1)][k]
    OBVIOUS
  <2> DEFINE i == n - j
  <2>1. i \in 1..n /\ i # 1 /\ i - 1 = n - (j + 1) /\ i - 1 \in 1..n
    BY <1>2
  <2>2. E[i] <= Len(t) /\ \A k \in 1..E[i] : t[k] = f[i][k]
    BY <1>2, <1>6
  <2>3. Len(seqs[i]) \in Nat /\ Len(t) \in Nat
    <3>1. n \in 1..n
      BY <1>2
    <3> HIDE DEF i
    <3> QED
      BY <1>2, <2>1, <3>1
  <2> HIDE DEF i, t
  <2>4. E[i - 1] <= E[i] /\ E[i - 1] <= Len(t)
    BY <1>4, <2>1, <2>2, <2>3
  <2>5. \A k \in 1..E[i - 1] : t[k] = f[i - 1][k]
    BY <1>4, <2>1, <2>2, <2>4
  <2> QED
    BY <2>1, <2>4, <2>5
<1>7. Nat \subseteq Good
  <2> HIDE DEF Good
  <2> QED
    BY <1>5, <1>6, AllNumbers
<1>8. ASSUME NEW i \in 1..n
      PROVE  /\ E[i] <= Len(t)
             /\ \A k \in 1..Len(seqs[i]) : t[E[i - 1] + k] = seqs[i][k]
  <2>1. n - i \in Nat /\ n - i <= n - 1 /\ n - (n - i) = i
    BY <1>2
  <2>2. E[i] <= Len(t) /\ \A k \in 1..E[i] : t[k] = f[i][k]
    BY <1>7, <2>1
  <2>3. Len(seqs[i]) \in Nat
    BY <1>2
  <2> HIDE DEF t
  <2>4. ASSUME NEW k \in 1..Len(seqs[i])
        PROVE  t[E[i - 1] + k] = seqs[i][k]
    <3>1. E[i - 1] + k \in 1..E[i]
      BY <1>4, <2>3
    <3> QED
      BY <1>4, <2>2, <3>1
  <2> QED
    BY <2>2, <2>4
<1>9. t \in Seq(S) /\ E[n] = Len(t)
  <2>1. n \in 1..n
    BY <1>2
  <2> QED
    BY <1>2, <1>3, <2>1
<1> HIDE DEF t
<1>10. Joins(S, seqs, t, E)
  BY <1>3, <1>4, <1>8, <1>9 DEF Joins, n
<1> QED
  BY <1>1, <1>10 DEF t

\* What JSON writes with a backslash
Special == {Quote, Backslash}
\* Where the characters of a value stand in its JSON
Escapes(v, t, E) ==
  /\ E \in [0..Len(v) -> Nat] /\ E[0] = 0 /\ E[Len(v)] = Len(t)
  /\ \A i \in 1..Len(v) :
       /\ E[i] = E[i - 1] + (IF v[i] \in Special THEN 2 ELSE 1) /\ E[i] <= Len(t)
       /\ t[E[i]] = v[i]
       /\ v[i] \in Special => t[E[i] - 1] = Backslash

\* json_escape writes the characters in their order, each by itself or behind a backslash.
LEMMA EscapeIs ==
  ASSUME NEW S, Backslash \in S, NEW v \in Seq(S)
  PROVE  JsonEscape(v) \in Seq(S) /\ \E E : Escapes(v, JsonEscape(v), E)
<1> DEFINE piece(i) == IF v[i] \in {Quote, Backslash} THEN <<Backslash, v[i]>> ELSE <<v[i]>>
           seqs == [i \in DOMAIN v |-> piece(i)]
           t    == JsonEscape(v)
<1>1. Len(v) \in Nat /\ DOMAIN v = 1..Len(v) /\ \A i \in 1..Len(v) : v[i] \in S
  OBVIOUS
<1>2. ASSUME NEW i \in 1..Len(v)
      PROVE  /\ piece(i) \in Seq(S) /\ Len(piece(i)) = IF v[i] \in Special THEN 2 ELSE 1
             /\ v[i] \in Special => piece(i)[1] = Backslash /\ piece(i)[2] = v[i]
             /\ v[i] \notin Special => piece(i)[1] = v[i]
  <2> DEFINE c == v[i]
             b == Backslash
  <2>1. c \in S /\ b \in S
    BY <1>1
  <2> HIDE DEF c, b
  <2>2. <<b, c>> \in Seq(S) /\ Len(<<b, c>>) = 2 /\ <<b, c>>[1] = b /\ <<b, c>>[2] = c
    BY <2>1
  <2>3. <<c>> \in Seq(S) /\ Len(<<c>>) = 1 /\ <<c>>[1] = c
    BY <2>1
  <2> QED
    BY <2>2, <2>3 DEF c, b, Special
<1>3. t = FlattenSeq(seqs)
  BY DEF JsonEscape
<1>4. seqs \in Seq(Seq(S)) /\ Len(seqs) = Len(v)
  <2> HIDE DEF piece
  <2>1. \A i \in 1..Len(v) : piece(i) \in Seq(S)
    BY <1>2
  <2>2. seqs = [i \in 1..Len(v) |-> piece(i)]
    BY <1>1
  <2> HIDE DEF seqs
  <2> QED
    BY <1>1, <2>1, <2>2
<1>5. \A i \in 1..Len(v) : seqs[i] = piece(i)
  BY <1>1
<1> HIDE DEF seqs, piece, t
<1>6. CASE v = <<>>
  <2>1. Len(v) = 0 /\ seqs = <<>>
    BY <1>4, <1>6, EmptySeq
  <2>2. t = seqs
    BY <1>3, <1>4, <2>1 DEF FlattenSeq
  <2> DEFINE E == [i \in 0..0 |-> 0]
  <2>3. t = <<>> /\ t \in Seq(S) /\ Len(t) = 0
    BY <2>1, <2>2, EmptySeq
  <2>4. E \in [0..0 -> Nat] /\ E[0] = 0
    OBVIOUS
  <2> HIDE DEF E
  <2>5. Escapes(v, t, E)
    BY <2>1, <2>3, <2>4 DEF Escapes
  <2> QED
    BY <2>3, <2>5 DEF t
<1>7. CASE v # <<>>
  <2>1. seqs # <<>>
    BY <1>1, <1>4, <1>7, EmptySeq
  <2>2. PICK E : Joins(S, seqs, t, E)
    BY <1>3, <1>4, <2>1, FlattenJoins
  <2>3. /\ t \in Seq(S) /\ E \in [0..Len(v) -> Nat] /\ E[0] = 0 /\ E[Len(v)] = Len(t)
    BY <1>4, <2>2 DEF Joins
  <2>4. ASSUME NEW i \in 1..Len(v)
        PROVE  /\ E[i] = E[i - 1] + (IF v[i] \in Special THEN 2 ELSE 1) /\ E[i] <= Len(t)
               /\ t[E[i]] = v[i]
               /\ v[i] \in Special => t[E[i] - 1] = Backslash
    <3> DEFINE n == Len(piece(i))
    <3>1. n = IF v[i] \in Special THEN 2 ELSE 1
      BY <1>2
    <3>2. /\ E[i] = E[i - 1] + n /\ E[i] <= Len(t)
          /\ \A k \in 1..n : t[E[i - 1] + k] = piece(i)[k]
      BY <1>4, <1>5, <2>2 DEF Joins
    <3>3. E[i - 1] \in Nat /\ E[i] \in Nat
      <4>1. i - 1 \in 0..Len(v) /\ i \in 0..Len(v)
        BY <1>1
      <4> QED
        BY <2>3, <4>1
    <3> HIDE DEF n
    <3>4. CASE v[i] \in Special
      <4>1. n = 2 /\ E[i - 1] + 1 = E[i] - 1 /\ E[i - 1] + 2 = E[i]
        BY <3>1, <3>2, <3>3, <3>4
      <4>2. t[E[i - 1] + 1] = piece(i)[1] /\ t[E[i - 1] + 2] = piece(i)[2]
        BY <3>2, <4>1
      <4> QED
        BY <1>2, <3>1, <3>2, <3>4, <4>1, <4>2
    <3>5. CASE v[i] \notin Special
      <4>1. n = 1 /\ E[i - 1] + 1 = E[i]
        BY <3>1, <3>2, <3>3, <3>5
      <4>2. t[E[i - 1] + 1] = piece(i)[1]
        BY <3>2, <4>1
      <4> QED
        BY <1>2, <3>1, <3>2, <3>5, <4>1, <4>2
    <3> QED
      BY <3>4, <3>5
  <2>5. Escapes(v, t, E)
    BY <2>3, <2>4 DEF Escapes
  <2> QED
    BY <2>3, <2>5 DEF t
<1> QED
  BY <1>6, <1>7

\* A text stands somewhere in another
Stands(json, p, t) ==
  /\ p \in Nat /\ Len(t) \in Nat /\ p + Len(t) <= Len(json)
  /\ \A i \in 1..Len(t) : json[p + i] = t[i]

\* A character and what is behind it
LEMMA HeadOfRest ==
  ASSUME NEW S, NEW v \in Seq(S), NEW i \in 1..Len(v)
  PROVE  <<v[i]>> \o SubSeq(v, i + 1, Len(v)) = SubSeq(v, i, Len(v))
<1> DEFINE n == Len(v)
           j == i + 1
           a == SubSeq(v, j, n)
           b == SubSeq(v, i, n)
           c == <<v[i]>>
           d == c \o a
<1>1. /\ n = Len(v) /\ n \in Nat /\ i \in Nat \ {0} /\ i <= n /\ j \in Nat \ {0} /\ j = i + 1
      /\ v[i] \in S
  OBVIOUS
<1>2. i <= n + 1 /\ j <= n + 1 /\ n <= Len(v) /\ n - j + 1 = n - i
  BY <1>1
<1> HIDE DEF n, j
<1>3. a \in Seq(S) /\ Len(a) = n - j + 1 /\ \A k \in 1..(n - j + 1) : a[k] = v[j + k - 1]
  BY <1>1, <1>2, SubSeqIs
<1>4. b \in Seq(S) /\ Len(b) = n - i + 1 /\ \A k \in 1..(n - i + 1) : b[k] = v[i + k - 1]
  BY <1>1, <1>2, SubSeqIs
<1>5. c \in Seq(S) /\ Len(c) = 1 /\ c[1] = v[i]
  BY <1>1
<1> HIDE DEF a, b, c
<1>6. Appended(S, c, a, d)
  BY <1>3, <1>5, Behind
<1> HIDE DEF d
<1>7. /\ d \in Seq(S) /\ Len(d) = Len(c) + Len(a) /\ \A k \in 1..Len(c) : d[k] = c[k]
      /\ \A k \in 1..Len(a) : d[Len(c) + k] = a[k]
  BY <1>6 DEF Appended
<1>8. Len(a) = n - i /\ Len(d) = n - i + 1 /\ d[1] = v[i]
  <2>1. Len(a) = n - i /\ 1 + (n - i) = n - i + 1 /\ 1 \in 1..1
    BY <1>1, <1>2, <1>3
  <2>2. 1 \in 1..Len(c)
    BY <1>5
  <2> QED
    BY <1>5, <1>7, <2>1, <2>2
<1>9. ASSUME NEW k \in 1..Len(d)
      PROVE  d[k] = b[k]
  <2>1. b[k] = v[i + k - 1] /\ k \in Nat
    BY <1>4, <1>8
  <2>2. CASE k = 1
    <3>1. i + 1 - 1 = i
      BY <1>1
    <3> QED
      BY <1>8, <2>1, <2>2, <3>1
  <2>3. CASE k # 1
    <3> DEFINE m == k - 1
    <3>1. m \in 1..(n - i) /\ 1 + m = k /\ j + m - 1 = i + k - 1
      BY <1>1, <1>8, <2>3
    <3> HIDE DEF m
    <3>2. d[1 + m] = a[m]
      BY <1>5, <1>7, <1>8, <3>1
    <3>3. a[m] = v[j + m - 1]
      BY <1>2, <1>3, <3>1
    <3> QED
      BY <2>1, <3>1, <3>2, <3>3
  <2> QED
    BY <2>2, <2>3
<1>10. d = b
  BY <1>4, <1>7, <1>8, <1>9, SeqEqual
<1> QED
  BY <1>10 DEF a, b, c, d, n, j

\* A parser reads back from JSON what json_escape has written into it, and goes on behind it.
LEMMA EscapedReadBack ==
  ASSUME NEW S, Backslash \in S, NEW v \in Seq(S), NEW json \in Seq(S), NEW p \in Nat,
         Stands(json, p, JsonEscape(v)), p + Len(JsonEscape(v)) + 1 <= Len(json),
         json[p + Len(JsonEscape(v)) + 1] = Quote
  PROVE  StringAt(json, p + 1) = [text |-> v, next |-> p + Len(JsonEscape(v)) + 2]
<1> DEFINE t == JsonEscape(v)
           n == Len(v)
           last == Len(json)
           start == p + 1
<1>1. PICK E : Escapes(v, t, E)
  BY EscapeIs
<1>2. PICK f : Reading(json, start, f) /\ StringAt(json, start) = f[start]
  <2>1. start \in Nat \ {0}
    OBVIOUS
  <2> HIDE DEF start
  <2> QED
    BY <2>1, StringAtIs
<1>3. /\ t \in Seq(S) /\ Len(t) \in Nat /\ n \in Nat /\ last \in Nat
      /\ \A i \in 1..n : v[i] \in S
  <2>1. t \in Seq(S)
    BY EscapeIs
  <2> HIDE DEF t
  <2> QED
    BY <2>1
<1>4. /\ E[0] = 0 /\ E[n] = Len(t) /\ \A i \in 0..n : E[i] \in Nat
      /\ \A i \in 1..n : /\ E[i] = E[i - 1] + (IF v[i] \in Special THEN 2 ELSE 1)
                         /\ E[i] <= Len(t) /\ t[E[i]] = v[i]
                         /\ v[i] \in Special => t[E[i] - 1] = Backslash
  BY <1>1 DEF Escapes
<1>5. /\ \A i \in 1..Len(t) : json[p + i] = t[i]
      /\ p + Len(t) + 1 <= last /\ json[p + Len(t) + 1] = Quote
  BY DEF Stands
<1>6. \A at \in start..last : f[at] = IF json[at] = Quote THEN [text |-> <<>>, next |-> at + 1]
                                     ELSE ReadOn(json, at, f[at + CharSize(json, at)])
  <2>1. \A at \in start..last : at \in start..(last + 1) /\ ~(at > last)
    BY <1>3
  <2> QED
    BY <1>2, <2>1 DEF Reading
<1> HIDE DEF t, n, last
<1> DEFINE rest(i) == [text |-> SubSeq(v, i + 1, n), next |-> p + Len(t) + 2]
           Good == {k \in Nat : k <= n => f[start + E[n - k]] = rest(n - k)}
<1>7. 0 \in Good
  <2>1. n - 0 = n /\ E[n] = Len(t) /\ start + Len(t) = p + Len(t) + 1 /\ start + Len(t) \in start..last
        /\ p + Len(t) + 1 + 1 = p + Len(t) + 2
    BY <1>3, <1>4, <1>5
  <2>2. SubSeq(v, n + 1, n) = <<>>
    <3>1. n + 1 \in Nat \ {0} /\ n \in Nat /\ n + 1 <= n + 1 /\ n <= Len(v) /\ n - (n + 1) + 1 = 0
      BY <1>3 DEF n
    <3>2. SubSeq(v, n + 1, n) \in Seq(S) /\ Len(SubSeq(v, n + 1, n)) = n - (n + 1) + 1
      BY <3>1, SubSeqIs
    <3> DEFINE s == SubSeq(v, n + 1, n)
    <3>3. s \in Seq(S) /\ Len(s) = 0
      BY <3>1, <3>2
    <3> HIDE DEF s
    <3>4. s = <<>>
      BY <3>3, EmptySeq
    <3> QED
      BY <3>4 DEF s
  <2> DEFINE at == p + Len(t) + 1
  <2>3. f[at] = [text |-> <<>>, next |-> at + 1]
    <3>1. at \in start..last /\ json[at] = Quote
      BY <1>5, <2>1
    <3> HIDE DEF at, start
    <3> QED
      BY <1>6, <3>1
  <2> HIDE DEF start
  <2>4. f[start + E[n]] = rest(n)
    BY <2>1, <2>2, <2>3
  <2> HIDE DEF rest
  <2> QED
    BY <2>1, <2>4
<1>8. ASSUME NEW i \in 1..n, f[start + E[i]] = rest(i)
      PROVE  f[start + E[i - 1]] = rest(i - 1)
  <2> DEFINE at == start + E[i - 1]
  <2>1. i - 1 \in 0..n /\ i \in 0..n /\ i \in Nat \ {0}
    BY <1>3
  <2>2. /\ E[i] \in Nat /\ E[i - 1] \in Nat
        /\ E[i] = E[i - 1] + (IF v[i] \in Special THEN 2 ELSE 1)
        /\ E[i] <= Len(t) /\ t[E[i]] = v[i] /\ (v[i] \in Special => t[E[i] - 1] = Backslash)
    BY <1>4, <2>1
  <2>10. E[i] \in Nat /\ E[i - 1] \in Nat /\ E[i - 1] + 1 <= E[i] /\ E[i] <= Len(t)
    BY <2>2
  <2>3. at \in start..last /\ at < last /\ at = p + (E[i - 1] + 1)
    <3> DEFINE e == E[i - 1]
               l == Len(t)
    <3>1. e \in Nat /\ e + 1 <= l /\ l \in Nat /\ p + l + 1 <= last /\ last \in Nat
      BY <1>3, <1>5, <2>10
    <3> HIDE DEF e, l
    <3>2. p + 1 + e \in (p + 1)..last /\ p + 1 + e < last /\ p + 1 + e = p + (e + 1)
      BY <3>1
    <3> QED
      BY <3>2 DEF e
  <2>4. /\ CharSize(json, at) = IF v[i] \in Special THEN 2 ELSE 1
        /\ json[at] # Quote /\ json[at + CharSize(json, at) - 1] = v[i]
        /\ at + CharSize(json, at) = start + E[i]
    <3>1. CASE v[i] \in Special
      <4>1. E[i] = E[i - 1] + 2 /\ E[i] - 1 = E[i - 1] + 1 /\ E[i - 1] + 1 \in 1..Len(t)
            /\ E[i] \in 1..Len(t)
        BY <1>3, <2>2, <3>1
      <4>2. json[at] = Backslash
        BY <1>5, <2>2, <2>3, <3>1, <4>1
      <4>3. CharSize(json, at) = 2
        BY <2>3, <4>2 DEF CharSize, last
      <4>4. at + 2 = start + E[i] /\ at + 2 - 1 = p + E[i]
        <5> DEFINE e == E[i - 1]
        <5>1. e \in Nat /\ E[i] = e + 2
          BY <2>10, <4>1
        <5> HIDE DEF e
        <5>2. p + 1 + e + 2 = p + 1 + (e + 2) /\ p + 1 + e + 2 - 1 = p + (e + 2)
          BY <5>1
        <5> QED
          BY <5>1, <5>2 DEF e
      <4>5. json[p + E[i]] = v[i]
        BY <1>5, <2>2, <4>1
      <4>6. Backslash # Quote
        BY DEF Backslash, Quote
      <4> HIDE DEF at
      <4> QED
        BY <3>1, <4>2, <4>3, <4>4, <4>5, <4>6
    <3>2. CASE v[i] \notin Special
      <4>1. E[i] = E[i - 1] + 1 /\ E[i] \in 1..Len(t)
        BY <1>3, <2>2, <3>2
      <4>2. json[at] = v[i] /\ at = p + E[i]
        BY <1>5, <2>2, <2>3, <4>1
      <4>3. v[i] # Backslash /\ v[i] # Quote
        BY <3>2 DEF Special
      <4>4. CharSize(json, at) = 1
        BY <4>2, <4>3 DEF CharSize
      <4>5. at + 1 = start + E[i] /\ at + 1 - 1 = at
        BY <2>10, <4>1
      <4> HIDE DEF at
      <4> QED
        BY <3>2, <4>2, <4>3, <4>4, <4>5
    <3> QED
      BY <3>1, <3>2
  <2> HIDE DEF at, start
  <2>5. f[at] = ReadOn(json, at, f[start + E[i]])
    BY <1>6, <2>3, <2>4
  <2>6. ReadOn(json, at, rest(i)) = [text |-> <<v[i]>> \o SubSeq(v, i + 1, n), next |-> p + Len(t) + 2]
    BY <2>4 DEF ReadOn
  <2>7. <<v[i]>> \o SubSeq(v, i + 1, n) = SubSeq(v, i, n)
    <3>1. i \in 1..Len(v)
      BY <1>3 DEF n
    <3> QED
      BY <3>1, HeadOfRest DEF n
  <2>8. i - 1 + 1 = i
    BY <2>1
  <2>9. f[at] = rest(i - 1)
    BY <1>8, <2>5, <2>6, <2>7, <2>8
  <2> QED
    BY <2>9 DEF at
<1>9. ASSUME NEW k \in Nat, k \in Good
      PROVE  k + 1 \in Good
  <2> SUFFICES ASSUME k + 1 <= n
               PROVE  f[start + E[n - (k + 1)]] = rest(n - (k + 1))
    OBVIOUS
  <2> DEFINE i == n - k
  <2>1. i \in 1..n /\ i - 1 = n - (k + 1) /\ k <= n
    BY <1>3
  <2> HIDE DEF rest, start
  <2>2. f[start + E[i]] = rest(i)
    BY <1>9, <2>1
  <2> HIDE DEF i
  <2>3. f[start + E[i - 1]] = rest(i - 1)
    BY <1>8, <2>1, <2>2
  <2> QED
    BY <2>1, <2>3
<1>10. Nat \subseteq Good
  <2> HIDE DEF Good
  <2> QED
    BY <1>7, <1>9, AllNumbers
<1>11. f[start] = rest(0)
  <2>1. n \in Nat /\ n <= n /\ n - n = 0 /\ start + E[0] = start
    BY <1>3, <1>4
  <2>2. f[start + E[n - n]] = rest(n - n)
    <3> HIDE DEF rest, start
    <3> QED
      BY <1>10, <2>1
  <2> HIDE DEF rest, start
  <2> QED
    BY <2>1, <2>2
<1>12. rest(0) = [text |-> v, next |-> p + Len(t) + 2]
  <2>1. SubSeq(v, 1, n) = v
    BY <1>3 DEF n
  <2>2. SubSeq(v, 0 + 1, n) = SubSeq(v, 1, n)
    OBVIOUS
  <2> QED
    BY <2>1, <2>2
<1> QED
  BY <1>2, <1>11, <1>12 DEF t

\* A value without those characters is written as it is.
LEMMA PlainIsKept ==
  ASSUME NEW S, NEW v \in Seq(S), \A i \in 1..Len(v) : v[i] \notin Special
  PROVE  JsonEscape(v) = v
<1> DEFINE T == S \cup {Backslash}
           t == JsonEscape(v)
           n == Len(v)
<1>1. v \in Seq(T) /\ n \in Nat
  <2>1. S \subseteq T
    OBVIOUS
  <2> HIDE DEF T
  <2> QED
    BY <2>1, SeqMonotonic
<1>2. t \in Seq(T) /\ \E E : Escapes(v, t, E)
  <2>1. Backslash \in T
    OBVIOUS
  <2> HIDE DEF T
  <2> QED
    BY <1>1, <2>1, EscapeIs
<1>3. PICK E : Escapes(v, t, E)
  BY <1>2
<1>4. /\ E \in [0..n -> Nat] /\ E[0] = 0 /\ E[n] = Len(t)
      /\ \A i \in 1..n : E[i] = E[i - 1] + 1 /\ t[E[i]] = v[i]
  BY <1>3 DEF Escapes
<1> HIDE DEF n, t, T
<1> DEFINE Good == {k \in Nat : k <= n => E[k] = k}
<1>5. 0 \in Good
  BY <1>4
<1>6. ASSUME NEW k \in Nat, k \in Good
      PROVE  k + 1 \in Good
  <2> DEFINE i == k + 1
  <2>1. i \in Nat /\ i - 1 = k /\ (i <= n => i \in 1..n /\ k <= n)
    BY <1>1
  <2> HIDE DEF i
  <2>2. i <= n => E[i] = k + 1
    BY <1>4, <1>6, <2>1
  <2>3. i = k + 1
    BY DEF i
  <2>4. i \in Good
    BY <2>1, <2>2, <2>3
  <2> HIDE DEF Good
  <2> QED
    BY <2>3, <2>4
<1>7. Nat \subseteq Good
  <2> HIDE DEF Good
  <2> QED
    BY <1>5, <1>6, AllNumbers
<1>8. \A i \in 1..n : t[i] = v[i]
  <2> TAKE i \in 1..n
  <2>1. i \in Nat /\ i <= n
    BY <1>1
  <2>2. E[i] = i
    BY <1>7, <2>1
  <2> QED
    BY <1>4, <2>2
<1>9. Len(t) = n
  <2>1. n <= n
    BY <1>1
  <2> QED
    BY <1>1, <1>4, <1>7, <2>1
<1>10. t = v
  BY <1>1, <1>2, <1>8, <1>9, SeqEqual DEF n
<1> QED
  BY <1>10 DEF t

\* The name of the field behind a position, and its value
NameAt(json, at)  == StringAt(json, at + 2)
ValueAfter(json, at) == StringAt(json, NameAt(json, at).next + 2)
PairAt(json, at)  == <<NameAt(json, at).text, ValueAfter(json, at).text>>
FieldsFrom(json, f) ==
  \A at \in 1..Len(json) :
    f[at] = IF json[at] = "}" THEN {}
            ELSE {PairAt(json, at)} \cup
                   (IF ValueAfter(json, at).next \in (at + 1)..Len(json)
                    THEN f[ValueAfter(json, at).next] ELSE {})

\* A parser reads the fields of an object one by one, up to the brace.
LEMMA FieldsAre ==
  ASSUME NEW S, NEW json \in Seq(S)
  PROVE  \E f : FieldsFrom(json, f) /\ FieldsOf(json) = f[1]
<1> DEFINE D    == 1..Len(json)
           V    == SUBSET {PairAt(json, at) : at \in D}
           next(at) == ValueAfter(json, at).next
           goes(at) == json[at] # "}" /\ next(at) \in (at + 1)..Len(json)
           Stop == {at \in D : ~goes(at)}
           base == [at \in D |-> IF json[at] = "}" THEN {} ELSE {PairAt(json, at)}]
           pred == [at \in D |-> IF at \in Stop THEN at ELSE next(at)]
           size == [at \in D |-> Len(json) - at]
           step == [s \in D \X V |-> {PairAt(json, s[1])} \cup s[2]]
           Turn(f) == [at \in D |->
             IF json[at] = "}" THEN {}
             ELSE LET name  == StringAt(json, at + 2)
                      value == StringAt(json, name.next + 2)
                      rest  == IF value.next \in (at + 1)..Len(json) THEN f[value.next] ELSE {}
                  IN {<<name.text, value.text>>} \cup rest]
           fields == CHOOSE f : f = Turn(f)
<1>1. Len(json) \in Nat /\ \A at \in D : at \in Nat \ {0} /\ at <= Len(json)
  OBVIOUS
<1>2. ASSUME NEW at \in D \ Stop
      PROVE  /\ json[at] # "}" /\ pred[at] = next(at) /\ next(at) \in D /\ next(at) > at
             /\ next(at) \in (at + 1)..Len(json)
  <2> DEFINE m == next(at)
  <2>3. at \in Nat \ {0}
    BY <1>1
  <2>1. json[at] # "}" /\ m \in (at + 1)..Len(json) /\ pred[at] = m
    OBVIOUS
  <2>4. m \in (at + 1)..Len(json) /\ Len(json) \in Nat
    BY <1>1, <2>1
  <2> HIDE DEF m, next, goes, Stop, pred
  <2>2. m \in D /\ m > at
    BY <2>3, <2>4
  <2> QED
    BY <2>1, <2>2 DEF m
<1>3. /\ base \in [D -> V] /\ step \in [D \X V -> V] /\ size \in [D -> Nat] /\ pred \in [D -> D]
  <2>1. \A at \in D : pred[at] \in D
    BY <1>2
  <2>2. \A at \in D : size[at] \in Nat
    BY <1>1
  <2>3. \A at \in D : base[at] \in V
    OBVIOUS
  <2>4. \A s \in D \X V : step[s] \in V
    <3> TAKE s \in D \X V
    <3>1. s[1] \in D /\ s[2] \in V
      OBVIOUS
    <3>2. {PairAt(json, s[1])} \cup s[2] \in V
      BY <3>1
    <3>3. step[s] = {PairAt(json, s[1])} \cup s[2]
      OBVIOUS
    <3> QED
      BY <3>2, <3>3
  <2>5. /\ size = [at \in D |-> size[at]] /\ pred = [at \in D |-> pred[at]]
        /\ base = [at \in D |-> base[at]] /\ step = [s \in D \X V |-> step[s]]
    OBVIOUS
  <2> HIDE DEF D, V, size, pred, base, step
  <2> QED
    BY <2>1, <2>2, <2>3, <2>4, <2>5
<1>4. Descends(D, Stop, pred, size)
  <2>1. ASSUME NEW at \in D \ Stop
        PROVE  size[pred[at]] < size[at]
    <3>1. pred[at] \in D /\ pred[at] > at /\ at \in D
      BY <1>2
    <3>2. size[pred[at]] = Len(json) - pred[at] /\ size[at] = Len(json) - at
      BY <3>1
    <3> DEFINE m == pred[at]
               n == Len(json)
    <3>3. m \in Nat /\ at \in Nat /\ m > at /\ n \in Nat
      BY <1>1, <3>1
    <3>4. size[m] = n - m /\ size[at] = n - at
      BY <3>2
    <3> HIDE DEF size, m, n, D, Stop, next, goes, pred
    <3>5. size[m] < size[at]
      BY <3>3, <3>4
    <3> QED
      BY <3>5 DEF m
  <2> HIDE DEF D, Stop, pred, size
  <2> QED
    BY <1>3, <2>1 DEF Descends
<1>5. PICK f \in [D -> V] : \A at \in D : Recurs(f, at, Stop, base, pred, step)
  <2> HIDE DEF D, V, Stop, base, pred, size, step
  <2> QED
    BY <1>3, <1>4, RecursionExists
<1>6. \A h : \A at \in D : Turn(h)[at] =
        IF json[at] = "}" THEN {}
        ELSE {PairAt(json, at)} \cup (IF next(at) \in (at + 1)..Len(json) THEN h[next(at)] ELSE {})
  BY DEF PairAt, NameAt, ValueAfter
<1>7. f = Turn(f)
  <2>1. ASSUME NEW at \in D
        PROVE  f[at] = Turn(f)[at]
    <3>1. CASE at \in Stop
      <4>1. f[at] = base[at]
        BY <1>5, <3>1 DEF Recurs
      <4>2. base[at] = IF json[at] = "}" THEN {} ELSE {PairAt(json, at)}
        OBVIOUS
      <4>3. json[at] = "}" \/ next(at) \notin (at + 1)..Len(json)
        BY <3>1
      <4> HIDE DEF Turn, base, next
      <4> QED
        BY <1>6, <4>1, <4>2, <4>3
    <3>2. CASE at \notin Stop
      <4>1. /\ json[at] # "}" /\ pred[at] = next(at) /\ next(at) \in D
            /\ next(at) \in (at + 1)..Len(json)
        BY <1>2, <3>2
      <4>2. f[at] = step[<<at, f[pred[at]]>>] /\ f[pred[at]] \in V
        <5> HIDE DEF D, V, Stop, base, pred, step, next
        <5> QED
          BY <1>5, <3>2, <4>1 DEF Recurs
      <4>3. step[<<at, f[pred[at]]>>] = {PairAt(json, at)} \cup f[pred[at]]
        <5> HIDE DEF D, V, pred
        <5> QED
          BY <4>2
      <4> HIDE DEF Turn, step, pred, next
      <4> QED
        BY <1>6, <4>1, <4>2, <4>3
    <3> QED
      BY <3>1, <3>2
  <2> DEFINE g == Turn(f)
  <2>2. g = [at \in D |-> g[at]]
    OBVIOUS
  <2> HIDE DEF g, D
  <2> QED
    BY <2>1, <2>2 DEF g
<1>8. FieldsOf(json) = fields[1]
  BY Zenon DEF FieldsOf
<1>9. fields = Turn(fields)
  <2> HIDE DEF Turn
  <2> QED
    BY <1>7, Zenon
<1> HIDE DEF fields
<1>10. FieldsFrom(json, fields)
  <2>1. \A at \in D : fields[at] =
          IF json[at] = "}" THEN {}
          ELSE {PairAt(json, at)} \cup (IF next(at) \in (at + 1)..Len(json) THEN fields[next(at)] ELSE {})
    <3> HIDE DEF Turn, next
    <3> QED
      BY <1>6, <1>9
  <2> QED
    BY <2>1 DEF FieldsFrom
<1> QED
  BY <1>8, <1>10

\* A field with its name and value escaped stands behind a position
FieldStands(S, json, at, name, value, ln, lv, to) ==
  /\ Backslash \in S /\ json \in Seq(S) /\ name \in Seq(S) /\ value \in Seq(S)
  /\ at \in Nat \ {0} /\ ln \in Nat /\ lv \in Nat /\ Len(json) \in Nat
  /\ ln = Len(JsonEscape(name)) /\ lv = Len(JsonEscape(value))
  /\ json[at] # "}"
  /\ Stands(json, at + 1, JsonEscape(name)) /\ json[at + ln + 2] = Quote
  /\ Stands(json, at + ln + 4, JsonEscape(value)) /\ json[at + ln + lv + 5] = Quote
  /\ to = at + ln + lv + 6 /\ to <= Len(json)

\* It is read from there as it was before it was escaped.
LEMMA FieldReadBack ==
  ASSUME NEW S, NEW json, NEW f, FieldsFrom(json, f),
         NEW at, NEW name, NEW value, NEW ln, NEW lv, NEW to,
         FieldStands(S, json, at, name, value, ln, lv, to)
  PROVE  f[at] = {<<name, value>>} \cup f[to]
<1> DEFINE last == Len(json)
<1>9. Backslash \in S /\ json \in Seq(S) /\ name \in Seq(S) /\ value \in Seq(S)
  BY DEF FieldStands
<1>1. /\ at \in Nat \ {0} /\ ln \in Nat /\ lv \in Nat /\ last \in Nat
      /\ at + ln + lv + 6 <= last /\ to = at + ln + lv + 6
  BY DEF FieldStands
<1>2. StringAt(json, at + 2) = [text |-> name, next |-> at + ln + 3]
  <2> DEFINE p == at + 1
  <2>1. p \in Nat /\ p + ln + 1 = at + ln + 2 /\ p + 1 = at + 2 /\ p + ln + 2 = at + ln + 3
        /\ p + ln + 1 <= last
    BY <1>1
  <2>2. Stands(json, p, JsonEscape(name)) /\ ln = Len(JsonEscape(name)) /\ json[p + ln + 1] = Quote
    <3>1. Stands(json, at + 1, JsonEscape(name)) /\ ln = Len(JsonEscape(name)) /\ json[at + ln + 2] = Quote
      BY DEF FieldStands
    <3> HIDE DEF p
    <3>2. json[p + ln + 1] = Quote
      BY <2>1, <3>1
    <3> QED
      BY <3>1, <3>2 DEF p
  <2> HIDE DEF p
  <2>3. StringAt(json, p + 1) = [text |-> name, next |-> p + ln + 2]
    BY <1>9, <2>1, <2>2, EscapedReadBack DEF last
  <2> QED
    BY <2>1, <2>3
<1>3. StringAt(json, at + ln + 5) = [text |-> value, next |-> at + ln + lv + 6]
  <2> DEFINE p == at + ln + 4
  <2>1. p \in Nat /\ p + lv + 1 = at + ln + lv + 5 /\ p + 1 = at + ln + 5
        /\ p + lv + 2 = at + ln + lv + 6 /\ p + lv + 1 <= last
    BY <1>1
  <2>2. Stands(json, p, JsonEscape(value)) /\ lv = Len(JsonEscape(value)) /\ json[p + lv + 1] = Quote
    <3>1. /\ Stands(json, at + ln + 4, JsonEscape(value)) /\ lv = Len(JsonEscape(value))
          /\ json[at + ln + lv + 5] = Quote
      BY DEF FieldStands
    <3> HIDE DEF p
    <3>2. json[p + lv + 1] = Quote
      BY <2>1, <3>1
    <3> QED
      BY <3>1, <3>2 DEF p
  <2> HIDE DEF p
  <2>3. StringAt(json, p + 1) = [text |-> value, next |-> p + lv + 2]
    BY <1>9, <2>1, <2>2, EscapedReadBack DEF last
  <2> QED
    BY <2>1, <2>3
<1>4. NameAt(json, at).text = name /\ NameAt(json, at).next = at + ln + 3
  BY <1>2 DEF NameAt
<1>5. ValueAfter(json, at).text = value /\ ValueAfter(json, at).next = at + ln + lv + 6
  <2>1. at + ln + 3 + 2 = at + ln + 5
    BY <1>1
  <2>2. NameAt(json, at).next + 2 = at + ln + 5
    BY <1>4, <2>1
  <2> QED
    BY <1>3, <2>2 DEF ValueAfter
<1>6. PairAt(json, at) = <<name, value>>
  BY <1>4, <1>5 DEF PairAt
<1>7. at + ln + lv + 6 \in (at + 1)..last /\ at \in 1..last
  BY <1>1
<1>8. f[at] = {PairAt(json, at)} \cup
                (IF ValueAfter(json, at).next \in (at + 1)..last
                 THEN f[ValueAfter(json, at).next] ELSE {})
  <2>1. json[at] # "}"
    BY DEF FieldStands
  <2> QED
    BY <1>7, <2>1 DEF FieldsFrom, last
<1> HIDE DEF last
<1> QED
  BY <1>1, <1>5, <1>6, <1>7, <1>8

\* What stands in a text still stands there when more is put behind it, and so does that.
LEMMA StandsBehind ==
  ASSUME NEW S, NEW t \in Seq(S), NEW u \in Seq(S)
  PROVE  /\ t \o u \in Seq(S) /\ Len(t \o u) = Len(t) + Len(u)
         /\ Stands(t \o u, Len(t), u)
         /\ \A p, s : Stands(t, p, s) => Stands(t \o u, p, s)
<1> DEFINE both == t \o u
<1>1. Appended(S, t, u, both)
  BY Behind
<1>2. Len(t) \in Nat /\ Len(u) \in Nat
  OBVIOUS
<1> HIDE DEF both
<1>3. /\ both \in Seq(S) /\ Len(both) = Len(t) + Len(u)
      /\ \A i \in 1..Len(t) : both[i] = t[i]
      /\ \A i \in 1..Len(u) : both[Len(t) + i] = u[i]
  BY <1>1 DEF Appended
<1>4. Stands(both, Len(t), u)
  BY <1>2, <1>3 DEF Stands
<1>5. ASSUME NEW p, NEW s, Stands(t, p, s)
      PROVE  Stands(both, p, s)
  <2> DEFINE n == Len(s)
             l == Len(t)
  <2>1. p \in Nat /\ n \in Nat /\ p + n <= l /\ l \in Nat /\ \A i \in 1..n : t[p + i] = s[i]
    BY <1>2, <1>5 DEF Stands
  <2>2. \A i \in 1..l : both[i] = t[i]
    BY <1>3
  <2>3. p + n <= Len(both)
    BY <1>2, <1>3, <2>1
  <2> HIDE DEF n, l
  <2>4. \A i \in 1..n : both[p + i] = s[i]
    <3> TAKE i \in 1..n
    <3> DEFINE j == p + i
    <3>1. j \in 1..l
      BY <2>1
    <3>2. t[j] = s[i]
      BY <2>1
    <3> HIDE DEF j
    <3>3. both[j] = s[i]
      BY <2>2, <3>1, <3>2
    <3> QED
      BY <3>3 DEF j
  <2> QED
    BY <2>1, <2>3, <2>4 DEF Stands, n
<1> QED
  BY <1>3, <1>4, <1>5 DEF both

\* The parts of a body
Opening == <<"{", Quote, "KeyId", Quote, ":", Quote>>
Between == <<Quote, ",", Quote, "Message", Quote, ":", Quote>>
Closing == <<Quote, ",", Quote, "MessageType", Quote, ":", Quote, "DIGEST", Quote,
             ",", Quote, "SigningAlgorithm", Quote, ":", Quote, "ECDSA_SHA_256", Quote, "}">>
BodyChars == {"{", Quote, "KeyId", ":", ",", "Message", "MessageType", "DIGEST",
              "SigningAlgorithm", "ECDSA_SHA_256", "}", Backslash}

\* Their characters, one by one.
LEMMA BodyPartsAre ==
  ASSUME NEW S, BodyChars \subseteq S
  PROVE  /\ Opening \in Seq(S) /\ Len(Opening) = 6
         /\ Opening[1] # "}" /\ Opening[3] = "KeyId" /\ Opening[4] = Quote
         /\ Between \in Seq(S) /\ Len(Between) = 7
         /\ Between[1] = Quote /\ Between[2] # "}" /\ Between[4] = "Message" /\ Between[5] = Quote
         /\ Closing \in Seq(S) /\ Len(Closing) = 18
         /\ Closing[1] = Quote /\ Closing[2] # "}" /\ Closing[4] = "MessageType"
         /\ Closing[5] = Quote /\ Closing[8] = "DIGEST" /\ Closing[9] = Quote
         /\ Closing[10] # "}" /\ Closing[12] = "SigningAlgorithm" /\ Closing[13] = Quote
         /\ Closing[16] = "ECDSA_SHA_256" /\ Closing[17] = Quote /\ Closing[18] = "}"
<1> DEFINE o == "{"
           q == Quote
           k == "KeyId"
           c == ":"
           a == ","
           m == "Message"
           y == "MessageType"
           d == "DIGEST"
           g == "SigningAlgorithm"
           h == "ECDSA_SHA_256"
           e == "}"
<1>1. o \in S /\ q \in S /\ k \in S /\ c \in S /\ a \in S /\ m \in S /\ y \in S /\ d \in S
      /\ g \in S /\ h \in S /\ e \in S
  BY DEF BodyChars
<1>2. o # e /\ a # e
  OBVIOUS
<1> HIDE DEF o, q, k, c, a, m, y, d, g, h, e
<1>3. <<o, q, k, q, c, q>> \in Seq(S) /\ Len(<<o, q, k, q, c, q>>) = 6
      /\ <<o, q, k, q, c, q>>[1] = o /\ <<o, q, k, q, c, q>>[3] = k /\ <<o, q, k, q, c, q>>[4] = q
  BY <1>1
<1>4. /\ <<q, a, q, m, q, c, q>> \in Seq(S) /\ Len(<<q, a, q, m, q, c, q>>) = 7
      /\ <<q, a, q, m, q, c, q>>[1] = q /\ <<q, a, q, m, q, c, q>>[2] = a
      /\ <<q, a, q, m, q, c, q>>[4] = m /\ <<q, a, q, m, q, c, q>>[5] = q
  BY <1>1
<1> DEFINE z == <<q, a, q, y, q, c, q, d, q, a, q, g, q, c, q, h, q, e>>
<1>5. /\ z \in Seq(S) /\ Len(z) = 18
      /\ z[1] = q /\ z[2] = a /\ z[4] = y /\ z[5] = q /\ z[8] = d /\ z[9] = q
      /\ z[10] = a /\ z[12] = g /\ z[13] = q /\ z[16] = h /\ z[17] = q /\ z[18] = e
  <2>1. z \in Seq(S)
    BY <1>1
  <2> QED
    BY <2>1
<1>6. /\ Opening = <<o, q, k, q, c, q>> /\ Between = <<q, a, q, m, q, c, q>>
      /\ Closing = z
  BY DEF Opening, Between, Closing, o, q, k, c, a, m, y, d, g, h, e
<1> HIDE DEF z
<1>7. /\ Opening \in Seq(S) /\ Len(Opening) = 6
      /\ Opening[1] # e /\ Opening[3] = k /\ Opening[4] = q
  BY <1>2, <1>3, <1>6
<1>8. /\ Between \in Seq(S) /\ Len(Between) = 7
      /\ Between[1] = q /\ Between[2] # e /\ Between[4] = m /\ Between[5] = q
  BY <1>2, <1>4, <1>6
<1>9. /\ Closing \in Seq(S) /\ Len(Closing) = 18
      /\ Closing[1] = q /\ Closing[2] # e /\ Closing[4] = y
      /\ Closing[5] = q /\ Closing[8] = d /\ Closing[9] = q
      /\ Closing[10] # e /\ Closing[12] = g /\ Closing[13] = q
      /\ Closing[16] = h /\ Closing[17] = q /\ Closing[18] = e
  BY <1>2, <1>5, <1>6
<1> QED
  BY <1>7, <1>8, <1>9 DEF o, q, k, c, a, m, y, d, g, h, e

\* Where the parts of a body stand: the key id in JSON, of length e, and the message, of length m
BodyStands(json, key, message, e, m) ==
  /\ e \in Nat /\ m \in Nat /\ Len(json) = 31 + e + m /\ Len(key) = e /\ Len(message) = m
  /\ Stands(json, 0, Opening) /\ Stands(json, 6, key) /\ Stands(json, 6 + e, Between)
  /\ Stands(json, 13 + e, message) /\ Stands(json, 13 + e + m, Closing)

\* nr_kms_sign_sha256_digest writes them there.
LEMMA BodyIs ==
  ASSUME NEW S, BodyChars \subseteq S, NEW keyId \in Seq(S), NEW message \in Seq(S)
  PROVE  /\ BuildJsonBody(keyId, message) \in Seq(S)
         /\ BodyStands(BuildJsonBody(keyId, message), JsonEscape(keyId), message,
                       Len(JsonEscape(keyId)), Len(message))
<1> DEFINE key == JsonEscape(keyId)
           e  == Len(key)
           m  == Len(message)
           t1 == Opening \o key
           t2 == t1 \o Between
           t3 == t2 \o message
           t4 == t3 \o Closing
<1>1. BuildJsonBody(keyId, message) = t4
  BY DEF BuildJsonBody, Opening, Between, Closing
<1>2. key \in Seq(S)
  <2>1. Backslash \in S
    BY DEF BodyChars
  <2> QED
    BY <2>1, EscapeIs
<1> HIDE DEF key
<1>3. /\ Opening \in Seq(S) /\ Len(Opening) = 6 /\ Between \in Seq(S) /\ Len(Between) = 7
      /\ Closing \in Seq(S) /\ Len(Closing) = 18 /\ e \in Nat /\ m \in Nat
  <2>1. e \in Nat /\ m \in Nat
    BY <1>2
  <2> QED
    BY <2>1, BodyPartsAre
<1>4. Stands(Opening, 0, Opening)
  BY <1>3 DEF Stands
<1>5. /\ t1 \in Seq(S) /\ Len(t1) = Len(Opening) + e /\ Stands(t1, Len(Opening), key)
      /\ \A p, s : Stands(Opening, p, s) => Stands(t1, p, s)
  BY <1>2, <1>3, StandsBehind
<1> HIDE DEF t1
<1>6. Len(t1) = 6 + e /\ Stands(t1, 0, Opening) /\ Stands(t1, 6, key)
  BY <1>3, <1>4, <1>5
<1>7. /\ t2 \in Seq(S) /\ Len(t2) = Len(t1) + Len(Between) /\ Stands(t2, Len(t1), Between)
      /\ \A p, s : Stands(t1, p, s) => Stands(t2, p, s)
  BY <1>3, <1>5, StandsBehind
<1> HIDE DEF t2
<1>8. Len(t2) = 13 + e
  BY <1>3, <1>6, <1>7
<1>9. Stands(t2, 0, Opening) /\ Stands(t2, 6, key) /\ Stands(t2, 6 + e, Between)
  BY <1>6, <1>7, Zenon
<1>10. /\ t3 \in Seq(S) /\ Len(t3) = Len(t2) + m /\ Stands(t3, Len(t2), message)
       /\ \A p, s : Stands(t2, p, s) => Stands(t3, p, s)
  BY <1>3, <1>7, StandsBehind
<1> HIDE DEF t3
<1>11. Len(t3) = 13 + e + m
  BY <1>3, <1>8, <1>10
<1>12. /\ Stands(t3, 0, Opening) /\ Stands(t3, 6, key) /\ Stands(t3, 6 + e, Between)
       /\ Stands(t3, 13 + e, message)
  BY <1>8, <1>9, <1>10, Zenon
<1>13. /\ t4 \in Seq(S) /\ Len(t4) = Len(t3) + Len(Closing) /\ Stands(t4, Len(t3), Closing)
       /\ \A p, s : Stands(t3, p, s) => Stands(t4, p, s)
  BY <1>3, <1>10, StandsBehind
<1> HIDE DEF t4
<1>14. Len(t4) = 31 + e + m
  BY <1>3, <1>11, <1>13
<1>15. /\ Stands(t4, 0, Opening) /\ Stands(t4, 6, key) /\ Stands(t4, 6 + e, Between)
       /\ Stands(t4, 13 + e, message) /\ Stands(t4, 13 + e + m, Closing)
  BY <1>11, <1>12, <1>13, Zenon
<1>16. BodyStands(t4, key, message, e, m)
  BY <1>3, <1>14, <1>15 DEF BodyStands
<1> QED
  BY <1>1, <1>13, <1>16 DEF key

\* A text of one character is found by that character.
LEMMA StandsOne ==
  ASSUME NEW S, NEW c \in S, c \notin Special, NEW json, NEW p \in Nat, Len(json) \in Nat,
         p + 1 <= Len(json), json[p + 1] = c
  PROVE  <<c>> \in Seq(S) /\ Len(JsonEscape(<<c>>)) = 1 /\ Stands(json, p, JsonEscape(<<c>>))
<1>1. <<c>> \in Seq(S) /\ Len(<<c>>) = 1 /\ <<c>>[1] = c
  OBVIOUS
<1>2. \A i \in 1..Len(<<c>>) : <<c>>[i] \notin Special
  BY <1>1
<1>3. JsonEscape(<<c>>) = <<c>>
  BY <1>1, <1>2, PlainIsKept
<1>4. Stands(json, p, <<c>>)
  <2>1. \A i \in 1..1 : i = 1
    OBVIOUS
  <2> QED
    BY <1>1, <2>1 DEF Stands
<1> QED
  BY <1>1, <1>3, <1>4

\* KMS reads from the body the key id, whatever characters it has, and the message, which
\* base64 keeps free of quotes and backslashes: json_escape leaves neither a quote that ends
\* the value early nor a backslash that swallows the one behind it.
THEOREM BodyReadBack ==
  ASSUME NEW S, NEW keyId \in Seq(S), NEW message \in Seq(S),
         \A i \in 1..Len(message) : message[i] \notin {Quote, Backslash}
  PROVE  FieldsOf(BuildJsonBody(keyId, message)) =
           {<< <<"KeyId">>, keyId>>, << <<"Message">>, message>>,
            << <<"MessageType">>, <<"DIGEST">> >>,
            << <<"SigningAlgorithm">>, <<"ECDSA_SHA_256">> >>}
<1> DEFINE T    == S \cup BodyChars
           json == BuildJsonBody(keyId, message)
           key  == JsonEscape(keyId)
           e    == Len(key)
           m    == Len(message)
<1>1. keyId \in Seq(T) /\ message \in Seq(T) /\ BodyChars \subseteq T /\ Backslash \in T
  <2>1. S \subseteq T /\ BodyChars \subseteq T /\ Backslash \in BodyChars
    BY DEF BodyChars
  <2> HIDE DEF T
  <2> QED
    BY <2>1, SeqMonotonic
<1> HIDE DEF T
<1>2. json \in Seq(T) /\ BodyStands(json, key, message, e, m)
  BY <1>1, BodyIs
<1>3. PICK f : FieldsFrom(json, f) /\ FieldsOf(json) = f[1]
  BY <1>2, FieldsAre
<1>17. FieldsFrom(json, f)
  BY <1>3
<1>18. json \in Seq(T) /\ keyId \in Seq(T) /\ message \in Seq(T) /\ Backslash \in T
  BY <1>1, <1>2
<1>4. JsonEscape(message) = message
  BY PlainIsKept DEF Special
<1> HIDE DEF json, key
<1>5. /\ e \in Nat /\ m \in Nat /\ Len(json) = 31 + e + m /\ Len(json) \in Nat
      /\ Stands(json, 6, key) /\ Stands(json, 13 + e, message)
  BY <1>2 DEF BodyStands
<1> HIDE DEF e, m
<1>6. /\ json[1] # "}" /\ json[3] = "KeyId" /\ json[4] = Quote
  <2>1. Stands(json, 0, Opening) /\ Len(Opening) = 6
    BY <1>1, <1>2, BodyPartsAre DEF BodyStands
  <2>2. \A i \in 1..6 : json[i] = Opening[i]
    <3>1. \A i \in 1..6 : json[0 + i] = Opening[i]
      BY <2>1 DEF Stands
    <3> QED
      BY <3>1
  <2>3. json[1] = Opening[1] /\ json[3] = Opening[3] /\ json[4] = Opening[4]
    BY <2>2
  <2> QED
    BY <1>1, <2>3, BodyPartsAre
<1>7. /\ json[7 + e] = Quote /\ json[8 + e] # "}" /\ json[10 + e] = "Message"
      /\ json[11 + e] = Quote
  <2>1. Stands(json, 6 + e, Between) /\ Len(Between) = 7
    BY <1>1, <1>2, BodyPartsAre DEF BodyStands
  <2>2. \A i \in 1..7 : json[6 + e + i] = Between[i]
    BY <2>1 DEF Stands
  <2>3. 6 + e + 1 = 7 + e /\ 6 + e + 2 = 8 + e /\ 6 + e + 4 = 10 + e /\ 6 + e + 5 = 11 + e
    BY <1>5
  <2>4. /\ json[6 + e + 1] = Between[1] /\ json[6 + e + 2] = Between[2]
        /\ json[6 + e + 4] = Between[4] /\ json[6 + e + 5] = Between[5]
    BY <2>2
  <2> QED
    BY <1>1, <2>3, <2>4, BodyPartsAre
<1> DEFINE g == e + m
<1>8. g \in Nat /\ g = e + m
  BY <1>5
<1>9. /\ json[14 + g] = Quote /\ json[15 + g] # "}" /\ json[17 + g] = "MessageType"
      /\ json[18 + g] = Quote /\ json[21 + g] = "DIGEST" /\ json[22 + g] = Quote
      /\ json[23 + g] # "}" /\ json[25 + g] = "SigningAlgorithm" /\ json[26 + g] = Quote
      /\ json[29 + g] = "ECDSA_SHA_256" /\ json[30 + g] = Quote /\ json[31 + g] = "}"
  <2> DEFINE p == 13 + e + m
  <2>1. Stands(json, p, Closing) /\ Len(Closing) = 18
    BY <1>1, <1>2, BodyPartsAre DEF BodyStands
  <2> HIDE DEF p
  <2>2. \A i \in 1..18 : json[p + i] = Closing[i]
    BY <2>1 DEF Stands
  <2>3. /\ p + 1 = 14 + g /\ p + 2 = 15 + g /\ p + 4 = 17 + g /\ p + 5 = 18 + g
        /\ p + 8 = 21 + g /\ p + 9 = 22 + g /\ p + 10 = 23 + g /\ p + 12 = 25 + g
        /\ p + 13 = 26 + g /\ p + 16 = 29 + g /\ p + 17 = 30 + g /\ p + 18 = 31 + g
    BY <1>5, <1>8 DEF p
  <2> HIDE DEF g
  <2>4. /\ json[p + 1] = Closing[1] /\ json[p + 2] = Closing[2] /\ json[p + 4] = Closing[4]
        /\ json[p + 5] = Closing[5] /\ json[p + 8] = Closing[8] /\ json[p + 9] = Closing[9]
        /\ json[p + 10] = Closing[10] /\ json[p + 12] = Closing[12] /\ json[p + 13] = Closing[13]
        /\ json[p + 16] = Closing[16] /\ json[p + 17] = Closing[17] /\ json[p + 18] = Closing[18]
    BY <2>2
  <2> QED
    BY <1>1, <2>3, <2>4, BodyPartsAre
<1> HIDE DEF g
<1> DEFINE kn == "KeyId"
           mn == "Message"
           tn == "MessageType"
           dn == "DIGEST"
           sn == "SigningAlgorithm"
           an == "ECDSA_SHA_256"
<1>10. /\ kn \in T /\ mn \in T /\ tn \in T /\ dn \in T /\ sn \in T /\ an \in T
       /\ kn \notin Special /\ mn \notin Special /\ tn \notin Special /\ dn \notin Special
       /\ sn \notin Special /\ an \notin Special
  BY <1>1 DEF BodyChars, Special, Quote, Backslash
<1>11. /\ json[3] = kn /\ json[10 + e] = mn /\ json[17 + g] = tn /\ json[21 + g] = dn
       /\ json[25 + g] = sn /\ json[29 + g] = an
  BY <1>6, <1>7, <1>9
<1> HIDE DEF kn, mn, tn, dn, sn, an
<1>12. f[1] = {<< <<kn>>, keyId>>} \cup f[8 + e]
  <2>1. <<kn>> \in Seq(T) /\ Len(JsonEscape(<<kn>>)) = 1 /\ Stands(json, 2, JsonEscape(<<kn>>))
    <3>1. 2 \in Nat /\ 2 + 1 = 3 /\ 2 + 1 <= Len(json)
      BY <1>5
    <3>2. json[2 + 1] = kn
      BY <1>11, <3>1
    <3> QED
      BY <1>5, <1>10, <3>1, <3>2, StandsOne
  <2>2. 1 + 1 = 2 /\ 1 + 1 + 2 = 4 /\ 1 + 1 + 4 = 6 /\ 1 + 1 + e + 5 = 7 + e /\ 1 + 1 + e + 6 = 8 + e
        /\ 1 + 1 + e + 6 <= Len(json)
    BY <1>5
  <2>3. FieldStands(T, json, 1, <<kn>>, keyId, 1, e, 8 + e)
    <3>1. e = Len(JsonEscape(keyId)) /\ Stands(json, 6, JsonEscape(keyId))
      BY <1>5 DEF e, key
    <3> QED
      BY <1>5, <1>6, <1>7, <1>18, <2>1, <2>2, <3>1 DEF FieldStands
  <2> DEFINE name == <<kn>>
             at   == 1
             one  == 1
             to   == 8 + e
  <2>4. FieldStands(T, json, at, name, keyId, one, e, to)
    BY <2>1, <2>3
  <2> HIDE DEF name, at, one, to
  <2>5. f[at] = {<<name, keyId>>} \cup f[to]
    BY <1>17, <2>4, FieldReadBack
  <2> QED
    BY <2>5 DEF name, at, to
<1>13. f[8 + e] = {<< <<mn>>, message>>} \cup f[15 + g]
  <2> DEFINE at == 8 + e
  <2>0. at = 8 + e /\ 9 + e \in Nat /\ 9 + e + 1 = 10 + e /\ 9 + e + 1 <= Len(json)
    BY <1>5
  <2>1. <<mn>> \in Seq(T) /\ Len(JsonEscape(<<mn>>)) = 1 /\ Stands(json, 9 + e, JsonEscape(<<mn>>))
    BY <1>5, <1>10, <1>11, <2>0, StandsOne
  <2>2. /\ at \in Nat \ {0} /\ at + 1 = 9 + e /\ at + 1 + 2 = 11 + e /\ at + 1 + 4 = 13 + e
        /\ at + 1 + m + 5 = 14 + g /\ at + 1 + m + 6 = 15 + g /\ at + 1 + m + 6 <= Len(json)
    BY <1>5, <1>8
  <2>3. Stands(json, 13 + e, JsonEscape(message)) /\ m = Len(JsonEscape(message))
    BY <1>4, <1>5 DEF m
  <2> HIDE DEF at
  <2>4. FieldStands(T, json, at, <<mn>>, message, 1, m, 15 + g)
    <3>1. json[at] # "}" /\ json[at + 1 + 2] = Quote /\ json[at + 1 + m + 5] = Quote
      BY <1>7, <1>9, <2>0, <2>2
    <3>2. Stands(json, at + 1, JsonEscape(<<mn>>)) /\ Stands(json, at + 1 + 4, JsonEscape(message))
      BY <2>1, <2>2, <2>3
    <3> QED
      BY <1>5, <1>18, <2>1, <2>2, <2>3, <3>1, <3>2 DEF FieldStands
  <2> DEFINE name == <<mn>>
             one  == 1
             to   == 15 + g
  <2>6. FieldStands(T, json, at, name, message, one, m, to)
    BY <2>1, <2>4
  <2> HIDE DEF name, one, to
  <2>7. f[at] = {<<name, message>>} \cup f[to]
    BY <1>17, <2>6, FieldReadBack
  <2>5. f[at] = {<< <<mn>>, message>>} \cup f[15 + g]
    BY <2>7 DEF name, to
  <2> QED
    BY <2>0, <2>2, <2>5
<1>14. f[15 + g] = {<< <<tn>>, <<dn>> >>} \cup f[23 + g]
  <2> DEFINE at == 15 + g
  <2>0. /\ at = 15 + g /\ 16 + g \in Nat /\ 16 + g + 1 = 17 + g /\ 16 + g + 1 <= Len(json)
        /\ 20 + g \in Nat /\ 20 + g + 1 = 21 + g /\ 20 + g + 1 <= Len(json)
    BY <1>5, <1>8
  <2>1. <<tn>> \in Seq(T) /\ Len(JsonEscape(<<tn>>)) = 1 /\ Stands(json, 16 + g, JsonEscape(<<tn>>))
    BY <1>5, <1>10, <1>11, <2>0, StandsOne
  <2>2. <<dn>> \in Seq(T) /\ Len(JsonEscape(<<dn>>)) = 1 /\ Stands(json, 20 + g, JsonEscape(<<dn>>))
    BY <1>5, <1>10, <1>11, <2>0, StandsOne
  <2>3. /\ at \in Nat \ {0} /\ at + 1 = 16 + g /\ at + 1 + 2 = 18 + g /\ at + 1 + 4 = 20 + g
        /\ at + 1 + 1 + 5 = 22 + g /\ at + 1 + 1 + 6 = 23 + g /\ at + 1 + 1 + 6 <= Len(json)
    BY <1>5, <1>8
  <2> HIDE DEF at
  <2>4. FieldStands(T, json, at, <<tn>>, <<dn>>, 1, 1, 23 + g)
    <3>1. json[at] # "}" /\ json[at + 1 + 2] = Quote /\ json[at + 1 + 1 + 5] = Quote
      BY <1>9, <2>0, <2>3
    <3>2. Stands(json, at + 1, JsonEscape(<<tn>>)) /\ Stands(json, at + 1 + 4, JsonEscape(<<dn>>))
      BY <2>1, <2>2, <2>3
    <3> QED
      BY <1>5, <1>18, <2>1, <2>2, <2>3, <3>1, <3>2 DEF FieldStands
  <2> DEFINE name  == <<tn>>
             value == <<dn>>
             one   == 1
             to    == 23 + g
  <2>6. FieldStands(T, json, at, name, value, one, one, to)
    BY <2>1, <2>2, <2>4
  <2> HIDE DEF name, value, one, to
  <2>7. f[at] = {<<name, value>>} \cup f[to]
    BY <1>17, <2>6, FieldReadBack
  <2>5. f[at] = {<< <<tn>>, <<dn>> >>} \cup f[23 + g]
    BY <2>7 DEF name, value, to
  <2> QED
    BY <2>0, <2>3, <2>5
<1>19. f[23 + g] = {<< <<sn>>, <<an>> >>} \cup f[31 + g]
  <2> DEFINE at == 23 + g
  <2>0. /\ at = 23 + g /\ 24 + g \in Nat /\ 24 + g + 1 = 25 + g /\ 24 + g + 1 <= Len(json)
        /\ 28 + g \in Nat /\ 28 + g + 1 = 29 + g /\ 28 + g + 1 <= Len(json)
    BY <1>5, <1>8
  <2>1. <<sn>> \in Seq(T) /\ Len(JsonEscape(<<sn>>)) = 1 /\ Stands(json, 24 + g, JsonEscape(<<sn>>))
    BY <1>5, <1>10, <1>11, <2>0, StandsOne
  <2>2. <<an>> \in Seq(T) /\ Len(JsonEscape(<<an>>)) = 1 /\ Stands(json, 28 + g, JsonEscape(<<an>>))
    BY <1>5, <1>10, <1>11, <2>0, StandsOne
  <2>3. /\ at \in Nat \ {0} /\ at + 1 = 24 + g /\ at + 1 + 2 = 26 + g /\ at + 1 + 4 = 28 + g
        /\ at + 1 + 1 + 5 = 30 + g /\ at + 1 + 1 + 6 = 31 + g /\ at + 1 + 1 + 6 <= Len(json)
    BY <1>5, <1>8
  <2> HIDE DEF at
  <2>4. FieldStands(T, json, at, <<sn>>, <<an>>, 1, 1, 31 + g)
    <3>1. json[at] # "}" /\ json[at + 1 + 2] = Quote /\ json[at + 1 + 1 + 5] = Quote
      BY <1>9, <2>0, <2>3
    <3>2. Stands(json, at + 1, JsonEscape(<<sn>>)) /\ Stands(json, at + 1 + 4, JsonEscape(<<an>>))
      BY <2>1, <2>2, <2>3
    <3> QED
      BY <1>5, <1>18, <2>1, <2>2, <2>3, <3>1, <3>2 DEF FieldStands
  <2> DEFINE name  == <<sn>>
             value == <<an>>
             one   == 1
             to    == 31 + g
  <2>6. FieldStands(T, json, at, name, value, one, one, to)
    BY <2>1, <2>2, <2>4
  <2> HIDE DEF name, value, one, to
  <2>7. f[at] = {<<name, value>>} \cup f[to]
    BY <1>17, <2>6, FieldReadBack
  <2>5. f[at] = {<< <<sn>>, <<an>> >>} \cup f[31 + g]
    BY <2>7 DEF name, value, to
  <2> QED
    BY <2>0, <2>3, <2>5
<1>15. f[31 + g] = {}
  <2>1. 31 + g \in 1..Len(json)
    BY <1>5, <1>8
  <2> QED
    BY <1>3, <1>9, <2>1 DEF FieldsFrom
<1>16. FieldsOf(json) = {<< <<kn>>, keyId>>, << <<mn>>, message>>, << <<tn>>, <<dn>> >>,
                         << <<sn>>, <<an>> >>}
  <2>1. FieldsOf(json) = {<< <<kn>>, keyId>>} \cup
           ({<< <<mn>>, message>>} \cup
              ({<< <<tn>>, <<dn>> >>} \cup ({<< <<sn>>, <<an>> >>} \cup {})))
    BY <1>3, <1>12, <1>13, <1>14, <1>15, <1>19, Zenon
  <2>2. \A a, b, c, d : {a} \cup ({b} \cup ({c} \cup ({d} \cup {}))) = {a, b, c, d}
    OBVIOUS
  <2> QED
    BY <2>1, <2>2, Zenon
<1> QED
  BY <1>16 DEF json, kn, mn, tn, dn, sn, an
-----------------------------------------------------------------------------
(* The signature of the request.                                           *)

\* A fold with Hmac over four data is four Hmacs, the first datum innermost.
LEMMA FoldFour ==
  ASSUME NEW base, NEW seq, DOMAIN seq = 1..4
  PROVE  FoldLeft(Hmac, base, seq) = Hmac(Hmac(Hmac(Hmac(base, seq[1]), seq[2]), seq[3]), seq[4])
<1> DEFINE D == SUBSET (1..4)
           Turn(f) == [s \in D |-> IF s = {} THEN base ELSE Hmac(f[s \ {Max(s)}], seq[Max(s)])]
           f0 == [s \in D |-> base]
           f1 == Turn(f0)
           f2 == Turn(f1)
           f3 == Turn(f2)
           f4 == Turn(f3)
           f5 == Turn(f4)
           iter == CHOOSE f : f = Turn(f)
<1>1. \A f : \A s \in D : Turn(f)[s] = IF s = {} THEN base ELSE Hmac(f[s \ {Max(s)}], seq[Max(s)])
  OBVIOUS
<1>2. ASSUME NEW s \in D, s # {}
      PROVE  Max(s) \in s /\ \A m \in s : m <= Max(s)
  <2>1. 4 \in Nat /\ s \in SUBSET (0..4)
    OBVIOUS
  <2> QED
    BY <1>2, <2>1, MaxOf
<1>3. ASSUME NEW k \in 0..3, NEW f, NEW g, \A s \in SUBSET (1..k) : f[s] = g[s],
             NEW s \in SUBSET (1..(k + 1))
      PROVE  Turn(f)[s] = Turn(g)[s]
  <2>1. s \in D
    OBVIOUS
  <2> HIDE DEF Turn
  <2>2. CASE s = {}
    BY <1>1, <2>1, <2>2
  <2>3. CASE s # {}
    <3>1. Max(s) \in s /\ \A m \in s : m <= Max(s)
      BY <1>2, <2>1, <2>3
    <3> DEFINE x == Max(s)
    <3>0. \A m \in s : m \in 1..4
      BY <2>1
    <3>2. x \in s /\ x \in 1..4 /\ \A m \in s : m <= x
      BY <3>0, <3>1
    <3> HIDE DEF x
    <3>3. s \ {x} \in SUBSET (1..k)
      BY <3>2
    <3>4. f[s \ {x}] = g[s \ {x}]
      BY <1>3, <3>3
    <3> QED
      BY <1>1, <2>1, <2>3, <3>4 DEF x
  <2> QED
    BY <2>2, <2>3
<1> DEFINE E(k, f, g) == \A s \in SUBSET (1..k) : f[s] = g[s]
<1>4. \A k \in 0..3 : \A f, g : E(k, f, g) => E(k + 1, Turn(f), Turn(g))
  <2> HIDE DEF Turn
  <2> QED
    BY <1>3
<1>5. E(0, f0, f1)
  <2>1. \A s \in SUBSET (1..0) : s = {} /\ s \in D
    OBVIOUS
  <2>2. f0[{}] = base
    OBVIOUS
  <2>3. f1[{}] = base
    <3> HIDE DEF f0
    <3> QED
      BY <1>1
  <2> HIDE DEF f0, f1
  <2> QED
    BY <2>1, <2>2, <2>3
<1>6. f4 = f5
  <2> HIDE DEF E, Turn, f0
  <2>1. 0 \in 0..3 /\ 1 \in 0..3 /\ 2 \in 0..3 /\ 3 \in 0..3 /\ 0 + 1 = 1 /\ 1 + 1 = 2 /\ 2 + 1 = 3
        /\ 3 + 1 = 4
    OBVIOUS
  <2>2. E(1, f1, f2)
    BY <1>4, <1>5, <2>1
  <2>3. E(2, f2, f3)
    BY <1>4, <2>1, <2>2
  <2>4. E(3, f3, f4)
    BY <1>4, <2>1, <2>3
  <2>5. E(4, f4, f5)
    BY <1>4, <2>1, <2>4
  <2>6. \A s \in D : f4[s] = f5[s]
    BY <2>5 DEF E
  <2>7. f4 = [s \in D |-> f4[s]] /\ f5 = [s \in D |-> f5[s]]
    <3>1. \A f : Turn(f) = [s \in D |-> Turn(f)[s]]
      BY DEF Turn
    <3> QED
      BY <3>1
  <2> HIDE DEF f4, f5
  <2> QED
    BY <2>6, <2>7
<1>7. iter = Turn(iter)
  <2> HIDE DEF Turn, f3
  <2> QED
    BY <1>6, Zenon
<1>8. FoldLeft(Hmac, base, seq) = iter[1..4]
  BY Zenon DEF FoldLeft, MapThenFoldSet
<1> HIDE DEF iter
<1>9. \A k \in 1..4 : iter[1..k] = Hmac(iter[1..(k - 1)], seq[k])
  <2> TAKE k \in 1..4
  <2> DEFINE s == 1..k
  <2>1. s \in D /\ s # {} /\ s \in SUBSET Int /\ k \in s /\ \A m \in s : m <= k
    OBVIOUS
  <2>2. s \ {k} = 1..(k - 1)
    OBVIOUS
  <2> HIDE DEF s
  <2>3. Max(s) = k
    BY <2>1, MaxIs
  <2>4. Turn(iter)[s] = Hmac(iter[s \ {Max(s)}], seq[Max(s)])
    BY <2>1
  <2> HIDE DEF Turn
  <2>5. iter[s] = Hmac(iter[1..(k - 1)], seq[k])
    BY <1>7, <2>2, <2>3, <2>4
  <2> QED
    BY <2>5 DEF s
<1>10. iter[1..0] = base
  <2>1. 1..0 = {} /\ {} \in D
    OBVIOUS
  <2>2. Turn(iter)[{}] = base
    OBVIOUS
  <2> HIDE DEF Turn
  <2> QED
    BY <1>7, <2>1, <2>2
<1>11. /\ iter[1..1] = Hmac(iter[1..0], seq[1]) /\ iter[1..2] = Hmac(iter[1..1], seq[2])
       /\ iter[1..3] = Hmac(iter[1..2], seq[3]) /\ iter[1..4] = Hmac(iter[1..3], seq[4])
  <2>1. 1 \in 1..4 /\ 2 \in 1..4 /\ 3 \in 1..4 /\ 4 \in 1..4 /\ 1 - 1 = 0 /\ 2 - 1 = 1 /\ 3 - 1 = 2
        /\ 4 - 1 = 3
    OBVIOUS
  <2> QED
    BY <1>9, <2>1
<1> QED
  BY <1>8, <1>10, <1>11, Zenon

\* The value of a header of which there is one.
LEMMA ValueIs ==
  ASSUME NEW headers, NEW name, NEW value, <<name, value>> \in headers,
         \A h \in headers : h[1] = name => h = <<name, value>>
  PROVE  ValueAt(headers, name) = value
<1>1. <<name, value>>[1] = name /\ <<name, value>>[2] = value
  OBVIOUS
<1> DEFINE h == CHOOSE h \in headers : h[1] = name
<1>2. h \in headers /\ h[1] = name
  BY <1>1
<1>3. h = <<name, value>>
  BY <1>2
<1> QED
  BY <1>1, <1>3 DEF ValueAt

\* Sequences that are concatenated, spelled out.
LEMMA FourHeaders ==
  ASSUME NEW a, NEW b, NEW c, NEW e
  PROVE  <<a, b, c>> \o <<>> \o <<e>> = <<a, b, c, e>>
<1> DEFINE S == {a, b, c, e}
           t == <<a, b, c>>
           u == <<e>>
<1>1. t \in Seq(S) /\ u \in Seq(S) /\ Len(t) = 3 /\ Len(u) = 1
      /\ t[1] = a /\ t[2] = b /\ t[3] = c /\ u[1] = e
  OBVIOUS
<1>2. <<a, b, c, e>> \in Seq(S) /\ Len(<<a, b, c, e>>) = 4 /\ <<a, b, c, e>>[1] = a
      /\ <<a, b, c, e>>[2] = b /\ <<a, b, c, e>>[3] = c /\ <<a, b, c, e>>[4] = e
  OBVIOUS
<1> DEFINE four == <<a, b, c, e>>
<1>4. four \in Seq(S) /\ Len(four) = 4 /\ four[1] = a /\ four[2] = b /\ four[3] = c /\ four[4] = e
  BY <1>2
<1> HIDE DEF S, t, u, four
<1>6. t \o <<>> = t
  BY <1>1
<1>7. t \o u = four
  <2> DEFINE w == t \o u
  <2>1. Appended(S, t, u, w)
    BY <1>1, Behind
  <2> HIDE DEF w
  <2>2. /\ w \in Seq(S) /\ Len(w) = Len(t) + Len(u) /\ \A i \in 1..Len(t) : w[i] = t[i]
        /\ \A i \in 1..Len(u) : w[Len(t) + i] = u[i]
    BY <2>1 DEF Appended
  <2>3. Len(w) = 4 /\ (\A i \in 1..3 : w[i] = t[i]) /\ (\A i \in 1..1 : w[3 + i] = u[i])
    BY <1>1, <2>2
  <2>4. w[1] = a /\ w[2] = b /\ w[3] = c /\ w[3 + 1] = e /\ 3 + 1 = 4
    BY <1>1, <2>3
  <2>5. \A i \in 1..4 : i = 1 \/ i = 2 \/ i = 3 \/ i = 4
    OBVIOUS
  <2>6. \A i \in 1..Len(w) : w[i] = four[i]
    BY <1>4, <2>3, <2>4, <2>5
  <2>7. w = four
    BY <1>4, <2>2, <2>3, <2>6, SeqEqual
  <2> QED
    BY <2>7 DEF w
<1> QED
  BY <1>6, <1>7 DEF t, u, four

\* The same with one more.
LEMMA FiveHeaders ==
  ASSUME NEW a, NEW b, NEW c, NEW d, NEW e
  PROVE  <<a, b, c>> \o <<d>> \o <<e>> = <<a, b, c, d, e>>
<1> DEFINE S == {a, b, c, d, e}
           t == <<a, b, c>>
           u == <<e>>
           v == <<d>>
<1>1. t \in Seq(S) /\ u \in Seq(S) /\ v \in Seq(S) /\ Len(t) = 3 /\ Len(u) = 1 /\ Len(v) = 1
      /\ t[1] = a /\ t[2] = b /\ t[3] = c /\ u[1] = e /\ v[1] = d
  OBVIOUS
<1>3. <<a, b, c, d, e>> \in Seq(S) /\ Len(<<a, b, c, d, e>>) = 5 /\ <<a, b, c, d, e>>[1] = a
      /\ <<a, b, c, d, e>>[2] = b /\ <<a, b, c, d, e>>[3] = c /\ <<a, b, c, d, e>>[4] = d
      /\ <<a, b, c, d, e>>[5] = e
  OBVIOUS
<1> DEFINE five == <<a, b, c, d, e>>
<1>5. five \in Seq(S) /\ Len(five) = 5 /\ five[1] = a /\ five[2] = b /\ five[3] = c
      /\ five[4] = d /\ five[5] = e
  BY <1>3
<1> HIDE DEF S, t, u, v, five
<1>8. t \o v \o u = five
  <2> DEFINE x == t \o v
             w == x \o u
  <2>1. Appended(S, t, v, x)
    BY <1>1, Behind
  <2> HIDE DEF x
  <2>2. /\ x \in Seq(S) /\ Len(x) = Len(t) + Len(v) /\ \A i \in 1..Len(t) : x[i] = t[i]
        /\ \A i \in 1..Len(v) : x[Len(t) + i] = v[i]
    BY <2>1 DEF Appended
  <2>3. Len(x) = 4 /\ (\A i \in 1..3 : x[i] = t[i]) /\ (\A i \in 1..1 : x[3 + i] = v[i])
    BY <1>1, <2>2
  <2>4. x[1] = a /\ x[2] = b /\ x[3] = c /\ x[3 + 1] = d /\ 3 + 1 = 4
    BY <1>1, <2>3
  <2>5. Appended(S, x, u, w)
    BY <1>1, <2>2, Behind
  <2> HIDE DEF w
  <2>6. /\ w \in Seq(S) /\ Len(w) = Len(x) + Len(u) /\ \A i \in 1..Len(x) : w[i] = x[i]
        /\ \A i \in 1..Len(u) : w[Len(x) + i] = u[i]
    BY <2>5 DEF Appended
  <2>7. Len(w) = 5 /\ (\A i \in 1..4 : w[i] = x[i]) /\ (\A i \in 1..1 : w[4 + i] = u[i])
    BY <1>1, <2>3, <2>6
  <2>8. w[1] = a /\ w[2] = b /\ w[3] = c /\ w[4] = d /\ w[4 + 1] = e /\ 4 + 1 = 5
    BY <1>1, <2>4, <2>7
  <2>9. \A i \in 1..5 : i = 1 \/ i = 2 \/ i = 3 \/ i = 4 \/ i = 5
    OBVIOUS
  <2>10. \A i \in 1..Len(w) : w[i] = five[i]
    BY <1>5, <2>7, <2>8, <2>9
  <2>11. w = five
    BY <1>5, <2>6, <2>7, <2>10, SeqEqual
  <2> QED
    BY <2>11 DEF w, x
<1> QED
  BY <1>8 DEF t, u, v, five

\* What arrives when each header of a list is sent, in any order
Sent(names, values, n) == {<<names[i], values[i]>> : i \in 1..n}

\* KMS puts the headers back in the order in which they were signed.
LEMMA ArrivedIs ==
  ASSUME NEW n \in Nat, NEW names, NEW values, NEW signed,
         DOMAIN signed = 1..n, \A i \in 1..n : signed[i] = names[i],
         \A i, j \in 1..n : names[i] = names[j] => i = j
  PROVE  LET headers == Sent(names, values, n)
         IN /\ {h[1] : h \in headers} = Range(signed)
            /\ \A i \in 1..n : ValueAt(headers, names[i]) = values[i]
            /\ [i \in DOMAIN signed |-> <<signed[i], ValueAt(headers, signed[i])>>]
                 = [i \in 1..n |-> <<names[i], values[i]>>]
<1> DEFINE H == Sent(names, values, n)
<1>1. ASSUME NEW i \in 1..n
      PROVE  ValueAt(H, names[i]) = values[i]
  <2> DEFINE name  == names[i]
             value == values[i]
  <2>1. <<name, value>> \in H
    BY DEF Sent
  <2>2. ASSUME NEW h \in H, h[1] = name
        PROVE  h = <<name, value>>
    <3>1. PICK j \in 1..n : h = <<names[j], values[j]>>
      BY DEF Sent
    <3>2. names[j] = names[i]
      BY <2>2, <3>1
    <3>3. j = i
      BY <3>2
    <3> QED
      BY <3>1, <3>3
  <2> HIDE DEF H, name, value
  <2>3. ValueAt(H, name) = value
    BY <2>1, <2>2, ValueIs
  <2> QED
    BY <2>3 DEF name, value
<1>2. {h[1] : h \in H} = Range(signed)
  <2>1. {h[1] : h \in H} = {names[i] : i \in 1..n}
    <3>1. \A i \in 1..n : <<names[i], values[i]>> \in H /\ <<names[i], values[i]>>[1] = names[i]
      BY DEF Sent
    <3>2. \A h \in H : \E i \in 1..n : h[1] = names[i]
      BY DEF Sent
    <3>3. \A i \in 1..n : \E h \in H : h[1] = names[i]
      <4> TAKE i \in 1..n
      <4> DEFINE pair == <<names[i], values[i]>>
      <4>1. pair \in H /\ pair[1] = names[i]
        BY <3>1
      <4> HIDE DEF pair, H
      <4> QED
        BY <4>1
    <3> HIDE DEF H
    <3> QED
      BY <3>2, <3>3
  <2>2. Range(signed) = {signed[i] : i \in 1..n}
    BY DEF Range
  <2> QED
    BY <2>1, <2>2
<1> HIDE DEF H
<1>3. [i \in DOMAIN signed |-> <<signed[i], ValueAt(H, signed[i])>>]
        = [i \in 1..n |-> <<names[i], values[i]>>]
  BY <1>1
<1> QED
  BY <1>1, <1>2, <1>3 DEF H

\* What the signature of a request covers, when these are its headers
Covers(cfg, now, body, names, values, n, signed, canonical, headers) ==
  /\ n \in Nat /\ DOMAIN signed = 1..n /\ \A i \in 1..n : signed[i] = names[i]
  /\ \A i, j \in 1..n : names[i] = names[j] => i = j
  /\ canonical = [i \in 1..n |-> <<names[i], values[i]>>]
  /\ headers = Sent(names, values, n)
  /\ \E i \in 1..n : names[i] = "x-amz-date" /\ values[i] = AmzDate(now)

\* The service signs all the headers it sends, each once, and the date among them.
LEMMA HeadersCovered ==
  ASSUME NEW cfg, NEW digest, NEW now
  PROVE  LET request == SignRequest(cfg, digest, now)
         IN \E names, values, n :
              Covers(cfg, now, request.body, names, values, n, SignedHeaders(cfg),
                     CanonicalHeaders(cfg, AmzDate(now)), request.headers)
<1> DEFINE a == "content-type"
           b == "host"
           c == "x-amz-date"
           d == "x-amz-security-token"
           e == "x-amz-target"
           va == "application/x-amz-json-1.1"
           vb == Host(cfg.region)
           vc == AmzDate(now)
           vd == cfg.token
           ve == "TrentService.Sign"
           body == BuildJsonBody(cfg.keyId, Base64Encode(digest))
           H == {<<a, va>>, <<e, ve>>, <<c, vc>>, <<b, vb>>}
                  \cup (IF cfg.token = NoToken THEN {} ELSE {<<d, vd>>})
           request == SignRequest(cfg, digest, now)
<1>1. /\ a # b /\ a # c /\ a # d /\ a # e /\ b # c /\ b # d /\ b # e /\ c # d /\ c # e /\ d # e
      /\ c = "x-amz-date"
  OBVIOUS
<1>2. request.headers = H
  BY DEF SignRequest
<1>3. /\ SignedHeaders(cfg) = <<a, b, c>> \o (IF cfg.token = NoToken THEN <<>> ELSE <<d>>) \o <<e>>
      /\ CanonicalHeaders(cfg, vc) =
           << <<a, va>>, <<b, vb>>, <<c, vc>> >>
             \o (IF cfg.token = NoToken THEN <<>> ELSE << <<d, vd>> >>) \o << <<e, ve>> >>
  BY DEF SignedHeaders, CanonicalHeaders
<1> HIDE DEF a, b, c, d, e, va, vb, vc, vd, ve, request
<1>4. CASE cfg.token = NoToken
  <2> DEFINE names  == <<a, b, c, e>>
             values == <<va, vb, vc, ve>>
  <2>1. SignedHeaders(cfg) = names
    <3>1. SignedHeaders(cfg) = <<a, b, c>> \o <<>> \o <<e>>
      BY <1>3, <1>4
    <3> QED
      BY <3>1, FourHeaders
  <2>2. CanonicalHeaders(cfg, vc) = << <<a, va>>, <<b, vb>>, <<c, vc>>, <<e, ve>> >>
    <3>1. CanonicalHeaders(cfg, vc) = << <<a, va>>, <<b, vb>>, <<c, vc>> >> \o <<>> \o << <<e, ve>> >>
      BY <1>3, <1>4
    <3> DEFINE pa == <<a, va>>
               pb == <<b, vb>>
               pc == <<c, vc>>
               pe == <<e, ve>>
    <3>2. CanonicalHeaders(cfg, vc) = <<pa, pb, pc>> \o <<>> \o <<pe>>
      BY <3>1
    <3> HIDE DEF pa, pb, pc, pe
    <3>3. CanonicalHeaders(cfg, vc) = <<pa, pb, pc, pe>>
      BY <3>2, FourHeaders
    <3> QED
      BY <3>3 DEF pa, pb, pc, pe
  <2>3. /\ DOMAIN names = 1..4 /\ names[1] = a /\ names[2] = b /\ names[3] = c /\ names[4] = e
        /\ values[1] = va /\ values[2] = vb /\ values[3] = vc /\ values[4] = ve
    OBVIOUS
  <2>4. \A i \in 1..4 : i = 1 \/ i = 2 \/ i = 3 \/ i = 4
    OBVIOUS
  <2>5. << <<a, va>>, <<b, vb>>, <<c, vc>>, <<e, ve>> >> = [i \in 1..4 |-> <<names[i], values[i]>>]
    OBVIOUS
  <2> HIDE DEF names, values
  <2>6. \A i, j \in 1..4 : names[i] = names[j] => i = j
    BY <1>1, <2>3, <2>4
  <2>7. H = Sent(names, values, 4)
    <3>1. H = {<<a, va>>, <<e, ve>>, <<c, vc>>, <<b, vb>>}
      BY <1>4
    <3>2. \A x : x \in Sent(names, values, 4) <=> \E i \in 1..4 : x = <<names[i], values[i]>>
      BY DEF Sent
    <3>3. \A x : x \in Sent(names, values, 4) <=>
                   x = <<a, va>> \/ x = <<b, vb>> \/ x = <<c, vc>> \/ x = <<e, ve>>
      BY <2>3, <2>4, <3>2
    <3> HIDE DEF H
    <3> QED
      BY <3>1, <3>3
  <2>8. Covers(cfg, now, request.body, names, values, 4, SignedHeaders(cfg),
               CanonicalHeaders(cfg, vc), request.headers)
    <3>1. 3 \in 1..4 /\ names[3] = "x-amz-date" /\ values[3] = AmzDate(now) /\ 4 \in Nat
      BY <1>1, <2>3 DEF vc
    <3> HIDE DEF H
    <3> QED
      BY <1>2, <2>1, <2>2, <2>3, <2>5, <2>6, <2>7, <3>1 DEF Covers
  <2> QED
    BY <2>8 DEF request, vc
<1>5. CASE cfg.token # NoToken
  <2> DEFINE names  == <<a, b, c, d, e>>
             values == <<va, vb, vc, vd, ve>>
  <2>1. SignedHeaders(cfg) = names
    <3>1. SignedHeaders(cfg) = <<a, b, c>> \o <<d>> \o <<e>>
      BY <1>3, <1>5
    <3>2. <<a, b, c>> \o <<d>> \o <<e>> = names
      BY FiveHeaders
    <3> QED
      BY <3>1, <3>2, Zenon
  <2>2. CanonicalHeaders(cfg, vc) = << <<a, va>>, <<b, vb>>, <<c, vc>>, <<d, vd>>, <<e, ve>> >>
    <3>1. CanonicalHeaders(cfg, vc) =
            << <<a, va>>, <<b, vb>>, <<c, vc>> >> \o << <<d, vd>> >> \o << <<e, ve>> >>
      BY <1>3, <1>5
    <3> DEFINE pa == <<a, va>>
               pb == <<b, vb>>
               pc == <<c, vc>>
               pd == <<d, vd>>
               pe == <<e, ve>>
    <3>2. CanonicalHeaders(cfg, vc) = <<pa, pb, pc>> \o <<pd>> \o <<pe>>
      BY <3>1
    <3> HIDE DEF pa, pb, pc, pd, pe
    <3>3. <<pa, pb, pc>> \o <<pd>> \o <<pe>> = <<pa, pb, pc, pd, pe>>
      BY FiveHeaders
    <3>4. CanonicalHeaders(cfg, vc) = <<pa, pb, pc, pd, pe>>
      BY <3>2, <3>3, Zenon
    <3> QED
      BY <3>4 DEF pa, pb, pc, pd, pe
  <2>3. /\ DOMAIN names = 1..5
        /\ names[1] = a /\ names[2] = b /\ names[3] = c /\ names[4] = d /\ names[5] = e
        /\ values[1] = va /\ values[2] = vb /\ values[3] = vc /\ values[4] = vd /\ values[5] = ve
    OBVIOUS
  <2>4. \A i \in 1..5 : i = 1 \/ i = 2 \/ i = 3 \/ i = 4 \/ i = 5
    OBVIOUS
  <2>5. << <<a, va>>, <<b, vb>>, <<c, vc>>, <<d, vd>>, <<e, ve>> >>
          = [i \in 1..5 |-> <<names[i], values[i]>>]
    OBVIOUS
  <2> HIDE DEF names, values
  <2>6. \A i, j \in 1..5 : names[i] = names[j] => i = j
    BY <1>1, <2>3, <2>4
  <2>7. H = Sent(names, values, 5)
    <3>1. H = {<<a, va>>, <<e, ve>>, <<c, vc>>, <<b, vb>>} \cup {<<d, vd>>}
      BY <1>5
    <3>2. \A x : x \in Sent(names, values, 5) <=> \E i \in 1..5 : x = <<names[i], values[i]>>
      BY DEF Sent
    <3>3. \A x : x \in Sent(names, values, 5) <=>
                   x = <<a, va>> \/ x = <<b, vb>> \/ x = <<c, vc>> \/ x = <<d, vd>> \/ x = <<e, ve>>
      BY <2>3, <2>4, <3>2
    <3> HIDE DEF H
    <3> QED
      BY <3>1, <3>3
  <2>8. Covers(cfg, now, request.body, names, values, 5, SignedHeaders(cfg),
               CanonicalHeaders(cfg, vc), request.headers)
    <3>1. 3 \in 1..5 /\ names[3] = "x-amz-date" /\ values[3] = AmzDate(now) /\ 5 \in Nat
      BY <1>1, <2>3 DEF vc
    <3> HIDE DEF H
    <3> QED
      BY <1>2, <2>1, <2>2, <2>3, <2>5, <2>6, <2>7, <3>1 DEF Covers
  <2> QED
    BY <2>8 DEF request, vc
<1> QED
  BY <1>4, <1>5

\* KMS finds the signature it computes over what it received to be the one that was sent,
\* for every key and digest, at any moment, with and without a session token, if the region
\* and the secret key are those it knows: the signature covers every header sent and the body.
THEOREM KmsFindsSignature ==
  ASSUME NEW cfg, cfg.region = Region, cfg.secret = Secret[cfg.accessKey], NEW digest, NEW now
  PROVE  Authentic(SignRequest(cfg, digest, now))
<1> DEFINE request == SignRequest(cfg, digest, now)
           auth    == request.authorization
           amz     == AmzDate(now)
           scope   == <<Date(now), cfg.region, "kms", "aws4_request">>
           body    == request.body
           signed  == SignedHeaders(cfg)
           canonical == CanonicalHeaders(cfg, amz)
           headers == request.headers
           arrived == [i \in DOMAIN signed |-> <<signed[i], ValueAt(headers, signed[i])>>]
<1>1. PICK names, values, n : Covers(cfg, now, body, names, values, n, signed, canonical, headers)
  BY HeadersCovered
<1>2. auth = BuildAuthorization(cfg, body, Date(now), amz)
  BY DEF SignRequest
<1>3. /\ auth.accessKey = cfg.accessKey /\ auth.scope = scope /\ auth.signed = signed
      /\ auth.signature = Hmac(BuildSigningKey(cfg.secret, Date(now), cfg.region),
           StringToSign(amz, scope, CanonicalRequest(canonical, signed, body)))
  <2> HIDE DEF auth, body, amz, canonical, signed
  <2> QED
    BY <1>2 DEF BuildAuthorization, canonical, signed
<1> HIDE DEF request, auth, body, signed, canonical, headers
<1>4. /\ n \in Nat /\ DOMAIN signed = 1..n /\ \A i \in 1..n : signed[i] = names[i]
      /\ \A i, j \in 1..n : names[i] = names[j] => i = j
      /\ canonical = [i \in 1..n |-> <<names[i], values[i]>>] /\ headers = Sent(names, values, n)
      /\ \E i \in 1..n : names[i] = "x-amz-date" /\ values[i] = AmzDate(now)
  BY <1>1 DEF Covers
<1>5. /\ {h[1] : h \in headers} = Range(signed)
      /\ \A i \in 1..n : ValueAt(headers, names[i]) = values[i]
      /\ arrived = canonical
  BY <1>4, ArrivedIs
<1>6. ValueAt(headers, "x-amz-date") = amz
  BY <1>4, <1>5
<1>7. scope = <<ValueAt(headers, "x-amz-date")[1], Region, "kms", "aws4_request">>
  BY <1>6 DEF AmzDate, Date
<1>8. FoldLeft(Hmac, <<"AWS4", Secret[auth.accessKey]>>, scope)
        = BuildSigningKey(cfg.secret, Date(now), cfg.region)
  <2> DEFINE base == <<"AWS4", Secret[auth.accessKey]>>
  <2>1. /\ DOMAIN scope = 1..4 /\ scope[1] = Date(now) /\ scope[2] = cfg.region
        /\ scope[3] = "kms" /\ scope[4] = "aws4_request"
    OBVIOUS
  <2>2. base = <<"AWS4", cfg.secret>>
    BY <1>3
  <2> HIDE DEF base, scope
  <2>3. FoldLeft(Hmac, base, scope) =
          Hmac(Hmac(Hmac(Hmac(base, scope[1]), scope[2]), scope[3]), scope[4])
    BY <2>1, FoldFour
  <2>4. FoldLeft(Hmac, base, scope) = BuildSigningKey(cfg.secret, Date(now), cfg.region)
    BY <2>1, <2>2, <2>3 DEF BuildSigningKey
  <2> QED
    BY <2>4 DEF base
<1> DEFINE value(name) == ValueAt(request.headers, name)
           asReceived == [i \in DOMAIN auth.signed |-> <<auth.signed[i], value(auth.signed[i])>>]
<1>9. asReceived = canonical
  BY <1>3, <1>5 DEF headers
<1>10. auth.signature =
         Hmac(FoldLeft(Hmac, <<"AWS4", Secret[auth.accessKey]>>, auth.scope),
              <<"AWS4-HMAC-SHA256", value("x-amz-date"), auth.scope,
                Hash(<<"POST", "/", "", asReceived, auth.signed, Hash(request.body)>>)>>)
  <2>1. value("x-amz-date") = amz
    BY <1>6 DEF headers
  <2> HIDE DEF value, asReceived, scope, amz
  <2> QED
    BY <1>3, <1>8, <1>9, <2>1 DEF StringToSign, CanonicalRequest, body
<1>11. /\ {h[1] : h \in request.headers} = Range(auth.signed)
       /\ auth.scope = <<value("x-amz-date")[1], Region, "kms", "aws4_request">>
  BY <1>3, <1>5, <1>7 DEF headers
<1> HIDE DEF value, asReceived
<1>12. Authentic(request)
  BY <1>10, <1>11 DEF Authentic, auth, value, asReceived
<1> QED
  BY <1>12 DEF request

\* The digests the run tries are bytes.
LEMMA DigestsSent == Digests \subseteq Seq(Byte)
<1>1. 0 \in Byte /\ 16 \in Byte /\ 255 \in Byte /\ 254 \in Byte
  BY DEF Byte
<1>2. \A x, y \in Byte : <<x, y>> \in Seq(Byte)
  OBVIOUS
<1>3. <<0, 16>> \in Seq(Byte) /\ <<255, 254>> \in Seq(Byte)
  BY <1>1, <1>2
<1> QED
  BY <1>3 DEF Digests

\* The configurations it tries have the region and the secrets KMS knows, and keys of characters.
LEMMA ConfigsKnown ==
  ASSUME NEW cfg \in Configs
  PROVE  /\ cfg.region = Region /\ cfg.secret = Secret[cfg.accessKey]
         /\ cfg.keyId \in Seq({"a", ":", "/", Quote, Backslash})
<1> DEFINE D == {"a", ":", "/", Quote, Backslash}
<1>1. KeyIds \subseteq Seq(D)
  <2>1. KeyIds = SeqOf(D, 3)
    BY DEF KeyIds
  <2> HIDE DEF D
  <2> QED
    BY <2>1, SeqOfIs
<1>2. <<"a">> \in Seq(D)
  <2> DEFINE c == "a"
  <2>1. c \in D
    OBVIOUS
  <2> HIDE DEF c, D
  <2>2. <<c>> \in Seq(D)
    BY <2>1
  <2> QED
    BY <2>2 DEF c
<1> HIDE DEF D
<1>3. Secret["AKIA"] = "s1" /\ Secret["ASIA"] = "s2"
  BY DEF Secret
<1>4. cfg.region = Region /\ cfg.keyId \in KeyIds \cup {<<"a">>}
  BY DEF Configs
<1>5. (cfg.accessKey = "AKIA" /\ cfg.secret = "s1") \/ (cfg.accessKey = "ASIA" /\ cfg.secret = "s2")
  BY DEF Configs
<1>6. cfg.secret = Secret[cfg.accessKey]
  BY <1>3, <1>5
<1>7. cfg.keyId \in Seq(D)
  BY <1>1, <1>2, <1>4
<1> QED
  BY <1>4, <1>6, <1>7 DEF D

\* What KMS reads from the body of a request is the key of the configuration and the digest,
\* whatever characters the key has and whatever bytes the digest.
THEOREM RequestReadBack ==
  ASSUME NEW S, NEW cfg, cfg.keyId \in Seq(S), NEW digest \in Seq(Byte), NEW now
  PROVE  FieldsOf(SignRequest(cfg, digest, now).body) =
           {<< <<"KeyId">>, cfg.keyId>>, << <<"Message">>, EncodeBlock(digest)>>,
            << <<"MessageType">>, <<"DIGEST">> >>,
            << <<"SigningAlgorithm">>, <<"ECDSA_SHA_256">> >>}
<1> DEFINE T       == S \cup Chars
           keyId   == cfg.keyId
           message == EncodeBlock(digest)
<1>1. SignRequest(cfg, digest, now).body = BuildJsonBody(keyId, message)
  BY DEF SignRequest, Base64Encode
<1>2. message \in Seq(Chars)
  BY EncodedIs
<1>3. keyId \in Seq(T) /\ message \in Seq(T)
  <2>1. S \subseteq T /\ Chars \subseteq T
    OBVIOUS
  <2> HIDE DEF T, message
  <2> QED
    BY <1>2, <2>1, SeqMonotonic
<1>4. \A i \in 1..Len(message) : message[i] \notin {Quote, Backslash}
  <2> HIDE DEF message
  <2>1. \A i \in 1..Len(message) : message[i] \in Chars
    BY <1>2
  <2> QED
    BY <2>1, CharsArePlain
<1> HIDE DEF T, keyId, message
<1>5. FieldsOf(BuildJsonBody(keyId, message)) =
        {<< <<"KeyId">>, keyId>>, << <<"Message">>, message>>,
         << <<"MessageType">>, <<"DIGEST">> >>,
         << <<"SigningAlgorithm">>, <<"ECDSA_SHA_256">> >>}
  BY <1>3, <1>4, BodyReadBack
<1> QED
  BY <1>1, <1>5 DEF keyId, message

\* Hence the run's property: KMS accepts the request and reads from it what was meant.
THEOREM RequestIsUnderstood == Spec => []RequestUnderstood
<1>1. SignsWhatWasMeant
  <2> DEFINE now == [day |-> 7, time |-> 1]
  <2> SUFFICES ASSUME NEW cfg \in Configs, NEW digest \in Digests
               PROVE  /\ Authentic(SignRequest(cfg, digest, now))
                      /\ FieldsOf(SignRequest(cfg, digest, now).body) =
                           {<< <<"KeyId">>, cfg.keyId>>, << <<"Message">>, EncodeBlock(digest)>>,
                            << <<"MessageType">>, <<"DIGEST">> >>,
                            << <<"SigningAlgorithm">>, <<"ECDSA_SHA_256">> >>}
    BY Zenon DEF SignsWhatWasMeant
  <2> HIDE DEF now
  <2>1. Authentic(SignRequest(cfg, digest, now))
    BY ConfigsKnown, KmsFindsSignature
  <2>2. FieldsOf(SignRequest(cfg, digest, now).body) =
           {<< <<"KeyId">>, cfg.keyId>>, << <<"Message">>, EncodeBlock(digest)>>,
            << <<"MessageType">>, <<"DIGEST">> >>,
            << <<"SigningAlgorithm">>, <<"ECDSA_SHA_256">> >>}
    BY ConfigsKnown, DigestsSent, RequestReadBack
  <2> QED
    BY <2>1, <2>2
<1>2. RequestUnderstood
  BY <1>1 DEF RequestUnderstood
<1> QED
  BY <1>2, PTL
-----------------------------------------------------------------------------
(* A request to the service as the service reads it.                       *)

\* A request as its peer composes it: no end of a line is inside one, and no header is
\* taken for the request line, or a value for none
Composed(S, req) ==
  /\ {"cr", "lf"} \subseteq S
  /\ req.line \in S /\ req.line \notin {"cr", "lf", "length:", "device:"}
  /\ req.body \in Seq(S)
  /\ Len(req.headers) \in Nat /\ DOMAIN req.headers = 1..Len(req.headers)
  /\ \A i \in 1..Len(req.headers) :
       /\ req.headers[i].name \in S /\ req.headers[i].name \notin {"cr", "lf"}
       /\ req.headers[i].text \in Seq(S)
       /\ \A k \in 1..Len(req.headers[i].text) : req.headers[i].text[k] \notin {"cr", "lf", "null"}

\* A header stands between two positions
LineAt(t, p, q, h) ==
  /\ q = p + Len(h.text) + 3 /\ t[p + 1] = h.name
  /\ \A k \in 1..Len(h.text) : t[p + 1 + k] = h.text[k]
  /\ t[q - 1] = "cr" /\ t[q] = "lf"

\* Where the parts of a request stand
Laid(req, t, E) ==
  /\ E \in [0..Len(req.headers) -> Nat] /\ E[0] = 3 /\ Len(req.body) \in Nat
  /\ Len(t) = E[Len(req.headers)] + 2 + Len(req.body)
  /\ t[1] = req.line /\ t[2] = "cr" /\ t[3] = "lf"
  /\ \A i \in 1..Len(req.headers) : LineAt(t, E[i - 1], E[i], req.headers[i])
  /\ t[E[Len(req.headers)] + 1] = "cr" /\ t[E[Len(req.headers)] + 2] = "lf"
  /\ \A k \in 1..Len(req.body) : t[E[Len(req.headers)] + 2 + k] = req.body[k]

\* Parts in a row, or none.
LEMMA FlattenAny ==
  ASSUME NEW S, NEW seqs \in Seq(Seq(S))
  PROVE  \E E : Joins(S, seqs, FlattenSeq(seqs), E)
<1>1. CASE seqs = <<>>
  <2>1. Len(seqs) = 0
    BY <1>1, EmptySeq
  <2> DEFINE t == FlattenSeq(seqs)
             E == [i \in 0..0 |-> 0]
  <2>2. t = seqs
    BY <2>1 DEF FlattenSeq
  <2>3. t \in Seq(S) /\ Len(t) = 0
    BY <1>1, <2>2, EmptySeq
  <2>4. E \in [0..0 -> Nat] /\ E[0] = 0
    OBVIOUS
  <2> HIDE DEF E, t
  <2>5. Joins(S, seqs, t, E)
    BY <2>1, <2>3, <2>4 DEF Joins
  <2> QED
    BY <2>5 DEF t
<1>2. CASE seqs # <<>>
  BY <1>2, FlattenJoins
<1> QED
  BY <1>1, <1>2

\* A header and its end of line.
LEMMA HeaderLine ==
  ASSUME NEW S, {"cr", "lf"} \subseteq S, NEW name \in S, NEW text \in Seq(S)
  PROVE  LET line == <<name>> \o text \o Crlf
         IN /\ line \in Seq(S) /\ Len(line) = Len(text) + 3 /\ line[1] = name
            /\ \A k \in 1..Len(text) : line[1 + k] = text[k]
            /\ line[Len(text) + 2] = "cr" /\ line[Len(text) + 3] = "lf"
<1> DEFINE a == <<name>>
           b == a \o text
           c == b \o Crlf
           n == Len(text)
<1>1. a \in Seq(S) /\ Len(a) = 1 /\ a[1] = name
  OBVIOUS
<1>2. Crlf \in Seq(S) /\ Len(Crlf) = 2 /\ Crlf[1] = "cr" /\ Crlf[2] = "lf"
  BY CrlfBytes DEF Crlf
<1>3. n \in Nat /\ Len(text) = n
  OBVIOUS
<1> HIDE DEF a, n
<1>4. Appended(S, a, text, b)
  BY <1>1, Behind
<1>5. b \in Seq(S) /\ Len(b) = n + 1 /\ b[1] = name /\ \A k \in 1..n : b[1 + k] = text[k]
  <2>1. 1 \in 1..Len(a)
    BY <1>1
  <2> HIDE DEF b
  <2> QED
    BY <1>1, <1>3, <1>4, <2>1 DEF Appended
<1> HIDE DEF b
<1>6. Appended(S, b, Crlf, c)
  BY <1>2, <1>5, Behind
<1> HIDE DEF c
<1>7. /\ c \in Seq(S) /\ Len(c) = n + 1 + 2
      /\ \A k \in 1..(n + 1) : c[k] = b[k]
      /\ \A k \in 1..2 : c[n + 1 + k] = Crlf[k]
  BY <1>2, <1>5, <1>6 DEF Appended
<1>8. 1 \in 1..(n + 1) /\ (\A k \in 1..n : 1 + k \in 1..(n + 1)) /\ 1 \in 1..2 /\ 2 \in 1..2
      /\ n + 1 + 1 = n + 2 /\ n + 1 + 2 = n + 3
  BY <1>3
<1>9. c[1] = name
  BY <1>5, <1>7, <1>8
<1>10. \A k \in 1..n : c[1 + k] = text[k]
  BY <1>5, <1>7, <1>8
<1>11. c[n + 2] = "cr" /\ c[n + 3] = "lf"
  BY <1>2, <1>7, <1>8
<1> QED
  BY <1>3, <1>7, <1>8, <1>9, <1>10, <1>11 DEF a, b, c

\* The parts of a request stand one behind the other.
LEMMA EncodedLaid ==
  ASSUME NEW S, NEW req, Composed(S, req)
  PROVE  Encoded(req) \in Seq(S) /\ \E E : Laid(req, Encoded(req), E)
<1> DEFINE hs      == req.headers
           body    == req.body
           line    == req.line
           n       == Len(hs)
           seqs    == [i \in DOMAIN hs |-> <<hs[i].name>> \o hs[i].text \o Crlf]
           lines   == FlattenSeq(seqs)
           a       == <<line>>
           t1      == a \o Crlf
           t2      == t1 \o lines
           t3      == t2 \o Crlf
           t       == t3 \o body
<1>1. Encoded(req) = t
  BY DEF Encoded
<1>2. /\ {"cr", "lf"} \subseteq S /\ line \in S /\ body \in Seq(S)
      /\ n \in Nat /\ DOMAIN hs = 1..n
      /\ \A i \in 1..n : hs[i].name \in S /\ hs[i].text \in Seq(S)
  BY DEF Composed
<1>3. Crlf \in Seq(S) /\ Len(Crlf) = 2 /\ Crlf[1] = "cr" /\ Crlf[2] = "lf"
  BY <1>2, CrlfBytes DEF Crlf
<1>4. \A i \in 1..n :
        /\ seqs[i] \in Seq(S) /\ Len(seqs[i]) = Len(hs[i].text) + 3 /\ seqs[i][1] = hs[i].name
        /\ \A k \in 1..Len(hs[i].text) : seqs[i][1 + k] = hs[i].text[k]
        /\ seqs[i][Len(hs[i].text) + 2] = "cr" /\ seqs[i][Len(hs[i].text) + 3] = "lf"
  <2> TAKE i \in 1..n
  <2> DEFINE x == <<hs[i].name>> \o hs[i].text \o Crlf
  <2>1. seqs[i] = x
    BY <1>2
  <2>2. /\ x \in Seq(S) /\ Len(x) = Len(hs[i].text) + 3 /\ x[1] = hs[i].name
        /\ \A k \in 1..Len(hs[i].text) : x[1 + k] = hs[i].text[k]
        /\ x[Len(hs[i].text) + 2] = "cr" /\ x[Len(hs[i].text) + 3] = "lf"
    <3> DEFINE name == hs[i].name
               text == hs[i].text
    <3>1. name \in S /\ text \in Seq(S)
      BY <1>2
    <3> DEFINE y == <<name>> \o text \o Crlf
    <3>2. /\ y \in Seq(S) /\ Len(y) = Len(text) + 3 /\ y[1] = name
          /\ \A k \in 1..Len(text) : y[1 + k] = text[k]
          /\ y[Len(text) + 2] = "cr" /\ y[Len(text) + 3] = "lf"
      <4> HIDE DEF name, text, hs
      <4> QED
        BY <1>2, <3>1, HeaderLine
    <3>3. x = y
      OBVIOUS
    <3> HIDE DEF x, y
    <3> QED
      BY <3>2, <3>3
  <2> HIDE DEF x, seqs
  <2> QED
    BY <2>1, <2>2
<1>5. DOMAIN seqs = 1..n
  BY <1>2
<1>6. seqs \in Seq(Seq(S)) /\ Len(seqs) = n
  <2>1. \A i \in 1..n : seqs[i] \in Seq(S)
    BY <1>4
  <2>2. seqs = [i \in 1..n |-> seqs[i]]
    BY <1>2
  <2> HIDE DEF seqs, n
  <2> QED
    BY <1>2, <2>1, <2>2
<1> HIDE DEF seqs, n, hs, line, body
<1>7. PICK F : Joins(S, seqs, lines, F)
  BY <1>6, FlattenAny
<1>8. /\ lines \in Seq(S) /\ F \in [0..n -> Nat] /\ F[0] = 0 /\ F[n] = Len(lines)
      /\ \A i \in 1..n : /\ F[i] = F[i - 1] + Len(seqs[i]) /\ F[i] <= Len(lines)
                         /\ \A k \in 1..Len(seqs[i]) : lines[F[i - 1] + k] = seqs[i][k]
  BY <1>6, <1>7 DEF Joins
<1> HIDE DEF lines
<1>9. a \in Seq(S) /\ Len(a) = 1 /\ a[1] = line
  BY <1>2
<1> HIDE DEF a
<1>10. /\ t1 \in Seq(S) /\ Len(t1) = 3 /\ Stands(t1, 1, Crlf)
       /\ t1[1] = line
  <2>1. /\ t1 \in Seq(S) /\ Len(t1) = Len(a) + Len(Crlf) /\ Stands(t1, Len(a), Crlf)
    BY <1>3, <1>9, StandsBehind
  <2>2. Appended(S, a, Crlf, t1)
    BY <1>3, <1>9, Behind
  <2> HIDE DEF t1
  <2>3. t1[1] = a[1]
    <3>1. 1 \in 1..Len(a)
      BY <1>9
    <3> QED
      BY <2>2, <3>1 DEF Appended
  <2> QED
    BY <1>3, <1>9, <2>1, <2>3
<1>11. Stands(t1, 0, t1)
  <2> HIDE DEF t1
  <2> QED
    BY <1>10 DEF Stands
<1> HIDE DEF t1
<1>12. /\ t2 \in Seq(S) /\ Len(t2) = 3 + F[n] /\ Stands(t2, 3, lines)
       /\ \A p, s : Stands(t1, p, s) => Stands(t2, p, s)
  <2>1. lines \in Seq(S) /\ Len(lines) = F[n] /\ t1 \in Seq(S) /\ Len(t1) = 3
    BY <1>8, <1>10
  <2>2. /\ t2 \in Seq(S) /\ Len(t2) = Len(t1) + Len(lines) /\ Stands(t2, Len(t1), lines)
        /\ \A p, s : Stands(t1, p, s) => Stands(t2, p, s)
    BY <2>1, StandsBehind
  <2> HIDE DEF t2
  <2> QED
    BY <2>1, <2>2
<1> HIDE DEF t2
<1>13. /\ t3 \in Seq(S) /\ Len(t3) = 3 + F[n] + 2 /\ Stands(t3, 3 + F[n], Crlf)
       /\ \A p, s : Stands(t2, p, s) => Stands(t3, p, s)
  BY <1>3, <1>12, StandsBehind
<1> HIDE DEF t3
<1>14. /\ t \in Seq(S) /\ Len(t) = 3 + F[n] + 2 + Len(body) /\ Stands(t, 3 + F[n] + 2, body)
       /\ \A p, s : Stands(t3, p, s) => Stands(t, p, s)
  BY <1>2, <1>13, StandsBehind
<1> HIDE DEF t
<1>15. Stands(t, 0, t1) /\ Stands(t, 1, Crlf) /\ Stands(t, 3, lines) /\ Stands(t, 3 + F[n], Crlf)
  BY <1>10, <1>11, <1>12, <1>13, <1>14
<1> DEFINE E == [i \in 0..n |-> 3 + F[i]]
<1>16. E \in [0..n -> Nat] /\ (\A i \in 0..n : E[i] = 3 + F[i]) /\ E[0] = 3 /\ E[n] = 3 + F[n]
  <2>1. 0 \in 0..n /\ n \in 0..n /\ \A i \in 0..n : F[i] \in Nat /\ 3 + F[i] \in Nat
    <3>1. F \in [0..n -> Nat]
      BY <1>8
    <3> QED
      BY <1>2, <3>1
  <2>2. \A i \in 0..n : E[i] = 3 + F[i]
    OBVIOUS
  <2>3. E \in [0..n -> Nat]
    BY <2>1
  <2> HIDE DEF E
  <2> QED
    BY <1>8, <2>1, <2>2, <2>3
<1> HIDE DEF E
<1>17. t[1] = line /\ t[2] = "cr" /\ t[3] = "lf"
  <2>1. t[0 + 1] = t1[1]
    <3>1. 1 \in 1..Len(t1)
      BY <1>10
    <3> QED
      BY <1>15, <3>1 DEF Stands
  <2>2. t[1 + 1] = Crlf[1] /\ t[1 + 2] = Crlf[2]
    <3>1. 1 \in 1..Len(Crlf) /\ 2 \in 1..Len(Crlf)
      BY <1>3
    <3> QED
      BY <1>15, <3>1 DEF Stands
  <2>3. 0 + 1 = 1 /\ 1 + 1 = 2 /\ 1 + 2 = 3
    OBVIOUS
  <2> QED
    BY <1>3, <1>10, <2>1, <2>2, <2>3
<1>18. t[E[n] + 1] = "cr" /\ t[E[n] + 2] = "lf"
  <2>1. 1 \in 1..Len(Crlf) /\ 2 \in 1..Len(Crlf)
    BY <1>3
  <2> QED
    BY <1>3, <1>15, <1>16, <2>1 DEF Stands
<1>19. Len(t) = E[n] + 2 + Len(body) /\ \A k \in 1..Len(body) : t[E[n] + 2 + k] = body[k]
  <2>1. Len(t) = E[n] + 2 + Len(body)
    BY <1>14, <1>16
  <2>2. Stands(t, E[n] + 2, body)
    BY <1>14, <1>16
  <2> QED
    BY <2>1, <2>2 DEF Stands
<1>20. ASSUME NEW i \in 1..n
       PROVE  LineAt(t, E[i - 1], E[i], hs[i])
  <2> DEFINE x == seqs[i]
             m == Len(hs[i].text)
             p == F[i - 1]
             q == F[i]
             j == i - 1
  <2>1. m \in Nat /\ j \in 0..n /\ i \in 0..n /\ j = i - 1
    BY <1>2
  <2>2. /\ Len(x) = m + 3 /\ x[1] = hs[i].name /\ (\A k \in 1..m : x[1 + k] = hs[i].text[k])
        /\ x[m + 2] = "cr" /\ x[m + 3] = "lf"
    BY <1>4
  <2>3. /\ p \in Nat /\ q \in Nat /\ q = p + Len(x) /\ q <= Len(lines)
        /\ \A k \in 1..Len(x) : lines[p + k] = x[k]
    BY <1>8, <2>1
  <2>4. \A k \in 1..Len(lines) : t[3 + k] = lines[k]
    BY <1>15 DEF Stands
  <2>5. E[i - 1] = 3 + p /\ E[i] = 3 + q
    BY <1>16, <2>1
  <2>6. Len(lines) \in Nat
    BY <1>8
  <2> HIDE DEF x, m, p, q, j
  <2>7. \A k \in 1..(m + 3) : t[3 + p + k] = x[k]
    <3> TAKE k \in 1..(m + 3)
    <3>1. p + k \in 1..Len(lines) /\ k \in 1..Len(x) /\ 3 + (p + k) = 3 + p + k
      BY <2>1, <2>2, <2>3, <2>6
    <3> QED
      BY <2>3, <2>4, <3>1
  <2>8. 1 \in 1..(m + 3) /\ m + 2 \in 1..(m + 3) /\ m + 3 \in 1..(m + 3)
        /\ (\A k \in 1..m : 1 + k \in 1..(m + 3) /\ 3 + p + (1 + k) = 3 + p + 1 + k)
        /\ 3 + q = 3 + p + m + 3 /\ 3 + q - 1 = 3 + p + (m + 2) /\ 3 + q = 3 + p + (m + 3)
    BY <2>1, <2>2, <2>3
  <2>9. t[3 + p + 1] = hs[i].name /\ t[3 + q - 1] = "cr" /\ t[3 + q] = "lf"
    BY <2>2, <2>7, <2>8
  <2>10. \A k \in 1..m : t[3 + p + 1 + k] = hs[i].text[k]
    BY <2>2, <2>7, <2>8
  <2> DEFINE pp == 3 + p
             qq == 3 + q
  <2>11. E[i - 1] = pp /\ E[i] = qq /\ qq = pp + m + 3
    BY <2>5, <2>8
  <2>13. t[pp + 1] = hs[i].name /\ t[qq - 1] = "cr" /\ t[qq] = "lf"
    BY <2>3, <2>9
  <2>14. \A k \in 1..m : t[pp + 1 + k] = hs[i].text[k]
    BY <2>10, Zenon
  <2> HIDE DEF pp, qq
  <2>12. LineAt(t, pp, qq, hs[i])
    BY <2>11, <2>13, <2>14 DEF LineAt, m
  <2> QED
    BY <2>11, <2>12
<1>21. Len(body) \in Nat
  BY <1>2
<1>22. Laid(req, t, E)
  BY <1>16, <1>17, <1>18, <1>19, <1>20, <1>21 DEF Laid, n, hs, body, line
<1> QED
  BY <1>1, <1>14, <1>22

\* Positions that rise by three at least,
LEMMA Rising ==
  ASSUME NEW n \in Nat, NEW E \in [0..n -> Nat], \A i \in 1..n : E[i - 1] + 3 <= E[i]
  PROVE  \A i, j \in 0..n : i < j => E[i] + 3 <= E[j]
<1> DEFINE Good == {j \in Nat : j \in 0..n => \A i \in 0..n : i < j => E[i] + 3 <= E[j]}
<1>1. 0 \in Good
  OBVIOUS
<1>2. ASSUME NEW j \in Nat, j \in Good
      PROVE  j + 1 \in Good
  <2> SUFFICES ASSUME j + 1 \in 0..n, NEW i \in 0..n, i < j + 1
               PROVE  E[i] + 3 <= E[j + 1]
    OBVIOUS
  <2> DEFINE k == j + 1
  <2>1. k \in 1..n /\ k - 1 = j /\ j \in 0..n /\ k \in 0..n
    OBVIOUS
  <2>2. E[j] + 3 <= E[k]
    BY <2>1
  <2>3. E[i] \in Nat /\ E[j] \in Nat /\ E[k] \in Nat
    BY <2>1
  <2>4. CASE i = j
    BY <2>2, <2>4
  <2>5. CASE i < j
    <3>1. E[i] + 3 <= E[j]
      BY <1>2, <2>1, <2>5
    <3> HIDE DEF k
    <3> QED
      BY <2>2, <2>3, <3>1 DEF k
  <2> QED
    BY <2>4, <2>5
<1> HIDE DEF Good
<1>3. Nat \subseteq Good
  BY <1>1, <1>2, AllNumbers
<1> QED
  BY <1>3 DEF Good

\* between two of which every position lies.
LEMMA InALine ==
  ASSUME NEW n \in Nat, NEW E \in [0..n -> Nat], NEW p \in Nat, E[0] < p, p <= E[n]
  PROVE  \E i \in 1..n : E[i - 1] < p /\ p <= E[i]
<1> DEFINE B == {i \in 0..n : p <= E[i]}
<1>1. B \in SUBSET Nat /\ n \in B
  OBVIOUS
<1>2. PICK i \in B : \A j \in B : i <= j
  <2> HIDE DEF B
  <2> QED
    BY <1>1, MinOf
<1>3. i # 0
  BY <1>2
<1>4. i \in 1..n /\ i - 1 \in 0..n /\ i - 1 \notin B
  BY <1>2, <1>3
<1>5. ~(p <= E[i - 1]) /\ E[i - 1] \in Nat
  BY <1>4
<1> QED
  BY <1>2, <1>4, <1>5

\* A request and where its parts stand
Standing(S, req, t, E, n) ==
  Composed(S, req) /\ Laid(req, t, E) /\ t \in Seq(S) /\ n \in Nat /\ n = Len(req.headers)

\* The positions in it.
LEMMA PositionsAre ==
  ASSUME NEW S, NEW req, NEW t, NEW E, NEW n, Standing(S, req, t, E, n)
  PROVE  /\ n \in Nat /\ E \in [0..n -> Nat] /\ E[0] = 3
         /\ \A i \in 1..n : LineAt(t, E[i - 1], E[i], req.headers[i]) /\ E[i - 1] + 3 <= E[i]
         /\ \A i, j \in 0..n : i < j => E[i] + 3 <= E[j]
         /\ \A i \in 0..n : E[i] \in Nat /\ 3 <= E[i] /\ E[i] <= E[n]
         /\ Len(t) \in Nat /\ E[n] + 2 <= Len(t)
<1>1. /\ n \in Nat /\ n = Len(req.headers) /\ Composed(S, req) /\ Laid(req, t, E) /\ t \in Seq(S)
  BY DEF Standing
<1>2. E \in [0..n -> Nat] /\ E[0] = 3 /\ Len(t) = E[n] + 2 + Len(req.body) /\ Len(req.body) \in Nat
  BY <1>1 DEF Laid
<1>3. \A i \in 1..n : LineAt(t, E[i - 1], E[i], req.headers[i])
  BY <1>1 DEF Laid
<1>4. ASSUME NEW i \in 1..n PROVE E[i - 1] + 3 <= E[i]
  <2> DEFINE p == E[i - 1]
             q == E[i]
             m == Len(req.headers[i].text)
  <2>1. q = p + m + 3
    BY <1>3 DEF LineAt
  <2>2. m \in Nat
    <3>1. req.headers[i].text \in Seq(S)
      BY <1>1 DEF Composed
    <3> QED
      BY <3>1
  <2>3. p \in Nat /\ q \in Nat
    <3>1. i - 1 \in 0..n /\ i \in 0..n
      BY <1>1
    <3> QED
      BY <1>2, <3>1
  <2> HIDE DEF p, q, m
  <2>4. p + 3 <= q
    BY <2>1, <2>2, <2>3
  <2> QED
    BY <2>4 DEF p, q
<1>5. \A i, j \in 0..n : i < j => E[i] + 3 <= E[j]
  BY <1>1, <1>2, <1>4, Rising
<1>6. \A i \in 0..n : E[i] \in Nat
  BY <1>2
<1>7. 0 \in 0..n /\ n \in 0..n /\ \A i \in 0..n : (i = 0 \/ 0 < i) /\ (i = n \/ i < n)
  BY <1>1
<1>8. \A i \in 0..n : 3 <= E[i] /\ E[i] <= E[n]
  BY <1>2, <1>5, <1>6, <1>7
<1>9. Len(t) \in Nat /\ E[n] + 2 <= Len(t)
  <2>1. Len(t) \in Nat
    BY <1>1
  <2> QED
    BY <1>2, <1>6, <1>7, <2>1
<1> QED
  BY <1>1, <1>2, <1>3, <1>4, <1>5, <1>6, <1>8, <1>9

\* A carriage return up to the blank line ends a line.
LEMMA ReturnsAre ==
  ASSUME NEW S, NEW req, NEW t, NEW E, NEW n, Standing(S, req, t, E, n),
         NEW p \in Nat, 1 <= p, p <= E[n], t[p] = "cr"
  PROVE  \E i \in 0..n : p = E[i] - 1
<1>1. /\ n \in Nat /\ E \in [0..n -> Nat] /\ E[0] = 3
      /\ \A i \in 1..n : LineAt(t, E[i - 1], E[i], req.headers[i])
      /\ \A i \in 0..n : E[i] \in Nat
  BY PositionsAre
<1>2. /\ n = Len(req.headers) /\ Composed(S, req) /\ Laid(req, t, E)
  BY DEF Standing
<1>3. t[1] = req.line /\ t[3] = "lf" /\ req.line # "cr" /\ "lf" # "cr"
  BY <1>2 DEF Laid, Composed
<1>4. CASE p <= 3
  <2>1. p = 1 \/ p = 2 \/ p = 3
    BY <1>4
  <2>2. p = 2 /\ 0 \in 0..n /\ 2 = E[0] - 1
    BY <1>1, <1>3, <2>1
  <2> QED
    BY <2>2
<1>5. CASE p > 3
  <2>1. PICK i \in 1..n : E[i - 1] < p /\ p <= E[i]
    BY <1>1, <1>5, InALine
  <2> DEFINE a == E[i - 1]
             b == E[i]
             h == req.headers[i]
             m == Len(h.text)
  <2>2. a \in Nat /\ b \in Nat /\ i \in 0..n
    <3>1. i - 1 \in 0..n /\ i \in 0..n
      BY <1>1
    <3> QED
      BY <1>1, <3>1
  <2>3. /\ b = a + m + 3 /\ t[a + 1] = h.name
        /\ \A k \in 1..m : t[a + 1 + k] = h.text[k]
        /\ t[b] = "lf"
    BY <1>1 DEF LineAt
  <2>4. h.name # "cr" /\ (\A k \in 1..m : h.text[k] # "cr") /\ m \in Nat
    <3>1. /\ h.name # "cr" /\ (\A k \in 1..m : h.text[k] # "cr") /\ h.text \in Seq(S)
      BY <1>2 DEF Composed
    <3> QED
      BY <3>1
  <2>5. a < p /\ p <= b
    BY <2>1
  <2> HIDE DEF a, b, h, m
  <2>6. p # b /\ p # a + 1
    BY <1>3, <2>3, <2>4
  <2>7. ASSUME p # b - 1 PROVE FALSE
    <3> DEFINE k == p - (a + 1)
    <3>1. k \in 1..m /\ a + 1 + k = p
      BY <2>2, <2>3, <2>4, <2>5, <2>6, <2>7
    <3> HIDE DEF k
    <3> QED
      BY <2>3, <2>4, <3>1
  <2> QED
    BY <2>2, <2>7 DEF b
<1> QED
  BY <1>4, <1>5

\* What the end of a line is.
LEMMA CrlfAt ==
  ASSUME NEW S, {"cr", "lf"} \subseteq S, NEW t \in Seq(S), NEW p \in Nat \ {0}, p + 1 <= Len(t)
  PROVE  SubSeq(t, p, p + Len(Crlf) - 1) = Crlf <=> t[p] = "cr" /\ t[p + 1] = "lf"
<1> DEFINE q == p + Len(Crlf) - 1
           x == SubSeq(t, p, q)
<1>1. Crlf \in Seq(S) /\ Len(Crlf) = 2 /\ Crlf[1] = "cr" /\ Crlf[2] = "lf"
  BY CrlfBytes DEF Crlf
<1>2. q = p + 1 /\ q \in Nat /\ p <= q + 1 /\ q <= Len(t) /\ q - p + 1 = 2
  BY <1>1
<1> HIDE DEF q
<1>3. x \in Seq(S) /\ Len(x) = q - p + 1 /\ \A i \in 1..(q - p + 1) : x[i] = t[p + i - 1]
  BY <1>2, SubSeqIs
<1> HIDE DEF x
<1>4. Len(x) = 2 /\ x[1] = t[p] /\ x[2] = t[p + 1]
  <2>1. 1 \in 1..2 /\ 2 \in 1..2 /\ p + 1 - 1 = p /\ p + 2 - 1 = p + 1
    OBVIOUS
  <2> QED
    BY <1>2, <1>3, <2>1
<1>5. x = Crlf <=> x[1] = "cr" /\ x[2] = "lf"
  <2>1. ASSUME x[1] = "cr", x[2] = "lf" PROVE x = Crlf
    <3>1. \A i \in 1..Len(x) : x[i] = Crlf[i]
      <4>1. \A i \in 1..2 : i = 1 \/ i = 2
        OBVIOUS
      <4> QED
        BY <1>1, <1>4, <2>1, <4>1
    <3> QED
      BY <1>1, <1>3, <1>4, <3>1, SeqEqual
  <2> QED
    BY <1>1, <2>1
<1> QED
  BY <1>4, <1>5 DEF x, q

\* The lines end where they are laid to end, and so does what follows a line.
LEMMA LineEnds ==
  ASSUME NEW S, NEW req, NEW t, NEW E, NEW n, Standing(S, req, t, E, n)
  PROVE  /\ \A i \in 0..n : SubSeq(t, E[i] - 1, E[i] - 1 + Len(Crlf) - 1) = Crlf
         /\ \A p \in 1..(E[n] - 1) :
              SubSeq(t, p, p + Len(Crlf) - 1) = Crlf => \E i \in 0..n : p = E[i] - 1
<1>1. /\ n \in Nat /\ E \in [0..n -> Nat] /\ E[0] = 3
      /\ \A i \in 1..n : LineAt(t, E[i - 1], E[i], req.headers[i])
      /\ \A i \in 0..n : E[i] \in Nat /\ 3 <= E[i] /\ E[i] <= E[n]
      /\ Len(t) \in Nat /\ E[n] + 2 <= Len(t)
  BY PositionsAre
<1>2. {"cr", "lf"} \subseteq S /\ t \in Seq(S) /\ Laid(req, t, E)
  BY DEF Standing, Composed
<1>3. ASSUME NEW i \in 0..n
      PROVE  SubSeq(t, E[i] - 1, E[i] - 1 + Len(Crlf) - 1) = Crlf
  <2> DEFINE q == E[i] - 1
  <2>1. q \in Nat \ {0} /\ q + 1 <= Len(t) /\ q + 1 = E[i]
    <3>1. n \in 0..n
      BY <1>1
    <3> QED
      BY <1>1, <3>1
  <2>2. t[q] = "cr" /\ t[q + 1] = "lf"
    <3>1. CASE i = 0
      BY <1>1, <1>2, <3>1 DEF Laid
    <3>2. CASE i # 0
      <4>1. i \in 1..n
        BY <1>1, <3>2
      <4> QED
        BY <1>1, <2>1, <4>1 DEF LineAt
    <3> QED
      BY <3>1, <3>2
  <2> HIDE DEF q
  <2>3. SubSeq(t, q, q + Len(Crlf) - 1) = Crlf
    BY <1>2, <2>1, <2>2, CrlfAt
  <2> QED
    BY <2>3 DEF q
<1>4. ASSUME NEW p \in 1..(E[n] - 1), SubSeq(t, p, p + Len(Crlf) - 1) = Crlf
      PROVE  \E i \in 0..n : p = E[i] - 1
  <2>1. n \in 0..n /\ E[n] \in Nat
    BY <1>1
  <2>2. p \in Nat \ {0} /\ p + 1 <= Len(t) /\ 1 <= p /\ p <= E[n] /\ p \in Nat
    BY <1>1, <2>1
  <2>3. t[p] = "cr"
    BY <1>2, <1>4, <2>2, CrlfAt
  <2> QED
    BY <2>2, <2>3, ReturnsAre
<1> QED
  BY <1>3, <1>4

\* What two ends of lines in a row are.
LEMMA BlankLineIs ==
  ASSUME NEW S, {"cr", "lf"} \subseteq S
  PROVE  /\ Crlf \o Crlf \in Seq(S) /\ Len(Crlf \o Crlf) = 4
         /\ (Crlf \o Crlf)[1] = "cr" /\ (Crlf \o Crlf)[2] = "lf"
         /\ (Crlf \o Crlf)[3] = "cr" /\ (Crlf \o Crlf)[4] = "lf"
<1> DEFINE a == Crlf
           b == a \o a
<1>1. a \in Seq(S) /\ Len(a) = 2 /\ a[1] = "cr" /\ a[2] = "lf"
  BY CrlfBytes DEF Crlf
<1> HIDE DEF a
<1>2. Appended(S, a, a, b)
  BY <1>1, Behind
<1> HIDE DEF b
<1>3. /\ b \in Seq(S) /\ Len(b) = 4 /\ (\A i \in 1..2 : b[i] = a[i])
      /\ \A i \in 1..2 : b[2 + i] = a[i]
  BY <1>1, <1>2 DEF Appended
<1>4. 1 \in 1..2 /\ 2 \in 1..2 /\ 2 + 1 = 3 /\ 2 + 2 = 4
  OBVIOUS
<1>5. b[1] = "cr" /\ b[2] = "lf" /\ b[3] = "cr" /\ b[4] = "lf"
  BY <1>1, <1>3, <1>4
<1> QED
  BY <1>3, <1>5 DEF a, b

\* The headers end with the last line, at the first blank line.
LEMMA HeadersEndIs ==
  ASSUME NEW S, NEW req, NEW t, NEW E, NEW n, Standing(S, req, t, E, n)
  PROVE  HeadersEnd(t) = E[n] - 1
<1> DEFINE s == Crlf \o Crlf
           i == E[n] - 1
<1>1. /\ n \in Nat /\ E[0] = 3
      /\ \A k \in 1..n : LineAt(t, E[k - 1], E[k], req.headers[k])
      /\ \A j, k \in 0..n : j < k => E[j] + 3 <= E[k]
      /\ \A k \in 0..n : E[k] \in Nat /\ 3 <= E[k] /\ E[k] <= E[n]
      /\ Len(t) \in Nat /\ E[n] + 2 <= Len(t)
  BY PositionsAre
<1>2. {"cr", "lf"} \subseteq S /\ t \in Seq(S) /\ Laid(req, t, E) /\ Composed(S, req)
      /\ n = Len(req.headers)
  BY DEF Standing, Composed
<1>3. s \in Seq(S) /\ Len(s) = 4 /\ s[1] = "cr" /\ s[2] = "lf" /\ s[3] = "cr" /\ s[4] = "lf"
  BY <1>2, BlankLineIs
<1>4. /\ i \in Nat \ {0} /\ i + 3 <= Len(t) /\ i + 1 = E[n] /\ i + 2 = E[n] + 1 /\ i + 3 = E[n] + 2
      /\ n \in 0..n
  BY <1>1
<1>5. t[E[n] + 1] = "cr" /\ t[E[n] + 2] = "lf"
  BY <1>2 DEF Laid
<1>6. t[i] = "cr" /\ t[i + 1] = "lf"
  <2>1. SubSeq(t, i, i + Len(Crlf) - 1) = Crlf
    BY <1>4, LineEnds
  <2>2. i \in Nat \ {0} /\ i + 1 <= Len(t)
    BY <1>1, <1>4
  <2> HIDE DEF i
  <2> QED
    BY <1>2, <2>1, <2>2, CrlfAt
<1>7. \A j \in 1..(Len(t) - 3) :
        LET x == SubSeq(t, j, j + Len(s) - 1)
        IN x \in Seq(S) /\ Len(x) = 4 /\ x[1] = t[j] /\ x[2] = t[j + 1] /\ x[3] = t[j + 2]
           /\ x[4] = t[j + 3]
  <2> TAKE j \in 1..(Len(t) - 3)
  <2> DEFINE q == j + Len(s) - 1
             x == SubSeq(t, j, q)
  <2>1. q = j + 3 /\ j \in Nat \ {0} /\ q \in Nat /\ j <= q + 1 /\ q <= Len(t) /\ q - j + 1 = 4
    BY <1>1, <1>3
  <2> HIDE DEF q
  <2>2. x \in Seq(S) /\ Len(x) = q - j + 1 /\ \A k \in 1..(q - j + 1) : x[k] = t[j + k - 1]
    BY <1>2, <2>1, SubSeqIs
  <2> HIDE DEF x
  <2>3. 1 \in 1..4 /\ 2 \in 1..4 /\ 3 \in 1..4 /\ 4 \in 1..4 /\ j + 1 - 1 = j /\ j + 2 - 1 = j + 1
        /\ j + 3 - 1 = j + 2 /\ j + 4 - 1 = j + 3
    BY <2>1
  <2>4. x \in Seq(S) /\ Len(x) = 4 /\ x[1] = t[j] /\ x[2] = t[j + 1] /\ x[3] = t[j + 2]
        /\ x[4] = t[j + 3]
    BY <2>1, <2>2, <2>3
  <2> QED
    BY <2>4 DEF x, q
<1> HIDE DEF s, i
<1>8. SubSeq(t, i, i + Len(s) - 1) = s
  <2> DEFINE x == SubSeq(t, i, i + Len(s) - 1)
  <2>1. i \in 1..(Len(t) - 3)
    BY <1>1, <1>4
  <2>2. x \in Seq(S) /\ Len(x) = 4 /\ x[1] = t[i] /\ x[2] = t[i + 1] /\ x[3] = t[i + 2]
        /\ x[4] = t[i + 3]
    BY <1>7, <2>1
  <2> HIDE DEF x
  <2>3. x[1] = s[1] /\ x[2] = s[2] /\ x[3] = s[3] /\ x[4] = s[4]
    BY <1>3, <1>4, <1>5, <1>6, <2>2
  <2>4. \A k \in 1..4 : k = 1 \/ k = 2 \/ k = 3 \/ k = 4
    OBVIOUS
  <2>5. \A k \in 1..Len(x) : x[k] = s[k]
    BY <2>2, <2>3, <2>4
  <2>6. x = s
    BY <1>3, <2>2, <2>5, SeqEqual
  <2> QED
    BY <2>6 DEF x
<1>9. ASSUME NEW j \in 1..(i - 1), SubSeq(t, j, j + Len(s) - 1) = s
      PROVE  FALSE
  <2>1. j \in 1..(Len(t) - 3) /\ j + 2 \in Nat /\ j \in Nat /\ 1 <= j /\ j <= E[n]
    BY <1>1, <1>4
  <2>2. t[j] = "cr" /\ t[j + 2] = "cr"
    BY <1>3, <1>7, <1>9, <2>1
  <2>3. PICK k \in 0..n : j = E[k] - 1
    BY <2>1, <2>2, ReturnsAre
  <2>4. k \in 0..n /\ E[k] \in Nat /\ k < n
    BY <1>1, <1>4, <2>3
  <2> DEFINE l == k + 1
  <2>5. l \in 1..n /\ l - 1 = k /\ j + 2 = E[k] + 1
    BY <1>1, <2>3, <2>4
  <2> HIDE DEF l
  <2>6. t[E[k] + 1] = req.headers[l].name
    BY <1>1, <2>5 DEF LineAt
  <2>7. req.headers[l].name # "cr"
    BY <1>2, <2>5 DEF Composed
  <2> QED
    BY <2>2, <2>5, <2>6, <2>7
<1>10. Find(t, s, 1) = i
  <2>1. /\ Len(t) \in Nat /\ Len(s) \in Nat /\ 1 \in Nat /\ i \in Nat /\ 1 <= i
        /\ i <= Len(t) - Len(s) + 1
    BY <1>1, <1>3, <1>4
  <2> QED
    BY <1>8, <1>9, <2>1, FindAt
<1> QED
  BY <1>10 DEF HeadersEnd, s, i

\* A header's line ends where its value does.
LEMMA LineTextIs ==
  ASSUME NEW S, NEW req, NEW t, NEW E, NEW n, Standing(S, req, t, E, n), NEW i \in 1..n,
         NEW l, l = E[i - 1] + 1
  PROVE  Find(t, Crlf, l) = E[i] - 1 /\ SubSeq(t, l + 1, Find(t, Crlf, l) - 1) = req.headers[i].text
<1> DEFINE a == E[i - 1]
           b == E[i]
           h == req.headers[i]
           m == Len(h.text)
           k == i - 1
<1>1. /\ n \in Nat
      /\ LineAt(t, a, b, h)
      /\ \A x, y \in 0..n : x < y => E[x] + 3 <= E[y]
      /\ \A x \in 0..n : E[x] \in Nat /\ 3 <= E[x] /\ E[x] <= E[n]
      /\ Len(t) \in Nat /\ E[n] + 2 <= Len(t)
  BY PositionsAre
<1>2. {"cr", "lf"} \subseteq S /\ t \in Seq(S) /\ Composed(S, req) /\ n = Len(req.headers)
  BY DEF Standing, Composed
<1>3. h.text \in Seq(S) /\ m \in Nat
  <2>1. h.text \in Seq(S)
    BY <1>2 DEF Composed
  <2> QED
    BY <2>1
<1>4. k \in 0..n /\ i \in 0..n /\ k = i - 1 /\ a = E[k] /\ b = E[i]
  BY <1>1
<1>5. a \in Nat /\ 3 <= a /\ b \in Nat /\ b <= E[n] /\ l = a + 1 /\ E[n] \in Nat
  <2>1. n \in 0..n
    BY <1>1
  <2> QED
    BY <1>1, <1>4, <2>1
<1>6. b = a + m + 3 /\ \A j \in 1..m : t[a + 1 + j] = h.text[j]
  BY <1>1 DEF LineAt
<1>7. SubSeq(t, b - 1, b - 1 + Len(Crlf) - 1) = Crlf
  BY <1>4, LineEnds
<1> HIDE DEF a, b, h, m, k
<1>8. Find(t, Crlf, l) = b - 1
  <2> DEFINE e == b - 1
  <2>1. /\ Len(Crlf) = 2 /\ Len(t) \in Nat /\ Len(Crlf) \in Nat /\ l \in Nat /\ e \in Nat /\ l <= e
        /\ e <= Len(t) - Len(Crlf) + 1
    <3>1. Len(Crlf) = 2
      BY <1>2, CrlfBytes
    <3> QED
      BY <1>1, <1>3, <1>5, <1>6, <3>1
  <2>2. ASSUME NEW j \in l..(e - 1), SubSeq(t, j, j + Len(Crlf) - 1) = Crlf
        PROVE  FALSE
    <3>1. j \in 1..(E[n] - 1) /\ a < j /\ j < b - 1
      BY <1>5, <2>1
    <3>2. PICK x \in 0..n : j = E[x] - 1
      BY <2>2, <3>1, LineEnds
    <3>3. x \in 0..n /\ E[x] \in Nat /\ (x <= k \/ i <= x)
      BY <1>1, <1>4, <3>2
    <3>4. CASE x <= k
      <4>1. E[x] <= E[k]
        <5>1. x = k \/ x < k
          BY <1>4, <3>3, <3>4
        <5> QED
          BY <1>1, <1>4, <3>3, <5>1
      <4> QED
        BY <1>4, <1>5, <3>1, <3>2, <3>3, <4>1
    <3>5. CASE i <= x
      <4>1. E[i] <= E[x]
        <5>1. x = i \/ i < x
          BY <1>4, <3>3, <3>5
        <5> QED
          BY <1>1, <1>4, <3>3, <5>1
      <4> QED
        BY <1>4, <1>5, <3>1, <3>2, <3>3, <4>1
    <3> QED
      BY <3>3, <3>4, <3>5
  <2>3. SubSeq(t, e, e + Len(Crlf) - 1) = Crlf
    BY <1>7
  <2> HIDE DEF e
  <2>4. Find(t, Crlf, l) = e
    BY <2>1, <2>2, <2>3, FindAt
  <2> QED
    BY <2>4 DEF e
<1>9. SubSeq(t, l + 1, b - 1 - 1) = h.text
  <2> DEFINE p == l + 1
             q == b - 1 - 1
             x == SubSeq(t, p, q)
             y == h.text
  <2>1. p \in Nat \ {0} /\ q \in Nat /\ p <= q + 1 /\ q <= Len(t) /\ q - p + 1 = m /\ p = a + 1 + 1
    <3>1. E[n] + 2 <= Len(t) /\ Len(t) \in Nat
      BY <1>1
    <3> DEFINE e == E[n]
    <3>2. e \in Nat /\ b <= e /\ e + 2 <= Len(t)
      BY <1>5, <3>1
    <3> HIDE DEF e
    <3>3. b = a + m + 3
      BY <1>6
    <3> QED
      BY <1>3, <1>5, <3>1, <3>2, <3>3
  <2> HIDE DEF p, q
  <2>2. x \in Seq(S) /\ Len(x) = q - p + 1 /\ \A j \in 1..(q - p + 1) : x[j] = t[p + j - 1]
    BY <1>2, <2>1, SubSeqIs
  <2> HIDE DEF x
  <2>3. \A j \in 1..m : p + j - 1 = a + 1 + j
    BY <1>5, <2>1
  <2>4. \A j \in 1..m : x[j] = y[j]
    BY <1>6, <2>1, <2>2, <2>3
  <2>5. Len(y) = m /\ y \in Seq(S)
    BY <1>3 DEF m
  <2> HIDE DEF y
  <2>6. x = y
    BY <2>1, <2>2, <2>4, <2>5, SeqEqual
  <2> QED
    BY <2>6 DEF x, y, p, q
<1> QED
  BY <1>8, <1>9 DEF b, h

\* What the first header of a name says
Said(req, name) ==
  IF Places(req, name) = {} THEN NoString ELSE Trim(FirstOf(req, name).text, Blank)

\* copy_header_value returns what the first header of the name says.
LEMMA HeaderValueIs ==
  ASSUME NEW S, NEW req, NEW t, NEW E, NEW n, Standing(S, req, t, E, n),
         NEW name, name # req.line
  PROVE  CopyHeaderValue(t, E[n] - 1, name) = Said(req, name)
<1> DEFINE end    == E[n] - 1
           marks  == {j \in 1..end : Find(t, Crlf, j) = j}
           starts == {1} \cup {i + 2 : i \in marks}
           lines  == {l \in starts : l < end /\ t[l] = name}
           l      == Min(lines)
           places == Places(req, name)
           first  == Min(places)
<1>1. /\ n \in Nat
      /\ \A i \in 1..n : LineAt(t, E[i - 1], E[i], req.headers[i]) /\ E[i - 1] + 3 <= E[i]
      /\ \A x, y \in 0..n : x < y => E[x] + 3 <= E[y]
      /\ \A x \in 0..n : E[x] \in Nat /\ 3 <= E[x] /\ E[x] <= E[n]
      /\ Len(t) \in Nat /\ E[n] + 2 <= Len(t)
  BY PositionsAre
<1>2. /\ {"cr", "lf"} \subseteq S /\ t \in Seq(S) /\ Composed(S, req) /\ Laid(req, t, E)
      /\ n = Len(req.headers) /\ Len(Crlf) = 2
  BY CrlfBytes DEF Standing, Composed
<1>3. t[1] = req.line /\ DOMAIN req.headers = 1..n
  BY <1>2 DEF Laid, Composed
<1>4. E[n] \in Nat /\ 3 <= E[n] /\ end = E[n] - 1 /\ end \in Nat
  <2>1. n \in 0..n
    BY <1>1
  <2> QED
    BY <1>1, <2>1
<1>5. CopyHeaderValue(t, end, name) =
        IF lines = {} THEN NoString ELSE Trim(SubSeq(t, l + 1, Find(t, Crlf, l) - 1), Blank)
  BY DEF CopyHeaderValue
<1>6. \A j : j \in marks <=> \E i \in 0..n : j = E[i] - 1
  <2>1. ASSUME NEW j \in marks PROVE \E i \in 0..n : j = E[i] - 1
    <3>1. j \in 1..(E[n] - 1) /\ Find(t, Crlf, j) = j /\ j \in Nat \ {0}
      BY <1>4
    <3>2. SubSeq(t, j, j + Len(Crlf) - 1) = Crlf
      <4>1. Len(t) \in Nat /\ Len(Crlf) \in Nat
        BY <1>1, <1>2
      <4> DEFINE f == Find(t, Crlf, j)
      <4>2. \/ f = 0
            \/ SubSeq(t, f, f + Len(Crlf) - 1) = Crlf
        BY <3>1, <4>1, FoundAt
      <4>3. f = j /\ j # 0
        BY <3>1
      <4> HIDE DEF f
      <4> QED
        BY <4>2, <4>3
    <3> QED
      BY <3>1, <3>2, LineEnds
  <2>2. ASSUME NEW i \in 0..n PROVE E[i] - 1 \in marks
    <3> DEFINE j == E[i] - 1
    <3>1. j \in 1..end /\ j \in Nat /\ j <= j /\ j <= Len(t) - Len(Crlf) + 1
      BY <1>1, <1>2, <1>4
    <3>2. SubSeq(t, j, j + Len(Crlf) - 1) = Crlf
      BY LineEnds
    <3> HIDE DEF j, end
    <3>3. \A x \in j..(j - 1) : SubSeq(t, x, x + Len(Crlf) - 1) # Crlf
      BY <3>1
    <3>4. Find(t, Crlf, j) = j
      <4>1. Len(t) \in Nat /\ Len(Crlf) \in Nat
        BY <1>1, <1>2
      <4> QED
        BY <3>1, <3>2, <3>3, <4>1, FindAt
    <3>5. j \in marks
      BY <3>1, <3>4
    <3> QED
      BY <3>5 DEF j
  <2> QED
    BY <2>1, <2>2
<1>7. \A x : x \in lines <=> \E i \in places : x = E[i - 1] + 1
  <2>1. ASSUME NEW x \in lines PROVE \E i \in places : x = E[i - 1] + 1
    <3>1. x \in starts /\ x < end /\ t[x] = name
      OBVIOUS
    <3>2. x # 1
      BY <1>3, <3>1
    <3>3. PICK j \in marks : x = j + 2
      BY <3>1, <3>2
    <3>4. PICK k \in 0..n : j = E[k] - 1
      BY <1>6
    <3> DEFINE i == k + 1
    <3>5. x = E[k] + 1 /\ E[k] \in Nat /\ k # n
      BY <1>1, <1>4, <3>1, <3>3, <3>4
    <3>6. i \in 1..n /\ i - 1 = k
      BY <1>1, <3>5
    <3> HIDE DEF i, lines, marks, starts
    <3>7. t[E[k] + 1] = req.headers[i].name
      BY <1>1, <3>6 DEF LineAt
    <3>8. i \in places
      BY <1>3, <3>1, <3>5, <3>6, <3>7 DEF Places
    <3> QED
      BY <3>5, <3>6, <3>8
  <2>2. ASSUME NEW i \in places PROVE E[i - 1] + 1 \in lines
    <3> DEFINE k == i - 1
               j == E[k] - 1
               x == E[k] + 1
    <3>1. i \in 1..n /\ req.headers[i].name = name
      BY <1>3 DEF Places
    <3>2. k \in 0..n /\ i \in 0..n /\ E[k] \in Nat /\ 3 <= E[k] /\ E[i] \in Nat /\ E[i] <= E[n]
      BY <1>1, <3>1
    <3>3. E[k] + 3 <= E[i] /\ t[x] = name
      BY <1>1, <3>1 DEF LineAt
    <3>4. j \in marks
      BY <1>6, <3>2
    <3>5. x = j + 2 /\ x < end
      BY <1>4, <3>2, <3>3
    <3> HIDE DEF j, x, marks
    <3>6. x \in lines
      BY <3>3, <3>4, <3>5
    <3> QED
      BY <3>6 DEF x
  <2> HIDE DEF lines, places
  <2> QED
    BY <2>1, <2>2
<1>8. CASE places = {}
  <2>1. lines = {}
    <3> HIDE DEF lines, places
    <3> QED
      BY <1>7, <1>8
  <2> HIDE DEF lines, l, end, places
  <2> QED
    BY <1>5, <1>8, <2>1 DEF end, places, Said
<1>9. CASE places # {}
  <2>1. places \in SUBSET Nat /\ places \subseteq 1..n
    BY <1>3 DEF Places
  <2> HIDE DEF places
  <2>2. first \in places /\ \A i \in places : first <= i
    BY <1>9, <2>1, MinOf
  <2> HIDE DEF first
  <2> DEFINE k == first - 1
             x == E[k] + 1
  <2>3. first \in 1..n /\ k \in 0..n /\ E[k] \in Nat
    BY <1>1, <2>1, <2>2
  <2>4. x \in lines
    <3> HIDE DEF lines
    <3> QED
      BY <1>7, <2>2
  <2>5. ASSUME NEW y \in lines PROVE x <= y /\ y \in Int
    <3>1. PICK i \in places : y = E[i - 1] + 1
      <4> HIDE DEF lines
      <4> QED
        BY <1>7
    <3> DEFINE m == i - 1
    <3>2. i \in 1..n /\ m \in 0..n /\ E[m] \in Nat /\ first <= i
      BY <1>1, <2>1, <2>2
    <3>3. m = k \/ k < m
      BY <2>3, <3>2
    <3>4. y = E[m] + 1
      BY <3>1
    <3> HIDE DEF m, k, lines
    <3>5. E[k] <= E[m]
      BY <1>1, <2>3, <3>2, <3>3
    <3> QED
      BY <2>3, <3>2, <3>4, <3>5
  <2>6. l = x
    <3> HIDE DEF lines, x
    <3>1. lines \in SUBSET Int
      BY <2>5
    <3> QED
      BY <2>4, <2>5, <3>1, MinIs
  <2>7. SubSeq(t, l + 1, Find(t, Crlf, l) - 1) = req.headers[first].text
    <3> HIDE DEF l
    <3> QED
      BY <2>3, <2>6, LineTextIs
  <2>8. lines # {}
    BY <2>4
  <2>9. FirstOf(req, name).text = req.headers[first].text
    BY DEF FirstOf, first, places
  <2> HIDE DEF lines, l, end
  <2>10. CopyHeaderValue(t, end, name) = Trim(FirstOf(req, name).text, Blank)
    BY <1>5, <2>7, <2>8, <2>9
  <2> QED
    BY <1>9, <2>10 DEF end, places, Said
<1> QED
  BY <1>8, <1>9

\* A value is not taken for none.
LEMMA TrimmedSays ==
  ASSUME NEW S, NEW text \in Seq(S), \A k \in 1..Len(text) : text[k] # "null"
  PROVE  Trim(text, Blank) # NoString
<1> SUFFICES ASSUME Trim(text, Blank) = NoString
             PROVE  FALSE
  OBVIOUS
<1>1. NoString # <<>> /\ NoString[1] = "null" /\ Len(NoString) = 1
  BY DEF NoString
<1>2. PICK m \in 1..Len(text) : \E n \in m..Len(text) : Trim(text, Blank) = SubSeq(text, m, n)
  BY <1>1, TrimKeeps
<1>3. PICK n \in m..Len(text) : NoString = SubSeq(text, m, n)
  BY <1>2
<1>4. Len(text) \in Nat
  OBVIOUS
<1>5. m \in Nat \ {0} /\ n \in Nat /\ m <= n + 1 /\ n <= Len(text) /\ 1 \in 1..(n - m + 1)
      /\ m + 1 - 1 = m
  BY <1>4
<1> DEFINE x == SubSeq(text, m, n)
<1>6. \A i \in 1..(n - m + 1) : x[i] = text[m + i - 1]
  BY <1>5, SubSeqIs
<1>7. x[1] = text[m]
  BY <1>5, <1>6
<1> QED
  BY <1>1, <1>3, <1>7

\* What a Content-Length means for a body of room bytes: the number it is, within the
\* limit, or one no request has as many bytes as.
Says(header, room) ==
  LET value == StrToUl(Trim(header.text, Blank), RequestMaxBytes)
  IN /\ header.means \in Nat \cup {-1}
     /\ header.means # -1 => value = IF header.means <= RequestMaxBytes THEN header.means ELSE -1
     /\ header.means = -1 => value = -1 \/ value > room

\* The headers as handle_client finds them in what read_request took: they end where they
\* end in the request, if that has arrived,
LEMMA HeadersFound ==
  ASSUME NEW S, NEW req, NEW t, NEW E, NEW n, Standing(S, req, t, E, n), NEW last \in 0..Len(t)
  PROVE  HeadersEnd(SubSeq(t, 1, last)) = IF E[n] - 1 + 3 <= last THEN E[n] - 1 ELSE 0
<1> DEFINE text  == SubSeq(t, 1, last)
           end   == E[n] - 1
           found == HeadersEnd(t)
<1>1. {"cr", "lf"} \subseteq S /\ t \in Seq(S)
  BY DEF Standing, Composed
<1>2. found = end
  BY HeadersEndIs
<1>3. end # 0
  <2>1. n \in 0..n /\ E[n] \in Nat /\ 3 <= E[n]
    <3>1. n \in Nat /\ \A i \in 0..n : E[i] \in Nat /\ 3 <= E[i]
      BY PositionsAre
    <3> QED
      BY <3>1
  <2> QED
    BY <2>1
<1>4. HeadersEnd(text) = IF found # 0 /\ found + 3 <= last THEN found ELSE 0
  BY <1>1, HeadersPrefix
<1> HIDE DEF found, text, end
<1>5. HeadersEnd(text) = IF end + 3 <= last THEN end ELSE 0
  BY <1>2, <1>3, <1>4
<1> QED
  BY <1>5 DEF text, end

\* and their values are those in the request.
LEMMA ValueFound ==
  ASSUME NEW S, NEW req, NEW t, NEW E, NEW n, Standing(S, req, t, E, n), NEW last \in 0..Len(t),
         E[n] - 1 + 3 <= last, NEW name, name # req.line
  PROVE  CopyHeaderValue(SubSeq(t, 1, last), E[n] - 1, name) = Said(req, name)
<1> DEFINE text  == SubSeq(t, 1, last)
           end   == E[n] - 1
           found == HeadersEnd(t)
<1>1. {"cr", "lf"} \subseteq S /\ t \in Seq(S)
  BY DEF Standing, Composed
<1>2. found = end
  BY HeadersEndIs
<1>3. end # 0
  <2>1. n \in 0..n /\ E[n] \in Nat /\ 3 <= E[n]
    <3>1. n \in Nat /\ \A i \in 0..n : E[i] \in Nat /\ 3 <= E[i]
      BY PositionsAre
    <3> QED
      BY <3>1
  <2> QED
    BY <2>1
<1>4. found # 0 /\ found + 3 <= last =>
        \A nm : CopyHeaderValue(text, found, nm) = CopyHeaderValue(t, found, nm)
  BY <1>1, HeadersPrefix
<1>5. CopyHeaderValue(t, end, name) = Said(req, name)
  BY HeaderValueIs
<1>6. end + 3 <= last
  OBVIOUS
<1> HIDE DEF found, text, end
<1>7. CopyHeaderValue(text, end, name) = CopyHeaderValue(t, end, name)
  BY <1>2, <1>3, <1>4, <1>6
<1>8. CopyHeaderValue(text, end, name) = Said(req, name)
  BY <1>5, <1>7
<1> QED
  BY <1>8 DEF text, end

\* The first of the headers of a name is one of them.
LEMMA FirstOfIs ==
  ASSUME NEW S, NEW req, Composed(S, req), NEW name, Places(req, name) # {}
  PROVE  \E i \in 1..Len(req.headers) : FirstOf(req, name) = req.headers[i] /\ req.headers[i].name = name
<1> DEFINE places == Places(req, name)
<1>1. Len(req.headers) \in Nat /\ DOMAIN req.headers = 1..Len(req.headers)
  BY DEF Composed
<1>2. places \in SUBSET Nat /\ places # {}
  BY <1>1 DEF Places
<1>3. Min(places) \in places
  <2> HIDE DEF places
  <2> QED
    BY <1>2, MinOf
<1> QED
  BY <1>1, <1>3 DEF Places, FirstOf

\* The request line comes first, and ends where it is to end.
LEMMA LineFound ==
  ASSUME NEW S, NEW req, NEW t, NEW E, NEW n, Standing(S, req, t, E, n),
         NEW k \in 3..Len(t)
  PROVE  IsEnrollPost(SubSeq(t, 1, k)) <=> req.line \in EnrollLines
<1> DEFINE x == SubSeq(t, 1, k)
<1>1. {"cr", "lf"} \subseteq S /\ t \in Seq(S) /\ Laid(req, t, E) /\ req.line # "cr"
  BY DEF Standing, Composed
<1>2. t[1] = req.line /\ t[2] = "cr" /\ t[3] = "lf"
  BY <1>1 DEF Laid
<1>3. Crlf \in Seq(S) /\ Len(Crlf) = 2 /\ Crlf # <<>>
  BY <1>1, CrlfBytes
<1>4. Len(t) \in Nat /\ k \in 0..Len(t) /\ k \in Nat /\ 3 <= k /\ 1 \in Nat \ {0} /\ 1 <= k + 1
      /\ k <= Len(t) /\ k - 1 + 1 = k /\ 1 \in 1..k /\ 1 + 1 - 1 = 1
  BY <1>1
<1>5. x[1] = req.line
  <2>1. \A i \in 1..(k - 1 + 1) : x[i] = t[1 + i - 1]
    BY <1>1, <1>4, SubSeqIs
  <2> HIDE DEF x
  <2> QED
    BY <1>2, <1>4, <2>1
<1>6. Find(t, Crlf, 1) = 2
  <2> DEFINE two == 2
  <2>1. /\ two \in Nat \ {0} /\ two + 1 <= Len(t) /\ 1 \in Nat \ {0} /\ 1 + 1 <= Len(t)
        /\ 1 \in Nat /\ two \in Nat /\ 1 <= two /\ two <= Len(t) - Len(Crlf) + 1
        /\ Len(t) \in Nat /\ Len(Crlf) \in Nat
    BY <1>3, <1>4
  <2>2. t[two] = "cr" /\ t[two + 1] = "lf"
    BY <1>2
  <2>3. \A j \in 1..(two - 1) : j = 1
    OBVIOUS
  <2> HIDE DEF two
  <2>4. SubSeq(t, two, two + Len(Crlf) - 1) = Crlf
    BY <1>1, <2>1, <2>2, CrlfAt
  <2>5. SubSeq(t, 1, 1 + Len(Crlf) - 1) # Crlf
    BY <1>1, <1>2, <2>1, CrlfAt
  <2>6. \A j \in 1..(two - 1) : SubSeq(t, j, j + Len(Crlf) - 1) # Crlf
    BY <2>3, <2>5
  <2>7. Find(t, Crlf, 1) = two
    BY <2>1, <2>4, <2>6, FindAt
  <2> QED
    BY <2>7 DEF two
<1>7. Find(x, Crlf, 1) # 0
  <2> DEFINE i == Find(t, Crlf, 1)
  <2>1. Find(x, Crlf, 1) = IF i # 0 /\ i + Len(Crlf) - 1 <= k THEN i ELSE 0
    BY <1>1, <1>3, <1>4, FindPrefix
  <2>2. i = 2
    BY <1>6
  <2> HIDE DEF i
  <2> QED
    BY <1>3, <1>4, <2>1, <2>2
<1> QED
  BY <1>5, <1>7 DEF IsEnrollPost

\* The bytes behind the blank line are the body.
LEMMA CsrIs ==
  ASSUME NEW S, NEW req, NEW t, NEW E, NEW n, Standing(S, req, t, E, n),
         NEW content \in 0..Len(req.body), NEW m, m = E[n] + 3, NEW q, q = E[n] + 2 + content
  PROVE  SubSeq(t, m, q) = SubSeq(req.body, 1, content)
<1> DEFINE body == req.body
           e == E[n]
           x == SubSeq(t, m, q)
           y == SubSeq(body, 1, content)
<1>1. t \in Seq(S) /\ body \in Seq(S) /\ Laid(req, t, E) /\ n = Len(req.headers)
  BY DEF Standing, Composed
<1>2. Len(t) = e + 2 + Len(body) /\ \A k \in 1..Len(body) : t[e + 2 + k] = body[k]
  BY <1>1 DEF Laid
<1>3. e \in Nat
  <2>1. n \in Nat /\ \A i \in 0..n : E[i] \in Nat
    BY PositionsAre
  <2> QED
    BY <2>1
<1>4. Len(body) \in Nat
  BY <1>1
<1> HIDE DEF body, e
<1>5. content \in 0..Len(body) /\ m = e + 3 /\ q = e + 2 + content
  BY DEF body, e
<1>6. /\ m \in Nat \ {0} /\ q \in Nat /\ m <= q + 1 /\ q <= Len(t) /\ q - m + 1 = content
      /\ content \in Nat /\ 1 \in Nat \ {0} /\ 1 <= content + 1 /\ content <= Len(body)
      /\ content - 1 + 1 = content
  BY <1>2, <1>3, <1>4, <1>5
<1>7. x \in Seq(S) /\ Len(x) = q - m + 1 /\ \A i \in 1..(q - m + 1) : x[i] = t[m + i - 1]
  <2> DEFINE i0 == m
             j0 == q
             z  == SubSeq(t, i0, j0)
  <2>1. t \in Seq(S) /\ i0 \in Nat \ {0} /\ j0 \in Nat /\ i0 <= j0 + 1 /\ j0 <= Len(t)
    BY <1>1, <1>6
  <2> HIDE DEF i0, j0
  <2>2. z \in Seq(S) /\ Len(z) = j0 - i0 + 1 /\ \A i \in 1..(j0 - i0 + 1) : z[i] = t[i0 + i - 1]
    BY <2>1, SubSeqIs
  <2>3. z = x
    BY DEF i0, j0
  <2> HIDE DEF z, x
  <2>4. j0 = q /\ i0 = m
    BY DEF i0, j0
  <2> QED
    BY <2>2, <2>3, <2>4
<1> HIDE DEF x
<1>8. y \in Seq(S) /\ Len(y) = content /\ \A i \in 1..content : y[i] = body[i]
  <2>1. content \in Nat /\ content <= Len(body) /\ 1 \in Nat \ {0} /\ 1 <= content + 1
    BY <1>6
  <2>2. /\ y \in Seq(S) /\ Len(y) = content - 1 + 1
        /\ \A i \in 1..(content - 1 + 1) : y[i] = body[1 + i - 1]
    BY <1>1, <2>1, SubSeqIs
  <2>3. content - 1 + 1 = content /\ \A i \in 1..content : 1 + i - 1 = i
    BY <2>1
  <2> HIDE DEF y
  <2> QED
    BY <2>2, <2>3
<1> HIDE DEF y
<1>9. \A i \in 1..content : m + i - 1 = e + 2 + i /\ i \in 1..Len(body)
  BY <1>3, <1>4, <1>5
<1>10. \A i \in 1..content : x[i] = y[i]
  <2>1. \A i \in 1..content : x[i] = t[m + i - 1]
    BY <1>6, <1>7
  <2>2. \A i \in 1..content : t[m + i - 1] = body[i]
    BY <1>2, <1>9
  <2> QED
    BY <1>8, <2>1, <2>2
<1>11. x = y
  BY <1>6, <1>7, <1>8, <1>10, SeqEqual
<1> QED
  BY <1>11 DEF x, y, body

\* What is left of a text between its blanks is a text.
LEMMA TrimIn ==
  ASSUME NEW S, NEW text \in Seq(S), NEW blanks
  PROVE  Trim(text, blanks) \in Seq(S)
<1>1. CASE Trim(text, blanks) = <<>>
  BY <1>1, EmptySeq
<1>2. CASE Trim(text, blanks) # <<>>
  <2>1. PICK m \in 1..Len(text) : \E n \in m..Len(text) :
           /\ Trim(text, blanks) = SubSeq(text, m, n)
           /\ text[m] \notin blanks /\ text[n] \notin blanks
           /\ \A j \in 1..Len(text) : j \notin m..n => text[j] \in blanks
    BY <1>2, TrimKeeps, Zenon
  <2>2. PICK n \in m..Len(text) : Trim(text, blanks) = SubSeq(text, m, n)
    BY <2>1
  <2>3. m \in Nat \ {0} /\ n \in Nat /\ m <= n + 1 /\ n <= Len(text)
    OBVIOUS
  <2> QED
    BY <2>2, <2>3, SubSeqIs
<1> QED
  BY <1>1, <1>2

\* handle_client does with a request what its peer means, whatever its headers, its body
\* and the pieces it arrives in: it takes the first Content-Length and the first
\* X-Device-Id, the body up to that length, and nothing that does not fit.
THEOREM RequestHandled ==
  ASSUME NEW S, NEW req, Composed(S, req), NEW cuts,
         \A i \in 1..Len(req.headers) :
           req.headers[i].name = "length:" => Says(req.headers[i], Len(req.body))
  PROVE  HandleClient(Encoded(req), cuts) = Meant(req)
<1> DEFINE t    == Encoded(req)
           n    == Len(req.headers)
           room == Len(req.body)
<1>1. t \in Seq(S) /\ \E E : Laid(req, t, E)
  BY EncodedLaid
<1>2. PICK E : Laid(req, t, E)
  BY <1>1
<1>3. /\ {"cr", "lf"} \subseteq S /\ n \in Nat /\ room \in Nat
      /\ "length:" # req.line /\ "device:" # req.line
  <2>1. req.body \in Seq(S) /\ {"cr", "lf"} \subseteq S /\ n \in Nat
        /\ "length:" # req.line /\ "device:" # req.line
    BY DEF Composed
  <2> QED
    BY <2>1
<1> DEFINE header == E[n] + 2
           last   == Min({Len(t), RequestMaxBytes})
           text   == SubSeq(t, 1, last)
           end    == HeadersEnd(text)
           content  == ParseContentLength(text, end)
           deviceId == CopyHeaderValue(text, end, "device:")
           lengths  == Places(req, "length:")
           devices  == Places(req, "device:")
           means    == FirstOf(req, "length:").means
           value    == StrToUl(Trim(FirstOf(req, "length:").text, Blank), RequestMaxBytes)
           id       == Trim(FirstOf(req, "device:").text, Blank)
<1>4. Len(t) = header + room /\ header \in Nat /\ 5 <= header
  <2>1. Len(t) = header + room
    BY <1>2 DEF Laid
  <2>2. Standing(S, req, t, E, n)
    <3> HIDE DEF t
    <3> QED
      BY <1>1, <1>2, <1>3 DEF Standing
  <2>3. n \in Nat /\ \A i \in 0..n : E[i] \in Nat /\ 3 <= E[i]
    <3> HIDE DEF t, n
    <3> QED
      BY <2>2, PositionsAre
  <2>4. E[n] \in Nat /\ 3 <= E[n]
    <3> HIDE DEF n
    <3> QED
      BY <2>3
  <2> HIDE DEF t, n, room
  <2> QED
    BY <2>1, <2>4
<1>5. Standing(S, req, t, E, n)
  <2> HIDE DEF t
  <2> QED
    BY <1>1, <1>2, <1>3 DEF Standing
<1>6. HandleClient(t, cuts) =
        IF end = 0 \/ content = -1 \/ end + 3 + content > last
        THEN Refused("malformed enrollment request")
        ELSE IF ~IsEnrollPost(SubSeq(t, 1, end + 3 + content)) THEN Refused("expected POST /enroll")
        ELSE IF deviceId = NoString \/ Len(deviceId) > DeviceIdMaxBytes
        THEN Refused("missing or invalid X-Device-Id")
        ELSE [status |-> "issue", device |-> deviceId, csr |-> SubSeq(t, end + 4, end + 3 + content)]
  <2> HIDE DEF t
  <2> QED
    BY <1>1, <1>3, RequestJudged
<1>7. Meant(req) =
        IF lengths = {} \/ means = -1 \/ means > room \/ (Len(t) - room) + means > RequestMaxBytes
        THEN Refused("malformed enrollment request")
        ELSE IF req.line \notin EnrollLines THEN Refused("expected POST /enroll")
        ELSE IF devices = {} \/ Len(id) > DeviceIdMaxBytes
        THEN Refused("missing or invalid X-Device-Id")
        ELSE [status |-> "issue", device |-> id, csr |-> SubSeq(req.body, 1, means)]
  BY DEF Meant
<1> HIDE DEF t, n, room, lengths, devices, means, value, id, header
<1>8. /\ RequestMaxBytes \in Nat /\ last \in Nat /\ last \in 0..Len(t)
      /\ last = IF header + room <= RequestMaxBytes THEN header + room ELSE RequestMaxBytes
  <2>1. RequestMaxBytes \in Nat
    BY RequestAssumption
  <2>2. Len(t) \in Nat /\ Len(t) = header + room
    BY <1>3, <1>4
  <2>3. last = IF Len(t) <= RequestMaxBytes THEN Len(t) ELSE RequestMaxBytes
    BY <2>1, <2>2, MinOfTwo
  <2> HIDE DEF last
  <2> QED
    BY <2>1, <2>2, <2>3
<1>9. Len(t) - room = header
  BY <1>3, <1>4
<1> HIDE DEF last
<1>10. lengths # {} => /\ means \in Nat \cup {-1}
                       /\ means # -1 => value = IF means <= RequestMaxBytes THEN means ELSE -1
                       /\ means = -1 => value = -1 \/ value > room
  <2> SUFFICES ASSUME lengths # {}
               PROVE  Says(FirstOf(req, "length:"), room)
    BY DEF Says, means, value
  <2>1. PICK i \in 1..Len(req.headers) :
          FirstOf(req, "length:") = req.headers[i] /\ req.headers[i].name = "length:"
    BY FirstOfIs DEF lengths
  <2> QED
    BY <2>1 DEF room
<1>11. ASSUME NEW name, Places(req, name) # {}
       PROVE  Trim(FirstOf(req, name).text, Blank) # NoString
  <2>1. PICK i \in 1..Len(req.headers) : FirstOf(req, name) = req.headers[i]
    BY <1>11, FirstOfIs
  <2> DEFINE x == req.headers[i].text
  <2>2. x \in Seq(S) /\ \A k \in 1..Len(x) : x[k] # "null"
    BY <2>1 DEF Composed
  <2> HIDE DEF x
  <2>3. Trim(x, Blank) # NoString
    BY <2>2, TrimmedSays
  <2> QED
    BY <2>1, <2>3 DEF x
<1>16. lengths # {} => value \in Int
  <2> SUFFICES ASSUME lengths # {}
               PROVE  value \in Int
    OBVIOUS
  <2>1. PICK i \in 1..Len(req.headers) : FirstOf(req, "length:") = req.headers[i]
    BY FirstOfIs DEF lengths
  <2> DEFINE x == req.headers[i].text
             y == Trim(x, Blank)
  <2>2. x \in Seq(S)
    BY <2>1 DEF Composed
  <2> HIDE DEF x
  <2>3. y \in Seq(S)
    BY <2>2, TrimIn
  <2> HIDE DEF y
  <2>4. StrToUl(y, RequestMaxBytes) \in {-1} \cup 0..RequestMaxBytes
    BY <1>8, <2>3, ParsedUl
  <2>5. value = StrToUl(y, RequestMaxBytes)
    BY <2>1 DEF value, x, y
  <2> QED
    BY <1>8, <2>4, <2>5
<1> DEFINE e == E[n] - 1
<1>12. /\ HeadersEnd(text) = IF e + 3 <= last THEN e ELSE 0
       /\ e + 3 <= last => \A name : name # req.line =>
            CopyHeaderValue(text, e, name) = Said(req, name)
  <2> HIDE DEF end, content, deviceId
  <2>1. HeadersEnd(text) = IF e + 3 <= last THEN e ELSE 0
    BY <1>5, <1>8, HeadersFound
  <2>2. ASSUME e + 3 <= last, NEW name, name # req.line
        PROVE  CopyHeaderValue(text, e, name) = Said(req, name)
    BY <1>5, <1>8, <2>2, ValueFound
  <2> HIDE DEF text, e
  <2> QED
    BY <2>1, <2>2
<1>17. E[n] \in Nat
  <2>1. n \in Nat /\ \A i \in 0..n : E[i] \in Nat
    BY <1>5, PositionsAre
  <2> QED
    BY <2>1
<1>13. e \in Nat /\ e + 3 = header /\ e # 0
  BY <1>4, <1>17 DEF header
<1> HIDE DEF text, e
<1>14. CASE ~(header <= last)
  <2>1. end = 0
    BY <1>12, <1>13, <1>14
  <2>2. lengths # {} /\ means # -1 => header + means > RequestMaxBytes
    <3>1. header > RequestMaxBytes
      BY <1>3, <1>4, <1>8, <1>14
    <3> HIDE DEF end, content, deviceId
    <3> QED
      BY <1>4, <1>8, <1>10, <3>1
  <2>3. HandleClient(t, cuts) = Refused("malformed enrollment request")
    <3> HIDE DEF end, content, deviceId
    <3> QED
      BY <1>6, <2>1
  <2>4. Meant(req) = Refused("malformed enrollment request")
    BY <1>7, <1>9, <2>2
  <2> QED
    BY <2>3, <2>4 DEF t
<1>15. CASE header <= last
  <2>1. end = e
    BY <1>12, <1>13, <1>15
  <2>2. deviceId = IF devices = {} THEN NoString ELSE id
    <3>1. CopyHeaderValue(text, e, "device:") =
            IF Places(req, "device:") = {} THEN NoString
            ELSE Trim(FirstOf(req, "device:").text, Blank)
      BY <1>3, <1>12, <1>13, <1>15 DEF Said
    <3> HIDE DEF end
    <3> QED
      BY <2>1, <3>1 DEF devices, id
  <2>3. content = IF lengths = {} THEN -1 ELSE value
    <3> DEFINE v == CopyHeaderValue(text, e, "length:")
    <3>1. v = IF Places(req, "length:") = {} THEN NoString
              ELSE Trim(FirstOf(req, "length:").text, Blank)
      BY <1>3, <1>12, <1>13, <1>15 DEF Said
    <3>2. content = IF v = NoString THEN -1 ELSE StrToUl(v, RequestMaxBytes)
      <4> HIDE DEF end
      <4> QED
        BY <2>1 DEF ParseContentLength
    <3> HIDE DEF content, v
    <3>3. CASE lengths = {}
      BY <3>1, <3>2, <3>3 DEF lengths
    <3>4. CASE lengths # {}
      <4>1. v # NoString /\ v = Trim(FirstOf(req, "length:").text, Blank)
        BY <1>11, <3>1, <3>4 DEF lengths
      <4> QED
        BY <3>2, <3>4, <4>1 DEF value
    <3> QED
      BY <3>3, <3>4
  <2>4. devices # {} => id # NoString
    BY <1>11 DEF devices, id
  <2> HIDE DEF end, content, deviceId
  <2> DEFINE refused == lengths = {} \/ means = -1 \/ means > room \/ header + means > RequestMaxBytes
             cut     == end = 0 \/ content = -1 \/ end + 3 + content > last
  <2>5. refused <=> cut
    <3>1. CASE lengths = {}
      BY <2>3, <3>1
    <3>2. CASE lengths # {} /\ means = -1
      <4>1. value = -1 \/ value > room
        BY <1>10, <3>2
      <4>2. CASE value = -1
        BY <2>3, <3>2, <4>2
      <4>3. CASE value > room
        <5>1. value \in Int
          BY <1>16, <3>2
        <5>2. end + 3 = header /\ header + room >= last
          BY <1>3, <1>4, <1>8, <1>13, <2>1
        <5>3. end + 3 + content > last
          BY <1>3, <1>4, <1>8, <1>13, <2>1, <2>3, <3>2, <4>3, <5>1, <5>2
        <5> QED
          BY <3>2, <5>3
      <4> QED
        BY <4>1, <4>2, <4>3
    <3>3. CASE lengths # {} /\ means # -1
      <4>1. means \in Nat /\ value = IF means <= RequestMaxBytes THEN means ELSE -1
        BY <1>10, <3>3
      <4>2. content = value /\ end = e /\ e # 0 /\ e \in Nat /\ e + 3 = header
        BY <1>13, <2>1, <2>3, <3>3
      <4>3. CASE means <= RequestMaxBytes
        <5>1. cut <=> header + means > last
          BY <4>1, <4>2, <4>3
        <5>2. refused <=> means > room \/ header + means > RequestMaxBytes
          BY <3>3
        <5> HIDE DEF cut, refused
        <5> QED
          BY <1>3, <1>4, <1>8, <4>1, <5>1, <5>2
      <4>4. CASE ~(means <= RequestMaxBytes)
        <5>1. cut
          BY <4>1, <4>2, <4>4
        <5>2. header + means > RequestMaxBytes
          BY <1>4, <1>8, <4>1, <4>4
        <5> QED
          BY <5>1, <5>2
      <4> QED
        BY <4>3, <4>4
    <3> QED
      BY <3>1, <3>2, <3>3
  <2>6. CASE refused
    <3>1. HandleClient(t, cuts) = Refused("malformed enrollment request")
      BY <1>6, <2>5, <2>6
    <3>2. Meant(req) = Refused("malformed enrollment request")
      BY <1>7, <1>9, <2>6
    <3> QED
      BY <3>1, <3>2 DEF t
  <2>7. CASE ~refused
    <3>1. ~cut
      BY <2>5, <2>7
    <3>2. lengths # {} /\ means \in Nat /\ means <= room /\ header + means <= RequestMaxBytes
      BY <1>4, <1>3, <1>8, <1>10, <2>7
    <3>3. content = means
      BY <1>4, <1>8, <1>10, <2>3, <3>2
    <3>4. end + 3 + content = header + means /\ end + 4 = header + 1
      BY <1>13, <2>1, <3>2, <3>3
    <3>5. IsEnrollPost(SubSeq(t, 1, end + 3 + content)) <=> req.line \in EnrollLines
      <4> DEFINE k == end + 3 + content
      <4>1. k \in 3..Len(t)
        BY <1>3, <1>4, <3>2, <3>4
      <4> HIDE DEF k
      <4>2. IsEnrollPost(SubSeq(t, 1, k)) <=> req.line \in EnrollLines
        BY <1>5, <4>1, LineFound
      <4> QED
        BY <4>2 DEF k
    <3>6. SubSeq(t, end + 4, end + 3 + content) = SubSeq(req.body, 1, means)
      <4> DEFINE m == end + 4
                 q == end + 3 + content
      <4>1. means \in 0..Len(req.body)
        BY <1>3, <3>2 DEF room
      <4>2. m = E[n] + 3 /\ q = E[n] + 2 + means
        <5>1. m = header + 1 /\ q = header + means
          BY <3>4
        <5>2. E[n] \in Int
          BY <1>13, <1>4, PositionsAre, <1>5
        <5> HIDE DEF m, q
        <5> QED
          BY <3>2, <5>1, <5>2 DEF header
      <4> HIDE DEF m, q
      <4>3. SubSeq(t, m, q) = SubSeq(req.body, 1, means)
        BY <1>5, <4>1, <4>2, CsrIs
      <4> QED
        BY <4>3 DEF m, q
    <3> DEFINE k == end + 3 + content
               csrBytes == SubSeq(t, end + 4, k)
               post == IsEnrollPost(SubSeq(t, 1, k))
    <3>7. HandleClient(t, cuts) =
            IF ~post THEN Refused("expected POST /enroll")
            ELSE IF deviceId = NoString \/ Len(deviceId) > DeviceIdMaxBytes
            THEN Refused("missing or invalid X-Device-Id")
            ELSE [status |-> "issue", device |-> deviceId, csr |-> csrBytes]
      BY <1>6, <3>1
    <3>8. Meant(req) =
            IF req.line \notin EnrollLines THEN Refused("expected POST /enroll")
            ELSE IF devices = {} \/ Len(id) > DeviceIdMaxBytes
            THEN Refused("missing or invalid X-Device-Id")
            ELSE [status |-> "issue", device |-> id, csr |-> SubSeq(req.body, 1, means)]
      BY <1>7, <1>9, <2>7
    <3>9. csrBytes = SubSeq(req.body, 1, means) /\ (post <=> req.line \in EnrollLines)
      BY <3>5, <3>6
    <3> HIDE DEF k, csrBytes, post
    <3>10. HandleClient(t, cuts) = Meant(req)
      <4>1. CASE devices = {}
        <5>1. deviceId = NoString
          BY <2>2, <4>1
        <5>2. CASE post
          BY <3>7, <3>8, <3>9, <4>1, <5>1, <5>2
        <5>3. CASE ~post
          BY <3>7, <3>8, <3>9, <5>3
        <5> QED
          BY <5>2, <5>3
      <4>2. CASE devices # {}
        <5>1. deviceId = id /\ id # NoString
          BY <2>2, <2>4, <4>2
        <5>2. CASE post
          BY <3>7, <3>8, <3>9, <4>2, <5>1, <5>2
        <5>3. CASE ~post
          BY <3>7, <3>8, <3>9, <5>3
        <5> QED
          BY <5>2, <5>3
      <4> QED
        BY <4>1, <4>2
    <3> QED
      BY <3>10 DEF t
  <2> QED
    BY <2>6, <2>7
<1> QED
  BY <1>14, <1>15

\* strtoul on digits and on what begins like them.
LEMMA PlainNumber ==
  ASSUME NEW S, NEW text \in Seq(S), NEW limit, text # <<>>,
         text[1] \notin Space, text[1] \notin {"-", "+"}
  PROVE  StrToUl(text, limit) =
           IF ~(\A i \in 1..Len(text) : text[i] \in DOMAIN Digits) THEN -1
           ELSE IF Decimal[text] > MaxUlong \/ Decimal[text] > limit THEN -1 ELSE Decimal[text]
<1> DEFINE starts == {i \in 1..(Len(text) + 1) : i > Len(text) \/ text[i] \notin Space}
           first  == Min(starts)
           number == SubSeq(text, first, Len(text))
           signed == number # <<>> /\ number[1] \in {"-", "+"}
           digits == IF signed THEN Tail(number) ELSE number
           isNumber == \A i \in DOMAIN digits : digits[i] \in DOMAIN Digits
<1>1. StrToUl(text, limit) =
        IF text = <<>> THEN 0
        ELSE IF ~isNumber \/ digits = <<>> THEN -1
        ELSE IF Decimal[digits] > MaxUlong
                \/ (IF number[1] = "-" /\ Decimal[digits] # 0
                    THEN MaxUlong + 1 - Decimal[digits] ELSE Decimal[digits]) > limit THEN -1
        ELSE IF number[1] = "-" /\ Decimal[digits] # 0
             THEN MaxUlong + 1 - Decimal[digits] ELSE Decimal[digits]
  BY DEF StrToUl
<1>2. Len(text) \in Nat \ {0} /\ DOMAIN text = 1..Len(text)
  BY EmptySeq
<1>3. first = 1
  <2>1. starts \in SUBSET Int /\ 1 \in starts /\ \A i \in starts : 1 <= i
    BY <1>2
  <2> HIDE DEF starts
  <2> QED
    BY <2>1, MinIs
<1>4. number = text
  <2>1. SubSeq(text, 1, Len(text)) = text
    BY SubSeqFull
  <2> HIDE DEF first
  <2> QED
    BY <1>3, <2>1
<1> HIDE DEF first, number
<1>5. ~signed /\ digits = text
  BY <1>4
<1> HIDE DEF signed, digits
<1>6. isNumber <=> \A i \in 1..Len(text) : text[i] \in DOMAIN Digits
  BY <1>2, <1>5
<1>7. number[1] # "-"
  BY <1>4
<1> HIDE DEF isNumber
<1>8. CASE isNumber
  BY <1>1, <1>4, <1>5, <1>6, <1>7, <1>8
<1>9. CASE ~isNumber
  BY <1>1, <1>6, <1>9
<1> QED
  BY <1>8, <1>9

\* What a digit is.
LEMMA DigitsAre ==
  /\ DOMAIN Digits = {"0", "1", "3", "5", "6", "9"}
  /\ \A d \in DOMAIN Digits : d \notin Space /\ d \notin {"-", "+"} /\ Digits[d] \in 0..9
  /\ Digits["0"] = 0 /\ Digits["1"] = 1 /\ Digits["3"] = 3 /\ Digits["9"] = 9
<1>1. DOMAIN Digits = {"0", "1", "3", "5", "6", "9"}
  BY DEF Digits
<1>2. Digits["0"] = 0 /\ Digits["1"] = 1 /\ Digits["3"] = 3 /\ Digits["9"] = 9
  BY DEF Digits
<1>3. \A d \in DOMAIN Digits : Digits[d] \in 0..9
  BY DEF Digits
<1>4. \A d \in DOMAIN Digits : d \notin Space /\ d \notin {"-", "+"}
  BY <1>1 DEF Space
<1> QED
  BY <1>1, <1>2, <1>3, <1>4

\* Decimal of a digit.
LEMMA DecimalOne ==
  ASSUME NEW d \in DOMAIN Digits
  PROVE  Decimal[<<d>>] = Digits[d]
<1> DEFINE D == DOMAIN Digits
           t == <<d>>
           x == SubSeq(t, 1, Len(t) - 1)
<1>1. t \in Seq(D) /\ Len(t) = 1 /\ t[1] = d /\ t # <<>>
  OBVIOUS
<1>2. Digits[d] \in 0..9
  BY DigitsAre
<1> HIDE DEF t
<1>3. x = <<>>
  BY <1>1
<1> HIDE DEF D
<1>4. Decimal[t] = 10 * Decimal[x] + Digits[t[Len(t)]]
  BY <1>1, DecimalIs DEF D
<1> HIDE DEF x
<1>5. Decimal[x] = 0
  BY <1>3, DecimalIs
<1>6. Digits[t[Len(t)]] = Digits[d]
  BY <1>1
<1>7. Decimal[t] = 10 * 0 + Digits[d]
  BY <1>4, <1>5, <1>6
<1> QED
  BY <1>2, <1>7 DEF t

\* A number of one digit, ...
LEMMA OneDigit ==
  ASSUME NEW d \in DOMAIN Digits, NEW limit \in Nat
  PROVE  StrToUl(<<d>>, limit) = IF Digits[d] <= limit THEN Digits[d] ELSE -1
<1> DEFINE D == DOMAIN Digits
           t == <<d>>
<1>1. t \in Seq(D) /\ Len(t) = 1 /\ t[1] = d /\ t # <<>>
  OBVIOUS
<1>2. d \notin Space /\ d \notin {"-", "+"} /\ Digits[d] \in 0..9
  BY DigitsAre
<1> HIDE DEF t
<1>5. Decimal[t] = Digits[d]
  BY DecimalOne DEF t
<1>6. \A i \in 1..Len(t) : t[i] \in DOMAIN Digits
  BY <1>1
<1>7. StrToUl(t, limit) = IF Decimal[t] > limit THEN -1 ELSE Decimal[t]
  <2>1. StrToUl(t, limit) =
          IF ~(\A i \in 1..Len(t) : t[i] \in DOMAIN Digits) THEN -1
          ELSE IF Decimal[t] > MaxUlong \/ Decimal[t] > limit THEN -1 ELSE Decimal[t]
    <3> HIDE DEF D
    <3> QED
      BY <1>1, <1>2, PlainNumber
  <2>2. ~(Decimal[t] > MaxUlong)
    <3>1. MaxUlong \in Nat /\ 9 <= MaxUlong
      BY DEF MaxUlong
    <3> QED
      BY <1>2, <1>5, <3>1
  <2> QED
    BY <1>6, <2>1, <2>2
<1> DEFINE v == Digits[d]
<1>8. v \in Nat /\ StrToUl(t, limit) = IF v > limit THEN -1 ELSE v
  BY <1>2, <1>5, <1>7
<1> HIDE DEF v
<1>9. StrToUl(t, limit) = IF v <= limit THEN v ELSE -1
  BY <1>8
<1> QED
  BY <1>9 DEF t, v

\* of two, ...
LEMMA TwoDigits ==
  ASSUME NEW d \in DOMAIN Digits, NEW e \in DOMAIN Digits, NEW limit \in Nat
  PROVE  LET v == 10 * Digits[d] + Digits[e]
         IN StrToUl(<<d, e>>, limit) = IF v <= limit THEN v ELSE -1
<1> DEFINE D == DOMAIN Digits
           t == <<d, e>>
           x == SubSeq(t, 1, Len(t) - 1)
           y == SubSeq(x, 1, Len(x) - 1)
<1>1. t \in Seq(D) /\ Len(t) = 2 /\ t[1] = d /\ t[2] = e /\ t # <<>>
  OBVIOUS
<1>2. /\ d \notin Space /\ d \notin {"-", "+"} /\ Digits[d] \in 0..9
      /\ Digits[e] \in 0..9
  BY DigitsAre
<1> HIDE DEF t, D
<1>3. x \in Seq(D) /\ Len(x) = 1 /\ x[1] = d
  <2> DEFINE k == Len(t) - 1
             z == SubSeq(t, 1, k)
  <2>1. 1 \in Nat \ {0} /\ k \in Nat /\ 1 <= k + 1 /\ k <= Len(t) /\ k - 1 + 1 = 1 /\ 1 \in 1..1
        /\ 1 + 1 - 1 = 1
    BY <1>1
  <2> HIDE DEF k
  <2>2. z \in Seq(D) /\ Len(z) = k - 1 + 1 /\ \A i \in 1..(k - 1 + 1) : z[i] = t[1 + i - 1]
    BY <1>1, <2>1, SubSeqIs
  <2> HIDE DEF z
  <2>3. z \in Seq(D) /\ Len(z) = 1 /\ z[1] = d
    BY <1>1, <2>1, <2>2
  <2> QED
    BY <2>3 DEF z, k
<1>4. x # <<>> /\ y = <<>>
  <2> HIDE DEF x
  <2>1. x # <<>>
    <3>1. Len(<<>>) = 0 /\ Len(x) = 1
      BY <1>3, EmptySeq
    <3> QED
      BY <3>1
  <2> DEFINE k == Len(x) - 1
             z == SubSeq(x, 1, k)
  <2>2. 1 \in Nat \ {0} /\ k \in Nat /\ 1 <= k + 1 /\ k <= Len(x) /\ k - 1 + 1 = 0
    BY <1>3
  <2> HIDE DEF k
  <2>3. z \in Seq(D) /\ Len(z) = k - 1 + 1
    BY <1>3, <2>2, SubSeqIs
  <2> HIDE DEF z
  <2>4. z = <<>>
    BY <2>2, <2>3, EmptySeq
  <2> QED
    BY <2>1, <2>4 DEF z, k
<1>5. Decimal[t] = 10 * Decimal[x] + Digits[t[Len(t)]]
  BY <1>1, DecimalIs DEF D
<1>6. Decimal[x] = 10 * Decimal[y] + Digits[x[Len(x)]]
  <2> HIDE DEF x
  <2> QED
    BY <1>3, <1>4, DecimalIs DEF D
<1> HIDE DEF x, y
<1>7. Decimal[x] = Digits[d]
  <2>1. Decimal[y] = 0
    BY <1>4, DecimalIs
  <2>2. Digits[x[Len(x)]] = Digits[d]
    BY <1>3
  <2>3. Decimal[x] = 10 * 0 + Digits[d]
    BY <1>6, <2>1, <2>2
  <2> QED
    BY <1>2, <2>3
<1>8. Decimal[t] = 10 * Digits[d] + Digits[e]
  BY <1>1, <1>5, <1>7
<1>9. \A i \in 1..Len(t) : t[i] \in DOMAIN Digits
  BY <1>1 DEF D
<1>10. StrToUl(t, limit) = IF Decimal[t] > limit THEN -1 ELSE Decimal[t]
  <2>1. StrToUl(t, limit) =
          IF ~(\A i \in 1..Len(t) : t[i] \in DOMAIN Digits) THEN -1
          ELSE IF Decimal[t] > MaxUlong \/ Decimal[t] > limit THEN -1 ELSE Decimal[t]
    BY <1>1, <1>2, PlainNumber
  <2>2. ~(Decimal[t] > MaxUlong)
    <3>1. MaxUlong \in Nat /\ 99 <= MaxUlong
      BY DEF MaxUlong
    <3> QED
      BY <1>2, <1>8, <3>1
  <2> QED
    BY <1>9, <2>1, <2>2
<1> DEFINE v == 10 * Digits[d] + Digits[e]
<1>11. v \in Nat /\ StrToUl(t, limit) = IF v > limit THEN -1 ELSE v
  BY <1>2, <1>8, <1>10
<1> HIDE DEF v
<1>12. StrToUl(t, limit) = IF v <= limit THEN v ELSE -1
  BY <1>11
<1> QED
  BY <1>12 DEF t, v

\* The largest unsigned long is a number.
LEMMA UlongIs == MaxUlong \in Nat
  BY DEF MaxUlong

\* and with a minus, which turns it round unless it is 0.
LEMMA Negated ==
  ASSUME NEW one \in Seq(DOMAIN Digits), one # <<>>, NEW text, NEW limit \in Nat,
         text \in Seq(DOMAIN Digits \cup {"-"}), Len(text) = Len(one) + 1, text[1] = "-",
         \A i \in 1..Len(one) : text[i + 1] = one[i],
         Decimal[one] \in 1..MaxUlong
  PROVE  LET v == MaxUlong + 1 - Decimal[one]
         IN StrToUl(text, limit) = IF v <= limit THEN v ELSE -1
<1> DEFINE minus == "-"
           starts == {i \in 1..(Len(text) + 1) : i > Len(text) \/ text[i] \notin Space}
           first  == Min(starts)
           number == SubSeq(text, first, Len(text))
           signed == number # <<>> /\ number[1] \in {"-", "+"}
           digits == IF signed THEN Tail(number) ELSE number
           isNumber == \A i \in DOMAIN digits : digits[i] \in DOMAIN Digits
           S      == DOMAIN Digits \cup {minus}
<1>1. StrToUl(text, limit) =
        IF text = <<>> THEN 0
        ELSE IF ~isNumber \/ digits = <<>> THEN -1
        ELSE IF Decimal[digits] > MaxUlong
                \/ (IF number[1] = "-" /\ Decimal[digits] # 0
                    THEN MaxUlong + 1 - Decimal[digits] ELSE Decimal[digits]) > limit THEN -1
        ELSE IF number[1] = "-" /\ Decimal[digits] # 0
             THEN MaxUlong + 1 - Decimal[digits] ELSE Decimal[digits]
  BY DEF StrToUl
<1>2. minus \notin Space
  BY DEF Space
<1>3. /\ Len(one) \in Nat \ {0} /\ DOMAIN one = 1..Len(one) /\ one \in Seq(S)
      /\ \A i \in 1..Len(one) : one[i] \in DOMAIN Digits
  <2>1. Len(one) \in Nat \ {0} /\ DOMAIN one = 1..Len(one)
    BY EmptySeq
  <2>2. \A i \in 1..Len(one) : one[i] \in DOMAIN Digits
    OBVIOUS
  <2>3. one \in Seq(S)
    BY SeqMonotonic
  <2> QED
    BY <2>1, <2>2, <2>3
<1>4. text[1] = minus /\ text \in Seq(S) /\ text # <<>> /\ Len(text) \in Nat \ {0}
  BY <1>3
<1>5. minus = "-"
  OBVIOUS
<1> HIDE DEF minus, S
<1>6. first = 1
  <2>1. starts \in SUBSET Int /\ 1 \in starts /\ \A i \in starts : 1 <= i
    BY <1>2, <1>4
  <2> HIDE DEF starts
  <2> QED
    BY <2>1, MinIs
<1> HIDE DEF first
<1>7. number = text
  <2>1. SubSeq(text, 1, Len(text)) = text
    BY <1>4, SubSeqFull
  <2> QED
    BY <1>6, <2>1
<1> HIDE DEF number
<1>8. digits = one
  <2>1. signed
    BY <1>4, <1>5, <1>7
  <2>2. Tail(text) = one
    <3> DEFINE x == Tail(text)
    <3>1. x \in Seq(S) /\ Len(x) = Len(text) - 1 /\ \A i \in 1..Len(x) : x[i] = text[i + 1]
      BY <1>4, HeadTailProperties
    <3> HIDE DEF x
    <3>2. Len(x) = Len(one) /\ \A i \in 1..Len(x) : x[i] = one[i]
      BY <1>3, <3>1
    <3>3. x = one
      BY <1>3, <3>1, <3>2, SeqEqual
    <3> QED
      BY <3>3 DEF x
  <2> HIDE DEF signed
  <2> QED
    BY <1>7, <2>1, <2>2
<1> HIDE DEF digits, signed
<1>9. isNumber
  BY <1>3, <1>8
<1> HIDE DEF isNumber
<1> DEFINE value == Decimal[one]
           v == MaxUlong + 1 - value
<1>10. /\ value \in 1..MaxUlong /\ MaxUlong \in Nat /\ v \in Nat /\ value # 0
       /\ ~(value > MaxUlong)
  <2>1. MaxUlong \in Nat
    BY UlongIs
  <2> HIDE DEF value
  <2>2. value \in 1..MaxUlong
    BY DEF value
  <2> QED
    BY <2>1, <2>2
<1>11. StrToUl(text, limit) =
         IF value > MaxUlong \/ (IF number[1] = "-" /\ value # 0 THEN v ELSE value) > limit THEN -1
         ELSE IF number[1] = "-" /\ value # 0 THEN v ELSE value
  BY <1>1, <1>4, <1>8, <1>9
<1>12. number[1] = "-"
  BY <1>4, <1>5, <1>7
<1> HIDE DEF value, v
<1>13. StrToUl(text, limit) = IF v > limit THEN -1 ELSE v
  BY <1>10, <1>11, <1>12
<1>14. StrToUl(text, limit) = IF v <= limit THEN v ELSE -1
  BY <1>10, <1>13
<1> QED
  BY <1>14 DEF v, value

\* A negative number beyond the limit, ...
LEMMA Negative ==
  ASSUME NEW d \in DOMAIN Digits, Digits[d] # 0, NEW limit \in Nat, limit + Digits[d] <= MaxUlong
  PROVE  StrToUl(<<"-", d>>, limit) = -1
<1> DEFINE minus == "-"
           text == <<minus, d>>
           one  == <<d>>
           S    == DOMAIN Digits \cup {minus}
<1>1. one \in Seq(DOMAIN Digits) /\ Len(one) = 1 /\ one[1] = d /\ one # <<>>
  OBVIOUS
<1>2. Len(text) = 2 /\ text[1] = minus /\ text[2] = d /\ text \in Seq(S)
  <2> HIDE DEF minus
  <2> QED
    OBVIOUS
<1>3. Decimal[one] = Digits[d]
  BY DecimalOne
<1> HIDE DEF text, one
<1>4. \A i \in 1..Len(one) : text[i + 1] = one[i]
  <2>1. \A i \in 1..1 : i = 1 /\ i + 1 = 2
    OBVIOUS
  <2> QED
    BY <1>1, <1>2, <2>1
<1> DEFINE w == Decimal[one]
           v == MaxUlong + 1 - w
<1>5. w \in 1..MaxUlong /\ v \in Nat /\ ~(v <= limit)
  <2>1. MaxUlong \in Nat /\ 9 <= MaxUlong /\ Digits[d] \in 0..9
    BY DigitsAre DEF MaxUlong
  <2>2. w = Digits[d]
    BY <1>3
  <2> HIDE DEF w
  <2> QED
    BY <2>1, <2>2
<1>6. Len(text) = Len(one) + 1
  BY <1>1, <1>2
<1>7. StrToUl(text, limit) = IF v <= limit THEN v ELSE -1
  BY <1>1, <1>2, <1>4, <1>5, <1>6, Negated
<1> HIDE DEF v
<1>8. StrToUl(text, limit) = -1
  BY <1>5, <1>7
<1> QED
  BY <1>8 DEF text

\* A number with one digit more.
LEMMA DecimalMore ==
  ASSUME NEW t \in Seq(DOMAIN Digits), NEW d \in DOMAIN Digits
  PROVE  /\ Append(t, d) \in Seq(DOMAIN Digits) /\ Len(Append(t, d)) = Len(t) + 1
         /\ Append(t, d) # <<>>
         /\ Decimal[Append(t, d)] = 10 * Decimal[t] + Digits[d]
<1> DEFINE D == DOMAIN Digits
           u == Append(t, d)
           x == SubSeq(u, 1, Len(u) - 1)
<1>1. u \in Seq(D) /\ Len(u) = Len(t) + 1 /\ u[Len(u)] = d /\ Len(t) \in Nat
      /\ \A i \in 1..Len(t) : u[i] = t[i]
  BY AppendProperties
<1> HIDE DEF u, D
<1>2. u # <<>>
  BY <1>1, EmptySeq
<1>3. x = t
  <2> DEFINE k == Len(u) - 1
             z == SubSeq(u, 1, k)
  <2>1. 1 \in Nat \ {0} /\ k \in Nat /\ 1 <= k + 1 /\ k <= Len(u) /\ k - 1 + 1 = Len(t)
    BY <1>1
  <2> HIDE DEF k
  <2>2. z \in Seq(D) /\ Len(z) = k - 1 + 1 /\ \A i \in 1..(k - 1 + 1) : z[i] = u[1 + i - 1]
    BY <1>1, <2>1, SubSeqIs
  <2> HIDE DEF z
  <2>3. Len(z) = Len(t) /\ \A i \in 1..Len(z) : z[i] = t[i]
    BY <1>1, <2>1, <2>2
  <2>4. t \in Seq(D)
    BY DEF D
  <2>5. z = t
    BY <2>2, <2>3, <2>4, SeqEqual
  <2> QED
    BY <2>5 DEF z, k
<1>4. Decimal[u] = 10 * Decimal[x] + Digits[u[Len(u)]]
  BY <1>1, <1>2, DecimalIs DEF D
<1>5. Decimal[u] = 10 * Decimal[t] + Digits[d]
  BY <1>1, <1>3, <1>4
<1> QED
  BY <1>1, <1>2, <1>5 DEF u, D

\* A further nine behind a text of nines
LEMMA NineMore ==
  ASSUME NEW d, d = "9", NEW t \in Seq(DOMAIN Digits), \A i \in 1..Len(t) : t[i] = d
  PROVE  /\ Append(t, d) \in Seq(DOMAIN Digits) /\ Len(Append(t, d)) = Len(t) + 1
         /\ \A i \in 1..(Len(t) + 1) : Append(t, d)[i] = d
         /\ Decimal[Append(t, d)] = 10 * Decimal[t] + 9
<1> DEFINE D == DOMAIN Digits
           u == Append(t, d)
<1>1. d \in D /\ Digits[d] = 9
  BY DigitsAre
<1>2. u \in Seq(D) /\ Len(u) = Len(t) + 1 /\ Decimal[u] = 10 * Decimal[t] + Digits[d]
  BY <1>1, DecimalMore
<1>3. Decimal[u] = 10 * Decimal[t] + 9
  BY <1>1, <1>2
<1> HIDE DEF D
<1>4. u[Len(t) + 1] = d /\ \A i \in 1..Len(t) : u[i] = t[i]
  BY <1>1, AppendProperties DEF D
<1> HIDE DEF u
<1>5. Len(t) \in Nat
  OBVIOUS
<1>6. \A i \in 1..(Len(t) + 1) : u[i] = d
  BY <1>4, <1>5
<1> QED
  BY <1>2, <1>3, <1>6 DEF u, D

\* The largest unsigned long is written with five nines here.
LEMMA Nines ==
  ASSUME NEW d, d = "9"
  PROVE  /\ <<d, d, d, d, d>> \in Seq(DOMAIN Digits) /\ <<d, d, d, d, d>> # <<>>
         /\ Len(<<d, d, d, d, d>>) = 5 /\ Decimal[<<d, d, d, d, d>>] = MaxUlong
<1> DEFINE D == DOMAIN Digits
           a1 == <<d>>
           a2 == Append(a1, d)
           a3 == Append(a2, d)
           a4 == Append(a3, d)
           a5 == Append(a4, d)
           b  == <<d, d, d, d, d>>
<1>1. d \in D /\ Digits[d] = 9
  BY DigitsAre
<1>2. a1 \in Seq(D) /\ Len(a1) = 1 /\ \A i \in 1..Len(a1) : a1[i] = d
  BY <1>1
<1>3. Decimal[a1] = 9
  BY <1>1, DecimalOne
<1>4. b \in Seq(D) /\ Len(b) = 5 /\ b # <<>> /\ \A i \in 1..5 : b[i] = d
  <2> HIDE DEF D
  <2> QED
    BY <1>1
<1> HIDE DEF a1, b
<1>5. a2 \in Seq(D) /\ Len(a2) = 2 /\ (\A i \in 1..Len(a2) : a2[i] = d) /\ Decimal[a2] = 99
  <2>1. /\ a2 \in Seq(D) /\ Len(a2) = Len(a1) + 1 /\ Decimal[a2] = 10 * Decimal[a1] + 9
        /\ \A i \in 1..(Len(a1) + 1) : a2[i] = d
    BY <1>2, NineMore
  <2> HIDE DEF a2
  <2> QED
    BY <1>2, <1>3, <2>1
<1> HIDE DEF a2
<1>6. a3 \in Seq(D) /\ Len(a3) = 3 /\ (\A i \in 1..Len(a3) : a3[i] = d) /\ Decimal[a3] = 999
  <2>1. a2 \in Seq(D) /\ \A i \in 1..Len(a2) : a2[i] = d
    BY <1>5
  <2>2. /\ a3 \in Seq(D) /\ Len(a3) = Len(a2) + 1 /\ Decimal[a3] = 10 * Decimal[a2] + 9
        /\ \A i \in 1..(Len(a2) + 1) : a3[i] = d
    BY <2>1, NineMore
  <2> HIDE DEF a3
  <2> QED
    BY <1>5, <2>2
<1> HIDE DEF a3
<1>7. a4 \in Seq(D) /\ Len(a4) = 4 /\ (\A i \in 1..Len(a4) : a4[i] = d) /\ Decimal[a4] = 9999
  <2>1. a3 \in Seq(D) /\ \A i \in 1..Len(a3) : a3[i] = d
    BY <1>6
  <2>2. /\ a4 \in Seq(D) /\ Len(a4) = Len(a3) + 1 /\ Decimal[a4] = 10 * Decimal[a3] + 9
        /\ \A i \in 1..(Len(a3) + 1) : a4[i] = d
    BY <2>1, NineMore
  <2> HIDE DEF a4
  <2> QED
    BY <1>6, <2>2
<1> HIDE DEF a4
<1>8. a5 \in Seq(D) /\ Len(a5) = 5 /\ (\A i \in 1..Len(a5) : a5[i] = d) /\ Decimal[a5] = 99999
  <2>1. a4 \in Seq(D) /\ \A i \in 1..Len(a4) : a4[i] = d
    BY <1>7
  <2>2. /\ a5 \in Seq(D) /\ Len(a5) = Len(a4) + 1 /\ Decimal[a5] = 10 * Decimal[a4] + 9
        /\ \A i \in 1..(Len(a4) + 1) : a5[i] = d
    BY <2>1, NineMore
  <2> HIDE DEF a5
  <2> QED
    BY <1>7, <2>2
<1> HIDE DEF a5, D
<1>9. a5 = b
  BY <1>4, <1>8, SeqEqual
<1>10. Decimal[b] = MaxUlong
  BY <1>8, <1>9 DEF MaxUlong
<1> QED
  BY <1>4, <1>10 DEF b, D

\* ... and the one that comes round to 1.
LEMMA Wrapped ==
  ASSUME NEW limit \in Nat, NEW d, d = "9"
  PROVE  StrToUl(<<"-", d, d, d, d, d>>, limit) = IF 1 <= limit THEN 1 ELSE -1
<1> DEFINE minus == "-"
           text == <<minus, d, d, d, d, d>>
           one  == <<d, d, d, d, d>>
           S    == DOMAIN Digits \cup {minus}
<1>1. one \in Seq(DOMAIN Digits) /\ one # <<>> /\ Len(one) = 5 /\ Decimal[one] = MaxUlong
  BY Nines
<1>2. d \in S /\ minus \in S
  BY DigitsAre
<1>3. Len(text) = 6 /\ text[1] = minus /\ text \in Seq(S)
  <2> HIDE DEF minus, S
  <2> QED
    BY <1>2
<1>4. \A i \in 1..5 : text[i + 1] = one[i]
  <2> HIDE DEF minus
  <2>1. /\ text[2] = d /\ text[3] = d /\ text[4] = d /\ text[5] = d /\ text[6] = d
        /\ one[1] = d /\ one[2] = d /\ one[3] = d /\ one[4] = d /\ one[5] = d
    OBVIOUS
  <2> HIDE DEF text, one
  <2>2. \A i \in 1..5 : i = 1 \/ i = 2 \/ i = 3 \/ i = 4 \/ i = 5
    OBVIOUS
  <2> QED
    BY <2>1, <2>2
<1> HIDE DEF text, one
<1> DEFINE w == Decimal[one]
           v == MaxUlong + 1 - w
<1>5. w \in 1..MaxUlong /\ v = 1
  <2>1. MaxUlong \in Nat \ {0}
    BY DEF MaxUlong
  <2>2. w = MaxUlong
    BY <1>1
  <2> HIDE DEF w
  <2> QED
    BY <2>1, <2>2
<1>6. Len(text) = Len(one) + 1 /\ \A i \in 1..Len(one) : text[i + 1] = one[i]
  BY <1>1, <1>3, <1>4
<1>7. StrToUl(text, limit) = IF v <= limit THEN v ELSE -1
  BY <1>1, <1>3, <1>5, <1>6, Negated
<1> HIDE DEF v
<1>8. StrToUl(text, limit) = IF 1 <= limit THEN 1 ELSE -1
  BY <1>5, <1>7
<1> QED
  BY <1>8 DEF text

\* A text that neither begins nor ends with a blank is left as it is.
LEMMA TrimNone ==
  ASSUME NEW S, NEW text \in Seq(S), NEW blanks, text # <<>>,
         text[1] \notin blanks, text[Len(text)] \notin blanks
  PROVE  Trim(text, blanks) = text
<1> DEFINE n == Len(text)
<1>1. 1 \in 1..Len(text) /\ n \in 1..Len(text) /\ \A j \in 1..Len(text) : j \in 1..n
  BY EmptySeq
<1>2. text[n] \notin blanks
  OBVIOUS
<1> HIDE DEF n
<1>3. Trim(text, blanks) = SubSeq(text, 1, n)
  BY <1>1, <1>2, TrimIs
<1>4. SubSeq(text, 1, Len(text)) = text
  BY SubSeqFull
<1> QED
  BY <1>3, <1>4 DEF n

\* The characters of the values of the headers
ValueBytes == {"x", "3", " ", "0", "1", "9", "-"}
\* The bytes of the requests, a name and a request line counting as one
RequestBytes ==
  ValueBytes \cup {"cr", "lf"} \cup {"length:", "device:", "other:"}
    \cup Lines

\* What they are.
LEMMA BytesAre ==
  /\ \A v \in ValueBytes : v \in RequestBytes /\ v \notin {"cr", "lf", "null"}
  /\ {"cr", "lf"} \subseteq RequestBytes
  /\ \A n \in {"length:", "device:", "other:"} : n \in RequestBytes /\ n \notin {"cr", "lf"}
  /\ \A l \in Lines :
       l \in RequestBytes /\ l \notin {"cr", "lf", "length:", "device:"}
<1>1. \A v \in ValueBytes : v \in RequestBytes
  BY DEF RequestBytes
<1>2. \A v \in ValueBytes : v \notin {"cr", "lf", "null"}
  BY DEF ValueBytes
<1>3. /\ {"cr", "lf"} \subseteq RequestBytes
      /\ \A n \in {"length:", "device:", "other:"} : n \in RequestBytes
      /\ \A l \in Lines : l \in RequestBytes
  <2> HIDE DEF ValueBytes
  <2> QED
    BY DEF RequestBytes
<1>4. \A n \in {"length:", "device:", "other:"} : n \notin {"cr", "lf"}
  OBVIOUS
<1>5. \A l \in Lines : l \notin {"cr", "lf", "length:", "device:"}
  BY DEF Lines
<1> QED
  BY <1>1, <1>2, <1>3, <1>4, <1>5

\* Texts of few characters.
LEMMA FewBytes ==
  ASSUME NEW S, NEW a \in S, NEW b \in S, NEW c \in S, NEW d \in S
  PROVE  /\ <<a>> \in Seq(S) /\ Len(<<a>>) = 1 /\ <<a>>[1] = a
         /\ <<a, b>> \in Seq(S) /\ Len(<<a, b>>) = 2 /\ <<a, b>>[1] = a /\ <<a, b>>[2] = b
         /\ <<a, b, c>> \in Seq(S) /\ Len(<<a, b, c>>) = 3
         /\ <<a, b, c>>[1] = a /\ <<a, b, c>>[2] = b /\ <<a, b, c>>[3] = c
         /\ <<a, b, c, d>> \in Seq(S) /\ Len(<<a, b, c, d>>) = 4
         /\ <<a, b, b, b, b, b>> \in Seq(S) /\ Len(<<a, b, b, b, b, b>>) = 6
         /\ <<a, b, b, b, b, b>>[1] = a /\ <<a, b, b, b, b, b>>[6] = b
  OBVIOUS

\* A header and what it means.
LEMMA HeaderIs ==
  ASSUME NEW name, NEW text, NEW means
  PROVE  /\ Header(name, text, means).name = name
         /\ Header(name, text, means).text = text
         /\ Header(name, text, means).means = means
  BY DEF Header

\* The values of Content-Length, with what they mean
Value(h, text, means) == h.text = text /\ h.means = means

\* They are these.
LEMMA LengthIs ==
  ASSUME NEW h \in Lengths
  PROVE  /\ h.name = "length:"
         /\ \/ Value(h, <<"0">>, 0) \/ Value(h, <<" ", "3", " ">>, 3) \/ Value(h, <<"0", "1">>, 1)
            \/ Value(h, <<"9">>, 9) \/ Value(h, <<>>, 0) \/ Value(h, <<"x">>, -1)
            \/ Value(h, <<"1", " ", "1">>, -1) \/ Value(h, <<"-", "1">>, -1)
            \/ Value(h, <<"9", "9">>, -1) \/ Value(h, <<"-", "9", "9", "9", "9", "9">>, 1)
<1> DEFINE t1 == <<"0">>
           t2 == <<" ", "3", " ">>
           t3 == <<"0", "1">>
           t4 == <<"9">>
           t5 == <<>>
           t6 == <<"x">>
           t7 == <<"1", " ", "1">>
           t8 == <<"-", "1">>
           t9 == <<"9", "9">>
           t0 == <<"-", "9", "9", "9", "9", "9">>
           m  == -1
           name == "length:"
<1>1. \E v \in {<<t1, 0>>, <<t2, 3>>, <<t3, 1>>, <<t4, 9>>, <<t5, 0>>, <<t6, m>>, <<t7, m>>,
                <<t8, m>>, <<t9, m>>, <<t0, 1>>} : h = Header(name, v[1], v[2])
  BY Zenon DEF Lengths
<1> HIDE DEF t1, t2, t3, t4, t5, t6, t7, t8, t9, t0, m, name
<1>2. PICK v \in {<<t1, 0>>, <<t2, 3>>, <<t3, 1>>, <<t4, 9>>, <<t5, 0>>, <<t6, m>>, <<t7, m>>,
                  <<t8, m>>, <<t9, m>>, <<t0, 1>>} : h = Header(name, v[1], v[2])
  BY <1>1
<1>3. h.name = name /\ Value(h, v[1], v[2])
  BY <1>2, HeaderIs DEF Value
<1>4. ASSUME NEW a, NEW b, v = <<a, b>>
      PROVE  Value(h, a, b)
  <2>1. v[1] = a /\ v[2] = b
    BY <1>4
  <2> QED
    BY <1>3, <2>1
<1>5. \/ Value(h, t1, 0) \/ Value(h, t2, 3) \/ Value(h, t3, 1) \/ Value(h, t4, 9) \/ Value(h, t5, 0)
      \/ Value(h, t6, m) \/ Value(h, t7, m) \/ Value(h, t8, m) \/ Value(h, t9, m) \/ Value(h, t0, 1)
  BY <1>2, <1>4, Zenon
<1> QED
  BY <1>3, <1>5, Zenon DEF t1, t2, t3, t4, t5, t6, t7, t8, t9, t0, m, name

\* A number says itself, ...
LEMMA SaysNumber ==
  ASSUME NEW h, NEW room, h.means \in Nat,
         StrToUl(Trim(h.text, Blank), RequestMaxBytes) =
           IF h.means <= RequestMaxBytes THEN h.means ELSE -1
  PROVE  Says(h, room)
<1> DEFINE value == StrToUl(Trim(h.text, Blank), RequestMaxBytes)
<1>1. h.means # -1
  OBVIOUS
<1> HIDE DEF value
<1> QED
  BY <1>1 DEF Says, value

\* and what is none, that there is none.
LEMMA SaysNone ==
  ASSUME NEW h, NEW room, h.means = -1,
         StrToUl(Trim(h.text, Blank), RequestMaxBytes) = -1
  PROVE  Says(h, room)
  BY DEF Says

\* What Content-Length means, with any of these values and a body of at most 9 bytes.
LEMMA LengthsSay ==
  ASSUME NEW h \in Lengths, NEW room \in 0..9
  PROVE  Says(h, room)
<1> DEFINE V == ValueBytes
           said == StrToUl(Trim(h.text, Blank), RequestMaxBytes)
<1>1. RequestMaxBytes \in Nat
  BY RequestAssumption
<1>2. "x" \in V /\ "3" \in V /\ " " \in V /\ "0" \in V /\ "1" \in V /\ "9" \in V /\ "-" \in V
  BY DEF ValueBytes
<1>3. ASSUME NEW d \in V, d # " "
      PROVE  Trim(<<d>>, Blank) = <<d>>
  <2> DEFINE t == <<d>>
  <2>1. t \in Seq(V) /\ Len(t) = 1 /\ t[1] = d /\ t # <<>>
    BY FewBytes
  <2>2. d \notin Blank
    BY <1>3 DEF Blank
  <2> HIDE DEF t, V
  <2>3. Trim(t, Blank) = t
    BY <2>1, <2>2, TrimNone
  <2> QED
    BY <2>3 DEF t
<1>4. ASSUME NEW d \in V, NEW e \in V, d # " ", e # " "
      PROVE  Trim(<<d, e>>, Blank) = <<d, e>>
  <2> DEFINE t == <<d, e>>
  <2>1. t \in Seq(V) /\ Len(t) = 2 /\ t[1] = d /\ t[2] = e /\ t # <<>>
    BY FewBytes
  <2>2. d \notin Blank /\ e \notin Blank
    BY <1>4 DEF Blank
  <2> HIDE DEF t, V
  <2>3. Trim(t, Blank) = t
    BY <2>1, <2>2, TrimNone
  <2> QED
    BY <2>3 DEF t
<1>5. ASSUME NEW d \in DOMAIN Digits, d \in V, d # " "
      PROVE  StrToUl(Trim(<<d>>, Blank), RequestMaxBytes) =
               IF Digits[d] <= RequestMaxBytes THEN Digits[d] ELSE -1
  <2>1. StrToUl(<<d>>, RequestMaxBytes) = IF Digits[d] <= RequestMaxBytes THEN Digits[d] ELSE -1
    BY <1>1, OneDigit
  <2> QED
    BY <1>3, <1>5, <2>1
<1>6. ASSUME NEW d \in DOMAIN Digits, NEW e \in DOMAIN Digits, d \in V, e \in V, d # " ", e # " ",
             NEW v, 10 * Digits[d] + Digits[e] = v
      PROVE  StrToUl(Trim(<<d, e>>, Blank), RequestMaxBytes) =
               IF v <= RequestMaxBytes THEN v ELSE -1
  <2>1. StrToUl(<<d, e>>, RequestMaxBytes) = IF v <= RequestMaxBytes THEN v ELSE -1
    <3> DEFINE w == 10 * Digits[d] + Digits[e]
    <3>1. StrToUl(<<d, e>>, RequestMaxBytes) = IF w <= RequestMaxBytes THEN w ELSE -1
      BY <1>1, TwoDigits
    <3>2. w = v
      BY <1>6
    <3> HIDE DEF w
    <3> QED
      BY <3>1, <3>2
  <2> QED
    BY <1>4, <1>6, <2>1
<1>7. /\ "0" \in DOMAIN Digits /\ "1" \in DOMAIN Digits /\ "3" \in DOMAIN Digits /\ "9" \in DOMAIN Digits
      /\ Digits["0"] = 0 /\ Digits["1"] = 1 /\ Digits["3"] = 3 /\ Digits["9"] = 9
  BY DigitsAre
<1>8. CASE Value(h, <<"0">>, 0)
  <2> DEFINE d == "0"
  <2>1. d \in DOMAIN Digits /\ d \in V /\ d # " " /\ Digits[d] = 0
    BY <1>2, <1>7
  <2> HIDE DEF d, V
  <2>2. StrToUl(Trim(<<d>>, Blank), RequestMaxBytes) = IF 0 <= RequestMaxBytes THEN 0 ELSE -1
    BY <1>5, <2>1
  <2>3. h.text = <<d>> /\ h.means = 0
    BY <1>8 DEF Value, d
  <2> QED
    BY <2>2, <2>3, SaysNumber
<1>9. CASE Value(h, <<"9">>, 9)
  <2> DEFINE d == "9"
  <2>1. d \in DOMAIN Digits /\ d \in V /\ d # " " /\ Digits[d] = 9
    BY <1>2, <1>7
  <2> HIDE DEF d, V
  <2>2. StrToUl(Trim(<<d>>, Blank), RequestMaxBytes) = IF 9 <= RequestMaxBytes THEN 9 ELSE -1
    BY <1>5, <2>1
  <2>3. h.text = <<d>> /\ h.means = 9
    BY <1>9 DEF Value, d
  <2> QED
    BY <2>2, <2>3, SaysNumber
<1>10. CASE Value(h, <<" ", "3", " ">>, 3)
  <2> DEFINE d == "3"
             b == " "
             t == <<b, d, b>>
             x == SubSeq(t, 2, 2)
  <2>1. d \in DOMAIN Digits /\ d \in V /\ d # " " /\ Digits[d] = 3 /\ b \in V /\ b \in Blank /\ d \notin Blank
    BY <1>2, <1>7 DEF Blank
  <2>2. h.text = t /\ h.means = 3
    BY <1>10 DEF Value
  <2> HIDE DEF d, b, V
  <2>3. t \in Seq(V) /\ Len(t) = 3 /\ t[1] = b /\ t[2] = d /\ t[3] = b
    BY <2>1, FewBytes
  <2> HIDE DEF t
  <2>4. 2 \in 1..Len(t) /\ 2 \in 2..Len(t) /\ \A j \in 1..Len(t) : j \notin 2..2 => j = 1 \/ j = 3
    BY <2>3
  <2>5. \A j \in 1..Len(t) : j \notin 2..2 => t[j] \in Blank
    BY <2>1, <2>3, <2>4
  <2>6. t[2] \notin Blank
    BY <2>1, <2>3
  <2>7. Trim(t, Blank) = x
    BY <2>3, <2>4, <2>5, <2>6, TrimIs
  <2>8. x = <<d>>
    <3> DEFINE i0 == 2
               z  == SubSeq(t, i0, i0)
               y  == <<d>>
    <3>1. i0 \in Nat \ {0} /\ i0 \in Nat /\ i0 <= i0 + 1 /\ i0 <= Len(t) /\ i0 - i0 + 1 = 1
          /\ i0 + 1 - 1 = 2 /\ 1 \in 1..1 /\ \A i \in 1..1 : i = 1
      BY <2>3
    <3>2. y \in Seq(V) /\ Len(y) = 1 /\ y[1] = d
      BY <2>1, FewBytes
    <3> HIDE DEF i0, y
    <3>3. z \in Seq(V) /\ Len(z) = i0 - i0 + 1 /\ \A i \in 1..(i0 - i0 + 1) : z[i] = t[i0 + i - 1]
      BY <2>3, <3>1, SubSeqIs
    <3> HIDE DEF z
    <3>4. Len(z) = 1 /\ z[1] = d
      BY <2>3, <3>1, <3>3
    <3>5. \A i \in 1..1 : z[i] = y[i]
      BY <3>1, <3>2, <3>4
    <3>6. z = y
      BY <3>2, <3>3, <3>4, <3>5, SeqEqual
    <3> QED
      BY <3>6 DEF z, y, i0
  <2>9. StrToUl(<<d>>, RequestMaxBytes) = IF 3 <= RequestMaxBytes THEN 3 ELSE -1
    BY <1>1, <2>1, OneDigit
  <2> HIDE DEF x
  <2>10. said = IF 3 <= RequestMaxBytes THEN 3 ELSE -1
    BY <2>2, <2>7, <2>8, <2>9
  <2> QED
    BY <2>2, <2>10, SaysNumber
<1>11. CASE Value(h, <<"0", "1">>, 1)
  <2> DEFINE d == "0"
             e == "1"
  <2>4. d \in DOMAIN Digits /\ d \in V /\ d # " " /\ e \in DOMAIN Digits /\ e \in V /\ e # " "
        /\ Digits[d] = 0 /\ Digits[e] = 1
    BY <1>2, <1>7
  <2> HIDE DEF d, e, V
  <2>5. Digits[d] = 0 /\ Digits[e] = 1
    BY <2>4
  <2>6. 10 * 0 + 1 = 1
    OBVIOUS
  <2>1. 10 * Digits[d] + Digits[e] = 1
    BY <2>5, <2>6, Zenon
  <2>2. StrToUl(Trim(<<d, e>>, Blank), RequestMaxBytes) = IF 1 <= RequestMaxBytes THEN 1 ELSE -1
    BY <1>6, <2>1, <2>4
  <2>3. h.text = <<d, e>> /\ h.means = 1
    BY <1>11 DEF Value, d, e
  <2> QED
    BY <2>2, <2>3, SaysNumber
<1>12. CASE Value(h, <<"9", "9">>, -1)
  <2> DEFINE d == "9"
  <2>6. d \in DOMAIN Digits /\ d \in V /\ d # " " /\ Digits[d] = 9
    BY <1>2, <1>7
  <2> HIDE DEF d, V
  <2>5. 10 * 9 + 9 = 99
    OBVIOUS
  <2>1. 10 * Digits[d] + Digits[d] = 99
    BY <2>5, <2>6, Zenon
  <2>2. StrToUl(Trim(<<d, d>>, Blank), RequestMaxBytes) = IF 99 <= RequestMaxBytes THEN 99 ELSE -1
    <3>1. \A v : 10 * Digits[d] + Digits[d] = v =>
            StrToUl(Trim(<<d, d>>, Blank), RequestMaxBytes) = IF v <= RequestMaxBytes THEN v ELSE -1
      BY <1>6, <2>6
    <3> QED
      BY <2>1, <3>1
  <2>3. h.text = <<d, d>> /\ h.means = -1
    BY <1>12 DEF Value, d
  <2>4. said = 99 \/ said = -1
    BY <2>2, <2>3
  <2> HIDE DEF said
  <2>7. said = -1 \/ said > room
    BY <2>4
  <2> QED
    BY <2>3, <2>7 DEF Says, said
<1>13. CASE Value(h, <<>>, 0)
  <2> DEFINE t == <<>>
  <2>1. h.text = t /\ h.means = 0
    BY <1>13 DEF Value
  <2>2. Trim(t, Blank) = t
    BY DEF Trim
  <2>3. StrToUl(t, RequestMaxBytes) = 0
    BY DEF StrToUl
  <2> HIDE DEF t
  <2>4. said = IF 0 <= RequestMaxBytes THEN 0 ELSE -1
    BY <1>1, <2>1, <2>2, <2>3
  <2> QED
    BY <2>1, <2>4, SaysNumber
<1>14. CASE Value(h, <<"x">>, -1)
  <2> DEFINE d == "x"
             t == <<d>>
  <2>1. d \in V /\ d # " " /\ d \notin Space /\ d \notin {"-", "+"}
    BY <1>2 DEF Space
  <2>2. d \notin DOMAIN Digits
    BY DigitsAre
  <2>3. h.text = t /\ h.means = -1
    BY <1>14 DEF Value
  <2> HIDE DEF d, V
  <2>10. d \in V
    BY <2>1
  <2>11. t \in Seq(V) /\ Len(t) = 1 /\ t[1] = d
    BY <2>10, FewBytes
  <2>4. t \in Seq(V) /\ Len(t) = 1 /\ t[1] = d /\ t # <<>> /\ 1 \in 1..1
    BY <2>11, EmptySeq
  <2>5. Trim(t, Blank) = t
    BY <1>3, <2>1
  <2> HIDE DEF t
  <2>6. ~(\A i \in 1..Len(t) : t[i] \in DOMAIN Digits)
    BY <2>2, <2>4
  <2>7. StrToUl(t, RequestMaxBytes) =
          IF ~(\A i \in 1..Len(t) : t[i] \in DOMAIN Digits) THEN -1
          ELSE IF Decimal[t] > MaxUlong \/ Decimal[t] > RequestMaxBytes THEN -1 ELSE Decimal[t]
    BY <2>1, <2>4, PlainNumber
  <2>8. StrToUl(t, RequestMaxBytes) = -1
    BY <2>6, <2>7
  <2>9. said = -1
    BY <2>3, <2>5, <2>8
  <2> QED
    BY <2>3, <2>9, SaysNone
<1>15. CASE Value(h, <<"1", " ", "1">>, -1)
  <2> DEFINE d == "1"
             b == " "
             t == <<d, b, d>>
  <2>1. d \in V /\ b \in V /\ d \notin Blank /\ d \notin Space /\ d \notin {"-", "+"}
    BY <1>2 DEF Space, Blank
  <2>2. b \notin DOMAIN Digits
    BY DigitsAre
  <2>3. h.text = t /\ h.means = -1
    BY <1>15 DEF Value
  <2> HIDE DEF d, b, V
  <2>4. t \in Seq(V) /\ Len(t) = 3 /\ t[1] = d /\ t[2] = b /\ t[3] = d /\ t # <<>> /\ 2 \in 1..3
    BY <2>1, FewBytes
  <2> HIDE DEF t
  <2>5. Trim(t, Blank) = t
    BY <2>1, <2>4, TrimNone
  <2>6. ~(\A i \in 1..Len(t) : t[i] \in DOMAIN Digits)
    BY <2>2, <2>4
  <2>7. StrToUl(t, RequestMaxBytes) =
          IF ~(\A i \in 1..Len(t) : t[i] \in DOMAIN Digits) THEN -1
          ELSE IF Decimal[t] > MaxUlong \/ Decimal[t] > RequestMaxBytes THEN -1 ELSE Decimal[t]
    BY <2>1, <2>4, PlainNumber
  <2>8. StrToUl(t, RequestMaxBytes) = -1
    BY <2>6, <2>7
  <2>9. said = -1
    BY <2>3, <2>5, <2>8
  <2> QED
    BY <2>3, <2>9, SaysNone
<1>16. CASE Value(h, <<"-", "1">>, -1)
  <2> DEFINE d == "1"
             t == <<"-", d>>
  <2>6. d \in DOMAIN Digits /\ Digits[d] = 1
    BY <1>7
  <2>1. d \in DOMAIN Digits /\ Digits[d] # 0 /\ d \in V /\ d # " " /\ "-" \in V /\ "-" # " "
    <3>1. d \in V /\ d # " " /\ "-" \in V /\ "-" # " "
      BY <1>2
    <3> HIDE DEF d, V
    <3>2. Digits[d] # 0
      BY <2>6
    <3> QED
      BY <2>6, <3>1, <3>2
  <2>2. h.text = t /\ h.means = -1
    BY <1>16 DEF Value
  <2> HIDE DEF d, V
  <2>3. Trim(t, Blank) = t
    BY <1>4, <2>1
  <2>7. RequestMaxBytes + Digits[d] <= MaxUlong
    <3>1. MaxUlong \in Nat /\ RequestMaxBytes < MaxUlong
      BY RequestAssumption DEF MaxUlong
    <3> QED
      BY <1>1, <2>6, <3>1
  <2>4. StrToUl(t, RequestMaxBytes) = -1
    BY <1>1, <2>1, <2>7, Negative
  <2> HIDE DEF t
  <2>5. said = -1
    BY <2>2, <2>3, <2>4
  <2> QED
    BY <2>2, <2>5, SaysNone
<1>17. CASE Value(h, <<"-", "9", "9", "9", "9", "9">>, 1)
  <2> DEFINE d == "9"
             b == "-"
             t == <<b, d, d, d, d, d>>
  <2>1. d \in V /\ b \in V /\ d \notin Blank /\ b \notin Blank
    BY <1>2 DEF Blank
  <2>2. h.text = t /\ h.means = 1
    BY <1>17 DEF Value
  <2>3. StrToUl(t, RequestMaxBytes) = IF 1 <= RequestMaxBytes THEN 1 ELSE -1
    BY <1>1, Wrapped
  <2> HIDE DEF d, b, V
  <2>4. t \in Seq(V) /\ Len(t) = 6 /\ t[1] = b /\ t[6] = d
    BY <2>1, FewBytes
  <2> HIDE DEF t
  <2>5. t # <<>>
    BY <2>4, EmptySeq
  <2>6. Trim(t, Blank) = t
    BY <2>1, <2>4, <2>5, TrimNone
  <2>7. said = IF 1 <= RequestMaxBytes THEN 1 ELSE -1
    BY <2>2, <2>3, <2>6
  <2> QED
    BY <2>2, <2>7, SaysNumber
<1> QED
  BY <1>8, <1>9, <1>10, <1>11, <1>12, <1>13, <1>14, <1>15, <1>16, <1>17, LengthIs

\* The headers the requests have.
LEMMA HeadersAre ==
  ASSUME NEW h \in Lengths \cup Ids \cup {Other}
  PROVE  /\ h.name \in {"length:", "device:", "other:"} /\ h.text \in Seq(ValueBytes)
         /\ h.name = "length:" => h \in Lengths
<1> DEFINE V == ValueBytes
<1>1. "x" \in V /\ "3" \in V /\ " " \in V /\ "0" \in V /\ "1" \in V /\ "9" \in V /\ "-" \in V
  BY DEF ValueBytes
<1> HIDE DEF V
<1>2. CASE h \in Lengths
  <2>1. \A a, b, c \in V : <<a>> \in Seq(V) /\ <<a, b>> \in Seq(V) /\ <<a, b, c>> \in Seq(V) /\ <<>> \in Seq(V)
                          /\ <<a, b, b, b, b, b>> \in Seq(V)
    OBVIOUS
  <2>2. h.name = "length:"
    BY <1>2, LengthIs
  <2>3. \/ h.text = <<"0">> \/ h.text = <<" ", "3", " ">> \/ h.text = <<"0", "1">>
        \/ h.text = <<"9">> \/ h.text = <<>> \/ h.text = <<"x">>
        \/ h.text = <<"1", " ", "1">> \/ h.text = <<"-", "1">> \/ h.text = <<"9", "9">>
        \/ h.text = <<"-", "9", "9", "9", "9", "9">>
    <3> HIDE <1>1, <2>1
    <3> QED
      BY <1>2, LengthIs, Zenon DEF Value
  <2>4. h.text \in Seq(V)
    <3>1. /\ <<"0">> \in Seq(V) /\ <<" ", "3", " ">> \in Seq(V) /\ <<"0", "1">> \in Seq(V)
          /\ <<"9">> \in Seq(V) /\ <<>> \in Seq(V) /\ <<"x">> \in Seq(V)
          /\ <<"1", " ", "1">> \in Seq(V) /\ <<"-", "1">> \in Seq(V) /\ <<"9", "9">> \in Seq(V)
          /\ <<"-", "9", "9", "9", "9", "9">> \in Seq(V)
      BY <1>1, <2>1, Zenon
    <3> QED
      BY <2>3, <3>1, Zenon
  <2> QED
    BY <1>2, <2>2, <2>4 DEF V
<1>3. CASE h \in Ids
  <2>1. \A a, b, c, d \in V : <<a>> \in Seq(V) /\ <<a, b, c>> \in Seq(V) /\ <<a, b, c, d>> \in Seq(V)
    OBVIOUS
  <2>2. \E t \in {<<"x">>, <<" ", "x", "3">>, <<"x", "x", "x", "x">>} : h = Header("device:", t, 0)
    BY <1>3, Zenon DEF Ids
  <2>3. PICK t \in {<<"x">>, <<" ", "x", "3">>, <<"x", "x", "x", "x">>} : h = Header("device:", t, 0)
    BY <2>2
  <2>4. t \in Seq(V)
    <3>1. <<"x">> \in Seq(V) /\ <<" ", "x", "3">> \in Seq(V) /\ <<"x", "x", "x", "x">> \in Seq(V)
      BY <1>1, <2>1, Zenon
    <3> QED
      BY <3>1, Zenon
  <2>5. h.name = "device:" /\ h.text = t
    <3>1. h = Header("device:", t, 0)
      BY <2>3
    <3> QED
      BY <3>1 DEF Header
  <2>6. h.name # "length:"
    BY <2>5
  <2> QED
    BY <2>4, <2>5, <2>6 DEF V
<1>4. CASE h = Other
  <2>1. \A a \in V : <<a>> \in Seq(V)
    OBVIOUS
  <2>2. h.name = "other:" /\ h.text = <<"-">>
    BY <1>4, HeaderIs DEF Other
  <2>3. <<"-">> \in Seq(V) /\ h.name # "length:"
    BY <1>1, <2>1, <2>2
  <2> QED
    BY <2>2, <2>3 DEF V
<1> QED
  BY <1>2, <1>3, <1>4

\* What a request carries behind its request line.
LEMMA ListsAre ==
  ASSUME NEW headers \in HeaderLists
  PROVE  headers \in Seq(Lengths \cup Ids \cup {Other})
<1> DEFINE L == Lengths
           I == Ids
           J == {h \in Ids : Len(h.text) = 1}
           o == Other
           H == L \cup I \cup {o}
<1>1. J \subseteq I
  OBVIOUS
<1> DEFINE A1 == {<<l>> : l \in L}
           A2 == {<<d>> : d \in I}
           A3 == {<<l, d>> : l \in L, d \in I}
           A4 == {<<d, o, l>> : d \in I, l \in L}
           A5 == {<<l, m, d>> : l \in L, m \in L, d \in J}
<1>6. headers \in A1 \cup A2 \cup A3 \cup A4 \cup A5
  BY DEF HeaderLists
<1> HIDE DEF L, I, J, o
<1>7. headers \in A1 => \E l \in L : headers = <<l>>
  OBVIOUS
<1>8. headers \in A2 => \E d \in I : headers = <<d>>
  OBVIOUS
<1>9. headers \in A3 => \E l \in L, d \in I : headers = <<l, d>>
  OBVIOUS
<1>10. headers \in A4 => \E d \in I, l \in L : headers = <<d, o, l>>
  OBVIOUS
<1>11. headers \in A5 => \E l \in L, m \in L, d \in J : headers = <<l, m, d>>
  OBVIOUS
<1> HIDE DEF A1, A2, A3, A4, A5
<1>2. \/ \E l \in L : headers = <<l>>
      \/ \E d \in I : headers = <<d>>
      \/ \E l \in L, d \in I : headers = <<l, d>>
      \/ \E d \in I, l \in L : headers = <<d, o, l>>
      \/ \E l \in L, m \in L, d \in J : headers = <<l, m, d>>
  BY <1>6, <1>7, <1>8, <1>9, <1>10, <1>11
<1>3. o \in H /\ \A h : h \in L \/ h \in I \/ h \in J => h \in H
  BY <1>1
<1> HIDE DEF H
<1>4. \A a, b, c \in H : <<a>> \in Seq(H) /\ <<a, b>> \in Seq(H) /\ <<a, b, c>> \in Seq(H)
  OBVIOUS
<1>5. headers \in Seq(H)
  BY <1>2, <1>3, <1>4, Zenon
<1> QED
  BY <1>5 DEF H, L, I, o

\* The bodies.
LEMMA BodiesAre ==
  ASSUME NEW body \in Bodies
  PROVE  body \in Seq(RequestBytes) /\ Len(body) \in 0..9
<1> DEFINE B == RequestBytes
           x == "x"
<1>1. "cr" \in B /\ "lf" \in B /\ x \in B
  <2>1. x \in ValueBytes
    BY DEF ValueBytes
  <2> HIDE DEF x
  <2> QED
    BY <2>1, BytesAre
<1>2. \/ body = <<>> \/ body = <<x>> \/ body = <<"cr", "lf", "cr">> \/ body = Crlf \o Crlf
      \/ body = <<x>> \o Crlf \o Crlf \o <<x, x, x, x>>
  BY DEF Bodies
<1> HIDE DEF B, x
<1>3. <<>> \in Seq(B) /\ Len(<<>>) = 0
  BY EmptySeq
<1>4. <<x>> \in Seq(B) /\ Len(<<x>>) = 1
  BY <1>1
<1>5. <<"cr", "lf", "cr">> \in Seq(B) /\ Len(<<"cr", "lf", "cr">>) = 3
  BY <1>1
<1>6. Crlf \in Seq(B) /\ Len(Crlf) = 2
  BY <1>1 DEF Crlf
<1>7. <<x, x, x, x>> \in Seq(B) /\ Len(<<x, x, x, x>>) = 4
  BY <1>1
<1>8. Crlf \o Crlf \in Seq(B) /\ Len(Crlf \o Crlf) = 4
  <2>1. Crlf \o Crlf \in Seq(B)
    BY <1>6, ConcatProperties
  <2>2. Len(Crlf \o Crlf) = Len(Crlf) + Len(Crlf)
    BY <1>6, ConcatProperties
  <2>3. Len(Crlf \o Crlf) = 4
    BY <1>6, <2>2
  <2> QED
    BY <2>1, <2>3
<1>9. <<x>> \o Crlf \o Crlf \o <<x, x, x, x>> \in Seq(B) /\ Len(<<x>> \o Crlf \o Crlf \o <<x, x, x, x>>) = 9
  <2> DEFINE a == <<x>>
             b == a \o Crlf
             c == b \o Crlf
             d == <<x, x, x, x>>
  <2>1. a \in Seq(B) /\ Len(a) = 1 /\ d \in Seq(B) /\ Len(d) = 4
    BY <1>4, <1>7
  <2> HIDE DEF a, d
  <2>2. b \in Seq(B) /\ Len(b) = Len(a) + Len(Crlf)
    BY <1>6, <2>1, ConcatProperties
  <2> HIDE DEF b
  <2>3. c \in Seq(B) /\ Len(c) = Len(b) + Len(Crlf)
    BY <1>6, <2>2, ConcatProperties
  <2> HIDE DEF c
  <2> DEFINE e == c \o d
  <2>4. e \in Seq(B) /\ Len(e) = Len(c) + Len(d)
    BY <2>1, <2>3, ConcatProperties
  <2> HIDE DEF e
  <2>5. Len(e) = 9
    BY <1>6, <2>1, <2>2, <2>3, <2>4
  <2> QED
    BY <2>4, <2>5 DEF a, b, c, d, e
<1>10. body \in Seq(B) /\ Len(body) \in 0..9
  <2> DEFINE l == Len(body)
  <2>1. body \in Seq(B) /\ (l = 0 \/ l = 1 \/ l = 3 \/ l = 4 \/ l = 9)
    BY <1>2, <1>3, <1>4, <1>5, <1>8, <1>9, Zenon
  <2> HIDE DEF l
  <2>2. l \in 0..9
    BY <2>1
  <2> QED
    BY <2>1, <2>2 DEF l
<1> QED
  BY <1>10 DEF B

\* Every request is composed as the theorem wants it.
LEMMA RequestsAre ==
  ASSUME NEW req \in Requests
  PROVE  /\ Composed(RequestBytes, req)
         /\ \A i \in 1..Len(req.headers) :
              req.headers[i].name = "length:" => Says(req.headers[i], Len(req.body))
<1> DEFINE B == RequestBytes
           H == Lengths \cup Ids \cup {Other}
           l == req.line
           hs == req.headers
           body == req.body
<1>1. l \in Lines /\ hs \in HeaderLists /\ body \in Bodies
  BY DEF Requests
<1>2. l \in B /\ l \notin {"cr", "lf", "length:", "device:"} /\ {"cr", "lf"} \subseteq B
  <2> HIDE DEF l
  <2> QED
    BY <1>1, BytesAre
<1>3. body \in Seq(B) /\ Len(body) \in 0..9
  BY <1>1, BodiesAre
<1>4. hs \in Seq(H)
  BY <1>1, ListsAre
<1> HIDE DEF H, l, hs, body
<1>5. Len(hs) \in Nat /\ DOMAIN hs = 1..Len(hs) /\ \A i \in 1..Len(hs) : hs[i] \in H
  BY <1>4
<1>6. ASSUME NEW h \in H
      PROVE  /\ h.name \in B /\ h.name \notin {"cr", "lf"} /\ h.text \in Seq(B)
             /\ \A k \in 1..Len(h.text) : h.text[k] \notin {"cr", "lf", "null"}
             /\ h.name = "length:" => h \in Lengths
  <2>1. /\ h.name \in {"length:", "device:", "other:"} /\ h.text \in Seq(ValueBytes)
        /\ h.name = "length:" => h \in Lengths
    BY HeadersAre DEF H
  <2> DEFINE t == h.text
             name == h.name
  <2>2. name \in B /\ name \notin {"cr", "lf"}
    <3>1. name \in {"length:", "device:", "other:"}
      BY <2>1
    <3> HIDE DEF name
    <3> QED
      BY <3>1, BytesAre
  <2>3. t \in Seq(ValueBytes)
    BY <2>1
  <2> HIDE DEF t
  <2>4. \A k \in 1..Len(t) : t[k] \in ValueBytes
    BY <2>3
  <2>5. \A k \in 1..Len(t) : t[k] \notin {"cr", "lf", "null"}
    BY <2>4, BytesAre
  <2>6. ValueBytes \subseteq B
    BY BytesAre
  <2>7. t \in Seq(B)
    <3> HIDE DEF B
    <3> QED
      BY <2>3, <2>6, SeqMonotonic
  <2> QED
    BY <2>1, <2>2, <2>5, <2>7 DEF t
<1>7. \A i \in 1..Len(hs) : hs[i].name = "length:" => Says(hs[i], Len(body))
  <2> SUFFICES ASSUME NEW i \in 1..Len(hs), hs[i].name = "length:"
               PROVE  Says(hs[i], Len(body))
    OBVIOUS
  <2>1. hs[i] \in Lengths
    BY <1>5, <1>6
  <2> QED
    BY <1>3, <2>1, LengthsSay
<1> HIDE DEF B
<1>8. \A i \in 1..Len(hs) :
        /\ hs[i].name \in B /\ hs[i].name \notin {"cr", "lf"}
        /\ hs[i].text \in Seq(B)
        /\ \A k \in 1..Len(hs[i].text) : hs[i].text[k] \notin {"cr", "lf", "null"}
  BY <1>5, <1>6
<1>9. Composed(B, req)
  BY <1>2, <1>3, <1>5, <1>8 DEF Composed, l, hs, body
<1> QED
  BY <1>7, <1>9 DEF B, hs, body

\* Hence the run's property: every request is handled as its peer means it.
THEOREM RequestsAreHandled == Spec => []HandledAsMeant
<1>1. ReadsAsMeant
  <2> SUFFICES ASSUME NEW req \in Requests, NEW cuts
               PROVE  HandleClient(Encoded(req), cuts) = Meant(req)
    BY Zenon DEF ReadsAsMeant
  <2> QED
    BY RequestsAre, RequestHandled
<1>2. HandledAsMeant
  BY <1>1 DEF HandledAsMeant
<1> QED
  BY <1>2, PTL
=============================================================================
