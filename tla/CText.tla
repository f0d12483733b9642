------------------------------- MODULE CText -------------------------------
(***************************************************************************)
(* C strings as the enrollment service treats them: a text is a sequence   *)
(* of characters, positions count from 1, and 0 is the null pointer.       *)
(***************************************************************************)
EXTENDS Integers, Sequences, FiniteSetsExt

NoString == <<"null">>
Space    == {" ", "\n", "\r"}  \* isspace
MaxLong  == 49999  \* LONG_MAX and
MaxUlong == 99999  \* ULONG_MAX, scaled down
Digits   == [d \in {"0", "1", "3", "5", "6", "9"} |->
               CASE d = "0" -> 0 [] d = "1" -> 1 [] d = "3" -> 3
                 [] d = "5" -> 5 [] d = "6" -> 6 [] d = "9" -> 9]

\* strstr from a position on
Find(text, s, from) ==
  LET found == {i \in from..(Len(text) - Len(s) + 1) : SubSeq(text, i, i + Len(s) - 1) = s}
  IN IF found = {} THEN 0 ELSE Min(found)

\* The text without the blanks before and after it
Trim(text, blanks) ==
  LET kept == {i \in DOMAIN text : text[i] \notin blanks}
  IN IF kept = {} THEN <<>> ELSE SubSeq(text, Min(kept), Max(kept))

Decimal[text \in Seq(DOMAIN Digits)] ==
  IF text = <<>> THEN 0
  ELSE 10 * Decimal[SubSeq(text, 1, Len(text) - 1)] + Digits[text[Len(text)]]

(* strtoul on a text to be a number as a whole: it skips blanks, takes a   *)
(* sign and, with a minus, negates modulo ULONG_MAX + 1; an empty text is  *)
(* 0.  -1 stands for what the callers refuse: no number, one that is out   *)
(* of range before it is negated, or one above the limit after that.       *)
StrToUl(text, limit) ==
  LET first    == Min({i \in 1..(Len(text) + 1) : i > Len(text) \/ text[i] \notin Space})
      number   == SubSeq(text, first, Len(text))
      signed   == number # <<>> /\ number[1] \in {"-", "+"}
      digits   == IF signed THEN Tail(number) ELSE number
      isNumber == \A i \in DOMAIN digits : digits[i] \in DOMAIN Digits
      value    == Decimal[digits]
      result   == IF number[1] = "-" /\ value # 0 THEN MaxUlong + 1 - value ELSE value
  IN IF text = <<>> THEN 0
     ELSE IF ~isNumber \/ digits = <<>> THEN -1
     ELSE IF value > MaxUlong \/ result > limit THEN -1
     ELSE result
=============================================================================
