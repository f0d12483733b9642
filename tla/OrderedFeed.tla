---------------------------- MODULE OrderedFeed ----------------------------
(***************************************************************************)
(* What the agent makes of the broker's stream of messages.  While a       *)
(* subscription lasts, messages come in the order in which the broker      *)
(* accepted them, each once.  A message is missed only if it was accepted  *)
(* without a subscription, was still coming when the subscription ended,   *)
(* or could not be inserted: never one out of the middle, and a new        *)
(* subscription brings back nothing of an earlier one.                     *)
(***************************************************************************)
EXTENDS Integers, Sequences

VARIABLES
  accepted,  \* messages the broker has accepted so far, numbered from 1
  open,      \* a subscription is in force
  coming,    \* messages on their way to the agent
  taken      \* messages in the agent's buffer

vars == <<accepted, open, coming, taken>>

Init == accepted = 0 /\ open = FALSE /\ coming = <<>> /\ taken = <<>>

Accept ==
  /\ accepted' = accepted + 1
  /\ coming' = IF open THEN Append(coming, accepted + 1) ELSE coming
  /\ UNCHANGED <<open, taken>>

Open ==
  /\ coming = <<>> /\ open' = TRUE
  /\ UNCHANGED <<accepted, coming, taken>>

\* With the subscription ends what was on its way, from some point on
End ==
  /\ open' = FALSE
  /\ \E n \in 0..Len(coming) : coming' = SubSeq(coming, 1, n)
  /\ UNCHANGED <<accepted, taken>>

Take ==
  /\ coming # <<>>
  /\ taken' = Append(taken, Head(coming)) /\ coming' = Tail(coming)
  /\ UNCHANGED <<accepted, open>>

Miss ==
  /\ coming # <<>> /\ coming' = Tail(coming)
  /\ UNCHANGED <<accepted, open, taken>>

Next == Accept \/ Open \/ End \/ Take \/ Miss

Spec == Init /\ [][Next]_vars

\* No message stays on its way for ever
FairSpec == Spec /\ WF_vars(Take \/ Miss \/ (coming # <<>> /\ End))
=============================================================================
