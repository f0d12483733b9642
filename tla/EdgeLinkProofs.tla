--------------------------- MODULE EdgeLinkProofs ---------------------------
(***************************************************************************)
(* What EdgeLink guarantees for every number of messages, failures and     *)
(* restarts, whichever of the failures occur.                              *)
(***************************************************************************)
EXTENDS EdgeLink, SequenceTheorems, TLAPS

-----------------------------------------------------------------------------
(* The inductive invariant.                                                *)

Increasing(q) == \A i, j \in DOMAIN q : i < j => q[i] < q[j]

\* Messages leave the broker in order, and what is still to be read is newer
\* than all that has been inserted
InOrder ==
  /\ Increasing(inbox) /\ Increasing(buffered)
  /\ \A i \in DOMAIN buffered, j \in DOMAIN inbox : buffered[i] < inbox[j]

\* A subscription lives and ends with the link it was made on, and a new one
\* starts with nothing on its way
SubscribedUp ==
  /\ subscribed => link = "up"
  /\ request = "sent" => ~subscribed
  /\ ~subscribed /\ link # "broken" => inbox = <<>>

IInv == TypeOK /\ InOrder /\ SubscribedUp
-----------------------------------------------------------------------------
(* Sequences of messages.                                                  *)

(* The next message is the one with the next number.                       *)
LEMMA AppendNext ==
  ASSUME NEW n \in Nat, NEW q \in Seq(1..n), Increasing(q)
  PROVE  /\ Append(q, n + 1) \in Seq(1..(n + 1))
         /\ Increasing(Append(q, n + 1))
         /\ DOMAIN Append(q, n + 1) = DOMAIN q \cup {Len(q) + 1}
         /\ Append(q, n + 1)[Len(q) + 1] = n + 1
         /\ \A i \in DOMAIN q : Append(q, n + 1)[i] = q[i] /\ q[i] \in 1..n
BY DEF Increasing

(* The numbers that exist stay in range.                                   *)
LEMMA Widen ==
  ASSUME NEW n \in Nat, NEW q \in Seq(1..n)
  PROVE  q \in Seq(1..(n + 1))
BY SeqMonotonic, 1..n \subseteq 1..(n + 1)

(* A link that breaks cuts off the end of what was on its way.             *)
LEMMA Prefix ==
  ASSUME NEW S, NEW q \in Seq(S), NEW n \in 0..Len(q)
  PROVE  /\ SubSeq(q, 1, n) \in Seq(S)
         /\ DOMAIN SubSeq(q, 1, n) \subseteq DOMAIN q
         /\ \A i \in DOMAIN SubSeq(q, 1, n) : SubSeq(q, 1, n)[i] = q[i]
OBVIOUS

\* What is behind the first element of a sequence.
LEMMA TailOf ==
  ASSUME NEW S, NEW q \in Seq(S), q # <<>>
  PROVE  /\ Tail(q) \in Seq(S) /\ Head(q) \in S /\ Head(q) = q[1] /\ 1 \in DOMAIN q
         /\ \A i \in DOMAIN Tail(q) : Tail(q)[i] = q[i + 1] /\ i + 1 \in DOMAIN q
BY HeadTailProperties
-----------------------------------------------------------------------------
(* Type correctness.                                                       *)

\* The two halves of the type invariant
Modes ==
  /\ main \in {"connect", "loop", "backoff", "stopped"} /\ running \in BOOLEAN
  /\ link \in {"none", "greeting", "up", "broken"}
  /\ brokerUp \in BOOLEAN /\ request \in {"none", "sent", "failed"} /\ subscribed \in BOOLEAN

Messages ==
  /\ sent \in 0..MaxMessages
  /\ inbox \in Seq(1..sent) /\ unacked \in Seq(1..sent) /\ buffered \in Seq(1..sent)
  /\ faults \in Nat /\ boots \in 1..MaxBoots

\* TypeOK in two parts.
LEMMA Typed == TypeOK <=> Modes /\ Messages
BY DEF TypeOK, Modes, Messages

\* The initial state has the types.
LEMMA InitTypeOK == Init => TypeOK
<1> SUFFICES ASSUME Init PROVE TypeOK
  OBVIOUS
<1>1. Modes
  BY DEF Init, Modes
<1>2. Messages
  BY EmptySeq, LinkAssumption DEF Init, Messages
<1> QED
  BY <1>1, <1>2, Typed

(* main(), the broker and the network: no step leaves the modes.           *)
LEMMA NextModes ==
  ASSUME Modes, Next
  PROVE  Modes'
<1> USE DEF Modes, agent, broker, history, CleanSession
<1>1. CASE Connect \/ Reconnect
  BY <1>1 DEF Connect, Reconnect, OpenLink
<1>2. CASE ConnectFails \/ ReconnectFails
  BY <1>2 DEF ConnectFails, ReconnectFails
<1>3. CASE OnConnect \/ OnMessage \/ LoopFails
  BY <1>3 DEF OnConnect, OnMessage, LoopFails
<1>4. CASE NoConn \/ Leave
  BY <1>4 DEF NoConn, vars, Leave
<1>5. CASE Kill \/ Signal \/ Boot
  BY <1>5 DEF Kill, Signal, Boot
<1>6. CASE Subscribe \/ SubscribeDenied \/ Puback \/ Publish
  BY <1>6 DEF Subscribe, SubscribeDenied, Puback, Publish
<1>7. CASE Drop \/ BrokerStop \/ BrokerStart
  BY <1>7 DEF Drop, BrokerStop, BrokerStart, LoseLink
<1> QED
  BY <1>1, <1>2, <1>3, <1>4, <1>5, <1>6, <1>7 DEF Next, AgentStep

(* Every step keeps the messages that are on their way, forgets them,      *)
(* loses the last ones, hands over the first or adds the next.             *)
LEMMA NextMessages ==
  ASSUME Messages, Next
  PROVE  Messages'
<1> USE LinkAssumption DEF Messages, agent, broker, history, Count
<1>0. <<>> \in Seq(1..sent)
  BY EmptySeq
<1>1. CASE Connect \/ Reconnect \/ Leave \/ Kill \/ LoopFails
  <2>1. inbox' = <<>> /\ unacked' \in {<<>>, unacked} /\ UNCHANGED <<buffered, sent, boots>>
    BY <1>1 DEF Connect, Reconnect, OpenLink, Leave, Kill, LoopFails, CleanSession
  <2>2. faults' \in Nat
    BY <1>1 DEF Connect, Reconnect, Leave, Kill, LoopFails
  <2> QED
    BY <1>0, <2>1, <2>2
<1>2. CASE ConnectFails \/ ReconnectFails \/ OnConnect \/ NoConn
  BY <1>2 DEF ConnectFails, ReconnectFails, OnConnect, NoConn, vars
<1>3. CASE Signal \/ Boot \/ Subscribe \/ SubscribeDenied \/ BrokerStart
  BY <1>3 DEF Signal, Boot, Subscribe, SubscribeDenied, BrokerStart
<1>4. CASE OnMessage
  <2>1. Tail(inbox) \in Seq(1..sent) /\ Head(inbox) \in 1..sent
    BY <1>4, TailOf DEF OnMessage
  <2>2. Append(buffered, Head(inbox)) \in Seq(1..sent)
    BY <2>1, AppendProperties
  <2>3. inbox' \in Seq(1..sent) /\ buffered' \in Seq(1..sent)
    BY <1>4, <2>1, <2>2 DEF OnMessage
  <2>4. faults' \in Nat /\ UNCHANGED <<unacked, sent, boots>>
    BY <1>4 DEF OnMessage
  <2> QED
    BY <2>3, <2>4
<1>5. CASE Puback
  <2>1. Tail(unacked) \in Seq(1..sent)
    BY <1>5, TailOf DEF Puback
  <2> QED
    BY <1>5, <2>1 DEF Puback
<1>6. CASE Publish
  <2>1. sent' = sent + 1 /\ sent' \in 0..MaxMessages
    BY <1>6 DEF Publish
  <2>2. \A q \in Seq(1..sent) :
          q \in Seq(1..(sent + 1)) /\ Append(q, sent + 1) \in Seq(1..(sent + 1))
    <3>1. \A q \in Seq(1..sent) : q \in Seq(1..(sent + 1))
      BY Widen
    <3> QED
      BY <3>1, AppendProperties, sent + 1 \in 1..(sent + 1)
  <2> QED
    BY <1>6, <2>1, <2>2 DEF Publish
<1>7. CASE Drop \/ BrokerStop
  <2>1. inbox' \in Seq(1..sent)
    BY <1>7, Prefix DEF Drop, BrokerStop, LoseLink
  <2>2. unacked' = <<>> /\ UNCHANGED <<buffered, sent, boots>>
    BY <1>7 DEF Drop, BrokerStop, LoseLink, CleanSession
  <2>3. faults' \in Nat
    BY <1>7 DEF Drop, BrokerStop
  <2> QED
    BY <1>0, <2>1, <2>2, <2>3
<1> QED
  BY <1>1, <1>2, <1>3, <1>4, <1>5, <1>6, <1>7 DEF Next, AgentStep

\* Every step keeps the types.
LEMMA NextTypeOK == TypeOK /\ [Next]_vars => TypeOK'
<1> SUFFICES ASSUME TypeOK, [Next]_vars
             PROVE  TypeOK'
  OBVIOUS
<1>1. CASE UNCHANGED vars
  BY <1>1 DEF TypeOK, vars, agent, broker, history
<1>2. CASE Next
  BY <1>2, Typed, NextModes, NextMessages, PTL
<1> QED
  BY <1>1, <1>2

(* Every state is well typed; no message the broker has not accepted is    *)
(* ever on its way or in the buffer.                                       *)
THEOREM TypeCorrect == Spec => []TypeOK
BY InitTypeOK, NextTypeOK, PTL DEF Spec
-----------------------------------------------------------------------------
(* The subscription and the link.                                          *)

\* At the start there is neither a link nor a subscription.
LEMMA InitSubscribedUp == Init => SubscribedUp
BY DEF Init, SubscribedUp

\* A subscription ends with its link, and begins with an empty inbox.
LEMMA NextSubscribedUp ==
  ASSUME SubscribedUp, Modes, Messages, Next
  PROVE  SubscribedUp'
<1> USE DEF SubscribedUp, agent, broker, history, CleanSession
<1>1. CASE Connect \/ Reconnect
  BY <1>1 DEF Connect, Reconnect, OpenLink
<1>2. CASE ConnectFails \/ ReconnectFails \/ NoConn
  BY <1>2 DEF ConnectFails, ReconnectFails, NoConn, vars
<1>3. CASE OnConnect
  BY <1>3 DEF OnConnect
<1>4. CASE OnMessage
  BY <1>4 DEF OnMessage
<1>5. CASE LoopFails
  BY <1>5 DEF LoopFails
<1>6. CASE Leave \/ Kill
  BY <1>6 DEF Leave, Kill
<1>7. CASE Signal \/ Boot \/ Puback \/ BrokerStart
  BY <1>7 DEF Signal, Boot, Puback, BrokerStart
<1>8. CASE Subscribe \/ SubscribeDenied
  BY <1>8 DEF Subscribe, SubscribeDenied
<1>9. CASE Publish
  BY <1>9 DEF Publish
<1>10. CASE Drop \/ BrokerStop
  <2>1. /\ subscribed' = FALSE /\ request' = "none"
        /\ link' = IF link = "none" THEN "none" ELSE "broken"
    BY <1>10 DEF Drop, BrokerStop, LoseLink
  <2>2. inbox = <<>> => inbox' = <<>>
    BY <1>10, SubSeqEmpty DEF Drop, BrokerStop, LoseLink
  <2> QED
    BY <2>1, <2>2
<1> QED
  BY <1>1, <1>2, <1>3, <1>4, <1>5, <1>6, <1>7, <1>8, <1>9, <1>10 DEF Next, AgentStep
-----------------------------------------------------------------------------
(* The order of messages.                                                  *)

\* Nothing is inserted, and what is on its way are some first messages of
\* what was
OnlyLost ==
  /\ UNCHANGED buffered
  /\ \E n \in 0..Len(inbox) : inbox' = SubSeq(inbox, 1, n)

(* Losing the end of the stream keeps its order.                           *)
LEMMA LossOrder ==
  ASSUME InOrder, Messages, OnlyLost
  PROVE  InOrder'
<1>1. PICK n \in 0..Len(inbox) : inbox' = SubSeq(inbox, 1, n)
  BY DEF OnlyLost
<1>2. /\ DOMAIN inbox' \subseteq DOMAIN inbox
      /\ \A i \in DOMAIN inbox' : inbox'[i] = inbox[i]
  BY <1>1, Prefix DEF Messages
<1> QED
  BY <1>2 DEF InOrder, Increasing, OnlyLost

\* The empty sequence is the beginning of every inbox.
LEMMA Emptied == Messages => \E n \in 0..Len(inbox) : <<>> = SubSeq(inbox, 1, n)
<1> SUFFICES ASSUME Messages
             PROVE  <<>> = SubSeq(inbox, 1, 0) /\ 0 \in 0..Len(inbox)
  OBVIOUS
<1> QED
  BY SubSeqEmpty, LenProperties DEF Messages

\* The steps that end what is left of a subscription ...
Ending == Connect \/ Reconnect \/ LoopFails \/ Leave \/ Kill \/ Drop \/ BrokerStop

\* ... and those that have nothing to do with messages
Silent ==
  \/ ConnectFails \/ ReconnectFails \/ OnConnect \/ NoConn \/ Signal \/ Boot
  \/ SubscribeDenied \/ Puback \/ BrokerStart

\* Every step is of one of five kinds.
LEMMA Steps == Next <=> Ending \/ Silent \/ Subscribe \/ OnMessage \/ Publish
BY DEF Next, AgentStep, Ending, Silent

\* Where a link ends, the client loses the end of its inbox and nothing else.
LEMMA EndingLoses ==
  ASSUME Messages, Ending
  PROVE  OnlyLost /\ UNCHANGED sent
<1> USE DEF Ending, OnlyLost, history
<1>1. CASE Connect \/ Reconnect \/ LoopFails \/ Leave \/ Kill
  <2>1. inbox' = <<>> /\ UNCHANGED <<buffered, sent>>
    BY <1>1 DEF Connect, Reconnect, OpenLink, LoopFails, Leave, Kill, CleanSession
  <2> QED
    BY <2>1, Emptied
<1>2. CASE Drop \/ BrokerStop
  BY <1>2 DEF Drop, BrokerStop, LoseLink
<1> QED
  BY <1>1, <1>2

\* The silent steps leave messages and subscription alone.
LEMMA SilentKeeps ==
  ASSUME Silent
  PROVE  UNCHANGED <<inbox, subscribed, buffered, sent>>
BY DEF Silent, agent, broker, history, ConnectFails, ReconnectFails, OnConnect, NoConn, vars,
       Signal, Boot, SubscribeDenied, Puback, BrokerStart

\* on_connect subscribes and leaves the messages alone.
LEMMA SubscribeKeeps ==
  ASSUME Subscribe
  PROVE  UNCHANGED <<inbox, buffered, sent>> /\ subscribed' = TRUE
BY DEF Subscribe, agent, history

(* on_message takes the oldest message that has not been read.             *)
LEMMA MessageOrder ==
  ASSUME InOrder, Messages, OnMessage
  PROVE  InOrder'
<1> USE DEF Messages
<1>1. /\ inbox # <<>> /\ inbox' = Tail(inbox)
      /\ buffered' \in {buffered, Append(buffered, Head(inbox))}
  BY DEF OnMessage
<1>2. /\ Head(inbox) = inbox[1] /\ 1 \in DOMAIN inbox /\ Head(inbox) \in 1..sent
      /\ \A i \in DOMAIN inbox' : inbox'[i] = inbox[i + 1] /\ i + 1 \in DOMAIN inbox /\ i \in Nat \ {0}
  BY <1>1, TailOf
<1>3. \A i \in DOMAIN inbox' : Head(inbox) < inbox'[i]
  BY <1>2 DEF InOrder, Increasing
<1>4. Increasing(inbox')
  BY <1>2 DEF InOrder, Increasing
<1>5. CASE buffered' = buffered
  BY <1>2, <1>4, <1>5 DEF InOrder
<1>6. CASE buffered' = Append(buffered, Head(inbox))
  <2>1. /\ DOMAIN buffered' = DOMAIN buffered \cup {Len(buffered) + 1}
        /\ \A i \in DOMAIN buffered : buffered'[i] = buffered[i] /\ i \in 1..Len(buffered)
        /\ buffered'[Len(buffered) + 1] = inbox[1] /\ Len(buffered) \in Nat
    BY <1>2, <1>6, AppendProperties
  <2>2. \A i \in DOMAIN buffered : buffered[i] < inbox[1]
    BY <1>2 DEF InOrder
  <2>3. Increasing(buffered')
    BY <2>1, <2>2 DEF InOrder, Increasing
  <2>4. \A i \in DOMAIN buffered', j \in DOMAIN inbox' : buffered'[i] < inbox'[j]
    BY <1>2, <1>3, <2>1 DEF InOrder
  <2> QED
    BY <1>4, <2>3, <2>4 DEF InOrder
<1> QED
  BY <1>1, <1>5, <1>6

(* The broker's next message is newer than all others.                     *)
LEMMA PublishOrder ==
  ASSUME InOrder, Messages, Publish
  PROVE  InOrder'
<1> USE DEF Messages
<1>1. buffered' = buffered /\ inbox' \in {inbox, Append(inbox, sent + 1)}
  BY DEF Publish
<1>2. CASE inbox' = inbox
  BY <1>1, <1>2 DEF InOrder
<1>3. CASE inbox' = Append(inbox, sent + 1)
  <2>1. /\ Increasing(inbox')
        /\ DOMAIN inbox' = DOMAIN inbox \cup {Len(inbox) + 1}
        /\ inbox'[Len(inbox) + 1] = sent + 1
        /\ \A i \in DOMAIN inbox : inbox'[i] = inbox[i]
    BY <1>3, AppendNext DEF InOrder
  <2>2. \A i \in DOMAIN buffered : buffered[i] \in 1..sent /\ buffered[i] < sent + 1
    OBVIOUS
  <2> QED
    BY <1>1, <2>1, <2>2 DEF InOrder
<1> QED
  BY <1>1, <1>2, <1>3

\* No message is out of order where there is none.
LEMMA InitInOrder == Init => InOrder
BY DEF Init, InOrder, Increasing

\* The invariant holds at the start.
LEMMA InitIInv == Init => IInv
BY InitTypeOK, InitInOrder, InitSubscribedUp DEF IInv

\* Every step keeps it.
LEMMA NextIInv == IInv /\ [Next]_vars => IInv'
<1> SUFFICES ASSUME IInv, [Next]_vars
             PROVE  IInv'
  OBVIOUS
<1>1. TypeOK'
  BY NextTypeOK DEF IInv
<1>2. CASE UNCHANGED vars
  BY <1>1, <1>2 DEF IInv, InOrder, Increasing, SubscribedUp, vars, agent, broker
<1>3. CASE Next
  <2>1. Modes /\ Messages /\ InOrder /\ SubscribedUp
    BY Typed DEF IInv
  <2>2. InOrder'
    <3>1. CASE Ending
      BY <3>1, <2>1, EndingLoses, LossOrder
    <3>2. CASE Silent \/ Subscribe
      BY <3>2, <2>1, SilentKeeps, SubscribeKeeps DEF InOrder, Increasing
    <3> QED
      BY <1>3, <2>1, <3>1, <3>2, Steps, MessageOrder, PublishOrder
  <2>3. SubscribedUp'
    BY <1>3, <2>1, NextSubscribedUp
  <2> QED
    BY <1>1, <2>2, <2>3 DEF IInv
<1> QED
  BY <1>2, <1>3

\* Hence it always holds.
LEMMA Inductive == Spec => []IInv
BY InitIInv, NextIInv, PTL DEF Spec

(* However often the link, the broker or the agent fails, the buffer holds *)
(* each message at most once, in the order the broker accepted them.       *)
THEOREM BufferOrdered == Spec => []BufferedInOrder
<1>1. IInv => BufferedInOrder
  BY DEF IInv, InOrder, Increasing, BufferedInOrder
<1> QED
  BY <1>1, Inductive, PTL
-----------------------------------------------------------------------------
(* The link implements the safety part of OrderedFeed.                     *)

(* Whatever main(), a kill or the network does to a link ends what is left *)
(* of its subscription.                                                    *)
LEMMA EndingRefines ==
  ASSUME IInv, Ending
  PROVE  Feed!End
<1>1. Messages /\ SubscribedUp
  BY Typed DEF IInv
<1>2. subscribed' = FALSE
  <2>1. CASE LoopFails
    BY <1>1, <2>1 DEF LoopFails, SubscribedUp, Modes, broker
  <2> QED
    BY <2>1 DEF Ending, Connect, Reconnect, OpenLink, Leave, Kill, Drop, BrokerStop,
                LoseLink, CleanSession
<1> QED
  BY <1>1, <1>2, EndingLoses DEF OnlyLost, Feed!End

(* A subscription is opened on a link that has brought nothing yet.        *)
LEMMA SubscribeRefines ==
  ASSUME IInv, Subscribe
  PROVE  Feed!Open
<1>1. inbox = <<>>
  BY DEF IInv, SubscribedUp, Subscribe
<1> QED
  BY <1>1, SubscribeKeeps DEF Feed!Open

\* on_message takes a message from the feed, or misses it where the insert fails.
LEMMA MessageRefines ==
  ASSUME OnMessage
  PROVE  Feed!Take \/ Feed!Miss
BY DEF OnMessage, broker, Feed!Take, Feed!Miss

(* The broker sends to every subscriber, and a subscriber's link is up.    *)
LEMMA PublishRefines ==
  ASSUME IInv, Publish
  PROVE  Feed!Accept
BY DEF IInv, SubscribedUp, Publish, Feed!Accept

\* Every step of the link is one of the feed, or none.
LEMMA StepRefines ==
  ASSUME IInv, [Next]_vars
  PROVE  [Feed!Next]_(Feed!vars)
<1>1. CASE UNCHANGED vars \/ Silent
  BY <1>1, SilentKeeps DEF vars, agent, broker, history, Feed!vars
<1> QED
  BY <1>1, Steps, EndingRefines, SubscribeRefines, MessageRefines, PublishRefines
     DEF Feed!Next

(* What reaches the buffer is the broker's stream with gaps only where a   *)
(* subscription ended or an insert failed: the safety part of              *)
(* ImplementsFeed, whose fairness is left to TLC.                          *)
THEOREM FeedRefinement == Spec => Feed!Spec
<1>1. Init => Feed!Init
  BY DEF Init, Feed!Init
<1>2. IInv /\ [Next]_vars => [Feed!Next]_(Feed!vars)
  BY StepRefines
<1> QED
  BY <1>1, <1>2, Inductive, PTL DEF Spec, Feed!Spec
=============================================================================
