-------------------------- MODULE NrDispatchProofs --------------------------
(***************************************************************************)
(* What NrDispatch guarantees for every number of threads, slots, calls,   *)
(* messages and lost connections, and for all topics and filters.          *)
(***************************************************************************)
EXTENDS NrDispatch, SequenceTheorems, FiniteSetTheorems, TLAPS

-----------------------------------------------------------------------------
(* The inductive invariant.                                                *)

\* Only a callback subscribes on the loop thread; the scan stays within the
\* table, and outside a dispatch nothing is left of one
LoopThread ==
  /\ pc["loop"] # "idle" => disp.at = "inside"
  /\ disp.at = "scan" => disp.slot >= 1
  /\ disp.at # "scan" => disp.slot <= Slots
  /\ disp.at = "idle" => made = <<>> /\ due = {}

\* Every call under way is another one, and has no result yet
CallsUnderWay ==
  /\ Len(calls) <= MaxCalls
  /\ \A t \in Callers : pc[t] # "idle" =>
       mine[t].call \in DOMAIN calls /\ calls[mine[t].call].result = "none"
  /\ \A t, u \in Callers : pc[t] # "idle" /\ pc[u] # "idle" /\ t # u =>
       mine[t].call # mine[u].call

Owner(i) == subs[i].cb

\* An active slot is the only one of its call; the call succeeded or is about
\* to be decided on, and a call that succeeded has a slot
SlotsOwned ==
  /\ \A i \in 1..Slots : subs[i].active =>
       /\ Owner(i) \in DOMAIN calls /\ subs[i].userdata = Owner(i)
       /\ subs[i].filter \in Kept(calls[Owner(i)].filter)
       /\ \/ calls[Owner(i)].result = "ok"
          \/ \E t \in Callers : pc[t] \in {"send", "undo"} /\ mine[t].call = Owner(i)
  /\ \A i, j \in 1..Slots :
       subs[i].active /\ subs[j].active /\ Owner(i) = Owner(j) => i = j
  /\ \A c \in DOMAIN calls : calls[c].result = "ok" =>
       \E i \in 1..Slots : subs[i].active /\ Owner(i) = c

\* A caller between TakeSlot and its result knows the slot it took
SlotsTaken ==
  \A t \in Callers : pc[t] \in {"send", "undo"} =>
    mine[t].slot \in 1..Slots /\ subs[mine[t].slot].active
      /\ Owner(mine[t].slot) = mine[t].call

\* The callbacks of this message: those called and the one about to be called
Chosen == IF disp.at = "call" THEN Called \cup {disp.cb} ELSE Called
\* on_message will not look at slot i again
Passed(i) == IF disp.at = "scan" THEN i < disp.slot ELSE i <= disp.slot

\* A call that has no slot yet is in no slot and was not called
Unregistered ==
  \A t \in Callers : pc[t] \in {"lock", "take"} =>
    /\ \A i \in 1..Slots : subs[i].active => Owner(i) # mine[t].call
    /\ mine[t].call \notin Chosen

\* The call is one for the message's topic, if its filter fits a slot
Registered(c) == c \in DOMAIN calls /\ (c \in Whole => disp.topic \in calls[c].filter)

\* The pairs of this message are as registered, and those called are other
\* ones than the one about to be called; their slots lie behind
PairsRegistered ==
  /\ \A k \in DOMAIN made : made[k].cb = made[k].userdata
  /\ \A j, k \in DOMAIN made : made[j].cb = made[k].cb => j = k
  /\ disp.at = "call" => disp.cb = disp.userdata /\ disp.cb \notin Called
  /\ \A c \in Chosen : Registered(c)
  /\ \A i \in 1..Slots : subs[i].active /\ Owner(i) \in Chosen => Passed(i)

\* What the message is owed to and lies behind was chosen, if its filter fits a slot
DueChosen ==
  /\ due \subseteq Owed(disp.topic)
  /\ \A i \in 1..Slots :
       subs[i].active /\ Owner(i) \in due \cap Whole /\ Passed(i) => Owner(i) \in Chosen

IInv ==
  /\ TypeOK /\ LoopThread /\ CallsUnderWay /\ SlotsOwned /\ SlotsTaken /\ Unregistered
  /\ PairsRegistered /\ DueChosen
-----------------------------------------------------------------------------
(* What the steps of nr_subscribe do to the calls.                         *)

\* The parts of the type invariant
CallTypes ==
  /\ pc \in [Callers -> {"idle", "lock", "take", "send", "undo"}]
  /\ mine \in [Callers -> [call : 0..MaxCalls, slot : 0..Slots]]
  /\ calls \in Seq(Call)

TableTypes == subs \in [1..Slots -> Slot] /\ lock \in Callers \cup {"none"}

Dispatches ==
  [at : {"idle", "lock", "scan", "call", "inside"}, slot : 0..Slots + 1,
   topic : Topics \cup {"none"}, cb : 0..MaxCalls, userdata : 0..MaxCalls]

DispTypes ==
  /\ disp \in Dispatches
  /\ made \in Seq([cb : 0..MaxCalls, userdata : 0..MaxCalls])
  /\ due \subseteq 1..MaxCalls

SessionTypes ==
  /\ connected \in BOOLEAN /\ link \in {"up", "down"}
  /\ requested \subseteq Filters /\ granted \subseteq Filters
  /\ inbox \in Seq(Topics) /\ sent \in 0..MaxMessages /\ drops \in 0..MaxDrops

\* Nobody else holds the lock of a critical section
Excluded ==
  /\ \A t \in Callers : pc[t] = "take" => lock = t
  /\ disp.at = "scan" => lock = "loop"

\* TypeOK in five parts.
LEMMA Parts ==
  TypeOK <=> CallTypes /\ TableTypes /\ DispTypes /\ SessionTypes /\ Excluded
BY DEF TypeOK, CallTypes, TableTypes, DispTypes, Dispatches, SessionTypes, Excluded

\* A slot keeps a filter as it is, or topics of some kind.
LEMMA KeptTopics ==
  ASSUME NEW filter \in Filters, NEW kept \in Kept(filter)
  PROVE  kept \in SUBSET Topics
BY DispatchAssumption DEF Kept

\* A call is a record with a filter.
LEMMA CallOf ==
  ASSUME CallTypes, NEW c \in DOMAIN calls
  PROVE  calls[c] \in Call /\ calls[c].filter \in Filters
<1>1. calls[c] \in Call
  BY ElementOfSeq DEF CallTypes
<1> QED
  BY <1>1 DEF Call

(* Subscribe begins one more call, without a result.                       *)
LEMMA Begins ==
  ASSUME CallTypes, CallsUnderWay, NEW t \in Callers, Subscribe(t)
  PROVE  /\ calls' \in Seq(Call) /\ Len(calls') = Len(calls) + 1 /\ Len(calls') <= MaxCalls
         /\ DOMAIN calls' = DOMAIN calls \cup {Len(calls) + 1}
         /\ Len(calls) + 1 \notin DOMAIN calls
         /\ \A c \in DOMAIN calls : calls'[c] = calls[c]
         /\ calls'[Len(calls) + 1].result = "none"
         /\ mine'[t].call = Len(calls) + 1 /\ pc'[t] = "lock" /\ pc[t] = "idle"
         /\ \A u \in Callers \ {t} : pc'[u] = pc[u] /\ mine'[u] = mine[u]
<1>1. PICK f \in Filters : calls' = Append(calls, [filter |-> f, result |-> "none"])
  BY DEF Subscribe
<1> DEFINE call == [filter |-> f, result |-> "none"]
<1>2. call \in Call /\ call.result = "none"
  BY DEF Call
<1> HIDE DEF call
<1>3. /\ calls' \in Seq(Call) /\ Len(calls') = Len(calls) + 1
      /\ DOMAIN calls' = DOMAIN calls \cup {Len(calls) + 1}
      /\ Len(calls) + 1 \notin DOMAIN calls
      /\ \A c \in DOMAIN calls : calls'[c] = calls[c]
      /\ calls'[Len(calls) + 1] = call
  <2>1. calls' = Append(calls, call) /\ calls \in Seq(Call)
    BY <1>1 DEF CallTypes, call
  <2> QED
    BY <1>2, <2>1
<1>4. Len(calls') <= MaxCalls
  BY <1>3, DispatchAssumption DEF Subscribe, CallTypes
<1>5. mine'[t].call = Len(calls) + 1 /\ pc'[t] = "lock" /\ pc[t] = "idle"
  BY DEF Subscribe, Go, MayCall, CallTypes
<1>6. \A u \in Callers \ {t} : pc'[u] = pc[u] /\ mine'[u] = mine[u]
  BY DEF Subscribe, Go, CallTypes
<1> QED
  BY <1>2, <1>3, <1>4, <1>5, <1>6

(* Return gives the caller's call its result.                              *)
LEMMA Returns ==
  ASSUME CallTypes, CallsUnderWay, NEW t \in Callers, pc[t] # "idle",
         NEW result \in {"ok", "error"}, Return(t, result)
  PROVE  /\ calls' \in Seq(Call) /\ Len(calls') = Len(calls) /\ DOMAIN calls' = DOMAIN calls
         /\ \A c \in DOMAIN calls :
              /\ calls'[c].filter = calls[c].filter
              /\ c = mine[t].call => calls'[c].result = result
              /\ c # mine[t].call => calls'[c].result = calls[c].result
         /\ pc'[t] = "idle"
         /\ \A u \in Callers \ {t} : pc'[u] = pc[u] /\ mine'[u] = mine[u]
<1> DEFINE c == mine[t].call
           r == [calls[c] EXCEPT !.result = result]
<1>1. c \in DOMAIN calls /\ calls[c] \in Call
  BY CallOf DEF CallsUnderWay
<1>2. r \in Call /\ r.result = result /\ r.filter = calls[c].filter
  BY <1>1 DEF Call
<1>3. calls' = [calls EXCEPT ![c] = r]
  BY DEF Return
<1> HIDE DEF r, c
<1>4. /\ calls' \in Seq(Call) /\ Len(calls') = Len(calls) /\ DOMAIN calls' = DOMAIN calls
      /\ calls'[c] = r /\ \A b \in DOMAIN calls : b # c => calls'[b] = calls[b]
  BY <1>1, <1>2, <1>3 DEF CallTypes
<1>5. pc'[t] = "idle" /\ \A u \in Callers \ {t} : pc'[u] = pc[u] /\ mine'[u] = mine[u]
  BY DEF Return, Go, CallTypes
<1> QED
  BY <1>2, <1>4, <1>5 DEF c
-----------------------------------------------------------------------------
(* Type correctness.                                                       *)

\* The initial state has the types.
LEMMA InitTypeOK == Init => TypeOK
<1> SUFFICES ASSUME Init PROVE TypeOK
  OBVIOUS
<1> USE DispatchAssumption DEF Init
<1>1. CallTypes
  BY EmptySeq DEF CallTypes, NoCall
<1>2. TableTypes
  BY DEF TableTypes, Slot, Free
<1>3. DispTypes
  BY EmptySeq DEF DispTypes, Dispatches, Idle
<1>4. SessionTypes
  BY EmptySeq DEF SessionTypes
<1>5. Excluded
  BY DEF Excluded, Idle
<1> QED
  BY <1>1, <1>2, <1>3, <1>4, <1>5, Parts

\* What the steps of the connection leave alone
Aside == UNCHANGED <<table, caller, dispatch>>

ConnectionStep == Drop \/ OnDisconnect \/ Reconnect \/ OnConnect \/ Grant \/ Publish

\* The steps of the connection are among those.
LEMMA ConnectionAside == ConnectionStep => Aside
BY DEF ConnectionStep, Drop, OnDisconnect, Reconnect, OnConnect, Grant, Publish, Aside,
   table, caller, dispatch

\* Every step keeps the calls' types.
LEMMA NextCallTypes ==
  ASSUME CallTypes, TableTypes, CallsUnderWay, Next
  PROVE  CallTypes'
<1>0. 0 \in 0..MaxCalls /\ 0 \in 0..Slots
  BY DispatchAssumption
<1>1. ASSUME NEW t \in Callers, NEW label \in {"idle", "lock", "take", "send", "undo"}, Go(t, label)
      PROVE  pc' \in [Callers -> {"idle", "lock", "take", "send", "undo"}]
  BY <1>1 DEF Go, CallTypes
<1>2. ASSUME NEW t \in Callers, Subscribe(t) PROVE CallTypes'
  <2>1. pc' \in [Callers -> {"idle", "lock", "take", "send", "undo"}]
    BY <1>1, <1>2 DEF Subscribe
  <2>2. calls' \in Seq(Call) /\ Len(calls) + 1 \in 0..MaxCalls
    BY <1>2, Begins, LenProperties, DispatchAssumption DEF CallTypes
  <2>3. mine' \in [Callers -> [call : 0..MaxCalls, slot : 0..Slots]]
    BY <1>2, <2>2 DEF Subscribe, CallTypes
  <2> QED
    BY <2>1, <2>2, <2>3 DEF CallTypes
<1>3. ASSUME NEW t \in Callers, pc[t] # "idle", NEW result \in {"ok", "error"}, Return(t, result)
      PROVE  CallTypes'
  <2>1. pc' \in [Callers -> {"idle", "lock", "take", "send", "undo"}]
    BY <1>1, <1>3 DEF Return
  <2>2. calls' \in Seq(Call)
    BY <1>3, Returns
  <2>3. mine' \in [Callers -> [call : 0..MaxCalls, slot : 0..Slots]]
    BY <1>0, <1>3 DEF Return, CallTypes, NoCall
  <2> QED
    BY <2>1, <2>2, <2>3 DEF CallTypes
<1>4. ASSUME NEW t \in Callers, SubscribeLock(t) \/ SubscribeRefused(t) PROVE CallTypes'
  BY <1>1, <1>4 DEF SubscribeLock, SubscribeRefused, CallTypes
<1>5. ASSUME NEW t \in Callers, TakeSlot(t) PROVE CallTypes'
  <2>1. pc' \in [Callers -> {"idle", "lock", "take", "send", "undo"}]
    BY <1>1, <1>5 DEF TakeSlot
  <2>2. PICK i \in 1..Slots : mine' = [mine EXCEPT ![t].slot = i]
    BY <1>5 DEF TakeSlot, Inactive
  <2>3. i \in 0..Slots
    BY <2>2, DispatchAssumption
  <2> QED
    BY <1>5, <2>1, <2>2, <2>3 DEF TakeSlot, CallTypes
<1>6. ASSUME NEW t \in Callers, TableFull(t) \/ SubscribeSent(t) \/ Undo(t) PROVE CallTypes'
  BY <1>3, <1>6 DEF TableFull, SubscribeSent, Undo
<1>7. CASE LoopStep
  BY <1>7 DEF LoopStep, Message, MessageLock, Skip, Match, Callback, CallbackReturns,
       MessageDone, caller, CallTypes
<1>8. CASE ConnectionStep
  BY <1>8, ConnectionAside DEF Aside, caller, CallTypes
<1> QED
  BY <1>2, <1>4, <1>5, <1>6, <1>7, <1>8 DEF Next, CallStep, ConnectionStep

\* Every step keeps the table's types.
LEMMA NextTableTypes ==
  ASSUME CallTypes, TableTypes, CallsUnderWay, SlotsTaken, Next
  PROVE  TableTypes'
<1> USE DEF TableTypes, table
<1>0. "loop" \in Callers
  BY DEF Callers
<1>1. ASSUME NEW t \in Callers, Subscribe(t) \/ SubscribeRefused(t) \/ SubscribeSent(t)
      PROVE  TableTypes'
  BY <1>1 DEF Subscribe, SubscribeRefused, SubscribeSent
<1>2. ASSUME NEW t \in Callers, SubscribeLock(t) \/ TableFull(t) PROVE TableTypes'
  BY <1>2 DEF SubscribeLock, TableFull, Acquire
<1>3. ASSUME NEW t \in Callers, TakeSlot(t) PROVE TableTypes'
  <2> DEFINE slot(kept) == [active |-> TRUE, filter |-> kept,
                            cb |-> mine[t].call, userdata |-> mine[t].call]
  <2>1. PICK i \in 1..Slots, kept \in Kept(calls[mine[t].call].filter) :
          subs' = [subs EXCEPT ![i] = slot(kept)]
    BY <1>3 DEF TakeSlot, Inactive
  <2>2. slot(kept) \in Slot
    <3>1. calls[mine[t].call].filter \in Filters
      BY <1>3, CallOf DEF TakeSlot, CallsUnderWay
    <3>2. kept \in SUBSET Topics
      BY <2>1, <3>1, KeptTopics
    <3>3. mine[t].call \in 0..MaxCalls
      BY DEF CallTypes
    <3> QED
      BY <3>2, <3>3 DEF Slot
  <2> HIDE DEF slot
  <2> QED
    BY <1>3, <2>1, <2>2 DEF TakeSlot
<1>4. ASSUME NEW t \in Callers, Undo(t) PROVE TableTypes'
  <2> DEFINE i == mine[t].slot
  <2>1. i \in 1..Slots /\ subs[i] \in Slot
    BY <1>4 DEF Undo, SlotsTaken
  <2>2. [subs[i] EXCEPT !.active = FALSE] \in Slot
    BY <2>1 DEF Slot
  <2>3. subs' = [subs EXCEPT ![i] = [subs[i] EXCEPT !.active = FALSE]] /\ lock' = lock
    BY <1>4 DEF Undo
  <2> HIDE DEF i
  <2> QED
    BY <2>1, <2>2, <2>3
<1>5. CASE LoopStep
  BY <1>0, <1>5 DEF LoopStep, Message, MessageLock, Skip, Match, Callback, CallbackReturns,
       MessageDone, Acquire, Unlock
<1>6. CASE ConnectionStep
  BY <1>6, ConnectionAside DEF Aside
<1> QED
  BY <1>1, <1>2, <1>3, <1>4, <1>5, <1>6 DEF Next, CallStep, ConnectionStep

\* Every step keeps the dispatch's types.
LEMMA NextDispTypes ==
  ASSUME CallTypes, TableTypes, DispTypes, SessionTypes, CallsUnderWay, LoopThread, Next
  PROVE  DispTypes'
<1> USE DispatchAssumption DEF DispTypes, dispatch
<1>1. CASE Message
  <2>1. Head(inbox) \in Topics
    BY <1>1 DEF Message, SessionTypes
  <2>2. DOMAIN calls \subseteq 1..MaxCalls
    BY DEF CallTypes, CallsUnderWay
  <2>3. due' \subseteq 1..MaxCalls
    BY <1>1, <2>2 DEF Message, Owed
  <2>4. disp' \in Dispatches
    <3>1. disp' = [at |-> "lock", slot |-> 0, topic |-> Head(inbox), cb |-> 0, userdata |-> 0]
      BY <1>1 DEF Message, Idle
    <3> QED
      BY <2>1, <3>1 DEF Dispatches
  <2> QED
    BY <1>1, <2>3, <2>4 DEF Message
<1>2. CASE MessageLock \/ Skip
  <2>1. disp.slot + 1 \in 0..Slots + 1
    BY <1>2 DEF MessageLock, Skip, LoopThread, Dispatches
  <2>2. disp' = [disp EXCEPT !.at = "scan", !.slot = disp.slot + 1]
    BY <1>2 DEF MessageLock, Skip, Dispatches
  <2>3. disp' \in Dispatches
    BY <2>1, <2>2 DEF Dispatches
  <2> QED
    BY <1>2, <2>3 DEF MessageLock, Skip
<1>3. CASE Match
  <2>1. subs[disp.slot] \in Slot
    BY <1>3 DEF Match, LoopThread, TableTypes, Dispatches
  <2>2. subs[disp.slot].cb \in 0..MaxCalls /\ subs[disp.slot].userdata \in 0..MaxCalls
    BY <2>1 DEF Slot
  <2> QED
    BY <1>3, <2>2 DEF Match, Dispatches
<1>4. CASE Callback
  BY <1>4 DEF Callback, Pair, Dispatches
<1>5. CASE CallbackReturns
  BY <1>5 DEF CallbackReturns, Resume, Dispatches
<1>6. CASE MessageDone
  BY <1>6, EmptySeq DEF MessageDone, Idle, Dispatches
<1>7. ASSUME NEW t \in Callers, Subscribe(t) \/ CallStep(t) PROVE DispTypes'
  BY <1>7 DEF Subscribe, CallStep, SubscribeLock, TakeSlot, TableFull, SubscribeSent,
     SubscribeRefused, Undo
<1>8. CASE ConnectionStep
  BY <1>8, ConnectionAside DEF Aside
<1> QED
  BY <1>1, <1>2, <1>3, <1>4, <1>5, <1>6, <1>7, <1>8 DEF Next, LoopStep, ConnectionStep

\* Every step keeps the session's types.
LEMMA NextSessionTypes ==
  ASSUME CallTypes, SessionTypes, CallsUnderWay, Next
  PROVE  SessionTypes'
<1> USE DispatchAssumption DEF SessionTypes, session, bounds
<1>1. ASSUME NEW t \in Callers, SubscribeSent(t) PROVE SessionTypes'
  <2>1. calls[mine[t].call].filter \in Filters
    BY <1>1, CallOf DEF SubscribeSent, CallsUnderWay
  <2> QED
    BY <1>1, <2>1 DEF SubscribeSent
<1>2. ASSUME NEW t \in Callers,
             Subscribe(t) \/ SubscribeLock(t) \/ TakeSlot(t) \/ TableFull(t)
               \/ SubscribeRefused(t) \/ Undo(t)
      PROVE  SessionTypes'
  BY <1>2 DEF Subscribe, SubscribeLock, TakeSlot, TableFull, SubscribeRefused, Undo
<1>3. CASE Message
  BY <1>3 DEF Message
<1>4. CASE MessageLock \/ Skip \/ Match \/ Callback \/ CallbackReturns \/ MessageDone
  BY <1>4 DEF MessageLock, Skip, Match, Callback, CallbackReturns, MessageDone
<1>5. CASE Drop
  BY <1>5, EmptySeq DEF Drop
<1>6. CASE OnDisconnect \/ Reconnect \/ OnConnect
  BY <1>6 DEF OnDisconnect, Reconnect, OnConnect
<1>7. CASE Grant
  BY <1>7 DEF Grant
<1>8. CASE Publish
  BY <1>8 DEF Publish
<1> QED
  BY <1>1, <1>2, <1>3, <1>4, <1>5, <1>6, <1>7, <1>8 DEF Next, CallStep, LoopStep

(* subs_lock excludes: on_message holds it while it scans, and not while   *)
(* a callback runs, so that nr_subscribe on the same thread gets it.       *)
LEMMA NextExcluded ==
  ASSUME CallTypes, DispTypes, Excluded, LoopThread, Next
  PROVE  Excluded'
<1> USE DEF Excluded, CallTypes
<1>0. "loop" \in Callers /\ "none" \notin Callers
  BY DispatchAssumption DEF Callers
<1>1. ASSUME NEW t \in Callers,
             Subscribe(t) \/ SubscribeSent(t) \/ SubscribeRefused(t) \/ Undo(t)
      PROVE  Excluded'
  <2>1. UNCHANGED <<lock, disp>> /\ \A u \in Callers : pc'[u] = "take" => pc[u] = "take"
    BY <1>1 DEF Subscribe, SubscribeSent, SubscribeRefused, Undo, Return, Go, table, dispatch
  <2> QED
    BY <2>1
<1>2. ASSUME NEW t \in Callers, SubscribeLock(t) PROVE Excluded'
  <2>1. lock = "none" /\ lock' = t /\ UNCHANGED disp
    BY <1>2 DEF SubscribeLock, Acquire, dispatch
  <2>2. \A u \in Callers \ {t} : pc'[u] = pc[u]
    BY <1>2 DEF SubscribeLock, Go
  <2> QED
    BY <1>0, <2>1, <2>2
<1>3. ASSUME NEW t \in Callers, TakeSlot(t) \/ TableFull(t) PROVE Excluded'
  <2>1. lock = t /\ UNCHANGED disp
    BY <1>3 DEF TakeSlot, TableFull, dispatch
  <2>2. disp.at # "scan"
    BY <1>3, <2>1 DEF TakeSlot, TableFull, LoopThread
  <2>3. \A u \in Callers : pc'[u] # "take"
    <3>1. pc'[t] # "take" /\ \A u \in Callers \ {t} : pc'[u] = pc[u]
      BY <1>3 DEF TakeSlot, TableFull, Return, Go
    <3> QED
      BY <2>1, <3>1
  <2> QED
    BY <2>1, <2>2, <2>3
<1>4. CASE MessageLock
  <2>1. lock = "none" /\ lock' = "loop" /\ UNCHANGED pc
    BY <1>4 DEF MessageLock, Acquire, caller
  <2> QED
    BY <1>0, <2>1
<1>5. CASE Match \/ MessageDone
  <2>1. disp.at = "scan" /\ lock = "loop" /\ UNCHANGED pc
    BY <1>5 DEF Match, MessageDone, caller
  <2>2. \A t \in Callers : pc[t] # "take"
    BY <2>1 DEF LoopThread
  <2>3. disp'.at # "scan"
    <3>1. Match => disp'.at = "call"
      BY DEF Match, DispTypes, Dispatches
    <3>2. MessageDone => disp'.at = "idle"
      BY DEF MessageDone, Idle
    <3> QED
      BY <1>5, <3>1, <3>2
  <2> QED
    BY <2>1, <2>2, <2>3
<1>6. CASE Message \/ Skip \/ Callback \/ CallbackReturns
  <2>1. UNCHANGED <<lock, pc>>
    BY <1>6 DEF Message, Skip, Callback, CallbackReturns, table, caller
  <2>2. disp'.at = "scan" => disp.at = "scan"
    BY <1>6 DEF Message, Skip, Callback, CallbackReturns, Idle, Resume, DispTypes, Dispatches
  <2> QED
    BY <2>1, <2>2
<1>7. CASE ConnectionStep
  BY <1>7, ConnectionAside DEF Aside, table, caller, dispatch
<1> QED
  BY <1>1, <1>2, <1>3, <1>4, <1>5, <1>6, <1>7 DEF Next, CallStep, LoopStep, ConnectionStep

\* Every step keeps the types.
LEMMA NextTypeOK ==
  ASSUME TypeOK, CallsUnderWay, SlotsTaken, LoopThread, Next
  PROVE  TypeOK'
<1>1. CallTypes /\ TableTypes /\ DispTypes /\ SessionTypes /\ Excluded
  BY Parts
<1>2. CallTypes' /\ TableTypes' /\ DispTypes' /\ SessionTypes' /\ Excluded'
  BY <1>1, NextCallTypes, NextTableTypes, NextDispTypes, NextSessionTypes, NextExcluded
<1> QED
  BY <1>2 DEF TypeOK, CallTypes, TableTypes, DispTypes, Dispatches, SessionTypes, Excluded
-----------------------------------------------------------------------------
(* The calls and the table.                                                *)

(* What the loop thread and the connection leave to nr_subscribe.          *)
LEMMA CallersOnly ==
  ASSUME Next
  PROVE  \/ \E t \in Callers : (Subscribe(t) \/ CallStep(t)) /\ UNCHANGED dispatch
         \/ (LoopStep \/ ConnectionStep) /\ UNCHANGED <<subs, caller>>
<1>1. ASSUME NEW t \in Callers, Subscribe(t) \/ CallStep(t) PROVE UNCHANGED dispatch
  BY <1>1 DEF Subscribe, CallStep, SubscribeLock, TakeSlot, TableFull, SubscribeSent,
     SubscribeRefused, Undo
<1>2. LoopStep => UNCHANGED <<subs, caller>>
  BY DEF LoopStep, Message, MessageLock, Skip, Match, Callback, CallbackReturns,
     MessageDone, table
<1>3. ConnectionStep => UNCHANGED <<subs, caller>>
  BY ConnectionAside DEF Aside, table
<1> QED
  BY <1>1, <1>2, <1>3 DEF Next, ConnectionStep

(* The steps of a call, by what they do to it.                             *)
LEMMA CallSteps ==
  ASSUME TypeOK, NEW t \in Callers, CallStep(t)
  PROVE  \/ /\ SubscribeLock(t) \/ SubscribeRefused(t)
            /\ pc'[t] # "idle" /\ pc[t] # "idle"
            /\ pc[t] \in {"lock", "take"} <=> pc'[t] \in {"lock", "take"}
            /\ UNCHANGED <<subs, mine, calls>>
         \/ /\ TakeSlot(t) /\ pc[t] = "take" /\ pc'[t] = "send" /\ UNCHANGED calls
            /\ mine'[t].call = mine[t].call
         \/ /\ TableFull(t) /\ pc[t] = "take" /\ Return(t, "error") /\ UNCHANGED subs
         \/ /\ SubscribeSent(t) /\ pc[t] = "send" /\ Return(t, "ok") /\ UNCHANGED subs
         \/ /\ Undo(t) /\ pc[t] = "undo" /\ Return(t, "error")
<1>0. CallTypes
  BY Parts
<1>1. SubscribeLock(t) =>
        pc[t] = "lock" /\ pc'[t] = "take" /\ UNCHANGED <<subs, mine, calls>>
  BY <1>0 DEF SubscribeLock, Go, CallTypes
<1>2. SubscribeRefused(t) =>
        pc[t] = "send" /\ pc'[t] = "undo" /\ UNCHANGED <<subs, mine, calls>>
  BY <1>0 DEF SubscribeRefused, Go, CallTypes, table
<1>3. TakeSlot(t) =>
        /\ pc[t] = "take" /\ pc'[t] = "send" /\ UNCHANGED calls
        /\ mine'[t].call = mine[t].call
  BY <1>0 DEF TakeSlot, Go, CallTypes
<1>4. TableFull(t) => pc[t] = "take" /\ Return(t, "error") /\ UNCHANGED subs
  BY DEF TableFull
<1>5. SubscribeSent(t) => pc[t] = "send" /\ Return(t, "ok") /\ UNCHANGED subs
  BY DEF SubscribeSent, table
<1>6. Undo(t) => pc[t] = "undo" /\ Return(t, "error")
  BY DEF Undo
<1> QED
  BY <1>1, <1>2, <1>3, <1>4, <1>5, <1>6 DEF CallStep

(* Of the other callers a step says nothing.                               *)
LEMMA OthersKept ==
  ASSUME TypeOK, NEW t \in Callers, Subscribe(t) \/ CallStep(t), NEW u \in Callers \ {t}
  PROVE  pc'[u] = pc[u] /\ mine'[u] = mine[u]
<1>0. CallTypes
  BY Parts
<1>1. CASE Subscribe(t)
  BY <1>0, <1>1 DEF Subscribe, Go, CallTypes
<1>2. CASE SubscribeLock(t) \/ SubscribeRefused(t)
  BY <1>0, <1>2 DEF SubscribeLock, SubscribeRefused, Go, CallTypes
<1>3. CASE TakeSlot(t)
  BY <1>0, <1>3 DEF TakeSlot, Go, CallTypes
<1>4. CASE TableFull(t) \/ SubscribeSent(t) \/ Undo(t)
  BY <1>0, <1>4 DEF TableFull, SubscribeSent, Undo, Return, Go, CallTypes
<1> QED
  BY <1>1, <1>2, <1>3, <1>4 DEF CallStep

(* TakeSlot turns one inactive slot into the caller's.                     *)
LEMMA Takes ==
  ASSUME TypeOK, NEW t \in Callers, TakeSlot(t)
  PROVE  \E i \in 1..Slots :
           /\ ~subs[i].active /\ subs'[i].active /\ mine'[t].slot = i
           /\ subs'[i].cb = mine[t].call /\ subs'[i].userdata = mine[t].call
           /\ subs'[i].filter \in Kept(calls[mine[t].call].filter)
           /\ \A j \in 1..Slots \ {i} : subs'[j] = subs[j]
<1>0. CallTypes /\ TableTypes
  BY Parts
<1>1. PICK i \in 1..Slots, kept \in Kept(calls[mine[t].call].filter) :
        /\ ~subs[i].active
        /\ subs' = [subs EXCEPT ![i] =
                     [active |-> TRUE, filter |-> kept,
                      cb |-> mine[t].call, userdata |-> mine[t].call]]
        /\ mine' = [mine EXCEPT ![t].slot = i]
  BY DEF TakeSlot, Inactive
<1>2. mine'[t].slot = i
  BY <1>0, <1>1 DEF CallTypes
<1> QED
  BY <1>0, <1>1, <1>2 DEF TableTypes

(* Undo makes the caller's slot inactive.                                  *)
LEMMA Undoes ==
  ASSUME TypeOK, SlotsTaken, NEW t \in Callers, Undo(t)
  PROVE  /\ mine[t].slot \in 1..Slots /\ ~subs'[mine[t].slot].active
         /\ subs[mine[t].slot].active /\ Owner(mine[t].slot) = mine[t].call
         /\ \A i \in 1..Slots \ {mine[t].slot} : subs'[i] = subs[i]
<1> DEFINE i == mine[t].slot
<1>1. i \in 1..Slots /\ subs[i].active /\ Owner(i) = mine[t].call
  BY DEF Undo, SlotsTaken
<1>2. subs \in [1..Slots -> Slot] /\ subs[i] \in Slot
  BY <1>1, Parts DEF TableTypes
<1>3. subs' = [subs EXCEPT ![i] = [subs[i] EXCEPT !.active = FALSE]]
  BY DEF Undo
<1>4. ~[subs[i] EXCEPT !.active = FALSE].active
  BY <1>2 DEF Slot
<1> HIDE DEF i
<1>5. ~subs'[i].active /\ \A j \in 1..Slots \ {i} : subs'[j] = subs[j]
  BY <1>1, <1>2, <1>3, <1>4
<1> QED
  BY <1>1, <1>5 DEF i

\* Calls under way stay different ones without a result.
LEMMA NextCallsUnderWay ==
  ASSUME TypeOK, CallsUnderWay, Next
  PROVE  CallsUnderWay'
<1>0. CallTypes
  BY Parts
<1>1. ASSUME NEW t \in Callers, Subscribe(t) PROVE CallsUnderWay'
  <2>1. \A u \in Callers \ {t} : pc'[u] # "idle" =>
          mine'[u].call = mine[u].call /\ mine[u].call \in DOMAIN calls
            /\ calls'[mine[u].call].result = "none"
    BY <1>0, <1>1, Begins DEF CallsUnderWay
  <2>2. \A u \in Callers : pc'[u] # "idle" =>
          mine'[u].call \in DOMAIN calls' /\ calls'[mine'[u].call].result = "none"
    BY <1>0, <1>1, <2>1, Begins
  <2>3. ASSUME NEW u \in Callers, NEW v \in Callers,
               pc'[u] # "idle", pc'[v] # "idle", u # v
        PROVE  mine'[u].call # mine'[v].call
    <3>1. CASE u # t /\ v # t
      BY <1>0, <1>1, <2>3, <3>1, Begins DEF CallsUnderWay
    <3>2. CASE u = t \/ v = t
      BY <1>0, <1>1, <2>1, <2>3, <3>2, Begins
    <3> QED
      BY <3>1, <3>2
  <2>4. Len(calls') <= MaxCalls
    BY <1>0, <1>1, Begins
  <2> QED
    BY <2>2, <2>3, <2>4 DEF CallsUnderWay
<1>2. ASSUME NEW t \in Callers, pc[t] # "idle", NEW result \in {"ok", "error"}, Return(t, result)
      PROVE  CallsUnderWay'
  <2>1. /\ DOMAIN calls' = DOMAIN calls /\ Len(calls') = Len(calls) /\ pc'[t] = "idle"
        /\ \A u \in Callers \ {t} : pc'[u] = pc[u] /\ mine'[u] = mine[u]
        /\ \A c \in DOMAIN calls : c # mine[t].call => calls'[c].result = calls[c].result
    BY <1>0, <1>2, Returns
  <2> QED
    BY <1>2, <2>1 DEF CallsUnderWay
<1>3. ASSUME NEW t \in Callers, CallStep(t), UNCHANGED calls, pc[t] # "idle",
             mine'[t].call = mine[t].call
      PROVE  CallsUnderWay'
  BY <1>3, OthersKept DEF CallsUnderWay
<1>4. ASSUME NEW t \in Callers, CallStep(t) PROVE CallsUnderWay'
  BY <1>2, <1>3, <1>4, CallSteps
<1>5. CASE UNCHANGED <<subs, caller>>
  BY <1>5 DEF CallsUnderWay, caller
<1> QED
  BY <1>1, <1>4, <1>5, CallersOnly

\* A caller between its two looks at the table keeps the slot it took.
LEMMA NextSlotsTaken ==
  ASSUME TypeOK, CallsUnderWay, SlotsOwned, SlotsTaken, Next
  PROVE  SlotsTaken'
<1>0. CallTypes
  BY Parts
<1> USE DEF Owner
<1>1. ASSUME NEW t \in Callers, Subscribe(t) PROVE SlotsTaken'
  <2>1. UNCHANGED subs
    BY <1>1 DEF Subscribe, table
  <2> QED
    BY <1>0, <1>1, <2>1, Begins DEF SlotsTaken
<1>2. ASSUME NEW t \in Callers, CallStep(t), UNCHANGED <<subs, mine>>,
             SubscribeLock(t) \/ SubscribeRefused(t)
      PROVE  SlotsTaken'
  <2>1. pc'[t] \in {"send", "undo"} => pc[t] \in {"send", "undo"}
    BY <1>0, <1>2 DEF SubscribeLock, SubscribeRefused, Go, CallTypes
  <2> QED
    BY <1>2, <2>1, OthersKept DEF SlotsTaken
<1>3. ASSUME NEW t \in Callers, TakeSlot(t), CallStep(t), mine'[t].call = mine[t].call
      PROVE  SlotsTaken'
  BY <1>3, Takes, OthersKept DEF SlotsTaken
<1>4. ASSUME NEW t \in Callers, CallStep(t), pc'[t] = "idle", UNCHANGED subs
      PROVE  SlotsTaken'
  BY <1>4, OthersKept DEF SlotsTaken
<1>5. ASSUME NEW t \in Callers, CallStep(t), pc'[t] = "idle", pc[t] = "undo", Undo(t)
      PROVE  SlotsTaken'
  <2> SUFFICES ASSUME NEW u \in Callers, pc'[u] \in {"send", "undo"}
               PROVE  mine'[u].slot \in 1..Slots /\ subs'[mine'[u].slot].active
                        /\ subs'[mine'[u].slot].cb = mine'[u].call
    BY DEF SlotsTaken
  <2>1. u # t /\ pc'[u] = pc[u] /\ mine'[u] = mine[u]
    BY <1>5, OthersKept
  <2>2. mine[u].slot \in 1..Slots /\ subs[mine[u].slot].active
          /\ subs[mine[u].slot].cb = mine[u].call
    BY <2>1 DEF SlotsTaken
  <2>3. mine[u].call # mine[t].call
    BY <1>5, <2>1 DEF CallsUnderWay
  <2>4. mine[u].slot # mine[t].slot
    BY <1>5, <2>2, <2>3, Undoes
  <2> QED
    BY <1>5, <2>1, <2>2, <2>4, Undoes
<1>6. ASSUME NEW t \in Callers, CallStep(t) PROVE SlotsTaken'
  <2>1. ASSUME NEW result \in {"ok", "error"}, Return(t, result) PROVE pc'[t] = "idle"
    BY <1>0, <2>1 DEF Return, Go, CallTypes
  <2> QED
    BY <1>2, <1>3, <1>4, <1>5, <1>6, <2>1, CallSteps
<1>7. CASE UNCHANGED <<subs, caller>>
  BY <1>7 DEF SlotsTaken, caller
<1> QED
  BY <1>1, <1>6, <1>7, CallersOnly

\* Only a callback subscribes on the loop thread.
LEMMA NextLoopThread ==
  ASSUME TypeOK, LoopThread, Next
  PROVE  LoopThread'
<1> USE DEF LoopThread
<1>0. CallTypes /\ DispTypes /\ "loop" \in Callers
  BY Parts DEF Callers
<1>1. ASSUME NEW t \in Callers, Subscribe(t), UNCHANGED dispatch PROVE LoopThread'
  <2>1. pc'["loop"] # "idle" => pc["loop"] # "idle" \/ disp.at = "inside"
    BY <1>0, <1>1 DEF Subscribe, Go, MayCall, CallTypes
  <2> QED
    BY <1>1, <2>1 DEF dispatch
<1>2. ASSUME NEW t \in Callers, CallStep(t), UNCHANGED dispatch PROVE LoopThread'
  <2>1. pc[t] # "idle"
    BY <1>2 DEF CallStep, SubscribeLock, TakeSlot, TableFull, SubscribeSent,
       SubscribeRefused, Undo
  <2>2. pc'["loop"] # "idle" => pc["loop"] # "idle"
    BY <1>0, <1>2, <2>1, OthersKept
  <2> QED
    BY <1>2, <2>2 DEF dispatch
<1>3. CASE LoopStep /\ UNCHANGED caller
  <2>0. UNCHANGED pc
    BY <1>3 DEF caller
  <2> USE <1>0, <2>0, DispatchAssumption DEF DispTypes, Dispatches
  <2>1. CASE Message
    BY <2>1 DEF Message, Idle
  <2>2. CASE MessageLock
    BY <2>2 DEF MessageLock
  <2>3. CASE Skip
    BY <2>3 DEF Skip
  <2>4. CASE Match
    BY <2>4 DEF Match
  <2>5. CASE Callback
    BY <2>5 DEF Callback
  <2>6. CASE CallbackReturns
    BY <2>6 DEF CallbackReturns, Resume
  <2>7. CASE MessageDone
    BY <2>7 DEF MessageDone, Idle
  <2> QED
    BY <1>3, <2>1, <2>2, <2>3, <2>4, <2>5, <2>6, <2>7 DEF LoopStep
<1>4. CASE ConnectionStep
  BY <1>4, ConnectionAside DEF Aside, caller, dispatch
<1> QED
  BY <1>1, <1>2, <1>3, <1>4, CallersOnly

(* What a call's end means for the slots: TableFull had none, Undo gave    *)
(* its own back, SubscribeSent keeps it.                                   *)
LEMMA NextSlotsOwned ==
  ASSUME TypeOK, CallsUnderWay, SlotsOwned, SlotsTaken, Unregistered, Next
  PROVE  SlotsOwned'
<1>0. CallTypes /\ TableTypes
  BY Parts
<1> USE DEF Owner
\* An active slot stays well owned while its call stays as it is
<1>1. ASSUME NEW i \in 1..Slots, subs[i].active, subs'[i] = subs[i], NEW t \in Callers,
             Subscribe(t) \/ CallStep(t), subs[i].cb # mine[t].call \/ pc[t] = "idle",
             DOMAIN calls \subseteq DOMAIN calls',
             calls'[subs[i].cb].filter = calls[subs[i].cb].filter,
             calls'[subs[i].cb].result = calls[subs[i].cb].result
      PROVE  /\ subs'[i].cb \in DOMAIN calls' /\ subs'[i].userdata = subs'[i].cb
             /\ subs'[i].filter \in Kept(calls'[subs'[i].cb].filter)
             /\ \/ calls'[subs'[i].cb].result = "ok"
                \/ \E u \in Callers :
                     pc'[u] \in {"send", "undo"} /\ mine'[u].call = subs'[i].cb
  <2>1. ASSUME NEW u \in Callers, pc[u] \in {"send", "undo"}, mine[u].call = subs[i].cb
        PROVE  pc'[u] \in {"send", "undo"} /\ mine'[u].call = subs[i].cb
    BY <1>1, <2>1, OthersKept
  <2> QED
    BY <1>1, <2>1 DEF SlotsOwned
<1>2. ASSUME NEW t \in Callers, Subscribe(t) PROVE SlotsOwned'
  <2>1. UNCHANGED subs
    BY <1>2 DEF Subscribe, table
  <2>2. /\ DOMAIN calls \subseteq DOMAIN calls' /\ pc[t] = "idle"
        /\ \A c \in DOMAIN calls : calls'[c] = calls[c]
        /\ \A c \in DOMAIN calls' \ DOMAIN calls : calls'[c].result = "none"
    BY <1>0, <1>2, Begins
  <2>3. \A i \in 1..Slots : subs[i].active => subs[i].cb \in DOMAIN calls
    BY DEF SlotsOwned
  <2>4. \A c \in DOMAIN calls' : calls'[c].result = "ok" =>
          \E i \in 1..Slots : subs[i].active /\ subs[i].cb = c
    BY <2>2 DEF SlotsOwned
  <2> QED
    BY <1>1, <1>2, <2>1, <2>2, <2>3, <2>4 DEF SlotsOwned
<1>3. ASSUME NEW t \in Callers, CallStep(t), UNCHANGED <<subs, mine, calls>>,
             SubscribeLock(t) \/ SubscribeRefused(t)
      PROVE  SlotsOwned'
  <2>1. pc[t] \in {"send", "undo"} => pc'[t] \in {"send", "undo"}
    BY <1>0, <1>3 DEF SubscribeLock, SubscribeRefused, Go, CallTypes
  <2>2. \A u \in Callers : pc[u] \in {"send", "undo"} => pc'[u] \in {"send", "undo"}
    BY <1>3, <2>1, OthersKept
  <2> QED
    BY <1>3, <2>2 DEF SlotsOwned
<1>4. ASSUME NEW t \in Callers, CallStep(t), TakeSlot(t), pc[t] = "take", pc'[t] = "send",
             UNCHANGED calls, mine'[t].call = mine[t].call
      PROVE  SlotsOwned'
  <2>1. PICK i \in 1..Slots :
          /\ ~subs[i].active /\ subs'[i].active
          /\ subs'[i].cb = mine[t].call /\ subs'[i].userdata = mine[t].call
          /\ subs'[i].filter \in Kept(calls[mine[t].call].filter)
          /\ \A j \in 1..Slots \ {i} : subs'[j] = subs[j]
    BY <1>4, Takes
  <2>2. \A j \in 1..Slots : subs[j].active => subs[j].cb # mine[t].call /\ j # i
    BY <1>4, <2>1 DEF Unregistered
  <2>3. mine[t].call \in DOMAIN calls
    BY <1>4 DEF CallsUnderWay
  <2>4. ASSUME NEW j \in 1..Slots, subs'[j].active
        PROVE  /\ subs'[j].cb \in DOMAIN calls' /\ subs'[j].userdata = subs'[j].cb
               /\ subs'[j].filter \in Kept(calls'[subs'[j].cb].filter)
               /\ \/ calls'[subs'[j].cb].result = "ok"
                  \/ \E u \in Callers :
                       pc'[u] \in {"send", "undo"} /\ mine'[u].call = subs'[j].cb
    <3>1. CASE j = i
      BY <1>4, <2>1, <2>3, <3>1
    <3>2. CASE j # i
      BY <1>1, <1>4, <2>1, <2>2, <2>4, <3>2
    <3> QED
      BY <3>1, <3>2
  <2>5. \A j, k \in 1..Slots :
          subs'[j].active /\ subs'[k].active /\ subs'[j].cb = subs'[k].cb => j = k
    BY <2>1, <2>2 DEF SlotsOwned
  <2>6. \A c \in DOMAIN calls' : calls'[c].result = "ok" =>
          \E j \in 1..Slots : subs'[j].active /\ subs'[j].cb = c
    BY <1>4, <2>1, <2>2 DEF SlotsOwned
  <2> QED
    BY <2>4, <2>5, <2>6 DEF SlotsOwned
\* The three ways to return
<1>5. ASSUME NEW t \in Callers, CallStep(t), pc[t] # "idle",
             NEW result \in {"ok", "error"}, Return(t, result)
      PROVE  /\ DOMAIN calls' = DOMAIN calls
             /\ \A c \in DOMAIN calls :
                  /\ calls'[c].filter = calls[c].filter
                  /\ c = mine[t].call => calls'[c].result = result
                  /\ c # mine[t].call => calls'[c].result = calls[c].result
             /\ mine[t].call \in DOMAIN calls /\ calls[mine[t].call].result = "none"
  BY <1>0, <1>5, Returns DEF CallsUnderWay
<1>6. ASSUME NEW t \in Callers, CallStep(t), pc[t] = "take", Return(t, "error"), UNCHANGED subs
      PROVE  SlotsOwned'
  <2>1. \A i \in 1..Slots : subs[i].active => subs[i].cb # mine[t].call
    BY <1>6 DEF Unregistered
  <2>2. ASSUME NEW c \in DOMAIN calls', calls'[c].result = "ok"
        PROVE  \E i \in 1..Slots : subs'[i].active /\ subs'[i].cb = c
    BY <1>5, <1>6, <2>2 DEF SlotsOwned
  <2>3. \A i \in 1..Slots : subs[i].active => subs[i].cb \in DOMAIN calls
    BY DEF SlotsOwned
  <2> QED
    BY <1>1, <1>5, <1>6, <2>1, <2>2, <2>3 DEF SlotsOwned
<1>7. ASSUME NEW t \in Callers, CallStep(t), pc[t] = "send", Return(t, "ok"), UNCHANGED subs
      PROVE  SlotsOwned'
  <2>1. mine[t].slot \in 1..Slots /\ subs[mine[t].slot].active
          /\ subs[mine[t].slot].cb = mine[t].call
    BY <1>7 DEF SlotsTaken
  <2>2. ASSUME NEW c \in DOMAIN calls', calls'[c].result = "ok"
        PROVE  \E i \in 1..Slots : subs'[i].active /\ subs'[i].cb = c
    BY <1>5, <1>7, <2>1, <2>2 DEF SlotsOwned
  <2>3. \A i \in 1..Slots : subs[i].active => subs[i].cb \in DOMAIN calls
    BY DEF SlotsOwned
  <2>4. ASSUME NEW i \in 1..Slots, subs'[i].active
        PROVE  /\ subs'[i].cb \in DOMAIN calls' /\ subs'[i].userdata = subs'[i].cb
               /\ subs'[i].filter \in Kept(calls'[subs'[i].cb].filter)
               /\ \/ calls'[subs'[i].cb].result = "ok"
                  \/ \E u \in Callers :
                       pc'[u] \in {"send", "undo"} /\ mine'[u].call = subs'[i].cb
    <3>1. CASE subs[i].cb = mine[t].call
      BY <1>5, <1>7, <2>3, <2>4, <3>1 DEF SlotsOwned
    <3>2. CASE subs[i].cb # mine[t].call
      BY <1>1, <1>5, <1>7, <2>3, <2>4, <3>2
    <3> QED
      BY <3>1, <3>2
  <2> QED
    BY <1>7, <2>2, <2>4 DEF SlotsOwned
<1>8. ASSUME NEW t \in Callers, CallStep(t), Undo(t), pc[t] = "undo", Return(t, "error")
      PROVE  SlotsOwned'
  <2> DEFINE i == mine[t].slot
  <2>1. /\ i \in 1..Slots /\ ~subs'[i].active /\ subs[i].active /\ subs[i].cb = mine[t].call
        /\ \A j \in 1..Slots \ {i} : subs'[j] = subs[j]
    BY <1>8, Undoes
  <2> HIDE DEF i
  <2>2. \A j \in 1..Slots : subs'[j].active =>
          j # i /\ subs'[j] = subs[j] /\ subs[j].active /\ subs[j].cb # mine[t].call
            /\ subs[j].cb \in DOMAIN calls
    BY <2>1 DEF SlotsOwned
  <2>3. ASSUME NEW c \in DOMAIN calls', calls'[c].result = "ok"
        PROVE  \E j \in 1..Slots : subs'[j].active /\ subs'[j].cb = c
    <3>1. c \in DOMAIN calls /\ c # mine[t].call /\ calls[c].result = "ok"
      BY <1>5, <1>8, <2>3
    <3>2. PICK j \in 1..Slots : subs[j].active /\ subs[j].cb = c
      BY <3>1 DEF SlotsOwned
    <3> QED
      BY <2>1, <3>1, <3>2
  <2>4. ASSUME NEW j \in 1..Slots, subs'[j].active
        PROVE  /\ subs'[j].cb \in DOMAIN calls' /\ subs'[j].userdata = subs'[j].cb
               /\ subs'[j].filter \in Kept(calls'[subs'[j].cb].filter)
               /\ \/ calls'[subs'[j].cb].result = "ok"
                  \/ \E u \in Callers :
                       pc'[u] \in {"send", "undo"} /\ mine'[u].call = subs'[j].cb
    BY <1>1, <1>5, <1>8, <2>2, <2>4
  <2>5. \A j, k \in 1..Slots :
          subs'[j].active /\ subs'[k].active /\ subs'[j].cb = subs'[k].cb => j = k
    BY <2>2 DEF SlotsOwned
  <2> QED
    BY <2>3, <2>4, <2>5 DEF SlotsOwned
<1>9. ASSUME NEW t \in Callers, CallStep(t) PROVE SlotsOwned'
  BY <1>3, <1>4, <1>6, <1>7, <1>8, <1>9, CallSteps
<1>10. CASE UNCHANGED <<subs, caller>>
  BY <1>10 DEF SlotsOwned, caller
<1> QED
  BY <1>2, <1>9, <1>10, CallersOnly
-----------------------------------------------------------------------------
(* The dispatch.                                                           *)

(* The callbacks of the message, step by step.                             *)
LEMMA LoopSteps ==
  ASSUME TypeOK, LoopThread
  PROVE  /\ Message =>
              /\ Called' = {} /\ Chosen' = {} /\ made' = <<>> /\ disp'.at = "lock"
              /\ \A i \in 1..Slots : ~Passed(i)'
         /\ MessageLock \/ Skip =>
              /\ Called' = Called /\ Chosen' = Called /\ Chosen = Called
              /\ UNCHANGED <<made, due>> /\ disp'.topic = disp.topic /\ disp'.at = "scan"
              /\ \A i \in 1..Slots : Passed(i)' <=> Passed(i) \/ (Skip /\ i = disp.slot)
         /\ Match =>
              /\ Called' = Called /\ Chosen' = Called \cup {Owner(disp.slot)}
              /\ disp'.cb = Owner(disp.slot) /\ disp'.userdata = subs[disp.slot].userdata
              /\ disp.slot \in 1..Slots /\ disp'.at = "call" /\ disp'.topic = disp.topic
              /\ UNCHANGED <<made, due>> /\ Chosen = Called
              /\ ~Passed(disp.slot)
              /\ \A i \in 1..Slots : Passed(i)' <=> Passed(i) \/ i = disp.slot
         /\ Callback =>
              /\ Called' = Chosen /\ Chosen' = Chosen
              /\ made' = Append(made, Pair) /\ UNCHANGED due
              /\ disp.at = "call" /\ disp'.at = "inside" /\ disp'.topic = disp.topic
              /\ \A i \in 1..Slots : Passed(i)' <=> Passed(i)
         /\ CallbackReturns =>
              /\ Called' = Called /\ Chosen' = Called /\ Chosen = Called
              /\ UNCHANGED <<made, due>> /\ disp'.topic = disp.topic /\ disp'.at = "lock"
              /\ \A i \in 1..Slots : Passed(i)' <=> Passed(i)
         /\ MessageDone =>
              /\ Called' = {} /\ Chosen' = {} /\ made' = <<>> /\ due' = {}
              /\ disp'.at = "idle"
<1>0. /\ disp \in Dispatches /\ made \in Seq([cb : 0..MaxCalls, userdata : 0..MaxCalls])
      /\ disp.slot \in 0..Slots + 1 /\ Slots \in Nat
  BY Parts, DispatchAssumption DEF DispTypes, Dispatches
<1> USE DEF Chosen, Passed
<1>1. ASSUME Message
      PROVE  /\ Called' = {} /\ Chosen' = {} /\ made' = <<>> /\ disp'.at = "lock"
             /\ \A i \in 1..Slots : ~Passed(i)'
  <2>1. disp'.at = "lock" /\ disp'.slot = 0 /\ made' = <<>>
    BY <1>1 DEF Message, Idle, LoopThread
  <2> QED
    BY <2>1 DEF Called
<1>2. ASSUME MessageLock \/ Skip
      PROVE  /\ Called' = Called /\ Chosen' = Called /\ Chosen = Called
             /\ UNCHANGED <<made, due>> /\ disp'.topic = disp.topic /\ disp'.at = "scan"
             /\ \A i \in 1..Slots : Passed(i)' <=> Passed(i) \/ (Skip /\ i = disp.slot)
  <2>1. /\ disp'.at = "scan" /\ disp'.slot = disp.slot + 1 /\ disp'.topic = disp.topic
        /\ disp.at # "call" /\ UNCHANGED <<made, due>>
    BY <1>0, <1>2 DEF MessageLock, Skip, Dispatches
  <2>2. \A i \in 1..Slots : Passed(i)' <=> Passed(i) \/ (Skip /\ i = disp.slot)
    <3>1. CASE MessageLock
      BY <1>0, <2>1, <3>1 DEF MessageLock, Skip
    <3>2. CASE Skip
      BY <1>0, <2>1, <3>2 DEF Skip
    <3> QED
      BY <1>2, <3>1, <3>2
  <2> QED
    BY <2>1, <2>2 DEF Called
<1>3. ASSUME Match
      PROVE  /\ Called' = Called /\ Chosen' = Called \cup {Owner(disp.slot)}
             /\ disp'.cb = Owner(disp.slot) /\ disp'.userdata = subs[disp.slot].userdata
             /\ disp.slot \in 1..Slots /\ disp'.at = "call" /\ disp'.topic = disp.topic
             /\ UNCHANGED <<made, due>> /\ Chosen = Called
             /\ ~Passed(disp.slot)
             /\ \A i \in 1..Slots : Passed(i)' <=> Passed(i) \/ i = disp.slot
  <2>1. /\ disp'.at = "call" /\ disp'.slot = disp.slot /\ disp'.topic = disp.topic
        /\ disp'.cb = Owner(disp.slot) /\ disp'.userdata = subs[disp.slot].userdata
        /\ disp.at = "scan" /\ disp.slot \in 1..Slots /\ UNCHANGED <<made, due>>
    BY <1>0, <1>3 DEF Match, Dispatches, LoopThread, Owner
  <2>2. /\ ~Passed(disp.slot)
        /\ \A i \in 1..Slots : Passed(i)' <=> Passed(i) \/ i = disp.slot
    BY <2>1
  <2> QED
    BY <2>1, <2>2 DEF Called
<1>4. ASSUME Callback
      PROVE  /\ Called' = Chosen /\ Chosen' = Chosen
             /\ made' = Append(made, Pair) /\ UNCHANGED due
             /\ disp.at = "call" /\ disp'.at = "inside" /\ disp'.topic = disp.topic
             /\ \A i \in 1..Slots : Passed(i)' <=> Passed(i)
  <2>1. /\ disp.at = "call" /\ disp'.at = "inside" /\ disp'.topic = disp.topic
        /\ disp'.slot = disp.slot /\ made' = Append(made, Pair) /\ UNCHANGED due
    BY <1>0, <1>4 DEF Callback, Dispatches
  <2>2. /\ DOMAIN made' = DOMAIN made \cup {Len(made) + 1}
        /\ made'[Len(made) + 1] = Pair /\ \A k \in DOMAIN made : made'[k] = made[k]
    <3>1. Pair \in [cb : 0..MaxCalls, userdata : 0..MaxCalls]
      BY <1>0 DEF Pair, Dispatches
    <3> HIDE DEF Pair
    <3> QED
      BY <1>0, <2>1, <3>1
  <2>3. Called' = Called \cup {disp.cb}
    BY <2>2 DEF Called, Pair
  <2> QED
    BY <2>1, <2>3
<1>5. ASSUME CallbackReturns
      PROVE  /\ Called' = Called /\ Chosen' = Called /\ Chosen = Called
             /\ UNCHANGED <<made, due>> /\ disp'.topic = disp.topic /\ disp'.at = "lock"
             /\ \A i \in 1..Slots : Passed(i)' <=> Passed(i)
  <2>1. /\ disp.at = "inside" /\ disp'.at = "lock" /\ disp'.topic = disp.topic
        /\ disp'.slot = disp.slot /\ UNCHANGED <<made, due>>
    BY <1>0, <1>5 DEF CallbackReturns, Resume, Dispatches
  <2> QED
    BY <2>1 DEF Called
<1>6. ASSUME MessageDone
      PROVE  Called' = {} /\ Chosen' = {} /\ made' = <<>> /\ due' = {} /\ disp'.at = "idle"
  BY <1>6 DEF MessageDone, Called, Idle
<1> QED
  BY <1>1, <1>2, <1>3, <1>4, <1>5, <1>6

\* A step that leaves the dispatch alone leaves what it has chosen.
LEMMA CallerChosen ==
  ASSUME UNCHANGED dispatch
  PROVE  /\ Called' = Called /\ Chosen' = Chosen
         /\ \A i \in 1..Slots : Passed(i)' <=> Passed(i)
BY DEF dispatch, Called, Chosen, Passed

(* A slot that is active after a step was so before, with the same content, *)
(* unless TakeSlot has just filled it for a call that was in no slot.      *)
LEMMA SlotsKept ==
  ASSUME TypeOK, SlotsTaken, Next, NEW i \in 1..Slots, subs'[i].active
  PROVE  \/ subs[i].active /\ subs'[i] = subs[i]
         \/ \E t \in Callers : TakeSlot(t) /\ pc[t] = "take" /\ Owner(i)' = mine[t].call
                               /\ UNCHANGED dispatch
<1>1. CASE subs'[i] = subs[i]
  BY <1>1
<1>2. ASSUME NEW t \in Callers, TakeSlot(t), subs'[i] # subs[i]
      PROVE  pc[t] = "take" /\ Owner(i)' = mine[t].call
  BY <1>2, Takes DEF TakeSlot, Owner
<1>3. ASSUME NEW t \in Callers, Undo(t), subs'[i] # subs[i] PROVE FALSE
  BY <1>3, Undoes
<1>4. ASSUME NEW t \in Callers, Subscribe(t) PROVE UNCHANGED subs
  BY <1>4 DEF Subscribe, table
<1>5. ASSUME NEW t \in Callers, CallStep(t) PROVE UNCHANGED subs \/ TakeSlot(t) \/ Undo(t)
  BY <1>5, CallSteps
<1> QED
  BY <1>1, <1>2, <1>3, <1>4, <1>5, CallersOnly

\* A call without a slot is in none, and was not called.
LEMMA NextUnregistered ==
  ASSUME TypeOK, LoopThread, CallsUnderWay, SlotsOwned, SlotsTaken, Unregistered,
         PairsRegistered, Next
  PROVE  Unregistered'
<1>0. CallTypes
  BY Parts
<1> SUFFICES ASSUME NEW u \in Callers, pc'[u] \in {"lock", "take"}
             PROVE  /\ \A i \in 1..Slots : subs'[i].active => Owner(i)' # mine'[u].call
                    /\ mine'[u].call \notin Chosen'
  BY DEF Unregistered, Owner
\* The call was under way before, or has just begun with a number of its own
<1>1. CASE pc[u] \in {"lock", "take"} /\ mine'[u].call = mine[u].call
  <2>1. \A i \in 1..Slots : subs'[i].active => Owner(i)' # mine'[u].call
    <3> SUFFICES ASSUME NEW i \in 1..Slots, subs'[i].active PROVE Owner(i)' # mine[u].call
      BY <1>1
    <3>1. CASE subs[i].active /\ subs'[i] = subs[i]
      BY <1>1, <3>1 DEF Unregistered, Owner
    <3>2. ASSUME NEW t \in Callers, TakeSlot(t), pc[t] = "take", Owner(i)' = mine[t].call
          PROVE  Owner(i)' # mine[u].call
      <4>1. t # u
        BY <1>0, <3>2 DEF TakeSlot, Go, CallTypes
      <4> QED
        BY <1>1, <3>2, <4>1 DEF CallsUnderWay
    <3> QED
      BY <3>1, <3>2, SlotsKept
  <2>2. CASE UNCHANGED dispatch
    BY <1>1, <2>1, <2>2, CallerChosen DEF Unregistered
  <2>3. CASE LoopStep
    <3>1. Match => Owner(disp.slot) # mine[u].call
      BY <1>1, LoopSteps DEF Unregistered, Match, Matches
    <3>2. Called \subseteq Chosen
      BY DEF Chosen
    <3> QED
      BY <1>1, <2>1, <2>3, <3>1, <3>2, LoopSteps DEF Unregistered, LoopStep
  <2>4. CASE ConnectionStep
    BY <2>2, <2>4, ConnectionAside DEF Aside
  <2> QED
    BY <2>2, <2>3, <2>4, CallersOnly
<1>2. CASE Subscribe(u)
  <2>1. /\ mine'[u].call \notin DOMAIN calls /\ UNCHANGED <<subs, dispatch>>
    BY <1>0, <1>2, Begins DEF Subscribe, table
  <2> QED
    BY <2>1, CallerChosen DEF SlotsOwned, PairsRegistered, Owner, Registered
<1>3. ASSUME NEW t \in Callers, Subscribe(t) \/ CallStep(t), ~Subscribe(u)
      PROVE  pc[u] \in {"lock", "take"} /\ mine'[u].call = mine[u].call
  <2>1. CASE t # u
    BY <1>3, <2>1, OthersKept
  <2>2. CASE t = u
    <3>1. ASSUME NEW result \in {"ok", "error"}, Return(u, result) PROVE FALSE
      BY <1>0, <3>1 DEF Return, Go, CallTypes
    <3> QED
      BY <1>3, <2>2, <3>1, CallSteps
  <2> QED
    BY <2>1, <2>2
<1>4. CASE UNCHANGED caller
  BY <1>1, <1>4 DEF caller
<1> QED
  BY <1>1, <1>2, <1>3, <1>4, CallersOnly

(* A call's filter and its success are for good.                           *)
LEMMA CallsKept ==
  ASSUME TypeOK, CallsUnderWay, Next
  PROVE  /\ DOMAIN calls \subseteq DOMAIN calls'
         /\ \A c \in DOMAIN calls :
              /\ calls'[c].filter = calls[c].filter
              /\ calls[c].result = "ok" => calls'[c].result = "ok"
<1>0. CallTypes
  BY Parts
<1>1. ASSUME NEW t \in Callers, Subscribe(t)
      PROVE  DOMAIN calls \subseteq DOMAIN calls' /\ \A c \in DOMAIN calls : calls'[c] = calls[c]
  BY <1>0, <1>1, Begins
<1>2. ASSUME NEW t \in Callers, pc[t] # "idle", NEW result \in {"ok", "error"}, Return(t, result)
      PROVE  /\ DOMAIN calls \subseteq DOMAIN calls'
             /\ \A c \in DOMAIN calls :
                  /\ calls'[c].filter = calls[c].filter
                  /\ calls[c].result = "ok" => calls'[c].result = "ok"
  BY <1>0, <1>2, Returns DEF CallsUnderWay
<1>3. CASE UNCHANGED calls
  BY <1>3
<1> QED
  BY <1>1, <1>2, <1>3, CallSteps, CallersOnly DEF caller

\* Nor does a step change which filters a slot holds whole.
LEMMA WholeKept ==
  ASSUME TypeOK, CallsUnderWay, Next
  PROVE  /\ DOMAIN calls \subseteq DOMAIN calls'
         /\ \A c \in DOMAIN calls : calls'[c].filter = calls[c].filter /\ (c \in Whole' <=> c \in Whole)
BY CallsKept DEF Whole

\* The pair on_message has copied is that of one registration.
LEMMA NextPairsRegistered ==
  ASSUME TypeOK, LoopThread, CallsUnderWay, SlotsOwned, SlotsTaken, Unregistered,
         PairsRegistered, Next
  PROVE  PairsRegistered'
\* While the dispatch stands still or goes on without a new choice
<1>1. ASSUME UNCHANGED <<made, disp>> PROVE PairsRegistered'
  <2>1. Called' = Called /\ Chosen' = Chosen /\ \A i \in 1..Slots : Passed(i)' <=> Passed(i)
    BY <1>1 DEF Called, Chosen, Passed
  <2>2. \A c \in Chosen' : Registered(c)'
    BY <1>1, <2>1, WholeKept DEF PairsRegistered, Registered
  <2>3. ASSUME NEW i \in 1..Slots, subs'[i].active, Owner(i)' \in Chosen' PROVE Passed(i)'
    <3>1. ASSUME NEW t \in Callers, pc[t] = "take", Owner(i)' = mine[t].call PROVE FALSE
      BY <2>1, <2>3, <3>1 DEF Unregistered
    <3> QED
      BY <2>1, <2>3, <3>1, SlotsKept DEF PairsRegistered, Owner
  <2> QED
    BY <1>1, <2>1, <2>2, <2>3 DEF PairsRegistered
<1>2. CASE LoopStep /\ UNCHANGED <<subs, caller>>
  <2> USE DEF Owner, caller
  <2>0. Called \subseteq Chosen
    BY DEF Chosen
  <2>1. CASE Message \/ MessageDone
    <3>1. Chosen' = {} /\ Called' = {} /\ made' = <<>> /\ disp'.at # "call"
      BY <2>1, LoopSteps
    <3> QED
      BY <3>1 DEF PairsRegistered
  <2>2. CASE MessageLock \/ Skip \/ CallbackReturns
    <3>1. /\ Called' = Called /\ Chosen' = Called /\ disp'.at # "call" /\ UNCHANGED made
          /\ disp'.topic = disp.topic /\ \A i \in 1..Slots : Passed(i) => Passed(i)'
      BY <1>2, <2>2, LoopSteps
    <3> QED
      BY <1>2, <2>0, <3>1 DEF PairsRegistered, Registered, Whole
  <2>3. CASE Match
    <3>1. /\ Called' = Called /\ Chosen' = Called \cup {Owner(disp.slot)}
          /\ disp'.cb = Owner(disp.slot) /\ disp'.userdata = subs[disp.slot].userdata
          /\ disp.slot \in 1..Slots /\ disp'.at = "call" /\ disp'.topic = disp.topic
          /\ UNCHANGED made /\ Chosen = Called /\ ~Passed(disp.slot)
          /\ \A i \in 1..Slots : Passed(i)' <=> Passed(i) \/ i = disp.slot
      BY <1>2, <2>3, LoopSteps
    <3>2. /\ subs[disp.slot].active /\ Owner(disp.slot) \in DOMAIN calls
          /\ subs[disp.slot].userdata = Owner(disp.slot)
          /\ Registered(Owner(disp.slot))
      BY <2>3, <3>1 DEF Match, Matches, SlotsOwned, Kept, Registered, Whole
    <3>3. Owner(disp.slot) \notin Called
      BY <3>1, <3>2 DEF PairsRegistered
    <3>4. \A i \in 1..Slots : subs[i].active /\ Owner(i) = Owner(disp.slot) => i = disp.slot
      BY <3>1, <3>2 DEF SlotsOwned
    <3>5. \A c \in Chosen' : Registered(c)'
      BY <1>2, <3>1, <3>2 DEF PairsRegistered, Registered, Whole
    <3>6. \A i \in 1..Slots : subs'[i].active /\ Owner(i)' \in Chosen' => Passed(i)'
      BY <1>2, <3>1, <3>4 DEF PairsRegistered
    <3>7. disp'.at = "call" => disp'.cb = disp'.userdata /\ disp'.cb \notin Called'
      BY <3>1, <3>2, <3>3
    <3>8. /\ \A k \in DOMAIN made' : made'[k].cb = made'[k].userdata
          /\ \A j, k \in DOMAIN made' : made'[j].cb = made'[k].cb => j = k
      BY <3>1 DEF PairsRegistered
    <3> QED
      BY <3>5, <3>6, <3>7, <3>8 DEF PairsRegistered
  <2>4. CASE Callback
    <3>1. /\ Called' = Chosen /\ Chosen' = Chosen /\ made' = Append(made, Pair)
          /\ disp.at = "call" /\ disp'.at = "inside" /\ disp'.topic = disp.topic
          /\ \A i \in 1..Slots : Passed(i)' <=> Passed(i)
      BY <1>2, <2>4, LoopSteps
    <3>2. Pair.cb = disp.cb /\ Pair.userdata = disp.cb /\ disp.cb \notin Called
      BY <3>1 DEF Pair, PairsRegistered
    <3>3. /\ DOMAIN made' = DOMAIN made \cup {Len(made) + 1}
          /\ Len(made) + 1 \notin DOMAIN made
          /\ made'[Len(made) + 1] = Pair /\ \A k \in DOMAIN made : made'[k] = made[k]
      <4>1. /\ Pair \in [cb : 0..MaxCalls, userdata : 0..MaxCalls]
            /\ made \in Seq([cb : 0..MaxCalls, userdata : 0..MaxCalls])
        BY Parts DEF Pair, DispTypes, Dispatches
      <4> HIDE DEF Pair
      <4> QED
        BY <3>1, <4>1
    <3>4. /\ \A k \in DOMAIN made' : made'[k].cb = made'[k].userdata
          /\ \A j, k \in DOMAIN made' : made'[j].cb = made'[k].cb => j = k
      BY <3>2, <3>3 DEF PairsRegistered, Called
    <3>5. \A c \in Chosen' : Registered(c)'
      BY <1>2, <3>1 DEF PairsRegistered, Registered, Whole
    <3>6. \A i \in 1..Slots : subs'[i].active /\ Owner(i)' \in Chosen' => Passed(i)'
      BY <1>2, <3>1 DEF PairsRegistered
    <3> QED
      BY <3>1, <3>4, <3>5, <3>6 DEF PairsRegistered
  <2> QED
    BY <1>2, <2>1, <2>2, <2>3, <2>4 DEF LoopStep
<1>3. CASE ConnectionStep
  BY <1>1, <1>3, ConnectionAside DEF Aside, dispatch
<1> QED
  BY <1>1, <1>2, <1>3, CallersOnly DEF dispatch

(* A registration the message is owed to is not overtaken by the scan.     *)
LEMMA NextDueChosen ==
  ASSUME IInv, Next
  PROVE  DueChosen'
<1> USE DEF IInv
<1>1. ASSUME due' = due, disp'.topic = disp.topic PROVE due' \subseteq Owed(disp.topic)'
  BY <1>1, CallsKept DEF DueChosen, Owed
<1>2. ASSUME UNCHANGED <<made, disp, due>> PROVE DueChosen'
  <2>1. Chosen' = Chosen /\ \A i \in 1..Slots : Passed(i)' <=> Passed(i)
    BY <1>2 DEF Called, Chosen, Passed
  <2>2. ASSUME NEW i \in 1..Slots, subs'[i].active, Owner(i)' \in (due \cap Whole)', Passed(i)'
        PROVE  Owner(i)' \in Chosen'
    <3>1. ASSUME NEW t \in Callers, pc[t] = "take", Owner(i)' = mine[t].call PROVE FALSE
      BY <1>2, <2>2, <3>1 DEF CallsUnderWay, DueChosen, Owed
    <3>2. Owner(i)' \in due \cap Whole
      BY <1>2, <2>2, WholeKept DEF DueChosen, Owed
    <3> QED
      BY <1>2, <2>1, <2>2, <3>1, <3>2, SlotsKept DEF DueChosen, Owner
  <2> QED
    BY <1>1, <1>2, <2>2 DEF DueChosen
<1>3. CASE LoopStep /\ UNCHANGED <<subs, caller>>
  <2> USE DEF Owner, caller
  <2>0. Called \subseteq Chosen
    BY DEF Chosen
  <2>1. CASE Message
    <3>1. due' = Owed(Head(inbox)) /\ disp'.topic = Head(inbox)
      BY <2>1 DEF Message, Idle
    <3>2. \A i \in 1..Slots : ~Passed(i)'
      BY <1>3, <2>1, LoopSteps
    <3>3. due' \subseteq Owed(disp.topic)'
      BY <1>3, <3>1 DEF Owed
    <3> QED
      BY <3>2, <3>3 DEF DueChosen
  <2>2. CASE MessageDone
    <3>1. due' = {}
      BY <2>2 DEF MessageDone
    <3> QED
      BY <3>1 DEF DueChosen
  <2>3. CASE MessageLock \/ CallbackReturns
    <3>1. /\ Chosen' = Called /\ Chosen = Called /\ UNCHANGED due
          /\ disp'.topic = disp.topic /\ \A i \in 1..Slots : Passed(i)' <=> Passed(i)
      BY <1>3, <2>3, LoopSteps DEF MessageLock, Skip
    <3> QED
      BY <1>1, <1>3, <3>1 DEF DueChosen, Whole
  <2>4. CASE Skip
    <3>1. /\ Chosen' = Called /\ Chosen = Called /\ UNCHANGED due
          /\ disp'.topic = disp.topic
          /\ \A i \in 1..Slots : Passed(i)' <=> Passed(i) \/ i = disp.slot
      BY <1>3, <2>4, LoopSteps
    <3>2. ~Matches(disp.slot)
      BY <2>4 DEF Skip
    <3>3. ASSUME NEW i \in 1..Slots, subs[i].active, Owner(i) \in due \cap Whole, i = disp.slot
          PROVE  FALSE
      <4>1. disp.topic \in calls[Owner(i)].filter
        BY <3>3 DEF DueChosen, Owed
      <4> QED
        BY <3>2, <3>3, <4>1 DEF Matches, SlotsOwned, Kept, Whole
    <3> QED
      BY <1>1, <1>3, <3>1, <3>3 DEF DueChosen, Whole
  <2>5. CASE Match
    <3>1. /\ Chosen' = Called \cup {Owner(disp.slot)} /\ Chosen = Called /\ UNCHANGED due
          /\ disp'.topic = disp.topic
          /\ \A i \in 1..Slots : Passed(i)' <=> Passed(i) \/ i = disp.slot
      BY <1>3, <2>5, LoopSteps
    <3> QED
      BY <1>1, <1>3, <3>1 DEF DueChosen, Whole
  <2>6. CASE Callback
    <3>1. /\ Chosen' = Chosen /\ UNCHANGED due /\ disp'.topic = disp.topic
          /\ \A i \in 1..Slots : Passed(i)' <=> Passed(i)
      BY <1>3, <2>6, LoopSteps
    <3> QED
      BY <1>1, <1>3, <3>1 DEF DueChosen, Whole
  <2> QED
    BY <1>3, <2>1, <2>2, <2>3, <2>4, <2>5, <2>6 DEF LoopStep
<1>4. CASE ConnectionStep
  BY <1>2, <1>4, ConnectionAside DEF Aside, dispatch
<1> QED
  BY <1>2, <1>3, <1>4, CallersOnly DEF dispatch
-----------------------------------------------------------------------------
(* The theorems.                                                           *)

\* The invariant holds at the start.
LEMMA InitIInv == Init => IInv
<1> SUFFICES ASSUME Init PROVE IInv
  OBVIOUS
<1>1. /\ \A t \in Callers : pc[t] = "idle"
      /\ \A i \in 1..Slots : ~subs[i].active
      /\ DOMAIN calls = {} /\ Len(calls) = 0 /\ DOMAIN made = {} /\ made = <<>> /\ due = {}
      /\ disp.at = "idle" /\ disp.slot = 0
  BY DEF Init, Free, Idle
<1>2. Called = {} /\ Chosen = {}
  BY <1>1 DEF Called, Chosen
<1>3. LoopThread /\ CallsUnderWay
  BY <1>1, DispatchAssumption DEF LoopThread, CallsUnderWay, Callers
<1>4. SlotsOwned /\ SlotsTaken /\ Unregistered
  BY <1>1 DEF SlotsOwned, SlotsTaken, Unregistered
<1>5. PairsRegistered /\ DueChosen
  BY <1>1, <1>2 DEF PairsRegistered, DueChosen
<1> QED
  BY <1>3, <1>4, <1>5, InitTypeOK DEF IInv

\* Where nothing changes it goes on holding.
LEMMA StutterIInv ==
  ASSUME IInv, UNCHANGED vars
  PROVE  IInv'
<1> USE DEF vars, table, caller, dispatch, session, bounds
<1>1. TypeOK'
  BY DEF IInv, TypeOK
<1>2. Called' = Called /\ Chosen' = Chosen /\ \A i \in 1..Slots : Passed(i)' <=> Passed(i)
  BY DEF Called, Chosen, Passed
<1>3. LoopThread' /\ CallsUnderWay' /\ SlotsOwned' /\ SlotsTaken'
  BY DEF IInv, LoopThread, CallsUnderWay, SlotsOwned, SlotsTaken, Owner
<1>4. Unregistered' /\ PairsRegistered' /\ DueChosen'
  BY <1>2 DEF IInv, Unregistered, PairsRegistered, DueChosen, Owner, Owed, Registered, Whole
<1> QED
  BY <1>1, <1>3, <1>4 DEF IInv

\* Hence it always holds.
LEMMA Inductive == Spec => []IInv
<1>1. IInv /\ Next => IInv'
  BY NextTypeOK, NextLoopThread, NextCallsUnderWay, NextSlotsOwned, NextSlotsTaken,
     NextUnregistered, NextPairsRegistered, NextDueChosen DEF IInv
<1>2. IInv /\ [Next]_vars => IInv'
  BY <1>1, StutterIInv
<1> QED
  BY InitIInv, <1>2, PTL DEF Spec

(* Every variable of the context keeps its type, and whoever is in a       *)
(* critical section of nr_subscribe or on_message holds ctx->subs_lock.    *)
THEOREM TypeCorrect == Spec => []TypeOK
<1>1. IInv => TypeOK
  BY DEF IInv
<1> QED
  BY <1>1, Inductive, PTL

(* A registration nr_subscribe acknowledged occupies exactly one slot of   *)
(* ctx->subs, and every other active slot is that of a call under way.     *)
THEOREM RegistrationsKept == Spec => []RegistrationsHeld
<1>1. IInv => RegistrationsHeld
  <2> SUFFICES ASSUME IInv PROVE RegistrationsHeld
    OBVIOUS
  <2> USE DEF IInv
  <2>1. ASSUME NEW c \in DOMAIN calls, calls[c].result = "ok"
        PROVE  Cardinality({i \in 1..Slots : subs[i].active /\ subs[i].cb = c}) = 1
    <3>1. PICK i \in 1..Slots : subs[i].active /\ subs[i].cb = c
      BY <2>1 DEF SlotsOwned, Owner
    <3>2. {j \in 1..Slots : subs[j].active /\ subs[j].cb = c} = {i}
      BY <3>1 DEF SlotsOwned, Owner
    <3> QED
      BY <3>2, FS_Singleton
  <2>2. ASSUME NEW i \in 1..Slots, subs[i].active
        PROVE  /\ subs[i].cb = subs[i].userdata /\ subs[i].filter \in Kept(calls[subs[i].cb].filter)
               /\ \/ calls[subs[i].cb].result = "ok"
                  \/ \E t \in Callers : /\ pc[t] \in {"send", "undo"}
                                        /\ mine[t] = [call |-> subs[i].cb, slot |-> i]
    <3>1. ASSUME NEW t \in Callers, pc[t] \in {"send", "undo"}, mine[t].call = subs[i].cb
          PROVE  mine[t] = [call |-> subs[i].cb, slot |-> i]
      <4>1. mine[t].slot = i
        BY <2>2, <3>1 DEF SlotsTaken, SlotsOwned, Owner
      <4>2. mine[t] \in [call : 0..MaxCalls, slot : 0..Slots]
        BY DEF TypeOK
      <4> QED
        BY <3>1, <4>1, <4>2
    <3> QED
      BY <2>2, <3>1 DEF SlotsOwned, Owner
  <2> QED
    BY <2>1, <2>2 DEF RegistrationsHeld
<1> QED
  BY <1>1, Inductive, PTL

(* on_message calls only callbacks registered for the topic, if their      *)
(* filter fits nr_sub_slot_t.topic, with their own userdata and none of    *)
(* them twice, whatever happens to the table between its unlock and the    *)
(* call.                                                                   *)
THEOREM RightCallbacks == Spec => []CalledAsRegistered
<1>1. IInv => CalledAsRegistered
  <2> SUFFICES ASSUME IInv PROVE CalledAsRegistered
    OBVIOUS
  <2>1. \A k \in DOMAIN made : made[k].cb \in Chosen
    BY DEF Called, Chosen
  <2> QED
    BY <2>1 DEF IInv, PairsRegistered, CalledAsRegistered, Registered
<1> QED
  BY <1>1, Inductive, PTL

(* on_message ends only after every registration that was acknowledged     *)
(* when the message came, with a filter that fits nr_sub_slot_t.topic, has *)
(* been called.                                                            *)
THEOREM AllCalled == Spec => NoneMissed
<1>1. IInv /\ [Next]_vars =>
        [disp.at # "idle" /\ disp'.at = "idle" =>
           due \cap Whole \subseteq Called]_vars
  <2> SUFFICES ASSUME IInv, Next, disp.at # "idle", disp'.at = "idle"
               PROVE  due \cap Whole \subseteq Called
    OBVIOUS
  <2> USE DEF IInv
  <2>1. MessageDone
    <3>1. disp \in Dispatches
      BY Parts DEF DispTypes
    <3>2. ~UNCHANGED disp
      OBVIOUS
    <3>3. LoopStep
      BY <3>2, CallersOnly, ConnectionAside DEF dispatch, Aside
    <3> QED
      BY <3>1, <3>3 DEF LoopStep, Message, MessageLock, Skip, Match, Callback,
         CallbackReturns, Resume, Idle, Dispatches
  <2>2. Chosen = Called /\ \A i \in 1..Slots : Passed(i)
    <3>1. disp.at = "scan" /\ disp.slot > Slots /\ disp.slot \in Nat /\ Slots \in Nat
      BY <2>1, Parts, DispatchAssumption DEF MessageDone, DispTypes, Dispatches
    <3> QED
      BY <3>1 DEF Chosen, Passed
  <2>3. ASSUME NEW c \in due \cap Whole PROVE c \in Called
    <3>1. c \in DOMAIN calls /\ calls[c].result = "ok"
      BY DEF DueChosen, Owed
    <3>2. PICK i \in 1..Slots : subs[i].active /\ Owner(i) = c
      BY <3>1 DEF SlotsOwned
    <3> QED
      BY <2>2, <3>2 DEF DueChosen
  <2> QED
    BY <2>3
<1> QED
  BY <1>1, Inductive, PTL DEF Spec, NoneMissed
=============================================================================
