----------------------------- MODULE NrDispatch -----------------------------
(***************************************************************************)
(* The subscription table of a context (lib/nirantara-net/src/net.c) and   *)
(* the dispatch of messages to it (mqtt.c): nr_subscribe on the            *)
(* application's thread and inside callbacks, against on_message on the    *)
(* loop thread of libmosquitto.  net.h asks applications not to share a    *)
(* context between their threads; nothing here depends on it.              *)
(*                                                                         *)
(* libmosquitto, the network and the broker are external.  The client asks *)
(* for a clean session: a lost connection takes the broker's subscriptions *)
(* with it, and the slots stay.  nr_disconnect and another nr_connect look *)
(* the same from here as a drop and a reconnect.                           *)
(***************************************************************************)
EXTENDS Integers, Sequences, FiniteSets

CONSTANTS
  Threads,     \* threads of the application that call nr_subscribe: one, by net.h
  Topics,      \* topics of messages
  Filters,     \* topic filters, each the set of topics it matches
  Long,        \* those of 256 bytes and more, which a slot does not hold whole
  Slots,       \* NR_MAX_SUBSCRIPTIONS
  MaxCalls,    \* bound: calls of nr_subscribe
  MaxMessages, \* bound: messages of the broker
  MaxDrops     \* bound: lost connections

ASSUME DispatchAssumption ==
  /\ "loop" \notin Threads /\ "none" \notin Threads
  /\ Filters \subseteq SUBSET Topics /\ Long \subseteq Filters
  /\ Slots \in Nat \ {0}
  /\ MaxCalls \in Nat /\ MaxMessages \in Nat /\ MaxDrops \in Nat

Callers == Threads \cup {"loop"}

VARIABLES
  connected, \* ctx->mqtt_connected
  link,      \* the socket of the client: "up" or "down"
  subs,      \* ctx->subs
  lock,      \* the thread that holds ctx->subs_lock, or "none"
  pc,        \* per caller: where it is in nr_subscribe
  mine,      \* per caller: the number of its call, and the local variable slot
  calls,     \* history: the calls of nr_subscribe, their filter and result
  disp,      \* on_message: where it is, the slot i, the message, the copied pair
  made,      \* history: the pairs (cb, userdata) called for this message
  due,       \* history: calls this message is owed to
  requested, \* SUBSCRIBE packets on their way to the broker
  granted,   \* the subscriptions of the broker's session
  inbox,     \* PUBLISH packets on their way to the client
  sent, drops

table    == <<subs, lock>>
caller   == <<pc, mine, calls>>
dispatch == <<disp, made, due>>
session  == <<requested, granted, inbox>>
bounds   == <<sent, drops>>
vars     == <<connected, link, table, caller, dispatch, session, bounds>>

Free == [active |-> FALSE, filter |-> {}, cb |-> 0, userdata |-> 0]
NoCall == [call |-> 0, slot |-> 0]
Idle == [at |-> "idle", slot |-> 0, topic |-> "none", cb |-> 0, userdata |-> 0]

\* An application subscribes after nr_connect has returned NR_OK
Init ==
  /\ connected = TRUE /\ link = "up"
  /\ subs = [i \in 1..Slots |-> Free] /\ lock = "none"
  /\ pc = [t \in Callers |-> "idle"]
  /\ mine = [t \in Callers |-> NoCall]
  /\ calls = <<>>
  /\ disp = Idle /\ made = <<>> /\ due = {}
  /\ requested = {} /\ granted = {} /\ inbox = <<>>
  /\ sent = 0 /\ drops = 0
-----------------------------------------------------------------------------
(* nr_subscribe.  Callback and userdata of a call are named by its number. *)

\* A callback runs on the loop thread; outside one, that thread calls nothing
MayCall(t) == pc[t] = "idle" /\ (t = "loop" => disp.at = "inside")

Go(t, label) == pc' = [pc EXCEPT ![t] = label]

\* Mutant: the mutex does not exclude
AcquireMutant(t) == lock' = t
\* pthread_mutex_lock
Acquire(t) == lock = "none" /\ lock' = t

Return(t, result) ==
  /\ calls' = [calls EXCEPT ![mine[t].call].result = result]
  /\ mine' = [mine EXCEPT ![t] = NoCall]
  /\ Go(t, "idle")

\* Past the look at mqtt_connected; without it the call returns NR_ERR_MQTT
Subscribe(t) ==
  /\ MayCall(t) /\ connected /\ Len(calls) < MaxCalls
  /\ \E f \in Filters : calls' = Append(calls, [filter |-> f, result |-> "none"])
  /\ mine' = [mine EXCEPT ![t].call = Len(calls) + 1]
  /\ Go(t, "lock")
  /\ UNCHANGED <<connected, link, table, dispatch, session, bounds>>

SubscribeLock(t) ==
  /\ pc[t] = "lock" /\ Acquire(t)
  /\ Go(t, "take")
  /\ UNCHANGED <<connected, link, subs, mine, calls, dispatch, session, bounds>>

Inactive == {i \in 1..Slots : ~subs[i].active}

\* What a slot has of a filter: its first 255 bytes may be a filter of any topics
Kept(filter) == IF filter \in Long THEN SUBSET Topics ELSE {filter}

TakeSlot(t) ==
  /\ pc[t] = "take"
  /\ \E i \in Inactive, kept \in Kept(calls[mine[t].call].filter) :
       /\ \A j \in Inactive : i <= j
       /\ subs' = [subs EXCEPT ![i] =
                     [active |-> TRUE, filter |-> kept,
                      cb |-> mine[t].call, userdata |-> mine[t].call]]
       /\ mine' = [mine EXCEPT ![t].slot = i]
  /\ lock' = "none"
  /\ Go(t, "send")
  /\ UNCHANGED <<connected, link, calls, dispatch, session, bounds>>

TableFull(t) ==
  /\ pc[t] = "take" /\ Inactive = {}
  /\ lock' = "none"
  /\ Return(t, "error")
  /\ UNCHANGED <<connected, link, subs, dispatch, session, bounds>>

(* mosquitto_subscribe took the packet.  Without a link it may still do so *)
(* while the loss has not been noticed; the packet is then gone.           *)
SubscribeSent(t) ==
  /\ pc[t] = "send" /\ (link = "up" \/ connected)
  /\ requested' = IF link = "up"
                  THEN requested \cup {calls[mine[t].call].filter} ELSE requested
  /\ Return(t, "ok")
  /\ UNCHANGED <<connected, link, table, dispatch, granted, inbox, bounds>>

\* No connection, or no memory for the packet
SubscribeRefused(t) ==
  /\ pc[t] = "send"
  /\ Go(t, "undo")
  /\ UNCHANGED <<connected, link, table, mine, calls, dispatch, session, bounds>>

\* Mutant: a failed subscribe keeps its slot
UndoMutant(t) ==
  /\ pc[t] = "undo" /\ Return(t, "error")
  /\ UNCHANGED <<connected, link, table, dispatch, session, bounds>>

\* The slot is given back without the lock
Undo(t) ==
  /\ pc[t] = "undo"
  /\ subs' = [subs EXCEPT ![mine[t].slot].active = FALSE]
  /\ Return(t, "error")
  /\ UNCHANGED <<connected, link, lock, dispatch, session, bounds>>

CallStep(t) ==
  \/ SubscribeLock(t) \/ TakeSlot(t) \/ TableFull(t)
  \/ SubscribeSent(t) \/ SubscribeRefused(t) \/ Undo(t)
-----------------------------------------------------------------------------
(* on_message.                                                             *)

\* Calls whose nr_subscribe has returned NR_OK and whose filter matches
Owed(topic) ==
  {c \in DOMAIN calls : calls[c].result = "ok" /\ topic \in calls[c].filter}

Message ==
  /\ disp.at = "idle" /\ inbox # <<>>
  /\ disp' = [Idle EXCEPT !.at = "lock", !.topic = Head(inbox)]
  /\ inbox' = Tail(inbox)
  /\ due' = Owed(Head(inbox))
  /\ UNCHANGED <<connected, link, table, caller, made, requested, granted, bounds>>

\* The lock at the top of on_message, and again after a callback
MessageLock ==
  /\ disp.at = "lock" /\ Acquire("loop")
  /\ disp' = [disp EXCEPT !.at = "scan", !.slot = @ + 1]
  /\ UNCHANGED <<connected, link, subs, caller, made, due, session, bounds>>

Matches(i) == subs[i].active /\ disp.topic \in subs[i].filter

Skip ==
  /\ disp.at = "scan" /\ disp.slot <= Slots /\ ~Matches(disp.slot)
  /\ disp' = [disp EXCEPT !.slot = @ + 1]
  /\ UNCHANGED <<connected, link, table, caller, made, due, session, bounds>>

\* Mutant: the lock is kept while the callback runs
UnlockMutant == UNCHANGED lock
Unlock == lock' = "none"

\* Copy the pair, then unlock
Match ==
  /\ disp.at = "scan" /\ disp.slot <= Slots /\ Matches(disp.slot)
  /\ disp' = [disp EXCEPT !.at = "call", !.cb = subs[disp.slot].cb,
                          !.userdata = subs[disp.slot].userdata]
  /\ Unlock
  /\ UNCHANGED <<connected, link, subs, caller, made, due, session, bounds>>

\* Mutant: the pair is read from the table after the unlock
PairMutant == [cb |-> subs[disp.slot].cb, userdata |-> subs[disp.slot].userdata]
Pair == [cb |-> disp.cb, userdata |-> disp.userdata]

Callback ==
  /\ disp.at = "call"
  /\ made' = Append(made, Pair)
  /\ disp' = [disp EXCEPT !.at = "inside"]
  /\ UNCHANGED <<connected, link, table, caller, due, session, bounds>>

\* Mutant: the scan starts again because the table may have changed
ResumeMutant == [disp EXCEPT !.at = "lock", !.slot = 0]
\* Mutant: one callback per message
ResumeOnceMutant == [disp EXCEPT !.at = "lock", !.slot = Slots]
Resume == [disp EXCEPT !.at = "lock"]

CallbackReturns ==
  /\ disp.at = "inside" /\ pc["loop"] = "idle"
  /\ disp' = Resume
  /\ UNCHANGED <<connected, link, table, caller, made, due, session, bounds>>

MessageDone ==
  /\ disp.at = "scan" /\ disp.slot > Slots
  /\ disp' = Idle /\ lock' = "none"
  /\ made' = <<>> /\ due' = {}
  /\ UNCHANGED <<connected, link, subs, caller, session, bounds>>

LoopStep ==
  \/ Message \/ MessageLock \/ Skip \/ Match \/ Callback \/ CallbackReturns
  \/ MessageDone
-----------------------------------------------------------------------------
(* The connection: callbacks of libmosquitto on the loop thread, the       *)
(* network and the broker.                                                 *)

\* The connection and the broker's session end; what was under way is lost
Drop ==
  /\ link = "up" /\ connected /\ drops < MaxDrops
  /\ link' = "down" /\ drops' = drops + 1
  /\ requested' = {} /\ granted' = {} /\ inbox' = <<>>
  /\ UNCHANGED <<connected, table, caller, dispatch, sent>>

OnDisconnect ==
  /\ link = "down" /\ connected /\ disp.at = "idle"
  /\ connected' = FALSE
  /\ UNCHANGED <<link, table, caller, dispatch, session, bounds>>

\* libmosquitto connects again by itself
Reconnect ==
  /\ link = "down" /\ ~connected /\ disp.at = "idle"
  /\ link' = "up"
  /\ UNCHANGED <<connected, table, caller, dispatch, session, bounds>>

OnConnect ==
  /\ link = "up" /\ ~connected /\ disp.at = "idle"
  /\ connected' = TRUE
  /\ UNCHANGED <<link, table, caller, dispatch, session, bounds>>

Grant ==
  /\ \E f \in requested :
       requested' = requested \ {f} /\ granted' = granted \cup {f}
  /\ UNCHANGED <<connected, link, table, caller, dispatch, inbox, bounds>>

Publish ==
  /\ sent < MaxMessages
  /\ \E topic \in UNION granted : inbox' = Append(inbox, topic)
  /\ sent' = sent + 1
  /\ UNCHANGED <<connected, link, table, caller, dispatch, requested, granted, drops>>

Next ==
  \/ \E t \in Callers : Subscribe(t) \/ CallStep(t)
  \/ LoopStep
  \/ Drop \/ OnDisconnect \/ Reconnect \/ OnConnect \/ Grant \/ Publish

Spec == Init /\ [][Next]_vars

(* The threads are scheduled, and a thread that waits for the lock gets it *)
(* when the others leave it alone.  Callbacks return.                      *)
FairSpec == Spec /\ WF_vars(LoopStep) /\ \A t \in Callers : WF_vars(CallStep(t))
-----------------------------------------------------------------------------
(* Properties.                                                             *)

Call == [filter : Filters, result : {"none", "ok", "error"}]
Slot == [active : BOOLEAN, filter : SUBSET Topics,
         cb : 0..MaxCalls, userdata : 0..MaxCalls]

\* The type of every variable; nobody else holds the lock of a critical section
TypeOK ==
  /\ connected \in BOOLEAN /\ link \in {"up", "down"}
  /\ subs \in [1..Slots -> Slot] /\ lock \in Callers \cup {"none"}
  /\ pc \in [Callers -> {"idle", "lock", "take", "send", "undo"}]
  /\ mine \in [Callers -> [call : 0..MaxCalls, slot : 0..Slots]]
  /\ calls \in Seq(Call)
  /\ disp \in [at : {"idle", "lock", "scan", "call", "inside"}, slot : 0..Slots + 1,
               topic : Topics \cup {"none"}, cb : 0..MaxCalls, userdata : 0..MaxCalls]
  /\ made \in Seq([cb : 0..MaxCalls, userdata : 0..MaxCalls])
  /\ due \subseteq 1..MaxCalls
  /\ requested \subseteq Filters /\ granted \subseteq Filters
  /\ inbox \in Seq(Topics) /\ sent \in 0..MaxMessages /\ drops \in 0..MaxDrops
  /\ \A t \in Callers : pc[t] = "take" => lock = t
  /\ disp.at = "scan" => lock = "loop"

(* Every registration nr_subscribe acknowledged has one slot of its own,   *)
(* and every other active slot belongs to a call that is still under way:  *)
(* "max subscriptions reached" means that as many registrations exist.     *)
RegistrationsHeld ==
  /\ \A c \in DOMAIN calls : calls[c].result = "ok" =>
       Cardinality({i \in 1..Slots : subs[i].active /\ subs[i].cb = c}) = 1
  /\ \A i \in 1..Slots : subs[i].active =>
       /\ subs[i].cb = subs[i].userdata /\ subs[i].filter \in Kept(calls[subs[i].cb].filter)
       /\ \/ calls[subs[i].cb].result = "ok"
          \/ \E t \in Callers : /\ pc[t] \in {"send", "undo"}
                                /\ mine[t] = [call |-> subs[i].cb, slot |-> i]

\* Calls whose filter a slot holds whole
Whole == {c \in DOMAIN calls : calls[c].filter \notin Long}

(* A message is handed to callbacks that were registered for its topic, if *)
(* their filter fits a slot, each with its own userdata, and to none of    *)
(* them twice: not even while slots are given back and taken again between *)
(* unlock and call.                                                        *)
CalledAsRegistered ==
  /\ \A k \in DOMAIN made :
       /\ made[k].cb = made[k].userdata
       /\ made[k].cb \in Whole => disp.topic \in calls[made[k].cb].filter
  /\ \A j, k \in DOMAIN made : made[j] = made[k] => j = k

Called == {made[k].cb : k \in DOMAIN made}

(* on_message leaves out no registration that was acknowledged before the  *)
(* message came and whose filter fits a slot, whatever is registered or    *)
(* taken back while callbacks run.                                         *)
NoneMissed ==
  [][disp.at # "idle" /\ disp'.at = "idle" => due \cap Whole \subseteq Called]_vars

(* "Unlock before invoking callback to avoid deadlock": a dispatch ends    *)
(* and nr_subscribe returns, also when a callback subscribes.              *)
CallsReturn ==
  /\ disp.at # "idle" ~> disp.at = "idle"
  /\ \A t \in Callers : pc[t] # "idle" ~> pc[t] = "idle"
=============================================================================
