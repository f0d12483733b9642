------------------------------ MODULE EdgeLink ------------------------------
(***************************************************************************)
(* The edge agent's link to the Mosquitto broker (edge/src/main.c): the    *)
(* initial connect, the mosquitto_loop / mosquitto_reconnect loop, the     *)
(* on_connect subscription and the messages on their way into the buffer.  *)
(*                                                                         *)
(* libmosquitto and the broker are external.  They are modelled as main.c  *)
(* uses them: mosquitto_loop handles at most one packet, closes a broken   *)
(* socket and returns an error, and returns MOSQ_ERR_NO_CONN at once when  *)
(* it has no socket; the broker keeps a client's subscription and unacked  *)
(* QoS 1 messages with its session and drops the session of a client that  *)
(* asked for a clean one.                                                  *)
(***************************************************************************)
EXTENDS Integers, Sequences

CONSTANTS
  Faults,       \* subset of {"drop", "restart", "refuse", "subscribe", "busy", "signal", "kill"}
  MaxMessages,  \* bound: messages the devices publish
  MaxFaults,    \* bound: times a link drops or is refused, a subscribe or an insert fails,
                \* the broker stops or the agent is killed
  MaxBoots      \* bound: times the agent is started

ASSUME LinkAssumption ==
  /\ Faults \subseteq {"drop", "restart", "refuse", "subscribe", "busy", "signal", "kill"}
  /\ MaxMessages \in Nat /\ MaxFaults \in Nat /\ MaxBoots \in Nat \ {0}

VARIABLES
  main,       \* where main() is: "connect", "loop", "backoff", "stopped"
  running,    \* g_running
  link,       \* the client's socket: "none", "greeting" (CONNECT sent), "up", "broken"
  inbox,      \* PUBLISH packets the client has yet to read
  brokerUp,   \* Mosquitto runs
  request,    \* the SUBSCRIBE of this link: "none", "sent", "failed"
  subscribed, \* broker: the agent's session has the subscription
  unacked,    \* broker: the session's messages without PUBACK
  buffered,   \* SQLite: messages inserted, in insertion order
  sent,       \* messages the broker has accepted from devices, numbered 1..sent
  faults,     \* history: faults so far
  boots       \* history: times the agent was started

agent   == <<main, running, link, inbox>>
broker  == <<brokerUp, request, subscribed, unacked>>
history == <<sent, faults, boots>>
vars    == <<agent, broker, buffered, history>>

CleanSessionMutant == FALSE   \* mutant: a persistent session
CleanSession == TRUE   \* mosquitto_new(edge_node_id, true, NULL)

May(f) == f \in Faults /\ faults < MaxFaults
Count == faults' = faults + 1

Init ==
  /\ main = "connect" /\ running = TRUE /\ link = "none" /\ inbox = <<>>
  /\ brokerUp = TRUE /\ request = "none" /\ subscribed = FALSE /\ unacked = <<>>
  /\ buffered = <<>>
  /\ sent = 0 /\ faults = 0 /\ boots = 1
-----------------------------------------------------------------------------
(* Connecting.                                                             *)

\* TCP, TLS and the CONNECT packet: the session starts anew, or is resumed
OpenLink ==
  /\ brokerUp
  /\ link' = "greeting" /\ request' = "none"
  /\ IF CleanSession
     THEN subscribed' = FALSE /\ unacked' = <<>> /\ inbox' = <<>>
     ELSE inbox' = unacked /\ UNCHANGED <<subscribed, unacked>>

LinkRefused == ~brokerUp \/ May("refuse")

\* The first mosquitto_connect; if it fails the agent shuts down
Connect ==
  /\ main = "connect"
  /\ main' = "loop" /\ OpenLink
  /\ UNCHANGED <<running, brokerUp, buffered, history>>

ConnectFails ==
  /\ main = "connect" /\ LinkRefused
  /\ main' = "stopped" /\ Count
  /\ UNCHANGED <<running, link, inbox, broker, buffered, sent, boots>>

\* sleep(5); mosquitto_reconnect, whose result is ignored
Reconnect ==
  /\ main = "backoff"
  /\ main' = "loop" /\ OpenLink
  /\ UNCHANGED <<running, brokerUp, buffered, history>>

ReconnectFails ==
  /\ main = "backoff" /\ LinkRefused
  /\ main' = "loop" /\ faults' = IF brokerUp THEN faults + 1 ELSE faults
  /\ UNCHANGED <<running, link, inbox, broker, buffered, sent, boots>>
-----------------------------------------------------------------------------
(* while (g_running) mosquitto_loop(g_mosq, 1000, 1).                      *)

InLoop == main = "loop" /\ running

\* Mutant: the subscription is made once, on the first connection
OnConnectMutant ==
  /\ InLoop /\ link = "greeting"
  /\ link' = "up" /\ request' = IF faults = 0 THEN "sent" ELSE "none"
  /\ UNCHANGED <<main, running, inbox, brokerUp, subscribed, unacked, buffered, history>>

\* CONNACK 0: on_connect sends the SUBSCRIBE; that it could not is only logged
OnConnect ==
  /\ InLoop /\ link = "greeting"
  /\ link' = "up"
  /\ \/ request' = "sent" /\ UNCHANGED faults
     \/ May("subscribe") /\ Count /\ request' = "failed"
  /\ UNCHANGED <<main, running, inbox, brokerUp, subscribed, unacked, buffered, sent, boots>>

\* Mutant: the packet identifier, 0 below QoS 1, is buffered for the message
OnMessageMutant ==
  /\ InLoop /\ link \in {"up", "broken"} /\ inbox # <<>>
  /\ inbox' = Tail(inbox)
  /\ buffered' = Append(buffered, 0)
  /\ UNCHANGED <<main, running, link, broker, history>>

\* Mutant: a message that could not be inserted is put behind the others
OnMessageRetryMutant ==
  /\ InLoop /\ link \in {"up", "broken"} /\ inbox # <<>>
  /\ \/ inbox' = Tail(inbox) /\ buffered' = Append(buffered, Head(inbox)) /\ UNCHANGED faults
     \/ /\ May("busy") /\ Count /\ UNCHANGED buffered
        /\ inbox' = Append(Tail(inbox), Head(inbox))
  /\ UNCHANGED <<main, running, link, broker, sent, boots>>

\* PUBLISH: on_message inserts the message; a failed insert is only logged
OnMessage ==
  /\ InLoop /\ link \in {"up", "broken"} /\ inbox # <<>>
  /\ inbox' = Tail(inbox)
  /\ \/ buffered' = Append(buffered, Head(inbox)) /\ UNCHANGED faults
     \/ May("busy") /\ Count /\ UNCHANGED buffered
  /\ UNCHANGED <<main, running, link, broker, sent, boots>>

\* An error or a refused CONNACK: the library closes the socket, the loop backs off
LoopFails ==
  /\ InLoop
  /\ \/ link = "broken" /\ UNCHANGED faults
     \/ link = "greeting" /\ May("refuse") /\ Count
  /\ main' = "backoff" /\ link' = "none" /\ inbox' = <<>>
  /\ UNCHANGED <<running, broker, buffered, sent, boots>>

\* MOSQ_ERR_NO_CONN: the loop goes round again, without a pause
NoConn ==
  /\ InLoop /\ link = "none"
  /\ UNCHANGED vars

\* The loop ends: mosquitto_disconnect and mosquitto_destroy
Leave ==
  /\ main = "loop" /\ ~running
  /\ main' = "stopped" /\ link' = "none" /\ inbox' = <<>> /\ request' = "none"
  /\ IF CleanSession THEN subscribed' = FALSE /\ unacked' = <<>>
     ELSE UNCHANGED <<subscribed, unacked>>
  /\ UNCHANGED <<running, brokerUp, buffered, history>>

AgentStep ==
  \/ Connect \/ ConnectFails \/ Reconnect \/ ReconnectFails
  \/ OnConnect \/ OnMessage \/ LoopFails \/ NoConn \/ Leave

Signal ==
  /\ "signal" \in Faults /\ running /\ main # "stopped"
  /\ running' = FALSE
  /\ UNCHANGED <<main, link, inbox, broker, buffered, history>>

\* The agent's process dies: the buffer is all that stays
Kill ==
  /\ May("kill") /\ main # "stopped" /\ Count
  /\ main' = "stopped" /\ link' = "none" /\ inbox' = <<>> /\ request' = "none"
  /\ IF CleanSession THEN subscribed' = FALSE /\ unacked' = <<>>
     ELSE UNCHANGED <<subscribed, unacked>>
  /\ UNCHANGED <<running, brokerUp, buffered, sent, boots>>

Boot ==
  /\ main = "stopped" /\ boots < MaxBoots
  /\ main' = "connect" /\ running' = TRUE /\ boots' = boots + 1
  /\ UNCHANGED <<link, inbox, broker, buffered, sent, faults>>
-----------------------------------------------------------------------------
(* The broker, the network and the devices.                                *)

Subscribe ==
  /\ request = "sent" /\ link = "up"
  /\ request' = "none" /\ subscribed' = TRUE
  /\ UNCHANGED <<agent, brokerUp, unacked, buffered, history>>

\* The broker's SUBACK is negative: main() sets no subscribe callback, nobody looks at it
SubscribeDenied ==
  /\ request = "sent" /\ link = "up" /\ May("subscribe") /\ Count
  /\ request' = "failed"
  /\ UNCHANGED <<agent, brokerUp, subscribed, unacked, buffered, sent, boots>>

\* The PUBACK of a message the client has read arrives
Puback ==
  /\ link = "up" /\ unacked # <<>> /\ Len(unacked) > Len(inbox)
  /\ unacked' = Tail(unacked)
  /\ UNCHANGED <<agent, brokerUp, request, subscribed, buffered, history>>

\* A device publishes; the broker acknowledges whoever is subscribed
Publish ==
  /\ brokerUp /\ sent < MaxMessages
  /\ sent' = sent + 1
  /\ unacked' = IF subscribed THEN Append(unacked, sent + 1) ELSE unacked
  /\ inbox' = IF subscribed /\ link \in {"greeting", "up"} THEN Append(inbox, sent + 1) ELSE inbox
  /\ UNCHANGED <<main, running, link, brokerUp, request, subscribed, buffered, faults, boots>>

\* What the client has not read by then may be lost from its socket
LoseLink ==
  /\ link' = IF link = "none" THEN "none" ELSE "broken"
  /\ \E n \in 0..Len(inbox) : inbox' = SubSeq(inbox, 1, n)
  /\ request' = "none"
  /\ IF CleanSession THEN subscribed' = FALSE /\ unacked' = <<>>
     ELSE UNCHANGED <<subscribed, unacked>>

Drop ==
  /\ May("drop") /\ link \in {"greeting", "up"} /\ LoseLink /\ Count
  /\ UNCHANGED <<main, running, brokerUp, buffered, sent, boots>>

BrokerStop ==
  /\ May("restart") /\ brokerUp /\ LoseLink /\ Count
  /\ brokerUp' = FALSE
  /\ UNCHANGED <<main, running, buffered, sent, boots>>

BrokerStart ==
  /\ ~brokerUp /\ brokerUp' = TRUE
  /\ UNCHANGED <<agent, request, subscribed, unacked, buffered, history>>

Next ==
  \/ AgentStep \/ Signal \/ Kill \/ Boot
  \/ Subscribe \/ SubscribeDenied \/ Puback \/ Publish \/ Drop \/ BrokerStop \/ BrokerStart

Spec == Init /\ [][Next]_vars

(* main() is scheduled, packets on an open link arrive, a stopped broker   *)
(* is started again and a stopped agent is restarted by its supervisor.    *)
Fairness ==
  /\ WF_vars(AgentStep) /\ WF_vars(Subscribe) /\ WF_vars(BrokerStart) /\ WF_vars(Boot)

FairSpec == Spec /\ Fairness
-----------------------------------------------------------------------------
(* Properties.                                                             *)

TypeOK ==
  /\ main \in {"connect", "loop", "backoff", "stopped"} /\ running \in BOOLEAN
  /\ link \in {"none", "greeting", "up", "broken"}
  /\ brokerUp \in BOOLEAN /\ request \in {"none", "sent", "failed"} /\ subscribed \in BOOLEAN
  /\ sent \in 0..MaxMessages
  /\ inbox \in Seq(1..sent) /\ unacked \in Seq(1..sent) /\ buffered \in Seq(1..sent)
  /\ faults \in Nat /\ boots \in 1..MaxBoots

(* Through every reconnect and restart, the buffer receives each message   *)
(* at most once and in the order the broker accepted them.                 *)
BufferedInOrder == \A i, j \in DOMAIN buffered : i < j => buffered[i] < buffered[j]

(* The link implements OrderedFeed: through every fault, what reaches the  *)
(* buffer is the broker's stream with gaps only where a subscription ended *)
(* or an insert failed, and no message stays undecided for ever.           *)
Feed == INSTANCE OrderedFeed
  WITH accepted <- sent, open <- subscribed, coming <- inbox, taken <- buffered
ImplementsFeed == Feed!FairSpec

(* A link that breaks is opened and subscribed again, whatever broke it    *)
(* and however often.  Two calls are made once per link and their results  *)
(* are not acted on: where mosquitto_reconnect fails there is no socket    *)
(* and no further attempt, where the subscribe fails the agent stays       *)
(* connected without one until the link breaks.                            *)
GivenUp == InLoop /\ (link = "none" \/ (link = "up" /\ request = "failed"))
DropRecovers ==
  []<>(subscribed \/ ~running \/ ~brokerUp \/ main = "stopped" \/ GivenUp)

(* While it is meant to run the agent finds its way back to a subscribed   *)
(* session, again and again.                                               *)
LinkRecovers == []<>(subscribed \/ ~running \/ ~brokerUp \/ main = "stopped")
=============================================================================
