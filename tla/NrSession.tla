------------------------------ MODULE NrSession ------------------------------
(***************************************************************************)
(* MQTT sessions of the nirantara-net library (nr_connect, nr_disconnect   *)
(* and nr_destroy of lib/nirantara-net, mostly src/mqtt.c).                *)
(*                                                                         *)
(* A process may hold several contexts, each used by one application       *)
(* thread as net.h demands.  libmosquitto adds a loop thread to each, which*)
(* runs on_connect and on_disconnect and reconnects a lost link by itself. *)
(* All contexts write their certificate, key and CA for libmosquitto to    *)
(* the same three files in /tmp.                                           *)
(*                                                                         *)
(* libmosquitto is external and modelled as mqtt.c uses it: connecting     *)
(* loads the certificate and the key from their files and refuses a pair   *)
(* that does not match; loop_stop without force waits for the loop thread, *)
(* which ends only after mosquitto_disconnect; with force it cancels it.   *)
(***************************************************************************)
EXTENDS Integers

CONSTANTS
  Ctxs,         \* contexts of the process
  None,         \* no file, no key
  Faults,       \* subset of {"file", "refuse", "drop", "slow", "thread"}
  MaxConnects,  \* bound: calls of nr_connect per context
  MaxDrops      \* bound: links lost or refused

ASSUME SessionAssumption ==
  /\ None \notin Ctxs
  /\ Faults \subseteq {"file", "refuse", "drop", "slow", "thread"}
  /\ MaxConnects \in Nat /\ MaxDrops \in Nat

Paths == {"cert", "key", "ca"}   \* TMP_CERT_PATH, TMP_KEY_PATH, TMP_CA_PATH

VARIABLES
  files,     \* whose credentials each temp file holds, or None
  app,       \* per context: where its application thread is in the call it makes
  result,    \* per context: what the last nr_connect returned: "none", "ok", "err"
  connected, \* per context: ctx->mqtt_connected
  thread,    \* per context: a loop thread exists
  link,      \* per context: the socket: "none", "greeting", "up", "lost"
  closing,   \* per context: mosquitto_disconnect has been called
  accepted,  \* history: the broker has accepted a link since nr_create or nr_disconnect
  connects,  \* history: calls of nr_connect
  drops      \* history: links lost or refused

callState == <<app, result>>
linkState == <<thread, link, closing>>
history   == <<accepted, connects, drops>>
vars      == <<files, callState, connected, linkState, history>>

At(c, where) == app[c] = where
Go(c, where) == app' = [app EXCEPT ![c] = where]
May(f) == f \in Faults /\ drops < MaxDrops

Init ==
  /\ files = [p \in Paths |-> None]
  /\ app = [c \in Ctxs |-> "idle"]
  /\ result = [c \in Ctxs |-> "none"]
  /\ connected = [c \in Ctxs |-> FALSE]
  /\ thread = [c \in Ctxs |-> FALSE]
  /\ link = [c \in Ctxs |-> "none"]
  /\ closing = [c \in Ctxs |-> FALSE]
  /\ accepted = [c \in Ctxs |-> FALSE]
  /\ connects = [c \in Ctxs |-> 0]
  /\ drops = 0
-----------------------------------------------------------------------------
(* nr_connect, after nr_init: the application calls it to open a session,  *)
(* and again when it failed or after nr_disconnect.                        *)

WriteCert(c) ==
  /\ At(c, "idle") /\ result[c] # "ok" /\ connects[c] < MaxConnects
  /\ connects' = [connects EXCEPT ![c] = @ + 1]
  /\ \/ files' = [files EXCEPT !["cert"] = c]
        /\ Go(c, "key") /\ UNCHANGED result
     \/ "file" \in Faults /\ result' = [result EXCEPT ![c] = "err"]
        /\ UNCHANGED <<files, app>>
  /\ UNCHANGED <<connected, linkState, accepted, drops>>

WriteKey(c) ==
  /\ At(c, "key")
  /\ \/ files' = [files EXCEPT !["key"] = c]
        /\ Go(c, "tls") /\ UNCHANGED result
     \/ "file" \in Faults /\ files' = [files EXCEPT !["cert"] = None]
        /\ Go(c, "idle") /\ result' = [result EXCEPT ![c] = "err"]
  /\ UNCHANGED <<connected, linkState, history>>

\* Mutant: a failed mosquitto_tls_set returns past the cleanup label
TlsSetMutant(c) ==
  /\ At(c, "tls")
  /\ \/ files' = [files EXCEPT !["ca"] = c]
        /\ Go(c, "connect") /\ UNCHANGED result
     \/ "file" \in Faults /\ UNCHANGED files
        /\ Go(c, "idle") /\ result' = [result EXCEPT ![c] = "err"]
  /\ UNCHANGED <<connected, linkState, history>>

\* mosquitto_tls_set insists on a CA file and on files it can open
TlsSet(c) ==
  /\ At(c, "tls")
  /\ \/ files' = [files EXCEPT !["ca"] = c]
     \/ "file" \in Faults /\ UNCHANGED files
  /\ IF /\ files'["ca"] = c
        /\ \A p \in Paths : files'[p] # None
     THEN Go(c, "connect") /\ UNCHANGED result
     ELSE Go(c, "cleanup") /\ result' = [result EXCEPT ![c] = "err"]
  /\ UNCHANGED <<connected, linkState, history>>

\* TCP, TLS with the credentials in the files, CONNECT
CanOpen == files["cert"] # None /\ files["cert"] = files["key"] /\ files["ca"] # None
OpenLink(c) ==
  /\ CanOpen
  /\ link' = [link EXCEPT ![c] = "greeting"]

(* mosquitto_connect, which may fail, and mosquitto_loop_start: when no     *)
(* thread can be created, the link it has opened is left to nobody.        *)
Connect(c) ==
  /\ At(c, "connect")
  /\ \/ /\ OpenLink(c)
        /\ closing' = [closing EXCEPT ![c] = FALSE]
        /\ \/ thread' = [thread EXCEPT ![c] = TRUE]
              /\ Go(c, "wait") /\ UNCHANGED result
           \/ "thread" \in Faults /\ UNCHANGED thread
              /\ Go(c, "cleanup") /\ result' = [result EXCEPT ![c] = "err"]
        /\ UNCHANGED drops
     \/ /\ ~CanOpen \/ May("refuse")
        /\ Go(c, "cleanup") /\ result' = [result EXCEPT ![c] = "err"]
        /\ link' = [link EXCEPT ![c] = "none"]
        /\ drops' = IF CanOpen THEN drops + 1 ELSE drops
        /\ UNCHANGED <<thread, closing>>
  /\ UNCHANGED <<files, connected, accepted, connects>>

\* The flag is polled every 100 ms, 50 times, and then once more
WaitConnected(c) ==
  /\ At(c, "wait") /\ connected[c]
  /\ Go(c, "cleanup") /\ result' = [result EXCEPT ![c] = "ok"]
  /\ UNCHANGED <<files, connected, linkState, history>>

WaitTimeout(c) ==
  /\ At(c, "wait") /\ ~connected[c]
  /\ "slow" \in Faults \/ link[c] \in {"none", "lost"}
  /\ Go(c, "cancel")
  /\ UNCHANGED <<files, result, connected, linkState, history>>

\* mosquitto_loop_stop(force): the thread is cancelled, the socket stays
CancelLoop(c) ==
  /\ At(c, "cancel")
  /\ thread' = [thread EXCEPT ![c] = FALSE]
  /\ Go(c, "cleanup") /\ result' = [result EXCEPT ![c] = "err"]
  /\ UNCHANGED <<files, connected, link, closing, history>>

Cleanup(c) ==
  /\ At(c, "cleanup")
  /\ files' = [files EXCEPT !["key"] = None]
  /\ Go(c, "idle")
  /\ UNCHANGED <<result, connected, linkState, history>>
-----------------------------------------------------------------------------
(* nr_disconnect, alone or called by nr_destroy.                           *)

\* Mutant: the loop is stopped without mosquitto_disconnect
StartDisconnectMutant(c, next) ==
  /\ At(c, "idle") /\ connects[c] > 0
  /\ Go(c, next)
  /\ UNCHANGED <<files, result, connected, linkState, history>>

StartDisconnect(c, next) ==
  /\ At(c, "idle") /\ connects[c] > 0
  /\ Go(c, next)
  /\ closing' = IF connected[c] THEN [closing EXCEPT ![c] = TRUE] ELSE closing
  /\ UNCHANGED <<files, result, connected, thread, link, history>>

Joining(c) == At(c, "disconnect") \/ At(c, "destroy")

\* The call returns; nr_destroy goes on to destroy the client and its socket
Forget(c) ==
  /\ result' = [result EXCEPT ![c] = "none"]
  /\ accepted' = [accepted EXCEPT ![c] = FALSE]
  /\ IF At(c, "destroy")
     THEN Go(c, "destroyed") /\ link' = [link EXCEPT ![c] = "none"]
     ELSE Go(c, "idle") /\ UNCHANGED link

\* Mutant: the temp files are removed only from a session that was up
JoinedMutant(c) ==
  /\ Joining(c) /\ ~thread[c]
  /\ connected' = [connected EXCEPT ![c] = FALSE]
  /\ files' = IF result[c] = "ok" THEN [p \in Paths |-> None] ELSE files
  /\ Forget(c) /\ UNCHANGED <<thread, closing, connects, drops>>

\* Mutant: mqtt_connected is left to the callbacks
JoinedKeepsFlagMutant(c) ==
  /\ Joining(c) /\ ~thread[c]
  /\ files' = [p \in Paths |-> None]
  /\ Forget(c) /\ UNCHANGED <<connected, thread, closing, connects, drops>>

\* loop_stop has joined the thread (or found none)
Joined(c) ==
  /\ Joining(c) /\ ~thread[c]
  /\ connected' = [connected EXCEPT ![c] = FALSE]
  /\ files' = [p \in Paths |-> None]
  /\ Forget(c) /\ UNCHANGED <<thread, closing, connects, drops>>
-----------------------------------------------------------------------------
(* The loop thread.                                                        *)

\* Mutant: the link takes the name of the CONNACK code
OnConnectMutant(c) ==
  /\ thread[c] /\ link[c] = "greeting"
  /\ link' = [link EXCEPT ![c] = "accepted"]
  /\ connected' = [connected EXCEPT ![c] = TRUE]
  /\ accepted' = [accepted EXCEPT ![c] = TRUE]
  /\ UNCHANGED <<files, callState, thread, closing, connects, drops>>

\* CONNACK 0 arrives
OnConnect(c) ==
  /\ thread[c] /\ link[c] = "greeting"
  /\ link' = [link EXCEPT ![c] = "up"]
  /\ connected' = [connected EXCEPT ![c] = TRUE]
  /\ accepted' = [accepted EXCEPT ![c] = TRUE]
  /\ UNCHANGED <<files, callState, thread, closing, connects, drops>>

\* The socket fails, or the broker refuses the CONNECT
OnDisconnect(c) ==
  /\ thread[c]
  /\ \/ link[c] = "lost" /\ UNCHANGED drops
     \/ link[c] = "greeting" /\ May("refuse") /\ drops' = drops + 1
  /\ link' = [link EXCEPT ![c] = "none"]
  /\ connected' = [connected EXCEPT ![c] = FALSE]
  /\ UNCHANGED <<files, callState, thread, closing, accepted, connects>>

Reconnect(c) ==
  /\ thread[c] /\ link[c] = "none" /\ ~closing[c]
  /\ OpenLink(c)
  /\ UNCHANGED <<files, callState, connected, thread, closing, history>>

\* After mosquitto_disconnect the loop ends, with on_disconnect(0)
LoopEnds(c) ==
  /\ thread[c] /\ closing[c]
  /\ thread' = [thread EXCEPT ![c] = FALSE]
  /\ link' = [link EXCEPT ![c] = "none"]
  /\ connected' = [connected EXCEPT ![c] = FALSE]
  /\ UNCHANGED <<files, callState, closing, history>>

Drop(c) ==
  /\ May("drop") /\ link[c] \in {"greeting", "up"}
  /\ link' = [link EXCEPT ![c] = "lost"]
  /\ drops' = drops + 1
  /\ UNCHANGED <<files, callState, connected, thread, closing, accepted, connects>>
-----------------------------------------------------------------------------
AppStep(c) ==
  \/ WriteKey(c) \/ TlsSet(c) \/ Connect(c) \/ WaitConnected(c) \/ WaitTimeout(c)
  \/ CancelLoop(c) \/ Cleanup(c) \/ Joined(c)

Call(c) ==
  \/ WriteCert(c)
  \/ \E next \in {"disconnect", "destroy"} : StartDisconnect(c, next)

LoopStep(c) == OnConnect(c) \/ OnDisconnect(c) \/ Reconnect(c) \/ LoopEnds(c)

Next == \E c \in Ctxs : AppStep(c) \/ Call(c) \/ LoopStep(c) \/ Drop(c)

Spec == Init /\ [][Next]_vars

(* Both threads of a context are scheduled; nothing obliges the            *)
(* application to make a call.                                             *)
Fairness == \A c \in Ctxs : WF_vars(AppStep(c)) /\ WF_vars(LoopStep(c))

FairSpec == Spec /\ Fairness
-----------------------------------------------------------------------------
(* Properties.                                                             *)

TypeOK ==
  /\ files \in [Paths -> Ctxs \cup {None}]
  /\ app \in [Ctxs -> {"idle", "key", "tls", "connect", "wait", "cancel", "cleanup",
                       "disconnect", "destroy", "destroyed"}]
  /\ result \in [Ctxs -> {"none", "ok", "err"}]
  /\ connected \in [Ctxs -> BOOLEAN] /\ thread \in [Ctxs -> BOOLEAN]
  /\ link \in [Ctxs -> {"none", "greeting", "up", "lost"}]
  /\ closing \in [Ctxs -> BOOLEAN]
  /\ accepted \in [Ctxs -> BOOLEAN]
  /\ connects \in [Ctxs -> 0..MaxConnects] /\ drops \in 0..MaxDrops

(* "Remove temp key file immediately": on every path out of nr_connect,    *)
(* with other contexts at work, no private key stays behind on disk.       *)
KeyFileGone == (\A c \in Ctxs : At(c, "idle") \/ At(c, "destroyed")) => files["key"] = None

(* Once every context that connected is destroyed, failed attempts         *)
(* included, none of the temp files is left.                               *)
NoFileLeft ==
  (\A c \in Ctxs : At(c, "destroyed")) => \A p \in Paths : files[p] = None

(* A context that is used again after nr_disconnect starts afresh: nr_     *)
(* connect reports success only if the broker has accepted a link since,   *)
(* whatever an earlier attempt and its cancelled thread left behind.       *)
SuccessIsAcknowledged ==
  \A c \in Ctxs : At(c, "cleanup") /\ result[c] = "ok" => accepted[c]

(* nr_disconnect and nr_destroy return: always if no link was lost or      *)
(* refused, and after one was if the flag still said connected when        *)
(* nr_disconnect looked at it.                                             *)
DisconnectReturns ==
  \A c \in Ctxs : (Joining(c) /\ (closing[c] \/ drops = 0)) ~> ~Joining(c)
=============================================================================
