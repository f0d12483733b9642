------------------------------ MODULE EdgeSync ------------------------------
(***************************************************************************)
(* The store-and-forward core of nirantara-edge (edge/src/buffer.c,        *)
(* edge/src/sync.c and the process skeleton of edge/src/main.c).           *)
(*                                                                         *)
(* Two threads share one SQLite file through separate connections: the     *)
(* main thread inserts every MQTT payload it is handed, the sync thread    *)
(* periodically runs do_sync, which reads a batch of unflushed rows,       *)
(* upserts it into PostgreSQL in one transaction and then marks the rows   *)
(* flushed.  The SIGINT / SIGTERM handler runs do_sync as well, on top of  *)
(* whatever its host thread was doing.  The process may be killed at any   *)
(* step and started again over the same file.                              *)
(***************************************************************************)
EXTENDS Integers, FiniteSets, Sequences

CONSTANTS
  Topics,         \* topics of the messages the broker hands over
  Times,          \* the seconds unixepoch() may return, in any order
  Payloads,       \* kinds of payload: "json", "notjson" (for Postgres), "empty"
  Signals,        \* signals that may arrive: subset of {"SIGINT", "SIGTERM"}
  SignalThreads,  \* threads a signal may be delivered to: subset of Threads
  Faults,         \* failures of the environment: subset of FaultKinds
  FlushLimit,     \* BUFFER_FLUSH_LIMIT, the rows of one batch
  DbPath,         \* the file buffer_init opens for the main thread (NR_DB_PATH)
  SyncDbPath,     \* SYNC_DB_PATH, the file every do_sync opens
  OnePerSecond,   \* TRUE: no topic carries two messages in the same second
  MaxMessages,    \* bound: messages handed to on_message
  MaxBoots        \* bound: times the process is started

Threads  == {"main", "sync"}
Flushers == {"thread"} \cup Signals   \* the activations of do_sync: the thread's own
                                      \* and one per signal handler
Free     == "free"
FaultKinds == {"open", "oom", "connect", "statement", "reject", "commit", "mark",
               "insert", "broker"}
RollbackFaults == {"statement", "reject", "commit"}   \* those of an open session

ASSUME ConstantsAssumption ==
  /\ Signals \subseteq {"SIGINT", "SIGTERM"}
  /\ SignalThreads \subseteq Threads
  /\ Payloads \subseteq {"json", "notjson", "empty"}
  /\ Faults \subseteq FaultKinds
  /\ Times \subseteq Nat
  /\ FlushLimit \in Nat \ {0}
  /\ OnePerSecond \in BOOLEAN
  /\ MaxMessages \in Nat
  /\ MaxBoots \in Nat \ {0}

VARIABLES
  rows,       \* SQLite: the events table; a row's index is its AUTOINCREMENT id
  flushed,    \* SQLite: ids whose flushed column is 1
  wlock,      \* SQLite: holder of the database's single write lock
  cloud,      \* Postgres: ids of the rows committed to game_events
  main,       \* where the main thread is
  sync,       \* where sync_thread_fn is
  running,    \* g_running
  stop,       \* g_sync.stop
  armed,      \* signals whose handler is still installed
  stack,      \* per thread: the handlers running on it, the innermost last
  pc,         \* per do_sync activation: its next step
  todo,       \* per activation: batch ids the current loop has still to visit
  acked,      \* per activation: flushed_ids, the ids whose upsert returned OK
  updated,    \* per activation: ids set flushed = 1 in its open SQLite transaction
  tx,         \* per activation: state of its Postgres transaction
  txn,        \* per activation: ids inserted by that transaction, uncommitted
  received,   \* history: messages handed to on_message
  rolledBack, \* history: ids an agent that lived on saw rolled back by Postgres
  boots       \* history: times the process was started

sqlite  == <<rows, flushed, wlock>>
threads == <<main, sync, running, stop, armed, stack>>
flush   == <<pc, todo, acked, updated, tx, txn>>
history == <<received, rolledBack, boots>>
vars    == <<sqlite, cloud, threads, flush, history>>
-----------------------------------------------------------------------------
(* Rows and batches.                                                       *)

Row == [topic : Topics, ts : Times, payload : {"json", "notjson"}]

Key(i) == <<rows[i].topic, rows[i].ts>>   \* the primary key; device_id is a function
                                          \* of the topic
InCloud(k) == \E j \in cloud : Key(j) = k

Before(i, j) == \/ rows[i].ts < rows[j].ts      \* ORDER BY ts ASC over the index
                \/ rows[i].ts = rows[j].ts /\ i < j
IsFirstMutant(i, S) == i \in S   \* mutant: no ORDER BY
IsFirst(i, S) == i \in S /\ \A j \in S \ {i} : Before(i, j)

\* Mutant: 0-based row ids, the last row of the table is never read
UnflushedMutant == {i - 1 : i \in DOMAIN rows \ flushed}

\* WHERE flushed = 0, in the file the sync connection has opened
Unflushed == IF SyncDbPath = DbPath THEN DOMAIN rows \ flushed ELSE {}

\* ORDER BY ts LIMIT ?; an allocation failure cuts the batch short
IsBatch(B, S) ==
  /\ \A i \in B, j \in S \ B : Before(i, j)
  /\ Cardinality(B) <= FlushLimit
  /\ "oom" \notin Faults => Cardinality(B) = FlushLimit \/ B = S

(* An uncommitted insert of the same key by another live transaction makes *)
(* Postgres wait for that transaction to end.                              *)
Holds(d, k) == tx[d] = "open" /\ \E j \in txn[d] : Key(j) = k
WaitsFor(c, d) ==
  /\ pc[c] = "upsert" /\ tx[c] = "open" /\ c # d
  /\ \E i \in todo[c] : IsFirst(i, todo[c]) /\ Holds(d, Key(i))

(* Only the innermost activity of a thread executes.                       *)
Idle(t) == stack[t] = <<>>
CanRun(c) ==
  IF c = "thread" THEN Idle("sync")
  ELSE \E t \in Threads : stack[t] # <<>> /\ stack[t][Len(stack[t])] = c

Goto(c, label) == pc' = [pc EXCEPT ![c] = label]
ReleaseLock(c) == wlock' = IF wlock = c THEN Free ELSE wlock
-----------------------------------------------------------------------------
Init ==
  /\ rows = <<>> /\ flushed = {} /\ wlock = Free
  /\ cloud = {}
  /\ main = "connecting" /\ sync = "sleep"
  /\ running = TRUE /\ stop = FALSE
  /\ armed = Signals
  /\ stack = [t \in Threads |-> <<>>]
  /\ pc = [c \in Flushers |-> "idle"]
  /\ todo = [c \in Flushers |-> {}]
  /\ acked = [c \in Flushers |-> {}]
  /\ updated = [c \in Flushers |-> {}]
  /\ tx = [c \in Flushers |-> "none"]
  /\ txn = [c \in Flushers |-> {}]
  /\ received = 0 /\ rolledBack = {} /\ boots = 1
-----------------------------------------------------------------------------
(* do_sync, for any activation c.                                          *)

\* buffer_init on SYNC_DB_PATH, then buffer_events_read_unflushed
ReadUnflushed(c) ==
  /\ CanRun(c) /\ pc[c] = "read"
  /\ \/ \E B \in SUBSET Unflushed :
          /\ IsBatch(B, Unflushed)
          /\ todo' = [todo EXCEPT ![c] = B]
          /\ Goto(c, IF B = {} THEN "return" ELSE "connect")
     \/ /\ "open" \in Faults
        /\ Goto(c, "return") /\ UNCHANGED todo
  /\ UNCHANGED <<sqlite, cloud, threads, acked, updated, tx, txn, history>>

\* PQconnectdb, PQprepare and BEGIN succeed
PgConnect(c) ==
  /\ CanRun(c) /\ pc[c] = "connect"
  /\ tx' = [tx EXCEPT ![c] = "open"]
  /\ Goto(c, "upsert")
  /\ UNCHANGED <<sqlite, cloud, threads, todo, acked, updated, txn, history>>

\* PQconnectdb or PQprepare fails: pg_flush returns -1, the batch was read in vain
PgConnectFails(c) ==
  /\ CanRun(c) /\ pc[c] = "connect" /\ "connect" \in Faults
  /\ Goto(c, "return")
  /\ UNCHANGED <<sqlite, cloud, threads, todo, acked, updated, tx, txn, history>>

\* Mutant: a plain INSERT into a table without the unique index
UpsertOkMutant(c) ==
  /\ CanRun(c) /\ pc[c] = "upsert" /\ tx[c] = "open"
  /\ \E i \in todo[c] :
       /\ IsFirst(i, todo[c])
       /\ rows[i].payload = "json"
       /\ todo' = [todo EXCEPT ![c] = @ \ {i}]
       /\ acked' = [acked EXCEPT ![c] = @ \cup {i}]
       /\ txn' = [txn EXCEPT ![c] = @ \cup {i}]
  /\ UNCHANGED <<sqlite, cloud, threads, pc, updated, tx, history>>

\* INSERT ... ON CONFLICT DO NOTHING returned PGRES_COMMAND_OK
UpsertOk(c) ==
  /\ CanRun(c) /\ pc[c] = "upsert" /\ tx[c] = "open"
  /\ \E i \in todo[c] :
       /\ IsFirst(i, todo[c])
       /\ rows[i].payload = "json"
       /\ \A d \in Flushers \ {c} : ~Holds(d, Key(i))
       /\ todo' = [todo EXCEPT ![c] = @ \ {i}]
       /\ acked' = [acked EXCEPT ![c] = @ \cup {i}]
       /\ txn' = IF InCloud(Key(i)) \/ Holds(c, Key(i)) THEN txn
                 ELSE [txn EXCEPT ![c] = @ \cup {i}]
  /\ UNCHANGED <<sqlite, cloud, threads, pc, updated, tx, history>>

\* Mutant: the id goes on flushed_ids whatever PQexecPrepared returned
UpsertFailsMutant(c) ==
  /\ CanRun(c) /\ pc[c] = "upsert"
  /\ \E i \in todo[c] :
       /\ IsFirst(i, todo[c])
       /\ todo' = [todo EXCEPT ![c] = @ \ {i}]
       /\ acked' = [acked EXCEPT ![c] = @ \cup {i}]
       /\ rows[i].payload = "notjson"
  /\ tx' = [tx EXCEPT ![c] = "aborted"]
  /\ txn' = [txn EXCEPT ![c] = {}]
  /\ rolledBack' = rolledBack \cup txn[c]
  /\ UNCHANGED <<sqlite, cloud, threads, pc, updated, received, boots>>

(* The upsert failed; the loop logs it and goes on with the next row.  An  *)
(* error aborts the transaction for all later statements, a broken         *)
(* connection makes the server roll it back.                               *)
UpsertFails(c) ==
  /\ CanRun(c) /\ pc[c] = "upsert"
  /\ \E i \in todo[c] :
       /\ IsFirst(i, todo[c])
       /\ todo' = [todo EXCEPT ![c] = @ \ {i}]
       /\ \/ /\ tx[c] = "open"
             /\ rows[i].payload = "notjson" \/ "reject" \in Faults
             /\ tx' = [tx EXCEPT ![c] = "aborted"]
          \/ /\ tx[c] \in {"open", "aborted"} /\ "statement" \in Faults
             /\ tx' = [tx EXCEPT ![c] = "lost"]
          \/ /\ tx[c] \in {"aborted", "lost"}
             /\ UNCHANGED tx
  /\ txn' = [txn EXCEPT ![c] = {}]
  /\ rolledBack' = rolledBack \cup txn[c]
  /\ UNCHANGED <<sqlite, cloud, threads, pc, acked, updated, received, boots>>

CommitRowsMutant(c) == UNCHANGED cloud   \* mutant: COMMIT is forgotten
CommitRows(c) == cloud' = cloud \cup txn[c]

(* COMMIT, whose result is discarded, and PQfinish.  In an aborted         *)
(* transaction COMMIT rolls back; the connection may also break before or  *)
(* after the server has committed.                                         *)
PgCommit(c) ==
  /\ CanRun(c) /\ pc[c] = "upsert" /\ todo[c] = {}
  /\ \/ /\ tx[c] = "open"
        /\ CommitRows(c)
        /\ UNCHANGED rolledBack
     \/ /\ tx[c] \in {"aborted", "lost"} \/ "commit" \in Faults
        /\ rolledBack' = rolledBack \cup txn[c]
        /\ UNCHANGED cloud
  /\ tx' = [tx EXCEPT ![c] = "none"]
  /\ txn' = [txn EXCEPT ![c] = {}]
  /\ todo' = [todo EXCEPT ![c] = acked[c]]
  /\ Goto(c, IF acked[c] = {} THEN "return" ELSE "mark")
  /\ UNCHANGED <<sqlite, threads, acked, updated, received, boots>>

(* One UPDATE of buffer_events_mark_flushed.  The first that finds the     *)
(* write lock free takes it for the transaction; while another connection  *)
(* holds it the UPDATE is SQLITE_BUSY (no busy timeout is set) and its     *)
(* result is discarded.                                                    *)
MarkRow(c) ==
  /\ CanRun(c) /\ pc[c] = "mark"
  /\ \E i \in todo[c] :
       /\ IsFirst(i, todo[c])
       /\ todo' = [todo EXCEPT ![c] = @ \ {i}]
       /\ \/ /\ wlock \in {Free, c}
             /\ wlock' = c
             /\ updated' = [updated EXCEPT ![c] = @ \cup {i}]
          \/ /\ wlock \notin {Free, c} \/ "mark" \in Faults
             /\ UNCHANGED <<wlock, updated>>
  /\ UNCHANGED <<rows, flushed, cloud, threads, pc, acked, tx, txn, history>>

\* Mutant: sqlite3_close without COMMIT, the marks are rolled back
MarkCommitMutant(c) ==
  /\ CanRun(c) /\ pc[c] = "mark" /\ todo[c] = {}
  /\ ReleaseLock(c)
  /\ updated' = [updated EXCEPT ![c] = {}]
  /\ acked' = [acked EXCEPT ![c] = {}]
  /\ Goto(c, "return")
  /\ UNCHANGED <<rows, flushed, cloud, threads, todo, tx, txn, history>>

\* COMMIT of the marks; if it fails the closing connection rolls them back
MarkCommit(c) ==
  /\ CanRun(c) /\ pc[c] = "mark" /\ todo[c] = {}
  /\ \/ flushed' = flushed \cup updated[c]
     \/ "mark" \in Faults /\ UNCHANGED flushed
  /\ ReleaseLock(c)
  /\ updated' = [updated EXCEPT ![c] = {}]
  /\ acked' = [acked EXCEPT ![c] = {}]
  /\ Goto(c, "return")
  /\ UNCHANGED <<rows, cloud, threads, todo, tx, txn, history>>

\* buffer_events_free at the end of do_sync
FreeBatch(c) == todo' = [todo EXCEPT ![c] = {}]

FlushStep(c) ==
  \/ ReadUnflushed(c)
  \/ PgConnect(c) \/ PgConnectFails(c)
  \/ UpsertOk(c) \/ UpsertFails(c) \/ PgCommit(c)
  \/ MarkRow(c) \/ MarkCommit(c)
-----------------------------------------------------------------------------
(* sync_thread_fn.                                                         *)

\* The interval has elapsed without a look at stop since the last second
SyncWake ==
  /\ Idle("sync") /\ sync = "sleep"
  /\ sync' = "flush" /\ Goto("thread", "read")
  /\ UNCHANGED <<sqlite, cloud, main, running, stop, armed, stack,
                 todo, acked, updated, tx, txn, history>>

\* Mutant: on stop the loop is left without the final flush
SyncSeesStopMutant ==
  /\ Idle("sync") /\ sync = "sleep" /\ stop
  /\ sync' = "exited"
  /\ UNCHANGED <<sqlite, cloud, main, running, stop, armed, stack, flush, history>>

\* goto done: the final flush
SyncSeesStop ==
  /\ Idle("sync") /\ sync = "sleep" /\ stop
  /\ sync' = "final" /\ Goto("thread", "read")
  /\ UNCHANGED <<sqlite, cloud, main, running, stop, armed, stack,
                 todo, acked, updated, tx, txn, history>>

(* do_sync returns to the loop condition or to the end of the thread; what *)
(* the final flush did not send stays in todo for CleanExitStored to see.  *)
SyncReturn ==
  /\ Idle("sync") /\ pc["thread"] = "return"
  /\ \/ /\ sync = "flush" /\ FreeBatch("thread")
        /\ IF stop THEN sync' = "final" /\ Goto("thread", "read")
           ELSE sync' = "sleep" /\ Goto("thread", "idle")
     \/ /\ sync = "final" /\ sync' = "exited" /\ Goto("thread", "idle")
        /\ UNCHANGED todo
  /\ UNCHANGED <<sqlite, cloud, main, running, stop, armed, stack,
                 acked, updated, tx, txn, history>>
-----------------------------------------------------------------------------
(* The main thread.                                                        *)

LoopCheck == IF running THEN "loop" ELSE "stopping"   \* while (g_running)

\* mosquitto_connect: either way the sync thread is already running
Connect ==
  /\ Idle("main") /\ main = "connecting"
  /\ main' = LoopCheck
  /\ UNCHANGED <<sqlite, cloud, sync, running, stop, armed, stack, flush, history>>

ConnectFails ==
  /\ Idle("main") /\ main = "connecting" /\ "broker" \in Faults
  /\ main' = "stopping"
  /\ UNCHANGED <<sqlite, cloud, sync, running, stop, armed, stack, flush, history>>

\* mosquitto_loop returns without a message
LeaveLoop ==
  /\ Idle("main") /\ main = "loop" /\ ~running
  /\ main' = "stopping"
  /\ UNCHANGED <<sqlite, cloud, sync, running, stop, armed, stack, flush, history>>

(* on_message calls buffer_event_insert: a NULL payload is refused, and    *)
(* the INSERT takes the write lock or fails with SQLITE_BUSY.  A refused   *)
(* or failed insert is logged; the message is not seen again.              *)
OnMessage(p) ==
  /\ Idle("main") /\ main = "loop" /\ received < MaxMessages
  /\ received' = received + 1
  /\ \/ /\ p # "empty" /\ wlock = Free
        /\ wlock' = "main" /\ main' = "inserting"
     \/ /\ p = "empty" \/ wlock # Free
        /\ main' = LoopCheck /\ UNCHANGED wlock
  /\ UNCHANGED <<rows, flushed, cloud, sync, running, stop, armed, stack, flush,
                 rolledBack, boots>>

\* The INSERT commits: DEFAULT (unixepoch()), AUTOINCREMENT, flushed = 0
InsertRow(t, s, p) ==
  /\ Idle("main") /\ main = "inserting" /\ p # "empty"
  /\ OnePerSecond => \A i \in DOMAIN rows : Key(i) # <<t, s>>
  /\ rows' = Append(rows, [topic |-> t, ts |-> s, payload |-> p])
  /\ ReleaseLock("main") /\ main' = LoopCheck
  /\ UNCHANGED <<flushed, cloud, sync, running, stop, armed, stack, flush, history>>

\* sqlite3_step does not return SQLITE_DONE (disk full, I/O error)
InsertFails ==
  /\ Idle("main") /\ main = "inserting" /\ "insert" \in Faults
  /\ ReleaseLock("main") /\ main' = LoopCheck
  /\ UNCHANGED <<rows, flushed, cloud, sync, running, stop, armed, stack, flush,
                 history>>

\* Mutant: sync_stop joins without raising stop
StopSyncMutant ==
  /\ Idle("main") /\ main = "stopping"
  /\ main' = "joining"
  /\ UNCHANGED <<sqlite, cloud, sync, running, stop, armed, stack, flush, history>>

\* cleanup: the MQTT client is destroyed, then sync_stop raises stop ...
StopSync ==
  /\ Idle("main") /\ main = "stopping"
  /\ stop' = TRUE /\ main' = "joining"
  /\ UNCHANGED <<sqlite, cloud, sync, running, armed, stack, flush, history>>

\* ... and joins the thread; buffer_close and exit
Join ==
  /\ Idle("main") /\ main = "joining" /\ sync = "exited"
  /\ main' = "exited"
  /\ UNCHANGED <<sqlite, cloud, sync, running, stop, armed, stack, flush, history>>

MainStep ==
  \/ Connect \/ ConnectFails \/ LeaveLoop \/ StopSync \/ Join \/ InsertFails
  \/ \E t \in Topics, s \in Times, p \in Payloads : InsertRow(t, s, p)
-----------------------------------------------------------------------------
(* Signals, kills and restarts.                                            *)

Alive(t) == IF t = "main" THEN main \notin {"down", "exited"}
            ELSE sync \notin {"down", "exited"}

(* on_signal starts on thread t.  The agent is built as strict C11, where  *)
(* signal() has the System V meaning: the handler is reset by its first    *)
(* delivery and no signal is masked while it runs.                         *)
Signal(s, t) ==
  /\ s \in armed /\ Alive(t)
  /\ armed' = armed \ {s}
  /\ running' = FALSE
  /\ stack' = [stack EXCEPT ![t] = Append(@, s)]
  /\ Goto(s, "read")                       \* sync_flush_now
  /\ UNCHANGED <<sqlite, cloud, main, sync, stop, todo, acked, updated, tx, txn,
                 history>>

\* The handler returns into the interrupted code
SignalReturn(s, t) ==
  /\ pc[s] = "return" /\ stack[t] # <<>> /\ stack[t][Len(stack[t])] = s
  /\ stack' = [stack EXCEPT ![t] = SubSeq(@, 1, Len(@) - 1)]
  /\ Goto(s, "idle") /\ FreeBatch(s)
  /\ UNCHANGED <<sqlite, cloud, main, sync, running, stop, armed, acked,
                 updated, tx, txn, history>>

(* Everything in memory is gone: kill -9, a fault, or a second signal      *)
(* meeting the default action.  Open transactions of both databases roll   *)
(* back; what was committed stays.                                         *)
ForgetFlushes ==
  /\ pc' = [c \in Flushers |-> "idle"]
  /\ todo' = [c \in Flushers |-> {}]
  /\ acked' = [c \in Flushers |-> {}]
  /\ updated' = [c \in Flushers |-> {}]
  /\ tx' = [c \in Flushers |-> "none"]
  /\ txn' = [c \in Flushers |-> {}]
  /\ wlock' = Free
  /\ stack' = [t \in Threads |-> <<>>]

Crash ==
  /\ main \notin {"down", "exited"} /\ boots < MaxBoots
  /\ main' = "down" /\ sync' = "down"
  /\ ForgetFlushes
  /\ UNCHANGED <<rows, flushed, cloud, running, stop, armed, history>>

\* main() up to sync_start: both flags are initialised, both handlers installed
Boot ==
  /\ main \in {"down", "exited"} /\ boots < MaxBoots
  /\ boots' = boots + 1
  /\ main' = "connecting" /\ sync' = "sleep"
  /\ running' = TRUE /\ stop' = FALSE /\ armed' = Signals
  /\ UNCHANGED <<sqlite, cloud, stack, flush, received, rolledBack>>

\* The process has exited and is not started again
Exited ==
  /\ main = "exited" /\ boots = MaxBoots
  /\ UNCHANGED vars
-----------------------------------------------------------------------------
SyncStep == SyncWake \/ SyncSeesStop \/ SyncReturn \/ FlushStep("thread")
HandlerStep(s) == FlushStep(s) \/ \E t \in Threads : SignalReturn(s, t)

Next ==
  \/ MainStep
  \/ \E p \in Payloads : OnMessage(p)
  \/ SyncStep
  \/ \E s \in Signals : HandlerStep(s)
  \/ \E s \in Signals, t \in SignalThreads : Signal(s, t)
  \/ Crash \/ Boot \/ Exited

Spec == Init /\ [][Next]_vars

(* Each thread is scheduled by the kernel, and a Postgres that is tried    *)
(* over and over accepts a connection in the end.  Nothing obliges a       *)
(* message, a signal or a kill to come.                                    *)
Fairness ==
  /\ WF_vars(MainStep) /\ WF_vars(SyncStep) /\ WF_vars(Boot)
  /\ \A s \in Signals : WF_vars(HandlerStep(s))
  /\ \A c \in Flushers : SF_vars(PgConnect(c))

FairSpec == Spec /\ Fairness
-----------------------------------------------------------------------------
(* Properties.                                                             *)

PcLabels == {"idle", "read", "connect", "upsert", "mark", "return"}

\* The type of every variable; ids never name a row the table does not have
TypeOK ==
  /\ rows \in Seq(Row)
  /\ flushed \subseteq DOMAIN rows
  /\ cloud \subseteq DOMAIN rows
  /\ wlock \in Flushers \cup {"main", Free}
  /\ main \in {"connecting", "loop", "inserting", "stopping", "joining", "exited",
               "down"}
  /\ sync \in {"sleep", "flush", "final", "exited", "down"}
  /\ running \in BOOLEAN /\ stop \in BOOLEAN
  /\ armed \subseteq Signals
  /\ stack \in [Threads -> Seq(Signals)]
  /\ pc \in [Flushers -> PcLabels]
  /\ todo \in [Flushers -> SUBSET DOMAIN rows]
  /\ acked \in [Flushers -> SUBSET DOMAIN rows]
  /\ updated \in [Flushers -> SUBSET DOMAIN rows]
  /\ tx \in [Flushers -> {"none", "open", "aborted", "lost"}]
  /\ txn \in [Flushers -> SUBSET DOMAIN rows]
  /\ received \in Nat
  /\ rolledBack \subseteq DOMAIN rows
  /\ boots \in Nat

(* pg_flush marks what PQexecPrepared acknowledged and never looks at the  *)
(* result of COMMIT.  Whatever fails and whenever the process dies, a row  *)
(* marked flushed without its key being in Postgres is one that Postgres   *)
(* had accepted and then rolled back: there is no other way to lose it.    *)
LossOnlyByRollback ==
  \A i \in flushed : InCloud(Key(i)) \/ \E j \in rolledBack : Key(j) = Key(i)

(* A row that buffer_events_mark_flushed has marked is in Postgres, so     *)
(* that no flush has to send it again: by its key ...                      *)
FlushedKeyStored == \A i \in flushed : InCloud(Key(i))

(* ... and with its own payload, not one that ON CONFLICT (device_id,      *)
(* topic, ts) DO NOTHING let win.                                          *)
FlushedStored == flushed \subseteq cloud

(* However often a row is sent (after a crash between COMMIT and marking,  *)
(* after a failed mark, by two flushes at once), game_events never holds   *)
(* two rows of one key, and no open transaction is about to add one.       *)
DeliveredOnce ==
  /\ \A i, j \in cloud : Key(i) = Key(j) => i = j
  /\ \A c \in Flushers : \A i \in txn[c] :
       /\ \A j \in cloud : Key(i) # Key(j)
       /\ \A d \in Flushers : \A j \in txn[d] : Key(i) = Key(j) => c = d /\ i = j

(* Flushes running at the same time upsert their batches in the order of   *)
(* ORDER BY ts, so that they cannot wait for each other in a circle.       *)
NoUpsertDeadlock ==
  \A S \in (SUBSET Flushers) \ {{}} : \E c \in S : \A d \in S : ~WaitsFor(c, d)

(* The final flush of sync_thread_fn runs after the last insert: on a      *)
(* clean exit every buffered row is in Postgres, or in the batch for which *)
(* that flush found no connection, if one batch holds them all.            *)
CleanExitStored ==
  main = "exited" /\ Len(rows) <= FlushLimit
    => \A i \in DOMAIN rows : InCloud(Key(i)) \/ i \in todo["thread"]

(* Every buffered row that Postgres can take is upserted in the end,       *)
(* unless the agent is stopped first.                                      *)
EventuallyStored ==
  \A i \in 1..MaxMessages :
    (i \in DOMAIN rows /\ rows[i].payload = "json")
      ~> (main = "exited" \/ (i \in DOMAIN rows /\ InCloud(Key(i))))

(* Once a signal has asked the agent to stop, it stops: sync_stop's join   *)
(* returns.                                                                *)
ShutdownCompletes == ~running ~> main \in {"exited", "down"}
-----------------------------------------------------------------------------
(* The promise of store-and-forward: every step of the agent buffers one   *)
(* row, stores rows in Postgres, marks stored rows flushed, or changes     *)
(* none of the three.                                                      *)
Promise == INSTANCE StoreForward
             WITH buffered <- DOMAIN rows, stored <- cloud, synced <- flushed

ImplementsStoreForward == Promise!Spec

\* Postgres accepts every statement of a session ...
Sound == Faults \cap RollbackFaults = {} /\ "notjson" \notin Payloads
\* ... and no two messages share a key
Healthy == Sound /\ OnePerSecond
=============================================================================
