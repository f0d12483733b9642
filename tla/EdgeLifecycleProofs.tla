------------------------ MODULE EdgeLifecycleProofs ------------------------
(***************************************************************************)
(* How the agent of EdgeSync stops, and why its flushes do not block each  *)
(* other, for every number of messages, topics and restarts.               *)
(***************************************************************************)
EXTENDS EdgeSyncProofs, FiniteSetTheorems

-----------------------------------------------------------------------------
(* Threads and activations.                                                *)

\* The sync thread ends before main does, and main has stopped inserting
\* before the sync thread begins its final flush
Stopping ==
  /\ stop => main \in {"joining", "exited", "down"}
  /\ sync \in {"final", "exited"} => main \in {"joining", "exited"}
  /\ main = "exited" => sync = "exited"
  /\ main = "down" => sync = "down"

\* A thread that has ended runs no handler
NoHandlers ==
  /\ main \in {"exited", "down"} => stack["main"] = <<>>
  /\ sync \in {"exited", "down"} => stack["sync"] = <<>>

\* do_sync is entered only by an activation that is in none: a handler that
\* is still installed is not running
Entered ==
  /\ sync \in {"sleep", "exited", "down"} => pc["thread"] = "idle"
  /\ \A s \in Signals : s \in armed => pc[s] = "idle"
  /\ \A s \in Signals : pc[s] # "idle" =>
       \E t \in Threads : \E n \in DOMAIN stack[t] : stack[t][n] = s

Lifecycle == Stopping /\ NoHandlers /\ Entered

\* A flush has uncommitted rows only while it upserts, and all of them come
\* before the rows it has still to upsert
BatchOrder ==
  \A c \in Flushers :
    /\ pc[c] # "upsert" => txn[c] = {}
    /\ \A j \in txn[c], i \in todo[c] : Before(j, i)

DInv == TypeOK /\ Lifecycle /\ BatchOrder

\* What the final flush has read is all there is, and stays in its batch until
\* it is in Postgres
FinalBatch ==
  sync \in {"final", "exited"} /\ pc["thread"] # "read" /\ Len(rows) <= FlushLimit =>
    /\ \A i \in DOMAIN rows :
         InCloud(Key(i)) \/ i \in todo["thread"] \/ Holds("thread", Key(i))
    /\ pc["thread"] = "mark" => \A i \in DOMAIN rows : InCloud(Key(i))
-----------------------------------------------------------------------------
(* The threads.                                                            *)

\* At the start no thread has ended and no flush is under way.
LEMMA InitLifecycle == Init => Lifecycle /\ BatchOrder
BY DEF Init, Lifecycle, Stopping, NoHandlers, Entered, BatchOrder, Flushers, Threads

(* A step of do_sync neither starts nor ends an activation.                *)
LEMMA FlushEntered ==
  ASSUME TypeOK, NEW c \in Flushers, FlushStep(c)
  PROVE  /\ pc[c] # "idle" /\ pc'[c] # "idle"
         /\ \A d \in Flushers \ {c} : pc'[d] = pc[d]
         /\ UNCHANGED threads
<1> USE DEF TypeOK, PcLabels
<1>1. CASE ReadUnflushed(c)
  BY <1>1 DEF ReadUnflushed, Goto
<1>2. CASE PgConnect(c) \/ PgConnectFails(c)
  BY <1>2 DEF PgConnect, PgConnectFails, Goto
<1>3. CASE UpsertOk(c) \/ UpsertFails(c)
  BY <1>3 DEF UpsertOk, UpsertFails
<1>4. CASE PgCommit(c)
  BY <1>4 DEF PgCommit, Goto
<1>5. CASE MarkRow(c)
  BY <1>5 DEF MarkRow
<1>6. CASE MarkCommit(c)
  BY <1>6 DEF MarkCommit, Goto
<1> QED
  BY <1>1, <1>2, <1>3, <1>4, <1>5, <1>6 DEF FlushStep

(* The steps of the main thread.                                           *)
LEMMA MainSteps ==
  ASSUME TypeOK, MainStep \/ \E p \in Payloads : OnMessage(p)
  PROVE  /\ UNCHANGED <<sync, armed, stack, flush>>
         /\ \/ stop' = stop /\ main \in {"connecting", "loop", "inserting"}
               /\ main' \in {"loop", "stopping", "inserting"}
            \/ stop' /\ main = "stopping" /\ main' = "joining"
            \/ /\ stop' = stop /\ main = "joining" /\ main' = "exited" /\ sync = "exited"
               /\ stack["main"] = <<>>
<1>1. CASE Connect \/ ConnectFails \/ LeaveLoop
  BY <1>1 DEF Connect, ConnectFails, LeaveLoop, LoopCheck
<1>2. CASE StopSync \/ Join
  BY <1>2 DEF StopSync, Join, Idle
<1>3. CASE InsertFails
  BY <1>3 DEF InsertFails, LoopCheck
<1>4. ASSUME NEW t \in Topics, NEW s \in Times, NEW p \in Payloads, InsertRow(t, s, p)
      PROVE  /\ UNCHANGED <<sync, armed, stack, flush, stop>> /\ main = "inserting"
             /\ main' \in {"loop", "stopping", "inserting"}
  BY <1>4 DEF InsertRow, LoopCheck
<1>5. ASSUME NEW p \in Payloads, OnMessage(p)
      PROVE  /\ UNCHANGED <<sync, armed, stack, flush, stop>> /\ main = "loop"
             /\ main' \in {"loop", "stopping", "inserting"}
  BY <1>5 DEF OnMessage, LoopCheck
<1> QED
  BY <1>1, <1>2, <1>3, <1>4, <1>5 DEF MainStep

(* The steps of sync_thread_fn outside do_sync.                            *)
LEMMA SyncSteps ==
  ASSUME TypeOK, Lifecycle, SyncWake \/ SyncSeesStop \/ SyncReturn
  PROVE  /\ UNCHANGED <<main, stop, armed, stack, rows, cloud, tx, txn>> /\ stack["sync"] = <<>>
         /\ \A s \in Signals : "thread" # s => pc'[s] = pc[s]
         /\ pc["thread"] \in {"idle", "return"}
         /\ \A c \in Flushers : todo'[c] \subseteq todo[c]
         /\ \/ sync = "sleep" /\ sync' = "flush" /\ pc'["thread"] = "read"
            \/ sync \in {"sleep", "flush"} /\ stop /\ sync' = "final" /\ pc'["thread"] = "read"
            \/ sync = "flush" /\ sync' = "sleep" /\ pc'["thread"] = "idle"
            \/ /\ sync = "final" /\ sync' = "exited"
               /\ pc["thread"] = "return" /\ pc'["thread"] = "idle" /\ UNCHANGED todo
<1> USE DEF TypeOK, Idle, Goto, Flushers, sqlite
<1>1. CASE SyncWake
  BY <1>1 DEF SyncWake, Lifecycle, Entered
<1>2. CASE SyncSeesStop
  BY <1>2 DEF SyncSeesStop, Lifecycle, Entered
<1>3. CASE SyncReturn
  BY <1>3 DEF SyncReturn, FreeBatch
<1> QED
  BY <1>1, <1>2, <1>3

(* What is on the stack of a thread after a handler starts or returns.     *)
LEMMA Stacks ==
  ASSUME TypeOK, NEW s \in Signals, NEW t \in Threads
  PROVE  /\ Signal(s, t) =>
              /\ \A u \in Threads \ {t} : stack'[u] = stack[u]
              /\ \A n \in DOMAIN stack[t] : n \in DOMAIN stack'[t] /\ stack'[t][n] = stack[t][n]
              /\ \E n \in DOMAIN stack'[t] : stack'[t][n] = s
         /\ SignalReturn(s, t) =>
              /\ \A u \in Threads \ {t} : stack'[u] = stack[u]
              /\ stack[t] # <<>>
              /\ \A n \in DOMAIN stack[t] :
                   \/ n \in DOMAIN stack'[t] /\ stack'[t][n] = stack[t][n]
                   \/ stack[t][n] = s
<1>0. stack \in [Threads -> Seq(Signals)] /\ stack[t] \in Seq(Signals)
  BY DEF TypeOK
<1>1. ASSUME Signal(s, t)
      PROVE  /\ \A u \in Threads \ {t} : stack'[u] = stack[u]
             /\ \A n \in DOMAIN stack[t] : n \in DOMAIN stack'[t] /\ stack'[t][n] = stack[t][n]
             /\ \E n \in DOMAIN stack'[t] : stack'[t][n] = s
  <2>1. stack'[t] = Append(stack[t], s) /\ \A u \in Threads \ {t} : stack'[u] = stack[u]
    BY <1>0, <1>1 DEF Signal
  <2>2. Len(stack[t]) + 1 \in DOMAIN stack'[t] /\ stack'[t][Len(stack[t]) + 1] = s
    BY <1>0, <2>1
  <2>3. \A n \in DOMAIN stack[t] : n \in DOMAIN stack'[t] /\ stack'[t][n] = stack[t][n]
    BY <1>0, <2>1
  <2> QED
    BY <2>1, <2>2, <2>3
<1>2. ASSUME SignalReturn(s, t)
      PROVE  /\ \A u \in Threads \ {t} : stack'[u] = stack[u]
             /\ stack[t] # <<>>
             /\ \A n \in DOMAIN stack[t] :
                  \/ n \in DOMAIN stack'[t] /\ stack'[t][n] = stack[t][n]
                  \/ stack[t][n] = s
  <2>1. /\ stack'[t] = SubSeq(stack[t], 1, Len(stack[t]) - 1) /\ stack[t] # <<>>
        /\ stack[t][Len(stack[t])] = s /\ \A u \in Threads \ {t} : stack'[u] = stack[u]
    BY <1>0, <1>2 DEF SignalReturn
  <2>2. \A n \in DOMAIN stack[t] :
          n # Len(stack[t]) => n \in DOMAIN stack'[t] /\ stack'[t][n] = stack[t][n]
    BY <1>0, <2>1
  <2> QED
    BY <2>1, <2>2
<1> QED
  BY <1>1, <1>2

(* The steps of a signal handler outside do_sync.                          *)
LEMMA SignalSteps ==
  ASSUME TypeOK, NEW s \in Signals, NEW t \in Threads, Signal(s, t) \/ SignalReturn(s, t)
  PROVE  /\ UNCHANGED <<main, sync, stop, rows, cloud, tx, txn>>
         /\ \A c \in Flushers \ {s} : pc'[c] = pc[c] /\ todo'[c] = todo[c]
         /\ todo'[s] \subseteq todo[s]
         /\ \/ /\ Signal(s, t) /\ s \in armed /\ armed' = armed \ {s} /\ pc'[s] = "read"
               /\ t = "main" => main \notin {"down", "exited"}
               /\ t = "sync" => sync \notin {"down", "exited"}
            \/ /\ SignalReturn(s, t) /\ pc[s] = "return" /\ armed' = armed /\ pc'[s] = "idle"
<1> USE DEF TypeOK, Goto, Flushers, sqlite
<1>1. CASE Signal(s, t)
  BY <1>1 DEF Signal, Alive
<1>2. CASE SignalReturn(s, t)
  BY <1>2 DEF SignalReturn, FreeBatch
<1> QED
  BY <1>1, <1>2

\* What a kill and a restart leave of the threads, handlers and flushes.
LEMMA BootSteps ==
  ASSUME TypeOK, Crash \/ Boot
  PROVE  \/ /\ Crash /\ main' = "down" /\ sync' = "down" /\ stop' = stop /\ armed' = armed
            /\ \A t \in Threads : stack'[t] = <<>>
            /\ \A c \in Flushers : pc'[c] = "idle" /\ txn'[c] = {} /\ todo'[c] = {}
         \/ /\ Boot /\ main \in {"down", "exited"} /\ main' = "connecting" /\ sync' = "sleep"
            /\ ~stop' /\ armed' = Signals /\ UNCHANGED <<stack, flush>>
BY DEF Crash, Boot, ForgetFlushes

(* A step outside the phases of the two threads.                           *)
LEMMA NextCases ==
  ASSUME Next
  PROVE  \/ \E c \in Flushers : FlushStep(c)
         \/ MainStep \/ \E p \in Payloads : OnMessage(p)
         \/ SyncWake \/ SyncSeesStop \/ SyncReturn
         \/ \E s \in Signals, t \in Threads : Signal(s, t) \/ SignalReturn(s, t)
         \/ Crash \/ Boot \/ UNCHANGED vars
BY ConstantsAssumption DEF Next, SyncStep, HandlerStep, Exited, Flushers

\* Every step keeps the order in which the agent stops.
LEMMA NextLifecycle ==
  ASSUME TypeOK, Lifecycle, Next
  PROVE  Lifecycle'
<1> USE DEF Lifecycle, Stopping, NoHandlers, Entered
<1>1. ASSUME NEW c \in Flushers, FlushStep(c) PROVE Lifecycle'
  <2>1. \A d \in Flushers : pc'[d] = "idle" <=> pc[d] = "idle"
    BY <1>1, FlushEntered
  <2>2. UNCHANGED <<main, sync, stop, armed, stack>>
    BY <1>1, FlushEntered DEF threads
  <2> QED
    BY <2>1, <2>2 DEF Flushers
<1>2. CASE MainStep \/ \E p \in Payloads : OnMessage(p)
  BY <1>2, MainSteps DEF flush
<1>3. CASE SyncWake \/ SyncSeesStop \/ SyncReturn
  <2>1. Stopping'
    BY <1>3, SyncSteps
  <2>2. NoHandlers' /\ (sync' \in {"sleep", "exited", "down"} => pc'["thread"] = "idle")
    BY <1>3, SyncSteps
  <2>3. \A s \in Signals : pc'[s] = pc[s]
    <3>1. \A s \in Signals : "thread" # s
      BY ConstantsAssumption
    <3> QED
      BY <1>3, <3>1, SyncSteps
  <2>4. UNCHANGED <<armed, stack>>
    BY <1>3, SyncSteps
  <2> QED
    BY <2>1, <2>2, <2>3, <2>4
<1>4. ASSUME NEW s \in Signals, NEW t \in Threads, Signal(s, t) \/ SignalReturn(s, t)
      PROVE  Lifecycle'
  <2>0. /\ UNCHANGED <<main, sync, stop>> /\ \A c \in Flushers \ {s} : pc'[c] = pc[c]
        /\ s # "thread"
    BY <1>4, SignalSteps, ConstantsAssumption
  <2>1. Stopping'
    BY <2>0
  <2>2. NoHandlers'
    <3>1. CASE Signal(s, t)
      BY <1>4, <2>0, <3>1, SignalSteps, Stacks DEF Threads, SignalReturn
    <3>2. CASE SignalReturn(s, t)
      BY <2>0, <3>2, Stacks DEF Threads
    <3> QED
      BY <1>4, <3>1, <3>2
  <2>3. sync' \in {"sleep", "exited", "down"} => pc'["thread"] = "idle"
    BY <2>0 DEF Flushers
  <2>4. \A r \in Signals : r \in armed' => pc'[r] = "idle"
    BY <1>4, <2>0, SignalSteps DEF Flushers
  <2>5. ASSUME NEW r \in Signals, pc'[r] # "idle"
        PROVE  \E u \in Threads : \E n \in DOMAIN stack'[u] : stack'[u][n] = r
    <3>1. CASE r = s
      BY <1>4, <2>5, <3>1, SignalSteps, Stacks
    <3>2. CASE r # s
      <4>1. PICK u \in Threads : \E n \in DOMAIN stack[u] : stack[u][n] = r
        BY <2>0, <2>5, <3>2 DEF Flushers
      <4>2. PICK n \in DOMAIN stack[u] : stack[u][n] = r
        BY <4>1
      <4>3. n \in DOMAIN stack'[u] /\ stack'[u][n] = r
        BY <1>4, <3>2, <4>2, Stacks
      <4> QED
        BY <4>3
    <3> QED
      BY <3>1, <3>2
  <2> QED
    BY <2>1, <2>2, <2>3, <2>4, <2>5
<1>5. CASE Crash
  BY <1>5, BootSteps DEF Boot, Flushers, Threads, Crash
<1>6. CASE Boot
  <2>1. /\ main \in {"down", "exited"} /\ main' = "connecting" /\ sync' = "sleep"
        /\ ~stop' /\ armed' = Signals /\ UNCHANGED <<stack, pc>>
    BY <1>6 DEF Boot, flush
  <2>2. sync \in {"exited", "down"} /\ stack["main"] = <<>> /\ stack["sync"] = <<>>
    BY <2>1
  <2>3. \A s \in Signals : pc[s] = "idle"
    BY <2>2 DEF Threads
  <2> QED
    BY <2>1, <2>2, <2>3
<1>7. CASE UNCHANGED vars
  BY <1>7 DEF vars, threads, flush
<1> QED
  BY <1>1, <1>2, <1>3, <1>4, <1>5, <1>6, <1>7, NextCases
-----------------------------------------------------------------------------
(* Upserts in the order of the batch.                                      *)

(* Before is a strict order, whatever the seconds unixepoch() returned.    *)
LEMMA BeforeIsOrder ==
  ASSUME TypeOK
  PROVE  /\ \A i \in DOMAIN rows : ~Before(i, i)
         /\ \A i, j, k \in DOMAIN rows : Before(i, j) /\ Before(j, k) => Before(i, k)
<1>1. \A i \in DOMAIN rows : i \in Int /\ rows[i].ts \in Int
  <2>1. rows \in Seq(Row)
    BY DEF TypeOK
  <2>2. /\ DOMAIN rows = 1..Len(rows) /\ Len(rows) \in Nat
        /\ \A i \in DOMAIN rows : rows[i] \in Row
    BY <2>1
  <2>3. \A r \in Row : r.ts \in Nat
    BY ConstantsAssumption DEF Row
  <2> QED
    BY <2>2, <2>3
<1> QED
  BY <1>1 DEF Before

(* It relates the same rows after any step.                                *)
LEMMA BeforeKept ==
  ASSUME TypeOK, Next, NEW i \in DOMAIN rows, NEW j \in DOMAIN rows
  PROVE  Before(i, j) => Before(i, j)'
<1>1. rows'[i] = rows[i] /\ rows'[j] = rows[j]
  BY RowsKept, InsertedRow
<1> QED
  BY <1>1 DEF Before

\* A step of do_sync keeps to the order of its batch.
LEMMA FlushBatchOrder ==
  ASSUME TypeOK, BatchOrder, NEW c \in Flushers, FlushStep(c), rows' = rows
  PROVE  BatchOrder'
<1> USE DEF TypeOK, BatchOrder
<1>0. /\ \A i, j : Before(i, j)' <=> Before(i, j)
      /\ \A d \in Flushers \ {c} : pc'[d] = pc[d] /\ txn'[d] = txn[d] /\ todo'[d] = todo[d]
  <2>1. \A i, j : Before(i, j)' <=> Before(i, j)
    BY DEF Before
  <2>2. \A d \in Flushers \ {c} : txn'[d] = txn[d] /\ todo'[d] = todo[d]
    BY DEF FlushStep, ReadUnflushed, PgConnect, PgConnectFails, UpsertOk, UpsertFails,
           PgCommit, MarkRow, MarkCommit
  <2> QED
    BY <2>1, <2>2, FlushEntered
<1> SUFFICES /\ pc'[c] # "upsert" => txn'[c] = {}
             /\ \A j \in txn'[c], i \in todo'[c] : Before(j, i)
  BY <1>0
<1>1. CASE ReadUnflushed(c) \/ PgConnect(c) \/ PgConnectFails(c)
  BY <1>1 DEF ReadUnflushed, PgConnect, PgConnectFails
<1>2. CASE UpsertOk(c)
  BY <1>2 DEF UpsertOk, IsFirst
<1>3. CASE UpsertFails(c) \/ PgCommit(c)
  BY <1>3 DEF UpsertFails, PgCommit
<1>4. CASE MarkRow(c) \/ MarkCommit(c)
  BY <1>4 DEF MarkRow, MarkCommit
<1> QED
  BY <1>1, <1>2, <1>3, <1>4 DEF FlushStep

\* So does every other step: none of them touches a batch but to drop it.
LEMMA NextBatchOrder ==
  ASSUME TypeOK, Lifecycle, BatchOrder, Next
  PROVE  BatchOrder'
<1> USE DEF BatchOrder
<1>0. \A c \in Flushers : \A i \in todo[c], j \in txn[c] : Before(j, i) => Before(j, i)'
  BY BeforeKept DEF TypeOK
<1>1. ASSUME NEW c \in Flushers, FlushStep(c) PROVE BatchOrder'
  <2>1. rows' = rows
    BY <1>1 DEF FlushStep, ReadUnflushed, PgConnect, PgConnectFails, UpsertOk, UpsertFails,
                PgCommit, MarkRow, MarkCommit, sqlite
  <2> QED
    BY <1>1, <2>1, FlushBatchOrder
<1>2. CASE MainStep \/ \E p \in Payloads : OnMessage(p)
  BY <1>0, <1>2, MainSteps DEF flush
<1>3. CASE SyncWake \/ SyncSeesStop \/ SyncReturn
  <2>1. \A s \in Signals : "thread" # s
    BY ConstantsAssumption
  <2>2. /\ txn' = txn /\ \A c \in Flushers : todo'[c] \subseteq todo[c]
        /\ \A s \in Signals : pc'[s] = pc[s]
        /\ txn["thread"] = {}
    BY <1>3, <2>1, SyncSteps DEF Flushers
  <2> QED
    BY <1>0, <2>2 DEF Flushers
<1>4. ASSUME NEW s \in Signals, NEW t \in Threads, Signal(s, t) \/ SignalReturn(s, t)
      PROVE  BatchOrder'
  <2>1. /\ txn' = txn /\ \A c \in Flushers : todo'[c] \subseteq todo[c]
        /\ \A c \in Flushers \ {s} : pc'[c] = pc[c]
    BY <1>4, SignalSteps
  <2>2. pc[s] # "upsert"
    BY <1>4, SignalSteps DEF Lifecycle, Entered
  <2> QED
    BY <1>0, <2>1, <2>2 DEF Flushers
<1>5. CASE Crash
  BY <1>5, BootSteps DEF Boot, Crash
<1>6. CASE Boot \/ UNCHANGED vars
  BY <1>0, <1>6 DEF Boot, vars, flush
<1> QED
  BY <1>1, <1>2, <1>3, <1>4, <1>5, <1>6, NextCases

\* The invariant of the life cycle and the batches is inductive.
LEMMA DInductive == DInv /\ [Next]_vars => DInv'
<1> SUFFICES ASSUME DInv, [Next]_vars
             PROVE  DInv'
  OBVIOUS
<1>1. TypeOK'
  BY NextTypeOK DEF DInv
<1>2. CASE Next
  BY <1>1, <1>2, NextLifecycle, NextBatchOrder DEF DInv
<1>3. CASE UNCHANGED vars
  BY <1>1, <1>3 DEF DInv, Lifecycle, Stopping, NoHandlers, Entered, BatchOrder, Before, vars,
                    sqlite, threads, flush
<1> QED
  BY <1>2, <1>3

(* A flush that waits for another is behind it: the row it has yet to      *)
(* upsert comes before the row the other has yet to upsert.                *)
LEMMA WaitsForLater ==
  ASSUME DInv, DistinctKeys, NEW c \in Flushers, NEW d \in Flushers, WaitsFor(c, d),
         NEW i \in todo[c], IsFirst(i, todo[c]), NEW j \in todo[d]
  PROVE  Before(i, j)
<1>1. todo[c] \subseteq DOMAIN rows /\ txn[d] \subseteq DOMAIN rows
  BY DEF DInv, TypeOK
<1>2. PICK k \in todo[c] : IsFirst(k, todo[c]) /\ Holds(d, Key(k))
  BY DEF WaitsFor
<1>3. k = i
  <2>1. SUFFICES ASSUME k # i PROVE FALSE
    OBVIOUS
  <2>2. Before(i, k) /\ Before(k, i)
    BY <1>2, <2>1 DEF IsFirst
  <2> QED
    BY <1>1, <2>2, BeforeIsOrder DEF DInv
<1>4. i \in txn[d]
  BY <1>1, <1>2, <1>3 DEF Holds, DistinctKeys
<1> QED
  BY <1>4 DEF DInv, BatchOrder

(* The flush that is furthest behind waits for nobody.                     *)
LEMMA NoCircle == ASSUME DInv, DistinctKeys PROVE NoUpsertDeadlock
<1> SUFFICES ASSUME NEW S \in (SUBSET Flushers) \ {{}}, \A c \in S : \E d \in S : WaitsFor(c, d)
             PROVE  FALSE
  BY DEF NoUpsertDeadlock
<1>1. \A c \in S : \E i \in todo[c] : IsFirst(i, todo[c])
  BY DEF WaitsFor
<1>2. PICK first \in [S -> UNION {todo[c] : c \in S}] :
        \A c \in S : first[c] \in todo[c] /\ IsFirst(first[c], todo[c])
  <2> DEFINE f == [c \in S |-> CHOOSE i \in todo[c] : IsFirst(i, todo[c])]
  <2>1. \A c \in S : f[c] \in todo[c] /\ IsFirst(f[c], todo[c])
    BY <1>1
  <2>2. f \in [S -> UNION {todo[c] : c \in S}]
    BY <2>1
  <2> QED
    BY <2>1, <2>2
<1>3. \A c, d \in S : WaitsFor(c, d) => Before(first[c], first[d])
  BY <1>2, WaitsForLater
<1>4. \A c \in S : first[c] \in DOMAIN rows
  BY <1>2 DEF DInv, TypeOK
<1>5. PICK c1 \in S, c2 \in S, c3 \in S, c4 \in S :
        WaitsFor(c1, c2) /\ WaitsFor(c2, c3) /\ WaitsFor(c3, c4)
  <2>1. PICK c1 \in S : TRUE
    OBVIOUS
  <2>2. PICK c2 \in S : WaitsFor(c1, c2)
    OBVIOUS
  <2>3. PICK c3 \in S : WaitsFor(c2, c3)
    OBVIOUS
  <2>4. PICK c4 \in S : WaitsFor(c3, c4)
    OBVIOUS
  <2> QED
    BY <2>2, <2>3, <2>4
<1>6. \A c, d \in S : c = d => ~Before(first[c], first[d])
  BY <1>4, BeforeIsOrder DEF DInv
<1>7. \A a, b, c \in S : Before(first[a], first[b]) /\ Before(first[b], first[c])
        => Before(first[a], first[c])
  BY <1>4, BeforeIsOrder DEF DInv
<1>8. /\ Before(first[c1], first[c2]) /\ Before(first[c2], first[c3])
      /\ Before(first[c3], first[c4]) /\ Before(first[c1], first[c3])
      /\ Before(first[c2], first[c4]) /\ Before(first[c1], first[c4])
  BY <1>3, <1>5, <1>7
<1>9. c1 # c2 /\ c1 # c3 /\ c1 # c4 /\ c2 # c3 /\ c2 # c4 /\ c3 # c4
  BY <1>6, <1>8
<1>10. {c1, c2, c3, c4} \subseteq {"thread", "SIGINT", "SIGTERM"}
  BY ConstantsAssumption DEF Flushers
<1> QED
  BY <1>9, <1>10

(* Flushes running at the same time (the sync thread's and those of the    *)
(* signal handlers) upsert their batches in the order of ORDER BY ts, so   *)
(* that Postgres never finds them waiting for each other in a circle,      *)
(* whatever fails and whenever the agent is killed, as long as no topic    *)
(* carries two messages in one second.                                     *)
THEOREM NoDeadlock == ASSUME OnePerSecond PROVE Spec => []NoUpsertDeadlock
<1>1. Init => DInv /\ DistinctKeys
  BY InitTypeOK, InitLifecycle DEF DInv, Init, DistinctKeys
<1>2. DInv /\ DistinctKeys /\ [Next]_vars => (DInv /\ DistinctKeys)'
  BY DInductive, DistinctNext DEF DInv
<1> QED
  BY <1>1, <1>2, NoCircle, PTL DEF Spec
-----------------------------------------------------------------------------
(* The final flush.                                                        *)

\* Every read of the buffer sees the file main() inserts into, and all of the
\* batch it asks for
ReadsAll == SyncDbPath = DbPath /\ Faults \cap {"open", "oom"} = {}

CInv == SInv /\ Lifecycle /\ BatchOrder /\ FinalBatch

(* A batch with room for every row leaves none out.                        *)
LEMMA WholeBatch ==
  ASSUME ReadsAll, TypeOK, Len(rows) <= FlushLimit,
         NEW B \in SUBSET Unflushed, IsBatch(B, Unflushed)
  PROVE  DOMAIN rows \ flushed \subseteq B
<1>1. B = Unflushed \/ Cardinality(B) = FlushLimit
  BY DEF IsBatch, ReadsAll
<1>2. CASE Cardinality(B) = FlushLimit
  <2>1. DOMAIN rows = 1..Len(rows) /\ Len(rows) \in Nat
    BY DEF TypeOK
  <2>2. PICK n \in Nat : n = Len(rows)
    BY <2>1
  <2>3. IsFiniteSet(1..n) /\ Cardinality(1..n) = n
    <3>1. 1 \in Int /\ n \in Int /\ n = IF 1 > n THEN 0 ELSE n - 1 + 1
      OBVIOUS
    <3> QED
      BY <3>1, FS_Interval
  <2>4. B \in SUBSET (1..n)
    BY <2>1, <2>2, BatchOfRows
  <2>5. Cardinality(B) <= n /\ (n = Cardinality(B) => B = 1..n)
    BY <2>3, <2>4, FS_Subset
  <2>6. FlushLimit \in Nat /\ n <= FlushLimit
    BY <2>2, ConstantsAssumption
  <2>7. B = 1..n
    BY <1>2, <2>5, <2>6
  <2> QED
    BY <2>1, <2>2, <2>7
<1> QED
  BY <1>1, <1>2 DEF Unflushed, ReadsAll

(* A flush of its own moves a row from its batch into its transaction, and *)
(* from there into Postgres.                                               *)
LEMMA FinalFlush ==
  ASSUME Sound, ReadsAll, CInv, FlushStep("thread"), rows' = rows
  PROVE  FinalBatch'
<1> DEFINE c == "thread"
<1> USE DEF CInv, SInv, IInv, TypeOK
<1>0. /\ c \in Flushers /\ ~UpsertFails(c) /\ \A i : Key(i)' = Key(i)
      /\ UNCHANGED threads
  <2>1. c \in Flushers
    BY DEF Flushers
  <2> QED
    BY <2>1, SoundFlush, FlushEntered DEF Key
<1> HIDE DEF c
<1> SUFFICES ASSUME sync \in {"final", "exited"}, Len(rows) <= FlushLimit
             PROVE  /\ \A i \in DOMAIN rows :
                         InCloud(Key(i))' \/ i \in todo'[c] \/ Holds(c, Key(i))'
                    /\ pc'[c] = "mark" => \A i \in DOMAIN rows : InCloud(Key(i))'
  BY <1>0 DEF FinalBatch, c, threads
<1>1. CASE ReadUnflushed(c)
  <2>1. PICK B \in SUBSET Unflushed : IsBatch(B, Unflushed) /\ todo' = [todo EXCEPT ![c] = B]
    BY <1>1 DEF ReadUnflushed, ReadsAll
  <2>2. \A i \in flushed : InCloud(Key(i))
    BY DEF Accounting, LossOnlyByRollback, NoRollback
  <2>3. \A i \in DOMAIN rows : InCloud(Key(i)) \/ i \in todo'[c]
    BY <1>0, <2>1, <2>2, WholeBatch
  <2>4. cloud' = cloud /\ pc'[c] # "mark"
    BY <1>0, <1>1 DEF ReadUnflushed, Goto
  <2> QED
    BY <1>0, <2>3, <2>4 DEF InCloud
<1>2. CASE pc[c] # "read"
  <2>1. /\ \A i \in DOMAIN rows : InCloud(Key(i)) \/ i \in todo[c] \/ Holds(c, Key(i))
        /\ pc[c] = "mark" => \A i \in DOMAIN rows : InCloud(Key(i))
    BY <1>2 DEF FinalBatch, c
  <2>2. CASE PgConnect(c) \/ PgConnectFails(c)
    <3>1. /\ cloud' = cloud /\ todo' = todo /\ txn' = txn /\ pc'[c] # "mark"
          /\ tx[c] = "open" => tx'[c] = "open"
      BY <1>0, <2>2 DEF PgConnect, PgConnectFails, Goto
    <3> QED
      BY <1>0, <2>1, <3>1 DEF InCloud, Holds
  <2>3. CASE UpsertOk(c)
    <3>1. PICK i \in todo[c] :
            /\ todo' = [todo EXCEPT ![c] = @ \ {i}]
            /\ txn' = IF InCloud(Key(i)) \/ Holds(c, Key(i)) THEN txn
                      ELSE [txn EXCEPT ![c] = @ \cup {i}]
      BY <2>3 DEF UpsertOk
    <3>2. cloud' = cloud /\ tx' = tx /\ tx[c] = "open" /\ pc'[c] # "mark"
      BY <2>3 DEF UpsertOk
    <3>3. \A j : /\ InCloud(Key(j)) => InCloud(Key(j))'
                 /\ Holds(c, Key(j)) => Holds(c, Key(j))'
      BY <1>0, <3>1, <3>2 DEF InCloud, Holds
    <3>4. InCloud(Key(i))' \/ Holds(c, Key(i))'
      <4>1. ~InCloud(Key(i)) /\ ~Holds(c, Key(i)) => i \in txn'[c]
        BY <1>0, <3>1
      <4> QED
        BY <1>0, <3>2, <3>3, <4>1 DEF Holds
    <3>5. \A j \in todo[c] \ {i} : j \in todo'[c]
      BY <1>0, <3>1
    <3> QED
      BY <2>1, <3>2, <3>3, <3>4, <3>5
  <2>4. CASE PgCommit(c)
    <3>1. todo[c] = {} /\ cloud' = cloud \cup txn[c]
      BY <1>0, <2>4 DEF PgCommit, CommitRows, NoRollback, Sound, RollbackFaults
    <3> QED
      BY <1>0, <2>1, <3>1 DEF InCloud, Holds
  <2>5. CASE MarkRow(c) \/ MarkCommit(c)
    <3>1. cloud' = cloud /\ pc[c] = "mark"
      BY <2>5 DEF MarkRow, MarkCommit
    <3> QED
      BY <1>0, <2>1, <3>1 DEF InCloud
  <2> QED
    BY <1>0, <1>2, <2>2, <2>3, <2>4, <2>5 DEF FlushStep, ReadUnflushed, c
<1> QED
  BY <1>1, <1>2 DEF FlushStep, PgConnect, PgConnectFails, UpsertOk, UpsertFails, PgCommit,
                    MarkRow, MarkCommit, c

\* A step of the others: what the final flush has left of its batch and of its
\* transaction stays, Postgres loses no row
LeavesFinal ==
  /\ UNCHANGED <<rows, sync>> /\ cloud \subseteq cloud'
  /\ pc'["thread"] = pc["thread"] /\ todo'["thread"] = todo["thread"]
  /\ tx'["thread"] = tx["thread"] /\ txn'["thread"] = txn["thread"]

\* Such a step keeps what the final flush has gathered.
LEMMA LeftFinal == FinalBatch /\ LeavesFinal => FinalBatch'
BY DEF FinalBatch, LeavesFinal, InCloud, Holds, Key

(* The flush of a handler.                                                 *)
LEMMA OtherFlush ==
  ASSUME TypeOK, NEW s \in Signals, FlushStep(s), rows' = rows
  PROVE  LeavesFinal
<1>1. s \in Flushers /\ "thread" \in Flushers \ {s}
  BY ConstantsAssumption DEF Flushers
<1>2. UNCHANGED sync /\ pc'["thread"] = pc["thread"]
  BY <1>1, FlushEntered DEF threads
<1>3. cloud \subseteq cloud'
  BY DEF FlushStep, ReadUnflushed, PgConnect, PgConnectFails, UpsertOk, UpsertFails,
         PgCommit, CommitRows, MarkRow, MarkCommit
<1>4. /\ todo'["thread"] = todo["thread"]
      /\ tx'["thread"] = tx["thread"] /\ txn'["thread"] = txn["thread"]
  BY <1>1 DEF TypeOK, FlushStep, ReadUnflushed, PgConnect, PgConnectFails, UpsertOk,
              UpsertFails, PgCommit, MarkRow, MarkCommit
<1> QED
  BY <1>2, <1>3, <1>4 DEF LeavesFinal

\* Every step does, or begins the final flush with all rows in its batch.
LEMMA NextFinalBatch ==
  ASSUME Sound, ReadsAll, CInv, Next
  PROVE  FinalBatch'
<1> USE DEF CInv, SInv, IInv
<1>1. ASSUME NEW c \in Flushers, FlushStep(c) PROVE FinalBatch'
  <2>1. rows' = rows
    BY <1>1 DEF FlushStep, ReadUnflushed, PgConnect, PgConnectFails, UpsertOk, UpsertFails,
                PgCommit, MarkRow, MarkCommit, sqlite
  <2> QED
    BY <1>1, <2>1, FinalFlush, OtherFlush, LeftFinal DEF Flushers
<1>2. CASE MainStep \/ \E p \in Payloads : OnMessage(p)
  <2>1. UNCHANGED <<sync, flush>> /\ (sync \in {"final", "exited"} => main = "joining")
    BY <1>2, MainSteps DEF Lifecycle, Stopping
  <2>2. main = "joining" => UNCHANGED <<rows, cloud>>
    BY <1>2 DEF MainStep, Connect, ConnectFails, LeaveLoop, StopSync, Join, InsertFails,
                InsertRow, OnMessage, sqlite
  <2> QED
    BY <2>1, <2>2, LeftFinal DEF FinalBatch, LeavesFinal, flush
<1>3. CASE SyncWake \/ SyncSeesStop \/ SyncReturn
  <2>1. CASE sync' = "exited"
    <3>1. /\ sync = "final" /\ pc["thread"] = "return" /\ pc'["thread"] = "idle"
          /\ UNCHANGED <<rows, cloud, todo, tx, txn>>
      BY <1>3, <2>1, SyncSteps
    <3> QED
      BY <3>1 DEF FinalBatch, InCloud, Holds, Key
  <2>2. CASE sync' # "exited"
    <3>1. sync' = "final" => pc'["thread"] = "read"
      BY <1>3, <2>2, SyncSteps
    <3> QED
      BY <2>2, <3>1 DEF FinalBatch
  <2> QED
    BY <2>1, <2>2
<1>4. ASSUME NEW s \in Signals, NEW t \in Threads, Signal(s, t) \/ SignalReturn(s, t)
      PROVE  FinalBatch'
  <2>1. "thread" \in Flushers \ {s}
    BY ConstantsAssumption DEF Flushers
  <2> QED
    BY <1>4, <2>1, SignalSteps, LeftFinal DEF LeavesFinal
<1>5. CASE Crash \/ Boot
  BY <1>5, BootSteps DEF FinalBatch
<1>6. CASE UNCHANGED vars
  BY <1>6, LeftFinal DEF vars, sqlite, threads, flush, LeavesFinal
<1> QED
  BY <1>1, <1>2, <1>3, <1>4, <1>5, <1>6, NextCases

\* The invariant of a clean exit is inductive.
LEMMA CInductive == ASSUME Sound, ReadsAll PROVE CInv /\ [Next]_vars => CInv'
<1> SUFFICES ASSUME CInv, [Next]_vars
             PROVE  CInv'
  OBVIOUS
<1>1. SInv'
  BY SoundNext DEF CInv
<1>2. (Lifecycle /\ BatchOrder)'
  BY DInductive DEF CInv, SInv, IInv, DInv
<1>3. CASE UNCHANGED vars
  <2>1. LeavesFinal
    BY <1>3 DEF vars, sqlite, threads, flush, LeavesFinal
  <2> QED
    BY <1>1, <1>2, <2>1, LeftFinal DEF CInv
<1> QED
  BY <1>1, <1>2, <1>3, NextFinalBatch DEF CInv

(* When main() has returned the sync thread is in no transaction any more. *)
LEMMA ExitStored == CInv => CleanExitStored
<1> SUFFICES ASSUME CInv, main = "exited", Len(rows) <= FlushLimit, NEW i \in DOMAIN rows
             PROVE  InCloud(Key(i)) \/ i \in todo["thread"]
  BY DEF CleanExitStored
<1> USE DEF CInv
<1>1. sync = "exited" /\ pc["thread"] = "idle"
  BY DEF Lifecycle, Stopping, Entered
<1>2. txn["thread"] = {}
  BY <1>1 DEF BatchOrder, Flushers
<1> QED
  BY <1>1, <1>2 DEF FinalBatch, Holds

(* The final flush of sync_thread_fn runs after the last insert: once      *)
(* main() has returned, every buffered row is in Postgres or in the batch  *)
(* for which that flush found no connection, if one batch holds them all,  *)
(* Postgres executes what it is sent and the reads of the buffer succeed.  *)
(* Connections may fail, marks may fail, handlers may flush at the same    *)
(* time on either thread.                                                  *)
THEOREM NothingLeftBehind ==
  ASSUME Sound, ReadsAll PROVE Spec => []CleanExitStored
<1>1. Init => CInv
  BY InitIInv, InitLifecycle DEF Init, CInv, SInv, NoRollback, FinalBatch
<1> QED
  BY <1>1, CInductive, ExitStored, PTL DEF Spec
=============================================================================
