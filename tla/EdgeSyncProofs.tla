--------------------------- MODULE EdgeSyncProofs ---------------------------
(***************************************************************************)
(* What EdgeSync guarantees for every number of messages, topics, restarts *)
(* and every combination of failures.                                      *)
(***************************************************************************)
EXTENDS EdgeSync, SequenceTheorems, TLAPS

-----------------------------------------------------------------------------
(* The inductive invariant.                                                *)

Accounted(i) == InCloud(Key(i)) \/ \E j \in rolledBack : Key(j) = Key(i)

\* Only an open Postgres transaction has uncommitted rows
TxnOpen == \A c \in Flushers : txn[c] # {} => tx[c] = "open"

\* What an activation has had acknowledged is stored, undone, or in its open
\* transaction
AckedAccounted ==
  \A c \in Flushers : \A i \in acked[c] : Accounted(i) \/ Holds(c, Key(i))

\* Marking starts after COMMIT and only touches acknowledged ids
MarksAcked ==
  \A c \in Flushers :
    /\ updated[c] \subseteq acked[c]
    /\ pc[c] = "mark" => tx[c] = "none" /\ todo[c] \subseteq acked[c]

Accounting == TxnOpen /\ AckedAccounted /\ MarksAcked /\ LossOnlyByRollback
IInv == TypeOK /\ Accounting /\ DeliveredOnce
-----------------------------------------------------------------------------
(* Type correctness.                                                       *)

(* InsertRow appends to the table: no row moves or changes.                *)
LEMMA AppendRow ==
  ASSUME NEW S, NEW q \in Seq(S), NEW r \in S
  PROVE  /\ Append(q, r) \in Seq(S)
         /\ DOMAIN q \subseteq DOMAIN Append(q, r)
         /\ \A i \in DOMAIN q : Append(q, r)[i] = q[i]
OBVIOUS

(* The batch ReadUnflushed picks consists of rows of the table.            *)
LEMMA BatchOfRows == Unflushed \subseteq DOMAIN rows
BY DEF Unflushed

(* The first state is well typed: main() up to sync_start.                 *)
LEMMA InitTypeOK == Init => TypeOK
<1> SUFFICES ASSUME Init
             PROVE  TypeOK
  OBVIOUS
<1>1. rows \in Seq(Row) /\ DOMAIN rows = {}
  BY DEF Init
<1>2. stack \in [Threads -> Seq(Signals)]
  <2>1. <<>> \in Seq(Signals)
    OBVIOUS
  <2> QED
    BY <2>1 DEF Init
<1>3. /\ pc \in [Flushers -> PcLabels]
      /\ tx \in [Flushers -> {"none", "open", "aborted", "lost"}]
      /\ \A f \in {todo, acked, updated, txn} : f \in [Flushers -> SUBSET DOMAIN rows]
  BY DEF Init, PcLabels
<1> QED
  BY <1>1, <1>2, <1>3 DEF Init, TypeOK, Free

(* No step of do_sync leaves the types, whichever activation takes it.     *)
LEMMA FlushTypeOK ==
  ASSUME TypeOK, NEW c \in Flushers, FlushStep(c)
  PROVE  TypeOK'
<1> USE DEF TypeOK, sqlite, threads, flush, history, Goto, PcLabels
<1>1. CASE ReadUnflushed(c)
  <2>1. PICK B \in SUBSET Unflushed : todo' = [todo EXCEPT ![c] = B] \/ todo' = todo
    BY <1>1 DEF ReadUnflushed
  <2>2. B \subseteq DOMAIN rows
    BY BatchOfRows
  <2>3. todo' \in [Flushers -> SUBSET DOMAIN rows]
    BY <2>1, <2>2
  <2>4. pc' \in [Flushers -> PcLabels]
    BY <1>1 DEF ReadUnflushed
  <2> QED
    BY <1>1, <2>3, <2>4 DEF ReadUnflushed
<1>2. CASE PgConnect(c)
  BY <1>2 DEF PgConnect
<1>3. CASE PgConnectFails(c)
  BY <1>3 DEF PgConnectFails
<1>4. CASE UpsertOk(c)
  BY <1>4 DEF UpsertOk
<1>5. CASE UpsertFails(c)
  BY <1>5 DEF UpsertFails
<1>6. CASE PgCommit(c)
  BY <1>6 DEF PgCommit, CommitRows
<1>7. CASE MarkRow(c)
  BY <1>7 DEF MarkRow
<1>8. CASE MarkCommit(c)
  BY <1>8 DEF MarkCommit, ReleaseLock
<1> QED
  BY <1>1, <1>2, <1>3, <1>4, <1>5, <1>6, <1>7, <1>8 DEF FlushStep

(* Nor does a step of the sync loop itself,                                *)
LEMMA SyncTypeOK ==
  ASSUME TypeOK, SyncWake \/ SyncSeesStop \/ SyncReturn
  PROVE  TypeOK'
<1> USE DEF TypeOK, sqlite, threads, flush, history, Goto, PcLabels, Flushers
<1>1. CASE SyncWake \/ SyncSeesStop
  <2>1. pc' \in [Flushers -> PcLabels]
    BY <1>1 DEF SyncWake, SyncSeesStop
  <2> QED
    BY <1>1, <2>1 DEF SyncWake, SyncSeesStop
<1>2. CASE SyncReturn
  <2>1. pc' \in [Flushers -> PcLabels]
    BY <1>2 DEF SyncReturn
  <2>2. todo' \in [Flushers -> SUBSET DOMAIN rows]
    BY <1>2 DEF SyncReturn, FreeBatch
  <2> QED
    BY <1>2, <2>1, <2>2 DEF SyncReturn
<1> QED
  BY <1>1, <1>2

(* of the main thread,                                                     *)
LEMMA MainTypeOK ==
  ASSUME TypeOK, MainStep \/ \E p \in Payloads : OnMessage(p)
  PROVE  TypeOK'
<1> USE DEF TypeOK, sqlite, threads, flush, history, LoopCheck
<1>1. CASE Connect \/ ConnectFails \/ LeaveLoop \/ StopSync \/ Join
  BY <1>1 DEF Connect, ConnectFails, LeaveLoop, StopSync, Join
<1>2. CASE InsertFails
  BY <1>2 DEF InsertFails, ReleaseLock, Free
<1>3. ASSUME NEW t \in Topics, NEW s \in Times, NEW p \in Payloads, InsertRow(t, s, p)
      PROVE  TypeOK'
  <2>1. [topic |-> t, ts |-> s, payload |-> p] \in Row
    BY <1>3, ConstantsAssumption DEF InsertRow, Row
  <2>2. /\ rows' \in Seq(Row)
        /\ DOMAIN rows \subseteq DOMAIN rows'
    BY <1>3, <2>1, AppendRow DEF InsertRow
  <2> QED
    BY <1>3, <2>2 DEF InsertRow, ReleaseLock
<1>4. ASSUME NEW p \in Payloads, OnMessage(p)
      PROVE  TypeOK'
  BY <1>4 DEF OnMessage
<1> QED
  BY <1>1, <1>2, <1>3, <1>4 DEF MainStep

(* of a signal handler starting or returning,                              *)
LEMMA SignalTypeOK ==
  ASSUME TypeOK, NEW s \in Signals, NEW t \in Threads,
         Signal(s, t) \/ SignalReturn(s, t)
  PROVE  TypeOK'
<1> USE DEF TypeOK, sqlite, threads, flush, history, Goto, PcLabels, Flushers
<1>1. CASE Signal(s, t)
  <2>1. Append(stack[t], s) \in Seq(Signals)
    OBVIOUS
  <2> QED
    BY <1>1, <2>1 DEF Signal
<1>2. CASE SignalReturn(s, t)
  <2>1. SubSeq(stack[t], 1, Len(stack[t]) - 1) \in Seq(Signals)
    BY <1>2 DEF SignalReturn
  <2>2. todo' \in [Flushers -> SUBSET DOMAIN rows]
    BY <1>2 DEF SignalReturn, FreeBatch
  <2> QED
    BY <1>2, <2>1, <2>2 DEF SignalReturn
<1> QED
  BY <1>1, <1>2

(* or of a kill and a restart.                                             *)
LEMMA BootTypeOK ==
  ASSUME TypeOK, Crash \/ Boot
  PROVE  TypeOK'
<1> USE DEF TypeOK, sqlite, threads, flush, history, PcLabels, Flushers
<1>1. CASE Crash
  <2>1. <<>> \in Seq(Signals)
    OBVIOUS
  <2> QED
    BY <1>1, <2>1 DEF Crash, ForgetFlushes
<1>2. CASE Boot
  <2>1. boots' \in Nat
    BY <1>2 DEF Boot
  <2> QED
    BY <1>2, <2>1 DEF Boot
<1> QED
  BY <1>1, <1>2

\* Every step keeps the types.
LEMMA NextTypeOK == TypeOK /\ [Next]_vars => TypeOK'
<1> SUFFICES ASSUME TypeOK, [Next]_vars
             PROVE  TypeOK'
  OBVIOUS
<1>1. CASE UNCHANGED vars
  BY <1>1 DEF TypeOK, vars, sqlite, threads, flush, history
<1>2. CASE Exited
  BY <1>1, <1>2 DEF Exited
<1>3. CASE MainStep \/ \E p \in Payloads : OnMessage(p)
  BY <1>3, MainTypeOK
<1>4. CASE SyncStep
  BY <1>4, SyncTypeOK, FlushTypeOK DEF SyncStep, Flushers
<1>5. CASE \E s \in Signals : HandlerStep(s)
  BY <1>5, FlushTypeOK, SignalTypeOK DEF HandlerStep, Flushers
<1>6. CASE \E s \in Signals, t \in SignalThreads : Signal(s, t)
  BY <1>6, SignalTypeOK, ConstantsAssumption
<1>7. CASE Crash \/ Boot
  BY <1>7, BootTypeOK
<1> QED
  BY <1>1, <1>2, <1>3, <1>4, <1>5, <1>6, <1>7 DEF Next

(* Every state of the agent, of both databases and of all flushes is well  *)
(* typed; no id ever names a row the events table does not have.           *)
THEOREM TypeCorrect == Spec => []TypeOK
BY InitTypeOK, NextTypeOK, PTL DEF Spec
-----------------------------------------------------------------------------
(* Every acknowledged or marked row is accounted for.                      *)

\* A step that commits, rolls back, acknowledges and marks nothing
Quiet ==
  /\ UNCHANGED <<rows, flushed, cloud, rolledBack, acked, updated, tx, txn>>
  /\ \A c \in Flushers : pc'[c] = "mark" => pc[c] = "mark" /\ todo'[c] = todo[c]

\* Such a step keeps the account of the marked rows,
LEMMA QuietAccounting == Accounting /\ Quiet => Accounting'
BY DEF Accounting, Quiet, TxnOpen, AckedAccounted, MarksAcked, LossOnlyByRollback,
       Accounted, InCloud, Holds, Key

\* and the keys in Postgres.
LEMMA QuietDelivered == DeliveredOnce /\ Quiet => DeliveredOnce'
BY DEF Quiet, DeliveredOnce, Key

\* A row inserted is neither marked nor acknowledged yet.
LEMMA InsertAccounting ==
  ASSUME IInv, NEW t \in Topics, NEW s \in Times, NEW p \in Payloads, InsertRow(t, s, p)
  PROVE  Accounting' /\ DeliveredOnce'
<1>1. [topic |-> t, ts |-> s, payload |-> p] \in Row
  BY ConstantsAssumption DEF InsertRow, Row
<1>2. \A i \in DOMAIN rows : Key(i)' = Key(i)
  BY <1>1, AppendRow DEF InsertRow, Key, IInv, TypeOK
<1>3. UNCHANGED <<flushed, cloud, rolledBack, pc, todo, acked, updated, tx, txn>>
  BY DEF InsertRow, flush, history
<1>4. \A c \in Flushers : acked[c] \subseteq DOMAIN rows /\ txn[c] \subseteq DOMAIN rows
  BY DEF IInv, TypeOK
<1>5. \A i \in DOMAIN rows : (InCloud(Key(i)) => InCloud(Key(i))') /\ (Accounted(i) => Accounted(i)')
  BY <1>2, <1>3 DEF IInv, TypeOK, InCloud, Accounted
<1>6. \A c \in Flushers, i \in DOMAIN rows : Holds(c, Key(i)) => Holds(c, Key(i))'
  BY <1>2, <1>3, <1>4 DEF Holds
<1>7. TxnOpen' /\ MarksAcked'
  BY <1>3 DEF IInv, Accounting, TxnOpen, MarksAcked
<1>8. AckedAccounted'
  BY <1>3, <1>4, <1>5, <1>6 DEF IInv, Accounting, AckedAccounted
<1>9. LossOnlyByRollback'
  BY <1>3, <1>5 DEF IInv, TypeOK, Accounting, LossOnlyByRollback, Accounted
<1>10. DeliveredOnce'
  BY <1>2, <1>3, <1>4 DEF IInv, TypeOK, DeliveredOnce
<1> QED
  BY <1>7, <1>8, <1>9, <1>10 DEF Accounting

(* COMMIT and ROLLBACK both keep the account: what the transaction held is *)
(* then stored or known to be rolled back.                                 *)
LEMMA CommitAccounting ==
  ASSUME IInv, NEW c \in Flushers, PgCommit(c)
  PROVE  Accounting' /\ DeliveredOnce'
<1> USE DEF IInv, TypeOK, Accounting
<1>1. /\ UNCHANGED <<rows, flushed, acked, updated>>
      /\ tx' = [tx EXCEPT ![c] = "none"] /\ txn' = [txn EXCEPT ![c] = {}]
      /\ todo' = [todo EXCEPT ![c] = acked[c]]
      /\ \A d \in Flushers \ {c} : pc'[d] = pc[d]
      /\ \/ cloud' = cloud \cup txn[c] /\ rolledBack' = rolledBack
         \/ cloud' = cloud /\ rolledBack' = rolledBack \cup txn[c]
  BY DEF PgCommit, CommitRows, Goto, sqlite
<1>2. \A i : Key(i)' = Key(i)
  BY <1>1 DEF Key
<1>3. \A i : (Accounted(i) => Accounted(i)') /\ (Holds(c, Key(i)) => Accounted(i)')
  BY <1>1, <1>2 DEF Accounted, InCloud, Holds
<1>4. \A d \in Flushers \ {c}, i \in DOMAIN rows : Holds(d, Key(i)) => Holds(d, Key(i))'
  BY <1>1, <1>2 DEF Holds
<1>5. TxnOpen'
  BY <1>1 DEF TxnOpen
<1>6. AckedAccounted'
  BY <1>1, <1>3, <1>4 DEF AckedAccounted
<1>7. MarksAcked'
  BY <1>1 DEF MarksAcked
<1>8. LossOnlyByRollback'
  BY <1>1, <1>3 DEF LossOnlyByRollback, Accounted
<1>9. DeliveredOnce'
  BY <1>1, <1>2 DEF DeliveredOnce
<1> QED
  BY <1>5, <1>6, <1>7, <1>8, <1>9

(* An acknowledged upsert found its key stored, or found it in its own     *)
(* transaction, or has just put it there; and no other transaction has it. *)
LEMMA UpsertAccounting ==
  ASSUME IInv, NEW c \in Flushers, UpsertOk(c)
  PROVE  Accounting' /\ DeliveredOnce'
<1> USE DEF IInv, TypeOK, Accounting
<1>1. PICK i \in todo[c] :
        /\ \A d \in Flushers \ {c} : ~Holds(d, Key(i))
        /\ todo' = [todo EXCEPT ![c] = @ \ {i}]
        /\ acked' = [acked EXCEPT ![c] = @ \cup {i}]
        /\ txn' = IF InCloud(Key(i)) \/ Holds(c, Key(i)) THEN txn
                  ELSE [txn EXCEPT ![c] = @ \cup {i}]
  BY DEF UpsertOk
<1>2. /\ UNCHANGED <<rows, flushed, cloud, pc, updated, tx, rolledBack>>
      /\ pc[c] = "upsert" /\ tx[c] = "open"
  BY DEF UpsertOk, sqlite, history
<1>3. \A j : Key(j)' = Key(j) /\ (Accounted(j)' <=> Accounted(j))
  BY <1>2 DEF Key, Accounted, InCloud
<1>4. \A d \in Flushers : txn[d] \subseteq txn'[d]
  BY <1>1
<1>5. \A d \in Flushers, j \in DOMAIN rows : Holds(d, Key(j)) => Holds(d, Key(j))'
  BY <1>2, <1>3, <1>4 DEF Holds
<1>6. Accounted(i)' \/ Holds(c, Key(i))'
  <2>1. CASE InCloud(Key(i))
    BY <2>1, <1>3 DEF Accounted
  <2>2. CASE Holds(c, Key(i))
    BY <2>2, <1>5
  <2>3. CASE ~InCloud(Key(i)) /\ ~Holds(c, Key(i))
    <3>1. i \in txn'[c]
      BY <2>3, <1>1
    <3> QED
      BY <3>1, <1>2, <1>3 DEF Holds
  <2> QED
    BY <2>1, <2>2, <2>3
<1>7. TxnOpen'
  BY <1>1, <1>2 DEF TxnOpen
<1>8. AckedAccounted'
  BY <1>1, <1>3, <1>5, <1>6 DEF AckedAccounted
<1>9. MarksAcked'
  BY <1>1, <1>2 DEF MarksAcked
<1>10. LossOnlyByRollback'
  BY <1>2, <1>3 DEF LossOnlyByRollback, Accounted
<1>11. DeliveredOnce'
  <2>1. CASE txn' = txn
    BY <2>1, <1>2, <1>3 DEF DeliveredOnce
  <2>2. CASE txn' = [txn EXCEPT ![c] = @ \cup {i}] /\ ~InCloud(Key(i)) /\ ~Holds(c, Key(i))
    <3>1. \A j \in cloud : Key(i) # Key(j)
      BY <2>2 DEF InCloud
    <3>2. \A d \in Flushers : \A j \in txn[d] : Key(i) # Key(j)
      BY <2>2, <1>1 DEF Holds, TxnOpen
    <3> QED
      BY <2>2, <3>1, <3>2, <1>2, <1>3 DEF DeliveredOnce
  <2> QED
    BY <2>1, <2>2, <1>1
<1> QED
  BY <1>7, <1>8, <1>9, <1>10, <1>11

(* A failed upsert undoes the whole transaction, acknowledged rows and all.*)
LEMMA AbortAccounting ==
  ASSUME IInv, NEW c \in Flushers, UpsertFails(c)
  PROVE  Accounting' /\ DeliveredOnce'
<1> USE DEF IInv, TypeOK, Accounting
<1>1. /\ UNCHANGED <<rows, flushed, cloud, pc, acked, updated>>
      /\ txn' = [txn EXCEPT ![c] = {}]
      /\ rolledBack' = rolledBack \cup txn[c]
      /\ \A d \in Flushers \ {c} : tx'[d] = tx[d] /\ todo'[d] = todo[d]
      /\ pc[c] = "upsert"
  BY DEF UpsertFails, sqlite
<1>2. \A i : Key(i)' = Key(i)
  BY <1>1 DEF Key
<1>3. \A i : (Accounted(i) => Accounted(i)') /\ (Holds(c, Key(i)) => Accounted(i)')
  BY <1>1, <1>2 DEF Accounted, InCloud, Holds
<1>4. \A d \in Flushers \ {c}, i \in DOMAIN rows : Holds(d, Key(i)) => Holds(d, Key(i))'
  BY <1>1, <1>2 DEF Holds
<1>5. TxnOpen'
  BY <1>1 DEF TxnOpen
<1>6. AckedAccounted'
  BY <1>1, <1>3, <1>4 DEF AckedAccounted
<1>7. MarksAcked'
  BY <1>1 DEF MarksAcked
<1>8. LossOnlyByRollback'
  BY <1>1, <1>3 DEF LossOnlyByRollback, Accounted
<1>9. DeliveredOnce'
  BY <1>1, <1>2 DEF DeliveredOnce
<1> QED
  BY <1>5, <1>6, <1>7, <1>8, <1>9

(* BEGIN opens an empty transaction.                                       *)
LEMMA ConnectAccounting ==
  ASSUME IInv, NEW c \in Flushers, PgConnect(c)
  PROVE  Accounting' /\ DeliveredOnce'
<1> USE DEF IInv, TypeOK, Accounting
<1>1. /\ UNCHANGED <<rows, flushed, cloud, todo, acked, updated, txn, rolledBack>>
      /\ tx' = [tx EXCEPT ![c] = "open"]
      /\ pc' = [pc EXCEPT ![c] = "upsert"]
  BY DEF PgConnect, Goto, sqlite, history
<1>2. \A i : Key(i)' = Key(i) /\ (Accounted(i)' <=> Accounted(i))
  BY <1>1 DEF Key, Accounted, InCloud
<1>3. \A d \in Flushers, i \in DOMAIN rows : Holds(d, Key(i)) => Holds(d, Key(i))'
  BY <1>1, <1>2 DEF Holds
<1>4. TxnOpen'
  BY <1>1 DEF TxnOpen
<1>5. AckedAccounted'
  BY <1>1, <1>2, <1>3 DEF AckedAccounted
<1>6. MarksAcked' /\ LossOnlyByRollback' /\ DeliveredOnce'
  BY <1>1, <1>2 DEF MarksAcked, LossOnlyByRollback, DeliveredOnce, Accounted
<1> QED
  BY <1>4, <1>5, <1>6

(* Only acknowledged ids are marked, and only after their transaction.     *)
LEMMA MarkAccounting ==
  ASSUME IInv, NEW c \in Flushers, MarkRow(c) \/ MarkCommit(c)
  PROVE  Accounting' /\ DeliveredOnce'
<1> USE DEF IInv, TypeOK, Accounting
<1>1. /\ UNCHANGED <<rows, cloud, tx, txn, rolledBack>>
      /\ \A d \in Flushers \ {c} :
           /\ pc'[d] = pc[d] /\ todo'[d] = todo[d]
           /\ acked'[d] = acked[d] /\ updated'[d] = updated[d]
      /\ pc[c] = "mark"
  BY DEF MarkRow, MarkCommit, Goto, history
<1>2. \A i : Key(i)' = Key(i) /\ (Accounted(i)' <=> Accounted(i))
  BY <1>1 DEF Key, Accounted, InCloud
<1>3. \A d \in Flushers, i \in DOMAIN rows : Holds(d, Key(i))' <=> Holds(d, Key(i))
  BY <1>1, <1>2 DEF Holds
<1>4. TxnOpen' /\ DeliveredOnce'
  BY <1>1, <1>2 DEF TxnOpen, DeliveredOnce
<1>5. \A i \in acked[c] : Accounted(i)
  BY <1>1 DEF MarksAcked, AckedAccounted, Holds
<1>6. acked'[c] \subseteq acked[c]
  BY DEF MarkRow, MarkCommit
<1>7. AckedAccounted'
  BY <1>1, <1>2, <1>3, <1>6 DEF AckedAccounted
<1>8. MarksAcked'
  BY <1>1 DEF MarksAcked, MarkRow, MarkCommit, Goto
<1>9. LossOnlyByRollback'
  <2>1. flushed' \subseteq flushed \cup acked[c]
    BY DEF MarksAcked, MarkRow, MarkCommit
  <2> QED
    BY <2>1, <1>2, <1>5 DEF LossOnlyByRollback, Accounted
<1> QED
  BY <1>4, <1>7, <1>8, <1>9

(* A kill empties every transaction and every list of acknowledged ids.    *)
LEMMA CrashAccounting == Accounting /\ DeliveredOnce /\ Crash => Accounting' /\ DeliveredOnce'
<1> SUFFICES ASSUME Accounting, DeliveredOnce, Crash
             PROVE  Accounting' /\ DeliveredOnce'
  OBVIOUS
<1>1. /\ UNCHANGED <<rows, flushed, cloud, rolledBack>>
      /\ \A c \in Flushers : /\ pc'[c] = "idle" /\ acked'[c] = {}
                             /\ updated'[c] = {} /\ txn'[c] = {}
  BY DEF Crash, ForgetFlushes, history
<1> QED
  BY <1>1 DEF Accounting, TxnOpen, AckedAccounted, MarksAcked, LossOnlyByRollback,
              DeliveredOnce, Accounted, InCloud, Key

\* Every step of do_sync keeps both.
LEMMA FlushAccounting ==
  ASSUME IInv, NEW c \in Flushers, FlushStep(c)
  PROVE  Accounting' /\ DeliveredOnce'
<1>1. CASE ReadUnflushed(c) \/ PgConnectFails(c)
  <2>1. Quiet
    BY <1>1 DEF Quiet, ReadUnflushed, PgConnectFails, Goto, sqlite, history, IInv, TypeOK
  <2> QED
    BY <2>1, QuietAccounting, QuietDelivered DEF IInv
<1> QED
  BY <1>1, ConnectAccounting, UpsertAccounting, AbortAccounting, CommitAccounting,
     MarkAccounting DEF FlushStep

(* The rest of the process touches none of this but the table it appends to. *)
LEMMA OtherQuiet ==
  ASSUME IInv,
         \/ SyncWake \/ SyncSeesStop \/ SyncReturn
         \/ Connect \/ ConnectFails \/ LeaveLoop \/ StopSync \/ Join \/ InsertFails
         \/ \E p \in Payloads : OnMessage(p)
         \/ \E s \in Signals, t \in Threads : Signal(s, t) \/ SignalReturn(s, t)
         \/ Boot \/ UNCHANGED vars
  PROVE  Quiet
<1> USE DEF Quiet, sqlite, threads, flush, history, Goto, IInv, TypeOK
<1>1. CASE SyncWake \/ SyncSeesStop \/ SyncReturn
  BY <1>1 DEF SyncWake, SyncSeesStop, SyncReturn, FreeBatch, Flushers
<1>2. CASE Connect \/ ConnectFails \/ LeaveLoop \/ StopSync \/ Join \/ InsertFails
  BY <1>2 DEF Connect, ConnectFails, LeaveLoop, StopSync, Join, InsertFails
<1>3. CASE \E p \in Payloads : OnMessage(p)
  BY <1>3 DEF OnMessage
<1>4. CASE \E s \in Signals, t \in Threads : Signal(s, t) \/ SignalReturn(s, t)
  BY <1>4 DEF Signal, SignalReturn, FreeBatch, Flushers
<1>5. CASE Boot \/ UNCHANGED vars
  BY <1>5 DEF Boot, vars
<1> QED
  BY <1>1, <1>2, <1>3, <1>4, <1>5

\* The invariant holds at the start.
LEMMA InitIInv == Init => IInv
BY InitTypeOK DEF Init, IInv, Accounting, TxnOpen, AckedAccounted, MarksAcked,
                  LossOnlyByRollback, DeliveredOnce

\* Every step keeps it.
LEMMA NextIInv == IInv /\ [Next]_vars => IInv'
<1> SUFFICES ASSUME IInv, [Next]_vars
             PROVE  Accounting' /\ DeliveredOnce'
  BY NextTypeOK DEF IInv
<1>1. ASSUME NEW c \in Flushers, FlushStep(c)
      PROVE  Accounting' /\ DeliveredOnce'
  BY <1>1, FlushAccounting
<1>2. CASE \E t \in Topics, s \in Times, p \in Payloads : InsertRow(t, s, p)
  BY <1>2, InsertAccounting
<1>3. CASE Crash
  BY <1>3, CrashAccounting DEF IInv
<1>4. CASE Quiet
  BY <1>4, QuietAccounting, QuietDelivered DEF IInv
<1> QED
  BY <1>1, <1>2, <1>3, <1>4, OtherQuiet, ConstantsAssumption
     DEF Next, MainStep, SyncStep, HandlerStep, Exited, Flushers

\* Hence it always holds.
LEMMA Inductive == Spec => []IInv
BY InitIInv, NextIInv, PTL DEF Spec

(* Whatever fails, and whenever the process is killed, a row is marked     *)
(* flushed without its key in Postgres only if Postgres rolled that key    *)
(* back on an agent that was running: pg_flush's ignored COMMIT is the one *)
(* hole, and a kill at any step between COMMIT and marking is none.        *)
THEOREM NoOtherLoss == Spec => []LossOnlyByRollback
<1>1. IInv => LossOnlyByRollback
  BY DEF IInv, Accounting
<1> QED
  BY <1>1, Inductive, PTL

(* ON CONFLICT (device_id, topic, ts) DO NOTHING makes every retry of      *)
(* every flush idempotent, concurrent flushes and restarts included.       *)
THEOREM IdempotentFlush == Spec => []DeliveredOnce
<1>1. IInv => DeliveredOnce
  BY DEF IInv
<1> QED
  BY <1>1, Inductive, PTL
-----------------------------------------------------------------------------
(* In a healthy environment nothing is rolled back and no key is shared,   *)
(* so that being accounted for means being stored.                         *)

NoRollback ==
  /\ \A i \in DOMAIN rows : rows[i].payload # "notjson"
  /\ \A c \in Flushers : tx[c] \in {"none", "open"}
  /\ rolledBack = {}

DistinctKeys == \A i, j \in DOMAIN rows : Key(i) = Key(j) => i = j

SInv == IInv /\ NoRollback
HInv == SInv /\ DistinctKeys

(* The new row is the last one; the others and their keys stay.            *)
LEMMA InsertedRow ==
  ASSUME TypeOK, NEW t \in Topics, NEW s \in Times, NEW p \in Payloads, InsertRow(t, s, p)
  PROVE  /\ DOMAIN rows' = DOMAIN rows \cup {Len(rows) + 1}
         /\ rows'[Len(rows) + 1] = [topic |-> t, ts |-> s, payload |-> p]
         /\ \A i \in DOMAIN rows : rows'[i] = rows[i]
<1> USE DEF TypeOK
<1>1. [topic |-> t, ts |-> s, payload |-> p] \in Row
  BY ConstantsAssumption DEF InsertRow, Row
<1>2. \A i \in DOMAIN rows : rows'[i] = rows[i]
  BY <1>1, AppendRow DEF InsertRow
<1>3. /\ DOMAIN rows' = DOMAIN rows \cup {Len(rows) + 1}
      /\ rows'[Len(rows) + 1] = [topic |-> t, ts |-> s, payload |-> p]
  BY <1>1 DEF InsertRow
<1> QED
  BY <1>2, <1>3

\* With one message a second and topic, on_message inserts a key that is new.
LEMMA InsertDistinct ==
  ASSUME OnePerSecond, TypeOK, DistinctKeys,
         NEW t \in Topics, NEW s \in Times, NEW p \in Payloads, InsertRow(t, s, p)
  PROVE  DistinctKeys'
<1>1. \A i \in DOMAIN rows : Key(i) # <<t, s>>
  BY DEF InsertRow
<1>2. \A i \in DOMAIN rows : Key(i)' = Key(i)
  BY InsertedRow DEF Key
<1>3. PICK n : DOMAIN rows' = DOMAIN rows \cup {n}
               /\ rows'[n] = [topic |-> t, ts |-> s, payload |-> p]
  BY InsertedRow
<1>4. Key(n)' = <<t, s>>
  BY <1>3 DEF Key
<1> QED
  BY <1>1, <1>2, <1>3, <1>4 DEF DistinctKeys

(* The table grows by inserts and by nothing else.                         *)
LEMMA RowsKept ==
  ASSUME Next
  PROVE  rows' = rows \/ \E t \in Topics, s \in Times, p \in Payloads : InsertRow(t, s, p)
<1> USE DEF sqlite
<1>1. ASSUME NEW c \in Flushers, FlushStep(c) PROVE rows' = rows
  BY <1>1 DEF FlushStep, ReadUnflushed, PgConnect, PgConnectFails, UpsertOk, UpsertFails,
              PgCommit, MarkRow, MarkCommit
<1>2. SyncWake \/ SyncSeesStop \/ SyncReturn => rows' = rows
  BY DEF SyncWake, SyncSeesStop, SyncReturn
<1>3. Connect \/ ConnectFails \/ LeaveLoop \/ StopSync \/ Join \/ InsertFails => rows' = rows
  BY DEF Connect, ConnectFails, LeaveLoop, StopSync, Join, InsertFails
<1>4. (\E p \in Payloads : OnMessage(p)) => rows' = rows
  BY DEF OnMessage
<1>5. (\E s \in Signals, t \in Threads : Signal(s, t) \/ SignalReturn(s, t)) => rows' = rows
  BY DEF Signal, SignalReturn
<1>6. Crash \/ Boot \/ Exited => rows' = rows
  BY DEF Crash, Boot, Exited, vars
<1> QED
  BY <1>1, <1>2, <1>3, <1>4, <1>5, <1>6, ConstantsAssumption
     DEF Next, MainStep, SyncStep, HandlerStep, Flushers

\* No other step changes a row.
LEMMA DistinctNext ==
  ASSUME OnePerSecond PROVE TypeOK /\ DistinctKeys /\ [Next]_vars => DistinctKeys'
<1>1. rows' = rows /\ DistinctKeys => DistinctKeys'
  BY DEF DistinctKeys, Key
<1> QED
  BY <1>1, RowsKept, InsertDistinct DEF vars, sqlite

\* An insert rolls nothing back.
LEMMA SoundInsert ==
  ASSUME Sound, SInv, NEW t \in Topics, NEW s \in Times, NEW p \in Payloads,
         InsertRow(t, s, p)
  PROVE  NoRollback'
<1> DEFINE n == Len(rows) + 1
<1>1. /\ DOMAIN rows' = DOMAIN rows \cup {n}
      /\ rows'[n] = [topic |-> t, ts |-> s, payload |-> p]
      /\ \A i \in DOMAIN rows : rows'[i] = rows[i]
  BY InsertedRow DEF SInv, IInv
<1> HIDE DEF n
<1> QED
  BY <1>1 DEF SInv, NoRollback, InsertRow, flush, history, Sound

\* If Postgres executes what it is sent, neither does do_sync.
LEMMA SoundFlush ==
  ASSUME Sound, SInv, NEW c \in Flushers, FlushStep(c)
  PROVE  NoRollback' /\ ~UpsertFails(c)
<1> USE DEF SInv, IInv, TypeOK, sqlite, history
<1>1. ~UpsertFails(c)
  BY DEF UpsertFails, NoRollback, Sound, RollbackFaults
<1>2. rows' = rows
  BY <1>1 DEF FlushStep, ReadUnflushed, PgConnect, PgConnectFails, UpsertOk, PgCommit,
              MarkRow, MarkCommit
<1>3. rolledBack' = rolledBack
  <2>1. CASE PgCommit(c)
    BY <2>1 DEF PgCommit, NoRollback, Sound, RollbackFaults
  <2> QED
    BY <1>1, <2>1 DEF FlushStep, ReadUnflushed, PgConnect, PgConnectFails, UpsertOk,
                      MarkRow, MarkCommit
<1>4. tx' = tx \/ tx' = [tx EXCEPT ![c] = "open"] \/ tx' = [tx EXCEPT ![c] = "none"]
  BY <1>1 DEF FlushStep, ReadUnflushed, PgConnect, PgConnectFails, UpsertOk, PgCommit,
              MarkRow, MarkCommit
<1> QED
  BY <1>1, <1>2, <1>3, <1>4 DEF NoRollback

\* Nor does any step.
LEMMA SoundNext == ASSUME Sound PROVE SInv /\ [Next]_vars => SInv'
<1> SUFFICES ASSUME SInv, [Next]_vars
             PROVE  NoRollback'
  BY NextIInv DEF SInv
<1>1. ASSUME NEW c \in Flushers, FlushStep(c)
      PROVE  NoRollback'
  BY <1>1, SoundFlush
<1>2. CASE \E t \in Topics, s \in Times, p \in Payloads : InsertRow(t, s, p)
  BY <1>2, SoundInsert
<1>3. CASE Crash
  BY <1>3 DEF Crash, ForgetFlushes, SInv, NoRollback, history
<1>4. CASE Quiet
  BY <1>4 DEF Quiet, SInv, NoRollback
<1> QED
  BY <1>1, <1>2, <1>3, <1>4, OtherQuiet, ConstantsAssumption
     DEF Next, MainStep, SyncStep, HandlerStep, Exited, Flushers, SInv

\* With both assumptions keys stay distinct and nothing is rolled back.
LEMMA HealthyInductive == ASSUME Healthy PROVE Spec => []HInv
<1>1. Init => HInv
  BY InitIInv DEF HInv, SInv, Init, NoRollback, DistinctKeys
<1>2. HInv /\ [Next]_vars => HInv'
  BY SoundNext, DistinctNext DEF Healthy, HInv, SInv, IInv
<1> QED
  BY <1>1, <1>2, PTL DEF Spec

(* If Postgres executes what it is sent, a row marked flushed has its key  *)
(* in Postgres, also where several messages share a key: pg_flush's        *)
(* discarded COMMIT result then hides nothing.                             *)
THEOREM KeysStored == ASSUME Sound PROVE Spec => []FlushedKeyStored
<1>1. Init => SInv
  BY InitIInv DEF SInv, Init, NoRollback
<1>2. SInv => FlushedKeyStored
  BY DEF SInv, IInv, Accounting, LossOnlyByRollback, NoRollback, FlushedKeyStored
<1> QED
  BY <1>1, <1>2, SoundNext, PTL DEF Spec

\* Then the row that is marked is the one that is stored.
LEMMA HealthyStored == HInv => FlushedStored
BY DEF HInv, SInv, IInv, TypeOK, Accounting, LossOnlyByRollback, NoRollback, DistinctKeys,
       FlushedStored, InCloud

(* If Postgres executes what it is sent and no two messages of one topic   *)
(* fall in one second, a row marked flushed is in Postgres with its own    *)
(* payload: whatever else fails, however flushes overlap, whenever the     *)
(* agent is killed and restarted.                                          *)
THEOREM NothingLost == ASSUME Healthy PROVE Spec => []FlushedStored
BY HealthyInductive, HealthyStored, PTL

(* Each step of the healthy agent is a step of StoreForward.               *)
LEMMA StepRefines ==
  ASSUME Healthy, HInv, HInv', [Next]_vars
  PROVE  [Promise!Next]_(Promise!vars)
<1> USE DEF HInv, SInv, IInv, TypeOK, sqlite, history, Promise!vars
<1>0. FlushedStored'
  BY HealthyStored, PTL
<1>1. CASE \E t \in Topics, s \in Times, p \in Payloads : InsertRow(t, s, p)
  <2>1. /\ DOMAIN rows' = DOMAIN rows \cup {Len(rows) + 1}
        /\ Len(rows) + 1 \notin DOMAIN rows
        /\ UNCHANGED <<cloud, flushed>>
    BY <1>1 DEF InsertRow
  <2> QED
    BY <2>1 DEF Promise!Next, Promise!Buffer
<1>2. ASSUME NEW c \in Flushers, FlushStep(c)
      PROVE  [Promise!Next]_(Promise!vars)
  <2>1. CASE PgCommit(c)
    <3>1. /\ cloud \subseteq cloud' /\ cloud' \subseteq DOMAIN rows
          /\ UNCHANGED <<rows, flushed>>
      BY <2>1 DEF PgCommit, CommitRows
    <3> QED
      BY <3>1 DEF Promise!Next, Promise!Store
  <2>2. CASE MarkCommit(c)
    <3>1. flushed \subseteq flushed' /\ UNCHANGED <<rows, cloud>>
      BY <2>2 DEF MarkCommit
    <3> QED
      BY <3>1, <1>0 DEF FlushedStored, Promise!Next, Promise!Sync
  <2> QED
    BY <1>2, <2>1, <2>2 DEF FlushStep, ReadUnflushed, PgConnect, PgConnectFails, UpsertOk,
                            UpsertFails, MarkRow
<1>3. CASE Crash
  BY <1>3 DEF Crash
<1>4. CASE Quiet
  BY <1>4 DEF Quiet
<1> QED
  BY <1>1, <1>2, <1>3, <1>4, OtherQuiet, ConstantsAssumption
     DEF Next, MainStep, SyncStep, HandlerStep, Exited, Flushers

(* The healthy agent implements store-and-forward: nothing is un-stored,   *)
(* un-marked or marked before it is stored.                                *)
THEOREM Refinement == ASSUME Healthy PROVE Spec => ImplementsStoreForward
<1>1. Init => Promise!Init
  BY DEF Init, Promise!Init
<1>2. HInv /\ HInv' /\ [Next]_vars => [Promise!Next]_(Promise!vars)
  BY StepRefines
<1> QED
  BY <1>1, <1>2, HealthyInductive, PTL DEF Spec, ImplementsStoreForward, Promise!Spec
=============================================================================
