# A TLA+ verification of nirantara

nirantara collects game events from devices over MQTT. A device enrolls for a
certificate, connects to an edge node's Mosquitto with it and publishes; the
edge agent writes what it receives to SQLite and syncs it to a PostgreSQL in
the cloud. This directory models the program's concurrent and failing parts in
TLA+, checks them with TLC on small instances and proves the central results
for every instance with TLAPS.

- [1. The system](#1-the-system)
- [2. Modules](#2-modules)
- [3. From the code to the models](#3-from-the-code-to-the-models)
- [4. Runs and bounds](#4-runs-and-bounds)
- [5. Fairness](#5-fairness)
- [6. Proofs](#6-proofs)
- [7. Where code and documentation disagree](#7-where-code-and-documentation-disagree)
- [8. Not modelled](#8-not-modelled)
- [9. Plan](#9-plan)
- [10. Running it](#10-running-it)

Paths below are relative to the repository. `PROJECT.json` maps every
definition to the lines it stands for.

## 1. The system

```
 device process            edge node                              cloud
 ┌───────────────┐  mTLS   ┌───────────┐  MQTT  ┌──────────────┐
 │ application   │────────▶│ Mosquitto │───────▶│ nirantara-   │
 │ nirantara-net │ publish └───────────┘  loop- │ edge         │
 └──────┬────────┘                        back  │  main thread │
        │ TLS, POST /enroll                     │   └▶ SQLite  │
        ▼                                       │  sync thread │──▶ PostgreSQL
 ┌───────────────┐  TLS proxy in front          └──────────────┘
 │ enrollment    │───────────────────────────────────────────────▶ AWS KMS
 │ service       │  Sign(digest)
 └───────────────┘
```

### Edge agent: store and forward (`edge/src/buffer.c`, `sync.c`, `main.c`)

*State.* The SQLite file (table `events`, column `flushed`, index on
`(flushed, ts)`), in WAL mode; the table `game_events` of PostgreSQL with its
key `(device_id, topic, ts)`; `g_running`, `g_sync.stop`; the local variables of
each `do_sync` that is under way (the batch, `flushed_ids`, an open Postgres
transaction, an open SQLite transaction).

*Operations.* `on_message` → `buffer_event_insert`; `do_sync` →
`buffer_events_read_unflushed`, `pg_flush`, `buffer_events_mark_flushed`;
`sync_start`, `sync_stop`, `sync_flush_now`; `on_signal`; start and exit.

*Interaction.* The main thread and the sync thread share the file through
separate connections (`do_sync` opens its own each time). The signal handler
calls `sync_flush_now` and so runs a `do_sync` on whatever thread it interrupts.

*Hard.* Two writers and no busy timeout; up to three flushes at once, two of
them possibly on one stack; Postgres acknowledging statements of a transaction
whose `COMMIT` is not looked at; a kill between the two databases' commits;
shutdown while any of this is going on.

*Correct when.* What is marked flushed is stored; nothing is stored twice;
everything buffered is stored in the end and on a clean exit; the agent stops
when told to; concurrent flushes do not wait for each other for ever.

### Edge agent: link to the broker (`edge/src/main.c`)

*State.* The mosquitto client's socket, `g_running`; at the broker the session,
its subscription and its messages without a PUBACK.

*Operations.* `mosquitto_connect`; the loop of `mosquitto_loop` and
`mosquitto_reconnect`; `on_connect` (subscribes), `on_message`; disconnect.

*Hard.* The broker or the connection goes away at any moment, a reconnect fails,
a message is delivered again, the agent restarts.

*Correct when.* Each message reaches the buffer at most once and in the broker's
order; the agent finds back to a subscribed session.

### nirantara-net: MQTT session (`lib/nirantara-net/src/mqtt.c`, `net.c`)

*State.* Per context `mqtt_connected` (atomic), the mosquitto client and its loop
thread; process-wide the files `/tmp/nr_client_cert.pem`, `nr_client_key.pem` and
the CA's.

*Operations.* `nr_connect`, `nr_disconnect`, `nr_destroy` on the application's
thread; `on_connect`, `on_disconnect` and automatic reconnects on the loop thread.

*Hard.* The 5 s wait against a CONNACK that comes late, cancellation of the loop
thread, several contexts over the same files, error paths that must clean up.

*Correct when.* No private key stays on disk, success means the broker accepted,
the blocking calls return.

### nirantara-net: subscriptions and dispatch (`net.c`, `mqtt.c`)

*State.* 16 slots (filter, callback, userdata, active) under `subs_lock`;
`mqtt_connected`; the local slot number of each `nr_subscribe` under way; the
loop variable and the copied pair of `on_message`.

*Operations.* `nr_subscribe` on the application's thread and inside callbacks,
`on_message` on the loop thread, `nr_publish` (a check of the flag and one call).

*Hard.* The callback is called without the lock, between two slots of one scan; a
slot is taken back without it; slots outlive the session they were made in.

*Correct when.* A message reaches every registration that matches it once, with
its own userdata; an acknowledged registration keeps its slot; neither a dispatch
nor a call blocks, also when a callback subscribes.

### Enrollment (`lib/nirantara-net/src/enroll.c`, `keystore.c`, `net.c`; `enrollment/src/*.c`)

*State.* On the device `ctx->keypair`, `ctx->csr`, the certificate; in the service
only the request being handled and a configuration read once.

*Operations.* `nr_generate_keypair`, `nr_enroll` (build the CSR, connect, POST,
read to the end of the stream); `nr_enrollment_serve` (accept, `read_request`,
check, `nr_enrollment_issue_certificate`, KMS `Sign`, verify, reply, close).

*Hard.* The service is single-threaded and has no timeouts but the one on its
call to KMS; the end of a reply and a broken connection look alike to the client;
the device may die and enroll again with another key.

*Correct when.* A device only ever holds a certificate the service issued to it,
for the key it holds; an issued one is stored; `nr_enroll` returns.

### Algorithms

`read_request`, `parse_content_length` and the checks of `handle_client` (`http.c`),
DER lengths and the assembly of the certificate (`enrollment.c`), base64, JSON and
SigV4 (`kms.c`), the allowlist and environment parsing (`config.c`), the buffers a
reply passes through on the device (`enroll.c`, `net.c`). Sequential and pure; what
can be wrong there is a boundary, or a result its reader takes for something else.

### Rest

TLS context (`tls.c`: pins the CA), development CA (`tools/ca/gen_ca.sh`), build
and containers. The repository has no tests.

## 2. Modules

| module | role | proofs |
|---|---|---|
| `StoreForward` | abstract specification: what the edge agent promises of its buffer | – |
| `EdgeSync` | `buffer.c`, `sync.c`, life cycle of `main.c`; implements `StoreForward` | `EdgeSyncProofs`, `EdgeLifecycleProofs` |
| `MC_EdgeSync` | the sets of failures the TLC instances of `EdgeSync` allow | – |
| `OrderedFeed` | abstract specification: what the agent makes of the broker's stream | – |
| `EdgeLink` | the agent's MQTT client against Mosquitto and the network; implements `OrderedFeed` | `EdgeLinkProofs` |
| `NrSession` | `nr_connect` / `nr_disconnect` / `nr_destroy`, several contexts | `NrSessionProofs` |
| `NrDispatch` | `nr_subscribe`'s slots and lock against `on_message` and its callbacks | `NrDispatchProofs` |
| `Enrollment` | devices, enrollment service and KMS, end to end | `EnrollmentProofs` |
| `CText` | the C string functions the algorithms share | `EnrollTextProofs` |
| `HttpRequest` | `read_request` and the checks of `handle_client`, by bytes | `EnrollTextProofs`, `EnrollCodeProofs` |
| `DerEncoding` | DER lengths and `assemble_certificate_der`, with a reference decoder | `EnrollCodeProofs` |
| `KmsClient` | base64, the JSON body and answer, the SigV4 request | `EnrollCodeProofs` |
| `EnrollConfig` | environment, allowlist and their use | `EnrollTextProofs` |
| `EnrollReply` | `send_response` and the device's buffers for the reply | `EnrollTextProofs` |
| `MC_Enrollment` | composes `Enrollment` with the five algorithm modules for TLC: their inputs, the references they are compared with, the properties | `EnrollTextProofs`, `EnrollCodeProofs` |

`EdgeLink` and `EdgeSync` meet in `on_message`: the link's `buffered` is the
sequence of `EdgeSync`'s `InsertRow`s, `May("busy")` its lost inserts. They are
separate modules because nothing flows back from the buffer to the link. The two
abstract specifications fit together in the same place: `OrderedFeed`'s `Take` is
`StoreForward`'s `Buffer`, so that together they say what becomes of a message
between the broker and the cloud.

Definitions ending in `Mutant` are deliberately wrong versions of the definition
that follows them. They are used by nothing; putting one in the place of the
definition must make TLC find the property violated that `PROJECT.json` names for
it, which shows that the property depends on that line of the code.

## 3. From the code to the models

### EdgeSync

| model | code |
|---|---|
| `rows`, `flushed` | the `events` table and its `flushed` column; ids are indices because the table is `AUTOINCREMENT` and never shrinks |
| `wlock` | SQLite's one write lock, held from a connection's first write to its commit |
| `cloud`, `txn`, `tx` | committed rows of `game_events`; each open transaction's rows and its state (`aborted` after an error, `lost` after a broken connection) |
| `pc`, `todo`, `acked`, `updated` | one `do_sync`: where it is, what its current loop has left, `flushed_ids`, the marks in its open SQLite transaction |
| `Flushers` | the activations of `do_sync` there can be: the sync thread's, and one per signal |
| `stack`, `armed` | which handlers run on which thread, which signals still have one. The project is built as strict C11, where glibc's `signal()` resets the handler on delivery and masks nothing |
| `main`, `sync`, `running`, `stop` | the two threads, `g_running`, `g_sync.stop` |
| `received`, `rolledBack`, `boots` | history, read by properties and bounds only |

A step is what no other thread, database client or crash can divide: one SQLite
or Postgres statement, one flag. `PgConnect` is `PQconnectdb`, `PQprepare` and
`BEGIN`; `UpsertOk` / `UpsertFails` are one `PQexecPrepared`; `PgCommit` is
`COMMIT` and what follows it up to the first `UPDATE`; `MarkRow` is one `UPDATE`,
`MarkCommit` its `COMMIT`. Rows are visited in the batch's order (`IsFirst`). An
upsert that meets an uncommitted row of the same key waits (`UpsertOk` is not
enabled): that is how Postgres treats a unique index, and the reason for
`NoUpsertDeadlock`. Environment failures are constants (`Faults`), so that a run
or a theorem can say which of them it assumes away:

| fault | failing call |
|---|---|
| `open`, `oom` | `buffer_init` in `do_sync`; an allocation in the row loop, which cuts the batch short |
| `connect` | `PQconnectdb` or `PQprepare` |
| `reject`, `statement`, `commit` | Postgres refuses a row; the connection breaks during a statement, or around `COMMIT` |
| `mark`, `insert` | an `UPDATE` or its `COMMIT`; the `INSERT` |
| `broker` | the first `mosquitto_connect` |

`rows[i].topic` stands for the topic as it is read back (`BUFFER_MAX_TOPIC` cuts
long ones), and a payload is one of three kinds: JSON, refused by Postgres'
`jsonb` column, or NULL (refused by `buffer_event_insert`). The payload is passed to libpq
without a terminator (`sync.c:84`); what Postgres makes of the bytes after
it is undefined, and `reject` allows the worst of it: any row may be refused.

### EdgeLink

`main` follows `main()`'s connect / loop / backoff; `link` is the client's socket;
`inbox` holds the PUBLISH packets the client has not read, `unacked` the broker's
messages without PUBACK, `subscribed` whether the session has the subscription.
The client asks for a clean session (`CleanSession`), so a new connection and a
lost one both empty `unacked` and the subscription; so does the death of the agent's
process (`Kill`), which leaves the buffer alone. `LoopFails` is
`mosquitto_loop` returning an error, after which libmosquitto has closed the
socket; `NoConn` is the same call without a socket: `MOSQ_ERR_NO_CONN` is the one
error `main.c:206` does not reconnect for, which is why it changes nothing.
`request` is the SUBSCRIBE of `on_connect`: on its way, or `"failed"`. It fails in
`mosquitto_subscribe` (`OnConnect`, second disjunct, `main.c:61`) or at the broker, whose
negative SUBACK nobody reads (`SubscribeDenied`); only another link leads out of that.

### NrSession

`app` is where a context's application thread is inside the call it makes,
`result` what its last `nr_connect` returned, `connected` is `mqtt_connected`,
`thread` / `link` / `closing` the state of libmosquitto's loop thread. `files` says
whose credentials each of the three files holds. `mosquitto_connect` loads them
and refuses a certificate and a key that do not match (`CanOpen`). A
`mosquitto_loop_start` that fails (fault `thread`) leaves the link `mosquitto_connect` has opened
without a thread. `WaitTimeout`
is only possible where the 5 s can pass: the link is down, or the broker is slow.
The application may call anything in any order `net.h` allows from one thread per
context; `nr_publish` changes nothing here.

### NrDispatch

`pc` / `mine` are each caller's place in `nr_subscribe` and its local `slot`; callers
are the application's thread and `"loop"`, which calls only inside a callback.
`disp` is `on_message`: where it is, its `i`, and the pair it has copied before it
unlocks. `subs` and `lock` are the table and its mutex. A step ends where the other
thread can see a difference: at lock and unlock, at the call of
`mosquitto_subscribe`, at the write that takes the slot back without the lock
(`Undo`). Callback and userdata are named by the number of the call that
registered them, so that a pair of different calls shows. A filter is the set of topics it
matches. `Long` are the filters of 256 bytes and more: `mosquitto_subscribe` gets
them whole, the slot what `snprintf` leaves of them, which may match any topics (`Kept`).
`requested`, `granted` and
`inbox` are the network and the broker's session; `Drop` empties them and leaves
`subs` as it is.

### Enrollment

A device is `keypair`, `csr`, `certOut` and the connection its `nr_enroll` reads
from. A connection counts the pieces of its request and reply that have arrived:
for the reply, part of the header block, everything up to `BEGIN CERTIFICATE`,
and the rest, because these are what `nr_enroll` tells apart. A certificate may be too long
for the caller's buffer or for the context's (fault `mem`): `nr_enroll` then returns
`NR_ERR_MEM`, in the second case with the caller's buffer written (`EnrollReturns`, `Store`);
`EnrollReply` computes which lengths that happens for. `stage` / `serving`
are the service's one thread. `Issue` covers the order of the checks in
`nr_enrollment_issue_certificate`; the CSR's signature is verified there, so that a
peer's request carries a key it owns, and `KmsSigns` includes the verification of the
assembled certificate. Certificates are records of the key they certify, issued to
`conns[c].from`; X.509 itself is OpenSSL's. Peers other than devices send another
request or no valid header block.

### The algorithms of an enrollment

Each is a set of operators named after the C functions. What `Enrollment` treats as one
step is computed here: `RequestComplete` / `RequestFails` and the first checks are
`HandleClient`, `MayEnroll` is `Load` and `MayIssue`, the step to KMS is `SignRequest` and
`SignResponse`, `KmsSigns` ends with `AssembleCertificateDer`, and `EnrollReturns` is
`NrEnroll`. Texts are sequences of characters in which only what a function can
stumble over is single: CR, LF, blanks, digits, quotes, backslashes, colons; the
name of a header or of a JSON field is one character, and so is a request line, of which there
are several that begin with `POST /enroll ` (`EnrollLines`). `strtoul` negates modulo `ULONG_MAX + 1`
(`StrToUl`); `ULONG_MAX` and `LONG_MAX` are scaled to five digits, beyond every limit they
are compared with. `REQUEST_MAX_BYTES`,
`DEVICE_ID_MAX_BYTES`, `ENROLL_BUF_SIZE` and `NR_MAX_PEM_LEN` are constants, scaled down
with their order kept. SHA-256 and HMAC are free constructors, so two
signatures are equal only if everything that went into them is.

`MC_Enrollment` compares them with references written from the other side: a request
with what its composer meant, whatever pieces it arrives in; DER with a decoder;
the signed request with Signature Version 4 as KMS recomputes it from what arrived and
the body with a JSON parser; the allowlist with "the id is on a line, alone"; the stored
certificate with the one sent. These comparisons are constant formulas, which TLC
evaluates once; the invariants tie each to the states in which its result counts.

## 4. Runs and bounds

| run | instance | shows |
|---|---|---|
| `edge_core` | 2 messages, 2 seconds, batch of 2, SIGINT and SIGTERM on either thread, 1 crash, every failure but those of an open Postgres session | `FlushedStored`, `NoUpsertDeadlock`, `ImplementsStoreForward` |
| `edge_faults` | 2 messages that may share a key, any payload, SIGTERM on either thread, 1 crash, every failure | `TypeOK`, `LossOnlyByRollback`, `DeliveredOnce` |
| `edge_liveness` | 3 messages, batch of 2, SIGTERM on the main thread, 1 crash, Postgres and broker sometimes away; deadlock checked | `CleanExitStored`, `EventuallyStored`, `ShutdownCompletes` |
| `link` | 5 messages, 3 faults (drop, broker stop, refusal, failed or denied subscribe, failed insert, kill), signal, 2 starts | `TypeOK`, `BufferedInOrder`, `ImplementsFeed`, `DropRecovers` |
| `session` | 2 contexts, 2 `nr_connect` each, 1 lost or refused link, failing files and threads, slow broker | `TypeOK`, `KeyFileGone`, `NoFileLeft`, `SuccessIsAcknowledged`, `DisconnectReturns` |
| `dispatch` | 2 slots, 3 calls of `nr_subscribe` by one thread and inside callbacks, 3 filters, two overlapping and one too long for a slot, 2 messages, 1 lost connection | `TypeOK`, `RegistrationsHeld`, `CalledAsRegistered`, `NoneMissed`, `CallsReturn` |
| `enroll` | 2 devices, one allowed, 2 keys each, 2 connections, two kinds of other peers, breaks, crashes, local failures, buffers too small, a service that exits | `TypeOK`, `StoredCertIssued`, `IssuedIsStored`, `CertFitsKey`, `EnrollCompletes`; `HandledAsMeant`, `CertificateDecodes`, `RequestUnderstood`, `SignatureRead`, `IssuedAsConfigured`, `StoredAsSent` |
| `edge_aborted`, `edge_dbpath`, `edge_signals`, `link_restart`, `enroll_unverified` | the smallest instance of each disagreement of section 7 | a counterexample |

Why the bounds are enough:

- *Two messages in edge_core and edge_faults.* Everything the flushes can do to
  each other is about a pair: two rows of one batch taken in two orders, two rows
  of one key, one row in two transactions. For more rows every safety property of
  these runs is proved (section 6).
- *Three messages, batches of two in edge_liveness.* The third row is outside the
  first batch: a flush that does not clear its batch starves it.
- *One crash.* A restart leads to a state that differs from an initial one in the
  tables only; the second run of the agent starts with any table contents two or
  three messages produce.
- *Five messages, three faults in link.* Enough for messages read before, between and
  after two reconnects with another fault in one of them.
- *Two contexts, two calls of nr_connect.* The shared files make pairs interfere;
  a second call shows what a first one left behind.
- *Two connections in enroll.* One that is served while the other queues, or one
  that is retried; longer queues are the same step again because the service
  forgets everything in between.
- *Two slots, three calls in dispatch.* One call too many for the table, one slot taken
  back and taken again during a scan, and a message on either side of it. The
  scan treats every slot alike; a third slot adds only another of the same.
- *Requests of at most a few bytes more than 20.* The limit falls inside the header block,
  at its end, inside the body and behind it; Content-Length is missing, empty, too small,
  too large, no number, negative (also beyond the limit and coming round to 1), or given twice;
  three request lines; the request comes whole, in two or three pieces cut
  anywhere, and byte by byte.
- *DER lengths* up to the third length byte, with every value around 127/128, 255/256 and
  65535/65536. *Signatures* of one to four bytes over 0, 48, 255: every padding, twice.
  *Key ids* of up to three characters over `a : / " \`. *Allowlists* of up to two lines out of
  seven, unreadable files, and texts for port and lifetime around zero, the limits and the sign. *Certificates* from one byte to beyond the read
  buffer, into output buffers of every size up to there.

`CHECK_DEADLOCK FALSE` stands where the instance may stop: no message is left to send,
no call to make. `edge_liveness` leaves it on: there only a process that has
exited for the last time may stop (`Exited`).

`TypeOK` in `Enrollment` also says that the service works on an open connection
exactly while it is handling one. `CleanExitStored` excepts what the final flush
found no Postgres for, and buffers longer than a batch: `sync_thread_fn` flushes
once. `DropRecovers` excepts an agent that has lost its socket in a failed
reconnect and one whose subscribe failed on the link it has (`GivenUp`), which
section 7 describes. `NoneMissed` and the topics in `CalledAsRegistered` are about filters that fit
a slot. `IssuedIsStored` lets `nr_enroll` fail with `NR_ERR_MEM` only where a buffer may be too
small. `DisconnectReturns` excepts the case where the link is already down, for which the call
hangs, and `SuccessIsAcknowledged` a success on an earlier call's CONNACK without an
`nr_disconnect` in between (section 7).

## 5. Fairness

- *EdgeSync.* Each thread and each handler is scheduled (weak fairness of
  `MainStep`, `SyncStep`, `HandlerStep`). A killed agent is started again (`Boot`),
  as a service manager does. `PgConnect` is strongly fair for each activation: a
  Postgres that is tried every interval accepts a connection in the end; without this
  nothing can be promised. No message, signal, kill or failure is fair. Upserts,
  commits and marks need no assumption of their own; in `edge_liveness` no
  statement of an open session fails, because such a row stays for ever (section 7).
- Liveness assumes that the kernel delivers signals to the main thread, as Linux
  does when it can (`SignalThreads = {"main"}`). A handler that interrupts the sync
  thread inside its Postgres transaction waits for a transaction further down its
  own stack, and the agent does not stop, after a single SIGTERM; the safety runs
  include that case.
- *EdgeLink.* The agent is scheduled, packets on an open link arrive, a stopped
  broker and a stopped agent are started again.
- *NrSession.* Both threads of a context are scheduled; a link that can be opened is
  opened and a CONNACK that is due arrives. Nothing obliges the application to call.
- *NrDispatch.* Both threads are scheduled and callbacks return; the mutex need not be
  fair, because a thread that waits for it waits for one short critical section.
  Nothing obliges the broker or the network.
- *Enrollment.* Devices and the service are scheduled and an unbroken connection
  delivers. KMS owes no answer: that `nr_enroll` still returns is
  `CURLOPT_TIMEOUT`'s doing. Nothing bounds a peer that connects and sends nothing; with
  the peer `"silent"` `EnrollCompletes` does not hold.

## 6. Proofs

Every theorem holds for all values of the constants that satisfy the module's named
assumption: any number of messages, topics, contexts, slots, calls, devices, connections,
restarts, and any of the failures. In one table:

| module | theorem | statement | further assumption |
|---|---|---|---|
| `EdgeSyncProofs` | `TypeCorrect` | `Spec => []TypeOK` | – |
| | `NoOtherLoss` | `Spec => []LossOnlyByRollback` | – |
| | `IdempotentFlush` | `Spec => []DeliveredOnce` | – |
| | `KeysStored` | `Spec => []FlushedKeyStored` | `Sound` |
| | `NothingLost` | `Spec => []FlushedStored` | `Healthy` |
| | `Refinement` | `Spec => ImplementsStoreForward` | `Healthy` |
| `EdgeLifecycleProofs` | `NoDeadlock` | `Spec => []NoUpsertDeadlock` | `OnePerSecond` |
| | `NothingLeftBehind` | `Spec => []CleanExitStored` | `Sound`, `ReadsAll` |
| `EdgeLinkProofs` | `TypeCorrect` | `Spec => []TypeOK` | – |
| | `BufferOrdered` | `Spec => []BufferedInOrder` | – |
| | `FeedRefinement` | `Spec => Feed!Spec` | – |
| `NrSessionProofs` | `TypeCorrect` | `Spec => []TypeOK` | – |
| | `KeyRemoved` | `Spec => []KeyFileGone` | – |
| | `FilesRemoved` | `Spec => []NoFileLeft` | – |
| | `SuccessAcknowledged` | `Spec => []SuccessIsAcknowledged` | – |
| `NrDispatchProofs` | `TypeCorrect` | `Spec => []TypeOK` | – |
| | `RegistrationsKept` | `Spec => []RegistrationsHeld` | – |
| | `RightCallbacks` | `Spec => []CalledAsRegistered` | – |
| | `AllCalled` | `Spec => NoneMissed` (an action property) | – |
| `EnrollmentProofs` | `TypeCorrect` | `Spec => []TypeOK` | – |
| | `OnlyIssuedStored` | `Spec => []StoredCertIssued` | – |
| | `NothingDiscarded` | `Spec => []IssuedIsStored` | – |
| | `FittingKey` | `Spec => CertFitsKey` (an action property) | – |
| `EnrollTextProofs` | `CertificateStored` | a certificate of any length that arrives whole is stored as sent, or refused; a cut reply or another status stores nothing | – |
| | `RepliesStored` | `Spec => []StoredAsSent` | the read buffer holds the header block and a certificate as long as the context takes |
| | `AllowlistNames` | `LoadAllowlist` takes the ids alone on a line, of any file | – |
| | `LoadedAsConfigured` | a service that starts has a port, a lifetime and an allowlist as configured, whatever the environment and the file | – |
| | `IssuedToConfigured` | `Spec => []IssuedAsConfigured` | – |
| | `PiecesDoNotMatter` | what `read_request` returns depends on the bytes, not on the pieces they come in | – |
| | `RequestJudged` | a request that was taken is judged by its bytes: none fails for its length | – |
| `EnrollCodeProofs` | `HeaderDecodes` | the DER header of parts of any lengths is as long as allocated, minimal, and decodes | the lengths add up to less than 2^40 (each is an `int`) |
| | `CertificatesDecode` | `Spec => []CertificateDecodes` | – |
| | `Base64RoundTrip` | decoding an encoding gives the bytes back, for all bytes | – |
| | `SignatureIsRead` | `SignResponse` returns the bytes signed with, from any answer | nothing before the field is its name |
| | `SignatureIsKept` | `Spec => []SignatureRead` | – |
| | `BodyReadBack` | a JSON parser reads from `BuildJsonBody` four fields, key id and message as given, type and algorithm, for every key id | no quote or backslash in the message |
| | `KmsFindsSignature` | KMS accepts `SignRequest`'s signature, for every key, digest and moment, with and without a token | KMS has the secret and the region |
| | `RequestReadBack` | KMS reads the configured key, the digest, its type and the algorithm from the body, and nothing else | – |
| | `RequestIsUnderstood` | `Spec => []RequestUnderstood` | – |
| | `RequestHandled` | `HandleClient` does with any composed request, cut anyhow, what its composer means | names, request line and values have no end of line; each `Content-Length` means what `Says` says |
| | `RequestsAreHandled` | `Spec => []HandledAsMeant` | – |

`Sound` says that Postgres executes the statements of a session it has accepted; `edge_aborted`
shows that `KeysStored` does not hold without it. `Healthy` adds
`OnePerSecond`: no topic has two messages in the same second. `ReadsAll` says that
`NR_DB_PATH` is the compiled-in path and that opening and reading the buffer does not fail.
Connections to Postgres may fail under all of them, and so may inserts and marks.

In the code `ENROLL_BUF_SIZE` is 16384 and `NR_MAX_PEM_LEN` 8192, which is what `RepliesStored`
asks for. `RequestAssumption` has the request limit below `ULONG_MAX`, as 131072 is.

Each proof about a state machine is by an inductive invariant, the properties and what they need to be carried
from step to step. TLC has checked each of these invariants on the instance of its run.

### EdgeSync: what is marked is stored

`LossOnlyByRollback` speaks of marked rows only, but a row is
marked because it is in `flushed_ids`, and it is there because an upsert was
acknowledged before `COMMIT`. `Accounting` follows that path backwards:

- `MarksAcked`: marking starts after `COMMIT` and touches acknowledged ids only;
- `AckedAccounted`: an acknowledged id has its key stored, known to be rolled
  back, or in the activation's own open transaction;
- `TxnOpen`: only an open transaction has uncommitted rows, so that an aborted or
  finished one has nothing left to roll back unseen.

`IInv == TypeOK /\ Accounting /\ DeliveredOnce` is inductive. `DeliveredOnce` is part
of it in the form that includes open transactions, because `COMMIT` adds all of one at
once. Steps that commit, roll back, acknowledge and mark nothing are `Quiet`, and one
lemma (`OtherQuiet`, `QuietAccounting`, `QuietDelivered`) disposes of them; the
remaining ones (`UpsertOk`, `UpsertFails`, `PgCommit`, `MarkRow`, `MarkCommit`,
`InsertRow`, `Crash`) have a lemma each. A crash empties every transaction
and every `flushed_ids` together, which is why the account survives it.

`SInv` adds, under `Sound`, that nothing has been rolled back; then an accounted key is a
stored one. `HInv` adds, under `Healthy`, that keys are distinct; then a row whose key is
stored is stored itself. The refinement maps `buffered`, `stored`, `synced` to the row
ids, `cloud` and `flushed`; `PgCommit` is `Store`, `MarkCommit` is `Sync`, `InsertRow`
is `Buffer`, all else stutters.

### EdgeSync: flushes do not block each other, and the last one leaves nothing

`DInv == TypeOK /\ Lifecycle /\ BatchOrder` says how the agent stops and where a flush is:

- `Stopping`: the sync thread is in its final flush or has ended only when main has left its
  loop, and main has ended only after the sync thread;
- `NoHandlers`, `Entered`: a thread that has ended runs no handler; an activation
  of `do_sync` that starts was in none before (a handler that is installed is not running);
- `BatchOrder`: a flush has uncommitted rows only while it upserts, and all of them come
  before (`ORDER BY ts`) everything it has still to upsert.

For `NoUpsertDeadlock`: if `c` waits for `d`, the row `c` is at has its key in `d`'s
transaction; with distinct keys it is that row, so by `BatchOrder` it comes before the row
`d` is at. In a circle the rows would come before each other, which a strict order does
not allow (`BeforeIsOrder`). `OnePerSecond` is needed: section 7 has the circle TLC finds
without it.

For `CleanExitStored`, `FinalBatch` follows the rows through the final flush: once it has read
its batch, every row of the table is in Postgres, in what the batch has left, or in the flush's
own transaction; once it marks, every row is in Postgres. It starts to hold because a
batch with room for all rows leaves none out (`WholeBatch`, by cardinality) and because what is
already marked is stored (`SInv`). It is kept because `Stopping` rules out an insert and
`Sound` a rollback; and when main has ended, `Entered` and `BatchOrder` say that no transaction is
open any more.

### EdgeLink

`IInv == TypeOK /\ InOrder /\ SubscribedUp`. `InOrder`: `inbox` and the buffer are increasing,
and everything in `inbox` is newer than everything inserted; without the last part
`OnMessage` could insert a message behind a newer one. It is kept because a failing link only
cuts off the end of `inbox` (`LossOrder`), and because a clean session never hands out again what was
handed out before (`OpenLink`). `SubscribedUp`: a subscription is in force only on a link that is
up, and before it comes into force `inbox` is empty. The refinement needs it: `Subscribe` is
`Open`, which brings back nothing of an earlier subscription; `Publish` is `Accept`; `OnMessage` is
`Take`, or `Miss` where the insert fails; everything that ends a link is `End`.

### NrSession

`KeyIsHeld`: while the key file exists some context is at a place in `nr_connect` that has its
cleanup before it. Each step out of those places either leads to another one or is `Cleanup`, which
removes the file for all. `FlagAcknowledged`: the flag is set only after a CONNACK since the
last `nr_disconnect`. `NoFileLeft` and `SuccessIsAcknowledged` are then inductive themselves.

### NrDispatch

The table, the calls under way and the dispatch refer to each other, and each part of `IInv`
is one such reference:

- `SlotsOwned`: an active slot belongs to one call, which succeeded or is about to be
  decided; `SlotsTaken`: the caller in between knows that slot, so that `Undo` (without
  the lock) takes back its own and no other;
- `CallsUnderWay`, `Unregistered`: calls under way are different ones without a result, and one
  that has no slot yet is in no slot and has not been called;
- `PairsRegistered`: the pair `on_message` has copied belongs together and was not
  called for this message; the slot of a called one lies behind `i`. This is what
  `CalledAsRegistered` needs when a slot is taken back and taken again during the scan;
- `DueChosen`: of what the message is owed to, everything behind `i` that fits its slot has been
  chosen, so that nothing of it is missing when `i` reaches the end (`NoneMissed`);
- `LoopThread`: only a callback subscribes on the loop thread.

### Enrollment

`KeysGenerated` and `ConnectionKeys` tie the key a device's connection carries to the key pair
the device holds while it reads from it: a device that died and generated another pair
reads from another connection. `RepliesIssued`: a reply of 200 is one to a certificate that was
issued, which only a device on the allowlist gets. `ErrorsFinal`: a device gives up
an unbroken connection with an error other than `NR_ERR_MEM` only after the service has closed it
with another reply.
`IInv` is these, `TypeOK` and `StoredCertIssued`.

### The algorithms of an enrollment

The properties of `MC_Enrollment` compare results on the inputs TLC tries; the theorems of these
modules are about every input, and the run's properties follow from them.

Decimal numbers, DER lengths, the end of a JSON string and `read_request` are recursive
functions. The library's induction theorems cannot be applied here, so the modules prove
what they need of them by the least counterexample: a set of numbers
that has 0 and with each number the next is `Nat` (`AllNumbers`), a recursion that descends has a
solution (`RecursionExists`, from `PartialsExist` and `PartialsAgree`), and what holds at its stops
and is passed on upwards holds everywhere (`Induction`).

- *Replies.* `HeaderFound` and `BeginFound` say where the two searches of `nr_enroll`
  stop in a reply, `ReplyBytes` and `EndBytes` what stands there, and `NrEnrollCases` which of its five
  alternatives that makes it.
- *Configuration.* `TrimKeeps` says that a trimmed line is the id alone on it; `DecimalIs` ties
  `strtoul`'s loop to the number, so that the bounds `config.c` checks are bounds on what was written.
- *Requests.* What `read_request` has seen after `total` bytes depends on them alone
  (`ReceivedIs`). A search finds in the part that has arrived what it finds in the whole request, if
  it lies in that part (`FindPrefix`), so that the end of the headers is found with its
  last byte (`HeadersPrefix`) and `Content-Length` is read once and right.
- *DER.* `Rest(n, j)` is a length without its last `j` bytes. Each byte taken off leaves one less for
  `der_len_size` to count (`BytesLeft`), and a decoder that reads the bytes from the
  left has `Rest(n, j)` before the last `j` of them (`BytesMakeNumber`).
- *Base64.* `WordIs` is the whole of it for one group: three bytes can be got back from four
  numbers of six bits. `EncodedIs` and `DecodedIs` say that both functions work group by group, with
  zeros behind the end; `PaddingIs` counts the zeros.
- *KMS's answer.* `FieldAt` says at which positions the parts of a field stand, `FieldRead` that
  `json_get_string` then returns what is between the quotes, and `AnswerRead` puts the field into
  each place of the answer. Base64 has no character JSON escapes (`CharsArePlain`).
- *The request to KMS.* KMS's parser is a recursive function from positions to what is read from
  there (`StringAtIs`). Read backwards from the closing quote, it gives back one character of
  the key for each one or two that `JsonEscape` wrote, which makes `BodyReadBack` an
  induction over positions. For the signature, `Covers` says that names, values and headers are written
  in one order: the list that is hashed, the list of names and the set sent then agree
  header by header, with a token or without (`KmsFindsSignature`). `BodyReadBack` assumes a message without
  quotes; the digest's base64 is one (`RequestReadBack`).
- *The request to the service.* `Composed` is a request line, headers and a body; `Laid` says
  where each stands in the bytes (`EncodedLaid`), at positions that rise with the headers
  (`PositionsAre`). The only ends of lines up to the blank line are those the composer put there
  (`LineEnds`), so that the first blank line is his even if the body has others
  (`HeadersEndIs`), and a name found at the start of a line is a header's, the first of that
  name (`HeaderValueIs`). With `FindPrefix` this holds in what `read_request` took too
  (`HeadersFound`, `ValueFound`), and `RequestHandled` goes through the answers in the order of the code.
  `LengthsSay` computes what `strtoul` makes of each `Content-Length` of the run: signs, blanks,
  leading zeros, an empty value.

### What is only model-checked

- *Liveness*: `EventuallyStored`, `ShutdownCompletes`, `DropRecovers`, the fairness of
  `ImplementsFeed`, `CallsReturn`, `DisconnectReturns`, `EnrollCompletes`. TLAPS does not handle
  fairness and `ENABLED`.
- *The expected violations*: each is a counterexample, there is nothing to prove.

## 7. Where code and documentation disagree

Shown by a run, with a counterexample of a few steps:

| run | the code | the documentation |
|---|---|---|
| `edge_aborted` | `sync.c:110` drops the result of `COMMIT`: after one failed upsert Postgres rolls back, and the rows acknowledged before it are marked flushed | `docs/architecture.md:63`: "Successfully synced SQLite rows are marked as flushed." |
| `edge_dbpath` | `sync.c:129` opens the compiled-in path whatever `NR_DB_PATH` says | `README.md:58` documents `NR_DB_PATH`; `docs/architecture.md:61`: "A sync thread reads unflushed SQLite rows" |
| `edge_signals` | SIGINT and SIGTERM do not mask each other; the second handler's flush waits for the first one's transaction, below it on the same stack | `edge/include/edge/sync.h:35`, `:38`: "Blocks until done", "Force an immediate flush (called from SIGTERM handler)" |
| `link_restart` | after one failed `mosquitto_reconnect` the loop spins without a socket for ever | `docs/architecture.md:119`: "Edge buffering survives broker restarts" |
| `enroll_unverified` | `enroll.c:222` looks for the `BEGIN CERTIFICATE` line only; a reply cut short is stored as a success | `.cursor/rules/security.mdc:95`: "Verify the returned cert is signed by the pinned CA before storing" |

Contained in the models and met while writing them, without a run of their own:

- Two messages of one topic in one second have one key; `DO NOTHING` drops the second,
  and it is marked flushed. (`FlushedStored` with `OnePerSecond = FALSE`; a clock set
  back has the same effect.)
- Two rows of one key also let flushes wait in a circle. A handler's transaction holds row
  1's key and wants row 2's, the sync thread's holds row 2's and wants that of row 3, which
  is row 1's: row 1 had been marked after a `COMMIT` that was rolled back, so the sync thread's
  batch does not start with it. (`NoUpsertDeadlock` with two topics, one second, fault
  `commit`, three rows. Postgres aborts one of the two after `deadlock_timeout`.)
- No busy timeout is set. An `INSERT` while the sync connection holds the write lock is
  `SQLITE_BUSY`, logged, and the message is gone (`OnMessage`, second disjunct).
- A row Postgres refuses is never skipped. A full batch of such rows at the head of the
  table starves every later row (`EventuallyStored` with the payload `"notjson"`).
- With a clean session, what the broker holds for the agent is discarded at every
  disconnect, against `.cursor/rules/project.mdc:43` ("without data loss"). (`OpenLink` and
  `LoseLink` empty `unacked`; the properties of `link` allow it as a gap.)
- A subscribe that fails in the edge agent's `on_connect` is logged, a negative SUBACK not even
  that (`main.c:60-63`): the agent stays connected and receives nothing until the link breaks.
  (`LinkRecovers` with the fault `"subscribe"` alone.)
- `nr_disconnect` on a session whose link is down skips `mosquitto_disconnect` and then
  waits for a loop thread that goes on reconnecting (`mqtt.c:206`; `StartDisconnect`).
- `nr_connect` removes the key file and keeps the others "for reconnect"
  (`mqtt.c:197-199`); a reconnect needs the key as well and fails (`CanOpen`).
- Contexts of one process share the temp files: one may connect with another's
  certificate.
- A CONNACK between the last look at the flag and the cancellation of the loop thread
  leaves the flag set; the next `nr_connect`, without an `nr_disconnect` in between,
  reports success before the broker has answered (`CancelLoop`, `WaitConnected`).
- A callback may be called after its `nr_subscribe` has returned an error: `on_message`
  copied it before `Undo` (`net.c:193`). Callback and userdata still belong together
  (`CalledAsRegistered`).
- The slots survive a reconnect, the broker's subscriptions do not (`mqtt.c:28` does not
  subscribe again); an application that subscribes after every `nr_connect` fills the table
  and then gets each message once per slot (`NrDispatch`: `Drop`, `TableFull`).
- A topic filter of 256 bytes and more is subscribed in full (`net.c:189`) and stored cut
  (`net.c:183`): the broker sends what the slot does not match, although `nr_subscribe` has
  returned `NR_OK`. (`NoneMissed` without `Whole`: ten steps, in the instance of `dispatch`.)
- `nr_enroll` may return `NR_ERR_MEM` with the certificate already in the caller's buffer
  (`net.c:122`; `EnrollReturns`, second disjunct, and `NrEnroll`, third alternative).
- An empty `Content-Length` is a 0 (`http.c:139`; `StrToUl`), and an escaped `/` in a JSON answer
  would not be unescaped (`kms.c:218`); KMS sends neither.
- An allowlist whose lines are all unusable (`a # comment`) lets the service start and refuse
  everybody (`config.c:199`).

## 8. Not modelled

- *Async-signal safety.* `on_signal` uses stdio, malloc, SQLite and libpq. If the
  interrupted code holds one of their locks the agent hangs. That is below the
  granularity of statements, and needs no interleaving of the agent's own steps.
- *Power loss.* With `synchronous=NORMAL` the last commits of a WAL database may be
  lost with the machine; `Crash` is the death of the process.
- *Start-up failures* before the sync thread runs: the process prints and exits, nothing
  has been touched.
- *External programs.* libmosquitto, Mosquitto, SQLite, PostgreSQL, KMS, TCP and the
  TLS proxy are modelled by what the code relies on; in `PROJECT.json` they are marked
  external.
- *TLS and key storage* (`tls.c`, PEM handling of `keystore.c`): straight sequences of
  OpenSSL calls without state of their own.
- *X.509 construction and verification* (`build_unsigned_cert`, `verify_issued_cert`,
  `der_to_pem`): OpenSSL's; a failure there is `Issue`'s or `KmsFails`' refusal.
- *The sizes of the buffers in `kms.c`* and the arithmetic of `cert_ttl_days`, which is beyond
  TLC's integers.
- *Loss of a certificate's connection without notice*: a half-open TCP connection on which `nr_enroll`
  reads for ever, as on a service that hangs behind a silent peer (section 5).
- *NUL bytes in requests and replies*, which end a C string early.
- *`nr_publish`, `nr_get_csr_pem`, `nr_get_private_key_pem`, `bind_listener`*: parameter checks
  around one call.
- *Signals during start-up* of the edge agent, before the sync thread runs.
- *CA script, build, containers*: nothing runs concurrently or keeps state.

## 9. Plan

The models are complete as far as section 8 goes, and every invariant and every action
property of the passing runs is a theorem; liveness is checked by TLC (section 6). A change
to the code starts at the module section 2 names for its file: the definition and its lines in
`PROJECT.json`, the runs of the module, then its proofs. What the
project would gain most from is a model of a part section 8 leaves out: the start-up of the edge
agent, with a signal in it.

## 10. Running it

```
tlc -config EdgeSync_core.cfg MC_EdgeSync      # each run: module and cfg in PROJECT.json
tlapm EdgeSyncProofs.tla                       # each module whose name ends in Proofs
```

On two cores `enroll` takes about two minutes, `edge_core`, `edge_liveness` and `dispatch` one
each, the others less than half a minute. `EnrollCodeProofs` takes about six minutes to prove,
`EnrollTextProofs` two, the other proofs as much together.
