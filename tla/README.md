# Verification of the SRT Pi gateway

TLA+ models, TLC runs and TLAPS proofs for the Sail Race Tracker gateway
(`pi-gateway/`): the process on a Raspberry Pi that stores the position fixes a
base node receives, forwards them to the cloud, and programs the base node with
the race the cloud has armed.  Paths below are under
`pi-gateway/src/srt_gateway/` unless they say otherwise.

## The system

One process with one SQLite connection: the main thread, the serial reader, the
uplink and downlink loops, and the health server with a thread for each request.

| Component | State it keeps | Operations | What makes it correct |
|---|---|---|---|
| **Store** (`store.py`, `schema.sql`) | tables `fixes`, `nodes`, `sync_state`, ... on one connection with one open transaction; an `RLock` | `insert_fix` (serial thread, under the lock), `get_unsynced`, `mark_synced`, `get/set_sync_cursor`, upserts, health queries (no lock) | committed rows, flags and retirements are never lost; a slot of `UNIQUE(node_id, seq)` has one live row; a primary key names one fix for ever; a resend of the row a slot was given last is not stored and a fix of another cycle is; no late resend takes a node summary back, unless a NODE_STATS backdated the node |
| **CloudUplinker** (`uplink.py`) | `dead_letter` table, the batch in hand | `run_once`, `_accept`, `_isolate_poison`, `_quarantine`, `run_forever` | mark only after accept; nothing leaves the queue undelivered and unrecorded; a poison fix neither wedges the queue nor takes a batch-mate with it |
| **CloudDownlinker** (`downlink.py`) | fingerprint in `downlink_state`, last ACKs | `poll_once`, `record_ack` | the cache tells the truth about the base; arming comes last; the base converges to what the cloud settles on |
| **SerialReader** (`serial_io.py`) | `_ser`, `connected`, parser buffer | `poll_once`/`run` (reader), `send` (downlink thread), `stop` (main thread) | survives any outage; comes back to a usable port; stops |
| **FrameDispatcher** (`main.py`) | last base HEALTH, counters | `on_frame` and its branches | a bad frame never breaks the read loop, a truncated or failing entry never the next one |
| **Gateway / supervision** (`main.py`) | stop event, threads | `_supervised`, `_downlink_loop`, `start`, `wait`, `shutdown` | a raising loop is restarted; the first poll programs a fresh base; shutdown ends, and every loop with it |
| **Codec, FrameParser** (`protocol.py`) | unparsed tail of the byte stream | `push`, encoders, decoders | the frames found do not depend on how the bytes were cut up; the base reads what was meant |
| **Health** (`health.py`) | none of its own | `do_GET`, `snapshot` | always answers; never reports less than there is |
| **HTTP client** (`http_client.py`), **configuration** (`config.py`) | none | GET/POST, load | not modelled (see below) |
| **Bench tool** (`pi-gateway/base_control_reference.py`) | none | `arm`, `disarm`, `ping` | what it does to the base node is nothing the gateway's cache knows of |

Who meets whom, and where it is hard:

* Serial, uplink and downlink threads share **one transaction**.  Only
  `insert_fix` takes the lock, so statements of two threads interleave, a commit
  publishes everybody's statements and a rollback undoes everybody's.
* Uplinker and cloud: requests are lost, handled with their answer lost, or
  delivered late; a 4xx may be a poison fix or an expired key; the process may
  die between any two statements.
* Reader, sender and `stop` share `_ser` and `connected` without a lock.
* Downlinker and base node: four frames over a link that may go at any point;
  the base forgets everything when it loses power and the gateway does not; the
  bench tool writes to the same base from another process.
* Main thread and loops: the stop event is a flag that `run_forever` does not
  read, joins time out, and the store is closed under whoever still runs.
* Health server and everybody: it reads the open transaction in pieces, and a
  dictionary the serial thread adds to.

Every place of this kind is listed, with its line and the properties that watch
it, under `hazards` in `PROJECT.json`.

## Modules

| Module | Models | Notes |
|---|---|---|
| `Store` | the tables and SQL statements as pure operators | a table is a sequence of rows; a row's index is its primary key, which is what SQLite does for `INTEGER PRIMARY KEY` in a table without deletes |
| `FixLedger` | what store and uplinker promise together: a log whose entries are delivered or put aside, then settled | abstract; no batches, transactions, threads or requests |
| `Uplink` | `insert_fix` on the serial thread, `run_once` on the uplink thread, the shared connection, the cloud's `/ingest`, the network, crashes | extends `Store`; refines `FixLedger` |
| `Downlink` | `poll_once`, `_downlink_loop`, the fingerprint cache, the link, the base node, the bench tool | |
| `SerialLink` | the port under the reader, sender and main threads, one access of a shared attribute at a time | |
| `Gateway` | `start`, `wait`, the signal handler, `shutdown`, `_supervised` and the two loops under it | extends `SerialLink` by the supervisor: the sends are those of a poll, the stop is that of `shutdown` |
| `Ingest` | `on_frame`: fixes, node summaries and ACKs on the serial thread | extends `Store` |
| `Health` | a GET of `/health` beside the serial thread, and `Store.close` | extends `Ingest` |
| `Frames` | `FrameParser.push` on real bytes with the real CRC, one turn of its loop at a time, fed by reads of any size from a line with faults | the reference `Whole` parses the whole stream at once |
| `Codec` | the payloads of SET_TIMING and SET_SLOTMAP as bytes, and what the base node reads of them | operators only |
| `MCUplink`, `MCDownlink`, `MCSerialLink`, `MCGateway`, `MCHealth`, `MCFrames` | values for TLC | |
| `StoreProofs`, `UplinkProofs`, `LedgerProofs`, `DownlinkProofs`, `IngestProofs`, `CodecProofs`, `FramesProofs`, `GatewayProofs` | lemmas and theorems | checked by TLAPS |

### Uplink: state and actions

`db` is what the connection sees, committed state and open transaction; `disk`
is what was last committed.  A commit is `disk' = db`, a rollback or a crash
`db' = disk`.  `serial` and `pc`, `todo`, `marks`, `top` are the local states of
the two threads.  One action is one SQL statement that writes (with the reads
just before it by the same thread of columns nobody else writes), one commit, or
one answer of the cloud:

* `insert_fix`: `InsertDuplicate`, `RetireStale` then `InsertAfterRetire`,
  `InsertFresh`, `CommitInsert`, and `InsertRaises` for its `except` clause.  The
  upsert of the node summary at the end touches another table and is part of the
  transaction only.
* `run_once`: `Fetch`; `Accepted`, `Retry` or `BatchRejected`; in
  `_isolate_poison` the same answers for the oldest row of `todo` alone, with
  `OneRejected`, `Quarantine`, `CommitDead`; `mark_synced` is `MarkOne` for each
  id and `CommitMarks`; the cursor is `SaveCursor` and `CommitCursor`.
* `UplinkRaises`: a statement raises.  `mark_synced` and `_quarantine` roll
  nothing back; `_accept` swallows what its cursor code raises; everything else
  ends `run_forever`, which `_supervised` calls again.
* `OtherCommit`: any other write of the process commits the connection.
* `Retry` and `LateDelivery`: a request without an answer was lost, handled, or
  is still on its way.

`Faults` selects what an instance may suffer: `crash`, `insert_raises`,
`uplink_raises`, `rejects_good` (a 4xx for a request without poison).  `undone` is
a history variable: a crash or a rollback discarded a statement that had been
executed.  The zero-loss properties are claimed until then; `UplinkRollback` and
`UplinkCrash` show that they fail after.  Closing the store at a shutdown rolls the
open transaction back, which for this module is a `Crash`.

### Downlink: state and actions

A configuration is one value; two are equal when their fingerprints are.  The
fingerprint takes in `race_id` and `state` (the module doc lists six fields; the
code has eight), so two configurations may program the base alike.  `PollIdle`,
`PollChanged`, `SendFrame` (four times, in contractual order), `SendRaises`,
`StoreFingerprint` and `FingerprintUndone` are `poll_once`; `first` is
`_downlink_loop`'s flag.  `link` abstracts `SerialLink` to open, stale (the
device is gone beneath an open handle) and closed.  The base node is its four
settings.  A configuration in `Unbuildable` is one an encoder raises for
(`PollRaises`).  The bench tool is another process with the port of its own:
`BenchArms`, `BenchSends` and `BenchDisarms` program the same base node and leave
the cache as it is.  `trust` is a history variable: since the fingerprint was cached
nothing was sent to the base (`clean`), frames of the gateway were (`sent`), or it
was also changed behind the gateway's back, by a reboot or the bench tool, after
the last poll that sends had begun (`behind`).  `Faults` selects link drops, gateway
restarts, base reboots, mains failures, bench sessions, cloud outages, undone cache
writes and reverts of the cloud to a configuration it had before.

### SerialLink: state and actions

A port object is a number, `open` are those not closed, `live` those whose
device is there.  `_close` is four actions on each of three threads (clear the
flag, read `_ser`, clear it, close what was read), because Python may switch
threads between any two; `_open` and `_reconnect` are cut up likewise.  Write and
read raise exactly when the port is not live.  `pinned` is `self.port`: `Detect`
looks for a device only when no path is known and keeps the one it found.

### Gateway: state and actions

`stop` is the stop event, `phase` the next call of the main thread, `up` and `down`
where the two supervised loops are.  `StopSerial` is `SerialReader.stop`, step by
step as in `SerialLink`; `JoinLoops` is both joins, each of which returns with its
thread or after three seconds, so it may come at any moment.  A pass of the uplink
loop may raise whenever (`PassRaises`); once the store is closed it does, at its
first statement, and that is the only thing that ends `run_forever`.  So
"all loops observe it and exit" (`main.py:25`) is not what happens to the uplink
loop: it outlives the join and the close, raises, and `_supervised` then sees the
event.  `PollSends` are the sends of a poll, on the downlink thread.  The threads are
daemons: after `shutdown` has returned they run for as long as the process does,
which the model lets them.

### Ingest and Health: state and actions

`db` and `disk` are as in `Uplink`, with the node summaries beside the fixes.  `log`
(what the summaries were told, in order) and `torn` (rows retired for a fix that is
not inserted yet) are history, kept inside `db` so that commits and rollbacks treat
them as they treat the tables.  On the serial thread `insert_fix` is `Duplicate`,
`RetireStale` then `InsertAfterRetire`, or `InsertFresh`, then `RefreshNode` and
`CommitInsert`, with `InsertRaises` for the except clause; NODE_STATS is `NodeStats`
(the decoder, which stops at a cut-off entry) and for each entry `UpsertNode` and
`CommitNode`, or `EntryRaises`; an ACK is `RecordAck`.  `OtherCommits` are the commits
of the other threads.

`req` is one request to `/health`: `ReadNodes` and `ReadTotal` are `_store_health`,
`ReadBacklog` the reads of the uplink section, and `given` the sections read so far.
A SELECT raises on a closed store and may raise on an open one at any time
(`SelectRaises`); up to Python 3.10, which `pyproject.toml` allows, a rollback on
another thread resets a statement whose rows are still to be fetched.  `Failed` is
what `_safe` makes of a section that raised, `Respond` the answer.  `IterateAcks` and
`DownlinkHealth` are the two ends of the iteration over `last_acks`, which raises
when a key was added in between.  `Close` is `Store.close`.  `unlisted` and
`uncounted` are history: what the database held when the request came and the answer
does not show yet.

### Frames: state and actions

`buf`, `cursor`, `crc_errors` and `frames` are `push`'s; `wire` is what is on its
way to the port; `seen` and `found` are history: every byte read, and every frame
found with its place in the stream.  `Read` is a read of `poll_once` with the
append that opens `push`; then each turn of the loop is one of `Skip` (one byte
that is no magic), `FalseLength`, `BadCrc`, `GoodFrame`, until `Return` keeps the
tail; `Dispatch` and `Dispatched` are the loop of `poll_once` over the frames.
The loop has been cut into turns so that its invariant can be proved; nobody else
sees the parser between them.  The parser outlives the port, so a reconnect is no
event of its own here: it is a `Fault`, which loses, alters or adds bytes.
`Crc16` is CRC-16/CCITT-FALSE bit by bit; `MCFrames` checks its check value, the
one the code's documentation gives.

### Codec

`EncodeSetTiming` and `EncodeSetSlotmap` are the payloads byte by byte, `Refused` the
bound `encode_frame` puts on them, `ReadTiming` and `ReadSlotmap` what a base node
reads.  No state is involved and nothing is checked but the theorems; `MCFrames` also
evaluates the definitions at the bounds.

## Runs

| Run | Shows | Bounds |
|---|---|---|
| `UplinkAnyFault` | `MarkJustified`, `OneSlot`, `AppendOnly`, and until something is discarded `KeysStable`, `NothingDropped`, `DeadLettersExact`, under all faults at once | 2 fixes of one node in the same slot two cycles apart, the later one poison; 2 rows, batches of 2, one late request at a time; 2.1 million states |
| `UplinkLive` | refinement of `FixLedger` (`LedgerSpec`), `EverySettled`, `LedgerProgress` | 3 fixes, 3 rows, batches of 2, a poison fix, raising uplink statements |
| `UplinkRollback` (violation) | `KeptOrDelivered` fails | as `UplinkAnyFault`, only `insert_raises` |
| `UplinkCrash` (violation) | `StableKey` fails | as `UplinkAnyFault`, only `crash` |
| `DownlinkAnyFault` | `CacheHonest`, `ArmingConsistent`, `ConvergesUnlessUnaware`, `ChangeHeals` | 2 configurations and one no frame can hold, all eight kinds of fault, 2 of the counted ones |
| `DownlinkFirstPoll` (violation) | `Converges` fails | 2 configurations, 1 mains failure |
| `Gateway` | `SerNamesOpenPort`, `Recovers`, `StopEndsReader`, `ShutdownEnds`, `Restarted` | 1 outage, the backoff overflows at the second attempt |
| `SerialLongOutage` (violation) | `ReaderSurvives` fails | 1 outage, overflow at the third attempt |
| `SerialRenamed` (violation) | `Redetects` fails | 1 outage, 2 paths |
| `Health` | `NoFixSwallowed`, `NoResendStored`, `NewestUnlessBackdated`, `SnapshotComplete`, `AlwaysAnswers` | 3 fixes of one slot; 3 rows, 3 updates of the summaries, one NODE_STATS frame of 2 entries, on the node of the fixes and on another, cut off anywhere; one request after the other; 2.1 million states |
| `IngestRegress` (violation) | `ResendsDoNotRegress` fails | as `Health` |
| `Frames` | `ChunksDoNotMatter`, `NoneMissed`, `FoundOnce`, `BufferBounded`, `ReadsAgain` | 2 messages (an ACK, and a log line that contains a whole frame), 1 fault, reads of 1, 4 and all bytes, payloads up to 6 bytes |

Why the bounds are enough.  Two rows are what the hard cases of the table need: a
slot that is taken, retired and taken again, and a batch with a poison fix and
one that is not.  Three rows add a row that arrives while a batch is
under way.  One late request reaches every later composition of the batch.  Two
faults let one hit during the recovery from the other.  In `Health` three rows of one
slot are a cycle, the next, and a late resend of the first that retires the newer row;
the middle fix is within the window of both its neighbours, which are not within it of
each other; three updates are a fix, an entry of NODE_STATS and a resend.  Slots and
fixes of two nodes share nothing, so one node has fixes.  One outage suffices for the port: the reader has no memory of an outage
but the path it keeps.  `OverflowAt` is 1024 in the code; that it is reached does not
depend on the number.  In `Frames` one
fault makes each case of the parser happen: a lost byte of the log line's header
uncovers the frame inside it, an added head with a length of 3 covers the message
behind it, one with 8 is just over the bound, and one with 256 shows the order of
the length's bytes.  The theorems below cover every size.

`CHECK_DEADLOCK` is on but in `Frames`, whose bounded stream ends: the reader then
waits at the port for ever.  `SerialLink` and `Gateway` state their terminal states
as `Done` and `AllEnded`.

### What the violations say

Each one is a disagreement between the code and its own documentation, quoted
under `findings` in `PROJECT.json`.

1. `UplinkRollback`: `insert_fix` raises on the serial thread while the uplinker
   has inserted a dead letter and not committed it.  The rollback removes the
   dead letter, the uplinker marks the row synced: no trace of the fix remains
   in the queue, the cloud or `dead_letter`.
2. `UplinkCrash`: the uplinker posts a row of the open transaction, the process
   dies before the commit, and the next fix gets the same id.  The cloud, which
   is idempotent on the id, drops it.
3. `DownlinkFirstPoll`: the forced first poll of a process fails; it is not
   forced again.
4. `SerialLongOutage`: the reader thread dies of an `OverflowError` in the
   computation of its backoff.
5. `SerialRenamed`: the first path detected is kept as if it had been configured; a
   base node that comes back as another `/dev/ttyACM*` is not found again.
6. `IngestRegress`: NODE_STATS set `last_seen` back, and an old resend then counts as
   newer than the fix the summary was from.

The passing runs state what holds in spite of these: the zero-loss properties until
an executed statement is discarded, the refinement where none is, the convergence of
the base node unless the cache is unaware (it names the settled configuration from
before and the forced poll is spent), the recovery of the link for a reader that
did not die and a device that keeps its path, the summary of a node no NODE_STATS
backdated, dead letters that are exactly what the cloud refused, and the end of every
loop at a shutdown.  What else the code lets happen is in the models and claimed away
by no property; it has no run of its own:

* After a send that failed part-way the cloud goes back to the cached configuration: the
  poll answers "unchanged" and the base keeps a mixture of the two, although
  `downlink.py:301` calls partial sends fine.  `Unaware` is this state too.
* The base reboots while the gateway runs: nothing forces the poll `downlink.py:45`
  speaks of, and it stays unprogrammed until the race changes (`Unaware` again; the
  change heals it, `ChangeHeals`).  If it reboots in the middle of a poll, that poll arms
  it with half a configuration.
* A 4xx that is the key's fault puts every row of a batch in `dead_letter`, as "Confirmed
  poison" (`uplink.py:342`).  `DeadLettersExact` holds of it: each was refused alone.
* The uplink loop does not observe the stop event, against `main.py:25`; the store closed
  beneath it ends it (`ShutdownEnds`).
* A late resend of an earlier cycle is stored again whenever its slot has changed hands
  since: `store.py:36` assumes that resends are not late, and `NoResendStored` speaks of
  neighbouring rows of a slot.

## Fairness

* `Uplink`: weak fairness for the statements of the serial thread, for `Fetch`
  and for the cursor: the threads loop for ever and `_supervised` restarts the
  uplink loop.  Strong fairness for the cloud's answers and for the statements
  that may raise: an outage ends, and a statement that is tried again and again
  succeeds at some point.  `EverySettled` (of the committed store) also assumes
  that another thread commits now and then: `mark_synced` does not roll back, so
  when its commit raises the marks sit in the open transaction, the rows are no
  longer fetched, and only a later commit of the connection makes them durable.
  `LedgerProgress` (of the connection's view) does not need this.
* `Downlink`: the loop polls for ever and the cloud answers at some point (strong
  fairness of `PollChanged`); the frames of a poll are sent or raise; the reader
  closes a dead port and reopens it (`Recovers` of `SerialLink`); a cache write
  succeeds at some point.
* `SerialLink`: each thread that can take a step takes one: a read has a timeout
  and a delay an end.  The device owes nothing.
* `Gateway`: the same of the main thread and the two loops.  A poll sends at most four
  frames, so it returns (strong fairness of `PollReturns`, since the model puts no
  count on them); a pass need raise only when the store is closed.  Nobody owes a
  signal.
* `Frames`: the reader thread takes a step when it can, since it runs as long as
  the process does.  The base node and the line owe nothing.

## Proofs

For every set of fixes, batch size, window, bound and combination of faults:

* `TypeCorrect`, `MarkAfterAccept`, `StoreAppendOnly`, `SlotsUnique` (`UplinkProofs`).
  `MarkJustified` is not inductive: a row may be marked because its id is in
  `marks`, a row dead-lettered because it heads `todo`.  `PathInv` adds that
  `marks` and `top` were answered for, that the row to be quarantined was
  refused, and that `db` is never behind `disk` (`Ahead`); with the last, a
  rollback cannot lose what was committed, which is `AppendOnly`.  For `OneSlot`,
  `SlotInv` adds that the slot of a frame is free between the two statements of
  a wrap.  The lemmas of `StoreProofs` say what each statement does to a table.
* `KeysStayStable`, `ZeroLoss`, `DeadLettersAreExact` (`LedgerProofs`).  Until
  something is discarded (`undone`) the three hold together: `Exact` adds that each
  row about to be marked is already delivered or dead-lettered, and that whatever the
  cloud, the batch or a late request holds under an id is the row of that id.
* `ImplementsLedger` (`LedgerProofs`), when neither the process dies nor insert_fix
  raises (`NoDiscard`): the initial states of `Uplink` are initial states of the
  ledger, and under `LedgerInv` each action is `Record`, `Deliver`, `PutAside`, `Settle`
  or a stutter.

For every set of fixes, window, NODE_STATS frames and bounds (`IngestProofs`), with
rollbacks, foreign commits, crashes and the close of the store:

* `NoFixIsSwallowed` and `NoResendIsStored`.  `DedupInv` adds what the statements in
  progress rely on: between the two statements of a wrap the row just retired is the
  last of its slot and out of the window, a fix whose summary is being refreshed has
  its row, and only the last row of a slot is not retired.  `torn` names the rows the
  second property must except, and only those.
* `SummaryNewestUnlessBackdated`.  The property is inductive beside the types: it says
  enough of `last_seen` (the largest time told, and one of those told) for a fix that
  comes late to be recognised (`InformedStays`) and any other event to be in order
  (`InformedNew`), and once a node is backdated it stays so (`EventsOneMore`).  It holds
  of `db` and of `disk`, so a commit, a rollback and a crash copy it.
* `SnapshotIsComplete`.  Until they are read, the rows a request has to report stay in
  the open transaction and on disk (`Reported`): no step but a rollback takes a row
  away, and a rollback only rows that were not on disk when the request came
  (`FixesGrow`).  `LatestLists` says that `latest_per_node` selects a row for every node
  that has one.
* `HealthTypeCorrect` and `HealthAnswers`.  `AnswerInv` says at each step of a request
  which sections are behind it (`Behind`) and that each of these is in the answer once,
  so a section that raises takes no other with it.

For every set of configurations, number and kind of faults (`DownlinkProofs`):

* `DownlinkTypeCorrect`, `CacheIsHonest` and `ArmedLast`.  `ControlInv` adds to
  `CacheHonest` that of the base's four settings those already sent in this poll are
  those of the race being sent, unless the base was changed from elsewhere during it
  (`SentInv`).

For every payload (`CodecProofs`): a base node reads of a slot map its first
`Len % 256` entries with each number cut to its field (`SlotmapReadAsSent`), which is
the map that was sent when it has at most 255 entries and the numbers fit
(`SlotmapExact`); `encode_frame` refuses one only from 683 entries on
(`RefusedTooLate`); `TimingReadAsSent` is the like for SET_TIMING.  These stand for
operators and not for a specification, so no run checks them; TLC evaluates them at
the bounds in `MCFrames`.

For every stream of bytes, every way of cutting it into reads, every fault and
every `MaxPayload` (`FramesProofs`):

* `FramesTypeCorrect`, `BufferStaysBounded`, `FramesFoundOnce`, `NoFrameMissed`.
  `NoneMissed` is not inductive, since more bytes could make a valid frame of a
  place already left behind.  `IInv` says why they do not: the buffer is a window
  on the stream (`BufferIsWindow`), and of every place behind the cursor either a
  found frame covers it or it is `Settled`, which means that no magic byte stands
  there, or an impossible length, or a complete frame with a wrong checksum, and
  those are decided by bytes that are there for good (`WindowGrows`,
  `WindowSettled`).  The proof uses nothing of the checksum but that it is a
  function of the bytes.
* `ChunksNeverMatter`: what was found and counted is what `Whole` makes of the stream
  at once.  `Whole` is a recursive function, and `WholeIs` characterises it: a list of
  frames is its answer when they lie in order, every place between them is `Settled`
  and nothing can be decided behind the last.  `CountInv` adds to `IInv` that the
  errors counted are the false magic bytes between the frames.
* `CleanStreamRead`: a stream of nothing but messages of `encode_frame` is read back as
  those messages.  It needs that the checksum fits its two bytes (`CrcRange`), whatever
  the bytes, and that the parse cannot be led astray by what looks like a frame in a
  payload.  It is stated of the specification and not of a parse: with
  `ChunksNeverMatter` it holds of any cuts.

For every set of device paths, number of outages and limit of the backoff
(`GatewayProofs`):

* `GatewayRunsSerialLink`: each step of `Gateway` is one of `SerialLink` or leaves the
  port alone, so what holds of the port under three free threads holds of the gateway.
* `SerStaysOpen`: `_ser` names no port this process has closed.  `SerNamesOpenPort` is
  not inductive.  `PortInv` adds why: the number a reader has just dialled is known to
  no other thread until it is stored (`Dialled`), and a thread about to close a port has
  dropped it from `_ser`, which will not name it again (`Dropped`).
* `GatewayTypeCorrect`; with it, that the reader goes to the port only below the attempt
  whose delay overflows (`Attempts`).

What a recursive definition computes (the checksum, `Whole`) and that a finite table has
a newest row are proved by the least number for which they would fail (`LeastNat`), from
`NatLessThanWellFounded` and `WFMin` of the library: its induction theorems take an
operator as a parameter, which these provers cannot instantiate.

The assumptions on the constants are `FixAssumption`, `WindowAssumption`,
`UplinkAssumption`, `IngestAssumption`, `DownlinkAssumption`, `SerialLinkAssumption`,
`SizeAssumption` and `StreamAssumption`, each in the module that declares its
constants; TLC evaluates them in the runs.

Only model-checked: the liveness properties, which are `EverySettled`, `LedgerProgress`,
`ConvergesUnlessUnaware`, `ChangeHeals`, `Recovers`, `StopEndsReader`, `ShutdownEnds`,
`Restarted` and `ReadsAgain`: the prover has neither fairness nor ENABLED.  Every
other property of a passing run is a theorem.

## Not modelled

* `boats` and `races`: nothing reads them, so they are commits only.
* `Store.total_fixes` and the uplinker's backlog counts are read for `/health` but
  their numbers are not compared with each other: they are taken at different moments.
* Power loss of the gateway's own disk: with `synchronous=NORMAL` the last
  commits may be lost, as `store.py` says; the models let a commit be durable.
  (An id could be given twice then as in `UplinkCrash`.)
* Frames lost or rejected by the base: the code does not wait for ACKs, and says
  so (`pi-gateway/CHANGES.md:73`).
* The `seq` of a row in a request: a row that was retired before it is posted goes out
  with NULL, the models post the fix it came as.  The cloud goes by the id.
* Values: positions, speeds, wording of errors, HTTP bodies, timing of backoffs.
* HTTP client and configuration: no state that the rest of the gateway depends on.
  Their outcomes are the answers of the cloud and the constants of the models.
* The replay mode of the reader, which is the same pipeline from a file, and `--once`,
  which runs one pass and one poll on the main thread and starts no other.
* The bench tool's `ping`, self test and printing.
* The bytes of SET_EPOCH (64 bits) and SET_ARMED, whose fields are wide enough, and
  the decoders, which read fields at fixed places; what a truncated NODE_STATS does is in
  `Ingest`.
* HEALTH and LOG frames: kept or logged, and read by nothing but `/health`.

## Plan

Done, in this order: `Store` and `Uplink` with the ledger they implement, `Downlink`,
`SerialLink`, `Frames`; then the supervisor and the shutdown (`Gateway`), what the
frames do to the store (`Ingest`), the health endpoint (`Health`), the bench tool and
all faults together in `Downlink`, the bounds of the encoders (`Codec`), and the
proofs of the ledger, of deduplication, of the control plane under every fault, of the
parser against a parse of the whole stream, of the summaries and the snapshot, and of
the port under three threads.
What could still be added:

1. Proofs: the safety behind the liveness properties, such as that only `OverflowAt`
   failed attempts kill the reader, and that a loop which has ended when the shutdown
   returns had the stop event or the closed store as its reason.
2. Composition of `Ingest` and `Uplink` on one database: the node summaries add
   nothing the uplinker reads, so the two are kept apart for the size of the runs.
3. The replay mode of the reader.
