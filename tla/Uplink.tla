---- MODULE Uplink ----
(***************************************************************************)
(* The store-and-forward path of the gateway: insert_fix on the serial     *)
(* thread (store.py), CloudUplinker.run_once on the uplink thread          *)
(* (uplink.py), and the one SQLite connection they share.                  *)
(*                                                                         *)
(* The connection has ONE open transaction.  insert_fix holds Store._lock, *)
(* but get_unsynced, mark_synced, the cursors, the upserts and the         *)
(* uplinker's _quarantine do not, so a statement of one thread may run     *)
(* between two statements of the other, the commit of any thread publishes *)
(* the statements of every thread, and the rollback of insert_fix undoes   *)
(* those of every thread.  One action is therefore one SQL statement that  *)
(* writes (with the reads just before it on the same thread, of columns no *)
(* other thread writes), one commit, or one answer of the cloud.           *)
(*                                                                         *)
(* Writes to nodes, boats, races and sync_state keys of other components   *)
(* matter here only as transactions that get committed: OtherCommit.       *)
(***************************************************************************)
EXTENDS Store

CONSTANTS
    NoFix,        \* no frame is being inserted
    Poison,       \* the fixes /ingest answers 4xx for
    BatchSize,    \* batch_size
    MaxRows,      \* bound: rows the fixes table may reach
    MaxInflight,  \* bound: requests delayed beyond their timeout at a time
    Faults        \* the faults of this instance

FaultKinds == {"crash", "insert_raises", "uplink_raises", "rejects_good"}

ASSUME UplinkAssumption ==
    /\ NoFix \notin Fix
    /\ Poison \subseteq Fix
    /\ BatchSize \in Nat \ {0}
    /\ MaxRows \in Nat
    /\ MaxInflight \in Nat
    /\ Faults \subseteq FaultKinds

VARIABLES
    db,        \* what the connection sees: committed state plus the open transaction
    disk,      \* the last committed state
    serial,    \* the serial thread in insert_fix: next statement, and its frame
    pc,        \* the uplink thread: what it does next
    todo,      \* the rows of the batch not yet answered
    marks,     \* the ids mark_synced has still to update
    top,       \* _accept's max(ids); 0 when mark_synced follows a quarantine
    cloud,     \* the pairs <id, fix> the cloud has stored
    refused,   \* history: the pairs the cloud answered 4xx on their own
    inflight,  \* requests that timed out here and may still reach the cloud
    undone     \* history: a rollback or a crash discarded executed statements

thread == <<pc, todo, marks, top>>
net    == <<cloud, refused, inflight>>
vars   == <<db, disk, serial, pc, todo, marks, top, cloud, refused, inflight, undone>>

Pair == [id: Nat \ {0}, fix: Fix]
Db   == [fixes: Table, dead: SUBSET Nat, hwm: Nat]

TypeOK ==
    /\ db \in Db
    /\ disk \in Db
    /\ serial \in [at: {"idle", "insert", "commit"}, frame: Fix \cup {NoFix}]
    /\ serial.at = "insert" => serial.frame \in Fix
    /\ pc \in {"idle", "post", "isolate", "quarantine", "commit_dead",
               "mark", "cursor", "commit_cursor"}
    /\ todo \subseteq Pair
    /\ marks \subseteq Nat
    /\ top \in Nat
    /\ cloud \subseteq Pair
    /\ refused \subseteq Pair
    /\ inflight \subseteq SUBSET Pair
    /\ undone \in BOOLEAN

Ids(pairs) == {p.id : p \in pairs}

Idle == [at |-> "idle", frame |-> NoFix]

Init ==
    /\ db = [fixes |-> EmptyTable, dead |-> {}, hwm |-> 0]
    /\ disk = db
    /\ serial = Idle
    /\ pc = "idle" /\ todo = {} /\ marks = {} /\ top = 0
    /\ cloud = {} /\ refused = {} /\ inflight = {}
    /\ undone = FALSE

----
(* The serial thread: insert_fix.                                          *)

\* The SELECT found a recent row: only the node summary is written.
InsertDuplicate(f) ==
    /\ serial.at = "idle"
    /\ IsDuplicate(db.fixes, f)
    /\ serial' = [at |-> "commit", frame |-> NoFix]
    /\ UNCHANGED <<db, disk, thread, net, undone>>

\* Mutant: the stale row keeps its slot.
InsertBesideStale(f) ==
    /\ serial.at = "idle"
    /\ IsWrap(db.fixes, f)
    /\ Len(db.fixes) < MaxRows
    /\ serial' = [at |-> "insert", frame |-> f]
    /\ UNCHANGED <<db, disk, thread, net, undone>>

\* Mutant: the frame is lost between the two statements.
RetireStaleLosesFrame(f) ==
    /\ serial.at = "idle"
    /\ IsWrap(db.fixes, f)
    /\ Len(db.fixes) < MaxRows
    /\ db' = [db EXCEPT !.fixes = RetireRow(@, f)]
    /\ serial' = [at |-> "insert", frame |-> NoFix]
    /\ UNCHANGED <<disk, thread, net, undone>>

\* The SELECT found a row of an earlier wrap-cycle: retire it first.
RetireStale(f) ==
    /\ serial.at = "idle"
    /\ IsWrap(db.fixes, f)
    /\ Len(db.fixes) < MaxRows
    /\ db' = [db EXCEPT !.fixes = RetireRow(@, f)]
    /\ serial' = [at |-> "insert", frame |-> f]
    /\ UNCHANGED <<disk, thread, net, undone>>

InsertAfterRetire ==
    /\ serial.at = "insert"
    /\ db' = [db EXCEPT !.fixes = InsertRow(@, serial.frame)]
    /\ serial' = [at |-> "commit", frame |-> NoFix]
    /\ UNCHANGED <<disk, thread, net, undone>>

\* The SELECT found nothing: INSERT ... ON CONFLICT DO NOTHING.
InsertFresh(f) ==
    /\ serial.at = "idle"
    /\ IsFresh(db.fixes, f)
    /\ Len(db.fixes) < MaxRows
    /\ db' = [db EXCEPT !.fixes = InsertRow(@, f)]
    /\ serial' = [at |-> "commit", frame |-> NoFix]
    /\ UNCHANGED <<disk, thread, net, undone>>

CommitInsert ==
    /\ serial.at = "commit"
    /\ disk' = db
    /\ serial' = Idle
    /\ UNCHANGED <<db, thread, net, undone>>

\* Any statement of insert_fix, or its commit, raises: the except clause
\* rolls back the transaction of the whole connection; the frame is dropped.
InsertRaises ==
    /\ "insert_raises" \in Faults
    /\ db' = disk
    /\ undone' = (undone \/ db # disk)
    /\ serial' = Idle
    /\ UNCHANGED <<disk, thread, net>>

\* set_sync_cursor and the upserts of the serial and downlink threads commit
\* the connection, and with it whatever the other threads have not committed.
OtherCommit ==
    /\ disk' = db
    /\ UNCHANGED <<db, serial, thread, net, undone>>

----
(* The cloud's /ingest, as the uplinker relies on it: idempotent on id, and *)
(* a request with a poison fix is rejected whole.                           *)
Ingest(stored, pairs) == stored \cup {p \in pairs : p.id \notin Ids(stored)}
Clean(pairs)          == \A p \in pairs : p.fix \notin Poison

\* The rows the next request holds: the batch, or alone its oldest row.
First(pairs) == {p \in pairs : \A q \in pairs : p.id <= q.id}
Request      == IF pc = "post" THEN todo ELSE First(todo)

\* What run_once does after a row or a batch is dealt with.
Continue(rest) ==
    /\ todo' = rest
    /\ pc' = IF rest = {} THEN "idle" ELSE "isolate"
    /\ marks' = {} /\ top' = 0

(* The uplink thread: run_once.                                             *)

Fetch ==
    /\ pc = "idle"
    /\ Unsynced(db.fixes) # {}
    /\ todo' = GetUnsynced(db.fixes, BatchSize)
    /\ pc' = "post"
    /\ UNCHANGED <<db, disk, serial, marks, top, net, undone>>

\* 2xx: _accept starts to mark exactly the ids of the request.
Accepted ==
    /\ pc \in {"post", "isolate"}
    /\ Clean(Request)
    /\ cloud' = Ingest(cloud, Request)
    /\ marks' = Ids(Request)
    /\ \E m \in Ids(Request) : (\A i \in Ids(Request) : i <= m) /\ top' = m
    /\ todo' = todo \ Request
    /\ pc' = "mark"
    /\ UNCHANGED <<db, disk, serial, refused, inflight, undone>>

\* Mutant: the rows are marked although the request got no answer.
RetryMarks ==
    /\ pc \in {"post", "isolate"}
    /\ marks' = Ids(Request) /\ top' = 0
    /\ todo' = todo \ Request
    /\ pc' = "mark"
    /\ UNCHANGED <<db, disk, serial, net, undone>>

\* No answer, 5xx, 429 or an unexpected status.  The request may have been
\* lost, handled with its answer lost, or be handled later (which changes
\* nothing for one with a poison fix).
Retry ==
    /\ pc \in {"post", "isolate"}
    /\ \/ UNCHANGED <<cloud, inflight>>
       \/ Clean(Request) /\ cloud' = Ingest(cloud, Request) /\ UNCHANGED inflight
       \/ /\ Clean(Request)
          /\ Cardinality(inflight) < MaxInflight
          /\ inflight' = inflight \cup {Request}
          /\ UNCHANGED cloud
    /\ Continue(todo \ Request)
    /\ UNCHANGED <<db, disk, serial, refused, undone>>

Rejectable(pairs) == ~Clean(pairs) \/ "rejects_good" \in Faults

\* Mutant: a 4xx is retried like a 5xx.
BatchRetried ==
    /\ pc = "post"
    /\ Rejectable(todo)
    /\ Continue({})
    /\ UNCHANGED <<db, disk, serial, net, undone>>

\* 4xx for the batch: isolate the poison.
BatchRejected ==
    /\ pc = "post"
    /\ Rejectable(todo)
    /\ pc' = "isolate"
    /\ UNCHANGED <<db, disk, serial, todo, marks, top, net, undone>>

\* Mutant: a row refused alone is left for the next pass.
OneRetried ==
    /\ pc = "isolate"
    /\ Rejectable(Request)
    /\ Continue(todo \ Request)
    /\ UNCHANGED <<db, disk, serial, net, undone>>

\* 4xx for one row: quarantine it.
OneRejected ==
    /\ pc = "isolate"
    /\ Rejectable(Request)
    /\ refused' = refused \cup Request
    /\ pc' = "quarantine"
    /\ UNCHANGED <<db, disk, serial, todo, marks, top, cloud, inflight, undone>>

\* Mutant: the rows still to isolate are dead-lettered with the poison.
QuarantineBatch ==
    /\ pc = "quarantine"
    /\ db' = [db EXCEPT !.dead = @ \cup Ids(todo)]
    /\ pc' = "commit_dead"
    /\ UNCHANGED <<disk, serial, todo, marks, top, net, undone>>

\* _quarantine: INSERT INTO dead_letter ... ON CONFLICT(id) DO UPDATE
Quarantine ==
    /\ pc = "quarantine"
    /\ db' = [db EXCEPT !.dead = @ \cup Ids(First(todo))]
    /\ pc' = "commit_dead"
    /\ UNCHANGED <<disk, serial, todo, marks, top, net, undone>>

\* Mutant: the rows still to isolate are marked with the poison.
CommitDeadMarkBatch ==
    /\ pc = "commit_dead"
    /\ disk' = db
    /\ marks' = Ids(todo)
    /\ top' = 0
    /\ todo' = {}
    /\ pc' = "mark"
    /\ UNCHANGED <<db, serial, net, undone>>

CommitDead ==
    /\ pc = "commit_dead"
    /\ disk' = db
    /\ marks' = Ids(First(todo))
    /\ top' = 0
    /\ todo' = todo \ First(todo)
    /\ pc' = "mark"
    /\ UNCHANGED <<db, serial, net, undone>>

\* mark_synced: one UPDATE per id, in order, then a commit.
MarkOne ==
    /\ pc = "mark"
    /\ \E id \in marks :
          /\ \A other \in marks : id <= other
          /\ db' = [db EXCEPT !.fixes = MarkRow(@, id)]
          /\ marks' = marks \ {id}
    /\ UNCHANGED <<disk, serial, pc, todo, top, net, undone>>

CommitMarks ==
    /\ pc = "mark" /\ marks = {}
    /\ disk' = db
    /\ IF top = 0
       THEN Continue(todo)
       ELSE pc' = "cursor" /\ UNCHANGED <<todo, marks, top>>
    /\ UNCHANGED <<db, serial, net, undone>>

\* The informational uplink_hwm cursor, only ever raised.
SaveCursor ==
    /\ pc = "cursor"
    /\ IF top > db.hwm
       THEN /\ db' = [db EXCEPT !.hwm = top]
            /\ pc' = "commit_cursor"
            /\ UNCHANGED <<todo, marks, top>>
       ELSE Continue(todo) /\ UNCHANGED db
    /\ UNCHANGED <<disk, serial, net, undone>>

CommitCursor ==
    /\ pc = "commit_cursor"
    /\ disk' = db
    /\ Continue(todo)
    /\ UNCHANGED <<db, serial, net, undone>>

\* A statement or commit of the uplink thread raises.  Nothing rolls back.  In
\* the cursor code the exception is swallowed; anywhere else it leaves
\* run_forever, and _supervised calls it again.
UplinkRaises ==
    /\ "uplink_raises" \in Faults
    /\ \/ pc \in {"cursor", "commit_cursor"} /\ Continue(todo)
       \/ pc \in {"quarantine", "commit_dead", "mark"} /\ Continue({})
    /\ UNCHANGED <<db, disk, serial, net, undone>>

----
\* A request that timed out here reaches the cloud after all.
LateDelivery ==
    /\ \E r \in inflight :
          /\ inflight' = inflight \ {r}
          /\ cloud' = Ingest(cloud, r)
    /\ UNCHANGED <<db, disk, serial, thread, refused, undone>>

\* The process dies and is started again: what was committed is still there.
Crash ==
    /\ "crash" \in Faults
    /\ db' = disk
    /\ undone' = (undone \/ db # disk)
    /\ serial' = Idle
    /\ Continue({})
    /\ UNCHANGED <<disk, net>>

SerialStep ==
    \/ InsertAfterRetire
    \/ CommitInsert

UplinkStep ==
    \/ Fetch \/ Quarantine \/ CommitDead
    \/ MarkOne \/ CommitMarks \/ SaveCursor \/ CommitCursor

Next ==
    \/ \E f \in Fix : InsertDuplicate(f) \/ RetireStale(f) \/ InsertFresh(f)
    \/ SerialStep
    \/ InsertRaises
    \/ OtherCommit
    \/ UplinkStep
    \/ Accepted \/ Retry \/ BatchRejected \/ OneRejected
    \/ UplinkRaises
    \/ LateDelivery
    \/ Crash

\* The threads keep running: run_forever and the read loop never stop by
\* themselves, and _supervised starts run_forever again.  A statement tried
\* again and again succeeds at last, and so does a request.
Fairness ==
    /\ WF_vars(SerialStep)
    /\ WF_vars(Fetch)
    /\ WF_vars(SaveCursor \/ CommitCursor)
    /\ SF_vars(Accepted)
    /\ SF_vars(BatchRejected)
    /\ SF_vars(OneRejected)
    /\ SF_vars(Quarantine)
    /\ SF_vars(CommitDead)
    /\ SF_vars(MarkOne)
    /\ SF_vars(CommitMarks)

Spec     == Init /\ [][Next]_vars
FairSpec == Spec /\ Fairness
----
\* The ids the cloud has answered for: it stored them, or refused them alone.
Answered == Ids(cloud) \cup Ids(refused)

(* Mark-after-accept, whatever fails: no id is synced, committed or not,     *)
(* that the cloud did not answer for, and the high-water cursor never passes *)
(* such an id (uplink.py: "mark_synced is called only after the cloud        *)
(* returns a 2xx for that exact set of ids").                                *)
MarkJustified ==
    \A view \in {db, disk} :
        /\ Synced(view.fixes) \subseteq Answered
        /\ view.dead \subseteq Ids(refused)
        /\ view.hwm # 0 => view.hwm \in Answered

(* The committed store is append-only, whatever fails: no step loses a       *)
(* committed row, changes its fix, or takes back its synced flag, its        *)
(* retirement or its dead letter, although any thread may commit or roll     *)
(* back the statements of another.                                          *)
AppendOnlyStep ==
    /\ Extends(disk'.fixes, disk.fixes)
    /\ disk.dead \subseteq disk'.dead
    /\ disk.hwm <= disk'.hwm
AppendOnly == [][AppendOnlyStep]_vars

(* The id a fix was sent under stays its id: what the cloud holds, or may    *)
(* still receive, under an id is the fix the gateway has under that id.      *)
StableKey ==
    \A p \in cloud \cup refused \cup todo \cup UNION inflight :
        p.id \in DOMAIN db.fixes /\ db.fixes[p.id].fix = p.fix

(* Nothing but a crash or a rollback that discards executed statements can   *)
(* make an id mean two fixes: no mix of batches, late requests and partial   *)
(* failures can.                                                            *)
KeysStable == ~undone => StableKey

(* Zero loss: as long as no statement was discarded, a row leaves the queue  *)
(* only when the cloud holds that very fix under its id or a dead letter was *)
(* recorded, and this of the committed store too.                           *)
NothingDropped ==
    ~undone => \A view \in {db, disk} : \A i \in Synced(view.fixes) :
        \/ [id |-> i, fix |-> view.fixes[i].fix] \in cloud
        \/ i \in view.dead

(* A rejected row is not silently dropped: every id that left the queue is   *)
(* one the cloud stored or one in the dead-letter table, committed with it   *)
(* (uplink.py: dead-lettered rows "are never silently dropped").             *)
KeptOrDelivered ==
    \A view \in {db, disk} : Synced(view.fixes) \subseteq Ids(cloud) \cup view.dead

(* Dead letters are exact: a 4xx for a batch dead-letters only the fixes the *)
(* cloud then refused alone, each under the id it was recorded with, never a *)
(* batch-mate of one, as long as no statement was discarded.  A 4xx that is  *)
(* the key's fault refuses each fix alone, and each is then put aside.       *)
DeadLettersExact ==
    ~undone => \A i \in db.dead :
        i \in DOMAIN db.fixes /\ [id |-> i, fix |-> db.fixes[i].fix] \in refused

(* No two rows ever hold the same slot of UNIQUE(node_id, seq), committed or *)
(* not, whatever fails: the INSERT of insert_fix can neither be swallowed by *)
(* ON CONFLICT DO NOTHING nor raise after the stale row was retired.         *)
OneSlot == \A view \in {db, disk} : UniqueSlots(view.fixes)

(* A committed fix is eventually settled for good: neither a poison fix at   *)
(* the head of the queue, nor an outage, nor a statement that raises holds   *)
(* it up for ever.  mark_synced does not roll back when its commit raises,   *)
(* so the mark is then durable only once another thread commits.             *)
EverySettled ==
    WF_vars(OtherCommit) =>
        \A i \in 1..MaxRows :
            (i \in DOMAIN disk.fixes) ~> (i \in Synced(disk.fixes))

(* The detailed path implements the ledger: the log is the fixes table as    *)
(* the connection sees it.                                                   *)
Ledger == INSTANCE FixLedger WITH
    log       <- [i \in DOMAIN db.fixes |-> db.fixes[i].fix],
    delivered <- cloud,
    aside     <- db.dead,
    settled   <- Synced(db.fixes),
    MaxLog    <- MaxRows

(* Every step of the two threads, the network and the cloud is a step of the *)
(* ledger or none: batching, isolation, lost and late requests and           *)
(* interleaved statements do not show.                                       *)
LedgerSpec == Ledger!Spec

(* The ledger makes progress as the connection sees it, whoever commits.     *)
LedgerProgress == Ledger!Progress
====
