---- MODULE Ingest ----
(***************************************************************************)
(* What the frames read off the base node do to the gateway's state: the   *)
(* decoders of protocol.py, FrameDispatcher.on_frame (main.py), insert_fix *)
(* and upsert_node (store.py) and record_ack (downlink.py), all on the     *)
(* serial thread.                                                          *)
(*                                                                         *)
(* An action is one SQL statement that writes, one commit, or a frame that *)
(* only touches memory.  A frame of an unknown type, of LOG, or of a wrong *)
(* length changes nothing, and HEALTH is kept only to be shown.  The       *)
(* transaction is shared with the uplink and downlink threads (Uplink);    *)
(* here they commit, at any moment.                                        *)
(*                                                                         *)
(* Two parts of the connection's state are history, so that a commit, a    *)
(* rollback and a crash treat them as they treat the tables: log, what the *)
(* node summaries were told, in order, and torn, the rows retired for a    *)
(* fix that is not inserted (yet).                                         *)
(***************************************************************************)
EXTENDS Store

CONSTANTS
    NoFix,     \* no fix
    Node,      \* node ids
    Stats,     \* the entries of the NODE_STATS frames: sequences of [node, heard]
    RefTypes,  \* the frame types an ACK may refer to
    MaxRows,   \* bound: rows the fixes table may reach
    MaxLog     \* bound: updates of the node summaries

ASSUME IngestAssumption ==
    /\ NoFix \notin Fix
    /\ \A f \in Fix : f.node \in Node
    /\ Stats \subseteq Seq([node: Node, heard: Nat])
    /\ IsFiniteSet(RefTypes)
    /\ MaxRows \in Nat /\ MaxLog \in Nat

VARIABLES
    db,      \* what the connection sees
    disk,    \* the last committed state
    serial,  \* the serial thread: its next statement and what is left of the frame
    acks     \* the keys of CloudDownlinker.last_acks

ingest == <<db, disk, serial, acks>>

\* A row of nodes: last_seen, and the fixes last_battery_mv and last_rssi are
\* from; a last_rssi from NODE_STATS is from no fix.
Summary == [known: BOOLEAN, seen: Nat, battery: Fix \cup {NoFix}, rssi: Fix \cup {NoFix}]
Unknown == [known |-> FALSE, seen |-> 0, battery |-> NoFix, rssi |-> NoFix]
Event   == [node: Node, heard: Nat, fix: Fix \cup {NoFix}]
Db      == [fixes: Table, nodes: [Node -> Summary], log: Seq(Event), torn: SUBSET Nat]

Entry   == [node: Node, heard: Nat]
Thread  == [at: {"idle", "insert", "summary", "commit", "stats", "stats_commit"},
            fix: Fix \cup {NoFix}, old: SUBSET Nat, entries: Seq(Entry)]

TypeOK ==
    /\ db \in Db
    /\ disk \in Db
    /\ serial \in Thread
    /\ serial.at \in {"insert", "summary"} => serial.fix \in Fix
    /\ serial.at \in {"stats", "stats_commit"} => serial.entries # << >>
    /\ acks \subseteq RefTypes

Idle == [at |-> "idle", fix |-> NoFix, old |-> {}, entries |-> << >>]
Inserting(f, old) == [Idle EXCEPT !.at = "insert", !.fix = f, !.old = old]
Telling(f)        == [Idle EXCEPT !.at = "summary", !.fix = f]
Upserting(entries) == [Idle EXCEPT !.at = "stats_commit", !.entries = entries]
Committing        == [Idle EXCEPT !.at = "commit"]
\* The loop over the entries of a NODE_STATS frame.
Left(entries) ==
    IF entries = << >> THEN Idle ELSE [Idle EXCEPT !.at = "stats", !.entries = entries]

IngestInit ==
    /\ db = [fixes |-> EmptyTable, nodes |-> [n \in Node |-> Unknown], log |-> << >>, torn |-> {}]
    /\ disk = db
    /\ serial = Idle
    /\ acks = {}

Tell(d, n, summary, event) ==
    [d EXCEPT !.nodes[n] = summary, !.log = Append(@, event)]

----
(* UPLINK: insert_fix.  The unique slot of f is looked up first.            *)

\* Mutant: only the sequence number is looked at.
DuplicateWhatever(f) ==
    /\ serial.at = "idle"
    /\ Held(db.fixes, f) # {}
    /\ serial' = Telling(f)
    /\ UNCHANGED <<db, disk, acks>>

Duplicate(f) ==
    /\ serial.at = "idle"
    /\ IsDuplicate(db.fixes, f)
    /\ serial' = Telling(f)
    /\ UNCHANGED <<db, disk, acks>>

\* Mutant: the fix is lost between the two statements.
RetireStaleLosesFix(f) ==
    /\ serial.at = "idle"
    /\ IsWrap(db.fixes, f)
    /\ Len(db.fixes) < MaxRows
    /\ db' = [db EXCEPT !.fixes = RetireRow(@, f), !.torn = @ \cup Held(db.fixes, f)]
    /\ serial' = Inserting(NoFix, Held(db.fixes, f))
    /\ UNCHANGED <<disk, acks>>

RetireStale(f) ==
    /\ serial.at = "idle"
    /\ IsWrap(db.fixes, f)
    /\ Len(db.fixes) < MaxRows
    /\ db' = [db EXCEPT !.fixes = RetireRow(@, f), !.torn = @ \cup Held(db.fixes, f)]
    /\ serial' = Inserting(f, Held(db.fixes, f))
    /\ UNCHANGED <<disk, acks>>

InsertAfterRetire ==
    /\ serial.at = "insert"
    /\ db' = [db EXCEPT !.fixes = InsertRow(@, serial.fix), !.torn = @ \ serial.old]
    /\ serial' = Telling(serial.fix)
    /\ UNCHANGED <<disk, acks>>

InsertFresh(f) ==
    /\ serial.at = "idle"
    /\ IsFresh(db.fixes, f)
    /\ Len(db.fixes) < MaxRows
    /\ db' = [db EXCEPT !.fixes = InsertRow(@, f)]
    /\ serial' = Telling(f)
    /\ UNCHANGED <<disk, acks>>

\* Mutant: the fix that arrived last is taken for the newest.
FromFixUnconditionally(s, f) == [known |-> TRUE, seen |-> f.ts, battery |-> f, rssi |-> f]

\* _upsert_node_from_fix: an older fix changes no column.
FromFix(s, f) ==
    IF s.known /\ f.ts < s.seen THEN s
    ELSE [known |-> TRUE, seen |-> f.ts, battery |-> f, rssi |-> f]

RefreshNode ==
    /\ serial.at = "summary"
    /\ LET f == serial.fix IN
           db' = Tell(db, f.node, FromFix(db.nodes[f.node], f),
                      [node |-> f.node, heard |-> f.ts, fix |-> f])
    /\ serial' = Committing
    /\ UNCHANGED <<disk, acks>>

CommitInsert ==
    /\ serial.at = "commit"
    /\ disk' = db
    /\ serial' = Idle
    /\ UNCHANGED <<db, acks>>

\* A statement of insert_fix or its commit raises, and the transaction is
\* rolled back; on_frame logs the error and the frame is dropped.
InsertRaises ==
    /\ serial.at \in {"idle", "insert", "summary", "commit"}
    /\ db' = disk
    /\ serial' = Idle
    /\ UNCHANGED <<disk, acks>>

----
(* NODE_STATS: upsert_node for each entry.                                  *)

\* The decoder stops at the first entry that is not there in full.
NodeStats(entries, whole) ==
    /\ serial.at = "idle"
    /\ Len(db.log) + whole <= MaxLog
    /\ serial' = Left(SubSeq(entries, 1, whole))
    /\ UNCHANGED <<db, disk, acks>>

\* last_seen and last_rssi are overwritten, whatever they were.
FromStats(s, heard) == [s EXCEPT !.known = TRUE, !.seen = heard, !.rssi = NoFix]

UpsertNode ==
    /\ serial.at = "stats"
    /\ LET e == Head(serial.entries) IN
           db' = Tell(db, e.node, FromStats(db.nodes[e.node], e.heard),
                      [node |-> e.node, heard |-> e.heard, fix |-> NoFix])
    /\ serial' = Upserting(serial.entries)
    /\ UNCHANGED <<disk, acks>>

CommitNode ==
    /\ serial.at = "stats_commit"
    /\ disk' = db
    /\ serial' = Left(Tail(serial.entries))
    /\ UNCHANGED <<db, acks>>

\* The upsert or its commit raises: it is not rolled back, and the next entry
\* is taken.
EntryRaises ==
    /\ serial.at \in {"stats", "stats_commit"}
    /\ serial' = Left(Tail(serial.entries))
    /\ UNCHANGED <<db, disk, acks>>

----
\* record_ack keeps the last ACK of each type.
RecordAck(ref) ==
    /\ serial.at = "idle"
    /\ acks' = acks \cup {ref}
    /\ UNCHANGED <<db, disk, serial>>

\* Any other thread's commit.
OtherCommits ==
    /\ disk' = db
    /\ UNCHANGED <<db, serial, acks>>

\* The process dies and is started again on the database.
Crash ==
    /\ db' = disk
    /\ serial' = Idle
    /\ acks' = {}
    /\ UNCHANGED disk

Uplinked(f) ==
    /\ Len(db.log) < MaxLog
    /\ Duplicate(f) \/ RetireStale(f) \/ InsertFresh(f)

\* One step on the serial thread.
OnFrame ==
    \/ \E f \in Fix : Uplinked(f)
    \/ InsertAfterRetire \/ RefreshNode \/ CommitInsert \/ InsertRaises
    \/ \E entries \in Stats : \E whole \in 0..Len(entries) : NodeStats(entries, whole)
    \/ UpsertNode \/ CommitNode \/ EntryRaises
    \/ \E ref \in RefTypes : RecordAck(ref)

----
States == {db, disk}

\* The rows of one slot, whatever became of them, and the pairs of neighbours.
SameSlot(t, i, j) == t[i].fix.node = t[j].fix.node /\ t[i].fix.seq = t[j].fix.seq
Neighbours(t, i, j) ==
    /\ i < j /\ SameSlot(t, i, j)
    /\ \A k \in DOMAIN t : i < k /\ k < j => ~SameSlot(t, i, k)
Near(f, g) == Abs(f.ts - g.ts) <= Window

(* No fix is taken for a resend of another cycle: one that was handled has a *)
(* row of its slot within the window of it, retired or not (store.py, "seq 0 *)
(* from the next cycle ... would be silently dropped").                      *)
NoFixSwallowed ==
    \A d \in States : \A k \in DOMAIN d.log :
        d.log[k].fix # NoFix =>
            \E i \in DOMAIN d.fixes : /\ d.fixes[i].fix.node = d.log[k].fix.node
                                      /\ d.fixes[i].fix.seq = d.log[k].fix.seq
                                      /\ Near(d.fixes[i].fix, d.log[k].fix)

(* A resend of the row a slot was given last is not stored: neighbouring     *)
(* rows of a slot are further apart than the window ("Replaying the exact    *)
(* same frame twice in a row -> exactly 1 row"), whichever thread commits,   *)
(* rolls back or dies in between, unless the first was retired for a fix     *)
(* whose insert was then cut off.  Of rows that are not neighbours it says   *)
(* nothing: a resend that comes after a fix of another cycle has taken the   *)
(* slot is stored again, once for each time the slot changes hands.          *)
NoResendStored ==
    \A d \in States : \A i, j \in DOMAIN d.fixes :
        Neighbours(d.fixes, i, j) /\ i \notin d.torn => ~Near(d.fixes[i].fix, d.fixes[j].fix)

\* What the summary of node n was told, and of that what was not older than
\* anything told before it.
ToldOf(log, n) == {k \in DOMAIN log : log[k].node = n}
InOrder(log, n) ==
    {k \in ToldOf(log, n) : \A j \in ToldOf(log, n) : j < k => log[j].heard <= log[k].heard}

\* A NODE_STATS gave the node an older time than it had.
Backdated(log, n) == \E k \in ToldOf(log, n) \ InOrder(log, n) : log[k].fix = NoFix

(* A late resend never takes a node's summary back, as long as no NODE_STATS *)
(* has done so: last_seen is the newest time the node was heard at, battery  *)
(* is that of the last fix to arrive in order, and rssi that of the last     *)
(* frame of either kind to arrive in order.  The condition is not in the     *)
(* code's comments: without it see ResendsDoNotRegress, which fails.         *)
NewestUnlessBackdated ==
    \A d \in States : \A n \in Node : ~Backdated(d.log, n) =>
        LET s     == d.nodes[n]
            told  == ToldOf(d.log, n)
            news  == InOrder(d.log, n)
            fixes == {k \in news : d.log[k].fix # NoFix}
        IN  /\ s.known <=> told # {}
            /\ s.known => \E k \in told : s.seen = d.log[k].heard
            /\ \A k \in told : d.log[k].heard <= s.seen
            /\ \A k \in news : (\A l \in news : l <= k) => s.rssi = d.log[k].fix
            /\ \A k \in fixes : (\A l \in fixes : l <= k) => s.battery = d.log[k].fix
            /\ fixes = {} => s.battery = NoFix

(* What the comment of _upsert_node_from_fix says, whatever came before:     *)
(* "out-of-order resends must not regress" the battery a summary shows to    *)
(* that of an older fix.                                                     *)
ResendsDoNotRegress ==
    [][RefreshNode => \A n \in Node :
           db.nodes[n].battery # NoFix =>
               /\ db'.nodes[n].battery # NoFix
               /\ db.nodes[n].battery.ts <= db'.nodes[n].battery.ts]_ingest
====
