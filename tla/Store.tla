---- MODULE Store ----
(***************************************************************************)
(* The tables of pi-gateway/src/srt_gateway/store.py as values, and its    *)
(* statements as operators on them.  The fixes table is a sequence of rows *)
(* and a row's index is its primary key: the column is INTEGER PRIMARY KEY *)
(* without AUTOINCREMENT (schema.sql), so SQLite gives a new row the       *)
(* largest id of the table plus one, and the table never loses a middle    *)
(* row (the store has no DELETE).                                          *)
(***************************************************************************)
EXTENDS Integers, Sequences, FiniteSets

CONSTANTS
    Fix,     \* decoded uplink fixes: records [node, seq, ts]
    Window   \* DEDUP_WINDOW_MS, in the unit of ts

ASSUME FixAssumption ==
    \A f \in Fix : DOMAIN f = {"node", "seq", "ts"} /\ f.ts \in Nat
ASSUME WindowAssumption == Window \in Nat

\* A row: its fix, whether its seq was set NULL (it left the unique index),
\* and the synced flag.
Row   == [fix: Fix, retired: BOOLEAN, synced: BOOLEAN]
Table == Seq(Row)

EmptyTable == << >>
NextId(t)  == Len(t) + 1

----
(* SELECT id, ts_ms FROM fixes WHERE node_id=? AND seq=?  (at most one row, *)
(* as UNIQUE(node_id, seq) ignores the rows whose seq is NULL).             *)
Held(t, f) == {i \in DOMAIN t : /\ ~t[i].retired
                                /\ t[i].fix.node = f.node
                                /\ t[i].fix.seq = f.seq}

Abs(n) == IF n < 0 THEN -n ELSE n

\* Mutant: a row is recent only for a fix that is newer.
RecentForNewer(t, f, i) == (f.ts - t[i].fix.ts) \in 0..Window

\* Row i is a recent row for f, within the window on either side of it.
Recent(t, f, i) == Abs(f.ts - t[i].fix.ts) <= Window

\* The three answers of the SELECT in insert_fix.
IsDuplicate(t, f) == \E i \in Held(t, f) : Recent(t, f, i)
IsWrap(t, f)      == \E i \in Held(t, f) : ~Recent(t, f, i)
IsFresh(t, f)     == Held(t, f) = {}

\* UNIQUE (node_id, seq), over the rows whose seq is not NULL.
UniqueSlots(t) ==
    \A i, j \in DOMAIN t : j \in Held(t, t[i].fix) /\ ~t[i].retired => i = j

\* Mutant: the stale row is overwritten with the new fix.
OverwriteRow(t, f) ==
    [i \in DOMAIN t |-> IF i \in Held(t, f) THEN [t[i] EXCEPT !.fix = f] ELSE t[i]]

\* UPDATE fixes SET seq=NULL WHERE id=?  on the row f found in its slot.
RetireRow(t, f) ==
    [i \in DOMAIN t |-> IF i \in Held(t, f) THEN [t[i] EXCEPT !.retired = TRUE] ELSE t[i]]

\* INSERT INTO fixes ... synced = 0
InsertRow(t, f) == Append(t, [fix |-> f, retired |-> FALSE, synced |-> FALSE])

----
(* get_unsynced(limit): the oldest rows with synced=0, as the pairs of an  *)
(* id and a fix that are posted.  The fix stands for the position the row   *)
(* holds: one retired by then is posted with seq NULL, which no property    *)
(* tells apart, since the cloud goes by the id.                             *)
Unsynced(t)  == {i \in DOMAIN t : ~t[i].synced}
Synced(t)    == {i \in DOMAIN t : t[i].synced}

\* Mutant: a row is sent under its position in the queue, not its primary key.
GetUnsyncedByPosition(t, limit) ==
    {[id |-> Cardinality({j \in Unsynced(t) : j <= i}), fix |-> t[i].fix] :
        i \in {k \in Unsynced(t) : Cardinality({j \in Unsynced(t) : j <= k}) <= limit}}

GetUnsynced(t, limit) ==
    {[id |-> i, fix |-> t[i].fix] :
        i \in {k \in Unsynced(t) : Cardinality({j \in Unsynced(t) : j <= k}) <= limit}}

\* Mutant: the update covers every id up to the one given, as a high-water mark.
MarkRowsUpTo(t, id) ==
    [i \in DOMAIN t |-> IF i <= id THEN [t[i] EXCEPT !.synced = TRUE] ELSE t[i]]

\* UPDATE fixes SET synced=1 WHERE id=?  (a missing id updates no row)
MarkRow(t, id) ==
    [i \in DOMAIN t |-> IF i = id THEN [t[i] EXCEPT !.synced = TRUE] ELSE t[i]]

\* Whether table u is a later state of table t: every row of t is still in u
\* with its fix, and neither its synced flag nor its retirement was undone.
Extends(u, t) ==
    /\ Len(t) <= Len(u)
    /\ \A i \in DOMAIN t : /\ u[i].fix = t[i].fix
                           /\ t[i].retired => u[i].retired
                           /\ t[i].synced => u[i].synced
====
