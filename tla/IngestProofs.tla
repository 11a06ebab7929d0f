---- MODULE IngestProofs ----
(***************************************************************************)
(* The ingest path beside a health request, for every set of fixes, window *)
(* and bound: types, what the dedup of insert_fix promises, that no resend *)
(* takes a node's summary back unless a NODE_STATS backdated it, and that  *)
(* /health is always answered and reports no less than the database held.  *)
(***************************************************************************)
EXTENDS Health, StoreProofs, FiniteSetTheorems

\* What each write to the connection does to its view.
LEMMA DbUpdate ==
    ASSUME NEW d \in Db, NEW t \in Table, NEW ids \in SUBSET Nat
    PROVE  /\ [d EXCEPT !.fixes = t] \in Db
           /\ [d EXCEPT !.fixes = t].fixes = t
           /\ [d EXCEPT !.fixes = t].log = d.log
           /\ [d EXCEPT !.fixes = t].torn = d.torn
           /\ [d EXCEPT !.fixes = t, !.torn = ids] \in Db
           /\ [d EXCEPT !.fixes = t, !.torn = ids].fixes = t
           /\ [d EXCEPT !.fixes = t, !.torn = ids].log = d.log
           /\ [d EXCEPT !.fixes = t, !.torn = ids].torn = ids
  BY DEF Db

LEMMA TellLemma ==
    ASSUME NEW d \in Db, NEW n \in Node, NEW s \in Summary, NEW e \in Event
    PROVE  /\ Tell(d, n, s, e) \in Db
           /\ Tell(d, n, s, e).fixes = d.fixes
           /\ Tell(d, n, s, e).log = Append(d.log, e)
           /\ Tell(d, n, s, e).torn = d.torn
<1>1. d.nodes \in [Node -> Summary] /\ d.log \in Seq(Event)
  BY DEF Db
<1> DEFINE nodes == [d.nodes EXCEPT ![n] = s]
           log   == Append(d.log, e)
<1>2. nodes \in [Node -> Summary]
  BY <1>1
<1>3. log \in Seq(Event)
  BY <1>1
<1>4. Tell(d, n, s, e) = [[d EXCEPT !.nodes = nodes] EXCEPT !.log = log]
  BY DEF Tell, Db
<1> HIDE DEF nodes, log
<1>5. /\ [d EXCEPT !.nodes = nodes] \in Db
      /\ [d EXCEPT !.nodes = nodes].fixes = d.fixes
      /\ [d EXCEPT !.nodes = nodes].torn = d.torn
  BY <1>2 DEF Db
<1>6. \A u \in Db : /\ [u EXCEPT !.log = log] \in Db
                    /\ [u EXCEPT !.log = log].fixes = u.fixes
                    /\ [u EXCEPT !.log = log].torn = u.torn
                    /\ [u EXCEPT !.log = log].log = log
  BY <1>3 DEF Db
<1> QED
  BY <1>4, <1>5, <1>6 DEF log

LEMMA HeldLemma ==
    ASSUME NEW t \in Table, NEW f
    PROVE  Held(t, f) \in SUBSET Nat
  BY DEF Held, Table

LEMMA SerialStates ==
    /\ Idle \in Thread /\ Idle.at = "idle"
    /\ Committing \in Thread /\ Committing.at = "commit"
    /\ \A f \in Fix : /\ Telling(f) \in Thread
                      /\ Telling(f).at = "summary" /\ Telling(f).fix = f
    /\ \A f \in Fix : \A old \in SUBSET Nat :
          /\ Inserting(f, old) \in Thread
          /\ Inserting(f, old).at = "insert"
          /\ Inserting(f, old).fix = f /\ Inserting(f, old).old = old
    /\ \A entries \in Seq(Entry) :
          /\ Upserting(entries) \in Thread
          /\ Upserting(entries).at = "stats_commit" /\ Upserting(entries).entries = entries
          /\ Left(entries) \in Thread
          /\ Left(entries).at \in {"idle", "stats"}
          /\ Left(entries).at = "stats" => Left(entries).entries # << >>
<1>1. Idle \in Thread /\ Idle.at = "idle" /\ << >> \in Seq(Entry)
  BY DEF Idle, Thread
<1> HIDE DEF Idle
<1>2. \A f \in Fix : /\ Telling(f) \in Thread
                    /\ Telling(f).at = "summary" /\ Telling(f).fix = f
  BY <1>1 DEF Telling, Thread
<1>3. Committing \in Thread /\ Committing.at = "commit"
  BY <1>1 DEF Committing, Thread
<1>4. ASSUME NEW f \in Fix, NEW old \in SUBSET Nat
      PROVE  /\ Inserting(f, old) \in Thread
             /\ Inserting(f, old).at = "insert"
             /\ Inserting(f, old).fix = f /\ Inserting(f, old).old = old
  BY <1>1 DEF Inserting, Thread
<1>5. ASSUME NEW entries \in Seq(Entry)
      PROVE  /\ Upserting(entries) \in Thread
             /\ Upserting(entries).at = "stats_commit" /\ Upserting(entries).entries = entries
             /\ Left(entries) \in Thread
             /\ Left(entries).at \in {"idle", "stats"}
             /\ Left(entries).at = "stats" => Left(entries).entries # << >>
  BY <1>1 DEF Upserting, Left, Thread
<1> QED
  BY <1>1, <1>2, <1>3, <1>4, <1>5

----
LEMMA IngestTypeInit == IngestInit => TypeOK
<1> SUFFICES ASSUME IngestInit PROVE TypeOK
  OBVIOUS
<1>1. EmptyTable \in Table
  BY DEF EmptyTable, Table
<1>2. Unknown \in Summary
  BY FixAssumption DEF Unknown, Summary
<1>3. db \in Db
  BY <1>1, <1>2 DEF IngestInit, Db
<1> QED
  BY <1>3, SerialStates DEF IngestInit, TypeOK

LEMMA UplinkedTypes ==
    ASSUME TypeOK, NEW f \in Fix, Duplicate(f) \/ RetireStale(f) \/ InsertFresh(f)
    PROVE  TypeOK'
<1> USE DEF TypeOK
<1>1. db.fixes \in Table /\ db.torn \in SUBSET Nat
  BY DEF Db
<1>2. CASE Duplicate(f)
  BY <1>2, SerialStates DEF Duplicate
<1>3. CASE RetireStale(f)
  <2>1. db' \in Db
    BY <1>1, <1>3, RetireRowLemma, HeldLemma, DbUpdate DEF RetireStale
  <2>2. Held(db.fixes, f) \in SUBSET Nat
    BY <1>1, HeldLemma
  <2> QED
    BY <2>1, <2>2, <1>3, SerialStates DEF RetireStale
<1>4. CASE InsertFresh(f)
  <2>1. db' \in Db
    BY <1>1, <1>4, InsertRowLemma, DbUpdate DEF InsertFresh
  <2> QED
    BY <2>1, <1>4, SerialStates DEF InsertFresh
<1> QED
  BY <1>2, <1>3, <1>4

LEMMA RefreshTypes ==
    ASSUME TypeOK, RefreshNode
    PROVE  TypeOK'
<1> USE DEF TypeOK
<1> DEFINE f == serial.fix
           e == [node |-> f.node, heard |-> f.ts, fix |-> f]
<1>1. f \in Fix /\ f.ts \in Nat /\ f.node \in Node
  BY FixAssumption, IngestAssumption DEF RefreshNode
<1>2. db.nodes[f.node] \in Summary
  BY <1>1 DEF Db
<1>3. FromFix(db.nodes[f.node], f) \in Summary
  BY <1>1, <1>2 DEF FromFix, Summary
<1>4. e \in Event
  BY <1>1 DEF Event
<1>5. db' \in Db
  BY <1>1, <1>3, <1>4, TellLemma DEF RefreshNode
<1>6. serial' = Committing /\ disk' = disk /\ acks' = acks
  BY DEF RefreshNode
<1> HIDE DEF f, e
<1> QED
  BY <1>5, <1>6, SerialStates

LEMMA UpsertTypes ==
    ASSUME TypeOK, UpsertNode
    PROVE  TypeOK'
<1> USE DEF TypeOK
<1> DEFINE e == Head(serial.entries)
           event == [node |-> e.node, heard |-> e.heard, fix |-> NoFix]
<1>1. serial.entries \in Seq(Entry) /\ serial.entries # << >>
  BY DEF UpsertNode, Thread
<1>2. e.node \in Node /\ e.heard \in Nat
  <2>1. \A s \in Seq(Entry) : s # << >> => Head(s) \in Entry
    OBVIOUS
  <2>2. e \in Entry
    BY <1>1, <2>1
  <2> QED
    BY <2>2 DEF Entry
<1>3. db.nodes[e.node] \in Summary
  BY <1>2 DEF Db
<1>4. FromStats(db.nodes[e.node], e.heard) \in Summary
  BY <1>2, <1>3 DEF FromStats, Summary
<1>5. event \in Event
  BY <1>2 DEF Event
<1>6. db' \in Db
  BY <1>2, <1>4, <1>5, TellLemma DEF UpsertNode
<1>7. /\ serial' \in Thread /\ serial'.at = "stats_commit"
      /\ serial'.entries = serial.entries
  BY <1>1, SerialStates DEF UpsertNode
<1>8. disk' = disk /\ acks' = acks
  BY DEF UpsertNode
<1> QED
  <2> HIDE DEF e, event
  <2>1. db' \in Db /\ disk' \in Db /\ acks' \subseteq RefTypes
    BY <1>6, <1>8
  <2>2. serial'.at \notin {"insert", "summary"} /\ serial'.entries # << >>
    BY <1>1, <1>7
  <2> QED
    BY <1>7, <2>1, <2>2

\* What a step on the serial thread, of another thread or of the process does.
IngestStep == OnFrame \/ OtherCommits \/ Crash

LEMMA IngestTypeStep == TypeOK /\ (IngestStep \/ UNCHANGED ingest) => TypeOK'
<1> SUFFICES ASSUME TypeOK, IngestStep \/ UNCHANGED ingest PROVE TypeOK'
  OBVIOUS
<1> USE DEF TypeOK
<1>1. ASSUME NEW f \in Fix, Uplinked(f) PROVE TypeOK'
  BY <1>1, UplinkedTypes DEF Uplinked
<1>2. CASE InsertAfterRetire
  <2>1. db.fixes \in Table /\ db.torn \ serial.old \in SUBSET Nat /\ serial.fix \in Fix
    BY <1>2 DEF Db, InsertAfterRetire
  <2>2. db' \in Db
    BY <1>2, <2>1, InsertRowLemma, DbUpdate DEF InsertAfterRetire
  <2> QED
    BY <2>1, <2>2, <1>2, SerialStates DEF InsertAfterRetire
<1>3. CASE RefreshNode
  BY <1>3, RefreshTypes
<1>4. CASE CommitInsert
  BY <1>4, SerialStates DEF CommitInsert
<1>5. CASE InsertRaises
  BY <1>5, SerialStates DEF InsertRaises
<1>6. ASSUME NEW entries \in Stats, NEW whole \in 0..Len(entries), NodeStats(entries, whole)
      PROVE  TypeOK'
  <2>1. entries \in Seq(Entry)
    BY IngestAssumption DEF Entry
  <2>2. SubSeq(entries, 1, whole) \in Seq(Entry)
    BY <2>1
  <2> QED
    BY <2>2, <1>6, SerialStates DEF NodeStats
<1>7. CASE UpsertNode
  BY <1>7, UpsertTypes
<1>8. ASSUME serial.at \in {"stats", "stats_commit"} PROVE Tail(serial.entries) \in Seq(Entry)
  BY <1>8 DEF Thread
<1>9. CASE CommitNode
  BY <1>8, <1>9, SerialStates DEF CommitNode
<1>10. CASE EntryRaises
  BY <1>8, <1>10, SerialStates DEF EntryRaises
<1>11. ASSUME NEW ref \in RefTypes, RecordAck(ref) PROVE TypeOK'
  BY <1>11 DEF RecordAck
<1>12. CASE OtherCommits
  BY <1>12 DEF OtherCommits
<1>13. CASE Crash
  BY <1>13, SerialStates DEF Crash
<1>14. CASE UNCHANGED ingest
  BY <1>14 DEF ingest
<1> QED
  BY <1>1, <1>2, <1>3, <1>4, <1>5, <1>6, <1>7, <1>9, <1>10, <1>11, <1>12, <1>13, <1>14
  DEF IngestStep, OnFrame

----
(* Why the dedup is exact: a row is not retired only while it is the last of *)
(* its slot, and a retired row without a successor is torn.                  *)
Settled(t, torn) ==
    /\ \A i, j \in DOMAIN t :
          Neighbours(t, i, j) /\ i \notin torn => ~Near(t[i].fix, t[j].fix)
    /\ \A i, j \in DOMAIN t : SameSlot(t, i, j) /\ i < j => t[i].retired
    /\ \A i \in DOMAIN t :
          t[i].retired /\ (\A j \in DOMAIN t : SameSlot(t, i, j) => j <= i) => i \in torn

\* The row retired for f, the last of its slot and of another cycle.
Replaced(t, f, old) ==
    /\ IsFresh(t, f)
    /\ \A i \in old : /\ i \in DOMAIN t
                      /\ t[i].fix.node = f.node /\ t[i].fix.seq = f.seq
                      /\ ~Near(t[i].fix, f)
                      /\ \A j \in DOMAIN t : SameSlot(t, i, j) => j <= i

LEMMA HeldLast ==
    ASSUME NEW t \in Table, NEW torn, NEW f \in Fix, Settled(t, torn),
           NEW i \in Held(t, f)
    PROVE  /\ i \in DOMAIN t /\ i \in Nat
           /\ \A j \in DOMAIN t : SameSlot(t, i, j) => j <= i
<1>1. i \in DOMAIN t /\ ~t[i].retired
  BY DEF Held
<1>2. DOMAIN t \subseteq Nat
  BY DEF Table
<1> QED
  BY <1>1, <1>2 DEF Settled

LEMMA SettledRetire ==
    ASSUME NEW t \in Table, NEW torn, NEW f \in Fix, Settled(t, torn), IsWrap(t, f)
    PROVE  /\ Settled(RetireRow(t, f), torn \cup Held(t, f))
           /\ Replaced(RetireRow(t, f), f, Held(t, f))
<1> DEFINE u == RetireRow(t, f)
<1>1. \A i \in DOMAIN t : t[i] \in Row
  BY DEF Table
<1>2. DOMAIN u = DOMAIN t
  BY DEF RetireRow
<1>3. \A i \in DOMAIN t : /\ u[i].fix = t[i].fix
                          /\ u[i].retired = (t[i].retired \/ i \in Held(t, f))
  BY <1>1 DEF RetireRow, Row
<1> HIDE DEF u
<1>4. \A i, j \in DOMAIN t : SameSlot(u, i, j) <=> SameSlot(t, i, j)
  BY <1>3 DEF SameSlot
<1>5. \A i, j \in DOMAIN t : Neighbours(u, i, j) <=> Neighbours(t, i, j)
  BY <1>2, <1>4 DEF Neighbours
<1>6. Settled(u, torn \cup Held(t, f))
  <2>1. \A i, j \in DOMAIN u :
          Neighbours(u, i, j) /\ i \notin torn \cup Held(t, f) => ~Near(u[i].fix, u[j].fix)
    BY <1>2, <1>3, <1>5 DEF Settled
  <2>2. \A i, j \in DOMAIN u : SameSlot(u, i, j) /\ i < j => u[i].retired
    BY <1>2, <1>3, <1>4 DEF Settled
  <2>3. \A i \in DOMAIN u :
          u[i].retired /\ (\A j \in DOMAIN u : SameSlot(u, i, j) => j <= i)
              => i \in torn \cup Held(t, f)
    BY <1>2, <1>3, <1>4 DEF Settled
  <2> QED
    BY <2>1, <2>2, <2>3 DEF Settled
<1>7. IsFresh(u, f)
  BY <1>2, <1>3 DEF IsFresh, Held
<1>8. PICK w \in Held(t, f) : ~Recent(t, f, w)
  BY DEF IsWrap
<1>9. \A i \in Held(t, f) : SameSlot(t, i, w) /\ SameSlot(t, w, i)
  BY DEF Held, SameSlot
<1>10. \A i \in Held(t, f) : i = w
  <2> TAKE i \in Held(t, f)
  <2>1. i \in Nat /\ w \in Nat /\ i <= w /\ w <= i
    BY <1>9, HeldLast
  <2> QED
    BY <2>1
<1>11. ~Near(t[w].fix, f)
  <2>1. t[w].fix \in Fix
    BY <1>1, HeldLast DEF Row
  <2>2. t[w].fix.ts \in Nat /\ f.ts \in Nat
    BY <2>1, FixAssumption
  <2> QED
    BY <1>8, <2>2, WindowAssumption DEF Recent, Near, Abs
<1>12. \A i \in Held(t, f) : /\ i \in DOMAIN u
                             /\ u[i].fix.node = f.node /\ u[i].fix.seq = f.seq
                             /\ ~Near(u[i].fix, f)
                             /\ \A j \in DOMAIN u : SameSlot(u, i, j) => j <= i
  <2> TAKE i \in Held(t, f)
  <2>1. i \in DOMAIN t /\ t[i].fix.node = f.node /\ t[i].fix.seq = f.seq
    BY DEF Held
  <2>2. \A j \in DOMAIN t : SameSlot(t, i, j) => j <= i
    BY HeldLast
  <2> QED
    BY <1>2, <1>3, <1>4, <1>10, <1>11, <2>1, <2>2
<1> QED
  BY <1>6, <1>7, <1>12 DEF Replaced, u

LEMMA SettledInsert ==
    ASSUME NEW t \in Table, NEW torn, NEW f \in Fix, NEW old,
           Settled(t, torn), Replaced(t, f, old)
    PROVE  Settled(InsertRow(t, f), torn \ old)
<1> DEFINE u == InsertRow(t, f)
           n == Len(t) + 1
<1>0. /\ u \in Table /\ Len(u) = n
      /\ u[n] = [fix |-> f, retired |-> FALSE, synced |-> FALSE]
  BY InsertRowLemma DEF NextId
<1>1. /\ Len(t) \in Nat /\ DOMAIN t = 1..Len(t)
      /\ DOMAIN u = 1..n /\ n \in Nat /\ n \notin DOMAIN t
  <2> HIDE DEF u
  <2>1. Len(t) \in Nat /\ DOMAIN t = 1..Len(t) /\ DOMAIN u = 1..Len(u)
    BY <1>0 DEF Table
  <2> QED
    BY <1>0, <2>1
<1>2. \A i \in DOMAIN t : u[i] = t[i]
  BY InsertRowLemma
<1>3. u[n].fix = f /\ ~u[n].retired
  <2> HIDE DEF u, n
  <2> QED
    BY <1>0
<1>4. \A i \in DOMAIN u : i \in DOMAIN t \/ i = n
  BY <1>1
<1>5. \A i \in DOMAIN t : i \in Nat /\ i < n
  BY <1>1
<1>13. DOMAIN t \subseteq DOMAIN u /\ n \in DOMAIN u
  BY <1>1
<1> HIDE DEF u, n
<1>6. \A i, j \in DOMAIN t : SameSlot(u, i, j) <=> SameSlot(t, i, j)
  BY <1>2 DEF SameSlot
<1>7. \A i \in DOMAIN t : SameSlot(u, i, n) <=> (t[i].fix.node = f.node /\ t[i].fix.seq = f.seq)
  BY <1>2, <1>3 DEF SameSlot
<1>8. \A i \in DOMAIN t : SameSlot(u, i, n) => t[i].retired
  BY <1>7 DEF Replaced, IsFresh, Held
<1>9. \A i \in old : i \in DOMAIN t /\ SameSlot(u, i, n) /\ ~Near(t[i].fix, f)
                     /\ \A j \in DOMAIN t : SameSlot(t, i, j) => j <= i
  BY <1>7 DEF Replaced
<1>10. \A i, j \in DOMAIN u : SameSlot(u, i, j) /\ i < j => u[i].retired
  <2> SUFFICES ASSUME NEW i \in DOMAIN u, NEW j \in DOMAIN u, SameSlot(u, i, j), i < j
               PROVE  u[i].retired
    OBVIOUS
  <2>1. i \in DOMAIN t
    BY <1>4, <1>5, <1>1
  <2> QED
    BY <1>2, <1>4, <1>6, <1>8, <2>1 DEF Settled
<1>11. \A i \in DOMAIN u :
          u[i].retired /\ (\A j \in DOMAIN u : SameSlot(u, i, j) => j <= i) => i \in torn \ old
  <2> SUFFICES ASSUME NEW i \in DOMAIN u, u[i].retired,
                      \A j \in DOMAIN u : SameSlot(u, i, j) => j <= i
               PROVE  i \in torn \ old
    OBVIOUS
  <2>1. i \in DOMAIN t
    BY <1>3, <1>4
  <2>2. n \in DOMAIN u /\ ~SameSlot(u, i, n)
    BY <1>1, <1>5, <2>1
  <2>3. DOMAIN t \subseteq DOMAIN u
    BY <1>13
  <2>4. i \in torn
    BY <1>2, <1>6, <2>1, <2>3 DEF Settled
  <2> QED
    BY <1>9, <2>2, <2>4
<1>12. \A i, j \in DOMAIN u :
          Neighbours(u, i, j) /\ i \notin torn \ old => ~Near(u[i].fix, u[j].fix)
  <2> SUFFICES ASSUME NEW i \in DOMAIN u, NEW j \in DOMAIN u,
                      Neighbours(u, i, j), i \notin torn \ old
               PROVE  ~Near(u[i].fix, u[j].fix)
    OBVIOUS
  <2>1. i < j /\ SameSlot(u, i, j) /\ \A k \in DOMAIN u : i < k /\ k < j => ~SameSlot(u, i, k)
    BY DEF Neighbours
  <2>2. i \in DOMAIN t
    BY <1>1, <1>4, <1>5, <2>1
  <2>3. DOMAIN t \subseteq DOMAIN u
    BY <1>13
  <2>4. CASE j = n
    <3>1. \A k \in DOMAIN t : SameSlot(t, i, k) => k <= i
      BY <1>5, <1>6, <2>1, <2>2, <2>3, <2>4
    <3>2. t[i].retired
      BY <1>8, <2>1, <2>2, <2>4
    <3>3. i \in torn
      BY <2>2, <3>1, <3>2 DEF Settled
    <3> QED
      BY <1>2, <1>3, <1>9, <2>2, <2>4, <3>3
  <2>5. CASE j \in DOMAIN t
    <3>1. Neighbours(t, i, j)
      BY <1>6, <2>1, <2>2, <2>3, <2>5 DEF Neighbours
    <3>2. i \notin old
      BY <1>5, <1>6, <1>9, <2>1, <2>2, <2>5
    <3> QED
      BY <1>2, <2>2, <2>5, <3>1, <3>2 DEF Settled
  <2> QED
    BY <1>4, <2>4, <2>5
<1> QED
  BY <1>10, <1>11, <1>12 DEF Settled, u

----
\* f has a row of its slot within the window.
Handled(t, f) ==
    \E i \in DOMAIN t : /\ t[i].fix.node = f.node /\ t[i].fix.seq = f.seq
                       /\ Near(t[i].fix, f)

Told(d) == \A k \in DOMAIN d.log : d.log[k].fix # NoFix => Handled(d.fixes, d.log[k].fix)

DedupInv ==
    /\ TypeOK
    /\ Settled(db.fixes, db.torn) /\ Settled(disk.fixes, disk.torn)
    /\ Told(db) /\ Told(disk)
    /\ serial.at = "insert" => Replaced(db.fixes, serial.fix, serial.old)
    /\ serial.at = "summary" => Handled(db.fixes, serial.fix)

LEMMA HandledLater ==
    ASSUME NEW t \in Table, NEW u \in Table, Extends(u, t)
    PROVE  \A f : Handled(t, f) => Handled(u, f)
<1>1. DOMAIN t \subseteq DOMAIN u /\ \A i \in DOMAIN t : u[i].fix = t[i].fix
  BY ExtendsSynced DEF Extends
<1> QED
  BY <1>1 DEF Handled

LEMMA ToldLater ==
    ASSUME NEW d \in Db, NEW e \in Db, Told(d), Extends(e.fixes, d.fixes), e.log = d.log
    PROVE  Told(e)
<1>1. d.fixes \in Table /\ e.fixes \in Table
  BY DEF Db
<1> QED
  BY <1>1, HandledLater DEF Told

LEMMA ToldTell ==
    ASSUME NEW d \in Db, NEW n \in Node, NEW s \in Summary, NEW e \in Event, Told(d),
           e.fix # NoFix => Handled(d.fixes, e.fix)
    PROVE  Told(Tell(d, n, s, e))
<1>1. Tell(d, n, s, e).fixes = d.fixes /\ Tell(d, n, s, e).log = Append(d.log, e)
  BY TellLemma
<1>2. d.log \in Seq(Event)
  BY DEF Db
<1>3. \A k \in DOMAIN Append(d.log, e) :
         \/ k \in DOMAIN d.log /\ Append(d.log, e)[k] = d.log[k]
         \/ Append(d.log, e)[k] = e
  BY <1>2
<1> QED
  BY <1>1, <1>3 DEF Told

LEMMA HandledInsert ==
    ASSUME NEW t \in Table, NEW f \in Fix
    PROVE  Handled(InsertRow(t, f), f)
<1>1. /\ NextId(t) \in DOMAIN InsertRow(t, f)
      /\ InsertRow(t, f)[NextId(t)].fix = f
  <2>1. InsertRow(t, f) \in Table /\ Len(InsertRow(t, f)) = NextId(t)
    BY InsertRowLemma
  <2>2. InsertRow(t, f)[NextId(t)] = [fix |-> f, retired |-> FALSE, synced |-> FALSE]
    BY InsertRowLemma
  <2>3. Len(t) \in Nat
    BY DEF Table
  <2>4. DOMAIN InsertRow(t, f) = 1..NextId(t)
    BY <2>1 DEF Table
  <2> QED
    BY <2>2, <2>3, <2>4 DEF NextId
<1>2. Near(f, f)
  BY FixAssumption, WindowAssumption DEF Near, Abs
<1> QED
  BY <1>1, <1>2 DEF Handled

LEMMA SettledEmpty == Settled(EmptyTable, {})
  BY DEF Settled, EmptyTable

LEMMA DedupInit == IngestInit => DedupInv
<1> SUFFICES ASSUME IngestInit PROVE DedupInv
  OBVIOUS
<1>1. TypeOK
  BY IngestTypeInit
<1>2. Told(db)
  BY DEF IngestInit, Told
<1>3. Settled(db.fixes, db.torn)
  BY SettledEmpty DEF IngestInit
<1>4. serial.at = "idle" /\ disk = db
  BY SerialStates DEF IngestInit
<1> QED
  BY <1>1, <1>2, <1>3, <1>4 DEF DedupInv

LEMMA DedupUplinked ==
    ASSUME DedupInv, TypeOK', NEW f \in Fix, Duplicate(f) \/ RetireStale(f) \/ InsertFresh(f)
    PROVE  DedupInv'
<1>1. db \in Db /\ db.fixes \in Table /\ db.torn \in SUBSET Nat
  BY DEF DedupInv, TypeOK, Db
<1>2. db' \in Db
  BY DEF TypeOK
<1>3. Settled(db.fixes, db.torn) /\ Told(db) /\ Settled(disk.fixes, disk.torn) /\ Told(disk)
  BY DEF DedupInv
<1>4. disk' = disk
  BY DEF Duplicate, RetireStale, InsertFresh
<1>5. CASE Duplicate(f)
  <2>1. PICK i \in Held(db.fixes, f) : Recent(db.fixes, f, i)
    BY <1>5 DEF Duplicate, IsDuplicate
  <2>2. i \in DOMAIN db.fixes /\ db.fixes[i] \in Row
    BY <1>1, <2>1 DEF Held, Table
  <2>3. db.fixes[i].fix \in Fix
    BY <2>2 DEF Row
  <2>4. db.fixes[i].fix.ts \in Nat /\ f.ts \in Nat
    BY <2>3, FixAssumption
  <2>5. Near(db.fixes[i].fix, f)
    BY <2>1, <2>4, WindowAssumption DEF Near, Recent, Abs
  <2>6. Handled(db.fixes, f)
    BY <2>1, <2>5 DEF Handled, Held
  <2>7. db' = db /\ serial'.at = "summary" /\ serial'.fix = f
    BY <1>5, SerialStates DEF Duplicate
  <2> QED
    BY <1>3, <1>4, <2>6, <2>7 DEF DedupInv
<1>6. CASE RetireStale(f)
  <2> DEFINE old == Held(db.fixes, f)
             t   == RetireRow(db.fixes, f)
  <2>1. old \in SUBSET Nat
    BY <1>1, HeldLemma
  <2>2. t \in Table /\ Extends(t, db.fixes)
    BY <1>1, RetireRowLemma
  <2>3. db' = [db EXCEPT !.fixes = t, !.torn = db.torn \cup old]
    BY <1>6 DEF RetireStale
  <2>4. db'.fixes = t /\ db'.torn = db.torn \cup old /\ db'.log = db.log
    <3> DEFINE ids == db.torn \cup old
    <3>1. ids \in SUBSET Nat
      BY <1>1, <2>1
    <3>2. db' = [db EXCEPT !.fixes = t, !.torn = ids]
      BY <2>3
    <3> HIDE DEF ids, t
    <3>3. db'.fixes = t /\ db'.torn = ids /\ db'.log = db.log
      BY <1>1, <3>1, <3>2 DEF Db
    <3> QED
      BY <3>3 DEF ids
  <2>5. Settled(t, db.torn \cup old) /\ Replaced(t, f, old)
    BY <1>1, <1>3, <1>6, SettledRetire DEF RetireStale
  <2>6. Told(db')
    BY <1>1, <1>2, <1>3, <2>2, <2>4, ToldLater
  <2>7. serial'.at = "insert" /\ serial'.fix = f /\ serial'.old = old
    BY <1>6, <2>1, SerialStates DEF RetireStale
  <2> HIDE DEF old, t
  <2> QED
    BY <1>3, <1>4, <2>4, <2>5, <2>6, <2>7 DEF DedupInv
<1>7. CASE InsertFresh(f)
  <2> DEFINE t == InsertRow(db.fixes, f)
  <2>1. t \in Table /\ Extends(t, db.fixes)
    BY <1>1, InsertRowLemma
  <2>2. db' = [db EXCEPT !.fixes = t]
    BY <1>7 DEF InsertFresh
  <2>3. db'.fixes = t /\ db'.torn = db.torn /\ db'.log = db.log
    BY <1>1, <2>1, <2>2, DbUpdate
  <2>4. Replaced(db.fixes, f, {})
    BY <1>7 DEF InsertFresh, Replaced
  <2>5. Settled(t, db.torn)
    <3>1. Settled(t, db.torn \ {})
      BY <1>1, <1>3, <2>4, SettledInsert
    <3>2. db.torn \ {} = db.torn
      OBVIOUS
    <3> QED
      BY <3>1, <3>2
  <2>6. Told(db')
    BY <1>1, <1>2, <1>3, <2>1, <2>3, ToldLater
  <2>7. Handled(t, f)
    BY <1>1, HandledInsert
  <2>8. serial'.at = "summary" /\ serial'.fix = f
    BY <1>7, SerialStates DEF InsertFresh
  <2> HIDE DEF t
  <2> QED
    BY <1>3, <1>4, <2>3, <2>5, <2>6, <2>7, <2>8 DEF DedupInv
<1> QED
  BY <1>5, <1>6, <1>7

LEMMA DedupStep == DedupInv /\ (IngestStep \/ UNCHANGED ingest) => DedupInv'
<1> SUFFICES ASSUME DedupInv, IngestStep \/ UNCHANGED ingest PROVE DedupInv'
  OBVIOUS
<1>1. TypeOK /\ TypeOK'
  BY IngestTypeStep DEF DedupInv
<1>2. db \in Db /\ db.fixes \in Table /\ db.torn \in SUBSET Nat /\ db' \in Db /\ serial \in Thread
  BY <1>1 DEF TypeOK, Db
<1>3. Settled(db.fixes, db.torn) /\ Told(db) /\ Settled(disk.fixes, disk.torn) /\ Told(disk)
  BY DEF DedupInv
<1>4. ASSUME NEW f \in Fix, Uplinked(f) PROVE DedupInv'
  BY <1>1, <1>4, DedupUplinked DEF Uplinked
<1>5. CASE InsertAfterRetire
  <2> DEFINE f == serial.fix
             t == InsertRow(db.fixes, f)
  <2>1. f \in Fix /\ Replaced(db.fixes, f, serial.old)
    BY <1>1, <1>5 DEF InsertAfterRetire, TypeOK, DedupInv
  <2>2. t \in Table /\ Extends(t, db.fixes)
    BY <1>2, <2>1, InsertRowLemma
  <2>3. db' = [db EXCEPT !.fixes = t, !.torn = db.torn \ serial.old]
    BY <1>5 DEF InsertAfterRetire
  <2>4. db.torn \ serial.old \in SUBSET Nat
    BY <1>2
  <2>5. db'.fixes = t /\ db'.torn = db.torn \ serial.old /\ db'.log = db.log
    <3> DEFINE ids == db.torn \ serial.old
    <3>1. ids \in SUBSET Nat /\ db' = [db EXCEPT !.fixes = t, !.torn = ids]
      BY <2>3, <2>4
    <3> HIDE DEF ids, t
    <3>2. db'.fixes = t /\ db'.torn = ids /\ db'.log = db.log
      BY <1>2, <3>1 DEF Db
    <3> QED
      BY <3>2 DEF ids
  <2>6. Settled(t, db.torn \ serial.old)
    BY <1>2, <1>3, <2>1, SettledInsert
  <2>7. Told(db')
    BY <1>2, <1>3, <2>2, <2>5, ToldLater
  <2>8. Handled(t, f)
    BY <1>2, <2>1, HandledInsert
  <2>9. serial'.at = "summary" /\ serial'.fix = f /\ disk' = disk
    BY <1>5, <2>1, SerialStates DEF InsertAfterRetire
  <2> HIDE DEF t, f
  <2> QED
    BY <1>1, <1>3, <2>5, <2>6, <2>7, <2>8, <2>9 DEF DedupInv
<1>6. CASE RefreshNode
  <2> DEFINE f == serial.fix
             e == [node |-> f.node, heard |-> f.ts, fix |-> f]
             s == FromFix(db.nodes[f.node], f)
  <2>1. f \in Fix /\ f.ts \in Nat /\ f.node \in Node /\ Handled(db.fixes, f)
    BY <1>1, <1>6, FixAssumption, IngestAssumption DEF RefreshNode, TypeOK, DedupInv
  <2>2. db.nodes[f.node] \in Summary
    BY <1>2, <2>1 DEF Db
  <2>3. s \in Summary
    BY <2>1, <2>2 DEF FromFix, Summary
  <2>4. e \in Event /\ e.fix = f
    BY <2>1 DEF Event
  <2>5. db' = Tell(db, f.node, s, e)
    BY <1>6 DEF RefreshNode
  <2>6. serial'.at = "commit" /\ disk' = disk
    BY <1>6, SerialStates DEF RefreshNode
  <2> HIDE DEF f, e, s
  <2>7. Told(db')
    BY <1>2, <1>3, <2>1, <2>3, <2>4, <2>5, ToldTell
  <2>8. db'.fixes = db.fixes /\ db'.torn = db.torn
    BY <1>2, <2>1, <2>3, <2>4, <2>5, TellLemma
  <2> QED
    BY <1>1, <1>3, <2>6, <2>7, <2>8 DEF DedupInv
<1>7. CASE UpsertNode
  <2> DEFINE h == Head(serial.entries)
             e == [node |-> h.node, heard |-> h.heard, fix |-> NoFix]
             s == FromStats(db.nodes[h.node], h.heard)
  <2>1. serial.entries \in Seq(Entry) /\ serial.entries # << >>
    BY <1>1, <1>2, <1>7 DEF UpsertNode, Thread, TypeOK
  <2>2. h \in Entry
    <3>1. \A q \in Seq(Entry) : q # << >> => Head(q) \in Entry
      OBVIOUS
    <3> QED
      BY <2>1, <3>1
  <2>3. h.node \in Node /\ h.heard \in Nat
    BY <2>2 DEF Entry
  <2>4. db.nodes[h.node] \in Summary
    BY <1>2, <2>3 DEF Db
  <2>5. s \in Summary
    BY <2>3, <2>4 DEF FromStats, Summary
  <2>6. e \in Event /\ e.fix = NoFix
    BY <2>3 DEF Event
  <2>7. db' = Tell(db, h.node, s, e)
    BY <1>7 DEF UpsertNode
  <2>8. serial'.at = "stats_commit" /\ disk' = disk
    BY <1>7, <2>1, SerialStates DEF UpsertNode
  <2> HIDE DEF h, e, s
  <2>9. Told(db')
    BY <1>2, <1>3, <2>3, <2>5, <2>6, <2>7, ToldTell
  <2>10. db'.fixes = db.fixes /\ db'.torn = db.torn
    BY <1>2, <2>3, <2>5, <2>6, <2>7, TellLemma
  <2> QED
    BY <1>1, <1>3, <2>8, <2>9, <2>10 DEF DedupInv
<1>8. CASE CommitInsert
  BY <1>1, <1>3, <1>8, SerialStates DEF CommitInsert, DedupInv
<1>9. CASE InsertRaises \/ Crash
  <2>1. db' = disk /\ disk' = disk /\ serial'.at = "idle"
    BY <1>9, SerialStates DEF InsertRaises, Crash
  <2> QED
    BY <1>1, <1>3, <2>1 DEF DedupInv
<1>10. ASSUME NEW entries \in Stats, NEW whole \in 0..Len(entries), NodeStats(entries, whole)
       PROVE  DedupInv'
  <2>1. SubSeq(entries, 1, whole) \in Seq(Entry)
    <3>1. entries \in Seq(Entry)
      BY IngestAssumption DEF Entry
    <3> QED
      BY <3>1
  <2>2. db' = db /\ disk' = disk /\ serial'.at \in {"idle", "stats"}
    BY <1>10, <2>1, SerialStates DEF NodeStats
  <2> QED
    BY <1>1, <1>3, <2>2 DEF DedupInv
<1>11. CASE CommitNode \/ EntryRaises
  <2>1. serial.entries \in Seq(Entry) /\ serial.entries # << >>
    BY <1>1, <1>2, <1>11 DEF CommitNode, EntryRaises, Thread, TypeOK
  <2>2. Tail(serial.entries) \in Seq(Entry)
    BY <2>1
  <2>3. db' = db /\ disk' \in {db, disk} /\ serial'.at \in {"idle", "stats"}
    BY <1>11, <2>2, SerialStates DEF CommitNode, EntryRaises
  <2> QED
    BY <1>1, <1>3, <2>3 DEF DedupInv
<1>12. ASSUME NEW ref \in RefTypes, RecordAck(ref) PROVE DedupInv'
  BY <1>1, <1>12 DEF RecordAck, DedupInv
<1>13. CASE OtherCommits
  BY <1>1, <1>3, <1>13 DEF OtherCommits, DedupInv
<1>14. CASE UNCHANGED ingest
  BY <1>1, <1>14 DEF ingest, DedupInv
<1> QED
  BY <1>4, <1>5, <1>6, <1>7, <1>8, <1>9, <1>10, <1>11, <1>12, <1>13, <1>14
  DEF IngestStep, OnFrame

----
(* The composition: what a step of the gateway and of the request does to    *)
(* the ingest path, and the request itself.                                  *)
LEMMA HealthSteps == [HealthNext]_vars => IngestStep \/ UNCHANGED ingest \/ Close
  BY DEF HealthNext, Restart, IngestStep, ingest, vars

LEMMA TypeHealthStep == TypeOK /\ [HealthNext]_vars => TypeOK'
<1> SUFFICES ASSUME TypeOK, [HealthNext]_vars PROVE TypeOK'
  OBVIOUS
<1>1. CASE Close
  BY <1>1, SerialStates DEF Close, TypeOK
<1> QED
  BY <1>1, HealthSteps, IngestTypeStep

LEMMA DedupHealthStep == DedupInv /\ [HealthNext]_vars => DedupInv'
<1> SUFFICES ASSUME DedupInv, [HealthNext]_vars PROVE DedupInv'
  OBVIOUS
<1>1. CASE IngestStep \/ UNCHANGED ingest
  BY <1>1, DedupStep
<1>2. CASE Close
  <2>1. db' = disk /\ disk' = disk /\ serial' = Idle /\ acks' = acks
    BY <1>2 DEF Close
  <2>2. TypeOK'
    BY <2>1, SerialStates DEF DedupInv, TypeOK
  <2> QED
    BY <2>1, <2>2, SerialStates DEF DedupInv
<1> QED
  BY <1>1, <1>2, HealthSteps

LEMMA DedupInvariant == HealthSpec => []DedupInv
<1>1. HealthInit => DedupInv
  BY DedupInit DEF HealthInit
<1> QED
  BY <1>1, DedupHealthStep, PTL DEF HealthSpec

(* insert_fix takes no fix of another cycle for a resend: every fix it       *)
(* handled has a row of its slot within the window, in the open transaction  *)
(* and on disk, whatever raised, was rolled back or crashed.                 *)
THEOREM NoFixIsSwallowed == HealthSpec => []NoFixSwallowed
<1>1. DedupInv => NoFixSwallowed
  BY DEF DedupInv, Told, Handled, NoFixSwallowed, States
<1> QED
  BY <1>1, DedupInvariant, PTL

(* insert_fix stores no resend beside the row it repeats, unless that row    *)
(* was retired for a fix whose insert was then cut off.                      *)
THEOREM NoResendIsStored == HealthSpec => []NoResendStored
<1>1. DedupInv => NoResendStored
  BY DEF DedupInv, Settled, NoResendStored, States
<1> QED
  BY <1>1, DedupInvariant, PTL

----
(* The request: its type, and why it is answered.                           *)

\* The sections a request has behind it.
Behind(at) ==
    {s \in Sections : \/ s = "store" /\ at \notin {"none", "nodes", "total"}
                      \/ s = "uplink" /\ at \in {"downlink", "acks", "respond", "done"}
                      \/ s = "downlink" /\ at \in {"respond", "done"}}

Answered(r) ==
    /\ r.given \cup r.errors = Behind(r.at)
    /\ r.given \cap r.errors = {}
    /\ r.at = "done" => r.code = 200

AnswerInv == HealthTypeOK /\ Answered(req)

LEMMA BehindLemma ==
    /\ Behind("none") = {} /\ Behind("nodes") = {} /\ Behind("total") = {}
    /\ Behind("uplink") = {"store"}
    /\ Behind("downlink") = {"store", "uplink"} /\ Behind("acks") = {"store", "uplink"}
    /\ Behind("respond") = Sections /\ Behind("done") = Sections
  BY DEF Behind, Sections

LEMMA AsksLemma ==
    /\ NotAsked \in Request /\ NotAsked.at = "none" /\ Answered(NotAsked)
    /\ \A fixes \in SUBSET Fix : \A n \in Nat :
          LET r == [NotAsked EXCEPT !.at = "nodes", !.unlisted = fixes, !.uncounted = n]
          IN  r \in Request /\ r.at = "nodes" /\ Answered(r)
<1>1. NotAsked \in Request /\ NotAsked.at = "none"
  BY DEF NotAsked, Request, Steps, Sections
<1>2. Answered(NotAsked)
  BY BehindLemma DEF NotAsked, Answered
<1>3. ASSUME NEW fixes \in SUBSET Fix, NEW n \in Nat
      PROVE  LET r == [NotAsked EXCEPT !.at = "nodes", !.unlisted = fixes, !.uncounted = n]
             IN  r \in Request /\ r.at = "nodes" /\ Answered(r)
  <2> DEFINE r == [NotAsked EXCEPT !.at = "nodes", !.unlisted = fixes, !.uncounted = n]
  <2>1. r \in Request /\ r.at = "nodes" /\ r.given = {} /\ r.errors = {}
    BY DEF NotAsked, Request, Steps, Sections
  <2> HIDE DEF r
  <2>2. Answered(r)
    BY <2>1, BehindLemma DEF Answered
  <2> QED
    BY <2>1, <2>2 DEF r
<1> QED
  BY <1>1, <1>2, <1>3

LEMMA AskStep ==
    ASSUME AnswerInv, Ask
    PROVE  req' \in Request /\ req'.at = "nodes" /\ Answered(req')
<1>1. disk.fixes \in Table
  BY DEF AnswerInv, HealthTypeOK, TypeOK, Db
<1>2. \A i \in DOMAIN disk.fixes : disk.fixes[i] \in Row
  BY <1>1 DEF Table
<1>3. {disk.fixes[i].fix : i \in DOMAIN disk.fixes} \in SUBSET Fix
  BY <1>2 DEF Row
<1>4. Len(disk.fixes) \in Nat
  BY <1>1 DEF Table
<1> QED
  BY <1>3, <1>4, AsksLemma DEF Ask

\* A section fails, and the request goes on behind it.
LEMMA FailedStep ==
    ASSUME AnswerInv, NEW section \in Sections, Failed(section),
           \/ section = "store" /\ req.at \in {"nodes", "total"}
           \/ section = "uplink" /\ req.at = "uplink"
           \/ section = "downlink" /\ req.at = "acks"
    PROVE  /\ req' \in Request /\ Answered(req')
           /\ req'.errors = req.errors \cup {section}
           /\ req'.unlisted \in {{}, req.unlisted} /\ req'.uncounted \in {0, req.uncounted}
           /\ req'.at \in {"uplink", "downlink", "respond"}
<1>1. /\ req \in Request /\ req.errors \in SUBSET Sections /\ 0 \in Nat
      /\ req.unlisted \in SUBSET Fix /\ req.uncounted \in Nat
  BY DEF AnswerInv, HealthTypeOK, Request
<1>2. PICK at \in {"uplink", "downlink", "respond"},
           left \in {{}, req.unlisted}, rest \in {0, req.uncounted} :
         /\ req' = [req EXCEPT !.at = at, !.size = 0, !.errors = req.errors \cup {section},
                               !.unlisted = left, !.uncounted = rest]
         /\ section = "store" => at = "uplink"
         /\ section = "uplink" => at = "downlink"
         /\ section = "downlink" => at = "respond"
  BY DEF Failed, Sections
<1>3. /\ at \in Steps /\ req.errors \cup {section} \in SUBSET Sections
      /\ left \in SUBSET Fix /\ rest \in Nat
  BY <1>1, <1>2 DEF Steps
<1>4. /\ req' \in Request /\ req'.at = at /\ req'.errors = req.errors \cup {section}
      /\ req'.given = req.given
      /\ req'.unlisted = left /\ req'.uncounted = rest
  BY <1>1, <1>2, <1>3, ZenonT(60) DEF Request
<1>5. Behind(at) = Behind(req.at) \cup {section} /\ section \notin Behind(req.at)
  BY <1>2, BehindLemma DEF Sections
<1>6. req.given \cup req.errors = Behind(req.at) /\ req.given \cap req.errors = {}
  BY DEF AnswerInv, Answered
<1>7. req'.given \cup req'.errors = Behind(at) /\ req'.given \cap req'.errors = {}
  BY <1>4, <1>5, <1>6
<1>8. at # "done"
  BY <1>2
<1> QED
  BY <1>2, <1>4, <1>7, <1>8 DEF Answered

\* A section is read, and the request goes on behind it.
LEMMA GivenStep ==
    ASSUME AnswerInv, NEW r \in Request, NEW section \in Sections,
           r.given = req.given \cup {section}, r.errors = req.errors,
           Behind(r.at) = Behind(req.at) \cup {section}, section \notin Behind(req.at),
           r.at # "done"
    PROVE  Answered(r)
<1>1. req.given \cup req.errors = Behind(req.at) /\ req.given \cap req.errors = {}
  BY DEF AnswerInv, Answered
<1> QED
  BY <1>1 DEF Answered

LEMMA ServeStep ==
    ASSUME AnswerInv, Serve
    PROVE  req' \in Request /\ Answered(req')
<1>0. req \in Request /\ db \in Db /\ Answered(req)
  BY DEF AnswerInv, HealthTypeOK, TypeOK
<1>1. /\ db.fixes \in Table /\ 0 \in Nat
      /\ req.given \in SUBSET Sections
  BY <1>0 DEF Db, Request
<1>2. /\ {"store", "uplink", "downlink"} \subseteq Sections
      /\ req.given \cup {"store"} \in SUBSET Sections
      /\ req.given \cup {"uplink"} \in SUBSET Sections
      /\ req.given \cup {"downlink"} \in SUBSET Sections
  BY <1>1 DEF Sections
<1>3. CASE Ask
  BY <1>3, AskStep
<1>4. CASE ReadNodes
  <2>1. PICK left \in SUBSET req.unlisted : req' = [req EXCEPT !.at = "total", !.unlisted = left]
    BY <1>4 DEF ReadNodes
  <2>2. left \in SUBSET Fix /\ "total" \in Steps
    BY <1>0, <2>1 DEF Request, Steps
  <2>3. /\ req' \in Request /\ req'.at = "total"
        /\ req'.given = req.given /\ req'.errors = req.errors
    BY <1>0, <2>1, <2>2, ZenonT(60) DEF Request
  <2>4. req.at = "nodes"
    BY <1>4 DEF ReadNodes
  <2> QED
    BY <1>0, <2>3, <2>4, BehindLemma DEF Answered
<1>5. CASE ReadTotal
  <2>1. Len(db.fixes) \in Nat /\ req.uncounted \in Nat /\ "uplink" \in Steps
    BY <1>0, <1>1 DEF Table, Request, Steps
  <2> DEFINE rest == IF req.uncounted > Len(db.fixes) THEN req.uncounted - Len(db.fixes) ELSE 0
  <2>2. rest \in Nat
    BY <2>1
  <2>3. req' = [req EXCEPT !.at = "uplink", !.given = req.given \cup {"store"}, !.uncounted = rest]
    BY <1>5 DEF ReadTotal
  <2> HIDE DEF rest
  <2>4. /\ req' \in Request /\ req'.at = "uplink"
        /\ req'.given = req.given \cup {"store"} /\ req'.errors = req.errors
    BY <1>0, <1>2, <2>1, <2>2, <2>3, ZenonT(60) DEF Request
  <2>5. Behind(req'.at) = Behind(req.at) \cup {"store"} /\ "store" \notin Behind(req.at)
    BY <1>5, <2>4, BehindLemma DEF ReadTotal
  <2> QED
    BY <1>2, <2>4, <2>5, GivenStep
<1>6. CASE StoreFails
  BY <1>2, <1>6, FailedStep DEF StoreFails, SelectRaises
<1>7. CASE UplinkHealth
  <2>1. CASE ReadBacklog
    <3>1. req.at = "uplink" /\ req' = [req EXCEPT !.at = "downlink", !.given = req.given \cup {"uplink"}]
      BY <2>1 DEF ReadBacklog
    <3>2. "downlink" \in Steps
      BY DEF Steps
    <3>3. /\ req' \in Request /\ req'.at = "downlink"
          /\ req'.given = req.given \cup {"uplink"} /\ req'.errors = req.errors
      BY <1>0, <1>2, <3>1, <3>2, ZenonT(60) DEF Request
    <3>4. Behind(req'.at) = Behind(req.at) \cup {"uplink"} /\ "uplink" \notin Behind(req.at)
      BY <3>1, <3>3, BehindLemma
    <3> QED
      BY <1>2, <3>3, <3>4, GivenStep
  <2>2. CASE SelectRaises({"uplink"}, "uplink")
    BY <1>2, <2>2, FailedStep DEF SelectRaises
  <2> QED
    BY <1>7, <2>1, <2>2 DEF UplinkHealth
<1>8. CASE IterateAcks
  <2>1. Cardinality(acks) \in Nat /\ "acks" \in Steps
    BY IngestAssumption, FS_Subset, FS_CardinalityType
    DEF AnswerInv, HealthTypeOK, TypeOK, Steps
  <2>2. req.at = "downlink" /\ req' = [req EXCEPT !.at = "acks", !.size = Cardinality(acks)]
    BY <1>8 DEF IterateAcks
  <2>3. req' \in Request /\ req'.at = "acks" /\ req'.given = req.given /\ req'.errors = req.errors
    BY <1>0, <2>1, <2>2, ZenonT(60) DEF Request
  <2> QED
    BY <1>0, <2>2, <2>3, BehindLemma DEF Answered
<1>9. CASE DownlinkHealth
  <2>1. CASE req.at = "acks" /\ req' = [req EXCEPT !.at = "respond", !.size = 0,
                                                   !.given = req.given \cup {"downlink"}]
    <3>1. "respond" \in Steps
      BY DEF Steps
    <3>2. /\ req' \in Request /\ req'.at = "respond"
          /\ req'.given = req.given \cup {"downlink"} /\ req'.errors = req.errors
      BY <1>0, <1>1, <1>2, <2>1, <3>1, ZenonT(60) DEF Request
    <3>3. Behind(req'.at) = Behind(req.at) \cup {"downlink"} /\ "downlink" \notin Behind(req.at)
      BY <2>1, <3>2, BehindLemma DEF Sections
    <3> QED
      BY <1>2, <3>2, <3>3, GivenStep
  <2>2. CASE req.at = "acks" /\ Failed("downlink")
    BY <1>2, <2>2, FailedStep
  <2> QED
    BY <1>9, <2>1, <2>2 DEF DownlinkHealth
<1>10. CASE Respond
  <2>1. req.at = "respond" /\ req' = [req EXCEPT !.at = "done", !.code = 200]
    BY <1>10 DEF Respond
  <2>2. "done" \in Steps
    BY DEF Steps
  <2>3. /\ req' \in Request /\ req'.at = "done" /\ req'.given = req.given
        /\ req'.errors = req.errors /\ req'.code = 200
    BY <1>0, <2>1, <2>2, ZenonT(60) DEF Request
  <2> QED
    BY <1>0, <2>1, <2>3, BehindLemma DEF Answered
<1> QED
  BY <1>3, <1>4, <1>5, <1>6, <1>7, <1>8, <1>9, <1>10 DEF Serve

LEMMA AnswerStep == AnswerInv /\ [HealthNext]_vars => AnswerInv'
<1> SUFFICES ASSUME AnswerInv, [HealthNext]_vars PROVE AnswerInv'
  OBVIOUS
<1>1. TypeOK
  BY DEF AnswerInv, HealthTypeOK
<1>2. TypeOK'
  BY <1>1, TypeHealthStep
<1>3. CASE Serve /\ UNCHANGED <<ingest, closed>>
  <2>1. closed' \in BOOLEAN
    BY <1>3 DEF AnswerInv, HealthTypeOK
  <2> QED
    BY <1>2, <1>3, <2>1, ServeStep DEF AnswerInv, HealthTypeOK
<1>4. CASE UNCHANGED <<closed, req>>
  BY <1>2, <1>4 DEF AnswerInv, HealthTypeOK
<1>5. CASE Close
  BY <1>2, <1>5 DEF Close, AnswerInv, HealthTypeOK
<1>6. CASE Restart
  BY <1>2, <1>6, AsksLemma DEF Restart, AnswerInv, HealthTypeOK
<1> QED
  BY <1>3, <1>4, <1>5, <1>6 DEF HealthNext, vars

LEMMA AnswerInvariant == HealthSpec => []AnswerInv
<1>1. HealthInit => AnswerInv
  BY IngestTypeInit, AsksLemma DEF HealthInit, AnswerInv, HealthTypeOK
<1> QED
  BY <1>1, AnswerStep, PTL DEF HealthSpec

(* The tables, the serial thread and the request stay well formed.          *)
THEOREM HealthTypeCorrect == HealthSpec => []HealthTypeOK
<1>1. AnswerInv => HealthTypeOK
  BY DEF AnswerInv
<1> QED
  BY <1>1, AnswerInvariant, PTL

(* Every request that is answered is answered with a 200 that holds every    *)
(* section once, as data or as an error, whichever SELECTs raise.            *)
THEOREM HealthAnswers == HealthSpec => []AlwaysAnswers
<1>1. AnswerInv => AlwaysAnswers
  BY BehindLemma DEF AnswerInv, Answered, AlwaysAnswers
<1> QED
  BY <1>1, AnswerInvariant, PTL

----
(* Why a resend takes no summary back: what the property says of a summary   *)
(* and the log is kept by each event, as long as none backdates the node.    *)
Informs(s, log, n) ==
    LET told  == ToldOf(log, n)
        news  == InOrder(log, n)
        fixes == {k \in news : log[k].fix # NoFix}
    IN  /\ s.known <=> told # {}
        /\ s.known => \E k \in told : s.seen = log[k].heard
        /\ \A k \in told : log[k].heard <= s.seen
        /\ \A k \in news : (\A l \in news : l <= k) => s.rssi = log[k].fix
        /\ \A k \in fixes : (\A l \in fixes : l <= k) => s.battery = log[k].fix
        /\ fixes = {} => s.battery = NoFix

InformedOf(s, log, n) == ~Backdated(log, n) => Informs(s, log, n)

Informed(d) == \A n \in Node : InformedOf(d.nodes[n], d.log, n)

\* The events on a node in a log with one more event, and in the log before it.
LEMMA OneMore ==
    ASSUME NEW log \in Seq(Event), NEW e \in Event
    PROVE  LET more == Append(log, e)
               last == Len(log) + 1
           IN  /\ last \in Nat /\ more[last] = e /\ DOMAIN more = DOMAIN log \cup {last}
               /\ \A k \in DOMAIN log : /\ more[k] = log[k] /\ k \in Nat /\ k < last
                                        /\ log[k].heard \in Nat
<1>1. \A k \in DOMAIN log : log[k] \in Event
  OBVIOUS
<1>2. \A k \in DOMAIN log : log[k].heard \in Nat
  BY <1>1 DEF Event
<1> QED
  BY <1>2

LEMMA EventsOneMore ==
    ASSUME NEW log \in Seq(Event), NEW e \in Event, NEW n
    PROVE  LET more == Append(log, e)
               last == Len(log) + 1
               newer == e.node = n /\ \A j \in ToldOf(log, n) : log[j].heard <= e.heard
           IN  /\ ToldOf(more, n) = ToldOf(log, n) \cup (IF e.node = n THEN {last} ELSE {})
               /\ InOrder(more, n) = InOrder(log, n) \cup (IF newer THEN {last} ELSE {})
               /\ Backdated(log, n) => Backdated(more, n)
               /\ e.node = n /\ e.fix = NoFix /\ ~Backdated(more, n) => newer
<1> DEFINE more == Append(log, e)
           last == Len(log) + 1
           newer == e.node = n /\ \A j \in ToldOf(log, n) : log[j].heard <= e.heard
<1>1. /\ last \in Nat /\ more[last] = e /\ DOMAIN more = DOMAIN log \cup {last}
      /\ \A k \in DOMAIN log : more[k] = log[k] /\ k \in Nat /\ k < last
  BY OneMore
<1> HIDE DEF more, last
<1>2. ToldOf(more, n) = ToldOf(log, n) \cup (IF e.node = n THEN {last} ELSE {})
  BY <1>1 DEF ToldOf
<1>3. ToldOf(log, n) \subseteq DOMAIN log
  BY DEF ToldOf
<1>4. \A k \in ToldOf(log, n) : k \in InOrder(more, n) <=> k \in InOrder(log, n)
  <2> TAKE k \in ToldOf(log, n)
  <2>1. \A j \in ToldOf(more, n) : j < k => j \in ToldOf(log, n)
    BY <1>1, <1>2, <1>3
  <2> QED
    BY <1>1, <1>2, <1>3, <2>1 DEF InOrder
<1>5. e.node = n => (last \in InOrder(more, n) <=> newer)
  <2> SUFFICES ASSUME e.node = n PROVE last \in InOrder(more, n) <=> newer
    OBVIOUS
  <2>1. \A j \in ToldOf(more, n) : j < last <=> j \in ToldOf(log, n)
    BY <1>1, <1>2, <1>3
  <2> QED
    BY <1>1, <1>2, <1>3, <2>1 DEF InOrder
<1>6. last \notin DOMAIN log
  BY <1>1
<1> HIDE DEF newer
<1>7. InOrder(more, n) = InOrder(log, n) \cup (IF newer THEN {last} ELSE {})
  <2>1. InOrder(more, n) \subseteq ToldOf(more, n) /\ InOrder(log, n) \subseteq ToldOf(log, n)
    BY DEF InOrder
  <2>2. newer => e.node = n
    BY DEF newer
  <2> QED
    BY <1>2, <1>4, <1>5, <2>1, <2>2
<1>8. Backdated(log, n) => Backdated(more, n)
  BY <1>1, <1>2, <1>3, <1>4 DEF Backdated
<1>9. e.node = n /\ e.fix = NoFix /\ ~Backdated(more, n) => newer
  BY <1>1, <1>2, <1>5 DEF Backdated
<1> QED
  BY <1>2, <1>7, <1>8, <1>9 DEF more, last, newer

\* An event on another node, or a fix that comes late, leaves a summary right.
LEMMA InformedStays ==
    ASSUME NEW log \in Seq(Event), NEW e \in Event, NEW n, NEW s, s.seen \in Nat,
           e.node = n => s.known /\ \E j \in ToldOf(log, n) : e.heard < log[j].heard,
           InformedOf(s, log, n)
    PROVE  InformedOf(s, Append(log, e), n)
<1> DEFINE more == Append(log, e)
           last == Len(log) + 1
           newer == e.node = n /\ \A j \in ToldOf(log, n) : log[j].heard <= e.heard
<1>1. /\ more[last] = e
      /\ \A k \in DOMAIN log : more[k] = log[k] /\ log[k].heard \in Nat
  BY OneMore
<1>2. e.heard \in Nat
  BY DEF Event
<1>3. ToldOf(log, n) \subseteq DOMAIN log
  BY DEF ToldOf
<1>4. /\ ToldOf(more, n) = ToldOf(log, n) \cup (IF e.node = n THEN {last} ELSE {})
      /\ InOrder(more, n) = InOrder(log, n) \cup (IF newer THEN {last} ELSE {})
      /\ Backdated(log, n) => Backdated(more, n)
  BY EventsOneMore
<1>5. ~newer
  BY <1>1, <1>2, <1>3
<1>6. InOrder(log, n) \subseteq DOMAIN log
  BY <1>3 DEF InOrder
<1> HIDE DEF more, last, newer
<1>7. Informs(s, log, n) => Informs(s, more, n)
  <2> SUFFICES ASSUME Informs(s, log, n) PROVE Informs(s, more, n)
    OBVIOUS
  <2>1. /\ s.known <=> ToldOf(log, n) # {}
        /\ s.known => \E k \in ToldOf(log, n) : s.seen = log[k].heard
        /\ \A k \in ToldOf(log, n) : log[k].heard <= s.seen
    BY DEF Informs
  <2>2. e.node = n => s.known /\ e.heard <= s.seen
    BY <1>1, <1>2, <1>3, <2>1
  <2>3. /\ s.known <=> ToldOf(more, n) # {}
        /\ s.known => \E k \in ToldOf(more, n) : s.seen = more[k].heard
        /\ \A k \in ToldOf(more, n) : more[k].heard <= s.seen
    BY <1>1, <1>3, <1>4, <2>1, <2>2
  <2>4. {k \in InOrder(more, n) : more[k].fix # NoFix} = {k \in InOrder(log, n) : log[k].fix # NoFix}
    BY <1>1, <1>4, <1>5, <1>6
  <2> QED
    BY <1>1, <1>4, <1>5, <1>6, <2>3, <2>4 DEF Informs
<1> QED
  BY <1>4, <1>7 DEF InformedOf, more

\* So does one that is not older than any before it, once it has been told.
LEMMA InformedNew ==
    ASSUME NEW log \in Seq(Event), NEW e \in Event, NEW s, NEW r,
           \A j \in ToldOf(log, e.node) : log[j].heard <= e.heard,
           r.known, r.seen = e.heard, r.rssi = e.fix,
           r.battery = IF e.fix # NoFix THEN e.fix ELSE s.battery,
           InformedOf(s, log, e.node)
    PROVE  InformedOf(r, Append(log, e), e.node)
<1> DEFINE n == e.node
           more == Append(log, e)
           last == Len(log) + 1
           old == {k \in InOrder(log, n) : log[k].fix # NoFix}
           fixes == {k \in InOrder(more, n) : more[k].fix # NoFix}
<1>1. /\ last \in Nat /\ more[last] = e
      /\ \A k \in DOMAIN log : more[k] = log[k] /\ k \in Nat /\ k < last
  BY OneMore
<1>2. e.heard \in Nat
  BY DEF Event
<1>3. /\ ToldOf(more, n) = ToldOf(log, n) \cup {last}
      /\ InOrder(more, n) = InOrder(log, n) \cup {last}
      /\ Backdated(log, n) => Backdated(more, n)
  BY EventsOneMore
<1>4. ToldOf(log, n) \subseteq DOMAIN log /\ InOrder(log, n) \subseteq DOMAIN log
  BY DEF ToldOf, InOrder
<1> HIDE DEF more, last, n
<1>5. fixes = old \cup (IF e.fix # NoFix THEN {last} ELSE {})
  BY <1>1, <1>3, <1>4
<1>6. old \subseteq DOMAIN log
  BY <1>4
<1> HIDE DEF old, fixes
<1>7. Informs(s, log, n) => Informs(r, more, n)
  <2> SUFFICES ASSUME Informs(s, log, n) PROVE Informs(r, more, n)
    OBVIOUS
  <2>1. \A k \in ToldOf(more, n) : more[k].heard <= r.seen
    BY <1>1, <1>2, <1>3, <1>4 DEF n
  <2>2. \A k \in InOrder(more, n) : (\A l \in InOrder(more, n) : l <= k) => r.rssi = more[k].fix
    <3> SUFFICES ASSUME NEW k \in InOrder(more, n), \A l \in InOrder(more, n) : l <= k
                 PROVE  r.rssi = more[k].fix
      OBVIOUS
    <3>1. last <= k /\ (k = last \/ (k \in Nat /\ k < last))
      BY <1>1, <1>3, <1>4
    <3> QED
      BY <1>1, <3>1
  <2>3. CASE e.fix # NoFix
    <3>1. \A k \in fixes : k = last \/ (k \in Nat /\ k < last)
      BY <1>1, <1>5, <1>6
    <3>2. last \in fixes
      BY <1>5, <2>3
    <3>3. \A k \in fixes : (\A l \in fixes : l <= k) => r.battery = more[k].fix
      BY <1>1, <2>3, <3>1, <3>2
    <3> QED
      BY <1>1, <1>3, <2>1, <2>2, <3>2, <3>3 DEF Informs, fixes
  <2>4. CASE e.fix = NoFix
    <3>1. fixes = old /\ r.battery = s.battery
      BY <1>5, <2>4
    <3>2. /\ \A k \in old : (\A l \in old : l <= k) => s.battery = log[k].fix
          /\ old = {} => s.battery = NoFix
      BY DEF Informs, old
    <3>3. \A k \in fixes : (\A l \in fixes : l <= k) => r.battery = more[k].fix
      BY <1>1, <1>6, <3>1, <3>2
    <3> QED
      BY <1>1, <1>3, <2>1, <2>2, <3>1, <3>2, <3>3 DEF Informs, fixes
  <2> QED
    BY <2>3, <2>4
<1> QED
  BY <1>3, <1>7 DEF InformedOf, more, n

LEMMA InformedTell ==
    ASSUME NEW d \in Db, NEW n \in Node, NEW s \in Summary, NEW e \in Event, e.node = n,
           Informed(d), InformedOf(s, Append(d.log, e), n)
    PROVE  Informed(Tell(d, n, s, e))
<1>1. Tell(d, n, s, e).log = Append(d.log, e) /\ d.log \in Seq(Event)
  BY TellLemma DEF Db
<1>2. \A m \in Node : Tell(d, n, s, e).nodes[m] = IF m = n THEN s ELSE d.nodes[m]
  BY DEF Tell, Db
<1>3. \A m \in Node : m # n => InformedOf(d.nodes[m], Append(d.log, e), m)
  <2>1. \A m \in Node : d.nodes[m].seen \in Nat
    BY DEF Db, Summary
  <2> QED
    BY <1>1, <2>1, InformedStays DEF Informed
<1> QED
  BY <1>1, <1>2, <1>3 DEF Informed

\* What an event becomes of what is shown, a fix or an entry of NODE_STATS.
LEMMA FixInforms ==
    ASSUME NEW log \in Seq(Event), NEW s \in Summary, NEW f \in Fix,
           InformedOf(s, log, f.node)
    PROVE  InformedOf(FromFix(s, f), Append(log, [node |-> f.node, heard |-> f.ts, fix |-> f]), f.node)
<1> DEFINE e == [node |-> f.node, heard |-> f.ts, fix |-> f]
           r == FromFix(s, f)
<1>1. f.ts \in Nat /\ f.node \in Node /\ f # NoFix /\ s.seen \in Nat
  BY FixAssumption, IngestAssumption DEF Summary
<1>2. e \in Event /\ e.node = f.node /\ e.heard = f.ts /\ e.fix = f
  BY <1>1 DEF Event
<1>3. /\ s.known /\ f.ts < s.seen => r = s
      /\ ~(s.known /\ f.ts < s.seen) => r.known /\ r.seen = f.ts /\ r.battery = f /\ r.rssi = f
  BY DEF FromFix
<1> HIDE DEF e, r
<1>4. Backdated(log, f.node) => InformedOf(r, Append(log, e), f.node)
  BY <1>2, EventsOneMore DEF InformedOf
<1>5. ASSUME Informs(s, log, f.node), s.known, f.ts < s.seen
      PROVE  InformedOf(r, Append(log, e), f.node)
  <2>1. \E j \in ToldOf(log, f.node) : e.heard < log[j].heard
    BY <1>2, <1>5 DEF Informs
  <2>2. InformedOf(s, Append(log, e), f.node)
    BY <1>1, <1>2, <1>5, <2>1, InformedStays DEF InformedOf
  <2> QED
    BY <1>3, <1>5, <2>2
<1>6. ASSUME Informs(s, log, f.node), ~(s.known /\ f.ts < s.seen)
      PROVE  InformedOf(r, Append(log, e), f.node)
  <2>1. \A j \in ToldOf(log, f.node) : log[j].heard \in Nat /\ log[j].heard <= s.seen
    BY <1>6, OneMore, <1>2 DEF Informs, ToldOf
  <2>2. \A j \in ToldOf(log, f.node) : log[j].heard <= e.heard
    BY <1>1, <1>2, <1>6, <2>1 DEF Informs
  <2>3. InformedOf(r, Append(log, e), e.node)
    BY <1>1, <1>2, <1>3, <1>6, <2>2, InformedNew DEF InformedOf
  <2> QED
    BY <1>2, <2>3
<1>7. InformedOf(r, Append(log, e), f.node)
  BY <1>4, <1>5, <1>6 DEF InformedOf
<1> QED
  BY <1>7 DEF e, r

LEMMA StatsInform ==
    ASSUME NEW log \in Seq(Event), NEW s \in Summary, NEW n \in Node, NEW heard \in Nat,
           InformedOf(s, log, n)
    PROVE  InformedOf(FromStats(s, heard), Append(log, [node |-> n, heard |-> heard, fix |-> NoFix]), n)
<1> DEFINE e == [node |-> n, heard |-> heard, fix |-> NoFix]
           r == FromStats(s, heard)
<1>1. e \in Event /\ e.node = n /\ e.heard = heard /\ e.fix = NoFix
  BY DEF Event
<1>2. r.known /\ r.seen = heard /\ r.rssi = NoFix /\ r.battery = s.battery
  BY DEF FromStats, Summary
<1> HIDE DEF e, r
<1>3. ~Backdated(Append(log, e), n) => \A j \in ToldOf(log, n) : log[j].heard <= e.heard
  BY <1>1, EventsOneMore
<1>4. InformedOf(r, Append(log, e), n)
  BY <1>1, <1>2, <1>3, InformedNew DEF InformedOf
<1> QED
  BY <1>4 DEF e, r

NewsInv == TypeOK /\ Informed(db) /\ Informed(disk)

\* Only these two statements write a summary.
LEMMA OtherSteps ==
    ASSUME TypeOK, [HealthNext]_vars, ~RefreshNode, ~UpsertNode
    PROVE  /\ db' = disk \/ (db'.log = db.log /\ db'.nodes = db.nodes)
           /\ disk' \in {db, disk}
<1>1. db \in Db
  BY DEF TypeOK
<1>2. ASSUME NEW t, NEW ids
      PROVE  /\ [db EXCEPT !.fixes = t].log = db.log /\ [db EXCEPT !.fixes = t].nodes = db.nodes
             /\ [db EXCEPT !.fixes = t, !.torn = ids].log = db.log
             /\ [db EXCEPT !.fixes = t, !.torn = ids].nodes = db.nodes
  BY <1>1 DEF Db
<1>3. CASE \E f \in Fix : Uplinked(f)
  <2>1. PICK f \in Fix : Duplicate(f) \/ RetireStale(f) \/ InsertFresh(f)
    BY <1>3 DEF Uplinked
  <2>2. CASE Duplicate(f)
    BY <2>2 DEF Duplicate
  <2>3. CASE RetireStale(f)
    BY <1>2, <2>3 DEF RetireStale
  <2>4. CASE InsertFresh(f)
    BY <1>2, <2>4 DEF InsertFresh
  <2> QED
    BY <2>1, <2>2, <2>3, <2>4
<1>4. CASE InsertAfterRetire
  BY <1>2, <1>4 DEF InsertAfterRetire
<1>5. CASE CommitInsert \/ InsertRaises \/ CommitNode \/ EntryRaises \/ OtherCommits \/ Crash \/ Close
  BY <1>5 DEF CommitInsert, InsertRaises, CommitNode, EntryRaises, OtherCommits, Crash, Close
<1>6. CASE \/ \E entries \in Stats : \E whole \in 0..Len(entries) : NodeStats(entries, whole)
           \/ \E ref \in RefTypes : RecordAck(ref)
           \/ UNCHANGED ingest
  BY <1>6 DEF NodeStats, RecordAck, ingest
<1> QED
  BY <1>3, <1>4, <1>5, <1>6, HealthSteps DEF IngestStep, OnFrame

LEMMA NewsStep == NewsInv /\ [HealthNext]_vars => NewsInv'
<1> SUFFICES ASSUME NewsInv, [HealthNext]_vars PROVE NewsInv'
  OBVIOUS
<1>1. TypeOK
  BY DEF NewsInv
<1>2. TypeOK'
  BY <1>1, TypeHealthStep
<1>3. /\ db \in Db /\ db.log \in Seq(Event) /\ \A n \in Node : db.nodes[n] \in Summary
      /\ serial \in Thread
  BY <1>1 DEF TypeOK, Db
<1>4. CASE RefreshNode
  <2> DEFINE f == serial.fix
             e == [node |-> f.node, heard |-> f.ts, fix |-> f]
             s == FromFix(db.nodes[f.node], f)
  <2>1. f \in Fix /\ f.ts \in Nat /\ f.node \in Node
    BY <1>1, <1>4, FixAssumption, IngestAssumption DEF RefreshNode, TypeOK
  <2>2. s \in Summary
    BY <1>3, <2>1 DEF FromFix, Summary
  <2>3. e \in Event /\ e.node = f.node
    BY <2>1 DEF Event
  <2>4. InformedOf(s, Append(db.log, e), f.node)
    BY <1>3, <2>1, FixInforms DEF NewsInv, Informed
  <2>5. db' = Tell(db, f.node, s, e) /\ disk' = disk
    BY <1>4 DEF RefreshNode
  <2> HIDE DEF f, e, s
  <2>6. Informed(db')
    BY <1>3, <2>1, <2>2, <2>3, <2>4, <2>5, InformedTell DEF NewsInv
  <2> QED
    BY <1>2, <2>5, <2>6 DEF NewsInv
<1>5. CASE UpsertNode
  <2> DEFINE h == Head(serial.entries)
             e == [node |-> h.node, heard |-> h.heard, fix |-> NoFix]
             s == FromStats(db.nodes[h.node], h.heard)
  <2>1. serial.entries \in Seq(Entry) /\ serial.entries # << >>
    BY <1>1, <1>3, <1>5 DEF UpsertNode, Thread, TypeOK
  <2>2. h \in Entry
    <3>1. \A q \in Seq(Entry) : q # << >> => Head(q) \in Entry
      OBVIOUS
    <3> QED
      BY <2>1, <3>1
  <2>3. h.node \in Node /\ h.heard \in Nat
    BY <2>2 DEF Entry
  <2>4. s \in Summary
    BY <1>3, <2>3 DEF FromStats, Summary
  <2>5. e \in Event /\ e.node = h.node
    BY <2>3 DEF Event
  <2>6. InformedOf(s, Append(db.log, e), h.node)
    BY <1>3, <2>3, StatsInform DEF NewsInv, Informed
  <2>7. db' = Tell(db, h.node, s, e) /\ disk' = disk
    BY <1>5 DEF UpsertNode
  <2> HIDE DEF h, e, s
  <2>8. Informed(db')
    BY <1>3, <2>3, <2>4, <2>5, <2>6, <2>7, InformedTell DEF NewsInv
  <2> QED
    BY <1>2, <2>7, <2>8 DEF NewsInv
<1>6. CASE ~RefreshNode /\ ~UpsertNode
  <2>1. Informed(db) /\ Informed(disk)
    BY DEF NewsInv
  <2>2. Informed(db')
    BY <1>1, <1>6, <2>1, OtherSteps DEF Informed
  <2>3. Informed(disk')
    BY <1>1, <1>6, <2>1, OtherSteps
  <2> QED
    BY <1>2, <2>2, <2>3 DEF NewsInv
<1> QED
  BY <1>4, <1>5, <1>6

LEMMA NewsInit == HealthInit => NewsInv
<1> SUFFICES ASSUME HealthInit PROVE NewsInv
  OBVIOUS
<1>1. TypeOK
  BY IngestTypeInit DEF HealthInit
<1>2. db.log = << >> /\ disk = db /\ \A n \in Node : ~db.nodes[n].known /\ db.nodes[n].battery = NoFix
  BY DEF HealthInit, IngestInit, Unknown
<1>3. Informed(db)
  <2> SUFFICES ASSUME NEW n \in Node PROVE Informs(db.nodes[n], db.log, n)
    BY DEF Informed, InformedOf
  <2>1. ToldOf(db.log, n) = {} /\ InOrder(db.log, n) = {}
    BY <1>2 DEF ToldOf, InOrder
  <2> QED
    BY <1>2, <2>1 DEF Informs
<1> QED
  BY <1>1, <1>2, <1>3 DEF NewsInv

(* A late resend takes no node's summary back, in the open transaction or on *)
(* disk, as long as no NODE_STATS gave the node an older time than it had:   *)
(* it shows what the frames that arrived in order said.                      *)
THEOREM SummaryNewestUnlessBackdated == HealthSpec => []NewestUnlessBackdated
<1>1. NewsInv => NewestUnlessBackdated
  BY DEF NewsInv, Informed, InformedOf, Informs, NewestUnlessBackdated, States
<1> QED
  BY <1>1, NewsInit, NewsStep, PTL DEF HealthSpec

----
(* Why a snapshot reports no less than the database held: until they are     *)
(* read, the rows it is to report stay in the tables, and the newest row of  *)
(* every node is among those latest_per_node selects.                       *)

\* Row k is the one latest_per_node selects of the first m rows of node n.
Selected(t, n, m, k) ==
    /\ t[k].fix.node = n
    /\ \A j \in 1..m : t[j].fix.node = n =>
          t[j].fix.ts < t[k].fix.ts \/ (t[j].fix.ts = t[k].fix.ts /\ j <= k)

Below == {p \in Nat \X Nat : p[1] < p[2]}

LEMMA LeastNat ==
    ASSUME NEW T, T \subseteq Nat, T # {}
    PROVE  \E m \in T : \A n \in T : m <= n
<1>1. OpToRel(<, Nat) = Below
  BY Zenon DEF OpToRel, Below
<1>2. IsWellFoundedOn(Below, Nat)
  BY <1>1, NatLessThanWellFounded, Zenon
<1>3. PICK m \in T : \A n \in T : <<n, m>> \notin Below
  BY <1>2, WFMin
<1>4. \A n \in T : ~(n < m)
  BY <1>3 DEF Below
<1> QED
  BY <1>3, <1>4

LEMMA RowFix ==
    ASSUME NEW t \in Table
    PROVE  \A i \in DOMAIN t : t[i].fix \in Fix /\ t[i].fix.ts \in Nat
<1>1. \A i \in DOMAIN t : t[i] \in Row
  BY DEF Table
<1>2. \A i \in DOMAIN t : t[i].fix \in Fix
  BY <1>1 DEF Row
<1> QED
  BY <1>2, FixAssumption

\* One is selected, if there is any row of the node: by the least m without.
LEMMA SomeSelected ==
    ASSUME NEW t \in Table, NEW n
    PROVE  (\A j \in DOMAIN t : t[j].fix.node # n)
               \/ \E k \in DOMAIN t : Selected(t, n, Len(t), k)
<1> DEFINE P(m) == (\A j \in 1..m : t[j].fix.node # n) \/ \E k \in 1..m : Selected(t, n, m, k)
           T == {m \in 0..Len(t) : ~P(m)}
<1>1. DOMAIN t = 1..Len(t) /\ Len(t) \in Nat
  BY DEF Table
<1>2. \A j \in 1..Len(t) : t[j].fix.ts \in Nat
  BY <1>1, RowFix
<1>3. ASSUME T # {} PROVE FALSE
  <2>1. PICK m \in T : \A i \in T : m <= i
    <3>1. T \subseteq Nat
      BY <1>1
    <3> HIDE DEF T
    <3> QED
      BY <1>3, <3>1, LeastNat
  <2>2. m \in 0..Len(t) /\ ~P(m)
    OBVIOUS
  <2>3. P(0)
    OBVIOUS
  <2>4. m \in Nat /\ m # 0 /\ m - 1 \in 0..Len(t) /\ ~(m <= m - 1)
    BY <1>1, <2>2, <2>3
  <2>5. P(m - 1)
    BY <2>1, <2>4
  <2> PICK l \in Nat : l = m - 1
    BY <2>4
  <2>6. 1..m = (1..l) \cup {m} /\ m \in 1..Len(t) /\ \A j \in 1..l : j <= m /\ j \in 1..Len(t)
    BY <1>1, <2>2, <2>4
  <2>7. P(l)
    BY <2>5
  <2>8. t[m].fix.ts \in Nat
    BY <1>2, <2>6
  <2>9. m <= m
    BY <2>4
  <2>10. ~((\A j \in 1..m : t[j].fix.node # n) \/ \E k \in 1..m : Selected(t, n, m, k))
    BY <2>2
  <2>11. (\A j \in 1..l : t[j].fix.node # n) \/ \E k \in 1..l : Selected(t, n, l, k)
    BY <2>7
  <2> HIDE DEF P, T
  <2>12. CASE t[m].fix.node # n
    BY <2>6, <2>10, <2>11, <2>12 DEF Selected
  <2>13. CASE t[m].fix.node = n /\ \A j \in 1..l : t[j].fix.node # n
    BY <2>6, <2>8, <2>9, <2>10, <2>13 DEF Selected
  <2>14. CASE t[m].fix.node = n /\ \E k \in 1..l : Selected(t, n, l, k)
    <3>1. PICK k \in 1..l : Selected(t, n, l, k)
      BY <2>14
    <3>2. t[k].fix.ts \in Nat
      BY <1>2, <2>6
    <3>3. CASE t[m].fix.ts < t[k].fix.ts
      BY <2>6, <2>10, <3>1, <3>3 DEF Selected
    <3>4. CASE ~(t[m].fix.ts < t[k].fix.ts)
      <4>1. \A j \in 1..l : t[j].fix.node = n =>
               t[j].fix.ts < t[m].fix.ts \/ t[j].fix.ts = t[m].fix.ts
        <5> SUFFICES ASSUME NEW j \in 1..l, t[j].fix.node = n
                     PROVE  t[j].fix.ts < t[m].fix.ts \/ t[j].fix.ts = t[m].fix.ts
          OBVIOUS
        <5>1. t[j].fix.ts < t[k].fix.ts \/ t[j].fix.ts = t[k].fix.ts
          BY <3>1 DEF Selected
        <5>2. t[j].fix.ts \in Nat
          BY <1>2, <2>6
        <5> QED
          BY <2>8, <3>2, <3>4, <5>1, <5>2
      <4> QED
        BY <2>6, <2>9, <2>10, <2>14, <4>1 DEF Selected
    <3> QED
      BY <3>3, <3>4
  <2> QED
    BY <2>11, <2>12, <2>13, <2>14
<1>4. P(Len(t))
  BY <1>1, <1>3
<1> QED
  BY <1>1, <1>4

LEMMA LatestLists ==
    ASSUME NEW t \in Table, NEW i \in DOMAIN t
    PROVE  \E g \in LatestPerNode(t) : g.node = t[i].fix.node /\ g.ts >= t[i].fix.ts
<1>1. DOMAIN t = 1..Len(t)
  BY DEF Table
<1>2. PICK k \in DOMAIN t : Selected(t, t[i].fix.node, Len(t), k)
  BY SomeSelected
<1>3. t[k].fix \in LatestPerNode(t)
  BY <1>1, <1>2 DEF Selected, LatestPerNode
<1>4. t[i].fix.ts \in Nat /\ t[k].fix.ts \in Nat
  BY RowFix
<1>5. t[i].fix.ts < t[k].fix.ts \/ t[i].fix.ts = t[k].fix.ts
  BY <1>1, <1>2 DEF Selected
<1>6. t[k].fix.node = t[i].fix.node /\ t[k].fix.ts >= t[i].fix.ts
  BY <1>2, <1>4, <1>5 DEF Selected
<1> QED
  BY <1>3, <1>6

\* What a request is to report, of a table.
Counted(r, t) == r.uncounted <= Len(t)
Listed(r, t)  == \A f \in r.unlisted : \E i \in DOMAIN t : t[i].fix = f

Reported(r, d) ==
    /\ r.at \in {"nodes", "total"} => Counted(r, d.fixes)
    /\ r.at = "nodes" => Listed(r, d.fixes)

\* What of it is done: the nodes are listed first, then the rows are counted.
Complete(r) ==
    /\ r.at \notin {"none", "nodes"} /\ "store" \notin r.errors => r.unlisted = {}
    /\ r.at \notin {"none", "nodes", "total"} /\ "store" \notin r.errors => r.uncounted = 0

SnapshotInv ==
    /\ AnswerInv
    /\ Extends(db.fixes, disk.fixes)
    /\ Reported(req, db) /\ Reported(req, disk)
    /\ Complete(req)

LEMMA ReportedLater ==
    ASSUME NEW d \in Db, NEW e \in Db, NEW r \in Request, Extends(e.fixes, d.fixes), Reported(r, d)
    PROVE  Reported(r, e)
<1>1. d.fixes \in Table /\ e.fixes \in Table /\ r.uncounted \in Nat
  BY DEF Db, Request
<1>2. Len(d.fixes) \in Nat /\ Len(e.fixes) \in Nat /\ Len(d.fixes) <= Len(e.fixes)
  BY <1>1 DEF Table, Extends
<1>3. DOMAIN d.fixes \subseteq DOMAIN e.fixes /\ \A i \in DOMAIN d.fixes : e.fixes[i].fix = d.fixes[i].fix
  BY <1>1, ExtendsSynced DEF Extends
<1>4. Counted(r, d.fixes) => Counted(r, e.fixes)
  BY <1>1, <1>2 DEF Counted
<1>5. Listed(r, d.fixes) => Listed(r, e.fixes)
  BY <1>3 DEF Listed
<1> QED
  BY <1>4, <1>5 DEF Reported

\* No step but a rollback takes a row away.
LEMMA FixesGrow ==
    ASSUME TypeOK, [HealthNext]_vars
    PROVE  \/ db' = disk /\ disk' = disk
           \/ Extends(db'.fixes, db.fixes) /\ disk' \in {db, disk}
<1>1. db \in Db /\ db.fixes \in Table /\ Extends(db.fixes, db.fixes)
  BY ExtendsReflexive DEF TypeOK, Db
<1>2. \A t, ids : [db EXCEPT !.fixes = t].fixes = t /\ [db EXCEPT !.fixes = t, !.torn = ids].fixes = t
  BY <1>1 DEF Db
<1>3. CASE \E f \in Fix : Uplinked(f)
  <2>1. PICK f \in Fix : Duplicate(f) \/ RetireStale(f) \/ InsertFresh(f)
    BY <1>3 DEF Uplinked
  <2>2. CASE Duplicate(f)
    BY <1>1, <2>2 DEF Duplicate
  <2>3. CASE RetireStale(f)
    <3>1. db'.fixes = RetireRow(db.fixes, f) /\ disk' = disk
      BY <1>2, <2>3 DEF RetireStale
    <3> QED
      BY <1>1, <3>1, RetireRowLemma
  <2>4. CASE InsertFresh(f)
    <3>1. db'.fixes = InsertRow(db.fixes, f) /\ disk' = disk
      BY <1>2, <2>4 DEF InsertFresh
    <3> QED
      BY <1>1, <3>1, InsertRowLemma
  <2> QED
    BY <2>1, <2>2, <2>3, <2>4
<1>4. CASE InsertAfterRetire
  <2>1. serial.fix \in Fix
    BY <1>4 DEF InsertAfterRetire, TypeOK
  <2>2. db'.fixes = InsertRow(db.fixes, serial.fix) /\ disk' = disk
    BY <1>2, <1>4 DEF InsertAfterRetire
  <2> QED
    BY <1>1, <2>1, <2>2, InsertRowLemma
<1>5. ASSUME NEW n, NEW s, NEW e, db' = Tell(db, n, s, e) PROVE db'.fixes = db.fixes
  BY <1>1, <1>5 DEF Tell, Db
<1>6. CASE RefreshNode
  BY <1>1, <1>5, <1>6 DEF RefreshNode
<1>7. CASE UpsertNode
  BY <1>1, <1>5, <1>7 DEF UpsertNode
<1>8. CASE ~RefreshNode /\ ~UpsertNode /\ ~InsertAfterRetire /\ ~(\E f \in Fix : Uplinked(f))
  <2>1. CASE \/ CommitInsert \/ InsertRaises \/ CommitNode \/ EntryRaises \/ OtherCommits
             \/ Crash \/ Close
    BY <1>1, <2>1 DEF CommitInsert, InsertRaises, CommitNode, EntryRaises, OtherCommits, Crash, Close
  <2>2. CASE \/ \E entries \in Stats : \E whole \in 0..Len(entries) : NodeStats(entries, whole)
             \/ \E ref \in RefTypes : RecordAck(ref)
             \/ UNCHANGED ingest
    BY <1>1, <2>2 DEF NodeStats, RecordAck, ingest
  <2> QED
    BY <1>8, <2>1, <2>2, HealthSteps DEF IngestStep, OnFrame
<1> QED
  BY <1>3, <1>4, <1>6, <1>7, <1>8

\* What the two reads of the store section do to the request.
LEMMA AskReports ==
    ASSUME SnapshotInv, Ask
    PROVE  Reported(req', db) /\ Reported(req', disk) /\ Complete(req')
<1>1. db \in Db /\ disk \in Db /\ disk.fixes \in Table /\ req' \in Request
  BY AskStep DEF SnapshotInv, AnswerInv, HealthTypeOK, TypeOK, Db
<1>2. req'.at = "nodes" /\ req'.uncounted = Len(disk.fixes)
      /\ req'.unlisted = {disk.fixes[i].fix : i \in DOMAIN disk.fixes}
  BY DEF Ask, NotAsked
<1>3. Len(disk.fixes) <= Len(disk.fixes)
  BY <1>1 DEF Table
<1>4. Reported(req', disk)
  BY <1>2, <1>3 DEF Reported, Counted, Listed
<1>5. Reported(req', db)
  BY <1>1, <1>4, ReportedLater DEF SnapshotInv
<1> QED
  BY <1>2, <1>4, <1>5 DEF Complete

LEMMA ReadNodesReports ==
    ASSUME SnapshotInv, ReadNodes
    PROVE  Reported(req', db) /\ Reported(req', disk) /\ Complete(req')
<1>1. req \in Request /\ db.fixes \in Table
  BY DEF SnapshotInv, AnswerInv, HealthTypeOK, TypeOK, Db
<1> DEFINE left == {f \in req.unlisted :
                      ~\E g \in LatestPerNode(db.fixes) : g.node = f.node /\ g.ts >= f.ts}
<1>2. req.at = "nodes" /\ req' = [req EXCEPT !.at = "total", !.unlisted = left]
  BY DEF ReadNodes
<1>3. left = {}
  <2> SUFFICES ASSUME NEW f \in req.unlisted
               PROVE  \E g \in LatestPerNode(db.fixes) : g.node = f.node /\ g.ts >= f.ts
    OBVIOUS
  <2>1. PICK i \in DOMAIN db.fixes : db.fixes[i].fix = f
    BY <1>2 DEF SnapshotInv, Reported, Listed
  <2> QED
    BY <1>1, <2>1, LatestLists
<1> HIDE DEF left
<1>4. /\ req'.at = "total" /\ req'.unlisted = {} /\ req'.uncounted = req.uncounted
      /\ req'.errors = req.errors
  BY <1>1, <1>2, <1>3 DEF Request
<1> QED
  BY <1>2, <1>4 DEF SnapshotInv, Reported, Counted, Complete

LEMMA ReadTotalReports ==
    ASSUME SnapshotInv, ReadTotal
    PROVE  Reported(req', db) /\ Reported(req', disk) /\ Complete(req')
<1>1. req \in Request /\ db.fixes \in Table /\ Len(db.fixes) \in Nat /\ req.uncounted \in Nat
  BY DEF SnapshotInv, AnswerInv, HealthTypeOK, TypeOK, Db, Request, Table
<1>2. req.at = "total" /\ req.uncounted <= Len(db.fixes)
  BY DEF ReadTotal, SnapshotInv, Reported, Counted
<1>3. ~(req.uncounted > Len(db.fixes))
  BY <1>1, <1>2
<1>4. req' = [req EXCEPT !.at = "uplink", !.given = req.given \cup {"store"}, !.uncounted = 0]
  BY <1>3 DEF ReadTotal
<1>5. /\ req'.at = "uplink" /\ req'.uncounted = 0 /\ req'.unlisted = req.unlisted
      /\ req'.errors = req.errors
  BY <1>1, <1>4 DEF Request
<1> QED
  BY <1>2, <1>5 DEF SnapshotInv, Reported, Complete

LEMMA ServeReports ==
    ASSUME SnapshotInv, Serve
    PROVE  Reported(req', db) /\ Reported(req', disk) /\ Complete(req')
<1>1. req \in Request /\ AnswerInv
  BY DEF SnapshotInv, AnswerInv, HealthTypeOK
<1>2. Complete(req)
  BY DEF SnapshotInv
<1>3. ASSUME NEW section \in Sections, Failed(section),
             \/ section = "store" /\ req.at \in {"nodes", "total"}
             \/ section = "uplink" /\ req.at = "uplink"
             \/ section = "downlink" /\ req.at = "acks"
      PROVE  Reported(req', db) /\ Reported(req', disk) /\ Complete(req')
  <2>1. /\ req'.at \in {"uplink", "downlink", "respond"} /\ req'.errors = req.errors \cup {section}
        /\ req'.unlisted \in {{}, req.unlisted} /\ req'.uncounted \in {0, req.uncounted}
    BY <1>1, <1>3, FailedStep
  <2> QED
    BY <1>2, <1>3, <2>1 DEF Reported, Complete
<1>4. ASSUME req.at \in {"uplink", "downlink", "acks", "respond"},
             req'.at \in {"downlink", "acks", "respond", "done"}, req'.errors = req.errors,
             req'.unlisted = req.unlisted, req'.uncounted = req.uncounted
      PROVE  Reported(req', db) /\ Reported(req', disk) /\ Complete(req')
  BY <1>2, <1>4 DEF Reported, Complete
<1>5. CASE StoreFails
  BY <1>3, <1>5 DEF StoreFails, SelectRaises, Sections
<1>6. CASE UplinkHealth
  <2>1. CASE ReadBacklog
    BY <1>1, <1>4, <2>1 DEF ReadBacklog, Request
  <2>2. CASE SelectRaises({"uplink"}, "uplink")
    BY <1>3, <2>2 DEF SelectRaises, Sections
  <2> QED
    BY <1>6, <2>1, <2>2 DEF UplinkHealth
<1>7. CASE IterateAcks
  BY <1>1, <1>4, <1>7 DEF IterateAcks, Request
<1>8. CASE DownlinkHealth
  <2>1. CASE req.at = "acks" /\ req' = [req EXCEPT !.at = "respond", !.size = 0,
                                                   !.given = req.given \cup {"downlink"}]
    BY <1>1, <1>4, <2>1 DEF Request
  <2>2. CASE req.at = "acks" /\ Failed("downlink")
    BY <1>3, <2>2 DEF Sections
  <2> QED
    BY <1>8, <2>1, <2>2 DEF DownlinkHealth
<1>9. CASE Respond
  BY <1>1, <1>4, <1>9 DEF Respond, Request
<1> QED
  BY <1>5, <1>6, <1>7, <1>8, <1>9, AskReports, ReadNodesReports, ReadTotalReports DEF Serve

LEMMA SnapshotStep == SnapshotInv /\ [HealthNext]_vars => SnapshotInv'
<1> SUFFICES ASSUME SnapshotInv, [HealthNext]_vars PROVE SnapshotInv'
  OBVIOUS
<1>1. AnswerInv /\ AnswerInv' /\ TypeOK /\ TypeOK'
  BY AnswerStep DEF SnapshotInv, AnswerInv, HealthTypeOK
<1>2. /\ db \in Db /\ disk \in Db /\ db' \in Db /\ disk' \in Db /\ req \in Request
      /\ db.fixes \in Table /\ disk.fixes \in Table /\ db'.fixes \in Table
  BY <1>1 DEF AnswerInv, HealthTypeOK, TypeOK, Db
<1>3. Extends(db.fixes, disk.fixes) /\ Reported(req, db) /\ Reported(req, disk) /\ Complete(req)
  BY DEF SnapshotInv
<1>4. \/ db' = disk /\ disk' = disk
      \/ Extends(db'.fixes, db.fixes) /\ disk' \in {db, disk}
  BY <1>1, FixesGrow
<1>5. Extends(db'.fixes, disk'.fixes)
  <2>1. CASE db' = disk /\ disk' = disk
    BY <1>2, <2>1, ExtendsReflexive
  <2>2. CASE Extends(db'.fixes, db.fixes) /\ disk' \in {db, disk}
    BY <1>2, <1>3, <2>2, ExtendsTransitive
  <2> QED
    BY <1>4, <2>1, <2>2
<1>6. CASE Serve /\ UNCHANGED <<ingest, closed>>
  <2>1. Reported(req', db) /\ Reported(req', disk) /\ Complete(req') /\ db' = db /\ disk' = disk
    BY <1>6, ServeReports DEF ingest
  <2> QED
    BY <1>1, <1>5, <2>1 DEF SnapshotInv
<1>7. CASE UNCHANGED req
  <2>1. Reported(req, db')
    BY <1>2, <1>3, <1>4, ReportedLater
  <2>2. Reported(req, disk')
    BY <1>3, <1>4
  <2> QED
    BY <1>1, <1>3, <1>5, <1>7, <2>1, <2>2 DEF SnapshotInv
<1>8. CASE Restart
  <2>1. req'.at = "none"
    BY <1>8, AsksLemma DEF Restart
  <2> QED
    BY <1>1, <1>5, <2>1 DEF SnapshotInv, Reported, Complete
<1> QED
  BY <1>6, <1>7, <1>8 DEF HealthNext, Close, vars

LEMMA SnapshotInit == HealthInit => SnapshotInv
<1> SUFFICES ASSUME HealthInit PROVE SnapshotInv
  OBVIOUS
<1>1. AnswerInv
  BY IngestTypeInit, AsksLemma DEF HealthInit, AnswerInv, HealthTypeOK
<1>2. disk = db /\ db.fixes \in Table /\ req.at = "none"
  BY <1>1, AsksLemma DEF HealthInit, IngestInit, AnswerInv, HealthTypeOK, TypeOK, Db
<1>3. Extends(db.fixes, disk.fixes)
  BY <1>2, ExtendsReflexive
<1> QED
  BY <1>1, <1>2, <1>3 DEF SnapshotInv, Reported, Complete

(* An answer made of dirty reads at three moments reports no less than the   *)
(* database held when the request came.                                     *)
THEOREM SnapshotIsComplete == HealthSpec => []SnapshotComplete
<1>1. SnapshotInv => SnapshotComplete
  BY DEF SnapshotInv, Complete, SnapshotComplete
<1> QED
  BY <1>1, SnapshotInit, SnapshotStep, PTL DEF HealthSpec
====
