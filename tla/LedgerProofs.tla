---- MODULE LedgerProofs ----
(***************************************************************************)
(* What the store-and-forward path promises as long as no executed          *)
(* statement is discarded, for every set of fixes, batch size, bound, cloud *)
(* and network: stable keys, zero loss, exact dead letters, and that the    *)
(* detailed path implements FixLedger.                                      *)
(***************************************************************************)
EXTENDS UplinkProofs

Settled(view) == Synced(view.fixes) \subseteq Ids(cloud) \cup view.dead

LEMMA SeqEqual ==
    ASSUME NEW S, NEW p \in Seq(S), NEW q \in Seq(S), Len(p) = Len(q),
           \A i \in 1..Len(p) : p[i] = q[i]
    PROVE  p = q
  OBVIOUS

(* Why the three are inductive together: a row about to be marked, not only  *)
(* a marked one, is delivered or dead-lettered, and keys are stable.         *)
Exact ==
    /\ StableKey
    /\ Settled(db) /\ Settled(disk)
    /\ marks \subseteq Ids(cloud) \cup db.dead
    /\ pc = "commit_dead" => Ids(First(todo)) \subseteq db.dead

LedgerInv == PathInv /\ (~undone => Exact)

\* The pairs anyone outside the fixes table holds.
Known == cloud \cup refused \cup todo \cup UNION inflight

Recorded(p) == p.id \in DOMAIN db.fixes /\ db.fixes[p.id].fix = p.fix

\* A recorded pair stays recorded while the view goes forward.
LEMMA RecordedForward ==
    ASSUME TypeOK, TypeOK', Ahead(db', db), NEW p, Recorded(p)
    PROVE  Recorded(p)'
<1>1. /\ db.fixes \in Table /\ db'.fixes \in Table
      /\ Extends(db'.fixes, db.fixes)
  BY DbFields DEF TypeOK, Ahead
<1>2. DOMAIN db.fixes \subseteq DOMAIN db'.fixes
  BY <1>1, ExtendsSynced
<1>3. db'.fixes[p.id].fix = db.fixes[p.id].fix
  BY <1>1 DEF Extends, Recorded
<1> QED
  BY <1>2, <1>3 DEF Recorded

\* What a step makes known is a row of the table or was known.
LEMMA KnownStep ==
    ASSUME PathInv, [Next]_vars, NEW p \in Known'
    PROVE  p \in Known \/ (Recorded(p) /\ db' = db)
<1>1. Request \subseteq todo /\ First(todo) \subseteq todo
  BY DEF Request, First
<1>2. CASE Fetch
  <2>1. db.fixes \in Table
    BY DbFields DEF PathInv, TypeOK
  <2>2. \A q \in GetUnsynced(db.fixes, BatchSize) : Recorded(q)
    BY <2>1, GetUnsyncedLemma DEF Recorded
  <2> QED
    BY <1>2, <2>2 DEF Fetch, Known, net
<1>3. CASE Accepted
  <2>1. Known' \subseteq Known
    BY <1>1, <1>3 DEF Accepted, Known, Ingest
  <2> QED
    BY <2>1
<1>4. CASE Retry
  <2>1. /\ cloud' \subseteq cloud \cup Request
        /\ inflight' \subseteq inflight \cup {Request}
        /\ todo' \subseteq todo /\ refused' = refused
    BY <1>4 DEF Retry, Continue, Ingest
  <2> QED
    BY <1>1, <2>1 DEF Known
<1>5. CASE OneRejected
  BY <1>1, <1>5 DEF OneRejected, Known
<1>6. CASE LateDelivery
  <2>1. /\ cloud' \subseteq cloud \cup UNION inflight
        /\ inflight' \subseteq inflight /\ todo' = todo /\ refused' = refused
    BY <1>6 DEF LateDelivery, Ingest, thread
  <2> QED
    BY <2>1 DEF Known
<1>7. CASE UNCHANGED net /\ todo' \subseteq todo
  BY <1>7 DEF net, Known
<1> QED
  BY <1>2, <1>3, <1>4, <1>5, <1>6, <1>7
  DEF Next, SerialStep, UplinkStep, vars, thread, net, Continue,
      InsertDuplicate, RetireStale, InsertFresh, InsertAfterRetire, CommitInsert,
      InsertRaises, OtherCommit, BatchRejected, Quarantine, CommitDead, MarkOne,
      CommitMarks, SaveCursor, CommitCursor, UplinkRaises, Crash

LEMMA StableStep ==
    ASSUME PathInv, PathInv', [Next]_vars, StableKey, Ahead(db', db)
    PROVE  StableKey'
<1> SUFFICES ASSUME NEW p \in Known' PROVE Recorded(p)'
  BY DEF StableKey, Known, Recorded
<1>1. Recorded(p)
  BY KnownStep DEF StableKey, Known, Recorded
<1> QED
  BY <1>1, RecordedForward DEF PathInv

\* The marks of a step are those there were, or of pairs just settled.
LEMMA MarksStep ==
    ASSUME PathInv, [Next]_vars, Exact, Ahead(db', db)
    PROVE  marks' \subseteq Ids(cloud') \cup db'.dead
<1>1. cloud \subseteq cloud' /\ db.dead \subseteq db'.dead
  BY AnsweredGrows DEF Ahead
<1>2. Ids(cloud) \subseteq Ids(cloud')
  BY <1>1 DEF Ids
<1>3. CASE marks' \subseteq marks
  BY <1>1, <1>2, <1>3 DEF Exact
<1>4. CASE Accepted
  BY <1>4 DEF Accepted, Ingest, Ids
<1>5. CASE CommitDead
  BY <1>5 DEF CommitDead, Exact
<1> QED
  BY <1>3, <1>4, <1>5
  DEF Next, SerialStep, UplinkStep, vars, thread, Continue,
      InsertDuplicate, RetireStale, InsertFresh, InsertAfterRetire, CommitInsert,
      InsertRaises, OtherCommit, Fetch, Retry, BatchRejected, OneRejected,
      Quarantine, MarkOne, CommitMarks, SaveCursor, CommitCursor,
      UplinkRaises, LateDelivery, Crash

LEMMA DeadStep ==
    ASSUME PathInv, [Next]_vars, Exact, Ahead(db', db)
    PROVE  (pc = "commit_dead" => Ids(First(todo)) \subseteq db.dead)'
<1>1. CASE Quarantine
  <2>1. Ids(First(todo)) \subseteq Nat
    BY IdsType DEF First, PathInv, TypeOK
  <2>2. db'.dead = db.dead \cup Ids(First(todo))
    BY <1>1, <2>1, DbUpdate, DbFields DEF Quarantine, PathInv, TypeOK
  <2> QED
    BY <1>1, <2>2 DEF Quarantine, First
<1>2. CASE pc' = pc /\ todo' = todo
  BY <1>2 DEF Exact, Ahead, First
<1>3. CASE pc' # "commit_dead"
  BY <1>3
<1> QED
  BY <1>1, <1>2, <1>3
  DEF Next, SerialStep, UplinkStep, vars, thread, Continue,
      InsertDuplicate, RetireStale, InsertFresh, InsertAfterRetire, CommitInsert,
      InsertRaises, OtherCommit, Fetch, Accepted, Retry, BatchRejected, OneRejected,
      CommitDead, MarkOne, CommitMarks, SaveCursor, CommitCursor,
      UplinkRaises, LateDelivery, Crash

\* Only MarkOne marks.
LEMMA SyncedStep ==
    ASSUME PathInv, [Next]_vars, ~InsertRaises, ~Crash
    PROVE  \/ Synced(db'.fixes) = Synced(db.fixes)
           \/ MarkOne /\ Synced(db'.fixes) \subseteq Synced(db.fixes) \cup marks
<1>1. db \in Db /\ db.fixes \in Table /\ db.dead \subseteq Nat /\ db.hwm \in Nat
  BY DbFields DEF PathInv, TypeOK
<1>2. ASSUME NEW t \in Table, db' = [db EXCEPT !.fixes = t] PROVE db'.fixes = t
  BY <1>1, <1>2, DbUpdate
<1>3. ASSUME NEW f \in Fix, RetireStale(f) PROVE Synced(db'.fixes) = Synced(db.fixes)
  BY <1>1, <1>2, <1>3, RetireRowLemma DEF RetireStale
<1>4. ASSUME NEW f \in Fix, InsertFresh(f) PROVE Synced(db'.fixes) = Synced(db.fixes)
  <2>1. db' = [db EXCEPT !.fixes = InsertRow(db.fixes, f)]
    BY <1>4 DEF InsertFresh
  <2>2. InsertRow(db.fixes, f) \in Table /\ Synced(InsertRow(db.fixes, f)) = Synced(db.fixes)
    BY <1>1, InsertRowLemma
  <2> QED
    BY <1>2, <2>1, <2>2
<1>5. CASE InsertAfterRetire
  <2> DEFINE f == serial.frame
  <2>1. f \in Fix /\ db' = [db EXCEPT !.fixes = InsertRow(db.fixes, f)]
    BY <1>5 DEF InsertAfterRetire, PathInv, TypeOK
  <2>2. InsertRow(db.fixes, f) \in Table /\ Synced(InsertRow(db.fixes, f)) = Synced(db.fixes)
    BY <1>1, <2>1, InsertRowLemma
  <2> QED
    BY <1>2, <2>1, <2>2
<1>6. CASE MarkOne
  <2>1. PICK id \in marks : db' = [db EXCEPT !.fixes = MarkRow(db.fixes, id)]
    BY <1>6 DEF MarkOne
  <2> QED
    BY <1>1, <1>2, <1>6, <2>1, MarkRowLemma
<1>7. CASE Quarantine
  <2>1. Ids(First(todo)) \subseteq Nat
    BY IdsType DEF First, PathInv, TypeOK
  <2>2. db'.fixes = db.fixes
    BY <1>1, <1>7, <2>1, DbUpdate DEF Quarantine
  <2> QED
    BY <2>2
<1>8. CASE SaveCursor
  <2>1. db' = db \/ db' = [db EXCEPT !.hwm = top]
    BY <1>8 DEF SaveCursor
  <2>2. [db EXCEPT !.hwm = top].fixes = db.fixes
    BY <1>1, DbUpdate DEF PathInv, TypeOK
  <2> QED
    BY <2>1, <2>2
<1>9. CASE db' = db
  BY <1>9
<1> QED
  BY <1>3, <1>4, <1>5, <1>6, <1>7, <1>8, <1>9
  DEF Next, SerialStep, UplinkStep, vars, InsertDuplicate, CommitInsert, OtherCommit,
      Fetch, Accepted, Retry, BatchRejected, OneRejected, CommitDead, CommitMarks,
      CommitCursor, UplinkRaises, LateDelivery

\* A step that discards nothing is not a rollback, or leaves the view alone.
LEMMA SettledStep ==
    ASSUME PathInv, [Next]_vars, Exact, ~undone'
    PROVE  Settled(db)' /\ Settled(disk)'
<1>1. Ahead(db', db)
  BY NothingDiscarded DEF PathInv
<1>2. cloud \subseteq cloud' /\ db.dead \subseteq db'.dead
  BY <1>1, AnsweredGrows DEF Ahead
<1>3. Ids(cloud) \subseteq Ids(cloud')
  BY <1>2 DEF Ids
<1>4. \/ Synced(db'.fixes) = Synced(db.fixes)
      \/ Synced(db'.fixes) \subseteq Synced(db.fixes) \cup marks
  <2>1. CASE InsertRaises \/ Crash
    BY <2>1 DEF InsertRaises, Crash
  <2> QED
    BY <2>1, SyncedStep
<1>5. Settled(db)'
  BY <1>2, <1>3, <1>4 DEF Exact, Settled
<1>6. CASE disk' = disk
  BY <1>3, <1>5, <1>6 DEF Exact, Settled
<1>7. CASE disk' = db'
  BY <1>5, <1>7 DEF Settled
<1> QED
  BY <1>5, <1>6, <1>7, DiskStep

LEMMA LedgerInvStep == LedgerInv /\ [Next]_vars => LedgerInv'
<1> SUFFICES ASSUME LedgerInv, [Next]_vars PROVE LedgerInv'
  OBVIOUS
<1>1. PathInv /\ PathInv'
  BY PathStep DEF LedgerInv
<1>2. ASSUME ~undone' PROVE Exact'
  <2>1. Exact /\ Ahead(db', db)
    BY <1>1, <1>2, NothingDiscarded DEF LedgerInv, PathInv
  <2>2. StableKey'
    BY <1>1, <2>1, StableStep DEF Exact
  <2> QED
    BY <1>1, <1>2, <2>1, <2>2, MarksStep, DeadStep, SettledStep DEF Exact
<1> QED
  BY <1>1, <1>2 DEF LedgerInv

LEMMA LedgerInvariant == Spec => []LedgerInv
<1>1. Init => LedgerInv
  <2> SUFFICES ASSUME Init PROVE Exact
    BY PathInit DEF LedgerInv
  <2> QED
    BY DEF Init, Exact, StableKey, Settled, Synced, EmptyTable, Ids
<1> QED
  BY <1>1, LedgerInvStep, PTL DEF Spec

\* A known pair under a row's id is the pair of that row.
LEMMA PairOfRow ==
    ASSUME TypeOK, StableKey, NEW p \in Known
    PROVE  /\ p \in Pair /\ p.id \in DOMAIN db.fixes
           /\ p = [id |-> p.id, fix |-> db.fixes[p.id].fix]
<1>1. p \in Pair
  BY DEF Known, TypeOK
<1>2. p.id \in DOMAIN db.fixes /\ db.fixes[p.id].fix = p.fix
  BY DEF StableKey, Known
<1> QED
  BY <1>1, <1>2 DEF Pair

(* As long as nothing is discarded an id means one fix, to the store and the *)
(* cloud, whatever the batches, the answers and the late requests.          *)
THEOREM KeysStayStable == Spec => []KeysStable
<1>1. LedgerInv => KeysStable
  BY DEF LedgerInv, Exact, KeysStable
<1> QED
  BY <1>1, LedgerInvariant, PTL

(* As long as nothing is discarded no fix leaves the queue undelivered and   *)
(* unrecorded.                                                              *)
THEOREM ZeroLoss == Spec => []NothingDropped
<1>1. LedgerInv => NothingDropped
  <2> SUFFICES ASSUME LedgerInv, ~undone, NEW view \in {db, disk}, NEW i \in Synced(view.fixes)
               PROVE  \/ [id |-> i, fix |-> view.fixes[i].fix] \in cloud
                      \/ i \in view.dead
    BY DEF NothingDropped
  <2>1. TypeOK /\ StableKey /\ Settled(view) /\ Ahead(db, disk)
    BY DEF LedgerInv, PathInv, Exact
  <2>2. CASE i \in view.dead
    BY <2>2
  <2>3. CASE i \in Ids(cloud)
    <3>1. PICK p \in cloud : p.id = i
      BY <2>3 DEF Ids
    <3>2. p = [id |-> i, fix |-> db.fixes[i].fix]
      BY <2>1, <3>1, PairOfRow DEF Known
    <3>3. db \in Db /\ disk \in Db /\ i \in DOMAIN view.fixes
      BY <2>1 DEF TypeOK, Synced
    <3>4. view.fixes[i].fix = db.fixes[i].fix
      BY <2>1, <3>3 DEF Ahead, Extends
    <3> QED
      BY <3>1, <3>2, <3>4
  <2> QED
    BY <2>1, <2>2, <2>3 DEF Settled
<1> QED
  BY <1>1, LedgerInvariant, PTL

(* As long as nothing is discarded a dead letter is a row of the table whose *)
(* very fix the cloud refused alone.                                        *)
THEOREM DeadLettersAreExact == Spec => []DeadLettersExact
<1>1. LedgerInv => DeadLettersExact
  <2> SUFFICES ASSUME LedgerInv, ~undone, NEW i \in db.dead
               PROVE  i \in DOMAIN db.fixes /\ [id |-> i, fix |-> db.fixes[i].fix] \in refused
    BY DEF DeadLettersExact
  <2>1. TypeOK /\ StableKey /\ db.dead \subseteq Ids(refused)
    BY DEF LedgerInv, PathInv, Backed, Exact
  <2>2. PICK p \in refused : p.id = i
    BY <2>1 DEF Ids
  <2>3. p.id \in DOMAIN db.fixes /\ p = [id |-> p.id, fix |-> db.fixes[p.id].fix]
    BY <2>1, <2>2, PairOfRow DEF Known
  <2> QED
    BY <2>2, <2>3
<1> QED
  BY <1>1, LedgerInvariant, PTL

----
(* The refinement.  The log a table stands for is the fixes of its rows.     *)
Log(t) == [i \in DOMAIN t |-> t[i].fix]

NoDiscard == Faults \cap {"crash", "insert_raises"} = {}

\* A table forward by a row is a log with a fix appended.
LEMMA LogInsert ==
    ASSUME NEW t \in Table, NEW f \in Fix
    PROVE  /\ Log(InsertRow(t, f)) = Append(Log(t), f)
           /\ Len(Log(t)) = Len(t)
<1> DEFINE u == InsertRow(t, f)
<1>1. /\ u \in Table /\ Len(u) = Len(t) + 1 /\ Len(t) \in Nat
      /\ DOMAIN t = 1..Len(t) /\ DOMAIN u = 1..(Len(t) + 1)
      /\ u[Len(t) + 1].fix = f
      /\ \A i \in DOMAIN t : u[i] = t[i]
  <2>1. /\ u \in Table /\ Len(u) = NextId(t)
        /\ u[NextId(t)] = [fix |-> f, retired |-> FALSE, synced |-> FALSE]
        /\ \A i \in DOMAIN t : u[i] = t[i]
    BY InsertRowLemma
  <2>2. NextId(t) = Len(t) + 1 /\ Len(t) \in Nat /\ DOMAIN t = 1..Len(t)
    BY DEF NextId, Table
  <2>3. DOMAIN u = 1..Len(u)
    BY <2>1 DEF Table
  <2> HIDE DEF u
  <2> QED
    BY <2>1, <2>2, <2>3
<1>2. \A i \in DOMAIN t : t[i] \in Row
  BY DEF Table
<1>3. /\ Log(t) \in Seq(Fix) /\ Len(Log(t)) = Len(t)
      /\ \A i \in 1..Len(t) : Log(t)[i] = t[i].fix
  <2>1. \A i \in 1..Len(t) : t[i].fix \in Fix
    BY <1>1, <1>2 DEF Row
  <2> QED
    BY <1>1, <2>1 DEF Log
<1>4. /\ Append(Log(t), f) \in Seq(Fix) /\ Len(Append(Log(t), f)) = Len(t) + 1
      /\ \A i \in 1..Len(t) : Append(Log(t), f)[i] = t[i].fix
      /\ Append(Log(t), f)[Len(t) + 1] = f
  BY <1>1, <1>3
<1>5. /\ Log(u) \in Seq(Fix) /\ Len(Log(u)) = Len(t) + 1
      /\ \A i \in 1..(Len(t) + 1) : Log(u)[i] = u[i].fix
  <2> HIDE DEF u
  <2>0. \A i \in DOMAIN u : u[i] \in Row
    BY <1>1 DEF Table
  <2>1. \A i \in 1..(Len(t) + 1) : u[i].fix \in Fix
    BY <1>1, <2>0 DEF Row
  <2>2. Log(u) = [i \in 1..(Len(t) + 1) |-> u[i].fix]
    BY <1>1 DEF Log
  <2>3. Log(u) \in [1..(Len(t) + 1) -> Fix]
    BY <2>1, <2>2
  <2> QED
    BY <1>1, <2>2, <2>3
<1>6. \A i \in 1..(Len(t) + 1) : Log(u)[i] = Append(Log(t), f)[i]
  <2> HIDE DEF u
  <2> QED
    BY <1>1, <1>4, <1>5
<1> HIDE DEF u
<1>7. Log(u) = Append(Log(t), f)
  BY <1>4, <1>5, <1>6, SeqEqual
<1> QED
  BY <1>3, <1>7 DEF u

\* A table whose fixes are the same is the same log.
LEMMA LogSame ==
    ASSUME NEW t, NEW u, DOMAIN u = DOMAIN t, \A i \in DOMAIN t : u[i].fix = t[i].fix
    PROVE  Log(u) = Log(t)
  BY DEF Log
(* Between the two statements of a wrap there is room for the row.          *)
RoomInv == serial.at = "insert" => Len(db.fixes) < MaxRows

RefinementInv == LedgerInv /\ RoomInv /\ ~undone

\* The log of the view changes only when a row is inserted, and there is room.
LogGrows == \E f \in Fix : Log(db'.fixes) = Append(Log(db.fixes), f) /\ Len(Log(db.fixes)) < MaxRows

LEMMA RecordStep ==
    ASSUME RefinementInv, [Next]_vars, ~undone'
    PROVE  /\ \/ Log(db'.fixes) = Log(db.fixes)
              \/ LogGrows /\ UNCHANGED <<cloud>> /\ db'.dead = db.dead
                 /\ Synced(db'.fixes) = Synced(db.fixes)
           /\ RoomInv'
<1>1. db \in Db /\ db.fixes \in Table /\ db.dead \subseteq Nat /\ db.hwm \in Nat /\ TypeOK
  BY DbFields DEF RefinementInv, LedgerInv, PathInv, TypeOK
<1> DEFINE Same == Log(db'.fixes) = Log(db.fixes)
           Grown == /\ LogGrows /\ UNCHANGED <<cloud>> /\ db'.dead = db.dead
                    /\ Synced(db'.fixes) = Synced(db.fixes)
<1> SUFFICES (Same \/ Grown) /\ RoomInv'
  OBVIOUS
<1>2. ASSUME NEW t \in Table, db' = [db EXCEPT !.fixes = t]
      PROVE  db'.fixes = t /\ db'.dead = db.dead
  BY <1>1, <1>2, DbUpdate
<1>3. ASSUME UNCHANGED serial, db'.fixes = db.fixes PROVE Same /\ RoomInv'
  BY <1>3 DEF RefinementInv, RoomInv
<1>4. ASSUME NEW f \in Fix, RetireStale(f) PROVE Same /\ RoomInv'
  <2>1. db'.fixes = RetireRow(db.fixes, f) /\ Len(db'.fixes) = Len(db.fixes)
    BY <1>1, <1>2, <1>4, RetireRowLemma DEF RetireStale
  <2>2. Same
    <3>1. \A i \in DOMAIN db.fixes : db.fixes[i] \in Row
      BY <1>1 DEF Table
    <3>2. /\ DOMAIN db'.fixes = DOMAIN db.fixes
          /\ \A i \in DOMAIN db.fixes : db'.fixes[i].fix = db.fixes[i].fix
      BY <2>1, <3>1 DEF RetireRow, Row
    <3> QED
      BY <3>2, LogSame
  <2>3. RoomInv'
    BY <1>4, <2>1 DEF RetireStale, RoomInv
  <2> QED
    BY <2>2, <2>3
<1>5. ASSUME NEW f \in Fix, db' = [db EXCEPT !.fixes = InsertRow(db.fixes, f)],
             Len(db.fixes) < MaxRows, UNCHANGED <<cloud>>
      PROVE  Grown
  <2>1. InsertRow(db.fixes, f) \in Table /\ Synced(InsertRow(db.fixes, f)) = Synced(db.fixes)
    BY <1>1, InsertRowLemma
  <2>2. db'.fixes = InsertRow(db.fixes, f) /\ db'.dead = db.dead
    BY <1>2, <1>5, <2>1
  <2>3. Log(db'.fixes) = Append(Log(db.fixes), f) /\ Len(Log(db.fixes)) = Len(db.fixes)
    BY <1>1, <2>2, LogInsert
  <2> QED
    BY <1>5, <2>1, <2>2, <2>3 DEF LogGrows
<1>6. ASSUME NEW f \in Fix, InsertFresh(f) PROVE Grown /\ RoomInv'
  BY <1>5, <1>6 DEF InsertFresh, net, RoomInv
<1>7. CASE InsertAfterRetire
  <2>1. serial.frame \in Fix /\ Len(db.fixes) < MaxRows
    BY <1>1, <1>7 DEF InsertAfterRetire, TypeOK, RefinementInv, RoomInv
  <2> QED
    BY <1>5, <1>7, <2>1 DEF InsertAfterRetire, net, RoomInv
<1>8. CASE MarkOne
  <2>1. PICK id \in marks : db' = [db EXCEPT !.fixes = MarkRow(db.fixes, id)]
    BY <1>8 DEF MarkOne
  <2>2. db'.fixes = MarkRow(db.fixes, id) /\ Len(db'.fixes) = Len(db.fixes)
    BY <1>1, <1>2, <2>1, MarkRowLemma
  <2>3. Same
    <3>1. /\ DOMAIN db'.fixes = DOMAIN db.fixes
          /\ \A i \in DOMAIN db.fixes : db'.fixes[i].fix = db.fixes[i].fix
      BY <1>1, <2>2, MarkRowLemma DEF MarkRow
    <3> QED
      BY <3>1, LogSame
  <2>4. serial' = serial
    BY <1>8 DEF MarkOne
  <2>5. RoomInv'
    BY <2>2, <2>4 DEF RefinementInv, RoomInv
  <2> HIDE DEF Same
  <2> QED
    BY <2>3, <2>5
<1>9. CASE Quarantine
  <2>1. Ids(First(todo)) \subseteq Nat
    BY <1>1, IdsType DEF First, TypeOK
  <2>2. db'.fixes = db.fixes
    BY <1>1, <1>9, <2>1, DbUpdate DEF Quarantine
  <2> QED
    BY <1>3, <1>9, <2>2 DEF Quarantine
<1>10. CASE SaveCursor
  <2>1. db' = db \/ db' = [db EXCEPT !.hwm = top]
    BY <1>10 DEF SaveCursor
  <2>2. [db EXCEPT !.hwm = top].fixes = db.fixes
    BY <1>1, DbUpdate DEF TypeOK
  <2>3. db'.fixes = db.fixes
    BY <2>1, <2>2
  <2>4. serial' = serial
    BY <1>10 DEF SaveCursor
  <2> HIDE DEF Same
  <2> QED
    BY <1>3, <2>3, <2>4
<1>11. CASE InsertRaises \/ Crash
  <2>1. db' = db
    BY <1>11 DEF InsertRaises, Crash
  <2>4. serial' = Idle /\ Idle.at = "idle"
    BY <1>11 DEF InsertRaises, Crash, Idle
  <2>2. Same
    BY <2>1
  <2>3. RoomInv'
    BY <2>4 DEF RoomInv
  <2> QED
    BY <2>2, <2>3
<1>12. CASE CommitInsert \/ (\E f \in Fix : InsertDuplicate(f))
  <2>1. db' = db /\ serial'.at # "insert"
    BY <1>12 DEF CommitInsert, InsertDuplicate, Idle
  <2> QED
    BY <2>1 DEF RoomInv
<1>13. CASE UNCHANGED <<db, serial>>
  BY <1>3, <1>13
<1> HIDE DEF Same, Grown
<1> QED
  BY <1>4, <1>6, <1>7, <1>8, <1>9, <1>10, <1>11, <1>12, <1>13
  DEF Next, SerialStep, UplinkStep, vars, OtherCommit, Fetch, Accepted, Retry, BatchRejected,
      OneRejected, CommitDead, CommitMarks, CommitCursor, UplinkRaises, LateDelivery

\* What the cloud adds to what it holds are rows of the table.
LEMMA DeliverStep ==
    ASSUME RefinementInv, [Next]_vars, ~undone'
    PROVE  \/ cloud' = cloud
           \/ /\ \E new \in SUBSET Known : cloud' = cloud \cup new
              /\ UNCHANGED db
<1>1. CASE Accepted \/ Retry
  <2>1. Request \subseteq todo
    BY DEF Request, First
  <2>2. cloud' = cloud \/ cloud' = cloud \cup {p \in Request : p.id \notin Ids(cloud)}
    BY <1>1 DEF Accepted, Retry, Ingest
  <2>3. {p \in Request : p.id \notin Ids(cloud)} \subseteq Known
    BY <2>1 DEF Known
  <2> QED
    BY <1>1, <2>2, <2>3 DEF Accepted, Retry
<1>2. CASE LateDelivery
  <2>1. PICK r \in inflight : cloud' = cloud \cup {p \in r : p.id \notin Ids(cloud)}
    BY <1>2 DEF LateDelivery, Ingest
  <2>2. {p \in r : p.id \notin Ids(cloud)} \subseteq Known
    BY <2>1 DEF Known
  <2> QED
    BY <1>2, <2>1, <2>2 DEF LateDelivery
<1>3. CASE cloud' = cloud
  BY <1>3
<1> QED
  BY <1>1, <1>2, <1>3
  DEF Next, SerialStep, UplinkStep, vars, net, InsertDuplicate, RetireStale, InsertFresh,
      InsertAfterRetire, CommitInsert, InsertRaises, OtherCommit, Fetch, BatchRejected,
      OneRejected, Quarantine, CommitDead, MarkOne, CommitMarks, SaveCursor, CommitCursor,
      UplinkRaises, Crash

\* Of the fixes table, the dead letters and the cloud a step changes one.
LEMMA OneOfThree ==
    ASSUME RefinementInv, [Next]_vars, ~undone'
    PROVE  \/ db' = db
           \/ cloud' = cloud /\ db'.dead = db.dead /\ Synced(db'.fixes) = Synced(db.fixes)
           \/ MarkOne
           \/ Quarantine
<1>1. db \in Db /\ db.fixes \in Table /\ TypeOK /\ PathInv
  BY DbFields DEF RefinementInv, LedgerInv, PathInv, TypeOK
<1>2. CASE InsertRaises \/ Crash
  BY <1>2 DEF InsertRaises, Crash
<1>3. ASSUME ~InsertRaises, ~Crash, ~MarkOne PROVE Synced(db'.fixes) = Synced(db.fixes)
  BY <1>1, <1>3, SyncedStep
<1>4. ASSUME NEW t, db' = [db EXCEPT !.fixes = t] PROVE db'.dead = db.dead
  BY <1>1, <1>4 DEF Db
<1>5. CASE (\E f \in Fix : RetireStale(f) \/ InsertFresh(f)) \/ InsertAfterRetire
  <2>1. \E t : db' = [db EXCEPT !.fixes = t]
    BY <1>5 DEF RetireStale, InsertFresh, InsertAfterRetire
  <2>2. db'.dead = db.dead /\ cloud' = cloud
    BY <1>4, <1>5, <2>1 DEF RetireStale, InsertFresh, InsertAfterRetire, net
  <2> QED
    BY <1>2, <1>3, <2>2
<1>6. CASE SaveCursor
  <2>1. db' = db \/ db' = [db EXCEPT !.hwm = top]
    BY <1>6 DEF SaveCursor
  <2>2. db'.dead = db.dead /\ cloud' = cloud
    BY <1>1, <1>6, <2>1 DEF SaveCursor, net, Db
  <2> QED
    BY <1>2, <1>3, <2>2
<1> QED
  BY <1>2, <1>5, <1>6
  DEF Next, SerialStep, UplinkStep, vars, InsertDuplicate, CommitInsert, OtherCommit,
      Fetch, Accepted, Retry, BatchRejected, OneRejected, CommitDead, CommitMarks,
      CommitCursor, UplinkRaises, LateDelivery

\* Request's singleton: of the pairs known under one id there is one.
LEMMA FirstIsOne ==
    ASSUME TypeOK, StableKey
    PROVE  \A p, q \in First(todo) : p = q
<1> SUFFICES ASSUME NEW p \in First(todo), NEW q \in First(todo) PROVE p = q
  OBVIOUS
<1>1. p \in todo /\ q \in todo /\ p \in Pair /\ q \in Pair /\ p.id <= q.id /\ q.id <= p.id
  BY DEF First, TypeOK
<1>2. p.id = q.id
  BY <1>1 DEF Pair
<1>3. /\ p = [id |-> p.id, fix |-> db.fixes[p.id].fix]
      /\ q = [id |-> q.id, fix |-> db.fixes[q.id].fix]
  BY <1>1, PairOfRow DEF Known
<1> QED
  BY <1>2, <1>3

\* The four actions of the ledger, in the terms of the detailed path.
LEMMA LedgerRecord ==
    ASSUME NEW f \in Fix, Len(Log(db.fixes)) < MaxRows,
           Log(db'.fixes) = Append(Log(db.fixes), f),
           cloud' = cloud, db'.dead = db.dead, Synced(db'.fixes) = Synced(db.fixes)
    PROVE  Ledger!Record
  BY DEF Ledger!Record, Log

LEMMA LedgerDeliver ==
    ASSUME TypeOK, StableKey, NEW new \in SUBSET Known, cloud' = cloud \cup new, db' = db
    PROVE  Ledger!Deliver
<1>1. Ids(new) \subseteq DOMAIN Log(db.fixes)
  BY PairOfRow DEF Ids, Log
<1>2. new = {[id |-> k, fix |-> Log(db.fixes)[k]] : k \in Ids(new)}
  <2>1. \A p \in new : p = [id |-> p.id, fix |-> Log(db.fixes)[p.id]] /\ p.id \in Ids(new)
    BY PairOfRow DEF Ids, Log
  <2>2. \A k \in Ids(new) : [id |-> k, fix |-> Log(db.fixes)[k]] \in new
    BY <2>1 DEF Ids
  <2> QED
    BY <2>1, <2>2
<1>3. \E keys \in SUBSET DOMAIN Log(db.fixes) :
         cloud' = cloud \cup {[id |-> k, fix |-> Log(db.fixes)[k]] : k \in keys}
  BY <1>1, <1>2
<1> QED
  BY <1>3 DEF Ledger!Deliver, Ledger!Entry, Log

LEMMA LedgerPutAside ==
    ASSUME NEW k \in DOMAIN db.fixes, db'.dead = db.dead \cup {k}, db'.fixes = db.fixes,
           cloud' = cloud
    PROVE  Ledger!PutAside
  BY DEF Ledger!PutAside

LEMMA LedgerSettle ==
    ASSUME NEW k \in DOMAIN db.fixes, Log(db'.fixes) = Log(db.fixes),
           [id |-> k, fix |-> db.fixes[k].fix] \in cloud \/ k \in db.dead,
           Synced(db'.fixes) = Synced(db.fixes) \cup {k},
           cloud' = cloud, db'.dead = db.dead
    PROVE  Ledger!Settle
<1>1. Log(db.fixes)[k] = db.fixes[k].fix /\ k \in DOMAIN Log(db.fixes)
  BY DEF Log
<1> QED
  BY <1>1 DEF Ledger!Settle, Ledger!Entry, Log

\* The row a mark is for is delivered or put aside.
LEMMA MarkSettles ==
    ASSUME LedgerInv, ~undone, NEW id \in marks
    PROVE  /\ id \in DOMAIN db.fixes
           /\ [id |-> id, fix |-> db.fixes[id].fix] \in cloud \/ id \in db.dead
<1>1. TypeOK /\ StableKey /\ db.dead \subseteq Ids(refused) /\ id \in Ids(cloud) \cup db.dead
  BY DEF LedgerInv, PathInv, Backed, Exact
<1>2. CASE id \in Ids(cloud)
  <2>1. PICK p \in cloud : p.id = id
    BY <1>2 DEF Ids
  <2> QED
    BY <1>1, <2>1, PairOfRow DEF Known
<1>3. CASE id \in db.dead
  <2>1. PICK p \in refused : p.id = id
    BY <1>1, <1>3 DEF Ids
  <2> QED
    BY <1>1, <1>3, <2>1, PairOfRow DEF Known
<1> QED
  BY <1>1, <1>2, <1>3

LEMMA MarkSynced ==
    ASSUME NEW t \in Table, NEW id \in DOMAIN t
    PROVE  Synced(MarkRow(t, id)) = Synced(t) \cup {id}
<1>1. /\ DOMAIN MarkRow(t, id) = DOMAIN t
      /\ \A i \in DOMAIN t : t[i] \in Row
  BY DEF MarkRow, Table
<1>2. \A i \in DOMAIN t : MarkRow(t, id)[i].synced <=> (t[i].synced \/ i = id)
  BY <1>1 DEF MarkRow, Row
<1> QED
  BY <1>1, <1>2 DEF Synced

\* The ledger's variables, as the detailed path has them.
Mapped == <<Log(db.fixes), cloud, db.dead, Synced(db.fixes)>>

LEMMA LedgerStep ==
    ASSUME RefinementInv, [Next]_vars, ~undone'
    PROVE  Ledger!Next \/ Mapped' = Mapped
<1>1. /\ ~undone /\ LedgerInv /\ TypeOK /\ StableKey /\ PathInv
      /\ db \in Db /\ db.fixes \in Table /\ db.dead \subseteq Nat
  BY NothingDiscarded, DbFields DEF RefinementInv, LedgerInv, Exact, PathInv, TypeOK
<1>2. CASE db' = db
  <2>1. CASE cloud' = cloud
    BY <1>2, <2>1 DEF Mapped
  <2>2. CASE \E new \in SUBSET Known : cloud' = cloud \cup new
    BY <1>1, <1>2, <2>2, LedgerDeliver DEF Ledger!Next
  <2> QED
    BY <2>1, <2>2, DeliverStep
<1>3. CASE cloud' = cloud /\ db'.dead = db.dead /\ Synced(db'.fixes) = Synced(db.fixes)
  <2>1. CASE Log(db'.fixes) = Log(db.fixes)
    BY <1>3, <2>1 DEF Mapped
  <2>2. CASE LogGrows
    BY <1>3, <2>2, LedgerRecord DEF LogGrows, Ledger!Next
  <2> QED
    BY <2>1, <2>2, RecordStep
<1>4. CASE MarkOne
  <2>1. PICK id \in marks : db' = [db EXCEPT !.fixes = MarkRow(db.fixes, id)]
    BY <1>4 DEF MarkOne
  <2>2. /\ id \in DOMAIN db.fixes
        /\ [id |-> id, fix |-> db.fixes[id].fix] \in cloud \/ id \in db.dead
    BY <1>1, MarkSettles
  <2>3. db'.fixes = MarkRow(db.fixes, id) /\ db'.dead = db.dead /\ cloud' = cloud
    BY <1>1, <1>4, <2>1 DEF MarkOne, net, Db
  <2>4. Synced(db'.fixes) = Synced(db.fixes) \cup {id}
    BY <1>1, <2>2, <2>3, MarkSynced
  <2>5. Log(db'.fixes) = Log(db.fixes)
    <3>1. /\ DOMAIN db'.fixes = DOMAIN db.fixes
          /\ \A i \in DOMAIN db.fixes : db'.fixes[i].fix = db.fixes[i].fix
      BY <1>1, <2>3, MarkRowLemma DEF MarkRow
    <3> QED
      BY <3>1, LogSame
  <2> QED
    BY <2>2, <2>3, <2>4, <2>5, LedgerSettle DEF Ledger!Next
<1>5. CASE Quarantine
  <2>1. db'.fixes = db.fixes /\ db'.dead = db.dead \cup Ids(First(todo)) /\ cloud' = cloud
    <3>1. Ids(First(todo)) \subseteq Nat
      BY <1>1, IdsType DEF First, TypeOK
    <3> QED
      BY <1>1, <1>5, <3>1, DbUpdate DEF Quarantine, net
  <2>2. CASE First(todo) = {}
    <3>1. Ids(First(todo)) = {}
      BY <2>2 DEF Ids
    <3> QED
      BY <2>1, <3>1 DEF Mapped
  <2>3. ASSUME NEW p \in First(todo) PROVE Ledger!Next
    <3>1. First(todo) = {p}
      BY <1>1, <2>3, FirstIsOne
    <3>2. Ids(First(todo)) = {p.id} /\ p \in Known
      BY <3>1 DEF Ids, First, Known
    <3>3. p.id \in DOMAIN db.fixes
      BY <1>1, <3>2, PairOfRow
    <3> QED
      BY <2>1, <3>2, <3>3, LedgerPutAside DEF Ledger!Next
  <2> QED
    BY <2>2, <2>3
<1> QED
  BY <1>2, <1>3, <1>4, <1>5, OneOfThree

LEMMA RefinementInvStep ==
    ASSUME NoDiscard, RefinementInv, [Next]_vars
    PROVE  RefinementInv'
<1>1. LedgerInv'
  BY LedgerInvStep DEF RefinementInv
<1>2. ~undone'
  BY DEF NoDiscard, RefinementInv, Next, SerialStep, UplinkStep, vars, thread, net,
      InsertDuplicate, RetireStale, InsertFresh, InsertAfterRetire, CommitInsert,
      InsertRaises, OtherCommit, Fetch, Accepted, Retry, BatchRejected, OneRejected,
      Quarantine, CommitDead, MarkOne, CommitMarks, SaveCursor, CommitCursor,
      UplinkRaises, LateDelivery, Crash
<1> QED
  BY <1>1, <1>2, RecordStep DEF RefinementInv

(* The detailed path implements the ledger, whatever the batches, the        *)
(* answers, the late requests and the statements of the uplink thread that  *)
(* raise, unless the process dies or a statement of insert_fix raises.      *)
THEOREM ImplementsLedger == NoDiscard => (Spec => LedgerSpec)
<1> SUFFICES ASSUME NoDiscard PROVE Spec => LedgerSpec
  OBVIOUS
<1>1. Init => RefinementInv /\ Ledger!Init
  <2> SUFFICES ASSUME Init PROVE RefinementInv /\ Ledger!Init
    OBVIOUS
  <2>1. Exact
    BY DEF Init, Exact, StableKey, Settled, Synced, EmptyTable, Ids
  <2>2. RefinementInv
    BY <2>1, PathInit DEF Init, Idle, RefinementInv, LedgerInv, RoomInv
  <2>3. Ledger!Init
    BY DEF Init, Ledger!Init, EmptyTable, Synced
  <2> QED
    BY <2>2, <2>3
<1>2. RefinementInv /\ [Next]_vars => RefinementInv'
  BY RefinementInvStep
<1>3. RefinementInv /\ RefinementInv' /\ [Next]_vars => [Ledger!Next]_(Ledger!vars)
  <2> SUFFICES ASSUME RefinementInv, RefinementInv', [Next]_vars
               PROVE  [Ledger!Next]_(Ledger!vars)
    OBVIOUS
  <2>1. Ledger!Next \/ Mapped' = Mapped
    BY LedgerStep DEF RefinementInv
  <2> QED
    BY <2>1 DEF Mapped, Log, Ledger!vars
<1> QED
  BY <1>1, <1>2, <1>3, PTL DEF Spec, LedgerSpec, Ledger!Spec
====
