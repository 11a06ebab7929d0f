---- MODULE UplinkProofs ----
(***************************************************************************)
(* Safety of the store-and-forward path for every set of fixes, every      *)
(* batch size and bound, and every combination of faults.                  *)
(***************************************************************************)
EXTENDS Uplink, StoreProofs

\* What each write to the connection does to the type of its view.
LEMMA DbUpdate ==
    ASSUME NEW d \in Db, NEW t \in Table, NEW ids \in SUBSET Nat, NEW n \in Nat
    PROVE  /\ [d EXCEPT !.fixes = t] \in Db
           /\ [d EXCEPT !.fixes = t].fixes = t
           /\ [d EXCEPT !.fixes = t].dead = d.dead
           /\ [d EXCEPT !.fixes = t].hwm = d.hwm
           /\ [d EXCEPT !.dead = d.dead \cup ids] \in Db
           /\ [d EXCEPT !.dead = d.dead \cup ids].fixes = d.fixes
           /\ [d EXCEPT !.dead = d.dead \cup ids].dead = d.dead \cup ids
           /\ [d EXCEPT !.dead = d.dead \cup ids].hwm = d.hwm
           /\ [d EXCEPT !.hwm = n] \in Db
           /\ [d EXCEPT !.hwm = n].fixes = d.fixes
           /\ [d EXCEPT !.hwm = n].dead = d.dead
           /\ [d EXCEPT !.hwm = n].hwm = n
  BY DEF Db

LEMMA DbFields ==
    ASSUME NEW d \in Db
    PROVE  d.fixes \in Table /\ d.dead \subseteq Nat /\ d.hwm \in Nat
  BY DEF Db

LEMMA IdsType ==
    ASSUME NEW pairs, pairs \subseteq Pair
    PROVE  Ids(pairs) \subseteq Nat \ {0}
  BY DEF Ids, Pair

(* Every variable keeps its type, whatever fails.                           *)
LEMMA TypeInit == Init => TypeOK
<1> SUFFICES ASSUME Init PROVE TypeOK
  OBVIOUS
<1>1. EmptyTable \in Table
  BY DEF EmptyTable, Table
<1>2. db \in Db
  BY <1>1 DEF Init, Db
<1> QED
  BY <1>2 DEF Init, TypeOK, Idle

LEMMA TypeStep == TypeOK /\ [Next]_vars => TypeOK'
<1> SUFFICES ASSUME TypeOK, [Next]_vars PROVE TypeOK'
  OBVIOUS
<1> USE DEF TypeOK
<1>1. db.fixes \in Table /\ db.dead \subseteq Nat /\ db.hwm \in Nat
  BY DbFields
<1>2. Request \subseteq todo /\ First(todo) \subseteq todo
  BY DEF Request, First
<1>3. Request \subseteq Pair /\ First(todo) \subseteq Pair
  BY <1>2
<1>4. Ids(Request) \subseteq Nat /\ Ids(First(todo)) \subseteq Nat
  BY <1>3, IdsType
<1>5. Ingest(cloud, Request) \subseteq Pair
  BY <1>3 DEF Ingest
<1>6. Idle \in [at: {"idle", "insert", "commit"}, frame: Fix \cup {NoFix}] /\ Idle.at # "insert"
  BY DEF Idle
<1>7. ASSUME NEW f \in Fix, InsertDuplicate(f) PROVE TypeOK'
  BY <1>7 DEF InsertDuplicate, thread, net
<1>8. ASSUME NEW f \in Fix, RetireStale(f) PROVE TypeOK'
  <2>1. db' \in Db
    BY <1>1, <1>8, RetireRowLemma, DbUpdate DEF RetireStale
  <2> QED
    BY <2>1, <1>8 DEF RetireStale, thread, net
<1>9. ASSUME NEW f \in Fix, InsertFresh(f) PROVE TypeOK'
  <2>1. db' \in Db
    BY <1>1, <1>9, InsertRowLemma, DbUpdate DEF InsertFresh
  <2> QED
    BY <2>1, <1>9 DEF InsertFresh, thread, net
<1>10. CASE InsertAfterRetire
  <2>1. db' \in Db
    BY <1>1, <1>10, InsertRowLemma, DbUpdate DEF InsertAfterRetire
  <2> QED
    BY <2>1, <1>10 DEF InsertAfterRetire, thread, net
<1>11. CASE CommitInsert
  BY <1>6, <1>11 DEF CommitInsert, thread, net
<1>12. CASE InsertRaises
  BY <1>6, <1>12 DEF InsertRaises, thread, net
<1>13. CASE OtherCommit
  BY <1>13 DEF OtherCommit, thread, net
<1>14. CASE Fetch
  <2>1. GetUnsynced(db.fixes, BatchSize) \subseteq Pair
    BY <1>1, GetUnsyncedLemma DEF Pair
  <2> QED
    BY <2>1, <1>14 DEF Fetch, net
<1>15. CASE Accepted
  BY <1>3, <1>4, <1>5, <1>15 DEF Accepted
<1>16. CASE Retry
  <2>1. cloud' \subseteq Pair /\ inflight' \subseteq SUBSET Pair
    BY <1>3, <1>5, <1>16 DEF Retry
  <2> QED
    BY <2>1, <1>16 DEF Retry, Continue
<1>17. CASE BatchRejected
  BY <1>17 DEF BatchRejected, net
<1>18. CASE OneRejected
  BY <1>3, <1>18 DEF OneRejected
<1>19. CASE Quarantine
  <2>1. db' \in Db
    BY <1>1, <1>4, <1>19, DbUpdate DEF Quarantine
  <2> QED
    BY <2>1, <1>19 DEF Quarantine, net
<1>20. CASE CommitDead
  BY <1>4, <1>20 DEF CommitDead, net
<1>21. CASE MarkOne
  <2>1. PICK id \in marks : /\ db' = [db EXCEPT !.fixes = MarkRow(db.fixes, id)]
                            /\ marks' = marks \ {id}
    BY <1>21 DEF MarkOne
  <2>2. MarkRow(db.fixes, id) \in Table
    BY <1>1, MarkRowLemma
  <2>3. db' \in Db
    BY <1>1, <2>1, <2>2, DbUpdate
  <2> QED
    BY <2>1, <2>3, <1>21 DEF MarkOne, net
<1>22. CASE CommitMarks
  BY <1>22 DEF CommitMarks, Continue, net
<1>23. CASE SaveCursor
  <2>1. [db EXCEPT !.hwm = top] \in Db
    BY <1>1, DbUpdate
  <2>2. db' \in Db
    BY <2>1, <1>23 DEF SaveCursor, Continue
  <2> QED
    BY <2>2, <1>23 DEF SaveCursor, Continue, net
<1>24. CASE CommitCursor
  BY <1>24 DEF CommitCursor, Continue, net
<1>25. CASE UplinkRaises
  BY <1>25 DEF UplinkRaises, Continue, net
<1>26. CASE LateDelivery
  <2>1. \A r \in inflight : Ingest(cloud, r) \subseteq Pair
    BY DEF Ingest
  <2>2. cloud' \subseteq Pair /\ inflight' \subseteq SUBSET Pair
    BY <2>1, <1>26 DEF LateDelivery
  <2> QED
    BY <2>2, <1>26 DEF LateDelivery, thread
<1>27. CASE Crash
  BY <1>6, <1>27 DEF Crash, Continue, net
<1>28. CASE UNCHANGED vars
  BY <1>28 DEF vars
<1> QED
  BY <1>7, <1>8, <1>9, <1>10, <1>11, <1>12, <1>13, <1>14, <1>15, <1>16, <1>17, <1>18,
     <1>19, <1>20, <1>21, <1>22, <1>23, <1>24, <1>25, <1>26, <1>27, <1>28
  DEF Next, SerialStep, UplinkStep

(* The connection, the threads, the cloud and the network stay well formed  *)
(* under every fault.                                                       *)
THEOREM TypeCorrect == Spec => []TypeOK
<1>1. Init => TypeOK
  BY TypeInit
<1>2. TypeOK /\ [Next]_vars => TypeOK'
  BY TypeStep
<1> QED
  BY <1>1, <1>2, PTL DEF Spec

----
(* Why MarkJustified is inductive: what is about to be marked was answered   *)
(* for, and a quarantined row was refused.                                   *)
Backed(view) ==
    /\ Synced(view.fixes) \subseteq Answered
    /\ view.dead \subseteq Ids(refused)
    /\ view.hwm # 0 => view.hwm \in Answered

\* The connection's view is never behind the committed state.
Ahead(u, v) ==
    /\ Extends(u.fixes, v.fixes)
    /\ v.dead \subseteq u.dead
    /\ v.hwm <= u.hwm

PathInv ==
    /\ TypeOK
    /\ Backed(db) /\ Backed(disk)
    /\ marks \subseteq Answered
    /\ top # 0 => top \in Answered
    /\ pc \in {"quarantine", "commit_dead"} => Ids(First(todo)) \subseteq Ids(refused)
    /\ Ahead(db, disk)

LEMMA AheadReflexive ==
    ASSUME NEW d \in Db
    PROVE  Ahead(d, d)
  BY DbFields, ExtendsReflexive DEF Ahead

LEMMA PathInit == Init => PathInv
<1> SUFFICES ASSUME Init PROVE PathInv
  OBVIOUS
<1>1. TypeOK
  BY TypeInit
<1>2. Ahead(db, disk)
  BY <1>1, AheadReflexive DEF TypeOK, Init
<1>3. Backed(db) /\ Backed(disk)
  BY DEF Init, Backed, Synced, EmptyTable
<1> QED
  BY <1>1, <1>2, <1>3 DEF Init, PathInv

(* The cloud's answers are never taken back.                                 *)
LEMMA AnsweredGrows ==
    ASSUME [Next]_vars
    PROVE  /\ cloud \subseteq cloud' /\ refused \subseteq refused'
           /\ Answered \subseteq Answered'
           /\ Ids(refused) \subseteq Ids(refused')
<1>1. cloud \subseteq cloud' /\ refused \subseteq refused'
  BY DEF Next, SerialStep, UplinkStep, vars, thread, net, Ingest,
         InsertDuplicate, RetireStale, InsertFresh, InsertAfterRetire, CommitInsert,
         InsertRaises, OtherCommit, Fetch, Accepted, Retry, BatchRejected, OneRejected,
         Quarantine, CommitDead, MarkOne, CommitMarks, SaveCursor, CommitCursor,
         UplinkRaises, LateDelivery, Crash
<1> QED
  BY <1>1 DEF Answered, Ids

(* A step takes the view forward, unless it rolls it back.                   *)
LEMMA DbForward ==
    ASSUME TypeOK, [Next]_vars, ~InsertRaises, ~Crash
    PROVE  Ahead(db', db)
<1> USE DEF TypeOK
<1>1. db.fixes \in Table /\ db.dead \subseteq Nat /\ db.hwm \in Nat /\ Ahead(db, db)
  BY DbFields, AheadReflexive
<1>2. ASSUME NEW t \in Table, Extends(t, db.fixes), db' = [db EXCEPT !.fixes = t]
      PROVE  Ahead(db', db)
  BY <1>1, <1>2, DbUpdate DEF Ahead
<1>3. ASSUME NEW f \in Fix, RetireStale(f) PROVE Ahead(db', db)
  BY <1>1, <1>2, <1>3, RetireRowLemma DEF RetireStale
<1>4. ASSUME NEW f \in Fix, InsertFresh(f) PROVE Ahead(db', db)
  BY <1>1, <1>2, <1>4, InsertRowLemma DEF InsertFresh
<1>5. CASE InsertAfterRetire
  BY <1>1, <1>2, <1>5, InsertRowLemma DEF InsertAfterRetire
<1>6. CASE MarkOne
  <2>1. PICK id \in marks : db' = [db EXCEPT !.fixes = MarkRow(db.fixes, id)]
    BY <1>6 DEF MarkOne
  <2> QED
    BY <1>1, <1>2, <2>1, MarkRowLemma
<1>7. CASE Quarantine
  <2>1. Ids(First(todo)) \subseteq Nat
    BY IdsType DEF First
  <2>2. db'.fixes = db.fixes /\ db'.dead = db.dead \cup Ids(First(todo)) /\ db'.hwm = db.hwm
    BY <1>1, <1>7, <2>1, DbUpdate DEF Quarantine
  <2> QED
    BY <1>1, <2>2, ExtendsReflexive DEF Ahead
<1>8. CASE SaveCursor
  <2>1. CASE top > db.hwm
    <3>1. db' = [db EXCEPT !.hwm = top]
      BY <1>8, <2>1 DEF SaveCursor
    <3>2. db'.fixes = db.fixes /\ db'.dead = db.dead /\ db'.hwm = top
      BY <1>1, <3>1, DbUpdate
    <3> QED
      BY <1>1, <2>1, <3>2, ExtendsReflexive DEF Ahead
  <2>2. CASE ~(top > db.hwm)
    BY <1>1, <1>8, <2>2 DEF SaveCursor
  <2> QED
    BY <2>1, <2>2
<1>9. CASE UNCHANGED db
  BY <1>1, <1>9
<1> QED
  BY <1>3, <1>4, <1>5, <1>6, <1>7, <1>8, <1>9
  DEF Next, SerialStep, UplinkStep, vars, InsertDuplicate, CommitInsert, OtherCommit,
      Fetch, Accepted, Retry, BatchRejected, OneRejected, CommitDead, CommitMarks,
      CommitCursor, UplinkRaises, LateDelivery

LEMMA DbStep ==
    ASSUME TypeOK, [Next]_vars
    PROVE  db' = disk \/ Ahead(db', db)
  BY DbForward DEF InsertRaises, Crash

(* As long as no step discards a statement the view only goes forward.       *)
LEMMA NothingDiscarded ==
    ASSUME TypeOK, [Next]_vars, ~undone'
    PROVE  ~undone /\ Ahead(db', db)
<1>1. Ahead(db, db)
  BY AheadReflexive DEF TypeOK
<1>2. CASE InsertRaises \/ Crash
  BY <1>1, <1>2 DEF InsertRaises, Crash, TypeOK
<1>4. CASE UNCHANGED undone /\ ~InsertRaises /\ ~Crash
  <2>1. Ahead(db', db)
    BY <1>4, DbForward
  <2> QED
    BY <1>4, <2>1
<1> QED
  BY <1>2, <1>4
  DEF Next, SerialStep, UplinkStep, vars, thread, net,
      InsertDuplicate, RetireStale, InsertFresh, InsertAfterRetire, CommitInsert,
      OtherCommit, Fetch, Accepted, Retry, BatchRejected, OneRejected,
      Quarantine, CommitDead, MarkOne, CommitMarks, SaveCursor, CommitCursor,
      UplinkRaises, LateDelivery

LEMMA DiskStep ==
    ASSUME [Next]_vars
    PROVE  disk' = disk \/ (disk' = db /\ db' = db)
  BY DEF Next, SerialStep, UplinkStep, vars, thread, net,
         InsertDuplicate, RetireStale, InsertFresh, InsertAfterRetire, CommitInsert,
         InsertRaises, OtherCommit, Fetch, Accepted, Retry, BatchRejected, OneRejected,
         Quarantine, CommitDead, MarkOne, CommitMarks, SaveCursor, CommitCursor,
         UplinkRaises, LateDelivery, Crash

(* What a write of the serial or the uplink thread adds to the view is      *)
(* backed by an answer of the cloud.                                        *)
LEMMA BackedDbStep ==
    ASSUME PathInv, [Next]_vars
    PROVE  Backed(db)'
<1> USE DEF PathInv
<1>1. db.fixes \in Table /\ db.dead \subseteq Nat /\ db.hwm \in Nat
  BY DbFields DEF TypeOK
<1>2. Answered \subseteq Answered' /\ Ids(refused) \subseteq Ids(refused')
  BY AnsweredGrows
<1>3. ASSUME db' = db \/ db' = disk PROVE Backed(db)'
  BY <1>2, <1>3 DEF Backed
<1>4. ASSUME NEW t \in Table, Synced(t) \subseteq Answered, db' = [db EXCEPT !.fixes = t]
      PROVE  Backed(db)'
  <2>1. db'.fixes = t /\ db'.dead = db.dead /\ db'.hwm = db.hwm
    BY <1>1, <1>4, DbUpdate DEF TypeOK
  <2> QED
    BY <1>2, <1>4, <2>1 DEF Backed
<1>5. Synced(db.fixes) \subseteq Answered
  BY DEF Backed
<1>6. ASSUME NEW f \in Fix, RetireStale(f) PROVE Backed(db)'
  BY <1>1, <1>4, <1>5, <1>6, RetireRowLemma DEF RetireStale
<1>7. ASSUME NEW f \in Fix, InsertFresh(f) PROVE Backed(db)'
  BY <1>1, <1>4, <1>5, <1>7, InsertRowLemma DEF InsertFresh
<1>8. CASE InsertAfterRetire
  <2>1. db' = [db EXCEPT !.fixes = InsertRow(db.fixes, serial.frame)]
    BY <1>8 DEF InsertAfterRetire
  <2>2. serial.frame \in Fix
    BY <1>8 DEF InsertAfterRetire, TypeOK
  <2>3. /\ InsertRow(db.fixes, serial.frame) \in Table
        /\ Synced(InsertRow(db.fixes, serial.frame)) \subseteq Answered
    BY <1>1, <1>5, <2>2, InsertRowLemma
  <2> QED
    BY <1>4, <2>1, <2>3
<1>9. CASE MarkOne
  <2>1. PICK id \in marks : db' = [db EXCEPT !.fixes = MarkRow(db.fixes, id)]
    BY <1>9 DEF MarkOne
  <2>2. MarkRow(db.fixes, id) \in Table /\ Synced(MarkRow(db.fixes, id)) \subseteq Answered
    BY <1>1, <1>5, MarkRowLemma
  <2> QED
    BY <1>4, <2>1, <2>2
<1>10. CASE Quarantine
  <2>1. Ids(First(todo)) \subseteq Nat /\ Ids(First(todo)) \subseteq Ids(refused)
    BY <1>10, IdsType DEF First, Quarantine, TypeOK
  <2>2. db'.fixes = db.fixes /\ db'.dead = db.dead \cup Ids(First(todo)) /\ db'.hwm = db.hwm
    BY <1>1, <1>10, <2>1, DbUpdate DEF Quarantine, TypeOK
  <2> QED
    BY <1>2, <2>1, <2>2 DEF Backed
<1>11. CASE SaveCursor
  <2>1. CASE top > db.hwm
    <3>1. db \in Db /\ top \in Nat /\ top # 0 /\ db' = [db EXCEPT !.hwm = top]
      BY <1>1, <1>11, <2>1 DEF SaveCursor, TypeOK
    <3>2. db'.fixes = db.fixes /\ db'.dead = db.dead /\ db'.hwm = top
      BY <1>1, <3>1, DbUpdate
    <3>3. top \in Answered
      BY <3>1
    <3> QED
      BY <1>2, <3>2, <3>3 DEF Backed
  <2>2. CASE ~(top > db.hwm)
    BY <1>3, <1>11, <2>2 DEF SaveCursor
  <2> QED
    BY <2>1, <2>2
<1>12. CASE db' = db \/ db' = disk
  BY <1>3, <1>12
<1> QED
  BY <1>6, <1>7, <1>8, <1>9, <1>10, <1>11, <1>12
  DEF Next, SerialStep, UplinkStep, vars, InsertDuplicate, CommitInsert, InsertRaises,
      OtherCommit, Fetch, Accepted, Retry, BatchRejected, OneRejected, CommitDead,
      CommitMarks, CommitCursor, UplinkRaises, LateDelivery, Crash

\* Both views are backed after any step: a commit publishes a backed view.
LEMMA BackedStep ==
    ASSUME PathInv, [Next]_vars
    PROVE  Backed(db)' /\ Backed(disk)'
<1>1. Backed(db)' /\ Backed(disk)
  BY BackedDbStep DEF PathInv
<1>2. CASE disk' = disk
  BY <1>1, <1>2, AnsweredGrows DEF Backed
<1>3. CASE disk' = db /\ db' = db
  BY <1>1, <1>3 DEF Backed
<1> QED
  BY <1>1, <1>2, <1>3, DiskStep

(* The uplink thread only ever holds ids the cloud answered for.            *)
LEMMA ThreadStep ==
    ASSUME PathInv, [Next]_vars
    PROVE  /\ (marks \subseteq Answered)'
           /\ (top # 0 => top \in Answered)'
           /\ (pc \in {"quarantine", "commit_dead"} => Ids(First(todo)) \subseteq Ids(refused))'
<1> USE DEF PathInv
<1>1. Answered \subseteq Answered' /\ Ids(refused) \subseteq Ids(refused')
  BY AnsweredGrows
<1> DEFINE Goal == /\ (marks \subseteq Answered)'
                   /\ (top # 0 => top \in Answered)'
                   /\ (pc \in {"quarantine", "commit_dead"} =>
                          Ids(First(todo)) \subseteq Ids(refused))'
<1>2. CASE UNCHANGED thread
  BY <1>1, <1>2 DEF thread, First
<1>3. ASSUME NEW rest, Continue(rest) PROVE Goal
  BY <1>3 DEF Continue
<1>4. CASE Accepted
  <2>1. Ids(Request) \subseteq Answered'
    BY <1>4 DEF Accepted, Ingest, Answered, Ids
  <2> QED
    BY <1>4, <2>1 DEF Accepted
<1>5. CASE OneRejected
  <2>1. refused' = refused \cup First(todo) /\ todo' = todo
    BY <1>5 DEF OneRejected, Request
  <2>2. Ids(First(todo)) \subseteq Ids(refused')
    BY <2>1 DEF Ids
  <2> QED
    BY <1>1, <1>5, <2>1, <2>2 DEF OneRejected, First
<1>6. CASE CommitDead
  <2>1. Ids(First(todo)) \subseteq Answered
    BY <1>6 DEF CommitDead, Answered
  <2> QED
    BY <1>1, <1>6, <2>1 DEF CommitDead
<1>7. CASE Quarantine
  BY <1>1, <1>7 DEF Quarantine, First
<1>8. CASE Fetch \/ BatchRejected
  BY <1>1, <1>8 DEF Fetch, BatchRejected
<1>9. CASE MarkOne
  BY <1>1, <1>9 DEF MarkOne
<1>10. CASE CommitMarks
  <2>1. CASE top = 0
    BY <1>3, <1>10, <2>1 DEF CommitMarks
  <2>2. CASE top # 0
    BY <1>1, <1>10, <2>2 DEF CommitMarks
  <2> QED
    BY <2>1, <2>2
<1>11. CASE SaveCursor
  <2>1. CASE top > db.hwm
    BY <1>1, <1>11, <2>1 DEF SaveCursor
  <2>2. CASE ~(top > db.hwm)
    BY <1>3, <1>11, <2>2 DEF SaveCursor
  <2> QED
    BY <2>1, <2>2
<1>12. CASE CommitCursor \/ Retry \/ UplinkRaises \/ Crash
  BY <1>3, <1>12 DEF CommitCursor, Retry, UplinkRaises, Crash
<1> QED
  BY <1>2, <1>4, <1>5, <1>6, <1>7, <1>8, <1>9, <1>10, <1>11, <1>12
  DEF Next, SerialStep, UplinkStep, vars, thread, InsertDuplicate, RetireStale, InsertFresh,
      InsertAfterRetire, CommitInsert, InsertRaises, OtherCommit, LateDelivery

(* Rolling back cannot lose what was committed.                              *)
LEMMA AheadStep ==
    ASSUME PathInv, [Next]_vars
    PROVE  Ahead(db', disk')
<1>1. db \in Db /\ disk \in Db /\ db' \in Db /\ disk' \in Db /\ Ahead(db, disk)
  BY TypeStep DEF PathInv, TypeOK
<1>2. CASE disk' = db /\ db' = db
  BY <1>1, <1>2, AheadReflexive
<1>3. CASE disk' = disk /\ db' = disk
  BY <1>1, <1>3, AheadReflexive
<1>4. CASE disk' = disk /\ Ahead(db', db)
  <2>1. db.fixes \in Table /\ disk.fixes \in Table /\ db'.fixes \in Table
        /\ db.hwm \in Nat /\ disk.hwm \in Nat /\ db'.hwm \in Nat
    BY <1>1, DbFields
  <2>2. Extends(db'.fixes, disk.fixes)
    BY <1>1, <1>4, <2>1, ExtendsTransitive DEF Ahead
  <2> QED
    BY <1>1, <1>4, <2>1, <2>2 DEF Ahead
<1> QED
  BY <1>2, <1>3, <1>4, DbStep, DiskStep DEF PathInv

LEMMA PathStep == PathInv /\ [Next]_vars => PathInv'
<1> SUFFICES ASSUME PathInv, [Next]_vars PROVE PathInv'
  OBVIOUS
<1>1. TypeOK'
  BY TypeStep DEF PathInv
<1>2. Backed(db)' /\ Backed(disk)'
  BY BackedStep
<1>3. Ahead(db', disk')
  BY AheadStep
<1> QED
  BY <1>1, <1>2, <1>3, ThreadStep DEF PathInv

LEMMA PathInvariant == Spec => []PathInv
  BY PathInit, PathStep, PTL DEF Spec

(* Mark-after-accept holds for every table, batch size and fault.           *)
THEOREM MarkAfterAccept == Spec => []MarkJustified
<1>1. PathInv => MarkJustified
  BY DEF PathInv, Backed, MarkJustified
<1> QED
  BY <1>1, PathInvariant, PTL

(* The committed store is append-only for every interleaving of the        *)
(* threads' statements, commits, rollbacks and crashes.                     *)
THEOREM StoreAppendOnly == Spec => AppendOnly
<1>1. PathInv /\ [Next]_vars => [AppendOnlyStep]_vars
  <2> SUFFICES ASSUME PathInv, [Next]_vars PROVE AppendOnlyStep
    OBVIOUS
  <2>1. disk \in Db /\ Ahead(db, disk)
    BY DEF PathInv, TypeOK
  <2>2. Ahead(disk, disk)
    BY <2>1, AheadReflexive
  <2>3. Ahead(disk', disk)
    BY <2>1, <2>2, DiskStep
  <2> QED
    BY <2>3 DEF Ahead, AppendOnlyStep
<1> QED
  BY <1>1, PathInvariant, PTL DEF Spec, AppendOnly

----
(* Why OneSlot is inductive: between the two statements of a wrap the slot  *)
(* of the frame is free, and no statement of another thread can take it.    *)
SlotInv ==
    /\ TypeOK
    /\ UniqueSlots(db.fixes) /\ UniqueSlots(disk.fixes)
    /\ serial.at = "insert" => IsFresh(db.fixes, serial.frame)

LEMMA SlotStep == SlotInv /\ [Next]_vars => SlotInv'
<1> SUFFICES ASSUME SlotInv, [Next]_vars PROVE SlotInv'
  OBVIOUS
<1> USE DEF SlotInv
<1>1. TypeOK'
  BY TypeStep
<1>2. /\ db \in Db /\ db.fixes \in Table
      /\ serial \in [at: {"idle", "insert", "commit"}, frame: Fix \cup {NoFix}]
      /\ serial.at = "insert" => serial.frame \in Fix
      /\ Idle.at = "idle"
  BY DbFields DEF TypeOK, Idle
<1>3. UniqueSlots(disk'.fixes)
  BY DiskStep
<1>4. ASSUME NEW t \in Table, db' = [db EXCEPT !.fixes = t] PROVE db'.fixes = t
  BY <1>2, <1>4, DbUpdate
<1>5. ASSUME NEW f \in Fix, InsertDuplicate(f) PROVE SlotInv'
  BY <1>1, <1>3, <1>5 DEF InsertDuplicate
<1>6. ASSUME NEW f \in Fix, RetireStale(f) PROVE SlotInv'
  <2>1. db'.fixes = RetireRow(db.fixes, f) /\ serial'.frame = f
    BY <1>2, <1>4, <1>6, RetireRowLemma DEF RetireStale
  <2>2. UniqueSlots(db'.fixes) /\ IsFresh(db'.fixes, f)
    BY <1>2, <2>1, UniqueRetire
  <2> QED
    BY <1>1, <1>3, <2>1, <2>2
<1>7. ASSUME NEW f \in Fix, InsertFresh(f) PROVE SlotInv'
  <2>1. db'.fixes = InsertRow(db.fixes, f) /\ serial'.at = "commit"
    BY <1>2, <1>4, <1>7, InsertRowLemma DEF InsertFresh
  <2>2. UniqueSlots(db'.fixes)
    BY <1>2, <1>7, <2>1, UniqueInsert DEF InsertFresh
  <2> QED
    BY <1>1, <1>3, <2>1, <2>2
<1>8. CASE InsertAfterRetire
  <2>1. serial.frame \in Fix /\ IsFresh(db.fixes, serial.frame)
    BY <1>2, <1>8 DEF InsertAfterRetire
  <2>2. db'.fixes = InsertRow(db.fixes, serial.frame) /\ serial'.at = "commit"
    BY <1>2, <1>4, <1>8, <2>1, InsertRowLemma DEF InsertAfterRetire
  <2>3. UniqueSlots(db'.fixes)
    BY <1>2, <2>1, <2>2, UniqueInsert
  <2> QED
    BY <1>1, <1>3, <2>2, <2>3
<1>9. CASE MarkOne
  <2>1. PICK id \in marks : db' = [db EXCEPT !.fixes = MarkRow(db.fixes, id)]
    BY <1>9 DEF MarkOne
  <2>2. db'.fixes = MarkRow(db.fixes, id) /\ serial' = serial
    BY <1>2, <1>4, <1>9, <2>1, MarkRowLemma DEF MarkOne
  <2> QED
    BY <1>1, <1>2, <1>3, <2>2, UniqueMark
<1>10. CASE serial' = serial /\ db'.fixes = db.fixes
  BY <1>1, <1>3, <1>10
<1>11. CASE Quarantine
  <2>1. Ids(First(todo)) \subseteq Nat
    BY IdsType DEF First, TypeOK
  <2>2. db'.fixes = db.fixes
    BY <1>2, <1>11, <2>1, DbUpdate DEF Quarantine
  <2> QED
    BY <1>10, <1>11, <2>2 DEF Quarantine
<1>12. CASE SaveCursor
  <2>1. db' = db \/ db' = [db EXCEPT !.hwm = top]
    BY <1>12 DEF SaveCursor
  <2>2. top \in Nat
    BY DEF TypeOK
  <2>3. db'.fixes = db.fixes
    <3>1. [db EXCEPT !.hwm = top].fixes = db.fixes
      BY <1>2, <2>2, DbUpdate
    <3> QED
      BY <2>1, <3>1
  <2> QED
    BY <1>10, <1>12, <2>3 DEF SaveCursor
<1>13. CASE InsertRaises \/ Crash
  BY <1>1, <1>2, <1>3, <1>13 DEF InsertRaises, Crash
<1>14. CASE CommitInsert
  BY <1>1, <1>2, <1>3, <1>14 DEF CommitInsert
<1> HIDE DEF SlotInv
<1> QED
  BY <1>5, <1>6, <1>7, <1>8, <1>9, <1>10, <1>11, <1>12, <1>13, <1>14
  DEF Next, SerialStep, UplinkStep, vars, OtherCommit, Fetch, Accepted, Retry, BatchRejected,
      OneRejected, CommitDead, CommitMarks, CommitCursor, UplinkRaises, LateDelivery

(* No two rows share a slot of the unique index: the statements of          *)
(* insert_fix cannot violate it, whatever runs between them.                *)
THEOREM SlotsUnique == Spec => []OneSlot
<1>1. Init => SlotInv
  <2> SUFFICES ASSUME Init PROVE SlotInv
    OBVIOUS
  <2>1. db.fixes = << >> /\ disk.fixes = << >> /\ serial.at = "idle"
    BY DEF Init, EmptyTable, Idle
  <2>2. UniqueSlots(<< >>)
    BY DEF UniqueSlots
  <2> QED
    BY <2>1, <2>2, TypeInit DEF SlotInv
<1>2. SlotInv => OneSlot
  BY DEF SlotInv, OneSlot
<1> QED
  BY <1>1, <1>2, SlotStep, PTL DEF Spec
====
