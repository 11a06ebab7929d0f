---- MODULE StoreProofs ----
(* What the statements of Store do to a table, for every table: the lemmas  *)
(* the proofs about its users rest on.                                      *)
EXTENDS Store, TLAPS

(* A retirement keeps the table a table, with its rows, ids and flags: only *)
(* the retired flag of a row can change, and only be raised.                *)
LEMMA RetireRowLemma ==
    ASSUME NEW t \in Table, NEW f \in Fix
    PROVE  /\ RetireRow(t, f) \in Table
           /\ Len(RetireRow(t, f)) = Len(t)
           /\ Synced(RetireRow(t, f)) = Synced(t)
           /\ Extends(RetireRow(t, f), t)
<1> DEFINE u == RetireRow(t, f)
<1>1. DOMAIN t = 1..Len(t) /\ Len(t) \in Nat
  BY DEF Table
<1>2. \A i \in DOMAIN t : t[i] \in Row
  BY DEF Table
<1>3. \A i \in DOMAIN t : u[i] = IF i \in Held(t, f) THEN [t[i] EXCEPT !.retired = TRUE] ELSE t[i]
  BY DEF RetireRow
<1>4. \A i \in DOMAIN t : u[i] \in Row
  BY <1>2, <1>3 DEF Row
<1>5. DOMAIN u = 1..Len(t)
  BY <1>1 DEF RetireRow
<1>6. u \in [1..Len(t) -> Row]
  BY <1>1, <1>4, <1>5 DEF RetireRow
<1>7. u \in Seq(Row) /\ Len(u) = Len(t)
  BY <1>1, <1>6
<1>8. \A i \in DOMAIN t : /\ u[i].synced = t[i].synced
                          /\ u[i].fix = t[i].fix
                          /\ t[i].retired => u[i].retired
  BY <1>2, <1>3 DEF Row
<1>9. Synced(u) = Synced(t)
  BY <1>1, <1>5, <1>8 DEF Synced
<1>10. Extends(u, t)
  BY <1>1, <1>7, <1>8 DEF Extends
<1> QED
  BY <1>7, <1>9, <1>10 DEF Table

(* An insert appends one unsynced row under the next id.                    *)
LEMMA InsertRowLemma ==
    ASSUME NEW t \in Table, NEW f \in Fix
    PROVE  /\ InsertRow(t, f) \in Table
           /\ Len(InsertRow(t, f)) = NextId(t)
           /\ InsertRow(t, f)[NextId(t)] = [fix |-> f, retired |-> FALSE, synced |-> FALSE]
           /\ \A i \in DOMAIN t : InsertRow(t, f)[i] = t[i]
           /\ Synced(InsertRow(t, f)) = Synced(t)
           /\ Extends(InsertRow(t, f), t)
<1> DEFINE row == [fix |-> f, retired |-> FALSE, synced |-> FALSE]
           u   == Append(t, row)
<1>1. row \in Row /\ row.synced = FALSE
  BY DEF Row
<1>2. t \in Seq(Row)
  BY DEF Table
<1> HIDE DEF row
<1>3. /\ u \in Seq(Row) /\ Len(u) = Len(t) + 1 /\ Len(t) \in Nat
      /\ u[Len(t) + 1] = row
      /\ \A i \in DOMAIN t : u[i] = t[i]
      /\ DOMAIN t = 1..Len(t) /\ DOMAIN u = 1..(Len(t) + 1)
  BY <1>1, <1>2
<1>4. Synced(u) = Synced(t)
  BY <1>1, <1>3 DEF Synced
<1>5. Extends(u, t)
  BY <1>3 DEF Extends
<1>6. InsertRow(t, f) = u
  BY DEF InsertRow, row
<1> QED
  BY <1>3, <1>4, <1>5, <1>6 DEF Table, NextId, row

(* The three statements that write the table keep its slots unique: an      *)
(* insert because its slot is free, which a retirement makes it.            *)
LEMMA UniqueRetire ==
    ASSUME NEW t \in Table, NEW f \in Fix, UniqueSlots(t)
    PROVE  UniqueSlots(RetireRow(t, f)) /\ IsFresh(RetireRow(t, f), f)
<1> DEFINE u == RetireRow(t, f)
<1>1. \A i \in DOMAIN t : t[i] \in Row
  BY DEF Table
<1>2. DOMAIN u = DOMAIN t
  BY DEF RetireRow
<1>3. \A i \in DOMAIN t : /\ u[i].fix = t[i].fix
                          /\ u[i].retired = (t[i].retired \/ i \in Held(t, f))
  BY <1>1 DEF RetireRow, Row
<1> HIDE DEF u
<1>4. \A g : Held(u, g) \subseteq Held(t, g)
  BY <1>2, <1>3 DEF Held
<1>5. Held(u, f) = {}
  BY <1>2, <1>3 DEF Held
<1>6. UniqueSlots(u)
  BY <1>2, <1>3, <1>4 DEF UniqueSlots
<1> QED
  BY <1>5, <1>6 DEF u, IsFresh

LEMMA UniqueInsert ==
    ASSUME NEW t \in Table, NEW f \in Fix, UniqueSlots(t), IsFresh(t, f)
    PROVE  UniqueSlots(InsertRow(t, f))
<1> DEFINE u == InsertRow(t, f)
<1>1. /\ DOMAIN t = 1..Len(t) /\ Len(t) \in Nat
      /\ DOMAIN u = 1..Len(u) /\ Len(u) = Len(t) + 1
      /\ u[Len(t) + 1].fix = f
      /\ \A i \in DOMAIN t : u[i] = t[i]
  <2>1. /\ u \in Table /\ Len(u) = NextId(t)
        /\ u[NextId(t)] = [fix |-> f, retired |-> FALSE, synced |-> FALSE]
        /\ \A i \in DOMAIN t : u[i] = t[i]
    BY InsertRowLemma
  <2> HIDE DEF u
  <2>2. u[NextId(t)].fix = f
    BY <2>1
  <2> QED
    BY <2>1, <2>2 DEF Table, NextId
<1> HIDE DEF u
<1>2. \A i \in DOMAIN t : f.node = t[i].fix.node /\ f.seq = t[i].fix.seq => t[i].retired
  BY DEF IsFresh, Held
<1> SUFFICES ASSUME NEW i \in DOMAIN u, NEW j \in DOMAIN u,
                    ~u[i].retired, ~u[j].retired,
                    u[j].fix.node = u[i].fix.node, u[j].fix.seq = u[i].fix.seq
             PROVE  i = j
  BY DEF UniqueSlots, Held, u
<1>3. CASE i \in DOMAIN t /\ j \in DOMAIN t
  BY <1>1, <1>3 DEF UniqueSlots, Held
<1>4. CASE i \in DOMAIN t /\ j = Len(t) + 1
  BY <1>1, <1>2, <1>4
<1>5. CASE i = Len(t) + 1 /\ j \in DOMAIN t
  BY <1>1, <1>2, <1>5
<1> QED
  BY <1>1, <1>3, <1>4, <1>5

(* Marking raises the synced flag of the row with that id, if there is one, *)
(* and changes nothing else.                                                *)
LEMMA MarkRowLemma ==
    ASSUME NEW t \in Table, NEW id
    PROVE  /\ MarkRow(t, id) \in Table
           /\ Len(MarkRow(t, id)) = Len(t)
           /\ \A i \in DOMAIN t : /\ MarkRow(t, id)[i].fix = t[i].fix
                                   /\ MarkRow(t, id)[i].retired = t[i].retired
           /\ Synced(MarkRow(t, id)) \subseteq Synced(t) \cup {id}
           /\ Extends(MarkRow(t, id), t)
<1> DEFINE u == MarkRow(t, id)
<1>1. DOMAIN t = 1..Len(t) /\ Len(t) \in Nat /\ \A i \in DOMAIN t : t[i] \in Row
  BY DEF Table
<1>2. \A i \in DOMAIN t : u[i] = IF i = id THEN [t[i] EXCEPT !.synced = TRUE] ELSE t[i]
  BY DEF MarkRow
<1>3. \A i \in DOMAIN t : u[i] \in Row
  BY <1>1, <1>2 DEF Row
<1>4. DOMAIN u = 1..Len(t)
  BY <1>1 DEF MarkRow
<1>5. u \in [1..Len(t) -> Row]
  BY <1>1, <1>3, <1>4 DEF MarkRow
<1>6. u \in Seq(Row) /\ Len(u) = Len(t)
  BY <1>1, <1>5
<1>7. \A i \in DOMAIN t : /\ u[i].fix = t[i].fix
                          /\ u[i].retired = t[i].retired
                          /\ t[i].synced => u[i].synced
                          /\ i # id => u[i].synced = t[i].synced
  BY <1>1, <1>2 DEF Row
<1>8. Synced(u) \subseteq Synced(t) \cup {id}
  BY <1>1, <1>4, <1>7 DEF Synced
<1>9. Extends(u, t)
  BY <1>1, <1>6, <1>7 DEF Extends
<1> QED
  BY <1>6, <1>7, <1>8, <1>9 DEF Table

LEMMA UniqueMark ==
    ASSUME NEW t \in Table, NEW id
    PROVE  /\ UniqueSlots(t) => UniqueSlots(MarkRow(t, id))
           /\ \A f : IsFresh(t, f) => IsFresh(MarkRow(t, id), f)
<1> DEFINE u == MarkRow(t, id)
<1>1. DOMAIN u = DOMAIN t
  BY DEF MarkRow
<1>2. \A i \in DOMAIN t : u[i].fix = t[i].fix /\ u[i].retired = t[i].retired
  BY MarkRowLemma
<1> HIDE DEF u
<1>3. \A f : Held(u, f) = Held(t, f)
  BY <1>1, <1>2 DEF Held
<1>4. UniqueSlots(t) => UniqueSlots(u)
  BY <1>1, <1>2, <1>3 DEF UniqueSlots
<1> QED
  BY <1>3, <1>4 DEF IsFresh, u

(* The batch is made of rows of the table, each under its own id.           *)
LEMMA GetUnsyncedLemma ==
    ASSUME NEW t \in Table, NEW limit
    PROVE  \A p \in GetUnsynced(t, limit) :
              p.id \in DOMAIN t /\ p.id \in Nat \ {0} /\ p = [id |-> p.id, fix |-> t[p.id].fix]
                                /\ p.fix \in Fix
<1>1. DOMAIN t = 1..Len(t) /\ Len(t) \in Nat /\ \A i \in DOMAIN t : t[i] \in Row
  BY DEF Table
<1>2. \A p \in GetUnsynced(t, limit) : \E i \in DOMAIN t : p = [id |-> i, fix |-> t[i].fix]
  BY DEF GetUnsynced, Unsynced
<1>3. \A i \in DOMAIN t : t[i].fix \in Fix /\ i \in Nat \ {0}
  BY <1>1 DEF Row
<1> QED
  BY <1>2, <1>3

(* Extends orders the states of a table.                                    *)
LEMMA ExtendsReflexive ==
    ASSUME NEW t \in Table
    PROVE  Extends(t, t)
<1>1. Len(t) \in Nat
  BY DEF Table
<1> QED
  BY <1>1 DEF Extends

LEMMA ExtendsTransitive ==
    ASSUME NEW t \in Table, NEW u \in Table, NEW v \in Table,
           Extends(v, u), Extends(u, t)
    PROVE  Extends(v, t)
<1>1. /\ DOMAIN t = 1..Len(t) /\ Len(t) \in Nat
      /\ DOMAIN u = 1..Len(u) /\ Len(u) \in Nat
      /\ Len(v) \in Nat
  BY DEF Table
<1>2. Len(t) <= Len(v) /\ DOMAIN t \subseteq DOMAIN u
  BY <1>1 DEF Extends
<1> QED
  BY <1>2 DEF Extends

(* The synced rows of a table stay synced in every later state of it.       *)
LEMMA ExtendsSynced ==
    ASSUME NEW t \in Table, NEW u \in Table, Extends(u, t)
    PROVE  Synced(t) \subseteq Synced(u) /\ DOMAIN t \subseteq DOMAIN u
<1>1. /\ DOMAIN t = 1..Len(t) /\ Len(t) \in Nat
      /\ DOMAIN u = 1..Len(u) /\ Len(u) \in Nat
  BY DEF Table
<1> QED
  BY <1>1 DEF Extends, Synced
====
