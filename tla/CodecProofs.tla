---- MODULE CodecProofs ----
(***************************************************************************)
(* What a base node reads from the payloads of Codec, for every value sent. *)
(***************************************************************************)
EXTENDS Codec, TLAPS

----
(* Numbers in bytes.                                                        *)

LEMMA WordValue ==
    \A n \in Int : /\ Low(n) \in Byte /\ High(n) \in Byte
                   /\ Low(n) + 256 * High(n) = Word(n)
  BY SMT DEF Low, High, Word, Byte

\* A count as one byte.
LEMMA CountByte ==
    \A n \in Nat : Low(n) \in Nat /\ Low(n) <= n
  BY SMT DEF Low

\* Numbers that fit their field.
LEMMA Fits ==
    /\ \A n \in Nat : n < 256 => Low(n) = n
    /\ \A n \in Nat : n < 65536 => Word(n) = n
  BY SMT DEF Low, Word

LEMMA DivBounds ==
    ASSUME NEW n \in Nat, NEW k \in 1..(3 * n)
    PROVE  /\ (k - 1) \div 3 + 1 \in 1..n
           /\ ((k - 1) % 3) + 1 \in 1..3
  BY SMT

LEMMA Places ==
    ASSUME NEW k \in Nat \ {0}, NEW j \in 0..2
    PROVE  /\ (3 * k - 3 + j) \div 3 = k - 1
           /\ (3 * k - 3 + j) % 3 = j
  BY SMT

LEMMA Joined ==
    ASSUME NEW s \in Seq(Int), NEW t \in Seq(Int)
    PROVE  /\ s \o t \in Seq(Int)
           /\ Len(s \o t) = Len(s) + Len(t)
           /\ \A i \in 1..Len(s) : (s \o t)[i] = s[i]
           /\ \A i \in 1..Len(t) : (s \o t)[Len(s) + i] = t[i]
  BY SMT

----
(* SET_SLOTMAP.                                                             *)

\* An entry of a slot map, in range or not.
SlotEntry == [node: Int, slot: Int]

LEMMA EntryBytesAre ==
    ASSUME NEW e \in SlotEntry
    PROVE  /\ EntryBytes(e)[1] = Low(e.node)
           /\ EntryBytes(e)[2] = High(e.node)
           /\ EntryBytes(e)[3] = Low(e.slot)
           /\ \A j \in 1..3 : EntryBytes(e)[j] \in Byte
<1>1. e.node \in Int /\ e.slot \in Int
  BY DEF SlotEntry
<1>2. /\ EntryBytes(e)[1] = Low(e.node)
      /\ EntryBytes(e)[2] = High(e.node)
      /\ EntryBytes(e)[3] = Low(e.slot)
  BY DEF EntryBytes
<1>3. EntryBytes(e)[1] \in Byte /\ EntryBytes(e)[2] \in Byte /\ EntryBytes(e)[3] \in Byte
  BY <1>1, <1>2, WordValue
<1>4. \A j \in 1..3 : j = 1 \/ j = 2 \/ j = 3
  OBVIOUS
<1> QED
  BY <1>2, <1>3, <1>4

\* The bytes of a slot map are those of its count and then of its entries.
LEMMA SlotmapBytes ==
    ASSUME NEW entries \in Seq(SlotEntry)
    PROVE  LET p == EncodeSetSlotmap(entries) IN
             /\ Len(p) = 3 * Len(entries) + 1
             /\ p[1] = Low(Len(entries))
             /\ \A k \in 1..Len(entries) :
                  /\ p[3 * k - 1] = Low(entries[k].node)
                  /\ p[3 * k] = High(entries[k].node)
                  /\ p[3 * k + 1] = Low(entries[k].slot)
<1> DEFINE n    == Len(entries)
           At(k) == EntryBytes(entries[(k - 1) \div 3 + 1])[((k - 1) % 3) + 1]
           body == [k \in 1..(3 * n) |-> At(k)]
           p    == EncodeSetSlotmap(entries)
<1>1. n \in Nat /\ \A k \in 1..n : entries[k] \in SlotEntry
  OBVIOUS
<1>4. <<Low(n)>> \in Seq(Int) /\ Len(<<Low(n)>>) = 1 /\ <<Low(n)>>[1] = Low(n)
  BY <1>1, CountByte
<1>5. p = <<Low(n)>> \o body
  BY DEF EncodeSetSlotmap
<1>2. \A k \in 1..(3 * n) : At(k) \in Byte
  <2> TAKE k \in 1..(3 * n)
  <2>1. (k - 1) \div 3 + 1 \in 1..n /\ ((k - 1) % 3) + 1 \in 1..3
    BY <1>1, DivBounds
  <2> QED
    BY <1>1, <2>1, EntryBytesAre
<1>6. ASSUME NEW k \in 1..n, NEW j \in 0..2
      PROVE  3 * k - 2 + j \in 1..(3 * n) /\ At(3 * k - 2 + j) = EntryBytes(entries[k])[j + 1]
  <2> DEFINE i == 3 * k - 2 + j
  <2>1. i \in 1..(3 * n) /\ i - 1 = 3 * k - 3 + j
    BY <1>1
  <2>2. (i - 1) \div 3 = k - 1 /\ (i - 1) % 3 = j
    BY <1>1, <2>1, Places
  <2> HIDE DEF i
  <2>3. (i - 1) \div 3 + 1 = k /\ ((i - 1) % 3) + 1 = j + 1
    BY <1>1, <2>2
  <2>4. At(i) = EntryBytes(entries[k])[j + 1]
    BY <2>3
  <2> QED
    BY <2>1, <2>4 DEF i
<1> HIDE DEF At
<1>3. body \in Seq(Int) /\ Len(body) = 3 * n
  <2> DEFINE m == 3 * n
  <2>1. m \in Nat /\ \A k \in 1..m : At(k) \in Int
    <3>1. \A b \in Byte : b \in Int
      BY DEF Byte
    <3> QED
      BY <1>1, <1>2, <3>1
  <2>2. body = [k \in 1..m |-> At(k)]
    OBVIOUS
  <2> HIDE DEF m, body
  <2>3. body \in Seq(Int) /\ Len(body) = m
    BY <2>1, <2>2
  <2> QED
    BY <2>3 DEF m
<1>8. /\ Len(p) = 3 * n + 1 /\ p[1] = Low(n)
      /\ \A i \in 1..(3 * n) : p[1 + i] = At(i)
  <2> HIDE DEF p, body
  <2>1. Len(p) = 1 + 3 * n /\ p[1] = Low(n) /\ \A i \in 1..(3 * n) : p[1 + i] = body[i]
    <3> DEFINE head == <<Low(n)>>
    <3>1. p = head \o body /\ head \in Seq(Int) /\ Len(head) = 1 /\ head[1] = Low(n)
      BY <1>4, <1>5
    <3> HIDE DEF head
    <3>2. /\ Len(head \o body) = Len(head) + Len(body)
          /\ \A i \in 1..Len(head) : (head \o body)[i] = head[i]
          /\ \A i \in 1..Len(body) : (head \o body)[Len(head) + i] = body[i]
      BY ONLY <1>3, <3>1, Joined
    <3>3. Len(p) = 1 + 3 * n
      BY ONLY <1>3, <3>1, <3>2
    <3>4. p[1] = Low(n)
      BY ONLY <3>1, <3>2
    <3>5. \A i \in 1..(3 * n) : p[1 + i] = body[i]
      BY ONLY <1>3, <3>1, <3>2
    <3> QED
      BY ONLY <3>3, <3>4, <3>5
  <2> QED
    BY <1>1, <2>1 DEF body
<1> HIDE DEF p, body
<1>7. ASSUME NEW k \in 1..n
      PROVE  /\ p[3 * k - 1] = EntryBytes(entries[k])[1]
             /\ p[3 * k] = EntryBytes(entries[k])[2]
             /\ p[3 * k + 1] = EntryBytes(entries[k])[3]
  <2>1. 3 * k - 2 \in 1..(3 * n) /\ At(3 * k - 2) = EntryBytes(entries[k])[1]
    BY <1>1, <1>6, 3 * k - 2 + 0 = 3 * k - 2, 0 + 1 = 1
  <2>2. 3 * k - 1 \in 1..(3 * n) /\ At(3 * k - 1) = EntryBytes(entries[k])[2]
    BY <1>1, <1>6, 3 * k - 2 + 1 = 3 * k - 1, 1 + 1 = 2
  <2>3. 3 * k \in 1..(3 * n) /\ At(3 * k) = EntryBytes(entries[k])[3]
    BY <1>1, <1>6, 3 * k - 2 + 2 = 3 * k, 2 + 1 = 3
  <2>4. /\ 1 + (3 * k - 2) = 3 * k - 1 /\ 1 + (3 * k - 1) = 3 * k
        /\ 1 + (3 * k) = 3 * k + 1
    BY <1>1
  <2> QED
    BY <1>8, <2>1, <2>2, <2>3, <2>4
<1>9. ASSUME NEW k \in 1..n
      PROVE  /\ p[3 * k - 1] = Low(entries[k].node)
             /\ p[3 * k] = High(entries[k].node)
             /\ p[3 * k + 1] = Low(entries[k].slot)
  <2>1. entries[k] \in SlotEntry
    BY <1>1
  <2> QED
    BY <1>7, <2>1, EntryBytesAre
<1> QED
  BY <1>8, <1>9 DEF p

(* What a base node reads is the slot map that was sent, cut to its first    *)
(* Len % 256 entries and with each number cut to its field: a map of 256     *)
(* entries is read as the empty one (encode_set_slotmap).                    *)
THEOREM SlotmapReadAsSent ==
    ASSUME NEW entries \in Seq(SlotEntry)
    PROVE  ReadSlotmap(EncodeSetSlotmap(entries)) =
               [k \in 1..Low(Len(entries)) |->
                   [node |-> Word(entries[k].node), slot |-> Low(entries[k].slot)]]
<1> DEFINE n == Len(entries)
           p == EncodeSetSlotmap(entries)
<1>1. n \in Nat /\ p[1] = Low(n)
  BY SlotmapBytes
<1>2. Low(n) \in Nat /\ Low(n) <= n
  BY <1>1, CountByte
<1>3. ASSUME NEW k \in 1..Low(n)
      PROVE  /\ p[3 * k + 1] = Low(entries[k].slot)
             /\ U16At(p, 3 * k - 1) = Word(entries[k].node)
  <2>1. k \in 1..n /\ (3 * k - 1) + 1 = 3 * k
    BY <1>1, <1>2
  <2> DEFINE node == entries[k].node
  <2>2. node \in Int
    <3>1. entries[k] \in SlotEntry
      BY <2>1
    <3> QED
      BY <3>1 DEF SlotEntry
  <2>3. /\ p[3 * k - 1] = Low(node)
        /\ p[3 * k] = High(node)
        /\ p[3 * k + 1] = Low(entries[k].slot)
    BY <2>1, SlotmapBytes
  <2>4. U16At(p, 3 * k - 1) = p[3 * k - 1] + 256 * p[3 * k]
    BY <2>1 DEF U16At
  <2> HIDE DEF p, node
  <2>5. p[3 * k - 1] + 256 * p[3 * k] = Word(node)
    BY ONLY <2>2, <2>3, WordValue
  <2>6. U16At(p, 3 * k - 1) = Word(node)
    BY ONLY <2>4, <2>5
  <2> QED
    BY ONLY <2>3, <2>6 DEF node
<1> HIDE DEF p
<1>4. ReadSlotmap(p) =
          [k \in 1..Low(n) |-> [node |-> U16At(p, 3 * k - 1), slot |-> p[3 * k + 1]]]
  BY <1>1 DEF ReadSlotmap
<1> QED
  BY <1>3, <1>4 DEF p

(* A slot map of at most 255 entries whose numbers fit their fields is read  *)
(* as it was sent (encode_set_slotmap).                                      *)
THEOREM SlotmapExact ==
    ASSUME NEW entries \in Seq(SlotEntry), Len(entries) < 256,
           \A k \in 1..Len(entries) :
              /\ entries[k].node \in Nat /\ entries[k].node < 65536
              /\ entries[k].slot \in Nat /\ entries[k].slot < 256
    PROVE  ReadSlotmap(EncodeSetSlotmap(entries)) = entries
<1>1. Len(entries) \in Nat /\ Low(Len(entries)) = Len(entries)
  BY Fits
<1>2. ReadSlotmap(EncodeSetSlotmap(entries)) =
          [k \in 1..Len(entries) |->
              [node |-> Word(entries[k].node), slot |-> Low(entries[k].slot)]]
  <2>1. ReadSlotmap(EncodeSetSlotmap(entries)) =
            [k \in 1..Low(Len(entries)) |->
                [node |-> Word(entries[k].node), slot |-> Low(entries[k].slot)]]
    BY ONLY SlotmapReadAsSent, entries \in Seq(SlotEntry)
  <2> QED
    BY ONLY <1>1, <2>1
<1>3. ASSUME NEW k \in 1..Len(entries)
      PROVE  [node |-> Word(entries[k].node), slot |-> Low(entries[k].slot)] = entries[k]
  <2>1. entries[k] \in SlotEntry
    OBVIOUS
  <2>2. Word(entries[k].node) = entries[k].node /\ Low(entries[k].slot) = entries[k].slot
    BY Fits
  <2> QED
    BY <2>1, <2>2 DEF SlotEntry
<1>4. entries = [k \in 1..Len(entries) |-> entries[k]]
  OBVIOUS
<1>5. ReadSlotmap(EncodeSetSlotmap(entries)) = [k \in 1..Len(entries) |-> entries[k]]
  BY ONLY <1>2, <1>3
<1> QED
  BY ONLY <1>4, <1>5

(* encode_frame refuses a slot map only from 683 entries on; the maps from   *)
(* 256 to 682 are sent, and read as others.                                  *)
THEOREM RefusedTooLate ==
    ASSUME NEW entries \in Seq(SlotEntry)
    PROVE  Refused(EncodeSetSlotmap(entries)) <=> Len(entries) > 682
<1>1. Len(entries) \in Nat /\ Len(EncodeSetSlotmap(entries)) = 3 * Len(entries) + 1
  BY SlotmapBytes
<1> QED
  BY <1>1 DEF Refused, SerialMaxPayload
----
(* SET_TIMING.                                                              *)

(* What a base node reads of the timing is each number cut to its field      *)
(* (encode_set_timing).                                                      *)
THEOREM TimingReadAsSent ==
    ASSUME NEW slot_count \in Int, NEW toa_ms \in Int, NEW guard_ms \in Int
    PROVE  ReadTiming(EncodeSetTiming(slot_count, toa_ms, guard_ms)) =
               [slot_count |-> Low(slot_count),
                toa_ms     |-> Word(toa_ms),
                guard_ms   |-> Word(guard_ms)]
<1> DEFINE p == EncodeSetTiming(slot_count, toa_ms, guard_ms)
<1>2. /\ p[1] = Low(slot_count)
      /\ p[2] = Low(toa_ms) /\ p[3] = High(toa_ms)
      /\ p[4] = Low(guard_ms) /\ p[5] = High(guard_ms)
  BY DEF EncodeSetTiming
<1>3. U16At(p, 2) = p[2] + 256 * p[3] /\ U16At(p, 4) = p[4] + 256 * p[5]
  BY DEF U16At
<1> HIDE DEF p
<1>4. p[2] + 256 * p[3] = Word(toa_ms)
  BY ONLY <1>2, WordValue, toa_ms \in Int
<1>5. p[4] + 256 * p[5] = Word(guard_ms)
  BY ONLY <1>2, WordValue, guard_ms \in Int
<1>6. ReadTiming(p) = [slot_count |-> Low(slot_count),
                       toa_ms     |-> Word(toa_ms),
                       guard_ms   |-> Word(guard_ms)]
  BY ONLY <1>2, <1>3, <1>4, <1>5 DEF ReadTiming
<1> QED
  BY ONLY <1>6 DEF p
====
