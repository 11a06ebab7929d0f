---- MODULE FramesProofs ----
(***************************************************************************)
(* Proofs about Frames, for every stream of bytes and every way of cutting *)
(* it into reads: the parser's state is well formed and its buffer bounded,*)
(* the frames it finds are frames of the stream, each once and in order,   *)
(* it passes over no other, what it finds and counts is what one call on   *)
(* the whole stream would, and encode_frame's messages are read back.      *)
(*                                                                         *)
(* The buffer is a window on what was read.  What the parser decides of a  *)
(* place in it, it decides from bytes that are there for good, so that no  *)
(* later byte makes a valid frame of a place left behind (Settled).        *)
(*                                                                         *)
(* What a recursive definition computes (the reference parse, the CRC) is  *)
(* proved by the least number for which it fails (LeastNat).               *)
(***************************************************************************)
EXTENDS Frames, SequenceTheorems, FiniteSetTheorems, TLAPS

(* A window b on s, from o on.                                              *)
Window(b, s, o) ==
    /\ o \in Nat
    /\ o + Len(b) <= Len(s)
    /\ \A i \in 1..Len(b) : b[i] = s[o + i]

(* No frame begins at p, whatever comes after s.                            *)
Settled(s, p) ==
    /\ p < Len(s)
    /\ \/ ~AtMagic(s, p)
       \/ Impossible(s, p)
       \/ Complete(s, p) /\ ~ValidAt(s, p)

BufferIsWindow == Window(buf, seen, Base)

Waiting == pc # "scan" => cursor = 0 /\ Len(buf) < MaxPayload + Overhead

FoundHolds ==
    \A i \in DOMAIN found :
        /\ ValidAt(seen, found[i].at)
        /\ found[i] = FrameAt(seen, found[i].at, found[i].at)
        /\ found[i].at + Size(found[i]) <= Place

FoundApart ==
    \A i \in DOMAIN found : \A j \in 1..(i - 1) :
        found[j].at + Size(found[j]) <= found[i].at

AllSettled ==
    \A p \in 0..(Place - 1) :
        Settled(seen, p) \/ \E i \in DOMAIN found : Inside(found[i], p)

IInv == TypeOK /\ BufferIsWindow /\ Waiting /\ FoundHolds /\ FoundApart /\ AllSettled

----
(* What the parser reads of a place is made of bytes.                       *)
LEMMA BytesOf ==
    ASSUME NEW s \in Seq(Byte), NEW i \in 1..Len(s)
    PROVE  s[i] \in Nat /\ s[i] \in Byte
  <1>1. s[i] \in Byte
    OBVIOUS
  <1>2. \A x \in Byte : x \in Nat
    BY DEF Byte
  <1>3. QED
    BY <1>1, <1>2

LEMMA HeaderType ==
    ASSUME NEW s \in Seq(Byte), NEW c \in Nat, HasHeader(s, c)
    PROVE  Declared(s, c) \in Nat
  <1>1. c + 3 \in 1..Len(s) /\ c + 4 \in 1..Len(s)
    BY DEF HasHeader
  <1>2. s[c + 3] \in Nat /\ s[c + 4] \in Nat
    BY <1>1, BytesOf
  <1>3. QED
    BY <1>2, SMTT(30) DEF Declared

LEMMA CompleteType ==
    ASSUME NEW s \in Seq(Byte), NEW c \in Nat, NEW a \in Nat, Complete(s, c)
    PROVE  /\ Declared(s, c) \in 0..MaxPayload
           /\ Total(s, c) \in Nat
           /\ c + Total(s, c) <= Len(s)
           /\ FrameAt(s, c, a) \in Frame
           /\ Size(FrameAt(s, c, a)) = Total(s, c)
  <1>1. Declared(s, c) \in Nat
    BY HeaderType DEF Complete
  <1>2. Declared(s, c) <= MaxPayload /\ Len(s) - c >= Declared(s, c) + 6
    BY <1>1, SizeAssumption, SMTT(30) DEF Complete, Impossible, Total, Overhead
  <1>3. c + 2 \in 1..Len(s) /\ s[c + 2] \in Byte
    BY <1>1, <1>2, BytesOf
  <1>4. SubSeq(s, c + 5, c + 4 + Declared(s, c)) \in Seq(Byte)
    BY <1>1, <1>2
  <1>5. Len(SubSeq(s, c + 5, c + 4 + Declared(s, c))) = Declared(s, c)
    BY <1>1, <1>2
  <1>6. /\ FrameAt(s, c, a) \in Frame
        /\ FrameAt(s, c, a).payload = SubSeq(s, c + 5, c + 4 + Declared(s, c))
    BY <1>3, <1>4 DEF FrameAt, Frame
  <1>7. Size(FrameAt(s, c, a)) = Total(s, c)
    BY <1>5, <1>6 DEF Size, Total
  <1>8. Total(s, c) = Declared(s, c) + 6
    BY DEF Total, Overhead
  <1>9. Declared(s, c) \in 0..MaxPayload
    BY <1>1, <1>2, SizeAssumption
  <1>10. Total(s, c) \in Nat /\ c + Total(s, c) <= Len(s)
    BY <1>1, <1>2, <1>8
  <1>11. QED
    BY <1>6, <1>7, <1>9, <1>10

(* What a window shows of a place is so of the whole sequence.              *)
LEMMA WindowHeader ==
    ASSUME NEW b \in Seq(Byte), NEW s \in Seq(Byte), NEW o, Window(b, s, o), NEW c \in Nat
    PROVE  /\ c < Len(b) => (AtMagic(b, c) <=> AtMagic(s, o + c))
           /\ HasHeader(b, c) => /\ HasHeader(s, o + c)
                                 /\ Declared(s, o + c) = Declared(b, c)
           /\ Impossible(b, c) => Impossible(s, o + c)
  <1>1. c < Len(b) => s[o + c + 1] = b[c + 1] /\ o + c < Len(s)
    BY SMTT(30) DEF Window
  <1>2. ASSUME HasHeader(b, c)
        PROVE  /\ HasHeader(s, o + c)
               /\ Declared(s, o + c) = Declared(b, c)
    <2>1. s[o + c + 3] = b[c + 3] /\ s[o + c + 4] = b[c + 4]
      BY <1>2 DEF Window, HasHeader
    <2>2. Len(s) - (o + c) >= 4
      BY <1>2 DEF Window, HasHeader
    <2>3. QED
      BY <1>1, <1>2, <2>1, <2>2 DEF Window, HasHeader, AtMagic, Declared
  <1>3. QED
    BY <1>1, <1>2 DEF AtMagic, Impossible, Window

LEMMA WindowGrows ==
    ASSUME NEW b \in Seq(Byte), NEW s \in Seq(Byte), NEW o \in Nat, Window(b, s, o),
           o + Len(b) = Len(s), NEW t \in Seq(Byte)
    PROVE  Window(b \o t, s \o t, o)
  <1>1. /\ Len(b) \in Nat /\ Len(s) \in Nat /\ Len(t) \in Nat
        /\ Len(b \o t) = Len(b) + Len(t) /\ Len(s \o t) = Len(s) + Len(t)
    BY ConcatProperties
  <1>2. \A i \in 1..(Len(b) + Len(t)) :
            (b \o t)[i] = IF i <= Len(b) THEN b[i] ELSE t[i - Len(b)]
    BY ConcatProperties
  <1>3. \A i \in 1..(Len(s) + Len(t)) :
            (s \o t)[i] = IF i <= Len(s) THEN s[i] ELSE t[i - Len(s)]
    BY ConcatProperties
  <1>4. ASSUME NEW i \in 1..(Len(b) + Len(t)), NEW e \in Int, e = o + i
        PROVE  (b \o t)[i] = (s \o t)[e]
    <2>1. e \in 1..(Len(s) + Len(t))
      BY <1>1, <1>4
    <2>2. CASE i <= Len(b)
      <3>1. i \in 1..Len(b) /\ e <= Len(s)
        BY <1>1, <1>4, <2>2
      <3>2. b[i] = s[e]
        BY <1>4, <3>1 DEF Window
      <3>3. QED
        BY <1>2, <1>3, <2>1, <3>1, <3>2
    <2>3. CASE ~(i <= Len(b))
      <3>1. ~(e <= Len(s)) /\ e - Len(s) = i - Len(b)
        BY <1>1, <1>4, <2>3
      <3>2. (b \o t)[i] = t[i - Len(b)]
        BY <1>2, <2>3
      <3>3. (s \o t)[e] = t[e - Len(s)]
        BY <1>3, <2>1, <3>1
      <3>4. QED
        BY <3>1, <3>2, <3>3
    <2>4. QED
      BY <2>2, <2>3
  <1>5. QED
    BY <1>1, <1>4 DEF Window

LEMMA WindowSlice ==
    ASSUME NEW b \in Seq(Byte), NEW s \in Seq(Byte), NEW o \in Nat, Window(b, s, o),
           NEW i \in Nat, i > 0, NEW j \in Nat, j <= Len(b),
           NEW from \in Nat, NEW to \in Nat, from = o + i, to = o + j
    PROVE  SubSeq(s, from, to) = SubSeq(b, i, j)
  <1> DEFINE x == SubSeq(s, o + i, o + j)
             y == SubSeq(b, i, j)
  <1>1. o \in Nat /\ o + j <= Len(s) /\ o + i \in Int /\ o + j \in Int
    BY DEF Window
  <1>2. \A k \in i..j : b[k] \in Byte
    BY BytesOf
  <1>3. \A k \in (o + i)..(o + j) : k \in 1..Len(s)
    BY <1>1
  <1>4. \A k \in (o + i)..(o + j) : s[k] \in Byte
    BY <1>3, BytesOf
  <1>5. /\ x \in Seq(Byte)
        /\ Len(x) = IF o + i <= o + j THEN (o + j) - (o + i) + 1 ELSE 0
        /\ \A k \in 1..((o + j) - (o + i) + 1) : x[k] = s[o + i + k - 1]
    BY <1>1, <1>4, SubSeqProperties
  <1>6. /\ y \in Seq(Byte)
        /\ Len(y) = IF i <= j THEN j - i + 1 ELSE 0
        /\ \A k \in 1..(j - i + 1) : y[k] = b[i + k - 1]
    BY <1>2, SubSeqProperties
  <1>7. Len(x) = Len(y)
    BY <1>1, <1>5, <1>6
  <1>8. \A k \in 1..Len(x) : x[k] = y[k]
    <2> TAKE k \in 1..Len(x)
    <2>1. k \in 1..(j - i + 1) /\ k \in 1..((o + j) - (o + i) + 1)
      BY <1>1, <1>5
    <2>2. i + k - 1 \in 1..Len(b) /\ o + (i + k - 1) = o + i + k - 1
      BY <1>1, <2>1
    <2>3. b[i + k - 1] = s[o + (i + k - 1)]
      BY <2>2 DEF Window
    <2>4. QED
      BY <1>5, <1>6, <2>1, <2>2, <2>3
  <1>9. QED
    BY <1>5, <1>6, <1>7, <1>8, SeqEqual

LEMMA WindowFrame ==
    ASSUME NEW b \in Seq(Byte), NEW s \in Seq(Byte), NEW o, Window(b, s, o), NEW c \in Nat,
           Complete(b, c)
    PROVE  /\ Complete(s, o + c)
           /\ ValidAt(s, o + c) <=> ValidAt(b, c)
           /\ \A a : FrameAt(s, o + c, a) = FrameAt(b, c, a)
           /\ Total(s, o + c) = Total(b, c)
  <1> DEFINE n == Declared(b, c)
  <1>1. /\ n \in 0..MaxPayload
        /\ c + n + 6 <= Len(b)
    BY CompleteType, 0 \in Nat, SMTT(30) DEF Total, Overhead
  <1>2. HasHeader(s, o + c) /\ Declared(s, o + c) = n
    BY WindowHeader DEF Complete
  <1>0. MaxPayload \in Nat
    BY SizeAssumption
  <1>3. n \in Nat /\ o \in Nat /\ n <= MaxPayload /\ MaxPayload \in Nat
    BY <1>0, <1>1 DEF Window
  <1>4. Complete(s, o + c) /\ Total(s, o + c) = Total(b, c)
    BY <1>1, <1>2, <1>3 DEF Complete, Impossible, Total, Overhead, Window
  <1>5. SubSeq(s, o + c + 2, o + c + 4 + n) = SubSeq(b, c + 2, c + 4 + n)
    <2>1. /\ c + 2 \in Nat /\ c + 2 > 0 /\ c + 4 + n \in Nat /\ c + 4 + n <= Len(b)
          /\ o + c + 2 \in Nat /\ o + c + 2 = o + (c + 2)
          /\ o + c + 4 + n \in Nat /\ o + c + 4 + n = o + (c + 4 + n)
      BY <1>1, <1>3
    <2> HIDE DEF n
    <2>2. QED
      BY <1>3, <2>1, WindowSlice, SMTT(30)
  <1>6. SubSeq(s, o + c + 5, o + c + 4 + n) = SubSeq(b, c + 5, c + 4 + n)
    <2>1. /\ c + 5 \in Nat /\ c + 5 > 0 /\ c + 4 + n \in Nat /\ c + 4 + n <= Len(b)
          /\ o + c + 5 \in Nat /\ o + c + 5 = o + (c + 5)
          /\ o + c + 4 + n \in Nat /\ o + c + 4 + n = o + (c + 4 + n)
      BY <1>1, <1>3
    <2> HIDE DEF n
    <2>2. QED
      BY <1>3, <2>1, WindowSlice, SMTT(30)
  <1>7. /\ s[o + c + n + 5] = b[c + n + 5]
        /\ s[o + c + n + 6] = b[c + n + 6]
        /\ s[o + c + 2] = b[c + 2]
    <2>1. \A i \in {c + n + 5, c + n + 6, c + 2} : i \in 1..Len(b)
      BY <1>1, <1>3
    <2>2. \A i \in {c + n + 5, c + n + 6, c + 2} : b[i] = s[o + i]
      BY <2>1 DEF Window
    <2>3. /\ o + (c + n + 5) = o + c + n + 5
          /\ o + (c + n + 6) = o + c + n + 6
          /\ o + (c + 2) = o + c + 2
      BY <1>3
    <2>4. QED
      BY <2>2, <2>3
  <1>8. Body(s, o + c) = Body(b, c) /\ Received(s, o + c) = Received(b, c)
    BY <1>2, <1>5, <1>7 DEF Body, Received
  <1>9. ValidAt(s, o + c) <=> ValidAt(b, c)
    BY <1>4, <1>8 DEF ValidAt
  <1>10. \A a : FrameAt(s, o + c, a) = FrameAt(b, c, a)
    BY <1>2, <1>6, <1>7 DEF FrameAt
  <1>11. QED
    BY <1>4, <1>9, <1>10

LEMMA WindowSettled ==
    ASSUME NEW b \in Seq(Byte), NEW s \in Seq(Byte), NEW o, Window(b, s, o), NEW c \in Nat,
           Settled(b, c)
    PROVE  Settled(s, o + c)
  <1>1. o + c < Len(s)
    BY DEF Settled, Window
  <1>2. CASE ~AtMagic(b, c)
    BY <1>1, <1>2, WindowHeader DEF Settled
  <1>3. CASE Impossible(b, c)
    BY <1>1, <1>3, WindowHeader DEF Settled
  <1>4. CASE Complete(b, c) /\ ~ValidAt(b, c)
    BY <1>1, <1>4, WindowFrame DEF Settled
  <1>5. QED
    BY <1>2, <1>3, <1>4 DEF Settled

----
(* The steps that leave one byte behind.                                    *)
LEMMA OneBehind ==
    ASSUME IInv, pc = "scan", Settled(buf, cursor),
           cursor' = cursor + 1, crc_errors' \in Nat,
           UNCHANGED <<buf, frames, pc, seen, found, line>>
    PROVE  IInv'
  <1> USE DEF IInv
  <1>1. /\ cursor \in Nat /\ cursor < Len(buf)
        /\ Base \in Nat /\ Place = Base + cursor
        /\ Base' = Base /\ Place' = Place + 1
    BY DEF TypeOK, BufferIsWindow, Window, Settled, Base, Place
  <1>2. TypeOK'
    BY <1>1 DEF TypeOK, line
  <1>3. BufferIsWindow' /\ Waiting'
    BY <1>1 DEF BufferIsWindow, Waiting, Window
  <1>4. FoundHolds'
    <2> SUFFICES ASSUME NEW i \in DOMAIN found
                 PROVE  found[i].at + Size(found[i]) <= Place + 1
      BY <1>1 DEF FoundHolds
    <2>1. found[i].at + Size(found[i]) <= Place
      BY DEF FoundHolds
    <2>2. found[i] \in Frame
      BY ElementOfSeq DEF TypeOK
    <2>3. found[i].at + Size(found[i]) \in Nat
      BY <2>2 DEF Frame, Size, Overhead
    <2>4. QED
      BY <1>1, <2>1, <2>3
  <1>5. FoundApart'
    BY DEF FoundApart
  <1>6. AllSettled'
    <2>1. Settled(seen, Place)
      BY <1>1, WindowSettled DEF TypeOK, BufferIsWindow
    <2>2. \A p \in 0..(Place' - 1) : p \in 0..(Place - 1) \/ p = Place
      BY <1>1
    <2>3. QED
      BY <2>1, <2>2 DEF AllSettled
  <1>7. QED
    BY <1>2, <1>3, <1>4, <1>5, <1>6

LEMMA SkipStep == IInv /\ Skip => IInv'
  <1> SUFFICES ASSUME IInv, Skip PROVE IInv'
    OBVIOUS
  <1>1. Settled(buf, cursor)
    BY DEF Skip, Settled
  <1>2. QED
    BY <1>1, OneBehind DEF Skip, IInv, TypeOK

LEMMA FalseLengthStep == IInv /\ FalseLength => IInv'
  <1> SUFFICES ASSUME IInv, FalseLength PROVE IInv'
    OBVIOUS
  <1>1. Settled(buf, cursor)
    BY DEF FalseLength, Settled, Impossible, HasHeader, AtMagic
  <1>2. crc_errors' \in Nat
    BY DEF FalseLength, IInv, TypeOK
  <1>3. QED
    BY <1>1, <1>2, OneBehind DEF FalseLength

LEMMA BadCrcStep == IInv /\ BadCrc => IInv'
  <1> SUFFICES ASSUME IInv, BadCrc PROVE IInv'
    OBVIOUS
  <1>1. Settled(buf, cursor)
    BY DEF BadCrc, Settled, Complete, HasHeader, AtMagic
  <1>2. crc_errors' \in Nat
    BY DEF BadCrc, IInv, TypeOK
  <1>3. QED
    BY <1>1, <1>2, OneBehind DEF BadCrc

(* push finds a frame and leaves all of it behind.                          *)
LEMMA GoodFrameStep == IInv /\ GoodFrame => IInv'
  <1> SUFFICES ASSUME IInv, GoodFrame PROVE IInv'
    OBVIOUS
  <1> DEFINE f == FrameAt(buf, cursor, Base + cursor)
             n == Total(buf, cursor)
             k == Len(found) + 1
  <1> USE DEF IInv
  <1>1. /\ buf \in Seq(Byte) /\ seen \in Seq(Byte) /\ found \in Seq(Frame)
        /\ cursor \in Nat /\ cursor <= Len(buf)
        /\ Base \in Nat /\ Place = Base + cursor /\ Place \in Nat
    BY DEF TypeOK, BufferIsWindow, Window, Base, Place
  <1>2. Complete(buf, cursor) /\ ValidAt(buf, cursor)
    BY DEF GoodFrame, ValidAt
  <1>3. /\ n \in Nat /\ cursor + n <= Len(buf)
        /\ f \in Frame /\ Size(f) = n
    BY <1>1, <1>2, CompleteType
  <1>4. /\ ValidAt(seen, Place)
        /\ FrameAt(seen, Place, Place) = f
    BY <1>1, <1>2, WindowFrame DEF BufferIsWindow
  <1>5. f.at = Place
    BY <1>1 DEF FrameAt
  <1> HIDE DEF f, n
  <1>6. /\ found' = Append(found, f) /\ frames' = Append(frames, f)
        /\ cursor' = cursor + n
        /\ Base' = Base /\ Place' = Place + n
    BY <1>1, <1>3 DEF GoodFrame, Base, Place, f, n
  <1>7. /\ found' \in Seq(Frame) /\ Len(found') = k
        /\ \A i \in 1..Len(found) : found'[i] = found[i]
        /\ found'[k] = f
    BY <1>1, <1>3, <1>6, AppendProperties
  <1>8. DOMAIN found = 1..Len(found) /\ DOMAIN found' = 1..k /\ Len(found) \in Nat
    BY <1>1, <1>7, LenProperties
  <1>9. TypeOK'
    <2>1. frames' \in Seq(Frame)
      BY <1>3, <1>6, AppendProperties DEF TypeOK
    <2>2. cursor' \in 0..Len(buf')
      BY <1>1, <1>3, <1>6 DEF GoodFrame
    <2>3. QED
      BY <1>7, <2>1, <2>2 DEF TypeOK, GoodFrame, line
  <1>10. BufferIsWindow' /\ Waiting'
    BY <1>6 DEF BufferIsWindow, Waiting, GoodFrame
  <1>11. FoundHolds'
    <2>1. ASSUME NEW i \in 1..Len(found)
          PROVE  /\ ValidAt(seen, found[i].at)
                 /\ found[i] = FrameAt(seen, found[i].at, found[i].at)
                 /\ found[i].at + Size(found[i]) <= Place + n
      <3>1. found[i] \in Frame
        BY <1>1, ElementOfSeq
      <3>2. found[i].at + Size(found[i]) \in Nat
        BY <3>1 DEF Frame, Size, Overhead
      <3>3. QED
        BY <1>1, <1>3, <1>8, <3>2 DEF FoundHolds
    <2>2. seen' = seen
      BY DEF GoodFrame
    <2>3. \A i \in 1..k : i \in 1..Len(found) \/ i = k
      BY <1>8
    <2>4. QED
      BY <1>3, <1>4, <1>5, <1>6, <1>7, <1>8, <2>1, <2>2, <2>3 DEF FoundHolds
  <1>12. FoundApart'
    <2>1. ASSUME NEW i \in 1..k, NEW j \in 1..(i - 1)
          PROVE  found'[j].at + Size(found'[j]) <= found'[i].at
      <3>1. j \in 1..Len(found) /\ found'[j] = found[j]
        BY <1>7, <1>8
      <3>2. CASE i = k
        BY <1>5, <1>7, <1>8, <3>1, <3>2 DEF FoundHolds
      <3>3. CASE i \in 1..Len(found)
        BY <1>7, <1>8, <3>1, <3>3 DEF FoundApart
      <3>4. QED
        BY <1>8, <3>2, <3>3
    <2>2. QED
      BY <1>8, <2>1 DEF FoundApart
  <1>13. AllSettled'
    <2>1. ASSUME NEW p \in 0..(Place' - 1)
          PROVE  Settled(seen', p) \/ \E i \in DOMAIN found' : Inside(found'[i], p)
      <3>1. seen' = seen /\ p \in Nat /\ p < Place + n
        BY <1>1, <1>3, <1>6 DEF GoodFrame
      <3>2. CASE p < Place
        <4>1. p \in 0..(Place - 1)
          BY <1>1, <3>1, <3>2
        <4>2. CASE Settled(seen, p)
          BY <3>1, <4>2
        <4>3. ASSUME NEW i \in 1..Len(found), Inside(found[i], p)
              PROVE  i \in 1..k /\ Inside(found'[i], p)
          BY <1>7, <1>8, <4>3
        <4>4. QED
          BY <1>8, <4>1, <4>2, <4>3 DEF AllSettled
      <3>3. CASE Place <= p
        <4>1. Inside(f, p)
          BY <1>1, <1>3, <1>5, <3>1, <3>3 DEF Inside
        <4>2. k \in 1..k
          BY <1>8
        <4>3. QED
          BY <1>7, <1>8, <4>1, <4>2
      <3>4. QED
        BY <1>1, <3>1, <3>2, <3>3
    <2>2. QED
      BY <2>1 DEF AllSettled
  <1>14. QED
    BY <1>9, <1>10, <1>11, <1>12, <1>13

(* push keeps the unconsumed tail, which is short of a frame.               *)
LEMMA ReturnKeeps ==
    ASSUME IInv, Return
    PROVE  /\ buf' \in Seq(Byte)
           /\ Len(buf') = Len(buf) - cursor
           /\ \A i \in 1..(Len(buf) - cursor) : buf'[i] = buf[cursor + i]
           /\ Base' = Place /\ Place' = Place
  <1> USE DEF IInv
  <1>1. /\ buf \in Seq(Byte) /\ seen \in Seq(Byte)
        /\ cursor \in Nat /\ cursor <= Len(buf) /\ Len(buf) \in Nat
        /\ Base \in Nat /\ Place = Base + cursor /\ Base = Len(seen) - Len(buf)
        /\ Len(seen) \in Nat
    BY DEF TypeOK, BufferIsWindow, Window, Base, Place
  <1>2. /\ buf' = SubSeq(buf, cursor + 1, Len(buf)) /\ cursor' = 0
        /\ seen' = seen /\ found' = found
    BY DEF Return
  <1>3. \A i \in (cursor + 1)..Len(buf) : buf[i] \in Byte
    BY <1>1, BytesOf
  <1>4. /\ buf' \in Seq(Byte)
        /\ Len(buf') = Len(buf) - cursor
        /\ \A i \in 1..(Len(buf) - cursor) : buf'[i] = buf[cursor + i]
    <2>1. /\ buf' \in Seq(Byte)
          /\ Len(buf') = IF cursor + 1 <= Len(buf) THEN Len(buf) - (cursor + 1) + 1 ELSE 0
          /\ \A i \in 1..(Len(buf) - (cursor + 1) + 1) : buf'[i] = buf[cursor + 1 + i - 1]
      BY <1>1, <1>2, <1>3, SubSeqProperties
    <2>2. QED
      BY <1>1, <2>1, SMTT(30)
  <1>5. Base' = Place /\ Place' = Place
    <2>1. Len(buf') = Len(buf) - cursor /\ Len(seen') = Len(seen) /\ cursor' = 0
      BY <1>2, <1>4
    <2>2. Base' = Len(seen) - (Len(buf) - cursor) /\ Place' = Base' + 0
      BY <2>1 DEF Base, Place
    <2>3. QED
      BY <1>1, <2>2
  <1>6. QED
    BY <1>4, <1>5

LEMMA ReturnStep == IInv /\ Return => IInv'
  <1> SUFFICES ASSUME IInv, Return PROVE IInv'
    OBVIOUS
  <1> USE DEF IInv
  <1>1. /\ buf \in Seq(Byte) /\ seen \in Seq(Byte)
        /\ cursor \in Nat /\ cursor <= Len(buf) /\ Len(buf) \in Nat
        /\ Base \in Nat /\ Place = Base + cursor /\ Base = Len(seen) - Len(buf)
        /\ Len(seen) \in Nat
    BY DEF TypeOK, BufferIsWindow, Window, Base, Place
  <1>2. /\ buf' = SubSeq(buf, cursor + 1, Len(buf)) /\ cursor' = 0
        /\ seen' = seen /\ found' = found
    BY DEF Return
  <1>4. /\ buf' \in Seq(Byte)
        /\ Len(buf') = Len(buf) - cursor
        /\ \A i \in 1..(Len(buf) - cursor) : buf'[i] = buf[cursor + i]
    BY ReturnKeeps
  <1>5. Base' = Place /\ Place' = Place
    BY ReturnKeeps
  <1>6. TypeOK'
    BY <1>1, <1>2, <1>4 DEF TypeOK, Return, line
  <1>7. BufferIsWindow'
    <2>1. \A i \in 1..Len(buf') : cursor + i \in 1..Len(buf) /\ Base + (cursor + i) = Place + i
      BY <1>1, <1>4
    <2>2. \A i \in 1..Len(buf') : buf'[i] = seen[Place + i]
      BY <1>4, <2>1 DEF BufferIsWindow, Window
    <2>3. Len(buf') = Len(buf) - cursor
      BY <1>4
    <2>4. Place \in Nat /\ Place + Len(buf') <= Len(seen)
      BY <1>1, <2>3
    <2>5. QED
      BY <1>2, <1>5, <2>2, <2>4 DEF BufferIsWindow, Window
  <1>8. Len(buf) - cursor < MaxPayload + 6
    <2>1. MaxPayload \in Nat
      BY SizeAssumption
    <2>2. CASE cursor = Len(buf) \/ ~(Len(buf) - cursor >= 4)
      BY <1>1, <2>1, <2>2
    <2>3. CASE HasHeader(buf, cursor) /\ ~Impossible(buf, cursor) /\ ~Complete(buf, cursor)
      <3>1. Declared(buf, cursor) \in Nat
        BY <1>1, <2>3, HeaderType
      <3>2. Declared(buf, cursor) <= MaxPayload
        BY <2>1, <2>3, <3>1 DEF Impossible
      <3>3. ~(Len(buf) - cursor >= Declared(buf, cursor) + 6)
        BY <2>3 DEF Complete, Total, Overhead
      <3>4. QED
        BY <1>1, <2>1, <3>1, <3>2, <3>3
    <2>4. QED
      BY <2>2, <2>3 DEF Return, NeedsMore, HasHeader
  <1>9. Waiting'
    BY <1>2, <1>4, <1>8 DEF Waiting, Overhead
  <1>10. FoundHolds' /\ FoundApart' /\ AllSettled'
    BY <1>2, <1>5 DEF FoundHolds, FoundApart, AllSettled
  <1>11. QED
    BY <1>6, <1>7, <1>9, <1>10

(* A read appends a chunk to the window and to the whole alike.             *)
LEMMA ReadAppends ==
    ASSUME IInv, Read
    PROVE  /\ TypeOK' /\ BufferIsWindow' /\ Waiting'
           /\ found' = found /\ Place' = Place
           /\ Window(seen, seen', 0)
  <1> USE DEF IInv
  <1>1. /\ wire \in Seq(Byte) /\ buf \in Seq(Byte) /\ seen \in Seq(Byte)
        /\ Len(buf) \in Nat /\ Len(seen) \in Nat /\ Len(wire) \in Nat
        /\ Base \in Nat /\ Base = Len(seen) - Len(buf) /\ cursor = 0 /\ Place = Base
    BY SMTT(30) DEF TypeOK, BufferIsWindow, Window, Waiting, Read, Base, Place
  <1>2. PICK n \in Nat : /\ n <= Len(wire)
                         /\ wire' = SubSeq(wire, n + 1, Len(wire))
                         /\ buf' = buf \o SubSeq(wire, 1, n)
                         /\ seen' = seen \o SubSeq(wire, 1, n)
    <2>1. PICK k \in ReadSizes :
            LET n == IF k < Len(wire) THEN k ELSE Len(wire)
            IN  /\ wire' = SubSeq(wire, n + 1, Len(wire))
                /\ buf' = buf \o SubSeq(wire, 1, n)
                /\ seen' = seen \o SubSeq(wire, 1, n)
      BY DEF Read
    <2> DEFINE m == IF k < Len(wire) THEN k ELSE Len(wire)
    <2>2. k \in Nat
      BY SizeAssumption
    <2>3. m \in Nat /\ m <= Len(wire)
      BY <1>1, <2>2
    <2>4. /\ wire' = SubSeq(wire, m + 1, Len(wire))
          /\ buf' = buf \o SubSeq(wire, 1, m)
          /\ seen' = seen \o SubSeq(wire, 1, m)
      BY <2>1
    <2> HIDE DEF m
    <2>5. QED
      BY <2>3, <2>4
  <1> DEFINE chunk == SubSeq(wire, 1, n)
  <1>3. chunk \in Seq(Byte) /\ wire' \in Seq(Byte)
    <2>1. \A i \in 1..n : wire[i] \in Byte
      BY <1>1, <1>2, BytesOf
    <2>2. \A i \in (n + 1)..Len(wire) : wire[i] \in Byte
      BY <1>1, <1>2, BytesOf
    <2>3. 1 \in Int /\ n \in Int /\ n + 1 \in Int /\ Len(wire) \in Int
      BY <1>1
    <2>4. chunk \in Seq(Byte)
      BY <2>1, <2>3, SubSeqProperties
    <2>5. SubSeq(wire, n + 1, Len(wire)) \in Seq(Byte)
      BY <2>2, <2>3, SubSeqProperties
    <2>6. QED
      BY <1>2, <2>4, <2>5
  <1>4. buf' = buf \o chunk /\ seen' = seen \o chunk
    BY <1>2
  <1> HIDE DEF chunk
  <1>5. /\ buf' \in Seq(Byte) /\ Len(buf') = Len(buf) + Len(chunk)
        /\ \A i \in 1..(Len(buf) + Len(chunk)) :
              buf'[i] = IF i <= Len(buf) THEN buf[i] ELSE chunk[i - Len(buf)]
    BY <1>1, <1>3, <1>4, ConcatProperties
  <1>6. /\ seen' \in Seq(Byte) /\ Len(seen') = Len(seen) + Len(chunk)
        /\ \A i \in 1..(Len(seen) + Len(chunk)) :
              seen'[i] = IF i <= Len(seen) THEN seen[i] ELSE chunk[i - Len(seen)]
    BY <1>1, <1>3, <1>4, ConcatProperties
  <1>7. Len(chunk) \in Nat
    BY <1>3
  <1>8. cursor' = 0 /\ pc' = "scan" /\ found' = found /\ frames' = <<>>
    BY DEF Read
  <1>9. Base' = Base /\ Place' = Place
    <2>1. Base' = Len(seen') - Len(buf') /\ Place' = Base' + cursor'
      BY DEF Base, Place
    <2>2. Base' = Base
      BY <1>1, <1>5, <1>6, <1>7, <2>1
    <2>3. QED
      BY <1>1, <1>8, <2>1, <2>2
  <1>10. TypeOK'
    <2>1. cursor' \in 0..Len(buf')
      BY <1>1, <1>5, <1>7, <1>8
    <2>2. frames' \in Seq(Frame)
      BY <1>8, EmptySeq
    <2>3. QED
      BY <1>3, <1>5, <1>6, <1>8, <2>1, <2>2 DEF TypeOK, Read
  <1>11. BufferIsWindow' /\ Waiting'
    <2>1. Base + Len(buf) = Len(seen)
      BY <1>1
    <2>2. Window(buf', seen', Base)
      BY <1>1, <1>3, <1>4, <2>1, WindowGrows DEF BufferIsWindow
    <2>3. QED
      BY <1>8, <1>9, <2>2 DEF BufferIsWindow, Waiting
  <1>12. Window(seen, seen', 0)
    <2>1. \A i \in 1..Len(seen) : seen[i] = seen'[i]
      BY <1>1, <1>6, <1>7
    <2>2. \A i \in 1..Len(seen) : 0 + i = i
      OBVIOUS
    <2>3. QED
      BY <1>1, <1>6, <1>7, <2>1, <2>2 DEF Window
  <1>13. QED
    BY <1>8, <1>9, <1>10, <1>11, <1>12

LEMMA ReadStep == IInv /\ Read => IInv'
  <1> SUFFICES ASSUME IInv, Read PROVE IInv'
    OBVIOUS
  <1> USE DEF IInv
  <1>1. seen \in Seq(Byte) /\ seen' \in Seq(Byte) /\ Len(seen) \in Nat
    BY ReadAppends, LenProperties DEF TypeOK
  <1>8. found' = found
    BY ReadAppends
  <1>9. Place' = Place
    BY ReadAppends
  <1>12. Window(seen, seen', 0)
    BY ReadAppends
  <1>13. FoundHolds'
    <2>1. ASSUME NEW i \in DOMAIN found
          PROVE  /\ ValidAt(seen', found[i].at)
                 /\ found[i] = FrameAt(seen', found[i].at, found[i].at)
                 /\ found[i].at + Size(found[i]) <= Place
      <3>1. found[i].at \in Nat
        <4>1. found[i] \in Frame
          BY ElementOfSeq DEF TypeOK
        <4>2. QED
          BY <4>1 DEF Frame
      <3>2. ValidAt(seen, found[i].at) /\ Complete(seen, found[i].at)
        BY DEF FoundHolds, ValidAt
      <3>3. /\ ValidAt(seen', 0 + found[i].at)
            /\ FrameAt(seen', 0 + found[i].at, found[i].at)
                 = FrameAt(seen, found[i].at, found[i].at)
        BY <1>1, <1>12, <3>1, <3>2, WindowFrame
      <3>4. 0 + found[i].at = found[i].at
        BY <3>1
      <3>5. QED
        BY <3>3, <3>4 DEF FoundHolds
    <2>2. QED
      BY <1>8, <1>9, <2>1 DEF FoundHolds
  <1>14. FoundApart'
    BY <1>8 DEF FoundApart
  <1>15. AllSettled'
    <2>1. ASSUME NEW p \in 0..(Place - 1), Settled(seen, p)
          PROVE  Settled(seen', p)
      <3>1. p \in Nat /\ 0 + p = p
        OBVIOUS
      <3>2. Settled(seen', 0 + p)
        BY <1>1, <1>12, <2>1, <3>1, WindowSettled
      <3>3. QED
        BY <3>1, <3>2
    <2>2. QED
      BY <1>8, <1>9, <2>1 DEF AllSettled
  <1>16. QED
    BY <1>13, <1>14, <1>15, ReadAppends

(* The steps of the others and the dispatch leave the parser alone.         *)
LEMMA ParserKept ==
    ASSUME IInv, TypeOK', UNCHANGED <<buf, cursor, seen, found>>, pc' = "scan" <=> pc = "scan"
    PROVE  IInv'
  <1>1. Base' = Base /\ Place' = Place
    BY DEF Base, Place
  <1>2. QED
    BY <1>1 DEF IInv, BufferIsWindow, Waiting, FoundHolds, FoundApart, AllSettled

LEMMA LineStep == IInv /\ (Transmit \/ Fault) => IInv'
  <1> SUFFICES ASSUME IInv, Transmit \/ Fault PROVE IInv'
    OBVIOUS
  <1>1. wire \in Seq(Byte) /\ TypeOK
    BY DEF IInv, TypeOK
  <1>2. CASE Transmit
    <2>1. wire' \in Seq(Byte)
      <3>1. PICK m \in Messages : wire' = wire \o m
        BY <1>2, SMTT(30) DEF Transmit
      <3>2. m \in Seq(Byte)
        BY StreamAssumption
      <3>3. QED
        BY <1>1, <3>1, <3>2, ConcatProperties
    <2>2. TypeOK'
      <3>1. sent' \in 0..MaxSent
        <4>1. sent \in 0..MaxSent /\ sent < MaxSent /\ sent' = sent + 1
          BY <1>1, <1>2 DEF TypeOK, Transmit
        <4>2. MaxSent \in Nat
          BY SizeAssumption
        <4>3. QED
          BY <4>1, <4>2
      <3>2. QED
        BY <1>1, <1>2, <2>1, <3>1 DEF TypeOK, Transmit, parser
    <2>3. QED
      BY <1>2, <2>2, ParserKept DEF Transmit, parser
  <1>3. CASE Fault
    <2>1. wire' \in Seq(Byte)
      <3>1. \A g \in Garbage : g \in Seq(Byte)
        BY StreamAssumption
      <3>2. wire # <<>> => Tail(wire) \in Seq(Byte)
        BY <1>1, HeadTailProperties
      <3>3. CASE wire # <<>> /\ wire' = Tail(wire)
        BY <3>2, <3>3
      <3>4. CASE \E g \in Garbage : wire # <<>> /\ wire' = g \o Tail(wire)
        BY <3>1, <3>2, <3>4, ConcatProperties
      <3>5. CASE \E g \in Garbage : wire' = g \o wire
        BY <1>1, <3>1, <3>5, ConcatProperties
      <3>6. QED
        BY <1>3, <3>3, <3>4, <3>5 DEF Fault
    <2>2. TypeOK'
      <3>1. faults' \in 0..MaxFaults
        <4>1. faults \in 0..MaxFaults /\ faults < MaxFaults /\ faults' = faults + 1
          BY <1>1, <1>3, SMTT(30) DEF TypeOK, Fault
        <4>2. MaxFaults \in Nat
          BY SizeAssumption, SMTT(30)
        <4>3. QED
          BY <4>1, <4>2
      <3>2. QED
        BY <1>1, <1>3, <2>1, <3>1 DEF TypeOK, Fault, parser
    <2>3. QED
      BY <1>3, <2>2, ParserKept DEF Fault, parser
  <1>4. QED
    BY <1>2, <1>3

LEMMA DispatchStep == IInv /\ (Dispatch \/ Dispatched) => IInv'
  <1> SUFFICES ASSUME IInv, Dispatch \/ Dispatched PROVE IInv'
    OBVIOUS
  <1>1. TypeOK'
    <2>1. CASE Dispatch
      <3>1. frames' \in Seq(Frame)
        BY <2>1, HeadTailProperties DEF Dispatch, IInv, TypeOK
      <3>2. QED
        BY <2>1, <3>1 DEF Dispatch, IInv, TypeOK, line
    <2>2. CASE Dispatched
      BY <2>2 DEF Dispatched, IInv, TypeOK, line
    <2>3. QED
      BY <2>1, <2>2
  <1>2. QED
    BY <1>1, ParserKept DEF Dispatch, Dispatched

LEMMA InitHolds == Init => IInv
  <1> SUFFICES ASSUME Init PROVE IInv
    OBVIOUS
  <1>1. Base = 0 /\ Place = 0
    BY DEF Init, Base, Place
  <1>2. TypeOK
    BY SizeAssumption, EmptySeq, SMTT(30) DEF Init, TypeOK
  <1>3. MaxPayload \in Nat
    BY SizeAssumption
  <1>4. BufferIsWindow /\ Waiting
    BY <1>1, <1>3 DEF Init, BufferIsWindow, Window, Waiting, Overhead
  <1>5. FoundHolds /\ FoundApart
    BY DEF Init, FoundHolds, FoundApart
  <1>6. AllSettled
    BY <1>1 DEF AllSettled
  <1>7. QED
    BY <1>2, <1>4, <1>5, <1>6 DEF IInv

LEMMA InductiveStep == IInv /\ [Next]_vars => IInv'
  <1> SUFFICES ASSUME IInv, [Next]_vars PROVE IInv'
    OBVIOUS
  <1>1. CASE UNCHANGED vars
    <2>1. TypeOK'
      BY <1>1 DEF IInv, TypeOK, vars
    <2>2. QED
      BY <1>1, <2>1, ParserKept DEF vars
  <1>2. QED
    BY <1>1, SkipStep, FalseLengthStep, BadCrcStep, GoodFrameStep, ReturnStep, ReadStep,
       LineStep, DispatchStep DEF Next, Push

LEMMA InductiveInvariant == Spec => []IInv
  <1>1. QED
    BY InductiveStep, InitHolds, PTL DEF Spec

----
(* Numbers are well ordered: induction by the least counterexample.         *)
Below == {p \in Nat \X Nat : p[1] < p[2]}

LEMMA NatWellFounded == IsWellFoundedOn(Below, Nat)
  <1>1. OpToRel(<, Nat) = Below
    BY Zenon DEF OpToRel, Below
  <1>2. QED
    BY <1>1, NatLessThanWellFounded, Zenon

LEMMA LeastNat ==
    ASSUME NEW T, T \subseteq Nat, T # {}
    PROVE  \E m \in T : \A n \in T : m <= n
  <1>1. PICK m \in T : \A n \in T : <<n, m>> \notin Below
    BY NatWellFounded, WFMin
  <1>2. \A n \in T : ~(n < m)
    BY <1>1 DEF Below
  <1>3. QED
    BY <1>1, <1>2

----
(* The reference Whole, which is recursive, meets its equation.             *)
Answer(s, c, from) ==
    LET p == Stop(s, c)
    IN  IF NeedsMore(s, p) THEN [frames |-> <<>>, errors |-> FalseMagic(s, c, p)]
        ELSE LET rest == from[p + Total(s, p)]
             IN  [frames |-> <<FrameAt(s, p, p)>> \o rest.frames,
                  errors |-> FalseMagic(s, c, p) + rest.errors]

LEMMA StopIs ==
    ASSUME NEW s \in Seq(Byte), NEW c \in Nat, NEW p \in c..Len(s),
           Stops(s, p), \A q \in c..(p - 1) : ~Stops(s, q)
    PROVE  Stop(s, c) = p
  <1> DEFINE P(r) == Stops(s, r) /\ \A q \in c..(r - 1) : ~Stops(s, q)
  <1>1. P(p)
    OBVIOUS
  <1>2. \A r \in c..Len(s) : P(r) => r = p
    <2> SUFFICES ASSUME NEW r \in c..Len(s), P(r), r # p PROVE FALSE
      OBVIOUS
    <2>1. Len(s) \in Nat /\ r \in Int /\ p \in Int
      BY LenProperties
    <2>2. r \in c..(p - 1) \/ p \in c..(r - 1)
      BY <2>1
    <2>3. QED
      BY <2>2
  <1> HIDE DEF P
  <1>3. Stop(s, c) = CHOOSE r \in c..Len(s) : P(r)
    BY DEF Stop, P
  <1>4. QED
    BY <1>1, <1>2, <1>3

LEMMA StopExists ==
    ASSUME NEW s \in Seq(Byte), NEW c \in 0..Len(s)
    PROVE  /\ Stop(s, c) \in c..Len(s)
           /\ Stops(s, Stop(s, c))
  <1> DEFINE T == {p \in c..Len(s) : Stops(s, p)}
  <1>1. Len(s) \in Nat /\ c \in Nat
    BY LenProperties
  <1>2. Len(s) \in T
    BY <1>1 DEF Stops, NeedsMore
  <1>3. T \subseteq Nat
    BY <1>1
  <1>4. PICK p \in T : \A q \in T : p <= q
    BY <1>2, <1>3, LeastNat
  <1>5. p \in c..Len(s) /\ Stops(s, p)
    BY <1>4
  <1>6. \A q \in c..(p - 1) : ~Stops(s, q)
    <2> SUFFICES ASSUME NEW q \in c..(p - 1), Stops(s, q) PROVE FALSE
      OBVIOUS
    <2>1. q \in c..Len(s) /\ q < p /\ q \in Int /\ p \in Int
      BY <1>1, <1>5
    <2>2. p <= q
      BY <1>4, <2>1
    <2>3. QED
      BY <2>1, <2>2
  <1>7. Stop(s, c) = p
    BY <1>1, <1>5, <1>6, StopIs
  <1>8. QED
    BY <1>5, <1>7

LEMMA AnswerLooksAhead ==
    ASSUME NEW s \in Seq(Byte), NEW c \in 0..Len(s), NEW g, NEW h,
           \A y \in (c + 1)..Len(s) : g[y] = h[y]
    PROVE  Answer(s, c, g) = Answer(s, c, h)
  <1> DEFINE p == Stop(s, c)
  <1>1. p \in c..Len(s) /\ (ValidAt(s, p) \/ NeedsMore(s, p)) /\ Len(s) \in Nat
    BY StopExists, LenProperties DEF Stops
  <1> HIDE DEF p
  <1>2. ASSUME ~NeedsMore(s, p) PROVE g[p + Total(s, p)] = h[p + Total(s, p)]
    <2>1. Complete(s, p) /\ p \in Nat
      BY <1>1, <1>2 DEF ValidAt
    <2>2. /\ Declared(s, p) \in 0..MaxPayload /\ Total(s, p) \in Nat
          /\ p + Total(s, p) <= Len(s)
      BY <2>1, CompleteType, 0 \in Nat
    <2>3. Total(s, p) > 0
      BY <2>2, SizeAssumption DEF Total, Overhead
    <2>4. p + Total(s, p) \in (c + 1)..Len(s)
      BY <1>1, <2>1, <2>2, <2>3
    <2>5. QED
      BY <2>4
  <1>3. QED
    BY <1>2 DEF Answer, p

LEMMA ParseExists ==
    ASSUME NEW s \in Seq(Byte)
    PROVE  \E g : g = [c \in 0..Len(s) |-> Answer(s, c, g)]
  <1> DEFINE L == Len(s)
             Solved(a) == \E g : g = [c \in a..L |-> Answer(s, c, g)]
             T == {k \in 0..L : ~Solved(L - k)}
  <1>1. L \in Nat
    BY LenProperties
  <1> HIDE DEF L
  <1>2. ASSUME NEW a \in 0..L, a < L => Solved(a + 1) PROVE Solved(a)
    <2>1. PICK g : \A c \in (a + 1)..L : g[c] = Answer(s, c, g)
      <3>1. CASE a < L
        <4>1. PICK g : g = [c \in (a + 1)..L |-> Answer(s, c, g)]
          BY <1>2, <3>1
        <4>2. \A c \in (a + 1)..L : g[c] = Answer(s, c, g)
          BY <4>1
        <4>3. QED
          BY <4>2
      <3>2. CASE ~(a < L)
        <4>1. (a + 1)..L = {}
          BY <1>1, <3>2
        <4>2. QED
          BY <4>1
      <3>3. QED
        BY <3>1, <3>2
    <2> DEFINE h == [c \in a..L |-> IF c = a THEN Answer(s, a, g) ELSE g[c]]
    <2>2. \A c \in (a + 1)..L : h[c] = g[c]
      BY <1>1
    <2>3. \A c \in a..L : h[c] = Answer(s, c, h)
      <3> SUFFICES ASSUME NEW c \in a..L PROVE h[c] = Answer(s, c, h)
        OBVIOUS
      <3>1. h[c] = Answer(s, c, g)
        <4>1. CASE c = a
          BY <4>1
        <4>2. CASE c # a
          <5>1. c \in (a + 1)..L
            BY <1>1, <4>2
          <5>2. QED
            BY <2>1, <2>2, <5>1
        <4>3. QED
          BY <4>1, <4>2
      <3>2. \A y \in (c + 1)..L : h[y] = g[y]
        <4>1. \A y \in (c + 1)..L : y \in (a + 1)..L
          BY <1>1
        <4>2. QED
          BY <2>2, <4>1
      <3> HIDE DEF h
      <3>3. c \in 0..Len(s)
        BY <1>1 DEF L
      <3>4. Answer(s, c, h) = Answer(s, c, g)
        BY <3>2, <3>3, AnswerLooksAhead DEF L
      <3>5. QED
        BY <3>1, <3>4
    <2>4. h = [c \in a..L |-> h[c]]
      OBVIOUS
    <2> HIDE DEF h
    <2>5. h = [c \in a..L |-> Answer(s, c, h)]
      BY <2>3, <2>4
    <2>6. QED
      BY <2>5
  <1> HIDE DEF Solved
  <1>3. T = {}
    <2> SUFFICES ASSUME T # {} PROVE FALSE
      OBVIOUS
    <2>1. PICK m \in T : \A n \in T : m <= n
      <3>1. T \subseteq Nat
        BY <1>1
      <3>2. QED
        BY <3>1, LeastNat
    <2>2. m \in 0..L /\ ~Solved(L - m)
      BY <2>1
    <2>3. L - m \in 0..L /\ m \in Nat
      BY <1>1, <2>2
    <2>4. L - m < L /\ ~Solved(L - m + 1)
      BY <1>2, <2>2, <2>3
    <2>5. m - 1 \in 0..L /\ L - (m - 1) = L - m + 1
      BY <1>1, <2>3, <2>4
    <2>6. m - 1 \in T
      BY <2>4, <2>5
    <2>7. QED
      BY <2>1, <2>3, <2>6
  <1>4. Solved(L - L)
    <2>1. L \in 0..L
      BY <1>1
    <2>2. QED
      BY <1>3, <2>1
  <1>5. Solved(0)
    BY <1>1, <1>4
  <1>6. QED
    BY <1>5 DEF Solved, L

LEMMA ParseEquation ==
    ASSUME NEW s \in Seq(Byte), NEW c \in 0..Len(s)
    PROVE  Parse(s)[c] = Answer(s, c, Parse(s))
  <1> DEFINE P(g) == g = [b \in 0..Len(s) |-> Answer(s, b, g)]
  <1>1. Parse(s) = CHOOSE g : P(g)
    BY DEF Parse, Answer
  <1>2. \E g : P(g)
    BY ParseExists
  <1> HIDE DEF P
  <1>3. P(Parse(s))
    BY <1>1, <1>2
  <1>4. Parse(s) = [b \in 0..Len(s) |-> Answer(s, b, Parse(s))]
    BY <1>3 DEF P
  <1>5. QED
    BY <1>4

----
(* A stream in which fs are the frames found up to place, and everything    *)
(* between them is settled, is read like that by the reference.             *)
Greedy(s, fs, place) ==
    /\ \A i \in DOMAIN fs : /\ ValidAt(s, fs[i].at)
                            /\ fs[i] = FrameAt(s, fs[i].at, fs[i].at)
                            /\ fs[i].at + Size(fs[i]) <= place
    /\ \A i \in DOMAIN fs : \A j \in 1..(i - 1) : fs[j].at + Size(fs[j]) <= fs[i].at
    /\ \A p \in 0..(place - 1) : Settled(s, p) \/ \E i \in DOMAIN fs : Inside(fs[i], p)

(* The magic bytes that are no part of a frame, from c on.                  *)
Uncovered(s, fs, c, place) ==
    {q \in c..(place - 1) : AtMagic(s, q) /\ \A i \in DOMAIN fs : ~Inside(fs[i], q)}

Edge(fs, i) == IF i = 0 THEN 0 ELSE fs[i].at + Size(fs[i])

Answered(s, fs, place, i) ==
    Parse(s)[Edge(fs, i)] = [frames |-> SubSeq(fs, i + 1, Len(fs)),
                             errors |-> Cardinality(Uncovered(s, fs, Edge(fs, i), place))]

LEMMA SettledStopsNot ==
    ASSUME NEW s \in Seq(Byte), NEW p, Settled(s, p)
    PROVE  ~Stops(s, p)
  <1>1. p < Len(s) /\ p # Len(s)
    BY LenProperties DEF Settled
  <1>2. QED
    BY <1>1 DEF Settled, Stops, NeedsMore, ValidAt, Complete, HasHeader

LEMMA FrameEnds ==
    ASSUME NEW fs \in Seq(Frame), NEW i \in DOMAIN fs
    PROVE  /\ fs[i] \in Frame /\ fs[i].at \in Nat /\ Size(fs[i]) \in Nat
           /\ fs[i].at < fs[i].at + Size(fs[i])
  <1>1. fs[i] \in Frame
    BY ElementOfSeq
  <1>2. Len(fs[i].payload) \in Nat /\ fs[i].at \in Nat
    BY <1>1, LenProperties DEF Frame
  <1>3. QED
    BY <1>1, <1>2 DEF Size, Overhead

LEMMA EdgeLemma ==
    ASSUME NEW s \in Seq(Byte), NEW fs \in Seq(Frame), NEW place \in 0..Len(s),
           Greedy(s, fs, place), NEW i \in 0..Len(fs)
    PROVE  /\ Edge(fs, i) \in 0..place
           /\ \A j \in 1..i : fs[j].at + Size(fs[j]) <= Edge(fs, i)
           /\ \A j \in (i + 1)..Len(fs) : Edge(fs, i) <= fs[j].at
  <1>1. DOMAIN fs = 1..Len(fs) /\ Len(fs) \in Nat /\ Len(s) \in Nat
    BY LenProperties
  <1>2. \A j \in 1..Len(fs) : fs[j].at \in Nat /\ Size(fs[j]) \in Nat
                              /\ fs[j].at < fs[j].at + Size(fs[j])
    BY <1>1, FrameEnds
  <1>3. CASE i = 0
    BY <1>1, <1>2, <1>3 DEF Edge
  <1>4. CASE i # 0
    <2>1. i \in 1..Len(fs) /\ Edge(fs, i) = fs[i].at + Size(fs[i])
      BY <1>1, <1>4 DEF Edge
    <2>2. Edge(fs, i) \in 0..place
      <3>1. fs[i].at + Size(fs[i]) <= place
        BY <1>1, <2>1 DEF Greedy
      <3>2. fs[i].at \in Nat /\ Size(fs[i]) \in Nat
        BY <1>2, <2>1
      <3>3. QED
        BY <2>1, <3>1, <3>2
    <2>3. ASSUME NEW j \in 1..i PROVE fs[j].at + Size(fs[j]) <= Edge(fs, i)
      <3>1. CASE j = i
        BY <1>2, <2>1, <3>1
      <3>2. CASE j # i
        <4>1. j \in 1..(i - 1) /\ j \in 1..Len(fs)
          BY <1>1, <3>2
        <4>2. fs[j].at + Size(fs[j]) <= fs[i].at
          BY <1>1, <2>1, <4>1 DEF Greedy
        <4>3. fs[i].at \in Nat /\ Size(fs[i]) \in Nat /\ fs[j].at \in Nat /\ Size(fs[j]) \in Nat
          BY <1>2, <2>1, <4>1
        <4>4. QED
          BY <2>1, <4>2, <4>3
      <3>3. QED
        BY <3>1, <3>2
    <2>4. ASSUME NEW j \in (i + 1)..Len(fs) PROVE Edge(fs, i) <= fs[j].at
      <3>1. j \in 1..Len(fs) /\ i \in 1..(j - 1)
        BY <1>1, <2>1
      <3>2. QED
        BY <1>1, <2>1, <3>1 DEF Greedy
    <2>5. QED
      BY <2>2, <2>3, <2>4
  <1>5. QED
    BY <1>3, <1>4

(* Between the end of a frame and the next one nothing stops the reference. *)
LEMMA GapLemma ==
    ASSUME NEW s \in Seq(Byte), NEW fs \in Seq(Frame), NEW place \in 0..Len(s),
           Greedy(s, fs, place), NEW i \in 0..Len(fs),
           NEW q \in Edge(fs, i)..(place - 1), i < Len(fs) => q < fs[i + 1].at
    PROVE  /\ ~Stops(s, q)
           /\ \A j \in DOMAIN fs : ~Inside(fs[j], q)
  <1>1. DOMAIN fs = 1..Len(fs) /\ Len(fs) \in Nat /\ Len(s) \in Nat
    BY LenProperties
  <1>2. \A j \in 1..Len(fs) : fs[j].at \in Nat /\ Size(fs[j]) \in Nat
    BY <1>1, FrameEnds
  <1>3. Edge(fs, i) \in 0..place /\ q \in Nat /\ Edge(fs, i) <= q
    BY <1>1, EdgeLemma
  <1>4. ASSUME NEW j \in 1..Len(fs), Inside(fs[j], q) PROVE FALSE
    <2>1. fs[j].at <= q /\ q < fs[j].at + Size(fs[j])
      BY <1>4 DEF Inside
    <2>2. CASE j \in 1..i
      <3>1. fs[j].at + Size(fs[j]) <= Edge(fs, i)
        BY <2>2, EdgeLemma
      <3>2. QED
        BY <1>2, <1>3, <2>1, <3>1
    <2>3. CASE j = i + 1
      BY <1>1, <1>2, <1>3, <2>1, <2>3
    <2>4. CASE j \in (i + 2)..Len(fs)
      <3>1. i + 1 \in 1..(j - 1) /\ i + 1 \in 1..Len(fs) /\ i < Len(fs)
        BY <1>1, <2>4
      <3>2. fs[i + 1].at + Size(fs[i + 1]) <= fs[j].at
        BY <1>1, <3>1 DEF Greedy
      <3>3. fs[i + 1].at \in Nat /\ Size(fs[i + 1]) \in Nat /\ fs[j].at \in Nat
        BY <1>2, <3>1
      <3>4. QED
        BY <1>3, <2>1, <3>1, <3>2, <3>3, SMTT(30)
    <2>5. QED
      BY <1>1, <2>2, <2>3, <2>4
  <1>5. Settled(s, q)
    <2>1. q \in 0..(place - 1)
      BY <1>3
    <2>2. QED
      BY <1>1, <1>4, <2>1 DEF Greedy
  <1>6. QED
    BY <1>1, <1>4, <1>5, SettledStopsNot

LEMMA CountedFinite ==
    ASSUME NEW s, NEW fs, NEW c \in Int, NEW place \in Int
    PROVE  IsFiniteSet(Uncovered(s, fs, c, place))
  <1>1. IsFiniteSet(c..(place - 1))
    BY FS_Interval
  <1>2. Uncovered(s, fs, c, place) \in SUBSET (c..(place - 1))
    BY DEF Uncovered
  <1>3. QED
    BY <1>1, <1>2, FS_Subset

LEMMA AnsweredLast ==
    ASSUME NEW s \in Seq(Byte), NEW fs \in Seq(Frame), NEW place \in 0..Len(s),
           Greedy(s, fs, place), NeedsMore(s, place)
    PROVE  Answered(s, fs, place, Len(fs))
  <1> DEFINE n == Len(fs)
             c == Edge(fs, n)
  <1>1. n \in Nat /\ n \in 0..Len(fs) /\ Len(s) \in Nat
    BY LenProperties
  <1>2. c \in 0..place /\ c \in Nat /\ place \in c..Len(s) /\ c \in 0..Len(s)
    BY <1>1, EdgeLemma
  <1>3. \A q \in c..(place - 1) : ~Stops(s, q) /\ \A j \in DOMAIN fs : ~Inside(fs[j], q)
    BY <1>1, GapLemma
  <1> HIDE DEF c
  <1>4. Stop(s, c) = place
    BY <1>2, <1>3, StopIs DEF Stops
  <1>5. Parse(s)[c] = [frames |-> <<>>, errors |-> FalseMagic(s, c, place)]
    BY <1>2, <1>4, ParseEquation DEF Answer
  <1>6. Uncovered(s, fs, c, place) = {q \in c..(place - 1) : AtMagic(s, q)}
    BY <1>3 DEF Uncovered
  <1>7. SubSeq(fs, n + 1, Len(fs)) = <<>>
    BY <1>1, SubSeqProperties, EmptySeq
  <1>8. QED
    BY <1>5, <1>6, <1>7 DEF Answered, FalseMagic, c

LEMMA AnsweredBefore ==
    ASSUME NEW s \in Seq(Byte), NEW fs \in Seq(Frame), NEW place \in 0..Len(s),
           Greedy(s, fs, place), NEW i \in 0..(Len(fs) - 1), Answered(s, fs, place, i + 1)
    PROVE  Answered(s, fs, place, i)
  <1> DEFINE n == Len(fs)
             c == Edge(fs, i)
             p == fs[i + 1].at
             d == Edge(fs, i + 1)
  <1>1. /\ DOMAIN fs = 1..n /\ n \in Nat /\ Len(s) \in Nat
        /\ i \in 0..n /\ i + 1 \in 1..n /\ i + 1 \in 0..n /\ i + 1 \in (i + 1)..n /\ i < n
    BY LenProperties
  <1>2. c \in 0..place /\ d \in 0..place /\ c <= p
    BY <1>1, EdgeLemma
  <1>3. /\ ValidAt(s, p) /\ fs[i + 1] = FrameAt(s, p, p)
        /\ d = p + Size(fs[i + 1]) /\ p \in Nat /\ Size(fs[i + 1]) \in Nat /\ p < d
    <2>1. i + 1 \in DOMAIN fs
      BY <1>1, LenProperties
    <2>2. p \in Nat /\ Size(fs[i + 1]) \in Nat /\ p < p + Size(fs[i + 1])
      BY <2>1, FrameEnds
    <2>3. ValidAt(s, p) /\ fs[i + 1] = FrameAt(s, p, p)
      BY <2>1 DEF Greedy
    <2>4. d = p + Size(fs[i + 1])
      BY <1>1 DEF Edge
    <2>5. QED
      BY <2>2, <2>3, <2>4
  <1>4. ASSUME NEW q \in c..(p - 1) PROVE ~Stops(s, q) /\ \A j \in DOMAIN fs : ~Inside(fs[j], q)
    <2>1. q \in c..(place - 1) /\ q < fs[i + 1].at
      BY <1>1, <1>2, <1>3
    <2>2. QED
      BY <1>1, <2>1, GapLemma
  <1>5. Complete(s, p) /\ ~NeedsMore(s, p)
    <2>1. Complete(s, p) /\ AtMagic(s, p)
      BY <1>3 DEF ValidAt, Complete, HasHeader
    <2>2. p # Len(s)
      BY <1>1, <2>1 DEF AtMagic
    <2>3. QED
      BY <2>1, <2>2 DEF NeedsMore
  <1>6. Size(fs[i + 1]) = Total(s, p)
    <2>1. FrameAt(s, p, p) \in Frame /\ Size(FrameAt(s, p, p)) = Total(s, p)
      BY <1>3, <1>5, CompleteType
    <2>2. QED
      BY <1>3, <2>1
  <1>7. p \in c..Len(s) /\ c \in Nat /\ c \in 0..Len(s) /\ d \in 0..Len(s)
    BY <1>1, <1>2, <1>3
  <1> HIDE DEF c, p
  <1>8. Stop(s, c) = p
    BY <1>3, <1>4, <1>7, StopIs DEF Stops
  <1> DEFINE rest == Parse(s)[d]
  <1>9. Parse(s)[c] = [frames |-> <<fs[i + 1]>> \o rest.frames,
                       errors |-> FalseMagic(s, c, p) + rest.errors]
    <2>1. Parse(s)[c] = Answer(s, c, Parse(s))
      BY <1>7, ParseEquation
    <2>2. Parse(s)[p + Total(s, p)] = rest
      BY <1>3, <1>6
    <2> HIDE DEF rest, d
    <2>3. QED
      BY <1>3, <1>5, <1>8, <2>1, <2>2 DEF Answer
  <1>10. rest = [frames |-> SubSeq(fs, i + 2, n), errors |-> Cardinality(Uncovered(s, fs, d, place))]
    <2>1. i + 1 + 1 = i + 2
      BY <1>1
    <2>2. QED
      BY <2>1 DEF Answered
  <1>11. <<fs[i + 1]>> \o SubSeq(fs, i + 2, n) = SubSeq(fs, i + 1, n)
    <2>1. i + 1 \in 1..Len(fs) /\ n \in (i + 1)..Len(fs) /\ i + 1 + 1 = i + 2
      BY <1>1
    <2>2. QED
      BY <2>1, SubSeqRecursiveFirst
  <1>12. FalseMagic(s, c, p) + Cardinality(Uncovered(s, fs, d, place))
            = Cardinality(Uncovered(s, fs, c, place))
    <2> DEFINE A == {q \in c..(p - 1) : AtMagic(s, q)}
               B == Uncovered(s, fs, d, place)
    <2>1. IsFiniteSet(A) /\ IsFiniteSet(B)
      <3>1. IsFiniteSet(c..(p - 1))
        BY <1>3, <1>7, FS_Interval
      <3>2. A \in SUBSET (c..(p - 1)) /\ d \in Int /\ place \in Int
        BY <1>1, <1>7
      <3> HIDE DEF A, d
      <3>3. QED
        BY <3>1, <3>2, CountedFinite, FS_Subset
    <2>2. A \cap B = {}
      BY <1>2, <1>3, <1>7 DEF Uncovered
    <2>3. Uncovered(s, fs, c, place) = A \cup B
      <3>1. \A q \in c..(place - 1) : \/ q \in c..(p - 1) \/ q \in p..(d - 1) \/ q \in d..(place - 1)
        BY <1>1, <1>2, <1>3, <1>7
      <3>2. \A q \in p..(d - 1) : Inside(fs[i + 1], q)
        BY <1>3 DEF Inside, p
      <3>3. \A q \in c..(p - 1) : q \in c..(place - 1)
        BY <1>1, <1>2, <1>3, <1>7
      <3>4. \A q \in d..(place - 1) : q \in c..(place - 1)
        BY <1>1, <1>2, <1>3, <1>7
      <3> HIDE DEF d
      <3>5. QED
        BY <1>1, <1>4, <3>1, <3>2, <3>3, <3>4 DEF Uncovered
    <2>4. Cardinality(A \cup B) = Cardinality(A) + Cardinality(B)
      <3>1. Cardinality(A \cap B) = 0
        BY <2>2, FS_EmptySet
      <3>2. Cardinality(A) \in Nat /\ Cardinality(B) \in Nat
        BY <2>1, FS_CardinalityType
      <3> HIDE DEF A, B
      <3>3. Cardinality(A \cup B) = Cardinality(A) + Cardinality(B) - Cardinality(A \cap B)
        BY <2>1, FS_Union
      <3>4. QED
        BY <3>1, <3>2, <3>3
    <2>5. QED
      BY <2>3, <2>4 DEF FalseMagic
  <1>13. QED
    <2> HIDE DEF rest, d
    <2>1. rest.frames = SubSeq(fs, i + 2, n) /\ rest.errors = Cardinality(Uncovered(s, fs, d, place))
      BY <1>10
    <2>2. QED
      BY <1>9, <1>11, <1>12, <2>1 DEF Answered, c

(* The reference finds these frames, and counts those magic bytes.          *)
LEMMA WholeIs ==
    ASSUME NEW s \in Seq(Byte), NEW fs \in Seq(Frame), NEW place \in 0..Len(s),
           Greedy(s, fs, place), NeedsMore(s, place)
    PROVE  /\ Whole(s).frames = fs
           /\ Whole(s).errors = Cardinality(Uncovered(s, fs, 0, place))
  <1> DEFINE n == Len(fs)
             T == {k \in 0..n : ~Answered(s, fs, place, n - k)}
  <1>1. n \in Nat
    BY LenProperties
  <1>2. Answered(s, fs, place, n)
    BY AnsweredLast
  <1> HIDE DEF n
  <1>3. T = {}
    <2> SUFFICES ASSUME T # {} PROVE FALSE
      OBVIOUS
    <2>1. PICK m \in T : \A k \in T : m <= k
      <3>1. T \subseteq Nat
        BY <1>1
      <3>2. QED
        BY <3>1, LeastNat
    <2>2. m \in 0..n /\ ~Answered(s, fs, place, n - m)
      BY <2>1
    <2>3. m # 0
      <3>1. n - 0 = n
        BY <1>1
      <3>2. QED
        BY <1>2, <2>2, <3>1
    <2>4. m - 1 \in 0..n /\ n - m \in 0..(n - 1) /\ n - m + 1 = n - (m - 1) /\ ~(m <= m - 1)
      BY <1>1, <2>2, <2>3
    <2>5. Answered(s, fs, place, n - m + 1)
      BY <2>1, <2>4
    <2>6. QED
      BY <2>2, <2>4, <2>5, AnsweredBefore DEF n
  <1>4. Answered(s, fs, place, 0)
    <2>1. n \in 0..n /\ n - n = 0
      BY <1>1
    <2>2. QED
      BY <1>3, <2>1
  <1>5. SubSeq(fs, 1, Len(fs)) = fs
    BY SubSeqFull
  <1>6. Edge(fs, 0) = 0 /\ 0 + 1 = 1
    BY DEF Edge
  <1>7. QED
    BY <1>4, <1>5, <1>6 DEF Answered, Whole

----
(* What the parser has counted, and where it pauses.                        *)
Counted == crc_errors = Cardinality(Uncovered(seen, found, 0, Place))

Paused == pc # "scan" => NeedsMore(seen, Place)

CountInv == IInv /\ Counted /\ Paused

LEMMA WindowNeeds ==
    ASSUME NEW b \in Seq(Byte), NEW s \in Seq(Byte), NEW o \in Nat, Window(b, s, o),
           o + Len(b) = Len(s), NEW c \in 0..Len(b), NeedsMore(b, c)
    PROVE  NeedsMore(s, o + c)
  <1>1. Len(b) \in Nat /\ Len(s) \in Nat /\ c \in Nat
    BY LenProperties
  <1>2. CASE c = Len(b)
    BY <1>2 DEF NeedsMore
  <1>3. CASE AtMagic(b, c) /\ ~Impossible(b, c) /\ ~Complete(b, c)
    <2>1. AtMagic(s, o + c)
      BY <1>1, <1>3, WindowHeader DEF AtMagic
    <2>2. Len(s) - (o + c) = Len(b) - c
      BY <1>1
    <2>3. CASE ~HasHeader(b, c)
      <3>1. ~HasHeader(s, o + c)
        BY <1>3, <2>2, <2>3 DEF HasHeader
      <3>2. QED
        BY <2>1, <3>1 DEF NeedsMore, Impossible, Complete
    <2>4. CASE HasHeader(b, c)
      <3>1. HasHeader(s, o + c) /\ Declared(s, o + c) = Declared(b, c)
        BY <1>1, <2>4, WindowHeader
      <3>2. ~Impossible(s, o + c)
        BY <1>3, <2>4, <3>1 DEF Impossible
      <3>3. ~Complete(s, o + c)
        BY <1>3, <2>2, <2>4, <3>1, <3>2 DEF Complete, Total
      <3>4. QED
        BY <2>1, <3>2, <3>3 DEF NeedsMore
    <2>5. QED
      BY <2>3, <2>4
  <1>4. QED
    BY <1>2, <1>3 DEF NeedsMore

LEMMA PlaceLemma ==
    ASSUME IInv
    PROVE  /\ buf \in Seq(Byte) /\ seen \in Seq(Byte) /\ found \in Seq(Frame)
           /\ Len(buf) \in Nat /\ Len(seen) \in Nat /\ cursor \in 0..Len(buf)
           /\ Base \in Nat /\ Base + Len(buf) = Len(seen)
           /\ Place = Base + cursor /\ Place \in 0..Len(seen)
           /\ Window(buf, seen, Base)
           /\ Greedy(seen, found, Place)
  <1>1. /\ buf \in Seq(Byte) /\ seen \in Seq(Byte) /\ found \in Seq(Frame)
        /\ Len(buf) \in Nat /\ Len(seen) \in Nat /\ cursor \in 0..Len(buf)
        /\ Base \in Nat /\ Base = Len(seen) - Len(buf) /\ Place = Base + cursor
        /\ Window(buf, seen, Base)
    BY LenProperties DEF IInv, TypeOK, BufferIsWindow, Window, Base, Place
  <1>2. Greedy(seen, found, Place)
    BY DEF IInv, FoundHolds, FoundApart, AllSettled, Greedy
  <1>3. QED
    BY <1>1, <1>2

(* One byte is left behind, and counted if it is a magic byte.              *)
LEMMA CountOne ==
    ASSUME IInv, Counted, UNCHANGED <<buf, seen, found>>, cursor' = cursor + 1,
           crc_errors' = crc_errors + (IF AtMagic(seen, Place) THEN 1 ELSE 0)
    PROVE  Counted'
  <1> DEFINE U == Uncovered(seen, found, 0, Place)
  <1>1. Place \in Nat /\ Place' = Place + 1 /\ seen' = seen /\ found' = found
    BY PlaceLemma DEF Base, Place
  <1>2. \A i \in DOMAIN found : ~Inside(found[i], Place)
    <2> SUFFICES ASSUME NEW i \in DOMAIN found, Inside(found[i], Place) PROVE FALSE
      OBVIOUS
    <2>1. found[i].at + Size(found[i]) <= Place
      BY DEF IInv, FoundHolds
    <2>2. found[i].at \in Nat /\ Size(found[i]) \in Nat
      BY PlaceLemma, FrameEnds
    <2>3. QED
      BY <1>1, <2>1, <2>2 DEF Inside
  <1>3. /\ 0..(Place' - 1) = 0..(Place - 1) \cup {Place}
        /\ Place \notin 0..(Place - 1)
    BY <1>1
  <1>4. Uncovered(seen, found, 0, Place') = IF AtMagic(seen, Place) THEN U \cup {Place} ELSE U
    BY <1>2, <1>3 DEF Uncovered
  <1>5. Place \notin U
    BY <1>3 DEF Uncovered
  <1>6. IsFiniteSet(U)
    BY <1>1, CountedFinite
  <1>7. crc_errors = Cardinality(U) /\ Cardinality(U) \in Nat
    BY <1>6, FS_CardinalityType DEF Counted
  <1> HIDE DEF U
  <1>8. Cardinality(U \cup {Place}) = Cardinality(U) + 1
    BY <1>5, <1>6, FS_AddElement
  <1>9. Counted' <=> crc_errors' = Cardinality(Uncovered(seen, found, 0, Place'))
    BY <1>1 DEF Counted
  <1>10. QED
    BY <1>4, <1>7, <1>8, <1>9

LEMMA CountScan == CountInv /\ (Skip \/ FalseLength \/ BadCrc) => (Counted /\ Paused)'
  <1> SUFFICES ASSUME CountInv, Skip \/ FalseLength \/ BadCrc PROVE (Counted /\ Paused)'
    OBVIOUS
  <1>1. IInv /\ Counted
    BY DEF CountInv
  <1>2. pc' = "scan" /\ cursor' = cursor + 1 /\ UNCHANGED <<buf, seen, found>>
    BY DEF Skip, FalseLength, BadCrc
  <1>3. cursor < Len(buf)
    BY DEF Skip, FalseLength, BadCrc, Impossible, Complete, HasHeader, AtMagic
  <1>4. AtMagic(seen, Place) <=> AtMagic(buf, cursor)
    <2>1. cursor \in Nat
      BY <1>1, PlaceLemma
    <2>2. QED
      BY <1>1, <1>3, <2>1, PlaceLemma, WindowHeader
  <1>5. crc_errors \in Nat
    BY <1>1 DEF IInv, TypeOK
  <1>6. crc_errors' = crc_errors + (IF AtMagic(seen, Place) THEN 1 ELSE 0)
    <2>1. CASE Skip
      BY <1>4, <1>5, <2>1 DEF Skip
    <2>2. CASE FalseLength
      BY <1>4, <2>2 DEF FalseLength, Impossible, HasHeader
    <2>3. CASE BadCrc
      BY <1>4, <2>3 DEF BadCrc, Complete, HasHeader
    <2>4. QED
      BY <2>1, <2>2, <2>3
  <1>7. Counted'
    BY <1>1, <1>2, <1>6, CountOne
  <1>8. QED
    BY <1>2, <1>7 DEF Paused

\* A frame more covers the offsets it is put over, and no others.
LEMMA UncoveredSame ==
    ASSUME NEW s, NEW fs, NEW gs, NEW a \in Nat, NEW b \in Nat, a <= b,
           \A q \in 0..(a - 1) : (\A i \in DOMAIN gs : ~Inside(gs[i], q))
                                    <=> (\A i \in DOMAIN fs : ~Inside(fs[i], q)),
           \A q \in a..(b - 1) : \E i \in DOMAIN gs : Inside(gs[i], q)
    PROVE  Uncovered(s, gs, 0, b) = Uncovered(s, fs, 0, a)
  <1>1. \A q \in 0..(b - 1) : q \in 0..(a - 1) \/ q \in a..(b - 1)
    OBVIOUS
  <1>2. \A q \in 0..(a - 1) : q \in 0..(b - 1)
    OBVIOUS
  <1>3. QED
    BY <1>1, <1>2 DEF Uncovered

LEMMA CountFrame == CountInv /\ GoodFrame => (Counted /\ Paused)'
  <1> SUFFICES ASSUME CountInv, GoodFrame PROVE (Counted /\ Paused)'
    OBVIOUS
  <1> DEFINE f == FrameAt(buf, cursor, Base + cursor)
             n == Total(buf, cursor)
  <1>1. IInv /\ Counted /\ cursor \in Nat
    BY PlaceLemma DEF CountInv
  <1>2. Complete(buf, cursor)
    BY DEF GoodFrame, ValidAt
  <1>3. n \in Nat /\ f \in Frame /\ Size(f) = n /\ f.at = Place
    <2>1. Base + cursor \in Nat /\ Place = Base + cursor
      BY <1>1, PlaceLemma
    <2>2. n \in Nat /\ f \in Frame /\ Size(f) = n
      BY <1>1, <1>2, <2>1, PlaceLemma, CompleteType
    <2>3. QED
      BY <2>1, <2>2 DEF FrameAt
  <1> HIDE DEF f, n
  <1>4. /\ found' = Append(found, f) /\ cursor' = cursor + n
        /\ seen' = seen /\ buf' = buf /\ crc_errors' = crc_errors /\ pc' = "scan"
    BY DEF GoodFrame, CountInv, f, n
  <1>5. Place \in Nat /\ Place' = Place + n
    BY <1>1, <1>3, <1>4, PlaceLemma DEF Base, Place
  <1>6. /\ DOMAIN found = 1..Len(found) /\ Len(found) \in Nat
        /\ DOMAIN found' = 1..(Len(found) + 1)
        /\ \A i \in DOMAIN found : found'[i] = found[i]
        /\ found'[Len(found) + 1] = f
    BY <1>1, <1>3, <1>4, PlaceLemma, AppendProperties, LenProperties
  <1>7. \A q \in 0..(Place - 1) : ~Inside(f, q)
    BY <1>3, <1>5 DEF Inside
  <1>8. \A q \in Place..(Place + n - 1) : Inside(f, q)
    BY <1>3, <1>5 DEF Inside
  <1>9. Uncovered(seen, found', 0, Place + n) = Uncovered(seen, found, 0, Place)
    <2>3. \A q : (\A i \in DOMAIN found' : ~Inside(found'[i], q))
                    <=> ((\A i \in DOMAIN found : ~Inside(found[i], q)) /\ ~Inside(f, q))
      <3>1. \A i \in DOMAIN found' : i \in DOMAIN found \/ i = Len(found) + 1
        BY <1>6
      <3>2. DOMAIN found \subseteq DOMAIN found' /\ Len(found) + 1 \in DOMAIN found'
        BY <1>6
      <3>3. QED
        BY <1>6, <3>1, <3>2
    <2>4. \A q \in 0..(Place - 1) : (\A i \in DOMAIN found' : ~Inside(found'[i], q))
                                        <=> (\A i \in DOMAIN found : ~Inside(found[i], q))
      BY <1>7, <2>3
    <2>5. \A q \in Place..(Place + n - 1) : \E i \in DOMAIN found' : Inside(found'[i], q)
      <3>1. f = found'[Len(found) + 1] /\ Len(found) + 1 \in DOMAIN found'
        BY <1>6
      <3>2. QED
        BY <1>8, <3>1
    <2>6. QED
      <3>1. PICK p, e : p = Place /\ e = Place + n
        OBVIOUS
      <3>2. p \in Nat /\ e \in Nat /\ p <= e
        BY <1>3, <1>5, <3>1
      <3>3. \A q \in 0..(p - 1) : (\A i \in DOMAIN found' : ~Inside(found'[i], q))
                                   <=> (\A i \in DOMAIN found : ~Inside(found[i], q))
        BY <1>3, <1>5, <2>4, <3>1, <3>2
      <3>4. \A q \in p..(e - 1) : \E i \in DOMAIN found' : Inside(found'[i], q)
        BY <1>3, <1>5, <2>5, <3>1, <3>2
      <3>5. Uncovered(seen, found', 0, e) = Uncovered(seen, found, 0, p)
        BY <3>2, <3>3, <3>4, UncoveredSame, SMTT(60)
      <3>6. QED
        BY <3>1, <3>5
  <1>10. Counted'
    BY <1>1, <1>4, <1>5, <1>9 DEF Counted
  <1>11. QED
    BY <1>4, <1>10 DEF Paused

LEMMA CountReturn == CountInv /\ Return => (Counted /\ Paused)'
  <1> SUFFICES ASSUME CountInv, Return PROVE (Counted /\ Paused)'
    OBVIOUS
  <1>1. IInv /\ Counted
    BY DEF CountInv
  <1>2. Place' = Place /\ seen' = seen /\ found' = found /\ crc_errors' = crc_errors
    BY <1>1, ReturnKeeps DEF Return
  <1>3. NeedsMore(seen, Place)
    BY <1>1, PlaceLemma, WindowNeeds DEF Return
  <1>4. QED
    BY <1>1, <1>2, <1>3 DEF Counted, Paused

LEMMA CountRead == CountInv /\ Read => (Counted /\ Paused)'
  <1> SUFFICES ASSUME CountInv, Read PROVE (Counted /\ Paused)'
    OBVIOUS
  <1>1. IInv /\ Counted
    BY DEF CountInv
  <1>2. Place' = Place /\ found' = found /\ crc_errors' = crc_errors /\ pc' = "scan"
    BY <1>1, ReadAppends DEF Read
  <1>3. \A q \in 0..(Place - 1) : AtMagic(seen', q) <=> AtMagic(seen, q)
    <2> TAKE q \in 0..(Place - 1)
    <2>1. seen \in Seq(Byte) /\ seen' \in Seq(Byte)
      BY <1>1, ReadAppends DEF IInv, TypeOK
    <2>2. Place \in Nat /\ Place <= Len(seen) /\ Len(seen) \in Nat
      BY <1>1, PlaceLemma
    <2>3. q \in Nat /\ q < Len(seen) /\ 0 + q = q
      BY <2>2
    <2>4. Window(seen, seen', 0)
      BY <1>1, ReadAppends
    <2>5. AtMagic(seen, q) <=> AtMagic(seen', 0 + q)
      BY <2>1, <2>3, <2>4, WindowHeader
    <2>6. QED
      BY <2>3, <2>5
  <1>4. Uncovered(seen', found, 0, Place) = Uncovered(seen, found, 0, Place)
    BY <1>3 DEF Uncovered
  <1>5. QED
    BY <1>1, <1>2, <1>4 DEF Counted, Paused

LEMMA CountKept ==
    ASSUME CountInv, UNCHANGED <<buf, cursor, seen, found, crc_errors>>, pc' = "scan" <=> pc = "scan"
    PROVE  (Counted /\ Paused)'
  <1>1. Place' = Place
    BY DEF Base, Place
  <1>2. QED
    BY <1>1 DEF CountInv, Counted, Paused

LEMMA CountInit == Init => CountInv
  <1> SUFFICES ASSUME Init PROVE CountInv
    OBVIOUS
  <1>1. IInv
    BY InitHolds
  <1>2. Place = 0 /\ seen = <<>> /\ Len(seen) = 0 /\ crc_errors = 0
    BY DEF Init, Base, Place
  <1>3. Uncovered(seen, found, 0, Place) = {}
    BY <1>2 DEF Uncovered
  <1>4. QED
    BY <1>1, <1>2, <1>3, FS_EmptySet DEF CountInv, Counted, Paused, NeedsMore

LEMMA CountInvariant == Spec => []CountInv
  <1>1. CountInv /\ [Next]_vars => CountInv'
    <2> SUFFICES ASSUME CountInv, [Next]_vars PROVE CountInv'
      OBVIOUS
    <2>1. IInv'
      BY InductiveStep DEF CountInv
    <2>2. CASE Transmit \/ Fault \/ Dispatch \/ Dispatched \/ UNCHANGED vars
      <3>1. UNCHANGED <<buf, cursor, seen, found, crc_errors>> /\ (pc' = "scan" <=> pc = "scan")
        BY <2>2 DEF Transmit, Fault, Dispatch, Dispatched, vars, parser
      <3>2. QED
        BY <2>1, <3>1, CountKept DEF CountInv
    <2>3. QED
      BY <2>1, <2>2, CountScan, CountFrame, CountReturn, CountRead DEF Next, Push, CountInv
  <1>2. QED
    BY <1>1, CountInit, PTL DEF Spec

----
(* The checksum is a number of 16 bits, for every sequence of bytes.        *)
LEMMA CrcIs == \A x : x \in Crc <=> x \in Nat /\ x < 65536
  <1>1. TwoTo16 = 65536
    BY DEF TwoTo16
  <1>2. TwoTo16 \in Nat /\ \A x \in Nat : x <= TwoTo16 - 1 <=> x < 65536
    BY <1>1
  <1>3. QED
    BY <1>2 DEF Crc

LEMMA FlipRange ==
    ASSUME NEW x \in Nat, x < 65536
    PROVE  /\ Flip(x, 32) \in Nat /\ Flip(x, 32) < 65536
           /\ Flip(x, 4096) \in Nat /\ Flip(x, 4096) < 65536
  <1>1. Flip(x, 32) \in Nat /\ Flip(x, 32) < 65536
    BY DEF Flip
  <1>2. Flip(x, 4096) \in Nat /\ Flip(x, 4096) < 65536
    BY DEF Flip
  <1>3. QED
    BY <1>1, <1>2

LEMMA ShiftRange ==
    ASSUME NEW bit, NEW crc \in Crc
    PROVE  CrcShift(bit)[crc] \in Crc
  <1> DEFINE shifted == (2 * crc) % 65536
             flipped == Flip(Flip(shifted + 1, 32), 4096)
  <1>1. crc \in Nat
    BY CrcIs
  <1>2. shifted \in Nat /\ shifted < 65535
    BY <1>1
  <1> HIDE DEF shifted
  <1>3. flipped \in Crc
    BY <1>2, FlipRange, CrcIs
  <1>4. shifted \in Crc
    BY <1>2, CrcIs
  <1>5. CrcShift(bit)[crc] = IF (crc \div 32768 + bit) % 2 = 1 THEN flipped ELSE shifted
    BY DEF CrcShift, shifted
  <1> HIDE DEF flipped
  <1>6. QED
    BY <1>3, <1>4, <1>5

\* The turns up to the i-th, which are those of g.
Turns(data, n, g) ==
    [i \in 0..n |-> IF i = 0 THEN CrcInit ELSE CrcShift(Bit(data, i - 1))[g[i - 1]]]

LEMMA TurnsExist ==
    ASSUME NEW data, NEW n \in Nat
    PROVE  \E g : g = Turns(data, n, g)
  <1> DEFINE Solved(k) == \E g : g = Turns(data, k, g)
             T == {k \in 0..n : ~Solved(k)}
  <1>1. ASSUME NEW k \in 0..n, k = 0 \/ Solved(k - 1) PROVE Solved(k)
    <2>1. PICK g : k = 0 \/ g = Turns(data, k - 1, g)
      BY <1>1
    <2> DEFINE F(i) == IF i = 0 THEN CrcInit ELSE CrcShift(Bit(data, i - 1))[g[i - 1]]
               h == [i \in 0..k |-> F(i)]
    <2>2. \A i \in 0..(k - 1) : h[i] = g[i]
      <3>1. CASE k = 0
        BY <3>1
      <3>2. CASE k # 0
        <4>1. g = [i \in 0..(k - 1) |-> F(i)]
          BY <2>1, <3>2, Zenon DEF Turns
        <4>2. \A i \in 0..(k - 1) : i \in 0..k
          OBVIOUS
        <4> HIDE DEF F
        <4>3. \A i \in 0..(k - 1) : g[i] = F(i)
          BY <4>1
        <4>4. QED
          BY <4>2, <4>3
      <3>3. QED
        BY <3>1, <3>2
    <2>3. \A i \in 0..k : i # 0 => h[i - 1] = g[i - 1]
      <3>1. \A i \in 0..k : i # 0 => i - 1 \in 0..(k - 1)
        OBVIOUS
      <3>2. QED
        BY <2>2, <3>1
    <2>4. \A i \in 0..k : F(i) = IF i = 0 THEN CrcInit ELSE CrcShift(Bit(data, i - 1))[h[i - 1]]
      BY <2>3
    <2> HIDE DEF F
    <2>5. h = Turns(data, k, h)
      BY <2>4 DEF Turns
    <2>6. QED
      BY <2>5
  <1> HIDE DEF Solved
  <1>2. T = {}
    <2> SUFFICES ASSUME T # {} PROVE FALSE
      OBVIOUS
    <2>1. PICK m \in T : \A k \in T : m <= k
      <3>1. T \subseteq Nat
        OBVIOUS
      <3>2. QED
        BY <3>1, LeastNat
    <2>2. m = 0 \/ Solved(m - 1)
      <3> SUFFICES ASSUME m # 0 PROVE Solved(m - 1)
        OBVIOUS
      <3>1. m - 1 \in 0..n /\ ~(m <= m - 1)
        OBVIOUS
      <3>2. m - 1 \notin T
        BY <2>1, <3>1
      <3>3. QED
        BY <3>1, <3>2
    <2>3. QED
      BY <1>1, <2>2
  <1>3. QED
    BY <1>2 DEF Solved

LEMMA CrcRange ==
    ASSUME NEW data \in Seq(Byte)
    PROVE  Crc16[data] \in Crc
  <1> DEFINE n == 8 * Len(data)
             P(g) == g = Turns(data, n, g)
             after == CrcAfter(data)
             T == {i \in 0..n : after[i] \notin Crc}
  <1>1. n \in Nat
    BY LenProperties
  <1>2. after = CHOOSE g : P(g)
    BY DEF CrcAfter, Turns
  <1> HIDE DEF n, after
  <1>3. \E g : P(g)
    BY <1>1, TurnsExist
  <1>4. P(after)
    <2> HIDE DEF P
    <2>1. QED
      BY <1>2, <1>3
  <1>5. \A i \in 0..n : after[i] = IF i = 0 THEN CrcInit
                                   ELSE CrcShift(Bit(data, i - 1))[after[i - 1]]
    <2> DEFINE F(i) == IF i = 0 THEN CrcInit ELSE CrcShift(Bit(data, i - 1))[after[i - 1]]
    <2>1. after = [i \in 0..n |-> F(i)]
      BY <1>4, Zenon DEF Turns
    <2>2. \A i \in 0..n : after[i] = F(i)
      <3> HIDE DEF F
      <3>1. QED
        BY <2>1
    <2>3. QED
      BY <2>2
  <1>6. T = {}
    <2> SUFFICES ASSUME T # {} PROVE FALSE
      OBVIOUS
    <2>1. PICK m \in T : \A k \in T : m <= k
      <3>1. T \subseteq Nat
        BY <1>1
      <3>2. QED
        BY <3>1, LeastNat
    <2>2. m \in 0..n /\ after[m] \notin Crc
      BY <2>1
    <2>3. m # 0
      <3>1. CrcInit \in Crc
        BY CrcIs DEF CrcInit
      <3>2. 0 \in 0..n => after[0] = CrcInit
        BY <1>5
      <3>3. QED
        BY <2>2, <3>1, <3>2
    <2>4. m - 1 \in 0..n /\ ~(m <= m - 1)
      BY <1>1, <2>2, <2>3
    <2>5. after[m - 1] \in Crc
      BY <2>1, <2>4
    <2>6. after[m] = CrcShift(Bit(data, m - 1))[after[m - 1]]
      BY <1>5, <2>2, <2>3
    <2>7. QED
      BY <2>2, <2>5, <2>6, ShiftRange
  <1>7. n \in 0..n
    BY <1>1
  <1>8. after[n] \in Crc
    BY <1>6, <1>7
  <1>9. QED
    BY <1>8 DEF Crc16, n, after

----
(* What encode_frame puts on the line is found by the parser.               *)
LEMMA WordIs ==
    ASSUME NEW n \in Crc
    PROVE  /\ Word(n) \in Seq(Byte) /\ Len(Word(n)) = 2
           /\ Word(n)[1] + 256 * Word(n)[2] = n
  <1>1. n \in Nat /\ n < 65536
    BY CrcIs
  <1>2. n % 256 \in Byte /\ n \div 256 \in Byte
    BY <1>1 DEF Byte
  <1>3. (n % 256) + 256 * (n \div 256) = n
    BY <1>1
  <1>4. QED
    BY <1>2, <1>3 DEF Word

LEMMA Joined ==
    ASSUME NEW s \in Seq(Byte), NEW t \in Seq(Byte)
    PROVE  /\ s \o t \in Seq(Byte) /\ Len(s \o t) = Len(s) + Len(t)
           /\ \A i \in 1..Len(s) : (s \o t)[i] = s[i]
           /\ \A i \in 1..Len(t) : (s \o t)[Len(s) + i] = t[i]
  <1>1. Len(s) \in Nat /\ Len(t) \in Nat
    BY LenProperties
  <1>2. QED
    BY <1>1, ConcatProperties

\* One byte and two.
LEMMA JoinedHead ==
    ASSUME NEW a \in Seq(Byte), Len(a) = 1, NEW b \in Seq(Byte), Len(b) = 2
    PROVE  /\ a \o b \in Seq(Byte) /\ Len(a \o b) = 3
           /\ (a \o b)[1] = a[1] /\ (a \o b)[2] = b[1] /\ (a \o b)[3] = b[2]
  <1>1. /\ 1 \in 1..Len(a) /\ 1 \in 1..Len(b) /\ 2 \in 1..Len(b)
        /\ Len(a) + 1 = 2 /\ Len(a) + 2 = 3 /\ Len(a) + Len(b) = 3
    OBVIOUS
  <1>2. a \o b \in Seq(Byte) /\ Len(a \o b) = Len(a) + Len(b)
    BY Joined, Zenon
  <1>3. (a \o b)[1] = a[1]
    BY <1>1, Joined, Zenon
  <1>4. (a \o b)[Len(a) + 1] = b[1]
    BY <1>1, Joined, Zenon
  <1>5. (a \o b)[Len(a) + 2] = b[2]
    BY <1>1, Joined, Zenon
  <1>6. QED
    BY <1>1, <1>2, <1>3, <1>4, <1>5, Zenon

\* Three bytes and a payload.
LEMMA JoinedBody ==
    ASSUME NEW h \in Seq(Byte), Len(h) = 3, NEW p \in Seq(Byte)
    PROVE  /\ h \o p \in Seq(Byte) /\ Len(h \o p) = Len(p) + 3
           /\ (h \o p)[1] = h[1] /\ (h \o p)[2] = h[2] /\ (h \o p)[3] = h[3]
           /\ \A i \in 1..Len(p) : (h \o p)[3 + i] = p[i]
  <1>1. /\ 1 \in 1..Len(h) /\ 2 \in 1..Len(h) /\ 3 \in 1..Len(h)
        /\ \A i \in 1..Len(p) : Len(h) + i = 3 + i
    OBVIOUS
  <1>2. Len(h) + Len(p) = Len(p) + 3
    BY LenProperties
  <1>3. h \o p \in Seq(Byte) /\ Len(h \o p) = Len(h) + Len(p)
    BY Joined, Zenon
  <1>4. (h \o p)[1] = h[1] /\ (h \o p)[2] = h[2] /\ (h \o p)[3] = h[3]
    BY <1>1, Joined, Zenon
  <1>5. ASSUME NEW i \in 1..Len(p) PROVE (h \o p)[3 + i] = p[i]
    <2>1. (h \o p)[Len(h) + i] = p[i]
      BY Joined, Zenon
    <2>2. QED
      BY <1>1, <2>1, Zenon
  <1>6. QED
    BY <1>2, <1>3, <1>4, <1>5, Zenon

\* A body between one byte and two.
LEMMA JoinedFrame ==
    ASSUME NEW a \in Seq(Byte), Len(a) = 1, NEW b \in Seq(Byte),
           NEW e \in Seq(Byte), Len(e) = 2
    PROVE  /\ a \o b \o e \in Seq(Byte) /\ Len(a \o b \o e) = Len(b) + 3
           /\ (a \o b \o e)[1] = a[1]
           /\ \A i \in 1..Len(b) : (a \o b \o e)[1 + i] = b[i]
           /\ (a \o b \o e)[Len(b) + 2] = e[1] /\ (a \o b \o e)[Len(b) + 3] = e[2]
  <1> DEFINE f == a \o b
             w == f \o e
  <1>1. Len(b) \in Nat
    BY LenProperties
  <1>2. /\ f \in Seq(Byte) /\ Len(f) = Len(a) + Len(b)
        /\ \A i \in 1..Len(a) : f[i] = a[i]
        /\ \A i \in 1..Len(b) : f[Len(a) + i] = b[i]
    BY Joined, Zenon
  <1> HIDE DEF f
  <1>3. /\ w \in Seq(Byte) /\ Len(w) = Len(f) + Len(e)
        /\ \A i \in 1..Len(f) : w[i] = f[i]
        /\ \A i \in 1..Len(e) : w[Len(f) + i] = e[i]
    BY <1>2, Joined, Zenon
  <1> HIDE DEF w
  <1>4. /\ Len(a) + Len(b) = Len(b) + 1 /\ Len(b) + 1 + Len(e) = Len(b) + 3
        /\ Len(b) + 1 + 1 = Len(b) + 2 /\ Len(b) + 1 + 2 = Len(b) + 3
        /\ 1 \in 1..Len(a) /\ 1 \in 1..(Len(b) + 1) /\ 1 \in 1..Len(e) /\ 2 \in 1..Len(e)
        /\ \A i \in 1..Len(b) : 1 + i \in 1..(Len(b) + 1) /\ Len(a) + i = 1 + i
    BY <1>1
  <1>5. Len(f) = Len(b) + 1
    BY <1>2, <1>4, Zenon
  <1>6. w \in Seq(Byte) /\ Len(w) = Len(b) + 3
    BY <1>3, <1>4, <1>5, Zenon
  <1>7. w[1] = a[1]
    <2>1. 1 \in 1..Len(f)
      BY <1>4, <1>5, Zenon
    <2>2. w[1] = f[1] /\ f[1] = a[1]
      BY <1>2, <1>3, <1>4, <2>1, Zenon
    <2>3. QED
      BY <2>2
  <1>8. ASSUME NEW i \in 1..Len(b) PROVE w[1 + i] = b[i]
    <2>1. w[1 + i] = f[1 + i]
      BY <1>3, <1>4, <1>5, Zenon
    <2>2. f[Len(a) + i] = b[i]
      BY <1>2, Zenon
    <2>3. QED
      BY <1>4, <2>1, <2>2, Zenon
  <1>9. w[Len(f) + 1] = e[1] /\ w[Len(f) + 2] = e[2]
    BY <1>3, <1>4, Zenon
  <1>10. w[Len(b) + 2] = e[1] /\ w[Len(b) + 3] = e[2]
    BY <1>4, <1>5, <1>9, Zenon
  <1>11. QED
    BY <1>6, <1>7, <1>8, <1>10 DEF w, f

LEMMA WindowAll ==
    ASSUME NEW b \in Seq(Byte), NEW s \in Seq(Byte), NEW o, Window(b, s, o)
    PROVE  SubSeq(s, o + 1, o + Len(b)) = b
  <1>1. PICK m : m = o + 1
    OBVIOUS
  <1>2. PICK n : n = o + Len(b)
    OBVIOUS
  <1> DEFINE x == SubSeq(s, m, n)
  <1>3. /\ o \in Nat /\ Len(b) \in Nat /\ Len(s) \in Nat /\ n <= Len(s)
        /\ m \in Int /\ n \in Int /\ n - m + 1 = Len(b)
        /\ (m <= n <=> Len(b) # 0)
    BY <1>1, <1>2, LenProperties DEF Window
  <1>4. \A k \in m..n : k \in 1..Len(s)
    BY <1>1, <1>3
  <1>5. \A k \in m..n : s[k] \in Byte
    BY <1>4, BytesOf
  <1>6. /\ x \in Seq(Byte)
        /\ Len(x) = IF m <= n THEN n - m + 1 ELSE 0
        /\ \A k \in 1..(n - m + 1) : x[k] = s[m + k - 1]
    BY <1>3, <1>5, SubSeqProperties
  <1> HIDE DEF x
  <1>7. Len(x) = Len(b)
    BY <1>3, <1>6
  <1>8. \A k \in 1..Len(b) : x[k] = b[k]
    <2> TAKE k \in 1..Len(b)
    <2>1. k \in 1..(n - m + 1) /\ m + k - 1 = o + k
      BY <1>1, <1>3
    <2>2. b[k] = s[o + k]
      BY DEF Window
    <2>3. QED
      BY <1>6, <2>1, <2>2
  <1>9. x = b
    BY <1>6, <1>7, <1>8, SeqEqual
  <1>10. QED
    BY <1>1, <1>2, <1>9 DEF x

\* What the checksum is taken of.
BodyOf(type, payload) == <<type>> \o Word(Len(payload)) \o payload

\* w packs them, and its checksum.
Packs(w, body, type, payload) ==
    /\ body \in Seq(Byte) /\ Len(body) = Len(payload) + 3
    /\ w \in Seq(Byte) /\ Len(w) = Len(payload) + Overhead
    /\ w[1] = Magic /\ w[2] = type
    /\ w[3] + 256 * w[4] = Len(payload)
    /\ Window(body, w, 1)
    /\ Window(payload, w, 4)
    /\ w[Len(payload) + 5] + 256 * w[Len(payload) + 6] = Crc16[body]

LEMMA EncodePacks ==
    ASSUME NEW type \in Byte, NEW payload \in Seq(Byte), Len(payload) \in Crc
    PROVE  Packs(Encode(type, payload), BodyOf(type, payload), type, payload)
  <1> DEFINE w == Encode(type, payload)
             body == BodyOf(type, payload)
             L == Len(payload)
             one == <<type>>
             length == Word(L)
             magic == <<Magic>>
             crc == Word(Crc16[body])
  <1>1. one \in Seq(Byte) /\ Len(one) = 1 /\ one[1] = type
    OBVIOUS
  <1>2. magic \in Seq(Byte) /\ Len(magic) = 1 /\ magic[1] = Magic
    <2>1. Magic \in Byte
      BY DEF Magic, Byte
    <2>2. QED
      BY <2>1
  <1>3. /\ L \in Nat /\ length \in Seq(Byte) /\ Len(length) = 2
        /\ length[1] + 256 * length[2] = L
    BY WordIs, LenProperties
  <1>4. body = one \o length \o payload
    BY DEF BodyOf
  <1> HIDE DEF one, length, body
  <1>5. /\ one \o length \in Seq(Byte) /\ Len(one \o length) = 3
        /\ (one \o length)[1] = type
        /\ (one \o length)[2] = length[1] /\ (one \o length)[3] = length[2]
    BY <1>1, <1>3, JoinedHead, Zenon
  <1>6. /\ body \in Seq(Byte) /\ Len(body) = L + 3
        /\ body[1] = type /\ body[2] = length[1] /\ body[3] = length[2]
        /\ \A i \in 1..L : body[3 + i] = payload[i]
    <2> DEFINE h == one \o length
    <2>1. body = h \o payload /\ h \in Seq(Byte) /\ Len(h) = 3
          /\ h[1] = type /\ h[2] = length[1] /\ h[3] = length[2]
      BY <1>4, <1>5
    <2> HIDE DEF h
    <2>2. /\ h \o payload \in Seq(Byte) /\ Len(h \o payload) = Len(payload) + 3
          /\ (h \o payload)[1] = h[1] /\ (h \o payload)[2] = h[2] /\ (h \o payload)[3] = h[3]
          /\ \A i \in 1..Len(payload) : (h \o payload)[3 + i] = payload[i]
      BY <2>1, JoinedBody, Zenon
    <2>3. QED
      BY <2>1, <2>2, Zenon
  <1>7. crc \in Seq(Byte) /\ Len(crc) = 2 /\ crc[1] + 256 * crc[2] = Crc16[body]
    <2>1. Crc16[body] \in Crc
      BY <1>6, CrcRange
    <2>2. QED
      BY <2>1, WordIs
  <1>8. w = magic \o body \o crc
    BY DEF Encode, BodyOf, body
  <1> HIDE DEF magic, crc, L, w
  <1>9. /\ w \in Seq(Byte) /\ Len(w) = Len(body) + 3
        /\ w[1] = Magic
        /\ \A i \in 1..Len(body) : w[1 + i] = body[i]
        /\ w[Len(body) + 2] = crc[1] /\ w[Len(body) + 3] = crc[2]
    <2> DEFINE x == magic \o body \o crc
    <2>1. /\ x \in Seq(Byte) /\ Len(x) = Len(body) + 3
          /\ x[1] = magic[1]
          /\ \A i \in 1..Len(body) : x[1 + i] = body[i]
          /\ x[Len(body) + 2] = crc[1] /\ x[Len(body) + 3] = crc[2]
      <3>1. /\ magic \in Seq(Byte) /\ Len(magic) = 1 /\ body \in Seq(Byte)
            /\ crc \in Seq(Byte) /\ Len(crc) = 2
        BY <1>2, <1>6, <1>7
      <3>2. QED
        BY <3>1, JoinedFrame, ZenonT(60)
    <2> HIDE DEF x
    <2>2. w = x
      BY <1>8 DEF x
    <2>3. QED
      BY <1>2, <2>1, <2>2, Zenon
  <1>10. /\ L + 3 + 3 = L + 6 /\ L + 3 + 2 = L + 5
         /\ 1 \in 1..(L + 3) /\ 2 \in 1..(L + 3) /\ 3 \in 1..(L + 3)
         /\ 1 + 1 = 2 /\ 1 + 2 = 3 /\ 1 + 3 = 4
         /\ \A i \in 1..L : 3 + i \in 1..(L + 3) /\ 1 + (3 + i) = 4 + i
         /\ 1 \in Nat /\ 1 + (L + 3) <= L + 6 /\ 4 \in Nat /\ 4 + L <= L + 6
    BY <1>3
  <1>11. Len(w) = L + 6 /\ w[L + 5] = crc[1] /\ w[L + 6] = crc[2]
    BY <1>6, <1>9, <1>10, Zenon
  <1>12. w[2] = type /\ w[3] = length[1] /\ w[4] = length[2]
    <2>1. w[1 + 1] = body[1] /\ w[1 + 2] = body[2] /\ w[1 + 3] = body[3]
      BY <1>6, <1>9, <1>10, Zenon
    <2>2. QED
      BY <1>6, <1>10, <2>1, Zenon
  <1>13. Window(body, w, 1)
    BY <1>6, <1>9, <1>10, <1>11, Zenon DEF Window
  <1>14. Window(payload, w, 4)
    <2>1. ASSUME NEW i \in 1..L PROVE payload[i] = w[4 + i]
      <3>1. w[1 + (3 + i)] = body[3 + i] /\ body[3 + i] = payload[i]
        BY <1>6, <1>9, <1>10, Zenon
      <3>2. QED
        BY <1>10, <3>1, Zenon
    <2>2. QED
      BY <1>10, <1>11, <2>1, Zenon DEF Window, L
  <1>15. w[3] + 256 * w[4] = L /\ w[L + 5] + 256 * w[L + 6] = Crc16[body]
    BY <1>3, <1>7, <1>11, <1>12, ZenonT(60)
  <1>16. Len(w) = L + Overhead
    BY <1>11 DEF Overhead
  <1>17. QED
    BY <1>6, <1>9, <1>12, <1>13, <1>14, <1>15, <1>16, Zenon DEF Packs, L, w, body

\* A message alone is a valid frame.
LEMMA EncodedAlone ==
    ASSUME NEW type \in Byte, NEW payload \in Seq(Byte), Len(payload) \in Crc,
           Len(payload) <= MaxPayload
    PROVE  LET w == Encode(type, payload)
           IN  /\ w \in Seq(Byte) /\ Len(w) = Len(payload) + Overhead
               /\ ValidAt(w, 0) /\ Total(w, 0) = Len(w)
               /\ \A a : FrameAt(w, 0, a) = [at |-> a, type |-> type, payload |-> payload]
  <1> DEFINE L == Len(payload)
             w == Encode(type, payload)
             body == BodyOf(type, payload)
  <1>1. /\ body \in Seq(Byte) /\ Len(body) = L + 3
        /\ w \in Seq(Byte) /\ Len(w) = L + Overhead
        /\ w[1] = Magic /\ w[2] = type
        /\ w[3] + 256 * w[4] = L
        /\ Window(body, w, 1)
        /\ Window(payload, w, 4)
        /\ w[L + 5] + 256 * w[L + 6] = Crc16[body]
    <2>1. Packs(w, body, type, payload)
      BY EncodePacks, Zenon
    <2>2. QED
      BY <2>1 DEF Packs
  <1> HIDE DEF w, body, L
  <1>2. L \in Nat /\ L <= MaxPayload /\ MaxPayload \in Nat
    BY LenProperties, SizeAssumption DEF L
  <1>3. Declared(w, 0) = L
    BY <1>1 DEF Declared
  <1>4. HasHeader(w, 0)
    BY <1>1, <1>2 DEF HasHeader, AtMagic, Overhead
  <1>5. Total(w, 0) = Len(w) /\ ~Impossible(w, 0)
    BY <1>1, <1>2, <1>3 DEF Total, Impossible
  <1>6. Complete(w, 0)
    BY <1>1, <1>2, <1>4, <1>5 DEF Complete, Overhead
  <1>7. Body(w, 0) = body
    <2>1. SubSeq(w, 1 + 1, 1 + Len(body)) = body
      <3>1. w \in Seq(Byte) /\ body \in Seq(Byte) /\ Window(body, w, 1)
        BY <1>1
      <3>2. QED
        BY <3>1, WindowAll, Zenon
    <2>2. 1 + 1 = 0 + 2 /\ 1 + Len(body) = 0 + 4 + L
      BY <1>1, <1>2
    <2>3. SubSeq(w, 0 + 2, 0 + 4 + L) = body
      BY <2>1, <2>2, Zenon
    <2>4. QED
      BY <1>3, <2>3, Zenon DEF Body
  <1>8. SubSeq(w, 0 + 5, 0 + 4 + L) = payload
    <2>1. SubSeq(w, 4 + 1, 4 + Len(payload)) = payload
      <3>1. w \in Seq(Byte) /\ Window(payload, w, 4)
        BY <1>1
      <3>2. QED
        BY <3>1, WindowAll, Zenon
    <2>2. 4 + 1 = 0 + 5 /\ 4 + Len(payload) = 0 + 4 + L
      BY <1>2 DEF L
    <2>3. QED
      BY <2>1, <2>2, Zenon
  <1>9. Received(w, 0) = Crc16[body]
    <2>1. 0 + L + 5 = L + 5 /\ 0 + L + 6 = L + 6
      BY <1>2
    <2>2. QED
      BY <1>1, <1>3, <2>1 DEF Received
  <1>10. ValidAt(w, 0)
    BY <1>6, <1>7, <1>9 DEF ValidAt
  <1>11. \A a : FrameAt(w, 0, a) = [at |-> a, type |-> type, payload |-> payload]
    <2>1. 0 + 2 = 2
      OBVIOUS
    <2>2. QED
      BY <1>1, <1>3, <1>8, <2>1, Zenon DEF FrameAt
  <1>12. QED
    BY <1>1, <1>5, <1>10, <1>11 DEF w, L

----
(* A stream of messages, one right after the other, is read as those.       *)

\* s is what encode_frame makes of the messages fs, from its first byte to
\* its last.
Clean(s, fs) ==
    /\ \A i \in DOMAIN fs :
        /\ Len(fs[i].payload) \in Crc
        /\ Len(fs[i].payload) <= MaxPayload
        /\ fs[i].at = Edge(fs, i - 1)
        /\ Window(Encode(fs[i].type, fs[i].payload), s, fs[i].at)
    /\ Len(s) = Edge(fs, Len(fs))

LEMMA CleanEdge ==
    ASSUME NEW s, NEW fs \in Seq(Frame), Clean(s, fs), NEW i \in 1..Len(fs)
    PROVE  /\ fs[i] \in Frame /\ Size(fs[i]) \in Nat \ {0}
           /\ fs[i].at \in Nat /\ fs[i].at = Edge(fs, i - 1)
           /\ Edge(fs, i) = fs[i].at + Size(fs[i])
           /\ Edge(fs, i - 1) < Edge(fs, i)
  <1>1. DOMAIN fs = 1..Len(fs) /\ Len(fs) \in Nat
    BY LenProperties
  <1>2. /\ fs[i] \in Frame /\ fs[i].at \in Nat /\ Size(fs[i]) \in Nat
        /\ fs[i].at < fs[i].at + Size(fs[i])
    BY <1>1, FrameEnds
  <1>3. fs[i].at = Edge(fs, i - 1)
    BY <1>1 DEF Clean
  <1>4. i # 0
    OBVIOUS
  <1>5. Edge(fs, i) = fs[i].at + Size(fs[i])
    BY <1>4 DEF Edge
  <1>6. QED
    BY <1>2, <1>3, <1>5

LEMMA EdgesRise ==
    ASSUME NEW s, NEW fs \in Seq(Frame), Clean(s, fs),
           NEW i \in 0..Len(fs), NEW j \in 0..i
    PROVE  Edge(fs, j) <= Edge(fs, i) /\ Edge(fs, j) \in Nat /\ Edge(fs, i) \in Nat
  <1> DEFINE T == {k \in 0..i : ~(Edge(fs, i - k) <= Edge(fs, i))}
  <1>1. i \in Nat /\ Len(fs) \in Nat /\ i <= Len(fs)
    BY LenProperties
  <1>2. ASSUME NEW k \in 0..Len(fs) PROVE Edge(fs, k) \in Nat
    <2>1. CASE k = 0
      BY <2>1 DEF Edge
    <2>2. CASE k # 0
      <3>1. k \in 1..Len(fs)
        BY <2>2
      <3>2. fs[k].at \in Nat /\ Size(fs[k]) \in Nat /\ Edge(fs, k) = fs[k].at + Size(fs[k])
        BY <3>1, CleanEdge
      <3>3. QED
        BY <3>2
    <2>3. QED
      BY <2>1, <2>2
  <1>3. T = {}
    <2> SUFFICES ASSUME T # {} PROVE FALSE
      OBVIOUS
    <2>1. PICK m \in T : \A k \in T : m <= k
      <3>1. T \subseteq Nat
        BY <1>1
      <3>2. QED
        BY <3>1, LeastNat
    <2>2. m \in 0..i /\ ~(Edge(fs, i - m) <= Edge(fs, i))
      BY <2>1
    <2>3. m # 0
      <3>1. i - 0 = i /\ i \in 0..Len(fs)
        BY <1>1
      <3>2. Edge(fs, i) \in Nat
        BY <1>2, <3>1
      <3>3. Edge(fs, i) <= Edge(fs, i)
        BY <3>2
      <3>4. QED
        BY <2>2, <3>1, <3>3
    <2>4. m - 1 \in 0..i /\ ~(m <= m - 1)
      BY <1>1, <2>2, <2>3
    <2>5. Edge(fs, i - (m - 1)) <= Edge(fs, i)
      BY <2>1, <2>4
    <2>6. i - m + 1 \in 1..Len(fs) /\ i - m + 1 - 1 = i - m /\ i - m + 1 = i - (m - 1)
          /\ i - m \in 0..Len(fs) /\ i - (m - 1) \in 0..Len(fs) /\ i \in 0..Len(fs)
      BY <1>1, <2>2, <2>3
    <2>7. Edge(fs, i - m) < Edge(fs, i - (m - 1))
      <3>1. PICK k : k = i - m + 1
        OBVIOUS
      <3>2. Edge(fs, k - 1) < Edge(fs, k)
        BY <2>6, <3>1, CleanEdge
      <3>3. QED
        BY <2>6, <3>1, <3>2
    <2>8. Edge(fs, i - m) \in Nat /\ Edge(fs, i - (m - 1)) \in Nat /\ Edge(fs, i) \in Nat
      BY <1>2, <2>6
    <2>9. QED
      BY <2>2, <2>5, <2>7, <2>8
  <1>4. i - j \in 0..i /\ i - (i - j) = j
    BY <1>1
  <1>5. Edge(fs, j) <= Edge(fs, i)
    BY <1>3, <1>4
  <1>6. i \in 0..Len(fs) /\ j \in 0..Len(fs)
    BY <1>1
  <1>7. QED
    BY <1>2, <1>5, <1>6

LEMMA CleanFrame ==
    ASSUME NEW s \in Seq(Byte), NEW fs \in Seq(Frame), Clean(s, fs), NEW i \in 1..Len(fs)
    PROVE  /\ ValidAt(s, fs[i].at)
           /\ fs[i] = FrameAt(s, fs[i].at, fs[i].at)
           /\ fs[i].at + Size(fs[i]) <= Len(s)
  <1> DEFINE f == fs[i]
             w == Encode(f.type, f.payload)
  <1>1. DOMAIN fs = 1..Len(fs) /\ Len(fs) \in Nat /\ Len(s) \in Nat
    BY LenProperties
  <1>2. f \in Frame /\ f.at \in Nat /\ Size(f) \in Nat
    BY CleanEdge
  <1>3. f.type \in Byte /\ f.payload \in Seq(Byte)
        /\ f = [at |-> f.at, type |-> f.type, payload |-> f.payload]
    BY <1>2 DEF Frame
  <1>4. /\ Len(f.payload) \in Crc /\ Len(f.payload) <= MaxPayload
        /\ Window(w, s, f.at)
    BY <1>1 DEF Clean
  <1> HIDE DEF f
  <1>5. /\ w \in Seq(Byte) /\ Len(w) = Len(f.payload) + Overhead
        /\ ValidAt(w, 0)
        /\ FrameAt(w, 0, f.at) = [at |-> f.at, type |-> f.type, payload |-> f.payload]
    BY <1>3, <1>4, EncodedAlone
  <1> HIDE DEF w
  <1>6. Complete(w, 0) /\ 0 \in Nat
    BY <1>5 DEF ValidAt
  <1>7. ValidAt(s, f.at + 0) /\ FrameAt(s, f.at + 0, f.at) = FrameAt(w, 0, f.at)
    <2>1. ValidAt(s, f.at + 0) <=> ValidAt(w, 0)
      BY <1>3, <1>4, <1>5, <1>6, WindowFrame, SMT
    <2>2. \A a : FrameAt(s, f.at + 0, a) = FrameAt(w, 0, a)
      BY <1>3, <1>4, <1>5, <1>6, WindowFrame, SMT
    <2>3. QED
      BY <1>5, <2>1, <2>2, Zenon
  <1>8. f.at + 0 = f.at
    BY <1>2
  <1>9. f.at + Size(f) <= Len(s)
    BY <1>4, <1>5 DEF Window, Size
  <1>10. QED
    BY <1>3, <1>5, <1>7, <1>8, <1>9, Zenon DEF f

LEMMA CleanGreedy ==
    ASSUME NEW s \in Seq(Byte), NEW fs \in Seq(Frame), Clean(s, fs)
    PROVE  /\ Greedy(s, fs, Len(s))
           /\ \A p \in 0..(Len(s) - 1) : \E i \in DOMAIN fs : Inside(fs[i], p)
  <1> DEFINE n == Len(fs)
  <1>1. DOMAIN fs = 1..n /\ n \in Nat /\ Len(s) \in Nat /\ Len(s) = Edge(fs, n)
    BY LenProperties DEF Clean
  <1>2. ASSUME NEW i \in DOMAIN fs, NEW j \in 1..(i - 1)
        PROVE  fs[j].at + Size(fs[j]) <= fs[i].at
    <2>1. i \in 1..n /\ j \in 1..n /\ i - 1 \in 0..n /\ j \in 0..(i - 1)
      BY <1>1
    <2>2. Edge(fs, j) <= Edge(fs, i - 1)
      BY <2>1, EdgesRise
    <2>3. QED
      BY <2>1, <2>2, CleanEdge
  <1>3. ASSUME NEW p \in 0..(Len(s) - 1) PROVE \E i \in DOMAIN fs : Inside(fs[i], p)
    <2> DEFINE T == {i \in 0..n : p < Edge(fs, i)}
    <2>1. n \in T
      BY <1>1
    <2>2. PICK m \in T : \A i \in T : m <= i
      <3>1. T \subseteq Nat
        BY <1>1
      <3>2. QED
        BY <2>1, <3>1, LeastNat
    <2>3. m \in 0..n /\ p < Edge(fs, m)
      BY <2>2
    <2>4. m # 0
      BY <2>3 DEF Edge
    <2>5. m \in 1..n /\ m - 1 \in 0..n /\ ~(m <= m - 1)
      BY <1>1, <2>3, <2>4
    <2>6. ~(p < Edge(fs, m - 1))
      BY <2>2, <2>5
    <2>7. /\ fs[m].at = Edge(fs, m - 1) /\ fs[m].at \in Nat
          /\ Edge(fs, m) = fs[m].at + Size(fs[m])
      BY <2>5, CleanEdge
    <2>8. Inside(fs[m], p)
      BY <2>3, <2>6, <2>7 DEF Inside
    <2>9. QED
      BY <1>1, <2>5, <2>8
  <1>4. \A i \in DOMAIN fs : /\ ValidAt(s, fs[i].at)
                             /\ fs[i] = FrameAt(s, fs[i].at, fs[i].at)
                             /\ fs[i].at + Size(fs[i]) <= Len(s)
    BY <1>1, CleanFrame
  <1>5. QED
    BY <1>2, <1>3, <1>4, Zenon DEF Greedy

LEMMA CleanIsRead ==
    ASSUME NEW s \in Seq(Byte), NEW fs \in Seq(Frame), Clean(s, fs)
    PROVE  Whole(s).frames = fs /\ Whole(s).errors = 0
  <1>1. Len(s) \in 0..Len(s) /\ NeedsMore(s, Len(s))
    BY LenProperties DEF NeedsMore
  <1>2. Greedy(s, fs, Len(s))
    BY CleanGreedy
  <1>3. Uncovered(s, fs, 0, Len(s)) = {}
    <2>1. \A p \in 0..(Len(s) - 1) : \E i \in DOMAIN fs : Inside(fs[i], p)
      BY CleanGreedy
    <2>2. QED
      BY <2>1 DEF Uncovered
  <1>4. Cardinality({}) = 0
    BY FS_EmptySet
  <1>5. QED
    BY <1>1, <1>2, <1>3, <1>4, WholeIs, Zenon

----
(* The state of the parser and of its reader is always well formed.         *)
THEOREM FramesTypeCorrect == Spec => []TypeOK
  <1>1. IInv => TypeOK
    BY DEF IInv
  <1>2. QED
    BY <1>1, InductiveInvariant, PTL

(* Between two reads FrameParser.buf holds less than one frame of the       *)
(* largest size, for every stream.                                          *)
THEOREM BufferStaysBounded == Spec => []BufferBounded
  <1>1. IInv => BufferBounded
    BY DEF IInv, Waiting, BufferBounded
  <1>2. QED
    BY <1>1, InductiveInvariant, PTL

(* FrameParser.push finds frames of the stream only, in order, none twice.  *)
THEOREM FramesFoundOnce == Spec => []FoundOnce
  <1>1. IInv => FoundOnce
    BY DEF IInv, FoundHolds, FoundApart, FoundOnce
  <1>2. QED
    BY <1>1, InductiveInvariant, PTL

(* FrameParser.push passes over no valid frame that does not overlap one it *)
(* found, wherever faults and reads cut the stream.                         *)
THEOREM NoFrameMissed == Spec => []NoneMissed
  <1>1. IInv => NoneMissed
    <2>1. \A p : Settled(seen, p) => ~ValidAt(seen, p)
      BY DEF Settled, ValidAt, Complete, HasHeader
    <2>2. QED
      BY <2>1 DEF IInv, AllSettled, NoneMissed
  <1>2. QED
    BY <1>1, InductiveInvariant, PTL

(* FrameParser.push finds the frames and counts the errors of the whole      *)
(* stream, wherever it was cut into reads: a partial read costs nothing.     *)
THEOREM ChunksNeverMatter == Spec => []ChunksDoNotMatter
  <1>1. CountInv => ChunksDoNotMatter
    <2> SUFFICES ASSUME CountInv, pc = "read"
                 PROVE  found = Whole(seen).frames /\ crc_errors = Whole(seen).errors
      BY DEF ChunksDoNotMatter
    <2>1. IInv /\ Counted /\ NeedsMore(seen, Place)
      BY DEF CountInv, Paused
    <2>2. QED
      BY <2>1, PlaceLemma, WholeIs DEF Counted
  <1>2. QED
    BY <1>1, CountInvariant, PTL

(* What encode_frame makes of messages is read back by FrameParser.push as   *)
(* exactly those messages, with no error counted, when nothing else is on    *)
(* the line: whatever the messages are, whatever their checksums and however *)
(* their bytes are cut into reads.  A payload may hold what looks like a     *)
(* frame.                                                                    *)
THEOREM CleanStreamRead ==
    ASSUME NEW fs \in Seq(Frame)
    PROVE  Spec => [](pc = "read" /\ Clean(seen, fs) => found = fs /\ crc_errors = 0)
  <1>1. IInv /\ ChunksDoNotMatter
            => (pc = "read" /\ Clean(seen, fs) => found = fs /\ crc_errors = 0)
    <2> SUFFICES ASSUME IInv, ChunksDoNotMatter, pc = "read", Clean(seen, fs)
                 PROVE  found = fs /\ crc_errors = 0
      OBVIOUS
    <2>1. seen \in Seq(Byte)
      BY DEF IInv, TypeOK
    <2>2. QED
      BY <2>1, CleanIsRead DEF ChunksDoNotMatter
  <1>2. QED
    BY <1>1, InductiveInvariant, ChunksNeverMatter, PTL
====
