---- MODULE Frames ----
(***************************************************************************)
(* The serial wire format and its receiver: encode_frame and FrameParser   *)
(* (protocol.py), fed by the read cycle of SerialReader.poll_once and      *)
(* emptied by _dispatch (serial_io.py).                                    *)
(*                                                                         *)
(* Bytes and the CRC are the code's own.  push is taken one turn of its    *)
(* loop at a time, so that what holds of the loop can be proved step by    *)
(* step; nobody else looks at the parser meanwhile.  The chunks are        *)
(* whatever the port has at hand, and the parser outlives the port: bytes  *)
(* may be lost, altered or put in anywhere in the stream.                  *)
(***************************************************************************)
EXTENDS Integers, Sequences, FiniteSets

CONSTANTS
    MaxPayload,  \* SERIAL_MAX_PAYLOAD
    ReadSizes,   \* how many bytes one read may find at the port
    Messages,    \* the byte sequences the base node may put on the line at once
    Garbage,     \* the byte sequences a fault puts into the stream
    MaxSent,     \* bound: how many messages are sent
    MaxFaults    \* bound: how many faults the line has

Byte == 0..255

ASSUME SizeAssumption ==
    /\ MaxPayload \in Nat
    /\ ReadSizes \subseteq Nat \ {0}
    /\ MaxSent \in Nat
    /\ MaxFaults \in Nat

ASSUME StreamAssumption ==
    /\ Messages \subseteq Seq(Byte)
    /\ Garbage \subseteq Seq(Byte)

Magic    == 165   \* MAGIC, 0xA5
Overhead == 6     \* SERIAL_OVERHEAD: magic, type, length and CRC

----
(* CRC-16/CCITT-FALSE.  One turn of the inner loop, for one bit of data,    *)
(* most significant first: xor with 0x1021 flips the bits 12, 5 and 0.      *)
Flip(x, bit) == IF (x \div bit) % 2 = 1 THEN x - bit ELSE x + bit

(* The register has 16 bits, and all of them are set at first.              *)
TwoTo16 == 65536
CrcInit == 65535
Crc     == 0..(TwoTo16 - 1)

CrcShift(bit) ==
    [crc \in Crc |->
        LET shifted == (2 * crc) % 65536
        IN  IF (crc \div 32768 + bit) % 2 = 1
            THEN Flip(Flip(shifted + 1, 32), 4096)
            ELSE shifted]

(* The i-th bit of data, counted from 0, most significant first.            *)
Bit(data, i) == (data[(i \div 8) + 1] \div 2^(7 - (i % 8))) % 2

(* The register after each number of bits, and after all of them.           *)
CrcAfter(data) ==
    LET after[i \in 0..8*Len(data)] ==
            IF i = 0 THEN CrcInit ELSE CrcShift(Bit(data, i - 1))[after[i - 1]]
    IN  after

Crc16[data \in Seq(Byte)] == CrcAfter(data)[8 * Len(data)]

(* encode_frame: what the base node puts on the line for a message.         *)
Word(n) == <<n % 256, n \div 256>>

Encode(type, payload) ==
    LET body == <<type>> \o Word(Len(payload)) \o payload
    IN  <<Magic>> \o body \o Word(Crc16[body])

(* What push reads at offset c of a byte sequence s: the length a header    *)
(* declares, the bytes the CRC is taken of, and the CRC received.           *)
Declared(s, c) == s[c + 3] + 256 * s[c + 4]
Total(s, c)    == Declared(s, c) + Overhead
Body(s, c)     == SubSeq(s, c + 2, c + 4 + Declared(s, c))
Received(s, c) == s[c + Declared(s, c) + 5] + 256 * s[c + Declared(s, c) + 6]

AtMagic(s, c)    == c < Len(s) /\ s[c + 1] = Magic
HasHeader(s, c)  == AtMagic(s, c) /\ Len(s) - c >= 4

\* Mutant: the bound of a frame is taken for the bound of its payload.
ImpossibleLater(s, c) == HasHeader(s, c) /\ Declared(s, c) > MaxPayload + Overhead

Impossible(s, c) == HasHeader(s, c) /\ Declared(s, c) > MaxPayload
Complete(s, c)   == /\ HasHeader(s, c) /\ ~Impossible(s, c)
                    /\ Len(s) - c >= Total(s, c)
ValidAt(s, c)    == Complete(s, c) /\ Crc16[Body(s, c)] = Received(s, c)

----
VARIABLES
    wire,        \* bytes on their way to the port
    buf,         \* FrameParser.buf
    cursor,      \* push: cursor
    crc_errors,  \* FrameParser.crc_errors
    frames,      \* push: the frames found, and then those still to dispatch
    pc,          \* where the reader is: read, scan or dispatch
    seen,        \* history: every byte read off the port
    found,       \* history: the frames found, each with its place in seen
    sent,        \* counts the bounded messages
    faults       \* counts the bounded faults

vars == <<wire, buf, cursor, crc_errors, frames, pc, seen, found, sent, faults>>

Frame == [at : Nat, type : Byte, payload : Seq(Byte)]

TypeOK ==
    /\ wire \in Seq(Byte)
    /\ buf \in Seq(Byte)
    /\ cursor \in 0..Len(buf)
    /\ crc_errors \in Nat
    /\ frames \in Seq(Frame)
    /\ pc \in {"read", "scan", "dispatch"}
    /\ seen \in Seq(Byte)
    /\ found \in Seq(Frame)
    /\ sent \in 0..MaxSent
    /\ faults \in 0..MaxFaults

Init ==
    /\ wire = <<>> /\ buf = <<>> /\ cursor = 0 /\ crc_errors = 0
    /\ frames = <<>> /\ pc = "read"
    /\ seen = <<>> /\ found = <<>>
    /\ sent = 0 /\ faults = 0

(* The place in seen of the first byte of buf.                              *)
Base == Len(seen) - Len(buf)

parser == <<buf, cursor, crc_errors, frames, pc, seen, found>>
line   == <<wire, sent, faults>>

----
(* The base node sends a message.                                           *)
Transmit ==
    /\ sent < MaxSent
    /\ \E m \in Messages : wire' = wire \o m
    /\ sent' = sent + 1
    /\ UNCHANGED <<parser, faults>>

(* A fault of the line or of the port: the next byte is lost, or replaced   *)
(* by garbage, or garbage comes before it.                                  *)
Fault ==
    /\ faults < MaxFaults
    /\ \/ wire # <<>> /\ wire' = Tail(wire)
       \/ \E g \in Garbage : wire # <<>> /\ wire' = g \o Tail(wire)
       \/ \E g \in Garbage : wire' = g \o wire
    /\ faults' = faults + 1
    /\ UNCHANGED <<parser, sent>>

(* poll_once: a read returns a chunk, and push appends it to the buffer.    *)
Read ==
    /\ pc = "read"
    /\ \E k \in ReadSizes :
        LET n == IF k < Len(wire) THEN k ELSE Len(wire)
            chunk == SubSeq(wire, 1, n)
        IN  /\ n > 0
            /\ wire' = SubSeq(wire, n + 1, Len(wire))
            /\ buf' = buf \o chunk
            /\ seen' = seen \o chunk
    /\ cursor' = 0
    /\ frames' = <<>>
    /\ pc' = "scan"
    /\ UNCHANGED <<crc_errors, found, sent, faults>>

(* The turns that leave one byte behind: one that is no magic byte, or a    *)
(* magic byte with a length or a checksum that is wrong, which is counted.  *)
Skip ==
    /\ pc = "scan"
    /\ cursor < Len(buf) /\ ~AtMagic(buf, cursor)
    /\ cursor' = cursor + 1
    /\ UNCHANGED <<buf, crc_errors, frames, pc, seen, found, line>>

\* Mutant: a false length is skipped with the bytes it declares.
FalseLengthDropsAll ==
    /\ pc = "scan"
    /\ Impossible(buf, cursor)
    /\ crc_errors' = crc_errors + 1
    /\ cursor' = cursor + Total(buf, cursor)
    /\ UNCHANGED <<buf, frames, pc, seen, found, line>>

FalseLength ==
    /\ pc = "scan"
    /\ Impossible(buf, cursor)
    /\ crc_errors' = crc_errors + 1
    /\ cursor' = cursor + 1
    /\ UNCHANGED <<buf, frames, pc, seen, found, line>>

\* Mutant: a bad CRC drops the length it declared instead of the magic byte.
BadCrcDropsAll ==
    /\ pc = "scan"
    /\ Complete(buf, cursor) /\ ~ValidAt(buf, cursor)
    /\ crc_errors' = crc_errors + 1
    /\ cursor' = cursor + Total(buf, cursor)
    /\ UNCHANGED <<buf, frames, pc, seen, found, line>>

\* Mutant: a bad CRC is neither counted nor dropped.
BadCrcStays ==
    /\ pc = "scan"
    /\ Complete(buf, cursor) /\ ~ValidAt(buf, cursor)
    /\ UNCHANGED <<parser, line>>

BadCrc ==
    /\ pc = "scan"
    /\ Complete(buf, cursor) /\ ~ValidAt(buf, cursor)
    /\ crc_errors' = crc_errors + 1
    /\ cursor' = cursor + 1
    /\ UNCHANGED <<buf, frames, pc, seen, found, line>>

(* A turn that finds a frame and leaves all of it behind.                   *)
FrameAt(s, c, at) ==
    [at |-> at, type |-> s[c + 2], payload |-> SubSeq(s, c + 5, c + 4 + Declared(s, c))]

\* Mutant: a frame found leaves its magic byte behind and no more.
GoodFrameByByte ==
    /\ pc = "scan"
    /\ ValidAt(buf, cursor)
    /\ LET f == FrameAt(buf, cursor, Base + cursor)
       IN  frames' = Append(frames, f) /\ found' = Append(found, f)
    /\ cursor' = cursor + 1
    /\ UNCHANGED <<buf, crc_errors, pc, seen, line>>

GoodFrame ==
    /\ pc = "scan"
    /\ ValidAt(buf, cursor)
    /\ LET f == FrameAt(buf, cursor, Base + cursor)
       IN  frames' = Append(frames, f) /\ found' = Append(found, f)
    /\ cursor' = cursor + Total(buf, cursor)
    /\ UNCHANGED <<buf, crc_errors, pc, seen, line>>

(* The end of push: the header or the frame at the cursor is incomplete,    *)
(* or nothing is left.                                                      *)
NeedsMore(s, c) ==
    \/ c = Len(s)
    \/ AtMagic(s, c) /\ ~Impossible(s, c) /\ ~Complete(s, c)

\* Mutant: the end of push forgets the unconsumed tail.
ReturnForgets ==
    /\ pc = "scan"
    /\ NeedsMore(buf, cursor)
    /\ buf' = <<>>
    /\ cursor' = 0
    /\ pc' = "dispatch"
    /\ UNCHANGED <<crc_errors, frames, seen, found, line>>

Return ==
    /\ pc = "scan"
    /\ NeedsMore(buf, cursor)
    /\ buf' = SubSeq(buf, cursor + 1, Len(buf))
    /\ cursor' = 0
    /\ pc' = "dispatch"
    /\ UNCHANGED <<crc_errors, frames, seen, found, line>>

(* poll_once hands the frames of a push to _dispatch, then reads again.     *)
(* The decoders are total and on_frame catches what its handlers raise, so  *)
(* no frame keeps the next one from its turn.                               *)
Dispatch ==
    /\ pc = "dispatch" /\ frames # <<>>
    /\ frames' = Tail(frames)
    /\ UNCHANGED <<buf, cursor, crc_errors, pc, seen, found, line>>

Dispatched ==
    /\ pc = "dispatch" /\ frames = <<>>
    /\ pc' = "read"
    /\ UNCHANGED <<buf, cursor, crc_errors, frames, seen, found, line>>

Push == Skip \/ FalseLength \/ BadCrc \/ GoodFrame \/ Return

Next == Transmit \/ Fault \/ Read \/ Push \/ Dispatch \/ Dispatched

Spec == Init /\ [][Next]_vars

(* The reader thread runs while the process does.                           *)
Fairness == WF_vars(Read \/ Push \/ Dispatch \/ Dispatched)

FairSpec == Spec /\ Fairness

----
(* What push answers for a whole stream at once.  From a place on, it goes  *)
(* to the first at which it finds a frame or must wait, counts the magic    *)
(* bytes before it, and goes on after the frame.                            *)
Stops(s, p) == ValidAt(s, p) \/ NeedsMore(s, p)

Stop(s, c) == CHOOSE p \in c..Len(s) : Stops(s, p) /\ \A q \in c..(p - 1) : ~Stops(s, q)

FalseMagic(s, c, p) == Cardinality({q \in c..(p - 1) : AtMagic(s, q)})

Parse(s) ==
    LET from[c \in 0..Len(s)] ==
            LET p == Stop(s, c)
            IN  IF NeedsMore(s, p) THEN [frames |-> <<>>, errors |-> FalseMagic(s, c, p)]
                ELSE LET rest == from[p + Total(s, p)]
                     IN  [frames |-> <<FrameAt(s, p, p)>> \o rest.frames,
                          errors |-> FalseMagic(s, c, p) + rest.errors]
    IN  from

Whole(s) == Parse(s)[0]

Size(f) == Len(f.payload) + Overhead

Inside(f, p) == f.at <= p /\ p < f.at + Size(f)

Place == Base + cursor

(* SAFETY.  However the stream is cut into reads, the frames found and the  *)
(* errors counted are those of the whole stream: FrameParser "tolerates     *)
(* partial reads".                                                          *)
ChunksDoNotMatter ==
    pc = "read" => /\ found = Whole(seen).frames
                   /\ crc_errors = Whole(seen).errors

(* SAFETY.  Nothing is passed over: wherever in the stream a CRC-valid      *)
(* frame stands, push has found it, or has not yet come to it, or it        *)
(* overlaps a frame that was found.  Garbage never costs a good frame.      *)
NoneMissed ==
    \A p \in 0..(Place - 1) :
        ValidAt(seen, p) => \E i \in DOMAIN found : Inside(found[i], p)

(* SAFETY.  Each frame found is a CRC-valid frame of the stream, they stand *)
(* in the order of the stream, and no byte belongs to two of them.          *)
FoundOnce ==
    \A i \in DOMAIN found :
        /\ ValidAt(seen, found[i].at)
        /\ found[i] = FrameAt(seen, found[i].at, found[i].at)
        /\ \A j \in 1..(i - 1) : found[j].at + Size(found[j]) <= found[i].at

(* SAFETY.  Between two reads the buffer holds less than one frame of the   *)
(* largest size, which is also all that a false magic byte can hold back.   *)
BufferBounded == pc = "read" => Len(buf) < MaxPayload + Overhead

(* LIVENESS.  push returns whatever is in the stream, and its frames are    *)
(* dispatched, so that the port is read again.                              *)
ReadsAgain == pc # "read" ~> pc = "read"

====
