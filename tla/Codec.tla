---- MODULE Codec ----
(***************************************************************************)
(* The payloads with numbers that poll_once sends to program a base node    *)
(* (protocol.py), as sequences of bytes, and what the base node reads from  *)
(* them.  The framing around a payload is in Frames.                       *)
(*                                                                         *)
(* Each number is masked to its field and packed little-endian, so one out *)
(* of range is sent as another number and never refused.                   *)
(***************************************************************************)
EXTENDS Integers, Sequences

Byte == 0..255
SerialMaxPayload == 2048

\* The two bytes of a number, and what 16 bits hold of it.
Low(n)  == n % 256
High(n) == (n \div 256) % 256
Word(n) == n % 65536

\* struct.pack("<BHH", ...).
EncodeSetTiming(slot_count, toa_ms, guard_ms) ==
    <<Low(slot_count), Low(toa_ms), High(toa_ms), Low(guard_ms), High(guard_ms)>>

\* struct.pack("<HB", ...): the bytes of an entry.
EntryBytes(e) == <<Low(e.node), High(e.node), Low(e.slot)>>

EncodeSetSlotmap(entries) ==
    <<Low(Len(entries))>> \o
        [k \in 1..(3 * Len(entries)) |-> EntryBytes(entries[(k - 1) \div 3 + 1])[((k - 1) % 3) + 1]]

\* encode_frame raises for a payload too large.
Refused(payload) == Len(payload) > SerialMaxPayload

----
(* The base node's side: the fields at their places, a slot map as its     *)
(* count and then so many entries.                                         *)

U16At(p, i) == p[i] + 256 * p[i + 1]

ReadTiming(p) == [slot_count |-> p[1], toa_ms |-> U16At(p, 2), guard_ms |-> U16At(p, 4)]

ReadSlotmap(p) ==
    [k \in 1..p[1] |-> [node |-> U16At(p, 3 * k - 1), slot |-> p[3 * k + 1]]]
====
