---- MODULE MCFrames ----
(* Instances of Frames for TLC: an ACK and a log line that holds the bytes  *)
(* of a frame, and garbage that looks like the head of a frame.             *)
EXTENDS Frames

Ack    == Encode(5, <<129, 0>>)
Nested == Encode(3, Encode(133, <<>>))

MCMessages == {Ack, Nested}

MCGarbage == {<<0>>, <<Magic>>, <<Magic, 1, 3, 0>>, <<Magic, 1, 8, 0>>, <<Magic, 2, 0, 1>>}

(* The check value of CRC-16/CCITT-FALSE: that of the digits 1 to 9.        *)
ASSUME Crc16[[i \in 1..9 |-> 48 + i]] = 10673

(* Codec: what is read of slot maps at the bounds of the count, with node    *)
(* ids beyond 16 bits and slots beyond 8, is what their low bytes hold.      *)
C == INSTANCE Codec
Slots(n) == [k \in 1..n |-> [node |-> 65530 + k, slot |-> k]]
ASSUME \A n \in {0, 1, 255, 256, 257, 682, 683} :
    LET p == C!EncodeSetSlotmap(Slots(n)) IN
      /\ C!ReadSlotmap(p) = [k \in 1..(n % 256) |-> [node |-> (65530 + k) % 65536, slot |-> k % 256]]
      /\ C!Refused(p) <=> n > 682
ASSUME C!ReadTiming(C!EncodeSetTiming(300, 70000, 25)) = [slot_count |-> 44, toa_ms |-> 4464, guard_ms |-> 25]
====
