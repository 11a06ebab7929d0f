---- MODULE MCHealth ----
(* An instance of Health for TLC: three fixes of one slot, the first and the *)
(* last of different cycles and the middle one near both, and a NODE_STATS   *)
(* frame that is older than some fixes and newer than others, whole or cut   *)
(* off after one entry.  Of a second node there is nothing but NODE_STATS.   *)
EXTENDS Health

F(n, s, t) == [node |-> n, seq |-> s, ts |-> t]
E(n, t)    == [node |-> n, heard |-> t]

Fixes == {F("n1", 0, 0), F("n1", 0, 1), F("n1", 0, 2)}

StatsFrames == {<<E("n1", 1), E("n2", 0)>>}
====
