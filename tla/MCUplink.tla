---- MODULE MCUplink ----
(* Instances of Uplink for TLC: one node whose sequence number wraps, so    *)
(* that its third fix takes the slot of its first, and one poison fix.      *)
EXTENDS Uplink

First1  == [node |-> "n1", seq |-> 0, ts |-> 0]
Second1 == [node |-> "n1", seq |-> 1, ts |-> 1]
Wrapped == [node |-> "n1", seq |-> 0, ts |-> 9]

ThreeFixes == {First1, Second1, Wrapped}
TwoFixes   == {First1, Wrapped}
WindowOf3  == 3
OnePoison  == {Second1}
WrapPoison == {Wrapped}
====
