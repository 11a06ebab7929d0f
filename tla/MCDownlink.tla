---- MODULE MCDownlink ----
(* Instances of Downlink for TLC.                                           *)
EXTENDS Downlink

Armed    == [name |-> "armed", timing |-> 1, epoch |-> 1, slotmap |-> 2, armed |-> TRUE]
Rearmed  == [name |-> "rearmed", timing |-> 2, epoch |-> 2, slotmap |-> 1, armed |-> TRUE]
TooLarge == [name |-> "too large", timing |-> 1, epoch |-> 1, slotmap |-> 3, armed |-> TRUE]

TwoRaces   == {Armed, Rearmed}
ThreeRaces == {Armed, Rearmed, TooLarge}
LargeOnes  == {TooLarge}
NoneLarge  == {}
====
