---- MODULE MCSerialLink ----
(* Instances of SerialLink for TLC.  The code's OverflowAt is 1024, as a    *)
(* float holds 2 ** 1023 and not 2 ** 1024; any number shows the same.      *)
EXTENDS SerialLink
====
