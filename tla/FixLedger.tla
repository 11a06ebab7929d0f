---- MODULE FixLedger ----
(***************************************************************************)
(* What the store and the uplinker promise together, without batches,      *)
(* transactions, requests or threads: a log of fixes that only grows, each *)
(* entry of which is delivered to the cloud or put aside as refused, and   *)
(* only then settled.                                                      *)
(***************************************************************************)
EXTENDS Naturals, Sequences

CONSTANTS
    Fix,     \* what is logged
    MaxLog   \* bound: the length the log may reach

VARIABLES
    log,        \* the fixes recorded, in order: an entry's index is its key
    delivered,  \* the entries the cloud holds
    aside,      \* the keys put aside
    settled     \* the keys that need no more work

vars == <<log, delivered, aside, settled>>

Entry(k) == [id |-> k, fix |-> log[k]]

Init ==
    /\ log = << >>
    /\ delivered = {} /\ aside = {} /\ settled = {}

Record ==
    /\ Len(log) < MaxLog
    /\ \E f \in Fix : log' = Append(log, f)
    /\ UNCHANGED <<delivered, aside, settled>>

\* Some entries reach the cloud, in one request.
Deliver ==
    /\ \E keys \in SUBSET DOMAIN log :
          delivered' = delivered \cup {Entry(k) : k \in keys}
    /\ UNCHANGED <<log, aside, settled>>

PutAside ==
    /\ \E k \in DOMAIN log : aside' = aside \cup {k}
    /\ UNCHANGED <<log, delivered, settled>>

Settle ==
    /\ \E k \in DOMAIN log :
          /\ Entry(k) \in delivered \/ k \in aside
          /\ settled' = settled \cup {k}
    /\ UNCHANGED <<log, delivered, aside>>

Next == Record \/ Deliver \/ PutAside \/ Settle

Spec == Init /\ [][Next]_vars

\* Every entry is settled in the end.
Progress == \A k \in 1..MaxLog : (k \in DOMAIN log) ~> (k \in settled)

====
