---- MODULE GatewayProofs ----
(***************************************************************************)
(* Proofs about SerialLink and Gateway, for every set of device paths,     *)
(* every number of outages and every limit of the attempts: the state of    *)
(* the port and of the supervisor is well formed, the port that _ser names *)
(* is open, and a gateway does to its port nothing but what SerialLink says.*)
(*                                                                         *)
(* A port is the reader's own between open and the store into _ser, and a   *)
(* thread that is about to close a port has dropped it from _ser before.    *)
(***************************************************************************)
EXTENDS Gateway, TLAPS

(* The reader goes to the port only below the attempt that overflows.       *)
Attempts == at["reader"] \in {"open", "dial"} => attempt < OverflowAt

(* A port that was dialled is known to the reader alone.                    *)
Dialled ==
    at["reader"] = "store" =>
        /\ hand["reader"] = opened
        /\ opened \in open
        /\ ser # opened
        /\ \A t \in Threads \ {"reader"} : hand[t] # opened

(* What a thread is about to close is not what _ser names.                  *)
Dropped == \A t \in Threads : at[t] = "close_port" => hand[t] = 0 \/ hand[t] # ser

PortInv == TypeOK /\ Attempts /\ Dialled /\ Dropped /\ SerNamesOpenPort

----
(* One thread moves.                                                        *)
Places == Closing \cup {"top", "reconnect", "open", "dial", "store", "flag", "take",
                        "read", "ended", "dead", "idle", "load", "write",
                        "run", "join", "stopped"}

LEMMA Moved ==
    ASSUME TypeOK, NEW t \in Threads, NEW from, NEW to \in Places, Move(t, from, to)
    PROVE  /\ at[t] = from /\ at'[t] = to
           /\ at' \in [Threads -> Places]
           /\ \A u \in Threads \ {t} : at'[u] = at[u]
  BY DEF TypeOK, Move, Places

LEMMA Handed ==
    ASSUME TypeOK, NEW t \in Threads, NEW p, hand' = [hand EXCEPT ![t] = p]
    PROVE  /\ hand'[t] = p
           /\ \A u \in Threads \ {t} : hand'[u] = hand[u]
           /\ p \in 0..opened => hand' \in [Threads -> 0..opened]
  BY DEF TypeOK

\* The steps that leave the port and the references to it alone.
LEMMA PortKept ==
    ASSUME PortInv, NEW t \in Threads, NEW from, NEW to \in Places, Move(t, from, to),
           to \notin {"open", "dial", "store", "close_port"},
           UNCHANGED <<ser, hand, opened, open>>
    PROVE  /\ at' \in [Threads -> Places]
           /\ (Attempts /\ attempt' = attempt => Attempts') /\ (t = "reader" => Attempts')
           /\ Dialled' /\ Dropped' /\ SerNamesOpenPort'
  <1>1. /\ at'[t] = to /\ at' \in [Threads -> Places]
        /\ \A u \in Threads \ {t} : at'[u] = at[u]
    BY Moved DEF PortInv
  <1>2. "reader" \in Threads
    BY DEF Threads
  <1>3. at'["reader"] \in {"open", "dial", "store"} => at'["reader"] = at["reader"] /\ t # "reader"
    BY <1>1, <1>2
  <1>4. (Attempts /\ attempt' = attempt => Attempts') /\ (t = "reader" => Attempts')
    BY <1>1, <1>3 DEF Attempts
  <1>5. Dialled'
    BY <1>3 DEF PortInv, Dialled
  <1>6. Dropped'
    BY <1>1 DEF PortInv, Dropped
  <1>7. QED
    BY <1>1, <1>4, <1>5, <1>6 DEF PortInv, SerNamesOpenPort

----
(* _close, on any thread.                                                   *)
LEMMA CloseFlagStep ==
    ASSUME PortInv, NEW t \in Threads, CloseFlag(t)
    PROVE  PortInv'
  <1>1. /\ Move(t, "close_flag", "close_load") /\ connected' = FALSE
        /\ UNCHANGED <<ser, hand, pinned, attempt, opened, open, live, dev, drops>>
    BY DEF CloseFlag, retry, device
  <1>2. "close_load" \in Places
    BY DEF Places, Closing
  <1>3. at' \in [Threads -> Places] /\ Attempts' /\ Dialled' /\ Dropped' /\ SerNamesOpenPort'
    BY <1>1, <1>2, PortKept DEF PortInv
  <1>4. QED
    BY <1>1, <1>3 DEF PortInv, TypeOK, Places

LEMMA CloseLoadStep ==
    ASSUME PortInv, NEW t \in Threads, CloseLoad(t)
    PROVE  PortInv'
  <1>1. /\ Move(t, "close_load", "close_store") /\ hand' = [hand EXCEPT ![t] = ser]
        /\ UNCHANGED <<ser, connected, pinned, attempt, opened, open, live, dev, drops>>
    BY DEF CloseLoad, port, retry, device
  <1>2. "close_store" \in Places /\ "reader" \in Threads /\ ser \in 0..opened
    BY DEF Places, Closing, Threads, PortInv, TypeOK
  <1>3. /\ at'[t] = "close_store" /\ at' \in [Threads -> Places]
        /\ \A u \in Threads \ {t} : at'[u] = at[u]
    BY <1>1, <1>2, Moved DEF PortInv
  <1>4. /\ hand'[t] = ser /\ hand' \in [Threads -> 0..opened]
        /\ \A u \in Threads \ {t} : hand'[u] = hand[u]
    BY <1>1, <1>2, Handed DEF PortInv
  <1>5. Attempts'
    BY <1>1, <1>2, <1>3 DEF PortInv, Attempts
  <1>6. Dialled'
    BY <1>1, <1>2, <1>3, <1>4 DEF PortInv, Dialled
  <1>7. Dropped'
    BY <1>1, <1>3, <1>4 DEF PortInv, Dropped
  <1>8. TypeOK' /\ SerNamesOpenPort'
    BY <1>1, <1>3, <1>4 DEF PortInv, TypeOK, Places, SerNamesOpenPort
  <1>9. QED
    BY <1>5, <1>6, <1>7, <1>8 DEF PortInv

LEMMA CloseStoreStep ==
    ASSUME PortInv, NEW t \in Threads, CloseStore(t)
    PROVE  PortInv'
  <1>1. /\ Move(t, "close_store", "close_port") /\ ser' = 0
        /\ UNCHANGED <<connected, hand, pinned, attempt, opened, open, live, dev, drops>>
    BY DEF CloseStore, retry, device
  <1>2. "close_port" \in Places /\ "reader" \in Threads /\ open \subseteq 1..opened
    BY DEF Places, Closing, Threads, PortInv, TypeOK
  <1>3. /\ at'[t] = "close_port" /\ at' \in [Threads -> Places]
        /\ \A u \in Threads \ {t} : at'[u] = at[u]
    BY <1>1, <1>2, Moved DEF PortInv
  <1>4. Attempts'
    BY <1>1, <1>2, <1>3 DEF PortInv, Attempts
  <1>5. Dialled'
    <2>1. at'["reader"] = "store" => at["reader"] = "store"
      BY <1>2, <1>3
    <2>2. opened \in open => opened # 0
      BY <1>2
    <2>3. QED
      BY <1>1, <2>1, <2>2 DEF PortInv, Dialled
  <1>6. Dropped'
    BY <1>1 DEF Dropped
  <1>7. TypeOK' /\ SerNamesOpenPort'
    BY <1>1, <1>3 DEF PortInv, TypeOK, Places, SerNamesOpenPort
  <1>8. QED
    BY <1>4, <1>5, <1>6, <1>7 DEF PortInv

LEMMA ClosePortStep ==
    ASSUME PortInv, NEW t \in Threads, ClosePort(t)
    PROVE  PortInv'
  <1>1. /\ Move(t, "close_port", AfterClose(t))
        /\ open' = open \ {hand[t]} /\ live' = live \ {hand[t]}
        /\ UNCHANGED <<ser, connected, hand, pinned, attempt, opened, dev, drops>>
    BY DEF ClosePort, port, retry
  <1>2. AfterClose(t) \in Places /\ AfterClose(t) \notin {"open", "dial", "store", "close_port"}
    BY DEF AfterClose, Places, Threads
  <1>3. /\ at[t] = "close_port" /\ at'[t] = AfterClose(t) /\ at' \in [Threads -> Places]
        /\ \A u \in Threads \ {t} : at'[u] = at[u]
    BY <1>1, <1>2, Moved DEF PortInv
  <1>4. "reader" \in Threads /\ open \subseteq 1..opened
    BY DEF Threads, PortInv, TypeOK
  <1>5. Attempts'
    BY <1>1, <1>2, <1>3, <1>4 DEF PortInv, Attempts
  <1>6. Dialled'
    <2> SUFFICES ASSUME at'["reader"] = "store"
                 PROVE  /\ hand["reader"] = opened /\ opened \in open'
                        /\ ser # opened /\ \A u \in Threads \ {"reader"} : hand[u] # opened
      BY <1>1 DEF Dialled
    <2>1. at["reader"] = "store" /\ t # "reader"
      BY <1>2, <1>3, <1>4
    <2>2. QED
      BY <1>1, <2>1 DEF PortInv, Dialled
  <1>7. Dropped'
    BY <1>1, <1>2, <1>3 DEF PortInv, Dropped
  <1>8. SerNamesOpenPort'
    <2>1. hand[t] = 0 \/ hand[t] # ser
      BY <1>3 DEF PortInv, Dropped
    <2>2. QED
      BY <1>1, <2>1 DEF PortInv, SerNamesOpenPort
  <1>9. TypeOK'
    BY <1>1, <1>3 DEF PortInv, TypeOK, Places
  <1>10. QED
    BY <1>5, <1>6, <1>7, <1>8, <1>9 DEF PortInv

LEMMA CloseStep ==
    ASSUME PortInv, NEW t \in Threads, Close(t)
    PROVE  PortInv'
  BY CloseFlagStep, CloseLoadStep, CloseStoreStep, ClosePortStep DEF Close

----
(* The reader thread.                                                       *)
LEMMA RunLoopStep == PortInv /\ RunLoop => PortInv'
  <1> SUFFICES ASSUME PortInv, RunLoop PROVE PortInv'
    OBVIOUS
  <1>1. PICK to \in {"ended", "reconnect", "take"} : Move("reader", "top", to)
    BY DEF RunLoop
  <1>2. attempt' = 0 /\ UNCHANGED <<ser, connected, hand, pinned, opened, open, live, dev, drops>>
    BY DEF RunLoop, port, device
  <1>3. "reader" \in Threads /\ to \in Places /\ to \notin {"open", "dial", "store", "close_port"}
    BY DEF Threads, Places
  <1>4. at' \in [Threads -> Places] /\ Attempts' /\ Dialled' /\ Dropped' /\ SerNamesOpenPort'
    BY <1>1, <1>2, <1>3, PortKept
  <1>5. 0 \in 0..OverflowAt
    BY SerialLinkAssumption
  <1>6. QED
    BY <1>2, <1>4, <1>5 DEF PortInv, TypeOK, Places

LEMMA ReconnectStep == PortInv /\ Reconnect => PortInv'
  <1> SUFFICES ASSUME PortInv, Reconnect PROVE PortInv'
    OBVIOUS
  <1>1. UNCHANGED <<ser, connected, hand, pinned, attempt, opened, open, live, dev, drops>>
    BY DEF Reconnect, port, retry, device
  <1>2. "reader" \in Threads
    BY DEF Threads
  <1>3. CASE \E to \in {"top", "dead"} : Move("reader", "reconnect", to)
    <2>1. PICK to \in {"top", "dead"} : Move("reader", "reconnect", to)
      BY <1>3
    <2>2. to \in Places /\ to \notin {"open", "dial", "store", "close_port"}
      BY DEF Places
    <2>3. at' \in [Threads -> Places] /\ Attempts' /\ Dialled' /\ Dropped' /\ SerNamesOpenPort'
      BY <1>1, <1>2, <2>1, <2>2, PortKept
    <2>4. QED
      BY <1>1, <2>3 DEF PortInv, TypeOK, Places
  <1>4. CASE attempt < OverflowAt /\ Move("reader", "reconnect", "open")
    <2>1. "open" \in Places
      BY DEF Places
    <2>2. /\ at'["reader"] = "open" /\ at' \in [Threads -> Places]
          /\ \A u \in Threads \ {"reader"} : at'[u] = at[u]
      BY <1>2, <1>4, <2>1, Moved DEF PortInv
    <2>3. Attempts' /\ Dialled'
      BY <1>1, <1>4, <2>2 DEF Attempts, Dialled
    <2>4. Dropped'
      BY <1>1, <2>2 DEF PortInv, Dropped
    <2>5. QED
      BY <1>1, <2>2, <2>3, <2>4 DEF PortInv, TypeOK, Places, SerNamesOpenPort
  <1>5. QED
    BY <1>3, <1>4 DEF Reconnect

LEMMA DetectStep == PortInv /\ Detect => PortInv'
  <1> SUFFICES ASSUME PortInv, Detect PROVE PortInv'
    OBVIOUS
  <1>1. /\ Move("reader", "open", "dial")
        /\ pinned' = IF pinned = NoName THEN dev ELSE pinned
        /\ UNCHANGED <<ser, connected, hand, attempt, opened, open, live, dev, drops>>
    BY DEF Detect, port, device
  <1>2. "reader" \in Threads /\ "dial" \in Places
    BY DEF Threads, Places
  <1>3. /\ at["reader"] = "open" /\ at'["reader"] = "dial" /\ at' \in [Threads -> Places]
        /\ \A u \in Threads \ {"reader"} : at'[u] = at[u]
    BY <1>1, <1>2, Moved DEF PortInv
  <1>4. Attempts' /\ Dialled'
    BY <1>1, <1>3 DEF PortInv, Attempts, Dialled
  <1>5. Dropped'
    BY <1>1, <1>3 DEF PortInv, Dropped
  <1>6. pinned' \in Names \cup {NoName}
    BY <1>1 DEF PortInv, TypeOK
  <1>7. QED
    BY <1>1, <1>3, <1>4, <1>5, <1>6 DEF PortInv, TypeOK, Places, SerNamesOpenPort

LEMMA OpenPortStep == PortInv /\ OpenPort => PortInv'
  <1> SUFFICES ASSUME PortInv, OpenPort PROVE PortInv'
    OBVIOUS
  <1>1. /\ Move("reader", "dial", "store")
        /\ opened' = opened + 1
        /\ open' = open \cup {opened'} /\ live' = live \cup {opened'}
        /\ hand' = [hand EXCEPT !["reader"] = opened']
        /\ UNCHANGED <<ser, connected, pinned, attempt, dev, drops>>
    BY DEF OpenPort, port, retry
  <1>2. /\ "reader" \in Threads /\ "store" \in Places
        /\ opened \in Nat /\ ser \in 0..opened /\ hand \in [Threads -> 0..opened]
        /\ open \subseteq 1..opened /\ live \subseteq open
    BY DEF Threads, Places, PortInv, TypeOK
  <1>3. /\ at'["reader"] = "store" /\ at' \in [Threads -> Places]
        /\ \A u \in Threads \ {"reader"} : at'[u] = at[u]
    BY <1>1, <1>2, Moved DEF PortInv
  <1>4. /\ hand'["reader"] = opened'
        /\ \A u \in Threads \ {"reader"} : hand'[u] = hand[u]
    BY <1>1, <1>2, Handed DEF PortInv
  <1>5. \A u \in Threads \ {"reader"} : hand'[u] \in 0..opened
    BY <1>2, <1>4
  <1>6. opened' \in Nat /\ opened' \notin 0..opened
    BY <1>1, <1>2
  <1>7. hand' \in [Threads -> 0..opened']
    <2>1. \A u \in Threads : hand'[u] \in 0..opened'
      BY <1>1, <1>2, <1>4, <1>5
    <2>2. hand' = [u \in Threads |-> hand'[u]]
      BY <1>1, <1>2
    <2>3. QED
      BY <2>1, <2>2
  <1>8. TypeOK'
    <2>1. ser' \in 0..opened'
      BY <1>1, <1>2
    <2>2. open' \subseteq 1..opened' /\ live' \subseteq open'
      BY <1>1, <1>2
    <2>3. QED
      BY <1>1, <1>3, <1>6, <1>7, <2>1, <2>2 DEF PortInv, TypeOK, Places
  <1>9. Attempts'
    BY <1>3 DEF Attempts
  <1>10. Dialled'
    <2>1. opened' \in open' /\ ser' # opened'
      BY <1>1, <1>2, <1>6
    <2>2. \A u \in Threads \ {"reader"} : hand'[u] # opened'
      BY <1>5, <1>6
    <2>3. QED
      BY <1>4, <2>1, <2>2 DEF Dialled
  <1>11. Dropped'
    BY <1>1, <1>3, <1>4 DEF PortInv, Dropped
  <1>12. SerNamesOpenPort'
    BY <1>1 DEF PortInv, SerNamesOpenPort
  <1>13. QED
    BY <1>8, <1>9, <1>10, <1>11, <1>12 DEF PortInv

LEMMA OpenRaisesStep == PortInv /\ OpenRaises => PortInv'
  <1> SUFFICES ASSUME PortInv, OpenRaises PROVE PortInv'
    OBVIOUS
  <1>1. PICK from \in {"open", "dial"} : Move("reader", from, "reconnect")
    BY DEF OpenRaises
  <1>2. /\ attempt' = attempt + 1
        /\ UNCHANGED <<ser, connected, hand, pinned, opened, open, live, dev, drops>>
    BY DEF OpenRaises, port, device
  <1>3. "reader" \in Threads /\ "reconnect" \in Places
        /\ "reconnect" \notin {"open", "dial", "store", "close_port"}
    BY DEF Threads, Places
  <1>4. at' \in [Threads -> Places] /\ Attempts' /\ Dialled' /\ Dropped' /\ SerNamesOpenPort'
    BY <1>1, <1>2, <1>3, PortKept
  <1>5. at["reader"] = from
    BY <1>1, <1>3, Moved DEF PortInv
  <1>6. attempt < OverflowAt /\ attempt \in 0..OverflowAt /\ OverflowAt \in Nat
    BY <1>5, SerialLinkAssumption DEF PortInv, Attempts, TypeOK
  <1>7. attempt' \in 0..OverflowAt
    BY <1>2, <1>6
  <1>8. QED
    BY <1>2, <1>4, <1>7 DEF PortInv, TypeOK, Places

LEMMA StorePortStep == PortInv /\ StorePort => PortInv'
  <1> SUFFICES ASSUME PortInv, StorePort PROVE PortInv'
    OBVIOUS
  <1>1. /\ Move("reader", "store", "flag") /\ ser' = hand["reader"]
        /\ UNCHANGED <<connected, hand, pinned, attempt, opened, open, live, dev, drops>>
    BY DEF StorePort, retry, device
  <1>2. "reader" \in Threads /\ "flag" \in Places
    BY DEF Threads, Places
  <1>3. /\ at["reader"] = "store" /\ at'["reader"] = "flag" /\ at' \in [Threads -> Places]
        /\ \A u \in Threads \ {"reader"} : at'[u] = at[u]
    BY <1>1, <1>2, Moved DEF PortInv
  <1>4. /\ ser' = opened /\ opened \in open
        /\ \A u \in Threads \ {"reader"} : hand[u] # opened
    BY <1>1, <1>3 DEF PortInv, Dialled
  <1>5. Attempts' /\ Dialled'
    BY <1>3 DEF Attempts, Dialled
  <1>6. Dropped'
    BY <1>1, <1>3, <1>4 DEF Dropped
  <1>7. ser' \in 0..opened
    BY <1>1, <1>2 DEF PortInv, TypeOK
  <1>8. QED
    BY <1>1, <1>3, <1>4, <1>5, <1>6, <1>7 DEF PortInv, TypeOK, Places, SerNamesOpenPort

LEMMA TakeStep == PortInv /\ Take => PortInv'
  <1> SUFFICES ASSUME PortInv, Take PROVE PortInv'
    OBVIOUS
  <1>1. PICK to \in {"close_flag", "read"} : Move("reader", "take", to)
    BY DEF Take
  <1>2. /\ hand' = [hand EXCEPT !["reader"] = ser]
        /\ UNCHANGED <<ser, connected, pinned, attempt, opened, open, live, dev, drops>>
    BY DEF Take, port, retry, device
  <1>3. "reader" \in Threads /\ to \in Places /\ ser \in 0..opened
    BY DEF Threads, Places, Closing, PortInv, TypeOK
  <1>4. /\ at'["reader"] = to /\ at' \in [Threads -> Places]
        /\ \A u \in Threads \ {"reader"} : at'[u] = at[u]
    BY <1>1, <1>3, Moved DEF PortInv
  <1>5. /\ hand' \in [Threads -> 0..opened]
        /\ \A u \in Threads \ {"reader"} : hand'[u] = hand[u]
    BY <1>2, <1>3, Handed DEF PortInv
  <1>6. Attempts' /\ Dialled'
    BY <1>4 DEF Attempts, Dialled
  <1>7. Dropped'
    BY <1>2, <1>4, <1>5 DEF PortInv, Dropped
  <1>8. QED
    BY <1>2, <1>4, <1>5, <1>6, <1>7 DEF PortInv, TypeOK, Places, SerNamesOpenPort

\* The steps of the three threads that move one of them, and at most set the flag.
LEMMA MoveStep ==
    ASSUME PortInv, NEW t \in Threads, NEW from, NEW to \in Places, Move(t, from, to),
           to \notin {"open", "dial", "store", "close_port"}, connected' \in BOOLEAN,
           UNCHANGED <<ser, hand, pinned, attempt, opened, open, live, dev, drops>>
    PROVE  PortInv'
  <1>1. at' \in [Threads -> Places] /\ Attempts' /\ Dialled' /\ Dropped' /\ SerNamesOpenPort'
    BY PortKept DEF PortInv
  <1>2. QED
    BY <1>1 DEF PortInv, TypeOK, Places

LEMMA ReaderMoves == PortInv /\ (Adopt \/ FlagPort \/ Read \/ ReadRaises) => PortInv'
  <1> SUFFICES ASSUME PortInv, Adopt \/ FlagPort \/ Read \/ ReadRaises PROVE PortInv'
    OBVIOUS
  <1>1. /\ \E from \in Places : \E to \in {"flag", "take", "top", "close_flag"} :
                Move("reader", from, to)
        /\ UNCHANGED <<ser, hand, pinned, attempt, opened, open, live, dev, drops>>
    BY DEF Adopt, FlagPort, Read, ReadRaises, port, retry, device, Places
  <1>2. connected' \in BOOLEAN
    BY DEF Adopt, FlagPort, Read, ReadRaises, port, PortInv, TypeOK
  <1>3. "reader" \in Threads /\ {"flag", "take", "top", "close_flag"} \subseteq Places
    BY DEF Threads, Places, Closing
  <1>4. QED
    BY <1>1, <1>2, <1>3, MoveStep

LEMMA ReaderStepKeeps == PortInv /\ ReaderStep => PortInv'
  <1>1. "reader" \in Threads
    BY DEF Threads
  <1>2. QED
    BY <1>1, RunLoopStep, ReconnectStep, DetectStep, OpenPortStep, OpenRaisesStep,
       StorePortStep, TakeStep, ReaderMoves, CloseStep DEF ReaderStep

----
(* The other threads and the device.                                        *)
LEMMA SendLoadStep == PortInv /\ SendLoad => PortInv'
  <1> SUFFICES ASSUME PortInv, SendLoad PROVE PortInv'
    OBVIOUS
  <1>1. PICK to \in {"idle", "write"} : Move("sender", "load", to)
    BY DEF SendLoad
  <1>2. /\ hand' = [hand EXCEPT !["sender"] = ser]
        /\ UNCHANGED <<ser, connected, pinned, attempt, opened, open, live, dev, drops>>
    BY DEF SendLoad, port, retry, device
  <1>3. "sender" \in Threads /\ "reader" \in Threads /\ "sender" # "reader"
        /\ to \in Places /\ ser \in 0..opened
    BY DEF Threads, Places, PortInv, TypeOK
  <1>4. /\ at'["sender"] = to /\ at' \in [Threads -> Places]
        /\ \A u \in Threads \ {"sender"} : at'[u] = at[u]
    BY <1>1, <1>3, Moved DEF PortInv
  <1>5. /\ hand'["sender"] = ser /\ hand' \in [Threads -> 0..opened]
        /\ \A u \in Threads \ {"sender"} : hand'[u] = hand[u]
    BY <1>2, <1>3, Handed DEF PortInv
  <1>6. Attempts' /\ Dialled'
    BY <1>2, <1>3, <1>4, <1>5 DEF PortInv, Attempts, Dialled
  <1>7. Dropped'
    BY <1>2, <1>4, <1>5 DEF PortInv, Dropped
  <1>8. QED
    BY <1>2, <1>4, <1>5, <1>6, <1>7 DEF PortInv, TypeOK, Places, SerNamesOpenPort

LEMMA OtherMoves ==
    PortInv /\ (Send \/ Write \/ WriteRaises \/ Stop \/ JoinReturns) => PortInv'
  <1> SUFFICES ASSUME PortInv, Send \/ Write \/ WriteRaises \/ Stop \/ JoinReturns PROVE PortInv'
    OBVIOUS
  <1>1. /\ \E t \in Threads : \E from \in Places : \E to \in {"load", "idle", "close_flag", "stopped"} :
                Move(t, from, to)
        /\ UNCHANGED <<ser, connected, hand, pinned, attempt, opened, open, live, dev, drops>>
    BY DEF Send, Write, WriteRaises, Stop, JoinReturns, port, retry, device, Places, Threads
  <1>2. connected' \in BOOLEAN /\ {"load", "idle", "close_flag", "stopped"} \subseteq Places
    BY <1>1 DEF PortInv, TypeOK, Places, Closing
  <1>3. QED
    BY <1>1, <1>2, MoveStep

LEMMA DeviceStep ==
    PortInv /\ (DeviceDrops \/ \E path \in Names : DeviceReturns(path)) => PortInv'
  <1> SUFFICES ASSUME PortInv, DeviceDrops \/ \E path \in Names : DeviceReturns(path)
               PROVE  PortInv'
    OBVIOUS
  <1>1. UNCHANGED <<ser, connected, at, hand, pinned, attempt, opened, open>>
    BY DEF DeviceDrops, DeviceReturns, port, retry
  <1>2. live' \subseteq open /\ dev' \in Names \cup {NoName} /\ drops' \in 0..MaxDrops
    <2>1. CASE DeviceDrops
      <3>1. /\ dev' = NoName /\ live' = {} /\ drops' = drops + 1
            /\ drops < MaxDrops /\ drops \in 0..MaxDrops /\ MaxDrops \in Nat
        BY <2>1, SerialLinkAssumption DEF DeviceDrops, PortInv, TypeOK
      <3>2. QED
        BY <3>1
    <2>2. CASE \E path \in Names : DeviceReturns(path)
      BY <2>2 DEF DeviceReturns, PortInv, TypeOK
    <2>3. QED
      BY <2>1, <2>2
  <1>3. Attempts' /\ Dialled' /\ Dropped' /\ SerNamesOpenPort'
    BY <1>1 DEF PortInv, Attempts, Dialled, Dropped, SerNamesOpenPort
  <1>4. QED
    BY <1>1, <1>2, <1>3 DEF PortInv, TypeOK

LEMMA PortStep == PortInv /\ [Next]_vars => PortInv'
  <1> SUFFICES ASSUME PortInv, [Next]_vars PROVE PortInv'
    OBVIOUS
  <1>1. "sender" \in Threads /\ "main" \in Threads
    BY DEF Threads
  <1>2. CASE ReaderStep
    BY <1>2, ReaderStepKeeps
  <1>3. CASE Send \/ SenderStep
    BY <1>1, <1>3, SendLoadStep, OtherMoves, CloseStep DEF SenderStep
  <1>4. CASE Stop \/ MainStep
    BY <1>1, <1>4, OtherMoves, CloseStep DEF MainStep
  <1>5. CASE DeviceDrops \/ \E path \in Names : DeviceReturns(path)
    BY <1>5, DeviceStep
  <1>6. CASE UNCHANGED vars
    BY <1>6 DEF vars, PortInv, TypeOK, Attempts, Dialled, Dropped, SerNamesOpenPort
  <1>7. QED
    BY <1>2, <1>3, <1>4, <1>5, <1>6 DEF Next, Done

LEMMA PortInit == Init => PortInv
  <1> SUFFICES ASSUME Init PROVE PortInv
    OBVIOUS
  <1>1. /\ ser = 0 /\ connected = FALSE /\ attempt = 0 /\ opened = 0 /\ drops = 0
        /\ open = {} /\ live = {} /\ hand = [t \in Threads |-> 0]
        /\ at = [reader |-> "top", sender |-> "idle", main |-> "run"]
        /\ pinned \in Names \cup {NoName} /\ dev \in Names \cup {NoName}
        /\ OverflowAt \in Nat /\ MaxDrops \in Nat
    BY SerialLinkAssumption DEF Init
  <1>2. at \in [Threads -> Places] /\ \A t \in Threads : at[t] \in {"top", "idle", "run"}
    BY <1>1 DEF Threads, Places
  <1>3. "reader" \in Threads
    BY DEF Threads
  <1>4. TypeOK
    <2>1. hand \in [Threads -> 0..0]
      BY <1>1
    <2>2. 0 \in 0..OverflowAt /\ 0 \in 0..MaxDrops
      BY <1>1
    <2>3. at \in [Threads -> Closing \cup {"top", "reconnect", "open", "dial", "store", "flag", "take",
                                        "read", "ended", "dead", "idle", "load", "write",
                                        "run", "join", "stopped"}]
      BY <1>2 DEF Places
    <2>4. QED
      BY <1>1, <2>1, <2>2, <2>3 DEF TypeOK
  <1>5. Attempts /\ Dialled /\ Dropped
    BY <1>2, <1>3 DEF Attempts, Dialled, Dropped
  <1>6. SerNamesOpenPort
    BY <1>1 DEF SerNamesOpenPort
  <1>7. QED
    BY <1>4, <1>5, <1>6 DEF PortInv

LEMMA PortInvariant == Spec => []PortInv
  BY PortInit, PortStep, PTL DEF Spec

----
(* A step of the gateway is a step of its serial link, or leaves it alone.  *)
LEMMA GatewayStepMaps == [GatewayNext]_gateway => [Next]_vars
  <1> SUFFICES ASSUME [GatewayNext]_gateway PROVE [Next]_vars
    OBVIOUS
  <1>1. CASE Main
    BY <1>1 DEF Main, Start, WaitReturns, StopSerial, JoinLoops, CloseDatabase, MainGoes, Next
  <1>2. CASE Signal
    BY <1>2 DEF Signal
  <1>3. CASE UplinkLoop
    BY <1>3 DEF UplinkLoop, UplinkTest, PassRaises, UplinkRestarts, UplinkGoes
  <1>4. CASE DownlinkLoop
    BY <1>4 DEF DownlinkLoop, DownlinkTest, PollSends, PollSendSteps, PollReturns, DownlinkWaits,
                DownlinkGoes, Next
  <1>5. CASE Reader
    BY <1>5 DEF Reader, Next
  <1>6. CASE Device
    BY <1>6 DEF Device, Next
  <1>7. CASE UNCHANGED gateway
    BY <1>7 DEF gateway, vars
  <1>8. QED
    BY <1>1, <1>2, <1>3, <1>4, <1>5, <1>6, <1>7 DEF GatewayNext, AllEnded

SupervisorOK ==
    /\ stop \in BOOLEAN
    /\ phase \in {"start", "wait", "stop_serial", "join_loops", "close_store", "returned"}
    /\ up \in {"none", "test", "run", "raised", "ended"}
    /\ down \in {"none", "test", "run", "sleep", "ended"}

LEMMA SupervisorStep == SupervisorOK /\ [GatewayNext]_gateway => SupervisorOK'
  <1> SUFFICES ASSUME SupervisorOK, [GatewayNext]_gateway PROVE SupervisorOK'
    OBVIOUS
  <1> USE DEF SupervisorOK
  <1>1. CASE Main
    BY <1>1 DEF Main, Start, WaitReturns, StopSerial, JoinLoops, CloseDatabase, MainGoes
  <1>2. CASE Signal
    BY <1>2 DEF Signal
  <1>3. CASE UplinkLoop
    BY <1>3 DEF UplinkLoop, UplinkTest, PassRaises, UplinkRestarts, UplinkGoes
  <1>4. CASE DownlinkLoop
    BY <1>4 DEF DownlinkLoop, DownlinkTest, PollSends, PollSendSteps, PollReturns, DownlinkWaits,
                DownlinkGoes, supervisor
  <1>5. CASE Reader \/ Device
    BY <1>5 DEF Reader, Device, supervisor
  <1>6. CASE UNCHANGED gateway
    BY <1>6 DEF gateway
  <1>7. QED
    BY <1>1, <1>2, <1>3, <1>4, <1>5, <1>6 DEF GatewayNext, AllEnded

----
(* A gateway does to its port what SerialLink says and nothing else, so that *)
(* what is proved of SerialLink is so of a running gateway.                  *)
THEOREM GatewayRunsSerialLink == GatewaySpec => Spec
  <1>1. GatewayInit => Init
    BY DEF GatewayInit
  <1>2. QED
    BY <1>1, GatewayStepMaps, PTL DEF GatewaySpec, Spec

(* Whatever the threads, the device and a signal do, the port and the        *)
(* supervisor are in a state the code knows.                                 *)
THEOREM GatewayTypeCorrect == GatewaySpec => []GatewayTypeOK
  <1>1. GatewaySpec => []SupervisorOK
    <2>1. GatewayInit => SupervisorOK
      BY DEF GatewayInit, SupervisorOK
    <2>2. QED
      BY <2>1, SupervisorStep, PTL DEF GatewaySpec
  <1>2. PortInv /\ SupervisorOK => GatewayTypeOK
    BY DEF PortInv, SupervisorOK, GatewayTypeOK
  <1>3. QED
    BY <1>1, <1>2, PortInvariant, GatewayRunsSerialLink, PTL

(* SerialReader._ser never names a port that one of the three threads has    *)
(* closed: a _close that overlaps a reopen takes the new port away from the  *)
(* readers of _ser, and does not close it under them.                       *)
THEOREM SerStaysOpen == GatewaySpec => []SerNamesOpenPort
  <1>1. PortInv => SerNamesOpenPort
    BY DEF PortInv
  <1>2. QED
    BY <1>1, PortInvariant, GatewayRunsSerialLink, PTL
====
