---- MODULE DownlinkProofs ----
(***************************************************************************)
(* Safety of the control plane for every set of configurations, every      *)
(* bound and every set of faults.                                          *)
(***************************************************************************)
EXTENDS Downlink, TLAPS

LEMMA RaceFields ==
    ASSUME NEW r \in Race
    PROVE  /\ r.timing \in Timings /\ r.epoch \in Epochs /\ r.slotmap \in Slotmaps
           /\ r.armed \in BOOLEAN
           /\ r # NoRace
           /\ ConfigOf(r) \in Config
<1>1. r.timing \in Timings /\ r.epoch \in Epochs /\ r.slotmap \in Slotmaps
  BY DEF Timings, Epochs, Slotmaps
<1>2. r.armed \in BOOLEAN /\ r # NoRace
  BY DownlinkAssumption
<1> QED
  BY <1>1, <1>2 DEF ConfigOf, Config

(* One frame sets one field of the base node's configuration.               *)
LEMMA ProgrammedFields ==
    ASSUME NEW b \in Config, NEW r \in Race, NEW sent \in 0..3
    PROVE  /\ Programmed(b, r, sent) \in Config
           /\ Programmed(b, r, sent).timing = IF sent = 0 THEN r.timing ELSE b.timing
           /\ Programmed(b, r, sent).epoch = IF sent = 1 THEN r.epoch ELSE b.epoch
           /\ Programmed(b, r, sent).slotmap = IF sent = 2 THEN r.slotmap ELSE b.slotmap
           /\ Programmed(b, r, sent).armed = IF sent = 3 THEN r.armed ELSE b.armed
<1> USE RaceFields DEF Config, Programmed
<1>1. CASE sent = 0
  BY <1>1
<1>2. CASE sent = 1
  BY <1>2
<1>3. CASE sent = 2
  BY <1>3
<1>4. CASE sent = 3
  BY <1>4
<1> QED
  BY <1>1, <1>2, <1>3, <1>4

(* The thread's counter agrees with where it is.                            *)
CounterInv ==
    /\ poll.at = "send" => poll.sent \in 0..3
    /\ poll.at = "cache" => poll.sent = 4

LEMMA ControlInit == Init => TypeOK /\ CounterInv
<1> SUFFICES ASSUME Init PROVE TypeOK /\ CounterInv
  OBVIOUS
<1>1. /\ Waiting \in [at: {"wait", "send", "cache"}, race: Race \cup {NoRace}, sent: 0..4]
      /\ Waiting.at = "wait"
  BY DEF Waiting
<1>2. Booted \in Config /\ NoBench \in [race: Race \cup {NoRace}, sent: 0..3]
  BY DEF Booted, Config, NoBench
<1>3. 0 \in 0..MaxFaults
  BY DownlinkAssumption
<1>4. CounterInv
  BY <1>1 DEF Init, CounterInv
<1>5. TypeOK
  BY <1>1, <1>2, <1>3 DEF Init, TypeOK, Trust
<1> QED
  BY <1>4, <1>5

LEMMA ControlStep == TypeOK /\ CounterInv /\ [Next]_vars => TypeOK' /\ CounterInv'
<1> SUFFICES ASSUME TypeOK, CounterInv, [Next]_vars PROVE TypeOK' /\ CounterInv'
  OBVIOUS
<1> USE DEF TypeOK, CounterInv, Trust
<1>1. /\ Waiting \in [at: {"wait", "send", "cache"}, race: Race \cup {NoRace}, sent: 0..4]
      /\ Waiting.at = "wait" /\ Booted \in Config
      /\ NoBench \in [race: Race \cup {NoRace}, sent: 0..3]
  BY DEF Waiting, Booted, Config, NoBench
<1>2. ASSUME NEW r \in Race \cup {NoRace}, CloudChanges(r) PROVE TypeOK' /\ CounterInv'
  BY <1>2 DEF CloudChanges
<1>3. CASE PollIdle
  BY <1>3 DEF PollIdle
<1>4. CASE PollChanged
  BY <1>4 DEF PollChanged
<1>5. CASE SendFrame
  <2>1. poll.race \in Race /\ poll.sent \in 0..3
    BY <1>5 DEF SendFrame
  <2>2. base' \in Config
    BY <1>5, <2>1, ProgrammedFields DEF SendFrame
  <2>3. /\ poll'.at = IF poll.sent = 3 THEN "cache" ELSE "send"
        /\ poll'.race = poll.race
        /\ poll'.sent = poll.sent + 1
        /\ poll' \in [at: {"wait", "send", "cache"}, race: Race \cup {NoRace}, sent: 0..4]
    <3>1. poll' = [poll EXCEPT !.sent = poll.sent + 1,
                               !.at = IF poll.sent = 3 THEN "cache" ELSE "send"]
      BY <1>5 DEF SendFrame
    <3>2. /\ poll \in [at: {"wait", "send", "cache"}, race: Race \cup {NoRace}, sent: 0..4]
          /\ poll.sent + 1 \in 0..4
      BY <2>1
    <3>3. (IF poll.sent = 3 THEN "cache" ELSE "send") \in {"wait", "send", "cache"}
      OBVIOUS
    <3> HIDE DEF TypeOK, CounterInv
    <3> QED
      BY <3>1, <3>2, <3>3
  <2> QED
    BY <1>5, <2>1, <2>2, <2>3 DEF SendFrame
<1>6. CASE SendRaises
  BY <1>1, <1>6 DEF SendRaises
<1>7. CASE StoreFingerprint
  BY <1>1, <1>7 DEF StoreFingerprint
<1>8. CASE FingerprintUndone
  BY <1>1, <1>8 DEF FingerprintUndone
<1>9. CASE ReaderCloses \/ Reconnect
  BY <1>9 DEF ReaderCloses, Reconnect
<1>10. ASSUME NEW kind, Fault(kind) PROVE faults' \in 0..MaxFaults
  BY <1>10, DownlinkAssumption DEF Fault
<1>11. CASE LinkDrops
  BY <1>1, <1>10, <1>11 DEF LinkDrops
<1>12. CASE BaseReboots
  BY <1>1, <1>10, <1>12 DEF BaseReboots
<1>13. CASE GatewayRestarts
  BY <1>1, <1>10, <1>13 DEF GatewayRestarts
<1>14. CASE PowerCycle
  BY <1>1, <1>10, <1>14 DEF PowerCycle
<1>15. CASE PollRaises
  BY <1>15 DEF PollRaises
<1>16. ASSUME NEW r \in Race, BenchArms(r) PROVE TypeOK' /\ CounterInv'
  <2>1. base' \in Config
    BY <1>16, ProgrammedFields DEF BenchArms
  <2>2. bench' = [race |-> r, sent |-> 1] /\ bench' # NoBench
    BY <1>16 DEF BenchArms, NoBench
  <2> QED
    BY <1>10, <1>16, <2>1, <2>2 DEF BenchArms
<1>17. CASE BenchSends
  <2>1. bench.race \in Race /\ bench.sent \in 0..3 /\ bench # NoBench
    BY <1>17 DEF BenchSends
  <2>2. base' \in Config
    BY <1>17, <2>1, ProgrammedFields DEF BenchSends
  <2>3. bench' = IF bench.sent = 3 THEN NoBench ELSE [bench EXCEPT !.sent = bench.sent + 1]
    BY <1>17 DEF BenchSends
  <2>4. CASE bench.sent = 3
    BY <1>17, <2>2, <2>3, <2>4 DEF BenchSends, NoBench
  <2>5. CASE bench.sent # 3
    <3>1. /\ bench' \in [race: Race \cup {NoRace}, sent: 0..3]
          /\ bench'.race \in Race
      BY <2>1, <2>3, <2>5
    <3> QED
      BY <1>17, <2>2, <3>1 DEF BenchSends
  <2> QED
    BY <2>4, <2>5
<1>18. CASE BenchDisarms
  <2>1. base' \in Config
    BY <1>18 DEF BenchDisarms, Config
  <2> QED
    BY <1>10, <1>18, <2>1 DEF BenchDisarms
<1>19. CASE UNCHANGED vars
  BY <1>19 DEF vars
<1> QED
  BY <1>2, <1>3, <1>4, <1>5, <1>6, <1>7, <1>8, <1>9, <1>11, <1>12, <1>13, <1>14, <1>15,
     <1>16, <1>17, <1>18, <1>19
  DEF Next, PollStep

(* The control plane's variables stay well formed under every fault.        *)
THEOREM DownlinkTypeCorrect == Spec => []TypeOK
  BY ControlInit, ControlStep, PTL DEF Spec

----
(* What makes CacheHonest inductive: unless it was changed behind the        *)
(* gateway's back during this poll, of the four fields of the base node the  *)
(* frames sent so far of the poll are those of the race being sent.         *)
SentInv ==
    poll.at \in {"send", "cache"} /\ trust # "behind" =>
        /\ poll.sent >= 1 => base.timing = poll.race.timing
        /\ poll.sent >= 2 => base.epoch = poll.race.epoch
        /\ poll.sent >= 3 => base.slotmap = poll.race.slotmap
        /\ poll.sent >= 4 => base.armed = poll.race.armed

ControlInv == TypeOK /\ CounterInv /\ SentInv /\ CacheHonest

\* Four fields make a configuration.
LEMMA ConfigEquality ==
    ASSUME NEW b \in Config, NEW r \in Race,
           b.timing = r.timing, b.epoch = r.epoch,
           b.slotmap = r.slotmap, b.armed = r.armed
    PROVE  b = ConfigOf(r)
  BY DEF Config, ConfigOf

LEMMA SendFrameFields ==
    ASSUME TypeOK, CounterInv, SendFrame
    PROVE  /\ poll.at = "send" /\ poll.race \in Race /\ poll.sent \in 0..3
           /\ poll'.race = poll.race /\ poll'.sent = poll.sent + 1
           /\ base' \in Config
           /\ base'.timing = IF poll.sent = 0 THEN poll.race.timing ELSE base.timing
           /\ base'.epoch = IF poll.sent = 1 THEN poll.race.epoch ELSE base.epoch
           /\ base'.slotmap = IF poll.sent = 2 THEN poll.race.slotmap ELSE base.slotmap
           /\ base'.armed = IF poll.sent = 3 THEN poll.race.armed ELSE base.armed
<1>1. /\ poll.race \in Race /\ poll.sent \in 0..3 /\ base \in Config
      /\ base' = Programmed(base, poll.race, poll.sent)
  BY DEF TypeOK, CounterInv, SendFrame
<1>2. poll'.race = poll.race /\ poll'.sent = poll.sent + 1 /\ poll.at = "send"
  BY DEF TypeOK, SendFrame
<1> QED
  BY <1>1, <1>2, ProgrammedFields, ZenonT(60)

LEMMA SentStep == ControlInv /\ [Next]_vars => SentInv'
<1> SUFFICES ASSUME ControlInv, [Next]_vars PROVE SentInv'
  OBVIOUS
<1> USE DEF ControlInv, TypeOK, CounterInv, SentInv
<1>1. CASE UNCHANGED <<poll, base, trust>>
  BY <1>1
<1>2. CASE PollChanged
  BY <1>2 DEF PollChanged
<1>3. CASE SendFrame
  <2>1. trust' = IF trust = "behind" THEN "behind" ELSE "sent"
    BY <1>3 DEF SendFrame
  <2> QED
    BY <1>3, <2>1, SendFrameFields
<1>4. CASE poll' = Waiting
  BY <1>4 DEF Waiting
<1>5. CASE trust' = "behind"
  BY <1>5
<1> HIDE DEF ControlInv, TypeOK, CounterInv, SentInv
<1> QED
  BY <1>1, <1>2, <1>3, <1>4, <1>5
  DEF Next, PollStep, vars, CloudChanges, PollIdle, PollRaises, SendRaises, StoreFingerprint,
      FingerprintUndone, ReaderCloses, Reconnect, Fault, LinkDrops, BaseReboots,
      GatewayRestarts, PowerCycle, BenchArms, BenchSends, BenchDisarms

LEMMA CacheStep == ControlInv /\ [Next]_vars => CacheHonest'
<1> SUFFICES ASSUME ControlInv, [Next]_vars PROVE CacheHonest'
  OBVIOUS
<1> USE DEF ControlInv, TypeOK, CounterInv, CacheHonest
<1>1. CASE UNCHANGED <<applied, base, trust>>
  BY <1>1
<1>2. CASE SendFrame
  BY <1>2 DEF SendFrame
<1>3. CASE StoreFingerprint
  <2>1. poll.race \in Race /\ poll.sent = 4 /\ base' = base /\ applied' = poll.race
    BY <1>3 DEF StoreFingerprint
  <2>2. CASE trust # "behind"
    <3>1. base = ConfigOf(poll.race)
      BY <1>3, <2>1, <2>2, ConfigEquality DEF SentInv, StoreFingerprint
    <3> QED
      BY <2>1, <3>1
  <2>3. CASE trust = "behind"
    BY <1>3, <2>3 DEF StoreFingerprint
  <2> QED
    BY <2>2, <2>3
<1>4. CASE PollChanged
  BY <1>4 DEF PollChanged
<1>5. CASE trust' = "behind"
  BY <1>5
<1> QED
  BY <1>1, <1>2, <1>3, <1>4, <1>5
  DEF Next, PollStep, vars, CloudChanges, PollIdle, PollRaises, SendRaises,
      FingerprintUndone, ReaderCloses, Reconnect, Fault, LinkDrops, BaseReboots,
      GatewayRestarts, PowerCycle, BenchArms, BenchSends, BenchDisarms

LEMMA ControlInvariant == Spec => []ControlInv
<1>1. Init => ControlInv
  BY ControlInit DEF Init, ControlInv, SentInv, CacheHonest, Waiting
<1>2. ControlInv /\ [Next]_vars => ControlInv'
  BY ControlStep, SentStep, CacheStep DEF ControlInv
<1> QED
  BY <1>1, <1>2, PTL DEF Spec

(* The cache is honest about every base node nobody touched since it was     *)
(* written, over any number of races, link drops, gateway restarts, undone  *)
(* cache writes, reboots and sessions of the bench tool.                    *)
THEOREM CacheIsHonest == Spec => []CacheHonest
<1>1. ControlInv => CacheHonest
  BY DEF ControlInv
<1> QED
  BY <1>1, ControlInvariant, PTL

(* No poll arms the base node on a mixed or missing configuration, unless   *)
(* the base node reboots or the bench tool writes to it during that poll:   *)
(* the other frames of the race that arms it came first.                    *)
THEOREM ArmedLast == Spec => ArmingConsistent
<1>1. ControlInv /\ [Next]_vars => [ArmingStep]_vars
  <2> SUFFICES ASSUME ControlInv, [Next]_vars PROVE ArmingStep
    OBVIOUS
  <2>0. TypeOK /\ CounterInv /\ SentInv
    BY DEF ControlInv
  <2>1. CASE base' = base \/ trust' = "behind"
    BY <2>1 DEF ArmingStep
  <2>2. CASE SendFrame
    <3>0. trust' # "behind" => trust # "behind"
      BY <2>2 DEF SendFrame
    <3>1. CASE poll.sent = 3 /\ trust # "behind"
      <4>1. /\ base.timing = poll.race.timing /\ base.epoch = poll.race.epoch
            /\ base.slotmap = poll.race.slotmap
        BY <2>0, <2>2, <3>1, SendFrameFields DEF SentInv
      <4>2. /\ poll.race \in Race /\ base' \in Config
            /\ base'.timing = poll.race.timing /\ base'.epoch = poll.race.epoch
            /\ base'.slotmap = poll.race.slotmap /\ base'.armed = poll.race.armed
        BY <2>0, <2>2, <3>1, <4>1, SendFrameFields
      <4>3. base' = ConfigOf(poll.race)
        BY <4>2, ConfigEquality
      <4> QED
        BY <4>2, <4>3 DEF ArmingStep
    <3>2. CASE poll.sent # 3
      BY <2>0, <2>2, <3>2, SendFrameFields DEF ArmingStep
    <3> QED
      BY <3>0, <3>1, <3>2 DEF ArmingStep
  <2> QED
    BY <2>1, <2>2
    DEF Next, PollStep, vars, CloudChanges, PollIdle, PollRaises, PollChanged, SendRaises,
        StoreFingerprint, FingerprintUndone, ReaderCloses, Reconnect, Fault, LinkDrops,
        BaseReboots, GatewayRestarts, PowerCycle, BenchArms, BenchSends, BenchDisarms
<1> QED
  BY <1>1, ControlInvariant, PTL DEF Spec, ArmingConsistent
====
