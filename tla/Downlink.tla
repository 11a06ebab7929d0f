---- MODULE Downlink ----
(***************************************************************************)
(* The control plane: CloudDownlinker.poll_once (downlink.py) driven by    *)
(* Gateway._downlink_loop (main.py), the serial link it writes to          *)
(* (SerialReader.send and its reconnect, serial_io.py), the bench tool     *)
(* (base_control_reference.py), and the base node they program.            *)
(*                                                                         *)
(* A race configuration is one value: two configurations are equal exactly *)
(* when their fingerprints are, and the fingerprint takes in race_id and   *)
(* state, so different configurations may program the base alike.  send    *)
(* flushes the port, so a frame it wrote has reached the base when it      *)
(* returns.  ACKs only feed /health: no decision of the code reads them.   *)
(***************************************************************************)
EXTENDS Naturals, Sequences, FiniteSets

CONSTANTS
    Race,       \* configurations: records [name, timing, epoch, slotmap, armed]
    NoRace,     \* no active race; no cached fingerprint
    Unset,      \* what a base node that was never programmed has
    Unbuildable, \* configurations an encoder refuses, such as a slot map over 2048 bytes
    MaxFaults,  \* bound: link drops, restarts, reboots and bench sessions of an execution
    Faults      \* the faults of this instance

FaultKinds == {"drop", "restart", "reboot", "power_cycle", "bench", "cloud_down", "cache_undone",
               "revert"}

ASSUME DownlinkAssumption ==
    /\ NoRace \notin Race
    /\ \A r \in Race :
          /\ DOMAIN r = {"name", "timing", "epoch", "slotmap", "armed"}
          /\ r.armed \in BOOLEAN
          /\ Unset \notin {r.timing, r.epoch, r.slotmap}
    /\ Unbuildable \subseteq Race
    /\ MaxFaults \in Nat
    /\ Faults \subseteq FaultKinds

VARIABLES
    race,     \* what GET /race/current answers now
    past,     \* the configurations the cloud had before
    applied,  \* the fingerprint in downlink_state
    first,    \* _downlink_loop's flag: the next poll is forced
    poll,     \* the downlink thread: where it is, the race it fetched, frames sent
    link,     \* the port: open, stale (gone beneath an open handle) or closed
    base,     \* the configuration the base node runs
    bench,    \* a session of the bench tool: the race it arms, frames sent
    trust,    \* history: what happened to the base since the fingerprint was cached
    faults    \* counts the bounded faults

vars == <<race, past, applied, first, poll, link, base, bench, trust, faults>>

Timings  == {r.timing : r \in Race}
Epochs   == {r.epoch : r \in Race}
Slotmaps == {r.slotmap : r \in Race}

Config == [timing: Timings \cup {Unset}, epoch: Epochs \cup {Unset},
           slotmap: Slotmaps \cup {Unset}, armed: BOOLEAN]

\* A base node after it booted.
Booted == [timing |-> Unset, epoch |-> Unset, slotmap |-> Unset, armed |-> FALSE]

\* What a base node that got all four frames of r runs.
ConfigOf(r) == [timing |-> r.timing, epoch |-> r.epoch,
                slotmap |-> r.slotmap, armed |-> r.armed]

Waiting == [at |-> "wait", race |-> NoRace, sent |-> 0]
NoBench == [race |-> NoRace, sent |-> 0]

\* Of the base, since the fingerprint was cached: nothing was sent to it, or
\* frames of the gateway were, or it was also changed behind the gateway's back
\* (a reboot, the bench tool) after the last poll that sends had begun.
Trust == {"clean", "sent", "behind"}

TypeOK ==
    /\ race \in Race \cup {NoRace}
    /\ past \subseteq Race
    /\ applied \in Race \cup {NoRace}
    /\ first \in BOOLEAN
    /\ poll \in [at: {"wait", "send", "cache"}, race: Race \cup {NoRace}, sent: 0..4]
    /\ poll.at # "wait" => poll.race \in Race
    /\ link \in {"open", "stale", "closed"}
    /\ base \in Config
    /\ bench \in [race: Race \cup {NoRace}, sent: 0..3]
    /\ bench # NoBench => bench.race \in Race
    /\ trust \in Trust
    /\ faults \in 0..MaxFaults

Init ==
    /\ race = NoRace /\ past = {}
    /\ applied = NoRace
    /\ first = TRUE
    /\ poll = Waiting
    /\ link = "closed"
    /\ base = Booted
    /\ bench = NoBench
    /\ trust = "clean"
    /\ faults = 0

----
\* The operator arms, changes or ends the race in the cloud.
CloudChanges(r) ==
    /\ r # race
    /\ r \in past => "revert" \in Faults
    /\ race' = r
    /\ past' = past \cup ({race} \ {NoRace})
    /\ UNCHANGED <<applied, first, poll, link, base, bench, trust, faults>>

\* The request fails, or there is no race: nothing is done, and the loop's
\* first flag is spent all the same.
PollIdle ==
    /\ poll.at = "wait"
    /\ race = NoRace \/ "cloud_down" \in Faults
    /\ first' = FALSE
    /\ UNCHANGED <<race, past, applied, poll, link, base, bench, trust, faults>>

\* Mutant: the configuration sent is the cached one.
PollSendsCached ==
    /\ poll.at = "wait"
    /\ race # NoRace
    /\ race # applied \/ first
    /\ poll' = [at |-> "send", race |-> applied, sent |-> 0]
    /\ trust' = IF trust = "behind" THEN "sent" ELSE trust
    /\ UNCHANGED <<race, past, applied, first, link, base, bench, faults>>

\* The fingerprint differs from the cached one, or the poll is forced.  (When
\* neither holds poll_once answers "unchanged" and changes nothing.)
PollChanged ==
    /\ poll.at = "wait"
    /\ race \in Race \ Unbuildable
    /\ race # applied \/ first
    /\ poll' = [at |-> "send", race |-> race, sent |-> 0]
    /\ trust' = IF trust = "behind" THEN "sent" ELSE trust
    /\ UNCHANGED <<race, past, applied, first, link, base, bench, faults>>

\* An encoder raises, outside the try of poll_once: the loop logs it, and its
\* first flag is spent.
PollRaises ==
    /\ poll.at = "wait"
    /\ race \in Unbuildable
    /\ race # applied \/ first
    /\ first' = FALSE
    /\ UNCHANGED <<race, past, applied, poll, link, base, bench, trust, faults>>

\* Mutant: SET_ARMED leads.
ProgrammedArmedFirst(b, r, sent) ==
    CASE sent = 0 -> [b EXCEPT !.armed = r.armed]
      [] sent = 1 -> [b EXCEPT !.timing = r.timing]
      [] sent = 2 -> [b EXCEPT !.epoch = r.epoch]
      [] sent = 3 -> [b EXCEPT !.slotmap = r.slotmap]

\* The base node after the next frame of poll.race, in contractual order.
Programmed(b, r, sent) ==
    CASE sent = 0 -> [b EXCEPT !.timing = r.timing]
      [] sent = 1 -> [b EXCEPT !.epoch = r.epoch]
      [] sent = 2 -> [b EXCEPT !.slotmap = r.slotmap]
      [] sent = 3 -> [b EXCEPT !.armed = r.armed]

SendFrame ==
    /\ poll.at = "send"
    /\ link = "open"
    /\ base' = Programmed(base, poll.race, poll.sent)
    /\ poll' = [poll EXCEPT !.sent = @ + 1, !.at = IF poll.sent = 3 THEN "cache" ELSE "send"]
    /\ trust' = IF trust = "behind" THEN "behind" ELSE "sent"
    /\ UNCHANGED <<race, past, applied, first, link, bench, faults>>

\* Mutant: a failed send advances the cache too.
SendRaisesAdvances ==
    /\ poll.at = "send"
    /\ link # "open"
    /\ link' \in {link, "closed"}
    /\ applied' = poll.race
    /\ poll' = Waiting
    /\ first' = FALSE
    /\ UNCHANGED <<race, past, base, bench, trust, faults>>

\* send raises: not connected, or the write fails and closes the port (or, on
\* a half-valid handle, raises what send does not catch and leaves it).
SendRaises ==
    /\ poll.at = "send"
    /\ link # "open"
    /\ link' \in {link, "closed"}
    /\ poll' = Waiting
    /\ first' = FALSE
    /\ UNCHANGED <<race, past, applied, base, bench, trust, faults>>

\* Mutant: what the cloud answers now is cached, not what was sent.
StoreFingerprintOfCurrent ==
    /\ poll.at = "cache"
    /\ applied' = race
    /\ trust' = IF trust = "behind" THEN "behind" ELSE "clean"
    /\ poll' = Waiting
    /\ first' = FALSE
    /\ UNCHANGED <<race, past, link, base, bench, faults>>

\* All four frames were sent: the fingerprint is cached.
StoreFingerprint ==
    /\ poll.at = "cache"
    /\ applied' = poll.race
    /\ trust' = IF trust = "behind" THEN "behind" ELSE "clean"
    /\ poll' = Waiting
    /\ first' = FALSE
    /\ UNCHANGED <<race, past, link, base, bench, faults>>

\* The write of the cache raises, or a rollback of insert_fix on the shared
\* connection undoes it before its commit.  (A commit that raises leaves the
\* write in the open transaction, where the next poll reads it and the next
\* commit keeps it: StoreFingerprint.)
FingerprintUndone ==
    /\ "cache_undone" \in Faults
    /\ poll.at = "cache"
    /\ poll' = Waiting
    /\ first' = FALSE
    /\ UNCHANGED <<race, past, applied, link, base, bench, trust, faults>>

----
(* The serial reader's thread and the hardware.                             *)

\* The reader's read fails on the handle of a device that is gone.
ReaderCloses ==
    /\ link = "stale"
    /\ link' = "closed"
    /\ UNCHANGED <<race, past, applied, first, poll, base, bench, trust, faults>>

Reconnect ==
    /\ link = "closed"
    /\ link' = "open"
    /\ UNCHANGED <<race, past, applied, first, poll, base, bench, trust, faults>>

Fault(kind) ==
    /\ kind \in Faults
    /\ faults < MaxFaults
    /\ faults' = faults + 1

\* The device re-enumerates, under the bench tool's port too; the base node
\* keeps its configuration.
LinkDrops ==
    /\ Fault("drop")
    /\ link = "open"
    /\ link' = "stale"
    /\ bench' = NoBench
    /\ UNCHANGED <<race, past, applied, first, poll, base, trust>>

\* The base node loses power, and with it its configuration and its port.
BaseReboots ==
    /\ Fault("reboot")
    /\ base' = Booted
    /\ trust' = "behind"
    /\ link' = IF link = "open" THEN "stale" ELSE link
    /\ bench' = NoBench
    /\ UNCHANGED <<race, past, applied, first, poll>>

\* The gateway process dies and is started again on the same database.
GatewayRestarts ==
    /\ Fault("restart")
    /\ poll' = Waiting
    /\ first' = TRUE
    /\ link' = "closed"
    /\ UNCHANGED <<race, past, applied, base, bench, trust>>

\* The mains fail and return: both come up afresh, the base node first.
PowerCycle ==
    /\ Fault("power_cycle")
    /\ base' = Booted
    /\ trust' = "behind"
    /\ poll' = Waiting
    /\ first' = TRUE
    /\ link' = "closed"
    /\ bench' = NoBench
    /\ UNCHANGED <<race, past, applied>>

----
(* The bench tool, a process of its own that knows nothing of the cache.    *)

\* The arm command, which always ends in SET_ARMED(1).
BenchArms(r) ==
    /\ Fault("bench")
    /\ r.armed
    /\ bench = NoBench
    /\ base' = Programmed(base, r, 0)
    /\ bench' = [race |-> r, sent |-> 1]
    /\ trust' = "behind"
    /\ UNCHANGED <<race, past, applied, first, poll, link>>

BenchSends ==
    /\ bench # NoBench
    /\ base' = Programmed(base, bench.race, bench.sent)
    /\ bench' = IF bench.sent = 3 THEN NoBench ELSE [bench EXCEPT !.sent = @ + 1]
    /\ trust' = "behind"
    /\ UNCHANGED <<race, past, applied, first, poll, link, faults>>

BenchDisarms ==
    /\ Fault("bench")
    /\ bench = NoBench
    /\ base' = [base EXCEPT !.armed = FALSE]
    /\ trust' = "behind"
    /\ UNCHANGED <<race, past, applied, first, poll, link, bench>>

PollStep == PollChanged \/ SendFrame \/ SendRaises \/ StoreFingerprint

Next ==
    \/ \E r \in Race \cup {NoRace} : CloudChanges(r)
    \/ PollIdle
    \/ PollRaises
    \/ PollStep
    \/ FingerprintUndone
    \/ ReaderCloses
    \/ Reconnect
    \/ LinkDrops
    \/ BaseReboots
    \/ GatewayRestarts
    \/ PowerCycle
    \/ \E r \in Race : BenchArms(r)
    \/ BenchSends
    \/ BenchDisarms

\* The loop polls for ever, the reader reopens the port, a cloud that is asked
\* again and again answers, and a cache written again and again is kept.
Fairness ==
    /\ SF_vars(PollChanged)
    /\ WF_vars(SendFrame \/ SendRaises)
    /\ SF_vars(StoreFingerprint)
    /\ WF_vars(Reconnect)
    /\ WF_vars(ReaderCloses)

Spec     == Init /\ [][Next]_vars
FairSpec == Spec /\ Fairness
----
(* The cache tells the truth: whatever faults there are, the base node runs *)
(* the configuration the cache names, unless frames of a poll that did not   *)
(* end in the cache were sent since or it was changed behind the gateway's   *)
(* back during the last poll or after it.                                   *)
CacheHonest ==
    trust = "clean" /\ applied # NoRace => base = ConfigOf(applied)

(* Arming last: whenever a poll takes the base node from disarmed to armed   *)
(* it has the geometry, time anchor and slots of the configuration that arms *)
(* it, whatever was sent in part, sent again, lost in a reboot or overwritten *)
(* by the bench tool before that poll.                                      *)
ArmingStep ==
    ~base.armed /\ base'.armed /\ trust' # "behind" =>
        \E r \in Race : r.armed /\ base' = ConfigOf(r)
ArmingConsistent == [][ArmingStep]_vars

(* The base node converges: if the cloud settles on a configuration the base *)
(* node comes to run it and keeps it.                                        *)
Converges ==
    \A r \in Race : <>[](race = r) => <>[](base = ConfigOf(r))

\* The next poll will answer "unchanged", although the base was touched since
\* the fingerprint was cached.
Unaware == applied = race /\ ~first /\ trust # "clean"

(* Whatever faults there are, the only way not to converge is to be unaware: *)
(* a poll that failed on the way, a restart, a reboot or the bench tool can   *)
(* leave the base wrong for good only if the cache names the configuration   *)
(* the cloud settled on from before and the forced poll is spent.            *)
ConvergesUnlessUnaware ==
    \A r \in Race \ Unbuildable :
        <>[](race = r) => <>[](base = ConfigOf(r) \/ Unaware)

(* A change heals: once the faults are over, a configuration the cache does  *)
(* not name yet is programmed, whatever the base node and the link had gone  *)
(* through, unless the cloud changes it again first.                         *)
ChangeHeals ==
    \A r \in Race \ Unbuildable :
        (/\ race = r /\ applied # r
         /\ poll.at = "wait" /\ bench = NoBench /\ faults = MaxFaults)
            ~> (race # r \/ base = ConfigOf(r))
====
