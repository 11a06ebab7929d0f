---- MODULE Health ----
(***************************************************************************)
(* A GET of /health (health.py) beside the threads it reports on: do_GET,  *)
(* HealthState.snapshot with _safe around each section, and the reads of   *)
(* uplink.py and downlink.py it calls.                                     *)
(*                                                                         *)
(* The snapshot is not taken at once.  Its SELECTs run one by one on the   *)
(* shared connection, without the lock, and see the open transaction; and  *)
(* last_acks is iterated while the serial thread may add a key to it.  A   *)
(* request may also outlive the store: a handler's thread is not joined by *)
(* HealthServer.stop.                                                      *)
(***************************************************************************)
EXTENDS Ingest

VARIABLES
    closed,  \* Store.close was called
    req      \* the request: its next step and what it has gathered

vars == <<db, disk, serial, acks, closed, req>>

\* size: last_acks when its iteration began; given and errors: the sections the
\* snapshot holds so far, with their data and as {"error": ...}; code: the HTTP
\* status, 0 before it is sent.  unlisted and uncounted are history: of the rows
\* the database held when the request came, the fixes the answer shows no newer
\* one of the node for, and how many are not counted.
NotAsked == [at |-> "none", size |-> 0, given |-> {}, errors |-> {}, code |-> 0,
             unlisted |-> {}, uncounted |-> 0]

Steps    == {"none", "nodes", "total", "uplink", "downlink", "acks", "respond", "done"}
Sections == {"store", "uplink", "downlink"}

Request  == [at: Steps, size: Nat, given: SUBSET Sections, errors: SUBSET Sections,
             code: {0, 200, 500}, unlisted: SUBSET Fix, uncounted: Nat]

HealthTypeOK ==
    /\ TypeOK
    /\ closed \in BOOLEAN
    /\ req \in Request

HealthInit == IngestInit /\ closed = FALSE /\ req = NotAsked

----
\* Mutant: the newest row of a node is the one stored last.
LastStoredPerNode(t) ==
    {t[i].fix : i \in {k \in DOMAIN t : \A j \in DOMAIN t : t[j].fix.node = t[k].fix.node => j <= k}}

\* latest_per_node: the rows with their node's largest ts_ms, and of these the
\* one with the largest id.
LatestPerNode(t) ==
    {t[i].fix : i \in {k \in DOMAIN t : \A j \in DOMAIN t :
        t[j].fix.node = t[k].fix.node =>
            t[j].fix.ts < t[k].fix.ts \/ (t[j].fix.ts = t[k].fix.ts /\ j <= k)}}

Ask ==
    /\ req.at \in {"none", "done"}
    /\ req' = [NotAsked EXCEPT !.at = "nodes", !.unlisted = {disk.fixes[i].fix : i \in DOMAIN disk.fixes},
                              !.uncounted = Len(disk.fixes)]

\* Mutant: snapshot calls the sections without _safe, and do_GET answers 500.
FailedUnguarded(section) ==
    req' = [req EXCEPT !.at = "done", !.errors = @ \cup {section}, !.code = 500]

\* The section raised and _safe made it an error; the next one follows.  A store
\* section that failed reports nothing.
Failed(section) ==
    LET store == section = "store" IN
        req' = [req EXCEPT !.at = CASE store                 -> "uplink"
                                    [] section = "uplink"   -> "downlink"
                                    [] section = "downlink" -> "respond",
                           !.size = 0, !.errors = @ \cup {section},
                           !.unlisted = IF store THEN {} ELSE @,
                           !.uncounted = IF store THEN 0 ELSE @]

\* A SELECT raises: on a closed store each one does, and on an open one any may,
\* as when a rollback resets it before its rows are fetched.
SelectRaises(from, section) == req.at \in from /\ Failed(section)

\* _store_health: latest_per_node, then the counts.
ReadNodes ==
    /\ ~closed /\ req.at = "nodes"
    /\ LET listed == LatestPerNode(db.fixes) IN
           req' = [req EXCEPT !.at = "total",
                     !.unlisted = {f \in @ : ~\E g \in listed : g.node = f.node /\ g.ts >= f.ts}]

ReadTotal ==
    /\ ~closed /\ req.at = "total"
    /\ req' = [req EXCEPT !.at = "uplink", !.given = @ \cup {"store"},
                          !.uncounted = IF @ > Len(db.fixes) THEN @ - Len(db.fixes) ELSE 0]

StoreFails == SelectRaises({"nodes", "total"}, "store")

\* CloudUplinker.health: unsynced_count and dead_letter_count.
ReadBacklog ==
    /\ ~closed /\ req.at = "uplink"
    /\ req' = [req EXCEPT !.at = "downlink", !.given = @ \cup {"uplink"}]

UplinkHealth == ReadBacklog \/ SelectRaises({"uplink"}, "uplink")

\* CloudDownlinker.health iterates last_acks, which raises when a key was added
\* since it began.
IterateAcks ==
    /\ req.at = "downlink"
    /\ req' = [req EXCEPT !.at = "acks", !.size = Cardinality(acks)]

DownlinkHealth ==
    \/ /\ Cardinality(acks) = req.size /\ req.at = "acks"
       /\ req' = [req EXCEPT !.at = "respond", !.size = 0, !.given = @ \cup {"downlink"}]
    \/ Cardinality(acks) # req.size /\ req.at = "acks" /\ Failed("downlink")

Respond == req.at = "respond" /\ req' = [req EXCEPT !.at = "done", !.code = 200]

Serve == Ask \/ ReadNodes \/ ReadTotal \/ StoreFails \/ UplinkHealth
            \/ IterateAcks \/ DownlinkHealth \/ Respond

----
\* Store.close rolls the open transaction back.  Whatever the other threads try
\* on the closed connection raises and changes nothing.
Close ==
    /\ ~closed
    /\ closed' = TRUE
    /\ db' = disk
    /\ serial' = Idle
    /\ UNCHANGED <<disk, acks, req>>

Restart == Crash /\ closed' = FALSE /\ req' = NotAsked

HealthNext ==
    \/ Serve /\ UNCHANGED <<ingest, closed>>
    \/ ~closed /\ (OnFrame \/ OtherCommits) /\ UNCHANGED <<closed, req>>
    \/ Close
    \/ Restart

HealthSpec == HealthInit /\ [][HealthNext]_vars
----
(* A snapshot made of dirty reads at three moments never reports less than   *)
(* the database held when the request came: each row of it is counted and    *)
(* each node of it is listed, with a fix at least as new.                    *)
SnapshotComplete ==
    req.at = "done" /\ "store" \notin req.errors => req.unlisted = {} /\ req.uncounted = 0

(* No subsystem breaks /health ("one bad subsystem must not break /health"): *)
(* whichever SELECTs raise and whatever becomes of the store and of          *)
(* last_acks meanwhile, each answer is a 200 that holds every section, with  *)
(* its data or as an error, and a section that was read keeps its data       *)
(* whatever the sections after it do.                                        *)
AlwaysAnswers ==
    req.at = "done" =>
        /\ req.code = 200
        /\ req.given \cup req.errors = Sections
        /\ req.given \cap req.errors = {}
====
