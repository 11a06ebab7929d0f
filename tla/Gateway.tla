---- MODULE Gateway ----
(***************************************************************************)
(* Gateway (main.py): the supervisor of the threads of one process.  The    *)
(* main thread starts them, waits for a signal and shuts them down; the     *)
(* serial reader, the sends of the downlink thread and stop are those of    *)
(* SerialLink.  What the uplink and downlink threads do to the store and    *)
(* the base node is in Uplink and Downlink; here a pass or a poll is a      *)
(* stretch of time in which their thread may raise or use the port.  The    *)
(* health server has no part in it: errors of its start and its stop are    *)
(* caught, and neither blocks.                                              *)
(*                                                                         *)
(* The threads are daemons and go on after shutdown has returned, for as    *)
(* long as the process lives.                                               *)
(***************************************************************************)
EXTENDS SerialLink

VARIABLES
    stop,    \* Gateway.stop_event
    phase,   \* the main thread: the next call it makes
    up,      \* the uplink thread
    down     \* the downlink thread

supervisor == <<stop, phase, up, down>>
gateway    == <<ser, connected, at, hand, pinned, attempt, opened, open, live, dev, drops,
                stop, phase, up, down>>

GatewayTypeOK ==
    /\ TypeOK
    /\ stop \in BOOLEAN
    /\ phase \in {"start", "wait", "stop_serial", "join_loops", "close_store", "returned"}
    /\ up \in {"none", "test", "run", "raised", "ended"}
    /\ down \in {"none", "test", "run", "sleep", "ended"}

GatewayInit ==
    /\ Init
    /\ stop = FALSE
    /\ phase = "start"
    /\ up = "none" /\ down = "none"

----
(* The main thread: start, wait, shutdown.                                  *)

MainGoes(from, to) == phase = from /\ phase' = to /\ UNCHANGED <<vars, stop>>

\* A thread that was started need not have run yet: one action starts the three.
Start == MainGoes("start", "wait") /\ up' = "test" /\ down' = "test"

WaitReturns == stop /\ MainGoes("wait", "stop_serial") /\ UNCHANGED <<up, down>>

\* The handlers are installed before start, so a signal may come during it.
Signal ==
    /\ ~stop
    /\ stop' = TRUE
    /\ UNCHANGED <<vars, phase, up, down>>

\* serial.stop: the steps of SerialLink's main thread, its join included.
StopSerial ==
    /\ phase = "stop_serial"
    /\ Stop \/ MainStep
    /\ phase' = IF at'["main"] = "stopped" THEN "join_loops" ELSE phase
    /\ UNCHANGED <<stop, up, down>>

\* Mutant: the joins have no timeout.
JoinLoopsWaits ==
    up = "ended" /\ down = "ended" /\ MainGoes("join_loops", "close_store") /\ UNCHANGED <<up, down>>

\* Each join returns when its thread has ended, or after three seconds.
JoinLoops == MainGoes("join_loops", "close_store") /\ UNCHANGED <<up, down>>

\* Store.close, which also rolls back the open transaction.
CloseDatabase == MainGoes("close_store", "returned") /\ UNCHANGED <<up, down>>

Main == Start \/ WaitReturns \/ StopSerial \/ JoinLoops \/ CloseDatabase

----
(* The uplink thread: _supervised around run_forever, which makes passes    *)
(* and sleeps without a look at the stop event.                             *)

UplinkGoes(from, to) == up = from /\ up' = to /\ UNCHANGED <<vars, stop, phase, down>>

UplinkTest == UplinkGoes("test", IF stop THEN "ended" ELSE "run")

\* A pass raises: any may, and on the closed store each one does.
PassRaises == UplinkGoes("run", "raised")

\* Mutant: a loop that raised is not started again.
UplinkGivesUp == UplinkGoes("raised", "ended")

\* stop_event.wait(restart_delay): the event ends the thread, the delay
\* restarts the loop.
UplinkRestarts == UplinkGoes("raised", IF stop THEN "ended" ELSE "test")

UplinkLoop == UplinkTest \/ PassRaises \/ UplinkRestarts

----
(* The downlink thread: _supervised around _downlink_loop, which lets no    *)
(* exception of a poll out.                                                 *)

DownlinkGoes(from, to) == down = from /\ down' = to /\ UNCHANGED <<vars, stop, phase, up>>

DownlinkTest == DownlinkGoes("test", IF stop THEN "ended" ELSE "run")

\* A frame of a poll is sent.
PollSends     == down = "run" /\ Send /\ UNCHANGED supervisor
PollSendSteps == down = "run" /\ SenderStep /\ UNCHANGED supervisor

\* The poll returns or raises.
PollReturns == at["sender"] = "idle" /\ DownlinkGoes("run", "sleep")

\* stop_event.wait(downlink_interval_s), and the test of the loop.
DownlinkWaits == DownlinkGoes("sleep", IF stop THEN "ended" ELSE "run")

DownlinkLoop == DownlinkTest \/ PollSends \/ PollSendSteps \/ PollReturns \/ DownlinkWaits

----
Reader == phase # "start" /\ ReaderStep /\ UNCHANGED supervisor

Device ==
    /\ DeviceDrops \/ (\E path \in Names : DeviceReturns(path))
    /\ UNCHANGED supervisor

\* Everything has ended: nothing is left to do.
AllEnded ==
    /\ at["reader"] \in {"ended", "dead"} /\ up = "ended" /\ down = "ended" /\ phase = "returned"
    /\ UNCHANGED gateway

GatewayNext == Main \/ Signal \/ UplinkLoop \/ DownlinkLoop \/ Reader \/ Device \/ AllEnded

\* Every thread is scheduled.  A poll sends four frames at most, so it ends; a
\* pass on a closed connection raises at its first statement.
GatewayFairness ==
    /\ WF_gateway(Main)
    /\ WF_gateway(Reader)
    /\ WF_gateway(UplinkTest \/ UplinkRestarts)
    /\ WF_gateway(phase = "returned" /\ PassRaises)
    /\ WF_gateway(DownlinkTest \/ DownlinkWaits)
    /\ WF_gateway(PollSendSteps)
    /\ SF_gateway(PollReturns)

GatewaySpec == GatewayInit /\ [][GatewayNext]_gateway /\ GatewayFairness
----
(* A shutdown comes to its end: no thread that is asleep, blocked on the     *)
(* port or in a long outage of the cloud keeps the main thread from closing *)
(* the store, and nothing survives it: the uplink loop, which never looks   *)
(* at the stop event, is brought down by the store closed beneath it, and   *)
(* _supervised does not start it again.                                     *)
ShutdownEnds == stop ~> (phase = "returned" /\ up = "ended" /\ down = "ended")

(* Crash isolation: an uplink loop that raised runs again, unless the        *)
(* gateway is being stopped.                                                *)
Restarted == up = "raised" ~> (up = "run" \/ stop)
====
