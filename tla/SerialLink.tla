---- MODULE SerialLink ----
(***************************************************************************)
(* SerialReader (serial_io.py): the port of the base node as three threads *)
(* share it.  The reader thread runs poll_once for ever and reopens the    *)
(* port, the downlink thread calls send, the main thread calls stop.       *)
(*                                                                         *)
(* Only the write in send holds a lock; _ser and connected are read and    *)
(* assigned without one, and each of the three threads may run _close, so  *)
(* an action is one read or assignment of a shared attribute or one call   *)
(* on the port.  A port object is a number, and 0 is None.  What is read   *)
(* off the port is not modelled here.                                      *)
(***************************************************************************)
EXTENDS Naturals

CONSTANTS
    Names,       \* the paths the device can have: /dev/ttyACM0, /dev/ttyACM1, ...
    NoName,      \* no device, no path known
    Configured,  \* serial_port of the configuration; NoName to auto-detect
    OverflowAt,  \* the attempt at which 2 ** attempt is too large for a float
    MaxDrops     \* bound: how often the device goes away

ASSUME SerialLinkAssumption ==
    /\ NoName \notin Names
    /\ Configured \in Names \cup {NoName}
    /\ OverflowAt \in Nat \ {0}
    /\ MaxDrops \in Nat

Threads == {"reader", "sender", "main"}
Closing == {"close_flag", "close_load", "close_store", "close_port"}

VARIABLES
    ser,        \* self._ser
    connected,  \* self.connected
    at,         \* where each thread is
    hand,       \* each thread's local reference to a port
    pinned,     \* self.port: the path the reader opens
    attempt,    \* the reader's attempts to reopen
    opened,     \* ports opened so far: 1..opened
    open,       \* ports not closed by this process
    live,       \* ports whose device is still there
    dev,        \* the device's path while it is plugged in and powered
    drops       \* counts the bounded drops

vars == <<ser, connected, at, hand, pinned, attempt, opened, open, live, dev, drops>>

TypeOK ==
    /\ ser \in 0..opened
    /\ connected \in BOOLEAN
    /\ at \in [Threads -> Closing \cup {"top", "reconnect", "open", "dial", "store", "flag", "take",
                                        "read", "ended", "dead", "idle", "load", "write",
                                        "run", "join", "stopped"}]
    /\ hand \in [Threads -> 0..opened]
    /\ pinned \in Names \cup {NoName}
    /\ attempt \in 0..OverflowAt
    /\ opened \in Nat
    /\ open \subseteq 1..opened
    /\ live \subseteq open
    /\ dev \in Names \cup {NoName}
    /\ drops \in 0..MaxDrops

Init ==
    /\ ser = 0 /\ connected = FALSE
    /\ at = [reader |-> "top", sender |-> "idle", main |-> "run"]
    /\ hand = [t \in Threads |-> 0]
    /\ pinned = Configured
    /\ attempt = 0
    /\ opened = 0 /\ open = {} /\ live = {}
    /\ dev \in Names \cup {NoName}
    /\ drops = 0

Stopping == at["main"] # "run"

port   == <<ser, connected>>
retry  == <<pinned, attempt>>
device == <<opened, open, live, dev, drops>>

Move(t, from, to) == at[t] = from /\ at' = [at EXCEPT ![t] = to]

----
(* _close, on any thread.                                                   *)
CloseFlag(t) ==
    /\ Move(t, "close_flag", "close_load")
    /\ connected' = FALSE
    /\ UNCHANGED <<ser, hand, retry, device>>

CloseLoad(t) ==
    /\ Move(t, "close_load", "close_store")
    /\ hand' = [hand EXCEPT ![t] = ser]
    /\ UNCHANGED <<port, retry, device>>

\* Mutant: the reference to the port is kept.
CloseStoreKeeps(t) ==
    /\ Move(t, "close_store", "close_port")
    /\ UNCHANGED <<port, hand, retry, device>>

CloseStore(t) ==
    /\ Move(t, "close_store", "close_port")
    /\ ser' = 0
    /\ UNCHANGED <<connected, hand, retry, device>>

AfterClose(t) == CASE t = "reader" -> "top" [] t = "sender" -> "idle" [] t = "main" -> "join"

ClosePort(t) ==
    /\ Move(t, "close_port", AfterClose(t))
    /\ open' = open \ {hand[t]}
    /\ live' = live \ {hand[t]}
    /\ UNCHANGED <<port, hand, retry, opened, dev, drops>>

Close(t) == CloseFlag(t) \/ CloseLoad(t) \/ CloseStore(t) \/ ClosePort(t)

----
(* The reader thread.                                                       *)

\* The loop of run, and the first test of poll_once.
RunLoop ==
    /\ \/ Stopping /\ Move("reader", "top", "ended")
       \/ ~Stopping /\ (ser = 0 \/ ~connected) /\ Move("reader", "top", "reconnect")
       \/ ~Stopping /\ ser # 0 /\ connected /\ Move("reader", "top", "take")
    /\ attempt' = 0
    /\ UNCHANGED <<port, hand, pinned, device>>

\* Mutant: the loop that reopens the port does not look at the stop event.
ReconnectIgnoresStop ==
    /\ \/ attempt < OverflowAt /\ Move("reader", "reconnect", "open")
       \/ attempt = OverflowAt /\ Move("reader", "reconnect", "dead")
    /\ UNCHANGED <<port, hand, retry, device>>

\* Mutant: the attempts are counted on where 2 ** attempt has overflowed.
ReconnectCountsOn ==
    /\ \/ Stopping /\ Move("reader", "reconnect", "top")
       \/ ~Stopping /\ Move("reader", "reconnect", "open")
    /\ UNCHANGED <<port, hand, retry, device>>

\* The loop of _reconnect: the stop event, then the delay, whose 2 ** attempt
\* raises once it is too large; nothing above this line catches it.
Reconnect ==
    /\ \/ Stopping /\ Move("reader", "reconnect", "top")
       \/ ~Stopping /\ attempt < OverflowAt /\ Move("reader", "reconnect", "open")
       \/ ~Stopping /\ attempt = OverflowAt /\ Move("reader", "reconnect", "dead")
    /\ UNCHANGED <<port, hand, retry, device>>

\* _open adopts the port another thread has not closed yet.
Adopt ==
    /\ ser # 0
    /\ Move("reader", "open", "flag")
    /\ UNCHANGED <<port, hand, retry, device>>

\* find_base_port(self.port), and the path is kept: only a reader that has none
\* looks for a device.
Detect ==
    /\ ser = 0
    /\ Move("reader", "open", "dial")
    /\ pinned' = IF pinned = NoName THEN dev ELSE pinned
    /\ pinned' # NoName
    /\ UNCHANGED <<port, hand, attempt, device>>

OpenPort ==
    /\ dev = pinned
    /\ Move("reader", "dial", "store")
    /\ opened' = opened + 1
    /\ open' = open \cup {opened'}
    /\ live' = live \cup {opened'}
    /\ hand' = [hand EXCEPT !["reader"] = opened']
    /\ UNCHANGED <<port, retry, dev, drops>>

\* No device is found, or none under the path: try again later.
OpenRaises ==
    /\ \/ ser = 0 /\ pinned = NoName /\ dev = NoName /\ Move("reader", "open", "reconnect")
       \/ dev # pinned /\ Move("reader", "dial", "reconnect")
    /\ attempt' = attempt + 1
    /\ UNCHANGED <<port, hand, pinned, device>>

StorePort ==
    /\ Move("reader", "store", "flag")
    /\ ser' = hand["reader"]
    /\ UNCHANGED <<connected, hand, retry, device>>

\* connected = bool(getattr(_ser, "is_open", True)); None has no is_open.
FlagPort ==
    /\ Move("reader", "flag", "take")
    /\ connected' = (ser = 0 \/ ser \in open)
    /\ UNCHANGED <<ser, hand, retry, device>>

\* ser = self._ser: it may be None again.
Take ==
    /\ Move("reader", "take", IF ser = 0 THEN "close_flag" ELSE "read")
    /\ hand' = [hand EXCEPT !["reader"] = ser]
    /\ UNCHANGED <<port, retry, device>>

\* The read returns bytes or times out; what it returned is dispatched.
Read ==
    /\ hand["reader"] \in live
    /\ Move("reader", "read", "top")
    /\ UNCHANGED <<port, hand, retry, device>>

\* Mutant: the fault is logged and the port is kept.
ReadRaisesKeepsPort ==
    /\ hand["reader"] \notin live
    /\ Move("reader", "read", "top")
    /\ UNCHANGED <<port, hand, retry, device>>

\* The read raises: the device is gone, or another thread closed the port.
ReadRaises ==
    /\ hand["reader"] \notin live
    /\ Move("reader", "read", "close_flag")
    /\ UNCHANGED <<port, hand, retry, device>>

ReaderStep ==
    \/ RunLoop \/ Reconnect \/ Adopt \/ Detect \/ OpenPort \/ OpenRaises \/ StorePort \/ FlagPort
    \/ Take \/ Read \/ ReadRaises \/ Close("reader")

----
(* The downlink thread: send.  (It raises NotConnectedError, and changes    *)
(* nothing, when its first test or its second one fails.)                   *)
Send ==
    /\ connected /\ ser # 0
    /\ Move("sender", "idle", "load")
    /\ UNCHANGED <<port, hand, retry, device>>

SendLoad ==
    /\ Move("sender", "load", IF ser = 0 THEN "idle" ELSE "write")
    /\ hand' = [hand EXCEPT !["sender"] = ser]
    /\ UNCHANGED <<port, retry, device>>

Write ==
    /\ hand["sender"] \in live
    /\ Move("sender", "write", "idle")
    /\ UNCHANGED <<port, hand, retry, device>>

\* The write raises; the port _ser names by now is closed, which need not be
\* the port that was written to.  A TypeError of a half-closed port is not
\* caught by send.
WriteRaises ==
    /\ hand["sender"] \notin live
    /\ Move("sender", "write", "close_flag") \/ Move("sender", "write", "idle")
    /\ UNCHANGED <<port, hand, retry, device>>

SenderStep == SendLoad \/ Write \/ WriteRaises \/ Close("sender")

(* The main thread: stop.  The join gives up after its timeout.             *)
Stop ==
    /\ Move("main", "run", "close_flag")
    /\ UNCHANGED <<port, hand, retry, device>>

JoinReturns ==
    /\ Move("main", "join", "stopped")
    /\ UNCHANGED <<port, hand, retry, device>>

(* The device: brown-outs, re-enumerations, unplugging.                     *)
DeviceDrops ==
    /\ dev # NoName /\ drops < MaxDrops
    /\ dev' = NoName
    /\ drops' = drops + 1
    /\ live' = {}
    /\ UNCHANGED <<port, at, hand, retry, opened, open>>

\* It may come back under another path.
DeviceReturns(path) ==
    /\ dev = NoName
    /\ dev' = path
    /\ UNCHANGED <<port, at, hand, retry, opened, open, live, drops>>

MainStep == Close("main") \/ JoinReturns

\* A reader that ended and a stop that returned stay so: nothing is left to do.
Done == at["reader"] \in {"ended", "dead"} /\ at["main"] = "stopped" /\ UNCHANGED vars

Next ==
    \/ ReaderStep
    \/ Send \/ SenderStep
    \/ Stop \/ MainStep
    \/ DeviceDrops \/ (\E path \in Names : DeviceReturns(path))
    \/ Done

\* A thread that can run is scheduled: a read has a timeout, a delay an end.
Fairness == WF_vars(ReaderStep) /\ WF_vars(SenderStep) /\ WF_vars(MainStep)

Spec     == Init /\ [][Next]_vars
FairSpec == Spec /\ Fairness
----
Dead == at["reader"] = "dead"

(* SAFETY.  self._ser never names a port that this process has closed,       *)
(* although any of three threads may close it and no lock is held: _close    *)
(* drops the reference before it closes, and a port just dialled is not yet  *)
(* any other thread's to close.                                             *)
SerNamesOpenPort == ser # 0 => ser \in open

(* The reader survives any outage (serial_io.py: "the loop is never allowed *)
(* to die").                                                                *)
ReaderSurvives == ~Dead

(* The link recovers: when the device stays under the path the reader holds  *)
(* to, a reader that has survived the outages ends up with an open port on   *)
(* it that sends can use, although a late _close of the other thread may     *)
(* take the port it has just reopened.                                      *)
Recovers ==
    ([](~Stopping /\ ~Dead) /\ \E path \in Names : <>[](dev = path /\ pinned \in {NoName, path}))
        => <>[](connected /\ ser \in live)

(* Each attempt looks for the device anew: one that begins while the device  *)
(* is there, under whatever path, gets a port unless the device goes again   *)
(* (serial_io.py: "Re-detects the device each attempt").                    *)
Redetects ==
    \A path \in Names :
        (at["reader"] = "reconnect" /\ attempt < OverflowAt - 1 /\ dev = path /\ ~Stopping)
            ~> (at["reader"] \in {"store", "flag"} \/ dev # path \/ Stopping)

(* A stop ends the reader, and in good order: wherever it is in reading or   *)
(* reopening, and even while no device is there to be opened.                *)
StopEndsReader == (Stopping /\ ~Dead) ~> at["reader"] = "ended"
====
