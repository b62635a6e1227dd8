----------------------- MODULE AntennaForwardingClient -----------------------
(***************************************************************************)
(* The worker thread of start_antenna_forwarding_proxy                     *)
(* (src/antenna_forwarding_client/src/lib.rs l.66-115): the checkin cycle, *)
(* composed with the probe lease resolver (AntennaDiscovery, instantiated  *)
(* on the same kernel variables) and the relay engine (AntennaRelay,       *)
(* extended: the relay runs in this same thread and shares its pc).        *)
(* The sleeps only let the environment act; they are not steps.           *)
(***************************************************************************)
EXTENDS AntennaRelay

CONSTANTS
    Ifaces, Octets, Targets, AntennaAt, NoIface, KernelFaults, RouteRaces,
    MaxCheckins     \* bound on connections to the checkin server

ASSUME MaxCheckins \in Nat

VARIABLES
    addrs, routes, disc,   \* the kernel tables and find_antenna, see AntennaDiscovery
    checkins               \* connections made so far

Disc == INSTANCE AntennaDiscovery

vars == <<relayVars, addrs, routes, disc, checkins>>

kernelVars == <<addrs, routes, disc>>

Init ==
    /\ pc = "checkin" /\ ctrl = "none"
    /\ toClient = <<>> /\ toServer = <<>>
    /\ srvFwd = FALSE /\ srvOpen = {} /\ srvDone = FALSE /\ srvGone = FALSE
    /\ pending = <<>> /\ streams = {} /\ antData = {} /\ antClosed = {}
    /\ idle = 0 /\ quiet = 0 /\ ended = "none" /\ log = <<>> /\ events = 0
    /\ Disc!DiscInit
    /\ checkins = 0

(* l.69-79: sleep, connect_timeout succeeds, write the IdentificationMessage *)
(* (result ignored), sleep.  A new connection: nothing in flight on it.    *)
Connect ==
    /\ pc = "checkin"
    /\ checkins < MaxCheckins
    /\ pc' = "await_first"
    /\ ctrl' = "open"
    /\ toClient' = <<>> /\ toServer' = <<Msg("Ident", 0)>>
    /\ srvFwd' = FALSE /\ srvOpen' = {} /\ srvDone' = FALSE /\ srvGone' = FALSE
    /\ log' = <<"Ident">> /\ ended' = "none"
    /\ checkins' = checkins + 1
    /\ UNCHANGED <<pending, streams, antData, antClosed, idle, quiet, events, kernelVars>>

(* l.71, l.113-114: connect_timeout fails; nothing is sent, nothing changes. *)
ConnectFails ==
    /\ pc = "checkin"
    /\ UNCHANGED vars

(* l.83-87: the batch starts with a ForwardMessage. *)
StartsWithForward(batch) == batch # <<>> /\ batch[1].type = "Forward"

(* l.80-112: one read of everything that has arrived.  A ForwardMessage at *)
(* its head starts setup_networking on its IP with the rest of the batch   *)
(* kept as first-round input (l.91-98); anything else, or a read error,    *)
(* ends the iteration and drops the connection (l.104-111).                *)
ReadFirst ==
    /\ pc = "await_first"
    /\ \/ /\ ReadFails
          /\ pc' = "checkin" /\ ctrl' = "none"
          /\ UNCHANGED <<toClient, pending, kernelVars>>
       \/ /\ ~ReadFails
          /\ \E n \in 0..Len(toClient) :
               LET batch == SubSeq(toClient, 1, n) IN
               /\ toClient' = SubSeq(toClient, n + 1, Len(toClient))
               /\ \/ /\ StartsWithForward(batch)
                     /\ pending' = Tail(batch)
                     /\ pc' = "discover"
                     /\ Disc!StartDiscovery(batch[1].arg)
                     /\ UNCHANGED ctrl
                  \/ /\ ~StartsWithForward(batch)
                     /\ pc' = "checkin" /\ ctrl' = "none"
                     /\ UNCHANGED <<pending, kernelVars>>
    /\ UNCHANGED <<toServer, srvFwd, srvOpen, srvDone, srvGone, streams, antData,
                   antClosed, idle, quiet, ended, log, events, checkins>>

(* find_antenna's loop, one interface per step (AntennaDiscovery). *)
Probe ==
    /\ pc = "discover"
    /\ \/ \E i \in Ifaces : Disc!ProbeInterface(i)
       \/ Disc!Exhausted
    /\ UNCHANGED <<relayVars, checkins>>

(* l.98-100: setup_networking returned the antenna's address. *)
StartRelay ==
    /\ pc = "discover"
    /\ disc.state = "found"
    /\ FirstRound
    /\ UNCHANGED <<kernelVars, checkins>>

(* Variant of ReportError that keeps the control connection across checkins. *)
ReportErrorKeepConn ==
    /\ pc = "discover"
    /\ disc.state \in {"notfound", "failed"}
    /\ toServer' = Append(toServer, Msg("Error", 0))
    /\ log' = Append(log, "Error")
    /\ pc' = "checkin"
    /\ UNCHANGED <<ctrl, toClient, srvFwd, srvOpen, srvDone, srvGone, pending, streams,
                   antData, antClosed, idle, quiet, ended, events, kernelVars, checkins>>

(* l.101-102, l.238-241, send_error_message l.344-348: report the failure *)
(* upstream and shut the connection down.                                 *)
ReportError ==
    /\ pc = "discover"
    /\ disc.state \in {"notfound", "failed"}
    /\ toServer' = Append(toServer, Msg("Error", 0))
    /\ log' = Append(log, "Error")
    /\ pc' = "checkin" /\ ctrl' = "none"
    /\ UNCHANGED <<toClient, srvFwd, srvOpen, srvDone, srvGone, pending, streams,
                   antData, antClosed, idle, quiet, ended, events, kernelVars, checkins>>

Relay ==
    /\ RelayIteration
    /\ UNCHANGED <<kernelVars, checkins>>

WorkerStep ==
    \/ Connect \/ ConnectFails \/ ReadFirst \/ Probe \/ StartRelay \/ ReportError
    \/ Relay

Environment ==
    /\ \/ \E t \in Targets : ServerForward(t)
       \/ RelayEnvironment
    /\ UNCHANGED <<kernelVars, checkins>>

Next == WorkerStep \/ Environment

(* The worker is a dedicated thread that is never descheduled for good:    *)
(* weak fairness on its steps.  The server and the antennas get none.      *)
Spec == Init /\ [][Next]_vars /\ WF_vars(WorkerStep)

-----------------------------------------------------------------------------
(* Types, and: the worker holds a control connection exactly while it is  *)
(* between a successful connect and the end of that loop iteration.       *)
TypeOK ==
    /\ RelayTypeOK
    /\ (pc \in {"checkin", "dead"}) <=> (ctrl = "none")
    /\ Disc!DiscTypeOK
    /\ checkins \in 0..MaxCheckins

(* Each setup_networking call the worker makes, on kernel tables left by *)
(* the previous ones and with kernel faults, is a lookup of AntennaLookup: *)
(* only the antenna's interface is answered, and "not found" means the     *)
(* antenna is absent or a probe was disturbed.                             *)
DiscoveryImplementsLookup == Disc!ImplementsLookup

(* Every checkin that gets a connection comes back to the checkin loop (or *)
(* the thread has died): a relay session always ends, by ForwardingClose,  *)
(* a read error, or the FORWARD_TIMEOUT check at l.221.                    *)
WorkerReturns == (pc # "checkin") ~> (pc \in {"checkin", "dead"})
=============================================================================
