---------------------------- MODULE AntennaLookup ----------------------------
(***************************************************************************)
(* What setup_networking promises its caller (src/antenna_forwarding_     *)
(* client/src/lib.rs l.231-244), stated without interfaces, addresses or   *)
(* routes: a lookup for an antenna IP ends with the interface that antenna *)
(* is on, with "not found" only when it is on none or the search was       *)
(* disturbed, or with an error.  AntennaDiscovery implements it.           *)
(***************************************************************************)
CONSTANTS
    Ifaces, Targets,
    AntennaAt,   \* where each address answers: an interface or NoIface
    NoIface

VARIABLE lookup   \* [state, target, result, disturbed]

Init ==
    lookup \in [state : {"idle"}, target : Targets, result : {NoIface},
                disturbed : {FALSE}]

(* A new lookup for t, once the previous one has ended. *)
Start(t) ==
    /\ lookup.state # "searching"
    /\ lookup' = [state |-> "searching", target |-> t, result |-> NoIface,
                  disturbed |-> FALSE]

(* Something transient (a lost echo, a command that did not run) got in    *)
(* the way of the search.                                                  *)
Disturb ==
    /\ lookup.state = "searching"
    /\ lookup' = [lookup EXCEPT !.disturbed = TRUE]

Found ==
    /\ lookup.state = "searching"
    /\ AntennaAt[lookup.target] # NoIface
    /\ lookup' = [lookup EXCEPT !.state = "found", !.result = AntennaAt[lookup.target]]

NotFound ==
    /\ lookup.state = "searching"
    /\ AntennaAt[lookup.target] = NoIface \/ lookup.disturbed
    /\ lookup' = [lookup EXCEPT !.state = "notfound"]

Fail ==
    /\ lookup.state = "searching"
    /\ lookup' = [lookup EXCEPT !.state = "failed"]

Next == (\E t \in Targets : Start(t)) \/ Disturb \/ Found \/ NotFound \/ Fail

Spec == Init /\ [][Next]_lookup
=============================================================================
