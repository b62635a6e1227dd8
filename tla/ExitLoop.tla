------------------------------- MODULE ExitLoop -------------------------------
(***************************************************************************)
(* The rita exit billing loop and its watchdog,                            *)
(* src/rita_exit/src/rita_loop/mod.rs: start_rita_exit_loop, rita_exit_loop*)
(* recompute_ipv6_if_needed and start_rita_exit_endpoints.                  *)
(*                                                                         *)
(* Two threads: the worker runs ticks with a RitaExitCache carried from    *)
(* one tick to the next; the watchdog joins it and respawns it with a      *)
(* fresh cache when it panics.  A tick is split at the points where it     *)
(* touches shared or persistent state: the DB connection, the ipv6 reset,  *)
(* the config write, the client load and the setup/enforce phase.  The    *)
(* process may be stopped (AsyncSystem::stop) and is then restarted by     *)
(* systemd from the config on disk.  Of the cache only successful_setup is *)
(* kept: the tunnel and debt caches only save redundant kernel operations. *)
(* Time is counted in completed ticks, each at least EXIT_LOOP_SPEED long. *)
(***************************************************************************)
EXTENDS Naturals

CONSTANTS
    RestartTicks,   \* ticks that surely exceed the 60 s restart window (60 / EXIT_LOOP_SPEED)
    ActixFaults,    \* may the billing/enforcement phase panic the worker (comment l.63-66)?
    SetupFaults,    \* may the one-time wg_exit / NAT setup at start fail?
    BindFaults      \* may the endpoints' bind fail (port taken)?

ASSUME RestartTicks \in Nat \ {0} /\ {ActixFaults, SetupFaults, BindFaults} \subseteq BOOLEAN

VARIABLES
    wpc,        \* worker: "boot" (not spawned yet), "conn", "recompute", "persist", "load", "setup", "dead"
    proc,       \* "running", or "stopping" once the actix System was told to stop
    setupOk,    \* rita_exit_cache.successful_setup of the running worker
    ticks,      \* completed ticks since last_restart, saturated at RestartTicks
    cfgMem,     \* exit_network.recompute_ipv6 in the in-memory settings
    cfgDisk,    \* the same flag in the config file
    wiped,      \* history: both ipv6 tables have been reset at least once
    everSetup,  \* history: some setup_clients call succeeded in this process
    endpoints   \* the client endpoints thread: "none" (not spawned), "serving" or "dead"

vars == <<wpc, proc, setupOk, ticks, cfgMem, cfgDisk, wiped, everSetup, endpoints>>

Init ==
    /\ wpc = "boot" /\ proc = "running"
    /\ setupOk = FALSE /\ ticks = 0
    /\ cfgDisk \in BOOLEAN /\ cfgMem = cfgDisk
    /\ wiped = FALSE /\ everSetup = FALSE
    /\ endpoints = "none"

(* l.213-214: sleep EXIT_LOOP_SPEED and hand the cache to the next tick. *)
EndTick ==
    /\ wpc' = "conn"
    /\ ticks' = IF ticks < RestartTicks THEN ticks + 1 ELSE ticks

(* l.199-210: without a successful setup in this cache a DB failure stops  *)
(* the System and panics.  AsyncSystem::current() is taken to return the  *)
(* System here and at l.90 (see README, Not modelled).                    *)
DbFailureStops(ok) == ~ok

(* l.104-105, l.199-212: get_database_connection. *)
GetConnection ==
    /\ wpc = "conn"
    /\ \/ /\ wpc' = "recompute"
          /\ UNCHANGED <<proc, ticks>>
       \/ /\ ~DbFailureStops(setupOk)
          /\ EndTick
          /\ UNCHANGED proc
       \/ /\ DbFailureStops(setupOk)
          /\ wpc' = "dead"
          /\ proc' = "stopping"
          /\ UNCHANGED ticks
    /\ UNCHANGED <<setupOk, cfgMem, cfgDisk, wiped, everSetup, endpoints>>

(* Variant of RecomputeIpv6 that clears the flag before the statements. *)
RecomputeIpv6ClearFirst ==
    /\ wpc = "recompute"
    /\ \/ /\ ~cfgMem
          /\ wpc' = "load"
          /\ UNCHANGED <<cfgMem, wiped>>
       \/ /\ cfgMem
          /\ cfgMem' = FALSE
          /\ wpc' = "persist"
          /\ UNCHANGED wiped
       \/ /\ cfgMem
          /\ wiped' = TRUE
          /\ cfgMem' = FALSE
          /\ wpc' = "persist"
    /\ UNCHANGED <<proc, setupOk, ticks, cfgDisk, everSetup, endpoints>>

(* recompute_ipv6_if_needed (l.275-309), called at l.114: reset the        *)
(* clients' ipv6 column, then delete assigned_ips, then clear the flag in  *)
(* memory.  Either DB statement may fail; the error is only logged.        *)
RecomputeIpv6 ==
    /\ wpc = "recompute"
    /\ \/ /\ ~cfgMem
          /\ wpc' = "load"
          /\ UNCHANGED <<cfgMem, wiped>>
       \/ /\ cfgMem                         \* l.287-297: a statement failed
          /\ wpc' = "load"
          /\ UNCHANGED <<cfgMem, wiped>>
       \/ /\ cfgMem                         \* l.300-301: both ran
          /\ wiped' = TRUE
          /\ cfgMem' = FALSE
          /\ wpc' = "persist"
    /\ UNCHANGED <<proc, setupOk, ticks, cfgDisk, everSetup, endpoints>>

(* l.303-305: write_config; a failure is only logged. *)
PersistConfig ==
    /\ wpc = "persist"
    /\ wpc' = "load"
    /\ cfgDisk' \in {cfgMem, cfgDisk}
    /\ UNCHANGED <<proc, setupOk, ticks, cfgMem, wiped, everSetup, endpoints>>

(* l.118-119: clients.load; on failure the rest of the tick is skipped. *)
LoadClients ==
    /\ wpc = "load"
    /\ \/ /\ wpc' = "setup" /\ UNCHANGED ticks
       \/ EndTick
    /\ UNCHANGED <<proc, setupOk, cfgMem, cfgDisk, wiped, everSetup, endpoints>>

(* l.125-197: bill, setup_clients (l.138-153 sets successful_setup on Ok), *)
(* cleanup, check_regions, enforce; all other errors are logged.  The      *)
(* actix-facing calls may panic the thread.                                *)
SetupClients ==
    /\ wpc = "setup"
    /\ \/ /\ \E ok \in BOOLEAN :
               /\ setupOk' = (setupOk \/ ok)
               /\ everSetup' = (everSetup \/ ok)
          /\ EndTick
       \/ /\ ActixFaults
          /\ wpc' = "dead"
          /\ UNCHANGED <<setupOk, everSetup, ticks>>
    /\ UNCHANGED <<proc, cfgMem, cfgDisk, wiped, endpoints>>

(* l.88: `Instant::now() - last_restart < 60 s`: surely false once        *)
(* RestartTicks ticks have passed, either way before (a tick has no upper  *)
(* bound on its length).                                                   *)
TooQuickChoices == IF ticks >= RestartTicks THEN {FALSE} ELSE BOOLEAN

(* l.76-94: join returned Err: maybe stop the System (l.88-92), reset      *)
(* last_restart, and spawn a new worker with RitaExitCache::default().     *)
Respawn ==
    /\ wpc = "dead"
    /\ \E tooQuick \in TooQuickChoices :
          /\ proc' = IF tooQuick THEN "stopping" ELSE proc
          /\ wpc' = "conn" /\ setupOk' = FALSE /\ ticks' = 0
    /\ UNCHANGED <<cfgMem, cfgDisk, wiped, everSetup, endpoints>>

(* start_rita_exit_loop before the threads (l.69-73): setup_exit_wg_tunnel *)
(* (l.311-371).  The wg interface setups only warn (l.313-319); the        *)
(* expect and unwrap on one_time_exit_setup and setup_nat (l.340-370)      *)
(* panic the calling thread, which ends the process: systemd restarts it.  *)
SetupExitTunnel ==
    /\ wpc = "boot" /\ proc = "running"
    /\ \/ /\ wpc' = "conn" /\ ticks' = 0
          /\ UNCHANGED proc
       \/ /\ SetupFaults
          /\ proc' = "stopping"
          /\ UNCHANGED <<wpc, ticks>>
    /\ UNCHANGED <<setupOk, cfgMem, cfgDisk, wiped, everSetup, endpoints>>

(* start_rita_exit_endpoints (l.373-397): a thread with its own System    *)
(* serving /secure_setup, /exit_info and the rest.  The `.unwrap()` on    *)
(* bind (l.388-392) panics that thread alone: nothing joins or respawns   *)
(* it, and the process, whose billing goes on, is not stopped.            *)
StartEndpoints ==
    /\ proc = "running" /\ endpoints = "none"
    /\ \/ endpoints' = "serving"
       \/ /\ BindFaults
          /\ endpoints' = "dead"
    /\ UNCHANGED <<wpc, proc, setupOk, ticks, cfgMem, cfgDisk, wiped, everSetup>>

(* Variant of ProcessRestart that restores the serialized cache. *)
ProcessRestartKeepCache ==
    /\ proc = "stopping"
    /\ wpc' = "boot" /\ proc' = "running"
    /\ ticks' = 0
    /\ cfgMem' = cfgDisk /\ everSetup' = FALSE
    /\ endpoints' = "none"
    /\ UNCHANGED <<setupOk, cfgDisk, wiped>>

(* The stopped System ends the process; systemd starts it again, and       *)
(* start_rita_exit_loop reads the settings from the config file.           *)
ProcessRestart ==
    /\ proc = "stopping"
    /\ wpc' = "boot" /\ proc' = "running"
    /\ setupOk' = FALSE /\ ticks' = 0
    /\ cfgMem' = cfgDisk /\ everSetup' = FALSE
    /\ endpoints' = "none"
    /\ UNCHANGED <<cfgDisk, wiped>>

Worker == GetConnection \/ RecomputeIpv6 \/ PersistConfig \/ LoadClients \/ SetupClients

Next == SetupExitTunnel \/ StartEndpoints \/ Worker \/ Respawn \/ ProcessRestart

Spec == Init /\ [][Next]_vars

-----------------------------------------------------------------------------
TypeOK ==
    /\ wpc \in {"boot", "conn", "recompute", "persist", "load", "setup", "dead"}
    /\ proc \in {"running", "stopping"}
    /\ ticks \in 0..RestartTicks
    /\ {setupOk, cfgMem, cfgDisk, wiped, everSetup} \subseteq BOOLEAN
    /\ endpoints \in {"none", "serving", "dead"}
    \* the cache of the running worker never claims more than the process saw
    /\ setupOk => everSetup

(* The comment on successful_setup (l.52-54): the exit crashes on a DB     *)
(* failure only if it has never set up its clients; after that it must     *)
(* keep running so that failover works.                                    *)
NoFailoverCrash == [][(wpc = "conn" /\ wpc' = "dead") => ~everSetup]_vars

(* The recompute_ipv6 flag is cleared in the config file only after both   *)
(* ipv6 tables were reset (l.287-305), across panics and restarts.         *)
FlagClearedAfterReset == [][(cfgDisk /\ ~cfgDisk') => wiped]_vars

=============================================================================
