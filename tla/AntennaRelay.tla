----------------------------- MODULE AntennaRelay -----------------------------
(***************************************************************************)
(* The relay engine of src/antenna_forwarding_client/src/lib.rs:           *)
(* forward_connections and process_messages, with process_streams and      *)
(* read_messages of the antenna_forwarding_protocol crate (not in this     *)
(* repository: modelled from the spec, section 4.3 and 6).                 *)
(*                                                                         *)
(* Its environment is here too: the checkin server at the other end of the *)
(* control connection (one TCP stream each way, reliable and ordered,      *)
(* messages crossing in flight) and the antenna, one TCP connection per    *)
(* stream id.  Payloads are abstracted away; a message is its kind and its *)
(* stream id.  The server is well behaved: it closes only streams it has   *)
(* opened and not yet closed, and sends nothing after ForwardingClose.     *)
(*                                                                         *)
(* pc is the program counter of the single worker thread; the checkin     *)
(* cycle that owns the other values is in AntennaForwardingClient.         *)
(***************************************************************************)
EXTENDS Naturals, Sequences, SequencesExt

CONSTANTS
    StreamIds,      \* stream ids the server assigns (u64 in the code)
    IdleLimit,      \* FORWARD_TIMEOUT in loop iterations (SPINLOCK_TIME each)
    MaxEvents,      \* bound on server sends and antenna data, over the whole run
    AntennaFaults   \* may connecting or writing to the antenna fail?

ASSUME IdleLimit \in Nat /\ MaxEvents \in Nat /\ AntennaFaults \in BOOLEAN

VARIABLES
    pc,         \* worker thread: "checkin", "await_first", "discover", "relay", "dead"
    ctrl,       \* client end of the control connection: "none", "open", "shutdown"
    toClient,   \* server -> client bytes in flight, as messages
    toServer,   \* client -> server bytes in flight, as messages
    srvFwd,     \* the server has sent its ForwardMessage on this connection
    srvOpen,    \* streams the server believes open
    srvDone,    \* the server has sent ForwardingCloseMessage
    srvGone,    \* the server has closed the connection
    pending,    \* first_round_input: the rest of the batch that held the ForwardMessage
    streams,    \* domain of `streams: HashMap<u64, TcpStream>`
    antData,    \* streams whose antenna has sent bytes not yet pumped upstream
    antClosed,  \* streams whose antenna has closed its end
    idle,       \* sleeps since `last_message`, saturated at IdleLimit + 1
    quiet,      \* history: sleeps since the last data/close in either direction
    ended,      \* history: why the last relay session ended
    log,        \* history: what the client did on this connection, in order
    events      \* environment events so far (bounded by MaxEvents)

relayVars == <<pc, ctrl, toClient, toServer, srvFwd, srvOpen, srvDone, srvGone,
               pending, streams, antData, antClosed, idle, quiet, ended, log,
               events>>

Msg(type, arg) == [type |-> type, arg |-> arg]

MsgTypes == {"Ident", "Forward", "Error", "Data", "Close", "FwdClose", "KeepAlive"}

(* What the log records: our messages upstream, antenna connections opened *)
(* and the server's ForwardingClose when it is acted on.                   *)
LogEntries == {"Ident", "Error", "UpData", "UpClose", "Open", "FwdClose"}

EndReasons == {"none", "close", "read_error", "timeout", "panic"}

-----------------------------------------------------------------------------
(* The relay engine *)

(* Outcomes of dialling or writing to the antenna that can fail in a batch. *)
Faults == IF AntennaFaults THEN SUBSET StreamIds ELSE {{}}

(* read_messages (protocol crate): once we shut the connection down, or    *)
(* the server closed it and everything it sent has been read, the read is  *)
(* an error.  Otherwise it returns what has arrived, possibly nothing.     *)
ReadFails == ctrl = "shutdown" \/ (srvGone /\ toClient = <<>>)

(* Variant of IdleExpired whose timeout never fires. *)
IdleNeverExpires(i) == FALSE

(* l.221: the session has been idle longer than FORWARD_TIMEOUT. *)
IdleExpired(i) == i > IdleLimit

(* Variant of CtrlAfter that leaves the connection open on ForwardingClose. *)
CtrlAfterNoShutdown(halt) == "open"

(* l.177-180: ForwardingCloseMessage shuts the control connection down. *)
CtrlAfter(halt) == IF halt = "close" THEN "shutdown" ELSE "open"

(* One arm of the match in process_messages (l.129-184), on the record     *)
(* [streams, gone, reset, halt, log]: `gone` are ids whose connection was  *)
(* closed, `reset` that last_message was set, `halt` "close" for the       *)
(* return true of l.180 and "panic" for an expect or unimplemented!.       *)
(* Messages after a halt are not looked at.                                *)
ProcessMessage(fail, st, m) ==
    IF st.halt # "no" THEN st
    ELSE CASE m.type = "Close" /\ m.arg \in st.streams ->         \* l.136-147
                [st EXCEPT !.streams = @ \ {m.arg}, !.gone = @ \cup {m.arg},
                           !.reset = TRUE]
           [] m.type = "Close" ->                                 \* l.140-142 expect
                [st EXCEPT !.halt = "panic"]
           [] m.type = "Data" /\ m.arg \in fail ->                \* l.157-158, l.162-165 expect
                [st EXCEPT !.halt = "panic"]
           [] m.type = "Data" /\ m.arg \in st.streams ->          \* l.156-158
                [st EXCEPT !.reset = TRUE]
           [] m.type = "Data" ->                                  \* l.159-166
                [st EXCEPT !.streams = @ \cup {m.arg}, !.reset = TRUE,
                           !.log = Append(@, "Open")]
           [] m.type = "FwdClose" ->                              \* l.169-180
                [st EXCEPT !.halt = "close", !.log = Append(@, "FwdClose")]
           [] OTHER ->                                            \* l.131-135, l.183
                [st EXCEPT !.halt = "panic"]

(* process_messages (l.121-187) over a whole batch. *)
ProcessMessages(fail, open, batch) ==
    FoldLeft(LAMBDA st, m : ProcessMessage(fail, st, m),
             [streams |-> open, gone |-> {}, reset |-> FALSE, halt |-> "no",
              log |-> <<>>],
             batch)

MsgsFor(type, S) == LET s == SetToSeq(S) IN [k \in DOMAIN s |-> Msg(type, s[k])]

(* process_streams (protocol crate, spec 4.3): a stream with bytes from    *)
(* the antenna sends them up as ConnectionData; a stream whose antenna     *)
(* closed (and has nothing left to read) sends ConnectionClose and is      *)
(* removed.                                                                *)
PumpedData   == antData \cap streams
PumpedCloses == (antClosed \cap streams) \ antData
Upstream     == MsgsFor("Data", PumpedData) \o MsgsFor("Close", PumpedCloses)
UpLog(up)    == [k \in DOMAIN up |-> IF up[k].type = "Data" THEN "UpData" ELSE "UpClose"]

(* The function returns: the stream map and the control connection are     *)
(* dropped, which closes them.                                             *)
EndSession(reason) ==
    /\ pc' = "checkin"
    /\ ctrl' = "none"
    /\ streams' = {} /\ antData' = {} /\ antClosed' = {}
    /\ ended' = reason

(* A panic unwinds the spawned thread: it is gone for good. *)
Panic ==
    /\ pc' = "dead"
    /\ ctrl' = "none"
    /\ streams' = {} /\ antData' = {} /\ antClosed' = {}
    /\ ended' = "panic"

(* forward_connections up to the loop (l.196-206): an empty stream map,    *)
(* last_message = now, and the first batch's leftovers processed.  The     *)
(* returned shutdown flag is ignored.                                      *)
FirstRound ==
    \E fail \in Faults :
        LET st == ProcessMessages(fail, {}, pending) IN
        /\ pending' = <<>>
        /\ log' = log \o st.log
        /\ idle' = 0 /\ quiet' = 0
        /\ \/ /\ st.halt = "panic"
              /\ Panic
           \/ /\ st.halt # "panic"
              /\ pc' = "relay"
              /\ ctrl' = CtrlAfter(st.halt)
              /\ streams' = st.streams
              /\ UNCHANGED <<antData, antClosed, ended>>
        /\ UNCHANGED <<toClient, toServer, srvFwd, srvOpen, srvDone, srvGone, events>>

(* One iteration of the `while let Ok(vec) = read_messages(..)` loop       *)
(* (l.208-226): read, process_streams, process_messages, stop on a close,  *)
(* stop when idle too long, sleep.                                         *)
RelayIteration ==
    /\ pc = "relay"
    /\ \/ /\ ReadFails
          /\ EndSession("read_error")
          /\ UNCHANGED <<toClient, toServer, pending, idle, quiet, log>>
       \/ /\ ~ReadFails
          /\ \E n \in 0..Len(toClient), fail \in Faults :
               LET batch  == SubSeq(toClient, 1, n)
                   up     == Upstream
                   st     == ProcessMessages(fail, streams \ PumpedCloses, batch)
                   idle0  == IF st.reset THEN 0 ELSE idle
                   quiet0 == IF st.reset \/ up # <<>> THEN 0 ELSE quiet
               IN
               /\ toClient' = SubSeq(toClient, n + 1, Len(toClient))
               /\ toServer' = toServer \o up
               /\ log' = log \o UpLog(up) \o st.log
               /\ \/ /\ st.halt = "panic"
                     /\ Panic
                     /\ UNCHANGED quiet
                  \/ /\ st.halt = "close"
                     /\ EndSession("close")
                     /\ UNCHANGED quiet
                  \/ /\ st.halt = "no"
                     /\ IdleExpired(idle0)
                     /\ EndSession("timeout")
                     /\ quiet' = quiet0
                  \/ /\ st.halt = "no"
                     /\ ~IdleExpired(idle0)
                     /\ streams' = st.streams
                     /\ antData' = {}
                     /\ antClosed' = (antClosed \cap st.streams) \ (st.gone \cup PumpedCloses)
                     /\ quiet' = IF quiet0 + 1 > IdleLimit + 1 THEN IdleLimit + 1 ELSE quiet0 + 1
                     /\ UNCHANGED <<pc, ctrl, ended>>
               /\ idle' = IF idle0 + 1 > IdleLimit + 1 THEN IdleLimit + 1 ELSE idle0 + 1
          /\ UNCHANGED pending
    /\ UNCHANGED <<srvFwd, srvOpen, srvDone, srvGone, events>>

-----------------------------------------------------------------------------
(* The checkin server *)

ServerActive == ctrl = "open" /\ ~srvGone

ServerSend(m) ==
    /\ events < MaxEvents
    /\ toClient' = Append(toClient, m)
    /\ events' = events + 1

(* Answer the identification (read off the wire) with a ForwardMessage. *)
ServerForward(t) ==
    /\ ServerActive /\ ~srvFwd /\ toServer = <<>>
    /\ toClient' = Append(toClient, Msg("Forward", t))
    /\ srvFwd' = TRUE
    /\ UNCHANGED <<pc, ctrl, toServer, srvOpen, srvDone, srvGone, pending, streams,
                   antData, antClosed, idle, quiet, ended, log, events>>

ServerData(id) ==
    /\ ServerActive /\ srvFwd /\ ~srvDone
    /\ ServerSend(Msg("Data", id))
    /\ srvOpen' = srvOpen \cup {id}
    /\ UNCHANGED <<pc, ctrl, toServer, srvFwd, srvDone, srvGone, pending, streams,
                   antData, antClosed, idle, quiet, ended, log>>

ServerClose(id) ==
    /\ ServerActive /\ srvFwd /\ ~srvDone
    /\ id \in srvOpen
    /\ ServerSend(Msg("Close", id))
    /\ srvOpen' = srvOpen \ {id}
    /\ UNCHANGED <<pc, ctrl, toServer, srvFwd, srvDone, srvGone, pending, streams,
                   antData, antClosed, idle, quiet, ended, log>>

ServerForwardingClose ==
    /\ ServerActive /\ srvFwd /\ ~srvDone
    /\ ServerSend(Msg("FwdClose", 0))
    /\ srvDone' = TRUE
    /\ UNCHANGED <<pc, ctrl, toServer, srvFwd, srvOpen, srvGone, pending, streams,
                   antData, antClosed, idle, quiet, ended, log>>

ServerDisconnect ==
    /\ ServerActive
    /\ srvGone' = TRUE
    /\ UNCHANGED <<pc, ctrl, toClient, toServer, srvFwd, srvOpen, srvDone, pending,
                   streams, antData, antClosed, idle, quiet, ended, log, events>>

(* The server reads one message; a ConnectionClose ends that stream for it. *)
ServerReceive ==
    /\ toServer # <<>>
    /\ toServer' = Tail(toServer)
    /\ srvOpen' = IF Head(toServer).type = "Close"
                  THEN srvOpen \ {Head(toServer).arg} ELSE srvOpen
    /\ UNCHANGED <<pc, ctrl, toClient, srvFwd, srvDone, srvGone, pending, streams,
                   antData, antClosed, idle, quiet, ended, log, events>>

-----------------------------------------------------------------------------
(* The antenna *)

AntennaSend(id) ==
    /\ id \in streams \ (antData \cup antClosed)
    /\ events < MaxEvents
    /\ antData' = antData \cup {id}
    /\ events' = events + 1
    /\ UNCHANGED <<pc, ctrl, toClient, toServer, srvFwd, srvOpen, srvDone, srvGone,
                   pending, streams, antClosed, idle, quiet, ended, log>>

AntennaClose(id) ==
    /\ id \in streams \ antClosed
    /\ antClosed' = antClosed \cup {id}
    /\ UNCHANGED <<pc, ctrl, toClient, toServer, srvFwd, srvOpen, srvDone, srvGone,
                   pending, streams, antData, idle, quiet, ended, log, events>>

RelayEnvironment ==
    \/ \E id \in StreamIds : ServerData(id) \/ ServerClose(id)
    \/ ServerForwardingClose \/ ServerDisconnect \/ ServerReceive
    \/ \E id \in StreamIds : AntennaSend(id) \/ AntennaClose(id)

-----------------------------------------------------------------------------
(* Properties of the relay *)

RelayTypeOK ==
    /\ pc \in {"checkin", "await_first", "discover", "relay", "dead"}
    /\ ctrl \in {"none", "open", "shutdown"}
    /\ toClient \in Seq([type : MsgTypes, arg : Nat])
    /\ toServer \in Seq([type : MsgTypes, arg : Nat])
    /\ {srvFwd, srvDone, srvGone} \subseteq BOOLEAN
    /\ srvOpen \subseteq StreamIds
    /\ pending \in Seq([type : MsgTypes, arg : Nat])
    /\ streams \subseteq StreamIds
    /\ antData \cup antClosed \subseteq streams
    /\ idle \in 0..(IdleLimit + 1) /\ quiet \in 0..(IdleLimit + 1)
    /\ ended \in EndReasons
    /\ log \in Seq(LogEntries)
    /\ events \in 0..MaxEvents

(* The worker thread never dies while the server follows the protocol.     *)
(* process_messages panics (expect, l.140-142) on a ConnectionClose for a   *)
(* stream it does not have, and nothing restarts the thread (l.66).        *)
NoWorkerPanic == pc # "dead"

(* The spec (4.3): the session is closed for idleness only after           *)
(* FORWARD_TIMEOUT without a data or close message in either direction.    *)
(* The code (l.138, l.154, l.221) counts only messages from the server.    *)
IdleTimeoutMeansQuiet == ended = "timeout" => IdleExpired(quiet)

(* Per connection the client follows the protocol: IdentificationMessage    *)
(* first and only once, an ErrorMessage only right after it and then       *)
(* nothing, and nothing at all after it has acted on ForwardingClose: no   *)
(* antenna connection opened, nothing sent upstream (l.169-180 and the     *)
(* ignored return value at l.200-206).                                     *)
ClientLogWellFormed ==
    /\ log # <<>> => log[1] = "Ident"
    /\ \A k \in DOMAIN log :
          /\ k > 1 => log[k] # "Ident"
          /\ log[k] = "Error" => k = 2 /\ Len(log) = 2
          /\ log[k] = "FwdClose" => k = Len(log)
=============================================================================
