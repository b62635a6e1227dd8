---------------------------- MODULE KernelUpgrade ----------------------------
(***************************************************************************)
(* The upgrade commands of src/althea_kernel_interface/src/upgrade.rs:     *)
(* perform_sysupgrade and perform_opkg, called by the dashboard one        *)
(* request after another.  Each external command (run_command) is one     *)
(* step; whether it succeeds is the kernel's choice, fixed per call in    *)
(* `out` (out[k]: the k-th command run succeeds).  Argument vectors, URLs  *)
(* and flags are left out: only which commands run, in which order, and    *)
(* what the call answers.                                                  *)
(***************************************************************************)
EXTENDS Naturals, Sequences

CONSTANTS
    Packages,     \* package names a request may list
    MaxPkgs,      \* longest package list a request carries
    None,         \* model value: an Option that is None
    UpdateAll,    \* model value: the single `opkg update <args>` command
    Sysupgrade    \* model value: the `/sbin/sysupgrade ... <url>` command

ASSUME MaxPkgs \in Nat /\ {None, UpdateAll, Sysupgrade} \cap Packages = {}

PkgLists == UNION {[1..n -> Packages] : n \in 0..MaxPkgs}

(* SysupgradeCommand (url empty or not) and OpkgCommand (opkg_command,     *)
(* packages: Option<Vec>, arguments: Option<Vec>, here Some or None).      *)
Jobs ==
    [kind : {"sysupgrade"}, url : {"empty", "given"}]
        \cup [kind : {"update", "install"}, pkgs : PkgLists \cup {None},
              args : {"some", None}]

VARIABLES
    todo,  \* the commands the call will run if each succeeds
    out,   \* out[k]: does the k-th command succeed?
    ran,   \* commands run so far in this call
    st     \* "idle" before the first request, "running", or the answer: "ok", "err", or "panic" (an unwrap)

vars == <<todo, out, ran, st>>

(* perform_sysupgrade (l.7-24): an empty url is refused before any         *)
(* command; otherwise one sysupgrade run.                                  *)
SysupgradeDispatch(j) ==
    IF j.url = "empty" THEN [answer |-> "err", cmds |-> <<>>]
    ELSE [answer |-> "running", cmds |-> <<Sysupgrade>>]

(* perform_opkg up to its loop (l.28-57): Update without packages runs one *)
(* `opkg update` and unwraps the arguments; Install without packages, or  *)
(* an empty list, answers the initial "No packages given" error; a list   *)
(* unwraps the arguments on its first iteration.                          *)
OpkgDispatch(j) ==
    CASE j.pkgs = None /\ j.kind = "update" /\ j.args = None -> [answer |-> "panic", cmds |-> <<>>]
      [] j.pkgs = None /\ j.kind = "update" -> [answer |-> "running", cmds |-> <<UpdateAll>>]
      [] j.pkgs = None \/ j.pkgs = <<>>   -> [answer |-> "err", cmds |-> <<>>]
      [] j.args = None                    -> [answer |-> "panic", cmds |-> <<>>]
      [] OTHER                            -> [answer |-> "running", cmds |-> j.pkgs]

Dispatch(j) == IF j.kind = "sysupgrade" THEN SysupgradeDispatch(j) ELSE OpkgDispatch(j)

Init ==
    /\ todo = <<>> /\ out = <<>> /\ ran = <<>>
    /\ st = "idle"

(* A new request, once the previous call has answered. *)
Call(j) ==
    /\ st # "running"
    /\ todo' = Dispatch(j).cmds
    /\ st' = Dispatch(j).answer
    /\ out' \in [1..Len(Dispatch(j).cmds) -> BOOLEAN]
    /\ ran' = <<>>

(* Variant of RunNext whose loop does not return on the first error: the  *)
(* answer is that of the last command.                                     *)
RunNextNoReturn ==
    /\ st = "running"
    /\ LET k == Len(ran) + 1 IN
       /\ ran' = Append(ran, todo[k])
       /\ st' = IF k < Len(todo) THEN "running" ELSE IF out[k] THEN "ok" ELSE "err"
    /\ UNCHANGED <<todo, out>>

(* run_command for the next command (l.23, l.35, l.45, l.64); in the loops *)
(* an error is returned at once (l.46-48, l.65-67), and the last Ok is the *)
(* answer.                                                                 *)
RunNext ==
    /\ st = "running"
    /\ LET k == Len(ran) + 1 IN
       /\ ran' = Append(ran, todo[k])
       /\ st' = CASE ~out[k]         -> "err"
                  [] k = Len(todo)   -> "ok"
                  [] OTHER           -> "running"
    /\ UNCHANGED <<todo, out>>

Next == (\E j \in Jobs : Call(j)) \/ RunNext

Spec == Init /\ [][Next]_vars

-----------------------------------------------------------------------------
TypeOK ==
    /\ todo \in Seq(Packages \cup {UpdateAll, Sysupgrade})
    /\ out \in [1..Len(todo) -> BOOLEAN]
    /\ ran \in Seq(Packages \cup {UpdateAll, Sysupgrade})
    /\ st \in {"idle", "running", "ok", "err", "panic"}

(* Reference: a sequence of commands run until the first one that fails. *)
RECURSIVE RunUntilFailure(_, _)
RunUntilFailure(cmds, oks) ==
    IF cmds = <<>> THEN <<>>
    ELSE <<Head(cmds)>> \o (IF Head(oks) THEN RunUntilFailure(Tail(cmds), Tail(oks)) ELSE <<>>)

(* Once a call has answered, exactly the commands up to the first failing *)
(* one have run, and the answer is Ok exactly when every requested        *)
(* command ran and succeeded: an Err after a partial install leaves the    *)
(* earlier packages installed but never reports Ok (the early returns of  *)
(* l.46-48 and l.65-67, and the initial Err of an empty list, l.38-40 and  *)
(* l.54-56).                                                               *)
AnswerMatchesRuns ==
    st \in {"ok", "err"} =>
        /\ ran = RunUntilFailure(todo, out)
        /\ (st = "ok") <=> (todo # <<>> /\ \A k \in DOMAIN todo : out[k])
=============================================================================
