---------------------------- MODULE MachineCLI ----------------------------
(***************************************************************************)
(* The machine command line, which Canopy uses: SubprocessEnpkgExecutor    *)
(* (machine_cli/api.py) starts the Python of a prefix with a command and   *)
(* writes the settings as JSON to its stdin; machine_cli/commands.py does  *)
(* the command with the functions that enpkg has, and without its checks;  *)
(* the executor raises unless the process exits with 0.  The outcome       *)
(* "done" is that the executor returns; with any other it raises.          *)
(*                                                                         *)
(* The Python of the prefix has no other prefix below.  The process works  *)
(* on the prefix on which the commands of module CommandLine work, which   *)
(* another Python has run.                                                 *)
(***************************************************************************)
EXTENDS CommandLine

CONSTANT
    Calls   \* the calls of an executor that may be made

ASSUME MachineAssumption ==
    \A c \in Calls :
        /\ "machine" \in c.options
        /\ c.options \subseteq {"machine", "token", "install", "remove", "update_all"}
        /\ Cardinality(c.options \cap {"install", "remove", "update_all"}) = 1
        /\ c.words \in Seq(Requirements)
        /\ Len(c.words) = IF "update_all" \in c.options THEN 0 ELSE 1

-----------------------------------------------------------------------------
(* _run_command: there is no such Python, or it is started. *)
RunCommand(c) ==
    /\ stage = "idle" /\ step = "idle"
    /\ cmd' = c
    /\ before' = installed
    /\ jobs' = <<>> /\ actions' = <<>>
    /\ \/ stage' = "idle" /\ outcome' = "failed"
       \/ stage' = "parse" /\ outcome' = "none"
    /\ UNCHANGED <<bootVars, frozen>>

Continues(from, to) ==
    /\ Selected({from})
    /\ GoOn(to)
    /\ UNCHANGED <<jobs, actions, frozen>>
Raises(from) == Selected({from}) /\ Ends("failed") /\ UNCHANGED frozen

(* The schemas admit one kind of authentication, and to_config_dict of an  *)
(* APITokenAuth gives another one.                                         *)
SchemaAdmits == ~ Given("token")

ParseJson == SchemaAdmits /\ Continues("parse", "authenticate")
ParseJsonFails == ~ SchemaAdmits /\ Raises("parse")

(* Session.authenticated_from_configuration, which asks for a token. *)
AuthenticateSession == Continues("authenticate", "fetch")
AuthenticateSessionFails == Raises("authenticate")

(* repository_factory, see module RepositoryFactory. *)
FetchIndices == Continues("fetch", "machine")
FetchIndicesFail == Raises("fetch")

Selects(command) == Selected({"machine"}) /\ Given(command) /\ UNCHANGED frozen

MachineInstall == Selects("install") /\ Begin(<<Job("install", cmd.words[1], TRUE)>>)
MachineRemove == Selects("remove") /\ Begin(<<Job("remove", cmd.words[1], FALSE)>>)
MachineUpdateAll ==
    /\ Selects("update_all")
    /\ UpdateJobs(installed, {}, TRUE)

MachineNext ==
    \/ CmdNext
    \/ \E c \in Calls : RunCommand(c)
    \/ ParseJson \/ ParseJsonFails
    \/ AuthenticateSession \/ AuthenticateSessionFails
    \/ FetchIndices \/ FetchIndicesFail
    \/ MachineInstall \/ MachineRemove \/ MachineUpdateAll

MachineSpec == CmdInit /\ [][MachineNext]_allVars
=============================================================================
