---------------------------- MODULE CommandLine ----------------------------
(***************************************************************************)
(* enpkg: from the options of a command (main.py) through the commands of  *)
(* cli/commands.py and install_req of cli/utils.py to the actions that are *)
(* executed on a prefix, one command after the other; between commands the *)
(* bootstrap script may run.                                               *)
(*                                                                         *)
(* Logging in and fetching the indices, which come first, are modules      *)
(* Configuration and RepositoryFactory.  Resolve gives, for the newest     *)
(* package that matches, a list in which it is last (module Resolve); the  *)
(* steps of an action are in module Enpkg.  The packages of a prefix have  *)
(* one version of a project each.                                          *)
(***************************************************************************)
EXTENDS Bootstrap, Sublists, SequencesExt

CONSTANTS
    Remote,     \* the packages of the indices
    Below,      \* the packages of sys.prefix, which is not the top prefix
    Cached,     \* the eggs in the download cache
    Closure,    \* Closure[p]: what Resolve finds for p, <<>> if it is broken
    Lines,      \* all packages, also older ones, in the order of "<name> <version>"
    Running,    \* the version of enstaller that is running
    Autoupdate, \* as configured
    Commands    \* the commands that may be given

(* A requirement, of any version if that is 0.  A word of the command line *)
(* that is only a version is one with no name.                             *)
Requirement(name, version) == [name |-> name, version |-> version]
Requirements == [name : STRING, version : Nat]

(* A package is its name and version.  What Resolve finds for one is       *)
(* another package of a project each, and itself at last (InstallOrder).   *)
ASSUME CommandLineAssumption ==
    /\ Lines \in Seq(Range(Lines))
    /\ \A p \in Range(Lines) : p.name \in STRING /\ p.version \in Nat \ {0}
    /\ \A p, q \in Range(Lines) : p.name = q.name /\ p.version = q.version => p = q
    /\ Remote \cup Below \cup {BootEgg} \subseteq Range(Lines)
    /\ \A p \in Remote :
        /\ Closure[p] \in Seq(Remote)
        /\ Closure[p] # <<>> => Last(Closure[p]) = p
        /\ \A i, j \in DOMAIN Closure[p] : Closure[p][i].name = Closure[p][j].name => i = j
    /\ \A c \in Commands :
        /\ IsFiniteSet(c.options) /\ "machine" \notin c.options
        /\ c.words \in Seq(Requirements)

VARIABLES
    cmd,        \* the command that runs, or ran last
    stage,      \* how far it is
    jobs,       \* the requirements that are still to be worked on
    actions,    \* those of the first job
    outcome,    \* how the command ended
    before,     \* the packages of the prefix when it began
    frozen      \* what --freeze printed last, kept in a file

cmdVars == <<cmd, stage, jobs, actions, outcome, before, frozen>>
allVars == <<bootVars, cmdVars>>

Matches(p, req) == p.name = req.name /\ req.version \in {0, p.version}

Command(options, words) == [options |-> options, words |-> words]
NoCommand == Command({}, <<>>)
Job(op, req, deps) == [op |-> op, req |-> req, deps |-> deps]

(* byName: the action has got the file name of the egg only. *)
Action(op, p, byName) == [op |-> op, package |-> p, byName |-> byName]

Given(option) == option \in cmd.options
Newest(ps) == {p \in ps : \A q \in ps : q.version <= p.version}
Available(name) == Newest({p \in Remote : p.name = name})

CmdInit ==
    /\ BootInit
    /\ installed = {p \in Range(Lines) : p.name = "enstaller" /\ p.version = Running}
    /\ cmd = NoCommand /\ stage = "idle" /\ outcome = "none"
    /\ jobs = <<>> /\ actions = <<>> /\ frozen = <<>>
    /\ before = installed

-----------------------------------------------------------------------------
(* Options *)

Ends(how) == stage' = "idle" /\ outcome' = how /\ jobs' = <<>> /\ actions' = <<>>
GoOn(to) == stage' = to /\ UNCHANGED outcome

(* No name may follow these, *)
Simple == {"config", "env", "userpass", "revert", "log", "whats_new", "update_all",
           "remove_enstaller", "add_url", "freeze", "requirements"}
(* and one may follow these. *)
Complex == {"list", "imports", "search", "info", "remove"}

(* _preprocess_options *)
UsageError(c) ==
    \/ Cardinality(c.options \cap (Simple \cup Complex)) > 1
    \/ c.options \cap Simple # {} /\ c.words # <<>>
    \/ {"prefix", "sys_prefix"} \subseteq c.options
    \/ {"force", "forceall"} \subseteq c.options

Parse(c) ==
    /\ stage = "idle" /\ step = "idle"
    /\ cmd' = c
    /\ before' = installed
    /\ jobs' = <<>> /\ actions' = <<>>
    /\ IF UsageError(c) THEN stage' = "idle" /\ outcome' = "usage"
       ELSE stage' = "start" /\ outcome' = "none"
    /\ UNCHANGED <<bootVars, frozen>>

Selected(stages) == stage \in stages /\ UNCHANGED <<bootVars, cmd, before>>

(* Without Enpkg (the last three are in module Configuration): *)
WithoutEnpkg == {"env", "log", "list", "config", "add_url", "userpass"}

Shown(option) == Selected({"start"}) /\ Given(option) /\ Ends("done") /\ UNCHANGED frozen

EnvOption == Shown("env")
PrintHistory == Shown("log")
ListOption == Shown("list")

(* get_freeze_list: every installed package, the ones of both prefixes     *)
(* twice, sorted.                                                          *)
Freeze ==
    LET listed == PickTwice(Lines, installed, Below)
        line(p) == Requirement(p.name, p.version)
    IN  /\ Selected({"start"})
        /\ Given("freeze")
        /\ frozen' = [i \in DOMAIN listed |-> line(listed[i].item)]
        /\ Ends("done")

(* Dry run: Enpkg.execute prints the actions instead. *)
DryRun == Given("dry_run")

Imports ==
    /\ Selected({"start"})
    /\ Given("imports")
    /\ Ends("done")
    /\ UNCHANGED frozen

(* revert_actions: state is the argument, or the state of that revision    *)
(* (module History).  Both loops are over sets; the actions get file names. *)
Revert(state) ==
    LET gone == {p \in installed \ state : p.name # "enstaller"}
        missing == {p \in state \ installed : p.name # "enstaller"}
        Steps(removed, restored) ==
            LET loop == PickTwice(restored, missing \ Cached, missing)
            IN  [i \in DOMAIN removed |-> Action("remove", removed[i], TRUE)]
                \o [i \in DOMAIN loop |->
                        Action(IF loop[i].first THEN "fetch" ELSE "install", loop[i].item, TRUE)]
    IN  /\ Selected({"start"})
        /\ Given("revert")
        /\ IF ~ missing \subseteq Cached \cup Remote THEN Ends("failed")
           ELSE IF gone \cup missing = {} THEN Ends("done")
           ELSE \E removed \in SetToSeqs(gone), restored \in SetToSeqs(missing) :
                /\ GoOn("execute")
                /\ actions' = Steps(removed, restored)
                /\ jobs' = <<Job("revert", Requirement("", 0), FALSE)>>
        /\ UNCHANGED frozen

(* No revision of that number, or no number. *)
RevertToNothing ==
    /\ Selected({"start"})
    /\ Given("revert")
    /\ Ends("failed")
    /\ UNCHANGED frozen

-----------------------------------------------------------------------------
(* From here on enpkg may update itself first. *)

MayUpdate ==
    /\ Autoupdate /\ ~ Given("no_autoupdate")
    /\ \E p \in Available("enstaller") : p.version > Running

(* Mutant of PromptYesNo: where stdin is used up the answer is the default. *)
PromptsByDefault == IF Given("yes") THEN {TRUE} ELSE BOOLEAN

(* prompt_yes_no: the answers there may be; none where stdin is used up.   *)
PromptYesNo ==
    IF Given("yes") THEN {TRUE} ELSE IF Given("machine") THEN {} ELSE BOOLEAN

(* The egg is asked for by its file name, which DownloadManager cannot do: *)
(* it raises before anything is done.                                      *)
InplaceUpdate == Ends("crashed")

AutoUpdate ==
    /\ Selected({"start"})
    /\ cmd.options \cap (WithoutEnpkg \cup {"freeze", "imports", "revert"}) = {}
    /\ \/ /\ MayUpdate => FALSE \in PromptYesNo
          /\ GoOn("selected") /\ UNCHANGED <<jobs, actions>>
       \/ MayUpdate /\ InplaceUpdate
    /\ UNCHANGED frozen

Shows == {"search", "info", "whats_new"}

Show(option) == Selected({"selected"}) /\ Given(option) /\ UNCHANGED frozen

Search == Show("search") /\ Ends("done")
Info == Show("info") /\ Ends(IF Len(cmd.words) = 1 THEN "done" ELSE "usage")
WhatsNew == Show("whats_new") /\ Ends("done")

Changes == Selected({"selected"}) /\ cmd.options \cap Shows = {} /\ UNCHANGED frozen

(* There is no ForceMode.MAIN.  (--forceall does not get here: it only     *)
(* makes enpkg download again.)                                            *)
ForceFails == Changes /\ Given("force") /\ Ends("crashed")

Begin(js) ==
    /\ GoOn("jobs") /\ jobs' = js
    /\ UNCHANGED actions

(* Mutant of FileJobs: a line brings its dependencies.                     *)
FileJobsWithDependencies == [i \in DOMAIN frozen |-> Job("install", frozen[i], TRUE)]

(* install_from_requirements: SolverMode.ROOT *)
FileJobs == [i \in DOMAIN frozen |-> Job("install", frozen[i], FALSE)]

Deps == ~ Given("no_deps")

(* updates_check *)
Updates(packages) ==
    {p \in packages :
        p.name # "epd" /\ \E q \in Available(p.name) : q.version > p.version}

(* update_all: the projects of the top prefix come first, in the order of  *)
(* its directories; one with older packages in both comes twice.           *)
UpdateJobs(packages, below, deps) ==
    LET Names(ps) == {p.name : p \in ps}
        Loop(order) == PickTwice(order, Names(Updates(packages)), Names(Updates(below)))
        JobsFor(loop) == [i \in DOMAIN loop |-> Job("install", Requirement(loop[i].item, 0), deps)]
    IN  \E top \in SetToSeqs(Names(packages)), rest \in SetToSeqs(Names(below) \ Names(packages)) :
            Begin(JobsFor(Loop(top \o rest)))

UpdateAll ==
    /\ Changes /\ ~ Given("force") /\ Given("update_all")
    /\ UpdateJobs(installed, Below, Deps)

InstallRequirements ==
    /\ Changes /\ ~ Given("force") /\ Given("requirements")
    /\ Begin(FileJobs)

(* "numpy 1.8" is one requirement. *)
Joined(words) ==
    IF Len(words) = 2 /\ words[2].name = "" /\ words[1].version = 0
    THEN <<Requirement(words[1].name, words[2].version)>>
    ELSE words

(* What was typed; the machine command line takes one word. *)
Typed == IF Given("machine") THEN cmd.words ELSE Joined(cmd.words)

(* enstaller is left out, unless with a version: needs_to_downgrade_enstaller *)
Requested ==
    LET all == Joined(cmd.words)
    IN  IF \E i \in DOMAIN all : all[i].name = "enstaller" /\ all[i].version # 0 THEN all
        ELSE Pick(all, {req \in Range(all) : req.name # "enstaller"})
Requests(name) == \E i \in DOMAIN Requested : Requested[i].name = name

Named ==
    /\ Changes
    /\ cmd.options \cap {"force", "update_all", "requirements"} = {}

NothingRequested ==
    /\ Named /\ cmd.words = <<>> /\ ~ Given("remove_enstaller")
    /\ Ends("usage")

(* Mutant of RemovalRefused: it only warns.                                *)
RemovalWarned == FALSE

(* "If you are sure you wish to remove enstaller, use: enpkg               *)
(* --remove-enstaller", and epd cannot be removed.                         *)
RemovalRefused == Given("remove") /\ (Requests("enstaller") \/ Requests("epd"))

Refuse ==
    /\ Named /\ cmd.words # <<>> /\ RemovalRefused
    /\ Ends(IF Requests("enstaller") THEN "done" ELSE "usage")

RemovePackages ==
    /\ Named /\ cmd.words # <<>> /\ Given("remove") /\ ~ RemovalRefused
    /\ Begin([i \in DOMAIN Requested |-> Job("remove", Requested[i], FALSE)])

(* Only after a yes; after a no there is nothing left to do. *)
RemoveEnstallerOption ==
    /\ Named /\ Given("remove_enstaller")
    /\ \/ Begin(<<Job("remove", Requirement("enstaller", 0), FALSE)>>)
       \/ FALSE \in PromptYesNo /\ Ends("done")

(* epd is for itself and has to be confirmed: epd_install_confirm.  After  *)
(* a no the command is over, with exit status 0.                           *)
InstallPackages ==
    /\ Named /\ cmd.words # <<>> /\ ~ Given("remove")
    /\ \/ Requests("epd") /\ Len(Requested) > 1 /\ Ends("usage")
       \/ Requests("epd") /\ Len(Requested) = 1 /\ FALSE \in PromptYesNo /\ Ends("done")
       \/ /\ ~ Requests("epd") \/ Len(Requested) = 1
          /\ Begin([i \in DOMAIN Requested |-> Job("install", Requested[i], Deps)])

-----------------------------------------------------------------------------
(* The jobs *)

Doing(op) ==
    /\ stage = "jobs" /\ jobs # <<>> /\ Head(jobs).op = op
    /\ UNCHANGED <<bootVars, cmd, before, frozen>>

NextJob == jobs' = Tail(jobs) /\ actions' = <<>> /\ stage' = "jobs" /\ UNCHANGED outcome

InPrefix(name) == {p \in installed : p.name = name}

(* remove_requirement, whatever version the requirement has. *)
PlanRemove ==
    LET found == InPrefix(Head(jobs).req.name)
    IN  /\ Doing("remove")
        /\ IF found = {} THEN NextJob
           ELSE /\ GoOn("execute") /\ UNCHANGED jobs
                /\ \E p \in found : actions' = <<Action("remove", p, FALSE)>>

(* Solver._install_actions, and install_req, which fetches all of it first. *)
InstallActions(plan) ==
    LET new == Pick(plan, Range(plan) \ installed)
        replacing == Pick(Reverse(new), {p \in Range(new) : InPrefix(p.name) # {}})
        old(p) == CHOOSE q \in InPrefix(p.name) : TRUE
    IN  [i \in DOMAIN new |-> Action("fetch", new[i], FALSE)]
        \o [i \in DOMAIN replacing |-> Action("remove", old(replacing[i]), FALSE)]
        \o [i \in DOMAIN new |-> Action("install", new[i], FALSE)]

Installs(p) == \E i \in DOMAIN actions : actions[i] = Action("install", p, FALSE)
AnyInstalled(steps, P(_)) ==
    \E i \in DOMAIN steps : steps[i].op = "install" /\ P(steps[i].package)

FromPypi(p) == p.product = "pypi"
Unavailable(p) == ~ p.available

(* install_req: broken dependencies end the command, then the user is      *)
(* asked, and then what is not in the subscription ends the command.       *)
PlanInstall ==
    LET job == Head(jobs)
        found == Newest({p \in Remote : Matches(p, job.req)})
    IN  /\ Doing("install")
        /\ \/ found = {} /\ Ends("failed")
           \/ \E p \in found :
                LET plan == IF job.deps THEN Closure[p] ELSE <<p>>
                    steps == InstallActions(plan)
                IN  IF plan = <<>> THEN Ends("failed")
                    ELSE IF FromPypi(p)
                    THEN actions' = steps /\ GoOn("confirm") /\ UNCHANGED jobs
                    ELSE IF AnyInstalled(steps, Unavailable) THEN Ends("failed")
                    ELSE /\ actions' = steps
                         /\ GoOn(IF AnyInstalled(steps, FromPypi) THEN "confirm" ELSE "execute")
                         /\ UNCHANGED jobs

(* Packages of PyPI have to be confirmed, once for a requirement; a no is  *)
(* sys.exit(0), whatever is left to do.                                    *)
Confirm ==
    /\ stage = "confirm"
    /\ \/ /\ TRUE \in PromptYesNo
          /\ ~ AnyInstalled(actions, Unavailable)
          /\ GoOn("execute") /\ UNCHANGED <<jobs, actions>>
       \/ TRUE \in PromptYesNo /\ AnyInstalled(actions, Unavailable) /\ Ends("failed")
       \/ FALSE \in PromptYesNo /\ Ends("done")
       \/ PromptYesNo = {} /\ Ends("failed")
    /\ UNCHANGED <<bootVars, cmd, before, frozen>>

(* Mutant of Runs: a removal makes do with a file name.                    *)
RemovesByName(action) == ~ action.byName \/ action.op = "remove"

(* An action is made from a package: it raises on a file name. *)
Runs(action) == ~ action.byName

(* What the first k actions make of the prefix. *)
After(k) ==
    LET did(op) == {actions[i].package : i \in {j \in 1..k : actions[j].op = op}}
    IN  (installed \ did("remove")) \cup did("install")

(* Enpkg.execute gets to the end, is interrupted by a failing download, by *)
(* another exception or by a kill, or an action is none that can run.      *)
Execute ==
    /\ stage = "execute"
    /\ IF DryRun THEN NextJob /\ UNCHANGED <<installed, unchecked>>
       ELSE \E k \in 0..Len(actions) :
            /\ \A i \in 1..k : Runs(actions[i])
            /\ installed' = After(k)
            /\ unchecked' = (unchecked /\ Enstallers' = Enstallers)
            /\ IF k = Len(actions) THEN NextJob
               ELSE IF Runs(actions[k + 1]) THEN Ends("stopped") ELSE Ends("crashed")
    /\ UNCHANGED <<saved, step, stopped, cmd, before, frozen>>

Finish ==
    /\ stage = "jobs" /\ jobs = <<>>
    /\ Ends("done")
    /\ UNCHANGED <<bootVars, cmd, before, frozen>>

(* The script runs when no command does. *)
Bootstraps ==
    /\ stage = "idle"
    /\ BootNext
    /\ cmd' = NoCommand /\ outcome' = "none" /\ before' = installed'
    /\ UNCHANGED <<stage, jobs, actions, frozen>>

States == {s \in SUBSET Range(Lines) :
              \A p, q \in s : p.name = q.name => p = q}

CmdNext ==
    \/ \E c \in Commands : Parse(c)
    \/ EnvOption \/ PrintHistory \/ ListOption \/ Freeze \/ Imports
    \/ \E s \in States : Revert(s)
    \/ RevertToNothing
    \/ AutoUpdate \/ Search \/ Info \/ WhatsNew
    \/ ForceFails \/ UpdateAll \/ InstallRequirements
    \/ NothingRequested \/ Refuse \/ RemovePackages \/ RemoveEnstallerOption \/ InstallPackages
    \/ PlanRemove \/ PlanInstall \/ Confirm \/ Execute \/ Finish
    \/ Bootstraps

CmdSpec == CmdInit /\ [][CmdNext]_allVars

-----------------------------------------------------------------------------
(* Properties *)

(* --force, an automatic update and a revert run into errors of enpkg      *)
(* itself; none of them happens after something was changed.  Nor does a   *)
(* dry run change anything, whatever it is combined with.                  *)
(* (dispatch_commands_with_enpkg, revert_actions, inplace_update)          *)
CrashChangesNothing ==
    outcome = "crashed" \/ (cmd # NoCommand /\ DryRun) => installed = before

(* A command that was not interrupted takes a project from the prefix only *)
(* if it was asked to remove it by name, and enstaller, unless by the      *)
(* machine command line, only if --remove-enstaller was confirmed:         *)
(* replacing, updating, restoring and forcing do not lose any.             *)
(* (_compute_reqs, remove_requirement, Solver._install_actions)            *)
NothingLost ==
    cmd # NoCommand /\ outcome # "stopped" =>
        \A p \in before :
            \/ InPrefix(p.name) # {}
            \/ p.name = "enstaller" /\ Given("remove_enstaller")
            \/ p.name # "enstaller" /\ Given("remove") /\ Requests(p.name)
            \/ {"machine", "remove"} \subseteq cmd.options /\ p.name = cmd.words[1].name

(* The user may be asked, and say no. *)
Human == ~ Given("machine")
MaySayNo == Human /\ ~ Given("yes")
Untouched(name) == InPrefix(name) = {p \in before : p.name = name}

(* Of every project that --freeze listed there is a version it listed (of  *)
(* one in both prefixes it lists two), or a no has left it as it was.      *)
FileRestored ==
    \A i \in DOMAIN frozen :
        \/ \E p \in InPrefix(frozen[i].name) : Requirement(p.name, p.version) \in Range(frozen)
        \/ MaySayNo /\ Untouched(frozen[i].name)

(* None of these is there, but enstaller; and nothing has happened if it   *)
(* was to be removed by its version.                                       *)
WordsRemoved ==
    \A i \in DOMAIN Typed :
        \/ InPrefix(Typed[i].name) = {}
        \/ Human /\ Typed[i].name = "enstaller" /\ Untouched("enstaller")
        \/ /\ Human /\ installed = before
           /\ \E j \in DOMAIN Typed : Typed[j].name = "enstaller" /\ Typed[j].version # 0

(* It is there, or was declined, or is enstaller, of which this one runs.  *)
RequirementMet ==
    \/ \E p \in installed : Matches(p, Typed[1])
    \/ MaySayNo /\ installed = before
    \/ Human /\ installed = before /\ Typed[1] = Requirement("enstaller", 0)

(* The exit status 0, which is all that SubprocessEnpkgExecutor looks at,  *)
(* means that what was asked for is done: --requirements with the output   *)
(* of --freeze has restored it, whatever was installed meanwhile and       *)
(* whatever packages depend on; what was to be removed is gone; the one    *)
(* requirement of an installation is met.  enpkg also exits with 0 when    *)
(* the user says no, when it refuses to remove enstaller and when it       *)
(* leaves enstaller out; then it has not touched what it was asked about.  *)
(* Nothing of this is so for the machine command line, and with --yes      *)
(* there is no no.  (install_from_requirements, install_req,               *)
(* remove_requirement, epd_install_confirm, _ask_pypi_confirmation,        *)
(* machine_cli)                                                            *)
DoneAsAsked ==
    outcome = "done" /\ cmd # NoCommand /\ ~ DryRun =>
        /\ Given("requirements") => FileRestored
        /\ Given("remove") => WordsRemoved
        /\ cmd.options \cap (Simple \cup Complex) = {} /\ Len(Typed) = 1 => RequirementMet
=============================================================================
