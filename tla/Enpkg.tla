------------------------------- MODULE Enpkg -------------------------------
(***************************************************************************)
(* enstaller/enpkg.py with the installing half of solver/core.py and       *)
(* cli/utils.install_req: an enpkg process turns a request into actions    *)
(* and executes them on the prefix that module EggInst describes, every    *)
(* step of EggInst being a step here.  The process keeps two Repository    *)
(* objects that are read from the _info.json files once, when it starts,   *)
(* and are updated by hand after every action.                             *)
(*                                                                         *)
(* Resolve is modelled by what it returns: a list of eggs of distinct      *)
(* projects in which dependencies come first (module Resolve).  The        *)
(* download cache is an atomic set of eggs (module EggCache), the history  *)
(* its latest state (module History).                                      *)
(***************************************************************************)
EXTENDS EggInst, Sublists, SequencesExt

CONSTANTS
    Plans,      \* the lists Resolve.install_sequence may return
    DepNames,   \* DepNames[n]: the names the packages called n depend on
    Version,    \* Version[e]: orders the eggs of one name
    Below,      \* the eggs installed in the other prefixes
    Outages     \* may downloads fail, processes be killed, eggs not install?

ASSUME EnpkgAssumption ==
    /\ Below \subseteq Eggs
    /\ DepNames \in [Names -> SUBSET Names]
    /\ Outages \in BOOLEAN
    /\ Plans \subseteq Seq(Eggs) \ {<<>>}
    /\ \A plan \in Plans : \A i, j \in DOMAIN plan :
        /\ EggName[plan[i]] = EggName[plan[j]] => i = j
        /\ EggName[plan[j]] \in DepNames[EggName[plan[i]]] => j < i

VARIABLES
    proc,     \* what the enpkg process is doing
    top,      \* top[e]: how often e is in _top_installed_repository
    all,      \* all[e]: how often e is in _installed_repository
    plan,     \* the list being installed, <<>> for a removal
    queue,    \* the actions of the command that are not done
    cache,    \* the eggs in the download cache
    hist      \* the latest state of the history

enpkgVars == <<proc, top, all, plan, queue, cache, hist>>
allVars == <<vars, enpkgVars>>

Action(op, e) == [op |-> op, egg |-> e]

(* What Repository._from_prefixes and egginst.get_installed read. *)
OnDisk == {info[n] : n \in {m \in metaDir : info[m] \in Eggs}}
Recorded == {json[n] : n \in {m \in metaDir : json[m] \in Eggs}}

(* get_installed loads every egginst.json: an unfinished one raises. *)
HistoryReadable == \A n \in metaDir : json[n] # Torn

NamedIn(repo, n) == {e \in EggsOf(n) : repo[e] > 0}

EnpkgInit ==
    /\ Init /\ ~ retrying
    /\ proc = "down"
    /\ top = [e \in Eggs |-> 0] /\ all = [e \in Eggs |-> 0]
    /\ plan = <<>> /\ queue = <<>>
    /\ cache = {} /\ hist = {}

-----------------------------------------------------------------------------
(* Requests *)

(* Enpkg.__init__ *)
Boot ==
    /\ proc = "down" /\ pc = "idle"
    /\ top' = [e \in Eggs |-> IF e \in OnDisk THEN 1 ELSE 0]
    /\ all' = [e \in Eggs |-> (IF e \in OnDisk THEN 1 ELSE 0)
                              + (IF e \in Below THEN 1 ELSE 0)]
    /\ proc' = "ready"
    /\ UNCHANGED <<vars, plan, queue, cache, hist>>

(* Mutant of NotInstalled: any version of the project will do.             *)
NameNotInstalled(seq) ==
    Pick(seq, {e \in Eggs : NamedIn(top, EggName[e]) = {}})

(* _filter_installed_packages *)
NotInstalled(seq) == Pick(seq, {e \in Eggs : top[e] = 0})

ToInstall(seq, force) ==
    CASE force = "NONE"      -> NotInstalled(seq)
      [] force = "MAIN_ONLY" -> NotInstalled(Front(seq)) \o <<Last(seq)>>
      [] force = "ALL"       -> seq

(* The packages that those of a list replace.                              *)
Replaces(seq) ==
    LET replacing == Pick(seq, {e \in Eggs : NamedIn(top, EggName[e]) # {}})
    IN  [i \in DOMAIN replacing |-> CHOOSE e \in NamedIn(top, EggName[replacing[i]]) : TRUE]

(* Mutant of RemoveActions: what is replaced is removed in install order.  *)
RemoveInInstallOrder(seq) ==
    [i \in DOMAIN Replaces(seq) |-> Action("remove", Replaces(seq)[i])]

(* _install_actions: what has the name of a new package is removed, in     *)
(* reverse install order.  Every name is in the repository at most once.   *)
RemoveActions(seq) ==
    LET old == Replaces(Reverse(seq))
    IN  [i \in DOMAIN old |-> Action("remove", old[i])]
InstallActions(seq) == [i \in 1..Len(seq) |-> Action("install", seq[i])]
FetchActions(seq) == [i \in 1..Len(seq) |-> Action("fetch", seq[i])]

(* Mutant of RequestInstall: each command fetches when it comes to it.     *)
RequestFetchingLate(p, force) ==
    /\ proc = "ready"
    /\ LET seq == ToInstall(p, force)
       IN  /\ \A i \in DOMAIN seq : Cardinality(NamedIn(top, EggName[seq[i]])) < 2
           /\ queue' = RemoveActions(seq) \o FetchActions(seq) \o InstallActions(seq)
    /\ plan' = p
    /\ proc' = "enter"
    /\ UNCHANGED <<vars, top, all, cache, hist>>

(* install_req fetches everything first. *)
RequestInstall(p, force) ==
    /\ proc = "ready"
    /\ LET seq == ToInstall(p, force)
       IN  /\ \A i \in DOMAIN seq : Cardinality(NamedIn(top, EggName[seq[i]])) < 2
           /\ queue' = FetchActions(seq) \o RemoveActions(seq) \o InstallActions(seq)
    /\ plan' = p
    /\ proc' = "enter"
    /\ UNCHANGED <<vars, top, all, cache, hist>>

(* Solver._remove: the lowest version of that name. *)
RequestRemove(n) ==
    /\ proc = "ready"
    /\ \E e \in NamedIn(top, n) :
        /\ \A f \in NamedIn(top, n) : Version[e] <= Version[f]
        /\ queue' = <<Action("remove", e)>>
    /\ plan' = <<>>
    /\ proc' = "enter"
    /\ UNCHANGED <<vars, top, all, cache, hist>>

-----------------------------------------------------------------------------
(* Execution: the loop of _ExecuteContext.__iter__ inside the history *)

(* An exception ends the process with its repositories and its queue. *)
ProcessEnds == proc' = "down" /\ queue' = <<>> /\ plan' = <<>>

EnterHistory ==
    /\ proc = "enter"
    /\ IF HistoryReadable
       THEN hist' = Recorded /\ proc' = "run" /\ UNCHANGED <<plan, queue>>
       ELSE ProcessEnds /\ UNCHANGED hist
    /\ UNCHANGED <<vars, top, all, cache>>

Next1(op) == proc = "run" /\ queue # <<>> /\ Head(queue).op = op
egg == Head(queue).egg
NextAction == queue' = Tail(queue) /\ proc' = "run"
Raise == proc' = "raise" /\ UNCHANGED queue

Fetch ==
    /\ Next1("fetch")
    /\ \/ cache' = cache \cup {egg} /\ NextAction
       \/ Outages /\ Raise /\ UNCHANGED cache
    /\ UNCHANGED <<vars, top, all, plan, hist>>

(* RemoveAction: no metadata directory, nothing to do; a directory with no *)
(* readable record, an exception.                                          *)
RemoveMissing ==
    /\ Next1("remove")
    /\ \/ ~ IsInstalled(EggName[egg]) /\ NextAction
       \/ IsInstalled(EggName[egg]) /\ ~ Readable(EggName[egg]) /\ Raise
    /\ UNCHANGED <<vars, top, all, plan, cache, hist>>

BeginRemove ==
    /\ Next1("remove")
    /\ StartRemove(EggName[egg])
    /\ proc' = "egg"
    /\ UNCHANGED <<top, all, plan, queue, cache, hist>>

(* InstallAction opens the egg in the cache. *)
BeginInstall ==
    /\ Next1("install")
    /\ IF egg \in cache
       THEN PreExtract(egg) /\ proc' = "egg" /\ UNCHANGED queue
       ELSE Raise /\ UNCHANGED vars
    /\ UNCHANGED <<top, all, plan, cache, hist>>

EggStep ==
    /\ proc = "egg"
    /\ InstallStep \/ RemoveStep
    /\ proc' = IF pc' = "idle" THEN "post" ELSE "egg"
    /\ UNCHANGED <<top, all, plan, queue, cache, hist>>

(* Mutant of PostRemove: one of the two repositories is forgotten.         *)
PostRemoveFromAll ==
    /\ proc = "post" /\ Head(queue).op = "remove"
    /\ IF all[egg] > 0
       THEN all' = [all EXCEPT ![egg] = 0] /\ NextAction
       ELSE Raise /\ UNCHANGED all
    /\ UNCHANGED <<vars, top, plan, cache, hist>>

(* delete_package drops every entry with that name and version. *)
PostRemove ==
    /\ proc = "post" /\ Head(queue).op = "remove"
    /\ IF top[egg] > 0 /\ all[egg] > 0
       THEN /\ top' = [top EXCEPT ![egg] = 0]
            /\ all' = [all EXCEPT ![egg] = 0]
            /\ NextAction
       ELSE Raise /\ UNCHANGED <<top, all>>
    /\ UNCHANGED <<vars, plan, cache, hist>>

(* _post_install reads the _info.json that is there now. *)
PostInstall ==
    /\ proc = "post" /\ Head(queue).op = "install"
    /\ LET found == info[EggName[egg]]
       IN  IF found \in Eggs
           THEN /\ top' = [top EXCEPT ![found] = @ + 1]
                /\ all' = [all EXCEPT ![found] = @ + 1]
                /\ NextAction
           ELSE Raise /\ UNCHANGED <<top, all>>
    /\ UNCHANGED <<vars, plan, cache, hist>>

(* __exit__, at the end of the queue: the process can take other requests. *)
Leave ==
    /\ proc = "run" /\ queue = <<>>
    /\ IF HistoryReadable
       THEN hist' = Recorded /\ proc' = "ready" /\ plan' = <<>> /\ UNCHANGED queue
       ELSE ProcessEnds /\ UNCHANGED hist
    /\ UNCHANGED <<vars, top, all, cache>>

(* __exit__, with an exception on its way to the top. *)
LeaveRaising ==
    /\ proc = "raise"
    /\ hist' = IF HistoryReadable THEN Recorded ELSE hist
    /\ ProcessEnds
    /\ UNCHANGED <<vars, top, all, cache>>

(* The process exits between commands. *)
Exit ==
    /\ proc = "ready"
    /\ ProcessEnds
    /\ UNCHANGED <<vars, top, all, cache, hist>>

(* An exception in the middle of an egg. *)
EggRaises ==
    /\ Outages /\ proc = "egg"
    /\ Interrupt
    /\ Raise
    /\ UNCHANGED <<top, all, plan, cache, hist>>

Kill ==
    /\ Outages /\ proc \notin {"down", "ready"}
    /\ IF proc = "egg" THEN Interrupt ELSE UNCHANGED vars
    /\ ProcessEnds
    /\ UNCHANGED <<top, all, cache, hist>>

EnpkgNext ==
    /\ \/ Boot \/ Exit
       \/ \E p \in Plans, force \in {"NONE", "MAIN_ONLY", "ALL"} : RequestInstall(p, force)
       \/ \E n \in Names : RequestRemove(n)
       \/ EnterHistory \/ Fetch
       \/ RemoveMissing \/ BeginRemove \/ BeginInstall
       \/ EggStep \/ PostRemove \/ PostInstall
       \/ Leave \/ LeaveRaising \/ EggRaises \/ Kill
    /\ UNCHANGED retrying

EnpkgSpec == EnpkgInit /\ [][EnpkgNext]_allVars

-----------------------------------------------------------------------------
(* Properties *)

(* The repository a process keeps in memory is the one on the disk when it *)
(* plans a command and after each of its actions: every package is in it   *)
(* once, none is in it that was removed, and a project is in it once, as   *)
(* the solver asserts.  The repository of all prefixes has those too, and  *)
(* of the packages of the lower prefix at most what is there: it may lack  *)
(* some.  (_post_install, RemoveAction.iter_execute, _from_prefixes)       *)
RepositoryFaithful ==
    proc \in {"ready", "enter", "run"} =>
        /\ \A e \in Eggs :
            /\ top[e] = IF e \in OnDisk THEN 1 ELSE 0
            /\ all[e] \in top[e]..(top[e] + IF e \in Below THEN 1 ELSE 0)
        /\ \A n \in Names : Cardinality(NamedIn(top, n)) < 2

(* Nothing is removed for an egg that is not in the cache: a download that *)
(* fails leaves the prefix as it was.  (install_req)                       *)
FetchedBeforeRemoved ==
    pc \in RemoveSteps =>
        \A i \in DOMAIN queue : queue[i].op = "install" => queue[i].egg \in cache

(* The installed packages among those the command replaces that lack a     *)
(* package they depend on that it replaces too.                            *)
Replaced == {EggName[queue[i].egg] : i \in DOMAIN queue} \cup IF cur = Absent THEN {} ELSE {who}
Broken ==
    {n \in Replaced : json[n] \in Eggs /\
        \E d \in DepNames[n] \cap Replaced : json[d] \notin Eggs}

(* Dependents are removed before, and installed after, what they depend    *)
(* on: no step of a command breaks a package that the command still has to *)
(* replace, so a command that stops leaves none of those broken.           *)
DependentsFirst == [][proc = "egg" => Broken' \cap Replaced \subseteq Broken]_allVars

(* A command that comes to its end has installed what was planned, but for *)
(* packages whose last operation was interrupted in an earlier command and *)
(* that pass for installed.                                                *)
PlanDelivered ==
    proc = "run" /\ queue = <<>> =>
        \A i \in DOMAIN plan :
            Settled(EggName[plan[i]]) => json[EggName[plan[i]]] = plan[i]

(* A command that comes to its end has installed what was planned. *)
PlanAlwaysDelivered ==
    proc = "run" /\ queue = <<>> =>
        \A i \in DOMAIN plan :
            json[EggName[plan[i]]] = plan[i] /\ Settled(EggName[plan[i]])
=============================================================================
