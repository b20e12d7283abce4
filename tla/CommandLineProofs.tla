------------------------- MODULE CommandLineProofs -------------------------
(***************************************************************************)
(* For any packages, indices, commands and calls: whatever enpkg and the   *)
(* machine command line do in between, the bootstrap script installs and   *)
(* keeps verified eggs only, unless it is killed; and a command that is    *)
(* not interrupted loses no project it was not told to remove, leaves the  *)
(* prefix alone if enpkg itself fails, and has done what it was asked for  *)
(* if it ends without an error.                                            *)
(*                                                                         *)
(* CmdInv says what holds at every stage of a command: what its actions    *)
(* will make of the prefix (IsPlanOf), what its jobs may remove            *)
(* (JobsWithin), and that what is not done yet is still to be done         *)
(* (Pending).                                                              *)
(***************************************************************************)
EXTENDS MachineCLI, SublistsProofs

(* What the file is at each step: there is none before a download, and one *)
(* to install.                                                             *)
SavedAt ==
    /\ step \in {"idle", "download", "wait", "check", "replace", "install"}
    /\ saved \in {"none", "partial", "other", "good"}
    /\ stopped \in BOOLEAN /\ unchecked \in BOOLEAN
    /\ step = "download" => saved = "none"
    /\ step \in {"replace", "install"} => saved # "none"

BootInv == SavedAt /\ BootstrapVerified

(* Commands do not touch the script and its egg; and an enstaller that     *)
(* they install comes from the indices.                                    *)
OfACommand ==
    /\ UNCHANGED <<step, saved, stopped>>
    /\ unchecked' \in {unchecked, FALSE}

(* There is no file yet. *)
LEMMA InitBootInv == CmdInit => BootInv
  BY DEF CmdInit, BootInit, BootInv, SavedAt, BootstrapVerified

(* Each step of the script. *)
LEMMA BootNextBootInv ==
    ASSUME BootInv, BootNext
    PROVE  BootInv'
  <1> USE DEF BootInv, SavedAt, BootstrapVerified
  <1>1. ASSUME StartBootstrap PROVE BootInv'
    BY <1>1 DEF StartBootstrap
  <1>2. ASSUME RunDownloader PROVE BootInv'
    BY <1>2 DEF RunDownloader
  <1>3. ASSUME DownloaderEnds PROVE BootInv'
    BY <1>3 DEF DownloaderEnds
  <1>4. ASSUME DownloadInsecure PROVE BootInv'
    BY <1>4 DEF DownloadInsecure
  <1>5. ASSUME CheckSum PROVE BootInv'
    BY <1>5 DEF CheckSum
  <1>6. ASSUME RemoveEnstaller PROVE BootInv'
    BY <1>6 DEF RemoveEnstaller
  <1>7. ASSUME InstallEnstaller PROVE BootInv'
    BY <1>7 DEF InstallEnstaller
  <1>8. ASSUME StopBootstrap PROVE BootInv'
    BY <1>8 DEF StopBootstrap
  <1> QED
    BY <1>1, <1>2, <1>3, <1>4, <1>5, <1>6, <1>7, <1>8 DEF BootNext

(* What a selected branch, and a job, leave alone. *)
LEMMA SelectedLeavesBoot ==
    ASSUME NEW stages, Selected(stages)
    PROVE  UNCHANGED bootVars
  BY DEF Selected

(* So does a job. *)
LEMMA DoingLeavesBoot ==
    ASSUME NEW op, Doing(op)
    PROVE  UNCHANGED bootVars
  BY DEF Doing

(* Each step of a command but Execute. *)
LEMMA CommandLeavesBoot ==
    ASSUME \/ \E c \in Commands : Parse(c)
           \/ EnvOption \/ PrintHistory \/ ListOption \/ Freeze \/ Imports
           \/ \E s \in States : Revert(s)
           \/ RevertToNothing
           \/ AutoUpdate \/ Search \/ Info \/ WhatsNew
           \/ ForceFails \/ UpdateAll \/ InstallRequirements
           \/ NothingRequested \/ Refuse \/ RemovePackages \/ RemoveEnstallerOption
           \/ InstallPackages \/ PlanRemove \/ PlanInstall \/ Confirm \/ Finish
           \/ \E c \in Calls : RunCommand(c)
           \/ ParseJson \/ ParseJsonFails
           \/ AuthenticateSession \/ AuthenticateSessionFails
           \/ FetchIndices \/ FetchIndicesFail
           \/ MachineInstall \/ MachineRemove \/ MachineUpdateAll
    PROVE  UNCHANGED bootVars
  <1>1. ASSUME NEW c, Parse(c) \/ RunCommand(c) PROVE UNCHANGED bootVars
    BY <1>1 DEF Parse, RunCommand
  <1>2. ASSUME NEW option, Shown(option) \/ Show(option) PROVE UNCHANGED bootVars
    BY <1>2, SelectedLeavesBoot DEF Shown, Show
  <1>3. ASSUME Freeze \/ Imports \/ RevertToNothing \/ AutoUpdate PROVE UNCHANGED bootVars
    BY <1>3, SelectedLeavesBoot DEF Freeze, Imports, RevertToNothing, AutoUpdate
  <1>4. ASSUME NEW s, Revert(s) PROVE UNCHANGED bootVars
    BY <1>4, SelectedLeavesBoot DEF Revert
  <1>5. ASSUME Changes PROVE UNCHANGED bootVars
    BY <1>5, SelectedLeavesBoot DEF Changes
  <1>6. ASSUME PlanRemove \/ PlanInstall PROVE UNCHANGED bootVars
    BY <1>6, DoingLeavesBoot DEF PlanRemove, PlanInstall
  <1>7. ASSUME Confirm \/ Finish PROVE UNCHANGED bootVars
    BY <1>7 DEF Confirm, Finish
  <1>8. ASSUME NEW from, NEW to, Continues(from, to) \/ Raises(from)
        PROVE  UNCHANGED bootVars
    BY <1>8, SelectedLeavesBoot DEF Continues, Raises
  <1>9. ASSUME NEW command, Selects(command) PROVE UNCHANGED bootVars
    BY <1>9, SelectedLeavesBoot DEF Selects
  <1>10. ASSUME \/ ForceFails \/ UpdateAll \/ InstallRequirements
                \/ NothingRequested \/ Refuse \/ RemovePackages
                \/ RemoveEnstallerOption \/ InstallPackages
         PROVE  Changes
    BY <1>10 DEF ForceFails, UpdateAll, InstallRequirements, NothingRequested, Refuse,
       RemovePackages, RemoveEnstallerOption, InstallPackages, Named
  <1>11. ASSUME \/ EnvOption \/ PrintHistory \/ ListOption \/ Search \/ Info
                \/ WhatsNew
         PROVE  \E option : Shown(option) \/ Show(option)
    BY <1>11 DEF EnvOption, PrintHistory, ListOption, Search, Info, WhatsNew
  <1>12. ASSUME \/ ParseJson \/ ParseJsonFails \/ AuthenticateSession
                \/ AuthenticateSessionFails \/ FetchIndices \/ FetchIndicesFail
         PROVE  \E from, to : Continues(from, to) \/ Raises(from)
    BY <1>12 DEF ParseJson, ParseJsonFails, AuthenticateSession, AuthenticateSessionFails,
       FetchIndices, FetchIndicesFail
  <1>13. ASSUME MachineInstall \/ MachineRemove \/ MachineUpdateAll
         PROVE  \E command : Selects(command)
    BY <1>13 DEF MachineInstall, MachineRemove, MachineUpdateAll
  <1>14. CASE \/ \E c \in Commands : Parse(c)
              \/ \E c \in Calls : RunCommand(c)
    BY <1>1, <1>14
  <1>15. CASE \/ EnvOption \/ PrintHistory \/ ListOption \/ Search \/ Info
              \/ WhatsNew
    BY <1>2, <1>11, <1>15
  <1>16. CASE \E s \in States : Revert(s)
    BY <1>4, <1>16
  <1>17. CASE \/ ForceFails \/ UpdateAll \/ InstallRequirements
              \/ NothingRequested \/ Refuse \/ RemovePackages
              \/ RemoveEnstallerOption \/ InstallPackages
    BY <1>5, <1>10, <1>17
  <1>18. CASE \/ ParseJson \/ ParseJsonFails \/ AuthenticateSession
              \/ AuthenticateSessionFails \/ FetchIndices \/ FetchIndicesFail
    BY <1>8, <1>12, <1>18
  <1>19. CASE MachineInstall \/ MachineRemove \/ MachineUpdateAll
    BY <1>9, <1>13, <1>19
  <1> QED
    BY <1>3, <1>6, <1>7, <1>14, <1>15, <1>16, <1>17, <1>18, <1>19

(* Actions are executed. *)
LEMMA ExecuteOfACommand ==
    ASSUME Execute, unchecked \in BOOLEAN
    PROVE  OfACommand
  <1>1. UNCHANGED <<step, saved, stopped>>
    BY DEF Execute
  <1>2. \/ unchecked' = unchecked
        \/ unchecked' = (unchecked /\ Enstallers' = Enstallers)
    BY DEF Execute
  <1> QED
    BY <1>1, <1>2 DEF OfACommand

(* Unless the script was killed, the egg its next run takes unchecked, and *)
(* the enstaller it installed, are verified, whatever commands run between *)
(* its runs.  (download_enstaller, bootstrap_enstaller)                    *)
THEOREM AlwaysVerified == MachineSpec => []BootstrapVerified
  <1>1. ASSUME BootInv, OfACommand PROVE BootInv'
    <2>1. SavedAt'
      BY <1>1 DEF BootInv, SavedAt, OfACommand
    <2>2. BootstrapVerified'
      BY <1>1 DEF BootInv, SavedAt, BootstrapVerified, OfACommand
    <2> QED
      BY <2>1, <2>2 DEF BootInv
  <1>2. BootInv /\ [MachineNext]_allVars => BootInv'
    <2> SUFFICES ASSUME BootInv, [MachineNext]_allVars PROVE BootInv'
      OBVIOUS
    <2>1. CASE UNCHANGED bootVars
      BY <2>1 DEF bootVars, BootInv, SavedAt, BootstrapVerified
    <2>2. CASE UNCHANGED allVars
      BY <2>1, <2>2 DEF allVars
    <2>3. CASE Execute
      BY <1>1, <2>3, ExecuteOfACommand DEF BootInv, SavedAt
    <2>4. CASE Bootstraps
      BY <2>4, BootNextBootInv DEF Bootstraps
    <2> QED
      BY <2>1, <2>2, <2>3, <2>4, CommandLeavesBoot DEF MachineNext, CmdNext
  <1>3. BootInv => BootstrapVerified
    BY DEF BootInv
  <1> QED
    BY InitBootInv, <1>2, <1>3, PTL DEF MachineSpec

-----------------------------------------------------------------------------
(* What the actions of a requirement do to a prefix *)

Packages == Range(Lines)
Actions == [op : {"fetch", "remove", "install"}, package : Packages, byName : BOOLEAN]
Names == STRING \cup {"", "enstaller"}
Asked == [name : Names, version : Nat]
Jobs == [op : {"install", "remove", "revert"}, req : Asked, deps : BOOLEAN]
Listed == [name : STRING, version : Nat \ {0}]

(* One version of a project each. *)
Unique(ps) == \A p, q \in ps : p.name = q.name => p = q

(* What the first k of these actions make of the packages ps.              *)
Made(ps, steps, k) ==
    (ps \ {steps[i].package : i \in {j \in 1..k : steps[j].op = "remove"}})
    \cup {steps[i].package : i \in {j \in 1..k : steps[j].op = "install"}}

(* Installations of packages of distinct projects, of which the installed  *)
(* ones are removed before, and no others.                                 *)
IsReplacement(ps, steps) ==
    /\ \A i \in DOMAIN steps : ~ steps[i].byName
    /\ \A i \in DOMAIN steps : steps[i].op = "install" =>
        /\ \A q \in ps : q.name = steps[i].package.name =>
            \E j \in DOMAIN steps : j < i /\ steps[j].op = "remove" /\ steps[j].package = q
        /\ \A j \in DOMAIN steps :
            steps[j].op = "install" /\ steps[j].package.name = steps[i].package.name => i = j
    /\ \A i \in DOMAIN steps : steps[i].op = "remove" =>
        \E j \in DOMAIN steps :
            steps[j].op = "install" /\ steps[j].package.name = steps[i].package.name

(* The actions of an installation meet its requirement, and without        *)
(* dependencies they are about that project only.                          *)
IsInstallation(ps, steps, job) ==
    /\ IsReplacement(ps, steps)
    /\ \E p \in Made(ps, steps, Len(steps)) : Matches(p, job.req)
    /\ ~ job.deps => \A i \in DOMAIN steps : steps[i].package.name = job.req.name

IsRemoval(ps, steps, job) ==
    \E p \in ps : p.name = job.req.name /\ steps = <<Action("remove", p, FALSE)>>

(* None of the actions of a revert can run.                                *)
IsRevert(steps) == steps # <<>> /\ \A i \in DOMAIN steps : steps[i].byName

(* The fields of an action. *)
LEMMA FieldsOfAction ==
    ASSUME NEW op, NEW p, NEW byName
    PROVE  /\ Action(op, p, byName).op = op
           /\ Action(op, p, byName).package = p
           /\ Action(op, p, byName).byName = byName
           /\ op \in {"fetch", "remove", "install"} /\ p \in Packages /\ byName \in BOOLEAN =>
                Action(op, p, byName) \in Actions
  BY DEF Action, Actions

(* The fields of one that has a package. *)
LEMMA FieldsOfSuch ==
    \A a, op, p : a = Action(op, p, FALSE) => a.op = op /\ a.package = p /\ ~ a.byName
  BY DEF Action

(* Wherever a replacement stops, there is one version of a project. *)
LEMMA MadeUnique ==
    ASSUME NEW ps, Unique(ps), NEW steps \in Seq(Actions), IsReplacement(ps, steps),
           NEW k \in 0..Len(steps)
    PROVE  Unique(Made(ps, steps, k))
  <1> SUFFICES ASSUME NEW p \in Made(ps, steps, k), NEW q \in Made(ps, steps, k),
                      p.name = q.name
               PROVE  p = q
    BY DEF Unique
  <1> DEFINE Stays(r) == r \in ps /\ \A j \in 1..k : steps[j].op = "remove" => steps[j].package # r
             Comes(r, i) == i \in 1..k /\ steps[i].op = "install" /\ steps[i].package = r
  <1>1. DOMAIN steps = 1..Len(steps) /\ Len(steps) \in Nat /\ 1..k \subseteq DOMAIN steps
    OBVIOUS
  <1>2. \A r \in Made(ps, steps, k) : Stays(r) \/ \E i : Comes(r, i)
    BY DEF Made
  <1>3. ASSUME NEW r, NEW s, NEW i, Stays(r), Comes(s, i), r.name = s.name PROVE FALSE
    <2>1. PICK j \in DOMAIN steps : j < i /\ steps[j].op = "remove" /\ steps[j].package = r
      BY <1>1, <1>3 DEF IsReplacement
    <2>2. j \in 1..k
      BY <1>1, <1>3, <2>1
    <2> QED
      BY <1>3, <2>1, <2>2
  <1>4. ASSUME NEW i, NEW j, Comes(p, i), Comes(q, j) PROVE p = q
    <2>1. i = j
      BY <1>1, <1>4 DEF IsReplacement
    <2> QED
      BY <1>4, <2>1
  <1>5. Stays(p) /\ Stays(q) => p = q
    BY DEF Unique
  <1> HIDE DEF Stays, Comes
  <1> QED
    BY <1>2, <1>3, <1>4, <1>5

(* A replacement that is not stopped keeps every project. *)
LEMMA MadeKeeps ==
    ASSUME NEW ps, NEW steps \in Seq(Actions), IsReplacement(ps, steps), NEW p \in ps
    PROVE  \E q \in Made(ps, steps, Len(steps)) : q.name = p.name
  <1>1. DOMAIN steps = 1..Len(steps)
    OBVIOUS
  <1>2. CASE \E i \in 1..Len(steps) : steps[i].op = "remove" /\ steps[i].package = p
    <2>1. PICK j \in 1..Len(steps) : steps[j].op = "install" /\ steps[j].package.name = p.name
      BY <1>1, <1>2 DEF IsReplacement
    <2>2. steps[j].package \in Made(ps, steps, Len(steps))
      BY <2>1 DEF Made
    <2> QED
      BY <2>1, <2>2
  <1>3. CASE ~ \E i \in 1..Len(steps) : steps[i].op = "remove" /\ steps[i].package = p
    <2>1. p \in Made(ps, steps, Len(steps))
      BY <1>3 DEF Made
    <2> QED
      BY <2>1
  <1> QED
    BY <1>2, <1>3

(* Only packages get into the prefix. *)
LEMMA MadeOfPackages ==
    ASSUME NEW ps \in SUBSET Packages, NEW steps \in Seq(Actions), NEW k \in 0..Len(steps)
    PROVE  Made(ps, steps, k) \in SUBSET Packages
  <1>1. \A i \in 1..k : steps[i].package \in Packages
    <2>1. \A i \in 1..Len(steps) : steps[i] \in Actions
      OBVIOUS
    <2> QED
      BY <2>1 DEF Actions
  <1> QED
    BY <1>1 DEF Made

(* The model's name for it. *)
LEMMA AfterIsMade ==
    ASSUME NEW k
    PROVE  After(k) = Made(installed, actions, k)
  BY DEF After, Made

(* The list of Solver._install_actions for a plan, action by action.       *)
IsPlanned(steps, plan, new, old, n, m) ==
    /\ n \in Nat /\ m \in Nat /\ DOMAIN steps = 1..(n + m + n)
    /\ DOMAIN new = 1..n /\ DOMAIN old = 1..m
    /\ \A i \in 1..n : /\ steps[i] = Action("fetch", new[i], FALSE)
                       /\ steps[n + m + i] = Action("install", new[i], FALSE)
    /\ \A i \in 1..m : steps[n + i] = Action("remove", old[i], FALSE)
    /\ \A i \in 1..n : new[i] \notin installed /\ \E k \in DOMAIN plan : new[i] = plan[k]
    /\ \A i, j \in 1..n : new[i].name = new[j].name => i = j
    /\ \A k \in DOMAIN plan : plan[k] \notin installed => \E i \in 1..n : new[i] = plan[k]
    /\ \A i \in 1..m : old[i] \in installed /\ \E j \in 1..n : old[i].name = new[j].name
    /\ \A i \in 1..n, q \in installed : q.name = new[i].name => \E j \in 1..m : old[j] = q

(* It is of that form. *)
LEMMA InstallActionsProperties ==
    ASSUME installed \in SUBSET Packages, Unique(installed), NEW plan \in Seq(Packages),
           \A i, j \in DOMAIN plan : plan[i].name = plan[j].name => i = j
    PROVE  /\ InstallActions(plan) \in Seq(Actions)
           /\ \E new, old, n, m : IsPlanned(InstallActions(plan), plan, new, old, n, m)
  <1> DEFINE new == Pick(plan, Range(plan) \ installed)
             keep == {p \in Range(new) : InPrefix(p.name) # {}}
             replacing == Pick(Reverse(new), keep)
             old == [i \in DOMAIN replacing |-> CHOOSE q \in InPrefix(replacing[i].name) : TRUE]
             fetches == [i \in DOMAIN new |-> Action("fetch", new[i], FALSE)]
             removals == [i \in DOMAIN replacing |->
                Action("remove", CHOOSE q \in InPrefix(replacing[i].name) : TRUE, FALSE)]
             installs == [i \in DOMAIN new |-> Action("install", new[i], FALSE)]
             n == Len(new)
             m == Len(replacing)
  <1>1. new \in Seq(Packages)
    BY PickProperties
  <1>2. PICK at : IsSublist(new, plan, Range(plan) \ installed, at)
    BY PickProperties
  <1>3. InstallActions(plan) = fetches \o removals \o installs
    BY DEF InstallActions
  <1> HIDE DEF new
  <1>4. /\ Reverse(new) \in Seq(Packages) /\ DOMAIN Reverse(new) = 1..n /\ n \in Nat
        /\ DOMAIN new = 1..n /\ \A i \in 1..n : new[i] \in Packages
        /\ \A i \in 1..n : Reverse(new)[i] = new[n - i + 1]
    BY <1>1, ReverseProperties
  <1>5. replacing \in Seq(Packages)
    BY <1>4, PickProperties
  <1>6. PICK back : IsSublist(replacing, Reverse(new), keep, back)
    BY <1>4, PickProperties
  <1>7. m \in Nat /\ DOMAIN replacing = 1..m
    BY <1>5
  <1>8. ASSUME NEW i \in 1..m
        PROVE  /\ old[i] \in installed /\ old[i] \in Packages
               /\ old[i].name = replacing[i].name
               /\ \E j \in 1..n : replacing[i] = new[j]
    <2>1. replacing[i] \in keep /\ back[i] \in 1..n /\ replacing[i] = Reverse(new)[back[i]]
      BY <1>4, <1>6, <1>7 DEF IsSublist
    <2>2. old[i] \in InPrefix(replacing[i].name)
      BY <1>7, <2>1
    <2>3. n - back[i] + 1 \in 1..n
      BY <1>4, <2>1
    <2> QED
      BY <1>4, <2>1, <2>2, <2>3 DEF InPrefix
  <1>9. ASSUME NEW i \in 1..n, NEW q \in installed, q.name = new[i].name
        PROVE  \E j \in 1..m : old[j] = q
    <2> DEFINE r == n - i + 1
    <2>1. r \in 1..n /\ Reverse(new)[r] = new[i]
      BY <1>4
    <2>2. new[i] \in keep
      BY <1>4, <1>9 DEF InPrefix, Range
    <2> HIDE DEF r
    <2>3. PICK j \in 1..m : back[j] = r
      BY <1>4, <1>6, <1>7, <2>1, <2>2 DEF IsSublist
    <2>4. replacing[j] = new[i]
      BY <1>6, <1>7, <2>1, <2>3 DEF IsSublist
    <2>5. old[j] \in installed /\ old[j].name = q.name
      BY <1>8, <1>9, <2>4
    <2> QED
      BY <2>5 DEF Unique
  <1>10. ASSUME NEW i \in 1..n
         PROVE  new[i] \notin installed /\ at[i] \in DOMAIN plan /\ new[i] = plan[at[i]]
    BY <1>2, <1>4 DEF IsSublist
  <1>11. ASSUME NEW i \in 1..n, NEW j \in 1..n, new[i].name = new[j].name PROVE i = j
    <2>1. at[i] = at[j]
      BY <1>10, <1>11
    <2>2. ~ i < j /\ ~ j < i
      <3>1. at[i] \in Nat /\ at[j] \in Nat
        <4>1. DOMAIN plan = 1..Len(plan)
          OBVIOUS
        <4> QED
          BY <1>10, <4>1
      <3>2. i < j => at[i] < at[j]
        BY <1>2, <1>4 DEF IsSublist
      <3>3. j < i => at[j] < at[i]
        BY <1>2, <1>4 DEF IsSublist
      <3> QED
        BY <2>1, <3>1, <3>2, <3>3
    <2> QED
      BY <1>4, <2>2
  <1>12. ASSUME NEW k \in DOMAIN plan, plan[k] \notin installed
         PROVE  \E i \in 1..n : new[i] = plan[k]
    <2>1. plan[k] \in Range(plan) \ installed
      BY <1>12 DEF Range
    <2>2. PICK i \in DOMAIN new : at[i] = k
      BY <1>2, <2>1 DEF IsSublist
    <2> QED
      BY <1>4, <1>10, <2>2
  <1>13. DOMAIN old = 1..m
    BY <1>7
  <1>14. removals = [i \in DOMAIN removals |-> removals[i]]
    OBVIOUS
  <1>15. DOMAIN removals = 1..m /\ \A i \in 1..m : removals[i] = Action("remove", old[i], FALSE)
    <2> HIDE DEF replacing, keep, m
    <2> QED
      BY <1>7
  <1> HIDE DEF replacing, keep, old, removals, m, n
  <1>16. /\ fetches \in Seq(Actions) /\ installs \in Seq(Actions) /\ removals \in Seq(Actions)
         /\ Len(fetches) = n /\ Len(installs) = n /\ Len(removals) = m
    <2>1. /\ \A i \in 1..n : /\ Action("fetch", new[i], FALSE) \in Actions
                             /\ Action("install", new[i], FALSE) \in Actions
          /\ \A i \in 1..m : Action("remove", old[i], FALSE) \in Actions
      BY <1>4, <1>8, FieldsOfAction
    <2>2. fetches \in [1..n -> Actions] /\ installs \in [1..n -> Actions]
      BY <1>4, <2>1
    <2>4. removals \in [1..m -> Actions]
      <3>1. removals = [i \in 1..m |-> Action("remove", old[i], FALSE)]
        BY <1>15, <1>14
      <3> QED
        BY <2>1, <3>1
    <2>3. fetches \in Seq(Actions) /\ installs \in Seq(Actions) /\ removals \in Seq(Actions)
      <3> HIDE DEF fetches, installs, removals
      <3>1. [1..n -> Actions] \subseteq Seq(Actions) /\ [1..m -> Actions] \subseteq Seq(Actions)
        BY <1>4, <1>7, SeqDef
      <3> QED
        BY <2>2, <2>4, <3>1
    <2>5. DOMAIN fetches = 1..n /\ DOMAIN installs = 1..n /\ DOMAIN removals = 1..m
      BY <1>4, <1>15
    <2> HIDE DEF fetches, installs
    <2> QED
      <3>1. \A s \in Seq(Actions), k \in Nat : DOMAIN s = 1..k => Len(s) = k
        OBVIOUS
      <3> QED
        BY <1>4, <1>7, <2>3, <2>5, <3>1
  <1>17. /\ \A i \in 1..n : /\ fetches[i] = Action("fetch", new[i], FALSE)
                            /\ installs[i] = Action("install", new[i], FALSE)
         /\ \A i \in 1..m : removals[i] = Action("remove", old[i], FALSE)
    BY <1>4, <1>15
  <1> HIDE DEF fetches, installs
  <1>18. /\ InstallActions(plan) \in Seq(Actions)
         /\ IsThree(InstallActions(plan), fetches, removals, installs, n, m, n)
    BY <1>3, <1>16, ConcatThree
  <1> DEFINE steps == InstallActions(plan)
  <1> HIDE DEF steps
  <1>19. /\ DOMAIN steps = 1..(n + m + n)
         /\ \A i \in 1..n : /\ steps[i] = Action("fetch", new[i], FALSE)
                            /\ steps[n + m + i] = Action("install", new[i], FALSE)
         /\ \A i \in 1..m : steps[n + i] = Action("remove", old[i], FALSE)
    BY <1>17, <1>18 DEF IsThree, steps
  <1>20. IsPlanned(steps, plan, new, old, n, m)
    <2>1. \A i \in 1..n : new[i] \notin installed /\ \E k \in DOMAIN plan : new[i] = plan[k]
      BY <1>10
    <2>2. \A i \in 1..m : old[i] \in installed /\ \E j \in 1..n : old[i].name = new[j].name
      BY <1>8
    <2> QED
      BY <1>4, <1>7, <1>9, <1>11, <1>12, <1>13, <1>19, <2>1, <2>2 DEF IsPlanned
  <1> QED
    BY <1>18, <1>20 DEF steps

(* So the actions of a plan are an installation of what comes last in it,  *)
(* and leave other projects alone.                                         *)
LEMMA PlanIsInstallation ==
    ASSUME installed \in SUBSET Packages, Unique(installed), NEW plan \in Seq(Packages),
           \A i, j \in DOMAIN plan : plan[i].name = plan[j].name => i = j
    PROVE  LET steps == InstallActions(plan)
           IN  /\ steps \in Seq(Actions) /\ IsReplacement(installed, steps)
               /\ \A k \in DOMAIN plan : plan[k] \in Made(installed, steps, Len(steps))
               /\ \A i \in DOMAIN steps :
                    \E k \in DOMAIN plan : steps[i].package.name = plan[k].name
  <1> DEFINE steps == InstallActions(plan)
  <1>1. steps \in Seq(Actions)
    BY InstallActionsProperties
  <1>2. PICK new, old, n, m : IsPlanned(steps, plan, new, old, n, m)
    BY InstallActionsProperties
  <1> HIDE DEF steps
  <1>3. /\ n \in Nat /\ m \in Nat /\ DOMAIN steps = 1..(n + m + n) /\ DOMAIN steps = 1..Len(steps)
    BY <1>1, <1>2 DEF IsPlanned
  <1>4. ASSUME NEW i \in 1..n
        PROVE  /\ i \in DOMAIN steps /\ n + m + i \in DOMAIN steps
               /\ steps[i].op = "fetch" /\ steps[i].package = new[i] /\ ~ steps[i].byName
               /\ steps[n + m + i].op = "install" /\ steps[n + m + i].package = new[i]
               /\ ~ steps[n + m + i].byName
    <2>1. /\ steps[i] = Action("fetch", new[i], FALSE)
          /\ steps[n + m + i] = Action("install", new[i], FALSE)
      BY <1>2 DEF IsPlanned
    <2>2. i \in DOMAIN steps /\ n + m + i \in DOMAIN steps
      BY <1>3
    <2>3. steps[i].op = "fetch" /\ steps[i].package = new[i] /\ ~ steps[i].byName
      BY <2>1, FieldsOfSuch
    <2>4. /\ steps[n + m + i].op = "install" /\ steps[n + m + i].package = new[i]
          /\ ~ steps[n + m + i].byName
      BY <2>1, FieldsOfSuch
    <2> QED
      BY <2>2, <2>3, <2>4
  <1>5. ASSUME NEW i \in 1..m
        PROVE  /\ n + i \in DOMAIN steps
               /\ steps[n + i].op = "remove" /\ steps[n + i].package = old[i] /\ ~ steps[n + i].byName
    <2>1. steps[n + i] = Action("remove", old[i], FALSE)
      BY <1>2 DEF IsPlanned
    <2>2. n + i \in DOMAIN steps
      BY <1>3
    <2> QED
      BY <2>1, <2>2, FieldsOfSuch
  <1>6. ASSUME NEW i \in DOMAIN steps
        PROVE  \/ i \in 1..n
               \/ \E k \in 1..m : i = n + k
               \/ \E k \in 1..n : i = n + m + k
    <2>1. i \in 1..(n + m + n) /\ n \in Nat /\ m \in Nat
      BY <1>3
    <2>2. IsPlace(i, n, m, n)
      BY <2>1, PlaceOfThree
    <2> QED
      BY <2>2 DEF IsPlace
  <1>7. ASSUME NEW i \in DOMAIN steps, steps[i].op = "install"
        PROVE  \E k \in 1..n : i = n + m + k
    BY <1>4, <1>5, <1>6, <1>7
  <1>8. ASSUME NEW i \in DOMAIN steps, steps[i].op = "remove"
        PROVE  \E k \in 1..m : i = n + k
    BY <1>4, <1>5, <1>6, <1>8
  <1>9. ASSUME NEW i \in DOMAIN steps, steps[i].op = "install"
        PROVE  /\ \A q \in installed : q.name = steps[i].package.name =>
                    \E j \in DOMAIN steps :
                        j < i /\ steps[j].op = "remove" /\ steps[j].package = q
               /\ \A j \in DOMAIN steps :
                    steps[j].op = "install" /\ steps[j].package.name = steps[i].package.name => i = j
    <2>1. PICK k \in 1..n : i = n + m + k
      BY <1>7, <1>9
    <2>2. steps[i].package = new[k]
      BY <1>4, <2>1
    <2>3. ASSUME NEW q \in installed, q.name = steps[i].package.name
          PROVE  \E j \in DOMAIN steps : j < i /\ steps[j].op = "remove" /\ steps[j].package = q
      <3>1. PICK l \in 1..m : old[l] = q
        BY <1>2, <2>2, <2>3 DEF IsPlanned
      <3>2. n + l < i
        BY <1>3, <2>1
      <3> QED
        BY <1>5, <3>1, <3>2
    <2>4. ASSUME NEW j \in DOMAIN steps, steps[j].op = "install",
                 steps[j].package.name = steps[i].package.name
          PROVE  i = j
      <3>1. PICK l \in 1..n : j = n + m + l
        BY <1>7, <2>4
      <3>2. steps[j].package = new[l]
        BY <1>4, <3>1
      <3>3. k = l
        BY <1>2, <2>2, <2>4, <3>2 DEF IsPlanned
      <3> QED
        BY <2>1, <3>1, <3>3
    <2> QED
      BY <2>3, <2>4
  <1>10. ASSUME NEW i \in DOMAIN steps, steps[i].op = "remove"
         PROVE  \E j \in DOMAIN steps :
                    steps[j].op = "install" /\ steps[j].package.name = steps[i].package.name
    <2>1. PICK k \in 1..m : i = n + k
      BY <1>8, <1>10
    <2>2. PICK l \in 1..n : old[k].name = new[l].name
      BY <1>2 DEF IsPlanned
    <2> QED
      BY <1>4, <1>5, <2>1, <2>2
  <1>11. \A i \in DOMAIN steps : ~ steps[i].byName
    BY <1>4, <1>5, <1>6
  <1>12. IsReplacement(installed, steps)
    BY <1>9, <1>10, <1>11 DEF IsReplacement
  <1>13. ASSUME NEW k \in DOMAIN plan PROVE plan[k] \in Made(installed, steps, Len(steps))
    <2>1. CASE plan[k] \in installed
      <3>1. ASSUME NEW i \in 1..Len(steps), steps[i].op = "remove", steps[i].package = plan[k]
            PROVE  FALSE
        <4>1. PICK l \in 1..m : i = n + l
          BY <1>3, <1>8, <3>1
        <4>2. PICK j \in 1..n : old[l].name = new[j].name
          BY <1>2 DEF IsPlanned
        <4>3. PICK h \in DOMAIN plan : new[j] = plan[h]
          BY <1>2 DEF IsPlanned
        <4>4. plan[k].name = plan[h].name
          BY <1>5, <3>1, <4>1, <4>2, <4>3
        <4>5. new[j] \in installed
          BY <2>1, <4>3, <4>4
        <4> QED
          BY <1>2, <4>5 DEF IsPlanned
      <3> QED
        BY <2>1, <3>1 DEF Made
    <2>2. CASE plan[k] \notin installed
      <3>1. PICK i \in 1..n : new[i] = plan[k]
        BY <1>2, <2>2 DEF IsPlanned
      <3>2. /\ n + m + i \in 1..Len(steps) /\ steps[n + m + i].op = "install"
            /\ steps[n + m + i].package = plan[k]
        BY <1>3, <1>4, <3>1
      <3> QED
        BY <3>2 DEF Made
    <2> QED
      BY <2>1, <2>2
  <1>14. ASSUME NEW i \in DOMAIN steps
         PROVE  \E k \in DOMAIN plan : steps[i].package.name = plan[k].name
    <2>1. PICK j \in 1..n : steps[i].package.name = new[j].name
      <3>1. CASE i \in 1..n
        BY <1>4, <3>1
      <3>2. CASE \E k \in 1..n : i = n + m + k
        BY <1>4, <3>2
      <3>3. CASE \E k \in 1..m : i = n + k
        <4>1. PICK k \in 1..m : i = n + k
          BY <3>3
        <4>2. PICK j \in 1..n : old[k].name = new[j].name
          BY <1>2 DEF IsPlanned
        <4> QED
          BY <1>5, <4>1, <4>2
      <3> QED
        BY <1>6, <3>1, <3>2, <3>3
    <2> QED
      BY <1>2, <2>1 DEF IsPlanned
  <1> QED
    BY <1>1, <1>12, <1>13, <1>14 DEF steps

-----------------------------------------------------------------------------
(* The inductive invariant *)

(* With the settings and an index still to come; and at work.              *)
Early == {"start", "selected", "parse", "authenticate", "fetch", "machine"}
Late == {"jobs", "confirm", "execute"}

(* The projects that the command may take from the prefix.                 *)
Removable ==
    {name \in Names :
        \/ name = "enstaller" /\ Given("remove_enstaller")
        \/ name # "enstaller" /\ Given("remove") /\ Requests(name)
        \/ {"machine", "remove"} \subseteq cmd.options /\ name = cmd.words[1].name}

(* Of every project there was there is one, but of these.                  *)
Keeps(was, ps, names) ==
    \A p \in was : (\E q \in ps : q.name = p.name) \/ p.name \in names

JobsWithin(js, names) ==
    \A i \in DOMAIN js : js[i].op = "remove" => js[i].req.name \in names

(* The actions are what the first job needs.                               *)
IsPlanOf(was, ps, js, steps) ==
    /\ js # <<>>
    /\ \/ Head(js).op = "revert" /\ IsRevert(steps) /\ ps = was
       \/ Head(js).op = "remove" /\ IsRemoval(ps, steps, Head(js))
       \/ Head(js).op = "install" /\ IsInstallation(ps, steps, Head(js))

(* What was typed, but enstaller; the machine command line leaves nothing  *)
(* out.                                                                    *)
Wanted == IF Given("machine") THEN cmd.words ELSE Requested

Of(ps, name) == {p \in ps : p.name = name}

(* What a command was asked for is there, or as it was and still to be     *)
(* done; and nothing else is, that would undo it.                          *)
FilePending(listed, was, js, ps) ==
    /\ \A i \in DOMAIN js : js[i].op = "install" /\ ~ js[i].deps /\ js[i].req \in Range(listed)
    /\ \A i \in DOMAIN listed :
        \/ \E p \in ps : p.name = listed[i].name /\ Requirement(p.name, p.version) \in Range(listed)
        \/ /\ Of(ps, listed[i].name) = Of(was, listed[i].name)
           /\ \E j \in DOMAIN js : js[j].req = listed[i]

RemovalPending(wanted, names, was, js, ps) ==
    /\ \A i \in DOMAIN js : js[i].op = "remove"
    /\ \A i \in DOMAIN wanted :
        \/ \A p \in ps : p.name # wanted[i].name
        \/ \E j \in DOMAIN js : js[j].req.name = wanted[i].name
    /\ ps \subseteq was /\ \A p \in was \ ps : p.name \in names

OnePending(wanted, was, js, ps) ==
    /\ Len(wanted) = 1 =>
        \/ Len(js) = 1 /\ js[1].op = "install" /\ js[1].req = wanted[1] /\ ps = was
        \/ js = <<>> /\ \E p \in ps : Matches(p, wanted[1])
    /\ wanted = <<>> => js = <<>> /\ ps = was

Pending(options, wanted, names, listed, was, js, ps) ==
    /\ "requirements" \in options => FilePending(listed, was, js, ps)
    /\ "remove" \in options => RemovalPending(wanted, names, was, js, ps)
    /\ options \cap (Simple \cup Complex) = {} => OnePending(wanted, was, js, ps)

CmdTypeOK ==
    /\ installed \subseteq Packages
    /\ stage \in {"idle"} \cup Early \cup Late
    /\ jobs \in Seq(Jobs) /\ actions \in Seq(Actions) /\ frozen \in Seq(Listed)

(* Which command is where; the script runs when none does.                 *)
Busy ==
    /\ stage \in {"start", "selected"} => cmd \in Commands
    /\ stage \in Early \ {"start", "selected"} => cmd \in Calls
    /\ stage \in Late => cmd \in Commands \cup Calls
    /\ stage # "idle" /\ cmd \in Commands => ~ UsageError(cmd)
    /\ stage # "idle" => step = "idle" /\ outcome = "none"

CmdInv ==
    /\ CmdTypeOK
    /\ Busy
    /\ Unique(installed) /\ (step = "install" => Enstallers = {})
    /\ stage \in Early \/ DryRun \/ outcome = "crashed" => installed = before
    /\ outcome # "stopped" => Keeps(before, installed, Removable)
    /\ stage \in Late => JobsWithin(jobs, Removable)
    /\ stage \in {"confirm", "execute"} => IsPlanOf(before, installed, jobs, actions)
    /\ stage = "confirm" => Head(jobs).op = "install"
    /\ stage \in Late /\ ~ DryRun =>
        Pending(cmd.options, Wanted, Removable, frozen, before, jobs, installed)
    /\ DoneAsAsked

(* There are finitely many packages, and any two are told apart. *)
LEMMA PackagesAreFinite == IsFiniteSet(Packages)
  <1>1. Lines \in Seq(Packages)
    BY CommandLineAssumption DEF Packages
  <1>2. Lines \in Surjection(1..Len(Lines), Packages) /\ Len(Lines) \in Nat
    BY <1>1 DEF Packages, Range, Surjection
  <1>3. IsFiniteSet(1..Len(Lines))
    BY <1>2, FS_Interval
  <1> QED
    BY <1>2, <1>3, FS_Surjection

(* As the assumption says, for the names that are used here. *)
LEMMA PackageFields ==
    /\ \A p \in Packages : p.name \in STRING /\ p.version \in Nat \ {0}
    /\ \A p, q \in Packages : p.name = q.name /\ p.version = q.version => p = q
    /\ Remote \subseteq Packages /\ Below \subseteq Packages /\ BootEgg \in Packages
  BY CommandLineAssumption DEF Packages

(* The requirement of a package, or of a project. *)
LEMMA RequirementOfPackage ==
    ASSUME NEW p \in Packages
    PROVE  /\ Requirement(p.name, 0) \in Asked
           /\ Requirement(p.name, p.version) \in Listed
           /\ Requirement(p.name, p.version).name = p.name
           /\ Requirement(p.name, p.version).version = p.version
  BY PackageFields DEF Requirement, Asked, Names, Listed

(* A job. *)
LEMMA FieldsOfJob ==
    ASSUME NEW op, NEW req, NEW deps
    PROVE  /\ Job(op, req, deps).op = op /\ Job(op, req, deps).req = req
           /\ Job(op, req, deps).deps = deps
           /\ op \in {"install", "remove", "revert"} /\ req \in Asked
             /\ deps \in BOOLEAN =>
                Job(op, req, deps) \in Jobs
  BY DEF Job, Jobs

(* The elements of a list, whatever they are. *)
LEMMA ElementsOfList ==
    ASSUME NEW S, NEW s \in Seq(S)
    PROVE  /\ Len(s) \in Nat /\ DOMAIN s = 1..Len(s)
           /\ \A i \in DOMAIN s : s[i] \in S
           /\ s # <<>> => Len(s) # 0
  OBVIOUS

(* A list is made by its elements. *)
LEMMA ListOf ==
    ASSUME NEW S, NEW n \in Nat, NEW s \in [1..n -> S]
    PROVE  s \in Seq(S) /\ Len(s) = n
  <1>1. s \in Seq(S)
    BY SeqDef
  <1> QED
    BY <1>1

(* A list of one. *)
LEMMA OneElement ==
    ASSUME NEW S, NEW x \in S
    PROVE  <<x>> \in Seq(S) /\ Len(<<x>>) = 1 /\ DOMAIN <<x>> = {1} /\ <<x>>[1] = x
  OBVIOUS

(* The first element of a list, and the others. *)
LEMMA HeadTail ==
    ASSUME NEW S, NEW s \in Seq(S), s # <<>>
    PROVE  /\ Head(s) = s[1] /\ Head(s) \in S /\ 1 \in DOMAIN s
           /\ Tail(s) \in Seq(S)
           /\ \A i \in DOMAIN Tail(s) : i + 1 \in DOMAIN s /\ Tail(s)[i] = s[i + 1]
           /\ \A j \in DOMAIN s : j = 1 \/ \E i \in DOMAIN Tail(s) : Tail(s)[i] = s[j]
           /\ Len(s) = 1 => Tail(s) = <<>>
  <1>1. /\ Len(s) \in Nat \ {0} /\ DOMAIN s = 1..Len(s)
        /\ Tail(s) \in Seq(S) /\ Len(Tail(s)) = Len(s) - 1 /\ DOMAIN Tail(s) = 1..(Len(s) - 1)
        /\ Head(s) = s[1]
    OBVIOUS
  <1>2. \A i \in 1..(Len(s) - 1) : Tail(s)[i] = s[i + 1]
    OBVIOUS
  <1>3. ASSUME NEW j \in DOMAIN s, j # 1
        PROVE  \E i \in DOMAIN Tail(s) : Tail(s)[i] = s[j]
    <2>1. j - 1 \in 1..(Len(s) - 1) /\ (j - 1) + 1 = j
      BY <1>1, <1>3
    <2> QED
      BY <1>1, <1>2, <2>1
  <1>4. Len(s) = 1 => Tail(s) = <<>>
    BY <1>1
  <1> QED
    BY <1>1, <1>2, <1>3, <1>4

(* Two elements. *)
LEMMA TwoElements ==
    ASSUME NEW T, IsFiniteSet(T), NEW a \in T, NEW b \in T, a # b
    PROVE  Cardinality(T) > 1
  <1>1. IsFiniteSet({a}) /\ Cardinality({a}) = 1
    BY FS_Singleton
  <1>2. Cardinality({a} \cup {b}) = 2
    BY <1>1, FS_AddElement
  <1>3. {a} \cup {b} \in SUBSET T
    OBVIOUS
  <1>4. Cardinality({a} \cup {b}) <= Cardinality(T) /\ Cardinality(T) \in Nat
    BY <1>3, FS_Subset, FS_CardinalityType
  <1> QED
    BY <1>2, <1>4

(* Of two options that exclude each other a command has got one. *)
LEMMA OneOption ==
    ASSUME NEW c \in Commands, ~ UsageError(c),
           NEW a \in c.options \cap (Simple \cup Complex),
           NEW b \in c.options \cap (Simple \cup Complex)
    PROVE  a = b
  <1> DEFINE T == c.options \cap (Simple \cup Complex)
  <1>1. IsFiniteSet(c.options)
    BY CommandLineAssumption
  <1>2. IsFiniteSet(T) /\ Cardinality(T) \in Nat
    BY <1>1, FS_Subset, FS_CardinalityType
  <1>3. ~ Cardinality(T) > 1
    BY DEF UsageError
  <1> QED
    BY <1>2, <1>3, TwoElements

(* So is it for the calls of the executor. *)
LEMMA OneCall ==
    ASSUME NEW c \in Calls,
           NEW a \in c.options \cap {"install", "remove", "update_all"},
           NEW b \in c.options \cap {"install", "remove", "update_all"}
    PROVE  a = b
  <1> DEFINE T == c.options \cap {"install", "remove", "update_all"}
  <1>1. IsFiniteSet({"install", "remove", "update_all"})
    <2>1. {"install", "remove", "update_all"}
          = ({} \cup {"install"} \cup {"remove"}) \cup {"update_all"}
      OBVIOUS
    <2>2. IsFiniteSet({}) /\ IsFiniteSet({} \cup {"install"})
      BY FS_EmptySet, FS_AddElement
    <2>3. IsFiniteSet({} \cup {"install"} \cup {"remove"})
      BY <2>2, FS_AddElement
    <2>4. IsFiniteSet(({} \cup {"install"} \cup {"remove"}) \cup {"update_all"})
      BY <2>3, FS_AddElement
    <2> QED
      BY <2>1, <2>4
  <1>2. IsFiniteSet(T)
    BY <1>1, FS_Subset
  <1>3. Cardinality(T) = 1
    BY MachineAssumption
  <1>4. a \in T /\ b \in T
    OBVIOUS
  <1> HIDE DEF T
  <1>5. PICK x : T = {x}
    BY <1>2, <1>3, FS_Singleton
  <1> QED
    BY <1>4, <1>5

(* An installation that gets to its end serves the requirement of its job. *)
LEMMA PendingInstalled ==
    ASSUME NEW options, NEW wanted, NEW names, NEW listed \in Seq(Listed), NEW was,
           NEW js \in Seq(Jobs), NEW ps, NEW steps \in Seq(Actions),
           Pending(options, wanted, names, listed, was, js, ps), js # <<>>,
           Head(js).op = "install", IsInstallation(ps, steps, Head(js))
    PROVE  Pending(options, wanted, names, listed, was, Tail(js), Made(ps, steps, Len(steps)))
  <1> DEFINE job == Head(js)
             rest == Tail(js)
             qs == Made(ps, steps, Len(steps))
  <1>1. /\ job = js[1] /\ 1 \in DOMAIN js /\ job.op = "install"
        /\ \A i \in DOMAIN rest : i + 1 \in DOMAIN js /\ rest[i] = js[i + 1]
        /\ \A j \in DOMAIN js : js[j] = job \/ \E i \in DOMAIN rest : rest[i] = js[j]
        /\ Len(js) = 1 => rest = <<>>
    BY HeadTail
  <1>2. PICK p \in qs : Matches(p, job.req)
    BY DEF IsInstallation
  <1>3. ASSUME NEW q, \A i \in DOMAIN steps : steps[i].package.name # q.name
        PROVE  q \in qs <=> q \in ps
    <2>1. 1..Len(steps) = DOMAIN steps
      OBVIOUS
    <2> QED
      BY <1>3, <2>1 DEF Made
  <1> HIDE DEF job, rest, qs
  <1>5. ASSUME "requirements" \in options PROVE FilePending(listed, was, rest, qs)
    <2>1. /\ \A i \in DOMAIN js :
                js[i].op = "install" /\ ~ js[i].deps /\ js[i].req \in Range(listed)
          /\ \A i \in DOMAIN listed :
                \/ \E q \in ps : q.name = listed[i].name
                                 /\ Requirement(q.name, q.version) \in Range(listed)
                \/ /\ Of(ps, listed[i].name) = Of(was, listed[i].name)
                   /\ \E j \in DOMAIN js : js[j].req = listed[i]
      BY <1>5 DEF Pending, FilePending
    <2>2. ~ job.deps /\ job.req \in Range(listed)
      BY <1>1, <2>1
    <2>3. job.req \in Listed
      BY <2>2 DEF Range
    <2>4. p.name = job.req.name /\ Requirement(p.name, p.version) = job.req
      BY <1>2, <2>3 DEF Matches, Listed, Requirement
    <2>5. \A i \in DOMAIN steps : steps[i].package.name = job.req.name
      BY <2>2 DEF IsInstallation, job
    <2>6. ASSUME NEW i \in DOMAIN listed
          PROVE  \/ \E q \in qs : q.name = listed[i].name
                                  /\ Requirement(q.name, q.version) \in Range(listed)
                 \/ /\ Of(qs, listed[i].name) = Of(was, listed[i].name)
                    /\ \E j \in DOMAIN rest : rest[j].req = listed[i]
      <3>1. CASE listed[i].name = job.req.name
        BY <2>2, <2>4, <3>1
      <3>2. CASE listed[i].name # job.req.name
        <4>1. \A q : q.name = listed[i].name => (q \in qs <=> q \in ps)
          BY <1>3, <2>5, <3>2
        <4>2. Of(qs, listed[i].name) = Of(ps, listed[i].name)
          BY <4>1 DEF Of
        <4>3. ASSUME NEW j \in DOMAIN js, js[j].req = listed[i]
              PROVE  \E k \in DOMAIN rest : rest[k].req = listed[i]
          BY <1>1, <3>2, <4>3
        <4> QED
          BY <2>1, <4>1, <4>2, <4>3
      <3> QED
        BY <3>1, <3>2
    <2> QED
      BY <1>1, <2>1, <2>6 DEF FilePending
  <1>6. "remove" \notin options
    BY <1>1 DEF Pending, RemovalPending
  <1>7. ASSUME options \cap (Simple \cup Complex) = {} PROVE OnePending(wanted, was, rest, qs)
    <2>1. /\ wanted # <<>>
          /\ Len(wanted) = 1 => Len(js) = 1 /\ js[1].req = wanted[1]
      BY <1>7 DEF Pending, OnePending
    <2> QED
      BY <1>1, <1>2, <2>1 DEF OnePending
  <1> QED
    BY <1>5, <1>6, <1>7 DEF Pending, rest, qs

(* So does a removal, and a removal that finds nothing. *)
LEMMA PendingRemoved ==
    ASSUME NEW options, NEW wanted, NEW names, NEW listed, NEW was, NEW js \in Seq(Jobs),
           NEW ps, NEW qs \in SUBSET ps,
           Pending(options, wanted, names, listed, was, js, ps), js # <<>>,
           Head(js).op = "remove", \A q \in qs : q.name # Head(js).req.name,
           \A q \in ps \ qs : q.name \in names
    PROVE  Pending(options, wanted, names, listed, was, Tail(js), qs)
  <1> DEFINE job == Head(js)
             rest == Tail(js)
  <1>1. /\ job = js[1] /\ 1 \in DOMAIN js /\ job.op = "remove"
        /\ \A i \in DOMAIN rest : i + 1 \in DOMAIN js /\ rest[i] = js[i + 1]
        /\ \A j \in DOMAIN js : js[j] = job \/ \E i \in DOMAIN rest : rest[i] = js[j]
    BY HeadTail
  <1> HIDE DEF job, rest
  <1>2. "requirements" \notin options
    BY <1>1 DEF Pending, FilePending
  <1>3. ASSUME options \cap (Simple \cup Complex) = {} PROVE OnePending(wanted, was, rest, qs)
    <2>1. wanted # <<>> /\ Len(wanted) # 1
      BY <1>1, <1>3 DEF Pending, OnePending
    <2> QED
      BY <2>1 DEF OnePending
  <1>4. ASSUME "remove" \in options PROVE RemovalPending(wanted, names, was, rest, qs)
    <2>1. /\ \A i \in DOMAIN js : js[i].op = "remove"
          /\ \A i \in DOMAIN wanted :
                \/ \A p \in ps : p.name # wanted[i].name
                \/ \E j \in DOMAIN js : js[j].req.name = wanted[i].name
          /\ ps \subseteq was /\ \A p \in was \ ps : p.name \in names
      BY <1>4 DEF Pending, RemovalPending
    <2>2. ASSUME NEW i \in DOMAIN wanted, NEW j \in DOMAIN js, js[j].req.name = wanted[i].name
          PROVE  \/ \A q \in qs : q.name # wanted[i].name
                 \/ \E k \in DOMAIN rest : rest[k].req.name = wanted[i].name
      <3>1. CASE js[j] = job
        BY <2>2, <3>1 DEF job
      <3>2. CASE \E k \in DOMAIN rest : rest[k] = js[j]
        BY <2>2, <3>2
      <3> QED
        BY <1>1, <3>1, <3>2
    <2>3. qs \subseteq was /\ \A p \in was \ qs : p.name \in names
      BY <2>1
    <2> QED
      BY <1>1, <2>1, <2>2, <2>3 DEF RemovalPending
  <1> QED
    BY <1>2, <1>3, <1>4 DEF Pending, rest

(* What depends on the command only. *)
LEMMA SameCommand ==
    ASSUME UNCHANGED cmd
    PROVE  /\ \A option : Given(option)' = Given(option)
           /\ DryRun' = DryRun /\ Requested' = Requested /\ Wanted' = Wanted
           /\ Typed' = Typed /\ Human' = Human /\ MaySayNo' = MaySayNo
           /\ RemovalRefused' = RemovalRefused /\ Removable' = Removable
  BY DEF Given, DryRun, Typed, Requested, Wanted, Human, MaySayNo, RemovalRefused, Requests,
     Removable

(* What a command was asked for. *)
Achieved ==
    /\ Given("requirements") => FileRestored
    /\ Given("remove") => WordsRemoved
    /\ cmd.options \cap (Simple \cup Complex) = {} /\ Len(Typed) = 1 => RequirementMet

(* It depends on the command and on the prefix, now and when it began. *)
LEMMA AchievedStays ==
    ASSUME UNCHANGED <<cmd, installed, before, frozen>>
    PROVE  Achieved' = Achieved
  <1>1. \A name : InPrefix(name)' = InPrefix(name) /\ Untouched(name)' = Untouched(name)
    BY DEF InPrefix, Untouched
  <1>2. FileRestored' = FileRestored
    BY <1>1, SameCommand DEF FileRestored
  <1>3. WordsRemoved' = WordsRemoved
    BY <1>1, SameCommand DEF WordsRemoved
  <1>4. RequirementMet' = RequirementMet
    BY SameCommand DEF RequirementMet
  <1> QED
    BY <1>2, <1>3, <1>4, SameCommand DEF Achieved

(* So it can be told before the command ends. *)
LEMMA DoneOf ==
    ASSUME UNCHANGED <<cmd, installed, before, frozen>>, ~ DryRun => Achieved
    PROVE  DoneAsAsked'
  <1>1. ~ DryRun' => Achieved'
    BY AchievedStays, SameCommand
  <1> QED
    BY <1>1 DEF DoneAsAsked, Achieved

-----------------------------------------------------------------------------
(* What a step of each kind keeps *)

(* What the steps of a command leave alone. *)
Going == UNCHANGED <<installed, step, cmd, before>>

(* A command ends. *)
LEMMA EndKeeps ==
    ASSUME CmdInv, Going, NEW how \in {"done", "failed", "usage", "crashed"}, Ends(how),
           stage # "idle", frozen' \in Seq(Listed),
           how = "crashed" => installed = before, how = "done" => DoneAsAsked'
    PROVE  CmdInv'
  <1> USE DEF Going
  <1>1. outcome = "none"
    BY DEF CmdInv, Busy
  <1>2. CmdTypeOK'
    <2>1. <<>> \in Seq(Jobs) /\ <<>> \in Seq(Actions)
      OBVIOUS
    <2> QED
      BY <2>1 DEF CmdInv, CmdTypeOK, Ends
  <1>3. Busy'
    BY DEF Busy, Ends, Early, Late
  <1>4. Unique(installed') /\ (step' = "install" => Enstallers' = {})
    BY DEF CmdInv, Enstallers
  <1>5. stage' \in Early \/ DryRun' \/ outcome' = "crashed" => installed' = before'
    BY SameCommand DEF CmdInv, Ends, Early
  <1>6. Keeps(before', installed', Removable')
    BY <1>1, SameCommand DEF CmdInv
  <1>7. stage' \notin Late /\ stage' \notin {"confirm", "execute"}
    BY DEF Ends, Late
  <1>8. DoneAsAsked'
    BY DEF Ends, DoneAsAsked
  <1> QED
    BY <1>2, <1>3, <1>4, <1>5, <1>6, <1>7, <1>8 DEF CmdInv

(* It gets further, before its jobs are known. *)
LEMMA GoOnKeeps ==
    ASSUME CmdInv, Going, NEW to, GoOn(to), UNCHANGED <<jobs, actions, frozen>>,
           \/ stage = "start" /\ to = "selected"
           \/ stage \in {"parse", "authenticate", "fetch"}
              /\ to \in {"authenticate", "fetch", "machine"}
    PROVE  CmdInv'
  <1> USE DEF Going
  <1>1. outcome = "none" /\ stage \in Early /\ stage' \in Early /\ outcome' = "none"
    BY DEF CmdInv, Busy, Early, GoOn
  <1>2. CmdTypeOK'
    BY <1>1 DEF CmdInv, CmdTypeOK
  <1>3. Busy'
    BY <1>1 DEF CmdInv, Busy, GoOn, Early, Late, UsageError
  <1>4. Unique(installed') /\ (step' = "install" => Enstallers' = {})
    BY DEF CmdInv, Enstallers
  <1>5. installed' = before'
    BY <1>1 DEF CmdInv
  <1>6. Keeps(before', installed', Removable')
    BY <1>1, SameCommand DEF CmdInv
  <1>7. stage' \notin Late /\ stage' \notin {"confirm", "execute"}
    BY <1>1 DEF Early, Late
  <1>8. DoneAsAsked'
    BY <1>1 DEF DoneAsAsked
  <1> QED
    BY <1>2, <1>3, <1>4, <1>5, <1>6, <1>7, <1>8 DEF CmdInv

(* It is at work, before and after, and the prefix may have changed. *)
LEMMA WorkKeeps ==
    ASSUME CmdInv, UNCHANGED <<step, cmd, before, frozen, outcome>>,
           stage # "idle", cmd \in Commands \cup Calls, stage' \in Late,
           installed' \in SUBSET Packages, Unique(installed'),
           jobs' \in Seq(Jobs), actions' \in Seq(Actions),
           DryRun => installed' = before,
           Keeps(before, installed', Removable), JobsWithin(jobs', Removable),
           stage' \in {"confirm", "execute"} => IsPlanOf(before, installed', jobs', actions'),
           stage' = "confirm" => Head(jobs').op = "install",
           ~ DryRun => Pending(cmd.options, Wanted, Removable, frozen, before, jobs', installed')
    PROVE  CmdInv'
  <1>1. outcome = "none" /\ step = "idle"
    BY DEF CmdInv, Busy
  <1>2. CmdTypeOK'
    BY DEF CmdInv, CmdTypeOK
  <1>3. Busy'
    BY <1>1 DEF CmdInv, Busy, Early, Late, UsageError
  <1>4. Unique(installed') /\ (step' = "install" => Enstallers' = {})
    BY <1>1
  <1>5. stage' \notin Early /\ outcome' # "crashed"
    BY <1>1 DEF Early, Late
  <1>6. DryRun' => installed' = before'
    BY SameCommand
  <1>7. Keeps(before', installed', Removable') /\ JobsWithin(jobs', Removable')
    BY SameCommand
  <1>8. ~ DryRun' => Pending(cmd'.options, Wanted', Removable', frozen', before', jobs', installed')
    BY SameCommand
  <1>9. /\ stage' \in {"confirm", "execute"} => IsPlanOf(before', installed', jobs', actions')
        /\ stage' = "confirm" => Head(jobs').op = "install"
    OBVIOUS
  <1>10. DoneAsAsked'
    BY <1>1 DEF DoneAsAsked
  <1> QED
    BY <1>2, <1>3, <1>4, <1>5, <1>6, <1>7, <1>8, <1>9, <1>10 DEF CmdInv

-----------------------------------------------------------------------------
(* The actions *)

(* A command of the command line, before its jobs are known. *)
LEMMA CommandGiven ==
    ASSUME CmdInv, stage \in {"start", "selected"}
    PROVE  /\ cmd \in Commands /\ ~ UsageError(cmd) /\ ~ Given("machine")
           /\ stage \in Early /\ stage # "idle" /\ installed = before
           /\ frozen \in Seq(Listed)
           /\ \A a, b \in Simple \cup Complex : Given(a) /\ Given(b) => a = b
  <1>1. /\ cmd \in Commands /\ ~ UsageError(cmd)
        /\ stage \in Early /\ stage # "idle" /\ installed = before
        /\ frozen \in Seq(Listed)
    BY DEF CmdInv, CmdTypeOK, Busy, Early
  <1>2. ~ Given("machine")
    BY <1>1, CommandLineAssumption DEF Given
  <1>3. ASSUME NEW a \in Simple \cup Complex, NEW b \in Simple \cup Complex, Given(a), Given(b)
        PROVE  a = b
    BY <1>1, <1>3, OneOption DEF Given
  <1> QED
    BY <1>1, <1>2, <1>3

(* With another option than these nothing is to be done in the end. *)
LEMMA NothingAsked ==
    ASSUME CmdInv, stage \in {"start", "selected"}, UNCHANGED cmd,
           NEW a \in (Simple \cup Complex) \ {"requirements", "remove"}, Given(a)
    PROVE  DoneAsAsked'
  <1>1. ~ Given("requirements") /\ ~ Given("remove")
    BY CommandGiven DEF Simple, Complex
  <1>2. cmd.options \cap (Simple \cup Complex) # {}
    BY DEF Given
  <1> QED
    BY <1>1, <1>2, SameCommand DEF DoneAsAsked

(* Two words may be one requirement. *)
LEMMA JoinedIsList ==
    ASSUME NEW S, cmd.words \in Seq([name : S, version : Nat])
    PROVE  Joined(cmd.words) \in Seq([name : S, version : Nat])
  <1> DEFINE Reqs == [name : S, version : Nat]
             all == Joined(cmd.words)
  <1>1. all \in Seq(Reqs)
    <2>1. CASE Len(cmd.words) = 2 /\ cmd.words[2].name = "" /\ cmd.words[1].version = 0
      <3>1. \A i \in 1..2 : cmd.words[i] \in Reqs
        BY <2>1, ElementsOfList
      <3>2. cmd.words[1].name \in S /\ cmd.words[2].version \in Nat
        BY <3>1
      <3>3. Requirement(cmd.words[1].name, cmd.words[2].version) \in Reqs
        BY <3>2 DEF Requirement
      <3>4. all = <<Requirement(cmd.words[1].name, cmd.words[2].version)>>
        BY <2>1 DEF Joined
      <3> HIDE DEF all, Reqs
      <3> QED
        BY <3>3, <3>4
    <2>2. CASE ~ (Len(cmd.words) = 2 /\ cmd.words[2].name = "" /\ cmd.words[1].version = 0)
      BY <2>2 DEF Joined
    <2> QED
      BY <2>1, <2>2
  <1> QED
    BY <1>1

(* The requirements of a command are some of its words. *)
LEMMA RequestedIsList ==
    ASSUME NEW S, cmd.words \in Seq([name : S, version : Nat])
    PROVE  Requested \in Seq([name : S, version : Nat])
  <1> DEFINE Reqs == [name : S, version : Nat]
             all == Joined(cmd.words)
  <1>1. all \in Seq(Reqs)
    BY JoinedIsList
  <1>2. Requested = all \/ Requested = Pick(all, {req \in Range(all) : req.name # "enstaller"})
    BY DEF Requested
  <1> HIDE DEF all, Reqs
  <1>3. \A keep : Pick(all, keep) \in Seq(Reqs)
    BY <1>1, PickProperties
  <1> QED
    BY <1>1, <1>2, <1>3 DEF Reqs

(* What was typed is wanted, but enstaller without a version. *)
LEMMA TypedProperties ==
    ASSUME cmd \in Commands \cup Calls
    PROVE  /\ \A i \in DOMAIN Typed :
                \/ \E k \in DOMAIN Wanted : Wanted[k] = Typed[i]
                \/ Human /\ Typed[i].name = "enstaller"
           /\ Human /\ Requests("enstaller") =>
                \E j \in DOMAIN Typed : Typed[j].name = "enstaller" /\ Typed[j].version # 0
           /\ Len(Typed) = 1 =>
                \/ Wanted = Typed
                \/ Human /\ Wanted = <<>> /\ Typed[1] = Requirement("enstaller", 0)
  <1>1. CASE ~ Human
    <2>1. Typed = cmd.words /\ Wanted = cmd.words
      BY <1>1 DEF Typed, Wanted, Human
    <2> QED
      BY <1>1, <2>1
  <1>2. CASE Human
    <2> DEFINE Reqs == [name : STRING, version : Nat]
               keep == {req \in Range(Typed) : req.name # "enstaller"}
    <2>1. cmd.words \in Seq(Reqs)
      BY CommandLineAssumption, MachineAssumption DEF Requirements
    <2>2. Typed \in Seq(Reqs) /\ Wanted = Requested /\ Typed = Joined(cmd.words)
      BY <1>2, <2>1, JoinedIsList DEF Typed, Wanted, Human
    <2>3. CASE \E i \in DOMAIN Typed : Typed[i].name = "enstaller" /\ Typed[i].version # 0
      <3>1. Wanted = Typed
        BY <2>2, <2>3 DEF Requested
      <3> QED
        BY <2>3, <3>1
    <2>4. CASE ~ \E i \in DOMAIN Typed : Typed[i].name = "enstaller" /\ Typed[i].version # 0
      <3>1. Wanted = Pick(Typed, keep)
        BY <2>2, <2>4 DEF Requested
      <3> HIDE DEF keep
      <3>2. Wanted \in Seq(Reqs) /\ \E at : IsSublist(Wanted, Typed, keep, at)
        <4> HIDE DEF Reqs
        <4> QED
          BY <2>2, <3>1, PickProperties
      <3>3. PICK at : IsSublist(Wanted, Typed, keep, at)
        BY <3>2
      <3>4. \A i \in DOMAIN Typed : Typed[i].name # "enstaller" => Typed[i] \in keep
        BY DEF keep, Range
      <3>5. ASSUME NEW i \in DOMAIN Typed, Typed[i].name # "enstaller"
            PROVE  \E k \in DOMAIN Wanted : Wanted[k] = Typed[i]
        BY <3>3, <3>4, <3>5 DEF IsSublist
      <3>6. \A k \in DOMAIN Wanted : Wanted[k].name # "enstaller"
        BY <3>3 DEF IsSublist, keep
      <3>7. ~ Requests("enstaller")
        BY <2>2, <3>6 DEF Requests
      <3>8. ASSUME Len(Typed) = 1
            PROVE  Wanted = Typed \/ (Wanted = <<>> /\ Typed[1] = Requirement("enstaller", 0))
        <4>1. /\ DOMAIN Typed = {1} /\ Typed[1] \in Reqs
              /\ Len(Wanted) \in Nat /\ DOMAIN Wanted = 1..Len(Wanted)
          <5> HIDE DEF Reqs
          <5>1. Len(Typed) \in Nat /\ DOMAIN Typed = 1..Len(Typed) /\ \A i \in DOMAIN Typed : Typed[i] \in Reqs
            BY <2>2, ElementsOfList
          <5>2. Len(Wanted) \in Nat /\ DOMAIN Wanted = 1..Len(Wanted)
            BY <3>2, ElementsOfList
          <5> QED
            BY <3>8, <5>1, <5>2
        <4>2. Len(Wanted) <= 1
          <5>1. ASSUME 2 \in DOMAIN Wanted PROVE FALSE
            <6>1. 1 \in DOMAIN Wanted
              BY <4>1, <5>1
            <6>2. at[1] = 1 /\ at[2] = 1 /\ at[1] < at[2]
              BY <3>3, <4>1, <5>1, <6>1 DEF IsSublist
            <6> QED
              BY <6>2
          <5> QED
            BY <4>1, <5>1
        <4>3. CASE Typed[1].name # "enstaller"
          <5>1. PICK k \in DOMAIN Wanted : Wanted[k] = Typed[1]
            BY <3>5, <4>1, <4>3
          <5>2. Len(Wanted) = 1 /\ Wanted[1] = Typed[1]
            BY <4>1, <4>2, <5>1
          <5> QED
            BY <2>2, <3>2, <3>8, <5>2
        <4>4. CASE Typed[1].name = "enstaller"
          <5>1. Typed[1].version = 0
            BY <2>4, <4>1, <4>4
          <5>2. Typed[1] = Requirement("enstaller", 0)
            BY <4>1, <4>4, <5>1 DEF Requirement
          <5>3. 1 \notin DOMAIN Wanted
            <6>1. ASSUME 1 \in DOMAIN Wanted PROVE FALSE
              <7>1. at[1] = 1 /\ Wanted[1] = Typed[at[1]]
                BY <3>3, <4>1, <6>1 DEF IsSublist
              <7> QED
                BY <3>6, <4>4, <6>1, <7>1
            <6> QED
              BY <6>1
          <5> QED
            BY <3>2, <4>1, <4>2, <5>2, <5>3
        <4> QED
          BY <4>3, <4>4
      <3> QED
        BY <1>2, <3>5, <3>7, <3>8
    <2> QED
      BY <2>3, <2>4
  <1> QED
    BY <1>1, <1>2

(* Only who is asked can say no. *)
LEMMA NoMeansAsked ==
    ASSUME FALSE \in PromptYesNo
    PROVE  MaySayNo
  BY DEF PromptYesNo, MaySayNo, Human

(* A command, or a call, begins. *)
LEMMA StartKeeps ==
    ASSUME CmdInv, \/ \E c \in Commands : Parse(c)
                   \/ \E c \in Calls : RunCommand(c)
    PROVE  CmdInv'
  <1> DEFINE Started(c) ==
        /\ stage = "idle" /\ step = "idle" /\ cmd' = c /\ before' = installed
        /\ jobs' = <<>> /\ actions' = <<>>
        /\ UNCHANGED <<installed, step, frozen>>
        /\ \/ stage' = "idle" /\ outcome' \in {"usage", "failed"}
           \/ stage' = "start" /\ outcome' = "none" /\ c \in Commands /\ ~ UsageError(c)
           \/ stage' = "parse" /\ outcome' = "none" /\ c \in Calls
  <1>1. ASSUME NEW c \in Commands, Parse(c) PROVE Started(c)
    BY <1>1 DEF Parse, bootVars
  <1>2. ASSUME NEW c \in Calls, RunCommand(c) PROVE Started(c)
    BY <1>2 DEF RunCommand, bootVars
  <1>3. PICK c : Started(c)
    BY <1>1, <1>2
  <1>4. CmdTypeOK'
    <2>1. <<>> \in Seq(Jobs) /\ <<>> \in Seq(Actions)
      OBVIOUS
    <2> QED
      BY <1>3, <2>1 DEF CmdInv, CmdTypeOK, Early
  <1>5. \A d \in Calls : d \notin Commands
    BY CommandLineAssumption, MachineAssumption
  <1>6. Busy'
    BY <1>3, <1>5 DEF Busy, Early, Late, UsageError
  <1>7. Unique(installed') /\ (step' = "install" => Enstallers' = {})
    BY <1>3 DEF CmdInv, Enstallers
  <1>8. installed' = before' /\ outcome' # "done"
    BY <1>3
  <1>9. Keeps(before', installed', Removable')
    BY <1>8 DEF Keeps
  <1>10. stage' \notin Late /\ stage' \notin {"confirm", "execute"}
    BY <1>3 DEF Late
  <1>11. DoneAsAsked'
    BY <1>8 DEF DoneAsAsked
  <1> QED
    BY <1>4, <1>6, <1>7, <1>8, <1>9, <1>10, <1>11 DEF CmdInv

(* Commands that show something. *)
LEMMA ShowingKeeps ==
    ASSUME CmdInv, EnvOption \/ PrintHistory \/ ListOption \/ Imports \/ Search \/ Info \/ WhatsNew
    PROVE  CmdInv'
  <1>1. PICK a \in (Simple \cup Complex) \ {"requirements", "remove"}, how \in {"done", "usage"} :
            /\ stage \in {"start", "selected"} /\ Given(a)
            /\ Ends(how) /\ UNCHANGED <<bootVars, cmd, before, frozen>>
    <2>1. ASSUME NEW b \in {"env", "log", "list", "imports", "search", "whats_new"},
                 NEW s \in {"start", "selected"},
                 Selected({s}), Given(b), Ends("done"), UNCHANGED frozen
          PROVE  \E a \in (Simple \cup Complex) \ {"requirements", "remove"}, how \in {"done", "usage"} :
                    /\ stage \in {"start", "selected"} /\ Given(a)
                    /\ Ends(how) /\ UNCHANGED <<bootVars, cmd, before, frozen>>
      <3>1. b \in (Simple \cup Complex) \ {"requirements", "remove"}
        BY DEF Simple, Complex
      <3> QED
        BY <2>1, <3>1 DEF Selected
    <2>2. CASE Info
      <3>1. "info" \in (Simple \cup Complex) \ {"requirements", "remove"}
        BY DEF Complex
      <3>2. \E how \in {"done", "usage"} : Ends(how)
        BY <2>2 DEF Info
      <3>3. stage = "selected" /\ Given("info") /\ UNCHANGED <<bootVars, cmd, before, frozen>>
        BY <2>2 DEF Info, Show, Selected
      <3> QED
        BY <3>1, <3>2, <3>3
    <2>3. CASE EnvOption \/ PrintHistory \/ ListOption \/ Imports
      BY <2>1, <2>3 DEF EnvOption, PrintHistory, ListOption, Imports, Shown
    <2>4. CASE Search \/ WhatsNew
      BY <2>1, <2>4 DEF Search, WhatsNew, Show
    <2> QED
      BY <2>2, <2>3, <2>4
  <1>2. Going
    BY <1>1 DEF Going, bootVars
  <1>3. DoneAsAsked'
    BY <1>1, NothingAsked
  <1>4. frozen' \in Seq(Listed) /\ stage # "idle"
    BY <1>1, CommandGiven
  <1>5. how \in {"done", "failed", "usage", "crashed"} /\ how # "crashed"
    OBVIOUS
  <1> QED
    BY <1>1, <1>2, <1>3, <1>4, <1>5, EndKeeps

(* The lines of --freeze are requirements. *)
LEMMA FreezeKeeps ==
    ASSUME CmdInv, Freeze
    PROVE  CmdInv'
  <1> DEFINE listed == PickTwice(Lines, installed, Below)
  <1>1. stage = "start" /\ Given("freeze") /\ Ends("done") /\ Going
    BY DEF Freeze, Selected, Going, bootVars
  <1>2. frozen' = [i \in DOMAIN listed |-> Requirement(listed[i].item.name, listed[i].item.version)]
    BY DEF Freeze
  <1>3. Lines \in Seq(Packages)
    BY CommandLineAssumption DEF Packages
  <1>4. listed \in Seq([item : Packages, first : BOOLEAN])
    BY <1>3, PickTwiceElements
  <1> HIDE DEF listed
  <1>5. \A i \in DOMAIN listed : listed[i].item \in Packages
    <2>1. \A i \in DOMAIN listed : listed[i] \in [item : Packages, first : BOOLEAN]
      BY <1>4, ElementsOfList
    <2> QED
      BY <2>1
  <1>6. frozen' \in Seq(Listed)
    <2>1. \A i \in DOMAIN listed : Requirement(listed[i].item.name, listed[i].item.version) \in Listed
      BY <1>5, RequirementOfPackage
    <2>2. frozen' \in [1..Len(listed) -> Listed] /\ Len(listed) \in Nat
      BY <1>2, <1>4, <2>1
    <2> QED
      BY <2>2, SeqDef
  <1>7. DoneAsAsked'
    <2>1. "freeze" \in (Simple \cup Complex) \ {"requirements", "remove"}
      BY DEF Simple
    <2> QED
      BY <1>1, <2>1, NothingAsked DEF Going
  <1> QED
    BY <1>1, <1>6, <1>7, EndKeeps

(* A set in any order. *)
LEMMA OrderProperties ==
    ASSUME NEW S \in SUBSET Packages, NEW order \in SetToSeqs(S)
    PROVE  /\ order \in Seq(S) /\ order \in Seq(Packages)
           /\ S # {} => order # <<>>
  <1>1. IsFiniteSet(S)
    BY PackagesAreFinite, FS_Subset
  <1>2. Cardinality(S) \in Nat /\ (S # {} => Cardinality(S) # 0)
    BY <1>1, FS_CardinalityType, FS_EmptySet
  <1>3. order \in [1..Cardinality(S) -> S]
    BY DEF SetToSeqs
  <1>4. order \in Seq(S) /\ Len(order) = Cardinality(S)
    <2>1. order \in Seq(S)
      BY <1>2, <1>3, SeqDef
    <2> QED
      BY <1>2, <1>3, <2>1
  <1>5. order \in Seq(Packages)
    BY <1>2, <1>3, SeqDef
  <1> QED
    BY <1>2, <1>4, <1>5

(* The actions of a revert, by the file names of the eggs. *)
LEMMA RevertActions ==
    ASSUME NEW removed \in Seq(Packages),
           NEW loop \in Seq([item : Packages, first : BOOLEAN]),
           removed # <<>> \/ loop # <<>>
    PROVE  LET steps == [i \in DOMAIN removed |-> Action("remove", removed[i], TRUE)]
                        \o [i \in DOMAIN loop |->
                            Action(IF loop[i].first THEN "fetch" ELSE "install", loop[i].item, TRUE)]
           IN  steps \in Seq(Actions) /\ IsRevert(steps)
  <1> DEFINE a == [i \in DOMAIN removed |-> Action("remove", removed[i], TRUE)]
             b == [i \in DOMAIN loop |->
                    Action(IF loop[i].first THEN "fetch" ELSE "install", loop[i].item, TRUE)]
             steps == a \o b
             ByName == {x \in Actions : x.byName}
  <1>1. ASSUME NEW op \in {"fetch", "remove", "install"}, NEW p \in Packages
        PROVE  Action(op, p, TRUE) \in ByName
    <2>1. Action(op, p, TRUE) \in Actions
      BY FieldsOfAction
    <2>2. Action(op, p, TRUE).byName
      BY DEF Action
    <2> QED
      BY <2>1, <2>2
  <1> HIDE DEF ByName
  <1>2. a \in Seq(ByName) /\ Len(a) = Len(removed)
    <2>1. Len(removed) \in Nat /\ DOMAIN removed = 1..Len(removed)
          /\ \A i \in DOMAIN removed : removed[i] \in Packages
      BY ElementsOfList
    <2>2. \A i \in DOMAIN removed : Action("remove", removed[i], TRUE) \in ByName
      BY <1>1, <2>1
    <2>3. a \in [1..Len(removed) -> ByName]
      BY <2>1, <2>2
    <2> HIDE DEF a
    <2> QED
      BY <2>1, <2>3, ListOf
  <1>3. b \in Seq(ByName) /\ Len(b) = Len(loop)
    <2>1. Len(loop) \in Nat /\ DOMAIN loop = 1..Len(loop)
          /\ \A i \in DOMAIN loop : loop[i] \in [item : Packages, first : BOOLEAN]
      BY ElementsOfList
    <2>2. \A i \in DOMAIN loop : loop[i].item \in Packages
      BY <2>1
    <2>3. \A i \in DOMAIN loop :
            Action(IF loop[i].first THEN "fetch" ELSE "install", loop[i].item, TRUE) \in ByName
      BY <1>1, <2>2
    <2>4. b \in [1..Len(loop) -> ByName]
      BY <2>1, <2>3
    <2> HIDE DEF b
    <2> QED
      BY <2>1, <2>4, ListOf
  <1>4. Len(removed) \in Nat /\ Len(loop) \in Nat /\ Len(removed) + Len(loop) # 0
    <2>1. Len(removed) \in Nat /\ (removed # <<>> => Len(removed) # 0)
      BY ElementsOfList
    <2>2. Len(loop) \in Nat /\ (loop # <<>> => Len(loop) # 0)
      BY ElementsOfList
    <2> QED
      BY <2>1, <2>2
  <1> HIDE DEF a, b
  <1>5. steps \in Seq(ByName) /\ Len(steps) = Len(removed) + Len(loop)
    <2>1. a \in Seq(ByName) /\ b \in Seq(ByName)
      BY <1>2, <1>3
    <2>2. a \o b \in Seq(ByName) /\ Len(a \o b) = Len(a) + Len(b)
      BY <2>1, ConcatProperties
    <2> QED
      BY <1>2, <1>3, <2>2
  <1> HIDE DEF steps
  <1>6. steps # <<>>
    BY <1>4, <1>5
  <1>7. \A i \in DOMAIN steps : steps[i] \in ByName
    BY <1>5
  <1>8. \A i \in DOMAIN steps : steps[i].byName
    BY <1>7 DEF ByName
  <1>9. steps \in Seq(Actions)
    <2>1. ByName \subseteq Actions
      BY DEF ByName
    <2> QED
      BY <1>5, <2>1
  <1> QED
    BY <1>6, <1>8, <1>9 DEF IsRevert, steps, a, b

(* A revert plans actions of which none can run. *)
LEMMA RevertKeeps ==
    ASSUME CmdInv, NEW state \in States, Revert(state)
    PROVE  CmdInv'
  <1> DEFINE gone == {p \in installed \ state : p.name # "enstaller"}
             missing == {p \in state \ installed : p.name # "enstaller"}
             Loop(restored) == PickTwice(restored, missing \ Cached, missing)
             Steps(removed, restored) ==
                [i \in DOMAIN removed |-> Action("remove", removed[i], TRUE)]
                \o [i \in DOMAIN Loop(restored) |->
                        Action(IF Loop(restored)[i].first THEN "fetch" ELSE "install",
                               Loop(restored)[i].item, TRUE)]
             job == Job("revert", Requirement("", 0), FALSE)
  <1>1. stage = "start" /\ Given("revert") /\ Going /\ frozen' = frozen
    BY DEF Revert, Selected, Going, bootVars
  <1>2. DoneAsAsked'
    <2>1. "revert" \in (Simple \cup Complex) \ {"requirements", "remove"}
      BY DEF Simple
    <2> QED
      BY <1>1, <2>1, NothingAsked DEF Going
  <1>3. frozen \in Seq(Listed) /\ stage # "idle" /\ installed = before /\ cmd \in Commands
    BY <1>1, CommandGiven
  <1>4. \/ Ends("failed") \/ Ends("done")
        \/ /\ gone \cup missing # {}
           /\ \E removed \in SetToSeqs(gone), restored \in SetToSeqs(missing) :
                GoOn("execute") /\ actions' = Steps(removed, restored) /\ jobs' = <<job>>
    BY DEF Revert
  <1>5. CASE Ends("failed") \/ Ends("done")
    BY <1>1, <1>2, <1>3, <1>5, EndKeeps
  <1>6. ASSUME gone \cup missing # {},
               NEW removed \in SetToSeqs(gone), NEW restored \in SetToSeqs(missing),
               GoOn("execute"), actions' = Steps(removed, restored), jobs' = <<job>>
        PROVE  CmdInv'
    <2>1. gone \in SUBSET Packages /\ missing \in SUBSET Packages
      BY DEF CmdInv, CmdTypeOK, States, Packages
    <2> HIDE DEF gone, missing
    <2>2. removed \in Seq(Packages) /\ (gone # {} => removed # <<>>)
      BY <2>1, OrderProperties
    <2>3. restored \in Seq(Packages) /\ restored \in Seq(missing) /\ (missing # {} => restored # <<>>)
      BY <2>1, OrderProperties
    <2>4. /\ Loop(restored) \in Seq([item : Packages, first : BOOLEAN])
          /\ \A i \in DOMAIN restored : restored[i] \in missing =>
                \E k \in DOMAIN Loop(restored) :
                    Loop(restored)[k] = [item |-> restored[i], first |-> FALSE]
      <3>1. restored \in Seq(Packages)
        BY <2>3
      <3>2. /\ PickTwice(restored, missing \ Cached, missing) \in Seq([item : Packages, first : BOOLEAN])
            /\ \A i \in DOMAIN restored : restored[i] \in missing =>
                \E k \in DOMAIN PickTwice(restored, missing \ Cached, missing) :
                    PickTwice(restored, missing \ Cached, missing)[k]
                    = [item |-> restored[i], first |-> FALSE]
        <4> DEFINE these == missing \ Cached
        <4> HIDE DEF these
        <4>1. /\ PickTwice(restored, these, missing) \in Seq([item : Packages, first : BOOLEAN])
              /\ \A i \in DOMAIN restored : restored[i] \in missing =>
                    \E k \in DOMAIN PickTwice(restored, these, missing) :
                        PickTwice(restored, these, missing)[k] = [item |-> restored[i], first |-> FALSE]
          BY <3>1, PickTwiceElements
        <4> QED
          BY <4>1 DEF these
      <3> QED
        BY <3>2
    <2> HIDE DEF Loop
    <2>5. missing # {} => Loop(restored) # <<>>
      <3>1. missing # {} => 1 \in DOMAIN restored /\ restored[1] \in missing
        BY <2>3
      <3>2. \A k : k \notin DOMAIN << >>
        OBVIOUS
      <3> QED
        BY <2>4, <3>1, <3>2
    <2>6. actions' \in Seq(Actions) /\ IsRevert(actions')
      BY <1>6, <2>2, <2>4, <2>5, RevertActions
    <2>7. job \in Jobs /\ job.op = "revert"
      <3>1. Requirement("", 0) \in Asked
        BY DEF Requirement, Asked, Names
      <3> QED
        BY <3>1 DEF Job, Jobs
    <2> HIDE DEF job, Steps
    <2>8. jobs' \in Seq(Jobs) /\ jobs' # <<>> /\ Head(jobs') = job /\ Len(jobs') = 1 /\ jobs'[1] = job
      BY <1>6, <2>7
    <2>9. IsPlanOf(before, installed', jobs', actions')
      BY <1>1, <1>3, <2>6, <2>7, <2>8 DEF IsPlanOf, Going
    <2>10. JobsWithin(jobs', Removable)
      BY <2>7, <2>8 DEF JobsWithin
    <2>11. Pending(cmd.options, Wanted, Removable, frozen, before, jobs', installed')
      <3>1. "requirements" \notin cmd.options /\ "remove" \notin cmd.options
        BY <1>1, CommandGiven DEF Given, Simple, Complex
      <3>2. cmd.options \cap (Simple \cup Complex) # {}
        BY <1>1 DEF Given, Simple
      <3> QED
        BY <3>1, <3>2 DEF Pending
    <2>12. /\ UNCHANGED <<step, cmd, before, frozen, outcome, installed>>
           /\ stage' = "execute" /\ stage' \in Late
      BY <1>1, <1>6 DEF Going, GoOn, Late
    <2>13. installed' \in SUBSET Packages /\ Unique(installed') /\ Keeps(before, installed', Removable)
      BY <1>3, <2>12 DEF CmdInv, CmdTypeOK, Keeps
    <2> QED
      BY <1>3, <2>6, <2>8, <2>9, <2>10, <2>11, <2>12, <2>13, WorkKeeps
  <1> QED
    BY <1>4, <1>5, <1>6

(* Steps to a further stage without jobs, and errors before there are any. *)
LEMMA PrepareKeeps ==
    ASSUME CmdInv,
           \/ RevertToNothing \/ AutoUpdate \/ ForceFails \/ NothingRequested \/ Refuse
           \/ ParseJson \/ ParseJsonFails \/ AuthenticateSession \/ AuthenticateSessionFails
           \/ FetchIndices \/ FetchIndicesFail
    PROVE  CmdInv'
  <1>1. ASSUME stage \in Early, UNCHANGED <<bootVars, cmd, before, frozen>>,
               NEW how \in {"failed", "usage", "crashed"}, Ends(how)
        PROVE  CmdInv'
    <2>1. Going /\ frozen' \in Seq(Listed) /\ stage # "idle" /\ installed = before
      BY <1>1 DEF Going, bootVars, CmdInv, CmdTypeOK, Early
    <2>2. how \in {"done", "failed", "usage", "crashed"} /\ how # "done"
      OBVIOUS
    <2> QED
      BY <1>1, <2>1, <2>2, EndKeeps
  <1>2. CASE RevertToNothing \/ ForceFails \/ NothingRequested
    <2>1. stage \in Early
      BY <1>2 DEF RevertToNothing, ForceFails, NothingRequested, Named, Changes, Selected, Early
    <2>2. UNCHANGED <<bootVars, cmd, before, frozen>>
      BY <1>2 DEF RevertToNothing, ForceFails, NothingRequested, Named, Changes, Selected
    <2>3. \E how \in {"failed", "usage", "crashed"} : Ends(how)
      BY <1>2 DEF RevertToNothing, ForceFails, NothingRequested
    <2> QED
      BY <1>1, <2>1, <2>2, <2>3
  <1>3. CASE AutoUpdate
    <2>1. stage = "start" /\ UNCHANGED <<bootVars, cmd, before, frozen>>
      BY <1>3 DEF AutoUpdate, Selected
    <2>2. Ends("crashed") \/ (GoOn("selected") /\ UNCHANGED <<jobs, actions>>)
      BY <1>3 DEF AutoUpdate, InplaceUpdate
    <2>3. stage \in Early /\ Going
      BY <2>1 DEF Early, Going, bootVars
    <2> QED
      BY <1>1, <2>1, <2>2, <2>3, GoOnKeeps
  <1>4. CASE Refuse
    <2>1. /\ stage = "selected" /\ UNCHANGED <<bootVars, cmd, before, frozen>>
          /\ "requirements" \notin cmd.options /\ "remove" \in cmd.options
          /\ (Requests("enstaller") /\ Ends("done")) \/ Ends("usage")
      BY <1>4 DEF Refuse, Named, Changes, Selected, RemovalRefused, Given
    <2>2. /\ stage \in Early /\ Going /\ stage # "idle" /\ frozen' \in Seq(Listed)
          /\ frozen' = frozen /\ installed = before /\ cmd \in Commands /\ ~ Given("machine")
      BY <2>1, CommandGiven DEF Early, Going, bootVars
    <2>3. Requests("enstaller") => DoneAsAsked'
      <3>1. ASSUME Requests("enstaller") PROVE WordsRemoved
        <4>1. \E j \in DOMAIN Typed : Typed[j].name = "enstaller" /\ Typed[j].version # 0
          <5>1. Human /\ cmd \in Commands \cup Calls
            BY <2>2 DEF Human
          <5> QED
            BY <3>1, <5>1, TypedProperties
        <4> QED
          BY <2>2, <4>1 DEF WordsRemoved, Human
      <3>2. Requests("enstaller") => Achieved
        BY <2>1, <3>1 DEF Achieved, Given, Complex
      <3> QED
        BY <2>2, <3>2, DoneOf DEF Going
    <2> QED
      BY <1>1, <2>1, <2>2, <2>3, EndKeeps
  <1>5. CASE ParseJsonFails \/ AuthenticateSessionFails \/ FetchIndicesFail
    <2>1. /\ stage \in Early /\ UNCHANGED <<bootVars, cmd, before, frozen>>
          /\ Ends("failed")
      BY <1>5 DEF ParseJsonFails, AuthenticateSessionFails, FetchIndicesFail, Raises, Selected, Early
    <2> QED
      BY <1>1, <2>1
  <1>6. CASE ParseJson \/ AuthenticateSession \/ FetchIndices
    <2>1. /\ stage \in {"parse", "authenticate", "fetch"}
          /\ \E to \in {"authenticate", "fetch", "machine"} : GoOn(to)
          /\ UNCHANGED <<bootVars, cmd, before, jobs, actions, frozen>>
      BY <1>6 DEF ParseJson, AuthenticateSession, FetchIndices, Continues, Selected
    <2>2. Going
      BY <2>1 DEF Going, bootVars
    <2> QED
      BY <2>1, <2>2, GoOnKeeps
  <1> QED
    BY <1>2, <1>3, <1>4, <1>5, <1>6

(* The jobs of a command begin. *)
LEMMA BeginKeeps ==
    ASSUME CmdInv, stage \in {"selected", "machine"}, UNCHANGED <<bootVars, cmd, before, frozen>>,
           NEW js \in Seq(Jobs), Begin(js), JobsWithin(js, Removable),
           Pending(cmd.options, Wanted, Removable, frozen, before, js, installed)
    PROVE  CmdInv'
  <1>1. /\ stage # "idle" /\ installed = before /\ installed \in SUBSET Packages
        /\ Unique(installed) /\ actions \in Seq(Actions) /\ cmd \in Commands \cup Calls
    BY DEF CmdInv, CmdTypeOK, Busy, Early
  <1>2. Keeps(before, installed, Removable)
    BY <1>1 DEF Keeps
  <1>3. /\ UNCHANGED <<step, cmd, before, frozen, outcome, installed, actions>>
        /\ stage' = "jobs" /\ stage' \in Late /\ jobs' = js
    BY DEF Begin, GoOn, bootVars, Late
  <1> QED
    BY <1>1, <1>2, <1>3, WorkKeeps

(* One job for each of a list of requirements. *)
LEMMA JobsOf ==
    ASSUME NEW reqs \in Seq(Asked), NEW js \in [DOMAIN reqs -> Jobs]
    PROVE  js \in Seq(Jobs) /\ Len(js) = Len(reqs) /\ DOMAIN js = DOMAIN reqs
  <1>1. Len(reqs) \in Nat /\ DOMAIN reqs = 1..Len(reqs)
    BY ElementsOfList
  <1>2. js \in [1..Len(reqs) -> Jobs]
    BY <1>1
  <1> QED
    BY <1>1, <1>2, ListOf

(* Names in any order. *)
LEMMA NamesOrdered ==
    ASSUME NEW packages \in SUBSET Packages, NEW S \in SUBSET {p.name : p \in packages},
           NEW order \in SetToSeqs(S)
    PROVE  order \in Seq(STRING)
  <1>1. IsFiniteSet(packages)
    BY PackagesAreFinite, FS_Subset
  <1> DEFINE name == [p \in packages |-> p.name]
             T == {p.name : p \in packages}
  <1>2. name \in Surjection(packages, T)
    BY DEF Surjection
  <1>3. IsFiniteSet(T)
    BY <1>1, <1>2, FS_Surjection
  <1>4. Cardinality(S) \in Nat
    BY <1>3, FS_Subset, FS_CardinalityType
  <1>5. S \subseteq STRING
    BY PackageFields
  <1>6. order \in [1..Cardinality(S) -> S]
    BY DEF SetToSeqs
  <1>7. order \in [1..Cardinality(S) -> STRING]
    BY <1>5, <1>6
  <1> QED
    BY <1>4, <1>7, SeqDef

(* The jobs of an update. *)
LEMMA UpdateJobsProperties ==
    ASSUME NEW packages \in SUBSET Packages, NEW below \in SUBSET Packages, NEW deps \in BOOLEAN,
           UpdateJobs(packages, below, deps)
    PROVE  \E js \in Seq(Jobs) : Begin(js) /\ \A i \in DOMAIN js : js[i].op = "install"
  <1> DEFINE NamesOf(ps) == {p.name : p \in ps}
             these == NamesOf(Updates(packages))
             those == NamesOf(Updates(below))
             JobsFor(loop) == [i \in DOMAIN loop |-> Job("install", Requirement(loop[i].item, 0), deps)]
  <1>1. PICK top \in SetToSeqs(NamesOf(packages)),
             rest \in SetToSeqs(NamesOf(below) \ NamesOf(packages)) :
            Begin(JobsFor(PickTwice(top \o rest, these, those)))
    BY DEF UpdateJobs
  <1>2. top \in Seq(STRING) /\ rest \in Seq(STRING)
    <2>1. NamesOf(below) \ NamesOf(packages) \in SUBSET NamesOf(below)
      OBVIOUS
    <2> QED
      BY <2>1, NamesOrdered
  <1>3. top \o rest \in Seq(STRING)
    BY <1>2, ConcatProperties
  <1> DEFINE loop == PickTwice(top \o rest, these, those)
             js == JobsFor(loop)
  <1>4. Begin(js)
    BY <1>1
  <1>5. loop \in Seq([item : STRING, first : BOOLEAN])
    <2> HIDE DEF these, those
    <2> QED
      BY <1>3, PickTwiceElements
  <1> HIDE DEF loop
  <1>6. /\ Len(loop) \in Nat /\ DOMAIN loop = 1..Len(loop)
        /\ \A i \in DOMAIN loop : loop[i] \in [item : STRING, first : BOOLEAN]
    BY <1>5, ElementsOfList
  <1>7. \A i \in DOMAIN loop : Requirement(loop[i].item, 0) \in Asked
    BY <1>6 DEF Requirement, Asked, Names
  <1>8. \A i \in DOMAIN loop : /\ Job("install", Requirement(loop[i].item, 0), deps) \in Jobs
                               /\ Job("install", Requirement(loop[i].item, 0), deps).op = "install"
    BY <1>7, FieldsOfJob
  <1>9. js \in [1..Len(loop) -> Jobs] /\ \A i \in DOMAIN js : js[i].op = "install"
    BY <1>6, <1>8
  <1> HIDE DEF js
  <1> QED
    BY <1>4, <1>6, <1>9, ListOf

(* Only installations: nothing is removed by a job. *)
LEMMA InstallsWithin ==
    ASSUME NEW js, \A i \in DOMAIN js : js[i].op = "install", NEW names
    PROVE  JobsWithin(js, names)
  BY DEF JobsWithin

(* --update-all, also by the machine command line. *)
LEMMA UpdateAllKeeps ==
    ASSUME CmdInv, UpdateAll \/ MachineUpdateAll
    PROVE  CmdInv'
  <1>1. PICK packages \in SUBSET Packages, below \in SUBSET Packages, deps \in BOOLEAN :
            UpdateJobs(packages, below, deps)
    <2>1. installed \in SUBSET Packages /\ Below \in SUBSET Packages /\ {} \in SUBSET Packages
      BY PackageFields DEF CmdInv, CmdTypeOK
    <2>2. Deps \in BOOLEAN
      BY DEF Deps, Given
    <2>3. CASE UpdateAll
      <3>1. UpdateJobs(installed, Below, Deps)
        BY <2>3 DEF UpdateAll
      <3> QED
        BY <2>1, <2>2, <3>1
    <2>4. CASE MachineUpdateAll
      <3>1. UpdateJobs(installed, {}, TRUE)
        BY <2>4 DEF MachineUpdateAll
      <3> QED
        BY <2>1, <3>1
    <2> QED
      BY <2>3, <2>4
  <1>2. PICK js \in Seq(Jobs) : Begin(js) /\ \A i \in DOMAIN js : js[i].op = "install"
    BY <1>1, UpdateJobsProperties
  <1>3. js \in Seq(Jobs) /\ \A i \in DOMAIN js : js[i].op = "install"
    BY <1>2
  <1>4. /\ stage \in {"selected", "machine"} /\ UNCHANGED <<bootVars, cmd, before, frozen>>
        /\ "update_all" \in cmd.options
    BY DEF UpdateAll, MachineUpdateAll, Changes, Selects, Selected, Given
  <1>5. "requirements" \notin cmd.options /\ "remove" \notin cmd.options
    <2>1. CASE stage = "selected"
      BY <1>4, <2>1, CommandGiven DEF Given, Simple, Complex
    <2>2. CASE stage = "machine"
      <3>1. cmd \in Calls
        BY <2>2 DEF CmdInv, Busy, Early
      <3>2. "requirements" \notin cmd.options
        BY <3>1, MachineAssumption
      <3>3. "remove" \in cmd.options => "remove" = "update_all"
        BY <1>4, <3>1, OneCall
      <3> QED
        BY <3>2, <3>3
    <2> QED
      BY <1>4, <2>1, <2>2
  <1>6. Pending(cmd.options, Wanted, Removable, frozen, before, js, installed)
    BY <1>4, <1>5 DEF Pending, Simple
  <1> QED
    BY <1>2, <1>3, <1>4, <1>6, InstallsWithin, BeginKeeps

(* --requirements, with what --freeze wrote. *)
LEMMA InstallRequirementsKeeps ==
    ASSUME CmdInv, InstallRequirements
    PROVE  CmdInv'
  <1>1. /\ stage = "selected" /\ UNCHANGED <<bootVars, cmd, before, frozen>>
        /\ Given("requirements") /\ Begin(FileJobs)
    BY DEF InstallRequirements, Changes, Selected
  <1>2. frozen \in Seq(Listed)
    BY DEF CmdInv, CmdTypeOK
  <1>3. frozen \in Seq(Asked)
    <2>1. Listed \subseteq Asked
      BY DEF Listed, Asked, Names
    <2>2. \A S, T : S \subseteq T => Seq(S) \subseteq Seq(T)
      OBVIOUS
    <2> QED
      BY <1>2, <2>1, <2>2
  <1>4. /\ FileJobs \in Seq(Jobs) /\ DOMAIN FileJobs = DOMAIN frozen
        /\ \A i \in DOMAIN frozen : /\ FileJobs[i].op = "install" /\ FileJobs[i].req = frozen[i]
                                    /\ FileJobs[i].deps = FALSE
    <2>1. \A i \in DOMAIN frozen : frozen[i] \in Asked
      BY <1>3, ElementsOfList
    <2>2. \A i \in DOMAIN frozen : Job("install", frozen[i], FALSE) \in Jobs
      BY <2>1 DEF Job, Jobs
    <2>3. FileJobs \in [DOMAIN frozen -> Jobs]
      BY <2>2 DEF FileJobs
    <2>4. FileJobs \in Seq(Jobs) /\ DOMAIN FileJobs = DOMAIN frozen
      BY <1>3, <2>3, JobsOf
    <2>5. \A i \in DOMAIN frozen : /\ FileJobs[i].op = "install" /\ FileJobs[i].req = frozen[i]
                                   /\ FileJobs[i].deps = FALSE
      BY DEF FileJobs, Job
    <2> QED
      BY <2>4, <2>5
  <1>5. "remove" \notin cmd.options
    BY <1>1, CommandGiven DEF Given, Simple, Complex
  <1>6. Pending(cmd.options, Wanted, Removable, frozen, before, FileJobs, installed)
    <2>1. \A i \in DOMAIN FileJobs : FileJobs[i].req \in Range(frozen)
      BY <1>4 DEF Range
    <2>2. \A i \in DOMAIN frozen : \E j \in DOMAIN FileJobs : FileJobs[j].req = frozen[i]
      BY <1>4
    <2>3. FilePending(frozen, before, FileJobs, installed)
      <3>1. installed = before
        BY <1>1, CommandGiven
      <3> QED
        BY <1>4, <2>1, <2>2, <3>1 DEF FilePending
    <2>4. cmd.options \cap (Simple \cup Complex) # {}
      BY <1>1 DEF Given, Simple
    <2> QED
      BY <1>5, <2>3, <2>4 DEF Pending
  <1>7. JobsWithin(FileJobs, Removable)
    BY <1>4 DEF JobsWithin
  <1> QED
    BY <1>1, <1>4, <1>6, <1>7, BeginKeeps

(* The words of a command, for the command line. *)
LEMMA RequestedProperties ==
    ASSUME CmdInv, stage = "selected"
    PROVE  /\ Requested \in Seq(Asked)
           /\ Wanted = Requested
  <1>1. cmd \in Commands /\ ~ Given("machine")
    BY CommandGiven
  <1>2. cmd.words \in Seq([name : STRING, version : Nat])
    BY <1>1, CommandLineAssumption DEF Requirements
  <1>3. cmd.words \in Seq(Asked)
    <2>1. [name : STRING, version : Nat] \subseteq Asked
      BY DEF Asked, Names
    <2>2. \A S, T : S \subseteq T => Seq(S) \subseteq Seq(T)
      OBVIOUS
    <2> DEFINE A == [name : STRING, version : Nat]
    <2>3. A \subseteq Asked /\ cmd.words \in Seq(A)
      BY <1>2, <2>1
    <2> HIDE DEF A
    <2> QED
      BY <2>2, <2>3
  <1> QED
    BY <1>1, <1>3, RequestedIsList DEF Wanted, Asked

(* --remove *)
LEMMA RemovePackagesKeeps ==
    ASSUME CmdInv, RemovePackages
    PROVE  CmdInv'
  <1> DEFINE js == [i \in DOMAIN Requested |-> Job("remove", Requested[i], FALSE)]
  <1>1. /\ stage = "selected" /\ UNCHANGED <<bootVars, cmd, before, frozen>>
        /\ Given("remove") /\ ~ RemovalRefused /\ Begin(js)
        /\ "requirements" \notin cmd.options
    BY DEF RemovePackages, Named, Changes, Selected
  <1>2. Requested \in Seq(Asked) /\ Wanted = Requested
    BY <1>1, RequestedProperties
  <1>3. /\ js \in Seq(Jobs) /\ DOMAIN js = DOMAIN Requested
        /\ \A i \in DOMAIN Requested : js[i].op = "remove" /\ js[i].req = Requested[i]
    <2>1. \A i \in DOMAIN Requested : Requested[i] \in Asked
      BY <1>2, ElementsOfList
    <2>2. \A i \in DOMAIN Requested : Job("remove", Requested[i], FALSE) \in Jobs
      BY <2>1 DEF Job, Jobs
    <2>3. js \in [DOMAIN Requested -> Jobs]
      BY <2>2
    <2>4. \A i \in DOMAIN Requested : js[i].op = "remove" /\ js[i].req = Requested[i]
      BY DEF Job
    <2> HIDE DEF js
    <2> QED
      BY <1>2, <2>3, <2>4, JobsOf
  <1> HIDE DEF js
  <1>4. \A i \in DOMAIN Requested : Requested[i].name \in Names /\ Requests(Requested[i].name)
    <2>1. \A i \in DOMAIN Requested : Requested[i] \in Asked
      BY <1>2, ElementsOfList
    <2> QED
      BY <2>1 DEF Requests, Asked
  <1>5. ~ Requests("enstaller")
    BY <1>1 DEF RemovalRefused
  <1>6. JobsWithin(js, Removable)
    <2>1. ASSUME NEW i \in DOMAIN js PROVE js[i].req.name \in Removable
      <3>1. js[i].req.name \in Names /\ Requests(js[i].req.name)
        BY <1>3, <1>4
      <3>2. js[i].req.name # "enstaller"
        BY <1>5, <3>1
      <3> QED
        BY <1>1, <3>1, <3>2 DEF Removable
    <2> QED
      BY <2>1 DEF JobsWithin
  <1>7. Pending(cmd.options, Wanted, Removable, frozen, before, js, installed)
    <2>1. cmd.options \cap (Simple \cup Complex) # {}
      BY <1>1 DEF Given, Complex
    <2>2. installed = before
      BY <1>1, CommandGiven
    <2>3. RemovalPending(Wanted, Removable, before, js, installed)
      BY <1>2, <1>3, <2>2 DEF RemovalPending
    <2> QED
      BY <1>1, <2>1, <2>3 DEF Pending
  <1> QED
    BY <1>1, <1>3, <1>6, <1>7, BeginKeeps

(* --remove-enstaller, confirmed or not. *)
LEMMA RemoveEnstallerKeeps ==
    ASSUME CmdInv, RemoveEnstallerOption
    PROVE  CmdInv'
  <1> DEFINE job == Job("remove", Requirement("enstaller", 0), FALSE)
  <1>1. /\ stage = "selected" /\ UNCHANGED <<bootVars, cmd, before, frozen>>
        /\ Given("remove_enstaller")
        /\ Begin(<<job>>) \/ Ends("done")
    BY DEF RemoveEnstallerOption, Named, Changes, Selected
  <1>2. CASE Ends("done")
    <2>1. "remove_enstaller" \in (Simple \cup Complex) \ {"requirements", "remove"}
      BY DEF Simple
    <2>2. DoneAsAsked'
      BY <1>1, <2>1, NothingAsked
    <2>3. Going /\ frozen' \in Seq(Listed) /\ stage # "idle"
      BY <1>1, CommandGiven DEF Going, bootVars
    <2> QED
      BY <1>1, <1>2, <2>2, <2>3, EndKeeps
  <1>3. CASE Begin(<<job>>)
    <2>1. job \in Jobs /\ job.op = "remove" /\ job.req.name = "enstaller"
      <3>1. Requirement("enstaller", 0) \in Asked /\ Requirement("enstaller", 0).name = "enstaller"
        BY DEF Requirement, Asked, Names
      <3> QED
        BY <3>1 DEF Job, Jobs
    <2> HIDE DEF job
    <2>2. "enstaller" \in Removable
      BY <1>1 DEF Removable, Names
    <2>3. <<job>> \in Seq(Jobs) /\ JobsWithin(<<job>>, Removable)
      BY <2>1, <2>2 DEF JobsWithin
    <2>4. Pending(cmd.options, Wanted, Removable, frozen, before, <<job>>, installed)
      <3>1. "requirements" \notin cmd.options /\ "remove" \notin cmd.options
        BY <1>1, CommandGiven DEF Given, Simple, Complex
      <3>2. cmd.options \cap (Simple \cup Complex) # {}
        BY <1>1 DEF Given, Simple
      <3> QED
        BY <3>1, <3>2 DEF Pending
    <2> QED
      BY <1>1, <1>3, <2>3, <2>4, BeginKeeps
  <1> QED
    BY <1>1, <1>2, <1>3

(* Packages are to be installed. *)
LEMMA InstallPackagesKeeps ==
    ASSUME CmdInv, InstallPackages
    PROVE  CmdInv'
  <1> DEFINE js == [i \in DOMAIN Requested |-> Job("install", Requested[i], Deps)]
  <1>1. /\ stage = "selected" /\ UNCHANGED <<bootVars, cmd, before, frozen>>
        /\ "remove" \notin cmd.options /\ "requirements" \notin cmd.options
        /\ Ends("usage") \/ (FALSE \in PromptYesNo /\ Ends("done")) \/ Begin(js)
    BY DEF InstallPackages, Named, Changes, Selected, Given
  <1>2. CASE Ends("usage") \/ (FALSE \in PromptYesNo /\ Ends("done"))
    <2>1. Going /\ frozen' \in Seq(Listed) /\ frozen' = frozen /\ stage # "idle" /\ installed = before
      BY <1>1, CommandGiven DEF Going, bootVars
    <2>2. FALSE \in PromptYesNo => DoneAsAsked'
      <3>1. ASSUME FALSE \in PromptYesNo PROVE Achieved
        BY <1>1, <2>1, <3>1, NoMeansAsked DEF Achieved, RequirementMet, Given
      <3> QED
        BY <2>1, <3>1, DoneOf DEF Going
    <2> QED
      BY <1>2, <2>1, <2>2, EndKeeps
  <1>3. CASE Begin(js)
    <2>1. Requested \in Seq(Asked) /\ Wanted = Requested
      BY <1>1, RequestedProperties
    <2>2. js \in [DOMAIN Requested -> Jobs]
      <3>1. Deps \in BOOLEAN
        BY DEF Deps, Given
      <3>2. \A i \in DOMAIN Requested : Requested[i] \in Asked
        BY <2>1, ElementsOfList
      <3>3. \A i \in DOMAIN Requested : Job("install", Requested[i], Deps) \in Jobs
        BY <3>1, <3>2 DEF Job, Jobs
      <3> QED
        BY <3>3
    <2>3. \A i \in DOMAIN Requested : js[i].op = "install" /\ js[i].req = Requested[i]
      BY DEF Job
    <2> HIDE DEF js
    <2>4. js \in Seq(Jobs) /\ Len(js) = Len(Requested) /\ DOMAIN js = DOMAIN Requested
      BY <2>1, <2>2, JobsOf
    <2>5. JobsWithin(js, Removable)
      BY <2>3, <2>4 DEF JobsWithin
    <2>6. Pending(cmd.options, Wanted, Removable, frozen, before, js, installed)
      <3>1. ASSUME Len(Wanted) = 1
            PROVE  Len(js) = 1 /\ js[1].op = "install" /\ js[1].req = Wanted[1]
        <4>1. 1 \in DOMAIN Requested
          BY <2>1, <3>1, ElementsOfList
        <4> QED
          BY <2>1, <2>3, <2>4, <3>1, <4>1
      <3>2. Wanted = <<>> => js = <<>>
        BY <2>1, <2>4
      <3>3. installed = before
        BY <1>1, CommandGiven
      <3>4. OnePending(Wanted, before, js, installed)
        BY <3>1, <3>2, <3>3 DEF OnePending
      <3> QED
        BY <1>1, <3>4 DEF Pending
    <2> QED
      BY <1>1, <1>3, <2>4, <2>5, <2>6, BeginKeeps
  <1> QED
    BY <1>1, <1>2, <1>3

(* The one requirement of a call. *)
LEMMA CallGiven ==
    ASSUME CmdInv, stage = "machine", NEW a \in {"install", "remove"}, Given(a)
    PROVE  /\ cmd \in Calls /\ Given("machine") /\ Wanted = cmd.words
           /\ Len(cmd.words) = 1 /\ DOMAIN cmd.words = {1} /\ cmd.words[1] \in Asked
           /\ "requirements" \notin cmd.options
           /\ \A b \in {"install", "remove"} : Given(b) => b = a
  <1>1. cmd \in Calls
    BY DEF CmdInv, Busy, Early
  <1>2. /\ Given("machine") /\ "requirements" \notin cmd.options
        /\ cmd.words \in Seq(Requirements)
        /\ Len(cmd.words) = IF "update_all" \in cmd.options THEN 0 ELSE 1
    BY <1>1, MachineAssumption DEF Given
  <1>3. \A b \in {"install", "remove", "update_all"} : b \in cmd.options => b = a
    BY <1>1, OneCall DEF Given
  <1>4. Len(cmd.words) = 1
    BY <1>2, <1>3
  <1>5. DOMAIN cmd.words = {1} /\ cmd.words[1] \in Requirements
    BY <1>2, <1>4, ElementsOfList
  <1>6. Wanted = cmd.words
    BY <1>2 DEF Wanted
  <1>7. cmd.words[1] \in Asked
    BY <1>5 DEF Requirements, Asked, Names
  <1> QED
    BY <1>1, <1>2, <1>3, <1>4, <1>5, <1>6, <1>7 DEF Given

(* A call installs or removes one requirement. *)
LEMMA CallKeeps ==
    ASSUME CmdInv, MachineInstall \/ MachineRemove
    PROVE  CmdInv'
  <1>1. PICK a \in {"install", "remove"} :
            /\ Given(a)
            /\ \/ a = "install" /\ Begin(<<Job("install", cmd.words[1], TRUE)>>)
               \/ a = "remove" /\ Begin(<<Job("remove", cmd.words[1], FALSE)>>)
    BY DEF MachineInstall, MachineRemove, Selects
  <1>2. stage = "machine" /\ UNCHANGED <<bootVars, cmd, before, frozen>>
    BY DEF MachineInstall, MachineRemove, Selects, Selected
  <1>3. /\ cmd \in Calls /\ Given("machine") /\ Wanted = cmd.words
        /\ Len(cmd.words) = 1 /\ DOMAIN cmd.words = {1} /\ cmd.words[1] \in Asked
        /\ "requirements" \notin cmd.options
        /\ \A b \in {"install", "remove"} : Given(b) => b = a
    BY <1>1, <1>2, CallGiven
  <1>4. PICK job \in Jobs : Begin(<<job>>) /\ job.op = a /\ job.req = cmd.words[1]
    <2>1. ASSUME a = "install", Begin(<<Job("install", cmd.words[1], TRUE)>>)
          PROVE  \E job \in Jobs : Begin(<<job>>) /\ job.op = a /\ job.req = cmd.words[1]
      <3>1. Job("install", cmd.words[1], TRUE) \in Jobs
        BY <1>3 DEF Job, Jobs
      <3>2. /\ Job("install", cmd.words[1], TRUE).op = "install"
            /\ Job("install", cmd.words[1], TRUE).req = cmd.words[1]
        BY DEF Job
      <3> QED
        BY <2>1, <3>1, <3>2
    <2>2. ASSUME a = "remove", Begin(<<Job("remove", cmd.words[1], FALSE)>>)
          PROVE  \E job \in Jobs : Begin(<<job>>) /\ job.op = a /\ job.req = cmd.words[1]
      <3>1. Job("remove", cmd.words[1], FALSE) \in Jobs
        BY <1>3 DEF Job, Jobs
      <3>2. /\ Job("remove", cmd.words[1], FALSE).op = "remove"
            /\ Job("remove", cmd.words[1], FALSE).req = cmd.words[1]
        BY DEF Job
      <3> QED
        BY <2>2, <3>1, <3>2
    <2> QED
      BY <1>1, <2>1, <2>2
  <1>5. <<job>> \in Seq(Jobs)
    OBVIOUS
  <1>6. JobsWithin(<<job>>, Removable)
    <2>1. ASSUME a = "remove" PROVE cmd.words[1].name \in Removable
      <3>1. cmd.words[1].name \in Names
        BY <1>3 DEF Asked
      <3>2. {"machine", "remove"} \subseteq cmd.options
        BY <1>1, <1>3, <2>1 DEF Given
      <3> QED
        BY <3>1, <3>2 DEF Removable
    <2> QED
      BY <1>4, <2>1 DEF JobsWithin
  <1>7. Pending(cmd.options, Wanted, Removable, frozen, before, <<job>>, installed)
    <2>1. installed = before
      BY <1>2 DEF CmdInv, Early
    <2>2. CASE a = "install"
      <3>1. "remove" \notin cmd.options
        BY <1>3, <2>2 DEF Given
      <3>2. Wanted # <<>> /\ Len(<<job>>) = 1 /\ <<job>>[1] = job
        BY <1>3
      <3>3. OnePending(Wanted, before, <<job>>, installed)
        BY <1>3, <1>4, <2>1, <2>2, <3>2 DEF OnePending
      <3> QED
        BY <1>3, <3>1, <3>3 DEF Pending
    <2>3. CASE a = "remove"
      <3>1. cmd.options \cap (Simple \cup Complex) # {}
        BY <1>1, <2>3 DEF Given, Complex
      <3>2. DOMAIN <<job>> = {1} /\ <<job>>[1] = job
        OBVIOUS
      <3>3. RemovalPending(Wanted, Removable, before, <<job>>, installed)
        BY <1>3, <1>4, <2>1, <2>3, <3>2 DEF RemovalPending
      <3> QED
        BY <1>3, <3>1, <3>3 DEF Pending
    <2> QED
      BY <2>2, <2>3
  <1> QED
    BY <1>2, <1>4, <1>5, <1>6, <1>7, BeginKeeps

(* A command at work. *)
LEMMA Working ==
    ASSUME CmdInv, stage \in Late
    PROVE  /\ outcome = "none" /\ step = "idle" /\ stage # "idle" /\ cmd \in Commands \cup Calls
           /\ installed \in SUBSET Packages /\ Unique(installed)
           /\ jobs \in Seq(Jobs) /\ actions \in Seq(Actions) /\ frozen \in Seq(Listed)
           /\ DryRun => installed = before
           /\ Keeps(before, installed, Removable) /\ JobsWithin(jobs, Removable)
           /\ ~ DryRun => Pending(cmd.options, Wanted, Removable, frozen, before, jobs, installed)
  <1>1. stage # "idle"
    BY DEF Late
  <1>2. outcome = "none" /\ step = "idle" /\ cmd \in Commands \cup Calls
    BY <1>1 DEF CmdInv, Busy
  <1> QED
    BY <1>1, <1>2 DEF CmdInv, CmdTypeOK

(* The next job. *)
LEMMA NextJobKeeps ==
    ASSUME CmdInv, stage \in Late, jobs # <<>>, NextJob, UNCHANGED <<step, cmd, before, frozen>>,
           installed' \in SUBSET Packages, Unique(installed'),
           Keeps(before, installed', Removable), DryRun => installed' = before,
           ~ DryRun => Pending(cmd.options, Wanted, Removable, frozen, before, Tail(jobs), installed')
    PROVE  CmdInv'
  <1>1. /\ jobs' = Tail(jobs) /\ actions' = <<>> /\ stage' = "jobs" /\ stage' \in Late
        /\ UNCHANGED outcome
    BY DEF NextJob, Late
  <1>2. /\ Tail(jobs) \in Seq(Jobs)
        /\ \A i \in DOMAIN Tail(jobs) : i + 1 \in DOMAIN jobs /\ Tail(jobs)[i] = jobs[i + 1]
    BY Working, HeadTail
  <1>3. JobsWithin(Tail(jobs), Removable)
    BY <1>2, Working DEF JobsWithin
  <1>4. <<>> \in Seq(Actions)
    OBVIOUS
  <1> QED
    BY <1>1, <1>2, <1>3, <1>4, Working, WorkKeeps

(* The actions of a job are planned. *)
LEMMA PlanKeeps ==
    ASSUME CmdInv, stage \in Late, UNCHANGED <<bootVars, cmd, before, frozen, jobs>>,
           NEW to \in {"confirm", "execute"}, GoOn(to), actions' \in Seq(Actions),
           to = "confirm" => Head(jobs).op = "install",
           IsPlanOf(before, installed, jobs, actions')
    PROVE  CmdInv'
  <1>1. /\ UNCHANGED <<step, cmd, before, frozen, outcome, installed, jobs>>
        /\ stage' \in Late /\ (stage' = "confirm" => Head(jobs').op = "install")
    BY DEF bootVars, GoOn, Late
  <1> QED
    BY <1>1, Working, WorkKeeps

(* A job, or the question before it, ends the command with an error. *)
LEMMA FailKeeps ==
    ASSUME CmdInv, stage \in Late, UNCHANGED <<bootVars, cmd, before, frozen>>, Ends("failed")
    PROVE  CmdInv'
  <1>1. Going /\ frozen' \in Seq(Listed) /\ stage # "idle"
    BY Working DEF Going, bootVars
  <1> QED
    BY <1>1, EndKeeps

(* What a job is planned for. *)
LEMMA PlanRemoveKeeps ==
    ASSUME CmdInv, PlanRemove
    PROVE  CmdInv'
  <1> DEFINE found == InPrefix(Head(jobs).req.name)
  <1>1. /\ stage = "jobs" /\ stage \in Late /\ jobs # <<>> /\ Head(jobs).op = "remove"
        /\ UNCHANGED <<bootVars, cmd, before, frozen>>
    BY DEF PlanRemove, Doing, Late
  <1>2. CASE found = {}
    <2>1. NextJob
      BY <1>2 DEF PlanRemove
    <2>2. \A q \in installed : q.name # Head(jobs).req.name
      BY <1>2 DEF InPrefix
    <2>3. ~ DryRun => Pending(cmd.options, Wanted, Removable, frozen, before, Tail(jobs), installed)
      <3>1. jobs \in Seq(Jobs) /\ installed \ installed = {} /\ installed \in SUBSET installed
        BY <1>1, Working
      <3>2. \A q \in installed \ installed : q.name \in Removable
        BY <3>1
      <3> QED
        BY <1>1, <2>2, <3>1, <3>2, Working, PendingRemoved
    <2>4. installed' = installed /\ UNCHANGED <<step, cmd, before, frozen>>
      BY <1>1 DEF bootVars
    <2> QED
      BY <1>1, <2>1, <2>3, <2>4, Working, NextJobKeeps
  <1>3. CASE found # {}
    <2>1. GoOn("execute") /\ UNCHANGED jobs
      BY <1>3 DEF PlanRemove
    <2>2. PICK p \in found : actions' = <<Action("remove", p, FALSE)>>
      BY <1>3 DEF PlanRemove
    <2>3. p \in installed /\ p.name = Head(jobs).req.name /\ p \in Packages
      BY <1>1, Working DEF InPrefix
    <2>4. IsRemoval(installed, actions', Head(jobs))
      BY <2>2, <2>3 DEF IsRemoval
    <2>5. actions' \in Seq(Actions)
      <3>1. Action("remove", p, FALSE) \in Actions
        BY <2>3 DEF Action, Actions
      <3> QED
        BY <2>2, <3>1, OneElement
    <2>6. IsPlanOf(before, installed, jobs, actions')
      BY <1>1, <2>4 DEF IsPlanOf
    <2> QED
      BY <1>1, <2>1, <2>5, <2>6, PlanKeeps
  <1> QED
    BY <1>2, <1>3

(* A package, alone or with what it depends on. *)
LEMMA PlanOfPackage ==
    ASSUME CmdInv, stage \in Late, NEW p \in Remote, NEW job, NEW plan,
           plan = IF job.deps THEN Closure[p] ELSE <<p>>, plan # <<>>, Matches(p, job.req)
    PROVE  /\ InstallActions(plan) \in Seq(Actions)
           /\ IsInstallation(installed, InstallActions(plan), job)
  <1>1. installed \in SUBSET Packages /\ Unique(installed)
    BY Working
  <1>2. /\ plan \in Seq(Packages) /\ \E k \in DOMAIN plan : plan[k] = p
        /\ \A i, j \in DOMAIN plan : plan[i].name = plan[j].name => i = j
    <2>1. CASE job.deps
      <3>1. /\ plan \in Seq(Remote) /\ Last(plan) = p
            /\ \A i, j \in DOMAIN plan : plan[i].name = plan[j].name => i = j
        BY <2>1, CommandLineAssumption
      <3>2. Len(plan) \in DOMAIN plan /\ plan[Len(plan)] = p
        BY <3>1 DEF Last
      <3>3. \A S, T : S \subseteq T => Seq(S) \subseteq Seq(T)
        OBVIOUS
      <3>4. plan \in Seq(Packages)
        BY <3>1, <3>3, PackageFields
      <3> QED
        BY <3>1, <3>2, <3>4
    <2>2. CASE ~ job.deps
      <3>1. plan = <<p>> /\ p \in Packages
        BY <2>2, PackageFields
      <3>2. plan \in Seq(Packages) /\ DOMAIN plan = {1} /\ plan[1] = p
        BY <3>1, OneElement
      <3> QED
        BY <3>2
    <2> QED
      BY <2>1, <2>2
  <1> DEFINE steps == InstallActions(plan)
  <1>3. /\ steps \in Seq(Actions) /\ IsReplacement(installed, steps)
        /\ \A k \in DOMAIN plan : plan[k] \in Made(installed, steps, Len(steps))
        /\ \A i \in DOMAIN steps :
                \E k \in DOMAIN plan : steps[i].package.name = plan[k].name
    BY <1>1, <1>2, PlanIsInstallation
  <1> HIDE DEF steps
  <1>4. p \in Made(installed, steps, Len(steps))
    BY <1>2, <1>3
  <1>5. ASSUME ~ job.deps, NEW i \in DOMAIN steps PROVE steps[i].package.name = job.req.name
    <2>1. \A k \in DOMAIN plan : plan[k] = p
      BY <1>5
    <2>2. p.name = job.req.name
      BY DEF Matches
    <2> QED
      BY <1>3, <2>1, <2>2
  <1>6. IsInstallation(installed, steps, job)
    BY <1>3, <1>4, <1>5 DEF IsInstallation
  <1> QED
    BY <1>3, <1>6 DEF steps

(* An installation is planned. *)
LEMMA PlanInstallKeeps ==
    ASSUME CmdInv, PlanInstall
    PROVE  CmdInv'
  <1> DEFINE job == Head(jobs)
             PlanOf(p) == IF job.deps THEN Closure[p] ELSE <<p>>
  <1>1. /\ stage \in Late /\ jobs # <<>> /\ Head(jobs).op = "install"
        /\ UNCHANGED <<bootVars, cmd, before, frozen>>
    BY DEF PlanInstall, Doing, Late
  <1>2. \/ Ends("failed")
        \/ \E p \in Remote, to \in {"confirm", "execute"} :
            /\ Matches(p, job.req) /\ PlanOf(p) # <<>>
            /\ actions' = InstallActions(PlanOf(p)) /\ GoOn(to) /\ UNCHANGED jobs
    <2>1. CASE Newest({p \in Remote : Matches(p, job.req)}) = {} /\ Ends("failed")
      BY <2>1
    <2>2. ASSUME NEW p \in Newest({p \in Remote : Matches(p, job.req)}),
                 IF PlanOf(p) = <<>> THEN Ends("failed")
                 ELSE IF FromPypi(p)
                 THEN actions' = InstallActions(PlanOf(p)) /\ GoOn("confirm") /\ UNCHANGED jobs
                 ELSE IF AnyInstalled(InstallActions(PlanOf(p)), Unavailable) THEN Ends("failed")
                 ELSE /\ actions' = InstallActions(PlanOf(p))
                      /\ GoOn(IF AnyInstalled(InstallActions(PlanOf(p)), FromPypi)
                              THEN "confirm" ELSE "execute")
                      /\ UNCHANGED jobs
          PROVE  \/ Ends("failed")
                 \/ \E q \in Remote, to \in {"confirm", "execute"} :
                    /\ Matches(q, job.req) /\ PlanOf(q) # <<>>
                    /\ actions' = InstallActions(PlanOf(q)) /\ GoOn(to) /\ UNCHANGED jobs
      <3>1. p \in Remote /\ Matches(p, job.req)
        BY DEF Newest
      <3> DEFINE steps == InstallActions(PlanOf(p))
      <3>2. \/ Ends("failed")
            \/ /\ PlanOf(p) # <<>> /\ actions' = steps /\ UNCHANGED jobs
               /\ GoOn("confirm") \/ GoOn("execute")
        <4> HIDE DEF steps, PlanOf
        <4>1. PlanOf(p) = <<>> => Ends("failed")
          BY <2>2
        <4>2. PlanOf(p) # <<>> /\ FromPypi(p) =>
                actions' = steps /\ GoOn("confirm") /\ UNCHANGED jobs
          BY <2>2 DEF steps
        <4>3. PlanOf(p) # <<>> /\ ~ FromPypi(p) =>
                \/ Ends("failed")
                \/ actions' = steps /\ UNCHANGED jobs /\ (GoOn("confirm") \/ GoOn("execute"))
          BY <2>2 DEF steps
        <4> QED
          BY <4>1, <4>2, <4>3
      <3> HIDE DEF PlanOf
      <3> QED
        BY <3>1, <3>2
    <2> QED
      BY <2>1, <2>2 DEF PlanInstall
  <1>3. CASE Ends("failed")
    BY <1>1, <1>3, FailKeeps
  <1>4. ASSUME NEW p \in Remote, NEW to \in {"confirm", "execute"},
               Matches(p, job.req), PlanOf(p) # <<>>,
               actions' = InstallActions(PlanOf(p)), GoOn(to), UNCHANGED jobs
        PROVE  CmdInv'
    <2>1. actions' \in Seq(Actions) /\ IsInstallation(installed, actions', job)
      BY <1>1, <1>4, PlanOfPackage
    <2>2. IsPlanOf(before, installed, jobs, actions')
      BY <1>1, <2>1 DEF IsPlanOf
    <2> QED
      BY <1>1, <1>4, <2>1, <2>2, PlanKeeps
  <1> QED
    BY <1>2, <1>3, <1>4

(* The user is asked. *)
LEMMA ConfirmKeeps ==
    ASSUME CmdInv, Confirm
    PROVE  CmdInv'
  <1>1. stage = "confirm" /\ stage \in Late /\ UNCHANGED <<bootVars, cmd, before, frozen>>
    BY DEF Confirm, Late
  <1>2. CASE Ends("failed")
    BY <1>1, <1>2, FailKeeps
  <1>3. CASE GoOn("execute") /\ UNCHANGED <<jobs, actions>>
    <2>1. IsPlanOf(before, installed, jobs, actions') /\ actions' \in Seq(Actions)
      BY <1>1, <1>3, Working DEF CmdInv
    <2> QED
      BY <1>1, <1>3, <2>1, PlanKeeps
  <1>4. CASE FALSE \in PromptYesNo /\ Ends("done")
    <2>1. /\ Going /\ frozen' \in Seq(Listed) /\ frozen' = frozen /\ stage # "idle"
          /\ jobs \in Seq(Jobs) /\ jobs # <<>> /\ Head(jobs).op = "install"
      BY <1>1, Working DEF Going, bootVars, CmdInv, IsPlanOf
    <2>2. ASSUME ~ DryRun PROVE Achieved
      <3>1. Pending(cmd.options, Wanted, Removable, frozen, before, jobs, installed)
        BY <1>1, <2>2, Working
      <3>2. MaySayNo
        BY <1>4, NoMeansAsked
      <3>3. Given("requirements") => FileRestored
        BY <3>1, <3>2 DEF Pending, FilePending, FileRestored, Untouched, InPrefix, Of, Given
      <3>4. ~ Given("remove")
        <4>1. Head(jobs) = jobs[1] /\ 1 \in DOMAIN jobs
          BY <2>1, HeadTail
        <4> QED
          BY <2>1, <3>1, <4>1 DEF Pending, RemovalPending, Given
      <3>5. ASSUME cmd.options \cap (Simple \cup Complex) = {}, Len(Typed) = 1
            PROVE  RequirementMet
        <4>1. Wanted # <<>> /\ (Len(Wanted) = 1 => installed = before)
          BY <2>1, <3>1, <3>5 DEF Pending, OnePending
        <4>2. Len(Wanted) = 1
          BY <1>1, <3>5, <4>1, Working, TypedProperties
        <4> QED
          BY <3>2, <4>1, <4>2 DEF RequirementMet
      <3> QED
        BY <3>3, <3>4, <3>5 DEF Achieved
    <2> QED
      BY <1>4, <2>1, <2>2, DoneOf, EndKeeps DEF Going
  <1> QED
    BY <1>2, <1>3, <1>4 DEF Confirm

(* Interrupted between two actions. *)
LEMMA StopKeeps ==
    ASSUME CmdInv, stage \in Late, ~ DryRun, Ends("stopped"),
           UNCHANGED <<step, cmd, before, frozen>>,
           installed' \in SUBSET Packages, Unique(installed')
    PROVE  CmdInv'
  <1>1. stage' = "idle" /\ outcome' = "stopped" /\ jobs' = <<>> /\ actions' = <<>>
    BY DEF Ends
  <1>2. CmdTypeOK'
    <2>1. <<>> \in Seq(Jobs) /\ <<>> \in Seq(Actions)
      OBVIOUS
    <2> QED
      BY <1>1, <2>1, Working DEF CmdTypeOK
  <1>3. Busy'
    BY <1>1 DEF Busy, Early, Late
  <1>4. step' # "install"
    BY Working
  <1>5. ~ (stage' \in Early \/ DryRun' \/ outcome' = "crashed")
    BY <1>1, SameCommand DEF Early
  <1>6. stage' \notin Late /\ stage' \notin {"confirm", "execute"}
    BY <1>1 DEF Late
  <1>7. DoneAsAsked'
    BY <1>1 DEF DoneAsAsked
  <1> QED
    BY <1>1, <1>2, <1>3, <1>4, <1>5, <1>6, <1>7 DEF CmdInv

(* The first k actions have been executed. *)
ExecutedTo(k) ==
    /\ \A i \in 1..k : Runs(actions[i])
    /\ installed' = Made(installed, actions, k)
    /\ IF k = Len(actions) THEN NextJob
       ELSE IF Runs(actions[k + 1]) THEN Ends("stopped") ELSE Ends("crashed")

(* None of a revert. *)
LEMMA RevertExecuted ==
    ASSUME CmdInv, stage \in Late, UNCHANGED <<step, cmd, before, frozen>>, IsRevert(actions),
           installed = before, NEW k \in 0..Len(actions), ExecutedTo(k)
    PROVE  CmdInv'
  <1>1. actions \in Seq(Actions)
    BY Working
  <1>2. Len(actions) \in Nat /\ Len(actions) # 0 /\ 1..Len(actions) = DOMAIN actions
    BY <1>1, ElementsOfList DEF IsRevert
  <1>3. \A i \in 1..Len(actions) : ~ Runs(actions[i])
    BY <1>2 DEF IsRevert, Runs
  <1>4. k = 0
    <2>1. CASE k # 0
      <3>1. 1 \in 1..k /\ 1 \in 1..Len(actions)
        BY <1>2, <2>1
      <3> QED
        BY <1>3, <3>1 DEF ExecutedTo
    <2> QED
      BY <2>1
  <1>5. ~ Runs(actions[k + 1])
    <2>1. k + 1 \in 1..Len(actions)
      BY <1>2, <1>4
    <2> QED
      BY <1>3, <2>1
  <1>6. Ends("crashed")
    BY <1>2, <1>4, <1>5 DEF ExecutedTo
  <1>7. installed' = installed
    <2>1. Made(installed, actions, 0) = installed
      BY DEF Made
    <2> QED
      BY <1>4, <2>1 DEF ExecutedTo
  <1>8. Going /\ frozen' \in Seq(Listed) /\ stage # "idle"
    BY <1>7, Working DEF Going
  <1> QED
    BY <1>6, <1>8, EndKeeps

(* All of a removal, or none of it. *)
LEMMA RemovalExecuted ==
    ASSUME CmdInv, stage \in Late, ~ DryRun, UNCHANGED <<step, cmd, before, frozen>>,
           jobs # <<>>, Head(jobs).op = "remove", IsRemoval(installed, actions, Head(jobs)),
           NEW k \in 0..Len(actions), ExecutedTo(k)
    PROVE  CmdInv'
  <1>1. PICK p \in installed :
            p.name = Head(jobs).req.name /\ actions = <<Action("remove", p, FALSE)>>
    BY DEF IsRemoval
  <1>2. /\ installed \in SUBSET Packages /\ Unique(installed) /\ jobs \in Seq(Jobs)
        /\ Keeps(before, installed, Removable) /\ JobsWithin(jobs, Removable)
        /\ Pending(cmd.options, Wanted, Removable, frozen, before, jobs, installed)
    BY Working
  <1>3. /\ Len(actions) = 1 /\ actions[1].op = "remove" /\ actions[1].package = p
        /\ Runs(actions[1])
    BY <1>1 DEF Action, Runs
  <1>4. CASE k = 0
    <2>1. installed' = installed
      BY <1>4 DEF ExecutedTo, Made
    <2>2. Ends("stopped")
      BY <1>3, <1>4 DEF ExecutedTo
    <2> QED
      BY <1>2, <2>1, <2>2, StopKeeps
  <1>5. CASE k # 0
    <2>1. k = 1
      BY <1>3, <1>5
    <2>2. installed' = installed \ {p}
      <3>1. \A i \in 1..1 : i = 1
        OBVIOUS
      <3>2. installed' = Made(installed, actions, 1)
        BY <2>1 DEF ExecutedTo
      <3> QED
        BY <1>3, <3>1, <3>2 DEF Made
    <2>3. NextJob
      BY <1>3, <2>1 DEF ExecutedTo
    <2>4. \A q \in installed' : q \in installed /\ q.name # Head(jobs).req.name
      BY <1>1, <1>2, <2>2 DEF Unique
    <2>5. installed' \in SUBSET installed
      BY <2>2
    <2>6. p.name \in Removable
      <3>1. Head(jobs) = jobs[1] /\ 1 \in DOMAIN jobs
        BY <1>2, HeadTail
      <3> QED
        BY <1>1, <1>2, <3>1 DEF JobsWithin
    <2>7. Pending(cmd.options, Wanted, Removable, frozen, before, Tail(jobs), installed')
      <3>1. \A q \in installed \ installed' : q.name \in Removable
        BY <2>2, <2>6
      <3> QED
        BY <1>2, <2>4, <2>5, <3>1, PendingRemoved
    <2>8. Keeps(before, installed', Removable)
      BY <1>2, <2>2, <2>6 DEF Keeps
    <2>9. installed' \in SUBSET Packages /\ Unique(installed')
      BY <1>2, <2>5 DEF Unique
    <2> QED
      BY <2>3, <2>7, <2>8, <2>9, NextJobKeeps
  <1> QED
    BY <1>4, <1>5

(* An installation, up to any action of it. *)
LEMMA InstallationExecuted ==
    ASSUME CmdInv, stage \in Late, ~ DryRun, UNCHANGED <<step, cmd, before, frozen>>,
           jobs # <<>>, Head(jobs).op = "install", IsInstallation(installed, actions, Head(jobs)),
           NEW k \in 0..Len(actions), ExecutedTo(k)
    PROVE  CmdInv'
  <1>1. /\ installed \in SUBSET Packages /\ Unique(installed)
        /\ jobs \in Seq(Jobs) /\ actions \in Seq(Actions) /\ frozen \in Seq(Listed)
        /\ Keeps(before, installed, Removable)
        /\ Pending(cmd.options, Wanted, Removable, frozen, before, jobs, installed)
    BY Working
  <1>2. IsReplacement(installed, actions) /\ installed' = Made(installed, actions, k)
    BY DEF IsInstallation, ExecutedTo
  <1>3. installed' \in SUBSET Packages /\ Unique(installed')
    BY <1>1, <1>2, MadeOfPackages, MadeUnique
  <1>4. CASE k = Len(actions)
    <2>1. NextJob
      BY <1>4 DEF ExecutedTo
    <2>2. Pending(cmd.options, Wanted, Removable, frozen, before, Tail(jobs), installed')
      BY <1>1, <1>2, <1>4, PendingInstalled
    <2>3. \A p \in installed : \E q \in installed' : q.name = p.name
      BY <1>1, <1>2, <1>4, MadeKeeps
    <2>4. Keeps(before, installed', Removable)
      BY <1>1, <2>3 DEF Keeps
    <2> QED
      BY <1>3, <2>1, <2>2, <2>4, NextJobKeeps
  <1>5. CASE k # Len(actions)
    <2>1. k + 1 \in DOMAIN actions
      BY <1>1, <1>5
    <2>2. Runs(actions[k + 1])
      BY <1>2, <2>1 DEF IsReplacement, Runs
    <2>3. Ends("stopped")
      BY <1>5, <2>2 DEF ExecutedTo
    <2> QED
      BY <1>3, <2>3, StopKeeps
  <1> QED
    BY <1>4, <1>5

(* Actions are executed, or printed. *)
LEMMA ExecuteKeeps ==
    ASSUME CmdInv, Execute
    PROVE  CmdInv'
  <1>1. stage = "execute" /\ stage \in Late /\ UNCHANGED <<step, cmd, before, frozen>>
    BY DEF Execute, Late
  <1>2. IsPlanOf(before, installed, jobs, actions)
    BY <1>1 DEF CmdInv
  <1>3. CASE DryRun
    <2>1. NextJob /\ installed' = installed
      BY <1>3 DEF Execute
    <2>2. jobs # <<>>
      BY <1>2 DEF IsPlanOf
    <2> QED
      BY <1>1, <1>3, <2>1, <2>2, Working, NextJobKeeps
  <1>4. CASE ~ DryRun
    <2>1. PICK k \in 0..Len(actions) : ExecutedTo(k)
      BY <1>4, AfterIsMade DEF Execute, ExecutedTo
    <2> QED
      BY <1>1, <1>2, <1>4, <2>1, RevertExecuted, RemovalExecuted, InstallationExecuted DEF IsPlanOf
  <1> QED
    BY <1>3, <1>4

(* There is nothing left to do. *)
LEMMA FinishKeeps ==
    ASSUME CmdInv, Finish
    PROVE  CmdInv'
  <1>1. /\ stage \in Late /\ stage # "idle" /\ jobs = <<>> /\ Ends("done") /\ Going
        /\ frozen' = frozen /\ frozen \in Seq(Listed)
    BY Working DEF Finish, Late, Going, bootVars
  <1>2. ASSUME ~ DryRun PROVE Achieved
    <2>1. Pending(cmd.options, Wanted, Removable, frozen, before, <<>>, installed)
      BY <1>1, <1>2, Working
    <2>2. DOMAIN <<>> = {} /\ Len(<<>>) = 0 /\ \A x : <<x>> # <<>>
      OBVIOUS
    <2>3. cmd \in Commands \cup Calls /\ (Human => cmd \in Commands /\ ~ UsageError(cmd))
      <3>1. cmd \in Calls => Given("machine")
        BY MachineAssumption DEF Given
      <3> QED
        BY <1>1, <3>1, Working DEF CmdInv, Busy, Human
    <2>4. Given("requirements") => FileRestored
      BY <2>1, <2>2 DEF Pending, FilePending, FileRestored, InPrefix, Given
    <2>5. ASSUME Given("remove") PROVE WordsRemoved
      <3>1. /\ \A i \in DOMAIN Wanted : \A p \in installed : p.name # Wanted[i].name
            /\ installed \subseteq before /\ \A p \in before \ installed : p.name \in Removable
        BY <2>1, <2>2, <2>5 DEF Pending, RemovalPending, Given
      <3>2. ASSUME NEW i \in DOMAIN Typed, NEW k \in DOMAIN Wanted, Wanted[k] = Typed[i]
            PROVE  InPrefix(Typed[i].name) = {}
        BY <3>1, <3>2 DEF InPrefix
      <3>3. ASSUME Human PROVE Untouched("enstaller")
        <4>1. "enstaller" \notin Removable
          <5>1. "remove" \in Complex /\ "remove_enstaller" \in Simple
                /\ "remove" # "remove_enstaller"
            BY DEF Simple, Complex
          <5>2. ~ Given("remove_enstaller")
            BY <2>3, <2>5, <3>3, <5>1, OneOption DEF Given
          <5> QED
            BY <3>3, <5>2 DEF Removable, Human, Given
        <4> QED
          BY <3>1, <4>1 DEF Untouched, InPrefix
      <3>4. \A i \in DOMAIN Typed :
                \/ \E k \in DOMAIN Wanted : Wanted[k] = Typed[i]
                \/ Human /\ Typed[i].name = "enstaller"
        BY <2>3, TypedProperties
      <3> QED
        BY <3>2, <3>3, <3>4 DEF WordsRemoved
    <2>6. ASSUME cmd.options \cap (Simple \cup Complex) = {}, Len(Typed) = 1 PROVE RequirementMet
      <3>1. OnePending(Wanted, before, <<>>, installed)
        BY <2>1, <2>6 DEF Pending
      <3>2. CASE Wanted = Typed
        BY <2>2, <2>6, <3>1, <3>2 DEF OnePending, RequirementMet
      <3>3. CASE Human /\ Wanted = <<>> /\ Typed[1] = Requirement("enstaller", 0)
        BY <3>1, <3>3 DEF OnePending, RequirementMet
      <3> QED
        BY <2>3, <2>6, <3>2, <3>3, TypedProperties
    <2> QED
      BY <2>4, <2>5, <2>6 DEF Achieved
  <1> QED
    BY <1>1, <1>2, DoneOf, EndKeeps DEF Going

(* The bootstrap script has its turn. *)
LEMMA BootstrapsKeeps ==
    ASSUME CmdInv, Bootstraps
    PROVE  CmdInv'
  <1>1. /\ stage = "idle" /\ stage' = "idle" /\ cmd' = NoCommand /\ outcome' = "none"
        /\ before' = installed' /\ UNCHANGED <<jobs, actions, frozen>> /\ BootNext
    BY DEF Bootstraps
  <1>2. Unique(installed) /\ installed \in SUBSET Packages /\ (step = "install" => Enstallers = {})
    BY DEF CmdInv, CmdTypeOK
  <1>3. \/ installed' = installed /\ step' # "install"
        \/ installed' = installed \ Enstallers
        \/ step = "install" /\ step' = "idle" /\ installed' = installed \cup {BootEgg}
    <2>1. CASE \/ StartBootstrap \/ RunDownloader \/ DownloaderEnds \/ DownloadInsecure
               \/ StopBootstrap
      <3>1. installed' = installed
        BY <2>1 DEF StartBootstrap, RunDownloader, DownloaderEnds, DownloadInsecure, StopBootstrap
      <3>2. step' # "install"
        BY <2>1 DEF StartBootstrap, RunDownloader, DownloaderEnds, DownloadInsecure, StopBootstrap
      <3> QED
        BY <3>1, <3>2
    <2>2. CASE CheckSum
      BY <2>2 DEF CheckSum
    <2>3. CASE RemoveEnstaller
      BY <2>3 DEF RemoveEnstaller
    <2>4. CASE InstallEnstaller
      BY <2>4 DEF InstallEnstaller
    <2> QED
      BY <1>1, <2>1, <2>2, <2>3, <2>4 DEF BootNext
  <1>4. installed' \in SUBSET Packages /\ Unique(installed') /\ (step' = "install" => Enstallers' = {})
    <2>1. CASE installed' = installed /\ step' # "install"
      BY <1>2, <2>1
    <2>2. CASE installed' = installed \ Enstallers
      BY <1>2, <2>2 DEF Unique, Enstallers
    <2>3. CASE step = "install" /\ step' = "idle" /\ installed' = installed \cup {BootEgg}
      <3>1. BootEgg \in Packages /\ BootEgg.name = "enstaller"
        BY PackageFields, BootstrapAssumption
      <3>2. \A p \in installed : p.name # "enstaller"
        BY <1>2, <2>3 DEF Enstallers
      <3> QED
        BY <1>2, <2>3, <3>1, <3>2 DEF Unique
    <2> QED
      BY <1>3, <2>1, <2>2, <2>3
  <1>5. CmdTypeOK'
    BY <1>1, <1>4 DEF CmdInv, CmdTypeOK
  <1>6. Busy'
    BY <1>1 DEF Busy, Early, Late
  <1>7. Keeps(before', installed', Removable')
    BY <1>1 DEF Keeps
  <1>8. stage' \notin Early /\ stage' \notin Late /\ stage' \notin {"confirm", "execute"}
    BY <1>1 DEF Early, Late
  <1>9. DoneAsAsked'
    BY <1>1 DEF DoneAsAsked
  <1> QED
    BY <1>1, <1>4, <1>5, <1>6, <1>7, <1>8, <1>9 DEF CmdInv

-----------------------------------------------------------------------------
(* The theorems *)

(* There is no command yet. *)
LEMMA InitCmdInv == CmdInit => CmdInv
  <1> SUFFICES ASSUME CmdInit PROVE CmdInv
    OBVIOUS
  <1>1. /\ step = "idle" /\ stage = "idle" /\ outcome = "none" /\ cmd = NoCommand
        /\ jobs = <<>> /\ actions = <<>> /\ frozen = <<>> /\ before = installed
        /\ installed = {p \in Packages : p.name = "enstaller" /\ p.version = Running}
    BY DEF CmdInit, BootInit, Packages
  <1>2. CmdTypeOK
    <2>1. <<>> \in Seq(Jobs) /\ <<>> \in Seq(Actions) /\ <<>> \in Seq(Listed)
      OBVIOUS
    <2> QED
      BY <1>1, <2>1 DEF CmdTypeOK
  <1>3. Busy
    BY <1>1 DEF Busy, Early, Late
  <1>4. Unique(installed)
    BY <1>1, PackageFields DEF Unique
  <1>5. Keeps(before, installed, Removable)
    BY <1>1 DEF Keeps
  <1>6. stage \notin Early /\ stage \notin Late /\ stage \notin {"confirm", "execute"}
    BY <1>1 DEF Early, Late
  <1>7. DoneAsAsked
    BY <1>1 DEF DoneAsAsked
  <1> QED
    BY <1>1, <1>2, <1>3, <1>4, <1>5, <1>6, <1>7 DEF CmdInv

(* Nothing happens. *)
LEMMA StutterKeeps ==
    ASSUME CmdInv, UNCHANGED allVars
    PROVE  CmdInv'
  <1>1. /\ UNCHANGED <<installed, step, cmd, stage, jobs, actions, outcome, before, frozen>>
        /\ UNCHANGED <<Wanted, Removable, RemovalRefused>> /\ DryRun' = DryRun
        /\ \A option : Given(option)' = Given(option)
    BY SameCommand DEF allVars, bootVars, cmdVars
  <1>2. CmdTypeOK' /\ Busy' /\ Enstallers' = Enstallers
    BY <1>1 DEF CmdInv, CmdTypeOK, Busy, UsageError, Enstallers
  <1>3. DoneAsAsked'
    BY <1>1, AchievedStays DEF CmdInv, DoneAsAsked, Achieved
  <1> QED
    BY <1>1, <1>2, <1>3 DEF CmdInv

(* What a command, a call and the script take and leave, at every step.    *)
THEOREM CommandInvariant == MachineSpec => []CmdInv
  <1>1. CmdInv /\ [MachineNext]_allVars => CmdInv'
    <2> SUFFICES ASSUME CmdInv, [MachineNext]_allVars PROVE CmdInv'
      OBVIOUS
    <2>1. CASE UNCHANGED allVars
      BY <2>1, StutterKeeps
    <2>2. CASE \E c \in Commands : Parse(c)
      BY <2>2, StartKeeps
    <2>3. CASE \E c \in Calls : RunCommand(c)
      BY <2>3, StartKeeps
    <2>4. CASE \E s \in States : Revert(s)
      BY <2>4, RevertKeeps
    <2>5. CASE \/ EnvOption \/ PrintHistory \/ ListOption \/ Imports
               \/ Search \/ Info \/ WhatsNew \/ Freeze
      BY <2>5, ShowingKeeps, FreezeKeeps
    <2>6. CASE \/ RevertToNothing \/ AutoUpdate \/ ForceFails \/ NothingRequested \/ Refuse
               \/ ParseJson \/ ParseJsonFails \/ AuthenticateSession \/ AuthenticateSessionFails
               \/ FetchIndices \/ FetchIndicesFail
      BY <2>6, PrepareKeeps
    <2>7. CASE UpdateAll \/ MachineUpdateAll \/ InstallRequirements
      BY <2>7, UpdateAllKeeps, InstallRequirementsKeeps
    <2>8. CASE RemovePackages \/ RemoveEnstallerOption \/ InstallPackages
      BY <2>8, RemovePackagesKeeps, RemoveEnstallerKeeps, InstallPackagesKeeps
    <2>9. CASE MachineInstall \/ MachineRemove
      BY <2>9, CallKeeps
    <2>10. CASE PlanRemove \/ PlanInstall \/ Confirm
      BY <2>10, PlanRemoveKeeps, PlanInstallKeeps, ConfirmKeeps
    <2>11. CASE Execute \/ Finish \/ Bootstraps
      BY <2>11, ExecuteKeeps, FinishKeeps, BootstrapsKeeps
    <2> QED
      BY <2>1, <2>2, <2>3, <2>4, <2>5, <2>6, <2>7, <2>8, <2>9, <2>10, <2>11
      DEF MachineNext, CmdNext
  <1> QED
    BY InitCmdInv, <1>1, PTL DEF MachineSpec

(* An error of enpkg itself, and a dry run, leave the prefix as it was.    *)
(* (dispatch_commands_with_enpkg, revert_actions, inplace_update)          *)
THEOREM ErrorsChangeNothing == MachineSpec => []CrashChangesNothing
  <1>1. CmdInv => CrashChangesNothing
    BY DEF CmdInv, CrashChangesNothing
  <1> QED
    BY CommandInvariant, <1>1, PTL

(* No project is lost that was not to be removed by name, unless the       *)
(* command was interrupted.                                                *)
(* (_compute_reqs, remove_requirement, Solver._install_actions)            *)
THEOREM NoProjectLost == MachineSpec => []NothingLost
  <1>1. CmdInv => NothingLost
    <2> SUFFICES ASSUME CmdInv, outcome # "stopped", NEW p \in before, InPrefix(p.name) = {}
                 PROVE  p.name \in Removable
      BY DEF NothingLost, Removable
    <2>1. Keeps(before, installed, Removable)
      BY DEF CmdInv
    <2> QED
      BY <2>1 DEF Keeps, InPrefix
  <1> QED
    BY CommandInvariant, <1>1, PTL

(* A command, or a call, that ends without an error has done what it was   *)
(* asked for.  (install_from_requirements, install_req, machine_cli)       *)
THEOREM DoneMeansDone == MachineSpec => []DoneAsAsked
  <1>1. CmdInv => DoneAsAsked
    BY DEF CmdInv
  <1> QED
    BY CommandInvariant, <1>1, PTL
=============================================================================
