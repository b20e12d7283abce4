---------------------------- MODULE EnpkgProofs ----------------------------
(***************************************************************************)
(* For every set of eggs, with whatever files and whatever files in        *)
(* common, and whatever plans the resolver may return.                     *)
(*                                                                         *)
(* The first part is about egginst alone: the two records of a package     *)
(* agree, and its recorded files are on the disk, between operations,      *)
(* wherever operations were interrupted.  The second is about enpkg, whose *)
(* steps are steps of egginst: its queue is in order, its repositories are *)
(* those of the disk, nothing is removed before everything is fetched,     *)
(* what was planned is installed, dependents after what they need.         *)
(***************************************************************************)
EXTENDS Enpkg, SublistsProofs

(* The running operation is marked as begun, and is what cur says it is. *)
Begun ==
    /\ pc \in InstallSteps => pending[who] = [kind |-> "install", egg |-> cur]
    /\ pc \in RemoveSteps => pending[who] = [kind |-> "remove", egg |-> cur]

(* How far the loops of an installation have come. *)
Progress ==
    /\ pc \in InstallSteps => who \in metaDir
    /\ pc = "extract" => written \cup todo = Payload[cur]
    /\ pc = "hack" => written = Payload[cur]
    /\ pc = "generate" => written \cup todo = Files(cur)
    /\ pc \in {"info", "fix", "meta"} => written = Files(cur)
    /\ pc \in InstallSteps => \A p \in written : disk[p] = cur
    /\ pc = "info" => cur \in WithInfo
    /\ pc \in {"fix", "meta"} /\ cur \in WithInfo => info[who] = cur

(* How far a removal has come. *)
Dismantled ==
    /\ pc = "unlink" => todo \subseteq Files(cur)
    /\ pc \in {"rmDirs", "rmInfo", "rmMetaDir"} => json[who] = Absent
    /\ pc = "rmMetaDir" => info[who] = Absent

(* A readable egginst.json is one that _write_meta completed. *)
Manifests ==
    \A n \in Names : json[n] \in Eggs =>
        EggName[json[n]] = n /\ manifest[n] = Files(json[n])

(* Only an egg with metadata brings an _info.json, which is in a metadata  *)
(* directory as long as it is there.                                       *)
Descriptions ==
    /\ \A n \in Names : info[n] # Absent => n \in metaDir \cap described
    /\ pc \in InstallSteps /\ cur \in WithInfo => who \in described

IInv ==
    /\ TypeOK /\ Begun /\ Progress /\ Dismantled /\ Manifests /\ Descriptions
    /\ RecordsAgree /\ RecordedFilesPresent

(* An empty prefix is a good start. *)
LEMMA InitIInv == Init => IInv
  BY EggInstAssumption
  DEF Init, IInv, TypeOK, Begun, Progress, Dismantled, Manifests, Descriptions, RecordsAgree,
      RecordedFilesPresent, Settled, Readable, Finished, Content, InstallSteps,
      RemoveSteps, Operation

(* The files of an egg are paths, extracted or generated. *)
LEMMA FilesType ==
    ASSUME NEW e \in Eggs
    PROVE  EggName[e] \in Names /\ Payload[e] \subseteq Files(e)
           /\ Generated[e] \subseteq Files(e) /\ Files(e) \subseteq Paths
  BY EggInstAssumption DEF Files

(* TypeOK is inductive but for what the loops add: kept apart, the other   *)
(* steps have less to look at.                                             *)
LEMMA NextTypeOK ==
    ASSUME TypeOK, Manifests, [Next]_vars
    PROVE  TypeOK'
  <1>20. CASE UNCHANGED vars
    BY <1>20 DEF vars, TypeOK
  <1> SUFFICES ASSUME Next, retrying' = retrying PROVE TypeOK'
    BY <1>20 DEF Next
  <1> USE EggInstAssumption DEF TypeOK, InstallSteps, RemoveSteps
  <1>1. ASSUME NEW e \in Eggs, PreExtract(e) PROVE TypeOK'
    BY <1>1 DEF PreExtract, Operation
  <1>2. ASSUME NEW n \in Names, StartRemove(n) PROVE TypeOK'
    BY <1>2 DEF StartRemove, Readable, Operation, diskVars
  <1>3. ASSUME NEW p \in Paths, Extract(p) PROVE TypeOK'
    BY <1>3 DEF Extract, Content
  <1>4. ASSUME NEW p \in Paths, Generate(p) PROVE TypeOK'
    BY <1>4 DEF Generate, Content
  <1>5. CASE EndExtract
    BY <1>5 DEF EndExtract, diskVars
  <1>6. CASE PlaceholderHack
    BY <1>6 DEF PlaceholderHack, diskVars
  <1>7. CASE EndGenerate
    BY <1>7 DEF EndGenerate, diskVars
  <1>8. CASE CreateInfo
    BY <1>8 DEF CreateInfo, Content, who
  <1>9. CASE FixScripts
    BY <1>9 DEF FixScripts, diskVars
  <1>10. CASE WriteMeta
    BY <1>10 DEF WriteMeta, Content, who
  <1>11. ASSUME NEW p \in Paths, Unlink(p) PROVE TypeOK'
    BY <1>11 DEF Unlink, Content
  <1>12. CASE UnlinkJson
    BY <1>12 DEF UnlinkJson, Content, who
  <1>13. CASE RmDirs
    BY <1>13 DEF RmDirs
  <1>14. CASE RmInfo
    BY <1>14 DEF RmInfo, Content, who
  <1>15. CASE RmMetaDir
    BY <1>15 DEF RmMetaDir, who
  <1>16. CASE Stop
    BY <1>16 DEF Stop, ForgetProcess, diskVars
  <1>17. ASSUME NEW p \in Paths, NEW c \in {Torn, Absent}, StopInFile(p, c)
         PROVE  TypeOK'
    BY <1>17 DEF StopInFile, ForgetProcess, Content
  <1>18. CASE StopInInfo
    BY <1>18 DEF StopInInfo, ForgetProcess, Content, who
  <1>19. CASE StopInMeta
    BY <1>19 DEF StopInMeta, ForgetProcess, Content, who
  <1> QED
    BY <1>1, <1>2, <1>3, <1>4, <1>5, <1>6, <1>7, <1>8, <1>9, <1>10, <1>11,
       <1>12, <1>13, <1>14, <1>15, <1>16, <1>17, <1>18, <1>19
    DEF Next, InstallStep, RemoveStep, Interrupt

(* No step of an operation, and no interruption of one, breaks the         *)
(* invariant.                                                              *)
LEMMA NextIInv ==
    ASSUME IInv, [Next]_vars
    PROVE  IInv'
  <1> DEFINE Rest == /\ Begun /\ Progress /\ Dismantled /\ Manifests /\ Descriptions
                     /\ RecordsAgree /\ RecordedFilesPresent
  <1>t. TypeOK'
    BY NextTypeOK DEF IInv
  <1> SUFFICES Rest'
    BY <1>t DEF IInv
  <1> USE EggInstAssumption, FilesType, <1>t
      DEF IInv, TypeOK, Begun, Progress, Dismantled, Manifests, Descriptions, RecordsAgree,
      RecordedFilesPresent, Settled, Readable, Finished, InstallSteps,
      RemoveSteps, who, Content, Operation, Files
  <1>1. ASSUME NEW e \in Eggs, PreExtract(e) PROVE Rest'
    BY <1>1 DEF PreExtract
  <1>2. ASSUME NEW n \in Names, StartRemove(n) PROVE Rest'
    BY <1>2 DEF StartRemove, diskVars
  <1>3. ASSUME NEW p \in Paths, Extract(p) PROVE Rest'
    BY <1>3 DEF Extract, Unshared
  <1>4. ASSUME NEW p \in Paths, Generate(p) PROVE Rest'
    BY <1>4 DEF Generate, Unshared
  <1>5. CASE EndExtract
    BY <1>5 DEF EndExtract, diskVars
  <1>6. CASE PlaceholderHack
    BY <1>6 DEF PlaceholderHack, diskVars
  <1>7. CASE EndGenerate
    BY <1>7 DEF EndGenerate, diskVars
  <1>8. CASE CreateInfo
    BY <1>8 DEF CreateInfo
  <1>9. CASE FixScripts
    BY <1>9 DEF FixScripts, diskVars
  <1>10. CASE WriteMeta
    BY <1>10 DEF WriteMeta
  <1>11. ASSUME NEW p \in Paths, Unlink(p) PROVE Rest'
    BY <1>11 DEF Unlink, Unshared
  <1>12. CASE UnlinkJson
    BY <1>12 DEF UnlinkJson
  <1>13. CASE RmDirs
    BY <1>13 DEF RmDirs
  <1>14. CASE RmInfo
    BY <1>14 DEF RmInfo
  <1>15. CASE RmMetaDir
    BY <1>15 DEF RmMetaDir
  <1>16. CASE Stop
    BY <1>16 DEF Stop, ForgetProcess, diskVars
  <1>17. ASSUME NEW p \in Paths, NEW c \in {Torn, Absent}, StopInFile(p, c)
         PROVE  Rest'
    BY <1>17 DEF StopInFile, ForgetProcess, TearablePaths, Unshared
  <1>18. CASE StopInInfo
    BY <1>18 DEF StopInInfo, ForgetProcess
  <1>19. CASE StopInMeta
    BY <1>19 DEF StopInMeta, ForgetProcess
  <1>20. CASE UNCHANGED vars
    BY <1>20 DEF vars
  <1> HIDE DEF Rest, IInv, TypeOK
  <1> QED
    BY <1>1, <1>2, <1>3, <1>4, <1>5, <1>6, <1>7, <1>8, <1>9, <1>10, <1>11,
       <1>12, <1>13, <1>14, <1>15, <1>16, <1>17, <1>18, <1>19, <1>20, Zenon
    DEF Next, InstallStep, RemoveStep, Interrupt

(* What holds at every step of the installer and of the remover, with the  *)
(* progress of their loops that the properties rest on.                    *)
THEOREM InductiveInvariant == Spec => []IInv
  BY InitIInv, NextIInv, PTL DEF Spec

(* The types of the state, for any eggs (egginst/main.py). *)
THEOREM TypeCorrect == Spec => []TypeOK
  BY InductiveInvariant, PTL DEF IInv

(* What the history, the Repository and the remover read of a package      *)
(* agree whenever its last operation ran to its end.                       *)
THEOREM RecordsAlwaysAgree == Spec => []RecordsAgree
  BY InductiveInvariant, PTL DEF IInv

(* The files a finished installation recorded are on the disk until the    *)
(* next operation on the package, whatever is done to other packages.      *)
THEOREM RecordedFilesStay == Spec => []RecordedFilesPresent
  BY InductiveInvariant, PTL DEF IInv

-----------------------------------------------------------------------------
(* The retry discipline. *)

(* Whatever there is of a package is named by its record, or belongs to    *)
(* the egg whose installation was begun.                                   *)
Covered ==
    \A n \in Names, p \in Paths : Leftover(n, p) =>
        \/ p \in manifest[n]
        \/ pending[n].kind = "install" /\ p \in Files(pending[n].egg)

(* A removal gives up the record only when the files are gone. *)
Unlinked ==
    pc = "unlink" => /\ json[who] = cur
                     /\ \A p \in manifest[who] \ todo : disk[p] = Absent

(* An installation is begun, and begun again, where there is no record. *)
NoOldRecord ==
    \A n \in Names :
        /\ json[n] \notin Eggs => manifest[n] = {}
        /\ pending[n].kind = "install" =>
               json[n] \notin Eggs /\ EggName[pending[n].egg] = n

RetryInv == IInv /\ (retrying => Covered /\ Unlinked /\ NoOldRecord)

(* In an empty prefix nothing is left behind. *)
LEMMA InitRetryInv == Init => RetryInv
  BY InitIInv, EggInstAssumption
  DEF RetryInv, Init, Covered, Leftover, EggsOf, Unlinked, NoOldRecord, Finished

(* A retry finds what the interrupted attempt left, and records it.        *)
LEMMA NextRetryInv ==
    ASSUME RetryInv, [Next]_vars
    PROVE  RetryInv'
  <1> DEFINE Rest == Covered /\ Unlinked /\ NoOldRecord
  <1>t. IInv'
    BY NextIInv DEF RetryInv
  <1>20. CASE UNCHANGED vars
    BY <1>t, <1>20
    DEF vars, RetryInv, Covered, Unlinked, NoOldRecord, Leftover, EggsOf, who
  <1> SUFFICES ASSUME Next, retrying, retrying' = retrying PROVE Rest'
    BY <1>t, <1>20 DEF RetryInv, Next
  <1> USE EggInstAssumption, FilesType
      DEF RetryInv, IInv, TypeOK, Begun, Progress, Dismantled, Manifests,
      RecordsAgree, Settled, Readable, Finished, InstallSteps, RemoveSteps,
      who, Operation, Covered, Unlinked, NoOldRecord, Leftover, EggsOf, Unshared
  <1>1. ASSUME NEW e \in Eggs, MayInstall(e), PreExtract(e) PROVE Rest'
    BY <1>1 DEF MayInstall, PreExtract
  <1>2. ASSUME NEW n \in Names, MayRemove(n), StartRemove(n) PROVE Rest'
    BY <1>2 DEF MayRemove, StartRemove, diskVars
  <1>3. ASSUME NEW p \in Paths, Extract(p) PROVE Rest'
    BY <1>3 DEF Extract
  <1>4. ASSUME NEW p \in Paths, Generate(p) PROVE Rest'
    BY <1>4 DEF Generate
  <1>5. CASE EndExtract
    BY <1>5 DEF EndExtract, diskVars
  <1>6. CASE PlaceholderHack
    BY <1>6 DEF PlaceholderHack, diskVars
  <1>7. CASE EndGenerate
    BY <1>7 DEF EndGenerate, diskVars
  <1>8. CASE CreateInfo
    BY <1>8 DEF CreateInfo
  <1>9. CASE FixScripts
    BY <1>9 DEF FixScripts, diskVars
  <1>10. CASE WriteMeta
    BY <1>10 DEF WriteMeta
  <1>11. ASSUME NEW p \in Paths, Unlink(p) PROVE Rest'
    BY <1>11 DEF Unlink
  <1>12. CASE UnlinkJson
    BY <1>12 DEF UnlinkJson
  <1>13. CASE RmDirs
    BY <1>13 DEF RmDirs
  <1>14. CASE RmInfo
    BY <1>14 DEF RmInfo
  <1>15. CASE RmMetaDir
    BY <1>15 DEF RmMetaDir
  <1>16. CASE Stop
    BY <1>16 DEF Stop, ForgetProcess, diskVars
  <1>17. ASSUME NEW p \in Paths, NEW c \in {Torn, Absent}, StopInFile(p, c)
         PROVE  Rest'
    BY <1>17 DEF StopInFile, ForgetProcess, TearablePaths
  <1>18. CASE StopInInfo
    BY <1>18 DEF StopInInfo, ForgetProcess
  <1>19. CASE StopInMeta
    BY <1>19 DEF StopInMeta, ForgetProcess
  <1> HIDE DEF Rest, RetryInv, IInv, TypeOK
  <1> QED
    BY <1>1, <1>2, <1>3, <1>4, <1>5, <1>6, <1>7, <1>8, <1>9, <1>10, <1>11,
       <1>12, <1>13, <1>14, <1>15, <1>16, <1>17, <1>18, <1>19, Zenon
    DEF Next, InstallStep, RemoveStep, Interrupt

(* Every file of a package is recorded, or an operation that will reach it *)
(* is pending, when interrupted operations are asked for again.            *)
THEOREM RetryInvariant == Spec => []RetryInv
  BY InitRetryInv, NextRetryInv, PTL DEF Spec

(* When what was interrupted is asked for again, every file of a package   *)
(* is in the record its next removal reads, and no file is left without.   *)
THEOREM NothingIsLeftBehind == Spec => []NoFileLeftBehind
  <1>1. RetryInv => NoFileLeftBehind
    BY DEF RetryInv, Covered, NoFileLeftBehind, Settled, Finished
  <1> QED
    BY <1>1, RetryInvariant, PTL

-----------------------------------------------------------------------------
Actions == [op : {"fetch", "remove", "install"}, egg : Eggs]

(* The types of enpkg's own state, and when there is a first action.       *)
EnpkgTypeOK ==
    /\ proc \in {"down", "ready", "enter", "run", "egg", "post", "raise"}
    /\ top \in [Eggs -> Nat]
    /\ all \in [Eggs -> Nat]
    /\ plan \in Plans \cup {<<>>}
    /\ queue \in Seq(Actions)
    /\ cache \subseteq Eggs
    /\ retrying = FALSE
    /\ proc \in {"egg", "post"} => queue # <<>> /\ Head(queue).op \in {"remove", "install"}
    /\ proc \in {"down", "ready"} => queue = <<>>

-----------------------------------------------------------------------------
(* The lists of a request *)

(* at gives, for each place of a list, the place in the plan.              *)
IsPartOf(seq, p, at) ==
    /\ at \in [DOMAIN seq -> DOMAIN p]
    /\ \A k \in DOMAIN seq : seq[k] = p[at[k]]
    /\ \A k, l \in DOMAIN seq : k < l => at[k] < at[l]

(* What is left out of a plan is in the repository.                        *)
LEMMA ToInstallProperties ==
    ASSUME NEW p \in Plans, NEW force \in {"NONE", "MAIN_ONLY", "ALL"},
           top \in [Eggs -> Nat]
    PROVE  /\ ToInstall(p, force) \in Seq(Eggs)
           /\ \E at : /\ IsPartOf(ToInstall(p, force), p, at)
                      /\ \A i \in DOMAIN p : top[p[i]] = 0 =>
                            \E k \in DOMAIN ToInstall(p, force) : at[k] = i
  <1> DEFINE new == {e \in Eggs : top[e] = 0}
  <1>1. p \in Seq(Eggs) /\ p # <<>>
    BY EnpkgAssumption
  <1>2. ASSUME NEW seq \in Seq(Eggs)
        PROVE  /\ NotInstalled(seq) \in Seq(Eggs)
               /\ \E at : /\ IsPartOf(NotInstalled(seq), seq, at)
                          /\ \A i \in DOMAIN seq : top[seq[i]] = 0 =>
                               \E k \in DOMAIN NotInstalled(seq) : at[k] = i
    <2>1. Pick(seq, new) \in Seq(Eggs)
      BY PickProperties
    <2>2. PICK at : IsSublist(Pick(seq, new), seq, new, at)
      BY PickProperties
    <2>3. \A i \in DOMAIN seq : seq[i] \in Eggs
      OBVIOUS
    <2> QED
      BY <2>1, <2>2, <2>3 DEF IsSublist, NotInstalled, IsPartOf
  <1>3. CASE force = "NONE"
    BY <1>1, <1>2, <1>3 DEF ToInstall
  <1>4. CASE force = "MAIN_ONLY"
    <2> DEFINE front == Front(p)
               some == NotInstalled(front)
               whole == some \o <<Last(p)>>
    <2>1. /\ front \in Seq(Eggs) /\ Len(front) = Len(p) - 1
          /\ \A i \in 1..(Len(p) - 1) : front[i] = p[i]
          /\ Last(p) = p[Len(p)] /\ Last(p) \in Eggs /\ Len(p) \in Nat \ {0}
          /\ DOMAIN front = 1..(Len(p) - 1) /\ DOMAIN p = 1..Len(p)
      <3>1. Len(p) \in Nat \ {0} /\ DOMAIN p = 1..Len(p) /\ p[Len(p)] \in Eggs
        BY <1>1
      <3>2. /\ front \in Seq(Eggs) /\ Len(front) = Len(p) - 1 - 1 + 1
            /\ \A i \in 1..(Len(p) - 1 - 1 + 1) : front[i] = p[1 + i - 1]
        <4> DEFINE m == Len(p) - 1
        <4>1. 1 \in 1..(Len(p) + 1) /\ m \in (1 - 1)..Len(p)
          BY <3>1
        <4> HIDE DEF m
        <4>2. /\ SubSeq(p, 1, m) \in Seq(Eggs) /\ Len(SubSeq(p, 1, m)) = m - 1 + 1
              /\ \A i \in 1..(m - 1 + 1) : SubSeq(p, 1, m)[i] = p[1 + i - 1]
          BY <1>1, <4>1, SubSeqProperties
        <4> QED
          BY <4>2 DEF Front, m
      <3> HIDE DEF front
      <3> QED
        BY <3>1, <3>2 DEF Last
    <2> HIDE DEF front
    <2>2. /\ some \in Seq(Eggs)
          /\ \E at : /\ IsPartOf(some, front, at)
                     /\ \A i \in DOMAIN front : top[front[i]] = 0 =>
                          \E k \in DOMAIN some : at[k] = i
      BY <1>2, <2>1
    <2>3. PICK at : /\ IsPartOf(some, front, at)
                    /\ \A i \in DOMAIN front : top[front[i]] = 0 =>
                          \E k \in DOMAIN some : at[k] = i
      BY <2>2
    <2>4. /\ whole \in Seq(Eggs) /\ Len(some) \in Nat
          /\ DOMAIN whole = 1..(Len(some) + 1) /\ DOMAIN some = 1..Len(some)
          /\ \A k \in 1..Len(some) : whole[k] = some[k]
          /\ whole[Len(some) + 1] = Last(p)
      <3> HIDE DEF some
      <3> QED
        BY <2>1, <2>2
    <2> DEFINE to == [k \in DOMAIN whole |-> IF k = Len(some) + 1 THEN Len(p) ELSE at[k]]
    <2>5. \A k \in 1..Len(some) : at[k] \in 1..(Len(p) - 1) /\ some[k] = p[at[k]]
      BY <2>1, <2>3, <2>4 DEF IsPartOf
    <2>6. IsPartOf(whole, p, to)
      <3>1. to \in [DOMAIN whole -> DOMAIN p] /\ \A k \in DOMAIN whole : whole[k] = p[to[k]]
        <4> HIDE DEF whole, some
        <4> QED
          BY <1>1, <2>1, <2>4, <2>5
      <3>2. ASSUME NEW k \in DOMAIN whole, NEW l \in DOMAIN whole, k < l
            PROVE  to[k] < to[l]
        <4> HIDE DEF whole, some
        <4>1. k \in 1..Len(some) /\ to[k] = at[k]
          BY <2>4, <3>2
        <4>2. CASE l = Len(some) + 1
          BY <2>1, <2>5, <4>1, <4>2
        <4>3. CASE l # Len(some) + 1
          BY <2>3, <2>4, <3>2, <4>1, <4>3 DEF IsPartOf
        <4> QED
          BY <4>2, <4>3
      <3> QED
        BY <3>1, <3>2 DEF IsPartOf
    <2>7. ASSUME NEW i \in DOMAIN p, top[p[i]] = 0
          PROVE  \E k \in DOMAIN whole : to[k] = i
      <3>1. CASE i = Len(p)
        <4>1. Len(some) + 1 \in DOMAIN whole /\ to[Len(some) + 1] = i
          <5> HIDE DEF whole, some
          <5> QED
            BY <2>4, <3>1
        <4> QED
          BY <4>1
      <3>2. CASE i # Len(p)
        <4>1. i \in DOMAIN front /\ front[i] = p[i]
          BY <1>1, <2>1, <3>2
        <4>2. PICK k \in DOMAIN some : at[k] = i
          BY <2>3, <2>7, <4>1
        <4>3. k \in DOMAIN whole /\ to[k] = i
          BY <2>4, <4>2
        <4> QED
          BY <4>3
      <3> QED
        BY <3>1, <3>2
    <2>8. ToInstall(p, force) = whole
      <3>1. ToInstall(p, force) = NotInstalled(Front(p)) \o <<Last(p)>>
        BY <1>4 DEF ToInstall
      <3> QED
        BY <3>1 DEF front
    <2> HIDE DEF whole, to
    <2> QED
      BY <2>4, <2>6, <2>7, <2>8
  <1>5. CASE force = "ALL"
    <2> DEFINE at == [k \in DOMAIN p |-> k]
    <2>1. ToInstall(p, force) = p
      BY <1>5 DEF ToInstall
    <2>2. IsPartOf(p, p, at) /\ \A i \in DOMAIN p : at[i] = i
      BY <1>1 DEF IsPartOf
    <2> QED
      BY <1>1, <2>1, <2>2
  <1> QED
    BY <1>3, <1>4, <1>5

(* For each package of a list, in reverse order, the one of its name that  *)
(* is in the repository is removed.                                        *)
LEMMA RemoveActionsProperties ==
    ASSUME NEW seq \in Seq(Eggs), top \in [Eggs -> Nat]
    PROVE  /\ RemoveActions(seq) \in Seq(Actions)
           /\ \E back \in [DOMAIN RemoveActions(seq) -> DOMAIN seq] :
                /\ \A k \in DOMAIN RemoveActions(seq) :
                    /\ RemoveActions(seq)[k].op = "remove"
                    /\ RemoveActions(seq)[k].egg \in NamedIn(top, EggName[seq[back[k]]])
                /\ \A k, l \in DOMAIN RemoveActions(seq) : k < l => back[l] < back[k]
                /\ \A i \in DOMAIN seq : NamedIn(top, EggName[seq[i]]) # {} =>
                    \E k \in DOMAIN RemoveActions(seq) : back[k] = i
  <1> DEFINE keep == {e \in Eggs : NamedIn(top, EggName[e]) # {}}
             rev == Reverse(seq)
             old == Pick(rev, keep)
             rem == RemoveActions(seq)
  <1>1. /\ rev \in Seq(Eggs) /\ DOMAIN rev = 1..Len(seq) /\ Len(seq) \in Nat
        /\ \A i \in 1..Len(seq) : rev[i] = seq[Len(seq) - i + 1]
    <2>1. Len(seq) \in Nat /\ \A i \in 1..Len(seq) : seq[Len(seq) - i + 1] \in Eggs
      OBVIOUS
    <2>2. rev = [i \in 1..Len(seq) |-> seq[Len(seq) - i + 1]]
      BY DEF Reverse
    <2>3. rev \in [1..Len(seq) -> Eggs]
      BY <2>1, <2>2
    <2> QED
      BY <2>1, <2>2, <2>3, SeqDef
  <1>2. old \in Seq(Eggs)
    BY <1>1, PickProperties
  <1>3. PICK at : IsSublist(old, rev, keep, at)
    BY <1>1, PickProperties
  <1> DEFINE pick(k) == CHOOSE e \in NamedIn(top, EggName[old[k]]) : TRUE
  <1>4. rem = [k \in DOMAIN old |-> [op |-> "remove", egg |-> pick(k)]]
    BY DEF RemoveActions, Replaces, Action
  <1>5. \A k \in DOMAIN old : pick(k) \in NamedIn(top, EggName[old[k]]) /\ old[k] = rev[at[k]]
    BY <1>3 DEF IsSublist
  <1> HIDE DEF rem, pick, old
  <1>6. rem \in Seq(Actions)
    <2>1. \A k \in DOMAIN old : pick(k) \in Eggs
      BY <1>5 DEF NamedIn, EggsOf
    <2>2. DOMAIN old = 1..Len(old) /\ Len(old) \in Nat
      BY <1>2
    <2>3. rem \in [1..Len(old) -> Actions]
      BY <1>4, <2>1, <2>2 DEF Actions
    <2> QED
      BY <2>2, <2>3, SeqDef
  <1> DEFINE back == [k \in DOMAIN rem |-> Len(seq) - at[k] + 1]
  <1>7. \A k \in DOMAIN rem : at[k] \in 1..Len(seq) /\ back[k] \in 1..Len(seq)
    BY <1>1, <1>3, <1>4 DEF IsSublist
  <1>8. back \in [DOMAIN rem -> DOMAIN seq]
    BY <1>7
  <1>9. \A k \in DOMAIN rem : rem[k].op = "remove" /\ rem[k].egg \in NamedIn(top, EggName[seq[back[k]]])
    BY <1>1, <1>4, <1>5, <1>7
  <1>10. ASSUME NEW k \in DOMAIN rem, NEW l \in DOMAIN rem, k < l
         PROVE  back[l] < back[k]
    <2>1. at[k] < at[l]
      BY <1>3, <1>4, <1>10 DEF IsSublist
    <2>2. at[k] \in Int /\ at[l] \in Int /\ Len(seq) \in Int
      BY <1>1, <1>7
    <2> QED
      BY <2>1, <2>2
  <1>11. ASSUME NEW i \in DOMAIN seq, NamedIn(top, EggName[seq[i]]) # {}
         PROVE  \E k \in DOMAIN rem : back[k] = i
    <2> DEFINE j == Len(seq) - i + 1
    <2>1. i \in 1..Len(seq) /\ j \in DOMAIN rev /\ rev[j] = seq[i] /\ seq[i] \in Eggs
      BY <1>1
    <2>2. rev[j] \in keep
      BY <1>11, <2>1
    <2>3. PICK k \in DOMAIN old : at[k] = j
      BY <1>3, <2>1, <2>2 DEF IsSublist
    <2>4. k \in DOMAIN rem /\ back[k] = i
      BY <1>1, <1>4, <2>1, <2>3
    <2> QED
      BY <2>4
  <1> HIDE DEF back
  <1> QED
    BY <1>6, <1>8, <1>9, <1>10, <1>11 DEF rem

(* The queue of a request: downloads, removals, installations.             *)
IsQueue(q, seq, rem, n, m) ==
    /\ q \in Seq(Actions) /\ n \in Nat /\ m \in Nat
    /\ DOMAIN q = 1..(n + m + n) /\ DOMAIN seq = 1..n /\ DOMAIN rem = 1..m
    /\ \A i \in 1..n : q[i] = Action("fetch", seq[i])
    /\ \A i \in 1..m : q[n + i] = rem[i]
    /\ \A i \in 1..n : q[n + m + i] = Action("install", seq[i])

(* The list that install_req gives to Enpkg.execute is a queue of that     *)
(* form.                                                                   *)
LEMMA QueueOfRequest ==
    ASSUME NEW seq \in Seq(Eggs), NEW rem \in Seq(Actions)
    PROVE  IsQueue(FetchActions(seq) \o rem \o InstallActions(seq), seq, rem, Len(seq), Len(rem))
  <1> DEFINE F == FetchActions(seq)
             I == InstallActions(seq)
             q == FetchActions(seq) \o rem \o InstallActions(seq)
             n == Len(seq)
             m == Len(rem)
  <1>1. n \in Nat /\ m \in Nat /\ DOMAIN seq = 1..n /\ DOMAIN rem = 1..m
    OBVIOUS
  <1>2. /\ F \in Seq(Actions) /\ Len(F) = n /\ \A i \in 1..n : F[i] = Action("fetch", seq[i])
        /\ I \in Seq(Actions) /\ Len(I) = n /\ \A i \in 1..n : I[i] = Action("install", seq[i])
    <2>1. \A i \in 1..n : Action("fetch", seq[i]) \in Actions /\ Action("install", seq[i]) \in Actions
      BY <1>1 DEF Action, Actions
    <2>2. F \in [1..n -> Actions] /\ I \in [1..n -> Actions]
      BY <2>1 DEF FetchActions, InstallActions
    <2>3. F \in Seq(Actions) /\ I \in Seq(Actions)
      <3> HIDE DEF F, I
      <3>1. [1..n -> Actions] \subseteq Seq(Actions)
        BY <1>1, SeqDef
      <3> QED
        BY <2>2, <3>1
    <2>4. Len(F) = n /\ Len(I) = n
      BY <1>1, <2>2, <2>3
    <2> QED
      BY <2>3, <2>4 DEF FetchActions, InstallActions
  <1> HIDE DEF F, I, q, n, m
  <1>3. /\ F \o rem \in Seq(Actions) /\ Len(F \o rem) = n + m
        /\ \A i \in 1..(n + m) : (F \o rem)[i] = IF i <= n THEN F[i] ELSE rem[i - n]
    <2>1. /\ F \o rem \in Seq(Actions) /\ Len(F \o rem) = Len(F) + Len(rem)
          /\ \A i \in 1..(Len(F) + Len(rem)) :
               (F \o rem)[i] = IF i <= Len(F) THEN F[i] ELSE rem[i - Len(F)]
      BY <1>2, ConcatProperties
    <2> QED
      BY <1>2, <2>1 DEF m
  <1> DEFINE G == F \o rem
  <1> HIDE DEF G
  <1>4. /\ G \o I \in Seq(Actions) /\ Len(G \o I) = n + m + n
        /\ \A i \in 1..(n + m + n) : (G \o I)[i] = IF i <= n + m THEN G[i] ELSE I[i - (n + m)]
    <2>1. G \in Seq(Actions) /\ Len(G) = n + m
      BY <1>3 DEF G
    <2>2. Len(G) + Len(I) = n + m + n
      BY <1>2, <2>1
    <2>3. /\ G \o I \in Seq(Actions) /\ Len(G \o I) = Len(G) + Len(I)
          /\ \A i \in 1..(Len(G) + Len(I)) :
               (G \o I)[i] = IF i <= Len(G) THEN G[i] ELSE I[i - Len(G)]
      BY <1>2, <2>1, ConcatProperties
    <2> QED
      BY <2>1, <2>2, <2>3
  <1>5. q = G \o I /\ \A i \in 1..(n + m) : G[i] = IF i <= n THEN F[i] ELSE rem[i - n]
    BY <1>3 DEF F, G, I, q
  <1>6. q \in Seq(Actions) /\ Len(q) = n + m + n /\ DOMAIN q = 1..(n + m + n)
    BY <1>4, <1>5
  <1>7. \A i \in 1..n : q[i] = Action("fetch", seq[i])
    BY <1>1, <1>2, <1>4, <1>5
  <1>8. \A i \in 1..m : q[n + i] = rem[i]
    <2>1. ASSUME NEW i \in 1..m PROVE q[n + i] = rem[i]
      <3>1. n + i \in 1..(n + m) /\ n + i \in 1..(n + m + n) /\ ~ n + i <= n /\ (n + i) - n = i
        BY <1>1
      <3> QED
        BY <1>4, <1>5, <3>1
    <2> QED
      BY <2>1
  <1>9. \A i \in 1..n : q[n + m + i] = Action("install", seq[i])
    <2>1. ASSUME NEW i \in 1..n PROVE q[n + m + i] = Action("install", seq[i])
      <3>1. n + m + i \in 1..(n + m + n) /\ ~ n + m + i <= n + m /\ (n + m + i) - (n + m) = i
        BY <1>1
      <3> QED
        BY <1>2, <1>4, <1>5, <3>1
    <2> QED
      BY <2>1
  <1> QED
    BY <1>1, <1>6, <1>7, <1>8, <1>9 DEF IsQueue, q, n, m

-----------------------------------------------------------------------------
(* enpkg uses egginst *)

(* The first action of a queue. *)
LEMMA HeadOfQueue ==
    ASSUME queue \in Seq(Actions), queue # <<>>
    PROVE  /\ egg \in Eggs /\ EggName[egg] \in Names
           /\ Head(queue) = queue[1] /\ 1 \in DOMAIN queue
           /\ Head(queue).op \in {"fetch", "remove", "install"}
           /\ Head(queue) = Action(Head(queue).op, egg)
           /\ Tail(queue) \in Seq(Actions)
           /\ \A i \in DOMAIN Tail(queue) : i + 1 \in DOMAIN queue /\ Tail(queue)[i] = queue[i + 1]
           /\ \A i \in DOMAIN queue : i # 1 =>
                i - 1 \in DOMAIN Tail(queue) /\ Tail(queue)[i - 1] = queue[i]
  <1>1. Head(queue) \in Actions /\ Head(queue) = queue[1] /\ 1 \in DOMAIN queue
    OBVIOUS
  <1>2. egg \in Eggs /\ Head(queue).op \in {"fetch", "remove", "install"}
        /\ Head(queue) = Action(Head(queue).op, egg)
    BY <1>1 DEF egg, Actions, Action
  <1>3. /\ Tail(queue) \in Seq(Actions) /\ Len(Tail(queue)) = Len(queue) - 1
        /\ \A i \in 1..Len(Tail(queue)) : Tail(queue)[i] = queue[i + 1]
        /\ Len(queue) \in Nat /\ DOMAIN queue = 1..Len(queue)
        /\ DOMAIN Tail(queue) = 1..Len(Tail(queue))
    BY HeadTailProperties
  <1>4. \A i \in DOMAIN Tail(queue) : i + 1 \in DOMAIN queue /\ Tail(queue)[i] = queue[i + 1]
    BY <1>3
  <1>5. \A i \in DOMAIN queue : i # 1 =>
          i - 1 \in DOMAIN Tail(queue) /\ Tail(queue)[i - 1] = queue[i]
    <2>1. ASSUME NEW i \in DOMAIN queue, i # 1
          PROVE  i - 1 \in DOMAIN Tail(queue) /\ (i - 1) + 1 = i
      BY <1>3, <2>1
    <2> QED
      BY <1>4, <2>1
  <1>6. EggName[egg] \in Names
    BY <1>2, EggInstAssumption
  <1> QED
    BY <1>1, <1>2, <1>3, <1>4, <1>5, <1>6

(* Every step of enpkg is a step of egginst, or leaves the prefix alone.   *)
LEMMA EnpkgStep ==
    ASSUME EnpkgTypeOK, [EnpkgNext]_allVars
    PROVE  [Next]_vars
  <1> USE DEF EnpkgTypeOK
  <1>1. CASE UNCHANGED allVars
    BY <1>1 DEF allVars
  <1>2. ASSUME EnpkgNext, ~ UNCHANGED vars PROVE Next
    <2>1. UNCHANGED retrying
      BY <1>2 DEF EnpkgNext
    <2>2. CASE BeginRemove
      <3>1. EggName[egg] \in Names
        BY <2>2, HeadOfQueue DEF BeginRemove, Next1
      <3> QED
        BY <2>1, <2>2, <3>1 DEF BeginRemove, Next, MayRemove
    <2>3. CASE BeginInstall
      <3>1. egg \in Eggs
        BY <2>3, HeadOfQueue DEF BeginInstall, Next1
      <3> QED
        BY <1>2, <2>1, <2>3, <3>1 DEF BeginInstall, Next, MayInstall
    <2>4. CASE EggStep
      BY <2>1, <2>4 DEF EggStep, Next
    <2>5. CASE EggRaises \/ Kill
      BY <1>2, <2>1, <2>5 DEF EggRaises, Kill, Next
    <2>6. ASSUME \/ Boot \/ Exit \/ EnterHistory \/ Fetch \/ RemoveMissing
                 \/ PostRemove \/ PostInstall \/ Leave \/ LeaveRaising
          PROVE  UNCHANGED vars
      BY <2>6 DEF Boot, Exit, EnterHistory, Fetch, RemoveMissing, PostRemove, PostInstall,
         Leave, LeaveRaising
    <2>7. ASSUME NEW p, NEW force, RequestInstall(p, force) PROVE UNCHANGED vars
      BY <2>7 DEF RequestInstall
    <2>8. ASSUME NEW n, RequestRemove(n) PROVE UNCHANGED vars
      BY <2>8 DEF RequestRemove
    <2> QED
      BY <1>2, <2>2, <2>3, <2>4, <2>5, <2>6, <2>7, <2>8 DEF EnpkgNext
  <1> QED
    BY <1>1, <1>2

(* The types are kept.                                                     *)
LEMMA NextEnpkgTypeOK ==
    ASSUME EnpkgTypeOK, [EnpkgNext]_allVars
    PROVE  EnpkgTypeOK'
  <1> USE DEF EnpkgTypeOK
  <1>1. CASE UNCHANGED allVars
    BY <1>1 DEF allVars, enpkgVars, vars
  <1> SUFFICES ASSUME EnpkgNext, UNCHANGED retrying PROVE EnpkgTypeOK'
    BY <1>1 DEF EnpkgNext
  <1>n. <<>> \in Seq(Actions)
    OBVIOUS
  <1>2. CASE Boot
    BY <1>2 DEF Boot
  <1>3. CASE Exit \/ LeaveRaising \/ Kill
    BY <1>n, <1>3 DEF Exit, LeaveRaising, Kill, ProcessEnds
  <1>4. CASE EnterHistory \/ Leave
    BY <1>n, <1>4 DEF EnterHistory, Leave, ProcessEnds
  <1>5. ASSUME NEW p \in Plans, NEW force \in {"NONE", "MAIN_ONLY", "ALL"},
               RequestInstall(p, force)
        PROVE  EnpkgTypeOK'
    <2> DEFINE seq == ToInstall(p, force)
    <2>1. seq \in Seq(Eggs)
      BY ToInstallProperties
    <2>2. RemoveActions(seq) \in Seq(Actions)
      BY <2>1, RemoveActionsProperties
    <2>3. queue' = FetchActions(seq) \o RemoveActions(seq) \o InstallActions(seq)
      BY <1>5 DEF RequestInstall
    <2> HIDE DEF seq
    <2>4. queue' \in Seq(Actions)
      BY <2>1, <2>2, <2>3, QueueOfRequest DEF IsQueue
    <2> QED
      BY <1>5, <2>4 DEF RequestInstall
  <1>6. ASSUME NEW n \in Names, RequestRemove(n) PROVE EnpkgTypeOK'
    <2>1. PICK e \in NamedIn(top, n) : queue' = <<Action("remove", e)>>
      BY <1>6 DEF RequestRemove
    <2>2. Action("remove", e) \in Actions
      BY DEF NamedIn, EggsOf, Action, Actions
    <2>3. queue' \in Seq(Actions)
      BY <2>1, <2>2
    <2> QED
      BY <1>6, <2>3 DEF RequestRemove
  <1>7. ASSUME queue # <<>>, NextAction PROVE queue' \in Seq(Actions) /\ proc' = "run"
    BY <1>7, HeadOfQueue DEF NextAction
  <1>8. CASE Fetch
    <2>1. queue # <<>> /\ egg \in Eggs
      BY <1>8, HeadOfQueue DEF Fetch, Next1
    <2>2. queue' \in Seq(Actions) /\ proc' \in {"run", "raise"}
      BY <1>7, <1>8, <2>1 DEF Fetch, Raise
    <2> QED
      BY <1>8, <2>1, <2>2 DEF Fetch
  <1>9. CASE RemoveMissing
    <2>1. queue' \in Seq(Actions) /\ proc' \in {"run", "raise"}
      BY <1>7, <1>9 DEF RemoveMissing, Next1, Raise
    <2> QED
      BY <1>9, <2>1 DEF RemoveMissing
  <1>10. CASE BeginRemove \/ BeginInstall
    BY <1>10 DEF BeginRemove, BeginInstall, Raise, Next1
  <1>11. CASE EggStep \/ EggRaises
    BY <1>11 DEF EggStep, EggRaises, Raise
  <1>12. CASE PostRemove
    <2>1. queue # <<>> /\ egg \in Eggs
      BY <1>12, HeadOfQueue DEF PostRemove
    <2>2. queue' \in Seq(Actions) /\ proc' \in {"run", "raise"}
      BY <1>7, <1>12, <2>1 DEF PostRemove, Raise
    <2> QED
      BY <1>12, <2>1, <2>2 DEF PostRemove
  <1>13. CASE PostInstall
    <2>1. queue # <<>> /\ egg \in Eggs
      BY <1>13, HeadOfQueue DEF PostInstall
    <2>2. queue' \in Seq(Actions) /\ proc' \in {"run", "raise"}
      BY <1>7, <1>13, <2>1 DEF PostInstall, Raise
    <2>3. top' \in [Eggs -> Nat] /\ all' \in [Eggs -> Nat]
      BY <1>13 DEF PostInstall
    <2> QED
      BY <1>13, <2>2, <2>3 DEF PostInstall
  <1> QED
    BY <1>2, <1>3, <1>4, <1>5, <1>6, <1>8, <1>9, <1>10, <1>11, <1>12, <1>13 DEF EnpkgNext

-----------------------------------------------------------------------------
(* What a step of an installation or of a removal does to the records *)

(* _info.json is of an egg of that name, in the metadata directory.        *)
InfoInPlace ==
    \A n \in Names :
        /\ info[n] \in Eggs => EggName[info[n]] = n
        /\ info[n] # Absent => n \in metaDir

(* What is installed over nothing leaves records that agree.               *)
InfoMatches ==
    /\ \A n \in Names : info[n] \in Eggs /\ Settled(n) => json[n] = info[n]
    /\ pc \in {"extract", "hack", "generate", "info"} => info[who] \notin Eggs
    /\ pc \in {"fix", "meta"} /\ info[who] \in Eggs => info[who] = cur

(* If each egg has its information, no egginst.json is without _info.json. *)
JsonMatches ==
    /\ \A n \in Names : json[n] \in Eggs => info[n] = json[n]
    /\ pc \in InstallSteps => json[who] \notin Eggs /\ cur \in WithInfo

(* Only the package worked on is touched, and the operation goes on until  *)
(* the process is idle.                                                    *)
OnlyWho ==
    /\ pc # "idle"
    /\ \A n \in Names : n # who =>
        info'[n] = info[n] /\ json'[n] = json[n] /\ pending'[n] = pending[n]
    /\ pc' # "idle" => cur' = cur /\ \/ pc \in InstallSteps /\ pc' \in InstallSteps
                                     \/ pc \in RemoveSteps /\ pc' \in RemoveSteps

EggAction == InstallStep \/ RemoveStep \/ Interrupt

(* A step of the installer or remover, or an interruption of it, changes   *)
(* the records of no other package.                                        *)
LEMMA EggActionOnlyWho ==
    ASSUME TypeOK, EggAction
    PROVE  OnlyWho
  <1> USE DEF TypeOK, OnlyWho, InstallSteps, RemoveSteps, diskVars, who
  <1>1. CASE InstallStep
    <2>1. ASSUME NEW p \in Paths, Extract(p) \/ Generate(p) PROVE OnlyWho
      BY <2>1 DEF Extract, Generate
    <2>2. CASE EndExtract \/ PlaceholderHack \/ EndGenerate \/ FixScripts
      BY <2>2 DEF EndExtract, PlaceholderHack, EndGenerate, FixScripts
    <2>3. CASE CreateInfo
      BY <2>3 DEF CreateInfo
    <2>4. CASE WriteMeta
      BY <2>4 DEF WriteMeta
    <2> QED
      BY <1>1, <2>1, <2>2, <2>3, <2>4 DEF InstallStep
  <1>2. CASE RemoveStep
    <2>1. ASSUME NEW p \in Paths, Unlink(p) PROVE OnlyWho
      BY <2>1 DEF Unlink
    <2>2. CASE UnlinkJson
      BY <2>2 DEF UnlinkJson
    <2>3. CASE RmDirs \/ RmInfo
      BY <2>3 DEF RmDirs, RmInfo
    <2>4. CASE RmMetaDir
      BY <2>4 DEF RmMetaDir
    <2> QED
      BY <1>2, <2>1, <2>2, <2>3, <2>4 DEF RemoveStep
  <1>3. CASE Interrupt
    <2>1. CASE Stop \/ StopInInfo \/ StopInMeta
      BY <2>1 DEF Stop, StopInInfo, StopInMeta, ForgetProcess
    <2>2. ASSUME NEW p \in Paths, NEW c, StopInFile(p, c) PROVE OnlyWho
      BY <2>2 DEF StopInFile, ForgetProcess, TearablePaths
    <2> QED
      BY <1>3, <2>1, <2>2 DEF Interrupt
  <1> QED
    BY <1>1, <1>2, <1>3 DEF EggAction

(* The invariants of the records in one step.                              *)
LEMMA EggActionRecords ==
    ASSUME IInv, EggAction, InfoInPlace, InfoMatches
    PROVE  /\ InfoInPlace' /\ InfoMatches'
           /\ JsonMatches => JsonMatches'
  <1> DEFINE Result ==
          /\ InfoInPlace' /\ InfoMatches'
          /\ JsonMatches => JsonMatches'
  <1> SUFFICES Result
    OBVIOUS
  <1>a. /\ TypeOK /\ Begun /\ Progress /\ Dismantled /\ Manifests
    BY DEF IInv
  <1> USE <1>a, EggInstAssumption
      DEF TypeOK, Begun, Progress, Dismantled, Settled, Finished, InstallSteps, RemoveSteps,
      diskVars, who, InfoInPlace, InfoMatches, JsonMatches, Content, Operation
  <1>1. CASE InstallStep
    <2>1. ASSUME NEW p \in Paths, Extract(p) \/ Generate(p) PROVE Result
      BY <2>1 DEF Extract, Generate
    <2>2. CASE EndExtract \/ PlaceholderHack \/ EndGenerate \/ FixScripts
      BY <2>2 DEF EndExtract, PlaceholderHack, EndGenerate, FixScripts
    <2>3. CASE CreateInfo
      BY <2>3 DEF CreateInfo
    <2>4. CASE WriteMeta
      BY <2>4 DEF WriteMeta
    <2> HIDE DEF Result, TypeOK, Begun, Progress, Dismantled
    <2> QED
      BY <1>1, <2>1, <2>2, <2>3, <2>4, Zenon DEF InstallStep
  <1>2. CASE RemoveStep
    <2>1. ASSUME NEW p \in Paths, Unlink(p) PROVE Result
      BY <2>1 DEF Unlink
    <2>2. CASE UnlinkJson
      BY <2>2 DEF UnlinkJson
    <2>3. CASE RmDirs
      BY <2>3 DEF RmDirs
    <2>4. CASE RmInfo
      BY <2>4 DEF RmInfo
    <2>5. CASE RmMetaDir
      BY <2>5 DEF RmMetaDir
    <2> HIDE DEF Result, TypeOK, Begun, Progress, Dismantled
    <2> QED
      BY <1>2, <2>1, <2>2, <2>3, <2>4, <2>5, Zenon DEF RemoveStep
  <1>3. CASE Interrupt
    <2>1. CASE Stop
      BY <1>3, <2>1 DEF Stop, ForgetProcess
    <2>2. ASSUME NEW p \in Paths, NEW c, StopInFile(p, c) PROVE Result
      BY <1>3, <2>2 DEF StopInFile, ForgetProcess
    <2>3. CASE StopInInfo
      BY <1>3, <2>3 DEF StopInInfo, ForgetProcess
    <2>4. CASE StopInMeta
      BY <1>3, <2>4 DEF StopInMeta, ForgetProcess
    <2> HIDE DEF Result, TypeOK, Begun, Progress, Dismantled
    <2> QED
      BY <1>3, <2>1, <2>2, <2>3, <2>4, Zenon DEF Interrupt
  <1> QED
    BY <1>1, <1>2, <1>3 DEF EggAction

(* The last step of an operation. *)
LEMMA EndOfOperation ==
    ASSUME IInv, InstallStep \/ RemoveStep, pc' = "idle"
    PROVE  /\ pc \in RemoveSteps => info'[who] = Absent
           /\ pc \in InstallSteps => json'[who] = cur /\ pending'[who] = Finished
  <1>1. CASE InstallStep
    <2>1. WriteMeta
      BY <1>1 DEF InstallStep, Extract, Generate, EndExtract, PlaceholderHack, EndGenerate,
         CreateInfo, FixScripts
    <2>2. /\ pc = "meta" /\ who \in Names
          /\ json' = [json EXCEPT ![who] = cur] /\ json \in [Names -> Content]
          /\ pending' = [pending EXCEPT ![who] = Finished]
          /\ pending \in [Names -> Operation \cup {Finished}]
      BY <2>1, FilesType DEF WriteMeta, IInv, TypeOK, who
    <2>3. json'[who] = cur /\ pending'[who] = Finished
      BY <2>2
    <2> QED
      BY <2>2, <2>3 DEF RemoveSteps
  <1>2. CASE RemoveStep
    <2>1. RmMetaDir
      BY <1>2 DEF RemoveStep, Unlink, UnlinkJson, RmDirs, RmInfo
    <2> QED
      BY <2>1 DEF RmMetaDir, IInv, Dismantled, RemoveSteps, InstallSteps, who
  <1> QED
    BY <1>1, <1>2

(* The first step of an installation, over nothing, and of a removal.      *)
LEMMA BeginRecords ==
    ASSUME IInv, InfoInPlace, InfoMatches
    PROVE  /\ \A e \in Eggs : PreExtract(e) /\ info[EggName[e]] \notin Eggs =>
                /\ InfoInPlace' /\ InfoMatches'
                /\ JsonMatches /\ e \in WithInfo => JsonMatches'
           /\ \A n \in Names : StartRemove(n) =>
                /\ InfoInPlace' /\ InfoMatches'
                /\ JsonMatches => JsonMatches'
                /\ pc' \in RemoveSteps /\ who' = n
  <1> USE EggInstAssumption
      DEF IInv, TypeOK, Manifests, Settled, Finished, InstallSteps, RemoveSteps,
      diskVars, who, InfoInPlace, InfoMatches, JsonMatches
  <1>1. ASSUME NEW e \in Eggs, PreExtract(e), info[EggName[e]] \notin Eggs
        PROVE  /\ InfoInPlace' /\ InfoMatches'
               /\ JsonMatches /\ e \in WithInfo => JsonMatches'
    BY <1>1 DEF PreExtract
  <1>2. ASSUME NEW n \in Names, StartRemove(n)
        PROVE  /\ InfoInPlace' /\ InfoMatches'
               /\ JsonMatches => JsonMatches'
               /\ pc' \in RemoveSteps /\ who' = n
    BY <1>2 DEF StartRemove, Readable
  <1> HIDE DEF IInv, TypeOK, Manifests, InfoInPlace, InfoMatches, JsonMatches
  <1> QED
    BY <1>1, <1>2

-----------------------------------------------------------------------------
(* The queue *)

(* Downloads come first, installations last; each name is installed once,  *)
(* dependents are removed before, and installed after, what they need.     *)
MayPrecede(a, b) ==
    /\ a.op = "install" => b.op = "install"
    /\ b.op = "fetch" => a.op = "fetch"
    /\ a.op = "install" /\ b.op = "install" =>
        /\ EggName[a.egg] # EggName[b.egg]
        /\ EggName[b.egg] \notin DepNames[EggName[a.egg]]
    /\ a.op = "remove" /\ b.op = "remove" =>
        EggName[a.egg] \notin DepNames[EggName[b.egg]]

Ordered == \A i, j \in DOMAIN queue : i < j => MayPrecede(queue[i], queue[j])

(* How a step may change the queue. *)
LEMMA QueueStep ==
    ASSUME EnpkgTypeOK, [EnpkgNext]_allVars
    PROVE  \/ queue' = queue
           \/ queue' = <<>>
           \/ queue # <<>> /\ NextAction
           \/ \E p \in Plans, force \in {"NONE", "MAIN_ONLY", "ALL"} : RequestInstall(p, force)
           \/ \E n \in Names : RequestRemove(n)
  <1>1. CASE UNCHANGED allVars
    BY <1>1 DEF allVars, enpkgVars
  <1>2. CASE Boot \/ Exit \/ LeaveRaising \/ Kill
    BY <1>2 DEF Boot, Exit, LeaveRaising, Kill, ProcessEnds
  <1>3. CASE EnterHistory \/ Leave
    BY <1>3 DEF EnterHistory, Leave, ProcessEnds
  <1>4. CASE Fetch \/ RemoveMissing
    BY <1>4 DEF Fetch, RemoveMissing, Next1, Raise
  <1>5. CASE BeginRemove \/ BeginInstall \/ EggStep \/ EggRaises
    BY <1>5 DEF BeginRemove, BeginInstall, EggStep, EggRaises, Raise
  <1>6. CASE PostRemove \/ PostInstall
    BY <1>6 DEF PostRemove, PostInstall, Raise, EnpkgTypeOK
  <1> QED
    BY <1>1, <1>2, <1>3, <1>4, <1>5, <1>6 DEF EnpkgNext

(* What RequestInstall makes of a plan, action by action: n packages are   *)
(* to be installed, m removed.                                             *)
IsRequest(p, n, m, at, back) ==
    /\ n \in Nat /\ m \in Nat /\ DOMAIN queue' = 1..(n + m + n)
    /\ at \in [1..n -> DOMAIN p] /\ back \in [1..m -> 1..n]
    /\ \A i, j \in 1..n : i < j => at[i] < at[j]
    /\ \A i, j \in 1..m : i < j => back[j] < back[i]
    /\ \A i \in 1..n : /\ queue'[i] = Action("fetch", p[at[i]])
                       /\ queue'[n + m + i] = Action("install", p[at[i]])
    /\ \A i \in 1..m : /\ queue'[n + i].op = "remove"
                       /\ queue'[n + i].egg \in NamedIn(top, EggName[p[at[back[i]]]])
    /\ \A i \in DOMAIN p : top[p[i]] = 0 => \E k \in 1..n : at[k] = i
    /\ \A i \in 1..n : NamedIn(top, EggName[p[at[i]]]) # {} => \E k \in 1..m : back[k] = i

(* Every request of install_req has that form: no package is left out but  *)
(* the installed ones, and none that is replaced stays.                    *)
LEMMA RequestProperties ==
    ASSUME EnpkgTypeOK, NEW p \in Plans, NEW force \in {"NONE", "MAIN_ONLY", "ALL"},
           RequestInstall(p, force)
    PROVE  \E n, m, at, back : IsRequest(p, n, m, at, back)
  <1> DEFINE seq == ToInstall(p, force)
             rem == RemoveActions(seq)
             n == Len(seq)
             m == Len(rem)
  <1>1. seq \in Seq(Eggs)
    BY ToInstallProperties DEF EnpkgTypeOK
  <1>2. PICK at : /\ IsPartOf(seq, p, at)
                  /\ \A i \in DOMAIN p : top[p[i]] = 0 => \E k \in DOMAIN seq : at[k] = i
    BY ToInstallProperties DEF EnpkgTypeOK
  <1> DEFINE q == FetchActions(seq) \o rem \o InstallActions(seq)
  <1>3. queue' = q
    BY DEF RequestInstall
  <1> HIDE DEF seq
  <1>4. rem \in Seq(Actions)
    BY <1>1, RemoveActionsProperties DEF EnpkgTypeOK
  <1>5. PICK back \in [DOMAIN rem -> DOMAIN seq] :
          /\ \A k \in DOMAIN rem :
              rem[k].op = "remove" /\ rem[k].egg \in NamedIn(top, EggName[seq[back[k]]])
          /\ \A k, l \in DOMAIN rem : k < l => back[l] < back[k]
          /\ \A i \in DOMAIN seq : NamedIn(top, EggName[seq[i]]) # {} =>
              \E k \in DOMAIN rem : back[k] = i
    BY <1>1, RemoveActionsProperties DEF EnpkgTypeOK
  <1> HIDE DEF rem, n, m
  <1>6. /\ n \in Nat /\ m \in Nat
        /\ DOMAIN queue' = 1..(n + m + n) /\ DOMAIN seq = 1..n /\ DOMAIN rem = 1..m
        /\ \A i \in 1..n : queue'[i] = Action("fetch", seq[i])
        /\ \A i \in 1..m : queue'[n + i] = rem[i]
        /\ \A i \in 1..n : queue'[n + m + i] = Action("install", seq[i])
    <2>1. IsQueue(q, seq, rem, Len(seq), Len(rem))
      BY <1>1, <1>4, QueueOfRequest
    <2>2. IsQueue(queue', seq, rem, n, m)
      BY <1>3, <2>1 DEF n, m
    <2> QED
      BY <2>2 DEF IsQueue
  <1>7. \A i \in 1..n : seq[i] = p[at[i]]
    BY <1>2, <1>6 DEF IsPartOf
  <1>8. \A i \in 1..n : /\ queue'[i] = Action("fetch", p[at[i]])
                         /\ queue'[n + m + i] = Action("install", p[at[i]])
    BY <1>6, <1>7
  <1>9. \A i \in 1..m : /\ queue'[n + i].op = "remove"
                         /\ queue'[n + i].egg \in NamedIn(top, EggName[p[at[back[i]]]])
    <2>1. ASSUME NEW i \in 1..m
          PROVE  /\ rem[i].op = "remove" /\ rem[i].egg \in NamedIn(top, EggName[seq[back[i]]])
                 /\ seq[back[i]] = p[at[back[i]]]
      BY <1>5, <1>6, <1>7
    <2> QED
      BY <1>6, <2>1
  <1>10. \A i \in 1..n : NamedIn(top, EggName[p[at[i]]]) # {} => \E k \in 1..m : back[k] = i
    BY <1>5, <1>6, <1>7
  <1>11. /\ at \in [1..n -> DOMAIN p] /\ \A i, j \in 1..n : i < j => at[i] < at[j]
         /\ back \in [1..m -> 1..n] /\ \A i, j \in 1..m : i < j => back[j] < back[i]
         /\ \A i \in DOMAIN p : top[p[i]] = 0 => \E k \in 1..n : at[k] = i
    BY <1>2, <1>5, <1>6 DEF IsPartOf
  <1>12. IsRequest(p, n, m, at, back)
    BY <1>6, <1>8, <1>9, <1>10, <1>11 DEF IsRequest
  <1> QED
    BY <1>12

(* The fields of an action. *)
LEMMA ActionFields == \A op, e : Action(op, e).op = op /\ Action(op, e).egg = e
  BY DEF Action

(* A position of the queue is one of a download, a removal or an           *)
(* installation.                                                           *)
LEMMA PlaceInRequest ==
    ASSUME NEW n \in Nat, NEW m \in Nat, NEW i \in 1..(n + m + n)
    PROVE  \/ i \in 1..n
           \/ \E k \in 1..m : i = n + k
           \/ \E k \in 1..n : i = n + m + k
  <1>1. CASE i <= n
    BY <1>1
  <1>2. CASE n < i /\ i <= n + m
    <2>1. i - n \in 1..m /\ i = n + (i - n)
      BY <1>2
    <2> QED
      BY <2>1
  <1>3. CASE n + m < i
    <2>1. i - (n + m) \in 1..n /\ i = n + m + (i - (n + m))
      BY <1>3
    <2> QED
      BY <2>1
  <1> QED
    BY <1>1, <1>2, <1>3

(* The queue stays in order. *)
LEMMA NextOrdered ==
    ASSUME EnpkgTypeOK, Ordered, [EnpkgNext]_allVars
    PROVE  Ordered'
  <1>1. CASE queue' = queue
    BY <1>1 DEF Ordered
  <1>2. CASE queue' = <<>>
    BY <1>2 DEF Ordered
  <1>3. CASE queue # <<>> /\ NextAction
    <2> SUFFICES ASSUME NEW i \in DOMAIN Tail(queue), NEW j \in DOMAIN Tail(queue), i < j
                 PROVE  MayPrecede(Tail(queue)[i], Tail(queue)[j])
      BY <1>3 DEF Ordered, NextAction
    <2>1. /\ i + 1 \in DOMAIN queue /\ Tail(queue)[i] = queue[i + 1]
          /\ j + 1 \in DOMAIN queue /\ Tail(queue)[j] = queue[j + 1]
      BY <1>3, HeadOfQueue DEF EnpkgTypeOK
    <2>2. i + 1 < j + 1
      BY <1>3 DEF EnpkgTypeOK
    <2> QED
      BY <2>1, <2>2 DEF Ordered
  <1>4. ASSUME NEW p \in Plans, NEW force \in {"NONE", "MAIN_ONLY", "ALL"},
               RequestInstall(p, force)
        PROVE  Ordered'
    <2>1. PICK n, m, at, back : IsRequest(p, n, m, at, back)
      BY <1>4, RequestProperties
    <2>0. p \in Seq(Eggs) /\ DOMAIN p \subseteq Nat /\ \A i \in DOMAIN p : p[i] \in Eggs
      <3>1. p \in Seq(Eggs)
        BY EnpkgAssumption
      <3>2. DOMAIN p = 1..Len(p) /\ \A i \in DOMAIN p : p[i] \in Eggs
        BY <3>1
      <3> QED
        BY <3>1, <3>2
    <2>1a. /\ n \in Nat /\ m \in Nat /\ DOMAIN queue' = 1..(n + m + n)
           /\ at \in [1..n -> DOMAIN p]
           /\ \A i, j \in 1..n : i < j => at[i] < at[j]
      BY <2>1 DEF IsRequest
    <2>2. /\ n \in Nat /\ m \in Nat /\ DOMAIN queue' = 1..(n + m + n)
          /\ \A i \in 1..n : at[i] \in DOMAIN p /\ p[at[i]] \in Eggs
          /\ \A i \in 1..n, j \in 1..n : i < j => at[i] < at[j] /\ at[i] \in Nat /\ at[j] \in Nat
      <3>1. \A i \in 1..n : at[i] \in DOMAIN p
        BY <2>1a
      <3>2. \A i \in 1..n : at[i] \in Nat /\ p[at[i]] \in Eggs
        BY <2>0, <3>1
      <3> QED
        BY <2>1a, <3>1, <3>2
    <2>2a. \A i \in 1..n : /\ queue'[i] = Action("fetch", p[at[i]])
                           /\ queue'[n + m + i] = Action("install", p[at[i]])
      BY <2>1 DEF IsRequest
    <2>3. \A i \in 1..n : queue'[i].op = "fetch"
      BY <2>2a, ActionFields
    <2>4. \A i \in 1..m : queue'[n + i].op = "remove" /\ back[i] \in 1..n
                          /\ EggName[queue'[n + i].egg] = EggName[p[at[back[i]]]]
      BY <2>1 DEF IsRequest, NamedIn, EggsOf
    <2>5. \A i \in 1..n : queue'[n + m + i].op = "install" /\ queue'[n + m + i].egg = p[at[i]]
      BY <2>2a, ActionFields
    <2>6. ASSUME NEW i \in 1..n, NEW j \in 1..n, i < j
          PROVE  /\ EggName[p[at[i]]] # EggName[p[at[j]]]
                 /\ EggName[p[at[j]]] \notin DepNames[EggName[p[at[i]]]]
      <3>1. at[i] \in DOMAIN p /\ at[j] \in DOMAIN p /\ at[i] < at[j] /\ at[i] \in Nat /\ at[j] \in Nat
        BY <2>2, <2>6
      <3>2. ~ at[j] < at[i] /\ at[i] # at[j]
        BY <3>1
      <3> QED
        BY <3>1, <3>2, EnpkgAssumption
    <2> SUFFICES ASSUME NEW i \in 1..(n + m + n), NEW j \in 1..(n + m + n), i < j
                 PROVE  MayPrecede(queue'[i], queue'[j])
      BY <2>2 DEF Ordered, MayPrecede
    <2>7. CASE i \in 1..n
      BY <2>3, <2>7 DEF MayPrecede
    <2>8. ASSUME NEW k \in 1..m, i = n + k PROVE MayPrecede(queue'[i], queue'[j])
      <3>1. ~ j \in 1..n
        BY <2>2, <2>8
      <3>2. CASE \E l \in 1..m : j = n + l
        <4>1. PICK l \in 1..m : j = n + l
          BY <3>2
        <4>2. k < l
          BY <2>2, <2>8, <4>1
        <4>3. back[l] < back[k]
          BY <2>1, <4>2 DEF IsRequest
        <4>4. EggName[p[at[back[k]]]] \notin DepNames[EggName[p[at[back[l]]]]]
          BY <2>4, <2>6, <4>3
        <4> QED
          BY <2>4, <2>8, <4>1, <4>4 DEF MayPrecede
      <3>3. CASE \E l \in 1..n : j = n + m + l
        BY <2>4, <2>5, <2>8, <3>3 DEF MayPrecede
      <3> QED
        BY <2>2, <3>1, <3>2, <3>3, PlaceInRequest
    <2>9. ASSUME NEW k \in 1..n, i = n + m + k PROVE MayPrecede(queue'[i], queue'[j])
      <3>1. PICK l \in 1..n : j = n + m + l
        <4>1. ~ j \in 1..n /\ ~ \E l \in 1..m : j = n + l
          BY <2>2, <2>9
        <4> QED
          BY <2>2, <4>1, PlaceInRequest
      <3>2. k < l
        BY <2>2, <2>9, <3>1
      <3> QED
        BY <2>5, <2>6, <2>9, <3>1, <3>2 DEF MayPrecede
    <2> QED
      BY <2>2, <2>7, <2>8, <2>9, PlaceInRequest
  <1>5. ASSUME NEW n \in Names, RequestRemove(n) PROVE Ordered'
    BY <1>5 DEF RequestRemove, Ordered
  <1> QED
    BY <1>1, <1>2, <1>3, <1>4, <1>5, QueueStep

-----------------------------------------------------------------------------
(* The process at work *)

(* Where the process is, the installer or the remover is at work on the    *)
(* first action of the queue.                                              *)
AtWork ==
    /\ proc # "egg" => pc = "idle"
    /\ proc = "egg" =>
        /\ who = EggName[egg]
        /\ \/ Head(queue).op = "install" /\ pc \in InstallSteps /\ cur = egg
           \/ Head(queue).op = "remove" /\ pc \in RemoveSteps
    /\ proc = "post" /\ Head(queue).op = "remove" => info[EggName[egg]] = Absent

(* Steps of an egg, and the others. *)
LEMMA NextCases ==
    ASSUME EnpkgNext
    PROVE  \/ BeginRemove \/ BeginInstall \/ EggStep \/ EggRaises
           \/ Kill /\ proc = "egg"
           \/ UNCHANGED vars /\ proc # "egg" /\ proc' \notin {"egg", "post"}
  <1>1. CASE Boot \/ Exit \/ EnterHistory \/ Leave \/ LeaveRaising
    BY <1>1 DEF Boot, Exit, EnterHistory, Leave, LeaveRaising, ProcessEnds
  <1>2. CASE Fetch \/ RemoveMissing
    BY <1>2 DEF Fetch, RemoveMissing, Next1, NextAction, Raise
  <1>3. CASE PostRemove \/ PostInstall
    BY <1>3 DEF PostRemove, PostInstall, NextAction, Raise
  <1>4. CASE Kill
    BY <1>4 DEF Kill, ProcessEnds
  <1>5. ASSUME NEW p, NEW force, RequestInstall(p, force)
        PROVE  UNCHANGED vars /\ proc # "egg" /\ proc' \notin {"egg", "post"}
    BY <1>5 DEF RequestInstall
  <1>6. ASSUME NEW n, RequestRemove(n)
        PROVE  UNCHANGED vars /\ proc # "egg" /\ proc' \notin {"egg", "post"}
    BY <1>6 DEF RequestRemove
  <1> QED
    BY <1>1, <1>2, <1>3, <1>4, <1>5, <1>6 DEF EnpkgNext

(* Every step keeps the process and the egg together. *)
LEMMA NextAtWork ==
    ASSUME IInv, EnpkgTypeOK, AtWork, InfoInPlace, InfoMatches, [EnpkgNext]_allVars
    PROVE  AtWork'
  <1>1. CASE UNCHANGED allVars
    BY <1>1 DEF allVars, enpkgVars, vars, AtWork, who, egg
  <1>2. CASE UNCHANGED vars /\ proc # "egg" /\ proc' \notin {"egg", "post"}
    BY <1>2 DEF AtWork, vars
  <1>3. CASE BeginRemove
    <2>1. queue # <<>> /\ EggName[egg] \in Names /\ Head(queue).op = "remove"
      BY <1>3, HeadOfQueue DEF BeginRemove, Next1, EnpkgTypeOK
    <2>2. pc' \in RemoveSteps /\ who' = EggName[egg]
      BY <1>3, <2>1, BeginRecords DEF BeginRemove
    <2>3. queue' = queue /\ egg' = egg /\ proc' = "egg"
      BY <1>3 DEF BeginRemove, egg
    <2> QED
      BY <2>1, <2>2, <2>3 DEF AtWork
  <1>4. CASE BeginInstall
    <2>1. queue' = queue /\ egg' = egg /\ Head(queue).op = "install" /\ proc = "run"
      BY <1>4 DEF BeginInstall, egg, Next1, Raise
    <2>2. CASE proc' = "raise" /\ UNCHANGED vars
      BY <2>1, <2>2 DEF AtWork, vars
    <2>3. CASE PreExtract(egg) /\ proc' = "egg"
      BY <2>1, <2>3 DEF PreExtract, AtWork, who, InstallSteps
    <2> QED
      BY <1>4, <2>2, <2>3 DEF BeginInstall, Raise
  <1>5. CASE EggStep
    <2>1. /\ queue' = queue /\ egg' = egg /\ proc = "egg"
          /\ InstallStep \/ RemoveStep
          /\ proc' = IF pc' = "idle" THEN "post" ELSE "egg"
      BY <1>5 DEF EggStep, egg
    <2>2. OnlyWho
      BY <2>1, EggActionOnlyWho DEF IInv, EggAction
    <2>3. CASE pc' = "idle"
      BY <2>1, <2>3, EndOfOperation DEF AtWork
    <2>4. CASE pc' # "idle"
      BY <2>1, <2>2, <2>4 DEF AtWork, OnlyWho, who, InstallSteps, RemoveSteps
    <2> QED
      BY <2>3, <2>4
  <1>6. CASE EggRaises \/ (Kill /\ proc = "egg")
    <2>1. Interrupt /\ proc' \in {"raise", "down"}
      BY <1>6 DEF EggRaises, Kill, Raise, ProcessEnds
    <2>2. pc' = "idle"
      BY <2>1 DEF Interrupt, Stop, StopInFile, StopInInfo, StopInMeta, ForgetProcess
    <2> QED
      BY <2>1, <2>2 DEF AtWork
  <1> QED
    BY <1>1, <1>2, <1>3, <1>4, <1>5, <1>6, NextCases

-----------------------------------------------------------------------------
(* The repositories *)

(* While there is no exception under way, a package is in the repository   *)
(* of the process when its _info.json is on the disk, but for the package  *)
(* that is worked on.                                                      *)
Alive == proc \notin {"down", "raise"}
WorkingOn(n) == proc \in {"egg", "post"} /\ n = EggName[egg]

Mirrored ==
    Alive => \A e \in Eggs :
        /\ top[e] \in {0, 1}
        /\ all[e] \in top[e]..(top[e] + IF e \in Below THEN 1 ELSE 0)
        /\ ~ WorkingOn(EggName[e]) => (top[e] = 1 <=> info[EggName[e]] = e)

OneOfAName ==
    Alive => \A e, f \in Eggs : EggName[e] = EggName[f] /\ top[e] > 0 /\ top[f] > 0 => e = f

(* What has the name of a package to install is removed before.            *)
Cleared ==
    \A j \in DOMAIN queue : queue[j].op = "install" =>
        \A e \in NamedIn(top, EggName[queue[j].egg]) :
            \E i \in DOMAIN queue : i < j /\ queue[i] = Action("remove", e)

(* A package is installed where there is none.                             *)
LEMMA FreshName ==
    ASSUME EnpkgTypeOK, InfoInPlace, Mirrored, Cleared, proc = "run",
           queue # <<>>, Head(queue).op = "install"
    PROVE  info[EggName[egg]] \notin Eggs
  <1>1. egg \in Eggs /\ EggName[egg] \in Names /\ Head(queue) = queue[1]
        /\ 1 \in DOMAIN queue /\ queue[1].egg = egg
    BY HeadOfQueue DEF EnpkgTypeOK, egg
  <1> SUFFICES ASSUME info[EggName[egg]] \in Eggs PROVE FALSE
    OBVIOUS
  <1> DEFINE f == info[EggName[egg]]
  <1>2. f \in Eggs /\ EggName[f] = EggName[egg]
    BY <1>1 DEF InfoInPlace
  <1>3. top[f] = 1
    BY <1>2 DEF Mirrored, Alive, WorkingOn
  <1>4. f \in NamedIn(top, EggName[egg])
    BY <1>2, <1>3 DEF NamedIn, EggsOf
  <1>5. PICK i \in DOMAIN queue : i < 1
    BY <1>1, <1>4 DEF Cleared
  <1>6. DOMAIN queue = 1..Len(queue) /\ Len(queue) \in Nat
    BY DEF EnpkgTypeOK
  <1> QED
    BY <1>5, <1>6

(* Nothing of the name of what is installed is in the repository.          *)
LEMMA HeadCleared ==
    ASSUME EnpkgTypeOK, Cleared, queue # <<>>, Head(queue).op = "install"
    PROVE  NamedIn(top, EggName[egg]) = {}
  <1>1. Head(queue) = queue[1] /\ 1 \in DOMAIN queue /\ queue[1].egg = egg
    BY HeadOfQueue DEF EnpkgTypeOK, egg
  <1>2. DOMAIN queue = 1..Len(queue) /\ Len(queue) \in Nat
    BY DEF EnpkgTypeOK
  <1> SUFFICES ASSUME NEW e \in NamedIn(top, EggName[egg]) PROVE FALSE
    OBVIOUS
  <1>3. PICK i \in DOMAIN queue : i < 1
    BY <1>1 DEF Cleared
  <1> QED
    BY <1>2, <1>3

QueueWithInfo == \A i \in DOMAIN queue : queue[i].op = "install" => queue[i].egg \in WithInfo

(* Every step keeps the records of a package in agreement with its files,  *)
(* and, where the eggs of the queue have metadata, with its _info.json.    *)
LEMMA NextRecords ==
    ASSUME IInv, EnpkgTypeOK, InfoInPlace, InfoMatches, Mirrored, Cleared, [EnpkgNext]_allVars
    PROVE  /\ InfoInPlace' /\ InfoMatches'
           /\ JsonMatches /\ QueueWithInfo => JsonMatches'
  <1> DEFINE Result ==
        /\ InfoInPlace' /\ InfoMatches'
        /\ JsonMatches /\ QueueWithInfo => JsonMatches'
  <1> SUFFICES Result
    OBVIOUS
  <1>1. CASE UNCHANGED vars
    BY <1>1 DEF vars, InfoInPlace, InfoMatches, JsonMatches, Settled, who
  <1>2. CASE BeginRemove
    <2>1. queue # <<>> /\ EggName[egg] \in Names
      BY <1>2, HeadOfQueue DEF BeginRemove, Next1, EnpkgTypeOK
    <2> QED
      BY <1>2, <2>1, BeginRecords DEF BeginRemove
  <1>3. CASE BeginInstall
    <2>1. queue # <<>> /\ egg \in Eggs /\ proc = "run" /\ Head(queue).op = "install"
          /\ Head(queue) = queue[1] /\ 1 \in DOMAIN queue /\ queue[1].egg = egg
      BY <1>3, HeadOfQueue DEF BeginInstall, Next1, EnpkgTypeOK, egg
    <2>2. info[EggName[egg]] \notin Eggs
      BY <2>1, FreshName
    <2>3. QueueWithInfo => egg \in WithInfo
      BY <2>1 DEF QueueWithInfo
    <2>4. PreExtract(egg) \/ UNCHANGED vars
      BY <1>3 DEF BeginInstall
    <2> HIDE DEF Result
    <2>5. CASE PreExtract(egg)
      BY <2>1, <2>2, <2>3, <2>5, BeginRecords DEF Result
    <2> QED
      BY <1>1, <2>4, <2>5
  <1>4. CASE EggStep \/ EggRaises \/ (Kill /\ proc = "egg")
    <2>1. EggAction
      BY <1>4 DEF EggAction, EggStep, EggRaises, Kill
    <2> QED
      BY <2>1, EggActionRecords
  <1> HIDE DEF Result
  <1>5. CASE UNCHANGED allVars
    BY <1>1, <1>5 DEF allVars
  <1> QED
    BY <1>1, <1>2, <1>3, <1>4, <1>5, NextCases

(* The steps of enpkg by what they do to the command: it ends, or goes on  *)
(* without a change, or one of its actions begins, goes on or is done.     *)
Ends ==
    /\ proc' \in {"down", "raise"} /\ UNCHANGED <<top, all, cache>>
    /\ queue' \in {queue, <<>>}
    /\ proc' = "down" => plan' = <<>>
Continues ==
    /\ proc \in {"enter", "run"} /\ proc' \in {"run", "ready"}
    /\ UNCHANGED <<vars, top, all, queue, cache>>
    /\ plan' \in {plan, <<>>}

(* Every step of enpkg is of one of these kinds. *)
LEMMA NextKinds ==
    ASSUME EnpkgNext
    PROVE  \/ Boot
           \/ \E p \in Plans, force \in {"NONE", "MAIN_ONLY", "ALL"} : RequestInstall(p, force)
           \/ \E n \in Names : RequestRemove(n)
           \/ Ends \/ Continues
           \/ Fetch /\ NextAction /\ cache' = cache \cup {egg}
           \/ RemoveMissing /\ ~ IsInstalled(EggName[egg]) /\ NextAction
           \/ BeginRemove
           \/ BeginInstall /\ PreExtract(egg) /\ proc' = "egg" /\ UNCHANGED queue
           \/ EggStep
           \/ PostRemove /\ NextAction /\ top[egg] > 0
                /\ top' = [top EXCEPT ![egg] = 0] /\ all' = [all EXCEPT ![egg] = 0]
           \/ PostInstall /\ NextAction /\ info[EggName[egg]] \in Eggs
                /\ top' = [top EXCEPT ![info[EggName[egg]]] = @ + 1]
                /\ all' = [all EXCEPT ![info[EggName[egg]]] = @ + 1]
  <1>1. CASE Exit \/ LeaveRaising
    BY <1>1 DEF Exit, LeaveRaising, ProcessEnds, Ends
  <1>2. CASE EnterHistory
    BY <1>2 DEF EnterHistory, ProcessEnds, Ends, Continues
  <1>3. CASE Leave
    BY <1>3 DEF Leave, ProcessEnds, Ends, Continues
  <1>4. CASE Fetch
    BY <1>4 DEF Fetch, Raise, Ends
  <1>5. CASE RemoveMissing
    BY <1>5 DEF RemoveMissing, Raise, Ends
  <1>6. CASE BeginInstall
    BY <1>6 DEF BeginInstall, Raise, Ends
  <1>7. CASE PostRemove
    BY <1>7 DEF PostRemove, Raise, Ends
  <1>8. CASE PostInstall
    BY <1>8 DEF PostInstall, Raise, Ends
  <1>9. CASE EggRaises \/ Kill
    BY <1>9 DEF EggRaises, Kill, Raise, ProcessEnds, Ends
  <1> QED
    BY <1>1, <1>2, <1>3, <1>4, <1>5, <1>6, <1>7, <1>8, <1>9 DEF EnpkgNext

(* A package is found on the disk if it is the one its _info.json is of. *)
LEMMA OnDiskMembers ==
    ASSUME IInv, InfoInPlace, NEW e \in Eggs
    PROVE  e \in OnDisk <=> info[EggName[e]] = e
  <1>1. e # Absent /\ EggName[e] \in Names /\ metaDir \subseteq Names
    BY EggInstAssumption DEF IInv, TypeOK
  <1>2. ASSUME e \in OnDisk PROVE info[EggName[e]] = e
    <2>1. PICK n \in metaDir : info[n] \in Eggs /\ e = info[n]
      BY <1>2 DEF OnDisk
    <2> QED
      BY <1>1, <2>1 DEF InfoInPlace
  <1>3. ASSUME info[EggName[e]] = e PROVE e \in OnDisk
    BY <1>1, <1>3 DEF InfoInPlace, OnDisk
  <1> QED
    BY <1>2, <1>3

(* The repositories follow the disk.                                       *)
LEMMA NextMirrored ==
    ASSUME IInv, EnpkgTypeOK, AtWork, InfoInPlace, Ordered, Mirrored, OneOfAName, Cleared,
           [EnpkgNext]_allVars
    PROVE  Mirrored' /\ OneOfAName'
  <1> DEFINE Result == Mirrored' /\ OneOfAName'
  <1> SUFFICES Result
    OBVIOUS
  <1>t. /\ top \in [Eggs -> Nat] /\ all \in [Eggs -> Nat]
        /\ \A e \in Eggs : EggName[e] \in Names
    BY EggInstAssumption DEF EnpkgTypeOK
  <1>1. CASE UNCHANGED allVars
    BY <1>1 DEF allVars, enpkgVars, vars, Mirrored, OneOfAName, Alive, WorkingOn, egg
  <1>2. CASE Boot
    <2>1. ASSUME NEW e \in Eggs PROVE e \in OnDisk <=> info[EggName[e]] = e
      BY OnDiskMembers
    <2>2. /\ \A e \in Eggs : top'[e] = IF e \in OnDisk THEN 1 ELSE 0
          /\ \A e \in Eggs : all'[e] = (IF e \in OnDisk THEN 1 ELSE 0) + (IF e \in Below THEN 1 ELSE 0)
          /\ info' = info /\ proc' = "ready"
      BY <1>2 DEF Boot, vars
    <2> QED
      BY <2>1, <2>2 DEF Mirrored, OneOfAName, WorkingOn
  <1>3. CASE Ends
    BY <1>3 DEF Ends, Mirrored, OneOfAName, Alive
  <1>4. CASE Continues
    BY <1>4 DEF Continues, vars, Mirrored, OneOfAName, Alive, WorkingOn
  <1>5. ASSUME NEW p, NEW force, RequestInstall(p, force) PROVE Result
    BY <1>5 DEF RequestInstall, vars, Mirrored, OneOfAName, Alive, WorkingOn
  <1>6. ASSUME NEW n, RequestRemove(n) PROVE Result
    BY <1>6 DEF RequestRemove, vars, Mirrored, OneOfAName, Alive, WorkingOn
  <1>7. CASE (Fetch \/ RemoveMissing) /\ NextAction
    BY <1>7 DEF Fetch, RemoveMissing, Next1, NextAction, vars, Mirrored, OneOfAName, Alive, WorkingOn
  <1>8. CASE BeginRemove
    <2>1. proc = "run" /\ proc' = "egg" /\ UNCHANGED <<info, top, all, egg>>
      BY <1>8 DEF BeginRemove, Next1, StartRemove, diskVars, egg
    <2> QED
      BY <2>1 DEF Mirrored, OneOfAName, Alive, WorkingOn
  <1>9. CASE BeginInstall /\ PreExtract(egg) /\ proc' = "egg" /\ UNCHANGED queue
    <2>1. proc = "run" /\ proc' = "egg" /\ UNCHANGED <<info, top, all, egg>>
      BY <1>9 DEF BeginInstall, Next1, PreExtract, egg
    <2> QED
      BY <2>1 DEF Mirrored, OneOfAName, Alive, WorkingOn
  <1>10. CASE EggStep
    <2>1. /\ proc = "egg" /\ proc' \in {"egg", "post"} /\ UNCHANGED <<top, all, egg>>
          /\ EggAction
      BY <1>10 DEF EggStep, egg, EggAction
    <2>2. OnlyWho /\ who = EggName[egg]
      BY <2>1, EggActionOnlyWho DEF IInv, AtWork
    <2> QED
      BY <1>t, <2>1, <2>2 DEF Mirrored, OneOfAName, Alive, WorkingOn, OnlyWho
  <1>11. CASE PostRemove /\ NextAction /\ top[egg] > 0
                /\ top' = [top EXCEPT ![egg] = 0] /\ all' = [all EXCEPT ![egg] = 0]
    <2>1. proc = "post" /\ Head(queue).op = "remove" /\ proc' = "run" /\ info' = info
          /\ egg \in Eggs /\ info[EggName[egg]] = Absent
      BY <1>11, HeadOfQueue DEF PostRemove, NextAction, vars, EnpkgTypeOK, AtWork
    <2>2. \A e \in Eggs : /\ top'[e] = IF e = egg THEN 0 ELSE top[e]
                          /\ all'[e] = IF e = egg THEN 0 ELSE all[e]
      BY <1>t, <1>11
    <2>3. \A e \in Eggs : EggName[e] = EggName[egg] => top'[e] = 0
      BY <1>t, <1>11, <2>1, <2>2 DEF OneOfAName, Alive, Mirrored
    <2>4. OneOfAName'
      BY <2>1, <2>2 DEF OneOfAName, Alive
    <2>5. Mirrored'
      BY <2>1, <2>2, <2>3, EggInstAssumption DEF Mirrored, Alive, WorkingOn
    <2> QED
      BY <2>4, <2>5
  <1>12. CASE PostInstall /\ NextAction /\ info[EggName[egg]] \in Eggs
                /\ top' = [top EXCEPT ![info[EggName[egg]]] = @ + 1]
                /\ all' = [all EXCEPT ![info[EggName[egg]]] = @ + 1]
    <2> DEFINE found == info[EggName[egg]]
    <2>1. proc = "post" /\ Head(queue).op = "install" /\ proc' = "run" /\ info' = info
          /\ queue # <<>> /\ egg \in Eggs
      BY <1>12, HeadOfQueue DEF PostInstall, NextAction, vars, EnpkgTypeOK
    <2>2. found \in Eggs /\ EggName[found] = EggName[egg]
      BY <1>t, <1>12, <2>1 DEF InfoInPlace
    <2>3. \A e \in Eggs : EggName[e] = EggName[egg] => top[e] = 0
      <3>1. NamedIn(top, EggName[egg]) = {}
        BY <2>1, HeadCleared
      <3> QED
        BY <1>t, <3>1 DEF NamedIn, EggsOf
    <2>4. \A e \in Eggs : /\ top'[e] = IF e = found THEN 1 ELSE top[e]
                          /\ all'[e] = IF e = found THEN all[e] + 1 ELSE all[e]
      <3>1. top[found] = 0
        BY <2>2, <2>3
      <3> HIDE DEF found
      <3> QED
        BY <1>t, <1>12, <2>2, <3>1 DEF found
    <2>5. OneOfAName'
      BY <2>1, <2>2, <2>3, <2>4 DEF OneOfAName, Alive
    <2>6. \A e \in Eggs : top[e] \in {0, 1} /\ all[e] \in top[e]..(top[e] + IF e \in Below THEN 1 ELSE 0)
      BY <2>1 DEF Mirrored, Alive
    <2>7. \A e \in Eggs : top'[e] \in {0, 1} /\ all'[e] \in top'[e]..(top'[e] + IF e \in Below THEN 1 ELSE 0)
      BY <1>t, <2>2, <2>3, <2>4, <2>6
    <2>8. \A e \in Eggs : top'[e] = 1 <=> info'[EggName[e]] = e
      BY <2>1, <2>2, <2>3, <2>4 DEF Mirrored, Alive, WorkingOn
    <2> QED
      BY <2>5, <2>7, <2>8 DEF Mirrored
  <1> HIDE DEF Result
  <1> QED
    BY <1>1, <1>2, <1>3, <1>4, <1>5, <1>6, <1>7, <1>8, <1>9, <1>10, <1>11, <1>12, NextKinds

(* An action of the rest of the queue was one of the queue, in the same    *)
(* order; what is not the first stays.                                     *)
LEMMA RestOfQueue ==
    ASSUME EnpkgTypeOK, queue # <<>>, NextAction
    PROVE  /\ \A j \in DOMAIN queue' : j \in Nat /\ j + 1 \in DOMAIN queue /\ queue'[j] = queue[j + 1]
           /\ \A i, j \in DOMAIN queue : i < j => j - 1 \in DOMAIN queue' /\ queue'[j - 1] = queue[j]
           /\ DOMAIN queue \subseteq Nat \ {0} /\ 1 \in DOMAIN queue /\ queue[1] = Head(queue)
  <1>1. queue' = Tail(queue)
    BY DEF NextAction
  <1>2. /\ DOMAIN queue = 1..Len(queue) /\ Len(queue) \in Nat
        /\ DOMAIN Tail(queue) \subseteq Nat
    <2>1. Tail(queue) \in Seq(Actions)
      BY HeadOfQueue DEF EnpkgTypeOK
    <2>2. DOMAIN Tail(queue) = 1..Len(Tail(queue))
      BY <2>1
    <2> QED
      BY <2>2 DEF EnpkgTypeOK
  <1>3. ASSUME NEW i \in DOMAIN queue, NEW j \in DOMAIN queue, i < j
        PROVE  j - 1 \in DOMAIN queue' /\ queue'[j - 1] = queue[j]
    <2>1. j # 1
      BY <1>2, <1>3
    <2> QED
      BY <1>1, <2>1, HeadOfQueue DEF EnpkgTypeOK
  <1>4. \A j \in DOMAIN queue' : j \in Nat /\ j + 1 \in DOMAIN queue /\ queue'[j] = queue[j + 1]
    BY <1>1, <1>2, HeadOfQueue DEF EnpkgTypeOK
  <1> QED
    BY <1>2, <1>3, <1>4, HeadOfQueue DEF EnpkgTypeOK

(* An egg to install is in the cache, or fetched before.                   *)
Fetched ==
    \A j \in DOMAIN queue : queue[j].op = "install" =>
        \/ queue[j].egg \in cache
        \/ \E i \in DOMAIN queue : i < j /\ queue[i] = Action("fetch", queue[j].egg)

(* The first action done, the next installations are prepared as before.   *)
LEMMA ClearedRest ==
    ASSUME EnpkgTypeOK, Cleared, queue # <<>>, NextAction,
           \A j \in DOMAIN queue : j # 1 /\ queue[j].op = "install" =>
              \A e \in NamedIn(top', EggName[queue[j].egg]) :
                  e \in NamedIn(top, EggName[queue[j].egg]) /\ Head(queue) # Action("remove", e)
    PROVE  Cleared'
  <1> SUFFICES ASSUME NEW j \in DOMAIN queue', queue'[j].op = "install",
                      NEW e \in NamedIn(top', EggName[queue'[j].egg])
               PROVE  \E i \in DOMAIN queue' : i < j /\ queue'[i] = Action("remove", e)
    BY DEF Cleared
  <1>1. j \in Nat /\ j + 1 \in DOMAIN queue /\ queue'[j] = queue[j + 1] /\ j # 0 /\ j + 1 # 1
    BY RestOfQueue DEF NextAction, EnpkgTypeOK
  <1>2. e \in NamedIn(top, EggName[queue[j + 1].egg]) /\ Head(queue) # Action("remove", e)
    BY <1>1
  <1>3. PICK i \in DOMAIN queue : i < j + 1 /\ queue[i] = Action("remove", e)
    BY <1>1, <1>2 DEF Cleared
  <1>4. i # 1 /\ i \in Nat /\ i > 0 /\ 1 \in DOMAIN queue
    BY <1>2, <1>3, RestOfQueue
  <1>5. 1 < i
    BY <1>4
  <1>6. i - 1 \in DOMAIN queue' /\ queue'[i - 1] = queue[i]
    BY <1>4, <1>5, RestOfQueue
  <1> QED
    BY <1>1, <1>3, <1>4, <1>6

(* Every step keeps the removals that an installation waits for. *)
LEMMA NextCleared ==
    ASSUME IInv, EnpkgTypeOK, AtWork, InfoInPlace, Ordered, Mirrored, OneOfAName, Cleared,
           [EnpkgNext]_allVars
    PROVE  Cleared'
  <1>1. CASE UNCHANGED <<top, queue>>
    BY <1>1 DEF Cleared, NamedIn
  <1>2. CASE queue' = <<>>
    BY <1>2 DEF Cleared
  <1>3. CASE Boot
    BY <1>2, <1>3 DEF Boot, EnpkgTypeOK
  <1>4. ASSUME NEW p \in Plans, NEW force \in {"NONE", "MAIN_ONLY", "ALL"}, RequestInstall(p, force)
        PROVE  Cleared'
    <2>1. PICK n, m, at, back : IsRequest(p, n, m, at, back)
      BY <1>4, RequestProperties
    <2>2. /\ n \in Nat /\ m \in Nat /\ DOMAIN queue' = 1..(n + m + n)
          /\ at \in [1..n -> DOMAIN p] /\ back \in [1..m -> 1..n]
          /\ \A i \in 1..n : /\ queue'[i] = Action("fetch", p[at[i]])
                             /\ queue'[n + m + i] = Action("install", p[at[i]])
          /\ \A i \in 1..m : /\ queue'[n + i].op = "remove"
                             /\ queue'[n + i].egg \in NamedIn(top, EggName[p[at[back[i]]]])
          /\ \A i \in 1..n : NamedIn(top, EggName[p[at[i]]]) # {} => \E k \in 1..m : back[k] = i
      BY <2>1 DEF IsRequest
    <2> SUFFICES ASSUME NEW j \in DOMAIN queue', queue'[j].op = "install",
                        NEW e \in NamedIn(top', EggName[queue'[j].egg])
                 PROVE  \E i \in DOMAIN queue' : i < j /\ queue'[i] = Action("remove", e)
      BY DEF Cleared
    <2>3. PICK k \in 1..n : j = n + m + k
      <3>1. \A i \in 1..n : queue'[i] = Action("fetch", p[at[i]])
        BY <2>2
      <3>2. \A i \in 1..n : queue'[i].op = "fetch"
        BY <3>1, ActionFields
      <3>3. \A i \in 1..m : queue'[n + i].op = "remove"
        BY <2>2
      <3>4. ~ j \in 1..n /\ ~ \E l \in 1..m : j = n + l
        BY <3>2, <3>3
      <3>5. j \in 1..(n + m + n) /\ n \in Nat /\ m \in Nat
        BY <2>2
      <3> QED
        BY <3>4, <3>5, PlaceInRequest
    <2>4. top' = top /\ proc = "ready"
      BY <1>4 DEF RequestInstall
    <2>5. queue'[j].egg = p[at[k]]
      BY <2>2, <2>3, ActionFields
    <2>6. e \in NamedIn(top, EggName[p[at[k]]])
      BY <2>4, <2>5 DEF NamedIn
    <2>7. PICK l \in 1..m : back[l] = k
      BY <2>2, <2>6
    <2>8. queue'[n + l].op = "remove" /\ queue'[n + l].egg \in NamedIn(top, EggName[p[at[k]]])
          /\ n + l \in DOMAIN queue' /\ n + l < j
      BY <2>2, <2>3, <2>7
    <2>9. queue'[n + l].egg = e
      BY <2>4, <2>6, <2>8 DEF OneOfAName, Alive, NamedIn, EggsOf
    <2>10. queue'[n + l] = Action("remove", e)
      <3>1. queue' \in Seq(Actions)
        BY NextEnpkgTypeOK DEF EnpkgTypeOK
      <3>2. queue'[n + l] \in Actions
        BY <2>8, <3>1
      <3> QED
        BY <2>8, <2>9, <3>2 DEF Actions, Action
    <2> QED
      BY <2>8, <2>10
  <1>5. ASSUME NEW n \in Names, RequestRemove(n) PROVE Cleared'
    <2>1. PICK e : queue' = <<Action("remove", e)>>
      BY <1>5 DEF RequestRemove
    <2>2. \A j \in DOMAIN queue' : queue'[j].op = "remove"
      BY <2>1, ActionFields
    <2> QED
      BY <2>2 DEF Cleared
  <1>6. CASE Ends \/ Continues \/ BeginRemove \/ EggStep
             \/ (BeginInstall /\ PreExtract(egg) /\ proc' = "egg" /\ UNCHANGED queue)
    BY <1>1, <1>2, <1>6 DEF Ends, Continues, BeginRemove, BeginInstall, EggStep
  <1>7. CASE Fetch /\ NextAction
    <2>1. queue # <<>> /\ top' = top /\ Head(queue).op = "fetch"
      BY <1>7 DEF Fetch, Next1
    <2>2. \A e : Head(queue) # Action("remove", e)
      BY <2>1, ActionFields
    <2> QED
      BY <1>7, <2>1, <2>2, ClearedRest DEF NamedIn
  <1>8. CASE RemoveMissing /\ ~ IsInstalled(EggName[egg]) /\ NextAction
    <2>1. queue # <<>> /\ top' = top /\ proc = "run"
      BY <1>8 DEF RemoveMissing, Next1
    <2>2. ASSUME NEW n, NEW e \in NamedIn(top, n) PROVE Head(queue) # Action("remove", e)
      <3> SUFFICES ASSUME Head(queue) = Action("remove", e) PROVE FALSE
        OBVIOUS
      <3>1. egg = e /\ e \in Eggs /\ top[e] > 0
        BY ActionFields DEF egg, NamedIn, EggsOf
      <3>2. info[EggName[e]] = e
        BY <2>1, <3>1 DEF Mirrored, Alive, WorkingOn
      <3>3. EggName[e] \in metaDir
        BY <3>1, <3>2, EggInstAssumption DEF InfoInPlace
      <3> QED
        BY <1>8, <3>1, <3>3 DEF IsInstalled
    <2> QED
      BY <1>8, <2>1, <2>2, ClearedRest DEF NamedIn
  <1>9. CASE PostRemove /\ NextAction /\ top[egg] > 0 /\ top' = [top EXCEPT ![egg] = 0]
    <2>1. queue # <<>> /\ egg \in Eggs /\ top \in [Eggs -> Nat]
      BY <1>9, HeadOfQueue DEF PostRemove, EnpkgTypeOK
    <2>2. ASSUME NEW n, NEW e \in NamedIn(top', n)
          PROVE  e \in NamedIn(top, n) /\ Head(queue) # Action("remove", e)
      <3>1. e \in EggsOf(n) /\ e \in Eggs /\ top'[e] > 0
        BY DEF NamedIn, EggsOf
      <3>2. e # egg /\ top'[e] = top[e]
        BY <1>9, <2>1, <3>1
      <3> QED
        BY <3>1, <3>2, ActionFields DEF NamedIn, egg
    <2> QED
      BY <1>9, <2>1, <2>2, ClearedRest
  <1>10. CASE PostInstall /\ NextAction /\ info[EggName[egg]] \in Eggs
                /\ top' = [top EXCEPT ![info[EggName[egg]]] = @ + 1]
    <2>1. /\ queue # <<>> /\ egg \in Eggs /\ top \in [Eggs -> Nat]
          /\ Head(queue).op = "install" /\ Head(queue) = queue[1] /\ egg = queue[1].egg
          /\ EggName[egg] \in Names /\ 1 \in DOMAIN queue
      BY <1>10, HeadOfQueue DEF PostInstall, EnpkgTypeOK, egg
    <2> DEFINE found == info[EggName[egg]]
    <2>2. found \in Eggs /\ EggName[found] = EggName[egg]
      BY <1>10, <2>1 DEF InfoInPlace
    <2>3. ASSUME NEW j \in DOMAIN queue, j # 1, queue[j].op = "install",
                 NEW e \in NamedIn(top', EggName[queue[j].egg])
          PROVE  e \in NamedIn(top, EggName[queue[j].egg]) /\ Head(queue) # Action("remove", e)
      <3>1. EggName[egg] # EggName[queue[j].egg]
        <4>1. 1 < j
          BY <1>10, <2>1, <2>3, RestOfQueue
        <4> QED
          BY <2>1, <2>3, <4>1 DEF Ordered, MayPrecede
      <3>2. e \in Eggs /\ EggName[e] = EggName[queue[j].egg] /\ top'[e] > 0
        BY DEF NamedIn, EggsOf
      <3>3. e # found
        BY <2>2, <3>1, <3>2
      <3>4. top'[e] = top[e]
        <4> HIDE DEF found
        <4> QED
          BY <1>10, <2>1, <3>2, <3>3 DEF found
      <3> QED
        BY <2>1, <3>2, <3>4, ActionFields DEF NamedIn, EggsOf
    <2> QED
      BY <1>10, <2>1, <2>3, ClearedRest
  <1>11. CASE UNCHANGED allVars
    BY <1>1, <1>11 DEF allVars, enpkgVars
  <1> QED
    BY <1>3, <1>4, <1>5, <1>6, <1>7, <1>8, <1>9, <1>10, <1>11, NextKinds

(* Every step keeps an egg to install in the cache or in the queue. *)
LEMMA NextFetched ==
    ASSUME EnpkgTypeOK, Fetched, [EnpkgNext]_allVars
    PROVE  Fetched'
  <1>1. CASE queue' = queue /\ cache' = cache
    BY <1>1 DEF Fetched
  <1>2. CASE queue' = <<>>
    BY <1>2 DEF Fetched
  <1>3. CASE Boot
    BY <1>2, <1>3 DEF Boot, EnpkgTypeOK
  <1>4. ASSUME NEW p \in Plans, NEW force \in {"NONE", "MAIN_ONLY", "ALL"}, RequestInstall(p, force)
        PROVE  Fetched'
    <2>1. PICK n, m, at, back : IsRequest(p, n, m, at, back)
      BY <1>4, RequestProperties
    <2>2. /\ n \in Nat /\ m \in Nat /\ DOMAIN queue' = 1..(n + m + n)
          /\ \A i \in 1..n : /\ queue'[i] = Action("fetch", p[at[i]])
                             /\ queue'[n + m + i] = Action("install", p[at[i]])
          /\ \A i \in 1..m : queue'[n + i].op = "remove"
      BY <2>1 DEF IsRequest
    <2> SUFFICES ASSUME NEW j \in DOMAIN queue', queue'[j].op = "install"
                 PROVE  \E i \in DOMAIN queue' : i < j /\ queue'[i] = Action("fetch", queue'[j].egg)
      BY DEF Fetched
    <2>3. PICK k \in 1..n : j = n + m + k
      <3>1. \A i \in 1..n : queue'[i] = Action("fetch", p[at[i]])
        BY <2>2
      <3>2. \A i \in 1..n : queue'[i].op = "fetch"
        BY <3>1, ActionFields
      <3>3. \A i \in 1..m : queue'[n + i].op = "remove"
        BY <2>2
      <3>4. ~ j \in 1..n /\ ~ \E l \in 1..m : j = n + l
        BY <3>2, <3>3
      <3>5. j \in 1..(n + m + n) /\ n \in Nat /\ m \in Nat
        BY <2>2
      <3> QED
        BY <3>4, <3>5, PlaceInRequest
    <2>4. queue'[j].egg = p[at[k]]
      BY <2>2, <2>3, ActionFields
    <2>5. k \in DOMAIN queue' /\ k < j
      BY <2>2, <2>3
    <2> QED
      BY <2>2, <2>4, <2>5
  <1>5. ASSUME NEW n \in Names, RequestRemove(n) PROVE Fetched'
    <2>1. PICK e : queue' = <<Action("remove", e)>>
      BY <1>5 DEF RequestRemove
    <2>2. \A j \in DOMAIN queue' : queue'[j].op = "remove"
      BY <2>1, ActionFields
    <2> QED
      BY <2>2 DEF Fetched
  <1>6. CASE Ends \/ Continues \/ BeginRemove \/ EggStep
             \/ (BeginInstall /\ PreExtract(egg) /\ proc' = "egg" /\ UNCHANGED queue)
    BY <1>1, <1>2, <1>6 DEF Ends, Continues, BeginRemove, BeginInstall, EggStep
  <1>7. ASSUME queue # <<>>, NextAction,
               \/ cache' = cache \cup {egg}
               \/ cache' = cache /\ Head(queue).op # "fetch"
        PROVE  Fetched'
    <2> SUFFICES ASSUME NEW j \in DOMAIN queue', queue'[j].op = "install",
                        queue'[j].egg \notin cache'
                 PROVE  \E i \in DOMAIN queue' : i < j /\ queue'[i] = Action("fetch", queue'[j].egg)
      BY DEF Fetched
    <2>1. j \in Nat /\ j + 1 \in DOMAIN queue /\ queue'[j] = queue[j + 1]
      BY <1>7, RestOfQueue
    <2>2. PICK i \in DOMAIN queue : i < j + 1 /\ queue[i] = Action("fetch", queue'[j].egg)
      BY <1>7, <2>1 DEF Fetched
    <2>3. i # 1 /\ i \in Nat /\ i > 0 /\ 1 \in DOMAIN queue
      BY <1>7, <2>2, RestOfQueue, ActionFields DEF egg
    <2>4. 1 < i
      BY <2>3
    <2>5. i - 1 \in DOMAIN queue' /\ queue'[i - 1] = queue[i]
      BY <1>7, <2>3, <2>4, RestOfQueue
    <2> QED
      BY <2>1, <2>2, <2>3, <2>5
  <1>8. CASE (Fetch /\ NextAction /\ cache' = cache \cup {egg}) \/ (RemoveMissing /\ NextAction)
             \/ (PostRemove /\ NextAction) \/ (PostInstall /\ NextAction)
    BY <1>7, <1>8 DEF Fetch, RemoveMissing, PostRemove, PostInstall, Next1, EnpkgTypeOK
  <1>9. CASE UNCHANGED allVars
    BY <1>1, <1>9 DEF allVars, enpkgVars
  <1> QED
    BY <1>3, <1>4, <1>5, <1>6, <1>8, <1>9, NextKinds

-----------------------------------------------------------------------------
(* The plan *)

(* A planned egg is still to be installed, or installed for good.          *)
Delivered(e) == Settled(EggName[e]) => json[EggName[e]] = e
OnItsWay ==
    /\ proc = "down" => plan = <<>>
    /\ Alive => \A i \in DOMAIN plan :
        \/ \E k \in DOMAIN queue : queue[k] = Action("install", plan[i])
        \/ /\ Delivered(plan[i])
           /\ \A k \in DOMAIN queue :
                queue[k].op # "fetch" => EggName[queue[k].egg] # EggName[plan[i]]
Done == proc = "post" /\ Head(queue).op = "install" => Delivered(egg)

(* An installation whose steps are over has put the egg in place. *)
LEMMA NextDone ==
    ASSUME IInv, EnpkgTypeOK, AtWork, Done, [EnpkgNext]_allVars
    PROVE  Done'
  <1>1. CASE UNCHANGED allVars
    BY <1>1 DEF allVars, enpkgVars, vars, Done, Delivered, Settled, egg
  <1>2. CASE EggStep
    <2>1. queue' = queue /\ egg' = egg /\ proc = "egg" /\ (InstallStep \/ RemoveStep)
          /\ (proc' = "post" => pc' = "idle")
      BY <1>2 DEF EggStep, egg
    <2> SUFFICES ASSUME proc' = "post", Head(queue).op = "install" PROVE Delivered(egg)'
      BY <2>1 DEF Done
    <2>2. who = EggName[egg] /\ cur = egg /\ pc \in InstallSteps
      BY <2>1 DEF AtWork
    <2>3. json'[EggName[egg]] = egg
      BY <2>1, <2>2, EndOfOperation
    <2> QED
      BY <2>1, <2>3 DEF Delivered
  <1>3. CASE proc' \notin {"post"}
    BY <1>3 DEF Done
  <1>4. CASE BeginRemove \/ BeginInstall \/ EggRaises \/ Kill
    BY <1>4 DEF BeginRemove, BeginInstall, EggRaises, Kill, Raise, ProcessEnds, Done, Next1
  <1> QED
    BY <1>1, <1>2, <1>3, <1>4, NextCases

(* What a step that works on the first action does to the other packages.  *)
LEMMA OthersDelivered ==
    ASSUME IInv, EnpkgTypeOK, AtWork, NEW e \in Eggs, Delivered(e), EggName[e] # EggName[egg],
           \/ BeginRemove \/ EggStep
           \/ BeginInstall /\ PreExtract(egg)
    PROVE  Delivered(e)'
  <1>1. CASE BeginRemove \/ (BeginInstall /\ PreExtract(egg))
    <2>1. json' = json /\ pending'[EggName[e]] = pending[EggName[e]]
      BY <1>1, EggInstAssumption DEF BeginRemove, PreExtract, StartRemove, diskVars, IInv, TypeOK
    <2> QED
      BY <2>1 DEF Delivered, Settled
  <1>2. CASE EggStep
    <2>1. OnlyWho /\ who = EggName[egg]
      BY <1>2, EggActionOnlyWho DEF EggStep, IInv, EggAction, AtWork
    <2> QED
      BY <2>1, EggInstAssumption DEF Delivered, Settled, OnlyWho
  <1> QED
    BY <1>1, <1>2

(* The first action done, the plan is on its way as before.                *)
LEMMA OnItsWayRest ==
    ASSUME EnpkgTypeOK, queue # <<>>, NextAction, Alive, OnItsWay, UNCHANGED <<vars, plan>>,
           Ordered, Head(queue).op = "install" => Delivered(egg)
    PROVE  OnItsWay'
  <1> SUFFICES ASSUME NEW i \in DOMAIN plan,
                      ~ \E k \in DOMAIN queue' : queue'[k] = Action("install", plan[i])
               PROVE  /\ Delivered(plan[i])
                      /\ \A k \in DOMAIN queue' :
                            queue'[k].op # "fetch" => EggName[queue'[k].egg] # EggName[plan[i]]
    BY DEF OnItsWay, Delivered, Settled, vars, NextAction
  <1>1. CASE \E k \in DOMAIN queue : queue[k] = Action("install", plan[i])
    <2>1. PICK k \in DOMAIN queue : queue[k] = Action("install", plan[i])
      BY <1>1
    <2>2. k = 1
      <3> SUFFICES ASSUME k # 1 PROVE FALSE
        OBVIOUS
      <3>1. 1 < k /\ 1 \in DOMAIN queue
        BY RestOfQueue
      <3> QED
        BY <2>1, <3>1, RestOfQueue
    <2>3. Head(queue).op = "install" /\ egg = plan[i] /\ queue[1] = Head(queue) /\ 1 \in DOMAIN queue
      BY <2>1, <2>2, RestOfQueue, ActionFields DEF egg
    <2>4. ASSUME NEW l \in DOMAIN queue' PROVE EggName[queue'[l].egg] # EggName[plan[i]]
      <3>1. l \in Nat /\ l + 1 \in DOMAIN queue /\ queue'[l] = queue[l + 1] /\ l # 0
        BY RestOfQueue DEF NextAction, EnpkgTypeOK
      <3>2. 1 < l + 1
        BY <3>1
      <3> QED
        BY <2>3, <3>1, <3>2 DEF Ordered, MayPrecede, egg
    <2> QED
      BY <2>3, <2>4
  <1>2. CASE /\ Delivered(plan[i])
             /\ \A k \in DOMAIN queue :
                  queue[k].op # "fetch" => EggName[queue[k].egg] # EggName[plan[i]]
    BY <1>2, RestOfQueue
  <1> QED
    BY <1>1, <1>2 DEF OnItsWay

(* Every step keeps each package of the plan installed or in the queue. *)
LEMMA NextOnItsWay ==
    ASSUME IInv, EnpkgTypeOK, AtWork, InfoInPlace, InfoMatches, Ordered, Mirrored, OnItsWay, Done,
           [EnpkgNext]_allVars
    PROVE  OnItsWay'
  <1>1. CASE UNCHANGED <<vars, plan, queue>> /\ Alive /\ Alive'
    BY <1>1 DEF vars, OnItsWay, Delivered, Settled, Alive
  <1>2. CASE plan' = <<>>
    BY <1>2 DEF OnItsWay
  <1>3. CASE Ends
    BY <1>2, <1>3 DEF OnItsWay, Ends, Alive
  <1>4. CASE Boot
    BY <1>2, <1>4 DEF Boot, OnItsWay
  <1>5. ASSUME NEW p \in Plans, NEW force \in {"NONE", "MAIN_ONLY", "ALL"}, RequestInstall(p, force)
        PROVE  OnItsWay'
    <2>1. PICK n, m, at, back : IsRequest(p, n, m, at, back)
      BY <1>5, RequestProperties
    <2>2. /\ n \in Nat /\ m \in Nat /\ DOMAIN queue' = 1..(n + m + n)
          /\ at \in [1..n -> DOMAIN p] /\ back \in [1..m -> 1..n]
          /\ \A i \in 1..n : /\ queue'[i] = Action("fetch", p[at[i]])
                             /\ queue'[n + m + i] = Action("install", p[at[i]])
          /\ \A i \in 1..m : queue'[n + i].egg \in NamedIn(top, EggName[p[at[back[i]]]])
          /\ \A i \in DOMAIN p : top[p[i]] = 0 => \E k \in 1..n : at[k] = i
      BY <2>1 DEF IsRequest
    <2>3. plan' = p /\ UNCHANGED vars /\ proc = "ready" /\ proc' = "enter" /\ p \in Seq(Eggs)
      BY <1>5, EnpkgAssumption DEF RequestInstall
    <2> SUFFICES ASSUME NEW i \in DOMAIN p,
                        ~ \E k \in DOMAIN queue' : queue'[k] = Action("install", p[i])
                 PROVE  /\ Delivered(p[i])
                        /\ \A k \in DOMAIN queue' :
                             queue'[k].op # "fetch" => EggName[queue'[k].egg] # EggName[p[i]]
      BY <2>3 DEF OnItsWay, Delivered, Settled, vars
    <2>4. \A k \in 1..n : at[k] # i
      <3> SUFFICES ASSUME NEW k \in 1..n, at[k] = i PROVE FALSE
        OBVIOUS
      <3>1. n + m + k \in DOMAIN queue' /\ queue'[n + m + k] = Action("install", p[i])
        BY <2>2
      <3> QED
        BY <3>1
    <2>5. p[i] \in Eggs /\ top[p[i]] = 1
      <3>1. p[i] \in Eggs
        BY <2>3
      <3> QED
        BY <2>2, <2>3, <2>4, <3>1 DEF Mirrored, Alive
    <2>6. info[EggName[p[i]]] = p[i]
      BY <2>3, <2>5 DEF Mirrored, Alive, WorkingOn
    <2>7. Delivered(p[i])
      BY <2>5, <2>6, EggInstAssumption DEF InfoMatches, Delivered
    <2>8. \A k \in 1..n : EggName[p[at[k]]] # EggName[p[i]]
      BY <2>2, <2>4, EnpkgAssumption
    <2>9. ASSUME NEW k \in DOMAIN queue', queue'[k].op # "fetch"
          PROVE  EggName[queue'[k].egg] # EggName[p[i]]
      <3>1. CASE k \in 1..n
        <4>1. queue'[k] = Action("fetch", p[at[k]])
          BY <2>2, <3>1
        <4> QED
          BY <2>9, <4>1, ActionFields
      <3>2. ASSUME NEW l \in 1..m, k = n + l PROVE EggName[queue'[k].egg] # EggName[p[i]]
        <4>1. queue'[k].egg \in NamedIn(top, EggName[p[at[back[l]]]]) /\ back[l] \in 1..n
          BY <2>2, <3>2
        <4> QED
          BY <2>8, <4>1 DEF NamedIn, EggsOf
      <3>3. ASSUME NEW l \in 1..n, k = n + m + l PROVE EggName[queue'[k].egg] # EggName[p[i]]
        <4>1. queue'[k] = Action("install", p[at[l]])
          BY <2>2, <3>3
        <4> QED
          BY <2>8, <4>1, ActionFields
      <3>4. k \in 1..(n + m + n) /\ n \in Nat /\ m \in Nat
        BY <2>2
      <3> QED
        BY <3>1, <3>2, <3>3, <3>4, PlaceInRequest
    <2> QED
      BY <2>7, <2>9
  <1>6. ASSUME NEW n, RequestRemove(n) PROVE OnItsWay'
    BY <1>2, <1>6 DEF RequestRemove
  <1>7. CASE Continues
    BY <1>1, <1>2, <1>7 DEF Continues, Alive
  <1>8. CASE (Fetch /\ NextAction) \/ (RemoveMissing /\ NextAction)
    BY <1>8, OnItsWayRest DEF Fetch, RemoveMissing, Next1, Alive
  <1>9. CASE PostRemove /\ NextAction
    BY <1>9, OnItsWayRest DEF PostRemove, EnpkgTypeOK, Alive
  <1>10. CASE PostInstall /\ NextAction
    BY <1>10, OnItsWayRest DEF PostInstall, EnpkgTypeOK, Alive, Done
  <1>11. CASE BeginRemove \/ EggStep \/ (BeginInstall /\ PreExtract(egg) /\ proc' = "egg" /\ UNCHANGED queue)
    <2>1. /\ Alive /\ Alive' /\ queue' = queue /\ plan' = plan /\ queue # <<>>
          /\ Head(queue).op # "fetch"
      BY <1>11 DEF BeginRemove, BeginInstall, EggStep, Next1, Alive, EnpkgTypeOK
    <2>2. Head(queue) = queue[1] /\ 1 \in DOMAIN queue /\ egg = queue[1].egg
      BY <2>1, HeadOfQueue DEF EnpkgTypeOK, egg
    <2>3. ASSUME NEW i \in DOMAIN plan, Delivered(plan[i]),
                 \A k \in DOMAIN queue :
                    queue[k].op # "fetch" => EggName[queue[k].egg] # EggName[plan[i]]
          PROVE  Delivered(plan[i])'
      <3>1. EggName[plan[i]] # EggName[egg]
        BY <2>1, <2>2, <2>3
      <3>2. plan \in Seq(Eggs)
        BY EnpkgAssumption DEF EnpkgTypeOK
      <3>3. plan[i] \in Eggs
        BY <3>2
      <3>4. \A e \in Eggs : Delivered(e) /\ EggName[e] # EggName[egg] => (json'[EggName[e]] = e \/ pending'[EggName[e]] # Finished)
        BY <1>11, OthersDelivered DEF Delivered, Settled
      <3> QED
        BY <2>1, <2>3, <3>1, <3>3, <3>4 DEF Delivered, Settled
    <2> QED
      BY <2>1, <2>3 DEF OnItsWay, Alive
  <1>12. CASE UNCHANGED allVars
    BY <1>12 DEF allVars, enpkgVars, vars, OnItsWay, Delivered, Settled, Alive
  <1> QED
    BY <1>3, <1>4, <1>5, <1>6, <1>7, <1>8, <1>9, <1>10, <1>11, <1>12, NextKinds

-----------------------------------------------------------------------------
(* While a package is removed, no download is waiting (Ordered), so what   *)
(* is to be installed has been fetched.                                    *)
LEMMA FetchedFirst ==
    ASSUME EnpkgTypeOK, AtWork, Ordered, Fetched
    PROVE  FetchedBeforeRemoved
  <1> SUFFICES ASSUME pc \in RemoveSteps, NEW j \in DOMAIN queue, queue[j].op = "install",
                      queue[j].egg \notin cache
               PROVE  FALSE
    BY DEF FetchedBeforeRemoved
  <1>1. queue # <<>> /\ Head(queue).op = "remove"
    BY DEF AtWork, RemoveSteps, InstallSteps, EnpkgTypeOK
  <1>2. PICK i \in DOMAIN queue : queue[i] = Action("fetch", queue[j].egg)
    BY DEF Fetched
  <1>3. Head(queue) = queue[1] /\ 1 \in DOMAIN queue
    BY <1>1, HeadOfQueue DEF EnpkgTypeOK
  <1>4. queue[i].op = "fetch" /\ i # 1
    BY <1>1, <1>2, <1>3, ActionFields
  <1>5. 1 < i
    <2>1. DOMAIN queue = 1..Len(queue)
      BY DEF EnpkgTypeOK
    <2> QED
      BY <1>4, <2>1
  <1> QED
    BY <1>1, <1>3, <1>4, <1>5 DEF Ordered, MayPrecede

(* When the queue is empty, what was on its way has arrived. *)
LEMMA PlansDelivered ==
    ASSUME OnItsWay
    PROVE  PlanDelivered
  <1> SUFFICES ASSUME proc = "run", queue = <<>>, NEW i \in DOMAIN plan
               PROVE  Delivered(plan[i])
    BY DEF PlanDelivered, Delivered
  <1>1. \A k \in DOMAIN queue : FALSE
    OBVIOUS
  <1> QED
    BY <1>1 DEF OnItsWay, Alive

(* Between two operations the repository mirrors the disk, one package of  *)
(* a name.                                                                 *)
LEMMA FaithfulRepository ==
    ASSUME IInv, EnpkgTypeOK, InfoInPlace, Mirrored, OneOfAName
    PROVE  RepositoryFaithful
  <1> SUFFICES ASSUME proc \in {"ready", "enter", "run"}
               PROVE  /\ \A e \in Eggs :
                          /\ top[e] = IF e \in OnDisk THEN 1 ELSE 0
                          /\ all[e] \in top[e]..(top[e] + IF e \in Below THEN 1 ELSE 0)
                      /\ \A n \in Names : Cardinality(NamedIn(top, n)) < 2
    BY DEF RepositoryFaithful
  <1>1. \A e \in Eggs : top[e] = 1 <=> e \in OnDisk
    BY OnDiskMembers DEF Mirrored, Alive, WorkingOn
  <1>2. \A e \in Eggs : top[e] = IF e \in OnDisk THEN 1 ELSE 0
    BY <1>1 DEF Mirrored, Alive
  <1>3. \A e \in Eggs : all[e] \in top[e]..(top[e] + IF e \in Below THEN 1 ELSE 0)
    BY DEF Mirrored, Alive
  <1>4. ASSUME NEW n \in Names PROVE Cardinality(NamedIn(top, n)) < 2
    <2>1. CASE NamedIn(top, n) = {}
      BY <2>1, FS_EmptySet
    <2>2. CASE NamedIn(top, n) # {}
      <3>1. PICK e : e \in NamedIn(top, n)
        BY <2>2
      <3>2. NamedIn(top, n) = {e}
        BY <3>1 DEF NamedIn, EggsOf, OneOfAName, Alive
      <3>3. Cardinality({e}) = 1
        BY FS_Singleton
      <3> QED
        BY <3>2, <3>3
    <2> QED
      BY <2>1, <2>2
  <1> QED
    BY <1>2, <1>3, <1>4

-----------------------------------------------------------------------------
(* Dependents *)

(* Eggs without EGG-INFO/spec/depend get no _info.json: the Repository     *)
(* never sees them.                                                        *)
PlansHaveInfo == \A p \in Plans : \A i \in DOMAIN p : p[i] \in WithInfo

(* Every step keeps eggs without metadata out of the queue. *)
LEMMA NextQueueWithInfo ==
    ASSUME PlansHaveInfo, EnpkgTypeOK, QueueWithInfo, [EnpkgNext]_allVars
    PROVE  QueueWithInfo'
  <1>1. CASE queue' = queue
    BY <1>1 DEF QueueWithInfo
  <1>2. CASE queue' = <<>>
    BY <1>2 DEF QueueWithInfo
  <1>3. CASE queue # <<>> /\ NextAction
    BY <1>3, RestOfQueue DEF QueueWithInfo
  <1>4. ASSUME NEW p \in Plans, NEW force \in {"NONE", "MAIN_ONLY", "ALL"}, RequestInstall(p, force)
        PROVE  QueueWithInfo'
    <2>1. PICK n, m, at, back : IsRequest(p, n, m, at, back)
      BY <1>4, RequestProperties
    <2>2. /\ n \in Nat /\ m \in Nat /\ DOMAIN queue' = 1..(n + m + n)
          /\ at \in [1..n -> DOMAIN p]
          /\ \A i \in 1..m : queue'[n + i].op = "remove"
      BY <2>1 DEF IsRequest
    <2>3. \A i \in 1..n : /\ queue'[i] = Action("fetch", p[at[i]])
                          /\ queue'[n + m + i] = Action("install", p[at[i]])
      BY <2>1 DEF IsRequest
    <2>4. \A i \in 1..n : queue'[i].op = "fetch" /\ queue'[n + m + i].egg = p[at[i]]
      BY <2>3, ActionFields
    <2>5. \A i \in 1..n : p[at[i]] \in WithInfo
      BY <2>2 DEF PlansHaveInfo
    <2> SUFFICES ASSUME NEW k \in 1..(n + m + n), queue'[k].op = "install"
                 PROVE  queue'[k].egg \in WithInfo
      BY <2>2 DEF QueueWithInfo
    <2>6. PICK l \in 1..n : k = n + m + l
      <3>1. ~ k \in 1..n /\ ~ \E l \in 1..m : k = n + l
        BY <2>2, <2>4
      <3> QED
        BY <2>2, <3>1, PlaceInRequest
    <2> QED
      BY <2>4, <2>5, <2>6
  <1>5. ASSUME NEW n \in Names, RequestRemove(n) PROVE QueueWithInfo'
    <2>1. PICK e : queue' = <<Action("remove", e)>>
      BY <1>5 DEF RequestRemove
    <2>2. \A j \in DOMAIN queue' : queue'[j].op = "remove"
      BY <2>1, ActionFields
    <2> QED
      BY <2>2 DEF QueueWithInfo
  <1> QED
    BY <1>1, <1>2, <1>3, <1>4, <1>5, QueueStep

(* What a step of an egg does to its egginst.json.                         *)
LEMMA JsonOfWho ==
    ASSUME TypeOK, EggAction
    PROVE  pc \in RemoveSteps => json' = json \/ json'[who] = Absent
  <1> SUFFICES ASSUME pc \in RemoveSteps PROVE json' = json \/ json'[who] = Absent
    OBVIOUS
  <1> USE DEF RemoveSteps
  <1>1. CASE InstallStep
    BY <1>1 DEF InstallStep, Extract, Generate, EndExtract, PlaceholderHack, EndGenerate,
       CreateInfo, FixScripts, WriteMeta
  <1>2. CASE UnlinkJson
    <2>1. who \in Names /\ json \in [Names -> Content] /\ json' = [json EXCEPT ![who] = Absent]
      BY <1>2, EggInstAssumption DEF TypeOK, UnlinkJson, who
    <2> QED
      BY <2>1
  <1>3. ASSUME NEW p \in Paths, Unlink(p) PROVE json' = json
    BY <1>3 DEF Unlink
  <1>4. CASE RmDirs \/ RmInfo \/ RmMetaDir
    BY <1>4 DEF RmDirs, RmInfo, RmMetaDir
  <1>5. CASE Interrupt
    BY <1>5 DEF Interrupt, Stop, StopInFile, StopInInfo, StopInMeta, diskVars
  <1> QED
    BY <1>1, <1>2, <1>3, <1>4, <1>5 DEF EggAction, RemoveStep

(* No step of an egg breaks what is still to be replaced.                  *)
LEMMA NextDependentsFirst ==
    ASSUME IInv, EnpkgTypeOK, AtWork, InfoInPlace, JsonMatches, Ordered, Mirrored, Cleared,
           [EnpkgNext]_allVars, proc = "egg"
    PROVE  Broken' \cap Replaced \subseteq Broken
  <1>1. CASE UNCHANGED allVars
    BY <1>1 DEF allVars, enpkgVars, vars, Broken, Replaced, who
  <1> SUFFICES ASSUME EnpkgNext PROVE Broken' \cap Replaced \subseteq Broken
    BY <1>1
  <1>2. EggAction /\ (queue' = queue \/ (queue' = <<>> /\ pc' = "idle"))
    <2>1. CASE Kill
      BY <2>1 DEF Kill, EggAction, ProcessEnds, Interrupt, Stop, StopInFile, StopInInfo,
         StopInMeta, ForgetProcess
    <2>2. CASE EggStep \/ EggRaises
      BY <2>2 DEF EggStep, EggRaises, EggAction, Raise
    <2> QED
      BY <2>1, <2>2, NextCases DEF BeginRemove, BeginInstall, Next1
  <1>3. OnlyWho
    BY <1>2, EggActionOnlyWho DEF IInv
  <1>4. /\ queue # <<>> /\ who = EggName[egg] /\ egg \in Eggs /\ who \in Names
        /\ Head(queue) = queue[1] /\ 1 \in DOMAIN queue /\ egg = queue[1].egg
        /\ DOMAIN queue \subseteq Nat \ {0}
        /\ \A i \in DOMAIN queue : queue[i].egg \in Eggs /\ queue[i].op \in {"fetch", "remove", "install"}
    <2>1. \A i \in DOMAIN queue : queue[i] \in Actions
      BY DEF EnpkgTypeOK
    <2>2. DOMAIN queue = 1..Len(queue) /\ Len(queue) \in Nat
      BY DEF EnpkgTypeOK
    <2> QED
      BY <2>1, <2>2, HeadOfQueue DEF AtWork, EnpkgTypeOK, egg, Actions
  <1> DEFINE ToReplace == {EggName[queue[i].egg] : i \in DOMAIN queue}
  <1>5. Replaced = ToReplace
    BY <1>4 DEF Replaced
  <1>6. ToReplace \subseteq Names
    BY <1>4, EggInstAssumption
  <1>7. CASE queue' = <<>> /\ pc' = "idle"
    <2>1. cur' = Absent
      <3>1. TypeOK'
        BY EnpkgStep, NextTypeOK DEF IInv
      <3> QED
        BY <1>7, <3>1 DEF TypeOK
    <2>2. Replaced' = {}
      BY <1>7, <2>1 DEF Replaced
    <2> QED
      BY <2>2 DEF Broken
  <1>8. CASE queue' = queue
    <2> SUFFICES ASSUME NEW n \in ToReplace, NEW d \in DepNames[n] \cap Replaced',
                        json'[n] \in Eggs, json'[d] \notin Eggs
                 PROVE  n \in Broken
      BY <1>5 DEF Broken
    <2>1. d \in ToReplace /\ d \in Names /\ n \in Names
      <3>1. CASE pc' = "idle"
        <4>1. TypeOK'
          BY EnpkgStep, NextTypeOK DEF IInv
        <4>2. cur' = Absent
          BY <3>1, <4>1 DEF TypeOK
        <4> QED
          BY <1>6, <1>8, <4>2 DEF Replaced
      <3>2. CASE pc' # "idle"
        <4>1. cur' = cur
          BY <1>3, <3>2 DEF OnlyWho
        <4>2. Replaced' = Replaced
          BY <1>8, <4>1 DEF Replaced, who
        <4> QED
          BY <1>5, <1>6, <4>2
      <3> QED
        BY <3>1, <3>2
    <2>2. ASSUME NEW j \in DOMAIN queue, j # 1 PROVE MayPrecede(queue[1], queue[j])
      BY <1>4, <2>2 DEF Ordered
    <2>3. json[n] \in Eggs
      <3> SUFFICES ASSUME json[n] \notin Eggs PROVE FALSE
        OBVIOUS
      <3>1. n = who
        BY <1>3, <2>1 DEF OnlyWho
      <3>2. queue[1].op = "install"
        BY <1>2, <1>4, <3>1, JsonOfWho, EggInstAssumption DEF IInv, AtWork
      <3>3. PICK j \in DOMAIN queue : d = EggName[queue[j].egg]
        BY <2>1
      <3>4. j # 1
        BY <1>4, <3>1, <3>3
      <3> QED
        BY <1>4, <2>2, <3>1, <3>2, <3>3, <3>4 DEF MayPrecede
    <2>4. json[d] \notin Eggs
      <3> SUFFICES ASSUME json[d] \in Eggs PROVE FALSE
        OBVIOUS
      <3>1. d = who /\ n # d
        BY <1>3, <2>1 DEF OnlyWho
      <3>2. queue[1].op = "remove"
        BY <1>4, <3>1 DEF JsonMatches, AtWork
      <3>3. PICK j \in DOMAIN queue : n = EggName[queue[j].egg]
        OBVIOUS
      <3>4. j # 1
        BY <1>4, <3>1, <3>3
      <3>5. ASSUME NEW i \in DOMAIN queue, queue[i].op = "remove", EggName[queue[i].egg] = n
            PROVE  FALSE
        <4>1. i # 1
          BY <1>4, <3>1, <3>5
        <4> QED
          BY <1>4, <2>2, <3>1, <3>2, <3>5, <4>1 DEF MayPrecede
      <3>6. queue[j].op = "install"
        BY <1>4, <2>2, <3>2, <3>3, <3>4, <3>5 DEF MayPrecede
      <3> DEFINE f == json[n]
      <3>7. f \in Eggs /\ info[n] = f /\ EggName[f] = n
        BY <2>1, <2>3 DEF JsonMatches, InfoInPlace
      <3>8. f \in NamedIn(top, n)
        BY <1>4, <3>1, <3>7 DEF Mirrored, Alive, WorkingOn, NamedIn, EggsOf
      <3>9. PICK i \in DOMAIN queue : queue[i] = Action("remove", f)
        BY <3>3, <3>6, <3>8 DEF Cleared
      <3> QED
        BY <3>5, <3>7, <3>9, ActionFields
    <2> QED
      BY <1>5, <2>1, <2>3, <2>4 DEF Broken
  <1> QED
    BY <1>2, <1>7, <1>8

-----------------------------------------------------------------------------
(* The theorems *)

EnpkgIInv ==
    /\ IInv /\ EnpkgTypeOK /\ AtWork
    /\ InfoInPlace /\ InfoMatches
    /\ Mirrored /\ OneOfAName
    /\ Ordered /\ Cleared /\ Fetched
    /\ Done /\ OnItsWay

(* The invariant holds before the first process. *)
LEMMA InitEnpkgIInv == EnpkgInit => EnpkgIInv
  <1> SUFFICES ASSUME EnpkgInit PROVE EnpkgIInv
    OBVIOUS
  <1>1. IInv
    BY InitIInv DEF EnpkgInit
  <1>2. /\ proc = "down" /\ queue = <<>> /\ plan = <<>> /\ pc = "idle" /\ cache = {}
        /\ top = [e \in Eggs |-> 0] /\ all = [e \in Eggs |-> 0] /\ ~ retrying
        /\ info = [n \in Names |-> Absent] /\ retrying \in BOOLEAN
    BY DEF EnpkgInit, Init
  <1>3. EnpkgTypeOK
    BY <1>2 DEF EnpkgTypeOK
  <1>4. AtWork /\ InfoInPlace /\ InfoMatches
    BY <1>2, EggInstAssumption DEF AtWork, InfoInPlace, InfoMatches
  <1>5. Mirrored /\ OneOfAName /\ Done /\ OnItsWay
    BY <1>2 DEF Mirrored, OneOfAName, Done, OnItsWay, Alive
  <1>6. Ordered /\ Cleared /\ Fetched
    BY <1>2 DEF Ordered, Cleared, Fetched
  <1> QED
    BY <1>1, <1>3, <1>4, <1>5, <1>6 DEF EnpkgIInv

(* Every step keeps it. *)
LEMMA NextEnpkgIInv == EnpkgIInv /\ [EnpkgNext]_allVars => EnpkgIInv'
  <1> SUFFICES ASSUME EnpkgIInv, [EnpkgNext]_allVars PROVE EnpkgIInv'
    OBVIOUS
  <1> USE DEF EnpkgIInv
  <1>1. IInv'
    BY EnpkgStep, NextIInv
  <1>2. EnpkgTypeOK' /\ AtWork' /\ Ordered'
    BY NextEnpkgTypeOK, NextAtWork, NextOrdered
  <1>3. InfoInPlace' /\ InfoMatches'
    BY NextRecords
  <1>4. Mirrored' /\ OneOfAName' /\ Cleared'
    BY NextMirrored, NextCleared
  <1>5. Fetched' /\ Done' /\ OnItsWay'
    BY NextFetched, NextDone, NextOnItsWay
  <1> QED
    BY <1>1, <1>2, <1>3, <1>4, <1>5

(* The inductive invariant of enpkg, for any eggs, dependencies, plans     *)
(* and contents of the lower prefix.                                       *)
THEOREM EnpkgInvariant == EnpkgSpec => []EnpkgIInv
  BY InitEnpkgIInv, NextEnpkgIInv, PTL DEF EnpkgSpec

(* In a prefix that enpkg works on, with failing downloads, exceptions and *)
(* kills at every step, the records of a package whose last operation ran  *)
(* to its end agree, and its recorded files are on the disk. (InstallAction*)
(* and RemoveAction, over EggInst)                                         *)
THEOREM RecordsAgreeInEnpkg == EnpkgSpec => [](RecordsAgree /\ RecordedFilesPresent)
  BY EnpkgInvariant, PTL DEF EnpkgIInv, IInv

(* What a process of enpkg believes is installed is on the disk, whatever  *)
(* happened to the processes before it. (Repository._from_prefixes,        *)
(* add_package and delete_package in _post_install and iter_execute)       *)
THEOREM RepositoryIsFaithful == EnpkgSpec => []RepositoryFaithful
  <1>1. EnpkgIInv => RepositoryFaithful
    BY FaithfulRepository DEF EnpkgIInv
  <1> QED
    BY <1>1, EnpkgInvariant, PTL

(* While a package is removed, all that the command is to install is in    *)
(* the download cache: a download that fails does not cost an installed    *)
(* package. (install_req, Solver._install_actions)                         *)
THEOREM EggsFetchedFirst == EnpkgSpec => []FetchedBeforeRemoved
  <1>1. EnpkgIInv => FetchedBeforeRemoved
    BY FetchedFirst DEF EnpkgIInv
  <1> QED
    BY <1>1, EnpkgInvariant, PTL

(* When a command has worked off its queue, each package that was planned  *)
(* is installed, its records agree and its files are there, with --force   *)
(* or without. (Solver._install_actions, Enpkg.execute)                    *)
THEOREM PlanIsDelivered == EnpkgSpec => []PlanDelivered
  <1>1. EnpkgIInv => PlanDelivered
    BY PlansDelivered DEF EnpkgIInv
  <1> QED
    BY <1>1, EnpkgInvariant, PTL

(* If what is planned has metadata, a step on one egg breaks no package    *)
(* but the ones that are replaced or that were broken.                     *)
(* (Solver._install_actions: removals in the reverse order of the          *)
(* installations)                                                          *)
THEOREM DependentsAreFirst == ASSUME PlansHaveInfo PROVE EnpkgSpec => DependentsFirst
  <1> DEFINE Informed == JsonMatches /\ QueueWithInfo
  <1>1. EnpkgInit => Informed
    BY EggInstAssumption DEF EnpkgInit, Init, JsonMatches, QueueWithInfo, InstallSteps
  <1>2. EnpkgIInv /\ Informed /\ [EnpkgNext]_allVars => Informed'
    BY NextRecords, NextQueueWithInfo DEF EnpkgIInv
  <1>3. EnpkgIInv /\ Informed /\ [EnpkgNext]_allVars =>
          [proc = "egg" => Broken' \cap Replaced \subseteq Broken]_allVars
    BY NextDependentsFirst DEF EnpkgIInv
  <1> HIDE DEF Informed
  <1>4. EnpkgSpec => []Informed
    BY <1>1, <1>2, EnpkgInvariant, PTL DEF EnpkgSpec
  <1> QED
    BY <1>3, <1>4, EnpkgInvariant, PTL DEF EnpkgSpec, DependentsFirst
=============================================================================
