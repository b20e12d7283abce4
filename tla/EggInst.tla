------------------------------ MODULE EggInst ------------------------------
(***************************************************************************)
(* egginst/main.py: the installer of single eggs into one prefix, and the  *)
(* remover of what it installed, file system step by file system step.     *)
(*                                                                         *)
(* An installed package leaves two records in its metadata directory       *)
(* EGG-INFO/<name>: `_info.json' (eggmeta.create_info), from which         *)
(* enstaller's Repository learns what is installed, and `egginst.json'     *)
(* (EggInst._write_meta), from which the history, get_installed and the    *)
(* remover learn it.  No step below is atomic with the next one: the       *)
(* process may be killed, an exception may leave the generator, or the     *)
(* consumer of install_iterator / remove_iterator may stop iterating.      *)
(*                                                                         *)
(* Abstractions.  A path stands for an installed file outside the metadata *)
(* directory (a .py stands for its .pyc and .pyo too); its content is the  *)
(* egg that wrote it.  Archive order is left open: the files of a phase    *)
(* are written, and unlinked, in any order.  The egg's scripts and menu    *)
(* items (post_egginst.py, pre_egguninst.py, appinst) are external and     *)
(* touch no state of the model.                                            *)
(***************************************************************************)
EXTENDS FiniteSets

CONSTANTS
    Eggs,       \* egg files that may be installed (a name and a version)
    Names,      \* lower-case project names (cname): one metadata dir each
    Paths,      \* the files that may be installed in the prefix
    EggName,    \* EggName[e]: the cname of egg e
    Payload,    \* Payload[e]: where the members of archive e are extracted
    Generated,  \* Generated[e]: symlinks, entry points and proxies of e
    WithInfo,   \* the eggs with EGG-INFO/spec/depend or EGG-INFO/info.json
    Absent,     \* no such file, or no egg
    Torn        \* a file that was opened for writing and never completed

ASSUME EggInstAssumption ==
    /\ EggName \in [Eggs -> Names]
    /\ Payload \in [Eggs -> SUBSET Paths]
    /\ Generated \in [Eggs -> SUBSET Paths]
    /\ WithInfo \subseteq Eggs
    /\ Absent \notin Eggs /\ Torn \notin Eggs /\ Absent # Torn

VARIABLES
    metaDir,    \* the names whose metadata directory exists
    info,       \* info[n]: _info.json of n
    json,       \* json[n]: "egg_name" in egginst.json of n
    manifest,   \* manifest[n]: "files" in egginst.json of n
    described,  \* the names in whose metadata directory, since it was made, an
                \* egg of WithInfo was begun, to the end or not
    disk,       \* disk[p]: the egg whose file is at p
    pc,         \* the step the running process is at
    cur,        \* the egg being installed, or whose record is being removed
    todo,       \* the paths the current loop has not handled yet
    written,    \* EggInst.files: the paths installed so far
    pending,    \* pending[n]: the last operation begun on n, if not finished
    retrying    \* is an operation that was interrupted asked for again?

diskVars == <<metaDir, info, json, manifest, described, disk>>
procVars == <<pc, cur, todo, written>>
vars == <<metaDir, info, json, manifest, described, disk, pc, cur, todo, written, pending, retrying>>

Content == Eggs \cup {Absent, Torn}
Files(e) == Payload[e] \cup Generated[e]
InstallSteps == {"extract", "hack", "generate", "info", "fix", "meta"}
RemoveSteps == {"unlink", "unlinkJson", "rmDirs", "rmInfo", "rmMetaDir"}
Operation == [kind : {"install", "remove"}, egg : Eggs]
Finished == [kind |-> "none", egg |-> Absent]

(* The name the running process works on. *)
who == EggName[cur]

Init ==
    /\ metaDir = {}
    /\ info = [n \in Names |-> Absent]
    /\ json = [n \in Names |-> Absent]
    /\ manifest = [n \in Names |-> {}]
    /\ described = {}
    /\ disk = [p \in Paths |-> Absent]
    /\ pc = "idle" /\ cur = Absent /\ todo = {} /\ written = {}
    /\ pending = [n \in Names |-> Finished]
    /\ retrying \in BOOLEAN

-----------------------------------------------------------------------------
(* Installation *)

(* pre_extract creates the metadata directory if it is not there; what an  *)
(* earlier installation left in it stays.                                  *)
PreExtract(e) ==
    /\ pc = "idle"
    /\ metaDir' = metaDir \cup {EggName[e]}
    /\ pc' = "extract" /\ cur' = e /\ todo' = Payload[e] /\ written' = {}
    /\ pending' = [pending EXCEPT ![EggName[e]] = [kind |-> "install", egg |-> e]]
    /\ described' = IF e \in WithInfo THEN described \cup {EggName[e]}
                    ELSE described \cap metaDir
    /\ UNCHANGED <<info, json, manifest, disk>>

(* Mutant of Extract: a file that is there already is not written again. *)
ExtractMissingOnly(p) ==
    /\ pc = "extract" /\ p \in todo
    /\ disk' = IF disk[p] = Absent THEN [disk EXCEPT ![p] = cur] ELSE disk
    /\ todo' = todo \ {p} /\ written' = written \cup {p}
    /\ UNCHANGED <<described, metaDir, info, json, manifest, pc, cur, pending>>

(* _write_arcname, _write_egg_info_arcname: extract_to overwrites. *)
Extract(p) ==
    /\ pc = "extract" /\ p \in todo
    /\ disk' = [disk EXCEPT ![p] = cur]
    /\ todo' = todo \ {p} /\ written' = written \cup {p}
    /\ UNCHANGED <<described, metaDir, info, json, manifest, pc, cur, pending>>

EndExtract ==
    /\ pc = "extract" /\ todo = {}
    /\ pc' = "hack"
    /\ UNCHANGED <<diskVars, cur, todo, written, pending>>

(* apply_placeholder_hack patches the object files in place. *)
PlaceholderHack ==
    /\ pc = "hack"
    /\ pc' = "generate" /\ todo' = Generated[cur]
    /\ UNCHANGED <<diskVars, cur, written, pending>>

(* Mutant of Generate: what is generated is not added to self.files. *)
GenerateUnrecorded(p) ==
    /\ pc = "generate" /\ p \in todo
    /\ disk' = [disk EXCEPT ![p] = cur]
    /\ todo' = todo \ {p}
    /\ UNCHANGED <<described, metaDir, info, json, manifest, pc, cur, written, pending>>

(* create_link, _write_script, _write_exe, the copies of create_proxies:   *)
(* each removes its destination and writes it anew.                        *)
Generate(p) ==
    /\ pc = "generate" /\ p \in todo
    /\ disk' = [disk EXCEPT ![p] = cur]
    /\ todo' = todo \ {p} /\ written' = written \cup {p}
    /\ UNCHANGED <<described, metaDir, info, json, manifest, pc, cur, pending>>

EndGenerate ==
    /\ pc = "generate" /\ todo = {}
    /\ pc' = IF cur \in WithInfo THEN "info" ELSE "fix"
    /\ UNCHANGED <<diskVars, cur, todo, written, pending>>

(* Mutant of CreateInfo: an _info.json that is there is kept. *)
CreateInfoOnce ==
    /\ pc = "info"
    /\ info' = IF info[who] = Absent THEN [info EXCEPT ![who] = cur] ELSE info
    /\ pc' = "fix"
    /\ UNCHANGED <<described, metaDir, json, manifest, disk, cur, todo, written, pending>>

CreateInfo ==
    /\ pc = "info"
    /\ info' = [info EXCEPT ![who] = cur]
    /\ pc' = "fix"
    /\ UNCHANGED <<described, metaDir, json, manifest, disk, cur, todo, written, pending>>

(* fix_scripts rewrites the #! line of scripts in place. *)
FixScripts ==
    /\ pc = "fix"
    /\ pc' = "meta"
    /\ UNCHANGED <<diskVars, cur, todo, written, pending>>

(* _write_meta records self.files; the installation is complete. *)
WriteMeta ==
    /\ pc = "meta"
    /\ json' = [json EXCEPT ![who] = cur]
    /\ manifest' = [manifest EXCEPT ![who] = written]
    /\ pending' = [pending EXCEPT ![who] = Finished]
    /\ pc' = "idle" /\ cur' = Absent /\ todo' = {} /\ written' = {}
    /\ UNCHANGED <<described, metaDir, info, disk>>

-----------------------------------------------------------------------------
(* Removal *)

(* Is there anything to remove, and can its record be read?  Without a     *)
(* metadata directory the remover logs an error and returns; with one but  *)
(* without a readable egginst.json, installed_size and files raise.        *)
IsInstalled(n) == n \in metaDir
Readable(n) == json[n] \in Eggs

StartRemove(n) ==
    /\ pc = "idle" /\ IsInstalled(n) /\ Readable(n)
    /\ pc' = "unlink" /\ cur' = json[n] /\ todo' = manifest[n] /\ written' = {}
    /\ pending' = [pending EXCEPT ![n] = [kind |-> "remove", egg |-> json[n]]]
    /\ UNCHANGED diskVars

(* One turn of the loop of remove_iterator: rm_rf of the next file. *)
Unlink(p) ==
    /\ pc = "unlink" /\ p \in todo
    /\ disk' = [disk EXCEPT ![p] = Absent]
    /\ todo' = todo \ {p}
    /\ UNCHANGED <<described, metaDir, info, json, manifest, pc, cur, written, pending>>

(* egginst.json is the last file of the list it holds. *)
UnlinkJson ==
    /\ pc = "unlink" /\ todo = {}
    /\ json' = [json EXCEPT ![who] = Absent]
    /\ manifest' = [manifest EXCEPT ![who] = {}]
    /\ pc' = "rmDirs"
    /\ UNCHANGED <<described, metaDir, info, disk, cur, todo, written, pending>>

(* _rm_dirs removes the directories that are empty now, which the metadata *)
(* directory is when it has no _info.json.                                 *)
RmDirs ==
    /\ pc = "rmDirs"
    /\ metaDir' = IF info[who] = Absent THEN metaDir \ {who} ELSE metaDir
    /\ pc' = "rmInfo"
    /\ UNCHANGED <<described, info, json, manifest, disk, cur, todo, written, pending>>

(* rm_rf(meta_dir): what is in the directory goes first, then the          *)
(* directory.                                                              *)
RmInfo ==
    /\ pc = "rmInfo"
    /\ info' = [info EXCEPT ![who] = Absent]
    /\ pc' = "rmMetaDir"
    /\ UNCHANGED <<described, metaDir, json, manifest, disk, cur, todo, written, pending>>

RmMetaDir ==
    /\ pc = "rmMetaDir"
    /\ metaDir' = metaDir \ {who}
    /\ pending' = [pending EXCEPT ![who] = Finished]
    /\ pc' = "idle" /\ cur' = Absent /\ todo' = {} /\ written' = {}
    /\ UNCHANGED <<described, info, json, manifest, disk>>

-----------------------------------------------------------------------------
(* The process stops: it is killed, an exception leaves the generator (a   *)
(* placeholder too short, a full disk), or its consumer drops it.  A file  *)
(* it was writing is then as it was, gone (where the step removes it       *)
(* first) or torn.                                                         *)

ForgetProcess ==
    /\ pc' = "idle" /\ cur' = Absent /\ todo' = {} /\ written' = {}
    /\ UNCHANGED pending

Stop ==
    /\ pc # "idle"
    /\ ForgetProcess
    /\ UNCHANGED diskVars

(* The paths a stop at this step may leave torn, and those it may leave    *)
(* without a file.                                                         *)
TearablePaths ==
    CASE pc \in {"extract", "generate"} -> todo
      [] pc \in {"hack", "fix"}         -> written
      [] OTHER                          -> {}

StopInFile(p, c) ==
    /\ p \in TearablePaths
    /\ c \in IF pc = "generate" THEN {Torn, Absent} ELSE {Torn}
    /\ disk' = [disk EXCEPT ![p] = c]
    /\ ForgetProcess
    /\ UNCHANGED <<described, metaDir, info, json, manifest>>

StopInInfo ==
    /\ pc = "info"
    /\ info' = [info EXCEPT ![who] = Torn]
    /\ ForgetProcess
    /\ UNCHANGED <<described, metaDir, json, manifest, disk>>

StopInMeta ==
    /\ pc = "meta"
    /\ json' = [json EXCEPT ![who] = Torn]
    /\ manifest' = [manifest EXCEPT ![who] = {}]
    /\ ForgetProcess
    /\ UNCHANGED <<described, metaDir, info, disk>>

-----------------------------------------------------------------------------
InstallStep ==
    \/ \E p \in Paths : Extract(p) \/ Generate(p)
    \/ EndExtract \/ PlaceholderHack \/ EndGenerate
    \/ CreateInfo \/ FixScripts \/ WriteMeta

RemoveStep ==
    \/ \E p \in Paths : Unlink(p)
    \/ UnlinkJson \/ RmDirs \/ RmInfo \/ RmMetaDir

Interrupt ==
    \/ Stop
    \/ \E p \in Paths, c \in {Torn, Absent} : StopInFile(p, c)
    \/ StopInInfo \/ StopInMeta

(* `egginst' lets one install any egg over anything.  When it is used the   *)
(* way enpkg uses it, an egg is installed where nothing is installed, and  *)
(* an operation that was interrupted is asked for again; a removal that    *)
(* cannot read its record any more cannot be asked for again, and an       *)
(* installation takes its place.                                           *)
MayInstall(e) ==
    retrying =>
        LET n == EggName[e] IN
        \/ pending[n] = Finished /\ n \notin metaDir
        \/ pending[n] = [kind |-> "install", egg |-> e]
        \/ pending[n].kind = "remove" /\ ~ Readable(n)

MayRemove(n) == retrying => pending[n].kind # "install"

Next ==
    /\ \/ \E e \in Eggs : MayInstall(e) /\ PreExtract(e)
       \/ \E n \in Names : MayRemove(n) /\ StartRemove(n)
       \/ InstallStep \/ RemoveStep \/ Interrupt
    /\ UNCHANGED retrying

Spec == Init /\ [][Next]_vars

-----------------------------------------------------------------------------
(* Properties *)

Settled(n) == pending[n] = Finished
EggsOf(n) == {e \in Eggs : EggName[e] = n}

(* p is installed by eggs of one name only. *)
Unshared(p) ==
    \A e, f \in Eggs : p \in Files(e) /\ p \in Files(f) => EggName[e] = EggName[f]

TypeOK ==
    /\ metaDir \subseteq Names
    /\ info \in [Names -> Content]
    /\ json \in [Names -> Content]
    /\ manifest \in [Names -> SUBSET Paths]
    /\ described \subseteq Names
    /\ disk \in [Paths -> Content]
    /\ pc \in {"idle"} \cup InstallSteps \cup RemoveSteps
    /\ cur \in IF pc = "idle" THEN {Absent} ELSE Eggs
    /\ todo \in SUBSET Paths
    /\ written \in SUBSET Paths
    /\ pending \in [Names -> Operation \cup {Finished}]
    /\ retrying \in BOOLEAN

(* The records of a package, and its metadata directory, whenever its last *)
(* operation ran to its end, however many operations on it and on others   *)
(* were interrupted before: there is a directory just when the history and *)
(* the remover know a package, and the Repository knows the same one, if   *)
(* it has metadata for enstaller.  If it has none the Repository knows no  *)
(* package, with one exception: where an egg with such metadata was begun  *)
(* in the same directory and never removed, its _info.json stays, or a     *)
(* part of it.  (create_info, _write_meta, remove_iterator)                *)
RecordsAgree ==
    \A n \in Names : Settled(n) =>
        /\ n \in metaDir <=> Readable(n)
        /\ n \notin metaDir => info[n] = Absent /\ json[n] = Absent
        /\ json[n] \in WithInfo => info[n] = json[n]
        /\ n \notin described /\ json[n] \notin WithInfo => info[n] = Absent

(* Every file a finished installation recorded is on the disk, whole and   *)
(* written by the recorded egg, until another operation on the package is  *)
(* begun: no operation on another package that shares none of its files    *)
(* reaches them.  (_write_meta after the whole of install_iterator)        *)
RecordedFilesPresent ==
    \A n \in Names : Settled(n) /\ Readable(n) =>
        /\ Files(json[n]) = manifest[n]
        /\ \A p \in manifest[n] : Unshared(p) => disk[p] = json[n]

(* There is something of package n at p: a file of one of its eggs, or one *)
(* torn by it and by no other package.                                     *)
Leftover(n, p) ==
    \/ disk[p] \in EggsOf(n)
    \/ disk[p] = Torn /\ Unshared(p) /\ \E e \in EggsOf(n) : p \in Files(e)

(* When interrupted operations are asked for again, nothing of a package   *)
(* outlives the end of an operation on it unrecorded: the record that the  *)
(* next removal reads names every file that any of the attempts left, and  *)
(* without a record there is no file.  (_write_meta, remove_iterator)      *)
NoFileLeftBehind ==
    retrying => \A n \in Names, p \in Paths :
        Settled(n) /\ Leftover(n, p) => p \in manifest[n]
=============================================================================
