------------------------------- MODULE Repair -------------------------------
(***************************************************************************)
(* egginst/repair_broken_egg_info.py (enpkg-repair): old versions of       *)
(* enstaller left, in place of the directory site-packages/<egg>.egg-info  *)
(* that setuptools expects, a file or a directory without metadata.  The   *)
(* script makes the directory anew from the EGG-INFO/<name> directory of   *)
(* each installed egg: copies into a working directory, then two renames,  *)
(* then a clean-up.  Any exception of an egg is swallowed, with its        *)
(* working directory removed, and the script goes on with the next egg.    *)
(* The process may be killed between any two steps, and be run again.      *)
(*                                                                         *)
(* Abstractions.  A directory is the set of the files in it, where a file  *)
(* that was not copied to its end counts as none: every run copies all of  *)
(* them again.  The eggs are repaired in any order (the code sorts them).  *)
(***************************************************************************)
EXTENDS FiniteSets

CONSTANTS
    Eggs,       \* the eggs that get_installed finds in the prefix
    Members,    \* the names of the files of a metadata directory
    PkgInfo,    \* "PKG-INFO"
    EggJson,    \* "egginst.json"
    Source,     \* Source[e]: the files in EGG-INFO/<name of e>
    BlackList,  \* the files that R_EGG_INFO_BLACK_LIST keeps out
    Nested      \* the files in a subdirectory

ASSUME RepairAssumption ==
    /\ PkgInfo \in Members /\ EggJson \in Members
    /\ Source \in [Eggs -> SUBSET Members]
    /\ \A e \in Eggs : EggJson \in Source[e]
    /\ BlackList \subseteq Members /\ Nested \subseteq Members
    /\ PkgInfo \notin BlackList \cup Nested /\ EggJson \notin BlackList \cup Nested

VARIABLES
    found,      \* found[e]: <egg>.egg-info as old versions left it
    dest,       \* dest[e]: <egg>.egg-info
    wdir,       \* wdir[e]: <egg>.egg-info.wdir, the working directory
    bak,        \* bak[e]: <egg>.egg-info.bak, the original while it is replaced
    pc,         \* the step the script is at
    cur,        \* the eggs being repaired (one or none)
    todo,       \* the eggs not looked at yet
    left,       \* the files not copied yet
    failed      \* the eggs the latest run undid, or did not come to

entries == <<dest, wdir, bak>>
vars == <<found, dest, wdir, bak, pc, cur, todo, left, failed>>

(* What may be at a path: nothing, a file, or a directory; and is the text *)
(* of the original file there?                                             *)
Nothing == [kind |-> "none", has |-> {}, text |-> "none"]
File == [kind |-> "file", has |-> {}, text |-> "old"]
Directory(s, t) == [kind |-> "dir", has |-> s, text |-> t]
Dir(s) == Directory(s, "none")
Entry == [kind : {"none", "file", "dir"}, has : SUBSET Members, text : {"none", "old"}]

Found == {Nothing, File} \cup {Dir(s) : s \in SUBSET Members}

(* should_copy_in_egg_info, as every egg is taken for a custom one. *)
Copied(e) == Source[e] \ BlackList

Init ==
    /\ found \in [Eggs -> Found]
    /\ dest = found
    /\ wdir = [e \in Eggs |-> Nothing]
    /\ bak = [e \in Eggs |-> Nothing]
    /\ pc = "idle" /\ cur = {} /\ todo = {} /\ left = {} /\ failed = Eggs

-----------------------------------------------------------------------------
(* repair: the loop over the installed eggs *)

Start ==
    /\ pc = "idle"
    /\ pc' = "next" /\ todo' = Eggs /\ failed' = {}
    /\ UNCHANGED <<found, entries, cur, left>>

(* Mutant of NeedsRepair: a file is not looked into. *)
DirNeedsRepair(e) ==
    dest[e].kind = "dir" /\ dest[e].has \cap {PkgInfo, EggJson} = {}

NeedsRepair(e) ==
    \/ dest[e].kind = "file"
    \/ dest[e].kind = "dir" /\ dest[e].has \cap {PkgInfo, EggJson} = {}

Skip(e) ==
    /\ pc = "next" /\ e \in todo /\ ~ NeedsRepair(e)
    /\ todo' = todo \ {e}
    /\ UNCHANGED <<found, entries, pc, cur, left, failed>>

(* makedirs(working_dir): the one a killed run left is taken as it is. *)
Begin(e) ==
    /\ pc = "next" /\ e \in todo /\ NeedsRepair(e)
    /\ wdir' = [wdir EXCEPT ![e] = Directory(wdir[e].has, wdir[e].text)]
    /\ todo' = todo \ {e} /\ cur' = {e} /\ left' = Copied(e)
    /\ pc' = "copy"
    /\ UNCHANGED <<found, dest, bak, failed>>

End ==
    /\ pc = "next" /\ todo = {}
    /\ pc' = "idle"
    /\ UNCHANGED <<found, entries, cur, todo, left, failed>>

-----------------------------------------------------------------------------
(* _repair_package_dir *)

(* _in_place_repair: shutil.copy makes no directories, so that a file of a *)
(* subdirectory cannot be copied.                                          *)
Copy(e, f) ==
    /\ pc = "copy" /\ e \in cur /\ f \in left \ Nested
    /\ wdir' = [wdir EXCEPT ![e] = Directory(wdir[e].has \cup {f}, wdir[e].text)]
    /\ left' = left \ {f}
    /\ UNCHANGED <<found, dest, bak, pc, cur, todo, failed>>

(* Mutant of FixPkgInfo: the file is not looked for. *)
FixPkgInfoNever(e) ==
    /\ pc = "copy" /\ e \in cur /\ left = {}
    /\ pc' = "backup"
    /\ UNCHANGED <<found, dest, wdir, bak, cur, todo, left, failed>>

(* _fix_pkg_info_file *)
FixPkgInfo(e) ==
    /\ pc = "copy" /\ e \in cur /\ left = {}
    /\ wdir' = IF dest[e].kind = "file"
               THEN [wdir EXCEPT ![e] = Directory(wdir[e].has \cup {PkgInfo}, "old")]
               ELSE wdir
    /\ pc' = "backup"
    /\ UNCHANGED <<found, dest, bak, cur, todo, left, failed>>

(* Mutant of BackUp: the original is removed instead of set aside. *)
RemoveOriginal(e) ==
    /\ pc = "backup" /\ e \in cur
    /\ dest' = [dest EXCEPT ![e] = Nothing]
    /\ pc' = "move"
    /\ UNCHANGED <<found, wdir, bak, cur, todo, left, failed>>

(* The first rename.  It raises where something is in the way. *)
BackUp(e) ==
    /\ pc = "backup" /\ e \in cur /\ bak[e] = Nothing
    /\ bak' = [bak EXCEPT ![e] = dest[e]]
    /\ dest' = [dest EXCEPT ![e] = Nothing]
    /\ pc' = "move"
    /\ UNCHANGED <<found, wdir, cur, todo, left, failed>>

(* The second rename. *)
Move(e) ==
    /\ pc = "move" /\ e \in cur
    /\ dest' = [dest EXCEPT ![e] = wdir[e]]
    /\ wdir' = [wdir EXCEPT ![e] = Nothing]
    /\ pc' = "clean"
    /\ UNCHANGED <<found, bak, cur, todo, left, failed>>

(* rm_rf(temp_dir) *)
CleanUp(e) ==
    /\ pc = "clean" /\ e \in cur
    /\ bak' = [bak EXCEPT ![e] = Nothing]
    /\ pc' = "next" /\ cur' = {}
    /\ UNCHANGED <<found, dest, wdir, todo, left, failed>>

(* A copy or a rename raises (a full disk, a file in use, Ctrl-C), as the  *)
(* copy of a nested file always does.                                      *)
Raise ==
    /\ pc \in {"copy", "backup", "move"}
    /\ pc' = "undo" /\ left' = {}
    /\ UNCHANGED <<found, entries, cur, todo, failed>>

(* except BaseException: rm_rf(working_dir), and nobody is told. *)
Undo(e) ==
    /\ pc = "undo" /\ e \in cur
    /\ wdir' = [wdir EXCEPT ![e] = Nothing]
    /\ pc' = "next" /\ cur' = {} /\ failed' = failed \cup {e}
    /\ UNCHANGED <<found, dest, bak, todo, left>>

-----------------------------------------------------------------------------
(* The script is killed.  A directory being removed has lost some files.   *)
Partly(x) ==
    {Nothing} \cup IF x.kind = "dir" THEN {Directory(s, x.text) : s \in SUBSET x.has} ELSE {}

Kill ==
    /\ pc # "idle"
    /\ \/ UNCHANGED entries
       \/ /\ pc = "undo"
          /\ \E e \in cur : \E x \in Partly(wdir[e]) : wdir' = [wdir EXCEPT ![e] = x]
          /\ UNCHANGED <<dest, bak>>
       \/ /\ pc = "clean"
          /\ \E e \in cur : \E x \in Partly(bak[e]) : bak' = [bak EXCEPT ![e] = x]
          /\ UNCHANGED <<dest, wdir>>
    /\ pc' = "idle" /\ cur' = {} /\ todo' = {} /\ left' = {}
    /\ failed' = failed \cup cur \cup todo
    /\ UNCHANGED found

Next ==
    \/ Start \/ End \/ Raise \/ Kill
    \/ \E e \in Eggs : \/ Skip(e) \/ Begin(e) \/ FixPkgInfo(e) \/ BackUp(e)
                       \/ Move(e) \/ CleanUp(e) \/ Undo(e)
    \/ \E e \in Eggs, f \in Members : Copy(e, f)

Spec == Init /\ [][Next]_vars

-----------------------------------------------------------------------------
(* Properties *)

TypeOK ==
    /\ found \in [Eggs -> Found]
    /\ dest \in [Eggs -> Entry] /\ wdir \in [Eggs -> Entry] /\ bak \in [Eggs -> Entry]
    /\ pc \in {"idle", "next", "copy", "backup", "move", "clean", "undo"}
    /\ cur \in SUBSET Eggs /\ todo \in SUBSET Eggs /\ failed \in SUBSET Eggs
    /\ left \in SUBSET Members

(* The directory setuptools expects, with the original file as PKG-INFO. *)
Repaired(e) ==
    IF found[e].kind = "file"
    THEN Directory(Copied(e) \cup {PkgInfo}, "old")
    ELSE Dir(Copied(e))

(* "We do the transformation in a temporary directory we then move to the  *)
(* final destination to avoid putting stalled .egg-info directories":      *)
(* wherever runs raise or are killed, what is at <egg>.egg-info is what    *)
(* was found, or wholly repaired, or nothing.  (_repair_package_dir)       *)
NeverHalfRepaired == \A e \in Eggs : dest[e] \in {found[e], Repaired(e), Nothing}

(* What was found is never lost before it is replaced: it is in its place, *)
(* or set aside, or its replacement is complete.  In the second case no    *)
(* run will ever bring it back, as needs_repair sees nothing to repair.    *)
(* (the renames, rm_rf of the one and the other directory)                 *)
OriginalKept ==
    \A e \in Eggs : found[e] \in {dest[e], bak[e]} \/ dest[e] = Repaired(e)

(* At the end of a run each egg that it did not fail on silently has its   *)
(* metadata, or no .egg-info at all.  (needs_repair, repair)               *)
RepairedAtEnd ==
    pc = "idle" => \A e \in Eggs \ failed :
        \/ dest[e] = Nothing
        \/ dest[e].kind = "dir" /\ dest[e].has \cap {PkgInfo, EggJson} # {}
=============================================================================
