---------------------------- MODULE RepairProofs ----------------------------
(***************************************************************************)
(* For any eggs with any files, and whatever old versions left: what the   *)
(* repair script replaces is whole, and nothing is lost.                   *)
(***************************************************************************)
EXTENDS Repair, TLAPS

(* A working directory holds nothing but what the repaired one will. *)
Working(e) ==
    /\ wdir[e].kind \in {"none", "dir"}
    /\ wdir[e].has \subseteq Repaired(e).has
    /\ wdir[e].text = "old" => found[e].kind = "file"

(* How far the repair of the current egg has come. *)
Reached(e) ==
    /\ pc = "copy" =>
        /\ dest[e] = found[e] /\ NeedsRepair(e)
        /\ wdir[e].kind = "dir"
        /\ left \subseteq Copied(e) /\ Copied(e) \ left \subseteq wdir[e].has
    /\ pc = "backup" => dest[e] = found[e] /\ wdir[e] = Repaired(e)
    /\ pc = "move" => dest[e] = Nothing /\ bak[e] = found[e] /\ wdir[e] = Repaired(e)
    /\ pc = "clean" => dest[e] = Repaired(e)

(* There is a current egg while one is worked on. *)
Current ==
    /\ pc \in {"idle", "next"} <=> cur = {}
    /\ \A e, f \in cur : e = f
    /\ pc = "idle" => todo = {}

(* The eggs that the run is done with, or that are as the last one left them. *)
Past == \A e \in Eggs \ (failed \cup todo \cup cur) : ~ NeedsRepair(e)

IInv ==
    /\ TypeOK /\ NeverHalfRepaired /\ OriginalKept /\ Current /\ Past
    /\ \A e \in Eggs : Working(e)
    /\ \A e \in cur : Reached(e)

(* An entry that an old version left, and a repaired one, are entries; the *)
(* latter needs no repair, nor does nothing.                               *)
LEMMA EntryFacts ==
    ASSUME TypeOK, NEW e \in Eggs
    PROVE  /\ found[e] \in Entry /\ Repaired(e) \in Entry /\ Nothing \in Entry
           /\ Repaired(e).kind = "dir" /\ EggJson \in Repaired(e).has
           /\ Copied(e) \subseteq Repaired(e).has /\ Copied(e) \subseteq Members
           /\ Repaired(e) # Nothing
           /\ found[e].text = "old" => found[e].kind = "file"
  <1>1. found[e] \in Entry /\ Nothing \in Entry /\ (found[e].text = "old" => found[e].kind = "file")
    BY DEF TypeOK, Found, Entry, Nothing, File, Dir, Directory
  <1>2. Copied(e) \subseteq Members /\ EggJson \in Copied(e)
    BY RepairAssumption DEF Copied
  <1>3. PkgInfo \in Members
    BY RepairAssumption
  <1>4. Repaired(e) \in {Directory(Copied(e) \cup {PkgInfo}, "old"), Directory(Copied(e), "none")}
    BY DEF Repaired, Dir
  <1> QED
    BY <1>1, <1>2, <1>3, <1>4 DEF Entry, Directory, Nothing

(* Only what was found needs repair. *)
LEMMA OnlyFoundNeedsRepair ==
    ASSUME TypeOK, NeverHalfRepaired, NEW e \in Eggs, NeedsRepair(e)
    PROVE  dest[e] = found[e]
  BY EntryFacts DEF NeverHalfRepaired, NeedsRepair, Nothing

(* It holds for what was found, before the first run. *)
LEMMA InitIInv == Init => IInv
  <1> SUFFICES ASSUME Init PROVE IInv
    OBVIOUS
  <1>1. TypeOK
    <2>1. Found \subseteq Entry /\ Nothing \in Entry
      BY DEF Found, Entry, Nothing, File, Dir, Directory
    <2> QED
      BY <2>1 DEF Init, TypeOK
  <1>2. \A e \in Eggs : Working(e)
    BY <1>1, EntryFacts DEF Init, Working, Nothing
  <1> QED
    BY <1>1, <1>2 DEF Init, IInv, NeverHalfRepaired, OriginalKept, Current, Past

(* Neither what was found nor what a repair makes of it ever changes. *)
LEMMA FoundStays ==
    ASSUME [Next]_vars
    PROVE  /\ found' = found
           /\ \A e \in Eggs : Repaired(e)' = Repaired(e)
  <1>1. found' = found
    BY DEF Next, vars, Start, End, Raise, Kill, Skip, Begin, FixPkgInfo, BackUp, Move, CleanUp,
       Undo, Copy
  <1> QED
    BY <1>1 DEF Repaired, Copied

(* After FixPkgInfo the working directory is complete. *)
LEMMA FixedIsRepaired ==
    ASSUME IInv, NEW e \in Eggs, FixPkgInfo(e)
    PROVE  wdir'[e] = Repaired(e)
  <1>1. /\ dest[e] = found[e] /\ wdir[e].kind = "dir" /\ Copied(e) \subseteq wdir[e].has
        /\ wdir[e] \in Entry /\ wdir[e].has \subseteq Repaired(e).has
        /\ wdir[e].text = "old" => found[e].kind = "file"
    BY DEF IInv, TypeOK, FixPkgInfo, Reached, Working
  <1>2. CASE found[e].kind = "file"
    BY <1>1, <1>2 DEF IInv, TypeOK, FixPkgInfo, Repaired, Entry, Directory
  <1>3. CASE found[e].kind # "file"
    BY <1>1, <1>3 DEF FixPkgInfo, Repaired, Entry, Dir, Directory
  <1> QED
    BY <1>2, <1>3

(* What is at the paths keeps its form.  *)
LEMMA NextTypeOK == IInv /\ [Next]_vars => TypeOK'
  <1> SUFFICES ASSUME IInv, [Next]_vars PROVE TypeOK'
    OBVIOUS
  <1>0. TypeOK /\ found' = found
    BY FoundStays DEF IInv
  <1> USE <1>0 DEF TypeOK
  <1>1. CASE Start \/ End \/ Raise
    BY <1>1 DEF Start, End, Raise, entries
  <1>2. CASE UNCHANGED vars
    BY <1>2 DEF vars, entries
  <1>3. ASSUME NEW e \in Eggs, Skip(e) PROVE TypeOK'
    BY <1>3 DEF Skip, entries
  <1>4. ASSUME NEW e \in Eggs, Begin(e) PROVE TypeOK'
    BY <1>4, EntryFacts DEF Begin, Entry, Directory
  <1>5. ASSUME NEW e \in Eggs, NEW f \in Members, Copy(e, f) PROVE TypeOK'
    BY <1>5 DEF Copy, Entry, Directory
  <1>6. ASSUME NEW e \in Eggs, FixPkgInfo(e) PROVE TypeOK'
    BY <1>6, RepairAssumption DEF FixPkgInfo, Entry, Directory
  <1>7. ASSUME NEW e \in Eggs, BackUp(e) \/ Move(e) \/ CleanUp(e) \/ Undo(e)
        PROVE  TypeOK'
    BY <1>7, EntryFacts DEF BackUp, Move, CleanUp, Undo
  <1>8. CASE Kill
    <2>1. \A x \in Entry : Partly(x) \subseteq Entry
      BY DEF Partly, Entry, Nothing, Directory
    <2>2. dest' \in [Eggs -> Entry] /\ wdir' \in [Eggs -> Entry] /\ bak' \in [Eggs -> Entry]
      BY <1>8, <2>1 DEF Kill, entries
    <2> QED
      BY <1>8, <2>2 DEF Kill
  <1> QED
    BY <1>1, <1>2, <1>3, <1>4, <1>5, <1>6, <1>7, <1>8 DEF Next

(* It holds after each call, failure or kill. *)
LEMMA NextIInv == IInv /\ [Next]_vars => IInv'
  <1> SUFFICES ASSUME IInv, [Next]_vars PROVE IInv'
    OBVIOUS
  <1>t. TypeOK' /\ TypeOK
    BY NextTypeOK DEF IInv
  <1>f. /\ found' = found
        /\ \A e \in Eggs : Repaired(e)' = Repaired(e) /\ Repaired(e) # Nothing
    BY <1>t, FoundStays, EntryFacts
  <1>n. \A e \in Eggs : dest[e] = Nothing \/ dest[e] = Repaired(e) => ~ NeedsRepair(e)
    BY <1>t, EntryFacts DEF NeedsRepair, Nothing
  <1> DEFINE Rest == /\ NeverHalfRepaired /\ OriginalKept /\ Current /\ Past
                     /\ \A e \in Eggs : Working(e)
                     /\ \A e \in cur : Reached(e)
  <1> SUFFICES Rest'
    BY <1>t DEF IInv
  <1>r. Rest /\ cur \subseteq Eggs /\ cur' \subseteq Eggs /\ todo \subseteq Eggs
    BY <1>t DEF IInv, TypeOK
  <1>1. CASE Start
    BY <1>1, <1>f, <1>r DEF Start, entries, NeverHalfRepaired, OriginalKept, Current, Past,
       Working
  <1>2. CASE End
    BY <1>2, <1>f, <1>r DEF End, entries, NeverHalfRepaired, OriginalKept, Current, Past,
       Working, NeedsRepair
  <1>3. CASE Raise
    BY <1>3, <1>f, <1>r DEF Raise, entries, NeverHalfRepaired, OriginalKept, Current, Past,
       Working, Reached, NeedsRepair
  <1>4. ASSUME NEW e \in Eggs, Skip(e) PROVE Rest'
    BY <1>4, <1>f, <1>r DEF Skip, entries, NeverHalfRepaired, OriginalKept, Current, Past,
       Working, NeedsRepair
  <1>5. ASSUME NEW e \in Eggs, Begin(e) PROVE Rest'
    <2>1. dest[e] = found[e]
      BY <1>5, OnlyFoundNeedsRepair DEF IInv, Begin
    <2>2. wdir'[e] = Directory(wdir[e].has, wdir[e].text) /\ cur' = {e}
          /\ \A f \in Eggs \ {e} : wdir'[f] = wdir[f]
      BY <1>5, <1>t DEF Begin, TypeOK
    <2>3. \A f \in Eggs : Working(f)'
      BY <2>2, <1>f, <1>r DEF Working, Directory
    <2>4. Reached(e)'
      BY <1>5, <2>1, <2>2, <1>f DEF Begin, Reached, Copied, NeedsRepair, Directory
    <2> QED
      BY <1>5, <2>2, <2>3, <2>4, <1>f, <1>r
      DEF Begin, NeverHalfRepaired, OriginalKept, Current, Past, NeedsRepair
  <1>6. ASSUME NEW e \in Eggs, NEW f \in Members, Copy(e, f) PROVE Rest'
    <2>1. wdir'[e] = Directory(wdir[e].has \cup {f}, wdir[e].text)
          /\ \A g \in Eggs \ {e} : wdir'[g] = wdir[g]
      BY <1>6, <1>t DEF Copy, TypeOK
    <2>2. Reached(e) /\ cur = {e} /\ f \in Repaired(e).has
      BY <1>6, <1>r, <1>t, EntryFacts DEF Copy, Current, Reached
    <2>3. \A g \in Eggs : Working(g)'
      BY <2>1, <2>2, <1>f, <1>r DEF Working, Directory
    <2>4. Reached(e)'
      BY <1>6, <2>1, <2>2, <1>f DEF Copy, Reached, Copied, NeedsRepair, Directory
    <2> QED
      BY <1>6, <2>2, <2>3, <2>4, <1>f, <1>r
      DEF Copy, NeverHalfRepaired, OriginalKept, Current, Past, NeedsRepair
  <1>7. ASSUME NEW e \in Eggs, FixPkgInfo(e) PROVE Rest'
    <2>1. wdir'[e] = Repaired(e) /\ \A g \in Eggs \ {e} : wdir'[g] = wdir[g]
      BY <1>7, <1>t, FixedIsRepaired DEF FixPkgInfo, TypeOK
    <2>2. Reached(e) /\ cur = {e}
      BY <1>7, <1>r DEF FixPkgInfo, Current
    <2>3. Repaired(e).kind = "dir" /\ (Repaired(e).text = "old" => found[e].kind = "file")
      BY DEF Repaired, Dir, Directory
    <2>4. \A g \in Eggs : Working(g)'
      BY <2>1, <2>3, <1>f, <1>r DEF Working
    <2>5. Reached(e)'
      BY <1>7, <2>1, <2>2, <1>f DEF FixPkgInfo, Reached
    <2> QED
      BY <1>7, <2>2, <2>4, <2>5, <1>f, <1>r
      DEF FixPkgInfo, NeverHalfRepaired, OriginalKept, Current, Past, NeedsRepair
  <1>8. ASSUME NEW e \in Eggs, BackUp(e) PROVE Rest'
    <2>1. /\ dest'[e] = Nothing /\ bak'[e] = dest[e] /\ Reached(e) /\ cur = {e}
          /\ \A g \in Eggs \ {e} : dest'[g] = dest[g] /\ bak'[g] = bak[g]
      BY <1>8, <1>r, <1>t DEF BackUp, Current, TypeOK
    <2> QED
      BY <1>8, <2>1, <1>f, <1>r DEF BackUp, NeverHalfRepaired, OriginalKept, Current, Past,
         Working, Reached, NeedsRepair
  <1>9. ASSUME NEW e \in Eggs, Move(e) PROVE Rest'
    <2>1. /\ dest'[e] = Repaired(e) /\ wdir'[e] = Nothing /\ cur = {e}
          /\ \A g \in Eggs \ {e} : dest'[g] = dest[g] /\ wdir'[g] = wdir[g]
      BY <1>9, <1>r, <1>t DEF Move, Current, Reached, TypeOK
    <2>2. \A g \in Eggs : Working(g)'
      BY <2>1, <1>f, <1>r DEF Working, Nothing
    <2> QED
      BY <1>9, <2>1, <2>2, <1>f, <1>r DEF Move, NeverHalfRepaired, OriginalKept, Current, Past,
         Reached, NeedsRepair
  <1>10. ASSUME NEW e \in Eggs, CleanUp(e) PROVE Rest'
    <2>1. dest[e] = Repaired(e) /\ ~ NeedsRepair(e) /\ cur = {e}
          /\ \A g \in Eggs \ {e} : bak'[g] = bak[g]
      BY <1>10, <1>n, <1>r, <1>t DEF CleanUp, Current, Reached, TypeOK
    <2> QED
      BY <1>10, <2>1, <1>f, <1>r DEF CleanUp, NeverHalfRepaired, OriginalKept, Current, Past,
         Working, NeedsRepair
  <1>11. ASSUME NEW e \in Eggs, Undo(e) PROVE Rest'
    <2>1. wdir'[e] = Nothing /\ cur = {e} /\ \A g \in Eggs \ {e} : wdir'[g] = wdir[g]
      BY <1>11, <1>r, <1>t DEF Undo, Current, TypeOK
    <2>2. \A g \in Eggs : Working(g)'
      BY <2>1, <1>f, <1>r DEF Working, Nothing
    <2> QED
      BY <1>11, <2>1, <2>2, <1>f, <1>r DEF Undo, NeverHalfRepaired, OriginalKept, Current, Past,
         NeedsRepair
  <1>12. CASE Kill
    <2>1. /\ dest' = dest
          /\ \A e \in Eggs : wdir'[e] = wdir[e] \/ wdir'[e] \in Partly(wdir[e])
          /\ \A e \in Eggs : bak'[e] = bak[e] \/ (pc = "clean" /\ e \in cur)
      BY <1>12, <1>t DEF Kill, entries, TypeOK
    <2>2. \A e \in Eggs : Working(e)'
      BY <2>1, <1>f, <1>r, <1>t DEF Working, Partly, Nothing, Directory
    <2>3. OriginalKept'
      BY <2>1, <1>f, <1>r DEF OriginalKept, Reached
    <2> QED
      BY <1>12, <2>1, <2>2, <2>3, <1>f, <1>r
      DEF Kill, NeverHalfRepaired, Current, Past, NeedsRepair
  <1>13. CASE UNCHANGED vars
    BY <1>13, <1>f, <1>r DEF vars, entries, NeverHalfRepaired, OriginalKept, Current, Past,
       Working, Reached, NeedsRepair
  <1> QED
    BY <1>1, <1>2, <1>3, <1>4, <1>5, <1>6, <1>7, <1>8, <1>9, <1>10, <1>11, <1>12, <1>13
    DEF Next

(* The invariant of the script, for any eggs and files. *)
THEOREM InductiveInvariant == Spec => []IInv
  BY InitIInv, NextIInv, PTL DEF Spec

(* What is at <egg>.egg-info is what was found, or whole, or nothing,      *)
(* wherever runs raise or are killed.  (_repair_package_dir)               *)
THEOREM NeverHalf == Spec => []NeverHalfRepaired
  <1>1. IInv => NeverHalfRepaired
    BY DEF IInv
  <1> QED
    BY <1>1, InductiveInvariant, PTL

(* What was found is in its place, set aside, or replaced as a whole.      *)
(* (the two renames and the two clean-ups)                                 *)
THEOREM NothingLost == Spec => []OriginalKept
  <1>1. IInv => OriginalKept
    BY DEF IInv
  <1> QED
    BY <1>1, InductiveInvariant, PTL

(* When the script is over, the eggs it did not fail on have metadata.     *)
(* (repair, needs_repair)                                                  *)
THEOREM RunRepairs == Spec => []RepairedAtEnd
  <1>1. IInv => RepairedAtEnd
    <2> SUFFICES ASSUME IInv, pc = "idle", NEW e \in Eggs \ failed
                 PROVE  \/ dest[e] = Nothing
                        \/ dest[e].kind = "dir" /\ dest[e].has \cap {PkgInfo, EggJson} # {}
      BY DEF RepairedAtEnd
    <2>1. ~ NeedsRepair(e)
      BY DEF IInv, Current, Past
    <2>2. dest[e] \in {found[e], Repaired(e), Nothing} /\ found[e] \in Found
      BY DEF IInv, NeverHalfRepaired, TypeOK
    <2>3. found[e] = Nothing \/ found[e].kind = "file" \/ found[e].kind = "dir"
      <3>1. CASE found[e] \in {Dir(s) : s \in SUBSET Members}
        BY <3>1 DEF Dir, Directory
      <3>2. CASE found[e] = File
        BY <3>2 DEF File
      <3> QED
        BY <2>2, <3>1, <3>2 DEF Found
    <2>4. CASE dest[e] = found[e]
      BY <2>1, <2>3, <2>4 DEF NeedsRepair
    <2>5. CASE dest[e] = Repaired(e)
      BY <2>5, EntryFacts DEF IInv
    <2> QED
      BY <2>2, <2>4, <2>5
  <1> QED
    BY <1>1, InductiveInvariant, PTL
=============================================================================
