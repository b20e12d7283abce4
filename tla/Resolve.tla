------------------------------ MODULE Resolve ------------------------------
(***************************************************************************)
(* enstaller/solver/resolve.py: the legacy dependency solver.  From one    *)
(* requirement it selects the latest matching egg, follows dependencies    *)
(* depth first, reduces the eggs it met to one per project, and orders     *)
(* them so that each comes after what it depends on.                       *)
(*                                                                         *)
(* The code iterates over Python sets of requirements and of names: the    *)
(* model takes their members in any order.                                 *)
(***************************************************************************)
EXTENDS Naturals, FiniteSets, Sequences

CONSTANTS
    Alphabet,   \* the project names, in alphabetical order
    Eggs,       \* the eggs of the repository
    EggName,    \* EggName[e]: the project of egg e
    Upstream,   \* Upstream[e]: the upstream version of e
    Version,    \* Version[e]: orders the eggs of a project
    Indices,    \* the dependencies the eggs may have
    Requests,   \* the requirements that may be asked for
    None        \* no egg

Names == {Alphabet[i] : i \in DOMAIN Alphabet}

(* Strictness 1: any version, 2: this upstream version, 3: this version.   *)
Requirement == [name : Names, strictness : 1..3, version : Nat]

ASSUME ResolveAssumption ==
    /\ Alphabet \in Seq(Names)
    /\ \A i, j \in DOMAIN Alphabet : Alphabet[i] = Alphabet[j] => i = j
    /\ IsFiniteSet(Eggs) /\ None \notin Eggs
    /\ EggName \in [Eggs -> Names]
    /\ Upstream \in [Eggs -> Nat] /\ Version \in [Eggs -> Nat]
    /\ \A e, f \in Eggs :
        EggName[e] = EggName[f] /\ Version[e] = Version[f] => e = f
    /\ Indices \subseteq [Eggs -> SUBSET Requirement]
    /\ Requests \subseteq Requirement

VARIABLES
    deps,      \* deps[e]: the requirements of egg e
    request,   \* the requirement to resolve
    pc,        \* the part of install_sequence being executed
    shallow,   \* reqs_shallow: the root's requirement on each project
    deep,      \* deep[n]: the requirements on n met so far
    packages,  \* the eggs selected
    visited,   \* the eggs add_dependents was called with
    path,      \* the calls of add_dependents in progress, innermost first
    todo,      \* todo[e]: the requirements the call with e has not met
    result,    \* the eggs ordered so far
    at,        \* position of the sorted packages in the ordering pass
    before     \* length of result when the pass began

index == <<deps, request>>
search == <<shallow, deep, visited, path, todo>>
ordering == <<result, at, before>>
vars == <<deps, request, pc, shallow, deep, packages, visited, path, todo,
          result, at, before>>

Matches(r, e) ==
    /\ EggName[e] = r.name
    /\ r.strictness = 2 => Upstream[e] = r.version
    /\ r.strictness = 3 => Version[e] = r.version

(* _latest_package *)
Latest(r) ==
    LET matches == {e \in Eggs : Matches(r, e)}
    IN  IF matches = {} THEN None
        ELSE CHOOSE e \in matches : \A f \in matches : Version[f] <= Version[e]

NamesOf(eggs) == {EggName[e] : e \in eggs}
Named(n) == {e \in packages : EggName[e] = n}
NeededBy(e) == {r.name : r \in deps[e]}

Init ==
    /\ deps \in Indices
    /\ request \in Requests
    /\ pc = "start"
    /\ shallow = <<>>
    /\ deep = [n \in Names |-> {}]
    /\ packages = {} /\ visited = {}
    /\ path = <<>> /\ todo = [e \in Eggs |-> {}]
    /\ result = <<>> /\ at = 1 /\ before = 0

-----------------------------------------------------------------------------
NoPackageFound ==
    /\ pc = "start" /\ Latest(request) = None
    /\ pc' = "NoPackageFound"
    /\ UNCHANGED <<index, search, packages, ordering>>

(* SolverMode.ROOT *)
RootOnly ==
    /\ pc = "start" /\ Latest(request) # None
    /\ pc' = "root" /\ packages' = {Latest(request)} /\ result' = <<Latest(request)>>
    /\ UNCHANGED <<index, search, at, before>>

(* SolverMode.RECUR: of two requirements of the root on one project, the   *)
(* last one of a set is kept in reqs_shallow.                              *)
Recur ==
    /\ pc = "start" /\ Latest(request) # None
    /\ LET root == Latest(request) IN
        /\ shallow' \in {f \in [NeededBy(root) -> deps[root]] :
                            \A n \in NeededBy(root) : f[n].name = n}
        /\ packages' = {root} /\ visited' = {root} /\ path' = <<root>>
        /\ todo' = [todo EXCEPT ![root] = deps[root]]
    /\ pc' = "visit"
    /\ UNCHANGED <<index, deep, ordering>>

(* Mutant of Shadowed: the root's own requirements are skipped, too.       *)
ShadowedOrOwn(r) ==
    r.name \in DOMAIN shallow /\ r.strictness <= shallow[r.name].strictness

(* A requirement less strict than the root's own on the project. *)
Shadowed(r) ==
    r.name \in DOMAIN shallow /\ r.strictness < shallow[r.name].strictness

(* add_dependents meets the next requirement of its package. *)
Meet(r) ==
    /\ pc = "visit" /\ path # <<>> /\ r \in todo[Head(path)]
    /\ deep' = [deep EXCEPT ![r.name] = @ \cup {r}]

Skip(r) ==
    /\ Meet(r) /\ Shadowed(r)
    /\ todo' = [todo EXCEPT ![Head(path)] = @ \ {r}]
    /\ UNCHANGED <<index, pc, shallow, packages, visited, path, ordering>>

MissingDependency(r) ==
    /\ Meet(r) /\ ~ Shadowed(r) /\ Latest(r) = None
    /\ pc' = "MissingDependency"
    /\ UNCHANGED <<index, shallow, packages, visited, path, todo, ordering>>

Known(r) ==
    /\ Meet(r) /\ ~ Shadowed(r) /\ Latest(r) \in visited
    /\ packages' = packages \cup {Latest(r)}
    /\ todo' = [todo EXCEPT ![Head(path)] = @ \ {r}]
    /\ UNCHANGED <<index, pc, shallow, visited, path, ordering>>

(* Mutant of Follow: nothing is followed into a project that was visited.  *)
FollowNewName(r) ==
    /\ Meet(r) /\ ~ Shadowed(r) /\ Latest(r) \in Eggs \ visited
    /\ packages' = packages \cup {Latest(r)}
    /\ IF r.name \in NamesOf(visited)
       THEN /\ todo' = [todo EXCEPT ![Head(path)] = @ \ {r}]
            /\ UNCHANGED <<visited, path>>
       ELSE /\ visited' = visited \cup {Latest(r)}
            /\ path' = <<Latest(r)>> \o path
            /\ todo' = [todo EXCEPT ![Head(path)] = @ \ {r},
                                    ![Latest(r)] = deps[Latest(r)]]
    /\ UNCHANGED <<index, pc, shallow, ordering>>

Follow(r) ==
    /\ Meet(r) /\ ~ Shadowed(r) /\ Latest(r) \in Eggs \ visited
    /\ packages' = packages \cup {Latest(r)}
    /\ visited' = visited \cup {Latest(r)}
    /\ path' = <<Latest(r)>> \o path
    /\ todo' = [todo EXCEPT ![Head(path)] = @ \ {r}, ![Latest(r)] = deps[Latest(r)]]
    /\ UNCHANGED <<index, pc, shallow, ordering>>

Return ==
    /\ pc = "visit" /\ path # <<>> /\ todo[Head(path)] = {}
    /\ path' = Tail(path)
    /\ pc' = IF Tail(path) = <<>> THEN "replace" ELSE pc
    /\ UNCHANGED <<index, shallow, deep, packages, visited, todo, ordering>>

-----------------------------------------------------------------------------
(* Several eggs of a project: the latest one for a strictest requirement   *)
(* on it replaces them all.                                                *)
Strictest(n) ==
    {r \in deep[n] : \A s \in deep[n] : s.strictness <= r.strictness}

Replace(n) ==
    /\ pc = "replace" /\ Cardinality(Named(n)) > 1
    /\ \E r \in Strictest(n) :
        packages' = (packages \ Named(n)) \cup {Latest(r)}
    /\ UNCHANGED <<index, pc, search, ordering>>

(* The assertions of _determine_install_order *)
Complete == \A e \in packages : NeededBy(e) \subseteq NamesOf(packages)
OneEggPerName == \A e, f \in packages : EggName[e] = EggName[f] => e = f

BeginOrder ==
    /\ pc = "replace" /\ \A n \in Names : Cardinality(Named(n)) <= 1
    /\ pc' = IF Complete /\ OneEggPerName THEN "order" ELSE "AssertionError"
    /\ UNCHANGED <<index, search, packages, ordering>>

Ordered == {result[i] : i \in DOMAIN result}

(* Mutants of Ready: some of what a package needs is there; what the       *)
(* replaced packages of the project needed has to be there, too.           *)
ReadyForSome(e) ==
    /\ EggName[e] = Alphabet[at] /\ e \notin Ordered
    /\ NeededBy(e) = {} \/ NeededBy(e) \cap NamesOf(Ordered) # {}
ReadyForAll(e) ==
    /\ EggName[e] = Alphabet[at] /\ e \notin Ordered
    /\ \A f \in visited : EggName[f] = EggName[e] =>
        NeededBy(f) \subseteq NamesOf(Ordered)

(* The next package in alphabetical order, if all it needs is there. *)
Ready(e) ==
    /\ EggName[e] = Alphabet[at] /\ e \notin Ordered
    /\ NeededBy(e) \subseteq NamesOf(Ordered)

Place(e) ==
    /\ pc = "order" /\ at \in DOMAIN Alphabet
    /\ e \in packages /\ Ready(e)
    /\ result' = Append(result, e)
    /\ at' = at + 1
    /\ UNCHANGED <<index, pc, search, packages, before>>

PassOver ==
    /\ pc = "order" /\ at \in DOMAIN Alphabet
    /\ \A e \in packages : ~ Ready(e)
    /\ at' = at + 1
    /\ UNCHANGED <<index, pc, search, packages, result, before>>

(* Mutant of EndPass: a pass that added nothing is followed by another.    *)
EndPassForever ==
    /\ pc = "order" /\ at \notin DOMAIN Alphabet
    /\ pc' = IF Len(result) < Cardinality(packages) THEN "order" ELSE "done"
    /\ at' = 1 /\ before' = Len(result)
    /\ UNCHANGED <<index, search, packages, result>>

EndPass ==
    /\ pc = "order" /\ at \notin DOMAIN Alphabet
    /\ pc' = IF Len(result) = before THEN "Loop"
             ELSE IF Len(result) < Cardinality(packages) THEN "order" ELSE "done"
    /\ at' = 1 /\ before' = Len(result)
    /\ UNCHANGED <<index, search, packages, result>>

-----------------------------------------------------------------------------
Next ==
    \/ NoPackageFound \/ RootOnly \/ Recur
    \/ \E r \in UNION {deps[e] : e \in Eggs} :
        Skip(r) \/ MissingDependency(r) \/ Known(r) \/ Follow(r)
    \/ Return
    \/ \E n \in Names : Replace(n)
    \/ BeginOrder
    \/ \E e \in Eggs : Place(e)
    \/ PassOver \/ EndPass

(* A sequential program: it goes on as long as it can. *)
Spec == Init /\ [][Next]_vars /\ WF_vars(Next)

-----------------------------------------------------------------------------
(* Properties *)

Ended == {"NoPackageFound", "root", "MissingDependency", "AssertionError",
          "Loop", "done"}

(* The assertions of _determine_install_order never fail: whatever was     *)
(* skipped or replaced, each project that a selected egg needs is still    *)
(* there, and once.                                                        *)
AssertionsHold == pc # "AssertionError"

(* The list returned has every selected egg once, one egg of a project,    *)
(* and each after all that it depends on.  (_determine_install_order)      *)
InstallOrder ==
    pc = "done" =>
        /\ Ordered = packages
        /\ \A i, j \in DOMAIN result : EggName[result[i]] = EggName[result[j]] => i = j
        /\ \A i \in DOMAIN result : \A n \in NeededBy(result[i]) :
            \E j \in 1..(i - 1) : EggName[result[j]] = n

(* "Loop in dependency graph" is raised only when there is one: some of    *)
(* the selected eggs each need another of them.                            *)
LoopOnlyIfCyclic ==
    pc = "Loop" =>
        \E cycle \in (SUBSET packages) \ {{}} :
            \A e \in cycle : NeededBy(e) \cap NamesOf(cycle) # {}

(* When the search ends, the eggs it met are the least set that has the    *)
(* root and, for each requirement of a member that is not less strict than *)
(* the root's own on the same project, the latest egg: whatever the order  *)
(* of the sets, and dependency cycles notwithstanding.  (add_dependents)   *)
Followed(e) ==
    {Latest(r) : r \in {s \in deps[e] :
        s.name \in DOMAIN shallow => s.strictness >= shallow[s.name].strictness}}
Closed(eggs) ==
    Latest(request) \in eggs /\ \A e \in eggs : Followed(e) \subseteq eggs
SearchExact ==
    pc \in {"replace", "order", "done"} =>
        /\ Closed(visited)
        /\ \A eggs \in SUBSET visited : Closed(eggs) => eggs = visited

(* install_sequence returns or raises, cycles or not. *)
Terminates == <>(pc \in Ended)
=============================================================================
