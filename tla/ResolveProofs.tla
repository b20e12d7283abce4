---------------------------- MODULE ResolveProofs ----------------------------
(***************************************************************************)
(* For any repository and request: the search of the legacy resolver meets *)
(* exactly what it has to, its assertions hold, and what it returns is in  *)
(* order.                                                                  *)
(***************************************************************************)
EXTENDS Resolve, FiniteSetTheorems, WellFoundedInduction, TLAPS

-----------------------------------------------------------------------------
(* The latest of some eggs.                                                *)

Less == {pair \in Nat \X Nat : pair[1] < pair[2]}

(* Some egg has the least number of later ones, which is none.             *)
LEMMA LatestExists ==
    ASSUME NEW eggs \in SUBSET Eggs, eggs # {}
    PROVE  \E e \in eggs : \A f \in eggs : Version[f] <= Version[e]
  <1> DEFINE Later(e) == {f \in eggs : Version[e] < Version[f]}
             Counts == {Cardinality(Later(e)) : e \in eggs}
  <1>1. \A e \in eggs : IsFiniteSet(Later(e)) /\ Cardinality(Later(e)) \in Nat
    <2> SUFFICES ASSUME NEW e \in eggs
                 PROVE  IsFiniteSet(Later(e)) /\ Cardinality(Later(e)) \in Nat
      OBVIOUS
    <2>1. Later(e) \in SUBSET Eggs /\ IsFiniteSet(Eggs)
      BY ResolveAssumption
    <2>2. IsFiniteSet(Later(e))
      BY <2>1, FS_Subset
    <2> QED BY <2>2, FS_CardinalityType
  <1>2. Counts \subseteq Nat /\ Counts # {}
    BY <1>1
  <1>3. \E n \in Counts : \A m \in Counts : <<m, n>> \notin Less
    <2>1. IsWellFoundedOn(Less, Nat)
      BY NatLessThanWellFounded DEF Less, OpToRel
    <2> HIDE DEF Counts
    <2> QED BY <1>2, <2>1, WFMin
  <1>4. PICK e \in eggs :
            \A f \in eggs : <<Cardinality(Later(f)), Cardinality(Later(e))>> \notin Less
    BY <1>3
  <1>5. ASSUME NEW f \in eggs, ~ (Version[f] <= Version[e]) PROVE FALSE
    <2>1. \A g \in Eggs : Version[g] \in Nat
      BY ResolveAssumption
    <2>2. Later(f) \subseteq Later(e) /\ f \in Later(e) /\ f \notin Later(f)
      BY <1>5, <2>1
    <2>3. /\ Cardinality(Later(f)) <= Cardinality(Later(e))
          /\ Cardinality(Later(f)) # Cardinality(Later(e))
      BY <1>1, <2>2, FS_Subset
    <2>4. <<Cardinality(Later(f)), Cardinality(Later(e))>> \in Less
      BY <1>1, <2>3 DEF Less
    <2> QED BY <1>4, <2>4
  <1> QED BY <1>5

(* _latest_package returns None or an egg that matches. *)
LEMMA LatestMatches ==
    ASSUME NEW r \in Requirement, Latest(r) # None
    PROVE  Latest(r) \in Eggs /\ EggName[Latest(r)] = r.name
  <1> DEFINE matches == {e \in Eggs : Matches(r, e)}
  <1>1. matches # {}
    BY DEF Latest
  <1>2. \E e \in matches : \A f \in matches : Version[f] <= Version[e]
    BY <1>1, LatestExists
  <1>3. Latest(r) \in matches
    BY <1>1, <1>2 DEF Latest
  <1> QED BY <1>3 DEF Matches

-----------------------------------------------------------------------------
(* The invariant.                                                          *)

(* The parts of install_sequence in which something was selected.          *)
Searched == {"replace", "AssertionError", "order", "done", "Loop"}
Sorted == {"order", "done", "Loop"}

Root == Latest(request)

Types ==
    /\ deps \in [Eggs -> SUBSET Requirement] /\ request \in Requirement
    /\ pc \in {"start", "NoPackageFound", "root", "visit", "MissingDependency"}
                  \cup Searched
    /\ deep \in [Names -> SUBSET Requirement]
    /\ visited \subseteq Eggs /\ packages \subseteq Eggs
    /\ path \in Seq(Eggs) /\ todo \in [Eggs -> SUBSET Requirement]
    /\ result \in Seq(Eggs) /\ at \in 1..(Len(Alphabet) + 1) /\ before \in Nat

(* A project the root has a requirement on has one of them in reqs_shallow. *)
RootShallow ==
    /\ Root \in visited
    /\ \A n \in NeededBy(Root) :
        n \in DOMAIN shallow /\ shallow[n] \in deps[Root] /\ shallow[n].name = n
    /\ DOMAIN shallow = NeededBy(Root)

(* What the calls in progress still have to meet. *)
Pending ==
    /\ \A i \in DOMAIN path : path[i] \in visited
    /\ \A e \in visited : todo[e] \subseteq deps[e]
    /\ \A e \in visited : todo[e] # {} => \E i \in DOMAIN path : path[i] = e
    /\ pc \in Searched => path = <<>>

(* A requirement that was met is skipped or its egg was visited. *)
Handled(r) == Shadowed(r) \/ Latest(r) \in visited
Met ==
    /\ \A e \in visited : \A r \in deps[e] :
        r \in todo[e] \/ (r \in deep[r.name] /\ Handled(r))
    /\ \A n \in Names : \A r \in deep[n] : r.name = n /\ Handled(r)

(* Each egg visited has to be. *)
Needed == \A eggs \in SUBSET Eggs : Closed(eggs) => visited \subseteq eggs

Selected == packages \subseteq visited /\ NamesOf(packages) = NamesOf(visited)

SearchInv == RootShallow /\ Pending /\ Met /\ Needed /\ Selected

(* Each egg ordered comes once and after what it needs.  A pass that has   *)
(* added nothing has found an unmet need in each egg it looked at.         *)
Waiting(e) == ~ (NeededBy(e) \subseteq NamesOf(Ordered))
Passed ==
    /\ before < Cardinality(packages) /\ before <= Len(result)
    /\ Len(result) = before =>
        \A i \in 1..(at - 1) : \A e \in packages \ Ordered :
            EggName[e] = Alphabet[i] => Waiting(e)

InOrder ==
    \A i \in DOMAIN result : \A n \in NeededBy(result[i]) :
        \E j \in 1..(i - 1) : EggName[result[j]] = n

Arranged ==
    /\ Complete /\ OneEggPerName
    /\ Ordered \subseteq packages /\ Cardinality(Ordered) = Len(result)
    /\ \A i, j \in DOMAIN result : result[i] = result[j] => i = j
    /\ InOrder

OrderInv ==
    /\ Arranged
    /\ pc = "order" => Passed
    /\ pc = "done" => Cardinality(packages) <= Len(result)
    /\ pc = "Loop" => /\ packages \ Ordered # {}
                      /\ \A e \in packages \ Ordered : Waiting(e)

IInv ==
    /\ Types
    /\ pc # "AssertionError"
    /\ pc \in {"start", "visit", "replace"} =>
        result = <<>> /\ at = 1 /\ before = 0
    /\ pc = "start" => path = <<>> /\ deep = [n \in Names |-> {}]
                       /\ todo = [e \in Eggs |-> {}]
    /\ pc \in Searched \cup {"visit"} => SearchInv
    /\ pc \in Sorted => OrderInv

(* The invariant holds when nothing has been asked for. *)
LEMMA InitIInv == Init => IInv
  <1> SUFFICES ASSUME Init PROVE IInv
    OBVIOUS
  <1>1. Types
    BY ResolveAssumption DEF Init, Types
  <1> QED BY <1>1 DEF Init, IInv, Searched, Sorted

(* Once the search is over, whatever an egg that was met needs is there:   *)
(* what was skipped, the root needs more strictly, and that was not.       *)
LEMMA NeedsMet ==
    ASSUME IInv, pc \in Searched, NEW e \in visited, NEW r \in deps[e]
    PROVE  /\ r.name \in NamesOf(visited)
           /\ ~ Shadowed(r) => Latest(r) \in visited
           /\ Shadowed(r) => /\ shallow[r.name] \in deep[r.name]
                             /\ r.strictness < shallow[r.name].strictness
  <1> USE DEF IInv, SearchInv
  <1>1. \A f \in visited : \A s \in deps[f] : s \in deep[s.name] /\ Handled(s)
    BY DEF Pending, Met
  <1>2. \A f \in visited : \A s \in deps[f] : s \in Requirement
    BY DEF Types
  <1>3. \A s \in Requirement : Latest(s) \in visited => s.name \in NamesOf(visited)
    BY LatestMatches, ResolveAssumption DEF Types, NamesOf
  <1>4. CASE ~ Shadowed(r)
    BY <1>1, <1>2, <1>3, <1>4 DEF Handled
  <1>5. CASE Shadowed(r)
    <2> DEFINE s == shallow[r.name]
    <2>1. s \in deps[Root] /\ s.name = r.name /\ Root \in visited
      BY <1>5 DEF Shadowed, RootShallow
    <2>2. s.strictness \in Int
      BY <1>2, <2>1 DEF Requirement
    <2>3. ~ Shadowed(s)
      BY <2>1, <2>2 DEF Shadowed
    <2> QED BY <1>1, <1>2, <1>3, <1>5, <2>1, <2>3 DEF Handled, Shadowed
  <1> QED BY <1>4, <1>5

-----------------------------------------------------------------------------
(* Each step preserves it.                                                 *)

(* Steps that end at once. *)
LEMMA EndsIInv ==
    ASSUME IInv, NoPackageFound \/ RootOnly
    PROVE  IInv'
  <1>1. Types'
    <2>1. CASE NoPackageFound
      BY <2>1 DEF NoPackageFound, index, search, ordering, IInv, Types, Searched
    <2>2. CASE RootOnly
      <3>1. Latest(request) \in Eggs
        BY <2>2, LatestMatches DEF RootOnly, IInv, Types
      <3> QED BY <2>2, <3>1 DEF RootOnly, index, search, IInv, Types, Searched
    <2> QED BY <2>1, <2>2
  <1> QED BY <1>1 DEF NoPackageFound, RootOnly, IInv, Searched, Sorted

(* Only the root is selected at first, and all its needs are pending. *)
LEMMA RecurIInv ==
    ASSUME IInv, Recur
    PROVE  IInv'
  <1>1. Root \in Eggs /\ Root = Latest(request) /\ UNCHANGED Root
    BY LatestMatches DEF Recur, index, Root, IInv, Types
  <1>2. /\ pc = "start" /\ pc' = "visit"
        /\ shallow' \in [NeededBy(Root) -> deps[Root]]
        /\ \A n \in NeededBy(Root) : shallow'[n].name = n
        /\ packages' = {Root} /\ visited' = {Root} /\ path' = <<Root>>
        /\ todo' = [todo EXCEPT ![Root] = deps[Root]]
        /\ UNCHANGED <<deps, request, deep, result, at, before>>
    BY <1>1 DEF Recur, index, ordering
  <1>3. Types'
    BY <1>1, <1>2 DEF IInv, Types, Searched
  <1>4. RootShallow'
    BY <1>1, <1>2 DEF RootShallow, NeededBy
  <1>5. Pending'
    <2>1. DOMAIN path' = {1} /\ path'[1] = Root
      BY <1>2
    <2> QED BY <1>1, <1>2, <2>1 DEF IInv, Types, Pending, Searched
  <1>6. Met'
    BY <1>1, <1>2 DEF IInv, Types, Met, Handled
  <1>7. Needed'
    BY <1>1, <1>2 DEF Needed, Closed, Root
  <1>8. Selected'
    BY <1>2 DEF Selected
  <1> QED BY <1>2, <1>3, <1>4, <1>5, <1>6, <1>7, <1>8
      DEF IInv, SearchInv, Searched, Sorted

(* What add_dependents meets is a requirement of an egg it was called with. *)
LEMMA MetByHead ==
    ASSUME IInv, NEW r, Meet(r)
    PROVE  /\ path # <<>> /\ Head(path) \in visited /\ r \in deps[Head(path)]
           /\ r \in Requirement /\ r.name \in Names
  <1>1. path # <<>> /\ Head(path) = path[1] /\ 1 \in DOMAIN path
    BY DEF Meet, IInv, Types
  <1>2. pc = "visit" /\ r \in todo[Head(path)]
    BY DEF Meet
  <1>3. Head(path) \in visited /\ r \in deps[Head(path)]
    BY <1>1, <1>2 DEF IInv, SearchInv, Pending
  <1>4. r \in Requirement
    BY <1>3 DEF IInv, Types
  <1> QED BY <1>1, <1>3, <1>4 DEF Requirement

(* Steps that do not go on to another egg. *)
LEMMA StayIInv ==
    ASSUME IInv, NEW r, Skip(r) \/ Known(r)
    PROVE  IInv'
  <1> DEFINE e == Head(path)
  <1>1. /\ e \in visited /\ e \in Eggs /\ r \in deps[e] /\ r \in Requirement
        /\ r.name \in Names
    BY MetByHead DEF Skip, Known, IInv, Types
  <1>2. /\ pc = "visit" /\ Handled(r)
        /\ deep' = [deep EXCEPT ![r.name] = @ \cup {r}]
        /\ todo' = [todo EXCEPT ![e] = @ \ {r}]
        /\ \/ packages' = packages
           \/ packages' = packages \cup {Latest(r)} /\ Latest(r) \in visited
        /\ UNCHANGED <<deps, request, pc, shallow, visited, path, result, at, before>>
    <2>1. CASE Skip(r)
      BY <2>1 DEF Skip, Meet, Handled, index, ordering
    <2>2. CASE Known(r)
      BY <2>2 DEF Known, Meet, Handled, index, ordering
    <2> QED BY <2>1, <2>2
  <1>3. Types'
    BY <1>1, <1>2 DEF IInv, Types
  <1>4. RootShallow'
    BY <1>2 DEF IInv, SearchInv, RootShallow, Root, NeededBy, Searched
  <1>5. Pending'
    BY <1>1, <1>2 DEF IInv, Types, SearchInv, Pending, Searched
  <1>6. Met'
    <2>1. \A s : Handled(s) => Handled(s)'
      BY <1>2 DEF Handled, Shadowed
    <2>2. ASSUME NEW f \in visited, NEW s \in deps[f]
          PROVE  s \in todo'[f] \/ (s \in deep'[s.name] /\ Handled(s)')
      <3>1. s \in Requirement /\ s.name \in Names
        BY <2>2 DEF IInv, Types, Requirement
      <3>2. CASE s = r
        BY <1>1, <1>2, <2>1, <3>2 DEF IInv, Types
      <3>3. CASE s # r /\ s \in todo[f]
        BY <1>1, <1>2, <3>3 DEF IInv, Types
      <3>4. CASE s \in deep[s.name] /\ Handled(s)
        BY <1>2, <2>1, <3>1, <3>4 DEF IInv, Types
      <3> QED BY <1>2, <3>2, <3>3, <3>4 DEF IInv, SearchInv, Met
    <2>3. ASSUME NEW n \in Names, NEW s \in deep'[n]
          PROVE  s.name = n /\ Handled(s)'
      <3>1. s \in deep[n] \/ (s = r /\ n = r.name)
        BY <1>1, <1>2, <2>3 DEF IInv, Types
      <3> QED BY <1>2, <2>1, <3>1 DEF IInv, SearchInv, Met
    <2> QED BY <1>2, <2>2, <2>3 DEF Met
  <1>7. Needed'
    BY <1>2 DEF IInv, SearchInv, Needed, Closed, Followed
  <1>8. Selected'
    BY <1>2 DEF IInv, SearchInv, Selected, NamesOf
  <1> QED BY <1>2, <1>3, <1>4, <1>5, <1>6, <1>7, <1>8
      DEF IInv, SearchInv, Searched, Sorted

(* The call of add_dependents with another egg. *)
LEMMA FollowIInv ==
    ASSUME IInv, NEW r, Follow(r)
    PROVE  IInv'
  <1> DEFINE e == Head(path)
             f == Latest(r)
  <1>1. /\ e \in visited /\ e \in Eggs /\ r \in deps[e] /\ r \in Requirement
        /\ r.name \in Names
    BY MetByHead DEF Follow, IInv, Types
  <1>2. /\ pc = "visit" /\ ~ Shadowed(r) /\ f \in Eggs \ visited
        /\ deep' = [deep EXCEPT ![r.name] = @ \cup {r}]
        /\ todo' = [todo EXCEPT ![e] = @ \ {r}, ![f] = deps[f]]
        /\ packages' = packages \cup {f} /\ visited' = visited \cup {f}
        /\ path' = <<f>> \o path
        /\ UNCHANGED <<deps, request, pc, shallow, result, at, before>>
    BY DEF Follow, Meet, index, ordering
  <1>3. Types'
    BY <1>1, <1>2 DEF IInv, Types
  <1>4. RootShallow'
    BY <1>2 DEF IInv, SearchInv, RootShallow, Root, NeededBy, Searched
  <1>5. Pending'
    <2>1. /\ \A g \in visited' : todo'[g] = IF g = f THEN deps[f]
                                  ELSE IF g = e THEN todo[e] \ {r} ELSE todo[g]
      BY <1>1, <1>2 DEF IInv, Types
    <2>2. /\ path'[1] = f /\ 1 \in DOMAIN path'
          /\ \A i \in DOMAIN path : path'[i + 1] = path[i] /\ i + 1 \in DOMAIN path'
          /\ \A i \in DOMAIN path' : i = 1 \/ (i - 1 \in DOMAIN path /\ path'[i] = path[i - 1])
      BY <1>2 DEF IInv, Types
    <2>3. ASSUME NEW i \in DOMAIN path' PROVE path'[i] \in visited'
      <3>1. \A k \in DOMAIN path : path[k] \in visited
        BY <1>2 DEF IInv, SearchInv, Pending
      <3>2. CASE i = 1
        BY <1>2, <2>2, <3>2
      <3>3. CASE i # 1
        BY <1>2, <2>2, <3>1, <3>3
      <3> QED BY <3>2, <3>3
    <2>4. ASSUME NEW g \in visited' PROVE todo'[g] \subseteq deps[g]
      <3>1. g # f => g \in visited
        BY <1>2
      <3>2. \A h \in visited : todo[h] \subseteq deps[h]
        BY <1>2 DEF IInv, SearchInv, Pending
      <3> QED BY <1>1, <2>1, <3>1, <3>2
    <2>5. ASSUME NEW g \in visited', todo'[g] # {}
          PROVE  \E i \in DOMAIN path' : path'[i] = g
      <3>1. CASE g = f
        BY <2>2, <3>1
      <3>2. CASE g # f
        <4>1. g \in visited /\ todo[g] # {}
          BY <1>2, <2>1, <2>5, <3>2
        <4>2. PICK i \in DOMAIN path : path[i] = g
          BY <1>2, <4>1 DEF IInv, SearchInv, Pending
        <4> QED BY <2>2, <4>2
      <3> QED BY <3>1, <3>2
    <2> QED BY <1>2, <2>3, <2>4, <2>5 DEF Pending, Searched
  <1>6. Met'
    <2>1. \A s : Handled(s) => Handled(s)'
      BY <1>2 DEF Handled, Shadowed
    <2>2. Handled(r)'
      BY <1>2 DEF Handled
    <2>3. ASSUME NEW g \in visited', NEW s \in deps[g]
          PROVE  s \in todo'[g] \/ (s \in deep'[s.name] /\ Handled(s)')
      <3>1. s \in Requirement /\ s.name \in Names
        BY <1>3, <1>2, <2>3 DEF IInv, Types, Requirement
      <3>2. CASE g = f
        BY <1>2, <3>2 DEF IInv, Types
      <3>3. CASE g # f /\ s = r
        BY <1>1, <1>2, <2>2, <3>3 DEF IInv, Types
      <3>4. CASE g # f /\ s # r /\ s \in todo[g]
        BY <1>1, <1>2, <3>4 DEF IInv, Types
      <3>5. CASE s \in deep[s.name] /\ Handled(s)
        BY <1>2, <2>1, <3>1, <3>5 DEF IInv, Types
      <3> QED BY <1>2, <3>2, <3>3, <3>4, <3>5 DEF IInv, SearchInv, Met
    <2>4. ASSUME NEW n \in Names, NEW s \in deep'[n]
          PROVE  s.name = n /\ Handled(s)'
      <3>1. s \in deep[n] \/ (s = r /\ n = r.name)
        BY <1>1, <1>2, <2>4 DEF IInv, Types
      <3> QED BY <1>2, <2>1, <2>2, <3>1 DEF IInv, SearchInv, Met
    <2> QED BY <1>2, <2>3, <2>4 DEF Met
  <1>7. Needed'
    <2>1. ASSUME NEW eggs \in SUBSET Eggs, Closed(eggs) PROVE f \in eggs
      <3>1. e \in eggs
        BY <1>1, <1>2, <2>1 DEF IInv, SearchInv, Needed
      <3>2. r.name \in DOMAIN shallow => r.strictness >= shallow[r.name].strictness
        <4>1. ASSUME r.name \in DOMAIN shallow
              PROVE  r.strictness \in Int /\ shallow[r.name].strictness \in Int
          <5>1. shallow[r.name] \in Requirement
            BY <1>2, <4>1 DEF IInv, Types, SearchInv, RootShallow, Root
          <5> QED BY <1>1, <5>1 DEF Requirement
        <4> QED BY <1>2, <4>1 DEF Shadowed
      <3>3. f \in Followed(e)
        BY <1>1, <3>2 DEF Followed
      <3> QED BY <2>1, <3>1, <3>3 DEF Closed
    <2>2. \A eggs : Closed(eggs)' <=> Closed(eggs)
      BY <1>2 DEF Closed, Followed
    <2> QED BY <1>2, <2>1, <2>2 DEF IInv, SearchInv, Needed
  <1>8. Selected'
    <2>1. Selected
      BY <1>2 DEF IInv, SearchInv
    <2>2. \A eggs : NamesOf(eggs \cup {f}) = NamesOf(eggs) \cup {EggName[f]}
      BY DEF NamesOf
    <2>3. NamesOf(packages \cup {f}) = NamesOf(visited \cup {f})
      BY <2>1, <2>2 DEF Selected
    <2> QED BY <1>2, <2>1, <2>3 DEF Selected, NamesOf
  <1> QED BY <1>2, <1>3, <1>4, <1>5, <1>6, <1>7, <1>8
      DEF IInv, SearchInv, Searched, Sorted

(* A requirement that no egg meets ends the search. *)
LEMMA MissingIInv ==
    ASSUME IInv, NEW r, MissingDependency(r)
    PROVE  IInv'
  <1>1. r \in Requirement /\ r.name \in Names
    BY MetByHead DEF MissingDependency
  <1>2. Types'
    BY <1>1 DEF MissingDependency, Meet, index, ordering, IInv, Types, Searched
  <1> QED BY <1>2 DEF MissingDependency, IInv, Searched, Sorted

(* A call returns. *)
LEMMA ReturnIInv ==
    ASSUME IInv, Return
    PROVE  IInv'
  <1>1. /\ pc = "visit" /\ pc' \in {"visit", "replace"}
        /\ path # <<>> /\ path' = Tail(path) /\ todo[Head(path)] = {}
        /\ pc' = "replace" <=> path' = <<>>
        /\ UNCHANGED <<deps, request, shallow, deep, packages, visited, todo,
                       result, at, before>>
    BY DEF Return, index, ordering
  <1>2. Types'
    BY <1>1 DEF IInv, Types, Searched
  <1>3. Pending'
    <2>1. /\ \A i \in DOMAIN path' : i + 1 \in DOMAIN path /\ path'[i] = path[i + 1]
          /\ \A i \in DOMAIN path : i # 1 => i - 1 \in DOMAIN path' /\ path'[i - 1] = path[i]
          /\ Head(path) = path[1]
      BY <1>1 DEF IInv, Types
    <2>2. ASSUME NEW g \in visited, todo[g] # {}
          PROVE  \E i \in DOMAIN path' : path'[i] = g
      <3>1. PICK i \in DOMAIN path : path[i] = g
        BY <1>1, <2>2 DEF IInv, SearchInv, Pending
      <3> QED BY <1>1, <2>1, <2>2, <3>1
    <2> QED BY <1>1, <2>1, <2>2 DEF IInv, SearchInv, Pending, Searched
  <1>4. RootShallow' /\ Met' /\ Selected'
    BY <1>1 DEF IInv, SearchInv, RootShallow, Root, NeededBy, Met, Handled,
                Shadowed, Selected, NamesOf
  <1>5. Needed'
    BY <1>1 DEF IInv, SearchInv, Needed, Closed, Followed
  <1> QED BY <1>1, <1>2, <1>3, <1>4, <1>5 DEF IInv, SearchInv, Searched, Sorted

(* After the search its part of the invariant depends on nothing else.     *)
LEMMA SearchKept ==
    ASSUME IInv, pc \in Searched, pc' \in Searched,
           UNCHANGED <<deps, request, shallow, deep, visited, path, todo>>, Selected'
    PROVE  SearchInv'
  <1>1. RootShallow' /\ Pending' /\ Met'
    BY DEF IInv, SearchInv, RootShallow, Root, NeededBy, Pending, Met, Handled,
           Shadowed
  <1>2. Needed'
    BY DEF IInv, SearchInv, Needed, Closed, Followed
  <1> QED BY <1>1, <1>2 DEF SearchInv

(* What replaces the eggs of a project is an egg of the project that was   *)
(* met: a strictest requirement was not skipped.                           *)
LEMMA ReplaceIInv ==
    ASSUME IInv, NEW n \in Names, Replace(n)
    PROVE  IInv'
  <1>1. PICK r \in Strictest(n) : packages' = (packages \ Named(n)) \cup {Latest(r)}
    BY DEF Replace
  <1>2. /\ pc = "replace"
        /\ UNCHANGED <<deps, request, pc, shallow, deep, visited, path, todo,
                       result, at, before>>
    BY DEF Replace, index, search, ordering
  <1>3. r \in deep[n] /\ r.name = n /\ r \in Requirement /\ Handled(r)
    BY <1>1, <1>2 DEF Strictest, IInv, Types, SearchInv, Met, Searched
  <1>4. ~ Shadowed(r)
    <2> SUFFICES ASSUME Shadowed(r) PROVE FALSE
      OBVIOUS
    <2> DEFINE s == shallow[n]
    <2>1. s \in deps[Root] /\ s.name = n /\ Root \in visited
      BY <1>2, <1>3 DEF Shadowed, IInv, SearchInv, RootShallow, Searched
    <2>2. s \in deep[n]
      BY <1>2, <2>1 DEF IInv, SearchInv, Pending, Met, Searched
    <2>3. s \in Requirement
      BY <2>2 DEF IInv, Types
    <2>4. s.strictness \in Int /\ r.strictness \in Int
      BY <1>3, <2>3 DEF Requirement
    <2> QED BY <1>1, <1>3, <2>2, <2>4 DEF Strictest, Shadowed
  <1>5. Latest(r) \in visited /\ EggName[Latest(r)] = n
    BY <1>3, <1>4, LatestMatches, ResolveAssumption DEF Handled, IInv, Types
  <1>6. Types'
    BY <1>1, <1>2, <1>5 DEF IInv, Types
  <1>7. Selected'
    <2>1. packages' \subseteq visited
      BY <1>1, <1>2, <1>5 DEF IInv, SearchInv, Selected, Searched
    <2>2. NamesOf(packages) = NamesOf(visited)
      BY <1>2 DEF IInv, SearchInv, Selected, Searched
    <2>3. ASSUME NEW e \in packages PROVE EggName[e] \in NamesOf(packages')
      <3>1. CASE EggName[e] = n
        BY <1>1, <1>5, <3>1 DEF NamesOf
      <3>2. CASE EggName[e] # n
        BY <1>1, <3>2 DEF NamesOf, Named
      <3> QED BY <3>1, <3>2
    <2>4. NamesOf(visited) \subseteq NamesOf(packages')
      BY <2>2, <2>3 DEF NamesOf
    <2>5. NamesOf(packages') \subseteq NamesOf(visited)
      BY <2>1 DEF NamesOf
    <2> QED BY <1>2, <2>1, <2>4, <2>5 DEF Selected, NamesOf
  <1>8. SearchInv'
    BY <1>2, <1>7, SearchKept DEF Searched
  <1> QED BY <1>2, <1>6, <1>8 DEF IInv, Searched, Sorted

(* The selected eggs are finitely many, and some. *)
LEMMA SelectedFinite ==
    ASSUME IInv, pc \in Searched
    PROVE  /\ IsFiniteSet(packages) /\ Cardinality(packages) \in Nat
           /\ Cardinality(packages) > 0
           /\ \A n : IsFiniteSet(Named(n))
  <1>1. IsFiniteSet(packages)
    BY ResolveAssumption, FS_Subset DEF IInv, Types
  <1>2. packages # {}
    <2>1. Root \in visited /\ NamesOf(packages) = NamesOf(visited)
      BY DEF IInv, SearchInv, RootShallow, Selected
    <2>2. EggName[Root] \in NamesOf(packages)
      BY <2>1 DEF NamesOf
    <2> QED BY <2>2 DEF NamesOf
  <1>3. \A n : IsFiniteSet(Named(n))
    BY <1>1, FS_Subset DEF Named
  <1> QED BY <1>1, <1>2, <1>3, FS_CardinalityType, FS_EmptySet

(* The assertions hold when the ordering begins. *)
LEMMA BeginOrderIInv ==
    ASSUME IInv, BeginOrder
    PROVE  IInv'
  <1>1. /\ pc = "replace" /\ result = <<>> /\ at = 1 /\ before = 0
        /\ \A n \in Names : Cardinality(Named(n)) <= 1
        /\ UNCHANGED <<deps, request, shallow, deep, visited, path, todo,
                       packages, result, at, before>>
        /\ pc' = IF Complete /\ OneEggPerName THEN "order" ELSE "AssertionError"
    BY DEF BeginOrder, IInv, index, search, ordering
  <1>2. Complete
    <2>1. ASSUME NEW e \in packages, NEW r \in deps[e]
          PROVE  r.name \in NamesOf(packages)
      BY <1>1, NeedsMet DEF IInv, SearchInv, Selected, Searched
    <2> QED BY <2>1 DEF Complete, NeededBy
  <1>3. OneEggPerName
    <2> SUFFICES ASSUME NEW e \in packages, NEW f \in packages,
                        EggName[e] = EggName[f], e # f
                 PROVE  FALSE
      BY DEF OneEggPerName
    <2> DEFINE n == EggName[e]
    <2>1. n \in Names
      BY ResolveAssumption DEF IInv, Types
    <2>2. IsFiniteSet(Named(n)) /\ e \in Named(n) /\ f \in Named(n)
      BY <1>1, SelectedFinite DEF Named, Searched
    <2>3. Cardinality(Named(n)) \in Nat /\ Cardinality(Named(n)) <= 1
      BY <1>1, <2>1, <2>2, FS_CardinalityType
    <2>4. IsFiniteSet(Named(n) \ {e})
          /\ Cardinality(Named(n) \ {e}) = Cardinality(Named(n)) - 1
      BY <2>2, FS_RemoveElement
    <2>5. Cardinality(Named(n) \ {e}) \in Nat
      BY <2>4, FS_CardinalityType
    <2>6. Cardinality(Named(n) \ {e}) = 0
      BY <2>3, <2>4, <2>5
    <2> QED BY <2>2, <2>4, <2>6, FS_EmptySet
  <1>4. pc' = "order"
    BY <1>1, <1>2, <1>3
  <1>5. Types'
    BY <1>1, <1>4 DEF IInv, Types, Searched
  <1>6. SearchInv'
    <2>1. Selected'
      BY <1>1 DEF IInv, SearchInv, Selected, NamesOf, Searched
    <2> QED BY <1>1, <1>4, <2>1, SearchKept DEF Searched
  <1>7. OrderInv'
    <2>1. (Complete /\ OneEggPerName)'
      BY <1>1, <1>2, <1>3 DEF Complete, OneEggPerName, NeededBy, NamesOf
    <2>2. Ordered' = {} /\ DOMAIN result' = {} /\ Len(result') = 0
      BY <1>1 DEF Ordered
    <2>3. Cardinality(packages) > 0
      BY <1>1, SelectedFinite DEF Searched
    <2>4. Passed'
      BY <1>1, <2>2, <2>3 DEF Passed
    <2>5. InOrder'
      BY <2>2 DEF InOrder
    <2> QED BY <1>4, <2>1, <2>2, <2>4, <2>5, FS_EmptySet DEF OrderInv, Arranged
  <1> QED BY <1>4, <1>5, <1>6, <1>7 DEF IInv, Searched, Sorted

(* Steps of the ordering change neither the search nor what was selected.  *)
LEMMA OrderKept ==
    ASSUME IInv, pc = "order", pc' \in Sorted, Types',
           UNCHANGED <<deps, request, shallow, deep, visited, path, todo, packages>>,
           OrderInv'
    PROVE  IInv'
  <1>1. SearchInv'
    <2>1. Selected'
      BY DEF IInv, SearchInv, Selected, NamesOf, Searched
    <2> QED BY <2>1, SearchKept DEF Searched, Sorted
  <1> QED BY <1>1 DEF IInv, Searched, Sorted

(* The ordering depends on the eggs, their requirements and the list only. *)
LEMMA ArrangedKept ==
    ASSUME Arranged, UNCHANGED <<deps, packages, result>>
    PROVE  Arranged' /\ UNCHANGED Ordered /\ \A e : Waiting(e)' <=> Waiting(e)
  <1>1. UNCHANGED Ordered /\ \A e : UNCHANGED NeededBy(e)
    BY DEF Ordered, NeededBy
  <1>2. \A eggs : UNCHANGED NamesOf(eggs)
    BY DEF NamesOf
  <1>3. Complete' /\ OneEggPerName'
    BY <1>1 DEF Arranged, Complete, OneEggPerName, NamesOf
  <1>4. InOrder'
    BY <1>1 DEF Arranged, InOrder
  <1>5. \A e : Waiting(e)' <=> Waiting(e)
    BY <1>1 DEF Waiting, NamesOf
  <1> QED BY <1>1, <1>3, <1>4, <1>5 DEF Arranged

(* Appending an egg of which all needs are in the list. *)
LEMMA PlaceIInv ==
    ASSUME IInv, NEW e \in Eggs, Place(e)
    PROVE  IInv'
  <1>1. /\ pc = "order" /\ at \in DOMAIN Alphabet /\ e \in packages
        /\ e \notin Ordered /\ NeededBy(e) \subseteq NamesOf(Ordered)
        /\ result' = Append(result, e) /\ at' = at + 1
        /\ UNCHANGED <<deps, request, pc, shallow, deep, visited, path, todo,
                       packages, before>>
    BY DEF Place, Ready, index, search
  <1>2. /\ OrderInv /\ Passed
    BY <1>1 DEF IInv, OrderInv, Sorted
  <1>3. Types'
    <2>1. at + 1 \in 1..(Len(Alphabet) + 1)
      BY <1>1, ResolveAssumption
    <2> QED BY <1>1, <2>1 DEF IInv, Types
  <1>4. /\ DOMAIN result' = DOMAIN result \cup {Len(result) + 1}
        /\ Len(result') = Len(result) + 1 /\ Len(result) \in Nat
        /\ DOMAIN result = 1..Len(result)
        /\ result'[Len(result) + 1] = e
        /\ \A i \in DOMAIN result : result'[i] = result[i]
    BY <1>1 DEF IInv, Types
  <1>5. Ordered' = Ordered \cup {e}
    BY <1>4 DEF Ordered
  <1>6. OrderInv'
    <2>1. (Complete /\ OneEggPerName)'
      BY <1>1, <1>2 DEF OrderInv, Arranged, Complete, OneEggPerName, NeededBy, NamesOf
    <2>2. Ordered' \subseteq packages'
      BY <1>1, <1>2, <1>5 DEF OrderInv, Arranged
    <2>3. Cardinality(Ordered') = Len(result')
      <3>1. IsFiniteSet(Ordered)
        BY <1>1, <1>2, SelectedFinite, FS_Subset DEF OrderInv, Arranged, Searched
      <3>2. Cardinality(Ordered \cup {e}) = Cardinality(Ordered) + 1
        BY <1>1, <3>1, FS_AddElement
      <3> QED BY <1>2, <1>4, <1>5, <3>2 DEF OrderInv, Arranged
    <2>4. \A i, j \in DOMAIN result' : result'[i] = result'[j] => i = j
      <3>1. \A i \in DOMAIN result : result[i] # e
        BY <1>1 DEF Ordered
      <3> QED BY <1>2, <1>4, <3>1 DEF OrderInv, Arranged
    <2>5. InOrder'
      <3>1. ASSUME NEW i \in DOMAIN result', NEW n \in NeededBy(result'[i])
            PROVE  \E j \in 1..(i - 1) : EggName[result'[j]] = n
        <4>1. CASE i \in DOMAIN result
          <5>1. PICK j \in 1..(i - 1) : EggName[result[j]] = n
            BY <1>2, <1>4, <3>1, <4>1 DEF OrderInv, Arranged, InOrder
          <5>2. j \in DOMAIN result
            BY <1>4, <4>1
          <5> QED BY <1>4, <5>1, <5>2
        <4>2. CASE i = Len(result) + 1
          <5>1. PICK f \in Ordered : EggName[f] = n
            BY <1>1, <1>4, <3>1, <4>2 DEF NamesOf
          <5>2. PICK j \in DOMAIN result : result[j] = f
            BY DEF Ordered
          <5> QED BY <1>4, <4>2, <5>1, <5>2
        <4> QED BY <1>4, <4>1, <4>2
      <3> QED BY <1>1, <3>1 DEF InOrder, NeededBy
    <2>6. Passed'
      BY <1>1, <1>2, <1>4, <1>3 DEF Passed, Types
    <2> QED BY <1>1, <2>1, <2>2, <2>3, <2>4, <2>5, <2>6 DEF OrderInv, Arranged
  <1> QED BY <1>1, <1>3, <1>6, OrderKept DEF Sorted

(* No egg of the name is ready. *)
LEMMA PassOverIInv ==
    ASSUME IInv, PassOver
    PROVE  IInv'
  <1>1. /\ pc = "order" /\ at \in DOMAIN Alphabet /\ at' = at + 1
        /\ \A e \in packages : ~ Ready(e)
        /\ UNCHANGED <<deps, request, pc, shallow, deep, visited, path, todo,
                       packages, result, before>>
    BY DEF PassOver, index, search
  <1>2. OrderInv /\ Passed
    BY <1>1 DEF IInv, OrderInv, Sorted
  <1>3. Types'
    <2>1. at + 1 \in 1..(Len(Alphabet) + 1)
      BY <1>1, ResolveAssumption
    <2> QED BY <1>1, <2>1 DEF IInv, Types
  <1>4. Arranged' /\ UNCHANGED Ordered /\ \A e : Waiting(e)' <=> Waiting(e)
    BY <1>1, <1>2, ArrangedKept DEF OrderInv
  <1>5. Passed'
    <2>1. ASSUME Len(result) = before, NEW i \in 1..at, NEW e \in packages \ Ordered,
                 EggName[e] = Alphabet[i]
          PROVE  Waiting(e)
      <3>1. CASE i = at
        BY <1>1, <2>1, <3>1 DEF Ready, Waiting
      <3>2. CASE i # at
        BY <1>1, <1>2, <2>1, <3>2 DEF Passed, IInv, Types
      <3> QED BY <3>1, <3>2
    <2>2. at' - 1 = at
      BY <1>1 DEF IInv, Types
    <2> QED BY <1>1, <1>2, <1>4, <2>1, <2>2 DEF Passed
  <1>6. OrderInv'
    BY <1>1, <1>4, <1>5 DEF OrderInv
  <1> QED BY <1>1, <1>3, <1>6, OrderKept DEF Sorted

(* A pass over all names ends. *)
LEMMA EndPassIInv ==
    ASSUME IInv, EndPass
    PROVE  IInv'
  <1>1. /\ pc = "order" /\ at \notin DOMAIN Alphabet
        /\ at' = 1 /\ before' = Len(result)
        /\ UNCHANGED <<deps, request, shallow, deep, visited, path, todo,
                       packages, result>>
    BY DEF EndPass, index, search
  <1>2. OrderInv /\ Passed
    BY <1>1 DEF IInv, OrderInv, Sorted
  <1>3. pc' \in Sorted
    BY DEF EndPass, Sorted
  <1>4. Types'
    BY <1>1, <1>3, ResolveAssumption DEF IInv, Types, Sorted, Searched
  <1>5. Arranged' /\ UNCHANGED Ordered /\ \A e : Waiting(e)' <=> Waiting(e)
    BY <1>1, <1>2, ArrangedKept DEF OrderInv
  <1>6. Len(result) \in Nat /\ Cardinality(packages) \in Nat
    BY <1>1, SelectedFinite DEF IInv, Types, Searched
  <1>7. CASE pc' = "order"
    <2>1. Passed'
      BY <1>1, <1>6, <1>7 DEF EndPass, Passed
    <2>5. OrderInv'
      BY <1>1, <1>5, <1>7, <2>1 DEF OrderInv
    <2> QED BY <1>1, <1>3, <1>4, <2>5, OrderKept
  <1>8. CASE pc' = "done"
    <2>1. Cardinality(packages) <= Len(result)
      BY <1>6, <1>8 DEF EndPass
    <2>5. OrderInv'
      BY <1>1, <1>5, <1>8, <2>1 DEF OrderInv
    <2> QED BY <1>1, <1>3, <1>4, <2>5, OrderKept
  <1>9. CASE pc' = "Loop"
    <2>1. Len(result) = before
      BY <1>9 DEF EndPass
    <2>2. packages \ Ordered # {}
      <3>1. /\ Ordered \subseteq packages /\ Cardinality(Ordered) = Len(result)
            /\ before < Cardinality(packages)
        BY <1>2 DEF OrderInv, Arranged, Passed
      <3>2. Ordered # packages
        BY <1>6, <2>1, <3>1
      <3> QED BY <3>1, <3>2
    <2>3. ASSUME NEW e \in packages \ Ordered PROVE Waiting(e)
      <3>1. EggName[e] \in Names
        BY ResolveAssumption DEF IInv, Types
      <3>2. PICK i \in DOMAIN Alphabet : EggName[e] = Alphabet[i]
        BY <3>1 DEF Names
      <3>3. i \in 1..(at - 1)
        BY <1>1, <3>2, ResolveAssumption DEF IInv, Types
      <3> QED BY <1>2, <2>1, <3>2, <3>3 DEF Passed
    <2>5. OrderInv'
      BY <1>1, <1>5, <1>9, <2>2, <2>3 DEF OrderInv
    <2> QED BY <1>1, <1>3, <1>4, <2>5, OrderKept
  <1> QED BY <1>3, <1>7, <1>8, <1>9 DEF Sorted

-----------------------------------------------------------------------------
(* The invariant speaks of the variables only. *)
LEMMA StutterIInv ==
    ASSUME IInv, UNCHANGED vars
    PROVE  IInv'
  <1>1. Types'
    BY DEF vars, IInv, Types, Searched
  <1>2. ASSUME pc \in Searched \cup {"visit"} PROVE SearchInv'
    <2>1. RootShallow' /\ Pending' /\ Met' /\ Selected'
      BY <1>2 DEF vars, IInv, SearchInv, RootShallow, Root, NeededBy, Pending, Met,
                  Handled, Shadowed, Selected, NamesOf
    <2>2. Needed'
      BY <1>2 DEF vars, IInv, SearchInv, Needed, Closed, Followed
    <2> QED BY <2>1, <2>2 DEF SearchInv
  <1>3. ASSUME pc \in Sorted PROVE OrderInv'
    <2>1. OrderInv
      BY <1>3 DEF IInv
    <2>2. Arranged' /\ UNCHANGED Ordered /\ \A e : Waiting(e)' <=> Waiting(e)
      BY <2>1, ArrangedKept DEF vars, OrderInv
    <2>3. Passed => Passed'
      BY <2>2 DEF vars, Passed
    <2> QED BY <2>1, <2>2, <2>3 DEF vars, OrderInv
  <1> QED BY <1>1, <1>2, <1>3 DEF vars, IInv

(* The invariant holds in every reachable state. *)
THEOREM Invariance == Spec => []IInv
  <1>1. IInv /\ [Next]_vars => IInv'
    BY EndsIInv, RecurIInv, StayIInv, FollowIInv, MissingIInv, ReturnIInv,
       ReplaceIInv, BeginOrderIInv, PlaceIInv, PassOverIInv, EndPassIInv,
       StutterIInv DEF Next
  <1> QED BY InitIInv, <1>1, PTL DEF Spec

(* For any repository, whatever the order of its sets of requirements: the *)
(* assertions of _determine_install_order hold.                            *)
THEOREM AssertionsAlwaysHold == Spec => []AssertionsHold
  <1>1. IInv => AssertionsHold
    BY DEF IInv, AssertionsHold
  <1> QED BY Invariance, <1>1, PTL

(* The list returned has every selected egg once and after its needs.      *)
(* (_determine_install_order)                                              *)
THEOREM ResultInOrder == Spec => []InstallOrder
  <1>1. IInv => InstallOrder
    <2> SUFFICES ASSUME IInv, pc = "done" PROVE InstallOrder
      BY DEF InstallOrder
    <2>1. OrderInv
      BY DEF IInv, Sorted
    <2>2. IsFiniteSet(packages) /\ Cardinality(packages) \in Nat
      BY SelectedFinite DEF Searched
    <2>3. Ordered \in SUBSET packages /\ Cardinality(packages) <= Cardinality(Ordered)
      BY <2>1 DEF OrderInv, Arranged
    <2>4. Cardinality(Ordered) <= Cardinality(packages) /\ Cardinality(Ordered) \in Nat
      BY <2>1, <2>2, <2>3, FS_Subset DEF OrderInv, Arranged, IInv, Types
    <2>5. Ordered = packages
      BY <2>2, <2>3, <2>4, FS_Subset
    <2>6. ASSUME NEW i \in DOMAIN result, NEW j \in DOMAIN result,
                 EggName[result[i]] = EggName[result[j]]
          PROVE  i = j
      <3>1. result[i] \in packages /\ result[j] \in packages
        BY <2>5 DEF Ordered
      <3> QED BY <2>1, <2>6, <3>1 DEF OrderInv, Arranged, OneEggPerName
    <2> QED BY <2>1, <2>5, <2>6 DEF OrderInv, Arranged, InOrder, InstallOrder
  <1> QED BY Invariance, <1>1, PTL

(* A loop is reported only if there is one: the eggs left over.            *)
THEOREM LoopIsReal == Spec => []LoopOnlyIfCyclic
  <1>1. IInv => LoopOnlyIfCyclic
    <2> SUFFICES ASSUME IInv, pc = "Loop"
                 PROVE  \E cycle \in (SUBSET packages) \ {{}} :
                            \A e \in cycle : NeededBy(e) \cap NamesOf(cycle) # {}
      BY DEF LoopOnlyIfCyclic
    <2> DEFINE cycle == packages \ Ordered
    <2>1. OrderInv /\ cycle \in (SUBSET packages) \ {{}}
      BY DEF IInv, OrderInv, Sorted
    <2>2. ASSUME NEW e \in cycle PROVE NeededBy(e) \cap NamesOf(cycle) # {}
      <3>1. PICK n \in NeededBy(e) : n \notin NamesOf(Ordered)
        BY <2>1 DEF OrderInv, Waiting
      <3>2. PICK f \in packages : EggName[f] = n
        BY <2>1, <2>2, <3>1 DEF OrderInv, Arranged, Complete, NamesOf
      <3>3. f \in cycle
        BY <3>1, <3>2 DEF NamesOf
      <3> QED BY <3>1, <3>2, <3>3 DEF NamesOf
    <2> QED BY <2>1, <2>2
  <1> QED BY Invariance, <1>1, PTL

(* The eggs the search has met are the least set closed under what is      *)
(* followed, cycles or not.  (add_dependents)                              *)
THEOREM SearchIsExact == Spec => []SearchExact
  <1>1. IInv => SearchExact
    <2> SUFFICES ASSUME IInv, pc \in {"replace", "order", "done"}
                 PROVE  /\ Closed(visited)
                        /\ \A eggs \in SUBSET visited : Closed(eggs) => eggs = visited
      BY DEF SearchExact
    <2>1. pc \in Searched /\ SearchInv /\ Types
      BY DEF IInv, Searched
    <2>2. ASSUME NEW e \in visited, NEW r \in deps[e],
                 r.name \in DOMAIN shallow => r.strictness >= shallow[r.name].strictness
          PROVE  Latest(r) \in visited
      <3>1. ASSUME r.name \in DOMAIN shallow
            PROVE  r.strictness \in Int /\ shallow[r.name].strictness \in Int
        <4>1. r \in Requirement /\ shallow[r.name] \in Requirement
          BY <2>1, <2>2, <3>1 DEF Types, SearchInv, RootShallow
        <4> QED BY <4>1 DEF Requirement
      <3>2. ~ Shadowed(r)
        BY <2>2, <3>1 DEF Shadowed
      <3> QED BY <2>1, <3>2, NeedsMet
    <2>3. Closed(visited)
      BY <2>1, <2>2 DEF Closed, Followed, SearchInv, RootShallow, Root
    <2>4. \A eggs \in SUBSET visited : Closed(eggs) => eggs = visited
      BY <2>1 DEF SearchInv, Needed, Types
    <2> QED BY <2>3, <2>4
  <1> QED BY Invariance, <1>1, PTL
=============================================================================
