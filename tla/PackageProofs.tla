---------------------------- MODULE PackageProofs ----------------------------
(***************************************************************************)
(* The way of a package to its user: the repository that lists it and the  *)
(* cache into which it is fetched.                                         *)
(*                                                                         *)
(* Repository, for whatever indices are loaded: it is a bag of packages    *)
(* whose answers follow from what was added and deleted, the requirements  *)
(* of its packages are found, and metadata survives being written and read.*)
(*                                                                         *)
(* Fetch, for any number of processes, whatever the indices announce and   *)
(* the server sends: only verified content enters the cache, a canceled    *)
(* fetch does not fill it, and a fetch is to the users of the cache the    *)
(* step that module EggCache says it is.                                   *)
(***************************************************************************)
EXTENDS Fetch, Repository, SublistsProofs

-----------------------------------------------------------------------------
(* Packages *)

(* What a package has of the entry it was made from. *)
LEMMA FromIndexFields ==
    ASSUME NEW json, NEW e, NEW p \in FromIndex(json, e)
    PROVE  p.name = e.name /\ p.text = e.text /\ p.version = e.version
  BY DEF FromIndex, Package

(* The tag of a package is never missing, and says "none" if for any.      *)
TagKnown(p) ==
    /\ p.tag # AbsentTag /\ p.tag.python # "absent"
    /\ p.tag.python = "none" <=> p.tag = NoTag

(* Names that are required are in lower case or the name of an entry.      *)
NeedsNormalized(p) == \A r \in p.needs : Lower[r] = r

(* What follows from the assumption on entries for every package. *)
LEMMA PackageFacts ==
    ASSUME NEW p \in Packages
    PROVE  /\ p.version \in Nat /\ p.name \in Names
           /\ TagKnown(p) /\ NeedsNormalized(p)
           /\ p = [egg |-> p.egg, name |-> p.name, version |-> p.version, text |-> p.text,
                   needs |-> p.needs, tag |-> p.tag]
  <1>s. PICK s \in Stores : \E e \in Index[s] : p \in FromIndex(Index[s], e)
    BY DEF Packages
  <1>1. PICK e \in Index[s] : p \in FromIndex(Index[s], e)
    BY <1>s
  <1>2. /\ e.version \in Nat /\ e.name \in Names /\ Running \notin {"absent", "none"}
        /\ \A r \in e.packages : Lower[Lower[r]] = Lower[r]
        /\ e.tag \in {AbsentTag, NoTag} \/ e.tag.python \notin {"absent", "none"}
    BY RepositoryAssumption DEF Entries
  <1>3. PICK f \in [e.packages -> UNION {Normalized(Index[s], r) : r \in e.packages}] :
          /\ \A r \in e.packages : f[r] \in Normalized(Index[s], r)
          /\ p = Package(e, {f[r] : r \in e.packages}, DefaultTag(DefaultPython(e), e.tag))
    BY <1>1 DEF FromIndex
  <1>4. /\ p.version \in Nat /\ p.name \in Names /\ p.needs = {f[r] : r \in e.packages}
        /\ p.tag = DefaultTag(DefaultPython(e), e.tag)
        /\ p = [egg |-> p.egg, name |-> p.name, version |-> p.version, text |-> p.text,
                needs |-> p.needs, tag |-> p.tag]
    BY <1>2, <1>3 DEF Package
  <1>5. NeedsNormalized(p)
    <2>1. ASSUME NEW r \in e.packages PROVE Lower[f[r]] = f[r]
      <3>1. CASE {x \in Index[s] : x.egg = r} = {}
        BY <1>2, <1>3, <3>1 DEF Normalized
      <3>2. CASE {x \in Index[s] : x.egg = r} # {}
        <4>0. {x.name : x \in {y \in Index[s] : y.egg = r}} # {}
          BY <3>2
        <4>2. Normalized(Index[s], r) = {x.name : x \in {y \in Index[s] : y.egg = r}}
          BY <4>0 DEF Normalized
        <4>1. PICK x \in Index[s] : f[r] = x.name
          BY <1>3, <4>2
        <4> QED
          BY <4>1, RepositoryAssumption DEF Entries
      <3> QED
        BY <3>1, <3>2
    <2> QED
      BY <1>4, <2>1 DEF NeedsNormalized
  <1>6. TagKnown(p)
    <2>1. DefaultPython(e) # "absent"
      BY <1>2 DEF DefaultPython
    <2>2. CASE e.tag = AbsentTag
      BY <1>4, <2>1, <2>2 DEF DefaultTag, TagKnown, AbsentTag, NoTag, CPython
    <2>3. CASE e.tag = NoTag
      BY <1>4, <2>3 DEF DefaultTag, TagKnown, AbsentTag, NoTag
    <2>4. CASE e.tag # AbsentTag /\ e.tag.python \notin {"absent", "none"}
      BY <1>4, <2>4 DEF DefaultTag, TagKnown, AbsentTag, NoTag
    <2>5. e.tag # AbsentTag \/ e.tag = AbsentTag
      OBVIOUS
    <2>6. e.tag.python \notin {"absent", "none"} => e.tag # AbsentTag
      BY DEF AbsentTag
    <2> QED
      BY <1>2, <2>2, <2>3, <2>4, <2>6
  <1> QED
    BY <1>4, <1>5, <1>6

-----------------------------------------------------------------------------
(* Lists of packages *)

Sorted(list) == \A i, j \in DOMAIN list : i < j => list[i].version <= list[j].version

(* The packages of one project, the lower versions first. *)
IsListOf(list, n) ==
    /\ list \in Seq(Packages)
    /\ \A i \in DOMAIN list : list[i].name = n
    /\ Sorted(list)

(* A list without some of its packages is one. *)
LEMMA PickIsList ==
    ASSUME NEW list, NEW n, IsListOf(list, n), NEW keep
    PROVE  /\ IsListOf(Pick(list, keep), n)
           /\ ToSet(Pick(list, keep)) = ToSet(list) \cap keep
  <1> DEFINE sub == Pick(list, keep)
  <1>1. list \in Seq(Packages)
    BY DEF IsListOf
  <1>2. sub \in Seq(Packages) /\ \E at : IsSublist(sub, list, keep, at)
    BY <1>1, PickProperties
  <1>3. PICK at : IsSublist(sub, list, keep, at)
    BY <1>2
  <1>4. /\ at \in [DOMAIN sub -> DOMAIN list]
        /\ \A k \in DOMAIN sub : sub[k] = list[at[k]]
        /\ \A k, l \in DOMAIN sub : k < l => at[k] < at[l]
    BY <1>3 DEF IsSublist
  <1> HIDE DEF sub
  <1>5. IsListOf(sub, n)
    BY <1>2, <1>4 DEF IsListOf, Sorted
  <1>6. ToSet(sub) = ToSet(list) \cap keep
    BY <1>1, PickElements DEF ToSet, sub
  <1> QED
    BY <1>5, <1>6 DEF sub

(* A package is inserted behind those of its version and before the newer  *)
(* ones; it is there once more, and the others as often as before.         *)
LEMMA InsertProperties ==
    ASSUME NEW n, NEW list, IsListOf(list, n), NEW p \in Packages, p.name = n
    PROVE  /\ IsListOf(Insert(list, p), n)
           /\ ToSet(Insert(list, p)) = ToSet(list) \cup {p}
           /\ \A q \in Packages : Cardinality(Places(Insert(list, p), q))
                = Cardinality(Places(list, q)) + (IF q = p THEN 1 ELSE 0)
  <1> DEFINE below == {q \in Packages : q.version <= p.version}
             above == {q \in Packages : q.version > p.version}
             a == Pick(list, below)
             b == <<p>>
             c == Pick(list, above)
             r == a \o b \o c
             k == Len(a)
             m == Len(b)
             l == Len(c)
  <1>1. Insert(list, p) = r
    BY DEF Insert
  <1>2. list \in Seq(Packages) /\ \A q \in Packages : q.version \in Nat
    BY PackageFacts DEF IsListOf
  <1>3. /\ IsListOf(a, n) /\ ToSet(a) = ToSet(list) \cap below
        /\ IsListOf(c, n) /\ ToSet(c) = ToSet(list) \cap above
    BY PickIsList
  <1>4. a \in Seq(Packages) /\ b \in Seq(Packages) /\ c \in Seq(Packages)
    BY <1>3 DEF IsListOf
  <1>5. r \in Seq(Packages) /\ IsThree(r, a, b, c, k, m, l)
    BY <1>4, ConcatThree
  <1>6. m = 1 /\ b[1] = p
    OBVIOUS
  <1>7. ASSUME NEW q \in Packages
        PROVE  Cardinality(Places(r, q))
               = Cardinality(Places(list, q)) + (IF q = p THEN 1 ELSE 0)
    <2>1. Cardinality(Places(list, q)) \in Nat
      BY <1>2, PlacesFinite
    <2>2. Cardinality(Places(r, q)) = Cardinality(Places(a, q)) + Cardinality(Places(b, q))
                                        + Cardinality(Places(c, q))
      <3> HIDE DEF a, b, c
      <3> QED
        BY <1>4, PlacesOfThree
    <2>3. /\ Cardinality(Places(a, q)) = IF q \in below THEN Cardinality(Places(list, q)) ELSE 0
          /\ Cardinality(Places(c, q)) = IF q \in above THEN Cardinality(Places(list, q)) ELSE 0
      BY <1>2, PickPlaces
    <2>4. q \in below <=> q \notin above
      BY <1>2
    <2>5. Cardinality(Places(b, q)) = IF q = p THEN 1 ELSE 0
      <3>1. Places(b, q) = IF q = p THEN {1} ELSE {}
        BY DEF Places
      <3> QED
        BY <3>1, FS_EmptySet, FS_Singleton
    <2> HIDE DEF a, b, c, r, below, above
    <2> QED
      BY <2>1, <2>2, <2>3, <2>4, <2>5
  <1> HIDE DEF a, b, c, r, k, m, l
  <1>8. /\ k \in Nat /\ l \in Nat /\ DOMAIN r = 1..(k + 1 + l)
        /\ DOMAIN a = 1..k /\ DOMAIN c = 1..l
        /\ \A i \in 1..k : r[i] = a[i]
        /\ r[k + 1] = p
        /\ \A i \in 1..l : r[k + 1 + i] = c[i]
    BY <1>5, <1>6 DEF IsThree
  <1>9. ASSUME NEW i \in DOMAIN r
        PROVE  \/ i \in 1..k /\ r[i] = a[i]
               \/ i = k + 1 /\ r[i] = p
               \/ \E j \in 1..l : i = k + 1 + j /\ r[i] = c[j]
    <2>1. IsPlace(i, k, 1, l)
      BY <1>8, PlaceOfThree
    <2>2. CASE i \in 1..k
      BY <1>8, <2>2
    <2>3. CASE \E j \in 1..1 : i = k + j
      BY <1>8, <2>3
    <2>4. CASE \E j \in 1..l : i = k + 1 + j
      BY <1>8, <2>4
    <2> QED
      BY <2>1, <2>2, <2>3, <2>4 DEF IsPlace
  <1>10. ToSet(r) = ToSet(list) \cup {p}
    <2>1. ToSet(r) = ToSet(a) \cup {p} \cup ToSet(c)
      <3>1. ASSUME NEW i \in DOMAIN r PROVE r[i] \in ToSet(a) \cup {p} \cup ToSet(c)
        BY <1>8, <1>9 DEF ToSet
      <3>2. ASSUME NEW i \in DOMAIN a PROVE a[i] \in ToSet(r)
        <4>1. i \in DOMAIN r /\ r[i] = a[i]
          BY <1>8
        <4> QED
          BY <4>1 DEF ToSet
      <3>3. p \in ToSet(r)
        <4>1. k + 1 \in DOMAIN r
          BY <1>8
        <4> QED
          BY <1>8, <4>1 DEF ToSet
      <3>4. ASSUME NEW i \in DOMAIN c PROVE c[i] \in ToSet(r)
        <4>1. k + 1 + i \in DOMAIN r /\ r[k + 1 + i] = c[i]
          BY <1>8
        <4> QED
          BY <4>1 DEF ToSet
      <3> QED
        BY <3>1, <3>2, <3>3, <3>4 DEF ToSet
    <2>2. \A q \in ToSet(list) : q \in below \/ q \in above
      <3>1. ToSet(list) \subseteq Packages
        BY <1>2 DEF ToSet
      <3> QED
        BY <1>2, <3>1
    <2> QED
      BY <1>3, <2>1, <2>2
  <1>11. ASSUME NEW i \in DOMAIN r PROVE r[i].name = n
    <2>1. /\ \A j \in 1..k : a[j].name = n
          /\ \A j \in 1..l : c[j].name = n
      BY <1>3, <1>8 DEF IsListOf
    <2> QED
      BY <1>9, <2>1
  <1>12. /\ \A i \in 1..k : a[i].version \in Nat /\ a[i].version <= p.version
         /\ \A i \in 1..l : c[i].version \in Nat /\ p.version < c[i].version
    <2>1. ASSUME NEW i \in 1..k PROVE a[i] \in below
      BY <1>3, <1>8 DEF ToSet
    <2>2. ASSUME NEW i \in 1..l PROVE c[i] \in above
      BY <1>3, <1>8 DEF ToSet
    <2> QED
      BY <1>2, <2>1, <2>2
  <1>13. Sorted(a) /\ Sorted(c)
    BY <1>3 DEF IsListOf
  <1> HIDE DEF below, above
  <1>14. ASSUME NEW i \in DOMAIN r, NEW j \in DOMAIN r, i < j
         PROVE  r[i].version <= r[j].version
    <2>1. p.version \in Nat
      BY <1>2
    <2>2. CASE i \in 1..k /\ r[i] = a[i]
      <3>1. CASE j \in 1..k /\ r[j] = a[j]
        BY <1>8, <1>13, <1>14, <2>2, <3>1 DEF Sorted
      <3>2. CASE r[j] = p
        BY <1>12, <2>2, <3>2
      <3>3. ASSUME NEW h \in 1..l, r[j] = c[h] PROVE r[i].version <= r[j].version
        BY <1>12, <2>1, <2>2, <3>3
      <3> QED
        BY <1>9, <3>1, <3>2, <3>3
    <2>3. CASE i = k + 1 /\ r[i] = p
      <3>1. j \notin 1..k
        BY <1>8, <1>14, <2>3
      <3>2. CASE r[j] = p
        BY <2>1, <2>3, <3>2
      <3>3. ASSUME NEW h \in 1..l, r[j] = c[h] PROVE r[i].version <= r[j].version
        BY <1>12, <2>1, <2>3, <3>3
      <3> QED
        BY <1>9, <3>1, <3>2, <3>3
    <2>4. ASSUME NEW g \in 1..l, i = k + 1 + g, r[i] = c[g]
          PROVE  r[i].version <= r[j].version
      <3>1. j \notin 1..k /\ j # k + 1
        BY <1>8, <1>14, <2>4
      <3>2. PICK h \in 1..l : j = k + 1 + h /\ r[j] = c[h]
        BY <1>9, <3>1
      <3>3. g < h
        BY <1>8, <1>14, <2>4, <3>2
      <3> QED
        BY <1>8, <1>13, <2>4, <3>2, <3>3 DEF Sorted
    <2> QED
      BY <1>9, <2>2, <2>3, <2>4
  <1>15. IsListOf(r, n)
    BY <1>5, <1>11, <1>14 DEF IsListOf, Sorted
  <1> QED
    BY <1>1, <1>7, <1>10, <1>15

-----------------------------------------------------------------------------
(* The dictionary *)

(* Every list of the repository is one of the packages of its name; what   *)
(* is still to be added are packages of one of the stores.                 *)
ListsOK ==
    /\ IsFiniteSet(DOMAIN index)
    /\ \A n \in DOMAIN index : IsListOf(index[n], n)
    /\ loaded \subseteq Stores /\ adding \subseteq Packages

(* So is the empty list for a name that is not there. *)
LEMMA GetIsList ==
    ASSUME NEW n, ListsOK
    PROVE  IsListOf(Get(index, n), n)
  <1>1. CASE n \in DOMAIN index
    BY <1>1 DEF ListsOK, Get
  <1>2. CASE n \notin DOMAIN index
    <2>1. Get(index, n) = <<>> /\ <<>> \in Seq(Packages) /\ DOMAIN <<>> = {}
      BY <1>2 DEF Get
    <2> QED
      BY <2>1 DEF IsListOf, Sorted
  <1> QED
    BY <1>1, <1>2

(* Whatever list replaces that of n, the other lists stay. *)
LEMMA PutProperties ==
    ASSUME NEW n, NEW list, index' = Put(index, n, list)
    PROVE  /\ DOMAIN index' = DOMAIN index \cup {n}
           /\ index'[n] = list /\ Get(index', n) = list
           /\ \A m \in DOMAIN index : m # n => index'[m] = index[m]
           /\ \A m : m # n => Get(index', m) = Get(index, m)
  BY DEF Put, Get

(* It has to be a list of packages of that name. *)
LEMMA PutListsOK ==
    ASSUME NEW n, NEW list, ListsOK, index' = Put(index, n, list), IsListOf(list, n),
           loaded' \subseteq Stores, adding' \subseteq Packages
    PROVE  ListsOK'
  <1>1. /\ DOMAIN index' = DOMAIN index \cup {n} /\ index'[n] = list
        /\ \A m \in DOMAIN index : m # n => index'[m] = index[m]
    BY PutProperties
  <1>2. IsFiniteSet(DOMAIN index')
    BY <1>1, FS_AddElement DEF ListsOK
  <1>3. ASSUME NEW m \in DOMAIN index' PROVE IsListOf(index'[m], m)
    BY <1>1 DEF ListsOK
  <1> QED
    BY <1>2, <1>3 DEF ListsOK, IsListOf, Sorted

(* What adding a package changes. *)
LEMMA AddedEffect ==
    ASSUME NEW p \in Packages, ListsOK, index' = Added(p),
           loaded' \subseteq Stores, adding' \subseteq Packages
    PROVE  /\ ListsOK'
           /\ DOMAIN index' = DOMAIN index \cup {p.name}
           /\ \A n : ToSet(Get(index', n)) = ToSet(Get(index, n)) \cup (IF n = p.name THEN {p} ELSE {})
           /\ \A q \in Packages : Count(q)' = Count(q) + (IF q = p THEN 1 ELSE 0)
  <1> DEFINE old == Get(index, p.name)
             new == Insert(old, p)
  <1>1. IsListOf(old, p.name) /\ index' = Put(index, p.name, new)
    BY GetIsList DEF Added
  <1>2. /\ IsListOf(new, p.name) /\ ToSet(new) = ToSet(old) \cup {p}
        /\ \A q \in Packages :
             Cardinality(Places(new, q)) = Cardinality(Places(old, q)) + (IF q = p THEN 1 ELSE 0)
    BY <1>1, InsertProperties
  <1> HIDE DEF new
  <1>3. /\ DOMAIN index' = DOMAIN index \cup {p.name} /\ Get(index', p.name) = new
        /\ \A m : m # p.name => Get(index', m) = Get(index, m)
    BY <1>1, PutProperties
  <1>4. ListsOK'
    BY <1>1, <1>2, PutListsOK
  <1>5. ASSUME NEW n
        PROVE  ToSet(Get(index', n)) = ToSet(Get(index, n)) \cup (IF n = p.name THEN {p} ELSE {})
    BY <1>2, <1>3
  <1>6. ASSUME NEW q \in Packages PROVE Count(q)' = Count(q) + (IF q = p THEN 1 ELSE 0)
    <2>1. Count(q)' = Cardinality(Places(Get(index', q.name), q))
      BY DEF Count, Places
    <2>2. CASE q.name = p.name
      BY <1>2, <1>3, <2>1, <2>2 DEF Count
    <2>3. CASE q.name # p.name
      <3>1. Cardinality(Places(Get(index, q.name), q)) \in Nat
        BY GetIsList, PlacesFinite DEF IsListOf
      <3> QED
        BY <1>3, <2>1, <2>3, <3>1 DEF Count
    <2> QED
      BY <2>2, <2>3
  <1> QED
    BY <1>3, <1>4, <1>5, <1>6

(* What deleting a package changes. *)
LEMMA DeleteEffect ==
    ASSUME NEW p \in Packages, ListsOK, DeletePackage(p)
    PROVE  /\ ListsOK'
           /\ DOMAIN index' = DOMAIN index \cup {p.name}
           /\ \A n : n # p.name => Get(index', n) = Get(index, n)
           /\ \A q \in Packages : Count(q)' =
                IF q.name = p.name /\ q.text = p.text THEN 0 ELSE Count(q)
  <1> DEFINE old == Get(index, p.name)
             keep == {q \in Packages : q.text # p.text}
             new == Pick(old, keep)
  <1>1. /\ IsListOf(old, p.name) /\ index' = Put(index, p.name, new)
        /\ loaded' = loaded /\ adding' = adding
    BY GetIsList DEF DeletePackage
  <1>2. IsListOf(new, p.name)
    BY <1>1, PickIsList
  <1>3. /\ DOMAIN index' = DOMAIN index \cup {p.name} /\ Get(index', p.name) = new
        /\ \A m : m # p.name => Get(index', m) = Get(index, m)
    BY <1>1, PutProperties
  <1>4. ListsOK'
    BY <1>1, <1>2, PutListsOK DEF ListsOK
  <1>5. ASSUME NEW q \in Packages
        PROVE  Count(q)' = IF q.name = p.name /\ q.text = p.text THEN 0 ELSE Count(q)
    <2>1. Count(q)' = Cardinality(Places(Get(index', q.name), q))
      BY DEF Count, Places
    <2>2. CASE q.name = p.name
      <3>1. Cardinality(Places(new, q)) = IF q \in keep THEN Cardinality(Places(old, q)) ELSE 0
        BY <1>1, PickPlaces DEF IsListOf
      <3> HIDE DEF new
      <3> QED
        BY <1>3, <2>1, <2>2, <3>1 DEF Count
    <2>3. CASE q.name # p.name
      BY <1>3, <2>1, <2>3 DEF Count
    <2> QED
      BY <2>2, <2>3
  <1> QED
    BY <1>3, <1>4, <1>5

(* Asking with [] only makes the name known. *)
LEMMA TouchedEffect ==
    ASSUME NEW n, ListsOK, index' = Touched(n), loaded' = loaded, adding' = adding
    PROVE  /\ ListsOK'
           /\ DOMAIN index' = DOMAIN index \cup {n}
           /\ \A m : Get(index', m) = Get(index, m)
           /\ \A q \in Packages : Count(q)' = Count(q)
  <1>1. IsListOf(Get(index, n), n) /\ index' = Put(index, n, Get(index, n))
    BY GetIsList DEF Touched
  <1>2. DOMAIN index' = DOMAIN index \cup {n} /\ \A m : Get(index', m) = Get(index, m)
    BY <1>1, PutProperties
  <1>3. ListsOK'
    BY <1>1, PutListsOK DEF ListsOK
  <1>4. ASSUME NEW q \in Packages PROVE Count(q)' = Count(q)
    BY <1>2 DEF Count, Places
  <1> QED
    BY <1>2, <1>3, <1>4

-----------------------------------------------------------------------------
(* The indices that were loaded *)

(* Every package that parse_index made of a loaded index, and of whose     *)
(* name nothing was deleted, is there or about to be added.                *)
LoadedPackagesThere ==
    \A s \in loaded : \A e \in Index[s] :
        Accepted(e) /\ e.name \notin deleted =>
            \E p \in FromIndex(Index[s], e) : p \in adding \/ p \in ToSet(Get(index, e.name))

RepositoryInv == ListsOK /\ LoadedPackagesThere

(* The repository is empty at first. *)
LEMMA RepositoryInvInit == RepositoryInit => RepositoryInv
  <1> SUFFICES ASSUME RepositoryInit PROVE RepositoryInv
    OBVIOUS
  <1>1. DOMAIN index = {} /\ loaded = {} /\ adding = {}
    BY DEF RepositoryInit
  <1>2. IsFiniteSet(DOMAIN index)
    BY <1>1, FS_EmptySet
  <1> QED
    BY <1>1, <1>2 DEF RepositoryInv, ListsOK, LoadedPackagesThere

(* What may become of the packages in a step that loads nothing. *)
LEMMA PackagesStay ==
    ASSUME LoadedPackagesThere, loaded' = loaded, deleted \subseteq deleted',
           \A p \in adding : p \in adding' \/ p \in ToSet(Get(index', p.name)),
           \A n : n \notin deleted' => ToSet(Get(index, n)) \subseteq ToSet(Get(index', n))
    PROVE  LoadedPackagesThere'
  <1> SUFFICES ASSUME NEW s \in loaded, NEW e \in Index[s], Accepted(e), e.name \notin deleted'
               PROVE  \E p \in FromIndex(Index[s], e) :
                        p \in adding' \/ p \in ToSet(Get(index', e.name))
    BY DEF LoadedPackagesThere
  <1>1. PICK p \in FromIndex(Index[s], e) : p \in adding \/ p \in ToSet(Get(index, e.name))
    BY DEF LoadedPackagesThere
  <1>2. p.name = e.name
    BY FromIndexFields
  <1> QED
    BY <1>1, <1>2

(* The invariant is kept in every step. *)
LEMMA RepositoryInvNext ==
    ASSUME RepositoryInv, [RepositoryNext]_repositoryVars
    PROVE  RepositoryInv'
  <1> USE DEF RepositoryInv
  <1>1. ASSUME index' = index, loaded' = loaded, adding' = adding, deleted' = deleted
        PROVE  RepositoryInv'
    BY <1>1 DEF ListsOK, LoadedPackagesThere, IsListOf, Sorted
  <1>2. ASSUME NEW s \in Stores, Load(s) PROVE RepositoryInv'
    <2>1. PICK parsed \in [{e \in Index[s] : Accepted(e)} -> Packages] :
            /\ \A e \in DOMAIN parsed : parsed[e] \in FromIndex(Index[s], e)
            /\ adding' = {parsed[e] : e \in DOMAIN parsed}
      BY <1>2 DEF Load
    <2>2. /\ adding = {} /\ index' = index /\ loaded' = loaded \cup {s} /\ deleted' = deleted
          /\ DOMAIN parsed = {e \in Index[s] : Accepted(e)}
      BY <1>2, <2>1 DEF Load
    <2>3. ListsOK'
      <3>1. adding' \subseteq Packages
        BY <2>1, <2>2
      <3> QED
        BY <2>2, <3>1 DEF ListsOK, IsListOf, Sorted
    <2>4. ASSUME NEW t \in loaded', NEW e \in Index[t], Accepted(e), e.name \notin deleted'
          PROVE  \E p \in FromIndex(Index[t], e) :
                   p \in adding' \/ p \in ToSet(Get(index', e.name))
      <3>1. CASE t = s
        BY <2>1, <2>2, <2>4, <3>1
      <3>2. CASE t \in loaded
        BY <2>2, <2>4, <3>2 DEF LoadedPackagesThere
      <3> QED
        BY <2>2, <3>1, <3>2
    <2> QED
      BY <2>3, <2>4 DEF LoadedPackagesThere
  <1>3. ASSUME NEW p \in Packages, AddParsed(p) PROVE RepositoryInv'
    <2>1. /\ index' = Added(p) /\ adding' = adding \ {p} /\ loaded' = loaded /\ deleted' = deleted
      BY <1>3 DEF AddParsed
    <2>2. /\ ListsOK'
          /\ \A n : ToSet(Get(index', n))
                    = ToSet(Get(index, n)) \cup (IF n = p.name THEN {p} ELSE {})
      BY <2>1, AddedEffect DEF ListsOK
    <2>3. LoadedPackagesThere'
      BY <2>1, <2>2, PackagesStay
    <2> QED
      BY <2>2, <2>3
  <1>4. ASSUME NEW p \in Packages, AddPackage(p) PROVE RepositoryInv'
    <2>1. /\ index' = Added(p) /\ adding' = adding /\ loaded' = loaded /\ deleted' = deleted
      BY <1>4 DEF AddPackage
    <2>2. /\ ListsOK'
          /\ \A n : ToSet(Get(index', n))
                    = ToSet(Get(index, n)) \cup (IF n = p.name THEN {p} ELSE {})
      BY <2>1, AddedEffect DEF ListsOK
    <2>3. LoadedPackagesThere'
      BY <2>1, <2>2, PackagesStay
    <2> QED
      BY <2>2, <2>3
  <1>5. ASSUME NEW p \in Packages, DeletePackage(p) PROVE RepositoryInv'
    <2>1. /\ adding' = adding /\ loaded' = loaded /\ deleted' = deleted \cup {p.name}
          /\ adding = {}
      BY <1>5 DEF DeletePackage
    <2>2. ListsOK' /\ \A n : n # p.name => Get(index', n) = Get(index, n)
      BY <1>5, DeleteEffect
    <2>3. LoadedPackagesThere'
      BY <2>1, <2>2, PackagesStay
    <2> QED
      BY <2>2, <2>3
  <1>6. ASSUME NEW n, index' = Touched(n), loaded' = loaded, adding' = adding,
               deleted' = deleted
        PROVE  RepositoryInv'
    <2>1. ListsOK' /\ \A m : Get(index', m) = Get(index, m)
      BY <1>6, TouchedEffect
    <2>2. \A p \in adding : p \in adding'
      BY <1>6
    <2>3. LoadedPackagesThere'
      BY <1>6, <2>1, <2>2, PackagesStay
    <2> QED
      BY <2>1, <2>3
  <1>7. ASSUME NEW p \in Packages, HasPackage(p) PROVE RepositoryInv'
    BY <1>6, <1>7 DEF HasPackage, AnswerWith
  <1>8. ASSUME NEW n \in Names, NEW v \in Versions, FindPackage(n, v) PROVE RepositoryInv'
    BY <1>6, <1>8 DEF FindPackage, AnswerWith
  <1>9. ASSUME \/ \E n \in Names : FindPackages(n) \/ FindLatestPackage(n)
               \/ \E n \in Names, vs \in SUBSET Versions : FindPackageFromRequirement(n, vs)
               \/ IterMostRecentPackages
        PROVE  RepositoryInv'
    BY <1>1, <1>9 DEF FindPackages, FindLatestPackage, FindPackageFromRequirement,
       IterMostRecentPackages, AnswerWith
  <1>10. CASE UNCHANGED repositoryVars
    BY <1>1, <1>10 DEF repositoryVars
  <1> QED
    BY <1>2, <1>3, <1>4, <1>5, <1>7, <1>8, <1>9, <1>10 DEF RepositoryNext

(* In every reachable state. *)
THEOREM RepositoryInvariance == RepositorySpec => []RepositoryInv
  <1> QED
    BY RepositoryInvInit, RepositoryInvNext, PTL DEF RepositorySpec

-----------------------------------------------------------------------------
(* Dependencies *)

(* What parse_index makes of a requirement on the egg name of an entry.    *)
LEMMA NeedNormalized ==
    ASSUME NEW json, NEW e, NEW r \in e.packages, NEW p \in FromIndex(json, e),
           NEW n, Normalized(json, r) = {n}
    PROVE  n \in p.needs
  <1>1. PICK f \in [e.packages -> UNION {Normalized(json, q) : q \in e.packages}] :
          /\ \A q \in e.packages : f[q] \in Normalized(json, q)
          /\ p = Package(e, {f[q] : q \in e.packages}, DefaultTag(DefaultPython(e), e.tag))
    BY DEF FromIndex
  <1>2. f[r] = n
    BY <1>1
  <1> QED
    BY <1>1, <1>2 DEF Package

(* With all packages of the loaded indices there, a dependency is found.   *)
LEMMA LoadedDependencyFound ==
    ASSUME LoadedPackagesThere, adding = {}
    PROVE  DependenciesFound
  <1> SUFFICES ASSUME NEW s \in loaded, NEW t \in loaded, NEW e \in Index[s], NEW f \in Index[t],
                      Accepted(e), Accepted(f), f.egg \in e.packages,
                      {e.name, f.name} \cap deleted = {},
                      \A g \in Index[t] : g.egg = f.egg => g.name = f.name,
                      s = t \/ (f.name = Lower[f.egg] /\ \A g \in Index[s] : g.egg # f.egg)
               PROVE  /\ Get(index, f.name) # <<>>
                      /\ \E p \in ToSet(Get(index, e.name)) : p.text = e.text /\ f.name \in p.needs
    BY DEF DependenciesFound
  <1>1. PICK p \in FromIndex(Index[s], e) : p \in ToSet(Get(index, e.name))
    BY DEF LoadedPackagesThere
  <1>2. PICK q \in FromIndex(Index[t], f) : q \in ToSet(Get(index, f.name))
    BY DEF LoadedPackagesThere
  <1>3. Get(index, f.name) # <<>>
    <2>1. ToSet(<<>>) = {}
      BY DEF ToSet
    <2> QED
      BY <1>2, <2>1
  <1>4. Normalized(Index[s], f.egg) = {f.name}
    <2> DEFINE named == {x.name : x \in {y \in Index[s] : y.egg = f.egg}}
    <2>1. CASE s = t
      <3>1. named = {f.name}
        BY <2>1
      <3> HIDE DEF named
      <3>2. named # {}
        BY <3>1
      <3> QED
        BY <3>1, <3>2 DEF Normalized, named
    <2>2. CASE f.name = Lower[f.egg] /\ \A g \in Index[s] : g.egg # f.egg
      <3>1. named = {}
        BY <2>2
      <3> QED
        BY <2>2, <3>1 DEF Normalized
    <2> QED
      BY <2>1, <2>2
  <1>5. p.text = e.text /\ f.name \in p.needs
    BY <1>4, FromIndexFields, NeedNormalized
  <1> QED
    BY <1>1, <1>3, <1>5

(* Whatever the indices list: the requirement of an entry on the egg name  *)
(* of another one is one on a name that the repository finds.              *)
(* (_RequirementNormalizer, parse_index)                                   *)
THEOREM DependenciesAreFound == RepositorySpec => []DependenciesFound
  <1>1. RepositoryInv => DependenciesFound
    <2>1. CASE adding = {}
      BY <2>1, LoadedDependencyFound DEF RepositoryInv
    <2>2. CASE adding # {}
      BY <2>2 DEF DependenciesFound
    <2> QED
      BY <2>1, <2>2
  <1> QED
    BY <1>1, RepositoryInvariance, PTL

-----------------------------------------------------------------------------
(* Metadata that is written and read again *)

(* The entry that s3index_data makes of a package is read as this package, *)
(* beside entries that do not give another name to what it requires.       *)
LEMMA ReadAgain ==
    ASSUME NEW p \in Packages, NEW json,
           \A x \in json : x.egg \in p.needs => x.name = x.egg
    PROVE  FromIndex(json, S3IndexData(p)) = {p}
  <1> DEFINE data == S3IndexData(p)
             names == UNION {Normalized(json, r) : r \in p.needs}
             choices == {f \in [p.needs -> names] : \A r \in p.needs : f[r] \in Normalized(json, r)}
             same == [r \in p.needs |-> r]
  <1>1. ASSUME NEW r \in p.needs PROVE Normalized(json, r) = {r}
    <2> DEFINE named == {x.name : x \in {y \in json : y.egg = r}}
    <2>1. Normalized(json, r) = IF named = {} THEN {Lower[r]} ELSE named
      BY DEF Normalized
    <2>2. Lower[r] = r
      BY PackageFacts DEF NeedsNormalized
    <2>3. named = {} \/ named = {r}
      OBVIOUS
    <2> QED
      BY <2>1, <2>2, <2>3
  <1>2. choices = {same}
    <2>1. same \in choices
      BY <1>1
    <2>2. ASSUME NEW f \in choices PROVE f = same
      <3>1. f = [r \in p.needs |-> f[r]]
        OBVIOUS
      <3>2. \A r \in p.needs : f[r] = r
        BY <1>1
      <3> QED
        BY <3>1, <3>2
    <2> QED
      BY <2>1, <2>2
  <1>3. {same[r] : r \in p.needs} = p.needs
    OBVIOUS
  <1>4. /\ data.packages = p.needs /\ data.tag = p.tag /\ data.egg = p.egg /\ data.name = p.name
        /\ data.version = p.version /\ data.text = p.text
    BY DEF S3IndexData, Entry
  <1>5. DefaultTag(DefaultPython(data), data.tag) = p.tag
    BY <1>4, PackageFacts DEF DefaultTag, TagKnown
  <1>6. Package(data, p.needs, p.tag) = p
    <2>1. p = [egg |-> p.egg, name |-> p.name, version |-> p.version, text |-> p.text,
               needs |-> p.needs, tag |-> p.tag]
      BY PackageFacts
    <2> QED
      BY <1>4, <2>1 DEF Package
  <1>7. FromIndex(json, data)
        = {Package(data, {f[r] : r \in p.needs}, DefaultTag(DefaultPython(data), data.tag)) :
             f \in choices}
    <2> HIDE DEF data
    <2> QED
      BY <1>4 DEF FromIndex
  <1> HIDE DEF choices, data, same
  <1> QED
    BY <1>2, <1>3, <1>5, <1>6, <1>7 DEF data

(* What an installed package is, that was made of p. *)
LEMMA InstalledAgain ==
    ASSUME NEW p \in Packages, NEW infos,
           \A x \in infos : x.egg \in p.needs => x.name = x.egg,
           NEW installed \in FromInstalled(infos, S3IndexData(p))
    PROVE  /\ [installed EXCEPT !.tag = p.tag] = p
           /\ installed.tag.python = IF p.tag = NoTag THEN Running ELSE p.tag.python
  <1> DEFINE python == IF p.tag.python = "none" THEN Running ELSE p.tag.python
  <1>1. FromIndex(infos, S3IndexData(p)) = {p}
    BY ReadAgain
  <1>2. S3IndexData(p).python = p.tag.python
    BY DEF S3IndexData, Entry
  <1>3. installed = [p EXCEPT !.tag = CPython(python)]
    BY <1>1, <1>2 DEF FromInstalled
  <1>4. p = [egg |-> p.egg, name |-> p.name, version |-> p.version, text |-> p.text,
             needs |-> p.needs, tag |-> p.tag]
    BY PackageFacts
  <1>5. installed = [egg |-> p.egg, name |-> p.name, version |-> p.version, text |-> p.text,
                     needs |-> p.needs, tag |-> CPython(python)]
    BY <1>3, <1>4
  <1>6. [installed EXCEPT !.tag = p.tag] = p
    BY <1>4, <1>5
  <1>7. installed.tag.python = python
    BY <1>5 DEF CPython
  <1>8. p.tag.python = "none" <=> p.tag = NoTag
    BY PackageFacts DEF TagKnown
  <1> QED
    BY <1>6, <1>7, <1>8

(* Whatever the indices list, and whatever is in the repository: what is   *)
(* written of a package is read as this package.                           *)
(* (s3index_data, parse_index, _populate_from_prefixes)                    *)
THEOREM MetadataAlwaysSurvive == RepositorySpec => []MetadataSurvive
  <1> DEFINE inside == UNION {ToSet(index[n]) : n \in DOMAIN index}
             infos == {S3IndexData(p) : p \in inside}
  <1>1. ASSUME RepositoryInv PROVE MetadataSurvive
    <2>1. inside \subseteq Packages
      BY <1>1 DEF RepositoryInv, ListsOK, IsListOf, ToSet
    <2>2. ASSUME NEW p \in inside, \A q \in inside : q.egg \in p.needs => q.name = q.egg
          PROVE  /\ FromIndex({S3IndexData(p)}, S3IndexData(p)) = {p}
                 /\ Accepted(S3IndexData(p)) <=> p.tag.python \in {"none", Running}
                 /\ \A installed \in FromInstalled(infos, S3IndexData(p)) :
                      /\ [installed EXCEPT !.tag = p.tag] = p
                      /\ installed.tag.python = IF p.tag = NoTag THEN Running ELSE p.tag.python
      <3>1. p \in Packages
        BY <2>1
      <3>2. \A q \in inside : S3IndexData(q).egg = q.egg /\ S3IndexData(q).name = q.name
        BY DEF S3IndexData, Entry
      <3>3. \A x \in infos : x.egg \in p.needs => x.name = x.egg
        BY <2>2, <3>2
      <3>4. \A x \in {S3IndexData(p)} : x.egg \in p.needs => x.name = x.egg
        BY <2>2, <3>2
      <3>5. FromIndex({S3IndexData(p)}, S3IndexData(p)) = {p}
        BY <3>1, <3>4, ReadAgain
      <3>6. Accepted(S3IndexData(p)) <=> p.tag.python \in {"none", Running}
        <4>1. S3IndexData(p).python = p.tag.python
          BY DEF S3IndexData, Entry
        <4>2. p.tag.python # "absent"
          BY <3>1, PackageFacts DEF TagKnown
        <4> QED
          BY <4>1, <4>2 DEF Accepted, DefaultPython
      <3> HIDE DEF infos, inside
      <3>7. ASSUME NEW installed \in FromInstalled(infos, S3IndexData(p))
            PROVE  /\ [installed EXCEPT !.tag = p.tag] = p
                   /\ installed.tag.python = IF p.tag = NoTag THEN Running ELSE p.tag.python
        BY <3>1, <3>3, InstalledAgain
      <3> QED
        BY <3>5, <3>6, <3>7
    <2> QED
      BY <2>2 DEF MetadataSurvive
  <1> QED
    BY <1>1, RepositoryInvariance, PTL

-----------------------------------------------------------------------------
(* The bag of packages *)

(* What the bag has of a name is what the list of the name has. *)
LEMMA InIsList ==
    ASSUME NEW n, ListsOK
    PROVE  Sets!In(n) = ToSet(Get(index, n))
  <1>1. ASSUME NEW p \in Packages
        PROVE  Count(p) > 0 <=> p \in ToSet(Get(index, p.name))
    <2>1. Get(index, p.name) \in Seq(Packages)
      BY GetIsList DEF IsListOf
    <2> QED
      BY <2>1, PlacesFinite DEF Count
  <1>2. \A p \in ToSet(Get(index, n)) : p \in Packages /\ p.name = n
    BY GetIsList DEF IsListOf, ToSet
  <1>3. Sets!In(n) = {p \in Packages : Count(p) > 0 /\ p.name = n}
    BY DEF Sets!In
  <1> QED
    BY <1>1, <1>2, <1>3

(* The last package of a list is the newest; there is none if it is empty. *)
LEMMA LastIsNewest ==
    ASSUME NEW n, NEW list, IsListOf(list, n), NEW asked
    PROVE  /\ list # <<>> => Last(list) \in ToSet(list) /\ Last(list) \in Sets!Newest(ToSet(list))
           /\ Sets!OneOf(Sets!Newest(ToSet(list)), LastOf(asked, list))
           /\ LastOf(asked, list).to = asked
  <1>1. list \in Seq(Packages) /\ Sorted(list)
    BY DEF IsListOf
  <1>2. CASE list = <<>>
    <2>1. Sets!Newest(ToSet(list)) = {}
      BY <1>2 DEF Sets!Newest, ToSet
    <2> QED
      BY <1>2, <2>1 DEF LastOf, Raised, Reply, Sets!OneOf
  <1>3. CASE list # <<>>
    <2>1. Len(list) \in Nat /\ Len(list) \in DOMAIN list /\ DOMAIN list = 1..Len(list)
      BY <1>1, <1>3
    <2>2. Last(list) \in ToSet(list)
      BY <2>1 DEF Last, ToSet
    <2>3. ASSUME NEW i \in DOMAIN list PROVE list[i].version <= list[Len(list)].version
      <3>1. i = Len(list) \/ i < Len(list)
        BY <2>1
      <3>2. list[i].version \in Nat
        BY <1>1, PackageFacts
      <3> QED
        BY <1>1, <2>1, <3>1, <3>2 DEF Sorted
    <2>4. Last(list) \in Sets!Newest(ToSet(list))
      BY <2>2, <2>3 DEF Sets!Newest, ToSet, Last
    <2>5. LastOf(asked, list) = [to |-> asked, ok |-> TRUE, list |-> <<Last(list)>>]
      BY <1>3 DEF LastOf, Reply
    <2> QED
      BY <1>3, <2>2, <2>4, <2>5 DEF Sets!OneOf
  <1> QED
    BY <1>2, <1>3

(* The answers of the repository are those that the bag allows. *)

(* find_latest_package *)
LEMMA LatestAnswered ==
    ASSUME ListsOK, NEW n \in Names, NEW asked, asked = Question("latest", n, {}, "any")
    PROVE  Sets!Correct(asked, LastOf(asked, Get(index, n)))
  <1> DEFINE reply == LastOf(asked, Get(index, n))
  <1>1. IsListOf(Get(index, n), n) /\ Sets!In(n) = ToSet(Get(index, n))
    BY GetIsList, InIsList
  <1>2. Sets!OneOf(Sets!Newest(Sets!In(n)), reply)
    BY <1>1, LastIsNewest
  <1>3. asked.op = "latest" /\ asked.name = n
    BY DEF Question
  <1> QED
    BY <1>2, <1>3 DEF Sets!Correct

(* find_package_from_requirement *)
LEMMA RequirementAnswered ==
    ASSUME ListsOK, NEW n \in Names, NEW vs \in SUBSET Versions,
           NEW asked, asked = Question("requirement", n, vs, "any")
    PROVE  Sets!Correct(asked, LastOf(asked, Candidates(n, vs)))
  <1> DEFINE matching == Candidates(n, vs)
             reply == LastOf(asked, matching)
  <1>1. IsListOf(Get(index, n), n) /\ Sets!In(n) = ToSet(Get(index, n))
    BY GetIsList, InIsList
  <1>2. /\ IsListOf(matching, n)
        /\ ToSet(matching) = ToSet(Get(index, n)) \cap {p \in Packages : p.version \in vs}
    BY <1>1, PickIsList DEF Candidates
  <1>3. asked.op = "requirement" /\ asked.name = n /\ asked.versions = vs
    BY DEF Question
  <1>4. ToSet(matching) = Sets!Matching(asked)
    BY <1>1, <1>2, <1>3 DEF Sets!In, Sets!Matching
  <1> HIDE DEF matching
  <1>5. Sets!OneOf(Sets!Newest(Sets!Matching(asked)), reply)
    <2>1. Sets!OneOf(Sets!Newest(ToSet(matching)), reply)
      BY <1>2, LastIsNewest
    <2> QED
      BY <1>4, <2>1
  <1>6. Sets!Correct(asked, reply)
    BY <1>3, <1>5 DEF Sets!Correct
  <1> QED
    BY <1>6 DEF matching

(* find_package *)
LEMMA FindAnswered ==
    ASSUME ListsOK, NEW n \in Names, NEW v \in Versions, NEW found,
           found = Pick(Get(index, n), {p \in Packages : p.version = v}),
           NEW asked, asked = Question("find", n, {v}, "any")
    PROVE  Sets!Correct(asked, IF found = <<>> THEN Raised(asked)
                               ELSE Reply(asked, TRUE, <<Head(found)>>))
  <1> DEFINE reply == IF found = <<>> THEN Raised(asked) ELSE Reply(asked, TRUE, <<Head(found)>>)
             choices == Sets!Matching(asked)
  <1>1. IsListOf(Get(index, n), n) /\ Sets!In(n) = ToSet(Get(index, n))
    BY GetIsList, InIsList
  <1>2. /\ IsListOf(found, n)
        /\ ToSet(found) = ToSet(Get(index, n)) \cap {p \in Packages : p.version = v}
    BY <1>1, PickIsList
  <1>3. asked.op = "find" /\ asked.name = n /\ asked.versions = {v}
    BY DEF Question
  <1>4. ToSet(found) = choices
    BY <1>1, <1>2, <1>3 DEF Sets!In, Sets!Matching
  <1> HIDE DEF choices
  <1>5. Sets!OneOf(choices, reply)
    <2>1. CASE found = <<>>
      <3>1. ToSet(<<>>) = {}
        BY DEF ToSet
      <3>2. choices = {}
        BY <1>4, <2>1, <3>1
      <3> QED
        BY <2>1, <3>2 DEF Raised, Reply, Sets!OneOf
    <2>2. CASE found # <<>>
      <3>1. found \in Seq(Packages)
        BY <1>2 DEF IsListOf
      <3>2. 1 \in DOMAIN found /\ Head(found) = found[1]
        BY <2>2, <3>1
      <3>3. Head(found) \in choices
        BY <1>4, <3>2 DEF ToSet
      <3>4. reply = [to |-> asked, ok |-> TRUE, list |-> <<Head(found)>>]
        BY <2>2 DEF Reply
      <3> HIDE DEF reply
      <3>5. reply.ok = TRUE /\ reply.list = <<Head(found)>>
        BY <3>4
      <3> QED
        BY <3>3, <3>5 DEF Sets!OneOf
    <2> QED
      BY <2>1, <2>2
  <1> HIDE DEF reply
  <1>6. Sets!Correct(asked, reply)
    BY <1>3, <1>5 DEF Sets!Correct, choices
  <1> QED
    BY <1>6 DEF reply

(* has_package finds what the bag has. *)
LEMMA HasIsIn ==
    ASSUME ListsOK, NEW p \in Packages
    PROVE  Has(p) <=> \E q \in Sets!In(p.name) : q.text = p.text
  <1>1. Sets!In(p.name) = ToSet(Get(index, p.name))
    BY InIsList
  <1> QED
    BY <1>1 DEF Has

(* has_package *)
LEMMA HasAnswered ==
    ASSUME ListsOK, NEW p \in Packages, NEW asked, asked = Question("has", p.name, {}, p.text)
    PROVE  Sets!Correct(asked, Reply(asked, Has(p), <<>>))
  <1> DEFINE reply == Reply(asked, Has(p), <<>>)
  <1>1. reply.list = <<>> /\ reply.ok = Has(p)
    BY DEF Reply
  <1>2. Has(p) = \E q \in Sets!In(p.name) : q.text = p.text
    <2>1. Has(p) \in BOOLEAN
      BY DEF Has
    <2> QED
      BY <2>1, HasIsIn
  <1>3. asked.op = "has" /\ asked.name = p.name /\ asked.text = p.text
    BY DEF Question
  <1> QED
    BY <1>1, <1>2, <1>3 DEF Sets!Correct

(* find_packages *)
LEMMA PackagesAnswered ==
    ASSUME ListsOK, NEW n \in Names, NEW asked, asked = Question("packages", n, {}, "any")
    PROVE  Sets!Correct(asked, Reply(asked, TRUE, Get(index, n)))
  <1> DEFINE list == Get(index, n)
             reply == Reply(asked, TRUE, list)
  <1>1. IsListOf(list, n)
    BY GetIsList
  <1>2. reply.ok = TRUE /\ reply.list = list
    BY DEF Reply
  <1>3. ASSUME NEW p \in Packages
        PROVE  Cardinality(Places(list, p)) = IF p.name = n THEN Count(p) ELSE 0
    <2>1. CASE p.name = n
      BY <2>1 DEF Count
    <2>2. CASE p.name # n
      <3>1. Places(list, p) = {}
        BY <1>1, <2>2 DEF IsListOf, Places
      <3> QED
        BY <2>2, <3>1, FS_EmptySet
    <2> QED
      BY <2>1, <2>2
  <1> HIDE DEF list, reply
  <1>4. /\ \A p \in Packages : Cardinality(Places(reply.list, p))
                               = IF p.name = n THEN [q \in Packages |-> Count(q)][p] ELSE 0
        /\ Sorted(reply.list)
    BY <1>1, <1>2, <1>3 DEF IsListOf
  <1>c. \A S : Sets!Cardinality(S) = Cardinality(S)
    BY DEF Cardinality, Sets!Cardinality
  <1>5. Sets!AllSorted(n, reply.list)
    BY <1>4, <1>c DEF Sets!AllSorted, Places, Sorted
  <1>6. asked.op = "packages" /\ asked.name = n
    BY DEF Question
  <1>7. Sets!Correct(asked, reply)
    BY <1>2, <1>5, <1>6 DEF Sets!Correct
  <1> QED
    BY <1>7 DEF reply, list

(* SetToSeq lists every element of a finite set once. *)
LEMMA SetToSeqProperties ==
    ASSUME NEW S, IsFiniteSet(S)
    PROVE  /\ SetToSeq(S) \in [1..Cardinality(S) -> S]
           /\ \A x \in S : \E i \in 1..Cardinality(S) : SetToSeq(S)[i] = x
           /\ \A i, j \in 1..Cardinality(S) : SetToSeq(S)[i] = SetToSeq(S)[j] => i = j
  <1> DEFINE D == 1..Cardinality(S)
             seq == SetToSeq(S)
  <1>1. Cardinality(S) \in Nat /\ ExistsBijection(D, S)
    BY FS_CardinalityType
  <1>2. PICK b : b \in Bijection(D, S)
    BY <1>1 DEF ExistsBijection
  <1>3. b \in [D -> S] /\ IsInjective(b)
    BY <1>2 DEF Bijection, Injection
  <1>4. seq \in [D -> S] /\ IsInjective(seq)
    BY <1>3 DEF SetToSeq
  <1>5. IsFiniteSet(D) /\ Cardinality(D) = Cardinality(S)
    BY <1>1, FS_Interval
  <1> HIDE DEF seq, D
  <1>6. seq \in Injection(D, S)
    BY <1>4 DEF Injection
  <1>7. seq \in Surjection(D, S)
    BY <1>5, <1>6, FS_Injection
  <1>8. /\ seq \in [D -> S]
        /\ \A x \in S : \E i \in D : seq[i] = x
        /\ \A i, j \in D : seq[i] = seq[j] => i = j
    BY <1>4, <1>7 DEF Surjection, IsInjective
  <1> QED
    BY <1>8 DEF D, seq

LastOnes == {Last(index[n]) : n \in DOMAIN index}

(* One that is newest of each name. *)
NewestOfEach(list) ==
    /\ \A p \in ToSet(list) : p \in Sets!Newest(Sets!In(p.name))
    /\ \A n \in DOMAIN index : \E i \in DOMAIN list :
         {j \in DOMAIN list : list[j].name = n} = {i}

(* packages[-1] of every list is. *)
LEMMA RecentListed ==
    ASSUME ListsOK, \A n \in DOMAIN index : index[n] # <<>>,
           NEW list, list = SetToSeq(LastOnes)
    PROVE  NewestOfEach(list)
  <1> USE DEF LastOnes
  <1> DEFINE S == LastOnes
             D == 1..Cardinality(S)
             last == [n \in DOMAIN index |-> Last(index[n])]
  <1>1. ASSUME NEW n \in DOMAIN index
        PROVE  /\ Last(index[n]).name = n
               /\ Last(index[n]) \in Sets!Newest(Sets!In(n))
    <2>1. IsListOf(index[n], n) /\ index[n] # <<>>
      BY DEF ListsOK
    <2>2. Last(index[n]) \in ToSet(index[n]) /\ Last(index[n]) \in Sets!Newest(ToSet(index[n]))
      BY <2>1, LastIsNewest
    <2>3. Sets!In(n) = ToSet(index[n])
      BY InIsList DEF Get
    <2>4. Last(index[n]).name = n
      BY <2>1, <2>2 DEF IsListOf, ToSet
    <2> QED
      BY <2>2, <2>3, <2>4
  <1>2. IsFiniteSet(S)
    <2>1. last \in Surjection(DOMAIN index, S)
      BY DEF Surjection
    <2> QED
      BY <2>1, FS_Surjection DEF ListsOK
  <1>3. /\ list \in [D -> S]
        /\ \A x \in S : \E i \in D : list[i] = x
        /\ \A i, j \in D : list[i] = list[j] => i = j
    BY <1>2, SetToSeqProperties
  <1>4. ASSUME NEW i \in D
        PROVE  \E n \in DOMAIN index : list[i] = Last(index[n])
    <2>1. list[i] \in S
      BY <1>3
    <2> QED
      BY <2>1
  <1> HIDE DEF D
  <1>5. ASSUME NEW p \in ToSet(list) PROVE p \in Sets!Newest(Sets!In(p.name))
    <2>1. PICK i \in D : p = list[i]
      BY <1>3 DEF ToSet
    <2>2. PICK n \in DOMAIN index : p = Last(index[n])
      BY <1>4, <2>1
    <2> QED
      BY <1>1, <2>2
  <1>6. ASSUME NEW n \in DOMAIN index
        PROVE  \E i \in DOMAIN list : {j \in DOMAIN list : list[j].name = n} = {i}
    <2>1. PICK i \in D : list[i] = Last(index[n])
      BY <1>3
    <2>2. ASSUME NEW j \in D, list[j].name = n PROVE j = i
      <3>1. PICK m \in DOMAIN index : list[j] = Last(index[m])
        BY <1>4
      <3>2. m = n
        BY <1>1, <2>2, <3>1
      <3> QED
        BY <1>3, <2>1, <3>1, <3>2
    <2>3. list[i].name = n
      BY <1>1, <2>1
    <2>4. {j \in D : list[j].name = n} = {i}
      BY <2>2, <2>3
    <2> QED
      BY <1>3, <2>4
  <1> QED
    BY <1>5, <1>6 DEF NewestOfEach

(* iter_most_recent_packages *)
LEMMA RecentAnswered ==
    ASSUME ListsOK, IterMostRecentPackages, NEW asked, asked = Question("recent", "any", {}, "any")
    PROVE  answer'.to = asked /\ Sets!Correct(asked, answer')
  <1>0. asked.op = "recent"
    BY DEF Question
  <1>1. ASSUME NEW n \in DOMAIN index PROVE Sets!In(n) = {} <=> index[n] = <<>>
    <2>1. Sets!In(n) = ToSet(index[n]) /\ index[n] \in Seq(Packages)
      BY InIsList DEF Get, ListsOK, IsListOf
    <2>2. DOMAIN index[n] = {} <=> index[n] = <<>>
      BY <2>1
    <2> QED
      BY <2>1, <2>2 DEF ToSet
  <1>2. CASE \E n \in DOMAIN index : index[n] = <<>>
    <2>1. answer' = Raised(asked)
      BY <1>2 DEF IterMostRecentPackages, AnswerWith
    <2>2. answer'.to = asked /\ answer'.ok = FALSE
      BY <2>1 DEF Raised, Reply
    <2> QED
      BY <1>0, <1>1, <1>2, <2>2 DEF Sets!Correct, Sets!RecentOnes
  <1>3. CASE \A n \in DOMAIN index : index[n] # <<>>
    <2>0. PICK reply, list : reply = answer' /\ list = reply.list
      OBVIOUS
    <2>1. reply = answer' /\ list = reply.list
      BY <2>0
    <2>2. reply = Reply(asked, TRUE, SetToSeq(LastOnes))
      BY <1>3, <2>1 DEF IterMostRecentPackages, AnswerWith, LastOnes
    <2>3. /\ reply.to = asked /\ reply.ok = TRUE
          /\ list = SetToSeq(LastOnes)
      BY <2>1, <2>2 DEF Reply
    <2>4. NewestOfEach(list)
      BY <1>3, <2>3, RecentListed
    <2>4b. NewestOfEach(reply.list)
      BY <2>1, <2>4
    <2>5. ~ \E n \in DOMAIN index : Sets!In(n) = {}
      BY <1>1, <1>3
    <2>6. Sets!RecentOnes(reply)
      BY <2>3, <2>4b, <2>5 DEF Sets!RecentOnes, NewestOfEach, ToSet, Sets!ToSet
    <2>7. Sets!Correct(asked, reply)
      BY <1>0, <2>6 DEF Sets!Correct
    <2> QED
      BY <2>1, <2>3, <2>7
  <1> QED
    BY <1>2, <1>3

-----------------------------------------------------------------------------
(* Every step is one of the bag *)

(* Loading adds nothing yet, adding adds one package, deleting removes all *)
(* of that full version, and questions only make names known.              *)
LEMMA EveryStepOfBag ==
    ASSUME ListsOK, [RepositoryNext]_repositoryVars
    PROVE  [Sets!Next]_(Sets!vars)
  <1> DEFINE Simulated == [Sets!Next]_(Sets!vars)
             bag == [q \in Packages |-> Count(q)]
             bagThen == [q \in Packages |-> Count(q)']
  <1>1. ASSUME index' = index PROVE bagThen = bag
    <2>1. ASSUME NEW q \in Packages PROVE Count(q)' = Count(q)
      BY <1>1 DEF Count, Places, Get
    <2> QED
      BY <2>1
  <1>2. ASSUME NEW ps \in SUBSET Packages, answer' = NoAnswer,
               DOMAIN index' = DOMAIN index \cup {q.name : q \in ps},
               \A q \in Packages : Count(q)' = IF q \in ps THEN Count(q) + 1 ELSE Count(q)
        PROVE  Simulated
    <2>1. bagThen = [q \in Packages |-> IF q \in ps THEN bag[q] + 1 ELSE bag[q]]
      BY <1>2
    <2>2. answer' = Sets!NoAnswer
      BY <1>2 DEF NoAnswer, NoQuestion, Question, Reply, Sets!NoAnswer,
           Sets!NoQuestion, Sets!Question, Sets!Reply
    <2>3. Sets!Add(ps)
      BY <1>2, <2>1, <2>2 DEF Sets!Add
    <2> QED
      BY <2>3 DEF Sets!Next
  <1>3. ASSUME NEW p \in Packages, index' = Added(p), answer' = NoAnswer,
               loaded' \subseteq Stores, adding' \subseteq Packages
        PROVE  Simulated
    <2>1. /\ DOMAIN index' = DOMAIN index \cup {p.name}
          /\ \A q \in Packages : Count(q)' = Count(q) + (IF q = p THEN 1 ELSE 0)
      BY <1>3, AddedEffect
    <2>2. \A q \in Packages : Count(q) \in Nat
      BY GetIsList, PlacesFinite DEF Count, IsListOf
    <2>3. \A q \in Packages : Count(q)' = IF q \in {p} THEN Count(q) + 1 ELSE Count(q)
      BY <2>1, <2>2
    <2>4. {p} \in SUBSET Packages /\ {q.name : q \in {p}} = {p.name}
      OBVIOUS
    <2> QED
      BY <1>2, <1>3, <2>1, <2>3, <2>4
  <1>4. ASSUME NEW asked, answer'.to = asked, Sets!Correct(asked, answer'), bagThen = bag,
               DOMAIN index' = IF asked.op \in {"has", "find"} THEN DOMAIN index \cup {asked.name}
                               ELSE DOMAIN index
        PROVE  Simulated
    <2>1. Sets!Ask(answer'.to)
      BY <1>4 DEF Sets!Ask
    <2> QED
      BY <2>1 DEF Sets!Next
  <1>5. ASSUME NEW s \in Stores, Load(s) PROVE Simulated
    <2>1. index' = index /\ answer' = NoAnswer
      BY <1>5 DEF Load
    <2>2. \A q \in Packages : Count(q)' = Count(q)
      BY <2>1 DEF Count, Places, Get
    <2>3. {q.name : q \in {}} = {}
      OBVIOUS
    <2> QED
      BY <1>2, <2>1, <2>2, <2>3
  <1>6. ASSUME NEW p \in Packages, AddParsed(p) PROVE Simulated
    BY <1>3, <1>6 DEF AddParsed, ListsOK
  <1>7. ASSUME NEW p \in Packages, AddPackage(p) PROVE Simulated
    BY <1>3, <1>7 DEF AddPackage, ListsOK
  <1>8. ASSUME NEW p \in Packages, DeletePackage(p) PROVE Simulated
    <2> DEFINE same == {q \in Sets!In(p.name) : q.text = p.text}
    <2>1. /\ DOMAIN index' = DOMAIN index \cup {p.name}
          /\ \A q \in Packages : Count(q)' =
               IF q.name = p.name /\ q.text = p.text THEN 0 ELSE Count(q)
      BY <1>8, DeleteEffect
    <2>2. \A q \in Packages : Count(q) \in Nat
      BY GetIsList, PlacesFinite DEF Count, IsListOf
    <2>3. ASSUME NEW q \in Packages PROVE Count(q)' = IF q \in same THEN 0 ELSE Count(q)
      <3>1. q \in same <=> Count(q) > 0 /\ q.name = p.name /\ q.text = p.text
        BY DEF Sets!In
      <3> QED
        BY <2>1, <2>2, <3>1
    <2>4. bagThen = [q \in Packages |-> IF q \in same THEN 0 ELSE bag[q]]
      BY <2>3
    <2>5. Has(p) <=> same # {}
      BY HasIsIn
    <2>6. answer' = IF same = {} THEN Sets!Raised(Sets!Question("delete", p.name, {}, p.text))
                   ELSE Sets!NoAnswer
      BY <1>8, <2>5 DEF DeletePackage, NoAnswer, NoQuestion, Question, Raised, Reply,
           Sets!NoAnswer, Sets!NoQuestion, Sets!Question, Sets!Raised, Sets!Reply
    <2>7. Sets!Delete(p)
      BY <2>1, <2>4, <2>6 DEF Sets!Delete
    <2> QED
      BY <2>7 DEF Sets!Next
  <1>9. ASSUME NEW n \in Names, index' = Touched(n), loaded' = loaded, adding' = adding
        PROVE  bagThen = bag /\ DOMAIN index' = DOMAIN index \cup {n}
    <2>1. DOMAIN index' = DOMAIN index \cup {n} /\ \A q \in Packages : Count(q)' = Count(q)
      BY <1>9, TouchedEffect
    <2> QED
      BY <2>1
  <1>10. ASSUME NEW p \in Packages, HasPackage(p) PROVE Simulated
    <2> DEFINE asked == Question("has", p.name, {}, p.text)
    <2>1. /\ index' = Touched(p.name) /\ loaded' = loaded /\ adding' = adding
          /\ answer' = Reply(asked, Has(p), <<>>)
      BY <1>10 DEF HasPackage, AnswerWith
    <2>2. p.name \in Names
      BY PackageFacts
    <2>3. answer'.to = asked /\ asked.op = "has" /\ asked.name = p.name
      BY <2>1 DEF Reply, Question
    <2>4. Sets!Correct(asked, answer')
      BY <2>1, HasAnswered
    <2> HIDE DEF asked
    <2> QED
      BY <1>4, <1>9, <2>1, <2>2, <2>3, <2>4
  <1>11. ASSUME NEW n \in Names, NEW v \in Versions, FindPackage(n, v) PROVE Simulated
    <2> DEFINE found == Pick(Get(index, n), {p \in Packages : p.version = v})
               asked == Question("find", n, {v}, "any")
    <2>1. /\ index' = Touched(n) /\ loaded' = loaded /\ adding' = adding
          /\ answer' = IF found = <<>> THEN Raised(asked) ELSE Reply(asked, TRUE, <<Head(found)>>)
      BY <1>11 DEF FindPackage, AnswerWith
    <2>2. Sets!Correct(asked, answer')
      BY <2>1, FindAnswered
    <2>3. answer'.to = asked /\ asked.op = "find" /\ asked.name = n
      BY <2>1 DEF Raised, Reply, Question
    <2> HIDE DEF asked
    <2> QED
      BY <1>4, <1>9, <2>1, <2>2, <2>3
  <1>12. ASSUME NEW asked, index' = index, answer'.to = asked,
                Sets!Correct(asked, answer'), asked.op \notin {"has", "find"}
         PROVE  Simulated
    BY <1>1, <1>4, <1>12
  <1>13. ASSUME NEW n \in Names, FindPackages(n) PROVE Simulated
    <2> DEFINE asked == Question("packages", n, {}, "any")
    <2>1. index' = index /\ answer' = Reply(asked, TRUE, Get(index, n))
      BY <1>13 DEF FindPackages, AnswerWith
    <2>2. answer'.to = asked /\ asked.op = "packages"
      BY <2>1 DEF Reply, Question
    <2>3. Sets!Correct(asked, answer')
      BY <2>1, PackagesAnswered
    <2> QED
      BY <1>12, <2>1, <2>2, <2>3
  <1>14. ASSUME NEW n \in Names, FindLatestPackage(n) PROVE Simulated
    <2> DEFINE asked == Question("latest", n, {}, "any")
    <2>1. index' = index /\ answer' = LastOf(asked, Get(index, n))
      BY <1>14 DEF FindLatestPackage, AnswerWith
    <2>2. answer'.to = asked /\ asked.op = "latest"
      BY <2>1 DEF LastOf, Raised, Reply, Question
    <2>3. Sets!Correct(asked, answer')
      BY <2>1, LatestAnswered
    <2> QED
      BY <1>12, <2>1, <2>2, <2>3
  <1>15. ASSUME NEW n \in Names, NEW vs \in SUBSET Versions, FindPackageFromRequirement(n, vs)
         PROVE  Simulated
    <2> DEFINE asked == Question("requirement", n, vs, "any")
    <2>1. index' = index /\ answer' = LastOf(asked, Candidates(n, vs))
      BY <1>15 DEF FindPackageFromRequirement, AnswerWith
    <2>2. answer'.to = asked /\ asked.op = "requirement"
      BY <2>1 DEF LastOf, Raised, Reply, Question
    <2>3. Sets!Correct(asked, answer')
      BY <2>1, RequirementAnswered
    <2> QED
      BY <1>12, <2>1, <2>2, <2>3
  <1>16. ASSUME IterMostRecentPackages PROVE Simulated
    <2> DEFINE asked == Question("recent", "any", {}, "any")
    <2>1. index' = index
      BY <1>16 DEF IterMostRecentPackages
    <2>2. answer'.to = asked /\ Sets!Correct(asked, answer')
      BY <1>16, RecentAnswered
    <2>3. asked.op = "recent"
      BY DEF Question
    <2> HIDE DEF asked
    <2> QED
      BY <1>1, <1>4, <2>1, <2>2, <2>3
  <1>17. ASSUME UNCHANGED repositoryVars PROVE Simulated
    <2>1. index' = index /\ answer' = answer
      BY <1>17 DEF repositoryVars
    <2>2. UNCHANGED Sets!vars
      BY <1>1, <2>1 DEF Sets!vars
    <2> QED
      BY <2>2
  <1> HIDE DEF Simulated
  <1>18. Simulated
    BY <1>5, <1>6, <1>7, <1>8, <1>10, <1>11, <1>13, <1>14, <1>15, <1>16, <1>17
    DEF RepositoryNext
  <1> QED
    BY <1>18 DEF Simulated

(* For any indices, and any names and versions one asks for: a repository  *)
(* is to its users a bag of packages: the answer to each question is the   *)
(* one that follows from it and from what was added and deleted.           *)
(* (class Repository)                                                      *)
THEOREM RepositoryIsBag == RepositorySpec => KnowsItsPackages
  <1>1. RepositoryInit => Sets!Init
    <2> SUFFICES ASSUME RepositoryInit PROVE Sets!Init
      OBVIOUS
    <2>1. DOMAIN index = {} /\ answer = Sets!NoAnswer
      BY DEF RepositoryInit, NoAnswer, NoQuestion, Question, Reply, Sets!NoAnswer,
           Sets!NoQuestion, Sets!Question, Sets!Reply
    <2>2. ASSUME NEW p \in Packages PROVE Count(p) = 0
      <3>1. Get(index, p.name) = <<>>
        BY <2>1 DEF Get
      <3>2. Places(<<>>, p) = {}
        BY DEF Places
      <3> QED
        BY <3>1, <3>2, FS_EmptySet DEF Count
    <2> QED
      BY <2>1, <2>2 DEF Sets!Init
  <1>2. RepositoryInv /\ [RepositoryNext]_repositoryVars => [Sets!Next]_(Sets!vars)
    BY EveryStepOfBag DEF RepositoryInv
  <1> QED
    BY <1>1, <1>2, RepositoryInvariance, PTL DEF RepositorySpec, KnowsItsPackages, Sets!Spec

-----------------------------------------------------------------------------
(* Fetching into the cache *)

(* The variables are functions of the process; of what a process receives  *)
(* and writes no more is needed.                                           *)
Shape ==
    /\ temp = [p \in Procs |-> temp[p]]
    /\ body = [p \in Procs |-> body[p]]

(* How a fetch ended is known when it ended, and not before; a body is     *)
(* read in one place; what is about to be published was verified.          *)
Stages ==
    \A p \in Procs :
        /\ outcome[p] # "none" <=> pc[p] = "done"
        /\ body[p] # <<>> => pc[p] = "body"
        /\ pc[p] \in {"publish", "unlink", "replace"} => temp[p] = want[p]
        /\ posix => pc[p] \notin {"unlink", "replace"}

(* On systems where rename replaces files, the egg that a successful fetch *)
(* found or left stays.                                                    *)
Delivered == EggStaysInCache /\ ForcedFetchDelivers

IInv == TypeOK /\ Shape /\ Stages /\ Delivered

(* The initial states. *)
LEMMA InitIInv == Init => IInv
  BY FetchAssumption DEF Init, IInv, Shape, TypeOK, Contents, Stages, Delivered, Steps, Outcomes, EggStaysInCache,
     ForcedFetchDelivers, Succeeded

(* Each step keeps the types: what is published was verified, so it is one *)
(* of the wanted eggs, and only an attempt that may be repeated counts on. *)
LEMMA NextTypeOK ==
    ASSUME TypeOK, Shape, Stages, [Next]_vars
    PROVE  TypeOK'
  <1> USE FetchAssumption DEF TypeOK, Contents, Steps, Outcomes
  <1>1. CASE UNCHANGED vars
    BY <1>1 DEF vars
  <1> SUFFICES ASSUME posix' = posix, Next PROVE TypeOK'
    BY <1>1 DEF Next, OwnStep, ServerStep, Event
  <1> USE DEF Stages
  <1>2. ASSUME NEW p \in Procs, Start(p) PROVE TypeOK'
    BY <1>2 DEF Start, GoTo
  <1>3. ASSUME NEW p \in Procs, Check(p) PROVE TypeOK'
    <2>1. CASE NeedsToDownload(p)
      BY <1>3, <2>1 DEF Check, GoTo, End
    <2>2. CASE ~ (NeedsToDownload(p))
      BY <1>3, <2>2 DEF Check, GoTo, End
    <2> QED BY <2>1, <2>2
  <1>4. ASSUME NEW p \in Procs, OpenTemp(p) PROVE TypeOK'
    <2>1. CASE NeedsToDownload(p)
      BY <1>4, <2>1 DEF OpenTemp, GoTo, End
    <2>2. CASE ~ (NeedsToDownload(p))
      BY <1>4, <2>2 DEF OpenTemp, GoTo, End
    <2> QED BY <2>1, <2>2
  <1>5. ASSUME NEW p \in Procs, NEW content \in Answers, Request(p, content)
        PROVE  TypeOK'
    BY <1>5 DEF Request, GoTo
  <1>6. ASSUME NEW p \in Procs, Fail(p) PROVE TypeOK'
    BY <1>6 DEF Fail, GoTo, End
  <1>7. ASSUME NEW p \in Procs, ReceiveChunk(p) PROVE TypeOK'
    BY <1>7 DEF ReceiveChunk
  <1>8. ASSUME NEW p \in Procs, AbortChunk(p) PROVE TypeOK'
    BY <1>8 DEF AbortChunk, GoTo, End
  <1>9. ASSUME NEW p \in Procs, EndOfBody(p) PROVE TypeOK'
    BY <1>9 DEF EndOfBody, GoTo
  <1>10. ASSUME NEW p \in Procs, Accept(p) PROVE TypeOK'
    BY <1>10 DEF Accept, GoTo
  <1>11. ASSUME NEW p \in Procs, Reject(p) PROVE TypeOK'
    <2>1. CASE attempt[p] < MaxRetries
      <3>1. attempt[p] + 1 \in 0..MaxRetries
        BY <2>1
      <3>2. attempt' \in [Procs -> 0..MaxRetries]
        BY <1>11, <2>1, <3>1 DEF Reject
      <3>3. pc' \in [Procs -> Steps] /\ outcome' \in [Procs -> Outcomes]
        BY <1>11, <2>1 DEF Reject, GoTo
      <3> QED BY <1>11, <3>2, <3>3 DEF Reject
    <2>2. CASE ~ (attempt[p] < MaxRetries)
      BY <1>11, <2>2 DEF Reject, GoTo, End
    <2> QED BY <2>1, <2>2
  <1>12. ASSUME NEW p \in Procs, Publish(p) PROVE TypeOK'
    BY <1>12 DEF Publish, GoTo, End
  <1>13. ASSUME NEW p \in Procs, RenameRefused(p) PROVE TypeOK'
    BY <1>13 DEF RenameRefused, GoTo
  <1>14. ASSUME NEW p \in Procs, UnlinkTarget(p) PROVE TypeOK'
    <2>1. CASE file = NoFile
      BY <1>14, <2>1 DEF UnlinkTarget, GoTo, End
    <2>2. CASE ~ (file = NoFile)
      BY <1>14, <2>2 DEF UnlinkTarget, GoTo, End
    <2> QED BY <2>1, <2>2
  <1>15. ASSUME NEW p \in Procs, RenameAgain(p) PROVE TypeOK'
    <2>1. CASE file = NoFile
      <3>1. file' = want[p] /\ want[p] \in Wanted
        BY <1>15, <2>1 DEF RenameAgain
      <3>2. pc' \in [Procs -> Steps] /\ outcome' \in [Procs -> Outcomes]
        BY <1>15, <2>1 DEF RenameAgain, GoTo, End
      <3> QED BY <1>15, <3>1, <3>2 DEF RenameAgain
    <2>2. CASE ~ (file = NoFile)
      BY <1>15, <2>2 DEF RenameAgain, GoTo, End
    <2> QED BY <2>1, <2>2
  <1>16. ASSUME NEW p \in Procs, Cancel(p) PROVE TypeOK'
    BY <1>16 DEF Cancel
  <1>17. ASSUME NEW p \in Procs, Kill(p) PROVE TypeOK'
    BY <1>17 DEF Kill, GoTo
  <1>18. ASSUME NEW p \in Procs, RenameFails(p) PROVE TypeOK'
    BY <1>18 DEF RenameFails, GoTo, End
  <1> QED BY <1>2, <1>3, <1>4, <1>5, <1>6, <1>7, <1>8, <1>9, <1>10, <1>11,
             <1>12, <1>13, <1>14, <1>15, <1>16, <1>17, <1>18 DEF Next, OwnStep, ServerStep, Event

(* Each step keeps the shape of the state and the stages of the fetches. *)
LEMMA NextStages ==
    ASSUME TypeOK, Shape, Stages, [Next]_vars
    PROVE  Shape' /\ Stages'
  <1> USE DEF TypeOK, Shape, Stages, Steps, Outcomes
  <1>1. CASE UNCHANGED vars
    BY <1>1 DEF vars
  <1> SUFFICES ASSUME posix' = posix, Next PROVE Shape' /\ Stages'
    BY <1>1 DEF Next, OwnStep, ServerStep, Event
  <1>2. ASSUME NEW p \in Procs, Start(p) PROVE Shape' /\ Stages'
    BY <1>2 DEF Start, GoTo
  <1>3. ASSUME NEW p \in Procs, Check(p) PROVE Shape' /\ Stages'
    <2>1. CASE NeedsToDownload(p)
      BY <1>3, <2>1 DEF Check, GoTo, End
    <2>2. CASE ~ (NeedsToDownload(p))
      BY <1>3, <2>2 DEF Check, GoTo, End
    <2> QED BY <2>1, <2>2
  <1>4. ASSUME NEW p \in Procs, OpenTemp(p) PROVE Shape' /\ Stages'
    <2>1. CASE NeedsToDownload(p)
      <3>1. Shape'
        BY <1>4, <2>1 DEF OpenTemp
      <3>2. Stages'
        BY <1>4, <2>1 DEF OpenTemp, GoTo
      <3> QED BY <3>1, <3>2
    <2>2. CASE ~ (NeedsToDownload(p))
      <3>1. Shape'
        BY <1>4, <2>2 DEF OpenTemp
      <3>2. /\ pc' = [pc EXCEPT ![p] = "done"] /\ outcome' = [outcome EXCEPT ![p] = "present"]
            /\ temp' = temp /\ body' = body /\ want' = want /\ pc[p] = "open"
        BY <1>4, <2>2 DEF OpenTemp, GoTo, End
      <3>3. \A q \in Procs \ {p} : pc'[q] = pc[q] /\ outcome'[q] = outcome[q]
        BY <3>2
      <3>4. pc'[p] = "done" /\ outcome'[p] = "present" /\ body[p] = <<>>
        BY <3>2
      <3>5. Stages'
        BY <3>2, <3>3, <3>4
      <3> QED BY <3>1, <3>5
    <2> QED BY <2>1, <2>2
  <1>5. ASSUME NEW p \in Procs, NEW content \in Answers, Request(p, content)
        PROVE  Shape' /\ Stages'
    BY <1>5 DEF Request, GoTo
  <1>6. ASSUME NEW p \in Procs, Fail(p) PROVE Shape' /\ Stages'
    BY <1>6 DEF Fail, GoTo, End, Cleanup
  <1>7. ASSUME NEW p \in Procs, ReceiveChunk(p) PROVE Shape' /\ Stages'
    BY <1>7 DEF ReceiveChunk
  <1>8. ASSUME NEW p \in Procs, AbortChunk(p) PROVE Shape' /\ Stages'
    BY <1>8 DEF AbortChunk, GoTo, End, Cleanup
  <1>9. ASSUME NEW p \in Procs, EndOfBody(p) PROVE Shape' /\ Stages'
    BY <1>9 DEF EndOfBody, GoTo
  <1>10. ASSUME NEW p \in Procs, Accept(p) PROVE Shape' /\ Stages'
    BY <1>10 DEF Accept, GoTo
  <1>11. ASSUME NEW p \in Procs, Reject(p) PROVE Shape' /\ Stages'
    <2>1. CASE attempt[p] < MaxRetries
      <3>1. Shape'
        BY <1>11, <2>1 DEF Reject, Cleanup
      <3>2. Stages'
        BY <1>11, <2>1 DEF Reject, GoTo, Cleanup
      <3> QED BY <3>1, <3>2
    <2>2. CASE ~ (attempt[p] < MaxRetries)
      <3>1. Shape'
        BY <1>11, <2>2 DEF Reject, Cleanup
      <3>2. Stages'
        BY <1>11, <2>2 DEF Reject, GoTo, End, Cleanup
      <3> QED BY <3>1, <3>2
    <2> QED BY <2>1, <2>2
  <1>12. ASSUME NEW p \in Procs, Publish(p) PROVE Shape' /\ Stages'
    BY <1>12 DEF Publish, GoTo, End, Cleanup
  <1>13. ASSUME NEW p \in Procs, RenameRefused(p) PROVE Shape' /\ Stages'
    BY <1>13 DEF RenameRefused, GoTo
  <1>14. ASSUME NEW p \in Procs, UnlinkTarget(p) PROVE Shape' /\ Stages'
    <2>1. CASE file = NoFile
      BY <1>14, <2>1 DEF UnlinkTarget, GoTo, End
    <2>2. CASE ~ (file = NoFile)
      BY <1>14, <2>2 DEF UnlinkTarget, GoTo, End
    <2> QED BY <2>1, <2>2
  <1>15. ASSUME NEW p \in Procs, RenameAgain(p) PROVE Shape' /\ Stages'
    <2>1. CASE file = NoFile
      BY <1>15, <2>1 DEF RenameAgain, GoTo, End, Cleanup
    <2>2. CASE ~ (file = NoFile)
      BY <1>15, <2>2 DEF RenameAgain, GoTo, End, Cleanup
    <2> QED BY <2>1, <2>2
  <1>16. ASSUME NEW p \in Procs, Cancel(p) PROVE Shape' /\ Stages'
    BY <1>16 DEF Cancel
  <1>17. ASSUME NEW p \in Procs, Kill(p) PROVE Shape' /\ Stages'
    BY <1>17 DEF Kill, GoTo
  <1>18. ASSUME NEW p \in Procs, RenameFails(p) PROVE Shape' /\ Stages'
    BY <1>18 DEF RenameFails, GoTo, End
  <1> QED BY <1>2, <1>3, <1>4, <1>5, <1>6, <1>7, <1>8, <1>9, <1>10, <1>11,
             <1>12, <1>13, <1>14, <1>15, <1>16, <1>17, <1>18 DEF Next, OwnStep, ServerStep, Event

(* A step that ends a fetch well finds an egg or puts one there, and where *)
(* rename replaces files no step takes an egg away.                        *)
LEMMA NextDelivered ==
    ASSUME IInv, [Next]_vars
    PROVE  Delivered'
  <1>1. CASE UNCHANGED vars
    BY <1>1 DEF vars, IInv, Delivered, EggStaysInCache, ForcedFetchDelivers, Succeeded,
         SameIndex
  <1> SUFFICES ASSUME Next, posix, posix' = posix
               PROVE  EggStaysInCache' /\ ForcedFetchDelivers'
    BY <1>1 DEF Next, OwnStep, ServerStep, Event, Delivered, EggStaysInCache, ForcedFetchDelivers
  <1> USE FetchAssumption
      DEF IInv, Shape, TypeOK, Stages, Delivered, EggStaysInCache, ForcedFetchDelivers,
          Succeeded, SameIndex
  <1> DEFINE Kept == EggStaysInCache' /\ ForcedFetchDelivers'
  <1>2. ASSUME NEW p \in Procs, Check(p) PROVE Kept
    BY <1>2 DEF Check, GoTo, End, NeedsToDownload
  <1>3. ASSUME NEW p \in Procs, OpenTemp(p) PROVE Kept
    BY <1>3 DEF OpenTemp, GoTo, End, NeedsToDownload
  <1>4. ASSUME NEW p \in Procs, Publish(p) PROVE Kept
    BY <1>4 DEF Publish, GoTo, End
  <1>5. ASSUME NEW p \in Procs, UnlinkTarget(p) \/ RenameAgain(p) PROVE Kept
    BY <1>5 DEF UnlinkTarget, RenameAgain
  <1>6. ASSUME NEW p \in Procs, Fail(p) \/ AbortChunk(p) \/ Reject(p) \/ RenameFails(p)
        PROVE  Kept
    BY <1>6 DEF Fail, AbortChunk, Reject, RenameFails, GoTo, End
  <1>7. ASSUME NEW p \in Procs,
               \/ Start(p) \/ ReceiveChunk(p) \/ EndOfBody(p) \/ Accept(p)
               \/ RenameRefused(p) \/ Cancel(p) \/ Kill(p)
               \/ \E content \in Answers : Request(p, content)
        PROVE  Kept
    BY <1>7 DEF Start, ReceiveChunk, EndOfBody, Accept, RenameRefused, Cancel, Kill,
         Request
  <1> QED BY <1>2, <1>3, <1>4, <1>5, <1>6, <1>7 DEF Next, OwnStep, ServerStep, Event

(* The invariant of all fetches. *)
THEOREM Invariance == Spec => []IInv
  <1>1. IInv /\ [Next]_vars => IInv'
    BY NextTypeOK, NextStages, NextDelivered DEF IInv
  <1> QED BY InitIInv, <1>1, PTL DEF Spec

(* The types of the state: the cache holds nothing but eggs the indices or *)
(* the server know, and no fetch is tried more often than it may be.       *)
THEOREM TypeCorrect == Spec => []TypeOK
  BY Invariance, PTL DEF IInv

(* The egg in the cache changes only to what the index of the process that *)
(* changes it announces. (checked_content, atomic_file)                    *)
THEOREM CacheIsVerified == Spec => OnlyVerifiedContent
  <1> DEFINE Verified ==
        file' \in {file, NoFile} \/ \E p \in Procs :
            file' = want[p] /\ outcome'[p] = "fetched" /\ outcome[p] = "none"
  <1>1. IInv /\ [Next]_vars => [Verified]_vars
    <2> SUFFICES ASSUME IInv, Next PROVE Verified
      OBVIOUS
    <2> USE DEF IInv, Shape, TypeOK, Stages
    <2>1. ASSUME NEW p \in Procs, Publish(p) PROVE Verified
      BY <2>1 DEF Publish, End
    <2>2. ASSUME NEW p \in Procs, RenameAgain(p) PROVE Verified
      BY <2>2 DEF RenameAgain, End
    <2>3. ASSUME NEW p \in Procs, UnlinkTarget(p) PROVE Verified
      BY <2>3 DEF UnlinkTarget
    <2>4. ASSUME NEW p \in Procs, OwnStep(p) \/ ServerStep(p) \/ Event(p),
                 ~ Publish(p), ~ RenameAgain(p), ~ UnlinkTarget(p)
          PROVE  Verified
      BY <2>4 DEF OwnStep, ServerStep, Event, Start, Check, OpenTemp, Request, Fail,
           ReceiveChunk, AbortChunk, EndOfBody, Accept, Reject, RenameRefused,
           RenameFails, Cancel, Kill
    <2> QED BY <2>1, <2>2, <2>3, <2>4 DEF Next
  <1> QED BY Invariance, <1>1, PTL DEF Spec, OnlyVerifiedContent

(* Each step keeps that a temporary file is one that is worked on, or one  *)
(* that could not be renamed.                                              *)
LEMMA NextTidy ==
    ASSUME Shape, Stages, pc \in [Procs -> Steps], outcome \in [Procs -> Outcomes],
           NoTempLeft, [Next]_vars
    PROVE  NoTempLeft'
  <1>1. CASE UNCHANGED vars
    BY <1>1 DEF vars, NoTempLeft
  <1> SUFFICES ASSUME posix' = posix, Next PROVE NoTempLeft'
    BY <1>1 DEF Next, OwnStep, ServerStep, Event, NoTempLeft
  <1> USE DEF Shape, Stages, NoTempLeft
  <1>2. ASSUME NEW p \in Procs, Check(p) \/ OpenTemp(p)
        PROVE  NoTempLeft'
    BY <1>2 DEF Check, OpenTemp, GoTo, End
  <1>3. ASSUME NEW p \in Procs, Fail(p) \/ AbortChunk(p) \/ Reject(p) \/ Publish(p)
        PROVE  NoTempLeft'
    BY <1>3 DEF Fail, AbortChunk, Reject, Publish, GoTo, End, Cleanup
  <1>4. ASSUME NEW p \in Procs, RenameFails(p) \/ RenameRefused(p)
        PROVE  NoTempLeft'
    BY <1>4 DEF RenameFails, RenameRefused, GoTo, End
  <1>5. ASSUME NEW p \in Procs, UnlinkTarget(p)
        PROVE  NoTempLeft'
    BY <1>5 DEF UnlinkTarget, GoTo, End
  <1>6. ASSUME NEW p \in Procs, RenameAgain(p)
        PROVE  NoTempLeft'
    BY <1>6 DEF RenameAgain, GoTo, End, Cleanup
  <1>7. ASSUME NEW p \in Procs,
               \/ Start(p) \/ ReceiveChunk(p) \/ EndOfBody(p) \/ Accept(p)
               \/ Cancel(p) \/ Kill(p)
               \/ \E content \in Answers : Request(p, content)
        PROVE  NoTempLeft'
    BY <1>7 DEF Start, ReceiveChunk, EndOfBody, Accept, Cancel, Kill, Request, GoTo
  <1> QED BY <1>2, <1>3, <1>4, <1>5, <1>6, <1>7 DEF Next, OwnStep, ServerStep, Event

(* Only a kill or a rename that fails leaves a temporary file behind, and  *)
(* the latter leaves the whole egg in it.  (atomic_file)                   *)
THEOREM NoTemporaryFiles == Spec => []NoTempLeft
  <1>1. Init => NoTempLeft
    BY DEF Init, NoTempLeft
  <1>2. IInv /\ NoTempLeft /\ [Next]_vars => NoTempLeft'
    BY NextTidy DEF IInv, TypeOK
  <1> QED BY Invariance, <1>1, <1>2, PTL DEF Spec

(* What a successful fetch leaves in the cache stays there, and is what a  *)
(* forced fetch wanted. (needs_to_download, rename)                        *)
THEOREM FetchDelivers ==
    Spec => [](EggStaysInCache /\ ForcedFetchDelivers)
  <1>1. IInv => EggStaysInCache /\ ForcedFetchDelivers
    BY DEF IInv, Delivered
  <1> QED BY Invariance, <1>1, PTL

-----------------------------------------------------------------------------
(* A fetch canceled with chunks to come: it is waiting for the next one,   *)
(* or came to its end without publishing.                                  *)
Doomed(p) ==
    \/ pc[p] = "body" /\ canceled[p] /\ body[p] # <<>>
    \/ pc[p] \in {"done", "dead"} /\ outcome[p] # "fetched"

(* A canceled fetch stays so. (_CancelableResponse.iter_content)           *)
LEMMA DoomedForGood ==
    ASSUME IInv, [Next]_vars, NEW p \in Procs, Doomed(p)
    PROVE  Doomed(p)'
  <1> USE DEF IInv, Shape, TypeOK, Stages, Doomed
  <1>1. CASE UNCHANGED vars
    BY <1>1 DEF vars
  <1>2. ASSUME NEW q \in Procs, OwnStep(q) \/ ServerStep(q) \/ Start(q)
        PROVE  Doomed(p)'
    BY <1>2 DEF OwnStep, ServerStep, Start, Check, OpenTemp, Request, ReceiveChunk, AbortChunk,
         EndOfBody, Accept, Reject, Publish, RenameRefused, UnlinkTarget,
         RenameAgain, GoTo, End
  <1>3. ASSUME NEW q \in Procs, Fail(q) \/ RenameFails(q) \/ Cancel(q) \/ Kill(q)
        PROVE  Doomed(p)'
    BY <1>3 DEF Fail, RenameFails, Cancel, Kill, GoTo, End
  <1> QED BY <1>1, <1>2, <1>3 DEF Next, Event

(* No fetch that was canceled in time publishes. *)
THEOREM CancelWorks == Spec => CancelPreventsPublication
  <1> SUFFICES ASSUME NEW p \in Procs
               PROVE  Spec => [](canceled[p] /\ body[p] # <<>> =>
                                    [](outcome[p] # "fetched"))
    BY DEF CancelPreventsPublication
  <1>1. IInv /\ canceled[p] /\ body[p] # <<>> => Doomed(p)
    BY DEF IInv, Stages, Doomed
  <1>2. IInv /\ [Next]_vars /\ Doomed(p) => Doomed(p)'
    BY DoomedForGood
  <1>3. IInv /\ Doomed(p) => outcome[p] # "fetched"
    BY DEF IInv, Stages, Doomed
  <1> QED BY Invariance, <1>1, <1>2, <1>3, PTL DEF Spec

-----------------------------------------------------------------------------
(* A step of one process changes the status of no other. *)
LEMMA StatusMoves ==
    ASSUME IInv, NEW p \in Procs, NEW new,
           \A q \in Procs : q # p => pc'[q] = pc[q] /\ outcome'[q] = outcome[q],
           status'[p] = new
    PROVE  status' = [status EXCEPT ![p] = new]
  <1>1. \A q \in Procs : q # p => status'[q] = status[q]
    BY DEF status, Succeeded
  <1>2. status' = [q \in Procs |-> status'[q]] /\ status = [q \in Procs |-> status[q]]
    BY DEF status
  <1> QED BY <1>1, <1>2

(* A step of a fetch is a step of the cache, or invisible to its users. *)
LEMMA StepSimulation ==
    ASSUME IInv, IInv', [Next]_vars
    PROVE  [Cache!Next]_(Cache!vars)
  <1> USE DEF IInv, Shape, TypeOK, Stages
  <1> DEFINE Simulated == [Cache!Next]_(Cache!vars)
  <1>1. CASE UNCHANGED vars
    BY <1>1 DEF vars, Cache!vars, status, Succeeded
  <1> SUFFICES ASSUME Next, posix' = posix PROVE Simulated
    BY <1>1 DEF Next, OwnStep, ServerStep, Event
  <1>2. ASSUME NEW p \in Procs, Start(p) PROVE Simulated
    <2>1. status[p] = "idle" /\ status'[p] = "fetching"
      BY <1>2 DEF Start, GoTo, status, Succeeded
    <2>2. status' = [status EXCEPT ![p] = "fetching"]
      BY <1>2, <2>1, StatusMoves DEF Start, GoTo
    <2>3. Cache!Begin(p)
      BY <1>2, <2>1, <2>2 DEF Start, Cache!Begin
    <2> QED BY <2>3 DEF Cache!Next
  <1>3. ASSUME NEW p \in Procs, pc[p] \notin {"idle", "done", "dead"},
               outcome'[p] \in {"present", "fetched"}, pc'[p] = "done",
               \A q \in Procs : q # p => pc'[q] = pc[q] /\ outcome'[q] = outcome[q],
               file' = want[p] \/ (file # NoFile /\ file' = file), want' = want
        PROVE  Simulated
    <2>0. outcome[p] = "none"
      BY <1>3
    <2>1. status[p] = "fetching" /\ status'[p] = "ok"
      <3>1. status[p] = "fetching"
        BY <1>3, <2>0 DEF status, Succeeded
      <3>2. status'[p] = "ok"
        BY <1>3 DEF status, Succeeded
      <3> QED BY <3>1, <3>2
    <2>2. status' = [status EXCEPT ![p] = "ok"]
      BY <1>3, <2>1, StatusMoves
    <2>3. Cache!Succeed(p)
      BY <1>3, <2>1, <2>2 DEF Cache!Succeed
    <2> QED BY <2>3 DEF Cache!Next
  <1>4. ASSUME NEW p \in Procs, pc[p] \notin {"idle", "done", "dead"},
               outcome'[p] \notin {"present", "fetched"}, pc'[p] \in {"done", "dead"},
               \A q \in Procs : q # p => pc'[q] = pc[q] /\ outcome'[q] = outcome[q],
               file' = file, want' = want
        PROVE  Simulated
    <2>1. status[p] = "fetching" /\ status'[p] = "failed"
      BY <1>4 DEF status, Succeeded
    <2>2. status' = [status EXCEPT ![p] = "failed"]
      BY <1>4, <2>1, StatusMoves
    <2>3. Cache!Fail(p)
      BY <1>4, <2>1, <2>2 DEF Cache!Fail
    <2> QED BY <2>3 DEF Cache!Next
  <1>5. ASSUME NEW p \in Procs, pc[p] \notin {"idle", "done", "dead"},
               pc'[p] \notin {"idle", "done", "dead"}, outcome' = outcome,
               \A q \in Procs : q # p => pc'[q] = pc[q],
               file' = file, want' = want
        PROVE  Simulated
    <2>1. status' = status
      BY <1>5 DEF status, Succeeded
    <2> QED BY <1>5, <2>1 DEF Cache!vars
  <1>6. ASSUME NEW p \in Procs, Check(p) PROVE Simulated
    BY <1>3, <1>5, <1>6 DEF Check, GoTo, End, NeedsToDownload, Steps
  <1>7. ASSUME NEW p \in Procs, OpenTemp(p) PROVE Simulated
    BY <1>3, <1>5, <1>7 DEF OpenTemp, GoTo, End, NeedsToDownload, Steps
  <1>8. ASSUME NEW p \in Procs, Publish(p) PROVE Simulated
    BY <1>3, <1>8 DEF Publish, GoTo, End
  <1>9. ASSUME NEW p \in Procs, Fail(p) PROVE Simulated
    BY <1>4, <1>9 DEF Fail, GoTo, End
  <1>17. ASSUME NEW p \in Procs, RenameFails(p) PROVE Simulated
    BY <1>4, <1>17 DEF RenameFails, GoTo, End
  <1>10. ASSUME NEW p \in Procs, AbortChunk(p) PROVE Simulated
    BY <1>4, <1>10 DEF AbortChunk, GoTo, End
  <1>11. ASSUME NEW p \in Procs, Reject(p) PROVE Simulated
    BY <1>4, <1>5, <1>11 DEF Reject, GoTo, End
  <1>12. ASSUME NEW p \in Procs, Kill(p) PROVE Simulated
    BY <1>4, <1>12 DEF Kill, GoTo, Steps
  <1>13. ASSUME NEW p \in Procs,
                \/ ReceiveChunk(p) \/ EndOfBody(p) \/ Accept(p) \/ Cancel(p)
                \/ \E content \in Answers : Request(p, content)
         PROVE  Simulated
    BY <1>5, <1>13 DEF ReceiveChunk, EndOfBody, Accept, Cancel, Request, GoTo
  <1>14. ASSUME NEW p \in Procs, RenameRefused(p) PROVE Simulated
    BY <1>5, <1>14 DEF RenameRefused, GoTo
  <1>15. ASSUME NEW p \in Procs, UnlinkTarget(p) PROVE Simulated
    <2>1. CASE file # NoFile
      <3>1. status' = status /\ status[p] = "fetching"
        BY <1>15, <2>1 DEF UnlinkTarget, GoTo, status, Succeeded
      <3>2. ~ posix
        BY <1>15 DEF UnlinkTarget
      <3>3. Cache!Vanish(p)
        BY <1>15, <2>1, <3>1, <3>2 DEF UnlinkTarget, Cache!Vanish
      <3> QED BY <3>3 DEF Cache!Next
    <2>2. CASE file = NoFile
      BY <1>4, <1>15, <2>2 DEF UnlinkTarget, GoTo, End
    <2> QED BY <2>1, <2>2
  <1>16. ASSUME NEW p \in Procs, RenameAgain(p) PROVE Simulated
    <2>1. CASE file = NoFile
      <3>1. /\ pc[p] = "replace" /\ file' = want[p] /\ want' = want
            /\ outcome'[p] = "fetched" /\ pc'[p] = "done"
            /\ \A q \in Procs : q # p => pc'[q] = pc[q] /\ outcome'[q] = outcome[q]
        BY <1>16, <2>1 DEF RenameAgain, GoTo, End
      <3> QED BY <1>3, <3>1
    <2>2. CASE ~ (file = NoFile)
      BY <1>4, <1>16, <2>2 DEF RenameAgain, GoTo, End
    <2> QED BY <2>1, <2>2
  <1> QED BY <1>2, <1>6, <1>7, <1>8, <1>9, <1>10, <1>11, <1>12, <1>13, <1>14, <1>15,
             <1>16, <1>17 DEF Next, OwnStep, ServerStep, Event

(* Fetching is, to the users of the cache, the one step that EggCache says *)
(* it is, on every platform. (atomic_file, rename)                         *)
THEOREM FetchIsAtomic == Spec => AtomicCache
  <1>1. Init => Cache!Init
    BY DEF Init, Cache!Init, status, Succeeded
  <1>2. IInv /\ IInv' /\ [Next]_vars => [Cache!Next]_(Cache!vars)
    BY StepSimulation
  <1> QED BY Invariance, <1>1, <1>2, PTL DEF Spec, AtomicCache, Cache!Spec
=============================================================================
