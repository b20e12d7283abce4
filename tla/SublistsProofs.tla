--------------------------- MODULE SublistsProofs ---------------------------
(***************************************************************************)
(* The sublist of a list has all the elements that were to be kept, and    *)
(* nothing else, in the order in which the list has them.                  *)
(***************************************************************************)
EXTENDS Sublists, SequencesExt, FiniteSetTheorems, SequenceTheorems, TLAPS

(* How many elements of S are less than i. *)
Rank(S, i) == Cardinality({j \in S : j < i})

(* Ranks are less than the number of elements, and grow with the elements. *)
LEMMA RankGrows ==
    ASSUME NEW S \in SUBSET Nat, IsFiniteSet(S)
    PROVE  /\ \A i \in S : Rank(S, i) \in 0..(Cardinality(S) - 1)
           /\ \A i, j \in S : i < j => Rank(S, i) < Rank(S, j)
           /\ \A i, j \in S : Rank(S, i) = Rank(S, j) => i = j
  <1>1. ASSUME NEW i \in S, NEW T \in SUBSET S, {j \in S : j < i} \subseteq T, i \in T
        PROVE  Rank(S, i) \in Nat /\ Cardinality(T) \in Nat /\ Rank(S, i) < Cardinality(T)
    <2> DEFINE Lower == {j \in S : j < i}
    <2>1. IsFiniteSet(T) /\ IsFiniteSet(Lower)
      BY FS_Subset
    <2>2. Cardinality(T) \in Nat /\ Cardinality(Lower) \in Nat
      BY <2>1, FS_CardinalityType
    <2>3. Cardinality(Lower) <= Cardinality(T) /\ (Cardinality(T) = Cardinality(Lower) => T = Lower)
      BY <1>1, <2>1, FS_Subset
    <2>4. i \notin Lower
      OBVIOUS
    <2> QED
      BY <1>1, <2>2, <2>3, <2>4 DEF Rank
  <1>2. ASSUME NEW i \in S
        PROVE  Rank(S, i) \in 0..(Cardinality(S) - 1)
    <2>1. Rank(S, i) \in Nat /\ Cardinality(S) \in Nat /\ Rank(S, i) < Cardinality(S)
      BY <1>1
    <2> QED
      BY <2>1
  <1>3. ASSUME NEW i \in S, NEW j \in S, i < j
        PROVE  Rank(S, i) < Rank(S, j)
    <2> DEFINE T == {l \in S : l < j}
    <2>1. T \in SUBSET S /\ i \in T /\ i \in Nat /\ j \in Nat
      BY <1>3
    <2>2. {l \in S : l < i} \subseteq T
      <3>1. ASSUME NEW l \in S, l < i PROVE l < j
        <4>1. l \in Nat
          OBVIOUS
        <4> QED
          BY <1>3, <2>1, <3>1, <4>1
      <3> QED
        BY <3>1
    <2>3. Rank(S, i) < Cardinality(T)
      BY <1>1, <2>1, <2>2
    <2> QED
      BY <2>3 DEF Rank
  <1>4. ASSUME NEW i \in S, NEW j \in S, Rank(S, i) = Rank(S, j)
        PROVE  i = j
    <2>1. Rank(S, i) \in Int /\ i \in Nat /\ j \in Nat
      BY <1>2
    <2>2. ~ i < j /\ ~ j < i
      BY <1>3, <1>4, <2>1
    <2> QED
      BY <2>1, <2>2
  <1> QED
    BY <1>2, <1>3, <1>4

(* Every rank is one of an element: there are as many ranks as elements.   *)
LEMMA EveryRank ==
    ASSUME NEW S \in SUBSET Nat, IsFiniteSet(S), NEW k \in 1..Cardinality(S)
    PROVE  \E i \in S : Rank(S, i) = k - 1
  <1> DEFINE n == Cardinality(S)
             ranks == 0..(n - 1)
             rank == [i \in S |-> Rank(S, i)]
  <1>1. n \in Nat
    BY FS_CardinalityType
  <1>2. IsFiniteSet(ranks) /\ Cardinality(ranks) = n
    <2>1. n - 1 \in Int
      BY <1>1
    <2>2. IsFiniteSet(ranks) /\ Cardinality(ranks) = IF 0 > n - 1 THEN 0 ELSE n - 1 - 0 + 1
      BY <2>1, FS_Interval
    <2> QED
      BY <1>1, <2>2
  <1>3. rank \in Injection(S, ranks)
    <2>1. rank \in [S -> ranks]
      BY RankGrows
    <2>2. ASSUME NEW i \in S, NEW j \in S, rank[i] = rank[j] PROVE i = j
      BY <2>1, <2>2, RankGrows
    <2> QED
      BY <2>1, <2>2 DEF Injection, IsInjective
  <1>4. rank \in Surjection(S, ranks)
    BY <1>2, <1>3, FS_Injection
  <1>5. k - 1 \in ranks
    BY <1>1
  <1> QED
    BY <1>4, <1>5 DEF Surjection

(* InOrder enumerates the set, from its least element upwards. *)
LEMMA InOrderProperties ==
    ASSUME NEW S \in SUBSET Nat, IsFiniteSet(S)
    PROVE  /\ Cardinality(S) \in Nat
           /\ InOrder(S) \in [1..Cardinality(S) -> S]
           /\ \A k, l \in 1..Cardinality(S) : k < l => InOrder(S)[k] < InOrder(S)[l]
           /\ \A i \in S : \E k \in 1..Cardinality(S) : InOrder(S)[k] = i
  <1>1. Cardinality(S) \in Nat
    BY FS_CardinalityType
  <1>2. ASSUME NEW k \in 1..Cardinality(S)
        PROVE  InOrder(S)[k] \in S /\ Rank(S, InOrder(S)[k]) = k - 1
    BY EveryRank DEF InOrder, Rank
  <1>r. /\ \A i \in S : Rank(S, i) \in 0..(Cardinality(S) - 1)
        /\ \A i, j \in S : i < j => Rank(S, i) < Rank(S, j)
        /\ \A i, j \in S : Rank(S, i) = Rank(S, j) => i = j
    BY RankGrows
  <1>3. ASSUME NEW k \in 1..Cardinality(S), NEW l \in 1..Cardinality(S), k < l
        PROVE  InOrder(S)[k] < InOrder(S)[l]
    <2> DEFINE i == InOrder(S)[k]
               j == InOrder(S)[l]
    <2>1. i \in S /\ Rank(S, i) = k - 1 /\ j \in S /\ Rank(S, j) = l - 1
      BY <1>2
    <2> HIDE DEF i, j
    <2>2. ~ j < i /\ i # j
      BY <1>1, <1>3, <1>r, <2>1
    <2>3. i < j
      BY <2>1, <2>2
    <2> QED
      BY <2>3 DEF i, j
  <1>4. ASSUME NEW i \in S
        PROVE  \E k \in 1..Cardinality(S) : InOrder(S)[k] = i
    <2> DEFINE k == Rank(S, i) + 1
    <2>1. k \in 1..Cardinality(S) /\ k - 1 = Rank(S, i)
      BY <1>1, <1>r
    <2>2. InOrder(S)[k] \in S /\ Rank(S, InOrder(S)[k]) = Rank(S, i)
      BY <1>2, <2>1
    <2>3. InOrder(S)[k] = i
      BY <1>r, <2>2
    <2> QED
      BY <2>1, <2>3
  <1>5. InOrder(S) \in [1..Cardinality(S) -> S]
    BY <1>2 DEF InOrder
  <1> QED
    BY <1>1, <1>3, <1>4, <1>5

(* at gives, for each place of the sublist, where its element was. *)
IsSublist(sub, seq, keep, at) ==
    /\ at \in [DOMAIN sub -> DOMAIN seq]
    /\ \A k \in DOMAIN sub : sub[k] = seq[at[k]] /\ sub[k] \in keep
    /\ \A k, l \in DOMAIN sub : k < l => at[k] < at[l]
    /\ \A i \in DOMAIN seq : seq[i] \in keep => \E k \in DOMAIN sub : at[k] = i

(* Pick keeps what it should, once for each occurrence, and in order.      *)
THEOREM PickProperties ==
    ASSUME NEW S, NEW seq \in Seq(S), NEW keep
    PROVE  /\ Pick(seq, keep) \in Seq(S)
           /\ \E at : IsSublist(Pick(seq, keep), seq, keep, at)
  <1> DEFINE kept == {i \in DOMAIN seq : seq[i] \in keep}
             n == Cardinality(kept)
             at == InOrder(kept)
  <1>1. DOMAIN seq = 1..Len(seq) /\ Len(seq) \in Nat
    OBVIOUS
  <1>2. kept \in SUBSET Nat /\ IsFiniteSet(kept)
    <2>1. IsFiniteSet(1..Len(seq))
      BY <1>1, FS_Interval
    <2>2. kept \in SUBSET (1..Len(seq))
      BY <1>1
    <2> QED
      BY <1>1, <2>1, <2>2, FS_Subset
  <1>3. /\ n \in Nat
        /\ at \in [1..n -> kept]
        /\ \A k, l \in 1..n : k < l => at[k] < at[l]
        /\ \A i \in kept : \E k \in 1..n : at[k] = i
    BY <1>2, InOrderProperties
  <1>4. Pick(seq, keep) = [k \in 1..n |-> seq[at[k]]]
    BY <1>3 DEF Pick, ElementsAt
  <1>5. \A k \in 1..n : seq[at[k]] \in S /\ seq[at[k]] \in keep /\ at[k] \in DOMAIN seq
    BY <1>1, <1>3
  <1> HIDE DEF kept, n, at
  <1>6. Pick(seq, keep) \in Seq(S)
    <2>1. [k \in 1..n |-> seq[at[k]]] \in [1..n -> S]
      BY <1>5
    <2> QED
      BY <1>3, <1>4, <2>1, SeqDef
  <1>7. IsSublist(Pick(seq, keep), seq, keep, at)
    BY <1>3, <1>4, <1>5 DEF IsSublist, kept
  <1> QED
    BY <1>6, <1>7

(* As sets: what is kept of the elements. *)
LEMMA PickElements ==
    ASSUME NEW S, NEW seq \in Seq(S), NEW keep
    PROVE  {Pick(seq, keep)[k] : k \in DOMAIN Pick(seq, keep)}
           = {seq[i] : i \in DOMAIN seq} \cap keep
  <1>1. PICK at : IsSublist(Pick(seq, keep), seq, keep, at)
    BY PickProperties
  <1> QED
    BY <1>1 DEF IsSublist

(* What PickTwice returns comes from the list, and is there if it should.  *)
LEMMA PickTwiceElements ==
    ASSUME NEW S, NEW seq \in Seq(S), NEW these, NEW those
    PROVE  /\ PickTwice(seq, these, those) \in Seq([item : S, first : BOOLEAN])
           /\ \A i \in DOMAIN seq : seq[i] \in those =>
                \E k \in DOMAIN PickTwice(seq, these, those) :
                    PickTwice(seq, these, those)[k] = [item |-> seq[i], first |-> FALSE]
  <1> DEFINE places == {2 * i : i \in {j \in DOMAIN seq : seq[j] \in these}}
                       \cup {2 * i + 1 : i \in {j \in DOMAIN seq : seq[j] \in those}}
             n == Cardinality(places)
             at == InOrder(places)
             twice == PickTwice(seq, these, those)
  <1>1. DOMAIN seq = 1..Len(seq) /\ Len(seq) \in Nat
    OBVIOUS
  <1>2. ASSUME NEW a \in places
        PROVE  /\ a \in 0..(2 * Len(seq) + 1)
               /\ a \div 2 \in DOMAIN seq
    <2>1. PICK i \in 1..Len(seq) : a = 2 * i \/ a = 2 * i + 1
      BY <1>1
    <2>2. a \div 2 = i
      BY <1>1, <2>1
    <2> QED
      BY <1>1, <2>1, <2>2
  <1>3. places \in SUBSET Nat /\ IsFiniteSet(places)
    <2>1. 2 * Len(seq) + 1 \in Nat
      BY <1>1
    <2>2. IsFiniteSet(0..(2 * Len(seq) + 1))
      BY <2>1, FS_Interval
    <2>3. places \in SUBSET (0..(2 * Len(seq) + 1))
      BY <1>2
    <2> QED
      BY <2>1, <2>2, <2>3, FS_Subset
  <1>4. n \in Nat /\ at \in [1..n -> places] /\ \A a \in places : \E k \in 1..n : at[k] = a
    BY <1>3, InOrderProperties
  <1>5. twice = [k \in 1..n |-> [item |-> seq[at[k] \div 2], first |-> at[k] % 2 = 0]]
    BY <1>4 DEF PickTwice
  <1>6. \A k \in 1..n : seq[at[k] \div 2] \in S
    BY <1>2, <1>4
  <1>7. ASSUME NEW i \in DOMAIN seq, seq[i] \in those
        PROVE  \E k \in DOMAIN twice : twice[k] = [item |-> seq[i], first |-> FALSE]
    <2>1. 2 * i + 1 \in places
      BY <1>7
    <2>2. PICK k \in 1..n : at[k] = 2 * i + 1
      BY <1>4, <2>1
    <2>3. at[k] \div 2 = i /\ (at[k] % 2 = 0) = FALSE
      BY <1>1, <2>2
    <2> HIDE DEF at, n, places
    <2>4. twice[k] = [item |-> seq[i], first |-> FALSE]
      BY <1>5, <2>3
    <2> QED
      BY <1>5, <2>4
  <1>8. twice \in Seq([item : S, first : BOOLEAN])
    <2> HIDE DEF at, n, places
    <2>1. twice \in [1..n -> [item : S, first : BOOLEAN]]
      BY <1>5, <1>6
    <2> QED
      BY <1>4, <2>1, SeqDef
  <1> QED
    BY <1>7, <1>8

(* q is a list, then another one, then a third one, of these lengths.      *)
IsThree(q, a, b, c, n, m, l) ==
    /\ n \in Nat /\ m \in Nat /\ l \in Nat
    /\ DOMAIN a = 1..n /\ DOMAIN b = 1..m /\ DOMAIN c = 1..l /\ DOMAIN q = 1..(n + m + l)
    /\ \A i \in 1..n : q[i] = a[i]
    /\ \A i \in 1..m : q[n + i] = b[i]
    /\ \A i \in 1..l : q[n + m + i] = c[i]

(* So is the concatenation of three lists. *)
LEMMA ConcatThree ==
    ASSUME NEW S, NEW a \in Seq(S), NEW b \in Seq(S), NEW c \in Seq(S)
    PROVE  a \o b \o c \in Seq(S) /\ IsThree(a \o b \o c, a, b, c, Len(a), Len(b), Len(c))
  <1> DEFINE n == Len(a)
             m == Len(b)
             l == Len(c)
             d == a \o b
             q == d \o c
  <1>1. /\ n \in Nat /\ m \in Nat /\ l \in Nat
        /\ DOMAIN a = 1..n /\ DOMAIN b = 1..m /\ DOMAIN c = 1..l
    OBVIOUS
  <1>2. /\ d \in Seq(S) /\ Len(d) = n + m
        /\ \A i \in 1..(n + m) : d[i] = IF i <= n THEN a[i] ELSE b[i - n]
    BY ConcatProperties
  <1> HIDE DEF d
  <1>3. /\ q \in Seq(S) /\ Len(q) = Len(d) + l
        /\ \A i \in 1..(Len(d) + l) : q[i] = IF i <= Len(d) THEN d[i] ELSE c[i - Len(d)]
    <2>1. d \in Seq(S)
      BY <1>2
    <2>2. /\ d \o c \in Seq(S) /\ Len(d \o c) = Len(d) + Len(c)
          /\ \A i \in 1..(Len(d) + Len(c)) :
               (d \o c)[i] = IF i <= Len(d) THEN d[i] ELSE c[i - Len(d)]
      BY <2>1, ConcatProperties
    <2> QED
      BY <2>2
  <1> HIDE DEF q, n, m, l
  <1>4. /\ DOMAIN q = 1..(n + m + l)
        /\ \A i \in 1..(n + m + l) : q[i] = IF i <= n + m THEN d[i] ELSE c[i - (n + m)]
    BY <1>1, <1>2, <1>3
  <1>5. ASSUME NEW i \in 1..n PROVE q[i] = a[i]
    BY <1>1, <1>2, <1>4
  <1>6. ASSUME NEW i \in 1..m PROVE q[n + i] = b[i]
    <2>1. n + i \in 1..(n + m) /\ n + i \in 1..(n + m + l) /\ ~ n + i <= n /\ (n + i) - n = i
      BY <1>1
    <2> QED
      BY <1>2, <1>4, <2>1
  <1>7. ASSUME NEW i \in 1..l PROVE q[n + m + i] = c[i]
    <2>1. /\ n + m + i \in 1..(n + m + l) /\ ~ n + m + i <= n + m
          /\ (n + m + i) - (n + m) = i
      BY <1>1
    <2> QED
      BY <1>4, <2>1
  <1>8. IsThree(q, a, b, c, n, m, l)
    BY <1>1, <1>4, <1>5, <1>6, <1>7 DEF IsThree
  <1> QED
    BY <1>3, <1>8 DEF q, d, n, m, l

(* Place i of it is in the first, the second or the third list.            *)
IsPlace(i, n, m, l) ==
    \/ i \in 1..n
    \/ \E k \in 1..m : i = n + k
    \/ \E k \in 1..l : i = n + m + k

(* Every place is. *)
LEMMA PlaceOfThree ==
    ASSUME NEW n \in Nat, NEW m \in Nat, NEW l \in Nat, NEW i \in 1..(n + m + l)
    PROVE  IsPlace(i, n, m, l)
  <1> USE DEF IsPlace
  <1>1. CASE i <= n
    BY <1>1
  <1>2. CASE n < i /\ i <= n + m
    <2>1. i - n \in 1..m /\ i = n + (i - n)
      BY <1>2
    <2> QED
      BY <2>1
  <1>3. CASE n + m < i
    <2>1. i - (n + m) \in 1..l /\ i = n + m + (i - (n + m))
      BY <1>3
    <2> QED
      BY <2>1
  <1> QED
    BY <1>1, <1>2, <1>3

(* A list has finitely many places for an element, some if it is in it.    *)
LEMMA PlacesFinite ==
    ASSUME NEW S, NEW seq \in Seq(S), NEW x
    PROVE  /\ IsFiniteSet(Places(seq, x)) /\ Cardinality(Places(seq, x)) \in Nat
           /\ Cardinality(Places(seq, x)) > 0 <=> x \in ToSet(seq)
  <1>1. Places(seq, x) \in SUBSET (1..Len(seq)) /\ Len(seq) \in Nat
    BY DEF Places
  <1>2. IsFiniteSet(1..Len(seq))
    BY <1>1, FS_Interval
  <1>3. IsFiniteSet(Places(seq, x))
    BY <1>1, <1>2, FS_Subset
  <1>4. Cardinality(Places(seq, x)) \in Nat
    BY <1>3, FS_CardinalityType
  <1>5. Cardinality(Places(seq, x)) = 0 <=> Places(seq, x) = {}
    BY <1>3, FS_EmptySet
  <1>6. Places(seq, x) = {} <=> x \notin ToSet(seq)
    BY DEF Places, ToSet
  <1> QED
    BY <1>3, <1>4, <1>5, <1>6

(* What is kept is in the sublist as often as in the list.                 *)
LEMMA PickPlaces ==
    ASSUME NEW S, NEW seq \in Seq(S), NEW keep, NEW x
    PROVE  Cardinality(Places(Pick(seq, keep), x))
           = IF x \in keep THEN Cardinality(Places(seq, x)) ELSE 0
  <1> DEFINE sub == Pick(seq, keep)
  <1>1. PICK at : IsSublist(sub, seq, keep, at)
    BY PickProperties
  <1>2. CASE x \notin keep
    <2>1. Places(sub, x) = {}
      BY <1>1, <1>2 DEF IsSublist, Places
    <2> QED
      BY <1>2, <2>1, FS_EmptySet
  <1>3. CASE x \in keep
    <2> DEFINE here == Places(sub, x)
               there == Places(seq, x)
               move == [k \in here |-> at[k]]
    <2>1. /\ at \in [DOMAIN sub -> DOMAIN seq]
          /\ \A k \in DOMAIN sub : sub[k] = seq[at[k]]
          /\ \A k, l \in DOMAIN sub : k < l => at[k] < at[l]
          /\ \A i \in DOMAIN seq : seq[i] \in keep => \E k \in DOMAIN sub : at[k] = i
      BY <1>1 DEF IsSublist
    <2>2. sub \in Seq(S)
      BY PickProperties
    <2>3. DOMAIN sub \subseteq Nat /\ DOMAIN seq \subseteq Nat
      BY <2>2
    <2>4. move \in [here -> there]
      BY <2>1 DEF Places
    <2>5. ASSUME NEW k \in here, NEW l \in here, move[k] = move[l] PROVE k = l
      <3>1. k \in DOMAIN sub /\ l \in DOMAIN sub /\ at[k] = at[l] /\ at[k] \in Nat
        BY <2>1, <2>3, <2>5 DEF Places
      <3>2. ~ k < l /\ ~ l < k
        BY <2>1, <3>1
      <3> QED
        BY <2>3, <3>1, <3>2
    <2>6. ASSUME NEW i \in there PROVE \E k \in here : move[k] = i
      <3>1. i \in DOMAIN seq /\ seq[i] = x
        BY DEF Places
      <3>2. PICK k \in DOMAIN sub : at[k] = i
        BY <1>3, <2>1, <3>1
      <3>3. k \in here
        BY <2>1, <3>1, <3>2 DEF Places
      <3> QED
        BY <3>2, <3>3
    <2>7. move \in Bijection(here, there)
      BY <2>4, <2>5, <2>6 DEF Bijection, Injection, Surjection, IsInjective
    <2>8. ExistsBijection(here, there)
      BY <2>7 DEF ExistsBijection
    <2>9. IsFiniteSet(here)
      BY <2>2, PlacesFinite
    <2>10. Cardinality(there) = Cardinality(here)
      BY <2>8, <2>9, FS_Bijection
    <2> QED
      BY <1>3, <2>10
  <1> QED
    BY <1>2, <1>3

(* A set moved by d has as many elements. *)
LEMMA MovedPlaces ==
    ASSUME NEW P \in SUBSET Nat, IsFiniteSet(P), NEW d \in Nat
    PROVE  /\ IsFiniteSet({d + i : i \in P})
           /\ Cardinality({d + i : i \in P}) = Cardinality(P)
  <1> DEFINE Q == {d + i : i \in P}
             move == [i \in P |-> d + i]
  <1>1. ASSUME NEW i \in P, NEW j \in P, move[i] = move[j] PROVE i = j
    BY <1>1
  <1>2. move \in Bijection(P, Q)
    BY <1>1 DEF Bijection, Injection, Surjection, IsInjective
  <1>3. ExistsBijection(P, Q)
    BY <1>2 DEF ExistsBijection
  <1> QED
    BY <1>3, FS_Bijection

(* In the concatenation of three lists an element is as often as in them.  *)
LEMMA PlacesOfThree ==
    ASSUME NEW S, NEW a \in Seq(S), NEW b \in Seq(S), NEW c \in Seq(S), NEW x
    PROVE  Cardinality(Places(a \o b \o c, x))
           = Cardinality(Places(a, x)) + Cardinality(Places(b, x)) + Cardinality(Places(c, x))
  <1> DEFINE n == Len(a)
             m == Len(b)
             l == Len(c)
             q == a \o b \o c
             A == Places(a, x)
             B == {n + i : i \in Places(b, x)}
             C == {n + m + i : i \in Places(c, x)}
  <1>1. IsThree(q, a, b, c, n, m, l)
    BY ConcatThree
  <1> HIDE DEF q, n, m, l
  <1>2. /\ n \in Nat /\ m \in Nat /\ l \in Nat /\ n + m \in Nat
        /\ DOMAIN a = 1..n /\ DOMAIN b = 1..m /\ DOMAIN c = 1..l
    BY <1>1 DEF IsThree
  <1>3. /\ IsFiniteSet(A) /\ Cardinality(A) \in Nat /\ A \subseteq 1..n
        /\ IsFiniteSet(Places(b, x)) /\ Cardinality(Places(b, x)) \in Nat
        /\ IsFiniteSet(Places(c, x)) /\ Cardinality(Places(c, x)) \in Nat
        /\ Places(b, x) \subseteq 1..m /\ Places(c, x) \subseteq 1..l
    <2>1. A \subseteq 1..n /\ Places(b, x) \subseteq 1..m /\ Places(c, x) \subseteq 1..l
      BY <1>2 DEF Places
    <2> QED
      BY <2>1, PlacesFinite
  <1>4. IsFiniteSet(B) /\ Cardinality(B) = Cardinality(Places(b, x))
    <2>1. Places(b, x) \in SUBSET Nat
      BY <1>3
    <2> QED
      BY <1>2, <1>3, <2>1, MovedPlaces
  <1>5. IsFiniteSet(C) /\ Cardinality(C) = Cardinality(Places(c, x))
    <2>1. Places(c, x) \in SUBSET Nat
      BY <1>3
    <2> QED
      BY <1>2, <1>3, <2>1, MovedPlaces
  <1>6. Places(q, x) = A \cup B \cup C
    <2>1. ASSUME NEW i \in Places(q, x) PROVE i \in A \cup B \cup C
      <3>1. i \in 1..(n + m + l) /\ q[i] = x
        BY <1>1 DEF IsThree, Places
      <3>2. IsPlace(i, n, m, l)
        BY <1>2, <3>1, PlaceOfThree
      <3>3. CASE i \in 1..n
        BY <1>1, <3>1, <3>3 DEF IsThree, Places
      <3>4. CASE \E k \in 1..m : i = n + k
        BY <1>1, <3>1, <3>4 DEF IsThree, Places
      <3>5. CASE \E k \in 1..l : i = n + m + k
        BY <1>1, <3>1, <3>5 DEF IsThree, Places
      <3> QED
        BY <3>2, <3>3, <3>4, <3>5 DEF IsPlace
    <2>2. ASSUME NEW i \in A PROVE i \in Places(q, x)
      BY <1>1, <1>2 DEF IsThree, Places
    <2>3. ASSUME NEW k \in Places(b, x) PROVE n + k \in Places(q, x)
      <3>1. k \in 1..m /\ b[k] = x /\ n + k \in 1..(n + m + l)
        BY <1>2, <1>3 DEF Places
      <3> QED
        BY <1>1, <3>1 DEF IsThree, Places
    <2>4. ASSUME NEW k \in Places(c, x) PROVE n + m + k \in Places(q, x)
      <3>1. k \in 1..l /\ c[k] = x /\ n + m + k \in 1..(n + m + l)
        BY <1>2, <1>3 DEF Places
      <3> QED
        BY <1>1, <3>1 DEF IsThree, Places
    <2> QED
      BY <2>1, <2>2, <2>3, <2>4
  <1>7. A \cap B = {} /\ (A \cup B) \cap C = {}
    <2>1. /\ \A i \in A : i \in Nat /\ i <= n
          /\ \A i \in B : i \in Nat /\ n < i /\ i <= n + m
          /\ \A i \in C : i \in Nat /\ n + m < i
      BY <1>2, <1>3
    <2> HIDE DEF A, B, C
    <2>2. ASSUME NEW i \in A, i \in B PROVE FALSE
      BY <1>2, <2>1, <2>2
    <2>3. ASSUME NEW i \in C, i \in A \cup B PROVE FALSE
      BY <1>2, <2>1, <2>3
    <2> QED
      BY <2>2, <2>3
  <1> HIDE DEF A, B, C
  <1>8. /\ IsFiniteSet(A \cup B)
        /\ Cardinality(A \cup B) = Cardinality(A) + Cardinality(B)
    <2>1. Cardinality(A \cap B) = 0
      BY <1>7, FS_EmptySet
    <2>2. Cardinality(A \cup B) = Cardinality(A) + Cardinality(B) - Cardinality(A \cap B)
      BY <1>3, <1>4, FS_Union
    <2>3. IsFiniteSet(A \cup B)
      BY <1>3, <1>4, FS_Union
    <2> QED
      BY <1>3, <1>4, <2>1, <2>2, <2>3
  <1>9. Cardinality((A \cup B) \cup C) = Cardinality(A \cup B) + Cardinality(C)
    <2>1. Cardinality((A \cup B) \cap C) = 0
      BY <1>7, FS_EmptySet
    <2>2. Cardinality((A \cup B) \cup C)
          = Cardinality(A \cup B) + Cardinality(C) - Cardinality((A \cup B) \cap C)
      BY <1>5, <1>8, FS_Union
    <2> QED
      BY <1>3, <1>4, <1>5, <1>8, <2>1, <2>2
  <1> QED
    BY <1>4, <1>5, <1>6, <1>8, <1>9 DEF A, q

(* A list turned around. *)
LEMMA ReverseProperties ==
    ASSUME NEW S, NEW seq \in Seq(S)
    PROVE  /\ Reverse(seq) \in Seq(S) /\ DOMAIN Reverse(seq) = DOMAIN seq
           /\ DOMAIN seq = 1..Len(seq) /\ Len(seq) \in Nat
           /\ \A i \in DOMAIN seq : Reverse(seq)[i] = seq[Len(seq) - i + 1]
  <1>1. Len(seq) \in Nat /\ \A i \in 1..Len(seq) : seq[Len(seq) - i + 1] \in S
    OBVIOUS
  <1>2. Reverse(seq) = [i \in 1..Len(seq) |-> seq[Len(seq) - i + 1]]
    BY DEF Reverse
  <1>3. Reverse(seq) \in [1..Len(seq) -> S]
    BY <1>1, <1>2
  <1> QED
    BY <1>1, <1>2, <1>3, SeqDef
=============================================================================
