------------------------------ MODULE Sublists ------------------------------
(***************************************************************************)
(* What a loop with a condition, a list comprehension or a filter makes of *)
(* a list: the elements at some of its positions, in their order.          *)
(* SelectSeq is defined by recursion over the list; this form, by what the *)
(* result is, can be reasoned about (module SublistsProofs).               *)
(***************************************************************************)
EXTENDS Naturals, Sequences, FiniteSets

(* A finite set of numbers in increasing order. *)
InOrder(S) ==
    [k \in 1..Cardinality(S) |-> CHOOSE i \in S : Cardinality({j \in S : j < i}) = k - 1]

(* The elements of seq at these positions. *)
ElementsAt(seq, positions) ==
    LET at == InOrder(positions) IN [k \in DOMAIN at |-> seq[at[k]]]

(* The elements of seq that are in keep. *)
Pick(seq, keep) == ElementsAt(seq, {i \in DOMAIN seq : seq[i] \in keep})

(* The positions of x in seq. *)
Places(seq, x) == {i \in DOMAIN seq : seq[i] = x}

(* A loop that appends an element first if it is in these, and again if it *)
(* is in those: element i has the places 2 * i and 2 * i + 1.              *)
PickTwice(seq, these, those) ==
    LET places == {2 * i : i \in {j \in DOMAIN seq : seq[j] \in these}}
                  \cup {2 * i + 1 : i \in {j \in DOMAIN seq : seq[j] \in those}}
        at == InOrder(places)
    IN  [k \in DOMAIN at |-> [item |-> seq[at[k] \div 2], first |-> at[k] % 2 = 0]]
=============================================================================
