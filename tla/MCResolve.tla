----------------------------- MODULE MCResolve -----------------------------
(* A project in two builds of one version, one that sorts after the        *)
(* requested one, and every index in which the requested egg has at most   *)
(* two requirements and the others one each.                               *)
EXTENDS Resolve

CONSTANTS a, m, z,          \* names
          a1, a2, m1, z1    \* eggs

Req(n, s, v) == [name |-> n, strictness |-> s, version |-> v]
Any(n) == Req(n, 1, 0)

MCAlphabet == <<a, m, z>>
MCEggs == {a1, a2, m1, z1}
MCEggName == [e \in MCEggs |-> CASE e \in {a1, a2} -> a [] e = m1 -> m [] e = z1 -> z]
MCUpstream == [e \in MCEggs |-> 1]
MCVersion == [e \in MCEggs |-> IF e = a2 THEN 2 ELSE 1]

Reqs == {Any(a), Req(a, 2, 1), Req(a, 3, 1), Req(a, 3, 2),
         Any(m), Any(z), Req(z, 2, 2)}
AtMost(k) == {s \in SUBSET Reqs : Cardinality(s) <= k}
MCIndices == {d \in [MCEggs -> AtMost(2)] :
                  \A e \in MCEggs \ {m1} : Cardinality(d[e]) <= 1}
MCRequests == {Any(m), Req(m, 3, 9)}
============================================================================
