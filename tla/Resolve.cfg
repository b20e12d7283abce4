CONSTANTS
    a = a  m = m  z = z
    a1 = a1  a2 = a2  m1 = m1  z1 = z1
    None = None
    Alphabet <- MCAlphabet
    Eggs <- MCEggs
    EggName <- MCEggName
    Upstream <- MCUpstream
    Version <- MCVersion
    Indices <- MCIndices
    Requests <- MCRequests
SPECIFICATION Spec
INVARIANTS
    AssertionsHold
    InstallOrder
    LoopOnlyIfCyclic
    SearchExact
PROPERTIES
    Terminates
CHECK_DEADLOCK FALSE
