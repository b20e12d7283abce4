SPECIFICATION Spec
CONSTANTS
    plain = plain
    nested = nested
    spec = spec
    script = script
    Eggs <- MCEggs
    Members <- MCMembers
    PkgInfo = "PKG-INFO"
    EggJson = "egginst.json"
    Source <- MCSource
    BlackList = {spec}
    Nested = {script}
INVARIANTS
    NeverHalfRepaired
    OriginalKept
    RepairedAtEnd
