CONSTANTS
    c1 = c1  c2 = c2  c3 = c3
    old = old  new = new  alien = alien
    Plain = Plain  None = None
    Contexts <- ThreeContexts
    Stores <- ThreeStores
    Workers = 2
    Eggs <- ThreeEggs
    Version <- Versions
    Index <- Indices
    ForPython <- EggsForPython
    Answers <- FourAnswers
SPECIFICATION FactorySpec
INVARIANTS
    ServedThroughCache
    RepositoryComplete
    NothingLeftRunning
PROPERTIES
    CallEnds
CHECK_DEADLOCK FALSE
