SPECIFICATION RepositorySpec
CONSTANTS
    Running = "2.7"
    Lower <- MCLower
    Stores = {"free", "commercial"}
    Index <- MCIndex
    Names = {"mkl", "python_dateutil", "cython"}
    MaxPackages = 3
INVARIANTS
    DependenciesFound
    MetadataSurvive
PROPERTY KnowsItsPackages
