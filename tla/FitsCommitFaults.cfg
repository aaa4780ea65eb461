SPECIFICATION Spec
CONSTANTS
    Proc = {p1, p2, p3}
    Sum = {"a", "b", "c"}
    Job <- JobsMixed
    LastSuffix = 1
    Faults = {"fits", "open", "write", "short", "fsync", "close", "kill"}
    None = None
SYMMETRY Processes
INVARIANTS
    TypeOK
    DistinctNames
    ReturnedBacked
    FilenameKey
    OneProductPerFile
PROPERTIES
    ImplementsStore
