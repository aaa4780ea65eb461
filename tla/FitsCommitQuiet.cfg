SPECIFICATION FairSpec
CONSTANTS
    Proc = {p1, p2, p3}
    Sum = {"a", "b", "c"}
    Job <- JobsEven
    LastSuffix = 2
    Faults = {"fits", "open"}
    None = None
INVARIANTS
    QuiescentIntact
    NoDuplicates
PROPERTIES
    Termination
