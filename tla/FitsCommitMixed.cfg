SPECIFICATION Spec
CONSTANTS
    Proc = {p1, p2, p3}
    Sum = {"a", "b", "c"}
    Job <- JobsTwo
    LastSuffix = 1
    Faults = {}
    None = None
SYMMETRY Processes
INVARIANTS
    QuiescentIntact
