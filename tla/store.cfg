CONSTANTS
    Builders = {b1, b2}
    Generations = {g1, g2}
    Empty = Empty
    Contents = {c1, Empty}
    Absent = Absent
    Torn = Torn
    Unsupported = Unsupported
SPECIFICATION StoreSpec
INVARIANT StoreTypeOK PublishedComplete
PROPERTY ImplementsSnapshotStore SwitchesToComplete
SYMMETRY StoreSymmetry
