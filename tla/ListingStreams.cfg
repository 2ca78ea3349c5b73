SPECIFICATION Spec
CONSTANTS
    d1 = d1
    d2 = d2
    a = a
    b = b
    Handles = {d1, d2}
    NoHandle = NoHandle
    Names = {a, b}
    Changes = {"list", "unlist", "create", "remove"}
    MaxChanges = 3
SYMMETRY Symmetry
INVARIANTS TypeOK LostPerErasure KeptOnce
