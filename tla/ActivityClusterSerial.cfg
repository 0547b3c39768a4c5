SPECIFICATION Spec
CONSTANTS
    Users = {u1, u2, u3}
    Tasks = {k1}
    None = None
    MaxOverlap = 1
SYMMETRY Symmetry
INVARIANTS TypeOK InverseWhenQuiet
PROPERTY KeepsPromise
