SPECIFICATION Spec
CONSTANTS
    Users = {u1, u2, u3}
    Tasks = {k1, k2}
    None = None
SYMMETRY Symmetry
INVARIANTS TypeOK InverseRelations
PROPERTY KeepsPromise
