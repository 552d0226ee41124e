SPECIFICATION Spec
CONSTANTS
    Layers = {l1, l2}
    Clients = {c1, c2}
SYMMETRY Symmetry
INVARIANTS
    NoBufferLeak
    CommitRecord
PROPERTIES
    StoredStays
    ContractSpec
