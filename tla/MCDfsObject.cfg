SPECIFICATION Spec
CONSTANTS
    Chunks = 2
    Values = {v1}
    Clients = {c1, c2, c3}
SYMMETRY Symmetry
PROPERTIES
    CompleteStays
    ContractSpec
