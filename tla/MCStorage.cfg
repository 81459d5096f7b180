SPECIFICATION StorageSpec
CONSTANTS
    c1 = c1
    c2 = c2
    o1 = o1
    o2 = o2
    Clients = {c1, c2}
    ObjClients = {o1, o2}
    Keys = {"k1"}
    Bodies = {"b1", "b2"}
    Nothing = "nothing"
    ObjectKeys = {"obj1"}
    MaxCalls = 4
SYMMETRY StorageSymmetry
INVARIANTS
    StorageTypeOK
    NoAdoption
    
PROPERTIES
    ImplementsFirstWins
CHECK_DEADLOCK FALSE
