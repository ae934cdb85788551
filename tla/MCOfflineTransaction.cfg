SPECIFICATION Spec
CONSTANTS
    t1 = t1
    t2 = t2
    a1 = a1
    a2 = a2
    Txs = {t1, t2}
    KindOf <- TwoKinds
    OwnerOf <- TwoOwners
    SizeOf <- TwoSizes
    Owners = {a1, a2}
    Books <- TwoBooks
    Dirs = {d1}
    None = None
    MaxSignings = 2
    MaxLoads = 2
INVARIANTS
    TypeOK
    SignedOnceIsValid
    SavedKept
    PaidOncePerLoad
