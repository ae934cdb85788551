SPECIFICATION Spec
CONSTANTS
    Accounts = {alice, bob}
    Addresses = {k1, k2, k3}
    None = None
    MaxLogins = 2
SYMMETRY Symmetry
INVARIANTS
    TypeOK
    AddressesKept
    BookOfSession

