SPECIFICATION Spec
CONSTANTS
    Accounts = {alice, bob}
    Passwords = {p, q}
    None = None
    ZeroAddress = ZeroAddress
    MaxPending = 1
SYMMETRY Symmetry
INVARIANT
    NameKept
