SPECIFICATION Spec
CONSTANTS
    Accounts = {alice, bob}
    Passwords = {p, q}
    None = None
    ZeroAddress = ZeroAddress
    MaxPending = 2
SYMMETRY Symmetry
PROPERTY
    WriteOnlyAfterLoadedOk
