SPECIFICATION Spec
CONSTANTS
    Accounts = {alice, bob}
    Passwords = {p, q}
    None = None
    ZeroAddress = ZeroAddress
    MaxPending = 1
SYMMETRY Symmetry
INVARIANTS
    TypeOK
    StoreSynced
    KeysFileReadable
    KeyFileFirst
    SignOutForgets
    SessionUsable
    PasswordAvailable
    ThrowsOnlyAfterBadLoad
    CanSignOut
PROPERTIES
    SignsIn
