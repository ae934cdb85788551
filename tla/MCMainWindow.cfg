SPECIFICATION LoggedInSpec
CONSTANTS
    Accounts = {alice, bob}
    None = None
    Views = {"balance", "send"}
    Pages = {"witnesses", "tokens", "mytokens", "token", "transactions"}
    Kinds = {"send", "modify", "freeze", "unfreeze", "vote", "issue", "participate"}
    MaxBusy = 2
    MaxClicks = 4
SYMMETRY Symmetry
INVARIANTS
    TypeOK
    ViewShowsItsAddress
    BandwidthOfItsAddress
    TransactionsOfOneAccount
    OverlayEnds
    FormOfSession
    SignedByOwner
PROPERTIES
    SignsIn
