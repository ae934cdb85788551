SPECIFICATION LiveSpec
CONSTANTS
    Accounts = {alice}
    None = None
    Views = {"balance", "send", "watch"}
    Pages = {"witnesses", "tokens", "mytokens", "transactions"}
    Kinds = {"send", "freeze", "unfreeze", "vote", "issue"}
    MaxBusy = 2
    MaxClicks = 4
PROPERTIES
    OverlayGoes
