SPECIFICATION Spec
CONSTANTS
    RateOdd = 7
    RateTwos = 2
    Half32 = 16
    Half64 = 1024
    Exact = 256
    Units <- MCUnits
    D = 32768
    Drops <- MCDrops
    Typed <- MCTyped
    Fractions <- MCFractions
    MaxVotes = 2
    None = None
INVARIANTS
    SendWithinBalance
    FreezeWithinBalance
    VotesWithinPower
    ParticipatePrice
