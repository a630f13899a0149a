SPECIFICATION AmountSpec
CONSTANTS
    Base = 2
    TrimmedDecimals = 3
    MaxUint64 = 15
    Platforms = {"Evm", "Solana"}
    MaxDecimals = 5
    MaxOffered = 64
    Fees = {0, 1, 6}
CHECK_DEADLOCK FALSE
INVARIANTS
    AmountTypeOK
    ValuePreserved
    QuoteKept
    ChargesInLimitDecimals
