SPECIFICATION FairSpec
CONSTANTS
    Routes = {"Manual", "Executor", "MultiTokenManual", "MultiTokenExecutor"}
    Platforms = {"Evm", "Solana", "Sui", "Xrpl"}
    Transceivers = {t1, t2}
    Wormhole = t1
    Transfer = transfer
INVARIANTS
    ReceiptIsTrue
PROPERTIES
    PaidIsTracked
    RouteDelivers
