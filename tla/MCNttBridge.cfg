SPECIFICATION FairSpec
CONSTANTS
    RateLimitDuration = 1
    MaxAmount = 4
    chainA = chainA
    chainB = chainB
    managerA = managerA
    managerB = managerB
    alice = alice
    stray = stray
    ChainA = chainA
    ChainB = chainB
    ManagerA = managerA
    ManagerB = managerB
    NoPeer = NoPeer
    Transceivers = {t1, t2}
    MaxTransceivers = 2
    StartThreshold = 2
    Users = {alice}
    StartBalances <- MCStartBalances
    Amounts = {1, 2}
    Limits = {2}
    OutboundLimit = 2
    InboundLimit = 1
    MaxSequenceA = 2
    MaxSequenceB = 2
    MaxTime = 5
    LastTransferTime = 3
    ForeignVAAs <- MCForeignVAAs
    ForeignEmitters = {stray}
    WormholePeersSet = TRUE
CHECK_DEADLOCK FALSE
INVARIANTS
    Backed
    ConsumedIffAttested
PROPERTIES
    ImplementsLedger
    EveryTransferSettles
