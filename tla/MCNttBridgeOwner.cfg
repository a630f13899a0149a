SPECIFICATION Spec
CONSTANTS
    RateLimitDuration = 1
    MaxAmount = 4
    chainA = chainA
    chainB = chainB
    managerA = managerA
    managerB = managerB
    alice = alice
    stray = stray
    ChainA = chainA
    ChainB = chainB
    ManagerA = managerA
    ManagerB = managerB
    NoPeer = NoPeer
    Transceivers = {t1, t2}
    MaxTransceivers = 2
    StartThreshold = 2
    Users = {alice}
    StartBalances <- MCStartBalances
    Amounts = {1}
    Limits = {1}
    OutboundLimit = 1
    InboundLimit = 1
    MaxSequenceA = 1
    MaxSequenceB = 1
    MaxTime = 2
    LastTransferTime = 1
    ForeignVAAs <- MCForeignVAAs
    ForeignEmitters = {stray}
    WormholePeersSet = FALSE
CHECK_DEADLOCK FALSE
INVARIANTS
    Authentic
PROPERTIES
    ImplementsLedger
