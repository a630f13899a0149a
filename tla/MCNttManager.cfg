SPECIFICATION Spec
CONSTANTS
    RateLimitDuration = 1
    MaxAmount = 4
    chainA = chainA
    chainB = chainB
    alice = alice
    ChainId = chainA
    Chains = {chainB}
    Managers = {managerB}
    NoPeer = NoPeer
    Transceivers = {t1, t2}
    MaxTransceivers = 2
    Users = {alice}
    StartBalances <- MCStartBalances
    Amounts = {1, 2}
    Messages <- MCMessages
    Limits = {1}
    Locking = TRUE
    MaxSequence = 2
    MaxTime = 2
INVARIANTS
    OutboundSettledOnce
    InboundSettledOnce
    Conservation
    NoMessageStranded
PROPERTIES
    FlowsAreCharged
    ImplementsInboundTransfers
