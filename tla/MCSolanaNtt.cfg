SPECIFICATION FairSpec
CONSTANTS
    Duration = 1
    MaxU64 = 4
    chainS = chainS
    chainB = chainB
    alice = alice
    ChainId = chainS
    Chains = {chainB}
    Managers = {managerB}
    NoPeer = NoPeer
    SdkTransceiver = t1
    Transceivers = {t1, t2}
    Users = {alice}
    StartBalances <- MCStartBalances
    Amounts = {1}
    Messages <- MCMessages
    Limits = {1}
    StartLimit = 1
    Locking = FALSE
    MaxItems = 1
    MaxTime = 2
INVARIANTS
    InboxSettledOnce
    OutboxPostedOnce
    Conservation
    NoItemStranded
PROPERTIES
    FlowsAreCharged
    ImplementsInboundTransfers
    EveryItemPosted
    EveryMessagePaid
