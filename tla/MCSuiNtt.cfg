SPECIFICATION Spec
CONSTANTS
    Duration = 2
    MaxU64 = 4
    chainS = chainS
    chainB = chainB
    ChainId = chainS
    Chains = {chainB}
    Managers = {managerB}
    NoPeer = NoPeer
    MaxTransceivers = 2
    SdkTransceiver = 0
    Unit = 2
    Amounts = {1, 2}
    Messages <- MCMessages
    Limits = {2}
    Locking = TRUE
    MaxItems = 1
    MaxTime = 3
INVARIANTS
    AccountsAgree
    NoItemStranded
PROPERTIES
    FlowsAreCharged
    ImplementsInboundTransfers
