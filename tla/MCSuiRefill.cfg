SPECIFICATION FairSpec
CONSTANTS
    Duration = 3
    MaxU64 = 4
    chainS = chainS
    chainB = chainB
    ChainId = chainS
    Chains = {chainB}
    Managers = {managerB}
    NoPeer = NoPeer
    MaxTransceivers = 2
    SdkTransceiver = 0
    Unit = 1
    Amounts = {1}
    Messages <- MCMessages
    Limits = {3}
    Locking = TRUE
    MaxItems = 1
    MaxTime = 3
PROPERTIES
    RefillsByTheAmount
