SPECIFICATION FairSpec
CONSTANTS
    Chains = {evm, sol}
    NoChain = NoChain
    Solana = {sol}
    Settings = {"version", "inbound"}
INVARIANTS
    HandedOverConfigured
    PeeredBeforePush

PROPERTIES
    PushConverges
