SPECIFICATION Spec
CONSTANTS
    Transceivers = {t1, t2, t3, t4}
    MaxTransceivers = 3
    BitmapWidth = 3
INVARIANTS
    RegistryInv
PROPERTIES
    SlotsNeverReassigned
    ImplementsTransceiverSet
