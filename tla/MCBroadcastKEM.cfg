SPECIFICATION Spec
CONSTANT MaxRelayNumber = 5
INVARIANTS
    DecryptionCorrect
    ReadsInBounds
    EveryReceiverServed
