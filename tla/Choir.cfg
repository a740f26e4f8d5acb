CONSTANTS
    Classes = 3
    Width = 3
    voiceCount = 9
    bucketOrder <- MCBuckets
    Tokens <- MCTokens
    realCountExpected <- MCReal
    earlyCountExpected <- MCEarly
    EarlyEnough = 7
    ChordEnough = 5
SPECIFICATION Spec
INVARIANTS
    EveryVoiceOnce
    SearchNeverNeeded
    VoicesInTurn
