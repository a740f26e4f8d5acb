CONSTANTS
    Classes = 4
    Width = 6
    voiceCount = 24
    bucketOrder <- MCBuckets
    Tokens <- MCTokens
    realCountExpected <- MCReal
    earlyCountExpected <- MCEarly
    EarlyEnough = 18
    ChordEnough = 14
    Carry = FALSE
SPECIFICATION WSpec
INVARIANTS
    SolutionTokens
