CONSTANTS
    Byte = {0, 1}
    TokenSize = 2
    HashSize = 1
    SizeBytes = 1
    PayloadLimit = 7
    LiveTokens <- TwoTokens
SPECIFICATION FrameSpec
INVARIANTS
    ReadingsAgree
    SentIsServedButData
