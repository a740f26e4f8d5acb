\* The code's meaning of NOT and NEG against that of ISAspec.md, on the three machines.
SPECIFICATION Spec
CONSTANTS
    WordBytes = 2
    CellBytes = 3
    MemSz = 4096
    CodeSz = 800
    MaxInstrs = 90
    RandomValues <- MCRandom
    ShellCodes = {0, 1}
    StackLoOf <- MCStackLo
    Upper <- MCUpper
    Numeral <- MCNumeral
    Sources <- MCSources
    Programs <- MCPrograms
PROPERTIES NegationAsSpecified
