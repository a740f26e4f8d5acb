\* One client plays every path while another is silent.
SPECIFICATION Spec
CONSTANTS
    Clients = {c1, c2}
    Silent = {c2}
    RandomValues <- MCRandomValues
    Hp <- MCHp
INVARIANTS BearNeverDies OneBlowPastDeath FlagNeedsAnswer
PROPERTIES ServedDespiteSilence
