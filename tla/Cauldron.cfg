CONSTANTS
    Lines <- MCLines
    maxAttempts = 3
SPECIFICATION Spec
INVARIANTS
    MetersTellFailures
    ExplodesOnNothingRight
    RecipeIsRewarded
    AttemptsAreCodes
PROPERTIES
    EveryBrewIsJudged
