CONSTANTS
    Periods = 30
    Limits = {0, 1, 3, 29, 30}
SPECIFICATION Spec
INVARIANTS TypeOK CountWithinWindow RestartsBounded FullWindowIsInfinity
