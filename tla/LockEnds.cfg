SPECIFICATION FairSpec
CONSTANTS
    Rules = {rule1}
    Trades = {t1}
    Probes = {}
    SR1 = sr1
    SR2 = sr2
    SR3 = sr3
    None = None
    Unset = Unset
    Horizon = 5
    DayOf <- MCDayOf
    WindowEnd <- MCWindowEnd
    LockAction = {rule1, sr1}
    Requires <- ContactRules
    Minutes <- OneMinute
    Cooldown = 1
    ShadowModes = {FALSE}
INVARIANTS
    LiftedWhenSatisfied
    BreachIsCounted
    TagsAreRecorded
PROPERTIES
    LockEnds
CHECK_DEADLOCK FALSE
