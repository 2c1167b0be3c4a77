SPECIFICATION Spec
CONSTANTS
    Rules = {rule1}
    Trades = {t1}
    Probes = {p1}
    SR1 = sr1
    SR2 = sr2
    SR3 = sr3
    None = None
    Unset = Unset
    Horizon = 5
    DayOf <- MCDayOf
    WindowEnd <- MCWindowEnd
    LockAction = {rule1, sr1}
    Requires <- TimerRules
    Minutes <- OneMinute
    Cooldown = 1
    ShadowModes = {TRUE, FALSE}
INVARIANTS
    TypeOK
    OneActiveLock
    VerdictsAgree
    CoveredSharesVerdict
PROPERTIES
    HistoryIsFrozen
    KeepsPromise
CHECK_DEADLOCK FALSE
