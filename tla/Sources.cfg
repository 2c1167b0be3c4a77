SPECIFICATION Spec
CONSTANTS
    Providers = {"binance", "fake"}
    Keyed = {"binance"}
    Streamed = {"binance"}
    Requests = {r1, r2}
    MaxIds = 3
    MaxChanges = 4
    MaxCrashes = 1
    None = None
PROPERTIES
    SwitchedOffIsSilenced
    ActiveIsStreamed
CHECK_DEADLOCK FALSE
