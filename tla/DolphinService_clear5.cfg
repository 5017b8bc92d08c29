\* Boot at 12:00 and a deed every 50 minutes for a day, so that the
\* service's one-hour get never times out.
CONSTANTS
    Apps = {a1}
    QueueSize = 8
    TickBits = 30
    BootRtc = {43200}
    AppGaps = {3000000}
    MaxDeeds = 30
    MaxWaits = 0
    MaxUpgrades = 0
    LevelUps = {}
    MaxGaps = 30
    CallWindow = 90000000
    MaxTime = 90000000
SPECIFICATION Spec
CONSTRAINT BusyDay
INVARIANT ClearLimitsAt5
CHECK_DEADLOCK FALSE
