\* A learner in a zone whose study date is the UTC date, who changes the study
\* week, the goal and the position at times: one plan, logs, purchases, reads,
\* sweeps and aborts, from a Thursday to a Monday.
SPECIFICATION Spec
CONSTANTS
    Tiers <- MCTiers
    BasePoints = 3
    MissPenalty = 4
    MinBalance = 0
    FirstWeekday = 3
    MaxDay = 4
    Goals = {1, 2}
    TractateSizes = {2}
    Keys = {}
    FreezeCost = 3
    MaxOwned = 1
    Ops = {"log", "read", "sweep", "purchase", "create", "week", "update"}
    Weeks = {"five_days", "seven_days"}
    Zones = {0}
    Starts = {}
    MaxDaysPerSettlement = 10
    MaxUnits = 2
    MaxEvents = 3
    MaxPlans = 1
INVARIANTS
    TypeOK
    PaidOnce
    StreakFollowsCalendar
    ClosedDaysFinalised
    VerdictsFair
    NextIsShown
PROPERTIES
    JudgedInOrder
    CurrentAccountStays
    PortionStays
    UnseenRestDayHeld
