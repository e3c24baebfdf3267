\* Logs and purchases sent again with the key of an earlier one, across aborts,
\* switches of tractate and moves to a zone on the other side of UTC, with
\* settlements capped at one day.
SPECIFICATION Spec
CONSTANTS
    Tiers <- MCTiers
    BasePoints = 3
    MissPenalty = 4
    MinBalance = 0
    FirstWeekday = 3
    MaxDay = 2
    Goals = {1}
    TractateSizes = {2}
    Keys = {1}
    FreezeCost = 3
    MaxOwned = 2
    Ops = {"log", "purchase", "create", "switch", "timezone"}
    Weeks = {"seven_days"}
    Zones <- MCFarZones
    Starts = {}
    MaxDaysPerSettlement = 1
    MaxUnits = 2
    MaxEvents = 2
    MaxPlans = 2
INVARIANTS
    EventsAddUp
    FreezesAddUp
    Reconciled
    NextIsShown
PROPERTIES
    ImplementsDayBook
    JudgedOnce
    TodayOnlyWon
