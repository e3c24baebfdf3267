\* A five-day learner who opens the application on a Friday and does not study.
SPECIFICATION Spec
CONSTANTS
    Tiers <- MCTiers
    BasePoints = 3
    MissPenalty = 4
    MinBalance = 0
    FirstWeekday = 3
    MaxDay = 3
    Goals = {1}
    TractateSizes = {3}
    Keys = {}
    FreezeCost = 3
    MaxOwned = 1
    Ops = {"read", "create"}
    Weeks = {"five_days"}
    Zones = {0}
    Starts = {}
    MaxDaysPerSettlement = 10
    MaxUnits = 2
    MaxEvents = 3
    MaxPlans = 1
INVARIANTS
    RestDayNeverPunished
