\* Two tabs of the web page, one of them open since the day before.
SPECIFICATION Spec
CONSTANTS
    Tiers <- MCTiers
    BasePoints = 3
    MissPenalty = 4
    MinBalance = 0
    FirstWeekday = 3
    MaxDay = 1
    Goals = {1, 2}
    TractateSizes = {2}
    Keys = {0, 1, 2, 100, 101, 102}
    FreezeCost = 3
    MaxOwned = 1
    Sessions = {1, 2}
    Ops = {"log", "purchase", "update", "switch", "week"}
    Weeks = {"five_days", "seven_days"}
    Zones <- MCEast
    WebClient = TRUE
    MaxDaysPerSettlement = 10
    MaxUnits = 2
    MaxRequests = 3
    MaxPlans = 2
INVARIANTS
    CursorFollowsEvents
