\* Runs overlap midnight and the reads of the learners; the batch has no room
\* for all of them, one of them always fails, and one run is lost.
\* RUN_SCHEDULER is set.
SPECIFICATION Spec
CONSTANTS
    FirstWeekday = 0
    MaxDay = 3
    east = east
    west = west
    broken = broken
    Learners = {east, west, broken}
    Zone <- MCZone
    Replicas = {r1}
    Scheduled = {r1}
    BatchSize = 2
    Poisoned = {broken}
    MaxDaysPerSettlement = 10
    MaxFaults = 1
INVARIANTS
    OpenDayLeftAlone
PROPERTIES
    WatermarkNeverBack
    RunCatchesUp
    OldDaysJudged
