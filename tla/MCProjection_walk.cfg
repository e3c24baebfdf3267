\* Every start in a week and a half, both study weeks, goals of one to five,
\* up to a dozen units, and a walk short enough to overflow.
SPECIFICATION Spec
CONSTANTS
    FirstWeekday = 2
    MaxDay = 9
    ProjectedGoals = {1, 2, 3, 5}
    MaxRemaining = 12
    MaxProjectionDays = 14
INVARIANTS
    ProjectionExact
    CountsStudyDays
    OverflowOnlyWhenHopeless
    WeeklyLoad
