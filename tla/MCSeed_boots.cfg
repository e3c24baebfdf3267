\* Two instances, boots that are killed after any one tractate, and earlier
\* twice.
SPECIFICATION Spec
CONSTANTS
    Instances = {1, 2}
    Payload <- MCPayload
    Patience = 1
    MaxFaults = 2
INVARIANTS
    NoHalfTractate
    ServesAll
PROPERTIES
    EveryBootResumes
