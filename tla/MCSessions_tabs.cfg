\* Two tabs, one address and one Google account that has it.
SPECIFICATION Spec
CONSTANTS
    Tabs = {1, 2}
    Emails = {"dan@example.org"}
    Subs = {"google dan"}
    MaxActions = 3
    MaxFaults = 1
INVARIANTS
    OneAccountPerLogin
PROPERTIES
    EveryCallEnds
