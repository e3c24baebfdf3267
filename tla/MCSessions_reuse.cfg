\* Two tabs that refresh with the same cookie.
SPECIFICATION Spec
CONSTANTS
    Tabs = {1, 2}
    Emails = {"dan@example.org"}
    Subs = {"google dan"}
    MaxActions = 3
    MaxFaults = 0
PROPERTIES
    ReuseRevokesChain
