SPECIFICATION Spec
CONSTANTS
    m1 = m1
    m2 = m2
    m3 = m3
    Messages = {m1}
    Contacts = {1, 2}
    ContactOf <- MCContactOf
    Outcomes = {"no_history_id"}
    Confirmations = {}
    MaxVersions = 1
    MaxFaults = 1
    MaxCrashes = 0
    MaxFired = 3
INVARIANTS
    NoTimerYet
