SPECIFICATION Spec
CONSTANTS
    m1 = m1
    m2 = m2
    m3 = m3
    Messages = {m1, m2}
    Contacts = {1, 2}
    ContactOf <- MCContactOf
    Outcomes = {"error", "no_history_id", "rejected", "dropped"}
    Confirmations = {"dialog", "imstate"}
    MaxVersions = 2
    MaxFaults = 1
    MaxCrashes = 1
    MaxFired = 1
INVARIANTS
    TypeOK
    NotLost
    OneChain
    EditsKept
PROPERTIES
    DeliversInOrder
