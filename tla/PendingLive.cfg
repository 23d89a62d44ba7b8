SPECIFICATION FairSpec
CONSTANTS
    m1 = m1
    m2 = m2
    m3 = m3
    Messages = {m1, m3}
    Contacts = {1, 2}
    ContactOf <- MCContactOf
    Outcomes = {"error", "rejected", "no_history_id"}
    Confirmations = {}
    MaxVersions = 2
    MaxFaults = 2
    MaxCrashes = 0
    MaxFired = 1
PROPERTIES
    MessageArrives
    EditArrives
