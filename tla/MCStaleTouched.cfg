SPECIFICATION Spec
CONSTANTS
    l1 = l1
    c1 = c1
    c2 = c2
    t1 = t1
    NoLead = NoLead
    NoUser = NoUser
    Lead <- OneLead
    User <- Team
    Role <- MCRole
    Pool <- OnePool
    NoActivity = 1
    Escalate = 1
    MaxAttempts = 3
    PolicyAt = 1
    Horizon = 5
    MaxFaults = 1
PROPERTIES
    TouchedKept
