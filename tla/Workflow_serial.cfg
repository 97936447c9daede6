SPECIFICATION Spec
CONSTANTS
    u1 = u1
    u2 = u2
    u3 = u3
    r1 = r1
    r2 = r2
    NoRole = NoRole
    System = System
    Beat = Beat
    w1 = w1
    NoAmount = NoAmount
    NoBound = NoBound
    NoStep = NoStep
    Users = {u1, u2, u3}
    Roles = {r1, r2}
    RoleOf <- MCRoleOf
    Admins = {}
    Workers = {w1}
    Chains <- MCChains
    Amounts = {1, 2}
    Delegates = {u3}
    Concurrent = FALSE
    MaxLog = 5
INVARIANT TypeOK
INVARIANT NoStepSkipped
INVARIANT NoOutsiderDecides
INVARIANT NeverStuck
CHECK_DEADLOCK FALSE
INVARIANT EscalationIsOfTheStep
PROPERTY TerminalIsFinal
PROPERTY EscalatedOnce
PROPERTY ImplementsContract
