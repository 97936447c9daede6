SPECIFICATION FairSpec
CONSTANTS
    ta = ta
    tb = tb
    w1 = w1
    w2 = w2
    a1 = a1
    a2 = a2
    a3 = a3
    l1 = l1
    l2 = l2
    l3 = l3
    x1 = x1
    NoTenant = NoTenant
    Tenants = {ta, tb}
    TenantOf <- MCTenantOf
    TaskOf <- MCTaskOf
    Workers = {w1}
    Items = {a1, a2, a3, l1, l2, l3}
    Actionable = {a1, a2, l1, l2, l3}
    Failing = {l2}
    MaxCrashes = 1
INVARIANT TypeOK
PROPERTY WritesUnderOwnTenant
PROPERTY BatchIsWhole
PROPERTY EveryTenantIsServed
PROPERTY AppliedOnce
PROPERTY DueIsHandled
