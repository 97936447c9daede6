SPECIFICATION Spec
CONSTANTS
    w1 = w1
    Parts = {"staff", "leave", "payroll", "members", "roles", "sessions", "tenant", "award", "tenders", "estimates", "assistant", "baseline", "amendments", "retention", "billing", "revenue", "portals", "clients", "subjects", "subcontracts", "claims", "field", "device", "work", "fleet", "quality", "corrective", "permits", "survey", "quarry", "assets", "documents", "desk", "network", "controls", "filing"}
    Workers = {w1}
    Concurrent = FALSE
    MaxRows <- MCMaxRows
    Staff = {"ada"}
    Casuals = {"bob"}
    WorkDays = {1, 2}
    SheetPeriods <- MCSheetPeriods
    Hours = {2}
    Rates = {2}
    Deductions <- MCDeductions
    Emails = {"a", "b"}
    Founder = "a"
    SeatLimits <- MCSeatLimits
    TrialPlan = "growth"
    MaxPasswords = 3
    Chains = {1, 2}
    UnitRates = {1, 2}
    MarkupPct = 0
    StepCounts = {2}
    Extracted = {1, 2}
    Values = {2}
    CapAmount = 1
    Percentage = 50
    Contracted = 2
    PortalKinds = {"clp", "vnp"}
    PortalEmails = {"c"}
    ProjectOf <- MCProjectOf
    NamedProjects = {"road"}
    MaxChanges = 3
    WorkRates = {2}
    Measured = {1}
    AgreedPcts = {50}
    RetentionPcts = {100}
    FieldRecords <- MCFieldRecords
    DeviceRecords = {"r1", "r2"}
    BatchSize = 2
    SiteProjects = {"road", "bridge"}
    Quantities = {1, 2}
    WorkContracted = 2
    Charges = {1, 2}
    Organisations = {"o1", "o2"}
    Readers = {"ada", "bob"}
    Starts = {0}
    Durations = {1, 2}
    Lags <- MCLags
INVARIANT TypeOK
INVARIANT PayrollPaysTimesheetsOnce
INVARIANT AccessEnds
INVARIANT ConsentComesFirst
INVARIANT MoneyFollowsAgreement
INVARIANT SignOffsHold
INVARIANT FieldWorkArrives
PROPERTY SeatsGrowWithinLimit
PROPERTY CriticalPathIsTheLongest
CHECK_DEADLOCK FALSE
