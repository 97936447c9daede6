SPECIFICATION SpecOverlapping
CONSTANTS
    yard = yard
    site = site
    w1 = w1
    w2 = w2
    Parts = {"sales"}
    Warehouses = {yard}
    Workers = {w1, w2}
    Concurrent = TRUE
    MaxRows <- MCMaxRows
    Quantities = {1}
    Methods = {"weighted_average"}
    MaxOwned = 1
    MaxLayers = 2
    MaxDocuments = 0
    MaxCounts = 0
    CbsBudget = 1
    OrderLines <- MCOrderLines
    BankDetails = {1, 2}
    ChartOfAccounts <- MCChartOfAccounts
    CostCodes = {"c1"}
    Budgets = {1, 2}
    Amounts = {2}
    Days = {1}
    Prices = {2}
    SettingsChoices <- MCOneSetting
    Litres = {1, 2}
    MaxLitres = 3
    SlipThreshold = 1
    Tolerance = 0
INVARIANT PaymentsWithinInvoice
CHECK_DEADLOCK FALSE
