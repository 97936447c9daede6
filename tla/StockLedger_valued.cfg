SPECIFICATION Spec
CONSTANTS
    yard = yard
    site = site
    w1 = w1
    w2 = w2
    Parts = {"stock"}
    Warehouses = {yard, site}
    Workers = {w1}
    Concurrent = FALSE
    MaxRows <- MCMaxRows
    Quantities = {1, 2}
    Methods = {"weighted_average"}
    MaxOwned = 2
    MaxLayers = 2
    MaxDocuments = 1
    MaxCounts = 0
    CbsBudget = 1
    OrderLines <- MCOrderLines
    BankDetails = {1, 2}
    ChartOfAccounts <- MCChartOfAccounts
    CostCodes = {"c1"}
    Budgets = {1, 2}
    Amounts = {1, 2}
    Days = {1}
    Prices = {2}
    SettingsChoices <- MCSettings
    Litres = {1, 2}
    MaxLitres = 3
    SlipThreshold = 1
    Tolerance = 0
INVARIANT StockIsValued
CHECK_DEADLOCK FALSE
