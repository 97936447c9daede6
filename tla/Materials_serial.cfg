SPECIFICATION Spec
CONSTANTS
    yard = yard
    site = site
    w1 = w1
    w2 = w2
    Parts = {"stock", "traceability", "sourcing", "purchasing", "tendering", "vendors", "posting", "banking", "sales", "fuel", "production"}
    Warehouses = {yard, site}
    Workers = {w1}
    Concurrent = FALSE
    MaxRows <- MCMaxRows
    Quantities = {1}
    Methods = {"weighted_average", "fifo"}
    MaxOwned = 2
    MaxLayers = 2
    MaxDocuments = 2
    MaxCounts = 1
    CbsBudget = 1
    OrderLines <- MCOrderLines
    BankDetails = {1, 2}
    ChartOfAccounts <- MCChartOfAccounts
    CostCodes = {"c1"}
    Budgets = {1, 2}
    Amounts = {1, 2}
    Days = {1}
    Prices = {2}
    SettingsChoices <- MCSettings
    Litres = {1, 2}
    MaxLitres = 3
    SlipThreshold = 1
    Tolerance = 0
INVARIANT TypeOK
INVARIANT BooksBalance
INVARIANT WasteIsRecordedOnce
INVARIANT OrdersAndPayeesApproved
INVARIANT GoodsReceivedAsNoted
INVARIANT LedgerReconciles
INVARIANT OrderFollowsDeliveries
INVARIANT SettledWhenPaid
INVARIANT FuelConserved
INVARIANT EntryMatchedOnce
PROPERTY LayersMoveWithBalance
PROPERTY ReservedWithinStock
PROPERTY HardBlockHolds
SYMMETRY Symmetry
CHECK_DEADLOCK FALSE
