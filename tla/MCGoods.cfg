SPECIFICATION GoodsSpec
SYMMETRY Symmetry
CONSTANTS
    r1 = r1
    r2 = r2
    amin = amin
    babu = babu
    asha = asha
    rina = rina
    gift = gift
    rebate = rebate
    Workers = {amin, babu}
    Customers = {asha, rina}
    Requests = {r1, r2}
    Promotions = {gift, rebate}
    Buy <- MCBuy
    Free <- MCFree
    Rebate <- MCRebate
    MaxUses <- MCMaxUses
    MaxPerCustomer <- MCMaxPerCustomer
    Budget <- MCBudget
    Orders <- MCOrders
    Taken <- MCTaken
    CreditLimit = 1
    Owing <- MCOwing
    Saved <- MCSaved
    Stock = 1
    MaxQty = 2
    MaxReplaced = 1
    MaxSales = 2
    MaxReserved = 2
    k1 = k1
    k2 = k2
    tea = tea
    oil = oil
    Products = {tea, oil}
    Ordered <- MCOrdered
    Prices = {4}
    FirstStock <- MCFirstStock
    FirstCost <- MCFirstCost
    Batches = {1}
    Adjustments <- MCAdjustments
    MaxStock = 1
    MaxIssue = 2
    Staff = {k1, k2}
INVARIANTS
    TypeOK
    HandCovered
    CreditWithinLimit
    PromotionWithinLimits
    GiftsSpareReserved
    SaleAccounted
    StoreTypeOK
    ReceivedWithinOrdered
    StatusTellsReceipts
    CostWithinPrices
    StockMatchesMovements
    BatchWithinReceived
CHECK_DEADLOCK FALSE
