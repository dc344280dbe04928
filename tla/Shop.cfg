SPECIFICATION MCShopSpec
CONSTANTS
    alice = alice
    bob = bob
    t1 = t1
    t2 = t2
    Customers = {alice, bob}
    Buyers = {bob}
    Clerks = {t1, t2}
    Topups = {1, 2}
    TopupAmount = 2
    Reward = 1
    Orders = {1, 2}
    Purchases = {1}
    Handlers = {t1, t2}
    Price = 1
    Ends = {1, 2}
    SaleLimit = 1
    MaxEnd = 3
    ShopFaults = 1
    RepOrders = {1, 2, 3}
    RepRenewals = {3}
    Payers = {t1, t2}
    PanelPrice = 1
    MaxDay = 1
    MaxPanelEnd = 3
    MarketFaults = 1
    Owners = {"o"}
    Subs = {"c1"}
    Horizon = 3
    MonthDays = 2
    MaxIps = 2
    Volumes = {1}
    Grants = {2}
    MaxCredit = 3
    Adjustments = {"k"}
SYMMETRY Twins
INVARIANTS
    ShopTypeOK
    MoneyIsConserved
    OrdersAreServed
    
    PanelsAreHonest
PROPERTY ActivationIsFixed
CHECK_DEADLOCK FALSE
