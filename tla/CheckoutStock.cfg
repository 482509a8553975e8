CONSTANTS
    c1 = c1
    c2 = c2
    c3 = c3
    m1 = m1
    m2 = m2
    s1 = s1
    fee = fee
    k1 = k1
    none = none
    Carts <- StockCarts
    Menus <- StockMenus
    Sets <- StockSets
    Fee = fee
    Comp <- StockComp
    MaxLine = 1
    Codes <- NoCodes
    NoCode = none
    SeatType = "NO"
    MaxRound = 0
    StockLevels <- StockStock
SYMMETRY StockSymmetry
SPECIFICATION Spec
INVARIANTS
    NeverOversold
PROPERTIES
    ReservationErodedOnlyByLapsed
