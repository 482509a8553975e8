CONSTANTS
    c1 = c1
    c2 = c2
    c3 = c3
    m1 = m1
    m2 = m2
    s1 = s1
    fee = fee
    k1 = k1
    none = none
    Carts <- RoundCarts
    Menus <- RoundMenus
    Sets <- RoundSets
    Fee = fee
    Comp <- RoundComp
    MaxLine = 1
    Codes <- RoundCodes
    NoCode = none
    SeatType = "PP"
    MaxRound = 1
    StockLevels <- RoundStock
SYMMETRY RoundSymmetry
SPECIFICATION Spec
INVARIANTS
    TypeOK
    OneOrderPerRound
    CouponSpentOnce
    CouponStillGood
    FeePaidFirst
PROPERTIES
    FrozenWhilePending
    LedgerSpec
