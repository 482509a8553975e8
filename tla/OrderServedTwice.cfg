CONSTANTS
    a = a
    b = b
    s = s
    p = p
    f = f
    o1 = o1
    o2 = o2
    m1 = m1
    m2 = m2
    mf = mf
    w1 = w1
    w2 = w2
    listener = listener
    Items <- AllItems
    Orders <- TwoOrders
    Menus <- AllMenus
    OrderOf <- ItsOrder
    Sort <- ItsSort
    Parts <- ItsParts
    MenuOf <- ItsMenu
    Bought <- ItsNumber
    FixedPrice <- ItsPrice
    Paid <- PaidFour
    Staff <- TwoStaff
    Listener = listener
SYMMETRY StaffSymmetry
SPECIFICATION Spec
PROPERTIES
    AllServedCompletes
