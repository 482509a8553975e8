CONSTANTS
    w1 = w1
    w2 = w2
    w3 = w3
    missing = missing
    Workers <- ThreeWorkers
    Missing = missing
    Amounts <- OneAndTwo
    MaxRevenue = 2
    MaxDrift = 2
SYMMETRY WorkerSymmetry
SPECIFICATION SmoothSpec
INVARIANTS
    KeyIsRevenueAtRest
