SPECIFICATION Spec
CONSTANTS
    dish = dish
    part = part
    s1 = s1
    s2 = s2
    t1 = t1
    t2 = t2
    k1 = k1
    k2 = k2
    nobody = nobody
    NoOne <- nobody
    Items <- DishAndPart
    Parts <- OnlyPart
    Servers <- OneServer
    SessionOf <- OneSession
    Tasks <- TwoTasks
    Threads <- TwoThreads
    MaxToSpring = 1
    MaxToDjango = 1
SYMMETRY Anonymous
CONSTRAINT UntilDisturbed
INVARIANT TypeOK AgreeWhenSettled
