CONSTANTS
    RowCount = 4

    p1 = p1
    p2 = p2
    p3 = p3
    Items <- ThreeItems
    Later <- OneLater
    Preselected <- OnePreselected
    Words <- OneWord
    Match <- WordMatches

    MinForms = 0
    MaxForms = 4
    MaxSaved = 2
    MaxExtra = 1

    FirstDayOfWeek = 1
    Clock <- LastOfMarch
    BrowserZones <- ThreeZones
    ServerOffset = 540
    TypedDates <- SomeDates
    PickDays <- FirstAndLast
    MaxAway = 1
    MaxWidgets = 2

    DishRows = {"items-0-menu", "items-1-menu"}
    Plain = "menu"
    Inner = {"booth"}
    Objects = {"m1", "m2"}
    AtFirst = {"m1"}
    MaxLabel = 1

    t1 = t1
    t2 = t2
    Tabs <- TwoTabs
    Models <- TwoModels
    Typed <- ThreeTexts
    Lower <- InLowerCase
    Having <- TitlesWith
    Lists <- OrdersAndMenus
    FiltersOf <- FiltersThere
SPECIFICATION Spec
INVARIANTS
    TypeOK
    AcrossNeedsAllRows
    ChoicesConserved
    HiddenAreChosen
    FormsInSequence
    RowsAreWhole
    OpenBoxesClose
    GridIsTheMonth
    WindowsHaveOpeners
    SelectsAreSound
    ShownAsKept
PROPERTY DatesGoRound
