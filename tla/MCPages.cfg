SPECIFICATION Spec
CONSTANTS
    w1 = w1
    i1 = i1
    i2 = i2
    i3 = i3
    s1 = s1
    s2 = s2
    Accounts = {w1}
    Rival = rival
    Items = {i1, i2, i3}
    Amounts = {3, 4}
    Salts = {s1, s2}
    Prices = {2}
    Ulp = 1
    None = None
    Seconds = {1}
    Subs <- MCSubs
    Category <- MCCategory
    ListLimit = 2
    Histories <- MCHistories
    RivalBids <- MCRivalBids
    MaxPresses = 2
    MaxCalls = 2
    MaxFiles = 2
    MaxOthers = 1
INVARIANTS
    TypeOK
    OpeningIsKept
    
    AmountsAreOfTheRowsAuction
    OneFailureHidesOneAuction
    WaitsOnlyForAnswers
