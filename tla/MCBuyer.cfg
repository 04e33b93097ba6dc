SPECIFICATION Spec
CONSTANTS
    t1 = t1
    t2 = t2
    Tabs = {t1, t2}
    Accounts = {w1}
    TestWallet = test
    Rival = rival
    Items = {i1}
    Amounts = {3, 4}
    Salts = {s1}
    Prices = {2}
    Ulp = 2
    None = None
    Bypass = bypass
    MaxSends = 3
    MaxCalls = 2
SYMMETRY Symmetry
INVARIANTS
    TypeOK
    
    
PROPERTIES
    OnlyNewerBidsAreOverwritten
    RepeatedRevealChangesNothing
