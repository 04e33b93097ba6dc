SPECIFICATION Spec
CONSTANTS
    Accounts = {w1}
    TestWallet = test
    Bypass = Bypass
    MockSignature = MockSignature
    None = None
    Items = {i1, i2}
    Amounts = {3}
    Salts = {s1}
    Prices = {2}
    Ulp = 1
    Files = {f1, f2}
    Subs <- MCSubs
    FirstSub <- MCFirstSub
    MaxCalls = 2
SYMMETRY Symmetry
INVARIANTS
    TypeOK
    SessionIsRecognised
    ImageIsServed
    
    BusyHasACall
