SPECIFICATION Spec
CONSTANTS
    w1 = w1
    w2 = w2
    r1 = r1
    r2 = r2
    Wallets = {w1, w2}
    Requests = {r1, r2}
    DbType = "sqlite"
    Items = {i1}
    Prices = {2}
    Amounts = {3, 4, 5}
    Salts = {s1}
    Ulp = 2
    Calls = {"create", "status", "store", "reveal", "claim", "refund", "notify"}
    MaxProofs = 2
    MaxRestarts = 1
    None = None
SYMMETRY Symmetry
INVARIANTS
    PriceIsBestReveal

    
