SPECIFICATION Spec
CONSTANTS
    w1 = w1
    w2 = w2
    r1 = r1
    r2 = r2
    Wallets = {w1, w2}
    Requests = {r1, r2}
    DbType = "postgres"
    Items = {i1}
    Prices = {2}
    Amounts = {3, 4}
    Salts = {s1}
    Ulp = 1
    Calls = {"create", "store", "reveal"}
    MaxProofs = 2
    MaxRestarts = 0
    None = None
INVARIANTS
    PriceIsBestReveal
