SPECIFICATION FairSpec
CONSTANTS
    w1 = w1
    w2 = w2
    r1 = r1
    r2 = r2
    Wallets = {w1}
    Requests = {r1, r2}
    DbType = "postgres"
    Items = {i1}
    Prices = {2}
    Amounts = {3}
    Salts = {s1}
    Ulp = 1
    Calls = {"create", "status", "store", "reveal", "verify", "claim", "refund", "notify"}
    MaxProofs = 1
    MaxRestarts = 0
    None = None
PROPERTIES
    RequestsAnswered
