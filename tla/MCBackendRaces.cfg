SPECIFICATION Spec
CONSTANTS
    w1 = w1
    w2 = w2
    r1 = r1
    r2 = r2
    Wallets = {w1, w2}
    Requests = {r1, r2}
    DbType = "postgres"
    Items = {i1}
    Prices = {2, 3}
    Amounts = {3, 4}
    Salts = {s1}
    Ulp = 1
    Calls = {"create", "store", "reveal", "claim"}
    MaxProofs = 2
    MaxRestarts = 1
    None = None
SYMMETRY Symmetry
INVARIANTS
    TypeOK
    RowsReferToRows
    HighestWasCommitted
    ClaimantsRevealed
    RecordIsOneReveal
