SPECIFICATION ScanSpec
CONSTANTS
    penjual = penjual
    alice = alice
    bob = bob
    carol = carol
    Akun = {penjual, alice, bob, carol}
    Penjual = penjual
    Kontrak = Kontrak
    None = None
    HargaDasar = 1
    WaktuMulai = 0
    WaktuBerakhir = 1
    MaxTime = 0
    PakaiCw721 = TRUE
    Deposits = {3}
    StrayAmounts = {3}
    Bids = {1, 2, 3}
    Salts = {s1}
    Encodings = {"canonical"}
    Modal = 3
SYMMETRY Symmetry
CHECK_DEADLOCK FALSE
INVARIANTS
    ScanInvariant
    NoValidBidsIsRight
    EscrowCoversDeposits
PROPERTIES
    ImplementsContract
