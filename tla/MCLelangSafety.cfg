SPECIFICATION Spec
CONSTANTS
    penjual = penjual
    alice = alice
    bob = bob
    Akun = {penjual, alice, bob}
    Penjual = penjual
    Kontrak = Kontrak
    None = None
    HargaDasar = 1
    WaktuMulai = 1
    WaktuBerakhir = 2
    MaxTime = 3
    PakaiCw721 = TRUE
    Deposits = {1, 2, 3}
    StrayAmounts = {}
    Bids = {1, 2, 3}
    Salts = {s1}
    Encodings = {"canonical", "unreduced"}
    Modal = 3
SYMMETRY Symmetry
CHECK_DEADLOCK FALSE
PROPERTIES
    BooksAreAppendOnly
    ImplementsSealedBidAuction
INVARIANTS
    TypeOK
    RosterMatchesRecords
    SealedWhileBidding
    OpenedIsSealed
    WinnerUndominated
    SettledOnce
    ShortfallFreezesRefunds
    TokenFollowsOutcome
