SPECIFICATION FairSpec
CONSTANTS
    penjual = penjual
    alice = alice
    bob = bob
    Akun = {penjual, alice, bob}
    Penjual = penjual
    Kontrak = Kontrak
    None = None
    HargaDasar = 1
    WaktuMulai = 1
    WaktuBerakhir = 2
    MaxTime = 3
    PakaiCw721 = FALSE
    Deposits = {1, 2}
    StrayAmounts = {}
    Bids = {2, 3}
    Salts = {s1}
    Encodings = {"canonical"}
    Modal = 3
CHECK_DEADLOCK FALSE
PROPERTIES
    LosersRefunded
