\* One client creating accounts past index 255.
CONSTANTS
    Clients = {c1}
    Mnemonics = {m1}
    BadPhrases = {bad}
    Passphrases = {""}
    Indices = {0}
    MaxAccounts = 257
    NoWallet = NoWallet
    NoArg = NoArg
    CallerLock = TRUE
    StorageFaults = FALSE
SPECIFICATION Spec
SYMMETRY MCSymmetry
INVARIANT DistinctAccountKeys
