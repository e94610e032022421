\* One client, a non-empty passphrase.
CONSTANTS
    Clients = {c1}
    Mnemonics = {m1, m2}
    BadPhrases = {bad}
    Passphrases = {"", "pw"}
    Indices = {0}
    MaxAccounts = 2
    NoWallet = NoWallet
    NoArg = NoArg
    CallerLock = TRUE
    StorageFaults = FALSE
SPECIFICATION Spec
SYMMETRY MCSymmetry
INVARIANT AccountsFromWalletSeed
