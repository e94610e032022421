\* One client, storage reads may fail.
CONSTANTS
    Clients = {c1}
    Mnemonics = {m1, m2}
    BadPhrases = {bad}
    Passphrases = {""}
    Indices = {0}
    MaxAccounts = 2
    NoWallet = NoWallet
    NoArg = NoArg
    CallerLock = TRUE
    StorageFaults = TRUE
SPECIFICATION Spec
SYMMETRY MCSymmetry
PROPERTY ReadNotDowngraded
