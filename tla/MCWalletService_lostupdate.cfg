\* Unserialized callers against the abstract wallet contract.
CONSTANTS
    Clients = {c1, c2}
    Mnemonics = {m1, m2}
    BadPhrases = {bad}
    Passphrases = {""}
    Indices = {0, 1}
    MaxAccounts = 2
    NoWallet = NoWallet
    NoArg = NoArg
    CallerLock = FALSE
    StorageFaults = FALSE
SPECIFICATION Spec
SYMMETRY MCSymmetry
PROPERTY ImplementsWalletAbstract
