\* Three clients with the caller-side lock of spec.md 5, storage faults,
\* the default passphrase, up to four accounts.
CONSTANTS
    Clients = {c1, c2, c3}
    Mnemonics = {m1, m2}
    BadPhrases = {bad}
    Passphrases = {""}
    Indices = {0, 1, 2, 3, 4}
    MaxAccounts = 4
    NoWallet = NoWallet
    NoArg = NoArg
    CallerLock = TRUE
    StorageFaults = TRUE
SPECIFICATION Spec
SYMMETRY MCSymmetry
INVARIANTS TypeOK CreatedAccountsStored
PROPERTIES ImplementsWalletAbstract
