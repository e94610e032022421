\* One client, no faults: where generateWallet puts the mnemonic.
CONSTANTS
    Clients = {c1}
    Mnemonics = {m1}
    BadPhrases = {bad}
    Passphrases = {""}
    Indices = {0}
    MaxAccounts = 1
    NoWallet = NoWallet
    NoArg = NoArg
    CallerLock = TRUE
    StorageFaults = FALSE
SPECIFICATION Spec
INVARIANT SecretsOutOfMMKV
