\* Reads after writes of a non-empty and an empty string; no faults, no clear.
CONSTANTS
    Keys = {"drachma_wallet_data", "account_private_key", "backup_mnemonic"}
    PrivateNamed = {"account_private_key"}
    MnemonicNamed = {"backup_mnemonic"}
    Values = {v1, empty}
    EmptyString = empty
    NoValue = NoValue
    DefaultService = "default-service"
    StorageFaults = FALSE
    AllowClear = FALSE
INIT CallerInit
NEXT CallerNext
INVARIANT GetReturnsContents
