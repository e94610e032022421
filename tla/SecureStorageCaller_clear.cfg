\* clear() followed by reads, no faults.
CONSTANTS
    Keys = {"drachma_wallet_data", "account_private_key", "backup_mnemonic"}
    PrivateNamed = {"account_private_key"}
    MnemonicNamed = {"backup_mnemonic"}
    Values = {v1, v2}
    EmptyString = empty
    NoValue = NoValue
    DefaultService = "default-service"
    StorageFaults = FALSE
    AllowClear = TRUE
INIT CallerInit
NEXT CallerNext
INVARIANT GetReturnsContents
