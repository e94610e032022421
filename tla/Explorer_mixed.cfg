\* One invocation each of refreshTip and lookupAddress while the node mines.
CONSTANTS
    MaxHeight = 1
    MaxClicks = 2
    BlockNumbers = {1}
    BlockHashes = {1}
    Txids = {t1}
    Addresses = {a1}
    Pending = Pending
    RpcError = RpcError
    RpcFaults = FALSE
    UserWaits = TRUE
SPECIFICATION Spec
INVARIANT SummariesCoherent
CHECK_DEADLOCK FALSE
