\* Overlapping clicks of one handler, no faults, no mining.
CONSTANTS
    MaxHeight = 1
    MaxClicks = 3
    BlockNumbers = {1}
    BlockHashes = {1}
    Txids = {t1}
    Addresses = {a1}
    Pending = Pending
    RpcError = RpcError
    RpcFaults = FALSE
    UserWaits = FALSE
SPECIFICATION Spec
INVARIANT LastRequestShown
CHECK_DEADLOCK FALSE
