\* Clicks wait for their handler's last run; faults and mining on.
CONSTANTS
    MaxHeight = 1
    MaxClicks = 3
    BlockNumbers = {1}
    BlockHashes = {1}
    Txids = {t1}
    Addresses = {a1}
    Pending = Pending
    RpcError = RpcError
    RpcFaults = TRUE
    UserWaits = TRUE
SPECIFICATION Spec
INVARIANT BlockPanelsAgree
PROPERTIES EverySettles ImplementsPanels
CHECK_DEADLOCK FALSE
