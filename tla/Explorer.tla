------------------------------ MODULE Explorer ------------------------------
(***************************************************************************)
(* src/explorer/app.js: five click handlers, each writing "Loading…" into  *)
(* its panels, awaiting JSON-RPC calls to a node, and writing the answer   *)
(* or the error.  Every click starts an independent async invocation; the  *)
(* button is never disabled, so invocations of one handler may overlap.   *)
(* The node answers each call at some moment of its own, or fails it, and  *)
(* mines blocks meanwhile.  Block n is identified by n, its hash by n too; *)
(* chain-dependent answers are the height the node had when it answered.  *)
(***************************************************************************)
EXTENDS Integers, Sequences

CONSTANTS
    MaxHeight,      \* the node mines blocks 1 .. MaxHeight
    MaxClicks,      \* handler invocations in a behaviour, the initial one included
    BlockNumbers,   \* numeric block ids typed into the block field
    BlockHashes,    \* block hashes typed into the block field (as block numbers)
    Txids,          \* transaction ids typed into the tx field
    Addresses,      \* addresses typed into the address field
    Pending,        \* a call not yet answered
    RpcError,       \* a call answered with obj.error, or whose fetch failed
    RpcFaults,      \* TRUE when any call may fail
    UserWaits       \* TRUE: a handler is clicked only when its last run finished

VARIABLES
    height,         \* the node's chain height
    reqs,           \* every handler invocation so far, in click order
    panel           \* panel name -> what the page shows

vars == <<height, reqs, panel>>

Handlers == {"tip", "block", "tx", "address", "mempool"}
Methods == {"getblockcount", "getbestblockhash", "getnetworkinfo", "getblockhash",
            "getblock", "gettransaction", "getbalance", "listunspent",
            "getrawmempool"}

\* textContent / innerHTML values, abstracted to what they say.
Show(s, v) == [s |-> s, v |-> v]
Loading == Show("loading", [none |-> 0])
Failure == Show("error", [none |-> 0])
Blank == Show("empty", [none |-> 0])

Panels == {"tip", "network", "blockJson", "blockTxs", "txJson", "address", "mempool"}

\* The panel each handler reports in.
MainPanel == [tip |-> "tip", block |-> "blockJson", tx |-> "txJson",
              address |-> "address", mempool |-> "mempool"]

\* The text field each handler reads (trimmed, and non-empty: each handler
\* returns at once on an empty field, a step that changes nothing).
Inputs(h) ==
    CASE h = "tip" -> {0}
      [] h = "block" -> {[num |-> n] : n \in BlockNumbers}
                          \cup {[hash |-> n] : n \in BlockHashes}
      [] h = "tx" -> Txids
      [] h = "address" -> Addresses
      [] h = "mempool" -> {0}

\* The calls each handler awaits; lookupBlock asks getblock only once a
\* numeric id has been turned into a hash.
Calls(r) ==
    CASE r.handler = "tip" -> {"getblockcount", "getbestblockhash", "getnetworkinfo"}
      [] r.handler = "block" ->
            IF "num" \in DOMAIN r.input
            THEN {"getblockhash"}
                 \cup (IF r.res["getblockhash"] \in {Pending, RpcError}
                       THEN {} ELSE {"getblock"})
            ELSE {"getblock"}
      [] r.handler = "tx" -> {"gettransaction"}
      [] r.handler = "address" -> {"getbalance", "listunspent"}
      [] r.handler = "mempool" -> {"getrawmempool"}

\* Calls whose failure the handler catches and replaces by a default.
Caught == {"getnetworkinfo", "listunspent"}

Failed(r) == \E m \in Calls(r) \ Caught : r.res[m] = RpcError

Settled_NoCatch(r) ==
    \A m \in Calls(r) : r.res[m] # Pending /\ (m \notin Caught => r.res[m] # RpcError)

\* Promise.all and the sequential awaits: the handler resumes once every
\* call it awaits has answered, or as soon as one uncaught call failed.
Settled(r) == Failed(r) \/ \A m \in Calls(r) : r.res[m] # Pending

\* The block a getblock call asks for.
BlockAsked(r) == IF "num" \in DOMAIN r.input THEN r.res["getblockhash"] ELSE r.input.hash

\* What the node answers to method m of invocation r at the current height.
Answer(r, m) ==
    CASE m \in {"getblockcount", "getbestblockhash", "getbalance",
                "listunspent", "getrawmempool"} -> height
      [] m = "getnetworkinfo" -> "drachma"
      [] m = "getblockhash" -> IF r.input.num <= height THEN r.input.num ELSE RpcError
      [] m = "getblock" -> IF BlockAsked(r) <= height THEN BlockAsked(r) ELSE RpcError
      [] m = "gettransaction" -> r.input

Request(h, in) ==
    [handler |-> h, input |-> in, res |-> [m \in Methods |-> Pending],
     done |-> FALSE, shown |-> Loading]

Busy(h) == \E i \in DOMAIN reqs : reqs[i].handler = h /\ ~reqs[i].done

\* A click starting handler h on input in; Loading is written before the
\* first await.
Click(h, in, loading) ==
    /\ Len(reqs) < MaxClicks
    /\ UserWaits => ~Busy(h)
    /\ reqs' = Append(reqs, Request(h, in))
    /\ panel' = [p \in DOMAIN panel |-> IF p \in DOMAIN loading THEN loading[p] ELSE panel[p]]
    /\ UNCHANGED height

RefreshTipClick_NoLoading == Click("tip", 0, [p \in {} |-> Loading])

RefreshTipClick == Click("tip", 0, [tip |-> Loading])
LookupBlockClick_KeepsTxs ==
    \E in \in Inputs("block") : Click("block", in, [blockJson |-> Loading])

LookupBlockClick ==
    \E in \in Inputs("block") :
        Click("block", in, [blockJson |-> Loading, blockTxs |-> Blank])
LookupTxClick == \E in \in Txids : Click("tx", in, [txJson |-> Loading])
LookupAddressClick == \E in \in Addresses : Click("address", in, [address |-> Loading])
RefreshMempoolClick == Click("mempool", 0, [mempool |-> Loading])

\* rpcCall: the node answers call m of invocation i, or the call fails.
Serve(i, m) ==
    /\ ~reqs[i].done
    /\ m \in Calls(reqs[i])
    /\ reqs[i].res[m] = Pending
    /\ \E a \in {Answer(reqs[i], m)} \cup (IF RpcFaults THEN {RpcError} ELSE {}) :
           reqs' = [reqs EXCEPT ![i].res[m] = a]
    /\ UNCHANGED <<height, panel>>

\* The node mines a block.
Mine ==
    /\ height < MaxHeight
    /\ height' = height + 1
    /\ UNCHANGED <<reqs, panel>>

\* The handler resumes after its awaits and writes its panels; shown keeps
\* what it wrote into its main panel.  The handler's locals die with it.
Finish(i, writes) ==
    /\ reqs' = [reqs EXCEPT ![i].done = TRUE,
                            ![i].res = [m \in Methods |-> Pending],
                            ![i].shown = writes[MainPanel[reqs[i].handler]]]
    /\ panel' = [p \in Panels |-> IF p \in DOMAIN writes THEN writes[p] ELSE panel[p]]
    /\ UNCHANGED height

Resumable(i, h) == reqs[i].handler = h /\ ~reqs[i].done /\ Settled(reqs[i])

\* refreshTip after Promise.all: a getnetworkinfo failure reads 'unknown'.
RefreshTipFinish(i) ==
    /\ Resumable(i, "tip")
    /\ LET r == reqs[i] IN
       IF Failed(r)
       THEN Finish(i, [tip |-> Failure, network |-> Blank])
       ELSE Finish(i, [tip |-> Show("tip", [height |-> r.res["getblockcount"],
                                            hash |-> r.res["getbestblockhash"]]),
                       network |-> Show("network",
                                    [name |-> IF r.res["getnetworkinfo"] = RpcError
                                              THEN "unknown"
                                              ELSE r.res["getnetworkinfo"]])])

\* lookupBlock after getblock: the JSON and the tx list of the block; on
\* an error only the JSON panel is written.
LookupBlockFinish(i) ==
    /\ Resumable(i, "block")
    /\ LET b == reqs[i].res["getblock"] IN
       IF Failed(reqs[i])
       THEN Finish(i, [blockJson |-> Failure])
       ELSE Finish(i, [blockJson |-> Show("block", [block |-> b]),
                       blockTxs |-> Show("txs", [block |-> b])])

LookupTxFinish(i) ==
    /\ Resumable(i, "tx")
    /\ IF Failed(reqs[i])
       THEN Finish(i, [txJson |-> Failure])
       ELSE Finish(i, [txJson |-> Show("tx", [tx |-> reqs[i].res["gettransaction"]])])

\* lookupAddress after Promise.all: a listunspent failure reads as [].
LookupAddressFinish(i) ==
    /\ Resumable(i, "address")
    /\ LET r == reqs[i] IN
       IF Failed(r)
       THEN Finish(i, [address |-> Failure])
       ELSE Finish(i, [address |-> Show("address",
                         [balanceAt |-> r.res["getbalance"],
                          utxosAt |-> IF r.res["listunspent"] = RpcError
                                      THEN {} ELSE {r.res["listunspent"]}])])

RefreshMempoolFinish(i) ==
    /\ Resumable(i, "mempool")
    /\ IF Failed(reqs[i])
       THEN Finish(i, [mempool |-> Failure])
       ELSE Finish(i, [mempool |-> Show("mempool", [poolAt |-> reqs[i].res["getrawmempool"]])])

HandlerFinish(i) ==
    \/ RefreshTipFinish(i) \/ LookupBlockFinish(i) \/ LookupTxFinish(i)
    \/ LookupAddressFinish(i) \/ RefreshMempoolFinish(i)

\* Page load: wireEvents(), then refreshTip() is already in flight.
Init ==
    /\ height = 0
    /\ reqs = <<Request("tip", 0)>>
    /\ panel = [p \in Panels |-> IF p = "tip" THEN Loading ELSE Blank]

Next ==
    \/ RefreshTipClick \/ LookupBlockClick \/ LookupTxClick
    \/ LookupAddressClick \/ RefreshMempoolClick
    \/ \E i \in DOMAIN reqs : \/ \E m \in Methods : Serve(i, m)
                               \/ HandlerFinish(i)
    \/ Mine

\* fetch has no timeout: a handler finishes only if the node answers every
\* call it is asked.  That is assumed of the node; clicks and mining are not
\* forced.
Fairness ==
    \A i \in 1 .. MaxClicks :
        /\ \A m \in Methods : WF_vars(i \in DOMAIN reqs /\ Serve(i, m))
        /\ WF_vars(i \in DOMAIN reqs /\ HandlerFinish(i))

Spec == Init /\ [][Next]_vars /\ Fairness

(***************************************************************************)
(* Properties                                                              *)
(***************************************************************************)

LastOf(is) == CHOOSE i \in is : \A j \in is : j <= i

\* Once every invocation of a handler has finished, its panel shows what the
\* most recent click of it produced, not an answer to an earlier click that
\* came back later.
LastRequestShown ==
    \A h \in Handlers :
        LET is == {i \in DOMAIN reqs : reqs[i].handler = h} IN
        (is # {} /\ \A i \in is : reqs[i].done) =>
            panel[MainPanel[h]] = reqs[LastOf(is)].shown

\* A panel assembled from several calls describes one chain state: the tip
\* panel's "Height: h / Hash: x" is one block, and the address summary's
\* balance and spendable outputs are read at the same height.
SummariesCoherent ==
    /\ panel.tip.s = "tip" => panel.tip.v.height = panel.tip.v.hash
    /\ panel.address.s = "address" =>
          panel.address.v.utxosAt \subseteq {panel.address.v.balanceAt}

\* The transaction list under the block JSON belongs to the block the JSON
\* shows, and is empty while the JSON panel shows Loading or an error.
BlockPanelsAgree ==
    panel.blockTxs = IF panel.blockJson.s = "block"
                     THEN Show("txs", panel.blockJson.v)
                     ELSE Blank

\* Refinement: for a user who waits (UserWaits), handler h's outstanding
\* request is its one unfinished invocation.
NoAsk == [none |-> 0]
Outstanding(h) ==
    IF Busy(h)
    THEN LET r == reqs[CHOOSE i \in DOMAIN reqs : reqs[i].handler = h /\ ~reqs[i].done]
         IN [in |-> r.input]
    ELSE NoAsk

P == INSTANCE ExplorerPanels
        WITH asked <- [h \in Handlers |-> Outstanding(h)], Idle <- NoAsk

\* The page behaves as ExplorerPanels says: the Loading write, the clearing
\* of the tx list, the answer to the very input clicked, error paths that
\* leave Loading, and no block shown before the node has it.
ImplementsPanels == P!ASpec

\* Every click eventually leaves Loading: its handler writes an answer or
\* an error, given that the node answers every call.
EverySettles ==
    \A i \in 1 .. MaxClicks :
        (i <= Len(reqs)) ~> (i <= Len(reqs) /\ reqs[i].done)

====
