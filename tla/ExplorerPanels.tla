---------------------------- MODULE ExplorerPanels ----------------------------
(***************************************************************************)
(* What the explorer page promises a user who waits for each handler      *)
(* before clicking it again: per handler, at most one request is          *)
(* outstanding; while it is, the handler's panel reads Loading; its       *)
(* answer is to the input the user asked, and a block is shown only once *)
(* the node has it.  A request may always fail instead.  Nothing here     *)
(* says that values from different calls agree (see SummariesCoherent in *)
(* Explorer).                                                              *)
(***************************************************************************)
EXTENDS Integers

CONSTANTS MaxHeight, BlockNumbers, BlockHashes, Txids, Addresses,
          Idle          \* no request of the handler outstanding

VARIABLES
    height,             \* the node's chain height
    asked,              \* handler -> Idle, or [in]: the input of its outstanding request
    panel               \* panel name -> what the page shows

avars == <<height, asked, panel>>

Handlers == {"tip", "block", "tx", "address", "mempool"}
Panels == {"tip", "network", "blockJson", "blockTxs", "txJson", "address", "mempool"}
MainPanel == [tip |-> "tip", block |-> "blockJson", tx |-> "txJson",
              address |-> "address", mempool |-> "mempool"]

Show(s, v) == [s |-> s, v |-> v]
Loading == Show("loading", [none |-> 0])
Failure == Show("error", [none |-> 0])
Blank == Show("empty", [none |-> 0])

Inputs(h) ==
    CASE h \in {"tip", "mempool"} -> {0}
      [] h = "block" -> {[num |-> n] : n \in BlockNumbers}
                          \cup {[hash |-> n] : n \in BlockHashes}
      [] h = "tx" -> Txids
      [] h = "address" -> Addresses

\* What a click shows at once: Loading, and for a block lookup no tx list.
ClickView(h) ==
    IF h = "block" THEN [blockJson |-> Loading, blockTxs |-> Blank]
    ELSE [p \in {MainPanel[h]} |-> Loading]

Block(in) == IF "num" \in DOMAIN in THEN in.num ELSE in.hash

\* The panel contents an answer to request a of handler h may leave; a
\* chain-dependent value is a height the node has reached.
Answers(h, a) ==
    LET H == 0 .. height IN
    CASE h = "tip" ->
            {[tip |-> Failure, network |-> Blank]} \cup
            {[tip |-> Show("tip", [height |-> x, hash |-> y]),
              network |-> Show("network", [name |-> n])] :
                 x \in H, y \in H, n \in {"drachma", "unknown"}}
      [] h = "block" ->
            {[blockJson |-> Failure]} \cup
            {[blockJson |-> Show("block", [block |-> b]),
              blockTxs |-> Show("txs", [block |-> b])] : b \in {Block(a.in)} \cap 0 .. height}
      [] h = "tx" -> {[txJson |-> Failure], [txJson |-> Show("tx", [tx |-> a.in])]}
      [] h = "address" ->
            {[address |-> Failure]} \cup
            {[address |-> Show("address", [balanceAt |-> x, utxosAt |-> u])] :
                 x \in H, u \in {{}} \cup {{y} : y \in H}}
      [] h = "mempool" ->
            {[mempool |-> Failure]} \cup
            {[mempool |-> Show("mempool", [poolAt |-> x])] : x \in H}

Overlay(writes) ==
    [p \in Panels |-> IF p \in DOMAIN writes THEN writes[p] ELSE panel[p]]

AInit ==
    /\ height = 0
    /\ asked = [h \in Handlers |-> IF h = "tip" THEN [in |-> 0] ELSE Idle]
    /\ panel = [p \in Panels |-> IF p = "tip" THEN Loading ELSE Blank]

Ask(h) ==
    /\ asked[h] = Idle
    /\ \E in \in Inputs(h) : asked' = [asked EXCEPT ![h] = [in |-> in]]
    /\ panel' = Overlay(ClickView(h))
    /\ UNCHANGED height

Respond(h) ==
    /\ asked[h] # Idle
    /\ \E w \in Answers(h, asked[h]) : panel' = Overlay(w)
    /\ asked' = [asked EXCEPT ![h] = Idle]
    /\ UNCHANGED height

Grow ==
    /\ height < MaxHeight
    /\ height' = height + 1
    /\ UNCHANGED <<asked, panel>>

ANext == Grow \/ \E h \in Handlers : Ask(h) \/ Respond(h)

ASpec == AInit /\ [][ANext]_avars

====
