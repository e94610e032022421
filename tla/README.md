# TLA+ models of the Drachma mobile wallet core

This directory holds TLA+ models of the wallet's key-management core in
`src/mobile-client/src/services/`. It also holds the plan for the rest of the
repository. Every module is written from the TypeScript/JavaScript source. The
behaviour `spec.md` promises is stated as properties, and as the abstract
module `WalletAbstract`.

## 1. Inventory

| Component | Source | State | Operations |
|---|---|---|---|
| Wallet Manager | `services/wallet/WalletService.ts` | none in memory. The wallet record `{mnemonic, accounts[], currentAccountIndex}` is JSON under storage key `drachma_wallet_data` | `generateWallet`, `restoreWallet`, `createAccount`, `switchAccount`, `signTransaction`, `deleteWallet`, `hasWallet`, `getWallet`, `getCurrentAccount` |
| Key derivation | `WalletService.deriveAccount`, `generateAddress` | pure | key = `hashToPrivateKey(seed[0:32] ‖ [index])`; address = `drm` + 40 hex chars of sha256(pubkey) |
| Secure Store | `services/storage/SecureStorage.ts` | MMKV instance (fixed encryption key); Keychain entries, one per service | `setItem`, `getItem`, `removeItem`, `clear`, `contains` |
| Primitive layer | `services/crypto/CryptoService.ts` | none | sha256, keygen, Schnorr/ECDSA sign and verify, hex conversion; one-line wrappers no code calls |
| Block explorer | `explorer/app.js` | DOM panels (tip, network, block JSON, tx list, tx, address, mempool) | five click handlers, each an async JSON-RPC exchange |
| Redux store | `store/index.ts`, `store/slices/*.ts`, `store/middleware/persist.ts` | network slice fields | one setter reducer per field |
| Navigation, types, jest config | `navigation/`, `types/`, `jest.config.js` | — | — |

How the parts interact:

- WalletService owns a SecureStorage instance. It calls `getItem` at the start
  of every method that reads, and `setItem`/`removeItem` to write. Each method
  is `async`, so a caller awaiting one method lets other calls run at every
  `await`.
- The only shared mutable resource is the one storage key. `createAccount` and
  `switchAccount` are read-modify-write: they read the record, await, then
  write back the whole record they read. Nothing in the repository serializes
  these calls. spec.md §5 leaves that to the callers.
- `getItem` turns every backend error into `null`. `setItem` and `removeItem`
  rethrow.
- The tier is chosen by the key name: names that include `private` or
  `mnemonic` go to the Keychain. `drachma_wallet_data` includes neither, so the
  whole record, mnemonic and private keys included, goes to MMKV.
- The explorer is independent of the wallet. Each handler writes "Loading…",
  awaits one or more RPCs and writes the answer. Nothing prevents two lookups
  from overlapping.

The hard behaviours:

- interleaving of concurrent async calls over one stored record: lost updates
  and resurrected deletes;
- secrets written to the general-purpose tier by a key-name test;
- storage faults, one of which is silently reported as "absent";
- the app being killed between steps, while storage persists;
- the one-byte index at derivation;
- the passphrase that `createAccount` forgets;
- out-of-order RPC answers in the explorer.

What makes each component correct:

- **Wallet Manager** must implement the contract of spec.md §3–4.4. The record
  is replaced whole by generate/restore. `createAccount` appends exactly the
  account of the next index under the wallet's seed. `currentAccountIndex`
  always names an account. No transition removes accounts. Delete removes the
  record. A signature uses the current account's key.
- **Key derivation**: accounts of one seed are pairwise distinct, and every
  account comes from the wallet's seed.
- **Secure Store**: secrets are only in Tier A. A backend error is not reported
  as absent. `clear` removes everything. `contains` agrees with `getItem`.
- **Explorer**: each panel shows the answer to the last request issued for it,
  never a mix of two requests.

PROJECT.json lists every hazard at its source line.

## 2. Modules

| Module | Models | Notes |
|---|---|---|
| `SecureStorage` | `SecureStorage.ts` | Variables `mmkv` (key → value) and `keychain` (service → value). `SetItem`, `GetItem` (the set of results a call can return; with `StorageFaults`, null is always one of them), `RemoveItem`, `CallFails` (setItem/removeItem throw, nothing written), `Clear`, `Contains`. Used by `WalletService` through `INSTANCE … WITH`, and extended by `SecureStorageCaller`. |
| `SecureStorageCaller` | `SecureStorage.ts`, against spec.md §4.2 | One caller awaiting each call. `SetItemCall`, `GetItemCall` and `RemoveItemCall` each have a faulting branch. `ClearCall` runs MMKV `clearAll`, then `resetGenericPassword()`, which may reject after MMKV is already empty. `ContainsCall`. The ghost `contents` is what the §4.2 contract says is stored. `reply` is the last call's answer. |
| `WalletAbstract` | spec.md §4.4 contract | One variable `wallet`. Atomic `Establish` (generate/restore), `CreateAccount`, `SwitchAccount`, `DeleteWallet`. Account *i* of seed *s* is `<<s, i>>`. |
| `WalletService` | `WalletService.ts` | See below. |
| `MCWalletService` | — | Client symmetry. |
| `Explorer` | `explorer/app.js` | See below. |
| `ExplorerPanels` | what the page promises a user who waits | Variables `height`, `asked` (per handler: `Idle`, or the input of its one outstanding request) and `panel`. `Ask(h)` shows Loading (and, for a block lookup, an empty tx list). `Respond(h)` shows an error, or an answer to the input asked: a block only if the node has it, heights the node has reached. `Grow` is mining. |
| `HexCodec` | `WalletService.generateAddress` | Pure operators: `BytesToHex` (`toString('hex')`, two lowercase digits per byte) and `GenerateAddress`: `"drm"` followed by the first 40 hex digits of the digest. `RefDecode` is the spec.md §4.1 reference decoding. One constant variable `input` ranges over the sampled 32-byte digests. |

### How `WalletService` corresponds to the code

- `op[c]` is the call client `c` has in flight: `pc` (the method), `snap` (the
  record `getWallet` returned at the call) and `arg`. The arguments are
  `<<mnemonic, passphrase>>` for generate/restore, the index for switch, and
  the account whose key `signTransaction` holds.
- Every method is two actions. `…Call` runs what the method does synchronously
  before its first `await`. `getItem` reaches MMKV's synchronous `getString`
  before awaiting, so the read happens here; `deleteWallet`'s MMKV `delete`
  also happens here. `…Finish` runs the rest: the guards that throw, the
  synchronous `storage.set` inside `setItem`, and the return.
- `createAccount` and `switchAccount` write `snap` back, modified, exactly as
  the code writes back the object it parsed.
- Storage faults: a `setItem`/`removeItem` that throws writes nothing and the
  call throws (`CallFails`). A read that fails yields `NoWallet`.
- `Crash` is the OS killing the app. In-flight calls vanish and storage is kept.
- `created` is a history variable: the number of `createAccount` calls that
  returned an account since a record was last written whole or removed.
- `seedPass` is a history variable: the passphrase the current record was
  generated or restored with. The record does not store it, and the refinement
  mapping needs it.
- Data abstraction:
  - the seed is `<<mnemonic, passphrase>>` (PBKDF2 is injective for our
    purposes);
  - the private key is `<<seed, index % 256>>` (the one-byte
    `Buffer.from([index])`);
  - the public key, address and signature are injective functions of the
    private key, so they are identified with it;
  - `JSON.stringify`/`parse` round-trip the record unchanged, so the stored
    value is the record itself;
  - the transaction payload does not influence any state and is omitted.
- `CallerLock` models the discipline spec.md §5 asks of callers. A mutating call
  starts only when no call is in flight. `signTransaction` and `hasWallet`
  start only when no mutating call is in flight. When it is FALSE, callers
  issue any call at any time.

The refinement mapping (`AbsWallet`) is the stored record plus `seedPass`.
`ImplementsWalletAbstract == WA!Spec` checks that every change to the stored
record is one whole abstract operation, or a stuttering step.

### How `Explorer` corresponds to the code

- `reqs` is every handler invocation so far, in click order. Each holds the
  handler, its input, the answer to each RPC it awaits (`res`), whether it
  has finished, and what it wrote into its main panel (`shown`). `panel` is
  the page: one value per DOM element the handlers write. `height` is the
  node's chain height.
- A click is `…Click`: it appends an invocation and writes "Loading…" (and,
  for a block lookup, clears the tx list), as the handler does before its
  first `await`. The page load's `refreshTip()` is in flight in `Init`. An
  empty input field makes a handler return at once, which is a step that
  changes nothing, so the inputs are non-empty.
- `Serve(i, m)` is the node answering call `m` of invocation `i`, with the
  state it has then, or failing it (`RpcFaults`). Calls are answered in any
  order. `lookupBlock` asks `getblock` only after `getblockhash` answered.
- `…Finish(i)` is the handler resuming once `Settled`: every awaited call
  answered, or one uncaught call failed (`Promise.all` rejects at once). It
  writes the answer or the error. Calls whose failure is caught
  (`getnetworkinfo`, `listunspent`) give their defaults. A finished
  invocation's locals are cleared.
- `Mine` is the node mining a block.
- Data abstraction: a block and its hash are identified by the block's
  number. A chain-dependent answer (tip, balance, UTXOs, mempool) is the
  height at which it was given. Text formatting, the first-ten truncation of
  lists, and the error messages are left out.
- `UserWaits` models a user who clicks a handler again only after its last
  run finished. The code does not enforce this: no button is disabled.
- Refinement: `P == INSTANCE ExplorerPanels` maps `asked[h]` to the input of
  handler `h`'s unfinished invocation (`Outstanding(h)`), or `NoAsk`.
  `height` and `panel` map to themselves. Clicks are `Ask`, handler
  resumptions are `Respond`, `Mine` is `Grow`, and `Serve` steps stutter.
  `ImplementsPanels == P!ASpec` is checked only under `UserWaits`: with
  overlapping clicks there is no single outstanding request, and
  `explorer_overlap` shows the page then breaks the promise.

## 3. Runs

The wallet runs use `MCWalletService`. `c1, c2, c3`, `m1, m2` and `bad` are model
values. The storage runs use `SecureStorageCaller` with three keys: the wallet
record key, `account_private_key` and `backup_mnemonic`. The names select the
tier. The values are `v1, v2`.

| Run | cfg | Expect | Checks | What it shows |
|---|---|---|---|---|
| wallet_serialized | `MCWalletService.cfg` | pass | TypeOK, CreatedAccountsStored, ImplementsWalletAbstract | With callers serialized as spec.md §5 asks, WalletService refines the abstract wallet. This holds with overlapping reads and signing, faults on every storage call, and crashes. Each `createAccount` that reports success added exactly one account. |
| lost_update | `_lostupdate.cfg` | violation | ImplementsWalletAbstract | Without serialization, `deleteWallet` is undone by an in-flight `createAccount` (trace: generate; create reads; delete; create writes). |
| read_fault | `_readfault.cfg` | violation | ReadNotDowngraded | A failing read is reported as "no wallet". |
| index_byte | `_indexbyte.cfg` | violation | DistinctAccountKeys | Account 256 has account 0's key. One client, 257 accounts. |
| passphrase | `_passphrase.cfg` | violation | AccountsFromWalletSeed | With a passphrase, `createAccount` derives from another seed. |
| secrets_in_mmkv | `MCWalletService_secrets.cfg` | violation | SecretsOutOfMMKV | `generateWallet` writes the record, with the mnemonic and account 0's private key, under `drachma_wallet_data`. The tier test sends that name to MMKV; spec.md §4.4 puts both secrets in Tier A. |
| empty_value | `SecureStorageCaller_empty.cfg` | violation | GetReturnsContents | `setItem(k, '')` then `getItem(k)` returns null for an MMKV key: `getString(k) \|\| null` folds the empty string into absence. |
| clear_leaves_keychain | `SecureStorageCaller_clear.cfg` | violation | GetReturnsContents | `setItem(private key)`; `clear()`; `getItem` still returns the key: `resetGenericPassword()` with no service leaves per-key entries. |
| explorer_waiting_user | `Explorer.cfg` | pass | BlockPanelsAgree, EverySettles, ImplementsPanels | When the user waits for each handler, the block JSON and tx list always describe one block. Every click leaves Loading once the node answers. The page refines `ExplorerPanels`: Loading exactly while a request is outstanding, then an error or the answer to the input clicked. This holds with RPC failures and mining. |
| explorer_overlap | `Explorer_overlap.cfg` | violation | LastRequestShown | Two lookups of block 1: the first fails before the block is mined, the second finds it, and the first finishes last. The panel shows the stale error. |
| explorer_mixed_heights | `Explorer_mixed.cfg` | violation | SummariesCoherent | A block mined between two calls of one handler shows data from two heights. In `refreshTip`, a block mined between `getblockcount` and `getbestblockhash` pairs a height with another block's hash. In `lookupAddress`, the balance and the UTXO list can come from different heights. |
| hex_codec | `HexCodec.cfg` | pass | AddressFormat | `generateAddress` yields `drm` and 40 lowercase hex digits, which decode to the digest's first 20 bytes. |

Bounds, and why they are enough:

- Three clients (in `wallet_serialized`): one holds the lock while two others
  have reads and signing in flight. Every method touches storage at most twice.
- Two mnemonics let a restore replace a different wallet.
- `MaxAccounts = 4` with indices `0..4` covers switching to a middle account,
  to the last account, and out of range (4). Three creates can all succeed
  without reaching the bound. Negative indices are left out: a .cfg cannot
  write them, and spec.md §3 types the index `u32`.
- `index_byte` needs 257 accounts. It uses one client and one mnemonic to keep
  the run small.
- Passphrases are `{""}` in the passing wallet run. The non-empty passphrase
  is a known divergence, which `passphrase` shows.
- Storage: one key per tier choice (ordinary, `private`, `mnemonic`). Values
  are `v1` and the empty string (`empty_value`), or `v1, v2`
  (`clear_leaves_keychain`). The wallet never stores an empty string, so its
  instance of `SecureStorage` has none.
- Explorer: three invocations (the page-load `refreshTip` and two clicks), so
  two invocations of one handler overlap. Heights 0..1, so a call can be
  answered before or after a block is mined, and a block number can name a
  block that does not exist yet. One block number and one block hash exercise
  both branches of `lookupBlock`. One txid and one address suffice, because
  their answers do not depend on the input.
- Hex: 32-byte digests built from two byte values at the nibble boundaries
  (0, 1, 9, 10, 15, 16, 160, 255), changing value after byte 0, 19, 20 or 32.
  These show whether the address takes exactly the first 20 bytes, each as
  two zero-padded digits.

Fairness: only `Explorer` assumes any. The spec has weak fairness of each
`Serve(i, m)` and each handler's resumption. `fetch` has no timeout, so a
handler finishes only if the node answers. `EverySettles` is therefore what
the code can promise given a responsive node. Clicks and mining carry no
fairness, and the explorer may stop when the user stops (`CHECK_DEADLOCK
FALSE`). The wallet runs assume no fairness. spec.md §5 says storage calls
complete in bounded time, but every wallet `…Finish` step is enabled whenever
its call is in flight, so "every call returns" would hold by construction and
is not stated.

Each property of a passing run has a mutant in PROJECT.json. The mutant is a
plausible code bug that TLC catches:

| Mutant | Catches it |
|---|---|
| restore without `validateMnemonic` | TypeOK |
| `setItem`'s error swallowed by `createAccount` | CreatedAccountsStored |
| `newIndex = length + 1` | ImplementsWalletAbstract |
| `lookupBlock` not clearing the tx list | BlockPanelsAgree |
| a handler without its `catch` | EverySettles |
| `refreshTip` without its `'Loading…'` write | ImplementsPanels |
| `slice(1, 41)` instead of `slice(0, 40)` | AddressFormat |

## 4. Not modelled, and why

- **CryptoService**: sha256, key generation, Schnorr/ECDSA signing and
  verification, `hexToBytes`/`bytesToHex` and `randomBytes` are one-line
  wrappers of @noble, expo-random and `Buffer`, and no code in the repository
  calls them. `WalletService` calls those libraries itself: the keys and
  signatures are abstracted there as injective functions, and the
  `toString('hex')` behind addresses is in `HexCodec`. Decoding
  (`Buffer.from(s, 'hex')`) is not modelled: its only caller in the
  repository, `signTransaction`, decodes a key the service encoded itself.
- **`switchAccount` while signing**: with callers serialized no switch falls
  between the key read and the signature. Without serialization, signing
  with the account current at the call is a valid outcome. No property
  separates the two.
- **Redux store and network slice**: each reducer assigns one field, with no
  guard or invariant, and no code dispatches any of them. A model could only
  restate the assignments. The persist config is never applied. `walletSlice` and
  `miningSlice` are imported but absent from the repository.
- **Navigation, types, jest config**: no behaviour. The navigator's five tab
  screens render `null`. The types are string unions (for example
  `TransactionStatus`), and no code moves between their values.
- **The explorer's RPC URL field**: `rpcCall` reads it on every call, so a
  handler in flight can send later calls to another node. The model has one
  node. PROJECT.json lists this as a hazard.
- **Divergences seen but given no run**:
  - `contains()` consults MMKV only.
  - `switchAccount(-1)` passes the guard.

  Each is visible at one line and needs no interleaving to reach.
  PROJECT.json lists them as hazards.
- **The moment the mnemonic is displayed** happens in UI code that is not in
  the repository.

## 5. Plan

1. *(done)* `SecureStorage` operators, `WalletAbstract`, and `WalletService`
   with concurrent clients, faults and crashes; the refinement.
2. *(done)* `createAccount`'s result: `CreatedAccountsStored`. It holds with
   serialized callers. Unserialized callers break it: two concurrent calls
   both succeed and add one account.
3. *(done)* Standalone `SecureStorage` caller against spec.md §4.2.
4. *(done)* `Explorer`, with overlapping handlers, RPC answers in any order,
   failures and mining, plus liveness under node fairness.
5. *(done)* `HexCodec`: the `drm` address format (`AddressFormat`), checked
   against the §4.1 reference decoding.
6. *(done)* `ExplorerPanels`, the page's promise to a waiting user, and
   `Explorer` under `UserWaits` refining it (`ImplementsPanels`).
7. Open:
   - A passphrase-aware wallet refinement, should the code fix
     `createAccount`.
