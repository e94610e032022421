--------------------------- MODULE WalletService ---------------------------
(***************************************************************************)
(* src/mobile-client/src/services/wallet/WalletService.ts over the         *)
(* SecureStorage model.  Each public method is an async call of one        *)
(* client: a Call step runs synchronously up to the first await (for the   *)
(* methods that read, getWallet's storage.getString happens here), and a   *)
(* Finish step runs the rest (validation, the synchronous storage write,   *)
(* the return).  Other clients' steps, and a crash of the app, can fall    *)
(* between the two.  The wallet record lives under one storage key;        *)
(* createAccount and switchAccount write back the record they read.        *)
(*                                                                         *)
(* Keys, addresses and signatures are abstracted: bip39's seed is the pair *)
(* (mnemonic, passphrase), a private key is the pair (seed, index byte),   *)
(* and the public key, address and signature are injective functions of   *)
(* it, so an account is identified by its key and index.                   *)
(***************************************************************************)
EXTENDS Integers, Sequences, FiniteSets

CONSTANTS
    Clients,        \* callers issuing WalletService calls concurrently
    Mnemonics,      \* phrases that pass bip39.validateMnemonic
    BadPhrases,     \* phrases that fail it
    Passphrases,    \* passphrases callers pass to generate/restore
    Indices,        \* indices callers pass to switchAccount
    MaxAccounts,    \* bound: createAccount is not called on a record this long
    NoWallet,       \* null: no record stored, or getItem returned null
    NoArg,          \* an unused argument or an absent account
    CallerLock,     \* TRUE: callers serialize mutating calls (spec.md 5)
    StorageFaults   \* TRUE: a storage backend call may throw

ASSUME MaxAccounts \in Nat \ {0}
ASSUME Indices \subseteq Int
ASSUME CallerLock \in BOOLEAN /\ StorageFaults \in BOOLEAN

VARIABLES
    mmkv, keychain,  \* the storage backends (SecureStorage)
    op,              \* op[c]: the call client c has in flight
    seedPass,        \* history: passphrase of the last record generate or
                     \* restore wrote (the record itself does not keep it)
    created          \* history: createAccount calls that returned an account
                     \* since a record was last written whole or removed

vars == <<mmkv, keychain, op, seedPass, created>>

WALLET_KEY == "drachma_wallet_data"

Seeds == Mnemonics \X Passphrases
AccountValues == [key : Seeds \X (0 .. 255), index : Nat]
WalletValues ==
    [mnemonic : Mnemonics, accounts : Seq(AccountValues), current : Int]

\* The key name contains neither 'private' nor 'mnemonic', so no key the
\* service uses is sensitive.  JSON.stringify of a record is never "", so
\* no stored value is the empty string (NoArg stands for it).
St == INSTANCE SecureStorage WITH
        Keys <- {WALLET_KEY}, PrivateNamed <- {}, MnemonicNamed <- {}, Values <- WalletValues,
        NoValue <- NoWallet, DefaultService <- "default-service",
        EmptyString <- NoArg

(***************************************************************************)
(* Key derivation                                                          *)
(***************************************************************************)

\* bip39.mnemonicToSeed(mnemonic, passphrase); deriveAccount uses its first
\* 32 bytes, which identify it.
MnemonicToSeed(m, pp) == <<m, pp>>

\* hashToPrivateKey(seed[0:32] || Buffer.from([index])): the one-byte buffer
\* keeps index modulo 256.
DeriveKey(seed, index) == <<seed, index % 256>>

DeriveAccount(seed, index) ==
    [key |-> DeriveKey(seed, index), index |-> index]

NewWalletData(m, pp) ==
    [mnemonic |-> m,
     accounts |-> <<DeriveAccount(MnemonicToSeed(m, pp), 0)>>,
     current |-> 0]

NextAccount_OffByOne(w) ==
    DeriveAccount(MnemonicToSeed(w.mnemonic, ""), Len(w.accounts) + 1)

\* createAccount: seed from the stored mnemonic with the default passphrase,
\* next index = accounts.length.
NextAccount(w) ==
    DeriveAccount(MnemonicToSeed(w.mnemonic, ""), Len(w.accounts))

(***************************************************************************)
(* Reading the record                                                      *)
(***************************************************************************)

\* The record as stored; getWallet's possible results.
Stored == St!ItemOf(WALLET_KEY)
ReadWallet == St!GetItem(WALLET_KEY)

\* getCurrentAccount: null without a record or accounts; accounts[i] is
\* undefined when i is out of range.  Both count as "no account".
GetCurrentAccount(w) ==
    IF w # NoWallet /\ w.current + 1 \in DOMAIN w.accounts
    THEN w.accounts[w.current + 1]
    ELSE NoArg

(***************************************************************************)
(* Calls in flight                                                         *)
(***************************************************************************)

IdleOp == [pc |-> "idle", snap |-> NoWallet, arg |-> NoArg]

Mutating ==
    {"generateWallet", "restoreWallet", "createAccount", "switchAccount",
     "deleteWallet"}
Reading == {"createAccount", "switchAccount", "signTransaction", "hasWallet"}
Pcs == {"idle", "signTransaction", "hasWallet"} \cup Mutating

\* Client c issues a call.  Under CallerLock the callers keep the
\* discipline spec.md 5 asks of them: a mutating call runs alone, reads and
\* signing only overlap each other.
MayStart(c, name) ==
    /\ op[c].pc = "idle"
    /\ \/ ~CallerLock
       \/ name \in Mutating /\ \A d \in Clients : op[d].pc = "idle"
       \/ name \notin Mutating /\ \A d \in Clients : op[d].pc \notin Mutating

Call(c, name, snap, arg) ==
    op' = [op EXCEPT ![c] = [pc |-> name, snap |-> snap, arg |-> arg]]

Return(c) == op' = [op EXCEPT ![c] = IdleOp]

\* await storage.setItem(WALLET_KEY, JSON.stringify(w)); JSON round-trips
\* the record's strings and numbers unchanged.
PersistWallet(w) == St!SetItem(WALLET_KEY, w) \/ St!CallFails

\* The end of generateWallet/restoreWallet: write a fresh record.
EstablishWallet(c, m, pp) ==
    /\ \/ St!SetItem(WALLET_KEY, NewWalletData(m, pp)) /\ seedPass' = pp /\ created' = 0
       \/ St!CallFails /\ UNCHANGED <<seedPass, created>>
    /\ Return(c)

(***************************************************************************)
(* Operations                                                              *)
(***************************************************************************)

\* generateWallet(passphrase): a random 24-word mnemonic, then awaits while
\* the seed and account 0 are derived.
GenerateWalletCall(c) ==
    /\ MayStart(c, "generateWallet")
    /\ \E m \in Mnemonics, pp \in Passphrases :
           Call(c, "generateWallet", NoWallet, <<m, pp>>)
    /\ UNCHANGED <<mmkv, keychain, seedPass, created>>

GenerateWalletFinish(c) ==
    /\ op[c].pc = "generateWallet"
    /\ EstablishWallet(c, op[c].arg[1], op[c].arg[2])

\* restoreWallet(mnemonic, passphrase) with any phrase a user may type.
RestoreWalletCall(c) ==
    /\ MayStart(c, "restoreWallet")
    /\ \E phrase \in Mnemonics \cup BadPhrases, pp \in Passphrases :
           Call(c, "restoreWallet", NoWallet, <<phrase, pp>>)
    /\ UNCHANGED <<mmkv, keychain, seedPass, created>>

ValidateMnemonic(phrase) == phrase \in Mnemonics

RestoreWalletFinish_NoValidation(c) ==
    /\ op[c].pc = "restoreWallet"
    /\ EstablishWallet(c, op[c].arg[1], op[c].arg[2])

\* 'Invalid mnemonic phrase' leaves the stored record as it was.
RestoreWalletFinish(c) ==
    LET phrase == op[c].arg[1] IN
    /\ op[c].pc = "restoreWallet"
    /\ \/ /\ ~ValidateMnemonic(phrase)
          /\ Return(c)
          /\ UNCHANGED <<mmkv, keychain, seedPass, created>>
       \/ /\ ValidateMnemonic(phrase)
          /\ EstablishWallet(c, phrase, op[c].arg[2])

\* createAccount: getWallet, then awaits for the seed and the derivation.
CreateAccountCall(c) ==
    /\ MayStart(c, "createAccount")
    /\ \E w \in ReadWallet :
           /\ w # NoWallet => Len(w.accounts) < MaxAccounts
           /\ Call(c, "createAccount", w, NoArg)
    /\ UNCHANGED <<mmkv, keychain, seedPass, created>>

CreateAccountFinish_ErrorSwallowed(c) ==
    LET w == op[c].snap IN
    /\ op[c].pc = "createAccount"
    /\ \/ w = NoWallet /\ UNCHANGED <<mmkv, keychain, created>>
       \/ /\ w # NoWallet
          /\ PersistWallet([w EXCEPT !.accounts = Append(@, NextAccount(w))])
          /\ created' = created + 1
    /\ Return(c)
    /\ UNCHANGED seedPass

\* 'No wallet found' on null; otherwise push the account onto the record
\* read at the call, write that record back and return the new account; a
\* failed write throws instead.
CreateAccountFinish(c) ==
    LET w == op[c].snap
        w2 == [w EXCEPT !.accounts = Append(@, NextAccount(w))]
    IN
    /\ op[c].pc = "createAccount"
    /\ \/ w = NoWallet /\ UNCHANGED <<mmkv, keychain, created>>
       \/ w # NoWallet /\ St!SetItem(WALLET_KEY, w2) /\ created' = created + 1
       \/ w # NoWallet /\ St!CallFails /\ UNCHANGED created
    /\ Return(c)
    /\ UNCHANGED seedPass

SwitchAccountCall(c) ==
    /\ MayStart(c, "switchAccount")
    /\ \E w \in ReadWallet, i \in Indices : Call(c, "switchAccount", w, i)
    /\ UNCHANGED <<mmkv, keychain, seedPass, created>>

\* if (!wallet || index >= wallet.accounts.length) throw
SwitchAllowed(w, i) == w # NoWallet /\ ~(i >= Len(w.accounts))

SwitchAccountFinish(c) ==
    LET w == op[c].snap
        i == op[c].arg
    IN
    /\ op[c].pc = "switchAccount"
    /\ \/ ~SwitchAllowed(w, i) /\ UNCHANGED <<mmkv, keychain>>
       \/ SwitchAllowed(w, i) /\ PersistWallet([w EXCEPT !.current = i])
    /\ Return(c)
    /\ UNCHANGED <<seedPass, created>>

\* signTransaction: getCurrentAccount, then the private key is held across
\* the await of schnorr.sign.
SignTransactionCall(c) ==
    /\ MayStart(c, "signTransaction")
    /\ \E w \in ReadWallet :
           Call(c, "signTransaction", w, GetCurrentAccount(w))
    /\ UNCHANGED <<mmkv, keychain, seedPass, created>>

\* Throws 'No account available' when the account is absent; otherwise
\* returns the signature made with the held key.  Neither writes.
SignTransactionFinish(c) ==
    /\ op[c].pc = "signTransaction"
    /\ Return(c)
    /\ UNCHANGED <<mmkv, keychain, seedPass, created>>

\* deleteWallet: removeItem's MMKV delete runs before the first await.
DeleteWalletCall(c) ==
    /\ MayStart(c, "deleteWallet")
    /\ \/ St!RemoveItem(WALLET_KEY) /\ created' = 0
       \/ St!CallFails /\ UNCHANGED created
    /\ Call(c, "deleteWallet", NoWallet, NoArg)
    /\ UNCHANGED seedPass

DeleteWalletFinish(c) ==
    /\ op[c].pc = "deleteWallet"
    /\ Return(c)
    /\ UNCHANGED <<mmkv, keychain, seedPass, created>>

\* hasWallet: !!(await getWallet()).
HasWalletCall(c) ==
    /\ MayStart(c, "hasWallet")
    /\ \E w \in ReadWallet : Call(c, "hasWallet", w, NoArg)
    /\ UNCHANGED <<mmkv, keychain, seedPass, created>>

HasWalletFinish(c) ==
    /\ op[c].pc = "hasWallet"
    /\ Return(c)
    /\ UNCHANGED <<mmkv, keychain, seedPass, created>>

\* The app is killed: calls in flight vanish, storage persists.
Crash ==
    /\ \E c \in Clients : op[c].pc # "idle"
    /\ op' = [c \in Clients |-> IdleOp]
    /\ UNCHANGED <<mmkv, keychain, seedPass, created>>

Init ==
    /\ St!StorageInit
    /\ op = [c \in Clients |-> IdleOp]
    /\ seedPass = NoArg
    /\ created = 0

Next ==
    \/ \E c \in Clients :
           \/ GenerateWalletCall(c) \/ GenerateWalletFinish(c)
           \/ RestoreWalletCall(c) \/ RestoreWalletFinish(c)
           \/ CreateAccountCall(c) \/ CreateAccountFinish(c)
           \/ SwitchAccountCall(c) \/ SwitchAccountFinish(c)
           \/ SignTransactionCall(c) \/ SignTransactionFinish(c)
           \/ DeleteWalletCall(c) \/ DeleteWalletFinish(c)
           \/ HasWalletCall(c) \/ HasWalletFinish(c)
    \/ Crash

Spec == Init /\ [][Next]_vars

(***************************************************************************)
(* Properties                                                              *)
(***************************************************************************)

TypeOK ==
    /\ St!StorageTypeOK
    /\ \A c \in Clients :
           /\ op[c].pc \in Pcs
           /\ op[c].snap \in WalletValues \cup {NoWallet}
    /\ seedPass \in Passphrases \cup {NoArg}

\* The stored record seen as the abstract wallet of spec.md 4.4.
AbsWallet ==
    IF Stored = NoWallet THEN NoWallet
    ELSE [mnemonic |-> Stored.mnemonic, pass |-> seedPass,
          accounts |-> Stored.accounts, current |-> Stored.current]

WA == INSTANCE WalletAbstract WITH wallet <- AbsWallet

\* Every change WalletService makes to the stored record is one whole
\* operation of the abstract wallet: no lost or resurrected record, no
\* account dropped or derived from the wrong seed or index, the current
\* index moved only to an existing account.
ImplementsWalletAbstract == WA!Spec

\* Every createAccount that returned an account added one account to the
\* stored record: as many accounts beyond account 0 as calls reported
\* created since the record was written whole (spec.md 4.4).
CreatedAccountsStored ==
    Stored # NoWallet => Len(Stored.accounts) - 1 = created

\* The mnemonic and the accounts' private keys, fields of every wallet
\* record generateWallet and restoreWallet write, are kept out of MMKV, the
\* general-purpose store (spec.md 1, 4.2 Tier A, 4.4 generateWallet).
SecretsOutOfMMKV == \A k \in DOMAIN mmkv : mmkv[k] = NoWallet

\* No two accounts of the stored record share a private key (spec.md 4.3,
\* 8: deriveAccount(s, i) differs from deriveAccount(s, j) for i # j).
DistinctAccountKeys ==
    Stored # NoWallet =>
        \A i, j \in DOMAIN Stored.accounts :
            i # j => Stored.accounts[i].key # Stored.accounts[j].key

\* Every account of the stored record is the account of its index under the
\* seed of the mnemonic and passphrase the wallet was generated or restored
\* with (spec.md 4.4, 8: restore reproduces the wallet).
AccountsFromWalletSeed ==
    Stored # NoWallet =>
        \A i \in DOMAIN Stored.accounts :
            Stored.accounts[i].key =
                WA!AccountOf(WA!Seed(Stored.mnemonic, seedPass), i - 1).key

\* A read made by getWallet reports "no wallet" only when no record is
\* stored (spec.md 4.2, 7: a backend failure is not downgraded to absent).
ReadNotDowngraded ==
    [][\A c \in Clients :
         (op[c].pc = "idle" /\ op'[c].pc \in Reading
            /\ op'[c].snap = NoWallet) => Stored = NoWallet]_vars

====
