--------------------------- MODULE SecureStorage ---------------------------
(***************************************************************************)
(* src/mobile-client/src/services/storage/SecureStorage.ts.  Two backends: *)
(* an MMKV store (encrypted with a fixed key) for ordinary keys, and the   *)
(* device Keychain, one generic-password entry per service, for keys whose *)
(* name includes 'private' or 'mnemonic'.  Values are the callers' JSON    *)
(* strings, abstracted to the values they encode.  A backend call may      *)
(* throw when StorageFaults is TRUE: setItem and removeItem rethrow, while *)
(* getItem swallows the error and returns null.                            *)
(***************************************************************************)

CONSTANTS
    Keys,            \* key names callers use
    PrivateNamed,    \* the names in Keys that include 'private'
    MnemonicNamed,   \* the names in Keys that include 'mnemonic'
    Values,          \* values callers store
    EmptyString,     \* the value "" (falsy), where Values holds it
    NoValue,         \* an absent entry, and getItem's null
    DefaultService,  \* Keychain service used when no service is named
    StorageFaults    \* TRUE when a backend call may throw

VARIABLES
    mmkv,            \* MMKV 'drachma-wallet-storage': key -> value
    keychain         \* Keychain: service -> stored password

storageVars == <<mmkv, keychain>>

\* Tier selection: key.includes('private') || key.includes('mnemonic').
IsSensitive(key) == key \in PrivateNamed \/ key \in MnemonicNamed

StorageInit ==
    /\ mmkv = [k \in Keys |-> NoValue]
    /\ keychain = [s \in Keys \cup {DefaultService} |-> NoValue]

StorageTypeOK ==
    /\ mmkv \in [Keys -> Values \cup {NoValue}]
    /\ keychain \in [Keys \cup {DefaultService} -> Values \cup {NoValue}]

\* setItem that succeeds: Keychain entry under service = key, or MMKV set.
SetItem(key, value) ==
    IF IsSensitive(key)
    THEN /\ keychain' = [keychain EXCEPT ![key] = value]
         /\ UNCHANGED mmkv
    ELSE /\ mmkv' = [mmkv EXCEPT ![key] = value]
         /\ UNCHANGED keychain

\* What getItem returns when the backend does not throw: the Keychain
\* password, or storage.getString(key) || null, which turns a stored
\* empty string into null.
ItemOf(key) ==
    IF IsSensitive(key) THEN keychain[key]
    ELSE IF mmkv[key] = EmptyString THEN NoValue ELSE mmkv[key]

\* Every result getItem can return: the catch turns a backend error into
\* null, the same value as a missing key.
GetItem(key) ==
    {ItemOf(key)} \cup (IF StorageFaults THEN {NoValue} ELSE {})

\* removeItem that succeeds.
RemoveItem(key) ==
    IF IsSensitive(key)
    THEN /\ keychain' = [keychain EXCEPT ![key] = NoValue]
         /\ UNCHANGED mmkv
    ELSE /\ mmkv' = [mmkv EXCEPT ![key] = NoValue]
         /\ UNCHANGED keychain

\* setItem or removeItem whose backend call throws: the error is logged and
\* rethrown, nothing is written.
CallFails == StorageFaults /\ UNCHANGED storageVars

\* clear(): clearAll on MMKV, then resetGenericPassword() with no service,
\* which resets the default service entry only.
Clear ==
    /\ mmkv' = [k \in Keys |-> NoValue]
    /\ keychain' = [keychain EXCEPT ![DefaultService] = NoValue]

\* contains(key): asks MMKV only.
Contains(key) == mmkv[key] # NoValue

=============================================================================
