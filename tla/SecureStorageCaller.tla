------------------------ MODULE SecureStorageCaller ------------------------
(***************************************************************************)
(* One caller using SecureStorage directly, awaiting each call before the  *)
(* next, set against the key-value contract of spec.md 4.2 (put, get,      *)
(* delete, has, clearAll).  contents is what that contract says the store  *)
(* holds after the caller's successful calls; reply is what the last call  *)
(* returned, and whether its backend call threw.                           *)
(***************************************************************************)
EXTENDS SecureStorage

CONSTANT AllowClear   \* TRUE: the caller also calls clear()

VARIABLES contents, reply

callerVars == <<mmkv, keychain, contents, reply>>

Reply(name, key, val, failed) ==
    reply' = [op |-> name, key |-> key, val |-> val, failed |-> failed]

\* setItem: the error is rethrown, so the caller knows nothing was stored.
SetItemCall(key, value) ==
    \/ /\ SetItem(key, value)
       /\ contents' = [contents EXCEPT ![key] = value]
       /\ Reply("setItem", key, NoValue, FALSE)
    \/ /\ CallFails
       /\ UNCHANGED contents
       /\ Reply("setItem", key, NoValue, TRUE)

\* getItem: on a backend error the caller receives null.
GetItemCall(key) ==
    /\ \/ Reply("getItem", key, ItemOf(key), FALSE)
       \/ StorageFaults /\ Reply("getItem", key, NoValue, TRUE)
    /\ UNCHANGED <<mmkv, keychain, contents>>

RemoveItemCall(key) ==
    \/ /\ RemoveItem(key)
       /\ contents' = [contents EXCEPT ![key] = NoValue]
       /\ Reply("removeItem", key, NoValue, FALSE)
    \/ /\ CallFails
       /\ UNCHANGED contents
       /\ Reply("removeItem", key, NoValue, TRUE)

\* clear: storage.clearAll() runs first; resetGenericPassword() may then
\* reject, with no catch, after MMKV is already empty.
ClearCall ==
    /\ AllowClear
    /\ \/ /\ Clear
          /\ contents' = [k \in Keys |-> NoValue]
          /\ Reply("clear", NoValue, NoValue, FALSE)
       \/ /\ StorageFaults
          /\ mmkv' = [k \in Keys |-> NoValue]
          /\ UNCHANGED <<keychain, contents>>
          /\ Reply("clear", NoValue, NoValue, TRUE)

\* contains: synchronous, MMKV only.
ContainsCall(key) ==
    /\ Reply("contains", key, Contains(key), FALSE)
    /\ UNCHANGED <<mmkv, keychain, contents>>

CallerInit ==
    /\ StorageInit
    /\ contents = [k \in Keys |-> NoValue]
    /\ reply = [op |-> "none", key |-> NoValue, val |-> NoValue, failed |-> FALSE]

CallerNext ==
    \/ \E k \in Keys, v \in Values : SetItemCall(k, v)
    \/ \E k \in Keys : GetItemCall(k) \/ RemoveItemCall(k) \/ ContainsCall(k)
    \/ ClearCall

CallerSpec == CallerInit /\ [][CallerNext]_callerVars

(***************************************************************************)
(* Properties                                                              *)
(***************************************************************************)

\* A getItem whose backend call did not throw returns the value of the last
\* successful setItem of that key, or null after removeItem or clear
\* (spec.md 4.2 get after put/delete/clearAll).
GetReturnsContents ==
    (reply.op = "getItem" /\ ~reply.failed) =>
        reply.val = contents[reply.key]

====
