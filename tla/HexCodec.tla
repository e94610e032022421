------------------------------ MODULE HexCodec ------------------------------
(***************************************************************************)
(* The hex encoding behind WalletService.generateAddress: the digest of   *)
(* the public key goes through Buffer.from(hash).toString('hex') of the   *)
(* 'buffer' package, which writes two lowercase digits per byte, and the  *)
(* address keeps 'drm' and the first 40 digits.  A string is a sequence   *)
(* of one-character strings.                                               *)
(***************************************************************************)
EXTENDS Integers, Sequences, SequencesExt

CONSTANTS
    ByteSamples,    \* byte values, chosen at the nibble boundaries
    HashLen,        \* bytes in a sha256 digest
    MalformedInput  \* spec.md 4.1's decoding failure

VARIABLE
    input           \* the digest of a public key

LowerDigits == <<"0", "1", "2", "3", "4", "5", "6", "7", "8", "9",
                 "a", "b", "c", "d", "e", "f">>
UpperDigits == <<"0", "1", "2", "3", "4", "5", "6", "7", "8", "9",
                 "A", "B", "C", "D", "E", "F">>
HexDigitChars == Range(LowerDigits) \cup Range(UpperDigits)
HexValue == [c \in HexDigitChars |->
                CHOOSE v \in 0 .. 15 : c \in {LowerDigits[v + 1], UpperDigits[v + 1]}]

(***************************************************************************)
(* Encoding: toString('hex')                                               *)
(***************************************************************************)

\* hexSliceLookupTable[b]: two lowercase digits, high nibble first.
ByteToHex(b) == <<LowerDigits[(b \div 16) + 1], LowerDigits[(b % 16) + 1]>>

RECURSIVE BytesToHex(_)
BytesToHex(bs) ==
    IF bs = <<>> THEN <<>> ELSE ByteToHex(Head(bs)) \o BytesToHex(Tail(bs))

(***************************************************************************)
(* Addresses: generateAddress                                              *)
(***************************************************************************)

GenerateAddress_SliceFromOne(hash) ==
    <<"d", "r", "m">> \o SubSeq(BytesToHex(hash), 2, 41)

\* 'drm' + Buffer.from(sha256(publicKey)).toString('hex').slice(0, 40).
GenerateAddress(hash) == <<"d", "r", "m">> \o SubSeq(BytesToHex(hash), 1, 40)

(***************************************************************************)
(* The reference of spec.md 4.1                                            *)
(***************************************************************************)

RefDecode(s) ==
    IF Len(s) % 2 = 1 \/ \E i \in DOMAIN s : s[i] \notin HexDigitChars
    THEN MalformedInput
    ELSE [i \in 1 .. Len(s) \div 2 |-> 16 * HexValue[s[2 * i - 1]] + HexValue[s[2 * i]]]

\* Digests made of two sampled bytes, switching at a position around the
\* 20-byte cut the address makes.
Hashes == {[i \in 1 .. HashLen |-> IF i <= k THEN a ELSE b] :
              k \in {0, 19, 20, HashLen}, a \in ByteSamples, b \in ByteSamples}

Init == input \in Hashes

Next == UNCHANGED input

Spec == Init /\ [][Next]_input

(***************************************************************************)
(* Properties                                                              *)
(***************************************************************************)

\* An address is 'drm' and 40 lowercase hex digits (spec.md 4.3, 6), which
\* encode the first 20 bytes of the digest.
AddressFormat ==
    LET a == GenerateAddress(input) IN
    /\ Len(a) = 43
    /\ SubSeq(a, 1, 3) = <<"d", "r", "m">>
    /\ \A i \in 4 .. 43 : a[i] \in Range(LowerDigits)
    /\ RefDecode(SubSeq(a, 4, 43)) = SubSeq(input, 1, 20)

====
