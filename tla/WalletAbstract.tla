--------------------------- MODULE WalletAbstract ---------------------------
(***************************************************************************)
(* What the Wallet Manager promises (spec.md 3, 4.4): a singleton wallet   *)
(* record that is created or replaced whole by generate/restore, grows by  *)
(* one account per createAccount, moves its current-account pointer only  *)
(* to an existing account, and is removed by deleteWallet.  Every          *)
(* operation is one atomic step; a failed operation is a stuttering step.  *)
(* Account i of a seed is a pure function of (seed, i) and distinct for    *)
(* distinct i (spec.md 4.3).                                               *)
(***************************************************************************)
EXTENDS Naturals, Sequences

CONSTANTS
    Mnemonics,     \* mnemonics that pass checksum validation
    Passphrases,   \* passphrases a caller may supply
    NoWallet       \* the state in which no wallet record exists

VARIABLE wallet

\* The seed stretched from a mnemonic and a passphrase.
Seed(m, pp) == <<m, pp>>

\* Account number i of a seed: index is the sole input besides the seed.
AccountOf(seed, i) == [key |-> <<seed, i>>, index |-> i]

FreshWallet(m, pp) ==
    [mnemonic |-> m, pass |-> pp,
     accounts |-> <<AccountOf(Seed(m, pp), 0)>>, current |-> 0]

Init == wallet = NoWallet

\* generateWallet and restoreWallet: the record is replaced by a fresh one.
Establish ==
    \E m \in Mnemonics, pp \in Passphrases : wallet' = FreshWallet(m, pp)

CreateAccount ==
    /\ wallet # NoWallet
    /\ wallet' = [wallet EXCEPT !.accounts =
                    Append(@, AccountOf(Seed(wallet.mnemonic, wallet.pass),
                                        Len(@)))]

SwitchAccount ==
    /\ wallet # NoWallet
    /\ \E i \in 0 .. Len(wallet.accounts) - 1 :
           wallet' = [wallet EXCEPT !.current = i]

DeleteWallet == wallet' = NoWallet

Next == Establish \/ CreateAccount \/ SwitchAccount \/ DeleteWallet

Spec == Init /\ [][Next]_wallet

=============================================================================
