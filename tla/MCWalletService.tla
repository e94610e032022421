-------------------------- MODULE MCWalletService --------------------------
(* Model-checking instance of WalletService. *)
EXTENDS WalletService, TLC

\* Clients are interchangeable callers.
MCSymmetry == Permutations(Clients)

====
