--------------------------- MODULE TokenContract ---------------------------
(***************************************************************************)
(* The collateral token, a Stellar Asset Contract: external, modelled from *)
(* how the contracts use it.  token.transfer(from, to, amount) moves the   *)
(* amount between two balances, or fails and reverts the transaction.      *)
(***************************************************************************)
EXTENDS Integers

CanTransfer(b, from, amount) == amount <= b[from]
Transferred(b, from, to, amount) ==
    LET debited == [b EXCEPT ![from] = @ - amount]
    IN  [debited EXCEPT ![to] = @ + amount]
=============================================================================
