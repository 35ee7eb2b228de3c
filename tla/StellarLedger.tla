--------------------------- MODULE StellarLedger ---------------------------
(***************************************************************************)
(* What the contracts need of the chain they run on: the ledger timestamp  *)
(* and the balances of the collateral token.  Both are external.  A        *)
(* transaction is atomic: any error reverts every write, so one action is  *)
(* one whole successful top-level call.                                    *)
(***************************************************************************)
EXTENDS DikeTypes, TokenContract

CONSTANTS
    Users,      \* accounts that post oracle bonds
    Members     \* accounts that may sit in the Council of Dike

\* The accounts of the contracts are not user accounts.
ASSUME AccountAssumption ==
    {"vault", "council", "treasury"} \cap (Users \cup Members) = {}

Accounts == Users \cup Members \cup {"vault", "council", "treasury"}

VARIABLES
    now,        \* env.ledger().timestamp()
    tok         \* balance of every account in the collateral token
=============================================================================
