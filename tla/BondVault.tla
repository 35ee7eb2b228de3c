----------------------------- MODULE BondVault -----------------------------
(***************************************************************************)
(* The oracle-bond part of CollateralVault: lock_bond, release_bond,       *)
(* slash_bond, and FeeManager's losing_bond_split that prices a slash.     *)
(***************************************************************************)
EXTENDS MarketRegistry

CONSTANTS
    MaxRequests,     \* bound: how many resolution requests are ever made
    Splits           \* the shares in bps that governance may set

RequestIds == 1 .. MaxRequests

\* set_bond_split accepts any three shares that add up to 10000.
ASSUME BondAssumption ==
    /\ MaxRequests \in Nat
    /\ Splits \subseteq [winner : Nat, council : Nat, treasury : Nat]
    /\ \A s \in Splits : s.winner + s.council + s.treasury = BPS_DENOMINATOR

VARIABLES
    bond,            \* Bond, BondToken and BondMarket, by <<request, user, is_dispute>>
    bondTotal,       \* VaultAccounting.proposal_bonds (FALSE) and dispute_bonds (TRUE)
    split            \* FeeManager's losing-bond shares, in bps

vaultVars == <<bond, bondTotal, split>>

BondKeys == RequestIds \X Users \X BOOLEAN
BondRecord == [exists : BOOLEAN, amount : Nat, market : Markets \cup {0}]

BondInit ==
    /\ bond = [k \in BondKeys |-> [exists |-> FALSE, amount |-> 0, market |-> 0]]
    /\ bondTotal = [m \in Markets |-> [d \in BOOLEAN |-> 0]]
    /\ split \in Splits

BondTypeOK ==
    /\ bond \in [BondKeys -> BondRecord]
    /\ bondTotal \in [Markets -> [BOOLEAN -> Int]]
    /\ split \in Splits

\* lock_bond: only the user's own signature is asked for, so the oracle and
\* the user both reach it; a key that exists is refused, and never removed.
lock_bond(user, r, m, amount, is_dispute) ==
    LET k == <<r, user, is_dispute>>
    IN  /\ amount > 0
        /\ market[m].status # "None"
        /\ ~bond[k].exists
        /\ CanTransfer(tok, user, amount)
        /\ tok' = Transferred(tok, user, "vault", amount)
        /\ bond' = [bond EXCEPT ![k] = [exists |-> TRUE, amount |-> amount, market |-> m]]
        /\ bondTotal' = [bondTotal EXCEPT ![m][is_dispute] = @ + amount]
        /\ UNCHANGED split

\* Faulty variant: a dispute bond debited from the proposal bonds.
Debited_proposals(t, k, amount) == [t EXCEPT ![bond[k].market][FALSE] = @ - amount]

\* release_bond and slash_bond differ only in who is paid: `amount' of the
\* bond at k leaves the vault.  CanPay is their checks, Paid what is left of
\* the bonds and Debited what is left in the accounting of the bond's market;
\* callers thread both through their sequence of calls.
CanPay(b, k, amount) == amount > 0 /\ b[k].exists /\ amount <= b[k].amount
Paid(b, k, amount)   == [b EXCEPT ![k].amount = @ - amount]
Debited(t, k, amount) == [t EXCEPT ![bond[k].market][k[3]] = @ - amount]

\* FeeManager.losing_bond_split: the treasury takes the rounding.
losing_bond_split(b) ==
    LET winner  == bps(b, split.winner)
        council == bps(b, split.council)
    IN  [winner |-> winner, council |-> council, treasury |-> b - winner - council]

\* Governance: FeeManager.set_bond_split.
set_bond_split(s) ==
    /\ split' = s
    /\ UNCHANGED <<bond, bondTotal>>
=============================================================================
