------------------------- MODULE ConditionalTokens -------------------------
(***************************************************************************)
(* DikeConditionalTokens (contracts/conditional_tokens): the YES and NO    *)
(* positions of every market.  Operators take and give back the balances,  *)
(* so that callers can make several calls in one transaction.              *)
(***************************************************************************)
EXTENDS MarketLifecycle

CONSTANT Traders    \* the accounts that trade, provide liquidity and liquidate

Sides == {"Yes", "No"}
Holders == Traders \cup {"amm"}

ASSUME TraderAssumption == {"amm", "vault", "treasury"} \cap Traders = {}

VARIABLES
    pos,            \* Balance(market, owner, outcome)
    setBacking      \* Backing(market): complete sets minted and not merged

tokenVars == <<pos, setBacking>>

TokensInit ==
    /\ pos = [k \in Markets \X Holders \X Sides |-> 0]
    /\ setBacking = [m \in Markets |-> 0]

TokensTypeOK ==
    /\ pos \in [Markets \X Holders \X Sides -> Nat]
    /\ setBacking \in [Markets -> Nat]

CanSub(p, m, owner, o, amount) == amount > 0 /\ amount <= p[<<m, owner, o>>]
Added(p, m, owner, o, amount)  == [p EXCEPT ![<<m, owner, o>>] = @ + amount]

\* transfer_position and transfer_position_forced.
Moved(p, m, from, to, o, amount) == Added(Added(p, m, from, o, 0 - amount), m, to, o, amount)

\* mint_complete_set to the AMM, and merge_positions from it (a negative mint).
Minted(p, m, amount) == Added(Added(p, m, "amm", "Yes", amount), m, "amm", "No", amount)

\* merge_positions of the AMM's own positions.
CanMerge(p, m, amount) ==
    /\ \A o \in Sides : CanSub(p, m, "amm", o, amount)
    /\ amount <= setBacking[m]
=============================================================================
