-------------------------------- MODULE AMM --------------------------------
(***************************************************************************)
(* DikeAMM (contracts/amm): one constant-product pool of YES and NO        *)
(* positions per market.  A pool has the id of its market, as the factory  *)
(* demands.  The slippage limit and the deadline of a trade are the        *)
(* trader's own and only refuse it.  The accumulated_* totals are read by  *)
(* views alone and are left out.                                           *)
(***************************************************************************)
EXTENDS CollateralVault

CONSTANTS
    TradingFeeBps, LpFeeShareBps, TreasuryFeeShareBps,   \* the FeeConfig of the markets
    FEE_SCALE                                            \* 10^18 in the code

\* validate_fee_config
ASSUME FeeAssumption ==
    /\ TradingFeeBps \in 0 .. 1000
    /\ LpFeeShareBps \in Nat /\ TreasuryFeeShareBps \in Nat
    /\ LpFeeShareBps + TreasuryFeeShareBps <= BPS_DENOMINATOR
    /\ FEE_SCALE \in Nat \ {0}

VARIABLES
    pool,       \* PoolData of every market
    lp,         \* LpBalance
    checkpoint  \* LpFeeCheckpoint

poolVars == <<pool, lp, checkpoint>>

LIQUIDATION_THRESHOLD_BPS == 10500

NewPool == [reserve |-> [o \in Sides |-> 0], shares |-> 0, live |-> FALSE, fee_per_share |-> 0]

PoolsInit ==
    /\ pool = [m \in Markets |-> NewPool]
    /\ lp = [a \in Accounts |-> 0]
    /\ checkpoint = [a \in Accounts |-> 0]

PoolsTypeOK ==
    /\ pool \in [Markets -> [reserve : [Sides -> Nat], shares : Nat, live : BOOLEAN,
                             fee_per_share : Nat]]
    /\ lp \in [Accounts -> Nat]
    /\ checkpoint \in [Accounts -> Nat]

Opposite(o) == IF o = "Yes" THEN "No" ELSE "Yes"

require_live(m) == pool[m].live /\ phase[m] = "Live"

require_market_liquidity_removable(m) == phase[m] \in {"Live", "Cancelled", "Resolved"}

\* The parts of a fee; the council gets what the two roundings leave.
FeeParts(fee) ==
    LET lp_fee       == bps(fee, LpFeeShareBps)
        treasury_fee == bps(fee, TreasuryFeeShareBps)
    IN  [lp |-> lp_fee, treasury |-> treasury_fee, cod |-> fee - lp_fee - treasury_fee]

accrue_fees(p, fee) ==
    IF p.shares > 0
      THEN [p EXCEPT !.fee_per_share = @ + (FeeParts(fee).lp * FEE_SCALE) \div p.shares]
      ELSE p

compute_lp_fees_owed(m, u) ==
    LET delta == pool[m].fee_per_share - checkpoint[<<m, u>>]
    IN  IF delta <= 0 THEN 0 ELSE (lp[<<m, u>>] * delta) \div FEE_SCALE

-----------------------------------------------------------------------------
(* The two kinds of trade, as what they do to a pool and to the positions.  *)

\* The quote of a purchase, and of a sale of `amount` positions.
BuyQuote(m, o, amount_in) ==
    LET s == split_fee(amount_in, TradingFeeBps)
    IN  [fee |-> s.fee, net_in |-> s.net,
         out |-> quote_buy_complete_set(pool[m].reserve[o], pool[m].reserve[Opposite(o)], s.net)]

SellQuote(m, o, amount_in) ==
    LET gross == quote_sell(pool[m].reserve[o], pool[m].reserve[Opposite(o)], amount_in)
        s     == split_fee(gross, TradingFeeBps)
    IN  [gross |-> gross, fee |-> s.fee, net |-> s.net]

CanQuote(m) == \A o \in Sides : pool[m].reserve[o] > 0

\* Faulty variant: the reserve keeps what was sold from it.
PoolAfterBuy_kept(m, o, q) ==
    [accrue_fees(pool[m], q.fee) EXCEPT !.reserve = [s \in Sides |-> @[s] + q.net_in]]

PoolAfterBuy(m, o, q) ==
    [accrue_fees(pool[m], q.fee) EXCEPT
        !.reserve = [s \in Sides |-> @[s] + q.net_in - (IF s = o THEN q.out ELSE 0)]]

PoolAfterSell(m, o, amount_in, q) ==
    [accrue_fees(pool[m], q.fee) EXCEPT
        !.reserve = [s \in Sides |-> @[s] - q.gross + (IF s = o THEN amount_in ELSE 0)]]
=============================================================================
