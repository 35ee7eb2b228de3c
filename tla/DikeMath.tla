----------------------------- MODULE DikeMath ------------------------------
(***************************************************************************)
(* crates/dike_math: the integer arithmetic of fees, collateral limits and *)
(* constant-product quotes.  Amounts are i128 in the code; a result out of *)
(* range is an error there and reverts the transaction.                    *)
(***************************************************************************)
EXTENDS DikeTypes

Least(a, b) == IF a > b THEN b ELSE a

DEFAULT_CHILD_COLLATERAL_BPS == 6000

collateral_limit(amount) == bps(amount, DEFAULT_CHILD_COLLATERAL_BPS)

split_fee(amount, fee_bps) ==
    LET fee == bps(amount, fee_bps) IN [fee |-> fee, net |-> amount - fee]

proportional(amount, shares, total_shares) == (amount * shares) \div total_shares

\* Faulty variant: the collateral paid in is not minted into the pool first.
quote_buy_plain(outcome_reserve, opposite_reserve, net_in) ==
    outcome_reserve - (outcome_reserve * opposite_reserve) \div (opposite_reserve + net_in)

\* net_in complete sets are minted into the pool; the buyer takes what keeps
\* the product of the reserves.
quote_buy_complete_set(outcome_reserve, opposite_reserve, net_in) ==
    outcome_reserve + net_in
      - (outcome_reserve * opposite_reserve) \div (opposite_reserve + net_in)

\* Faulty variant: one step of the iteration too few.
isqrt_early(n) ==
    LET half == (n + 1) \div 2 IN IF n < 2 THEN n ELSE (half + n \div half) \div 2

\* The Babylonian iteration: from x = n down, while it still decreases.
isqrt(n) ==
    LET from[x \in 1 .. n] ==
          LET y == (x + n \div x) \div 2 IN IF y < x THEN from[y] ELSE x
    IN  IF n < 2 THEN n ELSE from[n]

\* The smaller root of c^2 - c * (O + S + P) + S * P = 0.
quote_sell(outcome_reserve, opposite_reserve, amount_in) ==
    LET sum == outcome_reserve + amount_in + opposite_reserve
    IN  (sum - isqrt(sum * sum - 4 * amount_in * opposite_reserve)) \div 2

invalid_refund(amount) == amount \div 2
=============================================================================
