------------------------------ MODULE Trading ------------------------------
(***************************************************************************)
(* Markets that are traded, borrowed against, liquidated and redeemed: the *)
(* AMM, the conditional tokens, the vault and the factory over the life of *)
(* the markets.  One action per public entry point, each a whole           *)
(* transaction over all the contracts it calls.                            *)
(***************************************************************************)
EXTENDS AMM, TokenContract

CONSTANTS
    Cash,           \* what every trader starts with
    Creators,       \* the market creators the factory approves
    Calls,          \* the optional entry points that callers of this instance use
    Seeds,          \* initial_liquidity of a new market
    Amounts,        \* collateral amounts of purchases and deposits
    CreationFee,    \* creation_fee of the fee manager
    CreditLines,    \* the <<parent, parent outcome, child>> that buyers use
    PhasesUsed,     \* the phases that markets of this instance go through
    Divisors,       \* into how many parts holders divide what they sell or redeem
    MaxTrades       \* bound on purchases, sales, deposits and transfers

OptionalCalls == {"liquidity", "fees", "sell", "transfer", "burn", "repay", "liquidate"}

ASSUME TradingAssumption ==
    /\ IsFiniteSet(Traders) /\ IsFiniteSet(Markets)
    /\ Creators \subseteq Traders /\ Calls \subseteq OptionalCalls
    /\ Markets \subseteq Nat \ {NoParent}
    /\ Cash \in Nat /\ CreationFee \in Nat /\ MaxTrades \in Nat
    /\ Seeds \subseteq Nat \ {0} /\ Amounts \subseteq Nat \ {0}
    /\ CreditLines \subseteq Markets \X Sides \X Markets
    /\ PhasesUsed \subseteq Phases /\ Divisors \subseteq Nat \ {0}

VARIABLES
    cash,       \* balances in the collateral token
    trades      \* how many trades were made: the bound

vars == <<lifecycleVars, tokenVars, vault, poolVars, cash, trades>>

Init ==
    /\ LifecycleInit /\ TokensInit /\ VaultInit /\ PoolsInit
    /\ cash = [a \in Traders \cup {"vault", "treasury"} |-> IF a \in Traders THEN Cash ELSE 0]
    /\ trades = 0

TypeOK ==
    /\ phase \in [Markets -> Phases]
    /\ verdict \in [Markets -> Outcomes \cup {"none"}]
    /\ TokensTypeOK /\ VaultTypeOK /\ PoolsTypeOK
    /\ cash \in [Traders \cup {"vault", "treasury"} -> Nat]
    /\ trades \in 0 .. MaxTrades

Trade == trades < MaxTrades /\ trades' = trades + 1

\* A part of what somebody holds.
Parts(balance) == {balance \div d : d \in Divisors} \ {0}

-----------------------------------------------------------------------------
(* Liquidity.                                                               *)

\* seed_liquidity of an empty pool.
Seeded(m, u, amount) ==
    /\ vault' = deposit_for_market(vault, m, amount)
    /\ pos' = Minted(pos, m, amount)
    /\ setBacking' = [setBacking EXCEPT ![m] = @ + amount]
    /\ pool' = [pool EXCEPT ![m].reserve = [o \in Sides |-> amount],
                            ![m].shares = amount, ![m].live = TRUE]
    /\ lp' = [lp EXCEPT ![<<m, u>>] = amount]
    /\ checkpoint' = [checkpoint EXCEPT ![<<m, u>>] = pool[m].fee_per_share]

\* The factory registers the market, makes and seeds its pool, activates it.
create_market(u, m, amount) ==
    /\ u \in Creators
    /\ \A k \in Markets : k < m => phase[k] # "None"
    /\ Move(m, "Live")
    /\ phase[m] = "None"
    /\ CanTransfer(cash, u, CreationFee + amount)
    /\ cash' = Transferred(Transferred(cash, u, "treasury", CreationFee), u, "vault", amount)
    /\ Seeded(m, u, amount)
    /\ UNCHANGED trades

\* Anybody may seed a pool again after its last share was removed.
seed_liquidity(u, m, amount) ==
    /\ phase[m] = "Live"
    /\ pool[m].shares = 0
    /\ CanTransfer(cash, u, amount)
    /\ cash' = Transferred(cash, u, "vault", amount)
    /\ Seeded(m, u, amount)
    /\ Trade
    /\ UNCHANGED lifecycleVars

\* Faulty variant: new shares earn the fees of the past.
Checkpointed_not(m, u) == checkpoint' = checkpoint

\* Whoever changes his shares is paid his fees up to now.
Checkpointed(m, u) == checkpoint' = [checkpoint EXCEPT ![<<m, u>>] = pool[m].fee_per_share]

add_liquidity(u, m, amount) ==
    LET shares  == Least(proportional(pool[m].shares, amount, pool[m].reserve["Yes"]),
                         proportional(pool[m].shares, amount, pool[m].reserve["No"]))
        pending == compute_lp_fees_owed(m, u)
    IN  /\ phase[m] = "Live" /\ pool[m].live
        /\ pool[m].shares > 0 /\ CanQuote(m)
        /\ shares > 0
        /\ pending <= vault.book[m].lp_fees
        /\ CanTransfer(cash, u, amount)
        /\ CanTransfer(Transferred(cash, u, "vault", amount), "vault", pending)
        /\ cash' = Transferred(Transferred(cash, u, "vault", amount), "vault", u, pending)
        /\ vault' = claim_lp_fees(deposit_for_market(vault, m, amount), m, pending)
        /\ pos' = Minted(pos, m, amount)
        /\ setBacking' = [setBacking EXCEPT ![m] = @ + amount]
        /\ pool' = [pool EXCEPT ![m].reserve = [o \in Sides |-> @[o] + amount],
                                ![m].shares = @ + shares]
        /\ lp' = [lp EXCEPT ![<<m, u>>] = @ + shares]
        /\ Checkpointed(m, u)
        /\ Trade
        /\ UNCHANGED lifecycleVars

remove_liquidity(u, m, shares) ==
    LET out     == [o \in Sides |-> proportional(pool[m].reserve[o], shares, pool[m].shares)]
        pending == compute_lp_fees_owed(m, u)
    IN  /\ require_market_liquidity_removable(m)
        /\ shares <= lp[<<m, u>>] /\ shares <= pool[m].shares
        /\ pending <= vault.book[m].lp_fees
        /\ \A o \in Sides : CanSub(pos, m, "amm", o, out[o])
        /\ pool' = [pool EXCEPT ![m].reserve = [o \in Sides |-> @[o] - out[o]],
                                ![m].shares = @ - shares]
        /\ lp' = [lp EXCEPT ![<<m, u>>] = @ - shares]
        /\ Checkpointed(m, u)
        /\ CanTransfer(cash, "vault", pending)
        /\ cash' = Transferred(cash, "vault", u, pending)
        /\ vault' = claim_lp_fees(vault, m, pending)
        /\ pos' = Moved(Moved(pos, m, "amm", u, "Yes", out["Yes"]), m, "amm", u, "No", out["No"])
        /\ UNCHANGED <<lifecycleVars, setBacking, trades>>

claim_fees(u, m) ==
    LET owed == compute_lp_fees_owed(m, u)
    IN  /\ owed > 0
        /\ owed <= vault.book[m].lp_fees
        /\ Checkpointed(m, u)
        /\ CanTransfer(cash, "vault", owed)
        /\ cash' = Transferred(cash, "vault", u, owed)
        /\ vault' = claim_lp_fees(vault, m, owed)
        /\ UNCHANGED <<lifecycleVars, tokenVars, pool, lp, trades>>

\* Governance.
sweep_fees(m) ==
    /\ Swept(vault, m) > 0
    /\ CanTransfer(cash, "vault", Swept(vault, m) - ReserveCut(vault, m))
    /\ cash' = Transferred(cash, "vault", "treasury", Swept(vault, m) - ReserveCut(vault, m))
    /\ vault' = sweep_protocol_fees(vault, m)
    /\ UNCHANGED <<lifecycleVars, tokenVars, poolVars, trades>>

-----------------------------------------------------------------------------
(* Trades.                                                                  *)

\* What every purchase does once it is funded: sets are minted into the
\* pool, fees collected, the bought positions handed over.
Bought(funded, u, m, o, q) ==
    /\ HasBacking(funded, m, FeesOf(FeeParts(q.fee)))
    /\ vault' = collect_fee(funded, m, FeeParts(q.fee))
    /\ CanSub(Minted(pos, m, q.net_in), m, "amm", o, q.out)
    /\ pos' = Moved(Minted(pos, m, q.net_in), m, "amm", u, o, q.out)
    /\ setBacking' = [setBacking EXCEPT ![m] = @ + q.net_in]
    /\ pool' = [pool EXCEPT ![m] = PoolAfterBuy(m, o, q)]
    /\ Trade
    /\ UNCHANGED <<lifecycleVars, lp, checkpoint>>

CanBuy(m, o, amount_in) ==
    /\ require_live(m) /\ CanQuote(m)
    /\ BuyQuote(m, o, amount_in).net_in > 0

buy(u, m, o, amount_in) ==
    LET q == BuyQuote(m, o, amount_in)
    IN  /\ CanBuy(m, o, amount_in)
        /\ CanTransfer(cash, u, amount_in)
        /\ cash' = Transferred(cash, u, "vault", amount_in)
        /\ Bought(record_cash_stake(deposit_for_market(vault, m, amount_in), u, m, o, amount_in),
                  u, m, o, q)

buy_child(u, p, po, m, o, amount_in) ==
    LET q == BuyQuote(m, o, amount_in)
    IN  /\ CanBuy(m, o, amount_in)
        /\ CanOpenCredit(vault, u, p, po, m, amount_in)
        /\ Bought(open_child_credit_for_trade(vault, u, p, po, m, amount_in), u, m, o, q)
        /\ UNCHANGED cash

\* The pool takes the positions in and merges them with its own into sets.
SoldInto(u, m, o, amount_in, q) ==
    /\ CanSub(pos, m, u, o, amount_in)
    /\ CanMerge(Moved(pos, m, u, "amm", o, amount_in), m, q.gross)
    /\ pos' = Minted(Moved(pos, m, u, "amm", o, amount_in), m, 0 - q.gross)
    /\ setBacking' = [setBacking EXCEPT ![m] = @ - q.gross]
    /\ pool' = [pool EXCEPT ![m] = PoolAfterSell(m, o, amount_in, q)]
    /\ UNCHANGED <<lifecycleVars, lp, checkpoint>>

sell(u, m, o, amount_in) ==
    LET q        == SellQuote(m, o, amount_in)
        released == release_trade_payout(vault, u, m, o, amount_in, q.net)
    IN  /\ require_live(m) /\ CanQuote(m)
        /\ assert_position_transfer_allowed(vault, u, m, o)
        /\ q.net > 0 /\ HasBacking(vault, m, q.net)
        /\ HasBacking(released, m, FeesOf(FeeParts(q.fee)))
        /\ vault' = collect_fee(released, m, FeeParts(q.fee))
        /\ CanTransfer(cash, "vault", q.net)
        /\ cash' = Transferred(cash, "vault", u, q.net)
        /\ SoldInto(u, m, o, amount_in, q)
        /\ Trade

transfer_position(u, to, m, o, amount) ==
    /\ assert_position_transfer_allowed(vault, u, m, o)
    /\ CanSub(pos, m, u, o, amount)
    /\ pos' = Moved(pos, m, u, to, o, amount)
    /\ Trade
    /\ UNCHANGED <<lifecycleVars, setBacking, vault, poolVars, cash>>

\* burn_losing: the code asks neither for the outcome nor for the debts.
burn_losing(u, m, o, amount) ==
    /\ CanSub(pos, m, u, o, amount)
    /\ pos' = Added(pos, m, u, o, 0 - amount)
    /\ Trade
    /\ UNCHANGED <<lifecycleVars, setBacking, vault, poolVars, cash>>

-----------------------------------------------------------------------------
(* Debts.                                                                   *)

repay_child_collateral(u, c, amount) ==
    LET s == settle_child_debt(vault, c, u, amount)
    IN  /\ vault.childDebt[<<c, u>>] > 0
        /\ CanTransfer(cash, u, amount)
        /\ cash' = Transferred(cash, u, "vault", s.applied)
        /\ vault' = s.vault
        /\ UNCHANGED <<lifecycleVars, tokenVars, poolVars, trades>>

\* The position sells for at most 105% of the debt.
Liquidatable(u, m, o, debt) ==
    /\ require_live(m) /\ CanQuote(m)
    /\ debt > 0
    /\ pos[<<m, u, o>>] > 0
    /\ SellQuote(m, o, pos[<<m, u, o>>]).net <= bps(debt, LIQUIDATION_THRESHOLD_BPS)

\* force_sell of the whole position, then the vault's release of its proceeds.
ForceSold(u, m, o, q) ==
    /\ HasBacking(vault, m, FeesOf(FeeParts(q.fee)))
    /\ q.net > 0 /\ HasBacking(collect_fee(vault, m, FeeParts(q.fee)), m, q.net)
    /\ SoldInto(u, m, o, pos[<<m, u, o>>], q)
    /\ UNCHANGED trades

Released(liquidator, u, r) ==
    /\ CanTransfer(cash, "vault", r.bonus + r.remainder)
    /\ cash' = Transferred(Transferred(cash, "vault", liquidator, r.bonus), "vault", u, r.remainder)
    /\ vault' = r.vault

liquidate_position(liquidator, u, m, o) ==
    LET q == SellQuote(m, o, pos[<<m, u, o>>])
    IN  /\ Liquidatable(u, m, o, vault.used[<<m, u, o>>])
        /\ ForceSold(u, m, o, q)
        /\ Released(liquidator, u,
                    liquidate_release(collect_fee(vault, m, FeeParts(q.fee)), u, m, o,
                                      pos[<<m, u, o>>], q.net))

liquidate_child_position(liquidator, u, m, o) ==
    LET q == SellQuote(m, o, pos[<<m, u, o>>])
    IN  /\ Liquidatable(u, m, o, vault.childDebt[<<m, u>>])
        /\ ForceSold(u, m, o, q)
        /\ Released(liquidator, u,
                    liquidate_child_release(collect_fee(vault, m, FeeParts(q.fee)), u, m, o,
                                            pos[<<m, u, o>>], q.net))

-----------------------------------------------------------------------------
(* Redemption.                                                              *)

\* Positions are burned in full, whatever is paid for them.
Redeemed(u, m, o, amount, r) ==
    /\ CanSub(pos, m, u, o, amount)
    /\ pos' = Added(pos, m, u, o, 0 - amount)
    /\ CanTransfer(cash, "vault", r.payout)
    /\ cash' = Transferred(cash, "vault", u, r.payout)
    /\ vault' = r.vault
    /\ UNCHANGED <<lifecycleVars, setBacking, poolVars, trades>>

redeem_resolved_market(u, m, o, amount) ==
    /\ verdict[m] # "none"
    /\ Redeemed(u, m, o, amount, redeem_resolved(vault, u, m, o, amount, verdict[m]))

redeem_cancelled_market(u, m, o, amount) ==
    /\ phase[m] = "Cancelled"
    /\ Redeemed(u, m, o, amount, redeem_cancelled(vault, u, m, o, amount))

-----------------------------------------------------------------------------
(* The composition.                                                         *)

\* The registry, the oracle and time: what MarketLifecycle promises of them.
LifecycleStep ==
    /\ \/ \E m \in Markets, p \in PhasesUsed : phase[m] # "None" /\ Move(m, p)
       \/ "Expired" \in PhasesUsed /\ \E S \in SUBSET Markets \ {{}} : Expire(S)
       \/ \E m \in Markets, o \in Outcomes : Resolve(m, o)
    /\ UNCHANGED <<tokenVars, vault, poolVars, cash, trades>>

CreateMarket == \E u \in Traders, m \in Markets, a \in Seeds : create_market(u, m, a)

SeedLiquidity == \E u \in Traders, m \in Markets, a \in Seeds : seed_liquidity(u, m, a)

AddLiquidity == \E u \in Traders, m \in Markets, a \in Amounts : add_liquidity(u, m, a)

RemoveLiquidity ==
    \E u \in Traders, m \in Markets :
        \E s \in Parts(lp[<<m, u>>]) : remove_liquidity(u, m, s)

ClaimLpFees == \E u \in Traders, m \in Markets : claim_fees(u, m)

SweepProtocolFees == \E m \in Markets : sweep_fees(m)

Buy == \E u \in Traders, m \in Markets, o \in Sides, a \in Amounts : buy(u, m, o, a)

BuyChild ==
    \E u \in Traders, l \in CreditLines, o \in Sides, a \in Amounts :
        buy_child(u, l[1], l[2], l[3], o, a)

Sell ==
    \E u \in Traders, m \in Markets, o \in Sides :
        \E a \in Parts(pos[<<m, u, o>>]) : sell(u, m, o, a)

TransferPosition ==
    \E u \in Traders, m \in Markets, o \in Sides :
        \E to \in Holders \ {u}, a \in Parts(pos[<<m, u, o>>]) : transfer_position(u, to, m, o, a)

BurnLosing ==
    \E u \in Traders, m \in Markets, o \in Sides :
        \E a \in Parts(pos[<<m, u, o>>]) : burn_losing(u, m, o, a)

RepayChildCollateral ==
    \E u \in Traders, m \in Markets :
        \E a \in Parts(vault.childDebt[<<m, u>>]) : repay_child_collateral(u, m, a)

LiquidatePosition ==
    \E k, u \in Traders, m \in Markets, o \in Sides : liquidate_position(k, u, m, o)

LiquidateChildPosition ==
    \E k, u \in Traders, m \in Markets, o \in Sides : liquidate_child_position(k, u, m, o)

RedeemResolved ==
    \E u \in Traders, m \in Markets, o \in Sides :
        \E a \in Parts(pos[<<m, u, o>>]) : redeem_resolved_market(u, m, o, a)

RedeemCancelled ==
    \E u \in Traders, m \in Markets, o \in Sides :
        \E a \in Parts(pos[<<m, u, o>>]) : redeem_cancelled_market(u, m, o, a)

Next ==
    \/ LifecycleStep
    \/ CreateMarket \/ Buy \/ BuyChild \/ RedeemResolved \/ RedeemCancelled
    \/ "liquidity" \in Calls /\ (SeedLiquidity \/ AddLiquidity \/ RemoveLiquidity)
    \/ "fees" \in Calls /\ (ClaimLpFees \/ SweepProtocolFees)
    \/ "sell" \in Calls /\ Sell
    \/ "transfer" \in Calls /\ TransferPosition
    \/ "burn" \in Calls /\ BurnLosing
    \/ "repay" \in Calls /\ RepayChildCollateral
    \/ "liquidate" \in Calls /\ (LiquidatePosition \/ LiquidateChildPosition)

Spec == Init /\ [][Next]_vars

-----------------------------------------------------------------------------
(* Properties.                                                              *)

\* The pool owns at least the reserves it quotes from: the AMM's own record
\* and its balance in the conditional tokens are kept by different contracts.
PoolHoldsReserves ==
    \A m \in Markets, o \in Sides : pool[m].reserve[o] <= pos[<<m, "amm", o>>]

Settled(m) == phase[m] \in {"Resolved", "Cancelled"}

\* The markets that child credit draws on, and those it pays in.
Lenders   == {l[1] : l \in CreditLines}
Borrowers == {l[3] : l \in CreditLines}

BookTotal(b) == b.backing - b.redeemed + b.lp_fees + b.protocol_fees + b.cod_fees

\* What a vault should hold according to its books.
Worth(v) == SumFunctionOnSet([m \in Markets |-> BookTotal(v.book[m])], Markets) + v.reserve

\* The vault's token balance is what its books say: the backing that was not
\* redeemed, the fees not yet paid and the insurance reserve.  That ends when a
\* market that lends settles, for what is withheld from its borrowers is booked
\* as backing without any payment.  `refundable` is the rest of the backing kept
\* as a counter of its own, never below zero unless its market lends and borrows.
VaultHoldsBooks ==
    /\ (\A m \in Lenders : ~Settled(m)) => cash["vault"] = Worth(vault)
    /\ \A m \in Markets :
         /\ vault.book[m].refundable = vault.book[m].backing - vault.book[m].redeemed
         /\ m \notin Lenders \cap Borrowers => vault.book[m].refundable >= 0

Supply(m, o) == SumFunctionOnSet([h \in Holders |-> pos[<<m, h, o>>]], Holders)

\* What the holders of a settled market can still ask for.
Claims(m) ==
    IF verdict[m] \in Sides THEN Supply(m, verdict[m])
    ELSE (Supply(m, "Yes") + Supply(m, "No") + vault.carry[m]) \div 2

\* A settled market that no credit was drawn from can pay every claim in full,
\* in whatever order and in whatever parts its holders redeem.
ClaimsCovered ==
    \A m \in Markets \ Lenders :
        Settled(m) => Claims(m) <= vault.book[m].backing - vault.book[m].redeemed

LentOut(v, m) == SumFunctionOnSet(v.parentDebt, {k \in Positions : k[1] = m})

\* The collateral of a market, what was lent from it, and what it lost.
Secured(v, m) == v.book[m].backing + LentOut(v, m) + v.book[m].shortfall

\* Until a market settles, every complete set is backed by its collateral, by
\* what its traders borrowed from it, or by the shortfall on record.  Once it has
\* settled, what its holders can still ask for exceeds what was not redeemed of
\* the collateral by no more than these loans and this shortfall.
SetsBacked ==
    \A m \in Markets :
        IF Settled(m) THEN Claims(m) <= Secured(vault, m) - vault.book[m].redeemed
        ELSE /\ setBacking[m] = Secured(vault, m)
             /\ \A o \in Sides : Supply(m, o) <= setBacking[m]

\* The fees that liquidity providers can claim are in the vault.
LpFeesCovered ==
    \A m \in Markets :
        SumFunctionOnSet([u \in Traders |-> compute_lp_fees_owed(m, u)], Traders)
            <= vault.book[m].lp_fees

\* The credit limit of open_child_credit_for_trade holds for good: no sale,
\* repayment, redemption or liquidation leaves a loan above 60% of the stake.
DebtWithinLimit ==
    \A k \in Positions : vault.parentDebt[k] <= collateral_limit(vault.stake[k])

\* The debt that encumbers a position is the credit used on it, which is what
\* liquidate_position looks at.
DebtIsCreditUsed == \A k \in Positions : vault.parentDebt[k] = vault.used[k]
=============================================================================
