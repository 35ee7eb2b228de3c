-------------------------- MODULE CollateralVault --------------------------
(***************************************************************************)
(* CollateralVault (contracts/collateral_vault) without the oracle bonds,  *)
(* which are in BondVault: the book of every market, child credit and its  *)
(* settlement, redemption and fees.  An entry point is an operator from a  *)
(* vault to a vault, so that callers can make several calls in one         *)
(* transaction.  Token transfers are left to the callers.  Counters and    *)
(* keys that no guard and no payment reads (total_deposited, ChildLoan,    *)
(* UserDeposit, Redeemed...) are left out.                                 *)
(***************************************************************************)
EXTENDS ConditionalTokens, DikeMath, SequencesExt

VARIABLE vault

INSURANCE_RESERVE_BPS == 2000
LIQUIDATION_BONUS_BPS == 300

\* ChildParent of a position that is no child.
NoParent == 0

Positions == Markets \X Traders \X Sides
Accounts  == Markets \X Traders

zero_accounting ==
    [backing |-> 0, refundable |-> 0, redeemed |-> 0, shortfall |-> 0,
     lp_fees |-> 0, protocol_fees |-> 0, cod_fees |-> 0]

VaultInit ==
    vault = [book          |-> [m \in Markets |-> zero_accounting],
             carry         |-> [m \in Markets |-> 0],       \* InvalidDustCarry
             reserve       |-> 0,                           \* InsuranceReserve
             stake         |-> [k \in Positions |-> 0],     \* RootStake
             used          |-> [k \in Positions |-> 0],     \* ChildCollateralUsedByOutcome
             parentDebt    |-> [k \in Positions |-> 0],
             children      |-> [k \in Positions |-> <<>>],  \* ChildMarketsOf
             childDebt     |-> [a \in Accounts |-> 0],
             parent        |-> [a \in Accounts |-> NoParent],
             parentOutcome |-> [a \in Accounts |-> "Invalid"]]

\* checked_sub fails on overflow only, so a book may go below zero.
Books ==
    [backing : Int, refundable : Int, redeemed : Nat, shortfall : Nat,
     lp_fees : Nat, protocol_fees : Nat, cod_fees : Nat]

Vaults ==
    [book : [Markets -> Books], carry : [Markets -> 0 .. 1], reserve : Nat,
     stake : [Positions -> Nat], used : [Positions -> Nat], parentDebt : [Positions -> Nat],
     children : [Positions -> Seq(Markets)], childDebt : [Accounts -> Nat],
     parent : [Accounts -> Markets \cup {NoParent}], parentOutcome : [Accounts -> Outcomes]]

VaultTypeOK == vault \in Vaults

-----------------------------------------------------------------------------
(* Money in and out of a market's book.                                     *)

Funded(b, amount) == [b EXCEPT !.backing = @ + amount, !.refundable = @ + amount]

Credited(v, m, amount) == [v EXCEPT !.book[m] = Funded(@, amount)]

HasBacking(v, m, amount) ==
    v.book[m].backing >= amount /\ v.book[m].refundable >= amount

\* Faulty variants of the saturating subtraction.
Spend_below_zero(balance, amount) == balance - amount
Spend_forgotten(balance, amount)  == balance

\* saturating_sub_i128
Spend(balance, amount) == balance - Least(balance, amount)

deposit_for_market(v, m, amount) == Credited(v, m, amount)

record_cash_stake(v, u, m, o, collateral_in) ==
    [v EXCEPT !.stake[<<m, u, o>>] = @ + collateral_in]

\* transfer_position asks this first; the sale of a position asks it again.
assert_position_transfer_allowed(v, from, m, o) ==
    from \in Traders => v.childDebt[<<m, from>>] = 0 /\ v.parentDebt[<<m, from, o>>] = 0

release_trade_payout(v, u, m, o, tokens_sold, payout) ==
    [Credited(v, m, 0 - payout) EXCEPT !.stake[<<m, u, o>>] = Spend(@, tokens_sold)]

\* The fees of a trade leave the backing and become fees owed.
FeesOf(f) == f.lp + f.treasury + f.cod

FeesAdded(b, f) ==
    [b EXCEPT !.lp_fees = @ + f.lp, !.protocol_fees = @ + f.treasury, !.cod_fees = @ + f.cod]

collect_fee(v, m, f) ==
    [Credited(v, m, 0 - FeesOf(f)) EXCEPT !.book[m] = FeesAdded(@, f)]

claim_lp_fees(v, m, amount) == [v EXCEPT !.book[m].lp_fees = @ - amount]

\* A fifth of what is swept stays in the vault as the insurance reserve.
Swept(v, m)      == v.book[m].protocol_fees + v.book[m].cod_fees
ReserveCut(v, m) == bps(Swept(v, m), INSURANCE_RESERVE_BPS)

FeesSwept(b) == [b EXCEPT !.protocol_fees = 0, !.cod_fees = 0]

sweep_protocol_fees(v, m) ==
    [v EXCEPT !.book[m] = FeesSwept(@),
              !.reserve = @ + ReserveCut(v, m)]

-----------------------------------------------------------------------------
(* Child credit: a stake in a parent market pays for a trade in a child     *)
(* market; the parent's backing moves to the child's book.                  *)

\* Faulty variant: earlier loans on the stake are not counted.
WithinLimit_each(v, position, amount) == amount <= collateral_limit(v.stake[position])

WithinLimit(v, position, amount) ==
    v.used[position] + amount <= collateral_limit(v.stake[position])

CanOpenCredit(v, u, p, po, c, amount) ==
    /\ p # c
    /\ phase[p] \in {"Live", "Expired"}     \* status Live, whatever the clock says
    /\ v.parent[<<p, u>>] = NoParent
    /\ v.parent[<<c, u>>] \in {NoParent, p}
    /\ WithinLimit(v, <<p, u, po>>, amount)
    /\ HasBacking(v, p, amount)

record_child_market(children, c) ==
    IF c \in ToSet(children) THEN children ELSE Append(children, c)

\* The keys of the loan.  The first loan of a child names its parent outcome.
Lent(v, u, p, po, c, amount) ==
    [v EXCEPT !.used[<<p, u, po>>] = @ + amount,
              !.parentDebt[<<p, u, po>>] = @ + amount,
              !.childDebt[<<c, u>>] = @ + amount,
              !.parent[<<c, u>>] = p,
              !.parentOutcome[<<c, u>>] = IF v.parent[<<c, u>>] = NoParent THEN po ELSE @,
              !.children[<<p, u, po>>] = record_child_market(@, c)]

\* Faulty variant: the child's backing is not taken from the parent.
open_child_credit_conjured(v, u, p, po, c, amount) == Credited(Lent(v, u, p, po, c, amount), c, amount)

open_child_credit_for_trade(v, u, p, po, c, amount) ==
    Credited(Credited(Lent(v, u, p, po, c, amount), p, 0 - amount), c, amount)

\* Pays down the debt of a child, as far as it is still owed here and upstream.
settle_child_debt(v, c, u, repayment) ==
    LET debt     == v.childDebt[<<c, u>>]
        p        == v.parent[<<c, u>>]
        key      == <<p, u, v.parentOutcome[<<c, u>>]>>
        upstream == v.parentDebt[key]
        applied  == Least(repayment, Least(debt, upstream))
        paid     == [v EXCEPT !.childDebt[<<c, u>>] = @ - applied,
                              !.parentDebt[key] = @ - applied,
                              !.used[key] = Spend(@, applied)]
    IN  CASE repayment <= 0 \/ debt = 0 -> [vault |-> v, applied |-> 0]
          [] repayment > 0 /\ debt # 0 /\ upstream = 0 ->
               [vault |-> [v EXCEPT !.childDebt[<<c, u>>] = 0], applied |-> 0]
          [] OTHER -> [vault |-> Credited(paid, p, applied), applied |-> applied]

\* The debt of one child is cleared, as far as the default goes.
Cleared(acc, c, u, key) ==
    LET cleared == Least(acc.vault.childDebt[<<c, u>>], acc.remaining)
    IN  [remaining |-> acc.remaining - cleared,
         vault |-> [acc.vault EXCEPT !.childDebt[<<c, u>>] = @ - cleared,
                                     !.used[key] = Spend(@, cleared)]]

\* What a loan against a lost position leaves behind: the reserve pays first,
\* the rest is the parent's shortfall, and the debts are cleared.
Short(b, amount) == [b EXCEPT !.shortfall = @ + amount]

Defaulted(v, p, key, total_defaulted) ==
    LET draw == Least(total_defaulted, v.reserve)
    IN  [Credited(v, p, draw) EXCEPT !.reserve = @ - draw,
                                     !.book[p] = Short(@, total_defaulted - draw),
                                     !.parentDebt[key] = 0]

resolve_parent_default(v, p, u, po, total_defaulted) ==
    LET key == <<p, u, po>>
    IN  IF total_defaulted <= 0 THEN v
        ELSE FoldLeft(LAMBDA acc, c : Cleared(acc, c, u, key),
                      [vault |-> Defaulted(v, p, key, total_defaulted),
                       remaining |-> total_defaulted],
                      v.children[key]).vault

-----------------------------------------------------------------------------
(* Redemption.  A claim settles the debts of the position first; what is    *)
(* left of it is capped by what the book can still pay.                     *)

capped_payout(v, m, gross_payout) ==
    LET b         == v.book[m]
        remaining == b.backing - b.redeemed
        claim     == IF b.shortfall = 0 THEN gross_payout
                     ELSE (gross_payout * b.backing) \div (b.backing + b.shortfall)
    IN  IF gross_payout <= 0 \/ b.backing <= 0 \/ remaining <= 0 THEN 0
        ELSE Least(claim, remaining)

\* Faulty variant: what was redeemed is not recorded.
PaidOut_unrecorded(v, m, payout) == [v EXCEPT !.book[m].refundable = @ - payout]

Paying(b, payout) == [b EXCEPT !.redeemed = @ + payout, !.refundable = @ - payout]

PaidOut(v, m, payout) == [v EXCEPT !.book[m] = Paying(@, payout)]

\* Faulty variant: the odd unit is paid out at once.
half_refund_up(v, m, amount) == [gross |-> (amount + 1) \div 2, vault |-> v]

\* Half of the amount; the odd unit is carried to the next refund.
half_refund(v, m, amount) ==
    LET effective == v.carry[m] + amount
        refund    == invalid_refund(effective)
    IN  [gross |-> refund, vault |-> [v EXCEPT !.carry[m] = effective - 2 * refund]]

\* The loans that this very position backs are withheld from its claim; a
\* position that is worth nothing defaults on them.
withhold_parent_debt(v, m, u, o, gross, claim) ==
    LET key    == <<m, u, o>>
        repaid == Least(v.parentDebt[key], claim)
        unpaid == v.parentDebt[key] - repaid
        kept   == Credited([v EXCEPT !.parentDebt[key] = unpaid, !.used[key] = Spend(@, repaid)],
                           m, repaid)
    IN  [repaid |-> repaid,
         vault  |-> IF gross = 0 THEN resolve_parent_default(kept, m, u, o, unpaid) ELSE kept]

redeem_resolved(v, u, m, o, amount, final_outcome) ==
    LET r        == CASE final_outcome = "Invalid" -> half_refund(v, m, amount)
                      [] final_outcome = o -> [gross |-> amount, vault |-> v]
                      [] OTHER -> [gross |-> 0, vault |-> v]
        upstream == settle_child_debt(r.vault, m, u, r.gross)
        claim    == r.gross - upstream.applied
        own      == withhold_parent_debt(Credited(upstream.vault, m, 0 - upstream.applied),
                                         m, u, o, r.gross, claim)
        payout   == capped_payout(own.vault, m, claim - own.repaid)
    IN  [payout |-> payout,
         vault  |-> PaidOut([own.vault EXCEPT !.stake[<<m, u, o>>] = Spend(@, r.gross)], m, payout)]

redeem_cancelled(v, u, m, o, amount) ==
    LET r      == half_refund(v, m, amount)
        own    == withhold_parent_debt(r.vault, m, u, o, r.gross, r.gross)
        payout == capped_payout(own.vault, m, r.gross - own.repaid)
    IN  [payout |-> payout, vault |-> PaidOut(own.vault, m, payout)]

-----------------------------------------------------------------------------
(* Liquidation: the proceeds of a forced sale pay the liquidator, then the  *)
(* debts, then the user; what is still owed after that is a default.        *)

\* What the sale takes out of the market's book.
Extracted(v, u, m, o, tokens_sold, proceeds) ==
    release_trade_payout(v, u, m, o, tokens_sold, proceeds)

\* The debt of one child is settled from what is left of the proceeds.
SettledNext(acc, c, u) ==
    LET s == settle_child_debt(acc.vault, c, u, acc.pool)
    IN  [vault |-> s.vault, pool |-> acc.pool - s.applied]

liquidate_release(v, u, p, po, tokens_sold, proceeds) ==
    LET bonus == bps(proceeds, LIQUIDATION_BONUS_BPS)
        settled == FoldLeft(LAMBDA acc, c : SettledNext(acc, c, u),
                            [vault |-> Extracted(v, u, p, po, tokens_sold, proceeds),
                             pool  |-> proceeds - bonus],
                            v.children[<<p, u, po>>])
        unrecovered == settled.vault.used[<<p, u, po>>]
    IN  [bonus |-> bonus, remainder |-> settled.pool,
         vault |-> resolve_parent_default(settled.vault, p, u, po, unrecovered)]

liquidate_child_release(v, u, c, co, tokens_sold, proceeds) ==
    LET bonus == bps(proceeds, LIQUIDATION_BONUS_BPS)
        s == settle_child_debt(Extracted(v, u, c, co, tokens_sold, proceeds), c, u,
                               proceeds - bonus)
        still_owed == s.vault.childDebt[<<c, u>>]
    IN  [bonus |-> bonus, remainder |-> proceeds - bonus - s.applied,
         vault |-> IF still_owed = 0 THEN s.vault
                   ELSE resolve_parent_default(s.vault, v.parent[<<c, u>>], u,
                                               v.parentOutcome[<<c, u>>], still_owed)]
=============================================================================
