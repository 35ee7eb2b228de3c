------------------------------ MODULE TradeDesk ------------------------------
(***************************************************************************)
(* The forms of a market page in dike-web that ask for a write:            *)
(* features/trading/TradeForm.tsx ("trade"), ChildTradeForm.tsx ("child")  *)
(* and LiquidityForm.tsx ("liquidity").  What the user sees is loaded by   *)
(* requests that overlap: the quote of the amount typed, the balance or    *)
(* the credit it is limited by, the wallet, and the write under way.  The  *)
(* collapsible forms are open.                                             *)
(***************************************************************************)
EXTENDS WebSession

CONSTANTS
    MaxAmount,      \* the largest amount that is typed or held, a bound
    MaxAsked,       \* quotes under way at a time, a bound
    MaxInputs       \* changes of an input, a bound

ASSUME DeskAssumption == {MaxAmount, MaxAsked, MaxInputs} \subseteq Nat \ {0}

VARIABLES
    form,         \* the form that is mounted
    choice,       \* its inputs; amount 0 is an empty field
    inputs,       \* how often they were changed
    timer,        \* the quote waiting for its debounce
    asked,        \* quote requests under way
    storedQuote,  \* the last quote stored: the key it answers
    quoting,
    reading,      \* reads of balances, credit or LP state under way
    limit,        \* the last balances or credit stored, with their key
    limitFailed,  \* the key whose balances could not be read
    parents,      \* child form: the outcomes the wallet's parent stakes are on
    trade,        \* the write under way and the values it uses
    txState       \* the state the form shows

deskVars ==
    <<form, choice, inputs, timer, asked, storedQuote, quoting, reading, limit, limitFailed,
      parents, trade, txState>>

Forms == {"trade", "child", "liquidity"}
Tokens == {"yes", "no"}
Amounts == 0..MaxAmount

\* The side of a trade, the parent's outcome ("none" before a parent is
\* picked), the mode of the liquidity form.
Kinds ==
    [trade |-> {"buy", "sell"}, child |-> {"none", "Yes", "No"}, liquidity |-> {"add", "remove"}]

Choices(f) == [kind : Kinds[f], token : Tokens, amount : Amounts]
InitialChoice ==
    [trade     |-> [kind |-> "buy", token |-> "yes", amount |-> 0],
     child     |-> [kind |-> "none", token |-> "yes", amount |-> 0],
     liquidity |-> [kind |-> "add", token |-> "yes", amount |-> 0]]

NoKey == <<>>
Key(a, k, t, n) == <<a, k, t, n>>
ReadKey(a, what) == Key(a, what, "all", 0)

\* quoteKey: the child form leaves the parent out of it.
quoteKey(a, c) == Key(a, IF form = "child" THEN "buy" ELSE c.kind, c.token, c.amount)

\* creditKey, and the wallet the balances are of.
limitKey(a, c) == ReadKey(a, IF form = "child" THEN c.kind ELSE "all")

AllKeys == MaybeAccount \X {"buy", "sell", "add", "remove"} \X Tokens \X Amounts
Reads == {"all", "Yes", "No", "stakes", "shares", "fees"}
LimitKeys == MaybeAccount \X Reads \X {"all"} \X {0}
NoLimit == [key |-> NoKey, amount |-> [t \in Tokens |-> 0], known |-> FALSE]
Limits == [key : LimitKeys \cup {NoKey}, amount : [Tokens -> Amounts], known : BOOLEAN]
NoTrade == [account |-> NoAccount, choice |-> InitialChoice["trade"],
            quote |-> NoKey, limit |-> NoLimit]

DeskTypeOK ==
    /\ form \in Forms /\ choice \in Choices(form) /\ inputs \in 0..MaxInputs
    /\ timer \in AllKeys \cup {NoKey} /\ asked \subseteq AllKeys
    /\ storedQuote \in AllKeys \cup {NoKey} /\ quoting \in BOOLEAN
    /\ reading \subseteq LimitKeys /\ limit \in Limits
    /\ limitFailed \in LimitKeys \cup {NoKey}
    /\ parents \subseteq {"Yes", "No"}
    /\ txState \in {"idle", "running", "success", "failed"}
    /\ trade.account \in MaybeAccount /\ trade.limit \in Limits

InitDesk ==
    /\ form \in Forms
    /\ choice = InitialChoice[form] /\ inputs = 0
    /\ timer = NoKey /\ asked = {} /\ storedQuote = NoKey /\ quoting = FALSE
    /\ reading = {} /\ limit = NoLimit /\ limitFailed = NoKey /\ parents = {}
    /\ trade = NoTrade /\ txState = "idle"

-----------------------------------------------------------------------------
(* What a render derives from the state. *)

\* balances, availableCredit: what is stored counts only for the current key.
Loaded == limit.key = limitKey(address, choice)

\* A form that takes any quote it has for the current one.
QuoteIsStored == storedQuote # NoKey

QuoteIsCurrent == storedQuote = quoteKey(address, choice)

Selling == form = "trade" /\ choice.kind = "sell"

balancesUnknown == Selling /\ limitFailed = limitKey(address, choice) /\ ~Loaded

noPosition == Selling /\ ~balancesUnknown /\ (~Loaded \/ limit.amount[choice.token] = 0)

exceedsPosition == Selling /\ Loaded /\ choice.amount > limit.amount[choice.token]

exceedsCredit ==
    form = "child" /\ Loaded /\ limit.known /\ choice.amount > limit.amount[choice.token]

isPending == trade # NoTrade

-----------------------------------------------------------------------------
(* Effects run after the render of a step. *)

\* The quote effects: their dependencies, and the request they arm.  The
\* debounce of a changed input starts again.
QuoteDeps == <<address, choice.token, choice.amount, form = "trade" /\ choice.kind = "sell",
               noPosition, exceedsPosition>>

ArmedTrade ==
    form = "trade" /\ address # NoAccount /\ choice.amount > 0 /\ ~noPosition /\ ~exceedsPosition
ArmedChild == form = "child" /\ address # NoAccount /\ choice.amount > 0

RerunQuoteEffect ==
    timer' = IF QuoteDeps' = QuoteDeps THEN timer
             ELSE IF ArmedTrade' \/ ArmedChild' THEN quoteKey(address, choice)' ELSE NoKey

\* TradeForm reads the balances when the wallet or the status of the
\* transaction changes, and cancels the read it replaces.
BalancesEffect ==
    reading' = IF address' = address /\ txState' = txState THEN reading
               ELSE IF address' = NoAccount THEN {} ELSE {ReadKey(address', "all")}

\* ChildTradeForm reads the parent stakes of a wallet, cancelling the read of
\* another, and the credit of a parent, which is never cancelled (its
\* debounce, which only leaves requests out, is not modelled).
StakesEffect ==
    IF address' = address THEN reading
    ELSE {k \in reading : k[2] # "stakes"}
           \cup IF address' = NoAccount THEN {} ELSE {ReadKey(address', "stakes")}

CreditEffect ==
    IF limitKey(address, choice)' = limitKey(address, choice)
       \/ address' = NoAccount \/ choice'.kind = "none"
    THEN {} ELSE {limitKey(address, choice)'}

\* refreshLpState: the shares and the claimable fees, never cancelled.
refreshLpState(a) == IF a = NoAccount THEN {} ELSE {ReadKey(a, "shares"), ReadKey(a, "fees")}

LpEffect == IF address' = address THEN reading ELSE reading \cup refreshLpState(address')

RerunReadEffects ==
    CASE form = "trade"     -> BalancesEffect
      [] form = "child"     -> reading' = StakesEffect \cup CreditEffect
      [] form = "liquidity" -> reading' = LpEffect

DeskReacts ==
    /\ UNCHANGED <<form, choice, inputs, asked, storedQuote, quoting, limit, limitFailed,
                   parents, trade, txState>>
    /\ RerunQuoteEffect /\ RerunReadEffects

-----------------------------------------------------------------------------
(* The inputs, one change at a time. *)

Input(c) == /\ address # NoAccount /\ inputs < MaxInputs
            /\ choice' = c /\ inputs' = inputs + 1

\* TradeForm: the side and the token drop the quote.
SelectSide ==
    form = "trade" /\ \E k \in {"buy", "sell"} \ {choice.kind} : Input([choice EXCEPT !.kind = k])
SelectToken ==
    form = "trade" /\ \E t \in Tokens \ {choice.token} : Input([choice EXCEPT !.token = t])
TypeAmount ==
    form = "trade" /\ ~noPosition
      /\ \E n \in Amounts \ {choice.amount} : Input([choice EXCEPT !.amount = n])

\* ChildTradeForm: a parent comes with an outcome the wallet has a stake on;
\* the outcomes without a stake are disabled.
SelectParent ==
    /\ form = "child" /\ parents # {}
    /\ Input([choice EXCEPT !.kind = IF "Yes" \in parents THEN "Yes" ELSE "No"])
SelectParentOutcome ==
    /\ form = "child" /\ choice.kind # "none"
    /\ \E o \in parents \ {choice.kind} : Input([choice EXCEPT !.kind = o])
SelectChildToken ==
    form = "child" /\ \E t \in Tokens \ {choice.token} : Input([choice EXCEPT !.token = t])
TypeCredit ==
    form = "child" /\ \E n \in Amounts \ {choice.amount} : Input([choice EXCEPT !.amount = n])

\* LiquidityForm: a new mode empties the amount.
SelectMode ==
    form = "liquidity" /\ \E k \in {"add", "remove"} \ {choice.kind} :
        Input([choice EXCEPT !.kind = k, !.amount = 0])
TypeLiquidity ==
    form = "liquidity" /\ \E n \in Amounts \ {choice.amount} : Input([choice EXCEPT !.amount = n])

Choose ==
    /\ \/ (SelectSide \/ SelectToken) /\ storedQuote' = NoKey
       \/ /\ \/ TypeAmount \/ SelectParent \/ SelectParentOutcome \/ SelectChildToken
             \/ TypeCredit \/ SelectMode \/ TypeLiquidity
          /\ UNCHANGED storedQuote
    /\ UNCHANGED <<form, asked, quoting, limit, limitFailed, parents, trade, txState>>
    /\ RerunQuoteEffect /\ RerunReadEffects

-----------------------------------------------------------------------------
(* Answers. *)

\* The debounce ends: the quote is asked for.
AskQuote ==
    /\ timer # NoKey /\ Cardinality(asked) < MaxAsked
    /\ timer' = NoKey /\ asked' = asked \cup {timer} /\ quoting' = TRUE
    /\ UNCHANGED <<form, choice, inputs, storedQuote, reading, limit, limitFailed, parents,
                   trade, txState>>

\* A quote arrives for the inputs it was asked for, whatever they are by now.
QuoteArrives ==
    /\ \E k \in asked : asked' = asked \ {k} /\ storedQuote' = k
    /\ quoting' = FALSE
    /\ UNCHANGED <<form, choice, inputs, timer, reading, limit, limitFailed, parents,
                   trade, txState>>

\* A quote fails: the stored one is dropped, and the trade form shows a failure
\* even when a trade is under way.
QuoteFails ==
    /\ \E k \in asked : asked' = asked \ {k}
    /\ storedQuote' = NoKey /\ quoting' = FALSE
    /\ txState' = IF form = "trade" THEN "failed" ELSE txState
    /\ UNCHANGED <<form, choice, inputs, timer, limit, limitFailed, parents, trade>>
    /\ RerunReadEffects

\* A read ends; reads that failed, and the keys of what is stored, differ by form.
Read(k) == k \in reading /\ reading' = reading \ {k}
PerToken(n, m) == [t \in Tokens |-> IF t = "yes" THEN n ELSE m]

BalancesArrive ==
    /\ form = "trade"
    /\ \E k \in reading, n, m \in Amounts :
          Read(k) /\ limit' = [key |-> k, amount |-> PerToken(n, m), known |-> TRUE]
    /\ limitFailed' = NoKey /\ UNCHANGED parents

\* The balances that were read before stay.
BalancesFail ==
    /\ form = "trade"
    /\ \E k \in reading : Read(k) /\ limitFailed' = k
    /\ UNCHANGED <<limit, parents>>

StakesArrive ==
    /\ form = "child"
    /\ Read(ReadKey(address, "stakes"))
    /\ parents' \in SUBSET {"Yes", "No"}
    /\ UNCHANGED <<limit, limitFailed>>

CreditArrives ==
    /\ form = "child"
    /\ \E k \in reading, n \in Amounts :
          /\ k[2] # "stakes" /\ Read(k)
          /\ limit' \in {[key |-> k, amount |-> PerToken(n, n), known |-> TRUE],
                         [NoLimit EXCEPT !.key = k]}      \* the read failed
    /\ UNCHANGED <<limitFailed, parents>>

\* The LP state has no key; a failed read shows nothing.
LpStateArrives ==
    /\ form = "liquidity"
    /\ \E a \in Accounts, n \in Amounts :
          \/ Read(ReadKey(a, "shares")) /\ limit' = [limit EXCEPT !.amount["yes"] = n]
          \/ Read(ReadKey(a, "fees"))   /\ limit' = [limit EXCEPT !.amount["no"] = n]
    /\ UNCHANGED <<limitFailed, parents>>

ReadEnds ==
    /\ BalancesArrive \/ BalancesFail \/ StakesArrive \/ CreditArrives \/ LpStateArrives
    /\ UNCHANGED <<form, choice, inputs, asked, storedQuote, quoting, trade, txState>>
    /\ RerunQuoteEffect

RetryBalances ==
    /\ balancesUnknown
    /\ reading' = {ReadKey(address, "all")}
    /\ UNCHANGED <<form, choice, inputs, timer, asked, storedQuote, quoting, limit, limitFailed,
                   parents, trade, txState>>

-----------------------------------------------------------------------------
(* Writes: the values of the render that is clicked are used. *)

canTrade ==
    /\ form = "trade" /\ QuoteIsCurrent /\ choice.amount > 0
    /\ ~isPending /\ ~quoting /\ ~noPosition /\ ~exceedsPosition /\ ~balancesUnknown

canBuy ==
    /\ form = "child" /\ QuoteIsCurrent /\ choice.amount > 0
    /\ choice.kind # "none" /\ ~isPending /\ ~quoting /\ ~exceedsCredit

canSubmit == form = "liquidity" /\ choice.amount > 0 /\ ~isPending

canClaim == form = "liquidity" /\ limit.amount["no"] > 0 /\ ~isPending

Execute(t) == address # NoAccount /\ trade' = t /\ txState' = "running"

handleTrade ==
    canTrade /\ Execute([account |-> address, choice |-> choice, quote |-> storedQuote,
                         limit |-> IF Loaded THEN limit ELSE NoLimit])
handleBuy ==
    canBuy /\ Execute([account |-> address, choice |-> choice, quote |-> storedQuote,
                       limit |-> IF Loaded THEN limit ELSE NoLimit])
handleSubmit ==
    canSubmit /\ Execute([NoTrade EXCEPT !.account = address, !.choice = choice])
handleClaimFees ==
    canClaim /\ Execute([NoTrade EXCEPT !.account = address, !.choice.kind = "claim"])

Click ==
    /\ handleTrade \/ handleBuy \/ handleSubmit \/ handleClaimFees
    /\ UNCHANGED <<form, choice, inputs, timer, asked, storedQuote, quoting, limit, limitFailed,
                   parents>>
    /\ RerunReadEffects

\* The write is applied, which takes the signature of its account.
Applied == isPending /\ kit = trade.account /\ trade' = NoTrade /\ txState' = "success"

\* The amount typed by now is cleared, with the quote.
TradeSucceeds ==
    /\ form = "trade" /\ Applied
    /\ choice' = [choice EXCEPT !.amount = 0] /\ storedQuote' = NoKey
    /\ UNCHANGED limit /\ RerunReadEffects

\* The credit is forgotten as well; nothing reads it again.
BuySucceeds ==
    /\ form = "child" /\ Applied
    /\ choice' = [choice EXCEPT !.amount = 0] /\ storedQuote' = NoKey
    /\ limit' = NoLimit /\ RerunReadEffects

\* The LP state of the account that was clicked with is read again.
LiquiditySucceeds ==
    /\ form = "liquidity" /\ Applied
    /\ choice' = [choice EXCEPT !.amount = IF trade.choice.kind = "claim" THEN @ ELSE 0]
    /\ reading' = reading \cup refreshLpState(trade.account)
    /\ UNCHANGED <<storedQuote, limit>>

WriteSucceeds ==
    /\ UNCHANGED <<form, inputs, asked, quoting, limitFailed, parents>>
    /\ TradeSucceeds \/ BuySucceeds \/ LiquiditySucceeds
    /\ RerunQuoteEffect

\* It is refused, cancelled or fails.
WriteFails ==
    /\ isPending
    /\ trade' = NoTrade
    /\ txState' = "failed"
    /\ UNCHANGED <<form, choice, inputs, timer, asked, storedQuote, quoting, limit, limitFailed,
                   parents>>
    /\ RerunReadEffects

DeskStep ==
    /\ UNCHANGED sessionVars
    /\ \/ Choose \/ AskQuote \/ QuoteArrives \/ QuoteFails \/ ReadEnds
       \/ RetryBalances \/ Click \/ WriteSucceeds \/ WriteFails

-----------------------------------------------------------------------------
(***************************************************************************)
(* A write that was clicked uses the quote of exactly its own wallet and   *)
(* inputs, and amounts that the balances or the credit of that wallet      *)
(* cover: no answer that came late, for other inputs or another wallet,    *)
(* gets into a transaction (the keyed state of TradeForm.tsx:46-67 and     *)
(* ChildTradeForm.tsx:49-69).                                              *)
(***************************************************************************)
TradeIsWhatWasShown ==
    (isPending /\ form # "liquidity") =>
        /\ trade.quote = quoteKey(trade.account, trade.choice)
        /\ (form = "trade" /\ trade.choice.kind = "sell") =>
               trade.limit.known /\ trade.limit.key = limitKey(trade.account, trade.choice)
        /\ trade.limit.known /\ (form = "child" \/ trade.choice.kind = "sell") =>
               trade.choice.amount <= trade.limit.amount[trade.choice.token]
=============================================================================
