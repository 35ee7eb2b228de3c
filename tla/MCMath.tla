------------------------------- MODULE MCMath ------------------------------
(***************************************************************************)
(* The quotes of dike_math against what they promise: a trader buys at the *)
(* quote from a pool of any small size and sells at once what he bought,   *)
(* without fees.                                                           *)
(***************************************************************************)
EXTENDS DikeMath

CONSTANT N      \* reserves and payments are 1 .. N

ASSUME NAssumption == N \in Nat \ {0}

VARIABLES
    outcome, opposite,  \* the reserves of the side traded and of the other side
    spent,              \* collateral paid in
    held,               \* positions bought
    got,                \* collateral the sale returns
    step

vars == <<outcome, opposite, spent, held, got, step>>

Init ==
    /\ outcome \in 1 .. N /\ opposite \in 1 .. N /\ spent \in 1 .. N
    /\ held = 0 /\ got = 0 /\ step = "start"

\* buy: spent sets are minted into the pool, the quoted positions taken out.
BuyAtQuote ==
    /\ step = "start"
    /\ held' = quote_buy_complete_set(outcome, opposite, spent)
    /\ outcome' = outcome + spent - held'
    /\ opposite' = opposite + spent
    /\ step' = "bought"
    /\ UNCHANGED <<spent, got>>

\* sell: the positions go in, the quoted number of sets is merged and paid.
SellAtQuote ==
    /\ step = "bought"
    /\ outcome > 0
    /\ got' = quote_sell(outcome, opposite, held)
    /\ outcome' = outcome + held - got'
    /\ opposite' = opposite - got'
    /\ step' = "sold"
    /\ UNCHANGED <<spent, held>>

Next == BuyAtQuote \/ SellAtQuote

Spec == Init /\ [][Next]_vars

\* isqrt is the integer square root ("Largest integer x such that x*x <= n"),
\* compared with its definition at the discriminants the quotes meet.
IsqrtIsFloorRoot ==
    LET n == (outcome + held + opposite) * (outcome + held + opposite) - 4 * held * opposite
        r == isqrt(n)
    IN  r * r <= n /\ n < (r + 1) * (r + 1)

\* A quote never takes from the pool what it does not have, a position never
\* costs more than one unit of collateral, nor sells for more.
QuotesWithinPool ==
    /\ outcome >= 0 /\ opposite >= 0
    /\ step = "bought" => held >= spent
    /\ step = "sold" => got <= held

\* Buying keeps the product of the reserves up to the rounding of one division.
BuyKeepsProduct ==
    [][ step' = "bought" =>
          /\ outcome' * opposite' <= outcome * opposite
          /\ outcome * opposite < (outcome' + 1) * opposite' ]_vars
=============================================================================
