---------------------------- MODULE MathProofs -----------------------------
(***************************************************************************)
(* The trades of MCMath for pools and payments of every size.              *)
(***************************************************************************)
EXTENDS MCMath, DikeTheorems

-----------------------------------------------------------------------------
(* The trades. *)

QuoteInv ==
    /\ outcome \in Nat /\ opposite \in Nat /\ spent \in Nat /\ held \in Nat /\ got \in Nat
    /\ step \in {"start", "bought", "sold"}
    /\ step = "start" => outcome >= 1 /\ opposite >= 1 /\ spent >= 1
    /\ step = "bought" => held >= spent
    /\ step = "sold" => got <= held

LEMMA QuoteInvInit == Init => QuoteInv
BY NAssumption DEF Init, QuoteInv

\* A purchase at the quote keeps the invariant, and the product up to rounding.
LEMMA BuyKeeps ==
    ASSUME QuoteInv, BuyAtQuote
    PROVE  /\ QuoteInv'
           /\ outcome' * opposite' <= outcome * opposite
           /\ outcome * opposite < (outcome' + 1) * opposite'
<1>1. PICK k \in Nat :
        /\ quote_buy_complete_set(outcome, opposite, spent) = outcome + spent - k
        /\ k <= outcome
        /\ k * (opposite + spent) <= outcome * opposite
        /\ outcome * opposite < (k + 1) * (opposite + spent)
    BY BuyQuoteBounds DEF QuoteInv, BuyAtQuote
<1>2. held' = outcome + spent - k
    BY <1>1 DEF BuyAtQuote
<1>3. outcome' = k /\ opposite' = opposite + spent
    BY <1>1, <1>2 DEF BuyAtQuote, QuoteInv
<1>4. QuoteInv'
    BY <1>1, <1>2, <1>3 DEF BuyAtQuote, QuoteInv
<1> QED BY <1>1, <1>3, <1>4

\* A sale at the quote keeps the invariant.
LEMMA SellKeeps ==
    ASSUME QuoteInv, SellAtQuote
    PROVE  QuoteInv'
<1>1. got' \in Nat /\ got' <= held /\ got' <= opposite
    BY SellQuoteBounds DEF SellAtQuote, QuoteInv
<1> QED BY <1>1 DEF SellAtQuote, QuoteInv

LEMMA QuoteInvNext == QuoteInv /\ [Next]_vars => QuoteInv'
<1>1. CASE UNCHANGED vars
    BY <1>1 DEF vars, QuoteInv
<1> QED BY <1>1, BuyKeeps, SellKeeps DEF Next

LEMMA QuoteInvHolds == Spec => []QuoteInv
BY QuoteInvInit, QuoteInvNext, PTL DEF Spec

\* For pools and payments of every size, the iteration of isqrt ends at the
\* integer square root of each discriminant a quote meets.
THEOREM IsqrtAlwaysFloorRoot == Spec => []IsqrtIsFloorRoot
<1>1. QuoteInv => IsqrtIsFloorRoot
  <2> SUFFICES ASSUME QuoteInv PROVE IsqrtIsFloorRoot
      OBVIOUS
  <2>1. Discriminant(outcome, opposite, held) \in Nat
      BY DiscriminantBounds DEF QuoteInv
  <2>2. LET r == isqrt(Discriminant(outcome, opposite, held))
        IN  r * r <= Discriminant(outcome, opposite, held)
              /\ Discriminant(outcome, opposite, held) < (r + 1) * (r + 1)
      BY <2>1, IsqrtIsRoot
  <2> QED BY <2>2 DEF IsqrtIsFloorRoot, Discriminant
<1> QED BY <1>1, QuoteInvHolds, PTL

\* For pools and payments of every size, a quote stays within the pool and a
\* position costs and sells for at most one unit of collateral.
THEOREM QuotesAlwaysWithinPool == Spec => []QuotesWithinPool
<1>1. QuoteInv => QuotesWithinPool
    BY DEF QuoteInv, QuotesWithinPool
<1> QED BY <1>1, QuoteInvHolds, PTL

\* For pools and payments of every size, quote_buy_complete_set keeps the
\* product of the reserves up to the rounding of one division.
THEOREM ProductAlwaysKept == Spec => BuyKeepsProduct
<1>1. QuoteInv /\ [Next]_vars =>
        [ step' = "bought" =>
            /\ outcome' * opposite' <= outcome * opposite
            /\ outcome * opposite < (outcome' + 1) * opposite' ]_vars
  <2>1. SellAtQuote => step' # "bought"
      BY DEF SellAtQuote
  <2> QED BY <2>1, BuyKeeps DEF Next
<1> QED BY <1>1, QuoteInvHolds, PTL DEF Spec, BuyKeepsProduct
=============================================================================
