----------------------------- MODULE MCTrading -----------------------------
(***************************************************************************)
(* Small instances of Trading for TLC, and what comments of the code say   *)
(* of the books and of the last redeemer.                                  *)
(***************************************************************************)
EXTENDS Trading

\* Instances: markets 1 .. n; lines of credit <<parent, outcome, child>>.
OneMarket    == {1}
TwoMarkets   == {1, 2}
ThreeMarkets == {1, 2, 3}
NoCredit     == {}
OneLine      == {<<1, "Yes", 2>>}
TwoChildren  == {<<1, "Yes", 2>>, <<1, "Yes", 3>>}
EndPhases    == {"Closed", "Cancelled"}
Chain        == {<<1, "Yes", 2>>, <<2, "Yes", 3>>}
NoPhases     == {}

TraderSymmetry == Permutations(Traders)

-----------------------------------------------------------------------------

\* What the books say keeps "tracking real money, not claims".
BooksTrackMoney == cash["vault"] = Worth(vault)

\* Nobody who holds the winning side is left with an empty book.
LastRedeemerPaid ==
    \A m \in Markets :
        verdict[m] \in Sides /\ vault.book[m].redeemed > 0 /\ Supply(m, verdict[m]) > 0 =>
            vault.book[m].refundable > 0
=============================================================================
