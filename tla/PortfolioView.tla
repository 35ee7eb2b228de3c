---------------------------- MODULE PortfolioView ----------------------------
(***************************************************************************)
(* The portfolio page of dike-web (app/(app)/dashboard/page.tsx): the load *)
(* of a wallet's positions, the refreshes that live updates start, and the *)
(* redemption of a position (features/portfolio/RedeemForm.tsx).           *)
(*                                                                         *)
(* Of a list of positions only its owner is kept; NoAccount is the empty   *)
(* list a failed load leaves.                                              *)
(***************************************************************************)
EXTENDS WebSession

VARIABLES
    portfolioAddress,   \* the wallet the positions are said to be of
    positions,          \* the owner of the positions shown
    loads,              \* the load of the effect under way: its wallet
    scheduled,          \* a refresh waits for its debounce: the wallet it will ask for
    refreshes,          \* refreshes under way: their wallets
    selected,           \* the owner of the position in the redeem dialog
    redeem              \* the redemption under way: who, and whose balance it takes

portfolioVars == <<portfolioAddress, positions, loads, scheduled, refreshes, selected, redeem>>

NoRedeem == [account |-> NoAccount, balanceOf |-> NoAccount]

PortfolioTypeOK ==
    /\ {portfolioAddress, positions, loads, scheduled, selected} \subseteq MaybeAccount
    /\ refreshes \subseteq Accounts
    /\ redeem \in [account : MaybeAccount, balanceOf : MaybeAccount]

InitPortfolio ==
    /\ portfolioAddress = NoAccount /\ positions = NoAccount /\ loads = NoAccount
    /\ scheduled = NoAccount /\ refreshes = {} /\ selected = NoAccount /\ redeem = NoRedeem

\* The effect of the page: a changed wallet cancels the load under way.
PortfolioReacts ==
    /\ loads' = IF address' = address THEN loads ELSE address'
    /\ UNCHANGED <<portfolioAddress, positions, scheduled, refreshes, selected, redeem>>

loading == address # NoAccount /\ portfolioAddress # address

\* fetchPortfolio and hydratePortfolioPositions of the effect end.
LoadEnds ==
    /\ loads # NoAccount
    /\ positions' \in {loads, NoAccount}
    /\ portfolioAddress' = loads
    /\ loads' = NoAccount
    /\ UNCHANGED <<scheduled, refreshes, selected, redeem>>

\* A live update about the wallet schedules a refresh, at most one at a time.
UpdateArrives ==
    /\ address # NoAccount /\ scheduled = NoAccount
    /\ scheduled' = address
    /\ UNCHANGED <<portfolioAddress, positions, loads, refreshes, selected, redeem>>

\* The debounce ends: the wallet of the update is refreshed, even if another
\* one is connected by now.
RefreshStarts ==
    /\ scheduled # NoAccount
    /\ scheduled' = NoAccount
    /\ refreshes' = refreshes \cup {scheduled}
    /\ UNCHANGED <<portfolioAddress, positions, loads, selected, redeem>>

\* A refresh that leaves the wallet the positions are said to be of.
RefreshEndsUnlabelled ==
    /\ \E a \in refreshes :
          /\ positions' \in {a, NoAccount}
          /\ refreshes' = refreshes \ {a}
    /\ UNCHANGED <<portfolioAddress, loads, scheduled, selected, redeem>>

\* refreshPortfolio ends: it is never cancelled.
RefreshEnds ==
    /\ \E a \in refreshes :
          /\ positions' \in {a, NoAccount}
          /\ portfolioAddress' = a
          /\ refreshes' = refreshes \ {a}
    /\ UNCHANGED <<loads, scheduled, selected, redeem>>

\* The dialog is opened on a position shown, and closed.
SelectPosition ==
    /\ address # NoAccount /\ ~loading /\ positions # NoAccount /\ selected = NoAccount
    /\ selected' = positions
    /\ UNCHANGED <<portfolioAddress, positions, loads, scheduled, refreshes, redeem>>

CloseDialog ==
    /\ selected # NoAccount
    /\ selected' = NoAccount
    /\ UNCHANGED <<portfolioAddress, positions, loads, scheduled, refreshes, redeem>>

\* handleRedeem: the amount is the balance ctBalance reads now for the wallet,
\* not the one of the position in the dialog.
Redeem ==
    /\ selected # NoAccount /\ address # NoAccount /\ redeem = NoRedeem
    /\ redeem' = [account |-> address, balanceOf |-> address]
    /\ UNCHANGED <<portfolioAddress, positions, loads, scheduled, refreshes, selected>>

\* The redemption is refused, cancelled or fails; or it is applied, the dialog
\* closes and the page of its wallet is refreshed.
RedeemFails ==
    /\ redeem # NoRedeem
    /\ redeem' = NoRedeem
    /\ UNCHANGED <<portfolioAddress, positions, loads, scheduled, refreshes, selected>>

RedeemSucceeds ==
    /\ redeem # NoRedeem /\ kit = redeem.account
    /\ redeem' = NoRedeem /\ selected' = NoAccount
    /\ refreshes' = refreshes \cup {redeem.account}
    /\ UNCHANGED <<portfolioAddress, positions, loads, scheduled>>

PortfolioStep ==
    /\ UNCHANGED sessionVars
    /\ \/ LoadEnds \/ UpdateArrives \/ RefreshStarts \/ RefreshEnds
       \/ SelectPosition \/ CloseDialog \/ Redeem \/ RedeemFails \/ RedeemSucceeds

(***************************************************************************)
(* The page never shows the positions of one wallet as those of another,   *)
(* although refreshes of a wallet left meanwhile still end (page.tsx:29-48 *)
(* sets the positions and the wallet they are of together).                *)
(***************************************************************************)
PositionsBelongToWallet ==
    (address # NoAccount /\ ~loading) => positions \in {address, NoAccount}
=============================================================================
