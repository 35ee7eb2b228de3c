------------------------------- MODULE WebApp -------------------------------
(***************************************************************************)
(* The pages of dike-web over one wallet session.  A run starts with one   *)
(* page mounted: the forms of a market ("desk"), the portfolio, a market   *)
(* page that follows the stream ("live"), or a page behind a gate:         *)
(* "create", "council" or "admin".                                         *)
(***************************************************************************)
EXTENDS TradeDesk, PortfolioView, LiveView, CreateDesk, TimelockDesk

VARIABLE page

pageVars == <<deskVars, portfolioVars, liveVars, createVars, timelockVars>>
vars == <<page, sessionVars, deskVars, portfolioVars, liveVars, createVars, timelockVars>>

Pages == {"desk", "portfolio", "live", "create", "council", "admin"}

\* The role a page is about, if any.
PageRole == [create |-> "creator", council |-> "member", admin |-> "admin"]
Gated == page \in DOMAIN PageRole

TypeOK ==
    /\ page \in Pages
    /\ SessionTypeOK /\ DeskTypeOK /\ PortfolioTypeOK /\ LiveTypeOK /\ CreateTypeOK /\ TimelockTypeOK

\* Accounts are interchangeable, as are timelocks: the first of each is fixed.
Init ==
    /\ page \in Pages
    /\ kit = CHOOSE a \in Accounts : TRUE
    /\ InitSession /\ InitPortfolio /\ InitLive /\ InitDesk /\ InitCreate /\ InitTimelock
    /\ page # "desk" => form = "trade"
    /\ \A r \in Roles : lists[r] # {} => (Gated /\ PageRole[page] = r)
    /\ inForce = CHOOSE l \in Locks : TRUE
    /\ page \in {"create", "admin"} => stored = NoAccount
    /\ page = "admin" => lists["admin"] = {kit}

\* A step of the session, with the effects of the page that is mounted.  The
\* permissions are of interest behind a gate only.
Session ==
    /\ page # "live"
    /\ \/ WalletStep
       \/ Gated /\ PermissionsArrive
       \/ page \in {"create", "admin"} /\ Tick
    /\ IF page = "desk" THEN DeskReacts ELSE UNCHANGED deskVars
    /\ IF page = "portfolio" THEN PortfolioReacts ELSE UNCHANGED portfolioVars
    /\ IF page = "create" THEN CreateReacts ELSE UNCHANGED createVars
    /\ IF page = "admin" THEN TimelockReacts ELSE UNCHANGED timelockVars
    /\ UNCHANGED <<page, liveVars>>

OnLivePage(A) ==
    page = "live" /\ A
      /\ UNCHANGED <<page, sessionVars, deskVars, portfolioVars, createVars, timelockVars>>

Next ==
    \/ Session
    \/ page = "desk" /\ DeskStep /\ UNCHANGED <<page, portfolioVars, liveVars, createVars, timelockVars>>
    \/ page = "portfolio" /\ PortfolioStep
         /\ UNCHANGED <<page, deskVars, liveVars, createVars, timelockVars>>
    \/ page = "create" /\ CreateStep
         /\ UNCHANGED <<page, deskVars, portfolioVars, liveVars, timelockVars>>
    \/ page = "admin" /\ TimelockStep
         /\ UNCHANGED <<page, deskVars, portfolioVars, liveVars, createVars>>
    \/ OnLivePage(LiveStep)

\* The jobs run on a timer, browsers retry, and timers and fetches end.
Fairness ==
    /\ WF_vars(OnLivePage(Republish)) /\ WF_vars(OnLivePage(ReceiveUpdate))
    /\ WF_vars(OnLivePage(Refresh)) /\ WF_vars(OnLivePage(RenderEnds))
    /\ WF_vars(OnLivePage(Revalidated)) /\ WF_vars(OnLivePage(CacheExpires))
    /\ WF_vars(OnLivePage(Reconnect))

Spec == Init /\ [][Next]_vars /\ Fairness

(***************************************************************************)
(* What is behind a gate is rendered only for a wallet the services know   *)
(* with the role, although answers about a wallet left meanwhile arrive    *)
(* late (wallet.tsx:143-163, SectionGate.tsx:25-54); and a market created  *)
(* from behind it is signed by such a wallet and still has its expiry      *)
(* ahead, although the wallet may be switched and time passes between the  *)
(* click and the ledger (create-predic/page.tsx:106-194).                  *)
(***************************************************************************)
GateOpensForGranted ==
    /\ \A gate \in Gates : GateOpen(gate) => authz(address)[gate]
    /\ CreationsAllowed

(***************************************************************************)
(* Every write lands on the page in the end: a page that is still up and   *)
(* whose stream was not refused comes to show the rows the services hold,  *)
(* although an update can be lost, dropped by the debounce or answered     *)
(* from a stale cache (LiveRefresh.tsx:18-30, client.ts:14-30; the jobs    *)
(* publish again).  A refresh that finds no cached answer while the        *)
(* services fail puts an alert in place of the page, which ends its        *)
(* updates (page.tsx:39-57, 70).                                           *)
(***************************************************************************)
ViewConverges == <>[](view = served \/ stream = "dead" \/ view = None)
=============================================================================
