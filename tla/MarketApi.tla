------------------------------ MODULE MarketApi ------------------------------
(***************************************************************************)
(* What the services and the pages offer a user on a market under          *)
(* resolution: the derived fields of api/server.ts (domain/                *)
(* derived-state.ts), the market page's close button and the sections of   *)
(* features/resolution/ResolutionPanel.tsx.  They are computed from the    *)
(* rows the services copied from the contracts; the delay of the copy is   *)
(* left out here (module Services).                                        *)
(***************************************************************************)
EXTENDS MCResolution

\* A market without a row, or with an unknown status, counts as Created.
toMarketStatus(m) == IF market[m].status \in MarketStatuses THEN market[m].status ELSE "Created"

\* The latest request of the market: 0 when there is none.
getResolution(m) == marketRequest[m]

deriveTradeability(m) == toMarketStatus(m) = "Live" /\ Expiry[m] > now

DisputeDeadline(r) == request[r].proposed_at + DisputeWindow[request[r].market]

\* Faulty variant: the dispute window is left out of the deadline.
undisputedStep_without_window(r) ==
    IF request[r].proposed_at > now THEN {"dispute"} ELSE {"finalize_undisputed"}

undisputedStep(r) == IF DisputeDeadline(r) > now THEN {"dispute"} ELSE {"finalize_undisputed"}

\* The action the API names for each status of the market.
deriveResolutionNextActions(m) ==
    LET r == getResolution(m)
        s == toMarketStatus(m)
    IN  IF now < Expiry[m] THEN {}
        ELSE CASE s = "TradingClosed"       -> {"request_resolution"}
               [] s = "ResolutionRequested" -> {"propose_outcome"}
               [] s = "Proposed"            ->
                    IF request[r].has_dispute THEN {"await_dispute_settlement"}
                    ELSE undisputedStep(r)
               [] s = "Disputed"            -> {"escalate_to_council"}
               [] s = "CouncilVoting"       -> {"monitor_commit_reveal"}
               [] s \in {"Resolved", "Cancelled"} -> {"redeem"}
               [] OTHER -> {}

-----------------------------------------------------------------------------
(* The pages: the request's own status decides, not the market's.          *)

\* CloseTradingButton, for a market that is Live and not tradeable.
isExpired(m) == toMarketStatus(m) = "Live" /\ ~deriveTradeability(m)

RequestSection(m) == toMarketStatus(m) = "TradingClosed" /\ getResolution(m) = 0 /\ now > Expiry[m]

ProposeSection(r)  == request[r].status = "Requested"
DisputeSection(r)  == request[r].status = "Proposed" /\ now < DisputeDeadline(r)
FinalizeSection(r) == request[r].status = "Proposed" /\ now >= DisputeDeadline(r)
EscalateSection(r) == request[r].status = "Disputed"

\* The steps offered on a market by the API or by a page.
Sections(m) ==
    LET r == getResolution(m)
    IN  {s \in {"close_trading", "request_resolution", "propose_outcome", "dispute",
                "finalize_undisputed", "escalate_to_council"} :
           CASE s = "close_trading"      -> isExpired(m)
             [] s = "request_resolution" -> RequestSection(m)
             [] s = "propose_outcome"    -> r # 0 /\ ProposeSection(r)
             [] s = "dispute"            -> r # 0 /\ DisputeSection(r)
             [] s = "finalize_undisputed" -> r # 0 /\ FinalizeSection(r)
             [] s = "escalate_to_council" -> r # 0 /\ EscalateSection(r)}

Offered(m) == deriveResolutionNextActions(m) \cup Sections(m)

-----------------------------------------------------------------------------
\* A user who can pay the bond of the request and has not locked it before.
CanBond(u, r, d) == tok[u] >= RequestBond(r) /\ ~bond[<<r, u, d>>].exists

\* The contracts take the step now; a proposal leaves room under MaxTime.
Taken(m, s) ==
    LET r == getResolution(m)
    IN  CASE s = "close_trading"      -> ENABLED CloseTrading(m)
          [] s = "request_resolution" -> ENABLED RequestResolution(m)
          [] s = "propose_outcome"    ->
               \A u \in Users, o \in Outcomes :
                 (CanBond(u, r, FALSE) /\ now + 3 * DisputeWindow[m] < MaxTime)
                   => ENABLED ProposeOutcome(u, r, o)
          [] s = "dispute"            ->
               \A u \in Users, o \in Outcomes \ {request[r].proposed_outcome} :
                 CanBond(u, r, TRUE) => ENABLED DisputeOutcome(u, r, o)
          [] s = "finalize_undisputed" -> ENABLED FinalizeUndisputed(r)
          [] s = "escalate_to_council" -> ENABLED EscalateToCouncil(r)
          [] s = "redeem"              -> LifePhase[m] \in {"Resolved", "Cancelled"}
          [] OTHER                     -> TRUE

\* The checks the contracts make before they take the step, those of the calls
\* they make to each other included.
BondChecks(u, r, d) ==
    /\ RequestBond(r) > 0
    /\ market[request[r].market].status # "None"
    /\ ~bond[<<r, u, d>>].exists
    /\ CanTransfer(tok, u, RequestBond(r))

OutcomeChecks(m) ==
    ~market[m].has_final_outcome /\ market[m].status \in {"Proposed", "CouncilVoting"}

CloseChecks(m) == now >= Expiry[m] /\ valid_transition(market[m].status, "TradingClosed")

RequestChecks(m) ==
    /\ ~oraclePaused
    /\ nextRequestId \in RequestIds
    /\ marketRequest[m] = 0
    /\ now >= Expiry[m]
    /\ ~market[m].has_final_outcome
    /\ market[m].status \in {"Live", "TradingClosed"}

ProposeChecks(u, r) ==
    /\ request[r].status = "Requested"
    /\ BondChecks(u, r, FALSE)
    /\ valid_transition(market[request[r].market].status, "Proposed")

DisputeChecks(u, r, o) ==
    /\ request[r].status = "Proposed" /\ request[r].has_proposal
    /\ now <= dispute_deadline(r)
    /\ request[r].proposed_outcome # o
    /\ BondChecks(u, r, TRUE)
    /\ valid_transition(market[request[r].market].status, "Disputed")

FinalizeChecks(r) ==
    /\ request[r].status = "Proposed" /\ request[r].has_proposal
    /\ now > dispute_deadline(r)
    /\ OutcomeChecks(request[r].market)
    /\ CanPay(bond, ProposalKey(r), RequestBond(r))
    /\ CanTransfer(tok, "vault", RequestBond(r))

EscalateChecks(r) ==
    /\ request[r].status = "Disputed"
    /\ requestCase[r] = 0
    /\ nextCaseId \in CaseIds
    /\ valid_transition(market[request[r].market].status, "CouncilVoting")

Checks(m, s) ==
    LET r == getResolution(m)
    IN  CASE s = "close_trading"      -> CloseChecks(m)
          [] s = "request_resolution" -> RequestChecks(m)
          [] s = "propose_outcome"    -> \A u \in Users : CanBond(u, r, FALSE) => ProposeChecks(u, r)
          [] s = "dispute"            ->
               \A u \in Users, o \in Outcomes \ {request[r].proposed_outcome} :
                 CanBond(u, r, TRUE) => DisputeChecks(u, r, o)
          [] s = "finalize_undisputed" -> FinalizeChecks(r)
          [] s = "escalate_to_council" -> EscalateChecks(r)
          [] s = "redeem"              -> LifePhase[m] \in {"Resolved", "Cancelled"}
          [] OTHER                     -> TRUE

Refused(m, s) ==
    \/ s = "request_resolution" /\ oraclePaused
    \/ s = "finalize_undisputed" /\ now = DisputeDeadline(getResolution(m))

\* An offered step fails none of the contracts' checks.
OfferedStepsPass == \A m \in Markets : \A s \in Offered(m) : Checks(m, s) \/ Refused(m, s)

\* The checks are the contracts' own: a step that passes them is taken.
ChecksDecide == \A m \in Markets : \A s \in Offered(m) : Checks(m, s) => Taken(m, s)

\* Whatever step of a resolution the API or a page offers, the contracts take
\* from every user who can pay for it, although the API goes by the registry's
\* status, the page by the oracle's request and each by its own clock rule
\* (derived-state.ts:33-72, ResolutionPanel.tsx:86-203).  Two refusals are
\* left: a paused oracle takes no request, and at the very second of the
\* deadline "finalize" is offered while the oracle still takes disputes.
OfferedStepsTaken == OfferedStepsPass /\ ChecksDecide
=============================================================================
