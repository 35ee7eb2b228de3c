----------------------------- MODULE CODOracle -----------------------------
(***************************************************************************)
(* CODOracle (contracts/cod_oracle): the optimistic resolution of one      *)
(* market, and the calls it makes to the registry, the vault, the fee      *)
(* manager and the council in the same transaction.                        *)
(***************************************************************************)
EXTENDS CouncilOfDike

VARIABLES
    request,         \* ResolutionRequest, by id
    marketRequest,   \* MarketRequest(market_id), 0 when unset
    nextRequestId,
    oraclePaused

oracleVars == <<request, marketRequest, nextRequestId, oraclePaused>>

NoUser == "nobody"   \* the oracle's own address, before there is a proposer

RequestRecord ==
    [status : OracleStatuses, market : Markets \cup {0},
     has_proposal : BOOLEAN, proposer : Users \cup {NoUser},
     proposed_outcome : Outcomes, proposed_at : Nat,
     has_dispute : BOOLEAN, disputer : Users \cup {NoUser}, disputed_outcome : Outcomes,
     has_final_outcome : BOOLEAN, final_outcome : Outcomes]

NoRequest ==
    [status |-> "None", market |-> 0,
     has_proposal |-> FALSE, proposer |-> NoUser,
     proposed_outcome |-> "Invalid", proposed_at |-> 0,
     has_dispute |-> FALSE, disputer |-> NoUser, disputed_outcome |-> "Invalid",
     has_final_outcome |-> FALSE, final_outcome |-> "Invalid"]

OracleInit ==
    /\ request = [r \in RequestIds |-> NoRequest]
    /\ marketRequest = [m \in Markets |-> 0]
    /\ nextRequestId = 1
    /\ oraclePaused = FALSE

OracleTypeOK ==
    /\ request \in [RequestIds -> RequestRecord]
    /\ marketRequest \in [Markets -> RequestIds \cup {0}]
    /\ nextRequestId \in Nat \ {0}
    /\ oraclePaused \in BOOLEAN

dispute_deadline(r) == request[r].proposed_at + DisputeWindow[request[r].market]

\* The bond is the market's, checked by validate_request_matches_market.
RequestBond(r) == BondAmount[request[r].market]

\* Anyone, once the market has expired.
request_resolution(m) ==
    /\ ~oraclePaused
    /\ nextRequestId \in RequestIds
    /\ close_and_mark_requested(m, nextRequestId)
    /\ marketRequest[m] = 0
    /\ request' = [request EXCEPT ![nextRequestId] =
                     [NoRequest EXCEPT !.status = "Requested", !.market = m]]
    /\ marketRequest' = [marketRequest EXCEPT ![m] = nextRequestId]
    /\ nextRequestId' = nextRequestId + 1
    /\ UNCHANGED <<oraclePaused, vaultVars, councilVars, tok>>

propose_outcome(proposer, r, outcome) ==
    /\ request[r].status = "Requested"
    /\ lock_bond(proposer, r, request[r].market, RequestBond(r), FALSE)
    /\ mark_proposed(request[r].market)
    /\ request' = [request EXCEPT ![r].status = "Proposed",
                                  ![r].has_proposal = TRUE,
                                  ![r].proposer = proposer,
                                  ![r].proposed_outcome = outcome,
                                  ![r].proposed_at = now]
    /\ UNCHANGED <<marketRequest, nextRequestId, oraclePaused, councilVars>>

\* The last second of the window still takes a dispute.
dispute_outcome(disputer, r, counter_outcome) ==
    /\ request[r].status = "Proposed"
    /\ request[r].has_proposal
    /\ now <= dispute_deadline(r)
    /\ request[r].proposed_outcome # counter_outcome
    /\ lock_bond(disputer, r, request[r].market, RequestBond(r), TRUE)
    /\ mark_disputed(request[r].market)
    /\ request' = [request EXCEPT ![r].status = "Disputed",
                                  ![r].has_dispute = TRUE,
                                  ![r].disputer = disputer,
                                  ![r].disputed_outcome = counter_outcome]
    /\ UNCHANGED <<marketRequest, nextRequestId, oraclePaused, councilVars>>

Finalized(r, outcome) ==
    [request EXCEPT ![r].status = "Finalized",
                    ![r].has_final_outcome = TRUE,
                    ![r].final_outcome = outcome]

finalize_undisputed(r) ==
    LET q == request[r]
        b == RequestBond(r)
        k == <<r, q.proposer, FALSE>>
    IN  /\ q.status = "Proposed"
        /\ q.has_proposal
        /\ now > dispute_deadline(r)
        /\ set_final_outcome(q.market, q.proposed_outcome)
        /\ CanPay(bond, k, b)
        /\ CanTransfer(tok, "vault", b)
        /\ bond' = Paid(bond, k, b)
        /\ bondTotal' = Debited(bondTotal, k, b)
        /\ tok' = Transferred(tok, "vault", q.proposer, b)
        /\ request' = Finalized(r, q.proposed_outcome)
        /\ UNCHANGED <<split, marketRequest, nextRequestId, oraclePaused, councilVars>>

escalate_to_council(r) ==
    /\ request[r].status = "Disputed"
    /\ open_case(r, DisputeWindow[request[r].market])
    /\ mark_council_voting(request[r].market)
    /\ request' = [request EXCEPT ![r].status = "Escalated"]
    /\ UNCHANGED <<marketRequest, nextRequestId, oraclePaused, vaultVars, tok>>

-----------------------------------------------------------------------------
(* report_council_outcome, the last step of a dispute.                     *)

ProposalKey(r) == <<r, request[r].proposer, FALSE>>
DisputeKey(r)  == <<r, request[r].disputer, TRUE>>

\* The bond of the winning side is released; the other is slashed in up to
\* three payments: to the winner, to the council (and its case's pool) and
\* to the treasury.  An amount of zero is skipped for the last two and is an
\* error of slash_bond for the first.
AwardOk(r, winKey, loseKey) ==
    LET b  == RequestBond(r)
        s  == losing_bond_split(b)
        b1 == Paid(bond, winKey, b)
        b2 == Paid(b1, loseKey, s.winner)
        b3 == IF s.council > 0 THEN Paid(b2, loseKey, s.council) ELSE b2
    IN  /\ CanPay(bond, winKey, b)
        /\ CanPay(b1, loseKey, s.winner)
        /\ s.council > 0 => CanPay(b2, loseKey, s.council) /\ requestCase[r] # 0
        /\ s.treasury > 0 => CanPay(b3, loseKey, s.treasury)
        /\ CanTransfer(tok, "vault", b + b)

AwardTo(r, winner, winKey, loseKey) ==
    LET b  == RequestBond(r)
        s  == losing_bond_split(b)
        b2 == Paid(Paid(bond, winKey, b), loseKey, s.winner)
        b3 == IF s.council > 0 THEN Paid(b2, loseKey, s.council) ELSE b2
        b4 == IF s.treasury > 0 THEN Paid(b3, loseKey, s.treasury) ELSE b3
        t1 == Transferred(tok, "vault", winner, b)
        t2 == Transferred(t1, "vault", winner, s.winner)
        t3 == Transferred(t2, "vault", "council", s.council)
    IN  /\ AwardOk(r, winKey, loseKey)
        /\ bond' = b4
        /\ bondTotal' = Debited(Debited(bondTotal, winKey, b), loseKey, b)
        /\ tok' = Transferred(t3, "vault", "treasury", s.treasury)
        /\ rewardPool' = IF s.council > 0
                         THEN [rewardPool EXCEPT ![requestCase[r]] = @ + s.council]
                         ELSE rewardPool

\* The council agreed with neither side: both bonds go back.
ReturnOk(r) ==
    /\ CanPay(bond, ProposalKey(r), RequestBond(r))
    /\ CanPay(Paid(bond, ProposalKey(r), RequestBond(r)), DisputeKey(r), RequestBond(r))
    /\ CanTransfer(tok, "vault", RequestBond(r) + RequestBond(r))

\* Faulty variant: only the proposer gets the bond back.
ReturnBoth_proposer_only(r) ==
    /\ ReturnOk(r)
    /\ bond' = Paid(bond, ProposalKey(r), RequestBond(r))
    /\ bondTotal' = Debited(bondTotal, ProposalKey(r), RequestBond(r))
    /\ tok' = Transferred(tok, "vault", request[r].proposer, RequestBond(r))
    /\ UNCHANGED rewardPool

ReturnBoth(r) ==
    LET b  == RequestBond(r)
        t1 == Transferred(tok, "vault", request[r].proposer, b)
    IN  /\ ReturnOk(r)
        /\ bond' = Paid(Paid(bond, ProposalKey(r), b), DisputeKey(r), b)
        /\ bondTotal' = Debited(Debited(bondTotal, ProposalKey(r), b), DisputeKey(r), b)
        /\ tok' = Transferred(t1, "vault", request[r].disputer, b)
        /\ UNCHANGED rewardPool

\* The checks of report_council_outcome, those of the calls it makes included.
CanReport(r, outcome) ==
    LET q == request[r]
    IN  /\ q.status = "Escalated"
        /\ ~q.has_final_outcome
        /\ CASE outcome = q.proposed_outcome -> AwardOk(r, ProposalKey(r), DisputeKey(r))
             [] outcome # q.proposed_outcome /\ outcome = q.disputed_outcome ->
                  AwardOk(r, DisputeKey(r), ProposalKey(r))
             [] OTHER -> ReturnOk(r)
        /\ ~market[q.market].has_final_outcome
        /\ market[q.market].status \in {"Proposed", "CouncilVoting"}

\* The effect on every contract but the council's own case record.
report_council_outcome(r, outcome) ==
    LET q == request[r]
    IN  /\ q.status = "Escalated"
        /\ ~q.has_final_outcome
        /\ \/ /\ outcome = q.proposed_outcome
              /\ AwardTo(r, q.proposer, ProposalKey(r), DisputeKey(r))
           \/ /\ outcome # q.proposed_outcome
              /\ outcome = q.disputed_outcome
              /\ AwardTo(r, q.disputer, DisputeKey(r), ProposalKey(r))
           \/ /\ outcome \notin {q.proposed_outcome, q.disputed_outcome}
              /\ ReturnBoth(r)
        /\ set_final_outcome(q.market, outcome)
        /\ request' = Finalized(r, outcome)
        /\ UNCHANGED <<split, marketRequest, nextRequestId, oraclePaused>>

\* Governance: pause.
pause_oracle(p) ==
    /\ oraclePaused' = p
    /\ UNCHANGED <<request, marketRequest, nextRequestId>>
=============================================================================
