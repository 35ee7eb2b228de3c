----------------------------- MODULE Resolution -----------------------------
(***************************************************************************)
(* The resolution of markets: factory and governance calls on the          *)
(* registry, the optimistic oracle, the Council of Dike, the bonds held by *)
(* the vault, and the passing of ledger time.  Every action is one         *)
(* transaction that committed.                                             *)
(***************************************************************************)
EXTENDS CODOracle, Functions

CONSTANTS
    MaxTime,         \* bound: the last ledger timestamp
    InitialBalance,  \* what each user owns of the collateral token
    DirectAmounts,   \* what users pass when they call lock_bond themselves
    GovActs,         \* the governance calls of the instance
    LoneFinalize,    \* whether anyone calls finalize_case on its own
    ReentryAllowed   \* whether the host lets the oracle call back into the council

ASSUME ResolutionAssumption ==
    /\ IsFiniteSet(Users) /\ IsFiniteSet(Members)
    /\ MaxTime \in Nat
    /\ InitialBalance \in Nat
    /\ DirectAmounts \subseteq Nat
    /\ GovActs \subseteq {"pause", "member", "split", "sweep"}
    /\ LoneFinalize \in BOOLEAN
    /\ ReentryAllowed \in BOOLEAN

vars == <<now, tok, registryVars, vaultVars, councilVars, oracleVars>>

Init ==
    /\ now = 0
    /\ tok = [a \in Accounts |-> IF a \in Users THEN InitialBalance ELSE 0]
    /\ RegistryInit
    /\ BondInit
    /\ CouncilInit
    /\ OracleInit

\* One type invariant: the storage of every contract is well-formed.
TypeOK ==
    /\ now \in Nat
    /\ tok \in [Accounts -> Int]
    /\ RegistryTypeOK
    /\ BondTypeOK
    /\ CouncilTypeOK
    /\ OracleTypeOK

-----------------------------------------------------------------------------
(* Transactions on the registry and the vault.                             *)

OthersThanRegistry == UNCHANGED <<now, tok, vaultVars, councilVars, oracleVars>>

CreateMarket(m)  == create_market(m) /\ OthersThanRegistry
SetStatus(m, s)  == set_status(m, s) /\ OthersThanRegistry
CloseTrading(m)  == close_trading(m) /\ OthersThanRegistry

\* A user calls the vault's lock_bond without the oracle.
LockBond(u, r, m, a, d) ==
    /\ lock_bond(u, r, m, a, d)
    /\ UNCHANGED <<now, registryVars, councilVars, oracleVars>>

SetBondSplit(s) ==
    /\ "split" \in GovActs
    /\ set_bond_split(s)
    /\ UNCHANGED <<now, tok, registryVars, councilVars, oracleVars>>

-----------------------------------------------------------------------------
(* Transactions on the oracle.                                             *)

RequestResolution(m) == request_resolution(m) /\ UNCHANGED now

\* A proposal leaves room under MaxTime for the longest dispute.
ProposeOutcome(u, r, o) ==
    /\ request[r].status = "Requested"
    /\ now + 3 * DisputeWindow[request[r].market] < MaxTime
    /\ propose_outcome(u, r, o)
    /\ UNCHANGED now

DisputeOutcome(u, r, o)  == dispute_outcome(u, r, o) /\ UNCHANGED now
FinalizeUndisputed(r)    == finalize_undisputed(r) /\ UNCHANGED now
EscalateToCouncil(r)     == escalate_to_council(r) /\ UNCHANGED now

PauseOracle(p) ==
    /\ "pause" \in GovActs
    /\ pause_oracle(p)
    /\ UNCHANGED <<now, tok, registryVars, vaultVars, councilVars>>

-----------------------------------------------------------------------------
(* Transactions on the council.                                            *)

OthersThanCouncil == UNCHANGED <<now, registryVars, vaultVars, oracleVars>>

CommitVote(v, c, o) == commit_vote(v, c, o) /\ OthersThanCouncil /\ UNCHANGED tok
RevealVote(v, c, o) == reveal_vote(v, c, o) /\ OthersThanCouncil /\ UNCHANGED tok
ClaimReward(v, c)   == claim_reward(v, c) /\ OthersThanCouncil

FinalizeCase(c) ==
    /\ LoneFinalize
    /\ finalize_case(c)
    /\ OthersThanCouncil
    /\ UNCHANGED <<tok, rewardPool>>

\* The host refuses a call to a contract that is already on the call stack.
\* report_council_outcome, entered from the council, calls case_for_request
\* and record_case_reward of the council when a side won and the council's
\* share of the losing bond is positive.
HostAccepts(r, outcome) ==
    \/ ReentryAllowed
    \/ outcome \notin {request[r].proposed_outcome, request[r].disputed_outcome}
    \/ losing_bond_split(RequestBond(r)).council = 0

FinalizeAndReportCase(c) ==
    LET outcome == Tally(kase[c].votes)
    IN  /\ finalize_case(c)
        /\ HostAccepts(kase[c].request, outcome)
        /\ report_council_outcome(kase[c].request, outcome)
        /\ UNCHANGED now

SweepCaseReward(c) == "sweep" \in GovActs /\ sweep_case_reward(c) /\ OthersThanCouncil

SetMember(v, b) ==
    /\ "member" \in GovActs
    /\ set_member(v, b)
    /\ OthersThanCouncil
    /\ UNCHANGED tok

PauseCouncil(p) ==
    /\ "pause" \in GovActs
    /\ pause_council(p)
    /\ OthersThanCouncil
    /\ UNCHANGED tok

-----------------------------------------------------------------------------
\* Ledger time.  Under MaxTime a disputed request keeps room for its vote.
Tick ==
    /\ now < MaxTime
    /\ \A r \in RequestIds : request[r].status = "Disputed" =>
          now + 1 + 2 * DisputeWindow[request[r].market] < MaxTime
    /\ now' = now + 1
    /\ UNCHANGED <<tok, registryVars, vaultVars, councilVars, oracleVars>>

Next ==
    \/ \E m \in Markets : CreateMarket(m) \/ CloseTrading(m) \/ RequestResolution(m)
    \/ \E m \in Markets, s \in MarketStatuses : SetStatus(m, s)
    \/ \E u \in Users, r \in RequestIds, m \in Markets, a \in DirectAmounts, d \in BOOLEAN :
          LockBond(u, r, m, a, d)
    \/ \E s \in Splits : SetBondSplit(s)
    \/ \E u \in Users, r \in RequestIds, o \in Outcomes :
          ProposeOutcome(u, r, o) \/ DisputeOutcome(u, r, o)
    \/ \E r \in RequestIds : FinalizeUndisputed(r) \/ EscalateToCouncil(r)
    \/ \E v \in Members, c \in CaseIds, o \in Outcomes :
          CommitVote(v, c, o) \/ RevealVote(v, c, o)
    \/ \E c \in CaseIds : FinalizeCase(c) \/ FinalizeAndReportCase(c) \/ SweepCaseReward(c)
    \/ \E v \in Members, c \in CaseIds : ClaimReward(v, c)
    \/ \E v \in Members, b \in BOOLEAN : SetMember(v, b)
    \/ \E p \in BOOLEAN : PauseOracle(p) \/ PauseCouncil(p)
    \/ Tick

Spec == Init /\ [][Next]_vars

\* Time passes, and for each step that the contracts leave open to anyone
\* ("intentional keeper path") some keeper eventually takes it.
Fairness ==
    /\ WF_vars(Tick)
    /\ \A r \in RequestIds : WF_vars(FinalizeUndisputed(r)) /\ WF_vars(EscalateToCouncil(r))
    /\ \A c \in CaseIds : WF_vars(FinalizeAndReportCase(c))

FairSpec == Spec /\ Fairness

-----------------------------------------------------------------------------
(* Properties.                                                             *)

\* The registry status that goes with each status of the oracle's request.
RegistryPhase ==
    [Requested |-> "ResolutionRequested", Proposed |-> "Proposed", Disputed |-> "Disputed",
     Escalated |-> "CouncilVoting", Finalized |-> "Resolved"]

\* The registry and the oracle agree on where a market is: a market has a
\* request exactly from ResolutionRequested on, both contracts know it by the
\* same id, their statuses correspond, and a resolved market carries the
\* outcome of its request (mark_*, set_final_outcome and the request's own
\* writes are separate writes of several transactions).
AgreesAt(m) ==
    LET r == marketRequest[m]
        s == market[m].status
    IN  /\ r = 0 => s \in {"None", "Live", "Paused", "TradingClosed", "Cancelled"}
        /\ r # 0 =>
             /\ request[r].status # "None"
             /\ request[r].market = m
             /\ market[m].has_request /\ market[m].request_id = r
             /\ s = RegistryPhase[request[r].status]
             /\ s = "Resolved" => market[m].has_final_outcome
             /\ s = "Resolved" => market[m].final_outcome = request[r].final_outcome

PhaseAgreement == \A m \in Markets : AgreesAt(m)

\* Bonds follow the request: a live proposal and a live dispute each hold the
\* market's full bond in the vault, and once the request is finalized by any
\* path (undisputed, either side winning, neither) nothing of them is left.
HoldsFullBond(k, r) ==
    bond[k].exists /\ bond[k].amount = RequestBond(r) /\ bond[k].market = request[r].market

BondsFollowRequest ==
    \A r \in RequestIds :
      LET q == request[r]
      IN  /\ q.status \in {"Proposed", "Disputed", "Escalated"} => HoldsFullBond(ProposalKey(r), r)
          /\ q.status \in {"Disputed", "Escalated"} => HoldsFullBond(DisputeKey(r), r)
          /\ q.status = "Finalized" => bond[ProposalKey(r)].amount = 0
          /\ q.status = "Finalized" /\ q.has_dispute => bond[DisputeKey(r)].amount = 0

BondAmounts(b) == [k \in BondKeys |-> b[k].amount]
MarketBonds(b, m, d) ==
    [k \in BondKeys |-> IF k[3] = d /\ b[k].market = m THEN b[k].amount ELSE 0]

Covers(balance, total, b) ==
    /\ balance = SumFunctionOnSet(BondAmounts(b), BondKeys)
    /\ \A m \in Markets, d \in BOOLEAN :
         total[m][d] = SumFunctionOnSet(MarketBonds(b, m, d), BondKeys)

\* The vault holds exactly the bonds it has recorded, and the accounting of
\* each market is the sum of the bonds recorded for it, across direct locks,
\* releases and slashes.
VaultCoversBonds == Covers(tok["vault"], bondTotal, bond)

Voters(c, o) == {v \in Members : revealed[c][v] = o}

\* The votes of a case are the reveals on record, each bound to what the voter
\* had committed to.
TallyCountsReveals ==
    \A c \in CaseIds :
      /\ \A v \in Members : revealed[c][v] \in {"none", commitment[c][v]}
      /\ \A o \in Outcomes : kase[c].votes[o] = Cardinality(Voters(c, o))

\* What the council still owes for a case: a share to each correct voter who
\* has not claimed, or the whole pool when there is none to claim it.
Unclaimed(c) == Voters(c, kase[c].final_outcome) \ claimed[c]

Owed(c) ==
    IF ~kase[c].has_final_outcome THEN 0
    ELSE IF kase[c].votes[kase[c].final_outcome] = 0 THEN rewardPool[c]
    ELSE RewardShare(c) * Cardinality(Unclaimed(c))

Debts == [c \in CaseIds |-> Owed(c)]

\* The council can always pay every reward it still owes and every pool that
\* governance may recover, whatever was claimed or swept before and however
\* many cases share its balance.
RewardsCovered == tok["council"] >= SumFunctionOnSet(Debts, CaseIds)

\* A dispute is only ever settled by the council: a finalized request that
\* was disputed has the outcome the revealed votes give, also after the fact
\* (the reveal window is over when finalize_case can run), and one that was
\* not disputed has the proposed outcome.
CouncilDecides ==
    \A r \in RequestIds : request[r].status = "Finalized" =>
      IF request[r].has_dispute
      THEN /\ requestCase[r] # 0
           /\ kase[requestCase[r]].request = r
           /\ request[r].final_outcome = kase[requestCase[r]].final_outcome
           /\ request[r].final_outcome = Tally(kase[requestCase[r]].votes)
      ELSE request[r].final_outcome = request[r].proposed_outcome

\* Ballots stay sealed: once one vote of a case is revealed, no commitment of
\* that case is made any more, so nobody votes knowing a revealed vote.
CommitmentsClosed ==
    \A c \in CaseIds :
      (\E v \in Members : revealed[c][v] # "none") => commitment'[c] = commitment[c]

SealedBallots == [][CommitmentsClosed]_vars

\* A final outcome, once set in the registry, the oracle or a council case, is
\* never changed or unset by a later step.
KeepsOutcome(old, new) ==
    old.has_final_outcome =>
      new.has_final_outcome /\ new.final_outcome = old.final_outcome

OutcomesKept ==
    /\ \A m \in Markets : KeepsOutcome(market[m], market'[m])
    /\ \A r \in RequestIds : KeepsOutcome(request[r], request'[r])
    /\ \A c \in CaseIds : KeepsOutcome(kase[c], kase'[c])

OutcomesAreFinal == [][OutcomesKept]_vars

\* What the money contracts see of the markets: the phases and verdicts of
\* MarketLifecycle, computed from the registry's record and the clock as
\* is_tradeable, get_status and get_final_outcome do.
LifePhase ==
    [m \in Markets |->
       CASE market[m].status = "Live" -> IF now < Expiry[m] THEN "Live" ELSE "Expired"
         [] market[m].status = "Paused" -> "Halted"
         [] market[m].status \in {"None", "Resolved", "Cancelled"} -> market[m].status
         [] OTHER -> "Closed"]

LifeVerdict ==
    [m \in Markets |-> IF market[m].has_final_outcome THEN market[m].final_outcome ELSE "none"]

Lifecycle == INSTANCE MarketLifecycle WITH phase <- LifePhase, verdict <- LifeVerdict

\* The resolution of markets implements MarketLifecycle: whatever the oracle,
\* the council, users and operational governance do, a market is never traded
\* again once it is closed, is never both resolved and cancelled, leaves
\* neither, and gets its one verdict in the step that resolves it.
LifecycleImplemented == Lifecycle!LifecycleSpec

\* finalize_and_report_case never meets an error in the contracts it calls:
\* whenever the tally of an escalated request is due, every check on the way
\* (bonds, shares, vault balance, registry status, host) passes.
ReportNeverBlocked ==
    \A c \in CaseIds : CanFinalize(c) =>
      /\ CanReport(kase[c].request, Tally(kase[c].votes))
      /\ HostAccepts(kase[c].request, Tally(kase[c].votes))

\* The two ways in which an escalated request is left without its report: its
\* case was finalized on its own (finalize_case is public, and the case is
\* not finalized again), or the report that is due would call back into the
\* council.
FinalizedAlone(r) == request[r].status = "Escalated" /\ kase[requestCase[r]].has_final_outcome

HostRefuses(r) ==
    LET c == requestCase[r]
    IN  /\ request[r].status = "Escalated" /\ CanFinalize(c)
        /\ ~HostAccepts(r, Tally(kase[c].votes))

\* Nothing that was proposed stays open for any other reason: every proposal is
\* finalized, by the end of its dispute window or by the council, or ends up in
\* one of those two ways, whatever is paused, voted, or set as the split.
ProposalsSettle ==
    \A r \in RequestIds :
      request[r].status = "Proposed"
        ~> request[r].status = "Finalized" \/ FinalizedAlone(r) \/ HostRefuses(r)
=============================================================================
