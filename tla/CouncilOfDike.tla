--------------------------- MODULE CouncilOfDike ---------------------------
(***************************************************************************)
(* CouncilOfDike (contracts/council_of_dike): commit-reveal voting on      *)
(* disputed requests and the reward pool of each case.  Each operator is   *)
(* the effect of one entry point on the council's own storage.             *)
(***************************************************************************)
EXTENDS BondVault, FiniteSets

CONSTANT MaxCases    \* bound: how many cases are ever opened

CaseIds == 1 .. MaxCases

ASSUME CouncilAssumption == MaxCases \in Nat

VARIABLES
    kase,            \* CouncilCase, by id
    requestCase,     \* RequestCase(request_id), 0 when unset
    nextCaseId,
    member,          \* the accounts whose Member flag is set
    councilPaused,
    commitment,      \* Commit(case, voter): the outcome sealed in the hash
    revealed,        \* Reveal(case, voter)
    claimed,         \* Claimed(case, voter)
    rewardPool       \* CaseRewardPool(case)

ballotVars  == <<commitment, revealed>>
councilVars == <<kase, requestCase, nextCaseId, member, councilPaused, ballotVars,
                 claimed, rewardPool>>

\* A commitment is sha256(case, voter, outcome, salt): it binds the voter to
\* one outcome and shows nothing of it, so the outcome itself stands for it.
Ballots == Outcomes \cup {"none"}

CaseRecord ==
    [status : {"None", "CommitPhase", "Finalized"}, request : Nat,
     commit_end : Nat, reveal_end : Nat, votes : [Outcomes -> Nat],
     has_final_outcome : BOOLEAN, final_outcome : Outcomes]

NoCase ==
    [status |-> "None", request |-> 0, commit_end |-> 0, reveal_end |-> 0,
     votes |-> [o \in Outcomes |-> 0], has_final_outcome |-> FALSE,
     final_outcome |-> "Invalid"]

CouncilInit ==
    /\ kase = [c \in CaseIds |-> NoCase]
    /\ requestCase = [r \in RequestIds |-> 0]
    /\ nextCaseId = 1
    /\ member = Members
    /\ councilPaused = FALSE
    /\ commitment = [c \in CaseIds |-> [v \in Members |-> "none"]]
    /\ revealed = [c \in CaseIds |-> [v \in Members |-> "none"]]
    /\ claimed = [c \in CaseIds |-> {}]
    /\ rewardPool = [c \in CaseIds |-> 0]

CouncilTypeOK ==
    /\ kase \in [CaseIds -> CaseRecord]
    /\ requestCase \in [RequestIds -> CaseIds \cup {0}]
    /\ nextCaseId \in Nat \ {0}
    /\ member \subseteq Members
    /\ councilPaused \in BOOLEAN
    /\ commitment \in [CaseIds -> [Members -> Ballots]]
    /\ revealed \in [CaseIds -> [Members -> Ballots]]
    /\ claimed \in [CaseIds -> SUBSET Members]
    /\ rewardPool \in [CaseIds -> Nat]

\* Faulty variant: the request is tied to the counter after its increment.
open_case_late_id(r, duration) ==
    /\ requestCase[r] = 0
    /\ nextCaseId \in CaseIds
    /\ kase' = [kase EXCEPT ![nextCaseId] =
                  [NoCase EXCEPT !.status = "CommitPhase", !.request = r,
                                 !.commit_end = now + duration,
                                 !.reveal_end = now + duration + duration]]
    /\ nextCaseId' = nextCaseId + 1
    /\ requestCase' = [requestCase EXCEPT ![r] = nextCaseId + 1]
    /\ UNCHANGED <<member, councilPaused, ballotVars, claimed, rewardPool>>

\* open_case, called by the oracle only: one case per request.
open_case(r, duration) ==
    /\ requestCase[r] = 0
    /\ nextCaseId \in CaseIds
    /\ kase' = [kase EXCEPT ![nextCaseId] =
                  [NoCase EXCEPT !.status = "CommitPhase", !.request = r,
                                 !.commit_end = now + duration,
                                 !.reveal_end = now + duration + duration]]
    /\ requestCase' = [requestCase EXCEPT ![r] = nextCaseId]
    /\ nextCaseId' = nextCaseId + 1
    /\ UNCHANGED <<member, councilPaused, ballotVars, claimed, rewardPool>>

\* Faulty variant: no end of the commit phase.
commit_vote_no_deadline(v, c, outcome) ==
    /\ ~councilPaused
    /\ v \in member
    /\ kase[c].status = "CommitPhase"
    /\ commitment[c][v] = "none"
    /\ commitment' = [commitment EXCEPT ![c][v] = outcome]
    /\ UNCHANGED <<kase, requestCase, nextCaseId, member, councilPaused, revealed,
                   claimed, rewardPool>>

commit_vote(v, c, outcome) ==
    /\ ~councilPaused
    /\ v \in member
    /\ kase[c].status = "CommitPhase"
    /\ now <= kase[c].commit_end
    /\ commitment[c][v] = "none"
    /\ commitment' = [commitment EXCEPT ![c][v] = outcome]
    /\ UNCHANGED <<kase, requestCase, nextCaseId, member, councilPaused, revealed,
                   claimed, rewardPool>>

\* Faulty variants: a vote counted after the reveal phase, a vote counted twice.
reveal_vote_no_deadline(v, c, outcome) ==
    /\ ~councilPaused
    /\ v \in member
    /\ kase[c].status # "None"
    /\ now > kase[c].commit_end
    /\ commitment[c][v] = outcome
    /\ revealed[c][v] = "none"
    /\ revealed' = [revealed EXCEPT ![c][v] = outcome]
    /\ kase' = [kase EXCEPT ![c].votes[outcome] = @ + 1]
    /\ UNCHANGED <<requestCase, nextCaseId, member, councilPaused, commitment,
                   claimed, rewardPool>>

reveal_vote_twice(v, c, outcome) ==
    /\ ~councilPaused
    /\ v \in member
    /\ kase[c].status # "None"
    /\ now > kase[c].commit_end
    /\ now <= kase[c].reveal_end
    /\ commitment[c][v] = outcome
    /\ revealed' = [revealed EXCEPT ![c][v] = outcome]
    /\ kase' = [kase EXCEPT ![c].votes[outcome] = @ + 1]
    /\ UNCHANGED <<requestCase, nextCaseId, member, councilPaused, commitment,
                   claimed, rewardPool>>

\* The status never becomes RevealPhase: the reveal window is the clock's.
reveal_vote(v, c, outcome) ==
    /\ ~councilPaused
    /\ v \in member
    /\ kase[c].status # "None"
    /\ now > kase[c].commit_end
    /\ now <= kase[c].reveal_end
    /\ commitment[c][v] = outcome
    /\ revealed[c][v] = "none"
    /\ revealed' = [revealed EXCEPT ![c][v] = outcome]
    /\ kase' = [kase EXCEPT ![c].votes[outcome] = @ + 1]
    /\ UNCHANGED <<requestCase, nextCaseId, member, councilPaused, commitment,
                   claimed, rewardPool>>

\* A strict plurality of YES or of NO wins; ties and silence are Invalid.
Tally(votes) ==
    IF votes["Yes"] > votes["No"] /\ votes["Yes"] > votes["Invalid"] THEN "Yes"
    ELSE IF votes["No"] > votes["Yes"] /\ votes["No"] > votes["Invalid"] THEN "No"
    ELSE "Invalid"

\* Faulty variant: waits for a status that nothing ever sets.
CanFinalize_in_reveal_phase(c) ==
    /\ kase[c].status = "RevealPhase"
    /\ ~kase[c].has_final_outcome
    /\ now > kase[c].reveal_end

CanFinalize(c) ==
    /\ kase[c].status # "None"
    /\ ~kase[c].has_final_outcome
    /\ now > kase[c].reveal_end

\* finalize_case: public, and reports nothing to the oracle.
finalize_case(c) ==
    /\ CanFinalize(c)
    /\ kase' = [kase EXCEPT ![c].has_final_outcome = TRUE,
                            ![c].final_outcome = Tally(kase[c].votes),
                            ![c].status = "Finalized"]
    /\ UNCHANGED <<requestCase, nextCaseId, member, councilPaused, ballotVars, claimed>>

\* The share of the pool each correct voter is owed; the pool is not
\* decremented, the Claimed flag is what stops a second payment.
RewardShare(c) ==
    LET correct == kase[c].votes[kase[c].final_outcome]
    IN  IF rewardPool[c] > 0 /\ correct > 0 THEN rewardPool[c] \div correct ELSE 0

\* Faulty variant: the Claimed flag is set and never read.
claim_reward_again(v, c) ==
    LET payout == IF revealed[c][v] = kase[c].final_outcome THEN RewardShare(c) ELSE 0
    IN  /\ kase[c].has_final_outcome
        /\ revealed[c][v] # "none"
        /\ CanTransfer(tok, "council", payout)
        /\ tok' = Transferred(tok, "council", v, payout)
        /\ claimed' = [claimed EXCEPT ![c] = @ \cup {v}]
        /\ UNCHANGED <<kase, requestCase, nextCaseId, member, councilPaused, ballotVars,
                       rewardPool>>

\* Faulty variant: the case is removed when its reward is claimed.
claim_reward_forgets_case(v, c) ==
    LET payout == IF revealed[c][v] = kase[c].final_outcome THEN RewardShare(c) ELSE 0
    IN  /\ kase[c].has_final_outcome
        /\ revealed[c][v] # "none"
        /\ v \notin claimed[c]
        /\ CanTransfer(tok, "council", payout)
        /\ tok' = Transferred(tok, "council", v, payout)
        /\ claimed' = [claimed EXCEPT ![c] = @ \cup {v}]
        /\ kase' = [kase EXCEPT ![c] = NoCase]
        /\ UNCHANGED <<requestCase, nextCaseId, member, councilPaused, ballotVars, rewardPool>>

claim_reward(v, c) ==
    LET payout == IF revealed[c][v] = kase[c].final_outcome THEN RewardShare(c) ELSE 0
    IN  /\ kase[c].has_final_outcome
        /\ revealed[c][v] # "none"
        /\ v \notin claimed[c]
        /\ CanTransfer(tok, "council", payout)
        /\ tok' = Transferred(tok, "council", v, payout)
        /\ claimed' = [claimed EXCEPT ![c] = @ \cup {v}]
        /\ UNCHANGED <<kase, requestCase, nextCaseId, member, councilPaused, ballotVars,
                       rewardPool>>

\* Governance: recover a pool that no voter can claim.
sweep_case_reward(c) ==
    /\ kase[c].has_final_outcome
    /\ kase[c].votes[kase[c].final_outcome] = 0
    /\ rewardPool[c] > 0
    /\ CanTransfer(tok, "council", rewardPool[c])
    /\ tok' = Transferred(tok, "council", "treasury", rewardPool[c])
    /\ rewardPool' = [rewardPool EXCEPT ![c] = 0]
    /\ UNCHANGED <<kase, requestCase, nextCaseId, member, councilPaused, ballotVars, claimed>>

\* Governance: set_member and pause.
set_member(v, approved) ==
    /\ member' = IF approved THEN member \cup {v} ELSE member \ {v}
    /\ UNCHANGED <<kase, requestCase, nextCaseId, councilPaused, ballotVars, claimed, rewardPool>>

pause_council(p) ==
    /\ councilPaused' = p
    /\ UNCHANGED <<kase, requestCase, nextCaseId, member, ballotVars, claimed, rewardPool>>
=============================================================================
