--------------------------- MODULE ResolutionDesk ---------------------------
(***************************************************************************)
(* The resolution of a market as dike-web offers it: the sections of       *)
(* features/resolution/ResolutionPanel.tsx and features/council/           *)
(* VoteForm.tsx and the buttons they show, over the contracts of           *)
(* Resolution.  The pages read the contracts' state as the services copy   *)
(* it (jobs/reconciliation.ts); its delay is left out.                     *)
(***************************************************************************)
EXTENDS MarketApi

VARIABLE stored    \* localStorage: the outcome a voter's browser keeps for a case

deskVars == <<vars, stored>>

WindowOfTwo == [m \in Markets |-> 2]

DeskInit == Init /\ stored = [c \in CaseIds |-> [v \in Members |-> "none"]]

-----------------------------------------------------------------------------
(* ResolutionPanel: the buttons of the sections that are shown.            *)

ResolutionClick ==
    /\ \/ \E m \in Markets : RequestSection(m) /\ RequestResolution(m)
       \/ \E u \in Users, r \in RequestIds, o \in Outcomes :
             \/ ProposeSection(r) /\ ProposeOutcome(u, r, o)
             \/ DisputeSection(r) /\ DisputeOutcome(u, r, o)
       \/ \E r \in RequestIds :
             \/ FinalizeSection(r) /\ FinalizeUndisputed(r)
             \/ EscalateSection(r) /\ EscalateToCouncil(r)
    /\ UNCHANGED stored

-----------------------------------------------------------------------------
(* VoteForm: the sections depend on the status of the case.                *)

CommitSection(c)   == kase[c].status = "CommitPhase" /\ now < kase[c].commit_end
RevealSection(c)   ==
    kase[c].status = "RevealPhase" /\ now >= kase[c].commit_end /\ now < kase[c].reveal_end
FinalizeCaseSection(c) == kase[c].status = "ReadyToFinalize"
ClaimSection(c)    == kase[c].status = "Finalized"

\* handleCommit: the salt is stored first, then the transaction is sent.
HandleCommit(v, c, o) ==
    /\ CommitSection(c)
    /\ stored' = [stored EXCEPT ![c][v] = o]
    /\ CommitVote(v, c, o) \/ UNCHANGED vars

\* loadStoredReveal and the reveal button.
HandleReveal(v, c) ==
    /\ RevealSection(c)
    /\ stored[c][v] # "none"
    /\ RevealVote(v, c, stored[c][v])
    /\ UNCHANGED stored

VoteClick ==
    \/ \E v \in Members, c \in CaseIds, o \in Outcomes : HandleCommit(v, c, o)
    \/ \E v \in Members, c \in CaseIds :
          HandleReveal(v, c) \/ (ClaimSection(c) /\ ClaimReward(v, c) /\ UNCHANGED stored)
    \/ \E c \in CaseIds :
          FinalizeCaseSection(c) /\ FinalizeAndReportCase(c) /\ UNCHANGED stored

\* Market creation and the close button, and the passing of time.
Background ==
    /\ Tick \/ \E m \in Markets : CreateMarket(m) \/ (isExpired(m) /\ CloseTrading(m))
    /\ UNCHANGED stored

DeskNext == ResolutionClick \/ VoteClick \/ Background

DeskSpec == DeskInit /\ [][DeskNext]_deskVars

(***************************************************************************)
(* The council page lets a member reveal what it committed: while the      *)
(* reveal window is open (README.md:195, "Council commit-reveal voting and *)
(* reward claims"), a committed vote that is not yet revealed has its      *)
(* reveal section on the page.                                             *)
(***************************************************************************)
VotesCanBeRevealed ==
    \A c \in CaseIds, v \in Members :
        (/\ commitment[c][v] # "none" /\ revealed[c][v] = "none"
         /\ kase[c].commit_end < now /\ now < kase[c].reveal_end) => RevealSection(c)
=============================================================================
