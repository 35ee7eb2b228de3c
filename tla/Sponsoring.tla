----------------------------- MODULE Sponsoring -----------------------------
(***************************************************************************)
(* Sponsored writes end to end: the executor of dike-web, the sponsorship  *)
(* service and its Redis, and the network.                                 *)
(***************************************************************************)
EXTENDS TransactionExecutor, Functions

vars == <<networkVars, sponsorVars, executorVars>>

TypeOK == NetworkTypeOK /\ SponsorTypeOK /\ ExecutorTypeOK

Init == InitNetwork /\ InitSponsorship /\ InitExecutor

\* Time passes for every timer at once.
Tick ==
    /\ \/ \E t \in Transactions : tx[t].valid + lock[t].ttl + result[t].ttl > 0
       \/ \E r \in Requests : req[r].wait > 0
       \/ \E u \in Users : exec[u].wait > 0
    /\ TickNetwork /\ TickSponsorship /\ TickExecutor

Ledger == \E t \in Transactions : Include(t) /\ UNCHANGED <<sponsorVars, executorVars>>
Handling(r) == HandlerStep(r) /\ UNCHANGED executorVars
Faulting(r) == HandlerFault(r) /\ UNCHANGED executorVars
Calendar == (NextMinute \/ NextDay) /\ UNCHANGED <<networkVars, executorVars>>
Restarting == Restart /\ HangUp /\ UNCHANGED networkVars

Next ==
    \/ Tick \/ Ledger \/ Calendar \/ Restarting \/ Repost
    \/ \E r \in Requests : Handling(r) \/ Faulting(r) \/ Unheard(r)
    \/ \E u \in Users : Start(u) \/ GiveUp(u) \/ ExecutorStep(u)

Spec == Init /\ [][Next]_vars

-----------------------------------------------------------------------------
\* What the sponsor bids for each transaction.
Fees == [t \in Transactions |-> OuterFee(t)]

\* The declared fees of all transactions sent on the reservations of a day
\* stay within the budget of that day: whatever requests run side by side,
\* fail, crash, or end on another day than they were reserved on.
BudgetCoversSubmissions ==
    \A d \in 1..MaxDays : SumFunctionOnSet(Fees, spent[d]) <= DailyBudget

\* A success is never made up: what the page reports and what the service
\* keeps for replays is in a ledger, with its call carried out.
SuccessIsApplied ==
    /\ \A u \in Users : exec[u].phase = "success" => tx[CurrentTx(u)].state = "applied"
    /\ \A t \in Transactions : result[t].status = "success" => tx[t].state = "applied"

\* No wallet pays a network fee for a transaction that its owner signed as
\* paid by the sponsor, even when sponsorship fails or is switched off
\* in between.
NoSilentCharge ==
    \A t \in Transactions : tx[t].payer # "none" => tx[t].payer = shown[t]

\* Every write of the app passes the sponsor's checks while it is valid and
\* its resource fee is within the policy, as long as the sponsor's base fee is
\* not below the flat bid all writes make (transaction.ts:129, fees.ts:25): with
\* a smaller one, which the settings allow, every sponsored write is refused.
AppWritesAccepted ==
    \A r \in Requests :
      req[r].pc = "answered" /\ req[r].code \in {"DISALLOWED", "FEE_LIMIT"} =>
        \/ tx[req[r].tx].resource > MaxResourceFee
        \/ OuterFee(req[r].tx) > MaxTotalFee
        \/ BaseFee < INCLUSION_FEE_CEILING
=============================================================================
