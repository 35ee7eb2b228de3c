------------------------ MODULE TransactionExecutor ------------------------
(***************************************************************************)
(* How dike-web carries out a write (lib/stellar/execute.ts): ask the      *)
(* service for its mode, build and simulate the call, have the wallet sign *)
(* it, then post it to the sponsorship service through the proxy route or  *)
(* submit it to the RPC and poll.  The user may try again after a failure. *)
(***************************************************************************)
EXTENDS FeeSponsorship

CONSTANT PollTime   \* the 60 polls of submitAndPoll, in ticks

ASSUME ExecutorAssumption == PollTime \in Nat

VARIABLES
    exec,   \* [Users -> the execution of its current attempt]
    shown   \* [Transactions -> who pays the fee, as its signer was told]

executorVars == <<exec, shown>>

Phases == {"idle", "selecting", "building", "signing", "sponsoring", "submitting", "polling",
           "success", "failed"}
Running == Phases \ {"idle", "success", "failed"}

NotStarted == [phase |-> "idle", attempt |-> 0, mode |-> "none",
               request |-> NoRequest, wait |-> 0]

ExecutorTypeOK ==
    /\ exec \in [Users -> [phase : Phases, attempt : 0..MaxAttempts,
                           mode : {"none", "direct", "sponsored"},
                           request : Requests \cup {NoRequest}, wait : 0..PollTime]]
    /\ shown \in [Transactions -> {"none", "wallet", "sponsor"}]

InitExecutor ==
    /\ exec = [u \in Users |-> NotStarted]
    /\ shown = [t \in Transactions |-> "none"]

CurrentTx(u) == <<u, exec[u].attempt>>

-----------------------------------------------------------------------------
(* The writes of lib/contracts/clients.ts, as <<contract, method>>. *)

AmmCalls ==
    {"amm"} \X {"buy_yes", "buy_no", "buy_child_yes", "buy_child_no", "sell_yes", "sell_no",
                "add_liquidity", "remove_liquidity", "claim_lp_fees"}
VaultCalls == {"collateral_vault"} \X {"redeem_resolved", "redeem_cancelled"}
SweepCall == <<"collateral_vault", "sweep_protocol_fees">>
RegistryCall == <<"market_registry", "close_trading">>
OracleCalls ==
    {"cod_oracle"} \X {"request_resolution", "propose_outcome", "dispute_outcome",
                       "finalize_undisputed", "escalate_to_council"}
CouncilCalls ==
    {"council_of_dike"} \X {"commit_vote", "reveal_vote", "finalize_and_report_case", "claim_reward"}
TimelockCall == <<"dike_timelock", "execute">>
FactoryCall == <<"market_factory", "create_market">>

AppCalls == AmmCalls \cup VaultCalls \cup OracleCalls \cup CouncilCalls
              \cup {SweepCall, RegistryCall, TimelockCall, FactoryCall}

-----------------------------------------------------------------------------
(* executeTransaction. *)

Fails(u) == exec' = [exec EXCEPT ![u].phase = "failed", ![u].request = NoRequest, ![u].wait = 0]
Succeeds(u) == exec' = [exec EXCEPT ![u].phase = "success", ![u].request = NoRequest, ![u].wait = 0]

\* The user starts a write, or tries again after it failed.
Start(u) ==
    /\ exec[u].phase \in {"idle", "failed"} /\ exec[u].attempt < MaxAttempts
    /\ exec' = [exec EXCEPT ![u] = [NotStarted EXCEPT !.phase = "selecting", !.attempt = exec[u].attempt + 1]]
    /\ UNCHANGED <<networkVars, sponsorVars, shown>>

\* selectMode: an enabled service is available, a disabled one says so.
SelectMode(u) ==
    /\ exec[u].phase = "selecting"
    /\ exec' = [exec EXCEPT ![u].phase = "building",
                            ![u].mode = IF enabled THEN "sponsored" ELSE "direct"]
    /\ UNCHANGED <<networkVars, sponsorVars, shown>>

\* The status cannot be had, the simulation fails, or the user does not sign.
GiveUp(u) ==
    /\ exec[u].phase \in {"selecting", "building", "signing"}
    /\ Fails(u)
    /\ UNCHANGED <<networkVars, sponsorVars, shown>>

\* buildAndSimulate: the next sequence number of the account, with a time
\* bound and the resource fee the simulation found.
buildAndSimulate(u) ==
    /\ exec[u].phase = "building"
    /\ \E f \in ResourceFees :
         tx' = [tx EXCEPT ![CurrentTx(u)] = [NoTx EXCEPT !.state = "built", !.seq = seq[u] + 1,
                                                         !.valid = Validity, !.resource = f]]
    /\ exec' = [exec EXCEPT ![u].phase = "signing"]
    /\ UNCHANGED <<seq, sponsorVars, shown>>

\* The confirmation says who pays the network fee.
Sign(u) ==
    LET sponsored == exec[u].mode = "sponsored" IN
    /\ exec[u].phase = "signing"
    /\ exec' = [exec EXCEPT ![u].phase = IF sponsored THEN "sponsoring" ELSE "submitting"]
    /\ shown' = [shown EXCEPT ![CurrentTx(u)] = IF sponsored THEN "sponsor" ELSE "wallet"]
    /\ UNCHANGED <<networkVars, sponsorVars>>

\* The proxy route forwards the signed transaction to the service.
Post(u) ==
    /\ exec[u].phase = "sponsoring" /\ exec[u].request = NoRequest
    /\ Arrive(CurrentTx(u), AppCalls)
    /\ exec' = [exec EXCEPT ![u].request = Slot]
    /\ UNCHANGED <<networkVars, faults, shown>>

\* Mutant: a refused sponsorship falls back to submitting directly.
AnsweredOrDirect(u) ==
    LET r == exec[u].request IN
    /\ exec[u].phase = "sponsoring" /\ r # NoRequest
    /\ req[r].pc = "answered"
    /\ IF req[r].code = "success" THEN Succeeds(u)
       ELSE exec' = [exec EXCEPT ![u].phase = "submitting", ![u].request = NoRequest]
    /\ req' = [req EXCEPT ![r] = Idle]
    /\ UNCHANGED <<networkVars, enabled, redisVars, day, spent, faults, shown>>

\* The answer comes back through the proxy.
Answered(u) ==
    LET r == exec[u].request IN
    /\ exec[u].phase = "sponsoring" /\ r # NoRequest
    /\ req[r].pc = "answered"
    /\ IF req[r].code = "success" THEN Succeeds(u) ELSE Fails(u)
    /\ req' = [req EXCEPT ![r] = Idle]
    /\ UNCHANGED <<networkVars, enabled, redisVars, day, spent, faults, shown>>

\* The proxy waits 15 seconds, or loses the connection: the page fails while
\* the service works on.
ProxyTimeout(u) ==
    /\ exec[u].phase = "sponsoring"
    /\ exec[u].request # NoRequest => req[exec[u].request].pc # "answered"
    /\ Fails(u)
    /\ UNCHANGED <<networkVars, sponsorVars, shown>>

\* Nobody waits for the answer.
Unheard(r) ==
    /\ req[r].pc = "answered"
    /\ \A u \in Users : exec[u].request # r
    /\ req' = [req EXCEPT ![r] = Idle]
    /\ UNCHANGED <<networkVars, enabled, redisVars, day, spent, faults, executorVars>>

\* A signed transaction is posted once more (a repeated request on the way,
\* or a client that retries with the same XDR).
Repost ==
    /\ faults < MaxFaults
    /\ faults' = faults + 1
    /\ \E t \in Transactions : shown[t] = "sponsor" /\ Arrive(t, AppCalls)
    /\ UNCHANGED <<networkVars, executorVars>>

\* submitAndPoll: only ERROR is a rejection.
Submit(u) ==
    LET t == CurrentTx(u) IN
    /\ exec[u].phase = "submitting"
    /\ tx' = Sent(t, "wallet")
    /\ IF SendStatus(t) = "ERROR" THEN Fails(u)
       ELSE exec' = [exec EXCEPT ![u].phase = "polling", ![u].wait = PollTime]
    /\ UNCHANGED <<seq, sponsorVars, shown>>

\* The call to the RPC fails, with the transaction delivered or not.
SubmitFails(u) ==
    /\ exec[u].phase = "submitting" /\ faults < MaxFaults
    /\ faults' = faults + 1
    /\ tx' \in {tx, Sent(CurrentTx(u), "wallet")}
    /\ Fails(u)
    /\ UNCHANGED <<seq, enabled, redisVars, day, spent, req, shown>>

PollDirect(u) ==
    LET status == GetStatus(CurrentTx(u)) IN
    /\ exec[u].phase = "polling"
    /\ status # "NOT_FOUND" \/ exec[u].wait = 0
    /\ IF status = "SUCCESS" THEN Succeeds(u) ELSE Fails(u)
    /\ UNCHANGED <<networkVars, sponsorVars, shown>>

\* One of the polls fails.
PollDirectFails(u) ==
    /\ exec[u].phase = "polling" /\ faults < MaxFaults
    /\ faults' = faults + 1
    /\ Fails(u)
    /\ UNCHANGED <<networkVars, enabled, redisVars, day, spent, req, shown>>

ExecutorStep(u) ==
    \/ SelectMode(u) \/ buildAndSimulate(u) \/ Sign(u)
    \/ Post(u) \/ Answered(u) \/ ProxyTimeout(u)
    \/ Submit(u) \/ SubmitFails(u)
    \/ PollDirect(u) \/ PollDirectFails(u)

TickExecutor ==
    /\ exec' = [u \in Users |-> [exec[u] EXCEPT !.wait = CountDown(@)]]
    /\ UNCHANGED shown

\* A restart of the service breaks the connections to it.
HangUp ==
    /\ exec' = [u \in Users |->
                  IF exec[u].request = NoRequest THEN exec[u]
                  ELSE [exec[u] EXCEPT !.phase = "failed", !.request = NoRequest]]
    /\ UNCHANGED shown
=============================================================================
