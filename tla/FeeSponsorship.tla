--------------------------- MODULE FeeSponsorship ---------------------------
(***************************************************************************)
(* The fee sponsorship of dike-services (src/sponsorship): requests for    *)
(* signed inner transactions run side by side, over one Redis that keeps   *)
(* the replay locks and results, the quotas and the daily budget.  One     *)
(* action per await of FeeSponsorshipService.sponsor.                      *)
(***************************************************************************)
EXTENDS StellarNetwork

CONSTANTS
    Requests,             \* requests the service works on at a time, a bound
    NoRequest,
    BaseFee, MaxTotalFee, MaxResourceFee,  \* the fee policy, in stroops
    MaxPerMinute, MaxPerIpMinute,
    DailyBudget,
    LockTtl, ReplayTtl, ConfirmationTimeout,
    MaxDays, MaxFaults    \* bounds

ASSUME SponsorshipAssumption ==
    /\ NoRequest \notin Requests /\ IsFiniteSet(Requests)
    /\ {BaseFee, MaxTotalFee, MaxResourceFee, MaxPerMinute, MaxPerIpMinute} \subseteq Nat
    /\ LockTtl \in Nat /\ ReplayTtl \in Nat /\ ConfirmationTimeout \in Nat
    /\ LockTtl >= ConfirmationTimeout
    /\ DailyBudget \in Nat /\ MaxDays \in Nat \ {0} /\ MaxFaults \in Nat

BASE_FEE == 100           \* the network's minimum inclusion fee

\* What every inner transaction of the web bids.  buildAndSimulate has a lower
\* bid for sponsored writes, but no builder of clients.ts hands the mode on.
INCLUSION_FEE_CEILING == 2000000

VARIABLES
    enabled,   \* FEE_SPONSOR_ENABLED of the running process
    lock,      \* [Transactions -> the Redis lock of its hash]
    result,    \* [Transactions -> the cached terminal result]
    quota,     \* requests counted in this minute, by source and by IP
    day,       \* the UTC day
    budget,    \* [1..MaxDays -> stroops reserved on that day]
    spent,     \* [1..MaxDays -> transactions sent on a reservation of that day]
    req,       \* [Requests -> the state of its handler]
    faults     \* faults, repeated requests and midnights so far

redisVars == <<lock, result, quota, budget>>
sponsorVars == <<enabled, lock, result, quota, day, budget, spent, req, faults>>

Codes == {"DISABLED", "EXPIRED", "DISALLOWED", "FEE_LIMIT", "LIMIT_REACHED", "REPLAY",
          "RPC_REJECTED", "FAILED", "TIMEOUT", "ERROR"}
Results == {"none", "success"} \cup Codes

NoLock == [owner |-> NoRequest, ttl |-> 0]
NoResult == [status |-> "none", ttl |-> 0]
Idle == [pc |-> "free", tx |-> <<>>, code |-> "none", day |-> 0, wait |-> 0]
Pcs == {"free", "lookup", "acquire", "reserve", "send", "poll", "complete", "store",
        "unlock", "giveback", "release", "drop", "answered"}

SponsorTypeOK ==
    /\ enabled \in BOOLEAN /\ day \in 1..MaxDays /\ faults \in 0..MaxFaults
    /\ lock \in [Transactions -> [owner : Requests \cup {NoRequest}, ttl : 0..LockTtl]]
    /\ result \in [Transactions -> [status : Results, ttl : 0..ReplayTtl]]
    /\ quota \in [source : [Users -> 0..MaxPerMinute], ip : 0..MaxPerIpMinute]
    /\ budget \in [1..MaxDays -> 0..DailyBudget]
    /\ spent \in [1..MaxDays -> SUBSET Transactions]
    /\ req \in [Requests -> [pc : Pcs, tx : Transactions \cup {<<>>}, code : Results,
                            day : 0..MaxDays, wait : 0..ConfirmationTimeout]]
    /\ \A r \in Requests : req[r].pc # "free" => req[r].tx \in Transactions

InitSponsorship ==
    /\ enabled \in BOOLEAN
    /\ lock = [t \in Transactions |-> NoLock]
    /\ result = [t \in Transactions |-> NoResult]
    /\ quota = [source |-> [u \in Users |-> 0], ip |-> 0]
    /\ day = 1
    /\ budget = [d \in 1..MaxDays |-> 0]
    /\ spent = [d \in 1..MaxDays |-> {}]
    /\ req = [r \in Requests |-> Idle]
    /\ faults = 0

-----------------------------------------------------------------------------
(* Validation: pure, before the first await. *)

SPONSORED_METHODS ==
    [dike_timelock    |-> {"execute"},
     market_registry  |-> {"close_trading"},
     collateral_vault |-> {"redeem_resolved", "redeem_cancelled", "sweep_protocol_fees"},
     amm              |-> {"buy_yes", "buy_no", "buy_child_yes", "buy_child_no", "sell_yes", "sell_no",
                           "add_liquidity", "remove_liquidity", "claim_lp_fees"},
     cod_oracle       |-> {"request_resolution", "propose_outcome", "dispute_outcome",
                           "finalize_undisputed", "escalate_to_council"},
     council_of_dike  |-> {"commit_vote", "reveal_vote", "finalize_and_report_case", "claim_reward"},
     market_factory   |-> {"create_market"}]

assertAllowedContractCall(call) ==
    call[1] \in DOMAIN SPONSORED_METHODS /\ call[2] \in SPONSORED_METHODS[call[1]]

\* The fee of the fee bump: the inclusion fee for the inner operation and for
\* the bump itself, and the inner transaction's resource fee.
OuterFee(t) == 2 * BaseFee + tx[t].resource

\* Mutant: the inner bid must be below what the sponsor bids, not at it.
StrictQuote(t) ==
    /\ INCLUSION_FEE_CEILING >= BASE_FEE /\ INCLUSION_FEE_CEILING < BaseFee
    /\ tx[t].resource <= MaxResourceFee /\ OuterFee(t) <= MaxTotalFee

quoteSponsoredFee(t) ==
    /\ BaseFee >= BASE_FEE
    /\ INCLUSION_FEE_CEILING >= BASE_FEE /\ INCLUSION_FEE_CEILING <= BaseFee
    /\ tx[t].resource <= MaxResourceFee
    /\ OuterFee(t) >= INCLUSION_FEE_CEILING + tx[t].resource
    /\ OuterFee(t) <= MaxTotalFee

\* The first check that fails.
Validate(t, call) ==
    CASE ~enabled -> "DISABLED"
      [] tx[t].valid = 0 -> "EXPIRED"
      [] ~assertAllowedContractCall(call) -> "DISALLOWED"
      [] ~quoteSponsoredFee(t) -> "FEE_LIMIT"
      [] OTHER -> "none"

\* POST /sponsorship/transactions arrives with a signed transaction, a call
\* among `calls`.
FreeRequest == {r \in Requests : req[r].pc = "free"}
Slot == CHOOSE r \in FreeRequest : TRUE

Arrive(t, calls) ==
    \E code \in {Validate(t, call) : call \in calls} :
    /\ FreeRequest # {}
    /\ req' = [req EXCEPT ![Slot] = [Idle EXCEPT !.tx = t, !.code = code,
                                     !.pc = IF code = "none" THEN "lookup" ELSE "answered"]]
    /\ UNCHANGED <<enabled, redisVars, day, spent>>

-----------------------------------------------------------------------------
(* The handler. *)

Goto(r, pc) == req' = [req EXCEPT ![r].pc = pc]
Answer(r, code) == req' = [req EXCEPT ![r].pc = "answered", ![r].code = code]
\* Goes on to record `code` for the transaction.
Record(r, code) == req' = [req EXCEPT ![r].pc = "complete", ![r].code = code]

\* replay.terminal.
Terminal(r) ==
    LET cached == result[req[r].tx].status IN
    /\ req[r].pc = "lookup"
    /\ IF cached = "none" THEN Goto(r, "acquire") ELSE Answer(r, cached)
    /\ UNCHANGED <<enabled, redisVars, day, spent, faults>>

\* replay.acquire: SET NX EX.
Acquire(r) ==
    LET t == req[r].tx IN
    /\ req[r].pc = "acquire"
    /\ IF lock[t] = NoLock
       THEN lock' = [lock EXCEPT ![t] = [owner |-> r, ttl |-> LockTtl]] /\ Goto(r, "reserve")
       ELSE Answer(r, "REPLAY") /\ UNCHANGED lock
    /\ UNCHANGED <<enabled, result, quota, budget, day, spent, faults>>

\* Mutant: the script does not look at the daily budget.
WithinQuota(t) ==
    quota.source[Owner(t)] < MaxPerMinute /\ quota.ip < MaxPerIpMinute

\* quota.reserve: the script counts, and takes back what it counted when a
\* limit is hit.
WithinLimits(t) ==
    /\ quota.source[Owner(t)] < MaxPerMinute
    /\ quota.ip < MaxPerIpMinute
    /\ budget[day] + OuterFee(t) <= DailyBudget

Reserved(t) ==
    /\ quota' = [quota EXCEPT !.source[Owner(t)] = @ + 1, !.ip = @ + 1]
    /\ budget' = [budget EXCEPT ![day] = @ + OuterFee(t)]

Reserve(r) ==
    LET t == req[r].tx IN
    /\ req[r].pc = "reserve"
    /\ IF WithinLimits(t)
       THEN Reserved(t) /\ req' = [req EXCEPT ![r].pc = "send", ![r].day = day]
       ELSE /\ req' = [req EXCEPT ![r].pc = "release", ![r].code = "LIMIT_REACHED"]
            /\ UNCHANGED <<quota, budget>>
    /\ UNCHANGED <<enabled, lock, result, day, spent, faults>>

\* buildAndSignFeeBump fails.
BuildFails(r) ==
    /\ req[r].pc = "send" /\ faults < MaxFaults
    /\ faults' = faults + 1
    /\ req' = [req EXCEPT ![r].pc = "giveback", ![r].code = "RPC_REJECTED"]
    /\ UNCHANGED <<enabled, redisVars, day, spent>>

\* quota.releaseBudget: the reservation is given back on the day it was made
\* for, not below zero.
GivenBack(r) ==
    LET fee == OuterFee(req[r].tx) IN
    budget' = [budget EXCEPT ![req[r].day] = IF @ < fee THEN 0 ELSE @ - fee]

ReleaseBudget(r) ==
    /\ req[r].pc = "giveback"
    /\ GivenBack(r)
    /\ Goto(r, "release")
    /\ UNCHANGED <<enabled, lock, result, quota, day, spent, faults>>

\* buildAndSignFeeBump and submitter.submit: anything but PENDING is a
\* rejection.
Send(r) ==
    LET t == req[r].tx IN
    /\ req[r].pc = "send"
    /\ tx' = Sent(t, "sponsor")
    /\ IF SendStatus(t) = "PENDING"
       THEN /\ req' = [req EXCEPT ![r].pc = "poll", ![r].wait = ConfirmationTimeout]
            /\ spent' = [spent EXCEPT ![req[r].day] = @ \cup {t}]
       ELSE Record(r, "RPC_REJECTED") /\ UNCHANGED spent
    /\ UNCHANGED <<enabled, redisVars, day, faults>>

\* Mutant: the reservation is given back although the submission had started.
SendFailsAndReleases(r) ==
    LET t == req[r].tx IN
    /\ req[r].pc = "send" /\ faults < MaxFaults
    /\ faults' = faults + 1
    /\ SendStatus(t) = "PENDING"
    /\ tx' = Sent(t, "sponsor")
    /\ spent' = [spent EXCEPT ![req[r].day] = @ \cup {t}]
    /\ budget' = [budget EXCEPT ![req[r].day] = @ - OuterFee(t)]
    /\ Record(r, "RPC_REJECTED")
    /\ UNCHANGED <<enabled, lock, result, quota, day>>

\* The call to the RPC fails, with the transaction delivered or not.
SendFails(r) ==
    LET t == req[r].tx IN
    /\ req[r].pc = "send" /\ faults < MaxFaults
    /\ faults' = faults + 1
    /\ \/ UNCHANGED <<tx, spent>>
       \/ /\ SendStatus(t) = "PENDING"
          /\ tx' = Sent(t, "sponsor")
          /\ spent' = [spent EXCEPT ![req[r].day] = @ \cup {t}]
    /\ Record(r, "RPC_REJECTED")
    /\ UNCHANGED <<enabled, redisVars, day>>

\* Mutant: only a reported failure is one, a deadline is not.
PollHopefully(r) ==
    /\ req[r].pc = "poll"
    /\ GetStatus(req[r].tx) # "NOT_FOUND" \/ req[r].wait = 0
    /\ Record(r, IF GetStatus(req[r].tx) = "FAILED" THEN "FAILED" ELSE "success")
    /\ UNCHANGED <<enabled, redisVars, day, spent, faults>>

\* A poll that finds nothing before the deadline changes nothing.
Poll(r) ==
    LET status == GetStatus(req[r].tx) IN
    /\ req[r].pc = "poll"
    /\ status # "NOT_FOUND" \/ req[r].wait = 0
    /\ Record(r, CASE status = "SUCCESS" -> "success"
                   [] status = "FAILED"  -> "FAILED"
                   [] OTHER              -> "TIMEOUT")
    /\ UNCHANGED <<enabled, redisVars, day, spent, faults>>

PollFails(r) ==
    /\ req[r].pc = "poll" /\ faults < MaxFaults
    /\ faults' = faults + 1
    /\ Record(r, "RPC_REJECTED")
    /\ UNCHANGED <<enabled, redisVars, day, spent>>

\* replay.complete, first await: is the lock still ours?  If not, the error
\* handler's own complete fails the same way, and the answer is REPLAY.
CheckLock(r) ==
    /\ req[r].pc = "complete"
    /\ IF lock[req[r].tx].owner = r THEN Goto(r, "store") ELSE Answer(r, "REPLAY")
    /\ UNCHANGED <<enabled, redisVars, day, spent, faults>>

\* Second await: the result is stored with its time to live.
StoreResult(r) ==
    /\ req[r].pc = "store"
    /\ result' = [result EXCEPT ![req[r].tx] = [status |-> req[r].code, ttl |-> ReplayTtl]]
    /\ Goto(r, "unlock")
    /\ UNCHANGED <<enabled, lock, quota, budget, day, spent, faults>>

\* Third await: DEL, whoever owns the lock by now.
Unlock(r) ==
    /\ req[r].pc = "unlock"
    /\ lock' = [lock EXCEPT ![req[r].tx] = NoLock]
    /\ Answer(r, req[r].code)
    /\ UNCHANGED <<enabled, result, quota, budget, day, spent, faults>>

\* replay.release, on a failure before the submission: is the lock still ours?
Release(r) ==
    /\ req[r].pc = "release"
    /\ IF lock[req[r].tx].owner = r THEN Goto(r, "drop") ELSE Answer(r, req[r].code)
    /\ UNCHANGED <<enabled, redisVars, day, spent, faults>>

\* Second await: DEL, whoever owns the lock by now.
DropLock(r) ==
    /\ req[r].pc = "drop"
    /\ lock' = [lock EXCEPT ![req[r].tx] = NoLock]
    /\ Answer(r, req[r].code)
    /\ UNCHANGED <<enabled, result, quota, budget, day, spent, faults>>

\* A command of Redis is carried out and its answer lost.
AnswerLost(r) ==
    LET t == req[r].tx IN
    \/ /\ req[r].pc = "acquire" /\ lock[t] = NoLock
       /\ lock' = [lock EXCEPT ![t] = [owner |-> r, ttl |-> LockTtl]]
       /\ UNCHANGED <<result, quota, budget>>
    \/ req[r].pc = "reserve" /\ WithinLimits(t) /\ Reserved(t) /\ UNCHANGED <<lock, result>>
    \/ req[r].pc = "giveback" /\ GivenBack(r) /\ UNCHANGED <<lock, result, quota>>
    \/ /\ req[r].pc = "store"
       /\ result' = [result EXCEPT ![t] = [status |-> req[r].code, ttl |-> ReplayTtl]]
       /\ UNCHANGED <<lock, quota, budget>>
    \/ /\ req[r].pc \in {"unlock", "drop"}
       /\ lock' = [lock EXCEPT ![t] = NoLock]
       /\ UNCHANGED <<result, quota, budget>>

\* Redis fails, before or after it carried out the command.  Outside the try
\* and in its handler the request ends there; a failed reservation releases
\* the lock; a success that cannot be recorded is recorded as a failure.
RedisFails(r) ==
    /\ faults < MaxFaults
    /\ faults' = faults + 1
    /\ AnswerLost(r) \/ UNCHANGED redisVars
    /\ \/ req[r].pc \in {"lookup", "acquire", "giveback", "release", "drop"} /\ Answer(r, "ERROR")
       \/ req[r].pc = "reserve" /\ req' = [req EXCEPT ![r].pc = "release", ![r].code = "ERROR"]
       \/ /\ req[r].pc \in {"complete", "store", "unlock"}
          /\ IF req[r].code = "success" THEN Record(r, "RPC_REJECTED") ELSE Answer(r, "ERROR")
    /\ UNCHANGED <<enabled, day, spent>>

\* sponsor(): from the first await to the answer.  What the network sees of it
\* is in Send and SendFails.
HandlerStep(r) ==
    \/ Send(r) /\ UNCHANGED seq
    \/ /\ \/ Terminal(r) \/ Acquire(r) \/ Reserve(r) \/ Poll(r)
          \/ CheckLock(r) \/ StoreResult(r) \/ Unlock(r)
          \/ ReleaseBudget(r) \/ Release(r) \/ DropLock(r)
       /\ UNCHANGED networkVars

HandlerFault(r) ==
    \/ SendFails(r) /\ UNCHANGED seq
    \/ (BuildFails(r) \/ PollFails(r) \/ RedisFails(r)) /\ UNCHANGED networkVars

-----------------------------------------------------------------------------
(* The process and its clock. *)

\* The process restarts, perhaps with the other setting: its requests are
\* gone, what is in Redis stays.
Restart ==
    /\ faults < MaxFaults
    /\ faults' = faults + 1
    /\ enabled' \in BOOLEAN
    /\ req' = [r \in Requests |-> Idle]
    /\ UNCHANGED <<redisVars, day, spent>>

\* The minute of the quota keys is over.
NextMinute ==
    /\ quota.ip > 0
    /\ quota' = [source |-> [u \in Users |-> 0], ip |-> 0]
    /\ UNCHANGED <<enabled, lock, result, day, budget, spent, req, faults>>

\* Midnight, UTC.
NextDay ==
    /\ day < MaxDays /\ faults < MaxFaults
    /\ day' = day + 1
    /\ faults' = faults + 1
    /\ UNCHANGED <<enabled, redisVars, spent, req>>

\* A tick: Redis keys expire, the deadlines of the polls come closer.
TickSponsorship ==
    /\ lock' = [t \in Transactions |-> IF lock[t].ttl <= 1 THEN NoLock
                                       ELSE [lock[t] EXCEPT !.ttl = @ - 1]]
    /\ result' = [t \in Transactions |-> IF result[t].ttl <= 1 THEN NoResult
                                         ELSE [result[t] EXCEPT !.ttl = @ - 1]]
    /\ req' = [r \in Requests |-> [req[r] EXCEPT !.wait = CountDown(@)]]
    /\ UNCHANGED <<enabled, quota, day, budget, spent, faults>>
=============================================================================
