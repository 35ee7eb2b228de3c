-------------------------- MODULE SponsoringProofs --------------------------
(***************************************************************************)
(* Sponsored writes, proved for any wallets, any number of requests side   *)
(* by side, any fee policy and any number of attempts, faults and days.    *)
(***************************************************************************)
EXTENDS Sponsoring, DikeTheorems

-----------------------------------------------------------------------------
(* Types. *)

RequestRecord ==
    [pc : Pcs, tx : Transactions \cup {<<>>}, code : Results,
     day : 0..MaxDays, wait : 0..ConfirmationTimeout]
IsRequest(q) == q \in RequestRecord /\ (q.pc # "free" => q.tx \in Transactions)
TxRecord ==
    [state : TxStates, seq : 0..(MaxAttempts + 1), valid : 0..Validity,
     resource : ResourceFees \cup {0}, payer : {"none", "wallet", "sponsor"}]
ExecRecord ==
    [phase : Phases, attempt : 0..MaxAttempts, mode : {"none", "direct", "sponsored"},
     request : Requests \cup {NoRequest}, wait : 0..PollTime]

\* The types as facts about single entries.
LEMMA TypeFacts ==
    ASSUME TypeOK
    PROVE  /\ \A r \in Requests : IsRequest(req[r])
           /\ \A u \in Users : exec[u] \in ExecRecord
           /\ \A t \in Transactions : tx[t].resource \in Nat /\ OuterFee(t) \in Nat
           /\ req \in [Requests -> RequestRecord] /\ exec \in [Users -> ExecRecord]
<1>1. \A r \in Requests : IsRequest(req[r])
    BY DEF TypeOK, SponsorTypeOK, IsRequest, RequestRecord
<1>2. exec \in [Users -> ExecRecord]
    BY DEF TypeOK, ExecutorTypeOK, ExecRecord
<1>3. \A t \in Transactions : tx[t].resource \in Nat
  <2>1. \A t \in Transactions : tx[t] \in TxRecord
      BY DEF TypeOK, NetworkTypeOK, TxRecord
  <2>2. \A x \in TxRecord : x.resource \in ResourceFees \cup {0}
      BY DEF TxRecord
  <2>3. ResourceFees \cup {0} \subseteq Nat
      BY NetworkAssumption
  <2> QED BY <2>1, <2>2, <2>3
<1>4. \A t \in Transactions : OuterFee(t) \in Nat
    BY <1>3, SponsorshipAssumption DEF OuterFee
<1> QED
    BY <1>1, <1>2, <1>3, <1>4 DEF TypeOK, SponsorTypeOK, RequestRecord

LEMMA IdleTyped == IsRequest(Idle) /\ Idle.pc = "free" /\ Idle.code = "none"
BY SponsorshipAssumption DEF IsRequest, RequestRecord, Idle, Pcs, Results

\* What a step of a handler makes of its request: the transaction stays, and
\* it is answered or still at work.
Handled(r) ==
    \E q \in RequestRecord :
      /\ req' = [req EXCEPT ![r] = q]
      /\ req[r].pc # "free" /\ q.pc # "free" /\ q.tx = req[r].tx

LEMMA GotoHandles ==
    ASSUME TypeOK, NEW r \in Requests, req[r].pc # "free",
           NEW pc \in Pcs \ {"free"}, NEW code \in Results, NEW d \in 0..MaxDays,
           NEW w \in 0..ConfirmationTimeout,
           \/ req' = [req EXCEPT ![r].pc = pc]
           \/ req' = [req EXCEPT ![r].pc = pc, ![r].code = code]
           \/ req' = [req EXCEPT ![r].pc = pc, ![r].day = d]
           \/ req' = [req EXCEPT ![r].pc = pc, ![r].wait = w]
    PROVE  Handled(r)
<1>1. req[r] \in RequestRecord /\ req \in [Requests -> RequestRecord]
    BY TypeFacts
<1> DEFINE q1 == [req[r] EXCEPT !.pc = pc]
           q2 == [req[r] EXCEPT !.pc = pc, !.code = code]
           q3 == [req[r] EXCEPT !.pc = pc, !.day = d]
           q4 == [req[r] EXCEPT !.pc = pc, !.wait = w]
<1>2. \A q \in {q1, q2, q3, q4} : q \in RequestRecord /\ q.pc # "free" /\ q.tx = req[r].tx
    BY <1>1 DEF RequestRecord
<1>3. \E q \in {q1, q2, q3, q4} : req' = [req EXCEPT ![r] = q]
    BY <1>1
<1> HIDE DEF q1, q2, q3, q4
<1> QED
    BY <1>2, <1>3 DEF Handled

LEMMA HandlerHandles ==
    ASSUME TypeOK, NEW r \in Requests, HandlerStep(r) \/ HandlerFault(r)
    PROVE  Handled(r)
<1>1. IsRequest(req[r]) /\ req[r].code \in Results /\ day \in 0..MaxDays
    BY TypeFacts DEF IsRequest, RequestRecord, TypeOK, SponsorTypeOK
<1>2. \A c \in Codes : c \in Results
    BY DEF Results
<1>3. ConfirmationTimeout \in 0..ConfirmationTimeout
    BY SponsorshipAssumption
<1> USE <1>1, <1>2, <1>3, GotoHandles DEF Pcs, Goto, Answer, Record, Codes, Results
<1>4. CASE Terminal(r)
  <2>1. result[req[r].tx].status \in Results /\ req[r].pc = "lookup"
      BY <1>4 DEF Terminal, IsRequest, TypeOK, SponsorTypeOK
  <2> QED BY <1>4, <2>1 DEF Terminal
<1>5. CASE Acquire(r)
    BY <1>5 DEF Acquire
<1>6. CASE Reserve(r)
    BY <1>6 DEF Reserve
<1>7. CASE Poll(r)
    BY <1>7 DEF Poll
<1>8. CASE CheckLock(r) \/ StoreResult(r)
    BY <1>8 DEF CheckLock, StoreResult
<1>9. CASE Unlock(r) \/ ReleaseBudget(r) \/ Release(r) \/ DropLock(r)
    BY <1>9 DEF Unlock, ReleaseBudget, Release, DropLock
<1>10. CASE Send(r)
    BY <1>10 DEF Send
<1>11. CASE SendFails(r) \/ BuildFails(r) \/ PollFails(r)
    BY <1>11 DEF SendFails, BuildFails, PollFails
<1>12. CASE RedisFails(r)
    BY <1>12 DEF RedisFails
<1> QED
    BY <1>4, <1>5, <1>6, <1>7, <1>8, <1>9, <1>10, <1>11, <1>12 DEF HandlerStep, HandlerFault


\* The other changes of a request: it is freed, or a new one takes its slot.
LEMMA RequestKept ==
    ASSUME TypeOK, NEW r \in Requests, NEW q, IsRequest(q), req' = [req EXCEPT ![r] = q]
    PROVE  /\ req' \in [Requests -> RequestRecord]
           /\ \A s \in Requests : IsRequest(req'[s])
           /\ req'[r] = q /\ \A s \in Requests \ {r} : req'[s] = req[s]
<1>1. req \in [Requests -> RequestRecord] /\ \A s \in Requests : IsRequest(req[s])
    BY TypeFacts
<1>2. q \in RequestRecord
    BY DEF IsRequest
<1>3. req' \in [Requests -> RequestRecord] /\ req'[r] = q /\ \A s \in Requests \ {r} : req'[s] = req[s]
    BY <1>1, <1>2
<1> QED
    BY <1>1, <1>3

\* A request is taken in: refused at once, or at its first await.
TakenIn(s, t, q) ==
    /\ s \in Requests /\ req[s].pc = "free" /\ req' = [req EXCEPT ![s] = q]
    /\ IsRequest(q) /\ q.tx = t /\ q.pc \in {"lookup", "answered"}
    /\ q.code \in {Validate(t, call) : call \in AppCalls}

LEMMA ValidateCodes ==
    ASSUME NEW t, NEW call
    PROVE  Validate(t, call) \in {"none", "DISABLED", "EXPIRED", "DISALLOWED", "FEE_LIMIT"}
BY DEF Validate

LEMMA ArriveTakesIn ==
    ASSUME TypeOK, NEW t \in Transactions, Arrive(t, AppCalls)
    PROVE  \E q : TakenIn(Slot, t, q)
<1>1. PICK code \in {Validate(t, call) : call \in AppCalls} :
        /\ FreeRequest # {}
        /\ req' = [req EXCEPT ![Slot] = [Idle EXCEPT !.tx = t, !.code = code,
                                         !.pc = IF code = "none" THEN "lookup" ELSE "answered"]]
    BY DEF Arrive
<1>2. Slot \in Requests /\ req[Slot].pc = "free"
    BY <1>1 DEF Slot, FreeRequest
<1> DEFINE q == [Idle EXCEPT !.tx = t, !.code = code,
                             !.pc = IF code = "none" THEN "lookup" ELSE "answered"]
<1>3. code \in Results
    BY ValidateCodes DEF Results, Codes
<1>4. Idle \in RequestRecord
    BY IdleTyped DEF IsRequest
<1>5. q \in RequestRecord /\ q.tx = t /\ q.code = code /\ q.pc \in {"lookup", "answered"}
    BY <1>3, <1>4 DEF RequestRecord, Pcs
<1>6. IsRequest(q)
    BY <1>5 DEF IsRequest
<1> HIDE DEF q
<1>7. TakenIn(Slot, t, q)
    BY <1>1, <1>2, <1>5, <1>6 DEF q, TakenIn
<1> QED
    BY <1>7

-----------------------------------------------------------------------------
(* What a step of the page makes of an execution. *)

Moved(u, phase, request) ==
    /\ exec' \in [Users -> ExecRecord]
    /\ exec'[u].phase = phase /\ exec'[u].request = request
    /\ exec'[u].attempt = exec[u].attempt
    /\ \A v \in Users \ {u} : exec'[v] = exec[v]

LEMMA EndsMoves ==
    ASSUME TypeOK, NEW u \in Users
    PROVE  /\ Fails(u) => Moved(u, "failed", NoRequest)
           /\ Succeeds(u) => Moved(u, "success", NoRequest)
<1>1. exec \in [Users -> ExecRecord] /\ exec[u] \in ExecRecord
    BY TypeFacts
<1>2. 0 \in 0..PollTime
    BY ExecutorAssumption
<1>3. ASSUME NEW p \in {"failed", "success"},
             exec' = [exec EXCEPT ![u].phase = p, ![u].request = NoRequest, ![u].wait = 0]
      PROVE  Moved(u, p, NoRequest)
  <2> DEFINE e == [exec[u] EXCEPT !.phase = p, !.request = NoRequest, !.wait = 0]
  <2>1. e \in ExecRecord /\ e.phase = p /\ e.request = NoRequest /\ e.attempt = exec[u].attempt
      BY <1>1, <1>2 DEF ExecRecord, Phases
  <2>2. exec' = [exec EXCEPT ![u] = e]
      BY <1>1, <1>3
  <2> HIDE DEF e
  <2> QED BY <1>1, <2>1, <2>2 DEF Moved
<1> QED
    BY <1>3 DEF Fails, Succeeds

LEMMA PhaseMoves ==
    ASSUME TypeOK, NEW u \in Users, NEW p \in Phases, NEW m \in {"none", "direct", "sponsored"},
           NEW w \in 0..PollTime,
           \/ exec' = [exec EXCEPT ![u].phase = p]
           \/ exec' = [exec EXCEPT ![u].phase = p, ![u].mode = m]
           \/ exec' = [exec EXCEPT ![u].phase = p, ![u].wait = w]
    PROVE  Moved(u, p, exec[u].request)
<1>1. exec \in [Users -> ExecRecord] /\ exec[u] \in ExecRecord
    BY TypeFacts
<1> DEFINE e1 == [exec[u] EXCEPT !.phase = p]
           e2 == [exec[u] EXCEPT !.phase = p, !.mode = m]
           e3 == [exec[u] EXCEPT !.phase = p, !.wait = w]
<1>2. \A e \in {e1, e2, e3} :
        /\ e \in ExecRecord /\ e.phase = p
        /\ e.request = exec[u].request /\ e.attempt = exec[u].attempt
    BY <1>1 DEF ExecRecord
<1>3. \E e \in {e1, e2, e3} : exec' = [exec EXCEPT ![u] = e]
    BY <1>1
<1> HIDE DEF e1, e2, e3
<1> QED
    BY <1>1, <1>2, <1>3 DEF Moved

\* A request is noted while the page waits for the service.
LEMMA PostMoves ==
    ASSUME TypeOK, NEW u \in Users, NEW r \in Requests, exec' = [exec EXCEPT ![u].request = r]
    PROVE  Moved(u, exec[u].phase, r)
<1>1. exec \in [Users -> ExecRecord] /\ exec[u] \in ExecRecord
    BY TypeFacts
<1> DEFINE e == [exec[u] EXCEPT !.request = r]
<1>2. e \in ExecRecord /\ e.phase = exec[u].phase /\ e.request = r /\ e.attempt = exec[u].attempt
    BY <1>1 DEF ExecRecord
<1>3. exec' = [exec EXCEPT ![u] = e]
    BY <1>1
<1> HIDE DEF e
<1> QED
    BY <1>1, <1>2, <1>3 DEF Moved

\* Start: the next attempt.
LEMMA StartMoves ==
    ASSUME TypeOK, NEW u \in Users, Start(u)
    PROVE  /\ exec' \in [Users -> ExecRecord]
           /\ exec'[u].phase = "selecting" /\ exec'[u].request = NoRequest
           /\ exec'[u].attempt = exec[u].attempt + 1
           /\ \A v \in Users \ {u} : exec'[v] = exec[v]
<1>1. exec \in [Users -> ExecRecord] /\ exec[u] \in ExecRecord
    BY TypeFacts
<1> DEFINE a == exec[u].attempt + 1
           e == [NotStarted EXCEPT !.phase = "selecting", !.attempt = a]
<1>2. a \in 0..MaxAttempts
    BY <1>1, NetworkAssumption DEF Start, ExecRecord
<1>3. NotStarted \in ExecRecord /\ NotStarted.request = NoRequest
    BY NetworkAssumption, ExecutorAssumption DEF NotStarted, ExecRecord, Phases
<1>4. exec' = [exec EXCEPT ![u] = e]
    BY DEF Start
<1> HIDE DEF a
<1>5. e \in ExecRecord /\ e.phase = "selecting" /\ e.request = NoRequest /\ e.attempt = a
    BY <1>2, <1>3 DEF ExecRecord, Phases
<1> HIDE DEF e
<1> QED
    BY <1>1, <1>4, <1>5 DEF a


\* A tick changes nothing of an execution but its wait; a restart of the
\* service fails the ones that wait for it.
LEMMA TickExecutes ==
    ASSUME TypeOK, TickExecutor
    PROVE  /\ exec' \in [Users -> ExecRecord]
           /\ \A u \in Users : /\ exec'[u].phase = exec[u].phase
                               /\ exec'[u].request = exec[u].request
                               /\ exec'[u].attempt = exec[u].attempt
<1>1. exec \in [Users -> ExecRecord] /\ \A u \in Users : exec[u] \in ExecRecord
    BY TypeFacts
<1>2. \A u \in Users : CountDown(exec[u].wait) \in 0..PollTime
  <2>1. \A u \in Users : exec[u].wait \in 0..PollTime
      BY <1>1 DEF ExecRecord
  <2> QED BY <2>1, ExecutorAssumption DEF CountDown
<1>3. \A u \in Users : exec'[u] = [exec[u] EXCEPT !.wait = CountDown(exec[u].wait)]
    BY <1>1 DEF TickExecutor
<1>4. \A u \in Users : /\ exec'[u] \in ExecRecord /\ exec'[u].phase = exec[u].phase
                       /\ exec'[u].request = exec[u].request
                       /\ exec'[u].attempt = exec[u].attempt
    BY <1>1, <1>2, <1>3 DEF ExecRecord
<1>5. exec' = [u \in Users |-> exec'[u]]
    BY DEF TickExecutor
<1> QED
    BY <1>4, <1>5

LEMMA HangUpExecutes ==
    ASSUME TypeOK, HangUp
    PROVE  /\ exec' \in [Users -> ExecRecord]
           /\ \A u \in Users :
                /\ exec'[u].request = NoRequest /\ exec'[u].attempt = exec[u].attempt
                /\ exec'[u].phase = IF exec[u].request = NoRequest THEN exec[u].phase ELSE "failed"
<1>1. exec \in [Users -> ExecRecord] /\ \A u \in Users : exec[u] \in ExecRecord
    BY TypeFacts
<1>2. \A u \in Users :
        exec'[u] = IF exec[u].request = NoRequest THEN exec[u]
                   ELSE [exec[u] EXCEPT !.phase = "failed", !.request = NoRequest]
    BY <1>1 DEF HangUp
<1>3. \A u \in Users :
        /\ exec'[u] \in ExecRecord
        /\ exec'[u].request = NoRequest /\ exec'[u].attempt = exec[u].attempt
        /\ exec'[u].phase = IF exec[u].request = NoRequest THEN exec[u].phase ELSE "failed"
  <2> SUFFICES ASSUME NEW u \in Users
               PROVE  /\ exec'[u] \in ExecRecord
                      /\ exec'[u].request = NoRequest /\ exec'[u].attempt = exec[u].attempt
                      /\ exec'[u].phase = IF exec[u].request = NoRequest THEN exec[u].phase ELSE "failed"
      OBVIOUS
  <2>1. CASE exec[u].request = NoRequest
      BY <1>1, <1>2, <2>1
  <2>2. CASE exec[u].request # NoRequest
    <3> DEFINE e == [exec[u] EXCEPT !.phase = "failed", !.request = NoRequest]
    <3>1. e \in ExecRecord /\ e.request = NoRequest /\ e.attempt = exec[u].attempt /\ e.phase = "failed"
        BY <1>1 DEF ExecRecord, Phases
    <3>2. exec'[u] = e
        BY <1>2, <2>2
    <3> HIDE DEF e
    <3> QED BY <2>2, <3>1, <3>2
  <2> QED BY <2>1, <2>2
<1>4. exec' = [u \in Users |-> exec'[u]]
    BY DEF HangUp
<1> QED
    BY <1>3, <1>4

\* Of a request, a tick changes the wait.
LEMMA TickRequests ==
    ASSUME TypeOK, TickSponsorship
    PROVE  /\ req' \in [Requests -> RequestRecord]
           /\ \A r \in Requests :
                /\ IsRequest(req'[r]) /\ req'[r].pc = req[r].pc /\ req'[r].tx = req[r].tx
                /\ req'[r].code = req[r].code /\ req'[r].day = req[r].day
<1>1. req \in [Requests -> RequestRecord] /\ \A r \in Requests : IsRequest(req[r])
    BY TypeFacts
<1>2. \A r \in Requests : CountDown(req[r].wait) \in 0..ConfirmationTimeout
  <2>1. \A r \in Requests : req[r].wait \in 0..ConfirmationTimeout
      BY <1>1 DEF RequestRecord
  <2> QED BY <2>1, SponsorshipAssumption DEF CountDown
<1>3. \A r \in Requests : req'[r] = [req[r] EXCEPT !.wait = CountDown(req[r].wait)]
    BY <1>1 DEF TickSponsorship
<1>4. \A r \in Requests :
        /\ req'[r] \in RequestRecord /\ req'[r].pc = req[r].pc /\ req'[r].tx = req[r].tx
        /\ req'[r].code = req[r].code /\ req'[r].day = req[r].day
    BY <1>1, <1>2, <1>3 DEF RequestRecord
<1>5. req' = [r \in Requests |-> req'[r]]
    BY DEF TickSponsorship
<1> QED
    BY <1>1, <1>4, <1>5 DEF IsRequest

-----------------------------------------------------------------------------
(* Type correctness of the service and of the pages. *)

\* The keys of Redis, step by step.
LEMMA RedisTypes ==
    ASSUME TypeOK, [Next]_vars
    PROVE  /\ lock' \in [Transactions -> [owner : Requests \cup {NoRequest}, ttl : 0..LockTtl]]
           /\ result' \in [Transactions -> [status : Results, ttl : 0..ReplayTtl]]
<1> DEFINE LockType == [owner : Requests \cup {NoRequest}, ttl : 0..LockTtl]
           ResultType == [status : Results, ttl : 0..ReplayTtl]
<1>1. lock \in [Transactions -> LockType] /\ result \in [Transactions -> ResultType]
    BY DEF TypeOK, SponsorTypeOK
<1>2. NoLock \in LockType /\ NoResult \in ResultType
    BY SponsorshipAssumption DEF NoLock, NoResult, Results
<1>3. CASE UNCHANGED <<lock, result>>
    BY <1>1, <1>3
<1>4. ASSUME NEW r \in Requests, HandlerStep(r) \/ HandlerFault(r)
      PROVE  lock' \in [Transactions -> LockType] /\ result' \in [Transactions -> ResultType]
  <2>1. CASE Acquire(r)
    <3>1. [owner |-> r, ttl |-> LockTtl] \in LockType
        BY SponsorshipAssumption
    <3> QED BY <1>1, <2>1, <3>1 DEF Acquire
  <2>2. CASE StoreResult(r)
    <3>1. [status |-> req[r].code, ttl |-> ReplayTtl] \in ResultType
        BY SponsorshipAssumption, TypeFacts DEF IsRequest, RequestRecord
    <3> QED BY <1>1, <2>2, <3>1 DEF StoreResult
  <2>3. CASE Unlock(r) \/ DropLock(r)
      BY <1>1, <1>2, <2>3 DEF Unlock, DropLock
  <2>4. CASE UNCHANGED <<lock, result>>
      BY <1>1, <2>4
  <2>5. CASE AnswerLost(r)
    <3>1. [owner |-> r, ttl |-> LockTtl] \in LockType
        BY SponsorshipAssumption
    <3>2. [status |-> req[r].code, ttl |-> ReplayTtl] \in ResultType
        BY SponsorshipAssumption, TypeFacts DEF IsRequest, RequestRecord
    <3>3. \/ lock' = [lock EXCEPT ![req[r].tx] = [owner |-> r, ttl |-> LockTtl]] /\ result' = result
          \/ lock' = [lock EXCEPT ![req[r].tx] = NoLock] /\ result' = result
          \/ lock' = lock /\ result' = [result EXCEPT ![req[r].tx] = [status |-> req[r].code, ttl |-> ReplayTtl]]
          \/ UNCHANGED <<lock, result>>
        BY <2>5 DEF AnswerLost
    <3> HIDE DEF LockType, ResultType
    <3> QED BY <1>1, <1>2, <3>1, <3>2, <3>3
  <2> QED
      BY <1>4, <2>1, <2>2, <2>3, <2>4, <2>5
         DEF HandlerStep, HandlerFault, Terminal, Reserve, Poll, CheckLock, Send, SendFails,
             BuildFails, PollFails, ReleaseBudget, Release, RedisFails, redisVars
<1>5. CASE TickSponsorship
  <2>1. ASSUME NEW t \in Transactions PROVE lock'[t] \in LockType
    <3>1. lock[t].ttl > 1 => [lock[t] EXCEPT !.ttl = lock[t].ttl - 1] \in LockType
        BY <1>1, SponsorshipAssumption
    <3>2. lock[t].ttl \in Int
        BY <1>1, SponsorshipAssumption
    <3>3. lock'[t] = IF lock[t].ttl <= 1 THEN NoLock ELSE [lock[t] EXCEPT !.ttl = lock[t].ttl - 1]
        BY <1>5 DEF TickSponsorship
    <3>4. lock[t].ttl <= 1 \/ lock[t].ttl > 1
        BY <3>2
    <3> HIDE DEF LockType
    <3> QED BY <1>2, <3>1, <3>3, <3>4
  <2>2. ASSUME NEW t \in Transactions PROVE result'[t] \in ResultType
    <3>1. result[t].ttl > 1 => [result[t] EXCEPT !.ttl = result[t].ttl - 1] \in ResultType
        BY <1>1, SponsorshipAssumption
    <3>2. result[t].ttl \in Int
        BY <1>1, SponsorshipAssumption
    <3>3. result'[t] = IF result[t].ttl <= 1 THEN NoResult ELSE [result[t] EXCEPT !.ttl = result[t].ttl - 1]
        BY <1>5 DEF TickSponsorship
    <3>4. result[t].ttl <= 1 \/ result[t].ttl > 1
        BY <3>2
    <3> HIDE DEF ResultType
    <3> QED BY <1>2, <3>1, <3>3, <3>4
  <2>3. lock' = [t \in Transactions |-> lock'[t]] /\ result' = [t \in Transactions |-> result'[t]]
      BY <1>5 DEF TickSponsorship
  <2> HIDE DEF LockType, ResultType
  <2>4. lock' \in [Transactions -> LockType]
      BY <2>1, <2>3
  <2>5. result' \in [Transactions -> ResultType]
      BY <2>2, <2>3
  <2> QED BY <2>4, <2>5 DEF LockType, ResultType
<1>6. CASE ~TickSponsorship /\ ~\E r \in Requests : HandlerStep(r) \/ HandlerFault(r)
  <2>1. UNCHANGED <<lock, result>>
      BY <1>6 DEF Next, vars, Tick, Ledger, Calendar, Restarting, Restart, Repost, Handling,
                  Faulting, Unheard, Start, GiveUp, ExecutorStep, SelectMode, buildAndSimulate,
                  Sign, Post, Answered, ProxyTimeout, Submit, PollDirect, SubmitFails, PollDirectFails, Arrive, NextMinute,
                  NextDay, sponsorVars, redisVars
  <2> QED BY <2>1, <1>3
<1> HIDE DEF LockType, ResultType
<1> QED
    BY <1>4, <1>5, <1>6 DEF LockType, ResultType

\* The counters: a limit is checked before it is counted against.
LEMMA CounterTypes ==
    ASSUME TypeOK, [Next]_vars
    PROVE  /\ quota' \in [source : [Users -> 0..MaxPerMinute], ip : 0..MaxPerIpMinute]
           /\ budget' \in [1..MaxDays -> 0..DailyBudget]
           /\ spent' \in [1..MaxDays -> SUBSET Transactions]
           /\ enabled' \in BOOLEAN /\ day' \in 1..MaxDays /\ faults' \in 0..MaxFaults
<1> DEFINE Quotas == [source : [Users -> 0..MaxPerMinute], ip : 0..MaxPerIpMinute]
<1>1. /\ quota \in Quotas /\ budget \in [1..MaxDays -> 0..DailyBudget]
      /\ spent \in [1..MaxDays -> SUBSET Transactions]
      /\ enabled \in BOOLEAN /\ day \in 1..MaxDays /\ faults \in 0..MaxFaults
    BY DEF TypeOK, SponsorTypeOK
<1>2. faults' = faults \/ (faults < MaxFaults /\ faults' = faults + 1)
  <2>1. ASSUME NEW r \in Requests, HandlerStep(r) \/ HandlerFault(r)
        PROVE  faults' = faults \/ (faults < MaxFaults /\ faults' = faults + 1)
      BY <2>1 DEF HandlerStep, HandlerFault, Terminal, Acquire, Reserve, Poll, CheckLock, StoreResult,
                  Unlock, ReleaseBudget, Release, DropLock, Send, SendFails, BuildFails, PollFails, RedisFails
  <2> QED
      BY <2>1 DEF Next, vars, Tick, TickSponsorship, Ledger, Calendar, Restarting, Restart, Repost,
                  Handling, Faulting, Unheard, Start, GiveUp, ExecutorStep, SelectMode,
                  buildAndSimulate, Sign, Post, Answered, ProxyTimeout, Submit, PollDirect, SubmitFails, PollDirectFails,
                  NextMinute, NextDay, sponsorVars
<1>3. faults' \in 0..MaxFaults
    BY <1>1, <1>2, SponsorshipAssumption
<1>4. CASE UNCHANGED <<quota, budget, spent, enabled, day>>
    BY <1>1, <1>3, <1>4
<1>5. ASSUME NEW r \in Requests, HandlerStep(r) \/ HandlerFault(r)
      PROVE  /\ quota' \in Quotas /\ budget' \in [1..MaxDays -> 0..DailyBudget]
             /\ spent' \in [1..MaxDays -> SUBSET Transactions]
             /\ enabled' = enabled /\ day' = day
  <2> DEFINE t == req[r].tx
  <2>1. req[r].pc # "free" => t \in Transactions
      BY TypeFacts DEF IsRequest
  <2>2. ASSUME req[r].pc = "reserve", WithinLimits(t), Reserved(t)
        PROVE  quota' \in Quotas /\ budget' \in [1..MaxDays -> 0..DailyBudget]
    <3>1. t \in Transactions /\ Owner(t) \in Users /\ OuterFee(t) \in Nat
        BY <2>1, <2>2, TypeFacts DEF Transactions, Owner
    <3>2. quota' \in Quotas /\ budget' \in [1..MaxDays -> 0..DailyBudget]
      <4>1. budget' \in [1..MaxDays -> 0..DailyBudget]
        <5>1. budget[day] + OuterFee(t) \in 0..DailyBudget
            BY <1>1, <2>2, <3>1, SponsorshipAssumption DEF WithinLimits
        <5>2. budget' = [budget EXCEPT ![day] = budget[day] + OuterFee(t)]
            BY <2>2 DEF Reserved
        <5> QED BY <1>1, <5>1, <5>2
      <4>2. quota' \in Quotas
        <5> DEFINE s == [quota.source EXCEPT ![Owner(t)] = quota.source[Owner(t)] + 1]
        <5>1. quota.source[Owner(t)] + 1 \in 0..MaxPerMinute /\ quota.ip + 1 \in 0..MaxPerIpMinute
            BY <1>1, <2>2, <3>1, SponsorshipAssumption DEF WithinLimits
        <5>2. s \in [Users -> 0..MaxPerMinute]
            BY <1>1, <3>1, <5>1
        <5>3. quota' = [quota EXCEPT !.source = s, !.ip = quota.ip + 1]
            BY <1>1, <2>2 DEF Reserved
        <5> HIDE DEF s
        <5> QED BY <1>1, <5>1, <5>2, <5>3
      <4> QED BY <4>1, <4>2
    <3> QED BY <3>2
  <2>3. ASSUME req[r].pc = "giveback", GivenBack(r) PROVE budget' \in [1..MaxDays -> 0..DailyBudget]
    <3>1. t \in Transactions /\ OuterFee(t) \in Nat
        BY <2>1, <2>3, TypeFacts
    <3>2. \A b \in 0..DailyBudget : (IF b < OuterFee(t) THEN 0 ELSE b - OuterFee(t)) \in 0..DailyBudget
        BY <3>1, SponsorshipAssumption
    <3> QED BY <1>1, <2>3, <3>2 DEF GivenBack
  <2>4. CASE Send(r) \/ SendFails(r)
    <3>1. t \in Transactions
        BY <2>1, <2>4 DEF Send, SendFails
    <3>2. spent' = spent \/ spent' = [spent EXCEPT ![req[r].day] = spent[req[r].day] \cup {t}]
        BY <2>4 DEF Send, SendFails
    <3>3. spent' \in [1..MaxDays -> SUBSET Transactions]
        BY <1>1, <3>1, <3>2
    <3> QED BY <1>1, <2>4, <3>3 DEF Send, SendFails, redisVars
  <2>5. CASE Terminal(r) \/ Acquire(r) \/ Poll(r) \/ CheckLock(r) \/ StoreResult(r) \/ Unlock(r)
             \/ Release(r) \/ DropLock(r) \/ BuildFails(r) \/ PollFails(r)
      BY <1>1, <2>5 DEF Terminal, Acquire, Poll, CheckLock, StoreResult, Unlock, Release, DropLock,
                        BuildFails, PollFails, redisVars
  <2>6. CASE Reserve(r)
      BY <1>1, <2>2, <2>6 DEF Reserve
  <2>7. CASE ReleaseBudget(r)
      BY <1>1, <2>3, <2>7 DEF ReleaseBudget
  <2>8. CASE RedisFails(r)
    <3>1. UNCHANGED <<enabled, day, spent>>
        BY <2>8 DEF RedisFails
    <3>2. \/ UNCHANGED <<quota, budget>>
          \/ req[r].pc = "reserve" /\ WithinLimits(t) /\ Reserved(t)
          \/ req[r].pc = "giveback" /\ GivenBack(r) /\ quota' = quota
        BY <2>8 DEF RedisFails, AnswerLost, redisVars
    <3> QED BY <1>1, <2>2, <2>3, <3>1, <3>2
  <2> QED BY <1>5, <2>4, <2>5, <2>6, <2>7, <2>8 DEF HandlerStep, HandlerFault
<1>6. CASE Calendar
  <2>1. CASE NextMinute
    <3>1. [source |-> [u \in Users |-> 0], ip |-> 0] \in Quotas
        BY SponsorshipAssumption
    <3> QED BY <1>1, <1>3, <2>1, <3>1 DEF NextMinute
  <2>2. CASE NextDay
      BY <1>1, <1>3, <2>2, SponsorshipAssumption DEF NextDay, redisVars
  <2> QED BY <1>6, <2>1, <2>2 DEF Calendar
<1>7. CASE Restarting
    BY <1>1, <1>3, <1>7 DEF Restarting, Restart, redisVars
<1>8. CASE ~Calendar /\ ~Restarting /\ ~\E r \in Requests : HandlerStep(r) \/ HandlerFault(r)
  <2>1. UNCHANGED <<quota, budget, spent, enabled, day>>
      BY <1>8 DEF Next, vars, Tick, TickSponsorship, Ledger, Repost, Handling,
                  Faulting, Unheard, Start, GiveUp, ExecutorStep, SelectMode, buildAndSimulate,
                  Sign, Post, Answered, ProxyTimeout, Submit, PollDirect, SubmitFails, PollDirectFails, Arrive,
                  sponsorVars, redisVars
  <2> QED BY <2>1, <1>4
<1> HIDE DEF Quotas
<1> QED
    BY <1>1, <1>3, <1>5, <1>6, <1>7, <1>8 DEF Quotas


\* Where requests change: in a handler, with the clock, when the process
\* restarts, when one comes in, and when one is over.
LEMMA RequestSteps ==
    ASSUME TypeOK, Next
    PROVE  \/ \E r \in Requests : HandlerStep(r) \/ HandlerFault(r)
           \/ TickSponsorship
           \/ req' = [r \in Requests |-> Idle]
           \/ \E t \in Transactions : \E q : shown[t] = "sponsor" /\ TakenIn(Slot, t, q)
           \/ \E u \in Users : \E q : Post(u) /\ CurrentTx(u) \in Transactions /\ TakenIn(Slot, CurrentTx(u), q)
           \/ \E r \in Requests : req[r].pc = "answered" /\ req' = [req EXCEPT ![r] = Idle]
           \/ req' = req
           \/ \E u \in Users : Post(u) /\ CurrentTx(u) \notin Transactions
<1>1. CASE Tick
    BY <1>1 DEF Tick
<1>2. CASE Restarting
    BY <1>2 DEF Restarting, Restart
<1>3. CASE Repost
    BY <1>3, ArriveTakesIn DEF Repost
<1>4. ASSUME NEW r \in Requests, Handling(r) \/ Faulting(r) \/ Unheard(r)
      PROVE  \/ HandlerStep(r) \/ HandlerFault(r)
             \/ req[r].pc = "answered" /\ req' = [req EXCEPT ![r] = Idle]
    BY <1>4 DEF Handling, Faulting, Unheard
<1>5. ASSUME NEW u \in Users, Post(u), CurrentTx(u) \in Transactions
      PROVE  \E q : TakenIn(Slot, CurrentTx(u), q)
    BY <1>5, ArriveTakesIn DEF Post
<1>6. ASSUME NEW u \in Users, Answered(u)
      PROVE  \E r \in Requests : req[r].pc = "answered" /\ req' = [req EXCEPT ![r] = Idle]
  <2>1. exec[u].request \in Requests
      BY <1>6, TypeFacts DEF Answered, ExecRecord
  <2> QED BY <1>6, <2>1 DEF Answered
<1>7. CASE Ledger \/ Calendar \/ \E u \in Users : \/ Start(u) \/ GiveUp(u) \/ SelectMode(u)
                                                  \/ buildAndSimulate(u) \/ Sign(u) \/ ProxyTimeout(u)
                                                  \/ Submit(u) \/ PollDirect(u)
                                                  \/ SubmitFails(u) \/ PollDirectFails(u)
    BY <1>7 DEF Ledger, Calendar, NextMinute, NextDay, Start, GiveUp, SelectMode, buildAndSimulate, Sign,
                ProxyTimeout, Submit, PollDirect, SubmitFails, PollDirectFails, sponsorVars
<1> QED
    BY <1>1, <1>2, <1>3, <1>4, <1>5, <1>6, <1>7 DEF Next, ExecutorStep

\* An attempt that has begun has a transaction, and only one that is being
\* sponsored waits for a request.
Begun ==
    \A u \in Users :
      /\ exec[u].phase # "idle" => exec[u].attempt > 0
      /\ exec[u].request # NoRequest => exec[u].phase = "sponsoring"

LEMMA CurrentIsTx ==
    ASSUME TypeOK, Begun, NEW u \in Users, exec[u].phase # "idle"
    PROVE  CurrentTx(u) \in Transactions /\ CurrentTx(u)[1] = u /\ CurrentTx(u)[2] = exec[u].attempt
           /\ Owner(CurrentTx(u)) = u
<1>1. exec[u].attempt \in 1..MaxAttempts
    BY TypeFacts, NetworkAssumption DEF Begun, ExecRecord
<1> QED
    BY <1>1 DEF CurrentTx, Transactions, Owner

LEMMA RequestTypes ==
    ASSUME TypeOK, Begun, [Next]_vars
    PROVE  req' \in [Requests -> RequestRecord] /\ \A s \in Requests : IsRequest(req'[s])
<1>1. CASE req' = req
    BY <1>1, TypeFacts
<1>2. CASE req' = [r \in Requests |-> Idle]
    BY <1>2, IdleTyped DEF IsRequest
<1>3. CASE TickSponsorship
    BY <1>3, TickRequests
<1>4. ASSUME NEW r \in Requests, Handled(r)
      PROVE  req' \in [Requests -> RequestRecord] /\ \A s \in Requests : IsRequest(req'[s])
  <2>1. PICK q \in RequestRecord : req' = [req EXCEPT ![r] = q] /\ req[r].pc # "free" /\ q.tx = req[r].tx
      BY <1>4 DEF Handled
  <2>2. IsRequest(q)
      BY <2>1, TypeFacts DEF IsRequest
  <2> QED BY <2>1, <2>2, RequestKept
<1>5. ASSUME NEW t, NEW q, TakenIn(Slot, t, q)
      PROVE  req' \in [Requests -> RequestRecord] /\ \A s \in Requests : IsRequest(req'[s])
    BY <1>5, RequestKept DEF TakenIn
<1>6. ASSUME NEW r \in Requests, req' = [req EXCEPT ![r] = Idle]
      PROVE  req' \in [Requests -> RequestRecord] /\ \A s \in Requests : IsRequest(req'[s])
    BY <1>6, RequestKept, IdleTyped
<1>7. ~\E u \in Users : Post(u) /\ CurrentTx(u) \notin Transactions
    BY CurrentIsTx DEF Post
<1>8. CASE UNCHANGED vars
    BY <1>1, <1>8 DEF vars, sponsorVars
<1> QED
    BY <1>1, <1>2, <1>3, <1>4, <1>5, <1>6, <1>7, <1>8, RequestSteps, HandlerHandles

\* Where executions change.
LEMMA ExecutionSteps ==
    ASSUME TypeOK, [Next]_vars
    PROVE  \/ UNCHANGED exec
           \/ TickExecutor
           \/ HangUp
           \/ \E u \in Users : Start(u)
           \/ \E u \in Users : GiveUp(u) \/ ExecutorStep(u)
BY DEF Next, vars, executorVars, Tick, Ledger, Calendar, Restarting, Repost, Handling, Faulting, Unheard

\* A step of the page, by the phase it reaches.
LEMMA ExecutorMoves ==
    ASSUME TypeOK, NEW u \in Users, GiveUp(u) \/ ExecutorStep(u)
    PROVE  \/ GiveUp(u) /\ Moved(u, "failed", NoRequest)
           \/ SelectMode(u) /\ Moved(u, "building", exec[u].request)
           \/ buildAndSimulate(u) /\ Moved(u, "signing", exec[u].request)
           \/ Sign(u) /\ exec[u].mode = "sponsored" /\ Moved(u, "sponsoring", exec[u].request)
           \/ Sign(u) /\ exec[u].mode # "sponsored" /\ Moved(u, "submitting", exec[u].request)
           \/ Post(u) /\ Slot \in Requests /\ Moved(u, "sponsoring", Slot)
           \/ Answered(u) /\ req[exec[u].request].code = "success" /\ Moved(u, "success", NoRequest)
           \/ Answered(u) /\ Moved(u, "failed", NoRequest)
           \/ ProxyTimeout(u) /\ Moved(u, "failed", NoRequest)
           \/ Submit(u) /\ Moved(u, "failed", NoRequest)
           \/ Submit(u) /\ Moved(u, "polling", exec[u].request)
           \/ PollDirect(u) /\ GetStatus(CurrentTx(u)) = "SUCCESS" /\ Moved(u, "success", NoRequest)
           \/ PollDirect(u) /\ Moved(u, "failed", NoRequest)
           \/ (SubmitFails(u) \/ PollDirectFails(u)) /\ Moved(u, "failed", NoRequest)
<1> USE EndsMoves, PhaseMoves
<1>0. PollTime \in 0..PollTime
    BY ExecutorAssumption
<1>1. CASE GiveUp(u)
    BY <1>1 DEF GiveUp
<1>2. CASE SelectMode(u)
    BY <1>0, <1>2 DEF SelectMode, Phases
<1>3. CASE buildAndSimulate(u)
    BY <1>0, <1>3 DEF buildAndSimulate, Phases
<1>4. CASE Sign(u)
  <2>1. CASE exec[u].mode = "sponsored"
      BY <1>0, <1>4, <2>1 DEF Sign, Phases
  <2>2. CASE exec[u].mode # "sponsored"
      BY <1>0, <1>4, <2>2 DEF Sign, Phases
  <2> QED BY <2>1, <2>2
<1>5. CASE Post(u)
  <2>1. Slot \in Requests
      BY <1>5 DEF Post, Arrive, Slot, FreeRequest
  <2> QED BY <1>5, <2>1, PostMoves DEF Post
<1>6. CASE Answered(u)
    BY <1>6 DEF Answered
<1>7. CASE ProxyTimeout(u)
    BY <1>7 DEF ProxyTimeout
<1>8. CASE Submit(u)
    BY <1>0, <1>8 DEF Submit, Phases
<1>9. CASE PollDirect(u)
    BY <1>9 DEF PollDirect
<1>10. CASE SubmitFails(u) \/ PollDirectFails(u)
    BY <1>10 DEF SubmitFails, PollDirectFails
<1> QED
    BY <1>1, <1>2, <1>3, <1>4, <1>5, <1>6, <1>7, <1>8, <1>9, <1>10 DEF ExecutorStep

LEMMA ExecutionTypes ==
    ASSUME TypeOK, [Next]_vars
    PROVE  exec' \in [Users -> ExecRecord]
<1>1. CASE UNCHANGED exec
    BY <1>1, TypeFacts
<1>2. ASSUME NEW u \in Users, GiveUp(u) \/ ExecutorStep(u) PROVE exec' \in [Users -> ExecRecord]
    BY <1>2, ExecutorMoves DEF Moved
<1> QED
    BY <1>1, <1>2, ExecutionSteps, TickExecutes, HangUpExecutes, StartMoves

LEMMA BegunKept ==
    ASSUME TypeOK, Begun, [Next]_vars
    PROVE  Begun'
<1>1. CASE UNCHANGED exec
    BY <1>1 DEF Begun
<1>2. ASSUME NEW u \in Users, Start(u) PROVE Begun'
  <2>1. exec[u].attempt \in 0..MaxAttempts
      BY TypeFacts DEF ExecRecord
  <2> QED BY <1>2, <2>1, StartMoves, NetworkAssumption DEF Begun
<1>3. ASSUME NEW u \in Users, GiveUp(u) \/ ExecutorStep(u) PROVE Begun'
  <2>1. exec[u].phase # "idle"
      BY <1>3 DEF GiveUp, ExecutorStep, SelectMode, buildAndSimulate, Sign, Post, Answered, ProxyTimeout,
                  Submit, PollDirect, SubmitFails, PollDirectFails
  <2>2. exec'[u].attempt = exec[u].attempt /\ \A v \in Users \ {u} : exec'[v] = exec[v]
      BY <1>3, ExecutorMoves DEF Moved
  <2>3. exec'[u].request # NoRequest => exec'[u].phase = "sponsoring"
      BY <1>3, ExecutorMoves
         DEF Moved, Begun, SelectMode, buildAndSimulate, Sign, Submit
  <2> QED BY <2>1, <2>2, <2>3 DEF Begun
<1>4. CASE TickExecutor
    BY <1>4, TickExecutes DEF Begun
<1>5. CASE HangUp
  <2> SUFFICES ASSUME NEW u \in Users, exec'[u].phase # "idle" PROVE exec'[u].attempt > 0
      BY <1>5, HangUpExecutes DEF Begun
  <2>1. exec'[u].attempt = exec[u].attempt
        /\ exec'[u].phase = IF exec[u].request = NoRequest THEN exec[u].phase ELSE "failed"
      BY <1>5, HangUpExecutes
  <2>2. CASE exec[u].request = NoRequest
      BY <2>1, <2>2 DEF Begun
  <2>3. CASE exec[u].request # NoRequest
    <3>1. exec[u].phase # "idle"
        BY <2>3 DEF Begun
    <3> QED BY <2>1, <3>1 DEF Begun
  <2> QED BY <2>2, <2>3
<1> QED
    BY <1>1, <1>2, <1>3, <1>4, <1>5, ExecutionSteps


-----------------------------------------------------------------------------
(* Sequence numbers. *)

Early == {"selecting", "building"}
Unbuilt(t) ==
    \/ t[2] > exec[Owner(t)].attempt
    \/ t[2] = exec[Owner(t)].attempt /\ exec[Owner(t)].phase \in Early

\* An attempt that is not built yet has no transaction; an account has at most
\* one transaction in the queue, the one its sequence number is good for; what
\* was included used its number up, so it can never be queued again.
SeqAt(t) ==
    /\ tx[t].seq <= t[2]
    /\ Unbuilt(t) => tx[t] = NoTx
    /\ tx[t].state = "queued" => tx[t].seq = seq[Owner(t)] + 1
    /\ Included(t) => tx[t].seq <= seq[Owner(t)]
OneQueued ==
    \A s, t \in Transactions :
      Owner(s) = Owner(t) /\ tx[s].state = "queued" /\ tx[t].state = "queued" => s = t
Counted(u) ==
    seq[u] <= exec[u].attempt /\ (exec[u].phase \in Early => seq[u] < exec[u].attempt)
SeqInv == (\A t \in Transactions : SeqAt(t)) /\ OneQueued /\ (\A u \in Users : Counted(u))

LEMMA TxFacts ==
    ASSUME TypeOK, NEW t \in Transactions
    PROVE  /\ tx \in [Transactions -> TxRecord] /\ tx[t] \in TxRecord
           /\ tx[t].seq \in 0..(MaxAttempts + 1) /\ tx[t].valid \in 0..Validity
           /\ Owner(t) \in Users /\ seq[Owner(t)] \in 0..MaxAttempts /\ t[2] \in 1..MaxAttempts
           /\ exec[Owner(t)].attempt \in 0..MaxAttempts
<1>1. tx \in [Transactions -> TxRecord] /\ seq \in [Users -> 0..MaxAttempts]
    BY DEF TypeOK, NetworkTypeOK, TxRecord
<1>2. Owner(t) \in Users /\ t[2] \in 1..MaxAttempts
    BY DEF Owner, Transactions
<1>3. exec[Owner(t)].attempt \in 0..MaxAttempts
    BY <1>2, TypeFacts DEF ExecRecord
<1>4. tx[t] \in TxRecord
    BY <1>1
<1>5. tx[t].seq \in 0..(MaxAttempts + 1) /\ tx[t].valid \in 0..Validity
    BY <1>4 DEF TxRecord
<1> QED
    BY <1>1, <1>2, <1>3, <1>4, <1>5

\* The page may move on, as long as it does not go back to building.
PhasesMoveOn ==
    \A u \in Users : /\ exec'[u].attempt = exec[u].attempt
                     /\ exec'[u].phase \in Early => exec[u].phase \in Early

LEMMA UnbuiltStays ==
    ASSUME PhasesMoveOn, NEW t \in Transactions, Unbuilt(t)'
    PROVE  Unbuilt(t)
<1>1. Owner(t) \in Users
    BY DEF Owner, Transactions
<1> QED
    BY <1>1 DEF PhasesMoveOn, Unbuilt, Owner

LEMMA QuietSeq ==
    ASSUME TypeOK, SeqInv, PhasesMoveOn, UNCHANGED networkVars
    PROVE  SeqInv' /\ NetworkTypeOK'
<1>1. tx' = tx /\ seq' = seq
    BY DEF networkVars
<1>2. \A t \in Transactions : SeqAt(t)'
    BY <1>1, UnbuiltStays DEF SeqInv, SeqAt, Included
<1>3. OneQueued'
    BY <1>1 DEF SeqInv, OneQueued
<1>4. \A u \in Users : Counted(u)'
    BY <1>1 DEF SeqInv, Counted, PhasesMoveOn
<1>5. NetworkTypeOK'
    BY <1>1 DEF TypeOK, NetworkTypeOK
<1> QED
    BY <1>2, <1>3, <1>4, <1>5 DEF SeqInv

LEMMA StartSeq ==
    ASSUME TypeOK, SeqInv, NEW u \in Users, Start(u)
    PROVE  SeqInv' /\ NetworkTypeOK'
<1>1. tx' = tx /\ seq' = seq
    BY DEF Start, networkVars
<1>2. exec'[u].attempt = exec[u].attempt + 1 /\ \A v \in Users \ {u} : exec'[v] = exec[v]
    BY StartMoves
<1>3. exec[u].attempt \in Nat /\ seq[u] \in Nat
    BY TypeFacts, NetworkAssumption DEF ExecRecord, TypeOK, NetworkTypeOK
<1>4. ASSUME NEW t \in Transactions PROVE SeqAt(t)'
  <2>1. ASSUME Unbuilt(t)' PROVE Unbuilt(t)
    <3>1. CASE Owner(t) = u
      <4>1. t[2] \in Nat /\ (t[2] > exec[u].attempt + 1 \/ t[2] = exec[u].attempt + 1)
          BY <1>2, <2>1, <3>1, TxFacts DEF Unbuilt, Owner
      <4> QED BY <1>3, <3>1, <4>1 DEF Unbuilt
    <3>2. CASE Owner(t) # u
        BY <1>2, <2>1, <3>2, TxFacts DEF Unbuilt, Owner
    <3> QED BY <3>1, <3>2
  <2> QED BY <1>1, <2>1 DEF SeqInv, SeqAt, Included
<1>5. OneQueued'
    BY <1>1 DEF SeqInv, OneQueued
<1>6. \A v \in Users : Counted(v)'
    BY <1>1, <1>2, <1>3 DEF SeqInv, Counted
<1>7. NetworkTypeOK'
    BY <1>1 DEF TypeOK, NetworkTypeOK
<1> QED
    BY <1>4, <1>5, <1>6, <1>7 DEF SeqInv

LEMMA NoTxTyped ==
    /\ NoTx \in TxRecord
    /\ \A y \in TxRecord : y = [state |-> y.state, seq |-> y.seq, valid |-> y.valid,
                               resource |-> y.resource, payer |-> y.payer]
<1>1. 0 \in 0..(MaxAttempts + 1) /\ 0 \in 0..Validity
    BY NetworkAssumption
<1>2. NoTx \in TxRecord
    BY <1>1 DEF NoTx, TxRecord, TxStates
<1> QED
    BY <1>2 DEF TxRecord

LEMMA BuildSeq ==
    ASSUME TypeOK, Begun, SeqInv, NEW u \in Users, buildAndSimulate(u)
    PROVE  SeqInv' /\ NetworkTypeOK'
<1>0. PICK c \in Transactions : c = CurrentTx(u)
    BY CurrentIsTx DEF buildAndSimulate
<1>1. c \in Transactions /\ Owner(c) = u /\ c[2] = exec[u].attempt
    BY <1>0, CurrentIsTx DEF buildAndSimulate
<1>2. PICK f \in ResourceFees :
        tx' = [tx EXCEPT ![c] = [NoTx EXCEPT !.state = "built", !.seq = seq[u] + 1,
                                             !.valid = Validity, !.resource = f]]
    BY <1>0 DEF buildAndSimulate
<1>3. seq' = seq /\ Moved(u, "signing", exec[u].request)
  <2>1. "signing" \in Phases /\ PollTime \in 0..PollTime
      BY ExecutorAssumption DEF Phases
  <2> QED BY <2>1, PhaseMoves DEF buildAndSimulate
<1> DEFINE x == [NoTx EXCEPT !.state = "built", !.seq = seq[u] + 1, !.valid = Validity, !.resource = f]
<1>4. seq \in [Users -> 0..MaxAttempts] /\ tx \in [Transactions -> TxRecord]
    BY DEF TypeOK, NetworkTypeOK, TxRecord
<1>5. NoTx \in TxRecord
    BY NoTxTyped
<1>6. seq[u] + 1 \in 0..(MaxAttempts + 1) /\ Validity \in 0..Validity
    BY <1>4, NetworkAssumption
<1>7. x \in TxRecord /\ x.state = "built" /\ x.seq = seq[u] + 1
    BY <1>5, <1>6 DEF TxRecord, TxStates
<1> HIDE DEF x
<1>8. tx' = [tx EXCEPT ![c] = x]
    BY <1>2 DEF x
<1>9. tx' \in [Transactions -> TxRecord] /\ tx'[c] = x /\ \A t \in Transactions \ {c} : tx'[t] = tx[t]
    BY <1>1, <1>4, <1>7, <1>8
<1>10. PhasesMoveOn
    BY <1>3 DEF Moved, PhasesMoveOn, Early
<1>11. x.seq <= c[2]
  <2>1. seq[u] < exec[u].attempt
      BY DEF SeqInv, Counted, buildAndSimulate, Early
  <2>2. seq[u] \in Nat /\ exec[u].attempt \in Nat
      BY <1>1, TxFacts, NetworkAssumption
  <2> QED BY <1>1, <1>7, <2>1, <2>2
<1>12. SeqAt(c)'
  <2>1. ~Unbuilt(c)'
    <3>1. exec'[u].phase = "signing" /\ exec'[u].attempt = exec[u].attempt
        BY <1>3 DEF Moved
    <3>2. exec[u].attempt \in Nat
        BY <1>1, TxFacts, NetworkAssumption
    <3> QED BY <1>1, <3>1, <3>2 DEF Unbuilt, Early, Owner
  <2> QED BY <1>7, <1>9, <1>11, <2>1 DEF SeqAt, Included
<1>13. \A t \in Transactions \ {c} : SeqAt(t)'
    BY <1>3, <1>9, <1>10, UnbuiltStays DEF SeqInv, SeqAt, Included
<1>14. OneQueued'
    BY <1>7, <1>9 DEF SeqInv, OneQueued
<1>15. \A v \in Users : Counted(v)'
    BY <1>3, <1>10 DEF SeqInv, Counted, PhasesMoveOn
<1>16. NetworkTypeOK'
    BY <1>3, <1>4, <1>9 DEF NetworkTypeOK, TxRecord
<1> QED
    BY <1>12, <1>13, <1>14, <1>15, <1>16 DEF SeqInv

\* What a transaction that the network takes looks like.
LEMMA PendingFacts ==
    ASSUME NEW t \in Transactions, SendStatus(t) = "PENDING"
    PROVE  /\ tx[t].state # "queued" /\ tx[t].seq = seq[Owner(t)] + 1 /\ tx[t].valid # 0
           /\ \A s \in Transactions : Owner(s) = Owner(t) => tx[s].state # "queued"
BY DEF SendStatus

\* A transaction is sent: it is queued, or nothing happens.
SentShape(t, p) ==
    \/ tx' = tx
    \/ /\ SendStatus(t) = "PENDING"
       /\ tx' \in [Transactions -> TxRecord]
       /\ tx'[t].state = "queued" /\ tx'[t].payer = p /\ tx'[t].seq = tx[t].seq
       /\ tx'[t].resource = tx[t].resource
       /\ \A s \in Transactions \ {t} : tx'[s] = tx[s]

LEMMA SentIs ==
    ASSUME TypeOK, NEW t \in Transactions, NEW p \in {"wallet", "sponsor"}, tx' = Sent(t, p)
    PROVE  SentShape(t, p)
<1>1. CASE SendStatus(t) # "PENDING"
    BY <1>1 DEF Sent, SentShape
<1>2. CASE SendStatus(t) = "PENDING"
  <2>1. tx \in [Transactions -> TxRecord] /\ tx[t] \in TxRecord
      BY TxFacts
  <2> DEFINE x == [tx[t] EXCEPT !.state = "queued", !.payer = p]
  <2>2. x \in TxRecord /\ x.state = "queued" /\ x.payer = p /\ x.seq = tx[t].seq
        /\ x.resource = tx[t].resource
      BY <2>1 DEF TxRecord, TxStates
  <2>3. tx' = [tx EXCEPT ![t] = x]
      BY <1>2, <2>1 DEF Sent
  <2> HIDE DEF x
  <2> QED BY <1>2, <2>1, <2>2, <2>3 DEF SentShape
<1> QED
    BY <1>1, <1>2

LEMMA SentSeq ==
    ASSUME TypeOK, SeqInv, PhasesMoveOn, NEW t \in Transactions, NEW p, SentShape(t, p), seq' = seq
    PROVE  SeqInv' /\ NetworkTypeOK'
<1>1. CASE tx' = tx
    BY <1>1, QuietSeq DEF networkVars
<1>2. CASE tx' # tx
  <2>1. /\ SendStatus(t) = "PENDING"
        /\ tx' \in [Transactions -> TxRecord]
        /\ tx'[t].state = "queued" /\ tx'[t].seq = tx[t].seq
        /\ \A s \in Transactions \ {t} : tx'[s] = tx[s]
      BY <1>2 DEF SentShape
  <2>2. tx[t].seq = seq[Owner(t)] + 1 /\ \A s \in Transactions : Owner(s) = Owner(t) => tx[s].state # "queued"
      BY <2>1, PendingFacts
  <2>3. tx[t] # NoTx
    <3>1. seq[Owner(t)] \in Nat
        BY TxFacts, NetworkAssumption
    <3> QED BY <2>2, <3>1 DEF NoTx
  <2>4. SeqAt(t)'
    <3>1. ~Unbuilt(t)'
        BY <2>3, UnbuiltStays DEF SeqInv, SeqAt
    <3> QED BY <2>1, <2>2, <3>1 DEF SeqInv, SeqAt, Included, Owner
  <2>5. \A s \in Transactions \ {t} : SeqAt(s)'
      BY <2>1, UnbuiltStays DEF SeqInv, SeqAt, Included
  <2>6. OneQueued'
      BY <2>1, <2>2 DEF SeqInv, OneQueued
  <2>7. \A u \in Users : Counted(u)'
      BY DEF SeqInv, Counted, PhasesMoveOn
  <2>8. NetworkTypeOK'
      BY <2>1 DEF TypeOK, NetworkTypeOK, TxRecord
  <2> QED BY <2>4, <2>5, <2>6, <2>7, <2>8 DEF SeqInv
<1> QED
    BY <1>1, <1>2

LEMMA IncludeSeq ==
    ASSUME TypeOK, SeqInv, NEW t \in Transactions, Include(t), exec' = exec
    PROVE  SeqInv' /\ NetworkTypeOK'
<1> DEFINE o == Owner(t)
<1>1. PICK s \in {"applied", "failed"} : tx' = [tx EXCEPT ![t].state = s]
    BY DEF Include
<1>2. /\ tx[t].state = "queued" /\ seq' = [seq EXCEPT ![o] = tx[t].seq]
      /\ seq \in [Users -> 0..MaxAttempts]
    BY DEF Include, TypeOK, NetworkTypeOK
<1>3. tx \in [Transactions -> TxRecord] /\ tx[t] \in TxRecord /\ o \in Users /\ t[2] \in 1..MaxAttempts
      /\ tx[t].seq \in Nat /\ seq[o] \in Nat /\ exec[o].attempt \in Nat
    BY TxFacts, NetworkAssumption
<1> DEFINE x == [tx[t] EXCEPT !.state = s]
<1>4. x \in TxRecord /\ x.state = s /\ x.seq = tx[t].seq
    BY <1>3 DEF TxRecord, TxStates
<1>5. tx' = [tx EXCEPT ![t] = x]
    BY <1>1, <1>3
<1> HIDE DEF x
<1>6. tx' \in [Transactions -> TxRecord] /\ tx'[t] = x /\ \A q \in Transactions \ {t} : tx'[q] = tx[q]
    BY <1>3, <1>4, <1>5
<1>7. tx[t].seq <= t[2] /\ tx[t].seq = seq[o] + 1
    BY <1>2 DEF SeqInv, SeqAt
<1>8. seq' \in [Users -> 0..MaxAttempts]
    BY <1>2, <1>3, <1>7, NetworkAssumption
<1>9. tx[t] # NoTx /\ ~Unbuilt(t)
    BY <1>2 DEF NoTx, SeqInv, SeqAt
<1>10. seq'[o] = seq[o] + 1 /\ \A u \in Users \ {o} : seq'[u] = seq[u]
    BY <1>2, <1>3, <1>7
<1>11. \A q \in Transactions : Unbuilt(q)' => Unbuilt(q)
    BY DEF Unbuilt, Owner
<1>12. SeqAt(t)'
    BY <1>3, <1>4, <1>6, <1>7, <1>9, <1>10, <1>11 DEF SeqAt, Included, Owner
<1>13. ASSUME NEW q \in Transactions \ {t} PROVE SeqAt(q)'
  <2>1. SeqAt(q) /\ tx'[q] = tx[q] /\ Owner(q) \in Users /\ tx[q].seq \in Nat /\ seq[Owner(q)] \in Nat
      BY <1>6, TxFacts, NetworkAssumption DEF SeqInv
  <2>2. CASE Owner(q) # o
      BY <1>10, <1>11, <2>1, <2>2 DEF SeqAt, Included, Owner
  <2>3. CASE Owner(q) = o
    <3>1. tx[q].state # "queued"
        BY <1>2, <2>3 DEF SeqInv, OneQueued
    <3> QED BY <1>3, <1>10, <1>11, <2>1, <2>3, <3>1 DEF SeqAt, Included, Owner
  <2> QED BY <2>2, <2>3
<1>14. OneQueued'
    BY <1>4, <1>6 DEF SeqInv, OneQueued
<1>15. Counted(o)'
  <2>1. t[2] <= exec[o].attempt /\ (exec[o].phase \in Early => t[2] < exec[o].attempt)
      BY <1>3, <1>9 DEF Unbuilt
  <2> QED BY <1>3, <1>7, <1>10, <2>1 DEF Counted
<1>16. \A u \in Users \ {o} : Counted(u)'
    BY <1>10 DEF SeqInv, Counted
<1>17. NetworkTypeOK'
    BY <1>6, <1>8 DEF NetworkTypeOK, TxRecord
<1> HIDE DEF o
<1> QED
    BY <1>12, <1>13, <1>14, <1>15, <1>16, <1>17 DEF SeqInv

\* A tick leaves what a transaction is, but for its time and the queue.
LEMMA TickTx ==
    ASSUME TypeOK, TickNetwork
    PROVE  /\ tx' \in [Transactions -> TxRecord] /\ seq' = seq
           /\ \A t \in Transactions :
                /\ tx'[t].seq = tx[t].seq /\ tx'[t].resource = tx[t].resource
                /\ tx'[t].payer = tx[t].payer
                /\ tx'[t].state = tx[t].state \/ (tx[t].state = "queued" /\ tx'[t].state = "dropped")
                /\ tx[t] = NoTx => tx'[t] = NoTx
<1>1. ASSUME NEW t \in Transactions
      PROVE  /\ tx'[t] \in TxRecord
             /\ tx'[t].seq = tx[t].seq /\ tx'[t].resource = tx[t].resource
             /\ tx'[t].payer = tx[t].payer
             /\ tx'[t].state = tx[t].state \/ (tx[t].state = "queued" /\ tx'[t].state = "dropped")
             /\ tx[t] = NoTx => tx'[t] = NoTx
  <2> DEFINE v == CountDown(tx[t].valid)
             z == IF tx[t].state = "queued" /\ tx[t].valid <= 1 THEN "dropped" ELSE tx[t].state
  <2>1. tx'[t] = [tx[t] EXCEPT !.valid = v, !.state = z]
      BY TxFacts DEF TickNetwork
  <2>2. v \in 0..Validity /\ (tx[t].valid = 0 => v = 0)
      BY TxFacts, NetworkAssumption DEF CountDown
  <2>3. tx[t] \in TxRecord
      BY TxFacts
  <2>4. z \in TxStates /\ (z = tx[t].state \/ (tx[t].state = "queued" /\ z = "dropped"))
      BY <2>3 DEF TxRecord, TxStates
  <2>5. tx[t] = NoTx => (v = 0 /\ z = "none")
      BY <2>2 DEF NoTx
  <2> HIDE DEF v, z
  <2>6. tx'[t] \in TxRecord /\ tx'[t].state = z /\ tx'[t].seq = tx[t].seq
        /\ tx'[t].resource = tx[t].resource /\ tx'[t].payer = tx[t].payer
        /\ tx'[t].valid = v
      BY <2>1, <2>2, <2>3, <2>4 DEF TxRecord
  <2>7. tx[t] = NoTx => tx'[t] = NoTx
    <3> SUFFICES ASSUME tx[t] = NoTx PROVE tx'[t] = NoTx
        OBVIOUS
    <3>1. tx'[t] = [state |-> tx'[t].state, seq |-> tx'[t].seq, valid |-> tx'[t].valid,
                    resource |-> tx'[t].resource, payer |-> tx'[t].payer]
        BY <2>6, NoTxTyped
    <3>2. tx'[t].state = "none" /\ tx'[t].seq = 0 /\ tx'[t].valid = 0 /\ tx'[t].resource = 0
          /\ tx'[t].payer = "none"
        BY <2>5, <2>6 DEF NoTx
    <3> QED BY <3>1, <3>2 DEF NoTx
  <2> QED BY <2>4, <2>6, <2>7
<1>2. tx' = [t \in Transactions |-> tx'[t]] /\ seq' = seq
    BY DEF TickNetwork
<1> QED
    BY <1>1, <1>2

LEMMA TickSeq ==
    ASSUME TypeOK, SeqInv, TickNetwork, TickExecutor
    PROVE  SeqInv' /\ NetworkTypeOK'
<1>1. PhasesMoveOn
    BY TickExecutes DEF PhasesMoveOn
<1>2. \A t \in Transactions : SeqAt(t)'
    BY <1>1, TickTx, UnbuiltStays DEF SeqInv, SeqAt, Included
<1>3. OneQueued'
    BY TickTx DEF SeqInv, OneQueued
<1>4. \A u \in Users : Counted(u)'
    BY <1>1, TickTx DEF SeqInv, Counted, PhasesMoveOn
<1>5. NetworkTypeOK'
    BY TickTx DEF TypeOK, NetworkTypeOK, TxRecord
<1> QED
    BY <1>2, <1>3, <1>4, <1>5 DEF SeqInv


-----------------------------------------------------------------------------
(* Type correctness. *)

BaseInv == TypeOK /\ Begun /\ SeqInv

LEMMA BaseInit == Init => BaseInv
<1> SUFFICES ASSUME Init PROVE BaseInv
    OBVIOUS
<1> USE DEF Init, InitNetwork, InitSponsorship, InitExecutor
<1>1. NetworkTypeOK
  <2>1. seq \in [Users -> 0..MaxAttempts]
      BY NetworkAssumption
  <2>2. tx \in [Transactions -> TxRecord]
      BY NoTxTyped
  <2> QED BY <2>1, <2>2 DEF NetworkTypeOK, TxRecord
<1>2. SponsorTypeOK
  <2>1. /\ NoLock \in [owner : Requests \cup {NoRequest}, ttl : 0..LockTtl]
        /\ NoResult \in [status : Results, ttl : 0..ReplayTtl]
      BY SponsorshipAssumption DEF NoLock, NoResult, Results
  <2>2. /\ lock \in [Transactions -> [owner : Requests \cup {NoRequest}, ttl : 0..LockTtl]]
        /\ result \in [Transactions -> [status : Results, ttl : 0..ReplayTtl]]
      BY <2>1
  <2>3. /\ quota \in [source : [Users -> 0..MaxPerMinute], ip : 0..MaxPerIpMinute]
        /\ budget \in [1..MaxDays -> 0..DailyBudget]
        /\ spent \in [1..MaxDays -> SUBSET Transactions]
        /\ enabled \in BOOLEAN /\ day \in 1..MaxDays /\ faults \in 0..MaxFaults
      BY SponsorshipAssumption
  <2>4. req \in [Requests -> RequestRecord] /\ \A r \in Requests : IsRequest(req[r])
      BY IdleTyped DEF IsRequest
  <2> QED BY <2>2, <2>3, <2>4 DEF SponsorTypeOK, RequestRecord, IsRequest
<1>3. ExecutorTypeOK
  <2>1. NotStarted \in ExecRecord
      BY NetworkAssumption, ExecutorAssumption DEF NotStarted, ExecRecord, Phases
  <2> QED BY <2>1 DEF ExecutorTypeOK, ExecRecord
<1>4. Begun
    BY DEF Begun, NotStarted
<1>5. SeqInv
  <2>1. ASSUME NEW t \in Transactions PROVE SeqAt(t)
    <3>1. t[2] \in Nat /\ tx[t] = NoTx /\ NoTx.seq = 0 /\ NoTx.state = "none"
        BY NetworkAssumption DEF Transactions, NoTx
    <3> QED BY <3>1 DEF SeqAt, Included
  <2>2. OneQueued
      BY DEF OneQueued, NoTx
  <2>3. \A u \in Users : Counted(u)
      BY DEF Counted, NotStarted, Early
  <2> QED BY <2>1, <2>2, <2>3 DEF SeqInv
<1> QED
    BY <1>1, <1>2, <1>3, <1>4, <1>5 DEF BaseInv, TypeOK

\* The payers shown.
LEMMA ShownTypes ==
    ASSUME TypeOK, [Next]_vars
    PROVE  shown' \in [Transactions -> {"none", "wallet", "sponsor"}]
<1>1. shown \in [Transactions -> {"none", "wallet", "sponsor"}]
    BY DEF TypeOK, ExecutorTypeOK
<1>2. ASSUME NEW u \in Users, Sign(u) PROVE shown' \in [Transactions -> {"none", "wallet", "sponsor"}]
    BY <1>1, <1>2 DEF Sign
<1>3. CASE ~\E u \in Users : Sign(u)
  <2>1. shown' = shown
      BY <1>3 DEF Next, vars, Tick, TickExecutor, Ledger, Calendar, Restarting, HangUp, Repost, Handling,
                  Faulting, Unheard, Start, GiveUp, ExecutorStep, SelectMode, buildAndSimulate,
                  Post, Answered, ProxyTimeout, Submit, PollDirect, SubmitFails, PollDirectFails, executorVars
  <2> QED BY <1>1, <2>1
<1> QED
    BY <1>2, <1>3

LEMMA SeqKept ==
    ASSUME BaseInv, [Next]_vars
    PROVE  SeqInv' /\ NetworkTypeOK'
<1> USE DEF BaseInv
<1>1. ASSUME exec' = exec PROVE PhasesMoveOn
    BY <1>1 DEF PhasesMoveOn
<1>2. CASE Tick
    BY <1>2, TickSeq DEF Tick
<1>3. CASE Ledger
    BY <1>3, IncludeSeq DEF Ledger, executorVars
<1>4. ASSUME NEW r \in Requests, Handling(r) \/ Faulting(r)
      PROVE  SeqInv' /\ NetworkTypeOK'
  <2>1. PhasesMoveOn
      BY <1>1, <1>4 DEF Handling, Faulting, executorVars
  <2>2. CASE Send(r) \/ SendFails(r)
    <3>1. req[r].tx \in Transactions
        BY <2>2, TypeFacts DEF Send, SendFails, IsRequest
    <3>2. tx' = tx \/ tx' = Sent(req[r].tx, "sponsor")
        BY <2>2 DEF Send, SendFails
    <3>3. SentShape(req[r].tx, "sponsor")
        BY <3>1, <3>2, SentIs DEF SentShape
    <3>4. seq' = seq
        BY <1>4, <2>2 DEF Handling, Faulting, HandlerStep, HandlerFault, networkVars
    <3>5. PICK t \in Transactions : SentShape(t, "sponsor")
        BY <3>1, <3>3
    <3> QED BY <2>1, <3>4, <3>5, SentSeq
  <2>3. CASE ~Send(r) /\ ~SendFails(r)
    <3>1. UNCHANGED networkVars
        BY <1>4, <2>3 DEF Handling, Faulting, HandlerStep, HandlerFault
    <3> QED BY <2>1, <3>1, QuietSeq
  <2> QED BY <2>2, <2>3
<1>5. CASE Calendar \/ Repost \/ \E r \in Requests : Unheard(r)
  <2>1. exec' = exec /\ UNCHANGED networkVars
      BY <1>5 DEF Calendar, Repost, Unheard, executorVars, networkVars
  <2> QED BY <1>1, <2>1, QuietSeq
<1>6. CASE Restarting
  <2>1. PhasesMoveOn
      BY <1>6, HangUpExecutes DEF Restarting, PhasesMoveOn, Early
  <2> QED BY <1>6, <2>1, QuietSeq DEF Restarting
<1>7. ASSUME NEW u \in Users, GiveUp(u) \/ ExecutorStep(u)
      PROVE  SeqInv' /\ NetworkTypeOK'
  <2>1. CASE buildAndSimulate(u)
      BY <2>1, BuildSeq
  <2>2. CASE ~buildAndSimulate(u)
    <3>1. PhasesMoveOn
        BY <1>7, <2>2, ExecutorMoves DEF Moved, PhasesMoveOn, Early, SelectMode, Sign, Post, Submit
    <3>2. CASE Submit(u) \/ SubmitFails(u)
      <4>1. PICK t \in Transactions : t = CurrentTx(u)
          BY <3>2, CurrentIsTx DEF Submit, SubmitFails
      <4>2. SentShape(t, "wallet") /\ seq' = seq
          BY <3>2, <4>1, SentIs DEF Submit, SubmitFails, SentShape
      <4> QED BY <3>1, <4>2, SentSeq
    <3>3. CASE ~Submit(u) /\ ~SubmitFails(u)
      <4>1. UNCHANGED networkVars
          BY <1>7, <2>2, <3>3 DEF ExecutorStep, GiveUp, SelectMode, Sign, Post, Answered, ProxyTimeout,
                                  PollDirect, PollDirectFails, networkVars
      <4> QED BY <3>1, <4>1, QuietSeq
    <3> QED BY <3>2, <3>3
  <2> QED BY <2>1, <2>2
<1>8. ASSUME NEW u \in Users, Start(u) PROVE SeqInv' /\ NetworkTypeOK'
    BY <1>8, StartSeq
<1>9. CASE UNCHANGED vars
  <2>1. exec' = exec /\ UNCHANGED networkVars
      BY <1>9 DEF vars, executorVars, networkVars
  <2> QED BY <1>1, <2>1, QuietSeq
<1> QED
    BY <1>2, <1>3, <1>4, <1>5, <1>6, <1>7, <1>8, <1>9 DEF Next

LEMMA BaseKept == BaseInv /\ [Next]_vars => BaseInv'
<1> SUFFICES ASSUME BaseInv, [Next]_vars PROVE BaseInv'
    OBVIOUS
<1>1. TypeOK /\ Begun
    BY DEF BaseInv
<1>2. SeqInv' /\ NetworkTypeOK' /\ Begun'
    BY <1>1, SeqKept, BegunKept
<1>3. ExecutorTypeOK'
    BY <1>1, ExecutionTypes, ShownTypes DEF ExecutorTypeOK, ExecRecord
<1>4. SponsorTypeOK'
    BY <1>1, RedisTypes, CounterTypes, RequestTypes DEF SponsorTypeOK, RequestRecord, IsRequest
<1> QED
    BY <1>2, <1>3, <1>4 DEF BaseInv, TypeOK

\* Type correctness of sponsored writes: the daily budget, the quotas and the
\* deadlines never leave their bounds, and a sequence number never passes the
\* attempts of its account.
THEOREM SponsoringTypeCorrect == Spec => []TypeOK
<1>1. BaseInv => TypeOK
    BY DEF BaseInv
<1> QED
    BY <1>1, BaseInit, BaseKept, PTL DEF Spec


-----------------------------------------------------------------------------
(* Who was told to pay. *)

Unsigned(t) ==
    \/ t[2] > exec[Owner(t)].attempt
    \/ t[2] = exec[Owner(t)].attempt /\ exec[Owner(t)].phase \in Early \cup {"signing"}

\* A payer is shown from the signature on, the one of the way that is taken.
ShownInv ==
    /\ \A t \in Transactions : Unsigned(t) => shown[t] = "none"
    /\ \A u \in Users :
         /\ exec[u].phase = "sponsoring" => shown[CurrentTx(u)] = "sponsor"
         /\ exec[u].phase \in {"submitting", "polling"} => shown[CurrentTx(u)] = "wallet"

\* The request a page waits for is the one of its transaction.
HeldInv ==
    \A u \in Users : exec[u].request # NoRequest =>
      req[exec[u].request].pc # "free" /\ req[exec[u].request].tx = CurrentTx(u)

\* The service works on what was signed as sponsored, and counts only that.
ServedInv ==
    /\ \A r \in Requests : req[r].pc # "free" => shown[req[r].tx] = "sponsor"
    /\ \A d \in 1..MaxDays : \A t \in spent[d] : shown[t] = "sponsor"

SignInv == ShownInv /\ HeldInv /\ ServedInv /\ NoSilentCharge

LEMMA SignInit == Init => SignInv
BY DEF Init, InitNetwork, InitSponsorship, InitExecutor, SignInv, ShownInv, HeldInv, ServedInv,
       NoSilentCharge, NotStarted, Idle, NoTx

\* Only a signature changes what is shown, and that transaction had no payer.
LEMMA OnlySignShows ==
    ASSUME [Next]_vars
    PROVE  shown' = shown \/ \E u \in Users : Sign(u)
BY DEF Next, vars, Tick, TickExecutor, Ledger, Calendar, Restarting, HangUp, Repost, Handling,
       Faulting, Unheard, Start, GiveUp, ExecutorStep, SelectMode, buildAndSimulate,
       Post, Answered, ProxyTimeout, Submit, PollDirect, SubmitFails, PollDirectFails, executorVars

LEMMA ShownStays ==
    ASSUME BaseInv, SignInv, [Next]_vars, NEW t \in Transactions, shown[t] # "none"
    PROVE  shown'[t] = shown[t]
<1>1. shown \in [Transactions -> {"none", "wallet", "sponsor"}]
    BY DEF BaseInv, TypeOK, ExecutorTypeOK
<1>2. ASSUME NEW u \in Users, Sign(u) PROVE shown'[t] = shown[t]
  <2>1. CurrentTx(u) \in Transactions /\ CurrentTx(u)[2] = exec[u].attempt /\ Owner(CurrentTx(u)) = u
      BY <1>2, CurrentIsTx DEF Sign, BaseInv
  <2>2. shown[CurrentTx(u)] = "none"
      BY <1>2, <2>1 DEF SignInv, ShownInv, Unsigned, Sign
  <2>3. t # CurrentTx(u)
      BY <2>2
  <2> QED BY <1>1, <1>2, <2>3 DEF Sign
<1> QED
    BY <1>2, OnlySignShows

\* A step of the pages, as far as ShownInv looks.
LEMMA ShownMoves ==
    ASSUME BaseInv, ShownInv, shown' = shown,
           \A u \in Users :
             /\ exec'[u].attempt = exec[u].attempt
             /\ exec'[u].phase \in Early \cup {"signing"} => exec[u].phase \in Early \cup {"signing"}
             /\ exec'[u].phase = "sponsoring" => exec[u].phase = "sponsoring"
             /\ exec'[u].phase \in {"submitting", "polling"} => exec[u].phase \in {"submitting", "polling"}
    PROVE  ShownInv'
<1>1. ASSUME NEW t \in Transactions, Unsigned(t)' PROVE shown'[t] = "none"
  <2>1. Owner(t) \in Users
      BY DEF Owner, Transactions
  <2> QED BY <1>1, <2>1 DEF ShownInv, Unsigned, Owner
<1>2. \A u \in Users : CurrentTx(u)' = CurrentTx(u)
    BY DEF CurrentTx
<1>3. \A u \in Users :
        /\ exec'[u].phase = "sponsoring" => shown'[CurrentTx(u)'] = "sponsor"
        /\ exec'[u].phase \in {"submitting", "polling"} => shown'[CurrentTx(u)'] = "wallet"
    BY <1>2 DEF ShownInv
<1> QED
    BY <1>1, <1>3 DEF ShownInv

LEMMA ShownKept ==
    ASSUME BaseInv, ShownInv, [Next]_vars
    PROVE  ShownInv'
<1>0. TypeOK /\ Begun
    BY DEF BaseInv
<1>1. CASE UNCHANGED exec /\ shown' = shown
    BY <1>1, ShownMoves
<1>2. CASE TickExecutor
    BY <1>0, <1>2, TickExecutes, ShownMoves DEF TickExecutor
<1>3. CASE HangUp
  <2>1. \A u \in Users : exec'[u].attempt = exec[u].attempt /\ exec'[u].phase \in {exec[u].phase, "failed"}
      BY <1>0, <1>3, HangUpExecutes
  <2>2. shown' = shown
      BY <1>3 DEF HangUp
  <2> QED BY <2>1, <2>2, ShownMoves DEF Early
<1>4. ASSUME NEW u \in Users, Start(u) PROVE ShownInv'
  <2>1. /\ exec'[u].phase = "selecting" /\ exec'[u].attempt = exec[u].attempt + 1
        /\ shown' = shown /\ \A v \in Users \ {u} : exec'[v] = exec[v]
      BY <1>0, <1>4, StartMoves DEF Start
  <2>2. exec[u].attempt \in Nat
      BY <1>0, TypeFacts, NetworkAssumption DEF ExecRecord
  <2>3. ASSUME NEW t \in Transactions, Unsigned(t)' PROVE shown'[t] = "none"
    <3>1. t[2] \in Nat /\ Owner(t) \in Users
        BY <1>0, TxFacts, NetworkAssumption
    <3>2. CASE Owner(t) = u
      <4>1. t[2] > exec[u].attempt
          BY <2>1, <2>2, <2>3, <3>1, <3>2 DEF Unsigned, Owner
      <4> QED BY <2>1, <3>2, <4>1 DEF ShownInv, Unsigned
    <3>3. CASE Owner(t) # u
        BY <2>1, <2>3, <3>1, <3>3 DEF ShownInv, Unsigned, Owner
    <3> QED BY <3>2, <3>3
  <2>4. \A v \in Users \ {u} : CurrentTx(v)' = CurrentTx(v)
      BY <2>1 DEF CurrentTx
  <2> QED BY <2>1, <2>3, <2>4 DEF ShownInv
<1>5. ASSUME NEW u \in Users, Sign(u) PROVE ShownInv'
  <2> DEFINE w == IF exec[u].mode = "sponsored" THEN "sponsor" ELSE "wallet"
             p == IF exec[u].mode = "sponsored" THEN "sponsoring" ELSE "submitting"
  <2>1. Moved(u, p, exec[u].request)
    <3>1. p \in Phases /\ PollTime \in 0..PollTime
        BY ExecutorAssumption DEF Phases
    <3> QED BY <1>0, <1>5, <3>1, PhaseMoves DEF Sign
  <2>2. PICK c \in Transactions : c = CurrentTx(u)
      BY <1>0, <1>5, CurrentIsTx DEF Sign
  <2>3. shown' = [shown EXCEPT ![c] = w] /\ shown \in [Transactions -> {"none", "wallet", "sponsor"}]
      BY <1>0, <1>5, <2>2 DEF Sign, TypeOK, ExecutorTypeOK
  <2>4. /\ exec'[u].phase = p /\ exec'[u].attempt = exec[u].attempt
        /\ \A v \in Users \ {u} : exec'[v] = exec[v]
      BY <2>1 DEF Moved
  <2>5. \A v \in Users : CurrentTx(v)' = CurrentTx(v)
      BY <2>4 DEF CurrentTx
  <2>6. c[2] = exec[u].attempt /\ Owner(c) = u
      BY <1>0, <1>5, <2>2, CurrentIsTx DEF Sign
  <2>7. shown'[c] = w /\ \A t \in Transactions \ {c} : shown'[t] = shown[t]
      BY <2>3
  <2>8. ASSUME NEW t \in Transactions, Unsigned(t)' PROVE shown'[t] = "none"
    <3>1. Owner(t) \in Users /\ t[2] \in Nat /\ exec[u].attempt \in Nat
        BY <1>0, TxFacts, TypeFacts, NetworkAssumption DEF ExecRecord
    <3>2. t # c
      <4>1. p \notin Early \cup {"signing"}
          BY DEF Early
      <4> QED BY <2>4, <2>6, <2>8, <3>1, <4>1 DEF Unsigned, Owner
    <3>3. Unsigned(t)
        BY <1>5, <2>4, <2>8, <3>1 DEF Unsigned, Owner, Early, Sign
    <3> QED BY <2>7, <3>2, <3>3 DEF ShownInv
  <2>9. ASSUME NEW v \in Users
        PROVE  /\ exec'[v].phase = "sponsoring" => shown'[CurrentTx(v)] = "sponsor"
               /\ exec'[v].phase \in {"submitting", "polling"} => shown'[CurrentTx(v)] = "wallet"
    <3>1. CASE v = u
        BY <2>2, <2>4, <2>7, <3>1
    <3>2. CASE v # u /\ exec[v].phase \in {"sponsoring", "submitting", "polling"}
      <4>1. CurrentTx(v) \in Transactions /\ Owner(CurrentTx(v)) = v
          BY <1>0, <3>2, CurrentIsTx
      <4>2. CurrentTx(v) # c
          BY <2>6, <3>2, <4>1
      <4> QED BY <2>4, <2>7, <3>2, <4>1, <4>2 DEF ShownInv
    <3>3. CASE v # u /\ exec[v].phase \notin {"sponsoring", "submitting", "polling"}
        BY <2>4, <3>3
    <3> QED BY <3>1, <3>2, <3>3
  <2> QED BY <2>5, <2>8, <2>9 DEF ShownInv
<1>6. ASSUME NEW u \in Users, (GiveUp(u) \/ ExecutorStep(u)) /\ ~Sign(u) PROVE ShownInv'
  <2>1. shown' = shown
      BY <1>6 DEF GiveUp, ExecutorStep, SelectMode, buildAndSimulate, Post, Answered, ProxyTimeout, Submit,
                  PollDirect, SubmitFails, PollDirectFails
  <2>2. \A v \in Users :
          /\ exec'[v].attempt = exec[v].attempt
          /\ exec'[v].phase \in Early \cup {"signing"} => exec[v].phase \in Early \cup {"signing"}
          /\ exec'[v].phase = "sponsoring" => exec[v].phase = "sponsoring"
          /\ exec'[v].phase \in {"submitting", "polling"} => exec[v].phase \in {"submitting", "polling"}
      BY <1>0, <1>6, ExecutorMoves DEF Moved, Early, SelectMode, buildAndSimulate, Post, Submit
  <2> QED BY <2>1, <2>2, ShownMoves
<1>7. CASE UNCHANGED exec
  <2>1. \A u \in Users : Sign(u) => FALSE
    <3> SUFFICES ASSUME NEW u \in Users, Sign(u) PROVE FALSE
        OBVIOUS
    <3>1. exec'[u].phase \in {"sponsoring", "submitting"}
        BY <1>0, TypeFacts DEF Sign, ExecRecord
    <3> QED BY <1>7, <3>1 DEF Sign
  <2> QED BY <1>1, <1>7, <2>1, OnlySignShows
<1> QED
    BY <1>0, <1>2, <1>3, <1>4, <1>5, <1>6, <1>7, ExecutionSteps


\* No two pages wait for one request, and a slot that is free is nobody's.
LEMMA HeldKept ==
    ASSUME BaseInv, HeldInv, [Next]_vars
    PROVE  HeldInv'
<1>0. TypeOK /\ Begun /\ \A u \in Users : exec[u] \in ExecRecord
    BY TypeFacts DEF BaseInv
<1>1. ASSUME NEW u \in Users, exec[u].request # NoRequest
      PROVE  exec[u].request \in Requests /\ exec[u].phase = "sponsoring"
    BY <1>0, <1>1 DEF ExecRecord, Begun
<1>2. ASSUME \A u \in Users : /\ exec'[u].attempt = exec[u].attempt
                              /\ exec'[u].request \in {exec[u].request, NoRequest},
             \A u \in Users : exec'[u].request # NoRequest =>
               /\ req'[exec[u].request].tx = req[exec[u].request].tx
               /\ req'[exec[u].request].pc # "free"
      PROVE  HeldInv'
  <2>1. \A u \in Users : CurrentTx(u)' = CurrentTx(u)
      BY <1>2 DEF CurrentTx
  <2> QED BY <1>2, <2>1 DEF HeldInv
<1>3. ASSUME NEW r \in Requests, Handling(r) \/ Faulting(r)
      PROVE  HeldInv'
  <2>1. exec' = exec
      BY <1>3 DEF Handling, Faulting, executorVars
  <2>2. PICK q \in RequestRecord : req' = [req EXCEPT ![r] = q] /\ req[r].pc # "free" /\ q.pc # "free" /\ q.tx = req[r].tx
      BY <1>0, <1>3, HandlerHandles DEF Handled, Handling, Faulting
  <2>3. \A s \in Requests : req'[s].tx = req[s].tx /\ (req[s].pc # "free" => req'[s].pc # "free")
      BY <1>0, <2>2, TypeFacts
  <2> QED BY <1>1, <1>2, <2>1, <2>3 DEF HeldInv
<1>4. CASE Tick
  <2>1. \A s \in Requests : req'[s].tx = req[s].tx /\ req'[s].pc = req[s].pc
      BY <1>0, <1>4, TickRequests DEF Tick
  <2>2. \A u \in Users : exec'[u].attempt = exec[u].attempt /\ exec'[u].request = exec[u].request
      BY <1>0, <1>4, TickExecutes DEF Tick
  <2> QED BY <1>1, <1>2, <2>1, <2>2 DEF HeldInv
<1>5. CASE Restarting
    BY <1>0, <1>5, HangUpExecutes DEF Restarting, HeldInv
<1>6. CASE Repost
  <2>1. PICK t \in Transactions : \E q : TakenIn(Slot, t, q)
      BY <1>0, <1>6, ArriveTakesIn DEF Repost
  <2>2. \A s \in Requests : req[s].pc # "free" => req'[s] = req[s]
      BY <1>0, <2>1, TypeFacts DEF TakenIn
  <2>3. exec' = exec
      BY <1>6 DEF Repost, executorVars
  <2> QED BY <1>1, <1>2, <2>2, <2>3 DEF HeldInv
<1>7. ASSUME NEW r \in Requests, Unheard(r)
      PROVE  HeldInv'
  <2>1. exec' = exec /\ \A u \in Users : exec[u].request # r
      BY <1>7 DEF Unheard, executorVars
  <2>2. \A s \in Requests \ {r} : req'[s] = req[s]
      BY <1>0, <1>7, TypeFacts DEF Unheard
  <2> QED BY <1>1, <1>2, <2>1, <2>2 DEF HeldInv
<1>8. CASE Ledger \/ Calendar \/ UNCHANGED vars
  <2>1. exec' = exec /\ req' = req
      BY <1>8 DEF Ledger, Calendar, NextMinute, NextDay, vars, executorVars, sponsorVars
  <2> QED BY <1>2, <2>1 DEF HeldInv
<1>9. ASSUME NEW u \in Users, Start(u) PROVE HeldInv'
  <2>1. req' = req /\ exec'[u].request = NoRequest /\ \A v \in Users \ {u} : exec'[v] = exec[v]
      BY <1>0, <1>9, StartMoves DEF Start, sponsorVars
  <2>2. \A v \in Users \ {u} : CurrentTx(v)' = CurrentTx(v)
      BY <2>1 DEF CurrentTx
  <2> QED BY <2>1, <2>2 DEF HeldInv
<1>10. ASSUME NEW u \in Users, Post(u) PROVE HeldInv'
  <2>1. CurrentTx(u) \in Transactions
      BY <1>0, <1>10, CurrentIsTx DEF Post
  <2>2. PICK q : TakenIn(Slot, CurrentTx(u), q)
      BY <1>0, <1>10, <2>1, ArriveTakesIn DEF Post
  <2>3. Slot \in Requests /\ req[Slot].pc = "free" /\ req'[Slot] = q /\ q.pc # "free" /\ q.tx = CurrentTx(u)
        /\ \A s \in Requests \ {Slot} : req'[s] = req[s]
      BY <1>0, <2>2, TypeFacts DEF TakenIn
  <2>4. Moved(u, exec[u].phase, Slot)
      BY <1>0, <1>10, <2>3, PostMoves DEF Post
  <2>5. \A v \in Users : CurrentTx(v)' = CurrentTx(v)
      BY <2>4 DEF Moved, CurrentTx
  <2>6. \A v \in Users \ {u} : exec[v].request # Slot /\ exec'[v].request = exec[v].request
    <3>1. \A v \in Users \ {u} : exec'[v] = exec[v]
        BY <2>4 DEF Moved
    <3>2. \A v \in Users : exec[v].request # Slot
        BY <2>3, SponsorshipAssumption DEF HeldInv
    <3> QED BY <3>1, <3>2
  <2>7. ASSUME NEW v \in Users, exec'[v].request # NoRequest
        PROVE  req'[exec'[v].request].pc # "free" /\ req'[exec'[v].request].tx = CurrentTx(v)
    <3>1. CASE v = u
        BY <2>3, <2>4, <3>1 DEF Moved
    <3>2. CASE v # u
      <4>1. exec[v].request \in Requests \ {Slot}
          BY <1>1, <2>6, <2>7, <3>2
      <4> QED BY <2>3, <2>6, <2>7, <3>2, <4>1 DEF HeldInv
    <3> QED BY <3>1, <3>2
  <2> QED BY <2>5, <2>7 DEF HeldInv
<1>11. ASSUME NEW u \in Users, Answered(u) PROVE HeldInv'
  <2> DEFINE r == exec[u].request
  <2>1. r \in Requests /\ r # NoRequest /\ req' = [req EXCEPT ![r] = Idle]
      BY <1>0, <1>11 DEF Answered, ExecRecord
  <2>2. \A s \in Requests \ {r} : req'[s] = req[s]
      BY <1>0, <2>1, TypeFacts
  <2>3. exec'[u].request = NoRequest /\ \A v \in Users \ {u} : exec'[v] = exec[v]
      BY <1>0, <1>11, EndsMoves DEF Answered, Moved
  <2>4. ASSUME NEW v \in Users \ {u}, exec[v].request # NoRequest PROVE exec[v].request # r
    <3>1. req[exec[v].request].tx = CurrentTx(v) /\ req[r].tx = CurrentTx(u)
        BY <2>1, <2>4 DEF HeldInv
    <3>2. CurrentTx(v) # CurrentTx(u)
        BY DEF CurrentTx
    <3> QED BY <3>1, <3>2
  <2>5. \A v \in Users \ {u} : CurrentTx(v)' = CurrentTx(v)
      BY <2>3 DEF CurrentTx
  <2>6. ASSUME NEW v \in Users, exec'[v].request # NoRequest
        PROVE  req'[exec'[v].request].pc # "free" /\ req'[exec'[v].request].tx = CurrentTx(v)'
    <3>1. v # u /\ exec'[v] = exec[v]
        BY <2>3, <2>6
    <3>2. exec[v].request \in Requests \ {r}
        BY <1>1, <2>4, <2>6, <3>1
    <3> HIDE DEF r
    <3> QED BY <2>2, <2>5, <2>6, <3>1, <3>2 DEF HeldInv
  <2> QED BY <2>6 DEF HeldInv
<1>12. ASSUME NEW u \in Users, (GiveUp(u) \/ ExecutorStep(u)) /\ ~Post(u) /\ ~Answered(u) PROVE HeldInv'
  <2>1. req' = req
      BY <1>12 DEF GiveUp, ExecutorStep, SelectMode, buildAndSimulate, Sign, ProxyTimeout, Submit,
                  PollDirect, SubmitFails, PollDirectFails, sponsorVars
  <2>2. \A v \in Users : exec'[v].attempt = exec[v].attempt
                         /\ exec'[v].request \in {exec[v].request, NoRequest}
      BY <1>0, <1>12, ExecutorMoves DEF Moved
  <2> QED BY <1>2, <2>1, <2>2 DEF HeldInv
<1> QED
    BY <1>3, <1>4, <1>5, <1>6, <1>7, <1>8, <1>9, <1>10, <1>11, <1>12 DEF Next


\* What a step makes of a transaction: it charges who was shown, and leaves
\* the fee of what was signed and what a ledger holds alone.
LEMMA TxSteps ==
    ASSUME BaseInv, SignInv, [Next]_vars, NEW t \in Transactions
    PROVE  /\ tx'[t].payer \in {tx[t].payer, shown[t], "none"}
           /\ shown[t] # "none" => tx'[t].resource = tx[t].resource
           /\ tx[t].state = "applied" => tx'[t].state = "applied"
<1>0. TypeOK /\ Begun /\ SeqInv /\ tx \in [Transactions -> TxRecord] /\ tx[t] \in TxRecord
    BY TxFacts DEF BaseInv
<1>1. ASSUME NEW s \in Transactions, SentShape(s, shown[s])
      PROVE  /\ tx'[t].payer \in {tx[t].payer, shown[t], "none"}
             /\ shown[t] # "none" => tx'[t].resource = tx[t].resource
             /\ tx[t].state = "applied" => tx'[t].state = "applied"
  <2>1. CASE tx' = tx
      BY <2>1
  <2>2. CASE s # t
      BY <1>1, <2>2 DEF SentShape
  <2>3. CASE s = t /\ SendStatus(t) = "PENDING"
    <3>1. tx[t].seq = seq[Owner(t)] + 1 /\ tx[t].seq \in Nat /\ seq[Owner(t)] \in Nat
        BY <1>0, <2>3, PendingFacts, TxFacts, NetworkAssumption
    <3>2. tx[t].state # "applied"
      <4> SUFFICES ASSUME tx[t].state = "applied" PROVE FALSE
          OBVIOUS
      <4>1. tx[t].seq <= seq[Owner(t)]
          BY <1>0 DEF SeqInv, SeqAt, Included
      <4> QED BY <3>1, <4>1
    <3> QED BY <1>1, <2>3, <3>2 DEF SentShape
  <2> QED BY <1>1, <2>1, <2>2, <2>3 DEF SentShape
<1>2. ASSUME NEW r \in Requests, Send(r) \/ SendFails(r)
      PROVE  \E s \in Transactions : SentShape(s, shown[s])
  <2>1. req[r].tx \in Transactions /\ shown[req[r].tx] = "sponsor"
      BY <1>0, <1>2, TypeFacts DEF Send, SendFails, IsRequest, SignInv, ServedInv
  <2>2. tx' = tx \/ tx' = Sent(req[r].tx, "sponsor")
      BY <1>2 DEF Send, SendFails
  <2>3. SentShape(req[r].tx, "sponsor")
      BY <1>0, <2>1, <2>2, SentIs DEF SentShape
  <2> QED BY <2>1, <2>3
<1>3. ASSUME NEW u \in Users, Submit(u) \/ SubmitFails(u)
      PROVE  \E s \in Transactions : SentShape(s, shown[s])
  <2>1. CurrentTx(u) \in Transactions /\ shown[CurrentTx(u)] = "wallet"
      BY <1>0, <1>3, CurrentIsTx DEF Submit, SubmitFails, SignInv, ShownInv
  <2>2. SentShape(CurrentTx(u), "wallet")
      BY <1>0, <1>3, <2>1, SentIs DEF Submit, SubmitFails, SentShape
  <2> QED BY <2>1, <2>2
<1>4. ASSUME NEW u \in Users, buildAndSimulate(u)
      PROVE  /\ tx'[t].payer \in {tx[t].payer, shown[t], "none"}
             /\ shown[t] # "none" => tx'[t].resource = tx[t].resource
             /\ tx[t].state = "applied" => tx'[t].state = "applied"
  <2> DEFINE c == CurrentTx(u)
  <2>1. c \in Transactions /\ c[2] = exec[u].attempt /\ Owner(c) = u /\ exec[u].phase = "building"
      BY <1>0, <1>4, CurrentIsTx DEF buildAndSimulate
  <2>2. tx[c] = NoTx /\ shown[c] = "none"
      BY <1>0, <2>1 DEF SeqInv, SeqAt, Unbuilt, Early, SignInv, ShownInv, Unsigned
  <2>3. PICK f \in ResourceFees :
          tx' = [tx EXCEPT ![c] = [NoTx EXCEPT !.state = "built", !.seq = seq[u] + 1,
                                               !.valid = Validity, !.resource = f]]
      BY <1>4 DEF buildAndSimulate
  <2> DEFINE x == [NoTx EXCEPT !.state = "built", !.seq = seq[u] + 1, !.valid = Validity, !.resource = f]
  <2>4. x.payer = "none"
      BY DEF NoTx
  <2> HIDE DEF c, x
  <2>5. tx' = [tx EXCEPT ![c] = x]
      BY <2>3 DEF x
  <2>6. CASE t # c
      BY <1>0, <2>5, <2>6
  <2>7. CASE t = c
      BY <1>0, <2>2, <2>4, <2>5, <2>7 DEF NoTx
  <2> QED BY <2>6, <2>7
<1>5. ASSUME NEW s \in Transactions, Include(s)
      PROVE  /\ tx'[t].payer = tx[t].payer /\ tx'[t].resource = tx[t].resource
             /\ tx[t].state = "applied" => tx'[t].state = "applied"
  <2>1. PICK o \in {"applied", "failed"} : tx' = [tx EXCEPT ![s].state = o]
      BY <1>5 DEF Include
  <2>2. CASE s # t
      BY <1>0, <2>1, <2>2
  <2>3. CASE s = t
    <3>1. tx'[t] = [tx[t] EXCEPT !.state = o] /\ tx[t].state # "applied"
        BY <1>0, <1>5, <2>1, <2>3 DEF Include
    <3> QED BY <1>0, <3>1 DEF TxRecord
  <2> QED BY <2>2, <2>3
<1>6. CASE TickNetwork
    BY <1>0, <1>6, TickTx
<1>7. ASSUME ~TickNetwork, ~\E s \in Transactions : Include(s),
             ~\E r \in Requests : Send(r) \/ SendFails(r),
             ~\E u \in Users : Submit(u) \/ SubmitFails(u) \/ buildAndSimulate(u)
      PROVE  tx' = tx
    BY <1>7 DEF Next, vars, Tick, Ledger, Calendar, Restarting, Repost, Handling, Faulting, HandlerStep,
                HandlerFault, Unheard, Start, GiveUp, ExecutorStep, SelectMode, Sign, Post, Answered,
                ProxyTimeout, PollDirect, PollDirectFails, networkVars
<1> QED
    BY <1>1, <1>2, <1>3, <1>4, <1>5, <1>6, <1>7

\* A request comes in for what was signed as sponsored.
LEMMA ServedKept ==
    ASSUME BaseInv, SignInv, [Next]_vars
    PROVE  ServedInv'
<1>0. TypeOK /\ Begun /\ \A r \in Requests : IsRequest(req[r])
    BY TypeFacts DEF BaseInv
<1>1. \A t \in Transactions : shown[t] = "sponsor" => shown'[t] = "sponsor"
    BY ShownStays
<1>2. \A r \in Requests : req[r].pc # "free" => req[r].tx \in Transactions /\ shown[req[r].tx] = "sponsor"
    BY <1>0 DEF IsRequest, SignInv, ServedInv
<1>3. \A r \in Requests : req'[r].pc # "free" => shown'[req'[r].tx] = "sponsor"
  <2>1. CASE req' = req
      BY <1>1, <1>2, <2>1
  <2>2. CASE req' = [r \in Requests |-> Idle]
      BY <2>2, IdleTyped
  <2>3. CASE TickSponsorship
      BY <1>0, <1>1, <1>2, <2>3, TickRequests
  <2>4. ASSUME NEW r \in Requests, HandlerStep(r) \/ HandlerFault(r)
        PROVE  \A s \in Requests : req'[s].pc # "free" => shown'[req'[s].tx] = "sponsor"
    <3>1. PICK q \in RequestRecord : req' = [req EXCEPT ![r] = q] /\ req[r].pc # "free" /\ q.tx = req[r].tx
        BY <1>0, <2>4, HandlerHandles DEF Handled
    <3>2. \A s \in Requests : req'[s].pc # "free" => req[s].pc # "free" /\ req'[s].tx = req[s].tx
        BY <1>0, <3>1, TypeFacts
    <3> QED BY <1>1, <1>2, <3>2
  <2>5. ASSUME NEW t \in Transactions, NEW q, TakenIn(Slot, t, q), shown[t] = "sponsor"
        PROVE  \A s \in Requests : req'[s].pc # "free" => shown'[req'[s].tx] = "sponsor"
    <3>1. Slot \in Requests /\ req'[Slot] = q /\ q.tx = t /\ \A s \in Requests \ {Slot} : req'[s] = req[s]
        BY <1>0, <2>5, TypeFacts DEF TakenIn
    <3> QED BY <1>1, <1>2, <2>5, <3>1
  <2>6. ASSUME NEW r \in Requests, req' = [req EXCEPT ![r] = Idle]
        PROVE  \A s \in Requests : req'[s].pc # "free" => shown'[req'[s].tx] = "sponsor"
    <3>1. req'[r] = Idle /\ \A s \in Requests \ {r} : req'[s] = req[s]
        BY <1>0, <2>6, TypeFacts
    <3> QED BY <1>1, <1>2, <3>1, IdleTyped
  <2>7. \A u \in Users : Post(u) => CurrentTx(u) \in Transactions /\ shown[CurrentTx(u)] = "sponsor"
      BY <1>0, CurrentIsTx DEF Post, SignInv, ShownInv
  <2>8. CASE UNCHANGED vars
      BY <2>1, <2>8 DEF vars, sponsorVars
  <2> QED BY <1>0, <2>1, <2>2, <2>3, <2>4, <2>5, <2>6, <2>7, <2>8, RequestSteps
<1>4. \A d \in 1..MaxDays : \A t \in spent'[d] : shown'[t] = "sponsor"
  <2>1. spent \in [1..MaxDays -> SUBSET Transactions]
      BY <1>0 DEF TypeOK, SponsorTypeOK
  <2>2. CASE spent' = spent
      BY <1>1, <2>1, <2>2 DEF SignInv, ServedInv
  <2>3. ASSUME NEW r \in Requests, Send(r) \/ SendFails(r), spent' # spent
        PROVE  \A d \in 1..MaxDays : \A t \in spent'[d] : shown'[t] = "sponsor"
    <3>1. spent' = [spent EXCEPT ![req[r].day] = spent[req[r].day] \cup {req[r].tx}]
        BY <2>3 DEF Send, SendFails
    <3>2. req[r].tx \in Transactions /\ shown[req[r].tx] = "sponsor"
        BY <1>2, <2>3 DEF Send, SendFails
    <3>3. \A d \in 1..MaxDays : \A t \in spent'[d] : t \in spent[d] \/ t = req[r].tx
        BY <2>1, <3>1
    <3> QED BY <1>1, <2>1, <3>2, <3>3 DEF SignInv, ServedInv
  <2>4. ASSUME ~\E r \in Requests : Send(r) \/ SendFails(r)
        PROVE  spent' = spent
      BY <2>4 DEF Next, vars, Tick, TickSponsorship, Ledger, Calendar, NextMinute, NextDay, Restarting, Restart,
                  Repost, Arrive, Handling, Faulting, HandlerStep, HandlerFault, Terminal, Acquire, Reserve,
                  Poll, CheckLock, StoreResult, Unlock, ReleaseBudget, Release, DropLock, BuildFails, PollFails,
                  RedisFails, Unheard,
                  Start, GiveUp, ExecutorStep, SelectMode, buildAndSimulate, Sign, Post, Answered,
                  ProxyTimeout, Submit, PollDirect, SubmitFails, PollDirectFails, sponsorVars
  <2> QED BY <2>2, <2>3, <2>4
<1> QED
    BY <1>3, <1>4 DEF ServedInv

LEMMA ChargeKept ==
    ASSUME BaseInv, SignInv, [Next]_vars
    PROVE  NoSilentCharge'
<1> SUFFICES ASSUME NEW t \in Transactions, tx'[t].payer # "none"
             PROVE  tx'[t].payer = shown'[t]
    BY DEF NoSilentCharge
<1>1. tx'[t].payer = tx[t].payer \/ tx'[t].payer = shown[t]
    BY TxSteps
<1>2. tx[t].payer # "none" => tx[t].payer = shown[t]
    BY DEF SignInv, NoSilentCharge
<1> QED
    BY <1>1, <1>2, ShownStays

LEMMA SignKept ==
    ASSUME BaseInv, SignInv, [Next]_vars
    PROVE  SignInv'
BY ShownKept, HeldKept, ServedKept, ChargeKept DEF SignInv

(***************************************************************************)
(* No wallet pays a network fee for a transaction its owner signed as paid *)
(* by the sponsor, and the sponsor pays for none that was signed as paid   *)
(* by the wallet, whatever fails, is repeated or switched off in between   *)
(* (execute.ts, service.ts).                                               *)
(***************************************************************************)
THEOREM NeverSilentlyCharged == Spec => []NoSilentCharge
<1>1. Init => BaseInv /\ SignInv
    BY BaseInit, SignInit
<1>2. BaseInv /\ SignInv /\ [Next]_vars => (BaseInv /\ SignInv)'
    BY BaseKept, SignKept
<1>3. SignInv => NoSilentCharge
    BY DEF SignInv
<1> QED
    BY <1>1, <1>2, <1>3, PTL DEF Spec


-----------------------------------------------------------------------------
(* What the service says of a transaction is true of it. *)

\* A transaction the fee policy does not cover (none is covered below the
\* network's floor).
TooDear(t) ==
    BaseFee < INCLUSION_FEE_CEILING \/ tx[t].resource > MaxResourceFee \/ OuterFee(t) > MaxTotalFee
Truthful(t, code) ==
    /\ code = "success" => tx[t].state = "applied"
    /\ code \in {"DISALLOWED", "FEE_LIMIT"} => shown[t] = "sponsor" /\ TooDear(t)

\* The codes the handlers carry, the results Redis keeps and the successes
\* the pages report.
TruthInv ==
    /\ \A r \in Requests : req[r].pc # "free" => Truthful(req[r].tx, req[r].code)
    /\ \A t \in Transactions : Truthful(t, result[t].status)
    /\ \A u \in Users : exec[u].phase = "success" => tx[CurrentTx(u)].state = "applied"

LEMMA TruthInit == Init => TruthInv
BY DEF Init, InitNetwork, InitSponsorship, InitExecutor, TruthInv, Truthful, NotStarted, Idle, NoResult

\* What is true of a transaction stays true of it.
LEMMA TruthStays ==
    ASSUME BaseInv, SignInv, [Next]_vars, NEW t \in Transactions, NEW code, Truthful(t, code)
    PROVE  Truthful(t, code)'
<1>1. tx[t].state = "applied" => tx'[t].state = "applied"
    BY TxSteps
<1>2. shown[t] = "sponsor" => shown'[t] = "sponsor" /\ tx'[t].resource = tx[t].resource
    BY TxSteps, ShownStays
<1> QED
    BY <1>1, <1>2 DEF Truthful, TooDear, OuterFee

\* The app's own calls are all on the list of what is sponsored.
LEMMA AppCallsAllowed ==
    ASSUME NEW call \in AppCalls
    PROVE  assertAllowedContractCall(call)
<1>1. CASE call \in AmmCalls
    BY <1>1 DEF AmmCalls, assertAllowedContractCall, SPONSORED_METHODS
<1>2. CASE call \in VaultCalls
    BY <1>2 DEF VaultCalls, assertAllowedContractCall, SPONSORED_METHODS
<1>3. CASE call \in OracleCalls
    BY <1>3 DEF OracleCalls, assertAllowedContractCall, SPONSORED_METHODS
<1>4. CASE call \in CouncilCalls
    BY <1>4 DEF CouncilCalls, assertAllowedContractCall, SPONSORED_METHODS
<1>5. CASE call \in {SweepCall, RegistryCall, TimelockCall, FactoryCall}
    BY <1>5 DEF SweepCall, RegistryCall, TimelockCall, FactoryCall, assertAllowedContractCall, SPONSORED_METHODS
<1> QED
    BY <1>1, <1>2, <1>3, <1>4, <1>5 DEF AppCalls

\* So a call of the app that the checks refuse is too dear.
LEMMA RefusalsTrue ==
    ASSUME TypeOK, NEW t \in Transactions, NEW call \in AppCalls, shown[t] = "sponsor"
    PROVE  Truthful(t, Validate(t, call))
<1>1. assertAllowedContractCall(call)
    BY AppCallsAllowed
<1>2. Validate(t, call) # "success" /\ Validate(t, call) # "DISALLOWED"
    BY <1>1 DEF Validate
<1>3. Validate(t, call) = "FEE_LIMIT" => ~quoteSponsoredFee(t)
    BY <1>1 DEF Validate
<1>4. tx[t].resource \in Nat /\ OuterFee(t) \in Nat /\ OuterFee(t) = 2 * BaseFee + tx[t].resource
    BY TypeFacts DEF OuterFee
<1>5. BaseFee \in Nat /\ MaxResourceFee \in Nat /\ MaxTotalFee \in Nat
    BY SponsorshipAssumption
<1>6. ~quoteSponsoredFee(t) => TooDear(t)
    BY <1>4, <1>5 DEF quoteSponsoredFee, TooDear, INCLUSION_FEE_CEILING, BASE_FEE
<1> QED
    BY <1>2, <1>3, <1>6 DEF Truthful

\* The code a handler goes on with: its own, the one kept for replays, what
\* the network reported, or a failure of the handler's own.
LEMMA CodeSteps ==
    ASSUME TypeOK, NEW r \in Requests, HandlerStep(r) \/ HandlerFault(r)
    PROVE  /\ req[r].pc # "free" /\ req'[r].tx = req[r].tx
           /\ \A s \in Requests \ {r} : req'[s] = req[s]
           /\ \/ req'[r].code \in {req[r].code, result[req[r].tx].status}
              \/ req'[r].code = "success" /\ tx[req[r].tx].state = "applied"
              \/ req'[r].code \in {"REPLAY", "LIMIT_REACHED", "RPC_REJECTED", "FAILED", "TIMEOUT", "ERROR"}
<1>1. req \in [Requests -> RequestRecord] /\ req[r] \in RequestRecord
    BY TypeFacts
<1>2. PICK q \in RequestRecord : req' = [req EXCEPT ![r] = q] /\ req[r].pc # "free" /\ q.tx = req[r].tx
    BY HandlerHandles DEF Handled
<1>3. req'[r] = q /\ \A s \in Requests \ {r} : req'[s] = req[s]
    BY <1>1, <1>2
<1>4. ASSUME NEW pc, Goto(r, pc) PROVE req'[r].code = req[r].code
    BY <1>1, <1>4 DEF Goto, RequestRecord
<1>5. ASSUME NEW c, Answer(r, c) \/ Record(r, c) PROVE req'[r].code = c
    BY <1>1, <1>5 DEF Answer, Record, RequestRecord
<1>6. \/ req'[r].code \in {req[r].code, result[req[r].tx].status}
      \/ req'[r].code = "success" /\ tx[req[r].tx].state = "applied"
      \/ req'[r].code \in {"REPLAY", "LIMIT_REACHED", "RPC_REJECTED", "FAILED", "TIMEOUT", "ERROR"}
  <2>1. CASE Terminal(r)
      BY <1>4, <1>5, <2>1 DEF Terminal
  <2>2. CASE Acquire(r)
      BY <1>4, <1>5, <2>2 DEF Acquire
  <2>3. CASE Reserve(r)
      BY <1>1, <2>3 DEF Reserve, RequestRecord
  <2>4. CASE Poll(r)
    <3>1. GetStatus(req[r].tx) = "SUCCESS" => tx[req[r].tx].state = "applied"
        BY DEF GetStatus
    <3> QED BY <1>5, <2>4, <3>1 DEF Poll
  <2>5. CASE CheckLock(r) \/ StoreResult(r)
      BY <1>4, <1>5, <2>5 DEF CheckLock, StoreResult
  <2>6. CASE Unlock(r) \/ ReleaseBudget(r) \/ Release(r) \/ DropLock(r)
      BY <1>4, <1>5, <2>6 DEF Unlock, ReleaseBudget, Release, DropLock
  <2>7. CASE Send(r)
    <3>1. CASE req' = [req EXCEPT ![r].pc = "poll", ![r].wait = ConfirmationTimeout]
        BY <1>1, <3>1 DEF RequestRecord
    <3> QED BY <1>5, <2>7, <3>1 DEF Send
  <2>8. CASE SendFails(r) \/ PollFails(r)
      BY <1>5, <2>8 DEF SendFails, PollFails
  <2>9. CASE BuildFails(r)
      BY <1>1, <2>9 DEF BuildFails, RequestRecord
  <2>10. CASE RedisFails(r)
    <3>1. CASE req' = [req EXCEPT ![r].pc = "release", ![r].code = "ERROR"]
        BY <1>1, <3>1 DEF RequestRecord
    <3> QED BY <1>5, <2>10, <3>1 DEF RedisFails
  <2> QED
      BY <2>1, <2>2, <2>3, <2>4, <2>5, <2>6, <2>7, <2>8, <2>9, <2>10 DEF HandlerStep, HandlerFault
<1> QED
    BY <1>2, <1>3, <1>6


\* What Redis keeps: it stays, expires, or is what a handler found out.
LEMMA ResultSteps ==
    ASSUME TypeOK, [Next]_vars, NEW t \in Transactions
    PROVE  \/ result'[t].status \in {result[t].status, "none"}
           \/ \E r \in Requests : req[r].pc # "free" /\ req[r].tx = t /\ result'[t].status = req[r].code
<1>1. result \in [Transactions -> [status : Results, ttl : 0..ReplayTtl]]
    BY DEF TypeOK, SponsorTypeOK
<1>2. CASE TickSponsorship
  <2>1. result'[t] = IF result[t].ttl <= 1 THEN NoResult ELSE [result[t] EXCEPT !.ttl = result[t].ttl - 1]
      BY <1>2 DEF TickSponsorship
  <2>2. [result[t] EXCEPT !.ttl = result[t].ttl - 1].status = result[t].status
      BY <1>1
  <2> QED BY <2>1, <2>2 DEF NoResult
<1>3. ASSUME NEW r \in Requests, StoreResult(r) \/ RedisFails(r)
      PROVE  \/ result'[t].status \in {result[t].status, "none"}
             \/ req[r].pc # "free" /\ req[r].tx = t /\ result'[t].status = req[r].code
  <2>1. CASE result' = result
      BY <2>1
  <2>2. CASE req[r].pc = "store"
             /\ result' = [result EXCEPT ![req[r].tx] = [status |-> req[r].code, ttl |-> ReplayTtl]]
    <3>1. req[r].tx \in Transactions
        BY <2>2, TypeFacts DEF IsRequest
    <3> QED BY <1>1, <2>2, <3>1
  <2> QED BY <1>3, <2>1, <2>2 DEF StoreResult, RedisFails, AnswerLost, redisVars
<1>4. CASE ~TickSponsorship /\ ~\E r \in Requests : StoreResult(r) \/ RedisFails(r)
  <2>1. result' = result
      BY <1>4 DEF Next, vars, Tick, Ledger, Calendar, NextMinute, NextDay, Restarting, Restart,
                  Repost, Arrive, Handling, Faulting, HandlerStep, HandlerFault, Send, SendFails, Terminal,
                  Acquire, Reserve, Poll, CheckLock, Unlock, ReleaseBudget, Release, DropLock, BuildFails,
                  PollFails, Unheard, Start, GiveUp, ExecutorStep, SelectMode, buildAndSimulate, Sign,
                  Post, Answered, ProxyTimeout, Submit, PollDirect, SubmitFails, PollDirectFails, sponsorVars, redisVars
  <2> QED BY <2>1
<1> QED
    BY <1>2, <1>3, <1>4

\* The pages: a success is an answer of the service, or the network's.
LEMMA SuccessSteps ==
    ASSUME BaseInv, SignInv, TruthInv, [Next]_vars, NEW u \in Users, exec'[u].phase = "success"
    PROVE  /\ exec'[u].attempt = exec[u].attempt
           /\ tx[CurrentTx(u)].state = "applied"
           /\ CurrentTx(u) \in Transactions
<1>0. TypeOK /\ Begun /\ exec[u] \in ExecRecord
    BY TypeFacts DEF BaseInv
<1>1. CASE exec'[u].phase = exec[u].phase /\ exec'[u].attempt = exec[u].attempt
    BY <1>0, <1>1, CurrentIsTx DEF TruthInv
<1>2. CASE TickExecutor
    BY <1>0, <1>1, <1>2, TickExecutes
<1>3. CASE HangUp
    BY <1>0, <1>1, <1>3, HangUpExecutes
<1>4. ASSUME NEW v \in Users, Start(v)
      PROVE  exec'[u].phase = exec[u].phase /\ exec'[u].attempt = exec[u].attempt
    BY <1>0, <1>4, StartMoves
<1>5. ASSUME NEW v \in Users, GiveUp(v) \/ ExecutorStep(v)
      PROVE  /\ exec'[u].attempt = exec[u].attempt
             /\ tx[CurrentTx(u)].state = "applied"
             /\ CurrentTx(u) \in Transactions
  <2>1. CASE v # u
    <3>1. exec'[u] = exec[u]
        BY <1>0, <1>5, <2>1, ExecutorMoves DEF Moved
    <3> QED BY <1>1, <3>1
  <2>2. CASE Answered(u) /\ req[exec[u].request].code = "success" /\ Moved(u, "success", NoRequest)
    <3>1. exec[u].request \in Requests /\ exec[u].request # NoRequest /\ exec[u].phase # "idle"
        BY <1>0, <2>2 DEF Answered, ExecRecord
    <3>2. req[exec[u].request].pc # "free" /\ req[exec[u].request].tx = CurrentTx(u)
        BY <3>1 DEF SignInv, HeldInv
    <3>3. Truthful(req[exec[u].request].tx, req[exec[u].request].code)
        BY <3>1, <3>2 DEF TruthInv
    <3>4. tx[CurrentTx(u)].state = "applied"
        BY <2>2, <3>2, <3>3 DEF Truthful
    <3> QED BY <1>0, <2>2, <3>1, <3>4, CurrentIsTx DEF Moved
  <2>3. CASE PollDirect(u) /\ GetStatus(CurrentTx(u)) = "SUCCESS" /\ Moved(u, "success", NoRequest)
    <3>1. exec[u].phase # "idle" /\ tx[CurrentTx(u)].state = "applied"
        BY <2>3 DEF PollDirect, GetStatus
    <3> QED BY <1>0, <2>3, <3>1, CurrentIsTx DEF Moved
  <2>4. CASE v = u
      BY <1>0, <1>5, <2>2, <2>3, <2>4, ExecutorMoves DEF Moved
  <2> QED BY <2>1, <2>4
<1> QED
    BY <1>0, <1>1, <1>2, <1>3, <1>4, <1>5, ExecutionSteps

LEMMA TruthKept ==
    ASSUME BaseInv, SignInv, TruthInv, [Next]_vars
    PROVE  TruthInv'
<1>0. TypeOK /\ \A r \in Requests : IsRequest(req[r])
    BY TypeFacts DEF BaseInv
<1>1. \A r \in Requests : req[r].pc # "free" =>
        /\ req[r].tx \in Transactions
        /\ Truthful(req[r].tx, req[r].code) /\ Truthful(req[r].tx, result[req[r].tx].status)
    BY <1>0 DEF IsRequest, TruthInv
<1>2. ASSUME NEW t \in Transactions PROVE Truthful(t, result[t].status)'
  <2>1. PICK c : c = result'[t].status
      OBVIOUS
  <2>2. Truthful(t, c)
    <3>1. CASE c = "none"
        BY <3>1 DEF Truthful
    <3> QED BY <1>0, <1>1, <2>1, <3>1, ResultSteps DEF TruthInv
  <2>3. Truthful(t, c)'
      BY <2>2, TruthStays
  <2> QED BY <2>1, <2>3 DEF Truthful
<1>3. ASSUME NEW u \in Users, exec'[u].phase = "success" PROVE (tx[CurrentTx(u)].state = "applied")'
  <2>1. PICK c : c = CurrentTx(u)
      OBVIOUS
  <2>2. exec'[u].attempt = exec[u].attempt /\ tx[c].state = "applied" /\ c \in Transactions
      BY <1>3, <2>1, SuccessSteps
  <2>3. tx'[c].state = "applied" /\ CurrentTx(u)' = c
      BY <2>1, <2>2, TxSteps DEF CurrentTx
  <2> QED BY <2>3
<1>4. ASSUME NEW s \in Requests, req'[s].pc # "free"
      PROVE  req'[s].tx \in Transactions /\ Truthful(req'[s].tx, req'[s].code)
  <2>1. CASE req' = req
      BY <1>1, <1>4, <2>1
  <2>2. CASE req' = [r \in Requests |-> Idle]
      BY <1>4, <2>2, IdleTyped
  <2>3. CASE TickSponsorship
      BY <1>0, <1>1, <1>4, <2>3, TickRequests
  <2>4. ASSUME NEW r \in Requests, HandlerStep(r) \/ HandlerFault(r)
        PROVE  req'[s].tx \in Transactions /\ Truthful(req'[s].tx, req'[s].code)
    <3>1. CASE s # r
        BY <1>0, <1>1, <1>4, <2>4, <3>1, CodeSteps
    <3>2. CASE s = r
      <4>1. /\ req[s].pc # "free" /\ req'[s].tx = req[s].tx
            /\ \/ req'[s].code \in {req[s].code, result[req[s].tx].status}
               \/ req'[s].code = "success" /\ tx[req[s].tx].state = "applied"
               \/ req'[s].code \in {"REPLAY", "LIMIT_REACHED", "RPC_REJECTED", "FAILED", "TIMEOUT", "ERROR"}
          BY <1>0, <2>4, <3>2, CodeSteps
      <4>2. CASE req'[s].code \in {req[s].code, result[req[s].tx].status}
          BY <1>1, <4>1, <4>2
      <4>3. CASE req'[s].code = "success" /\ tx[req[s].tx].state = "applied"
          BY <1>1, <4>1, <4>3 DEF Truthful
      <4>4. CASE req'[s].code \in {"REPLAY", "LIMIT_REACHED", "RPC_REJECTED", "FAILED", "TIMEOUT", "ERROR"}
          BY <1>1, <4>1, <4>4 DEF Truthful
      <4> QED BY <4>1, <4>2, <4>3, <4>4
    <3> QED BY <3>1, <3>2
  <2>5. ASSUME NEW t \in Transactions, NEW q, TakenIn(Slot, t, q), shown[t] = "sponsor"
        PROVE  req'[s].tx \in Transactions /\ Truthful(req'[s].tx, req'[s].code)
    <3>1. Slot \in Requests /\ req'[Slot] = q /\ q.tx = t /\ \A r \in Requests \ {Slot} : req'[r] = req[r]
        BY <1>0, <2>5, TypeFacts DEF TakenIn
    <3>2. PICK call \in AppCalls : q.code = Validate(t, call)
        BY <2>5 DEF TakenIn
    <3>3. Truthful(t, q.code)
        BY <1>0, <2>5, <3>2, RefusalsTrue
    <3> QED BY <1>1, <1>4, <3>1, <3>3
  <2>6. ASSUME NEW r \in Requests, req' = [req EXCEPT ![r] = Idle]
        PROVE  req'[s].tx \in Transactions /\ Truthful(req'[s].tx, req'[s].code)
    <3>1. req'[r] = Idle /\ \A w \in Requests \ {r} : req'[w] = req[w]
        BY <1>0, <2>6, TypeFacts
    <3> QED BY <1>1, <1>4, <3>1, IdleTyped
  <2>7. \A u \in Users : Post(u) => CurrentTx(u) \in Transactions /\ shown[CurrentTx(u)] = "sponsor"
      BY <1>0, CurrentIsTx DEF Post, SignInv, ShownInv, BaseInv
  <2>8. CASE UNCHANGED vars
      BY <2>1, <2>8 DEF vars, sponsorVars
  <2> QED BY <1>0, <2>1, <2>2, <2>3, <2>4, <2>5, <2>6, <2>7, <2>8, RequestSteps
<1>5. ASSUME NEW s \in Requests, req'[s].pc # "free" PROVE Truthful(req[s].tx, req[s].code)'
  <2>1. PICK t, c : t = req'[s].tx /\ c = req'[s].code
      OBVIOUS
  <2>2. t \in Transactions /\ Truthful(t, c)
      BY <1>4, <1>5, <2>1
  <2>3. Truthful(t, c)'
      BY <2>2, TruthStays
  <2> QED BY <2>1, <2>3 DEF Truthful, TooDear, OuterFee
<1> QED
    BY <1>2, <1>3, <1>5 DEF TruthInv

LEMMA TruthHolds == Spec => [](BaseInv /\ SignInv /\ TruthInv)
<1>1. Init => BaseInv /\ SignInv /\ TruthInv
    BY BaseInit, SignInit, TruthInit
<1>2. BaseInv /\ SignInv /\ TruthInv /\ [Next]_vars => (BaseInv /\ SignInv /\ TruthInv)'
    BY BaseKept, SignKept, TruthKept
<1> QED
    BY <1>1, <1>2, PTL DEF Spec

(***************************************************************************)
(* A success is never made up: what a page reports, and what the service   *)
(* keeps for replays, is applied in a ledger, whatever timeouts, crashes,  *)
(* expired locks and repeated requests lie in between (service.ts,         *)
(* replay.ts, execute.ts).                                                 *)
(***************************************************************************)
THEOREM SuccessAlwaysApplied == Spec => []SuccessIsApplied
<1>1. TruthInv => SuccessIsApplied
    BY DEF TruthInv, Truthful, SuccessIsApplied
<1> QED
    BY <1>1, TruthHolds, PTL

(***************************************************************************)
(* The service refuses no write of the app as disallowed or too expensive  *)
(* unless its resource fee breaks the policy, or the base fee the sponsor  *)
(* bids is below the flat bid of all writes (transaction.ts:129, fees.ts:  *)
(* 25): the web's calls and the service's list agree, and so do their      *)
(* fees wherever they can (validator.ts, clients.ts).                      *)
(***************************************************************************)
THEOREM AppWritesAlwaysAccepted == Spec => []AppWritesAccepted
<1>1. BaseInv /\ TruthInv => AppWritesAccepted
  <2> SUFFICES ASSUME BaseInv, TruthInv, NEW r \in Requests, req[r].pc = "answered",
                      req[r].code \in {"DISALLOWED", "FEE_LIMIT"}
               PROVE  \/ tx[req[r].tx].resource > MaxResourceFee
                      \/ OuterFee(req[r].tx) > MaxTotalFee
                      \/ BaseFee < INCLUSION_FEE_CEILING
      BY DEF AppWritesAccepted
  <2>1. TooDear(req[r].tx)
      BY DEF TruthInv, Truthful
  <2> QED BY <2>1 DEF TooDear
<1> QED
    BY <1>1, TruthHolds, PTL


-----------------------------------------------------------------------------
(* The budget of a day covers what was sent on it and what may be yet. *)

\* What the handlers that have reserved on day d may still send, or give
\* back.
Holding == {"send", "giveback"}
HeldFees(d) ==
    [r \in Requests |-> IF req[r].pc \in Holding /\ req[r].day = d THEN Fees[req[r].tx] ELSE 0]

BudgetAt(d) ==
    SumFunctionOnSet(Fees, spent[d]) + SumFunctionOnSet(HeldFees(d), Requests) <= budget[d]
BudgetInv ==
    /\ \A d \in 1..MaxDays : BudgetAt(d)
    /\ \A r \in Requests : req[r].pc \in Holding => req[r].day \in 1..MaxDays

LEMMA SpentFinite ==
    ASSUME TypeOK, NEW d \in 1..MaxDays
    PROVE  IsFiniteSet(spent[d]) /\ spent[d] \subseteq Transactions
<1>1. IsFiniteSet(1..MaxAttempts)
    BY FS_Interval, NetworkAssumption
<1>2. IsFiniteSet(Transactions)
    BY <1>1, FS_Product, NetworkAssumption DEF Transactions
<1>3. spent[d] \subseteq Transactions
    BY DEF TypeOK, SponsorTypeOK
<1> QED
    BY <1>2, <1>3, FS_Subset

LEMMA FeesAreNat ==
    ASSUME TypeOK
    PROVE  /\ \A t \in Transactions : Fees[t] \in Nat /\ Fees[t] = OuterFee(t)
           /\ \A d \in 1..MaxDays : \A r \in Requests : HeldFees(d)[r] \in Nat
<1>1. \A t \in Transactions : Fees[t] \in Nat /\ Fees[t] = OuterFee(t)
    BY TypeFacts DEF Fees
<1>2. ASSUME NEW d \in 1..MaxDays, NEW r \in Requests PROVE HeldFees(d)[r] \in Nat
  <2>1. req[r].pc \in Holding => req[r].tx \in Transactions
      BY TypeFacts DEF IsRequest, Holding
  <2>2. HeldFees(d)[r] = IF req[r].pc \in Holding /\ req[r].day = d THEN Fees[req[r].tx] ELSE 0
      BY DEF HeldFees
  <2> QED BY <1>1, <2>1, <2>2
<1> QED
    BY <1>1, <1>2

LEMMA SumsAreNat ==
    ASSUME TypeOK, NEW d \in 1..MaxDays
    PROVE  /\ SumFunctionOnSet(Fees, spent[d]) \in Nat
           /\ SumFunctionOnSet(HeldFees(d), Requests) \in Nat
           /\ \A r \in Requests : HeldFees(d)[r] <= SumFunctionOnSet(HeldFees(d), Requests)
           /\ budget[d] \in 0..DailyBudget
<1>1. \A t \in spent[d] : Fees[t] \in Nat
    BY SpentFinite, FeesAreNat
<1>2. SumFunctionOnSet(Fees, spent[d]) \in Nat
    BY <1>1, SpentFinite, SumNat
<1>3. IsFiniteSet(Requests) /\ \A r \in Requests : HeldFees(d)[r] \in Nat
    BY FeesAreNat, SponsorshipAssumption
<1> QED
    BY <1>2, <1>3, SumNat DEF TypeOK, SponsorTypeOK

\* A fee the service counts on does not change.
LEMMA FeesStay ==
    ASSUME BaseInv, SignInv, [Next]_vars, NEW t \in Transactions, shown[t] = "sponsor"
    PROVE  Fees'[t] = Fees[t]
<1>1. tx'[t].resource = tx[t].resource
    BY TxSteps
<1> QED
    BY <1>1 DEF Fees, OuterFee

LEMMA BudgetInit == Init => BudgetInv
<1> SUFFICES ASSUME Init PROVE BudgetInv
    OBVIOUS
<1>1. \A r \in Requests : req[r].pc \notin Holding
    BY DEF Init, InitSponsorship, Idle, Holding
<1>2. ASSUME NEW d \in 1..MaxDays PROVE BudgetAt(d)
  <2>1. spent[d] = {} /\ budget[d] = 0
      BY DEF Init, InitSponsorship
  <2>2. SumFunctionOnSet(Fees, {}) = 0
      BY SumEmpty
  <2>3. \A r \in Requests : HeldFees(d)[r] = 0
      BY <1>1 DEF HeldFees
  <2>4. SumFunctionOnSet(HeldFees(d), Requests) = 0
      BY <2>3, SumZeros, SponsorshipAssumption
  <2> QED BY <2>1, <2>2, <2>4 DEF BudgetAt
<1> QED
    BY <1>1, <1>2 DEF BudgetInv

\* Only a reservation brings a handler to its submission.
LEMMA SendingSteps ==
    ASSUME TypeOK, [Next]_vars, NEW s \in Requests, req'[s].pc \in Holding,
           ~(Reserve(s) /\ WithinLimits(req[s].tx))
    PROVE  req[s].pc \in Holding /\ req'[s].tx = req[s].tx /\ req'[s].day = req[s].day
<1>0. req \in [Requests -> RequestRecord] /\ \A r \in Requests : IsRequest(req[r])
    BY TypeFacts
<1>1. CASE req' = req
    BY <1>1
<1>2. CASE req' = [r \in Requests |-> Idle]
    BY <1>2, IdleTyped DEF Holding
<1>3. CASE TickSponsorship
    BY <1>3, TickRequests
<1>4. ASSUME NEW r \in Requests, HandlerStep(r) \/ HandlerFault(r)
      PROVE  req[s].pc \in Holding /\ req'[s].tx = req[s].tx /\ req'[s].day = req[s].day
  <2>1. CASE s # r
    <3>1. req'[s] = req[s]
        BY <1>4, <2>1, CodeSteps
    <3> QED BY <3>1
  <2>2. CASE s = r
    <3>0. req[r] \in RequestRecord
        BY <1>0
    <3>1. ASSUME NEW pc, Goto(r, pc) PROVE req'[r].pc = pc
        BY <1>0, <3>0, <3>1 DEF Goto, RequestRecord
    <3>2. ASSUME NEW c, Answer(r, c) \/ Record(r, c) PROVE req'[r].pc \notin Holding
        BY <1>0, <3>0, <3>2 DEF Answer, Record, RequestRecord, Holding
    <3>3. CASE Send(r) \/ SendFails(r)
      <4>1. CASE req' = [req EXCEPT ![r].pc = "poll", ![r].wait = ConfirmationTimeout]
          BY <1>0, <2>2, <3>0, <4>1 DEF RequestRecord, Holding
      <4> QED BY <2>2, <3>2, <3>3, <4>1 DEF Send, SendFails
    <3>4. CASE Reserve(r)
      <4>1. req' = [req EXCEPT ![r].pc = "release", ![r].code = "LIMIT_REACHED"]
          BY <2>2, <3>4 DEF Reserve
      <4> QED BY <1>0, <2>2, <3>0, <4>1 DEF RequestRecord, Holding
    <3>5. CASE BuildFails(r)
        BY <1>0, <2>2, <3>0, <3>5 DEF BuildFails, RequestRecord, Holding
    <3>6. CASE Terminal(r) \/ Acquire(r) \/ Poll(r) \/ CheckLock(r) \/ StoreResult(r)
      <4>1. ASSUME NEW pc \in {"acquire", "reserve", "store", "unlock"}, Goto(r, pc) PROVE FALSE
          BY <2>2, <3>1, <4>1 DEF Holding
      <4> QED BY <2>2, <3>2, <3>6, <4>1 DEF Terminal, Acquire, Poll, CheckLock, StoreResult
    <3>7. CASE Unlock(r) \/ ReleaseBudget(r) \/ Release(r) \/ DropLock(r) \/ PollFails(r)
      <4>1. ASSUME NEW pc \in {"release", "drop"}, Goto(r, pc) PROVE FALSE
          BY <2>2, <3>1, <4>1 DEF Holding
      <4> QED BY <2>2, <3>2, <3>7, <4>1 DEF Unlock, ReleaseBudget, Release, DropLock, PollFails
    <3>8. CASE RedisFails(r)
      <4>1. CASE req' = [req EXCEPT ![r].pc = "release", ![r].code = "ERROR"]
          BY <1>0, <2>2, <3>0, <4>1 DEF RequestRecord, Holding
      <4> QED BY <2>2, <3>2, <3>8, <4>1 DEF RedisFails
    <3> QED
        BY <1>4, <3>3, <3>4, <3>5, <3>6, <3>7, <3>8 DEF HandlerStep, HandlerFault
  <2> QED BY <2>1, <2>2
<1>5. ASSUME NEW t, NEW q, TakenIn(Slot, t, q)
      PROVE  req'[s] = req[s]
  <2>1. Slot \in Requests /\ req'[Slot] = q /\ q.pc \notin Holding /\ \A r \in Requests \ {Slot} : req'[r] = req[r]
      BY <1>0, <1>5 DEF TakenIn, Holding
  <2> QED BY <2>1
<1>6. ASSUME NEW r \in Requests, req' = [req EXCEPT ![r] = Idle]
      PROVE  req'[s] = req[s]
    BY <1>0, <1>6, IdleTyped DEF Holding
<1>7. ASSUME NEW u \in Users, Post(u)
      PROVE  req'[s] = req[s]
  <2>1. PICK q : Slot \in Requests /\ req' = [req EXCEPT ![Slot] = q] /\ q.pc \notin Holding
    <3>0. Arrive(CurrentTx(u), AppCalls)
        BY <1>7 DEF Post
    <3>1. PICK code \in {Validate(CurrentTx(u), call) : call \in AppCalls} :
            FreeRequest # {} /\ req' = [req EXCEPT ![Slot] =
                        [Idle EXCEPT !.tx = CurrentTx(u), !.code = code,
                                     !.pc = IF code = "none" THEN "lookup" ELSE "answered"]]
        BY <3>0, Zenon DEF Arrive
    <3>2. Slot \in Requests
        BY <3>1 DEF Slot, FreeRequest
    <3> DEFINE q == [Idle EXCEPT !.tx = CurrentTx(u), !.code = code,
                                 !.pc = IF code = "none" THEN "lookup" ELSE "answered"]
    <3>3. q.pc \notin Holding
        BY DEF Idle, Holding
    <3>4. req' = [req EXCEPT ![Slot] = q]
        BY <3>1
    <3> HIDE DEF q
    <3> QED BY <3>2, <3>3, <3>4
  <2> QED BY <1>0, <2>1
<1>8. CASE UNCHANGED vars
    BY <1>1, <1>8 DEF vars, sponsorVars
<1> QED
    BY <1>1, <1>2, <1>3, <1>4, <1>5, <1>6, <1>7, <1>8, RequestSteps


\* A reservation is given back, by an answer that arrives or one that is lost.
GivesBack(r) ==
    /\ req[r].pc = "giveback" /\ GivenBack(r) /\ spent' = spent
    /\ Goto(r, "release") \/ Answer(r, "ERROR")
\* A reservation is made, and the request hears of a failure.
LosesReservation(r) == req[r].pc = "reserve" /\ Reserved(req[r].tx) /\ spent' = spent

\* A reservation, its return, and a submission are all that moves the sums.
LEMMA BudgetSteps ==
    ASSUME [Next]_vars
    PROVE  \/ UNCHANGED <<budget, spent>>
           \/ \E r \in Requests : Reserve(r) /\ WithinLimits(req[r].tx)
           \/ \E r \in Requests : (HandlerStep(r) \/ HandlerFault(r)) /\ GivesBack(r)
           \/ \E r \in Requests : RedisFails(r) /\ HandlerFault(r) /\ LosesReservation(r)
           \/ \E r \in Requests :
                (HandlerStep(r) \/ HandlerFault(r)) /\ (Send(r) \/ SendFails(r)) /\ spent' # spent
<1>1. ASSUME NEW r \in Requests, HandlerStep(r) \/ HandlerFault(r)
      PROVE  \/ UNCHANGED <<budget, spent>>
             \/ Reserve(r) /\ WithinLimits(req[r].tx)
             \/ GivesBack(r)
             \/ RedisFails(r) /\ HandlerFault(r) /\ LosesReservation(r)
             \/ (Send(r) \/ SendFails(r)) /\ spent' # spent
  <2>1. CASE Send(r) \/ SendFails(r)
      BY <2>1 DEF Send, SendFails, redisVars
  <2>2. CASE Terminal(r) \/ Poll(r) \/ CheckLock(r) \/ Release(r) \/ BuildFails(r) \/ PollFails(r)
      BY <2>2 DEF Terminal, Poll, CheckLock, Release, BuildFails, PollFails, redisVars
  <2>3. CASE Acquire(r) \/ StoreResult(r) \/ Unlock(r) \/ DropLock(r)
      BY <2>3 DEF Acquire, StoreResult, Unlock, DropLock
  <2>4. CASE Reserve(r)
      BY <2>4 DEF Reserve
  <2>5. CASE ReleaseBudget(r)
      BY <2>5 DEF ReleaseBudget, GivesBack
  <2>6. CASE RedisFails(r)
    <3>1. HandlerFault(r)
        BY <1>1, <2>6 DEF HandlerFault, HandlerStep, Send, Terminal, Acquire, Reserve, Poll, CheckLock,
                          StoreResult, Unlock, ReleaseBudget, Release, DropLock, RedisFails
    <3>2. spent' = spent
        BY <2>6 DEF RedisFails
    <3>3. \/ budget' = budget
          \/ req[r].pc = "reserve" /\ Reserved(req[r].tx)
          \/ req[r].pc = "giveback" /\ GivenBack(r)
        BY <2>6 DEF RedisFails, AnswerLost, redisVars
    <3>4. req[r].pc = "giveback" => Answer(r, "ERROR")
        BY <2>6 DEF RedisFails
    <3> QED BY <2>6, <3>1, <3>2, <3>3, <3>4 DEF GivesBack, LosesReservation
  <2> QED BY <1>1, <2>1, <2>2, <2>3, <2>4, <2>5, <2>6 DEF HandlerStep, HandlerFault
<1>2. CASE Tick \/ Ledger \/ Calendar \/ Restarting \/ UNCHANGED vars
    BY <1>2 DEF Tick, TickSponsorship, Ledger, Calendar, NextMinute, NextDay, Restarting, Restart,
                vars, sponsorVars, redisVars
<1>3. ASSUME NEW t, Arrive(t, AppCalls) PROVE UNCHANGED <<budget, spent>>
    BY <1>3, Zenon DEF Arrive, redisVars
<1>4. ASSUME NEW u \in Users, Start(u) \/ GiveUp(u) \/ ExecutorStep(u) PROVE UNCHANGED <<budget, spent>>
  <2>1. CASE Post(u)
      BY <1>3, <2>1 DEF Post
  <2>2. CASE Answered(u)
      BY <2>2 DEF Answered, redisVars
  <2>3. CASE Start(u) \/ GiveUp(u) \/ SelectMode(u) \/ ProxyTimeout(u) \/ PollDirect(u)
             \/ SubmitFails(u) \/ PollDirectFails(u)
      BY <2>3 DEF Start, GiveUp, SelectMode, ProxyTimeout, PollDirect, SubmitFails, PollDirectFails,
                  sponsorVars, redisVars
  <2>4. CASE buildAndSimulate(u) \/ Sign(u) \/ Submit(u)
    <3>1. UNCHANGED sponsorVars
        BY <2>4, Zenon DEF buildAndSimulate, Sign, Submit
    <3> QED BY <3>1 DEF sponsorVars
  <2> QED BY <1>4, <2>1, <2>2, <2>3, <2>4 DEF ExecutorStep
<1>5. ASSUME NEW r \in Requests, Unheard(r) PROVE UNCHANGED <<budget, spent>>
    BY <1>5 DEF Unheard, redisVars
<1>6. CASE Repost
    BY <1>3, <1>6 DEF Repost
<1> QED
    BY <1>1, <1>2, <1>4, <1>5, <1>6 DEF Next, Handling, Faulting

\* What a handler holds is kept or let go, unless it is one that reserves.
LEMMA HeldFeesStay ==
    ASSUME BaseInv, SignInv, [Next]_vars, NEW d \in 1..MaxDays, NEW s \in Requests,
           ~(Reserve(s) /\ WithinLimits(req[s].tx))
    PROVE  HeldFees(d)'[s] \in {HeldFees(d)[s], 0} /\ (req'[s] = req[s] => HeldFees(d)'[s] = HeldFees(d)[s])
<1>0. TypeOK
    BY DEF BaseInv
<1>1. /\ HeldFees(d)[s] = IF req[s].pc \in Holding /\ req[s].day = d THEN Fees[req[s].tx] ELSE 0
      /\ HeldFees(d)'[s] = IF req'[s].pc \in Holding /\ req'[s].day = d THEN Fees'[req'[s].tx] ELSE 0
    BY DEF HeldFees
<1>2. CASE req'[s].pc \notin Holding
    BY <1>1, <1>2
<1>3. CASE req'[s].pc \in Holding
  <2>1. req[s].pc \in Holding /\ req'[s].tx = req[s].tx /\ req'[s].day = req[s].day
      BY <1>0, <1>3, SendingSteps
  <2>2. req[s].tx \in Transactions /\ shown[req[s].tx] = "sponsor"
      BY <1>0, <2>1, TypeFacts DEF IsRequest, Holding, SignInv, ServedInv
  <2>3. Fees'[req[s].tx] = Fees[req[s].tx]
      BY <2>2, FeesStay
  <2> QED BY <1>1, <2>1, <2>3
<1> QED
    BY <1>2, <1>3

\* What was sent has the same fees afterwards.
LEMMA SpentFeesStay ==
    ASSUME BaseInv, SignInv, [Next]_vars, NEW d \in 1..MaxDays
    PROVE  SumFunctionOnSet(Fees', spent[d]) = SumFunctionOnSet(Fees, spent[d])
<1>0. TypeOK
    BY DEF BaseInv
<1>1. \A t \in spent[d] : Fees'[t] = Fees[t]
  <2>1. \A t \in spent[d] : t \in Transactions /\ shown[t] = "sponsor"
      BY <1>0, SpentFinite DEF SignInv, ServedInv
  <2> QED BY <2>1, FeesStay
<1> QED
    BY <1>0, <1>1, SpentFinite, SumSame

\* A step that leaves day d's submissions alone, takes nothing off its budget
\* and lets no handler hold more.
LEMMA BudgetQuiet ==
    ASSUME BaseInv, SignInv, BudgetInv, [Next]_vars, NEW d \in 1..MaxDays,
           spent'[d] = spent[d], budget'[d] \in Int, budget'[d] >= budget[d],
           \A s \in Requests : HeldFees(d)'[s] \in {HeldFees(d)[s], 0}
    PROVE  BudgetAt(d)'
<1>0. TypeOK
    BY DEF BaseInv
<1>1. PICK f, g : f = HeldFees(d) /\ g = HeldFees(d)'
    OBVIOUS
<1>2. \A s \in Requests : f[s] \in Nat /\ g[s] \in {f[s], 0}
    BY <1>0, <1>1, FeesAreNat
<1>3. \A s \in Requests : f[s] \in Int /\ g[s] \in Int /\ g[s] <= f[s]
    BY <1>2
<1>4. SumFunctionOnSet(g, Requests) <= SumFunctionOnSet(f, Requests)
    BY <1>3, SumMonotone, SponsorshipAssumption
<1>5. SumFunctionOnSet(g, Requests) \in Int
    BY <1>3, SumInt, SponsorshipAssumption
<1>6. PICK a, b, c : a = SumFunctionOnSet(Fees, spent[d]) /\ b = SumFunctionOnSet(f, Requests)
                     /\ c = SumFunctionOnSet(g, Requests)
    OBVIOUS
<1>7. a \in Nat /\ b \in Nat /\ c \in Int /\ c <= b /\ budget[d] \in Int /\ a + b <= budget[d]
    BY <1>0, <1>1, <1>4, <1>5, <1>6, SumsAreNat DEF BudgetInv, BudgetAt
<1>8. SumFunctionOnSet(Fees', spent'[d]) = a
    BY <1>6, SpentFeesStay
<1>9. a + c <= budget'[d]
    BY <1>7
<1> QED
    BY <1>1, <1>6, <1>8, <1>9 DEF BudgetAt

\* What one handler comes to hold, or lets go, is the change of the sum.
LEMMA HeldSumMoves ==
    ASSUME BaseInv, SignInv, [Next]_vars, NEW d \in 1..MaxDays, NEW r \in Requests,
           \A s \in Requests \ {r} : req'[s] = req[s] /\ ~(Reserve(s) /\ WithinLimits(req[s].tx)),
           HeldFees(d)'[r] \in Nat
    PROVE  SumFunctionOnSet(HeldFees(d)', Requests)
             = SumFunctionOnSet(HeldFees(d), Requests) + (HeldFees(d)'[r] - HeldFees(d)[r])
<1>0. TypeOK
    BY DEF BaseInv
<1>1. PICK f, g : f = HeldFees(d) /\ g = HeldFees(d)'
    OBVIOUS
<1>2. \A s \in Requests : f[s] \in Nat
    BY <1>0, <1>1, FeesAreNat
<1>3. \A s \in Requests \ {r} : g[s] = f[s]
    BY <1>1, HeldFeesStay
<1>4. \A s \in Requests : f[s] \in Int /\ g[s] \in Int
    BY <1>1, <1>2, <1>3
<1>5. SumFunctionOnSet(g, Requests) = SumFunctionOnSet(f, Requests) + (g[r] - f[r])
    BY <1>3, <1>4, SumChange, SponsorshipAssumption
<1> QED
    BY <1>1, <1>5

LEMMA ReserveKeeps ==
    ASSUME BaseInv, SignInv, BudgetInv, [Next]_vars, NEW r \in Requests,
           Reserve(r), WithinLimits(req[r].tx), NEW d \in 1..MaxDays
    PROVE  BudgetAt(d)' /\ req'[r].day \in 1..MaxDays
<1>0. TypeOK /\ req \in [Requests -> RequestRecord] /\ req[r] \in RequestRecord /\ day \in 1..MaxDays
      /\ budget \in [1..MaxDays -> 0..DailyBudget]
    BY TypeFacts DEF BaseInv, TypeOK, SponsorTypeOK
<1>1. PICK t : t = req[r].tx
    OBVIOUS
<1>2. t \in Transactions /\ shown[t] = "sponsor"
    BY <1>0, <1>1, TypeFacts DEF Reserve, IsRequest, SignInv, ServedInv
<1>3. req' = [req EXCEPT ![r].pc = "send", ![r].day = day]
    BY DEF Reserve
<1>4. req'[r].pc = "send" /\ req'[r].day = day /\ req'[r].tx = t /\ \A s \in Requests \ {r} : req'[s] = req[s]
    BY <1>0, <1>1, <1>3 DEF RequestRecord
<1>5. spent' = spent /\ budget' = [budget EXCEPT ![day] = budget[day] + OuterFee(t)]
    BY <1>1 DEF Reserve, Reserved
<1>6. \A s \in Requests \ {r} : ~Reserve(s)
  <2>1. ASSUME NEW s \in Requests \ {r}, Reserve(s) PROVE FALSE
    <3>1. req[s].pc = "reserve" /\ (req'[s].pc = "send" \/ req'[s].pc = "release")
      <4>1. req[s] \in RequestRecord
          BY <1>0
      <4> QED BY <1>0, <2>1, <4>1 DEF Reserve, RequestRecord
    <3> QED BY <1>4, <3>1
  <2> QED BY <2>1
<1>7. Fees'[t] = Fees[t] /\ Fees[t] \in Nat /\ Fees[t] = OuterFee(t)
    BY <1>0, <1>2, FeesStay, FeesAreNat
<1>8. HeldFees(d)[r] = 0 /\ HeldFees(d)'[r] = IF day = d THEN Fees[t] ELSE 0
    BY <1>4, <1>7 DEF HeldFees, Reserve, Holding
<1>9. CASE d # day
  <2>1. \A s \in Requests : HeldFees(d)'[s] \in {HeldFees(d)[s], 0}
      BY <1>6, <1>8, <1>9, HeldFeesStay
  <2>2. spent'[d] = spent[d] /\ budget'[d] = budget[d] /\ budget[d] \in Int
      BY <1>0, <1>5, <1>9
  <2> QED BY <1>0, <1>4, <2>1, <2>2, BudgetQuiet
<1>10. CASE d = day
  <2>1. PICK a, b, c, e : a = SumFunctionOnSet(Fees, spent[d]) /\ b = SumFunctionOnSet(HeldFees(d), Requests)
                          /\ c = SumFunctionOnSet(HeldFees(d)', Requests) /\ e = Fees[t]
      OBVIOUS
  <2>2. c = b + e
    <3>1. c = b + (HeldFees(d)'[r] - HeldFees(d)[r])
        BY <1>4, <1>6, <1>7, <1>8, <1>10, <2>1, HeldSumMoves
    <3>2. b \in Nat /\ e \in Nat
        BY <1>0, <1>7, <2>1, SumsAreNat
    <3> QED BY <1>8, <1>10, <2>1, <3>1, <3>2
  <2>3. a \in Nat /\ b \in Nat /\ e \in Nat /\ budget[d] \in Int /\ a + b <= budget[d]
      BY <1>0, <1>7, <2>1, SumsAreNat DEF BudgetInv, BudgetAt
  <2>4. budget'[d] = budget[d] + e
      BY <1>0, <1>5, <1>7, <1>10, <2>1
  <2>5. SumFunctionOnSet(Fees', spent'[d]) = a
      BY <1>5, <2>1, SpentFeesStay
  <2>6. a + c <= budget'[d]
      BY <2>2, <2>3, <2>4
  <2> QED BY <1>0, <1>4, <2>1, <2>5, <2>6 DEF BudgetAt
<1> QED
    BY <1>9, <1>10


\* A handler that leaves its submission lets go of what it held on its day.
LEMMA LettingGo ==
    ASSUME BaseInv, SignInv, BudgetInv, [Next]_vars, NEW r \in Requests,
           HandlerStep(r) \/ HandlerFault(r), req[r].pc \in Holding, NEW d \in 1..MaxDays
    PROVE  /\ \A s \in Requests : HeldFees(d)'[s] \in {HeldFees(d)[s], 0}
           /\ req[r].tx \in Transactions /\ shown[req[r].tx] = "sponsor" /\ req[r].day \in 1..MaxDays
           /\ d = req[r].day /\ req'[r].pc \notin Holding =>
                /\ Fees[req[r].tx] \in Nat
                /\ Fees[req[r].tx] <= SumFunctionOnSet(HeldFees(d), Requests)
                /\ SumFunctionOnSet(HeldFees(d)', Requests)
                     = SumFunctionOnSet(HeldFees(d), Requests) - Fees[req[r].tx]
<1>0. TypeOK /\ \A s \in Requests : IsRequest(req[s])
    BY TypeFacts DEF BaseInv
<1>1. req[r].tx \in Transactions /\ shown[req[r].tx] = "sponsor" /\ req[r].day \in 1..MaxDays
    BY <1>0 DEF IsRequest, Holding, SignInv, ServedInv, BudgetInv
<1>2. \A s \in Requests \ {r} : req'[s] = req[s]
    BY <1>0, CodeSteps
<1>3. \A s \in Requests : ~(Reserve(s) /\ WithinLimits(req[s].tx))
  <2>1. ASSUME NEW s \in Requests, Reserve(s), WithinLimits(req[s].tx) PROVE FALSE
    <3>1. s # r
        BY <2>1 DEF Reserve, Holding
    <3>2. req[s].pc = "reserve" /\ req[s] \in RequestRecord /\ req \in [Requests -> RequestRecord]
        BY <1>0, <2>1, TypeFacts DEF Reserve
    <3>3. req'[s].pc = "send"
        BY <2>1, <3>2 DEF Reserve, RequestRecord
    <3> QED BY <1>2, <3>1, <3>2, <3>3
  <2> QED BY <2>1
<1>4. \A s \in Requests : HeldFees(d)'[s] \in {HeldFees(d)[s], 0}
    BY <1>3, HeldFeesStay
<1>5. ASSUME d = req[r].day, req'[r].pc \notin Holding
      PROVE  /\ Fees[req[r].tx] \in Nat
             /\ Fees[req[r].tx] <= SumFunctionOnSet(HeldFees(d), Requests)
             /\ SumFunctionOnSet(HeldFees(d)', Requests)
                  = SumFunctionOnSet(HeldFees(d), Requests) - Fees[req[r].tx]
  <2>1. HeldFees(d)[r] = Fees[req[r].tx] /\ HeldFees(d)'[r] = 0
      BY <1>5 DEF HeldFees
  <2>2. PICK b, c, e : b = SumFunctionOnSet(HeldFees(d), Requests) /\ e = HeldFees(d)[r]
                       /\ c = SumFunctionOnSet(HeldFees(d)', Requests)
      OBVIOUS
  <2>3. c = b + (0 - e)
      BY <1>2, <1>3, <2>1, <2>2, HeldSumMoves
  <2>4. b \in Nat /\ e \in Nat /\ e <= b
      BY <1>0, <2>2, SumsAreNat, FeesAreNat
  <2>5. c = b - e
      BY <2>3, <2>4
  <2> QED BY <2>1, <2>2, <2>4, <2>5
<1> QED
    BY <1>1, <1>4, <1>5

LEMMA ReturnKeeps ==
    ASSUME BaseInv, SignInv, BudgetInv, [Next]_vars, NEW r \in Requests, GivesBack(r),
           HandlerStep(r) \/ HandlerFault(r), NEW d \in 1..MaxDays
    PROVE  BudgetAt(d)'
<1>0. TypeOK /\ req \in [Requests -> RequestRecord] /\ req[r] \in RequestRecord
      /\ budget \in [1..MaxDays -> 0..DailyBudget]
    BY TypeFacts DEF BaseInv, TypeOK, SponsorTypeOK
<1>1. req[r].pc \in Holding /\ spent' = spent
    BY DEF GivesBack, Holding
<1>2. req'[r].pc \notin Holding
    BY <1>0 DEF GivesBack, Goto, Answer, RequestRecord, Holding
<1>3. req[r].tx \in Transactions /\ req[r].day \in 1..MaxDays
      /\ \A s \in Requests : HeldFees(d)'[s] \in {HeldFees(d)[s], 0}
    BY <1>1, LettingGo
<1>4. PICK e : e = Fees[req[r].tx]
    OBVIOUS
<1>5. e \in Nat /\ e = OuterFee(req[r].tx)
    BY <1>0, <1>3, <1>4, FeesAreNat
<1>6. budget' = [budget EXCEPT ![req[r].day] = IF budget[req[r].day] < e THEN 0 ELSE budget[req[r].day] - e]
    BY <1>5 DEF GivesBack, GivenBack
<1>7. CASE d # req[r].day
  <2>1. budget'[d] = budget[d] /\ budget[d] \in Int
      BY <1>0, <1>6, <1>7
  <2> QED BY <1>1, <1>3, <2>1, BudgetQuiet
<1>8. CASE d = req[r].day
  <2>1. PICK a, b, c : a = SumFunctionOnSet(Fees, spent[d]) /\ b = SumFunctionOnSet(HeldFees(d), Requests)
                       /\ c = SumFunctionOnSet(HeldFees(d)', Requests)
      OBVIOUS
  <2>2. e <= b /\ c = b - e
      BY <1>1, <1>2, <1>4, <1>8, <2>1, LettingGo
  <2>3. a \in Nat /\ b \in Nat /\ budget[d] \in Nat /\ a + b <= budget[d]
      BY <1>0, <2>1, SumsAreNat DEF BudgetInv, BudgetAt
  <2>4. budget'[d] = IF budget[d] < e THEN 0 ELSE budget[d] - e
      BY <1>0, <1>6, <1>8
  <2>5. SumFunctionOnSet(Fees', spent'[d]) = a
      BY <1>1, <2>1, SpentFeesStay
  <2>6. a + c <= budget'[d]
      BY <1>5, <2>2, <2>3, <2>4
  <2> QED BY <2>1, <2>5, <2>6 DEF BudgetAt
<1> QED
    BY <1>7, <1>8

LEMMA SubmitKeeps ==
    ASSUME BaseInv, SignInv, BudgetInv, [Next]_vars, NEW r \in Requests, Send(r) \/ SendFails(r),
           HandlerStep(r) \/ HandlerFault(r), spent' # spent, NEW d \in 1..MaxDays
    PROVE  BudgetAt(d)'
<1>0. TypeOK /\ req \in [Requests -> RequestRecord] /\ req[r] \in RequestRecord
      /\ spent \in [1..MaxDays -> SUBSET Transactions]
    BY TypeFacts DEF BaseInv, TypeOK, SponsorTypeOK
<1>1. req[r].pc \in Holding /\ budget' = budget /\ budget[d] \in Int
    BY <1>0 DEF Send, SendFails, Holding, redisVars, TypeOK, SponsorTypeOK
<1>2. req'[r].pc \notin Holding
  <2>1. CASE req' = [req EXCEPT ![r].pc = "poll", ![r].wait = ConfirmationTimeout]
      BY <1>0, <2>1 DEF RequestRecord, Holding
  <2>2. ASSUME NEW c, Record(r, c) PROVE req'[r].pc \notin Holding
      BY <1>0, <2>2 DEF Record, RequestRecord, Holding
  <2> QED BY <2>1, <2>2 DEF Send, SendFails
<1>3. PICK t : t = req[r].tx
    OBVIOUS
<1>4. t \in Transactions /\ shown[t] = "sponsor" /\ req[r].day \in 1..MaxDays
      /\ \A s \in Requests : HeldFees(d)'[s] \in {HeldFees(d)[s], 0}
    BY <1>1, <1>3, LettingGo
<1>5. spent' = [spent EXCEPT ![req[r].day] = spent[req[r].day] \cup {t}]
    BY <1>3 DEF Send, SendFails
<1>6. CASE d # req[r].day
  <2>1. spent'[d] = spent[d] /\ budget'[d] = budget[d] /\ budget[d] \in Int
      BY <1>0, <1>1, <1>5, <1>6
  <2> QED BY <1>4, <2>1, BudgetQuiet
<1>7. CASE d = req[r].day
  <2>1. PICK a, b, c, e :
          /\ a = SumFunctionOnSet(Fees, spent[d]) /\ b = SumFunctionOnSet(HeldFees(d), Requests)
          /\ c = SumFunctionOnSet(HeldFees(d)', Requests) /\ e = Fees[t]
      OBVIOUS
  <2>2. e \in Nat /\ e <= b /\ c = b - e
      BY <1>1, <1>2, <1>3, <1>7, <2>1, LettingGo
  <2>3. a \in Nat /\ b \in Nat /\ budget[d] \in Int /\ a + b <= budget[d]
      BY <1>0, <2>1, SumsAreNat DEF BudgetInv, BudgetAt
  <2>4. spent'[d] = spent[d] \cup {t}
      BY <1>0, <1>5, <1>7
  <2>5. SumFunctionOnSet(Fees', spent[d]) = a /\ Fees'[t] = e
      BY <1>4, <2>1, SpentFeesStay, FeesStay
  <2>6. SumFunctionOnSet(Fees', spent'[d]) \in {a, a + e}
    <3>1. CASE t \in spent[d]
      <4>1. spent'[d] = spent[d]
          BY <2>4, <3>1
      <4> QED BY <2>5, <4>1
    <3>2. CASE t \notin spent[d]
      <4>1. PICK g : g = Fees'
          OBVIOUS
      <4>2. IsFiniteSet(spent[d]) /\ spent[d] \subseteq Transactions
          BY <1>0, SpentFinite
      <4>3. \A x \in spent[d] \cup {t} : g[x] \in Int
        <5>1. \A x \in spent[d] \cup {t} : x \in Transactions /\ shown[x] = "sponsor"
            BY <1>4, <4>2 DEF SignInv, ServedInv
        <5>2. \A x \in spent[d] \cup {t} : g[x] = Fees[x] /\ Fees[x] \in Nat
            BY <1>0, <4>1, <5>1, FeesStay, FeesAreNat
        <5> QED BY <5>2
      <4>4. SumFunctionOnSet(g, spent[d] \cup {t}) = SumFunctionOnSet(g, spent[d]) + g[t]
          BY <3>2, <4>2, <4>3, SumAdd
      <4> QED BY <2>4, <2>5, <4>1, <4>4
    <3> QED BY <3>1, <3>2
  <2>7. PICK z : z = SumFunctionOnSet(Fees', spent'[d])
      OBVIOUS
  <2>8. z + c <= budget'[d]
      BY <1>1, <2>2, <2>3, <2>6, <2>7
  <2> QED BY <2>1, <2>7, <2>8 DEF BudgetAt
<1> QED
    BY <1>6, <1>7

\* A reservation nobody counts on only takes from what is left.
LEMMA LostKeeps ==
    ASSUME BaseInv, SignInv, BudgetInv, [Next]_vars, NEW r \in Requests,
           RedisFails(r), HandlerFault(r), LosesReservation(r), NEW d \in 1..MaxDays
    PROVE  BudgetAt(d)'
<1>0. /\ TypeOK /\ req \in [Requests -> RequestRecord] /\ req[r] \in RequestRecord
      /\ budget \in [1..MaxDays -> 0..DailyBudget] /\ day \in 1..MaxDays
    BY TypeFacts DEF BaseInv, TypeOK, SponsorTypeOK
<1>1. req[r].pc = "reserve" /\ req[r].tx \in Transactions /\ spent' = spent
    BY <1>0, TypeFacts DEF LosesReservation, IsRequest
<1>2. OuterFee(req[r].tx) \in Nat
    BY <1>0, <1>1, TypeFacts
<1>3. budget' = [budget EXCEPT ![day] = budget[day] + OuterFee(req[r].tx)]
    BY DEF LosesReservation, Reserved
<1>4. budget'[d] \in Int /\ budget'[d] >= budget[d]
    BY <1>0, <1>2, <1>3
<1>5. req'[r].pc = "release" /\ \A s \in Requests \ {r} : req'[s] = req[s]
    BY <1>0, <1>1 DEF RedisFails, RequestRecord
<1>6. \A s \in Requests : ~(Reserve(s) /\ WithinLimits(req[s].tx))
  <2>1. ASSUME NEW s \in Requests, Reserve(s), WithinLimits(req[s].tx) PROVE FALSE
    <3>1. req[s].pc = "reserve" /\ req'[s].pc = "send"
      <4>1. req[s] \in RequestRecord
          BY <1>0
      <4> QED BY <1>0, <2>1, <4>1 DEF Reserve, RequestRecord
    <3> QED BY <1>5, <3>1
  <2> QED BY <2>1
<1>7. \A s \in Requests : HeldFees(d)'[s] \in {HeldFees(d)[s], 0}
    BY <1>6, HeldFeesStay
<1> QED
    BY <1>1, <1>4, <1>7, BudgetQuiet

LEMMA BudgetKept ==
    ASSUME BaseInv, SignInv, BudgetInv, [Next]_vars
    PROVE  BudgetInv'
<1>0. TypeOK
    BY DEF BaseInv
<1>1. \A r \in Requests : req'[r].pc \in Holding => req'[r].day \in 1..MaxDays
  <2> SUFFICES ASSUME NEW r \in Requests, req'[r].pc \in Holding PROVE req'[r].day \in 1..MaxDays
      OBVIOUS
  <2>1. CASE Reserve(r) /\ WithinLimits(req[r].tx)
      BY <2>1, ReserveKeeps, SponsorshipAssumption
  <2>2. CASE ~(Reserve(r) /\ WithinLimits(req[r].tx))
      BY <1>0, <2>2, SendingSteps DEF BudgetInv
  <2> QED BY <2>1, <2>2
<1>2. ASSUME NEW d \in 1..MaxDays PROVE BudgetAt(d)'
  <2>1. ASSUME NEW r \in Requests, Reserve(r), WithinLimits(req[r].tx) PROVE BudgetAt(d)'
      BY <2>1, ReserveKeeps
  <2>2. ASSUME ~\E r \in Requests : Reserve(r) /\ WithinLimits(req[r].tx), UNCHANGED <<budget, spent>>
        PROVE  BudgetAt(d)'
    <3>1. \A s \in Requests : HeldFees(d)'[s] \in {HeldFees(d)[s], 0}
        BY <2>2, HeldFeesStay
    <3>2. spent'[d] = spent[d] /\ budget'[d] = budget[d] /\ budget[d] \in Int
        BY <1>0, <2>2 DEF TypeOK, SponsorTypeOK
    <3> QED BY <3>1, <3>2, BudgetQuiet
  <2>3. ASSUME NEW r \in Requests, GivesBack(r), HandlerStep(r) \/ HandlerFault(r) PROVE BudgetAt(d)'
      BY <2>3, ReturnKeeps
  <2>4. ASSUME NEW r \in Requests, Send(r) \/ SendFails(r), HandlerStep(r) \/ HandlerFault(r), spent' # spent
        PROVE  BudgetAt(d)'
      BY <2>4, SubmitKeeps
  <2>5. ASSUME NEW r \in Requests, RedisFails(r), HandlerFault(r), LosesReservation(r) PROVE BudgetAt(d)'
      BY <2>5, LostKeeps
  <2> QED BY <2>1, <2>2, <2>3, <2>4, <2>5, BudgetSteps
<1> QED
    BY <1>1, <1>2 DEF BudgetInv

(***************************************************************************)
(* The declared fees of all transactions sent on the reservations of a day *)
(* stay within that day's budget: whatever requests run side by side, fail *)
(* before or after the submission, are cut off by a restart, or end on     *)
(* another day than they were reserved on (service.ts, quota.ts).          *)
(***************************************************************************)
THEOREM BudgetAlwaysCovers == Spec => []BudgetCoversSubmissions
<1>1. Init => BaseInv /\ SignInv /\ BudgetInv
    BY BaseInit, SignInit, BudgetInit
<1>2. BaseInv /\ SignInv /\ BudgetInv /\ [Next]_vars => (BaseInv /\ SignInv /\ BudgetInv)'
    BY BaseKept, SignKept, BudgetKept
<1>3. BaseInv /\ BudgetInv => BudgetCoversSubmissions
  <2> SUFFICES ASSUME BaseInv, BudgetInv, NEW d \in 1..MaxDays
               PROVE  SumFunctionOnSet(Fees, spent[d]) <= DailyBudget
      BY DEF BudgetCoversSubmissions
  <2>1. PICK a, b : a = SumFunctionOnSet(Fees, spent[d]) /\ b = SumFunctionOnSet(HeldFees(d), Requests)
      OBVIOUS
  <2>2. a \in Nat /\ b \in Nat /\ budget[d] \in 0..DailyBudget /\ a + b <= budget[d]
      BY <2>1, SumsAreNat DEF BaseInv, BudgetInv, BudgetAt
  <2>3. a <= DailyBudget
      BY <2>2, SponsorshipAssumption
  <2> QED BY <2>1, <2>3
<1> QED
    BY <1>1, <1>2, <1>3, PTL DEF Spec
=============================================================================
