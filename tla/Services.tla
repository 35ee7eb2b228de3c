------------------------------ MODULE Services ------------------------------
(***************************************************************************)
(* dike-services as a whole: the chain, the event dispatches and the       *)
(* scheduled jobs over one database, and the pages that read it.           *)
(***************************************************************************)
EXTENDS Dispatcher, ScheduledJobs, ReadApi

CONSTANT Transactions   \* the kinds of transactions the run considers

ASSUME ServicesAssumption ==
    /\ Transactions \subseteq
         {"create", "buy", "provide", "claim", "liquidate", "escalate", "queue"}
    /\ IsFiniteSet(Users)

servicesVars ==
    <<tip, changes, events, db, history, claimed, actor, faults, done, replays>>

TypeOK ==
    /\ tip \in 0..MaxLedger
    /\ changes \in [Rows -> SUBSET (1..tip)]
    /\ \A r \in Rows : db[r].val \in {Missing, Zeroed} \cup 0..tip /\ db[r].label \in 0..tip
    /\ done \subseteq events
    /\ claimed \in [Users -> Nat]
    /\ faults \in 0..MaxFaults /\ replays \in 0..MaxReplays

-----------------------------------------------------------------------------
(* The transactions of the contracts: what they change and emit. *)

Tx(kind, u) ==
    CASE kind = "create" ->
           [rows |-> {Row("gov"), Row("market"), Row("pool"), Row("vault")},
            topics |-> {"registry.mkt_new", "amm.pool"}]
      [] kind = "buy" ->
           [rows |-> {Row("pool"), Row("vault"), UserRow("position", u), UserRow("vaultState", u)},
            topics |-> {"amm.buy", "vault.deposit"}]
      [] kind = "provide" ->
           [rows |-> {Row("pool"), UserRow("lp", u), UserRow("position", u), UserRow("vaultState", u)},
            topics |-> {"amm.lp_add", "tokens.split"}]
      [] kind = "claim" ->
           [rows |-> {Row("pool"), UserRow("lp", u)}, topics |-> {"amm.lpfee"}]
      [] kind = "liquidate" ->
           [rows |-> {Row("pool"), UserRow("position", u), UserRow("vaultState", u)},
            topics |-> {"amm.liquidate", "vault.liq_settle", "tokens.pos_fxfer"}]
      [] kind = "escalate" ->
           [rows |-> {Row("market"), Row("request"), Row("case")},
            topics |-> {"registry.status", "oracle.dispute", "council.commit"}]
      [] kind = "queue" ->
           [rows |-> {Row("timelock"), Row("gov")}, topics |-> {"timelock.queued", "gov.module"}]

EventsOf(tx, l, u) == {[ledger |-> l, topic |-> t, user |-> u] : t \in tx.topics}

\* The market is created and indexed, with the positions of some users in it.
Init ==
    LET created == Tx("create", NoUser) IN
    /\ tip = 1
    /\ \E holders \in SUBSET Users :
         changes = [r \in Rows |-> IF r \in created.rows \/ r[2] \in holders THEN {1} ELSE {}]
    /\ events = EventsOf(created, 1, NoUser)
    /\ InitReadModel /\ InitDispatcher

\* A ledger closes with one transaction of a user: one who already holds a
\* position claims fees or is liquidated, the others start from nothing.
Transact ==
    \E kind \in Transactions, u \in Users :
      LET tx == Tx(kind, u) IN
      /\ tip < MaxLedger
      /\ Exists(UserRow("position", u)) = (kind \in {"claim", "liquidate"})
      /\ tip' = tip + 1
      /\ changes' = [r \in Rows |-> IF r \in tx.rows THEN changes[r] \cup {tip + 1} ELSE changes[r]]
      /\ events' = events \cup EventsOf(tx, tip + 1, u)
      /\ UNCHANGED <<db, history, claimed, actor, faults, done, replays>>

chain == <<tip, changes, events>>

Dispatching(d) ==
    \/ (StartDispatch(d) \/ FinishDispatch(d)) /\ UNCHANGED chain
    \/ ActorStep(d) /\ UNCHANGED <<chain, done, replays>>

Reconciling(j) ==
    (StartJob(j) \/ ListOwners(j) \/ FinishJob(j) \/ ActorStep(j)) /\ UNCHANGED <<chain, done, replays>>

Failing(a) == (RpcFault(a) \/ FailWrite(a) \/ Crash(a)) /\ UNCHANGED <<chain, done, replays>>

Next ==
    \/ Transact
    \/ \E d \in Dispatchers : Dispatching(d)
    \/ \E j \in Jobs : Reconciling(j)
    \/ \E a \in Actors : Failing(a)

\* The timers of the indexer and of the jobs keep firing, a started tick runs
\* on.
Fairness ==
    /\ \A d \in Dispatchers : WF_servicesVars(Dispatching(d))
    /\ \A j \in Jobs : WF_servicesVars(Reconciling(j))

Spec == Init /\ [][Next]_servicesVars /\ Fairness

-----------------------------------------------------------------------------
\* A row never claims more than it holds: whoever wrote it last, and however
\* late, no change of the object lies between what the row shows and the
\* ledger it says it was reconciled at.  The one exception is the code's own:
\* where a failed getter is replaced by zeros (a case's reward pool, the vault
\* state of a user, the fees of a liquidity provider, the governance addresses)
\* the zeros are stamped with the ledger like a value that was read
\* (reconciliation.ts:313, 388-389, 436-466).  A market, a pool, a request, a
\* vault, a position or a timelock action never carries such a label.
LabelsAreHonest ==
    \A r \in Rows :
      \/ \A c \in changes[r] : ~(db[r].val < c /\ c <= db[r].label)
      \/ db[r].val = Zeroed /\ r[1] \in FallbackKinds

\* Replayed and concurrent dispatches of a fee claim count it once, and no
\* claim on record is left out of its owner's total.
ClaimsCountedOnce ==
    \A u \in Users :
      claimed[u] = Cardinality({h \in history : h[1] = "lp_fee_claim_events" /\ h[2].user = u})

\* What the jobs go through: rows of an owner without a position row are not.
Reconciled(r) ==
    CASE r[2] = NoUser -> TRUE
      [] r[1] = "lp"   -> db[r] # NoRow
      [] OTHER         -> db[UserRow("position", r[2])] # NoRow

\* When the chain rests and the faults are over, every row the jobs know of is
\* shown by the pages with the state of the chain and stays so, whatever stale
\* or zeroed copies were written over it before and whatever other rows its
\* answer is joined with.
RowsConverge ==
    \A r \in Rows : <>[](Reconciled(r) /\ Exists(r) /\ db[r] # NoRow => Shown(r) = Version(r))
=============================================================================
