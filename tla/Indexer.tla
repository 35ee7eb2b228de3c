------------------------------- MODULE Indexer -------------------------------
(***************************************************************************)
(* The event indexer of dike-services (indexer/worker.ts and               *)
(* indexer/event-source.ts, with the checkpoint, raw-event and lease       *)
(* queries of db/repositories/state-repository.ts).  Several service       *)
(* processes run the same worker against one database and one RPC node.    *)
(*                                                                         *)
(* The events of a contract are numbered in chain order: upto[c][l] is the *)
(* number of the last event of c in ledgers 1..l, so event k lies in the   *)
(* ledgers 1..l iff k <= upto[c][l].  An event id, a cursor and a page     *)
(* boundary are then all such numbers.                                     *)
(***************************************************************************)
EXTENDS Integers, Sequences

CONSTANTS
    Workers,        \* the service processes
    Contracts,      \* the indexed contracts
    Deployments,    \* their order in getDeployments (ORDER BY module)
    StartLedger,    \* INDEXER_START_LEDGER; 0 when it is not set
    Window,         \* INDEXER_LEDGER_WINDOW
    Margin,         \* REORG_SAFETY_MARGIN_LEDGERS
    Limit,          \* events of a full page (100)
    Pages,          \* pages of a poll (100)
    MaxLedger,      \* bound: the chain closes no ledger after this one
    MaxEvents,      \* bound: events of a contract in one ledger
    MaxFaults       \* bound: failing calls, crashes and restarts of the node

ASSUME IndexerAssumption ==
    /\ Deployments \in Seq(Contracts)
    /\ StartLedger \in Nat
    /\ Window \in Nat \ {0} /\ Margin \in Nat
    /\ Limit \in Nat \ {0} /\ Pages \in Nat \ {0}
    /\ MaxLedger \in Nat \ {0} /\ MaxEvents \in Nat /\ MaxFaults \in Nat

VARIABLES
    tip,          \* the last closed ledger
    rpcTip,       \* the last ledger the RPC node has
    upto,         \* upto[c][l], see above
    checkpoint,   \* indexer_checkpoints.last_processed_ledger
    raw,          \* raw_contract_events
    dispatched,   \* the events whose dispatch completed at least once
    withheld,     \* events a node that fell back in the middle of a poll left
                  \* out of a page that the poll took for the end of its window
    lease,        \* the process whose session holds the advisory lock
    worker,       \* the tick each process is in
    faults        \* how many faults there were

NoWorker == "no worker"

Phases == {"idle", "poll", "latest", "page", "record", "dispatch", "commit", "release"}

IdleTick ==
    [pc |-> "idle", dep |-> 1, from |-> 0, end |-> 0, page |-> 0, cursor |-> 0,
     last |-> 0, next |-> 0, complete |-> FALSE, reset |-> FALSE]

dbVars == <<checkpoint, raw, dispatched>>
chainVars == <<tip, rpcTip, upto, withheld>>
vars == <<tip, rpcTip, upto, checkpoint, raw, dispatched, withheld, lease, worker, faults>>

TypeOK ==
    /\ tip \in Nat \ {0} /\ rpcTip \in 1..tip
    /\ upto \in [Contracts -> [0..tip -> Nat]]
    /\ checkpoint \in [Contracts -> 0..tip]
    /\ raw \in [Contracts -> SUBSET Nat]
    /\ dispatched \in [Contracts -> SUBSET Nat]
    /\ withheld \in [Contracts -> SUBSET Nat]
    /\ lease \in Workers \cup {NoWorker}
    /\ worker \in [Workers ->
         [pc : Phases, dep : Nat, from : Nat, end : Nat, page : Nat, cursor : Nat,
          last : Nat, next : Nat, complete : BOOLEAN, reset : BOOLEAN]]
    /\ faults \in 0..MaxFaults

Init ==
    /\ tip = 1 /\ rpcTip = 1
    /\ upto = [c \in Contracts |-> [l \in 0..1 |-> 0]]
    /\ checkpoint = [c \in Contracts |-> 0]
    /\ raw = [c \in Contracts |-> {}]
    /\ dispatched = [c \in Contracts |-> {}]
    /\ withheld = [c \in Contracts |-> {}]
    /\ lease = NoWorker
    /\ worker = [w \in Workers |-> IdleTick]
    /\ faults = 0

\* A step that fails; there are at most MaxFaults of them.
Fault == faults < MaxFaults /\ faults' = faults + 1

SmallerOf(a, b) == IF a < b THEN a ELSE b
LargerOf(a, b)  == IF a > b THEN a ELSE b

-----------------------------------------------------------------------------
(* The chain and the RPC node. *)

\* A ledger closes with some events of each contract.
CloseLedger ==
    /\ tip < MaxLedger
    /\ tip' = tip + 1
    /\ \E n \in [Contracts -> 0..MaxEvents] :
         upto' = [c \in Contracts |->
                   [l \in 0..tip + 1 |-> IF l <= tip THEN upto[c][l] ELSE upto[c][tip] + n[c]]]
    /\ UNCHANGED <<rpcTip, withheld, dbVars, lease, worker, faults>>

\* The node ingests the next ledger.
RpcIngest ==
    /\ rpcTip < tip
    /\ rpcTip' = rpcTip + 1
    /\ UNCHANGED <<tip, upto, withheld, dbVars, lease, worker, faults>>

\* The node restarts from an older state, or a call reaches one that lags, at
\* any await of a poll.
RpcRestart ==
    /\ \E t \in 1..rpcTip - 1 : rpcTip' = t
    /\ UNCHANGED <<tip, upto, withheld, dbVars, lease, worker>>
    /\ Fault

-----------------------------------------------------------------------------
(* One tick of a worker; every await of the code ends a step. *)

Contract(w) == Deployments[worker[w].dep]

\* The tick moves to deployment d, or to the finally block after the last one.
EnterDeployment(d) ==
    [IdleTick EXCEPT !.pc = IF d <= Len(Deployments) THEN "poll" ELSE "release", !.dep = d]

\* tryAcquireIndexerLease: a lock this process holds through another pooled
\* connection may be refused or granted again.
StartTick(w) ==
    /\ worker[w].pc = "idle"
    /\ lease \in {NoWorker, w}
    /\ lease' = w
    /\ worker' = [worker EXCEPT ![w] = EnterDeployment(1)]
    /\ UNCHANGED <<chainVars, dbVars, faults>>

\* Where pollContract starts to read; 0 when there is nowhere to start.
fromLedger(c) == IF checkpoint[c] > 0 THEN checkpoint[c] + 1 ELSE StartLedger

endLedger(from) == SmallerOf(from + Window - 1, rpcTip)

\* getCheckpoint fixes where the poll starts.
ReadCheckpoint(w) ==
    /\ worker[w].pc = "poll"
    /\ worker' = [worker EXCEPT ![w] = [@ EXCEPT !.pc = "latest", !.from = fromLedger(Contract(w))]]
    /\ UNCHANGED <<chainVars, dbVars, lease, faults>>

\* Mutant: the margin is added to the node's tip.
PollRewindsForward(w) ==
    /\ worker[w].pc = "latest"
    /\ worker[w].from > rpcTip
    /\ worker' = [worker EXCEPT ![w] =
                   [@ EXCEPT !.pc = "commit", !.end = rpcTip + Margin,
                             !.complete = TRUE, !.reset = TRUE]]
    /\ UNCHANGED <<chainVars, dbVars, lease, faults>>

\* The checkpoint is at or past the node's tip: an empty batch that rewinds it.
PollRewinds(w) ==
    /\ worker[w].pc = "latest"
    /\ worker[w].from > rpcTip
    /\ worker' = [worker EXCEPT ![w] =
                   [@ EXCEPT !.pc = "commit", !.end = LargerOf(0, rpcTip - Margin),
                             !.complete = TRUE, !.reset = TRUE]]
    /\ UNCHANGED <<chainVars, dbVars, lease, faults>>

\* getLatestLedger fixes the window of the poll.
PollWindow(w) ==
    LET c    == Contract(w)
        from == worker[w].from IN
    /\ worker[w].pc = "latest"
    /\ from # 0 /\ from <= rpcTip
    /\ worker' = [worker EXCEPT ![w] =
                   [@ EXCEPT !.pc = "page", !.end = endLedger(from), !.page = 0,
                             !.cursor = upto[c][from - 1], !.last = upto[c][from - 1],
                             !.next = upto[c][from - 1] + 1,
                             !.complete = TRUE, !.reset = FALSE]]
    /\ UNCHANGED <<chainVars, dbVars, lease, faults>>

\* The last event of a page: the node gives what it has by now.  The first
\* request is bounded by endLedger, the ones that continue from a cursor are
\* not.
PageEnd(t, c) ==
    LET asked == IF t.page = 0 THEN SmallerOf(t.end, rpcTip) ELSE rpcTip IN
    SmallerOf(t.cursor + Limit, LargerOf(t.cursor, upto[c][asked]))

\* One getEvents call.  Events past the window are dropped.  A short page ends
\* the poll, whatever the node's tip is by then; a full page without a cursor,
\* one that spilled past the window and the last allowed page end it with an
\* incomplete batch.
GetEvents(w, cursorMissing) ==
    LET t     == worker[w]
        c     == Contract(w)
        hi    == PageEnd(t, c)
        short == hi - t.cursor < Limit
        spill == hi > upto[c][t.end]
        tired == t.page = Pages - 1 IN
    /\ t.pc = "page"
    /\ cursorMissing => ~short
    /\ worker' = [worker EXCEPT ![w] =
                   [t EXCEPT !.pc = IF short \/ cursorMissing \/ spill \/ tired
                                    THEN "record" ELSE "page",
                             !.page = t.page + 1, !.cursor = hi,
                             !.last = SmallerOf(hi, upto[c][t.end]),
                             !.complete = ~tired /\ (short \/ ~(cursorMissing \/ spill))]]
    /\ withheld' = [withheld EXCEPT ![c] =
                      @ \cup IF short /\ ~tired THEN hi + 1..upto[c][t.end] ELSE {}]
    /\ UNCHANGED <<tip, rpcTip, upto, dbVars, lease>>

\* The node refuses a first request from past its tip, and the tick is over.
StartRefused(w) ==
    /\ worker[w].pc = "page" /\ worker[w].page = 0
    /\ worker[w].from > rpcTip
    /\ worker' = [worker EXCEPT ![w] = [IdleTick EXCEPT !.pc = "release"]]
    /\ UNCHANGED <<chainVars, dbVars, lease, faults>>

FetchPage(w) == GetEvents(w, FALSE) /\ UNCHANGED faults
FetchPageWithoutCursor(w) == GetEvents(w, TRUE) /\ Fault

\* Mutant: an event that is already on record is taken for dispatched.
RecordEventOnce(w) ==
    LET t == worker[w] IN
    /\ t.pc = "record"
    /\ t.next <= t.last
    /\ raw' = [raw EXCEPT ![Contract(w)] = @ \cup {t.next}]
    /\ worker' = [worker EXCEPT ![w] = IF t.next \in raw[Contract(w)]
                                       THEN [t EXCEPT !.next = t.next + 1]
                                       ELSE [t EXCEPT !.pc = "dispatch"]]
    /\ UNCHANGED <<chainVars, checkpoint, dispatched, lease, faults>>

\* recordRawEvent: ON CONFLICT DO NOTHING.
RecordEvent(w) ==
    LET t == worker[w] IN
    /\ t.pc = "record"
    /\ t.next <= t.last
    /\ raw' = [raw EXCEPT ![Contract(w)] = @ \cup {t.next}]
    /\ worker' = [worker EXCEPT ![w] = [t EXCEPT !.pc = "dispatch"]]
    /\ UNCHANGED <<chainVars, checkpoint, dispatched, lease, faults>>

\* Mutant: the events of a batch are dispatched from the newest on.
DispatchBackwards(w) ==
    LET t     == worker[w]
        c     == Contract(w)
        first == upto[c][t.from - 1] + 1 IN
    /\ t.pc = "dispatch"
    /\ dispatched' = [dispatched EXCEPT ![c] = @ \cup {first + t.last - t.next}]
    /\ worker' = [worker EXCEPT ![w] = [t EXCEPT !.pc = "record", !.next = t.next + 1]]
    /\ UNCHANGED <<chainVars, checkpoint, raw, lease, faults>>

DispatchEvent(w) ==
    LET t == worker[w] IN
    /\ t.pc = "dispatch"
    /\ dispatched' = [dispatched EXCEPT ![Contract(w)] = @ \cup {t.next}]
    /\ worker' = [worker EXCEPT ![w] = [t EXCEPT !.pc = "record", !.next = t.next + 1]]
    /\ UNCHANGED <<chainVars, checkpoint, raw, lease, faults>>

\* Recording or dispatching an event throws: a mismatch is noted, the rest of
\* the batch is left and the checkpoint stays.
EventFails(w) ==
    LET t == worker[w] IN
    /\ t.pc \in {"record", "dispatch"}
    /\ t.next <= t.last
    /\ worker' = [worker EXCEPT ![w] = EnterDeployment(t.dep + 1)]
    /\ UNCHANGED <<chainVars, dbVars, lease>>
    /\ Fault

EventsDone(w) ==
    LET t == worker[w] IN
    /\ t.pc = "record"
    /\ t.next > t.last
    /\ worker' = [worker EXCEPT ![w] = IF t.complete THEN [t EXCEPT !.pc = "commit"]
                                       ELSE EnterDeployment(t.dep + 1)]
    /\ UNCHANGED <<chainVars, dbVars, lease, faults>>

\* advanceCheckpoint takes the GREATEST of the two ledgers, resetCheckpoint
\* overwrites.
CommitCheckpoint(w) ==
    LET t == worker[w]
        c == Contract(w) IN
    /\ t.pc = "commit"
    /\ checkpoint' = [checkpoint EXCEPT ![c] = IF t.reset THEN t.end ELSE LargerOf(@, t.end)]
    /\ worker' = [worker EXCEPT ![w] = EnterDeployment(t.dep + 1)]
    /\ UNCHANGED <<chainVars, raw, dispatched, lease, faults>>

\* An RPC or database call of the tick throws to its outer catch.
AbortTick(w) ==
    /\ worker[w].pc \notin {"idle", "release"}
    /\ worker' = [worker EXCEPT ![w] = [IdleTick EXCEPT !.pc = "release"]]
    /\ UNCHANGED <<chainVars, dbVars, lease>>
    /\ Fault

\* Mutant: the lock is released, the running flag is not cleared.
ReleaseLeaseOnly(w) ==
    /\ worker[w].pc = "release"
    /\ lease' = IF lease = w THEN NoWorker ELSE lease
    /\ UNCHANGED <<chainVars, dbVars, worker, faults>>

\* releaseIndexerLease: pg_advisory_unlock runs on any connection of the pool
\* and releases nothing when that is not the one that took the lock.
ReleaseLease(w) ==
    /\ worker[w].pc = "release"
    /\ worker' = [worker EXCEPT ![w] = IdleTick]
    /\ lease' \in IF lease = w THEN {w, NoWorker} ELSE {lease}
    /\ UNCHANGED <<chainVars, dbVars, faults>>

-----------------------------------------------------------------------------
(* Faults. *)

\* The pool closes the idle connection whose session holds the lock.
LeaseExpires ==
    /\ lease # NoWorker
    /\ lease' = NoWorker
    /\ UNCHANGED <<chainVars, dbVars, worker, faults>>

\* The process dies and starts again; only the database survives.
Crash(w) ==
    /\ worker[w].pc # "idle"
    /\ worker' = [worker EXCEPT ![w] = IdleTick]
    /\ lease' = IF lease = w THEN NoWorker ELSE lease
    /\ UNCHANGED <<chainVars, dbVars>>
    /\ Fault

Tick(w) ==
    \/ StartTick(w) \/ ReadCheckpoint(w) \/ PollRewinds(w) \/ PollWindow(w)
    \/ FetchPage(w) \/ StartRefused(w) \/ RecordEvent(w) \/ DispatchEvent(w)
    \/ EventsDone(w) \/ CommitCheckpoint(w) \/ ReleaseLease(w)

Next ==
    \/ CloseLedger \/ RpcIngest \/ RpcRestart \/ LeaseExpires
    \/ \E w \in Workers : Tick(w) \/ FetchPageWithoutCursor(w) \/ EventFails(w)
                            \/ AbortTick(w) \/ Crash(w)

\* The timer keeps ticking, the node keeps ingesting, and the pool closes the
\* connection of a leaked lock.
Fairness == WF_vars(RpcIngest) /\ WF_vars(LeaseExpires) /\ \A w \in Workers : WF_vars(Tick(w))

Spec == Init /\ [][Next]_vars /\ Fairness

-----------------------------------------------------------------------------
\* Event k of contract c is one the indexer is asked for: it lies in a ledger
\* from StartLedger on.
Wanted(c, k) ==
    /\ StartLedger \in 1..tip
    /\ k > upto[c][StartLedger - 1]

\* Event k of contract c was dispatched, or left out by a node that fell back.
Handled(c, k) == k \in dispatched[c] \cup withheld[c]

\* A ledger counts as processed only when every event of the contract up to it
\* has been dispatched: a crash, a failing event, a partial page, a rewind and
\* a second worker after a lost lease never let the checkpoint pass an event.
\* The exception is an event that the node did not have any more when it gave
\* the last page of a window that getLatestLedger had opened (event-source.ts:
\* 30 and 105).
CheckpointCoversDispatch ==
    \A c \in Contracts :
      \A k \in 1..upto[c][checkpoint[c]] : Wanted(c, k) => Handled(c, k)

\* The projections see the events of a contract in chain order: an event is
\* dispatched only when all the wanted ones before it were, with the same
\* exception.
DispatchHasNoGap ==
    \A c \in Contracts : \A k \in dispatched[c] :
      \A j \in 1..k : Wanted(c, j) => Handled(c, j)

\* No window of the chain fills a page.
LightTraffic ==
    \A c \in Contracts : \A l \in 0..tip :
      upto[c][SmallerOf(l + Window, tip)] - upto[c][l] < Limit

\* When the windows of the (bounded) chain never fill a page, the indexer
\* catches up with it once the faults are over: neither a crash, a failing
\* call, a leaked or lost lease nor the rewind keeps an event out.  Only the
\* node's fall-back in the middle of a poll does, and only an event older than
\* the Margin ledgers that the rewind reads again.
LightTrafficIsIndexed ==
    []LightTraffic =>
      []<>(\A c \in Contracts : \A k \in 1..upto[c][tip] :
             Wanted(c, k) => \/ k \in dispatched[c]
                             \/ k \in withheld[c] /\ k <= upto[c][LargerOf(0, tip - Margin)])

\* What PLAN.md:137 says, failures of the RPC skip no ledger: every event
\* reaches the projections, one that the node did not have for a while too.
NoLedgerSkipped ==
    []<>(\A c \in Contracts : \A k \in 1..upto[c][tip] : Wanted(c, k) => k \in dispatched[c])
=============================================================================
