------------------------------ MODULE ReadModel ------------------------------
(***************************************************************************)
(* The projections of dike-services: the tables written through            *)
(* state-repository.ts and the ReconciliationService (jobs/                *)
(* reconciliation.ts) that copies contract state into them.                *)
(*                                                                         *)
(* A ledger holds one transaction.  Of the state of a contract object only *)
(* the ledgers that changed it are kept, and a row of the database holds   *)
(* the last change it has seen together with its last_reconciled_ledger.   *)
(* There is one market with its pool, request, case and vault, and one     *)
(* timelock action.                                                        *)
(***************************************************************************)
EXTENDS Integers, Sequences, FiniteSets, FiniteSetsExt

CONSTANTS
    Users,
    Dispatchers,   \* event dispatches that can be under way at a time
    Jobs,          \* scheduled jobs; every service process runs one
    MaxLedger,     \* bound: ledgers
    MaxFaults      \* bound: failing reads and writes

VARIABLES
    tip,       \* the last closed ledger
    changes,   \* changes[r]: the ledgers that changed the object of row r
    events,    \* the contract events so far
    db,        \* db[r]: the row (governance_config alone has no ledger column)
    history,   \* trades, liquidity_events, lp_fee_claim_events, council_votes
    claimed,   \* lp_positions.fees_claimed, counting claims
    actor,     \* what each dispatcher and job is doing
    faults     \* how many reads and writes failed

Actors == Dispatchers \cup Jobs

NoUser == "nobody"
Row(kind)        == <<kind, NoUser>>
UserRow(kind, u) == <<kind, u>>
Rows ==
    {Row(k) : k \in {"gov", "market", "pool", "request", "case", "vault", "timelock"}}
      \cup {UserRow(k, u) : k \in {"position", "vaultState", "lp"}, u \in Users}

Missing == -1      \* no such row
Zeroed  == -2      \* the row holds the fallback of a failed read
NoRow == [val |-> Missing, label |-> 0]

Exists(r) == changes[r] # {}
Version(r) == IF Exists(r) THEN Max(changes[r]) ELSE 0

\* One step of a reconciliation: copy an object into its row, or append to one
\* of the event tables.  onRead says what a failing contract read may do, onWrite
\* whether a failing write is thrown on or caught and skipped.
Copy(r, onRead, onWrite) == [table |-> "row", row |-> r, onRead |-> onRead, onWrite |-> onWrite]
AppendTo(t, u) ==
    [table |-> t, row |-> UserRow("lp", u), onRead |-> {"throw"}, onWrite |-> "throw"]

\* The rows with a getter whose failure the code replaces by zeros or nulls.
FallbackKinds == {"gov", "case", "vaultState", "lp"}

NoEvent == [ledger |-> 0, topic |-> "none", user |-> NoUser]
IdleActor == [pc |-> "idle", calls |-> <<>>, val |-> 0, label |-> 0, event |-> NoEvent,
              pooled |-> FALSE, listed |-> FALSE]

readModelVars == <<db, history, claimed>>

\* The market exists and is indexed.
InitReadModel ==
    /\ db = [r \in Rows |-> IF Exists(r) THEN [val |-> 1, label |-> 1] ELSE NoRow]
    /\ history = {}
    /\ claimed = [u \in Users |-> 0]
    /\ actor = [a \in Actors |-> IdleActor]
    /\ faults = 0

Fault == faults < MaxFaults /\ faults' = faults + 1

-----------------------------------------------------------------------------
(* The calls of ReconciliationService, each a sequence of steps. *)

reconcileGovernance == <<Copy(Row("gov"), {"zero"}, "throw")>>
reconcileMarket     == <<Copy(Row("market"), {"throw"}, "throw")>>
reconcilePool       == <<Copy(Row("pool"), {"throw"}, "throw")>>
\* Of a case the reward pool falls back to zero.  Called for a request, a case
\* that cannot be found, read or written is only logged.
reconcileCase       == <<Copy(Row("case"), {"throw", "zero"}, "throw")>>
reconcileRequest    ==
    <<Copy(Row("request"), {"throw"}, "throw"), Copy(Row("case"), {"skip", "zero"}, "skip")>>
reconcileVault      == <<Copy(Row("vault"), {"throw"}, "throw")>>
reconcileUserPosition(u)   == <<Copy(UserRow("position", u), {"skip"}, "throw")>>
reconcileUserVaultState(u) == <<Copy(UserRow("vaultState", u), {"zero"}, "throw")>>
\* The shares must be read, the two fee amounts fall back to zero.
reconcileLpPosition(u)     == <<Copy(UserRow("lp", u), {"throw", "zero"}, "throw")>>
recordLpFeesClaimed(u)     == reconcileLpPosition(u) \o <<AppendTo("lp_fee_claim_events", u)>>
reconcileTimelockAction    == <<Copy(Row("timelock"), {"throw"}, "throw")>>

\* Mutant: the market is reconciled without its pool and request.
NoSequel(s) == <<>>

\* Having read a market, reconcileMarket goes on to its pool and, when there
\* is one, to its request.
Sequel(s) ==
    IF s.row = Row("market")
    THEN reconcilePool \o (IF Exists(Row("request")) THEN reconcileRequest ELSE <<>>)
    ELSE <<>>

-----------------------------------------------------------------------------
(* One step of an actor. *)

Call(a) == Head(actor[a].calls)
Step(a) == Head(Call(a))
\* The call after its first step, with what that step makes necessary.
Advance(t, sequel) ==
    LET rest == sequel \o Tail(Head(t.calls)) IN
    [t EXCEPT !.pc = "next", !.calls = IF rest = <<>> THEN Tail(@) ELSE <<rest>> \o Tail(@)]

\* A throw ends a dispatch; a job goes on with its next call (safeStep).
Thrown(t) ==
    IF t.event # NoEvent THEN IdleActor ELSE [t EXCEPT !.pc = "next", !.calls = Tail(@)]

Busy(a) == actor[a].pc = "next" /\ actor[a].calls # <<>>

\* User balances can always be read; the other objects once they exist.
Readable(r) == Exists(r) \/ r[2] # NoUser

\* A contract read returns; the row is written in a later step.
ReadContract(a) ==
    /\ Busy(a)
    /\ Step(a).table = "row"
    /\ Readable(Step(a).row)
    /\ actor' = [actor EXCEPT ![a].pc = "write", ![a].val = Version(Step(a).row)]
    /\ UNCHANGED <<readModelVars, faults>>

\* A contract read fails: it ends the call, skips the row, or is replaced by
\* zeros.
ReadFails(a, outcomes) ==
    /\ Busy(a)
    /\ Step(a).table = "row"
    /\ \E f \in outcomes :
         actor' = [actor EXCEPT ![a] =
                    CASE f = "throw" -> Thrown(@)
                      [] f = "skip"  -> Advance(@, <<>>)
                      [] f = "zero"  -> [@ EXCEPT !.pc = "write", !.val = Zeroed]]
    /\ UNCHANGED <<readModelVars>>

\* The getters that fall back are asked of objects that exist.
ReadMissing(a) ==
    ReadFails(a, Step(a).onRead \ {"zero"}) /\ ~Readable(Step(a).row) /\ UNCHANGED faults
RpcFault(a)    == ReadFails(a, Step(a).onRead) /\ Readable(Step(a).row) /\ Fault

\* Mutant: the row is labelled with the ledger of the write, not of the read.
UpsertRowAtTip(a) ==
    LET s == Step(a) IN
    /\ actor[a].pc = "write"
    /\ db' = [db EXCEPT ![s.row] = [val |-> actor[a].val, label |-> tip]]
    /\ actor' = [actor EXCEPT ![a] = Advance(@, Sequel(s))]
    /\ UNCHANGED <<history, claimed, faults>>

\* The upserts: the last writer wins, whatever the row holds.
UpsertRow(a) ==
    LET s == Step(a) IN
    /\ actor[a].pc = "write"
    /\ db' = [db EXCEPT ![s.row] = [val |-> actor[a].val, label |-> actor[a].label]]
    /\ actor' = [actor EXCEPT ![a] = Advance(@, Sequel(s))]
    /\ UNCHANGED <<history, claimed, faults>>

\* Mutant: the total is increased by every dispatch of a claim.
AppendEventAgain(a) ==
    LET s == Step(a) IN
    /\ Busy(a)
    /\ s.table # "row"
    /\ history' = history \cup {<<s.table, actor[a].event>>}
    /\ claimed' = IF s.table = "lp_fee_claim_events" /\ db[s.row] # NoRow
                  THEN [claimed EXCEPT ![s.row[2]] = @ + 1] ELSE claimed
    /\ actor' = [actor EXCEPT ![a] = Advance(@, <<>>)]
    /\ UNCHANGED <<db, faults>>

\* The event tables: ON CONFLICT (network, event_id) DO NOTHING.  A new claim
\* is added to the total of an existing LP row in the same statement.
AppendEvent(a) ==
    LET s     == Step(a)
        entry == <<s.table, actor[a].event>>
        u     == s.row[2] IN
    /\ Busy(a)
    /\ s.table # "row"
    /\ history' = history \cup {entry}
    /\ claimed' = IF /\ s.table = "lp_fee_claim_events"
                     /\ entry \notin history
                     /\ db[s.row] # NoRow
                  THEN [claimed EXCEPT ![u] = @ + 1]
                  ELSE claimed
    /\ actor' = [actor EXCEPT ![a] = Advance(@, <<>>)]
    /\ UNCHANGED <<db, faults>>

\* The database refuses a write.
FailWrite(a) ==
    /\ \/ actor[a].pc = "write"
       \/ Busy(a) /\ Step(a).table # "row"
    /\ Fault
    /\ actor' = [actor EXCEPT ![a] = IF Step(a).onWrite = "throw" THEN Thrown(@) ELSE Advance(@, <<>>)]
    /\ UNCHANGED <<readModelVars>>

\* The process of a dispatch or a job dies.
Crash(a) ==
    /\ actor[a].pc # "idle"
    /\ Fault
    /\ actor' = [actor EXCEPT ![a] = IdleActor]
    /\ UNCHANGED <<readModelVars>>

ActorStep(a) == ReadContract(a) \/ ReadMissing(a) \/ UpsertRow(a) \/ AppendEvent(a)
=============================================================================
