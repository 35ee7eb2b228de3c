---------------------------- MODULE ScheduledJobs ----------------------------
(***************************************************************************)
(* The periodic reconciliation (jobs/scheduled.ts): one tick reads the     *)
(* latest ledger once and then goes through everything the database or     *)
(* the factory counter knows of.                                           *)
(***************************************************************************)
EXTENDS ReadModel

\* The tick knows the markets that have a row, and those below the factory's
\* counter when that can be read (discoverMarketIds); the pools with a row.
StartJob(j) ==
    /\ actor[j].pc = "idle"
    /\ \E counted \in BOOLEAN :
         /\ IF counted THEN UNCHANGED faults ELSE Fault
         /\ actor' = [actor EXCEPT ![j] =
                       [IdleActor EXCEPT !.pc = "next", !.label = tip, !.pooled = db[Row("pool")] # NoRow,
                                         !.calls = <<reconcileGovernance>>
                                           \o (IF (counted /\ Exists(Row("market"))) \/ db[Row("market")] # NoRow
                                               THEN <<reconcileMarket, reconcileVault>> ELSE <<>>)]]
    /\ UNCHANGED readModelVars

KnownOwners(kind) == {u \in Users : db[UserRow(kind, u)] # NoRow}

\* The calls of the users in us, in some fixed order.
PerUser(us, call(_)) ==
    LET order == CHOOSE f \in [1..Cardinality(us) -> us] : {f[i] : i \in 1..Cardinality(us)} = us
    IN  [i \in 1..Cardinality(us) |-> call(order[i])]

\* listKnownPositionOwners, listKnownLpOwners and listKnownTimelockActionIds:
\* an owner or an action that has no row is not reconciled.
ListOwners(j) ==
    /\ actor[j].pc = "next" /\ actor[j].calls = <<>> /\ ~actor[j].listed
    /\ actor' = [actor EXCEPT ![j].listed = TRUE,
                              ![j].calls =
                    PerUser(KnownOwners("position"), reconcileUserPosition)
                      \o PerUser(KnownOwners("position"), reconcileUserVaultState)
                      \o (IF actor[j].pooled
                          THEN PerUser(KnownOwners("lp"), reconcileLpPosition) ELSE <<>>)
                      \o (IF db[Row("timelock")] # NoRow THEN <<reconcileTimelockAction>> ELSE <<>>)]
    /\ UNCHANGED <<readModelVars, faults>>

FinishJob(j) ==
    /\ actor[j].pc = "next" /\ actor[j].calls = <<>> /\ actor[j].listed
    /\ actor' = [actor EXCEPT ![j] = IdleActor]
    /\ UNCHANGED <<readModelVars, faults>>
=============================================================================
