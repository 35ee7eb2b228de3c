---------------------------- MODULE TimelockDesk ----------------------------
(***************************************************************************)
(* DikeTimelock and the part of DikeGovernance that names the timelock in  *)
(* force, with the admin page that executes queued actions (app/(app)/     *)
(* admin/page.tsx, features/admin/GovernancePanel.tsx).  There may be two  *)
(* timelock contracts: an action can put the other one in force.  Some     *)
(* targets ask DikeGovernance for the timelock in force, others take calls *)
(* from an address of their own.                                           *)
(***************************************************************************)
EXTENDS WebSession

CONSTANTS
    ActionIds,      \* the actions queued in all, a bound
    Locks,          \* the timelock contracts
    MinDelay, GracePeriod,
    Delays          \* the delays that are asked for

ASSUME TimelockAssumption ==
    /\ {MinDelay, GracePeriod} \subseteq Nat /\ Delays \subseteq Nat
    /\ Locks # {}

VARIABLES
    action,       \* the actions of the timelocks
    inForce,      \* DikeGovernance: the timelock that is obeyed
    trusted,      \* what a target with an address of its own has there: a timelock or none
    rowsShown,    \* the actions as the admin page has loaded them
    panelNow,     \* the time the rows of the page go by; they update it now and then
    executing,    \* the executions under way: the action, who signs it, whether its row is still there
    executedHere  \* the rows that say "Executed."

timelockVars == <<action, inForce, trusted, rowsShown, panelNow, executing, executedHere>>

NoLock == "none"
NotQueued ==
    [lock |-> NoLock, kind |-> "none", queued_at |-> 0, execute_after |-> 0, expires_at |-> 0,
     executed |-> FALSE, cancelled |-> FALSE, ran_at |-> 0, ran_under |-> NoLock]
Unloaded == [i \in ActionIds |-> NotQueued]
NoTime == -1

\* Treasury, Pause, Upgrade and Creator ask DikeGovernance who its timelock is,
\* Timelock replaces it there, and the targets of CouncilMember,
\* SupportedCollateral, ModuleAddress and FeeConfig go by their own storage.
PayloadKinds == {"asks", "replace", "stores"}

TimelockTypeOK ==
    /\ DOMAIN action = ActionIds /\ inForce \in Locks /\ trusted \in Locks \cup {NoLock}
    /\ panelNow \in {NoTime} \cup 0..MaxClock
    /\ executing \subseteq [id : ActionIds, account : Accounts, mounted : BOOLEAN]
    /\ executedHere \subseteq ActionIds

InitTimelock ==
    /\ action = [i \in ActionIds |-> NotQueued]
    /\ inForce \in Locks /\ trusted = NoLock
    /\ rowsShown = Unloaded /\ panelNow = NoTime
    /\ executing = {} /\ executedHere = {}

-----------------------------------------------------------------------------
(* The contracts. *)

page_ == <<rowsShown, panelNow, executing, executedHere>>

\* A proposer queues an action.
Queue ==
    \E i \in ActionIds, l \in Locks, k \in PayloadKinds, d \in Delays :
      /\ d >= MinDelay
      /\ action[i] = NotQueued
      /\ \A j \in ActionIds : j < i => action[j] # NotQueued
      /\ clock + d + GracePeriod <= MaxClock
      /\ action' = [action EXCEPT ![i] =
                      [NotQueued EXCEPT !.lock = l, !.kind = k, !.queued_at = clock,
                                        !.execute_after = clock + d,
                                        !.expires_at = clock + d + GracePeriod]]
      /\ UNCHANGED <<inForce, trusted, page_>>

Cancel ==
    \E i \in ActionIds :
      /\ action[i] # NotQueued /\ ~action[i].executed /\ ~action[i].cancelled
      /\ action' = [action EXCEPT ![i].cancelled = TRUE]
      /\ UNCHANGED <<inForce, trusted, page_>>

Executable(i) ==
    /\ action[i] # NotQueued /\ ~action[i].executed /\ ~action[i].cancelled
    /\ action[i].execute_after <= clock /\ clock <= action[i].expires_at

\* Faulty variant: the factory and DikeGovernance go by an address of their own
\* too.
Authority_stored(kind) == IF kind = "replace" THEN inForce ELSE trusted

\* The timelock that the target of a payload requires.
Authority(kind) == IF kind = "stores" THEN trusted ELSE inForce

\* execute: the target takes the call from its authority only; the whole
\* transaction is undone otherwise.
execute(i) ==
    /\ Executable(i)
    /\ action[i].lock = Authority(action[i].kind)
    /\ action' = [action EXCEPT ![i].executed = TRUE, ![i].ran_at = clock, ![i].ran_under = inForce]
    /\ IF action[i].kind = "replace" THEN inForce' \in Locks \ {inForce} ELSE UNCHANGED inForce
    /\ UNCHANGED trusted

\* The target's admin writes the address it goes by (set_role, set_governance,
\* set_admin); the deployment writes an account there.
SetTrusted ==
    /\ \E l \in Locks \ {trusted} : trusted' = l
    /\ UNCHANGED <<action, inForce, page_>>

\* The executor, without the page.
ExecuteElsewhere == \E i \in ActionIds : execute(i) /\ UNCHANGED page_

-----------------------------------------------------------------------------
(* The page. *)

\* The server component loads the rows once, with the page.
LoadPanel ==
    /\ rowsShown = Unloaded
    /\ rowsShown' = action
    /\ UNCHANGED <<action, inForce, trusted, panelNow, executing, executedHere>>

\* When the gate closes the rows go with their state; an execution goes on.
TimelockReacts ==
    /\ IF GateOpen("canAdmin")' THEN UNCHANGED <<panelNow, executing, executedHere>>
       ELSE /\ panelNow' = NoTime /\ executedHere' = {}
            /\ executing' = {[e EXCEPT !.mounted = FALSE] : e \in executing}
    /\ UNCHANGED <<action, inForce, trusted, rowsShown>>

\* A row's timer, first on mount.
PanelTick ==
    /\ GateOpen("canAdmin") /\ panelNow # clock
    /\ panelNow' = clock
    /\ UNCHANGED <<action, inForce, trusted, rowsShown, executing, executedHere>>

queued(row) == ~row.executed /\ ~row.cancelled /\ row.execute_after > 0

isReady(i) == queued(rowsShown[i]) /\ panelNow # NoTime /\ panelNow >= rowsShown[i].execute_after

\* Each row disables its own button while it executes; it does not look at the
\* end of the grace period.
handleExecute ==
    \E i \in ActionIds :
      /\ GateOpen("canAdmin")
      /\ isReady(i) /\ i \notin executedHere
      /\ \A e \in executing : e.id = i => ~e.mounted
      /\ executing' = executing \cup {[id |-> i, account |-> address, mounted |-> TRUE]}
      /\ UNCHANGED <<action, inForce, trusted, rowsShown, panelNow, executedHere>>

ExecutionSucceeds ==
    \E e \in executing :
      /\ kit = e.account
      /\ execute(e.id)
      /\ executing' = executing \ {e}
      /\ executedHere' = IF e.mounted THEN executedHere \cup {e.id} ELSE executedHere
      /\ UNCHANGED <<rowsShown, panelNow>>

ExecutionFails ==
    \E e \in executing :
      /\ executing' = executing \ {e}
      /\ UNCHANGED <<action, inForce, trusted, rowsShown, panelNow, executedHere>>

TimelockStep ==
    /\ UNCHANGED sessionVars
    /\ \/ Queue \/ Cancel \/ SetTrusted \/ ExecuteElsewhere \/ LoadPanel \/ PanelTick
       \/ handleExecute \/ ExecutionSucceeds \/ ExecutionFails

(***************************************************************************)
(* Governance waits: whatever takes effect had waited out the delay since  *)
(* it was queued, had not run out its grace period and was not cancelled   *)
(* before or after; what a target that asks DikeGovernance took came       *)
(* through the timelock in force when it did; and all this although the    *)
(* timelock may be replaced while actions are pending and the page may     *)
(* show rows of long ago; the page says so of such actions only            *)
(* (dike_timelock lib.rs:270-336, GovernancePanel.tsx:151-171).  A target  *)
(* with an address of its own takes calls from a replaced timelock until   *)
(* that address is written again.                                          *)
(***************************************************************************)
GovernanceWaits ==
    \A i \in ActionIds :
      /\ action[i].executed =>
           /\ ~action[i].cancelled
           /\ action[i].queued_at + MinDelay <= action[i].ran_at
           /\ action[i].ran_at <= action[i].expires_at
           /\ action[i].kind # "stores" => action[i].ran_under = action[i].lock
      /\ i \in executedHere => action[i].executed
=============================================================================
