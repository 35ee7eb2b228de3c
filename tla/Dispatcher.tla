----------------------------- MODULE Dispatcher -----------------------------
(***************************************************************************)
(* The EventDispatcher (indexer/dispatcher.ts): which reconciliation calls *)
(* an event leads to.  What the indexer guarantees (module Indexer) is all *)
(* that is used of it: every event is dispatched until a dispatch of it    *)
(* succeeds, and may be dispatched again after that.                       *)
(***************************************************************************)
EXTENDS ReadModel

CONSTANTS
    MaxReplays,    \* bound: dispatches of an event that was already done
    Replayed       \* bound: the topics that are dispatched again

VARIABLES
    done,      \* the events whose dispatch succeeded
    replays    \* how many dispatches repeated one

\* Topics are named <contract>.<topic>; a contract's "admin" topic, the
\* liquidation topics and forced transfers have no case of their own.
dispatchMarketRegistry(e) ==
    CASE e.topic \in {"registry.mkt_new", "registry.status", "registry.final"} -> <<reconcileMarket>>
      [] e.topic = "registry.res_req" -> <<reconcileMarket, reconcileRequest>>
      [] OTHER -> <<>>

recordAmmUserEffects(e) ==
    CASE e.topic = "amm.buy" ->
           << <<AppendTo("trades", e.user)>>, reconcileUserPosition(e.user),
              reconcileUserVaultState(e.user)>>
      [] e.topic = "amm.lp_add" ->
           << <<AppendTo("liquidity_events", e.user)>>, reconcileLpPosition(e.user),
              reconcileUserPosition(e.user), reconcileUserVaultState(e.user)>>

dispatchAmm(e) ==
    CASE e.topic = "amm.pool" -> <<reconcileMarket, reconcilePool>>
      [] e.topic \in {"amm.buy", "amm.lp_add"} -> <<reconcilePool>> \o recordAmmUserEffects(e)
      [] e.topic = "amm.lpfee" -> <<recordLpFeesClaimed(e.user)>>
      [] OTHER -> <<>>

recordVaultUserEffects(e) ==
    IF e.user = NoUser THEN <<>>
    ELSE <<reconcileUserVaultState(e.user), reconcileUserPosition(e.user)>>

dispatchCollateralVault(e) ==
    CASE e.topic \in {"vault.deposit", "vault.redeem", "vault.fee"} ->
           <<reconcileVault>> \o recordVaultUserEffects(e)
      [] e.topic \in {"vault.cfund", "vault.cpay"} ->
           <<reconcileVault, reconcileUserVaultState(e.user)>>
      [] OTHER -> <<>>

dispatchConditionalTokens(e) ==
    IF e.topic \in {"tokens.split", "tokens.burn"} THEN <<reconcileUserPosition(e.user)>> ELSE <<>>

dispatchCodOracle(e) ==
    IF e.topic \in {"oracle.propose", "oracle.dispute", "oracle.final"} THEN <<reconcileRequest>> ELSE <<>>

dispatchCouncil(e) ==
    CASE e.topic = "council.case" -> <<reconcileCase>>
      [] e.topic \in {"council.commit", "council.reveal", "council.reward"} ->
           <<reconcileCase, <<AppendTo("council_votes", e.user)>> >>
      [] OTHER -> <<>>

\* A failing read or write of the action is only logged.
dispatchTimelock(e) ==
    IF e.topic = "timelock.queued"
    THEN <<reconcileGovernance, <<Copy(Row("timelock"), {"skip"}, "skip")>> >> ELSE <<>>

RoleTopics == {"gov.module", "fees.fee_cfg", "amm.pause", "vault.bond"}

dispatch(e) ==
    (IF e.topic \in RoleTopics THEN <<reconcileGovernance>> ELSE <<>>)
      \o dispatchMarketRegistry(e) \o dispatchAmm(e) \o dispatchCollateralVault(e)
      \o dispatchConditionalTokens(e) \o dispatchCodOracle(e) \o dispatchCouncil(e)
      \o dispatchTimelock(e)

-----------------------------------------------------------------------------
InitDispatcher == done = events /\ replays = 0

StartDispatch(d) ==
    /\ actor[d].pc = "idle"
    /\ \E e \in events :
         /\ IF e \in done
            THEN e.topic \in Replayed /\ replays < MaxReplays /\ replays' = replays + 1
            ELSE UNCHANGED replays
         /\ actor' = [actor EXCEPT ![d] =
                       [IdleActor EXCEPT !.pc = "next", !.calls = dispatch(e),
                                         !.label = e.ledger, !.event = e]]
    /\ UNCHANGED <<readModelVars, faults, done>>

FinishDispatch(d) ==
    /\ actor[d].pc = "next" /\ actor[d].calls = <<>>
    /\ done' = done \cup {actor[d].event}
    /\ actor' = [actor EXCEPT ![d] = IdleActor]
    /\ UNCHANGED <<readModelVars, faults, replays>>
=============================================================================
