------------------------------ MODULE WebProofs ------------------------------
(***************************************************************************)
(* What the pages of dike-web show and sign, proved for any accounts, any  *)
(* timelocks and any bounds: the keyed state of the forms, the labelled    *)
(* positions of the portfolio, the gates and what is created from behind   *)
(* them, and the timelock the admin page executes on.                      *)
(***************************************************************************)
EXTENDS WebApp, TLAPS

-----------------------------------------------------------------------------
(* The portfolio. *)

\* The positions shown carry the wallet they were loaded for.
PositionsLabelled == positions \in {portfolioAddress, NoAccount}

LEMMA LabelsInit == Init => PositionsLabelled
BY DEF Init, InitPortfolio, PositionsLabelled

\* A load and a refresh set both; every other step leaves both alone.
LEMMA LabelsKept == PositionsLabelled /\ [Next]_vars => PositionsLabelled'
<1> SUFFICES ASSUME PositionsLabelled, [Next]_vars PROVE PositionsLabelled'
    OBVIOUS
<1> USE DEF PositionsLabelled
<1>1. CASE UNCHANGED portfolioVars
    BY <1>1 DEF portfolioVars
<1>2. CASE PortfolioReacts
    BY <1>2 DEF PortfolioReacts
<1>3. CASE PortfolioStep
  <2>1. CASE LoadEnds \/ RefreshEnds
      BY <2>1 DEF LoadEnds, RefreshEnds
  <2>2. CASE UpdateArrives \/ RefreshStarts \/ SelectPosition \/ CloseDialog \/ Redeem
             \/ RedeemFails \/ RedeemSucceeds
      BY <2>2 DEF UpdateArrives, RefreshStarts, SelectPosition, CloseDialog, Redeem,
                  RedeemFails, RedeemSucceeds
  <2> QED BY <1>3, <2>1, <2>2 DEF PortfolioStep
<1> QED
    BY <1>1, <1>2, <1>3 DEF Next, vars, Session, OnLivePage, portfolioVars

(***************************************************************************)
(* The page never shows the positions of one wallet as those of another,   *)
(* however many wallets there are and however late a refresh of a wallet   *)
(* left meanwhile ends (dashboard/page.tsx:29-48).                         *)
(***************************************************************************)
THEOREM PositionsAlwaysOwned == Spec => []PositionsBelongToWallet
<1>1. PositionsLabelled => PositionsBelongToWallet
    BY DEF PositionsLabelled, PositionsBelongToWallet, loading
<1> QED
    BY <1>1, LabelsInit, LabelsKept, PTL DEF Spec

-----------------------------------------------------------------------------
(* The gates. *)

\* The services' lists do not change in a run, the permissions that are held
\* are the ones the services gave their wallet, and a creation under way was
\* clicked by a creator on a form that passed validate.
PermissionsTrue ==
    permissions = NoPermissions \/ permissions = authz(permissions.address)
CreationChecked ==
    creation = NoCreation \/ (creation.account \in lists["creator"] /\ creation.draft.filled)
GateInv == PermissionsTrue /\ CreationChecked /\ CreationsAllowed

LEMMA GateInvInit == Init => GateInv
BY DEF Init, InitSession, InitCreate, GateInv, PermissionsTrue, CreationChecked,
       CreationsAllowed

\* An open gate is one the services grant to the wallet that is connected: the
\* permissions are of that wallet, or none are held.
LEMMA OpenIsGranted ==
    ASSUME PermissionsTrue, NEW gate \in Gates, GateOpen(gate)
    PROVE  authz(address)[gate]
<1>1. address # NoAccount /\ permissions.address = address /\ permissions[gate]
    BY DEF GateOpen, permissionsLoading
<1>2. permissions # NoPermissions
    BY <1>1 DEF NoPermissions
<1>3. permissions = authz(address)
    BY <1>1, <1>2 DEF PermissionsTrue
<1> QED
    BY <1>1, <1>3

\* No step of the session touches the lists, and the permissions are replaced
\* by the answer for a wallet or dropped.
LEMMA SessionKeeps ==
    ASSUME PermissionsTrue, WalletStep \/ PermissionsArrive \/ Tick
    PROVE  PermissionsTrue' /\ lists' = lists
<1>1. CASE PermissionsArrive
  <2>1. lists' = lists
      BY <1>1 DEF PermissionsArrive, walletVars
  <2>2. permissions' = authz(permFetch) \/ permissions' = NoPermissions
      BY <1>1 DEF PermissionsArrive
  <2>3. authz(permFetch).address = permFetch
      BY DEF authz
  <2>4. \A a : authz(a)' = authz(a)
      BY <2>1 DEF authz
  <2> QED BY <2>1, <2>2, <2>3, <2>4 DEF PermissionsTrue, NoPermissions
<1>2. CASE DisconnectWallet
    BY <1>2 DEF DisconnectWallet, PermissionsTrue, NoPermissions
<1>3. CASE SwitchAccount \/ RestoreReads \/ RestoreApplies \/ ConnectOpens \/ ConnectEnds \/ Tick
  <2>1. lists' = lists /\ permissions' = permissions
      BY <1>3 DEF SwitchAccount, RestoreReads, RestoreApplies, ConnectOpens, ConnectEnds, Tick,
                  walletVars
  <2> QED BY <2>1 DEF PermissionsTrue, authz
<1> QED
    BY <1>1, <1>2, <1>3 DEF WalletStep

LEMMA GateInvKept == GateInv /\ [Next]_vars => GateInv'
<1> SUFFICES ASSUME GateInv, [Next]_vars PROVE GateInv'
    OBVIOUS
<1> USE DEF GateInv
<1>1. ASSUME UNCHANGED sessionVars PROVE PermissionsTrue' /\ lists' = lists
    BY <1>1 DEF sessionVars, PermissionsTrue, authz
<1>2. ASSUME lists' = lists, UNCHANGED <<creation, created>>
      PROVE  CreationChecked' /\ CreationsAllowed'
    BY <1>2 DEF CreationChecked, CreationsAllowed
<1>3. CASE Session
  <2>1. PermissionsTrue' /\ lists' = lists
      BY <1>3, SessionKeeps DEF Session
  <2>2. UNCHANGED <<creation, created>>
      BY <1>3 DEF Session, CreateReacts, createVars
  <2> QED BY <2>1, <2>2, <1>2
<1>4. CASE page = "create" /\ CreateStep
  <2>1. PermissionsTrue' /\ lists' = lists
      BY <1>4, <1>1 DEF CreateStep
  <2>2. CASE FeeArrives \/ EditFields \/ PickExpiry
      BY <2>1, <2>2, <1>2 DEF FeeArrives, EditFields, PickExpiry, Edit
  <2>3. CASE handleCreate
    <3>1. created' = created
        BY <2>3 DEF handleCreate
    <3>2. CASE validate # "none"
        BY <2>1, <2>3, <3>1, <3>2, <1>2 DEF handleCreate
    <3>3. CASE validate = "none"
      <4>1. creation' = [account |-> address, draft |-> draft] /\ draft.filled
          BY <2>3, <3>3 DEF handleCreate, validate
      <4>2. address \in lists["creator"]
          BY <2>3, OpenIsGranted DEF handleCreate, authz, Gates
      <4> QED BY <2>1, <3>1, <4>1, <4>2 DEF CreationChecked, CreationsAllowed
    <3> QED BY <3>2, <3>3
  <2>4. CASE CreationSucceeds
    <3>1. creation.account \in lists["creator"] /\ creation.draft.filled
        BY <2>4 DEF CreationSucceeds, CreationChecked
    <3>2. clock < creation.draft.expiry
        BY <2>4 DEF CreationSucceeds, FactoryTakes
    <3> QED BY <2>1, <2>4, <3>1, <3>2 DEF CreationSucceeds, CreationChecked, CreationsAllowed
  <2>5. CASE CreationFails
      BY <2>1, <2>5 DEF CreationFails, CreationChecked, CreationsAllowed
  <2> QED BY <1>4, <2>2, <2>3, <2>4, <2>5 DEF CreateStep
<1>5. CASE UNCHANGED sessionVars /\ UNCHANGED createVars
    BY <1>1, <1>2, <1>5 DEF createVars
<1> QED
    BY <1>3, <1>4, <1>5 DEF Next, vars, DeskStep, PortfolioStep, TimelockStep, OnLivePage

(***************************************************************************)
(* A page behind a gate is rendered only for a wallet the services know    *)
(* with the role, and a market created from behind it was created by a     *)
(* listed creator before its expiry, whatever answers come late and        *)
(* however the wallet is switched (wallet.tsx:143-163, create-predic/      *)
(* page.tsx:106-194).                                                      *)
(***************************************************************************)
THEOREM GatesOpenForGranted == Spec => []GateOpensForGranted
<1>1. GateInv => GateOpensForGranted
    BY OpenIsGranted DEF GateInv, GateOpensForGranted
<1> QED
    BY <1>1, GateInvInit, GateInvKept, PTL DEF Spec


-----------------------------------------------------------------------------
(* The timelock. *)

\* What the timelocks hold: a queued action waits at least the delay, it runs
\* inside its window, under its own timelock where the target asks for it, and
\* is never both executed and cancelled; the page says "Executed." of executed actions only.
Actions ==
    [lock : Locks \cup {NoLock}, kind : {"none"} \cup PayloadKinds, queued_at : Nat,
     execute_after : Nat, expires_at : Nat, executed : BOOLEAN, cancelled : BOOLEAN,
     ran_at : Nat, ran_under : Locks \cup {NoLock}]

IsExecution(e) ==
    e.id \in ActionIds /\ e = [id |-> e.id, account |-> e.account, mounted |-> e.mounted]

TimelockInv ==
    /\ action \in [ActionIds -> Actions]
    /\ inForce \in Locks /\ clock \in Nat
    /\ \A i \in ActionIds : action[i] # NotQueued => action[i].queued_at + MinDelay <= action[i].execute_after
    /\ \A e \in executing : IsExecution(e)
    /\ GovernanceWaits

LEMMA TimelockInit == Init => TimelockInv
<1> SUFFICES ASSUME Init PROVE TimelockInv
    OBVIOUS
<1>1. NotQueued \in Actions
    BY DEF NotQueued, NoLock, Actions
<1>2. action = [i \in ActionIds |-> NotQueued] /\ executing = {} /\ executedHere = {}
      /\ inForce \in Locks /\ clock = 0
    BY DEF Init, InitTimelock, InitSession
<1>3. GovernanceWaits
    BY <1>2 DEF GovernanceWaits, NotQueued
<1> QED
    BY <1>1, <1>2, <1>3 DEF TimelockInv

\* execute: the window it checks is the one the invariant speaks of.
LEMMA ExecuteKeeps ==
    ASSUME TimelockInv, NEW i \in ActionIds, execute(i)
    PROVE  /\ action' \in [ActionIds -> Actions] /\ inForce' \in Locks
           /\ action'[i].executed
           /\ \A j \in ActionIds :
                /\ action[j].executed => action'[j].executed
                /\ action'[j] # NotQueued => action'[j].queued_at + MinDelay <= action'[j].execute_after
                /\ action'[j].executed =>
                     /\ ~action'[j].cancelled
                     /\ action'[j].queued_at + MinDelay <= action'[j].ran_at
                     /\ action'[j].ran_at <= action'[j].expires_at
                     /\ action'[j].kind # "stores" => action'[j].ran_under = action'[j].lock
<1> DEFINE a == [action[i] EXCEPT !.executed = TRUE, !.ran_at = clock, !.ran_under = inForce]
<1>1. action[i] \in Actions /\ clock \in Nat /\ inForce \in Locks
      /\ action \in [ActionIds -> Actions]
    BY DEF TimelockInv
<1>2. action' = [action EXCEPT ![i] = a]
    BY <1>1 DEF execute
<1>3. /\ a \in Actions /\ a.executed /\ a.ran_at = clock /\ a.ran_under = inForce
      /\ a.cancelled = action[i].cancelled /\ a.queued_at = action[i].queued_at
      /\ a.execute_after = action[i].execute_after /\ a.expires_at = action[i].expires_at
      /\ a.lock = action[i].lock /\ a.kind = action[i].kind
    BY <1>1 DEF Actions
<1>4. /\ ~a.cancelled /\ a.execute_after <= a.ran_at /\ a.ran_at <= a.expires_at
      /\ a.kind # "stores" => a.ran_under = a.lock
    BY <1>3 DEF execute, Executable, Authority
<1>5. a.queued_at + MinDelay <= a.execute_after
    BY <1>3 DEF TimelockInv, execute, Executable
<1>6. {a.queued_at, a.execute_after, a.ran_at, MinDelay} \subseteq Nat
    BY <1>3, TimelockAssumption DEF Actions
<1>7. a.queued_at + MinDelay <= a.ran_at
    BY <1>4, <1>5, <1>6
<1>8. inForce' \in Locks
    BY <1>1 DEF execute
<1>9. action' \in [ActionIds -> Actions] /\ action'[i] = a
      /\ \A j \in ActionIds \ {i} : action'[j] = action[j]
    BY <1>1, <1>2, <1>3
<1> HIDE DEF a
<1> QED
    BY <1>3, <1>4, <1>5, <1>7, <1>8, <1>9 DEF TimelockInv, GovernanceWaits

LEMMA TimelockStepKeeps ==
    ASSUME TimelockInv, TimelockStep
    PROVE  TimelockInv'
<1>0. clock' = clock /\ clock \in Nat /\ action \in [ActionIds -> Actions] /\ inForce \in Locks
      /\ \A e \in executing : IsExecution(e)
    BY DEF TimelockStep, sessionVars, TimelockInv
<1>1. CASE Queue
  <2>1. PICK i \in ActionIds, l \in Locks, k \in PayloadKinds, d \in Delays :
          /\ d >= MinDelay
          /\ action[i] = NotQueued
          /\ action' = [action EXCEPT ![i] =
                          [NotQueued EXCEPT !.lock = l, !.kind = k, !.queued_at = clock,
                                            !.execute_after = clock + d,
                                            !.expires_at = clock + d + GracePeriod]]
          /\ UNCHANGED <<inForce, page_>>
      BY <1>1 DEF Queue
  <2> DEFINE a == [NotQueued EXCEPT !.lock = l, !.kind = k, !.queued_at = clock,
                                    !.execute_after = clock + d,
                                    !.expires_at = clock + d + GracePeriod]
  <2>2. d \in Nat /\ MinDelay \in Nat /\ GracePeriod \in Nat
      BY TimelockAssumption
  <2>3. a \in Actions /\ ~a.executed /\ a.queued_at = clock /\ a.execute_after = clock + d
    <3>1. clock + d \in Nat /\ clock + d + GracePeriod \in Nat /\ clock \in Nat
        BY <1>0, <2>2
    <3>2. NotQueued \in Actions /\ ~NotQueued.executed
        BY DEF NotQueued, NoLock, Actions
    <3>3. a.executed = NotQueued.executed /\ a.queued_at = clock /\ a.execute_after = clock + d
        BY <3>2 DEF Actions
    <3>4. a \in Actions
        BY <3>1, <3>2 DEF Actions, PayloadKinds
    <3> QED BY <3>2, <3>3, <3>4
  <2>4. a.queued_at + MinDelay <= a.execute_after
      BY <1>0, <2>1, <2>2, <2>3
  <2>5. action' \in [ActionIds -> Actions] /\ action'[i] = a
        /\ \A j \in ActionIds \ {i} : action'[j] = action[j]
      BY <1>0, <2>1, <2>3
  <2>6. ~action[i].executed
      BY <2>1 DEF NotQueued
  <2>7. inForce' = inForce /\ executing' = executing /\ executedHere' = executedHere
      BY <2>1 DEF page_
  <2> HIDE DEF a
  <2> QED BY <1>0, <2>3, <2>4, <2>5, <2>6, <2>7 DEF TimelockInv, GovernanceWaits
<1>2. CASE Cancel
  <2>1. PICK i \in ActionIds :
          /\ ~action[i].executed
          /\ action[i] # NotQueued
          /\ action' = [action EXCEPT ![i].cancelled = TRUE]
          /\ UNCHANGED <<inForce, page_>>
      BY <1>2 DEF Cancel
  <2> DEFINE a == [action[i] EXCEPT !.cancelled = TRUE]
  <2>2. a \in Actions /\ a.executed = action[i].executed /\ a.queued_at = action[i].queued_at
        /\ a.execute_after = action[i].execute_after
      BY <1>0 DEF Actions
  <2>3. action' \in [ActionIds -> Actions] /\ action'[i] = a
        /\ \A j \in ActionIds \ {i} : action'[j] = action[j]
      BY <1>0, <2>1, <2>2
  <2>4. inForce' = inForce /\ executing' = executing /\ executedHere' = executedHere
      BY <2>1 DEF page_
  <2> HIDE DEF a
  <2> QED BY <1>0, <2>1, <2>2, <2>3, <2>4 DEF TimelockInv, GovernanceWaits
<1>3. CASE ExecuteElsewhere
  <2>1. PICK i \in ActionIds : execute(i) /\ UNCHANGED page_
      BY <1>3 DEF ExecuteElsewhere
  <2> QED BY <1>0, <2>1, ExecuteKeeps DEF TimelockInv, GovernanceWaits, page_
<1>4. CASE ExecutionSucceeds
  <2>1. PICK e \in executing :
          /\ execute(e.id)
          /\ executing' = executing \ {e}
          /\ executedHere' \subseteq executedHere \cup {e.id}
      BY <1>4 DEF ExecutionSucceeds
  <2>2. e.id \in ActionIds
      BY <1>0 DEF IsExecution
  <2> QED BY <1>0, <2>1, <2>2, ExecuteKeeps DEF TimelockInv, GovernanceWaits
<1>5. CASE LoadPanel \/ PanelTick \/ ExecutionFails \/ SetTrusted
    BY <1>0, <1>5 DEF LoadPanel, PanelTick, ExecutionFails, SetTrusted, page_, TimelockInv, GovernanceWaits
<1>6. CASE handleExecute
  <2>1. PICK i \in ActionIds :
          /\ executing' = executing \cup {[id |-> i, account |-> address, mounted |-> TRUE]}
          /\ UNCHANGED <<action, inForce, executedHere>>
      BY <1>6 DEF handleExecute
  <2>2. IsExecution([id |-> i, account |-> address, mounted |-> TRUE])
      BY DEF IsExecution
  <2> QED BY <1>0, <2>1, <2>2 DEF TimelockInv, GovernanceWaits
<1> QED
    BY <1>1, <1>2, <1>3, <1>4, <1>5, <1>6 DEF TimelockStep

\* The session moves the clock on, and a gate that closes forgets the rows.
LEMMA TimelockKept == TimelockInv /\ [Next]_vars => TimelockInv'
<1> SUFFICES ASSUME TimelockInv, [Next]_vars PROVE TimelockInv'
    OBVIOUS
<1>1. CASE Session
  <2>1. clock' \in Nat
    <3>1. CASE Tick
        BY <3>1 DEF Tick, TimelockInv
    <3>2. CASE WalletStep \/ PermissionsArrive
        BY <3>2 DEF WalletStep, SwitchAccount, RestoreReads, RestoreApplies, ConnectOpens,
                    ConnectEnds, DisconnectWallet, PermissionsArrive, walletVars, TimelockInv
    <3> QED BY <1>1, <3>1, <3>2 DEF Session
  <2>2. CASE page = "admin"
    <3>1. UNCHANGED <<action, inForce>> /\ executedHere' \subseteq executedHere
        BY <1>1, <2>2 DEF Session, TimelockReacts
    <3>2. \A e \in executing' : \E f \in executing : e = f \/ e = [f EXCEPT !.mounted = FALSE]
        BY <1>1, <2>2 DEF Session, TimelockReacts
    <3>3. \A e \in executing' : IsExecution(e)
      <4> SUFFICES ASSUME NEW e \in executing' PROVE IsExecution(e)
          OBVIOUS
      <4>1. PICK f \in executing : e = f \/ e = [f EXCEPT !.mounted = FALSE]
          BY <3>2
      <4>2. f.id \in ActionIds /\ f = [id |-> f.id, account |-> f.account, mounted |-> f.mounted]
          BY DEF TimelockInv, IsExecution
      <4>3. CASE e = [f EXCEPT !.mounted = FALSE]
        <5>1. e = [id |-> f.id, account |-> f.account, mounted |-> FALSE]
            BY <4>2, <4>3
        <5> QED BY <4>2, <5>1 DEF IsExecution
      <4> QED BY <4>1, <4>2, <4>3 DEF IsExecution
    <3> QED BY <2>1, <3>1, <3>3 DEF TimelockInv, GovernanceWaits
  <2>3. CASE page # "admin"
      BY <1>1, <2>1, <2>3 DEF Session, timelockVars, TimelockInv, GovernanceWaits
  <2> QED BY <2>2, <2>3
<1>2. CASE page = "admin" /\ TimelockStep
    BY <1>2, TimelockStepKeeps
<1>3. CASE UNCHANGED sessionVars /\ UNCHANGED timelockVars
    BY <1>3 DEF sessionVars, timelockVars, TimelockInv, GovernanceWaits
<1> QED
    BY <1>1, <1>2, <1>3 DEF Next, vars, DeskStep, PortfolioStep, CreateStep, OnLivePage

(***************************************************************************)
(* Governance waits: for any delay, any grace period, any number of        *)
(* actions and timelocks, what took effect had waited, was inside its      *)
(* window and was not cancelled, and a target that asks DikeGovernance     *)
(* took it from the timelock then in force only (dike_timelock lib.rs:     *)
(* 270-336, GovernancePanel.tsx:151-171).  Targets that go by an address   *)
(* of their own promise the first three.                                   *)
(***************************************************************************)
THEOREM GovernanceAlwaysWaits == Spec => []GovernanceWaits
<1>1. TimelockInv => GovernanceWaits
    BY DEF TimelockInv
<1> QED
    BY <1>1, TimelockInit, TimelockKept, PTL DEF Spec


-----------------------------------------------------------------------------
(* The forms of a market. *)

AllKinds == {"buy", "sell", "none", "Yes", "No", "add", "remove"}

\* What is stored about a wallet is known whenever it carries a key, in the
\* trade form; amounts are numbers wherever they are compared.
DeskInv ==
    /\ choice \in [kind : AllKinds, token : Tokens, amount : Amounts]
    /\ parents \subseteq {"Yes", "No"}
    /\ limit = [key |-> limit.key, amount |-> limit.amount, known |-> limit.known]
    /\ limit.amount \in [Tokens -> Amounts]
    /\ form = "trade" => (limit.key = NoKey \/ limit.known)
    /\ TradeIsWhatWasShown

\* What the forms read is in no other step.
DeskSeen == <<form, choice, parents, limit, trade>>

LEMMA DeskInit == Init => DeskInv
<1> SUFFICES ASSUME Init PROVE DeskInv
    OBVIOUS
<1>1. /\ choice = InitialChoice[form] /\ form \in Forms /\ limit = NoLimit
      /\ parents = {} /\ trade = NoTrade
    BY DEF Init, InitDesk
<1>2. 0 \in Amounts
    BY DeskAssumption DEF Amounts
<1>3. choice \in [kind : AllKinds, token : Tokens, amount : Amounts]
    BY <1>1, <1>2 DEF InitialChoice, Forms, AllKinds, Tokens
<1>4. /\ limit = [key |-> limit.key, amount |-> limit.amount, known |-> limit.known]
      /\ limit.amount \in [Tokens -> Amounts] /\ limit.key = NoKey
    BY <1>1, <1>2 DEF NoLimit
<1> QED
    BY <1>1, <1>3, <1>4 DEF DeskInv, TradeIsWhatWasShown, isPending

LEMMA DeskUnchanged ==
    ASSUME DeskInv, UNCHANGED DeskSeen
    PROVE  DeskInv'
<1>1. /\ form' = form /\ choice' = choice /\ parents' = parents /\ limit' = limit /\ trade' = trade
    BY DEF DeskSeen
<1> QED
    BY <1>1 DEF DeskInv, TradeIsWhatWasShown, isPending, quoteKey, limitKey

\* A change of the inputs leaves the write under way with its own.
LEMMA ChooseKeeps ==
    ASSUME DeskInv, Choose
    PROVE  DeskInv'
<1>1. UNCHANGED <<form, parents, limit, trade>>
    BY DEF Choose
<1>2. choice' \in [kind : AllKinds, token : Tokens, amount : Amounts]
  <2> USE DEF DeskInv, Input, AllKinds
  <2>1. CASE SelectSide
      BY <2>1 DEF SelectSide
  <2>2. CASE SelectToken
      BY <2>2 DEF SelectToken
  <2>3. CASE TypeAmount
      BY <2>3 DEF TypeAmount
  <2>4. CASE SelectParent
      BY <2>4 DEF SelectParent
  <2>5. CASE SelectParentOutcome
      BY <2>5 DEF SelectParentOutcome
  <2>6. CASE SelectChildToken
      BY <2>6 DEF SelectChildToken
  <2>7. CASE TypeCredit
      BY <2>7 DEF TypeCredit
  <2>8. CASE SelectMode
    <3>1. 0 \in Amounts
        BY DeskAssumption DEF Amounts
    <3> QED BY <2>8, <3>1 DEF SelectMode
  <2>9. CASE TypeLiquidity
      BY <2>9 DEF TypeLiquidity
  <2> QED BY <2>1, <2>2, <2>3, <2>4, <2>5, <2>6, <2>7, <2>8, <2>9 DEF Choose
<1>3. TradeIsWhatWasShown'
    BY <1>1 DEF DeskInv, TradeIsWhatWasShown, isPending, quoteKey, limitKey
<1> QED
    BY <1>1, <1>2, <1>3 DEF DeskInv

\* Answers replace what is stored, with its key, and never a write under way.
LEMMA ReadEndsKeeps ==
    ASSUME DeskInv, ReadEnds
    PROVE  DeskInv'
<1>1. UNCHANGED <<form, choice, trade>>
    BY DEF ReadEnds
<1>2. TradeIsWhatWasShown'
    BY <1>1 DEF DeskInv, TradeIsWhatWasShown, isPending, quoteKey, limitKey
<1>3. \A n, m \in Amounts : PerToken(n, m) \in [Tokens -> Amounts]
    BY DEF PerToken
<1>4. CASE BalancesArrive
  <2>1. PICK k \in reading, n \in Amounts, m \in Amounts :
          limit' = [key |-> k, amount |-> PerToken(n, m), known |-> TRUE]
      BY <1>4 DEF BalancesArrive
  <2>2. parents' = parents
      BY <1>4 DEF BalancesArrive
  <2> QED BY <1>1, <1>2, <1>3, <2>1, <2>2 DEF DeskInv
<1>5. CASE BalancesFail \/ StakesArrive
  <2>1. limit' = limit /\ parents' \subseteq {"Yes", "No"}
      BY <1>5 DEF BalancesFail, StakesArrive, DeskInv
  <2> QED BY <1>1, <1>2, <2>1 DEF DeskInv
<1>6. CASE CreditArrives
  <2>1. PICK k \in reading, n \in Amounts :
          limit' \in {[key |-> k, amount |-> PerToken(n, n), known |-> TRUE],
                      [NoLimit EXCEPT !.key = k]}
      BY <1>6 DEF CreditArrives
  <2>2. parents' = parents /\ form = "child"
      BY <1>6 DEF CreditArrives
  <2>3. limit' = [key |-> limit'.key, amount |-> limit'.amount, known |-> limit'.known]
        /\ limit'.amount \in [Tokens -> Amounts]
    <3>1. CASE limit' = [key |-> k, amount |-> PerToken(n, n), known |-> TRUE]
        BY <1>3, <3>1
    <3>2. CASE limit' = [NoLimit EXCEPT !.key = k]
      <4>1. 0 \in Amounts
          BY DeskAssumption DEF Amounts
      <4>2. limit' = [key |-> k, amount |-> [t \in Tokens |-> 0], known |-> FALSE]
          BY <3>2 DEF NoLimit
      <4> QED BY <4>1, <4>2
    <3> QED BY <2>1, <3>1, <3>2
  <2> QED BY <1>1, <1>2, <2>2, <2>3 DEF DeskInv
<1>7. CASE LpStateArrives
  <2>1. PICK n \in Amounts :
          limit' = [limit EXCEPT !.amount["yes"] = n] \/ limit' = [limit EXCEPT !.amount["no"] = n]
      BY <1>7 DEF LpStateArrives
  <2>2. parents' = parents /\ form = "liquidity"
      BY <1>7 DEF LpStateArrives
  <2>3. limit = [key |-> limit.key, amount |-> limit.amount, known |-> limit.known]
        /\ limit.amount \in [Tokens -> Amounts]
      BY DEF DeskInv
  <2>4. limit' = [key |-> limit.key, amount |-> limit'.amount, known |-> limit.known]
        /\ limit'.amount \in [Tokens -> Amounts]
      BY <2>1, <2>3
  <2> QED BY <1>1, <1>2, <2>2, <2>4 DEF DeskInv
<1> QED
    BY <1>4, <1>5, <1>6, <1>7 DEF ReadEnds

\* The key of the balances is no empty key.
LEMMA KeysDiffer == ASSUME NEW a, NEW c PROVE limitKey(a, c) # NoKey
BY DEF limitKey, ReadKey, Key, NoKey

\* A click freezes what the render it was on shows: the trade and the child
\* form take the current quote only, and amounts within the limit they hold.
LEMMA ClickKeeps ==
    ASSUME DeskInv, Click
    PROVE  DeskInv'
<1>1. UNCHANGED <<form, choice, parents, limit>>
    BY DEF Click
<1>2. choice.token \in Tokens /\ choice.amount \in Amounts /\ limit.amount[choice.token] \in Amounts
    BY DEF DeskInv
<1>3. TradeIsWhatWasShown'
  <2> DEFINE l == IF Loaded THEN limit ELSE NoLimit
             t == [account |-> address, choice |-> choice, quote |-> storedQuote, limit |-> l]
  <2>1. CASE handleSubmit \/ handleClaimFees
      BY <1>1, <2>1 DEF handleSubmit, handleClaimFees, canSubmit, canClaim, TradeIsWhatWasShown
  <2>2. CASE handleTrade
    <3>1. trade' = t /\ form = "trade" /\ storedQuote = quoteKey(address, choice)
        BY <2>2 DEF handleTrade, canTrade, Execute, QuoteIsCurrent
    <3>2. ASSUME choice.kind = "sell"
          PROVE  Loaded /\ choice.amount <= limit.amount[choice.token]
      <4>1. Selling /\ ~noPosition /\ ~exceedsPosition /\ ~balancesUnknown
          BY <2>2, <3>1, <3>2 DEF handleTrade, canTrade, Selling
      <4>2. Loaded
          BY <4>1 DEF noPosition
      <4>3. ~(choice.amount > limit.amount[choice.token])
          BY <4>1, <4>2 DEF exceedsPosition
      <4> QED BY <1>2, <4>2, <4>3 DEF Amounts
    <3>3. ASSUME choice.kind = "sell"
          PROVE  l = limit /\ limit.known /\ limit.key = limitKey(address, choice)
        BY <3>1, <3>2, <3>3, KeysDiffer DEF Loaded, DeskInv
    <3>4. /\ t.quote = quoteKey(t.account, t.choice)
          /\ t.choice.kind = "sell" =>
               /\ t.limit.known /\ t.limit.key = limitKey(t.account, t.choice)
               /\ t.choice.amount <= t.limit.amount[t.choice.token]
      <4>1. t.account = address /\ t.choice = choice /\ t.quote = storedQuote /\ t.limit = l
          OBVIOUS
      <4> HIDE DEF t, l
      <4> QED BY <3>1, <3>2, <3>3, <4>1
    <3> HIDE DEF t, l
    <3> QED BY <1>1, <3>1, <3>4 DEF TradeIsWhatWasShown, quoteKey, limitKey
  <2>3. CASE handleBuy
    <3>1. trade' = t /\ form = "child" /\ storedQuote = quoteKey(address, choice)
        BY <2>3 DEF handleBuy, canBuy, Execute, QuoteIsCurrent
    <3>2. ASSUME l.known PROVE choice.amount <= l.amount[choice.token]
      <4>1. Loaded /\ l = limit
          BY <3>2 DEF NoLimit
      <4>2. ~(choice.amount > limit.amount[choice.token])
          BY <2>3, <3>1, <3>2, <4>1 DEF handleBuy, canBuy, exceedsCredit
      <4> QED BY <1>2, <4>1, <4>2 DEF Amounts
    <3>3. /\ t.quote = quoteKey(t.account, t.choice)
          /\ t.limit.known => t.choice.amount <= t.limit.amount[t.choice.token]
      <4>1. t.account = address /\ t.choice = choice /\ t.quote = storedQuote /\ t.limit = l
          OBVIOUS
      <4> HIDE DEF t, l
      <4> QED BY <3>1, <3>2, <4>1
    <3> HIDE DEF t, l
    <3> QED BY <1>1, <3>1, <3>3 DEF TradeIsWhatWasShown, quoteKey
  <2> QED BY <2>1, <2>2, <2>3 DEF Click
<1> QED
    BY <1>1, <1>3 DEF DeskInv

\* A write that ends leaves none under way.
LEMMA WriteEndsKeeps ==
    ASSUME DeskInv, WriteSucceeds \/ WriteFails
    PROVE  DeskInv'
<1>1. trade' = NoTrade /\ form' = form /\ parents' = parents
    BY DEF WriteSucceeds, WriteFails, TradeSucceeds, BuySucceeds, LiquiditySucceeds, Applied
<1>2. TradeIsWhatWasShown'
    BY <1>1 DEF TradeIsWhatWasShown, isPending
<1>3. 0 \in Amounts
    BY DeskAssumption DEF Amounts
<1>4. choice' \in [kind : AllKinds, token : Tokens, amount : Amounts]
    BY <1>3 DEF WriteSucceeds, WriteFails, TradeSucceeds, BuySucceeds, LiquiditySucceeds, DeskInv
<1>5. limit' = limit \/ limit' = NoLimit
    BY DEF WriteSucceeds, WriteFails, TradeSucceeds, BuySucceeds, LiquiditySucceeds
<1>6. /\ limit' = [key |-> limit'.key, amount |-> limit'.amount, known |-> limit'.known]
      /\ limit'.amount \in [Tokens -> Amounts]
      /\ form = "trade" => (limit'.key = NoKey \/ limit'.known)
    BY <1>3, <1>5 DEF DeskInv, NoLimit
<1> QED
    BY <1>1, <1>2, <1>4, <1>6 DEF DeskInv

LEMMA DeskKept == DeskInv /\ [Next]_vars => DeskInv'
<1> SUFFICES ASSUME DeskInv, [Next]_vars PROVE DeskInv'
    OBVIOUS
<1>1. CASE page = "desk" /\ DeskStep
  <2>1. CASE AskQuote \/ QuoteArrives \/ QuoteFails \/ RetryBalances
    <3>1. UNCHANGED DeskSeen
        BY <2>1 DEF AskQuote, QuoteArrives, QuoteFails, RetryBalances, DeskSeen
    <3> QED BY <3>1, DeskUnchanged
  <2> QED BY <1>1, <2>1, ChooseKeeps, ReadEndsKeeps, ClickKeeps, WriteEndsKeeps DEF DeskStep
<1>2. CASE Session
  <2>1. UNCHANGED DeskSeen
      BY <1>2 DEF Session, DeskReacts, deskVars, DeskSeen
  <2> QED BY <2>1, DeskUnchanged
<1>3. CASE UNCHANGED deskVars
  <2>1. UNCHANGED DeskSeen
      BY <1>3 DEF deskVars, DeskSeen
  <2> QED BY <2>1, DeskUnchanged
<1> QED
    BY <1>1, <1>2, <1>3 DEF Next, vars, OnLivePage

(***************************************************************************)
(* A write that was clicked uses the quote of exactly its own wallet and   *)
(* inputs, and amounts its own balances or credit cover, for any accounts  *)
(* and amounts and any number of answers under way (TradeForm.tsx:46-67,   *)
(* ChildTradeForm.tsx:49-69).                                              *)
(***************************************************************************)
THEOREM TradesAreWhatWasShown == Spec => []TradeIsWhatWasShown
<1>1. DeskInv => TradeIsWhatWasShown
    BY DEF DeskInv
<1> QED
    BY <1>1, DeskInit, DeskKept, PTL DEF Spec
=============================================================================
