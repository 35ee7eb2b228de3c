--------------------------- MODULE ServicesProofs --------------------------
(***************************************************************************)
(* Proofs about Services: for any number of users, dispatches under way,   *)
(* jobs, ledgers, faults and replays, no row claims more than it holds and *)
(* every fee claim is counted once.                                        *)
(***************************************************************************)
EXTENDS Services, FiniteSetTheorems, SequenceTheorems, FunctionTheorems,
        WellFoundedInduction, TLAPS

-----------------------------------------------------------------------------
(* Naturals.                                                               *)

\* Every nonempty set of naturals has a least member.
LEMMA LeastNatural ==
    ASSUME NEW T \in SUBSET Nat, T # {}
    PROVE  \E n \in T : \A m \in T : n <= m
<1>1. PICK n \in T : \A m \in T : <<m, n>> \notin OpToRel(<, Nat)
    BY NatLessThanWellFounded, WFMin, Zenon
<1>2. \A m \in T : ~(m < n)
    BY <1>1 DEF OpToRel
<1> QED BY <1>2

-----------------------------------------------------------------------------
(* The calls of the reconciliation service.                                *)

\* What the contracts emit.
Topics ==
    {"registry.mkt_new", "amm.pool", "amm.buy", "vault.deposit", "amm.lp_add", "tokens.split",
     "amm.lpfee", "amm.liquidate", "vault.liq_settle", "tokens.pos_fxfer", "registry.status",
     "oracle.dispute", "council.commit", "timelock.queued", "gov.module"}

Chained == [ledger : 0 .. tip, topic : Topics, user : Users \cup {NoUser}]

\* A step of a call, other than the one that counts a fee claim.
PlainRows == Rows \cup {UserRow(k, u) : k \in {"position", "vaultState", "lp"}, u \in Users \cup {NoUser}}
PlainSteps ==
    {s \in [table   : {"row", "trades", "liquidity_events", "council_votes"},
            row     : PlainRows,
            onRead  : SUBSET {"throw", "skip", "zero"},
            onWrite : {"throw", "skip"}] :
       "zero" \in s.onRead => s.row[1] \in FallbackKinds}

PlainCalls == Seq(PlainSteps) \ {<<>>}

ClaimStep(u) == AppendTo("lp_fee_claim_events", u)
ClaimCopy(u) == Copy(UserRow("lp", u), {"throw", "zero"}, "throw")
ClaimCall(u) == <<ClaimCopy(u), ClaimStep(u)>>

\* One step makes a call, one call a list of calls.
LEMMA Singles ==
    /\ \A s \in PlainSteps : <<s>> \in PlainCalls
    /\ \A c \in PlainCalls : <<c>> \in Seq(PlainCalls)
    /\ \A s, t \in PlainSteps : <<s, t>> \in PlainCalls
    /\ \A c, d \in PlainCalls : <<c, d>> \in Seq(PlainCalls)
    /\ \A b, c, d \in PlainCalls : <<b, c, d>> \in Seq(PlainCalls)
    /\ \A b, c, d, e \in PlainCalls : <<b, c, d, e>> \in Seq(PlainCalls)
    /\ <<>> \in Seq(PlainCalls)
<1> DEFINE S == PlainSteps
<1>1. /\ \A s \in S : <<s>> \in Seq(S) /\ <<s>> # <<>>
      /\ \A s, t \in S : <<s, t>> \in Seq(S) /\ <<s, t>> # <<>>
  <2> HIDE DEF S
  <2> QED OBVIOUS
<1> DEFINE C == PlainCalls
<1>2. /\ \A c \in C : <<c>> \in Seq(C)
      /\ \A c, d \in C : <<c, d>> \in Seq(C)
      /\ \A b, c, d \in C : <<b, c, d>> \in Seq(C)
      /\ \A b, c, d, e \in C : <<b, c, d, e>> \in Seq(C)
      /\ <<>> \in Seq(C)
  <2> HIDE DEF C
  <2> QED OBVIOUS
<1> QED BY <1>1, <1>2 DEF PlainCalls

\* The calls every service makes, but for the one that records a fee claim.
LEMMA CallsArePlain ==
    /\ reconcileGovernance \in PlainCalls /\ reconcileMarket \in PlainCalls
    /\ reconcilePool \in PlainCalls /\ reconcileRequest \in PlainCalls
    /\ reconcileCase \in PlainCalls /\ reconcileVault \in PlainCalls
    /\ reconcileTimelockAction \in PlainCalls
    /\ <<Copy(Row("timelock"), {"skip"}, "skip")>> \in PlainCalls
    /\ \A u \in Users \cup {NoUser} :
         /\ reconcileUserPosition(u) \in PlainCalls /\ reconcileUserVaultState(u) \in PlainCalls
         /\ reconcileLpPosition(u) \in PlainCalls
         /\ \A t \in {"trades", "liquidity_events", "council_votes"} :
              <<AppendTo(t, u)>> \in PlainCalls
<1>1. \A k \in {"gov", "market", "pool", "request", "case", "vault", "timelock"},
         f \in SUBSET {"throw", "skip", "zero"}, g \in {"throw", "skip"} :
           ("zero" \in f => k \in FallbackKinds) => Copy(Row(k), f, g) \in PlainSteps
    BY DEF Copy, PlainSteps, PlainRows, Rows, Row
<1>2. \A k \in {"position", "vaultState", "lp"}, u \in Users \cup {NoUser},
         f \in SUBSET {"throw", "skip", "zero"}, g \in {"throw", "skip"} :
           ("zero" \in f => k \in FallbackKinds) => Copy(UserRow(k, u), f, g) \in PlainSteps
    BY DEF Copy, PlainSteps, PlainRows, UserRow
<1>3. \A t \in {"trades", "liquidity_events", "council_votes"}, u \in Users \cup {NoUser} :
         AppendTo(t, u) \in PlainSteps
    BY DEF AppendTo, PlainSteps, PlainRows
<1> QED
  <2>1. /\ reconcileGovernance \in PlainCalls /\ reconcileMarket \in PlainCalls
        /\ reconcilePool \in PlainCalls /\ reconcileRequest \in PlainCalls
        /\ reconcileCase \in PlainCalls /\ reconcileVault \in PlainCalls
        /\ reconcileTimelockAction \in PlainCalls
        /\ <<Copy(Row("timelock"), {"skip"}, "skip")>> \in PlainCalls
    BY <1>1, Singles DEF FallbackKinds, reconcileGovernance, reconcileMarket, reconcilePool, reconcileRequest,
                         reconcileCase, reconcileVault, reconcileTimelockAction
  <2>2. \A u \in Users \cup {NoUser} :
         /\ reconcileUserPosition(u) \in PlainCalls /\ reconcileUserVaultState(u) \in PlainCalls
         /\ reconcileLpPosition(u) \in PlainCalls
    BY <1>2, Singles DEF FallbackKinds, reconcileUserPosition, reconcileUserVaultState, reconcileLpPosition
  <2>3. \A u \in Users \cup {NoUser} : \A t \in {"trades", "liquidity_events", "council_votes"} :
          <<AppendTo(t, u)>> \in PlainCalls
    BY <1>3, Singles
  <2> QED BY <2>1, <2>2, <2>3

\* Lists of plain calls can be put one after the other.
LEMMA PlainConcat ==
    ASSUME NEW c \in Seq(PlainCalls), NEW d \in Seq(PlainCalls)
    PROVE  c \o d \in Seq(PlainCalls)
BY ConcatProperties

\* The dispatch of an event makes plain calls, unless it is a fee claim.
LEMMA DispatchIsPlain ==
    ASSUME NEW e \in Chained, e.topic # "amm.lpfee"
    PROVE  dispatch(e) \in Seq(PlainCalls)
<1>0. e.user \in Users \cup {NoUser} /\ e.topic \in Topics
    BY DEF Chained
<1>1. dispatchMarketRegistry(e) \in Seq(PlainCalls)
    BY CallsArePlain, Singles DEF dispatchMarketRegistry
<1>2. dispatchAmm(e) \in Seq(PlainCalls)
  <2>1. CASE e.topic = "amm.pool"
      BY <2>1, CallsArePlain, Singles DEF dispatchAmm
  <2>2. CASE e.topic \in {"amm.buy", "amm.lp_add"}
    <3>1. recordAmmUserEffects(e) \in Seq(PlainCalls)
      <4>1. CASE e.topic = "amm.buy"
        <5>1. recordAmmUserEffects(e) = << <<AppendTo("trades", e.user)>>, reconcileUserPosition(e.user),
                                           reconcileUserVaultState(e.user)>>
            BY <4>1 DEF recordAmmUserEffects
        <5>2. /\ <<AppendTo("trades", e.user)>> \in PlainCalls
              /\ reconcileUserPosition(e.user) \in PlainCalls
              /\ reconcileUserVaultState(e.user) \in PlainCalls
            BY <1>0, CallsArePlain
        <5> QED BY <5>1, <5>2, Singles, Zenon
      <4>2. CASE e.topic = "amm.lp_add"
        <5>1. recordAmmUserEffects(e) =
                << <<AppendTo("liquidity_events", e.user)>>, reconcileLpPosition(e.user),
                   reconcileUserPosition(e.user), reconcileUserVaultState(e.user)>>
            BY <4>2 DEF recordAmmUserEffects
        <5>2. /\ <<AppendTo("liquidity_events", e.user)>> \in PlainCalls
              /\ reconcileLpPosition(e.user) \in PlainCalls
              /\ reconcileUserPosition(e.user) \in PlainCalls
              /\ reconcileUserVaultState(e.user) \in PlainCalls
            BY <1>0, CallsArePlain
        <5> QED BY <5>1, <5>2, Singles, Zenon
      <4> QED BY <2>2, <4>1, <4>2
    <3>2. <<reconcilePool>> \in Seq(PlainCalls)
        BY CallsArePlain, Singles
    <3>3. dispatchAmm(e) = <<reconcilePool>> \o recordAmmUserEffects(e)
        BY <2>2 DEF dispatchAmm
    <3> QED BY <3>1, <3>2, <3>3, PlainConcat
  <2>3. CASE e.topic \notin {"amm.pool", "amm.buy", "amm.lp_add"}
      BY <2>3, Singles DEF dispatchAmm
  <2> QED BY <2>1, <2>2, <2>3
<1>3. dispatchCollateralVault(e) \in Seq(PlainCalls)
  <2>1. recordVaultUserEffects(e) \in Seq(PlainCalls)
      BY <1>0, CallsArePlain, Singles DEF recordVaultUserEffects
  <2>2. <<reconcileVault>> \in Seq(PlainCalls) /\ <<reconcileVault, reconcileUserVaultState(e.user)>> \in Seq(PlainCalls)
      BY <1>0, CallsArePlain, Singles
  <2>3. <<reconcileVault>> \o recordVaultUserEffects(e) \in Seq(PlainCalls)
      BY <2>1, <2>2, PlainConcat
  <2> QED BY <2>2, <2>3, Singles DEF dispatchCollateralVault
<1>4. dispatchConditionalTokens(e) \in Seq(PlainCalls)
    BY <1>0, CallsArePlain, Singles DEF dispatchConditionalTokens
<1>5. dispatchCodOracle(e) \in Seq(PlainCalls)
    BY CallsArePlain, Singles DEF dispatchCodOracle
<1>6. dispatchCouncil(e) \in Seq(PlainCalls)
    BY <1>0, CallsArePlain, Singles DEF dispatchCouncil
<1>7. dispatchTimelock(e) \in Seq(PlainCalls)
    BY CallsArePlain, Singles DEF dispatchTimelock
<1>8. (IF e.topic \in RoleTopics THEN <<reconcileGovernance>> ELSE <<>>) \in Seq(PlainCalls)
    BY CallsArePlain, Singles
<1> QED BY <1>1, <1>2, <1>3, <1>4, <1>5, <1>6, <1>7, <1>8, PlainConcat, Zenon DEF dispatch


\* The dispatch of a fee claim makes the one call that records it.
LEMMA DispatchOfClaim ==
    ASSUME NEW e, e.topic = "amm.lpfee"
    PROVE  dispatch(e) = <<ClaimCall(e.user)>>
<1>1. /\ dispatchMarketRegistry(e) = <<>> /\ dispatchCollateralVault(e) = <<>>
      /\ dispatchConditionalTokens(e) = <<>> /\ dispatchCodOracle(e) = <<>>
      /\ dispatchCouncil(e) = <<>> /\ dispatchTimelock(e) = <<>>
      /\ e.topic \notin RoleTopics
    BY DEF dispatchMarketRegistry, dispatchCollateralVault, dispatchConditionalTokens,
           dispatchCodOracle, dispatchCouncil, dispatchTimelock, RoleTopics
<1>2. dispatchAmm(e) = <<recordLpFeesClaimed(e.user)>>
    BY DEF dispatchAmm
<1>3. recordLpFeesClaimed(e.user) = ClaimCall(e.user)
  <2> DEFINE s == ClaimCopy(e.user)
             t == AppendTo("lp_fee_claim_events", e.user)
  <2>1. recordLpFeesClaimed(e.user) = <<s>> \o <<t>>
      BY DEF recordLpFeesClaimed, reconcileLpPosition, ClaimCopy
  <2> HIDE DEF s, t
  <2>2. <<s>> \in Seq({s, t}) /\ <<t>> \in Seq({s, t}) /\ <<s, t>> \in Seq({s, t})
      OBVIOUS
  <2>3. Len(<<s>>) = 1 /\ Len(<<t>>) = 1 /\ Len(<<s, t>>) = 2
      OBVIOUS
  <2>4. <<s>> \o <<t>> = <<s, t>>
    <3> DEFINE w == <<s>> \o <<t>>
    <3>1. w \in Seq({s, t}) /\ Len(w) = 2 /\ w[1] = s /\ w[2] = t
        BY <2>2, <2>3, ConcatProperties
    <3> HIDE DEF w
    <3>2. \A i \in 1 .. Len(w) : w[i] = <<s, t>>[i]
        BY <3>1
    <3>3. w = <<s, t>>
        BY <2>2, <2>3, <3>1, <3>2, SeqEqual
    <3> QED BY <3>3 DEF w
  <2> QED BY <2>1, <2>4 DEF s, t, ClaimCall, ClaimStep
<1> DEFINE c == <<ClaimCall(e.user)>>
<1>4. dispatch(e) = <<>> \o <<>> \o c \o <<>> \o <<>> \o <<>> \o <<>> \o <<>>
    BY <1>1, <1>2, <1>3 DEF dispatch
<1>5. c \in Seq({ClaimCall(e.user)})
  <2> DEFINE x == ClaimCall(e.user)
  <2> HIDE DEF x
  <2> <<x>> \in Seq({x}) OBVIOUS
  <2> QED BY DEF x
<1>6. c \o <<>> = c /\ <<>> \o c = c /\ <<>> \o <<>> = <<>>
  <2> HIDE DEF c
  <2>1. c \o <<>> = c /\ <<>> \o c = c
      BY <1>5, ConcatEmptySeq
  <2>2. <<>> \in Seq({ClaimCall(e.user)})
      BY EmptySeq
  <2> QED BY <2>1, <2>2, ConcatEmptySeq
<1> HIDE DEF c
<1> QED BY <1>4, <1>6 DEF c

\* The calls for several users are plain.
LEMMA PerUserIsPlain ==
    ASSUME NEW us \in SUBSET Users
    PROVE  /\ PerUser(us, reconcileUserPosition) \in Seq(PlainCalls)
           /\ PerUser(us, reconcileUserVaultState) \in Seq(PlainCalls)
           /\ PerUser(us, reconcileLpPosition) \in Seq(PlainCalls)
<1> DEFINE n == Cardinality(us)
           Order(f) == f \in [1 .. n -> us] /\ {f[i] : i \in 1 .. n} = us
           order == CHOOSE f \in [1 .. n -> us] : {f[i] : i \in 1 .. n} = us
<1>1. IsFiniteSet(us)
    BY ServicesAssumption, FS_Subset
<1>2. n \in Nat /\ ExistsBijection(1 .. n, us)
    BY <1>1, FS_CardinalityType
<1>3. \E f \in [1 .. n -> us] : {f[i] : i \in 1 .. n} = us
  <2> HIDE DEF n
  <2>1. PICK f \in Bijection(1 .. n, us) : TRUE
      BY <1>2 DEF ExistsBijection
  <2>2. f \in [1 .. n -> us] /\ \A y \in us : \E i \in 1 .. n : f[i] = y
      BY <2>1 DEF Bijection, Injection, Surjection
  <2> QED BY <2>2
<1>4. order \in [1 .. n -> us]
    BY <1>3
<1> HIDE DEF order
<1>5. /\ PerUser(us, reconcileUserPosition) = [i \in 1 .. n |-> reconcileUserPosition(order[i])]
      /\ PerUser(us, reconcileUserVaultState) = [i \in 1 .. n |-> reconcileUserVaultState(order[i])]
      /\ PerUser(us, reconcileLpPosition) = [i \in 1 .. n |-> reconcileLpPosition(order[i])]
    BY DEF PerUser, order
<1>6. \A i \in 1 .. n : /\ reconcileUserPosition(order[i]) \in PlainCalls
                        /\ reconcileUserVaultState(order[i]) \in PlainCalls
                        /\ reconcileLpPosition(order[i]) \in PlainCalls
    BY <1>4, CallsArePlain
<1>7. \A f \in [1 .. n -> PlainCalls] : f \in Seq(PlainCalls)
  <2> HIDE DEF n
  <2> QED BY <1>2
<1> HIDE DEF n
<1> QED BY <1>5, <1>6, <1>7

-----------------------------------------------------------------------------
(* What an actor has under way.                                            *)

StepOf(t) == Head(Head(t.calls))

Shape(t) ==
    /\ {"pc", "calls", "val", "label", "event", "pooled", "listed"} \subseteq DOMAIN t
    /\ t.pc \in {"idle", "next", "write"}
    /\ t.pc = "write" => t.calls # <<>>

\* What was read and not yet written is a state of the object no older than
\* the ledger it will be labelled with, or the zeros of a getter that failed.
HonestLabel(val, label, r) ==
    \/ \A c \in changes[r] : ~(val < c /\ c <= label)
    \/ val = Zeroed /\ r[1] \in FallbackKinds

Seen(t) ==
    t.pc = "write" /\ StepOf(t).row \in Rows =>
        /\ t.val # Missing
        /\ HonestLabel(t.val, t.label, StepOf(t).row)

\* A fee claim is recorded by a call of its own, when its owner has a row.
Planned(t, d) ==
    \/ t.calls \in Seq(PlainCalls)
    \/ t.calls = <<ClaimCall(t.event.user)>>
    \/ /\ t.calls = << <<ClaimStep(t.event.user)>> >>
       /\ t.event.user \in Users => d[UserRow("lp", t.event.user)] # NoRow

Ready(t) == Shape(t) /\ t.label \in 0 .. tip /\ Seen(t) /\ Planned(t, db)

StoreInv ==
    /\ tip \in Nat
    /\ changes \in [Rows -> SUBSET (1 .. tip)]
    /\ events \subseteq Chained
    /\ DOMAIN db = Rows
    /\ \A r \in Rows : db[r].label \in 0 .. tip
    /\ DOMAIN actor = Actors
    /\ \A a \in Actors : Ready(actor[a])
    /\ LabelsAreHonest

CountInv ==
    /\ IsFiniteSet(history)
    /\ DOMAIN claimed = Users
    /\ ClaimsCountedOnce

\* Whoever is idle is ready.
LEMMA IdleIsReady ==
    ASSUME tip \in Nat
    PROVE  Ready(IdleActor)
BY Singles DEF Ready, Shape, Seen, Planned, IdleActor

\* The rest of a list of plain calls.
LEMMA PlainParts ==
    ASSUME NEW calls \in Seq(PlainCalls), calls # <<>>
    PROVE  /\ Head(calls) \in PlainCalls
           /\ Tail(calls) \in Seq(PlainCalls)
           /\ Head(Head(calls)) \in PlainSteps
           /\ Tail(Head(calls)) \in Seq(PlainSteps)
<1>1. Head(calls) \in PlainCalls /\ Tail(calls) \in Seq(PlainCalls)
    BY HeadTailProperties
<1>2. Head(calls) \in Seq(PlainSteps) /\ Head(calls) # <<>>
    BY <1>1 DEF PlainCalls
<1> QED BY <1>1, <1>2, HeadTailProperties

\* The parts of the calls that record a claim.
LEMMA ClaimParts ==
    ASSUME NEW u
    PROVE  /\ Head(<<ClaimCall(u)>>) = ClaimCall(u) /\ Tail(<<ClaimCall(u)>>) = <<>>
           /\ Head(ClaimCall(u)) = ClaimCopy(u)
           /\ Tail(ClaimCall(u)) = <<ClaimStep(u)>>
           /\ Head(<< <<ClaimStep(u)>> >>) = <<ClaimStep(u)>>
           /\ Tail(<< <<ClaimStep(u)>> >>) = <<>>
           /\ Head(<<ClaimStep(u)>>) = ClaimStep(u) /\ Tail(<<ClaimStep(u)>>) = <<>>
           /\ <<ClaimCall(u)>> # <<>> /\ << <<ClaimStep(u)>> >> # <<>>
           /\ <<ClaimStep(u)>> # <<>>
<1> DEFINE s == ClaimCopy(u)
           t == ClaimStep(u)
<1>1. ClaimCall(u) = <<s, t>>
    BY DEF ClaimCall
<1> HIDE DEF s, t
<1>2. /\ Head(<<s, t>>) = s /\ Tail(<<s, t>>) = <<t>> /\ Head(<<t>>) = t /\ Tail(<<t>>) = <<>>
      /\ <<t>> # <<>>
    OBVIOUS
<1> DEFINE c == ClaimCall(u)
           d == <<t>>
<1>3. Head(<<c>>) = c /\ Tail(<<c>>) = <<>> /\ <<c>> # <<>>
      /\ Head(<<d>>) = d /\ Tail(<<d>>) = <<>> /\ <<d>> # <<>>
  <2> HIDE DEF c, d
  <2> QED OBVIOUS
<1> QED BY <1>1, <1>2, <1>3 DEF s, t

\* What a step makes necessary is plain, and nothing after a step of a claim.
LEMMA SequelIsPlain ==
    /\ \A s : Sequel(s) \in Seq(PlainSteps)
    /\ \A u : Sequel(ClaimCopy(u)) = <<>>
    /\ \A u : Sequel(ClaimStep(u)) = <<>>
<1>1. ASSUME NEW s PROVE Sequel(s) \in Seq(PlainSteps)
  <2>1. reconcilePool \in Seq(PlainSteps) /\ reconcileRequest \in Seq(PlainSteps)
      BY CallsArePlain DEF PlainCalls
  <2>2. <<>> \in Seq(PlainSteps)
      BY EmptySeq
  <2>3. (IF Exists(Row("request")) THEN reconcileRequest ELSE <<>>) \in Seq(PlainSteps)
      BY <2>1, <2>2
  <2>4. reconcilePool \o (IF Exists(Row("request")) THEN reconcileRequest ELSE <<>>) \in Seq(PlainSteps)
      BY <2>1, <2>3, ConcatProperties, Zenon
  <2> QED BY <2>2, <2>4 DEF Sequel
<1>2. \A u : UserRow("lp", u) # Row("market")
    BY DEF UserRow, Row
<1>3. \A u : Sequel(ClaimCopy(u)) = <<>>
    BY <1>2 DEF Sequel, ClaimCopy, Copy
<1>4. \A u : Sequel(ClaimStep(u)) = <<>>
    BY <1>2 DEF Sequel, ClaimStep, AppendTo
<1> QED BY <1>1, <1>3, <1>4


-----------------------------------------------------------------------------
(* The steps of an actor.                                                  *)

\* Going on to the next step keeps the plan, when the row of a claim's owner is
\* there before the claim is counted.
LEMMA AdvanceIsPlanned ==
    ASSUME NEW t, NEW d, NEW q \in Seq(PlainSteps), Shape(t), Planned(t, d), t.calls # <<>>,
           t.calls = <<ClaimCall(t.event.user)>> =>
             q = <<>> /\ (t.event.user \in Users => d[UserRow("lp", t.event.user)] # NoRow),
           t.calls = << <<ClaimStep(t.event.user)>> >> => q = <<>>
    PROVE  Shape(Advance(t, q)) /\ Planned(Advance(t, q), d) /\ Advance(t, q).label = t.label
           /\ Advance(t, q).pc = "next" /\ Advance(t, q).event = t.event
<1> DEFINE u == t.event.user
           rest == q \o Tail(Head(t.calls))
           new == IF rest = <<>> THEN Tail(t.calls) ELSE <<rest>> \o Tail(t.calls)
           n == Advance(t, q)
<1>1. n = [t EXCEPT !.pc = "next", !.calls = new]
    BY DEF Advance
<1>2. /\ Shape(n) /\ n.label = t.label /\ n.pc = "next" /\ n.event = t.event /\ n.calls = new
  <2> HIDE DEF new
  <2> QED BY <1>1 DEF Shape
<1> HIDE DEF n
<1>6. /\ rest = <<>> => n.calls = Tail(t.calls)
      /\ rest # <<>> => n.calls = <<rest>> \o Tail(t.calls)
  <2> HIDE DEF rest
  <2> QED BY <1>2
<1> HIDE DEF new
<1>3. CASE t.calls \in Seq(PlainCalls)
  <2>1. rest \in Seq(PlainSteps) /\ Tail(t.calls) \in Seq(PlainCalls)
      BY <1>3, PlainParts, ConcatProperties
  <2>2. CASE rest = <<>>
    <3> HIDE DEF rest
    <3>1. n.calls \in Seq(PlainCalls)
        BY <1>6, <2>1, <2>2
    <3> QED BY <1>2, <3>1 DEF Planned, n
  <2>3. CASE rest # <<>>
    <3>1. <<rest>> \in Seq(PlainCalls)
        BY <2>1, <2>3, Singles DEF PlainCalls
    <3>2. <<rest>> \o Tail(t.calls) \in Seq(PlainCalls)
        BY <2>1, <3>1, PlainConcat
    <3> HIDE DEF rest
    <3>3. n.calls \in Seq(PlainCalls)
        BY <1>6, <2>3, <3>2
    <3> QED BY <1>2, <3>3 DEF Planned, n
  <2> QED BY <2>2, <2>3
<1>4. CASE t.calls = <<ClaimCall(u)>>
  <2>1. rest = <<>> \o <<ClaimStep(u)>> /\ Tail(t.calls) = <<>>
      BY <1>4, ClaimParts
  <2>2. <<ClaimStep(u)>> \in Seq({ClaimStep(u)})
    <3> DEFINE x == ClaimStep(u)
    <3> HIDE DEF x
    <3> <<x>> \in Seq({x}) OBVIOUS
    <3> QED BY DEF x
  <2>3. rest = <<ClaimStep(u)>>
    <3> HIDE DEF rest
    <3> QED BY <2>1, <2>2, ConcatEmptySeq
  <2>4. n.calls = <<rest>> \o <<>>
    <3>1. rest # <<>>
        BY <2>3, ClaimParts
    <3> HIDE DEF rest
    <3> QED BY <1>6, <2>1, <3>1
  <2>5. <<rest>> \o <<>> = <<rest>>
    <3> HIDE DEF rest
    <3>1. <<rest>> \in Seq({rest})
        OBVIOUS
    <3> QED BY <3>1, ConcatEmptySeq
  <2>6. n.calls = << <<ClaimStep(n.event.user)>> >>
    <3> HIDE DEF rest
    <3> QED BY <1>2, <2>3, <2>4, <2>5
  <2>7. n.event.user \in Users => d[UserRow("lp", n.event.user)] # NoRow
      BY <1>2, <1>4
  <2>8. Planned(n, d)
      BY <2>6, <2>7 DEF Planned
  <2> QED BY <1>2, <2>8 DEF n
<1>5. CASE t.calls = << <<ClaimStep(u)>> >>
  <2>1. rest = <<>> \o <<>> /\ Tail(t.calls) = <<>>
      BY <1>5, ClaimParts
  <2>2. rest = <<>>
    <3> HIDE DEF rest
    <3> <<>> \in Seq(PlainSteps) BY EmptySeq
    <3> QED BY <2>1, ConcatEmptySeq
  <2>3. n.calls = <<>>
    <3> HIDE DEF rest
    <3> QED BY <1>6, <2>1, <2>2
  <2>4. Planned(n, d)
      BY <2>3, Singles DEF Planned
  <2> QED BY <1>2, <2>4 DEF n
<1> QED BY <1>3, <1>4, <1>5 DEF Planned

\* A step that is skipped leaves the rest of the plan.
LEMMA SkippedIsPlanned ==
    ASSUME NEW t, NEW d, Shape(t), Planned(t, d), t.calls # <<>>, t.calls # <<ClaimCall(t.event.user)>>
    PROVE  /\ Shape(Advance(t, <<>>)) /\ Planned(Advance(t, <<>>), d)
           /\ Advance(t, <<>>).pc = "next" /\ Advance(t, <<>>).label = t.label
<1>1. <<>> \in Seq(PlainSteps)
    BY EmptySeq
<1> QED BY <1>1, AdvanceIsPlanned

\* What a throw leaves of the plan.
LEMMA ThrownIsPlanned ==
    ASSUME tip \in Nat, NEW t, NEW d, Shape(t), Planned(t, d), t.calls # <<>>
    PROVE  /\ Shape(Thrown(t)) /\ Planned(Thrown(t), d) /\ Thrown(t).pc # "write"
           /\ Thrown(t).label = t.label \/ Thrown(t).label = 0
<1>1. CASE t.event # NoEvent
  <2>1. Thrown(t) = IdleActor
      BY <1>1 DEF Thrown
  <2> QED BY <2>1, IdleIsReady, Singles DEF Ready, IdleActor, Planned
<1>2. CASE t.event = NoEvent
  <2> DEFINE n == Thrown(t)
  <2>1. n = [t EXCEPT !.pc = "next", !.calls = Tail(@)]
      BY <1>2 DEF Thrown
  <2>2. Shape(n) /\ n.pc = "next" /\ n.calls = Tail(t.calls) /\ n.label = t.label
      BY <2>1 DEF Shape
  <2> HIDE DEF n
  <2>3. n.calls \in Seq(PlainCalls)
      BY <2>2, PlainParts, ClaimParts, Singles DEF Planned
  <2> QED BY <2>2, <2>3 DEF Planned, n
<1> QED BY <1>1, <1>2

\* The step of an actor that is no claim is plain.
LEMMA StepKinds ==
    ASSUME NEW t, NEW d, Planned(t, d), t.calls # <<>>
    PROVE  \/ t.calls \in Seq(PlainCalls) /\ StepOf(t) \in PlainSteps
           \/ /\ t.calls = <<ClaimCall(t.event.user)>>
              /\ StepOf(t) = ClaimCopy(t.event.user)
           \/ /\ t.calls = << <<ClaimStep(t.event.user)>> >>
              /\ StepOf(t) = ClaimStep(t.event.user)
              /\ t.event.user \in Users => d[UserRow("lp", t.event.user)] # NoRow
BY PlainParts, ClaimParts DEF Planned, StepOf

\* The last change of an object is one of them, and none is later.
LEMMA VersionIsLast ==
    ASSUME tip \in Nat, changes \in [Rows -> SUBSET (1 .. tip)], NEW r \in Rows
    PROVE  Version(r) \in 0 .. tip /\ \A c \in changes[r] : c <= Version(r)
<1>1. CASE changes[r] = {}
    BY <1>1 DEF Version, Exists
<1>2. CASE changes[r] # {}
  <2> DEFINE T == {tip - c : c \in changes[r]}
  <2>1. changes[r] \subseteq 1 .. tip
      OBVIOUS
  <2>2. T # {} /\ T \in SUBSET Nat
      BY <1>2, <2>1
  <2>3. PICK n \in T : \A m \in T : n <= m
    <3> HIDE DEF T
    <3> QED BY <2>2, LeastNatural
  <2>4. PICK x \in changes[r] : n = tip - x
      BY <2>3
  <2>5. \A y \in changes[r] : x >= y
    <3> SUFFICES ASSUME NEW y \in changes[r] PROVE x >= y
        OBVIOUS
    <3>1. tip - y \in T /\ y \in Int /\ x \in Int
        BY <2>1
    <3>2. n <= tip - y
        BY <2>3, <3>1
    <3> HIDE DEF T
    <3> QED BY <2>4, <3>1, <3>2
  <2>6. Max(changes[r]) \in changes[r] /\ \A y \in changes[r] : Max(changes[r]) >= y
      BY <2>5 DEF Max
  <2> QED BY <1>2, <2>1, <2>6 DEF Version, Exists
<1> QED BY <1>1, <1>2


\* Actor a goes on as t, the others stay as they are.
MovesTo(a, t) ==
    /\ DOMAIN actor' = Actors
    /\ actor'[a] = t
    /\ \A b \in Actors \ {a} : actor'[b] = actor[b]

\* A step that changes neither the chain nor a row keeps the invariant, if who
\* takes it is ready afterwards.
LEMMA ActorMoves ==
    ASSUME StoreInv, NEW a \in Actors, NEW t, Ready(t), MovesTo(a, t),
           UNCHANGED <<tip, changes, events, db>>
    PROVE  StoreInv'
<1>1. \A b \in Actors : Ready(actor'[b])
    BY DEF MovesTo, StoreInv
<1>2. \A b \in Actors : Ready(actor[b])'
    BY <1>1 DEF Ready, Seen, HonestLabel, Shape, Planned
<1> QED BY <1>2 DEF StoreInv, MovesTo, LabelsAreHonest, Chained

LEMMA ReadContractReady ==
    ASSUME StoreInv, NEW a \in Actors, ReadContract(a)
    PROVE  \E t : Ready(t) /\ MovesTo(a, t)
<1> DEFINE s == actor[a]
           t == [s EXCEPT !.pc = "write", !.val = Version(Step(a).row)]
<1>1. Ready(s) /\ s.calls # <<>> /\ DOMAIN actor = Actors
    BY DEF StoreInv, ReadContract, Busy
<1>2. actor' = [actor EXCEPT ![a] = t]
    BY DEF ReadContract
<1>3. MovesTo(a, t)
  <2> HIDE DEF t
  <2> QED BY <1>1, <1>2 DEF MovesTo
<1>4. /\ Shape(t) /\ t.label = s.label /\ t.calls = s.calls /\ t.event = s.event
      /\ t.val = Version(Step(a).row)
    BY <1>1 DEF Ready, Shape
<1> HIDE DEF t
<1>5. Planned(t, db)
    BY <1>1, <1>4 DEF Ready, Planned
<1>6. StepOf(t) = Step(a)
    BY <1>4 DEF StepOf, Step, Call
<1>7. Seen(t)
  <2> SUFFICES ASSUME StepOf(t).row \in Rows
               PROVE  /\ t.val # Missing
                      /\ \A c \in changes[StepOf(t).row] : ~(t.val < c /\ c <= t.label)
      BY DEF Seen, HonestLabel
  <2> DEFINE r == StepOf(t).row
  <2>1. Version(r) \in 0 .. tip /\ \A c \in changes[r] : c <= Version(r)
      BY VersionIsLast DEF StoreInv
  <2>2. t.val = Version(r)
      BY <1>4, <1>6
  <2>3. changes[r] \subseteq 1 .. tip /\ tip \in Nat
      BY DEF StoreInv
  <2> HIDE DEF r
  <2> QED BY <2>1, <2>2, <2>3 DEF Missing, r
<1> QED BY <1>1, <1>3, <1>4, <1>5, <1>7 DEF Ready

LEMMA ReadFailsReady ==
    ASSUME StoreInv, NEW a \in Actors,
           \E o \in SUBSET Step(a).onRead : ReadFails(a, o)
    PROVE  \E t : Ready(t) /\ MovesTo(a, t)
<1> DEFINE s == actor[a]
<1>0. PICK o \in SUBSET Step(a).onRead : ReadFails(a, o)
    OBVIOUS
<1>1. Ready(s) /\ s.calls # <<>> /\ DOMAIN actor = Actors /\ tip \in Nat
    BY <1>0 DEF StoreInv, ReadFails, Busy
<1>2. PICK f \in Step(a).onRead :
        actor' = [actor EXCEPT ![a] =
                    CASE f = "throw" -> Thrown(s)
                      [] f = "skip"  -> Advance(s, <<>>)
                      [] f = "zero"  -> [s EXCEPT !.pc = "write", !.val = Zeroed]]
    BY <1>0 DEF ReadFails
<1>3. Step(a) = StepOf(s) /\ StepOf(s).table = "row"
    BY <1>0 DEF ReadFails, Step, Call, StepOf
<1>4. \/ s.calls \in Seq(PlainCalls) /\ StepOf(s) \in PlainSteps
      \/ s.calls = <<ClaimCall(s.event.user)>> /\ StepOf(s) = ClaimCopy(s.event.user)
  <2>1. \A u : ClaimStep(u).table # "row"
      BY DEF ClaimStep, AppendTo
  <2> HIDE DEF s
  <2> QED BY <1>1, <1>3, <2>1, StepKinds DEF Ready
<1>5. /\ f \in {"throw", "skip", "zero"}
      /\ f = "zero" => StepOf(s).row[1] \in FallbackKinds
      /\ f = "skip" => s.calls \in Seq(PlainCalls) /\ s.calls # <<ClaimCall(s.event.user)>>
  <2>0. f \in StepOf(s).onRead
      BY <1>2, <1>3
  <2>1. CASE s.calls \in Seq(PlainCalls) /\ StepOf(s) \in PlainSteps
    <3>1. f \in {"throw", "skip", "zero"} /\ (f = "zero" => StepOf(s).row[1] \in FallbackKinds)
        BY <2>0, <2>1 DEF PlainSteps
    <3>2. s.calls = <<ClaimCall(s.event.user)>> => StepOf(s) = ClaimCopy(s.event.user)
      <4> HIDE DEF s
      <4> QED BY ClaimParts DEF StepOf
    <3>3. f = "skip" => StepOf(s) # ClaimCopy(s.event.user)
        BY <2>0 DEF ClaimCopy, Copy
    <3> QED BY <2>1, <3>1, <3>2, <3>3
  <2>2. CASE StepOf(s) = ClaimCopy(s.event.user)
    <3>1. f \in {"throw", "zero"}
        BY <2>0, <2>2 DEF ClaimCopy, Copy
    <3>2. StepOf(s).row[1] \in FallbackKinds
        BY <2>2 DEF ClaimCopy, Copy, UserRow, FallbackKinds
    <3> QED BY <3>1, <3>2
  <2> QED BY <1>4, <2>1, <2>2
<1> DEFINE t == CASE f = "throw" -> Thrown(s)
                  [] f = "skip"  -> Advance(s, <<>>)
                  [] f = "zero"  -> [s EXCEPT !.pc = "write", !.val = Zeroed]
<1>6. MovesTo(a, t)
  <2>1. actor' = [actor EXCEPT ![a] = t]
      BY <1>2
  <2> HIDE DEF t
  <2> QED BY <1>1, <2>1 DEF MovesTo
<1>7. Ready(t)
  <2>1. CASE f = "throw"
    <3>1. t = Thrown(s)
        BY <2>1
    <3> HIDE DEF t, s
    <3>2. Shape(t) /\ Planned(t, db) /\ t.pc # "write" /\ (t.label = s.label \/ t.label = 0)
        BY <1>1, <3>1, ThrownIsPlanned DEF Ready
    <3> QED BY <1>1, <3>2 DEF Ready, Seen
  <2>2. CASE f = "skip"
    <3>1. t = Advance(s, <<>>)
        BY <2>2
    <3> HIDE DEF t, s
    <3>2. Shape(t) /\ Planned(t, db) /\ t.pc = "next" /\ t.label = s.label
        BY <1>1, <1>5, <2>2, <3>1, SkippedIsPlanned DEF Ready
    <3> QED BY <1>1, <3>2 DEF Ready, Seen
  <2>3. CASE f = "zero"
    <3>1. t = [s EXCEPT !.pc = "write", !.val = Zeroed]
        BY <2>3
    <3>2. StepOf(s).row[1] \in FallbackKinds
        BY <1>5, <2>3
    <3> HIDE DEF t, s
    <3>3. Shape(t) /\ t.label = s.label /\ t.calls = s.calls /\ t.event = s.event /\ t.val = Zeroed
        BY <1>1, <3>1 DEF Ready, Shape
    <3>4. Seen(t)
        BY <3>2, <3>3 DEF Seen, HonestLabel, StepOf, Zeroed, Missing
    <3> QED BY <1>1, <3>3, <3>4 DEF Ready, Planned
  <2> QED BY <1>5, <2>1, <2>2, <2>3
<1> QED BY <1>6, <1>7

\* A write that fails is thrown on, or skipped where the code catches it; a
\* process that dies leaves nothing behind.
LEMMA FailWriteReady ==
    ASSUME StoreInv, NEW a \in Actors, FailWrite(a)
    PROVE  \E t : Ready(t) /\ MovesTo(a, t)
<1> DEFINE s == actor[a]
           t == IF Step(a).onWrite = "throw" THEN Thrown(s) ELSE Advance(s, <<>>)
<1>1. Ready(s) /\ s.calls # <<>> /\ DOMAIN actor = Actors /\ tip \in Nat
    BY DEF StoreInv, FailWrite, Busy, Ready, Shape
<1>2. MovesTo(a, t)
  <2>1. actor' = [actor EXCEPT ![a] = t]
      BY DEF FailWrite
  <2> HIDE DEF t
  <2> QED BY <1>1, <2>1 DEF MovesTo
<1>3. Ready(t)
  <2>1. CASE Step(a).onWrite = "throw"
    <3>1. t = Thrown(s)
        BY <2>1
    <3> HIDE DEF t, s
    <3>2. Shape(t) /\ Planned(t, db) /\ t.pc # "write" /\ (t.label = s.label \/ t.label = 0)
        BY <1>1, <3>1, ThrownIsPlanned DEF Ready
    <3> QED BY <1>1, <3>2 DEF Ready, Seen
  <2>2. CASE Step(a).onWrite # "throw"
    <3>1. t = Advance(s, <<>>)
        BY <2>2
    <3>2. Step(a) = StepOf(s)
        BY DEF Step, Call, StepOf
    <3>3. StepOf(s) # ClaimCopy(s.event.user)
        BY <2>2, <3>2 DEF ClaimCopy, Copy
    <3> HIDE DEF t, s
    <3>4. s.calls # <<ClaimCall(s.event.user)>>
        BY <3>3, ClaimParts DEF StepOf
    <3>5. Shape(t) /\ Planned(t, db) /\ t.pc = "next" /\ t.label = s.label
        BY <1>1, <3>1, <3>4, SkippedIsPlanned DEF Ready
    <3> QED BY <1>1, <3>5 DEF Ready, Seen
  <2> QED BY <2>1, <2>2
<1> QED BY <1>2, <1>3

LEMMA CrashReady ==
    ASSUME StoreInv, NEW a \in Actors, Crash(a)
    PROVE  \E t : Ready(t) /\ MovesTo(a, t)
<1>1. actor' = [actor EXCEPT ![a] = IdleActor] /\ DOMAIN actor = Actors /\ tip \in Nat
    BY DEF Crash, StoreInv
<1>2. MovesTo(a, IdleActor)
    BY <1>1 DEF MovesTo
<1> QED BY <1>1, <1>2, IdleIsReady

\* Events are appended as plain steps, or as the claim the plan allows.
LEMMA AppendEventReady ==
    ASSUME StoreInv, NEW a \in Actors, AppendEvent(a)
    PROVE  \E t : Ready(t) /\ MovesTo(a, t)
<1> DEFINE s == actor[a]
           t == Advance(s, <<>>)
<1>1. Ready(s) /\ s.calls # <<>> /\ DOMAIN actor = Actors /\ tip \in Nat
    BY DEF StoreInv, AppendEvent, Busy
<1>2. MovesTo(a, t)
  <2>1. actor' = [actor EXCEPT ![a] = t]
      BY DEF AppendEvent
  <2> HIDE DEF t
  <2> QED BY <1>1, <2>1 DEF MovesTo
<1>3. s.calls # <<ClaimCall(s.event.user)>>
  <2>1. StepOf(s).table # "row"
      BY DEF AppendEvent, Step, Call, StepOf
  <2> SUFFICES ASSUME s.calls = <<ClaimCall(s.event.user)>> PROVE FALSE
      OBVIOUS
  <2> HIDE DEF s
  <2>2. StepOf(s) = ClaimCopy(s.event.user)
      BY ClaimParts DEF StepOf
  <2> QED BY <2>1, <2>2 DEF ClaimCopy, Copy
<1>4. <<>> \in Seq(PlainSteps)
    BY EmptySeq
<1> HIDE DEF s
<1>5. Shape(t) /\ Planned(t, db) /\ t.pc = "next" /\ t.label = s.label
    BY <1>1, <1>3, <1>4, AdvanceIsPlanned DEF Ready
<1> HIDE DEF t
<1>6. Ready(t)
    BY <1>1, <1>5 DEF Ready, Seen
<1> QED BY <1>2, <1>6

LEMMA StartDispatchReady ==
    ASSUME StoreInv, NEW a \in Actors, StartDispatch(a)
    PROVE  \E t : Ready(t) /\ MovesTo(a, t)
<1>1. PICK e \in events :
        actor' = [actor EXCEPT ![a] = [IdleActor EXCEPT !.pc = "next", !.calls = dispatch(e),
                                         !.label = e.ledger, !.event = e]]
    BY DEF StartDispatch
<1> DEFINE t == [IdleActor EXCEPT !.pc = "next", !.calls = dispatch(e),
                                  !.label = e.ledger, !.event = e]
<1>2. e \in Chained /\ e.ledger \in 0 .. tip /\ DOMAIN actor = Actors
    BY DEF StoreInv, Chained
<1>3. MovesTo(a, t)
  <2>1. actor' = [actor EXCEPT ![a] = t]
      BY <1>1
  <2> HIDE DEF t
  <2> QED BY <1>2, <2>1 DEF MovesTo
<1>4. Shape(t) /\ t.pc = "next" /\ t.label = e.ledger /\ t.calls = dispatch(e) /\ t.event = e
    BY DEF Shape, IdleActor
<1> HIDE DEF t
<1>5. Planned(t, db)
    BY <1>2, <1>4, DispatchIsPlain, DispatchOfClaim DEF Planned
<1>6. Ready(t)
    BY <1>2, <1>4, <1>5 DEF Ready, Seen
<1> QED BY <1>3, <1>6

LEMMA FinishReady ==
    ASSUME StoreInv, NEW a \in Actors, FinishDispatch(a) \/ FinishJob(a)
    PROVE  \E t : Ready(t) /\ MovesTo(a, t)
<1>1. actor' = [actor EXCEPT ![a] = IdleActor] /\ DOMAIN actor = Actors /\ tip \in Nat
    BY DEF FinishDispatch, FinishJob, StoreInv
<1>2. MovesTo(a, IdleActor)
    BY <1>1 DEF MovesTo
<1> QED BY <1>1, <1>2, IdleIsReady

LEMMA StartJobReady ==
    ASSUME StoreInv, NEW a \in Actors, StartJob(a)
    PROVE  \E t : Ready(t) /\ MovesTo(a, t)
<1>1. PICK counted \in BOOLEAN :
        actor' = [actor EXCEPT ![a] =
                       [IdleActor EXCEPT !.pc = "next", !.label = tip, !.pooled = db[Row("pool")] # NoRow,
                                         !.calls = <<reconcileGovernance>>
                                           \o (IF (counted /\ Exists(Row("market"))) \/ db[Row("market")] # NoRow
                                               THEN <<reconcileMarket, reconcileVault>> ELSE <<>>)]]
    BY DEF StartJob
<1> DEFINE c == <<reconcileGovernance>>
                  \o (IF (counted /\ Exists(Row("market"))) \/ db[Row("market")] # NoRow
                      THEN <<reconcileMarket, reconcileVault>> ELSE <<>>)
           p == db[Row("pool")] # NoRow
           t == [IdleActor EXCEPT !.pc = "next", !.label = tip, !.pooled = p, !.calls = c]
<1>2. DOMAIN actor = Actors /\ tip \in Nat
    BY DEF StoreInv
<1>3. MovesTo(a, t)
  <2>1. actor' = [actor EXCEPT ![a] = t]
      BY <1>1
  <2> HIDE DEF t
  <2> QED BY <1>2, <2>1 DEF MovesTo
<1>4. c \in Seq(PlainCalls)
    BY CallsArePlain, Singles, PlainConcat
<1> HIDE DEF c, p
<1>5. Shape(t) /\ t.pc = "next" /\ t.label = tip /\ t.calls = c
    BY DEF Shape, IdleActor
<1> HIDE DEF t
<1>6. Ready(t)
    BY <1>2, <1>4, <1>5 DEF Ready, Seen, Planned
<1> QED BY <1>3, <1>6

LEMMA ListOwnersReady ==
    ASSUME StoreInv, NEW a \in Actors, ListOwners(a)
    PROVE  \E t : Ready(t) /\ MovesTo(a, t)
<1> DEFINE s == actor[a]
           c == PerUser(KnownOwners("position"), reconcileUserPosition)
                  \o PerUser(KnownOwners("position"), reconcileUserVaultState)
                  \o (IF actor[a].pooled
                      THEN PerUser(KnownOwners("lp"), reconcileLpPosition) ELSE <<>>)
                  \o (IF db[Row("timelock")] # NoRow THEN <<reconcileTimelockAction>> ELSE <<>>)
           t == [s EXCEPT !.listed = TRUE, !.calls = c]
<1>1. Ready(s) /\ s.pc = "next" /\ DOMAIN actor = Actors /\ tip \in Nat
    BY DEF StoreInv, ListOwners
<1>2. MovesTo(a, t)
  <2>1. actor' = [actor EXCEPT ![a].listed = TRUE, ![a].calls = c]
      BY DEF ListOwners
  <2>2. actor' = [actor EXCEPT ![a] = t]
    <3> HIDE DEF c
    <3> QED BY <2>1
  <2> HIDE DEF t
  <2> QED BY <1>1, <2>2 DEF MovesTo
<1>3. c \in Seq(PlainCalls)
  <2>1. KnownOwners("position") \in SUBSET Users /\ KnownOwners("lp") \in SUBSET Users
      BY DEF KnownOwners
  <2>2. /\ PerUser(KnownOwners("position"), reconcileUserPosition) \in Seq(PlainCalls)
        /\ PerUser(KnownOwners("position"), reconcileUserVaultState) \in Seq(PlainCalls)
        /\ PerUser(KnownOwners("lp"), reconcileLpPosition) \in Seq(PlainCalls)
      BY <2>1, PerUserIsPlain
  <2>3. (IF actor[a].pooled THEN PerUser(KnownOwners("lp"), reconcileLpPosition) ELSE <<>>) \in Seq(PlainCalls)
      BY <2>2, Singles
  <2>4. (IF db[Row("timelock")] # NoRow THEN <<reconcileTimelockAction>> ELSE <<>>) \in Seq(PlainCalls)
      BY CallsArePlain, Singles
  <2> QED BY <2>2, <2>3, <2>4, PlainConcat, Zenon
<1> HIDE DEF c
<1>4. Shape(t) /\ t.pc = "next" /\ t.label = s.label /\ t.calls = c
    BY <1>1 DEF Ready, Shape
<1> HIDE DEF t
<1>5. Ready(t)
    BY <1>1, <1>3, <1>4 DEF Ready, Seen, Planned
<1> QED BY <1>2, <1>5


\* A row that is written was read at no later state than its label, and is
\* there from then on.
LEMMA UpsertRowKeeps ==
    ASSUME StoreInv, NEW a \in Actors, UpsertRow(a), UNCHANGED <<tip, changes, events>>
    PROVE  StoreInv'
<1> DEFINE s == actor[a]
           r == Step(a).row
           t == Advance(s, Sequel(Step(a)))
<1>1. /\ Ready(s) /\ s.pc = "write" /\ s.calls # <<>> /\ DOMAIN actor = Actors /\ tip \in Nat
      /\ DOMAIN db = Rows
    BY DEF StoreInv, UpsertRow, Ready, Shape
<1>2. MovesTo(a, t)
  <2>1. actor' = [actor EXCEPT ![a] = t]
      BY DEF UpsertRow
  <2> HIDE DEF t
  <2> QED BY <1>1, <2>1 DEF MovesTo
<1>3. db' = [db EXCEPT ![r] = [val |-> s.val, label |-> s.label]]
    BY DEF UpsertRow
<1>4. StepOf(s) = Step(a)
    BY DEF StepOf, Step, Call
<1>5. r \in Rows => /\ s.val # Missing
                    /\ HonestLabel(s.val, s.label, r)
    BY <1>1, <1>4 DEF Ready, Seen
<1>6. s.label \in 0 .. tip
    BY <1>1 DEF Ready
<1>7. DOMAIN db' = Rows /\ \A q \in Rows : db'[q] = IF q = r THEN [val |-> s.val, label |-> s.label] ELSE db[q]
  <2> HIDE DEF r, s
  <2> QED BY <1>1, <1>3
<1>8. \A q \in Rows : db[q] # NoRow => db'[q] # NoRow
  <2> HIDE DEF r, s
  <2> QED BY <1>5, <1>7 DEF NoRow
<1>9. r \in Rows => db'[r] # NoRow
  <2> HIDE DEF r, s
  <2> QED BY <1>5, <1>7 DEF NoRow
<1>10. \A u \in Users : UserRow("lp", u) \in Rows
    BY DEF Rows
<1>11. Shape(t) /\ Planned(t, db') /\ t.pc = "next" /\ t.label = s.label
  <2>1. Sequel(StepOf(s)) \in Seq(PlainSteps)
      BY SequelIsPlain
  <2>2. Planned(s, db')
      BY <1>1, <1>8, <1>10 DEF Ready, Planned
  <2>3. ASSUME s.calls = <<ClaimCall(s.event.user)>>
        PROVE  /\ Sequel(StepOf(s)) = <<>>
               /\ s.event.user \in Users => db'[UserRow("lp", s.event.user)] # NoRow
    <3>1. StepOf(s) = ClaimCopy(s.event.user)
      <4> HIDE DEF s
      <4> QED BY <2>3, ClaimParts DEF StepOf
    <3>2. r = UserRow("lp", s.event.user)
        BY <1>4, <3>1 DEF ClaimCopy, Copy
    <3> QED BY <1>9, <1>10, <3>1, <3>2, SequelIsPlain
  <2>4. ASSUME s.calls = << <<ClaimStep(s.event.user)>> >>
        PROVE  Sequel(StepOf(s)) = <<>>
    <3>1. StepOf(s) = ClaimStep(s.event.user)
      <4> HIDE DEF s
      <4> QED BY <2>4, ClaimParts DEF StepOf
    <3> QED BY <3>1, SequelIsPlain
  <2>5. t = Advance(s, Sequel(StepOf(s)))
      BY <1>4
  <2> HIDE DEF s, t
  <2> QED BY <1>1, <2>1, <2>2, <2>3, <2>4, <2>5, AdvanceIsPlanned DEF Ready
<1> HIDE DEF t, r
<1>12. \A b \in Actors : Ready(actor[b])'
  <2> SUFFICES ASSUME NEW b \in Actors PROVE Ready(actor[b])'
      OBVIOUS
  <2>1. CASE b = a
    <3>1. actor'[b] = t
        BY <1>2, <2>1 DEF MovesTo
    <3> QED BY <1>6, <1>11, <3>1 DEF Ready, Seen, HonestLabel, Shape, Planned
  <2>2. CASE b # a
    <3>1. actor'[b] = actor[b] /\ Ready(actor[b])
        BY <1>2, <2>2 DEF MovesTo, StoreInv
    <3>2. Planned(actor[b], db')
        BY <1>8, <1>10, <3>1 DEF Ready, Planned
    <3> QED BY <3>1, <3>2 DEF Ready, Seen, HonestLabel, Shape, Planned
  <2> QED BY <2>1, <2>2
<1>13. LabelsAreHonest'
  <2> SUFFICES ASSUME NEW q \in Rows PROVE HonestLabel(db'[q].val, db'[q].label, q)
      BY DEF LabelsAreHonest, HonestLabel
  <2>1. CASE q = r
    <3>1. db'[q].val = s.val /\ db'[q].label = s.label
      <4> HIDE DEF s
      <4> QED BY <1>7, <2>1
    <3> HIDE DEF s
    <3> QED BY <1>5, <2>1, <3>1
  <2>2. CASE q # r
      BY <1>7, <2>2 DEF StoreInv, LabelsAreHonest, HonestLabel
  <2> QED BY <2>1, <2>2
<1>14. \A q \in Rows : db'[q].label \in 0 .. tip
  <2> SUFFICES ASSUME NEW q \in Rows PROVE db'[q].label \in 0 .. tip
      OBVIOUS
  <2> HIDE DEF s
  <2> QED BY <1>6, <1>7 DEF StoreInv
<1> QED BY <1>2, <1>7, <1>12, <1>13, <1>14 DEF StoreInv, MovesTo, Chained

\* A new ledger is later than every label.
LEMMA TransactKeeps ==
    ASSUME StoreInv, Transact
    PROVE  StoreInv'
<1>1. PICK kind \in Transactions, u \in Users :
        /\ tip' = tip + 1
        /\ changes' = [r \in Rows |-> IF r \in Tx(kind, u).rows THEN changes[r] \cup {tip + 1} ELSE changes[r]]
        /\ events' = events \cup EventsOf(Tx(kind, u), tip + 1, u)
        /\ db' = db /\ actor' = actor
    BY DEF Transact
<1>2. tip \in Nat /\ tip' \in Nat
    BY <1>1 DEF StoreInv
<1>3. /\ changes' \in [Rows -> SUBSET (1 .. tip')]
      /\ \A r \in Rows : \A c \in changes'[r] : c \in changes[r] \/ c = tip + 1
    BY <1>1, <1>2 DEF StoreInv
<1>4. Tx(kind, u).topics \subseteq Topics
  <2>1. kind \in {"create", "buy", "provide", "claim", "liquidate", "escalate", "queue"}
      BY ServicesAssumption
  <2> QED BY <2>1 DEF Tx, Topics
<1>5. \A l \in 0 .. tip : l \in 0 .. tip'
    BY <1>1, <1>2
<1>6. events' \subseteq Chained'
  <2>1. \A e \in EventsOf(Tx(kind, u), tip + 1, u) : e \in Chained'
      BY <1>1, <1>2, <1>4 DEF EventsOf, Chained
  <2>2. \A e \in events : e \in Chained'
      BY <1>5 DEF StoreInv, Chained
  <2> QED BY <1>1, <2>1, <2>2
<1>7. \A b \in Actors : Ready(actor[b])'
  <2> SUFFICES ASSUME NEW b \in Actors PROVE Ready(actor[b])'
      OBVIOUS
  <2>1. Ready(actor[b])
      BY DEF StoreInv
  <2>2. ASSUME actor[b].pc = "write", StepOf(actor[b]).row \in Rows,
               ~(actor[b].val = Zeroed /\ StepOf(actor[b]).row[1] \in FallbackKinds),
               NEW c \in changes'[StepOf(actor[b]).row]
        PROVE  ~(actor[b].val < c /\ c <= actor[b].label)
    <3>1. CASE c \in changes[StepOf(actor[b]).row]
        BY <2>1, <2>2, <3>1 DEF Ready, Seen, HonestLabel
    <3>2. CASE c = tip + 1
        BY <1>2, <2>1, <3>2 DEF Ready
    <3> QED BY <1>3, <2>2, <3>1, <3>2
  <2>3. Seen(actor[b])'
      BY <1>1, <2>1, <2>2 DEF Ready, Seen, HonestLabel, StepOf
  <2> QED BY <1>1, <1>5, <2>1, <2>3 DEF Ready, Shape, Planned
<1>8. LabelsAreHonest'
  <2> SUFFICES ASSUME NEW q \in Rows, ~(db[q].val = Zeroed /\ q[1] \in FallbackKinds), NEW c \in changes'[q]
               PROVE  ~(db[q].val < c /\ c <= db[q].label)
      BY <1>1 DEF LabelsAreHonest
  <2>1. CASE c \in changes[q]
      BY <2>1 DEF StoreInv, LabelsAreHonest
  <2>2. CASE c = tip + 1
      BY <1>2, <2>2 DEF StoreInv
  <2> QED BY <1>3, <2>1, <2>2
<1> QED BY <1>1, <1>2, <1>3, <1>5, <1>6, <1>7, <1>8 DEF StoreInv

LEMMA StoreInvInit == Init => StoreInv
<1> SUFFICES ASSUME Init PROVE StoreInv
    OBVIOUS
<1>1. tip = 1 /\ changes \in [Rows -> SUBSET (1 .. tip)] /\ \A r \in Rows : changes[r] \in {{}, {1}}
    BY DEF Init
<1>2. events \subseteq Chained
    BY <1>1 DEF Init, EventsOf, Tx, Chained, Topics
<1>3. \A a \in Actors : Ready(actor[a])
    BY <1>1, IdleIsReady DEF Init, InitReadModel
<1>4. DOMAIN db = Rows /\ DOMAIN actor = Actors
    BY DEF Init, InitReadModel
<1>5. \A r \in Rows : db[r] = IF Exists(r) THEN [val |-> 1, label |-> 1] ELSE [val |-> -1, label |-> 0]
    BY DEF Init, InitReadModel, NoRow, Missing
<1>6. \A r \in Rows : db[r].label \in 0 .. tip
    BY <1>1, <1>5
<1>7. LabelsAreHonest
    BY <1>1, <1>5 DEF LabelsAreHonest
<1> QED BY <1>1, <1>2, <1>3, <1>4, <1>6, <1>7 DEF StoreInv

LEMMA StoreInvNext == StoreInv /\ [Next]_servicesVars => StoreInv'
<1> SUFFICES ASSUME StoreInv, [Next]_servicesVars PROVE StoreInv'
    OBVIOUS
<1>1. CASE Transact
    BY <1>1, TransactKeeps
<1>2. ASSUME NEW a \in Actors, ActorStep(a), UNCHANGED <<tip, changes, events>>
      PROVE  StoreInv'
  <2>1. CASE UpsertRow(a)
      BY <1>2, <2>1, UpsertRowKeeps
  <2>2. CASE ReadContract(a) \/ ReadMissing(a) \/ AppendEvent(a)
    <3>1. db' = db
        BY <2>2 DEF ReadContract, ReadMissing, ReadFails, AppendEvent, readModelVars
    <3>2. \E t : Ready(t) /\ MovesTo(a, t)
        BY <2>2, ReadContractReady, ReadFailsReady, AppendEventReady DEF ReadMissing
    <3> QED BY <1>2, <3>1, <3>2, ActorMoves
  <2> QED BY <1>2, <2>1, <2>2 DEF ActorStep
<1>3. ASSUME NEW a \in Actors, UNCHANGED <<tip, changes, events>>,
             \/ StartDispatch(a) \/ FinishDispatch(a) \/ StartJob(a) \/ ListOwners(a)
             \/ FinishJob(a) \/ RpcFault(a) \/ FailWrite(a) \/ Crash(a)
      PROVE  StoreInv'
  <2>1. db' = db
      BY <1>3 DEF StartDispatch, FinishDispatch, StartJob, ListOwners, FinishJob, RpcFault,
                  ReadFails, FailWrite, Crash, readModelVars
  <2>2. \E t : Ready(t) /\ MovesTo(a, t)
      BY <1>3, StartDispatchReady, FinishReady, StartJobReady, ListOwnersReady, ReadFailsReady,
         FailWriteReady, CrashReady DEF RpcFault
  <2> QED BY <1>3, <2>1, <2>2, ActorMoves
<1>4. ASSUME NEW d \in Dispatchers, Dispatching(d) PROVE StoreInv'
  <2>1. d \in Actors
      BY DEF Actors
  <2> QED BY <1>2, <1>3, <1>4, <2>1 DEF Dispatching, chain
<1>5. ASSUME NEW j \in Jobs, Reconciling(j) PROVE StoreInv'
  <2>1. j \in Actors
      BY DEF Actors
  <2> QED BY <1>2, <1>3, <1>5, <2>1 DEF Reconciling, chain
<1>6. ASSUME NEW a \in Actors, Failing(a) PROVE StoreInv'
    BY <1>3, <1>6 DEF Failing, chain
<1>7. CASE UNCHANGED servicesVars
    BY <1>7 DEF servicesVars, StoreInv, Ready, Shape, Seen, HonestLabel, Planned, LabelsAreHonest, Chained
<1> QED BY <1>1, <1>4, <1>5, <1>6, <1>7 DEF Next

LEMMA StoreInvHolds == Spec => []StoreInv
BY StoreInvInit, StoreInvNext, PTL DEF Spec

(***************************************************************************)
(* No row claims more than it holds: for any number of dispatches and jobs *)
(* that copy the same objects side by side, however late each of them      *)
(* writes and whatever fails in between, no change of an object lies       *)
(* between what its row shows and the ledger the row is labelled with      *)
(* (reconciliation.ts, state-repository.ts).                               *)
(***************************************************************************)
THEOREM LabelsStayHonest == Spec => []LabelsAreHonest
<1>1. StoreInv => LabelsAreHonest
    BY DEF StoreInv
<1> QED BY <1>1, StoreInvHolds, PTL


-----------------------------------------------------------------------------
(* The total of the fee claims.                                            *)

ClaimsOf(u) == {h \in history : h[1] = "lp_fee_claim_events" /\ h[2].user = u}

\* An event is appended once; a claim raises the total of its owner by one.
LEMMA AppendEventCounts ==
    ASSUME StoreInv, CountInv, NEW a \in Actors, AppendEvent(a)
    PROVE  CountInv'
<1> DEFINE s == actor[a]
           table == StepOf(s).table
           entry == <<table, s.event>>
           owner == StepOf(s).row[2]
<1>1. Ready(s) /\ s.calls # <<>>
    BY DEF StoreInv, AppendEvent, Busy
<1>2. StepOf(s) = Step(a)
    BY DEF StepOf, Step, Call
<1>3. /\ table # "row"
      /\ history' = history \cup {entry}
      /\ claimed' = IF table = "lp_fee_claim_events" /\ entry \notin history /\ db[StepOf(s).row] # NoRow
                    THEN [claimed EXCEPT ![owner] = @ + 1] ELSE claimed
    BY <1>2 DEF AppendEvent
<1>4. \/ table \in {"trades", "liquidity_events", "council_votes"}
      \/ /\ table = "lp_fee_claim_events" /\ owner = s.event.user
         /\ s.event.user \in Users => db[StepOf(s).row] # NoRow
  <2>1. CASE s.calls \in Seq(PlainCalls) /\ StepOf(s) \in PlainSteps
      BY <1>3, <2>1 DEF PlainSteps
  <2>2. CASE StepOf(s) = ClaimCopy(s.event.user)
      BY <1>3, <2>2 DEF ClaimCopy, Copy
  <2>3. CASE /\ StepOf(s) = ClaimStep(s.event.user)
             /\ s.event.user \in Users => db[UserRow("lp", s.event.user)] # NoRow
      BY <2>3 DEF ClaimStep, AppendTo, UserRow
  <2> HIDE DEF s, table, owner
  <2> QED BY <1>1, <2>1, <2>2, <2>3, StepKinds DEF Ready
<1>5. DOMAIN claimed' = Users /\ IsFiniteSet(history')
  <2>1. IsFiniteSet(history')
      BY <1>3, FS_AddElement DEF CountInv
  <2> HIDE DEF s, entry, table, owner
  <2> QED BY <1>3, <2>1 DEF CountInv
<1> HIDE DEF owner
<1>6. entry[1] = table /\ entry[2] = s.event
    OBVIOUS
<1> HIDE DEF entry, table
<1>7. ASSUME NEW u \in Users
      PROVE  claimed'[u] = Cardinality(ClaimsOf(u)')
  <2>1. IsFiniteSet(ClaimsOf(u)) /\ claimed[u] = Cardinality(ClaimsOf(u))
        /\ Cardinality(ClaimsOf(u)) \in Nat
    <3>1. IsFiniteSet(ClaimsOf(u))
        BY FS_Subset DEF CountInv, ClaimsOf
    <3>2. claimed[u] = Cardinality(ClaimsOf(u))
        BY DEF CountInv, ClaimsCountedOnce, ClaimsOf
    <3> QED BY <3>1, <3>2, FS_CardinalityType
  <2>2. CASE entry \in history
    <3>1. history' = history
        BY <1>3, <2>2
    <3>2. claimed' = claimed
        BY <1>3, <2>2
    <3> QED BY <2>1, <3>1, <3>2 DEF ClaimsOf
  <2>3. CASE table # "lp_fee_claim_events"
    <3>1. claimed' = claimed
        BY <1>3, <2>3
    <3>2. ClaimsOf(u)' = ClaimsOf(u)
        BY <1>3, <1>6, <2>3 DEF ClaimsOf
    <3> QED BY <2>1, <3>1, <3>2
  <2>4. CASE table = "lp_fee_claim_events" /\ entry \notin history /\ s.event.user # u
    <3>1. claimed'[u] = claimed[u]
        BY <1>3, <1>4, <2>4 DEF CountInv
    <3>2. ClaimsOf(u)' = ClaimsOf(u)
        BY <1>3, <1>6, <2>4 DEF ClaimsOf
    <3> QED BY <2>1, <3>1, <3>2
  <2>5. CASE table = "lp_fee_claim_events" /\ entry \notin history /\ s.event.user = u
    <3>1. claimed'[u] = claimed[u] + 1
        BY <1>3, <1>4, <2>5 DEF CountInv
    <3>2. ClaimsOf(u)' = ClaimsOf(u) \cup {entry}
        BY <1>3, <1>6, <2>5 DEF ClaimsOf
    <3>3. entry \notin ClaimsOf(u)
        BY <2>5 DEF ClaimsOf
    <3>4. Cardinality(ClaimsOf(u) \cup {entry}) = Cardinality(ClaimsOf(u)) + 1
        BY <2>1, <3>3, FS_AddElement
    <3> QED BY <2>1, <3>1, <3>2, <3>4
  <2> QED BY <2>2, <2>3, <2>4, <2>5
<1>8. ClaimsCountedOnce'
    BY <1>7 DEF ClaimsCountedOnce, ClaimsOf
<1> QED BY <1>5, <1>8 DEF CountInv

LEMMA CountInvInit == Init => CountInv
<1> SUFFICES ASSUME Init PROVE CountInv
    OBVIOUS
<1>1. history = {} /\ claimed = [u \in Users |-> 0]
    BY DEF Init, InitReadModel
<1>2. IsFiniteSet({}) /\ Cardinality({}) = 0
    BY FS_EmptySet
<1>3. \A u \in Users : {h \in history : h[1] = "lp_fee_claim_events" /\ h[2].user = u} = {}
    BY <1>1
<1>4. ClaimsCountedOnce
    BY <1>1, <1>2, <1>3 DEF ClaimsCountedOnce
<1> QED BY <1>1, <1>2, <1>4 DEF CountInv

LEMMA CountInvNext == StoreInv /\ CountInv /\ [Next]_servicesVars => CountInv'
<1> SUFFICES ASSUME StoreInv, CountInv, [Next]_servicesVars PROVE CountInv'
    OBVIOUS
<1>1. ASSUME UNCHANGED <<history, claimed>> PROVE CountInv'
    BY <1>1 DEF CountInv, ClaimsCountedOnce
<1>2. ASSUME NEW a \in Actors, ActorStep(a) PROVE CountInv'
  <2>1. CASE AppendEvent(a)
      BY <2>1, AppendEventCounts
  <2>2. CASE ReadContract(a) \/ ReadMissing(a) \/ UpsertRow(a)
    <3>1. UNCHANGED <<history, claimed>>
        BY <2>2 DEF ReadContract, ReadMissing, ReadFails, UpsertRow, readModelVars
    <3> QED BY <1>1, <3>1
  <2> QED BY <1>2, <2>1, <2>2 DEF ActorStep
<1>3. ASSUME NEW d \in Dispatchers, Dispatching(d) PROVE CountInv'
  <2>1. d \in Actors
      BY DEF Actors
  <2>2. StartDispatch(d) \/ FinishDispatch(d) => UNCHANGED <<history, claimed>>
      BY DEF StartDispatch, FinishDispatch, readModelVars
  <2> QED BY <1>1, <1>2, <1>3, <2>1, <2>2 DEF Dispatching
<1>4. ASSUME NEW j \in Jobs, Reconciling(j) PROVE CountInv'
  <2>1. j \in Actors
      BY DEF Actors
  <2>2. StartJob(j) \/ ListOwners(j) \/ FinishJob(j) => UNCHANGED <<history, claimed>>
      BY DEF StartJob, ListOwners, FinishJob, readModelVars
  <2> QED BY <1>1, <1>2, <1>4, <2>1, <2>2 DEF Reconciling
<1>5. ASSUME NEW a \in Actors, Failing(a) PROVE CountInv'
  <2>1. UNCHANGED <<history, claimed>>
      BY <1>5 DEF Failing, RpcFault, ReadFails, FailWrite, Crash, readModelVars
  <2> QED BY <1>1, <2>1
<1>6. CASE Transact
  <2>1. UNCHANGED <<history, claimed>>
      BY <1>6 DEF Transact
  <2> QED BY <1>1, <2>1
<1>7. CASE UNCHANGED servicesVars
    BY <1>1, <1>7 DEF servicesVars
<1> QED BY <1>3, <1>4, <1>5, <1>6, <1>7 DEF Next

(***************************************************************************)
(* Every fee claim on record is counted in its owner's total, and counted  *)
(* once: however often its event is dispatched again, by however many      *)
(* dispatches at a time and whatever fails in between (dispatcher.ts,      *)
(* state-repository.ts).                                                   *)
(***************************************************************************)
THEOREM ClaimsAlwaysCounted == Spec => []ClaimsCountedOnce
<1>1. Init => StoreInv /\ CountInv
    BY StoreInvInit, CountInvInit
<1>2. StoreInv /\ CountInv /\ [Next]_servicesVars => (StoreInv /\ CountInv)'
    BY StoreInvNext, CountInvNext
<1>3. CountInv => ClaimsCountedOnce
    BY DEF CountInv
<1> QED BY <1>1, <1>2, <1>3, PTL DEF Spec
=============================================================================
