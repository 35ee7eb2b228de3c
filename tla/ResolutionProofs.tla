-------------------------- MODULE ResolutionProofs --------------------------
(***************************************************************************)
(* Proofs about Resolution, for every number of markets, users, council    *)
(* members and every configuration the registry accepts: types, then the   *)
(* agreement of the contracts and the refinement of MarketLifecycle, then  *)
(* the money.  Each theorem strengthens a property that the runs check     *)
(* into an inductive invariant.                                            *)
(***************************************************************************)
EXTENDS MarketApi, DikeTheorems

-----------------------------------------------------------------------------
(* Arithmetic of the losing bond.                                          *)

\* Multiplication by a natural number keeps the order.
LEMMA MulMonotone ==
    ASSUME NEW b \in Nat, NEW x \in Nat, NEW y \in Nat, x <= y
    PROVE  b * x <= b * y
<1> DEFINE d == y - x
<1>1. d \in Nat
  OBVIOUS
<1>2. b * d >= 0 /\ b * d \in Int
  BY <1>1
<1>3. b * (x + d) = b * x + b * d
  BY <1>1
<1>4. x + d = y
  OBVIOUS
<1>5. b * x \in Int
  OBVIOUS
<1> HIDE DEF d
<1> QED BY <1>2, <1>3, <1>4, <1>5

\* bps of a rate of at most 10000 lies between 0 and the amount.
LEMMA BpsBounds ==
    ASSUME NEW b \in Nat, NEW x \in Nat
    PROVE  /\ bps(b, x) \in Nat
           /\ bps(b, x) * 10000 <= b * x
<1> DEFINE p == b * x
<1>1. p \in Nat
  OBVIOUS
<1>2. p \div 10000 \in Nat /\ (p \div 10000) * 10000 <= p
  <2> HIDE DEF p
  <2> QED BY <1>1
<1> QED BY <1>2 DEF bps, BPS_DENOMINATOR

\* The three payments of losing_bond_split are never negative and use up the
\* losing bond exactly, whatever shares governance has set.
LEMMA SplitUsesBond ==
    ASSUME NEW b \in Nat, split \in Splits
    PROVE  /\ losing_bond_split(b).winner \in Nat
           /\ losing_bond_split(b).council \in Nat
           /\ losing_bond_split(b).treasury \in Nat
           /\ losing_bond_split(b).treasury
                = b - losing_bond_split(b).winner - losing_bond_split(b).council
<1> DEFINE w == bps(b, split.winner)
           c == bps(b, split.council)
<1>1. /\ split.winner \in Nat /\ split.council \in Nat
      /\ split.winner + split.council <= 10000
  BY BondAssumption DEF BondAssumption, BPS_DENOMINATOR
<1>2. w \in Nat /\ w * 10000 <= b * split.winner
  <2> DEFINE x == split.winner
  <2>1. x \in Nat
    BY <1>1
  <2> HIDE DEF x
  <2>2. bps(b, x) \in Nat /\ bps(b, x) * 10000 <= b * x
    BY <2>1, BpsBounds
  <2> QED BY <2>2 DEF x
<1>3. c \in Nat /\ c * 10000 <= b * split.council
  <2> DEFINE x == split.council
  <2>1. x \in Nat
    BY <1>1
  <2> HIDE DEF x
  <2>2. bps(b, x) \in Nat /\ bps(b, x) * 10000 <= b * x
    BY <2>1, BpsBounds
  <2> QED BY <2>2 DEF x
<1>4. b * split.winner + b * split.council <= b * 10000
  <2>1. b * (split.winner + split.council) <= b * 10000
    BY <1>1, MulMonotone
  <2>2. b * (split.winner + split.council) = b * split.winner + b * split.council
    BY <1>1
  <2> QED BY <2>1, <2>2
<1>5. b * split.winner \in Nat /\ b * split.council \in Nat
  BY <1>1
<1>6. w + c <= b
  <2> DEFINE pw == b * split.winner
             pc == b * split.council
  <2>1. /\ w \in Nat /\ c \in Nat /\ pw \in Nat /\ pc \in Nat
        /\ w * 10000 <= pw /\ c * 10000 <= pc /\ pw + pc <= b * 10000
    BY <1>2, <1>3, <1>4, <1>5
  <2> HIDE DEF w, c, pw, pc
  <2> QED BY <2>1
<1> HIDE DEF w, c
<1>7. losing_bond_split(b) = [winner |-> w, council |-> c, treasury |-> b - w - c]
  BY DEF losing_bond_split, w, c
<1> QED BY <1>2, <1>3, <1>6, <1>7

\* What one payment does to the bonds.
LEMMA PaidBond ==
    ASSUME NEW b \in [BondKeys -> BondRecord], NEW k \in BondKeys, NEW a \in Nat,
           CanPay(b, k, a)
    PROVE  /\ Paid(b, k, a) \in [BondKeys -> BondRecord]
           /\ Paid(b, k, a)[k].amount = b[k].amount - a
           /\ Paid(b, k, a)[k].exists = b[k].exists
           /\ Paid(b, k, a)[k].market = b[k].market
           /\ \A j \in BondKeys : j # k => Paid(b, k, a)[j] = b[j]
           /\ \A j \in BondKeys : /\ Paid(b, k, a)[j].exists = b[j].exists
                                  /\ Paid(b, k, a)[j].market = b[j].market
<1>1. b[k].amount \in Nat /\ b[k].amount - a \in Nat /\ b[k].exists \in BOOLEAN
      /\ b[k].market \in Markets \cup {0}
  BY DEF CanPay, BondRecord
<1>2. Paid(b, k, a) = [b EXCEPT ![k] = [b[k] EXCEPT !.amount = b[k].amount - a]]
  BY DEF Paid
<1>3. [b[k] EXCEPT !.amount = b[k].amount - a] \in BondRecord
  BY <1>1 DEF BondRecord
<1> QED BY <1>1, <1>2, <1>3 DEF BondRecord

-----------------------------------------------------------------------------
(* The shape of requests and cases: ids are handed out once, and the fields *)
(* a status relies on are set.                                             *)

RequestShape ==
    \A r \in RequestIds :
      LET q == request[r]
      IN  /\ r >= nextRequestId => q.status = "None"
          /\ q.status # "None" => q.market \in Markets
          /\ q.status \in {"Proposed", "Disputed", "Escalated", "Finalized"} => q.proposer \in Users
          /\ q.has_dispute => q.disputer \in Users
          /\ q.status \in {"Disputed", "Escalated"} => q.has_dispute
          /\ q.status \in {"None", "Requested", "Proposed"} => ~q.has_dispute

CaseShape ==
    /\ \A c \in CaseIds :
         /\ c >= nextCaseId => kase[c].status = "None"
         /\ kase[c].status = "None" => ~kase[c].has_final_outcome
         /\ kase[c].status # "None" => /\ kase[c].request \in RequestIds
                                       /\ requestCase[kase[c].request] = c
    /\ \A r \in RequestIds :
         requestCase[r] # 0 => /\ kase[requestCase[r]].status # "None"
                               /\ kase[requestCase[r]].request = r

TInv == TypeOK /\ RequestShape /\ CaseShape

\* The records that stand for absent storage entries are well-typed.
LEMMA EmptyRecords ==
    NoMarket \in MarketRecord /\ NoCase \in CaseRecord /\ NoRequest \in RequestRecord
<1>1. NoMarket \in MarketRecord
  BY DEF NoMarket, MarketRecord, MarketStatuses, Outcomes
<1>2. NoCase \in CaseRecord
  <2>1. [o \in Outcomes |-> 0] \in [Outcomes -> Nat] /\ "Invalid" \in Outcomes
    BY DEF Outcomes
  <2> QED BY <2>1 DEF NoCase, CaseRecord
<1>3. NoRequest \in RequestRecord
  <2>1. "Invalid" \in Outcomes /\ "None" \in OracleStatuses
    BY DEF Outcomes, OracleStatuses
  <2> QED BY <2>1 DEF NoRequest, RequestRecord
<1> QED BY <1>1, <1>2, <1>3

\* The constructors leave well-formed, empty storage.
LEMMA InitTInv == Init => TInv
<1> SUFFICES ASSUME Init PROVE TInv
  OBVIOUS
<1> USE DEF Init
<1>1. now \in Nat /\ tok \in [Accounts -> Int]
  BY ResolutionAssumption DEF ResolutionAssumption
<1>2. RegistryTypeOK
  BY EmptyRecords DEF RegistryInit, RegistryTypeOK
<1>3. BondTypeOK
  BY DEF BondInit, BondTypeOK, BondRecord
<1>4. CouncilTypeOK
  <2>1. [v \in Members |-> "none"] \in [Members -> Ballots]
    BY DEF Ballots
  <2>2. councilPaused \in BOOLEAN
    BY DEF CouncilInit
  <2>3. /\ kase \in [CaseIds -> CaseRecord]
        /\ requestCase \in [RequestIds -> CaseIds \cup {0}]
        /\ nextCaseId \in Nat \ {0}
        /\ member \subseteq Members
    BY EmptyRecords DEF CouncilInit
  <2>4. /\ claimed \in [CaseIds -> SUBSET Members]
        /\ rewardPool \in [CaseIds -> Nat]
    BY DEF CouncilInit
  <2>5. /\ commitment \in [CaseIds -> [Members -> Ballots]]
        /\ revealed \in [CaseIds -> [Members -> Ballots]]
    BY <2>1 DEF CouncilInit
  <2> QED BY <2>2, <2>3, <2>4, <2>5 DEF CouncilTypeOK
<1>5. OracleTypeOK
  <2>1. oraclePaused \in BOOLEAN
    BY DEF OracleInit
  <2>2. /\ request \in [RequestIds -> RequestRecord]
        /\ marketRequest \in [Markets -> RequestIds \cup {0}]
        /\ nextRequestId \in Nat \ {0}
    BY EmptyRecords DEF OracleInit
  <2> QED BY <2>1, <2>2 DEF OracleTypeOK
<1>6. RequestShape
  BY DEF OracleInit, RequestShape, NoRequest
<1>7. CaseShape
  BY DEF CouncilInit, CaseShape, NoCase
<1> QED BY <1>1, <1>2, <1>3, <1>4, <1>5, <1>6, <1>7 DEF TInv, TypeOK

-----------------------------------------------------------------------------
(* What the entry points do to the state they touch.                       *)

\* The registry: one market changes, and only as the entry point says.
LEMMA RegistryStep ==
    ASSUME RegistryTypeOK, NEW m \in Markets, NEW s \in MarketStatuses,
           transition_internal(m, s)
    PROVE  /\ RegistryTypeOK'
           /\ market'[m] = [market[m] EXCEPT !.status = s]
           /\ \A n \in Markets : n # m => market'[n] = market[n]
           /\ valid_transition(market[m].status, s)
BY DEF transition_internal, RegistryTypeOK, MarketRecord

\* set_final_outcome keeps the registry well-formed.
LEMMA FinalOutcomeStep ==
    ASSUME RegistryTypeOK, NEW m \in Markets, NEW o \in Outcomes,
           set_final_outcome(m, o)
    PROVE  /\ RegistryTypeOK'
           /\ market'[m] = [market[m] EXCEPT !.status = "Resolved",
                                             !.has_final_outcome = TRUE,
                                             !.final_outcome = o]
           /\ \A n \in Markets : n # m => market'[n] = market[n]
BY DEF set_final_outcome, RegistryTypeOK, MarketRecord, MarketStatuses

\* lock_bond: one key gets the amount.
LEMMA LockStep ==
    ASSUME TypeOK, NEW u \in Users, NEW r \in RequestIds, NEW m \in Markets,
           NEW a \in Nat, NEW d \in BOOLEAN, lock_bond(u, r, m, a, d)
    PROVE  /\ BondTypeOK'
           /\ tok' \in [Accounts -> Int]
           /\ ~bond[<<r, u, d>>].exists
           /\ bond'[<<r, u, d>>] = [exists |-> TRUE, amount |-> a, market |-> m]
           /\ \A j \in BondKeys : j # <<r, u, d>> => bond'[j] = bond[j]
<1> DEFINE k == <<r, u, d>>
<1>1. k \in BondKeys
  BY DEF BondKeys
<1>2. u \in Accounts /\ "vault" \in Accounts
  BY DEF Accounts
<1>3. tok' \in [Accounts -> Int]
  BY <1>2 DEF TypeOK, lock_bond, Transferred
<1>4. bond' = [bond EXCEPT ![k] = [exists |-> TRUE, amount |-> a, market |-> m]]
  BY DEF lock_bond
<1>5. [exists |-> TRUE, amount |-> a, market |-> m] \in BondRecord
  BY DEF BondRecord
<1>6. bond' \in [BondKeys -> BondRecord]
  BY <1>4, <1>5 DEF TypeOK, BondTypeOK
<1>7. bondTotal' \in [Markets -> [BOOLEAN -> Int]]
  <2>1. bondTotal' = [bondTotal EXCEPT ![m] = [bondTotal[m] EXCEPT ![d] = bondTotal[m][d] + a]]
    BY DEF lock_bond
  <2>2. [bondTotal[m] EXCEPT ![d] = bondTotal[m][d] + a] \in [BOOLEAN -> Int]
    BY DEF TypeOK, BondTypeOK
  <2> QED BY <2>1, <2>2 DEF TypeOK, BondTypeOK
<1>8. split' \in Splits
  BY DEF lock_bond, TypeOK, BondTypeOK
<1>9. ~bond[k].exists
  BY DEF lock_bond
<1> HIDE DEF k
<1>10. bond'[k] = [exists |-> TRUE, amount |-> a, market |-> m]
       /\ \A j \in BondKeys : j # k => bond'[j] = bond[j]
  BY <1>1, <1>4 DEF TypeOK, BondTypeOK
<1> QED BY <1>3, <1>6, <1>7, <1>8, <1>9, <1>10 DEF BondTypeOK, k

\* Debits of the accounting keep its type, whatever market the bond names.
LEMMA DebitedType ==
    ASSUME NEW t \in [Markets -> [BOOLEAN -> Int]], NEW k, k[3] \in BOOLEAN, NEW a \in Int
    PROVE  Debited(t, k, a) \in [Markets -> [BOOLEAN -> Int]]
<1> DEFINE m == bond[k].market
           d == k[3]
<1>1. CASE m \in Markets
  <2>1. [t[m] EXCEPT ![d] = t[m][d] - a] \in [BOOLEAN -> Int]
    BY <1>1
  <2> QED BY <1>1, <2>1 DEF Debited
<1>2. CASE m \notin Markets
  BY <1>2 DEF Debited
<1> QED BY <1>1, <1>2

\* A token transfer keeps the balances integers.
LEMMA TransferredType ==
    ASSUME NEW t \in [Accounts -> Int], NEW f \in Accounts, NEW g \in Accounts, NEW a \in Int
    PROVE  Transferred(t, f, g, a) \in [Accounts -> Int]
BY DEF Transferred

\* A decisive report empties both bonds: the winner's is released, and the
\* three slashes of the loser's add up to the whole of it.
LEMMA AwardStep ==
    ASSUME TypeOK, NEW r \in RequestIds, request[r].market \in Markets,
           NEW winner \in Users, NEW wk \in BondKeys, NEW lk \in BondKeys, wk # lk,
           wk[3] \in BOOLEAN, lk[3] \in BOOLEAN,
           AwardTo(r, winner, wk, lk)
    PROVE  /\ bond' \in [BondKeys -> BondRecord]
           /\ bondTotal' \in [Markets -> [BOOLEAN -> Int]]
           /\ tok' \in [Accounts -> Int]
           /\ rewardPool' \in [CaseIds -> Nat]
           /\ bond'[wk].amount = bond[wk].amount - RequestBond(r)
           /\ bond'[lk].amount = bond[lk].amount - RequestBond(r)
           /\ \A j \in BondKeys : j # wk /\ j # lk => bond'[j] = bond[j]
           /\ \A j \in BondKeys : bond'[j].exists = bond[j].exists /\ bond'[j].market = bond[j].market
<1> DEFINE b  == RequestBond(r)
           s  == losing_bond_split(b)
           b1 == Paid(bond, wk, b)
           b2 == Paid(b1, lk, s.winner)
           b3 == IF s.council > 0 THEN Paid(b2, lk, s.council) ELSE b2
           b4 == IF s.treasury > 0 THEN Paid(b3, lk, s.treasury) ELSE b3
           t1 == Transferred(tok, "vault", winner, b)
           t2 == Transferred(t1, "vault", winner, s.winner)
           t3 == Transferred(t2, "vault", "council", s.council)
<1>1. b \in Nat
  BY RegistryAssumption DEF RequestBond, RegistryAssumption
<1>2. /\ s.winner \in Nat /\ s.council \in Nat /\ s.treasury \in Nat
      /\ s.treasury = b - s.winner - s.council
  <2> HIDE DEF b
  <2> QED BY <1>1, SplitUsesBond DEF TypeOK, BondTypeOK
<1>3. /\ CanPay(bond, wk, b)
      /\ CanPay(b1, lk, s.winner)
      /\ s.council > 0 => CanPay(b2, lk, s.council) /\ requestCase[r] # 0
      /\ s.treasury > 0 => CanPay(b3, lk, s.treasury)
      /\ bond' = b4
  BY DEF AwardTo, AwardOk
<1>4. /\ rewardPool' = IF s.council > 0
                       THEN [rewardPool EXCEPT ![requestCase[r]] = @ + s.council]
                       ELSE rewardPool
      /\ tok' = Transferred(t3, "vault", "treasury", s.treasury)
      /\ bondTotal' = Debited(Debited(bondTotal, wk, b), lk, b)
  BY DEF AwardTo
<1> HIDE DEF b, s, b1, b2, b3, b4, t1, t2, t3
<1>5. /\ b1 \in [BondKeys -> BondRecord]
      /\ b1[wk].amount = bond[wk].amount - b /\ b1[lk] = bond[lk]
      /\ \A j \in BondKeys : j # wk => b1[j] = bond[j]
      /\ \A j \in BondKeys : b1[j].exists = bond[j].exists /\ b1[j].market = bond[j].market
  BY <1>1, <1>3, PaidBond DEF b1, TypeOK, BondTypeOK
<1>6. /\ b2 \in [BondKeys -> BondRecord]
      /\ b2[lk].amount = b1[lk].amount - s.winner
      /\ \A j \in BondKeys : j # lk => b2[j] = b1[j]
      /\ \A j \in BondKeys : b2[j].exists = b1[j].exists /\ b2[j].market = b1[j].market
  BY <1>2, <1>3, <1>5, PaidBond DEF b2
<1>7. /\ b3 \in [BondKeys -> BondRecord]
      /\ b3[lk].amount = b2[lk].amount - s.council
      /\ \A j \in BondKeys : j # lk => b3[j] = b2[j]
      /\ \A j \in BondKeys : b3[j].exists = b2[j].exists /\ b3[j].market = b2[j].market
  <2>1. CASE s.council > 0
    BY <2>1, <1>2, <1>3, <1>6, PaidBond DEF b3
  <2>2. CASE ~(s.council > 0)
    <3>1. s.council = 0 /\ b3 = b2
      BY <2>2, <1>2 DEF b3
    <3>2. b2[lk].amount \in Nat
      BY <1>6 DEF BondRecord
    <3> QED BY <3>1, <3>2, <1>6
  <2> QED BY <2>1, <2>2
<1>8. /\ b4 \in [BondKeys -> BondRecord]
      /\ b4[lk].amount = b3[lk].amount - s.treasury
      /\ \A j \in BondKeys : j # lk => b4[j] = b3[j]
      /\ \A j \in BondKeys : b4[j].exists = b3[j].exists /\ b4[j].market = b3[j].market
  <2>1. CASE s.treasury > 0
    BY <2>1, <1>2, <1>3, <1>7, PaidBond DEF b4
  <2>2. CASE ~(s.treasury > 0)
    <3>1. s.treasury = 0 /\ b4 = b3
      BY <2>2, <1>2 DEF b4
    <3>2. b3[lk].amount \in Nat
      BY <1>7 DEF BondRecord
    <3> QED BY <3>1, <3>2, <1>7
  <2> QED BY <2>1, <2>2
<1>9. b4[lk].amount = bond[lk].amount - b
  <2>1. bond[lk].amount \in Nat
    BY DEF TypeOK, BondTypeOK, BondRecord
  <2> QED BY <2>1, <1>1, <1>2, <1>5, <1>6, <1>7, <1>8
<1>10. b4[wk].amount = bond[wk].amount - b /\ \A j \in BondKeys : j # wk /\ j # lk => b4[j] = bond[j]
  BY <1>5, <1>6, <1>7, <1>8
<1>11. rewardPool' \in [CaseIds -> Nat]
  <2>1. CASE s.council > 0
    <3>1. requestCase[r] \in CaseIds
      BY <2>1, <1>3 DEF TypeOK, CouncilTypeOK
    <3>2. rewardPool[requestCase[r]] + s.council \in Nat
      BY <3>1, <1>2 DEF TypeOK, CouncilTypeOK
    <3> QED BY <2>1, <3>1, <3>2, <1>4 DEF TypeOK, CouncilTypeOK
  <2>2. CASE ~(s.council > 0)
    BY <2>2, <1>4 DEF TypeOK, CouncilTypeOK
  <2> QED BY <2>1, <2>2
<1>12. tok' \in [Accounts -> Int]
  <2>1. winner \in Accounts /\ "vault" \in Accounts /\ "council" \in Accounts
        /\ "treasury" \in Accounts /\ tok \in [Accounts -> Int] /\ b \in Int
    BY <1>1 DEF Accounts, TypeOK
  <2>0. s.winner \in Int /\ s.council \in Int /\ s.treasury \in Int
    BY <1>2
  <2>2. t1 \in [Accounts -> Int]
    BY <2>1, TransferredType DEF t1
  <2>3. t2 \in [Accounts -> Int]
    BY <2>1, <2>2, <2>0, TransferredType DEF t2
  <2>4. t3 \in [Accounts -> Int]
    BY <2>1, <2>3, <2>0, TransferredType DEF t3
  <2> QED BY <2>1, <2>4, <2>0, <1>4, TransferredType
<1>13. bondTotal' \in [Markets -> [BOOLEAN -> Int]]
  <2>1. Debited(bondTotal, wk, b) \in [Markets -> [BOOLEAN -> Int]]
    BY <1>1, DebitedType DEF TypeOK, BondTypeOK
  <2> QED BY <1>1, <1>4, <2>1, DebitedType
<1>14. \A j \in BondKeys : b4[j].exists = bond[j].exists /\ b4[j].market = bond[j].market
  BY <1>5, <1>6, <1>7, <1>8
<1> QED BY <1>3, <1>8, <1>9, <1>10, <1>11, <1>12, <1>13, <1>14 DEF b

\* A report that agrees with neither side returns both bonds in full.
LEMMA ReturnStep ==
    ASSUME TypeOK, NEW r \in RequestIds, request[r].market \in Markets,
           request[r].proposer \in Users, request[r].disputer \in Users,
           ReturnBoth(r)
    PROVE  /\ bond' \in [BondKeys -> BondRecord]
           /\ bondTotal' \in [Markets -> [BOOLEAN -> Int]]
           /\ tok' \in [Accounts -> Int]
           /\ rewardPool' \in [CaseIds -> Nat]
           /\ bond'[ProposalKey(r)].amount = bond[ProposalKey(r)].amount - RequestBond(r)
           /\ bond'[DisputeKey(r)].amount = bond[DisputeKey(r)].amount - RequestBond(r)
           /\ \A j \in BondKeys : j # ProposalKey(r) /\ j # DisputeKey(r) => bond'[j] = bond[j]
           /\ \A j \in BondKeys : bond'[j].exists = bond[j].exists /\ bond'[j].market = bond[j].market
<1> DEFINE b  == RequestBond(r)
           pk == ProposalKey(r)
           dk == DisputeKey(r)
           b1 == Paid(bond, pk, b)
           t1 == Transferred(tok, "vault", request[r].proposer, b)
<1>1. b \in Nat /\ b \in Int
  BY RegistryAssumption DEF RequestBond, RegistryAssumption
<1>2. /\ pk \in BondKeys /\ dk \in BondKeys /\ pk # dk
      /\ pk[3] \in BOOLEAN /\ dk[3] \in BOOLEAN
  BY DEF ProposalKey, DisputeKey, BondKeys
<1>3. /\ CanPay(bond, pk, b) /\ CanPay(b1, dk, b)
      /\ bond' = Paid(b1, dk, b)
      /\ bondTotal' = Debited(Debited(bondTotal, pk, b), dk, b)
      /\ tok' = Transferred(t1, "vault", request[r].disputer, b)
      /\ rewardPool' = rewardPool
  BY DEF ReturnBoth, ReturnOk
<1> HIDE DEF b, pk, dk, b1, t1
<1>4. /\ b1 \in [BondKeys -> BondRecord]
      /\ b1[pk].amount = bond[pk].amount - b
      /\ \A j \in BondKeys : j # pk => b1[j] = bond[j]
      /\ \A j \in BondKeys : b1[j].exists = bond[j].exists /\ b1[j].market = bond[j].market
  BY <1>1, <1>2, <1>3, PaidBond DEF b1, TypeOK, BondTypeOK
<1>5. /\ bond' \in [BondKeys -> BondRecord]
      /\ bond'[dk].amount = b1[dk].amount - b
      /\ \A j \in BondKeys : j # dk => bond'[j] = b1[j]
      /\ \A j \in BondKeys : bond'[j].exists = b1[j].exists /\ bond'[j].market = b1[j].market
  BY <1>1, <1>2, <1>3, <1>4, PaidBond
<1>6. bondTotal' \in [Markets -> [BOOLEAN -> Int]]
  <2>1. Debited(bondTotal, pk, b) \in [Markets -> [BOOLEAN -> Int]]
    BY <1>1, <1>2, DebitedType DEF TypeOK, BondTypeOK
  <2> QED BY <1>1, <1>2, <1>3, <2>1, DebitedType
<1>7. tok' \in [Accounts -> Int]
  <2>1. /\ request[r].proposer \in Accounts /\ request[r].disputer \in Accounts
        /\ "vault" \in Accounts /\ tok \in [Accounts -> Int]
    BY DEF Accounts, TypeOK
  <2>2. t1 \in [Accounts -> Int]
    BY <1>1, <2>1, TransferredType DEF t1
  <2> QED BY <1>1, <1>3, <2>1, <2>2, TransferredType
<1>8. rewardPool' \in [CaseIds -> Nat]
  BY <1>3 DEF TypeOK, CouncilTypeOK
<1> QED BY <1>2, <1>4, <1>5, <1>6, <1>7, <1>8 DEF b, pk, dk

\* An undisputed request: the proposer's bond is released in full.
LEMMA UndisputedStep ==
    ASSUME TypeOK, NEW r \in RequestIds, request[r].market \in Markets,
           request[r].proposer \in Users, finalize_undisputed(r)
    PROVE  /\ BondTypeOK'
           /\ tok' \in [Accounts -> Int]
           /\ bond'[ProposalKey(r)].amount = bond[ProposalKey(r)].amount - RequestBond(r)
           /\ \A j \in BondKeys : j # ProposalKey(r) => bond'[j] = bond[j]
           /\ \A j \in BondKeys : bond'[j].exists = bond[j].exists /\ bond'[j].market = bond[j].market
<1> DEFINE b  == RequestBond(r)
           pk == ProposalKey(r)
<1>1. b \in Nat /\ b \in Int
  BY RegistryAssumption DEF RequestBond, RegistryAssumption
<1>2. pk \in BondKeys /\ pk[3] \in BOOLEAN
  BY DEF ProposalKey, BondKeys
<1>3. /\ CanPay(bond, pk, b)
      /\ bond' = Paid(bond, pk, b)
      /\ bondTotal' = Debited(bondTotal, pk, b)
      /\ tok' = Transferred(tok, "vault", request[r].proposer, b)
      /\ split' = split
  BY DEF finalize_undisputed, ProposalKey
<1> HIDE DEF b, pk
<1>4. /\ bond' \in [BondKeys -> BondRecord]
      /\ bond'[pk].amount = bond[pk].amount - b
      /\ \A j \in BondKeys : j # pk => bond'[j] = bond[j]
      /\ \A j \in BondKeys : bond'[j].exists = bond[j].exists /\ bond'[j].market = bond[j].market
  BY <1>1, <1>2, <1>3, PaidBond DEF TypeOK, BondTypeOK
<1>5. bondTotal' \in [Markets -> [BOOLEAN -> Int]]
  BY <1>1, <1>2, <1>3, DebitedType DEF TypeOK, BondTypeOK
<1>6. tok' \in [Accounts -> Int]
  <2>1. request[r].proposer \in Accounts /\ "vault" \in Accounts /\ tok \in [Accounts -> Int]
    BY DEF Accounts, TypeOK
  <2> QED BY <1>1, <1>3, <2>1, TransferredType
<1>7. split' \in Splits
  BY <1>3 DEF TypeOK, BondTypeOK
<1> QED BY <1>4, <1>5, <1>6, <1>7 DEF b, pk, BondTypeOK

-----------------------------------------------------------------------------
(* Every action keeps TInv.  TInv splits into what each contract stores.   *)

\* Storage that an action leaves alone stays well-formed.
LEMMA Frames ==
    ASSUME TInv
    PROVE  /\ UNCHANGED registryVars => RegistryTypeOK'
           /\ UNCHANGED vaultVars => BondTypeOK'
           /\ UNCHANGED councilVars => CouncilTypeOK' /\ CaseShape'
           /\ UNCHANGED oracleVars => OracleTypeOK' /\ RequestShape'
           /\ UNCHANGED now => now' \in Nat
           /\ UNCHANGED tok => tok' \in [Accounts -> Int]
<1> USE DEF TInv, TypeOK
<1>1. UNCHANGED registryVars => RegistryTypeOK'
  BY DEF registryVars, RegistryTypeOK
<1>2. UNCHANGED vaultVars => BondTypeOK'
  BY DEF vaultVars, BondTypeOK
<1>3. ASSUME UNCHANGED councilVars PROVE CouncilTypeOK'
  BY <1>3, Zenon DEF councilVars, ballotVars, CouncilTypeOK
<1>4. ASSUME UNCHANGED councilVars PROVE CaseShape'
  BY <1>4 DEF councilVars, CaseShape
<1>5. ASSUME UNCHANGED oracleVars PROVE OracleTypeOK'
  BY <1>5, Zenon DEF oracleVars, OracleTypeOK
<1>6. ASSUME UNCHANGED oracleVars PROVE RequestShape'
  BY <1>6 DEF oracleVars, RequestShape
<1> QED BY <1>1, <1>2, <1>3, <1>4, <1>5, <1>6

\* The registry's own transactions.
LEMMA RegistryActions ==
    ASSUME TInv, NEW m \in Markets, NEW s \in MarketStatuses,
           CreateMarket(m) \/ CloseTrading(m) \/ SetStatus(m, s)
    PROVE  TInv'
<1>1. RegistryTypeOK
  BY DEF TInv, TypeOK
<1>2. RegistryTypeOK'
  <2>1. CASE CreateMarket(m)
    BY <1>1, <2>1 DEF CreateMarket, create_market, RegistryTypeOK, MarketRecord, MarketStatuses
  <2>2. CASE CloseTrading(m)
    <3>1. "TradingClosed" \in MarketStatuses
      BY DEF MarketStatuses
    <3> QED BY <1>1, <2>2, <3>1, RegistryStep DEF CloseTrading, close_trading
  <2>3. CASE SetStatus(m, s)
    BY <1>1, <2>3, RegistryStep DEF SetStatus, set_status
  <2> QED BY <2>1, <2>2, <2>3
<1>3. UNCHANGED <<now, tok, vaultVars, councilVars, oracleVars>>
  BY DEF CreateMarket, CloseTrading, SetStatus, OthersThanRegistry
<1> QED BY <1>2, <1>3, Frames DEF TInv, TypeOK

\* The vault's and the fee manager's own transactions.
LEMMA VaultActions ==
    ASSUME TInv,
           \/ \E u \in Users, r \in RequestIds, m \in Markets, a \in DirectAmounts, d \in BOOLEAN :
                 LockBond(u, r, m, a, d)
           \/ \E s \in Splits : SetBondSplit(s)
    PROVE  TInv'
<1>1. ASSUME NEW u \in Users, NEW r \in RequestIds, NEW m \in Markets, NEW a \in DirectAmounts,
             NEW d \in BOOLEAN, LockBond(u, r, m, a, d)
      PROVE  TInv'
  <2>1. a \in Nat
    BY ResolutionAssumption DEF ResolutionAssumption
  <2>2. BondTypeOK' /\ tok' \in [Accounts -> Int]
    BY <1>1, <2>1, LockStep DEF LockBond, TInv
  <2>3. UNCHANGED <<now, registryVars, councilVars, oracleVars>>
    BY <1>1 DEF LockBond
  <2> QED BY <2>2, <2>3, Frames DEF TInv, TypeOK
<1>2. ASSUME NEW s \in Splits, SetBondSplit(s)
      PROVE  TInv'
  <2>1. BondTypeOK'
    BY <1>2 DEF SetBondSplit, set_bond_split, BondTypeOK, TInv, TypeOK
  <2>2. UNCHANGED <<now, tok, registryVars, councilVars, oracleVars>>
    BY <1>2 DEF SetBondSplit
  <2> QED BY <2>1, <2>2, Frames DEF TInv, TypeOK
<1> QED BY <1>1, <1>2

\* One request is rewritten: the rest of the oracle's storage is as before.
LEMMA RequestRewritten ==
    ASSUME TInv, NEW r \in RequestIds, NEW q \in RequestRecord,
           request' = [request EXCEPT ![r] = q],
           UNCHANGED <<marketRequest, nextRequestId, oraclePaused>>,
           request[r].status # "None",
           q.status # "None",
           q.market \in Markets,
           q.proposer \in Users \/ q.status = "Requested",
           q.has_dispute => q.disputer \in Users,
           q.status \in {"Disputed", "Escalated"} => q.has_dispute,
           q.status \in {"Requested", "Proposed"} => ~q.has_dispute
    PROVE  OracleTypeOK' /\ RequestShape'
<1>1. request \in [RequestIds -> RequestRecord]
  BY DEF TInv, TypeOK, OracleTypeOK
<1>2. request' \in [RequestIds -> RequestRecord] /\ request'[r] = q
      /\ \A n \in RequestIds : n # r => request'[n] = request[n]
  BY <1>1
<1>3. oraclePaused' \in BOOLEAN
  BY Zenon DEF TInv, TypeOK, OracleTypeOK
<1>4. marketRequest' \in [Markets -> RequestIds \cup {0}] /\ nextRequestId' \in Nat \ {0}
  BY DEF TInv, TypeOK, OracleTypeOK
<1>5. RequestShape'
  <2> SUFFICES ASSUME NEW n \in RequestIds
               PROVE  /\ n >= nextRequestId' => request'[n].status = "None"
                      /\ request'[n].status # "None" => request'[n].market \in Markets
                      /\ request'[n].status \in {"Proposed", "Disputed", "Escalated", "Finalized"}
                           => request'[n].proposer \in Users
                      /\ request'[n].has_dispute => request'[n].disputer \in Users
                      /\ request'[n].status \in {"Disputed", "Escalated"} => request'[n].has_dispute
                      /\ request'[n].status \in {"None", "Requested", "Proposed"}
                           => ~request'[n].has_dispute
    BY DEF RequestShape
  <2>1. CASE n = r
    BY <1>2, <2>1 DEF TInv, RequestShape
  <2>2. CASE n # r
    BY <1>2, <2>2 DEF TInv, RequestShape
  <2> QED BY <2>1, <2>2
<1> QED BY <1>2, <1>3, <1>4, <1>5 DEF OracleTypeOK

\* request_resolution: a fresh request for a market that has none.
LEMMA RequestAction ==
    ASSUME TInv, NEW m \in Markets, RequestResolution(m)
    PROVE  TInv'
<1> DEFINE r == nextRequestId
           q == [NoRequest EXCEPT !.status = "Requested", !.market = m]
<1>1. /\ r \in RequestIds
      /\ request' = [request EXCEPT ![r] = q]
      /\ marketRequest' = [marketRequest EXCEPT ![m] = r]
      /\ nextRequestId' = r + 1
      /\ oraclePaused' = oraclePaused
      /\ UNCHANGED <<vaultVars, councilVars, tok, now>>
      /\ close_and_mark_requested(m, r)
  BY DEF RequestResolution, request_resolution
<1>2. q \in RequestRecord
  BY EmptyRecords DEF RequestRecord, NoRequest, OracleStatuses
<1>3. RegistryTypeOK'
  <2>1. market[m] \in MarketRecord /\ r \in Nat /\ "ResolutionRequested" \in MarketStatuses
    BY DEF TInv, TypeOK, RegistryTypeOK, OracleTypeOK, MarketStatuses
  <2>2. [market[m] EXCEPT !.status = "ResolutionRequested", !.has_request = TRUE,
                          !.request_id = r] \in MarketRecord
    BY <2>1 DEF MarketRecord
  <2>3. market' = [market EXCEPT ![m] = [market[m] EXCEPT !.status = "ResolutionRequested",
                                                          !.has_request = TRUE,
                                                          !.request_id = r]]
        /\ nextMarketId' = nextMarketId
    BY <1>1 DEF close_and_mark_requested
  <2> HIDE DEF r
  <2> QED BY <2>2, <2>3 DEF RegistryTypeOK, TInv, TypeOK
<1>4. OracleTypeOK'
  <2>1. oraclePaused' \in BOOLEAN
    BY <1>1, Zenon DEF TInv, TypeOK, OracleTypeOK
  <2>2. /\ request' \in [RequestIds -> RequestRecord]
        /\ marketRequest' \in [Markets -> RequestIds \cup {0}]
        /\ nextRequestId' \in Nat \ {0}
    BY <1>1, <1>2 DEF TInv, TypeOK, OracleTypeOK
  <2> QED BY <2>1, <2>2 DEF OracleTypeOK
<1>5. RequestShape'
  <2>1. request'[r] = q /\ \A n \in RequestIds : n # r => request'[n] = request[n]
    BY <1>1 DEF TInv, TypeOK, OracleTypeOK
  <2>2. /\ q.status = "Requested" /\ q.market = m /\ q.has_dispute = FALSE
        /\ r \in Nat
    BY DEF NoRequest, TInv, TypeOK, OracleTypeOK
  <2> HIDE DEF q
  <2>3. \A n \in RequestIds : n >= nextRequestId' => n >= r /\ n # r
    BY <1>1, <2>2 DEF RequestIds
  <2> QED BY <1>1, <2>1, <2>2, <2>3 DEF RequestShape, TInv
<1> QED BY <1>1, <1>3, <1>4, <1>5, Frames DEF TInv, TypeOK

\* propose_outcome and dispute_outcome: the bond is locked with the write.
LEMMA ProposalActions ==
    ASSUME TInv, NEW u \in Users, NEW r \in RequestIds, NEW o \in Outcomes,
           ProposeOutcome(u, r, o) \/ DisputeOutcome(u, r, o)
    PROVE  TInv'
<1>1. TypeOK /\ RegistryTypeOK /\ request[r] \in RequestRecord
      /\ request \in [RequestIds -> RequestRecord] /\ now \in Nat
  BY DEF TInv, TypeOK, OracleTypeOK
<1>2. request[r].market \in Markets /\ request[r].status # "None"
  BY DEF TInv, RequestShape, ProposeOutcome, DisputeOutcome, dispute_outcome
<1>3. RequestBond(r) \in Nat
  BY <1>2, RegistryAssumption DEF RegistryAssumption, RequestBond
<1>4. CASE ProposeOutcome(u, r, o)
  <2> DEFINE q == [request[r] EXCEPT !.status = "Proposed", !.has_proposal = TRUE,
                                     !.proposer = u, !.proposed_outcome = o,
                                     !.proposed_at = now]
  <2>1. /\ request[r].status = "Requested"
        /\ lock_bond(u, r, request[r].market, RequestBond(r), FALSE)
        /\ transition_internal(request[r].market, "Proposed")
        /\ UNCHANGED <<marketRequest, nextRequestId, oraclePaused, councilVars, now>>
    BY <1>4 DEF ProposeOutcome, propose_outcome, mark_proposed
  <2>2. request' = [request EXCEPT ![r] = q]
    BY <1>4 DEF ProposeOutcome, propose_outcome
  <2>3. BondTypeOK' /\ tok' \in [Accounts -> Int]
    BY <1>1, <1>2, <1>3, <2>1, LockStep
  <2>4. RegistryTypeOK'
    <3>1. "Proposed" \in MarketStatuses
      BY DEF MarketStatuses
    <3> QED BY <1>1, <1>2, <2>1, <3>1, RegistryStep
  <2>5. q \in RequestRecord
    BY <1>1 DEF RequestRecord, OracleStatuses
  <2>6. q.status = "Proposed" /\ q.market \in Markets /\ q.proposer \in Users /\ ~q.has_dispute
    BY <1>1, <1>2, <2>1 DEF RequestRecord, TInv, RequestShape
  <2> HIDE DEF q
  <2>7. OracleTypeOK' /\ RequestShape'
    BY <1>2, <2>1, <2>2, <2>5, <2>6, RequestRewritten
  <2> QED BY <2>1, <2>3, <2>4, <2>7, Frames DEF TInv, TypeOK
<1>5. CASE DisputeOutcome(u, r, o)
  <2> DEFINE q == [request[r] EXCEPT !.status = "Disputed", !.has_dispute = TRUE,
                                     !.disputer = u, !.disputed_outcome = o]
  <2>1. /\ request[r].status = "Proposed"
        /\ lock_bond(u, r, request[r].market, RequestBond(r), TRUE)
        /\ transition_internal(request[r].market, "Disputed")
        /\ UNCHANGED <<marketRequest, nextRequestId, oraclePaused, councilVars, now>>
    BY <1>5 DEF DisputeOutcome, dispute_outcome, mark_disputed
  <2>2. request' = [request EXCEPT ![r] = q]
    BY <1>5 DEF DisputeOutcome, dispute_outcome
  <2>3. BondTypeOK' /\ tok' \in [Accounts -> Int]
    BY <1>1, <1>2, <1>3, <2>1, LockStep
  <2>4. RegistryTypeOK'
    <3>1. "Disputed" \in MarketStatuses
      BY DEF MarketStatuses
    <3> QED BY <1>1, <1>2, <2>1, <3>1, RegistryStep
  <2>5. q \in RequestRecord
    BY <1>1 DEF RequestRecord, OracleStatuses
  <2>6. /\ q.status = "Disputed" /\ q.market \in Markets /\ q.proposer \in Users
        /\ q.has_dispute /\ q.disputer \in Users
    BY <1>1, <1>2, <2>1 DEF RequestRecord, TInv, RequestShape
  <2> HIDE DEF q
  <2>7. OracleTypeOK' /\ RequestShape'
    BY <1>2, <2>1, <2>2, <2>5, <2>6, RequestRewritten
  <2> QED BY <2>1, <2>3, <2>4, <2>7, Frames DEF TInv, TypeOK
<1> QED BY <1>4, <1>5

\* A finalized request keeps its shape, by either path.
LEMMA FinalizedStep ==
    ASSUME TInv, NEW r \in RequestIds, NEW o \in Outcomes,
           request[r].status \in {"Proposed", "Escalated"},
           request' = Finalized(r, o),
           UNCHANGED <<marketRequest, nextRequestId, oraclePaused>>
    PROVE  OracleTypeOK' /\ RequestShape'
<1> DEFINE q == [request[r] EXCEPT !.status = "Finalized", !.has_final_outcome = TRUE,
                                   !.final_outcome = o]
<1>1. request[r] \in RequestRecord
  BY DEF TInv, TypeOK, OracleTypeOK
<1>2. request' = [request EXCEPT ![r] = q]
  BY DEF Finalized
<1>3. q \in RequestRecord
  BY <1>1 DEF RequestRecord, OracleStatuses
<1>4. /\ q.status = "Finalized" /\ q.market \in Markets /\ q.proposer \in Users
      /\ q.has_dispute => q.disputer \in Users
  BY <1>1 DEF RequestRecord, TInv, RequestShape
<1> HIDE DEF q
<1> QED BY <1>2, <1>3, <1>4, RequestRewritten

\* finalize_undisputed keeps TInv.
LEMMA UndisputedAction ==
    ASSUME TInv, NEW r \in RequestIds, FinalizeUndisputed(r)
    PROVE  TInv'
<1>1. /\ finalize_undisputed(r) /\ request[r].status = "Proposed"
      /\ set_final_outcome(request[r].market, request[r].proposed_outcome)
      /\ request' = Finalized(r, request[r].proposed_outcome)
      /\ UNCHANGED <<marketRequest, nextRequestId, oraclePaused, councilVars, now>>
  BY DEF FinalizeUndisputed, finalize_undisputed
<1>2. /\ request[r].market \in Markets /\ request[r].proposer \in Users
      /\ request[r].proposed_outcome \in Outcomes
  BY <1>1 DEF TInv, TypeOK, OracleTypeOK, RequestRecord, RequestShape
<1>3. BondTypeOK' /\ tok' \in [Accounts -> Int]
  BY <1>1, <1>2, UndisputedStep DEF TInv
<1>4. RegistryTypeOK'
  BY <1>1, <1>2, FinalOutcomeStep DEF TInv, TypeOK
<1>5. OracleTypeOK' /\ RequestShape'
  BY <1>1, <1>2, FinalizedStep
<1> QED BY <1>1, <1>3, <1>4, <1>5, Frames DEF TInv, TypeOK

\* escalate_to_council: a fresh case for a request that has none.
LEMMA EscalateAction ==
    ASSUME TInv, NEW r \in RequestIds, EscalateToCouncil(r)
    PROVE  TInv'
<1> DEFINE w == DisputeWindow[request[r].market]
           c == nextCaseId
           k == [NoCase EXCEPT !.status = "CommitPhase", !.request = r,
                               !.commit_end = now + w, !.reveal_end = now + w + w]
           q == [request[r] EXCEPT !.status = "Escalated"]
<1>1. /\ request[r].status = "Disputed" /\ requestCase[r] = 0
      /\ c \in CaseIds
      /\ kase' = [kase EXCEPT ![c] = k]
      /\ requestCase' = [requestCase EXCEPT ![r] = c]
      /\ nextCaseId' = c + 1
      /\ UNCHANGED <<member, councilPaused, commitment, revealed, claimed, rewardPool>>
      /\ transition_internal(request[r].market, "CouncilVoting")
      /\ UNCHANGED <<marketRequest, nextRequestId, oraclePaused, vaultVars, tok, now>>
  BY DEF EscalateToCouncil, escalate_to_council, open_case, mark_council_voting, ballotVars
<1>2. request' = [request EXCEPT ![r] = q]
  BY DEF EscalateToCouncil, escalate_to_council
<1>3. /\ request[r] \in RequestRecord /\ request[r].market \in Markets
      /\ request[r].proposer \in Users /\ request[r].disputer \in Users /\ request[r].has_dispute
      /\ now \in Nat /\ c \in Nat
  BY <1>1 DEF TInv, TypeOK, OracleTypeOK, CouncilTypeOK, RequestShape
<1>4. w \in Nat
  BY <1>3, RegistryAssumption DEF RegistryAssumption
<1>5. RegistryTypeOK'
  <2>1. "CouncilVoting" \in MarketStatuses
    BY DEF MarketStatuses
  <2> QED BY <1>1, <1>3, <2>1, RegistryStep DEF TInv, TypeOK
<1>6. OracleTypeOK' /\ RequestShape'
  <2>1. q \in RequestRecord
    BY <1>3 DEF RequestRecord, OracleStatuses
  <2>2. /\ q.status = "Escalated" /\ q.market \in Markets /\ q.proposer \in Users
        /\ q.has_dispute /\ q.disputer \in Users
    BY <1>3 DEF RequestRecord
  <2> HIDE DEF q
  <2> QED BY <1>1, <1>2, <2>1, <2>2, RequestRewritten
<1>7. k \in CaseRecord /\ k.status = "CommitPhase" /\ k.request = r /\ k.has_final_outcome = FALSE
  <2> HIDE DEF w
  <2>1. now + w \in Nat /\ now + w + w \in Nat /\ r \in Nat
    BY <1>3, <1>4 DEF RequestIds
  <2> QED BY <2>1, EmptyRecords DEF CaseRecord, NoCase
<1> HIDE DEF w, k, q
<1>8. CouncilTypeOK'
  <2>1. councilPaused' \in BOOLEAN
    BY <1>1, Zenon DEF TInv, TypeOK, CouncilTypeOK
  <2>2. kase' \in [CaseIds -> CaseRecord] /\ nextCaseId' \in Nat \ {0}
        /\ requestCase' \in [RequestIds -> CaseIds \cup {0}]
    BY <1>1, <1>3, <1>7 DEF TInv, TypeOK, CouncilTypeOK
  <2>3. /\ member' \subseteq Members
        /\ commitment' \in [CaseIds -> [Members -> Ballots]]
        /\ revealed' \in [CaseIds -> [Members -> Ballots]]
        /\ claimed' \in [CaseIds -> SUBSET Members]
        /\ rewardPool' \in [CaseIds -> Nat]
    BY <1>1 DEF TInv, TypeOK, CouncilTypeOK
  <2> QED BY <2>1, <2>2, <2>3 DEF CouncilTypeOK
<1>9. CaseShape'
  <2>1. /\ kase'[c] = k /\ \A n \in CaseIds : n # c => kase'[n] = kase[n]
        /\ requestCase'[r] = c /\ \A n \in RequestIds : n # r => requestCase'[n] = requestCase[n]
    BY <1>1 DEF TInv, TypeOK, CouncilTypeOK
  <2>2. \A n \in CaseIds : n >= nextCaseId' => n >= c /\ n # c
    BY <1>1, <1>3 DEF CaseIds
  <2>3. kase[c].status = "None" /\ c # 0
    BY <1>1, <1>3 DEF TInv, CaseShape, CaseIds
  <2>4. \A n \in CaseIds : n # c /\ kase[n].status # "None" => kase[n].request # r
    BY <1>1 DEF TInv, CaseShape, CaseIds
  <2>5. \A n \in RequestIds : n # r => requestCase[n] # c
    BY <2>3 DEF TInv, CaseShape
  <2>6. \A n \in RequestIds : requestCase[n] # 0 => requestCase[n] \in CaseIds
    BY DEF TInv, TypeOK, CouncilTypeOK
  <2> HIDE DEF c
  <2>7. ASSUME NEW n \in CaseIds
        PROVE  /\ n >= nextCaseId' => kase'[n].status = "None"
               /\ kase'[n].status = "None" => ~kase'[n].has_final_outcome
               /\ kase'[n].status # "None" => /\ kase'[n].request \in RequestIds
                                              /\ requestCase'[kase'[n].request] = n
    <3>1. CASE n = c
      BY <3>1, <1>7, <2>1, <2>2
    <3>2. CASE n # c
      BY <3>2, <2>1, <2>2, <2>4 DEF TInv, CaseShape, c
    <3> QED BY <3>1, <3>2
  <2>8. ASSUME NEW n \in RequestIds, requestCase'[n] # 0
        PROVE  /\ kase'[requestCase'[n]].status # "None"
               /\ kase'[requestCase'[n]].request = n
    <3>1. CASE n = r
      BY <3>1, <1>7, <2>1
    <3>2. CASE n # r
      BY <3>2, <2>1, <2>5, <2>6, <2>8 DEF TInv, CaseShape
    <3> QED BY <3>1, <3>2
  <2> QED BY <2>7, <2>8 DEF CaseShape
<1> QED BY <1>1, <1>5, <1>6, <1>8, <1>9, Frames DEF TInv, TypeOK

\* Votes, members, pauses and claims leave the shape of the cases alone.
LEMMA BallotActions ==
    ASSUME TInv, NEW v \in Members, NEW c \in CaseIds, NEW o \in Outcomes,
           CommitVote(v, c, o) \/ RevealVote(v, c, o)
    PROVE  TInv'
<1>1. UNCHANGED <<now, tok, registryVars, vaultVars, oracleVars, requestCase, nextCaseId, member,
                  councilPaused, claimed, rewardPool>>
  BY DEF CommitVote, RevealVote, commit_vote, reveal_vote, OthersThanCouncil
<1>2. /\ councilPaused' \in BOOLEAN
  BY <1>1, Zenon DEF TInv, TypeOK, CouncilTypeOK
<1>3. /\ requestCase' \in [RequestIds -> CaseIds \cup {0}] /\ nextCaseId' \in Nat \ {0}
      /\ member' \subseteq Members /\ claimed' \in [CaseIds -> SUBSET Members]
      /\ rewardPool' \in [CaseIds -> Nat]
  BY <1>1 DEF TInv, TypeOK, CouncilTypeOK
<1>4. /\ o \in Ballots
      /\ commitment \in [CaseIds -> [Members -> Ballots]]
      /\ revealed \in [CaseIds -> [Members -> Ballots]]
      /\ kase \in [CaseIds -> CaseRecord]
  BY DEF TInv, TypeOK, CouncilTypeOK, Ballots
<1>5. CASE CommitVote(v, c, o)
  <2>1. commitment' = [commitment EXCEPT ![c] = [commitment[c] EXCEPT ![v] = o]]
        /\ kase' = kase /\ revealed' = revealed
    BY <1>5 DEF CommitVote, commit_vote
  <2>2. commitment' \in [CaseIds -> [Members -> Ballots]]
    BY <1>4, <2>1
  <2>3. CouncilTypeOK'
    BY <1>2, <1>3, <1>4, <2>1, <2>2 DEF CouncilTypeOK
  <2>4. CaseShape'
    BY <1>1, <2>1 DEF TInv, CaseShape
  <2> QED BY <1>1, <2>3, <2>4, Frames DEF TInv, TypeOK
<1>6. CASE RevealVote(v, c, o)
  <2> DEFINE k == [kase[c] EXCEPT !.votes = [kase[c].votes EXCEPT ![o] = kase[c].votes[o] + 1]]
  <2>1. revealed' = [revealed EXCEPT ![c] = [revealed[c] EXCEPT ![v] = o]]
        /\ kase' = [kase EXCEPT ![c] = k] /\ commitment' = commitment
    BY <1>6 DEF RevealVote, reveal_vote
  <2>2. revealed' \in [CaseIds -> [Members -> Ballots]]
    BY <1>4, <2>1
  <2>3. /\ k \in CaseRecord /\ k.status = kase[c].status /\ k.request = kase[c].request
        /\ k.has_final_outcome = kase[c].has_final_outcome
    <3>1. kase[c].votes \in [Outcomes -> Nat] /\ kase[c] \in CaseRecord
      BY <1>4 DEF CaseRecord
    <3>2. [kase[c].votes EXCEPT ![o] = kase[c].votes[o] + 1] \in [Outcomes -> Nat]
      BY <3>1
    <3> QED BY <3>1, <3>2 DEF CaseRecord
  <2> HIDE DEF k
  <2>4. kase' \in [CaseIds -> CaseRecord] /\ kase'[c] = k
        /\ \A n \in CaseIds : n # c => kase'[n] = kase[n]
    BY <1>4, <2>1, <2>3
  <2>5. CouncilTypeOK'
    BY <1>2, <1>3, <1>4, <2>1, <2>2, <2>4 DEF CouncilTypeOK
  <2>6. \A n \in CaseIds : /\ kase'[n].status = kase[n].status
                           /\ kase'[n].request = kase[n].request
                           /\ kase'[n].has_final_outcome = kase[n].has_final_outcome
    BY <2>3, <2>4
  <2>7. \A n \in RequestIds : requestCase[n] # 0 => requestCase[n] \in CaseIds
    BY DEF TInv, TypeOK, CouncilTypeOK
  <2>8. CaseShape'
    BY <1>1, <2>6, <2>7 DEF TInv, CaseShape
  <2> QED BY <1>1, <2>5, <2>8, Frames DEF TInv, TypeOK
<1> QED BY <1>5, <1>6

\* finalize_case: what the two public entry points do to the council's storage.
LEMMA FinalizeCaseStep ==
    ASSUME TInv, NEW c \in CaseIds, finalize_case(c), rewardPool' \in [CaseIds -> Nat]
    PROVE  /\ CouncilTypeOK' /\ CaseShape'
           /\ kase[c].request \in RequestIds
           /\ Tally(kase[c].votes) \in Outcomes
<1> DEFINE t == Tally(kase[c].votes)
           k == [kase[c] EXCEPT !.has_final_outcome = TRUE, !.final_outcome = t,
                                !.status = "Finalized"]
<1>1. /\ kase[c].status # "None"
      /\ kase' = [kase EXCEPT ![c] = k]
      /\ UNCHANGED <<requestCase, nextCaseId, member, councilPaused, commitment, revealed, claimed>>
  BY DEF finalize_case, CanFinalize, ballotVars
<1>2. kase \in [CaseIds -> CaseRecord]
  BY DEF TInv, TypeOK, CouncilTypeOK
<1>3. t \in Outcomes
  BY DEF Tally, Outcomes
<1> HIDE DEF t
<1>4. k \in CaseRecord /\ k.status = "Finalized" /\ k.request = kase[c].request
  BY <1>2, <1>3 DEF CaseRecord
<1> HIDE DEF k
<1>5. kase' \in [CaseIds -> CaseRecord] /\ kase'[c] = k
      /\ \A n \in CaseIds : n # c => kase'[n] = kase[n]
  BY <1>1, <1>2, <1>4
<1>6. councilPaused' \in BOOLEAN
  BY <1>1, Zenon DEF TInv, TypeOK, CouncilTypeOK
<1>7. /\ requestCase' \in [RequestIds -> CaseIds \cup {0}] /\ nextCaseId' \in Nat \ {0}
      /\ member' \subseteq Members /\ claimed' \in [CaseIds -> SUBSET Members]
      /\ commitment' \in [CaseIds -> [Members -> Ballots]]
      /\ revealed' \in [CaseIds -> [Members -> Ballots]]
  BY <1>1 DEF TInv, TypeOK, CouncilTypeOK
<1>8. CouncilTypeOK'
  BY <1>5, <1>6, <1>7 DEF CouncilTypeOK
<1>9. /\ \A n \in CaseIds : kase'[n].request = kase[n].request
      /\ \A n \in CaseIds : kase'[n].status = "None" <=> kase[n].status = "None"
      /\ \A n \in CaseIds : kase'[n].status = "None" => kase'[n] = kase[n]
  BY <1>1, <1>4, <1>5
<1>10. \A n \in RequestIds : requestCase[n] # 0 => requestCase[n] \in CaseIds
  BY DEF TInv, TypeOK, CouncilTypeOK
<1>11. CaseShape'
  BY <1>1, <1>9, <1>10 DEF TInv, CaseShape
<1> QED BY <1>1, <1>3, <1>8, <1>11 DEF TInv, CaseShape, t

\* finalize_case called on its own: only the case changes.
LEMMA FinalizeCaseAction ==
    ASSUME TInv, NEW c \in CaseIds, FinalizeCase(c)
    PROVE  TInv'
<1>1. finalize_case(c) /\ UNCHANGED <<now, tok, registryVars, vaultVars, oracleVars, rewardPool>>
  BY DEF FinalizeCase, OthersThanCouncil
<1>2. rewardPool' \in [CaseIds -> Nat]
  BY <1>1 DEF TInv, TypeOK, CouncilTypeOK
<1> QED BY <1>1, <1>2, FinalizeCaseStep, Frames DEF TInv, TypeOK

\* finalize_and_report_case: the council's case, the bonds, the registry and
\* the request change in one transaction, whichever side the tally favours.
LEMMA ReportAction ==
    ASSUME TInv, NEW c \in CaseIds, FinalizeAndReportCase(c)
    PROVE  TInv'
<1> DEFINE r == kase[c].request
           o == Tally(kase[c].votes)
<1>1. /\ finalize_case(c) /\ kase[c].status # "None"
      /\ request[r].status = "Escalated"
      /\ \/ AwardTo(r, request[r].proposer, ProposalKey(r), DisputeKey(r))
         \/ AwardTo(r, request[r].disputer, DisputeKey(r), ProposalKey(r))
         \/ ReturnBoth(r)
      /\ set_final_outcome(request[r].market, o)
      /\ request' = Finalized(r, o)
      /\ UNCHANGED <<split, marketRequest, nextRequestId, oraclePaused, now>>
  BY DEF FinalizeAndReportCase, report_council_outcome, finalize_case, CanFinalize
<1>2. r \in RequestIds /\ o \in Outcomes
  <2>1. r \in RequestIds
    BY <1>1 DEF TInv, CaseShape
  <2> QED BY <2>1 DEF Tally, Outcomes
<1> HIDE DEF r, o
<1>3. /\ request[r].market \in Markets /\ request[r].proposer \in Users
      /\ request[r].disputer \in Users
  BY <1>1, <1>2 DEF TInv, RequestShape
<1>4. /\ ProposalKey(r) \in BondKeys /\ DisputeKey(r) \in BondKeys
      /\ ProposalKey(r) # DisputeKey(r)
      /\ ProposalKey(r)[3] \in BOOLEAN /\ DisputeKey(r)[3] \in BOOLEAN
  BY <1>2, <1>3 DEF ProposalKey, DisputeKey, BondKeys
<1>5. /\ bond' \in [BondKeys -> BondRecord] /\ bondTotal' \in [Markets -> [BOOLEAN -> Int]]
      /\ tok' \in [Accounts -> Int] /\ rewardPool' \in [CaseIds -> Nat]
  <2>1. CASE AwardTo(r, request[r].proposer, ProposalKey(r), DisputeKey(r))
    BY <1>2, <1>3, <1>4, <2>1, AwardStep DEF TInv
  <2>2. CASE AwardTo(r, request[r].disputer, DisputeKey(r), ProposalKey(r))
    BY <1>2, <1>3, <1>4, <2>2, AwardStep DEF TInv
  <2>3. CASE ReturnBoth(r)
    BY <1>2, <1>3, <2>3, ReturnStep DEF TInv
  <2> QED BY <1>1, <2>1, <2>2, <2>3
<1>6. BondTypeOK'
  BY <1>1, <1>5 DEF BondTypeOK, TInv, TypeOK
<1>7. CouncilTypeOK' /\ CaseShape'
  BY <1>1, <1>5, FinalizeCaseStep
<1>8. RegistryTypeOK'
  BY <1>1, <1>2, <1>3, FinalOutcomeStep DEF TInv, TypeOK
<1>9. OracleTypeOK' /\ RequestShape'
  BY <1>1, <1>2, FinalizedStep
<1> QED BY <1>1, <1>5, <1>6, <1>7, <1>8, <1>9, Frames DEF TInv, TypeOK

\* A case that has an outcome pays out without touching cases or requests.
LEMMA RewardActions ==
    ASSUME TInv, NEW c \in CaseIds,
           (\E v \in Members : ClaimReward(v, c)) \/ SweepCaseReward(c)
    PROVE  TInv'
<1>1. UNCHANGED <<now, registryVars, vaultVars, oracleVars, kase, requestCase, nextCaseId, member,
                  councilPaused, commitment, revealed>>
  BY DEF ClaimReward, claim_reward, SweepCaseReward, sweep_case_reward, OthersThanCouncil, ballotVars
<1>2. /\ tok \in [Accounts -> Int] /\ rewardPool \in [CaseIds -> Nat]
      /\ claimed \in [CaseIds -> SUBSET Members]
      /\ kase[c] \in CaseRecord
  BY DEF TInv, TypeOK, CouncilTypeOK
<1>3. Members \subseteq Accounts /\ "council" \in Accounts /\ "treasury" \in Accounts
  BY DEF Accounts
<1>4. RewardShare(c) \in Int
  <2> DEFINE n == kase[c].votes[kase[c].final_outcome]
             p == rewardPool[c]
  <2>1. n \in Nat /\ p \in Nat
    BY <1>2 DEF CaseRecord
  <2>2. RewardShare(c) = IF p > 0 /\ n > 0 THEN p \div n ELSE 0
    BY DEF RewardShare
  <2> HIDE DEF n, p
  <2> QED BY <2>1, <2>2
<1>5. tok' \in [Accounts -> Int] /\ rewardPool' \in [CaseIds -> Nat]
      /\ claimed' \in [CaseIds -> SUBSET Members]
  <2>1. CASE \E v \in Members : ClaimReward(v, c)
    <3> PICK v \in Members : ClaimReward(v, c)
      BY <2>1
    <3> DEFINE a == IF revealed[c][v] = kase[c].final_outcome THEN RewardShare(c) ELSE 0
    <3>1. /\ tok' = Transferred(tok, "council", v, a)
          /\ claimed' = [claimed EXCEPT ![c] = @ \cup {v}]
          /\ rewardPool' = rewardPool
      BY DEF ClaimReward, claim_reward
    <3>2. a \in Int
      BY <1>4
    <3> HIDE DEF a
    <3>3. tok' \in [Accounts -> Int]
      BY <1>2, <1>3, <3>1, <3>2, TransferredType
    <3> QED BY <1>2, <3>1, <3>3
  <2>2. CASE SweepCaseReward(c)
    <3>1. /\ tok' = Transferred(tok, "council", "treasury", rewardPool[c])
          /\ rewardPool' = [rewardPool EXCEPT ![c] = 0]
          /\ claimed' = claimed
      BY <2>2 DEF SweepCaseReward, sweep_case_reward
    <3>2. rewardPool[c] \in Int
      BY <1>2
    <3>3. tok' \in [Accounts -> Int]
      BY <1>2, <1>3, <3>1, <3>2, TransferredType
    <3> QED BY <1>2, <3>1, <3>3
  <2> QED BY <2>1, <2>2
<1>6. councilPaused' \in BOOLEAN
  BY <1>1, Zenon DEF TInv, TypeOK, CouncilTypeOK
<1>7. CouncilTypeOK'
  BY <1>1, <1>5, <1>6 DEF TInv, TypeOK, CouncilTypeOK
<1>8. CaseShape'
  BY <1>1 DEF TInv, CaseShape
<1> QED BY <1>1, <1>5, <1>7, <1>8, Frames DEF TInv, TypeOK

\* Governance on members and pauses, and the clock.
LEMMA AdminActions ==
    ASSUME TInv, NEW b \in BOOLEAN,
           (\E v \in Members : SetMember(v, b)) \/ PauseOracle(b) \/ PauseCouncil(b) \/ Tick
    PROVE  TInv'
<1>1. ASSUME NEW v \in Members, SetMember(v, b)
      PROVE  TInv'
  <2>1. UNCHANGED <<now, tok, registryVars, vaultVars, oracleVars, kase, requestCase, nextCaseId,
                    councilPaused, commitment, revealed, claimed, rewardPool>>
        /\ member' = IF b THEN member \cup {v} ELSE member \ {v}
    BY <1>1 DEF SetMember, set_member, OthersThanCouncil, ballotVars
  <2>2. councilPaused' \in BOOLEAN
    BY <2>1, Zenon DEF TInv, TypeOK, CouncilTypeOK
  <2>3. member' \subseteq Members
    BY <2>1 DEF TInv, TypeOK, CouncilTypeOK
  <2>4. CouncilTypeOK'
    BY <2>1, <2>2, <2>3 DEF TInv, TypeOK, CouncilTypeOK
  <2>5. CaseShape'
    BY <2>1 DEF TInv, CaseShape
  <2> QED BY <2>1, <2>4, <2>5, Frames DEF TInv, TypeOK
<1>2. CASE PauseCouncil(b)
  <2>1. UNCHANGED <<now, tok, registryVars, vaultVars, oracleVars, kase, requestCase, nextCaseId,
                    member, commitment, revealed, claimed, rewardPool>>
    BY <1>2 DEF PauseCouncil, pause_council, OthersThanCouncil, ballotVars
  <2>2. councilPaused' \in BOOLEAN
    BY <1>2, Zenon DEF PauseCouncil, pause_council
  <2>3. CouncilTypeOK'
    BY <2>1, <2>2 DEF TInv, TypeOK, CouncilTypeOK
  <2>4. CaseShape'
    BY <2>1 DEF TInv, CaseShape
  <2> QED BY <2>1, <2>3, <2>4, Frames DEF TInv, TypeOK
<1>3. CASE PauseOracle(b)
  <2>1. UNCHANGED <<now, tok, registryVars, vaultVars, councilVars, request, marketRequest,
                    nextRequestId>>
    BY <1>3 DEF PauseOracle, pause_oracle
  <2>2. oraclePaused' \in BOOLEAN
    BY <1>3, Zenon DEF PauseOracle, pause_oracle
  <2>3. OracleTypeOK'
    BY <2>1, <2>2 DEF TInv, TypeOK, OracleTypeOK
  <2>4. RequestShape'
    BY <2>1 DEF TInv, RequestShape
  <2> QED BY <2>1, <2>3, <2>4, Frames DEF TInv, TypeOK
<1>4. CASE Tick
  <2>1. now' \in Nat
    BY <1>4 DEF Tick, TInv, TypeOK
  <2>2. UNCHANGED <<tok, registryVars, vaultVars, councilVars, oracleVars>>
    BY <1>4 DEF Tick
  <2> QED BY <2>1, <2>2, Frames DEF TInv, TypeOK
<1> QED BY <1>1, <1>2, <1>3, <1>4

\* TInv is inductive: every step, and every stuttering step, keeps it.
LEMMA StepTInv == TInv /\ [Next]_vars => TInv'
<1> SUFFICES ASSUME TInv, [Next]_vars PROVE TInv'
  OBVIOUS
<1>1. ASSUME NEW m \in Markets, CreateMarket(m) \/ CloseTrading(m) \/ RequestResolution(m)
      PROVE  TInv'
  <2>1. "Live" \in MarketStatuses
    BY DEF MarketStatuses
  <2> QED BY <1>1, <2>1, RegistryActions, RequestAction
<1>2. ASSUME NEW m \in Markets, NEW s \in MarketStatuses, SetStatus(m, s)
      PROVE  TInv'
  BY <1>2, RegistryActions
<1>3. CASE \/ \E u \in Users, r \in RequestIds, m \in Markets, a \in DirectAmounts, d \in BOOLEAN :
                LockBond(u, r, m, a, d)
           \/ \E s \in Splits : SetBondSplit(s)
  BY <1>3, VaultActions
<1>4. ASSUME NEW u \in Users, NEW r \in RequestIds, NEW o \in Outcomes,
             ProposeOutcome(u, r, o) \/ DisputeOutcome(u, r, o)
      PROVE  TInv'
  BY <1>4, ProposalActions
<1>5. ASSUME NEW r \in RequestIds, FinalizeUndisputed(r) \/ EscalateToCouncil(r)
      PROVE  TInv'
  BY <1>5, UndisputedAction, EscalateAction
<1>6. ASSUME NEW v \in Members, NEW c \in CaseIds, NEW o \in Outcomes,
             CommitVote(v, c, o) \/ RevealVote(v, c, o)
      PROVE  TInv'
  BY <1>6, BallotActions
<1>7. ASSUME NEW c \in CaseIds, FinalizeCase(c) \/ FinalizeAndReportCase(c)
      PROVE  TInv'
  BY <1>7, FinalizeCaseAction, ReportAction
<1>8. ASSUME NEW c \in CaseIds, (\E v \in Members : ClaimReward(v, c)) \/ SweepCaseReward(c)
      PROVE  TInv'
  BY <1>8, RewardActions
<1>9. ASSUME NEW b \in BOOLEAN,
             (\E v \in Members : SetMember(v, b)) \/ PauseOracle(b) \/ PauseCouncil(b)
      PROVE  TInv'
  BY <1>9, AdminActions
<1>10. CASE Tick
  <2>1. TRUE \in BOOLEAN
    OBVIOUS
  <2> QED BY <1>10, <2>1, AdminActions
<1>11. CASE UNCHANGED vars
  BY <1>11, Frames DEF vars, TInv, TypeOK
<1> QED BY <1>1, <1>2, <1>3, <1>4, <1>5, <1>6, <1>7, <1>8, <1>9, <1>10, <1>11 DEF Next

\* Type correctness for every instance: whatever the markets, windows, bonds,
\* splits and council, the storage of the five contracts stays well-formed.
\* The strengthening is that ids are handed out once (RequestShape, CaseShape)
\* and that the shares of a losing bond never exceed it (SplitUsesBond).
THEOREM TypeCorrect == Spec => []TypeOK
<1>1. Init => TInv
  BY InitTInv
<1>2. TInv /\ [Next]_vars => TInv'
  BY StepTInv
<1>3. TInv => TypeOK
  BY DEF TInv
<1> QED BY <1>1, <1>2, <1>3, PTL DEF Spec

-----------------------------------------------------------------------------
(* The registry and the oracle agree.                                      *)

\* Governance that only steers markets nobody has asked to resolve: what
\* set_status is for when the oracle is left to do its work.
OperationalGovernance ==
    \A t \in GovTransitions : t[1] \in {"Created", "Live", "Paused"}

\* A market id is fresh until the factory hands it out; a request is the one
\* its market points to; and only a finalized request has an outcome.
PhaseInv ==
    /\ PhaseAgreement
    /\ \A m \in Markets : m >= nextMarketId => market[m].status = "None"
    /\ \A r \in RequestIds : request[r].status # "None" => marketRequest[request[r].market] = r

\* The phases that go with a request are none of those before it.
LEMMA PhaseValues ==
    /\ RegistryPhase["Requested"] = "ResolutionRequested"
    /\ RegistryPhase["Proposed"] = "Proposed"
    /\ RegistryPhase["Disputed"] = "Disputed"
    /\ RegistryPhase["Escalated"] = "CouncilVoting"
    /\ RegistryPhase["Finalized"] = "Resolved"
    /\ \A s \in OracleStatuses : s # "None" =>
         RegistryPhase[s] \notin {"None", "Created", "Live", "Paused", "TradingClosed", "Cancelled"}
<1>1. /\ RegistryPhase["Requested"] = "ResolutionRequested"
      /\ RegistryPhase["Proposed"] = "Proposed"
      /\ RegistryPhase["Disputed"] = "Disputed"
      /\ RegistryPhase["Escalated"] = "CouncilVoting"
      /\ RegistryPhase["Finalized"] = "Resolved"
  BY DEF RegistryPhase
<1> QED BY <1>1 DEF OracleStatuses

\* Before a request, a market has no phase of the oracle's, and the converse.
LEMMA NoRequestYet ==
    ASSUME TInv, PhaseInv, NEW m \in Markets,
           market[m].status \in {"None", "Created", "Live", "Paused", "TradingClosed", "Cancelled"}
    PROVE  marketRequest[m] = 0
<1>1. marketRequest[m] \in RequestIds \cup {0}
  BY DEF TInv, TypeOK, OracleTypeOK
<1>2. ASSUME marketRequest[m] # 0 PROVE FALSE
  <2> DEFINE s == request[marketRequest[m]].status
  <2>1. s \in OracleStatuses /\ s # "None" /\ market[m].status = RegistryPhase[s]
    BY <1>1, <1>2 DEF TInv, TypeOK, OracleTypeOK, RequestRecord, PhaseInv, PhaseAgreement, AgreesAt
  <2> QED BY <2>1, PhaseValues
<1> QED BY <1>2

\* No market and no request exists at first.
LEMMA InitPhase == Init => PhaseInv
BY DEF Init, RegistryInit, OracleInit, NoMarket, NoRequest, PhaseInv, PhaseAgreement, AgreesAt

\* Transactions of the registry alone happen before there is a request.
LEMMA RegistryKeepsPhase ==
    ASSUME TInv, PhaseInv, OperationalGovernance,
           NEW m \in Markets, NEW s \in MarketStatuses,
           CreateMarket(m) \/ CloseTrading(m) \/ SetStatus(m, s)
    PROVE  PhaseInv'
<1>1. UNCHANGED <<request, marketRequest>>
  BY DEF CreateMarket, CloseTrading, SetStatus, OthersThanRegistry, oracleVars
<1>2. market[m] \in MarketRecord /\ nextMarketId \in Nat
  BY DEF TInv, TypeOK, RegistryTypeOK
<1>3. /\ market[m].status \in {"None", "Created", "Live", "Paused"}
      /\ market'[m].status \in {"Live", "Paused", "TradingClosed", "Cancelled"}
      /\ \A n \in Markets : n # m => market'[n] = market[n]
      /\ nextMarketId' >= nextMarketId
      /\ market[m].status = "None" => m = nextMarketId /\ nextMarketId' = m + 1
  <2>1. CASE CreateMarket(m)
    <3>1. m = nextMarketId /\ nextMarketId' = nextMarketId + 1
          /\ market' = [market EXCEPT ![m] = [market[m] EXCEPT !.status = "Live"]]
      BY <2>1 DEF CreateMarket, create_market
    <3>2. market[m].status = "None"
      BY <1>2, <3>1 DEF PhaseInv
    <3>3. [market[m] EXCEPT !.status = "Live"].status = "Live"
      BY <1>2 DEF MarketRecord
    <3> QED BY <1>2, <3>1, <3>2, <3>3 DEF TInv, TypeOK, RegistryTypeOK
  <2>2. CASE CloseTrading(m)
    <3>1. transition_internal(m, "TradingClosed") /\ "TradingClosed" \in MarketStatuses
      BY <2>2 DEF CloseTrading, close_trading, MarketStatuses
    <3>2. /\ market'[m] = [market[m] EXCEPT !.status = "TradingClosed"]
          /\ \A n \in Markets : n # m => market'[n] = market[n]
          /\ valid_transition(market[m].status, "TradingClosed")
      BY <3>1, RegistryStep DEF TInv, TypeOK
    <3>3. nextMarketId' = nextMarketId
      BY <3>1 DEF transition_internal
    <3> QED BY <1>2, <3>2, <3>3 DEF valid_transition, MarketRecord
  <2>3. CASE SetStatus(m, s)
    <3>1. transition_internal(m, s) /\ <<market[m].status, s>> \in GovTransitions
      BY <2>3 DEF SetStatus, set_status
    <3>2. /\ market'[m] = [market[m] EXCEPT !.status = s]
          /\ \A n \in Markets : n # m => market'[n] = market[n]
          /\ valid_transition(market[m].status, s)
      BY <3>1, RegistryStep DEF TInv, TypeOK
    <3>3. nextMarketId' = nextMarketId
      BY <3>1 DEF transition_internal
    <3>4. market[m].status \in {"Created", "Live", "Paused"}
      BY <3>1 DEF OperationalGovernance
    <3> QED BY <1>2, <3>2, <3>3, <3>4 DEF valid_transition, MarketRecord
  <2> QED BY <2>1, <2>2, <2>3
<1>4. marketRequest[m] = 0
  BY <1>3, NoRequestYet
<1>5. PhaseAgreement'
  <2> SUFFICES ASSUME NEW n \in Markets PROVE AgreesAt(n)'
    BY DEF PhaseAgreement
  <2>1. CASE n = m
    BY <1>1, <1>3, <1>4, <2>1 DEF AgreesAt
  <2>2. CASE n # m
    BY <1>1, <1>3, <2>2 DEF AgreesAt, PhaseInv, PhaseAgreement
  <2> QED BY <2>1, <2>2
<1>6. ASSUME NEW n \in Markets, n >= nextMarketId' PROVE market'[n].status = "None"
  <2>1. n \in Nat /\ m \in Nat /\ nextMarketId' \in Nat
    BY RegistryActions DEF TInv, TypeOK, RegistryTypeOK, Markets
  <2>2. n >= nextMarketId
    BY <1>2, <1>3, <1>6, <2>1
  <2>3. n # m
    BY <1>2, <1>3, <1>6, <2>1, <2>2 DEF PhaseInv
  <2> QED BY <1>3, <2>2, <2>3 DEF PhaseInv
<1> QED BY <1>1, <1>5, <1>6 DEF PhaseInv

\* A request and its market move to corresponding phases in one transaction.
LEMMA MovedTogether ==
    ASSUME TInv, TInv', PhaseInv, NEW r \in RequestIds, NEW m \in Markets,
           m = request[r].market, request[r].status # "None",
           request'[r].market = m, request'[r].status # "None",
           \A n \in RequestIds : n # r => request'[n] = request[n],
           \A n \in Markets : n # m => market'[n] = market[n],
           UNCHANGED <<marketRequest, nextMarketId>>,
           market'[m].has_request = market[m].has_request,
           market'[m].request_id = market[m].request_id,
           market'[m].status = RegistryPhase[request'[r].status],
           market'[m].status = "Resolved" =>
             market'[m].has_final_outcome /\ market'[m].final_outcome = request'[r].final_outcome
    PROVE  PhaseInv'
<1>1. marketRequest[m] = r /\ r # 0
  BY DEF PhaseInv, RequestIds
<1>2. \A n \in Markets : n # m => marketRequest[n] # r
  BY DEF PhaseInv, PhaseAgreement, AgreesAt, RequestIds
<1>3. \A n \in Markets : marketRequest[n] # 0 => marketRequest[n] \in RequestIds
  BY DEF TInv, TypeOK, OracleTypeOK
<1>4. PhaseAgreement'
  <2> SUFFICES ASSUME NEW n \in Markets PROVE AgreesAt(n)'
    BY DEF PhaseAgreement
  <2>1. CASE n = m
    BY <1>1, <2>1 DEF AgreesAt, PhaseInv, PhaseAgreement
  <2>2. CASE n # m
    <3>1. marketRequest[n] # 0 => request'[marketRequest[n]] = request[marketRequest[n]]
      BY <1>2, <1>3, <2>2
    <3> QED BY <3>1, <2>2 DEF AgreesAt, PhaseInv, PhaseAgreement
  <2> QED BY <2>1, <2>2
<1>5. market[m].status # "None"
  <2>1. market[m].status = RegistryPhase[request[r].status] /\ request[r].status \in OracleStatuses
    BY <1>1 DEF PhaseInv, PhaseAgreement, AgreesAt, TInv, TypeOK, OracleTypeOK, RequestRecord
  <2> QED BY <2>1, PhaseValues
<1>6. \A n \in Markets : n >= nextMarketId' => market'[n].status = "None"
  BY <1>5 DEF PhaseInv
<1>7. \A n \in RequestIds : request'[n].status # "None" => marketRequest'[request'[n].market] = n
  BY <1>1 DEF PhaseInv
<1> QED BY <1>4, <1>6, <1>7 DEF PhaseInv

\* request_resolution ties a fresh request to its market on both sides.
LEMMA RequestKeepsPhase ==
    ASSUME TInv, PhaseInv, NEW m \in Markets, RequestResolution(m)
    PROVE  PhaseInv'
<1> DEFINE r == nextRequestId
           q == [NoRequest EXCEPT !.status = "Requested", !.market = m]
           k == [market[m] EXCEPT !.status = "ResolutionRequested", !.has_request = TRUE,
                                  !.request_id = r]
<1>1. /\ r \in RequestIds
      /\ request' = [request EXCEPT ![r] = q]
      /\ marketRequest' = [marketRequest EXCEPT ![m] = r]
      /\ market' = [market EXCEPT ![m] = k]
      /\ nextMarketId' = nextMarketId
      /\ market[m].status \in {"Live", "TradingClosed"}
  BY DEF RequestResolution, request_resolution, close_and_mark_requested
<1>2. q.status = "Requested" /\ q.market = m
  BY DEF NoRequest
<1>3. k.status = "ResolutionRequested" /\ k.has_request = TRUE /\ k.request_id = r
  BY DEF TInv, TypeOK, RegistryTypeOK, MarketRecord
<1>4. r # 0 /\ request[r].status = "None"
  BY <1>1 DEF RequestIds, TInv, TypeOK, OracleTypeOK, RequestShape
<1> HIDE DEF r, q, k
<1>5. /\ request'[r] = q /\ \A n \in RequestIds : n # r => request'[n] = request[n]
      /\ market'[m] = k /\ \A n \in Markets : n # m => market'[n] = market[n]
      /\ marketRequest'[m] = r /\ \A n \in Markets : n # m => marketRequest'[n] = marketRequest[n]
  BY <1>1 DEF TInv, TypeOK, OracleTypeOK, RegistryTypeOK
<1>6. \A n \in Markets : marketRequest[n] # 0 => marketRequest[n] \in RequestIds \ {r}
  BY <1>4 DEF TInv, TypeOK, OracleTypeOK, PhaseInv, PhaseAgreement, AgreesAt
<1>7. PhaseAgreement'
  <2> SUFFICES ASSUME NEW n \in Markets PROVE AgreesAt(n)'
    BY DEF PhaseAgreement
  <2>1. CASE n = m
    BY <1>2, <1>3, <1>4, <1>5, <2>1, PhaseValues DEF AgreesAt
  <2>2. CASE n # m
    BY <1>5, <1>6, <2>2 DEF AgreesAt, PhaseInv, PhaseAgreement
  <2> QED BY <2>1, <2>2
<1>8. \A n \in Markets : n >= nextMarketId' => market'[n].status = "None"
  BY <1>1, <1>5 DEF PhaseInv
<1>9. \A n \in RequestIds : request'[n].status # "None" => marketRequest'[request'[n].market] = n
  <2>1. marketRequest[m] = 0
    BY <1>1, NoRequestYet
  <2>2. \A n \in RequestIds : request[n].status # "None" =>
          request[n].market \in Markets /\ request[n].market # m
    BY <2>1 DEF TInv, RequestShape, PhaseInv, RequestIds
  <2> QED BY <1>2, <1>5, <2>2 DEF PhaseInv
<1> QED BY <1>7, <1>8, <1>9 DEF PhaseInv

\* One status of one market and of its request change: mark_proposed,
\* mark_disputed and mark_council_voting.
LEMMA MarkedKeepsPhase ==
    ASSUME TInv, TInv', PhaseInv, NEW r \in RequestIds, NEW s \in MarketStatuses,
           request[r].status # "None", request'[r].status # "None",
           request'[r].market = request[r].market,
           \A n \in RequestIds : n # r => request'[n] = request[n],
           UNCHANGED marketRequest,
           transition_internal(request[r].market, s),
           s = RegistryPhase[request'[r].status], s # "Resolved"
    PROVE  PhaseInv'
<1> DEFINE m == request[r].market
<1>1. m \in Markets
  BY DEF TInv, RequestShape
<1>2. /\ market'[m] = [market[m] EXCEPT !.status = s]
      /\ \A n \in Markets : n # m => market'[n] = market[n]
  BY <1>1, RegistryStep DEF TInv, TypeOK
<1>3. nextMarketId' = nextMarketId
  BY DEF transition_internal
<1>4. /\ market'[m].status = s /\ market'[m].has_request = market[m].has_request
      /\ market'[m].request_id = market[m].request_id
  BY <1>1, <1>2 DEF TInv, TypeOK, RegistryTypeOK, MarketRecord
<1>5. request'[r].market = m
  OBVIOUS
<1>6. m = request[r].market
  OBVIOUS
<1> HIDE DEF m
<1>7. /\ UNCHANGED <<marketRequest, nextMarketId>>
      /\ market'[m].status = RegistryPhase[request'[r].status]
      /\ market'[m].status = "Resolved" =>
           market'[m].has_final_outcome /\ market'[m].final_outcome = request'[r].final_outcome
  BY <1>3, <1>4
<1> QED BY <1>1, <1>2, <1>4, <1>5, <1>6, <1>7, MovedTogether, Zenon

\* set_final_outcome and the finalized request carry the same outcome.
LEMMA FinalKeepsPhase ==
    ASSUME TInv, TInv', PhaseInv, NEW r \in RequestIds, NEW o \in Outcomes,
           request[r].status # "None",
           request' = Finalized(r, o), UNCHANGED marketRequest,
           set_final_outcome(request[r].market, o)
    PROVE  PhaseInv'
<1> DEFINE m == request[r].market
           q == [request[r] EXCEPT !.status = "Finalized", !.has_final_outcome = TRUE,
                                   !.final_outcome = o]
<1>1. m \in Markets
  BY DEF TInv, RequestShape
<1>2. /\ market'[m] = [market[m] EXCEPT !.status = "Resolved", !.has_final_outcome = TRUE,
                                        !.final_outcome = o]
      /\ \A n \in Markets : n # m => market'[n] = market[n]
  BY <1>1, FinalOutcomeStep DEF TInv, TypeOK
<1>3. nextMarketId' = nextMarketId
  BY DEF set_final_outcome
<1>4. /\ market'[m].status = "Resolved" /\ market'[m].has_request = market[m].has_request
      /\ market'[m].request_id = market[m].request_id
      /\ market'[m].has_final_outcome /\ market'[m].final_outcome = o
  BY <1>1, <1>2 DEF TInv, TypeOK, RegistryTypeOK, MarketRecord
<1>5. q.market = m /\ q.status = "Finalized" /\ q.final_outcome = o
  BY DEF TInv, TypeOK, OracleTypeOK, RequestRecord
<1>6. request' = [request EXCEPT ![r] = q]
  BY DEF Finalized
<1> HIDE DEF q
<1>7. request'[r] = q /\ \A n \in RequestIds : n # r => request'[n] = request[n]
  BY <1>6 DEF TInv, TypeOK, OracleTypeOK
<1>8. m = request[r].market
  OBVIOUS
<1> HIDE DEF m
<1>9. /\ UNCHANGED <<marketRequest, nextMarketId>>
      /\ request'[r].market = m /\ request'[r].status # "None"
      /\ market'[m].status = RegistryPhase[request'[r].status]
      /\ market'[m].status = "Resolved" =>
           market'[m].has_final_outcome /\ market'[m].final_outcome = request'[r].final_outcome
  BY <1>3, <1>4, <1>5, <1>7, PhaseValues
<1> QED BY <1>1, <1>2, <1>4, <1>7, <1>8, <1>9, MovedTogether, Zenon

\* The oracle's transactions, those it makes for the council included.
LEMMA OracleKeepsPhase ==
    ASSUME TInv, TInv', PhaseInv, NEW r \in RequestIds,
           \/ \E u \in Users, o \in Outcomes : ProposeOutcome(u, r, o) \/ DisputeOutcome(u, r, o)
           \/ FinalizeUndisputed(r)
           \/ EscalateToCouncil(r)
    PROVE  PhaseInv'
<1>1. request \in [RequestIds -> RequestRecord] /\ request[r] \in RequestRecord
  BY DEF TInv, TypeOK, OracleTypeOK
<1>2. "Proposed" \in MarketStatuses /\ "Disputed" \in MarketStatuses
      /\ "CouncilVoting" \in MarketStatuses
  BY DEF MarketStatuses
<1>3. ASSUME NEW u \in Users, NEW o \in Outcomes, ProposeOutcome(u, r, o)
      PROVE  PhaseInv'
  <2> DEFINE q == [request[r] EXCEPT !.status = "Proposed", !.has_proposal = TRUE,
                                     !.proposer = u, !.proposed_outcome = o,
                                     !.proposed_at = now]
  <2>1. /\ request[r].status = "Requested" /\ request' = [request EXCEPT ![r] = q]
        /\ transition_internal(request[r].market, "Proposed")
        /\ UNCHANGED marketRequest
    BY <1>3 DEF ProposeOutcome, propose_outcome, mark_proposed
  <2>2. q.status = "Proposed" /\ q.market = request[r].market
    BY <1>1 DEF RequestRecord
  <2> HIDE DEF q
  <2>3. request'[r] = q /\ \A n \in RequestIds : n # r => request'[n] = request[n]
    BY <1>1, <2>1
  <2> QED BY <1>2, <2>1, <2>2, <2>3, PhaseValues, MarkedKeepsPhase
<1>4. ASSUME NEW u \in Users, NEW o \in Outcomes, DisputeOutcome(u, r, o)
      PROVE  PhaseInv'
  <2> DEFINE q == [request[r] EXCEPT !.status = "Disputed", !.has_dispute = TRUE,
                                     !.disputer = u, !.disputed_outcome = o]
  <2>1. /\ request[r].status = "Proposed" /\ request' = [request EXCEPT ![r] = q]
        /\ transition_internal(request[r].market, "Disputed")
        /\ UNCHANGED marketRequest
    BY <1>4 DEF DisputeOutcome, dispute_outcome, mark_disputed
  <2>2. q.status = "Disputed" /\ q.market = request[r].market
    BY <1>1 DEF RequestRecord
  <2> HIDE DEF q
  <2>3. request'[r] = q /\ \A n \in RequestIds : n # r => request'[n] = request[n]
    BY <1>1, <2>1
  <2> QED BY <1>2, <2>1, <2>2, <2>3, PhaseValues, MarkedKeepsPhase
<1>5. CASE EscalateToCouncil(r)
  <2> DEFINE q == [request[r] EXCEPT !.status = "Escalated"]
  <2>1. /\ request[r].status = "Disputed" /\ request' = [request EXCEPT ![r] = q]
        /\ transition_internal(request[r].market, "CouncilVoting")
        /\ UNCHANGED marketRequest
    BY <1>5 DEF EscalateToCouncil, escalate_to_council, mark_council_voting
  <2>2. q.status = "Escalated" /\ q.market = request[r].market
    BY <1>1 DEF RequestRecord
  <2> HIDE DEF q
  <2>3. request'[r] = q /\ \A n \in RequestIds : n # r => request'[n] = request[n]
    BY <1>1, <2>1
  <2> QED BY <1>2, <2>1, <2>2, <2>3, PhaseValues, MarkedKeepsPhase
<1>6. CASE FinalizeUndisputed(r)
  <2>1. /\ request[r].status = "Proposed"
        /\ set_final_outcome(request[r].market, request[r].proposed_outcome)
        /\ request' = Finalized(r, request[r].proposed_outcome)
        /\ UNCHANGED marketRequest
    BY <1>6 DEF FinalizeUndisputed, finalize_undisputed
  <2>2. request[r].proposed_outcome \in Outcomes
    BY <1>1 DEF RequestRecord
  <2> QED BY <2>1, <2>2, FinalKeepsPhase
<1> QED BY <1>3, <1>4, <1>5, <1>6

\* finalize_and_report_case resolves the market of the case's request.
LEMMA ReportKeepsPhase ==
    ASSUME TInv, TInv', PhaseInv, NEW c \in CaseIds, FinalizeAndReportCase(c)
    PROVE  PhaseInv'
<1> DEFINE r == kase[c].request
           o == Tally(kase[c].votes)
<1>1. /\ kase[c].status # "None" /\ request[r].status = "Escalated"
      /\ set_final_outcome(request[r].market, o) /\ request' = Finalized(r, o)
      /\ UNCHANGED marketRequest
  BY DEF FinalizeAndReportCase, report_council_outcome, finalize_case, CanFinalize
<1>2. r \in RequestIds
  BY <1>1 DEF TInv, CaseShape
<1>3. o \in Outcomes
  BY DEF Tally, Outcomes
<1> HIDE DEF r, o
<1> QED BY <1>1, <1>2, <1>3, FinalKeepsPhase

\* Steps that touch neither the registry nor the requests.
LEMMA OthersKeepPhase ==
    ASSUME PhaseInv, UNCHANGED <<market, nextMarketId, request, marketRequest>>
    PROVE  PhaseInv'
BY DEF PhaseInv, PhaseAgreement, AgreesAt

\* PhaseInv is kept by every step of operational governance.
LEMMA StepPhase ==
    ASSUME OperationalGovernance, TInv, TInv', PhaseInv, [Next]_vars
    PROVE  PhaseInv'
<1>1. ASSUME NEW m \in Markets, CreateMarket(m) \/ CloseTrading(m) \/ RequestResolution(m)
      PROVE  PhaseInv'
  <2>1. "Live" \in MarketStatuses
    BY DEF MarketStatuses
  <2> QED BY <1>1, <2>1, RegistryKeepsPhase, RequestKeepsPhase
<1>2. ASSUME NEW m \in Markets, NEW s \in MarketStatuses, SetStatus(m, s)
      PROVE  PhaseInv'
  BY <1>2, RegistryKeepsPhase
<1>3. ASSUME NEW u \in Users, NEW r \in RequestIds, NEW o \in Outcomes,
             ProposeOutcome(u, r, o) \/ DisputeOutcome(u, r, o)
      PROVE  PhaseInv'
  BY <1>3, OracleKeepsPhase
<1>4. ASSUME NEW r \in RequestIds, FinalizeUndisputed(r) \/ EscalateToCouncil(r)
      PROVE  PhaseInv'
  BY <1>4, OracleKeepsPhase
<1>5. ASSUME NEW c \in CaseIds, FinalizeAndReportCase(c)
      PROVE  PhaseInv'
  BY <1>5, ReportKeepsPhase
<1>6. ASSUME NEW u \in Users, NEW r \in RequestIds, NEW m \in Markets, NEW a \in DirectAmounts,
             NEW d \in BOOLEAN, LockBond(u, r, m, a, d)
      PROVE  PhaseInv'
  BY <1>6, OthersKeepPhase DEF LockBond, registryVars, oracleVars
<1>7. ASSUME NEW s \in Splits, SetBondSplit(s)
      PROVE  PhaseInv'
  BY <1>7, OthersKeepPhase DEF SetBondSplit, registryVars, oracleVars
<1>8. ASSUME NEW v \in Members, NEW c \in CaseIds, NEW o \in Outcomes,
             CommitVote(v, c, o) \/ RevealVote(v, c, o) \/ ClaimReward(v, c)
      PROVE  PhaseInv'
  BY <1>8, OthersKeepPhase DEF CommitVote, RevealVote, ClaimReward, OthersThanCouncil,
     registryVars, oracleVars
<1>9. ASSUME NEW c \in CaseIds, FinalizeCase(c) \/ SweepCaseReward(c)
      PROVE  PhaseInv'
  BY <1>9, OthersKeepPhase DEF FinalizeCase, SweepCaseReward, OthersThanCouncil,
     registryVars, oracleVars
<1>10. ASSUME NEW v \in Members, NEW b \in BOOLEAN, SetMember(v, b)
       PROVE  PhaseInv'
  BY <1>10, OthersKeepPhase DEF SetMember, OthersThanCouncil, registryVars, oracleVars
<1>11. ASSUME NEW b \in BOOLEAN, PauseOracle(b) \/ PauseCouncil(b)
       PROVE  PhaseInv'
  BY <1>11, OthersKeepPhase DEF PauseOracle, pause_oracle, PauseCouncil, OthersThanCouncil,
     registryVars, oracleVars
<1>12. CASE Tick \/ UNCHANGED vars
  BY <1>12, OthersKeepPhase DEF Tick, vars, registryVars, oracleVars
<1>13. "Yes" \in Outcomes
  BY DEF Outcomes
<1> QED BY <1>1, <1>2, <1>3, <1>4, <1>5, <1>6, <1>7, <1>8, <1>9, <1>10, <1>11, <1>12, <1>13 DEF Next

\* The registry and the oracle never disagree on where a market is, nor on
\* its outcome, however many markets are resolved side by side, as long as
\* governance leaves markets under resolution to the oracle.
THEOREM PhasesAgree ==
    ASSUME OperationalGovernance
    PROVE  Spec => []PhaseAgreement
<1> DEFINE I == TInv /\ PhaseInv
<1>1. Init => I
  BY InitTInv, InitPhase
<1>2. I /\ [Next]_vars => I'
  BY StepTInv, StepPhase
<1>3. I => PhaseAgreement
  BY DEF PhaseInv
<1> HIDE DEF I
<1> QED BY <1>1, <1>2, <1>3, PTL DEF Spec

-----------------------------------------------------------------------------
(* Bonds follow the request.                                               *)

\* The bonds of a request stay on record after they are paid: that is what
\* keeps a user from locking the same key again by calling lock_bond.
BondsRecorded(r) ==
    /\ request[r].status \in {"Proposed", "Disputed", "Escalated", "Finalized"}
         => bond[ProposalKey(r)].exists
    /\ request[r].has_dispute => bond[DisputeKey(r)].exists

BondsFollow(r) ==
    LET q == request[r]
    IN  /\ q.status \in {"Proposed", "Disputed", "Escalated"} => HoldsFullBond(ProposalKey(r), r)
        /\ q.status \in {"Disputed", "Escalated"} => HoldsFullBond(DisputeKey(r), r)
        /\ q.status = "Finalized" => bond[ProposalKey(r)].amount = 0
        /\ q.status = "Finalized" /\ q.has_dispute => bond[DisputeKey(r)].amount = 0

BondInv == \A r \in RequestIds : BondsRecorded(r) /\ BondsFollow(r)

\* The keys of a request's bonds: they name the request, so that the bonds of
\* two requests, and the two bonds of one, never share a key.
LEMMA BondKeyFacts ==
    ASSUME TInv, NEW r \in RequestIds
    PROVE  /\ request[r].status \in {"Proposed", "Disputed", "Escalated", "Finalized"} =>
                ProposalKey(r) \in BondKeys
           /\ request[r].has_dispute => DisputeKey(r) \in BondKeys
           /\ ProposalKey(r)[1] = r /\ DisputeKey(r)[1] = r
           /\ ProposalKey(r)[3] = FALSE /\ DisputeKey(r)[3] = TRUE
           /\ ProposalKey(r) # DisputeKey(r)
<1>1. request[r].status \in {"Proposed", "Disputed", "Escalated", "Finalized"} =>
        request[r].proposer \in Users
  BY DEF TInv, RequestShape
<1>2. request[r].has_dispute => request[r].disputer \in Users
  BY DEF TInv, RequestShape
<1>3. FALSE \in BOOLEAN /\ TRUE \in BOOLEAN
  OBVIOUS
<1> QED BY <1>1, <1>2, <1>3 DEF ProposalKey, DisputeKey, BondKeys

\* A request whose record is kept, and whose bonds are kept, keeps BondInv.
LEMMA UntouchedBonds ==
    ASSUME TInv, BondInv, NEW r \in RequestIds, request'[r] = request[r],
           \A k \in BondKeys : k[1] = r /\ bond[k].exists => bond'[k] = bond[k]
    PROVE  BondsRecorded(r)' /\ BondsFollow(r)'
<1>1. ProposalKey(r)' = ProposalKey(r) /\ DisputeKey(r)' = DisputeKey(r)
  BY DEF ProposalKey, DisputeKey
<1>2. RequestBond(r)' = RequestBond(r)
  BY DEF RequestBond
<1>3. request[r].status \in {"Proposed", "Disputed", "Escalated", "Finalized"}
        => bond'[ProposalKey(r)] = bond[ProposalKey(r)]
  BY BondKeyFacts DEF BondInv, BondsRecorded
<1>4. request[r].has_dispute => bond'[DisputeKey(r)] = bond[DisputeKey(r)]
  BY BondKeyFacts DEF BondInv, BondsRecorded
<1>5. request[r].status \in {"Disputed", "Escalated"} => request[r].has_dispute
  BY DEF TInv, RequestShape
<1>6. BondsRecorded(r)'
  BY <1>1, <1>3, <1>4 DEF BondInv, BondsRecorded
<1>7. BondsFollow(r)'
  BY <1>1, <1>2, <1>3, <1>4, <1>5 DEF BondInv, BondsFollow, HoldsFullBond
<1> QED BY <1>6, <1>7

\* No bond and no request exists at first.
LEMMA InitBonds == Init => BondInv
BY DEF Init, OracleInit, NoRequest, BondInv, BondsRecorded, BondsFollow

\* lock_bond refuses a key that exists, so nothing on record is overwritten.
LEMMA DirectLockKeepsBonds ==
    ASSUME TInv, BondInv, NEW u \in Users, NEW r \in RequestIds, NEW m \in Markets,
           NEW a \in DirectAmounts, NEW d \in BOOLEAN, LockBond(u, r, m, a, d)
    PROVE  BondInv'
<1>1. /\ ~bond[<<r, u, d>>].exists
      /\ bond' = [bond EXCEPT ![<<r, u, d>>] = [exists |-> TRUE, amount |-> a, market |-> m]]
  BY DEF LockBond, lock_bond
<1>2. \A j \in BondKeys : j # <<r, u, d>> => bond'[j] = bond[j]
  BY <1>1 DEF TInv, TypeOK, BondTypeOK
<1>3. request' = request
  BY DEF LockBond, oracleVars
<1>4. \A k \in BondKeys : bond[k].exists => bond'[k] = bond[k]
  BY <1>1, <1>2
<1>5. \A n \in RequestIds : BondsRecorded(n)' /\ BondsFollow(n)'
  BY <1>3, <1>4, UntouchedBonds
<1> QED BY <1>5 DEF BondInv

\* A proposal and a dispute lock the market's bond under a fresh key.
LEMMA ProposalKeepsBonds ==
    ASSUME TInv, TInv', BondInv, NEW u \in Users, NEW r \in RequestIds, NEW o \in Outcomes,
           ProposeOutcome(u, r, o) \/ DisputeOutcome(u, r, o)
    PROVE  BondInv'
<1> DEFINE m == request[r].market
           b == RequestBond(r)
<1>1. /\ request \in [RequestIds -> RequestRecord] /\ request[r] \in RequestRecord /\ TypeOK
  BY DEF TInv, TypeOK, OracleTypeOK
<1>2. m \in Markets
  BY DEF TInv, RequestShape, ProposeOutcome, DisputeOutcome, dispute_outcome
<1>3. b \in Nat
  BY <1>2, RegistryAssumption DEF RegistryAssumption, RequestBond
<1>4. CASE ProposeOutcome(u, r, o)
  <2> DEFINE q == [request[r] EXCEPT !.status = "Proposed", !.has_proposal = TRUE,
                                     !.proposer = u, !.proposed_outcome = o,
                                     !.proposed_at = now]
  <2>1. /\ request[r].status = "Requested" /\ request' = [request EXCEPT ![r] = q]
        /\ lock_bond(u, r, m, b, FALSE)
    BY <1>4 DEF ProposeOutcome, propose_outcome
  <2>2. /\ q.status = "Proposed" /\ q.market = m /\ q.proposer = u
        /\ q.has_dispute = request[r].has_dispute
    BY <1>1 DEF RequestRecord
  <2>3. ~request[r].has_dispute
    BY <2>1 DEF TInv, RequestShape
  <2> HIDE DEF q
  <2>4. request'[r] = q /\ \A n \in RequestIds : n # r => request'[n] = request[n]
    BY <1>1, <2>1
  <2>5. /\ bond'[<<r, u, FALSE>>] = [exists |-> TRUE, amount |-> b, market |-> m]
        /\ ~bond[<<r, u, FALSE>>].exists
        /\ \A j \in BondKeys : j # <<r, u, FALSE>> => bond'[j] = bond[j]
    <3> HIDE DEF m, b
    <3> QED BY <1>1, <1>2, <1>3, <2>1, LockStep
  <2>6. ProposalKey(r)' = <<r, u, FALSE>> /\ RequestBond(r)' = b
    BY <2>2, <2>4 DEF ProposalKey, RequestBond
  <2>7. BondsRecorded(r)' /\ BondsFollow(r)'
    <3> HIDE DEF m, b
    <3> QED BY <2>2, <2>3, <2>4, <2>5, <2>6 DEF BondsRecorded, BondsFollow, HoldsFullBond
  <2>8. ASSUME NEW n \in RequestIds, n # r PROVE BondsRecorded(n)' /\ BondsFollow(n)'
    <3>1. \A k \in BondKeys : k[1] = n /\ bond[k].exists => bond'[k] = bond[k]
      BY <2>5, <2>8
    <3> QED BY <2>4, <2>8, <3>1, UntouchedBonds
  <2> QED BY <2>7, <2>8 DEF BondInv
<1>5. CASE DisputeOutcome(u, r, o)
  <2> DEFINE q == [request[r] EXCEPT !.status = "Disputed", !.has_dispute = TRUE,
                                     !.disputer = u, !.disputed_outcome = o]
             pk == ProposalKey(r)
  <2>1. /\ request[r].status = "Proposed" /\ request' = [request EXCEPT ![r] = q]
        /\ lock_bond(u, r, m, b, TRUE)
    BY <1>5 DEF DisputeOutcome, dispute_outcome
  <2>2. /\ q.status = "Disputed" /\ q.market = m /\ q.disputer = u
        /\ q.proposer = request[r].proposer
    BY <1>1 DEF RequestRecord
  <2> HIDE DEF q
  <2>3. request'[r] = q /\ \A n \in RequestIds : n # r => request'[n] = request[n]
    BY <1>1, <2>1
  <2>4. /\ bond'[<<r, u, TRUE>>] = [exists |-> TRUE, amount |-> b, market |-> m]
        /\ ~bond[<<r, u, TRUE>>].exists
        /\ \A j \in BondKeys : j # <<r, u, TRUE>> => bond'[j] = bond[j]
    <3> HIDE DEF m, b
    <3> QED BY <1>1, <1>2, <1>3, <2>1, LockStep
  <2>5. /\ ProposalKey(r)' = pk /\ DisputeKey(r)' = <<r, u, TRUE>> /\ RequestBond(r)' = b
    BY <2>2, <2>3 DEF ProposalKey, DisputeKey, RequestBond
  <2>6. bond[pk].exists /\ bond[pk].amount = b /\ bond[pk].market = m
    BY <2>1 DEF BondInv, BondsFollow, HoldsFullBond
  <2>7. bond'[pk] = bond[pk]
    <3>1. pk \in BondKeys
      BY <2>1, BondKeyFacts
    <3>2. pk # <<r, u, TRUE>>
      BY DEF ProposalKey
    <3> HIDE DEF pk
    <3> QED BY <3>1, <3>2, <2>4
  <2>8. BondsRecorded(r)' /\ BondsFollow(r)'
    <3> HIDE DEF m, b, pk
    <3> QED BY <2>2, <2>3, <2>4, <2>5, <2>6, <2>7 DEF BondsRecorded, BondsFollow, HoldsFullBond
  <2>9. ASSUME NEW n \in RequestIds, n # r PROVE BondsRecorded(n)' /\ BondsFollow(n)'
    <3>1. \A k \in BondKeys : k[1] = n /\ bond[k].exists => bond'[k] = bond[k]
      BY <2>4, <2>9
    <3> QED BY <2>3, <2>9, <3>1, UntouchedBonds
  <2> QED BY <2>8, <2>9 DEF BondInv
<1> QED BY <1>4, <1>5

\* escalate_to_council and request_resolution move no bond; a request leaves
\* Disputed for Escalated, and None for Requested.
LEMMA EscalateKeepsBonds ==
    ASSUME TInv, BondInv, NEW r \in RequestIds, EscalateToCouncil(r)
    PROVE  BondInv'
<1> DEFINE q == [request[r] EXCEPT !.status = "Escalated"]
<1>1. /\ request \in [RequestIds -> RequestRecord] /\ request[r] \in RequestRecord
  BY DEF TInv, TypeOK, OracleTypeOK
<1>2. /\ request[r].status = "Disputed" /\ request' = [request EXCEPT ![r] = q] /\ bond' = bond
  BY DEF EscalateToCouncil, escalate_to_council, vaultVars
<1>3. /\ q.status = "Escalated" /\ q.market = request[r].market /\ q.proposer = request[r].proposer
      /\ q.disputer = request[r].disputer
  BY <1>1 DEF RequestRecord
<1>4. request[r].has_dispute
  BY <1>2 DEF TInv, RequestShape
<1> HIDE DEF q
<1>5. request'[r] = q /\ \A n \in RequestIds : n # r => request'[n] = request[n]
  BY <1>1, <1>2
<1>6. /\ ProposalKey(r)' = ProposalKey(r) /\ DisputeKey(r)' = DisputeKey(r)
      /\ RequestBond(r)' = RequestBond(r)
  BY <1>3, <1>5 DEF ProposalKey, DisputeKey, RequestBond
<1>7. BondsRecorded(r)' /\ BondsFollow(r)'
  BY <1>2, <1>3, <1>4, <1>5, <1>6 DEF BondInv, BondsRecorded, BondsFollow, HoldsFullBond
<1>8. ASSUME NEW n \in RequestIds, n # r PROVE BondsRecorded(n)' /\ BondsFollow(n)'
  BY <1>2, <1>5, <1>8, UntouchedBonds
<1> QED BY <1>7, <1>8 DEF BondInv

\* request_resolution takes an id that no bonded request has.
LEMMA RequestKeepsBonds ==
    ASSUME TInv, BondInv, NEW m \in Markets, RequestResolution(m)
    PROVE  BondInv'
<1>0. PICK r \in RequestIds : r = nextRequestId
  BY DEF RequestResolution, request_resolution
<1> DEFINE q == [NoRequest EXCEPT !.status = "Requested", !.market = m]
<1>1. request' = [request EXCEPT ![r] = q] /\ bond' = bond
  BY <1>0 DEF RequestResolution, request_resolution, vaultVars
<1>2. q.status = "Requested" /\ q.has_dispute = FALSE
  BY DEF NoRequest
<1> HIDE DEF q
<1>3. request'[r] = q /\ \A n \in RequestIds : n # r => request'[n] = request[n]
  BY <1>1 DEF TInv, TypeOK, OracleTypeOK
<1>4. BondsRecorded(r)' /\ BondsFollow(r)'
  BY <1>2, <1>3 DEF BondsRecorded, BondsFollow
<1>5. ASSUME NEW n \in RequestIds, n # r PROVE BondsRecorded(n)' /\ BondsFollow(n)'
  BY <1>1, <1>3, <1>5, UntouchedBonds
<1> QED BY <1>4, <1>5 DEF BondInv

\* A request is finalized once its bonds have been paid down by RequestBond,
\* which is all they held.
LEMMA FinalizedBonds ==
    ASSUME TInv, TInv', BondInv, NEW r \in RequestIds, NEW o \in Outcomes,
           request[r].status \in {"Proposed", "Escalated"},
           request' = Finalized(r, o),
           bond'[ProposalKey(r)].amount = bond[ProposalKey(r)].amount - RequestBond(r),
           bond'[ProposalKey(r)].exists,
           request[r].has_dispute =>
             /\ bond'[DisputeKey(r)].amount = bond[DisputeKey(r)].amount - RequestBond(r)
             /\ bond'[DisputeKey(r)].exists
             /\ request[r].status = "Escalated",
           \A k \in BondKeys : k[1] # r => bond'[k] = bond[k]
    PROVE  BondInv'
<1> DEFINE q == [request[r] EXCEPT !.status = "Finalized", !.has_final_outcome = TRUE,
                                   !.final_outcome = o]
           b == RequestBond(r)
<1>1. request \in [RequestIds -> RequestRecord] /\ request[r] \in RequestRecord
  BY DEF TInv, TypeOK, OracleTypeOK
<1>2. request' = [request EXCEPT ![r] = q]
  BY DEF Finalized
<1>3. /\ q.status = "Finalized" /\ q.proposer = request[r].proposer
      /\ q.disputer = request[r].disputer /\ q.has_dispute = request[r].has_dispute
  BY <1>1 DEF RequestRecord
<1> HIDE DEF q
<1>4. request'[r] = q /\ \A n \in RequestIds : n # r => request'[n] = request[n]
  BY <1>1, <1>2
<1>5. ProposalKey(r)' = ProposalKey(r) /\ DisputeKey(r)' = DisputeKey(r)
  BY <1>3, <1>4 DEF ProposalKey, DisputeKey
<1>6. b \in Nat
  BY RegistryAssumption DEF RegistryAssumption, RequestBond, TInv, RequestShape
<1>7. bond'[ProposalKey(r)].amount = 0
  <2>1. bond[ProposalKey(r)].amount = b
    BY DEF BondInv, BondsFollow, HoldsFullBond
  <2> HIDE DEF b
  <2> QED BY <1>6, <2>1 DEF b
<1>8. request[r].has_dispute => bond'[DisputeKey(r)].amount = 0
  <2>1. request[r].has_dispute => bond[DisputeKey(r)].amount = b
    BY DEF BondInv, BondsFollow, HoldsFullBond
  <2> HIDE DEF b
  <2> QED BY <1>6, <2>1 DEF b
<1>9. BondsRecorded(r)' /\ BondsFollow(r)'
  BY <1>3, <1>4, <1>5, <1>7, <1>8 DEF BondsRecorded, BondsFollow
<1>10. ASSUME NEW n \in RequestIds, n # r PROVE BondsRecorded(n)' /\ BondsFollow(n)'
  BY <1>4, <1>10, UntouchedBonds
<1> QED BY <1>9, <1>10 DEF BondInv

\* finalize_undisputed releases all the proposal's bond held.
LEMMA UndisputedKeepsBonds ==
    ASSUME TInv, TInv', BondInv, NEW r \in RequestIds, FinalizeUndisputed(r)
    PROVE  BondInv'
<1>1. /\ finalize_undisputed(r) /\ request[r].status = "Proposed"
      /\ request' = Finalized(r, request[r].proposed_outcome)
  BY DEF FinalizeUndisputed, finalize_undisputed
<1>2. /\ request[r].market \in Markets /\ request[r].proposer \in Users
      /\ request[r].proposed_outcome \in Outcomes /\ ~request[r].has_dispute
  BY <1>1 DEF TInv, TypeOK, OracleTypeOK, RequestRecord, RequestShape
<1>3. /\ bond'[ProposalKey(r)].amount = bond[ProposalKey(r)].amount - RequestBond(r)
      /\ \A j \in BondKeys : j # ProposalKey(r) => bond'[j] = bond[j]
      /\ \A j \in BondKeys : bond'[j].exists = bond[j].exists
  BY <1>1, <1>2, UndisputedStep DEF TInv
<1>4. ProposalKey(r) \in BondKeys /\ ProposalKey(r)[1] = r
  BY <1>1, BondKeyFacts
<1>5. bond'[ProposalKey(r)].exists
  BY <1>1, <1>3, <1>4 DEF BondInv, BondsRecorded
<1>6. \A k \in BondKeys : k[1] # r => bond'[k] = bond[k]
  BY <1>3, <1>4
<1> QED BY <1>1, <1>2, <1>3, <1>5, <1>6, FinalizedBonds

\* Whichever side wins, and when neither does, both bonds are used up.
LEMMA ReportKeepsBonds ==
    ASSUME TInv, TInv', BondInv, NEW c \in CaseIds, FinalizeAndReportCase(c)
    PROVE  BondInv'
<1>0. PICK r \in RequestIds : r = kase[c].request
  BY DEF FinalizeAndReportCase, finalize_case, CanFinalize, TInv, CaseShape
<1>1. PICK o \in Outcomes : o = Tally(kase[c].votes)
  BY DEF Tally, Outcomes
<1>2. /\ request[r].status = "Escalated" /\ request' = Finalized(r, o)
      /\ \/ AwardTo(r, request[r].proposer, ProposalKey(r), DisputeKey(r))
         \/ AwardTo(r, request[r].disputer, DisputeKey(r), ProposalKey(r))
         \/ ReturnBoth(r)
  BY <1>0, <1>1 DEF FinalizeAndReportCase, report_council_outcome
<1>3. /\ request[r].market \in Markets /\ request[r].proposer \in Users
      /\ request[r].disputer \in Users /\ request[r].has_dispute
  BY <1>2 DEF TInv, RequestShape
<1>4. /\ ProposalKey(r) \in BondKeys /\ DisputeKey(r) \in BondKeys
      /\ ProposalKey(r)[1] = r /\ DisputeKey(r)[1] = r
      /\ ProposalKey(r)[3] \in BOOLEAN /\ DisputeKey(r)[3] \in BOOLEAN
      /\ ProposalKey(r) # DisputeKey(r)
  BY <1>2, <1>3, BondKeyFacts
<1>5. /\ bond'[ProposalKey(r)].amount = bond[ProposalKey(r)].amount - RequestBond(r)
      /\ bond'[DisputeKey(r)].amount = bond[DisputeKey(r)].amount - RequestBond(r)
      /\ \A j \in BondKeys : j # ProposalKey(r) /\ j # DisputeKey(r) => bond'[j] = bond[j]
      /\ \A j \in BondKeys : bond'[j].exists = bond[j].exists
  <2>1. CASE AwardTo(r, request[r].proposer, ProposalKey(r), DisputeKey(r))
    BY <1>3, <1>4, <2>1, AwardStep DEF TInv
  <2>2. CASE AwardTo(r, request[r].disputer, DisputeKey(r), ProposalKey(r))
    BY <1>3, <1>4, <2>2, AwardStep DEF TInv
  <2>3. CASE ReturnBoth(r)
    BY <1>3, <2>3, ReturnStep DEF TInv
  <2> QED BY <1>2, <2>1, <2>2, <2>3
<1>6. bond'[ProposalKey(r)].exists /\ bond'[DisputeKey(r)].exists
  BY <1>2, <1>3, <1>4, <1>5 DEF BondInv, BondsRecorded
<1>7. \A k \in BondKeys : k[1] # r => bond'[k] = bond[k]
  BY <1>4, <1>5
<1> QED BY <1>2, <1>5, <1>6, <1>7, FinalizedBonds

\* Steps that move neither bonds nor requests.
LEMMA OthersKeepBonds ==
    ASSUME BondInv, UNCHANGED <<bond, request>>
    PROVE  BondInv'
BY DEF BondInv, BondsRecorded, BondsFollow, HoldsFullBond, ProposalKey, DisputeKey, RequestBond

\* BondInv is kept by every step.
LEMMA StepBonds ==
    ASSUME TInv, TInv', BondInv, [Next]_vars
    PROVE  BondInv'
<1> USE DEF registryVars, vaultVars, oracleVars
<1>1. ASSUME NEW m \in Markets, NEW s \in MarketStatuses,
             CreateMarket(m) \/ CloseTrading(m) \/ SetStatus(m, s)
      PROVE  BondInv'
  BY <1>1, OthersKeepBonds DEF CreateMarket, CloseTrading, SetStatus, OthersThanRegistry
<1>2. ASSUME NEW m \in Markets, RequestResolution(m)
      PROVE  BondInv'
  BY <1>2, RequestKeepsBonds
<1>3. ASSUME NEW u \in Users, NEW r \in RequestIds, NEW o \in Outcomes,
             ProposeOutcome(u, r, o) \/ DisputeOutcome(u, r, o)
      PROVE  BondInv'
  BY <1>3, ProposalKeepsBonds
<1>4. ASSUME NEW r \in RequestIds, FinalizeUndisputed(r) \/ EscalateToCouncil(r)
      PROVE  BondInv'
  BY <1>4, UndisputedKeepsBonds, EscalateKeepsBonds
<1>5. ASSUME NEW c \in CaseIds, FinalizeAndReportCase(c)
      PROVE  BondInv'
  BY <1>5, ReportKeepsBonds
<1>6. ASSUME NEW u \in Users, NEW r \in RequestIds, NEW m \in Markets, NEW a \in DirectAmounts,
             NEW d \in BOOLEAN, LockBond(u, r, m, a, d)
      PROVE  BondInv'
  BY <1>6, DirectLockKeepsBonds
<1>7. ASSUME NEW s \in Splits, SetBondSplit(s)
      PROVE  BondInv'
  BY <1>7, OthersKeepBonds DEF SetBondSplit, set_bond_split
<1>8. ASSUME NEW v \in Members, NEW c \in CaseIds, NEW o \in Outcomes,
             CommitVote(v, c, o) \/ RevealVote(v, c, o) \/ ClaimReward(v, c)
      PROVE  BondInv'
  BY <1>8, OthersKeepBonds DEF CommitVote, RevealVote, ClaimReward, OthersThanCouncil
<1>9. ASSUME NEW c \in CaseIds, FinalizeCase(c) \/ SweepCaseReward(c)
      PROVE  BondInv'
  BY <1>9, OthersKeepBonds DEF FinalizeCase, SweepCaseReward, OthersThanCouncil
<1>10. ASSUME NEW v \in Members, NEW b \in BOOLEAN, SetMember(v, b)
       PROVE  BondInv'
  BY <1>10, OthersKeepBonds DEF SetMember, OthersThanCouncil
<1>11. ASSUME NEW b \in BOOLEAN, PauseOracle(b) \/ PauseCouncil(b)
       PROVE  BondInv'
  BY <1>11, OthersKeepBonds DEF PauseOracle, pause_oracle, PauseCouncil, OthersThanCouncil
<1>12. CASE Tick \/ UNCHANGED vars
  BY <1>12, OthersKeepBonds DEF Tick, vars
<1>13. "Yes" \in Outcomes /\ "Live" \in MarketStatuses
  BY DEF Outcomes, MarketStatuses
<1> QED BY <1>1, <1>2, <1>3, <1>4, <1>5, <1>6, <1>7, <1>8, <1>9, <1>10, <1>11, <1>12, <1>13 DEF Next

\* The vault holds the full bond of every open proposal and dispute, and keeps
\* nothing of them once the request is finalized: for any shares of the
\* losing bond, any number of requests and whatever users lock by calling
\* lock_bond themselves, governance's set_status included.
THEOREM BondsAlwaysFollow == Spec => []BondsFollowRequest
<1> DEFINE I == TInv /\ BondInv
<1>1. Init => I
  BY InitTInv, InitBonds
<1>2. I /\ [Next]_vars => I'
  BY StepTInv, StepBonds
<1>3. I => BondsFollowRequest
  BY DEF BondInv, BondsFollow, BondsFollowRequest
<1> HIDE DEF I
<1> QED BY <1>1, <1>2, <1>3, PTL DEF Spec

-----------------------------------------------------------------------------
(* The vote and the outcome it gives.                                      *)

\* Votes are revealed after the commit phase of an open case, and an outcome
\* is set after the reveal phase, from the votes that were revealed.
VoteInv ==
    /\ \A c \in CaseIds, v \in Members : revealed[c][v] # "none" =>
         kase[c].status # "None" /\ now > kase[c].commit_end
    /\ \A c \in CaseIds : kase[c].has_final_outcome =>
         now > kase[c].reveal_end /\ kase[c].final_outcome = Tally(kase[c].votes)

\* What a step can do to the cases: open one, count a vote in one, give one
\* its outcome, or nothing.
CaseStep ==
    \/ UNCHANGED <<kase, requestCase, nextCaseId, revealed>> /\ now' >= now
    \/ \E r \in RequestIds : EscalateToCouncil(r)
    \/ \E v \in Members, c \in CaseIds, o \in Outcomes : RevealVote(v, c, o)
    \/ \E c \in CaseIds : finalize_case(c) /\ UNCHANGED now

\* No transaction touches the cases in any other way.
LEMMA CaseChanges ==
    ASSUME TInv, [Next]_vars
    PROVE  CaseStep
<1>0. now \in Nat
  BY DEF TInv, TypeOK
<1> USE DEF CaseStep, registryVars, vaultVars, councilVars, ballotVars, oracleVars
<1>1. ASSUME NEW m \in Markets, NEW s \in MarketStatuses,
             CreateMarket(m) \/ CloseTrading(m) \/ SetStatus(m, s)
      PROVE  CaseStep
  BY <1>0, <1>1 DEF CreateMarket, CloseTrading, SetStatus, OthersThanRegistry
<1>12. ASSUME NEW m \in Markets, RequestResolution(m)
       PROVE  CaseStep
  BY <1>0, <1>12 DEF RequestResolution, request_resolution
<1>2. ASSUME NEW u \in Users, NEW r \in RequestIds, NEW o \in Outcomes,
             ProposeOutcome(u, r, o) \/ DisputeOutcome(u, r, o)
      PROVE  CaseStep
  <2>1. UNCHANGED <<councilVars, now>>
    BY <1>2 DEF ProposeOutcome, propose_outcome, DisputeOutcome, dispute_outcome
  <2> QED BY <1>0, <2>1
<1>3. ASSUME NEW r \in RequestIds, FinalizeUndisputed(r) \/ EscalateToCouncil(r)
      PROVE  CaseStep
  BY <1>0, <1>3 DEF FinalizeUndisputed, finalize_undisputed
<1>4. ASSUME NEW c \in CaseIds, FinalizeCase(c) \/ FinalizeAndReportCase(c) \/ SweepCaseReward(c)
      PROVE  CaseStep
  BY <1>0, <1>4 DEF FinalizeCase, FinalizeAndReportCase, SweepCaseReward, sweep_case_reward,
     OthersThanCouncil
<1>5. ASSUME NEW u \in Users, NEW r \in RequestIds, NEW m \in Markets, NEW a \in DirectAmounts,
             NEW d \in BOOLEAN, LockBond(u, r, m, a, d)
      PROVE  CaseStep
  BY <1>0, <1>5 DEF LockBond
<1>6. ASSUME NEW s \in Splits, SetBondSplit(s)
      PROVE  CaseStep
  BY <1>0, <1>6 DEF SetBondSplit
<1>7. ASSUME NEW v \in Members, NEW c \in CaseIds, NEW o \in Outcomes,
             CommitVote(v, c, o) \/ RevealVote(v, c, o) \/ ClaimReward(v, c)
      PROVE  CaseStep
  BY <1>0, <1>7 DEF CommitVote, commit_vote, ClaimReward, claim_reward, OthersThanCouncil
<1>8. ASSUME NEW v \in Members, NEW b \in BOOLEAN, SetMember(v, b)
      PROVE  CaseStep
  BY <1>0, <1>8 DEF SetMember, set_member, OthersThanCouncil
<1>9. ASSUME NEW b \in BOOLEAN, PauseOracle(b) \/ PauseCouncil(b)
      PROVE  CaseStep
  BY <1>0, <1>9 DEF PauseOracle, PauseCouncil, pause_council, OthersThanCouncil
<1>10. CASE Tick \/ UNCHANGED vars
  BY <1>0, <1>10 DEF Tick, vars
<1>11. "Yes" \in Outcomes /\ "Live" \in MarketStatuses
  BY DEF Outcomes, MarketStatuses
<1> HIDE DEF CaseStep
<1> QED BY <1>1, <1>2, <1>3, <1>4, <1>5, <1>6, <1>7, <1>8, <1>9, <1>10, <1>11, <1>12 DEF Next

\* A case that has its outcome is never written again, and a request keeps the
\* case that was opened for it.
LEMMA CasesFrozen ==
    ASSUME TInv, VoteInv, [Next]_vars
    PROVE  /\ \A c \in CaseIds : kase[c].has_final_outcome => kase'[c] = kase[c]
           /\ \A r \in RequestIds : requestCase[r] # 0 => requestCase'[r] = requestCase[r]
<1>1. kase \in [CaseIds -> CaseRecord] /\ requestCase \in [RequestIds -> CaseIds \cup {0}]
      /\ now \in Nat
  BY DEF TInv, TypeOK, CouncilTypeOK
<1>2. ASSUME NEW r \in RequestIds, EscalateToCouncil(r)
      PROVE  /\ \A c \in CaseIds : kase[c].has_final_outcome => kase'[c] = kase[c]
             /\ \A n \in RequestIds : requestCase[n] # 0 => requestCase'[n] = requestCase[n]
  <2>1. PICK k : kase' = [kase EXCEPT ![nextCaseId] = k]
    BY <1>2 DEF EscalateToCouncil, escalate_to_council, open_case
  <2>2. requestCase[r] = 0 /\ requestCase' = [requestCase EXCEPT ![r] = nextCaseId]
        /\ nextCaseId \in CaseIds
    BY <1>2 DEF EscalateToCouncil, escalate_to_council, open_case
  <2>3. ~kase[nextCaseId].has_final_outcome
    BY <2>2 DEF TInv, TypeOK, CouncilTypeOK, CaseShape
  <2> QED BY <1>1, <2>1, <2>2, <2>3
<1>3. ASSUME NEW v \in Members, NEW c \in CaseIds, NEW o \in Outcomes, RevealVote(v, c, o)
      PROVE  /\ \A n \in CaseIds : kase[n].has_final_outcome => kase'[n] = kase[n]
             /\ UNCHANGED requestCase
  <2>1. PICK k : kase' = [kase EXCEPT ![c] = k]
    BY <1>3 DEF RevealVote, reveal_vote
  <2>2. now <= kase[c].reveal_end /\ kase[c].reveal_end \in Nat /\ UNCHANGED requestCase
    BY <1>1, <1>3 DEF RevealVote, reveal_vote, CaseRecord
  <2>3. ~kase[c].has_final_outcome
    BY <1>1, <2>2 DEF VoteInv
  <2> QED BY <1>1, <2>1, <2>2, <2>3
<1>4. ASSUME NEW c \in CaseIds, finalize_case(c)
      PROVE  /\ \A n \in CaseIds : kase[n].has_final_outcome => kase'[n] = kase[n]
             /\ UNCHANGED requestCase
  <2>1. PICK k : kase' = [kase EXCEPT ![c] = k]
    BY <1>4 DEF finalize_case
  <2>2. ~kase[c].has_final_outcome /\ UNCHANGED requestCase
    BY <1>4 DEF finalize_case, CanFinalize
  <2> QED BY <1>1, <2>1, <2>2
<1> QED BY <1>2, <1>3, <1>4, CaseChanges DEF CaseStep

\* No vote is on record at first.
LEMMA InitVote == Init => VoteInv
BY DEF Init, CouncilInit, NoCase, VoteInv

\* VoteInv is kept by every step.
LEMMA StepVote ==
    ASSUME TInv, TInv', VoteInv, [Next]_vars
    PROVE  VoteInv'
<1>1. kase \in [CaseIds -> CaseRecord] /\ now \in Nat /\ now' \in Nat
      /\ revealed \in [CaseIds -> [Members -> Ballots]]
  BY DEF TInv, TypeOK, CouncilTypeOK
<1>2. CASE UNCHANGED <<kase, requestCase, revealed>> /\ now' >= now
  BY <1>1, <1>2 DEF VoteInv, CaseRecord
<1>3. ASSUME NEW r \in RequestIds, EscalateToCouncil(r)
      PROVE  VoteInv'
  <2>0. PICK c \in CaseIds : c = nextCaseId
    BY <1>3 DEF EscalateToCouncil, escalate_to_council, open_case
  <2> DEFINE k == [NoCase EXCEPT !.status = "CommitPhase", !.request = r,
                                 !.commit_end = now + DisputeWindow[request[r].market],
                                 !.reveal_end = now + DisputeWindow[request[r].market]
                                                    + DisputeWindow[request[r].market]]
  <2>1. kase' = [kase EXCEPT ![c] = k] /\ UNCHANGED <<now, revealed>>
    BY <1>3, <2>0 DEF EscalateToCouncil, escalate_to_council, open_case, ballotVars
  <2>2. k.has_final_outcome = FALSE
    BY DEF NoCase
  <2> HIDE DEF k
  <2>3. kase'[c] = k /\ \A n \in CaseIds : n # c => kase'[n] = kase[n]
    BY <1>1, <2>1
  <2>4. kase[c].status = "None"
    BY <2>0 DEF TInv, TypeOK, CouncilTypeOK, CaseShape
  <2>5. \A v \in Members : revealed[c][v] = "none"
    BY <2>4 DEF VoteInv
  <2> QED BY <2>1, <2>2, <2>3, <2>5 DEF VoteInv
<1>4. ASSUME NEW v \in Members, NEW c \in CaseIds, NEW o \in Outcomes, RevealVote(v, c, o)
      PROVE  VoteInv'
  <2> DEFINE k == [kase[c] EXCEPT !.votes = [kase[c].votes EXCEPT ![o] = kase[c].votes[o] + 1]]
  <2>1. /\ kase' = [kase EXCEPT ![c] = k] /\ now' = now
        /\ revealed' = [revealed EXCEPT ![c] = [revealed[c] EXCEPT ![v] = o]]
        /\ kase[c].status # "None" /\ now > kase[c].commit_end /\ now <= kase[c].reveal_end
    BY <1>4 DEF RevealVote, reveal_vote, OthersThanCouncil
  <2>2. /\ k.status = kase[c].status /\ k.commit_end = kase[c].commit_end
        /\ k.has_final_outcome = kase[c].has_final_outcome
    BY <1>1 DEF CaseRecord
  <2> HIDE DEF k
  <2>3. kase'[c] = k /\ \A n \in CaseIds : n # c => kase'[n] = kase[n]
    BY <1>1, <2>1
  <2>4. ~kase[c].has_final_outcome
    BY <1>1, <2>1 DEF VoteInv, CaseRecord
  <2>5. \A n \in CaseIds : n # c => revealed'[n] = revealed[n]
    BY <1>1, <2>1
  <2> QED BY <2>1, <2>2, <2>3, <2>4, <2>5 DEF VoteInv
<1>5. ASSUME NEW c \in CaseIds, finalize_case(c), UNCHANGED now
      PROVE  VoteInv'
  <2> DEFINE k == [kase[c] EXCEPT !.has_final_outcome = TRUE,
                                  !.final_outcome = Tally(kase[c].votes),
                                  !.status = "Finalized"]
  <2>1. /\ kase' = [kase EXCEPT ![c] = k] /\ revealed' = revealed
        /\ now > kase[c].reveal_end
    BY <1>5 DEF finalize_case, CanFinalize, ballotVars
  <2>2. /\ k.status = "Finalized" /\ k.commit_end = kase[c].commit_end
        /\ k.reveal_end = kase[c].reveal_end /\ k.votes = kase[c].votes
        /\ k.final_outcome = Tally(kase[c].votes)
    BY <1>1 DEF CaseRecord
  <2> HIDE DEF k
  <2>3. kase'[c] = k /\ \A n \in CaseIds : n # c => kase'[n] = kase[n]
    BY <1>1, <2>1
  <2>4. Tally(k.votes) = Tally(kase[c].votes)
    BY <2>2
  <2>5. \A n \in CaseIds, v \in Members : revealed'[n][v] # "none" =>
          kase'[n].status # "None" /\ now' > kase'[n].commit_end
    BY <1>5, <2>1, <2>2, <2>3 DEF VoteInv
  <2>6. \A n \in CaseIds : kase'[n].has_final_outcome =>
          now' > kase'[n].reveal_end /\ kase'[n].final_outcome = Tally(kase'[n].votes)
    BY <1>5, <2>1, <2>2, <2>3, <2>4 DEF VoteInv
  <2>7. \A n \in CaseIds : Tally(kase[n].votes)' = Tally(kase'[n].votes)
    BY DEF Tally
  <2> QED BY <2>5, <2>6, <2>7 DEF VoteInv
<1> QED BY <1>2, <1>3, <1>4, <1>5, CaseChanges DEF CaseStep

\* While a vote is revealed, no transaction adds a commitment to its case.
LEMMA CommitmentStep ==
    ASSUME TInv, VoteInv, [Next]_vars
    PROVE  CommitmentsClosed \/ UNCHANGED vars
<1> USE DEF registryVars, vaultVars, councilVars, ballotVars, oracleVars
<1>1. ASSUME NEW v \in Members, NEW c \in CaseIds, NEW o \in Outcomes, CommitVote(v, c, o)
      PROVE  CommitmentsClosed
  <2>1. /\ commitment' = [commitment EXCEPT ![c] = [commitment[c] EXCEPT ![v] = o]]
        /\ now <= kase[c].commit_end
    BY <1>1 DEF CommitVote, commit_vote
  <2>2. now \in Nat /\ kase[c].commit_end \in Nat
    BY DEF TInv, TypeOK, CouncilTypeOK, CaseRecord
  <2>3. \A w \in Members : revealed[c][w] = "none"
    BY <2>1, <2>2 DEF VoteInv
  <2>4. \A n \in CaseIds : n # c => commitment'[n] = commitment[n]
    BY <2>1 DEF TInv, TypeOK, CouncilTypeOK
  <2> QED BY <2>3, <2>4 DEF CommitmentsClosed
<1>2. CASE UNCHANGED commitment
  BY <1>2 DEF CommitmentsClosed
<1>3. ASSUME NEW m \in Markets, NEW s \in MarketStatuses,
             CreateMarket(m) \/ CloseTrading(m) \/ SetStatus(m, s)
      PROVE  UNCHANGED commitment
  BY <1>3 DEF CreateMarket, CloseTrading, SetStatus, OthersThanRegistry
<1>4. ASSUME NEW m \in Markets, RequestResolution(m)
      PROVE  UNCHANGED commitment
  BY <1>4 DEF RequestResolution, request_resolution
<1>5. ASSUME NEW u \in Users, NEW r \in RequestIds, NEW o \in Outcomes,
             ProposeOutcome(u, r, o) \/ DisputeOutcome(u, r, o)
      PROVE  UNCHANGED commitment
  BY <1>5 DEF ProposeOutcome, propose_outcome, DisputeOutcome, dispute_outcome
<1>6. ASSUME NEW r \in RequestIds, FinalizeUndisputed(r) \/ EscalateToCouncil(r)
      PROVE  UNCHANGED commitment
  BY <1>6 DEF FinalizeUndisputed, finalize_undisputed, EscalateToCouncil, escalate_to_council,
     open_case
<1>7. ASSUME NEW c \in CaseIds, FinalizeCase(c) \/ FinalizeAndReportCase(c) \/ SweepCaseReward(c)
      PROVE  UNCHANGED commitment
  BY <1>7 DEF FinalizeCase, FinalizeAndReportCase, finalize_case, SweepCaseReward, sweep_case_reward
<1>8. ASSUME NEW u \in Users, NEW r \in RequestIds, NEW m \in Markets, NEW a \in DirectAmounts,
             NEW d \in BOOLEAN, LockBond(u, r, m, a, d)
      PROVE  UNCHANGED commitment
  BY <1>8 DEF LockBond
<1>9. ASSUME NEW s \in Splits, SetBondSplit(s)
      PROVE  UNCHANGED commitment
  BY <1>9 DEF SetBondSplit
<1>10. ASSUME NEW v \in Members, NEW c \in CaseIds, NEW o \in Outcomes,
              RevealVote(v, c, o) \/ ClaimReward(v, c)
       PROVE  UNCHANGED commitment
  BY <1>10 DEF RevealVote, reveal_vote, ClaimReward, claim_reward
<1>11. ASSUME NEW v \in Members, NEW b \in BOOLEAN, SetMember(v, b)
       PROVE  UNCHANGED commitment
  BY <1>11 DEF SetMember, set_member
<1>12. ASSUME NEW b \in BOOLEAN, PauseOracle(b) \/ PauseCouncil(b)
       PROVE  UNCHANGED commitment
  BY <1>12 DEF PauseOracle, PauseCouncil, pause_council
<1>13. CASE Tick
  BY <1>2, <1>13 DEF Tick
<1>14. "Yes" \in Outcomes /\ "Live" \in MarketStatuses
  BY DEF Outcomes, MarketStatuses
<1> QED BY <1>1, <1>2, <1>3, <1>4, <1>5, <1>6, <1>7, <1>8, <1>9, <1>10, <1>11, <1>12, <1>13, <1>14
        DEF Next

\* Nobody commits a vote in a case where a vote is already revealed, whatever
\* governance does to the membership meanwhile and however the windows of
\* concurrent cases overlap.
THEOREM BallotsStaySealed == Spec => SealedBallots
<1> DEFINE I == TInv /\ VoteInv
<1>1. Init => I
  BY InitTInv, InitVote
<1>2. I /\ [Next]_vars => I'
  BY StepTInv, StepVote
<1>3. I /\ [Next]_vars => [CommitmentsClosed]_vars
  BY CommitmentStep
<1> HIDE DEF I
<1> QED BY <1>1, <1>2, <1>3, PTL DEF Spec, SealedBallots

\* A request has an outcome only when finalized: the one of its case when it
\* was disputed, the proposed one otherwise.
DecidedAt(r) ==
    LET q == request[r]
        c == requestCase[r]
    IN  /\ q.has_final_outcome => q.status = "Finalized"
        /\ q.status = "Finalized" /\ q.has_dispute =>
             c # 0 /\ kase[c].has_final_outcome /\ q.final_outcome = kase[c].final_outcome
        /\ q.status = "Finalized" /\ ~q.has_dispute => q.final_outcome = q.proposed_outcome

DecisionInv == \A r \in RequestIds : DecidedAt(r)

\* The transactions that write a request.
RequestStep ==
    \/ UNCHANGED <<request, nextRequestId>>
    \/ \E m \in Markets : RequestResolution(m)
    \/ \E u \in Users, r \in RequestIds, o \in Outcomes :
          ProposeOutcome(u, r, o) \/ DisputeOutcome(u, r, o)
    \/ \E r \in RequestIds : FinalizeUndisputed(r) \/ EscalateToCouncil(r)
    \/ \E c \in CaseIds : FinalizeAndReportCase(c)

\* No other transaction touches the requests.
LEMMA RequestChanges ==
    ASSUME [Next]_vars
    PROVE  RequestStep
<1> USE DEF oracleVars
<1>1. CASE UNCHANGED <<request, nextRequestId>>
  BY <1>1 DEF RequestStep
<1>2. ASSUME NEW m \in Markets, NEW s \in MarketStatuses,
             CreateMarket(m) \/ CloseTrading(m) \/ SetStatus(m, s)
      PROVE  UNCHANGED <<request, nextRequestId>>
  BY <1>2 DEF CreateMarket, CloseTrading, SetStatus, OthersThanRegistry
<1>3. ASSUME NEW u \in Users, NEW r \in RequestIds, NEW m \in Markets, NEW a \in DirectAmounts,
             NEW d \in BOOLEAN, LockBond(u, r, m, a, d)
      PROVE  UNCHANGED <<request, nextRequestId>>
  BY <1>3 DEF LockBond
<1>4. ASSUME NEW s \in Splits, SetBondSplit(s)
      PROVE  UNCHANGED <<request, nextRequestId>>
  BY <1>4 DEF SetBondSplit
<1>5. ASSUME NEW v \in Members, NEW c \in CaseIds, NEW o \in Outcomes,
             CommitVote(v, c, o) \/ RevealVote(v, c, o) \/ ClaimReward(v, c)
      PROVE  UNCHANGED <<request, nextRequestId>>
  BY <1>5 DEF CommitVote, RevealVote, ClaimReward, OthersThanCouncil
<1>6. ASSUME NEW c \in CaseIds, FinalizeCase(c) \/ SweepCaseReward(c)
      PROVE  UNCHANGED <<request, nextRequestId>>
  BY <1>6 DEF FinalizeCase, SweepCaseReward, OthersThanCouncil
<1>7. ASSUME NEW v \in Members, NEW b \in BOOLEAN, SetMember(v, b)
      PROVE  UNCHANGED <<request, nextRequestId>>
  BY <1>7 DEF SetMember, OthersThanCouncil
<1>8. ASSUME NEW b \in BOOLEAN, PauseOracle(b) \/ PauseCouncil(b)
      PROVE  UNCHANGED <<request, nextRequestId>>
  BY <1>8 DEF PauseOracle, pause_oracle, PauseCouncil, OthersThanCouncil
<1>9. CASE Tick \/ UNCHANGED vars
  BY <1>1, <1>9 DEF Tick, vars
<1>10. "Yes" \in Outcomes /\ "Live" \in MarketStatuses
  BY DEF Outcomes, MarketStatuses
<1>11. CASE \/ \E m \in Markets : RequestResolution(m)
            \/ \E u \in Users, r \in RequestIds, o \in Outcomes :
                  ProposeOutcome(u, r, o) \/ DisputeOutcome(u, r, o)
            \/ \E r \in RequestIds : FinalizeUndisputed(r) \/ EscalateToCouncil(r)
            \/ \E c \in CaseIds : FinalizeAndReportCase(c)
  BY <1>11 DEF RequestStep
<1> QED BY <1>1, <1>2, <1>3, <1>4, <1>5, <1>6, <1>7, <1>8, <1>9, <1>10, <1>11 DEF Next

\* No request is finalized at first.
LEMMA InitDecision == Init => DecisionInv
BY DEF Init, OracleInit, NoRequest, DecisionInv, DecidedAt

\* A request that a step leaves alone stays decided: its case is frozen.
LEMMA KeptDecision ==
    ASSUME TInv, VoteInv, DecisionInv, [Next]_vars, NEW r \in RequestIds, request'[r] = request[r]
    PROVE  DecidedAt(r)'
<1>1. requestCase[r] # 0 => requestCase[r] \in CaseIds /\ requestCase'[r] = requestCase[r]
  BY CasesFrozen DEF TInv, TypeOK, CouncilTypeOK
<1>2. requestCase[r] # 0 /\ kase[requestCase[r]].has_final_outcome
        => kase'[requestCase[r]] = kase[requestCase[r]]
  BY <1>1, CasesFrozen
<1> QED BY <1>1, <1>2 DEF DecisionInv, DecidedAt

\* DecisionInv is kept by every step.
LEMMA StepDecision ==
    ASSUME TInv, TInv', VoteInv, DecisionInv, [Next]_vars
    PROVE  DecisionInv'
<1>1. request \in [RequestIds -> RequestRecord]
  BY DEF TInv, TypeOK, OracleTypeOK
<1>2. \A n \in RequestIds : request'[n] = request[n] => DecidedAt(n)'
  BY KeptDecision
<1>3. ASSUME NEW r \in RequestIds, DecidedAt(r)',
             \A n \in RequestIds : n # r => request'[n] = request[n]
      PROVE  DecisionInv'
  BY <1>2, <1>3 DEF DecisionInv
<1>4. CASE UNCHANGED request
  BY <1>2, <1>4 DEF DecisionInv
<1>5. ASSUME NEW m \in Markets, RequestResolution(m)
      PROVE  DecisionInv'
  <2> DEFINE q == [NoRequest EXCEPT !.status = "Requested", !.market = m]
  <2>1. PICK r \in RequestIds : r = nextRequestId
    BY <1>5 DEF RequestResolution, request_resolution
  <2>2. request' = [request EXCEPT ![r] = q]
    BY <1>5, <2>1 DEF RequestResolution, request_resolution
  <2>3. q.status = "Requested" /\ q.has_final_outcome = FALSE
    BY DEF NoRequest
  <2> HIDE DEF q
  <2>4. request'[r] = q /\ \A n \in RequestIds : n # r => request'[n] = request[n]
    BY <1>1, <2>2
  <2> QED BY <1>3, <2>3, <2>4 DEF DecidedAt
<1>6. ASSUME NEW u \in Users, NEW r \in RequestIds, NEW o \in Outcomes,
             ProposeOutcome(u, r, o) \/ DisputeOutcome(u, r, o)
      PROVE  DecisionInv'
  <2>1. request[r].status \in {"Requested", "Proposed"}
    BY <1>6 DEF ProposeOutcome, DisputeOutcome, dispute_outcome
  <2>2. /\ request'[r].status \in {"Proposed", "Disputed"}
        /\ request'[r].has_final_outcome = request[r].has_final_outcome
        /\ \A n \in RequestIds : n # r => request'[n] = request[n]
    <3>1. CASE ProposeOutcome(u, r, o)
      <4> DEFINE q == [request[r] EXCEPT !.status = "Proposed", !.has_proposal = TRUE,
                                         !.proposer = u, !.proposed_outcome = o,
                                         !.proposed_at = now]
      <4>1. request' = [request EXCEPT ![r] = q]
        BY <3>1 DEF ProposeOutcome, propose_outcome
      <4>2. q.status = "Proposed" /\ q.has_final_outcome = request[r].has_final_outcome
        BY <1>1 DEF RequestRecord
      <4> HIDE DEF q
      <4> QED BY <1>1, <4>1, <4>2
    <3>2. CASE DisputeOutcome(u, r, o)
      <4> DEFINE q == [request[r] EXCEPT !.status = "Disputed", !.has_dispute = TRUE,
                                         !.disputer = u, !.disputed_outcome = o]
      <4>1. request' = [request EXCEPT ![r] = q]
        BY <3>2 DEF DisputeOutcome, dispute_outcome
      <4>2. q.status = "Disputed" /\ q.has_final_outcome = request[r].has_final_outcome
        BY <1>1 DEF RequestRecord
      <4> HIDE DEF q
      <4> QED BY <1>1, <4>1, <4>2
    <3> QED BY <1>6, <3>1, <3>2
  <2>3. ~request[r].has_final_outcome
    BY <2>1 DEF DecisionInv, DecidedAt
  <2>4. DecidedAt(r)'
    BY <2>2, <2>3 DEF DecidedAt
  <2> QED BY <1>3, <2>2, <2>4
<1>7. ASSUME NEW r \in RequestIds, EscalateToCouncil(r)
      PROVE  DecisionInv'
  <2> DEFINE q == [request[r] EXCEPT !.status = "Escalated"]
  <2>1. request' = [request EXCEPT ![r] = q] /\ request[r].status = "Disputed"
    BY <1>7 DEF EscalateToCouncil, escalate_to_council
  <2>2. q.status = "Escalated" /\ q.has_final_outcome = request[r].has_final_outcome
    BY <1>1 DEF RequestRecord
  <2> HIDE DEF q
  <2>3. request'[r] = q /\ \A n \in RequestIds : n # r => request'[n] = request[n]
    BY <1>1, <2>1
  <2>4. ~request[r].has_final_outcome
    BY <2>1 DEF DecisionInv, DecidedAt
  <2>5. DecidedAt(r)'
    BY <2>2, <2>3, <2>4 DEF DecidedAt
  <2> QED BY <1>3, <2>3, <2>5
<1>8. ASSUME NEW r \in RequestIds, FinalizeUndisputed(r)
      PROVE  DecisionInv'
  <2> DEFINE q == [request[r] EXCEPT !.status = "Finalized", !.has_final_outcome = TRUE,
                                     !.final_outcome = request[r].proposed_outcome]
  <2>1. request' = [request EXCEPT ![r] = q] /\ request[r].status = "Proposed"
    BY <1>8 DEF FinalizeUndisputed, finalize_undisputed, Finalized
  <2>2. /\ q.status = "Finalized" /\ q.has_dispute = request[r].has_dispute
        /\ q.final_outcome = request[r].proposed_outcome
        /\ q.proposed_outcome = request[r].proposed_outcome
    BY <1>1 DEF RequestRecord
  <2> HIDE DEF q
  <2>3. request'[r] = q /\ \A n \in RequestIds : n # r => request'[n] = request[n]
    BY <1>1, <2>1
  <2>4. ~request[r].has_dispute
    BY <2>1 DEF TInv, RequestShape
  <2>5. DecidedAt(r)'
    BY <2>2, <2>3, <2>4 DEF DecidedAt
  <2> QED BY <1>3, <2>3, <2>5
<1>9. ASSUME NEW c \in CaseIds, FinalizeAndReportCase(c)
      PROVE  DecisionInv'
  <2>1. PICK o \in Outcomes : o = Tally(kase[c].votes)
    BY DEF Tally, Outcomes
  <2>2. finalize_case(c) /\ kase[c].status # "None"
    BY <1>9 DEF FinalizeAndReportCase, finalize_case, CanFinalize
  <2>3. PICK r \in RequestIds : r = kase[c].request /\ requestCase[r] = c
    BY <2>2 DEF TInv, CaseShape
  <2> DEFINE q == [request[r] EXCEPT !.status = "Finalized", !.has_final_outcome = TRUE,
                                     !.final_outcome = o]
             k == [kase[c] EXCEPT !.has_final_outcome = TRUE, !.final_outcome = o,
                                  !.status = "Finalized"]
  <2>4. request' = [request EXCEPT ![r] = q] /\ request[r].status = "Escalated"
    BY <1>9, <2>1, <2>3 DEF FinalizeAndReportCase, report_council_outcome, Finalized
  <2>5. kase' = [kase EXCEPT ![c] = k] /\ requestCase' = requestCase
    BY <2>1, <2>2 DEF finalize_case
  <2>6. q.status = "Finalized" /\ q.has_dispute = request[r].has_dispute /\ q.final_outcome = o
    BY <1>1 DEF RequestRecord
  <2>7. k.has_final_outcome = TRUE /\ k.final_outcome = o
    BY DEF TInv, TypeOK, CouncilTypeOK, CaseRecord
  <2> HIDE DEF q, k
  <2>8. /\ request'[r] = q /\ \A n \in RequestIds : n # r => request'[n] = request[n]
        /\ kase'[c] = k
    BY <1>1, <2>4, <2>5 DEF TInv, TypeOK, CouncilTypeOK
  <2>9. request[r].has_dispute
    BY <2>4 DEF TInv, RequestShape
  <2>10. requestCase'[r] = c /\ c # 0
    BY <2>3, <2>5 DEF CaseIds
  <2>11. DecidedAt(r)'
    BY <2>6, <2>7, <2>8, <2>9, <2>10 DEF DecidedAt
  <2> QED BY <1>3, <2>8, <2>11
<1> QED BY <1>4, <1>5, <1>6, <1>7, <1>8, <1>9, RequestChanges DEF RequestStep

\* The outcome of a disputed request is the tally of the votes revealed for
\* it and nothing else; an undisputed one has the proposed outcome.
THEOREM CouncilAlwaysDecides == Spec => []CouncilDecides
<1> DEFINE I == TInv /\ VoteInv /\ DecisionInv
<1>1. Init => I
  BY InitTInv, InitVote, InitDecision
<1>2. I /\ [Next]_vars => I'
  BY StepTInv, StepVote, StepDecision
<1>3. I => CouncilDecides
  <2> SUFFICES ASSUME I, NEW r \in RequestIds, request[r].status = "Finalized"
               PROVE  IF request[r].has_dispute
                      THEN /\ requestCase[r] # 0
                           /\ kase[requestCase[r]].request = r
                           /\ request[r].final_outcome = kase[requestCase[r]].final_outcome
                           /\ request[r].final_outcome = Tally(kase[requestCase[r]].votes)
                      ELSE request[r].final_outcome = request[r].proposed_outcome
    BY DEF CouncilDecides
  <2>1. requestCase[r] # 0 => requestCase[r] \in CaseIds /\ kase[requestCase[r]].request = r
    BY DEF TInv, TypeOK, CouncilTypeOK, CaseShape
  <2> QED BY <2>1 DEF DecisionInv, DecidedAt, VoteInv
<1> HIDE DEF I
<1> QED BY <1>1, <1>2, <1>3, PTL DEF Spec

-----------------------------------------------------------------------------
(* Outcomes are final.                                                     *)

\* A finalized request is never written again.
LEMMA RequestsFrozen ==
    ASSUME TInv, [Next]_vars, NEW n \in RequestIds, request[n].status = "Finalized"
    PROVE  request'[n] = request[n]
<1>1. request \in [RequestIds -> RequestRecord]
  BY DEF TInv, TypeOK, OracleTypeOK
<1>2. ASSUME NEW r \in RequestIds, NEW q, request' = [request EXCEPT ![r] = q],
             request[r].status # "Finalized"
      PROVE  request'[n] = request[n]
  BY <1>1, <1>2
<1>3. ASSUME NEW m \in Markets, RequestResolution(m)
      PROVE  request'[n] = request[n]
  <2> DEFINE q == [NoRequest EXCEPT !.status = "Requested", !.market = m]
  <2>1. nextRequestId \in RequestIds /\ request' = [request EXCEPT ![nextRequestId] = q]
    BY <1>3 DEF RequestResolution, request_resolution
  <2>2. request[nextRequestId].status = "None"
    BY <2>1 DEF TInv, TypeOK, OracleTypeOK, RequestShape
  <2> HIDE DEF q
  <2> QED BY <1>1, <2>1, <2>2
<1>4. ASSUME NEW u \in Users, NEW r \in RequestIds, NEW o \in Outcomes,
             ProposeOutcome(u, r, o) \/ DisputeOutcome(u, r, o)
      PROVE  request'[n] = request[n]
  <2>1. request[r].status # "Finalized"
    BY <1>4 DEF ProposeOutcome, DisputeOutcome, dispute_outcome
  <2>2. \E q : request' = [request EXCEPT ![r] = q]
    BY <1>4 DEF ProposeOutcome, propose_outcome, DisputeOutcome, dispute_outcome
  <2> QED BY <1>2, <2>1, <2>2
<1>5. ASSUME NEW r \in RequestIds, FinalizeUndisputed(r) \/ EscalateToCouncil(r)
      PROVE  request'[n] = request[n]
  <2>1. request[r].status # "Finalized"
    BY <1>5 DEF FinalizeUndisputed, finalize_undisputed, EscalateToCouncil, escalate_to_council
  <2>2. \E q : request' = [request EXCEPT ![r] = q]
    BY <1>5 DEF FinalizeUndisputed, finalize_undisputed, Finalized, EscalateToCouncil,
       escalate_to_council
  <2> QED BY <1>2, <2>1, <2>2
<1>6. ASSUME NEW c \in CaseIds, FinalizeAndReportCase(c)
      PROVE  request'[n] = request[n]
  <2>1. PICK r \in RequestIds : r = kase[c].request
    BY <1>6 DEF FinalizeAndReportCase, finalize_case, CanFinalize, TInv, CaseShape
  <2>2. request[r].status # "Finalized"
    BY <1>6, <2>1 DEF FinalizeAndReportCase, report_council_outcome
  <2>3. \E q : request' = [request EXCEPT ![r] = q]
    BY <1>6, <2>1 DEF FinalizeAndReportCase, report_council_outcome, Finalized
  <2> QED BY <1>2, <2>2, <2>3
<1> QED BY <1>3, <1>4, <1>5, <1>6, RequestChanges DEF RequestStep

\* The writes to the registry: one market's status, or its outcome once.
LEMMA MarketOutcomesKept ==
    ASSUME TInv, [Next]_vars, NEW n \in Markets
    PROVE  KeepsOutcome(market[n], market'[n])
<1>1. market \in [Markets -> MarketRecord] /\ RegistryTypeOK
  BY DEF TInv, TypeOK, RegistryTypeOK
<1>2. ASSUME UNCHANGED market PROVE KeepsOutcome(market[n], market'[n])
  BY <1>2 DEF KeepsOutcome
<1>3. ASSUME NEW m \in Markets, NEW s \in MarketStatuses, transition_internal(m, s)
      PROVE  KeepsOutcome(market[n], market'[n])
  <2>1. /\ market'[m] = [market[m] EXCEPT !.status = s]
        /\ \A j \in Markets : j # m => market'[j] = market[j]
    BY <1>1, <1>3, RegistryStep
  <2> QED BY <1>1, <2>1 DEF KeepsOutcome, MarketRecord
<1>4. ASSUME NEW m \in Markets, NEW o \in Outcomes, set_final_outcome(m, o)
      PROVE  KeepsOutcome(market[n], market'[n])
  <2>1. \A j \in Markets : j # m => market'[j] = market[j]
    BY <1>1, <1>4, FinalOutcomeStep
  <2>2. ~market[m].has_final_outcome
    BY <1>4 DEF set_final_outcome
  <2> QED BY <2>1, <2>2 DEF KeepsOutcome
<1>5. /\ "TradingClosed" \in MarketStatuses /\ "Proposed" \in MarketStatuses
      /\ "Disputed" \in MarketStatuses /\ "CouncilVoting" \in MarketStatuses
  BY DEF MarketStatuses
<1>6. ASSUME NEW m \in Markets, CreateMarket(m)
      PROVE  KeepsOutcome(market[n], market'[n])
  <2>1. market' = [market EXCEPT ![m] = [market[m] EXCEPT !.status = "Live"]]
    BY <1>6 DEF CreateMarket, create_market
  <2> QED BY <1>1, <2>1 DEF KeepsOutcome, MarketRecord
<1>7. ASSUME NEW m \in Markets, NEW s \in MarketStatuses, CloseTrading(m) \/ SetStatus(m, s)
      PROVE  KeepsOutcome(market[n], market'[n])
  BY <1>3, <1>5, <1>7 DEF CloseTrading, close_trading, SetStatus, set_status
<1>8. ASSUME NEW m \in Markets, RequestResolution(m)
      PROVE  KeepsOutcome(market[n], market'[n])
  <2> DEFINE k == [market[m] EXCEPT !.status = "ResolutionRequested", !.has_request = TRUE,
                                    !.request_id = nextRequestId]
  <2>1. market' = [market EXCEPT ![m] = k]
    BY <1>8 DEF RequestResolution, request_resolution, close_and_mark_requested
  <2>2. /\ k.has_final_outcome = market[m].has_final_outcome
        /\ k.final_outcome = market[m].final_outcome
    BY <1>1 DEF MarketRecord
  <2> HIDE DEF k
  <2> QED BY <1>1, <2>1, <2>2 DEF KeepsOutcome
<1>9. ASSUME NEW u \in Users, NEW r \in RequestIds, NEW o \in Outcomes,
             ProposeOutcome(u, r, o) \/ DisputeOutcome(u, r, o)
      PROVE  KeepsOutcome(market[n], market'[n])
  <2>1. request[r].market \in Markets
    BY <1>9 DEF ProposeOutcome, DisputeOutcome, dispute_outcome, TInv, RequestShape
  <2> QED BY <1>3, <1>5, <1>9, <2>1 DEF ProposeOutcome, propose_outcome, mark_proposed,
          DisputeOutcome, dispute_outcome, mark_disputed
<1>10. ASSUME NEW r \in RequestIds, FinalizeUndisputed(r) \/ EscalateToCouncil(r)
       PROVE  KeepsOutcome(market[n], market'[n])
  <2>1. request[r].market \in Markets /\ request[r].proposed_outcome \in Outcomes
    BY <1>10 DEF FinalizeUndisputed, finalize_undisputed, EscalateToCouncil, escalate_to_council,
       TInv, TypeOK, OracleTypeOK, RequestRecord, RequestShape
  <2> QED BY <1>3, <1>4, <1>5, <1>10, <2>1 DEF FinalizeUndisputed, finalize_undisputed,
          EscalateToCouncil, escalate_to_council, mark_council_voting
<1>11. ASSUME NEW c \in CaseIds, FinalizeAndReportCase(c)
       PROVE  KeepsOutcome(market[n], market'[n])
  <2>1. PICK r \in RequestIds : r = kase[c].request
    BY <1>11 DEF FinalizeAndReportCase, finalize_case, CanFinalize, TInv, CaseShape
  <2>2. PICK o \in Outcomes : o = Tally(kase[c].votes)
    BY DEF Tally, Outcomes
  <2>3. request[r].status = "Escalated" /\ set_final_outcome(request[r].market, o)
    BY <1>11, <2>1, <2>2 DEF FinalizeAndReportCase, report_council_outcome
  <2>4. request[r].market \in Markets
    BY <2>3 DEF TInv, RequestShape
  <2> QED BY <1>4, <2>3, <2>4
<1> USE DEF registryVars
<1>12. ASSUME NEW u \in Users, NEW r \in RequestIds, NEW m \in Markets, NEW a \in DirectAmounts,
              NEW d \in BOOLEAN, LockBond(u, r, m, a, d)
       PROVE  UNCHANGED market
  BY <1>12 DEF LockBond
<1>13. ASSUME NEW s \in Splits, SetBondSplit(s)
       PROVE  UNCHANGED market
  BY <1>13 DEF SetBondSplit
<1>14. ASSUME NEW v \in Members, NEW c \in CaseIds, NEW o \in Outcomes,
              CommitVote(v, c, o) \/ RevealVote(v, c, o) \/ ClaimReward(v, c)
       PROVE  UNCHANGED market
  BY <1>14 DEF CommitVote, RevealVote, ClaimReward, OthersThanCouncil
<1>15. ASSUME NEW c \in CaseIds, FinalizeCase(c) \/ SweepCaseReward(c)
       PROVE  UNCHANGED market
  BY <1>15 DEF FinalizeCase, SweepCaseReward, OthersThanCouncil
<1>16. ASSUME NEW v \in Members, NEW b \in BOOLEAN, SetMember(v, b)
       PROVE  UNCHANGED market
  BY <1>16 DEF SetMember, OthersThanCouncil
<1>17. ASSUME NEW b \in BOOLEAN, PauseOracle(b) \/ PauseCouncil(b)
       PROVE  UNCHANGED market
  BY <1>17 DEF PauseOracle, PauseCouncil, OthersThanCouncil
<1>18. ASSUME Tick \/ UNCHANGED vars
       PROVE  UNCHANGED market
  BY <1>18 DEF Tick, vars
<1>19. "Yes" \in Outcomes /\ "Live" \in MarketStatuses
  BY DEF Outcomes, MarketStatuses
<1> QED BY <1>2, <1>6, <1>7, <1>8, <1>9, <1>10, <1>11, <1>12, <1>13, <1>14, <1>15, <1>16, <1>17,
        <1>18, <1>19 DEF Next

\* No transaction changes an outcome once any of the three contracts has set
\* it, governance's set_status included.
THEOREM OutcomesStayFinal == Spec => OutcomesAreFinal
<1> DEFINE I == TInv /\ VoteInv /\ DecisionInv
<1>1. Init => I
  BY InitTInv, InitVote, InitDecision
<1>2. I /\ [Next]_vars => I'
  BY StepTInv, StepVote, StepDecision
<1>3. I /\ [Next]_vars => [OutcomesKept]_vars
  <2> SUFFICES ASSUME I, [Next]_vars PROVE OutcomesKept
    OBVIOUS
  <2>1. \A m \in Markets : KeepsOutcome(market[m], market'[m])
    BY MarketOutcomesKept
  <2>2. \A r \in RequestIds : KeepsOutcome(request[r], request'[r])
    BY RequestsFrozen DEF KeepsOutcome, DecisionInv, DecidedAt
  <2>3. \A c \in CaseIds : KeepsOutcome(kase[c], kase'[c])
    BY CasesFrozen DEF KeepsOutcome
  <2> QED BY <2>1, <2>2, <2>3 DEF OutcomesKept
<1> HIDE DEF I
<1> QED BY <1>1, <1>2, <1>3, PTL DEF Spec, OutcomesAreFinal


-----------------------------------------------------------------------------
(* Resolution implements MarketLifecycle.                                  *)

\* The status of one market changes and nothing else of any market; or one
\* market gets its outcome.
Marked(m, s) ==
    /\ now' = now /\ \A n \in Markets : n # m => market'[n] = market[n]
    /\ market'[m].status = s
    /\ market'[m].has_final_outcome = market[m].has_final_outcome
    /\ market'[m].final_outcome = market[m].final_outcome

Settled(m, o) ==
    /\ now' = now /\ \A n \in Markets : n # m => market'[n] = market[n]
    /\ market[m].status \in {"Proposed", "CouncilVoting"}
    /\ market'[m].status = "Resolved"
    /\ market'[m].has_final_outcome /\ market'[m].final_outcome = o

\* The changes of status under operational governance.
StatusSteps ==
    {<<"None", "Live">>, <<"Live", "Paused">>, <<"Paused", "Live">>, <<"Live", "TradingClosed">>,
     <<"Paused", "TradingClosed">>, <<"Live", "Cancelled">>, <<"Paused", "Cancelled">>,
     <<"Live", "ResolutionRequested">>, <<"TradingClosed", "ResolutionRequested">>,
     <<"ResolutionRequested", "Proposed">>, <<"Proposed", "Disputed">>,
     <<"Disputed", "CouncilVoting">>}

LEMMA TransitionMarks ==
    ASSUME TInv, NEW m \in Markets, NEW s \in MarketStatuses, transition_internal(m, s), now' = now
    PROVE  Marked(m, s) /\ valid_transition(market[m].status, s)
<1>1. RegistryTypeOK /\ market[m] \in MarketRecord
  BY DEF TInv, TypeOK, RegistryTypeOK
<1>2. /\ market'[m] = [market[m] EXCEPT !.status = s]
      /\ \A n \in Markets : n # m => market'[n] = market[n]
      /\ valid_transition(market[m].status, s)
  BY <1>1, RegistryStep
<1> QED BY <1>1, <1>2 DEF Marked, MarketRecord

LEMMA OutcomeSettles ==
    ASSUME TInv, NEW m \in Markets, NEW o \in Outcomes, set_final_outcome(m, o), now' = now
    PROVE  Settled(m, o)
<1>1. RegistryTypeOK /\ market[m] \in MarketRecord
  BY DEF TInv, TypeOK, RegistryTypeOK
<1>2. /\ market'[m] = [market[m] EXCEPT !.status = "Resolved", !.has_final_outcome = TRUE,
                                        !.final_outcome = o]
      /\ \A n \in Markets : n # m => market'[n] = market[n]
  BY <1>1, FinalOutcomeStep, Zenon
<1>3. /\ market'[m].status = "Resolved" /\ market'[m].has_final_outcome = TRUE
      /\ market'[m].final_outcome = o
  BY <1>1, <1>2 DEF MarketRecord
<1>4. market[m].status \in {"Proposed", "CouncilVoting"}
  BY DEF set_final_outcome
<1> QED BY <1>2, <1>3, <1>4 DEF Settled

\* Every transaction, as the registry's readers see it.
MarketStep ==
    \/ UNCHANGED <<market, now>>
    \/ market' = market /\ now' = now + 1
    \/ \E m \in Markets, s \in MarketStatuses :
         /\ Marked(m, s) /\ <<market[m].status, s>> \in StatusSteps
         /\ market[m].status = "None" => now < Expiry[m]
    \/ \E m \in Markets, o \in Outcomes : Settled(m, o)

LEMMA MarketMoves ==
    ASSUME OperationalGovernance, TInv, PhaseInv, [Next]_vars
    PROVE  MarketStep
<1>1. market \in [Markets -> MarketRecord]
  BY DEF TInv, TypeOK, RegistryTypeOK
<1>2. /\ "TradingClosed" \in MarketStatuses /\ "Proposed" \in MarketStatuses
      /\ "Disputed" \in MarketStatuses /\ "CouncilVoting" \in MarketStatuses
      /\ "Live" \in MarketStatuses /\ "ResolutionRequested" \in MarketStatuses
  BY DEF MarketStatuses
<1>3. \A m \in Markets : market[m].status # "Created"
  <2> SUFFICES ASSUME NEW m \in Markets, market[m].status = "Created" PROVE FALSE
    OBVIOUS
  <2>1. marketRequest[m] = 0
    BY NoRequestYet
  <2> QED BY <2>1 DEF PhaseInv, PhaseAgreement, AgreesAt
<1>4. ASSUME NEW m \in Markets, NEW s \in MarketStatuses, transition_internal(m, s), now' = now,
             s # "Resolved", s # "Live" \/ market[m].status = "Paused"
      PROVE  MarketStep
  <2>1. Marked(m, s) /\ valid_transition(market[m].status, s)
    BY <1>4, TransitionMarks
  <2>2. <<market[m].status, s>> \in StatusSteps /\ market[m].status # "None"
    BY <1>3, <1>4, <2>1 DEF valid_transition, StatusSteps
  <2> QED BY <2>1, <2>2 DEF MarketStep
<1>5. ASSUME NEW m \in Markets, NEW o \in Outcomes, set_final_outcome(m, o), now' = now
      PROVE  MarketStep
  BY <1>5, OutcomeSettles DEF MarketStep
<1>6. ASSUME NEW m \in Markets, CreateMarket(m)
      PROVE  MarketStep
  <2>1. /\ market' = [market EXCEPT ![m] = [market[m] EXCEPT !.status = "Live"]]
        /\ m = nextMarketId /\ now < Expiry[m] /\ now' = now
    BY <1>6 DEF CreateMarket, create_market, validate_config, OthersThanRegistry
  <2>2. market[m].status = "None" /\ market[m] \in MarketRecord
    BY <1>1, <2>1 DEF PhaseInv, Markets
  <2>3. Marked(m, "Live")
    BY <1>1, <2>1, <2>2 DEF Marked, MarketRecord
  <2>4. <<market[m].status, "Live">> \in StatusSteps
    BY <2>2 DEF StatusSteps
  <2> QED BY <1>2, <2>1, <2>3, <2>4 DEF MarketStep
<1>7. ASSUME NEW m \in Markets, CloseTrading(m)
      PROVE  MarketStep
  BY <1>2, <1>4, <1>7 DEF CloseTrading, close_trading, OthersThanRegistry
<1>8. ASSUME NEW m \in Markets, NEW s \in MarketStatuses, SetStatus(m, s)
      PROVE  MarketStep
  <2>1. transition_internal(m, s) /\ now' = now /\ <<market[m].status, s>> \in GovTransitions
    BY <1>8 DEF SetStatus, set_status, OthersThanRegistry
  <2>2. market[m].status \in {"Live", "Paused"}
    BY <1>3, <2>1 DEF OperationalGovernance
  <2>3. valid_transition(market[m].status, s)
    BY <2>1 DEF transition_internal
  <2>4. s # "Resolved" /\ (s # "Live" \/ market[m].status = "Paused")
    BY <2>2, <2>3 DEF valid_transition
  <2> QED BY <1>4, <2>1, <2>4
<1>9. ASSUME NEW m \in Markets, RequestResolution(m)
      PROVE  MarketStep
  <2> DEFINE k == [market[m] EXCEPT !.status = "ResolutionRequested", !.has_request = TRUE,
                                    !.request_id = nextRequestId]
  <2>1. market' = [market EXCEPT ![m] = k] /\ now' = now /\ market[m].status \in {"Live", "TradingClosed"}
    BY <1>9 DEF RequestResolution, request_resolution, close_and_mark_requested
  <2>2. /\ k.has_final_outcome = market[m].has_final_outcome
        /\ k.final_outcome = market[m].final_outcome /\ k.status = "ResolutionRequested"
    BY <1>1 DEF MarketRecord
  <2> HIDE DEF k
  <2>3. Marked(m, "ResolutionRequested")
    BY <1>1, <2>1, <2>2 DEF Marked
  <2>4. <<market[m].status, "ResolutionRequested">> \in StatusSteps
    BY <2>1 DEF StatusSteps
  <2> QED BY <1>2, <2>1, <2>3, <2>4 DEF MarketStep
<1>10. ASSUME NEW u \in Users, NEW r \in RequestIds, NEW o \in Outcomes,
              ProposeOutcome(u, r, o) \/ DisputeOutcome(u, r, o)
       PROVE  MarketStep
  <2>1. request[r].market \in Markets
    BY <1>10 DEF ProposeOutcome, DisputeOutcome, dispute_outcome, TInv, RequestShape
  <2> QED BY <1>2, <1>4, <1>10, <2>1 DEF ProposeOutcome, propose_outcome, mark_proposed,
          DisputeOutcome, dispute_outcome, mark_disputed
<1>11. ASSUME NEW r \in RequestIds, FinalizeUndisputed(r) \/ EscalateToCouncil(r)
       PROVE  MarketStep
  <2>1. request[r].market \in Markets /\ request[r].proposed_outcome \in Outcomes
    BY <1>11 DEF FinalizeUndisputed, finalize_undisputed, EscalateToCouncil, escalate_to_council,
       TInv, TypeOK, OracleTypeOK, RequestRecord, RequestShape
  <2> QED BY <1>2, <1>4, <1>5, <1>11, <2>1 DEF FinalizeUndisputed, finalize_undisputed,
          EscalateToCouncil, escalate_to_council, mark_council_voting
<1>12. ASSUME NEW c \in CaseIds, FinalizeAndReportCase(c)
       PROVE  MarketStep
  <2>1. PICK r \in RequestIds : r = kase[c].request
    BY <1>12 DEF FinalizeAndReportCase, finalize_case, CanFinalize, TInv, CaseShape
  <2>2. PICK o \in Outcomes : o = Tally(kase[c].votes)
    BY DEF Tally, Outcomes
  <2>3. request[r].status = "Escalated" /\ set_final_outcome(request[r].market, o) /\ now' = now
    BY <1>12, <2>1, <2>2 DEF FinalizeAndReportCase, report_council_outcome
  <2>4. request[r].market \in Markets
    BY <2>3 DEF TInv, RequestShape
  <2> QED BY <1>5, <2>3, <2>4
<1> USE DEF registryVars
<1>13. ASSUME NEW u \in Users, NEW r \in RequestIds, NEW m \in Markets, NEW a \in DirectAmounts,
              NEW d \in BOOLEAN, LockBond(u, r, m, a, d)
       PROVE  UNCHANGED <<market, now>>
  BY <1>13 DEF LockBond
<1>14. ASSUME NEW s \in Splits, SetBondSplit(s)
       PROVE  UNCHANGED <<market, now>>
  BY <1>14 DEF SetBondSplit
<1>15. ASSUME NEW v \in Members, NEW c \in CaseIds, NEW o \in Outcomes,
              CommitVote(v, c, o) \/ RevealVote(v, c, o) \/ ClaimReward(v, c)
       PROVE  UNCHANGED <<market, now>>
  BY <1>15 DEF CommitVote, RevealVote, ClaimReward, OthersThanCouncil
<1>16. ASSUME NEW c \in CaseIds, FinalizeCase(c) \/ SweepCaseReward(c)
       PROVE  UNCHANGED <<market, now>>
  BY <1>16 DEF FinalizeCase, SweepCaseReward, OthersThanCouncil
<1>17. ASSUME NEW v \in Members, NEW b \in BOOLEAN, SetMember(v, b)
       PROVE  UNCHANGED <<market, now>>
  BY <1>17 DEF SetMember, OthersThanCouncil
<1>18. ASSUME NEW b \in BOOLEAN, PauseOracle(b) \/ PauseCouncil(b)
       PROVE  UNCHANGED <<market, now>>
  BY <1>18 DEF PauseOracle, PauseCouncil, OthersThanCouncil
<1>19. ASSUME Tick PROVE market' = market /\ now' = now + 1
  BY <1>19 DEF Tick
<1>20. ASSUME UNCHANGED vars PROVE UNCHANGED <<market, now>>
  BY <1>20 DEF vars
<1>21. "Yes" \in Outcomes
  BY DEF Outcomes
<1>22. ASSUME UNCHANGED <<market, now>> \/ (market' = market /\ now' = now + 1) PROVE MarketStep
  BY <1>22 DEF MarketStep
<1> QED BY <1>2, <1>6, <1>7, <1>8, <1>9, <1>10, <1>11, <1>12, <1>13, <1>14, <1>15, <1>16, <1>17,
        <1>18, <1>19, <1>20, <1>21, <1>22 DEF Next


\* The two state functions of the refinement, market by market.
PhaseAt(m) ==
    CASE market[m].status = "Live" -> IF now < Expiry[m] THEN "Live" ELSE "Expired"
      [] market[m].status = "Paused" -> "Halted"
      [] market[m].status \in {"None", "Resolved", "Cancelled"} -> market[m].status
      [] OTHER -> "Closed"

LEMMA LifeValues ==
    /\ \A m \in Markets : LifePhase[m] = PhaseAt(m)
    /\ \A m \in Markets : market[m].status \in MarketStatuses \cup {"None"} => LifePhase[m] \in Lifecycle!Phases
BY DEF LifePhase, PhaseAt, Lifecycle!Phases

LEMMA LifeValuesNext ==
    /\ LifePhase' = [m \in Markets |-> PhaseAt(m)']
    /\ LifeVerdict' = [m \in Markets |-> IF market'[m].has_final_outcome THEN market'[m].final_outcome ELSE "none"]
    /\ LifePhase = [m \in Markets |-> PhaseAt(m)]
    /\ LifeVerdict = [m \in Markets |-> IF market[m].has_final_outcome THEN market[m].final_outcome ELSE "none"]
BY DEF LifePhase, PhaseAt, LifeVerdict

\* A change of status is a move of the abstract market, or none.
LEMMA MarkedMaps ==
    ASSUME TInv, NEW m \in Markets, NEW s \in MarketStatuses, Marked(m, s),
           <<market[m].status, s>> \in StatusSteps, market[m].status = "None" => now < Expiry[m]
    PROVE  [Lifecycle!LifecycleNext]_(Lifecycle!lifecycleVars)
<1>1. \A n \in Markets : n # m => PhaseAt(n)' = PhaseAt(n)
  BY DEF Marked, PhaseAt
<1>2. UNCHANGED LifeVerdict
  BY LifeValuesNext DEF Marked
<1>3. PICK p : p = PhaseAt(m)'
  OBVIOUS
<1>4. p = PhaseAt(m) \/ (<<PhaseAt(m), p>> \in Lifecycle!Moves /\ p \in Lifecycle!Phases)
  BY <1>3 DEF Marked, PhaseAt, StatusSteps, Lifecycle!Moves, Lifecycle!Phases
<1>5. LifePhase' = [LifePhase EXCEPT ![m] = p]
  BY <1>1, <1>3, LifeValuesNext
<1>6. CASE p = PhaseAt(m)
  BY <1>1, <1>2, <1>3, <1>6, LifeValuesNext DEF Lifecycle!lifecycleVars
<1>7. CASE <<PhaseAt(m), p>> \in Lifecycle!Moves /\ p \in Lifecycle!Phases
  <2>1. Lifecycle!Move(m, p)
    BY <1>2, <1>5, <1>7, LifeValues DEF Lifecycle!Move
  <2> QED BY <1>7, <2>1 DEF Lifecycle!LifecycleNext
<1> QED BY <1>4, <1>6, <1>7

\* An outcome is set where the abstract market is Closed.
LEMMA SettledMaps ==
    ASSUME TInv, NEW m \in Markets, NEW o \in Outcomes, Settled(m, o)
    PROVE  [Lifecycle!LifecycleNext]_(Lifecycle!lifecycleVars)
<1>1. \A n \in Markets : n # m => PhaseAt(n)' = PhaseAt(n)
  BY DEF Settled, PhaseAt
<1>2. PhaseAt(m) = "Closed" /\ PhaseAt(m)' = "Resolved"
  BY DEF Settled, PhaseAt
<1>3. LifePhase[m] = "Closed" /\ LifePhase' = [LifePhase EXCEPT ![m] = "Resolved"]
  BY <1>1, <1>2, LifeValues, LifeValuesNext
<1>4. LifeVerdict' = [LifeVerdict EXCEPT ![m] = o]
  BY LifeValuesNext DEF Settled
<1>5. Lifecycle!Resolve(m, o)
  BY <1>3, <1>4 DEF Lifecycle!Resolve
<1> QED BY <1>5 DEF Lifecycle!LifecycleNext, Lifecycle!Outcomes, Outcomes

\* A second passes: the markets whose expiry it is, expire.
LEMMA TickMaps ==
    ASSUME TInv, market' = market, now' = now + 1
    PROVE  [Lifecycle!LifecycleNext]_(Lifecycle!lifecycleVars)
<1> DEFINE S == {m \in Markets : PhaseAt(m) = "Live" /\ ~(now' < Expiry[m])}
<1>1. now \in Nat /\ \A m \in Markets : Expiry[m] \in Nat
  BY RegistryAssumption DEF TInv, TypeOK
<1>2. \A m \in Markets : PhaseAt(m)' = IF m \in S THEN "Expired" ELSE PhaseAt(m)
  BY <1>1 DEF PhaseAt
<1>3. \A m \in S : LifePhase[m] = "Live"
  BY LifeValues
<1>4. S \in SUBSET Markets
  OBVIOUS
<1> HIDE DEF S
<1>5. LifePhase' = [m \in Markets |-> IF m \in S THEN "Expired" ELSE LifePhase[m]]
  BY <1>2, LifeValues, LifeValuesNext
<1>6. UNCHANGED LifeVerdict
  BY LifeValuesNext
<1>7. Lifecycle!Expire(S)
  BY <1>3, <1>5, <1>6 DEF Lifecycle!Expire
<1> QED BY <1>4, <1>7 DEF Lifecycle!LifecycleNext

(***************************************************************************)
(* Resolution implements MarketLifecycle: for any number of markets,       *)
(* requests and council members, as long as governance leaves markets      *)
(* under resolution to the oracle, the contracts that hold money see a     *)
(* market that is never traded again once closed, is not both resolved and *)
(* cancelled, and gets its one verdict in the step that resolves it        *)
(* (market_registry, cod_oracle, council_of_dike).                         *)
(***************************************************************************)
THEOREM LifecycleRefined ==
    ASSUME OperationalGovernance
    PROVE  Spec => LifecycleImplemented
<1> DEFINE I == TInv /\ PhaseInv
<1>1. Init => I
  BY InitTInv, InitPhase
<1>2. I /\ [Next]_vars => I'
  BY StepTInv, StepPhase
<1>3. Init => Lifecycle!LifecycleInit
  BY DEF Init, RegistryInit, NoMarket, LifePhase, LifeVerdict, Lifecycle!LifecycleInit
<1>4. I /\ [Next]_vars => [Lifecycle!LifecycleNext]_(Lifecycle!lifecycleVars)
  <2> SUFFICES ASSUME TInv, PhaseInv, [Next]_vars
               PROVE  [Lifecycle!LifecycleNext]_(Lifecycle!lifecycleVars)
    OBVIOUS
  <2>1. CASE UNCHANGED <<market, now>>
    BY <2>1, LifeValuesNext DEF PhaseAt, Lifecycle!lifecycleVars
  <2> QED BY <2>1, MarketMoves, MarkedMaps, SettledMaps, TickMaps DEF MarketStep
<1> HIDE DEF I
<1> QED BY <1>1, <1>2, <1>3, <1>4, PTL DEF Spec, LifecycleImplemented, Lifecycle!LifecycleSpec

-----------------------------------------------------------------------------
(* Bonds and balances.                                                     *)

\* A transfer between two accounts moves the amount and nothing else.
LEMMA TransferMoves ==
    ASSUME NEW t \in [Accounts -> Int], NEW f \in Accounts, NEW g \in Accounts, f # g,
           NEW a \in Int
    PROVE  /\ Transferred(t, f, g, a) \in [Accounts -> Int]
           /\ Transferred(t, f, g, a)[f] = t[f] - a
           /\ Transferred(t, f, g, a)[g] = t[g] + a
           /\ \A x \in Accounts : x # f /\ x # g => Transferred(t, f, g, a)[x] = t[x]
BY DEF Transferred

\* The contracts' accounts are accounts, and no user's or member's.
LEMMA ContractAccounts ==
    /\ {"vault", "council", "treasury"} \subseteq Accounts
    /\ \A u \in Users \cup Members :
         u \in Accounts /\ u # "vault" /\ u # "council" /\ u # "treasury"
BY AccountAssumption DEF AccountAssumption, Accounts

\* A payment out of the vault, as the vault and the council see it.
LEMMA VaultPays ==
    ASSUME NEW t \in [Accounts -> Int], NEW g \in Accounts, g # "vault", NEW a \in Int
    PROVE  /\ Transferred(t, "vault", g, a) \in [Accounts -> Int]
           /\ Transferred(t, "vault", g, a)["vault"] = t["vault"] - a
           /\ g = "council" => Transferred(t, "vault", g, a)["council"] = t["council"] + a
           /\ g # "council" => Transferred(t, "vault", g, a)["council"] = t["council"]
<1>1. "vault" \in Accounts /\ "council" \in Accounts /\ "vault" # "council"
  BY ContractAccounts
<1> QED BY <1>1 DEF Transferred

\* There are finitely many keys a bond can be locked under.
LEMMA BondKeysFinite == IsFiniteSet(BondKeys)
<1>1. IsFiniteSet(RequestIds)
  BY BondAssumption, FS_Interval DEF BondAssumption, RequestIds
<1>2. IsFiniteSet(BOOLEAN)
  <2>1. BOOLEAN = {TRUE, FALSE}
    OBVIOUS
  <2>2. IsFiniteSet({TRUE}) /\ IsFiniteSet({FALSE})
    BY FS_Singleton
  <2>3. IsFiniteSet({TRUE} \cup {FALSE})
    BY <2>2, FS_Union
  <2> QED BY <2>1, <2>3
<1>3. IsFiniteSet(Users)
  BY ResolutionAssumption DEF ResolutionAssumption
<1>4. IsFiniteSet((RequestIds \X Users) \X BOOLEAN)
  BY <1>1, <1>2, <1>3, FS_Product
<1> DEFINE P == (RequestIds \X Users) \X BOOLEAN
           h == [p \in P |-> <<p[1][1], p[1][2], p[2]>>]
<1>5. h \in [P -> BondKeys]
  BY DEF BondKeys
<1>6. ASSUME NEW k \in BondKeys PROVE \E p \in P : h[p] = k
  <2>1. k[1] \in RequestIds /\ k[2] \in Users /\ k[3] \in BOOLEAN /\ k = <<k[1], k[2], k[3]>>
    BY DEF BondKeys
  <2>2. <<<<k[1], k[2]>>, k[3]>> \in P
    BY <2>1
  <2>3. h[<<<<k[1], k[2]>>, k[3]>>] = k
    BY <2>1, <2>2
  <2> QED BY <2>2, <2>3
<1> HIDE DEF P, h
<1>7. h \in Surjection(P, BondKeys)
  BY <1>5, <1>6 DEF Surjection
<1> QED BY <1>4, <1>7, FS_Surjection DEF P

\* The amounts that are added up are integers.
LEMMA AmountsAreInt ==
    ASSUME NEW b \in [BondKeys -> BondRecord], NEW m, NEW d, NEW k \in BondKeys
    PROVE  /\ BondAmounts(b)[k] \in Int /\ MarketBonds(b, m, d)[k] \in Int
           /\ BondAmounts(b)[k] = b[k].amount
           /\ MarketBonds(b, m, d)[k] = IF k[3] = d /\ b[k].market = m THEN b[k].amount ELSE 0
<1>1. b[k].amount \in Int
  BY DEF BondRecord
<1> QED BY <1>1 DEF BondAmounts, MarketBonds

\* When one bond changes and stays with its market, the totals change by as
\* much: of all bonds, and of its kind and market.
LEMMA BondChange ==
    ASSUME NEW b \in [BondKeys -> BondRecord], NEW c \in [BondKeys -> BondRecord],
           NEW k \in BondKeys, NEW n \in Markets, c[k].market = n,
           b[k].market = n \/ b[k].amount = 0,
           \A j \in BondKeys : j # k => c[j].amount = b[j].amount /\ c[j].market = b[j].market
    PROVE  /\ SumFunctionOnSet(BondAmounts(c), BondKeys)
                = SumFunctionOnSet(BondAmounts(b), BondKeys) + (c[k].amount - b[k].amount)
           /\ \A m \in Markets, d \in BOOLEAN :
                SumFunctionOnSet(MarketBonds(c, m, d), BondKeys)
                  = SumFunctionOnSet(MarketBonds(b, m, d), BondKeys)
                      + (IF m = n /\ d = k[3] THEN c[k].amount - b[k].amount ELSE 0)
<1>1. SumFunctionOnSet(BondAmounts(c), BondKeys)
        = SumFunctionOnSet(BondAmounts(b), BondKeys) + (c[k].amount - b[k].amount)
  <2> DEFINE f == BondAmounts(b)
             g == BondAmounts(c)
  <2>1. \A x \in BondKeys : f[x] \in Int /\ g[x] \in Int
    BY AmountsAreInt
  <2>2. \A x \in BondKeys \ {k} : g[x] = f[x]
    <3> SUFFICES ASSUME NEW x \in BondKeys, x # k PROVE g[x] = f[x]
      OBVIOUS
    <3>1. f[x] = b[x].amount /\ g[x] = c[x].amount
      BY AmountsAreInt
    <3> QED BY <3>1, Zenon
  <2>3. f[k] = b[k].amount /\ g[k] = c[k].amount
    BY AmountsAreInt
  <2> HIDE DEF f, g
  <2>4. SumFunctionOnSet(g, BondKeys) = SumFunctionOnSet(f, BondKeys) + (g[k] - f[k])
    BY <2>1, <2>2, BondKeysFinite, SumChange
  <2> QED BY <2>3, <2>4 DEF f, g
<1>2. ASSUME NEW m \in Markets, NEW d \in BOOLEAN
      PROVE  SumFunctionOnSet(MarketBonds(c, m, d), BondKeys)
               = SumFunctionOnSet(MarketBonds(b, m, d), BondKeys)
                   + (IF m = n /\ d = k[3] THEN c[k].amount - b[k].amount ELSE 0)
  <2> DEFINE f == MarketBonds(b, m, d)
             g == MarketBonds(c, m, d)
  <2>1. \A x \in BondKeys : f[x] \in Int /\ g[x] \in Int
    BY AmountsAreInt
  <2>2. \A x \in BondKeys \ {k} : g[x] = f[x]
    <3> SUFFICES ASSUME NEW x \in BondKeys, x # k PROVE g[x] = f[x]
      OBVIOUS
    <3>1. /\ f[x] = IF x[3] = d /\ b[x].market = m THEN b[x].amount ELSE 0
          /\ g[x] = IF x[3] = d /\ c[x].market = m THEN c[x].amount ELSE 0
      BY AmountsAreInt
    <3> QED BY <3>1, Zenon
  <2>3. g[k] - f[k] = IF m = n /\ d = k[3] THEN c[k].amount - b[k].amount ELSE 0
    <3>1. /\ f[k] = IF k[3] = d /\ b[k].market = m THEN b[k].amount ELSE 0
          /\ g[k] = IF k[3] = d /\ c[k].market = m THEN c[k].amount ELSE 0
      BY AmountsAreInt
    <3>2. b[k].amount \in Int /\ c[k].amount \in Int
      BY DEF BondRecord
    <3> HIDE DEF f, g
    <3> QED BY <3>1, <3>2
  <2> HIDE DEF f, g
  <2>4. SumFunctionOnSet(g, BondKeys) = SumFunctionOnSet(f, BondKeys) + (g[k] - f[k])
    BY <2>1, <2>2, BondKeysFinite, SumChange
  <2> QED BY <2>3, <2>4 DEF f, g
<1> QED BY <1>1, <1>2

\* The sums are integers.
LEMMA TotalsAreInt ==
    ASSUME NEW b \in [BondKeys -> BondRecord], NEW m, NEW d
    PROVE  /\ SumFunctionOnSet(BondAmounts(b), BondKeys) \in Int
           /\ SumFunctionOnSet(MarketBonds(b, m, d), BondKeys) \in Int
<1> DEFINE f == BondAmounts(b)
           g == MarketBonds(b, m, d)
<1>1. \A x \in BondKeys : f[x] \in Int /\ g[x] \in Int
  BY AmountsAreInt
<1> HIDE DEF f, g
<1>2. SumFunctionOnSet(f, BondKeys) \in Int /\ SumFunctionOnSet(g, BondKeys) \in Int
  BY <1>1, BondKeysFinite, SumInt
<1> QED BY <1>2 DEF f, g

\* A payment out of one bond, debited from its market, keeps the vault covered.
LEMMA PaymentCovered ==
    ASSUME NEW b \in [BondKeys -> BondRecord], NEW c \in [BondKeys -> BondRecord],
           NEW t \in [Markets -> [BOOLEAN -> Int]], NEW v \in Int, NEW a \in Int,
           Covers(v, t, b), NEW k \in BondKeys, k[3] \in BOOLEAN, bond[k].market \in Markets,
           b[k].market = bond[k].market, c[k].market = b[k].market,
           c[k].amount = b[k].amount - a,
           \A j \in BondKeys : j # k => c[j].amount = b[j].amount /\ c[j].market = b[j].market
    PROVE  Covers(v - a, Debited(t, k, a), c)
<1> DEFINE n == bond[k].market
           u == Debited(t, k, a)
<1>1. c[k].amount - b[k].amount = -a
  <2>1. b[k].amount \in Int
    BY DEF BondRecord
  <2> QED BY <2>1
<1>2. \A m \in Markets, d \in BOOLEAN :
        u[m][d] = t[m][d] + (IF m = n /\ d = k[3] THEN -a ELSE 0)
  <2>1. u = [t EXCEPT ![n] = [t[n] EXCEPT ![k[3]] = t[n][k[3]] - a]]
    BY DEF Debited
  <2>2. \A m \in Markets : m # n => u[m] = t[m]
    BY <2>1
  <2>3. u[n] = [t[n] EXCEPT ![k[3]] = t[n][k[3]] - a]
    BY <2>1
  <2> HIDE DEF u, n
  <2>4. \A d \in BOOLEAN : u[n][d] = IF d = k[3] THEN t[n][k[3]] - a ELSE t[n][d]
    BY <2>3 DEF n
  <2>5. n \in Markets
    BY DEF n
  <2> QED BY <2>2, <2>4, <2>5
<1> HIDE DEF u, n
<1>3. SumFunctionOnSet(BondAmounts(c), BondKeys)
        = SumFunctionOnSet(BondAmounts(b), BondKeys) + (c[k].amount - b[k].amount)
  BY BondChange DEF n
<1>4. \A m \in Markets, d \in BOOLEAN :
        SumFunctionOnSet(MarketBonds(c, m, d), BondKeys)
          = SumFunctionOnSet(MarketBonds(b, m, d), BondKeys)
              + (IF m = n /\ d = k[3] THEN c[k].amount - b[k].amount ELSE 0)
  BY BondChange DEF n
<1>5. v - a = SumFunctionOnSet(BondAmounts(c), BondKeys)
  BY <1>1, <1>3, TotalsAreInt DEF Covers
<1>6. ASSUME NEW m \in Markets, NEW d \in BOOLEAN
      PROVE  u[m][d] = SumFunctionOnSet(MarketBonds(c, m, d), BondKeys)
  <2>1. t[m][d] = SumFunctionOnSet(MarketBonds(b, m, d), BondKeys)
    BY DEF Covers
  <2> DEFINE e == IF m = n /\ d = k[3] THEN -a ELSE 0
  <2>2. u[m][d] = t[m][d] + e
    BY <1>2
  <2>3. SumFunctionOnSet(MarketBonds(c, m, d), BondKeys)
          = SumFunctionOnSet(MarketBonds(b, m, d), BondKeys) + e
    BY <1>1, <1>4
  <2> HIDE DEF e
  <2> QED BY <2>1, <2>2, <2>3
<1> QED BY <1>5, <1>6 DEF Covers, u

\* A key nothing was locked under holds nothing: lock_bond adds to the totals
\* exactly what it records.
VaultInv ==
    /\ VaultCoversBonds
    /\ \A k \in BondKeys : ~bond[k].exists => bond[k].amount = 0

\* At first there is no bond and the vault is empty.
LEMMA InitVault == Init => VaultInv
<1> SUFFICES ASSUME Init PROVE VaultInv
  OBVIOUS
<1>1. bond = [k \in BondKeys |-> [exists |-> FALSE, amount |-> 0, market |-> 0]]
      /\ bondTotal = [m \in Markets |-> [d \in BOOLEAN |-> 0]]
  BY DEF Init, BondInit
<1>2. tok["vault"] = 0
  BY ContractAccounts DEF Init
<1>3. SumFunctionOnSet(BondAmounts(bond), BondKeys) = 0
  <2> DEFINE f == BondAmounts(bond)
  <2>1. \A k \in BondKeys : f[k] = 0
    BY <1>1 DEF BondAmounts
  <2> HIDE DEF f
  <2>2. SumFunctionOnSet(f, BondKeys) = 0
    BY <2>1, BondKeysFinite, SumZeros
  <2> QED BY <2>2 DEF f
<1>4. ASSUME NEW m \in Markets, NEW d \in BOOLEAN
      PROVE  SumFunctionOnSet(MarketBonds(bond, m, d), BondKeys) = 0
  <2> DEFINE f == MarketBonds(bond, m, d)
  <2>1. \A k \in BondKeys : f[k] = 0
    BY <1>1 DEF MarketBonds
  <2> HIDE DEF f
  <2>2. SumFunctionOnSet(f, BondKeys) = 0
    BY <2>1, BondKeysFinite, SumZeros
  <2> QED BY <2>2 DEF f
<1> QED BY <1>1, <1>2, <1>3, <1>4 DEF VaultInv, VaultCoversBonds, Covers

\* What covers the bonds depends on the vault's state alone.
LEMMA OthersKeepVault ==
    ASSUME VaultInv, UNCHANGED <<bond, bondTotal>>, tok'["vault"] = tok["vault"]
    PROVE  VaultInv'
<1>1. /\ BondAmounts(bond)' = BondAmounts(bond)
      /\ \A m \in Markets, d \in BOOLEAN : MarketBonds(bond, m, d)' = MarketBonds(bond, m, d)
  BY DEF BondAmounts, MarketBonds
<1> QED BY <1>1 DEF VaultInv, VaultCoversBonds, Covers

\* lock_bond: the token, the record and the accounting move together.
LEMMA LockCovered ==
    ASSUME TInv, VaultInv, NEW u \in Users, NEW r \in RequestIds, NEW m \in Markets,
           NEW a \in Nat, NEW d \in BOOLEAN, lock_bond(u, r, m, a, d)
    PROVE  VaultInv'
<1> DEFINE k == <<r, u, d>>
<1>1. /\ k \in BondKeys /\ k[3] = d
      /\ bond \in [BondKeys -> BondRecord]
      /\ bondTotal \in [Markets -> [BOOLEAN -> Int]]
      /\ tok \in [Accounts -> Int]
  BY DEF BondKeys, TInv, TypeOK, BondTypeOK
<1>2. /\ bond' \in [BondKeys -> BondRecord]
      /\ ~bond[k].exists
      /\ bond'[k] = [exists |-> TRUE, amount |-> a, market |-> m]
      /\ \A j \in BondKeys : j # k => bond'[j] = bond[j]
  BY LockStep DEF TInv, BondTypeOK
<1>3. tok'["vault"] = tok["vault"] + a
  <2>1. tok' = Transferred(tok, u, "vault", a)
    BY DEF lock_bond
  <2>2. u \in Accounts /\ "vault" \in Accounts /\ u # "vault"
    BY ContractAccounts
  <2> QED BY <1>1, <2>1, <2>2, TransferMoves
<1>4. \A n \in Markets, e \in BOOLEAN :
        bondTotal'[n][e] = bondTotal[n][e] + (IF n = m /\ e = d THEN a ELSE 0)
  <2>1. bondTotal' = [bondTotal EXCEPT ![m] = [bondTotal[m] EXCEPT ![d] = bondTotal[m][d] + a]]
    BY DEF lock_bond
  <2>2. \A n \in Markets : n # m => bondTotal'[n] = bondTotal[n]
    BY <1>1, <2>1
  <2>3. bondTotal'[m] = [bondTotal[m] EXCEPT ![d] = bondTotal[m][d] + a]
    BY <1>1, <2>1
  <2> QED BY <1>1, <2>2, <2>3
<1>5. bond[k].amount = 0 /\ bond'[k].amount = a /\ bond'[k].market = m
  BY <1>1, <1>2 DEF VaultInv
<1> HIDE DEF k
<1>6. /\ SumFunctionOnSet(BondAmounts(bond'), BondKeys)
           = SumFunctionOnSet(BondAmounts(bond), BondKeys) + (bond'[k].amount - bond[k].amount)
      /\ \A n \in Markets, e \in BOOLEAN :
           SumFunctionOnSet(MarketBonds(bond', n, e), BondKeys)
             = SumFunctionOnSet(MarketBonds(bond, n, e), BondKeys)
                 + (IF n = m /\ e = k[3] THEN bond'[k].amount - bond[k].amount ELSE 0)
  <2>1. bond'[k].market = m /\ (bond[k].market = m \/ bond[k].amount = 0)
    BY <1>5
  <2>2. \A j \in BondKeys : j # k =>
          bond'[j].amount = bond[j].amount /\ bond'[j].market = bond[j].market
    BY <1>2
  <2>3. bond \in [BondKeys -> BondRecord] /\ bond' \in [BondKeys -> BondRecord] /\ k \in BondKeys
    BY <1>1, <1>2
  <2> QED BY <2>1, <2>2, <2>3, BondChange, Zenon
<1>7. tok'["vault"] = SumFunctionOnSet(BondAmounts(bond'), BondKeys)
  BY <1>3, <1>5, <1>6 DEF VaultInv, VaultCoversBonds, Covers
<1>8. ASSUME NEW n \in Markets, NEW e \in BOOLEAN
      PROVE  bondTotal'[n][e] = SumFunctionOnSet(MarketBonds(bond', n, e), BondKeys)
  <2>1. bondTotal[n][e] = SumFunctionOnSet(MarketBonds(bond, n, e), BondKeys)
    BY DEF VaultInv, VaultCoversBonds, Covers
  <2> DEFINE x == IF n = m /\ e = d THEN a ELSE 0
  <2>2. bondTotal'[n][e] = bondTotal[n][e] + x
    BY <1>4
  <2>3. SumFunctionOnSet(MarketBonds(bond', n, e), BondKeys)
          = SumFunctionOnSet(MarketBonds(bond, n, e), BondKeys) + x
    BY <1>1, <1>5, <1>6
  <2> HIDE DEF x
  <2> QED BY <2>1, <2>2, <2>3
<1>9. \A j \in BondKeys : ~bond'[j].exists => bond'[j].amount = 0
  BY <1>2 DEF VaultInv
<1> QED BY <1>7, <1>8, <1>9 DEF VaultInv, VaultCoversBonds, Covers

\* finalize_undisputed: one bond is released in full.
LEMMA UndisputedCovered ==
    ASSUME TInv, TInv', BondInv, VaultInv, NEW r \in RequestIds, FinalizeUndisputed(r)
    PROVE  VaultInv'
<1> DEFINE k == ProposalKey(r)
           a == RequestBond(r)
<1>1. finalize_undisputed(r) /\ request[r].status = "Proposed"
  BY DEF FinalizeUndisputed, finalize_undisputed
<1>2. request[r].market \in Markets /\ request[r].proposer \in Users
  BY <1>1 DEF TInv, RequestShape
<1>3. /\ bond'[k].amount = bond[k].amount - a
      /\ \A j \in BondKeys : j # k => bond'[j] = bond[j]
      /\ \A j \in BondKeys : bond'[j].exists = bond[j].exists /\ bond'[j].market = bond[j].market
  BY <1>1, <1>2, UndisputedStep DEF TInv
<1>4. /\ bondTotal' = Debited(bondTotal, k, a)
      /\ tok' = Transferred(tok, "vault", request[r].proposer, a)
  BY <1>1 DEF finalize_undisputed, ProposalKey
<1>5. k \in BondKeys /\ k[3] \in BOOLEAN
  BY <1>1, BondKeyFacts
<1>6. bond[k].market \in Markets /\ bond[k].exists
  BY <1>1, <1>2 DEF BondInv, BondsFollow, HoldsFullBond
<1>7. /\ bond \in [BondKeys -> BondRecord] /\ bond' \in [BondKeys -> BondRecord]
      /\ bondTotal \in [Markets -> [BOOLEAN -> Int]] /\ tok \in [Accounts -> Int]
  BY DEF TInv, TypeOK, BondTypeOK
<1>8. a \in Int
  BY <1>2, RegistryAssumption DEF RegistryAssumption, RequestBond
<1> HIDE DEF k, a
<1>9. tok'["vault"] = tok["vault"] - a /\ tok["vault"] \in Int
  BY <1>2, <1>4, <1>7, <1>8, ContractAccounts, TransferMoves
<1>10. Covers(tok["vault"] - a, Debited(bondTotal, k, a), bond')
  <2>1. Covers(tok["vault"], bondTotal, bond)
    BY DEF VaultInv, VaultCoversBonds
  <2> QED BY <1>3, <1>5, <1>6, <1>7, <1>8, <1>9, <2>1, PaymentCovered
<1>11. \A j \in BondKeys : ~bond'[j].exists => bond'[j].amount = 0
  BY <1>3, <1>5, <1>6 DEF VaultInv
<1>12. Covers(tok'["vault"], bondTotal', bond')
  BY <1>4, <1>9, <1>10
<1>13. VaultCoversBonds'
  BY <1>12 DEF VaultCoversBonds, Covers, BondAmounts, MarketBonds
<1> QED BY <1>11, <1>13 DEF VaultInv

\* The balances after a decisive report: the vault has paid out two bonds, and
\* the council has its share of the losing one.
LEMMA AwardBalances ==
    ASSUME TypeOK, NEW r \in RequestIds, request[r].market \in Markets,
           NEW winner \in Users, NEW wk, NEW lk, AwardTo(r, winner, wk, lk)
    PROVE  LET s == losing_bond_split(RequestBond(r)).council
           IN  /\ tok'["vault"] = tok["vault"] - RequestBond(r) - RequestBond(r)
               /\ tok'["council"] = tok["council"] + s
               /\ s \in Nat
               /\ s > 0 => requestCase[r] # 0
               /\ rewardPool' = IF s > 0
                                THEN [rewardPool EXCEPT ![requestCase[r]] = @ + s]
                                ELSE rewardPool
<1> DEFINE b  == RequestBond(r)
           s  == losing_bond_split(b)
           t1 == Transferred(tok, "vault", winner, b)
           t2 == Transferred(t1, "vault", winner, s.winner)
           t3 == Transferred(t2, "vault", "council", s.council)
           t4 == Transferred(t3, "vault", "treasury", s.treasury)
<1>1. b \in Nat
  BY RegistryAssumption DEF RequestBond, RegistryAssumption
<1>2. /\ s.winner \in Nat /\ s.council \in Nat /\ s.treasury \in Nat
      /\ s.treasury = b - s.winner - s.council
  <2> HIDE DEF b
  <2> QED BY <1>1, SplitUsesBond DEF TypeOK, BondTypeOK
<1>3. /\ rewardPool' = IF s.council > 0
                       THEN [rewardPool EXCEPT ![requestCase[r]] = @ + s.council]
                       ELSE rewardPool
      /\ s.council > 0 => requestCase[r] # 0
      /\ tok' = t4
  BY DEF AwardTo, AwardOk
<1> HIDE DEF b, s, t1, t2, t3, t4
<1>4. /\ winner \in Accounts /\ "vault" \in Accounts /\ "council" \in Accounts
      /\ "treasury" \in Accounts /\ winner # "vault" /\ winner # "council"
  BY ContractAccounts
<1>5. tok \in [Accounts -> Int] /\ b \in Int /\ s.winner \in Int /\ s.council \in Int
      /\ s.treasury \in Int
  BY <1>1, <1>2 DEF TypeOK
<1>6. /\ t1 \in [Accounts -> Int] /\ t1["vault"] = tok["vault"] - b
      /\ t1["council"] = tok["council"]
  BY <1>4, <1>5, VaultPays DEF t1
<1>7. /\ t2 \in [Accounts -> Int] /\ t2["vault"] = t1["vault"] - s.winner
      /\ t2["council"] = t1["council"]
  BY <1>4, <1>5, <1>6, VaultPays DEF t2
<1>8. /\ t3 \in [Accounts -> Int] /\ t3["vault"] = t2["vault"] - s.council
      /\ t3["council"] = t2["council"] + s.council
  BY <1>4, <1>5, <1>7, VaultPays DEF t3
<1>9. /\ t4 \in [Accounts -> Int] /\ t4["vault"] = t3["vault"] - s.treasury
      /\ t4["council"] = t3["council"]
  <2>1. PICK g \in Accounts : g = "treasury"
    BY <1>4
  <2>2. g # "vault" /\ g # "council" /\ t4 = Transferred(t3, "vault", g, s.treasury)
    BY <2>1 DEF t4
  <2> QED BY <1>5, <1>8, <2>2, VaultPays
<1>10. tok["vault"] \in Int /\ tok["council"] \in Int
  BY <1>4, <1>5
<1>11. t4["vault"] = tok["vault"] - b - b
  BY <1>2, <1>5, <1>6, <1>7, <1>8, <1>9, <1>10
<1>12. t4["council"] = tok["council"] + s.council
  BY <1>6, <1>7, <1>8, <1>9
<1> QED BY <1>2, <1>3, <1>11, <1>12 DEF b, s

\* Returning both bonds: the vault has paid out two bonds, the council nothing.
LEMMA ReturnBalances ==
    ASSUME TypeOK, NEW r \in RequestIds, request[r].market \in Markets,
           request[r].proposer \in Users, request[r].disputer \in Users, ReturnBoth(r)
    PROVE  /\ tok'["vault"] = tok["vault"] - RequestBond(r) - RequestBond(r)
           /\ tok'["council"] = tok["council"]
           /\ rewardPool' = rewardPool
<1> DEFINE b  == RequestBond(r)
           t1 == Transferred(tok, "vault", request[r].proposer, b)
           t2 == Transferred(t1, "vault", request[r].disputer, b)
<1>1. b \in Int
  BY RegistryAssumption DEF RequestBond, RegistryAssumption
<1>2. tok' = t2 /\ rewardPool' = rewardPool
  BY DEF ReturnBoth
<1> HIDE DEF b, t1, t2
<1>3. /\ "vault" \in Accounts /\ "council" \in Accounts /\ tok \in [Accounts -> Int]
      /\ request[r].proposer \in Accounts /\ request[r].disputer \in Accounts
      /\ request[r].proposer # "vault" /\ request[r].disputer # "vault"
      /\ request[r].proposer # "council" /\ request[r].disputer # "council"
  BY ContractAccounts DEF TypeOK
<1>4. /\ t1 \in [Accounts -> Int] /\ t1["vault"] = tok["vault"] - b
      /\ t1["council"] = tok["council"]
  BY <1>1, <1>3, VaultPays DEF t1
<1>5. t2["vault"] = t1["vault"] - b /\ t2["council"] = t1["council"]
  BY <1>1, <1>3, <1>4, VaultPays DEF t2
<1> QED BY <1>2, <1>4, <1>5 DEF b

\* Two bonds paid down by the same amount.
LEMMA BothCovered ==
    ASSUME TInv, TInv', VaultInv, NEW k \in BondKeys, NEW l \in BondKeys, k # l,
           k[3] \in BOOLEAN, l[3] \in BOOLEAN, NEW a \in Int,
           bond[k].exists, bond[k].market \in Markets, bond[l].exists, bond[l].market \in Markets,
           bond'[k].amount = bond[k].amount - a, bond'[l].amount = bond[l].amount - a,
           \A j \in BondKeys : j # k /\ j # l => bond'[j] = bond[j],
           \A j \in BondKeys : bond'[j].exists = bond[j].exists /\ bond'[j].market = bond[j].market,
           bondTotal' = Debited(Debited(bondTotal, k, a), l, a),
           tok'["vault"] = tok["vault"] - a - a
    PROVE  VaultInv'
<1> DEFINE b == [bond EXCEPT ![k] = bond'[k]]
<1>1. /\ bond \in [BondKeys -> BondRecord] /\ bond' \in [BondKeys -> BondRecord]
      /\ bondTotal \in [Markets -> [BOOLEAN -> Int]] /\ tok["vault"] \in Int
  BY ContractAccounts DEF TInv, TypeOK, BondTypeOK
<1>2. /\ b \in [BondKeys -> BondRecord] /\ b[k] = bond'[k]
      /\ \A j \in BondKeys : j # k => b[j] = bond[j]
  BY <1>1
<1> HIDE DEF b
<1>3. Covers(tok["vault"] - a, Debited(bondTotal, k, a), b)
  <2>1. Covers(tok["vault"], bondTotal, bond)
    BY DEF VaultInv, VaultCoversBonds
  <2>2. b[k].market = bond[k].market /\ b[k].amount = bond[k].amount - a
    BY <1>2
  <2>3. \A j \in BondKeys : j # k => b[j].amount = bond[j].amount /\ b[j].market = bond[j].market
    BY <1>2
  <2> QED BY <1>1, <1>2, <2>1, <2>2, <2>3, PaymentCovered
<1>4. Covers(tok["vault"] - a - a, Debited(Debited(bondTotal, k, a), l, a), bond')
  <2>1. Debited(bondTotal, k, a) \in [Markets -> [BOOLEAN -> Int]]
    BY <1>1, DebitedType
  <2>2. b[l] = bond[l] /\ b[l].market = bond[l].market
    BY <1>2
  <2>3. bond'[l].market = b[l].market /\ bond'[l].amount = b[l].amount - a
    BY <2>2
  <2>4. \A j \in BondKeys : j # l => bond'[j].amount = b[j].amount /\ bond'[j].market = b[j].market
    BY <1>2
  <2>5. tok["vault"] - a \in Int
    BY <1>1
  <2> QED BY <1>1, <1>2, <1>3, <2>1, <2>2, <2>3, <2>4, <2>5, PaymentCovered
<1>5. \A j \in BondKeys : ~bond'[j].exists => bond'[j].amount = 0
  BY DEF VaultInv
<1>6. Covers(tok'["vault"], bondTotal', bond')
  BY <1>4
<1>7. VaultCoversBonds'
  BY <1>6 DEF VaultCoversBonds, Covers, BondAmounts, MarketBonds
<1> QED BY <1>5, <1>7 DEF VaultInv

\* The report: whichever side wins, and when neither does.
LEMMA ReportCovered ==
    ASSUME TInv, TInv', BondInv, VaultInv, NEW c \in CaseIds, FinalizeAndReportCase(c)
    PROVE  VaultInv'
<1>0. PICK r \in RequestIds : r = kase[c].request
  BY DEF FinalizeAndReportCase, finalize_case, CanFinalize, TInv, CaseShape
<1> DEFINE pk == ProposalKey(r)
           dk == DisputeKey(r)
           a  == RequestBond(r)
<1>2. /\ request[r].status = "Escalated"
      /\ \/ AwardTo(r, request[r].proposer, pk, dk)
         \/ AwardTo(r, request[r].disputer, dk, pk)
         \/ ReturnBoth(r)
  BY <1>0 DEF FinalizeAndReportCase, report_council_outcome
<1>3. /\ request[r].market \in Markets /\ request[r].proposer \in Users
      /\ request[r].disputer \in Users /\ request[r].has_dispute
  BY <1>2 DEF TInv, RequestShape
<1>4. /\ pk \in BondKeys /\ dk \in BondKeys /\ pk # dk
      /\ pk[3] \in BOOLEAN /\ dk[3] \in BOOLEAN
  BY <1>2, <1>3, BondKeyFacts
<1>5. /\ bond[pk].exists /\ bond[pk].market \in Markets
      /\ bond[dk].exists /\ bond[dk].market \in Markets
  BY <1>2, <1>3 DEF BondInv, BondsFollow, HoldsFullBond
<1>6. a \in Int
  BY <1>3, RegistryAssumption DEF RegistryAssumption, RequestBond
<1>7. TypeOK
  BY DEF TInv
<1>8. CASE AwardTo(r, request[r].proposer, pk, dk)
  <2>1. /\ bond'[pk].amount = bond[pk].amount - a /\ bond'[dk].amount = bond[dk].amount - a
        /\ \A j \in BondKeys : j # pk /\ j # dk => bond'[j] = bond[j]
        /\ \A j \in BondKeys : bond'[j].exists = bond[j].exists /\ bond'[j].market = bond[j].market
    BY <1>3, <1>4, <1>7, <1>8, AwardStep
  <2>2. tok'["vault"] = tok["vault"] - a - a
    BY <1>3, <1>7, <1>8, AwardBalances
  <2>3. bondTotal' = Debited(Debited(bondTotal, pk, a), dk, a)
    BY <1>8 DEF AwardTo
  <2> HIDE DEF pk, dk, a
  <2> QED BY <1>4, <1>5, <1>6, <2>1, <2>2, <2>3, BothCovered
<1>9. CASE AwardTo(r, request[r].disputer, dk, pk)
  <2>1. /\ bond'[pk].amount = bond[pk].amount - a /\ bond'[dk].amount = bond[dk].amount - a
        /\ \A j \in BondKeys : j # dk /\ j # pk => bond'[j] = bond[j]
        /\ \A j \in BondKeys : bond'[j].exists = bond[j].exists /\ bond'[j].market = bond[j].market
    BY <1>3, <1>4, <1>7, <1>9, AwardStep
  <2>2. tok'["vault"] = tok["vault"] - a - a
    BY <1>3, <1>7, <1>9, AwardBalances
  <2>3. bondTotal' = Debited(Debited(bondTotal, dk, a), pk, a)
    BY <1>9 DEF AwardTo
  <2> HIDE DEF pk, dk, a
  <2> QED BY <1>4, <1>5, <1>6, <2>1, <2>2, <2>3, BothCovered
<1>10. CASE ReturnBoth(r)
  <2>1. /\ bond'[pk].amount = bond[pk].amount - a /\ bond'[dk].amount = bond[dk].amount - a
        /\ \A j \in BondKeys : j # pk /\ j # dk => bond'[j] = bond[j]
        /\ \A j \in BondKeys : bond'[j].exists = bond[j].exists /\ bond'[j].market = bond[j].market
    BY <1>3, <1>7, <1>10, ReturnStep
  <2>2. tok'["vault"] = tok["vault"] - a - a
    BY <1>3, <1>7, <1>10, ReturnBalances
  <2>3. bondTotal' = Debited(Debited(bondTotal, pk, a), dk, a)
    BY <1>10 DEF ReturnBoth
  <2> HIDE DEF pk, dk, a
  <2> QED BY <1>4, <1>5, <1>6, <2>1, <2>2, <2>3, BothCovered
<1> QED BY <1>2, <1>8, <1>9, <1>10

\* VaultInv is kept by every step.
LEMMA StepVault ==
    ASSUME TInv, TInv', BondInv, VaultInv, [Next]_vars
    PROVE  VaultInv'
<1> USE DEF registryVars, vaultVars, oracleVars
<1>0. tok \in [Accounts -> Int] /\ "vault" \in Accounts /\ "council" \in Accounts
  BY ContractAccounts DEF TInv, TypeOK
<1>1. ASSUME NEW m \in Markets, NEW s \in MarketStatuses,
             CreateMarket(m) \/ CloseTrading(m) \/ SetStatus(m, s)
      PROVE  VaultInv'
  BY <1>1, OthersKeepVault DEF CreateMarket, CloseTrading, SetStatus, OthersThanRegistry
<1>2. ASSUME NEW m \in Markets, RequestResolution(m)
      PROVE  VaultInv'
  BY <1>2, OthersKeepVault DEF RequestResolution, request_resolution
<1>3. ASSUME NEW u \in Users, NEW r \in RequestIds, NEW o \in Outcomes,
             ProposeOutcome(u, r, o) \/ DisputeOutcome(u, r, o)
      PROVE  VaultInv'
  <2>1. request[r].market \in Markets
    BY <1>3 DEF ProposeOutcome, DisputeOutcome, dispute_outcome, TInv, RequestShape
  <2>2. RequestBond(r) \in Nat
    BY <2>1, RegistryAssumption DEF RegistryAssumption, RequestBond
  <2>3. \E d \in BOOLEAN : lock_bond(u, r, request[r].market, RequestBond(r), d)
    BY <1>3 DEF ProposeOutcome, propose_outcome, DisputeOutcome, dispute_outcome
  <2> QED BY <2>1, <2>2, <2>3, LockCovered
<1>4. ASSUME NEW r \in RequestIds, FinalizeUndisputed(r)
      PROVE  VaultInv'
  BY <1>4, UndisputedCovered
<1>5. ASSUME NEW r \in RequestIds, EscalateToCouncil(r)
      PROVE  VaultInv'
  BY <1>5, OthersKeepVault DEF EscalateToCouncil, escalate_to_council
<1>6. ASSUME NEW c \in CaseIds, FinalizeAndReportCase(c)
      PROVE  VaultInv'
  BY <1>6, ReportCovered
<1>7. ASSUME NEW u \in Users, NEW r \in RequestIds, NEW m \in Markets, NEW a \in DirectAmounts,
             NEW d \in BOOLEAN, LockBond(u, r, m, a, d)
      PROVE  VaultInv'
  <2>1. a \in Nat
    BY ResolutionAssumption DEF ResolutionAssumption
  <2> QED BY <1>7, <2>1, LockCovered DEF LockBond
<1>8. ASSUME NEW s \in Splits, SetBondSplit(s)
      PROVE  VaultInv'
  BY <1>8, OthersKeepVault DEF SetBondSplit, set_bond_split
<1>9. ASSUME NEW v \in Members, NEW c \in CaseIds, NEW o \in Outcomes,
             CommitVote(v, c, o) \/ RevealVote(v, c, o)
      PROVE  VaultInv'
  BY <1>9, OthersKeepVault DEF CommitVote, RevealVote, OthersThanCouncil
<1>10. ASSUME NEW c \in CaseIds, FinalizeCase(c)
       PROVE  VaultInv'
  BY <1>10, OthersKeepVault DEF FinalizeCase, OthersThanCouncil
<1>11. ASSUME UNCHANGED <<bond, bondTotal>>, NEW p,
              NEW a \in Members \cup {"treasury"}, tok' = Transferred(tok, "council", a, p)
       PROVE  VaultInv'
  <2>1. a \in Accounts /\ a # "vault" /\ a # "council"
    BY ContractAccounts
  <2>2. tok'["vault"] = tok["vault"]
    BY <1>0, <1>11, <2>1 DEF Transferred
  <2> QED BY <1>11, <2>2, OthersKeepVault
<1>12. ASSUME NEW v \in Members, NEW c \in CaseIds, ClaimReward(v, c)
       PROVE  VaultInv'
  BY <1>11, <1>12 DEF ClaimReward, claim_reward, OthersThanCouncil
<1>13. ASSUME NEW c \in CaseIds, SweepCaseReward(c)
       PROVE  VaultInv'
  BY <1>11, <1>13 DEF SweepCaseReward, sweep_case_reward, OthersThanCouncil
<1>14. ASSUME NEW v \in Members, NEW b \in BOOLEAN, SetMember(v, b)
       PROVE  VaultInv'
  BY <1>14, OthersKeepVault DEF SetMember, OthersThanCouncil
<1>15. ASSUME NEW b \in BOOLEAN, PauseOracle(b) \/ PauseCouncil(b)
       PROVE  VaultInv'
  BY <1>15, OthersKeepVault DEF PauseOracle, pause_oracle, PauseCouncil, OthersThanCouncil
<1>16. CASE Tick \/ UNCHANGED vars
  BY <1>16, OthersKeepVault DEF Tick, vars
<1>17. "Yes" \in Outcomes /\ "Live" \in MarketStatuses
  BY DEF Outcomes, MarketStatuses
<1> QED BY <1>1, <1>2, <1>3, <1>4, <1>5, <1>6, <1>7, <1>8, <1>9, <1>10, <1>12, <1>13, <1>14,
           <1>15, <1>16, <1>17 DEF Next

\* The vault's token balance is the sum of all bonds on record, and
\* VaultAccounting's proposal and dispute bonds of each market are the sums of
\* those recorded for it: for any number of users, markets and requests, any
\* shares of a slash, and whatever is locked by calling lock_bond directly.
THEOREM BondsAlwaysCovered == Spec => []VaultCoversBonds
<1> DEFINE I == TInv /\ BondInv /\ VaultInv
<1>1. Init => I
  BY InitTInv, InitBonds, InitVault
<1>2. I /\ [Next]_vars => I'
  BY StepTInv, StepBonds, StepVault
<1>3. I => VaultCoversBonds
  BY DEF VaultInv
<1> HIDE DEF I
<1> QED BY <1>1, <1>2, <1>3, PTL DEF Spec

-----------------------------------------------------------------------------
(* The tally.                                                              *)

\* A commitment, once made, is never changed.
LEMMA CommitmentsKept ==
    ASSUME TInv, [Next]_vars
    PROVE  \A c \in CaseIds, v \in Members :
             commitment[c][v] # "none" => commitment'[c][v] = commitment[c][v]
<1>1. CASE UNCHANGED commitment
  BY <1>1
<1>2. ASSUME NEW v \in Members, NEW c \in CaseIds, NEW o \in Outcomes, CommitVote(v, c, o)
      PROVE  \A n \in CaseIds, w \in Members :
               commitment[n][w] # "none" => commitment'[n][w] = commitment[n][w]
  <2>1. commitment[c][v] = "none" /\ commitment' = [commitment EXCEPT ![c][v] = o]
    BY <1>2 DEF CommitVote, commit_vote
  <2>2. commitment \in [CaseIds -> [Members -> Ballots]]
    BY DEF TInv, TypeOK, CouncilTypeOK
  <2> QED BY <2>1, <2>2
<1>3. UNCHANGED commitment
        \/ \E v \in Members, c \in CaseIds, o \in Outcomes : CommitVote(v, c, o)
  <2> USE DEF councilVars, ballotVars
  <2>1. ASSUME NEW m \in Markets, NEW s \in MarketStatuses,
               CreateMarket(m) \/ CloseTrading(m) \/ SetStatus(m, s) \/ RequestResolution(m)
        PROVE  UNCHANGED commitment
    BY <2>1 DEF CreateMarket, CloseTrading, SetStatus, OthersThanRegistry, RequestResolution,
       request_resolution
  <2>2. ASSUME NEW u \in Users, NEW r \in RequestIds, NEW o \in Outcomes,
               ProposeOutcome(u, r, o) \/ DisputeOutcome(u, r, o)
        PROVE  UNCHANGED commitment
    BY <2>2 DEF ProposeOutcome, propose_outcome, DisputeOutcome, dispute_outcome
  <2>3. ASSUME NEW r \in RequestIds, FinalizeUndisputed(r) \/ EscalateToCouncil(r)
        PROVE  UNCHANGED commitment
    BY <2>3 DEF FinalizeUndisputed, finalize_undisputed, EscalateToCouncil, escalate_to_council,
       open_case
  <2>4. ASSUME NEW c \in CaseIds, FinalizeCase(c) \/ FinalizeAndReportCase(c) \/ SweepCaseReward(c)
        PROVE  UNCHANGED commitment
    BY <2>4 DEF FinalizeCase, FinalizeAndReportCase, finalize_case, SweepCaseReward,
       sweep_case_reward
  <2>5. ASSUME NEW u \in Users, NEW r \in RequestIds, NEW m \in Markets, NEW a \in DirectAmounts,
               NEW d \in BOOLEAN, LockBond(u, r, m, a, d)
        PROVE  UNCHANGED commitment
    BY <2>5 DEF LockBond
  <2>6. ASSUME NEW s \in Splits, SetBondSplit(s)
        PROVE  UNCHANGED commitment
    BY <2>6 DEF SetBondSplit
  <2>7. ASSUME NEW v \in Members, NEW c \in CaseIds, NEW o \in Outcomes,
               RevealVote(v, c, o) \/ ClaimReward(v, c)
        PROVE  UNCHANGED commitment
    BY <2>7 DEF RevealVote, reveal_vote, ClaimReward, claim_reward
  <2>8. ASSUME NEW v \in Members, NEW b \in BOOLEAN, SetMember(v, b)
        PROVE  UNCHANGED commitment
    BY <2>8 DEF SetMember, set_member
  <2>9. ASSUME NEW b \in BOOLEAN, PauseOracle(b) \/ PauseCouncil(b)
        PROVE  UNCHANGED commitment
    BY <2>9 DEF PauseOracle, PauseCouncil, pause_council
  <2>10. CASE Tick \/ UNCHANGED vars
    BY <2>10 DEF Tick, vars
  <2>11. "Yes" \in Outcomes /\ "Live" \in MarketStatuses
    BY DEF Outcomes, MarketStatuses
  <2> QED BY <2>1, <2>2, <2>3, <2>4, <2>5, <2>6, <2>7, <2>8, <2>9, <2>10, <2>11 DEF Next
<1> QED BY <1>1, <1>2, <1>3

\* The voters of an outcome are finitely many.
LEMMA VotersFinite ==
    ASSUME NEW c, NEW o
    PROVE  IsFiniteSet(Voters(c, o)) /\ Cardinality(Voters(c, o)) \in Nat
<1>1. IsFiniteSet(Members)
  BY ResolutionAssumption DEF ResolutionAssumption
<1>2. Voters(c, o) \subseteq Members
  BY DEF Voters
<1>3. IsFiniteSet(Voters(c, o))
  BY <1>1, <1>2, FS_Subset
<1> QED BY <1>3, FS_CardinalityType

\* No vote is counted at first.
LEMMA InitTally == Init => TallyCountsReveals
<1> SUFFICES ASSUME Init PROVE TallyCountsReveals
  OBVIOUS
<1>1. /\ kase = [c \in CaseIds |-> NoCase]
      /\ revealed = [c \in CaseIds |-> [v \in Members |-> "none"]]
  BY DEF Init, CouncilInit
<1>2. ASSUME NEW c \in CaseIds, NEW o \in Outcomes
      PROVE  kase[c].votes[o] = Cardinality(Voters(c, o))
  <2>1. Voters(c, o) = {}
    BY <1>1 DEF Voters, Outcomes
  <2>2. kase[c].votes[o] = 0
    BY <1>1 DEF NoCase
  <2> QED BY <2>1, <2>2, FS_EmptySet
<1> QED BY <1>1, <1>2 DEF TallyCountsReveals

\* Every step keeps the tally equal to the reveals.
LEMMA StepTally ==
    ASSUME TInv, TInv', VoteInv, TallyCountsReveals, [Next]_vars
    PROVE  TallyCountsReveals'
<1>0. /\ kase \in [CaseIds -> CaseRecord] /\ revealed \in [CaseIds -> [Members -> Ballots]]
      /\ "none" \notin Outcomes
  BY DEF TInv, TypeOK, CouncilTypeOK, Outcomes
<1>1. ASSUME NEW c \in CaseIds, revealed'[c] = revealed[c]
      PROVE  \A v \in Members : revealed'[c][v] \in {"none", commitment'[c][v]}
  BY <1>1, CommitmentsKept DEF TallyCountsReveals
<1>2. ASSUME NEW c \in CaseIds, revealed'[c] = revealed[c], kase'[c].votes = kase[c].votes
      PROVE  \A o \in Outcomes : kase'[c].votes[o] = Cardinality(Voters(c, o)')
  <2>1. \A o \in Outcomes : Voters(c, o)' = Voters(c, o)
    BY <1>2 DEF Voters
  <2> QED BY <1>2, <2>1 DEF TallyCountsReveals
<1>3. CASE UNCHANGED <<kase, requestCase, revealed>> /\ now' >= now
  BY <1>1, <1>2, <1>3 DEF TallyCountsReveals
<1>4. ASSUME NEW r \in RequestIds, EscalateToCouncil(r)
      PROVE  TallyCountsReveals'
  <2>0. PICK c \in CaseIds : c = nextCaseId
    BY <1>4 DEF EscalateToCouncil, escalate_to_council, open_case
  <2> DEFINE k == [NoCase EXCEPT !.status = "CommitPhase", !.request = r,
                                 !.commit_end = now + DisputeWindow[request[r].market],
                                 !.reveal_end = now + DisputeWindow[request[r].market]
                                                    + DisputeWindow[request[r].market]]
  <2>1. kase' = [kase EXCEPT ![c] = k] /\ UNCHANGED <<now, revealed>>
    BY <1>4, <2>0 DEF EscalateToCouncil, escalate_to_council, open_case, ballotVars
  <2>2. k.votes = [o \in Outcomes |-> 0]
    BY DEF NoCase
  <2> HIDE DEF k
  <2>3. kase'[c] = k /\ \A n \in CaseIds : n # c => kase'[n] = kase[n]
    BY <1>0, <2>1
  <2>4. kase[c].status = "None"
    BY <2>0 DEF TInv, TypeOK, CouncilTypeOK, CaseShape
  <2>5. \A v \in Members : revealed'[c][v] = "none"
    BY <2>1, <2>4 DEF VoteInv
  <2>6. ASSUME NEW o \in Outcomes PROVE kase'[c].votes[o] = Cardinality(Voters(c, o)')
    <3>1. Voters(c, o)' = {}
      BY <1>0, <2>5 DEF Voters
    <3>2. kase'[c].votes[o] = 0
      BY <2>2, <2>3
    <3> QED BY <3>1, <3>2, FS_EmptySet
  <2> QED BY <1>1, <1>2, <2>1, <2>3, <2>6 DEF TallyCountsReveals
<1>5. ASSUME NEW v \in Members, NEW c \in CaseIds, NEW o \in Outcomes, RevealVote(v, c, o)
      PROVE  TallyCountsReveals'
  <2> DEFINE k == [kase[c] EXCEPT !.votes = [kase[c].votes EXCEPT ![o] = kase[c].votes[o] + 1]]
  <2>1. /\ kase' = [kase EXCEPT ![c] = k]
        /\ revealed' = [revealed EXCEPT ![c] = [revealed[c] EXCEPT ![v] = o]]
        /\ commitment[c][v] = o /\ revealed[c][v] = "none" /\ UNCHANGED commitment
    BY <1>5 DEF RevealVote, reveal_vote
  <2>2. k.votes = [kase[c].votes EXCEPT ![o] = kase[c].votes[o] + 1]
        /\ kase[c].votes \in [Outcomes -> Nat]
    BY <1>0 DEF CaseRecord
  <2> HIDE DEF k
  <2>3. kase'[c] = k /\ \A n \in CaseIds : n # c => kase'[n] = kase[n]
    BY <1>0, <2>1
  <2>4. /\ \A n \in CaseIds : n # c => revealed'[n] = revealed[n]
        /\ revealed'[c] = [revealed[c] EXCEPT ![v] = o]
    BY <1>0, <2>1
  <2>5. revealed'[c][v] = o /\ \A w \in Members : w # v => revealed'[c][w] = revealed[c][w]
    BY <1>0, <2>4
  <2>6. \A w \in Members : revealed'[c][w] \in {"none", commitment'[c][w]}
    BY <2>1, <2>5 DEF TallyCountsReveals
  <2>7. ASSUME NEW p \in Outcomes PROVE kase'[c].votes[p] = Cardinality(Voters(c, p)')
    <3>0. kase[c].votes[p] = Cardinality(Voters(c, p))
      BY DEF TallyCountsReveals
    <3>1. CASE p = o
      <4>1. Voters(c, p)' = Voters(c, p) \cup {v} /\ v \notin Voters(c, p)
        BY <1>0, <2>1, <2>5, <3>1 DEF Voters
      <4>2. Cardinality(Voters(c, p) \cup {v}) = Cardinality(Voters(c, p)) + 1
        BY <4>1, VotersFinite, FS_AddElement
      <4>3. kase'[c].votes[p] = kase[c].votes[p] + 1
        BY <2>2, <2>3, <3>1
      <4> QED BY <3>0, <4>1, <4>2, <4>3
    <3>2. CASE p # o
      <4>1. Voters(c, p)' = Voters(c, p)
        BY <1>0, <2>1, <2>5, <3>2 DEF Voters
      <4>2. kase'[c].votes[p] = kase[c].votes[p]
        BY <2>2, <2>3, <3>2
      <4> QED BY <3>0, <4>1, <4>2
    <3> QED BY <3>1, <3>2
  <2> QED BY <1>1, <1>2, <2>3, <2>4, <2>6, <2>7 DEF TallyCountsReveals
<1>6. ASSUME NEW c \in CaseIds, finalize_case(c)
      PROVE  TallyCountsReveals'
  <2> DEFINE k == [kase[c] EXCEPT !.has_final_outcome = TRUE,
                                  !.final_outcome = Tally(kase[c].votes),
                                  !.status = "Finalized"]
  <2>1. kase' = [kase EXCEPT ![c] = k] /\ revealed' = revealed
    BY <1>6 DEF finalize_case, ballotVars
  <2>2. k.votes = kase[c].votes
    BY <1>0 DEF CaseRecord
  <2> HIDE DEF k
  <2>3. \A n \in CaseIds : kase'[n].votes = kase[n].votes
    BY <1>0, <2>1, <2>2
  <2> QED BY <1>1, <1>2, <2>1, <2>3 DEF TallyCountsReveals
<1> QED BY <1>3, <1>4, <1>5, <1>6, CaseChanges DEF CaseStep

\* The votes counted for a case are exactly the votes revealed in it, each
\* the outcome its voter had committed to: for any council, however its
\* membership changes during the vote.
THEOREM TallyIsTheReveals == Spec => []TallyCountsReveals
<1> DEFINE I == TInv /\ VoteInv /\ TallyCountsReveals
<1>1. Init => I
  BY InitTInv, InitVote, InitTally
<1>2. I /\ [Next]_vars => I'
  BY StepTInv, StepVote, StepTally
<1>3. I => TallyCountsReveals
  OBVIOUS
<1> HIDE DEF I
<1> QED BY <1>1, <1>2, <1>3, PTL DEF Spec

-----------------------------------------------------------------------------
(* The rewards.                                                            *)

\* A share rounded down, times the number of shares, is within the whole.
LEMMA SharesWithin ==
    ASSUME NEW p \in Nat, NEW n \in Nat, n > 0, NEW k \in Nat, k <= n
    PROVE  /\ p \div n \in Nat
           /\ (p \div n) * k \in Nat
           /\ (p \div n) * k <= p
<1> DEFINE s == p \div n
<1>1. s \in Nat /\ n * s <= p
  <2>1. s \in Int /\ n * s <= p /\ p < n * (s + 1)
    OBVIOUS
  <2> QED OBVIOUS
<1> HIDE DEF s
<1>2. s * k \in Nat /\ s * n \in Nat
  BY <1>1
<1>3. s * k <= s * n
  BY <1>1, MulMonotone
<1>4. s * n = n * s
  BY <1>1
<1> QED BY <1>1, <1>2, <1>3, <1>4 DEF s

\* The facts about one case that what it owes depends on.
LEMMA OwedFacts ==
    ASSUME TInv, TallyCountsReveals, NEW c \in CaseIds
    PROVE  /\ Owed(c) \in Nat
           /\ Owed(c) <= rewardPool[c]
           /\ RewardShare(c) \in Nat
           /\ IsFiniteSet(Unclaimed(c)) /\ Cardinality(Unclaimed(c)) \in Nat
<1> DEFINE o == kase[c].final_outcome
           n == kase[c].votes[o]
           p == rewardPool[c]
           k == Cardinality(Unclaimed(c))
<1>1. o \in Outcomes /\ n \in Nat /\ p \in Nat
  BY DEF TInv, TypeOK, CouncilTypeOK, CaseRecord
<1>2. IsFiniteSet(Unclaimed(c)) /\ k \in Nat /\ k <= n
  <2>1. Unclaimed(c) \subseteq Voters(c, o)
    BY DEF Unclaimed
  <2>2. IsFiniteSet(Voters(c, o)) /\ n = Cardinality(Voters(c, o))
    BY <1>1, VotersFinite DEF TallyCountsReveals
  <2>3. IsFiniteSet(Unclaimed(c)) /\ k <= Cardinality(Voters(c, o))
    BY <2>1, <2>2, FS_Subset
  <2> QED BY <2>2, <2>3, FS_CardinalityType
<1>3. RewardShare(c) = IF p > 0 /\ n > 0 THEN p \div n ELSE 0
  BY DEF RewardShare
<1>4. Owed(c) = IF ~kase[c].has_final_outcome THEN 0
                ELSE IF n = 0 THEN p ELSE RewardShare(c) * k
  BY DEF Owed
<1> HIDE DEF o, n, p, k
<1>5. RewardShare(c) \in Nat /\ (n > 0 => RewardShare(c) * k \in Nat /\ RewardShare(c) * k <= p)
  <2>1. CASE p > 0 /\ n > 0
    BY <1>1, <1>2, <1>3, <2>1, SharesWithin
  <2>2. CASE ~(p > 0 /\ n > 0)
    <3>1. RewardShare(c) = 0
      BY <1>3, <2>2
    <3>2. 0 * k = 0
      BY <1>2
    <3> QED BY <1>1, <3>1, <3>2
  <2> QED BY <2>1, <2>2
<1> QED BY <1>1, <1>2, <1>4, <1>5 DEF p, k

\* What the cases owe is within what was paid in for them.
OwedBounded == \A c \in CaseIds : Owed(c) \in Nat /\ Owed(c) <= rewardPool[c]

\* That holds in every state,
LEMMA OwedBounds == TInv /\ TallyCountsReveals => OwedBounded
BY OwedFacts DEF OwedBounded

\* so after every step.
LEMMA OwedBoundsNext == TInv' /\ TallyCountsReveals' => OwedBounded'
BY OwedBounds, PTL

\* What a case owes depends on its record, pool, reveals and claims.
LEMMA OwedKept ==
    ASSUME NEW c \in CaseIds, kase'[c] = kase[c], rewardPool'[c] = rewardPool[c],
           revealed'[c] = revealed[c], claimed'[c] = claimed[c]
    PROVE  Owed(c)' = Owed(c) /\ RewardShare(c)' = RewardShare(c)
BY DEF Owed, RewardShare, Unclaimed, Voters

\* A case without an outcome owes nothing yet, and has no pool yet: the pool
\* is filled by the report that gives the case its outcome.
RewardInv ==
    /\ RewardsCovered
    /\ \A c \in CaseIds : ~kase[c].has_final_outcome => rewardPool[c] = 0

\* There is nothing to be paid at first.
LEMMA InitReward == Init => RewardInv
<1> SUFFICES ASSUME Init PROVE RewardInv
  OBVIOUS
<1>1. /\ kase = [c \in CaseIds |-> NoCase] /\ rewardPool = [c \in CaseIds |-> 0]
      /\ tok["council"] = 0
  BY ContractAccounts DEF Init, CouncilInit
<1>2. \A c \in CaseIds : Debts[c] = 0
  BY <1>1 DEF Debts, Owed, NoCase
<1>3. IsFiniteSet(CaseIds)
  BY CouncilAssumption, FS_Interval DEF CouncilAssumption, CaseIds
<1>4. SumFunctionOnSet(Debts, CaseIds) = 0
  <2> DEFINE f == Debts
  <2> HIDE DEF f
  <2>1. \A c \in CaseIds : f[c] = 0
    BY <1>2 DEF f
  <2>2. SumFunctionOnSet(f, CaseIds) = 0
    BY <1>3, <2>1, SumZeros
  <2> QED BY <2>2 DEF f
<1> QED BY <1>1, <1>4 DEF RewardInv, RewardsCovered

\* At most one case changes what it owes, by no more than the council gains.
LEMMA DebtsStep ==
    ASSUME TInv, TInv', TallyCountsReveals, TallyCountsReveals', RewardsCovered,
           NEW c \in CaseIds, \A n \in CaseIds : n # c => Owed(n)' = Owed(n),
           tok'["council"] - tok["council"] >= Owed(c)' - Owed(c)
    PROVE  RewardsCovered'
<1> DEFINE f == Debts
           g == Debts'
<1>1. \A n \in CaseIds : f[n] = Owed(n) /\ g[n] = Owed(n)'
  BY DEF Debts
<1>2. \A n \in CaseIds : Owed(n) \in Nat
  BY OwedFacts
<1>3. \A n \in CaseIds : Owed(n)' \in Nat
  BY OwedBoundsNext DEF OwedBounded
<1>4. IsFiniteSet(CaseIds)
  BY CouncilAssumption, FS_Interval DEF CouncilAssumption, CaseIds
<1>5. tok["council"] \in Int /\ tok'["council"] \in Int
  BY ContractAccounts DEF TInv, TypeOK
<1> HIDE DEF f, g
<1>6. SumFunctionOnSet(g, CaseIds) = SumFunctionOnSet(f, CaseIds) + (g[c] - f[c])
  <2>1. \A n \in CaseIds : f[n] \in Int /\ g[n] \in Int
    BY <1>1, <1>2, <1>3
  <2>2. \A n \in CaseIds \ {c} : g[n] = f[n]
    BY <1>1
  <2> QED BY <1>4, <2>1, <2>2, SumChange
<1>7. SumFunctionOnSet(f, CaseIds) \in Int
  <2>1. \A n \in CaseIds : f[n] \in Int
    BY <1>1, <1>2
  <2> QED BY <1>4, <2>1, SumInt
<1>8. tok["council"] >= SumFunctionOnSet(f, CaseIds)
  BY DEF RewardsCovered, f
<1>9. f[c] = Owed(c) /\ g[c] = Owed(c)' /\ f[c] \in Int /\ g[c] \in Int
  BY <1>1, <1>2, <1>3
<1>10. tok'["council"] - tok["council"] >= g[c] - f[c]
  BY <1>9
<1>11. tok'["council"] >= SumFunctionOnSet(g, CaseIds)
  BY <1>5, <1>6, <1>7, <1>8, <1>9, <1>10
<1> QED BY <1>11 DEF RewardsCovered, g

\* Steps that change no debt and take nothing from the council.
LEMMA OthersKeepRewards ==
    ASSUME TInv, TInv', RewardInv, UNCHANGED <<kase, rewardPool, revealed, claimed>>,
           tok'["council"] = tok["council"]
    PROVE  RewardInv'
<1>1. Debts' = Debts
  BY DEF Debts, Owed, RewardShare, Unclaimed, Voters
<1>2. RewardsCovered'
  BY <1>1 DEF RewardInv, RewardsCovered
<1> QED BY <1>2 DEF RewardInv

\* Steps on a case that has no outcome before or after.
LEMMA OpenCaseStep ==
    ASSUME TInv, TInv', RewardInv, UNCHANGED <<rewardPool, claimed, tok>>,
           NEW c \in CaseIds, ~kase[c].has_final_outcome, ~kase'[c].has_final_outcome,
           \A n \in CaseIds : n # c => kase'[n] = kase[n] /\ revealed'[n] = revealed[n]
    PROVE  RewardInv'
<1>1. Owed(c) = 0 /\ Owed(c)' = 0
  BY DEF Owed
<1>2. \A n \in CaseIds : n # c => Owed(n)' = Owed(n)
  BY OwedKept
<1>3. \A n \in CaseIds : Debts'[n] = Debts[n]
  BY <1>1, <1>2 DEF Debts
<1>4. Debts' = Debts
  BY <1>3 DEF Debts
<1> QED BY <1>4 DEF RewardInv, RewardsCovered

\* The record of a case after finalize_case.
LEMMA FinalizedCase ==
    ASSUME TInv, NEW c \in CaseIds, finalize_case(c)
    PROVE  /\ ~kase[c].has_final_outcome /\ kase'[c].has_final_outcome
           /\ kase[c].status # "None" /\ UNCHANGED <<revealed, claimed>>
           /\ \A n \in CaseIds : n # c => kase'[n] = kase[n]
<1> DEFINE k == [kase[c] EXCEPT !.has_final_outcome = TRUE,
                                !.final_outcome = Tally(kase[c].votes),
                                !.status = "Finalized"]
<1>1. kase \in [CaseIds -> CaseRecord]
  BY DEF TInv, TypeOK, CouncilTypeOK
<1>2. kase' = [kase EXCEPT ![c] = k] /\ UNCHANGED <<revealed, claimed>>
      /\ ~kase[c].has_final_outcome /\ kase[c].status # "None"
  BY DEF finalize_case, CanFinalize, ballotVars
<1>3. k.has_final_outcome = TRUE
  BY <1>1 DEF CaseRecord
<1> HIDE DEF k
<1> QED BY <1>1, <1>2, <1>3

\* finalize_case on its own: the case has no pool, so it owes nothing.
LEMMA FinalizeCaseRewards ==
    ASSUME TInv, TInv', TallyCountsReveals, TallyCountsReveals', RewardInv,
           NEW c \in CaseIds, FinalizeCase(c)
    PROVE  RewardInv'
<1>1. finalize_case(c) /\ UNCHANGED <<tok, rewardPool>>
  BY DEF FinalizeCase
<1>2. /\ ~kase[c].has_final_outcome /\ kase'[c].has_final_outcome
      /\ UNCHANGED <<revealed, claimed>>
      /\ \A n \in CaseIds : n # c => kase'[n] = kase[n]
  BY <1>1, FinalizedCase
<1>3. rewardPool'[c] = 0
  BY <1>1, <1>2 DEF RewardInv
<1>4. Owed(c)' = 0 /\ Owed(c) = 0
  <2>1. Owed(c)' \in Nat /\ Owed(c)' <= rewardPool'[c]
    BY OwedBoundsNext DEF OwedBounded
  <2>2. Owed(c)' = 0
    BY <1>3, <2>1
  <2> QED BY <1>2, <2>2 DEF Owed
<1>5. \A n \in CaseIds : n # c => Owed(n)' = Owed(n)
  BY <1>1, <1>2, OwedKept
<1>6. tok'["council"] - tok["council"] >= Owed(c)' - Owed(c)
  <2>1. tok["council"] \in Int
    BY ContractAccounts DEF TInv, TypeOK
  <2> QED BY <1>1, <1>4, <2>1
<1>7. RewardsCovered'
  BY <1>5, <1>6, DebtsStep DEF RewardInv
<1>8. \A n \in CaseIds : ~kase'[n].has_final_outcome => rewardPool'[n] = 0
  BY <1>1, <1>2 DEF RewardInv
<1> QED BY <1>7, <1>8 DEF RewardInv

\* The report of an outcome: the council gets the pool with the debt.
LEMMA ReportRewards ==
    ASSUME TInv, TInv', TallyCountsReveals, TallyCountsReveals', RewardInv,
           NEW c \in CaseIds, FinalizeAndReportCase(c)
    PROVE  RewardInv'
<1>0. finalize_case(c)
  BY DEF FinalizeAndReportCase
<1>1. /\ ~kase[c].has_final_outcome /\ kase'[c].has_final_outcome
      /\ kase[c].status # "None" /\ UNCHANGED <<revealed, claimed>>
      /\ \A n \in CaseIds : n # c => kase'[n] = kase[n]
  BY <1>0, FinalizedCase
<1>2. PICK r \in RequestIds : r = kase[c].request /\ requestCase[r] = c
  BY <1>1 DEF TInv, CaseShape
<1>3. /\ request[r].status = "Escalated"
      /\ \/ AwardTo(r, request[r].proposer, ProposalKey(r), DisputeKey(r))
         \/ AwardTo(r, request[r].disputer, DisputeKey(r), ProposalKey(r))
         \/ ReturnBoth(r)
  BY <1>2 DEF FinalizeAndReportCase, report_council_outcome
<1>4. /\ request[r].market \in Markets /\ request[r].proposer \in Users
      /\ request[r].disputer \in Users
  BY <1>3 DEF TInv, RequestShape
<1>5. rewardPool[c] = 0 /\ rewardPool \in [CaseIds -> Nat] /\ tok["council"] \in Int
  BY <1>1, ContractAccounts DEF RewardInv, TInv, TypeOK, CouncilTypeOK
<1>6. PICK s \in Nat : /\ tok'["council"] = tok["council"] + s
                       /\ rewardPool'[c] = s
                       /\ \A n \in CaseIds : n # c => rewardPool'[n] = rewardPool[n]
  <2>1. ASSUME NEW s \in Nat, tok'["council"] = tok["council"] + s,
               rewardPool' = IF s > 0 THEN [rewardPool EXCEPT ![requestCase[r]] = @ + s]
                                      ELSE rewardPool
        PROVE  /\ rewardPool'[c] = s
               /\ \A n \in CaseIds : n # c => rewardPool'[n] = rewardPool[n]
    BY <1>2, <1>5, <2>1
  <2>2. CASE AwardTo(r, request[r].proposer, ProposalKey(r), DisputeKey(r))
    <3> DEFINE s == losing_bond_split(RequestBond(r)).council
    <3>1. /\ s \in Nat /\ tok'["council"] = tok["council"] + s
          /\ rewardPool' = IF s > 0 THEN [rewardPool EXCEPT ![requestCase[r]] = @ + s]
                                    ELSE rewardPool
      BY <1>4, <2>2, AwardBalances DEF TInv
    <3> HIDE DEF s
    <3> QED BY <2>1, <3>1
  <2>3. CASE AwardTo(r, request[r].disputer, DisputeKey(r), ProposalKey(r))
    <3> DEFINE s == losing_bond_split(RequestBond(r)).council
    <3>1. /\ s \in Nat /\ tok'["council"] = tok["council"] + s
          /\ rewardPool' = IF s > 0 THEN [rewardPool EXCEPT ![requestCase[r]] = @ + s]
                                    ELSE rewardPool
      BY <1>4, <2>3, AwardBalances DEF TInv
    <3> HIDE DEF s
    <3> QED BY <2>1, <3>1
  <2>4. CASE ReturnBoth(r)
    <3>1. tok'["council"] = tok["council"] + 0 /\ rewardPool' = rewardPool
      BY <1>4, <1>5, <2>4, ReturnBalances DEF TInv
    <3>2. 0 \in Nat /\ ~(0 > 0)
      OBVIOUS
    <3> QED BY <2>1, <3>1, <3>2
  <2> QED BY <1>3, <2>2, <2>3, <2>4
<1>7. Owed(c) = 0
  BY <1>1 DEF Owed
<1>8. Owed(c)' \in Nat /\ Owed(c)' <= s
  BY <1>6, OwedBoundsNext DEF OwedBounded
<1>9. tok'["council"] - tok["council"] >= Owed(c)' - Owed(c)
  BY <1>5, <1>6, <1>7, <1>8
<1>10. \A n \in CaseIds : n # c => Owed(n)' = Owed(n)
  BY <1>1, <1>6, OwedKept
<1>11. RewardsCovered'
  BY <1>9, <1>10, DebtsStep DEF RewardInv
<1>12. \A n \in CaseIds : ~kase'[n].has_final_outcome => rewardPool'[n] = 0
  BY <1>1, <1>6 DEF RewardInv
<1> QED BY <1>11, <1>12 DEF RewardInv

\* A claim pays what the claimer was owed, and only that is owed no longer.
LEMMA ClaimRewards ==
    ASSUME TInv, TInv', TallyCountsReveals, TallyCountsReveals', RewardInv,
           NEW v \in Members, NEW c \in CaseIds, ClaimReward(v, c)
    PROVE  RewardInv'
<1> DEFINE o == kase[c].final_outcome
           p == IF revealed[c][v] = o THEN RewardShare(c) ELSE 0
<1>1. /\ kase[c].has_final_outcome /\ v \notin claimed[c]
      /\ tok' = Transferred(tok, "council", v, p)
      /\ claimed' = [claimed EXCEPT ![c] = @ \cup {v}]
      /\ UNCHANGED <<kase, revealed, rewardPool>>
  BY DEF ClaimReward, claim_reward, ballotVars
<1>2. /\ tok \in [Accounts -> Int] /\ claimed \in [CaseIds -> SUBSET Members]
      /\ rewardPool[c] \in Nat /\ o \in Outcomes /\ kase[c].votes[o] \in Nat
  BY DEF TInv, TypeOK, CouncilTypeOK, CaseRecord
<1>3. /\ RewardShare(c) \in Nat /\ IsFiniteSet(Unclaimed(c))
      /\ Cardinality(Unclaimed(c)) \in Nat /\ Owed(c) \in Nat
  BY OwedFacts
<1>4. claimed'[c] = claimed[c] \cup {v} /\ \A n \in CaseIds : n # c => claimed'[n] = claimed[n]
  BY <1>1, <1>2
<1>5. tok'["council"] = tok["council"] - p /\ p \in Nat /\ tok["council"] \in Int
  <2>1. p \in Nat
    BY <1>3
  <2>2. v \in Accounts /\ "council" \in Accounts /\ v # "council"
    BY ContractAccounts
  <2> HIDE DEF p
  <2> QED BY <1>1, <1>2, <2>1, <2>2, TransferMoves
<1>6. \A n \in CaseIds : n # c => Owed(n)' = Owed(n)
  BY <1>1, <1>4, OwedKept
<1>7. RewardShare(c)' = RewardShare(c)
  BY <1>1 DEF RewardShare
<1>8. Unclaimed(c)' = Unclaimed(c) \ {v}
  BY <1>1, <1>4 DEF Unclaimed, Voters
<1>9. Owed(c) - Owed(c)' >= p
  <2> DEFINE n == kase[c].votes[o]
             s == RewardShare(c)
             k == Cardinality(Unclaimed(c))
  <2>1. Owed(c) = (IF n = 0 THEN rewardPool[c] ELSE s * k)
    BY <1>1 DEF Owed
  <2>2. Owed(c)' = (IF n = 0 THEN rewardPool[c] ELSE s * Cardinality(Unclaimed(c) \ {v}))
    BY <1>1, <1>7, <1>8 DEF Owed
  <2>3. CASE revealed[c][v] # o
    <3>1. v \notin Unclaimed(c)
      BY <2>3 DEF Unclaimed, Voters
    <3>2. Unclaimed(c) \ {v} = Unclaimed(c)
      BY <3>1
    <3>3. Owed(c)' = Owed(c) /\ p = 0
      BY <2>1, <2>2, <2>3, <3>2
    <3> QED BY <1>3, <3>3
  <2>4. CASE revealed[c][v] = o
    <3>1. v \in Unclaimed(c) /\ v \in Voters(c, o)
      BY <1>1, <2>4 DEF Unclaimed, Voters
    <3>2. Cardinality(Unclaimed(c) \ {v}) = k - 1 /\ k - 1 \in Nat
      <4>1. Cardinality(Unclaimed(c) \ {v}) = k - 1 /\ IsFiniteSet(Unclaimed(c) \ {v})
        BY <1>3, <3>1, FS_RemoveElement
      <4> QED BY <4>1, FS_CardinalityType
    <3>3. n # 0
      <4>1. n = Cardinality(Voters(c, o)) /\ IsFiniteSet(Voters(c, o))
        BY <1>2, VotersFinite DEF TallyCountsReveals
      <4> QED BY <3>1, <4>1, FS_EmptySet
    <3>4. Owed(c) = s * k /\ Owed(c)' = s * (k - 1) /\ p = s
      BY <2>1, <2>2, <2>4, <3>2, <3>3
    <3>5. s \in Nat /\ k \in Nat
      BY <1>3
    <3> HIDE DEF s, k, p, n
    <3>6. s * (k - 1) = s * k - s /\ s * k \in Nat
      BY <3>5
    <3> QED BY <3>4, <3>5, <3>6
  <2> QED BY <2>3, <2>4
<1>10. Owed(c)' \in Nat
  BY OwedBoundsNext DEF OwedBounded
<1> HIDE DEF p
<1>11. tok'["council"] - tok["council"] >= Owed(c)' - Owed(c)
  BY <1>3, <1>5, <1>9, <1>10
<1>12. RewardsCovered'
  BY <1>6, <1>11, DebtsStep DEF RewardInv
<1> QED BY <1>1, <1>12 DEF RewardInv

\* A sweep takes a pool that no voter has a share of.
LEMMA SweepRewards ==
    ASSUME TInv, TInv', TallyCountsReveals, TallyCountsReveals', RewardInv,
           NEW c \in CaseIds, SweepCaseReward(c)
    PROVE  RewardInv'
<1>1. /\ kase[c].has_final_outcome /\ kase[c].votes[kase[c].final_outcome] = 0
      /\ tok' = Transferred(tok, "council", "treasury", rewardPool[c])
      /\ rewardPool' = [rewardPool EXCEPT ![c] = 0]
      /\ UNCHANGED <<kase, revealed, claimed>>
  BY DEF SweepCaseReward, sweep_case_reward, ballotVars
<1>2. tok \in [Accounts -> Int] /\ rewardPool \in [CaseIds -> Nat]
  BY DEF TInv, TypeOK, CouncilTypeOK
<1>3. rewardPool'[c] = 0 /\ \A n \in CaseIds : n # c => rewardPool'[n] = rewardPool[n]
  BY <1>1, <1>2
<1>4. tok'["council"] = tok["council"] - rewardPool[c] /\ tok["council"] \in Int
  <2>1. "council" \in Accounts /\ "treasury" \in Accounts
    BY ContractAccounts
  <2>2. rewardPool[c] \in Int
    BY <1>2
  <2> QED BY <1>1, <1>2, <2>1, <2>2 DEF Transferred
<1>5. Owed(c) = rewardPool[c] /\ Owed(c)' = 0
  BY <1>1, <1>3 DEF Owed
<1>6. \A n \in CaseIds : n # c => Owed(n)' = Owed(n)
  BY <1>1, <1>3, OwedKept
<1>7. tok'["council"] - tok["council"] >= Owed(c)' - Owed(c)
  BY <1>2, <1>4, <1>5
<1>8. RewardsCovered'
  BY <1>6, <1>7, DebtsStep DEF RewardInv
<1> QED BY <1>1, <1>3, <1>8 DEF RewardInv

\* RewardInv is kept by every step.
LEMMA StepReward ==
    ASSUME TInv, TInv', VoteInv, TallyCountsReveals, TallyCountsReveals', RewardInv, [Next]_vars
    PROVE  RewardInv'
<1> USE DEF councilVars, ballotVars
<1>0. /\ tok \in [Accounts -> Int] /\ {"vault", "council", "treasury"} \subseteq Accounts
      /\ \A u \in Users : u \in Accounts /\ u # "council"
      /\ kase \in [CaseIds -> CaseRecord] /\ revealed \in [CaseIds -> [Members -> Ballots]]
  BY ContractAccounts DEF TInv, TypeOK, CouncilTypeOK
<1>1. ASSUME NEW m \in Markets, NEW s \in MarketStatuses,
             CreateMarket(m) \/ CloseTrading(m) \/ SetStatus(m, s) \/ RequestResolution(m)
      PROVE  RewardInv'
  <2>1. UNCHANGED <<councilVars, tok>>
    BY <1>1 DEF CreateMarket, CloseTrading, SetStatus, OthersThanRegistry, RequestResolution,
       request_resolution
  <2> QED BY <2>1, OthersKeepRewards
<1>2. ASSUME NEW u \in Users, NEW a, tok' = Transferred(tok, u, "vault", a), UNCHANGED councilVars
      PROVE  RewardInv'
  <2>1. tok'["council"] = tok["council"]
    BY <1>0, <1>2 DEF Transferred
  <2> QED BY <1>2, <2>1, OthersKeepRewards
<1>3. ASSUME NEW u \in Users, NEW r \in RequestIds, NEW o \in Outcomes,
             ProposeOutcome(u, r, o) \/ DisputeOutcome(u, r, o)
      PROVE  RewardInv'
  <2>1. /\ tok' = Transferred(tok, u, "vault", RequestBond(r))
        /\ UNCHANGED councilVars
    BY <1>3 DEF ProposeOutcome, propose_outcome, DisputeOutcome, dispute_outcome, lock_bond
  <2> QED BY <1>2, <2>1
<1>4. ASSUME NEW u \in Users, NEW r \in RequestIds, NEW m \in Markets, NEW a \in DirectAmounts,
             NEW d \in BOOLEAN, LockBond(u, r, m, a, d)
      PROVE  RewardInv'
  BY <1>2, <1>4 DEF LockBond, lock_bond
<1>5. ASSUME NEW r \in RequestIds, FinalizeUndisputed(r)
      PROVE  RewardInv'
  <2>1. /\ tok' = Transferred(tok, "vault", request[r].proposer, RequestBond(r))
        /\ UNCHANGED councilVars /\ request[r].status = "Proposed"
    BY <1>5 DEF FinalizeUndisputed, finalize_undisputed
  <2>2. request[r].proposer \in Users
    BY <2>1 DEF TInv, RequestShape
  <2>3. tok'["council"] = tok["council"]
    BY <1>0, <2>1, <2>2 DEF Transferred
  <2> QED BY <2>1, <2>3, OthersKeepRewards
<1>6. ASSUME NEW r \in RequestIds, EscalateToCouncil(r)
      PROVE  RewardInv'
  <2>0. PICK c \in CaseIds : c = nextCaseId
    BY <1>6 DEF EscalateToCouncil, escalate_to_council, open_case
  <2> DEFINE k == [NoCase EXCEPT !.status = "CommitPhase", !.request = r,
                                 !.commit_end = now + DisputeWindow[request[r].market],
                                 !.reveal_end = now + DisputeWindow[request[r].market]
                                                    + DisputeWindow[request[r].market]]
  <2>1. kase' = [kase EXCEPT ![c] = k] /\ UNCHANGED <<tok, revealed, claimed, rewardPool>>
    BY <1>6, <2>0 DEF EscalateToCouncil, escalate_to_council, open_case
  <2>2. k.has_final_outcome = FALSE
    BY DEF NoCase
  <2> HIDE DEF k
  <2>3. ~kase'[c].has_final_outcome /\ \A n \in CaseIds : n # c => kase'[n] = kase[n]
    BY <1>0, <2>1, <2>2
  <2>4. ~kase[c].has_final_outcome
    BY <2>0 DEF TInv, TypeOK, CouncilTypeOK, CaseShape
  <2> QED BY <2>1, <2>3, <2>4, OpenCaseStep
<1>7. ASSUME NEW v \in Members, NEW c \in CaseIds, NEW o \in Outcomes, RevealVote(v, c, o)
      PROVE  RewardInv'
  <2> DEFINE k == [kase[c] EXCEPT !.votes = [kase[c].votes EXCEPT ![o] = kase[c].votes[o] + 1]]
  <2>1. /\ kase' = [kase EXCEPT ![c] = k] /\ now <= kase[c].reveal_end
        /\ revealed' = [revealed EXCEPT ![c] = [revealed[c] EXCEPT ![v] = o]]
        /\ UNCHANGED <<tok, claimed, rewardPool>>
    BY <1>7 DEF RevealVote, reveal_vote
  <2>2. k.has_final_outcome = kase[c].has_final_outcome
    BY <1>0 DEF CaseRecord
  <2> HIDE DEF k
  <2>3. ~kase[c].has_final_outcome
    <3>1. now \in Nat /\ kase[c].reveal_end \in Nat
      BY <1>0 DEF TInv, TypeOK, CaseRecord
    <3> QED BY <2>1, <3>1 DEF VoteInv
  <2>4. /\ ~kase'[c].has_final_outcome
        /\ \A n \in CaseIds : n # c => kase'[n] = kase[n] /\ revealed'[n] = revealed[n]
    BY <1>0, <2>1, <2>2, <2>3
  <2> QED BY <2>1, <2>3, <2>4, OpenCaseStep
<1>8. ASSUME NEW c \in CaseIds, FinalizeCase(c) \/ FinalizeAndReportCase(c) \/ SweepCaseReward(c)
      PROVE  RewardInv'
  BY <1>8, FinalizeCaseRewards, ReportRewards, SweepRewards
<1>9. ASSUME NEW v \in Members, NEW c \in CaseIds, ClaimReward(v, c)
      PROVE  RewardInv'
  BY <1>9, ClaimRewards
<1>10. ASSUME NEW v \in Members, NEW c \in CaseIds, NEW o \in Outcomes, CommitVote(v, c, o)
       PROVE  RewardInv'
  BY <1>10, OthersKeepRewards DEF CommitVote, commit_vote
<1>11. ASSUME NEW s \in Splits, SetBondSplit(s)
       PROVE  RewardInv'
  BY <1>11, OthersKeepRewards DEF SetBondSplit
<1>12. ASSUME NEW v \in Members, NEW b \in BOOLEAN, SetMember(v, b)
       PROVE  RewardInv'
  BY <1>12, OthersKeepRewards DEF SetMember, set_member
<1>13. ASSUME NEW b \in BOOLEAN, PauseOracle(b) \/ PauseCouncil(b)
       PROVE  RewardInv'
  BY <1>13, OthersKeepRewards DEF PauseOracle, PauseCouncil, pause_council
<1>14. CASE Tick \/ UNCHANGED vars
  BY <1>14, OthersKeepRewards DEF Tick, vars
<1>15. "Yes" \in Outcomes /\ "Live" \in MarketStatuses
  BY DEF Outcomes, MarketStatuses
<1> QED BY <1>1, <1>3, <1>4, <1>5, <1>6, <1>7, <1>8, <1>9, <1>10, <1>11, <1>12, <1>13, <1>14,
           <1>15 DEF Next

\* The council's token balance always covers what it still owes: the shares
\* that correct voters have not claimed and the pools governance may sweep.
\* For any council, any number of cases paid from the one balance, any order
\* of reports, claims and sweeps, and any rounding of the shares.
THEOREM RewardsAlwaysCovered == Spec => []RewardsCovered
<1> DEFINE I == TInv /\ VoteInv /\ TallyCountsReveals /\ RewardInv
<1>1. Init => I
  BY InitTInv, InitVote, InitTally, InitReward
<1>2. I /\ [Next]_vars => I'
  BY StepTInv, StepVote, StepTally, StepReward
<1>3. I => RewardsCovered
  BY DEF RewardInv
<1> HIDE DEF I
<1> QED BY <1>1, <1>2, <1>3, PTL DEF Spec

-----------------------------------------------------------------------------
(* No step of a resolution is blocked on the way.                          *)

\* A market has an outcome only when it is resolved; requests are numbered
\* without a gap, and one that waits for disputes has its proposal.
ShapeInv ==
    /\ \A m \in Markets : market[m].has_final_outcome => market[m].status = "Resolved"
    /\ nextRequestId <= MaxRequests + 1
    /\ \A r \in RequestIds :
         /\ r < nextRequestId => request[r].status # "None"
         /\ request[r].status = "Proposed" => request[r].has_proposal

\* Cases are numbered without a gap, one is opened when its request is
\* escalated, and its request stays escalated until the case has its outcome.
OpenCaseInv ==
    /\ nextCaseId <= MaxCases + 1
    /\ \A r \in RequestIds :
         requestCase[r] # 0 => request[r].status \in {"Escalated", "Finalized"}
    /\ \A c \in CaseIds :
         /\ c < nextCaseId => kase[c].status # "None"
         /\ kase[c].status # "None" /\ ~kase[c].has_final_outcome =>
              request[kase[c].request].status = "Escalated"

\* No request and no case exists at first.
LEMMA InitPath == Init => ShapeInv /\ OpenCaseInv
<1> SUFFICES ASSUME Init PROVE ShapeInv /\ OpenCaseInv
  OBVIOUS
<1>1. ShapeInv
  BY BondAssumption DEF Init, RegistryInit, NoMarket, OracleInit, NoRequest, ShapeInv, RequestIds,
     BondAssumption
<1>2. OpenCaseInv
  BY CouncilAssumption DEF Init, CouncilInit, NoCase, OpenCaseInv, CaseIds, CouncilAssumption
<1> QED BY <1>1, <1>2

\* A market is given its outcome in the step that resolves it, and no step of
\* operational governance takes it out of Resolved.
LEMMA OutcomeWhenResolved ==
    ASSUME OperationalGovernance, TInv, PhaseInv, ShapeInv, [Next]_vars, NEW m \in Markets,
           market'[m].has_final_outcome
    PROVE  market'[m].status = "Resolved"
<1>1. market[m].has_final_outcome => market[m].status = "Resolved"
  BY DEF ShapeInv
<1>2. ASSUME NEW n \in Markets, NEW s \in MarketStatuses, Marked(n, s),
             <<market[n].status, s>> \in StatusSteps
      PROVE  market'[m].status = "Resolved"
  <2>1. CASE n = m
    <3>1. market[m].status # "Resolved"
      BY <1>2, <2>1 DEF StatusSteps
    <3>2. market'[m].has_final_outcome = market[m].has_final_outcome
      BY <1>2, <2>1 DEF Marked
    <3> QED BY <1>1, <3>1, <3>2
  <2>2. CASE n # m
    BY <1>1, <1>2, <2>2 DEF Marked
  <2> QED BY <2>1, <2>2
<1>3. ASSUME NEW n \in Markets, NEW o \in Outcomes, Settled(n, o)
      PROVE  market'[m].status = "Resolved"
  BY <1>1, <1>3 DEF Settled
<1>4. CASE market' = market
  BY <1>1, <1>4
<1> QED BY <1>2, <1>3, <1>4, MarketMoves DEF MarketStep

\* The requests, however they are written: the ids are handed out one by one,
\* and only propose_outcome makes a request Proposed.
LEMMA RequestsInOrder ==
    ASSUME TInv, ShapeInv, [Next]_vars
    PROVE  /\ nextRequestId' <= MaxRequests + 1
           /\ \A r \in RequestIds :
                /\ r < nextRequestId' => request'[r].status # "None"
                /\ request'[r].status = "Proposed" => request'[r].has_proposal
<1> DEFINE Ordered == /\ nextRequestId' <= MaxRequests + 1
                      /\ \A r \in RequestIds :
                           /\ r < nextRequestId' => request'[r].status # "None"
                           /\ request'[r].status = "Proposed" => request'[r].has_proposal
<1>1. request \in [RequestIds -> RequestRecord] /\ nextRequestId \in Nat /\ MaxRequests \in Nat
  BY BondAssumption DEF TInv, TypeOK, OracleTypeOK, BondAssumption
<1>2. CASE UNCHANGED <<request, nextRequestId>>
  BY <1>2 DEF ShapeInv
<1>3. ASSUME NEW m \in Markets, RequestResolution(m)
      PROVE  Ordered
  <2> DEFINE q == [NoRequest EXCEPT !.status = "Requested", !.market = m]
  <2>1. /\ nextRequestId \in RequestIds /\ nextRequestId' = nextRequestId + 1
        /\ request' = [request EXCEPT ![nextRequestId] = q]
    BY <1>3 DEF RequestResolution, request_resolution
  <2>2. q.status = "Requested"
    BY DEF NoRequest
  <2> HIDE DEF q
  <2>3. request'[nextRequestId] = q /\ \A n \in RequestIds : n # nextRequestId => request'[n] = request[n]
    BY <1>1, <2>1
  <2>4. nextRequestId' <= MaxRequests + 1
    BY <1>1, <2>1 DEF RequestIds
  <2>5. ASSUME NEW r \in RequestIds
        PROVE  /\ r < nextRequestId' => request'[r].status # "None"
               /\ request'[r].status = "Proposed" => request'[r].has_proposal
    <3>1. CASE r = nextRequestId
      BY <2>2, <2>3, <3>1
    <3>2. CASE r # nextRequestId
      <4>1. r < nextRequestId' => r < nextRequestId
        BY <1>1, <2>1, <3>2 DEF RequestIds
      <4> QED BY <2>3, <3>2, <4>1 DEF ShapeInv
    <3> QED BY <3>1, <3>2
  <2> QED BY <2>4, <2>5
<1>4. ASSUME NEW r \in RequestIds, UNCHANGED nextRequestId,
             \A n \in RequestIds : n # r => request'[n] = request[n],
             request'[r].status # "None",
             request'[r].status = "Proposed" => request'[r].has_proposal
      PROVE  Ordered
  BY <1>4 DEF ShapeInv
<1>5. ASSUME NEW u \in Users, NEW r \in RequestIds, NEW o \in Outcomes, ProposeOutcome(u, r, o)
      PROVE  Ordered
  <2> DEFINE q == [request[r] EXCEPT !.status = "Proposed", !.has_proposal = TRUE,
                                     !.proposer = u, !.proposed_outcome = o,
                                     !.proposed_at = now]
  <2>1. request' = [request EXCEPT ![r] = q] /\ UNCHANGED nextRequestId
    BY <1>5 DEF ProposeOutcome, propose_outcome
  <2>2. q.status = "Proposed" /\ q.has_proposal
    BY <1>1 DEF RequestRecord
  <2> HIDE DEF q
  <2>3. request'[r] = q /\ \A n \in RequestIds : n # r => request'[n] = request[n]
    BY <1>1, <2>1
  <2> HIDE DEF Ordered
  <2> QED BY <1>4, <2>1, <2>2, <2>3
<1>6. ASSUME NEW u \in Users, NEW r \in RequestIds, NEW o \in Outcomes, DisputeOutcome(u, r, o)
      PROVE  Ordered
  <2> DEFINE q == [request[r] EXCEPT !.status = "Disputed", !.has_dispute = TRUE,
                                     !.disputer = u, !.disputed_outcome = o]
  <2>1. request' = [request EXCEPT ![r] = q] /\ UNCHANGED nextRequestId
    BY <1>6 DEF DisputeOutcome, dispute_outcome
  <2>2. q.status = "Disputed"
    BY <1>1 DEF RequestRecord
  <2> HIDE DEF q
  <2>3. request'[r] = q /\ \A n \in RequestIds : n # r => request'[n] = request[n]
    BY <1>1, <2>1
  <2> HIDE DEF Ordered
  <2> QED BY <1>4, <2>1, <2>2, <2>3
<1>7. ASSUME NEW r \in RequestIds, EscalateToCouncil(r)
      PROVE  Ordered
  <2> DEFINE q == [request[r] EXCEPT !.status = "Escalated"]
  <2>1. request' = [request EXCEPT ![r] = q] /\ UNCHANGED nextRequestId
    BY <1>7 DEF EscalateToCouncil, escalate_to_council
  <2>2. q.status = "Escalated"
    BY <1>1 DEF RequestRecord
  <2> HIDE DEF q
  <2>3. request'[r] = q /\ \A n \in RequestIds : n # r => request'[n] = request[n]
    BY <1>1, <2>1
  <2> HIDE DEF Ordered
  <2> QED BY <1>4, <2>1, <2>2, <2>3
<1>8. ASSUME NEW r \in RequestIds, NEW o, request' = Finalized(r, o), UNCHANGED nextRequestId
      PROVE  Ordered
  <2> DEFINE q == [request[r] EXCEPT !.status = "Finalized", !.has_final_outcome = TRUE,
                                     !.final_outcome = o]
  <2>1. request' = [request EXCEPT ![r] = q]
    BY <1>8 DEF Finalized
  <2>2. q.status = "Finalized"
    BY <1>1 DEF RequestRecord
  <2> HIDE DEF q
  <2>3. request'[r] = q /\ \A n \in RequestIds : n # r => request'[n] = request[n]
    BY <1>1, <2>1
  <2> HIDE DEF Ordered
  <2> QED BY <1>4, <1>8, <2>2, <2>3
<1> HIDE DEF Ordered
<1>9. ASSUME NEW r \in RequestIds, FinalizeUndisputed(r)
      PROVE  Ordered
  BY <1>8, <1>9 DEF FinalizeUndisputed, finalize_undisputed
<1>10. ASSUME NEW c \in CaseIds, FinalizeAndReportCase(c)
       PROVE  Ordered
  <2>1. PICK r \in RequestIds : r = kase[c].request
    BY <1>10 DEF FinalizeAndReportCase, finalize_case, CanFinalize, TInv, CaseShape
  <2>2. request' = Finalized(r, Tally(kase[c].votes)) /\ UNCHANGED nextRequestId
    BY <1>10, <2>1 DEF FinalizeAndReportCase, report_council_outcome
  <2> QED BY <1>8, <2>2
<1>11. Ordered
  BY <1>2, <1>3, <1>5, <1>6, <1>7, <1>9, <1>10, RequestChanges DEF RequestStep, Ordered
<1> QED BY <1>11 DEF Ordered

\* ShapeInv is kept by every step of operational governance.
LEMMA StepShape ==
    ASSUME OperationalGovernance, TInv, PhaseInv, ShapeInv, [Next]_vars
    PROVE  ShapeInv'
BY OutcomeWhenResolved, RequestsInOrder DEF ShapeInv

\* An escalated request is only ever finalized, by the report of its case.
LEMMA EscalatedMoves ==
    ASSUME TInv, [Next]_vars, NEW r \in RequestIds, request[r].status = "Escalated",
           request'[r] # request[r]
    PROVE  /\ request'[r].status = "Finalized"
           /\ \E c \in CaseIds : finalize_case(c) /\ kase[c].request = r
<1>1. request \in [RequestIds -> RequestRecord]
  BY DEF TInv, TypeOK, OracleTypeOK
<1>2. ASSUME NEW n \in RequestIds, NEW q, request' = [request EXCEPT ![n] = q],
             request[n].status # "Escalated"
      PROVE  FALSE
  BY <1>1, <1>2
<1>3. ASSUME NEW m \in Markets, RequestResolution(m)
      PROVE  FALSE
  <2> DEFINE q == [NoRequest EXCEPT !.status = "Requested", !.market = m]
  <2>1. nextRequestId \in RequestIds /\ request' = [request EXCEPT ![nextRequestId] = q]
    BY <1>3 DEF RequestResolution, request_resolution
  <2>2. request[nextRequestId].status = "None"
    BY <2>1 DEF TInv, TypeOK, OracleTypeOK, RequestShape
  <2> HIDE DEF q
  <2> QED BY <1>2, <2>1, <2>2
<1>4. ASSUME NEW u \in Users, NEW n \in RequestIds, NEW o \in Outcomes,
             ProposeOutcome(u, n, o) \/ DisputeOutcome(u, n, o)
      PROVE  FALSE
  <2>1. request[n].status # "Escalated"
    BY <1>4 DEF ProposeOutcome, DisputeOutcome, dispute_outcome
  <2>2. \E q : request' = [request EXCEPT ![n] = q]
    <3>1. CASE ProposeOutcome(u, n, o)
      BY <3>1 DEF ProposeOutcome, propose_outcome
    <3>2. CASE DisputeOutcome(u, n, o)
      BY <3>2 DEF DisputeOutcome, dispute_outcome
    <3> QED BY <1>4, <3>1, <3>2
  <2> QED BY <1>2, <2>1, <2>2
<1>5. ASSUME NEW n \in RequestIds, FinalizeUndisputed(n) \/ EscalateToCouncil(n)
      PROVE  FALSE
  <2>1. request[n].status # "Escalated"
    BY <1>5 DEF FinalizeUndisputed, finalize_undisputed, EscalateToCouncil, escalate_to_council
  <2>2. \E q : request' = [request EXCEPT ![n] = q]
    BY <1>5 DEF FinalizeUndisputed, finalize_undisputed, Finalized, EscalateToCouncil,
       escalate_to_council
  <2> QED BY <1>2, <2>1, <2>2
<1>6. ASSUME NEW c \in CaseIds, FinalizeAndReportCase(c)
      PROVE  /\ request'[r].status = "Finalized"
             /\ finalize_case(c) /\ kase[c].request = r
  <2>1. PICK n \in RequestIds : n = kase[c].request
    BY <1>6 DEF FinalizeAndReportCase, finalize_case, CanFinalize, TInv, CaseShape
  <2> DEFINE q == [request[n] EXCEPT !.status = "Finalized", !.has_final_outcome = TRUE,
                                     !.final_outcome = Tally(kase[c].votes)]
  <2>2. request' = [request EXCEPT ![n] = q] /\ finalize_case(c)
    BY <1>6, <2>1 DEF FinalizeAndReportCase, report_council_outcome, Finalized
  <2>3. q.status = "Finalized"
    BY <1>1 DEF RequestRecord
  <2> HIDE DEF q
  <2>4. n = r
    BY <1>1, <2>2
  <2> QED BY <1>1, <2>1, <2>2, <2>3, <2>4
<1> QED BY <1>3, <1>4, <1>5, <1>6, RequestChanges DEF RequestStep

\* What a step does to a case: a case on record keeps its request and its
\* outcome, and a new one is the next, opened for the request that is escalated.
CaseKept(c) ==
    kase[c].status # "None" =>
      /\ kase'[c].status # "None" /\ kase'[c].request = kase[c].request
      /\ kase[c].has_final_outcome => kase'[c].has_final_outcome

CaseOpened(c) ==
    /\ c = nextCaseId /\ nextCaseId' # nextCaseId => kase'[c].status # "None"
    /\ kase[c].status = "None" /\ kase'[c].status # "None" =>
         \E r \in RequestIds : EscalateToCouncil(r) /\ kase'[c].request = r

LEMMA CaseMoves ==
    ASSUME TInv, VoteInv, [Next]_vars
    PROVE  /\ nextCaseId' = nextCaseId \/ (nextCaseId \in CaseIds /\ nextCaseId' = nextCaseId + 1)
           /\ \A c \in CaseIds : CaseKept(c) /\ CaseOpened(c)
<1> DEFINE Moved(c) == CaseKept(c) /\ CaseOpened(c)
           Counted == nextCaseId' = nextCaseId \/ (nextCaseId \in CaseIds /\ nextCaseId' = nextCaseId + 1)
<1> USE DEF CaseKept, CaseOpened
<1>1. kase \in [CaseIds -> CaseRecord]
  BY DEF TInv, TypeOK, CouncilTypeOK
<1>2. CASE UNCHANGED <<kase, nextCaseId>>
  BY <1>2
<1>3. ASSUME NEW r \in RequestIds, EscalateToCouncil(r)
      PROVE  Counted /\ \A c \in CaseIds : Moved(c)
  <2> DEFINE w == DisputeWindow[request[r].market]
             k == [NoCase EXCEPT !.status = "CommitPhase", !.request = r,
                                 !.commit_end = now + w, !.reveal_end = now + w + w]
  <2>1. /\ nextCaseId \in CaseIds /\ nextCaseId' = nextCaseId + 1
        /\ kase' = [kase EXCEPT ![nextCaseId] = k]
    BY <1>3 DEF EscalateToCouncil, escalate_to_council, open_case
  <2>2. k.status = "CommitPhase" /\ k.request = r
    BY DEF NoCase
  <2>3. kase[nextCaseId].status = "None"
    BY <2>1 DEF TInv, TypeOK, CouncilTypeOK, CaseShape
  <2> HIDE DEF k
  <2>4. kase'[nextCaseId] = k /\ \A c \in CaseIds : c # nextCaseId => kase'[c] = kase[c]
    BY <1>1, <2>1
  <2> QED BY <1>3, <2>1, <2>2, <2>3, <2>4
<1>4. ASSUME NEW n \in CaseIds, UNCHANGED nextCaseId,
             \A c \in CaseIds : c # n => kase'[c] = kase[c],
             kase[n].status # "None", kase'[n].status # "None", kase'[n].request = kase[n].request,
             kase[n].has_final_outcome => kase'[n].has_final_outcome
      PROVE  Counted /\ \A c \in CaseIds : Moved(c)
  BY <1>4
<1> HIDE DEF Moved, Counted
<1>5. ASSUME NEW v \in Members, NEW c \in CaseIds, NEW o \in Outcomes, RevealVote(v, c, o)
      PROVE  Counted /\ \A n \in CaseIds : Moved(n)
  <2> DEFINE k == [kase[c] EXCEPT !.votes = [kase[c].votes EXCEPT ![o] = kase[c].votes[o] + 1]]
  <2>1. kase' = [kase EXCEPT ![c] = k] /\ kase[c].status # "None" /\ UNCHANGED nextCaseId
    BY <1>5 DEF RevealVote, reveal_vote
  <2>2. /\ k.status = kase[c].status /\ k.request = kase[c].request
        /\ k.has_final_outcome = kase[c].has_final_outcome
    BY <1>1 DEF CaseRecord
  <2> HIDE DEF k
  <2>3. kase'[c] = k /\ \A n \in CaseIds : n # c => kase'[n] = kase[n]
    BY <1>1, <2>1
  <2> QED BY <1>4, <2>1, <2>2, <2>3
<1>6. ASSUME NEW c \in CaseIds, finalize_case(c)
      PROVE  Counted /\ \A n \in CaseIds : Moved(n)
  <2> DEFINE k == [kase[c] EXCEPT !.has_final_outcome = TRUE,
                                  !.final_outcome = Tally(kase[c].votes), !.status = "Finalized"]
  <2>1. kase' = [kase EXCEPT ![c] = k] /\ kase[c].status # "None" /\ UNCHANGED nextCaseId
    BY <1>6 DEF finalize_case, CanFinalize
  <2>2. k.status = "Finalized" /\ k.request = kase[c].request /\ k.has_final_outcome
    BY <1>1 DEF CaseRecord
  <2> HIDE DEF k
  <2>3. kase'[c] = k /\ \A n \in CaseIds : n # c => kase'[n] = kase[n]
    BY <1>1, <2>1
  <2> QED BY <1>4, <2>1, <2>2, <2>3
<1>7. CaseStep
  BY CaseChanges
<1>8. Counted /\ \A c \in CaseIds : Moved(c)
  <2>1. CASE UNCHANGED <<kase, nextCaseId>>
    BY <1>2, <2>1 DEF Counted, Moved
  <2> QED BY <1>3, <1>5, <1>6, <1>7, <2>1 DEF CaseStep
<1> QED BY <1>8 DEF Counted, Moved

\* OpenCaseInv is kept by every step: a case is opened in the step that makes
\* its request Escalated, and given its outcome in the one that reports it, or
\* on its own; after that the request of the case may be in either status.
LEMMA StepOpenCase ==
    ASSUME TInv, TInv', VoteInv, OpenCaseInv, [Next]_vars
    PROVE  OpenCaseInv'
<1>1. /\ kase \in [CaseIds -> CaseRecord] /\ nextCaseId \in Nat /\ MaxCases \in Nat
      /\ request \in [RequestIds -> RequestRecord]
      /\ requestCase \in [RequestIds -> CaseIds \cup {0}]
  BY CouncilAssumption DEF TInv, TypeOK, CouncilTypeOK, OracleTypeOK, CouncilAssumption
<1>2. ASSUME NEW r \in RequestIds, EscalateToCouncil(r)
      PROVE  /\ request'[r].status = "Escalated"
             /\ \A n \in RequestIds : n # r => requestCase'[n] = requestCase[n]
  <2> DEFINE q == [request[r] EXCEPT !.status = "Escalated"]
  <2>1. request' = [request EXCEPT ![r] = q] /\ requestCase' = [requestCase EXCEPT ![r] = nextCaseId]
    BY <1>2 DEF EscalateToCouncil, escalate_to_council, open_case
  <2>2. q.status = "Escalated"
    BY <1>1 DEF RequestRecord
  <2> HIDE DEF q
  <2> QED BY <1>1, <2>1, <2>2
<1>3. nextCaseId' <= MaxCases + 1
  BY <1>1, CaseMoves DEF OpenCaseInv, CaseIds
<1>4. ASSUME NEW r \in RequestIds, requestCase'[r] # 0
      PROVE  request'[r].status \in {"Escalated", "Finalized"}
  <2>1. CASE requestCase[r] # 0
    <3>1. request[r].status \in {"Escalated", "Finalized"}
      BY <2>1 DEF OpenCaseInv
    <3>2. CASE request[r].status = "Finalized"
      BY <3>2, RequestsFrozen
    <3>3. CASE request[r].status = "Escalated"
      BY <3>3, EscalatedMoves
    <3> QED BY <3>1, <3>2, <3>3
  <2>2. CASE requestCase[r] = 0
    <3>1. requestCase'[r] # requestCase[r]
      BY <1>4, <2>2
    <3>2. PICK n \in RequestIds : EscalateToCouncil(n)
      <4>1. ASSUME UNCHANGED requestCase PROVE FALSE
        BY <3>1, <4>1
      <4>2. ASSUME NEW v \in Members, NEW c \in CaseIds, NEW o \in Outcomes, RevealVote(v, c, o)
            PROVE  UNCHANGED requestCase
        BY <4>2 DEF RevealVote, reveal_vote
      <4>3. ASSUME NEW c \in CaseIds, finalize_case(c)
            PROVE  UNCHANGED requestCase
        BY <4>3 DEF finalize_case
      <4> QED BY <4>1, <4>2, <4>3, CaseChanges DEF CaseStep
    <3>3. n = r
      BY <1>2, <3>1, <3>2
    <3> QED BY <1>2, <3>2, <3>3
  <2> QED BY <2>1, <2>2
<1>5. ASSUME NEW c \in CaseIds, c < nextCaseId'
      PROVE  kase'[c].status # "None"
  <2>1. CASE kase[c].status # "None"
    BY <2>1, CaseMoves DEF CaseKept
  <2>2. CASE kase[c].status = "None"
    <3>1. ~(c < nextCaseId)
      BY <2>2 DEF OpenCaseInv
    <3>2. nextCaseId' # nextCaseId /\ c = nextCaseId
      BY <1>1, <1>5, <3>1, CaseMoves DEF CaseIds
    <3> QED BY <3>2, CaseMoves DEF CaseOpened
  <2> QED BY <2>1, <2>2
<1>6. ASSUME NEW c \in CaseIds, kase'[c].status # "None", ~kase'[c].has_final_outcome
      PROVE  request'[kase'[c].request].status = "Escalated"
  <2>1. CASE kase[c].status # "None"
    <3>1. kase'[c].request = kase[c].request /\ ~kase[c].has_final_outcome
      BY <1>6, <2>1, CaseMoves DEF CaseKept
    <3>2. PICK r \in RequestIds : r = kase[c].request /\ requestCase[r] = c
      BY <2>1 DEF TInv, CaseShape
    <3>3. request[r].status = "Escalated"
      BY <2>1, <3>1, <3>2 DEF OpenCaseInv
    <3>4. CASE request'[r] = request[r]
      BY <3>1, <3>2, <3>3, <3>4
    <3>5. CASE request'[r] # request[r]
      <4>1. PICK d \in CaseIds : finalize_case(d) /\ kase[d].request = r
        BY <3>3, <3>5, EscalatedMoves
      <4>2. d = c
        BY <3>2, <4>1 DEF finalize_case, CanFinalize, TInv, CaseShape
      <4>3. kase'[c].has_final_outcome
        <5> DEFINE k == [kase[c] EXCEPT !.has_final_outcome = TRUE,
                                        !.final_outcome = Tally(kase[c].votes), !.status = "Finalized"]
        <5>1. kase' = [kase EXCEPT ![c] = k] /\ k.has_final_outcome
          BY <1>1, <4>1, <4>2 DEF finalize_case, CaseRecord
        <5> HIDE DEF k
        <5> QED BY <1>1, <5>1
      <4> QED BY <1>6, <4>3
    <3> QED BY <3>4, <3>5
  <2>2. CASE kase[c].status = "None"
    BY <1>2, <1>6, <2>2, CaseMoves DEF CaseOpened
  <2> QED BY <2>1, <2>2
<1> QED BY <1>3, <1>4, <1>5, <1>6 DEF OpenCaseInv

\* The bounds of the model leave a request for every market and a case for
\* every request, as the contracts' own 64-bit counters do.
RoomForAll == MaxMarkets <= MaxRequests /\ MaxRequests <= MaxCases

\* The first n ids stand for as many different members of 1 .. top, not for x.
StandFor(f, n, top, x) ==
    /\ \A i \in 1 .. n : f[i] \in 1 .. top /\ f[i] # x
    /\ \A i, j \in 1 .. n : f[i] = f[j] => i = j

\* Then there is one id left for x.
LEMMA IdsLeft ==
    ASSUME NEW n \in Nat, NEW top \in Nat, NEW x \in 1 .. top, NEW f, StandFor(f, n, top, x)
    PROVE  n + 1 <= top
<1> DEFINE S == 1 .. n
           T == (1 .. top) \ {x}
           g == [i \in S |-> f[i]]
<1>1. IsFiniteSet(1 .. top) /\ Cardinality(1 .. top) = top
  <2>1. /\ IsFiniteSet(1 .. top)
        /\ Cardinality(1 .. top) = IF 1 > top THEN 0 ELSE top - 1 + 1
    BY FS_Interval
  <2> QED BY <2>1
<1>2. IsFiniteSet(T) /\ Cardinality(T) = top - 1
  BY <1>1, FS_RemoveElement
<1>3. Cardinality(S) = n
  <2>1. Cardinality(1 .. n) = IF 1 > n THEN 0 ELSE n - 1 + 1
    BY FS_Interval
  <2> QED BY <2>1
<1>4. g \in Injection(S, T)
  BY DEF StandFor, Injection, IsInjective
<1> HIDE DEF S, T, g
<1>5. Cardinality(S) <= Cardinality(T)
  BY <1>2, <1>4, FS_Injection
<1> QED BY <1>2, <1>3, <1>5

\* A market without a request finds an id for one: each request on record is
\* the request of a market of its own.
LEMMA RequestIdLeft ==
    ASSUME RoomForAll, TInv, PhaseInv, ShapeInv, NEW m \in Markets, marketRequest[m] = 0
    PROVE  nextRequestId \in RequestIds
<1> DEFINE n == nextRequestId - 1
           f == [r \in RequestIds |-> request[r].market]
<1>1. /\ nextRequestId \in Nat \ {0} /\ MaxMarkets \in Nat /\ MaxRequests \in Nat
      /\ nextRequestId <= MaxRequests + 1
  BY RegistryAssumption, BondAssumption DEF RegistryAssumption, BondAssumption, TInv, TypeOK,
     OracleTypeOK, ShapeInv
<1>2. n \in Nat /\ \A i \in 1 .. n : i \in RequestIds /\ i < nextRequestId
  BY <1>1 DEF RequestIds
<1>3. ASSUME NEW i \in 1 .. n
      PROVE  f[i] \in Markets /\ marketRequest[f[i]] = i /\ i # 0
  <2>1. request[i].status # "None" /\ i \in RequestIds
    BY <1>2 DEF ShapeInv
  <2>2. request[i].market \in Markets /\ marketRequest[request[i].market] = i
    BY <2>1 DEF TInv, RequestShape, PhaseInv
  <2> QED BY <1>2, <2>1, <2>2
<1>4. m \in 1 .. MaxMarkets
  BY DEF Markets
<1>5. StandFor(f, n, MaxMarkets, m)
  BY <1>3 DEF Markets, StandFor
<1> HIDE DEF f
<1>6. n + 1 <= MaxMarkets
  <2> HIDE DEF n
  <2> QED BY <1>1, <1>2, <1>4, <1>5, IdsLeft
<1> QED BY <1>1, <1>6 DEF RoomForAll, RequestIds

\* A disputed request without a case finds an id for one.
LEMMA CaseIdLeft ==
    ASSUME RoomForAll, TInv, OpenCaseInv, NEW r \in RequestIds, requestCase[r] = 0
    PROVE  nextCaseId \in CaseIds
<1> DEFINE n == nextCaseId - 1
           f == [c \in CaseIds |-> kase[c].request]
<1>1. /\ nextCaseId \in Nat \ {0} /\ MaxCases \in Nat /\ MaxRequests \in Nat
      /\ nextCaseId <= MaxCases + 1
  BY CouncilAssumption, BondAssumption DEF CouncilAssumption, BondAssumption, TInv, TypeOK,
     CouncilTypeOK, OpenCaseInv
<1>2. n \in Nat /\ \A i \in 1 .. n : i \in CaseIds /\ i < nextCaseId
  BY <1>1 DEF CaseIds
<1>3. ASSUME NEW i \in 1 .. n
      PROVE  f[i] \in RequestIds /\ requestCase[f[i]] = i /\ i # 0
  <2>1. kase[i].status # "None" /\ i \in CaseIds
    BY <1>2 DEF OpenCaseInv
  <2>2. kase[i].request \in RequestIds /\ requestCase[kase[i].request] = i
    BY <2>1 DEF TInv, CaseShape
  <2> QED BY <1>2, <2>1, <2>2
<1>4. r \in 1 .. MaxRequests
  BY DEF RequestIds
<1>5. StandFor(f, n, MaxRequests, r)
  BY <1>3 DEF RequestIds, StandFor
<1> HIDE DEF f
<1>6. n + 1 <= MaxRequests
  <2> HIDE DEF n
  <2> QED BY <1>1, <1>2, <1>4, <1>5, IdsLeft
<1> QED BY <1>1, <1>6 DEF RoomForAll, CaseIds

\* The vault can pay out any one bond, and any two.
LEMMA VaultHoldsTwo ==
    ASSUME TInv, VaultInv, NEW k \in BondKeys
    PROVE  /\ bond[k].amount <= tok["vault"]
           /\ \A l \in BondKeys : l # k => bond[k].amount + bond[l].amount <= tok["vault"]
<1> DEFINE f == BondAmounts(bond)
           g == SumFunctionOnSet(f, BondKeys)
           h == SumFunctionOnSet(f, BondKeys \ {k})
<1>1. \A j \in BondKeys : f[j] = bond[j].amount /\ f[j] \in Nat
  BY DEF BondAmounts, TInv, TypeOK, BondTypeOK, BondRecord
<1>2. tok["vault"] = g
  BY DEF VaultInv, VaultCoversBonds, Covers
<1> HIDE DEF f
<1>3. IsFiniteSet(BondKeys) /\ IsFiniteSet(BondKeys \ {k})
  BY BondKeysFinite, FS_RemoveElement
<1>4. g = f[k] + h
  BY <1>1, <1>3, SumTake
<1>5. h \in Nat /\ \A j \in BondKeys \ {k} : f[j] <= h
  BY <1>1, <1>3, SumNat
<1> HIDE DEF g, h
<1>6. bond[k].amount = f[k] /\ f[k] \in Nat
  BY <1>1
<1>7. bond[k].amount <= tok["vault"]
  BY <1>2, <1>4, <1>5, <1>6
<1>8. ASSUME NEW l \in BondKeys, l # k PROVE bond[k].amount + bond[l].amount <= tok["vault"]
  <2>1. bond[l].amount = f[l] /\ f[l] \in Nat /\ f[l] <= h
    BY <1>1, <1>5, <1>8
  <2> QED BY <1>2, <1>4, <1>5, <1>6, <2>1
<1> QED BY <1>7, <1>8

\* The latest request of a market, as the API and the pages find it: its status
\* and the market's correspond, whichever of the two they go by.
LEMMA LatestRequest ==
    ASSUME TInv, PhaseInv, NEW m \in Markets, NEW r, r = getResolution(m)
    PROVE  /\ r = 0 => market[m].status \in {"None", "Live", "Paused", "TradingClosed", "Cancelled"}
           /\ r # 0 =>
                /\ r \in RequestIds /\ request[r].market = m
                /\ market[m].status = "ResolutionRequested" <=> request[r].status = "Requested"
                /\ market[m].status = "Proposed" <=> request[r].status = "Proposed"
                /\ market[m].status = "Disputed" <=> request[r].status = "Disputed"
                /\ market[m].status = "CouncilVoting" <=> request[r].status = "Escalated"
                /\ market[m].status \notin {"None", "Live", "Paused", "TradingClosed", "Cancelled"}
<1>1. r \in RequestIds \cup {0}
  BY DEF getResolution, TInv, TypeOK, OracleTypeOK
<1>2. r = 0 => market[m].status \in {"None", "Live", "Paused", "TradingClosed", "Cancelled"}
  BY DEF getResolution, PhaseInv, PhaseAgreement, AgreesAt
<1>3. ASSUME r # 0
      PROVE  /\ r \in RequestIds /\ request[r].market = m
             /\ request[r].status \in OracleStatuses \ {"None"}
             /\ market[m].status = RegistryPhase[request[r].status]
  BY <1>1, <1>3 DEF getResolution, PhaseInv, PhaseAgreement, AgreesAt, TInv, TypeOK, OracleTypeOK,
     RequestRecord
<1>4. ASSUME NEW s \in OracleStatuses \ {"None"}
      PROVE  /\ RegistryPhase[s] = "ResolutionRequested" <=> s = "Requested"
             /\ RegistryPhase[s] = "Proposed" <=> s = "Proposed"
             /\ RegistryPhase[s] = "Disputed" <=> s = "Disputed"
             /\ RegistryPhase[s] = "CouncilVoting" <=> s = "Escalated"
             /\ RegistryPhase[s] \notin {"None", "Live", "Paused", "TradingClosed", "Cancelled"}
  BY PhaseValues DEF OracleStatuses
<1> QED BY <1>1, <1>2, <1>3, <1>4

\* What an offer says of the market and of its request.
OfferMeans(m, s) ==
    LET r == getResolution(m)
    IN  /\ s = "close_trading" => market[m].status = "Live" /\ now >= Expiry[m]
        /\ s = "request_resolution" => market[m].status = "TradingClosed" /\ now >= Expiry[m]
        /\ s \in {"propose_outcome", "dispute", "finalize_undisputed", "escalate_to_council"} => r # 0
        /\ s = "propose_outcome" => request[r].status = "Requested"
        /\ s = "dispute" => request[r].status = "Proposed" /\ now < DisputeDeadline(r)
        /\ s = "finalize_undisputed" => request[r].status = "Proposed" /\ now >= DisputeDeadline(r)
        /\ s = "escalate_to_council" => request[r].status = "Disputed"
        /\ s = "redeem" => market[m].status \in {"Resolved", "Cancelled"}

\* The derived action of the API.
LEMMA DerivedMeans ==
    ASSUME TInv, PhaseInv, NEW m \in Markets, NEW s \in deriveResolutionNextActions(m)
    PROVE  OfferMeans(m, s)
<1> DEFINE r == getResolution(m)
           t == toMarketStatus(m)
<1>1. now \in Nat /\ Expiry[m] \in Nat /\ now >= Expiry[m]
  BY RegistryAssumption DEF RegistryAssumption, TInv, TypeOK, deriveResolutionNextActions
<1>2. t = market[m].status \/ (t = "Created" /\ market[m].status = "None")
  BY DEF toMarketStatus, TInv, TypeOK, RegistryTypeOK, MarketRecord
<1>3. r # 0 => r \in RequestIds
  BY LatestRequest
<1>4. r # 0 => DisputeDeadline(r) \in Int
  <2>1. ASSUME r # 0, request[r].market \in Markets PROVE DisputeDeadline(r) \in Int
    BY <1>3, <2>1, RegistryAssumption DEF RegistryAssumption, DisputeDeadline, TInv, TypeOK,
       OracleTypeOK, RequestRecord
  <2> QED BY <2>1, LatestRequest
<1>5. CASE t = "TradingClosed"
  <2>1. s = "request_resolution"
    BY <1>1, <1>5 DEF deriveResolutionNextActions
  <2> QED BY <1>1, <1>2, <1>5, <2>1 DEF OfferMeans
<1>6. CASE t = "ResolutionRequested"
  <2>1. s = "propose_outcome"
    BY <1>1, <1>6 DEF deriveResolutionNextActions
  <2> QED BY <1>2, <1>6, <2>1, LatestRequest DEF OfferMeans
<1>7. CASE t = "Proposed"
  <2>1. r # 0 /\ request[r].status = "Proposed"
    BY <1>2, <1>7, LatestRequest
  <2>2. CASE request[r].has_dispute
    <3>1. s = "await_dispute_settlement"
      BY <1>1, <1>7, <2>2 DEF deriveResolutionNextActions
    <3> QED BY <3>1 DEF OfferMeans
  <2>3. CASE ~request[r].has_dispute
    <3>1. s \in undisputedStep(r)
      BY <1>1, <1>7, <2>3 DEF deriveResolutionNextActions
    <3>2. \/ s = "dispute" /\ DisputeDeadline(r) > now
          \/ s = "finalize_undisputed" /\ ~(DisputeDeadline(r) > now)
      BY <3>1 DEF undisputedStep
    <3> QED BY <1>1, <1>4, <2>1, <3>2 DEF OfferMeans
  <2> QED BY <2>2, <2>3
<1>8. CASE t = "Disputed"
  <2>1. s = "escalate_to_council"
    BY <1>1, <1>8 DEF deriveResolutionNextActions
  <2> QED BY <1>2, <1>8, <2>1, LatestRequest DEF OfferMeans
<1>9. CASE t = "CouncilVoting"
  <2>1. s = "monitor_commit_reveal"
    BY <1>1, <1>9 DEF deriveResolutionNextActions
  <2> QED BY <2>1 DEF OfferMeans
<1>10. CASE t \in {"Resolved", "Cancelled"}
  <2>1. s = "redeem"
    BY <1>1, <1>10 DEF deriveResolutionNextActions
  <2> QED BY <1>2, <1>10, <2>1 DEF OfferMeans
<1>11. CASE t \notin {"TradingClosed", "ResolutionRequested", "Proposed", "Disputed", "CouncilVoting",
                      "Resolved", "Cancelled"}
  <2>1. deriveResolutionNextActions(m) = {}
    BY <1>1, <1>11 DEF deriveResolutionNextActions
  <2> QED BY <2>1
<1> QED BY <1>5, <1>6, <1>7, <1>8, <1>9, <1>10, <1>11

\* The sections of the pages.
LEMMA SectionMeans ==
    ASSUME TInv, PhaseInv, NEW m \in Markets, NEW s \in Sections(m)
    PROVE  OfferMeans(m, s)
<1> DEFINE r == getResolution(m)
<1>1. now \in Nat /\ Expiry[m] \in Nat
  BY RegistryAssumption DEF RegistryAssumption, TInv, TypeOK
<1>2. CASE s = "close_trading"
  <2>1. isExpired(m)
    BY <1>2 DEF Sections
  <2>2. market[m].status = "Live" /\ now >= Expiry[m]
    BY <1>1, <2>1 DEF isExpired, deriveTradeability, toMarketStatus
  <2> QED BY <1>2, <2>2 DEF OfferMeans
<1>3. CASE s = "request_resolution"
  <2>1. RequestSection(m)
    BY <1>3 DEF Sections
  <2>2. market[m].status = "TradingClosed" /\ now >= Expiry[m]
    BY <1>1, <2>1 DEF RequestSection, toMarketStatus
  <2> QED BY <1>3, <2>2 DEF OfferMeans
<1>4. CASE s = "propose_outcome"
  <2>1. r # 0 /\ ProposeSection(r)
    BY <1>4 DEF Sections
  <2> QED BY <1>4, <2>1 DEF OfferMeans, ProposeSection
<1>5. CASE s = "dispute"
  <2>1. r # 0 /\ DisputeSection(r)
    BY <1>5 DEF Sections
  <2> QED BY <1>5, <2>1 DEF OfferMeans, DisputeSection
<1>6. CASE s = "finalize_undisputed"
  <2>1. r # 0 /\ FinalizeSection(r)
    BY <1>6 DEF Sections
  <2> QED BY <1>6, <2>1 DEF OfferMeans, FinalizeSection
<1>7. CASE s = "escalate_to_council"
  <2>1. r # 0 /\ EscalateSection(r)
    BY <1>7 DEF Sections
  <2> QED BY <1>7, <2>1 DEF OfferMeans, EscalateSection
<1> QED BY <1>2, <1>3, <1>4, <1>5, <1>6, <1>7 DEF Sections

\* A proposal or a dispute of a user who can bond meets the vault's checks.
LEMMA BondTaken ==
    ASSUME TInv, NEW r \in RequestIds, request[r].market \in Markets,
           market[request[r].market].status # "None", NEW u \in Users, NEW d \in BOOLEAN,
           CanBond(u, r, d)
    PROVE  BondChecks(u, r, d)
<1>1. RequestBond(r) \in Nat \ {0}
  BY RegistryAssumption DEF RegistryAssumption, RequestBond
<1>2. tok[u] \in Int
  BY DEF TInv, TypeOK, Accounts
<1> QED BY <1>1, <1>2 DEF CanBond, BondChecks, CanTransfer

\* The full bond of an undisputed proposal is there to be released.
LEMMA ProposalPayable ==
    ASSUME TInv, BondInv, VaultInv, NEW r \in RequestIds,
           request[r].status \in {"Proposed", "Escalated"}
    PROVE  /\ CanPay(bond, ProposalKey(r), RequestBond(r))
           /\ CanTransfer(tok, "vault", RequestBond(r))
<1>1. request[r].market \in Markets
  BY DEF TInv, RequestShape
<1>2. RequestBond(r) \in Nat \ {0}
  BY <1>1, RegistryAssumption DEF RegistryAssumption, RequestBond
<1>3. bond[ProposalKey(r)].exists /\ bond[ProposalKey(r)].amount = RequestBond(r)
  BY DEF BondInv, BondsFollow, HoldsFullBond
<1>4. ProposalKey(r) \in BondKeys
  BY BondKeyFacts
<1>5. bond[ProposalKey(r)].amount <= tok["vault"]
  BY <1>4, VaultHoldsTwo
<1> QED BY <1>2, <1>3, <1>5 DEF CanPay, CanTransfer

\* An offered step meets the checks of the contracts.
LEMMA OfferPasses ==
    ASSUME RoomForAll, TInv, PhaseInv, ShapeInv, OpenCaseInv, BondInv, VaultInv,
           NEW m \in Markets, NEW s, OfferMeans(m, s)
    PROVE  Checks(m, s) \/ Refused(m, s)
<1> DEFINE r == getResolution(m)
<1>1. r # 0 => r \in RequestIds /\ request[r].market = m
  BY LatestRequest
<1>2. now \in Nat
  BY DEF TInv, TypeOK
<1>3. market[m].status # "Resolved" => ~market[m].has_final_outcome
  BY DEF ShapeInv
<1>4. CASE s = "close_trading"
  <2>1. CloseChecks(m)
    BY <1>4 DEF OfferMeans, CloseChecks, valid_transition
  <2> QED BY <1>4, <2>1 DEF Checks
<1>5. CASE s = "request_resolution"
  <2>1. market[m].status = "TradingClosed" /\ now >= Expiry[m]
    BY <1>5 DEF OfferMeans
  <2>2. marketRequest[m] = 0
    BY <2>1, NoRequestYet
  <2>3. nextRequestId \in RequestIds
    BY <2>2, RequestIdLeft
  <2>4. oraclePaused \/ RequestChecks(m)
    BY <1>3, <2>1, <2>2, <2>3 DEF RequestChecks
  <2> QED BY <1>5, <2>4 DEF Checks, Refused
<1>6. CASE s = "propose_outcome"
  <2>1. r \in RequestIds /\ request[r].market = m /\ request[r].status = "Requested"
    BY <1>1, <1>6 DEF OfferMeans
  <2>2. market[m].status = "ResolutionRequested"
    BY <2>1, LatestRequest, <1>6 DEF OfferMeans
  <2>3. ASSUME NEW u \in Users, CanBond(u, r, FALSE) PROVE ProposeChecks(u, r)
    <3>1. BondChecks(u, r, FALSE)
      BY <2>1, <2>2, <2>3, BondTaken
    <3> QED BY <2>1, <2>2, <3>1 DEF ProposeChecks, valid_transition
  <2> QED BY <1>6, <2>3 DEF Checks
<1>7. CASE s = "dispute"
  <2>1. /\ r \in RequestIds /\ request[r].market = m /\ request[r].status = "Proposed"
        /\ now < DisputeDeadline(r)
    BY <1>1, <1>7 DEF OfferMeans
  <2>2. market[m].status = "Proposed"
    BY <2>1, LatestRequest, <1>7 DEF OfferMeans
  <2>3. request[r].has_proposal
    BY <2>1 DEF ShapeInv
  <2>4. now <= dispute_deadline(r)
    <3>1. request[r].proposed_at \in Nat /\ DisputeWindow[m] \in Nat
      BY <2>1, RegistryAssumption DEF RegistryAssumption, TInv, TypeOK, OracleTypeOK, RequestRecord
    <3> QED BY <1>2, <2>1, <3>1 DEF DisputeDeadline, dispute_deadline
  <2>5. ASSUME NEW u \in Users, NEW o \in Outcomes \ {request[r].proposed_outcome}, CanBond(u, r, TRUE)
        PROVE  DisputeChecks(u, r, o)
    <3>1. BondChecks(u, r, TRUE)
      BY <2>1, <2>2, <2>5, BondTaken
    <3> QED BY <2>1, <2>2, <2>3, <2>4, <2>5, <3>1 DEF DisputeChecks, valid_transition
  <2> QED BY <1>7, <2>5 DEF Checks
<1>8. CASE s = "finalize_undisputed"
  <2>1. /\ r \in RequestIds /\ request[r].market = m /\ request[r].status = "Proposed"
        /\ now >= DisputeDeadline(r)
    BY <1>1, <1>8 DEF OfferMeans
  <2>2. market[m].status = "Proposed"
    BY <2>1, LatestRequest, <1>8 DEF OfferMeans
  <2>3. request[r].has_proposal
    BY <2>1 DEF ShapeInv
  <2>4. now = DisputeDeadline(r) \/ now > dispute_deadline(r)
    <3>1. request[r].proposed_at \in Nat /\ DisputeWindow[m] \in Nat
      BY <2>1, RegistryAssumption DEF RegistryAssumption, TInv, TypeOK, OracleTypeOK, RequestRecord
    <3> QED BY <1>2, <2>1, <3>1 DEF DisputeDeadline, dispute_deadline
  <2>5. now > dispute_deadline(r) => FinalizeChecks(r)
    BY <1>3, <2>1, <2>2, <2>3, ProposalPayable DEF FinalizeChecks, OutcomeChecks
  <2> QED BY <1>8, <2>4, <2>5 DEF Checks, Refused
<1>9. CASE s = "escalate_to_council"
  <2>1. r \in RequestIds /\ request[r].market = m /\ request[r].status = "Disputed"
    BY <1>1, <1>9 DEF OfferMeans
  <2>2. market[m].status = "Disputed"
    BY <2>1, LatestRequest, <1>9 DEF OfferMeans
  <2>3. requestCase[r] = 0
    BY <2>1 DEF OpenCaseInv
  <2>4. nextCaseId \in CaseIds
    BY <2>1, <2>3, CaseIdLeft
  <2>5. EscalateChecks(r)
    BY <2>1, <2>2, <2>3, <2>4 DEF EscalateChecks, valid_transition
  <2> QED BY <1>9, <2>5 DEF Checks
<1>10. CASE s = "redeem"
  <2>1. LifePhase[m] \in {"Resolved", "Cancelled"}
    BY <1>10, LifeValues DEF OfferMeans, PhaseAt
  <2> QED BY <1>10, <2>1 DEF Checks
<1>11. CASE s \notin {"close_trading", "request_resolution", "propose_outcome", "dispute",
                      "finalize_undisputed", "escalate_to_council", "redeem"}
  BY <1>11 DEF Checks
<1> QED BY <1>4, <1>5, <1>6, <1>7, <1>8, <1>9, <1>10, <1>11

(***************************************************************************)
(* Whatever step of a resolution the API or a page offers fails no check   *)
(* of the contracts, except that a paused oracle takes no request and that *)
(* at the second of the deadline the oracle still takes disputes: for any  *)
(* number of markets and users, as long as governance leaves markets under *)
(* resolution to the oracle and ids do not run out (derived-state.ts:33-72,*)
(* ResolutionPanel.tsx:86-203, cod_oracle, market_registry, the vault).    *)
(***************************************************************************)
THEOREM OffersAlwaysPass ==
    ASSUME OperationalGovernance, RoomForAll
    PROVE  Spec => []OfferedStepsPass
<1> DEFINE I == /\ TInv /\ PhaseInv /\ BondInv /\ VaultInv /\ VoteInv
                /\ ShapeInv /\ OpenCaseInv
<1>1. Init => I
  BY InitTInv, InitPhase, InitBonds, InitVault, InitVote, InitPath
<1>2. I /\ [Next]_vars => I'
  <2> SUFFICES ASSUME I, [Next]_vars PROVE I'
    OBVIOUS
  <2>1. TInv'
    BY StepTInv
  <2>2. PhaseInv' /\ ShapeInv'
    BY <2>1, StepPhase, StepShape
  <2>3. BondInv' /\ VoteInv'
    BY <2>1, StepBonds, StepVote
  <2>4. VaultInv'
    BY <2>1, StepVault
  <2>5. OpenCaseInv'
    BY <2>1, StepOpenCase
  <2> QED BY <2>1, <2>2, <2>3, <2>4, <2>5
<1>3. I => OfferedStepsPass
  <2> SUFFICES ASSUME I, NEW m \in Markets, NEW s \in Offered(m)
               PROVE  Checks(m, s) \/ Refused(m, s)
    BY DEF OfferedStepsPass
  <2>1. OfferMeans(m, s)
    BY DerivedMeans, SectionMeans DEF Offered
  <2> QED BY <2>1, OfferPasses
<1> HIDE DEF I
<1> QED BY <1>1, <1>2, <1>3, PTL DEF Spec

-----------------------------------------------------------------------------
(* The report of a case.                                                   *)

\* Every market's bond is large enough for the winner's share to be paid:
\* slash_bond refuses an amount of zero.
WinnersPaid == \A m \in Markets, s \in Splits : bps(BondAmount[m], s.winner) > 0

\* The report makes no call back into the council, or the host accepts it.
NoCallRefused ==
    ReentryAllowed \/ \A m \in Markets, s \in Splits : bps(BondAmount[m], s.council) = 0

\* A bond slashed in three parts is never short of the next of them.
LEMMA AwardPasses ==
    ASSUME WinnersPaid, TInv, VaultInv, NEW r \in RequestIds, request[r].market \in Markets,
           requestCase[r] # 0, NEW wk \in BondKeys, NEW lk \in BondKeys, wk # lk,
           bond[wk].exists, bond[wk].amount = RequestBond(r),
           bond[lk].exists, bond[lk].amount = RequestBond(r)
    PROVE  AwardOk(r, wk, lk)
<1> DEFINE b  == RequestBond(r)
           s  == losing_bond_split(b)
           b1 == Paid(bond, wk, b)
           b2 == Paid(b1, lk, s.winner)
           b3 == IF s.council > 0 THEN Paid(b2, lk, s.council) ELSE b2
<1>1. b \in Nat /\ b > 0
  BY RegistryAssumption DEF RegistryAssumption, RequestBond
<1>2. bond \in [BondKeys -> BondRecord] /\ split \in Splits
  BY DEF TInv, TypeOK, BondTypeOK
<1>3. /\ s.winner \in Nat /\ s.council \in Nat /\ s.treasury \in Nat
      /\ s.treasury = b - s.winner - s.council
  BY <1>1, <1>2, SplitUsesBond
<1>4. s.winner > 0
  BY <1>2 DEF WinnersPaid, losing_bond_split, RequestBond
<1>5. CanTransfer(tok, "vault", b + b)
  BY VaultHoldsTwo DEF CanTransfer
<1> HIDE DEF b, s, b1, b2, b3
<1>6. bond[wk].amount = b /\ bond[lk].amount = b
  BY DEF b
<1>7. CanPay(bond, wk, b)
  BY <1>1, <1>6 DEF CanPay
<1>8. b1 \in [BondKeys -> BondRecord] /\ b1[lk].exists /\ b1[lk].amount = b
  BY <1>1, <1>2, <1>6, <1>7, PaidBond DEF b1
<1>9. CanPay(b1, lk, s.winner)
  BY <1>1, <1>3, <1>4, <1>8 DEF CanPay
<1>10. /\ b2 \in [BondKeys -> BondRecord] /\ b2[lk].exists
       /\ b2[lk].amount = b - s.winner
  BY <1>3, <1>8, <1>9, PaidBond DEF b2
<1>11. s.council > 0 => CanPay(b2, lk, s.council)
  BY <1>1, <1>3, <1>10 DEF CanPay
<1>12. b3[lk].exists /\ b3[lk].amount = b - s.winner - s.council
  <2>1. CASE s.council > 0
    BY <1>3, <1>10, <1>11, <2>1, PaidBond DEF b3
  <2>2. CASE ~(s.council > 0)
    BY <1>1, <1>3, <1>10, <2>2 DEF b3
  <2> QED BY <2>1, <2>2
<1>13. s.treasury > 0 => CanPay(b3, lk, s.treasury)
  BY <1>1, <1>3, <1>12 DEF CanPay
<1> QED BY <1>5, <1>7, <1>9, <1>11, <1>13 DEF AwardOk, b, s, b1, b2, b3

\* Both bonds can be given back.
LEMMA ReturnPasses ==
    ASSUME TInv, VaultInv, NEW r \in RequestIds, request[r].market \in Markets,
           ProposalKey(r) \in BondKeys, DisputeKey(r) \in BondKeys, ProposalKey(r) # DisputeKey(r),
           bond[ProposalKey(r)].exists, bond[ProposalKey(r)].amount = RequestBond(r),
           bond[DisputeKey(r)].exists, bond[DisputeKey(r)].amount = RequestBond(r)
    PROVE  ReturnOk(r)
<1> DEFINE pk == ProposalKey(r)
           dk == DisputeKey(r)
           b  == RequestBond(r)
<1>1. b \in Nat /\ b > 0
  BY RegistryAssumption DEF RegistryAssumption, RequestBond
<1>2. bond \in [BondKeys -> BondRecord]
  BY DEF TInv, TypeOK, BondTypeOK
<1>3. CanTransfer(tok, "vault", b + b)
  BY VaultHoldsTwo DEF CanTransfer
<1> HIDE DEF pk, dk, b
<1>4. CanPay(bond, pk, b)
  BY <1>1 DEF CanPay, pk, b
<1>5. CanPay(Paid(bond, pk, b), dk, b)
  <2>1. Paid(bond, pk, b)[dk] = bond[dk]
    BY <1>1, <1>2, <1>4, PaidBond DEF pk, dk
  <2> QED BY <1>1, <2>1 DEF CanPay, dk, b
<1> QED BY <1>3, <1>4, <1>5 DEF ReturnOk, pk, dk, b

\* A case that is due is reported.
LEMMA ReportPasses ==
    ASSUME WinnersPaid, NoCallRefused, TInv, PhaseInv, BondInv, VaultInv, DecisionInv, ShapeInv,
           OpenCaseInv, NEW c \in CaseIds, CanFinalize(c)
    PROVE  /\ CanReport(kase[c].request, Tally(kase[c].votes))
           /\ HostAccepts(kase[c].request, Tally(kase[c].votes))
<1>1. PICK r \in RequestIds : r = kase[c].request /\ requestCase[r] = c
  BY DEF CanFinalize, TInv, CaseShape
<1>2. request[r].status = "Escalated"
  BY <1>1 DEF CanFinalize, OpenCaseInv
<1>3. request[r].market \in Markets /\ request[r].has_dispute /\ ~request[r].has_final_outcome
  BY <1>2 DEF TInv, RequestShape, DecisionInv, DecidedAt
<1>4. PICK m \in Markets : m = request[r].market
  BY <1>3
<1>5. market[m].status = "CouncilVoting" /\ ~market[m].has_final_outcome
  <2>1. marketRequest[m] = r /\ r # 0
    BY <1>2, <1>4 DEF PhaseInv, RequestIds
  <2>2. market[m].status = RegistryPhase[request[r].status]
    BY <2>1 DEF PhaseInv, PhaseAgreement, AgreesAt
  <2> QED BY <1>2, <2>2, PhaseValues DEF ShapeInv
<1>6. /\ ProposalKey(r) \in BondKeys /\ DisputeKey(r) \in BondKeys
      /\ ProposalKey(r) # DisputeKey(r)
  BY <1>2, <1>3, BondKeyFacts
<1>7. /\ bond[ProposalKey(r)].exists /\ bond[ProposalKey(r)].amount = RequestBond(r)
      /\ bond[DisputeKey(r)].exists /\ bond[DisputeKey(r)].amount = RequestBond(r)
  BY <1>2 DEF BondInv, BondsFollow, HoldsFullBond
<1>8. requestCase[r] # 0
  BY <1>1 DEF CaseIds
<1>9. /\ AwardOk(r, ProposalKey(r), DisputeKey(r))
      /\ AwardOk(r, DisputeKey(r), ProposalKey(r))
      /\ ReturnOk(r)
  BY <1>3, <1>6, <1>7, <1>8, AwardPasses, ReturnPasses
<1>10. CanReport(r, Tally(kase[c].votes))
  BY <1>2, <1>3, <1>4, <1>5, <1>9 DEF CanReport
<1>11. HostAccepts(r, Tally(kase[c].votes))
  <2>1. CASE ReentryAllowed
    BY <2>1 DEF HostAccepts
  <2>2. CASE ~ReentryAllowed
    <3>1. split \in Splits
      BY DEF TInv, TypeOK, BondTypeOK
    <3>2. losing_bond_split(RequestBond(r)).council = 0
      BY <1>3, <2>2, <3>1 DEF NoCallRefused, losing_bond_split, RequestBond
    <3> QED BY <3>2 DEF HostAccepts
  <2> QED BY <2>1, <2>2
<1> QED BY <1>1, <1>10, <1>11

(***************************************************************************)
(* finalize_and_report_case meets no error on the way, for any number of   *)
(* markets, cases and members and any votes, unless one of two things is   *)
(* so: the host refuses the calls back into the council, or a bond is so   *)
(* small that the winner's share rounds down to nothing (cod_oracle:630,   *)
(* fee_manager:266).  Every other check (bonds on record, the parts of a   *)
(* slash, the vault's balance, the registry's status) always passes.       *)
(***************************************************************************)
THEOREM ReportsGoThrough ==
    ASSUME OperationalGovernance, WinnersPaid, NoCallRefused
    PROVE  Spec => []ReportNeverBlocked
<1> DEFINE I == /\ TInv /\ PhaseInv /\ BondInv /\ VaultInv /\ VoteInv /\ DecisionInv
                /\ ShapeInv /\ OpenCaseInv
<1>1. Init => I
  BY InitTInv, InitPhase, InitBonds, InitVault, InitVote, InitDecision, InitPath
<1>2. I /\ [Next]_vars => I'
  <2> SUFFICES ASSUME I, [Next]_vars PROVE I'
    OBVIOUS
  <2>1. TInv'
    BY StepTInv
  <2>2. PhaseInv' /\ ShapeInv'
    BY <2>1, StepPhase, StepShape
  <2>3. BondInv' /\ VoteInv'
    BY <2>1, StepBonds, StepVote
  <2>4. VaultInv' /\ DecisionInv'
    BY <2>1, StepVault, StepDecision
  <2>5. OpenCaseInv'
    BY <2>1, StepOpenCase
  <2> QED BY <2>1, <2>2, <2>3, <2>4, <2>5
<1>3. I => ReportNeverBlocked
  BY ReportPasses DEF ReportNeverBlocked
<1> HIDE DEF I
<1> QED BY <1>1, <1>2, <1>3, PTL DEF Spec
=============================================================================
