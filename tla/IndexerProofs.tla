--------------------------- MODULE IndexerProofs ---------------------------
(***************************************************************************)
(* Proofs about Indexer, for any number of processes and contracts, any    *)
(* traffic, page size, window and margin, and any number of faults.        *)
(***************************************************************************)
EXTENDS Indexer, TLAPS

TickRecord ==
    [pc : Phases, dep : Nat, from : Nat, end : Nat, page : Nat, cursor : Nat,
     last : Nat, next : Nat, complete : BOOLEAN, reset : BOOLEAN]

Monotone ==
    \A c \in Contracts : \A l, m \in 0..tip : l <= m => upto[c][l] <= upto[c][m]

\* The first n events of c exist, and the wanted ones among them are dispatched
\* or were left out by a node that fell back.
Covered(c, n) ==
    /\ n \in 0..upto[c][tip]
    /\ \A k \in 1..n : Wanted(c, k) => Handled(c, k)

\* What the locals of a tick mean at each of its awaits.
TickOK(t) ==
    LET c == Deployments[t.dep] IN
    /\ t.pc \notin {"idle", "release"} => t.dep \in 1..Len(Deployments)
    /\ t.pc = "latest" =>
         t.from = StartLedger \/ (t.from - 1 \in 0..tip /\ Covered(c, upto[c][t.from - 1]))
    /\ t.pc \in {"page", "record", "dispatch"} =>
         /\ t.end \in 0..tip
         /\ t.last <= upto[c][t.end]
         /\ t.next \in 1..t.last + 1
         /\ Covered(c, t.next - 1)
    /\ t.pc = "page" => t.last <= t.cursor
    /\ t.pc \in {"record", "dispatch"} /\ t.complete =>
         \A k \in t.last + 1..upto[c][t.end] : k \in withheld[c]
    /\ t.pc = "dispatch" => t.next <= t.last
    /\ t.pc = "commit" => t.end \in 0..tip /\ Covered(c, upto[c][t.end])

CheckpointOK == \A c \in Contracts : Covered(c, upto[c][checkpoint[c]])
DispatchedOK == \A c \in Contracts : \A k \in dispatched[c] : Covered(c, k)
TicksOK == \A w \in Workers : TickOK(worker[w])

IInv == TypeOK /\ Monotone /\ CheckpointOK /\ DispatchedOK /\ TicksOK

\* A step under which what is covered stays so.
Evolves ==
    /\ tip <= tip'
    /\ \A c \in Contracts : \A l \in 0..tip : upto'[c][l] = upto[c][l]
    /\ \A c \in Contracts : dispatched[c] \subseteq dispatched'[c] /\ withheld[c] \subseteq withheld'[c]

-----------------------------------------------------------------------------
(* Lemmas. *)

\* The contract of a deployment is an indexed one.
LEMMA DeployedContract ==
    ASSUME NEW d \in 1..Len(Deployments)
    PROVE  Deployments[d] \in Contracts
BY IndexerAssumption DEF IndexerAssumption

\* The locals of a tick have their types.
LEMMA TickTyped ==
    ASSUME TypeOK, NEW w \in Workers
    PROVE  worker[w] \in TickRecord
BY DEF TypeOK, TickRecord

\* Events that are covered stay covered: the chain only grows, and an event
\* that becomes wanted with it is a later one.
LEMMA CoveredStable ==
    ASSUME TypeOK, TypeOK', Monotone', Evolves,
           NEW c \in Contracts, NEW n, Covered(c, n)
    PROVE  Covered(c, n)'
<1>a. tip \in Nat /\ tip' \in Nat /\ tip <= tip' /\ StartLedger \in Nat
  BY IndexerAssumption DEF IndexerAssumption, TypeOK, Evolves
<1>b. upto[c] \in [0..tip -> Nat]
  BY DEF TypeOK
<1>c. upto'[c] \in [0..tip' -> Nat]
  BY DEF TypeOK
<1>d. upto'[c][tip] = upto[c][tip]
  BY <1>a DEF Evolves
<1>1. /\ tip \in Nat /\ tip' \in Nat /\ tip <= tip' /\ StartLedger \in Nat
      /\ \A l \in 0..tip : upto[c][l] \in Nat
      /\ \A l \in 0..tip' : upto'[c][l] \in Nat
      /\ upto'[c][tip] = upto[c][tip]
  BY <1>a, <1>b, <1>c, <1>d
<1>2. upto'[c][tip] <= upto'[c][tip']
  BY <1>1 DEF Monotone
<1>3. n \in 0..upto'[c][tip']
  BY <1>1, <1>2 DEF Covered
<1>4. ASSUME NEW k \in 1..n, Wanted(c, k)' PROVE Handled(c, k)'
  <2>1. k <= upto[c][tip]
    BY <1>1 DEF Covered
  <2>2. StartLedger \in 1..tip' /\ k > upto'[c][StartLedger - 1]
    BY <1>4 DEF Wanted
  <2>3. StartLedger <= tip
    <3>1. SUFFICES ASSUME StartLedger > tip PROVE FALSE
      BY <1>1
    <3>2. upto'[c][tip] <= upto'[c][StartLedger - 1]
      BY <1>1, <2>2, <3>1 DEF Monotone
    <3> QED BY <1>1, <2>1, <2>2, <3>2
  <2>4. upto'[c][StartLedger - 1] = upto[c][StartLedger - 1]
    BY <1>1, <2>2, <2>3 DEF Evolves
  <2>5. Wanted(c, k)
    BY <2>2, <2>3, <2>4, <1>1 DEF Wanted
  <2>6. Handled(c, k)
    BY <2>5 DEF Covered
  <2> QED BY <2>6 DEF Handled, Evolves
<1> QED BY <1>3, <1>4 DEF Covered

\* So do the locals of a tick.
LEMMA TickStable ==
    ASSUME TypeOK, TypeOK', Monotone', Evolves,
           NEW t \in TickRecord, TickOK(t)
    PROVE  TickOK(t)'
<1>1. /\ tip \in Nat /\ tip' \in Nat /\ tip <= tip' /\ t.from \in Nat
      /\ t.end \in Nat /\ t.last \in Nat /\ t.next \in Nat /\ t.cursor \in Nat
  BY DEF TypeOK, TickRecord, Evolves
<1>2. CASE t.pc \in {"idle", "release"}
  BY <1>2 DEF TickOK
<1>3. CASE t.pc \notin {"idle", "release"}
  <2>1. t.dep \in 1..Len(Deployments)
    BY <1>3 DEF TickOK
  <2>2. PICK c \in Contracts : c = Deployments[t.dep]
    BY <2>1, DeployedContract
  <2>3. t.end \in 0..tip => upto'[c][t.end] = upto[c][t.end]
    BY DEF Evolves
  <2>4. Covered(c, t.next - 1) => Covered(c, t.next - 1)'
    BY CoveredStable
  <2>5. PICK n : n = upto[c][t.end]
    OBVIOUS
  <2>6. Covered(c, n) => Covered(c, n)'
    BY CoveredStable
  <2>7. t.pc = "commit" => (t.end \in 0..tip' /\ Covered(c, upto[c][t.end])')
    <3>1. SUFFICES ASSUME t.pc = "commit" PROVE t.end \in 0..tip' /\ Covered(c, upto[c][t.end])'
      OBVIOUS
    <3>2. t.end \in 0..tip /\ Covered(c, n)
      BY <3>1, <2>2, <2>5 DEF TickOK
    <3>3. upto'[c][t.end] = n
      BY <3>2, <2>3, <2>5
    <3>4. Covered(c, n)'
      BY <3>2, <2>6
    <3>5. t.end \in 0..tip'
      BY <3>2, <1>1
    <3>6. Covered(c, upto[c][t.end])'
      BY <3>3, <3>4 DEF Covered
    <3> QED BY <3>5, <3>6
  <2>8. t.pc = "latest" =>
          \/ t.from = StartLedger
          \/ (t.from - 1 \in 0..tip /\ Covered(c, upto[c][t.from - 1]))'
    <3>1. SUFFICES ASSUME t.pc = "latest", t.from # StartLedger
                   PROVE  t.from - 1 \in 0..tip' /\ Covered(c, upto[c][t.from - 1])'
      OBVIOUS
    <3>2. t.from - 1 \in 0..tip /\ Covered(c, upto[c][t.from - 1])
      BY <3>1, <2>2 DEF TickOK
    <3>3. PICK m : m = upto[c][t.from - 1]
      OBVIOUS
    <3>4. Covered(c, m)'
      BY <3>2, <3>3, CoveredStable
    <3>5. upto'[c][t.from - 1] = m
      BY <3>2, <3>3 DEF Evolves
    <3> QED BY <3>2, <3>4, <3>5, <1>1 DEF Covered
  <2>9. withheld[c] \subseteq withheld'[c]
    BY DEF Evolves
  <2>10. t.pc \in {"page", "record", "dispatch"} =>
           (/\ t.end \in 0..tip
            /\ t.last <= upto[c][t.end]
            /\ t.next \in 1..t.last + 1
            /\ Covered(c, t.next - 1))'
    BY <1>1, <2>2, <2>3, <2>4 DEF TickOK
  <2>11. t.pc \in {"record", "dispatch"} /\ t.complete =>
           (\A k \in t.last + 1..upto[c][t.end] : k \in withheld[c])'
    BY <1>1, <2>2, <2>3, <2>9 DEF TickOK
  <2> QED BY <1>3, <2>1, <2>2, <2>7, <2>8, <2>10, <2>11 DEF TickOK
<1> QED BY <1>2, <1>3

\* A tick moves to a deployment, or ends.
LEMMA EnterOK ==
    ASSUME NEW d \in Nat, d > 0
    PROVE  EnterDeployment(d) \in TickRecord /\ TickOK(EnterDeployment(d))
<1>1. Len(Deployments) \in Nat
  BY IndexerAssumption DEF IndexerAssumption
<1>2. PICK r : r = EnterDeployment(d)
  OBVIOUS
<1>3. r \in TickRecord
  BY <1>1, <1>2 DEF EnterDeployment, IdleTick, TickRecord, Phases
<1>4. r.pc = "release" \/ (r.pc = "poll" /\ r.dep \in 1..Len(Deployments))
  BY <1>1, <1>2 DEF EnterDeployment, IdleTick
<1>5. TickOK(r)
  BY <1>4 DEF TickOK
<1> QED BY <1>2, <1>3, <1>5

\* A step of one tick that leaves the chain, the checkpoints and what is
\* dispatched alone, and may leave events out of a page.
LEMMA TickWithholds ==
    ASSUME IInv, NEW w \in Workers, NEW x \in TickRecord, TickOK(x)',
           worker' = [worker EXCEPT ![w] = x],
           UNCHANGED <<tip, rpcTip, upto, checkpoint, dispatched>>,
           withheld' \in [Contracts -> SUBSET Nat],
           \A c \in Contracts : withheld[c] \subseteq withheld'[c],
           raw' \in [Contracts -> SUBSET Nat],
           lease' \in Workers \cup {NoWorker},
           faults' \in 0..MaxFaults
    PROVE  IInv'
<1>1. TypeOK'
  BY DEF IInv, TypeOK, TickRecord
<1>2. Monotone'
  BY DEF IInv, Monotone
<1>3. tip \in Nat
  BY DEF IInv, TypeOK
<1>4. Evolves
  BY <1>3 DEF Evolves
<1>5. CheckpointOK'
  <2>1. SUFFICES ASSUME NEW c \in Contracts PROVE Covered(c, upto[c][checkpoint[c]])'
    BY DEF CheckpointOK
  <2>2. PICK n : n = upto[c][checkpoint[c]]
    OBVIOUS
  <2>3. Covered(c, n)'
    BY <2>2, <1>1, <1>2, <1>4, CoveredStable DEF IInv, CheckpointOK
  <2> QED BY <2>2, <2>3 DEF Covered
<1>6. DispatchedOK'
  <2>1. SUFFICES ASSUME NEW c \in Contracts, NEW k \in dispatched'[c] PROVE Covered(c, k)'
    BY DEF DispatchedOK
  <2>2. Covered(c, k)
    BY <2>1 DEF IInv, DispatchedOK
  <2> QED BY <2>2, <1>1, <1>2, <1>4, CoveredStable DEF IInv
<1>7. ASSUME NEW v \in Workers PROVE TickOK(worker[v])'
  <2>1. worker \in [Workers -> TickRecord]
    BY DEF IInv, TypeOK, TickRecord
  <2>2. PICK y : y = worker'[v]
    OBVIOUS
  <2>3. CASE v = w
    <3>1. y = x
      BY <2>1, <2>2, <2>3
    <3> QED BY <3>1, <2>2 DEF TickOK
  <2>4. CASE v # w
    <3>1. y = worker[v]
      BY <2>1, <2>2, <2>4
    <3>2. y \in TickRecord /\ TickOK(y)
      BY <2>1, <3>1 DEF IInv, TicksOK
    <3>3. TickOK(y)'
      BY <3>2, <1>1, <1>2, <1>4, TickStable DEF IInv
    <3> QED BY <3>3, <2>2 DEF TickOK
  <2> QED BY <2>3, <2>4
<1> QED BY <1>1, <1>2, <1>5, <1>6, <1>7 DEF IInv, TicksOK

\* One that leaves nothing out.
LEMMA TickStep ==
    ASSUME IInv, NEW w \in Workers, NEW x \in TickRecord, TickOK(x),
           worker' = [worker EXCEPT ![w] = x],
           UNCHANGED <<chainVars, checkpoint, dispatched>>,
           raw' \in [Contracts -> SUBSET Nat],
           lease' \in Workers \cup {NoWorker},
           faults' \in 0..MaxFaults
    PROVE  IInv'
<1>1. UNCHANGED <<tip, rpcTip, upto, withheld, checkpoint, dispatched>>
  BY DEF chainVars
<1>2. TickOK(x)'
  BY <1>1 DEF TickOK, Covered, Wanted, Handled
<1>3. withheld' \in [Contracts -> SUBSET Nat] /\ \A c \in Contracts : withheld[c] \subseteq withheld'[c]
  BY <1>1 DEF IInv, TypeOK
<1> QED BY <1>1, <1>2, <1>3, TickWithholds

\* The invariant gives every fact about the tick of w and its contract.
LEMMA TickFacts ==
    ASSUME IInv, NEW w \in Workers, worker[w].pc \notin {"idle", "release"}
    PROVE  /\ worker[w] \in TickRecord /\ TickOK(worker[w])
           /\ worker[w].dep \in 1..Len(Deployments) /\ Contract(w) \in Contracts
<1>1. worker[w] \in TickRecord /\ TickOK(worker[w])
  BY TickTyped DEF IInv, TicksOK
<1>2. worker[w].dep \in 1..Len(Deployments)
  BY <1>1 DEF TickOK
<1> QED BY <1>1, <1>2, DeployedContract DEF Contract

\* Numbers of the chain the arguments below use.
LEMMA ChainFacts ==
    ASSUME IInv, NEW c \in Contracts
    PROVE  /\ tip \in Nat /\ rpcTip \in Nat /\ rpcTip <= tip /\ 1 <= rpcTip
           /\ checkpoint[c] \in 0..tip /\ StartLedger \in Nat
           /\ \A l \in 0..tip : upto[c][l] \in Nat
           /\ \A l, m \in 0..tip : l <= m => upto[c][l] <= upto[c][m]
<1>1. tip \in Nat /\ rpcTip \in Nat /\ rpcTip <= tip /\ 1 <= rpcTip /\ StartLedger \in Nat
  BY IndexerAssumption DEF IndexerAssumption, IInv, TypeOK
<1>2. checkpoint[c] \in 0..tip
  BY DEF IInv, TypeOK
<1>3. upto[c] \in [0..tip -> Nat]
  BY DEF IInv, TypeOK
<1>4. \A l, m \in 0..tip : l <= m => upto[c][l] <= upto[c][m]
  BY DEF IInv, Monotone
<1> QED BY <1>1, <1>2, <1>3, <1>4

\* A shorter prefix of covered events is covered.
LEMMA CoveredDown ==
    ASSUME IInv, NEW c \in Contracts, NEW n, Covered(c, n), NEW m \in Nat, m <= n
    PROVE  Covered(c, m)
<1>1. upto[c][tip] \in Nat
  BY ChainFacts
<1>2. n \in Nat /\ n <= upto[c][tip]
  BY <1>1 DEF Covered
<1> QED BY <1>1, <1>2 DEF Covered

\* Nothing is wanted up to a ledger before StartLedger.
LEMMA BeforeStart ==
    ASSUME IInv, NEW c \in Contracts, NEW l \in 0..tip, l < StartLedger
    PROVE  Covered(c, upto[c][l])
<1>1. /\ tip \in Nat /\ StartLedger \in Nat
      /\ \A i \in 0..tip : upto[c][i] \in Nat
      /\ \A i, j \in 0..tip : i <= j => upto[c][i] <= upto[c][j]
  BY ChainFacts
<1>2. upto[c][l] \in Nat /\ upto[c][tip] \in Nat /\ upto[c][l] <= upto[c][tip]
  BY <1>1
<1>3. ASSUME NEW k \in 1..upto[c][l] PROVE ~Wanted(c, k)
  <2>1. SUFFICES ASSUME StartLedger \in 1..tip, k > upto[c][StartLedger - 1] PROVE FALSE
    BY DEF Wanted
  <2>2. StartLedger - 1 \in 0..tip /\ l <= StartLedger - 1
    BY <1>1, <2>1
  <2>3. upto[c][l] <= upto[c][StartLedger - 1] /\ upto[c][StartLedger - 1] \in Nat
    BY <1>1, <2>2
  <2> QED BY <1>2, <2>1, <2>3
<1> QED BY <1>2, <1>3 DEF Covered

\* The faults stay within their bound.
LEMMA FaultTyped ==
    ASSUME IInv, Fault
    PROVE  faults' \in 0..MaxFaults
<1>1. faults \in 0..MaxFaults
  BY DEF IInv, TypeOK
<1> QED BY <1>1, IndexerAssumption DEF IndexerAssumption, Fault

-----------------------------------------------------------------------------
(* One lemma for each step of a tick. *)

LEMMA StartTickStep ==
    ASSUME IInv, NEW w \in Workers, StartTick(w)
    PROVE  IInv'
<1>1. PICK x : x = EnterDeployment(1)
  OBVIOUS
<1>2. x \in TickRecord /\ TickOK(x)
  BY <1>1, EnterOK
<1>3. worker' = [worker EXCEPT ![w] = x] /\ UNCHANGED <<chainVars, checkpoint, dispatched>>
  BY <1>1 DEF StartTick, dbVars
<1>4. /\ raw' \in [Contracts -> SUBSET Nat] /\ lease' \in Workers \cup {NoWorker}
      /\ faults' \in 0..MaxFaults
  BY DEF StartTick, dbVars, IInv, TypeOK
<1> QED BY <1>2, <1>3, <1>4, TickStep

\* The poll starts right after the checkpoint, or at StartLedger.
LEMMA ReadCheckpointStep ==
    ASSUME IInv, NEW w \in Workers, ReadCheckpoint(w)
    PROVE  IInv'
<1>1. worker[w].pc = "poll"
  BY DEF ReadCheckpoint
<1>2. /\ worker[w] \in TickRecord /\ worker[w].dep \in 1..Len(Deployments)
      /\ Contract(w) \in Contracts
  BY <1>1, TickFacts
<1>3. PICK c \in Contracts : c = Contract(w)
  BY <1>2
<1>4. PICK t : t = worker[w]
  OBVIOUS
<1>5. PICK f : f = fromLedger(c)
  OBVIOUS
<1>6. tip \in Nat /\ checkpoint[c] \in 0..tip /\ StartLedger \in Nat
  BY ChainFacts
<1>7. f \in Nat /\ (f = StartLedger \/ f - 1 = checkpoint[c])
  BY <1>5, <1>6 DEF fromLedger
<1>8. PICK x : x = [t EXCEPT !.pc = "latest", !.from = f]
  OBVIOUS
<1>9. worker' = [worker EXCEPT ![w] = x]
  BY <1>3, <1>4, <1>5, <1>8 DEF ReadCheckpoint
<1>10. x \in TickRecord /\ x.pc = "latest" /\ x.from = f /\ x.dep = t.dep
  BY <1>2, <1>4, <1>7, <1>8 DEF TickRecord, Phases
<1>11. Deployments[x.dep] = c /\ x.dep \in 1..Len(Deployments)
  BY <1>2, <1>3, <1>4, <1>10 DEF Contract
<1>12. f = StartLedger \/ (f - 1 \in 0..tip /\ Covered(c, upto[c][f - 1]))
  BY <1>6, <1>7 DEF IInv, CheckpointOK
<1>13. TickOK(x)
  BY <1>10, <1>11, <1>12 DEF TickOK
<1>14. /\ UNCHANGED <<chainVars, checkpoint, dispatched>>
       /\ raw' \in [Contracts -> SUBSET Nat] /\ lease' \in Workers \cup {NoWorker}
       /\ faults' \in 0..MaxFaults
  BY DEF ReadCheckpoint, dbVars, IInv, TypeOK
<1> QED BY <1>9, <1>10, <1>13, <1>14, TickStep

\* The rewind goes to a ledger before the one the poll would start from.
LEMMA PollRewindsStep ==
    ASSUME IInv, NEW w \in Workers, PollRewinds(w)
    PROVE  IInv'
<1>1. worker[w].pc = "latest"
  BY DEF PollRewinds
<1>2. /\ worker[w] \in TickRecord /\ TickOK(worker[w])
      /\ worker[w].dep \in 1..Len(Deployments) /\ Contract(w) \in Contracts
  BY <1>1, TickFacts
<1>3. PICK c \in Contracts : c = Contract(w)
  BY <1>2
<1>4. /\ tip \in Nat /\ rpcTip \in Nat /\ rpcTip <= tip /\ 1 <= rpcTip /\ StartLedger \in Nat
      /\ \A l \in 0..tip : upto[c][l] \in Nat
      /\ \A l, m \in 0..tip : l <= m => upto[c][l] <= upto[c][m]
  BY ChainFacts
<1>5. PICK t : t = worker[w]
  OBVIOUS
<1>6. t \in TickRecord /\ t.pc = "latest" /\ c = Deployments[t.dep] /\ t.dep \in 1..Len(Deployments)
  BY <1>1, <1>2, <1>3, <1>5 DEF Contract
<1>a. t.from \in Nat /\ t.from > rpcTip
  BY <1>5, <1>6 DEF PollRewinds, TickRecord
<1>b. t.from = StartLedger \/ (t.from - 1 \in 0..tip /\ Covered(c, upto[c][t.from - 1]))
  BY <1>2, <1>5, <1>6 DEF TickOK
<1>7. PICK e : e = LargerOf(0, rpcTip - Margin)
  OBVIOUS
<1>8. e \in Nat /\ e <= rpcTip
  BY <1>4, <1>7, IndexerAssumption DEF IndexerAssumption, LargerOf
<1>9. e \in 0..tip
  BY <1>4, <1>8
<1>10. Covered(c, upto[c][e])
  <2>1. CASE t.from = StartLedger
    <3>1. e < StartLedger
      BY <2>1, <1>4, <1>8, <1>a
    <3> QED BY <3>1, <1>9, BeforeStart
  <2>2. CASE t.from - 1 \in 0..tip /\ Covered(c, upto[c][t.from - 1])
    <3>1. e <= t.from - 1
      BY <1>4, <1>8, <1>a
    <3>2. upto[c][e] \in Nat /\ upto[c][e] <= upto[c][t.from - 1]
      BY <2>2, <3>1, <1>4, <1>9
    <3> QED BY <2>2, <3>2, CoveredDown
  <2> QED BY <2>1, <2>2, <1>b
<1>12. PICK x : x = [t EXCEPT !.pc = "commit", !.end = e, !.complete = TRUE, !.reset = TRUE]
  OBVIOUS
<1>13. worker' = [worker EXCEPT ![w] = x]
  BY <1>5, <1>7, <1>12 DEF PollRewinds, IInv, TypeOK
<1>14. x \in TickRecord /\ x.pc = "commit" /\ x.end = e /\ x.dep = t.dep
  BY <1>6, <1>8, <1>12 DEF TickRecord, Phases
<1>16. TickOK(x)
  BY <1>6, <1>9, <1>10, <1>14 DEF TickOK
<1>17. /\ UNCHANGED <<chainVars, checkpoint, dispatched>>
       /\ raw' \in [Contracts -> SUBSET Nat] /\ lease' \in Workers \cup {NoWorker}
       /\ faults' \in 0..MaxFaults
  BY DEF PollRewinds, dbVars, IInv, TypeOK
<1> QED BY <1>13, <1>14, <1>16, <1>17, TickStep

LEMMA PollWindowStep ==
    ASSUME IInv, NEW w \in Workers, PollWindow(w)
    PROVE  IInv'
<1>1. worker[w].pc = "latest"
  BY DEF PollWindow
<1>2. /\ worker[w] \in TickRecord /\ TickOK(worker[w])
      /\ worker[w].dep \in 1..Len(Deployments) /\ Contract(w) \in Contracts
  BY <1>1, TickFacts
<1>3. PICK c \in Contracts : c = Contract(w)
  BY <1>2
<1>4. PICK f : f = worker[w].from
  OBVIOUS
<1>5. f \in Nat /\ f # 0 /\ f <= rpcTip
  BY <1>2, <1>4 DEF PollWindow, TickRecord
<1>6. f \in Nat /\ f - 1 \in 0..tip /\ Covered(c, upto[c][f - 1])
  <2>1. tip \in Nat /\ rpcTip \in Nat /\ rpcTip <= tip /\ StartLedger \in Nat
    BY ChainFacts
  <2>2. f - 1 \in 0..tip
    BY <1>5, <2>1
  <2>3. f = StartLedger \/ Covered(c, upto[c][f - 1])
    BY <1>1, <1>2, <1>3, <1>4 DEF TickOK, Contract
  <2>4. CASE f = StartLedger
    <3>1. f - 1 < StartLedger
      BY <1>5, <2>4
    <3> QED BY <1>5, <2>2, <3>1, BeforeStart
  <2> QED BY <1>5, <2>2, <2>3, <2>4
<1>7. /\ tip \in Nat /\ rpcTip \in Nat /\ rpcTip <= tip
      /\ \A l \in 0..tip : upto[c][l] \in Nat
      /\ \A l, m \in 0..tip : l <= m => upto[c][l] <= upto[c][m]
  BY ChainFacts
<1>8. PICK e : e = endLedger(f)
  OBVIOUS
<1>9. e \in Nat /\ e <= rpcTip /\ e \in 0..tip /\ f - 1 <= e
  BY <1>5, <1>6, <1>7, <1>8, IndexerAssumption DEF IndexerAssumption, endLedger, SmallerOf
<1>10. PICK n : n = upto[c][f - 1]
  OBVIOUS
<1>11. n \in Nat /\ n <= upto[c][e] /\ Covered(c, n)
  BY <1>6, <1>7, <1>9, <1>10
<1>12. PICK t : t = worker[w]
  OBVIOUS
<1>13. PICK x : x = [t EXCEPT !.pc = "page", !.end = e, !.page = 0, !.cursor = n, !.last = n,
                              !.next = n + 1, !.complete = TRUE, !.reset = FALSE]
  OBVIOUS
<1>14. worker' = [worker EXCEPT ![w] = x]
  BY <1>3, <1>4, <1>8, <1>10, <1>12, <1>13 DEF PollWindow, IInv, TypeOK
<1>a. t \in TickRecord /\ e \in Nat /\ n \in Nat /\ n + 1 \in Nat
  BY <1>2, <1>9, <1>11, <1>12
<1>b. x.pc = "page" /\ x.end = e /\ x.dep = t.dep /\ x.cursor = n /\ x.last = n /\ x.next = n + 1
  BY <1>a, <1>13 DEF TickRecord
<1>c. x \in TickRecord
  BY <1>a, <1>13 DEF TickRecord, Phases
<1>15. /\ x \in TickRecord /\ x.pc = "page" /\ x.end = e /\ x.dep = t.dep
       /\ x.cursor = n /\ x.last = n /\ x.next = n + 1
  BY <1>b, <1>c
<1>16. Deployments[x.dep] = c
  BY <1>3, <1>12, <1>15 DEF Contract
<1>17. Covered(c, x.next - 1)
  <2>1. x.next - 1 = n
    BY <1>11, <1>15
  <2> QED BY <1>11, <2>1
<1>18. TickOK(x)
  BY <1>2, <1>9, <1>11, <1>12, <1>15, <1>16, <1>17 DEF TickOK
<1>19. /\ UNCHANGED <<chainVars, checkpoint, dispatched>>
       /\ raw' \in [Contracts -> SUBSET Nat] /\ lease' \in Workers \cup {NoWorker}
       /\ faults' \in 0..MaxFaults
  BY DEF PollWindow, dbVars, IInv, TypeOK
<1> QED BY <1>14, <1>15, <1>18, <1>19, TickStep

\* A page that ends a complete batch is short, so it holds all the events that
\* the node has of the window, and the others are the ones it left out.
LEMMA GetEventsStep ==
    ASSUME IInv, NEW w \in Workers, NEW m \in BOOLEAN, GetEvents(w, m), faults' \in 0..MaxFaults
    PROVE  IInv'
<1>1. worker[w].pc = "page"
  BY DEF GetEvents
<1>2. /\ worker[w] \in TickRecord /\ TickOK(worker[w])
      /\ worker[w].dep \in 1..Len(Deployments) /\ Contract(w) \in Contracts
  BY <1>1, TickFacts
<1>3. PICK c \in Contracts : c = Contract(w)
  BY <1>2
<1>4. PICK t : t = worker[w]
  OBVIOUS
<1>5. t \in TickRecord /\ t.pc = "page" /\ c = Deployments[t.dep] /\ t.dep \in 1..Len(Deployments)
  BY <1>1, <1>2, <1>3, <1>4 DEF Contract
<1>6. /\ t.end \in 0..tip /\ t.last <= t.cursor
      /\ t.last <= upto[c][t.end] /\ t.next \in 1..t.last + 1 /\ Covered(c, t.next - 1)
  BY <1>2, <1>4, <1>5 DEF TickOK
<1>7. /\ t.page \in Nat /\ t.cursor \in Nat /\ t.last \in Nat /\ t.next \in Nat
      /\ Limit \in Nat \ {0} /\ Pages \in Nat
  BY <1>5, IndexerAssumption DEF IndexerAssumption, TickRecord
<1>8. /\ tip \in Nat /\ rpcTip \in Nat /\ rpcTip <= tip
      /\ \A l \in 0..tip : upto[c][l] \in Nat
      /\ \A l, k \in 0..tip : l <= k => upto[c][l] <= upto[c][k]
  BY ChainFacts
<1>9. PICK e : e = upto[c][t.end]
  OBVIOUS
<1>10. PICK a : a = IF t.page = 0 THEN SmallerOf(t.end, rpcTip) ELSE rpcTip
  OBVIOUS
<1>a. a \in 0..tip
  BY <1>6, <1>8, <1>10 DEF SmallerOf
<1>b. PICK b : b = LargerOf(t.cursor, upto[c][a])
  OBVIOUS
<1>11. e \in Nat /\ b \in Nat /\ t.cursor <= b /\ t.last <= e
  BY <1>6, <1>7, <1>8, <1>9, <1>a, <1>b DEF LargerOf
<1>12. PICK h : h = SmallerOf(t.cursor + Limit, b)
  OBVIOUS
<1>13. h \in Nat /\ t.last <= h
  BY <1>6, <1>7, <1>11, <1>12 DEF SmallerOf
<1>14. PageEnd(t, c) = h
  BY <1>10, <1>b, <1>12 DEF PageEnd
<1>15. PICK z : z = SmallerOf(h, e)
  OBVIOUS
<1>16. z \in Nat /\ z <= e /\ z <= h /\ t.last <= z /\ (z = e \/ z = h)
  BY <1>11, <1>13, <1>15 DEF SmallerOf
<1>17. PICK p : p = IF h - t.cursor < Limit \/ m \/ h > e \/ t.page = Pages - 1
                    THEN "record" ELSE "page"
  OBVIOUS
<1>18. PICK q : q = (t.page # Pages - 1 /\ (h - t.cursor < Limit \/ ~(m \/ h > e)))
  OBVIOUS
<1>19. p \in {"record", "page"} /\ q \in BOOLEAN
  BY <1>17, <1>18
<1>20. PICK s : s = IF h - t.cursor < Limit /\ t.page # Pages - 1 THEN h + 1..e ELSE {}
  OBVIOUS
<1>c. p = "record" /\ q => \A k \in z + 1..e : k \in s
  <2>1. SUFFICES ASSUME p = "record", q, NEW k \in z + 1..e PROVE k \in s
    OBVIOUS
  <2>2. h - t.cursor < Limit /\ t.page # Pages - 1
    BY <2>1, <1>17, <1>18
  <2>3. z = h
    BY <2>1, <1>11, <1>13, <1>16
  <2> QED BY <2>2, <2>3, <1>20
<1>d. withheld' = [withheld EXCEPT ![c] = @ \cup s]
  BY <1>3, <1>4, <1>9, <1>14, <1>20 DEF GetEvents
<1>e. withheld \in [Contracts -> SUBSET Nat] /\ s \subseteq Nat
  <2>1. h + 1..e \subseteq Nat
    BY <1>11, <1>13
  <2>2. s = h + 1..e \/ s = {}
    BY <1>20
  <2>3. withheld \in [Contracts -> SUBSET Nat]
    BY DEF IInv, TypeOK
  <2> QED BY <2>1, <2>2, <2>3
<1>f. /\ withheld' \in [Contracts -> SUBSET Nat] /\ s \subseteq withheld'[c]
      /\ \A y \in Contracts : withheld[y] \subseteq withheld'[y]
  BY <1>d, <1>e
<1>g. UNCHANGED <<tip, rpcTip, upto, checkpoint, dispatched>>
  BY DEF GetEvents, dbVars
<1>21. PICK x : x = [t EXCEPT !.pc = p, !.page = t.page + 1, !.cursor = h, !.last = z,
                              !.complete = q]
  OBVIOUS
<1>22. worker' = [worker EXCEPT ![w] = x]
  BY <1>3, <1>4, <1>9, <1>14, <1>15, <1>17, <1>18, <1>21 DEF GetEvents
<1>23. /\ x.pc = p /\ x.dep = t.dep /\ x.end = t.end /\ x.cursor = h
       /\ x.last = z /\ x.next = t.next /\ x.complete = q
  BY <1>5, <1>21 DEF TickRecord
<1>24. x \in TickRecord
  <2>1. p \in Phases /\ t.page + 1 \in Nat /\ h \in Nat /\ z \in Nat /\ t \in TickRecord
    BY <1>5, <1>7, <1>13, <1>16, <1>19 DEF Phases
  <2>2. ASSUME q = TRUE PROVE x \in TickRecord
    BY <2>1, <2>2, <1>21 DEF TickRecord
  <2>3. ASSUME q = FALSE PROVE x \in TickRecord
    BY <2>1, <2>3, <1>21 DEF TickRecord
  <2> QED BY <1>19, <2>2, <2>3
<1>25. x.next \in 1..x.last + 1
  BY <1>6, <1>7, <1>16, <1>23
<1>26. Deployments[x.dep] = c /\ Covered(c, x.next - 1) /\ x.end \in 0..tip
  BY <1>5, <1>6, <1>23
<1>27. /\ x.last <= upto[c][x.end] /\ x.last <= x.cursor /\ x.pc \in {"record", "page"}
       /\ x.dep \in 1..Len(Deployments)
  BY <1>5, <1>9, <1>16, <1>19, <1>23
<1>28. x.pc = "record" /\ x.complete =>
          \A k \in x.last + 1..upto[c][x.end] : k \in withheld'[c]
  BY <1>9, <1>c, <1>f, <1>23
<1>h. Covered(c, x.next - 1)'
  BY <1>26, <1>f, <1>g DEF Covered, Wanted, Handled
<1>29. TickOK(x)'
  BY <1>25, <1>26, <1>27, <1>28, <1>g, <1>h DEF TickOK
<1>30. raw' \in [Contracts -> SUBSET Nat] /\ lease' \in Workers \cup {NoWorker}
  BY DEF GetEvents, dbVars, IInv, TypeOK
<1> QED BY <1>22, <1>24, <1>29, <1>30, <1>f, <1>g, TickWithholds

LEMMA RecordEventStep ==
    ASSUME IInv, NEW w \in Workers, RecordEvent(w)
    PROVE  IInv'
<1>1. worker[w].pc = "record" /\ worker[w].next <= worker[w].last
  BY DEF RecordEvent
<1>2. /\ worker[w] \in TickRecord /\ TickOK(worker[w])
      /\ worker[w].dep \in 1..Len(Deployments) /\ Contract(w) \in Contracts
  BY <1>1, TickFacts
<1>3. PICK t : t = worker[w]
  OBVIOUS
<1>4. t \in TickRecord /\ TickOK(t) /\ t.pc = "record" /\ t.next <= t.last
  BY <1>1, <1>2, <1>3
<1>5. PICK x : x = [t EXCEPT !.pc = "dispatch"]
  OBVIOUS
<1>6. worker' = [worker EXCEPT ![w] = x]
  BY <1>3, <1>5 DEF RecordEvent
<1>7. /\ x.pc = "dispatch" /\ x.dep = t.dep /\ x.end = t.end /\ x.last = t.last
      /\ x.next = t.next /\ x.complete = t.complete
  BY <1>4, <1>5 DEF TickRecord
<1>8. x \in TickRecord
  BY <1>4, <1>5 DEF TickRecord, Phases
<1>9. TickOK(x)
  BY <1>4, <1>7 DEF TickOK
<1>10. t.next \in Nat
  BY <1>4 DEF TickRecord
<1>11. raw' \in [Contracts -> SUBSET Nat]
  BY <1>2, <1>3, <1>10 DEF RecordEvent, IInv, TypeOK
<1>12. /\ UNCHANGED <<chainVars, checkpoint, dispatched>>
       /\ lease' \in Workers \cup {NoWorker} /\ faults' \in 0..MaxFaults
  BY DEF RecordEvent, IInv, TypeOK
<1> QED BY <1>6, <1>8, <1>9, <1>11, <1>12, TickStep

LEMMA EventFailsStep ==
    ASSUME IInv, NEW w \in Workers, EventFails(w)
    PROVE  IInv'
<1>1. PICK d : d = worker[w].dep + 1
  OBVIOUS
<1>2. worker[w].dep \in Nat
  BY DEF IInv, TypeOK
<1>3. PICK x : x = EnterDeployment(d)
  OBVIOUS
<1>4. x \in TickRecord /\ TickOK(x)
  BY <1>1, <1>2, <1>3, EnterOK
<1>5. worker' = [worker EXCEPT ![w] = x]
  BY <1>1, <1>3 DEF EventFails
<1>6. faults' \in 0..MaxFaults
  BY FaultTyped DEF EventFails
<1>7. /\ UNCHANGED <<chainVars, checkpoint, dispatched>>
      /\ raw' \in [Contracts -> SUBSET Nat] /\ lease' \in Workers \cup {NoWorker}
  BY DEF EventFails, dbVars, IInv, TypeOK
<1> QED BY <1>4, <1>5, <1>6, <1>7, TickStep

\* The checkpoint is moved only after the last event of the window that the
\* node had.
LEMMA EventsDoneStep ==
    ASSUME IInv, NEW w \in Workers, EventsDone(w)
    PROVE  IInv'
<1>1. worker[w].pc = "record" /\ worker[w].next > worker[w].last
  BY DEF EventsDone
<1>2. worker[w] \in TickRecord /\ TickOK(worker[w]) /\ worker[w].dep \in 1..Len(Deployments)
  BY <1>1, TickFacts
<1>3. PICK t : t = worker[w]
  OBVIOUS
<1>4. t \in TickRecord /\ TickOK(t) /\ t.pc = "record" /\ t.next > t.last
  BY <1>1, <1>2, <1>3
<1>5. t.dep \in Nat /\ t.next \in Nat /\ t.last \in Nat
  BY <1>4 DEF TickRecord
<1>6. PICK x : x = IF t.complete THEN [t EXCEPT !.pc = "commit"] ELSE EnterDeployment(t.dep + 1)
  OBVIOUS
<1>7. worker' = [worker EXCEPT ![w] = x]
  BY <1>3, <1>6 DEF EventsDone
<1>8. ASSUME t.complete PROVE x \in TickRecord /\ TickOK(x)
  <2>1. x = [t EXCEPT !.pc = "commit"]
    BY <1>6, <1>8
  <2>2. x.pc = "commit" /\ x.dep = t.dep /\ x.end = t.end
    BY <1>4, <2>1 DEF TickRecord
  <2>3. x \in TickRecord
    BY <1>4, <2>1 DEF TickRecord, Phases
  <2>4. t.next - 1 = t.last
    BY <1>4, <1>5 DEF TickOK
  <2>5. PICK c : c = Deployments[t.dep]
    OBVIOUS
  <2>6. /\ t.dep \in 1..Len(Deployments) /\ t.end \in 0..tip
        /\ t.last <= upto[c][t.end] /\ Covered(c, t.next - 1)
        /\ \A k \in t.last + 1..upto[c][t.end] : k \in withheld[c]
    BY <1>4, <1>8, <2>5 DEF TickOK
  <2>7. Covered(c, upto[c][t.end])
    <3>1. c \in Contracts
      BY <2>5, <2>6, DeployedContract
    <3>2. /\ tip \in Nat /\ upto[c][t.end] \in Nat /\ upto[c][tip] \in Nat
          /\ upto[c][t.end] <= upto[c][tip]
      BY <3>1, <2>6, ChainFacts
    <3>3. ASSUME NEW k \in 1..upto[c][t.end], Wanted(c, k) PROVE Handled(c, k)
      <4>1. CASE k <= t.last
        BY <4>1, <1>5, <2>4, <2>6, <3>2, <3>3 DEF Covered
      <4>2. CASE ~(k <= t.last)
        <5>1. k \in t.last + 1..upto[c][t.end]
          BY <4>2, <1>5, <3>2
        <5> QED BY <5>1, <2>6 DEF Handled
      <4> QED BY <4>1, <4>2
    <3> QED BY <3>2, <3>3 DEF Covered
  <2>8. TickOK(x)
    BY <2>2, <2>5, <2>6, <2>7 DEF TickOK
  <2> QED BY <2>3, <2>8
<1>9. ASSUME ~t.complete PROVE x \in TickRecord /\ TickOK(x)
  <2>1. x = EnterDeployment(t.dep + 1)
    BY <1>6, <1>9
  <2>2. t.dep + 1 \in Nat /\ t.dep + 1 > 0
    BY <1>5
  <2> QED BY <2>1, <2>2, EnterOK
<1>10. x \in TickRecord /\ TickOK(x)
  BY <1>8, <1>9
<1>11. /\ UNCHANGED <<chainVars, checkpoint, dispatched>>
       /\ raw' \in [Contracts -> SUBSET Nat] /\ lease' \in Workers \cup {NoWorker}
       /\ faults' \in 0..MaxFaults
  BY DEF EventsDone, dbVars, IInv, TypeOK
<1> QED BY <1>7, <1>10, <1>11, TickStep

\* The tick ends at a failing or refused call.
LEMMA AbortTickStep ==
    ASSUME IInv, NEW w \in Workers, AbortTick(w) \/ StartRefused(w)
    PROVE  IInv'
<1>1. PICK x : x = [IdleTick EXCEPT !.pc = "release"]
  OBVIOUS
<1>2. x \in TickRecord /\ x.pc = "release"
  BY <1>1 DEF IdleTick, TickRecord, Phases
<1>3. TickOK(x)
  BY <1>2 DEF TickOK
<1>4. worker' = [worker EXCEPT ![w] = x]
  BY <1>1 DEF AbortTick, StartRefused
<1>5. faults' \in 0..MaxFaults
  <2>1. CASE AbortTick(w)
    BY <2>1, FaultTyped DEF AbortTick
  <2>2. CASE StartRefused(w)
    BY <2>2 DEF StartRefused, IInv, TypeOK
  <2> QED BY <2>1, <2>2
<1>6. /\ UNCHANGED <<chainVars, checkpoint, dispatched>>
      /\ raw' \in [Contracts -> SUBSET Nat] /\ lease' \in Workers \cup {NoWorker}
  BY DEF AbortTick, StartRefused, dbVars, IInv, TypeOK
<1> QED BY <1>2, <1>3, <1>4, <1>5, <1>6, TickStep

\* The end of a tick, and a crash.
LEMMA IdleStep ==
    ASSUME IInv, NEW w \in Workers, ReleaseLease(w) \/ Crash(w)
    PROVE  IInv'
<1>1. PICK x : x = IdleTick
  OBVIOUS
<1>2. x \in TickRecord /\ x.pc = "idle"
  BY <1>1 DEF IdleTick, TickRecord, Phases
<1>3. TickOK(x)
  BY <1>2 DEF TickOK
<1>4. worker' = [worker EXCEPT ![w] = x]
  BY <1>1 DEF ReleaseLease, Crash
<1>5. faults' \in 0..MaxFaults
  <2>1. CASE ReleaseLease(w)
    BY <2>1 DEF ReleaseLease, IInv, TypeOK
  <2>2. CASE Crash(w)
    BY <2>2, FaultTyped DEF Crash
  <2> QED BY <2>1, <2>2
<1>6. UNCHANGED <<chainVars, checkpoint, dispatched>> /\ raw' \in [Contracts -> SUBSET Nat]
  BY DEF ReleaseLease, Crash, dbVars, IInv, TypeOK
<1>7. lease' \in Workers \cup {NoWorker}
  <2>1. lease \in Workers \cup {NoWorker}
    BY DEF IInv, TypeOK
  <2>2. lease' \in {lease, w, NoWorker}
    BY DEF ReleaseLease, Crash
  <2> QED BY <2>1, <2>2
<1> QED BY <1>2, <1>3, <1>4, <1>5, <1>6, <1>7, TickStep

\* The event is the next one after a covered prefix.
LEMMA DispatchEventStep ==
    ASSUME IInv, NEW w \in Workers, DispatchEvent(w)
    PROVE  IInv'
<1>1. worker[w].pc = "dispatch"
  BY DEF DispatchEvent
<1>2. /\ worker[w] \in TickRecord /\ TickOK(worker[w])
      /\ worker[w].dep \in 1..Len(Deployments) /\ Contract(w) \in Contracts
  BY <1>1, TickFacts
<1>3. PICK c \in Contracts : c = Contract(w)
  BY <1>2
<1>4. PICK t : t = worker[w]
  OBVIOUS
<1>5. t \in TickRecord /\ t.pc = "dispatch" /\ c = Deployments[t.dep] /\ t.dep \in 1..Len(Deployments)
  BY <1>1, <1>2, <1>3, <1>4 DEF Contract
<1>6. /\ t.end \in 0..tip /\ t.last <= upto[c][t.end] /\ t.next \in 1..t.last + 1
      /\ t.next <= t.last /\ Covered(c, t.next - 1)
      /\ t.complete => \A k \in t.last + 1..upto[c][t.end] : k \in withheld[c]
  BY <1>2, <1>4, <1>5 DEF TickOK
<1>7. t.next \in Nat /\ t.last \in Nat /\ t.next >= 1
  BY <1>5, <1>6 DEF TickRecord
<1>8. /\ tip \in Nat /\ \A l \in 0..tip : upto[c][l] \in Nat
      /\ \A l, m \in 0..tip : l <= m => upto[c][l] <= upto[c][m]
  BY ChainFacts
<1>9. t.next <= upto[c][tip] /\ upto[c][tip] \in Nat
  <2>1. upto[c][t.end] <= upto[c][tip] /\ upto[c][t.end] \in Nat /\ upto[c][tip] \in Nat
    BY <1>6, <1>8
  <2> QED BY <1>6, <1>7, <2>1
<1>10. PICK x : x = [t EXCEPT !.pc = "record", !.next = t.next + 1]
  OBVIOUS
<1>11. worker' = [worker EXCEPT ![w] = x] /\ dispatched' = [dispatched EXCEPT ![c] = @ \cup {t.next}]
  BY <1>3, <1>4, <1>10 DEF DispatchEvent
<1>12. /\ x.pc = "record" /\ x.dep = t.dep /\ x.end = t.end /\ x.last = t.last
       /\ x.next = t.next + 1 /\ x.complete = t.complete
  BY <1>5, <1>10 DEF TickRecord
<1>13. x \in TickRecord
  <2>1. t \in TickRecord /\ t.next + 1 \in Nat
    BY <1>5, <1>7
  <2> QED BY <2>1, <1>10 DEF TickRecord, Phases
<1>14. UNCHANGED <<tip, rpcTip, upto, withheld, checkpoint, raw, lease, faults>>
  BY DEF DispatchEvent, chainVars
<1>15. dispatched \in [Contracts -> SUBSET Nat] /\ worker \in [Workers -> TickRecord]
  BY DEF IInv, TypeOK, TickRecord
<1>16. dispatched' \in [Contracts -> SUBSET Nat] /\ worker' \in [Workers -> TickRecord]
  BY <1>7, <1>11, <1>13, <1>15
<1>17. TypeOK'
  BY <1>14, <1>16 DEF IInv, TypeOK, TickRecord
<1>18. Monotone'
  BY <1>14 DEF IInv, Monotone
<1>19. dispatched'[c] = dispatched[c] \cup {t.next}
  BY <1>11, <1>15
<1>20. Evolves
  BY <1>8, <1>11, <1>14, <1>15 DEF Evolves
<1>21. Covered(c, t.next)'
  <2>1. t.next \in 0..upto'[c][tip']
    BY <1>7, <1>9, <1>14
  <2>2. ASSUME NEW k \in 1..t.next, Wanted(c, k)' PROVE Handled(c, k)'
    <3>1. Wanted(c, k)
      BY <2>2, <1>14 DEF Wanted
    <3>2. CASE k = t.next
      BY <3>2, <1>19 DEF Handled
    <3>3. CASE k # t.next
      <4>1. k \in 1..t.next - 1
        BY <3>3, <1>7
      <4>2. Handled(c, k)
        BY <4>1, <3>1, <1>6 DEF Covered
      <4> QED BY <4>2, <1>14, <1>19 DEF Handled
    <3> QED BY <3>2, <3>3
  <2> QED BY <2>1, <2>2 DEF Covered
<1>22. CheckpointOK'
  <2>1. SUFFICES ASSUME NEW a \in Contracts PROVE Covered(a, upto[a][checkpoint[a]])'
    BY DEF CheckpointOK
  <2>2. PICK n : n = upto[a][checkpoint[a]]
    OBVIOUS
  <2>3. Covered(a, n)
    BY <2>2 DEF IInv, CheckpointOK
  <2>4. Covered(a, n)'
    BY <2>3, <1>17, <1>18, <1>20, CoveredStable DEF IInv
  <2>5. n = upto'[a][checkpoint'[a]]
    BY <2>2, <1>14
  <2> QED BY <2>4, <2>5 DEF Covered
<1>23. DispatchedOK'
  <2>1. SUFFICES ASSUME NEW a \in Contracts, NEW k \in dispatched'[a] PROVE Covered(a, k)'
    BY DEF DispatchedOK
  <2>2. CASE k \in dispatched[a]
    <3>1. Covered(a, k)
      BY <2>2 DEF IInv, DispatchedOK
    <3> QED BY <3>1, <1>17, <1>18, <1>20, CoveredStable DEF IInv
  <2>3. CASE k \notin dispatched[a]
    <3>1. a = c /\ k = t.next
      BY <2>3, <1>11, <1>15
    <3> QED BY <3>1, <1>21
  <2> QED BY <2>2, <2>3
<1>24. TickOK(x)'
  <2>1. x.end \in 0..tip' /\ x.last <= upto'[c][x.end] /\ x.next \in 1..x.last + 1
    BY <1>6, <1>7, <1>12, <1>14
  <2>2. x.next - 1 = t.next
    BY <1>7, <1>12
  <2>3. Covered(c, x.next - 1)'
    BY <1>21, <2>2
  <2>4. x.complete => \A k \in x.last + 1..upto'[c][x.end] : k \in withheld'[c]
    BY <1>6, <1>12, <1>14
  <2>5. c = Deployments[x.dep] /\ x.dep \in 1..Len(Deployments)
    BY <1>5, <1>12
  <2> QED BY <2>1, <2>3, <2>4, <2>5, <1>12 DEF TickOK
<1>25. TicksOK'
  <2>1. SUFFICES ASSUME NEW v \in Workers PROVE TickOK(worker[v])'
    BY DEF TicksOK
  <2>2. PICK y : y = worker'[v]
    OBVIOUS
  <2>3. CASE v = w
    <3>1. y = x
      BY <2>2, <2>3, <1>11, <1>15
    <3> QED BY <3>1, <2>2, <1>24 DEF TickOK
  <2>4. CASE v # w
    <3>1. y = worker[v]
      BY <2>2, <2>4, <1>11, <1>15
    <3>2. y \in TickRecord /\ TickOK(y)
      BY <3>1, <1>15 DEF IInv, TicksOK
    <3>4. TickOK(y)'
      BY <3>2, <1>17, <1>18, <1>20, TickStable DEF IInv
    <3> QED BY <3>4, <2>2 DEF TickOK
  <2> QED BY <2>3, <2>4
<1> QED BY <1>17, <1>18, <1>22, <1>23, <1>25 DEF IInv

\* Both writes of a checkpoint go to a ledger up to which all is dispatched.
LEMMA CommitCheckpointStep ==
    ASSUME IInv, NEW w \in Workers, CommitCheckpoint(w)
    PROVE  IInv'
<1>1. worker[w].pc = "commit"
  BY DEF CommitCheckpoint
<1>2. /\ worker[w] \in TickRecord /\ TickOK(worker[w])
      /\ worker[w].dep \in 1..Len(Deployments) /\ Contract(w) \in Contracts
  BY <1>1, TickFacts
<1>3. PICK c \in Contracts : c = Contract(w)
  BY <1>2
<1>4. PICK t : t = worker[w]
  OBVIOUS
<1>5. t \in TickRecord /\ t.pc = "commit" /\ c = Deployments[t.dep]
  BY <1>1, <1>2, <1>3, <1>4 DEF Contract
<1>6. t.end \in 0..tip /\ Covered(c, upto[c][t.end]) /\ t.dep \in Nat
  BY <1>2, <1>4, <1>5 DEF TickOK, TickRecord
<1>7. PICK n : n = IF t.reset THEN t.end ELSE LargerOf(checkpoint[c], t.end)
  OBVIOUS
<1>8. checkpoint[c] \in 0..tip /\ Covered(c, upto[c][checkpoint[c]])
  BY DEF IInv, TypeOK, CheckpointOK
<1>9. n = t.end \/ n = checkpoint[c]
  BY <1>7 DEF LargerOf
<1>10. n \in 0..tip /\ Covered(c, upto[c][n])
  BY <1>6, <1>8, <1>9
<1>11. PICK x : x = EnterDeployment(t.dep + 1)
  OBVIOUS
<1>12. x \in TickRecord /\ TickOK(x)
  <2>1. t.dep + 1 \in Nat /\ t.dep + 1 > 0
    BY <1>6
  <2> QED BY <2>1, <1>11, EnterOK
<1>13. worker' = [worker EXCEPT ![w] = x] /\ checkpoint' = [checkpoint EXCEPT ![c] = n]
  BY <1>3, <1>4, <1>7, <1>11 DEF CommitCheckpoint
<1>14. UNCHANGED <<tip, rpcTip, upto, withheld, raw, dispatched, lease, faults>>
  BY DEF CommitCheckpoint, chainVars
<1>15. checkpoint \in [Contracts -> 0..tip] /\ worker \in [Workers -> TickRecord]
  BY DEF IInv, TypeOK, TickRecord
<1>16. checkpoint' \in [Contracts -> 0..tip'] /\ worker' \in [Workers -> TickRecord]
  BY <1>10, <1>12, <1>13, <1>14, <1>15
<1>17. TypeOK'
  BY <1>14, <1>16 DEF IInv, TypeOK, TickRecord
<1>18. Monotone' /\ DispatchedOK'
  BY <1>14 DEF IInv, Monotone, DispatchedOK, Covered, Wanted, Handled
<1>19. CheckpointOK'
  <2>1. SUFFICES ASSUME NEW a \in Contracts PROVE Covered(a, upto[a][checkpoint[a]])'
    BY DEF CheckpointOK
  <2>2. PICK m : m = checkpoint'[a]
    OBVIOUS
  <2>3. Covered(a, upto[a][m])
    BY <2>2, <1>10, <1>13, <1>15 DEF IInv, CheckpointOK
  <2> QED BY <2>2, <2>3, <1>14 DEF Covered, Wanted, Handled
<1>20. TicksOK'
  <2>1. SUFFICES ASSUME NEW v \in Workers PROVE TickOK(worker[v])'
    BY DEF TicksOK
  <2>2. PICK y : y = worker'[v]
    OBVIOUS
  <2>3. TickOK(y)
    BY <2>2, <1>12, <1>13, <1>15 DEF IInv, TicksOK
  <2>4. TickOK(y)'
    BY <2>3, <1>14 DEF TickOK, Covered, Wanted, Handled
  <2> QED BY <2>2, <2>4 DEF TickOK
<1> QED BY <1>17, <1>18, <1>19, <1>20 DEF IInv

-----------------------------------------------------------------------------
(* The chain, the node and the lease. *)

\* What every step that leaves the database and the ticks alone preserves.
LEMMA ChainStep ==
    ASSUME IInv, TypeOK', Monotone', Evolves, UNCHANGED <<checkpoint, dispatched, worker>>
    PROVE  IInv'
<1>1. CheckpointOK'
  <2>1. SUFFICES ASSUME NEW c \in Contracts PROVE Covered(c, upto[c][checkpoint[c]])'
    BY DEF CheckpointOK
  <2>2. PICK n : n = upto[c][checkpoint[c]]
    OBVIOUS
  <2>3. Covered(c, n)
    BY <2>2 DEF IInv, CheckpointOK
  <2>4. Covered(c, n)'
    BY <2>3, CoveredStable DEF IInv
  <2>5. checkpoint[c] \in 0..tip
    BY DEF IInv, TypeOK
  <2>6. n = upto'[c][checkpoint'[c]]
    BY <2>2, <2>5 DEF Evolves
  <2> QED BY <2>4, <2>6 DEF Covered
<1>2. DispatchedOK'
  <2>1. SUFFICES ASSUME NEW c \in Contracts, NEW k \in dispatched'[c] PROVE Covered(c, k)'
    BY DEF DispatchedOK
  <2>2. Covered(c, k)
    BY <2>1 DEF IInv, DispatchedOK
  <2> QED BY <2>2, CoveredStable DEF IInv
<1>3. TicksOK'
  <2>1. SUFFICES ASSUME NEW v \in Workers PROVE TickOK(worker[v])'
    BY DEF TicksOK
  <2>2. PICK y : y = worker[v]
    OBVIOUS
  <2>3. y \in TickRecord /\ TickOK(y)
    BY <2>2, TickTyped DEF IInv, TicksOK
  <2>4. TickOK(y)'
    BY <2>3, TickStable DEF IInv
  <2>5. y = worker'[v]
    BY <2>2
  <2> QED BY <2>4, <2>5 DEF TickOK
<1> QED BY <1>1, <1>2, <1>3 DEF IInv

LEMMA CloseLedgerStep ==
    ASSUME IInv, CloseLedger
    PROVE  IInv'
<1>1. PICK n \in [Contracts -> 0..MaxEvents] :
        upto' = [c \in Contracts |->
                  [l \in 0..tip + 1 |-> IF l <= tip THEN upto[c][l] ELSE upto[c][tip] + n[c]]]
  BY DEF CloseLedger
<1>2. tip \in Nat \ {0} /\ rpcTip \in 1..tip /\ tip' = tip + 1 /\ MaxEvents \in Nat
  BY IndexerAssumption DEF IndexerAssumption, IInv, TypeOK, CloseLedger
<1>3. ASSUME NEW c \in Contracts
      PROVE  /\ upto'[c] \in [0..tip' -> Nat]
             /\ \A l \in 0..tip : upto'[c][l] = upto[c][l]
             /\ upto'[c][tip + 1] >= upto[c][tip]
             /\ \A l, m \in 0..tip : l <= m => upto[c][l] <= upto[c][m]
             /\ \A l \in 0..tip : upto[c][l] \in Nat
  <2>1. /\ \A l \in 0..tip : upto[c][l] \in Nat
        /\ \A l, m \in 0..tip : l <= m => upto[c][l] <= upto[c][m]
    BY ChainFacts
  <2>2. n[c] \in Nat /\ upto[c][tip] \in Nat
    BY <1>2, <2>1
  <2>3. upto'[c] = [l \in 0..tip + 1 |-> IF l <= tip THEN upto[c][l] ELSE upto[c][tip] + n[c]]
    BY <1>1
  <2>4. \A l \in 0..tip : upto'[c][l] = upto[c][l]
    BY <1>2, <2>3
  <2>5. upto'[c][tip + 1] = upto[c][tip] + n[c]
    BY <1>2, <2>3
  <2>6. \A l \in 0..tip + 1 : l \in 0..tip \/ l = tip + 1
    BY <1>2
  <2>7. \A l \in 0..tip + 1 : upto'[c][l] \in Nat
    BY <2>1, <2>2, <2>4, <2>5, <2>6
  <2>8. upto'[c] \in [0..tip + 1 -> Nat]
    BY <2>3, <2>7
  <2>9. upto'[c][tip + 1] >= upto[c][tip]
    BY <2>2, <2>5
  <2>10. upto'[c] \in [0..tip' -> Nat]
    BY <1>2, <2>8
  <2> QED BY <2>1, <2>4, <2>9, <2>10
<1>4. upto' \in [Contracts -> [0..tip' -> Nat]]
  <2>1. \A c \in Contracts : upto'[c] \in [0..tip' -> Nat]
    BY <1>3
  <2>2. PICK g : upto' = [c \in Contracts |-> g[c]]
    <3>1. upto' = [c \in Contracts |-> upto'[c]]
      BY <1>1
    <3> QED BY <3>1
  <2> QED BY <2>1, <2>2
<1>5. UNCHANGED <<rpcTip, withheld, checkpoint, raw, dispatched, lease, worker, faults>>
  BY DEF CloseLedger, dbVars
<1>6. checkpoint' \in [Contracts -> 0..tip']
  <2>1. checkpoint \in [Contracts -> 0..tip]
    BY DEF IInv, TypeOK
  <2>2. 0..tip \subseteq 0..tip'
    BY <1>2
  <2> QED BY <1>5, <2>1, <2>2
<1>7. TypeOK'
  <2>1. tip' \in Nat \ {0} /\ rpcTip' \in 1..tip'
    BY <1>2, <1>5
  <2> QED BY <2>1, <1>4, <1>5, <1>6 DEF IInv, TypeOK
<1>8. Monotone'
  <2>1. SUFFICES ASSUME NEW c \in Contracts, NEW l \in 0..tip', NEW m \in 0..tip', l <= m
                 PROVE  upto'[c][l] <= upto'[c][m]
    BY DEF Monotone
  <2>a. /\ upto'[c] \in [0..tip' -> Nat]
        /\ \A i \in 0..tip : upto'[c][i] = upto[c][i]
        /\ upto'[c][tip + 1] >= upto[c][tip]
        /\ \A i, j \in 0..tip : i <= j => upto[c][i] <= upto[c][j]
        /\ \A i \in 0..tip : upto[c][i] \in Nat
    BY <1>3
  <2>2. upto'[c][l] \in Nat /\ upto'[c][m] \in Nat
    BY <2>a
  <2>3. CASE l \in 0..tip /\ m \in 0..tip
    <3>1. upto'[c][l] = upto[c][l] /\ upto'[c][m] = upto[c][m] /\ upto[c][l] <= upto[c][m]
      BY <2>a, <2>1, <2>3
    <3> QED BY <3>1
  <2>4. CASE l \in 0..tip /\ m = tip + 1
    <3>1. tip \in 0..tip /\ l <= tip
      BY <1>2, <2>4
    <3>2. upto[c][l] <= upto[c][tip] /\ upto[c][tip] \in Nat /\ upto'[c][l] = upto[c][l]
      BY <2>a, <2>4, <3>1
    <3>3. upto'[c][m] >= upto[c][tip]
      BY <2>a, <2>4
    <3> QED BY <2>2, <3>2, <3>3
  <2>5. CASE l = tip + 1 /\ m = tip + 1
    BY <2>2, <2>5
  <2> QED BY <1>2, <2>1, <2>3, <2>4, <2>5
<1>9. Evolves
  BY <1>2, <1>3, <1>5 DEF Evolves
<1> QED BY <1>5, <1>7, <1>8, <1>9, ChainStep

LEMMA NodeStep ==
    ASSUME IInv, RpcIngest \/ RpcRestart \/ LeaseExpires
    PROVE  IInv'
<1>1. tip \in Nat /\ rpcTip \in 1..tip
  BY DEF IInv, TypeOK
<1>2. UNCHANGED <<tip, upto, withheld, checkpoint, raw, dispatched, worker>>
  BY DEF RpcIngest, RpcRestart, LeaseExpires, dbVars, chainVars
<1>3. rpcTip' \in 1..tip
  BY <1>1 DEF RpcIngest, RpcRestart, LeaseExpires, chainVars
<1>4. lease' \in Workers \cup {NoWorker}
  BY DEF RpcIngest, RpcRestart, LeaseExpires, IInv, TypeOK
<1>5. faults' \in 0..MaxFaults
  <2>1. CASE RpcRestart
    BY <2>1, FaultTyped DEF RpcRestart
  <2>2. CASE RpcIngest \/ LeaseExpires
    BY <2>2 DEF RpcIngest, LeaseExpires, IInv, TypeOK
  <2> QED BY <2>1, <2>2
<1>6. TypeOK'
  BY <1>2, <1>3, <1>4, <1>5 DEF IInv, TypeOK
<1>7. Monotone'
  BY <1>2 DEF IInv, Monotone
<1>8. Evolves
  BY <1>1, <1>2 DEF Evolves
<1> QED BY <1>2, <1>6, <1>7, <1>8, ChainStep

-----------------------------------------------------------------------------
(* The invariant and its consequences. *)

LEMMA InitIInv == Init => IInv
<1> SUFFICES ASSUME Init PROVE IInv
  OBVIOUS
<1>2. tip = 1 /\ \A c \in Contracts : upto[c] = [l \in 0..1 |-> 0]
  BY DEF Init
<1>3. IdleTick \in TickRecord
  BY DEF IdleTick, TickRecord, Phases
<1>4. TypeOK
  BY <1>3, IndexerAssumption DEF IndexerAssumption, Init, TypeOK, TickRecord
<1>5. Monotone
  BY <1>2 DEF Monotone
<1>6. CheckpointOK /\ DispatchedOK
  BY <1>2 DEF Init, CheckpointOK, DispatchedOK, Covered
<1>7. TicksOK
  <2>1. PICK x : x = IdleTick
    OBVIOUS
  <2>2. x.pc = "idle"
    BY <2>1 DEF IdleTick
  <2>3. TickOK(x)
    BY <2>2 DEF TickOK
  <2> QED BY <2>1, <2>3 DEF Init, TicksOK
<1> QED BY <1>4, <1>5, <1>6, <1>7 DEF IInv

LEMMA NextIInv == IInv /\ [Next]_vars => IInv'
<1> SUFFICES ASSUME IInv, [Next]_vars PROVE IInv'
  OBVIOUS
<1>2. CASE UNCHANGED vars
  BY <1>2 DEF vars, IInv, TypeOK, Monotone, CheckpointOK, DispatchedOK, TicksOK, TickOK,
              Covered, Wanted, Handled
<1>3. CASE CloseLedger \/ RpcIngest \/ RpcRestart \/ LeaseExpires
  BY <1>3, CloseLedgerStep, NodeStep
<1>4. ASSUME NEW w \in Workers,
             \/ Tick(w) \/ FetchPageWithoutCursor(w) \/ EventFails(w) \/ AbortTick(w) \/ Crash(w)
      PROVE  IInv'
  <2>1. CASE FetchPage(w) \/ FetchPageWithoutCursor(w)
    <3>1. faults' \in 0..MaxFaults
      <4>1. CASE FetchPage(w)
        BY <4>1 DEF FetchPage, IInv, TypeOK
      <4>2. CASE FetchPageWithoutCursor(w)
        BY <4>2, FaultTyped DEF FetchPageWithoutCursor
      <4> QED BY <2>1, <4>1, <4>2
    <3> QED BY <2>1, <3>1, GetEventsStep DEF FetchPage, FetchPageWithoutCursor
  <2> QED BY <1>4, <2>1, StartTickStep, ReadCheckpointStep, PollRewindsStep,
             PollWindowStep, RecordEventStep, DispatchEventStep, EventsDoneStep,
             CommitCheckpointStep, EventFailsStep, AbortTickStep, IdleStep DEF Tick
<1> QED BY <1>2, <1>3, <1>4 DEF Next

LEMMA IInvHolds == Spec => []IInv
BY InitIInv, NextIInv, PTL DEF Spec

\* The locals of every tick, the checkpoints and the lease keep their types:
\* a checkpoint never passes the chain, the rewind included.
THEOREM IndexerTypeCorrect == Spec => []TypeOK
<1>1. IInv => TypeOK
  BY DEF IInv
<1> QED BY <1>1, IInvHolds, PTL

\* Whatever crashes, fails, is replayed, rewound or read by a second process
\* whose lease was lost, no checkpoint of indexer_checkpoints passes an event
\* that was not dispatched, except one that a node, fallen back between
\* getLatestLedger and getEvents, left out of the last page of a window.  That
\* is the only way in which the checkpoint loses an event.
THEOREM CheckpointsCover == Spec => []CheckpointCoversDispatch
<1>1. ASSUME IInv PROVE CheckpointCoversDispatch
  BY <1>1 DEF IInv, CheckpointOK, Covered, CheckpointCoversDispatch
<1> QED BY <1>1, IInvHolds, PTL

\* The dispatched events of a contract are gapless from StartLedger on, with
\* the same exception and no other.
THEOREM DispatchIsGapless == Spec => []DispatchHasNoGap
<1>1. ASSUME IInv PROVE DispatchHasNoGap
  BY <1>1 DEF IInv, DispatchedOK, Covered, DispatchHasNoGap
<1> QED BY <1>1, IInvHolds, PTL
=============================================================================
