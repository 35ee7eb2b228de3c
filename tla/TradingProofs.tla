--------------------------- MODULE TradingProofs ---------------------------
(***************************************************************************)
(* The theorems of Trading and their proofs, for any number of traders and *)
(* markets, any lines of child credit and amounts of every size.  First    *)
(* what the operations of the vault do to its books and loans (Booked,     *)
(* Settles, Redeems), those of the tokens to supplies (Deals) and those of *)
(* the AMM to a pool (PoolDeals).  From these, every action is a step of   *)
(* the lifecycle, a Traded step or a RedeemedStep (StepKinds), and each of *)
(* the three keeps the inductive invariant Kept.  Then the same operations *)
(* for lines of credit that do not meet (Matched): what they do to loans   *)
(* and to what secures a market (Carries, InStep), and to the limit of a   *)
(* loan (Limited).                                                         *)
(***************************************************************************)
EXTENDS Trading, DikeTheorems, SequenceTheorems

\* Lines of credit run between markets.
LEMMA LinesInMarkets == Lenders \subseteq Markets /\ Borrowers \subseteq Markets /\ NoParent \notin Markets
BY TradingAssumption DEF Lenders, Borrowers, NoParent

\* Sums over markets and over traders are finite.
LEMMA FiniteInstance == IsFiniteSet(Markets) /\ IsFiniteSet(Traders)
BY TradingAssumption, Zenon

-----------------------------------------------------------------------------
(* What the books of a vault amount to. *)

\* What a book amounts to is a number.
LEMMA BookTotalInt ==
    ASSUME NEW b \in Books
    PROVE  BookTotal(b) \in Int
BY DEF BookTotal, Books

\* What a vault is worth is a number.
LEMMA WorthInt ==
    ASSUME NEW v \in Vaults
    PROVE  Worth(v) \in Int
<1> DEFINE f == [m \in Markets |-> BookTotal(v.book[m])]
<1>1. \A m \in Markets : f[m] \in Int
  BY BookTotalInt DEF Vaults
<1>2. SumFunctionOnSet(f, Markets) \in Int
    <2> HIDE DEF f
    <2> QED BY <1>1, SumInt, FiniteInstance
<1>3. v.reserve \in Nat
  BY DEF Vaults
<1> QED BY <1>2, <1>3 DEF Worth

\* A vault whose books differ in one market.
LEMMA WorthChange ==
    ASSUME NEW v \in Vaults, NEW w \in Vaults, NEW m \in Markets,
           \A k \in Markets \ {m} : w.book[k] = v.book[k]
    PROVE  Worth(w) = Worth(v) + (BookTotal(w.book[m]) - BookTotal(v.book[m]))
                               + (w.reserve - v.reserve)
<1> DEFINE f == [k \in Markets |-> BookTotal(v.book[k])]
           g == [k \in Markets |-> BookTotal(w.book[k])]
<1>1. \A k \in Markets : f[k] \in Int /\ g[k] \in Int
  BY BookTotalInt DEF Vaults
<1>2. \A k \in Markets \ {m} : g[k] = f[k]
  OBVIOUS
<1>3. /\ SumFunctionOnSet(f, Markets) \in Int
      /\ SumFunctionOnSet(g, Markets) = SumFunctionOnSet(f, Markets) + (g[m] - f[m])
    <2> HIDE DEF f, g
    <2>1. SumFunctionOnSet(f, Markets) \in Int
      BY <1>1, SumInt, FiniteInstance, Zenon
    <2>2. SumFunctionOnSet(g, Markets) = SumFunctionOnSet(f, Markets) + (g[m] - f[m])
      BY <1>1, <1>2, SumChange, FiniteInstance
    <2> QED BY <2>1, <2>2
<1>4. v.reserve \in Nat /\ w.reserve \in Nat
  BY DEF Vaults
<1>5. f[m] = BookTotal(v.book[m]) /\ g[m] = BookTotal(w.book[m])
  OBVIOUS
<1>6. Worth(v) = SumFunctionOnSet(f, Markets) + v.reserve
  BY DEF Worth
<1>7. Worth(w) = SumFunctionOnSet(g, Markets) + w.reserve
  BY DEF Worth
<1> HIDE DEF f, g
<1> QED BY <1>1, <1>3, <1>4, <1>5, <1>6, <1>7

\* The fields of a vault besides the books and the reserve.
SameLoans(v, w) ==
    /\ w.used = v.used /\ w.parentDebt = v.parentDebt /\ w.children = v.children
    /\ w.childDebt = v.childDebt /\ w.parent = v.parent /\ w.parentOutcome = v.parentOutcome

SameAccounts(v, w) == SameLoans(v, w) /\ w.carry = v.carry /\ w.stake = v.stake

\* A vault in which the book of one market was rewritten.
Rewritten(v, m, b, w) == w = [v EXCEPT !.book[m] = b]

\* A vault whose one book is replaced.
LEMMA BookWritten ==
    ASSUME NEW v \in Vaults, NEW m \in Markets, NEW b \in Books, NEW w,
           Rewritten(v, m, b, w)
    PROVE  /\ w \in Vaults
           /\ w.book[m] = b
           /\ \A k \in Markets \ {m} : w.book[k] = v.book[k]
           /\ SameAccounts(v, w) /\ w.reserve = v.reserve
           /\ Worth(w) = Worth(v) + (BookTotal(b) - BookTotal(v.book[m]))
<1>1. w \in Vaults
  BY DEF Vaults, Rewritten
<1>2. /\ w.book[m] = b
      /\ \A k \in Markets \ {m} : w.book[k] = v.book[k]
      /\ SameAccounts(v, w) /\ w.reserve = v.reserve
  BY DEF Vaults, SameAccounts, SameLoans, Rewritten
<1>3. Worth(w) = Worth(v) + (BookTotal(b) - BookTotal(v.book[m])) + (w.reserve - v.reserve)
  BY <1>1, <1>2, WorthChange
<1>4. w.reserve - v.reserve = 0 /\ BookTotal(b) \in Int /\ BookTotal(v.book[m]) \in Int
  BY <1>2, BookTotalInt DEF Vaults
<1> QED BY <1>1, <1>2, <1>3, <1>4, WorthInt

\* Book c is book b with `a` more backing.
Backed(b, c, a) ==
    /\ c.backing = b.backing + a /\ c.refundable = b.refundable + a
    /\ c.redeemed = b.redeemed /\ c.shortfall = b.shortfall
    /\ c.lp_fees = b.lp_fees /\ c.protocol_fees = b.protocol_fees /\ c.cod_fees = b.cod_fees

\* Funded changes the backing and the refundable part of a book alike.
LEMMA BackedBook ==
    ASSUME NEW b \in Books, NEW a \in Int, NEW c, c = Funded(b, a)
    PROVE  c \in Books /\ Backed(b, c, a)
<1> DEFINE d == [b EXCEPT !.backing = @ + a]
<1>1. c = [d EXCEPT !.refundable = @ + a]
  BY DEF Books, Funded
<1>2. d \in Books /\ d.backing = b.backing + a /\ d.refundable = b.refundable
      /\ d.redeemed = b.redeemed /\ d.shortfall = b.shortfall
      /\ d.lp_fees = b.lp_fees /\ d.protocol_fees = b.protocol_fees /\ d.cod_fees = b.cod_fees
  BY DEF Books
<1> HIDE DEF d
<1> QED BY <1>1, <1>2 DEF Books, Backed

\* The same of a vault: Credited.
LEMMA CreditedBook ==
    ASSUME NEW v \in Vaults, NEW m \in Markets, NEW a \in Int, NEW w, w = Credited(v, m, a)
    PROVE  /\ w \in Vaults
           /\ Backed(v.book[m], w.book[m], a)
           /\ \A k \in Markets \ {m} : w.book[k] = v.book[k]
           /\ SameAccounts(v, w) /\ w.reserve = v.reserve
           /\ Worth(w) = Worth(v) + a
<1> DEFINE b == Funded(v.book[m], a)
<1>0. v.book[m] \in Books
  BY DEF Vaults
<1>1. Rewritten(v, m, b, w)
  BY Zenon DEF Credited, Rewritten
<1>2. b \in Books /\ Backed(v.book[m], b, a)
  BY <1>0, BackedBook
<1> HIDE DEF b
<1>3. b \in Books /\ BookTotal(b) - BookTotal(v.book[m]) = a
  BY <1>0, <1>2 DEF Books, BookTotal, Backed
<1>4. /\ w \in Vaults
      /\ w.book[m] = b
      /\ \A k \in Markets \ {m} : w.book[k] = v.book[k]
      /\ SameAccounts(v, w) /\ w.reserve = v.reserve
      /\ Worth(w) = Worth(v) + (BookTotal(b) - BookTotal(v.book[m]))
  BY <1>1, <1>3, BookWritten
<1> QED BY <1>2, <1>3, <1>4, WorthInt

FeeShares == [lp : Nat, treasury : Nat, cod : Nat]

\* Fees added to the counters of a book: FeesAdded.
LEMMA FeesAddedBook ==
    ASSUME NEW b \in Books, NEW f \in FeeShares, NEW c, c = FeesAdded(b, f)
    PROVE  /\ c \in Books /\ c.backing = b.backing /\ c.refundable = b.refundable
           /\ c.redeemed = b.redeemed /\ c.shortfall = b.shortfall
           /\ c.lp_fees = b.lp_fees + f.lp /\ c.protocol_fees = b.protocol_fees + f.treasury
           /\ c.cod_fees = b.cod_fees + f.cod
<1> DEFINE d == [b EXCEPT !.lp_fees = @ + f.lp]
           e == [d EXCEPT !.protocol_fees = @ + f.treasury]
<1>0. f.lp \in Nat /\ f.treasury \in Nat /\ f.cod \in Nat
  BY DEF FeeShares
<1>1. /\ d \in Books /\ d.backing = b.backing /\ d.refundable = b.refundable
      /\ d.redeemed = b.redeemed /\ d.shortfall = b.shortfall
      /\ d.lp_fees = b.lp_fees + f.lp /\ d.protocol_fees = b.protocol_fees
      /\ d.cod_fees = b.cod_fees
  BY <1>0 DEF Books
<1>2. c = [e EXCEPT !.cod_fees = @ + f.cod]
  BY <1>0, <1>1 DEF Books, FeesAdded
<1> HIDE DEF d
<1>3. /\ e \in Books /\ e.backing = d.backing /\ e.refundable = d.refundable
      /\ e.redeemed = d.redeemed /\ e.shortfall = d.shortfall
      /\ e.lp_fees = d.lp_fees /\ e.protocol_fees = d.protocol_fees + f.treasury
      /\ e.cod_fees = d.cod_fees
  BY <1>0, <1>1 DEF Books
<1> HIDE DEF e
<1> QED BY <1>0, <1>1, <1>2, <1>3 DEF Books

\* The fees of a trade.
LEMMA CollectedBook ==
    ASSUME NEW v \in Vaults, NEW m \in Markets, NEW w, NEW f,
           f \in FeeShares,
           w = collect_fee(v, m, f)
    PROVE  /\ w \in Vaults
           /\ w.book[m].backing = v.book[m].backing - FeesOf(f)
           /\ w.book[m].refundable = v.book[m].refundable - FeesOf(f)
           /\ w.book[m].redeemed = v.book[m].redeemed
           /\ w.book[m].shortfall = v.book[m].shortfall
           /\ w.book[m].lp_fees = v.book[m].lp_fees + f.lp
           /\ \A k \in Markets \ {m} : w.book[k] = v.book[k]
           /\ SameAccounts(v, w) /\ w.reserve = v.reserve
           /\ Worth(w) = Worth(v)
<1> DEFINE u == Credited(v, m, 0 - FeesOf(f))
           b == u.book[m]
           c == FeesAdded(b, f)
<1>0. FeesOf(f) \in Nat /\ 0 - FeesOf(f) \in Int /\ f.lp \in Nat /\ f.treasury \in Nat /\ f.cod \in Nat
  BY DEF FeesOf, FeeShares
<1>1. /\ u \in Vaults
      /\ Backed(v.book[m], b, 0 - FeesOf(f))
      /\ \A k \in Markets \ {m} : u.book[k] = v.book[k]
      /\ SameAccounts(v, u) /\ u.reserve = v.reserve
      /\ Worth(u) = Worth(v) + (0 - FeesOf(f))
    <2> HIDE DEF u
    <2> QED BY <1>0, CreditedBook DEF u
<1>2. Rewritten(u, m, c, w)
    <2> HIDE DEF u
    <2> QED BY Zenon DEF collect_fee, u, Rewritten
<1>3. b \in Books /\ v.book[m] \in Books
    <2> HIDE DEF u
    <2> QED BY <1>1 DEF Vaults
<1>4. /\ c \in Books /\ c.backing = b.backing /\ c.refundable = b.refundable
      /\ c.redeemed = b.redeemed /\ c.shortfall = b.shortfall
      /\ c.lp_fees = b.lp_fees + f.lp /\ c.protocol_fees = b.protocol_fees + f.treasury
      /\ c.cod_fees = b.cod_fees + f.cod
    <2> HIDE DEF b
    <2> QED BY <1>3, FeesAddedBook
<1> HIDE DEF c
<1>5. /\ w \in Vaults
      /\ w.book[m] = c
      /\ \A k \in Markets \ {m} : w.book[k] = u.book[k]
      /\ SameAccounts(u, w) /\ w.reserve = u.reserve
      /\ Worth(w) = Worth(u) + (BookTotal(c) - BookTotal(b))
    <2> HIDE DEF u
    <2> QED BY <1>1, <1>2, <1>4, BookWritten
<1> HIDE DEF u, b
<1>6. BookTotal(c) - BookTotal(b) = FeesOf(f)
  BY <1>0, <1>3, <1>4 DEF BookTotal, FeesOf, Books
<1>7. Worth(w) = Worth(v)
  BY <1>0, <1>1, <1>5, <1>6, WorthInt
<1>8. SameAccounts(v, w) /\ w.reserve = v.reserve /\ \A k \in Markets \ {m} : w.book[k] = v.book[k]
  BY <1>1, <1>5 DEF SameAccounts, SameLoans
<1> QED BY <1>0, <1>1, <1>3, <1>4, <1>5, <1>7, <1>8 DEF Backed, Books

\* Fees paid to a liquidity provider.
LEMMA ClaimedBook ==
    ASSUME NEW v \in Vaults, NEW m \in Markets, NEW a \in Nat, NEW w,
           a <= v.book[m].lp_fees,
           w = claim_lp_fees(v, m, a)
    PROVE  /\ w \in Vaults
           /\ w.book[m].backing = v.book[m].backing
           /\ w.book[m].refundable = v.book[m].refundable
           /\ w.book[m].redeemed = v.book[m].redeemed
           /\ w.book[m].shortfall = v.book[m].shortfall
           /\ w.book[m].lp_fees = v.book[m].lp_fees - a
           /\ \A k \in Markets \ {m} : w.book[k] = v.book[k]
           /\ SameAccounts(v, w) /\ w.reserve = v.reserve
           /\ Worth(w) = Worth(v) - a
<1> DEFINE b == [v.book[m] EXCEPT !.lp_fees = @ - a]
<1>0. v.book[m] \in Books
  BY DEF Vaults
<1>1. Rewritten(v, m, b, w)
  BY DEF claim_lp_fees, Vaults, Books, Rewritten
<1>2. /\ b \in Books /\ b.backing = v.book[m].backing /\ b.refundable = v.book[m].refundable
      /\ b.redeemed = v.book[m].redeemed /\ b.shortfall = v.book[m].shortfall
      /\ b.lp_fees = v.book[m].lp_fees - a /\ b.protocol_fees = v.book[m].protocol_fees
      /\ b.cod_fees = v.book[m].cod_fees
  BY <1>0 DEF Books
<1> HIDE DEF b
<1>3. BookTotal(b) - BookTotal(v.book[m]) = 0 - a
  BY <1>0, <1>2 DEF Books, BookTotal
<1>4. /\ w \in Vaults
      /\ w.book[m] = b
      /\ \A k \in Markets \ {m} : w.book[k] = v.book[k]
      /\ SameAccounts(v, w) /\ w.reserve = v.reserve
      /\ Worth(w) = Worth(v) + (BookTotal(b) - BookTotal(v.book[m]))
  BY <1>1, <1>2, BookWritten
<1> QED BY <1>2, <1>3, <1>4, WorthInt

\* A payment to a holder.
Paid(v, w, m, a) ==
    /\ w \in Vaults
    /\ w.book[m].backing = v.book[m].backing
    /\ w.book[m].refundable = v.book[m].refundable - a
    /\ w.book[m].redeemed = v.book[m].redeemed + a
    /\ w.book[m].shortfall = v.book[m].shortfall
    /\ w.book[m].lp_fees = v.book[m].lp_fees
    /\ \A k \in Markets \ {m} : w.book[k] = v.book[k]
    /\ SameAccounts(v, w) /\ w.reserve = v.reserve
    /\ Worth(w) = Worth(v) - a

\* A payout recorded in a book: PaidOut.
LEMMA PaidBook ==
    ASSUME NEW v \in Vaults, NEW m \in Markets, NEW a \in Nat, NEW w, w = PaidOut(v, m, a)
    PROVE  Paid(v, w, m, a)
<1> DEFINE b == Paying(v.book[m], a)
<1>0. v.book[m] \in Books
  BY DEF Vaults
<1>1. Rewritten(v, m, b, w)
  BY DEF PaidOut, Vaults, Books, Rewritten
<1>2. /\ b \in Books /\ b.backing = v.book[m].backing /\ b.refundable = v.book[m].refundable - a
      /\ b.redeemed = v.book[m].redeemed + a /\ b.shortfall = v.book[m].shortfall
      /\ b.lp_fees = v.book[m].lp_fees /\ b.protocol_fees = v.book[m].protocol_fees
      /\ b.cod_fees = v.book[m].cod_fees
  <2> DEFINE d == [v.book[m] EXCEPT !.redeemed = @ + a]
  <2>1. b = [d EXCEPT !.refundable = @ - a]
    BY <1>0 DEF Books, Paying
  <2>2. /\ d \in Books /\ d.backing = v.book[m].backing /\ d.refundable = v.book[m].refundable
        /\ d.redeemed = v.book[m].redeemed + a /\ d.shortfall = v.book[m].shortfall
        /\ d.lp_fees = v.book[m].lp_fees /\ d.protocol_fees = v.book[m].protocol_fees
        /\ d.cod_fees = v.book[m].cod_fees
    BY <1>0 DEF Books
  <2> HIDE DEF b, d
  <2> QED BY <2>1, <2>2 DEF Books
<1> HIDE DEF b
<1>3. BookTotal(b) - BookTotal(v.book[m]) = 0 - a
  BY <1>0, <1>2 DEF Books, BookTotal
<1>4. /\ w \in Vaults
      /\ w.book[m] = b
      /\ \A k \in Markets \ {m} : w.book[k] = v.book[k]
      /\ SameAccounts(v, w) /\ w.reserve = v.reserve
      /\ Worth(w) = Worth(v) + (BookTotal(b) - BookTotal(v.book[m]))
  BY <1>1, <1>2, BookWritten
<1> QED BY <1>2, <1>3, <1>4, WorthInt DEF Paid

\* The parts of a fee.
LEMMA FeePartsSum ==
    ASSUME NEW fee \in Nat
    PROVE  FeeParts(fee) \in FeeShares /\ FeesOf(FeeParts(fee)) = fee
<1> DEFINE x == bps(fee, LpFeeShareBps)
           y == bps(fee, TreasuryFeeShareBps)
<1>1. LpFeeShareBps \in Nat /\ TreasuryFeeShareBps \in Nat
      /\ LpFeeShareBps + TreasuryFeeShareBps <= 10000
  BY FeeAssumption DEF BPS_DENOMINATOR
<1>2. x \in Nat /\ y \in Nat
  BY <1>1, ShareBounds
<1>3. x * 10000 <= fee * LpFeeShareBps /\ y * 10000 <= fee * TreasuryFeeShareBps
  <2>1. fee * LpFeeShareBps \in Int /\ fee * TreasuryFeeShareBps \in Int
    BY <1>1
  <2> QED BY <2>1, DivBounds DEF bps, BPS_DENOMINATOR
<1>4. fee * (LpFeeShareBps + TreasuryFeeShareBps) <= fee * 10000
  <2> DEFINE t == LpFeeShareBps + TreasuryFeeShareBps
  <2>1. t \in Int /\ 0 <= t /\ t <= 10000
    BY <1>1
  <2> HIDE DEF t
  <2>2. fee * t <= fee * 10000
    BY <2>1, ProductMonotone
  <2> QED BY <2>2 DEF t
<1>5. fee * (LpFeeShareBps + TreasuryFeeShareBps)
        = fee * LpFeeShareBps + fee * TreasuryFeeShareBps
  BY <1>1
<1>6. x + y <= fee
  <2> HIDE DEF x, y
  <2>1. fee * LpFeeShareBps \in Int /\ fee * TreasuryFeeShareBps \in Int
    BY <1>1
  <2> QED BY <1>2, <1>3, <1>4, <1>5, <2>1
<1>7. FeeParts(fee) = [lp |-> x, treasury |-> y, cod |-> fee - x - y]
  BY DEF FeeParts
<1> HIDE DEF x, y
<1> QED BY <1>2, <1>6, <1>7 DEF FeeShares, FeesOf

-----------------------------------------------------------------------------
(* What debts have in common: who owes has a parent, and only markets that *)
(* lend are owed anything or fall short.                                   *)

BooksKept(v) ==
    \A m \in Markets :
        /\ v.book[m].refundable = v.book[m].backing - v.book[m].redeemed
        /\ m \notin Lenders => v.book[m].shortfall = 0

LoansKept(v) ==
    /\ \A a \in Accounts :
         /\ v.parent[a] # NoParent => v.parent[a] \in Lenders /\ v.parentOutcome[a] \in Sides
         /\ v.childDebt[a] # 0 => v.parent[a] # NoParent /\ a[1] \in Borrowers
    /\ \A k \in Positions : v.parentDebt[k] # 0 \/ v.used[k] # 0 => k[1] \in Lenders

\* Vault w is vault v after some debts were settled, `paid` of it with money.
Settles(v, w, paid) ==
    /\ w \in Vaults
    /\ w.carry = v.carry /\ w.stake = v.stake /\ w.children = v.children
    /\ w.parent = v.parent /\ w.parentOutcome = v.parentOutcome
    /\ \A k \in Positions : w.parentDebt[k] <= v.parentDebt[k] /\ w.used[k] <= v.used[k]
    /\ \A a \in Accounts : w.childDebt[a] <= v.childDebt[a]
    /\ \A m \in Markets :
         /\ m \notin Lenders => w.book[m] = v.book[m]
         /\ w.book[m].backing >= v.book[m].backing
         /\ w.book[m].refundable - v.book[m].refundable = w.book[m].backing - v.book[m].backing
         /\ w.book[m].redeemed = v.book[m].redeemed
         /\ w.book[m].lp_fees = v.book[m].lp_fees
    /\ Worth(w) = Worth(v) + paid

\* What the record of a vault holds.
LEMMA VaultFields ==
    ASSUME NEW v \in Vaults
    PROVE  /\ v.carry \in [Markets -> 0 .. 1] /\ v.reserve \in Nat
           /\ v.stake \in [Positions -> Nat] /\ v.used \in [Positions -> Nat]
           /\ v.parentDebt \in [Positions -> Nat] /\ v.children \in [Positions -> Seq(Markets)]
           /\ v.childDebt \in [Accounts -> Nat]
           /\ v.parent \in [Accounts -> Markets \cup {NoParent}]
           /\ v.parentOutcome \in [Accounts -> Outcomes]
           /\ v.book \in [Markets -> Books]
           /\ \A m \in Markets :
                /\ v.book[m] \in Books
                /\ v.book[m].backing \in Int /\ v.book[m].refundable \in Int
                /\ v.book[m].redeemed \in Nat /\ v.book[m].shortfall \in Nat
                /\ v.book[m].lp_fees \in Nat /\ v.book[m].protocol_fees \in Nat
                /\ v.book[m].cod_fees \in Nat
<1>1. v.book \in [Markets -> Books]
  BY DEF Vaults
<1>2. \A m \in Markets : v.book[m] \in Books
  BY <1>1
<1> QED BY <1>1, <1>2 DEF Vaults, Books

\* Leaving the vault alone settles nothing.
LEMMA SettlesNothing ==
    ASSUME NEW v \in Vaults
    PROVE  Settles(v, v, 0)
BY VaultFields, WorthInt DEF Settles

\* Settlements add up.
LEMMA SettlesTwice ==
    ASSUME NEW v \in Vaults, NEW w, NEW x, NEW a \in Int, NEW b \in Int,
           Settles(v, w, a), Settles(w, x, b)
    PROVE  Settles(v, x, a + b)
<1>1. w \in Vaults /\ x \in Vaults
  BY DEF Settles
<1>2. Worth(x) = Worth(v) + (a + b)
  BY <1>1, WorthInt DEF Settles
<1>3. \A k \in Positions : x.parentDebt[k] <= v.parentDebt[k] /\ x.used[k] <= v.used[k]
    <2> SUFFICES ASSUME NEW k \in Positions
                 PROVE  x.parentDebt[k] <= v.parentDebt[k] /\ x.used[k] <= v.used[k]
      OBVIOUS
    <2>1. /\ v.parentDebt[k] \in Nat /\ w.parentDebt[k] \in Nat /\ x.parentDebt[k] \in Nat
          /\ v.used[k] \in Nat /\ w.used[k] \in Nat /\ x.used[k] \in Nat
      BY <1>1, VaultFields
    <2> QED BY <2>1 DEF Settles
<1>4. \A k \in Accounts : x.childDebt[k] <= v.childDebt[k]
    <2> SUFFICES ASSUME NEW k \in Accounts PROVE x.childDebt[k] <= v.childDebt[k]
      OBVIOUS
    <2>1. v.childDebt[k] \in Nat /\ w.childDebt[k] \in Nat /\ x.childDebt[k] \in Nat
      BY <1>1, VaultFields
    <2> QED BY <2>1 DEF Settles
<1>5. \A m \in Markets :
         /\ m \notin Lenders => x.book[m] = v.book[m]
         /\ x.book[m].backing >= v.book[m].backing
         /\ x.book[m].refundable - v.book[m].refundable = x.book[m].backing - v.book[m].backing
         /\ x.book[m].redeemed = v.book[m].redeemed
         /\ x.book[m].lp_fees = v.book[m].lp_fees
    <2> SUFFICES ASSUME NEW m \in Markets
                 PROVE /\ m \notin Lenders => x.book[m] = v.book[m]
                       /\ x.book[m].backing >= v.book[m].backing
                       /\ x.book[m].refundable - v.book[m].refundable
                            = x.book[m].backing - v.book[m].backing
                       /\ x.book[m].redeemed = v.book[m].redeemed
                       /\ x.book[m].lp_fees = v.book[m].lp_fees
      OBVIOUS
    <2>1. /\ v.book[m].backing \in Int /\ w.book[m].backing \in Int /\ x.book[m].backing \in Int
          /\ v.book[m].refundable \in Int /\ w.book[m].refundable \in Int
          /\ x.book[m].refundable \in Int
      BY <1>1, VaultFields
    <2> QED BY <2>1 DEF Settles
<1> QED BY <1>1, <1>2, <1>3, <1>4, <1>5 DEF Settles

\* A settlement keeps the books and the loans well-formed.
LEMMA SettledIsKept ==
    ASSUME NEW v \in Vaults, NEW w, NEW paid, Settles(v, w, paid), BooksKept(v), LoansKept(v)
    PROVE  BooksKept(w) /\ LoansKept(w)
<1>1. w \in Vaults
  BY DEF Settles
<1>2. BooksKept(w)
    <2> SUFFICES ASSUME NEW m \in Markets
                 PROVE /\ w.book[m].refundable = w.book[m].backing - w.book[m].redeemed
                       /\ m \notin Lenders => w.book[m].shortfall = 0
      BY DEF BooksKept
    <2>1. /\ v.book[m].backing \in Int /\ w.book[m].backing \in Int
          /\ v.book[m].refundable \in Int /\ w.book[m].refundable \in Int
          /\ v.book[m].redeemed \in Nat
      BY <1>1, VaultFields
    <2> QED BY <2>1 DEF Settles, BooksKept
<1>3. LoansKept(w)
  <2>1. ASSUME NEW a \in Accounts
        PROVE  /\ w.parent[a] # NoParent => w.parent[a] \in Lenders /\ w.parentOutcome[a] \in Sides
               /\ w.childDebt[a] # 0 => w.parent[a] # NoParent /\ a[1] \in Borrowers
    <3>1. v.childDebt[a] \in Nat /\ w.childDebt[a] \in Nat
      BY <1>1, VaultFields
    <3> QED BY <3>1 DEF Settles, LoansKept
  <2>2. ASSUME NEW k \in Positions, w.parentDebt[k] # 0 \/ w.used[k] # 0
        PROVE  k[1] \in Lenders
    <3>1. /\ v.parentDebt[k] \in Nat /\ w.parentDebt[k] \in Nat
          /\ v.used[k] \in Nat /\ w.used[k] \in Nat
      BY <1>1, VaultFields
    <3> QED BY <2>2, <3>1 DEF Settles, LoansKept
  <2> QED BY <2>1, <2>2 DEF LoansKept
<1> QED BY <1>2, <1>3

-----------------------------------------------------------------------------
(* The settlement of a child's debt. *)

\* The worth of a vault is that of its books and its reserve.
LEMMA WorthSame ==
    ASSUME NEW v, NEW w, w.book = v.book, w.reserve = v.reserve
    PROVE  Worth(w) = Worth(v)
BY DEF Worth

\* A saturating subtraction stays between zero and what there was.
LEMMA SpendBounds ==
    ASSUME NEW a \in Nat, NEW b \in Nat
    PROVE  Spend(a, b) \in Nat /\ Spend(a, b) <= a
BY DEF Spend, Least

\* A vault in which debts were written down.
WithDebts(v, cd, pd, us) == [v EXCEPT !.childDebt = cd, !.parentDebt = pd, !.used = us]

\* Debts that are only written down move no money.
LEMMA DebtsWritten ==
    ASSUME NEW v \in Vaults, NEW cd \in [Accounts -> Nat], NEW pd \in [Positions -> Nat],
           NEW us \in [Positions -> Nat], NEW w,
           w = WithDebts(v, cd, pd, us),
           \A a \in Accounts : cd[a] <= v.childDebt[a],
           \A k \in Positions : pd[k] <= v.parentDebt[k] /\ us[k] <= v.used[k]
    PROVE  /\ Settles(v, w, 0) /\ w.book = v.book /\ w.reserve = v.reserve
           /\ w.childDebt = cd /\ w.parentDebt = pd /\ w.used = us
<1> DEFINE x == [v EXCEPT !.childDebt = cd]
           y == [x EXCEPT !.parentDebt = pd]
<1>1. /\ x \in Vaults /\ x.book = v.book /\ x.reserve = v.reserve /\ x.carry = v.carry
      /\ x.stake = v.stake /\ x.children = v.children /\ x.parent = v.parent
      /\ x.parentOutcome = v.parentOutcome /\ x.childDebt = cd
      /\ x.parentDebt = v.parentDebt /\ x.used = v.used
  BY DEF Vaults
<1>2. w = [y EXCEPT !.used = us]
  BY <1>1 DEF Vaults, WithDebts
<1> HIDE DEF x
<1>3. /\ y \in Vaults /\ y.book = v.book /\ y.reserve = v.reserve /\ y.carry = v.carry
      /\ y.stake = v.stake /\ y.children = v.children /\ y.parent = v.parent
      /\ y.parentOutcome = v.parentOutcome /\ y.childDebt = cd
      /\ y.parentDebt = pd /\ y.used = v.used
  BY <1>1 DEF Vaults
<1> HIDE DEF y
<1>4. /\ w \in Vaults /\ w.book = v.book /\ w.reserve = v.reserve /\ w.carry = v.carry
      /\ w.stake = v.stake /\ w.children = v.children /\ w.parent = v.parent
      /\ w.parentOutcome = v.parentOutcome /\ w.childDebt = cd
      /\ w.parentDebt = pd /\ w.used = us
  BY <1>2, <1>3 DEF Vaults
<1>5. Worth(w) = Worth(v) + 0
  <2>1. Worth(w) = Worth(v)
    BY <1>4, WorthSame, Zenon
  <2> QED BY <2>1, WorthInt
<1>6. \A m \in Markets : v.book[m].backing \in Int /\ v.book[m].refundable \in Int
  BY VaultFields
<1> QED BY <1>4, <1>5, <1>6 DEF Settles

\* What a credit to the book of a market that lends settles.
LEMMA CreditSettles ==
    ASSUME NEW v \in Vaults, NEW p \in Lenders, NEW a \in Nat, NEW w, w = Credited(v, p, a)
    PROVE  Settles(v, w, a) /\ SameAccounts(v, w) /\ w.reserve = v.reserve
<1>1. p \in Markets
  BY LinesInMarkets
<1>2. /\ w \in Vaults
      /\ Backed(v.book[p], w.book[p], a)
      /\ \A k \in Markets \ {p} : w.book[k] = v.book[k]
      /\ SameAccounts(v, w) /\ w.reserve = v.reserve
      /\ Worth(w) = Worth(v) + a
  BY <1>1, CreditedBook
<1>3. ASSUME NEW m \in Markets
      PROVE  /\ m \notin Lenders => w.book[m] = v.book[m]
             /\ w.book[m].backing >= v.book[m].backing
             /\ w.book[m].refundable - v.book[m].refundable
                  = w.book[m].backing - v.book[m].backing
             /\ w.book[m].redeemed = v.book[m].redeemed
             /\ w.book[m].lp_fees = v.book[m].lp_fees
  <2>1. v.book[m].backing \in Int /\ v.book[m].refundable \in Int
    BY VaultFields
  <2>2. CASE m = p
    BY <1>2, <2>1, <2>2 DEF Backed
  <2>3. CASE m # p
    BY <1>2, <2>1, <2>3
  <2> QED BY <2>2, <2>3
<1>4. \A k \in Positions : w.parentDebt[k] <= v.parentDebt[k] /\ w.used[k] <= v.used[k]
  BY <1>2, VaultFields DEF SameAccounts, SameLoans
<1>5. \A k \in Accounts : w.childDebt[k] <= v.childDebt[k]
  BY <1>2, VaultFields DEF SameAccounts, SameLoans
<1> QED BY <1>2, <1>3, <1>4, <1>5 DEF Settles, SameAccounts, SameLoans

\* settle_child_debt settles a debt with what it says it applied.
LEMMA DebtSettled ==
    ASSUME NEW v \in Vaults, LoansKept(v), NEW c \in Markets, NEW u \in Traders,
           NEW repayment \in Nat, NEW s, s = settle_child_debt(v, c, u, repayment)
    PROVE  /\ Settles(v, s.vault, s.applied)
           /\ s.applied \in Nat /\ s.applied <= repayment
           /\ s.applied <= v.childDebt[<<c, u>>]
<1> DEFINE a        == <<c, u>>
           debt     == v.childDebt[a]
           p        == v.parent[a]
           key      == <<p, u, v.parentOutcome[a]>>
           upstream == v.parentDebt[key]
           applied  == Least(repayment, Least(debt, upstream))
           paid     == [v EXCEPT !.childDebt[a] = @ - applied, !.parentDebt[key] = @ - applied,
                                 !.used[key] = Spend(@, applied)]
<1>1. a \in Accounts /\ debt \in Nat
  BY VaultFields DEF Accounts
<1>2. CASE repayment <= 0 \/ debt = 0
  <2>1. s = [vault |-> v, applied |-> 0]
    BY <1>2 DEF settle_child_debt
  <2> QED BY <1>1, <2>1, SettlesNothing
<1>3. CASE repayment > 0 /\ debt # 0
  <2>1. p \in Lenders /\ v.parentOutcome[a] \in Sides /\ key \in Positions /\ upstream \in Nat
    <3>1. p \in Lenders /\ v.parentOutcome[a] \in Sides
      BY <1>1, <1>3 DEF LoansKept
    <3>2. key \in Positions
      BY <3>1, LinesInMarkets DEF Positions
    <3> QED BY <3>1, <3>2, VaultFields
  <2>2. CASE upstream = 0
    <3> DEFINE cd == [v.childDebt EXCEPT ![a] = 0]
               w  == WithDebts(v, cd, v.parentDebt, v.used)
    <3>1. s = [vault |-> [v EXCEPT !.childDebt[a] = 0], applied |-> 0]
      BY <1>3, <2>2 DEF settle_child_debt
    <3>2. w = [v EXCEPT !.childDebt[a] = 0]
      BY DEF Vaults, WithDebts
    <3>3. cd \in [Accounts -> Nat] /\ \A b \in Accounts : cd[b] <= v.childDebt[b]
      <4>1. v.childDebt \in [Accounts -> Nat]
        BY VaultFields
      <4> QED BY <1>1, <4>1
    <3>4. Settles(v, w, 0)
      <4> HIDE DEF cd
      <4>1. /\ v.parentDebt \in [Positions -> Nat] /\ v.used \in [Positions -> Nat]
            /\ \A k \in Positions : v.parentDebt[k] <= v.parentDebt[k] /\ v.used[k] <= v.used[k]
        BY VaultFields
      <4> QED BY <3>3, <4>1, DebtsWritten
    <3> QED BY <1>1, <3>1, <3>2, <3>4
  <2>3. CASE upstream # 0
    <3>1. s = [vault |-> Credited(paid, p, applied), applied |-> applied]
      BY <1>3, <2>3 DEF settle_child_debt
    <3>2. applied \in Nat /\ applied <= repayment /\ applied <= debt /\ applied <= upstream
      BY <1>1, <2>1 DEF Least
    <3> DEFINE cd == [v.childDebt EXCEPT ![a] = @ - applied]
               pd == [v.parentDebt EXCEPT ![key] = @ - applied]
               us == [v.used EXCEPT ![key] = Spend(@, applied)]
    <3>3. paid = WithDebts(v, cd, pd, us)
      BY DEF Vaults, WithDebts
    <3>4. /\ cd \in [Accounts -> Nat] /\ \A b \in Accounts : cd[b] <= v.childDebt[b]
          /\ pd \in [Positions -> Nat] /\ us \in [Positions -> Nat]
          /\ \A k \in Positions : pd[k] <= v.parentDebt[k] /\ us[k] <= v.used[k]
      <4>1. /\ v.childDebt \in [Accounts -> Nat] /\ v.parentDebt \in [Positions -> Nat]
            /\ v.used \in [Positions -> Nat]
        BY VaultFields
      <4>2. key \in Positions /\ a \in Accounts
        BY <1>1, <2>1
      <4> HIDE DEF applied, key, a
      <4>3. cd \in [Accounts -> Nat] /\ \A b \in Accounts : cd[b] <= v.childDebt[b]
        BY <3>2, <4>1, <4>2
      <4>4. pd \in [Positions -> Nat] /\ \A k \in Positions : pd[k] <= v.parentDebt[k]
        BY <3>2, <4>1, <4>2
      <4>5. us \in [Positions -> Nat] /\ \A k \in Positions : us[k] <= v.used[k]
        <5>1. v.used[key] \in Nat
          BY <4>1, <4>2
        <5>2. Spend(v.used[key], applied) \in Nat /\ Spend(v.used[key], applied) <= v.used[key]
          BY <3>2, <5>1, SpendBounds
        <5> QED BY <4>1, <4>2, <5>2
      <4> QED BY <4>3, <4>4, <4>5
    <3>5. Settles(v, paid, 0)
      <4> HIDE DEF cd, pd, us, paid
      <4> QED BY <3>3, <3>4, DebtsWritten
    <3>6. Settles(paid, Credited(paid, p, applied), applied)
      <4> HIDE DEF paid, p, applied
      <4>1. paid \in Vaults
        BY <3>5 DEF Settles
      <4> QED BY <2>1, <3>2, <4>1, CreditSettles
    <3>7. Settles(v, Credited(paid, p, applied), 0 + applied)
      <4> HIDE DEF paid, p, applied
      <4> QED BY <3>2, <3>5, <3>6, SettlesTwice
    <3>8. 0 + applied = applied
      BY <3>2
    <3> HIDE DEF paid, p, applied
    <3> QED BY <3>1, <3>2, <3>7, <3>8
  <2> QED BY <2>2, <2>3
<1> QED BY <1>1, <1>2, <1>3

-----------------------------------------------------------------------------
(* The loops over the children of a position.  A step of either loop:      *)

Stepped(loop, acc, c, u, key) ==
    IF loop = "clear" THEN Cleared(acc, c, u, key) ELSE SettledNext(acc, c, u)

Looping(loop, base, seq, u, key, D, g) ==
    g = [s \in D |-> IF s = {} THEN base
                     ELSE Stepped(loop, g[s \ {Max(s)}], seq[Max(s)], u, key)]

\* A nonempty set of positions of a sequence has a last one.
LEMMA MaxIsMember ==
    ASSUME NEW n \in Nat, NEW s \in SUBSET (1 .. n), s # {}
    PROVE  Max(s) \in s
<1> DEFINE T == {n - x : x \in s}
<1>0. \A x \in s : x \in Nat /\ x <= n /\ n - x \in Nat
  OBVIOUS
<1>1. T \in SUBSET Nat /\ T # {}
  <2>1. \A r \in T : r \in Nat
    BY <1>0
  <2> QED BY <2>1
<1>2. PICK t \in T : \A r \in T : t <= r
  BY <1>1, LeastMember
<1>3. PICK x \in s : t = n - x
  BY <1>2
<1>4. ASSUME NEW y \in s PROVE x >= y
  <2>1. n - x <= n - y
    BY <1>2, <1>3
  <2> QED BY <1>0, <2>1
<1> QED BY <1>3, <1>4 DEF Max

\* The loop is a function on the sets of positions.
LEMMA LoopExists ==
    ASSUME NEW loop, NEW base, NEW seq, NEW u, NEW key, NEW n \in Nat
    PROVE  \E g : Looping(loop, base, seq, u, key, SUBSET (1 .. n), g)
<1> DEFINE S == 1 .. n
           D(k) == {s \in SUBSET S : Cardinality(s) <= k}
           Is(k, g) == Looping(loop, base, seq, u, key, D(k), g)
           Bad == {k \in Nat : ~ \E g : Is(k, g)}
<1>0. IsFiniteSet(S) /\ \A s \in SUBSET S : IsFiniteSet(s) /\ Cardinality(s) \in Nat
  <2>1. IsFiniteSet(S) BY FS_Interval
  <2> QED BY <2>1, FS_Subset, FS_CardinalityType, Zenon
<1>1. \A s \in SUBSET S : s # {} => Max(s) \in s
  BY MaxIsMember
<1> HIDE DEF S
<1>2. 0 \notin Bad
  <2>1. \A s \in D(0) : s = {}
    <3> SUFFICES ASSUME NEW s \in D(0) PROVE s = {}
      OBVIOUS
    <3>1. IsFiniteSet(s) /\ Cardinality(s) = 0
      BY <1>0
    <3> QED BY <3>1, FS_EmptySet, Zenon
  <2>2. Is(0, [s \in D(0) |-> base])
    BY <2>1 DEF Looping
  <2> QED BY <2>2
<1>3. ASSUME NEW k \in Nat, k \in Bad, k # 0, k - 1 \notin Bad
      PROVE  FALSE
  <2>1. PICK g : Is(k - 1, g)
    <3>1. k - 1 \in Nat
      BY <1>3
    <3> HIDE DEF Is
    <3> QED BY <1>3, <3>1, Zenon
  <2> DEFINE h == [s \in D(k) |-> IF s = {} THEN base
                                  ELSE Stepped(loop, g[s \ {Max(s)}], seq[Max(s)], u, key)]
  <2>2. \A s \in D(k - 1) : s \in D(k) /\ h[s] = g[s]
    <3>1. ASSUME NEW s \in D(k - 1) PROVE s \in D(k)
      BY <1>0
    <3>2. ASSUME NEW s \in D(k - 1) PROVE h[s] = g[s]
      <4>1. g[s] = IF s = {} THEN base ELSE Stepped(loop, g[s \ {Max(s)}], seq[Max(s)], u, key)
        BY <2>1, Zenon DEF Looping
      <4> QED BY <3>1, <4>1, Zenon
    <3> QED BY <3>1, <3>2
  <2>3. ASSUME NEW s \in D(k), s # {}
        PROVE  s \ {Max(s)} \in D(k - 1)
    <3>1. Max(s) \in s
      BY <1>1, <2>3
    <3>2. Cardinality(s \ {Max(s)}) = Cardinality(s) - 1
      BY <1>0, <3>1, FS_RemoveElement
    <3> QED BY <1>0, <3>2
  <2>4. \A s \in D(k) : h[s] = IF s = {} THEN base
                               ELSE Stepped(loop, h[s \ {Max(s)}], seq[Max(s)], u, key)
    <3> SUFFICES ASSUME NEW s \in D(k)
                 PROVE  h[s] = IF s = {} THEN base
                               ELSE Stepped(loop, h[s \ {Max(s)}], seq[Max(s)], u, key)
      OBVIOUS
    <3> HIDE DEF D
    <3>1. CASE s = {} BY <3>1
    <3>2. CASE s # {}
      <4>1. h[s \ {Max(s)}] = g[s \ {Max(s)}]
        BY <2>2, <2>3, <3>2, Zenon
      <4>2. h[s] = Stepped(loop, g[s \ {Max(s)}], seq[Max(s)], u, key)
        BY <3>2
      <4> QED BY <3>2, <4>1, <4>2, Zenon
    <3> QED BY <3>1, <3>2
  <2>5. Is(k, h)
    <3> HIDE DEF D
    <3>1. h = [s \in D(k) |-> h[s]]
      OBVIOUS
    <3> DEFINE r == [s \in D(k) |-> IF s = {} THEN base
                                    ELSE Stepped(loop, h[s \ {Max(s)}], seq[Max(s)], u, key)]
    <3>2. \A s \in D(k) : h[s] = r[s]
      BY <2>4, Zenon
    <3>3. h = r
      <4> HIDE DEF r, h
      <4>1. r = [s \in D(k) |-> r[s]] BY DEF r
      <4> QED BY <3>1, <3>2, <4>1
    <3> QED BY <3>3, Zenon DEF Looping
  <2> QED BY <1>3, <2>5
<1>4. Bad = {}
  <2> SUFFICES ASSUME Bad # {} PROVE FALSE
    OBVIOUS
  <2>1. PICK k \in Bad : \A m \in Bad : k <= m
    <3> HIDE DEF Bad
    <3> Bad \in SUBSET Nat BY DEF Bad
    <3> QED BY LeastMember
  <2> HIDE DEF Bad
  <2>2. k \in Nat BY DEF Bad
  <2>3. k # 0 BY <1>2
  <2>4. k - 1 \notin Bad BY <2>1, <2>2
  <2> QED BY <1>3, <2>2, <2>3, <2>4
<1>5. D(Cardinality(S)) = SUBSET S
  <2>1. \A s \in SUBSET S : Cardinality(s) <= Cardinality(S)
    BY <1>0, FS_Subset, Zenon
  <2> QED BY <2>1
<1>6. Cardinality(S) \in Nat
  BY <1>0, FS_CardinalityType
<1> QED
  <2>1. \E g : Is(Cardinality(S), g)
    <3> HIDE DEF Is
    <3> QED BY <1>4, <1>6
  <2> HIDE DEF D
  <2> QED BY <1>5, <2>1 DEF S

\* What a loop returns, if every step keeps a set of partial results.
LEMMA LoopStays ==
    ASSUME NEW loop, NEW base, NEW seq, NEW u, NEW key, NEW n \in Nat, NEW g,
           Looping(loop, base, seq, u, key, SUBSET (1 .. n), g),
           NEW W \in SUBSET (SUBSET (1 .. n)),
           {} \in W,
           \A s \in SUBSET (1 .. n) : s # {} /\ s \ {Max(s)} \in W => s \in W
    PROVE  (1 .. n) \in W
<1>1. IsFiniteSet(1 .. n)
  BY FS_Interval
<1>2. ASSUME NEW U \in SUBSET (1 .. n), \A x \in U : U \ {x} \in W
      PROVE  U \in W
  <2>1. CASE U = {} BY <2>1
  <2>2. CASE U # {}
    <3>1. Max(U) \in U BY <2>2, MaxIsMember
    <3> QED BY <1>2, <2>2, <3>1
  <2> QED BY <2>1, <2>2
<1> QED BY <1>1, <1>2, BySubsets

\* The loops of the vault are such functions.
ClearAll(base, seq, u, key) == FoldLeft(LAMBDA acc, c : Cleared(acc, c, u, key), base, seq)
SettleAll(base, seq, u) == FoldLeft(LAMBDA acc, c : SettledNext(acc, c, u), base, seq)

Clears(base, seq, u, key, n, g) ==
    /\ Looping("clear", base, seq, u, key, SUBSET (1 .. n), g)
    /\ ClearAll(base, seq, u, key) = g[1 .. n]

SettlesBy(base, seq, u, n, g) ==
    /\ Looping("settle", base, seq, u, u, SUBSET (1 .. n), g)
    /\ SettleAll(base, seq, u) = g[1 .. n]

\* The loop of resolve_parent_default over the children.
LEMMA ClearingLoop ==
    ASSUME NEW base, NEW seq, NEW u, NEW key, NEW n \in Nat, DOMAIN seq = 1 .. n
    PROVE  \E g : Clears(base, seq, u, key, n, g)
<1> DEFINE Is(g) == g = [s \in SUBSET DOMAIN seq |->
                          IF s = {} THEN base
                          ELSE Cleared(g[s \ {Max(s)}], seq[Max(s)], u, key)]
<1>1. ClearAll(base, seq, u, key) = (CHOOSE g : Is(g))[DOMAIN seq]
  BY DEF ClearAll, FoldLeft, MapThenFoldSet
<1>2. \A g : Looping("clear", base, seq, u, key, SUBSET DOMAIN seq, g) <=> Is(g)
  BY DEF Looping, Stepped
<1>3. \E g : Is(g)
  <2> HIDE DEF Is
  <2> QED BY <1>2, LoopExists
<1>4. Is(CHOOSE g : Is(g))
  <2> HIDE DEF Is
  <2> QED BY <1>3, Zenon
<1> HIDE DEF Is
<1> QED BY <1>1, <1>2, <1>4 DEF Clears

\* The loop of liquidate_release over the children.
LEMMA SettlingLoop ==
    ASSUME NEW base, NEW seq, NEW u, NEW n \in Nat, DOMAIN seq = 1 .. n
    PROVE  \E g : SettlesBy(base, seq, u, n, g)
<1> DEFINE Is(g) == g = [s \in SUBSET DOMAIN seq |->
                          IF s = {} THEN base
                          ELSE SettledNext(g[s \ {Max(s)}], seq[Max(s)], u)]
<1>1. SettleAll(base, seq, u) = (CHOOSE g : Is(g))[DOMAIN seq]
  BY DEF SettleAll, FoldLeft, MapThenFoldSet
<1>2. \A g : Looping("settle", base, seq, u, u, SUBSET DOMAIN seq, g) <=> Is(g)
  BY DEF Looping, Stepped
<1>3. \E g : Is(g)
  <2> HIDE DEF Is
  <2> QED BY <1>2, LoopExists
<1>4. Is(CHOOSE g : Is(g))
  <2> HIDE DEF Is
  <2> QED BY <1>3, Zenon
<1> HIDE DEF Is
<1> QED BY <1>1, <1>2, <1>4 DEF SettlesBy

-----------------------------------------------------------------------------
(* Defaults. *)

\* What a default books before the children are cleared.
LEMMA DefaultBooked ==
    ASSUME NEW v \in Vaults, NEW p \in Lenders, NEW key \in Positions, NEW total \in Nat,
           NEW w, w = Defaulted(v, p, key, total)
    PROVE  /\ Settles(v, w, 0)
           /\ w.parentDebt = [v.parentDebt EXCEPT ![key] = 0]
           /\ w.childDebt = v.childDebt /\ w.used = v.used
           /\ \A m \in Markets \ {p} : w.book[m] = v.book[m]
           /\ w.book[p].backing + w.book[p].shortfall
                = v.book[p].backing + v.book[p].shortfall + total
<1> DEFINE draw == Least(total, v.reserve)
           x == Credited(v, p, draw)
           b == Short(x.book[p], total - draw)
<1>1. p \in Markets
  BY LinesInMarkets
<1>2. v.reserve \in Nat /\ draw \in Nat /\ draw <= total /\ draw <= v.reserve
  BY VaultFields DEF Least
<1>3. /\ x \in Vaults
      /\ Backed(v.book[p], x.book[p], draw)
      /\ \A k \in Markets \ {p} : x.book[k] = v.book[k]
      /\ SameAccounts(v, x) /\ x.reserve = v.reserve
  <2>1. x = Credited(v, p, draw) /\ draw \in Int
    BY <1>2
  <2> HIDE DEF x, draw, b
  <2> QED BY <1>1, <2>1, CreditedBook
<1>4. w = [x EXCEPT !.reserve = @ - draw, !.book[p] = b, !.parentDebt[key] = 0]
  BY DEF Defaulted
<1> HIDE DEF x, draw
<1>5. /\ b \in Books /\ b.backing = x.book[p].backing /\ b.refundable = x.book[p].refundable
      /\ b.redeemed = x.book[p].redeemed /\ b.shortfall = x.book[p].shortfall + (total - draw)
      /\ b.lp_fees = x.book[p].lp_fees /\ b.protocol_fees = x.book[p].protocol_fees
      /\ b.cod_fees = x.book[p].cod_fees
  <2>1. x.book[p] \in Books /\ total - draw \in Nat
    BY <1>1, <1>2, <1>3 DEF Vaults
  <2> QED BY <2>1 DEF Books, Short
<1> HIDE DEF b
<1>6. /\ w \in Vaults /\ w.reserve = x.reserve - draw /\ w.book = [x.book EXCEPT ![p] = b]
      /\ w.parentDebt = [x.parentDebt EXCEPT ![key] = 0] /\ w.used = x.used
      /\ w.childDebt = x.childDebt /\ w.carry = x.carry /\ w.stake = x.stake
      /\ w.children = x.children /\ w.parent = x.parent /\ w.parentOutcome = x.parentOutcome
  <2> DEFINE y == [x EXCEPT !.reserve = @ - draw]
             z == [y EXCEPT !.book[p] = b]
  <2>1. x.reserve \in Nat /\ x.reserve - draw \in Nat
    BY <1>2, <1>3
  <2>2. /\ y \in Vaults /\ y.reserve = x.reserve - draw /\ y.book = x.book
        /\ y.parentDebt = x.parentDebt /\ y.used = x.used
        /\ y.childDebt = x.childDebt /\ y.carry = x.carry /\ y.stake = x.stake
        /\ y.children = x.children /\ y.parent = x.parent /\ y.parentOutcome = x.parentOutcome
    BY <1>3, <2>1 DEF Vaults
  <2>3. w = [z EXCEPT !.parentDebt[key] = 0]
    BY <1>3, <1>4 DEF Vaults
  <2> HIDE DEF y
  <2>4. /\ z \in Vaults /\ z.reserve = y.reserve /\ z.book = [y.book EXCEPT ![p] = b]
        /\ z.parentDebt = y.parentDebt /\ z.used = y.used
        /\ z.childDebt = y.childDebt /\ z.carry = y.carry /\ z.stake = y.stake
        /\ z.children = y.children /\ z.parent = y.parent /\ z.parentOutcome = y.parentOutcome
    BY <1>1, <1>5, <2>2 DEF Vaults
  <2> HIDE DEF z
  <2>5. /\ w \in Vaults /\ w.reserve = z.reserve /\ w.book = z.book
        /\ w.parentDebt = [z.parentDebt EXCEPT ![key] = 0] /\ w.used = z.used
        /\ w.childDebt = z.childDebt /\ w.carry = z.carry /\ w.stake = z.stake
        /\ w.children = z.children /\ w.parent = z.parent /\ w.parentOutcome = z.parentOutcome
    <3> DEFINE pd == [z.parentDebt EXCEPT ![key] = 0]
    <3>1. pd \in [Positions -> Nat]
      <4>1. z.parentDebt \in [Positions -> Nat]
        BY <2>4, VaultFields
      <4> QED BY <4>1
    <3>2. w = [z EXCEPT !.parentDebt = pd]
      BY <2>3
    <3> HIDE DEF pd
    <3>3. /\ w \in Vaults /\ w.reserve = z.reserve /\ w.book = z.book
          /\ w.parentDebt = pd /\ w.used = z.used
          /\ w.childDebt = z.childDebt /\ w.carry = z.carry /\ w.stake = z.stake
          /\ w.children = z.children /\ w.parent = z.parent
          /\ w.parentOutcome = z.parentOutcome
      BY <2>4, <3>1, <3>2 DEF Vaults
    <3> QED BY <3>3 DEF pd
  <2> QED BY <2>2, <2>4, <2>5
<1>7. /\ w.book[p] = b
      /\ \A k \in Markets \ {p} : w.book[k] = v.book[k]
  <2>1. x.book \in [Markets -> Books]
    BY <1>3 DEF Vaults
  <2> QED BY <1>1, <1>3, <1>6, <2>1
<1>8. /\ v.book[p] \in Books /\ x.book[p] \in Books
  BY <1>1, <1>3 DEF Vaults
<1>9. Worth(w) = Worth(v) + 0
  <2>1. Worth(w) = Worth(v) + (BookTotal(w.book[p]) - BookTotal(v.book[p]))
                            + (w.reserve - v.reserve)
    BY <1>1, <1>6, <1>7, WorthChange
  <2>2. BookTotal(w.book[p]) - BookTotal(v.book[p]) = draw
    BY <1>2, <1>3, <1>5, <1>7, <1>8 DEF BookTotal, Backed, Books
  <2>3. w.reserve - v.reserve = 0 - draw
    BY <1>2, <1>3, <1>6
  <2> QED BY <1>2, <2>1, <2>2, <2>3, WorthInt
<1>10. ASSUME NEW m \in Markets
       PROVE  /\ m \notin Lenders => w.book[m] = v.book[m]
              /\ w.book[m].backing >= v.book[m].backing
              /\ w.book[m].refundable - v.book[m].refundable
                   = w.book[m].backing - v.book[m].backing
              /\ w.book[m].redeemed = v.book[m].redeemed
              /\ w.book[m].lp_fees = v.book[m].lp_fees
  <2>1. v.book[m].backing \in Int /\ v.book[m].refundable \in Int
    BY VaultFields
  <2>2. CASE m = p
    BY <1>2, <1>3, <1>5, <1>7, <2>1, <2>2 DEF Backed
  <2>3. CASE m # p
    BY <1>7, <2>1, <2>3
  <2> QED BY <2>2, <2>3
<1>11. v.parentDebt \in [Positions -> Nat] /\ v.used \in [Positions -> Nat]
       /\ v.childDebt \in [Accounts -> Nat]
  BY VaultFields
<1>12. /\ w.parentDebt = [v.parentDebt EXCEPT ![key] = 0]
       /\ w.childDebt = v.childDebt /\ w.used = v.used
       /\ w.carry = v.carry /\ w.stake = v.stake /\ w.children = v.children
       /\ w.parent = v.parent /\ w.parentOutcome = v.parentOutcome
  BY <1>3, <1>6 DEF SameAccounts, SameLoans
<1>13. w.book[p].backing + w.book[p].shortfall = v.book[p].backing + v.book[p].shortfall + total
  BY <1>2, <1>3, <1>5, <1>7, <1>8 DEF Backed, Books
<1>14. Settles(v, w, 0)
  BY <1>6, <1>9, <1>10, <1>11, <1>12 DEF Settles
<1> QED BY <1>7, <1>12, <1>13, <1>14

\* One turn of the clearing loop.
LEMMA ClearStep ==
    ASSUME NEW acc, acc.vault \in Vaults, acc.remaining \in Nat, NEW c \in Markets,
           NEW u \in Traders, NEW key \in Positions, NEW r, r = Cleared(acc, c, u, key)
    PROVE  /\ r.remaining \in Nat /\ Settles(acc.vault, r.vault, 0)
           /\ r.vault.book = acc.vault.book /\ r.vault.parentDebt = acc.vault.parentDebt
<1> DEFINE a == <<c, u>>
           v == acc.vault
           x == Least(v.childDebt[a], acc.remaining)
           cd == [v.childDebt EXCEPT ![a] = @ - x]
           us == [v.used EXCEPT ![key] = Spend(@, x)]
           w == WithDebts(v, cd, v.parentDebt, us)
<1>1. /\ v.childDebt \in [Accounts -> Nat] /\ v.parentDebt \in [Positions -> Nat]
      /\ v.used \in [Positions -> Nat] /\ a \in Accounts
  BY VaultFields DEF Accounts
<1>2. x \in Nat /\ x <= v.childDebt[a] /\ x <= acc.remaining
  BY <1>1 DEF Least
<1>3. r.remaining = acc.remaining - x /\ r.vault = w
  BY DEF Cleared, WithDebts, Vaults
<1> HIDE DEF x, a
<1>4. cd \in [Accounts -> Nat] /\ \A b \in Accounts : cd[b] <= v.childDebt[b]
  BY <1>1, <1>2
<1>5. us \in [Positions -> Nat] /\ \A k \in Positions : us[k] <= v.used[k]
  <2>1. v.used[key] \in Nat
    BY <1>1
  <2>2. Spend(v.used[key], x) \in Nat /\ Spend(v.used[key], x) <= v.used[key]
    BY <1>2, <2>1, SpendBounds
  <2> QED BY <1>1, <2>2
<1>6. Settles(v, w, 0) /\ w.book = v.book /\ w.parentDebt = v.parentDebt
  <2> HIDE DEF cd, us
  <2>1. \A k \in Positions : v.parentDebt[k] <= v.parentDebt[k] /\ us[k] <= v.used[k]
    BY <1>1, <1>5
  <2> QED BY <1>1, <1>4, <1>5, <2>1, DebtsWritten
<1> HIDE DEF w
<1> QED BY <1>2, <1>3, <1>6

\* The clearing of all children's debts on a position.
LEMMA ChildrenCleared ==
    ASSUME NEW v \in Vaults, NEW total \in Nat, NEW u \in Traders, NEW key \in Positions,
           NEW seq \in Seq(Markets), NEW r,
           r = ClearAll([vault |-> v, remaining |-> total], seq, u, key)
    PROVE  /\ Settles(v, r.vault, 0)
           /\ r.vault.book = v.book /\ r.vault.parentDebt = v.parentDebt
<1> DEFINE base == [vault |-> v, remaining |-> total]
           n == Len(seq)
<1>1. n \in Nat /\ DOMAIN seq = 1 .. n
  BY LenProperties, Zenon
<1> HIDE DEF base, n
<1>2. PICK g : Clears(base, seq, u, key, n, g)
  BY <1>1, ClearingLoop, Zenon
<1> DEFINE W == {s \in SUBSET (1 .. n) :
                   /\ g[s].remaining \in Nat
                   /\ Settles(v, g[s].vault, 0)
                   /\ g[s].vault.book = v.book
                   /\ g[s].vault.parentDebt = v.parentDebt}
<1>3. \A s \in SUBSET (1 .. n) :
        g[s] = IF s = {} THEN base ELSE Cleared(g[s \ {Max(s)}], seq[Max(s)], u, key)
  BY <1>2, Zenon DEF Clears, Looping, Stepped
<1>4. {} \in W
  <2>1. g[{}] = base
    BY <1>3
  <2>2. base.remaining \in Nat /\ base.vault = v
    BY DEF base
  <2> QED BY <2>1, <2>2, SettlesNothing
<1>5. ASSUME NEW s \in SUBSET (1 .. n), s # {}, s \ {Max(s)} \in W
      PROVE  s \in W
  <2> DEFINE acc == g[s \ {Max(s)}]
             c   == seq[Max(s)]
  <2>1. g[s] = Cleared(acc, c, u, key)
    BY <1>3, <1>5
  <2>2. Max(s) \in 1 .. n
    BY <1>1, <1>5, MaxIsMember
  <2>3. c \in Markets
    BY <1>1, <2>2, ElementOfSeq DEF n
  <2>4. /\ acc.remaining \in Nat /\ Settles(v, acc.vault, 0)
        /\ acc.vault.book = v.book /\ acc.vault.parentDebt = v.parentDebt
    BY <1>5
  <2> HIDE DEF acc, c, W
  <2>5. acc.vault \in Vaults
    BY <2>4 DEF Settles
  <2>6. PICK x : x = g[s]
    OBVIOUS
  <2>7. /\ x.remaining \in Nat /\ Settles(acc.vault, x.vault, 0)
        /\ x.vault.book = acc.vault.book /\ x.vault.parentDebt = acc.vault.parentDebt
    BY <2>1, <2>3, <2>4, <2>5, <2>6, ClearStep
  <2>8. Settles(v, x.vault, 0 + 0)
    BY <2>4, <2>7, SettlesTwice
  <2> QED BY <2>4, <2>6, <2>7, <2>8 DEF W
<1>6. (1 .. n) \in W
  <2>1. W \in SUBSET (SUBSET (1 .. n))
    OBVIOUS
  <2> HIDE DEF W
  <2> QED BY <1>1, <1>2, <1>4, <1>5, <2>1, LoopStays DEF Clears
<1>7. r = g[1 .. n]
  BY <1>2, Zenon DEF Clears, base
<1> QED BY <1>6, <1>7

\* resolve_parent_default moves no money and settles what it defaults on.
LEMMA DefaultSettled ==
    ASSUME NEW v \in Vaults, NEW p \in Lenders, NEW u \in Traders, NEW po \in Sides,
           NEW total \in Nat, NEW w, w = resolve_parent_default(v, p, u, po, total)
    PROVE  /\ Settles(v, w, 0)
           /\ w.parentDebt = IF total = 0 THEN v.parentDebt
                             ELSE [v.parentDebt EXCEPT ![<<p, u, po>>] = 0]
           /\ \A m \in Markets \ {p} : w.book[m] = v.book[m]
           /\ w.book[p].backing + w.book[p].shortfall
                = v.book[p].backing + v.book[p].shortfall + total
<1> DEFINE key    == <<p, u, po>>
           booked == Defaulted(v, p, key, total)
           seq    == v.children[key]
           r      == ClearAll([vault |-> booked, remaining |-> total], seq, u, key)
<1>0. p \in Markets /\ key \in Positions
  BY LinesInMarkets DEF Positions
<1>1. CASE total = 0
  <2>1. w = v
    <3>1. total <= 0
      BY <1>1
    <3> QED BY <3>1 DEF resolve_parent_default
  <2>2. v.book[p].backing \in Int /\ v.book[p].shortfall \in Nat
    BY <1>0, VaultFields
  <2> QED BY <1>1, <2>1, <2>2, SettlesNothing
<1>2. CASE total # 0
  <2>1. w = r.vault
    <3>1. ~(total <= 0)
      BY <1>2
    <3> QED BY <3>1, Zenon DEF resolve_parent_default, ClearAll
  <2>2. seq \in Seq(Markets)
    BY <1>0, VaultFields
  <2>3. /\ Settles(v, booked, 0)
        /\ booked.parentDebt = [v.parentDebt EXCEPT ![key] = 0]
        /\ \A m \in Markets \ {p} : booked.book[m] = v.book[m]
        /\ booked.book[p].backing + booked.book[p].shortfall
             = v.book[p].backing + v.book[p].shortfall + total
    <3> HIDE DEF key, booked
    <3> QED BY <1>0, DefaultBooked DEF booked
  <2> HIDE DEF booked, seq, key
  <2>4. booked \in Vaults
    BY <2>3 DEF Settles
  <2>5. /\ Settles(booked, r.vault, 0)
        /\ r.vault.book = booked.book /\ r.vault.parentDebt = booked.parentDebt
    <3> HIDE DEF r
    <3> QED BY <1>0, <2>2, <2>4, ChildrenCleared DEF r
  <2> HIDE DEF r
  <2>6. Settles(v, w, 0 + 0)
    BY <2>1, <2>3, <2>5, SettlesTwice
  <2> QED BY <1>2, <2>1, <2>3, <2>5, <2>6 DEF key
<1> QED BY <1>1, <1>2

\* One turn of the settling loop.
LEMMA SettleStep ==
    ASSUME NEW acc, acc.vault \in Vaults, LoansKept(acc.vault), acc.pool \in Nat,
           NEW c \in Markets, NEW u \in Traders, NEW r, r = SettledNext(acc, c, u)
    PROVE  /\ r.pool \in Nat /\ r.pool <= acc.pool
           /\ Settles(acc.vault, r.vault, acc.pool - r.pool)
<1> DEFINE s == settle_child_debt(acc.vault, c, u, acc.pool)
<1>1. r.vault = s.vault /\ r.pool = acc.pool - s.applied
  BY DEF SettledNext
<1> HIDE DEF s
<1>2. /\ Settles(acc.vault, s.vault, s.applied)
      /\ s.applied \in Nat /\ s.applied <= acc.pool
  BY DebtSettled DEF s
<1>3. acc.pool - r.pool = s.applied /\ r.pool \in Nat /\ r.pool <= acc.pool
  BY <1>1, <1>2
<1> QED BY <1>1, <1>2, <1>3

\* The settlement of all children of a position from the proceeds of its sale.
LEMMA ChildrenSettled ==
    ASSUME NEW v \in Vaults, BooksKept(v), LoansKept(v), NEW u \in Traders,
           NEW seq \in Seq(Markets), NEW amount \in Nat, NEW r,
           r = SettleAll([vault |-> v, pool |-> amount], seq, u)
    PROVE  /\ r.pool \in Nat /\ r.pool <= amount
           /\ Settles(v, r.vault, amount - r.pool)
<1> DEFINE base == [vault |-> v, pool |-> amount]
           n == Len(seq)
<1>1. n \in Nat /\ DOMAIN seq = 1 .. n
  BY LenProperties, Zenon
<1> HIDE DEF base, n
<1>2. PICK g : SettlesBy(base, seq, u, n, g)
  BY <1>1, SettlingLoop, Zenon
<1> DEFINE W == {s \in SUBSET (1 .. n) :
                   /\ g[s].pool \in Nat /\ g[s].pool <= amount
                   /\ Settles(v, g[s].vault, amount - g[s].pool)}
<1>3. \A s \in SUBSET (1 .. n) :
        g[s] = IF s = {} THEN base ELSE SettledNext(g[s \ {Max(s)}], seq[Max(s)], u)
  <2>1. "settle" # "clear"
    OBVIOUS
  <2> QED BY <1>2, <2>1, Zenon DEF SettlesBy, Looping, Stepped
<1>4. {} \in W
  <2>1. g[{}] = base
    BY <1>3
  <2>2. base.pool = amount /\ base.vault = v
    BY DEF base
  <2>3. amount - base.pool = 0
    BY <2>2
  <2>4. Settles(v, base.vault, amount - base.pool)
    BY <2>2, <2>3, SettlesNothing
  <2>5. base.pool \in Nat /\ base.pool <= amount
    BY <2>2
  <2> QED BY <2>1, <2>4, <2>5
<1>5. ASSUME NEW s \in SUBSET (1 .. n), s # {}, s \ {Max(s)} \in W
      PROVE  s \in W
  <2> DEFINE acc == g[s \ {Max(s)}]
             c   == seq[Max(s)]
  <2>1. g[s] = SettledNext(acc, c, u)
    BY <1>3, <1>5
  <2>2. Max(s) \in 1 .. n
    BY <1>1, <1>5, MaxIsMember
  <2>3. c \in Markets
    BY <1>1, <2>2, ElementOfSeq DEF n
  <2>4. acc.pool \in Nat /\ acc.pool <= amount /\ Settles(v, acc.vault, amount - acc.pool)
    BY <1>5
  <2> HIDE DEF acc, c, W
  <2>5. acc.vault \in Vaults /\ LoansKept(acc.vault)
    <3>1. acc.vault \in Vaults
      BY <2>4 DEF Settles
    <3> QED BY <2>4, <3>1, SettledIsKept
  <2>6. PICK x : x = g[s]
    OBVIOUS
  <2>7. /\ x.pool \in Nat /\ x.pool <= acc.pool
        /\ Settles(acc.vault, x.vault, acc.pool - x.pool)
    BY <2>1, <2>3, <2>4, <2>5, <2>6, SettleStep
  <2>8. PICK p, q : p = acc.pool /\ q = x.pool
    OBVIOUS
  <2>9. /\ p \in Nat /\ q \in Nat /\ p <= amount /\ q <= p
        /\ Settles(v, acc.vault, amount - p) /\ Settles(acc.vault, x.vault, p - q)
    BY <2>4, <2>7, <2>8
  <2>10. /\ amount - p \in Int /\ p - q \in Int
         /\ (amount - p) + (p - q) = amount - q /\ q <= amount
    BY <2>9
  <2>11. Settles(v, x.vault, (amount - p) + (p - q))
    <3> HIDE <2>8
    <3> QED BY <2>9, <2>10, SettlesTwice
  <2>12. Settles(v, x.vault, amount - x.pool) /\ x.pool \in Nat /\ x.pool <= amount
    BY <2>8, <2>9, <2>10, <2>11
  <2> QED BY <2>6, <2>12 DEF W
<1>6. (1 .. n) \in W
  <2>1. W \in SUBSET (SUBSET (1 .. n))
    OBVIOUS
  <2> HIDE DEF W
  <2> QED BY <1>1, <1>2, <1>4, <1>5, <2>1, LoopStays DEF SettlesBy
<1>7. r = g[1 .. n]
  BY <1>2, Zenon DEF SettlesBy, base
<1> QED BY <1>6, <1>7

-----------------------------------------------------------------------------
(* What the entry points do to the books, up to what the money of lenders   *)
(* is worth: the backing of m changes by `backing`, its fees for liquidity  *)
(* providers by `fees`, the worth of the vault by `worth`.                  *)

Booked(v, w, m, backing, fees, worth) ==
    /\ w \in Vaults /\ BooksKept(w) /\ LoansKept(w) /\ w.carry = v.carry
    /\ \A k \in Markets :
         /\ w.book[k].redeemed = v.book[k].redeemed
         /\ k \notin Lenders =>
              w.book[k].backing = v.book[k].backing + (IF k = m THEN backing ELSE 0)
         /\ w.book[k].lp_fees = v.book[k].lp_fees + (IF k = m THEN fees ELSE 0)
         /\ v.book[k].refundable >= 0 => w.book[k].refundable >= 0
    /\ Worth(w) = Worth(v) + worth

\* What the books of a vault keep to.
LEMMA BookFacts ==
    ASSUME NEW v \in Vaults, BooksKept(v), NEW k \in Markets
    PROVE  /\ v.book[k].backing \in Int /\ v.book[k].refundable \in Int
           /\ v.book[k].redeemed \in Nat /\ v.book[k].lp_fees \in Nat
           /\ v.book[k].refundable = v.book[k].backing - v.book[k].redeemed
           /\ k \notin Lenders => v.book[k].shortfall = 0
BY VaultFields DEF BooksKept

\* Bookings of one market add up.
LEMMA BookedTwice ==
    ASSUME NEW v \in Vaults, NEW w, NEW x, NEW m \in Markets,
           NEW b1 \in Int, NEW f1 \in Int, NEW w1 \in Int, Booked(v, w, m, b1, f1, w1),
           NEW b2 \in Int, NEW f2 \in Int, NEW w2 \in Int, Booked(w, x, m, b2, f2, w2)
    PROVE  Booked(v, x, m, b1 + b2, f1 + f2, w1 + w2)
<1>1. w \in Vaults /\ x \in Vaults
  BY DEF Booked
<1>2. Worth(x) = Worth(v) + (w1 + w2)
  <2>1. Worth(v) \in Int /\ Worth(w) = Worth(v) + w1 /\ Worth(x) = Worth(w) + w2
    BY WorthInt DEF Booked
  <2> QED BY <2>1
<1>3. ASSUME NEW k \in Markets
      PROVE  /\ x.book[k].redeemed = v.book[k].redeemed
             /\ k \notin Lenders =>
                  x.book[k].backing = v.book[k].backing + (IF k = m THEN b1 + b2 ELSE 0)
             /\ x.book[k].lp_fees = v.book[k].lp_fees + (IF k = m THEN f1 + f2 ELSE 0)
             /\ v.book[k].refundable >= 0 => x.book[k].refundable >= 0
  <2>1. v.book[k].backing \in Int /\ v.book[k].lp_fees \in Nat
    BY VaultFields
  <2>2. /\ w.book[k].redeemed = v.book[k].redeemed /\ x.book[k].redeemed = w.book[k].redeemed
        /\ v.book[k].refundable >= 0 => w.book[k].refundable >= 0
        /\ w.book[k].refundable >= 0 => x.book[k].refundable >= 0
        /\ k \notin Lenders =>
             /\ w.book[k].backing = v.book[k].backing + (IF k = m THEN b1 ELSE 0)
             /\ x.book[k].backing = w.book[k].backing + (IF k = m THEN b2 ELSE 0)
        /\ w.book[k].lp_fees = v.book[k].lp_fees + (IF k = m THEN f1 ELSE 0)
        /\ x.book[k].lp_fees = w.book[k].lp_fees + (IF k = m THEN f2 ELSE 0)
    BY DEF Booked
  <2> QED BY <2>1, <2>2
<1>4. BooksKept(x) /\ LoansKept(x) /\ x.carry = v.carry
  BY DEF Booked
<1> QED BY <1>1, <1>2, <1>3, <1>4 DEF Booked

\* The loans are well-formed as long as their records stay.
LEMMA LoansSame ==
    ASSUME NEW v, NEW w, SameLoans(v, w), LoansKept(v)
    PROVE  LoansKept(w)
BY DEF SameLoans, LoansKept

\* deposit_for_market books what is paid in.
LEMMA CreditBooked ==
    ASSUME NEW v \in Vaults, BooksKept(v), LoansKept(v), NEW m \in Markets, NEW a \in Int,
           a >= 0 \/ HasBacking(v, m, 0 - a), NEW w, w = Credited(v, m, a)
    PROVE  Booked(v, w, m, a, 0, a)
<1>1. /\ w \in Vaults /\ Backed(v.book[m], w.book[m], a)
      /\ \A k \in Markets \ {m} : w.book[k] = v.book[k]
      /\ SameAccounts(v, w) /\ Worth(w) = Worth(v) + a
  BY CreditedBook
<1>2. LoansKept(w) /\ w.carry = v.carry
  BY <1>1, LoansSame DEF SameAccounts
<1>3. ASSUME NEW k \in Markets
      PROVE  /\ w.book[k].refundable = w.book[k].backing - w.book[k].redeemed
             /\ k \notin Lenders => w.book[k].shortfall = 0
             /\ w.book[k].redeemed = v.book[k].redeemed
             /\ k \notin Lenders =>
                  w.book[k].backing = v.book[k].backing + (IF k = m THEN a ELSE 0)
             /\ w.book[k].lp_fees = v.book[k].lp_fees + (IF k = m THEN 0 ELSE 0)
             /\ v.book[k].refundable >= 0 => w.book[k].refundable >= 0
  <2>2. CASE k = m
    <3>1. a >= 0 \/ v.book[k].refundable >= 0 - a
      BY <2>2 DEF HasBacking
    <3> QED BY <1>1, <2>2, <3>1, BookFacts DEF Backed
  <2>3. CASE k # m
    BY <1>1, <2>3, BookFacts
  <2> QED BY <2>2, <2>3
<1>4. BooksKept(w)
  BY <1>3 DEF BooksKept
<1> QED BY <1>1, <1>2, <1>3, <1>4 DEF Booked

\* What a market that lends gives away is not booked to another market.
LEMMA LenderDebitBooked ==
    ASSUME NEW v \in Vaults, BooksKept(v), LoansKept(v), NEW m \in Markets, NEW p \in Lenders,
           NEW a \in Nat, HasBacking(v, p, a), NEW w, w = Credited(v, p, 0 - a)
    PROVE  Booked(v, w, m, 0, 0, 0 - a)
<1>1. p \in Markets /\ 0 - a \in Int /\ 0 - (0 - a) = a
  BY LinesInMarkets
<1>2. Booked(v, w, p, 0 - a, 0, 0 - a)
  BY <1>1, CreditBooked
<1>3. ASSUME NEW k \in Markets
      PROVE  /\ k \notin Lenders =>
                  w.book[k].backing = v.book[k].backing + (IF k = m THEN 0 ELSE 0)
             /\ w.book[k].lp_fees = v.book[k].lp_fees + (IF k = m THEN 0 ELSE 0)
  BY <1>2 DEF Booked
<1> QED BY <1>2, <1>3 DEF Booked

\* collect_fee moves a fee from the backing to the fee counters.
LEMMA CollectBooked ==
    ASSUME NEW v \in Vaults, BooksKept(v), LoansKept(v), NEW m \in Markets,
           NEW f, f \in FeeShares, HasBacking(v, m, FeesOf(f)), NEW w, w = collect_fee(v, m, f)
    PROVE  Booked(v, w, m, 0 - FeesOf(f), f.lp, 0)
<1>1. /\ w \in Vaults
      /\ w.book[m].backing = v.book[m].backing - FeesOf(f)
      /\ w.book[m].refundable = v.book[m].refundable - FeesOf(f)
      /\ w.book[m].redeemed = v.book[m].redeemed
      /\ w.book[m].shortfall = v.book[m].shortfall
      /\ w.book[m].lp_fees = v.book[m].lp_fees + f.lp
      /\ \A k \in Markets \ {m} : w.book[k] = v.book[k]
      /\ SameAccounts(v, w) /\ Worth(w) = Worth(v)
  BY CollectedBook
<1>2. LoansKept(w) /\ w.carry = v.carry
  BY <1>1, LoansSame DEF SameAccounts
<1>3. FeesOf(f) \in Nat /\ f.lp \in Nat
  BY DEF FeesOf, FeeShares
<1>4. ASSUME NEW k \in Markets
      PROVE  /\ w.book[k].refundable = w.book[k].backing - w.book[k].redeemed
             /\ k \notin Lenders => w.book[k].shortfall = 0
             /\ w.book[k].redeemed = v.book[k].redeemed
             /\ k \notin Lenders =>
                  w.book[k].backing = v.book[k].backing + (IF k = m THEN 0 - FeesOf(f) ELSE 0)
             /\ w.book[k].lp_fees = v.book[k].lp_fees + (IF k = m THEN f.lp ELSE 0)
             /\ v.book[k].refundable >= 0 => w.book[k].refundable >= 0
  <2>2. CASE k = m
    <3>1. v.book[k].refundable >= FeesOf(f)
      BY <2>2 DEF HasBacking
    <3> QED BY <1>1, <1>3, <2>2, <3>1, BookFacts
  <2>3. CASE k # m
    BY <1>1, <2>3, BookFacts
  <2> QED BY <2>2, <2>3
<1>5. BooksKept(w)
  BY <1>4 DEF BooksKept
<1>6. Worth(w) = Worth(v) + 0
  BY <1>1, WorthInt
<1> QED BY <1>1, <1>2, <1>4, <1>5, <1>6 DEF Booked

\* claim_lp_fees books what a provider is paid.
LEMMA ClaimBooked ==
    ASSUME NEW v \in Vaults, BooksKept(v), LoansKept(v), NEW m \in Markets, NEW a \in Nat,
           a <= v.book[m].lp_fees, NEW w, w = claim_lp_fees(v, m, a)
    PROVE  Booked(v, w, m, 0, 0 - a, 0 - a)
<1>1. /\ w \in Vaults
      /\ w.book[m].backing = v.book[m].backing
      /\ w.book[m].refundable = v.book[m].refundable
      /\ w.book[m].redeemed = v.book[m].redeemed
      /\ w.book[m].shortfall = v.book[m].shortfall
      /\ w.book[m].lp_fees = v.book[m].lp_fees - a
      /\ \A k \in Markets \ {m} : w.book[k] = v.book[k]
      /\ SameAccounts(v, w) /\ Worth(w) = Worth(v) - a
  BY ClaimedBook
<1>2. LoansKept(w) /\ w.carry = v.carry
  BY <1>1, LoansSame DEF SameAccounts
<1>4. ASSUME NEW k \in Markets
      PROVE  /\ w.book[k].refundable = w.book[k].backing - w.book[k].redeemed
             /\ k \notin Lenders => w.book[k].shortfall = 0
             /\ w.book[k].redeemed = v.book[k].redeemed
             /\ k \notin Lenders =>
                  w.book[k].backing = v.book[k].backing + (IF k = m THEN 0 ELSE 0)
             /\ w.book[k].lp_fees = v.book[k].lp_fees + (IF k = m THEN 0 - a ELSE 0)
             /\ v.book[k].refundable >= 0 => w.book[k].refundable >= 0
  <2>2. CASE k = m
    BY <1>1, <2>2, BookFacts
  <2>3. CASE k # m
    BY <1>1, <2>3, BookFacts
  <2> QED BY <2>2, <2>3
<1>5. BooksKept(w)
  BY <1>4 DEF BooksKept
<1>6. Worth(w) = Worth(v) + (0 - a)
  BY <1>1, WorthInt
<1> QED BY <1>1, <1>2, <1>4, <1>5, <1>6 DEF Booked

\* The fees of the treasury and of the council are swept.
LEMMA SweepBooked ==
    ASSUME NEW v \in Vaults, BooksKept(v), LoansKept(v), NEW m \in Markets,
           NEW w, w = sweep_protocol_fees(v, m)
    PROVE  /\ Swept(v, m) \in Nat /\ ReserveCut(v, m) \in Nat
           /\ ReserveCut(v, m) <= Swept(v, m)
           /\ Booked(v, w, m, 0, 0, 0 - (Swept(v, m) - ReserveCut(v, m)))
<1> DEFINE s == Swept(v, m)
           r == ReserveCut(v, m)
           b == FeesSwept(v.book[m])
           x == [v EXCEPT !.book[m] = b]
<1>1. v.book[m] \in Books /\ v.reserve \in Nat
  BY VaultFields
<1>2. s \in Nat /\ s = v.book[m].protocol_fees + v.book[m].cod_fees
  BY <1>1 DEF Swept, Books
<1>3. r \in Nat /\ r <= s
  BY <1>2, ShareBounds DEF ReserveCut, INSURANCE_RESERVE_BPS
<1>4. w = [x EXCEPT !.reserve = @ + r]
  BY DEF sweep_protocol_fees, Vaults
<1>5. /\ b \in Books /\ b.backing = v.book[m].backing /\ b.refundable = v.book[m].refundable
      /\ b.redeemed = v.book[m].redeemed /\ b.shortfall = v.book[m].shortfall
      /\ b.lp_fees = v.book[m].lp_fees /\ b.protocol_fees = 0 /\ b.cod_fees = 0
  BY <1>1 DEF Books, FeesSwept
<1> HIDE DEF b, s, r
<1>6. /\ x \in Vaults /\ x.book[m] = b /\ \A k \in Markets \ {m} : x.book[k] = v.book[k]
      /\ SameAccounts(v, x) /\ x.reserve = v.reserve
      /\ Worth(x) = Worth(v) + (BookTotal(b) - BookTotal(v.book[m]))
  <2>1. Rewritten(v, m, b, x)
    BY DEF Rewritten
  <2> HIDE DEF x
  <2> QED BY <1>5, <2>1, BookWritten
<1> HIDE DEF x
<1>7. /\ w \in Vaults /\ w.book = x.book /\ w.reserve = x.reserve + r
      /\ SameAccounts(x, w)
  <2>1. x.reserve + r \in Nat
    BY <1>1, <1>3, <1>6
  <2> QED BY <1>4, <1>6, <2>1 DEF Vaults, SameAccounts, SameLoans
<1>8. SameAccounts(v, w)
  BY <1>6, <1>7 DEF SameAccounts, SameLoans
<1>9. Worth(w) = Worth(v) + (0 - (s - r))
  <2>1. Worth(w) = Worth(x) + (BookTotal(w.book[m]) - BookTotal(x.book[m]))
                            + (w.reserve - x.reserve)
    BY <1>6, <1>7, WorthChange
  <2>2. /\ BookTotal(w.book[m]) - BookTotal(x.book[m]) = 0
        /\ BookTotal(b) - BookTotal(v.book[m]) = 0 - s
    <3>1. BookTotal(b) \in Int
      BY <1>5, BookTotalInt
    <3>2. BookTotal(b) - BookTotal(v.book[m]) = 0 - s
      BY <1>1, <1>2, <1>5 DEF BookTotal, Books
    <3> QED BY <1>6, <1>7, <3>1, <3>2
  <2>3. w.reserve - x.reserve = r
    BY <1>1, <1>3, <1>6, <1>7
  <2> QED BY <1>2, <1>3, <1>6, <2>1, <2>2, <2>3, WorthInt
<1>10. LoansKept(w) /\ w.carry = v.carry
  BY <1>8, LoansSame DEF SameAccounts
<1>11. ASSUME NEW k \in Markets
       PROVE  /\ w.book[k].refundable = w.book[k].backing - w.book[k].redeemed
              /\ k \notin Lenders => w.book[k].shortfall = 0
              /\ w.book[k].redeemed = v.book[k].redeemed
              /\ k \notin Lenders =>
                   w.book[k].backing = v.book[k].backing + (IF k = m THEN 0 ELSE 0)
              /\ w.book[k].lp_fees = v.book[k].lp_fees + (IF k = m THEN 0 ELSE 0)
              /\ v.book[k].refundable >= 0 => w.book[k].refundable >= 0
  <2>2. CASE k = m
    BY <1>5, <1>6, <1>7, <2>2, BookFacts
  <2>3. CASE k # m
    BY <1>6, <1>7, <2>3, BookFacts
  <2> QED BY <2>2, <2>3
<1>12. BooksKept(w)
  BY <1>11 DEF BooksKept
<1>13. Booked(v, w, m, 0, 0, 0 - (s - r))
  BY <1>7, <1>9, <1>10, <1>11, <1>12 DEF Booked
<1> QED BY <1>2, <1>3, <1>13 DEF s, r

\* A settlement books no backing to a market that does not lend.
LEMMA SettlesBooked ==
    ASSUME NEW v \in Vaults, BooksKept(v), LoansKept(v), NEW m \in Markets, NEW w,
           NEW paid \in Int, Settles(v, w, paid)
    PROVE  Booked(v, w, m, 0, 0, paid)
<1>1. BooksKept(w) /\ LoansKept(w) /\ w \in Vaults /\ w.carry = v.carry
      /\ Worth(w) = Worth(v) + paid
  BY SettledIsKept DEF Settles
<1>2. ASSUME NEW k \in Markets
      PROVE  /\ w.book[k].redeemed = v.book[k].redeemed
             /\ k \notin Lenders =>
                  w.book[k].backing = v.book[k].backing + (IF k = m THEN 0 ELSE 0)
             /\ w.book[k].lp_fees = v.book[k].lp_fees + (IF k = m THEN 0 ELSE 0)
             /\ v.book[k].refundable >= 0 => w.book[k].refundable >= 0
  <2>1. /\ v.book[k].backing \in Int /\ v.book[k].refundable \in Int
        /\ w.book[k].backing \in Int /\ w.book[k].refundable \in Int
        /\ v.book[k].lp_fees \in Nat
    BY <1>1, VaultFields
  <2> QED BY <2>1 DEF Settles
<1> QED BY <1>1, <1>2 DEF Booked

\* A vault in which the stakes were rewritten.
LEMMA StakeBooked ==
    ASSUME NEW v \in Vaults, BooksKept(v), LoansKept(v), NEW m \in Markets,
           NEW st \in [Positions -> Nat], NEW w, w = [v EXCEPT !.stake = st]
    PROVE  Booked(v, w, m, 0, 0, 0) /\ w.book = v.book /\ SameLoans(v, w) /\ w.stake = st
<1>1. /\ w \in Vaults /\ w.book = v.book /\ w.reserve = v.reserve /\ w.carry = v.carry
      /\ SameLoans(v, w) /\ w.stake = st
  BY DEF Vaults, SameLoans
<1>2. Worth(w) = Worth(v) + 0
  <2>1. Worth(w) = Worth(v)
    BY <1>1, WorthSame, Zenon
  <2> QED BY <2>1, WorthInt
<1>3. ASSUME NEW k \in Markets
      PROVE  /\ v.book[k].backing \in Int /\ v.book[k].lp_fees \in Nat
    BY VaultFields
<1>4. BooksKept(w) /\ LoansKept(w)
  BY <1>1, LoansSame DEF BooksKept
<1> QED BY <1>1, <1>2, <1>3, <1>4 DEF Booked

\* record_cash_stake touches stakes only.
LEMMA StakeRecorded ==
    ASSUME NEW v \in Vaults, BooksKept(v), LoansKept(v), NEW u \in Traders, NEW m \in Markets,
           NEW o \in Sides, NEW a \in Nat, NEW w, w = record_cash_stake(v, u, m, o, a)
    PROVE  /\ Booked(v, w, m, 0, 0, 0) /\ w.book = v.book /\ SameLoans(v, w)
           /\ w.stake = [v.stake EXCEPT ![<<m, u, o>>] = @ + a]
<1> DEFINE st == [v.stake EXCEPT ![<<m, u, o>>] = @ + a]
<1>1. v.stake \in [Positions -> Nat] /\ <<m, u, o>> \in Positions
  BY VaultFields DEF Positions
<1>2. st \in [Positions -> Nat]
  BY <1>1
<1>3. w = [v EXCEPT !.stake = st]
  BY DEF record_cash_stake, Vaults
<1> HIDE DEF st
<1>4. Booked(v, w, m, 0, 0, 0) /\ w.book = v.book /\ SameLoans(v, w) /\ w.stake = st
  BY <1>2, <1>3, StakeBooked
<1> QED BY <1>4 DEF st

\* The release of what a trader is paid for positions.
LEMMA ReleaseBooked ==
    ASSUME NEW v \in Vaults, BooksKept(v), LoansKept(v), NEW u \in Traders, NEW m \in Markets,
           NEW o \in Sides, NEW sold \in Nat, NEW a \in Nat, HasBacking(v, m, a),
           NEW w, w = release_trade_payout(v, u, m, o, sold, a)
    PROVE  /\ Booked(v, w, m, 0 - a, 0, 0 - a)
           /\ SameLoans(v, w)
           /\ Backed(v.book[m], w.book[m], 0 - a)
           /\ \A k \in Markets \ {m} : w.book[k] = v.book[k]
           /\ w.stake = [v.stake EXCEPT ![<<m, u, o>>] = Spend(@, sold)]
<1> DEFINE x == Credited(v, m, 0 - a)
           st == [x.stake EXCEPT ![<<m, u, o>>] = Spend(@, sold)]
<1>1. 0 - a \in Int /\ 0 - (0 - a) = a
  OBVIOUS
<1>2. /\ Booked(v, x, m, 0 - a, 0, 0 - a) /\ SameAccounts(v, x) /\ x \in Vaults
      /\ Backed(v.book[m], x.book[m], 0 - a)
      /\ \A k \in Markets \ {m} : x.book[k] = v.book[k]
  <2> HIDE DEF x
  <2>1. Booked(v, x, m, 0 - a, 0, 0 - a)
    BY <1>1, CreditBooked DEF x
  <2> QED BY <1>1, <2>1, CreditedBook DEF x
<1>3. w = [x EXCEPT !.stake = st]
  <2>1. w = [x EXCEPT !.stake[<<m, u, o>>] = Spend(@, sold)]
    BY Zenon DEF release_trade_payout
  <2> HIDE DEF x
  <2> QED BY <1>2, <2>1 DEF Vaults
<1> HIDE DEF x
<1>4. x.stake \in [Positions -> Nat] /\ <<m, u, o>> \in Positions
  BY <1>2, VaultFields DEF Positions
<1>5. st \in [Positions -> Nat]
  <2>1. x.stake[<<m, u, o>>] \in Nat
    BY <1>4
  <2>2. Spend(x.stake[<<m, u, o>>], sold) \in Nat
    BY <2>1, SpendBounds
  <2> QED BY <1>4, <2>2
<1> HIDE DEF st
<1>6. /\ Booked(x, w, m, 0, 0, 0) /\ w.book = x.book /\ SameLoans(x, w) /\ w.stake = st
  <2>1. BooksKept(x) /\ LoansKept(x)
    BY <1>2 DEF Booked
  <2> QED BY <1>2, <1>3, <1>5, <2>1, StakeBooked
<1>7. Booked(v, w, m, (0 - a) + 0, 0 + 0, (0 - a) + 0)
  BY <1>1, <1>2, <1>6, BookedTwice
<1>8. (0 - a) + 0 = 0 - a
  OBVIOUS
<1>9. SameLoans(v, w) /\ w.stake = [v.stake EXCEPT ![<<m, u, o>>] = Spend(@, sold)]
  BY <1>2, <1>6 DEF SameAccounts, SameLoans, st
<1> QED BY <1>2, <1>6, <1>7, <1>8, <1>9

-----------------------------------------------------------------------------
(* Credit. *)

LentBook(v, u, p, po, c, amount, w) ==
    /\ w.used = [v.used EXCEPT ![<<p, u, po>>] = @ + amount]
    /\ w.parentDebt = [v.parentDebt EXCEPT ![<<p, u, po>>] = @ + amount]
    /\ w.childDebt = [v.childDebt EXCEPT ![<<c, u>>] = @ + amount]
    /\ w.parent = [v.parent EXCEPT ![<<c, u>>] = p]
    /\ w.parentOutcome = [v.parentOutcome EXCEPT
                            ![<<c, u>>] = IF v.parent[<<c, u>>] = NoParent THEN po ELSE @]
    /\ w.children = [v.children EXCEPT ![<<p, u, po>>] = record_child_market(@, c)]
    /\ w.book = v.book /\ w.reserve = v.reserve /\ w.carry = v.carry /\ w.stake = v.stake

\* What a new loan writes.
LEMMA LentFields ==
    ASSUME NEW v \in Vaults, NEW u \in Traders, NEW p \in Markets, NEW po \in Sides,
           NEW c \in Markets, NEW amount \in Nat, NEW w, w = Lent(v, u, p, po, c, amount)
    PROVE  w \in Vaults /\ LentBook(v, u, p, po, c, amount, w)
<1> DEFINE key == <<p, u, po>>
           a == <<c, u>>
           us == [v.used EXCEPT ![key] = @ + amount]
           pd == [v.parentDebt EXCEPT ![key] = @ + amount]
           cd == [v.childDebt EXCEPT ![a] = @ + amount]
           pa == [v.parent EXCEPT ![a] = p]
           out == [v.parentOutcome EXCEPT ![a] = IF v.parent[a] = NoParent THEN po ELSE @]
           ch == [v.children EXCEPT ![key] = record_child_market(@, c)]
<1>1. key \in Positions /\ a \in Accounts
  BY DEF Positions, Accounts
<1>2. /\ v.used \in [Positions -> Nat] /\ v.parentDebt \in [Positions -> Nat]
      /\ v.childDebt \in [Accounts -> Nat] /\ v.parent \in [Accounts -> Markets \cup {NoParent}]
      /\ v.parentOutcome \in [Accounts -> Outcomes]
      /\ v.children \in [Positions -> Seq(Markets)]
  BY VaultFields
<1>3. w = [v EXCEPT !.used = us, !.parentDebt = pd, !.childDebt = cd, !.parent = pa,
                    !.parentOutcome = out, !.children = ch]
  BY DEF Lent, Vaults
<1> HIDE DEF key, a
<1>4. us \in [Positions -> Nat] /\ pd \in [Positions -> Nat] /\ cd \in [Accounts -> Nat]
  BY <1>1, <1>2
<1>5. pa \in [Accounts -> Markets \cup {NoParent}]
  BY <1>1, <1>2
<1>6. out \in [Accounts -> Outcomes]
  <2>1. po \in Outcomes
    BY DEF Sides, Outcomes
  <2> QED BY <1>1, <1>2, <2>1
<1>7. ch \in [Positions -> Seq(Markets)]
  <2>1. v.children[key] \in Seq(Markets)
    BY <1>1, <1>2
  <2>2. record_child_market(v.children[key], c) \in Seq(Markets)
    <3>1. Append(v.children[key], c) \in Seq(Markets)
      BY <2>1, AppendProperties
    <3> QED BY <2>1, <3>1 DEF record_child_market
  <2> QED BY <1>1, <1>2, <2>2
<1> HIDE DEF us, pd, cd, pa, out, ch
<1> DEFINE x == [v EXCEPT !.used = us]
           y == [x EXCEPT !.parentDebt = pd]
           z == [y EXCEPT !.childDebt = cd]
           q == [z EXCEPT !.parent = pa]
           r == [q EXCEPT !.parentOutcome = out]
<1>8. w = [r EXCEPT !.children = ch]
  BY <1>3 DEF Vaults
<1>9. /\ x \in Vaults /\ x.used = us /\ x.parentDebt = v.parentDebt /\ x.childDebt = v.childDebt
      /\ x.parent = v.parent /\ x.parentOutcome = v.parentOutcome /\ x.children = v.children
      /\ x.book = v.book /\ x.reserve = v.reserve /\ x.carry = v.carry /\ x.stake = v.stake
  BY <1>4 DEF Vaults
<1> HIDE DEF x
<1>10. /\ y \in Vaults /\ y.used = us /\ y.parentDebt = pd /\ y.childDebt = v.childDebt
       /\ y.parent = v.parent /\ y.parentOutcome = v.parentOutcome /\ y.children = v.children
       /\ y.book = v.book /\ y.reserve = v.reserve /\ y.carry = v.carry /\ y.stake = v.stake
  BY <1>4, <1>9 DEF Vaults
<1> HIDE DEF y
<1>11. /\ z \in Vaults /\ z.used = us /\ z.parentDebt = pd /\ z.childDebt = cd
       /\ z.parent = v.parent /\ z.parentOutcome = v.parentOutcome /\ z.children = v.children
       /\ z.book = v.book /\ z.reserve = v.reserve /\ z.carry = v.carry /\ z.stake = v.stake
  BY <1>4, <1>10 DEF Vaults
<1> HIDE DEF z
<1>12. /\ q \in Vaults /\ q.used = us /\ q.parentDebt = pd /\ q.childDebt = cd
       /\ q.parent = pa /\ q.parentOutcome = v.parentOutcome /\ q.children = v.children
       /\ q.book = v.book /\ q.reserve = v.reserve /\ q.carry = v.carry /\ q.stake = v.stake
  BY <1>5, <1>11 DEF Vaults
<1> HIDE DEF q
<1>13. /\ r \in Vaults /\ r.used = us /\ r.parentDebt = pd /\ r.childDebt = cd
       /\ r.parent = pa /\ r.parentOutcome = out /\ r.children = v.children
       /\ r.book = v.book /\ r.reserve = v.reserve /\ r.carry = v.carry /\ r.stake = v.stake
  BY <1>6, <1>12 DEF Vaults
<1> HIDE DEF r
<1>14. /\ w \in Vaults /\ w.used = us /\ w.parentDebt = pd /\ w.childDebt = cd
       /\ w.parent = pa /\ w.parentOutcome = out /\ w.children = ch
       /\ w.book = v.book /\ w.reserve = v.reserve /\ w.carry = v.carry /\ w.stake = v.stake
  BY <1>7, <1>8, <1>13 DEF Vaults
<1> QED BY <1>14 DEF LentBook, us, pd, cd, pa, out, ch, key, a

\* The record of a new loan moves no money.
LEMMA LentBooked ==
    ASSUME NEW v \in Vaults, BooksKept(v), LoansKept(v), NEW u \in Traders, NEW p \in Lenders,
           NEW po \in Sides, NEW c \in Borrowers, NEW amount \in Nat,
           v.parent[<<c, u>>] \in {NoParent, p},
           NEW w, w = Lent(v, u, p, po, c, amount)
    PROVE  Booked(v, w, c, 0, 0, 0) /\ w.book = v.book
<1>1. p \in Markets /\ c \in Markets /\ p # NoParent
  BY LinesInMarkets
<1>2. w \in Vaults /\ LentBook(v, u, p, po, c, amount, w)
  BY <1>1, LentFields
<1>3. LoansKept(w)
  <2>1. /\ v.parent \in [Accounts -> Markets \cup {NoParent}]
        /\ v.parentOutcome \in [Accounts -> Outcomes] /\ v.childDebt \in [Accounts -> Nat]
        /\ v.used \in [Positions -> Nat] /\ v.parentDebt \in [Positions -> Nat]
    BY VaultFields
  <2>2. ASSUME NEW a \in Accounts
        PROVE  /\ w.parent[a] # NoParent => w.parent[a] \in Lenders /\ w.parentOutcome[a] \in Sides
               /\ w.childDebt[a] # 0 => w.parent[a] # NoParent /\ a[1] \in Borrowers
    <3>1. CASE a = <<c, u>>
      <4>1. w.parent[a] = p
        BY <1>2, <2>1, <3>1 DEF LentBook
      <4>2. w.parentOutcome[a] \in Sides
        <5>1. w.parentOutcome[a] = IF v.parent[a] = NoParent THEN po ELSE v.parentOutcome[a]
          BY <1>2, <2>1, <3>1 DEF LentBook
        <5> QED BY <5>1 DEF LoansKept
      <4>3. a[1] = c
        BY <3>1
      <4> QED BY <1>1, <4>1, <4>2, <4>3
    <3>2. CASE a # <<c, u>>
      <4>1. /\ w.parent[a] = v.parent[a] /\ w.parentOutcome[a] = v.parentOutcome[a]
            /\ w.childDebt[a] = v.childDebt[a]
        BY <1>2, <2>1, <3>2 DEF LentBook
      <4> QED BY <4>1 DEF LoansKept
    <3> QED BY <3>1, <3>2
  <2>3. ASSUME NEW k \in Positions, w.parentDebt[k] # 0 \/ w.used[k] # 0
        PROVE  k[1] \in Lenders
    <3>1. CASE k = <<p, u, po>>
      <4>1. k[1] = p
        BY <3>1
      <4> QED BY <4>1
    <3>2. CASE k # <<p, u, po>>
      <4>1. w.parentDebt[k] = v.parentDebt[k] /\ w.used[k] = v.used[k]
        BY <1>2, <2>1, <3>2 DEF LentBook
      <4> QED BY <2>3, <4>1 DEF LoansKept
    <3> QED BY <3>1, <3>2
  <2> QED BY <2>2, <2>3 DEF LoansKept
<1>4. w.book = v.book /\ w.reserve = v.reserve /\ w.carry = v.carry
  BY <1>2 DEF LentBook
<1>5. Worth(w) = Worth(v) + 0
  <2>1. Worth(w) = Worth(v)
    BY <1>4, WorthSame, Zenon
  <2> QED BY <2>1, WorthInt
<1>6. BooksKept(w)
  BY <1>4 DEF BooksKept
<1>7. ASSUME NEW k \in Markets
      PROVE  /\ v.book[k].backing \in Int /\ v.book[k].lp_fees \in Nat
    BY VaultFields
<1> QED BY <1>2, <1>3, <1>4, <1>5, <1>6, <1>7 DEF Booked

\* Credit moves backing from a market that lends to its child.
LEMMA CreditOpened ==
    ASSUME NEW v \in Vaults, BooksKept(v), LoansKept(v), NEW u \in Traders, NEW p \in Lenders,
           NEW po \in Sides, NEW c \in Borrowers, NEW amount \in Nat,
           CanOpenCredit(v, u, p, po, c, amount),
           NEW w, w = open_child_credit_for_trade(v, u, p, po, c, amount)
    PROVE  Booked(v, w, c, amount, 0, 0)
<1> DEFINE x == Lent(v, u, p, po, c, amount)
           y == Credited(x, p, 0 - amount)
<1>1. c \in Markets /\ p \in Markets
  BY LinesInMarkets
<1>2. Booked(v, x, c, 0, 0, 0) /\ x.book = v.book
  <2>1. v.parent[<<c, u>>] \in {NoParent, p}
    BY DEF CanOpenCredit
  <2> HIDE DEF x
  <2> QED BY <2>1, LentBooked DEF x
<1>3. w = Credited(y, c, amount)
  BY DEF open_child_credit_for_trade
<1> HIDE DEF x
<1>4. x \in Vaults /\ BooksKept(x) /\ LoansKept(x)
  BY <1>2 DEF Booked
<1>5. HasBacking(x, p, amount)
  BY <1>2 DEF CanOpenCredit, HasBacking
<1>6. Booked(x, y, c, 0, 0, 0 - amount)
  <2> HIDE DEF y
  <2> QED BY <1>1, <1>4, <1>5, LenderDebitBooked DEF y
<1> HIDE DEF y
<1>7. y \in Vaults /\ BooksKept(y) /\ LoansKept(y)
  BY <1>6 DEF Booked
<1>8. Booked(y, w, c, amount, 0, amount)
  BY <1>1, <1>3, <1>7, CreditBooked
<1>9. Booked(v, y, c, 0 + 0, 0 + 0, 0 + (0 - amount))
  BY <1>1, <1>2, <1>6, BookedTwice
<1>10. Booked(v, w, c, (0 + 0) + amount, (0 + 0) + 0, (0 + (0 - amount)) + amount)
  BY <1>1, <1>8, <1>9, BookedTwice
<1>11. /\ (0 + 0) + amount = amount /\ (0 + 0) + 0 = 0 /\ (0 + (0 - amount)) + amount = 0
  OBVIOUS
<1> QED BY <1>10, <1>11

-----------------------------------------------------------------------------
(* Liquidation. *)

\* liquidate_release: bonus and remainder are all that leaves the vault.
LEMMA LiquidationBooked ==
    ASSUME NEW v \in Vaults, BooksKept(v), LoansKept(v), NEW u \in Traders, NEW m \in Markets,
           NEW o \in Sides, NEW sold \in Nat, NEW proceeds \in Nat, HasBacking(v, m, proceeds),
           NEW r, r = liquidate_release(v, u, m, o, sold, proceeds)
    PROVE  /\ r.bonus \in Nat /\ r.remainder \in Nat
           /\ Booked(v, r.vault, m, 0 - proceeds, 0, 0 - (r.bonus + r.remainder))
           /\ \E b \in Int : Settles(Extracted(v, u, m, o, sold, proceeds), r.vault, b)
<1> DEFINE bonus == bps(proceeds, LIQUIDATION_BONUS_BPS)
           x == Extracted(v, u, m, o, sold, proceeds)
           seq == v.children[<<m, u, o>>]
           s == SettleAll([vault |-> x, pool |-> proceeds - bonus], seq, u)
           n == s.vault.used[<<m, u, o>>]
           w == resolve_parent_default(s.vault, m, u, o, n)
<1>1. bonus \in Nat /\ bonus <= proceeds /\ proceeds - bonus \in Nat
  <2>1. bonus \in Nat /\ bonus <= proceeds
    BY ShareBounds DEF LIQUIDATION_BONUS_BPS
  <2> HIDE DEF bonus
  <2> QED BY <2>1
<1>2. r.bonus = bonus /\ r.remainder = s.pool /\ r.vault = w
  <2>1. r = [bonus |-> bonus, remainder |-> s.pool, vault |-> w]
    BY Zenon DEF liquidate_release, SettleAll
  <2> HIDE DEF bonus, s, w
  <2> QED BY <2>1
<1> HIDE DEF bonus
<1>3. <<m, u, o>> \in Positions
  BY DEF Positions
<1>4. Booked(v, x, m, 0 - proceeds, 0, 0 - proceeds)
  BY ReleaseBooked DEF Extracted
<1>5. x \in Vaults /\ BooksKept(x) /\ LoansKept(x)
  BY <1>4 DEF Booked
<1>6. seq \in Seq(Markets)
  BY <1>3, VaultFields
<1> HIDE DEF x, seq
<1>7. /\ s.pool \in Nat /\ s.pool <= proceeds - bonus
      /\ Settles(x, s.vault, (proceeds - bonus) - s.pool)
  BY <1>1, <1>5, <1>6, ChildrenSettled
<1> HIDE DEF s
<1>8. PICK q : q = s.pool
  OBVIOUS
<1>9. q \in Nat /\ Settles(x, s.vault, (proceeds - bonus) - q)
  BY <1>7, <1>8
<1>10. /\ s.vault \in Vaults /\ BooksKept(s.vault) /\ LoansKept(s.vault)
  BY <1>5, <1>9, SettledIsKept DEF Settles
<1>11. n \in Nat
  BY <1>3, <1>10, VaultFields
<1>12. Settles(s.vault, w, 0)
  <2>1. CASE n = 0
    <3>1. w = s.vault
      <4>1. n <= 0
        BY <2>1
      <4> QED BY <4>1 DEF resolve_parent_default
    <3> QED BY <1>10, <3>1, SettlesNothing
  <2>2. CASE n # 0
    <3>1. m \in Lenders
      BY <1>3, <1>10, <2>2 DEF LoansKept
    <3> HIDE DEF n, w
    <3> QED BY <1>10, <1>11, <3>1, DefaultSettled DEF w
  <2> QED BY <2>1, <2>2
<1> HIDE DEF w, n
<1>13. (proceeds - bonus) - q \in Int
  BY <1>1, <1>9
<1>14. Settles(x, w, ((proceeds - bonus) - q) + 0)
  BY <1>5, <1>9, <1>12, <1>13, SettlesTwice
<1>15. PICK a, b : a = 0 - proceeds /\ b = ((proceeds - bonus) - q) + 0
  OBVIOUS
<1>16. a \in Int /\ b \in Int /\ a + b = 0 - (bonus + q) /\ a + 0 = a
  BY <1>1, <1>9, <1>15
<1>17. Booked(x, w, m, 0, 0, b)
  BY <1>5, <1>14, <1>15, <1>16, SettlesBooked
<1>18. Booked(v, w, m, a + 0, 0 + 0, a + b)
  BY <1>4, <1>15, <1>16, <1>17, BookedTwice
<1>19. Settles(x, r.vault, b) /\ b \in Int
  BY <1>2, <1>14, <1>15, <1>16
<1>20. \E d \in Int : Settles(Extracted(v, u, m, o, sold, proceeds), r.vault, d)
  BY <1>19, Zenon DEF x
<1>21. /\ r.bonus \in Nat /\ r.remainder \in Nat
       /\ Booked(v, r.vault, m, 0 - proceeds, 0, 0 - (r.bonus + r.remainder))
  BY <1>1, <1>2, <1>8, <1>9, <1>15, <1>16, <1>18
<1> QED BY <1>20, <1>21, Zenon

\* liquidate_child_release likewise.
LEMMA ChildLiquidationBooked ==
    ASSUME NEW v \in Vaults, BooksKept(v), LoansKept(v), NEW u \in Traders, NEW m \in Markets,
           NEW o \in Sides, NEW sold \in Nat, NEW proceeds \in Nat, HasBacking(v, m, proceeds),
           NEW r, r = liquidate_child_release(v, u, m, o, sold, proceeds)
    PROVE  /\ r.bonus \in Nat /\ r.remainder \in Nat
           /\ Booked(v, r.vault, m, 0 - proceeds, 0, 0 - (r.bonus + r.remainder))
           /\ \E b \in Int : Settles(Extracted(v, u, m, o, sold, proceeds), r.vault, b)
<1> DEFINE bonus == bps(proceeds, LIQUIDATION_BONUS_BPS)
           x == Extracted(v, u, m, o, sold, proceeds)
           a == <<m, u>>
           s == settle_child_debt(x, m, u, proceeds - bonus)
           n == s.vault.childDebt[a]
           w == IF n = 0 THEN s.vault
                ELSE resolve_parent_default(s.vault, v.parent[a], u, v.parentOutcome[a], n)
<1>1. bonus \in Nat /\ bonus <= proceeds /\ proceeds - bonus \in Nat
  <2>1. bonus \in Nat /\ bonus <= proceeds
    BY ShareBounds DEF LIQUIDATION_BONUS_BPS
  <2> HIDE DEF bonus
  <2> QED BY <2>1
<1>2. r.bonus = bonus /\ r.remainder = (proceeds - bonus) - s.applied /\ r.vault = w
  BY DEF liquidate_child_release
<1> HIDE DEF bonus
<1>3. a \in Accounts
  BY DEF Accounts
<1>4. Booked(v, x, m, 0 - proceeds, 0, 0 - proceeds) /\ SameLoans(v, x)
  BY ReleaseBooked DEF Extracted
<1>5. x \in Vaults /\ BooksKept(x) /\ LoansKept(x)
  BY <1>4 DEF Booked
<1> HIDE DEF x, a
<1>7. /\ s.applied \in Nat /\ s.applied <= proceeds - bonus
      /\ Settles(x, s.vault, s.applied)
  <2> HIDE DEF s
  <2> QED BY <1>1, <1>5, DebtSettled DEF s
<1> HIDE DEF s
<1>8. PICK q : q = s.applied
  OBVIOUS
<1>9. q \in Nat /\ q <= proceeds - bonus /\ Settles(x, s.vault, q)
  BY <1>7, <1>8
<1>10. /\ s.vault \in Vaults /\ BooksKept(s.vault) /\ LoansKept(s.vault)
       /\ s.vault.parent = v.parent /\ s.vault.parentOutcome = v.parentOutcome
  <2>1. s.vault \in Vaults /\ BooksKept(s.vault) /\ LoansKept(s.vault)
    BY <1>5, <1>9, SettledIsKept DEF Settles
  <2> QED BY <1>4, <1>9, <2>1 DEF Settles, SameLoans
<1>11. n \in Nat
  BY <1>3, <1>10, VaultFields
<1>12. Settles(s.vault, w, 0)
  <2>1. CASE n = 0
    BY <1>10, <2>1, SettlesNothing
  <2>2. CASE n # 0
    <3>1. v.parent[a] \in Lenders /\ v.parentOutcome[a] \in Sides
      BY <1>3, <1>10, <2>2 DEF LoansKept
    <3> DEFINE z == resolve_parent_default(s.vault, v.parent[a], u, v.parentOutcome[a], n)
    <3>2. w = z
      BY <2>2
    <3> HIDE DEF n, w
    <3>3. Settles(s.vault, z, 0)
      <4> HIDE DEF z
      <4> QED BY <1>10, <1>11, <3>1, DefaultSettled DEF z
    <3> QED BY <3>2, <3>3
  <2> QED BY <2>1, <2>2
<1> HIDE DEF w, n
<1>14. Settles(x, w, q + 0)
  BY <1>5, <1>9, <1>12, SettlesTwice
<1>15. PICK d, b : d = 0 - proceeds /\ b = q + 0
  OBVIOUS
<1>16. d \in Int /\ b \in Int /\ d + 0 = d
       /\ (proceeds - bonus) - q \in Nat
       /\ d + b = 0 - (bonus + ((proceeds - bonus) - q))
  BY <1>1, <1>9, <1>15
<1>17. Booked(x, w, m, 0, 0, b)
  BY <1>5, <1>14, <1>15, <1>16, SettlesBooked
<1>18. Booked(v, w, m, d + 0, 0 + 0, d + b)
  BY <1>4, <1>15, <1>16, <1>17, BookedTwice
<1>19. Settles(x, r.vault, b) /\ b \in Int
  BY <1>2, <1>14, <1>15, <1>16
<1>20. \E e \in Int : Settles(Extracted(v, u, m, o, sold, proceeds), r.vault, e)
  BY <1>19, Zenon DEF x
<1>21. /\ r.bonus \in Nat /\ r.remainder \in Nat
       /\ Booked(v, r.vault, m, 0 - proceeds, 0, 0 - (r.bonus + r.remainder))
  BY <1>1, <1>2, <1>8, <1>9, <1>15, <1>16, <1>18
<1> QED BY <1>20, <1>21, Zenon

-----------------------------------------------------------------------------
(* Redemption. *)

\* A payout is at most the claim and what is left of the backing.
LEMMA CappedBounds ==
    ASSUME NEW v \in Vaults, NEW m \in Markets, NEW g \in Int
    PROVE  /\ capped_payout(v, m, g) \in Nat
           /\ capped_payout(v, m, g) = 0
                \/ capped_payout(v, m, g) <= v.book[m].backing - v.book[m].redeemed
           /\ g >= 0 => capped_payout(v, m, g) <= g
<1> DEFINE b == v.book[m].backing
           s == v.book[m].shortfall
           remaining == b - v.book[m].redeemed
           claim == IF s = 0 THEN g ELSE (g * b) \div (b + s)
<1>1. b \in Int /\ s \in Nat /\ v.book[m].redeemed \in Nat
  BY VaultFields
<1>2. capped_payout(v, m, g) = IF g <= 0 \/ b <= 0 \/ remaining <= 0 THEN 0
                               ELSE Least(claim, remaining)
  BY DEF capped_payout
<1>3. ASSUME g > 0, b > 0 PROVE claim \in Nat /\ claim <= g
  <2>1. PICK c, d \in Nat : c = b /\ d = b + s /\ c \in Nat /\ c <= d /\ d # 0
    BY <1>1, <1>3
  <2>2. g \in Nat
    BY <1>3
  <2>3. proportional(g, c, d) \in Nat /\ proportional(g, c, d) <= g
    BY <2>1, <2>2, ProportionalBounds
  <2>4. claim = IF s = 0 THEN g ELSE proportional(g, c, d)
    BY <2>1 DEF proportional
  <2> QED BY <2>2, <2>3, <2>4
<1> HIDE DEF claim
<1>5. CASE g <= 0 \/ b <= 0 \/ remaining <= 0
  BY <1>1, <1>2, <1>5
<1>6. CASE g > 0 /\ b > 0 /\ remaining > 0
  <2>1. claim \in Nat /\ claim <= g
    BY <1>3, <1>6
  <2> QED BY <1>1, <1>2, <1>6, <2>1 DEF Least
<1> QED BY <1>1, <1>5, <1>6

\* Crediting zero changes nothing.
LEMMA CreditNothing ==
    ASSUME NEW v \in Vaults, NEW m \in Markets
    PROVE  Credited(v, m, 0) = v
<1>1. v.book[m] \in Books /\ v.book \in [Markets -> Books]
  BY VaultFields
<1> DEFINE b == v.book[m]
<1>2. Funded(b, 0) = b
  <2> HIDE DEF b
  <2>1. b \in Books
    BY <1>1 DEF b
  <2>2. b.backing + 0 = b.backing /\ b.refundable + 0 = b.refundable
    BY <2>1 DEF Books
  <2>3. Funded(b, 0) = [b EXCEPT !.backing = b.backing + 0, !.refundable = b.refundable + 0]
    BY Zenon DEF Funded
  <2>4. Funded(b, 0) = [b EXCEPT !.backing = b.backing, !.refundable = b.refundable]
    BY <2>2, <2>3, Zenon
  <2> QED BY <2>1, <2>4 DEF Books
<1>3. Credited(v, m, 0) = [v EXCEPT !.book = [v.book EXCEPT ![m] = Funded(b, 0)]]
  BY DEF Credited, Vaults
<1>4. [v.book EXCEPT ![m] = Funded(b, 0)] = v.book
  BY <1>1, <1>2
<1> QED BY <1>3, <1>4 DEF Vaults

\* The debts of the redeemed position itself.
LEMMA Withheld ==
    ASSUME NEW v \in Vaults, BooksKept(v), LoansKept(v), NEW m \in Markets, NEW u \in Traders,
           NEW o \in Sides, NEW gross \in Nat, NEW claim \in Nat,
           NEW own, own = withhold_parent_debt(v, m, u, o, gross, claim)
    PROVE  /\ own.repaid \in Nat /\ own.repaid <= claim
           /\ m \notin Lenders => own.repaid = 0
           /\ Settles(v, own.vault, own.repaid)
           /\ own.vault.parentDebt[<<m, u, o>>] <= Spend(v.parentDebt[<<m, u, o>>], claim)
<1> DEFINE key == <<m, u, o>>
           repaid == Least(v.parentDebt[key], claim)
           unpaid == v.parentDebt[key] - repaid
           pd == [v.parentDebt EXCEPT ![key] = unpaid]
           us == [v.used EXCEPT ![key] = Spend(@, repaid)]
           x == WithDebts(v, v.childDebt, pd, us)
           kept == Credited(x, m, repaid)
           w == IF gross = 0 THEN resolve_parent_default(kept, m, u, o, unpaid) ELSE kept
<1>1. key \in Positions
  BY DEF Positions
<1>2. /\ v.parentDebt \in [Positions -> Nat] /\ v.used \in [Positions -> Nat]
      /\ v.childDebt \in [Accounts -> Nat]
  BY VaultFields
<1>3. repaid \in Nat /\ repaid <= claim /\ unpaid \in Nat /\ unpaid <= v.parentDebt[key]
  <2>1. v.parentDebt[key] \in Nat
    BY <1>1, <1>2
  <2> QED BY <2>1 DEF Least
<1>4. own.repaid = repaid /\ own.vault = w
  <2>1. x = [v EXCEPT !.parentDebt[key] = unpaid, !.used[key] = Spend(@, repaid)]
    BY DEF WithDebts, Vaults
  <2>2. own.repaid = repaid
    BY DEF withhold_parent_debt
  <2> HIDE DEF x
  <2>3. own.vault = w
    BY <2>1 DEF withhold_parent_debt
  <2> QED BY <2>2, <2>3
<1>5. m \notin Lenders => v.parentDebt[key] = 0
  <2>1. key[1] = m
    OBVIOUS
  <2> QED BY <1>1, <2>1 DEF LoansKept
<1>6. m \notin Lenders => repaid = 0 /\ unpaid = 0
  BY <1>5 DEF Least
<1>6a. unpaid = Spend(v.parentDebt[<<m, u, o>>], claim)
  BY DEF Spend
<1> HIDE DEF repaid, unpaid
<1>6b. pd[key] = unpaid
  BY <1>1, <1>2
<1> HIDE DEF key
<1>7. us \in [Positions -> Nat] /\ \A k \in Positions : us[k] <= v.used[k]
  <2>1. v.used[key] \in Nat
    BY <1>1, <1>2
  <2>2. Spend(v.used[key], repaid) \in Nat /\ Spend(v.used[key], repaid) <= v.used[key]
    BY <1>3, <2>1, SpendBounds
  <2> QED BY <1>1, <1>2, <2>2
<1>8. pd \in [Positions -> Nat] /\ \A k \in Positions : pd[k] <= v.parentDebt[k]
  BY <1>1, <1>2, <1>3
<1>9. Settles(v, x, 0) /\ x.parentDebt = pd
  <2> HIDE DEF pd, us
  <2>1. \A a \in Accounts : v.childDebt[a] <= v.childDebt[a]
    BY <1>2
  <2> HIDE DEF x
  <2> QED BY <1>2, <1>7, <1>8, <2>1, DebtsWritten DEF x
<1> HIDE DEF x
<1>10. x \in Vaults
  BY <1>9 DEF Settles
<1>11. Settles(x, kept, repaid)
  <2>1. CASE m \in Lenders
    <3> HIDE DEF kept
    <3> QED BY <1>3, <1>10, <2>1, CreditSettles DEF kept
  <2>2. CASE m \notin Lenders
    <3>1. kept = x
      BY <1>6, <1>10, <2>2, CreditNothing
    <3> QED BY <1>6, <1>10, <2>2, <3>1, SettlesNothing
  <2> QED BY <2>1, <2>2
<1> HIDE DEF kept
<1>12. kept \in Vaults
  BY <1>11 DEF Settles
<1>13. Settles(kept, w, 0)
  <2>1. CASE gross # 0
    BY <1>12, <2>1, SettlesNothing
  <2>2. CASE gross = 0 /\ m \in Lenders
    <3> DEFINE z == resolve_parent_default(kept, m, u, o, unpaid)
    <3>1. w = z
      BY <2>2
    <3> HIDE DEF w
    <3>2. Settles(kept, z, 0)
      <4> HIDE DEF z
      <4> QED BY <1>3, <1>12, <2>2, DefaultSettled DEF z
    <3> QED BY <3>1, <3>2
  <2>3. CASE gross = 0 /\ m \notin Lenders
    <3>1. w = kept
      <4>1. unpaid <= 0
        BY <1>6, <2>3
      <4> QED BY <2>3, <4>1 DEF resolve_parent_default
    <3> QED BY <1>12, <3>1, SettlesNothing
  <2> QED BY <2>1, <2>2, <2>3
<1> HIDE DEF w
<1>14. Settles(v, w, (0 + repaid) + 0)
  <2>1. Settles(v, kept, 0 + repaid)
    BY <1>3, <1>9, <1>11, SettlesTwice
  <2>2. 0 + repaid \in Int
    BY <1>3
  <2> QED BY <1>13, <2>1, <2>2, SettlesTwice
<1>15. (0 + repaid) + 0 = repaid
  BY <1>3
<1>16. w.parentDebt[key] <= unpaid
  <2>1. x.parentDebt[key] = unpaid
    BY <1>9, <1>6b
  <2>2. w.parentDebt[key] <= kept.parentDebt[key] /\ kept.parentDebt[key] <= x.parentDebt[key]
    BY <1>1, <1>11, <1>13 DEF Settles
  <2>3. w.parentDebt[key] \in Nat /\ kept.parentDebt[key] \in Nat
    <3>1. w \in Vaults
      BY <1>13 DEF Settles
    <3> QED BY <1>1, <1>12, <3>1, VaultFields
  <2> QED BY <1>3, <2>1, <2>2, <2>3
<1>17. own.vault.parentDebt[<<m, u, o>>] <= Spend(v.parentDebt[<<m, u, o>>], claim)
  BY <1>4, <1>6a, <1>16 DEF key
<1> QED BY <1>3, <1>4, <1>6, <1>14, <1>15, <1>17

\* What a redemption leaves: a market without lenders' debts loses no more than
\* the gross claim, and pays what it says.
Redeems(v, w, m, gross, payout) ==
    /\ w \in Vaults /\ BooksKept(w) /\ LoansKept(w) /\ payout \in Nat
    /\ \A k \in Markets :
         /\ w.book[k].lp_fees = v.book[k].lp_fees
         /\ w.book[k].redeemed = v.book[k].redeemed + (IF k = m THEN payout ELSE 0)
         /\ k # m => /\ k \notin Lenders => w.book[k].backing = v.book[k].backing
                     /\ v.book[k].refundable >= 0 => w.book[k].refundable >= 0
    /\ m \notin Lenders => /\ Worth(w) = Worth(v) - payout
                           /\ w.book[m].refundable >= v.book[m].refundable - gross
    /\ m \in Lenders \ Borrowers /\ v.book[m].refundable >= 0 => w.book[m].refundable >= 0

\* half_refund keeps the odd unit in the carry.
LEMMA HalfRefund ==
    ASSUME NEW v \in Vaults, BooksKept(v), LoansKept(v), NEW m \in Markets, NEW amount \in Nat,
           NEW r, r = half_refund(v, m, amount)
    PROVE  /\ r.gross \in Nat /\ r.gross = (v.carry[m] + amount) \div 2 /\ r.vault \in Vaults
           /\ r.vault.carry = [v.carry EXCEPT ![m] = (v.carry[m] + amount) - 2 * r.gross]
           /\ r.vault.book = v.book /\ r.vault.reserve = v.reserve
           /\ SameLoans(v, r.vault) /\ r.vault.stake = v.stake
           /\ BooksKept(r.vault) /\ LoansKept(r.vault)
<1> DEFINE g == (v.carry[m] + amount) \div 2
           ca == [v.carry EXCEPT ![m] = (v.carry[m] + amount) - 2 * g]
<1>1. v.carry \in [Markets -> 0 .. 1] /\ v.carry[m] \in 0 .. 1
  BY VaultFields
<1>2. v.carry[m] + amount \in Nat
  BY <1>1
<1>3. r.gross = g /\ r.vault = [v EXCEPT !.carry = ca]
  <2>1. r = [gross |-> g, vault |-> [v EXCEPT !.carry[m] = (v.carry[m] + amount) - 2 * g]]
    BY Zenon DEF half_refund, invalid_refund
  <2> HIDE DEF g
  <2> QED BY <2>1 DEF Vaults
<1>4. g \in Nat /\ (v.carry[m] + amount) - 2 * g \in 0 .. 1
  <2>1. PICK e : e = v.carry[m] + amount
    OBVIOUS
  <2>2. e \in Nat /\ g = e \div 2
    BY <1>2, <2>1
  <2> HIDE DEF g
  <2>3. g \in Nat /\ e - 2 * g \in 0 .. 1
    BY <2>2
  <2> QED BY <1>1, <2>1, <2>3
<1>5. ca \in [Markets -> 0 .. 1]
  <2> HIDE DEF g
  <2> QED BY <1>1, <1>4
<1>6. /\ r.vault \in Vaults /\ r.vault.carry = ca /\ r.vault.book = v.book
      /\ r.vault.reserve = v.reserve /\ SameLoans(v, r.vault) /\ r.vault.stake = v.stake
  <2> HIDE DEF ca
  <2> QED BY <1>3, <1>5 DEF Vaults, SameLoans
<1>7. BooksKept(r.vault) /\ LoansKept(r.vault)
  BY <1>6, LoansSame DEF BooksKept
<1>8. r.gross = (v.carry[m] + amount) \div 2
  BY <1>3
<1>9. r.vault.carry = [v.carry EXCEPT ![m] = (v.carry[m] + amount) - 2 * r.gross]
  <2> HIDE DEF g
  <2> QED BY <1>3, <1>6
<1>10. r.gross \in Nat
  BY <1>3, <1>4
<1> QED BY <1>6, <1>7, <1>8, <1>9, <1>10, Zenon

\* What the end of every redemption does, the payment of the rest of a claim.
Rest(v, w, m, claim, payout) ==
    /\ w \in Vaults /\ BooksKept(w) /\ LoansKept(w) /\ w.carry = v.carry
    /\ payout \in Nat
    /\ \A k \in Markets :
         /\ w.book[k].lp_fees = v.book[k].lp_fees
         /\ w.book[k].redeemed = v.book[k].redeemed + (IF k = m THEN payout ELSE 0)
         /\ k # m => /\ k \notin Lenders => w.book[k].backing = v.book[k].backing
                     /\ v.book[k].refundable >= 0 => w.book[k].refundable >= 0
    /\ m \notin Lenders => /\ Worth(w) = Worth(v) - payout
                           /\ w.book[m].refundable >= v.book[m].refundable - claim
    /\ v.book[m].refundable >= 0 => w.book[m].refundable >= 0

\* The end of every redemption: a payment after the debts were withheld.
LEMMA RestPaid ==
    ASSUME NEW v \in Vaults, BooksKept(v), LoansKept(v), NEW m \in Markets,
           NEW claim \in Nat, NEW y, NEW paid \in Nat, paid <= claim,
           m \notin Lenders => paid = 0, Settles(v, y, paid),
           NEW x, Booked(y, x, m, 0, 0, 0), x.book = y.book,
           NEW payout \in Nat,
           payout = 0 \/ payout <= y.book[m].backing - y.book[m].redeemed,
           y.book[m].shortfall = 0 => payout <= claim - paid,
           NEW w, w = PaidOut(x, m, payout)
    PROVE  Rest(v, w, m, claim, payout)
<1>3. Booked(v, y, m, 0, 0, paid)
  BY SettlesBooked
<1>4. y \in Vaults /\ BooksKept(y) /\ LoansKept(y)
  BY <1>3 DEF Booked
<1>6. x \in Vaults /\ BooksKept(x) /\ LoansKept(x)
  BY DEF Booked
<1>7. Booked(v, x, m, 0 + 0, 0 + 0, paid + 0)
  BY <1>3, BookedTwice
<1>8. paid + 0 = paid /\ 0 + 0 = 0
  OBVIOUS
<1>10. /\ w \in Vaults
       /\ w.book[m].backing = x.book[m].backing
       /\ w.book[m].refundable = x.book[m].refundable - payout
       /\ w.book[m].redeemed = x.book[m].redeemed + payout
       /\ w.book[m].shortfall = x.book[m].shortfall
       /\ w.book[m].lp_fees = x.book[m].lp_fees
       /\ \A k \in Markets \ {m} : w.book[k] = x.book[k]
       /\ SameAccounts(x, w) /\ w.reserve = x.reserve
       /\ Worth(w) = Worth(x) - payout
  <2>1. Paid(x, w, m, payout)
    BY <1>6, PaidBook, Zenon
  <2> QED BY <2>1 DEF Paid
<1>11. LoansKept(w) /\ w.carry = v.carry
  BY <1>6, <1>7, <1>10, LoansSame DEF SameAccounts, Booked
<1>12. BooksKept(w)
  <2> SUFFICES ASSUME NEW k \in Markets
               PROVE  /\ w.book[k].refundable = w.book[k].backing - w.book[k].redeemed
                      /\ k \notin Lenders => w.book[k].shortfall = 0
    BY DEF BooksKept
  <2>1. /\ x.book[k].backing \in Int /\ x.book[k].refundable \in Int
        /\ x.book[k].redeemed \in Nat
        /\ x.book[k].refundable = x.book[k].backing - x.book[k].redeemed
        /\ k \notin Lenders => x.book[k].shortfall = 0
    BY <1>6, VaultFields DEF BooksKept
  <2>2. CASE k = m BY <1>10, <2>1, <2>2
  <2>3. CASE k # m BY <1>10, <2>1, <2>3
  <2> QED BY <2>2, <2>3
<1>13. ASSUME NEW k \in Markets
       PROVE  /\ w.book[k].lp_fees = v.book[k].lp_fees
              /\ w.book[k].redeemed = v.book[k].redeemed + (IF k = m THEN payout ELSE 0)
              /\ k # m => /\ k \notin Lenders => w.book[k].backing = v.book[k].backing
                          /\ v.book[k].refundable >= 0 => w.book[k].refundable >= 0
  <2>1. /\ x.book[k].redeemed = v.book[k].redeemed
        /\ k \notin Lenders => x.book[k].backing = v.book[k].backing + 0
        /\ x.book[k].lp_fees = v.book[k].lp_fees + 0
        /\ v.book[k].refundable >= 0 => x.book[k].refundable >= 0
    BY <1>7, <1>8 DEF Booked
  <2>2. v.book[k].backing \in Int /\ v.book[k].lp_fees \in Nat /\ v.book[k].redeemed \in Nat
    BY VaultFields
  <2>3. /\ w.book[k].lp_fees = x.book[k].lp_fees
        /\ w.book[k].redeemed = x.book[k].redeemed + (IF k = m THEN payout ELSE 0)
    <3>1. x.book[k].redeemed \in Nat
      BY <2>1, <2>2
    <3> QED BY <1>10, <3>1
  <2> QED BY <1>10, <2>1, <2>2, <2>3
<1>14. ASSUME m \notin Lenders
       PROVE  /\ Worth(w) = Worth(v) - payout
              /\ w.book[m].refundable >= v.book[m].refundable - claim
  <2>1. paid = 0
    BY <1>14
  <2>2. Worth(x) = Worth(v)
    BY <1>7, <1>8, <2>1, WorthInt DEF Booked
  <2>3. y.book[m] = v.book[m]
    BY <1>14 DEF Settles
  <2>4. payout <= claim
    BY <1>4, <1>14, <2>1 DEF BooksKept
  <2>5. v.book[m].refundable \in Int
    BY VaultFields
  <2> QED BY <1>10, <2>2, <2>3, <2>4, <2>5
<1>15. ASSUME v.book[m].refundable >= 0 PROVE w.book[m].refundable >= 0
  <2>1. x.book[m].refundable >= 0
    BY <1>7, <1>15 DEF Booked
  <2>2. /\ x.book[m].refundable \in Int /\ y.book[m] = x.book[m]
        /\ y.book[m].refundable = y.book[m].backing - y.book[m].redeemed
    BY <1>4, <1>6, VaultFields DEF BooksKept
  <2> QED BY <1>10, <2>1, <2>2
<1> QED BY <1>10, <1>11, <1>12, <1>13, <1>14, <1>15, Zenon DEF Rest

\* The debts of the position are withheld, the rest of the claim is paid.
LEMMA RestRedeemed ==
    ASSUME NEW v \in Vaults, BooksKept(v), LoansKept(v), NEW m \in Markets, NEW u \in Traders,
           NEW o \in Sides, NEW gross \in Nat, NEW claim \in Nat,
           NEW y, NEW paid, NEW own, own = withhold_parent_debt(v, m, u, o, gross, claim),
           y = own.vault, paid = own.repaid,
           NEW x, Booked(y, x, m, 0, 0, 0), x.book = y.book,
           NEW payout, payout = capped_payout(y, m, claim - paid),
           NEW w, w = PaidOut(x, m, payout)
    PROVE  Rest(v, w, m, claim, payout)
<1>1. /\ paid \in Nat /\ paid <= claim
      /\ m \notin Lenders => paid = 0
      /\ Settles(v, y, paid)
  <2>1. /\ own.repaid \in Nat /\ own.repaid <= claim
        /\ m \notin Lenders => own.repaid = 0
        /\ Settles(v, own.vault, own.repaid)
        /\ own.vault.parentDebt[<<m, u, o>>] <= Spend(v.parentDebt[<<m, u, o>>], claim)
    BY Withheld
  <2> QED BY <2>1
<1>2. y \in Vaults
  BY <1>1 DEF Settles
<1>3. claim - paid \in Nat /\ claim - paid \in Int
  BY <1>1
<1>4. /\ payout \in Nat
      /\ payout = 0 \/ payout <= y.book[m].backing - y.book[m].redeemed
      /\ y.book[m].shortfall = 0 => payout <= claim - paid
  BY <1>2, <1>3, CappedBounds
<1> QED BY <1>1, <1>4, RestPaid

\* What redeem_resolved owes for an amount of positions.
GrossOf(v, m, o, amount, final) ==
    IF final = "Invalid" THEN (v.carry[m] + amount) \div 2
    ELSE IF final = o THEN amount ELSE 0

CarryAfter(v, m, amount, gross) == [v.carry EXCEPT ![m] = (v.carry[m] + amount) - 2 * gross]

\* redeem_cancelled redeems a claim of its gross refund.
LEMMA CancelledRedeemed ==
    ASSUME NEW v \in Vaults, BooksKept(v), LoansKept(v), NEW u \in Traders, NEW m \in Markets,
           NEW o \in Sides, NEW amount \in Nat, NEW r, r = redeem_cancelled(v, u, m, o, amount),
           NEW gross, gross = GrossOf(v, m, o, amount, "Invalid")
    PROVE  /\ gross \in Nat /\ Redeems(v, r.vault, m, gross, r.payout)
           /\ r.vault.carry = CarryAfter(v, m, amount, gross)
<1> DEFINE h == half_refund(v, m, amount)
           x == h.vault
           own == withhold_parent_debt(x, m, u, o, h.gross, h.gross)
           y == own.vault
           paid == own.repaid
           payout == capped_payout(y, m, h.gross - paid)
           w == PaidOut(y, m, payout)
<1>1. /\ h.gross \in Nat /\ h.gross = gross
      /\ x \in Vaults /\ x.book = v.book /\ x.reserve = v.reserve
      /\ BooksKept(x) /\ LoansKept(x)
      /\ x.carry = CarryAfter(v, m, amount, gross)
  <2> DEFINE hh == h
  <2>1. gross = (v.carry[m] + amount) \div 2
    BY DEF GrossOf
  <2> HIDE DEF h
  <2>2. /\ h.gross \in Nat /\ h.gross = (v.carry[m] + amount) \div 2 /\ h.vault \in Vaults
        /\ h.vault.carry = [v.carry EXCEPT ![m] = (v.carry[m] + amount) - 2 * h.gross]
        /\ h.vault.book = v.book /\ h.vault.reserve = v.reserve
        /\ SameLoans(v, h.vault) /\ h.vault.stake = v.stake
        /\ BooksKept(h.vault) /\ LoansKept(h.vault)
    BY HalfRefund DEF h
  <2> QED BY <2>1, <2>2 DEF CarryAfter
<1>2. r.payout = payout /\ r.vault = w
  BY DEF redeem_cancelled
<1> HIDE DEF h, x
<1>3. Settles(x, y, paid)
  <2> HIDE DEF own
  <2> QED BY <1>1, Withheld DEF own
<1> HIDE DEF own
<1>4. y \in Vaults /\ BooksKept(y) /\ LoansKept(y)
  BY <1>1, <1>3, SettledIsKept DEF Settles
<1>5. Booked(y, y, m, 0, 0, 0)
  BY <1>4, SettlesNothing, SettlesBooked
<1>6. PICK g : g = h.gross
  OBVIOUS
<1>7. g \in Nat /\ own = withhold_parent_debt(x, m, u, o, g, g) /\ payout = capped_payout(y, m, g - paid)
      /\ g = gross
  BY <1>1, <1>6 DEF own
<1> HIDE DEF y, paid, payout, w
<1>8. Rest(x, w, m, g, payout)
  <2>1. y = own.vault /\ paid = own.repaid /\ w = PaidOut(y, m, payout)
    BY DEF y, paid, w
  <2> QED BY <1>1, <1>5, <1>7, <2>1, RestRedeemed
<1>9. Worth(x) = Worth(v)
  BY <1>1, WorthSame, Zenon
<1>10. Redeems(v, w, m, gross, payout)
  BY <1>1, <1>7, <1>8, <1>9 DEF Redeems, Rest
<1> QED BY <1>1, <1>2, <1>8, <1>10 DEF Rest

\* What a claim owes upstream is paid out of the market's own book.
UpstreamOf(x, z, m, gross, applied) ==
    /\ applied \in Nat /\ applied <= gross
    /\ z \in Vaults /\ BooksKept(z) /\ LoansKept(z) /\ z.carry = x.carry
    /\ Worth(z) = Worth(x)
    /\ \A k \in Markets :
         /\ z.book[k].lp_fees = x.book[k].lp_fees /\ z.book[k].redeemed = x.book[k].redeemed
         /\ k # m => /\ k \notin Lenders => z.book[k].backing = x.book[k].backing
                     /\ x.book[k].refundable >= 0 => z.book[k].refundable >= 0
    /\ m \notin Lenders => z.book[m].refundable = x.book[m].refundable - applied
    /\ m \in Lenders \ Borrowers /\ x.book[m].refundable >= 0 => z.book[m].refundable >= 0

\* Paying a child's debt out of a claim moves backing between two books.
LEMMA UpstreamPaid ==
    ASSUME NEW x \in Vaults, BooksKept(x), LoansKept(x), NEW m \in Markets, NEW u \in Traders,
           NEW gross \in Nat, NEW s, s = settle_child_debt(x, m, u, gross),
           NEW z, z = Credited(s.vault, m, 0 - s.applied)
    PROVE  UpstreamOf(x, z, m, gross, s.applied)
<1>1. PICK y, a : y = s.vault /\ a = s.applied
  OBVIOUS
<1>2. /\ Settles(x, y, a) /\ a \in Nat /\ a <= gross /\ a <= x.childDebt[<<m, u>>]
  BY <1>1, DebtSettled
<1>3. z = Credited(y, m, 0 - a) /\ 0 - a \in Int
  BY <1>1, <1>2
<1>4. Booked(x, y, m, 0, 0, a)
  BY <1>2, SettlesBooked
<1>5. y \in Vaults /\ BooksKept(y) /\ LoansKept(y)
  BY <1>4 DEF Booked
<1>6. /\ z \in Vaults /\ Backed(y.book[m], z.book[m], 0 - a)
      /\ \A k \in Markets \ {m} : z.book[k] = y.book[k]
      /\ SameAccounts(y, z) /\ Worth(z) = Worth(y) + (0 - a)
  BY <1>3, <1>5, CreditedBook
<1>7. LoansKept(z) /\ z.carry = x.carry
  BY <1>4, <1>5, <1>6, LoansSame DEF SameAccounts, Booked
<1>8. Worth(z) = Worth(x)
  <2>1. Worth(x) \in Int /\ Worth(y) = Worth(x) + a
    BY <1>4, WorthInt DEF Booked
  <2> QED BY <1>2, <1>6, <2>1
<1>9. BooksKept(z)
  <2> SUFFICES ASSUME NEW k \in Markets
               PROVE  /\ z.book[k].refundable = z.book[k].backing - z.book[k].redeemed
                      /\ k \notin Lenders => z.book[k].shortfall = 0
    BY DEF BooksKept
  <2>1. /\ y.book[k].backing \in Int /\ y.book[k].refundable \in Int
        /\ y.book[k].redeemed \in Nat
        /\ y.book[k].refundable = y.book[k].backing - y.book[k].redeemed
        /\ k \notin Lenders => y.book[k].shortfall = 0
    BY <1>5, VaultFields DEF BooksKept
  <2>2. CASE k = m BY <1>2, <1>6, <2>1, <2>2 DEF Backed
  <2>3. CASE k # m BY <1>6, <2>1, <2>3
  <2> QED BY <2>2, <2>3
<1>10. ASSUME NEW k \in Markets
       PROVE  /\ z.book[k].lp_fees = x.book[k].lp_fees
              /\ z.book[k].redeemed = x.book[k].redeemed
              /\ k # m => /\ k \notin Lenders => z.book[k].backing = x.book[k].backing
                          /\ x.book[k].refundable >= 0 => z.book[k].refundable >= 0
  <2>1. x.book[k].backing \in Int /\ x.book[k].lp_fees \in Nat
    BY VaultFields
  <2>2. /\ y.book[k].redeemed = x.book[k].redeemed
        /\ k \notin Lenders => y.book[k].backing = x.book[k].backing + 0
        /\ y.book[k].lp_fees = x.book[k].lp_fees + 0
        /\ x.book[k].refundable >= 0 => y.book[k].refundable >= 0
    BY <1>4 DEF Booked
  <2>3. CASE k = m BY <1>6, <2>1, <2>2, <2>3 DEF Backed
  <2>4. CASE k # m BY <1>6, <2>1, <2>2, <2>4
  <2> QED BY <2>3, <2>4
<1>11. y.book[m].refundable \in Int /\ x.book[m].refundable \in Int
  BY <1>5, VaultFields
<1>12. ASSUME m \notin Lenders PROVE z.book[m].refundable = x.book[m].refundable - a
  <2>1. y.book[m] = x.book[m]
    BY <1>2, <1>12 DEF Settles
  <2> QED BY <1>2, <1>6, <1>11, <2>1 DEF Backed
<1>13. ASSUME m \in Lenders \ Borrowers, x.book[m].refundable >= 0
       PROVE  z.book[m].refundable >= 0
  <2>1. a = 0
    <3>1. <<m, u>> \in Accounts /\ <<m, u>>[1] = m
      BY DEF Accounts
    <3>2. x.childDebt[<<m, u>>] = 0
      BY <1>13, <3>1 DEF LoansKept
    <3> QED BY <1>2, <3>2
  <2>2. y.book[m].refundable >= 0
    BY <1>4, <1>13 DEF Booked
  <2> QED BY <1>6, <1>11, <2>1, <2>2 DEF Backed
<1>14. UpstreamOf(x, z, m, gross, a)
  BY <1>2, <1>6, <1>7, <1>8, <1>9, <1>10, <1>12, <1>13 DEF UpstreamOf
<1> QED BY <1>1, <1>14

\* redeem_resolved redeems a claim of its gross payout.
LEMMA ResolvedRedeemed ==
    ASSUME NEW v \in Vaults, BooksKept(v), LoansKept(v), NEW u \in Traders, NEW m \in Markets,
           NEW o \in Sides, NEW amount \in Nat, NEW final,
           NEW r, r = redeem_resolved(v, u, m, o, amount, final),
           NEW gross, gross = GrossOf(v, m, o, amount, final)
    PROVE  /\ gross \in Nat /\ Redeems(v, r.vault, m, gross, r.payout)
           /\ r.vault.carry = IF final = "Invalid" THEN CarryAfter(v, m, amount, gross)
                              ELSE v.carry
<1> DEFINE h == CASE final = "Invalid" -> half_refund(v, m, amount)
                  [] final = o -> [gross |-> amount, vault |-> v]
                  [] OTHER -> [gross |-> 0, vault |-> v]
           x == h.vault
           s == settle_child_debt(x, m, u, h.gross)
           z == Credited(s.vault, m, 0 - s.applied)
           own == withhold_parent_debt(z, m, u, o, h.gross, h.gross - s.applied)
           y == own.vault
           st == [y.stake EXCEPT ![<<m, u, o>>] = Spend(@, h.gross)]
           q == [y EXCEPT !.stake[<<m, u, o>>] = Spend(@, h.gross)]
           paid == own.repaid
           payout == capped_payout(y, m, (h.gross - s.applied) - paid)
           w == PaidOut(q, m, payout)
<1>0. o # "Invalid"
  BY DEF Sides
<1>1. /\ h.gross \in Nat /\ h.gross = gross
      /\ x \in Vaults /\ x.book = v.book /\ x.reserve = v.reserve
      /\ BooksKept(x) /\ LoansKept(x)
      /\ x.carry = IF final = "Invalid" THEN CarryAfter(v, m, amount, gross) ELSE v.carry
  <2>1. CASE final = "Invalid"
    <3> DEFINE hr == half_refund(v, m, amount)
    <3>1. h = hr
      BY <1>0, <2>1
    <3> HIDE DEF h, hr
    <3>2. /\ hr.gross \in Nat /\ hr.gross = (v.carry[m] + amount) \div 2 /\ hr.vault \in Vaults
          /\ hr.vault.carry = [v.carry EXCEPT ![m] = (v.carry[m] + amount) - 2 * hr.gross]
          /\ hr.vault.book = v.book /\ hr.vault.reserve = v.reserve
          /\ SameLoans(v, hr.vault) /\ hr.vault.stake = v.stake
          /\ BooksKept(hr.vault) /\ LoansKept(hr.vault)
      BY HalfRefund DEF hr
    <3>3. gross = (v.carry[m] + amount) \div 2
      BY <2>1 DEF GrossOf
    <3> QED BY <2>1, <3>1, <3>2, <3>3 DEF CarryAfter
  <2>2. CASE final # "Invalid" /\ final = o
    <3>1. h = [gross |-> amount, vault |-> v]
      BY <2>2
    <3>2. gross = amount
      BY <2>2 DEF GrossOf
    <3> HIDE DEF h
    <3> QED BY <2>2, <3>1, <3>2
  <2>3. CASE final # "Invalid" /\ final # o
    <3>1. h = [gross |-> 0, vault |-> v]
      BY <2>3
    <3>2. gross = 0
      BY <2>3 DEF GrossOf
    <3> HIDE DEF h
    <3> QED BY <2>3, <3>1, <3>2
  <2> QED BY <2>1, <2>2, <2>3
<1>2. r.payout = payout /\ r.vault = w
  <2>1. r = [payout |-> payout, vault |-> w]
    BY Zenon DEF redeem_resolved
  <2> HIDE DEF payout, w
  <2> QED BY <2>1
<1> HIDE DEF h, x
<1>3. PICK a : a = s.applied
  OBVIOUS
<1>4. /\ a \in Nat /\ a <= gross
      /\ z \in Vaults /\ BooksKept(z) /\ LoansKept(z) /\ z.carry = x.carry
      /\ Worth(z) = Worth(x)
      /\ \A k \in Markets :
           /\ z.book[k].lp_fees = x.book[k].lp_fees /\ z.book[k].redeemed = x.book[k].redeemed
           /\ k # m => /\ k \notin Lenders => z.book[k].backing = x.book[k].backing
                       /\ x.book[k].refundable >= 0 => z.book[k].refundable >= 0
      /\ m \notin Lenders => z.book[m].refundable = x.book[m].refundable - a
      /\ m \in Lenders \ Borrowers /\ x.book[m].refundable >= 0
           => z.book[m].refundable >= 0
  <2>0. UpstreamOf(x, z, m, gross, a)
    <3> HIDE DEF s
    <3>1. s = settle_child_debt(x, m, u, gross)
      BY <1>1 DEF s
    <3> HIDE DEF z
    <3>2. z = Credited(s.vault, m, 0 - s.applied)
      BY DEF z
    <3> HIDE DEF x
    <3>3. gross \in Nat /\ x \in Vaults /\ BooksKept(x) /\ LoansKept(x)
      BY <1>1
    <3> QED BY <1>3, <3>1, <3>2, <3>3, UpstreamPaid
  <2> HIDE DEF s, z
  <2> QED BY <2>0 DEF UpstreamOf
<1> HIDE DEF s, z
<1>5. PICK claim : claim = gross - a
  OBVIOUS
<1>6. claim \in Nat /\ claim <= gross /\ gross \in Nat
  BY <1>1, <1>4, <1>5
<1>7. own = withhold_parent_debt(z, m, u, o, gross, claim)
  BY <1>1, <1>3, <1>5
<1> HIDE DEF own
<1>8. Settles(z, y, paid)
  BY <1>4, <1>6, <1>7, Withheld
<1> HIDE DEF y
<1>9. y \in Vaults /\ BooksKept(y) /\ LoansKept(y)
  BY <1>4, <1>8, SettledIsKept DEF Settles
<1>10. st \in [Positions -> Nat]
  <2>1. y.stake \in [Positions -> Nat] /\ <<m, u, o>> \in Positions
    BY <1>9, VaultFields DEF Positions
  <2>2. y.stake[<<m, u, o>>] \in Nat
    BY <2>1
  <2>3. Spend(y.stake[<<m, u, o>>], h.gross) \in Nat
    BY <1>1, <2>2, SpendBounds
  <2> QED BY <2>1, <2>3
<1>11. q = [y EXCEPT !.stake = st]
  BY <1>9 DEF Vaults
<1> HIDE DEF st, q
<1>12. Booked(y, q, m, 0, 0, 0) /\ q.book = y.book
  BY <1>9, <1>10, <1>11, StakeBooked
<1>13. payout = capped_payout(y, m, claim - paid)
  BY <1>1, <1>3, <1>5
<1> HIDE DEF payout, paid, w
<1>14. Rest(z, w, m, claim, payout)
  <2>1. y = own.vault /\ paid = own.repaid /\ w = PaidOut(q, m, payout)
    BY DEF y, paid, w
  <2> QED BY <1>4, <1>6, <1>7, <1>12, <1>13, <2>1, RestRedeemed
<1>15. Worth(x) = Worth(v)
  BY <1>1, WorthSame, Zenon
<1>16. ASSUME m \notin Lenders PROVE w.book[m].refundable >= v.book[m].refundable - gross
  <2>1. w.book[m].refundable >= z.book[m].refundable - claim
    BY <1>14, <1>16 DEF Rest
  <2>2. z.book[m].refundable = v.book[m].refundable - a
    BY <1>1, <1>4, <1>16
  <2>3. v.book[m].refundable \in Int /\ w.book[m].refundable \in Int
    BY <1>14, VaultFields DEF Rest
  <2> QED BY <1>4, <1>5, <1>6, <2>1, <2>2, <2>3
<1>17. ASSUME NEW k \in Markets
       PROVE  /\ w.book[k].lp_fees = v.book[k].lp_fees
              /\ w.book[k].redeemed = v.book[k].redeemed + (IF k = m THEN payout ELSE 0)
              /\ k # m => /\ k \notin Lenders => w.book[k].backing = v.book[k].backing
                          /\ v.book[k].refundable >= 0 => w.book[k].refundable >= 0
  BY <1>1, <1>4, <1>14 DEF Rest
<1>18. Redeems(v, w, m, gross, payout)
  <2>1. m \notin Lenders => Worth(w) = Worth(v) - payout
    BY <1>4, <1>14, <1>15 DEF Rest
  <2>2. m \in Lenders \ Borrowers /\ v.book[m].refundable >= 0 => w.book[m].refundable >= 0
    BY <1>1, <1>4, <1>14 DEF Rest
  <2>3. w \in Vaults /\ BooksKept(w) /\ LoansKept(w) /\ payout \in Nat
    BY <1>14 DEF Rest
  <2> QED BY <1>16, <1>17, <2>1, <2>2, <2>3, Zenon DEF Redeems
<1>19. w.carry = IF final = "Invalid" THEN CarryAfter(v, m, amount, gross) ELSE v.carry
  BY <1>1, <1>4, <1>14 DEF Rest
<1> QED BY <1>2, <1>6, <1>18, <1>19

-----------------------------------------------------------------------------
(* The positions.  Between the calls of a transaction a balance is an      *)
(* integer; the guards make it a natural number.                            *)

Tokens == Markets \X Holders \X Sides

SupplyIn(p, m, o) == SumFunctionOnSet([h \in Holders |-> p[<<m, h, o>>]], Holders)

\* Sums over holders are finite.
LEMMA HoldersFinite == IsFiniteSet(Holders)
<1>1. IsFiniteSet(Traders \cup {"amm"})
  BY FiniteInstance, FS_AddElement
<1> QED BY <1>1 DEF Holders

\* The supply of a side is a number.
LEMMA SupplyInt ==
    ASSUME NEW p \in [Tokens -> Int], NEW m \in Markets, NEW o \in Sides
    PROVE  SupplyIn(p, m, o) \in Int
<1> DEFINE f == [h \in Holders |-> p[<<m, h, o>>]]
<1>1. \A h \in Holders : f[h] \in Int
  BY DEF Tokens
<1> HIDE DEF f
<1>2. SumFunctionOnSet(f, Holders) \in Int
  BY <1>1, HoldersFinite, SumInt
<1> QED BY <1>2 DEF f, SupplyIn

\* What Added does, to a balance and to the supply.
Adds(p, q, m, h, o, a) ==
    /\ q \in [Tokens -> Int]
    /\ q[<<m, h, o>>] = p[<<m, h, o>>] + a
    /\ \A k \in Tokens : k # <<m, h, o>> => q[k] = p[k]
    /\ \A n \in Markets, s \in Sides :
         SupplyIn(q, n, s) = SupplyIn(p, n, s) + (IF n = m /\ s = o THEN a ELSE 0)

\* A balance that changes changes the supply of its side.
LEMMA AddedSupply ==
    ASSUME NEW p \in [Tokens -> Int], NEW m \in Markets, NEW h \in Holders, NEW o \in Sides,
           NEW a \in Int, NEW q, q = Added(p, m, h, o, a)
    PROVE  Adds(p, q, m, h, o, a)
<1>1. <<m, h, o>> \in Tokens
  BY DEF Tokens
<1>2. /\ q \in [Tokens -> Int]
      /\ q[<<m, h, o>>] = p[<<m, h, o>>] + a
      /\ \A k \in Tokens : k # <<m, h, o>> => q[k] = p[k]
  BY <1>1 DEF Added
<1>3. ASSUME NEW n \in Markets, NEW s \in Sides
      PROVE  SupplyIn(q, n, s) = SupplyIn(p, n, s) + (IF n = m /\ s = o THEN a ELSE 0)
  <2> DEFINE f == [x \in Holders |-> p[<<n, x, s>>]]
             g == [x \in Holders |-> q[<<n, x, s>>]]
  <2>1. \A x \in Holders : <<n, x, s>> \in Tokens
    BY DEF Tokens
  <2>2. \A x \in Holders : f[x] \in Int /\ g[x] \in Int
    BY <1>2, <2>1
  <2>3. SumFunctionOnSet(f, Holders) \in Int
    <3> HIDE DEF f
    <3> QED BY <2>2, HoldersFinite, SumInt
  <2>4. CASE n = m /\ s = o
    <3>1. \A x \in Holders \ {h} : g[x] = f[x]
      <4>1. \A x \in Holders : x # h => <<n, x, s>> # <<m, h, o>>
        OBVIOUS
      <4> QED BY <1>2, <2>1, <4>1
    <3>2. g[h] - f[h] = a
      BY <1>1, <1>2, <2>4
    <3> HIDE DEF f, g
    <3>3. SumFunctionOnSet(g, Holders) = SumFunctionOnSet(f, Holders) + (g[h] - f[h])
      BY <2>2, <3>1, HoldersFinite, SumChange
    <3> QED BY <2>4, <3>2, <3>3 DEF f, g, SupplyIn
  <2>5. CASE ~(n = m /\ s = o)
    <3>1. \A x \in Holders : f[x] = g[x]
      <4>1. \A x \in Holders : <<n, x, s>> # <<m, h, o>>
        BY <2>5
      <4> QED BY <1>2, <2>1, <4>1
    <3> HIDE DEF f, g
    <3>2. SumFunctionOnSet(f, Holders) = SumFunctionOnSet(g, Holders)
      BY <3>1, HoldersFinite, SumSame
    <3>3. SumFunctionOnSet(g, Holders) = SumFunctionOnSet(f, Holders) + 0
      BY <2>3, <3>2
    <3> QED BY <2>5, <3>3 DEF f, g, SupplyIn
  <2> QED BY <2>4, <2>5
<1> QED BY <1>2, <1>3, Zenon DEF Adds

\* A transfer keeps the supply.
Shifts(p, q, m, from, to, o, a) ==
    /\ q \in [Tokens -> Int]
    /\ from # to => /\ q[<<m, from, o>>] = p[<<m, from, o>>] - a
                    /\ q[<<m, to, o>>] = p[<<m, to, o>>] + a
    /\ from = to => q[<<m, to, o>>] = p[<<m, to, o>>]
    /\ \A k \in Tokens : k \notin {<<m, from, o>>, <<m, to, o>>} => q[k] = p[k]
    /\ \A n \in Markets, s \in Sides : SupplyIn(q, n, s) = SupplyIn(p, n, s)

\* A transfer changes no supply.
LEMMA MovedSupply ==
    ASSUME NEW p \in [Tokens -> Int], NEW m \in Markets, NEW from \in Holders,
           NEW to \in Holders, NEW o \in Sides, NEW a \in Int,
           NEW q, q = Moved(p, m, from, to, o, a)
    PROVE  Shifts(p, q, m, from, to, o, a)
<1> DEFINE r == Added(p, m, from, o, 0 - a)
<1>0. 0 - a \in Int
  OBVIOUS
<1>1. q = Added(r, m, to, o, a)
  BY Zenon DEF Moved
<1>2. Adds(p, r, m, from, o, 0 - a)
  <2> HIDE DEF r
  <2> QED BY <1>0, AddedSupply DEF r
<1> HIDE DEF r
<1>3. r \in [Tokens -> Int]
  BY <1>2 DEF Adds
<1>4. Adds(r, q, m, to, o, a)
  BY <1>1, <1>3, AddedSupply
<1>5. <<m, from, o>> \in Tokens /\ <<m, to, o>> \in Tokens
  BY DEF Tokens
<1>6. p[<<m, from, o>>] \in Int /\ p[<<m, to, o>>] \in Int
  BY <1>5
<1>7. ASSUME NEW n \in Markets, NEW s \in Sides
      PROVE  SupplyIn(q, n, s) = SupplyIn(p, n, s)
  <2>1. SupplyIn(p, n, s) \in Int
    BY SupplyInt
  <2>2. /\ SupplyIn(r, n, s) = SupplyIn(p, n, s) + (IF n = m /\ s = o THEN 0 - a ELSE 0)
        /\ SupplyIn(q, n, s) = SupplyIn(r, n, s) + (IF n = m /\ s = o THEN a ELSE 0)
    BY <1>2, <1>4 DEF Adds
  <2> QED BY <2>1, <2>2
<1>8. /\ from # to => /\ q[<<m, from, o>>] = p[<<m, from, o>>] - a
                      /\ q[<<m, to, o>>] = p[<<m, to, o>>] + a
      /\ from = to => q[<<m, to, o>>] = p[<<m, to, o>>]
      /\ \A k \in Tokens : k \notin {<<m, from, o>>, <<m, to, o>>} => q[k] = p[k]
  <2>1. from # to => <<m, from, o>> # <<m, to, o>>
    OBVIOUS
  <2>2. /\ r[<<m, from, o>>] = p[<<m, from, o>>] + (0 - a)
        /\ q[<<m, to, o>>] = r[<<m, to, o>>] + a
        /\ \A k \in Tokens : k # <<m, from, o>> => r[k] = p[k]
        /\ \A k \in Tokens : k # <<m, to, o>> => q[k] = r[k]
    BY <1>2, <1>4 DEF Adds
  <2> QED BY <1>5, <1>6, <2>1, <2>2
<1>9. q \in [Tokens -> Int]
  BY <1>4 DEF Adds
<1> QED BY <1>7, <1>8, <1>9, Zenon DEF Shifts

\* Complete sets minted into the pool, or merged from it.
Mints(p, q, m, a) ==
    /\ q \in [Tokens -> Int]
    /\ \A o \in Sides : q[<<m, "amm", o>>] = p[<<m, "amm", o>>] + a
    /\ \A k \in Tokens : k[1] # m \/ k[2] # "amm" => q[k] = p[k]
    /\ \A n \in Markets, s \in Sides :
         SupplyIn(q, n, s) = SupplyIn(p, n, s) + (IF n = m THEN a ELSE 0)

\* Minting or merging sets changes both supplies alike.
LEMMA MintedSupply ==
    ASSUME NEW p \in [Tokens -> Int], NEW m \in Markets, NEW a \in Int,
           NEW q, q = Minted(p, m, a)
    PROVE  Mints(p, q, m, a)
<1> DEFINE r == Added(p, m, "amm", "Yes", a)
<1>0. "amm" \in Holders /\ "Yes" \in Sides /\ "No" \in Sides /\ Sides = {"Yes", "No"}
  BY DEF Holders, Sides
<1>1. q = Added(r, m, "amm", "No", a)
  BY Zenon DEF Minted
<1>2. Adds(p, r, m, "amm", "Yes", a)
  <2> HIDE DEF r
  <2> QED BY <1>0, AddedSupply DEF r
<1> HIDE DEF r
<1>3. r \in [Tokens -> Int]
  BY <1>2 DEF Adds
<1>4. Adds(r, q, m, "amm", "No", a)
  BY <1>0, <1>1, <1>3, AddedSupply
<1>5. ASSUME NEW n \in Markets, NEW s \in Sides
      PROVE  SupplyIn(q, n, s) = SupplyIn(p, n, s) + (IF n = m THEN a ELSE 0)
  <2>1. SupplyIn(p, n, s) \in Int
    BY SupplyInt
  <2>2. /\ SupplyIn(r, n, s) = SupplyIn(p, n, s) + (IF n = m /\ s = "Yes" THEN a ELSE 0)
        /\ SupplyIn(q, n, s) = SupplyIn(r, n, s) + (IF n = m /\ s = "No" THEN a ELSE 0)
    BY <1>2, <1>4 DEF Adds
  <2>3. CASE s = "Yes" BY <2>1, <2>2, <2>3
  <2>4. CASE s = "No" BY <2>1, <2>2, <2>4
  <2> QED BY <1>0, <2>3, <2>4
<1>6. /\ \A o \in Sides : q[<<m, "amm", o>>] = p[<<m, "amm", o>>] + a
      /\ \A k \in Tokens : k[1] # m \/ k[2] # "amm" => q[k] = p[k]
  <2>1. <<m, "amm", "Yes">> \in Tokens /\ <<m, "amm", "No">> \in Tokens
    BY <1>0 DEF Tokens
  <2>2. /\ r[<<m, "amm", "Yes">>] = p[<<m, "amm", "Yes">>] + a
        /\ q[<<m, "amm", "No">>] = r[<<m, "amm", "No">>] + a
        /\ \A k \in Tokens : k # <<m, "amm", "Yes">> => r[k] = p[k]
        /\ \A k \in Tokens : k # <<m, "amm", "No">> => q[k] = r[k]
    BY <1>2, <1>4 DEF Adds
  <2>3. <<m, "amm", "Yes">> # <<m, "amm", "No">>
    OBVIOUS
  <2>4. q[<<m, "amm", "Yes">>] = p[<<m, "amm", "Yes">>] + a
    BY <2>1, <2>2, <2>3
  <2>5. q[<<m, "amm", "No">>] = p[<<m, "amm", "No">>] + a
    BY <2>1, <2>2, <2>3
  <2>6. ASSUME NEW k \in Tokens, k[1] # m \/ k[2] # "amm" PROVE q[k] = p[k]
    <3>1. k # <<m, "amm", "Yes">> /\ k # <<m, "amm", "No">>
      BY <2>6
    <3> QED BY <2>2, <3>1
  <2> QED BY <1>0, <2>4, <2>5, <2>6
<1>7. q \in [Tokens -> Int]
  BY <1>4 DEF Adds
<1> QED BY <1>5, <1>6, <1>7, Zenon DEF Mints

\* What a trade does to the positions: the pool's own change by `d`, the supply
\* of both sides by `n`.
Deals(p, q, m, n, d) ==
    /\ q \in [Tokens -> Nat]
    /\ \A s \in Sides : q[<<m, "amm", s>>] = p[<<m, "amm", s>>] + d[s]
    /\ \A k \in Markets \ {m}, s \in Sides : q[<<k, "amm", s>>] = p[<<k, "amm", s>>]
    /\ \A k \in Markets, s \in Sides :
         SupplyIn(q, k, s) = SupplyIn(p, k, s) + (IF k = m THEN n ELSE 0)

\* Naturals are integers.
LEMMA TokensInt == \A p \in [Tokens -> Nat] : p \in [Tokens -> Int]
OBVIOUS

\* The contracts are not among the traders.
LEMMA TraderNames == \A u \in Traders : u # "amm" /\ u # "vault" /\ u # "treasury"
BY TraderAssumption

\* Sets minted into the pool.
LEMMA MintDeals ==
    ASSUME NEW p \in [Tokens -> Nat], NEW m \in Markets, NEW n \in Nat,
           NEW q, q = Minted(p, m, n), NEW d, \A s \in Sides : d[s] = n
    PROVE  Deals(p, q, m, n, d)
<1>1. Mints(p, q, m, n)
  BY TokensInt, MintedSupply
<1>2. \A k \in Tokens : q[k] >= 0
  <2> SUFFICES ASSUME NEW k \in Tokens PROVE q[k] >= 0
    OBVIOUS
  <2>1. CASE k[1] # m \/ k[2] # "amm" BY <1>1, <2>1 DEF Mints
  <2>2. CASE k[1] = m /\ k[2] = "amm"
    <3>1. PICK o \in Sides : k = <<m, "amm", o>>
      BY <2>2 DEF Tokens
    <3> QED BY <1>1, <3>1 DEF Mints
  <2> QED BY <2>1, <2>2
<1>3. q \in [Tokens -> Nat]
  BY <1>1, <1>2 DEF Mints
<1>4. \A s \in Sides : q[<<m, "amm", s>>] = p[<<m, "amm", s>>] + d[s]
  BY <1>1 DEF Mints
<1>5. ASSUME NEW k \in Markets \ {m}, NEW s \in Sides
      PROVE  q[<<k, "amm", s>>] = p[<<k, "amm", s>>]
  <2>1. <<k, "amm", s>> \in Tokens
    BY DEF Tokens, Holders
  <2> QED BY <1>1, <2>1 DEF Mints
<1>6. \A k \in Markets, s \in Sides :
        SupplyIn(q, k, s) = SupplyIn(p, k, s) + (IF k = m THEN n ELSE 0)
  BY <1>1 DEF Mints
<1> QED BY <1>3, <1>4, <1>5, <1>6, Zenon DEF Deals

\* The pool hands over what it mints for a purchase.
LEMMA BuyDeals ==
    ASSUME NEW p \in [Tokens -> Nat], NEW m \in Markets, NEW u \in Traders, NEW o \in Sides,
           NEW n \in Nat, NEW a \in Int, NEW r, r = Minted(p, m, n), CanSub(r, m, "amm", o, a),
           NEW q, q = Moved(r, m, "amm", u, o, a),
           NEW d, \A s \in Sides : d[s] = n - (IF s = o THEN a ELSE 0)
    PROVE  Deals(p, q, m, n, d)
<1>1. Deals(p, r, m, n, [s \in Sides |-> n])
  BY MintDeals
<1>2. r \in [Tokens -> Nat]
  BY <1>1 DEF Deals
<1>3. "amm" \in Holders /\ u \in Holders /\ u # "amm"
  BY TraderNames DEF Holders
<1>4. Shifts(r, q, m, "amm", u, o, a)
  <2>1. r \in [Tokens -> Int]
    BY <1>2
  <2> QED BY <1>3, <2>1, MovedSupply
<1>5. q \in [Tokens -> Int]
  BY <1>4 DEF Shifts
<1>6. /\ q[<<m, "amm", o>>] = r[<<m, "amm", o>>] - a
      /\ q[<<m, u, o>>] = r[<<m, u, o>>] + a
      /\ \A k \in Tokens : k \notin {<<m, "amm", o>>, <<m, u, o>>} => q[k] = r[k]
  BY <1>3, <1>4 DEF Shifts
<1>7. a > 0 /\ a <= r[<<m, "amm", o>>]
  BY DEF CanSub
<1>8. <<m, "amm", o>> \in Tokens /\ <<m, u, o>> \in Tokens
  BY <1>3 DEF Tokens
<1>9. q \in [Tokens -> Nat]
  <2> SUFFICES ASSUME NEW k \in Tokens PROVE q[k] \in Nat
    BY <1>5
  <2> QED BY <1>2, <1>6, <1>7, <1>8
<1>10. ASSUME NEW s \in Sides PROVE q[<<m, "amm", s>>] = p[<<m, "amm", s>>] + d[s]
  <2>0. <<m, "amm", s>> \in Tokens
    BY <1>3 DEF Tokens
  <2>1. r[<<m, "amm", s>>] = p[<<m, "amm", s>>] + n
    BY <1>1 DEF Deals
  <2>2. p[<<m, "amm", s>>] \in Nat
    BY <2>0
  <2>3. CASE s = o
    BY <1>6, <2>1, <2>2, <2>3
  <2>4. CASE s # o
    <3>1. <<m, "amm", s>> \notin {<<m, "amm", o>>, <<m, u, o>>}
      BY <2>4
    <3>2. q[<<m, "amm", s>>] = r[<<m, "amm", s>>]
      BY <1>6, <2>0, <3>1
    <3> QED BY <2>1, <2>2, <2>4, <3>2
  <2> QED BY <2>3, <2>4
<1>11. ASSUME NEW k \in Markets \ {m}, NEW s \in Sides
       PROVE  q[<<k, "amm", s>>] = p[<<k, "amm", s>>]
  <2>1. <<k, "amm", s>> \in Tokens /\ <<k, "amm", s>> \notin {<<m, "amm", o>>, <<m, u, o>>}
    BY <1>3 DEF Tokens
  <2>2. r[<<k, "amm", s>>] = p[<<k, "amm", s>>]
    BY <1>1 DEF Deals
  <2> QED BY <1>6, <2>1, <2>2
<1>12. ASSUME NEW k \in Markets, NEW s \in Sides
       PROVE  SupplyIn(q, k, s) = SupplyIn(p, k, s) + (IF k = m THEN n ELSE 0)
  <2>1. SupplyIn(q, k, s) = SupplyIn(r, k, s)
    BY <1>4 DEF Shifts
  <2> QED BY <1>1, <2>1 DEF Deals
<1> QED BY <1>9, <1>10, <1>11, <1>12, Zenon DEF Deals

\* The pool takes positions in and merges sets.
LEMMA SellDeals ==
    ASSUME NEW p \in [Tokens -> Nat], NEW m \in Markets, NEW u \in Traders, NEW o \in Sides,
           NEW g \in Int, NEW a \in Int, CanSub(p, m, u, o, a),
           NEW r, r = Moved(p, m, u, "amm", o, a), CanMerge(r, m, g),
           NEW q, q = Minted(r, m, 0 - g),
           NEW d, \A s \in Sides : d[s] = (IF s = o THEN a ELSE 0) - g
    PROVE  Deals(p, q, m, 0 - g, d)
<1>1. "amm" \in Holders /\ u \in Holders /\ u # "amm"
  BY TraderNames DEF Holders
<1>2. Shifts(p, r, m, u, "amm", o, a)
  <2>1. p \in [Tokens -> Int]
    OBVIOUS
  <2> QED BY <1>1, <2>1, MovedSupply
<1>3. r \in [Tokens -> Int]
  BY <1>2 DEF Shifts
<1>4. 0 - g \in Int
  OBVIOUS
<1>5. Mints(r, q, m, 0 - g)
  BY <1>3, <1>4, MintedSupply
<1>6. a > 0 /\ a <= p[<<m, u, o>>] /\ \A s \in Sides : g <= r[<<m, "amm", s>>]
  BY DEF CanSub, CanMerge
<1>7. /\ r[<<m, u, o>>] = p[<<m, u, o>>] - a
      /\ r[<<m, "amm", o>>] = p[<<m, "amm", o>>] + a
      /\ \A k \in Tokens : k \notin {<<m, u, o>>, <<m, "amm", o>>} => r[k] = p[k]
  BY <1>1, <1>2 DEF Shifts
<1>8. <<m, "amm", o>> \in Tokens /\ <<m, u, o>> \in Tokens
  BY <1>1 DEF Tokens
<1>9. \A k \in Tokens : r[k] >= 0
  BY <1>3, <1>6, <1>7, <1>8
<1>10. q \in [Tokens -> Nat]
  <2>1. q \in [Tokens -> Int]
    BY <1>5 DEF Mints
  <2> SUFFICES ASSUME NEW k \in Tokens PROVE q[k] >= 0
    BY <2>1
  <2>2. CASE k[1] # m \/ k[2] # "amm"
    BY <1>5, <1>9, <2>2 DEF Mints
  <2>3. CASE k[1] = m /\ k[2] = "amm"
    <3>1. PICK s \in Sides : k = <<m, "amm", s>>
      BY <2>3 DEF Tokens
    <3>2. q[<<m, "amm", s>>] = r[<<m, "amm", s>>] + (0 - g)
      BY <1>5 DEF Mints
    <3>3. r[<<m, "amm", s>>] \in Int
      BY <1>3, <3>1
    <3> QED BY <1>6, <3>1, <3>2, <3>3
  <2> QED BY <2>2, <2>3
<1>11. ASSUME NEW s \in Sides PROVE q[<<m, "amm", s>>] = p[<<m, "amm", s>>] + d[s]
  <2>0. <<m, "amm", s>> \in Tokens
    BY <1>1 DEF Tokens
  <2>1. q[<<m, "amm", s>>] = r[<<m, "amm", s>>] + (0 - g)
    BY <1>5 DEF Mints
  <2>2. p[<<m, "amm", s>>] \in Nat
    BY <2>0
  <2>3. CASE s = o
    BY <1>7, <2>1, <2>2, <2>3
  <2>4. CASE s # o
    <3>1. <<m, "amm", s>> \notin {<<m, u, o>>, <<m, "amm", o>>}
      BY <2>4
    <3>2. r[<<m, "amm", s>>] = p[<<m, "amm", s>>]
      BY <1>7, <2>0, <3>1
    <3> QED BY <2>1, <2>2, <2>4, <3>2
  <2> QED BY <2>3, <2>4
<1>12. ASSUME NEW k \in Markets \ {m}, NEW s \in Sides
       PROVE  q[<<k, "amm", s>>] = p[<<k, "amm", s>>]
  <2>1. <<k, "amm", s>> \in Tokens /\ <<k, "amm", s>> \notin {<<m, "amm", o>>, <<m, u, o>>}
    BY <1>1 DEF Tokens
  <2>2. q[<<k, "amm", s>>] = r[<<k, "amm", s>>]
    BY <1>5, <2>1 DEF Mints
  <2> QED BY <1>7, <2>1, <2>2
<1>13. ASSUME NEW k \in Markets, NEW s \in Sides
       PROVE  SupplyIn(q, k, s) = SupplyIn(p, k, s) + (IF k = m THEN 0 - g ELSE 0)
  <2>1. SupplyIn(r, k, s) = SupplyIn(p, k, s)
    BY <1>2 DEF Shifts
  <2> QED BY <1>5, <2>1 DEF Mints
<1> QED BY <1>10, <1>11, <1>12, <1>13, Zenon DEF Deals

-----------------------------------------------------------------------------
(* The pools: what a trade does to one, and what its liquidity providers    *)
(* gain by it.                                                              *)

PoolRecord == [reserve : [Sides -> Nat], shares : Nat, live : BOOLEAN, fee_per_share : Nat]

\* A pool gains no more per share than the part `f` of a fee pays for.
Gains(x, y, f) ==
    /\ y.shares = x.shares
    /\ \E d \in Nat : /\ y.fee_per_share = x.fee_per_share + d
                      /\ d * x.shares <= FEE_SCALE * f

\* A pool that keeps its shares and rate gains nothing.
LEMMA GainsNothing ==
    ASSUME NEW x \in PoolRecord, NEW y \in PoolRecord,
           y.shares = x.shares, y.fee_per_share = x.fee_per_share
    PROVE  Gains(x, y, 0)
<1>1. y.fee_per_share = x.fee_per_share + 0 /\ 0 * x.shares <= FEE_SCALE * 0
  BY FeeAssumption DEF PoolRecord
<1> QED BY <1>1 DEF Gains

\* accrue_fees gains no more than the providers' part.
LEMMA FeesAccrued ==
    ASSUME NEW p \in PoolRecord, NEW fee \in Nat, NEW y, y = accrue_fees(p, fee)
    PROVE  /\ y \in PoolRecord /\ y.reserve = p.reserve /\ y.live = p.live
           /\ Gains(p, y, FeeParts(fee).lp)
<1> DEFINE f == FeeParts(fee).lp
           d == (f * FEE_SCALE) \div p.shares
<1>1. f \in Nat /\ FEE_SCALE \in Nat /\ f * FEE_SCALE \in Nat
  BY FeePartsSum, FeeAssumption, ProductMonotone DEF FeeShares
<1>2. p.shares \in Nat /\ p.fee_per_share \in Nat
  BY DEF PoolRecord
<1>3. CASE p.shares > 0
  <2>1. d \in Int /\ d * p.shares <= f * FEE_SCALE /\ 0 <= d
    <3>1. p.shares \in Nat /\ p.shares # 0
      BY <1>2, <1>3
    <3> HIDE DEF f
    <3>2. f * FEE_SCALE \in Int /\ 0 <= f * FEE_SCALE
      BY <1>1
    <3>3. d \in Int /\ d * p.shares <= f * FEE_SCALE /\ f * FEE_SCALE < (d + 1) * p.shares
      BY <3>1, <3>2, DivBounds
    <3>4. 0 <= d
      BY <1>1, <1>3, <3>1
    <3> QED BY <3>3, <3>4
  <2>2. y = [p EXCEPT !.fee_per_share = @ + d]
    BY <1>3 DEF accrue_fees
  <2> HIDE DEF d
  <2>3. y \in PoolRecord /\ y.reserve = p.reserve /\ y.live = p.live /\ y.shares = p.shares
        /\ y.fee_per_share = p.fee_per_share + d
    BY <2>1, <2>2 DEF PoolRecord
  <2>4. f * FEE_SCALE = FEE_SCALE * f
    <3> HIDE DEF f
    <3> QED BY <1>1
  <2>5. Gains(p, y, f)
    <3> HIDE DEF f
    <3>1. d \in Nat /\ d * p.shares <= FEE_SCALE * f
      BY <2>1, <2>4
    <3> QED BY <2>3, <3>1 DEF Gains
  <2> QED BY <2>3, <2>5
<1>4. CASE ~(p.shares > 0)
  <2>1. y = p
    BY <1>4 DEF accrue_fees
  <2>2. 0 * p.shares <= FEE_SCALE * f
    <3> HIDE DEF f
    <3> QED BY <1>1, <1>2
  <2>3. Gains(p, y, f)
    <3> HIDE DEF f
    <3>1. p.fee_per_share = p.fee_per_share + 0
      BY <1>2
    <3> QED BY <2>1, <2>2, <3>1 DEF Gains
  <2> QED BY <2>1, <2>3
<1> QED BY <1>3, <1>4

\* The parts of a fee make up the fee.
LEMMA FeeSplit ==
    ASSUME NEW a \in Nat, NEW s, s = split_fee(a, TradingFeeBps)
    PROVE  s.fee \in Nat /\ s.net \in Nat /\ s.fee + s.net = a
<1>1. TradingFeeBps \in Int /\ 0 <= TradingFeeBps /\ TradingFeeBps <= 10000
  BY FeeAssumption
<1>2. bps(a, TradingFeeBps) \in Nat /\ bps(a, TradingFeeBps) <= a
  BY <1>1, ShareBounds
<1>3. s.fee = bps(a, TradingFeeBps) /\ s.net = a - bps(a, TradingFeeBps)
  BY DEF split_fee
<1> QED BY <1>2, <1>3

\* What a purchase does to its pool.
PoolDeals(x, y, d, f) ==
    /\ y \in PoolRecord /\ Gains(x, y, f)
    /\ \A s \in Sides : y.reserve[s] = x.reserve[s] + d[s]

\* A purchase: the pool's record against its positions.
LEMMA PoolBought ==
    ASSUME PoolsTypeOK, NEW m \in Markets, NEW o \in Sides, NEW a \in Nat, CanQuote(m),
           NEW q, q = BuyQuote(m, o, a), q.net_in > 0,
           NEW d, \A s \in Sides : d[s] = q.net_in - (IF s = o THEN q.out ELSE 0)
    PROVE  /\ q.fee \in Nat /\ q.net_in \in Nat /\ q.fee + q.net_in = a /\ q.out \in Int
           /\ PoolDeals(pool[m], PoolAfterBuy(m, o, q), d, FeeParts(q.fee).lp)
<1> DEFINE x == accrue_fees(pool[m], q.fee)
           y == PoolAfterBuy(m, o, q)
           s == split_fee(a, TradingFeeBps)
           R == pool[m].reserve
<1>1. /\ q.fee = s.fee /\ q.net_in = s.net
      /\ q.out = quote_buy_complete_set(R[o], R[Opposite(o)], s.net)
  BY DEF BuyQuote
<1>2. s.fee \in Nat /\ s.net \in Nat /\ s.fee + s.net = a
  <2> HIDE DEF s
  <2> QED BY FeeSplit DEF s
<1>3. pool[m] \in PoolRecord /\ R \in [Sides -> Nat]
  BY DEF PoolsTypeOK, PoolRecord
<1>4. Opposite(o) \in Sides /\ R[o] \in Nat /\ R[Opposite(o)] \in Nat
      /\ R[o] >= 1 /\ R[Opposite(o)] >= 1
  <2>1. Opposite(o) \in Sides
    BY DEF Opposite, Sides
  <2> QED BY <1>3, <2>1 DEF CanQuote
<1>5. \E k \in Nat : q.out = R[o] + s.net - k
  <2> DEFINE P == R[Opposite(o)]
             O == R[o]
             n == s.net
  <2>1. O \in Nat /\ P \in Nat /\ n \in Nat /\ O >= 1 /\ P >= 1 /\ n >= 1
    BY <1>1, <1>2, <1>4
  <2>2. q.out = quote_buy_complete_set(O, P, n)
    BY <1>1
  <2> HIDE DEF O, P, n
  <2>3. \E k \in Nat : /\ quote_buy_complete_set(O, P, n) = O + n - k
                       /\ k <= O
                       /\ k * (P + n) <= O * P
                       /\ O * P < (k + 1) * (P + n)
    BY <2>1, BuyQuoteBounds
  <2> QED BY <2>2, <2>3 DEF O, n
<1>6. /\ x \in PoolRecord /\ x.reserve = R /\ Gains(pool[m], x, FeeParts(q.fee).lp)
  <2> DEFINE p == pool[m]
             fee == q.fee
  <2>1. fee \in Nat /\ p \in PoolRecord
    BY <1>1, <1>2, <1>3
  <2>2. x = accrue_fees(p, fee)
    OBVIOUS
  <2> HIDE DEF x, p, fee
  <2>3. /\ x \in PoolRecord /\ x.reserve = p.reserve /\ x.live = p.live
        /\ Gains(p, x, FeeParts(fee).lp)
    BY <2>1, <2>2, FeesAccrued
  <2> QED BY <2>3 DEF p, fee
<1>7. y = [x EXCEPT !.reserve = [t \in Sides |-> R[t] + d[t]]]
  <2>1. y = [x EXCEPT !.reserve =
                 [t \in Sides |-> x.reserve[t] + q.net_in - (IF t = o THEN q.out ELSE 0)]]
    BY DEF PoolAfterBuy
  <2> HIDE DEF x, y, s
  <2>2. [t \in Sides |-> x.reserve[t] + q.net_in - (IF t = o THEN q.out ELSE 0)]
           = [t \in Sides |-> R[t] + d[t]]
    BY <1>6
  <2> QED BY <2>1, <2>2
<1> HIDE DEF x, y
<1>8. PICK k \in Nat : q.out = R[o] + s.net - k
  BY <1>5
<1>9. q.out \in Int /\ q.net_in \in Nat
  BY <1>1, <1>2, <1>4, <1>8
<1>10. [t \in Sides |-> R[t] + d[t]] \in [Sides -> Nat]
  <2> SUFFICES ASSUME NEW t \in Sides PROVE R[t] + d[t] \in Nat
    OBVIOUS
  <2>1. R[t] \in Nat
    BY <1>3
  <2>2. CASE t = o
    BY <1>1, <1>2, <1>8, <1>9, <2>1, <2>2
  <2>3. CASE t # o
    BY <1>9, <2>1, <2>3
  <2> QED BY <2>2, <2>3
<1>11. y \in PoolRecord /\ y.reserve = [t \in Sides |-> R[t] + d[t]] /\ y.shares = x.shares
       /\ y.fee_per_share = x.fee_per_share
  BY <1>6, <1>7, <1>10 DEF PoolRecord
<1>12. Gains(pool[m], y, FeeParts(q.fee).lp)
  BY <1>6, <1>11 DEF Gains
<1>13. PoolDeals(pool[m], y, d, FeeParts(q.fee).lp)
  BY <1>11, <1>12 DEF PoolDeals
<1> QED BY <1>1, <1>2, <1>9, <1>13 DEF y

\* A sale: the pool's record against its positions.
LEMMA PoolSold ==
    ASSUME PoolsTypeOK, NEW m \in Markets, NEW o \in Sides, NEW a \in Nat,
           NEW q, q = SellQuote(m, o, a),
           NEW d, \A s \in Sides : d[s] = (IF s = o THEN a ELSE 0) - q.gross
    PROVE  /\ q.gross \in Nat /\ q.fee \in Nat /\ q.net \in Nat /\ q.fee + q.net = q.gross
           /\ PoolDeals(pool[m], PoolAfterSell(m, o, a, q), d, FeeParts(q.fee).lp)
<1> DEFINE x == accrue_fees(pool[m], q.fee)
           y == PoolAfterSell(m, o, a, q)
           R == pool[m].reserve
           g == quote_sell(R[o], R[Opposite(o)], a)
           s == split_fee(g, TradingFeeBps)
<1>1. q.gross = g /\ q.fee = s.fee /\ q.net = s.net
  BY DEF SellQuote
<1>2. pool[m] \in PoolRecord /\ R \in [Sides -> Nat]
  BY DEF PoolsTypeOK, PoolRecord
<1>3. Opposite(o) \in Sides /\ R[o] \in Nat /\ R[Opposite(o)] \in Nat
  <2>1. Opposite(o) \in Sides
    BY DEF Opposite, Sides
  <2> QED BY <1>2, <2>1
<1>4. g \in Nat /\ g <= a /\ g <= R[Opposite(o)]
  <2> DEFINE P == R[Opposite(o)]
             O == R[o]
  <2>1. O \in Nat /\ P \in Nat
    BY <1>3
  <2> HIDE DEF O, P
  <2>2. quote_sell(O, P, a) \in Nat /\ quote_sell(O, P, a) <= a /\ quote_sell(O, P, a) <= P
    BY <2>1, SellQuoteBounds
  <2> QED BY <2>2 DEF O, P
<1>5. s.fee \in Nat /\ s.net \in Nat /\ s.fee + s.net = g
  <2> HIDE DEF g, s
  <2> QED BY <1>4, FeeSplit DEF s
<1>6. /\ x \in PoolRecord /\ x.reserve = R /\ Gains(pool[m], x, FeeParts(q.fee).lp)
  <2> DEFINE p == pool[m]
             fee == q.fee
  <2>1. fee \in Nat /\ p \in PoolRecord
    BY <1>1, <1>2, <1>5
  <2>2. x = accrue_fees(p, fee)
    OBVIOUS
  <2> HIDE DEF x, p, fee
  <2>3. /\ x \in PoolRecord /\ x.reserve = p.reserve /\ x.live = p.live
        /\ Gains(p, x, FeeParts(fee).lp)
    BY <2>1, <2>2, FeesAccrued
  <2> QED BY <2>3 DEF p, fee
<1> HIDE DEF g, s
<1>7. q.gross \in Nat /\ q.gross <= a /\ q.gross <= R[Opposite(o)]
  BY <1>1, <1>4
<1>8. y = [x EXCEPT !.reserve = [t \in Sides |-> R[t] + d[t]]]
  <2>1. y = [x EXCEPT !.reserve =
                 [t \in Sides |-> x.reserve[t] - q.gross + (IF t = o THEN a ELSE 0)]]
    BY DEF PoolAfterSell
  <2> HIDE DEF x, y
  <2>2. [t \in Sides |-> x.reserve[t] - q.gross + (IF t = o THEN a ELSE 0)]
           = [t \in Sides |-> R[t] + d[t]]
    <3>1. ASSUME NEW t \in Sides
          PROVE  x.reserve[t] - q.gross + (IF t = o THEN a ELSE 0) = R[t] + d[t]
      <4>1. x.reserve[t] = R[t] /\ R[t] \in Nat
        BY <1>2, <1>6
      <4>2. d[t] = (IF t = o THEN a ELSE 0) - q.gross
        OBVIOUS
      <4>3. CASE t = o BY <1>7, <4>1, <4>2, <4>3
      <4>4. CASE t # o BY <1>7, <4>1, <4>2, <4>4
      <4> QED BY <4>3, <4>4
    <3> QED BY <3>1
  <2> QED BY <2>1, <2>2
<1> HIDE DEF x, y
<1>9. [t \in Sides |-> R[t] + d[t]] \in [Sides -> Nat]
  <2> SUFFICES ASSUME NEW t \in Sides PROVE R[t] + d[t] \in Nat
    OBVIOUS
  <2>1. R[t] \in Nat
    BY <1>2
  <2>2. CASE t = o
    BY <1>7, <2>1, <2>2
  <2>3. CASE t # o
    <3>1. t = Opposite(o)
      BY <2>3 DEF Opposite, Sides
    <3> QED BY <1>7, <2>1, <2>3, <3>1
  <2> QED BY <2>2, <2>3
<1>10. y \in PoolRecord /\ y.reserve = [t \in Sides |-> R[t] + d[t]] /\ y.shares = x.shares
       /\ y.fee_per_share = x.fee_per_share
  BY <1>6, <1>8, <1>9 DEF PoolRecord
<1>11. Gains(pool[m], y, FeeParts(q.fee).lp)
  BY <1>6, <1>10 DEF Gains
<1>12. PoolDeals(pool[m], y, d, FeeParts(q.fee).lp)
  BY <1>10, <1>11 DEF PoolDeals
<1> QED BY <1>1, <1>5, <1>7, <1>12 DEF y

LEMMA QuoteParts ==
    ASSUME PoolsTypeOK, NEW m \in Markets, NEW o \in Sides, NEW a \in Nat,
           NEW q, q = SellQuote(m, o, a)
    PROVE  q.gross \in Nat /\ q.fee \in Nat /\ q.net \in Nat /\ q.fee + q.net = q.gross
<1> DEFINE d == [s \in Sides |-> (IF s = o THEN a ELSE 0) - q.gross]
<1>1. \A s \in Sides : d[s] = (IF s = o THEN a ELSE 0) - q.gross
  OBVIOUS
<1> HIDE DEF d
<1> QED BY <1>1, PoolSold

-----------------------------------------------------------------------------
(* The collateral token.                                                    *)

Purses == Traders \cup {"vault", "treasury"}

Sent(b, q, from, to, a) ==
    /\ q \in [Purses -> Nat]
    /\ q[from] = b[from] - a /\ q[to] = b[to] + a
    /\ \A x \in Purses \ {from, to} : q[x] = b[x]

\* A transfer of the collateral token.
LEMMA TransferSent ==
    ASSUME NEW b \in [Purses -> Nat], NEW from \in Purses, NEW to \in Purses, from # to,
           NEW a \in Nat, CanTransfer(b, from, a), NEW q, q = Transferred(b, from, to, a)
    PROVE  Sent(b, q, from, to, a)
BY DEF Sent, CanTransfer, Transferred

-----------------------------------------------------------------------------
(* The steps of the contracts between a market's creation and its end.      *)

\* Every pool is made in a market that exists.
PoolsMade == \A k \in Markets : phase[k] = "None" => pool[k].shares = 0

Sound == TypeOK /\ BooksKept(vault) /\ LoansKept(vault) /\ PoolsMade

\* A step that is no redemption: m's backing and its complete sets change by the
\* same amount, its fees for liquidity providers by `fees`, and the vault's
\* tokens by what the vault is worth more.
Steady(m, backing, fees, worth) ==
    /\ Booked(vault, vault', m, backing, fees, worth)
    /\ cash'["vault"] = cash["vault"] + worth
    /\ \A k \in Markets : setBacking'[k] = setBacking[k] + (IF k = m THEN backing ELSE 0)
    /\ \A k \in Markets, s \in Sides :
         SupplyIn(pos', k, s) <= SupplyIn(pos, k, s) + (IF k = m THEN backing ELSE 0)
    /\ backing = 0 \/ phase[m] \in {"None", "Live"}

\* No pool owes positions it does not have, unless it did before.
ReservesHeld ==
    \A k \in Markets, s \in Sides :
        pool[k].reserve[s] <= pos[<<k, "amm", s>>]
            => pool'[k].reserve[s] <= pos'[<<k, "amm", s>>]

\* Liquidity providers gain by fees,
Accrued(m, fees) ==
    /\ lp' = lp /\ checkpoint' = checkpoint
    /\ Gains(pool[m], pool'[m], fees)

\* or one of them changes his shares and is paid,
Held(m, u, shares, fees) ==
    /\ lp' = [lp EXCEPT ![<<m, u>>] = @ + shares]
    /\ checkpoint' = [checkpoint EXCEPT ![<<m, u>>] = pool[m].fee_per_share]
    /\ pool'[m].shares = pool[m].shares + shares
    /\ pool'[m].fee_per_share = pool[m].fee_per_share
    /\ fees = 0 - compute_lp_fees_owed(m, u)

\* or one of them is the first.
FirstHeld(m, u, shares, fees) ==
    /\ pool[m].shares = 0 /\ fees = 0
    /\ lp' = [lp EXCEPT ![<<m, u>>] = shares]
    /\ checkpoint' = [checkpoint EXCEPT ![<<m, u>>] = pool[m].fee_per_share]
    /\ pool'[m].shares = shares
    /\ pool'[m].fee_per_share = pool[m].fee_per_share

Pooled(m, fees) ==
    /\ \A k \in Markets \ {m} : /\ pool'[k].shares = pool[k].shares
                                /\ pool'[k].fee_per_share = pool[k].fee_per_share
    /\ \/ Accrued(m, fees)
       \/ \E u \in Traders, s \in Int : Held(m, u, s, fees)
       \/ \E u \in Traders, s \in Nat : FirstHeld(m, u, s, fees)
    /\ pool'[m].shares = pool[m].shares \/ phase'[m] # "None"

\* The lifecycle, as far as these steps touch it.
Alive ==
    /\ verdict' = verdict
    /\ \A k \in Markets : phase'[k] = phase[k] \/ (phase[k] = "None" /\ phase'[k] = "Live")

Traded ==
    /\ TypeOK' /\ ReservesHeld /\ Alive
    /\ \E m \in Markets, backing \in Int, fees \in Int, worth \in Int :
         Steady(m, backing, fees, worth) /\ Pooled(m, fees)

\* What the type invariant says of each variable.
LEMMA SoundFields ==
    ASSUME Sound
    PROVE  /\ vault \in Vaults /\ BooksKept(vault) /\ LoansKept(vault)
           /\ pos \in [Tokens -> Nat] /\ setBacking \in [Markets -> Nat]
           /\ pool \in [Markets -> PoolRecord] /\ lp \in [Accounts -> Nat]
           /\ checkpoint \in [Accounts -> Nat] /\ cash \in [Purses -> Nat]
           /\ trades \in 0 .. MaxTrades /\ phase \in [Markets -> Phases]
           /\ verdict \in [Markets -> Outcomes \cup {"none"}] /\ PoolsTypeOK
BY DEF Sound, TypeOK, TokensTypeOK, VaultTypeOK, PoolsTypeOK, Tokens, PoolRecord, Purses

\* At most what Deals says: positions may be burned or given to the pool.
Dealt(p, q, m, n, d) ==
    /\ q \in [Tokens -> Nat]
    /\ \A s \in Sides : q[<<m, "amm", s>>] >= p[<<m, "amm", s>>] + d[s]
    /\ \A k \in Markets \ {m}, s \in Sides : q[<<k, "amm", s>>] >= p[<<k, "amm", s>>]
    /\ \A k \in Markets, s \in Sides :
         SupplyIn(q, k, s) <= SupplyIn(p, k, s) + (IF k = m THEN n ELSE 0)

\* An exact deal is at most a deal.
LEMMA DealsDealt ==
    ASSUME NEW p \in [Tokens -> Nat], NEW q, NEW m \in Markets, NEW n \in Int,
           NEW d, \A s \in Sides : d[s] \in Int, Deals(p, q, m, n, d)
    PROVE  Dealt(p, q, m, n, d)
<1>1. q \in [Tokens -> Nat] /\ q \in [Tokens -> Int] /\ p \in [Tokens -> Int]
  BY DEF Deals
<1>2. \A k \in Markets, s \in Sides : <<k, "amm", s>> \in Tokens
  BY DEF Tokens, Holders
<1>3. \A s \in Sides : q[<<m, "amm", s>>] >= p[<<m, "amm", s>>] + d[s]
  BY <1>1, <1>2 DEF Deals
<1>4. ASSUME NEW k \in Markets \ {m}, NEW s \in Sides
      PROVE  q[<<k, "amm", s>>] >= p[<<k, "amm", s>>]
  <2>1. q[<<k, "amm", s>>] = p[<<k, "amm", s>>]
    BY DEF Deals
  <2> QED BY <1>1, <1>2, <2>1
<1>5. ASSUME NEW k \in Markets, NEW s \in Sides
      PROVE  SupplyIn(q, k, s) <= SupplyIn(p, k, s) + (IF k = m THEN n ELSE 0)
  <2>1. SupplyIn(p, k, s) \in Int
    BY <1>1, SupplyInt
  <2>2. SupplyIn(q, k, s) = SupplyIn(p, k, s) + (IF k = m THEN n ELSE 0)
    BY DEF Deals
  <2> QED BY <2>1, <2>2
<1> QED BY <1>1, <1>3, <1>4, <1>5, Zenon DEF Dealt

\* The bound on trades.
LEMMA TradesCounted ==
    ASSUME Sound, Trade \/ trades' = trades
    PROVE  trades' \in 0 .. MaxTrades
<1>1. MaxTrades \in Nat
  BY TradingAssumption
<1> QED BY <1>1 DEF Sound, TypeOK, Trade

\* A step put together: what it does to the books, the collateral token, the
\* positions (`d` is the pool's change) and the pool of m, which becomes `y`.
StepParts(m, b, f, w, d, y) ==
    /\ Booked(vault, vault', m, b, f, w)
    /\ cash' \in [Purses -> Nat] /\ cash'["vault"] = cash["vault"] + w
    /\ setBacking' \in [Markets -> Nat]
    /\ \A k \in Markets : setBacking'[k] = setBacking[k] + (IF k = m THEN b ELSE 0)
    /\ Dealt(pos, pos', m, b, d)
    /\ y \in PoolRecord /\ pool' = [pool EXCEPT ![m] = y]
    /\ \A s \in Sides : d[s] \in Int /\ y.reserve[s] <= pool[m].reserve[s] + d[s]
    /\ lp' \in [Accounts -> Nat] /\ checkpoint' \in [Accounts -> Nat]
    /\ Trade \/ trades' = trades
    /\ phase' \in [Markets -> Phases] /\ Alive /\ Pooled(m, f)
    /\ b = 0 \/ phase[m] \in {"None", "Live"}

\* The parts of a step make it a Traded step.
LEMMA StepTraded ==
    ASSUME Sound, NEW m \in Markets, NEW b \in Int, NEW f \in Int, NEW w \in Int,
           NEW d, NEW y, StepParts(m, b, f, w, d, y)
    PROVE  Traded
<1> USE DEF StepParts
<1>1. vault' \in Vaults
  BY Zenon DEF Booked
<1>2. pool \in [Markets -> PoolRecord] /\ pos \in [Tokens -> Nat]
      /\ verdict \in [Markets -> Outcomes \cup {"none"}]
  BY SoundFields
<1>3. pool' \in [Markets -> PoolRecord]
  BY <1>2
<1>4. pos' \in [Tokens -> Nat]
  BY DEF Dealt
<1>5. TypeOK'
  <2>1. trades' \in 0 .. MaxTrades
    BY TradesCounted, Zenon
  <2>2. verdict' \in [Markets -> Outcomes \cup {"none"}]
    BY <1>2 DEF Alive
  <2> QED BY <1>1, <1>3, <1>4, <2>1, <2>2
          DEF TypeOK, TokensTypeOK, VaultTypeOK, PoolsTypeOK, Tokens, PoolRecord, Purses
<1>6. ReservesHeld
  <2> SUFFICES ASSUME NEW k \in Markets, NEW s \in Sides,
                      pool[k].reserve[s] <= pos[<<k, "amm", s>>]
               PROVE  pool'[k].reserve[s] <= pos'[<<k, "amm", s>>]
    BY DEF ReservesHeld
  <2>1. <<k, "amm", s>> \in Tokens
    BY DEF Tokens, Holders
  <2>2. pool[k].reserve[s] \in Nat /\ y.reserve[s] \in Nat
    BY <1>2 DEF PoolRecord
  <2>3. pos[<<k, "amm", s>>] \in Nat /\ pos'[<<k, "amm", s>>] \in Nat
    BY <1>2, <1>4, <2>1
  <2>4. CASE k = m
    <3>1. pool'[k] = y
      BY <1>2, <2>4
    <3>2. pos'[<<k, "amm", s>>] >= pos[<<k, "amm", s>>] + d[s]
      BY <2>4 DEF Dealt
    <3> QED BY <2>2, <2>3, <2>4, <3>1, <3>2
  <2>5. CASE k # m
    <3>1. pool'[k] = pool[k]
      BY <1>2, <2>5
    <3>2. pos'[<<k, "amm", s>>] >= pos[<<k, "amm", s>>]
      BY <2>5 DEF Dealt
    <3> QED BY <2>2, <2>3, <3>1, <3>2
  <2> QED BY <2>4, <2>5
<1>7. Steady(m, b, f, w)
  BY DEF Steady, Dealt
<1> QED BY <1>5, <1>6, <1>7 DEF Traded

-----------------------------------------------------------------------------
(* One lemma for each action but the lifecycle's and the redemptions.       *)

\* What seed_liquidity and create_market share.
LEMMA SeedTraded ==
    ASSUME Sound, NEW m \in Markets, NEW u \in Traders, NEW amount \in Nat, Seeded(m, u, amount),
           pool[m].shares = 0, cash' \in [Purses -> Nat], cash'["vault"] = cash["vault"] + amount,
           Trade \/ trades' = trades, phase' \in [Markets -> Phases], Alive,
           phase[m] \in {"None", "Live"}, phase'[m] # "None"
    PROVE  Traded
<1> DEFINE d == [s \in Sides |-> amount]
           y == [pool[m] EXCEPT !.reserve = d, !.shares = amount, !.live = TRUE]
<1>1. /\ vault \in Vaults /\ BooksKept(vault) /\ LoansKept(vault)
      /\ pos \in [Tokens -> Nat] /\ setBacking \in [Markets -> Nat]
      /\ pool \in [Markets -> PoolRecord] /\ lp \in [Accounts -> Nat]
      /\ checkpoint \in [Accounts -> Nat]
  BY SoundFields
<1>2. Booked(vault, vault', m, amount, 0, amount)
  BY <1>1, CreditBooked DEF Seeded, deposit_for_market
<1>3. /\ pos' = Minted(pos, m, amount)
      /\ setBacking' = [setBacking EXCEPT ![m] = @ + amount]
      /\ lp' = [lp EXCEPT ![<<m, u>>] = amount]
      /\ checkpoint' = [checkpoint EXCEPT ![<<m, u>>] = pool[m].fee_per_share]
  BY DEF Seeded
<1>4. pool' = [pool EXCEPT ![m] = y]
  BY <1>1 DEF Seeded, PoolRecord
<1>5. Dealt(pos, pos', m, amount, d)
  <2>1. \A s \in Sides : d[s] = amount
    OBVIOUS
  <2> HIDE DEF d
  <2>2. Deals(pos, pos', m, amount, d)
    BY <1>1, <1>3, <2>1, MintDeals
  <2> QED BY <1>1, <2>1, <2>2, DealsDealt
<1>6. /\ y \in PoolRecord /\ y.reserve = d /\ y.shares = amount
      /\ y.fee_per_share = pool[m].fee_per_share
  BY <1>1 DEF PoolRecord
<1>8. lp' \in [Accounts -> Nat] /\ checkpoint' \in [Accounts -> Nat]
  <2>1. pool[m].fee_per_share \in Nat
    BY <1>1 DEF PoolRecord
  <2> QED BY <1>1, <1>3, <2>1
<1>9. setBacking' \in [Markets -> Nat]
      /\ \A k \in Markets : setBacking'[k] = setBacking[k] + (IF k = m THEN amount ELSE 0)
  BY <1>1, <1>3
<1>10. \A s \in Sides : d[s] \in Int /\ y.reserve[s] <= pool[m].reserve[s] + d[s]
  <2>1. \A s \in Sides : pool[m].reserve[s] \in Nat
    BY <1>1 DEF PoolRecord
  <2>2. \A s \in Sides : d[s] = amount
    OBVIOUS
  <2> HIDE DEF d, y
  <2> QED BY <1>6, <2>1, <2>2
<1> HIDE DEF d, y
<1>11. FirstHeld(m, u, amount, 0)
  <2>1. pool'[m] = y
    BY <1>1, <1>4
  <2> QED BY <1>3, <1>6, <2>1 DEF FirstHeld
<1>12. Pooled(m, 0)
  <2>1. \A k \in Markets \ {m} : /\ pool'[k].shares = pool[k].shares
                                 /\ pool'[k].fee_per_share = pool[k].fee_per_share
    BY <1>1, <1>4
  <2> QED BY <1>11, <2>1 DEF Pooled
<1>13. StepParts(m, amount, 0, amount, d, y)
  BY <1>2, <1>4, <1>5, <1>6, <1>8, <1>9, <1>10, <1>12 DEF StepParts
<1>14. amount \in Int /\ 0 \in Int
  OBVIOUS
<1> QED BY <1>13, <1>14, StepTraded, Zenon

\* The first move of a market.
LEMMA NewPhases ==
    ASSUME Sound, NEW m \in Markets, NEW p \in Phases, phase' = [phase EXCEPT ![m] = p]
    PROVE  phase' \in [Markets -> Phases] /\ phase'[m] = p
           /\ \A k \in Markets \ {m} : phase'[k] = phase[k]
BY SoundFields

\* A step that leaves the lifecycle alone.
LEMMA SamePhases ==
    ASSUME Sound, UNCHANGED lifecycleVars
    PROVE  phase' \in [Markets -> Phases] /\ Alive
BY SoundFields DEF lifecycleVars, Alive

\* create_market is a Traded step.
LEMMA CreateTraded ==
    ASSUME Sound, NEW u \in Traders, NEW m \in Markets, NEW amount \in Seeds,
           create_market(u, m, amount)
    PROVE  Traded
<1>1. amount \in Nat /\ CreationFee \in Nat
  BY TradingAssumption
<1>2. phase' = [phase EXCEPT ![m] = "Live"] /\ verdict' = verdict /\ phase[m] = "None"
  BY DEF create_market, Move
<1>3. phase' \in [Markets -> Phases] /\ phase'[m] = "Live"
      /\ \A k \in Markets \ {m} : phase'[k] = phase[k]
  BY <1>2, NewPhases DEF Phases
<1>4. Alive
  BY <1>2, <1>3 DEF Alive
<1>5. pool[m].shares = 0
  BY <1>2 DEF Sound, PoolsMade
<1> DEFINE c == Transferred(cash, u, "treasury", CreationFee)
<1>6. cash \in [Purses -> Nat] /\ u \in Purses /\ "vault" \in Purses /\ "treasury" \in Purses
      /\ u # "vault" /\ u # "treasury"
  BY SoundFields, TraderNames DEF Purses
<1>7. CreationFee + amount <= cash[u]
  BY DEF create_market, CanTransfer
<1>8. Sent(cash, c, u, "treasury", CreationFee)
  <2>1. cash[u] \in Nat
    BY <1>6
  <2>2. CanTransfer(cash, u, CreationFee)
    BY <1>1, <1>7, <2>1 DEF CanTransfer
  <2> HIDE DEF c
  <2> QED BY <1>1, <1>6, <2>2, TransferSent DEF c
<1>9. cash' = Transferred(c, u, "vault", amount)
  BY DEF create_market
<1> HIDE DEF c
<1>10. Sent(c, cash', u, "vault", amount)
  <2>1. c \in [Purses -> Nat] /\ c[u] = cash[u] - CreationFee
    BY <1>8 DEF Sent
  <2>2. CanTransfer(c, u, amount)
    BY <1>1, <1>6, <1>7, <2>1 DEF CanTransfer
  <2> QED BY <1>1, <1>6, <1>9, <2>1, <2>2, TransferSent
<1>11. cash' \in [Purses -> Nat] /\ cash'["vault"] = cash["vault"] + amount
  <2>1. c["vault"] = cash["vault"]
    BY <1>6, <1>8 DEF Sent
  <2> QED BY <1>10, <2>1 DEF Sent
<1>12. Seeded(m, u, amount) /\ trades' = trades
  BY DEF create_market
<1> QED BY <1>1, <1>2, <1>3, <1>4, <1>5, <1>11, <1>12, SeedTraded

\* A trader pays into the vault, or the vault pays a trader.
LEMMA PaidIn ==
    ASSUME Sound, NEW u \in Traders, NEW a \in Nat, CanTransfer(cash, u, a),
           NEW q, q = Transferred(cash, u, "vault", a)
    PROVE  q \in [Purses -> Nat] /\ q["vault"] = cash["vault"] + a
<1>1. cash \in [Purses -> Nat] /\ u \in Purses /\ "vault" \in Purses /\ u # "vault"
  BY SoundFields, TraderNames DEF Purses
<1>2. Sent(cash, q, u, "vault", a)
  BY <1>1, TransferSent
<1> QED BY <1>2 DEF Sent

\* A payment out of the vault.
LEMMA PaidFrom ==
    ASSUME NEW b \in [Purses -> Nat], NEW u \in Purses, u # "vault", NEW a \in Nat,
           CanTransfer(b, "vault", a), NEW q, q = Transferred(b, "vault", u, a)
    PROVE  q \in [Purses -> Nat] /\ q["vault"] = b["vault"] - a
<1>1. "vault" \in Purses
  BY DEF Purses
<1>2. Sent(b, q, "vault", u, a)
  BY <1>1, TransferSent
<1> QED BY <1>2 DEF Sent

\* seed_liquidity is a Traded step.
LEMMA SeedLiquidityTraded ==
    ASSUME Sound, NEW u \in Traders, NEW m \in Markets, NEW amount \in Seeds,
           seed_liquidity(u, m, amount)
    PROVE  Traded
<1>1. amount \in Nat
  BY TradingAssumption
<1>2. cash' \in [Purses -> Nat] /\ cash'["vault"] = cash["vault"] + amount
  BY <1>1, PaidIn DEF seed_liquidity
<1>3. UNCHANGED lifecycleVars
  BY DEF seed_liquidity
<1>4. phase' \in [Markets -> Phases] /\ Alive
  BY <1>3, SamePhases
<1>5. /\ Seeded(m, u, amount) /\ pool[m].shares = 0 /\ Trade /\ phase[m] = "Live"
      /\ phase'[m] = phase[m]
  BY <1>3 DEF seed_liquidity, lifecycleVars
<1> QED BY <1>1, <1>2, <1>4, <1>5, SeedTraded

\* What a liquidity provider is owed.
LEMMA OwedBounds ==
    ASSUME Sound, NEW m \in Markets, NEW u \in Traders
    PROVE  /\ compute_lp_fees_owed(m, u) \in Nat
           /\ checkpoint[<<m, u>>] <= pool[m].fee_per_share
                => FEE_SCALE * compute_lp_fees_owed(m, u)
                     <= lp[<<m, u>>] * (pool[m].fee_per_share - checkpoint[<<m, u>>])
<1> DEFINE delta == pool[m].fee_per_share - checkpoint[<<m, u>>]
           l == lp[<<m, u>>]
           owed == compute_lp_fees_owed(m, u)
<1>1. <<m, u>> \in Accounts
  BY DEF Accounts
<1>2. l \in Nat /\ pool[m].fee_per_share \in Nat /\ checkpoint[<<m, u>>] \in Nat /\ delta \in Int
  BY <1>1, SoundFields DEF PoolRecord
<1>3. FEE_SCALE \in Nat /\ FEE_SCALE # 0
  BY FeeAssumption
<1>4. owed = IF delta <= 0 THEN 0 ELSE (l * delta) \div FEE_SCALE
  BY DEF compute_lp_fees_owed
<1>5. checkpoint[<<m, u>>] <= pool[m].fee_per_share => delta >= 0
  BY <1>2
<1> HIDE DEF delta, l, owed
<1>6. CASE delta <= 0
  <2>1. delta >= 0 => delta = 0
    BY <1>2, <1>6
  <2>2. delta >= 0 => l * delta = 0 /\ FEE_SCALE * owed = 0
    BY <1>2, <1>3, <1>4, <1>6, <2>1
  <2>3. owed \in Nat /\ (checkpoint[<<m, u>>] <= pool[m].fee_per_share
                           => FEE_SCALE * owed <= l * delta)
    BY <1>4, <1>5, <1>6, <2>2
  <2> QED BY <2>3 DEF owed, delta, l
<1>7. CASE delta > 0
  <2>1. l * delta \in Int /\ 0 <= l * delta
    BY <1>2, <1>7, ProductMonotone
  <2>2. owed = (l * delta) \div FEE_SCALE
    BY <1>2, <1>4, <1>7
  <2> DEFINE n == l * delta
  <2>3. n \in Int /\ 0 <= n /\ owed = n \div FEE_SCALE
    BY <2>1, <2>2
  <2> HIDE DEF n
  <2>4. owed \in Int /\ owed * FEE_SCALE <= n /\ n < (owed + 1) * FEE_SCALE
    BY <1>3, <2>3, DivBounds
  <2>5. owed >= 0
    BY <1>3, <2>3
  <2>6. FEE_SCALE * owed = owed * FEE_SCALE
    BY <1>3, <2>4
  <2>7. owed \in Nat /\ FEE_SCALE * owed <= n
    BY <2>4, <2>5, <2>6
  <2> QED BY <2>7 DEF owed, delta, l, n
<1> QED BY <1>2, <1>6, <1>7

\* Shares change hands with a provider.
LEMMA HeldPooled ==
    ASSUME Sound, NEW m \in Markets, NEW u \in Traders, NEW s \in Int, lp[<<m, u>>] + s \in Nat,
           lp' = [lp EXCEPT ![<<m, u>>] = @ + s], Checkpointed(m, u),
           NEW y \in PoolRecord, pool' = [pool EXCEPT ![m] = y], y.shares = pool[m].shares + s,
           y.fee_per_share = pool[m].fee_per_share, phase'[m] # "None" \/ s = 0
    PROVE  /\ lp' \in [Accounts -> Nat] /\ checkpoint' \in [Accounts -> Nat]
           /\ Pooled(m, 0 - compute_lp_fees_owed(m, u))
<1>1. /\ pool \in [Markets -> PoolRecord] /\ lp \in [Accounts -> Nat]
      /\ checkpoint \in [Accounts -> Nat]
  BY SoundFields
<1>2. <<m, u>> \in Accounts /\ pool[m].fee_per_share \in Nat /\ pool[m].shares \in Nat
  BY <1>1 DEF Accounts, PoolRecord
<1>3. checkpoint' = [checkpoint EXCEPT ![<<m, u>>] = pool[m].fee_per_share]
  BY DEF Checkpointed
<1>4. lp' \in [Accounts -> Nat] /\ checkpoint' \in [Accounts -> Nat]
  BY <1>1, <1>2, <1>3
<1>5. pool'[m] = y /\ \A k \in Markets \ {m} : pool'[k] = pool[k]
  BY <1>1
<1>6. Held(m, u, s, 0 - compute_lp_fees_owed(m, u))
  BY <1>3, <1>5 DEF Held
<1>7. pool'[m].shares = pool[m].shares \/ phase'[m] # "None"
  BY <1>2, <1>5
<1>8. Pooled(m, 0 - compute_lp_fees_owed(m, u))
  BY <1>5, <1>6, <1>7 DEF Pooled
<1> QED BY <1>4, <1>8

\* add_liquidity is a Traded step.
LEMMA AddTraded ==
    ASSUME Sound, NEW u \in Traders, NEW m \in Markets, NEW amount \in Amounts,
           add_liquidity(u, m, amount)
    PROVE  Traded
<1>1. PICK shares, pending :
        /\ shares = Least(proportional(pool[m].shares, amount, pool[m].reserve["Yes"]),
                          proportional(pool[m].shares, amount, pool[m].reserve["No"]))
        /\ pending = compute_lp_fees_owed(m, u)
  OBVIOUS
<1>2. /\ phase[m] = "Live" /\ CanQuote(m) /\ shares > 0 /\ pending <= vault.book[m].lp_fees
      /\ CanTransfer(cash, u, amount)
      /\ CanTransfer(Transferred(cash, u, "vault", amount), "vault", pending)
      /\ cash' = Transferred(Transferred(cash, u, "vault", amount), "vault", u, pending)
      /\ vault' = claim_lp_fees(deposit_for_market(vault, m, amount), m, pending)
      /\ pos' = Minted(pos, m, amount)
      /\ setBacking' = [setBacking EXCEPT ![m] = @ + amount]
      /\ pool' = [pool EXCEPT ![m].reserve = [o \in Sides |-> @[o] + amount],
                              ![m].shares = @ + shares]
      /\ lp' = [lp EXCEPT ![<<m, u>>] = @ + shares]
      /\ Checkpointed(m, u) /\ Trade /\ UNCHANGED lifecycleVars
  BY <1>1 DEF add_liquidity
<1>3. /\ vault \in Vaults /\ BooksKept(vault) /\ LoansKept(vault)
      /\ pos \in [Tokens -> Nat] /\ setBacking \in [Markets -> Nat]
      /\ pool \in [Markets -> PoolRecord] /\ lp \in [Accounts -> Nat]
      /\ cash \in [Purses -> Nat]
  BY SoundFields
<1>4. amount \in Nat /\ pending \in Nat
  BY <1>1, OwedBounds, TradingAssumption
<1>5. shares \in Int
  <2>1. "Yes" \in Sides /\ "No" \in Sides
    BY DEF Sides
  <2>2. /\ pool[m].shares \in Nat
        /\ pool[m].reserve["Yes"] \in Nat /\ pool[m].reserve["Yes"] # 0
        /\ pool[m].reserve["No"] \in Nat /\ pool[m].reserve["No"] # 0
    BY <1>2, <1>3, <2>1 DEF PoolRecord, CanQuote
  <2>3. pool[m].shares * amount \in Int
    BY <1>4, <2>2
  <2>4. \A b \in Nat : b # 0 => (pool[m].shares * amount) \div b \in Int
    <3> DEFINE a == pool[m].shares * amount
    <3>1. a \in Int
      BY <2>3
    <3> HIDE DEF a
    <3>2. \A b \in Nat : b # 0 => a \div b \in Int
      BY <3>1, DivBounds
    <3> QED BY <3>2 DEF a
  <2> QED BY <1>1, <2>2, <2>4 DEF Least, proportional
<1>6. Booked(vault, vault', m, amount, 0 - pending, amount - pending)
  <2>1. PICK x : x = deposit_for_market(vault, m, amount)
    OBVIOUS
  <2>2. Booked(vault, x, m, amount, 0, amount)
    BY <1>3, <1>4, <2>1, CreditBooked DEF deposit_for_market
  <2>3. x \in Vaults /\ BooksKept(x) /\ LoansKept(x)
        /\ x.book[m].lp_fees = vault.book[m].lp_fees + 0
    BY <2>2 DEF Booked
  <2>4. pending <= x.book[m].lp_fees
    BY <1>2, <1>3, <2>3, VaultFields
  <2>5. Booked(x, vault', m, 0, 0 - pending, 0 - pending)
    BY <1>2, <1>4, <2>1, <2>3, <2>4, ClaimBooked
  <2>6. Booked(vault, vault', m, amount + 0, 0 + (0 - pending), amount + (0 - pending))
    BY <1>3, <1>4, <2>2, <2>5, BookedTwice
  <2>7. amount + 0 = amount /\ 0 + (0 - pending) = 0 - pending
        /\ amount + (0 - pending) = amount - pending
    BY <1>4
  <2> QED BY <2>6, <2>7
<1>7. cash' \in [Purses -> Nat] /\ cash'["vault"] = cash["vault"] + (amount - pending)
  <2>1. PICK c : c = Transferred(cash, u, "vault", amount)
    OBVIOUS
  <2>2. c \in [Purses -> Nat] /\ c["vault"] = cash["vault"] + amount
    BY <1>2, <1>4, <2>1, PaidIn
  <2>3. u \in Purses /\ u # "vault" /\ "vault" \in Purses
    BY TraderNames DEF Purses
  <2>4. cash' \in [Purses -> Nat] /\ cash'["vault"] = c["vault"] - pending
    BY <1>2, <1>4, <2>1, <2>2, <2>3, PaidFrom
  <2> QED BY <1>3, <1>4, <2>2, <2>3, <2>4
<1> DEFINE d == [s \in Sides |-> amount]
           y == [pool[m] EXCEPT !.reserve = [s \in Sides |-> @[s] + amount],
                                !.shares = @ + shares]
<1>8. pool' = [pool EXCEPT ![m] = y]
  BY <1>2, <1>3 DEF PoolRecord
<1>9. \A s \in Sides : d[s] = amount
  OBVIOUS
<1>10. /\ y \in PoolRecord /\ y.reserve = [s \in Sides |-> pool[m].reserve[s] + amount]
       /\ y.shares = pool[m].shares + shares /\ y.fee_per_share = pool[m].fee_per_share
  <2>1. pool[m] \in PoolRecord
    BY <1>3
  <2> DEFINE r == [s \in Sides |-> pool[m].reserve[s] + amount]
  <2>2. r \in [Sides -> Nat] /\ pool[m].shares + shares \in Nat
    BY <1>2, <1>4, <1>5, <2>1 DEF PoolRecord
  <2>3. y = [[pool[m] EXCEPT !.reserve = r] EXCEPT !.shares = pool[m].shares + shares]
    BY <2>1 DEF PoolRecord
  <2> HIDE DEF r, y
  <2>4. y \in PoolRecord /\ y.reserve = r /\ y.shares = pool[m].shares + shares
        /\ y.fee_per_share = pool[m].fee_per_share
    BY <2>1, <2>2, <2>3 DEF PoolRecord
  <2> QED BY <2>4 DEF r
<1> HIDE DEF d, y
<1>11. Dealt(pos, pos', m, amount, d)
  <2>1. Deals(pos, pos', m, amount, d)
    BY <1>2, <1>3, <1>4, <1>9, MintDeals
  <2> QED BY <1>3, <1>4, <1>9, <2>1, DealsDealt
<1>12. \A s \in Sides : d[s] \in Int /\ y.reserve[s] <= pool[m].reserve[s] + d[s]
  <2>1. \A s \in Sides : pool[m].reserve[s] \in Nat
    BY <1>3 DEF PoolRecord
  <2> QED BY <1>4, <1>9, <1>10, <2>1
<1>13. setBacking' \in [Markets -> Nat]
       /\ \A k \in Markets : setBacking'[k] = setBacking[k] + (IF k = m THEN amount ELSE 0)
  BY <1>2, <1>3, <1>4
<1>14. phase' \in [Markets -> Phases] /\ Alive /\ phase'[m] # "None"
  BY <1>2, SamePhases DEF lifecycleVars
<1>15. /\ lp' \in [Accounts -> Nat] /\ checkpoint' \in [Accounts -> Nat]
       /\ Pooled(m, 0 - pending)
  <2>1. <<m, u>> \in Accounts
    BY DEF Accounts
  <2>2. lp[<<m, u>>] + shares \in Nat
    BY <1>2, <1>3, <1>5, <2>1
  <2>3. /\ lp' \in [Accounts -> Nat] /\ checkpoint' \in [Accounts -> Nat]
        /\ Pooled(m, 0 - compute_lp_fees_owed(m, u))
    BY <1>2, <1>5, <1>8, <1>10, <1>14, <2>2, HeldPooled
  <2> QED BY <1>1, <2>3
<1>16. StepParts(m, amount, 0 - pending, amount - pending, d, y)
  BY <1>2, <1>6, <1>7, <1>8, <1>10, <1>11, <1>12, <1>13, <1>14, <1>15 DEF StepParts
<1>17. amount \in Int /\ 0 - pending \in Int /\ amount - pending \in Int
  BY <1>4
<1> QED BY <1>16, <1>17, StepTraded, Zenon

\* Parts are no more than the whole.
LEMMA PartsPositive ==
    ASSUME NEW b \in Nat, NEW a \in Parts(b)
    PROVE  a \in Nat /\ a > 0
<1>1. PICK k \in Divisors : a = b \div k /\ a # 0
  BY DEF Parts
<1>2. k \in Nat /\ k # 0
  BY TradingAssumption
<1>3. a \in Int /\ b < (a + 1) * k
  BY <1>1, <1>2, DivBounds
<1>4. a >= 0
  <2> SUFFICES ASSUME a + 1 <= 0 PROVE FALSE
    BY <1>3
  <2>1. 0 <= (0 - (a + 1)) * k
    BY <1>2, <1>3, ProductMonotone
  <2>2. (0 - (a + 1)) * k = 0 - (a + 1) * k
    BY <1>2, <1>3
  <2>3. (a + 1) * k \in Int
    BY <1>2, <1>3
  <2> QED BY <1>3, <2>1, <2>2, <2>3
<1> QED BY <1>1, <1>3, <1>4

LEMMA TokenPart ==
    ASSUME pos \in [Tokens -> Nat], NEW m \in Markets, NEW u \in Traders, NEW o \in Sides,
           NEW a \in Parts(pos[<<m, u, o>>])
    PROVE  a \in Nat
<1>1. pos[<<m, u, o>>] \in Nat
  BY DEF Tokens, Holders
<1> QED BY <1>1, PartsPositive

\* The pool gives positions away.
LEMMA GiveDeals ==
    ASSUME NEW p \in [Tokens -> Nat], NEW m \in Markets, NEW u \in Traders, NEW o \in Sides,
           NEW a \in Int, CanSub(p, m, "amm", o, a), NEW q, q = Moved(p, m, "amm", u, o, a),
           NEW d, \A s \in Sides : d[s] = 0 - (IF s = o THEN a ELSE 0)
    PROVE  Deals(p, q, m, 0, d)
<1>1. Minted(p, m, 0) = p
  <2>1. <<m, "amm", "Yes">> \in Tokens /\ <<m, "amm", "No">> \in Tokens
    BY DEF Tokens, Holders, Sides
  <2>2. Added(p, m, "amm", "Yes", 0) = p
    BY <2>1 DEF Added
  <2>3. Added(p, m, "amm", "No", 0) = p
    BY <2>1 DEF Added
  <2> QED BY <2>2, <2>3, Zenon DEF Minted
<1> QED BY <1>1, BuyDeals

\* Deals of one market add up.
LEMMA DealsTwice ==
    ASSUME NEW p \in [Tokens -> Nat], NEW r, NEW q, NEW m \in Markets,
           NEW d1, NEW d2, NEW d, Deals(p, r, m, 0, d1), Deals(r, q, m, 0, d2),
           \A s \in Sides : d1[s] \in Int /\ d2[s] \in Int /\ d[s] = d1[s] + d2[s]
    PROVE  Deals(p, q, m, 0, d)
<1>1. r \in [Tokens -> Nat] /\ q \in [Tokens -> Nat] /\ p \in [Tokens -> Int]
  BY DEF Deals
<1>2. \A k \in Markets, s \in Sides : <<k, "amm", s>> \in Tokens
  BY DEF Tokens, Holders
<1>3. \A s \in Sides : q[<<m, "amm", s>>] = p[<<m, "amm", s>>] + d[s]
  BY <1>1, <1>2 DEF Deals
<1>4. ASSUME NEW k \in Markets \ {m}, NEW s \in Sides
      PROVE  q[<<k, "amm", s>>] = p[<<k, "amm", s>>]
  <2>1. q[<<k, "amm", s>>] = r[<<k, "amm", s>>] /\ r[<<k, "amm", s>>] = p[<<k, "amm", s>>]
    BY DEF Deals
  <2> QED BY <2>1
<1>5. ASSUME NEW k \in Markets, NEW s \in Sides
      PROVE  SupplyIn(q, k, s) = SupplyIn(p, k, s) + (IF k = m THEN 0 ELSE 0)
  <2>1. SupplyIn(p, k, s) \in Int
    BY <1>1, SupplyInt
  <2>2. /\ SupplyIn(r, k, s) = SupplyIn(p, k, s) + (IF k = m THEN 0 ELSE 0)
        /\ SupplyIn(q, k, s) = SupplyIn(r, k, s) + (IF k = m THEN 0 ELSE 0)
    BY DEF Deals
  <2> QED BY <2>1, <2>2
<1> QED BY <1>1, <1>3, <1>4, <1>5, Zenon DEF Deals

\* remove_liquidity is a Traded step.
LEMMA RemoveTraded ==
    ASSUME Sound, NEW u \in Traders, NEW m \in Markets, NEW shares \in Parts(lp[<<m, u>>]),
           remove_liquidity(u, m, shares)
    PROVE  Traded
<1>1. PICK out, pending :
        /\ out = [o \in Sides |-> proportional(pool[m].reserve[o], shares, pool[m].shares)]
        /\ pending = compute_lp_fees_owed(m, u)
  OBVIOUS
<1>2. /\ phase[m] \in {"Live", "Cancelled", "Resolved"}
      /\ shares <= lp[<<m, u>>] /\ shares <= pool[m].shares
      /\ pending <= vault.book[m].lp_fees
      /\ \A o \in Sides : CanSub(pos, m, "amm", o, out[o])
      /\ pool' = [pool EXCEPT ![m].reserve = [o \in Sides |-> @[o] - out[o]],
                              ![m].shares = @ - shares]
      /\ lp' = [lp EXCEPT ![<<m, u>>] = @ - shares]
      /\ Checkpointed(m, u)
      /\ CanTransfer(cash, "vault", pending)
      /\ cash' = Transferred(cash, "vault", u, pending)
      /\ vault' = claim_lp_fees(vault, m, pending)
      /\ pos' = Moved(Moved(pos, m, "amm", u, "Yes", out["Yes"]), m, "amm", u, "No", out["No"])
      /\ UNCHANGED lifecycleVars /\ setBacking' = setBacking /\ trades' = trades
  BY <1>1 DEF remove_liquidity, require_market_liquidity_removable
<1>3. /\ vault \in Vaults /\ BooksKept(vault) /\ LoansKept(vault)
      /\ pos \in [Tokens -> Nat] /\ setBacking \in [Markets -> Nat]
      /\ pool \in [Markets -> PoolRecord] /\ lp \in [Accounts -> Nat]
      /\ cash \in [Purses -> Nat]
  BY SoundFields
<1>4. <<m, u>> \in Accounts /\ lp[<<m, u>>] \in Nat
  BY <1>3 DEF Accounts
<1>5. shares \in Nat /\ shares > 0 /\ pending \in Nat
  BY <1>1, <1>4, PartsPositive, OwedBounds
<1>6. \A s \in Sides : out[s] \in Nat /\ out[s] <= pool[m].reserve[s]
  <2> SUFFICES ASSUME NEW s \in Sides PROVE out[s] \in Nat /\ out[s] <= pool[m].reserve[s]
    OBVIOUS
  <2>1. pool[m].reserve[s] \in Nat /\ pool[m].shares \in Nat
    BY <1>3 DEF PoolRecord
  <2>2. pool[m].shares # 0
    BY <1>2, <1>5, <2>1
  <2> QED BY <1>1, <1>2, <1>5, <2>1, <2>2, ProportionalBounds
<1>7. Booked(vault, vault', m, 0, 0 - pending, 0 - pending)
  BY <1>2, <1>3, <1>5, ClaimBooked
<1>8. cash' \in [Purses -> Nat] /\ cash'["vault"] = cash["vault"] + (0 - pending)
  <2>1. u \in Purses /\ u # "vault" /\ "vault" \in Purses
    BY TraderNames DEF Purses
  <2>2. cash' \in [Purses -> Nat] /\ cash'["vault"] = cash["vault"] - pending
    BY <1>2, <1>3, <1>5, <2>1, PaidFrom
  <2> QED BY <1>3, <1>5, <2>1, <2>2
<1> DEFINE d == [s \in Sides |-> 0 - out[s]]
           y == [pool[m] EXCEPT !.reserve = [s \in Sides |-> @[s] - out[s]],
                                !.shares = @ - shares]
<1>9. pool' = [pool EXCEPT ![m] = y]
  BY <1>2, <1>3 DEF PoolRecord
<1>10. /\ y \in PoolRecord /\ y.reserve = [s \in Sides |-> pool[m].reserve[s] - out[s]]
       /\ y.shares = pool[m].shares + (0 - shares) /\ y.fee_per_share = pool[m].fee_per_share
  <2>1. pool[m] \in PoolRecord
    BY <1>3
  <2> DEFINE r == [s \in Sides |-> pool[m].reserve[s] - out[s]]
  <2>2. r \in [Sides -> Nat] /\ pool[m].shares - shares \in Nat
        /\ pool[m].shares - shares = pool[m].shares + (0 - shares)
    BY <1>2, <1>5, <1>6, <2>1 DEF PoolRecord
  <2>3. y = [[pool[m] EXCEPT !.reserve = r] EXCEPT !.shares = pool[m].shares - shares]
    BY <2>1 DEF PoolRecord
  <2> HIDE DEF r, y
  <2>4. y \in PoolRecord /\ y.reserve = r /\ y.shares = pool[m].shares - shares
        /\ y.fee_per_share = pool[m].fee_per_share
    BY <2>1, <2>2, <2>3 DEF PoolRecord
  <2> QED BY <2>2, <2>4 DEF r
<1>11. Dealt(pos, pos', m, 0, d)
  <2>1. PICK r : r = Moved(pos, m, "amm", u, "Yes", out["Yes"])
    OBVIOUS
  <2>2. "Yes" \in Sides /\ "No" \in Sides /\ "Yes" # "No" /\ Sides = {"Yes", "No"}
    BY DEF Sides
  <2> DEFINE d1 == [s \in Sides |-> 0 - (IF s = "Yes" THEN out["Yes"] ELSE 0)]
             d2 == [s \in Sides |-> 0 - (IF s = "No" THEN out["No"] ELSE 0)]
  <2>3. /\ \A s \in Sides : d1[s] = 0 - (IF s = "Yes" THEN out["Yes"] ELSE 0)
        /\ \A s \in Sides : d2[s] = 0 - (IF s = "No" THEN out["No"] ELSE 0)
        /\ \A s \in Sides : d[s] = 0 - out[s]
    OBVIOUS
  <2> HIDE DEF d1, d2, d
  <2>4. Deals(pos, r, m, 0, d1)
    BY <1>2, <1>3, <1>6, <2>1, <2>2, <2>3, GiveDeals
  <2>5. r \in [Tokens -> Nat] /\ r[<<m, "amm", "No">>] = pos[<<m, "amm", "No">>]
    <3>1. d1["No"] = 0 /\ <<m, "amm", "No">> \in Tokens
      BY <2>2, <2>3 DEF Tokens, Holders
    <3>2. r[<<m, "amm", "No">>] = pos[<<m, "amm", "No">>] + d1["No"]
      BY <2>2, <2>4 DEF Deals
    <3> QED BY <1>3, <2>4, <3>1, <3>2 DEF Deals
  <2>6. CanSub(r, m, "amm", "No", out["No"])
    BY <1>2, <2>2, <2>5 DEF CanSub
  <2>7. Deals(r, pos', m, 0, d2)
    BY <1>2, <1>6, <2>1, <2>2, <2>3, <2>5, <2>6, GiveDeals
  <2>8. \A s \in Sides : d1[s] \in Int /\ d2[s] \in Int /\ d[s] = d1[s] + d2[s] /\ d[s] \in Int
    BY <1>6, <2>2, <2>3
  <2>9. Deals(pos, pos', m, 0, d)
    BY <1>3, <2>4, <2>7, <2>8, DealsTwice
  <2> QED BY <1>3, <2>8, <2>9, DealsDealt
<1>12. \A s \in Sides : d[s] \in Int /\ y.reserve[s] <= pool[m].reserve[s] + d[s]
  <2>1. \A s \in Sides : pool[m].reserve[s] \in Nat /\ d[s] = 0 - out[s]
    BY <1>3 DEF PoolRecord
  <2> HIDE DEF d, y
  <2> QED BY <1>6, <1>10, <2>1
<1> HIDE DEF d, y
<1>13. setBacking' \in [Markets -> Nat]
       /\ \A k \in Markets : setBacking'[k] = setBacking[k] + (IF k = m THEN 0 ELSE 0)
  BY <1>2, <1>3
<1>14. phase' \in [Markets -> Phases] /\ Alive /\ phase'[m] # "None"
  BY <1>2, SamePhases DEF lifecycleVars
<1>15. /\ lp' \in [Accounts -> Nat] /\ checkpoint' \in [Accounts -> Nat]
       /\ Pooled(m, 0 - pending)
  <2>1. lp[<<m, u>>] + (0 - shares) \in Nat /\ 0 - shares \in Int
    BY <1>2, <1>4, <1>5
  <2>2. lp' = [lp EXCEPT ![<<m, u>>] = @ + (0 - shares)]
    <3>1. PICK x : x = lp[<<m, u>>] - shares /\ x = lp[<<m, u>>] + (0 - shares)
      BY <1>4, <1>5
    <3>2. lp' = [lp EXCEPT ![<<m, u>>] = x]
      BY <1>2, <1>3, <1>4, <3>1
    <3> QED BY <3>1, <3>2
  <2>3. /\ lp' \in [Accounts -> Nat] /\ checkpoint' \in [Accounts -> Nat]
        /\ Pooled(m, 0 - compute_lp_fees_owed(m, u))
    BY <1>2, <1>9, <1>10, <1>14, <2>1, <2>2, HeldPooled
  <2> QED BY <1>1, <2>3
<1>16. StepParts(m, 0, 0 - pending, 0 - pending, d, y)
  BY <1>2, <1>7, <1>8, <1>9, <1>10, <1>11, <1>12, <1>13, <1>14, <1>15 DEF StepParts
<1>17. 0 \in Int /\ 0 - pending \in Int
  BY <1>5
<1> QED BY <1>16, <1>17, StepTraded, Zenon

\* A vault that stays books nothing.
LEMMA BookedSame ==
    ASSUME Sound, NEW m \in Markets
    PROVE  Booked(vault, vault, m, 0, 0, 0)
<1>1. vault \in Vaults /\ BooksKept(vault) /\ LoansKept(vault)
  BY SoundFields
<1>2. Settles(vault, vault, 0)
  BY <1>1, SettlesNothing
<1> QED BY <1>1, <1>2, SettlesBooked

\* Pools that stay gain nothing.
LEMMA PooledSame ==
    ASSUME Sound, NEW m \in Markets, UNCHANGED poolVars
    PROVE  Pooled(m, 0) /\ lp' \in [Accounts -> Nat] /\ checkpoint' \in [Accounts -> Nat]
<1>1. pool' = pool /\ lp' = lp /\ checkpoint' = checkpoint
  BY DEF poolVars
<1>2. /\ pool \in [Markets -> PoolRecord] /\ lp \in [Accounts -> Nat]
      /\ checkpoint \in [Accounts -> Nat]
  BY SoundFields
<1>3. Gains(pool[m], pool'[m], 0)
  BY <1>1, <1>2, GainsNothing
<1> QED BY <1>1, <1>2, <1>3 DEF Pooled, Accrued

\* A step that leaves the pools and the complete sets alone.
Nothing == [s \in Sides |-> 0]

\* A step outside pools and positions is a Traded step.
LEMMA StillTraded ==
    ASSUME Sound, NEW m \in Markets, NEW f \in Int, NEW w \in Int,
           Booked(vault, vault', m, 0, f, w),
           cash' \in [Purses -> Nat], cash'["vault"] = cash["vault"] + w,
           setBacking' = setBacking, Dealt(pos, pos', m, 0, Nothing), pool' = pool,
           lp' \in [Accounts -> Nat], checkpoint' \in [Accounts -> Nat], Pooled(m, f),
           Trade \/ trades' = trades, UNCHANGED lifecycleVars
    PROVE  Traded
<1>1. setBacking \in [Markets -> Nat] /\ pool \in [Markets -> PoolRecord]
  BY SoundFields
<1>2. pool[m] \in PoolRecord /\ pool' = [pool EXCEPT ![m] = pool[m]]
  BY <1>1
<1>3. \A k \in Markets : setBacking'[k] = setBacking[k] + (IF k = m THEN 0 ELSE 0)
  BY <1>1
<1>4. \A s \in Sides : Nothing[s] \in Int /\ pool[m].reserve[s] <= pool[m].reserve[s] + Nothing[s]
  BY <1>2 DEF PoolRecord, Nothing
<1>5. phase' \in [Markets -> Phases] /\ Alive
  BY SamePhases
<1>6. StepParts(m, 0, f, w, Nothing, pool[m])
  BY <1>1, <1>2, <1>3, <1>4, <1>5 DEF StepParts
<1> QED BY <1>6, StepTraded

\* Positions that stay deal nothing.
LEMMA PositionsSame ==
    ASSUME Sound, NEW m \in Markets, pos' = pos
    PROVE  Dealt(pos, pos', m, 0, Nothing)
<1>1. pos \in [Tokens -> Nat] /\ pos \in [Tokens -> Int]
  BY SoundFields
<1>2. \A k \in Markets, s \in Sides : <<k, "amm", s>> \in Tokens /\ SupplyIn(pos, k, s) \in Int
  BY <1>1, SupplyInt DEF Tokens, Holders
<1>3. \A s \in Sides : Nothing[s] = 0
  BY DEF Nothing
<1>4. \A s \in Sides : pos'[<<m, "amm", s>>] >= pos[<<m, "amm", s>>] + Nothing[s]
  BY <1>1, <1>2, <1>3
<1>5. ASSUME NEW k \in Markets \ {m}, NEW s \in Sides
      PROVE  pos'[<<k, "amm", s>>] >= pos[<<k, "amm", s>>]
  BY <1>1, <1>2
<1>6. ASSUME NEW k \in Markets, NEW s \in Sides
      PROVE  SupplyIn(pos', k, s) <= SupplyIn(pos, k, s) + (IF k = m THEN 0 ELSE 0)
  <2>1. SupplyIn(pos', k, s) = SupplyIn(pos, k, s)
    BY Zenon
  <2>2. SupplyIn(pos, k, s) \in Int
    BY <1>2
  <2> QED BY <2>1, <2>2
<1> QED BY <1>1, <1>4, <1>5, <1>6 DEF Dealt

\* claim_fees is a Traded step.
LEMMA ClaimTraded ==
    ASSUME Sound, NEW u \in Traders, NEW m \in Markets, claim_fees(u, m)
    PROVE  Traded
<1>1. PICK owed : owed = compute_lp_fees_owed(m, u)
  OBVIOUS
<1>2. /\ owed > 0 /\ owed <= vault.book[m].lp_fees /\ Checkpointed(m, u)
      /\ CanTransfer(cash, "vault", owed) /\ cash' = Transferred(cash, "vault", u, owed)
      /\ vault' = claim_lp_fees(vault, m, owed)
      /\ UNCHANGED <<lifecycleVars, tokenVars, pool, lp, trades>>
  BY <1>1 DEF claim_fees
<1>3. /\ vault \in Vaults /\ BooksKept(vault) /\ LoansKept(vault)
      /\ pool \in [Markets -> PoolRecord] /\ lp \in [Accounts -> Nat]
      /\ cash \in [Purses -> Nat]
  BY SoundFields
<1>4. owed \in Nat
  BY <1>1, OwedBounds
<1>5. Booked(vault, vault', m, 0, 0 - owed, 0 - owed)
  BY <1>2, <1>3, <1>4, ClaimBooked
<1>6. cash' \in [Purses -> Nat] /\ cash'["vault"] = cash["vault"] + (0 - owed)
  <2>1. u \in Purses /\ u # "vault" /\ "vault" \in Purses
    BY TraderNames DEF Purses
  <2>2. cash' \in [Purses -> Nat] /\ cash'["vault"] = cash["vault"] - owed
    BY <1>2, <1>3, <1>4, <2>1, PaidFrom
  <2> QED BY <1>3, <1>4, <2>1, <2>2
<1>7. /\ lp' \in [Accounts -> Nat] /\ checkpoint' \in [Accounts -> Nat]
      /\ Pooled(m, 0 - owed)
  <2>1. <<m, u>> \in Accounts /\ lp[<<m, u>>] \in Nat
    BY <1>3 DEF Accounts
  <2>2. lp[<<m, u>>] + 0 = lp[<<m, u>>]
    BY <2>1
  <2>3. lp' = [lp EXCEPT ![<<m, u>>] = @ + 0]
    BY <1>2, <1>3, <2>1, <2>2
  <2>4. PICK y \in PoolRecord : y = pool[m] /\ pool' = [pool EXCEPT ![m] = y]
    BY <1>2, <1>3
  <2>5. PICK s \in Int : s = 0
    OBVIOUS
  <2>7. /\ y.shares = pool[m].shares + s /\ y.fee_per_share = pool[m].fee_per_share
        /\ lp[<<m, u>>] + s \in Nat /\ lp' = [lp EXCEPT ![<<m, u>>] = @ + s]
    BY <2>1, <2>2, <2>3, <2>4, <2>5 DEF PoolRecord
  <2>6. /\ lp' \in [Accounts -> Nat] /\ checkpoint' \in [Accounts -> Nat]
        /\ Pooled(m, 0 - compute_lp_fees_owed(m, u))
    BY <1>2, <2>4, <2>5, <2>7, HeldPooled
  <2> QED BY <1>1, <2>6
<1>8. Dealt(pos, pos', m, 0, Nothing)
  BY <1>2, PositionsSame DEF tokenVars
<1>9. setBacking' = setBacking /\ pool' = pool /\ trades' = trades /\ UNCHANGED lifecycleVars
  BY <1>2 DEF tokenVars
<1>10. 0 - owed \in Int
  BY <1>4
<1> QED BY <1>5, <1>6, <1>7, <1>8, <1>9, <1>10, StillTraded

\* sweep_fees is a Traded step.
LEMMA SweepTraded ==
    ASSUME Sound, NEW m \in Markets, sweep_fees(m)
    PROVE  Traded
<1>1. PICK swept : swept = Swept(vault, m) - ReserveCut(vault, m)
  OBVIOUS
<1>2. /\ CanTransfer(cash, "vault", swept)
      /\ cash' = Transferred(cash, "vault", "treasury", swept)
      /\ vault' = sweep_protocol_fees(vault, m)
      /\ UNCHANGED <<lifecycleVars, tokenVars, poolVars, trades>>
  BY <1>1 DEF sweep_fees
<1>3. /\ vault \in Vaults /\ BooksKept(vault) /\ LoansKept(vault) /\ cash \in [Purses -> Nat]
  BY SoundFields
<1>4. swept \in Nat /\ Booked(vault, vault', m, 0, 0, 0 - swept)
  BY <1>1, <1>2, <1>3, SweepBooked
<1>5. cash' \in [Purses -> Nat] /\ cash'["vault"] = cash["vault"] + (0 - swept)
  <2>1. "treasury" \in Purses /\ "treasury" # "vault" /\ "vault" \in Purses
    BY DEF Purses
  <2>2. cash' \in [Purses -> Nat] /\ cash'["vault"] = cash["vault"] - swept
    BY <1>2, <1>3, <1>4, <2>1, PaidFrom
  <2> QED BY <1>3, <1>4, <2>1, <2>2
<1>6. Pooled(m, 0) /\ lp' \in [Accounts -> Nat] /\ checkpoint' \in [Accounts -> Nat]
  BY <1>2, PooledSame
<1>7. Dealt(pos, pos', m, 0, Nothing)
  BY <1>2, PositionsSame DEF tokenVars
<1>8. setBacking' = setBacking /\ pool' = pool /\ trades' = trades /\ UNCHANGED lifecycleVars
  BY <1>2 DEF tokenVars, poolVars
<1>9. 0 - swept \in Int
  BY <1>4
<1> QED BY <1>4, <1>5, <1>6, <1>7, <1>8, <1>9, StillTraded

\* repay_child_collateral is a Traded step.
LEMMA RepayTraded ==
    ASSUME Sound, NEW u \in Traders, NEW m \in Markets,
           NEW amount \in Parts(vault.childDebt[<<m, u>>]), repay_child_collateral(u, m, amount)
    PROVE  Traded
<1>1. PICK s : s = settle_child_debt(vault, m, u, amount)
  OBVIOUS
<1>2. /\ CanTransfer(cash, u, amount)
      /\ cash' = Transferred(cash, u, "vault", s.applied)
      /\ vault' = s.vault
      /\ UNCHANGED <<lifecycleVars, tokenVars, poolVars, trades>>
  BY <1>1 DEF repay_child_collateral
<1>3. /\ vault \in Vaults /\ BooksKept(vault) /\ LoansKept(vault) /\ cash \in [Purses -> Nat]
  BY SoundFields
<1>4. amount \in Nat
  <2>1. vault.childDebt[<<m, u>>] \in Nat
    BY <1>3, VaultFields DEF Accounts
  <2> QED BY <2>1, PartsPositive
<1>5. Settles(vault, vault', s.applied) /\ s.applied \in Nat /\ s.applied <= amount
  BY <1>1, <1>2, <1>3, <1>4, DebtSettled
<1>6. Booked(vault, vault', m, 0, 0, s.applied)
  BY <1>3, <1>5, SettlesBooked
<1>7. cash' \in [Purses -> Nat] /\ cash'["vault"] = cash["vault"] + s.applied
  <2>1. cash[u] \in Nat
    BY <1>3 DEF Purses
  <2>2. CanTransfer(cash, u, s.applied)
    BY <1>2, <1>4, <1>5, <2>1 DEF CanTransfer
  <2> QED BY <1>2, <1>5, <2>2, PaidIn
<1>8. Pooled(m, 0) /\ lp' \in [Accounts -> Nat] /\ checkpoint' \in [Accounts -> Nat]
  BY <1>2, PooledSame
<1>9. Dealt(pos, pos', m, 0, Nothing)
  BY <1>2, PositionsSame DEF tokenVars
<1>10. setBacking' = setBacking /\ pool' = pool /\ trades' = trades /\ UNCHANGED lifecycleVars
  BY <1>2 DEF tokenVars, poolVars
<1>11. s.applied \in Int
  BY <1>5
<1> QED BY <1>6, <1>7, <1>8, <1>9, <1>10, <1>11, StillTraded

\* A pool after a trade.
LEMMA DealPooled ==
    ASSUME Sound, NEW m \in Markets, NEW y, NEW d, NEW f \in Int, PoolDeals(pool[m], y, d, f),
           pool' = [pool EXCEPT ![m] = y], lp' = lp, checkpoint' = checkpoint
    PROVE  /\ Pooled(m, f) /\ lp' \in [Accounts -> Nat] /\ checkpoint' \in [Accounts -> Nat]
           /\ y \in PoolRecord
<1>1. /\ pool \in [Markets -> PoolRecord] /\ lp \in [Accounts -> Nat]
      /\ checkpoint \in [Accounts -> Nat]
  BY SoundFields
<1>2. y \in PoolRecord /\ Gains(pool[m], y, f)
  BY DEF PoolDeals
<1>3. pool'[m] = y /\ \A k \in Markets \ {m} : pool'[k] = pool[k]
  BY <1>1
<1>4. Accrued(m, f) /\ pool'[m].shares = pool[m].shares
  BY <1>2, <1>3 DEF Accrued, Gains
<1> QED BY <1>1, <1>2, <1>3, <1>4 DEF Pooled

\* A funded purchase is a Traded step.
LEMMA BoughtTraded ==
    ASSUME Sound, NEW u \in Traders, NEW m \in Markets, NEW o \in Sides, NEW a \in Nat,
           CanBuy(m, o, a), NEW q, q = BuyQuote(m, o, a), NEW funded, NEW w \in Int,
           Booked(vault, funded, m, a, 0, w), Bought(funded, u, m, o, q),
           cash' \in [Purses -> Nat], cash'["vault"] = cash["vault"] + w
    PROVE  Traded
<1>1. /\ vault \in Vaults /\ BooksKept(vault) /\ LoansKept(vault)
      /\ pos \in [Tokens -> Nat] /\ setBacking \in [Markets -> Nat]
      /\ pool \in [Markets -> PoolRecord] /\ PoolsTypeOK
  BY SoundFields
<1>2. /\ HasBacking(funded, m, FeesOf(FeeParts(q.fee)))
      /\ vault' = collect_fee(funded, m, FeeParts(q.fee))
      /\ CanSub(Minted(pos, m, q.net_in), m, "amm", o, q.out)
      /\ pos' = Moved(Minted(pos, m, q.net_in), m, "amm", u, o, q.out)
      /\ setBacking' = [setBacking EXCEPT ![m] = @ + q.net_in]
      /\ pool' = [pool EXCEPT ![m] = PoolAfterBuy(m, o, q)]
      /\ Trade /\ UNCHANGED <<lifecycleVars, lp, checkpoint>>
  BY DEF Bought
<1>3. CanQuote(m) /\ q.net_in > 0 /\ phase[m] = "Live"
  BY DEF CanBuy, require_live
<1> DEFINE d == [s \in Sides |-> q.net_in - (IF s = o THEN q.out ELSE 0)]
<1>4. \A s \in Sides : d[s] = q.net_in - (IF s = o THEN q.out ELSE 0)
  OBVIOUS
<1> HIDE DEF d
<1>5. /\ q.fee \in Nat /\ q.net_in \in Nat /\ q.fee + q.net_in = a /\ q.out \in Int
      /\ PoolDeals(pool[m], PoolAfterBuy(m, o, q), d, FeeParts(q.fee).lp)
  BY <1>1, <1>3, <1>4, PoolBought
<1>6. PICK n \in Nat, fee \in Nat, out \in Int : n = q.net_in /\ fee = q.fee /\ out = q.out
  BY <1>5
<1>7. PICK f, lpf : f = FeeParts(fee) /\ f \in FeeShares /\ FeesOf(f) = fee
                    /\ lpf = f.lp /\ lpf \in Nat
  BY <1>6, FeePartsSum DEF FeeShares
<1>8. Booked(vault, vault', m, n, lpf, w)
  <2>1. funded \in Vaults /\ BooksKept(funded) /\ LoansKept(funded)
    BY DEF Booked
  <2>2. Booked(funded, vault', m, 0 - FeesOf(f), f.lp, 0)
    BY <1>2, <1>6, <1>7, <2>1, CollectBooked
  <2>3. Booked(funded, vault', m, 0 - fee, lpf, 0)
    BY <1>7, <2>2
  <2>4. Booked(vault, vault', m, a + (0 - fee), 0 + lpf, w + 0)
    BY <1>1, <1>6, <1>7, <2>3, BookedTwice
  <2>5. a + (0 - fee) = n /\ 0 + lpf = lpf /\ w + 0 = w
    BY <1>5, <1>6, <1>7
  <2> QED BY <2>4, <2>5
<1>9. Dealt(pos, pos', m, n, d)
  <2>1. PICK r : r = Minted(pos, m, n)
    OBVIOUS
  <2>2. \A s \in Sides : d[s] = n - (IF s = o THEN out ELSE 0)
    BY <1>4, <1>6
  <2>3. CanSub(r, m, "amm", o, out) /\ pos' = Moved(r, m, "amm", u, o, out)
    BY <1>2, <1>6, <2>1
  <2>4. Deals(pos, pos', m, n, d)
    BY <1>1, <2>1, <2>2, <2>3, BuyDeals
  <2>5. \A s \in Sides : d[s] \in Int
    BY <2>2
  <2> QED BY <1>1, <2>4, <2>5, DealsDealt
<1>10. PICK y : y = PoolAfterBuy(m, o, q)
  OBVIOUS
<1>11. PoolDeals(pool[m], y, d, lpf) /\ pool' = [pool EXCEPT ![m] = y]
  BY <1>2, <1>5, <1>6, <1>7, <1>10
<1>12. lp' = lp /\ checkpoint' = checkpoint /\ UNCHANGED lifecycleVars
  BY <1>2
<1>12a. lpf \in Int
  BY <1>7
<1>13. /\ Pooled(m, lpf) /\ lp' \in [Accounts -> Nat] /\ checkpoint' \in [Accounts -> Nat]
       /\ y \in PoolRecord
  BY <1>11, <1>12, <1>12a, DealPooled, Zenon
<1>14. \A s \in Sides : d[s] \in Int /\ y.reserve[s] <= pool[m].reserve[s] + d[s]
  <2>1. \A s \in Sides : pool[m].reserve[s] \in Nat
    BY <1>1 DEF PoolRecord
  <2>2. \A s \in Sides : d[s] \in Int
    BY <1>4, <1>5
  <2> QED BY <1>11, <2>1, <2>2 DEF PoolDeals
<1>15. setBacking' \in [Markets -> Nat]
       /\ \A k \in Markets : setBacking'[k] = setBacking[k] + (IF k = m THEN n ELSE 0)
  BY <1>1, <1>2, <1>6
<1>16. phase' \in [Markets -> Phases] /\ Alive
  BY <1>12, SamePhases
<1>17. StepParts(m, n, lpf, w, d, y)
  BY <1>2, <1>3, <1>8, <1>9, <1>11, <1>13, <1>14, <1>15, <1>16 DEF StepParts
<1>18. n \in Int /\ lpf \in Int
  BY <1>7
<1> QED BY <1>17, <1>18, StepTraded, Zenon

\* buy is a Traded step.
LEMMA BuyTraded ==
    ASSUME Sound, NEW u \in Traders, NEW m \in Markets, NEW o \in Sides, NEW a \in Amounts,
           buy(u, m, o, a)
    PROVE  Traded
<1>1. PICK q : q = BuyQuote(m, o, a)
  OBVIOUS
<1>2. PICK x, funded : /\ x = deposit_for_market(vault, m, a)
                       /\ funded = record_cash_stake(x, u, m, o, a)
  OBVIOUS
<1>3. /\ CanBuy(m, o, a) /\ CanTransfer(cash, u, a)
      /\ cash' = Transferred(cash, u, "vault", a)
      /\ Bought(funded, u, m, o, q)
  BY <1>1, <1>2 DEF buy
<1>4. a \in Nat /\ vault \in Vaults /\ BooksKept(vault) /\ LoansKept(vault)
  BY SoundFields, TradingAssumption
<1>5. Booked(vault, x, m, a, 0, a)
  BY <1>2, <1>4, CreditBooked DEF deposit_for_market
<1>6. x \in Vaults /\ BooksKept(x) /\ LoansKept(x)
  BY <1>5 DEF Booked
<1>7. Booked(x, funded, m, 0, 0, 0)
  BY <1>2, <1>4, <1>6, StakeRecorded
<1>8. Booked(vault, funded, m, a + 0, 0 + 0, a + 0)
  BY <1>4, <1>5, <1>7, BookedTwice
<1>9. a + 0 = a /\ 0 + 0 = 0 /\ a \in Int
  BY <1>4
<1>10. Booked(vault, funded, m, a, 0, a)
  BY <1>8, <1>9
<1>11. cash' \in [Purses -> Nat] /\ cash'["vault"] = cash["vault"] + a
  BY <1>3, <1>4, PaidIn
<1> QED BY <1>1, <1>3, <1>4, <1>9, <1>10, <1>11, BoughtTraded

\* buy_child is a Traded step.
LEMMA BuyChildTraded ==
    ASSUME Sound, NEW u \in Traders, NEW l \in CreditLines, NEW o \in Sides, NEW a \in Amounts,
           buy_child(u, l[1], l[2], l[3], o, a)
    PROVE  Traded
<1>1. PICK p \in Lenders, po \in Sides, m \in Borrowers : p = l[1] /\ po = l[2] /\ m = l[3]
  <2>1. l[1] \in Lenders /\ l[3] \in Borrowers
    BY DEF Lenders, Borrowers
  <2>2. l[2] \in Sides
    BY TradingAssumption
  <2> QED BY <2>1, <2>2
<1>2. PICK q, funded : /\ q = BuyQuote(m, o, a)
                       /\ funded = open_child_credit_for_trade(vault, u, p, po, m, a)
  OBVIOUS
<1>3. /\ CanBuy(m, o, a) /\ CanOpenCredit(vault, u, p, po, m, a)
      /\ Bought(funded, u, m, o, q) /\ UNCHANGED cash
  BY <1>1, <1>2 DEF buy_child
<1>4. /\ a \in Nat /\ vault \in Vaults /\ BooksKept(vault) /\ LoansKept(vault)
      /\ cash \in [Purses -> Nat]
  BY SoundFields, TradingAssumption
<1>5. Booked(vault, funded, m, a, 0, 0)
  BY <1>2, <1>3, <1>4, CreditOpened
<1>6. cash' \in [Purses -> Nat] /\ cash'["vault"] = cash["vault"] + 0
  <2>1. cash["vault"] \in Nat
    BY <1>4 DEF Purses
  <2> QED BY <1>3, <1>4, <2>1
<1>7. m \in Markets
  BY LinesInMarkets
<1> QED BY <1>2, <1>3, <1>4, <1>5, <1>6, <1>7, BoughtTraded

\* What a sale does to pool, tokens and vault is a Traded step.
LEMMA SoldTraded ==
    ASSUME Sound, NEW u \in Traders, NEW m \in Markets, NEW o \in Sides, NEW a \in Nat,
           require_live(m), NEW q, q = SellQuote(m, o, a), SoldInto(u, m, o, a, q),
           NEW w \in Int, Booked(vault, vault', m, 0 - q.gross, FeeParts(q.fee).lp, w),
           cash' \in [Purses -> Nat], cash'["vault"] = cash["vault"] + w,
           Trade \/ trades' = trades
    PROVE  Traded
<1>1. /\ pos \in [Tokens -> Nat] /\ setBacking \in [Markets -> Nat]
      /\ pool \in [Markets -> PoolRecord] /\ PoolsTypeOK
  BY SoundFields
<1>2. /\ CanSub(pos, m, u, o, a)
      /\ CanMerge(Moved(pos, m, u, "amm", o, a), m, q.gross)
      /\ pos' = Minted(Moved(pos, m, u, "amm", o, a), m, 0 - q.gross)
      /\ setBacking' = [setBacking EXCEPT ![m] = @ - q.gross]
      /\ pool' = [pool EXCEPT ![m] = PoolAfterSell(m, o, a, q)]
      /\ UNCHANGED <<lifecycleVars, lp, checkpoint>>
  BY DEF SoldInto
<1>3. phase[m] = "Live"
  BY DEF require_live
<1> DEFINE d == [s \in Sides |-> (IF s = o THEN a ELSE 0) - q.gross]
<1>4. \A s \in Sides : d[s] = (IF s = o THEN a ELSE 0) - q.gross
  OBVIOUS
<1> HIDE DEF d
<1>5. /\ q.gross \in Nat /\ q.fee \in Nat /\ q.net \in Nat /\ q.fee + q.net = q.gross
      /\ PoolDeals(pool[m], PoolAfterSell(m, o, a, q), d, FeeParts(q.fee).lp)
  BY <1>1, <1>4, PoolSold
<1>6. PICK g \in Nat, fee \in Nat : g = q.gross /\ fee = q.fee
  BY <1>5
<1>7. PICK lpf \in Int : lpf = FeeParts(fee).lp
  BY <1>6, FeePartsSum DEF FeeShares
<1>8. Booked(vault, vault', m, 0 - g, lpf, w)
  BY <1>6, <1>7
<1>9. Dealt(pos, pos', m, 0 - g, d)
  <2>1. PICK r : r = Moved(pos, m, u, "amm", o, a)
    OBVIOUS
  <2>2. \A s \in Sides : d[s] = (IF s = o THEN a ELSE 0) - g
    BY <1>4, <1>6
  <2>3. CanMerge(r, m, g) /\ pos' = Minted(r, m, 0 - g)
    BY <1>2, <1>6, <2>1
  <2>4. Deals(pos, pos', m, 0 - g, d)
    BY <1>1, <1>2, <2>1, <2>2, <2>3, SellDeals
  <2>5. \A s \in Sides : d[s] \in Int
    BY <2>2
  <2> QED BY <1>1, <2>4, <2>5, DealsDealt
<1>10. PICK y : y = PoolAfterSell(m, o, a, q)
  OBVIOUS
<1>11. PoolDeals(pool[m], y, d, lpf) /\ pool' = [pool EXCEPT ![m] = y]
  BY <1>2, <1>5, <1>6, <1>7, <1>10
<1>12. lp' = lp /\ checkpoint' = checkpoint /\ UNCHANGED lifecycleVars
  BY <1>2
<1>13. /\ Pooled(m, lpf) /\ lp' \in [Accounts -> Nat] /\ checkpoint' \in [Accounts -> Nat]
       /\ y \in PoolRecord
  BY <1>11, <1>12, DealPooled, Zenon
<1>14. \A s \in Sides : d[s] \in Int /\ y.reserve[s] <= pool[m].reserve[s] + d[s]
  <2>1. \A s \in Sides : pool[m].reserve[s] \in Nat
    BY <1>1 DEF PoolRecord
  <2>2. \A s \in Sides : d[s] \in Int
    BY <1>4, <1>5
  <2> QED BY <1>11, <2>1, <2>2 DEF PoolDeals
<1>15. setBacking' \in [Markets -> Nat]
       /\ \A k \in Markets : setBacking'[k] = setBacking[k] + (IF k = m THEN 0 - g ELSE 0)
  <2>1. g <= setBacking[m]
    BY <1>2, <1>6 DEF CanMerge
  <2> QED BY <1>1, <1>2, <1>6, <2>1
<1>16. phase' \in [Markets -> Phases] /\ Alive
  BY <1>12, SamePhases
<1>17. StepParts(m, 0 - g, lpf, w, d, y)
  BY <1>3, <1>8, <1>9, <1>11, <1>13, <1>14, <1>15, <1>16 DEF StepParts
<1>18. 0 - g \in Int
  OBVIOUS
<1> QED BY <1>17, <1>18, StepTraded, Zenon

\* sell is a Traded step.
LEMMA SellTraded ==
    ASSUME Sound, NEW u \in Traders, NEW m \in Markets, NEW o \in Sides,
           NEW a \in Parts(pos[<<m, u, o>>]), sell(u, m, o, a)
    PROVE  Traded
<1>1. PICK q, x, f : /\ q = SellQuote(m, o, a)
                     /\ x = release_trade_payout(vault, u, m, o, a, q.net)
                     /\ f = FeeParts(q.fee)
  OBVIOUS
<1>2. /\ require_live(m) /\ HasBacking(vault, m, q.net) /\ HasBacking(x, m, FeesOf(f))
      /\ vault' = collect_fee(x, m, f)
      /\ CanTransfer(cash, "vault", q.net) /\ cash' = Transferred(cash, "vault", u, q.net)
      /\ SoldInto(u, m, o, a, q) /\ Trade
  BY <1>1 DEF sell
<1>3. /\ vault \in Vaults /\ BooksKept(vault) /\ LoansKept(vault)
      /\ pos \in [Tokens -> Nat] /\ cash \in [Purses -> Nat] /\ PoolsTypeOK
  BY SoundFields
<1>4. a \in Nat
  BY <1>1, <1>3, TokenPart
<1>5. q.gross \in Nat /\ q.fee \in Nat /\ q.net \in Nat /\ q.fee + q.net = q.gross
  BY <1>1, <1>3, <1>4, QuoteParts
<1>6. PICK g \in Nat, fee \in Nat, net \in Nat : g = q.gross /\ fee = q.fee /\ net = q.net
  BY <1>5
<1>7. f \in FeeShares /\ FeesOf(f) = fee /\ f.lp \in Int
  BY <1>1, <1>6, FeePartsSum DEF FeeShares
<1>8. Booked(vault, vault', m, 0 - g, f.lp, 0 - net)
  <2>1. Booked(vault, x, m, 0 - net, 0, 0 - net)
    BY <1>1, <1>2, <1>3, <1>4, <1>6, ReleaseBooked
  <2>2. x \in Vaults /\ BooksKept(x) /\ LoansKept(x)
    BY <2>1 DEF Booked
  <2>3. Booked(x, vault', m, 0 - FeesOf(f), f.lp, 0)
    BY <1>2, <1>7, <2>2, CollectBooked
  <2>4. PICK lpf \in Int : lpf = f.lp
    BY <1>7
  <2>5. Booked(x, vault', m, 0 - fee, lpf, 0)
    BY <1>7, <2>3, <2>4
  <2>6. Booked(vault, vault', m, (0 - net) + (0 - fee), 0 + lpf, (0 - net) + 0)
    BY <1>3, <2>1, <2>5, BookedTwice
  <2>7. (0 - net) + (0 - fee) = 0 - g /\ 0 + lpf = lpf /\ (0 - net) + 0 = 0 - net
    BY <1>5, <1>6
  <2> QED BY <2>4, <2>6, <2>7
<1>9. cash' \in [Purses -> Nat] /\ cash'["vault"] = cash["vault"] + (0 - net)
  <2>1. u \in Purses /\ u # "vault" /\ "vault" \in Purses
    BY TraderNames DEF Purses
  <2>2. cash' \in [Purses -> Nat] /\ cash'["vault"] = cash["vault"] - net
    BY <1>2, <1>3, <1>6, <2>1, PaidFrom
  <2> QED BY <1>3, <2>1, <2>2
<1>10. Booked(vault, vault', m, 0 - q.gross, FeeParts(q.fee).lp, 0 - net)
  BY <1>1, <1>6, <1>8
<1>11. 0 - net \in Int
  OBVIOUS
<1> QED BY <1>1, <1>2, <1>4, <1>9, <1>10, <1>11, SoldTraded

\* A sale forced on a user in debt, with what its release does.
LEMMA ForcedTraded ==
    ASSUME Sound, NEW k \in Traders, NEW u \in Traders, NEW m \in Markets, NEW o \in Sides,
           require_live(m), NEW q, q = SellQuote(m, o, pos[<<m, u, o>>]), ForceSold(u, m, o, q),
           NEW x, x = collect_fee(vault, m, FeeParts(q.fee)), NEW r, Released(k, u, r),
           /\ q.net \in Nat /\ HasBacking(x, m, q.net)
           /\ x \in Vaults /\ BooksKept(x) /\ LoansKept(x)
           => /\ r.bonus \in Nat /\ r.remainder \in Nat
              /\ Booked(x, r.vault, m, 0 - q.net, 0, 0 - (r.bonus + r.remainder))
    PROVE  Traded
<1>1. PICK a, f : a = pos[<<m, u, o>>] /\ f = FeeParts(q.fee)
  OBVIOUS
<1>2. /\ HasBacking(vault, m, FeesOf(f)) /\ HasBacking(x, m, q.net)
      /\ SoldInto(u, m, o, a, q) /\ trades' = trades
  BY <1>1 DEF ForceSold
<1>3. /\ vault \in Vaults /\ BooksKept(vault) /\ LoansKept(vault)
      /\ pos \in [Tokens -> Nat] /\ cash \in [Purses -> Nat] /\ PoolsTypeOK
  BY SoundFields
<1>4. a \in Nat
  BY <1>1, <1>3 DEF Tokens, Holders
<1>5. q.gross \in Nat /\ q.fee \in Nat /\ q.net \in Nat /\ q.fee + q.net = q.gross
  BY <1>1, <1>3, <1>4, QuoteParts
<1>6. PICK g \in Nat, fee \in Nat, net \in Nat : g = q.gross /\ fee = q.fee /\ net = q.net
  BY <1>5
<1>7. f \in FeeShares /\ FeesOf(f) = fee /\ f.lp \in Int
  <2>1. f = FeeParts(fee)
    BY <1>1, <1>6
  <2>2. f \in FeeShares /\ FeesOf(f) = fee
    BY <2>1, FeePartsSum
  <2> QED BY <2>2 DEF FeeShares
<1>8. Booked(vault, x, m, 0 - fee, f.lp, 0)
  <2>1. Booked(vault, x, m, 0 - FeesOf(f), f.lp, 0)
    BY <1>1, <1>2, <1>3, <1>7, CollectBooked
  <2> QED BY <1>7, <2>1
<1>9. x \in Vaults /\ BooksKept(x) /\ LoansKept(x)
  BY <1>8 DEF Booked
<1>10. /\ r.bonus \in Nat /\ r.remainder \in Nat
       /\ Booked(x, r.vault, m, 0 - q.net, 0, 0 - (r.bonus + r.remainder))
  BY <1>2, <1>5, <1>9
<1>11. PICK bonus \in Nat, rest \in Nat : bonus = r.bonus /\ rest = r.remainder
  BY <1>10
<1>12. /\ CanTransfer(cash, "vault", bonus + rest)
       /\ cash' = Transferred(Transferred(cash, "vault", k, bonus), "vault", u, rest)
       /\ vault' = r.vault
  BY <1>11 DEF Released
<1>13. PICK w \in Int : w = 0 - (bonus + rest)
  OBVIOUS
<1>14. Booked(vault, vault', m, 0 - g, f.lp, w)
  <2>1. PICK lpf \in Int : lpf = f.lp
    BY <1>7
  <2>2. Booked(vault, x, m, 0 - fee, lpf, 0) /\ Booked(x, vault', m, 0 - net, 0, w)
    BY <1>6, <1>8, <1>10, <1>11, <1>12, <1>13, <2>1
  <2>3. 0 - fee \in Int /\ 0 - net \in Int /\ 0 \in Int
    OBVIOUS
  <2>4. Booked(vault, vault', m, (0 - fee) + (0 - net), lpf + 0, 0 + w)
    BY <1>3, <2>2, <2>3, BookedTwice
  <2>5. (0 - fee) + (0 - net) = 0 - g /\ lpf + 0 = lpf /\ 0 + w = w
    BY <1>5, <1>6
  <2> QED BY <2>1, <2>4, <2>5
<1>15. cash' \in [Purses -> Nat] /\ cash'["vault"] = cash["vault"] + w
  <2>1. /\ u \in Purses /\ u # "vault" /\ k \in Purses /\ k # "vault" /\ "vault" \in Purses
    BY TraderNames DEF Purses
  <2>2. PICK c : c = Transferred(cash, "vault", k, bonus)
    OBVIOUS
  <2>3. cash["vault"] \in Nat /\ bonus + rest <= cash["vault"]
    BY <1>3, <1>12, <2>1 DEF CanTransfer
  <2>4. CanTransfer(cash, "vault", bonus)
    BY <2>3 DEF CanTransfer
  <2>5. c \in [Purses -> Nat] /\ c["vault"] = cash["vault"] - bonus
    BY <1>3, <2>1, <2>2, <2>4, PaidFrom
  <2>6. CanTransfer(c, "vault", rest)
    BY <2>3, <2>5 DEF CanTransfer
  <2>7. cash' \in [Purses -> Nat] /\ cash'["vault"] = c["vault"] - rest
    BY <1>12, <2>1, <2>2, <2>5, <2>6, PaidFrom
  <2> QED BY <1>13, <2>3, <2>5, <2>7
<1>16. Booked(vault, vault', m, 0 - q.gross, FeeParts(q.fee).lp, w)
  BY <1>1, <1>6, <1>14
<1> QED BY <1>1, <1>2, <1>4, <1>15, <1>16, SoldTraded

\* liquidate_position is a Traded step.
LEMMA LiquidateTraded ==
    ASSUME Sound, NEW k \in Traders, NEW u \in Traders, NEW m \in Markets, NEW o \in Sides,
           liquidate_position(k, u, m, o)
    PROVE  Traded
<1>1. PICK q, x, r, a :
        /\ a = pos[<<m, u, o>>] /\ q = SellQuote(m, o, a)
        /\ x = collect_fee(vault, m, FeeParts(q.fee))
        /\ r = liquidate_release(x, u, m, o, a, q.net)
  OBVIOUS
<1>2. require_live(m) /\ ForceSold(u, m, o, q) /\ Released(k, u, r)
  BY <1>1 DEF liquidate_position, Liquidatable
<1>3. a \in Nat
  BY <1>1, SoundFields DEF Tokens, Holders
<1>4. /\ q.net \in Nat /\ HasBacking(x, m, q.net)
      /\ x \in Vaults /\ BooksKept(x) /\ LoansKept(x)
      => /\ r.bonus \in Nat /\ r.remainder \in Nat
         /\ Booked(x, r.vault, m, 0 - q.net, 0, 0 - (r.bonus + r.remainder))
  BY <1>1, <1>3, LiquidationBooked
<1> QED BY <1>1, <1>2, <1>4, ForcedTraded

\* liquidate_child_position is a Traded step.
LEMMA LiquidateChildTraded ==
    ASSUME Sound, NEW k \in Traders, NEW u \in Traders, NEW m \in Markets, NEW o \in Sides,
           liquidate_child_position(k, u, m, o)
    PROVE  Traded
<1>1. PICK q, x, r, a :
        /\ a = pos[<<m, u, o>>] /\ q = SellQuote(m, o, a)
        /\ x = collect_fee(vault, m, FeeParts(q.fee))
        /\ r = liquidate_child_release(x, u, m, o, a, q.net)
  OBVIOUS
<1>2. require_live(m) /\ ForceSold(u, m, o, q) /\ Released(k, u, r)
  BY <1>1 DEF liquidate_child_position, Liquidatable
<1>3. a \in Nat
  BY <1>1, SoundFields DEF Tokens, Holders
<1>4. /\ q.net \in Nat /\ HasBacking(x, m, q.net)
      /\ x \in Vaults /\ BooksKept(x) /\ LoansKept(x)
      => /\ r.bonus \in Nat /\ r.remainder \in Nat
         /\ Booked(x, r.vault, m, 0 - q.net, 0, 0 - (r.bonus + r.remainder))
  BY <1>1, <1>3, ChildLiquidationBooked
<1> QED BY <1>1, <1>2, <1>4, ForcedTraded

\* Positions that change hands or are burned; the vault is not asked.
LEMMA PositionsTraded ==
    ASSUME Sound, NEW m \in Markets, Dealt(pos, pos', m, 0, Nothing), Trade,
           UNCHANGED <<lifecycleVars, setBacking, vault, poolVars, cash>>
    PROVE  Traded
<1>1. /\ UNCHANGED lifecycleVars /\ setBacking' = setBacking /\ vault' = vault
      /\ UNCHANGED poolVars /\ cash' = cash /\ pool' = pool
  BY DEF poolVars
<1>2. Booked(vault, vault', m, 0, 0, 0)
  BY <1>1, BookedSame
<1>3. Pooled(m, 0) /\ lp' \in [Accounts -> Nat] /\ checkpoint' \in [Accounts -> Nat]
  BY <1>1, PooledSame
<1>4. cash' \in [Purses -> Nat] /\ cash'["vault"] = cash["vault"] + 0
  <2>1. cash \in [Purses -> Nat] /\ cash["vault"] \in Nat
    BY SoundFields DEF Purses
  <2> QED BY <1>1, <2>1
<1> QED BY <1>1, <1>2, <1>3, <1>4, StillTraded

\* transfer_position is a Traded step.
LEMMA TransferTraded ==
    ASSUME Sound, NEW u \in Traders, NEW m \in Markets, NEW o \in Sides,
           NEW to \in Holders \ {u}, NEW a \in Parts(pos[<<m, u, o>>]),
           transfer_position(u, to, m, o, a)
    PROVE  Traded
<1>1. /\ CanSub(pos, m, u, o, a) /\ pos' = Moved(pos, m, u, to, o, a) /\ Trade
      /\ UNCHANGED <<lifecycleVars, setBacking, vault, poolVars, cash>>
  BY DEF transfer_position
<1>2. pos \in [Tokens -> Nat] /\ pos \in [Tokens -> Int]
  BY SoundFields
<1>3. u \in Holders /\ to \in Holders /\ u # to /\ u # "amm"
  BY TraderNames DEF Holders
<1>4. <<m, u, o>> \in Tokens /\ <<m, to, o>> \in Tokens
  BY <1>3 DEF Tokens
<1>5. a \in Nat /\ a <= pos[<<m, u, o>>]
  <2>1. pos[<<m, u, o>>] \in Nat
    BY <1>2, <1>4
  <2> QED BY <1>1, <2>1, PartsPositive DEF CanSub
<1>6. Shifts(pos, pos', m, u, to, o, a)
  BY <1>1, <1>2, <1>3, <1>5, MovedSupply
<1>7. /\ pos' \in [Tokens -> Int]
      /\ pos'[<<m, u, o>>] = pos[<<m, u, o>>] - a /\ pos'[<<m, to, o>>] = pos[<<m, to, o>>] + a
      /\ \A k \in Tokens : k \notin {<<m, u, o>>, <<m, to, o>>} => pos'[k] = pos[k]
  BY <1>3, <1>6 DEF Shifts
<1>8. \A k \in Tokens : pos'[k] >= 0 /\ (k[2] # u => pos'[k] >= pos[k])
  <2> SUFFICES ASSUME NEW k \in Tokens PROVE pos'[k] >= 0 /\ (k[2] # u => pos'[k] >= pos[k])
    OBVIOUS
  <2>1. pos[k] \in Nat /\ pos[<<m, u, o>>] \in Nat /\ pos[<<m, to, o>>] \in Nat
    BY <1>2, <1>4
  <2>2. CASE k = <<m, u, o>> BY <1>5, <1>7, <2>1, <2>2
  <2>3. CASE k = <<m, to, o>> BY <1>5, <1>7, <2>1, <2>3
  <2>4. CASE k \notin {<<m, u, o>>, <<m, to, o>>} BY <1>7, <2>1, <2>4
  <2> QED BY <2>2, <2>3, <2>4
<1>9. pos' \in [Tokens -> Nat]
  BY <1>7, <1>8
<1>10. Dealt(pos, pos', m, 0, Nothing)
  <2>1. \A k \in Markets, s \in Sides :
          /\ <<k, "amm", s>> \in Tokens /\ pos'[<<k, "amm", s>>] >= pos[<<k, "amm", s>>]
          /\ pos[<<k, "amm", s>>] \in Nat
    BY <1>2, <1>3, <1>8 DEF Tokens, Holders
  <2>2. ASSUME NEW k \in Markets, NEW s \in Sides
        PROVE  SupplyIn(pos', k, s) <= SupplyIn(pos, k, s) + (IF k = m THEN 0 ELSE 0)
    <3>1. SupplyIn(pos', k, s) = SupplyIn(pos, k, s) /\ SupplyIn(pos, k, s) \in Int
      BY <1>2, <1>6, SupplyInt DEF Shifts
    <3> QED BY <3>1
  <2>3. \A s \in Sides : pos'[<<m, "amm", s>>] >= pos[<<m, "amm", s>>] + Nothing[s]
    BY <2>1 DEF Nothing
  <2>4. ASSUME NEW k \in Markets \ {m}, NEW s \in Sides
        PROVE  pos'[<<k, "amm", s>>] >= pos[<<k, "amm", s>>]
    BY <2>1
  <2> QED BY <1>9, <2>2, <2>3, <2>4 DEF Dealt
<1> QED BY <1>1, <1>10, PositionsTraded

\* burn_losing is a Traded step.
LEMMA BurnTraded ==
    ASSUME Sound, NEW u \in Traders, NEW m \in Markets, NEW o \in Sides,
           NEW a \in Parts(pos[<<m, u, o>>]), burn_losing(u, m, o, a)
    PROVE  Traded
<1>1. /\ CanSub(pos, m, u, o, a) /\ pos' = Added(pos, m, u, o, 0 - a) /\ Trade
      /\ UNCHANGED <<lifecycleVars, setBacking, vault, poolVars, cash>>
  BY DEF burn_losing
<1>2. pos \in [Tokens -> Nat] /\ pos \in [Tokens -> Int]
  BY SoundFields
<1>3. u \in Holders /\ u # "amm" /\ <<m, u, o>> \in Tokens
  BY TraderNames DEF Holders, Tokens
<1>4. a \in Nat /\ a <= pos[<<m, u, o>>]
  <2>1. pos[<<m, u, o>>] \in Nat
    BY <1>2, <1>3
  <2> QED BY <1>1, <2>1, PartsPositive DEF CanSub
<1>5. Adds(pos, pos', m, u, o, 0 - a)
  <2>1. 0 - a \in Int
    BY <1>4
  <2> QED BY <1>1, <1>2, <1>3, <2>1, AddedSupply
<1>6. /\ pos' \in [Tokens -> Int] /\ pos'[<<m, u, o>>] = pos[<<m, u, o>>] + (0 - a)
      /\ \A k \in Tokens : k # <<m, u, o>> => pos'[k] = pos[k]
  BY <1>5 DEF Adds
<1>7. pos' \in [Tokens -> Nat]
  <2> SUFFICES ASSUME NEW k \in Tokens PROVE pos'[k] >= 0
    BY <1>6
  <2>1. pos[k] \in Nat
    BY <1>2
  <2>2. CASE k = <<m, u, o>> BY <1>4, <1>6, <2>1, <2>2
  <2>3. CASE k # <<m, u, o>> BY <1>6, <2>1, <2>3
  <2> QED BY <2>2, <2>3
<1>8. Dealt(pos, pos', m, 0, Nothing)
  <2>1. ASSUME NEW k \in Markets, NEW s \in Sides
        PROVE  /\ pos'[<<k, "amm", s>>] = pos[<<k, "amm", s>>]
               /\ pos[<<k, "amm", s>>] \in Nat
    <3>1. <<k, "amm", s>> \in Tokens /\ <<k, "amm", s>> # <<m, u, o>>
      BY <1>3 DEF Tokens, Holders
    <3> QED BY <1>2, <1>6, <3>1
  <2>2. ASSUME NEW k \in Markets, NEW s \in Sides
        PROVE  SupplyIn(pos', k, s) <= SupplyIn(pos, k, s) + (IF k = m THEN 0 ELSE 0)
    <3>1. SupplyIn(pos, k, s) \in Int
      BY <1>2, SupplyInt
    <3>2. SupplyIn(pos', k, s) = SupplyIn(pos, k, s) + (IF k = m /\ s = o THEN 0 - a ELSE 0)
      BY <1>5 DEF Adds
    <3> QED BY <1>4, <3>1, <3>2
  <2>3. \A s \in Sides : pos'[<<m, "amm", s>>] >= pos[<<m, "amm", s>>] + Nothing[s]
    BY <2>1 DEF Nothing
  <2>4. ASSUME NEW k \in Markets \ {m}, NEW s \in Sides
        PROVE  pos'[<<k, "amm", s>>] >= pos[<<k, "amm", s>>]
    BY <2>1
  <2> QED BY <1>7, <2>2, <2>3, <2>4 DEF Dealt
<1> QED BY <1>1, <1>8, PositionsTraded

-----------------------------------------------------------------------------
(* Redemptions and the lifecycle.                                           *)

\* The verdict appears when the market is resolved.
VerdictKept == \A m \in Markets : verdict[m] # "none" <=> phase[m] = "Resolved"

\* What a redemption of `a` positions owes, and what the carry says after it.
Owes(m, o, a, gross) ==
    \/ /\ verdict[m] \in Sides /\ gross = (IF verdict[m] = o THEN a ELSE 0)
       /\ vault'.carry = vault.carry
    \/ /\ verdict[m] \notin Sides /\ gross = (vault.carry[m] + a) \div 2
       /\ vault'.carry = CarryAfter(vault, m, a, gross)

RedeemedBy(m, o, a, gross, payout) ==
    /\ Settled(m) /\ Owes(m, o, a, gross)
    /\ Redeems(vault, vault', m, gross, payout) /\ cash'["vault"] = cash["vault"] - payout
    /\ \A k \in Markets, s \in Sides :
         SupplyIn(pos', k, s) = SupplyIn(pos, k, s) + (IF k = m /\ s = o THEN 0 - a ELSE 0)

RedeemedStep ==
    /\ TypeOK' /\ ReservesHeld /\ UNCHANGED <<lifecycleVars, setBacking, poolVars>>
    /\ \E m \in Markets, o \in Sides, a \in Nat, gross \in Nat, payout \in Nat :
         RedeemedBy(m, o, a, gross, payout)

\* Burning positions for a payout is a RedeemedStep.
LEMMA RedemptionStep ==
    ASSUME Sound, NEW u \in Traders, NEW m \in Markets, NEW o \in Sides,
           NEW a \in Parts(pos[<<m, u, o>>]), NEW r, Redeemed(u, m, o, a, r), Settled(m),
           NEW gross \in Nat, Redeems(vault, r.vault, m, gross, r.payout),
           vault' = r.vault => Owes(m, o, a, gross)
    PROVE  RedeemedStep /\ RedeemedBy(m, o, a, gross, r.payout)
<1>1. /\ CanSub(pos, m, u, o, a) /\ pos' = Added(pos, m, u, o, 0 - a)
      /\ CanTransfer(cash, "vault", r.payout) /\ cash' = Transferred(cash, "vault", u, r.payout)
      /\ vault' = r.vault /\ UNCHANGED <<lifecycleVars, setBacking, poolVars, trades>>
  BY DEF Redeemed
<1>2. /\ pos \in [Tokens -> Nat] /\ pos \in [Tokens -> Int] /\ cash \in [Purses -> Nat]
  BY SoundFields
<1>3. u \in Holders /\ u # "amm" /\ <<m, u, o>> \in Tokens
  BY TraderNames DEF Holders, Tokens
<1>4. a \in Nat /\ a <= pos[<<m, u, o>>]
  <2>1. pos[<<m, u, o>>] \in Nat
    BY <1>2, <1>3
  <2> QED BY <1>1, <2>1, PartsPositive DEF CanSub
<1>5. Adds(pos, pos', m, u, o, 0 - a)
  <2>1. 0 - a \in Int
    BY <1>4
  <2> QED BY <1>1, <1>2, <1>3, <2>1, AddedSupply
<1>6. /\ pos' \in [Tokens -> Int] /\ pos'[<<m, u, o>>] = pos[<<m, u, o>>] + (0 - a)
      /\ \A k \in Tokens : k # <<m, u, o>> => pos'[k] = pos[k]
  BY <1>5 DEF Adds
<1>7. pos' \in [Tokens -> Nat]
  <2> SUFFICES ASSUME NEW k \in Tokens PROVE pos'[k] >= 0
    BY <1>6
  <2>1. pos[k] \in Nat
    BY <1>2
  <2>2. CASE k = <<m, u, o>> BY <1>4, <1>6, <2>1, <2>2
  <2>3. CASE k # <<m, u, o>> BY <1>6, <2>1, <2>3
  <2> QED BY <2>2, <2>3
<1>8. PICK payout \in Nat : payout = r.payout
  BY DEF Redeems
<1>9. cash' \in [Purses -> Nat] /\ cash'["vault"] = cash["vault"] - payout
  <2>1. u \in Purses /\ u # "vault"
    BY TraderNames DEF Purses
  <2> QED BY <1>1, <1>2, <1>8, <2>1, PaidFrom
<1>10. vault' \in Vaults /\ Redeems(vault, vault', m, gross, payout)
  BY <1>1, <1>8 DEF Redeems
<1>11. TypeOK'
  <2>1. TypeOK
    BY DEF Sound
  <2> QED BY <1>1, <1>7, <1>9, <1>10, <2>1
          DEF TypeOK, TokensTypeOK, VaultTypeOK, PoolsTypeOK, Tokens, Purses,
              lifecycleVars, poolVars
<1>12. ReservesHeld
  <2>1. ASSUME NEW k \in Markets, NEW s \in Sides
        PROVE  pos'[<<k, "amm", s>>] = pos[<<k, "amm", s>>]
    <3>1. <<k, "amm", s>> \in Tokens /\ <<k, "amm", s>> # <<m, u, o>>
      BY <1>3 DEF Tokens, Holders
    <3> QED BY <1>6, <3>1
  <2>2. pool' = pool
    BY <1>1 DEF poolVars
  <2> QED BY <2>1, <2>2 DEF ReservesHeld
<1>13. RedeemedBy(m, o, a, gross, payout)
  <2>1. \A k \in Markets, s \in Sides :
          SupplyIn(pos', k, s) = SupplyIn(pos, k, s) + (IF k = m /\ s = o THEN 0 - a ELSE 0)
    BY <1>5 DEF Adds
  <2> QED BY <1>1, <1>9, <1>10, <2>1, Zenon DEF RedeemedBy
<1>14. UNCHANGED <<lifecycleVars, setBacking, poolVars>>
  BY <1>1
<1> QED BY <1>4, <1>8, <1>11, <1>12, <1>13, <1>14 DEF RedeemedStep

\* redeem_resolved_market is a RedeemedStep.
LEMMA ResolvedStep ==
    ASSUME Sound, VerdictKept, NEW u \in Traders, NEW m \in Markets, NEW o \in Sides,
           NEW a \in Parts(pos[<<m, u, o>>]), redeem_resolved_market(u, m, o, a)
    PROVE  /\ RedeemedStep
           /\ RedeemedBy(m, o, a, GrossOf(vault, m, o, a, verdict[m]),
                         redeem_resolved(vault, u, m, o, a, verdict[m]).payout)
<1>1. PICK r, gross, final :
        /\ final = verdict[m] /\ r = redeem_resolved(vault, u, m, o, a, final)
        /\ gross = GrossOf(vault, m, o, a, final)
  OBVIOUS
<1>2. verdict[m] # "none" /\ Redeemed(u, m, o, a, r)
  BY <1>1 DEF redeem_resolved_market
<1>3. Settled(m)
  BY <1>2 DEF VerdictKept, Settled
<1>4. vault \in Vaults /\ BooksKept(vault) /\ LoansKept(vault) /\ a \in Nat
  BY <1>1, SoundFields, TokenPart
<1>5. /\ gross \in Nat /\ Redeems(vault, r.vault, m, gross, r.payout)
      /\ r.vault.carry = IF final = "Invalid" THEN CarryAfter(vault, m, a, gross)
                         ELSE vault.carry
  BY <1>1, <1>4, ResolvedRedeemed
<1>6. final \in Sides \/ final = "Invalid"
  <2>1. final \in Outcomes
    BY <1>1, <1>2, SoundFields
  <2> QED BY <2>1 DEF Outcomes, Sides
<1>7. vault' = r.vault => Owes(m, o, a, gross)
  <2>1. "Invalid" \notin Sides
    BY DEF Sides
  <2> QED BY <1>1, <1>5, <1>6, <2>1 DEF Owes, GrossOf
<1> QED BY <1>1, <1>2, <1>3, <1>5, <1>7, RedemptionStep

\* redeem_cancelled_market is a RedeemedStep.
LEMMA CancelledStep ==
    ASSUME Sound, VerdictKept, NEW u \in Traders, NEW m \in Markets, NEW o \in Sides,
           NEW a \in Parts(pos[<<m, u, o>>]), redeem_cancelled_market(u, m, o, a)
    PROVE  /\ RedeemedStep
           /\ RedeemedBy(m, o, a, GrossOf(vault, m, o, a, "Invalid"),
                         redeem_cancelled(vault, u, m, o, a).payout)
<1>1. PICK r, gross :
        /\ r = redeem_cancelled(vault, u, m, o, a)
        /\ gross = GrossOf(vault, m, o, a, "Invalid")
  OBVIOUS
<1>2. phase[m] = "Cancelled" /\ Redeemed(u, m, o, a, r)
  BY <1>1 DEF redeem_cancelled_market
<1>3. Settled(m) /\ verdict[m] = "none"
  BY <1>2 DEF VerdictKept, Settled
<1>4. vault \in Vaults /\ BooksKept(vault) /\ LoansKept(vault) /\ a \in Nat
  BY <1>1, SoundFields, TokenPart
<1>5. /\ gross \in Nat /\ Redeems(vault, r.vault, m, gross, r.payout)
      /\ r.vault.carry = CarryAfter(vault, m, a, gross)
  BY <1>1, <1>4, CancelledRedeemed
<1>6. vault' = r.vault => Owes(m, o, a, gross)
  <2>1. "none" \notin Sides
    BY DEF Sides
  <2> QED BY <1>1, <1>3, <1>5, <2>1 DEF Owes, GrossOf
<1> QED BY <1>1, <1>2, <1>3, <1>5, <1>6, RedemptionStep

\* Every step of the system is of one of three kinds.
LEMMA StepKinds ==
    ASSUME Sound, VerdictKept, Next
    PROVE  LifecycleStep \/ Traded \/ RedeemedStep
<1>1. CASE LifecycleStep
  BY <1>1
<1>2. CASE CreateMarket
  BY <1>2, CreateTraded DEF CreateMarket
<1>3. CASE Buy
  BY <1>3, BuyTraded DEF Buy
<1>4. CASE BuyChild
  BY <1>4, BuyChildTraded DEF BuyChild
<1>5. CASE RedeemResolved
  BY <1>5, ResolvedStep DEF RedeemResolved
<1>6. CASE RedeemCancelled
  BY <1>6, CancelledStep DEF RedeemCancelled
<1>7. CASE SeedLiquidity
  BY <1>7, SeedLiquidityTraded DEF SeedLiquidity
<1>8. CASE AddLiquidity
  BY <1>8, AddTraded DEF AddLiquidity
<1>9. CASE RemoveLiquidity
  BY <1>9, RemoveTraded DEF RemoveLiquidity
<1>10. CASE ClaimLpFees
  BY <1>10, ClaimTraded DEF ClaimLpFees
<1>11. CASE SweepProtocolFees
  BY <1>11, SweepTraded DEF SweepProtocolFees
<1>12. CASE Sell
  BY <1>12, SellTraded DEF Sell
<1>13. CASE TransferPosition
  BY <1>13, TransferTraded DEF TransferPosition
<1>14. CASE BurnLosing
  BY <1>14, BurnTraded DEF BurnLosing
<1>15. CASE RepayChildCollateral
  BY <1>15, RepayTraded DEF RepayChildCollateral
<1>16. CASE LiquidatePosition
  BY <1>16, LiquidateTraded DEF LiquidatePosition
<1>17. CASE LiquidateChildPosition
  BY <1>17, LiquidateChildTraded DEF LiquidateChildPosition
<1> QED BY <1>1, <1>2, <1>3, <1>4, <1>5, <1>6, <1>7, <1>8, <1>9, <1>10, <1>11, <1>12, <1>13,
           <1>14, <1>15, <1>16, <1>17, Zenon DEF Next

-----------------------------------------------------------------------------
(* The inductive invariant.                                                 *)

\* Until a market settles nothing was redeemed, and its complete sets are what
\* its supply is made of; without child credit they are its backing.
SetsKept ==
    \A m \in Markets :
        ~Settled(m) =>
            /\ vault.book[m].redeemed = 0 /\ vault.carry[m] = 0
            /\ \A s \in Sides : SupplyIn(pos, m, s) <= setBacking[m]
            /\ m \notin Lenders => vault.book[m].backing = setBacking[m]

Kept ==
    /\ Sound /\ VerdictKept /\ VaultHoldsBooks /\ SetsKept /\ ClaimsCovered
    /\ PoolHoldsReserves

\* Supply is the sum of the balances now,
LEMMA SupplyNow == \A m, o : Supply(m, o) = SupplyIn(pos, m, o)
BY DEF Supply, SupplyIn

\* and after a step.
LEMMA SupplyNext == \A m, o : Supply(m, o)' = SupplyIn(pos', m, o)
BY DEF Supply, SupplyIn

\* The claims on a market by the supply of its sides.
ClaimsIn(p, v, m) ==
    IF verdict[m] \in Sides THEN SupplyIn(p, m, verdict[m])
    ELSE (SupplyIn(p, m, "Yes") + SupplyIn(p, m, "No") + v.carry[m]) \div 2

\* Claims by the supply now,
LEMMA ClaimsNow == \A m : Claims(m) = ClaimsIn(pos, vault, m)
BY SupplyNow DEF Claims, ClaimsIn

\* and after a step that keeps the verdicts.
LEMMA ClaimsNext == ASSUME verdict' = verdict PROVE \A m : Claims(m)' = ClaimsIn(pos', vault', m)
BY SupplyNext DEF Claims, ClaimsIn

\* A supply is never negative.
LEMMA SupplyNat ==
    ASSUME NEW p \in [Tokens -> Nat], NEW m \in Markets, NEW o \in Sides
    PROVE  SupplyIn(p, m, o) \in Nat
<1> DEFINE f == [h \in Holders |-> p[<<m, h, o>>]]
<1>1. \A h \in Holders : f[h] \in Nat
  BY DEF Tokens
<1> HIDE DEF f
<1>2. SumFunctionOnSet(f, Holders) \in Nat
  BY <1>1, HoldersFinite, SumNat
<1> QED BY <1>2 DEF f, SupplyIn

\* Nor is what holders can ask for.
LEMMA ClaimsNat ==
    ASSUME NEW p \in [Tokens -> Nat], NEW v \in Vaults, NEW m \in Markets
    PROVE  ClaimsIn(p, v, m) \in Nat
<1>1. \A s \in Sides : SupplyIn(p, m, s) \in Nat
  BY SupplyNat
<1>2. "Yes" \in Sides /\ "No" \in Sides /\ v.carry[m] \in 0 .. 1
  BY VaultFields DEF Sides
<1>3. PICK n \in Nat : n = SupplyIn(p, m, "Yes") + SupplyIn(p, m, "No") + v.carry[m]
  BY <1>1, <1>2
<1>4. n \div 2 \in Nat
  OBVIOUS
<1> QED BY <1>1, <1>3, <1>4 DEF ClaimsIn

\* At the start the state is well-formed,
LEMMA InitSound ==
    ASSUME Init
    PROVE  Sound /\ VerdictKept
<1>1. CreationFee \in Nat /\ Cash \in Nat /\ MaxTrades \in Nat /\ "amm" \notin Traders
  BY TradingAssumption, TraderNames
<1>2. pos \in [Markets \X Holders \X Sides -> Nat] /\ setBacking \in [Markets -> Nat]
  BY DEF Init, TokensInit
<1>3. phase \in [Markets -> Phases] /\ verdict \in [Markets -> Outcomes \cup {"none"}]
  BY DEF Init, LifecycleInit, Phases
<1>4. vault \in Vaults
  <2>1. zero_accounting \in Books
    BY DEF zero_accounting, Books
  <2>2. [k \in Positions |-> <<>>] \in [Positions -> Seq(Markets)]
    OBVIOUS
  <2>3. "Invalid" \in Outcomes
    BY DEF Outcomes
  <2> QED BY <2>1, <2>2, <2>3 DEF Init, VaultInit, Vaults
<1>5. PoolsTypeOK
  BY DEF Init, PoolsInit, PoolsTypeOK, NewPool
<1>6. cash \in [Traders \cup {"vault", "treasury"} -> Nat]
  BY <1>1 DEF Init
<1>7. trades \in 0 .. MaxTrades
  BY <1>1 DEF Init
<1>8. TypeOK
  BY <1>2, <1>3, <1>4, <1>5, <1>6, <1>7 DEF TypeOK, TokensTypeOK, VaultTypeOK
<1>9. BooksKept(vault)
  BY DEF Init, VaultInit, zero_accounting, BooksKept
<1>10. LoansKept(vault)
  BY DEF Init, VaultInit, LoansKept, NoParent
<1>11. PoolsMade
  BY DEF Init, PoolsInit, NewPool, PoolsMade
<1>12. VerdictKept
  BY DEF Init, LifecycleInit, VerdictKept
<1> QED BY <1>8, <1>9, <1>10, <1>11, <1>12 DEF Sound

\* and the inductive invariant holds.
LEMMA InitKept ==
    ASSUME Init
    PROVE  Kept
<1>1. Sound /\ VerdictKept
  BY InitSound
<1>2. /\ phase = [m \in Markets |-> "None"]
      /\ pos = [k \in Markets \X Holders \X Sides |-> 0]
      /\ setBacking = [m \in Markets |-> 0]
      /\ vault.book = [m \in Markets |-> zero_accounting] /\ vault.reserve = 0
      /\ vault.carry = [m \in Markets |-> 0]
      /\ pool = [m \in Markets |-> NewPool] /\ cash["vault"] = 0
  BY TraderAssumption DEF Init, LifecycleInit, TokensInit, VaultInit, PoolsInit
<1>3. \A m \in Markets : ~Settled(m)
  BY <1>2 DEF Settled
<1>4. Worth(vault) = 0
  <2> DEFINE f == [m \in Markets |-> BookTotal(vault.book[m])]
  <2>1. \A m \in Markets : f[m] = 0
    BY <1>2 DEF BookTotal, zero_accounting
  <2> HIDE DEF f
  <2>2. SumFunctionOnSet(f, Markets) = 0
    BY <2>1, SumZeros, FiniteInstance
  <2> QED BY <1>2, <2>2 DEF f, Worth
<1>5. \A m \in Markets : /\ vault.book[m].refundable = 0 /\ vault.book[m].backing = 0
                         /\ vault.book[m].redeemed = 0
  BY <1>2 DEF zero_accounting
<1>6. VaultHoldsBooks
  BY <1>2, <1>4, <1>5 DEF VaultHoldsBooks
<1>7. ASSUME NEW m \in Markets, NEW s \in Sides
      PROVE  SupplyIn(pos, m, s) = 0
  <2> DEFINE f == [h \in Holders |-> pos[<<m, h, s>>]]
  <2>1. \A h \in Holders : f[h] = 0
    BY <1>2
  <2> HIDE DEF f
  <2>2. SumFunctionOnSet(f, Holders) = 0
    BY <2>1, SumZeros, HoldersFinite
  <2> QED BY <2>2 DEF f, SupplyIn
<1>8. SetsKept
  BY <1>2, <1>5, <1>7 DEF SetsKept
<1>9. ClaimsCovered
  BY <1>3 DEF ClaimsCovered
<1>10. PoolHoldsReserves
  <2>1. ASSUME NEW m \in Markets, NEW s \in Sides
        PROVE  pool[m].reserve[s] <= pos[<<m, "amm", s>>]
    <3>1. pos[<<m, "amm", s>>] = 0 /\ pool[m].reserve[s] = 0
      BY <1>2 DEF NewPool, Holders
    <3> QED BY <3>1
  <2> QED BY <2>1, Zenon DEF PoolHoldsReserves
<1> QED BY <1>1, <1>6, <1>8, <1>9, <1>10 DEF Kept

\* A trade does not raise what the holders in a settled market can ask for.
LEMMA ClaimsFall ==
    ASSUME Kept, Traded, NEW k \in Markets, Settled(k)
    PROVE  /\ Claims(k)' <= Claims(k) /\ Claims(k)' \in Nat /\ Claims(k) \in Nat
           /\ vault'.book[k].redeemed = vault.book[k].redeemed /\ setBacking'[k] = setBacking[k]
           /\ k \notin Lenders => vault'.book[k].backing = vault.book[k].backing
<1>1. PICK m \in Markets, b \in Int, f \in Int, w \in Int : Steady(m, b, f, w)
  BY DEF Traded
<1>2. /\ vault \in Vaults /\ pos \in [Tokens -> Nat] /\ setBacking \in [Markets -> Nat]
      /\ vault' \in Vaults /\ pos' \in [Tokens -> Nat] /\ verdict' = verdict
  BY SoundFields DEF Kept, Traded, Alive, TypeOK, VaultTypeOK, TokensTypeOK, Tokens
<1>3. Booked(vault, vault', m, b, f, w) /\ vault'.carry = vault.carry /\ (k = m => b = 0)
  BY <1>1 DEF Steady, Booked, Settled
<1>4. /\ vault.book[k].backing \in Int /\ setBacking[k] \in Nat /\ vault.carry[k] \in 0 .. 1
  BY <1>2, VaultFields
<1>5. /\ vault'.book[k].redeemed = vault.book[k].redeemed /\ setBacking'[k] = setBacking[k]
      /\ k \notin Lenders => vault'.book[k].backing = vault.book[k].backing
  <2>1. /\ vault'.book[k].redeemed = vault.book[k].redeemed
        /\ k \notin Lenders =>
             vault'.book[k].backing = vault.book[k].backing + (IF k = m THEN b ELSE 0)
        /\ setBacking'[k] = setBacking[k] + (IF k = m THEN b ELSE 0)
    BY <1>1, <1>3 DEF Steady, Booked
  <2> QED BY <1>3, <1>4, <2>1
<1>6. \A s \in Sides : /\ SupplyIn(pos', k, s) <= SupplyIn(pos, k, s)
                       /\ SupplyIn(pos, k, s) \in Nat /\ SupplyIn(pos', k, s) \in Nat
  <2> SUFFICES ASSUME NEW s \in Sides
               PROVE  /\ SupplyIn(pos', k, s) <= SupplyIn(pos, k, s)
                      /\ SupplyIn(pos, k, s) \in Nat /\ SupplyIn(pos', k, s) \in Nat
    OBVIOUS
  <2>1. /\ SupplyIn(pos', k, s) <= SupplyIn(pos, k, s) + (IF k = m THEN b ELSE 0)
        /\ SupplyIn(pos, k, s) \in Nat /\ SupplyIn(pos', k, s) \in Nat
    BY <1>1, <1>2, SupplyNat DEF Steady
  <2> QED BY <1>3, <2>1
<1>7. ClaimsIn(pos', vault', k) <= ClaimsIn(pos, vault, k)
  <2>1. CASE verdict[k] \in Sides
    BY <1>6, <2>1 DEF ClaimsIn
  <2>2. CASE verdict[k] \notin Sides
    <3>1. "Yes" \in Sides /\ "No" \in Sides
      BY DEF Sides
    <3>2. PICK y, n, y1, n1, c :
            /\ y = SupplyIn(pos, k, "Yes") /\ n = SupplyIn(pos, k, "No")
            /\ y1 = SupplyIn(pos', k, "Yes") /\ n1 = SupplyIn(pos', k, "No")
            /\ c = vault.carry[k]
      OBVIOUS
    <3>3. y \in Nat /\ n \in Nat /\ y1 \in Nat /\ n1 \in Nat /\ c \in Nat /\ y1 <= y /\ n1 <= n
      BY <1>4, <1>6, <3>1, <3>2
    <3>4. /\ ClaimsIn(pos, vault, k) = (y + n + c) \div 2
          /\ ClaimsIn(pos', vault', k) = (y1 + n1 + c) \div 2
      BY <1>3, <2>2, <3>2 DEF ClaimsIn
    <3> QED BY <3>3, <3>4
  <2> QED BY <2>1, <2>2
<1>8. Claims(k) = ClaimsIn(pos, vault, k) /\ Claims(k)' = ClaimsIn(pos', vault', k)
  BY <1>2, ClaimsNow, ClaimsNext
<1> QED BY <1>2, <1>5, <1>7, <1>8, ClaimsNat

\* Every Traded step keeps the invariant.
LEMMA TradedKept ==
    ASSUME Kept, Traded
    PROVE  Kept'
<1>1. PICK m \in Markets, b \in Int, f \in Int, w \in Int :
        Steady(m, b, f, w) /\ Pooled(m, f)
  BY DEF Traded
<1>2. /\ vault \in Vaults /\ pos \in [Tokens -> Nat] /\ setBacking \in [Markets -> Nat]
      /\ cash \in [Purses -> Nat]
  BY SoundFields DEF Kept
<1>3. /\ vault' \in Vaults /\ pos' \in [Tokens -> Nat] /\ setBacking' \in [Markets -> Nat]
      /\ TypeOK' /\ ReservesHeld /\ Alive
  BY DEF Traded, TypeOK, VaultTypeOK, TokensTypeOK, Tokens
<1>4. Booked(vault, vault', m, b, f, w) /\ BooksKept(vault') /\ LoansKept(vault')
      /\ vault'.carry = vault.carry /\ Worth(vault') = Worth(vault) + w
  BY <1>1 DEF Steady, Booked
<1>5. \A k \in Markets :
        /\ vault'.book[k].redeemed = vault.book[k].redeemed
        /\ k \notin Lenders =>
             vault'.book[k].backing = vault.book[k].backing + (IF k = m THEN b ELSE 0)
        /\ vault.book[k].refundable >= 0 => vault'.book[k].refundable >= 0
        /\ setBacking'[k] = setBacking[k] + (IF k = m THEN b ELSE 0)
  BY <1>1, <1>4 DEF Steady, Booked
<1>6. \A k \in Markets, s \in Sides :
        /\ SupplyIn(pos', k, s) <= SupplyIn(pos, k, s) + (IF k = m THEN b ELSE 0)
        /\ SupplyIn(pos, k, s) \in Nat /\ SupplyIn(pos', k, s) \in Nat
  BY <1>1, <1>2, <1>3, SupplyNat DEF Steady
<1>7. verdict' = verdict
      /\ \A k \in Markets : phase'[k] = phase[k] \/ (phase[k] = "None" /\ phase'[k] = "Live")
  BY <1>3 DEF Alive
<1>8. \A k \in Markets : Settled(k)' <=> Settled(k)
  BY <1>7 DEF Settled
<1>10. \A k \in Markets :
         /\ vault.book[k].backing \in Int /\ vault'.book[k].backing \in Int
         /\ vault.book[k].redeemed \in Nat /\ vault.book[k].refundable \in Int
         /\ vault.carry[k] \in 0 .. 1 /\ setBacking[k] \in Nat
  BY <1>2, <1>3, VaultFields
<1>11. Sound'
  <2>1. PoolsMade'
    <3> SUFFICES ASSUME NEW k \in Markets, phase'[k] = "None" PROVE pool'[k].shares = 0
      BY DEF PoolsMade
    <3>1. pool[k].shares = 0
      BY <1>7 DEF Kept, Sound, PoolsMade
    <3>2. pool'[k].shares = pool[k].shares
      BY <1>1 DEF Pooled
    <3> QED BY <3>1, <3>2
  <2> QED BY <1>3, <1>4, <2>1 DEF Sound, BooksKept, LoansKept
<1>12. VerdictKept'
  BY <1>7 DEF Kept, VerdictKept
<1>13. VaultHoldsBooks'
  <2>1. (\A k \in Lenders : ~Settled(k)') => cash'["vault"] = Worth(vault')
    <3> SUFFICES ASSUME \A k \in Lenders : ~Settled(k)' PROVE cash'["vault"] = Worth(vault')
      OBVIOUS
    <3>1. cash["vault"] = Worth(vault)
      BY <1>8, LinesInMarkets DEF Kept, VaultHoldsBooks
    <3>2. cash'["vault"] = cash["vault"] + w
      BY <1>1 DEF Steady
    <3> QED BY <1>4, <3>1, <3>2
  <2>2. ASSUME NEW k \in Markets
        PROVE  /\ vault'.book[k].refundable = vault'.book[k].backing - vault'.book[k].redeemed
               /\ k \notin Lenders \cap Borrowers => vault'.book[k].refundable >= 0
    <3>1. vault'.book[k].refundable = vault'.book[k].backing - vault'.book[k].redeemed
      BY <1>4 DEF BooksKept
    <3>2. k \notin Lenders \cap Borrowers => vault.book[k].refundable >= 0
      BY DEF Kept, VaultHoldsBooks
    <3> QED BY <1>5, <3>1, <3>2
  <2>3. Worth(vault)' = Worth(vault')
    BY DEF Worth, BookTotal
  <2> QED BY <2>1, <2>2, <2>3 DEF VaultHoldsBooks
<1>14. SetsKept'
  <2> SUFFICES ASSUME NEW k \in Markets, ~Settled(k)'
               PROVE  /\ vault'.book[k].redeemed = 0 /\ vault'.carry[k] = 0
                      /\ \A s \in Sides : SupplyIn(pos', k, s) <= setBacking'[k]
                      /\ k \notin Lenders => vault'.book[k].backing = setBacking'[k]
    BY DEF SetsKept, SupplyIn
  <2>1. /\ vault.book[k].redeemed = 0 /\ vault.carry[k] = 0
        /\ \A s \in Sides : SupplyIn(pos, k, s) <= setBacking[k]
        /\ k \notin Lenders => vault.book[k].backing = setBacking[k]
    BY <1>8 DEF Kept, SetsKept
  <2>2. vault'.book[k].redeemed = 0 /\ vault'.carry[k] = 0
    BY <1>4, <1>5, <2>1
  <2>3. k \notin Lenders => vault'.book[k].backing = setBacking'[k]
    BY <1>5, <2>1
  <2>4. ASSUME NEW s \in Sides PROVE SupplyIn(pos', k, s) <= setBacking'[k]
    <3>1. /\ SupplyIn(pos', k, s) <= SupplyIn(pos, k, s) + (IF k = m THEN b ELSE 0)
          /\ SupplyIn(pos, k, s) \in Nat /\ SupplyIn(pos', k, s) \in Nat
          /\ SupplyIn(pos, k, s) <= setBacking[k]
      BY <1>6, <2>1
    <3> QED BY <1>5, <1>10, <3>1
  <2> QED BY <2>2, <2>3, <2>4
<1>15. ClaimsCovered'
  <2> SUFFICES ASSUME NEW k \in Markets \ Lenders, Settled(k)'
               PROVE  Claims(k)' <= vault'.book[k].backing - vault'.book[k].redeemed
    BY DEF ClaimsCovered
  <2>1. Settled(k) /\ Claims(k) <= vault.book[k].backing - vault.book[k].redeemed
    BY <1>8 DEF Kept, ClaimsCovered
  <2> QED BY <1>10, <2>1, ClaimsFall
<1>16. PoolHoldsReserves'
  BY <1>3, Zenon DEF Kept, PoolHoldsReserves, ReservesHeld
<1> QED BY <1>11, <1>12, <1>13, <1>14, <1>15, <1>16 DEF Kept

\* A redemption lowers the claims on its market by what it owes.
LEMMA ClaimsPaid ==
    ASSUME Kept, TypeOK', verdict' = verdict, NEW m \in Markets, NEW o \in Sides, NEW a \in Nat,
           NEW gross \in Nat, Owes(m, o, a, gross),
           \A s \in Sides : SupplyIn(pos', m, s) = SupplyIn(pos, m, s) + (IF s = o THEN 0 - a ELSE 0)
    PROVE  /\ Claims(m)' = Claims(m) - gross /\ Claims(m)' \in Nat /\ Claims(m) \in Nat
<1>1. Claims(m) = ClaimsIn(pos, vault, m) /\ Claims(m)' = ClaimsIn(pos', vault', m)
  BY ClaimsNow, ClaimsNext
<1>2. /\ vault \in Vaults /\ vault' \in Vaults /\ pos \in [Tokens -> Nat]
      /\ pos' \in [Tokens -> Nat]
  BY SoundFields DEF Kept, TypeOK, VaultTypeOK, TokensTypeOK, Tokens
<1>3. \A s \in Sides : SupplyIn(pos, m, s) \in Nat /\ SupplyIn(pos', m, s) \in Nat
  BY <1>2, SupplyNat
<1>4. CASE verdict[m] \in Sides
  <2>1. gross = (IF verdict[m] = o THEN a ELSE 0)
    BY <1>4 DEF Owes
  <2>2. /\ ClaimsIn(pos, vault, m) = SupplyIn(pos, m, verdict[m])
        /\ ClaimsIn(pos', vault', m) = SupplyIn(pos', m, verdict[m])
    BY <1>4 DEF ClaimsIn
  <2>3. SupplyIn(pos', m, verdict[m])
          = SupplyIn(pos, m, verdict[m]) + (IF verdict[m] = o THEN 0 - a ELSE 0)
    BY <1>4
  <2>4. SupplyIn(pos, m, verdict[m]) \in Nat /\ SupplyIn(pos', m, verdict[m]) \in Nat
    BY <1>3, <1>4
  <2> QED BY <1>1, <2>1, <2>2, <2>3, <2>4
<1>5. CASE verdict[m] \notin Sides
  <2>1. gross = (vault.carry[m] + a) \div 2 /\ vault'.carry = CarryAfter(vault, m, a, gross)
    BY <1>5 DEF Owes
  <2>2. "Yes" \in Sides /\ "No" \in Sides /\ Sides = {"Yes", "No"}
    BY DEF Sides
  <2>3. PICK y, n, y1, n1, c, c1 :
          /\ y = SupplyIn(pos, m, "Yes") /\ n = SupplyIn(pos, m, "No")
          /\ y1 = SupplyIn(pos', m, "Yes") /\ n1 = SupplyIn(pos', m, "No")
          /\ c = vault.carry[m] /\ c1 = vault'.carry[m]
    OBVIOUS
  <2>4. c \in 0 .. 1 /\ c1 \in 0 .. 1
    BY <1>2, <2>3, VaultFields
  <2>5. c1 = (c + a) - 2 * gross
    <3>1. vault.carry \in [Markets -> 0 .. 1]
      BY <1>2, VaultFields
    <3> QED BY <2>1, <2>3, <3>1 DEF CarryAfter
  <2>6. y \in Nat /\ n \in Nat /\ y1 \in Nat /\ n1 \in Nat
    BY <1>3, <2>2, <2>3
  <2>7. y1 + n1 = (y + n) - a
    <3>1. CASE o = "Yes"
      BY <2>2, <2>3, <2>6, <3>1
    <3>2. CASE o = "No"
      BY <2>2, <2>3, <2>6, <3>2
    <3> QED BY <2>2, <3>1, <3>2
  <2>8. /\ ClaimsIn(pos, vault, m) = (y + n + c) \div 2
        /\ ClaimsIn(pos', vault', m) = (y1 + n1 + c1) \div 2
    BY <1>5, <2>3 DEF ClaimsIn
  <2>9. (y1 + n1 + c1) = (y + n + c) - 2 * gross
    BY <2>4, <2>5, <2>6, <2>7
  <2>10. (y1 + n1 + c1) \div 2 = ((y + n + c) \div 2) - gross
         /\ (y1 + n1 + c1) \div 2 \in Nat /\ (y + n + c) \div 2 \in Nat
    BY <2>4, <2>6, <2>9
  <2> QED BY <1>1, <2>8, <2>10
<1> QED BY <1>4, <1>5

\* It leaves those on the others alone.
LEMMA ClaimsRedeemed ==
    ASSUME Kept, RedeemedStep, NEW m \in Markets, NEW o \in Sides, NEW a \in Nat,
           NEW gross \in Nat, NEW payout, RedeemedBy(m, o, a, gross, payout), NEW k \in Markets
    PROVE  /\ Claims(k)' = Claims(k) - (IF k = m THEN gross ELSE 0)
           /\ Claims(k)' \in Nat /\ Claims(k) \in Nat
<1>1. /\ vault \in Vaults /\ pos \in [Tokens -> Nat] /\ TypeOK' /\ verdict' = verdict
  BY SoundFields DEF Kept, RedeemedStep, lifecycleVars
<1>2. /\ Owes(m, o, a, gross)
      /\ \A j \in Markets, s \in Sides :
           SupplyIn(pos', j, s) = SupplyIn(pos, j, s) + (IF j = m /\ s = o THEN 0 - a ELSE 0)
  BY DEF RedeemedBy
<1>3. CASE k = m
  <2>1. \A s \in Sides :
          SupplyIn(pos', m, s) = SupplyIn(pos, m, s) + (IF s = o THEN 0 - a ELSE 0)
    BY <1>2
  <2> QED BY <1>1, <1>2, <1>3, <2>1, ClaimsPaid
<1>4. CASE k # m
  <2>1. \A s \in Sides : SupplyIn(pos', k, s) = SupplyIn(pos, k, s)
    <3>1. \A s \in Sides : SupplyIn(pos', k, s) = SupplyIn(pos, k, s) + 0
                           /\ SupplyIn(pos, k, s) \in Nat
      BY <1>1, <1>2, <1>4, SupplyNat
    <3> QED BY <3>1
  <2>2. vault'.carry[k] = vault.carry[k]
    <3>1. vault.carry \in [Markets -> 0 .. 1]
      BY <1>1, VaultFields
    <3> QED BY <1>2, <1>4, <3>1 DEF Owes, CarryAfter
  <2>3. ClaimsIn(pos', vault', k) = ClaimsIn(pos, vault, k)
    <3>1. "Yes" \in Sides /\ "No" \in Sides
      BY DEF Sides
    <3> QED BY <2>1, <2>2, <3>1 DEF ClaimsIn
  <2>4. Claims(k)' = Claims(k) /\ Claims(k) \in Nat
    BY <1>1, <2>3, ClaimsNow, ClaimsNext, ClaimsNat
  <2> QED BY <1>4, <2>4
<1> QED BY <1>3, <1>4

\* Every redemption keeps the invariant.
LEMMA RedeemedKept ==
    ASSUME Kept, RedeemedStep
    PROVE  Kept'
<1>1. PICK m \in Markets, o \in Sides, a \in Nat, gross \in Nat, payout \in Nat :
        RedeemedBy(m, o, a, gross, payout)
  BY DEF RedeemedStep
<1>2. /\ vault \in Vaults /\ pos \in [Tokens -> Nat] /\ setBacking \in [Markets -> Nat]
      /\ cash \in [Purses -> Nat]
  BY SoundFields DEF Kept
<1>3. /\ vault' \in Vaults /\ pos' \in [Tokens -> Nat] /\ TypeOK' /\ ReservesHeld
      /\ UNCHANGED <<lifecycleVars, setBacking, poolVars>>
  BY DEF RedeemedStep, TypeOK, VaultTypeOK, TokensTypeOK, Tokens
<1>4. /\ Settled(m) /\ Owes(m, o, a, gross) /\ Redeems(vault, vault', m, gross, payout)
      /\ cash'["vault"] = cash["vault"] - payout
      /\ BooksKept(vault') /\ LoansKept(vault')
  BY <1>1 DEF RedeemedBy, Redeems
<1>5. verdict' = verdict /\ phase' = phase /\ setBacking' = setBacking /\ pool' = pool
  BY <1>3 DEF lifecycleVars, poolVars
<1>6. \A k \in Markets : Settled(k)' <=> Settled(k)
  BY <1>5 DEF Settled
<1>7. \A k \in Markets, s \in Sides :
        SupplyIn(pos', k, s) = SupplyIn(pos, k, s) + (IF k = m /\ s = o THEN 0 - a ELSE 0)
  BY <1>1 DEF RedeemedBy
<1>8. \A k \in Markets :
        k # m => /\ vault'.book[k].redeemed = vault.book[k].redeemed
                 /\ k \notin Lenders => vault'.book[k].backing = vault.book[k].backing
                 /\ vault.book[k].refundable >= 0 => vault'.book[k].refundable >= 0
  BY <1>2, <1>4, VaultFields DEF Redeems
<1>9. /\ m \notin Lenders => /\ Worth(vault') = Worth(vault) - payout
                             /\ vault'.book[m].refundable >= vault.book[m].refundable - gross
      /\ m \in Lenders \ Borrowers /\ vault.book[m].refundable >= 0
           => vault'.book[m].refundable >= 0
  BY <1>4 DEF Redeems
<1>10. \A k \in Markets :
         /\ vault.book[k].backing \in Int /\ vault'.book[k].backing \in Int
         /\ vault.book[k].redeemed \in Nat /\ vault.book[k].refundable \in Int
         /\ vault'.book[k].redeemed \in Nat /\ vault'.book[k].refundable \in Int
         /\ vault.book[k].refundable = vault.book[k].backing - vault.book[k].redeemed
         /\ vault'.book[k].refundable = vault'.book[k].backing - vault'.book[k].redeemed
  <2>1. BooksKept(vault)
    BY DEF Kept, Sound
  <2> QED BY <1>2, <1>3, <1>4, <2>1, VaultFields DEF BooksKept
<1>11. \A k \in Markets : k # m => vault'.carry[k] = vault.carry[k]
  <2>1. vault.carry \in [Markets -> 0 .. 1]
    BY <1>2, VaultFields
  <2> QED BY <1>4, <2>1 DEF Owes, CarryAfter
<1>12. /\ \A k \in Markets \ {m} : Claims(k)' = Claims(k)
       /\ Claims(m)' = Claims(m) - gross /\ Claims(m)' \in Nat /\ Claims(m) \in Nat
  BY <1>1, ClaimsRedeemed
<1>13. m \notin Lenders => Claims(m)' <= vault'.book[m].refundable
  <2> SUFFICES ASSUME m \notin Lenders PROVE Claims(m)' <= vault'.book[m].refundable
    OBVIOUS
  <2>1. Claims(m) <= vault.book[m].backing - vault.book[m].redeemed
    BY <1>4 DEF Kept, ClaimsCovered
  <2>2. vault'.book[m].refundable >= vault.book[m].refundable - gross
    BY <1>9
  <2> QED BY <1>10, <1>12, <2>1, <2>2
<1>14. Sound'
  <2>1. PoolsMade'
    BY <1>5 DEF Kept, Sound, PoolsMade
  <2> QED BY <1>3, <1>4, <2>1 DEF Sound, BooksKept, LoansKept
<1>15. VerdictKept'
  BY <1>5 DEF Kept, VerdictKept
<1>16. VaultHoldsBooks'
  <2>1. (\A k \in Lenders : ~Settled(k)') => cash'["vault"] = Worth(vault')
    <3> SUFFICES ASSUME \A k \in Lenders : ~Settled(k)' PROVE cash'["vault"] = Worth(vault')
      OBVIOUS
    <3>1. m \notin Lenders /\ cash["vault"] = Worth(vault)
      BY <1>4, <1>6, LinesInMarkets DEF Kept, VaultHoldsBooks
    <3> QED BY <1>4, <1>9, <3>1
  <2>2. ASSUME NEW k \in Markets
        PROVE  /\ vault'.book[k].refundable = vault'.book[k].backing - vault'.book[k].redeemed
               /\ k \notin Lenders \cap Borrowers => vault'.book[k].refundable >= 0
    <3>1. k \notin Lenders \cap Borrowers => vault.book[k].refundable >= 0
      BY DEF Kept, VaultHoldsBooks
    <3>2. CASE k # m
      BY <1>8, <1>10, <3>1, <3>2
    <3>3. CASE k = m
      <4>1. CASE m \notin Lenders
        BY <1>10, <1>12, <1>13, <3>3, <4>1
      <4>2. CASE m \in Lenders
        BY <1>9, <1>10, <3>1, <3>3, <4>2
      <4> QED BY <4>1, <4>2
    <3> QED BY <3>2, <3>3
  <2>3. Worth(vault)' = Worth(vault')
    BY DEF Worth, BookTotal
  <2> QED BY <2>1, <2>2, <2>3 DEF VaultHoldsBooks
<1>17. SetsKept'
  <2> SUFFICES ASSUME NEW k \in Markets, ~Settled(k)'
               PROVE  /\ vault'.book[k].redeemed = 0 /\ vault'.carry[k] = 0
                      /\ \A s \in Sides : SupplyIn(pos', k, s) <= setBacking'[k]
                      /\ k \notin Lenders => vault'.book[k].backing = setBacking'[k]
    BY DEF SetsKept, SupplyIn
  <2>1. k # m
    BY <1>4, <1>6
  <2>2. /\ vault.book[k].redeemed = 0 /\ vault.carry[k] = 0
        /\ \A s \in Sides : SupplyIn(pos, k, s) <= setBacking[k]
        /\ k \notin Lenders => vault.book[k].backing = setBacking[k]
    BY <1>6 DEF Kept, SetsKept
  <2>3. vault'.book[k].redeemed = 0 /\ vault'.carry[k] = 0
        /\ (k \notin Lenders => vault'.book[k].backing = setBacking'[k])
    BY <1>5, <1>8, <1>11, <2>1, <2>2
  <2>4. ASSUME NEW s \in Sides PROVE SupplyIn(pos', k, s) <= setBacking'[k]
    <3>1. SupplyIn(pos', k, s) = SupplyIn(pos, k, s) + 0 /\ SupplyIn(pos, k, s) \in Nat
      BY <1>2, <1>7, <2>1, SupplyNat
    <3> QED BY <1>5, <2>2, <3>1
  <2> QED BY <2>3, <2>4
<1>18. ClaimsCovered'
  <2> SUFFICES ASSUME NEW k \in Markets \ Lenders, Settled(k)'
               PROVE  Claims(k)' <= vault'.book[k].backing - vault'.book[k].redeemed
    BY DEF ClaimsCovered
  <2>1. CASE k = m
    BY <1>10, <1>13, <2>1
  <2>2. CASE k # m
    <3>1. Claims(k) <= vault.book[k].backing - vault.book[k].redeemed
      BY <1>6 DEF Kept, ClaimsCovered
    <3> QED BY <1>8, <1>12, <2>2, <3>1
  <2> QED BY <2>1, <2>2
<1>19. PoolHoldsReserves'
  BY <1>3, Zenon DEF Kept, PoolHoldsReserves, ReservesHeld
<1> QED BY <1>14, <1>15, <1>16, <1>17, <1>18, <1>19 DEF Kept

\* What a step of the lifecycle does to the phases and verdicts.
Progressed ==
    /\ phase' \in [Markets -> Phases] /\ verdict' \in [Markets -> Outcomes \cup {"none"}]
    /\ \A k \in Markets :
         /\ phase'[k] = "None" => phase[k] = "None"
         /\ phase[k] \in {"Resolved", "Cancelled"}
              => phase'[k] = phase[k] /\ verdict'[k] = verdict[k]
         /\ verdict'[k] # "none" <=> phase'[k] = "Resolved"

\* The phases of Move, Expire and Resolve: a settled market keeps its verdict.
LEMMA LifecycleProgressed ==
    ASSUME TypeOK, VerdictKept, LifecycleStep
    PROVE  Progressed
<1>1. phase \in [Markets -> Phases] /\ verdict \in [Markets -> Outcomes \cup {"none"}]
  BY DEF TypeOK
<1>2. \A k \in Markets : verdict[k] # "none" <=> phase[k] = "Resolved"
  BY DEF VerdictKept
<1>3. CASE \E m \in Markets, p \in PhasesUsed : phase[m] # "None" /\ Move(m, p)
  <2>1. PICK m \in Markets, p \in PhasesUsed : phase[m] # "None" /\ Move(m, p)
    BY <1>3
  <2>2. /\ <<phase[m], p>> \in Moves /\ phase' = [phase EXCEPT ![m] = p] /\ verdict' = verdict
    BY <2>1 DEF Move
  <2>3. /\ phase[m] \notin {"Resolved", "Cancelled"} /\ p \notin {"None", "Resolved"}
        /\ p \in Phases
    <3>1. \A a, b : <<a, b>> \in Moves =>
            a \notin {"Resolved", "Cancelled"} /\ b \notin {"None", "Resolved"} /\ b \in Phases
      BY DEF Moves, Phases
    <3> QED BY <2>2, <3>1
  <2> QED BY <1>1, <1>2, <2>2, <2>3 DEF Progressed
<1>4. CASE \E S \in SUBSET Markets \ {{}} : Expire(S)
  <2>1. PICK S \in SUBSET Markets : Expire(S)
    BY <1>4
  <2>2. /\ \A k \in S : phase[k] = "Live"
        /\ phase' = [k \in Markets |-> IF k \in S THEN "Expired" ELSE phase[k]]
        /\ verdict' = verdict
    BY <2>1 DEF Expire
  <2>3. "Expired" \in Phases
    BY DEF Phases
  <2> QED BY <1>1, <1>2, <2>2, <2>3 DEF Progressed
<1>5. CASE \E m \in Markets, o \in Outcomes : Resolve(m, o)
  <2>1. PICK m \in Markets, o \in Outcomes : Resolve(m, o)
    BY <1>5
  <2>2. /\ phase[m] = "Closed" /\ phase' = [phase EXCEPT ![m] = "Resolved"]
        /\ verdict' = [verdict EXCEPT ![m] = o]
    BY <2>1 DEF Resolve
  <2>3. "Resolved" \in Phases /\ o # "none"
    BY DEF Phases, Outcomes
  <2> QED BY <1>1, <1>2, <2>2, <2>3 DEF Progressed
<1> QED BY <1>3, <1>4, <1>5 DEF LifecycleStep

\* A market that settles has its whole supply backed, and the verdict of one that
\* has settled stands.
LEMMA ClaimsSettled ==
    ASSUME Kept, Progressed, vault' = vault, pos' = pos, NEW k \in Markets
    PROVE  /\ Settled(k) => Claims(k)' = Claims(k)
           /\ ~Settled(k) => /\ Claims(k)' <= setBacking[k] /\ Claims(k)' \in Nat
                             /\ vault.book[k].redeemed = 0
<1>1. CASE Settled(k)
  <2>1. verdict'[k] = verdict[k]
    BY <1>1 DEF Settled, Progressed
  <2> QED BY <1>1, <2>1 DEF Claims, Supply
<1>2. CASE ~Settled(k)
  <2>1. /\ vault.book[k].redeemed = 0 /\ vault.carry[k] = 0
        /\ \A s \in Sides : SupplyIn(pos, k, s) <= setBacking[k]
    BY <1>2 DEF Kept, SetsKept
  <2>2. /\ \A s \in Sides : SupplyIn(pos, k, s) \in Nat
        /\ setBacking[k] \in Nat
    BY SoundFields, SupplyNat DEF Kept
  <2>3. "Yes" \in Sides /\ "No" \in Sides
    BY DEF Sides
  <2>4. Claims(k)' = IF verdict'[k] \in Sides THEN SupplyIn(pos, k, verdict'[k])
                     ELSE (SupplyIn(pos, k, "Yes") + SupplyIn(pos, k, "No") + vault.carry[k]) \div 2
    BY DEF Claims, Supply, SupplyIn
  <2>5. PICK y, n, b : /\ y = SupplyIn(pos, k, "Yes") /\ n = SupplyIn(pos, k, "No")
                       /\ b = setBacking[k]
    OBVIOUS
  <2>6. y \in Nat /\ n \in Nat /\ b \in Nat /\ y <= b /\ n <= b
    BY <2>1, <2>2, <2>3, <2>5
  <2>7. (y + n + 0) \div 2 <= b /\ (y + n + 0) \div 2 \in Nat
    BY <2>6
  <2>8. CASE verdict'[k] \in Sides
    BY <1>2, <2>1, <2>2, <2>4, <2>8
  <2>9. CASE verdict'[k] \notin Sides
    BY <1>2, <2>1, <2>4, <2>5, <2>7, <2>9
  <2> QED BY <2>8, <2>9
<1> QED BY <1>1, <1>2

\* So its claims are covered.
LEMMA ProgressedKept ==
    ASSUME Kept, Progressed, UNCHANGED <<tokenVars, vault, poolVars, cash, trades>>
    PROVE  Kept'
<1>1. /\ vault' = vault /\ pos' = pos /\ setBacking' = setBacking /\ pool' = pool /\ lp' = lp
      /\ checkpoint' = checkpoint /\ cash' = cash /\ trades' = trades
  BY DEF tokenVars, poolVars
<1>2. /\ vault \in Vaults /\ pos \in [Tokens -> Nat] /\ setBacking \in [Markets -> Nat]
  BY SoundFields DEF Kept
<1>3. \A k \in Markets : Settled(k) => Settled(k)'
  BY DEF Settled, Progressed
<1>4. Sound'
  <2>1. TypeOK'
    BY <1>1 DEF Kept, Sound, TypeOK, Progressed, TokensTypeOK, VaultTypeOK, PoolsTypeOK
  <2>2. PoolsMade'
    BY <1>1 DEF Kept, Sound, PoolsMade, Progressed
  <2>3. BooksKept(vault') /\ LoansKept(vault')
    BY <1>1 DEF Kept, Sound
  <2> QED BY <2>1, <2>2, <2>3 DEF Sound, BooksKept, LoansKept
<1>5. VerdictKept'
  BY DEF Progressed, VerdictKept
<1>6. VaultHoldsBooks'
  <2>1. (\A k \in Lenders : ~Settled(k)') => cash["vault"] = Worth(vault)
    BY <1>3, LinesInMarkets DEF Kept, VaultHoldsBooks
  <2>2. Worth(vault)' = Worth(vault)
    BY <1>1 DEF Worth, BookTotal
  <2> QED BY <1>1, <2>1, <2>2 DEF Kept, VaultHoldsBooks
<1>7. SetsKept'
  BY <1>1, <1>3 DEF Kept, SetsKept, SupplyIn
<1>8. ClaimsCovered'
  <2> SUFFICES ASSUME NEW k \in Markets \ Lenders, Settled(k)'
               PROVE  Claims(k)' <= vault.book[k].backing - vault.book[k].redeemed
    BY <1>1 DEF ClaimsCovered
  <2>1. CASE Settled(k)
    BY <1>1, <2>1, ClaimsSettled DEF Kept, ClaimsCovered
  <2>2. CASE ~Settled(k)
    <3>1. vault.book[k].redeemed = 0 /\ vault.book[k].backing = setBacking[k]
      BY <2>2 DEF Kept, SetsKept
    <3>2. Claims(k)' <= setBacking[k] /\ setBacking[k] \in Nat
      BY <1>1, <1>2, <2>2, ClaimsSettled
    <3> QED BY <3>1, <3>2
  <2> QED BY <2>1, <2>2
<1>9. PoolHoldsReserves'
  BY <1>1, Zenon DEF Kept, PoolHoldsReserves
<1> QED BY <1>4, <1>5, <1>6, <1>7, <1>8, <1>9 DEF Kept

\* So does a step that changes nothing.
LEMMA StutterKept ==
    ASSUME Kept, UNCHANGED vars
    PROVE  Kept'
<1>1. /\ UNCHANGED <<tokenVars, vault, poolVars, cash, trades>>
      /\ phase' = phase /\ verdict' = verdict
  BY DEF vars, lifecycleVars
<1>2. TypeOK /\ VerdictKept
  BY DEF Kept, Sound
<1>3. Progressed
  BY <1>1, <1>2 DEF TypeOK, VerdictKept, Progressed
<1> QED BY <1>1, <1>3, ProgressedKept

\* The invariant is inductive.
LEMMA NextKept ==
    ASSUME Kept, [Next]_vars
    PROVE  Kept'
<1>1. TypeOK /\ VerdictKept /\ Sound
  BY DEF Kept, Sound
<1>2. CASE Next
  <2>1. LifecycleStep \/ Traded \/ RedeemedStep
    BY <1>1, <1>2, StepKinds
  <2>2. CASE LifecycleStep
    <3>1. Progressed
      BY <1>1, <2>2, LifecycleProgressed
    <3>2. UNCHANGED <<tokenVars, vault, poolVars, cash, trades>>
      BY <2>2 DEF LifecycleStep
    <3> QED BY <3>1, <3>2, ProgressedKept
  <2>3. CASE Traded
    BY <2>3, TradedKept
  <2>4. CASE RedeemedStep
    BY <2>4, RedeemedKept
  <2> QED BY <2>1, <2>2, <2>3, <2>4
<1>3. CASE UNCHANGED vars
  BY <1>3, StutterKept
<1> QED BY <1>2, <1>3

\* The state of markets, tokens, vault and pools stays in its types: no
\* amount the contracts keep as u128 or u64 ever falls below zero.
THEOREM TypesHold == Spec => []TypeOK
<1>1. Kept => TypeOK
  BY DEF Kept, Sound
<1> QED BY <1>1, InitKept, NextKept, PTL DEF Spec

\* VaultHoldsBooks: the vault's tokens are what its books say until a lending
\* market settles, and `refundable` is the rest of the backing.
THEOREM VaultAlwaysHoldsBooks == Spec => []VaultHoldsBooks
<1>1. Kept => VaultHoldsBooks
  BY DEF Kept
<1> QED BY <1>1, InitKept, NextKept, PTL DEF Spec

\* ClaimsCovered: a settled market without child credit can pay every claim,
\* in whatever order and parts its holders redeem.
THEOREM ClaimsAlwaysCovered == Spec => []ClaimsCovered
<1>1. Kept => ClaimsCovered
  BY DEF Kept
<1> QED BY <1>1, InitKept, NextKept, PTL DEF Spec

\* PoolHoldsReserves: the pool owns the reserves it quotes from.
THEOREM PoolsAlwaysHoldReserves == Spec => []PoolHoldsReserves
<1>1. Kept => PoolHoldsReserves
  BY DEF Kept
<1> QED BY <1>1, InitKept, NextKept, PTL DEF Spec

-----------------------------------------------------------------------------
(* The fees of liquidity providers.                                         *)

SharesIn(l, m) == SumFunctionOnSet([u \in Traders |-> l[<<m, u>>]], Traders)

\* What the providers of m have earned, in units of 1 / FEE_SCALE.
DueIn(l, c, at, m) == SumFunctionOnSet([u \in Traders |-> l[<<m, u>>] * (at - c[<<m, u>>])], Traders)

\* A pool p of m with fees b in the vault owes no more than it has.
FeesIn(l, c, p, b, m) ==
    /\ SharesIn(l, m) = p.shares
    /\ \A u \in Traders : c[<<m, u>>] <= p.fee_per_share
    /\ DueIn(l, c, p.fee_per_share, m) <= FEE_SCALE * b

FeesKept == \A m \in Markets : FeesIn(lp, checkpoint, pool[m], vault.book[m].lp_fees, m)

\* Shares and dues are numbers; nobody has more shares than there are.
LEMMA DueInt ==
    ASSUME NEW l \in [Accounts -> Nat], NEW c \in [Accounts -> Nat], NEW at \in Nat, NEW m \in Markets
    PROVE  /\ SharesIn(l, m) \in Nat /\ DueIn(l, c, at, m) \in Int
           /\ \A u \in Traders : l[<<m, u>>] <= SharesIn(l, m)
<1> DEFINE f == [u \in Traders |-> l[<<m, u>>]]
           g == [u \in Traders |-> l[<<m, u>>] * (at - c[<<m, u>>])]
<1>1. \A u \in Traders : f[u] \in Nat /\ f[u] = l[<<m, u>>]
  BY DEF Accounts
<1>2. \A u \in Traders : g[u] \in Int
  <2>1. \A x, y, z \in Nat : x * (y - z) \in Int
    OBVIOUS
  <2>2. \A u \in Traders : l[<<m, u>>] \in Nat /\ c[<<m, u>>] \in Nat
    BY DEF Accounts
  <2>3. \A u \in Traders : l[<<m, u>>] * (at - c[<<m, u>>]) \in Int
    BY <2>1, <2>2
  <2> QED BY <2>3
<1> HIDE DEF f, g
<1>3. SumFunctionOnSet(f, Traders) \in Nat /\ \A u \in Traders : f[u] <= SumFunctionOnSet(f, Traders)
  BY <1>1, SumNat, FiniteInstance
<1>4. SumFunctionOnSet(g, Traders) \in Int
  BY <1>2, SumInt, FiniteInstance
<1>5. SharesIn(l, m) = SumFunctionOnSet(f, Traders) /\ DueIn(l, c, at, m) = SumFunctionOnSet(g, Traders)
  BY Zenon DEF f, g, SharesIn, DueIn
<1> QED BY <1>1, <1>3, <1>4, <1>5

\* A pool that nobody touched owes what it owed.
LEMMA FeesSame ==
    ASSUME NEW l, NEW c, NEW l2, NEW c2, NEW p, NEW q, NEW b, NEW m \in Markets,
           \A u \in Traders : l2[<<m, u>>] = l[<<m, u>>] /\ c2[<<m, u>>] = c[<<m, u>>],
           q.shares = p.shares, q.fee_per_share = p.fee_per_share, FeesIn(l, c, p, b, m)
    PROVE  FeesIn(l2, c2, q, b, m)
<1>1. [u \in Traders |-> l2[<<m, u>>]] = [u \in Traders |-> l[<<m, u>>]]
  BY Zenon
<1>2. [u \in Traders |-> l2[<<m, u>>] * (q.fee_per_share - c2[<<m, u>>])]
        = [u \in Traders |-> l[<<m, u>>] * (p.fee_per_share - c[<<m, u>>])]
  BY Zenon
<1>3. SharesIn(l2, m) = SharesIn(l, m)
      /\ DueIn(l2, c2, q.fee_per_share, m) = DueIn(l, c, p.fee_per_share, m)
  BY <1>1, <1>2, Zenon DEF SharesIn, DueIn
<1> QED BY <1>3, Zenon DEF FeesIn

\* A fee that is shared out is owed to nobody in excess of it.
LEMMA FeesGained ==
    ASSUME NEW l \in [Accounts -> Nat], NEW c \in [Accounts -> Nat], NEW p \in PoolRecord,
           NEW q \in PoolRecord, NEW b \in Int, NEW fees \in Int, NEW m \in Markets,
           Gains(p, q, fees), FeesIn(l, c, p, b, m)
    PROVE  FeesIn(l, c, q, b + fees, m)
<1> DEFINE f == [u \in Traders |-> l[<<m, u>>] * (p.fee_per_share - c[<<m, u>>])]
           g == [u \in Traders |-> l[<<m, u>>]]
           h == [u \in Traders |-> l[<<m, u>>] * (q.fee_per_share - c[<<m, u>>])]
<1>1. PICK d \in Nat : q.fee_per_share = p.fee_per_share + d /\ d * p.shares <= FEE_SCALE * fees
  BY DEF Gains
<1>2. q.shares = p.shares /\ p.shares \in Nat /\ p.fee_per_share \in Nat /\ q.fee_per_share \in Nat
  BY DEF Gains, PoolRecord
<1>3. ASSUME NEW u \in Traders
      PROVE  f[u] \in Int /\ g[u] \in Int /\ h[u] = f[u] + d * g[u]
  <2>1. PICK x, y, z \in Nat : x = l[<<m, u>>] /\ y = c[<<m, u>>] /\ z = p.fee_per_share
    <3>1. l[<<m, u>>] \in Nat /\ c[<<m, u>>] \in Nat
      BY DEF Accounts
    <3> QED BY <1>2, <3>1
  <2>2. f[u] = x * (z - y) /\ g[u] = x /\ h[u] = x * ((z + d) - y)
    BY <1>1, <2>1
  <2>3. x * ((z + d) - y) = x * (z - y) + d * x /\ x * (z - y) \in Int
    OBVIOUS
  <2> HIDE DEF f, g, h
  <2> QED BY <2>2, <2>3
<1> HIDE DEF f, g, h
<1>4. SumFunctionOnSet(h, Traders) = SumFunctionOnSet(f, Traders) + d * SumFunctionOnSet(g, Traders)
  BY <1>3, SumLinear, FiniteInstance
<1>5. /\ SharesIn(l, m) = SumFunctionOnSet(g, Traders)
      /\ DueIn(l, c, p.fee_per_share, m) = SumFunctionOnSet(f, Traders)
      /\ DueIn(l, c, q.fee_per_share, m) = SumFunctionOnSet(h, Traders)
  BY Zenon DEF f, g, h, SharesIn, DueIn
<1>6. SharesIn(l, m) = p.shares /\ DueIn(l, c, p.fee_per_share, m) <= FEE_SCALE * b
  BY DEF FeesIn
<1>7. DueIn(l, c, q.fee_per_share, m) <= FEE_SCALE * (b + fees)
  <2>1. DueIn(l, c, p.fee_per_share, m) \in Int
    BY <1>2, DueInt
  <2>2. FEE_SCALE \in Nat
    BY FeeAssumption
  <2>3. DueIn(l, c, q.fee_per_share, m) = DueIn(l, c, p.fee_per_share, m) + d * p.shares
    BY <1>4, <1>5, <1>6
  <2>4. FEE_SCALE * (b + fees) = FEE_SCALE * b + FEE_SCALE * fees
        /\ FEE_SCALE * b \in Int /\ FEE_SCALE * fees \in Int /\ d * p.shares \in Int
    BY <1>2, <2>2
  <2> QED BY <1>1, <1>6, <2>1, <2>3, <2>4
<1>8. \A u \in Traders : c[<<m, u>>] <= q.fee_per_share
  <2>1. \A u \in Traders : c[<<m, u>>] \in Nat /\ c[<<m, u>>] <= p.fee_per_share
    BY DEF FeesIn, Accounts
  <2> QED BY <1>1, <1>2, <2>1
<1> QED BY <1>2, <1>6, <1>7, <1>8 DEF FeesIn

\* Whoever changes his shares is paid what he earned, rounded down.
LEMMA FeesHeld ==
    ASSUME NEW l \in [Accounts -> Nat], NEW c \in [Accounts -> Nat], NEW p \in PoolRecord,
           NEW q \in PoolRecord, NEW b \in Int, NEW owed \in Nat, NEW s \in Int,
           NEW m \in Markets, NEW u \in Traders,
           NEW l2 \in [Accounts -> Nat], l2 = [l EXCEPT ![<<m, u>>] = @ + s],
           NEW c2 \in [Accounts -> Nat], c2 = [c EXCEPT ![<<m, u>>] = p.fee_per_share],
           q.shares = p.shares + s, q.fee_per_share = p.fee_per_share,
           FEE_SCALE * owed <= l[<<m, u>>] * (p.fee_per_share - c[<<m, u>>]),
           FeesIn(l, c, p, b, m)
    PROVE  FeesIn(l2, c2, q, b - owed, m)
<1> DEFINE f == [x \in Traders |-> l[<<m, x>>]]
           f2 == [x \in Traders |-> l2[<<m, x>>]]
           g == [x \in Traders |-> l[<<m, x>>] * (p.fee_per_share - c[<<m, x>>])]
           g2 == [x \in Traders |-> l2[<<m, x>>] * (q.fee_per_share - c2[<<m, x>>])]
<1>1. /\ \A x \in Traders : <<m, x>> \in Accounts
      /\ p.fee_per_share \in Nat /\ p.shares \in Nat
  BY DEF Accounts, PoolRecord
<1>2. /\ l2[<<m, u>>] = l[<<m, u>>] + s /\ c2[<<m, u>>] = p.fee_per_share
      /\ \A x \in Traders \ {u} : l2[<<m, x>>] = l[<<m, x>>] /\ c2[<<m, x>>] = c[<<m, x>>]
  BY <1>1
<1>3. \A x \in Traders : l[<<m, x>>] \in Nat /\ l2[<<m, x>>] \in Nat
                         /\ c[<<m, x>>] \in Nat /\ c2[<<m, x>>] \in Nat
  BY <1>1
<1>4. \A x, y, z \in Nat : x * (y - z) \in Int
  OBVIOUS
<1>5. \A x \in Traders : f[x] \in Int /\ f2[x] \in Int /\ g[x] \in Int /\ g2[x] \in Int
  <2>1. \A x \in Traders : /\ l[<<m, x>>] * (p.fee_per_share - c[<<m, x>>]) \in Int
                           /\ l2[<<m, x>>] * (q.fee_per_share - c2[<<m, x>>]) \in Int
    BY <1>1, <1>3, <1>4
  <2> QED BY <1>3, <2>1
<1>6. \A x \in Traders \ {u} : f2[x] = f[x] /\ g2[x] = g[x]
  BY <1>2
<1>7. f2[u] = l[<<m, u>>] + s /\ f[u] = l[<<m, u>>]
  BY <1>2
<1>8. g2[u] = 0
  <2>1. \A x, y \in Nat : x * (y - y) = 0
    OBVIOUS
  <2>2. l2[<<m, u>>] * (q.fee_per_share - c2[<<m, u>>]) = 0
    BY <1>1, <1>2, <1>3, <2>1
  <2> QED BY <2>2
<1>9. g[u] = l[<<m, u>>] * (p.fee_per_share - c[<<m, u>>])
  OBVIOUS
<1> HIDE DEF f, g, f2, g2
<1>10. /\ SumFunctionOnSet(f2, Traders) = SumFunctionOnSet(f, Traders) + (f2[u] - f[u])
       /\ SumFunctionOnSet(g2, Traders) = SumFunctionOnSet(g, Traders) + (g2[u] - g[u])
       /\ SumFunctionOnSet(f, Traders) \in Int /\ SumFunctionOnSet(g, Traders) \in Int
  <2>1. SumFunctionOnSet(f2, Traders) = SumFunctionOnSet(f, Traders) + (f2[u] - f[u])
    BY <1>5, <1>6, SumChange, FiniteInstance
  <2>2. SumFunctionOnSet(g2, Traders) = SumFunctionOnSet(g, Traders) + (g2[u] - g[u])
    BY <1>5, <1>6, SumChange, FiniteInstance
  <2>3. SumFunctionOnSet(f, Traders) \in Int /\ SumFunctionOnSet(g, Traders) \in Int
    BY <1>5, SumInt, FiniteInstance
  <2> QED BY <2>1, <2>2, <2>3
<1>11. /\ SharesIn(l, m) = SumFunctionOnSet(f, Traders)
       /\ SharesIn(l2, m) = SumFunctionOnSet(f2, Traders)
       /\ DueIn(l, c, p.fee_per_share, m) = SumFunctionOnSet(g, Traders)
       /\ DueIn(l2, c2, q.fee_per_share, m) = SumFunctionOnSet(g2, Traders)
  BY Zenon DEF f, g, f2, g2, SharesIn, DueIn
<1>12. /\ SharesIn(l, m) = p.shares /\ DueIn(l, c, p.fee_per_share, m) <= FEE_SCALE * b
       /\ \A x \in Traders : c[<<m, x>>] <= p.fee_per_share
  BY DEF FeesIn
<1>13. SharesIn(l2, m) = q.shares
  BY <1>1, <1>3, <1>7, <1>10, <1>11, <1>12
<1>14. DueIn(l2, c2, q.fee_per_share, m) <= FEE_SCALE * (b - owed)
  <2>1. FEE_SCALE \in Nat
    BY FeeAssumption
  <2>2. FEE_SCALE * (b - owed) = FEE_SCALE * b - FEE_SCALE * owed
        /\ FEE_SCALE * b \in Int /\ FEE_SCALE * owed \in Int
    BY <2>1
  <2>3. g[u] \in Int /\ FEE_SCALE * owed <= g[u]
    BY <1>5, <1>9
  <2> QED BY <1>8, <1>10, <1>11, <1>12, <2>2, <2>3
<1>15. \A x \in Traders : c2[<<m, x>>] <= q.fee_per_share
  BY <1>1, <1>2, <1>12
<1> QED BY <1>13, <1>14, <1>15 DEF FeesIn

\* At the start no fee is owed.
LEMMA InitFees ==
    ASSUME Init
    PROVE  FeesKept
<1>1. /\ lp = [k \in Accounts |-> 0] /\ checkpoint = [k \in Accounts |-> 0]
      /\ pool = [m \in Markets |-> NewPool]
      /\ vault.book = [m \in Markets |-> zero_accounting]
  BY DEF Init, PoolsInit, VaultInit, Accounts
<1> SUFFICES ASSUME NEW m \in Markets
             PROVE  FeesIn(lp, checkpoint, pool[m], vault.book[m].lp_fees, m)
  BY DEF FeesKept
<1>2. pool[m].shares = 0 /\ pool[m].fee_per_share = 0 /\ vault.book[m].lp_fees = 0
  BY <1>1 DEF NewPool, zero_accounting
<1>3. \A u \in Traders : lp[<<m, u>>] = 0 /\ checkpoint[<<m, u>>] = 0
  BY <1>1 DEF Accounts
<1> DEFINE f == [u \in Traders |-> lp[<<m, u>>]]
           g == [u \in Traders |-> lp[<<m, u>>] * (0 - checkpoint[<<m, u>>])]
<1>4. \A u \in Traders : f[u] = 0 /\ g[u] = 0
  BY <1>3
<1> HIDE DEF f, g
<1>5. SumFunctionOnSet(f, Traders) = 0 /\ SumFunctionOnSet(g, Traders) = 0
  BY <1>4, SumZeros, FiniteInstance
<1>6. SharesIn(lp, m) = 0 /\ DueIn(lp, checkpoint, 0, m) = 0
  BY <1>5, Zenon DEF f, g, SharesIn, DueIn
<1>7. FEE_SCALE \in Nat
  BY FeeAssumption
<1> QED BY <1>2, <1>3, <1>6, <1>7 DEF FeesIn

\* Every Traded step keeps what is owed within what is held.
LEMMA TradedFees ==
    ASSUME Sound, FeesKept, Traded
    PROVE  FeesKept'
<1>1. PICK m \in Markets, b \in Int, f \in Int, w \in Int :
        Steady(m, b, f, w) /\ Pooled(m, f)
  BY DEF Traded
<1>2. /\ vault \in Vaults /\ pool \in [Markets -> PoolRecord] /\ lp \in [Accounts -> Nat]
      /\ checkpoint \in [Accounts -> Nat]
  BY SoundFields
<1>3. /\ pool' \in [Markets -> PoolRecord] /\ lp' \in [Accounts -> Nat]
      /\ checkpoint' \in [Accounts -> Nat] /\ vault' \in Vaults
  BY DEF Traded, TypeOK, PoolsTypeOK, VaultTypeOK, PoolRecord
<1>4. \A k \in Markets :
        vault'.book[k].lp_fees = vault.book[k].lp_fees + (IF k = m THEN f ELSE 0)
  BY <1>1 DEF Steady, Booked
<1>5. \A k \in Markets : vault.book[k].lp_fees \in Int
  BY <1>2, VaultFields
<1>6. ASSUME NEW k \in Markets
      PROVE  FeesIn(lp', checkpoint', pool'[k], vault'.book[k].lp_fees, k)
  <2>1. FeesIn(lp, checkpoint, pool[k], vault.book[k].lp_fees, k)
    BY DEF FeesKept
  <2>2. CASE k # m
    <3>1. pool'[k].shares = pool[k].shares /\ pool'[k].fee_per_share = pool[k].fee_per_share
      BY <1>1, <2>2 DEF Pooled
    <3>2. \A u \in Traders : lp'[<<k, u>>] = lp[<<k, u>>] /\ checkpoint'[<<k, u>>] = checkpoint[<<k, u>>]
      <4>1. CASE Accrued(m, f)
        BY <4>1 DEF Accrued
      <4>2. ASSUME NEW x, NEW s, NEW y, NEW z,
                   lp' = [lp EXCEPT ![<<m, x>>] = y], checkpoint' = [checkpoint EXCEPT ![<<m, x>>] = z]
            PROVE  \A u \in Traders : lp'[<<k, u>>] = lp[<<k, u>>]
                                      /\ checkpoint'[<<k, u>>] = checkpoint[<<k, u>>]
        <5>1. \A u \in Traders : <<k, u>> \in Accounts /\ <<k, u>> # <<m, x>>
          BY <2>2 DEF Accounts
        <5> QED BY <1>2, <4>2, <5>1
      <4>3. CASE \E u \in Traders, s \in Int : Held(m, u, s, f)
        <5>1. PICK u \in Traders, s \in Int : Held(m, u, s, f)
          BY <4>3
        <5>2. PICK y, z : y = lp[<<m, u>>] + s /\ z = pool[m].fee_per_share
          OBVIOUS
        <5>3. lp' = [lp EXCEPT ![<<m, u>>] = y] /\ checkpoint' = [checkpoint EXCEPT ![<<m, u>>] = z]
          BY <5>1, <5>2 DEF Held
        <5> QED BY <4>2, <5>3, Zenon
      <4>4. CASE \E u \in Traders, s \in Nat : FirstHeld(m, u, s, f)
        <5>1. PICK u \in Traders, s \in Nat : FirstHeld(m, u, s, f)
          BY <4>4
        <5>2. PICK z : z = pool[m].fee_per_share
          OBVIOUS
        <5>3. lp' = [lp EXCEPT ![<<m, u>>] = s] /\ checkpoint' = [checkpoint EXCEPT ![<<m, u>>] = z]
          BY <5>1, <5>2 DEF FirstHeld
        <5> QED BY <4>2, <5>3, Zenon
      <4> QED BY <1>1, <4>1, <4>3, <4>4 DEF Pooled
    <3>3. vault'.book[k].lp_fees = vault.book[k].lp_fees
      BY <1>4, <1>5, <2>2
    <3>4. FeesIn(lp', checkpoint', pool'[k], vault.book[k].lp_fees, k)
      BY <2>1, <3>1, <3>2, FeesSame, Zenon
    <3> QED BY <3>3, <3>4
  <2>3. CASE k = m
    <3>1. pool[m] \in PoolRecord /\ pool'[m] \in PoolRecord
      BY <1>2, <1>3
    <3>2. PICK b0 \in Int : b0 = vault.book[m].lp_fees
      BY <1>5
    <3>3. vault'.book[m].lp_fees = b0 + f
      BY <1>4, <3>2
    <3>4. FeesIn(lp, checkpoint, pool[m], b0, m)
      BY <2>1, <2>3, <3>2
    <3>5. CASE Accrued(m, f)
      <4>1. Gains(pool[m], pool'[m], f) /\ lp' = lp /\ checkpoint' = checkpoint
        BY <3>5 DEF Accrued
      <4>2. FeesIn(lp, checkpoint, pool'[m], b0 + f, m)
        BY <1>2, <3>1, <3>4, <4>1, FeesGained
      <4> QED BY <2>3, <3>3, <4>1, <4>2
    <3>6. CASE \E u \in Traders, s \in Int : Held(m, u, s, f)
      <4>1. PICK u \in Traders, s \in Int : Held(m, u, s, f)
        BY <3>6
      <4>2. PICK owed \in Nat : owed = compute_lp_fees_owed(m, u)
        BY OwedBounds
      <4>3. checkpoint[<<m, u>>] <= pool[m].fee_per_share
        BY <3>4 DEF FeesIn
      <4>4. FEE_SCALE * owed <= lp[<<m, u>>] * (pool[m].fee_per_share - checkpoint[<<m, u>>])
        BY <4>2, <4>3, OwedBounds
      <4>5. /\ lp' = [lp EXCEPT ![<<m, u>>] = @ + s]
            /\ checkpoint' = [checkpoint EXCEPT ![<<m, u>>] = pool[m].fee_per_share]
            /\ pool'[m].shares = pool[m].shares + s
            /\ pool'[m].fee_per_share = pool[m].fee_per_share
            /\ f = 0 - owed
        BY <4>1, <4>2 DEF Held
      <4>6. FeesIn(lp', checkpoint', pool'[m], b0 - owed, m)
        BY <1>2, <1>3, <3>1, <3>4, <4>4, <4>5, FeesHeld
      <4>7. b0 - owed = b0 + f
        BY <4>5
      <4> QED BY <2>3, <3>3, <4>6, <4>7
    <3>7. CASE \E u \in Traders, s \in Nat : FirstHeld(m, u, s, f)
      <4>1. PICK u \in Traders, s \in Nat : FirstHeld(m, u, s, f)
        BY <3>7
      <4>2. SharesIn(lp, m) = 0 /\ pool[m].shares = 0
        BY <3>4, <4>1 DEF FirstHeld, FeesIn
      <4>3. lp[<<m, u>>] = 0
        <5>1. pool[m].fee_per_share \in Nat /\ <<m, u>> \in Accounts
          BY <3>1 DEF PoolRecord, Accounts
        <5>2. lp[<<m, u>>] <= SharesIn(lp, m) /\ lp[<<m, u>>] \in Nat
          BY <1>2, <5>1, DueInt
        <5> QED BY <4>2, <5>2
      <4>4. /\ lp' = [lp EXCEPT ![<<m, u>>] = s]
            /\ checkpoint' = [checkpoint EXCEPT ![<<m, u>>] = pool[m].fee_per_share]
            /\ pool'[m].shares = s /\ pool'[m].fee_per_share = pool[m].fee_per_share
            /\ f = 0
        BY <4>1 DEF FirstHeld
      <4>5. lp[<<m, u>>] + s = s /\ pool[m].shares + s = s
        BY <4>2, <4>3
      <4>6. lp' = [lp EXCEPT ![<<m, u>>] = @ + s] /\ pool'[m].shares = pool[m].shares + s
        BY <4>4, <4>5
      <4>7. FEE_SCALE * 0 <= lp[<<m, u>>] * (pool[m].fee_per_share - checkpoint[<<m, u>>])
        <5>1. pool[m].fee_per_share \in Nat /\ checkpoint[<<m, u>>] \in Nat /\ FEE_SCALE \in Nat
          BY <1>2, <3>1, FeeAssumption DEF PoolRecord, Accounts
        <5>2. \A x, y, z \in Nat : z * 0 <= 0 * (x - y)
          OBVIOUS
        <5> QED BY <4>3, <5>1, <5>2
      <4>8. 0 \in Nat /\ s \in Int
        OBVIOUS
      <4>9. FeesIn(lp', checkpoint', pool'[m], b0 - 0, m)
        BY <1>2, <1>3, <3>1, <3>4, <4>4, <4>6, <4>7, <4>8, FeesHeld
      <4>10. b0 - 0 = b0 + f
        BY <4>4
      <4> QED BY <2>3, <3>3, <4>9, <4>10
    <3> QED BY <1>1, <3>5, <3>6, <3>7 DEF Pooled
  <2> QED BY <2>2, <2>3
<1> QED BY <1>6 DEF FeesKept, FeesIn, SharesIn, DueIn

\* So does a step that leaves pools and fees alone.
LEMMA UntouchedFees ==
    ASSUME FeesKept, UNCHANGED poolVars,
           \A k \in Markets : vault'.book[k].lp_fees = vault.book[k].lp_fees
    PROVE  FeesKept'
<1>1. lp' = lp /\ checkpoint' = checkpoint /\ pool' = pool
  BY DEF poolVars
<1> QED BY <1>1, Zenon DEF FeesKept, FeesIn, SharesIn, DueIn

\* What is owed stays within what is held.
LEMMA NextFees ==
    ASSUME Kept, FeesKept, [Next]_vars
    PROVE  FeesKept'
<1>1. Sound /\ VerdictKept
  BY DEF Kept
<1>2. CASE Next
  <2>1. LifecycleStep \/ Traded \/ RedeemedStep
    BY <1>1, <1>2, StepKinds
  <2>2. CASE LifecycleStep
    BY <2>2, UntouchedFees DEF LifecycleStep
  <2>3. CASE Traded
    BY <1>1, <2>3, TradedFees
  <2>4. CASE RedeemedStep
    <3>1. UNCHANGED poolVars
      BY <2>4 DEF RedeemedStep
    <3>2. \A k \in Markets : vault'.book[k].lp_fees = vault.book[k].lp_fees
      BY <2>4 DEF RedeemedStep, RedeemedBy, Redeems
    <3> QED BY <3>1, <3>2, UntouchedFees
  <2> QED BY <2>1, <2>2, <2>3, <2>4
<1>3. CASE UNCHANGED vars
  BY <1>3, UntouchedFees DEF vars
<1> QED BY <1>2, <1>3

\* What the providers can claim is what they earned, each rounded down.
LEMMA FeesCovered ==
    ASSUME Sound, FeesKept
    PROVE  LpFeesCovered
<1> SUFFICES ASSUME NEW m \in Markets
             PROVE  SumFunctionOnSet([u \in Traders |-> compute_lp_fees_owed(m, u)], Traders)
                      <= vault.book[m].lp_fees
  BY DEF LpFeesCovered
<1> DEFINE f == [u \in Traders |-> compute_lp_fees_owed(m, u)]
           g == [u \in Traders |-> lp[<<m, u>>] * (pool[m].fee_per_share - checkpoint[<<m, u>>])]
           h == [u \in Traders |-> FEE_SCALE * compute_lp_fees_owed(m, u)]
           zero == [u \in Traders |-> 0]
<1>1. FEE_SCALE \in Nat /\ FEE_SCALE # 0 /\ vault.book[m].lp_fees \in Int
  BY FeeAssumption, SoundFields, VaultFields
<1>2. FeesIn(lp, checkpoint, pool[m], vault.book[m].lp_fees, m)
  BY DEF FeesKept
<1>3. ASSUME NEW u \in Traders
      PROVE  /\ f[u] \in Int /\ g[u] \in Int /\ h[u] \in Int /\ h[u] <= g[u]
             /\ zero[u] \in Int /\ h[u] = zero[u] + FEE_SCALE * f[u]
  <2>1. compute_lp_fees_owed(m, u) \in Nat
    BY OwedBounds
  <2>2. FEE_SCALE * compute_lp_fees_owed(m, u)
          <= lp[<<m, u>>] * (pool[m].fee_per_share - checkpoint[<<m, u>>])
    BY <1>2, OwedBounds DEF FeesIn
  <2>3. PICK e \in Nat : e = compute_lp_fees_owed(m, u)
    BY <2>1
  <2>4. PICK x, y, z \in Nat : x = lp[<<m, u>>] /\ y = checkpoint[<<m, u>>] /\ z = pool[m].fee_per_share
    <3>1. lp[<<m, u>>] \in Nat /\ checkpoint[<<m, u>>] \in Nat /\ pool[m].fee_per_share \in Nat
      BY SoundFields DEF Accounts, PoolRecord
    <3> QED BY <3>1
  <2>5. f[u] = e /\ g[u] = x * (z - y) /\ h[u] = FEE_SCALE * e /\ zero[u] = 0
    BY <2>3, <2>4
  <2>6. FEE_SCALE * e \in Int /\ x * (z - y) \in Int /\ FEE_SCALE * e <= x * (z - y)
    BY <1>1, <2>2, <2>3, <2>4
  <2> HIDE DEF f, g, h, zero
  <2> QED BY <2>5, <2>6
<1>4. \A u \in Traders : zero[u] = 0
  OBVIOUS
<1> HIDE DEF f, g, h, zero
<1>5. SumFunctionOnSet(h, Traders) <= SumFunctionOnSet(g, Traders)
  BY <1>3, SumMonotone, FiniteInstance
<1>6. SumFunctionOnSet(h, Traders)
        = SumFunctionOnSet(zero, Traders) + FEE_SCALE * SumFunctionOnSet(f, Traders)
  BY <1>1, <1>3, SumLinear, FiniteInstance
<1>7. SumFunctionOnSet(zero, Traders) = 0
  BY <1>4, SumZeros, FiniteInstance
<1>8. SumFunctionOnSet(f, Traders) \in Int /\ SumFunctionOnSet(g, Traders) \in Int
  <2>1. SumFunctionOnSet(f, Traders) \in Int
    BY <1>3, SumInt, FiniteInstance
  <2>2. SumFunctionOnSet(g, Traders) \in Int
    BY <1>3, SumInt, FiniteInstance
  <2> QED BY <2>1, <2>2
<1>9. SumFunctionOnSet(g, Traders) <= FEE_SCALE * vault.book[m].lp_fees
  BY <1>2 DEF g, FeesIn, DueIn
<1>10. ASSUME NEW x \in Int, NEW y \in Int, FEE_SCALE * x <= FEE_SCALE * y
       PROVE  x <= y
  <2> SUFFICES ASSUME y + 1 <= x PROVE FALSE
    OBVIOUS
  <2>1. FEE_SCALE * x = FEE_SCALE * y + FEE_SCALE * (x - y)
    BY <1>1
  <2>2. 1 * 1 <= FEE_SCALE * (x - y)
    BY <1>1, ProductMonotone
  <2>3. FEE_SCALE * y \in Int /\ FEE_SCALE * (x - y) \in Int
    BY <1>1
  <2> QED BY <1>10, <2>1, <2>2, <2>3
<1>11. FEE_SCALE * SumFunctionOnSet(f, Traders) <= FEE_SCALE * vault.book[m].lp_fees
  <2>1. PICK x \in Int : x = SumFunctionOnSet(f, Traders)
    BY <1>8
  <2>2. PICK y \in Int : y = vault.book[m].lp_fees
    BY <1>1
  <2>3. PICK z \in Int : z = SumFunctionOnSet(g, Traders)
    BY <1>8
  <2>4. FEE_SCALE * x \in Int /\ FEE_SCALE * y \in Int
    BY <1>1
  <2>5. 0 + FEE_SCALE * x <= z /\ z <= FEE_SCALE * y
    BY <1>5, <1>6, <1>7, <1>9, <2>1, <2>2, <2>3
  <2>6. FEE_SCALE * x <= FEE_SCALE * y
    BY <2>4, <2>5
  <2> QED BY <2>1, <2>2, <2>6
<1>12. SumFunctionOnSet(f, Traders) <= vault.book[m].lp_fees
  BY <1>1, <1>8, <1>10, <1>11
<1> QED BY <1>12 DEF f

\* LpFeesCovered: the vault holds the fees that every liquidity provider of a
\* market can claim, whatever deposits, withdrawals and claims came before.
THEOREM LpFeesAlwaysCovered == Spec => []LpFeesCovered
<1>1. Init => Kept /\ FeesKept
  BY InitKept, InitFees
<1>2. Kept /\ FeesKept /\ [Next]_vars => (Kept /\ FeesKept)'
  BY NextKept, NextFees
<1>3. Kept /\ FeesKept => LpFeesCovered
  BY FeesCovered DEF Kept
<1> QED BY <1>1, <1>2, <1>3, PTL DEF Spec
-----------------------------------------------------------------------------
(* Child credit where the lines of credit do not meet: a position backs     *)
(* loans in one child market, and a child market borrows against one        *)
(* position of each trader.  Then both sides of a loan are in step, and     *)
(* what a market lost to its borrowers is what they owe it.                 *)

Matched == \A j, l \in CreditLines : j[3] = l[3] \/ (j[1] = l[1] /\ j[2] = l[2]) => j = l

\* The position of trader u that backs the loans of a line, and the account
\* of the child market that owes them.
BackedBy(l, u) == <<l[1], u, l[2]>>
OwedBy(l, u)   == <<l[3], u>>

\* No loan was made on line l to u, or its keys say so.
Known(v, l, u) ==
    \/ /\ v.parent[OwedBy(l, u)] = NoParent /\ v.childDebt[OwedBy(l, u)] = 0
       /\ v.children[BackedBy(l, u)] = <<>>
    \/ /\ v.parent[OwedBy(l, u)] = l[1] /\ v.parentOutcome[OwedBy(l, u)] = l[2]
       /\ v.children[BackedBy(l, u)] = <<l[3]>>

\* What is owed upstream is owed by the child, and until the parent settles the
\* child owes nothing else.
Even(v, l, u) ==
    /\ v.parentDebt[BackedBy(l, u)] <= v.childDebt[OwedBy(l, u)]
    /\ ~Settled(l[1]) => v.childDebt[OwedBy(l, u)] = v.parentDebt[BackedBy(l, u)]

Loans(v) ==
    /\ \A k \in Positions : v.parentDebt[k] = v.used[k]
    /\ \A k \in Positions :
         v.parentDebt[k] # 0 => \E l \in CreditLines : l[1] = k[1] /\ l[2] = k[3]
    /\ \A l \in CreditLines, u \in Traders : Known(v, l, u) /\ Even(v, l, u)

\* A step from vault v to w that keeps the loans in order and makes what is
\* secured in market m change by d.  A settled market may also gain by it: a
\* default of its child is booked in full, whatever was still owed upstream.
Carries(v, w, m, d) ==
    /\ w \in Vaults /\ Loans(w)
    /\ \A k \in Markets :
         /\ Secured(w, k) >= Secured(v, k) + (IF k = m THEN d ELSE 0)
         /\ ~Settled(k) => Secured(w, k) = Secured(v, k) + (IF k = m THEN d ELSE 0)

\* The parts of a line of credit.
LEMMA LineParts ==
    ASSUME NEW l \in CreditLines, NEW u \in Traders
    PROVE  /\ l[1] \in Markets /\ l[2] \in Sides /\ l[3] \in Markets
           /\ l[1] \in Lenders /\ l[3] \in Borrowers
           /\ BackedBy(l, u) \in Positions /\ OwedBy(l, u) \in Accounts
           /\ BackedBy(l, u)[1] = l[1] /\ BackedBy(l, u)[2] = u /\ BackedBy(l, u)[3] = l[2]
           /\ OwedBy(l, u)[1] = l[3] /\ OwedBy(l, u)[2] = u
<1>1. l \in Markets \X Sides \X Markets
  BY TradingAssumption
<1>2. l[1] \in Markets /\ l[2] \in Sides /\ l[3] \in Markets
  BY <1>1
<1>3. l[1] \in Lenders /\ l[3] \in Borrowers
  BY DEF Lenders, Borrowers
<1> QED BY <1>2, <1>3 DEF BackedBy, OwedBy, Positions, Accounts

\* No other line has a position or an account of this one.
LEMMA LinesApart ==
    ASSUME Matched, NEW l \in CreditLines, NEW j \in CreditLines,
           NEW u \in Traders, NEW t \in Traders, j # l \/ t # u
    PROVE  BackedBy(j, t) # BackedBy(l, u) /\ OwedBy(j, t) # OwedBy(l, u)
<1>1. BackedBy(j, t) = BackedBy(l, u) => j[1] = l[1] /\ t = u /\ j[2] = l[2]
  BY LineParts
<1>2. OwedBy(j, t) = OwedBy(l, u) => j[3] = l[3] /\ t = u
  BY LineParts
<1> QED BY <1>1, <1>2 DEF Matched

\* The positions of a market are finitely many.
LEMMA PositionsFinite ==
    ASSUME NEW m \in Markets
    PROVE  IsFiniteSet({k \in Positions : k[1] = m})
<1>1. IsFiniteSet(Sides)
  <2>1. IsFiniteSet({"Yes"})
    BY FS_Singleton
  <2>2. IsFiniteSet({"Yes"} \cup {"No"})
    BY <2>1, FS_AddElement
  <2>3. Sides = {"Yes"} \cup {"No"}
    BY DEF Sides
  <2> QED BY <2>2, <2>3
<1>2. IsFiniteSet(Traders \X Sides) 
  BY <1>1, FiniteInstance, FS_Product
<1>3. IsFiniteSet(Markets \X (Traders \X Sides))
  BY <1>2, FiniteInstance, FS_Product
<1> DEFINE D == Markets \X (Traders \X Sides)
           f == [x \in D |-> <<x[1], x[2][1], x[2][2]>>]
<1>4. f \in Surjection(D, Positions)
  <2>1. ASSUME NEW x \in D PROVE f[x] \in Positions
    BY DEF Positions
  <2>2. ASSUME NEW k \in Positions PROVE \E x \in D : f[x] = k
    <3>1. PICK a \in Markets, u \in Traders, o \in Sides : k = <<a, u, o>>
      BY DEF Positions
    <3>2. f[<<a, <<u, o>> >>] = k /\ <<a, <<u, o>> >> \in D
      BY <3>1
    <3> QED BY <3>2
  <2>3. f \in [D -> Positions]
    BY <2>1
  <2> HIDE DEF f, D
  <2> QED BY <2>2, <2>3 DEF Surjection
<1>5. IsFiniteSet(Positions)
  <2> HIDE DEF f, D
  <2> QED BY <1>3, <1>4, FS_Surjection DEF D
<1>6. {k \in Positions : k[1] = m} \subseteq Positions
  OBVIOUS
<1> QED BY <1>5, <1>6, FS_Subset, Zenon

\* What is lent from a market is a number.
LEMMA LentOutInt ==
    ASSUME NEW v \in Vaults, NEW m \in Markets
    PROVE  LentOut(v, m) \in Int
<1> DEFINE S == {k \in Positions : k[1] = m}
<1>1. \A k \in S : v.parentDebt[k] \in Int
  BY VaultFields
<1>2. IsFiniteSet(S)
  BY PositionsFinite
<1> HIDE DEF S
<1>3. SumFunctionOnSet(v.parentDebt, S) \in Int
  BY <1>1, <1>2, SumInt
<1> QED BY <1>3 DEF LentOut, S

\* And so is what is secured in it.
LEMMA SecuredInt ==
    ASSUME NEW v \in Vaults, NEW m \in Markets
    PROVE  Secured(v, m) \in Int /\ v.book[m].backing \in Int /\ v.book[m].shortfall \in Int
BY LentOutInt, VaultFields DEF Secured

\* What is lent from a market changes with the debt on one position.
LEMMA LentOutChange ==
    ASSUME NEW v \in Vaults, NEW w \in Vaults, NEW m \in Markets, NEW key \in Positions,
           \A k \in Positions : k # key => w.parentDebt[k] = v.parentDebt[k]
    PROVE  LentOut(w, m) = LentOut(v, m)
                             + (IF key[1] = m THEN w.parentDebt[key] - v.parentDebt[key] ELSE 0)
<1> DEFINE S == {k \in Positions : k[1] = m}
<1>1. \A k \in S : v.parentDebt[k] \in Int /\ w.parentDebt[k] \in Int
  BY VaultFields
<1>2. IsFiniteSet(S)
  BY PositionsFinite
<1>3. \A k \in S \ {key} : w.parentDebt[k] = v.parentDebt[k]
  OBVIOUS
<1>4. key \in S <=> key[1] = m
  OBVIOUS
<1> HIDE DEF S
<1>5. CASE key \in S
  <2>0. PICK f, g : f = v.parentDebt /\ g = w.parentDebt
    OBVIOUS
  <2>1. SumFunctionOnSet(g, S) = SumFunctionOnSet(f, S) + (g[key] - f[key])
    <3>1. \A x \in S : f[x] \in Int /\ g[x] \in Int
      BY <1>1, <2>0
    <3>2. \A x \in S \ {key} : g[x] = f[x]
      BY <1>3, <2>0
    <3>3. PICK y \in S : y = key
      BY <1>5
    <3>4. \A x \in S \ {y} : g[x] = f[x]
      BY <3>2, <3>3
    <3>5. PICK D : D = S
      OBVIOUS
    <3>6. /\ IsFiniteSet(D) /\ y \in D
          /\ \A x \in D : f[x] \in Int /\ g[x] \in Int
      BY <1>2, <3>1, <3>5
    <3>7. \A x \in D \ {y} : g[x] = f[x]
      BY <3>4, <3>5
    <3>8. SumFunctionOnSet(g, D) = SumFunctionOnSet(f, D) + (g[y] - f[y])
      BY <3>6, <3>7, SumChange
    <3> QED BY <3>3, <3>5, <3>8
  <2> QED BY <1>4, <1>5, <2>0, <2>1 DEF LentOut, S
<1>6. CASE key \notin S
  <2>1. \A k \in S : v.parentDebt[k] = w.parentDebt[k]
    BY <1>3, <1>6
  <2>2. SumFunctionOnSet(v.parentDebt, S) = SumFunctionOnSet(w.parentDebt, S)
    BY <1>2, <2>1, SumSame
  <2>3. LentOut(w, m) = LentOut(v, m)
    BY <2>2 DEF LentOut, S
  <2> QED BY <1>4, <1>6, <2>3, LentOutInt
<1> QED BY <1>5, <1>6

\* It is enough that what is secured changes by d whatever the phase.
LEMMA CarriesExactly ==
    ASSUME NEW v \in Vaults, NEW w \in Vaults, Loans(w), NEW m \in Markets, NEW d \in Int,
           \A k \in Markets : Secured(w, k) = Secured(v, k) + (IF k = m THEN d ELSE 0)
    PROVE  Carries(v, w, m, d)
<1>1. \A k \in Markets : Secured(v, k) + (IF k = m THEN d ELSE 0) \in Int
  BY SecuredInt
<1>2. \A k \in Markets : Secured(w, k) >= Secured(v, k) + (IF k = m THEN d ELSE 0)
  BY <1>1
<1> QED BY <1>2 DEF Carries

\* Steps that carry the loans along add up.
LEMMA CarriesTwice ==
    ASSUME NEW v \in Vaults, NEW w, NEW x, NEW m \in Markets, NEW a \in Int, NEW b \in Int,
           Carries(v, w, m, a), Carries(w, x, m, b)
    PROVE  Carries(v, x, m, a + b)
<1>1. w \in Vaults /\ x \in Vaults /\ Loans(x)
  BY DEF Carries
<1>2. ASSUME NEW k \in Markets
      PROVE  /\ Secured(x, k) >= Secured(v, k) + (IF k = m THEN a + b ELSE 0)
             /\ ~Settled(k) => Secured(x, k) = Secured(v, k) + (IF k = m THEN a + b ELSE 0)
  <2>1. Secured(v, k) \in Int /\ Secured(w, k) \in Int /\ Secured(x, k) \in Int
    BY <1>1, SecuredInt
  <2>2. /\ Secured(w, k) >= Secured(v, k) + (IF k = m THEN a ELSE 0)
        /\ Secured(x, k) >= Secured(w, k) + (IF k = m THEN b ELSE 0)
        /\ ~Settled(k) => /\ Secured(w, k) = Secured(v, k) + (IF k = m THEN a ELSE 0)
                          /\ Secured(x, k) = Secured(w, k) + (IF k = m THEN b ELSE 0)
    BY DEF Carries
  <2> QED BY <2>1, <2>2
<1> QED BY <1>1, <1>2 DEF Carries

\* Where nothing changes, it is all the same which.
LEMMA CarriesAny ==
    ASSUME NEW v, NEW w, NEW m \in Markets, Carries(v, w, m, 0), NEW j \in Markets
    PROVE  Carries(v, w, j, 0)
BY DEF Carries

\* A step that touches no loan carries them along.
LEMMA BooksCarry ==
    ASSUME NEW v \in Vaults, Loans(v), NEW w \in Vaults, SameLoans(v, w), NEW m \in Markets,
           NEW a \in Int,
           w.book[m].backing + w.book[m].shortfall
             = v.book[m].backing + v.book[m].shortfall + a,
           \A k \in Markets \ {m} : /\ w.book[k].backing = v.book[k].backing
                                    /\ w.book[k].shortfall = v.book[k].shortfall
    PROVE  Carries(v, w, m, a)
<1>1. Loans(w)
  BY DEF SameLoans, Loans, Known, Even
<1>2. ASSUME NEW k \in Markets
      PROVE  Secured(w, k) = Secured(v, k) + (IF k = m THEN a ELSE 0)
  <2>1. LentOut(w, k) = LentOut(v, k)
    BY DEF SameLoans, LentOut
  <2>2. /\ LentOut(v, k) \in Int
        /\ v.book[k].backing \in Int /\ v.book[k].shortfall \in Int
        /\ w.book[k].backing \in Int /\ w.book[k].shortfall \in Int
    BY LentOutInt, SecuredInt
  <2>3. CASE k = m BY <2>1, <2>2, <2>3 DEF Secured
  <2>4. CASE k # m BY <2>1, <2>2, <2>4 DEF Secured
  <2> QED BY <2>3, <2>4
<1> QED BY <1>1, <1>2, CarriesExactly

-----------------------------------------------------------------------------
(* A loan is paid down, cleared or withheld: the debt on both sides of line *)
(* l may only shrink.                                                       *)

Behind(v, l, u) ==
    v.book[l[1]].backing + v.book[l[1]].shortfall + v.parentDebt[BackedBy(l, u)]

Eased(v, w, l, u) ==
    /\ w \in Vaults
    /\ w.parent = v.parent /\ w.parentOutcome = v.parentOutcome /\ w.children = v.children
    /\ \A k \in Positions \ {BackedBy(l, u)} :
         w.parentDebt[k] = v.parentDebt[k] /\ w.used[k] = v.used[k]
    /\ \A a \in Accounts \ {OwedBy(l, u)} : w.childDebt[a] = v.childDebt[a]
    /\ \A k \in Markets \ {l[1]} : w.book[k] = v.book[k]
    /\ w.parentDebt[BackedBy(l, u)] = w.used[BackedBy(l, u)]
    /\ w.childDebt[OwedBy(l, u)] <= v.childDebt[OwedBy(l, u)]
    /\ Even(w, l, u)
    /\ Behind(w, l, u) >= Behind(v, l, u)
    /\ ~Settled(l[1]) => Behind(w, l, u) = Behind(v, l, u)

\* Easing a loan carries the loans along.
LEMMA EasedCarries ==
    ASSUME Matched, NEW v \in Vaults, Loans(v), NEW l \in CreditLines, NEW u \in Traders,
           NEW w, Eased(v, w, l, u), NEW m \in Markets
    PROVE  Carries(v, w, m, 0)
<1> DEFINE B == BackedBy(l, u)
           O == OwedBy(l, u)
<1>1. /\ w \in Vaults /\ B \in Positions /\ O \in Accounts
      /\ l[1] \in Markets /\ B[1] = l[1] /\ B[3] = l[2]
  BY LineParts DEF Eased
<1>2. Loans(w)
  <2>1. ASSUME NEW k \in Positions
        PROVE  w.parentDebt[k] = w.used[k]
    <3>1. CASE k = B BY <3>1 DEF Eased
    <3>2. CASE k # B BY <3>2 DEF Eased, Loans
    <3> QED BY <3>1, <3>2
  <2>2. ASSUME NEW k \in Positions, w.parentDebt[k] # 0
        PROVE  \E j \in CreditLines : j[1] = k[1] /\ j[2] = k[3]
    <3>1. CASE k = B BY <1>1, <3>1
    <3>2. CASE k # B
      <4>1. v.parentDebt[k] # 0
        BY <2>2, <3>2 DEF Eased
      <4> QED BY <4>1 DEF Loans
    <3> QED BY <3>1, <3>2
  <2>3. ASSUME NEW j \in CreditLines, NEW t \in Traders
        PROVE  Known(w, j, t) /\ Even(w, j, t)
    <3>1. Known(v, j, t) /\ Even(v, j, t) /\ BackedBy(j, t) \in Positions /\ OwedBy(j, t) \in Accounts
      BY LineParts DEF Loans
    <3>2. CASE j = l /\ t = u
      <4>1. Even(w, j, t)
        BY <3>2 DEF Eased
      <4>2. v.childDebt[O] \in Nat /\ w.childDebt[O] \in Nat /\ w.childDebt[O] <= v.childDebt[O]
        BY <1>1, VaultFields DEF Eased
      <4>3. /\ w.parent[O] = v.parent[O] /\ w.parentOutcome[O] = v.parentOutcome[O]
            /\ w.children[B] = v.children[B]
        BY DEF Eased
      <4>4. Known(w, j, t)
        BY <3>1, <3>2, <4>2, <4>3 DEF Known
      <4> QED BY <4>1, <4>4
    <3>3. CASE j # l \/ t # u
      <4>1. BackedBy(j, t) # B /\ OwedBy(j, t) # O
        BY <3>3, LinesApart
      <4>2. /\ w.childDebt[OwedBy(j, t)] = v.childDebt[OwedBy(j, t)]
            /\ w.parentDebt[BackedBy(j, t)] = v.parentDebt[BackedBy(j, t)]
            /\ w.parent = v.parent /\ w.parentOutcome = v.parentOutcome
            /\ w.children = v.children
        BY <3>1, <4>1 DEF Eased
      <4> QED BY <3>1, <4>2 DEF Known, Even
    <3> QED BY <3>2, <3>3
  <2> QED BY <2>1, <2>2, <2>3 DEF Loans
<1>3. ASSUME NEW k \in Markets
      PROVE  /\ Secured(w, k) >= Secured(v, k) + (IF k = m THEN 0 ELSE 0)
             /\ ~Settled(k) => Secured(w, k) = Secured(v, k) + (IF k = m THEN 0 ELSE 0)
  <2>1. LentOut(w, k) = LentOut(v, k) + (IF B[1] = k THEN w.parentDebt[B] - v.parentDebt[B] ELSE 0)
    <3>1. \A i \in Positions : i # B => w.parentDebt[i] = v.parentDebt[i]
      BY DEF Eased
    <3> HIDE DEF B
    <3> QED BY <1>1, <3>1, LentOutChange
  <2>2. /\ LentOut(v, k) \in Int /\ LentOut(w, k) \in Int
        /\ v.book[k].backing \in Int /\ v.book[k].shortfall \in Int
        /\ w.book[k].backing \in Int /\ w.book[k].shortfall \in Int
        /\ v.parentDebt[B] \in Nat /\ w.parentDebt[B] \in Nat
    BY <1>1, LentOutInt, SecuredInt, VaultFields
  <2>3. CASE k = l[1]
    <3>1. /\ w.book[k].backing + w.book[k].shortfall + w.parentDebt[B]
               >= v.book[k].backing + v.book[k].shortfall + v.parentDebt[B]
          /\ ~Settled(k) => w.book[k].backing + w.book[k].shortfall + w.parentDebt[B]
                             = v.book[k].backing + v.book[k].shortfall + v.parentDebt[B]
      BY <2>3 DEF Eased, Behind
    <3>2. B[1] = k
      BY <1>1, <2>3
    <3> HIDE DEF B
    <3> QED BY <2>1, <2>2, <3>1, <3>2 DEF Secured
  <2>4. CASE k # l[1]
    <3>1. w.book[k] = v.book[k]
      BY <2>4 DEF Eased
    <3> QED BY <1>1, <2>1, <2>2, <2>4, <3>1 DEF Secured
  <2> QED BY <2>3, <2>4
<1> QED BY <1>1, <1>2, <1>3 DEF Carries

\* Vault w is vault v with `a` credited to the book of m.
Credits(v, w, m, a) ==
    /\ w \in Vaults /\ Backed(v.book[m], w.book[m], a)
    /\ \A k \in Markets \ {m} : w.book[k] = v.book[k]
    /\ SameAccounts(v, w)

\* That is what Credited makes of it.
LEMMA CreditedBy ==
    ASSUME NEW v \in Vaults, NEW m \in Markets, NEW a \in Int, NEW w, w = Credited(v, m, a)
    PROVE  Credits(v, w, m, a)
BY CreditedBook DEF Credits

\* A vault that is left alone carries its loans along.
LEMMA SameCarries ==
    ASSUME NEW v \in Vaults, Loans(v), NEW m \in Markets
    PROVE  Carries(v, v, m, 0)
<1>1. v.book[m].backing \in Int /\ v.book[m].shortfall \in Int
  BY SecuredInt
<1>2. v.book[m].backing + v.book[m].shortfall = v.book[m].backing + v.book[m].shortfall + 0
  BY <1>1
<1>3. SameLoans(v, v)
  BY DEF SameLoans
<1> QED BY <1>2, <1>3, BooksCarry

\* settle_child_debt pays a loan down on both sides.
LEMMA SettleCarries ==
    ASSUME Matched, NEW v \in Vaults, LoansKept(v), Loans(v), NEW c \in Markets,
           NEW u \in Traders, NEW repayment \in Nat,
           NEW s, s = settle_child_debt(v, c, u, repayment), NEW m \in Markets
    PROVE  Carries(v, s.vault, m, 0)
<1> DEFINE a == <<c, u>>
           debt == v.childDebt[a]
<1>1. a \in Accounts /\ debt \in Nat
  BY VaultFields DEF Accounts
<1>2. CASE repayment <= 0 \/ debt = 0
  <2>1. s = [vault |-> v, applied |-> 0]
    BY <1>2 DEF settle_child_debt
  <2> QED BY <2>1, SameCarries
<1>3. CASE repayment > 0 /\ debt # 0
  <2>1. PICK l \in CreditLines : l[3] = c
    <3>1. a[1] \in Borrowers /\ a[1] = c
      BY <1>1, <1>3 DEF LoansKept
    <3> QED BY <3>1 DEF Borrowers
  <2> DEFINE B == BackedBy(l, u)
             O == OwedBy(l, u)
             upstream == v.parentDebt[B]
             applied == Least(repayment, Least(debt, upstream))
             cd == [v.childDebt EXCEPT ![O] = @ - applied]
             pd == [v.parentDebt EXCEPT ![B] = @ - applied]
             us == [v.used EXCEPT ![B] = Spend(@, applied)]
             x == WithDebts(v, cd, pd, us)
             cleared == WithDebts(v, [v.childDebt EXCEPT ![O] = 0], v.parentDebt, v.used)
  <2>2. /\ l[1] \in Markets /\ B \in Positions /\ O \in Accounts /\ O = a
    BY <2>1, LineParts DEF OwedBy
  <2>3. v.parent[a] = l[1] /\ v.parentOutcome[a] = l[2] /\ Even(v, l, u)
    BY <1>3, <2>2 DEF Loans, Known
  <2>4. /\ v.childDebt \in [Accounts -> Nat] /\ v.parentDebt \in [Positions -> Nat]
        /\ v.used \in [Positions -> Nat] /\ upstream \in Nat /\ v.used[B] = upstream
        /\ upstream <= debt /\ (~Settled(l[1]) => debt = upstream)
    BY <2>2, <2>3, VaultFields DEF Loans, Even
  <2>5. CASE upstream = 0
    <3>1. s.vault = cleared
      <4>1. s = [vault |-> [v EXCEPT !.childDebt[a] = 0], applied |-> 0]
        BY <1>3, <2>3, <2>5 DEF settle_child_debt, BackedBy
      <4>2. cleared = [v EXCEPT !.childDebt[a] = 0]
        BY <2>2 DEF WithDebts, Vaults
      <4> QED BY <4>1, <4>2
    <3> DEFINE zd == [v.childDebt EXCEPT ![O] = 0]
    <3>2. zd \in [Accounts -> Nat] /\ \A b \in Accounts : zd[b] <= v.childDebt[b]
      BY <2>2, <2>4
    <3>3. \A k \in Positions : v.parentDebt[k] <= v.parentDebt[k] /\ v.used[k] <= v.used[k]
      BY <2>4
    <3> HIDE DEF zd
    <3>4. PICK w : w = WithDebts(v, zd, v.parentDebt, v.used)
      OBVIOUS
    <3>5. /\ Settles(v, w, 0) /\ w.book = v.book
          /\ w.childDebt = zd /\ w.parentDebt = v.parentDebt /\ w.used = v.used
      BY <2>4, <3>2, <3>3, <3>4, DebtsWritten
    <3>6. s.vault = w
      BY <3>1, <3>4 DEF zd
    <3>7. zd[O] = 0 /\ \A b \in Accounts \ {O} : zd[b] = v.childDebt[b]
      BY <2>2, <2>4 DEF zd
    <3>8. Settled(l[1])
      BY <1>3, <2>4, <2>5
    <3> HIDE DEF B, O
    <3>9. Behind(w, l, u) = Behind(v, l, u) /\ Behind(v, l, u) \in Int
      BY <2>2, <2>4, <3>5, SecuredInt DEF Behind, B
    <3>10. Eased(v, w, l, u)
      BY <1>1, <2>2, <2>4, <2>5, <3>5, <3>7, <3>8, <3>9 DEF Eased, Even, Settles, B, O
    <3> QED BY <3>6, <3>10, EasedCarries
  <2>6. CASE upstream # 0
    <3>1. s.vault = Credited(x, l[1], applied)
      <4>1. x = [v EXCEPT !.childDebt[a] = @ - applied, !.parentDebt[B] = @ - applied,
                          !.used[B] = Spend(@, applied)]
        BY <2>2 DEF WithDebts, Vaults
      <4>2. s = [vault |-> Credited([v EXCEPT !.childDebt[a] = @ - applied,
                                              !.parentDebt[B] = @ - applied,
                                              !.used[B] = Spend(@, applied)], l[1], applied),
                 applied |-> applied]
        BY <1>3, <2>3, <2>6 DEF settle_child_debt, BackedBy
      <4> HIDE DEF x, applied
      <4> QED BY <4>1, <4>2
    <3>2. applied \in Nat /\ applied <= debt /\ applied <= upstream
      BY <1>1, <2>4 DEF Least
    <3>3. Spend(upstream, applied) = upstream - applied
      BY <2>4, <3>2 DEF Spend, Least
    <3> HIDE DEF applied, B, O
    <3>4. /\ cd \in [Accounts -> Nat] /\ cd[O] = debt - applied
          /\ \A b \in Accounts : cd[b] <= v.childDebt[b]
          /\ \A b \in Accounts \ {O} : cd[b] = v.childDebt[b]
      BY <1>1, <2>2, <2>4, <3>2
    <3>5. /\ pd \in [Positions -> Nat] /\ pd[B] = upstream - applied
          /\ \A k \in Positions : pd[k] <= v.parentDebt[k]
          /\ \A k \in Positions \ {B} : pd[k] = v.parentDebt[k]
      BY <2>2, <2>4, <3>2
    <3>6. /\ us \in [Positions -> Nat] /\ us[B] = upstream - applied
          /\ \A k \in Positions : us[k] <= v.used[k]
          /\ \A k \in Positions \ {B} : us[k] = v.used[k]
      BY <2>2, <2>4, <3>2, <3>3
    <3> HIDE DEF cd, pd, us, x, upstream
    <3>7. /\ Settles(v, x, 0) /\ x.book = v.book
          /\ x.childDebt = cd /\ x.parentDebt = pd /\ x.used = us
      BY <3>4, <3>5, <3>6, DebtsWritten DEF x
    <3>8. PICK w : w = Credited(x, l[1], applied)
      OBVIOUS
    <3>9. /\ w \in Vaults /\ Backed(x.book[l[1]], w.book[l[1]], applied)
          /\ \A k \in Markets \ {l[1]} : w.book[k] = x.book[k]
          /\ SameAccounts(x, w)
      <4>1. x \in Vaults /\ applied \in Int
        BY <3>2, <3>7 DEF Settles
      <4>2. PICK p \in Markets, n \in Int, y \in Vaults : p = l[1] /\ n = applied /\ y = x
        BY <2>2, <4>1
      <4>3. w = Credited(y, p, n)
        BY <3>8, <4>2
      <4>4. Credits(y, w, p, n)
        BY <4>3, CreditedBy
      <4> QED BY <4>2, <4>4 DEF Credits
    <3>10. /\ w.parent = v.parent /\ w.parentOutcome = v.parentOutcome
           /\ w.children = v.children /\ w.childDebt = cd /\ w.parentDebt = pd /\ w.used = us
      BY <3>7, <3>9 DEF Settles, SameAccounts, SameLoans
    <3>11. Even(w, l, u)
      BY <1>1, <2>4, <3>2, <3>4, <3>5, <3>10 DEF Even, B, O, upstream
    <3>12. Behind(w, l, u) = Behind(v, l, u) /\ Behind(v, l, u) \in Int
      <4>1. v.book[l[1]].backing \in Int /\ v.book[l[1]].shortfall \in Int
        BY <2>2, SecuredInt
      <4>2. /\ w.book[l[1]].backing + w.book[l[1]].shortfall + w.parentDebt[B]
                 = v.book[l[1]].backing + v.book[l[1]].shortfall + v.parentDebt[B]
            /\ v.book[l[1]].backing + v.book[l[1]].shortfall + v.parentDebt[B] \in Int
        BY <2>4, <3>2, <3>5, <3>7, <3>9, <3>10, <4>1 DEF Backed, upstream
      <4> QED BY <4>2 DEF Behind, B
    <3>13. Eased(v, w, l, u)
      <4>1. w.childDebt[O] <= v.childDebt[O] /\ w.parentDebt[B] = w.used[B]
        BY <2>2, <3>4, <3>5, <3>6, <3>10
      <4> QED BY <3>4, <3>5, <3>6, <3>7, <3>9, <3>10, <3>11, <3>12, <4>1 DEF Eased, B, O
    <3> QED BY <3>1, <3>8, <3>13, EasedCarries
  <2> QED BY <2>5, <2>6
<1> QED BY <1>1, <1>2, <1>3

\* Clearing the debts of a lone child is one turn of the loop,
LEMMA LoneChildCleared ==
    ASSUME NEW base, NEW c, NEW u, NEW key
    PROVE  ClearAll(base, <<c>>, u, key) = Cleared(base, c, u, key)
<1> DEFINE seq == <<c>>
<1>1. DOMAIN seq = 1 .. 1 /\ seq[1] = c
  OBVIOUS
<1> HIDE DEF seq
<1>2. PICK g : Clears(base, seq, u, key, 1, g)
  BY <1>1, ClearingLoop
<1>3. Max(1 .. 1) = 1
  <2>1. (1 .. 1) \in SUBSET (1 .. 1) /\ 1 .. 1 # {}
    OBVIOUS
  <2>2. Max(1 .. 1) \in 1 .. 1
    BY <2>1, MaxIsMember
  <2> QED BY <2>2
<1>4. \A s \in SUBSET (1 .. 1) :
        g[s] = IF s = {} THEN base ELSE Cleared(g[s \ {Max(s)}], seq[Max(s)], u, key)
  BY <1>2, Zenon DEF Clears, Looping, Stepped
<1>5. g[{}] = base
  BY <1>4
<1>6. g[1 .. 1] = Cleared(g[(1 .. 1) \ {1}], seq[1], u, key)
  <2>1. 1 .. 1 # {} /\ (1 .. 1) \in SUBSET (1 .. 1)
    OBVIOUS
  <2> QED BY <1>3, <1>4, <2>1, Zenon
<1>7. (1 .. 1) \ {1} = {}
  OBVIOUS
<1>8. ClearAll(base, seq, u, key) = g[1 .. 1]
  BY <1>2, Zenon DEF Clears
<1> QED BY <1>1, <1>5, <1>6, <1>7, <1>8 DEF seq

\* and so is settling them.
LEMMA LoneChildSettled ==
    ASSUME NEW base, NEW c, NEW u
    PROVE  SettleAll(base, <<c>>, u) = SettledNext(base, c, u)
<1> DEFINE seq == <<c>>
<1>1. DOMAIN seq = 1 .. 1 /\ seq[1] = c
  OBVIOUS
<1> HIDE DEF seq
<1>2. PICK g : SettlesBy(base, seq, u, 1, g)
  BY <1>1, SettlingLoop
<1>3. Max(1 .. 1) = 1
  <2>1. (1 .. 1) \in SUBSET (1 .. 1) /\ 1 .. 1 # {}
    OBVIOUS
  <2>2. Max(1 .. 1) \in 1 .. 1
    BY <2>1, MaxIsMember
  <2> QED BY <2>2
<1>4. \A s \in SUBSET (1 .. 1) :
        g[s] = IF s = {} THEN base ELSE SettledNext(g[s \ {Max(s)}], seq[Max(s)], u)
  <2>1. "settle" # "clear"
    OBVIOUS
  <2> QED BY <1>2, <2>1, Zenon DEF SettlesBy, Looping, Stepped
<1>5. g[{}] = base
  BY <1>4
<1>6. g[1 .. 1] = SettledNext(g[(1 .. 1) \ {1}], seq[1], u)
  <2>1. 1 .. 1 # {} /\ (1 .. 1) \in SUBSET (1 .. 1)
    OBVIOUS
  <2> QED BY <1>3, <1>4, <2>1, Zenon
<1>7. (1 .. 1) \ {1} = {}
  OBVIOUS
<1>8. SettleAll(base, seq, u) = g[1 .. 1]
  BY <1>2, Zenon DEF SettlesBy
<1> QED BY <1>1, <1>5, <1>6, <1>7, <1>8 DEF seq

\* resolve_parent_default writes off a loan on both sides.
LEMMA DefaultCarries ==
    ASSUME Matched, NEW v \in Vaults, Loans(v), NEW l \in CreditLines, NEW u \in Traders,
           NEW total \in Nat, v.parentDebt[BackedBy(l, u)] <= total,
           total <= v.childDebt[OwedBy(l, u)],
           NEW w, w = resolve_parent_default(v, l[1], u, l[2], total), NEW m \in Markets
    PROVE  Carries(v, w, m, 0) /\ w.parentDebt[BackedBy(l, u)] = 0
<1> DEFINE B == BackedBy(l, u)
           O == OwedBy(l, u)
<1>1. /\ l[1] \in Lenders /\ l[1] \in Markets /\ B \in Positions /\ O \in Accounts
      /\ l[2] \in Sides /\ l[3] \in Markets
  BY LineParts
<1>2. /\ v.childDebt \in [Accounts -> Nat] /\ v.parentDebt \in [Positions -> Nat]
      /\ v.used \in [Positions -> Nat] /\ v.parentDebt[B] \in Nat /\ v.childDebt[O] \in Nat
  BY <1>1, VaultFields
<1>3. CASE total = 0
  <2>1. w = v
    <3>1. total <= 0
      BY <1>3
    <3> QED BY <3>1 DEF resolve_parent_default
  <2>2. v.parentDebt[B] = 0
    BY <1>2, <1>3
  <2>3. Carries(v, v, m, 0)
    BY SameCarries
  <2> QED BY <2>1, <2>2, <2>3
<1>4. CASE total # 0
  <2> DEFINE booked == Defaulted(v, l[1], B, total)
             base == [vault |-> booked, remaining |-> total]
             cd == [v.childDebt EXCEPT ![O] = @ - total]
             us == [v.used EXCEPT ![B] = 0]
  <2>1. v.children[B] = <<l[3]>> /\ v.used[B] = v.parentDebt[B] /\ Even(v, l, u)
    <3>1. v.childDebt[O] # 0
      BY <1>2, <1>4
    <3>2. Known(v, l, u) /\ Even(v, l, u) /\ v.used[B] = v.parentDebt[B]
      BY <1>1 DEF Loans
    <3> QED BY <3>1, <3>2 DEF Known
  <2>2. w = Cleared(base, l[3], u, B).vault
    <3>1. ~(total <= 0)
      BY <1>4
    <3>2. w = ClearAll(base, v.children[B], u, B).vault
      BY <3>1, Zenon DEF resolve_parent_default, ClearAll, BackedBy
    <3> QED BY <2>1, <3>2, LoneChildCleared, Zenon
  <2>3. /\ booked \in Vaults /\ booked.parent = v.parent
        /\ booked.parentOutcome = v.parentOutcome /\ booked.children = v.children
        /\ booked.parentDebt = [v.parentDebt EXCEPT ![B] = 0]
        /\ booked.childDebt = v.childDebt /\ booked.used = v.used
        /\ \A k \in Markets \ {l[1]} : booked.book[k] = v.book[k]
        /\ booked.book[l[1]].backing + booked.book[l[1]].shortfall
             = v.book[l[1]].backing + v.book[l[1]].shortfall + total
    <3>0. PICK p \in Lenders, key \in Positions : p = l[1] /\ key = B
      BY <1>1, Zenon
    <3>1. PICK y : y = Defaulted(v, p, key, total)
      OBVIOUS
    <3>2. /\ Settles(v, y, 0) /\ y.parentDebt = [v.parentDebt EXCEPT ![key] = 0]
          /\ y.childDebt = v.childDebt /\ y.used = v.used
          /\ \A k \in Markets \ {p} : y.book[k] = v.book[k]
          /\ y.book[p].backing + y.book[p].shortfall
               = v.book[p].backing + v.book[p].shortfall + total
      BY <3>1, DefaultBooked
    <3>3. booked = y
      BY <3>0, <3>1
    <3> HIDE DEF booked
    <3> QED BY <3>0, <3>2, <3>3 DEF Settles
  <2> HIDE DEF booked
  <2>4. w = WithDebts(booked, cd, booked.parentDebt, us)
    <3>1. Least(v.childDebt[O], total) = total
      BY <1>2 DEF Least
    <3>2. Spend(v.used[B], total) = 0
      BY <1>2, <2>1 DEF Spend, Least
    <3>3. w = [booked EXCEPT !.childDebt[O] = @ - total, !.used[B] = Spend(@, total)]
      <4>1. O = <<l[3], u>>
        BY DEF OwedBy
      <4>2. base.vault = booked /\ base.remaining = total
        OBVIOUS
      <4>3. Least(base.vault.childDebt[O], base.remaining) = total
        BY <2>3, <3>1, <4>2
      <4> HIDE DEF base
      <4> QED BY <2>2, <4>1, <4>2, <4>3 DEF Cleared
    <3> QED BY <1>1, <2>3, <3>2, <3>3 DEF WithDebts, Vaults
  <2> HIDE DEF B, O
  <2>5. /\ cd \in [Accounts -> Nat] /\ cd[O] = v.childDebt[O] - total
        /\ \A b \in Accounts : cd[b] <= v.childDebt[b]
        /\ \A b \in Accounts \ {O} : cd[b] = v.childDebt[b]
    BY <1>1, <1>2 DEF O
  <2>6. /\ us \in [Positions -> Nat] /\ us[B] = 0
        /\ \A k \in Positions : us[k] <= v.used[k]
        /\ \A k \in Positions \ {B} : us[k] = v.used[k]
    BY <1>1, <1>2
  <2>7. /\ booked.parentDebt \in [Positions -> Nat] /\ booked.parentDebt[B] = 0
        /\ \A k \in Positions \ {B} : booked.parentDebt[k] = v.parentDebt[k]
        /\ \A k \in Positions : booked.parentDebt[k] <= booked.parentDebt[k]
    BY <1>1, <1>2, <2>3
  <2> HIDE DEF cd, us
  <2>8. /\ Settles(booked, w, 0) /\ w.book = booked.book
        /\ w.childDebt = cd /\ w.parentDebt = booked.parentDebt /\ w.used = us
    <3>1. \A b \in Accounts : cd[b] <= booked.childDebt[b]
      BY <2>3, <2>5
    <3>2. \A k \in Positions : us[k] <= booked.used[k]
      BY <2>3, <2>6
    <3> QED BY <2>3, <2>4, <2>5, <2>6, <2>7, <3>1, <3>2, DebtsWritten
  <2>9. /\ w \in Vaults /\ w.parent = v.parent /\ w.parentOutcome = v.parentOutcome
        /\ w.children = v.children /\ w.parentDebt[B] = 0 /\ w.used[B] = 0
        /\ w.childDebt[O] = v.childDebt[O] - total
    BY <2>3, <2>5, <2>6, <2>7, <2>8 DEF Settles
  <2>10. Even(w, l, u) /\ w.childDebt[O] <= v.childDebt[O]
    BY <1>2, <2>1, <2>9 DEF Even, B, O
  <2>11. /\ Behind(w, l, u) >= Behind(v, l, u)
         /\ ~Settled(l[1]) => Behind(w, l, u) = Behind(v, l, u)
    <3>1. v.book[l[1]].backing \in Int /\ v.book[l[1]].shortfall \in Int
      BY <1>1, SecuredInt
    <3>2. ~Settled(l[1]) => total = v.parentDebt[B]
      BY <1>2, <2>1 DEF Even, B, O
    <3> QED BY <1>2, <2>3, <2>8, <2>9, <3>1, <3>2 DEF Behind, B
  <2>12. Eased(v, w, l, u)
    BY <2>3, <2>5, <2>6, <2>7, <2>8, <2>9, <2>10, <2>11 DEF Eased, B, O
  <2> QED BY <2>9, <2>12, EasedCarries DEF B
<1> QED BY <1>3, <1>4

\* A credit to the book of a market changes what is secured in it.
LEMMA CreditCarries ==
    ASSUME NEW v \in Vaults, Loans(v), NEW m \in Markets, NEW a \in Int,
           NEW w, w = Credited(v, m, a)
    PROVE  Carries(v, w, m, a)
<1>1. /\ w \in Vaults /\ Backed(v.book[m], w.book[m], a)
      /\ \A k \in Markets \ {m} : w.book[k] = v.book[k]
      /\ SameLoans(v, w)
  BY CreditedBook DEF SameAccounts
<1>2. v.book[m].backing \in Int /\ v.book[m].shortfall \in Int
  BY SecuredInt
<1>3. w.book[m].backing + w.book[m].shortfall = v.book[m].backing + v.book[m].shortfall + a
  BY <1>1, <1>2 DEF Backed
<1>4. \A k \in Markets \ {m} : /\ w.book[k].backing = v.book[k].backing
                               /\ w.book[k].shortfall = v.book[k].shortfall
  BY <1>1
<1> QED BY <1>1, <1>3, <1>4, BooksCarry

\* A step that leaves the books and the loans alone.
LEMMA StillCarries ==
    ASSUME NEW v \in Vaults, Loans(v), NEW w \in Vaults, SameLoans(v, w),
           \A k \in Markets : /\ w.book[k].backing = v.book[k].backing
                              /\ w.book[k].shortfall = v.book[k].shortfall,
           NEW m \in Markets
    PROVE  Carries(v, w, m, 0)
<1>1. v.book[m].backing \in Int /\ v.book[m].shortfall \in Int
  BY SecuredInt
<1>2. w.book[m].backing + w.book[m].shortfall = v.book[m].backing + v.book[m].shortfall + 0
  BY <1>1
<1>3. \A k \in Markets \ {m} : /\ w.book[k].backing = v.book[k].backing
                               /\ w.book[k].shortfall = v.book[k].shortfall
  OBVIOUS
<1> QED BY <1>2, <1>3, BooksCarry

\* withhold_parent_debt pays a loan out of the claim of the position behind it,
\* or writes it off.
LEMMA WithheldCarries ==
    ASSUME Matched, NEW v \in Vaults, Loans(v), NEW m \in Markets, Settled(m),
           NEW u \in Traders, NEW o \in Sides, NEW gross \in Nat, NEW claim \in Nat,
           claim <= gross,
           NEW own, own = withhold_parent_debt(v, m, u, o, gross, claim)
    PROVE  Carries(v, own.vault, m, 0)
<1> DEFINE key == <<m, u, o>>
           repaid == Least(v.parentDebt[key], claim)
           unpaid == v.parentDebt[key] - repaid
           pd == [v.parentDebt EXCEPT ![key] = unpaid]
           us == [v.used EXCEPT ![key] = Spend(@, repaid)]
           x == WithDebts(v, v.childDebt, pd, us)
           kept == Credited(x, m, repaid)
           w == IF gross = 0 THEN resolve_parent_default(kept, m, u, o, unpaid) ELSE kept
<1>1. key \in Positions /\ key[1] = m /\ key[2] = u /\ key[3] = o
  BY DEF Positions
<1>2. /\ v.parentDebt \in [Positions -> Nat] /\ v.used \in [Positions -> Nat]
      /\ v.childDebt \in [Accounts -> Nat] /\ v.used[key] = v.parentDebt[key]
  BY <1>1, VaultFields DEF Loans
<1>3. /\ repaid \in Nat /\ unpaid \in Nat /\ unpaid <= v.parentDebt[key]
      /\ Spend(v.used[key], repaid) = unpaid
      /\ gross = 0 => unpaid = v.parentDebt[key]
      /\ v.parentDebt[key] = 0 => repaid = 0 /\ unpaid = 0
  <2>1. v.parentDebt[key] \in Nat
    BY <1>1, <1>2
  <2> QED BY <1>2, <2>1 DEF Least, Spend
<1>4. own.vault = w
  <2>1. x = [v EXCEPT !.parentDebt[key] = unpaid, !.used[key] = Spend(@, repaid)]
    BY DEF WithDebts, Vaults
  <2> HIDE DEF x
  <2> QED BY <2>1 DEF withhold_parent_debt
<1> HIDE DEF repaid, unpaid
<1>5. /\ us \in [Positions -> Nat] /\ us[key] = unpaid
      /\ \A k \in Positions : us[k] <= v.used[k]
      /\ \A k \in Positions \ {key} : us[k] = v.used[k]
  BY <1>1, <1>2, <1>3
<1>6. /\ pd \in [Positions -> Nat] /\ pd[key] = unpaid
      /\ \A k \in Positions : pd[k] <= v.parentDebt[k]
      /\ \A k \in Positions \ {key} : pd[k] = v.parentDebt[k]
  BY <1>1, <1>2, <1>3
<1> HIDE DEF pd, us, key
<1>7. /\ Settles(v, x, 0) /\ x.book = v.book
      /\ x.childDebt = v.childDebt /\ x.parentDebt = pd /\ x.used = us
  <2>1. \A a \in Accounts : v.childDebt[a] <= v.childDebt[a]
    BY <1>2
  <2> HIDE DEF x
  <2> QED BY <1>2, <1>5, <1>6, <2>1, DebtsWritten DEF x
<1> HIDE DEF x
<1>8. /\ kept \in Vaults /\ Backed(v.book[m], kept.book[m], repaid)
      /\ \A k \in Markets \ {m} : kept.book[k] = v.book[k]
      /\ SameLoans(x, kept)
  <2>1. x \in Vaults /\ repaid \in Int
    BY <1>3, <1>7 DEF Settles
  <2>2. PICK y \in Vaults, n \in Int : y = x /\ n = repaid
    BY <2>1
  <2>3. PICK z : z = Credited(y, m, n)
    OBVIOUS
  <2>4. /\ z \in Vaults /\ SameAccounts(y, z) /\ Backed(y.book[m], z.book[m], n)
        /\ \A k \in Markets \ {m} : z.book[k] = y.book[k]
    <3>1. Credits(y, z, m, n)
      BY <2>3, CreditedBy
    <3> QED BY <3>1 DEF Credits
  <2>5. kept = z
    BY <2>2, <2>3
  <2> HIDE DEF kept
  <2> QED BY <1>7, <2>2, <2>4, <2>5 DEF SameAccounts
<1>9. CASE v.parentDebt[key] = 0
  <2>1. pd = v.parentDebt /\ us = v.used
    BY <1>1, <1>2, <1>3, <1>9 DEF pd, us
  <2>2. x = v
    BY <2>1 DEF x, WithDebts, Vaults
  <2>3. kept = v
    BY <1>3, <1>9, <2>2, CreditNothing
  <2>4. w = v
    <3>1. unpaid <= 0
      BY <1>3, <1>9
    <3> QED BY <2>3, <3>1 DEF resolve_parent_default
  <2> QED BY <1>4, <2>4, SameCarries
<1>10. CASE v.parentDebt[key] # 0
  <2>1. PICK l \in CreditLines : l[1] = m /\ l[2] = o
    BY <1>1, <1>10 DEF Loans
  <2>2. key = BackedBy(l, u)
    BY <2>1 DEF key, BackedBy
  <2>3. Eased(v, kept, l, u)
    <3>1. Even(v, l, u)
      BY DEF Loans
    <3>2. /\ kept.parent = v.parent /\ kept.parentOutcome = v.parentOutcome
          /\ kept.children = v.children /\ kept.childDebt = v.childDebt
          /\ kept.parentDebt = pd /\ kept.used = us
      BY <1>7, <1>8 DEF SameLoans, Settles
    <3>3. OwedBy(l, u) \in Accounts
      BY LineParts
    <3>4. v.childDebt[OwedBy(l, u)] \in Nat /\ v.parentDebt[key] \in Nat
      BY <1>1, <1>2, <3>3
    <3>5. Even(kept, l, u)
      BY <1>3, <1>6, <2>1, <2>2, <3>1, <3>2, <3>4 DEF Even
    <3> HIDE DEF kept
    <3>6. Behind(kept, l, u) = Behind(v, l, u) /\ Behind(v, l, u) \in Int
      <4>1. v.book[m].backing \in Int /\ v.book[m].shortfall \in Int
        BY SecuredInt
      <4>2. unpaid + repaid = v.parentDebt[key]
        BY <3>4, <1>3 DEF unpaid
      <4> QED BY <1>3, <1>6, <1>8, <2>1, <2>2, <3>2, <3>4, <4>1, <4>2 DEF Behind, Backed
    <3> QED BY <1>5, <1>6, <1>8, <2>1, <2>2, <3>2, <3>4, <3>5, <3>6 DEF Eased
  <2> HIDE DEF kept
  <2>4. Carries(v, kept, m, 0)
    BY <2>3, EasedCarries
  <2>5. CASE gross # 0
    BY <1>4, <2>4, <2>5
  <2>6. CASE gross = 0
    <3>1. w = resolve_parent_default(kept, l[1], u, l[2], unpaid)
      BY <2>1, <2>6
    <3>2. kept.parentDebt[BackedBy(l, u)] = unpaid
      BY <1>6, <1>7, <1>8, <2>2 DEF SameLoans
    <3>3. Loans(kept)
      BY <2>4 DEF Carries
    <3>4. unpaid <= kept.childDebt[OwedBy(l, u)]
      BY <3>2, <3>3 DEF Loans, Even
    <3> HIDE DEF w
    <3>5. Carries(kept, w, m, 0)
      <4>1. kept.parentDebt[BackedBy(l, u)] <= unpaid
        BY <1>3, <3>2
      <4> QED BY <1>3, <1>8, <3>1, <3>3, <3>4, <4>1, DefaultCarries
    <3>6. Carries(v, w, m, 0 + 0)
      BY <2>4, <3>5, CarriesTwice
    <3> QED BY <1>4, <3>6
  <2> QED BY <2>5, <2>6
<1> QED BY <1>9, <1>10

\* The record of a loan raises both sides of its line.
LEMMA LentCarries ==
    ASSUME Matched, NEW v \in Vaults, Loans(v), NEW l \in CreditLines, NEW u \in Traders,
           NEW amount \in Nat, v.parent[OwedBy(l, u)] \in {NoParent, l[1]},
           NEW x, x = Lent(v, u, l[1], l[2], l[3], amount)
    PROVE  Carries(v, x, l[1], amount) /\ x.book = v.book
<1> DEFINE B == BackedBy(l, u)
           O == OwedBy(l, u)
<1>1. /\ l[1] \in Markets /\ l[2] \in Sides /\ l[3] \in Markets
      /\ B \in Positions /\ O \in Accounts /\ B[1] = l[1] /\ B[3] = l[2]
      /\ B = <<l[1], u, l[2]>> /\ O = <<l[3], u>> /\ l[1] # NoParent
  BY LineParts, LinesInMarkets DEF BackedBy, OwedBy
<1>2. /\ v.childDebt \in [Accounts -> Nat] /\ v.parentDebt \in [Positions -> Nat]
      /\ v.used \in [Positions -> Nat] /\ v.parentDebt[B] \in Nat /\ v.childDebt[O] \in Nat
      /\ v.children \in [Positions -> Seq(Markets)]
      /\ v.parent \in [Accounts -> Markets \cup {NoParent}]
      /\ v.parentOutcome \in [Accounts -> Outcomes]
  BY <1>1, VaultFields
<1>3. x \in Vaults /\ LentBook(v, u, l[1], l[2], l[3], amount, x)
  <2>1. PICK p \in Markets, po \in Sides, c \in Markets : p = l[1] /\ po = l[2] /\ c = l[3]
    BY <1>1, Zenon
  <2>2. x = Lent(v, u, p, po, c, amount)
    BY <2>1
  <2>3. x \in Vaults /\ LentBook(v, u, p, po, c, amount, x)
    BY <2>2, LentFields
  <2> QED BY <2>1, <2>3
<1> HIDE DEF B, O
<1>4. /\ x.used = [v.used EXCEPT ![B] = @ + amount]
      /\ x.parentDebt = [v.parentDebt EXCEPT ![B] = @ + amount]
      /\ x.childDebt = [v.childDebt EXCEPT ![O] = @ + amount]
      /\ x.parent = [v.parent EXCEPT ![O] = l[1]]
      /\ x.parentOutcome = [v.parentOutcome EXCEPT ![O] = IF v.parent[O] = NoParent THEN l[2] ELSE @]
      /\ x.children = [v.children EXCEPT ![B] = record_child_market(@, l[3])]
      /\ x.book = v.book
  BY <1>1, <1>3, Zenon DEF LentBook
<1>5. Known(v, l, u) /\ Even(v, l, u) /\ v.parentDebt[B] = v.used[B]
  BY <1>1 DEF Loans
<1>6. Known(x, l, u)
  <2>1. x.parent[O] = l[1]
    BY <1>1, <1>2, <1>4
  <2>2. x.parentOutcome[O] = IF v.parent[O] = NoParent THEN l[2] ELSE v.parentOutcome[O]
    BY <1>1, <1>2, <1>4
  <2>3. x.parentOutcome[O] = l[2]
    BY <1>1, <1>5, <2>2 DEF Known, O
  <2>4. x.children[B] = record_child_market(v.children[B], l[3])
    BY <1>1, <1>2, <1>4
  <2>5. CASE v.children[B] = <<>>
    <3>1. l[3] \notin ToSet(<<>>)
      BY DEF ToSet
    <3>2. x.children[B] = Append(<<>>, l[3])
      BY <2>4, <2>5, <3>1 DEF record_child_market
    <3>3. Append(<<>>, l[3]) = <<l[3]>>
      OBVIOUS
    <3> QED BY <2>1, <2>3, <3>2, <3>3 DEF Known, O, B
  <2>6. CASE v.children[B] = <<l[3]>>
    <3>1. l[3] \in ToSet(<<l[3]>>)
      <4> DEFINE seq == <<l[3]>>
      <4>1. seq[1] = l[3] /\ 1 \in DOMAIN seq
        OBVIOUS
      <4> HIDE DEF seq
      <4>2. l[3] \in ToSet(seq)
        BY <4>1 DEF ToSet
      <4> QED BY <4>2 DEF seq
    <3>2. x.children[B] = <<l[3]>>
      BY <2>4, <2>6, <3>1 DEF record_child_market
    <3> QED BY <2>1, <2>3, <3>2 DEF Known, O, B
  <2> QED BY <1>5, <2>5, <2>6 DEF Known, B
<1>7. Even(x, l, u)
  <2>1. /\ x.childDebt[O] = v.childDebt[O] + amount
        /\ x.parentDebt[B] = v.parentDebt[B] + amount
    BY <1>1, <1>2, <1>4
  <2> QED BY <1>2, <1>5, <2>1 DEF Even, B, O
<1>8. Loans(x)
  <2>1. ASSUME NEW k \in Positions
        PROVE  /\ x.parentDebt[k] = x.used[k]
               /\ x.parentDebt[k] # 0 => \E j \in CreditLines : j[1] = k[1] /\ j[2] = k[3]
    <3>1. CASE k = B
      <4>1. x.parentDebt[B] = x.used[B]
        BY <1>1, <1>2, <1>4, <1>5
      <4> QED BY <1>1, <3>1, <4>1
    <3>2. CASE k # B
      <4>1. x.parentDebt[k] = v.parentDebt[k] /\ x.used[k] = v.used[k]
        BY <1>2, <1>4, <3>2
      <4> QED BY <4>1 DEF Loans
    <3> QED BY <3>1, <3>2
  <2>2. ASSUME NEW j \in CreditLines, NEW t \in Traders
        PROVE  Known(x, j, t) /\ Even(x, j, t)
    <3>1. CASE j = l /\ t = u
      BY <1>6, <1>7, <3>1
    <3>2. CASE j # l \/ t # u
      <4>1. BackedBy(j, t) # B /\ OwedBy(j, t) # O
        BY <3>2, LinesApart DEF B, O
      <4>2. BackedBy(j, t) \in Positions /\ OwedBy(j, t) \in Accounts
        BY LineParts
      <4>3. /\ x.childDebt[OwedBy(j, t)] = v.childDebt[OwedBy(j, t)]
            /\ x.parentDebt[BackedBy(j, t)] = v.parentDebt[BackedBy(j, t)]
            /\ x.parent[OwedBy(j, t)] = v.parent[OwedBy(j, t)]
            /\ x.parentOutcome[OwedBy(j, t)] = v.parentOutcome[OwedBy(j, t)]
            /\ x.children[BackedBy(j, t)] = v.children[BackedBy(j, t)]
        BY <1>2, <1>4, <4>1, <4>2
      <4>4. Known(v, j, t) /\ Even(v, j, t)
        BY DEF Loans
      <4> QED BY <4>3, <4>4 DEF Known, Even
    <3> QED BY <3>1, <3>2
  <2> QED BY <2>1, <2>2 DEF Loans
<1>9. ASSUME NEW k \in Markets
      PROVE  Secured(x, k) = Secured(v, k) + (IF k = l[1] THEN amount ELSE 0)
  <2>1. LentOut(x, k) = LentOut(v, k) + (IF B[1] = k THEN x.parentDebt[B] - v.parentDebt[B] ELSE 0)
    <3>1. \A i \in Positions : i # B => x.parentDebt[i] = v.parentDebt[i]
      BY <1>2, <1>4
    <3> QED BY <1>1, <1>3, <3>1, LentOutChange
  <2>2. x.parentDebt[B] = v.parentDebt[B] + amount
    BY <1>1, <1>2, <1>4
  <2>3. LentOut(v, k) \in Int /\ v.book[k].backing \in Int /\ v.book[k].shortfall \in Int
    BY LentOutInt, SecuredInt
  <2>4. x.book[k] = v.book[k]
    BY <1>4
  <2>5. CASE k = l[1]
    <3>1. LentOut(x, k) = LentOut(v, k) + amount
      BY <1>1, <1>2, <2>1, <2>2, <2>3, <2>5
    <3> QED BY <2>3, <2>4, <2>5, <3>1 DEF Secured
  <2>6. CASE k # l[1]
    <3>1. LentOut(x, k) = LentOut(v, k)
      BY <1>1, <2>1, <2>3, <2>6
    <3> QED BY <2>3, <2>4, <2>6, <3>1 DEF Secured
  <2> QED BY <2>5, <2>6
<1>10. amount \in Int /\ Carries(v, x, l[1], amount)
  BY <1>1, <1>3, <1>8, <1>9, CarriesExactly
<1> QED BY <1>4, <1>10

\* open_child_credit_for_trade moves what was lent to the book of the child.
LEMMA OpenedCarries ==
    ASSUME Matched, NEW v \in Vaults, Loans(v), NEW l \in CreditLines, NEW u \in Traders,
           NEW amount \in Nat, CanOpenCredit(v, u, l[1], l[2], l[3], amount),
           NEW w, w = open_child_credit_for_trade(v, u, l[1], l[2], l[3], amount)
    PROVE  Carries(v, w, l[3], amount)
<1>1. l[1] \in Markets /\ l[3] \in Markets
  BY LineParts
<1>2. PICK x : x = Lent(v, u, l[1], l[2], l[3], amount)
  OBVIOUS
<1>3. Carries(v, x, l[1], amount)
  <2>1. v.parent[OwedBy(l, u)] \in {NoParent, l[1]}
    BY DEF CanOpenCredit, OwedBy
  <2> QED BY <1>2, <2>1, LentCarries
<1>4. PICK p \in Markets, c \in Markets : p = l[1] /\ c = l[3]
  BY <1>1
<1>5. PICK y : y = Credited(x, p, 0 - amount)
  OBVIOUS
<1>6. w = Credited(y, c, amount)
  BY <1>2, <1>4, <1>5 DEF open_child_credit_for_trade
<1>7. x \in Vaults /\ Loans(x) /\ Carries(v, x, p, amount)
  BY <1>3, <1>4 DEF Carries
<1>8. 0 - amount \in Int /\ amount + (0 - amount) = 0
  OBVIOUS
<1>9. Carries(x, y, p, 0 - amount)
  BY <1>5, <1>7, <1>8, CreditCarries
<1>10. Carries(v, y, p, 0)
  <2>1. Carries(v, y, p, amount + (0 - amount))
    BY <1>7, <1>8, <1>9, CarriesTwice
  <2> QED BY <1>8, <2>1
<1>11. Carries(v, y, c, 0) /\ y \in Vaults /\ Loans(y)
  BY <1>10, CarriesAny DEF Carries
<1>12. Carries(y, w, c, amount)
  BY <1>6, <1>11, CreditCarries
<1>13. Carries(v, w, c, 0 + amount)
  BY <1>11, <1>12, CarriesTwice
<1> QED BY <1>4, <1>13

\* release_trade_payout takes the price of a position out of a book.
LEMMA ReleaseCarries ==
    ASSUME NEW v \in Vaults, BooksKept(v), LoansKept(v), Loans(v), NEW u \in Traders,
           NEW m \in Markets, NEW o \in Sides, NEW sold \in Nat, NEW a \in Nat,
           HasBacking(v, m, a), NEW w, w = release_trade_payout(v, u, m, o, sold, a)
    PROVE  Carries(v, w, m, 0 - a) /\ SameLoans(v, w) /\ LoansKept(w)
<1>1. /\ w \in Vaults /\ LoansKept(w) /\ SameLoans(v, w)
      /\ Backed(v.book[m], w.book[m], 0 - a)
      /\ \A k \in Markets \ {m} : w.book[k] = v.book[k]
  <2>1. /\ Booked(v, w, m, 0 - a, 0, 0 - a) /\ SameLoans(v, w)
        /\ Backed(v.book[m], w.book[m], 0 - a)
        /\ \A k \in Markets \ {m} : w.book[k] = v.book[k]
    <3>1. Booked(v, w, m, 0 - a, 0, 0 - a)
      BY ReleaseBooked
    <3>2. SameLoans(v, w)
      BY ReleaseBooked
    <3>3. Backed(v.book[m], w.book[m], 0 - a)
      BY ReleaseBooked
    <3>4. \A k \in Markets \ {m} : w.book[k] = v.book[k]
      <4>1. PICK n, y : n \in Int /\ n = 0 - a /\ y = Credited(v, m, n)
        OBVIOUS
      <4>2. Credits(v, y, m, n)
        BY <4>1, CreditedBy
      <4>3. w = [y EXCEPT !.stake[<<m, u, o>>] = Spend(@, sold)]
        BY <4>1, Zenon DEF release_trade_payout
      <4>4. w.book = y.book
        BY <4>2, <4>3 DEF Credits, Vaults
      <4> QED BY <4>2, <4>4 DEF Credits
    <3> QED BY <3>1, <3>2, <3>3, <3>4
  <2> QED BY <2>1 DEF Booked
<1>2. v.book[m].backing \in Int /\ v.book[m].shortfall \in Int
  BY SecuredInt
<1>3. w.book[m].backing + w.book[m].shortfall
        = v.book[m].backing + v.book[m].shortfall + (0 - a)
  BY <1>1, <1>2 DEF Backed
<1>4. \A k \in Markets \ {m} : /\ w.book[k].backing = v.book[k].backing
                               /\ w.book[k].shortfall = v.book[k].shortfall
  BY <1>1
<1>5. 0 - a \in Int
  OBVIOUS
<1> QED BY <1>1, <1>3, <1>4, <1>5, BooksCarry

-----------------------------------------------------------------------------
(* Whole entry points of the vault.                                         *)

\* The liquidator's bonus is a part of the proceeds.
LEMMA BonusBounds ==
    ASSUME NEW a \in Nat
    PROVE  bps(a, LIQUIDATION_BONUS_BPS) \in Nat /\ bps(a, LIQUIDATION_BONUS_BPS) <= a
BY ShareBounds DEF LIQUIDATION_BONUS_BPS

\* liquidate_release settles the loans behind the position, or writes them off.
LEMMA LiquidationCarries ==
    ASSUME Matched, NEW v \in Vaults, BooksKept(v), LoansKept(v), Loans(v), NEW u \in Traders,
           NEW m \in Markets, NEW o \in Sides, v.used[<<m, u, o>>] # 0,
           NEW sold \in Nat, NEW proceeds \in Nat, HasBacking(v, m, proceeds),
           NEW r, r = liquidate_release(v, u, m, o, sold, proceeds)
    PROVE  Carries(v, r.vault, m, 0 - proceeds) /\ r.vault.parentDebt[<<m, u, o>>] = 0
<1> DEFINE key == <<m, u, o>>
           bonus == bps(proceeds, LIQUIDATION_BONUS_BPS)
           x == Extracted(v, u, m, o, sold, proceeds)
           base == [vault |-> x, pool |-> proceeds - bonus]
           s == SettleAll(base, v.children[key], u)
           n == s.vault.used[key]
           w == resolve_parent_default(s.vault, m, u, o, n)
<1>1. bonus \in Nat /\ bonus <= proceeds /\ proceeds - bonus \in Nat
  <2>1. bonus \in Nat /\ bonus <= proceeds
    BY BonusBounds
  <2> HIDE DEF bonus
  <2> QED BY <2>1
<1>2. r.vault = w
  <2>1. r = [bonus |-> bonus, remainder |-> s.pool, vault |-> w]
    BY Zenon DEF liquidate_release, SettleAll
  <2> HIDE DEF bonus, s, w
  <2> QED BY <2>1
<1> HIDE DEF bonus
<1>3. key \in Positions /\ key[1] = m /\ key[2] = u /\ key[3] = o
  BY DEF Positions
<1>4. Carries(v, x, m, 0 - proceeds) /\ SameLoans(v, x) /\ LoansKept(x)
  BY ReleaseCarries DEF Extracted
<1> HIDE DEF x
<1>5. x \in Vaults /\ Loans(x)
  BY <1>4 DEF Carries
<1>6. PICK l \in CreditLines : l[1] = m /\ l[2] = o
  BY <1>3 DEF Loans
<1>7. key = BackedBy(l, u) /\ l[3] \in Markets
  BY <1>6, LineParts DEF BackedBy
<1>8. v.children[key] = <<l[3]>>
  <2>1. Known(v, l, u) /\ Even(v, l, u) /\ v.parentDebt[key] = v.used[key]
    BY <1>3 DEF Loans
  <2>2. OwedBy(l, u) \in Accounts
    BY LineParts
  <2>3. v.parentDebt[key] \in Nat /\ v.childDebt[OwedBy(l, u)] \in Nat
    BY <1>3, <2>2, VaultFields
  <2>4. v.childDebt[OwedBy(l, u)] # 0
    BY <1>7, <2>1, <2>3 DEF Even
  <2> QED BY <1>7, <2>1, <2>4 DEF Known
<1>9. s.vault = settle_child_debt(x, l[3], u, proceeds - bonus).vault
  <2>1. s = SettledNext(base, l[3], u)
    BY <1>8, LoneChildSettled, Zenon
  <2>2. base.vault = x /\ base.pool = proceeds - bonus
    OBVIOUS
  <2> HIDE DEF base, s
  <2> QED BY <2>1, <2>2 DEF SettledNext
<1> HIDE DEF s
<1>10. Carries(x, s.vault, m, 0)
  <2>1. PICK c \in Markets, pay \in Nat : c = l[3] /\ pay = proceeds - bonus
    BY <1>1, <1>7
  <2>2. PICK t : t = settle_child_debt(x, c, u, pay)
    OBVIOUS
  <2>3. Carries(x, t.vault, m, 0)
    BY <1>4, <1>5, <2>2, SettleCarries
  <2> QED BY <1>9, <2>1, <2>2, <2>3
<1>11. PICK y : y = s.vault
  OBVIOUS
<1>12. Carries(x, y, m, 0) /\ y \in Vaults /\ Loans(y) /\ n = y.used[key]
  BY <1>10, <1>11 DEF Carries
<1>13. n \in Nat /\ y.parentDebt[BackedBy(l, u)] <= n /\ n <= y.childDebt[OwedBy(l, u)]
  <2>1. y.parentDebt[key] = n /\ Even(y, l, u)
    BY <1>3, <1>12 DEF Loans
  <2>2. n \in Nat
    BY <1>3, <1>12, VaultFields
  <2> QED BY <1>7, <2>1, <2>2 DEF Even
<1>14. w = resolve_parent_default(y, l[1], u, l[2], n)
  BY <1>6, <1>11
<1> HIDE DEF w, n, key
<1>15. Carries(y, w, m, 0) /\ w.parentDebt[BackedBy(l, u)] = 0
  BY <1>12, <1>13, <1>14, DefaultCarries
<1>16. 0 - proceeds \in Int /\ (0 - proceeds) + 0 = 0 - proceeds
  OBVIOUS
<1>17. PICK e \in Int : e = 0 - proceeds /\ e + 0 = e
  BY <1>16
<1>18. Carries(v, y, m, e + 0)
  BY <1>4, <1>12, <1>17, CarriesTwice
<1>19. Carries(v, w, m, e + 0)
  BY <1>15, <1>17, <1>18, CarriesTwice
<1> QED BY <1>2, <1>7, <1>15, <1>17, <1>19 DEF key

\* liquidate_child_release settles the loan that paid for the position, or writes
\* it off.
LEMMA ChildLiquidationCarries ==
    ASSUME Matched, NEW v \in Vaults, BooksKept(v), LoansKept(v), Loans(v), NEW u \in Traders,
           NEW m \in Markets, NEW o \in Sides, v.childDebt[<<m, u>>] # 0,
           NEW sold \in Nat, NEW proceeds \in Nat, HasBacking(v, m, proceeds),
           NEW r, r = liquidate_child_release(v, u, m, o, sold, proceeds)
    PROVE  Carries(v, r.vault, m, 0 - proceeds)
<1> DEFINE bonus == bps(proceeds, LIQUIDATION_BONUS_BPS)
           x == Extracted(v, u, m, o, sold, proceeds)
           a == <<m, u>>
           s == settle_child_debt(x, m, u, proceeds - bonus)
           n == s.vault.childDebt[a]
           w == IF n = 0 THEN s.vault
                ELSE resolve_parent_default(s.vault, v.parent[a], u, v.parentOutcome[a], n)
<1>1. bonus \in Nat /\ bonus <= proceeds /\ proceeds - bonus \in Nat
  <2>1. bonus \in Nat /\ bonus <= proceeds
    BY BonusBounds
  <2> HIDE DEF bonus
  <2> QED BY <2>1
<1>2. r.vault = w
  BY DEF liquidate_child_release
<1> HIDE DEF bonus
<1>3. a \in Accounts /\ a[1] = m
  BY DEF Accounts
<1>4. Carries(v, x, m, 0 - proceeds) /\ SameLoans(v, x) /\ LoansKept(x)
  BY ReleaseCarries DEF Extracted
<1> HIDE DEF x
<1>5. x \in Vaults /\ Loans(x)
  BY <1>4 DEF Carries
<1>6. PICK l \in CreditLines : l[3] = m
  <2>1. m \in Borrowers
    BY <1>3 DEF LoansKept
  <2> QED BY <2>1 DEF Borrowers
<1>7. a = OwedBy(l, u)
  BY <1>6 DEF OwedBy
<1>8. v.parent[a] = l[1] /\ v.parentOutcome[a] = l[2]
  <2>1. Known(v, l, u)
    BY DEF Loans
  <2> QED BY <1>7, <2>1 DEF Known
<1>9. PICK pay, t : pay \in Nat /\ pay = proceeds - bonus /\ t = settle_child_debt(x, m, u, pay)
  BY <1>1
<1>10. PICK y : y = t.vault
  OBVIOUS
<1>11. Carries(x, y, m, 0)
  BY <1>4, <1>5, <1>9, <1>10, SettleCarries
<1>12. y \in Vaults /\ Loans(y) /\ n = y.childDebt[a]
  BY <1>9, <1>10, <1>11 DEF Carries
<1>13. n \in Nat /\ Even(y, l, u)
  BY <1>3, <1>12, VaultFields DEF Loans
<1>14. w = IF n = 0 THEN y ELSE resolve_parent_default(y, l[1], u, l[2], n)
  BY <1>8, <1>9, <1>10
<1> HIDE DEF s, w, n, a
<1>15. Carries(y, w, m, 0)
  <2>1. CASE n = 0
    BY <1>12, <1>14, <2>1, SameCarries
  <2>2. CASE n # 0
    <3>1. w = resolve_parent_default(y, l[1], u, l[2], n)
      BY <1>14, <2>2
    <3>2. y.parentDebt[BackedBy(l, u)] <= n /\ n <= y.childDebt[OwedBy(l, u)]
      BY <1>7, <1>12, <1>13 DEF Even
    <3> QED BY <1>12, <1>13, <3>1, <3>2, DefaultCarries
  <2> QED BY <2>1, <2>2
<1>16. 0 - proceeds \in Int /\ (0 - proceeds) + 0 = 0 - proceeds
  OBVIOUS
<1>17. PICK e \in Int : e = 0 - proceeds /\ e + 0 = e
  BY <1>16
<1>18. Carries(v, y, m, e + 0)
  BY <1>4, <1>11, <1>17, CarriesTwice
<1>19. Carries(v, w, m, e + 0)
  BY <1>15, <1>17, <1>18, CarriesTwice
<1> QED BY <1>2, <1>17, <1>19

\* half_refund leaves books and loans alone.
LEMMA HalfCarries ==
    ASSUME NEW v \in Vaults, BooksKept(v), LoansKept(v), Loans(v), NEW m \in Markets,
           NEW amount \in Nat, NEW h, h = half_refund(v, m, amount)
    PROVE  /\ h.gross \in Nat /\ h.gross = (v.carry[m] + amount) \div 2
           /\ Carries(v, h.vault, m, 0) /\ LoansKept(h.vault)
<1>1. /\ h.gross \in Nat /\ h.gross = (v.carry[m] + amount) \div 2 /\ h.vault \in Vaults /\ h.vault.book = v.book
      /\ SameLoans(v, h.vault) /\ LoansKept(h.vault)
  <2>1. /\ h.gross \in Nat /\ h.gross = (v.carry[m] + amount) \div 2 /\ h.vault \in Vaults
        /\ h.vault.carry = [v.carry EXCEPT ![m] = (v.carry[m] + amount) - 2 * h.gross]
        /\ h.vault.book = v.book /\ h.vault.reserve = v.reserve
        /\ SameLoans(v, h.vault) /\ h.vault.stake = v.stake
        /\ BooksKept(h.vault) /\ LoansKept(h.vault)
    BY HalfRefund
  <2> QED BY <2>1
<1>2. PICK w : w = h.vault
  OBVIOUS
<1>3. w \in Vaults /\ w.book = v.book /\ SameLoans(v, w)
  BY <1>1, <1>2
<1>4. \A k \in Markets : /\ w.book[k].backing = v.book[k].backing
                         /\ w.book[k].shortfall = v.book[k].shortfall
  BY <1>3
<1>5. Carries(v, w, m, 0)
  BY <1>3, <1>4, StillCarries
<1> QED BY <1>1, <1>2, <1>5

\* PaidOut leaves backing and loans alone.
LEMMA PaidCarries ==
    ASSUME NEW v \in Vaults, Loans(v), NEW m \in Markets, NEW a \in Nat,
           NEW w, w = PaidOut(v, m, a)
    PROVE  Carries(v, w, m, 0)
<1>1. Paid(v, w, m, a)
  BY PaidBook
<1>2. /\ w \in Vaults /\ SameLoans(v, w)
      /\ \A k \in Markets : /\ w.book[k].backing = v.book[k].backing
                            /\ w.book[k].shortfall = v.book[k].shortfall
  BY <1>1 DEF Paid, SameAccounts
<1> QED BY <1>2, StillCarries

\* What is paid is at most the rest of the claim, after the position's own loan.
LEMMA WithheldPays ==
    ASSUME NEW v \in Vaults, NEW u \in Traders, NEW m \in Markets, NEW o \in Sides,
           NEW gross, NEW claim \in Nat, NEW y \in Vaults,
           NEW own, own = withhold_parent_debt(v, m, u, o, gross, claim),
           NEW payout, payout = capped_payout(y, m, claim - own.repaid)
    PROVE  payout \in Nat /\ payout <= claim
<1>1. own.repaid = Least(v.parentDebt[<<m, u, o>>], claim)
  BY DEF withhold_parent_debt
<1>2. v.parentDebt[<<m, u, o>>] \in Nat
  BY VaultFields DEF Positions
<1>3. own.repaid \in Nat /\ own.repaid <= claim
  BY <1>1, <1>2 DEF Least
<1>4. PICK e \in Nat : e = claim - own.repaid /\ e <= claim
  BY <1>3
<1> QED BY <1>4, CappedBounds

\* A redemption pays out of a settled market, whose loans it withholds.
LEMMA CancelledCarries ==
    ASSUME Matched, NEW v \in Vaults, BooksKept(v), LoansKept(v), Loans(v), NEW u \in Traders,
           NEW m \in Markets, Settled(m), NEW o \in Sides, NEW amount \in Nat,
           NEW r, r = redeem_cancelled(v, u, m, o, amount)
    PROVE  Carries(v, r.vault, m, 0) /\ r.payout <= GrossOf(v, m, o, amount, "Invalid")
<1>1. PICK h : h = half_refund(v, m, amount)
  OBVIOUS
<1>2. PICK x, g : x = h.vault /\ g = h.gross
  OBVIOUS
<1>3. g \in Nat /\ Carries(v, x, m, 0)
  BY <1>1, <1>2, HalfCarries
<1>4. x \in Vaults /\ Loans(x)
  BY <1>3 DEF Carries
<1>5. PICK own : own = withhold_parent_debt(x, m, u, o, g, g)
  OBVIOUS
<1>6. PICK y : y = own.vault
  OBVIOUS
<1>7. Carries(x, y, m, 0)
  <2>1. g <= g
    BY <1>3
  <2> QED BY <1>3, <1>4, <1>5, <1>6, <2>1, WithheldCarries
<1>8. y \in Vaults /\ Loans(y)
  BY <1>7 DEF Carries
<1>9. PICK payout, w : payout = r.payout /\ w = r.vault
  OBVIOUS
<1>10. w = PaidOut(y, m, payout) /\ payout \in Nat /\ payout <= g
  <2>1. r.vault = PaidOut(y, m, r.payout)
    BY <1>1, <1>2, <1>5, <1>6 DEF redeem_cancelled
  <2>2. payout = capped_payout(y, m, g - own.repaid)
    BY <1>1, <1>2, <1>5, <1>6, <1>9 DEF redeem_cancelled
  <2>3. payout \in Nat /\ payout <= g
    BY <1>3, <1>4, <1>5, <1>8, <2>2, WithheldPays
  <2> QED BY <1>9, <2>1, <2>3
<1>11. Carries(y, w, m, 0)
  BY <1>8, <1>10, PaidCarries
<1>12. Carries(v, y, m, 0 + 0)
  BY <1>3, <1>7, CarriesTwice
<1>13. Carries(v, w, m, (0 + 0) + 0)
  <2>1. 0 + 0 \in Int
    OBVIOUS
  <2> QED BY <1>11, <1>12, <2>1, CarriesTwice
<1>14. (0 + 0) + 0 = 0
  OBVIOUS
<1>15. g = GrossOf(v, m, o, amount, "Invalid")
  BY <1>1, <1>2, HalfCarries DEF GrossOf
<1> QED BY <1>9, <1>10, <1>13, <1>14, <1>15

\* The claim of redeem_resolved: half of the amount, all of it or nothing.
ClaimOf(v, m, o, amount, final) ==
    CASE final = "Invalid" -> half_refund(v, m, amount)
      [] final = o -> [gross |-> amount, vault |-> v]
      [] OTHER -> [gross |-> 0, vault |-> v]

\* It leaves books and loans alone.
LEMMA ClaimCarries ==
    ASSUME NEW v \in Vaults, BooksKept(v), LoansKept(v), Loans(v), NEW m \in Markets,
           NEW o \in Sides, NEW amount \in Nat, NEW final,
           NEW h, h = ClaimOf(v, m, o, amount, final)
    PROVE  /\ h.gross \in Nat /\ Carries(v, h.vault, m, 0) /\ LoansKept(h.vault)
           /\ h.gross = GrossOf(v, m, o, amount, final)
<1>0. o # "Invalid"
  BY DEF Sides
<1>1. CASE final = "Invalid"
  <2>1. h = half_refund(v, m, amount)
    BY <1>0, <1>1 DEF ClaimOf
  <2> QED BY <1>1, <2>1, HalfCarries DEF GrossOf
<1>2. CASE final # "Invalid" /\ final = o
  <2>1. h = [gross |-> amount, vault |-> v]
    BY <1>2 DEF ClaimOf
  <2> QED BY <1>2, <2>1, SameCarries DEF GrossOf
<1>3. CASE final # "Invalid" /\ final # o
  <2>1. h = [gross |-> 0, vault |-> v]
    BY <1>3 DEF ClaimOf
  <2> QED BY <1>3, <2>1, SameCarries DEF GrossOf
<1> QED BY <1>1, <1>2, <1>3

\* A redemption of a resolved market pays the debts of the position first: what
\* went upstream and what is paid out are within the claim.
LEMMA ResolvedCarries ==
    ASSUME Matched, NEW v \in Vaults, BooksKept(v), LoansKept(v), Loans(v), NEW u \in Traders,
           NEW m \in Markets, Settled(m), NEW o \in Sides, NEW amount \in Nat, NEW final,
           NEW r, r = redeem_resolved(v, u, m, o, amount, final)
    PROVE  \E a \in Nat : /\ Carries(v, r.vault, m, 0 - a)
                          /\ a + r.payout <= GrossOf(v, m, o, amount, final)
<1>1. PICK h : h = ClaimOf(v, m, o, amount, final)
  OBVIOUS
<1>2. PICK x, g : x = h.vault /\ g = h.gross
  OBVIOUS
<1>3. /\ g \in Nat /\ Carries(v, x, m, 0) /\ LoansKept(x)
      /\ g = GrossOf(v, m, o, amount, final)
  BY <1>1, <1>2, ClaimCarries
<1>4. x \in Vaults /\ Loans(x)
  BY <1>3 DEF Carries
<1>5. PICK s : s = settle_child_debt(x, m, u, g)
  OBVIOUS
<1>6. PICK t, a : t = s.vault /\ a = s.applied
  OBVIOUS
<1>7. Carries(x, t, m, 0)
  BY <1>3, <1>4, <1>5, <1>6, SettleCarries
<1>8. t \in Vaults /\ Loans(t) /\ a \in Nat /\ a <= g
  <2>1. Settles(x, t, a) /\ a \in Nat /\ a <= g
    BY <1>3, <1>4, <1>5, <1>6, DebtSettled
  <2>2. t \in Vaults /\ Loans(t)
    BY <1>7 DEF Carries
  <2> QED BY <2>1, <2>2
<1>9. PICK b, z : b \in Int /\ b = 0 - a /\ z = Credited(t, m, b)
  BY <1>8
<1>10. Carries(t, z, m, b)
  BY <1>8, <1>9, CreditCarries
<1>11. PICK claim, own : claim = g - a /\ own = withhold_parent_debt(z, m, u, o, g, claim)
  OBVIOUS
<1>12. PICK y : y = own.vault
  OBVIOUS
<1>13. Carries(z, y, m, 0)
  <2>1. claim \in Nat /\ claim <= g
    BY <1>3, <1>8, <1>11
  <2>2. z \in Vaults /\ Loans(z)
    BY <1>10 DEF Carries
  <2> QED BY <1>3, <1>11, <1>12, <2>1, <2>2, WithheldCarries
<1>14. y \in Vaults /\ Loans(y)
  BY <1>13 DEF Carries
<1>15. PICK q : q = [y EXCEPT !.stake[<<m, u, o>>] = Spend(@, g)]
  OBVIOUS
<1>16. Carries(y, q, m, 0)
  <2> DEFINE st == [y.stake EXCEPT ![<<m, u, o>>] = Spend(@, g)]
  <2>1. y.stake \in [Positions -> Nat] /\ <<m, u, o>> \in Positions
    BY <1>14, VaultFields DEF Positions
  <2>2. st \in [Positions -> Nat]
    <3>1. y.stake[<<m, u, o>>] \in Nat
      BY <2>1
    <3>2. Spend(y.stake[<<m, u, o>>], g) \in Nat
      BY <1>3, <3>1, SpendBounds
    <3> QED BY <2>1, <3>2
  <2>3. q = [y EXCEPT !.stake = st]
    BY <1>14, <1>15 DEF Vaults
  <2> HIDE DEF st
  <2>4. q \in Vaults /\ q.book = y.book /\ SameLoans(y, q)
    BY <1>14, <2>2, <2>3 DEF Vaults, SameLoans
  <2>5. \A k \in Markets : /\ q.book[k].backing = y.book[k].backing
                           /\ q.book[k].shortfall = y.book[k].shortfall
    BY <2>4
  <2> QED BY <1>14, <2>4, <2>5, StillCarries
<1>17. q \in Vaults /\ Loans(q)
  BY <1>16 DEF Carries
<1>18. PICK payout, w : payout = r.payout /\ w = r.vault
  OBVIOUS
<1>19. w = PaidOut(q, m, payout) /\ payout \in Nat /\ payout <= claim
  <2>1. r.vault = PaidOut(q, m, r.payout) /\ r.payout = capped_payout(y, m, claim - own.repaid)
    <3>1. h = CASE final = "Invalid" -> half_refund(v, m, amount)
                [] final = o -> [gross |-> amount, vault |-> v]
                [] OTHER -> [gross |-> 0, vault |-> v]
      BY <1>1 DEF ClaimOf
    <3> DEFINE pay == capped_payout(y, m, (g - a) - own.repaid)
    <3>2. r = [payout |-> pay, vault |-> PaidOut(q, m, pay)]
      BY <1>2, <1>5, <1>6, <1>9, <1>11, <1>12, <1>15, <3>1, Zenon DEF redeem_resolved
    <3>3. pay = capped_payout(y, m, claim - own.repaid)
      BY <1>11
    <3> HIDE DEF pay
    <3> QED BY <3>2, <3>3
  <2>2. claim \in Nat /\ z \in Vaults
    BY <1>3, <1>8, <1>10, <1>11 DEF Carries
  <2>3. r.payout \in Nat /\ r.payout <= claim
    BY <1>11, <1>14, <2>1, <2>2, WithheldPays
  <2> QED BY <1>18, <2>1, <2>3
<1>20. Carries(q, w, m, 0)
  BY <1>17, <1>19, PaidCarries
<1>21. 0 \in Int /\ (0 + 0) + b = b /\ b + 0 = b
  BY <1>9
<1>22. Carries(v, z, m, b)
  <2>1. Carries(v, t, m, 0 + 0)
    BY <1>3, <1>7, <1>21, CarriesTwice
  <2>2. Carries(v, z, m, (0 + 0) + b)
    BY <1>9, <1>10, <2>1, CarriesTwice
  <2> QED BY <1>21, <2>2
<1>23. Carries(v, y, m, b)
  <2>1. Carries(v, y, m, b + 0)
    BY <1>9, <1>13, <1>21, <1>22, CarriesTwice
  <2> QED BY <1>21, <2>1
<1>24. Carries(v, q, m, b)
  <2>1. Carries(v, q, m, b + 0)
    BY <1>9, <1>16, <1>21, <1>23, CarriesTwice
  <2> QED BY <1>21, <2>1
<1>25. Carries(v, w, m, b)
  <2>1. Carries(v, w, m, b + 0)
    BY <1>9, <1>20, <1>21, <1>24, CarriesTwice
  <2> QED BY <1>21, <2>1
<1>26. a + payout <= g
  BY <1>3, <1>8, <1>11, <1>19
<1> QED BY <1>3, <1>8, <1>9, <1>18, <1>25, <1>26

-----------------------------------------------------------------------------
(* The steps of the contracts: the loans stay in order, and what is secured *)
(* in a market changes by what is minted or merged.                         *)

InStep ==
    /\ Loans(vault)
    /\ \A m \in Markets :
         IF Settled(m) THEN Claims(m) <= Secured(vault, m) - vault.book[m].redeemed
         ELSE setBacking[m] = Secured(vault, m)

SecuredBy(m, d) ==
    /\ Carries(vault, vault', m, d)
    /\ \A k \in Markets : setBacking'[k] = setBacking[k] + (IF k = m THEN d ELSE 0)

Secures == \E m \in Markets, d \in Int : SecuredBy(m, d)

\* What these steps start from.
LEMMA InStepFields ==
    ASSUME Sound, InStep
    PROVE  /\ vault \in Vaults /\ BooksKept(vault) /\ LoansKept(vault) /\ Loans(vault)
           /\ pos \in [Tokens -> Nat] /\ setBacking \in [Markets -> Nat] /\ PoolsTypeOK
BY SoundFields DEF InStep

\* A redemption: what goes upstream and what is paid out are within the claim.
Withdraws ==
    /\ RedeemedStep
    /\ \E m \in Markets, o \in Sides, a \in Nat, gross \in Nat, payout \in Nat, kept \in Nat :
         /\ RedeemedBy(m, o, a, gross, payout)
         /\ Carries(vault, vault', m, 0 - kept) /\ kept + payout <= gross

\* Primes on the parts of InStep.
LEMMA InStepNext ==
    ASSUME \A k \in Markets : Settled(k) => Settled(k)'
    PROVE  /\ \A k \in Markets : Secured(vault, k)' = Secured(vault', k)
           /\ Loans(vault') => Loans(vault)'
<1>1. ASSUME NEW k \in Markets PROVE Secured(vault, k)' = Secured(vault', k)
  BY DEF Secured, LentOut
<1>2. Loans(vault') => Loans(vault)'
  BY LineParts DEF Loans, Known, Even
<1> QED BY <1>1, <1>2

\* A trade keeps markets and loans in step,
LEMMA SecuresInStep ==
    ASSUME Kept, InStep, Traded, Secures
    PROVE  InStep'
<1>1. PICK m \in Markets, d \in Int : SecuredBy(m, d)
  BY DEF Secures
<1>2. vault \in Vaults /\ Loans(vault) /\ vault' \in Vaults /\ Loans(vault')
  BY <1>1, InStepFields DEF Kept, SecuredBy, Carries
<1>3. ASSUME NEW k \in Markets, ~Settled(k)'
      PROVE  setBacking'[k] = Secured(vault', k)
  <2>1. ~Settled(k)
    BY <1>3 DEF Traded, Alive, Settled
  <2>2. setBacking[k] = Secured(vault, k)
    BY <2>1 DEF InStep
  <2> QED BY <1>1, <2>1, <2>2 DEF SecuredBy, Carries
<1>4. ASSUME NEW k \in Markets, Settled(k)'
      PROVE  Claims(k)' <= Secured(vault', k) - vault'.book[k].redeemed
  <2>1. Settled(k)
    BY <1>4 DEF Traded, Alive, Settled
  <2>2. /\ Claims(k)' <= Claims(k) /\ Claims(k)' \in Nat /\ Claims(k) \in Nat
        /\ vault'.book[k].redeemed = vault.book[k].redeemed /\ setBacking'[k] = setBacking[k]
    BY <2>1, ClaimsFall
  <2>3. /\ Secured(vault, k) \in Int /\ Secured(vault', k) \in Int
        /\ vault.book[k].redeemed \in Nat /\ setBacking[k] \in Nat
    BY <1>2, SecuredInt, VaultFields, SoundFields DEF Kept
  <2>4. /\ Secured(vault', k) >= Secured(vault, k) + (IF k = m THEN d ELSE 0)
        /\ setBacking'[k] = setBacking[k] + (IF k = m THEN d ELSE 0)
    BY <1>1 DEF SecuredBy, Carries
  <2>5. Claims(k) <= Secured(vault, k) - vault.book[k].redeemed
    BY <2>1 DEF InStep
  <2> QED BY <2>2, <2>3, <2>4, <2>5
<1>5. \A k \in Markets : Settled(k) => Settled(k)'
  BY DEF Traded, Alive, Settled
<1> QED BY <1>2, <1>3, <1>4, <1>5, InStepNext DEF InStep

\* and so does a redemption.
LEMMA WithdrawsInStep ==
    ASSUME Kept, InStep, Withdraws
    PROVE  InStep'
<1>1. PICK m \in Markets, o \in Sides, a \in Nat, gross \in Nat, payout \in Nat, kept \in Nat :
        /\ RedeemedBy(m, o, a, gross, payout)
        /\ Carries(vault, vault', m, 0 - kept) /\ kept + payout <= gross
  BY DEF Withdraws
<1>2. vault \in Vaults /\ Loans(vault) /\ vault' \in Vaults /\ Loans(vault')
  BY <1>1, InStepFields DEF Kept, Carries
<1>3. /\ Settled(m) /\ setBacking' = setBacking /\ \A k \in Markets : Settled(k)' <=> Settled(k)
      /\ \A k \in Markets : vault'.book[k].redeemed
                              = vault.book[k].redeemed + (IF k = m THEN payout ELSE 0)
  BY <1>1 DEF Withdraws, RedeemedStep, lifecycleVars, RedeemedBy, Redeems, Settled
<1>4. ASSUME NEW k \in Markets, ~Settled(k)'
      PROVE  setBacking'[k] = Secured(vault', k)
  <2>1. ~Settled(k) /\ k # m
    BY <1>3, <1>4
  <2>2. setBacking[k] = Secured(vault, k) /\ Secured(vault, k) \in Int
    BY <1>2, <2>1, SecuredInt DEF InStep
  <2>3. Secured(vault', k) = Secured(vault, k) + 0
    BY <1>1, <2>1 DEF Carries
  <2> QED BY <1>3, <2>2, <2>3
<1>5. ASSUME NEW k \in Markets, Settled(k)'
      PROVE  Claims(k)' <= Secured(vault', k) - vault'.book[k].redeemed
  <2>1. Claims(k) <= Secured(vault, k) - vault.book[k].redeemed
    BY <1>3, <1>5 DEF InStep
  <2>2. /\ Claims(k)' = Claims(k) - (IF k = m THEN gross ELSE 0)
        /\ Claims(k)' \in Nat /\ Claims(k) \in Nat
    BY <1>1, ClaimsRedeemed DEF Withdraws
  <2>3. /\ Secured(vault, k) \in Int /\ Secured(vault', k) \in Int
        /\ vault.book[k].redeemed \in Nat
    BY <1>2, SecuredInt, VaultFields
  <2>4. Secured(vault', k) >= Secured(vault, k) + (IF k = m THEN 0 - kept ELSE 0)
    BY <1>1 DEF Carries
  <2> QED BY <1>1, <1>3, <2>1, <2>2, <2>3, <2>4
<1> QED BY <1>2, <1>3, <1>4, <1>5, InStepNext DEF InStep

\* The complete sets are minted or merged in one market, or left alone.
LEMMA SetsStay ==
    ASSUME Sound, setBacking' = setBacking, NEW m \in Markets, Carries(vault, vault', m, 0)
    PROVE  Secures
<1>1. setBacking \in [Markets -> Nat]
  BY SoundFields
<1>2. \A k \in Markets : setBacking'[k] = setBacking[k] + (IF k = m THEN 0 ELSE 0)
  BY <1>1
<1>3. SecuredBy(m, 0)
  BY <1>2 DEF SecuredBy
<1> QED BY <1>3 DEF Secures

LEMMA SetsChange ==
    ASSUME Sound, NEW m \in Markets, NEW d \in Int, Carries(vault, vault', m, d),
           setBacking' = [setBacking EXCEPT ![m] = @ + d]
    PROVE  Secures
<1>1. setBacking \in [Markets -> Nat]
  BY SoundFields
<1>2. \A k \in Markets : setBacking'[k] = setBacking[k] + (IF k = m THEN d ELSE 0)
  BY <1>1
<1>3. SecuredBy(m, d)
  BY <1>2 DEF SecuredBy
<1> QED BY <1>3 DEF Secures

\* A fee leaves what is secured.
LEMMA CollectCarries ==
    ASSUME NEW v \in Vaults, Loans(v), NEW m \in Markets, NEW f, f \in FeeShares,
           NEW w, w = collect_fee(v, m, f)
    PROVE  Carries(v, w, m, 0 - FeesOf(f)) /\ SameLoans(v, w)
<1>1. /\ w \in Vaults
      /\ w.book[m].backing = v.book[m].backing - FeesOf(f)
      /\ w.book[m].shortfall = v.book[m].shortfall
      /\ \A k \in Markets \ {m} : w.book[k] = v.book[k]
      /\ SameLoans(v, w)
  BY CollectedBook DEF SameAccounts
<1>2. PICK e \in Int : e = 0 - FeesOf(f) /\ FeesOf(f) \in Nat
  BY DEF FeesOf, FeeShares
<1>3. v.book[m].backing \in Int /\ v.book[m].shortfall \in Int
  BY SecuredInt
<1>4. w.book[m].backing + w.book[m].shortfall = v.book[m].backing + v.book[m].shortfall + e
  BY <1>1, <1>2, <1>3
<1>5. \A k \in Markets \ {m} : /\ w.book[k].backing = v.book[k].backing
                               /\ w.book[k].shortfall = v.book[k].shortfall
  BY <1>1
<1> QED BY <1>1, <1>2, <1>4, <1>5, BooksCarry

\* What a liquidity provider is paid was not secured.
LEMMA LpClaimCarries ==
    ASSUME NEW v \in Vaults, Loans(v), NEW m \in Markets, NEW a \in Nat,
           a <= v.book[m].lp_fees, NEW w, w = claim_lp_fees(v, m, a)
    PROVE  Carries(v, w, m, 0)
<1>1. /\ w \in Vaults
      /\ w.book[m].backing = v.book[m].backing
      /\ w.book[m].shortfall = v.book[m].shortfall
      /\ \A k \in Markets \ {m} : w.book[k] = v.book[k]
      /\ SameLoans(v, w)
  BY ClaimedBook DEF SameAccounts
<1>2. \A k \in Markets : /\ w.book[k].backing = v.book[k].backing
                         /\ w.book[k].shortfall = v.book[k].shortfall
  BY <1>1
<1> QED BY <1>1, <1>2, StillCarries

\* Nor was what governance sweeps.
LEMMA SweepCarries ==
    ASSUME NEW v \in Vaults, Loans(v), NEW m \in Markets, NEW w, w = sweep_protocol_fees(v, m)
    PROVE  Carries(v, w, m, 0)
<1>1. v.book[m] \in Books /\ v.reserve \in Nat
  BY VaultFields
<1>2. PICK b : b = FeesSwept(v.book[m])
  OBVIOUS
<1>3. b \in Books /\ b.backing = v.book[m].backing /\ b.shortfall = v.book[m].shortfall
  BY <1>1, <1>2 DEF Books, FeesSwept
<1>4. PICK r : r = ReserveCut(v, m)
  OBVIOUS
<1>5. r \in Nat
  <2>1. Swept(v, m) \in Nat
    BY <1>1 DEF Swept, Books
  <2> QED BY <1>4, <2>1, ShareBounds DEF ReserveCut, INSURANCE_RESERVE_BPS
<1>6. PICK x : x = [v EXCEPT !.book[m] = b]
  OBVIOUS
<1>7. /\ x \in Vaults /\ x.book[m] = b /\ \A k \in Markets \ {m} : x.book[k] = v.book[k]
      /\ SameLoans(v, x) /\ x.reserve = v.reserve
  <2>1. Rewritten(v, m, b, x)
    BY <1>6 DEF Rewritten
  <2> QED BY <1>3, <2>1, BookWritten DEF SameAccounts
<1>8. w = [x EXCEPT !.reserve = @ + r]
  BY <1>2, <1>4, <1>6 DEF sweep_protocol_fees, Vaults
<1>9. w \in Vaults /\ w.book = x.book /\ SameLoans(x, w)
  <2>1. x.reserve + r \in Nat
    BY <1>1, <1>5, <1>7
  <2>2. w = [x EXCEPT !.reserve = x.reserve + r]
    BY <1>8
  <2> QED BY <1>7, <2>1, <2>2 DEF Vaults, SameLoans
<1>10. SameLoans(v, w)
  BY <1>7, <1>9 DEF SameLoans
<1>11. \A k \in Markets : /\ w.book[k].backing = v.book[k].backing
                          /\ w.book[k].shortfall = v.book[k].shortfall
  BY <1>3, <1>7, <1>9
<1> QED BY <1>9, <1>10, <1>11, StillCarries

\* seed_liquidity and create_market pay for the sets they mint.
LEMMA SeedSecures ==
    ASSUME Sound, InStep, NEW m \in Markets, NEW u \in Traders, NEW amount \in Nat,
           Seeded(m, u, amount)
    PROVE  Secures
<1>1. vault \in Vaults /\ Loans(vault)
  BY InStepFields
<1>2. /\ vault' = Credited(vault, m, amount)
      /\ setBacking' = [setBacking EXCEPT ![m] = @ + amount]
  BY DEF Seeded, deposit_for_market
<1>3. amount \in Int
  OBVIOUS
<1>4. Carries(vault, vault', m, amount)
  BY <1>1, <1>2, <1>3, CreditCarries
<1> QED BY <1>2, <1>3, <1>4, SetsChange

\* add_liquidity
LEMMA AddSecures ==
    ASSUME Sound, InStep, NEW u \in Traders, NEW m \in Markets, NEW amount \in Amounts,
           add_liquidity(u, m, amount)
    PROVE  Secures
<1>1. PICK pending : pending = compute_lp_fees_owed(m, u)
  OBVIOUS
<1>2. /\ pending <= vault.book[m].lp_fees
      /\ vault' = claim_lp_fees(deposit_for_market(vault, m, amount), m, pending)
      /\ setBacking' = [setBacking EXCEPT ![m] = @ + amount]
  BY <1>1 DEF add_liquidity
<1>3. vault \in Vaults /\ Loans(vault)
  BY InStepFields
<1>4. amount \in Int /\ pending \in Nat
  <2>1. pending \in Nat
    BY <1>1, OwedBounds
  <2> QED BY <2>1, TradingAssumption
<1>5. PICK x : x = Credited(vault, m, amount)
  OBVIOUS
<1>6. Carries(vault, x, m, amount)
  BY <1>3, <1>4, <1>5, CreditCarries
<1>7. x \in Vaults /\ Loans(x)
  BY <1>6 DEF Carries
<1>8. pending <= x.book[m].lp_fees
  <2>1. Credits(vault, x, m, amount)
    BY <1>3, <1>4, <1>5, CreditedBy
  <2> QED BY <1>2, <2>1 DEF Credits, Backed
<1>9. vault' = claim_lp_fees(x, m, pending)
  BY <1>2, <1>5 DEF deposit_for_market
<1>10. Carries(x, vault', m, 0)
  BY <1>4, <1>7, <1>8, <1>9, LpClaimCarries
<1>11. Carries(vault, vault', m, amount + 0)
  BY <1>3, <1>4, <1>6, <1>10, CarriesTwice
<1>12. amount + 0 = amount
  BY <1>4
<1> QED BY <1>2, <1>4, <1>11, <1>12, SetsChange

\* Paying a liquidity provider, when it leaves or asks for it.
LEMMA PaidSecures ==
    ASSUME Sound, InStep, NEW u \in Traders, NEW m \in Markets,
           NEW a, a = compute_lp_fees_owed(m, u), a <= vault.book[m].lp_fees,
           vault' = claim_lp_fees(vault, m, a), setBacking' = setBacking
    PROVE  Secures
<1>1. vault \in Vaults /\ Loans(vault) /\ a \in Nat
  BY InStepFields, OwedBounds
<1>2. Carries(vault, vault', m, 0)
  BY <1>1, LpClaimCarries
<1> QED BY <1>2, SetsStay

\* remove_liquidity
LEMMA RemoveSecures ==
    ASSUME Sound, InStep, NEW u \in Traders, NEW m \in Markets,
           NEW shares, remove_liquidity(u, m, shares)
    PROVE  Secures
<1>1. PICK a : a = compute_lp_fees_owed(m, u)
  OBVIOUS
<1>2. /\ a <= vault.book[m].lp_fees /\ vault' = claim_lp_fees(vault, m, a)
      /\ setBacking' = setBacking
  BY <1>1 DEF remove_liquidity
<1> QED BY <1>1, <1>2, PaidSecures

\* claim_fees
LEMMA ClaimSecures ==
    ASSUME Sound, InStep, NEW u \in Traders, NEW m \in Markets, claim_fees(u, m)
    PROVE  Secures
<1>1. PICK a : a = compute_lp_fees_owed(m, u)
  OBVIOUS
<1>2. /\ a <= vault.book[m].lp_fees /\ vault' = claim_lp_fees(vault, m, a)
      /\ setBacking' = setBacking
  BY <1>1 DEF claim_fees, tokenVars
<1> QED BY <1>1, <1>2, PaidSecures

\* sweep_fees
LEMMA SweepSecures ==
    ASSUME Sound, InStep, NEW m \in Markets, sweep_fees(m)
    PROVE  Secures
<1>1. vault' = sweep_protocol_fees(vault, m) /\ setBacking' = setBacking
  BY DEF sweep_fees, tokenVars
<1>2. vault \in Vaults /\ Loans(vault)
  BY InStepFields
<1>3. Carries(vault, vault', m, 0)
  BY <1>1, <1>2, SweepCarries
<1> QED BY <1>1, <1>3, SetsStay

\* What a purchase mints is what is paid for it less the fee.
LEMMA BoughtSecures ==
    ASSUME Sound, InStep, NEW u \in Traders, NEW m \in Markets, NEW o \in Sides, NEW a \in Nat,
           CanBuy(m, o, a), NEW q, q = BuyQuote(m, o, a), NEW funded,
           Carries(vault, funded, m, a), Bought(funded, u, m, o, q)
    PROVE  Secures
<1>1. vault \in Vaults /\ PoolsTypeOK
  BY InStepFields
<1>2. /\ vault' = collect_fee(funded, m, FeeParts(q.fee))
      /\ setBacking' = [setBacking EXCEPT ![m] = @ + q.net_in]
  BY DEF Bought
<1>3. CanQuote(m) /\ q.net_in > 0
  BY DEF CanBuy
<1>4. q.fee \in Nat /\ q.net_in \in Nat /\ q.fee + q.net_in = a
  <2> DEFINE d == [s \in Sides |-> q.net_in - (IF s = o THEN q.out ELSE 0)]
  <2>1. \A s \in Sides : d[s] = q.net_in - (IF s = o THEN q.out ELSE 0)
    OBVIOUS
  <2> HIDE DEF d
  <2> QED BY <1>1, <1>3, <2>1, PoolBought
<1>5. PICK n \in Nat, fee \in Nat : n = q.net_in /\ fee = q.fee
  BY <1>4
<1>6. PICK f : f = FeeParts(fee) /\ f \in FeeShares /\ FeesOf(f) = fee
  BY <1>5, FeePartsSum
<1>7. funded \in Vaults /\ Loans(funded)
  BY DEF Carries
<1>8. vault' = collect_fee(funded, m, f)
  BY <1>2, <1>5, <1>6
<1>9. Carries(funded, vault', m, 0 - fee)
  <2>1. Carries(funded, vault', m, 0 - FeesOf(f))
    BY <1>6, <1>7, <1>8, CollectCarries
  <2> QED BY <1>6, <2>1
<1>10. a \in Int /\ 0 - fee \in Int /\ n \in Int /\ a + (0 - fee) = n
  BY <1>4, <1>5
<1>11. Carries(vault, vault', m, a + (0 - fee))
  BY <1>1, <1>9, <1>10, CarriesTwice
<1>12. setBacking' = [setBacking EXCEPT ![m] = @ + n]
  BY <1>2, <1>5
<1> QED BY <1>10, <1>11, <1>12, SetsChange

\* buy
LEMMA BuySecures ==
    ASSUME Sound, InStep, NEW u \in Traders, NEW m \in Markets, NEW o \in Sides,
           NEW a \in Amounts, buy(u, m, o, a)
    PROVE  Secures
<1>1. PICK q : q = BuyQuote(m, o, a)
  OBVIOUS
<1>2. PICK x, funded : /\ x = Credited(vault, m, a)
                       /\ funded = record_cash_stake(x, u, m, o, a)
  OBVIOUS
<1>3. CanBuy(m, o, a) /\ Bought(funded, u, m, o, q)
  BY <1>1, <1>2 DEF buy, deposit_for_market
<1>4. /\ a \in Nat /\ a \in Int /\ vault \in Vaults /\ BooksKept(vault) /\ LoansKept(vault)
      /\ Loans(vault)
  BY InStepFields, TradingAssumption
<1>5. Carries(vault, x, m, a)
  BY <1>2, <1>4, CreditCarries
<1>6. x \in Vaults /\ BooksKept(x) /\ LoansKept(x) /\ Loans(x)
  <2>1. Booked(vault, x, m, a, 0, a)
    BY <1>2, <1>4, CreditBooked
  <2> QED BY <1>5, <2>1 DEF Booked, Carries
<1>7. Carries(x, funded, m, 0)
  <2>1. Booked(x, funded, m, 0, 0, 0) /\ funded.book = x.book /\ SameLoans(x, funded)
    <3>1. funded = record_cash_stake(x, u, m, o, a)
      BY <1>2
    <3>2. Booked(x, funded, m, 0, 0, 0)
      BY <1>4, <1>6, <3>1, StakeRecorded
    <3>3. funded.book = x.book
      BY <1>6, <3>1 DEF record_cash_stake, Vaults
    <3>4. SameLoans(x, funded)
      BY <1>6, <3>1 DEF record_cash_stake, Vaults, SameLoans
    <3> QED BY <3>2, <3>3, <3>4
  <2>2. \A k \in Markets : /\ funded.book[k].backing = x.book[k].backing
                           /\ funded.book[k].shortfall = x.book[k].shortfall
    BY <2>1
  <2>3. funded \in Vaults
    BY <2>1 DEF Booked
  <2> QED BY <1>6, <2>1, <2>2, <2>3, StillCarries
<1>8. Carries(vault, funded, m, a + 0)
  BY <1>4, <1>5, <1>7, CarriesTwice
<1>9. a + 0 = a
  BY <1>4
<1>10. Carries(vault, funded, m, a)
  BY <1>8, <1>9
<1> QED BY <1>1, <1>3, <1>4, <1>10, BoughtSecures

\* buy_child
LEMMA BuyChildSecures ==
    ASSUME Matched, Sound, InStep, NEW u \in Traders, NEW l \in CreditLines, NEW o \in Sides,
           NEW a \in Amounts, buy_child(u, l[1], l[2], l[3], o, a)
    PROVE  Secures
<1>1. PICK q, funded :
        /\ q = BuyQuote(l[3], o, a)
        /\ funded = open_child_credit_for_trade(vault, u, l[1], l[2], l[3], a)
  OBVIOUS
<1>2. /\ CanBuy(l[3], o, a) /\ CanOpenCredit(vault, u, l[1], l[2], l[3], a)
      /\ Bought(funded, u, l[3], o, q)
  BY <1>1 DEF buy_child
<1>3. a \in Nat /\ vault \in Vaults /\ Loans(vault)
  BY InStepFields, TradingAssumption
<1>4. Carries(vault, funded, l[3], a)
  BY <1>1, <1>2, <1>3, OpenedCarries
<1>5. PICK m \in Markets : m = l[3]
  BY LineParts
<1>6. CanBuy(m, o, a) /\ q = BuyQuote(m, o, a) /\ Bought(funded, u, m, o, q)
      /\ Carries(vault, funded, m, a)
  BY <1>1, <1>2, <1>4, <1>5
<1> QED BY <1>3, <1>6, BoughtSecures

\* sell: what is merged is paid out and collected as a fee.
LEMMA SellSecures ==
    ASSUME Sound, InStep, NEW u \in Traders, NEW m \in Markets, NEW o \in Sides,
           NEW a \in Parts(pos[<<m, u, o>>]), sell(u, m, o, a)
    PROVE  Secures
<1>1. PICK q, x, f : /\ q = SellQuote(m, o, a)
                     /\ x = release_trade_payout(vault, u, m, o, a, q.net)
                     /\ f = FeeParts(q.fee)
  OBVIOUS
<1>2. /\ HasBacking(vault, m, q.net) /\ vault' = collect_fee(x, m, f)
      /\ SoldInto(u, m, o, a, q)
  BY <1>1 DEF sell
<1>3. setBacking' = [setBacking EXCEPT ![m] = @ - q.gross]
  BY <1>2 DEF SoldInto
<1>4. /\ vault \in Vaults /\ BooksKept(vault) /\ LoansKept(vault) /\ Loans(vault)
      /\ setBacking \in [Markets -> Nat] /\ PoolsTypeOK
  BY InStepFields
<1>5. a \in Nat
  BY <1>1, InStepFields, TokenPart
<1>6. q.gross \in Nat /\ q.fee \in Nat /\ q.net \in Nat /\ q.fee + q.net = q.gross
  BY <1>1, <1>4, <1>5, QuoteParts
<1>7. PICK g \in Nat, fee \in Nat, net \in Nat : g = q.gross /\ fee = q.fee /\ net = q.net
  BY <1>6
<1>8. f \in FeeShares /\ FeesOf(f) = fee
  BY <1>1, <1>7, FeePartsSum
<1>9. Carries(vault, x, m, 0 - net)
  BY <1>1, <1>2, <1>4, <1>5, <1>7, ReleaseCarries
<1>10. x \in Vaults /\ Loans(x)
  BY <1>9 DEF Carries
<1>11. Carries(x, vault', m, 0 - fee)
  <2>1. Carries(x, vault', m, 0 - FeesOf(f))
    BY <1>2, <1>8, <1>10, CollectCarries
  <2> QED BY <1>8, <2>1
<1>12. 0 - net \in Int /\ 0 - fee \in Int /\ 0 - g \in Int /\ (0 - net) + (0 - fee) = 0 - g
  BY <1>6, <1>7
<1>13. Carries(vault, vault', m, (0 - net) + (0 - fee))
  BY <1>4, <1>9, <1>11, <1>12, CarriesTwice
<1>14. setBacking' = [setBacking EXCEPT ![m] = @ + (0 - g)]
  <2>1. setBacking[m] - g = setBacking[m] + (0 - g)
    BY <1>4
  <2> QED BY <1>3, <1>4, <1>7, <2>1
<1> QED BY <1>12, <1>13, <1>14, SetsChange

\* A sale forced on a user in debt, with what its release does.
LEMMA ForcedSecures ==
    ASSUME Sound, InStep, NEW u \in Traders, NEW m \in Markets, NEW o \in Sides,
           NEW q, q = SellQuote(m, o, pos[<<m, u, o>>]), ForceSold(u, m, o, q),
           NEW x, x = collect_fee(vault, m, FeeParts(q.fee)), NEW r, vault' = r.vault,
           /\ q.net \in Nat /\ HasBacking(x, m, q.net)
           /\ x \in Vaults /\ BooksKept(x) /\ LoansKept(x) /\ Loans(x) /\ SameLoans(vault, x)
           => Carries(x, r.vault, m, 0 - q.net)
    PROVE  Secures
<1>1. PICK a, f : a = pos[<<m, u, o>>] /\ f = FeeParts(q.fee)
  OBVIOUS
<1>2. /\ HasBacking(vault, m, FeesOf(f)) /\ HasBacking(x, m, q.net)
      /\ SoldInto(u, m, o, a, q)
  BY <1>1 DEF ForceSold
<1>3. setBacking' = [setBacking EXCEPT ![m] = @ - q.gross]
  BY <1>2 DEF SoldInto
<1>4. /\ vault \in Vaults /\ BooksKept(vault) /\ LoansKept(vault) /\ Loans(vault)
      /\ pos \in [Tokens -> Nat] /\ setBacking \in [Markets -> Nat] /\ PoolsTypeOK
  BY InStepFields
<1>5. a \in Nat
  BY <1>1, <1>4 DEF Tokens, Holders
<1>6. q.gross \in Nat /\ q.fee \in Nat /\ q.net \in Nat /\ q.fee + q.net = q.gross
  BY <1>1, <1>4, <1>5, QuoteParts
<1>7. PICK g \in Nat, fee \in Nat, net \in Nat : g = q.gross /\ fee = q.fee /\ net = q.net
  BY <1>6
<1>8. f \in FeeShares /\ FeesOf(f) = fee
  <2>1. f = FeeParts(fee)
    BY <1>1, <1>7
  <2> QED BY <2>1, FeePartsSum
<1>9. Carries(vault, x, m, 0 - FeesOf(f)) /\ SameLoans(vault, x)
  BY <1>1, <1>4, <1>8, CollectCarries
<1>10. x \in Vaults /\ BooksKept(x) /\ LoansKept(x) /\ Loans(x)
  <2>1. Booked(vault, x, m, 0 - FeesOf(f), f.lp, 0)
    BY <1>1, <1>2, <1>4, <1>8, CollectBooked
  <2> QED BY <1>9, <2>1 DEF Booked, Carries
<1>11. Carries(x, vault', m, 0 - q.net)
  BY <1>2, <1>6, <1>9, <1>10
<1>12. Carries(vault, x, m, 0 - fee) /\ Carries(x, vault', m, 0 - net)
  BY <1>7, <1>8, <1>9, <1>11
<1>13. 0 - net \in Int /\ 0 - fee \in Int /\ 0 - g \in Int /\ (0 - fee) + (0 - net) = 0 - g
  BY <1>6, <1>7
<1>14. Carries(vault, vault', m, (0 - fee) + (0 - net))
  BY <1>4, <1>12, <1>13, CarriesTwice
<1>15. setBacking' = [setBacking EXCEPT ![m] = @ + (0 - g)]
  <2>1. setBacking[m] - g = setBacking[m] + (0 - g)
    BY <1>4
  <2> QED BY <1>3, <1>4, <1>7, <2>1
<1> QED BY <1>13, <1>14, <1>15, SetsChange

\* liquidate_position
LEMMA LiquidateSecures ==
    ASSUME Matched, Sound, InStep, NEW k \in Traders, NEW u \in Traders, NEW m \in Markets,
           NEW o \in Sides, liquidate_position(k, u, m, o)
    PROVE  Secures
<1>1. PICK q, x, r, a :
        /\ a = pos[<<m, u, o>>] /\ q = SellQuote(m, o, a)
        /\ x = collect_fee(vault, m, FeeParts(q.fee))
        /\ r = liquidate_release(x, u, m, o, a, q.net)
  OBVIOUS
<1>2. ForceSold(u, m, o, q) /\ vault' = r.vault /\ vault.used[<<m, u, o>>] > 0
  BY <1>1 DEF liquidate_position, Liquidatable, Released
<1>3. a \in Nat
  BY <1>1, SoundFields DEF Tokens, Holders
<1>4. ASSUME q.net \in Nat, HasBacking(x, m, q.net), x \in Vaults, BooksKept(x), LoansKept(x),
             Loans(x), SameLoans(vault, x)
      PROVE  Carries(x, r.vault, m, 0 - q.net)
  <2>1. x.used[<<m, u, o>>] # 0
    BY <1>2, <1>4 DEF SameLoans
  <2>2. r = liquidate_release(x, u, m, o, a, q.net)
    BY <1>1
  <2> QED BY <1>3, <1>4, <2>1, <2>2, LiquidationCarries
<1> QED BY <1>1, <1>2, <1>4, ForcedSecures

\* liquidate_child_position
LEMMA LiquidateChildSecures ==
    ASSUME Matched, Sound, InStep, NEW k \in Traders, NEW u \in Traders, NEW m \in Markets,
           NEW o \in Sides, liquidate_child_position(k, u, m, o)
    PROVE  Secures
<1>1. PICK q, x, r, a :
        /\ a = pos[<<m, u, o>>] /\ q = SellQuote(m, o, a)
        /\ x = collect_fee(vault, m, FeeParts(q.fee))
        /\ r = liquidate_child_release(x, u, m, o, a, q.net)
  OBVIOUS
<1>2. ForceSold(u, m, o, q) /\ vault' = r.vault /\ vault.childDebt[<<m, u>>] > 0
  BY <1>1 DEF liquidate_child_position, Liquidatable, Released
<1>3. a \in Nat
  BY <1>1, SoundFields DEF Tokens, Holders
<1>4. ASSUME q.net \in Nat, HasBacking(x, m, q.net), x \in Vaults, BooksKept(x), LoansKept(x),
             Loans(x), SameLoans(vault, x)
      PROVE  Carries(x, r.vault, m, 0 - q.net)
  <2>1. x.childDebt[<<m, u>>] # 0
    BY <1>2, <1>4 DEF SameLoans
  <2>2. r = liquidate_child_release(x, u, m, o, a, q.net)
    BY <1>1
  <2> QED BY <1>3, <1>4, <2>1, <2>2, ChildLiquidationCarries
<1> QED BY <1>1, <1>2, <1>4, ForcedSecures

\* Positions change hands or are burned without the vault.
LEMMA VaultSecures ==
    ASSUME Sound, InStep, vault' = vault, setBacking' = setBacking, NEW m \in Markets
    PROVE  Secures
<1>1. vault \in Vaults /\ Loans(vault)
  BY InStepFields
<1>2. Carries(vault, vault, m, 0)
  BY <1>1, SameCarries
<1>3. Carries(vault, vault', m, 0)
  BY <1>2
<1> QED BY <1>3, SetsStay

\* repay_child_collateral
LEMMA RepaySecures ==
    ASSUME Matched, Sound, InStep, NEW u \in Traders, NEW m \in Markets,
           NEW amount \in Parts(vault.childDebt[<<m, u>>]), repay_child_collateral(u, m, amount)
    PROVE  Secures
<1>1. PICK s : s = settle_child_debt(vault, m, u, amount)
  OBVIOUS
<1>2. vault' = s.vault /\ setBacking' = setBacking
  BY <1>1 DEF repay_child_collateral, tokenVars
<1>3. vault \in Vaults /\ LoansKept(vault) /\ Loans(vault)
  BY InStepFields
<1>4. amount \in Nat
  <2>1. vault.childDebt[<<m, u>>] \in Nat
    BY <1>3, VaultFields DEF Accounts
  <2> QED BY <2>1, PartsPositive
<1>5. Carries(vault, s.vault, m, 0)
  BY <1>1, <1>3, <1>4, SettleCarries
<1>6. Carries(vault, vault', m, 0)
  BY <1>2, <1>5
<1> QED BY <1>2, <1>6, SetsStay

\* redeem_resolved_market
LEMMA ResolvedSecures ==
    ASSUME Matched, Sound, VerdictKept, InStep, NEW u \in Traders, NEW m \in Markets,
           NEW o \in Sides, NEW a \in Parts(pos[<<m, u, o>>]), redeem_resolved_market(u, m, o, a)
    PROVE  Withdraws
<1>1. PICK r, gross : /\ r = redeem_resolved(vault, u, m, o, a, verdict[m])
                      /\ gross = GrossOf(vault, m, o, a, verdict[m])
  OBVIOUS
<1>2. vault' = r.vault
  BY <1>1 DEF redeem_resolved_market, Redeemed
<1>3. RedeemedStep /\ RedeemedBy(m, o, a, gross, r.payout)
  BY <1>1, ResolvedStep
<1>4. vault \in Vaults /\ BooksKept(vault) /\ LoansKept(vault) /\ Loans(vault)
  BY InStepFields
<1>5. a \in Nat
  BY <1>1, InStepFields, TokenPart
<1>6. PICK kept \in Nat : /\ Carries(vault, r.vault, m, 0 - kept)
                          /\ kept + r.payout <= gross
  BY <1>1, <1>3, <1>4, <1>5, ResolvedCarries DEF RedeemedBy
<1>7. gross \in Nat /\ r.payout \in Nat
  BY <1>1, <1>4, <1>5, ResolvedRedeemed DEF Redeems
<1> QED BY <1>2, <1>3, <1>5, <1>6, <1>7 DEF Withdraws

\* redeem_cancelled_market
LEMMA CancelledSecures ==
    ASSUME Matched, Sound, VerdictKept, InStep, NEW u \in Traders, NEW m \in Markets,
           NEW o \in Sides, NEW a \in Parts(pos[<<m, u, o>>]), redeem_cancelled_market(u, m, o, a)
    PROVE  Withdraws
<1>1. PICK r, gross : /\ r = redeem_cancelled(vault, u, m, o, a)
                      /\ gross = GrossOf(vault, m, o, a, "Invalid")
  OBVIOUS
<1>2. vault' = r.vault
  BY <1>1 DEF redeem_cancelled_market, Redeemed
<1>3. RedeemedStep /\ RedeemedBy(m, o, a, gross, r.payout)
  BY <1>1, CancelledStep
<1>4. vault \in Vaults /\ BooksKept(vault) /\ LoansKept(vault) /\ Loans(vault)
  BY InStepFields
<1>5. a \in Nat
  BY <1>1, InStepFields, TokenPart
<1>6. Carries(vault, r.vault, m, 0) /\ r.payout <= gross
  BY <1>1, <1>3, <1>4, <1>5, CancelledCarries DEF RedeemedBy
<1>7. gross \in Nat /\ r.payout \in Nat
  BY <1>1, <1>4, <1>5, CancelledRedeemed DEF Redeems
<1>8. Carries(vault, vault', m, 0 - 0) /\ 0 + r.payout <= gross
  BY <1>2, <1>6, <1>7
<1> QED BY <1>3, <1>5, <1>7, <1>8 DEF Withdraws

\* Every step of the contracts is one of these.
LEMMA StepSecures ==
    ASSUME Matched, Sound, VerdictKept, InStep, Next
    PROVE  LifecycleStep \/ (Traded /\ Secures) \/ Withdraws
<1>1. CASE LifecycleStep
  BY <1>1
<1>2. CASE CreateMarket
  <2>1. PICK u \in Traders, m \in Markets, a \in Seeds : create_market(u, m, a)
    BY <1>2 DEF CreateMarket
  <2>2. Seeded(m, u, a) /\ a \in Nat
    BY <2>1, TradingAssumption DEF create_market
  <2> QED BY <2>1, <2>2, CreateTraded, SeedSecures
<1>3. CASE Buy
  BY <1>3, BuySecures, BuyTraded DEF Buy
<1>4. CASE BuyChild
  BY <1>4, BuyChildSecures, BuyChildTraded DEF BuyChild
<1>5. CASE RedeemResolved
  BY <1>5, ResolvedSecures DEF RedeemResolved
<1>6. CASE RedeemCancelled
  BY <1>6, CancelledSecures DEF RedeemCancelled
<1>7. CASE SeedLiquidity
  <2>1. PICK u \in Traders, m \in Markets, a \in Seeds : seed_liquidity(u, m, a)
    BY <1>7 DEF SeedLiquidity
  <2>2. Seeded(m, u, a) /\ a \in Nat
    BY <2>1, TradingAssumption DEF seed_liquidity
  <2> QED BY <1>7, <2>2, SeedLiquidityTraded, SeedSecures DEF SeedLiquidity
<1>8. CASE AddLiquidity
  BY <1>8, AddSecures, AddTraded DEF AddLiquidity
<1>9. CASE RemoveLiquidity
  BY <1>9, RemoveSecures, RemoveTraded DEF RemoveLiquidity
<1>10. CASE ClaimLpFees
  BY <1>10, ClaimSecures, ClaimTraded DEF ClaimLpFees
<1>11. CASE SweepProtocolFees
  BY <1>11, SweepSecures, SweepTraded DEF SweepProtocolFees
<1>12. CASE Sell
  BY <1>12, SellSecures, SellTraded DEF Sell
<1>13. CASE TransferPosition
  <2>1. vault' = vault /\ setBacking' = setBacking /\ \E m \in Markets : m = m
    BY <1>13 DEF TransferPosition, transfer_position
  <2> QED BY <1>13, <2>1, VaultSecures, TransferTraded DEF TransferPosition
<1>14. CASE BurnLosing
  <2>1. vault' = vault /\ setBacking' = setBacking /\ \E m \in Markets : m = m
    BY <1>14 DEF BurnLosing, burn_losing
  <2> QED BY <1>14, <2>1, VaultSecures, BurnTraded DEF BurnLosing
<1>15. CASE RepayChildCollateral
  BY <1>15, RepaySecures, RepayTraded DEF RepayChildCollateral
<1>16. CASE LiquidatePosition
  BY <1>16, LiquidateSecures, LiquidateTraded DEF LiquidatePosition
<1>17. CASE LiquidateChildPosition
  BY <1>17, LiquidateChildSecures, LiquidateChildTraded DEF LiquidateChildPosition
<1> QED BY <1>1, <1>2, <1>3, <1>4, <1>5, <1>6, <1>7, <1>8, <1>9, <1>10, <1>11, <1>12, <1>13,
           <1>14, <1>15, <1>16, <1>17, Zenon DEF Next

\* A market that settles has what its holders can ask for.
LEMMA VaultInStep ==
    ASSUME Kept, InStep, Progressed, vault' = vault, setBacking' = setBacking, pos' = pos
    PROVE  InStep'
<1>1. vault \in Vaults /\ Loans(vault)
  BY InStepFields DEF Kept
<1>2. ASSUME NEW k \in Markets, ~Settled(k)'
      PROVE  setBacking'[k] = Secured(vault', k)
  <2>1. ~Settled(k)
    BY <1>2 DEF Progressed, Settled
  <2> QED BY <2>1 DEF InStep
<1>3. ASSUME NEW k \in Markets, Settled(k)'
      PROVE  Claims(k)' <= Secured(vault', k) - vault'.book[k].redeemed
  <2>1. CASE Settled(k)
    BY <2>1, ClaimsSettled DEF InStep
  <2>2. CASE ~Settled(k)
    <3>1. Claims(k)' <= setBacking[k] /\ vault.book[k].redeemed = 0
      BY <2>2, ClaimsSettled
    <3>2. setBacking[k] = Secured(vault, k) /\ Secured(vault, k) \in Int
      BY <1>1, <2>2, SecuredInt DEF InStep
    <3> QED BY <3>1, <3>2
  <2> QED BY <2>1, <2>2
<1>4. \A k \in Markets : Settled(k) => Settled(k)'
  BY DEF Progressed, Settled
<1> QED BY <1>1, <1>2, <1>3, <1>4, InStepNext DEF InStep

\* Loans and complete sets are in step for good, given the invariant of before.
LEMMA NextInStep ==
    ASSUME Matched, Kept, InStep, [Next]_vars
    PROVE  InStep'
<1>1. TypeOK /\ Sound /\ VerdictKept
  BY DEF Kept, Sound
<1>2. CASE Next
  <2>1. LifecycleStep \/ (Traded /\ Secures) \/ Withdraws
    BY <1>1, <1>2, StepSecures
  <2>2. CASE LifecycleStep
    <3>1. Progressed
      BY <1>1, <2>2, LifecycleProgressed
    <3> QED BY <2>2, <3>1, VaultInStep DEF LifecycleStep, tokenVars
  <2>3. CASE Traded /\ Secures
    BY <2>3, SecuresInStep
  <2>4. CASE Withdraws
    BY <2>4, WithdrawsInStep
  <2> QED BY <2>1, <2>2, <2>3, <2>4
<1>3. CASE UNCHANGED vars
  <2>1. Progressed
    BY <1>1, <1>3 DEF vars, lifecycleVars, TypeOK, VerdictKept, Progressed
  <2> QED BY <1>3, <2>1, VaultInStep DEF vars, tokenVars
<1> QED BY <1>2, <1>3

\* Nothing is lent at the start.
LEMMA InitInStep ==
    ASSUME Init
    PROVE  InStep
<1>1. /\ vault.book = [m \in Markets |-> zero_accounting]
      /\ vault.used = [k \in Positions |-> 0] /\ vault.parentDebt = [k \in Positions |-> 0]
      /\ vault.children = [k \in Positions |-> <<>>]
      /\ vault.childDebt = [a \in Accounts |-> 0] /\ vault.parent = [a \in Accounts |-> NoParent]
      /\ setBacking = [m \in Markets |-> 0]
  BY DEF Init, VaultInit, TokensInit
<1>2. Loans(vault)
  <2>1. ASSUME NEW l \in CreditLines, NEW u \in Traders
        PROVE  Known(vault, l, u) /\ Even(vault, l, u)
    <3>1. BackedBy(l, u) \in Positions /\ OwedBy(l, u) \in Accounts
      BY LineParts
    <3> QED BY <1>1, <3>1 DEF Known, Even
  <2> QED BY <1>1, <2>1 DEF Loans
<1>3. ASSUME NEW m \in Markets
      PROVE  setBacking[m] = Secured(vault, m)
  <2>1. LentOut(vault, m) = 0
    <3>1. PICK S : S = {k \in Positions : k[1] = m}
      OBVIOUS
    <3>2. IsFiniteSet(S)
      BY <3>1, PositionsFinite
    <3>3. \A k \in S : vault.parentDebt[k] = 0
      BY <1>1, <3>1
    <3>4. SumFunctionOnSet(vault.parentDebt, S) = 0
      BY <3>2, <3>3, SumZeros
    <3> QED BY <3>1, <3>4 DEF LentOut
  <2>2. vault.book[m].backing = 0 /\ vault.book[m].shortfall = 0 /\ setBacking[m] = 0
    BY <1>1 DEF zero_accounting
  <2> QED BY <2>1, <2>2 DEF Secured
<1>4. \A m \in Markets : ~Settled(m)
  BY DEF Init, LifecycleInit, Settled
<1> QED BY <1>2, <1>3, <1>4 DEF InStep

\* SetsBacked: until a market settles, the complete sets on the books of the
\* conditional tokens are what the vault has, has lent and has lost for it,
\* and no side has more positions than that; once it has, the claims of its
\* holders are covered by what was not redeemed of the collateral, the loans
\* and the shortfall.  The lines of credit must not meet:
\* with several children behind one position the code loses track of them.
THEOREM SetsAlwaysBacked == Matched => (Spec => []SetsBacked)
<1> SUFFICES ASSUME Matched PROVE Spec => []SetsBacked
  OBVIOUS
<1>1. Init => Kept /\ InStep
  BY InitKept, InitInStep
<1>2. Kept /\ InStep /\ [Next]_vars => (Kept /\ InStep)'
  BY NextKept, NextInStep
<1>3. Kept /\ InStep => SetsBacked
  BY SupplyNow DEF Kept, InStep, SetsKept, SetsBacked
<1> QED BY <1>1, <1>2, <1>3, PTL DEF Spec

\* DebtIsCreditUsed: what a position owes is the credit used on it, which
\* liquidate_position reads, and no step updates one without the other.
THEOREM DebtAlwaysCreditUsed == Matched => (Spec => []DebtIsCreditUsed)
<1> SUFFICES ASSUME Matched PROVE Spec => []DebtIsCreditUsed
  OBVIOUS
<1>1. Init => Kept /\ InStep
  BY InitKept, InitInStep
<1>2. Kept /\ InStep /\ [Next]_vars => (Kept /\ InStep)'
  BY NextKept, NextInStep
<1>3. InStep => DebtIsCreditUsed
  BY DEF InStep, Loans, DebtIsCreditUsed
<1> QED BY <1>1, <1>2, <1>3, PTL DEF Spec

-----------------------------------------------------------------------------
(* The credit limit.  Where no market lends and borrows, a stake falls only  *)
(* where nothing is owed, or with the loan it backs.                        *)

Within(v, k) == v.parentDebt[k] <= collateral_limit(v.stake[k])
Limited(v)   == \A k \in Positions : Within(v, k)

\* Less is owed on k, or more is staked, than before.
Covers(v, w, k) == w.parentDebt[k] <= v.parentDebt[k] /\ v.stake[k] <= w.stake[k]

\* Paying g of what is staked and g of what is owed keeps the limit.
LEMMA LimitSpent ==
    ASSUME NEW p \in Nat, NEW s \in Nat, NEW g \in Nat, p <= collateral_limit(s)
    PROVE  Spend(p, g) <= collateral_limit(Spend(s, g))
<1>1. PICK x : x = collateral_limit(s)
  OBVIOUS
<1>2. x \in Nat /\ x * 10000 <= s * 6000 /\ p <= x
  BY <1>1, LimitDefined
<1>3. p <= s
  BY <1>2
<1>4. CASE s <= g
  <2>1. Spend(p, g) = 0 /\ Spend(s, g) = 0
    BY <1>3, <1>4 DEF Spend, Least
  <2> QED BY <2>1, LimitBounds
<1>5. CASE g < s
  <2>1. Spend(s, g) = s - g /\ s - g \in Nat
    BY <1>5 DEF Spend, Least
  <2>2. PICK y : y = collateral_limit(s - g)
    OBVIOUS
  <2>3. y \in Nat /\ (s - g) * 6000 < (y + 1) * 10000
    BY <2>1, <2>2, LimitDefined
  <2>4. (s - g) * 6000 = s * 6000 - g * 6000
    OBVIOUS
  <2>5. p - g <= y
    BY <1>2, <2>3, <2>4
  <2>6. Spend(p, g) <= y
    BY <2>3, <2>5 DEF Spend, Least
  <2> QED BY <2>1, <2>2, <2>6
<1> QED BY <1>4, <1>5

\* Where less is owed on more, the limit holds; elsewhere there may be other reasons.
LEMMA CoveredLimit ==
    ASSUME NEW v \in Vaults, NEW w \in Vaults, Limited(v),
           \A k \in Positions : Covers(v, w, k) \/ Within(w, k)
    PROVE  Limited(w)
<1> SUFFICES ASSUME NEW k \in Positions PROVE Within(w, k)
  BY DEF Limited
<1>1. CASE Within(w, k)
  BY <1>1
<1>2. CASE Covers(v, w, k)
  <2>1. PICK d, e, s, t : /\ d = v.parentDebt[k] /\ e = w.parentDebt[k]
                          /\ s = v.stake[k] /\ t = w.stake[k]
    OBVIOUS
  <2>2. d \in Nat /\ e \in Nat /\ s \in Nat /\ t \in Nat
    BY <2>1, VaultFields
  <2>3. e <= d /\ s <= t /\ d <= collateral_limit(s)
    BY <1>2, <2>1 DEF Covers, Limited, Within
  <2>4. collateral_limit(s) <= collateral_limit(t)
    BY <2>2, <2>3, LimitMonotone
  <2>5. collateral_limit(s) \in Nat /\ collateral_limit(t) \in Nat
    BY <2>2, LimitBounds
  <2>6. e <= collateral_limit(t)
    BY <2>2, <2>3, <2>4, <2>5
  <2> QED BY <2>1, <2>6 DEF Within
<1> QED BY <1>1, <1>2

\* A position that owes nothing is within its limit.
LEMMA FreeWithin ==
    ASSUME NEW v \in Vaults, NEW k \in Positions, v.parentDebt[k] = 0
    PROVE  Within(v, k)
<1>1. v.stake[k] \in Nat
  BY VaultFields
<1> QED BY <1>1, LimitBounds DEF Within

\* Money moves without a word about loans and stakes.
LEMMA SameLimit ==
    ASSUME NEW v, NEW w, Limited(v), SameLoans(v, w), w.stake = v.stake
    PROVE  Limited(w)
BY DEF Limited, Within, SameLoans

\* Debts that are settled only fall.
LEMMA SettledLimit ==
    ASSUME NEW v \in Vaults, NEW w, NEW paid, Settles(v, w, paid), Limited(v)
    PROVE  Limited(w)
<1>1. w \in Vaults
  BY DEF Settles
<1>2. \A k \in Positions : Covers(v, w, k)
  <2> SUFFICES ASSUME NEW k \in Positions PROVE Covers(v, w, k)
    OBVIOUS
  <2>1. v.stake[k] \in Nat
    BY VaultFields
  <2> QED BY <2>1 DEF Settles, Covers
<1> QED BY <1>1, <1>2, CoveredLimit

\* A stake that is recorded only grows.
LEMMA StakedLimit ==
    ASSUME NEW v \in Vaults, Limited(v), NEW u \in Traders, NEW m \in Markets, NEW o \in Sides,
           NEW a \in Nat, NEW w \in Vaults, w = record_cash_stake(v, u, m, o, a)
    PROVE  Limited(w)
<1>1. v.stake \in [Positions -> Nat] /\ v.parentDebt \in [Positions -> Nat]
  BY VaultFields
<1>2. w.parentDebt = v.parentDebt /\ w.stake = [v.stake EXCEPT ![<<m, u, o>>] = @ + a]
  BY DEF record_cash_stake, Vaults
<1>3. ASSUME NEW k \in Positions PROVE Covers(v, w, k)
  <2>1. v.stake[k] \in Nat /\ v.parentDebt[k] \in Nat /\ w.parentDebt[k] = v.parentDebt[k]
    BY <1>1, <1>2
  <2>2. CASE k = <<m, u, o>>
    <3>1. w.stake[k] = v.stake[k] + a
      BY <1>1, <1>2, <2>2
    <3> QED BY <2>1, <3>1 DEF Covers
  <2>3. CASE k # <<m, u, o>>
    <3>1. w.stake[k] = v.stake[k]
      BY <1>1, <1>2, <2>3
    <3> QED BY <2>1, <3>1 DEF Covers
  <2> QED BY <2>2, <2>3
<1> QED BY <1>3, CoveredLimit

\* open_child_credit_for_trade asks for the limit before it lends.
LEMMA LentLimit ==
    ASSUME NEW v \in Vaults, Loans(v), Limited(v), NEW u \in Traders, NEW p \in Markets,
           NEW po \in Sides, NEW c \in Markets, NEW amount \in Nat,
           WithinLimit(v, <<p, u, po>>, amount),
           NEW w, w = open_child_credit_for_trade(v, u, p, po, c, amount)
    PROVE  Limited(w)
<1>1. PICK x : x = Lent(v, u, p, po, c, amount)
  OBVIOUS
<1>2. x \in Vaults /\ LentBook(v, u, p, po, c, amount, x)
  BY <1>1, LentFields
<1>3. PICK key \in Positions : key = <<p, u, po>>
  BY DEF Positions
<1>4. /\ v.parentDebt \in [Positions -> Nat] /\ v.used[key] = v.parentDebt[key]
      /\ v.stake \in [Positions -> Nat]
  BY VaultFields DEF Loans
<1>5. x.stake = v.stake /\ x.parentDebt = [v.parentDebt EXCEPT ![key] = @ + amount]
  BY <1>2, <1>3 DEF LentBook
<1>6. Within(x, key)
  <2>1. v.used[key] + amount <= collateral_limit(v.stake[key])
    BY <1>3 DEF WithinLimit
  <2>2. x.parentDebt[key] = v.used[key] + amount /\ x.stake[key] = v.stake[key]
    BY <1>4, <1>5
  <2> QED BY <2>1, <2>2 DEF Within
<1>7. ASSUME NEW k \in Positions PROVE Covers(v, x, k) \/ Within(x, k)
  <2>1. CASE k = key
    BY <1>6, <2>1
  <2>2. CASE k # key
    <3>1. x.parentDebt[k] = v.parentDebt[k] /\ x.stake[k] = v.stake[k]
      BY <1>4, <1>5, <2>2
    <3>2. v.parentDebt[k] \in Nat /\ v.stake[k] \in Nat
      BY <1>4
    <3> QED BY <3>1, <3>2 DEF Covers
  <2> QED BY <2>1, <2>2
<1>8. Limited(x)
  BY <1>2, <1>7, CoveredLimit
<1>9. PICK n, y : n \in Int /\ n = 0 - amount /\ y = Credited(x, p, n)
  OBVIOUS
<1>10. Credits(x, y, p, n)
  BY <1>2, <1>9, CreditedBy
<1>11. y \in Vaults /\ Limited(y)
  BY <1>8, <1>10, SameLimit DEF Credits, SameAccounts
<1>12. w = Credited(y, c, amount) /\ amount \in Int
  BY <1>1, <1>9 DEF open_child_credit_for_trade
<1>13. Credits(y, w, c, amount)
  BY <1>11, <1>12, CreditedBy
<1> QED BY <1>11, <1>13, SameLimit DEF Credits, SameAccounts

\* What a fee leaves.
LEMMA CollectLimit ==
    ASSUME NEW v \in Vaults, Limited(v), NEW m \in Markets, NEW f \in FeeShares,
           NEW w, w = collect_fee(v, m, f)
    PROVE  w \in Vaults /\ Limited(w) /\ SameLoans(v, w)
<1>1. w \in Vaults /\ SameAccounts(v, w)
  BY CollectedBook
<1> QED BY <1>1, SameLimit DEF SameAccounts

\* The sale of a position takes from its own stake, and debts are then settled.
LEMMA ReleasedLimit ==
    ASSUME NEW v \in Vaults, BooksKept(v), LoansKept(v), Limited(v), NEW u \in Traders,
           NEW m \in Markets, NEW o \in Sides, NEW sold \in Nat, NEW a \in Nat,
           HasBacking(v, m, a), NEW x, x = release_trade_payout(v, u, m, o, sold, a),
           NEW w \in Vaults, NEW paid, Settles(x, w, paid),
           w.parentDebt[<<m, u, o>>] = 0
    PROVE  Limited(w)
<1>1. /\ SameLoans(v, x) /\ x.stake = [v.stake EXCEPT ![<<m, u, o>>] = Spend(@, sold)]
  BY ReleaseBooked
<1>2. v.stake \in [Positions -> Nat]
  BY VaultFields
<1>3. ASSUME NEW k \in Positions PROVE Covers(v, w, k) \/ Within(w, k)
  <2>1. CASE k = <<m, u, o>>
    BY <2>1, FreeWithin
  <2>2. CASE k # <<m, u, o>>
    <3>1. w.stake[k] = v.stake[k]
      BY <1>1, <1>2, <2>2 DEF Settles
    <3>2. w.parentDebt[k] <= v.parentDebt[k]
      BY <1>1 DEF Settles, SameLoans
    <3>3. v.stake[k] \in Nat
      BY <1>2
    <3> QED BY <3>1, <3>2, <3>3 DEF Covers
  <2> QED BY <2>1, <2>2
<1> QED BY <1>3, CoveredLimit

\* No market both lends and borrows.
Apart == Lenders \cap Borrowers = {}

\* liquidate_release
LEMMA LiquidationLimit ==
    ASSUME Matched, NEW v \in Vaults, BooksKept(v), LoansKept(v), Loans(v), Limited(v),
           NEW u \in Traders, NEW m \in Markets, NEW o \in Sides, v.used[<<m, u, o>>] # 0,
           NEW sold \in Nat, NEW proceeds \in Nat, HasBacking(v, m, proceeds),
           NEW r, r = liquidate_release(v, u, m, o, sold, proceeds)
    PROVE  Limited(r.vault)
<1>1. PICK x, w : x = release_trade_payout(v, u, m, o, sold, proceeds) /\ w = r.vault
  OBVIOUS
<1>2. PICK b \in Int : Settles(Extracted(v, u, m, o, sold, proceeds), r.vault, b)
  BY LiquidationBooked
<1>3. Settles(x, w, b) /\ w \in Vaults
  BY <1>1, <1>2 DEF Extracted, Settles
<1>4. w.parentDebt[<<m, u, o>>] = 0
  BY <1>1, LiquidationCarries
<1>5. Limited(w)
  BY <1>1, <1>3, <1>4, ReleasedLimit
<1> QED BY <1>1, <1>5

\* liquidate_child_release: who borrows in a market backs no loan in it.
LEMMA ChildLiquidationLimit ==
    ASSUME Apart, NEW v \in Vaults, BooksKept(v), LoansKept(v), Limited(v),
           NEW u \in Traders, NEW m \in Markets, NEW o \in Sides, v.childDebt[<<m, u>>] # 0,
           NEW sold \in Nat, NEW proceeds \in Nat, HasBacking(v, m, proceeds),
           NEW r, r = liquidate_child_release(v, u, m, o, sold, proceeds)
    PROVE  Limited(r.vault)
<1>1. PICK x, w : x = release_trade_payout(v, u, m, o, sold, proceeds) /\ w = r.vault
  OBVIOUS
<1>2. PICK b \in Int : Settles(Extracted(v, u, m, o, sold, proceeds), r.vault, b)
  BY ChildLiquidationBooked
<1>3. Settles(x, w, b) /\ w \in Vaults
  BY <1>1, <1>2 DEF Extracted, Settles
<1>4. w.parentDebt[<<m, u, o>>] = 0
  <2>1. m \in Borrowers
    <3>1. <<m, u>> \in Accounts /\ <<m, u>>[1] = m
      BY DEF Accounts
    <3> QED BY <3>1 DEF LoansKept
  <2>2. m \notin Lenders
    BY <2>1 DEF Apart
  <2>3. LoansKept(w)
    <3>1. Booked(v, r.vault, m, 0 - proceeds, 0, 0 - (r.bonus + r.remainder))
      BY ChildLiquidationBooked
    <3> QED BY <1>1, <3>1 DEF Booked
  <2>4. <<m, u, o>> \in Positions /\ <<m, u, o>>[1] = m
    BY DEF Positions
  <2> QED BY <2>2, <2>3, <2>4 DEF LoansKept
<1>5. Limited(w)
  BY <1>1, <1>3, <1>4, ReleasedLimit
<1> QED BY <1>1, <1>5

\* half_refund leaves loans and stakes alone.
LEMMA HalfLimit ==
    ASSUME NEW v \in Vaults, BooksKept(v), LoansKept(v), Limited(v), NEW m \in Markets,
           NEW amount \in Nat, NEW h, h = half_refund(v, m, amount)
    PROVE  /\ h.gross \in Nat /\ h.vault \in Vaults /\ BooksKept(h.vault) /\ LoansKept(h.vault)
           /\ Limited(h.vault)
<1>1. /\ h.gross \in Nat /\ h.gross = (v.carry[m] + amount) \div 2 /\ h.vault \in Vaults
      /\ h.vault.carry = [v.carry EXCEPT ![m] = (v.carry[m] + amount) - 2 * h.gross]
      /\ h.vault.book = v.book /\ h.vault.reserve = v.reserve
      /\ SameLoans(v, h.vault) /\ h.vault.stake = v.stake
      /\ BooksKept(h.vault) /\ LoansKept(h.vault)
  BY HalfRefund
<1> QED BY <1>1, SameLimit

\* So does a payment.
LEMMA PaidLimit ==
    ASSUME NEW v \in Vaults, Limited(v), NEW m \in Markets, NEW a \in Nat,
           NEW w, w = PaidOut(v, m, a)
    PROVE  Limited(w)
<1>1. Paid(v, w, m, a)
  BY PaidBook
<1> QED BY <1>1, SameLimit DEF Paid, SameAccounts

\* redeem_cancelled leaves the stake, and pays from the claim what it backs.
LEMMA CancelledLimit ==
    ASSUME NEW v \in Vaults, BooksKept(v), LoansKept(v), Limited(v), NEW u \in Traders,
           NEW m \in Markets, NEW o \in Sides, NEW amount \in Nat,
           NEW r, r = redeem_cancelled(v, u, m, o, amount)
    PROVE  Limited(r.vault)
<1>1. PICK h : h = half_refund(v, m, amount)
  OBVIOUS
<1>2. PICK x, g : x = h.vault /\ g = h.gross
  OBVIOUS
<1>3. g \in Nat /\ x \in Vaults /\ BooksKept(x) /\ LoansKept(x) /\ Limited(x)
  BY <1>1, <1>2, HalfLimit
<1>4. PICK own : own = withhold_parent_debt(x, m, u, o, g, g)
  OBVIOUS
<1>5. PICK y, repaid : y = own.vault /\ repaid = own.repaid
  OBVIOUS
<1>6. Settles(x, y, repaid)
  BY <1>3, <1>4, <1>5, Withheld
<1>7. y \in Vaults /\ Limited(y)
  BY <1>3, <1>6, SettledLimit DEF Settles
<1>8. PICK payout, w : payout = r.payout /\ w = r.vault
  OBVIOUS
<1>9. w = PaidOut(y, m, payout) /\ payout \in Nat
  <2>1. r.vault = PaidOut(y, m, r.payout)
    BY <1>1, <1>2, <1>4, <1>5 DEF redeem_cancelled
  <2>2. r.payout \in Nat
    BY CancelledRedeemed DEF Redeems
  <2> QED BY <1>8, <2>1, <2>2
<1>10. Limited(w)
  BY <1>7, <1>9, PaidLimit
<1> QED BY <1>8, <1>10

\* The claim of redeem_resolved likewise.
LEMMA ClaimLimit ==
    ASSUME NEW v \in Vaults, BooksKept(v), LoansKept(v), Limited(v), NEW m \in Markets,
           NEW o \in Sides, NEW amount \in Nat, NEW final,
           NEW h, h = ClaimOf(v, m, o, amount, final)
    PROVE  /\ h.gross \in Nat /\ h.vault \in Vaults /\ BooksKept(h.vault) /\ LoansKept(h.vault)
           /\ Limited(h.vault)
<1>0. o # "Invalid"
  BY DEF Sides
<1>1. CASE final = "Invalid"
  <2>1. h = half_refund(v, m, amount)
    BY <1>0, <1>1 DEF ClaimOf
  <2> QED BY <2>1, HalfLimit
<1>2. CASE final # "Invalid" /\ final = o
  <2>1. h = [gross |-> amount, vault |-> v]
    BY <1>2 DEF ClaimOf
  <2> QED BY <2>1
<1>3. CASE final # "Invalid" /\ final # o
  <2>1. h = [gross |-> 0, vault |-> v]
    BY <1>3 DEF ClaimOf
  <2> QED BY <2>1
<1> QED BY <1>1, <1>2, <1>3

\* withhold_parent_debt, with the stake that is redeemed after it.
LEMMA RedeemedStake ==
    ASSUME NEW z \in Vaults, BooksKept(z), LoansKept(z), Limited(z), NEW m \in Markets,
           NEW u \in Traders, NEW o \in Sides, NEW g \in Nat, NEW claim \in Nat,
           m \in Lenders => claim = g,
           NEW own, own = withhold_parent_debt(z, m, u, o, g, claim), NEW y, y = own.vault,
           NEW q, q = [y EXCEPT !.stake[<<m, u, o>>] = Spend(@, g)]
    PROVE  q \in Vaults /\ Limited(q)
<1>1. PICK key \in Positions : key = <<m, u, o>> /\ key[1] = m
  BY DEF Positions
<1>2. PICK repaid : repaid = own.repaid
  OBVIOUS
<1>3. /\ Settles(z, y, repaid)
      /\ y.parentDebt[key] <= Spend(z.parentDebt[key], claim)
  <2>1. /\ own.repaid \in Nat /\ own.repaid <= claim
        /\ m \notin Lenders => own.repaid = 0
        /\ Settles(z, own.vault, own.repaid)
        /\ own.vault.parentDebt[<<m, u, o>>] <= Spend(z.parentDebt[<<m, u, o>>], claim)
    BY Withheld
  <2> QED BY <1>1, <1>2, <2>1
<1>4. y \in Vaults /\ y.stake = z.stake
  BY <1>3 DEF Settles
<1>5. PICK st : st = [y.stake EXCEPT ![key] = Spend(@, g)]
  OBVIOUS
<1>6. y.stake \in [Positions -> Nat] /\ y.parentDebt \in [Positions -> Nat]
  BY <1>4, VaultFields
<1>7. st \in [Positions -> Nat]
  <2>1. Spend(y.stake[key], g) \in Nat
    BY <1>6, SpendBounds
  <2> QED BY <1>5, <1>6, <2>1
<1>8. q = [y EXCEPT !.stake = st]
  BY <1>1, <1>4, <1>5 DEF Vaults
<1>9. q \in Vaults /\ q.stake = st /\ q.parentDebt = y.parentDebt
  BY <1>4, <1>7, <1>8 DEF Vaults
<1>10. Within(q, key)
  <2>1. PICK p, s, d : p = z.parentDebt[key] /\ s = z.stake[key] /\ d = y.parentDebt[key]
    OBVIOUS
  <2>2. p \in Nat /\ s \in Nat /\ d \in Nat /\ p <= collateral_limit(s)
    BY <1>6, <2>1, VaultFields DEF Limited, Within
  <2>3. q.parentDebt[key] = d /\ q.stake[key] = Spend(s, g)
    BY <1>4, <1>5, <1>6, <1>9, <2>1
  <2>4. CASE m \in Lenders
    <3>1. d <= Spend(p, g)
      BY <1>3, <2>1, <2>4
    <3>2. Spend(p, g) <= collateral_limit(Spend(s, g))
      BY <2>2, LimitSpent
    <3>3. Spend(p, g) \in Nat /\ Spend(s, g) \in Nat
      BY <2>2, SpendBounds
    <3>4. collateral_limit(Spend(s, g)) \in Nat
      BY <3>3, LimitBounds
    <3>5. d <= collateral_limit(Spend(s, g))
      BY <2>2, <3>1, <3>2, <3>3, <3>4
    <3> QED BY <2>3, <3>5 DEF Within
  <2>5. CASE m \notin Lenders
    <3>1. p = 0
      BY <1>1, <2>1, <2>5 DEF LoansKept
    <3>2. d <= p
      BY <1>3, <2>1 DEF Settles
    <3>3. q.parentDebt[key] = 0
      BY <2>2, <2>3, <3>1, <3>2
    <3> QED BY <1>9, <3>3, FreeWithin
  <2> QED BY <2>4, <2>5
<1>11. ASSUME NEW k \in Positions PROVE Covers(z, q, k) \/ Within(q, k)
  <2>1. CASE k = key
    BY <1>10, <2>1
  <2>2. CASE k # key
    <3>1. q.stake[k] = z.stake[k] /\ q.parentDebt[k] <= z.parentDebt[k]
      BY <1>3, <1>4, <1>5, <1>6, <1>9, <2>2 DEF Settles
    <3>2. z.stake[k] \in Nat
      BY VaultFields
    <3> QED BY <3>1, <3>2 DEF Covers
  <2> QED BY <2>1, <2>2
<1>12. Limited(q)
  BY <1>9, <1>11, CoveredLimit
<1> QED BY <1>9, <1>12

\* redeem_resolved takes from the stake what it redeems, and from the loan as much.
LEMMA ResolvedLimit ==
    ASSUME Apart, NEW v \in Vaults, BooksKept(v), LoansKept(v), Limited(v), NEW u \in Traders,
           NEW m \in Markets, NEW o \in Sides, NEW amount \in Nat, NEW final,
           NEW r, r = redeem_resolved(v, u, m, o, amount, final)
    PROVE  Limited(r.vault)
<1>1. PICK h : h = ClaimOf(v, m, o, amount, final)
  OBVIOUS
<1>2. PICK x, g : x = h.vault /\ g = h.gross
  OBVIOUS
<1>3. g \in Nat /\ x \in Vaults /\ BooksKept(x) /\ LoansKept(x) /\ Limited(x)
  BY <1>1, <1>2, ClaimLimit
<1>4. PICK s : s = settle_child_debt(x, m, u, g)
  OBVIOUS
<1>5. PICK t, a : t = s.vault /\ a = s.applied
  OBVIOUS
<1>6. /\ Settles(x, t, a) /\ a \in Nat /\ a <= g /\ a <= x.childDebt[<<m, u>>]
  BY <1>3, <1>4, <1>5, DebtSettled
<1>7. t \in Vaults /\ Limited(t)
  BY <1>3, <1>6, SettledLimit DEF Settles
<1>8. PICK b, z : b \in Int /\ b = 0 - a /\ z = Credited(t, m, b)
  BY <1>6
<1>9. z \in Vaults /\ Limited(z)
  <2>1. Credits(t, z, m, b)
    BY <1>7, <1>8, CreditedBy
  <2> QED BY <1>7, <2>1, SameLimit DEF Credits, SameAccounts
<1>10. BooksKept(z) /\ LoansKept(z)
  <2>1. z = Credited(s.vault, m, 0 - s.applied)
    BY <1>5, <1>8
  <2>2. UpstreamOf(x, z, m, g, s.applied)
    BY <1>3, <1>4, <2>1, UpstreamPaid
  <2> QED BY <2>2 DEF UpstreamOf
<1>11. PICK claim, own, y : /\ claim = g - a
                            /\ own = withhold_parent_debt(z, m, u, o, g, claim)
                            /\ y = own.vault
  OBVIOUS
<1>12. claim \in Nat /\ (m \in Lenders => claim = g)
  <2>1. ASSUME m \in Lenders PROVE a = 0
    <3>1. m \notin Borrowers
      BY <2>1 DEF Apart
    <3>2. <<m, u>> \in Accounts /\ <<m, u>>[1] = m
      BY DEF Accounts
    <3>3. x.childDebt[<<m, u>>] = 0
      BY <1>3, <3>1, <3>2 DEF LoansKept
    <3> QED BY <1>6, <3>3
  <2> QED BY <1>3, <1>6, <1>11, <2>1
<1>13. PICK q : q = [y EXCEPT !.stake[<<m, u, o>>] = Spend(@, g)]
  OBVIOUS
<1>14. q \in Vaults /\ Limited(q)
  BY <1>3, <1>9, <1>10, <1>11, <1>12, <1>13, RedeemedStake
<1>15. PICK payout, w : payout = r.payout /\ w = r.vault
  OBVIOUS
<1>16. w = PaidOut(q, m, payout) /\ payout \in Nat
  <2>1. r.vault = PaidOut(q, m, r.payout)
    <3>1. h = CASE final = "Invalid" -> half_refund(v, m, amount)
                [] final = o -> [gross |-> amount, vault |-> v]
                [] OTHER -> [gross |-> 0, vault |-> v]
      BY <1>1 DEF ClaimOf
    <3> DEFINE pay == capped_payout(y, m, (g - a) - own.repaid)
    <3>2. r = [payout |-> pay, vault |-> PaidOut(q, m, pay)]
      BY <1>2, <1>4, <1>5, <1>8, <1>11, <1>13, <3>1, Zenon DEF redeem_resolved
    <3> HIDE DEF pay
    <3> QED BY <3>2
  <2>2. r.payout \in Nat
    <3>1. PICK gross : gross = GrossOf(v, m, o, amount, final)
      OBVIOUS
    <3>2. Redeems(v, r.vault, m, gross, r.payout)
      BY <3>1, ResolvedRedeemed
    <3> QED BY <3>2 DEF Redeems
  <2> QED BY <1>15, <2>1, <2>2
<1>17. Limited(w)
  BY <1>14, <1>16, PaidLimit
<1> QED BY <1>15, <1>17

-----------------------------------------------------------------------------
(* Every step keeps the limit.                                              *)

\* What a purchase is funded with is in its limits, and so is what is left of it.
LEMMA BoughtLimit ==
    ASSUME Sound, InStep, NEW u \in Traders, NEW m \in Markets, NEW o \in Sides, NEW a \in Nat,
           CanBuy(m, o, a), NEW q, q = BuyQuote(m, o, a), NEW funded \in Vaults,
           Limited(funded), Bought(funded, u, m, o, q)
    PROVE  Limited(vault')
<1>1. PoolsTypeOK /\ CanQuote(m) /\ q.net_in > 0
  BY InStepFields DEF CanBuy
<1>2. q.fee \in Nat
  <2> DEFINE d == [s \in Sides |-> q.net_in - (IF s = o THEN q.out ELSE 0)]
  <2>1. \A s \in Sides : d[s] = q.net_in - (IF s = o THEN q.out ELSE 0)
    OBVIOUS
  <2> HIDE DEF d
  <2> QED BY <1>1, <2>1, PoolBought
<1>3. PICK f : f = FeeParts(q.fee) /\ f \in FeeShares
  BY <1>2, FeePartsSum
<1>4. vault' = collect_fee(funded, m, f)
  BY <1>3 DEF Bought
<1> QED BY <1>3, <1>4, CollectLimit

\* buy
LEMMA BuyLimit ==
    ASSUME Sound, InStep, Limited(vault), NEW u \in Traders, NEW m \in Markets,
           NEW o \in Sides, NEW a \in Amounts, buy(u, m, o, a)
    PROVE  Limited(vault')
<1>1. PICK q : q = BuyQuote(m, o, a)
  OBVIOUS
<1>2. PICK x, funded : /\ x = Credited(vault, m, a)
                       /\ funded = record_cash_stake(x, u, m, o, a)
  OBVIOUS
<1>3. CanBuy(m, o, a) /\ Bought(funded, u, m, o, q)
  BY <1>1, <1>2 DEF buy, deposit_for_market
<1>4. /\ a \in Nat /\ a \in Int /\ vault \in Vaults /\ BooksKept(vault) /\ LoansKept(vault)
      /\ Loans(vault)
  BY InStepFields, TradingAssumption
<1>5. x \in Vaults /\ BooksKept(x) /\ LoansKept(x)
  <2>1. Booked(vault, x, m, a, 0, a)
    BY <1>2, <1>4, CreditBooked
  <2> QED BY <2>1 DEF Booked
<1>6. Limited(x)
  <2>1. Credits(vault, x, m, a)
    BY <1>2, <1>4, CreditedBy
  <2> QED BY <2>1, SameLimit DEF Credits, SameAccounts
<1>7. funded \in Vaults
  <2>1. Booked(x, funded, m, 0, 0, 0)
    BY <1>2, <1>4, <1>5, StakeRecorded
  <2> QED BY <2>1 DEF Booked
<1>8. Limited(funded)
  BY <1>2, <1>4, <1>5, <1>6, <1>7, StakedLimit
<1> QED BY <1>1, <1>3, <1>4, <1>7, <1>8, BoughtLimit

\* buy_child
LEMMA BuyChildLimit ==
    ASSUME Matched, Sound, InStep, Limited(vault), NEW u \in Traders, NEW l \in CreditLines,
           NEW o \in Sides, NEW a \in Amounts, buy_child(u, l[1], l[2], l[3], o, a)
    PROVE  Limited(vault')
<1>1. PICK p \in Markets, po \in Sides, m \in Markets : p = l[1] /\ po = l[2] /\ m = l[3]
  BY LineParts
<1>2. PICK q, funded :
        /\ q = BuyQuote(m, o, a)
        /\ funded = open_child_credit_for_trade(vault, u, p, po, m, a)
  OBVIOUS
<1>3. CanBuy(m, o, a) /\ CanOpenCredit(vault, u, p, po, m, a) /\ Bought(funded, u, m, o, q)
  BY <1>1, <1>2 DEF buy_child
<1>4. a \in Nat /\ vault \in Vaults /\ Loans(vault)
  BY InStepFields, TradingAssumption
<1>5. funded \in Vaults
  <2>1. CanOpenCredit(vault, u, l[1], l[2], l[3], a)
    BY <1>1, <1>3
  <2>2. funded = open_child_credit_for_trade(vault, u, l[1], l[2], l[3], a)
    BY <1>1, <1>2
  <2>3. Carries(vault, funded, l[3], a)
    BY <1>4, <2>1, <2>2, OpenedCarries
  <2> QED BY <2>3 DEF Carries
<1>6. Limited(funded)
  <2>1. WithinLimit(vault, <<p, u, po>>, a)
    BY <1>3 DEF CanOpenCredit
  <2> QED BY <1>2, <1>4, <2>1, LentLimit
<1> QED BY <1>2, <1>3, <1>4, <1>5, <1>6, BoughtLimit

\* sell: a position that owes nothing.
LEMMA SellLimit ==
    ASSUME Sound, InStep, Limited(vault), NEW u \in Traders, NEW m \in Markets,
           NEW o \in Sides, NEW a \in Parts(pos[<<m, u, o>>]), sell(u, m, o, a)
    PROVE  Limited(vault')
<1>1. PICK q, x, f : /\ q = SellQuote(m, o, a)
                     /\ x = release_trade_payout(vault, u, m, o, a, q.net)
                     /\ f = FeeParts(q.fee)
  OBVIOUS
<1>2. /\ HasBacking(vault, m, q.net) /\ vault' = collect_fee(x, m, f)
      /\ assert_position_transfer_allowed(vault, u, m, o)
      /\ SoldInto(u, m, o, a, q)
  BY <1>1 DEF sell
<1>3. /\ vault \in Vaults /\ BooksKept(vault) /\ LoansKept(vault)
      /\ setBacking \in [Markets -> Nat] /\ PoolsTypeOK
  BY InStepFields
<1>4. a \in Nat
  BY <1>1, InStepFields, TokenPart
<1>5. q.gross \in Nat /\ q.fee \in Nat /\ q.net \in Nat /\ q.fee + q.net = q.gross
  BY <1>1, <1>3, <1>4, QuoteParts
<1>6. f \in FeeShares
  BY <1>1, <1>5, FeePartsSum
<1>7. PICK net \in Nat : net = q.net
  BY <1>5
<1>8. x = release_trade_payout(vault, u, m, o, a, net) /\ HasBacking(vault, m, net)
  BY <1>1, <1>2, <1>7
<1>9. x \in Vaults /\ SameLoans(vault, x)
  <2>1. Booked(vault, x, m, 0 - net, 0, 0 - net)
    BY <1>3, <1>4, <1>8, ReleaseBooked
  <2>2. SameLoans(vault, x)
    BY <1>3, <1>4, <1>8, ReleaseBooked
  <2> QED BY <2>1, <2>2 DEF Booked
<1>10. Settles(x, x, 0) /\ x.parentDebt[<<m, u, o>>] = 0
  <2>1. vault.parentDebt[<<m, u, o>>] = 0
    BY <1>2 DEF assert_position_transfer_allowed
  <2> QED BY <1>9, <2>1, SettlesNothing DEF SameLoans
<1>11. Limited(x)
  BY <1>3, <1>4, <1>8, <1>9, <1>10, ReleasedLimit
<1> QED BY <1>2, <1>6, <1>9, <1>11, CollectLimit

\* A forced sale: its fee, then what the release makes of the loans.
LEMMA ForcedLimit ==
    ASSUME Sound, InStep, Limited(vault), NEW u \in Traders, NEW m \in Markets,
           NEW o \in Sides, NEW q, q = SellQuote(m, o, pos[<<m, u, o>>]),
           ForceSold(u, m, o, q), NEW x, x = collect_fee(vault, m, FeeParts(q.fee))
    PROVE  /\ q.net \in Nat /\ HasBacking(x, m, q.net) /\ x \in Vaults /\ BooksKept(x)
           /\ LoansKept(x) /\ Loans(x) /\ Limited(x) /\ SameLoans(vault, x)
<1>1. PICK a, f : a = pos[<<m, u, o>>] /\ f = FeeParts(q.fee)
  OBVIOUS
<1>2. /\ HasBacking(vault, m, FeesOf(f)) /\ HasBacking(x, m, q.net)
      /\ SoldInto(u, m, o, a, q)
  BY <1>1 DEF ForceSold
<1>3. /\ vault \in Vaults /\ BooksKept(vault) /\ LoansKept(vault) /\ Loans(vault)
      /\ pos \in [Tokens -> Nat] /\ PoolsTypeOK
  BY InStepFields
<1>4. a \in Nat
  BY <1>1, <1>3 DEF Tokens, Holders
<1>5. q.gross \in Nat /\ q.fee \in Nat /\ q.net \in Nat /\ q.fee + q.net = q.gross
  BY <1>1, <1>3, <1>4, QuoteParts
<1>6. f \in FeeShares /\ x = collect_fee(vault, m, f)
  BY <1>1, <1>5, FeePartsSum
<1>7. x \in Vaults /\ Limited(x) /\ SameLoans(vault, x)
  BY <1>3, <1>6, CollectLimit
<1>8. Loans(x)
  <2>1. Carries(vault, x, m, 0 - FeesOf(f))
    BY <1>3, <1>6, CollectCarries
  <2> QED BY <2>1 DEF Carries
<1>9. BooksKept(x) /\ LoansKept(x)
  <2>1. Booked(vault, x, m, 0 - FeesOf(f), f.lp, 0)
    BY <1>2, <1>3, <1>6, CollectBooked
  <2> QED BY <2>1 DEF Booked
<1> QED BY <1>2, <1>5, <1>7, <1>8, <1>9

\* liquidate_position
LEMMA LiquidateLimit ==
    ASSUME Matched, Sound, InStep, Limited(vault), NEW k \in Traders, NEW u \in Traders,
           NEW m \in Markets, NEW o \in Sides, liquidate_position(k, u, m, o)
    PROVE  Limited(vault')
<1>1. PICK q, x, r, a :
        /\ a = pos[<<m, u, o>>] /\ q = SellQuote(m, o, a)
        /\ x = collect_fee(vault, m, FeeParts(q.fee))
        /\ r = liquidate_release(x, u, m, o, a, q.net)
  OBVIOUS
<1>2. ForceSold(u, m, o, q) /\ vault' = r.vault /\ vault.used[<<m, u, o>>] > 0
  BY <1>1 DEF liquidate_position, Liquidatable, Released
<1>3. a \in Nat
  BY <1>1, SoundFields DEF Tokens, Holders
<1>4. /\ q.net \in Nat /\ HasBacking(x, m, q.net) /\ x \in Vaults /\ BooksKept(x)
      /\ LoansKept(x) /\ Loans(x) /\ Limited(x) /\ SameLoans(vault, x)
  <2>1. q = SellQuote(m, o, pos[<<m, u, o>>])
    BY <1>1
  <2> QED BY <1>1, <1>2, <2>1, ForcedLimit
<1>5. x.used[<<m, u, o>>] # 0
  BY <1>2, <1>4 DEF SameLoans
<1>6. PICK net \in Nat : net = q.net
  BY <1>4
<1>7. r = liquidate_release(x, u, m, o, a, net) /\ HasBacking(x, m, net)
  BY <1>1, <1>4, <1>6
<1>8. Limited(r.vault)
  BY <1>3, <1>4, <1>5, <1>7, LiquidationLimit
<1> QED BY <1>2, <1>8

\* liquidate_child_position
LEMMA LiquidateChildLimit ==
    ASSUME Apart, Sound, InStep, Limited(vault), NEW k \in Traders, NEW u \in Traders,
           NEW m \in Markets, NEW o \in Sides, liquidate_child_position(k, u, m, o)
    PROVE  Limited(vault')
<1>1. PICK q, x, r, a :
        /\ a = pos[<<m, u, o>>] /\ q = SellQuote(m, o, a)
        /\ x = collect_fee(vault, m, FeeParts(q.fee))
        /\ r = liquidate_child_release(x, u, m, o, a, q.net)
  OBVIOUS
<1>2. ForceSold(u, m, o, q) /\ vault' = r.vault /\ vault.childDebt[<<m, u>>] > 0
  BY <1>1 DEF liquidate_child_position, Liquidatable, Released
<1>3. a \in Nat
  BY <1>1, SoundFields DEF Tokens, Holders
<1>4. /\ q.net \in Nat /\ HasBacking(x, m, q.net) /\ x \in Vaults /\ BooksKept(x)
      /\ LoansKept(x) /\ Loans(x) /\ Limited(x) /\ SameLoans(vault, x)
  <2>1. q = SellQuote(m, o, pos[<<m, u, o>>])
    BY <1>1
  <2> QED BY <1>1, <1>2, <2>1, ForcedLimit
<1>5. x.childDebt[<<m, u>>] # 0
  BY <1>2, <1>4 DEF SameLoans
<1>6. PICK net \in Nat : net = q.net
  BY <1>4
<1>7. r = liquidate_child_release(x, u, m, o, a, net) /\ HasBacking(x, m, net)
  BY <1>1, <1>4, <1>6
<1>8. Limited(r.vault)
  BY <1>3, <1>4, <1>5, <1>7, ChildLiquidationLimit
<1> QED BY <1>2, <1>8

\* repay_child_collateral
LEMMA RepayLimit ==
    ASSUME Sound, InStep, Limited(vault), NEW u \in Traders, NEW m \in Markets,
           NEW amount \in Parts(vault.childDebt[<<m, u>>]), repay_child_collateral(u, m, amount)
    PROVE  Limited(vault')
<1>1. PICK s : s = settle_child_debt(vault, m, u, amount)
  OBVIOUS
<1>2. vault' = s.vault
  BY <1>1 DEF repay_child_collateral
<1>3. vault \in Vaults /\ LoansKept(vault)
  BY InStepFields
<1>4. amount \in Nat
  <2>1. vault.childDebt[<<m, u>>] \in Nat
    BY <1>3, VaultFields DEF Accounts
  <2> QED BY <2>1, PartsPositive
<1>5. Settles(vault, s.vault, s.applied)
  BY <1>1, <1>3, <1>4, DebtSettled
<1>6. Settles(vault, vault', s.applied)
  BY <1>2, <1>5
<1> QED BY <1>3, <1>6, SettledLimit

\* redeem_resolved_market
LEMMA RedeemLimit ==
    ASSUME Apart, Sound, InStep, Limited(vault), NEW u \in Traders, NEW m \in Markets,
           NEW o \in Sides, NEW a \in Parts(pos[<<m, u, o>>]),
           redeem_resolved_market(u, m, o, a) \/ redeem_cancelled_market(u, m, o, a)
    PROVE  Limited(vault')
<1>1. vault \in Vaults /\ BooksKept(vault) /\ LoansKept(vault)
  BY InStepFields
<1>2. a \in Nat
  BY <1>1, InStepFields, TokenPart
<1>3. CASE redeem_resolved_market(u, m, o, a)
  <2>1. PICK r, final : final = verdict[m] /\ r = redeem_resolved(vault, u, m, o, a, final)
    OBVIOUS
  <2>2. vault' = r.vault
    BY <1>3, <2>1 DEF redeem_resolved_market, Redeemed
  <2>3. Limited(r.vault)
    BY <1>1, <1>2, <2>1, ResolvedLimit
  <2> QED BY <2>2, <2>3
<1>4. CASE redeem_cancelled_market(u, m, o, a)
  <2>1. PICK r : r = redeem_cancelled(vault, u, m, o, a)
    OBVIOUS
  <2>2. vault' = r.vault
    BY <1>4, <2>1 DEF redeem_cancelled_market, Redeemed
  <2>3. Limited(r.vault)
    BY <1>1, <1>2, <2>1, CancelledLimit
  <2> QED BY <2>2, <2>3
<1> QED BY <1>3, <1>4

\* A deposit, and fees paid to a liquidity provider.
LEMMA DepositLimit ==
    ASSUME NEW v \in Vaults, Limited(v), NEW m \in Markets, NEW a \in Nat,
           NEW w, w = Credited(v, m, a)
    PROVE  w \in Vaults /\ Limited(w)
<1>1. a \in Int
  OBVIOUS
<1>2. Credits(v, w, m, a)
  BY <1>1, CreditedBy
<1> QED BY <1>2, SameLimit DEF Credits, SameAccounts

LEMMA ClaimedLimit ==
    ASSUME NEW v \in Vaults, Limited(v), NEW m \in Markets, NEW a,
           NEW w, w = claim_lp_fees(v, m, a)
    PROVE  Limited(w)
<1>1. w.stake = v.stake /\ w.parentDebt = v.parentDebt
  BY DEF claim_lp_fees, Vaults
<1> QED BY <1>1 DEF Limited, Within

\* What the calls on liquidity and fees do to the vault.
LEMMA FundsLimit ==
    ASSUME Sound, InStep, Limited(vault), NEW m \in Markets, NEW a \in Nat, NEW p,
           \/ vault' = Credited(vault, m, a)
           \/ vault' = claim_lp_fees(Credited(vault, m, a), m, p)
           \/ vault' = claim_lp_fees(vault, m, p)
           \/ vault' = sweep_protocol_fees(vault, m)
           \/ vault' = vault
    PROVE  Limited(vault')
<1>1. vault \in Vaults
  BY InStepFields
<1>2. PICK x : x = Credited(vault, m, a)
  OBVIOUS
<1>3. x \in Vaults /\ Limited(x)
  BY <1>1, <1>2, DepositLimit
<1>4. CASE vault' = Credited(vault, m, a)
  BY <1>2, <1>3, <1>4
<1>5. CASE vault' = claim_lp_fees(Credited(vault, m, a), m, p)
  <2>1. vault' = claim_lp_fees(x, m, p)
    BY <1>2, <1>5
  <2> QED BY <1>3, <2>1, ClaimedLimit
<1>6. CASE vault' = claim_lp_fees(vault, m, p)
  BY <1>1, <1>6, ClaimedLimit
<1>7. CASE vault' = sweep_protocol_fees(vault, m)
  <2>1. vault'.stake = vault.stake /\ vault'.parentDebt = vault.parentDebt
    BY <1>1, <1>7 DEF sweep_protocol_fees, Vaults
  <2> QED BY <2>1 DEF Limited, Within
<1>8. CASE vault' = vault
  BY <1>8
<1> QED BY <1>4, <1>5, <1>6, <1>7, <1>8

\* Every action keeps loans within the limit.
LEMMA StepLimit ==
    ASSUME Matched, Apart, Sound, InStep, Limited(vault), Next
    PROVE  Limited(vault')
<1>1. CASE LifecycleStep
  BY <1>1 DEF LifecycleStep
<1>2. CASE CreateMarket
  <2>1. PICK u \in Traders, m \in Markets, a \in Seeds : create_market(u, m, a)
    BY <1>2 DEF CreateMarket
  <2>2. vault' = Credited(vault, m, a) /\ a \in Nat
    BY <2>1, TradingAssumption DEF create_market, Seeded, deposit_for_market
  <2> QED BY <2>2, FundsLimit
<1>3. CASE Buy
  BY <1>3, BuyLimit DEF Buy
<1>4. CASE BuyChild
  BY <1>4, BuyChildLimit DEF BuyChild
<1>5. CASE RedeemResolved
  BY <1>5, RedeemLimit DEF RedeemResolved
<1>6. CASE RedeemCancelled
  BY <1>6, RedeemLimit DEF RedeemCancelled
<1>7. CASE SeedLiquidity
  <2>1. PICK u \in Traders, m \in Markets, a \in Seeds : seed_liquidity(u, m, a)
    BY <1>7 DEF SeedLiquidity
  <2>2. vault' = Credited(vault, m, a) /\ a \in Nat
    BY <2>1, TradingAssumption DEF seed_liquidity, Seeded, deposit_for_market
  <2> QED BY <2>2, FundsLimit
<1>8. CASE AddLiquidity
  <2>1. PICK u \in Traders, m \in Markets, a \in Amounts : add_liquidity(u, m, a)
    BY <1>8 DEF AddLiquidity
  <2>2. PICK p : p = compute_lp_fees_owed(m, u)
    OBVIOUS
  <2>3. vault' = claim_lp_fees(Credited(vault, m, a), m, p) /\ a \in Nat
    BY <2>1, <2>2, TradingAssumption DEF add_liquidity, deposit_for_market
  <2> QED BY <2>3, FundsLimit
<1>9. CASE RemoveLiquidity
  <2>1. PICK u \in Traders, m \in Markets : \E s \in Parts(lp[<<m, u>>]) : remove_liquidity(u, m, s)
    BY <1>9 DEF RemoveLiquidity
  <2>2. PICK s \in Parts(lp[<<m, u>>]) : remove_liquidity(u, m, s)
    BY <2>1
  <2>3. PICK p : p = compute_lp_fees_owed(m, u)
    OBVIOUS
  <2>4. vault' = claim_lp_fees(vault, m, p) /\ 0 \in Nat
    BY <2>2, <2>3 DEF remove_liquidity
  <2> QED BY <2>4, FundsLimit
<1>10. CASE ClaimLpFees
  <2>1. PICK u \in Traders, m \in Markets : claim_fees(u, m)
    BY <1>10 DEF ClaimLpFees
  <2>2. PICK p : p = compute_lp_fees_owed(m, u)
    OBVIOUS
  <2>3. vault' = claim_lp_fees(vault, m, p) /\ 0 \in Nat
    BY <2>1, <2>2 DEF claim_fees
  <2> QED BY <2>3, FundsLimit
<1>11. CASE SweepProtocolFees
  <2>1. PICK m \in Markets, a \in Nat : vault' = sweep_protocol_fees(vault, m)
    BY <1>11 DEF SweepProtocolFees, sweep_fees
  <2> QED BY <2>1, FundsLimit
<1>12. CASE Sell
  BY <1>12, SellLimit DEF Sell
<1>13. CASE TransferPosition
  BY <1>13 DEF TransferPosition, transfer_position
<1>14. CASE BurnLosing
  BY <1>14 DEF BurnLosing, burn_losing
<1>15. CASE RepayChildCollateral
  BY <1>15, RepayLimit DEF RepayChildCollateral
<1>16. CASE LiquidatePosition
  BY <1>16, LiquidateLimit DEF LiquidatePosition
<1>17. CASE LiquidateChildPosition
  BY <1>17, LiquidateChildLimit DEF LiquidateChildPosition
<1> QED BY <1>1, <1>2, <1>3, <1>4, <1>5, <1>6, <1>7, <1>8, <1>9, <1>10, <1>11, <1>12, <1>13,
           <1>14, <1>15, <1>16, <1>17, Zenon DEF Next

\* No position owes more than 60% of its stake, before or after any step.
LEMMA NextLimit ==
    ASSUME Matched, Apart, Kept, InStep, Limited(vault), [Next]_vars
    PROVE  Limited(vault)'
<1>1. Limited(vault')
  <2>1. CASE Next
    BY <2>1, StepLimit DEF Kept
  <2>2. CASE UNCHANGED vars
    BY <2>2 DEF vars
  <2> QED BY <2>1, <2>2
<1> QED BY <1>1 DEF Limited, Within

\* DebtWithinLimit: the limit that open_child_credit_for_trade asks for holds
\* for good.  A market that lends must not borrow: liquidate_child_position sells a
\* position of the borrower whatever loans it backs.
THEOREM DebtAlwaysWithinLimit ==
    Matched /\ Lenders \cap Borrowers = {} => (Spec => []DebtWithinLimit)
<1> SUFFICES ASSUME Matched, Lenders \cap Borrowers = {} PROVE Spec => []DebtWithinLimit
  OBVIOUS
<1>1. Apart
  BY DEF Apart
<1>2. Init => Kept /\ InStep /\ Limited(vault)
  <2> SUFFICES ASSUME Init PROVE Limited(vault)
    BY InitKept, InitInStep
  <2>1. \A k \in Positions : vault.parentDebt[k] = 0
    BY DEF Init, VaultInit
  <2>2. vault \in Vaults
    BY InitKept, SoundFields DEF Kept
  <2> QED BY <2>1, <2>2, FreeWithin DEF Limited
<1>3. Kept /\ InStep /\ Limited(vault) /\ [Next]_vars => (Kept /\ InStep /\ Limited(vault))'
  BY <1>1, NextKept, NextInStep, NextLimit
<1>4. Limited(vault) => DebtWithinLimit
  BY DEF Limited, Within, DebtWithinLimit
<1> QED BY <1>2, <1>3, <1>4, PTL DEF Spec
=============================================================================
