--------------------------- MODULE StellarNetwork ---------------------------
(***************************************************************************)
(* The Stellar network as a submitter of transactions sees it, modelled    *)
(* from how dike-web/lib/stellar/transaction.ts and                        *)
(* dike-services/src/sponsorship/submitter.ts use it: an account has a     *)
(* sequence number, a transaction is good for the next number only and     *)
(* until its time bound, and the queue holds one transaction per account.  *)
(* Durations are countdowns in ticks of one length.                        *)
(***************************************************************************)
EXTENDS Integers, FiniteSets

CONSTANTS
    Users,         \* the wallets
    MaxAttempts,   \* transactions a wallet may try, a bound
    Validity,      \* setTimeout(300): ticks a built transaction is good for
    ResourceFees   \* resource fees a simulation may come back with, in stroops

ASSUME NetworkAssumption ==
    /\ IsFiniteSet(Users)
    /\ MaxAttempts \in Nat /\ Validity \in Nat \ {0}
    /\ ResourceFees \subseteq Nat

VARIABLES
    seq,   \* [Users -> Nat], the account's sequence number
    tx     \* [Transactions -> what became of it]

networkVars == <<seq, tx>>

Transactions == Users \X (1..MaxAttempts)
Owner(t) == t[1]

TxStates == {"none", "built", "queued", "applied", "failed", "dropped"}
NoTx == [state |-> "none", seq |-> 0, valid |-> 0, resource |-> 0, payer |-> "none"]

NetworkTypeOK ==
    /\ seq \in [Users -> 0..MaxAttempts]
    /\ tx \in [Transactions ->
                 [state : TxStates, seq : 0..(MaxAttempts + 1), valid : 0..Validity,
                  resource : ResourceFees \cup {0}, payer : {"none", "wallet", "sponsor"}]]

InitNetwork ==
    /\ seq = [u \in Users |-> 0]
    /\ tx = [t \in Transactions |-> NoTx]

Included(t) == tx[t].state \in {"applied", "failed"}

\* What sendTransaction answers.
SendStatus(t) ==
    CASE tx[t].state = "queued" -> "DUPLICATE"
      [] \/ tx[t].valid = 0
         \/ tx[t].seq # seq[Owner(t)] + 1 -> "ERROR"
      [] \E s \in Transactions : Owner(s) = Owner(t) /\ tx[s].state = "queued" -> "TRY_AGAIN_LATER"
      [] OTHER -> "PENDING"

\* The transaction reaches the network; payer is the account its fee is
\* charged to.
Sent(t, payer) ==
    IF SendStatus(t) = "PENDING" THEN [tx EXCEPT ![t].state = "queued", ![t].payer = payer] ELSE tx

\* What getTransaction answers.
GetStatus(t) ==
    CASE tx[t].state = "applied" -> "SUCCESS"
      [] tx[t].state = "failed"  -> "FAILED"
      [] OTHER                   -> "NOT_FOUND"

\* A ledger closes with the transaction; its contract call works or fails.
Include(t) ==
    /\ tx[t].state = "queued"
    /\ \E outcome \in {"applied", "failed"} : tx' = [tx EXCEPT ![t].state = outcome]
    /\ seq' = [seq EXCEPT ![Owner(t)] = tx[t].seq]

CountDown(n) == IF n > 0 THEN n - 1 ELSE 0

\* A tick: a transaction still queued at its time bound is dropped.
TickNetwork ==
    /\ tx' = [t \in Transactions |->
                [tx[t] EXCEPT !.valid = CountDown(@),
                              !.state = IF @ = "queued" /\ tx[t].valid <= 1 THEN "dropped" ELSE @]]
    /\ UNCHANGED seq
=============================================================================
