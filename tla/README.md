# Dike: a TLA+ development of the protocol, its services and its pages

Dike is a prediction-market protocol on Stellar/Soroban with an off-chain
service (event indexer, reconciliation jobs, read API, fee sponsorship) and a
web application. This directory holds TLA+ modules translated from all three,
TLC configurations that check them on small instances, and TLAPS proofs of
almost every safety property for every instance. Paths below are relative to `src/`;
contracts live in `dike-contracts/contracts/<name>/src/lib.rs`.

## 1. The system

| component | state it keeps | operations | talks to |
|---|---|---|---|
| `market_registry` | a `MarketData` per market: status, final outcome, request id; the id counter | `register_market`, `activate_market`, `set_status`, `cancel_market`, `close_trading`, `mark_*`, `set_final_outcome` | called by factory, oracle, governance |
| `market_factory` | creators, collaterals, modules | `create_market` | registry, AMM |
| `cod_oracle` | a `ResolutionRequest` per request, the request of each market | `request_resolution`, `propose_outcome`, `dispute_outcome`, `finalize_undisputed`, `escalate_to_council`, `report_council_outcome` | registry, vault, fee manager, council, all in one transaction |
| `council_of_dike` | a `CouncilCase` per case, commitments, reveals, claims, reward pools, members | `open_case`, `commit_vote`, `reveal_vote`, `finalize_case`, `finalize_and_report_case`, `claim_reward`, `sweep_case_reward`, `set_member`, `pause` | oracle, token |
| `collateral_vault` | collateral of every market, child-market debts, oracle bonds, fees | deposits, payouts, child credit, liquidation, redemption, `lock_bond`, `release_bond`, `slash_bond`, fees | token, registry, conditional tokens |
| `conditional_tokens` | YES/NO/LP balances and supplies | mint, split, merge, transfer, burn | vault, AMM |
| `amm` | pools, LP shares, fee growth | buy, sell, add/remove liquidity, liquidate | vault, tokens, registry, fee manager |
| `fee_manager` | fee and bond configuration | `set_*`, `losing_bond_split`, `trading_fee` | governance |
| `dike_timelock`, `dike_governance` | queued actions; proposers, the timelock in force | queue, cancel, execute; `apply_*` | every contract's governance role |
| `dike_types`, `dike_math` | - | shared types, checked arithmetic | all contracts |
| indexer (`dike-services/src/indexer`) | raw events, a checkpoint per contract, an advisory lock | tick: poll, page, record, dispatch, commit | RPC node, Postgres |
| dispatcher, reconciliation, scheduled jobs | one row per contract object with `last_reconciled_ledger`; event histories | per topic and per tick: read a contract, write its row | RPC node, Postgres, event bus |
| read API | - | queries, derived fields, event stream | Postgres, the pages |
| sponsorship (`src/sponsorship`) | replay locks and results, quotas, the day's budget, all in Redis | check, reserve, sign, submit, confirm, answer | RPC node, Redis, the pages |
| executor (`dike-web/lib/stellar`) | the phase of a write | status, build, sign, post or submit, poll | wallet, RPC node, sponsorship |
| pages (`dike-web/app`, `features`) | wallet session, permissions, forms, lists, the stream | connect, type, quote, confirm, refresh | read API, executor |

What is hard in it:

* one resolution is six or more transactions by different parties over five
  contracts, each of which keeps its own status;
* anybody may take most steps at any second, at the boundaries of the dispute,
  commit and reveal windows too, and governance may act in between;
* a transaction is atomic, so a single refused payment blocks a whole step,
  possibly for ever;
* all markets share one vault balance and all council cases one council balance;
* service processes run the same indexer over one database, under a lock that
  may leak or be lost, and crash between any two writes;
* a dispatch and a job read a contract and write its row later, in any order;
* a sponsored write passes through four processes with a timeout each, any of
  which may end while the transaction is still good;
* a page has several requests under way for inputs that change meanwhile, and a
  wallet that can be switched at any moment.

What makes each part correct: the registry and the oracle agree on the phase
and outcome of every market, and outcomes are final; the vault covers every
bond and every claim on record; a dispute is decided by the sealed votes of the
council and by nothing else; rewards are paid once; every proposal is finally
settled; no outcome position is without backing, no loan exceeds its limit, no
quote exceeds its pool; no event is passed over; rows never claim a ledger they
have not seen and settle on the state of the chain; the daily budget covers what
was sent and no wallet pays for what it signed as sponsored; what a page signs
is what it showed, to the wallet it showed it to.

## 2. Modules

```
Resolution of a market (contracts):
  DikeTypes, TokenContract <- StellarLedger <- MarketRegistry <- BondVault
      <- CouncilOfDike <- CODOracle <- Resolution <- MCResolution <- MarketApi <- ResolutionDesk
  MarketApi <- ResolutionProofs
  Resolution implements MarketLifecycle

Trading (contracts):
  DikeTypes <- MarketLifecycle <- ConditionalTokens <- CollateralVault <- AMM <- Trading <- MCTrading
  Trading <- TradingProofs
  DikeTypes <- DikeMath (used by CollateralVault) <- MCMath <- MathProofs

Services:
  Indexer <- MCIndexer,  Indexer <- IndexerProofs
  ReadModel <- Dispatcher, ScheduledJobs, ReadApi <- Services <- ServicesProofs

Sponsored writes:
  StellarNetwork <- FeeSponsorship <- TransactionExecutor <- Sponsoring <- SponsoringProofs

Pages:
  WebSession <- TradeDesk, PortfolioView, CreateDesk, TimelockDesk;  LiveView
  all of them <- WebApp <- WebProofs

Sums and dike_math for the proofs:
  DikeTheorems (used by ResolutionProofs, MathProofs, SponsoringProofs, TradingProofs)
```

### Resolution

* **DikeTypes**: outcomes, statuses, `bps` (`dike_types`, `dike_math`).
* **TokenContract** (external): a transfer of the collateral token.
* **StellarLedger** (external): the ledger clock `now` and the balances `tok`
  of the collateral token. An action is one whole transaction that committed;
  one that meets an error reverts and is no step.
* **MarketRegistry**: `market`, `nextMarketId`. `valid_transition` is the table
  of the code; `set_final_outcome` bypasses it, as in the code.
  `create_market` is `register_market` and `activate_market`, which the factory
  calls in one transaction. `close_and_mark_requested` is what
  `request_resolution` does to the registry: `close_trading` for a market still
  Live, then `mark_resolution_requested`.
* **BondVault**: `bond` (the `Bond`, `BondToken`, `BondMarket` keys),
  `bondTotal` (`proposal_bonds` and `dispute_bonds` of the market's
  accounting), `split` (the fee manager's shares). A key is never removed, only
  paid down. `release_bond` and `slash_bond` share `CanPay`, `Paid` and
  `Debited`. The Rust code's `checked_*` errors on i128 are not reached with
  amounts of a token supply and are left out.
* **CouncilOfDike**: `kase`, `commitment`, `revealed`, `claimed`, `rewardPool`,
  `member`. The hash commitment is modelled by what it is for: it binds the
  voter to an outcome.
* **CODOracle**: `request`, `marketRequest`, and the calls made in the same
  transaction. `AwardTo` is either winning branch of `report_council_outcome`,
  `ReturnBoth` the third one; `CanReport` collects every check on the way.
* **Resolution**: the composition. One action per public entry point, governance
  calls, `Tick`, fairness and the properties. `LoneFinalize` says whether anyone
  calls `finalize_case` on its own, `GovActs` and `GovTransitions` which
  governance calls an instance has, `DirectAmounts` what users pass to
  `lock_bond` themselves, `ReentryAllowed` whether the host accepts the oracle's
  call back into the council.
* **MCResolution**: constants for TLC.
* **MarketLifecycle**: what the contracts that hold money may rely on: the phase
  of a market (Live, Expired, Halted, Closed, Resolved, Cancelled) and a verdict
  that appears once. `Resolution` implements it (`LifePhase`, `LifeVerdict`,
  property `LifecycleImplemented`), `Trading` is built on it, so that the two
  halves of the protocol are checked apart and fit together.
* **MarketApi**: the derived fields of the API (`domain/derived-state.ts`) and
  the sections of the resolution panel, as functions of the contracts' state;
  `Checks`, what the contracts check before they take such a step, those of the
  calls they make to each other included; and `Taken`, whether the action of
  `Resolution` is enabled. `OfferedStepsTaken` says that an offered step passes
  the checks (`OfferedStepsPass`) and that no check was forgotten in `Checks`
  (`ChecksDecide`).
* **ResolutionDesk**: the resolution driven from the pages alone, with the salt
  that a voter's browser keeps.

### Trading

* **ConditionalTokens**: `pos` (`Balance`), `setBacking` (`Backing`).
* **CollateralVault**: `vault`, one record with the book of every market
  (backing, refundable, redeemed, shortfall, fees), the insurance reserve, the
  dust carry and the keys of child credit. An entry point is an operator from a
  vault to a vault, since one transaction makes several calls; the loops over
  `ChildMarketsOf` are folds. `total_deposited`, `UserDeposit`, `ChildLoan*` and
  the other keys that no guard or payment reads are left out. `checked_sub` fails
  on overflow only, so books are integers that could go below zero. The parts an
  entry point is made of (`Paying`, `Cleared`, `Defaulted`, `SettledNext` and so
  on) have names of their own, which the lemmas are about.
* **AMM**: `pool`, `lp`, `checkpoint`, the quotes and the pool after a trade.
  `FEE_SCALE` (10^18) is a parameter: TLC's integers have 32 bits, and nothing
  checked depends on its value.
* **Trading**: the composition, one action per public entry point. `Calls` and
  `CreditLines` say which optional entry points and which loans an instance
  uses, `Amounts`, `Seeds`, `Divisors` the amounts, `MaxTrades` the bound. The
  properties add up balances, books and debts with `SumFunctionOnSet`, whose laws
  are in `DikeTheorems`.
* **MCTrading**: constants for TLC, and what comments of the code say of the
  books and of the last redeemer (`BooksTrackMoney`, `LastRedeemerPaid`).
* **MCMath**: a round trip through `DikeMath`'s quotes.

### Services

* **Indexer** (`indexer/worker.ts`, `indexer/event-source.ts`): `upto` numbers
  the events of a contract in chain order, so that event ids, cursors and page
  boundaries are numbers; `rpcTip` is what the RPC node has ingested, which may
  fall back; `checkpoint`, `raw`, `dispatched` the database; `lease` the session
  that holds the advisory lock; `worker[w]` the locals of a tick at its awaits;
  `withheld`, read by the properties only, what a node that fell back or lagged
  left out of a page that ended a poll. `getCheckpoint`, `getLatestLedger` and each
  page are awaits of their own, and the node may fall back at any of them. The
  first request of a poll names `endLedger`, taken as inclusive; from a node behind
  `startLedger` it gets nothing or an error (`StartRefused`). One action per
  await, `EventFails`, `AbortTick` and `Crash` for the faults.
  `pg_advisory_unlock` on another connection of the pool releases nothing, and a
  pool may close an idle connection: both are in the model, so two ticks may run
  side by side.
* **ReadModel** (`jobs/reconciliation.ts`, `state-repository.ts`): `changes[r]`
  the ledgers in which the object of row `r` changed, `db[r]` the last change
  its row has seen with the ledger it claims, `history` the append-only tables,
  `claimed` the LP fee totals, `actor[a]` the calls a dispatch or a job still has
  to make. A call is a read, a write and a sequel; reads fail to null, to a
  zeroed value or to an exception, and writes are thrown on or skipped, as the
  code of each does (`Copy`). `FallbackKinds` are the rows with a getter whose
  failure becomes zeros or nulls: the reward pool of a case, the vault state of a
  user, the fees of a provider, the governance addresses.
* **Dispatcher** (`indexer/dispatcher.ts`): the calls each topic of each module
  leads to. **ScheduledJobs** (`jobs/scheduled.ts`): what one tick goes through.
  **ReadApi** (`api/server.ts`, `lib/api`): what the pages are shown, by the rows
  an answer is joined from. **Services**: the composition with the chain.

### Sponsored writes

* **StellarNetwork** (external): sequence numbers, time bounds, one queued
  transaction per account, inclusion. **FeeSponsorship**: one action per await of
  `FeeSponsorshipService.sponsor` over Redis keys with a TTL, any of which may fail
  before or after Redis carried the command out; `spent[d]` records
  what was sent on the reservations of a day. **TransactionExecutor**
  (`lib/stellar/execute.ts`, `transaction.ts`): the phases of a write; `shown[t]`
  is who the page said would pay. **Sponsoring**: the composition, with
  repeated posts, lost answers, restarts, midnight and the minute.
  Accepted calls are a resource fee within or above the policy; the allow list
  of functions is checked by what the app calls.

### Pages

* **WebSession** (`lib/contexts/wallet.tsx`): the wallet's account, the address
  the app believes in, restores, permissions and their answers.
* **TradeDesk** (`TradeForm`, `ChildTradeForm`, `LiquidityForm`): inputs, the
  quotes, balances, stakes and credit under way, and the write.
  **PortfolioView**: loads, refreshes and redemptions. **CreateDesk**: the
  creation form. **TimelockDesk**: `dike_timelock` and the timelock named by
  `dike_governance`, with the admin page that executes rows of long ago. Payloads
  are of three kinds (`PayloadKinds`): the target asks `dike_governance`
  (Treasury, Pause, Upgrade, Creator), replaces the timelock there (Timelock), or
  goes by an address in its own storage (CouncilMember, SupportedCollateral,
  ModuleAddress, FeeConfig), `trusted`, which its admin may write (`SetTrusted`).
  **LiveView**: published updates, the stream, the debounce and the cache. A page
  that cannot be rendered again (`RenderFails`) is an alert without `LiveRefresh`,
  and its stream is closed.
* **WebApp**: a run has one page mounted over one session; a session step is
  followed by the effects of that page in the same render.

Definitions marked as faulty variants or mutants (`reveal_vote_twice`,
`QuoteIsStored`) are there because each property is known to fail when one of
them replaces the real definition, so that a property that could not fail would
be noticed.

## 3. Runs

| run | module, instance | what it shows |
|---|---|---|
| `council` | `MCResolution`: one market, two users, three members, bond 10, split 60/30/10, member changes and sweeps, `finalize_case` alone allowed | type correctness; bonds follow the request; the council decides; vault = bonds; the tally is the reveals; rewards covered; ballots stay sealed |
| `governance` | `MarketApi` under `FairSpec`: direct `lock_bond`, splits 60/30/10 and 3333/0/6667 changing at will, `finalize_case` alone allowed, pauses, cancelling, closing early, the host's re-entry rule | phases agree; outcomes are final; `MarketLifecycle` is implemented; every proposal is settled or stands before one of two named ways to get stuck; what API and pages offer is taken |
| `host` | `MCResolution`: the host's re-entry rule, split 60/30/10 | **violated**: a decisive vote cannot be reported |
| `council_web` | `ResolutionDesk`: windows of two ticks | **violated**: a committed vote has no reveal button |
| `market` | `MCTrading`: one market, two traders, fee 10%, liquidity, transfers, burning, three trades, all phases | books = balance; claims covered; LP fees covered; reserves owned |
| `credit` | `MCTrading`: two markets, one line of credit, repayment, sales, sweeps, both liquidations | sets, and claims after settlement, backed by collateral, loans or shortfall; loans within 60% of the stake; both records of a debt agree |
| `quotes` | `MCMath`: all reserves and payments up to 30 | integer square root; quotes within the pool; product kept |
| `workers` | `MCIndexer`: two processes, three ledgers with up to two events, pages of two, a window of two, one fault | but for withheld events, none below a checkpoint is undispatched; no gap; light traffic is indexed in the end |
| `fallback` | `MCIndexer`: one process, three ledgers, a window of two, a margin of one, one fall-back of the node | **violated**: a short page ends the poll, the checkpoint passes the ledger that was not read, and its event is lost |
| `projections` | `Services`: one user, one dispatcher, one job, two ledgers, one fault, a replayed fee claim | labels are honest, zeros of failed getters apart; claims count once; shown rows converge |
| `sponsor` | `Sponsoring`: one wallet with two attempts, two requests at a time, a daily budget for one, two days, one fault | budget covers submissions; success is real; no silent charge; the app's writes are accepted at the default base fee |
| `web` | `WebApp`: two accounts, two wallet moves, three inputs, two timelocks and actions, two versions of a row | what is signed was shown; positions belong to the wallet; gates; timelocked actions wait; the live page catches up while it is rendered and connected |

The MC modules hold constants and properties for more instances than the runs
use, each a change to the configuration of a run:

* finding 5: `credit` with no optional calls, seed 10 and amounts 6, 10 and 20
  violates `LastRedeemerPaid`;
* finding 6: `credit` with `ThreeMarkets`, `TwoChildren`, the call `liquidate`, seed
  10, amounts 3 and 10, `NoPhases` and four trades violates `SetsBacked`;
* `credit` as it is violates `BooksTrackMoney` (section 4);
* with `ThreeMarkets`, `Chain` (a market that lends and borrows), the call
  `liquidate`, one trader with 90, seed 10, amounts 6 and 20, `NoPhases` and six
  trades, `credit` violates `DebtWithinLimit` (section 4).

Bounds of `Resolution`. Markets expire at 1 and windows last one tick, so each
boundary second and the one after it is reached. Two users are a proposer and a
disputer who may also collide with each other's keys. Three members are the
least for which a plurality, a tie, a lone vote and a removed voter differ.
`MaxTime` leaves room for the longest resolution: `ProposeOutcome` needs three
windows, and `Tick` waits for the escalation of a dispute as long as there is
room for the vote. Two markets, the least for which ids and balances can be
mixed up, multiply the states by themselves; the proofs have no such bound.

Bounds of `Trading`. Amounts are chosen so that every fee, share and refund
rounds, a loan of 6 is exactly the limit of a stake of 10, and a purchase on the
other side makes a loan liquidatable. Three trades are the least for which a
loan is opened and its price then moves. The properties of `credit` hold for
lines of credit that do not meet, and the run has one: with two children of one
parent, a default of one clears the debt of both (finding 6). `TradingProofs` has
them for any number of such lines. `VaultHoldsBooks` and
`ClaimsCovered` are stated for any credit: the first says that balance and books
are equal until a lending market settles, for what is withheld then is booked
without a payment, and the second is about markets that lend nothing. In
`market` no market lends, so that both apply in full; `TradingProofs` has them
for any lines of credit.

Bounds of the services. Two processes are the least for a lost lease to matter,
three ledgers with pages of two give full, partial and empty pages, rewinds and
two windows; `IndexerProofs` removes the bounds for safety. In `fallback` no
window can fill a page, so that only the node's fall-back can lose an event. A dispatcher and a
job are the least for a stale read to be written over a newer one. Two requests
of one wallet race for one lock, a quota of one a minute and the budget; TTLs of
two and three ticks run out before and after a confirmation of one. Fees are
the defaults of the code, so that the app's bid of 2,000,000 meets a base fee of
2,000,000; the daily budget is the price of one transaction, so
that a second reservation meets the limit.

Bounds of the pages. Two accounts and two moves give a connect and a switch, or
a switch and a return, while an answer is under way. Three inputs change amount,
side and amount again around a quote. A live page sees two writes and two losses
of connection or cache. Accounts and timelocks are interchangeable, so the first
one is fixed in `Init`; roles are given for the page that asks for them.

Deadlock is checked in the runs of the indexer and of the projections, whose
timers never stop. It is not in the others: time stops at a bound and a finished
resolution, trade or write has nothing left to do.

Re-entry. Soroban refuses a call to a contract on the call stack. `council` sets
`ReentryAllowed` to TRUE, which only adds behaviours, so that it also checks what
the contracts compute for a decisive vote with a council share; `host` shows what
the host makes of it; `governance` keeps to the host's rule under splits with and
without a council share.

Fairness. In `governance`, `Tick` is weakly fair since ledgers close, and
`FinalizeUndisputed`, `EscalateToCouncil` and `FinalizeAndReportCase` are open to
any caller (the code calls them an "intentional keeper path"), so some keeper
takes one that stays enabled. Nothing is assumed of proposers, disputers, voters
or governance: a council that stays silent still settles, as Invalid. So
`ProposalsSettle` says that a proposal is finalized, or that its case was finalized
on its own (`FinalizedAlone`, finding 4), or that its report is one the host
refuses (`HostRefuses`, finding 1): there is no third way to get stuck. In the
indexer a timer starts ticks and an await that answers goes on (`Tick(w)`), the
node ingests (`RpcIngest`), and the pool closes the connection of a leaked lock
(`LeaseExpires`); faults are bounded, which is the usual reading of "once the
faults are over". The jobs and dispatches of `Services` run on timers as well. On
the live page the jobs publish again, timers and fetches end, and an EventSource
reconnects; after an answer of 503 it does not. `ViewConverges` names both kinds of
page that do not catch up by themselves: one whose stream was refused, and one
whose last rendering failed.

## 4. Findings

1. `report_council_outcome` calls the council back from a call of the council
   (`cod_oracle/src/lib.rs:630`), which the host refuses; the tests reach that
   branch only by calling the oracle directly. Run `host`.
2. `getLatestLedger` (`dike-services/src/indexer/event-source.ts:30`) opens a
   window which `getEvents` (`:105`) reads later; a short page ends the poll
   (`:128`) without a look at what the node had by then. When the node falls back
   or lags in between, the checkpoint passes ledgers that were not read, where
   `dike-services/PLAN.md:137` has failures skip no ledger. A rewind, when
   one follows, reads the last `REORG_SAFETY_MARGIN_LEDGERS` (10) of them again;
   a window may be 250 long
   (`dike-services/src/config/env.ts:41`). Run `fallback`.
3. The council page waits for the status `RevealPhase`
   (`dike-web/features/council/VoteForm.tsx:65`), which no contract sets. Run
   `council_web`.
4. `finalize_case` on its own (`council_of_dike/src/lib.rs:433`) makes
   `finalize_and_report_case` fail for ever; the documented local flow does
   exactly that (`dike-contracts/scripts/local-flow.md:20`). `ProposalsSettle`
   names the state as `FinalizedAlone`.
5. The shortfall of a lost loan is known only once the loser redeems
   (`collateral_vault/src/lib.rs:500`): until then the haircut is a race.
   Section 3 has the constants.
6. A default of one child clears the debt of all
   (`collateral_vault/src/lib.rs:596`).

Observed while modelling, with no run kept for it:

* A poll that reaches its last page (`dike-services/src/indexer/event-source.ts:154`),
  or whose full page spills past the window (`:144`), is incomplete and moves no
  checkpoint, so a window with that many events is read again for ever.
* Rows written with the zeros of a failed getter carry the ledger of the read
  (`jobs/reconciliation.ts:313`, `:388`, `:436`) and claim a state that was never
  there, until the next reconciliation: `LabelsAreHonest` excepts them,
  `RowsConverge` says that they are repaired.
* A replaced timelock keeps its power over the council, the registry, `set_role`
  and the fee manager until the admin of each rewrites the address it goes by.
  The deployment gives the fee manager the `DikeGovernance` contract for it
  (`dike-contracts/scripts/deploy-testnet.sh:175`), which makes no call to
  `set_config`, while `require_governance` (`fee_manager/src/lib.rs:64`) asks for
  the authorization of that address itself: a FeeConfig action cannot be executed
  there.
* A market page that fails once while it is refreshed
  (`dike-web/app/(app)/markets/[marketId]/page.tsx:39`) has no `LiveRefresh` any more
  and stays an alert or "not found" until the reader reloads it.

* What a redemption withholds for the redeemer's own loan is added to the
  `collateral_backing` of the lending market without money coming in
  (`collateral_vault/src/lib.rs:1312`), where the comment has backing as "the real
  bucket that's actually here right now" (`:485`): the books then exceed the
  balance. `BooksTrackMoney` fails on the constants of `credit`.
* A market that backs a loan may become a child itself, since only the parent of
  a new loan is checked (`collateral_vault/src/lib.rs:816`); the stake that limits
  a loan is not tied to the position and can be transferred (`:829`); the parent
  outcome is written by the first loan only (`:877`).
* `liquidate_child_release` takes the position of a borrower off its stake
  (`collateral_vault/src/lib.rs:1134`) and looks at no loan that stake backs: where
  a market lends and borrows, the loan stays, above 60% of a smaller stake
  (section 3 has the constants).
* A bond of 1 passes `validate_config` (`market_registry/src/lib.rs:169`), but
  its winner share is 0, which `slash_bond` refuses: a decisive report reverts.
* `set_status` can resolve a market without an outcome
  (`market_registry/src/lib.rs:329`).
* Both quotes round in the trader's favour (`dike_math/src/lib.rs:110`); buying
  at once and selling back may gain a unit where the fee rounds to 0.
* A failed read of an owner's first position is swallowed
  (`jobs/reconciliation.ts:363`); the owner has no row, and the jobs go through
  owners with a row only. `RowsConverge` is about rows that exist.
* At the very second of the dispute deadline the API and the page offer
  `finalize` while the oracle still takes disputes; `OfferedStepsTaken` names the
  second as an exception.
* The builders of `lib/contracts/clients.ts` drop the fee mode they are called
  with, so every write bids the direct ceiling of 2,000,000 stroops
  (`dike-web/lib/stellar/transaction.ts:145`), which is exactly the sponsor's default
  base fee. A sponsor configured with less refuses every write of the app
  (`sponsorship/fees.ts:25`); `AppWritesAccepted` names that case.
* `VoteForm` stores a new salt before the commitment is sent, so a second,
  refused commitment overwrites the salt of the first.
* The form of a market is cleared when its creation succeeds, with what was typed
  meanwhile (`create-predic/page.tsx:180`).
* The admin page ignores the end of the grace period of a row; the contract
  refuses the late execution.
* A late failing quote marks a form as failed while a trade is under way
  (`TradeForm.tsx:131`).

## 5. Proofs

Checked by TLAPS for every value of the constants.

`ResolutionProofs`: every set of users and members, every
number of markets, requests and cases, all expiries, windows, bonds and splits.

* **TypeCorrect**. `TInv` adds to `TypeOK` that ids below the counters and only
  those are in use, that a request names its market and its parties according
  to its status (`RequestShape`), and that a case names its request
  (`CaseShape`). Without them a record update could leave its function's domain.
  `SplitUsesBond` supplies the arithmetic: three shares that add up to 10000
  split any bond exactly.
* **PhasesAgree**. `PhaseInv` is `PhaseAgreement` over `TInv`. It needs
  `OperationalGovernance`: governance asks `set_status` only for moves between
  Live, Paused, TradingClosed and Cancelled. It is needed: `valid_transition`
  also lets governance take CouncilVoting to Resolved, without an outcome.
* **BondsAlwaysFollow**. `BondInv` over `TInv`: the keys of two requests, or of
  the two sides of one, never coincide, a key on record is not overwritten, and
  a report pays down exactly what `SplitUsesBond` says.
* **BallotsStaySealed**. `VoteInv`: a revealed vote implies that the commit
  window is over, and time never goes back.
* **CouncilAlwaysDecides**. `DecisionInv`: a finalized disputed request points
  to a case whose outcome is the tally of its votes, the reveal window of which
  is over, so that the tally can no longer change.
* **OutcomesStayFinal**. Each write of the three contracts is shown to keep an
  outcome that is set, from `TInv` and the freezing lemmas.
* **LifecycleRefined**. Every step of the contracts maps to a step of
  `MarketLifecycle` or to none under `LifePhase` and `LifeVerdict`, from `TInv`
  and `PhaseInv`, under `OperationalGovernance`. So what is proved about
  `Trading` from the abstract lifecycle holds above the real one.
* **BondsAlwaysCovered**. `VaultInv` over `TInv` and `BondInv`: a key nothing was
  locked under holds nothing. A lock changes one summand and the total by the
  same amount; a report pays two keys, and `SplitUsesBond` says what is left.
* **TallyIsTheReveals**. A reveal adds one voter to the set of voters of one
  outcome and one to its counter; a member who is removed keeps the vote.
* **RewardsAlwaysCovered**. `RewardInv`: the council's balance is at least the sum
  over the cases of what each still owes, and a case without an outcome has no
  pool. What the claims of a case can add up to is bounded by the number of its
  correct voters, which `TallyCountsReveals` ties to the divisor of a share.

* **OffersAlwaysPass** (`OfferedStepsPass`). Two more invariants are needed.
  `ShapeInv`: a market has an outcome only when it is Resolved, request ids are
  used without a gap, and a Proposed request has its proposal. `OpenCaseInv`: case
  ids are used without a gap, a case is on record exactly once its request was
  escalated, and the request stays Escalated until the case has an outcome. Every
  request on record belongs to a market of its own and every case to a request of
  its own, so that an id is left for the next (`IdsLeft`, a pigeonhole argument),
  and any one or two bonds on record are within the vault's balance
  (`VaultHoldsTwo`). Assumed: `OperationalGovernance`, and `RoomForAll`, that the
  model's bounds on ids leave a request per market and a case per request.
* **ReportsGoThrough** (`ReportNeverBlocked`). The run `host` shows the property
  violated; the theorem says that the two causes known are all there are. When
  the winner's share of no bond rounds down to zero (`WinnersPaid`) and the host
  takes the calls back into the council or none is made (`NoCallRefused`), every
  check of `finalize_and_report_case` passes: the bonds are on record in full, no
  part of a slash exceeds what is left of the bond, the vault holds both bonds,
  and registry and oracle are in the right state.

`DikeTheorems`: sums over finite sets (`SumFunctionOnSet`: what one change, an
addition of two functions, or a comparison of them does to it), `dike_math`, and
the bounds of a share of an amount (`ShareBounds`, `ProportionalBounds`).
The library's induction theorems take an operator, which the provers here cannot
instantiate. The same inductions are stated with a set in its place: a nonempty
set of naturals has a least member (`LeastMember`), and a set of subsets that is
closed under adding a member holds the whole set (`BySubsets`). From these the
value of a recursive function on sets is unfolded once (`SumUnfolds`), and the
iteration of `isqrt` is shown to end (`IterationEnds`) at the root
(`IsqrtIsRoot`); `BuyQuoteBounds` and `SellQuoteBounds` are about any reserves.

`MathProofs`: pools and payments of every size. `QuoteInv` says that reserves and
payment are positive before the purchase, that the position bought is at least
the payment, and that the sale returns no more than was held.
**IsqrtAlwaysFloorRoot**, **QuotesAlwaysWithinPool** and **ProductAlwaysKept**
follow from it and the lemmas above.

`TradingProofs`: any markets, traders, lines of credit, fees and amounts; the
only assumptions are those of `TradingAssumption` and of the modules it extends,
that markets and traders are finitely many among them, since their balances are
added up. The argument has three layers.

* Each operation of the vault is summed up by a relation between the vault before
  and after: `Booked` for what deposits, payments and fees do to one book,
  `Settles` for debts that are cleared, repaid or defaulted (the loops over
  `ChildMarketsOf` are folds, and hold by induction over the part of the list
  that was gone through), `Redeems` for a redemption with its carry and the debts
  it settles. `Deals` does the same for the tokens, `PoolDeals` for a pool.
* Every action is then a lifecycle step, a `Traded` step (backing and complete
  sets of one market change by the same amount, and the vault's tokens by what
  its books are worth more) or a `RedeemedStep` (`StepKinds`).
* Each kind keeps the inductive invariant `Kept`: `Sound` (types, `refundable` is
  the rest of the backing, no debt outside the lines of credit, no pool before
  its market), `VerdictKept`, `VaultHoldsBooks`, `SetsKept`, `ClaimsCovered`,
  `PoolHoldsReserves`. `SetsKept` is what `ClaimsCovered` rests on when a market
  settles: until then nothing was redeemed, no side has more positions than there
  are sets, and without credit the sets are the backing.

**TypesHold**, **VaultAlwaysHoldsBooks**, **ClaimsAlwaysCovered** and
**PoolsAlwaysHoldReserves** are conjuncts of `Kept`. **LpFeesAlwaysCovered** needs
`FeesKept` besides: in every pool the providers' shares add up to the pool's, no
checkpoint is ahead of `fee_per_share`, and the sum of share times growth since
the checkpoint is at most `FEE_SCALE` times the fees in the book. It is this
scaled sum that is inductive; the amounts owed are each rounded down from it.

The theorems about loans have a hypothesis on the constants, `Matched`: a child
market borrows against one side of one parent, and that side lends to one child.
There may be any number of such lines, through markets that lend and borrow. The
hypothesis is needed: with two children of one side a default of one clears the
debt of both (finding 6), and with two parents of one child the key of the
child's debt mixes both. A second inductive invariant goes with `Kept`, `InStep`:

* `Loans`: what a position owes is the credit used on it, and is owed on a line of
  credit only; on every line, either no loan was ever made or the keys of the
  child's account name the line (`Known`); and what is owed upstream is what the
  child owes; once the parent settles a redemption may withhold from the upstream
  debt alone (`Even`). It is `Known` that lets a repayment find the loan it pays,
  and `Even` that keeps a default from clearing more than was lent.
* until a market settles, its complete sets are what secures it (`Secured`): the
  backing, what was lent from it, and the shortfall. From then on the claims of its
  holders exceed what was not redeemed of the backing by no more than loans and
  shortfall.

Every operation of the vault is again summed up by a relation, `Carries`: it keeps
`Loans` and changes what is secured in one market by a given amount, 0 for a loan, a
repayment, a default or a liquidation. A settled market may
also gain: a default of its child is booked there in full, even when a redemption
has already withheld part of the loan. A redemption lowers `Secured` by some `a`
and pays `p` with `a + p` at most the claim it cancels (`ResolvedCarries`,
`CancelledCarries`, and `CappedBounds` for a payout cut by the shortfall), so that
what is left covers the other claims (`WithdrawsInStep`). **SetsAlwaysBacked** and
**DebtAlwaysCreditUsed** follow. `Limited`, that no loan exceeds
`collateral_limit` of its stake, is inductive with them, and gives
**DebtAlwaysWithinLimit**: only a position that owes nothing is sold, a liquidation
leaves nothing owed, and a redemption takes as much off the debt as off the
stake, which keeps a loan below 60% of it (`LimitSpent`). It has one more hypothesis,
that no market lends and borrows; the constants of section 3 show why.

`IndexerProofs`: any number of processes, contracts and events, any page size,
window and margin, any number of crashes, failures and lost leases. The
inductive invariant `IInv` is

* `Monotone`: event numbers grow with the ledger;
* `CheckpointOK` and `DispatchedOK`: everything at or below a checkpoint, and
  everything before a dispatched event, is dispatched or was withheld;
* `TicksOK`: what the locals of a tick mean at each await. A tick that will
  commit `end` has dispatched everything up to it, and one at event `next`
  everything before it, even though the checkpoint may have been moved by
  another process since the tick read it. Without it neither property is
  inductive, since a commit and a dispatch rest on what was read awaits ago.

Most steps keep `CheckpointOK` and `DispatchedOK` because what is covered stays
covered (`Evolves`); **IndexerTypeCorrect**, **CheckpointsCover** and
**DispatchIsGapless** follow.

`ServicesProofs`: any number of users, dispatches, jobs, ledgers and faults.
`StoreInv` says of every dispatch and job which calls it may still have to make
and that what it read is what a row of the label it will write may hold ((`Ready`);
labels never pass the chain. The zeros of `FallbackKinds` are the exception named
in the property. **LabelsStayHonest** is a conjunct. `CountInv`, that
a total is the sum over the distinct claims in the history, gives
**ClaimsAlwaysCounted**.

`SponsoringProofs`: any number of wallets, attempts, concurrent requests, faults
and days, all limits. `BaseInv` has the types, that whoever is at work on a
transaction has a signed one (`Begun`), and how sequence numbers follow the
attempts (`SeqInv`): **SponsoringTypeCorrect**. `SignInv` adds what was shown for
everything a request, a lock, a result or a day's record holds:
**NeverSilentlyCharged**. `TruthInv` says that every code on its way, in Redis or
on a page is true of its transaction and stays so: **SuccessAlwaysApplied** and
**AppWritesAlwaysAccepted**, whose statement excepts a base fee below the app's
bid. `BudgetInv` adds up what was sent
and what is still reserved for a request on its way to be sent:
**BudgetAlwaysCovers**, across restarts, failures and midnight.

`WebProofs`: any accounts, roles, amounts, timelocks and number of answers under
way. `PositionsLabelled`: **PositionsAlwaysOwned**; `GateInv`, that permissions
held are those of the address they name and a creation under way was allowed
when it was clicked: **GatesOpenForGranted**; `TimelockInv`, that every action
waits for the delay it was queued with, whatever addresses the targets go by:
**GovernanceAlwaysWaits**; `DeskInv`, that
a write carries quote and balances of its own wallet and inputs:
**TradesAreWhatWasShown**.

Only model-checked:

* every liveness property (`ProposalsSettle`, `LightTrafficIsIndexed`,
  `RowsConverge`, `ViewConverges`) and `ChecksDecide`, the half of
  `OfferedStepsTaken` that uses ENABLED: out of reach of the provers;
* `SetsBacked`, `DebtWithinLimit` and `DebtIsCreditUsed` where lines of credit meet:
  they do not hold for all of them (findings 5 and 6).

## 6. Not modelled

* Contracts: admin rotation, role wiring, upgrades and storage TTLs; the pause
  switches of registry, factory, AMM, vault and tokens, which only refuse calls;
  events and evidence URIs (required to be non-empty, never read); integer
  overflow of i128 and u64, which the code turns into an error. `mock_usdc` is a
  test token. Of `dike_governance` only the rotation of the timelock has an
  effect: the lists that other payloads change are fixed in a run.
* Services: health, metrics, statistics and trade-list routes; mismatch records;
  generated contract bindings; SQL and Redis plumbing, taken with the atomicity
  of each call. `MarketApi` and `ResolutionDesk` read the contracts' state
  without the delay of the copy, which is the subject of `Services`.
* Pages: charts, landing pages, wording and layout; several pages at once. The
  portfolio is its owner's list of positions, so that the page of markets it is
  computed from is not modelled.
* Executor: what a wallet does with a signing request is any answer at any time.

## 7. Plan

1. Proofs: the properties of a loan by its line, where lines meet; a bound on what
   a holder is paid in a market that fell short.
2. `Trading`: loans on both outcomes of a parent, pause switches, several
   collaterals in one vault, and an abstract promise of a market to its holders.
3. `Services`: two users and a second market, so that the owners a tick goes
   through change while it runs.
