--------------------------- MODULE MarketRegistry ---------------------------
(***************************************************************************)
(* DikeMarketRegistry (contracts/market_registry): the canonical status    *)
(* machine and final outcome of every market.  Each operator is the effect *)
(* of one entry point on the registry's own storage; the contracts that    *)
(* call it (factory, oracle, governance) conjoin it to their own effect.   *)
(***************************************************************************)
EXTENDS StellarLedger

CONSTANTS
    MaxMarkets,      \* bound: how many markets are ever created
    Expiry,          \* per market: MarketConfig.expiry
    BondAmount,      \* per market: MarketConfig.bond_amount
    DisputeWindow,   \* per market: MarketConfig.dispute_window
    GovTransitions   \* the <<from, to>> pairs governance asks set_status for

Markets == 1 .. MaxMarkets

\* What validate_config lets through: a positive bond and a non-zero window.
ASSUME RegistryAssumption ==
    /\ MaxMarkets \in Nat
    /\ Expiry \in [Markets -> Nat]
    /\ BondAmount \in [Markets -> Nat \ {0}]
    /\ DisputeWindow \in [Markets -> Nat \ {0}]
    /\ GovTransitions \subseteq MarketStatuses \X MarketStatuses

VARIABLES
    market,          \* MarketData, by id
    nextMarketId

registryVars == <<market, nextMarketId>>

MarketRecord ==
    [status : MarketStatuses \cup {"None"}, has_final_outcome : BOOLEAN,
     final_outcome : Outcomes, has_request : BOOLEAN, request_id : Nat]

NoMarket ==
    [status |-> "None", has_final_outcome |-> FALSE, final_outcome |-> "Invalid",
     has_request |-> FALSE, request_id |-> 0]

RegistryInit ==
    /\ market = [m \in Markets |-> NoMarket]
    /\ nextMarketId = 1

RegistryTypeOK ==
    /\ market \in [Markets -> MarketRecord]
    /\ nextMarketId \in Nat \ {0}

valid_transition(from, to) ==
    <<from, to>> \in
      {<<"Created", "Live">>, <<"Live", "Paused">>, <<"Paused", "Live">>,
       <<"Live", "TradingClosed">>, <<"Paused", "TradingClosed">>,
       <<"TradingClosed", "ResolutionRequested">>,
       <<"ResolutionRequested", "Proposed">>, <<"Proposed", "Disputed">>,
       <<"Disputed", "CouncilVoting">>, <<"CouncilVoting", "Resolved">>,
       <<"Created", "Cancelled">>, <<"Live", "Cancelled">>, <<"Paused", "Cancelled">>}

transition_internal(m, next) ==
    /\ valid_transition(market[m].status, next)
    /\ market' = [market EXCEPT ![m].status = next]
    /\ UNCHANGED nextMarketId

validate_config(m) == now < Expiry[m] /\ BondAmount[m] > 0 /\ DisputeWindow[m] # 0

\* Factory's create_market: register_market and activate_market in one
\* transaction, so that no other transaction sees the market in Created.
create_market(m) ==
    /\ m = nextMarketId
    /\ validate_config(m)
    /\ market' = [market EXCEPT ![m].status = "Live"]
    /\ nextMarketId' = nextMarketId + 1

\* Governance: set_status, and cancel_market, which is its Cancelled case.
set_status(m, next) ==
    /\ <<market[m].status, next>> \in GovTransitions
    /\ transition_internal(m, next)

\* Anyone, once the market has expired.
close_trading(m) ==
    /\ now >= Expiry[m]
    /\ transition_internal(m, "TradingClosed")

\* Faulty variants: the market does not learn its request's id; a market in
\* any status is taken.
close_and_mark_unlinked(m, r) ==
    /\ now >= Expiry[m]
    /\ ~market[m].has_final_outcome
    /\ market[m].status \in {"Live", "TradingClosed"}
    /\ market' = [market EXCEPT ![m].status = "ResolutionRequested"]
    /\ UNCHANGED nextMarketId

close_and_mark_any_status(m, r) ==
    /\ now >= Expiry[m]
    /\ ~market[m].has_final_outcome
    /\ market[m].status # "None"
    /\ market' = [market EXCEPT ![m].status = "ResolutionRequested",
                                ![m].has_request = TRUE,
                                ![m].request_id = r]
    /\ UNCHANGED nextMarketId

\* The registry half of the oracle's request_resolution: close_trading for a
\* market still Live, then mark_resolution_requested.
close_and_mark_requested(m, r) ==
    /\ now >= Expiry[m]
    /\ ~market[m].has_final_outcome
    /\ market[m].status \in {"Live", "TradingClosed"}
    /\ market' = [market EXCEPT ![m].status = "ResolutionRequested",
                                ![m].has_request = TRUE,
                                ![m].request_id = r]
    /\ UNCHANGED nextMarketId

mark_proposed(m)       == transition_internal(m, "Proposed")
mark_disputed(m)       == transition_internal(m, "Disputed")
mark_council_voting(m) == transition_internal(m, "CouncilVoting")

set_final_outcome(m, outcome) ==
    /\ ~market[m].has_final_outcome
    /\ market[m].status \in {"Proposed", "CouncilVoting"}
    /\ market' = [market EXCEPT ![m].status = "Resolved",
                                ![m].has_final_outcome = TRUE,
                                ![m].final_outcome = outcome]
    /\ UNCHANGED nextMarketId
=============================================================================
