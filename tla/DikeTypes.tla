----------------------------- MODULE DikeTypes -----------------------------
(***************************************************************************)
(* The types, constants and arithmetic shared by every Dike contract       *)
(* (crates/dike_types, crates/dike_math).                                  *)
(***************************************************************************)
EXTENDS Integers

Outcomes == {"Yes", "No", "Invalid"}

MarketStatuses ==
    {"Created", "Live", "Paused", "TradingClosed", "ResolutionRequested",
     "Proposed", "Disputed", "CouncilVoting", "Resolved", "Cancelled"}

OracleStatuses == {"None", "Requested", "Proposed", "Disputed", "Escalated", "Finalized"}

BPS_DENOMINATOR == 10000

\* bps(amount, rate): the share of an amount, rounded down.
bps(amount, rate_bps) == (amount * rate_bps) \div BPS_DENOMINATOR
=============================================================================
