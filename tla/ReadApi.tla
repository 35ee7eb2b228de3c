------------------------------- MODULE ReadApi -------------------------------
(***************************************************************************)
(* The read side of dike-services: the queries of state-repository.ts      *)
(* behind the routes of api/server.ts, and what the pages make of the      *)
(* answers (dike-web lib/api: the fetch functions and normalizers.ts).     *)
(* Each answer keeps, per table, the row it was computed from.             *)
(***************************************************************************)
EXTENDS ReadModel

\* A join with, or a subselect on, the market's own row.
WithMarket(r) == IF db[Row("market")] = NoRow THEN NoRow ELSE db[r]

listMarkets == [market |-> db[Row("market")], pool |-> WithMarket(Row("pool"))]

getMarketDetail ==
    [market |-> db[Row("market")], pool |-> WithMarket(Row("pool")), vault |-> db[Row("vault")],
     request |-> WithMarket(Row("request")), case |-> db[Row("case")]]

getResolution ==
    [market |-> db[Row("market")], request |-> db[Row("request")], case |-> db[Row("case")]]

getCouncilCases    == db[Row("case")]
getAdminGovernance == db[Row("gov")]
getTimelockActions == db[Row("timelock")]
getPortfolio(u)    == [k \in {"position", "lp", "vaultState"} |-> db[UserRow(k, u)]]

-----------------------------------------------------------------------------
(* What a page shows.  A value that is missing is shown as zero. *)

toStringValue(row) == IF row = NoRow THEN 0 ELSE row.val

normalizeMarketData(answer) ==
    [market |-> toStringValue(answer.market), pool |-> toStringValue(answer.pool)]

normalizeResolutionRequest(answer) == toStringValue(answer.request)
normalizeCouncilCase(row)          == toStringValue(row)
normalizeAdminState(row)           == toStringValue(row)
normalizeTimelockAction(row)       == toStringValue(row)

\* A market is in the portfolio for any row of it; one that has liquidity only,
\* and the liquidity of any, needs the listed market to know its pool.
normalizePortfolio(portfolio, markets) ==
    LET hasPool == markets.market # NoRow
        listed  == \/ portfolio.position # NoRow \/ portfolio.vaultState # NoRow
                   \/ portfolio.lp # NoRow /\ hasPool
    IN  [k \in DOMAIN portfolio |->
           IF listed /\ (k = "lp" => hasPool) THEN toStringValue(portfolio[k]) ELSE 0]

\* What the pages show of the object of row r.
Shown(r) ==
    CASE r[2] # NoUser       -> normalizePortfolio(getPortfolio(r[2]), listMarkets)[r[1]]
      [] r[1] = "market"     -> normalizeMarketData(listMarkets).market
      [] r[1] = "pool"       -> normalizeMarketData(getMarketDetail).pool
      [] r[1] = "request"    -> normalizeResolutionRequest(getResolution)
      [] r[1] = "case"       -> normalizeCouncilCase(getCouncilCases)
      [] r[1] = "gov"        -> normalizeAdminState(getAdminGovernance)
      [] r[1] = "timelock"   -> normalizeTimelockAction(getTimelockActions)
      [] r[1] = "vault"      -> toStringValue(getMarketDetail.vault)
=============================================================================
