-------------------------- MODULE MarketLifecycle --------------------------
(***************************************************************************)
(* What the registry and the oracle promise to the contracts that hold     *)
(* money (vault, AMM, conditional tokens): the phases a market goes        *)
(* through, and a verdict that appears once, when the market is Resolved.  *)
(* The composition in Resolution implements this specification; Trading    *)
(* is built on it.                                                         *)
(***************************************************************************)
EXTENDS DikeTypes

CONSTANT Markets

VARIABLES
    phase,      \* what is_tradeable, get_status and the clock tell of a market
    verdict     \* get_final_outcome, "none" while it is an error

lifecycleVars == <<phase, verdict>>

\* Live is Live before the expiry, Expired is Live on record after it, Halted
\* is Paused, Closed is TradingClosed and every status of a resolution.
Phases == {"None", "Live", "Expired", "Halted", "Closed", "Resolved", "Cancelled"}

LifecycleInit ==
    /\ phase = [m \in Markets |-> "None"]
    /\ verdict = [m \in Markets |-> "none"]

Moves ==
    {<<"None", "Live">>, <<"Live", "Halted">>, <<"Expired", "Halted">>, <<"Halted", "Live">>,
     <<"Halted", "Expired">>, <<"Live", "Closed">>, <<"Expired", "Closed">>,
     <<"Halted", "Closed">>, <<"Live", "Cancelled">>, <<"Expired", "Cancelled">>,
     <<"Halted", "Cancelled">>}

Move(m, p) ==
    /\ <<phase[m], p>> \in Moves
    /\ phase' = [phase EXCEPT ![m] = p]
    /\ UNCHANGED verdict

\* Time passes the expiry of some markets.
Expire(S) ==
    /\ \A m \in S : phase[m] = "Live"
    /\ phase' = [m \in Markets |-> IF m \in S THEN "Expired" ELSE phase[m]]
    /\ UNCHANGED verdict

Resolve(m, o) ==
    /\ phase[m] = "Closed"
    /\ phase' = [phase EXCEPT ![m] = "Resolved"]
    /\ verdict' = [verdict EXCEPT ![m] = o]

LifecycleNext ==
    \/ \E m \in Markets, p \in Phases : Move(m, p)
    \/ \E S \in SUBSET Markets : Expire(S)
    \/ \E m \in Markets, o \in Outcomes : Resolve(m, o)

LifecycleSpec == LifecycleInit /\ [][LifecycleNext]_lifecycleVars
=============================================================================
