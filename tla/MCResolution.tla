---------------------------- MODULE MCResolution ----------------------------
(***************************************************************************)
(* Resolution on small instances: the constants of the runs.               *)
(***************************************************************************)
EXTENDS Resolution, TLC

\* Every market expires at 1, with a window of one tick and the given bond.
ExpiryAtOne == [m \in Markets |-> 1]
WindowOfOne == [m \in Markets |-> 1]
BondOfTen   == [m \in Markets |-> 10]
BondOfSeven == [m \in Markets |-> 7]

Shares(w, c, t) == [winner |-> w, council |-> c, treasury |-> t]
DefaultSplit == {Shares(6000, 3000, 1000)}
\* Without a council share the report makes no call back into the council.
WithAndWithoutCouncil == {Shares(6000, 3000, 1000), Shares(3333, 0, 6667)}

\* Operational governance: pausing, closing early and cancelling.
OperationalTransitions ==
    {<<"Live", "Paused">>, <<"Paused", "Live">>, <<"Live", "Cancelled">>,
     <<"Paused", "TradingClosed">>}

Symmetry == Permutations(Users) \cup Permutations(Members)
=============================================================================
