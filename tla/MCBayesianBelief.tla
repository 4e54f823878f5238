-------------------------- MODULE MCBayesianBelief --------------------------
EXTENDS BayesianBelief
MCKind == [i \in Inputs |-> IF i = 2 THEN "belief.constraints" ELSE "risk.observed"]
=============================================================================
