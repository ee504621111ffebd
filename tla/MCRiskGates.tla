----------------------------- MODULE MCRiskGates -----------------------------
(***************************************************************************)
(* RiskGates for TLC: two correlated symbols, limits close enough for a    *)
(* few trades to reach each of them, storms of two and three failures.     *)
(***************************************************************************)
EXTENDS RiskGates, TLC

CONSTANTS BTC, ETH

MCCorrelations == {{BTC, ETH}}
MCPnLs == {-40, -10, 25}
MCResults == {-60, -30, 20}
MCTransfers == {-50}
MCQuotas == {[approvals |-> 0, events |-> 5], [approvals |-> 1, events |-> 2],
             [approvals |-> 2, events |-> 1]}
MCThresholds == [rejection |-> 3, rate_limit |-> 2]
MCSymmetry == Permutations({BTC, ETH})
=============================================================================
