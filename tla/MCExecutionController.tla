------------------------ MODULE MCExecutionController ------------------------
(***************************************************************************)
(* ExecutionController for TLC: two symbols, positions of one or two lots, *)
(* mark prices of 1 or none, or of 2 for one of them.  With L_max 2 and    *)
(* equity 2 or 4 a cycle can fill the limit with one entry, exceed it with *)
(* two, or find itself over it after a move of price or equity.            *)
(* LLiquidation lies above L_max, as 1/(0.08 + 0.005) = 11.8 does above 10 *)
(* in the default RiskConfig.                                              *)
(***************************************************************************)
EXTENDS ExecutionController

CONSTANTS BTC, ETH

MCSymbols == {BTC, ETH}
MCQuantities == 0..2
MCStores == {"positions"}
MCMarks == {f \in [MCSymbols -> 0..2] : f[ETH] <= 1}
MCAccounts == {[equity |-> 2, margin_available |-> 2], [equity |-> 4, margin_available |-> 1]}

Strategy(s, type, authority, direction, quantity, price) ==
    [symbol |-> s, type |-> type, authority |-> authority, direction |-> direction,
     quantity |-> quantity, entry_price |-> price]

MCMandates ==
    UNION {{Strategy(s, "ENTRY", 5, "LONG", 1, 0),
            Strategy(s, "ENTRY", 5, "SHORT", 2, 1),
            Strategy(s, "ENTRY", 5, "LONG", 0, 0),
            Strategy(s, "EXIT", 5, "NONE", 0, 0),
            Strategy(s, "REDUCE", 5, "NONE", 1, 0),
            Strategy(s, "HOLD", 5, "NONE", 0, 0),
            Strategy(s, "BLOCK", 10, "NONE", 0, 0)} : s \in MCSymbols}
=============================================================================
