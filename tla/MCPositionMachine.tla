-------------------------- MODULE MCPositionMachine --------------------------
(***************************************************************************)
(* PositionMachine for TLC.  No action reads two symbols, so one symbol    *)
(* with a rich position shows what a step can do; PositionMachineProofs    *)
(* covers every set of symbols.                                            *)
(***************************************************************************)
EXTENDS PositionMachine

CONSTANTS BTC

MCSymbols == {BTC}
MCQuantities == -2..3
MCStores == {"positions", "closing"}

\* No torn write at all, torn by the process, torn by the disk.
MCFaultModels == {{}, {"closingWrite", "midCrash"}, {"positionWrite"}}
MCCrashModel == {{"midCrash"}}
=============================================================================
