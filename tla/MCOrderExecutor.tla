--------------------------- MODULE MCOrderExecutor ---------------------------
(***************************************************************************)
(* OrderExecutor for TLC: an entry of two units, of which one is enough in *)
(* a cascade and too little otherwise.                                     *)
(***************************************************************************)
EXTENDS OrderExecutor

MCMinFillPct == [cascade \in BOOLEAN |-> IF cascade THEN 50 ELSE 80]
=============================================================================
