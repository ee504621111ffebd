--------------------------- MODULE MCTrailingStops ---------------------------
(***************************************************************************)
(* TrailingStops for TLC: every mode in both directions without faults,    *)
(* and sets of faults: those that leave the row alone, those that leave    *)
(* one request at a time with and without failing writes, deaths and loads *)
(* that fail, and all of them.                                             *)
(***************************************************************************)
EXTENDS TrailingStops

Setup(directions, modes, faults) == [direction : directions, mode : modes, faults : {faults}]

MCSetups ==
    Setup({"LONG", "SHORT"}, Modes, {})
    \union Setup({"LONG"}, {"FIXED_DISTANCE"}, {"overlap", "lostAnswer", "staleQuery"})
    \union Setup({"SHORT"}, {"STEPPED"}, {"lostAnswer", "midCrash", "rowWrite"})
    \union Setup({"LONG"}, {"STEPPED"}, {"lostAnswer", "midCrash"})
    \union Setup({"SHORT"}, {"FIXED_DISTANCE"}, {"midCrash", "rowRead"})
    \union Setup({"SHORT"}, {"BREAK_EVEN_ONLY"}, Faults)
=============================================================================
