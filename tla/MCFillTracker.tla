---------------------------- MODULE MCFillTracker ----------------------------
(***************************************************************************)
(* FillTracker for TLC: one order, filled in two parts, the second without *)
(* a tid.  The buffer holds two fills, so a duplicate can push one out.    *)
(***************************************************************************)
EXTENDS FillTracker

CONSTANTS O1, T1

MCOrders == {O1}
MCFills == {[order |-> O1, size |-> 1, tid |-> T1, time |-> 1],
            [order |-> O1, size |-> 1, tid |-> NoTid, time |-> 2]}
MCOrderSize == [o \in MCOrders |-> 2]
MCFaultModels == {{}, {"persist"}, {"load", "midCrash"}}
MCNoFaults == {{}}
=============================================================================
