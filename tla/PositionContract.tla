-------------------------- MODULE PositionContract --------------------------
(***************************************************************************)
(* What the position lifecycle promises the rest of the system, whatever   *)
(* the process does in between: an exposure is taken in one direction,     *)
(* acquired once, can only shrink, and is given up before another may be   *)
(* taken.  A crash and restart of the process is not a step of this        *)
(* specification: it must be invisible.  PositionMachine implements it     *)
(* (see Contract there).                                                   *)
(***************************************************************************)
EXTENDS Integers

CONSTANTS
    Symbols,      \* the instruments
    Quantities    \* the signed sizes a fill may report, 0 included

VARIABLE exposure \* for every symbol, [phase, direction, quantity]

Directions == {"LONG", "SHORT"}

NoExposure == [phase |-> "flat", direction |-> "NONE", quantity |-> 0]

Exposures ==
    [phase: {"flat", "pending", "held", "leaving"},
     direction: Directions \union {"NONE"}, quantity: Quantities]

Magnitude(q) == IF q < 0 THEN -q ELSE q

\* The part of `old` that is left when some of it is given up.
RemainsOf(old, new) ==
    /\ Magnitude(new) < Magnitude(old)
    /\ (new > 0) <=> (old > 0)

Init == exposure = [s \in Symbols |-> NoExposure]

Becomes(s, phase, d, q) ==
    exposure' = [exposure EXCEPT ![s] = [phase |-> phase, direction |-> d, quantity |-> q]]

Take(s) ==
    /\ exposure[s] = NoExposure
    /\ \E d \in Directions : Becomes(s, "pending", d, 0)

Acquire(s) ==
    /\ exposure[s].phase = "pending"
    /\ \E q \in Quantities \ {0} : Becomes(s, "held", exposure[s].direction, q)

Shrink(s) ==
    /\ exposure[s].phase = "held"
    /\ \E q \in Quantities :
         /\ RemainsOf(exposure[s].quantity, q)
         /\ Becomes(s, "held", exposure[s].direction, q)

\* Leaving starts with all that is held still to sell, or with nothing left.
Leave(s) ==
    /\ exposure[s].phase \in {"pending", "held"}
    /\ \E q \in {exposure[s].quantity, 0} :
         Becomes(s, "leaving", exposure[s].direction, q)

Release(s) ==
    /\ exposure[s].phase \in {"pending", "leaving"}
    /\ exposure' = [exposure EXCEPT ![s] = NoExposure]

Next == \E s \in Symbols : Take(s) \/ Acquire(s) \/ Shrink(s) \/ Leave(s) \/ Release(s)

Spec == Init /\ [][Next]_exposure
=============================================================================
