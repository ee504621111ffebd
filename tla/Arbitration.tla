----------------------------- MODULE Arbitration -----------------------------
(***************************************************************************)
(* MandateArbitrator (runtime/arbitration/arbitrator.py) as operators on   *)
(* sets of mandates.  The code walks a Python set of mandates whose hashes *)
(* include strings, so the order of the walk differs from one process to   *)
(* the next: where it keeps the first of several, any of them may come     *)
(* out, and an operator here returns the set of possible results.          *)
(***************************************************************************)
EXTENDS Integers

MandateTypes == {"EXIT", "BLOCK", "REDUCE", "ENTRY", "HOLD"}
NoneSide == "NONE"      \* direction is None
NoneAmount == 0         \* quantity or entry_price is None

\* Action.from_mandate_type: what is executed; BLOCK is not actionable.
Action(type, m) ==
    [type |-> type, direction |-> m.direction, quantity |-> m.quantity,
     entry_price |-> m.entry_price]

BareAction(type) ==
    [type |-> type, direction |-> NoneSide, quantity |-> NoneAmount,
     entry_price |-> NoneAmount]

NoAction == BareAction("NO_ACTION")

OfType(mandates, type) == {m \in mandates : m.type = type}

\* by_type: the mandate kept for a type, strictly greater authority replacing.
Strongest(mandates, type) ==
    {m \in OfType(mandates, type) :
       \A n \in OfType(mandates, type) : n.authority <= m.authority}

\* Mutant: BLOCK does not filter ENTRY.
EligibleDespiteBlock(mandates) == mandates

\* Step 2: BLOCK removes ENTRY.
Eligible(mandates) ==
    IF OfType(mandates, "BLOCK") = {} THEN mandates
    ELSE mandates \ OfType(mandates, "ENTRY")

Chosen(mandates, type) == {Action(type, m) : m \in Strongest(mandates, type)}

\* Step 4: REDUCE, then ENTRY, then HOLD; nothing else is actionable.
Hierarchy(mandates) ==
    IF Chosen(mandates, "REDUCE") /= {} THEN Chosen(mandates, "REDUCE")
    ELSE IF Chosen(mandates, "ENTRY") /= {} THEN Chosen(mandates, "ENTRY")
    ELSE IF Chosen(mandates, "HOLD") /= {} THEN Chosen(mandates, "HOLD")
    ELSE {NoAction}

\* arbitrate: the actions that may come out of the mandates of one symbol.
Arbitrate(mandates) ==
    IF OfType(mandates, "EXIT") /= {} THEN {BareAction("EXIT")}
    ELSE Hierarchy(Eligible(mandates))

\* arbitrate_all: symbols do not see each other's mandates.
ArbitrateAll(mandates, symbol) == Arbitrate({m \in mandates : m.symbol = symbol})
=============================================================================
