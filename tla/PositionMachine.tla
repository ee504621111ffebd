--------------------------- MODULE PositionMachine ---------------------------
(***************************************************************************)
(* The position lifecycle of runtime/position/: PositionStateMachine, the  *)
(* Position records it installs, the PositionRepository rows they are      *)
(* saved to, and the closing_timeouts rows of ExecutionStateRepository     *)
(* (P4).                                                                   *)
(*                                                                         *)
(* Every method holds the machine's RLock, so a call is one step, except   *)
(* for what the disk may do to it: transition() changes memory, then the   *)
(* closing_timeouts row, then the positions row, each committed on its     *)
(* own.  faults says which of these writes may fail and whether the        *)
(* process may die between them; a crash between two calls is always       *)
(* possible.  Wall-clock time is the age of each timestamp, advanced by    *)
(* Tick.                                                                   *)
(***************************************************************************)
EXTENDS Integers

CONSTANTS
    Symbols,        \* the instruments
    Quantities,     \* the signed sizes a fill may report, 0 included
    ClosingTimeout, \* closing_timeout_sec, in ticks
    Stores,         \* the repositories configured: "positions", "closing"
    FaultModels     \* the sets of faults to consider, see faults

FaultKinds == {"closingWrite", "positionWrite", "midCrash"}

ASSUME QuantitiesAssumption == Quantities \subseteq Int /\ 0 \in Quantities
ASSUME TimeoutAssumption == ClosingTimeout \in Nat
ASSUME StoresAssumption == Stores \subseteq {"positions", "closing"}
ASSUME FaultsAssumption == FaultModels \subseteq SUBSET FaultKinds

VARIABLES
    positions,        \* _positions: the in-memory Position of every symbol
    closing_trackers, \* _closing_trackers: age of entered_closing_at
    positionRows,     \* the positions table (a missing row reads as FLAT)
    closingRows,      \* the closing_timeouts table, as ages
    up,               \* the process is running
    timedOut,         \* what the last check_closing_timeouts() returned
    closingAge,       \* history: how long the position has been CLOSING
    faults            \* the faults of this behaviour, chosen at the start

vars == <<positions, closing_trackers, positionRows, closingRows, up,
          timedOut, closingAge, faults>>

-----------------------------------------------------------------------------
(* Positions                                                               *)

States == {"FLAT", "ENTERING", "OPEN", "REDUCING", "CLOSING"}
Directions == {"LONG", "SHORT"}
Prices == {"none", "zero", "positive"}   \* None, Decimal(0), any other

Positions ==
    [state: States, direction: Directions \union {"NONE"},
     quantity: Quantities, entry_price: Prices]

Flat == [state |-> "FLAT", direction |-> "NONE", quantity |-> 0, entry_price |-> "none"]

AllFlat == [s \in Symbols |-> Flat]

\* Mutant: the OPEN clause of __post_init__ is missing.
ConstructibleUnlessOpen(p) ==
    /\ p.state = "FLAT" => p.quantity = 0 /\ p.direction = "NONE"
    /\ p.state /= "FLAT" => p.direction /= "NONE"

\* Position.__post_init__: what a record must satisfy to be constructed.
Constructible(p) ==
    /\ p.state = "FLAT" => p.quantity = 0 /\ p.direction = "NONE"
    /\ p.state = "OPEN" => p.quantity /= 0
    /\ p.state /= "FLAT" => p.direction /= "NONE"

\* save() then _row_to_position(): a zero price is falsy, and stored as NULL.
Stored(p) ==
    [p EXCEPT !.entry_price = IF p.entry_price = "zero" THEN "none" ELSE p.entry_price]

Abs(q) == IF q < 0 THEN -q ELSE q

-----------------------------------------------------------------------------
(* Timestamps, as ages                                                     *)

NoTracker == -1
MaxAge == ClosingTimeout + 1            \* ages past the timeout are alike
Ages == 0..MaxAge
Older(age) == IF age = NoTracker \/ age = MaxAge THEN age ELSE age + 1
NoTrackers == [s \in Symbols |-> NoTracker]

-----------------------------------------------------------------------------
Init ==
    /\ positions = AllFlat
    /\ closing_trackers = NoTrackers
    /\ positionRows = AllFlat
    /\ closingRows = NoTrackers
    /\ up = TRUE
    /\ timedOut = {}
    /\ closingAge = NoTrackers
    /\ faults \in FaultModels

(***************************************************************************)
(* The common tail of transition() and force_close_timeout(), once the new *)
(* record is in memory: the tracker, then the two rows.                    *)
(***************************************************************************)
\* Mutant: leaving CLOSING does not pop the tracker.
TrackerKept(s, new) ==
    IF new.state = "CLOSING" /\ closing_trackers[s] = NoTracker
    THEN 0 ELSE closing_trackers[s]

TrackerAfter(s, new) ==
    CASE new.state = "FLAT" -> NoTracker
      [] new.state = "CLOSING" /\ closing_trackers[s] = NoTracker -> 0
      [] OTHER -> closing_trackers[s]

\* The row is written only together with a fresh tracker, deleted on FLAT.
ClosingRowAfter(s, new) ==
    IF "closing" \notin Stores THEN closingRows[s]
    ELSE IF new.state = "FLAT" THEN NoTracker
    ELSE IF new.state = "CLOSING" /\ closing_trackers[s] = NoTracker THEN 0
    ELSE closingRows[s]

\* Mutant: a position that went FLAT is not saved.
PositionRowUnlessFlat(s, new) ==
    IF "positions" \in Stores /\ new.state /= "FLAT" THEN Stored(new) ELSE positionRows[s]

PositionRowAfter(s, new) ==
    IF "positions" \in Stores THEN Stored(new) ELSE positionRows[s]

ClosingAgeAfter(s, new) ==
    IF new.state /= "CLOSING" THEN NoTracker
    ELSE IF positions[s].state /= "CLOSING" THEN 0
    ELSE closingAge[s]

\* A failed closing write is swallowed; the caller never learns of it.
WriteClosingRow(s, new) ==
    \/ closingRows' = [closingRows EXCEPT ![s] = ClosingRowAfter(s, new)]
    \/ "closingWrite" \in faults /\ closingRows' = closingRows

\* A failed save() raises out of transition(), memory already changed.
WritePositionRow(s, new) ==
    \/ positionRows' = [positionRows EXCEPT ![s] = PositionRowAfter(s, new)]
    \/ "positionWrite" \in faults /\ positionRows' = positionRows

LoseMemory ==
    /\ up' = FALSE
    /\ positions' = AllFlat
    /\ closing_trackers' = NoTrackers
    /\ timedOut' = {}

\* The process dies after the memory change, before the positions row.
DieInTail(s, new) ==
    /\ "midCrash" \in faults
    /\ LoseMemory
    /\ WriteClosingRow(s, new) \/ UNCHANGED closingRows
    /\ UNCHANGED <<positionRows, closingAge, faults>>

Complete(s, new) ==
    /\ positions' = [positions EXCEPT ![s] = new]
    /\ closing_trackers' = [closing_trackers EXCEPT ![s] = TrackerAfter(s, new)]
    /\ WriteClosingRow(s, new)
    /\ WritePositionRow(s, new)
    /\ closingAge' = [closingAge EXCEPT ![s] = ClosingAgeAfter(s, new)]
    /\ UNCHANGED <<up, timedOut, faults>>

Install(s, new) ==
    /\ Constructible(new)
    /\ Complete(s, new) \/ DieInTail(s, new)

-----------------------------------------------------------------------------
(* transition(): a call whose key is not in the table raises, and changes  *)
(* nothing.                                                                *)

ALLOWED_TRANSITIONS ==
    { <<"FLAT", "ENTRY", "ENTERING">>,
      <<"ENTERING", "SUCCESS", "OPEN">>,
      <<"ENTERING", "FAILURE", "FLAT">>,
      <<"OPEN", "REDUCE", "REDUCING">>,
      <<"OPEN", "EXIT", "CLOSING">>,
      <<"REDUCING", "COMPLETE", "CLOSING">>,
      <<"REDUCING", "PARTIAL", "OPEN">>,
      <<"CLOSING", "SUCCESS", "FLAT">>,
      <<"ENTERING", "EMERGENCY_EXIT", "CLOSING">>,
      <<"REDUCING", "EMERGENCY_EXIT", "CLOSING">> }

Allows(s, action, next) ==
    /\ up
    /\ <<positions[s].state, action, next>> \in ALLOWED_TRANSITIONS

HandleEntry(s) ==
    /\ Allows(s, "ENTRY", "ENTERING")
    /\ \E d \in Directions :
         Install(s, [Flat EXCEPT !.state = "ENTERING", !.direction = d])

HandleEntrySuccess(s) ==
    /\ Allows(s, "SUCCESS", "OPEN")
    /\ \E q \in Quantities, p \in Prices \ {"none"} :
         Install(s, [positions[s] EXCEPT !.state = "OPEN", !.quantity = q, !.entry_price = p])

HandleEntryFailure(s) ==
    /\ Allows(s, "FAILURE", "FLAT")
    /\ Install(s, Flat)

HandleReduce(s) ==
    /\ Allows(s, "REDUCE", "REDUCING")
    /\ Install(s, [positions[s] EXCEPT !.state = "REDUCING"])

HandleReducePartial(s) ==
    /\ Allows(s, "PARTIAL", "OPEN")
    /\ \E q \in Quantities :
         /\ Abs(q) < Abs(positions[s].quantity)
         /\ (q > 0) <=> (positions[s].quantity > 0)
         /\ Install(s, [positions[s] EXCEPT !.state = "OPEN", !.quantity = q])

HandleReduceComplete(s) ==
    /\ Allows(s, "COMPLETE", "CLOSING")
    /\ Install(s, [positions[s] EXCEPT !.state = "CLOSING", !.quantity = 0])

HandleExit(s) ==
    /\ Allows(s, "EXIT", "CLOSING")
    /\ Install(s, [positions[s] EXCEPT !.state = "CLOSING"])

HandleEmergencyExit(s) ==
    /\ Allows(s, "EMERGENCY_EXIT", "CLOSING")
    /\ Install(s, [positions[s] EXCEPT !.state = "CLOSING"])

HandleExitSuccess(s) ==
    /\ Allows(s, "SUCCESS", "FLAT")
    /\ Install(s, Flat)

-----------------------------------------------------------------------------
(* X6-A: the lock is released before the caller acts on the result, so the *)
(* set may be stale by the time force_close_timeout is called.             *)

\* Mutant: the comparison with the timeout is not strict.
CheckClosingTimeoutsEarly ==
    /\ up
    /\ timedOut' = {s \in Symbols : closing_trackers[s] >= ClosingTimeout}
    /\ UNCHANGED <<positions, closing_trackers, positionRows, closingRows, up,
                   closingAge, faults>>

CheckClosingTimeouts ==
    /\ up
    /\ timedOut' = {s \in Symbols : closing_trackers[s] > ClosingTimeout}
    /\ UNCHANGED <<positions, closing_trackers, positionRows, closingRows, up,
                   closingAge, faults>>

ForceCloseTimeout(s) ==
    /\ up
    /\ s \in timedOut
    /\ positions[s].state = "CLOSING"
    /\ Install(s, Flat)

-----------------------------------------------------------------------------
(* Time, crashes and restarts                                              *)

Tick ==
    /\ closing_trackers' = [s \in Symbols |-> Older(closing_trackers[s])]
    /\ closingRows' = [s \in Symbols |-> Older(closingRows[s])]
    /\ closingAge' = [s \in Symbols |-> Older(closingAge[s])]
    /\ UNCHANGED <<positions, positionRows, up, timedOut, faults>>

Crash ==
    /\ up
    /\ LoseMemory
    /\ UNCHANGED <<positionRows, closingRows, closingAge, faults>>

\* Mutant: recovery with load_open_positions instead of load_non_flat_positions.
RestartWithOpenOnly ==
    /\ ~up
    /\ up' = TRUE
    /\ positions' = [s \in Symbols |->
         IF positionRows[s].state = "OPEN" THEN positionRows[s] ELSE Flat]
    /\ closing_trackers' = closingRows
    /\ UNCHANGED <<positionRows, closingRows, closingAge, timedOut, faults>>

\* __init__: the rows that are not FLAT, and every closing_timeouts row.
Restart ==
    /\ ~up
    /\ up' = TRUE
    /\ positions' = positionRows
    /\ closing_trackers' = closingRows
    /\ closingAge' = [s \in Symbols |->
         IF positionRows[s].state /= "CLOSING" THEN NoTracker
         ELSE IF closingAge[s] = NoTracker THEN 0
         ELSE closingAge[s]]
    /\ UNCHANGED <<positionRows, closingRows, timedOut, faults>>

Transition(s) ==
    \/ HandleEntry(s) \/ HandleEntrySuccess(s) \/ HandleEntryFailure(s)
    \/ HandleReduce(s) \/ HandleReducePartial(s) \/ HandleReduceComplete(s)
    \/ HandleExit(s) \/ HandleEmergencyExit(s) \/ HandleExitSuccess(s)

Next ==
    \/ \E s \in Symbols : Transition(s) \/ ForceCloseTimeout(s)
    \/ CheckClosingTimeouts
    \/ Tick \/ Crash \/ Restart

Spec == Init /\ [][Next]_vars

-----------------------------------------------------------------------------
(* Properties                                                              *)

\* What each lifecycle state says of the size and the price held (types.py).
WellFormed(p) ==
    /\ p \in Positions
    /\ Constructible(p)
    /\ p.state = "ENTERING" => p.quantity = 0 /\ p.entry_price = "none"
    /\ p.state = "REDUCING" => p.quantity /= 0

\* Every variable has its type, and every record in memory or in the
\* positions table is one the lifecycle can produce: OPEN and REDUCING hold
\* something, ENTERING holds nothing and has no price yet.
TypeOK ==
    /\ positions \in [Symbols -> Positions]
    /\ positionRows \in [Symbols -> Positions]
    /\ \A s \in Symbols : WellFormed(positions[s]) /\ WellFormed(positionRows[s])
    /\ closing_trackers \in [Symbols -> Ages \union {NoTracker}]
    /\ closingRows \in [Symbols -> Ages \union {NoTracker}]
    /\ closingAge \in [Symbols -> Ages \union {NoTracker}]
    /\ up \in BOOLEAN
    /\ timedOut \subseteq Symbols
    /\ faults \in FaultModels

\* With a positions table whose writes do not fail, what a restart would load
\* is what the machine holds, save() having turned a zero price into none,
\* wherever the process dies (state_machine.py, "save on every transition").
RestartLosesNothing ==
    (/\ up /\ "positions" \in Stores /\ "positionWrite" \notin faults)
    => \A s \in Symbols : positionRows[s] = Stored(positions[s])

\* X6-A and P4: with both stores and no torn write, a position is tracked
\* exactly while it is CLOSING, and its tracker tells how long that has been,
\* across restarts.
ClosingIsTracked ==
    (faults = {} /\ Stores = {"positions", "closing"} /\ up)
    => \A s \in Symbols :
         closing_trackers[s] = IF positions[s].state = "CLOSING" THEN closingAge[s] ELSE NoTracker

\* X6-A: check_closing_timeouts returns every position that has been CLOSING
\* for longer than the timeout, and no other.
ReportsExactlyTheLate ==
    [][ (CheckClosingTimeouts /\ faults = {} /\ Stores = {"positions", "closing"})
        => timedOut' = {s \in Symbols :
                          positions[s].state = "CLOSING" /\ closingAge[s] > ClosingTimeout} ]_vars

\* P4, "CLOSING timeout persistence across restarts": a position in CLOSING
\* has a tracker, whatever the moment at which the process died.
ClosingSurvivesCrashes ==
    up => \A s \in Symbols :
            positions[s].state = "CLOSING" => closing_trackers[s] /= NoTracker

(***************************************************************************)
(* The contract.  While the process is down, the exposure is what the      *)
(* positions table will restore.  It is claimed for a configured table     *)
(* whose writes do not fail.                                               *)
(***************************************************************************)
PhaseOf(state) ==
    CASE state = "FLAT" -> "flat"
      [] state = "ENTERING" -> "pending"
      [] state \in {"OPEN", "REDUCING"} -> "held"
      [] state = "CLOSING" -> "leaving"

ExposureOf(p) ==
    [phase |-> PhaseOf(p.state), direction |-> p.direction, quantity |-> p.quantity]

Visible(s) ==
    IF "positions" \notin Stores \/ "positionWrite" \in faults THEN Flat
    ELSE IF up THEN positions[s] ELSE positionRows[s]

VisibleExposure == [s \in Symbols |-> ExposureOf(Visible(s))]

Contract == INSTANCE PositionContract WITH exposure <- VisibleExposure

\* The machine, its tables and its crashes implement the lifecycle contract:
\* one direction from entry to FLAT, sizes that only shrink, no second entry
\* before FLAT, and no restart that forgets or revives a position.
LifecycleContract == Contract!Spec
=============================================================================
