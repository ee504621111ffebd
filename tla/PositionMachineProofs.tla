------------------------ MODULE PositionMachineProofs ------------------------
(***************************************************************************)
(* What holds of PositionMachine for every set of symbols, every size,     *)
(* every timeout, every choice of stores and every fault model.            *)
(*                                                                         *)
(* The argument: every call of transition() and force_close_timeout()      *)
(* installs a record that is a legal successor of the one in memory        *)
(* (StepsAreMoves); a record installed keeps the invariant whatever the    *)
(* disk and the process do meanwhile (InstallKeeps...).                    *)
(***************************************************************************)
EXTENDS PositionMachine, TLAPS

\* The successors of a position, whatever call makes them.
Legal(old, new) ==
    \/ /\ old.state = "FLAT" /\ new.state = "ENTERING"
       /\ new.direction \in Directions /\ new.quantity = 0
    \/ /\ old.state = "ENTERING" /\ new.state = "OPEN"
       /\ new.direction = old.direction /\ new.quantity /= 0
    \/ /\ old.state \in {"ENTERING", "CLOSING"} /\ new = Flat
    \/ /\ old.state = "OPEN" /\ new.state = "REDUCING"
       /\ new.direction = old.direction /\ new.quantity = old.quantity
    \/ /\ old.state = "REDUCING" /\ new.state = "OPEN"
       /\ new.direction = old.direction
       /\ Abs(new.quantity) < Abs(old.quantity)
       /\ (new.quantity > 0) <=> (old.quantity > 0)
    \/ /\ old.state \in {"ENTERING", "OPEN", "REDUCING"} /\ new.state = "CLOSING"
       /\ new.direction = old.direction /\ new.quantity \in {old.quantity, 0}

\* Rows hold what save() writes, so loading and saving again changes nothing.
RowsAreStored == \A s \in Symbols : positionRows[s].entry_price /= "zero"

\* Without torn writes the closing_timeouts row is the age of CLOSING, and it
\* exists exactly while the positions row says CLOSING.
RowsAgree ==
    (faults = {} /\ Stores = {"positions", "closing"})
    => \A s \in Symbols :
         /\ closingRows[s] = closingAge[s]
         /\ closingAge[s] = NoTracker <=> positionRows[s].state /= "CLOSING"
         /\ up => closing_trackers[s] = closingRows[s]

IndInv == TypeOK /\ RowsAreStored /\ RestartLosesNothing /\ RowsAgree

USE QuantitiesAssumption, TimeoutAssumption, StoresAssumption, FaultsAssumption

-----------------------------------------------------------------------------
(* Ages                                                                    *)

\* Getting older keeps an age an age, and neither makes nor loses a tracker.
LEMMA OlderAge ==
    ASSUME NEW age \in Ages \union {NoTracker}
    PROVE  /\ Older(age) \in Ages \union {NoTracker}
           /\ Older(age) = NoTracker <=> age = NoTracker
BY DEF Older, Ages, MaxAge, NoTracker

\* A record and its stored form differ in the price alone.
LEMMA StoredPosition ==
    ASSUME NEW p \in Positions, WellFormed(p)
    PROVE  /\ Stored(p) \in Positions
           /\ WellFormed(Stored(p))
           /\ Stored(p).state = p.state
           /\ Stored(p).direction = p.direction
           /\ Stored(p).quantity = p.quantity
           /\ Stored(p).entry_price /= "zero"
BY DEF Stored, Positions, WellFormed, Constructible, Prices, States, Directions

\* A FLAT record is well formed, and the table gives it back as it is.
LEMMA FlatPosition == Flat \in Positions /\ WellFormed(Flat) /\ Stored(Flat) = Flat
BY DEF Flat, Positions, WellFormed, Constructible, Prices, States, Directions, Stored

-----------------------------------------------------------------------------
(* Every handler installs a legal successor                                *)

\* A transition, or a forced close, installs a legal successor of the record in memory.
LEMMA StepsAreMoves ==
    ASSUME TypeOK, NEW s \in Symbols, Transition(s) \/ ForceCloseTimeout(s)
    PROVE  /\ up
           /\ \E new \in Positions :
                WellFormed(new) /\ Legal(positions[s], new) /\ Install(s, new)
<1> DEFINE old == positions[s]
<1>0. old \in Positions /\ WellFormed(old)
  BY DEF TypeOK
<1> USE DEF Allows, ALLOWED_TRANSITIONS
<1>1. CASE HandleEntry(s)
  <2>1. PICK d \in Directions :
          Install(s, [Flat EXCEPT !.state = "ENTERING", !.direction = d])
    BY <1>1 DEF HandleEntry
  <2> DEFINE new == [Flat EXCEPT !.state = "ENTERING", !.direction = d]
  <2>2. new \in Positions /\ WellFormed(new) /\ Legal(old, new)
    BY <1>1, <1>0 DEF HandleEntry, Flat, Positions, States, Directions, Prices,
                      WellFormed, Constructible, Legal
  <2> QED BY <2>1, <2>2, <1>1 DEF HandleEntry
<1>2. CASE HandleEntrySuccess(s)
  <2>1. PICK q \in Quantities, p \in Prices \ {"none"} :
          Install(s, [old EXCEPT !.state = "OPEN", !.quantity = q, !.entry_price = p])
    BY <1>2 DEF HandleEntrySuccess
  <2> DEFINE new == [old EXCEPT !.state = "OPEN", !.quantity = q, !.entry_price = p]
  <2>2. Constructible(new)
    BY <2>1 DEF Install
  <2>3. new \in Positions /\ WellFormed(new) /\ Legal(old, new)
    BY <1>2, <1>0, <2>2 DEF HandleEntrySuccess, Positions, States, Directions, Prices,
                            WellFormed, Constructible, Legal
  <2> QED BY <2>1, <2>3, <1>2 DEF HandleEntrySuccess
<1>3. CASE HandleEntryFailure(s) \/ HandleExitSuccess(s) \/ ForceCloseTimeout(s)
  <2>1. up /\ old.state \in {"ENTERING", "CLOSING"} /\ Install(s, Flat)
    BY <1>3 DEF HandleEntryFailure, HandleExitSuccess, ForceCloseTimeout
  <2>2. Legal(old, Flat)
    BY <2>1 DEF Legal
  <2> QED BY <2>1, <2>2, FlatPosition
<1>4. CASE HandleReduce(s)
  <2> DEFINE new == [old EXCEPT !.state = "REDUCING"]
  <2>1. new \in Positions /\ WellFormed(new) /\ Legal(old, new)
    BY <1>4, <1>0 DEF HandleReduce, Positions, States, Directions, Prices,
                      WellFormed, Constructible, Legal
  <2> QED BY <1>4, <2>1 DEF HandleReduce
<1>5. CASE HandleReducePartial(s)
  <2>1. PICK q \in Quantities :
          /\ Abs(q) < Abs(old.quantity)
          /\ (q > 0) <=> (old.quantity > 0)
          /\ Install(s, [old EXCEPT !.state = "OPEN", !.quantity = q])
    BY <1>5 DEF HandleReducePartial
  <2> DEFINE new == [old EXCEPT !.state = "OPEN", !.quantity = q]
  <2>2. Constructible(new)
    BY <2>1 DEF Install
  <2>3. new \in Positions /\ WellFormed(new)
    BY <1>5, <1>0, <2>2 DEF HandleReducePartial, Positions, States, Directions, Prices,
                            WellFormed, Constructible
  <2>4. /\ new.state = "OPEN" /\ new.direction = old.direction /\ new.quantity = q
        /\ old.state = "REDUCING"
    BY <1>5, <1>0 DEF HandleReducePartial, Positions
  <2>5. Legal(old, new)
    BY <2>4, <2>1 DEF Legal
  <2> QED BY <2>1, <2>3, <2>5, <1>5 DEF HandleReducePartial
<1>6. CASE HandleReduceComplete(s)
  <2> DEFINE new == [old EXCEPT !.state = "CLOSING", !.quantity = 0]
  <2>1. new \in Positions /\ WellFormed(new) /\ Legal(old, new)
    BY <1>6, <1>0 DEF HandleReduceComplete, Positions, States, Directions, Prices,
                      WellFormed, Constructible, Legal
  <2> QED BY <1>6, <2>1 DEF HandleReduceComplete
<1>7. CASE HandleExit(s) \/ HandleEmergencyExit(s)
  <2> DEFINE new == [old EXCEPT !.state = "CLOSING"]
  <2>1. up /\ old.state \in {"ENTERING", "OPEN", "REDUCING"} /\ Install(s, new)
    BY <1>7 DEF HandleExit, HandleEmergencyExit
  <2>2. new \in Positions /\ WellFormed(new) /\ Legal(old, new)
    BY <2>1, <1>0 DEF Positions, States, Directions, Prices,
                      WellFormed, Constructible, Legal
  <2> QED BY <2>1, <2>2
<1> QED
  BY <1>1, <1>2, <1>3, <1>4, <1>5, <1>6, <1>7 DEF Transition

-----------------------------------------------------------------------------
(* Installing a record keeps the invariant                                 *)

\* Installing a well-formed record, torn or not, keeps every type.
LEMMA InstallKeepsTypes ==
    ASSUME TypeOK, up, NEW s \in Symbols, NEW new \in Positions, WellFormed(new),
           Install(s, new)
    PROVE  TypeOK'
<1>1. /\ positionRows' \in [Symbols -> Positions]
      /\ \A t \in Symbols : WellFormed(positionRows'[t])
  <2>1. CASE positionRows' = positionRows
    BY <2>1 DEF TypeOK
  <2>2. CASE positionRows' = [positionRows EXCEPT ![s] = PositionRowAfter(s, new)]
    <3>1. PositionRowAfter(s, new) \in Positions /\ WellFormed(PositionRowAfter(s, new))
      BY StoredPosition DEF PositionRowAfter, TypeOK
    <3> QED BY <2>2, <3>1 DEF TypeOK
  <2> QED BY <2>1, <2>2 DEF Install, Complete, DieInTail, WritePositionRow
<1>2. closingRows' \in [Symbols -> Ages \union {NoTracker}]
  <2>1. CASE closingRows' = closingRows
    BY <2>1 DEF TypeOK
  <2>2. CASE closingRows' = [closingRows EXCEPT ![s] = ClosingRowAfter(s, new)]
    <3>1. ClosingRowAfter(s, new) \in Ages \union {NoTracker}
      BY DEF ClosingRowAfter, TypeOK, Ages, MaxAge
    <3> QED BY <2>2, <3>1 DEF TypeOK
  <2> QED BY <2>1, <2>2 DEF Install, Complete, DieInTail, WriteClosingRow
<1>3. CASE Complete(s, new)
  <2>1. TrackerAfter(s, new) \in Ages \union {NoTracker}
    BY DEF TrackerAfter, TypeOK, Ages, MaxAge
  <2>2. ClosingAgeAfter(s, new) \in Ages \union {NoTracker}
    BY DEF ClosingAgeAfter, TypeOK, Ages, MaxAge
  <2>3. /\ positions' \in [Symbols -> Positions]
        /\ \A t \in Symbols : WellFormed(positions'[t])
    BY <1>3 DEF Complete, TypeOK
  <2> QED BY <1>1, <1>2, <1>3, <2>1, <2>2, <2>3 DEF Complete, TypeOK
<1>4. CASE DieInTail(s, new)
  BY <1>1, <1>2, <1>4, FlatPosition
  DEF DieInTail, LoseMemory, AllFlat, NoTrackers, TypeOK
<1> QED BY <1>3, <1>4 DEF Install

\* ... and keeps the positions table equal to the memory.
LEMMA InstallKeepsRows ==
    ASSUME IndInv, up, NEW s \in Symbols, NEW new \in Positions, WellFormed(new),
           Install(s, new)
    PROVE  RowsAreStored' /\ RestartLosesNothing'
<1>1. RowsAreStored'
  <2>1. CASE positionRows' = positionRows
    BY <2>1 DEF IndInv, RowsAreStored
  <2>2. CASE positionRows' = [positionRows EXCEPT ![s] = PositionRowAfter(s, new)]
    <3>1. PositionRowAfter(s, new).entry_price /= "zero"
      BY StoredPosition DEF PositionRowAfter, IndInv, RowsAreStored
    <3> QED BY <2>2, <3>1 DEF IndInv, RowsAreStored, TypeOK
  <2> QED BY <2>1, <2>2 DEF Install, Complete, DieInTail, WritePositionRow
<1>2. RestartLosesNothing'
  <2>1. CASE Complete(s, new)
    <3> SUFFICES ASSUME "positions" \in Stores, "positionWrite" \notin faults,
                        NEW t \in Symbols
                 PROVE  positionRows'[t] = Stored(positions'[t])
      BY <2>1 DEF Complete, RestartLosesNothing
    <3>1. positionRows' = [positionRows EXCEPT ![s] = Stored(new)]
      BY <2>1 DEF Complete, WritePositionRow, PositionRowAfter
    <3>2. positions' = [positions EXCEPT ![s] = new]
      BY <2>1 DEF Complete
    <3>3. positionRows[t] = Stored(positions[t])
      BY DEF IndInv, RestartLosesNothing
    <3>4. CASE t = s
      BY <3>1, <3>2, <3>4 DEF IndInv, TypeOK
    <3>5. CASE t /= s
      BY <3>1, <3>2, <3>3, <3>5 DEF IndInv, TypeOK
    <3> QED BY <3>4, <3>5
  <2>2. CASE DieInTail(s, new)
    BY <2>2 DEF DieInTail, LoseMemory, RestartLosesNothing
  <2> QED BY <2>1, <2>2 DEF Install
<1> QED BY <1>1, <1>2

\* ... and keeps trackers, rows and the real age of a closing in step.
LEMMA InstallKeepsAges ==
    ASSUME IndInv, up, NEW s \in Symbols, NEW new \in Positions, WellFormed(new),
           Legal(positions[s], new), Install(s, new)
    PROVE  RowsAgree'
<1> SUFFICES ASSUME faults = {}, Stores = {"positions", "closing"}, NEW t \in Symbols
             PROVE  /\ closingRows'[t] = closingAge'[t]
                    /\ closingAge'[t] = NoTracker <=> positionRows'[t].state /= "CLOSING"
                    /\ closing_trackers'[t] = closingRows'[t]
  BY DEF RowsAgree, Install, Complete, DieInTail
<1>1. Complete(s, new)
  BY DEF Install, DieInTail
<1>2. /\ positionRows' = [positionRows EXCEPT ![s] = Stored(new)]
      /\ closingRows' = [closingRows EXCEPT ![s] = ClosingRowAfter(s, new)]
      /\ closing_trackers' = [closing_trackers EXCEPT ![s] = TrackerAfter(s, new)]
      /\ closingAge' = [closingAge EXCEPT ![s] = ClosingAgeAfter(s, new)]
  BY <1>1 DEF Complete, WritePositionRow, PositionRowAfter, WriteClosingRow
<1>3. /\ closingRows[t] = closingAge[t]
      /\ closingAge[t] = NoTracker <=> positionRows[t].state /= "CLOSING"
      /\ closing_trackers[t] = closingRows[t]
  BY DEF IndInv, RowsAgree
<1>4. positionRows[s].state = positions[s].state
  BY StoredPosition DEF IndInv, RestartLosesNothing, TypeOK
<1>5. CASE t /= s
  BY <1>2, <1>3, <1>5 DEF IndInv, TypeOK
<1>6. CASE t = s
  <2>1. /\ closingRows'[s] = ClosingRowAfter(s, new)
        /\ closing_trackers'[s] = TrackerAfter(s, new)
        /\ closingAge'[s] = ClosingAgeAfter(s, new)
        /\ positionRows'[s].state = new.state
    BY <1>2, StoredPosition DEF IndInv, TypeOK
  <2>2. positions[s].state = "CLOSING" => new.state = "FLAT"
    BY DEF Legal, Flat
  <2>3. new.state = "CLOSING" =>
          /\ ClosingRowAfter(s, new) = 0
          /\ TrackerAfter(s, new) = 0
          /\ ClosingAgeAfter(s, new) = 0
    BY <1>3, <1>4, <1>6, <2>2 DEF ClosingRowAfter, TrackerAfter, ClosingAgeAfter
  <2>4. new.state /= "CLOSING" =>
          /\ ClosingRowAfter(s, new) = NoTracker
          /\ TrackerAfter(s, new) = NoTracker
          /\ ClosingAgeAfter(s, new) = NoTracker
    BY <1>3, <1>4, <1>6, <2>2 DEF ClosingRowAfter, TrackerAfter, ClosingAgeAfter
  <2> QED BY <1>6, <2>1, <2>3, <2>4 DEF NoTracker
<1> QED BY <1>5, <1>6

-----------------------------------------------------------------------------
(* The steps that install nothing                                          *)

\* Asking for the timeouts changes nothing the invariant speaks of.
LEMMA CheckKeeps ==
    ASSUME IndInv, CheckClosingTimeouts
    PROVE  IndInv'
BY DEF CheckClosingTimeouts, IndInv, TypeOK, RowsAreStored, RestartLosesNothing, RowsAgree

\* Trackers, rows and the real age of a closing grow older together.
LEMMA TickKeeps ==
    ASSUME IndInv, Tick
    PROVE  IndInv'
<1>1. /\ closing_trackers \in [Symbols -> Ages \union {NoTracker}]
      /\ closingRows \in [Symbols -> Ages \union {NoTracker}]
      /\ closingAge \in [Symbols -> Ages \union {NoTracker}]
  BY DEF IndInv, TypeOK
<1>2. /\ closing_trackers' = [s \in Symbols |-> Older(closing_trackers[s])]
      /\ closingRows' = [s \in Symbols |-> Older(closingRows[s])]
      /\ closingAge' = [s \in Symbols |-> Older(closingAge[s])]
      /\ UNCHANGED <<positions, positionRows, up, timedOut, faults>>
  BY DEF Tick
<1>3. TypeOK'
  BY <1>1, <1>2, OlderAge DEF IndInv, TypeOK
<1>4. RowsAreStored' /\ RestartLosesNothing'
  BY <1>2 DEF IndInv, RowsAreStored, RestartLosesNothing
<1>5. RowsAgree'
  BY <1>1, <1>2, OlderAge DEF IndInv, RowsAgree
<1> QED BY <1>3, <1>4, <1>5 DEF IndInv

\* A crash between two calls loses the memory only.
LEMMA CrashKeeps ==
    ASSUME IndInv, Crash
    PROVE  IndInv'
BY FlatPosition
DEF Crash, LoseMemory, AllFlat, NoTrackers, IndInv, TypeOK, RowsAreStored,
    RestartLosesNothing, RowsAgree

\* A restart loads what the tables hold, which the invariant knows.
LEMMA RestartKeeps ==
    ASSUME IndInv, Restart
    PROVE  IndInv'
<1>1. /\ up' /\ positions' = positionRows /\ closing_trackers' = closingRows
      /\ UNCHANGED <<positionRows, closingRows, timedOut, faults>>
      /\ closingAge' = [s \in Symbols |->
           IF positionRows[s].state /= "CLOSING" THEN NoTracker
           ELSE IF closingAge[s] = NoTracker THEN 0
           ELSE closingAge[s]]
  BY DEF Restart
<1>2. TypeOK'
  BY <1>1 DEF Restart, IndInv, TypeOK, Ages, MaxAge
<1>3. RowsAreStored'
  BY <1>1 DEF IndInv, RowsAreStored
<1>4. RestartLosesNothing'
  <2>1. \A s \in Symbols : Stored(positionRows[s]) = positionRows[s]
    BY DEF IndInv, RowsAreStored, TypeOK, Positions, Stored
  <2> QED BY <1>1, <2>1 DEF RestartLosesNothing
<1>5. RowsAgree'
  BY <1>1 DEF IndInv, RowsAgree, TypeOK, NoTracker
<1> QED BY <1>2, <1>3, <1>4, <1>5 DEF IndInv

-----------------------------------------------------------------------------
(* The invariant                                                           *)

\* A new machine with empty tables satisfies the invariant.
LEMMA InitEstablishes == Init => IndInv
BY FlatPosition
DEF Init, AllFlat, NoTrackers, IndInv, TypeOK, RowsAreStored, RestartLosesNothing,
    RowsAgree, Flat, Ages, MaxAge, NoTracker

\* Every step of the machine keeps the invariant.
LEMMA NextKeeps == IndInv /\ [Next]_vars => IndInv'
<1> SUFFICES ASSUME IndInv, [Next]_vars
             PROVE  IndInv'
  OBVIOUS
<1>1. ASSUME NEW s \in Symbols, Transition(s) \/ ForceCloseTimeout(s)
      PROVE  IndInv'
  <2>1. up /\ \E new \in Positions :
          WellFormed(new) /\ Legal(positions[s], new) /\ Install(s, new)
    BY <1>1, StepsAreMoves DEF IndInv
  <2>2. PICK new \in Positions :
          WellFormed(new) /\ Legal(positions[s], new) /\ Install(s, new)
    BY <2>1
  <2>3. TypeOK'
    BY <2>1, <2>2, InstallKeepsTypes DEF IndInv
  <2>4. RowsAreStored' /\ RestartLosesNothing'
    BY <2>1, <2>2, InstallKeepsRows
  <2>5. RowsAgree'
    BY <2>1, <2>2, InstallKeepsAges
  <2> QED BY <2>3, <2>4, <2>5 DEF IndInv
<1>2. CASE CheckClosingTimeouts \/ Tick \/ Crash \/ Restart
  BY <1>2, CheckKeeps, TickKeeps, CrashKeeps, RestartKeeps
<1>3. CASE UNCHANGED vars
  BY <1>3 DEF vars, IndInv, TypeOK, RowsAreStored, RestartLosesNothing, RowsAgree
<1> QED BY <1>1, <1>2, <1>3 DEF Next

\* The inductive invariant: types, stored rows, and trackers that agree with
\* the rows and with the time spent CLOSING.
THEOREM Invariant == Spec => []IndInv
<1>1. Init => IndInv
  BY InitEstablishes
<1>2. IndInv /\ [Next]_vars => IndInv'
  BY NextKeeps
<1> QED BY <1>1, <1>2, PTL DEF Spec

\* Every variable has its type and every record is one the lifecycle allows.
THEOREM TypeCorrect == Spec => []TypeOK
BY Invariant, PTL DEF IndInv

\* A restart loads what the machine held, wherever the process died, as long
\* as no save() of the positions table fails.
THEOREM DurablePositions == Spec => []RestartLosesNothing
BY Invariant, PTL DEF IndInv

\* What the invariant says of the trackers while the process is up.
LEMMA TrackersTell == IndInv => ClosingIsTracked
<1> SUFFICES ASSUME IndInv, faults = {}, Stores = {"positions", "closing"}, up,
                    NEW s \in Symbols
             PROVE  closing_trackers[s] =
                      IF positions[s].state = "CLOSING" THEN closingAge[s] ELSE NoTracker
  BY DEF ClosingIsTracked
<1>1. positionRows[s].state = positions[s].state
  BY StoredPosition DEF IndInv, RestartLosesNothing, TypeOK
<1> QED BY <1>1 DEF IndInv, RowsAgree

\* With both stores and no torn write, trackers are kept exactly for CLOSING
\* positions and date from the start of CLOSING, across restarts (X6-A, P4).
THEOREM ClosingTracked == Spec => []ClosingIsTracked
<1>1. IndInv => ClosingIsTracked
  BY TrackersTell
<1> QED BY <1>1, Invariant, PTL

\* check_closing_timeouts reports all the late positions and only those.
THEOREM TimeoutsReported == Spec => ReportsExactlyTheLate
<1> DEFINE Exact ==
      (CheckClosingTimeouts /\ faults = {} /\ Stores = {"positions", "closing"})
      => timedOut' = {s \in Symbols :
                        positions[s].state = "CLOSING" /\ closingAge[s] > ClosingTimeout}
<1>1. IndInv /\ [Next]_vars => [Exact]_vars
  <2> SUFFICES ASSUME IndInv, CheckClosingTimeouts, faults = {},
                      Stores = {"positions", "closing"}
               PROVE  timedOut' = {s \in Symbols : positions[s].state = "CLOSING"
                                                   /\ closingAge[s] > ClosingTimeout}
    OBVIOUS
  <2>1. timedOut' = {s \in Symbols : closing_trackers[s] > ClosingTimeout}
    BY DEF CheckClosingTimeouts
  <2>2. ASSUME NEW s \in Symbols
        PROVE  closing_trackers[s] > ClosingTimeout
                 <=> positions[s].state = "CLOSING" /\ closingAge[s] > ClosingTimeout
    <3>1. closing_trackers[s] =
            IF positions[s].state = "CLOSING" THEN closingAge[s] ELSE NoTracker
      BY TrackersTell DEF ClosingIsTracked, CheckClosingTimeouts
    <3> QED BY <3>1 DEF NoTracker
  <2> QED BY <2>1, <2>2
<1> QED BY <1>1, Invariant, PTL DEF Spec, ReportsExactlyTheLate

-----------------------------------------------------------------------------
(* The contract                                                            *)

\* All positions FLAT is no exposure anywhere.
LEMMA InitIsContractInit == Init => Contract!Init
BY DEF Init, Contract!Init, Contract!NoExposure, VisibleExposure, ExposureOf, Visible,
       PhaseOf, AllFlat, Flat

\* A legal move of a position is a step of its exposure, or none at all.
LEMMA MovesAreContractSteps ==
    ASSUME NEW s \in Symbols, NEW old \in Positions, NEW new \in Positions,
           WellFormed(old), WellFormed(new), Legal(old, new),
           VisibleExposure[s] = ExposureOf(old),
           VisibleExposure' = [VisibleExposure EXCEPT ![s] = ExposureOf(new)]
    PROVE  Contract!Next \/ UNCHANGED VisibleExposure
<1>0. /\ VisibleExposure' =
           [VisibleExposure EXCEPT ![s] = [phase |-> PhaseOf(new.state),
              direction |-> new.direction, quantity |-> new.quantity]]
      /\ VisibleExposure[s].phase = PhaseOf(old.state)
      /\ VisibleExposure[s].direction = old.direction
      /\ VisibleExposure[s].quantity = old.quantity
      /\ new.quantity \in Quantities
  BY DEF Positions, ExposureOf
<1> USE DEF ExposureOf, PhaseOf
<1>1. CASE old.state = "FLAT" /\ new.state = "ENTERING"
  <2>1. /\ new.direction \in Directions /\ new.quantity = 0
        /\ old.direction = "NONE" /\ old.quantity = 0
    BY <1>1 DEF Legal, WellFormed, Constructible, Flat
  <2>2. VisibleExposure[s] = Contract!NoExposure
    BY <1>1, <2>1 DEF Contract!NoExposure
  <2>3. Contract!Becomes(s, "pending", new.direction, 0)
    BY <1>0, <1>1, <2>1 DEF Contract!Becomes
  <2>4. Contract!Take(s)
    BY <2>1, <2>2, <2>3 DEF Contract!Take, Contract!Directions, Directions
  <2> QED BY <2>4 DEF Contract!Next
<1>2. CASE old.state = "ENTERING" /\ new.state = "OPEN"
  <2>1. new.direction = old.direction /\ new.quantity /= 0
    BY <1>2 DEF Legal, Flat
  <2>2. Contract!Becomes(s, "held", VisibleExposure[s].direction, new.quantity)
    BY <1>0, <1>2, <2>1 DEF Contract!Becomes
  <2>3. Contract!Acquire(s)
    BY <1>0, <1>2, <2>1, <2>2 DEF Contract!Acquire
  <2> QED BY <2>3 DEF Contract!Next
<1>3. CASE old.state \in {"ENTERING", "CLOSING"} /\ new = Flat
  <2>1. VisibleExposure[s].phase \in {"pending", "leaving"}
    BY <1>0, <1>3
  <2>2. ExposureOf(new) = Contract!NoExposure
    BY <1>3 DEF Contract!NoExposure, Flat
  <2>3. Contract!Release(s)
    BY <2>1, <2>2 DEF Contract!Release
  <2> QED BY <2>3 DEF Contract!Next
<1>4. CASE old.state = "OPEN" /\ new.state = "REDUCING"
  <2>1. ExposureOf(new) = ExposureOf(old)
    BY <1>4 DEF Legal, Flat
  <2>2. VisibleExposure' = [t \in Symbols |-> VisibleExposure[t]]
    BY <2>1 DEF VisibleExposure
  <2> QED BY <2>2 DEF VisibleExposure
<1>5. CASE old.state = "REDUCING" /\ new.state = "OPEN"
  <2>1. /\ new.direction = old.direction
        /\ Abs(new.quantity) < Abs(old.quantity)
        /\ (new.quantity > 0) <=> (old.quantity > 0)
    BY <1>5 DEF Legal, Flat
  <2>2. Contract!Becomes(s, "held", VisibleExposure[s].direction, new.quantity)
    BY <1>0, <1>5, <2>1 DEF Contract!Becomes
  <2>3. Contract!RemainsOf(VisibleExposure[s].quantity, new.quantity)
    BY <1>0, <2>1 DEF Contract!RemainsOf, Contract!Magnitude, Abs
  <2>4. Contract!Shrink(s)
    BY <1>0, <1>5, <2>2, <2>3 DEF Contract!Shrink
  <2> QED BY <2>4 DEF Contract!Next
<1>6. CASE old.state \in {"ENTERING", "OPEN", "REDUCING"} /\ new.state = "CLOSING"
  <2>1. new.direction = old.direction /\ new.quantity \in {old.quantity, 0}
    BY <1>6 DEF Legal, Flat
  <2>2. Contract!Becomes(s, "leaving", VisibleExposure[s].direction, new.quantity)
    BY <1>0, <1>6, <2>1 DEF Contract!Becomes
  <2>3. Contract!Leave(s)
    BY <1>0, <1>6, <2>1, <2>2 DEF Contract!Leave
  <2> QED BY <2>3 DEF Contract!Next
<1> QED
  BY <1>1, <1>2, <1>3, <1>4, <1>5, <1>6 DEF Legal

\* What can be seen of an installed record: all of it if the call completes,
\* nothing if the process dies before the row is written.
LEMMA InstallIsContractStep ==
    ASSUME IndInv, up, NEW s \in Symbols, NEW new \in Positions, WellFormed(new),
           Legal(positions[s], new), Install(s, new)
    PROVE  Contract!Next \/ UNCHANGED VisibleExposure
<1>1. CASE "positions" \notin Stores \/ "positionWrite" \in faults
  <2>1. faults' = faults
    BY DEF Install, Complete, DieInTail
  <2> QED BY <1>1, <2>1 DEF VisibleExposure, Visible
<1>2. CASE "positions" \in Stores /\ "positionWrite" \notin faults
  <2>1. \A t \in Symbols : ExposureOf(positionRows[t]) = ExposureOf(positions[t])
    BY <1>2, StoredPosition DEF IndInv, TypeOK, RestartLosesNothing, ExposureOf
  <2>2. \A t \in Symbols : VisibleExposure[t] = ExposureOf(positions[t])
    BY <1>2 DEF VisibleExposure, Visible
  <2>3. CASE Complete(s, new)
    <3>1. up' /\ faults' = faults /\ positions' = [positions EXCEPT ![s] = new]
      BY <2>3 DEF Complete
    <3>2. VisibleExposure' = [VisibleExposure EXCEPT ![s] = ExposureOf(new)]
      BY <1>2, <3>1 DEF VisibleExposure, Visible, IndInv, TypeOK
    <3> QED
      BY <2>2, <3>2, MovesAreContractSteps DEF IndInv, TypeOK
  <2>4. CASE DieInTail(s, new)
    <3>1. ~up' /\ faults' = faults /\ positionRows' = positionRows
      BY <2>4 DEF DieInTail, LoseMemory
    <3> QED BY <1>2, <2>1, <3>1 DEF VisibleExposure, Visible
  <2> QED BY <2>3, <2>4 DEF Install
<1> QED BY <1>1, <1>2

\* Crashes and restarts cannot be seen, nor can time or the timeout check.
LEMMA OthersAreInvisible ==
    ASSUME IndInv, CheckClosingTimeouts \/ Tick \/ Crash \/ Restart \/ UNCHANGED vars
    PROVE  UNCHANGED VisibleExposure
<1>1. CASE CheckClosingTimeouts \/ Tick \/ UNCHANGED vars
  BY <1>1 DEF CheckClosingTimeouts, Tick, vars, VisibleExposure, Visible
<1>2. CASE Crash
  <2>1. up /\ ~up' /\ faults' = faults /\ positionRows' = positionRows
    BY <1>2 DEF Crash, LoseMemory
  <2>2. "positions" \in Stores /\ "positionWrite" \notin faults
          => \A t \in Symbols : ExposureOf(positionRows[t]) = ExposureOf(positions[t])
    BY <2>1, StoredPosition DEF IndInv, TypeOK, RestartLosesNothing, ExposureOf
  <2> QED BY <2>1, <2>2 DEF VisibleExposure, Visible
<1>3. CASE Restart
  BY <1>3 DEF Restart, VisibleExposure, Visible
<1> QED BY <1>1, <1>2, <1>3

\* The machine with its tables, failures and crashes implements the contract.
THEOREM ImplementsContract == Spec => LifecycleContract
<1>1. Init => Contract!Init
  BY InitIsContractInit
<1>2. IndInv /\ [Next]_vars => [Contract!Next]_VisibleExposure
  <2> SUFFICES ASSUME IndInv, [Next]_vars
               PROVE  Contract!Next \/ UNCHANGED VisibleExposure
    OBVIOUS
  <2>1. ASSUME NEW s \in Symbols, Transition(s) \/ ForceCloseTimeout(s)
        PROVE  Contract!Next \/ UNCHANGED VisibleExposure
    <3>1. up /\ \E new \in Positions :
            WellFormed(new) /\ Legal(positions[s], new) /\ Install(s, new)
      BY <2>1, StepsAreMoves DEF IndInv
    <3> QED BY <3>1, InstallIsContractStep
  <2> QED BY <2>1, OthersAreInvisible DEF Next
<1> QED BY <1>1, <1>2, Invariant, PTL DEF Spec, LifecycleContract, Contract!Spec
=============================================================================
