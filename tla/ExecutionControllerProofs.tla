---------------------- MODULE ExecutionControllerProofs ----------------------
(***************************************************************************)
(* What arbitration guarantees for every set of mandates, and what the     *)
(* controller makes of its decisions.  The controller is a client of the   *)
(* position machine: each of its steps is a step of PositionMachine or     *)
(* leaves it alone, so the theorems of PositionMachineProofs hold of the   *)
(* machine inside it; the types are taken from there.  Two invariants are  *)
(* proved of the cycle: CycleInv, for what it settles, and LeverageInv,    *)
(* for the exposure its entries may add.                                   *)
(***************************************************************************)
EXTENDS ExecutionController, FiniteSums, TLAPS

-----------------------------------------------------------------------------
(* Arbitration                                                             *)

\* The hierarchy yields nothing, or the strongest mandate of one of three types.
LEMMA HierarchyShape ==
    ASSUME NEW mandates, NEW a \in Hierarchy(mandates)
    PROVE  \/ a = NoAction
           \/ \E type \in {"REDUCE", "ENTRY", "HOLD"} : a \in Chosen(mandates, type)
BY DEF Hierarchy

\* EXIT supremacy (Theorem 2.2): with an EXIT among the mandates of a symbol,
\* of whatever authority, the action is EXIT.
THEOREM ExitSupremacy ==
    ASSUME NEW mandates, NEW m \in mandates, m.type = "EXIT"
    PROVE  Arbitrate(mandates) = {BareAction("EXIT")}
BY DEF Arbitrate, OfType

\* BLOCK prevents ENTRY (Theorem 2.3): no action that may come out is an ENTRY.
THEOREM BlockPreventsEntry ==
    ASSUME NEW mandates, NEW m \in mandates, m.type = "BLOCK",
           NEW a \in Arbitrate(mandates)
    PROVE  a.type /= "ENTRY"
<1>1. CASE OfType(mandates, "EXIT") /= {}
  BY <1>1 DEF Arbitrate, BareAction
<1>2. CASE OfType(mandates, "EXIT") = {}
  <2>1. a \in Hierarchy(mandates \ OfType(mandates, "ENTRY"))
    BY <1>2 DEF Arbitrate, Eligible, OfType
  <2>2. Chosen(mandates \ OfType(mandates, "ENTRY"), "ENTRY") = {}
    BY DEF Chosen, Strongest, OfType
  <2>3. a = NoAction \/ \E type \in {"REDUCE", "HOLD"} :
                          a \in Chosen(mandates \ OfType(mandates, "ENTRY"), type)
    BY <2>1, <2>2, HierarchyShape
  <2> QED BY <2>3 DEF NoAction, BareAction, Chosen, Action
<1> QED BY <1>1, <1>2

\* Authorities tell mandates of one type apart.
NoTies(mandates) ==
    \A m, n \in mandates : m.type = n.type /\ m.authority = n.authority => m = n

\* Without ties there is at most one strongest mandate of a type.
LEMMA StrongestIsUnique ==
    ASSUME NEW mandates, NoTies(mandates), \A m \in mandates : m.authority \in Nat,
           NEW type, NEW m \in Strongest(mandates, type), NEW n \in Strongest(mandates, type)
    PROVE  m = n
<1>1. m \in mandates /\ n \in mandates /\ m.type = type /\ n.type = type
  BY DEF Strongest, OfType
<1>2. n.authority <= m.authority /\ m.authority <= n.authority
  BY DEF Strongest
<1>3. m.authority \in Nat /\ n.authority \in Nat
  BY <1>1
<1>4. m.authority = n.authority
  BY <1>2, <1>3
<1> QED BY <1>1, <1>4 DEF NoTies

\* Determinism (Theorem 3.1) holds exactly as far as authorities differ: with
\* no ties within a type, the mandates determine the action.
THEOREM DeterministicWithoutTies ==
    ASSUME NEW mandates, NoTies(mandates), \A m \in mandates : m.authority \in Nat,
           NEW a \in Arbitrate(mandates), NEW b \in Arbitrate(mandates)
    PROVE  a = b
<1>1. CASE OfType(mandates, "EXIT") /= {}
  BY <1>1 DEF Arbitrate
<1>2. CASE OfType(mandates, "EXIT") = {}
  <2> DEFINE E == Eligible(mandates)
  <2>1. a \in Hierarchy(E) /\ b \in Hierarchy(E)
    BY <1>2 DEF Arbitrate
  <2>2. E \subseteq mandates
    BY DEF Eligible
  <2>3. NoTies(E) /\ \A m \in E : m.authority \in Nat
    BY <2>2 DEF NoTies
  <2>4. ASSUME NEW type, NEW c \in Chosen(E, type), NEW d \in Chosen(E, type)
        PROVE  c = d
    <3>1. PICK m \in Strongest(E, type) : c = Action(type, m)
      BY <2>4 DEF Chosen
    <3>2. PICK n \in Strongest(E, type) : d = Action(type, n)
      BY <2>4 DEF Chosen
    <3> HIDE DEF E
    <3>3. m = n
      BY <2>3, StrongestIsUnique
    <3> QED BY <3>1, <3>2, <3>3
  <2> HIDE DEF E
  <2> QED BY <2>1, <2>4 DEF Hierarchy
<1> QED BY <1>1, <1>2

-----------------------------------------------------------------------------
(* The controller and the machine                                          *)

\* Executing an action is a transition of the machine, or leaves it alone.
LEMMA ExecuteDrives ==
    ASSUME NEW s \in Symbols, Execute(s)
    PROVE  Machine!Next \/ UNCHANGED machineVars
<1>1. CASE Skip(s) \/ Abort(s) \/ ConfirmReduce(s)
  BY <1>1 DEF Skip, Abort, ConfirmReduce
<1>2. CASE BeginEntry(s) \/ ConfirmEntry(s) \/ BeginExit(s) \/ ConfirmExit(s) \/ BeginReduce(s)
  <2>1. Machine!Transition(s)
    BY <1>2 DEF BeginEntry, ConfirmEntry, BeginExit, ConfirmExit, BeginReduce,
                Machine!Transition
  <2> QED BY <2>1 DEF Machine!Next
<1> QED BY <1>1, <1>2 DEF Execute

\* A behaviour of the controller is one of the machine.
LEMMA DrivesTheMachine == Spec => Machine!Spec
<1>1. Init => Machine!Init
  BY DEF Init
<1>2. [Next]_vars => [Machine!Next]_(Machine!vars)
  <2> SUFFICES ASSUME [Next]_vars
               PROVE  Machine!Next \/ UNCHANGED machineVars
    BY DEF machineVars, Machine!vars
  <2>1. CASE Observe
    BY <2>1 DEF Observe
  <2>2. ASSUME NEW mandates, RaiseCycle(mandates) \/
                 \E alarm \in [Watched -> Alarms] : StartCycle(mandates, alarm)
        PROVE  UNCHANGED machineVars
    BY <2>2 DEF RaiseCycle, StartCycle
  <2>3. ASSUME NEW s \in Symbols, Execute(s)
        PROVE  Machine!Next \/ UNCHANGED machineVars
    BY <2>3, ExecuteDrives
  <2>4. CASE Crash \/ Restart
    BY <2>4 DEF Crash, Restart, Machine!Next
  <2>5. CASE UNCHANGED vars
    BY <2>5 DEF vars
  <2> QED BY <2>1, <2>2, <2>3, <2>4, <2>5 DEF Next
<1> QED BY <1>1, <1>2, PTL DEF Spec, Machine!Spec

-----------------------------------------------------------------------------
(* The cycle.  One invariant ties the action in hand, the actions still to *)
(* be executed and the demands of the mandates to the state of the         *)
(* machine, in memory and in the positions table.                          *)

Half == {"ENTERING", "CLOSING"}
InHand == { <<"ENTRY", "ENTERING">>, <<"EXIT", "CLOSING">>, <<"REDUCE", "REDUCING">> }

Shape ==
    /\ positions \in [Symbols -> Machine!Positions]
    /\ positionRows \in [Symbols -> Machine!Positions]
    /\ DOMAIN todo = Symbols
    /\ todo = [s \in Symbols |-> todo[s]]
    /\ doing \in Symbols \union {Nobody}
    /\ faults = {}
    /\ up \in BOOLEAN

\* The table is what the machine holds, or was never written.
RowsFollow ==
    \A s \in Symbols :
        /\ "positions" \notin Stores => positionRows[s].state = "FLAT"
        /\ "positions" \in Stores /\ up => positionRows[s].state = positions[s].state

\* The action in hand is half done; a process that is down has none.
WorkingOn ==
    /\ doing /= Nobody => <<todo[doing].type, positions[doing].state>> \in InHand
    /\ ~up => doing = Nobody /\ todo = Nothing /\ asked = NoDemands

\* What is half done is in hand, or was when the process died.
HalfDone ==
    \A s \in Symbols \ interrupted :
        /\ up /\ positions[s].state \in Half => doing = s
        /\ ~up => positionRows[s].state \notin Half

\* A blocked symbol stays FLAT with no entry to come.
Blocked ==
    \A s \in asked.blocked :
        s \in Symbols /\ positions[s].state = "FLAT" /\ todo[s].type /= "ENTRY"

\* An exit is done, or to come, or in hand, or lost to a missing mark price.
Exiting(s) ==
    \/ positions[s].state = "FLAT" /\ todo[s].type /= "ENTRY"
    \/ positions[s].state = "OPEN" /\ todo[s].type = "EXIT"
    \/ positions[s].state = "CLOSING" /\ doing = s /\ todo[s].type = "EXIT"
    \/ Idle /\ ~MarksComplete

Exits == \A s \in asked.exits : s \in Symbols /\ Exiting(s)

CycleInv == Shape /\ RowsFollow /\ WorkingOn /\ HalfDone /\ Blocked /\ Exits

\* What a transition of the controller does to the machine: one symbol moves,
\* in memory and, where there is one, in the table.
Moves(s, from, to) ==
    /\ up /\ up' /\ faults' = faults
    /\ positions[s].state = from /\ positions'[s].state = to
    /\ positions' \in [Symbols -> Machine!Positions]
    /\ positionRows' \in [Symbols -> Machine!Positions]
    /\ positionRows'[s].state = IF "positions" \in Stores THEN to ELSE positionRows[s].state
    /\ \A t \in Symbols \ {s} :
         positions'[t] = positions[t] /\ positionRows'[t] = positionRows[t]

\* Without faults, installing a record of the right type is such a move.
LEMMA InstallMoves ==
    ASSUME Shape, up, NEW s \in Symbols, NEW new \in Machine!Positions,
           Machine!Install(s, new)
    PROVE  Moves(s, positions[s].state, new.state)
<1>1. Machine!Complete(s, new)
  BY DEF Shape, Machine!Install, Machine!DieInTail
<1>2. /\ positions' = [positions EXCEPT ![s] = new]
      /\ positionRows' = [positionRows EXCEPT ![s] = Machine!PositionRowAfter(s, new)]
      /\ up' /\ faults' = faults
  BY <1>1 DEF Machine!Complete, Machine!WritePositionRow, Shape
<1>3. Machine!Stored(new) \in Machine!Positions /\ Machine!Stored(new).state = new.state
  BY DEF Machine!Stored, Machine!Positions, Machine!Prices
<1>4. Machine!PositionRowAfter(s, new) \in Machine!Positions
  BY <1>3 DEF Machine!PositionRowAfter, Shape
<1> QED BY <1>2, <1>3, <1>4 DEF Moves, Shape, Machine!PositionRowAfter

\* The five handlers that the controller calls.
LEMMA HandlersMove ==
    ASSUME Shape, NEW s \in Symbols
    PROVE  /\ Machine!HandleEntry(s) => Moves(s, "FLAT", "ENTERING")
           /\ Machine!HandleEntrySuccess(s) => Moves(s, "ENTERING", "OPEN")
           /\ Machine!HandleExit(s) => Moves(s, "OPEN", "CLOSING")
           /\ Machine!HandleExitSuccess(s) => Moves(s, "CLOSING", "FLAT")
           /\ Machine!HandleReduce(s) => Moves(s, "OPEN", "REDUCING")
<1>1. positions[s] \in Machine!Positions
  BY DEF Shape
<1>2. Machine!Flat \in Machine!Positions /\ Machine!Flat.state = "FLAT"
  BY MachineAssumption
  DEF Machine!Flat, Machine!Positions, Machine!States, Machine!Prices
<1>3. ASSUME Machine!HandleEntry(s)
      PROVE  Moves(s, "FLAT", "ENTERING")
  <2>1. PICK d \in Machine!Directions :
             Machine!Install(s, [Machine!Flat EXCEPT !.state = "ENTERING", !.direction = d])
    BY <1>3 DEF Machine!HandleEntry
  <2>2. up /\ positions[s].state = "FLAT"
    BY <1>3 DEF Machine!HandleEntry, Machine!Allows, Machine!ALLOWED_TRANSITIONS
  <2> DEFINE new == [Machine!Flat EXCEPT !.state = "ENTERING", !.direction = d]
  <2>3. new \in Machine!Positions /\ new.state = "ENTERING"
    BY MachineAssumption
    DEF Machine!Flat, Machine!Positions, Machine!States, Machine!Prices
  <2> HIDE DEF new
  <2> QED BY <2>1, <2>2, <2>3, InstallMoves DEF new
<1>4. ASSUME Machine!HandleEntrySuccess(s)
      PROVE  Moves(s, "ENTERING", "OPEN")
  <2>1. PICK q \in Quantities, p \in Machine!Prices \ {"none"} :
             Machine!Install(s, [positions[s] EXCEPT !.state = "OPEN", !.quantity = q,
                                                     !.entry_price = p])
    BY <1>4 DEF Machine!HandleEntrySuccess
  <2>2. up /\ positions[s].state = "ENTERING"
    BY <1>4 DEF Machine!HandleEntrySuccess, Machine!Allows, Machine!ALLOWED_TRANSITIONS
  <2> DEFINE new == [positions[s] EXCEPT !.state = "OPEN", !.quantity = q,
                                         !.entry_price = p]
  <2>3. new \in Machine!Positions /\ new.state = "OPEN"
    BY <1>1 DEF Machine!Positions, Machine!States, Machine!Prices
  <2> HIDE DEF new
  <2> QED BY <2>1, <2>2, <2>3, InstallMoves DEF new
<1>5. ASSUME Machine!HandleExit(s)
      PROVE  Moves(s, "OPEN", "CLOSING")
  <2>1. /\ up /\ positions[s].state = "OPEN"
        /\ Machine!Install(s, [positions[s] EXCEPT !.state = "CLOSING"])
    BY <1>5 DEF Machine!HandleExit, Machine!Allows, Machine!ALLOWED_TRANSITIONS
  <2>2. /\ [positions[s] EXCEPT !.state = "CLOSING"] \in Machine!Positions
        /\ [positions[s] EXCEPT !.state = "CLOSING"].state = "CLOSING"
    BY <1>1 DEF Machine!Positions, Machine!States
  <2> QED BY <2>1, <2>2, InstallMoves
<1>6. ASSUME Machine!HandleExitSuccess(s)
      PROVE  Moves(s, "CLOSING", "FLAT")
  <2>1. up /\ positions[s].state = "CLOSING" /\ Machine!Install(s, Machine!Flat)
    BY <1>6 DEF Machine!HandleExitSuccess, Machine!Allows, Machine!ALLOWED_TRANSITIONS
  <2> QED BY <2>1, <1>2, InstallMoves
<1>7. ASSUME Machine!HandleReduce(s)
      PROVE  Moves(s, "OPEN", "REDUCING")
  <2>1. /\ up /\ positions[s].state = "OPEN"
        /\ Machine!Install(s, [positions[s] EXCEPT !.state = "REDUCING"])
    BY <1>7 DEF Machine!HandleReduce, Machine!Allows, Machine!ALLOWED_TRANSITIONS
  <2>2. /\ [positions[s] EXCEPT !.state = "REDUCING"] \in Machine!Positions
        /\ [positions[s] EXCEPT !.state = "REDUCING"].state = "REDUCING"
    BY <1>1 DEF Machine!Positions, Machine!States
  <2> QED BY <2>1, <2>2, InstallMoves
<1> QED BY <1>3, <1>4, <1>5, <1>6, <1>7

\* The first transition of an action.
LEMMA BeginKeeps ==
    ASSUME CycleInv, NEW s \in Symbols, NEW type, NEW to, <<type, to>> \in InHand,
           doing = Nobody, todo[s].type = type,
           Moves(s, IF type = "ENTRY" THEN "FLAT" ELSE "OPEN", to),
           doing' = s, todo' = todo, asked' = asked, interrupted' = interrupted
    PROVE  CycleInv'
<1>1. Shape'
  BY DEF CycleInv, Shape, Moves
<1>2. RowsFollow'
  BY DEF CycleInv, RowsFollow, Moves
<1>3. WorkingOn'
  BY DEF CycleInv, WorkingOn, Moves
<1>4. HalfDone'
  BY NobodyAssumption DEF CycleInv, HalfDone, Moves
<1>5. Blocked'
  BY DEF CycleInv, Blocked, Moves
<1>6. ASSUME NEW t \in asked.exits
      PROVE  t \in Symbols /\ Exiting(t)'
  <2>1. t \in Symbols /\ Exiting(t)
    BY <1>6 DEF CycleInv, Exits
  <2>2. ~Idle
    BY DEF Idle, Nothing, NoAction, BareAction, InHand
  <2>3. CASE t = s
    BY <2>1, <2>2, <2>3, NobodyAssumption DEF Exiting, Moves, InHand
  <2>4. CASE t /= s
    BY <2>1, <2>2, <2>4, NobodyAssumption DEF Exiting, Moves
  <2> QED BY <2>3, <2>4
<1> QED BY <1>1, <1>2, <1>3, <1>4, <1>5, <1>6 DEF CycleInv, Exits

\* The second transition of an action, after which it is done.
LEMMA ConfirmKeeps ==
    ASSUME CycleInv, NEW s \in Symbols, NEW from, NEW to,
           <<todo[s].type, from, to>> \in { <<"ENTRY", "ENTERING", "OPEN">>,
                                          <<"EXIT", "CLOSING", "FLAT">> },
           doing = s, Moves(s, from, to), doing' = Nobody, Drop(s),
           asked' = asked, interrupted' = interrupted
    PROVE  CycleInv'
<1> USE DEF Drop
<1>1. Shape'
  BY DEF CycleInv, Shape, Moves
<1>2. RowsFollow'
  BY DEF CycleInv, RowsFollow, Moves
<1>3. WorkingOn'
  BY DEF WorkingOn, Moves
<1>4. HalfDone'
  BY DEF CycleInv, HalfDone, Moves, Half
<1>5. \A t \in Symbols : todo'[t] = IF t = s THEN NoAction ELSE todo[t]
  BY DEF CycleInv, Shape
<1>6. Blocked'
  BY <1>5 DEF CycleInv, Blocked, Moves
<1>7. ASSUME NEW t \in asked.exits
      PROVE  t \in Symbols /\ Exiting(t)'
  <2>1. t \in Symbols /\ Exiting(t)
    BY <1>7 DEF CycleInv, Exits
  <2>2. ~Idle
    BY NobodyAssumption DEF Idle
  <2>3. CASE t = s
    BY <1>5, <2>1, <2>2, <2>3 DEF Exiting, Moves, NoAction, BareAction
  <2>4. CASE t /= s
    BY <1>5, <2>1, <2>2, <2>4 DEF Exiting, Moves
  <2> QED BY <2>3, <2>4
<1> QED BY <1>1, <1>2, <1>3, <1>4, <1>6, <1>7 DEF CycleInv, Exits

\* An action that ends without a transition: refused, or a REDUCE that fails.
LEMMA DropKeeps ==
    ASSUME CycleInv, NEW s \in Symbols, up, todo[s] /= NoAction,
           todo[s].type = "EXIT" => positions[s].state /= "OPEN" /\ doing /= s,
           doing \in {Nobody, s}, positions[s].state \notin Half \/ doing = Nobody,
           doing' = Nobody, UNCHANGED machineVars, Drop(s),
           UNCHANGED <<account, marks, asked, interrupted>>
    PROVE  CycleInv'
<1> USE DEF Drop, machineVars
<1>1. Shape'
  BY DEF CycleInv, Shape
<1>2. RowsFollow'
  BY DEF CycleInv, RowsFollow
<1>3. WorkingOn'
  BY DEF CycleInv, WorkingOn
<1>4. HalfDone'
  BY NobodyAssumption DEF CycleInv, HalfDone
<1>5. \A t \in Symbols : todo'[t] = IF t = s THEN NoAction ELSE todo[t]
  BY DEF CycleInv, Shape
<1>6. Blocked'
  BY <1>5 DEF CycleInv, Blocked, NoAction, BareAction
<1>7. ASSUME NEW t \in asked.exits
      PROVE  t \in Symbols /\ Exiting(t)'
  <2>1. t \in Symbols /\ Exiting(t)
    BY <1>7 DEF CycleInv, Exits
  <2>2. ~Idle
    BY DEF Idle, Nothing
  <2>3. CASE t = s
    BY <1>5, <2>1, <2>2, <2>3 DEF Exiting, NoAction, BareAction
  <2>4. CASE t /= s
    BY <1>5, <2>1, <2>2, <2>4, NobodyAssumption DEF Exiting
  <2> QED BY <2>3, <2>4
<1> QED BY <1>1, <1>2, <1>3, <1>4, <1>6, <1>7 DEF CycleInv, Exits

\* Executing an action keeps the invariant.
LEMMA ExecuteKeeps ==
    ASSUME CycleInv, NEW s \in Symbols, Execute(s)
    PROVE  CycleInv'
<1> USE DEF CycleUnchanged
<1>1. Shape
  BY DEF CycleInv
<1>2. CASE Skip(s)
  <2>1. todo[s].type = "EXIT" => positions[s].state /= "OPEN"
    BY <1>2 DEF Skip, ValidAction
  <2> QED BY <1>2, <2>1, NobodyAssumption, DropKeeps DEF Skip
<1>3. CASE Abort(s)
  <2> USE DEF machineVars
  <2>1. MarksComplete' = MarksComplete
    BY <1>3 DEF Abort, MarksComplete, Live
  <2>2. Idle' /\ ~MarksComplete'
    BY <1>3, <2>1 DEF Abort, Idle
  <2>3. Shape' /\ RowsFollow'
    BY <1>3 DEF CycleInv, Shape, RowsFollow, Abort, Nothing
  <2>4. WorkingOn' /\ HalfDone'
    BY <1>3 DEF CycleInv, WorkingOn, HalfDone, Abort
  <2>5. Blocked'
    BY <1>3 DEF CycleInv, Blocked, Abort, Nothing, NoAction, BareAction
  <2>6. Exits'
    BY <1>3, <2>2 DEF CycleInv, Exits, Exiting, Abort
  <2> QED BY <2>3, <2>4, <2>5, <2>6 DEF CycleInv
<1>4. CASE BeginEntry(s)
  <2>1. Moves(s, "FLAT", "ENTERING")
    BY <1>1, <1>4, HandlersMove DEF BeginEntry
  <2> QED BY <1>4, <2>1, BeginKeeps DEF BeginEntry, Accepts, InHand
<1>5. CASE ConfirmEntry(s)
  <2>1. Moves(s, "ENTERING", "OPEN")
    BY <1>1, <1>5, HandlersMove DEF ConfirmEntry
  <2> QED BY <1>5, <2>1, ConfirmKeeps DEF ConfirmEntry
<1>6. CASE BeginExit(s)
  <2>1. Moves(s, "OPEN", "CLOSING")
    BY <1>1, <1>6, HandlersMove DEF BeginExit
  <2> QED BY <1>6, <2>1, BeginKeeps DEF BeginExit, Accepts, InHand
<1>7. CASE ConfirmExit(s)
  <2>1. Moves(s, "CLOSING", "FLAT")
    BY <1>1, <1>7, HandlersMove DEF ConfirmExit
  <2> QED BY <1>7, <2>1, ConfirmKeeps DEF ConfirmExit
<1>8. CASE BeginReduce(s)
  <2>1. Moves(s, "OPEN", "REDUCING")
    BY <1>1, <1>8, HandlersMove DEF BeginReduce
  <2> QED BY <1>8, <2>1, BeginKeeps DEF BeginReduce, Accepts, InHand
<1>9. CASE ConfirmReduce(s)
  <2>1. positions[s].state = "REDUCING"
    BY <1>9, NobodyAssumption DEF CycleInv, WorkingOn, ConfirmReduce, InHand
  <2> QED BY <1>9, <2>1, DropKeeps DEF ConfirmReduce, Half, NoAction, BareAction
<1> QED BY <1>2, <1>3, <1>4, <1>5, <1>6, <1>7, <1>8, <1>9 DEF Execute

\* A cycle starts with the demands of its mandates, and with actions that
\* arbitration has made to honour them.
LEMMA StartKeeps ==
    ASSUME CycleInv, NEW mandates, NEW alarm, StartCycle(mandates, alarm)
    PROVE  CycleInv'
<1> DEFINE all == mandates \union RiskMandates(alarm)
           of(s) == {m \in all : m.symbol = s}
<1>1. /\ todo' = [s \in Symbols |-> todo'[s]] /\ DOMAIN todo' = Symbols
      /\ \A s \in Symbols : todo'[s] \in Arbitrate(of(s))
  BY DEF StartCycle, ArbitrateAll
<1>2. asked' = Demands(all)
  BY DEF StartCycle
<1>3. up /\ doing = Nobody /\ UNCHANGED <<machineVars, doing, interrupted>>
  BY DEF StartCycle, Idle
<1> HIDE DEF all
<1> USE DEF machineVars
<1>4. Shape' /\ RowsFollow' /\ WorkingOn' /\ HalfDone'
  BY <1>1, <1>3 DEF CycleInv, Shape, RowsFollow, WorkingOn, HalfDone
<1>5. ASSUME NEW s \in asked'.blocked
      PROVE  s \in Symbols /\ positions'[s].state = "FLAT" /\ todo'[s].type /= "ENTRY"
  <2>1. PICK m \in all : s \in Symbols /\ positions[s].state = "FLAT"
                          /\ m.type = "BLOCK" /\ m.symbol = s
    BY <1>2, <1>5 DEF Demands, OfType
  <2>2. m \in of(s)
    BY <2>1
  <2> HIDE DEF of
  <2> QED BY <1>1, <1>3, <2>1, <2>2, BlockPreventsEntry
<1>6. ASSUME NEW s \in asked'.exits
      PROVE  s \in Symbols /\ Exiting(s)'
  <2>1. PICK m \in all : s \in Symbols /\ positions[s].state = "OPEN"
                          /\ m.type = "EXIT" /\ m.symbol = s
    BY <1>2, <1>6 DEF Demands, OfType
  <2>2. m \in of(s)
    BY <2>1
  <2> HIDE DEF of
  <2>3. todo'[s] = BareAction("EXIT")
    BY <1>1, <2>1, <2>2, ExitSupremacy
  <2> QED BY <1>3, <2>1, <2>3 DEF Exiting, BareAction
<1> QED BY <1>4, <1>5, <1>6 DEF CycleInv, Blocked, Exits

\* Between cycles: new snapshots, or a risk check that raises.
LEMMA IdleKeeps ==
    ASSUME CycleInv, Observe \/ \E mandates : RaiseCycle(mandates)
    PROVE  CycleInv'
<1> USE DEF machineVars
<1>1. /\ up /\ doing = Nobody /\ todo = Nothing
      /\ UNCHANGED <<machineVars, todo, doing, interrupted>>
  BY DEF Observe, RaiseCycle, Idle
<1>2. Shape' /\ RowsFollow' /\ WorkingOn' /\ HalfDone'
  BY <1>1 DEF CycleInv, Shape, RowsFollow, WorkingOn, HalfDone
<1>3. \A s \in Symbols : todo'[s].type /= "ENTRY"
  BY <1>1 DEF Nothing, NoAction, BareAction
<1>4. CASE Observe
  BY <1>2, <1>4 DEF Observe, NoDemands, CycleInv, Blocked, Exits
<1>5. ASSUME NEW mandates, RaiseCycle(mandates)
      PROVE  CycleInv'
  <2>1. Idle' /\ ~MarksComplete'
    BY <1>1, <1>5 DEF RaiseCycle, Idle, MarksComplete, Live
  <2>2. Blocked'
    BY <1>1, <1>3, <1>5 DEF RaiseCycle, Demands, Blocked
  <2>3. Exits'
    BY <1>5, <2>1 DEF RaiseCycle, Demands, Exits, Exiting
  <2> QED BY <1>2, <2>2, <2>3 DEF CycleInv
<1> QED BY <1>4, <1>5

\* A process that dies leaves its table; what was in hand is interrupted.
LEMMA CrashKeeps ==
    ASSUME CycleInv, Crash
    PROVE  CycleInv'
<1>1. /\ up /\ ~up' /\ positions' = Machine!AllFlat
      /\ UNCHANGED <<positionRows, faults>>
      /\ todo' = Nothing /\ doing' = Nobody /\ asked' = NoDemands
      /\ interrupted' = interrupted \union (IF doing = Nobody THEN {} ELSE {doing})
  BY DEF Crash, Machine!Crash, Machine!LoseMemory
<1>2. Machine!AllFlat \in [Symbols -> Machine!Positions]
  BY MachineAssumption
  DEF Machine!AllFlat, Machine!Flat, Machine!Positions, Machine!States, Machine!Prices
<1>3. Shape'
  BY <1>1, <1>2 DEF CycleInv, Shape, Nothing, Crash, Machine!Crash, Machine!LoseMemory
<1>4. RowsFollow'
  BY <1>1 DEF CycleInv, RowsFollow
<1>5. WorkingOn'
  BY <1>1 DEF WorkingOn, Nothing, NoDemands
<1>6. HalfDone'
  BY <1>1, NobodyAssumption DEF CycleInv, HalfDone, RowsFollow, Half
<1>7. Blocked' /\ Exits'
  BY <1>1 DEF Blocked, Exits, NoDemands
<1> QED BY <1>3, <1>4, <1>5, <1>6, <1>7 DEF CycleInv

\* A restart finds in the table no half-done action that was not interrupted.
LEMMA RestartKeeps ==
    ASSUME CycleInv, Restart
    PROVE  CycleInv'
<1>1. /\ ~up /\ up' /\ positions' = positionRows
      /\ UNCHANGED <<positionRows, faults, todo, doing, asked, interrupted>>
  BY DEF Restart, CycleUnchanged, Machine!Restart
<1>2. Shape'
  BY <1>1 DEF CycleInv, Shape, Restart, Machine!Restart
<1>3. RowsFollow'
  BY <1>1 DEF CycleInv, RowsFollow
<1>4. WorkingOn'
  BY <1>1 DEF CycleInv, WorkingOn
<1>5. HalfDone'
  BY <1>1 DEF CycleInv, HalfDone
<1>6. Blocked' /\ Exits'
  BY <1>1 DEF CycleInv, WorkingOn, Blocked, Exits, NoDemands
<1> QED BY <1>2, <1>3, <1>4, <1>5, <1>6 DEF CycleInv

\* The invariant of the cycle, for every set of symbols, mandates, accounts
\* and prices, with or without a positions table.
THEOREM CycleInvariant == Spec => []CycleInv
<1>1. ASSUME Init
      PROVE  CycleInv
  <2>1. /\ positions = Machine!AllFlat /\ positionRows = Machine!AllFlat
        /\ up = TRUE /\ faults = {}
        /\ todo = Nothing /\ doing = Nobody /\ asked = NoDemands
    BY <1>1 DEF Init, Machine!Init
  <2>2. Machine!AllFlat \in [Symbols -> Machine!Positions]
    BY MachineAssumption
    DEF Machine!AllFlat, Machine!Flat, Machine!Positions, Machine!States, Machine!Prices
  <2>3. Shape /\ RowsFollow
    BY <2>1, <2>2 DEF Shape, RowsFollow, Nothing, Machine!AllFlat, Machine!Flat
  <2>4. WorkingOn /\ HalfDone
    BY <2>1 DEF WorkingOn, HalfDone, Half, Machine!AllFlat, Machine!Flat
  <2>5. Blocked /\ Exits
    BY <2>1 DEF Blocked, Exits, NoDemands
  <2> QED BY <2>3, <2>4, <2>5 DEF CycleInv
<1>2. ASSUME CycleInv, [Next]_vars
      PROVE  CycleInv'
  <2>1. CASE Observe
    BY <1>2, <2>1, IdleKeeps
  <2>2. ASSUME NEW mandates, RaiseCycle(mandates)
        PROVE  CycleInv'
    BY <1>2, <2>2, IdleKeeps
  <2>3. ASSUME NEW mandates, NEW alarm, StartCycle(mandates, alarm)
        PROVE  CycleInv'
    BY <1>2, <2>3, StartKeeps
  <2>4. ASSUME NEW s \in Symbols, Execute(s)
        PROVE  CycleInv'
    BY <1>2, <2>4, ExecuteKeeps
  <2>5. CASE Crash
    BY <1>2, <2>5, CrashKeeps
  <2>6. CASE Restart
    BY <1>2, <2>6, RestartKeeps
  <2>7. CASE UNCHANGED vars
    <3> USE <2>7 DEF vars, machineVars
    <3>1. Shape' /\ RowsFollow' /\ WorkingOn' /\ HalfDone' /\ Blocked'
      BY <1>2 DEF CycleInv, Shape, RowsFollow, WorkingOn, HalfDone, Blocked
    <3>2. Idle' = Idle /\ MarksComplete' = MarksComplete
      BY DEF Idle, MarksComplete, Live
    <3>3. Exits'
      BY <1>2, <3>2 DEF CycleInv, Exits, Exiting
    <3> QED BY <3>1, <3>3 DEF CycleInv
  <2> QED BY <1>2, <2>1, <2>2, <2>3, <2>4, <2>5, <2>6, <2>7 DEF Next
<1> QED BY <1>1, <1>2, PTL DEF Spec

\* Between cycles nothing is half done but what a crash cut in two.
THEOREM CyclesSettleAlways == Spec => []CyclesSettle
<1>1. CycleInv => CyclesSettle
  BY NobodyAssumption DEF CycleInv, HalfDone, CyclesSettle, Idle, Half
<1> QED BY <1>1, CycleInvariant, PTL

\* A position that was OPEN when an EXIT was mandated is FLAT after the cycle.
THEOREM ExitsAlwaysTakeEffect == Spec => []ExitsTakeEffect
<1>1. CycleInv => ExitsTakeEffect
  <2> SUFFICES ASSUME CycleInv, Idle, MarksComplete, NEW s \in asked.exits
               PROVE  positions[s].state = "FLAT"
    BY DEF ExitsTakeEffect
  <2>1. s \in Symbols /\ Exiting(s)
    BY DEF CycleInv, Exits
  <2> QED BY <2>1, NobodyAssumption
          DEF Exiting, Idle, Nothing, NoAction, BareAction
<1> QED BY <1>1, CycleInvariant, PTL

\* No position is taken in a symbol that a BLOCK named in the cycle.
THEOREM BlocksAlwaysPreventEntry == Spec => []BlocksPreventEntry
<1>1. CycleInv => BlocksPreventEntry
  BY DEF CycleInv, Blocked, BlocksPreventEntry
<1> QED BY <1>1, CycleInvariant, PTL


-----------------------------------------------------------------------------
(* Leverage.  An entry is validated before its first transition and takes  *)
(* its size at the second; nothing in between changes what was validated.  *)

\* An action as arbitration makes it: typed, and never a BLOCK.
ActionOK(a) ==
    /\ a.type \in (MandateTypes \ {"BLOCK"}) \union {"NO_ACTION"}
    /\ a.quantity \in Int /\ a.entry_price \in Int

\* The snapshots of the cycle are among those the collector may deliver.
Snapshots ==
    /\ account \in Accounts /\ marks \in Marks
    /\ \A s \in Symbols : ActionOK(todo[s])

\* A process that is down holds no position in memory.
DownIsFlat == ~up => \A s \in Symbols : positions[s].state = "FLAT"

\* The entry in hand still fits what it was validated against.
EntryFits ==
    doing /= Nobody /\ todo[doing].type = "ENTRY" =>
       /\ positions[doing].quantity = 0
       /\ todo[doing].quantity > 0
       /\ TotalExposure + todo[doing].quantity * PriceForRisk(doing, todo[doing])
            <= LMax * account.equity

LeverageInv == Snapshots /\ DownIsFlat /\ EntryFits

\* What the exposures are computed from.
ExposureTyped == positions \in [Symbols -> Machine!Positions] /\ marks \in Marks

\* The exposure of each symbol, as a function to total.
Exposures == [s \in Symbols |-> Exposure(s)]

\* An exposure is a size times a price, never negative.
LEMMA ExposuresAreNatural == ExposureTyped => Exposures \in [Symbols -> Nat]
<1> SUFFICES ASSUME ExposureTyped, NEW s \in Symbols PROVE Exposure(s) \in Nat
  BY DEF Exposures
<1>1. positions[s].quantity \in Int /\ marks[s] \in Nat
  BY MachineAssumption, MarksAssumption DEF ExposureTyped, Machine!Positions
<1>2. Machine!Abs(positions[s].quantity) \in Nat
  BY <1>1 DEF Machine!Abs
<1>3. PICK q \in Nat, m \in Nat : q = Machine!Abs(positions[s].quantity) /\ m = marks[s]
  BY <1>1, <1>2
<1> QED BY <1>3 DEF Exposure

\* The exposure of the account is the total of those of its live symbols.
LEMMA ExposureIsTotal == TotalExposure = Total(Exposures, Live)
<1>1. PICK w : w = Exposures
  OBVIOUS
<1>2. PICK S \in SUBSET Symbols : S = Live
  BY DEF Live
<1> DEFINE iter[s \in SUBSET S] ==
             IF s = {} THEN 0
             ELSE Exposure(CHOOSE t \in s : TRUE) + iter[s \ {CHOOSE t \in s : TRUE}]
           Step(sum, s) == IF s = {} THEN 0
                           ELSE Exposure(CHOOSE t \in s : TRUE)
                                  + sum[s \ {CHOOSE t \in s : TRUE}]
<1>3. IsFiniteSet(S)
  BY MachineAssumption, FS_Subset
<1>4. ASSUME NEW sum, NEW s \in SUBSET S
      PROVE  Step(sum, s) = SumStep(w, sum, s)
  <2>1. CASE s = {}
    BY <2>1 DEF SumStep
  <2>2. CASE s /= {}
    <3>1. Pick(s) \in Symbols
      BY <2>2, PickIsMember
    <3>2. w[Pick(s)] = Exposure(Pick(s))
      BY <1>1, <3>1 DEF Exposures
    <3> QED BY <2>2, <3>2 DEF SumStep, Pick
  <2> QED BY <2>1, <2>2
<1>5. \A sum : sum = [s \in SUBSET S |-> Step(sum, s)] <=> SumsUp(sum, w, S)
  <2> TAKE sum
  <2>1. [s \in SUBSET S |-> Step(sum, s)] = [s \in SUBSET S |-> SumStep(w, sum, s)]
    <3> HIDE DEF Step
    <3> QED BY <1>4
  <2> HIDE DEF Step
  <2> QED BY <2>1 DEF SumsUp
<1>6. \E sum : sum = [s \in SUBSET S |-> Step(sum, s)]
  <2> HIDE DEF Step
  <2> QED BY <1>3, <1>5, SumsExist
<1>7. iter = [s \in SUBSET S |-> Step(iter, s)]
  BY <1>6
<1>8. SumsUp(iter, w, S)
  <2> HIDE DEF Step, iter
  <2> QED BY <1>5, <1>7
<1>9. MapThenSumSet(Exposure, S) = iter[S]
  BY DEF MapThenSumSet, MapThenFoldSet
<1>10. Total(w, S) = iter[S]
  <2>1. PICK sum : SumsUp(sum, w, S) /\ Total(w, S) = sum[S]
    BY <1>3, SumsUpIsTotal
  <2> HIDE DEF iter
  <2>2. \A s \in SUBSET S : sum[s] = iter[s]
    BY <1>3, <1>8, <2>1, SumsAgree
  <2> QED BY <2>1, <2>2
<1> QED BY <1>1, <1>2, <1>9, <1>10 DEF TotalExposure

\* Both facts hold of the next state as well.
LEMMA ExposureIsTotalNext == (TotalExposure = Total(Exposures, Live))'
  BY ExposureIsTotal, PTL

LEMMA ExposuresAreNaturalNext == (ExposureTyped => Exposures \in [Symbols -> Nat])'
  BY ExposuresAreNatural, PTL

\* One symbol's position changes while it is live, or becomes so.
LEMMA ExposureChanges ==
    ASSUME ExposureTyped, ExposureTyped', marks' = marks, NEW s \in Symbols,
           \A t \in Symbols \ {s} : positions'[t] = positions[t],
           positions'[s].state /= "FLAT",
           positions[s].state = "FLAT" \/ Exposure(s) = 0
    PROVE  /\ TotalExposure \in Int
           /\ TotalExposure' = TotalExposure + Exposure(s)'
<1>1. PICK w \in [Symbols -> Nat], v \in [Symbols -> Nat] : w = Exposures /\ v = Exposures'
  BY ExposuresAreNatural, ExposuresAreNaturalNext
<1>2. PICK S \in SUBSET Symbols : S = Live
  BY DEF Live
<1>3. PICK T \in SUBSET Symbols : T = Live'
  BY DEF Live
<1>4. IsFiniteSet(S) /\ IsFiniteSet(T) /\ T = S \union {s}
  <2>1. T = S \union {s}
    BY <1>2, <1>3 DEF Live
  <2> QED BY <2>1, MachineAssumption, FS_Subset
<1>5. /\ \A t \in Symbols \ {s} : v[t] = w[t]
      /\ v[s] = Exposure(s)' /\ w[s] = Exposure(s)
  BY <1>1 DEF Exposures, Exposure
<1>6. TotalExposure = Total(w, S) /\ TotalExposure' = Total(v, T)
  BY <1>1, <1>2, <1>3, ExposureIsTotal, ExposureIsTotalNext
<1>7. Total(w, S) \in Int
  BY <1>4, TotalType
<1>8. CASE s \in S
  <2>1. S = T /\ w[s] = 0
    BY <1>2, <1>4, <1>5, <1>8 DEF Live
  <2>2. \A t \in S : w[t] \in Int /\ v[t] \in Int
    OBVIOUS
  <2>3. Total(v, S) = Total(w, S) - w[s] + v[s]
    BY <1>4, <1>5, <1>8, <2>2, TotalOfChanged
  <2> QED BY <1>5, <1>6, <1>7, <2>1, <2>3
<1>9. CASE s \notin S
  <2>1. \A t \in S \union {s} : v[t] \in Int
    OBVIOUS
  <2>2. Total(v, S \union {s}) = v[s] + Total(v, S)
    BY <1>4, <1>9, <2>1, TotalOfMore
  <2>3. Total(v, S) = Total(w, S)
    BY <1>4, <1>5, <1>9, TotalOfEqual
  <2> QED BY <1>4, <1>5, <1>6, <1>7, <2>2, <2>3
<1> QED BY <1>8, <1>9

\* What arbitration makes of mandates that are typed is an action that is.
LEMMA ArbitrationIsTyped ==
    ASSUME NEW mandates,
           \A m \in mandates : /\ m.type \in MandateTypes
                               /\ {m.quantity, m.entry_price} \subseteq Int,
           NEW a \in Arbitrate(mandates)
    PROVE  ActionOK(a)
<1> USE DEF ActionOK, MandateTypes, NoAction, BareAction, NoneAmount
<1>1. CASE OfType(mandates, "EXIT") /= {}
  BY <1>1 DEF Arbitrate
<1>2. CASE OfType(mandates, "EXIT") = {}
  <2>1. a \in Hierarchy(Eligible(mandates))
    BY <1>2 DEF Arbitrate
  <2>2. a = NoAction \/ \E type \in {"REDUCE", "ENTRY", "HOLD"} :
                          a \in Chosen(Eligible(mandates), type)
    BY <2>1, HierarchyShape
  <2>3. ASSUME NEW type \in {"REDUCE", "ENTRY", "HOLD"}, a \in Chosen(Eligible(mandates), type)
        PROVE  ActionOK(a)
    <3>1. PICK m \in Eligible(mandates) : a = Action(type, m)
      BY <2>3 DEF Chosen, Strongest, OfType
    <3>2. m \in mandates
      BY DEF Eligible
    <3>3. m.quantity \in Int /\ m.entry_price \in Int
      BY <3>2
    <3> QED BY <3>1, <3>3 DEF Action
  <2> QED BY <2>2, <2>3
<1> QED BY <1>1, <1>2

\* The mandates of a cycle, the protective ones included, are typed.
LEMMA CycleStartIsTyped ==
    ASSUME Snapshots, NEW mandates \in SUBSET Mandates, NEW alarm, StartCycle(mandates, alarm)
    PROVE  Snapshots'
<1> DEFINE all == mandates \union RiskMandates(alarm)
           of(s) == {m \in all : m.symbol = s}
<1>1. \A s \in Symbols : todo'[s] \in Arbitrate(of(s))
  BY DEF StartCycle, ArbitrateAll
<1>2. \A m \in all : m.type \in MandateTypes /\ {m.quantity, m.entry_price} \subseteq Int
  <2>1. ASSUME NEW m \in RiskMandates(alarm)
        PROVE  m.type \in MandateTypes /\ m.quantity \in Int /\ m.entry_price \in Int
    <3> USE DEF Protective, MandateTypes, NoneAmount
    <3>1. CASE m \in AlarmMandates(alarm)
      <4>1. PICK s \in Watched : m = Protective(s, "EXIT", 10) \/ m = Protective(s, "REDUCE", 9)
        BY <3>1 DEF AlarmMandates
      <4> QED BY <4>1
    <3>2. CASE m \in ExposureMandates
      <4>1. PICK s \in Watched : m = Protective(s, "REDUCE", 7)
        BY <3>2 DEF ExposureMandates
      <4> QED BY <4>1
    <3>3. CASE m \in GlobalBlock
      <4>1. m = Protective("*", "BLOCK", 10)
        BY <3>3 DEF GlobalBlock
      <4> QED BY <4>1
    <3> QED BY <3>1, <3>2, <3>3 DEF RiskMandates
  <2> QED BY <2>1, MandatesAssumption
<1>3. \A s \in Symbols : \A m \in of(s) : m \in all
  OBVIOUS
<1>4. account' = account /\ marks' = marks
  BY DEF StartCycle
<1>5. ASSUME NEW s \in Symbols PROVE ActionOK(todo'[s])
  <2>1. \A m \in of(s) : m.type \in MandateTypes /\ {m.quantity, m.entry_price} \subseteq Int
    BY <1>2
  <2>2. todo'[s] \in Arbitrate(of(s))
    BY <1>1
  <2> HIDE DEF of, all
  <2> QED BY <2>1, <2>2, ArbitrationIsTyped
<1> QED BY <1>4, <1>5 DEF Snapshots

\* Snapshots change between cycles, and only to others that may be delivered.
LEMMA SnapshotsStay ==
    ASSUME Shape, Snapshots, [Next]_vars
    PROVE  Snapshots'
<1>1. ActionOK(NoAction)
  BY DEF ActionOK, NoAction, BareAction, NoneAmount
<1>2. CASE Observe
  BY <1>2 DEF Observe, Snapshots
<1>3. ASSUME NEW mandates, RaiseCycle(mandates) PROVE Snapshots'
  BY <1>3 DEF RaiseCycle, Snapshots
<1>4. ASSUME NEW mandates \in UNION {kSubset(k, Mandates) : k \in 0..MaxMandates},
             NEW alarm, StartCycle(mandates, alarm)
      PROVE  Snapshots'
  <2>1. mandates \in SUBSET Mandates
    BY DEF kSubset
  <2> QED BY <1>4, <2>1, CycleStartIsTyped
<1>5. ASSUME NEW s \in Symbols, Execute(s) PROVE Snapshots'
  <2>1. account' = account /\ marks' = marks /\ (todo' = todo \/ Drop(s) \/ todo' = Nothing)
    BY <1>5 DEF Execute, Skip, Abort, BeginEntry, ConfirmEntry, BeginExit, ConfirmExit,
                BeginReduce, ConfirmReduce, CycleUnchanged
  <2>2. CASE todo' = todo
    BY <2>1, <2>2 DEF Snapshots
  <2>3. CASE Drop(s)
    BY <1>1, <2>1, <2>3 DEF Snapshots, Drop, Shape
  <2>4. CASE todo' = Nothing
    BY <1>1, <2>1, <2>4 DEF Snapshots, Nothing
  <2> QED BY <2>1, <2>2, <2>3, <2>4
<1>6. CASE Crash
  BY <1>1, <1>6 DEF Crash, Snapshots, Nothing
<1>7. CASE Restart
  BY <1>7 DEF Restart, CycleUnchanged, Snapshots
<1>8. CASE UNCHANGED vars
  BY <1>8 DEF vars, Snapshots
<1> QED BY <1>2, <1>3, <1>4, <1>5, <1>6, <1>7, <1>8 DEF Next

\* What executing a symbol's action does to the positions.
LEMMA ExecuteMoves ==
    ASSUME Shape, NEW s \in Symbols, Execute(s)
    PROVE  /\ up /\ up' = up /\ account' = account /\ marks' = marks
           /\ \/ positions' = positions
              \/ \E from, to : Moves(s, from, to)
<1>1. CASE Skip(s) \/ Abort(s) \/ ConfirmReduce(s)
  BY <1>1 DEF Skip, Abort, ConfirmReduce, CycleUnchanged, machineVars
<1>2. CASE BeginEntry(s) \/ ConfirmEntry(s) \/ BeginExit(s) \/ ConfirmExit(s) \/ BeginReduce(s)
  <2>1. \E from, to : Moves(s, from, to)
    BY <1>2, HandlersMove DEF BeginEntry, ConfirmEntry, BeginExit, ConfirmExit, BeginReduce
  <2> QED BY <1>2, <2>1 DEF BeginEntry, ConfirmEntry, BeginExit, ConfirmExit, BeginReduce,
                            CycleUnchanged, Moves, Shape
<1> QED BY <1>1, <1>2 DEF Execute

\* A death clears the positions in memory, and a restart reads them back.
LEMMA DownStaysFlat ==
    ASSUME Shape, DownIsFlat, [Next]_vars
    PROVE  DownIsFlat'
<1>1. CASE Crash
  BY <1>1 DEF Crash, Machine!Crash, Machine!LoseMemory, Machine!AllFlat, Machine!Flat, DownIsFlat
<1>2. CASE Restart
  BY <1>2 DEF Restart, Machine!Restart, DownIsFlat
<1>3. ASSUME NEW s \in Symbols, Execute(s) PROVE DownIsFlat'
  BY <1>3, ExecuteMoves DEF DownIsFlat
<1>4. CASE UNCHANGED machineVars
  BY <1>4 DEF machineVars, DownIsFlat
<1> QED BY <1>1, <1>2, <1>3, <1>4 DEF Next, Observe, RaiseCycle, StartCycle, vars

\* The first transition of an entry takes nothing yet.
LEMMA EntryBegins ==
    ASSUME Shape, Snapshots, NEW s \in Symbols, BeginEntry(s)
    PROVE  EntryFits'
<1>1. ExposureTyped /\ ExposureTyped' /\ Moves(s, "FLAT", "ENTERING")
  BY HandlersMove DEF BeginEntry, Moves, Shape, Snapshots, ExposureTyped, CycleUnchanged
<1>2. positions'[s].quantity = 0
  <2>1. PICK d : Machine!Install(s, [Machine!Flat EXCEPT !.state = "ENTERING", !.direction = d])
    BY DEF BeginEntry, Machine!HandleEntry
  <2>2. positions' = [positions EXCEPT ![s] =
                        [Machine!Flat EXCEPT !.state = "ENTERING", !.direction = d]]
    BY <2>1 DEF Machine!Install, Machine!Complete, Machine!DieInTail, Shape
  <2> QED BY <2>2 DEF Machine!Flat, Shape
<1>3. Exposure(s)' = 0
  <2>1. marks'[s] \in Int
    BY <1>1, MarksAssumption DEF ExposureTyped
  <2> QED BY <1>2, <2>1 DEF Exposure, Machine!Abs
<1>4. TotalExposure \in Int /\ TotalExposure' = TotalExposure
  <2>1. marks' = marks
    BY DEF BeginEntry, CycleUnchanged
  <2>2. /\ TotalExposure \in Int
        /\ TotalExposure' = TotalExposure + Exposure(s)'
    BY <1>1, <2>1, ExposureChanges DEF Moves
  <2> QED BY <1>3, <2>2
<1>5. ValidEntry(s, todo[s]) /\ todo[s].quantity > 0
  BY DEF BeginEntry, Complete, NoneAmount
<1>6. /\ doing' = s /\ todo' = todo /\ account' = account
      /\ PriceForRisk(s, todo[s])' = PriceForRisk(s, todo[s])
  BY DEF BeginEntry, CycleUnchanged, PriceForRisk
<1>7. TotalExposure + todo[s].quantity * PriceForRisk(s, todo[s]) <= LMax * account.equity
  BY <1>5 DEF ValidEntry
<1>8. todo'[s].quantity * PriceForRisk(s, todo[s])' = todo[s].quantity * PriceForRisk(s, todo[s])
  BY <1>6
<1> QED BY <1>2, <1>4, <1>5, <1>6, <1>7, <1>8 DEF EntryFits, PriceForRisk

\* Nothing between validation and confirmation changes what was validated.
LEMMA EntriesStayFit ==
    ASSUME CycleInv, LeverageInv, [Next]_vars
    PROVE  EntryFits'
<1> USE DEF EntryFits
<1>1. ASSUME doing' = Nobody PROVE EntryFits'
  BY <1>1
<1>2. ASSUME NEW s \in Symbols, Execute(s) PROVE EntryFits'
  <2>1. CASE BeginEntry(s)
    BY <2>1, EntryBegins DEF CycleInv, LeverageInv
  <2>2. CASE BeginExit(s) \/ BeginReduce(s)
    BY <2>2 DEF BeginExit, BeginReduce, Accepts
  <2>3. CASE Skip(s) \/ Abort(s) \/ ConfirmEntry(s) \/ ConfirmExit(s) \/ ConfirmReduce(s)
    BY <1>1, <2>3 DEF Skip, Abort, ConfirmEntry, ConfirmExit, ConfirmReduce
  <2> QED BY <1>2, <2>1, <2>2, <2>3 DEF Execute
<1>3. CASE Observe \/ \E mandates : RaiseCycle(mandates) \/ \E alarm : StartCycle(mandates, alarm)
  BY <1>1, <1>3 DEF Observe, RaiseCycle, StartCycle, Idle
<1>4. CASE Crash
  BY <1>1, <1>4 DEF Crash
<1>5. CASE Restart
  BY <1>1, <1>5 DEF Restart, Machine!Restart, CycleInv, WorkingOn
<1>6. CASE UNCHANGED vars
  <2>1. TotalExposure' = TotalExposure
    <3>1. Exposures' = Exposures /\ Live' = Live
      BY <1>6 DEF vars, machineVars, Exposures, Live, Exposure
    <3> QED BY <3>1, ExposureIsTotal, ExposureIsTotalNext
  <2> QED BY <1>6, <2>1 DEF vars, machineVars, LeverageInv, PriceForRisk
<1> QED BY <1>2, <1>3, <1>4, <1>5, <1>6 DEF Next

\* The invariant behind leverage: an entry in hand is the entry that
\* validate_entry accepted, against positions that have not moved since.
THEOREM LeverageInvariant == Spec => []LeverageInv
<1>1. Init => LeverageInv
  <2> SUFFICES ASSUME Init PROVE LeverageInv
    OBVIOUS
  <2>1. ActionOK(NoAction)
    BY DEF ActionOK, NoAction, BareAction, NoneAmount
  <2>2. Snapshots
    BY <2>1 DEF Init, Snapshots, Nothing
  <2>3. up /\ doing = Nobody
    BY DEF Init, Machine!Init
  <2> QED BY <2>2, <2>3 DEF LeverageInv, DownIsFlat, EntryFits
<1>2. ASSUME CycleInv, LeverageInv, [Next]_vars
      PROVE  LeverageInv'
  <2>1. Shape
    BY <1>2 DEF CycleInv
  <2>2. Snapshots' /\ DownIsFlat'
    BY <1>2, <2>1, SnapshotsStay, DownStaysFlat DEF LeverageInv
  <2> QED BY <1>2, <2>2, EntriesStayFit DEF LeverageInv
<1> QED BY <1>1, <1>2, CycleInvariant, PTL DEF Spec

\* I-L1 over a whole cycle: an entry at the mark price, when confirmed, leaves
\* total exposure within L_max of equity, the earlier entries counted.
THEOREM LeverageAlwaysRespected == Spec => EntriesRespectLeverage
<1>1. ASSUME CycleInv, LeverageInv, [Next]_vars, NEW s \in Symbols,
             positions[s].state = "ENTERING", positions'[s].state = "OPEN",
             marks[s] /= NoneAmount, todo[s].entry_price \in {NoneAmount, marks[s]}
      PROVE  TotalExposure' <= LMax * account.equity
  <2>1. ConfirmEntry(s)
    <3>1. up
      BY <1>1 DEF LeverageInv, DownIsFlat
    <3>2. PICK t \in Symbols : Execute(t)
      <4>1. ~UNCHANGED positions /\ ~Restart /\ ~Crash
        BY <1>1, <3>1 DEF Restart, Machine!Restart, Crash, Machine!Crash, Machine!LoseMemory,
                          Machine!AllFlat, Machine!Flat
      <4> QED BY <1>1, <4>1 DEF Next, Observe, RaiseCycle, StartCycle, vars, machineVars
    <3>3. CASE Skip(t) \/ Abort(t) \/ ConfirmReduce(t)
      BY <1>1, <3>3 DEF Skip, Abort, ConfirmReduce, machineVars
    <3>4. CASE BeginEntry(t)
      <4>1. Moves(t, "FLAT", "ENTERING")
        BY <1>1, <3>4, HandlersMove DEF BeginEntry, CycleInv
      <4> QED BY <1>1, <4>1 DEF Moves
    <3>5. CASE BeginExit(t)
      <4>1. Moves(t, "OPEN", "CLOSING")
        BY <1>1, <3>5, HandlersMove DEF BeginExit, CycleInv
      <4> QED BY <1>1, <4>1 DEF Moves
    <3>6. CASE ConfirmExit(t)
      <4>1. Moves(t, "CLOSING", "FLAT")
        BY <1>1, <3>6, HandlersMove DEF ConfirmExit, CycleInv
      <4> QED BY <1>1, <4>1 DEF Moves
    <3>7. CASE BeginReduce(t)
      <4>1. Moves(t, "OPEN", "REDUCING")
        BY <1>1, <3>7, HandlersMove DEF BeginReduce, CycleInv
      <4> QED BY <1>1, <4>1 DEF Moves
    <3>8. CASE ConfirmEntry(t)
      <4>1. Moves(t, "ENTERING", "OPEN")
        BY <1>1, <3>8, HandlersMove DEF ConfirmEntry, CycleInv
      <4>2. t = s
        BY <1>1, <4>1 DEF Moves
      <4> QED BY <3>8, <4>2
    <3> QED BY <3>2, <3>3, <3>4, <3>5, <3>6, <3>7, <3>8 DEF Execute
  <2>2. /\ doing = s /\ todo[s].type = "ENTRY" /\ marks' = marks /\ account' = account
        /\ positions'[s].quantity = todo[s].quantity /\ Moves(s, "ENTERING", "OPEN")
    BY <1>1, <2>1, HandlersMove DEF ConfirmEntry, CycleUnchanged, CycleInv
  <2>3. ExposureTyped /\ ExposureTyped'
    BY <1>1, <2>2 DEF ExposureTyped, CycleInv, Shape, Moves, LeverageInv, Snapshots
  <2>4. PICK q \in Int, m \in Nat : q = todo[s].quantity /\ m = marks[s]
    BY <1>1, <2>3, MarksAssumption DEF LeverageInv, Snapshots, ActionOK, ExposureTyped
  <2>5. positions[s].quantity = 0 /\ q > 0 /\ TotalExposure + q * m <= LMax * account.equity
    <3>1. PriceForRisk(s, todo[s]) = m
      BY <1>1, <2>4 DEF PriceForRisk
    <3> QED BY <1>1, <2>2, <2>4, <3>1, NobodyAssumption DEF LeverageInv, EntryFits
  <2>6. Exposure(s) = 0 /\ Exposure(s)' = q * m
    BY <2>2, <2>4, <2>5 DEF Exposure, Machine!Abs
  <2>7. /\ TotalExposure \in Int
        /\ TotalExposure' = TotalExposure + Exposure(s)'
    BY <2>2, <2>3, <2>6, ExposureChanges DEF Moves
  <2>8. TotalExposure' = TotalExposure + q * m
    BY <2>6, <2>7
  <2> QED BY <2>5, <2>8
<1>2. ASSUME CycleInv, LeverageInv, [Next]_vars
      PROVE  \A s \in Symbols :
               (/\ positions[s].state = "ENTERING" /\ positions'[s].state = "OPEN"
                /\ marks[s] /= NoneAmount
                /\ todo[s].entry_price \in {NoneAmount, marks[s]})
               => TotalExposure' <= LMax * account.equity
  BY <1>1, <1>2
<1> QED BY CycleInvariant, LeverageInvariant, <1>2, PTL DEF Spec, EntriesRespectLeverage

-----------------------------------------------------------------------------
(* The theorems of the machine, instantiated on the controller's           *)
(* variables.  The two instances of the machine expand to the same         *)
(* formulas; what is proved of one holds of the other.                     *)

Shown == INSTANCE PositionMachineProofs WITH FaultModels <- {{}}

\* A behaviour of the controller's machine is one of the machine proved about.
LEMMA MachineIsShown == Machine!Spec => Shown!Spec
<1>1. Machine!Init <=> Shown!Init
  BY
  DEF Machine!AllFlat, Shown!AllFlat, Machine!Flat, Shown!Flat, Machine!Init, Shown!Init,
      Machine!NoTracker, Shown!NoTracker, Machine!NoTrackers, Shown!NoTrackers
<1>2. [Machine!Next]_(Machine!vars) <=> [Shown!Next]_(Shown!vars)
  BY
  DEF Machine!ALLOWED_TRANSITIONS, Shown!ALLOWED_TRANSITIONS, Machine!Abs, Shown!Abs,
      Machine!AllFlat, Shown!AllFlat, Machine!Allows, Shown!Allows,
      Machine!CheckClosingTimeouts, Shown!CheckClosingTimeouts, Machine!ClosingAgeAfter,
      Shown!ClosingAgeAfter, Machine!ClosingRowAfter, Shown!ClosingRowAfter, Machine!Complete,
      Shown!Complete, Machine!Constructible, Shown!Constructible, Machine!Crash, Shown!Crash,
      Machine!DieInTail, Shown!DieInTail, Machine!Directions, Shown!Directions, Machine!Flat,
      Shown!Flat, Machine!ForceCloseTimeout, Shown!ForceCloseTimeout,
      Machine!HandleEmergencyExit, Shown!HandleEmergencyExit, Machine!HandleEntry,
      Shown!HandleEntry, Machine!HandleEntryFailure, Shown!HandleEntryFailure,
      Machine!HandleEntrySuccess, Shown!HandleEntrySuccess, Machine!HandleExit,
      Shown!HandleExit, Machine!HandleExitSuccess, Shown!HandleExitSuccess,
      Machine!HandleReduce, Shown!HandleReduce, Machine!HandleReduceComplete,
      Shown!HandleReduceComplete, Machine!HandleReducePartial, Shown!HandleReducePartial,
      Machine!Install, Shown!Install, Machine!LoseMemory, Shown!LoseMemory, Machine!MaxAge,
      Shown!MaxAge, Machine!Next, Shown!Next, Machine!NoTracker, Shown!NoTracker,
      Machine!NoTrackers, Shown!NoTrackers, Machine!Older, Shown!Older,
      Machine!PositionRowAfter, Shown!PositionRowAfter, Machine!Prices, Shown!Prices,
      Machine!Restart, Shown!Restart, Machine!Stored, Shown!Stored, Machine!Tick, Shown!Tick,
      Machine!TrackerAfter, Shown!TrackerAfter, Machine!Transition, Shown!Transition,
      Machine!WriteClosingRow, Shown!WriteClosingRow, Machine!WritePositionRow,
      Shown!WritePositionRow, Machine!vars, Shown!vars
<1> QED BY <1>1, <1>2, PTL DEF Machine!Spec, Shown!Spec

\* The machine inside the controller is typed, by the machine's own theorem.
LEMMA MachineIsTyped == Machine!Spec => []Machine!TypeOK
<1>1. Machine!TypeOK <=> Shown!TypeOK
  BY
  DEF Machine!Ages, Shown!Ages, Machine!Constructible, Shown!Constructible,
      Machine!Directions, Shown!Directions, Machine!MaxAge, Shown!MaxAge, Machine!NoTracker,
      Shown!NoTracker, Machine!Positions, Shown!Positions, Machine!Prices, Shown!Prices,
      Machine!States, Shown!States, Machine!TypeOK, Shown!TypeOK, Machine!WellFormed,
      Shown!WellFormed
<1>2. Shown!Spec => []Shown!TypeOK
  BY MachineAssumption, Shown!TypeCorrect DEF Shown!FaultKinds
<1> QED BY <1>1, <1>2, MachineIsShown, PTL

\* Wherever in a cycle the process dies, the positions table holds what memory
\* held: while it runs, they agree.
THEOREM RestartsFindThePositions == Spec => []Machine!RestartLosesNothing
<1>1. Machine!RestartLosesNothing <=> Shown!RestartLosesNothing
  BY
  DEF Machine!RestartLosesNothing, Shown!RestartLosesNothing, Machine!Stored, Shown!Stored
<1>2. Shown!Spec => []Shown!RestartLosesNothing
  BY MachineAssumption, Shown!DurablePositions DEF Shown!FaultKinds
<1> QED BY <1>1, <1>2, DrivesTheMachine, MachineIsShown, PTL

\* The controller, its cycles, exceptions and crashes included, implements the
\* lifecycle contract: one direction from entry to FLAT, no second entry before
\* FLAT, and no restart that forgets or revives a position.
THEOREM CyclesImplementTheContract == Spec => Machine!LifecycleContract
<1>1. Machine!Contract!Init <=> Shown!Contract!Init
  BY
  DEF Machine!VisibleExposure, Shown!VisibleExposure, Machine!ExposureOf, Shown!ExposureOf,
      Machine!Visible, Shown!Visible, Machine!PhaseOf, Shown!PhaseOf, Machine!Flat, Shown!Flat,
      Machine!Contract!NoExposure, Shown!Contract!NoExposure, Machine!Contract!Init,
      Shown!Contract!Init
<1>2. [Machine!Contract!Next]_(Machine!VisibleExposure)
        <=> [Shown!Contract!Next]_(Shown!VisibleExposure)
  BY
  DEF Machine!VisibleExposure, Shown!VisibleExposure, Machine!ExposureOf, Shown!ExposureOf,
      Machine!Visible, Shown!Visible, Machine!PhaseOf, Shown!PhaseOf, Machine!Flat, Shown!Flat,
      Machine!Contract!NoExposure, Shown!Contract!NoExposure, Machine!Contract!Next,
      Shown!Contract!Next, Machine!Contract!Take, Shown!Contract!Take, Machine!Contract!Acquire,
      Shown!Contract!Acquire, Machine!Contract!Shrink, Shown!Contract!Shrink,
      Machine!Contract!Leave, Shown!Contract!Leave, Machine!Contract!Release,
      Shown!Contract!Release, Machine!Contract!Becomes, Shown!Contract!Becomes,
      Machine!Contract!RemainsOf, Shown!Contract!RemainsOf, Machine!Contract!Magnitude,
      Shown!Contract!Magnitude, Machine!Contract!Directions, Shown!Contract!Directions
<1>3. Shown!Spec => Shown!LifecycleContract
  BY MachineAssumption, Shown!ImplementsContract DEF Shown!FaultKinds
<1> QED BY <1>1, <1>2, <1>3, DrivesTheMachine, MachineIsShown, PTL
        DEF Machine!LifecycleContract, Shown!LifecycleContract,
            Machine!Contract!Spec, Shown!Contract!Spec

-----------------------------------------------------------------------------
(* Types                                                                   *)

\* Only a symbol that is worked on can be interrupted.
SymbolsInterrupted == interrupted \subseteq Symbols

LEMMA InterruptedAreSymbols == Spec => []SymbolsInterrupted
<1> USE DEF SymbolsInterrupted
<1>1. Init => SymbolsInterrupted
  BY DEF Init
<1>2. ASSUME CycleInv, SymbolsInterrupted, [Next]_vars
      PROVE  SymbolsInterrupted'
  <2>1. CASE Crash
    BY <1>2, <2>1 DEF Crash, CycleInv, Shape
  <2>2. ASSUME NEW s \in Symbols, Execute(s)
        PROVE  interrupted' = interrupted
    BY <2>2 DEF Execute, Skip, Abort, BeginEntry, ConfirmEntry, BeginExit, ConfirmExit,
                BeginReduce, ConfirmReduce, CycleUnchanged
  <2> QED BY <1>2, <2>1, <2>2
          DEF Next, Observe, RaiseCycle, StartCycle, Restart, CycleUnchanged, vars
<1> QED BY <1>1, <1>2, CycleInvariant, PTL DEF Spec

\* Types of the controller, and what ties its cycle to the machine: the symbol
\* in hand is the one whose transition is half done.
THEOREM TypeCorrect == Spec => []TypeOK
<1>1. ASSUME Machine!TypeOK, CycleInv, LeverageInv, SymbolsInterrupted
      PROVE  TypeOK
  <2>1. /\ DOMAIN todo = Symbols
        /\ doing \in Symbols \union {Nobody}
        /\ asked.exits \subseteq Symbols /\ asked.blocked \subseteq Symbols
    BY <1>1 DEF CycleInv, Shape, Exits, Blocked
  <2>2. /\ \A s \in Symbols : todo[s].type \in (MandateTypes \ {"BLOCK"}) \union {"NO_ACTION"}
        /\ account \in Accounts /\ marks \in Marks
    BY <1>1 DEF LeverageInv, Snapshots, ActionOK
  <2>3. ASSUME doing /= Nobody
        PROVE  positions[doing].state = CASE todo[doing].type = "ENTRY"  -> "ENTERING"
                                          [] todo[doing].type = "EXIT"   -> "CLOSING"
                                          [] todo[doing].type = "REDUCE" -> "REDUCING"
    BY <1>1, <2>3 DEF CycleInv, WorkingOn, InHand
  <2> QED BY <1>1, <2>1, <2>2, <2>3 DEF TypeOK, SymbolsInterrupted
<1>2. Spec => []Machine!TypeOK
  BY DrivesTheMachine, MachineIsTyped
<1> QED BY <1>1, <1>2, CycleInvariant, LeverageInvariant, InterruptedAreSymbols, PTL
=============================================================================
