------------------------- MODULE ExecutionController -------------------------
(***************************************************************************)
(* ExecutionController.process_cycle (runtime/executor/controller.py):     *)
(* risk check, arbitration, then one action per symbol, each a sequence of *)
(* transitions of the position machine.  The machine is PositionMachine,   *)
(* on the same variables; the controller adds a cycle to drive it.  The    *)
(* process may die between two transitions, and restarts from db_path.     *)
(* The controller gives the machine no closing_timeouts table, so a death  *)
(* inside a transition leaves the positions row of before or after it.     *)
(* Writes that fail are left to PositionMachine.                           *)
(*                                                                         *)
(* Prices are small integers, 0 for an absent one.  Whether a position is  *)
(* near its liquidation price, or past its stop-loss or take-profit, is    *)
(* chosen freely for each check (see Alarm); exposure and leverage are     *)
(* computed.                                                               *)
(***************************************************************************)
EXTENDS Integers, FiniteSetsExt, Arbitration

CONSTANTS
    Symbols, Quantities, ClosingTimeout, Stores,  \* of PositionMachine
    Mandates,      \* the mandates a strategy may submit
    MaxMandates,   \* how many it may submit in a cycle
    Accounts,      \* the account snapshots: [equity, margin_available]
    Marks,         \* the mark prices, NoneAmount for a symbol without one
    LMax,          \* RiskConfig.L_max
    LSymbolMax,    \* RiskConfig.L_symbol_max
    LLiquidation   \* 1 / (D_min_safe + MMR_default): the leverage I-LA1 allows

ASSUME MachineAssumption ==
    /\ IsFiniteSet(Symbols)
    /\ Quantities \subseteq Int /\ 0 \in Quantities
    /\ ClosingTimeout \in Nat /\ Stores \subseteq {"positions"}
ASSUME LimitsAssumption ==
    /\ LMax \in Nat \ {0} /\ LSymbolMax \in Nat \ {0} /\ LLiquidation \in Nat \ {0}
    /\ LSymbolMax <= LMax
ASSUME MandatesAssumption ==
    \A m \in Mandates : m.type \in MandateTypes /\ {m.quantity, m.entry_price} \subseteq Int
ASSUME MarksAssumption == Marks \subseteq [Symbols -> Nat]
ASSUME AccountsAssumption == \A acc \in Accounts : acc.equity \in Nat \ {0}

VARIABLES
    positions, closing_trackers, positionRows, closingRows, up, timedOut,
    closingAge, faults,     \* of PositionMachine
    todo,        \* the arbitrated actions not yet executed
    doing,       \* the symbol whose action is between two transitions
    account,     \* the AccountState of the cycle
    marks,       \* the mark_prices of the cycle
    asked,       \* history: what the mandates of this cycle demand
    interrupted  \* history: symbols whose action a crash cut in two

machineVars == <<positions, closing_trackers, positionRows, closingRows, up,
                 timedOut, closingAge, faults>>
vars == <<machineVars, todo, doing, account, marks, asked, interrupted>>

Machine == INSTANCE PositionMachine WITH FaultModels <- {{}}

Nobody == "nobody"
ASSUME NobodyAssumption == Nobody \notin Symbols

Nothing == [s \in Symbols |-> NoAction]
NoDemands == [exits |-> {}, blocked |-> {}]

-----------------------------------------------------------------------------
(* RiskCalculator and RiskMonitor                                          *)

Live == {s \in Symbols : positions[s].state /= "FLAT"}

\* calculate_total_leverage raises if a live symbol has no mark price.
MarksComplete == \A s \in Live : marks[s] /= NoneAmount

Exposure(s) == Machine!Abs(positions[s].quantity) * marks[s]

TotalExposure == MapThenSumSet(Exposure, Live)

\* The symbols check_and_emit looks at: not FLAT, not ENTERING.
Watched == {s \in Live : positions[s].state /= "ENTERING"}

\* None of the protective mandates carries a quantity.
Protective(s, type, authority) ==
    [symbol |-> s, type |-> type, authority |-> authority, direction |-> NoneSide,
     quantity |-> NoneAmount, entry_price |-> NoneAmount]

Alarms == {"none", "reduce", "exit"}

\* I-LA1, I-LA2, stop-loss and take-profit, by what they ask for the symbol.
AlarmMandates(alarm) ==
    {Protective(s, "EXIT", 10) : s \in {t \in Watched : alarm[t] = "exit"}}
    \union {Protective(s, "REDUCE", 9) : s \in {t \in Watched : alarm[t] = "reduce"}}

\* I-L2: exposure of one symbol over its share of the equity.
ExposureMandates ==
    {Protective(s, "REDUCE", 7) :
       s \in {t \in Watched : Exposure(t) > LSymbolMax * account.equity}}

\* I-L1: the BLOCK is addressed to the symbol "*", that no position has.
GlobalBlock ==
    IF TotalExposure > LMax * account.equity
    THEN {Protective("*", "BLOCK", 10)} ELSE {}

RiskMandates(alarm) == AlarmMandates(alarm) \union ExposureMandates \union GlobalBlock

\* process_cycle: the hint of the mandate, or the mark price, or 0.
PriceForRisk(s, action) ==
    IF action.entry_price /= NoneAmount THEN action.entry_price ELSE marks[s]

\* Mutant: I-L1 looks at the new position alone.
ValidEntryAlone(s, action) ==
    LET new == action.quantity * PriceForRisk(s, action)
    IN  /\ new <= LMax * account.equity
        /\ new <= LSymbolMax * account.equity
        /\ new <= LMax * account.margin_available

\* validate_entry: I-L1, I-L2, I-M1 and I-LA1, as products instead of ratios.
ValidEntry(s, action) ==
    LET new == action.quantity * PriceForRisk(s, action)
        projected == TotalExposure + new
    IN  /\ projected <= LMax * account.equity
        /\ new <= LSymbolMax * account.equity
        /\ new <= LMax * account.margin_available
        /\ projected <= LLiquidation * account.equity

-----------------------------------------------------------------------------
Init ==
    /\ Machine!Init
    /\ todo = Nothing
    /\ doing = Nobody
    /\ account \in Accounts
    /\ marks \in Marks
    /\ asked = NoDemands
    /\ interrupted = {}

Idle == up /\ doing = Nobody /\ todo = Nothing

(***************************************************************************)
(* Between cycles the collector replaces its account and its mark prices.  *)
(***************************************************************************)
Observe ==
    /\ Idle
    /\ account' \in Accounts
    /\ marks' \in Marks
    /\ asked' = NoDemands
    /\ UNCHANGED <<machineVars, todo, doing, interrupted>>

\* What the mandates of a cycle demand of the positions as they are.
Demands(mandates) ==
    [exits   |-> {s \in Symbols : positions[s].state = "OPEN"
                    /\ \E m \in OfType(mandates, "EXIT") : m.symbol = s},
     blocked |-> {s \in Symbols : positions[s].state = "FLAT"
                    /\ \E m \in OfType(mandates, "BLOCK") : m.symbol = s}]

\* Steps 1 and 2 of process_cycle: all mandates, then one action per symbol.
StartCycle(mandates, alarm) ==
    /\ Idle
    /\ MarksComplete
    /\ LET all == mandates \union RiskMandates(alarm)
           outcomes == [s \in Symbols |-> ArbitrateAll(all, s)]
       IN  /\ todo' \in {f \in [Symbols -> UNION {outcomes[s] : s \in Symbols}] :
                           \A s \in Symbols : f[s] \in outcomes[s]}
           /\ asked' = Demands(all)
    /\ UNCHANGED <<machineVars, doing, account, marks, interrupted>>

\* The risk check raises before anything is arbitrated.
RaiseCycle(mandates) ==
    /\ Idle
    /\ ~MarksComplete
    /\ asked' = Demands(mandates)
    /\ UNCHANGED <<machineVars, todo, doing, account, marks, interrupted>>

Drop(s) == todo' = [todo EXCEPT ![s] = NoAction]

CycleUnchanged == UNCHANGED <<account, marks, asked, interrupted>>

\* Mutant: EXIT is not accepted in OPEN.
ValidActionNoExit(state, type) ==
    \/ state = "FLAT" /\ type \in {"ENTRY", "HOLD"}
    \/ state = "OPEN" /\ type \in {"REDUCE", "HOLD"}

\* _is_valid_action: the transitional states accept nothing.
ValidAction(state, type) ==
    \/ state = "FLAT" /\ type \in {"ENTRY", "HOLD"}
    \/ state = "OPEN" /\ type \in {"EXIT", "REDUCE", "HOLD"}

Complete(action) == action.quantity > NoneAmount /\ action.direction /= NoneSide

\* The loop comes to an action that changes no position: refused, or HOLD.
Skip(s) ==
    /\ up /\ doing = Nobody /\ todo[s] /= NoAction
    /\ \/ /\ ~ValidAction(positions[s].state, todo[s].type)
          /\ todo[s].type /= "ENTRY" \/ MarksComplete
       \/ todo[s].type = "ENTRY" /\ ~Complete(todo[s])
       \/ todo[s].type = "ENTRY" /\ MarksComplete /\ ~ValidEntry(s, todo[s])
       \/ todo[s].type = "HOLD"
    /\ Drop(s)
    /\ UNCHANGED <<machineVars, doing>> /\ CycleUnchanged

\* validate_entry raises: the exception leaves process_cycle, and with it go
\* the actions of all the other symbols.
Abort(s) ==
    /\ up /\ doing = Nobody
    /\ todo[s].type = "ENTRY" /\ Complete(todo[s])
    /\ ~MarksComplete
    /\ todo' = Nothing
    /\ UNCHANGED <<machineVars, doing>> /\ CycleUnchanged

Accepts(s, type) ==
    /\ up /\ doing = Nobody
    /\ todo[s].type = type
    /\ ValidAction(positions[s].state, type)

BeginEntry(s) ==
    /\ Accepts(s, "ENTRY")
    /\ Complete(todo[s])
    /\ MarksComplete /\ ValidEntry(s, todo[s])
    /\ Machine!HandleEntry(s)
    /\ positions'[s].direction = todo[s].direction
    /\ doing' = s
    /\ UNCHANGED todo /\ CycleUnchanged

\* The entry price is the hint, or the mark price, or 1: always positive.
ConfirmEntry(s) ==
    /\ up /\ doing = s /\ todo[s].type = "ENTRY"
    /\ Machine!HandleEntrySuccess(s)
    /\ positions'[s].quantity = todo[s].quantity
    /\ positions'[s].entry_price = "positive"
    /\ doing' = Nobody
    /\ Drop(s) /\ CycleUnchanged

BeginExit(s) ==
    /\ Accepts(s, "EXIT")
    /\ Machine!HandleExit(s)
    /\ doing' = s
    /\ UNCHANGED todo /\ CycleUnchanged

\* Mutant: the ghost confirmation of an exit is missing.
ConfirmExitNever(s) ==
    /\ up /\ doing = s /\ todo[s].type = "EXIT"
    /\ doing' = Nobody
    /\ UNCHANGED machineVars
    /\ Drop(s) /\ CycleUnchanged

ConfirmExit(s) ==
    /\ up /\ doing = s /\ todo[s].type = "EXIT"
    /\ Machine!HandleExitSuccess(s)
    /\ doing' = Nobody
    /\ Drop(s) /\ CycleUnchanged

(***************************************************************************)
(* REDUCE moves to REDUCING, and then fails whatever the action says:      *)
(* without a quantity the result is a failure; a partial reduction passes  *)
(* `quantity` where the machine reads `new_quantity`; a full one asks for  *)
(* SUCCESS, which REDUCING does not know.  The last two raise, and are     *)
(* caught.                                                                 *)
(***************************************************************************)
BeginReduce(s) ==
    /\ Accepts(s, "REDUCE")
    /\ Machine!HandleReduce(s)
    /\ doing' = s
    /\ UNCHANGED todo /\ CycleUnchanged

ConfirmReduce(s) ==
    /\ up /\ doing = s /\ todo[s].type = "REDUCE"
    /\ doing' = Nobody
    /\ UNCHANGED machineVars
    /\ Drop(s) /\ CycleUnchanged

\* Mutant: the action in hand outlives the process.
CrashKeepsAction ==
    /\ Machine!Crash
    /\ interrupted' = interrupted \union (IF doing = Nobody THEN {} ELSE {doing})
    /\ asked' = NoDemands
    /\ UNCHANGED <<todo, doing, account, marks>>

Crash ==
    /\ Machine!Crash
    /\ interrupted' = interrupted \union (IF doing = Nobody THEN {} ELSE {doing})
    /\ todo' = Nothing
    /\ doing' = Nobody
    /\ asked' = NoDemands
    /\ UNCHANGED <<account, marks>>

Restart ==
    /\ Machine!Restart
    /\ UNCHANGED <<todo, doing>> /\ CycleUnchanged

Execute(s) ==
    \/ Skip(s) \/ Abort(s)
    \/ BeginEntry(s) \/ ConfirmEntry(s)
    \/ BeginExit(s) \/ ConfirmExit(s)
    \/ BeginReduce(s) \/ ConfirmReduce(s)

Next ==
    \/ Observe
    \/ \E mandates \in UNION {kSubset(k, Mandates) : k \in 0..MaxMandates} :
         \/ RaiseCycle(mandates)
         \/ \E alarm \in [Watched -> Alarms] : StartCycle(mandates, alarm)
    \/ \E s \in Symbols : Execute(s)
    \/ Crash \/ Restart

Spec == Init /\ [][Next]_vars

-----------------------------------------------------------------------------
(* Properties                                                              *)

\* Types, and what ties the cycle to the machine: the symbol being worked on
\* is the one whose transition is half done.
TypeOK ==
    /\ Machine!TypeOK
    /\ DOMAIN todo = Symbols
    /\ \A s \in Symbols : todo[s].type \in (MandateTypes \ {"BLOCK"}) \union {"NO_ACTION"}
    /\ doing \in Symbols \union {Nobody}
    /\ account \in Accounts /\ marks \in Marks
    /\ asked.exits \subseteq Symbols /\ asked.blocked \subseteq Symbols
    /\ interrupted \subseteq Symbols
    /\ doing /= Nobody =>
         positions[doing].state = CASE todo[doing].type = "ENTRY"  -> "ENTERING"
                                    [] todo[doing].type = "EXIT"   -> "CLOSING"
                                    [] todo[doing].type = "REDUCE" -> "REDUCING"

\* A cycle settles what it starts: between cycles ENTERING and CLOSING are only
\* found where a crash cut an action in two (the "ghost" confirmations).
CyclesSettle ==
    Idle => \A s \in Symbols \ interrupted :
              positions[s].state \notin {"ENTERING", "CLOSING"}

\* EXIT supremacy, end to end (arbitrator.py, Theorem 2.2): a position that was
\* OPEN when an EXIT was mandated is FLAT after the cycle, whatever else was
\* mandated for it, unless a live symbol without a mark price ended the cycle.
ExitsTakeEffect ==
    Idle /\ MarksComplete => \A s \in asked.exits : positions[s].state = "FLAT"

\* BLOCK prevents ENTRY (Theorem 2.3): no position is taken in a symbol that a
\* BLOCK named in the cycle.
BlocksPreventEntry ==
    \A s \in asked.blocked : positions[s].state = "FLAT"

\* I-L1 over a whole cycle: each entry at the mark price leaves the leverage
\* within L_max, with the entries executed before it counted.
EntriesRespectLeverage ==
    [][ \A s \in Symbols :
          (/\ positions[s].state = "ENTERING" /\ positions'[s].state = "OPEN"
           /\ marks[s] /= NoneAmount
           /\ todo[s].entry_price \in {NoneAmount, marks[s]})
          => TotalExposure' <= LMax * account.equity ]_vars

\* Theorem 8.1, "System cannot enter a state where no action is valid": between
\* cycles every symbol has an action that the controller would accept.
SomeActionIsValid ==
    (Idle /\ interrupted = {})
    => \A s \in Symbols : \E type \in MandateTypes : ValidAction(positions[s].state, type)

\* "Symbol-local execution (independent processing)": an EXIT for an OPEN
\* position that has a mark price is executed, whatever the other symbols do.
ExitsAreLocal ==
    Idle => \A s \in asked.exits : marks[s] /= NoneAmount => positions[s].state = "FLAT"
=============================================================================
