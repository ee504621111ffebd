------------------------- MODULE DegradationManager -------------------------
(***************************************************************************)
(* runtime/risk/degradation.py: triggers that come and go, the level they  *)
(* ask for, and transitions that may be refused.  A refused transition is  *)
(* not tried again before the triggers change.  Every method runs under    *)
(* the manager's lock; time is whether min_recovery_time_ms have passed    *)
(* since the level was entered.  Events and callbacks are left out.        *)
(***************************************************************************)
EXTENDS Naturals

CONSTANT RequireManualReset  \* require_manual_reset

ASSUME ResetAssumption == RequireManualReset \in BOOLEAN

VARIABLES
    level,       \* the DegradationLevel, as a number
    triggers,    \* the active triggers
    rested,      \* min_recovery_time_ms have passed at this level
    overridden,  \* history: an operator has set the level since it was last computed
    errorRate    \* history: the last error rate checked, as the level that the
                 \* comments of DegradationConfig give it (45-47)

degradationVars == <<level, triggers, rested, overridden, errorRate>>

NormalLevel == 0
Reduced == 1
Emergency == 2
Shutdown == 3
Levels == NormalLevel..Shutdown

Triggers == {"CIRCUIT_BREAKER_TRIPPED", "DATA_QUALITY_POOR", "COMPONENT_UNHEALTHY",
             "HIGH_DRAWDOWN", "EXCESSIVE_ERRORS", "EXCHANGE_ISSUES", "MANUAL_INTERVENTION",
             "RESOURCE_EXHAUSTION"}
Manual == "MANUAL_INTERVENTION"
Errors == "EXCESSIVE_ERRORS"

DegradationTypeOK ==
    /\ level \in Levels
    /\ triggers \subseteq Triggers
    /\ rested \in BOOLEAN
    /\ overridden \in BOOLEAN
    /\ errorRate \in Levels

DegradationInit ==
    /\ level = NormalLevel
    /\ triggers = {}
    /\ rested = TRUE  \* _level_since is 0
    /\ overridden = FALSE
    /\ errorRate = NormalLevel

-----------------------------------------------------------------------------
\* The level a set of triggers without MANUAL_INTERVENTION asks for.
Demanded(active) ==
    IF active = {} THEN NormalLevel
    ELSE IF active \intersect {"EXCHANGE_ISSUES", "RESOURCE_EXHAUSTION"} /= {} THEN Shutdown
    ELSE IF active \intersect {"CIRCUIT_BREAKER_TRIPPED", "HIGH_DRAWDOWN"} /= {} THEN Emergency
    ELSE Reduced

\* Mutant: every change of level has to wait, worse levels too.
MayMoveRested(new) ==
    /\ rested
    /\ level = Shutdown => ~RequireManualReset

\* _transition_level: only what is worse need not wait.
MayMove(new) ==
    /\ rested \/ new >= level
    /\ level = Shutdown => ~RequireManualReset

TransitionLevel(new) ==
    IF MayMove(new) THEN level' = new /\ rested' = FALSE ELSE UNCHANGED <<level, rested>>

\* _recalculate_level: an operator's intervention keeps the level.
RecalculateLevel ==
    IF Manual \in triggers' THEN UNCHANGED <<level, rested, overridden>>
    ELSE /\ overridden' = FALSE
         /\ IF Demanded(triggers') = level THEN UNCHANGED <<level, rested>>
            ELSE TransitionLevel(Demanded(triggers'))

\* add_trigger, which returns early for a trigger that is active already.
Added(t) ==
    IF t \in triggers THEN UNCHANGED <<level, triggers, rested, overridden>>
    ELSE triggers' = triggers \union {t} /\ RecalculateLevel

Removed(t) ==
    IF t \notin triggers THEN UNCHANGED <<level, triggers, rested, overridden>>
    ELSE triggers' = triggers \ {t} /\ RecalculateLevel

AddTrigger(t) == Added(t) /\ UNCHANGED errorRate

RemoveTrigger(t) ==
    /\ Removed(t)
    /\ errorRate' = IF t = Errors THEN NormalLevel ELSE errorRate

\* Each of the three thresholds adds the same trigger, and a rate that rises
\* further finds it active.
CheckErrorRate(rate) ==
    /\ IF rate = NormalLevel THEN Removed(Errors) ELSE Added(Errors)
    /\ errorRate' = rate

SetLevel(new) ==
    /\ triggers' = IF new = Shutdown THEN triggers \union {Manual} ELSE triggers
    /\ overridden' = TRUE
    /\ TransitionLevel(new)
    /\ UNCHANGED errorRate

Reset(force) ==
    /\ level = Shutdown => force \/ ~RequireManualReset
    /\ triggers' = {}
    /\ level' = NormalLevel
    /\ rested' = FALSE
    /\ overridden' = FALSE
    /\ errorRate' = NormalLevel

TimePasses ==
    /\ rested' = TRUE
    /\ UNCHANGED <<level, triggers, overridden, errorRate>>

DegradationNext ==
    \/ \E t \in Triggers : AddTrigger(t) \/ RemoveTrigger(t)
    \/ \E rate \in Levels : CheckErrorRate(rate)
    \/ \E new \in Levels : SetLevel(new)
    \/ \E force \in BOOLEAN : Reset(force)
    \/ TimePasses

DegradationSpec == DegradationInit /\ [][DegradationNext]_degradationVars

-----------------------------------------------------------------------------
\* What each trigger asks for by itself, by the lists of _recalculate_level.
AsksFor(t) ==
    CASE t \in {"EXCHANGE_ISSUES", "RESOURCE_EXHAUSTION"} -> Shutdown
      [] t \in {"CIRCUIT_BREAKER_TRIPPED", "HIGH_DRAWDOWN"} -> Emergency
      [] OTHER -> Reduced

\* Unless an operator intervenes, the level is never better than any of the
\* active triggers asks for by itself, although recalculations are skipped
\* while one intervenes, and refused when they come too early or in SHUTDOWN
\* (add_trigger, remove_trigger, _transition_level).  Of an error rate beyond
\* a threshold it says REDUCED or worse, whatever threshold: that 25% mean
\* EMERGENCY and 50% SHUTDOWN, as the comments of DegradationConfig have it
\* (46, 47), is not so, and level >= errorRate would not hold.
LevelCoversTriggers ==
    Manual \notin triggers /\ ~overridden =>
        /\ \A t \in triggers : level >= AsksFor(t)
        /\ errorRate /= NormalLevel => level >= Reduced
=============================================================================
