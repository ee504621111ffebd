--------------------------- MODULE OperatorLatches ---------------------------
(***************************************************************************)
(* The two latches that only an operator may release, and the gate he has  *)
(* to pass: PersistentKillSwitch of runtime/risk/circuit_breaker.py,       *)
(* SovereignMetaGovernor and OperatorGate of runtime/governance.  Callers  *)
(* follow the usage the gate documents: request, verify, proceed.  Nothing *)
(* ties the three together, so that anything may happen in between; the    *)
(* gate and its cooldowns are lost in a crash.                             *)
(*                                                                         *)
(* The switch saves itself, and an error of its database is swallowed: a   *)
(* switch that cannot be loaded is not triggered.  The governor is saved   *)
(* by its caller, or not.  What the gate lists as pending decides nothing  *)
(* and is left out, as are trust-gated actions, which release no latch.    *)
(* How the sub-scores of trust are calculated is left out: the lowest of   *)
(* them is in one of four ranges.                                          *)
(***************************************************************************)
EXTENDS Integers

CONSTANTS
    Operators,   \* callers that may release a latch at the same time
    Cooldown     \* cooldown_ns

ASSUME CooldownAssumption == Cooldown \in Nat

VARIABLES
    process,        \* the process is up
    killed,         \* _state.triggered of the switch
    killRow,        \* triggered in hl_kill_switch_state
    trust,          \* the governor's _trust_state and _requires_manual_reset
    trustRow,       \* hl_meta_governor_state
    coolingDown,    \* time until each release may be requested again
    operator,       \* how far each operator is
    standing,       \* history: latches closed, and not released by an operator since
    mislaid         \* history: latches whose closing was not saved, or not loaded, since

latches == <<killed, trust>>
tables == <<killRow, trustRow>>
claims == <<standing, mislaid>>
latchVars == <<process, latches, tables, coolingDown, operator, claims>>

Latches == {"kill_switch", "meta_governor"}
TrustStates == {"OPERATIONAL", "DEGRADED", "WARNING", "CRITICAL", "UNKNOWN_THREAT"}
TrustRecords == [state : TrustStates, locked : BOOLEAN]
Trusting == [state |-> "OPERATIONAL", locked |-> FALSE]

Away == [stage |-> "away", latch |-> "kill_switch"]

LatchInit ==
    /\ process = TRUE
    /\ killed = FALSE /\ killRow = FALSE
    /\ trust = Trusting /\ trustRow = Trusting
    /\ coolingDown = [l \in Latches |-> 0]
    /\ operator = [o \in Operators |-> Away]
    /\ standing = {} /\ mislaid = {}

\* A latch that closes is mislaid as long as its row does not say so.
Accounted(l, closed, saved) ==
    mislaid' = IF ~closed THEN mislaid ELSE IF saved THEN mislaid \ {l} ELSE mislaid \union {l}

-----------------------------------------------------------------------------
(* The kill switch                                                         *)

\* _save_state, which may fail unnoticed.
SaveSwitch ==
    /\ killRow' \in {killed', killRow}
    /\ Accounted("kill_switch", killed', killRow')

\* trigger: one that finds the switch triggered is not even saved again.
Trigger ==
    /\ process
    /\ killed' = TRUE
    /\ IF killed THEN UNCHANGED <<killRow, mislaid>> ELSE SaveSwitch
    /\ standing' = standing \union {"kill_switch"}
    /\ UNCHANGED <<process, trust, trustRow, coolingDown, operator>>

ResetSwitch ==
    /\ killed' = FALSE
    /\ IF killed THEN SaveSwitch ELSE UNCHANGED <<killRow, mislaid>>
    /\ UNCHANGED <<trust, trustRow>>

-----------------------------------------------------------------------------
(* The meta governor                                                       *)

EntriesTrusted == trust.state \in {"OPERATIONAL", "DEGRADED", "WARNING"}

SaveTrust ==
    /\ trustRow' \in {trust', trustRow}
    /\ Accounted("meta_governor", trust'.locked, trustRow'.locked)

\* Mutant: a good score is believed while a manual reset is required.
TrustAfterUnlatched(finding) ==
    [state |-> finding, locked |-> finding \in {"CRITICAL", "UNKNOWN_THREAT"}]

\* evaluate: an unknown threat is asked about before the score.
TrustAfter(finding) ==
    IF trust.locked THEN trust
    ELSE [state |-> finding, locked |-> finding \in {"CRITICAL", "UNKNOWN_THREAT"}]

\* The caller may report the switch as an input: triggered, it is CRITICAL.
EvaluateTrust(finding) ==
    /\ process
    /\ trust' = TrustAfter(finding)
    /\ standing' = IF ~trust.locked /\ trust'.locked
                   THEN standing \union {"meta_governor"} ELSE standing
    /\ SaveTrust
    /\ UNCHANGED <<process, killed, killRow, coolingDown, operator>>

ResetTrust ==
    /\ trust' = [state |-> "DEGRADED", locked |-> FALSE]
    /\ SaveTrust
    /\ UNCHANGED <<killed, killRow>>

-----------------------------------------------------------------------------
(* The gate and the operators                                              *)

RequestConfirmation(o, l) ==
    /\ process
    /\ operator[o].stage = "away" /\ coolingDown[l] = 0
    /\ operator' = [operator EXCEPT ![o] = [stage |-> "requested", latch |-> l]]
    /\ UNCHANGED <<process, latches, tables, coolingDown, claims>>

\* verify_confirmation: the cooldown is not looked at again.
VerifyConfirmation(o, right) ==
    /\ process
    /\ operator[o].stage = "requested"
    /\ IF right
       THEN /\ operator' = [operator EXCEPT ![o].stage = "confirmed"]
            /\ coolingDown' = [coolingDown EXCEPT ![operator[o].latch] = Cooldown]
       ELSE /\ operator' = [operator EXCEPT ![o] = Away]
            /\ UNCHANGED coolingDown
    /\ UNCHANGED <<process, latches, tables, claims>>

\* The operator who was confirmed resets the latch; what closed it a second
\* time since then is released with it.
Release(o) ==
    /\ process
    /\ operator[o].stage = "confirmed"
    /\ operator' = [operator EXCEPT ![o] = Away]
    /\ standing' = standing \ {operator[o].latch}
    /\ CASE operator[o].latch = "kill_switch" -> ResetSwitch
         [] operator[o].latch = "meta_governor" -> ResetTrust
    /\ UNCHANGED <<process, coolingDown>>

GateClock ==
    /\ coolingDown' = [l \in Latches |-> IF coolingDown[l] > 0 THEN coolingDown[l] - 1 ELSE 0]
    /\ UNCHANGED <<process, latches, tables, operator, claims>>

-----------------------------------------------------------------------------
ProcessDies ==
    /\ process
    /\ process' = FALSE
    /\ killed' = FALSE /\ trust' = Trusting
    /\ coolingDown' = [l \in Latches |-> 0]
    /\ operator' = [o \in Operators |-> Away]
    /\ UNCHANGED <<tables, claims>>

\* _load_state and restore_state.
ProcessStarts ==
    /\ ~process
    /\ process' = TRUE
    /\ trust' = trustRow
    /\ \/ killed' = killRow /\ UNCHANGED mislaid
       \/ killed' = FALSE /\ mislaid' = mislaid \union {"kill_switch"}
    /\ UNCHANGED <<tables, coolingDown, operator, standing>>

LatchNext ==
    \/ Trigger
    \/ \E finding \in TrustStates : EvaluateTrust(finding)
    \/ \E o \in Operators :
          \/ \E l \in Latches : RequestConfirmation(o, l)
          \/ \E right \in BOOLEAN : VerifyConfirmation(o, right)
          \/ Release(o)
    \/ GateClock
    \/ ProcessDies \/ ProcessStarts

LatchSpec == LatchInit /\ [][LatchNext]_latchVars

-----------------------------------------------------------------------------
\* Types; the governor requires a reset exactly while it trusts no entry.
LatchTypeOK ==
    /\ process \in BOOLEAN
    /\ killed \in BOOLEAN /\ killRow \in BOOLEAN
    /\ trust \in TrustRecords /\ trustRow \in TrustRecords
    /\ trust.locked <=> ~EntriesTrusted
    /\ coolingDown \in [Latches -> 0..Cooldown]
    /\ operator \in [Operators -> [stage : {"away", "requested", "confirmed"}, latch : Latches]]
    /\ standing \subseteq Latches /\ mislaid \subseteq Latches

Closed(l) == IF l = "kill_switch" THEN killed ELSE trust.locked /\ ~EntriesTrusted

\* Once triggered, or once a score was critical or a threat unknown, the latch
\* denies entries until an operator whom the gate confirmed has released it, over
\* restarts, later scores, other operators and repeated triggers, unless the
\* database failed in between ("Kill switch that survives restarts",
\* circuit_breaker.py; _requires_manual_reset of the meta governor).
LatchesHold ==
    process => \A l \in standing \ mislaid : Closed(l)
=============================================================================
