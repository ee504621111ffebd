--------------------------- MODULE CapitalGovernor ---------------------------
(***************************************************************************)
(* runtime/governance: the sovereign capital governor with the two parts   *)
(* it asks first, the quarantine controller and the anti-euphoria engine.  *)
(* Every evaluation asks them in that order and decides by confidence only *)
(* if neither holds it back.  The caller saves the governor's state after  *)
(* each call, and restores it after a restart.                             *)
(*                                                                         *)
(* Times are ages and remaining times, advanced by GovernorClock.  A risk  *)
(* is the value of the trigger that was found, NoRisk for none.  Fractions *)
(* of capital and multipliers, which follow from the decision, and reasons *)
(* are left out.                                                           *)
(***************************************************************************)
EXTENDS Integers

CONSTANTS
    Risks,          \* values a trigger may have
    Equities,       \* equities, of now and of the peak
    Stability,      \* stability_period_ns
    AthFreeze,      \* ath_freeze_duration_ns
    HeatFreeze,     \* win_streak_ and profit_spike_freeze_duration_ns
    ManualFreezes   \* durations given to force_freeze

ASSUME GovernorAssumption ==
    /\ Risks \subseteq Nat \ {0} /\ Equities \subseteq Nat \ {0}
    /\ Stability \in Nat /\ AthFreeze \in Nat \ {0} /\ HeatFreeze \in Nat \ {0}
    /\ ManualFreezes \subseteq Nat \ {0}

VARIABLES
    quarantine,  \* the QuarantineController
    frozen,      \* time until _freeze_until_ns, 0 if there is none
    lastPeak,    \* _last_peak_equity
    scaling,     \* _scaling_state, which only a free decision writes
    decision,    \* the last decision returned, or "none" since the start
    riskAge,     \* history: time since an evaluation found a risk, or one was declared
    announced    \* history: time until the latest freeze_until_ns announced since
                 \* an operator last froze, that one included

governorVars == <<quarantine, frozen, lastPeak, scaling, decision, riskAge, announced>>

NoRisk == 0
Unstable == -1
Released == [active |-> FALSE, locked |-> 0, value |-> NoRisk, stable |-> Unstable]
Free == {"GROW", "HOLD", "SHRINK"}
Decisions == Free \union {"FREEZE", "QUARANTINE"}

SmallerOf(m, n) == IF m < n THEN m ELSE n
LargerOf(m, n) == IF m > n THEN m ELSE n

GovernorInit ==
    /\ quarantine = Released
    /\ frozen = 0
    /\ lastPeak = 0
    /\ scaling = "HOLD"
    /\ decision = "none"
    /\ riskAge = Stability
    /\ announced = 0

-----------------------------------------------------------------------------
(* QuarantineController; shares of the capital are per mille.              *)

\* Mutant: a risk that returns does not stop the stability period.
ActivateStillStable(q, risk) ==
    [active |-> TRUE,
     locked |-> IF ~q.active THEN 250
                ELSE IF 2 * risk > 3 * q.value THEN SmallerOf(500, (3 * q.locked) \div 2)
                ELSE q.locked,
     value |-> risk, stable |-> q.stable]

\* _activate_quarantine: half as much again as the last risk escalates.
Activate(q, risk) ==
    [active |-> TRUE,
     locked |-> IF ~q.active THEN 250
                ELSE IF 2 * risk > 3 * q.value THEN SmallerOf(500, (3 * q.locked) \div 2)
                ELSE q.locked,
     value |-> risk, stable |-> Unstable]

\* _check_release: the period starts with the first evaluation without risk.
CheckRelease(q) ==
    IF q.stable = Unstable THEN [q EXCEPT !.stable = 0]
    ELSE IF q.stable >= Stability THEN Released
    ELSE q

QuarantineAfter(risk) ==
    IF risk /= NoRisk THEN Activate(quarantine, risk)
    ELSE IF quarantine.active THEN CheckRelease(quarantine)
    ELSE quarantine

\* force_activate and force_release, called on the controller itself.
ForceActivate(locked) ==
    /\ quarantine' = [active |-> TRUE, locked |-> locked, value |-> NoRisk, stable |-> Unstable]
    /\ riskAge' = 0
    /\ UNCHANGED <<frozen, lastPeak, scaling, decision, announced>>

ForceRelease ==
    /\ quarantine' = Released
    /\ riskAge' = Stability
    /\ UNCHANGED <<frozen, lastPeak, scaling, decision, announced>>

-----------------------------------------------------------------------------
(* AntiEuphoriaEngine and the evaluation                                   *)

NewHigh(equity) == lastPeak > 0 /\ equity > lastPeak

\* check_euphoria: a new high hides a streak or a profitable day, and is the
\* only case in which the peak is not that of the inputs.
FreezeFor(equity, heated) ==
    IF NewHigh(equity) THEN AthFreeze ELSE IF heated THEN HeatFreeze ELSE 0

PeakAfter(equity, peak) ==
    IF NewHigh(equity) THEN equity ELSE IF peak > lastPeak THEN peak ELSE lastPeak

\* evaluate: a quarantine leaves the engine unasked, a freeze the peak unseen.
Evaluate(risk, equity, peak, heated, confidence) ==
    /\ quarantine' = QuarantineAfter(risk)
    /\ riskAge' = IF risk /= NoRisk THEN 0 ELSE riskAge
    /\ \/ /\ quarantine'.active
          /\ decision' = "QUARANTINE"
          /\ UNCHANGED <<frozen, lastPeak, scaling, announced>>
       \/ /\ ~quarantine'.active /\ frozen > 0
          /\ decision' = "FREEZE"
          /\ announced' = LargerOf(announced, frozen)
          /\ UNCHANGED <<frozen, lastPeak, scaling>>
       \/ /\ ~quarantine'.active /\ frozen = 0
          /\ lastPeak' = PeakAfter(equity, peak)
          /\ frozen' = FreezeFor(equity, heated)
          /\ IF frozen' > 0
             THEN /\ decision' = "FREEZE"
                  /\ announced' = LargerOf(announced, frozen')
                  /\ UNCHANGED scaling
             ELSE decision' = confidence /\ scaling' = confidence /\ UNCHANGED announced

Evaluates ==
    \E risk \in Risks \union {NoRisk}, equity \in Equities, peak \in Equities,
       heated \in BOOLEAN, confidence \in Free :
          Evaluate(risk, equity, peak, heated, confidence)

\* A manual freeze replaces the one there is, be it longer: what was announced
\* before it no longer counts.
ForceFreeze(duration) ==
    /\ frozen' = duration
    /\ announced' = duration
    /\ decision' = "FREEZE"
    /\ UNCHANGED <<quarantine, lastPeak, scaling, riskAge>>

\* Mutant: the freeze is not among what was saved.
RestoreThawed ==
    /\ quarantine' = IF quarantine.active
                     THEN [quarantine EXCEPT !.value = NoRisk, !.stable = Unstable]
                     ELSE Released
    /\ frozen' = 0
    /\ decision' = "none"
    /\ UNCHANGED <<lastPeak, scaling, riskAge, announced>>

\* restore_state with what was saved: the risk that caused a quarantine and
\* the stability proven so far are not among it.
RestoreState ==
    /\ quarantine' = IF quarantine.active
                     THEN [quarantine EXCEPT !.value = NoRisk, !.stable = Unstable]
                     ELSE Released
    /\ decision' = "none"
    /\ UNCHANGED <<frozen, lastPeak, scaling, riskAge, announced>>

Less(n) == IF n > 0 THEN n - 1 ELSE 0

GovernorClock ==
    /\ quarantine' = [quarantine EXCEPT !.stable =
                        IF @ = Unstable THEN @ ELSE SmallerOf(@ + 1, Stability)]
    /\ riskAge' = SmallerOf(riskAge + 1, Stability)
    /\ frozen' = Less(frozen)
    /\ announced' = Less(announced)
    /\ UNCHANGED <<lastPeak, scaling, decision>>

GovernorNext ==
    \/ Evaluates
    \/ \E locked \in {250, 500} : ForceActivate(locked)
    \/ ForceRelease
    \/ \E duration \in ManualFreezes : ForceFreeze(duration)
    \/ RestoreState
    \/ GovernorClock

GovernorSpec == GovernorInit /\ [][GovernorNext]_governorVars

-----------------------------------------------------------------------------
Shares == {0, 250, 375, 500}

\* Types; capital is locked exactly while the quarantine is active, and only
\* then has stability an age.
GovernorTypeOK ==
    /\ quarantine \in [active : BOOLEAN, locked : Shares, value : Risks \union {NoRisk},
                       stable : Unstable..Stability]
    /\ quarantine.active <=> quarantine.locked > 0
    /\ quarantine.active \/ quarantine = Released
    /\ frozen \in Nat
    /\ lastPeak \in Equities \union {0}
    /\ scaling \in Free
    /\ decision \in Decisions \union {"none"}
    /\ riskAge \in 0..Stability
    /\ announced \in Nat

\* A decision that is neither QUARANTINE nor FREEZE is made only when no risk
\* was found for the whole stability period, unless an operator released the
\* quarantine; and when every freeze has ended that was announced since an
\* operator last froze, that operator's included: no evaluation, quarantine or
\* restart ends one early, whichever began first.  An operator does: a
\* force_freeze of an hour ends a freeze of a day, and what the longer one
\* announced is not claimed (evaluate, _check_release, is_frozen, force_freeze).
FreeOnlyWhenCalm ==
    [][Evaluates /\ decision' \in Free => riskAge >= Stability /\ announced = 0]_governorVars
=============================================================================
