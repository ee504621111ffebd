--------------------------- MODULE DrawdownTracker ---------------------------
(***************************************************************************)
(* runtime/risk/drawdown_tracker.py as operators on a tracker: four checks *)
(* that write one state, one after the other, and the resets that undo it. *)
(* Every method runs under the tracker's lock, so that each is one step.   *)
(* Amounts are integers and limits percentages; events, callbacks and      *)
(* statistics are left out.                                                *)
(***************************************************************************)
EXTENDS Integers

CONSTANTS
    DailyPct, DailyWarningPct,    \* daily_loss_limit_pct, daily_warning_pct
    WeeklyPct, WeeklyWarningPct,  \* weekly_loss_limit_pct, weekly_warning_pct
    MaxDrawdownPct, RecoveryPct,  \* max_drawdown_pct, recovery_drawdown_pct
    LossWarning, LossReduced, LossHalt,  \* consecutive_loss_*
    RecoveryWins                  \* recovery_wins_required

ASSUME LimitsAssumption ==
    /\ {DailyPct, DailyWarningPct, WeeklyPct, WeeklyWarningPct,
        MaxDrawdownPct, RecoveryPct} \subseteq Nat
    /\ {LossWarning, LossReduced, LossHalt, RecoveryWins} \subseteq Nat \ {0}

DrawdownStates == {"NORMAL", "WARNING", "DAILY_COOLDOWN", "WEEKLY_COOLDOWN",
                   "REDUCED_RISK", "MAXIMUM_DRAWDOWN"}
CooldownReasons == {"DAILY_LOSS", "WEEKLY_LOSS", "CONSECUTIVE_LOSS"}
Trackers == [capital : Int, peak : Int, day : Int, week : Int, losses : Nat, wins : Nat,
             state : DrawdownStates, reason : CooldownReasons \union {"none"}]

NewTracker(capital) ==
    [capital |-> capital, peak |-> capital, day |-> capital, week |-> capital,
     losses |-> 0, wins |-> 0, state |-> "NORMAL", reason |-> "none"]

Moved(t, state, reason) == [t EXCEPT !.state = state, !.reason = reason]
Noted(t, state) == IF t.state = "NORMAL" THEN [t EXCEPT !.state = state] ELSE t

\* Whether capital is more than pct below a positive reference.
Below(reference, capital, pct) ==
    reference > 0 /\ 100 * (reference - capital) > pct * reference

-----------------------------------------------------------------------------
(* The four checks                                                         *)

\* A streak halts, reduces or warns; the last two only from NORMAL.
Streak(t) ==
    IF t.losses >= LossHalt
    THEN IF t.state = "DAILY_COOLDOWN" THEN t
         ELSE Moved(t, "DAILY_COOLDOWN", "CONSECUTIVE_LOSS")
    ELSE IF t.losses >= LossReduced THEN Noted(t, "REDUCED_RISK")
    ELSE IF t.losses >= LossWarning THEN Noted(t, "WARNING")
    ELSE t

StreakHalted(t) == t.state = "DAILY_COOLDOWN" /\ t.reason = "CONSECUTIVE_LOSS"

StreakBroken(t) ==
    IF (t.state = "REDUCED_RISK" /\ t.wins >= RecoveryWins) \/ (StreakHalted(t) /\ t.wins >= 1)
    THEN Moved(t, "NORMAL", "none") ELSE t

CheckConsecutiveLosses(t) == StreakBroken(Streak(t))

CheckDailyLimit(t) ==
    IF Below(t.day, t.capital, DailyPct)
    THEN IF t.state \in {"DAILY_COOLDOWN", "WEEKLY_COOLDOWN"} THEN t
         ELSE Moved(t, "DAILY_COOLDOWN", "DAILY_LOSS")
    ELSE IF Below(t.day, t.capital, DailyWarningPct) THEN Noted(t, "WARNING") ELSE t

CheckWeeklyLimit(t) ==
    IF Below(t.week, t.capital, WeeklyPct)
    THEN IF t.state = "WEEKLY_COOLDOWN" THEN t
         ELSE Moved(t, "WEEKLY_COOLDOWN", "WEEKLY_LOSS")
    ELSE IF Below(t.week, t.capital, WeeklyWarningPct) THEN Noted(t, "WARNING") ELSE t

Recovered(t) ==
    t.peak > 0 /\ t.state = "MAXIMUM_DRAWDOWN" /\ 100 * (t.peak - t.capital) < RecoveryPct * t.peak

\* Mutant: the reason of an earlier cooldown is kept.
CheckDrawdownKeepsReason(t) ==
    IF Below(t.peak, t.capital, MaxDrawdownPct) THEN [t EXCEPT !.state = "MAXIMUM_DRAWDOWN"]
    ELSE IF Recovered(t) THEN [t EXCEPT !.state = "NORMAL"] ELSE t

CheckDrawdownLimits(t) ==
    IF Below(t.peak, t.capital, MaxDrawdownPct) THEN [t EXCEPT !.state = "MAXIMUM_DRAWDOWN"]
    ELSE IF Recovered(t) THEN Moved(t, "NORMAL", "none") ELSE t

-----------------------------------------------------------------------------
(* The operations                                                          *)

WithCapital(t, capital) ==
    [t EXCEPT !.capital = capital, !.peak = IF capital > @ THEN capital ELSE @]

UpdateCapital(t, capital) == CheckDrawdownLimits(WithCapital(t, capital))

\* A trade that neither wins nor loses leaves both streaks alone.
Counted(t, pnl) ==
    [WithCapital(t, t.capital + pnl) EXCEPT
        !.wins = IF pnl > 0 THEN @ + 1 ELSE IF pnl < 0 THEN 0 ELSE @,
        !.losses = IF pnl > 0 THEN 0 ELSE IF pnl < 0 THEN @ + 1 ELSE @]

\* Mutant: the streak is checked after the daily limit.
RecordTradeStreakLast(t, pnl) ==
    CheckDrawdownLimits(CheckWeeklyLimit(CheckConsecutiveLosses(CheckDailyLimit(Counted(t, pnl)))))

RecordTrade(t, pnl) ==
    CheckDrawdownLimits(CheckWeeklyLimit(CheckDailyLimit(CheckConsecutiveLosses(Counted(t, pnl)))))

\* A halt that a losing streak caused outlasts the day.
ResetDaily(t) ==
    IF t.state = "DAILY_COOLDOWN" /\ t.reason /= "CONSECUTIVE_LOSS"
    THEN [Moved(t, "NORMAL", "none") EXCEPT !.day = t.capital]
    ELSE [t EXCEPT !.day = t.capital]

ResetWeekly(t) ==
    IF t.state = "WEEKLY_COOLDOWN"
    THEN [Moved(t, "NORMAL", "none") EXCEPT !.week = t.capital]
    ELSE [t EXCEPT !.week = t.capital]

ForceClear(t) ==
    IF StreakHalted(t) THEN [Moved(t, "NORMAL", "none") EXCEPT !.losses = 0] ELSE t

TradingAllowed(t) == t.state \notin {"DAILY_COOLDOWN", "WEEKLY_COOLDOWN"}

\* get_size_multiplier, in percent of the halves and quarters configured.
SizeMultiplier(t) ==
    CASE t.state = "MAXIMUM_DRAWDOWN" -> 25
      [] t.state = "REDUCED_RISK" -> 50
      [] t.state \in {"DAILY_COOLDOWN", "WEEKLY_COOLDOWN"} -> 0
      [] t.state \in {"NORMAL", "WARNING"} -> 100
=============================================================================
