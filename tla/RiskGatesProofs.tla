--------------------------- MODULE RiskGatesProofs ---------------------------
(***************************************************************************)
(* Theorems about the gates of RiskGates, each for its own specification   *)
(* and for all values of the constants: what NORMAL means to the           *)
(* catastrophe handler, what the degradation manager's level covers, what  *)
(* is left of the four checks of the drawdown tracker, what the capital    *)
(* manager's approvals fit, what trips the rapid-loss breaker, when the    *)
(* capital governor decides freely, and what the operator's latches hold.  *)
(* A behaviour of RiskGates is one of each gate, so that these hold of it, *)
(* and its types are those of the gates.                                   *)
(***************************************************************************)
EXTENDS RiskGates, FiniteSums, TLAPS

-----------------------------------------------------------------------------
(* CatastropheHandler                                                      *)

\* Failures never improve the state, so that a storm leaves NORMAL.
LEMMA WorseThanNormal ==
    ASSUME NEW from \in Severities, NEW failure \in FailureTypes
    PROVE  /\ Worse(from, failure) \in Severities
           /\ Worse(from, failure) = "NORMAL" => from = "NORMAL"
  BY DEF Worse, Severities, FailureTypes

LEMMA StormsAreNoticed ==
    ASSUME NEW from \in Severities, NEW k \in Counters
    PROVE  Worse(from, Storm[k]) \in Severities \ {"NORMAL"}
  BY DEF Worse, Severities, Storm, Counters

\* The types of the handler's state, and what NORMAL means, together:
\* neither needs the other to be kept, but the counters' range does.
CatastropheInvariant == CatastropheTypeOK /\ NormalStartsAfresh

LEMMA CatastropheHolds == CatastropheSpec => []CatastropheInvariant
<1>1. CatastropheInit => CatastropheInvariant
  BY ThresholdsAssumption, CountAssumption
  DEF CatastropheInit, CatastropheInvariant, CatastropheTypeOK, NormalStartsAfresh, NoCounts,
      NothingReported, Severities, Reports
<1>2. CatastropheInvariant /\ [CatastropheNext]_catastropheVars => CatastropheInvariant'
  <2> SUFFICES ASSUME CatastropheInvariant, [CatastropheNext]_catastropheVars
               PROVE  CatastropheInvariant'
    OBVIOUS
  <2> USE ThresholdsAssumption, CountAssumption
          DEF CatastropheInvariant, CatastropheTypeOK, NormalStartsAfresh
  <2>1. ASSUME NEW failure \in FailureTypes, ReportFailure(failure)
        PROVE  CatastropheInvariant'
    <3>1. severity' \in Severities /\ (severity' = "NORMAL" => severity = "NORMAL")
      BY <2>1, WorseThanNormal DEF ReportFailure
    <3> QED BY <2>1, <3>1 DEF ReportFailure
  <2>2. ASSUME NEW k \in Counters, NEW windowOver \in BOOLEAN, CountFailure(k, windowOver)
        PROVE  CatastropheInvariant'
    <3> DEFINE count == IF windowOver THEN 1 ELSE counts[k] + 1
    <3>1. /\ count \in 0..MaxCount
          /\ counts' = [counts EXCEPT ![k] = count]
          /\ severity' = IF count >= Thresholds[k] THEN Worse(severity, Storm[k]) ELSE severity
          /\ reported' = reported
      BY <2>2 DEF CountFailure
    <3> HIDE DEF count
    <3>2. counts' \in [Counters -> 0..MaxCount]
      BY <3>1
    <3>3. CASE count >= Thresholds[k]
      <4>1. severity' \in Severities \ {"NORMAL"}
        BY <3>1, <3>3, StormsAreNoticed
      <4> QED BY <3>1, <3>2, <4>1
    <3>4. CASE ~(count >= Thresholds[k])
      BY <3>1, <3>2, <3>4
    <3> QED BY <3>3, <3>4
  <2>3. ASSUME BackToNormal
        PROVE  CatastropheInvariant'
    BY <2>3 DEF BackToNormal, NoCounts, NothingReported, Severities, Reports
  <2>4. ASSUME NEW said \in [Conditions -> Reports], AttemptRecovery(said)
        PROVE  CatastropheInvariant'
    <3>1. CASE BackToNormal
      BY <2>3, <3>1
    <3>2. CASE reported' = Merged(said) /\ UNCHANGED <<severity, counts>>
      BY <2>4, <3>2 DEF AttemptRecovery, Merged
    <3> QED BY <2>4, <3>1, <3>2 DEF AttemptRecovery
  <2>5. CASE UNCHANGED catastropheVars
    BY <2>5 DEF catastropheVars
  <2> QED BY <2>1, <2>2, <2>3, <2>4, <2>5 DEF CatastropheNext, ForceReset
<1> QED BY <1>1, <1>2, PTL DEF CatastropheSpec

\* Entries are allowed only while no storm is under way and nothing of an
\* earlier catastrophe is remembered, for all conditions and thresholds
\* (can_enter_position, report_rejection, attempt_recovery).
THEOREM NormalAlwaysStartsAfresh == CatastropheSpec => []NormalStartsAfresh
  BY CatastropheHolds, PTL DEF CatastropheInvariant

-----------------------------------------------------------------------------
(* DegradationManager                                                      *)

LEMMA DemandedIsALevel ==
    ASSUME NEW active PROVE Demanded(active) \in Levels
  BY DEF Demanded, Levels, NormalLevel, Reduced, Emergency, Shutdown

\* What the triggers demand together is no better than what one asks for.
LEMMA DemandedCovers ==
    ASSUME NEW active \in SUBSET Triggers, NEW t \in active, t /= Manual
    PROVE  Demanded(active) >= AsksFor(t) /\ Demanded(active) >= Reduced
<1> USE DEF NormalLevel, Reduced, Emergency, Shutdown
<1>1. CASE active \intersect {"EXCHANGE_ISSUES", "RESOURCE_EXHAUSTION"} /= {}
  BY <1>1 DEF Demanded, AsksFor
<1>2. CASE /\ active \intersect {"EXCHANGE_ISSUES", "RESOURCE_EXHAUSTION"} = {}
           /\ active \intersect {"CIRCUIT_BREAKER_TRIPPED", "HIGH_DRAWDOWN"} /= {}
  BY <1>2 DEF Demanded, AsksFor
<1>3. CASE /\ active \intersect {"EXCHANGE_ISSUES", "RESOURCE_EXHAUSTION"} = {}
           /\ active \intersect {"CIRCUIT_BREAKER_TRIPPED", "HIGH_DRAWDOWN"} = {}
  BY <1>3 DEF Demanded, AsksFor
<1> QED BY <1>1, <1>2, <1>3

\* A transition that is refused was to a level that is no worse, or found
\* the worst one.
LEMMA RefusalsAreSafe ==
    ASSUME DegradationTypeOK, NEW new \in Levels, TransitionLevel(new)
    PROVE  level' \in Levels /\ rested' \in BOOLEAN /\ level' >= new
<1>1. CASE MayMove(new)
  <2>1. level' = new /\ rested' = FALSE
    BY <1>1 DEF TransitionLevel
  <2>2. new >= new
    BY DEF Levels, NormalLevel, Shutdown
  <2>3. rested' \in BOOLEAN
    BY <2>1
  <2> QED BY <2>1, <2>2, <2>3
<1>2. CASE ~MayMove(new)
  <2>1. level' = level /\ rested' = rested
    BY <1>2 DEF TransitionLevel
  <2>2. level >= new
    <3>1. CASE ~(rested \/ new >= level)
      BY <3>1 DEF DegradationTypeOK, Levels, NormalLevel, Shutdown
    <3>2. CASE level = Shutdown
      BY <3>2 DEF Levels, NormalLevel, Shutdown
    <3> QED BY <1>2, <3>1, <3>2 DEF MayMove
  <2> QED BY <2>1, <2>2 DEF DegradationTypeOK
<1> QED BY <1>1, <1>2

\* The trigger of a high error rate is active as long as nobody removed it.
ErrorsAreTriggers == errorRate /= NormalLevel => Errors \in triggers

DegradationInvariant == DegradationTypeOK /\ ErrorsAreTriggers /\ LevelCoversTriggers

\* A recalculation leaves a level that covers the triggers, early or refused.
LEMMA RecalculationCovers ==
    ASSUME DegradationTypeOK, triggers' \subseteq Triggers, RecalculateLevel
    PROVE  /\ level' \in Levels /\ rested' \in BOOLEAN /\ overridden' \in BOOLEAN
           /\ Manual \notin triggers' => \A t \in triggers' : /\ level' >= AsksFor(t)
                                                          /\ level' >= Reduced
<1>1. CASE Manual \in triggers'
  BY <1>1 DEF RecalculateLevel, DegradationTypeOK
<1>2. CASE Manual \notin triggers'
  <2>1. Demanded(triggers') \in Levels
    BY DemandedIsALevel
  <2>2. overridden' = FALSE /\ level' \in Levels /\ rested' \in BOOLEAN
        /\ level' >= Demanded(triggers')
    <3>1. CASE Demanded(triggers') = level
      BY <1>2, <2>1, <3>1 DEF RecalculateLevel, DegradationTypeOK, Levels, NormalLevel, Shutdown
    <3>2. CASE Demanded(triggers') /= level
      BY <1>2, <2>1, <3>2, RefusalsAreSafe DEF RecalculateLevel
    <3> QED BY <3>1, <3>2
  <2>3. ASSUME NEW t \in triggers'
        PROVE  level' >= AsksFor(t) /\ level' >= Reduced
    <3>1. Demanded(triggers') >= AsksFor(t) /\ Demanded(triggers') >= Reduced
      BY <1>2, DemandedCovers
    <3>2. AsksFor(t) \in Levels /\ Reduced \in Levels
      BY DEF AsksFor, Levels, NormalLevel, Reduced, Emergency, Shutdown
    <3> QED BY <2>1, <2>2, <3>1, <3>2 DEF Levels, NormalLevel, Shutdown
  <2> QED BY <2>2, <2>3
<1> QED BY <1>1, <1>2

\* So do add_trigger and remove_trigger, which do nothing for a trigger that is
\* there or is not.
LEMMA ChangesCover ==
    ASSUME DegradationInvariant, NEW t \in Triggers, Added(t) \/ Removed(t)
    PROVE  /\ triggers' \subseteq Triggers
           /\ level' \in Levels /\ rested' \in BOOLEAN /\ overridden' \in BOOLEAN
           /\ triggers' = triggers \union {t} \/ triggers' = triggers \ {t}
           /\ Added(t) => t \in triggers'
           /\ Manual \notin triggers' /\ ~overridden' =>
                \A u \in triggers' : level' >= AsksFor(u) /\ level' >= Reduced
<1> USE DEF DegradationInvariant
<1>1. triggers' = triggers \union {t} \/ triggers' = triggers \ {t}
  BY DEF Added, Removed
<1>2. triggers' \subseteq Triggers
  BY <1>1 DEF DegradationTypeOK
<1>3. Added(t) => t \in triggers'
  BY DEF Added
<1>4. CASE RecalculateLevel
  BY <1>1, <1>2, <1>3, <1>4, RecalculationCovers
<1>5. CASE UNCHANGED <<level, triggers, rested, overridden>>
  <2>1. \A u \in triggers : level >= AsksFor(u) => level >= Reduced
    BY DEF AsksFor, DegradationTypeOK, Levels, NormalLevel, Reduced, Emergency, Shutdown
  <2> QED BY <1>1, <1>2, <1>3, <1>5, <2>1 DEF LevelCoversTriggers, DegradationTypeOK
<1> QED BY <1>4, <1>5 DEF Added, Removed

LEMMA DegradationHolds == DegradationSpec => []DegradationInvariant
<1>1. DegradationInit => DegradationInvariant
  <2> SUFFICES ASSUME DegradationInit PROVE DegradationInvariant
    OBVIOUS
  <2>1. /\ level = 0 /\ errorRate = 0 /\ triggers = {}
        /\ rested \in BOOLEAN /\ overridden \in BOOLEAN
    BY DEF DegradationInit, NormalLevel
  <2>2. ErrorsAreTriggers /\ LevelCoversTriggers
    BY <2>1 DEF ErrorsAreTriggers, LevelCoversTriggers, NormalLevel
  <2> QED BY <2>1, <2>2 DEF DegradationInvariant, DegradationTypeOK, Levels, NormalLevel, Shutdown
<1>2. DegradationInvariant /\ [DegradationNext]_degradationVars => DegradationInvariant'
  <2> SUFFICES ASSUME DegradationInvariant, [DegradationNext]_degradationVars
               PROVE  DegradationInvariant'
    OBVIOUS
  <2>0. DegradationTypeOK /\ ErrorsAreTriggers
    BY DEF DegradationInvariant
  <2>1. ASSUME NEW t \in Triggers, AddTrigger(t) \/ RemoveTrigger(t)
        PROVE  DegradationInvariant'
    <3>1. /\ triggers' \subseteq Triggers
          /\ level' \in Levels /\ rested' \in BOOLEAN /\ overridden' \in BOOLEAN
          /\ triggers' = triggers \union {t} \/ triggers' = triggers \ {t}
          /\ AddTrigger(t) => t \in triggers'
          /\ Manual \notin triggers' /\ ~overridden' =>
               \A u \in triggers' : level' >= AsksFor(u) /\ level' >= Reduced
      BY <2>1, ChangesCover DEF AddTrigger, RemoveTrigger
    <3>2. errorRate' \in Levels /\ ErrorsAreTriggers'
      BY <2>0, <2>1, <3>1 DEF AddTrigger, RemoveTrigger, ErrorsAreTriggers, DegradationTypeOK,
                              Levels, NormalLevel, Shutdown
    <3> QED BY <3>1, <3>2 DEF DegradationInvariant, DegradationTypeOK, ErrorsAreTriggers,
                              LevelCoversTriggers
  <2>2. ASSUME NEW rate \in Levels, CheckErrorRate(rate)
        PROVE  DegradationInvariant'
    <3>1. Errors \in Triggers
      BY DEF Triggers, Errors
    <3>2. /\ triggers' \subseteq Triggers
          /\ level' \in Levels /\ rested' \in BOOLEAN /\ overridden' \in BOOLEAN
          /\ Manual \notin triggers' /\ ~overridden' =>
               \A u \in triggers' : level' >= AsksFor(u) /\ level' >= Reduced
      BY <2>2, <3>1, ChangesCover DEF CheckErrorRate
    <3>3. errorRate' \in Levels /\ ErrorsAreTriggers'
      BY <2>2, <3>1, ChangesCover DEF CheckErrorRate, ErrorsAreTriggers
    <3> QED BY <3>2, <3>3 DEF DegradationInvariant, DegradationTypeOK, ErrorsAreTriggers,
                              LevelCoversTriggers
  <2>3. ASSUME NEW new \in Levels, SetLevel(new)
        PROVE  DegradationInvariant'
    <3>1. TransitionLevel(new) /\ overridden' = TRUE /\ triggers' \subseteq Triggers
          /\ triggers \subseteq triggers' /\ errorRate' = errorRate
      BY <2>0, <2>3 DEF SetLevel, DegradationTypeOK, Triggers, Manual
    <3>2. level' \in Levels /\ rested' \in BOOLEAN
      BY <2>0, <3>1, RefusalsAreSafe
    <3> QED BY <2>0, <3>1, <3>2 DEF DegradationInvariant, DegradationTypeOK, ErrorsAreTriggers,
                                    LevelCoversTriggers
  <2>4. ASSUME NEW force \in BOOLEAN, Reset(force)
        PROVE  DegradationInvariant'
    <3>1. /\ level' = 0 /\ errorRate' = 0 /\ triggers' = {}
          /\ rested' \in BOOLEAN /\ overridden' \in BOOLEAN
      BY <2>4 DEF Reset, NormalLevel
    <3>2. ErrorsAreTriggers' /\ LevelCoversTriggers'
      BY <3>1 DEF ErrorsAreTriggers, LevelCoversTriggers, NormalLevel
    <3> QED BY <3>1, <3>2 DEF DegradationInvariant, DegradationTypeOK, Levels, NormalLevel, Shutdown
  <2>5. CASE TimePasses
    BY <2>5 DEF TimePasses, DegradationInvariant, DegradationTypeOK, ErrorsAreTriggers,
                LevelCoversTriggers
  <2>6. CASE UNCHANGED degradationVars
    BY <2>6 DEF degradationVars, DegradationInvariant, DegradationTypeOK, ErrorsAreTriggers,
                LevelCoversTriggers
  <2> QED BY <2>1, <2>2, <2>3, <2>4, <2>5, <2>6 DEF DegradationNext
<1> QED BY <1>1, <1>2, PTL DEF DegradationSpec

\* Unless an operator intervenes the level is at least what each active trigger
\* asks for by itself, and REDUCED after a high error rate, however high, with
\* and without require_manual_reset (add_trigger, remove_trigger,
\* _transition_level, check_error_rate).
THEOREM LevelAlwaysCoversTriggers == DegradationSpec => []LevelCoversTriggers
  BY DegradationHolds, PTL DEF DegradationInvariant

-----------------------------------------------------------------------------
(* DrawdownTracker                                                         *)

Halted(t) == t.state \in {"DAILY_COOLDOWN", "WEEKLY_COOLDOWN"}

\* A check writes the state and its reason, nothing else.
SameAccount(t, u) ==
    /\ u \in Trackers
    /\ u.capital = t.capital /\ u.day = t.day /\ u.week = t.week
    /\ u.losses = t.losses /\ u.wins = t.wins

OneStreak(t) == t.wins = 0 \/ t.losses = 0

LEMMA MovedTracker ==
    ASSUME NEW t \in Trackers, NEW state \in DrawdownStates,
           NEW reason \in CooldownReasons \union {"none"}
    PROVE  SameAccount(t, Moved(t, state, reason)) /\ Moved(t, state, reason).state = state
  BY DEF Moved, SameAccount, Trackers

LEMMA RestatedTracker ==
    ASSUME NEW t \in Trackers, NEW state \in DrawdownStates
    PROVE  /\ SameAccount(t, [t EXCEPT !.state = state])
           /\ [t EXCEPT !.state = state].state = state
  BY DEF SameAccount, Trackers

LEMMA NotedTracker ==
    ASSUME NEW t \in Trackers, NEW state \in DrawdownStates
    PROVE  SameAccount(t, Noted(t, state)) /\ (Halted(t) => Halted(Noted(t, state)))
  BY RestatedTracker DEF Noted, Halted, SameAccount, Trackers

\* A streak at its limit halts, and is not broken at once, since there is
\* no winning streak beside it.
LEMMA StreaksHalt ==
    ASSUME NEW t \in Trackers, OneStreak(t)
    PROVE  /\ SameAccount(t, CheckConsecutiveLosses(t))
           /\ t.losses >= LossHalt => Halted(CheckConsecutiveLosses(t))
<1> DEFINE u == Streak(t)
<1> USE DEF DrawdownStates, CooldownReasons
<1>1. SameAccount(t, t)
  BY DEF SameAccount
<1>2. SameAccount(t, u) /\ (t.losses >= LossHalt => u.state = "DAILY_COOLDOWN")
  BY <1>1, MovedTracker, NotedTracker DEF Streak
<1>3. u \in Trackers
  BY <1>2 DEF SameAccount
<1> HIDE DEF u
<1>4. SameAccount(u, StreakBroken(u))
  BY <1>3, MovedTracker DEF StreakBroken, SameAccount
<1>5. t.losses >= LossHalt => StreakBroken(u) = u
  <2> SUFFICES ASSUME t.losses >= LossHalt PROVE StreakBroken(u) = u
    OBVIOUS
  <2>1. u.wins = 0
    BY <1>2, LimitsAssumption DEF OneStreak, SameAccount, Trackers
  <2> QED BY <1>2, <2>1, LimitsAssumption DEF StreakBroken
<1>6. CheckConsecutiveLosses(t) = StreakBroken(u)
  BY DEF CheckConsecutiveLosses, u
<1> QED BY <1>2, <1>4, <1>5, <1>6 DEF SameAccount, Halted

LEMMA DailyLossHalts ==
    ASSUME NEW t \in Trackers
    PROVE  /\ SameAccount(t, CheckDailyLimit(t))
           /\ Halted(t) \/ Below(t.day, t.capital, DailyPct) => Halted(CheckDailyLimit(t))
<1>1. SameAccount(t, t)
  BY DEF SameAccount
<1> QED BY <1>1, MovedTracker, NotedTracker
        DEF CheckDailyLimit, Halted, DrawdownStates, CooldownReasons

LEMMA WeeklyLossHalts ==
    ASSUME NEW t \in Trackers
    PROVE  /\ SameAccount(t, CheckWeeklyLimit(t))
           /\ Halted(t) \/ Below(t.week, t.capital, WeeklyPct) => Halted(CheckWeeklyLimit(t))
<1>1. SameAccount(t, t)
  BY DEF SameAccount
<1> QED BY <1>1, MovedTracker, NotedTracker
        DEF CheckWeeklyLimit, Halted, DrawdownStates, CooldownReasons

LEMMA DrawdownOverridesOnly ==
    ASSUME NEW t \in Trackers
    PROVE  /\ SameAccount(t, CheckDrawdownLimits(t))
           /\ Halted(t) => \/ Halted(CheckDrawdownLimits(t))
                           \/ CheckDrawdownLimits(t).state = "MAXIMUM_DRAWDOWN"
<1>1. SameAccount(t, t)
  BY DEF SameAccount
<1> QED BY <1>1, MovedTracker, RestatedTracker
        DEF CheckDrawdownLimits, Recovered, Halted, DrawdownStates, CooldownReasons

LEMMA AccountsChain ==
    ASSUME NEW t, NEW u, NEW v, SameAccount(t, u), SameAccount(u, v)
    PROVE  SameAccount(t, v)
  BY DEF SameAccount

LEMMA TrackerWithCapital ==
    ASSUME NEW t \in Trackers, NEW balance \in Int
    PROVE  /\ WithCapital(t, balance) \in Trackers
           /\ WithCapital(t, balance).wins = t.wins
           /\ WithCapital(t, balance).losses = t.losses
<1> DEFINE peak == IF balance > t.peak THEN balance ELSE t.peak
<1>1. peak \in Int
  BY DEF Trackers
<1>2. WithCapital(t, balance) = [t EXCEPT !.capital = balance, !.peak = peak]
  BY DEF WithCapital, Trackers
<1> HIDE DEF peak
<1> QED BY <1>1, <1>2 DEF Trackers

LEMMA CountedTracker ==
    ASSUME NEW t \in Trackers, OneStreak(t), NEW pnl \in Int
    PROVE  Counted(t, pnl) \in Trackers /\ OneStreak(Counted(t, pnl))
<1> DEFINE u == WithCapital(t, t.capital + pnl)
           wins == IF pnl > 0 THEN u.wins + 1 ELSE IF pnl < 0 THEN 0 ELSE u.wins
           losses == IF pnl > 0 THEN 0 ELSE IF pnl < 0 THEN u.losses + 1 ELSE u.losses
<1>1. t.capital + pnl \in Int
  BY DEF Trackers
<1>2. u \in Trackers /\ OneStreak(u)
  BY <1>1, TrackerWithCapital DEF OneStreak
<1>3. Counted(t, pnl) = [u EXCEPT !.wins = wins, !.losses = losses]
  BY <1>2 DEF Counted, Trackers
<1> HIDE DEF u
<1>4. wins \in Nat /\ losses \in Nat /\ (wins = 0 \/ losses = 0)
  BY <1>2 DEF Trackers, OneStreak
<1> HIDE DEF wins, losses
<1> QED BY <1>2, <1>3, <1>4 DEF Trackers, OneStreak

\* What the four checks leave of a trade, in the order they are made.
LEMMA TradesThatBreachHalt ==
    ASSUME NEW t \in Trackers, OneStreak(t), NEW pnl \in Int
    PROVE  LET u == RecordTrade(t, pnl) IN
           /\ u \in Trackers /\ OneStreak(u)
           /\ Breached(u) => Halted(u) \/ u.state = "MAXIMUM_DRAWDOWN"
<1> DEFINE a == Counted(t, pnl)
           b == CheckConsecutiveLosses(a)
           c == CheckDailyLimit(b)
           d == CheckWeeklyLimit(c)
           u == CheckDrawdownLimits(d)
<1>1. a \in Trackers /\ OneStreak(a)
  BY CountedTracker
<1>2. SameAccount(a, b) /\ (a.losses >= LossHalt => Halted(b))
  BY <1>1, StreaksHalt
<1>3. SameAccount(b, c) /\ (Halted(b) \/ Below(b.day, b.capital, DailyPct) => Halted(c))
  BY <1>2, DailyLossHalts DEF SameAccount
<1>4. SameAccount(c, d) /\ (Halted(c) \/ Below(c.week, c.capital, WeeklyPct) => Halted(d))
  BY <1>3, WeeklyLossHalts DEF SameAccount
<1>5. SameAccount(d, u) /\ (Halted(d) => Halted(u) \/ u.state = "MAXIMUM_DRAWDOWN")
  BY <1>4, DrawdownOverridesOnly DEF SameAccount
<1>6. RecordTrade(t, pnl) = u
  BY DEF RecordTrade
<1> HIDE DEF a, b, c, d, u
<1>7. SameAccount(a, c) /\ SameAccount(a, u) /\ SameAccount(b, u) /\ SameAccount(c, u)
  BY <1>2, <1>3, <1>4, <1>5, AccountsChain
<1>8. u \in Trackers /\ OneStreak(u)
  BY <1>1, <1>7 DEF SameAccount, OneStreak
<1>9. ASSUME Breached(u) PROVE Halted(d)
  <2>1. CASE u.losses >= LossHalt
    BY <1>2, <1>3, <1>4, <1>7, <2>1 DEF SameAccount
  <2>2. CASE Below(u.day, u.capital, DailyPct)
    BY <1>3, <1>4, <1>7, <2>2 DEF SameAccount
  <2>3. CASE Below(u.week, u.capital, WeeklyPct)
    BY <1>4, <1>7, <2>3 DEF SameAccount
  <2> QED BY <1>9, <2>1, <2>2, <2>3 DEF Breached
<1> QED BY <1>5, <1>6, <1>8, <1>9

TrackerInvariant == tracker \in Trackers /\ OneStreak(tracker)

LEMMA ResetsKeepTheTracker ==
    ASSUME TrackerInvariant,
           tracker' \in {ResetDaily(tracker), ResetWeekly(tracker), ForceClear(tracker)}
    PROVE  TrackerInvariant'
  BY DEF TrackerInvariant, OneStreak, ResetDaily, ResetWeekly, ForceClear, Moved, Trackers,
         DrawdownStates, CooldownReasons

LEMMA BalancesKeepTheTracker ==
    ASSUME TrackerInvariant, NEW d \in Transfers, BalanceIsRead(d)
    PROVE  TrackerInvariant'
<1> DEFINE t == WithCapital(tracker, Capital + d)
<1>1. t \in Trackers /\ OneStreak(t)
  <2>1. Capital + d \in Int
    BY CapitalAssumption DEF TrackerInvariant, Capital, Trackers
  <2> QED BY <2>1, TrackerWithCapital DEF TrackerInvariant, OneStreak
<1>2. SameAccount(t, CheckDrawdownLimits(t)) /\ tracker' = CheckDrawdownLimits(t)
  BY <1>1, DrawdownOverridesOnly DEF BalanceIsRead, UpdateCapital
<1> QED BY <1>1, <1>2 DEF TrackerInvariant, SameAccount, OneStreak

LEMMA TrackerStep ==
    ASSUME TrackerInvariant, [CapitalNext]_capitalVars PROVE TrackerInvariant'
<1>1. ASSUME tracker' = tracker PROVE TrackerInvariant'
  BY <1>1 DEF TrackerInvariant, OneStreak
<1>2. ASSUME NEW s \in Symbols, NEW pnl \in PnLs, RecordTradeResult(s, pnl)
      PROVE  TrackerInvariant'
  <2>1. pnl \in Int /\ tracker' = RecordTrade(tracker, pnl)
    BY <1>2, CapitalAssumption DEF RecordTradeResult
  <2> QED BY <2>1, TradesThatBreachHalt DEF TrackerInvariant, OneStreak
<1>3. ASSUME NEW s \in Symbols, NEW stop \in Stops, Approve(s, stop) PROVE TrackerInvariant'
  BY <1>1, <1>3 DEF Approve
<1>4. ASSUME NEW s \in Symbols,
             \/ CallerTracks(s) \/ CallerGivesUp(s) \/ RemovePosition(s) \/ PriceDoubles(s)
      PROVE  TrackerInvariant'
  BY <1>1, <1>4 DEF CallerTracks, CallerGivesUp, RemovePosition, PriceDoubles
<1>5. ASSUME NEW d \in Transfers, BalanceIsRead(d) PROVE TrackerInvariant'
  BY <1>5, BalancesKeepTheTracker
<1>6. ASSUME PlaceExit \/ DailyLimitsReset \/ CooldownPasses PROVE TrackerInvariant'
  BY <1>1, <1>6 DEF PlaceExit, DailyLimitsReset, CooldownPasses
<1>7. ASSUME NEW r \in {"SIDEWAYS", "DISABLED"}, SetRegime(r) PROVE TrackerInvariant'
  BY <1>1, <1>7 DEF SetRegime
<1>8. CASE ResetTracker
  BY <1>8, ResetsKeepTheTracker DEF ResetTracker
<1>9. CASE UNCHANGED capitalVars
  BY <1>1, <1>9 DEF capitalVars
<1> QED BY <1>2, <1>3, <1>4, <1>5, <1>6, <1>7, <1>8, <1>9 DEF CapitalNext

\* Whatever the limits, the results and the order of the resets: a recorded
\* trade that leaves a limit broken leaves entries impossible, or the
\* maximum drawdown in force (_check_all_limits).
THEOREM BreachesAlwaysHaltTrading == CapitalSpec => BreachesHaltTrading
<1>1. CapitalInit => TrackerInvariant
  BY CapitalAssumption DEF CapitalInit, TrackerInvariant, NewTracker, Trackers, OneStreak,
                           DrawdownStates
<1>2. TrackerInvariant /\ [CapitalNext]_capitalVars => TrackerInvariant'
  BY TrackerStep
<1>3. ASSUME TrackerInvariant
      PROVE  (\E s \in Symbols, pnl \in PnLs : RecordTradeResult(s, pnl)) =>
                (Breached(tracker') =>
                    ~TradingAllowed(tracker') \/ tracker'.state = "MAXIMUM_DRAWDOWN")
  <2> SUFFICES ASSUME NEW s \in Symbols, NEW pnl \in PnLs, RecordTradeResult(s, pnl),
                      Breached(tracker')
               PROVE  ~TradingAllowed(tracker') \/ tracker'.state = "MAXIMUM_DRAWDOWN"
    OBVIOUS
  <2>1. pnl \in Int /\ tracker' = RecordTrade(tracker, pnl)
    BY CapitalAssumption DEF RecordTradeResult
  <2>2. Halted(tracker') \/ tracker'.state = "MAXIMUM_DRAWDOWN"
    BY <1>3, <2>1, TradesThatBreachHalt DEF TrackerInvariant
  <2> QED BY <2>2 DEF Halted, TradingAllowed
<1> QED BY <1>1, <1>2, <1>3, PTL DEF CapitalSpec, BreachesHaltTrading

-----------------------------------------------------------------------------
(* CapitalManager                                                          *)

\* ReasonFits, state by state.
Fitting(state, reason, losses) ==
    /\ state = "DAILY_COOLDOWN" =>
         reason = "DAILY_LOSS" \/ (reason = "CONSECUTIVE_LOSS" /\ losses >= LossHalt)
    /\ state = "WEEKLY_COOLDOWN" => reason = "WEEKLY_LOSS"
    /\ state \in {"NORMAL", "WARNING", "REDUCED_RISK"} => reason = "none"

LEMMA ReasonsThatFit ==
    ASSUME NEW t \in Trackers
    PROVE  ReasonFits(t) <=> Fitting(t.state, t.reason, t.losses)
  BY DEF ReasonFits, Fitting, Trackers, DrawdownStates

\* The checks leave a cooldown with its reason and other states with none.
LEMMA ReasonsFitAfterTrades ==
    ASSUME NEW t \in Trackers, OneStreak(t), ReasonFits(t), NEW pnl \in Int
    PROVE  ReasonFits(RecordTrade(t, pnl))
<1> DEFINE a == Counted(t, pnl)
           b == CheckConsecutiveLosses(a)
           c == CheckDailyLimit(b)
           d == CheckWeeklyLimit(c)
<1> USE LimitsAssumption DEF DrawdownStates, CooldownReasons
<1>1. a \in Trackers /\ OneStreak(a)
  BY CountedTracker
<1>2. /\ a.state = t.state /\ a.reason = t.reason
      /\ \/ a.losses >= t.losses
         \/ a.losses = 0 /\ a.wins >= 1
  <2> DEFINE u == WithCapital(t, t.capital + pnl)
  <2>1. t.capital + pnl \in Int
    BY DEF Trackers
  <2>2. u \in Trackers /\ u.losses = t.losses /\ u.wins = t.wins
    BY <2>1, TrackerWithCapital
  <2>3. u.state = t.state /\ u.reason = t.reason
    BY DEF WithCapital, Trackers
  <2>4. a.state = u.state /\ a.reason = u.reason
    BY <2>2 DEF Counted, Trackers
  <2>5. /\ a.wins = IF pnl > 0 THEN u.wins + 1 ELSE IF pnl < 0 THEN 0 ELSE u.wins
        /\ a.losses = IF pnl > 0 THEN 0 ELSE IF pnl < 0 THEN u.losses + 1 ELSE u.losses
    BY <2>2 DEF Counted, Trackers
  <2> HIDE DEF a, u
  <2> QED BY <2>2, <2>3, <2>4, <2>5 DEF Trackers
<1> HIDE DEF a
<1>3. SameAccount(a, b) /\ ReasonFits(b)
  <2>1. SameAccount(a, b)
    BY <1>1, StreaksHalt
  <2>2. CASE a.losses >= LossHalt
    <3>1. b = Streak(a)
      BY <1>1, <2>2 DEF CheckConsecutiveLosses, Streak, StreakBroken, StreakHalted, Moved, OneStreak, Trackers
    <3>2. b \in Trackers
      BY <2>1 DEF SameAccount
    <3>3. Fitting(a.state, a.reason, a.losses) \/ a.state /= "DAILY_COOLDOWN"
      BY <1>1, <1>2, <2>2, ReasonsThatFit DEF Fitting
    <3>4. Fitting(b.state, b.reason, b.losses)
      <4>1. CASE a.state = "DAILY_COOLDOWN"
        BY <2>2, <3>1, <3>3, <4>1 DEF Streak
      <4>2. CASE a.state /= "DAILY_COOLDOWN"
        <5>1. b = Moved(a, "DAILY_COOLDOWN", "CONSECUTIVE_LOSS")
          BY <2>2, <3>1, <4>2 DEF Streak
        <5>2. b.state = "DAILY_COOLDOWN" /\ b.reason = "CONSECUTIVE_LOSS" /\ b.losses = a.losses
          BY <1>1, <5>1 DEF Moved, Trackers
        <5> QED BY <2>2, <5>2 DEF Fitting
      <4> QED BY <4>1, <4>2
    <3> QED BY <2>1, <3>2, <3>4, ReasonsThatFit
  <2>3. CASE ~(a.losses >= LossHalt)
    <3>1. ReasonFits(a) \/ (StreakHalted(a) /\ a.losses = 0 /\ a.wins >= 1)
      BY <1>1, <1>2, <2>3, ReasonsThatFit DEF Fitting, StreakHalted, Trackers
    <3> DEFINE u == Streak(a)
    <3>2. /\ u \in Trackers /\ u.losses = a.losses /\ u.wins = a.wins
          /\ ReasonFits(u) \/ (StreakHalted(u) /\ u.wins >= 1)
      BY <1>1, <2>3, <3>1, ReasonsThatFit DEF Streak, Noted, Fitting, StreakHalted, Trackers
    <3>3. b = StreakBroken(u)
      BY DEF CheckConsecutiveLosses
    <3> HIDE DEF u, b
    <3>4. b \in Trackers
      BY <2>1 DEF SameAccount, b
    <3>5. Fitting(u.state, u.reason, u.losses) \/ (StreakHalted(u) /\ u.wins >= 1)
      BY <3>2, ReasonsThatFit
    <3>6. Fitting(b.state, b.reason, b.losses)
      <4>1. CASE b = Moved(u, "NORMAL", "none")
        <5>1. b.state = "NORMAL" /\ b.reason = "none"
          BY <3>2, <4>1 DEF Moved, Trackers
        <5> QED BY <5>1 DEF Fitting
      <4>2. CASE b = u /\ ~(StreakHalted(u) /\ u.wins >= 1)
        BY <3>5, <4>2
      <4> QED BY <3>3, <4>1, <4>2 DEF StreakBroken
    <3> QED BY <2>1, <3>4, <3>6, ReasonsThatFit
  <2> QED BY <2>1, <2>2, <2>3
<1>4. b \in Trackers
  BY <1>3 DEF SameAccount
<1> HIDE DEF b
<1>5. c \in Trackers /\ ReasonFits(c)
  <2>1. c \in Trackers
    BY <1>4, DailyLossHalts DEF SameAccount
  <2>2. Fitting(b.state, b.reason, b.losses)
    BY <1>3, <1>4, ReasonsThatFit
  <2>3. Fitting(c.state, c.reason, c.losses)
    BY <1>4, <2>2 DEF CheckDailyLimit, Noted, Moved, Fitting, Trackers
  <2> QED BY <2>1, <2>3, ReasonsThatFit
<1> HIDE DEF c
<1>6. d \in Trackers /\ ReasonFits(d)
  <2>1. d \in Trackers
    BY <1>5, WeeklyLossHalts DEF SameAccount
  <2>2. Fitting(c.state, c.reason, c.losses)
    BY <1>5, ReasonsThatFit
  <2>3. Fitting(d.state, d.reason, d.losses)
    BY <1>5, <2>2 DEF CheckWeeklyLimit, Noted, Moved, Fitting, Trackers
  <2> QED BY <2>1, <2>3, ReasonsThatFit
<1> HIDE DEF d
<1>7. ReasonFits(CheckDrawdownLimits(d))
  BY <1>6, ReasonsThatFit DEF CheckDrawdownLimits, Recovered, Moved, Fitting, Trackers
<1> QED BY <1>7 DEF RecordTrade, a, b, c, d

\* A new balance keeps a cooldown with its reason.
LEMMA ReasonsFitAfterBalances ==
    ASSUME NEW t \in Trackers, ReasonFits(t), NEW balance \in Int
    PROVE  ReasonFits(UpdateCapital(t, balance))
<1> DEFINE u == WithCapital(t, balance)
<1> USE DEF DrawdownStates, CooldownReasons
<1>1. u \in Trackers /\ ReasonFits(u)
  <2>1. u.state = t.state /\ u.reason = t.reason
    BY DEF WithCapital, Trackers
  <2> QED BY <2>1, TrackerWithCapital, ReasonsThatFit DEF Fitting
<1> HIDE DEF u
<1>2. ReasonFits(CheckDrawdownLimits(u))
  BY <1>1, ReasonsThatFit DEF CheckDrawdownLimits, Recovered, Moved, Fitting, Trackers
<1> QED BY <1>2 DEF UpdateCapital, u

\* So do the resets.
LEMMA ReasonsFitAfterResets ==
    ASSUME NEW t \in Trackers, ReasonFits(t), NEW u \in {ResetDaily(t), ResetWeekly(t), ForceClear(t)}
    PROVE  ReasonFits(u)
  BY ReasonsThatFit DEF ResetDaily, ResetWeekly, ForceClear, StreakHalted, Moved, Fitting, Trackers,
         DrawdownStates, CooldownReasons

\* A percentage of a natural number is one.
LEMMA ShareOfNatural ==
    ASSUME NEW n \in Nat, NEW d \in Nat \ {0}
    PROVE  n \div d \in Nat
  OBVIOUS

\* A percentage is rounded down.
LEMMA ShareRoundsDown ==
    ASSUME NEW n \in Int
    PROVE  n \div 100 \in Int /\ 100 * (n \div 100) <= n
  OBVIOUS

\* What three limits leave is a size within each of them, or nothing.
LEMMA LeastOfThree ==
    ASSUME NEW a \in Int, NEW b \in Int, NEW c \in Int
    PROVE  LET allowed == Max({0, Min({a, b, c})})
           IN  allowed \in Nat /\ (allowed > 0 => allowed <= a /\ allowed <= b /\ allowed <= c)
<1>1. PICK m \in Int : m = Min({a, b, c}) /\ m <= a /\ m <= b /\ m <= c
  <2>1. \E m \in {a, b, c} : \A n \in {a, b, c} : m <= n
    <3>1. CASE a <= b /\ a <= c
      BY <3>1
    <3>2. CASE b <= a /\ b <= c
      BY <3>2
    <3>3. CASE c <= a /\ c <= b
      BY <3>3
    <3> QED BY <3>1, <3>2, <3>3
  <2>2. Min({a, b, c}) \in {a, b, c} /\ \A n \in {a, b, c} : Min({a, b, c}) <= n
    BY <2>1 DEF Min
  <2> QED BY <2>2
<1>2. Max({0, m}) = IF m > 0 THEN m ELSE 0
  <2>1. \E x \in {0, m} : \A y \in {0, m} : x >= y
    <3>1. CASE m > 0
      BY <3>1
    <3>2. CASE ~(m > 0)
      BY <3>2
    <3> QED BY <3>1, <3>2
  <2>2. PICK x : x = Max({0, m}) /\ x \in {0, m} /\ \A y \in {0, m} : x >= y
    BY <2>1 DEF Max
  <2> QED BY <2>2
<1> QED BY <1>1, <1>2

Books == [Symbols -> [value : Nat, stop : Stops \union {0}]]

\* What the positions are worth is a sum that exists.
LEMMA ValueIsTotal ==
    ASSUME positions \in Books, NEW S \in SUBSET Symbols
    PROVE  ValueOf(S) = Total([t \in Symbols |-> positions[t].value], S)
<1>1. PICK w : w = [t \in Symbols |-> positions[t].value]
  OBVIOUS
<1> DEFINE iter[s \in SUBSET S] ==
             IF s = {} THEN 0
             ELSE positions[CHOOSE t \in s : TRUE].value + iter[s \ {CHOOSE t \in s : TRUE}]
           Step(sum, s) == IF s = {} THEN 0
                           ELSE positions[CHOOSE t \in s : TRUE].value
                                  + sum[s \ {CHOOSE t \in s : TRUE}]
<1>2. IsFiniteSet(S)
  BY CapitalAssumption, FS_Subset
<1>3. ASSUME NEW sum, NEW s \in SUBSET S
      PROVE  Step(sum, s) = SumStep(w, sum, s)
  <2>1. CASE s = {}
    BY <2>1 DEF SumStep
  <2>2. CASE s /= {}
    <3>1. Pick(s) \in Symbols
      BY <2>2, PickIsMember
    <3>2. w[Pick(s)] = positions[Pick(s)].value
      BY <1>1, <3>1
    <3> QED BY <2>2, <3>2 DEF SumStep, Pick
  <2> QED BY <2>1, <2>2
<1>4. \A sum : sum = [s \in SUBSET S |-> Step(sum, s)] <=> SumsUp(sum, w, S)
  <2> TAKE sum
  <2>1. [s \in SUBSET S |-> Step(sum, s)] = [s \in SUBSET S |-> SumStep(w, sum, s)]
    <3> HIDE DEF Step
    <3> QED BY <1>3
  <2> HIDE DEF Step
  <2> QED BY <2>1 DEF SumsUp
<1>5. \E sum : sum = [s \in SUBSET S |-> Step(sum, s)]
  <2> HIDE DEF Step
  <2> QED BY <1>2, <1>4, SumsExist
<1>6. iter = [s \in SUBSET S |-> Step(iter, s)]
  BY <1>5
<1>7. SumsUp(iter, w, S)
  <2> HIDE DEF Step, iter
  <2> QED BY <1>4, <1>6
<1>8. ValueOf(S) = iter[S]
  BY DEF ValueOf, MapThenSumSet, MapThenFoldSet
<1>9. Total(w, S) = iter[S]
  <2>1. PICK sum : SumsUp(sum, w, S) /\ Total(w, S) = sum[S]
    BY <1>2, SumsUpIsTotal
  <2> HIDE DEF iter
  <2>2. \A s \in SUBSET S : sum[s] = iter[s]
    BY <1>2, <1>7, <2>1, SumsAgree
  <2> QED BY <2>1, <2>2
<1> QED BY <1>1, <1>8, <1>9

\* The value of any of the positions is a number.
LEMMA ValueIsInteger ==
    ASSUME positions \in Books, NEW S \in SUBSET Symbols
    PROVE  ValueOf(S) \in Int
<1>1. PICK w : w = [t \in Symbols |-> positions[t].value]
  OBVIOUS
<1>2. IsFiniteSet(S) /\ \A t \in S : w[t] \in Int
  BY <1>1, CapitalAssumption, FS_Subset DEF Books
<1>3. Total(w, S) \in Int
  BY <1>2, TotalType
<1> QED BY <1>1, <1>3, ValueIsTotal

\* _calculate_max_allowed_size returns nothing that the limits would refuse.
LEMMA AllowedFits ==
    ASSUME CapitalTypeOK, NEW s \in Symbols, MaxAllowed(s) > 0
    PROVE  MaxAllowed(s) \in Nat /\ WithinExposure(s, MaxAllowed(s))
<1>1. PICK capital_ \in Int : capital_ = Capital
  BY DEF CapitalTypeOK, Capital, Trackers
<1>2. PICK others \in Int, correlated \in Int :
          others = ValueOf(Others(s)) /\ correlated = ValueOf(CorrelatedOthers(s))
  <2>1. Others(s) \in SUBSET Symbols /\ CorrelatedOthers(s) \in SUBSET Symbols
    BY DEF Others, CorrelatedOthers
  <2> QED BY <2>1, ValueIsInteger DEF CapitalTypeOK, Books
<1>3. PICK p \in Int, a \in Int, c \in Int :
          p = PositionPct * capital_ /\ a = AggregatePct * capital_ /\ c = CorrelatedPct * capital_
  BY CapitalAssumption
<1>4. PICK p1 \in Int, a1 \in Int, c1 \in Int :
          /\ p1 = Share(PositionPct) /\ a1 = Share(AggregatePct) /\ c1 = Share(CorrelatedPct)
          /\ 100 * p1 <= p /\ 100 * a1 <= a /\ 100 * c1 <= c
  BY <1>1, <1>3, ShareRoundsDown DEF Share
<1>5. PICK allowed : allowed = MaxAllowed(s)
  OBVIOUS
<1>6. allowed = Max({0, Min({p1, a1 - others, c1 - correlated})})
  BY <1>2, <1>4, <1>5 DEF MaxAllowed
<1>7. allowed \in Nat /\ allowed <= p1 /\ allowed <= a1 - others /\ allowed <= c1 - correlated
  <2>1. a1 - others \in Int /\ c1 - correlated \in Int
    OBVIOUS
  <2> QED BY <1>5, <1>6, <2>1, LeastOfThree
<1>8. WithinExposure(s, allowed)
  <2>1. 100 * allowed <= p /\ 100 * (others + allowed) <= a /\ 100 * (correlated + allowed) <= c
    BY <1>4, <1>7
  <2> QED BY <1>1, <1>2, <1>3, <2>1 DEF WithinExposure, Within
<1> QED BY <1>5, <1>7, <1>8

\* The size asked for is a natural number, whatever scales it.
LEMMA WantedIsNatural ==
    ASSUME CapitalTypeOK, NEW stop \in Stops
    PROVE  Wanted(stop) \in Nat
<1>1. Sized(stop) \in Nat
  <2>1. CASE Capital <= 0
    BY <2>1 DEF Sized
  <2>2. CASE ~(Capital <= 0)
    <3>1. Capital \in Nat /\ sizer.bp \in Nat /\ stop \in Nat \ {0}
      BY <2>2, CapitalAssumption DEF CapitalTypeOK, Capital, Trackers
    <3>2. PICK n \in Nat, d \in Nat \ {0} : n = Capital * sizer.bp /\ d = 100 * stop
      BY <3>1
    <3>3. n \div d \in Nat
      BY ShareOfNatural
    <3> QED BY <2>2, <3>2, <3>3 DEF Sized
  <2> QED BY <2>1, <2>2
<1>2. SizeMultiplier(tracker) \in Nat
  BY DEF SizeMultiplier, CapitalTypeOK, Trackers, DrawdownStates
<1>3. PICK n \in Nat : n = Sized(stop) * SizeMultiplier(tracker)
  BY <1>1, <1>2
<1>4. n \div 100 \in Nat
  BY ShareOfNatural
<1> QED BY <1>3, <1>4 DEF Wanted

\* What is approved is within the exposure limits, as asked for or fitted.
LEMMA FittedFits ==
    ASSUME CapitalTypeOK, NEW s \in Symbols, NEW stop \in Stops, Fitted(s, stop) > 0
    PROVE  Fitted(s, stop) \in Nat /\ WithinExposure(s, Fitted(s, stop))
<1>1. CASE WithinLimits(s, Wanted(stop), stop)
  <2>1. Fitted(s, stop) = Wanted(stop)
    BY <1>1 DEF Fitted
  <2> QED BY <1>1, <2>1, WantedIsNatural DEF WithinLimits
<1>2. CASE ~WithinLimits(s, Wanted(stop), stop)
  <2>1. Fitted(s, stop) = MaxAllowed(s)
    BY <1>2 DEF Fitted
  <2> QED BY <2>1, AllowedFits
<1> QED BY <1>1, <1>2

\* CapitalTypeOK, part by part.
AccountOK ==
    /\ tracker \in Trackers /\ ReasonFits(tracker)
    /\ tracker.wins = 0 \/ tracker.losses = 0

SizerOK == sizer \in [wins : Nat, losses : Nat, bp : {50, 75, 100, 125, 150}]

DayOK ==
    /\ today \in [entries : 0..MaxEntries, exits : 0..MaxExits, orders : 0..MaxOrders]
    /\ today.orders = today.entries + today.exits

\* The day's counts stay within their limits and go on adding up.
LEMMA DayMoves ==
    ASSUME NEW e \in 0..MaxEntries, NEW x \in 0..MaxExits, NEW o \in 0..MaxOrders, o = e + x,
           today' = [entries |-> e, exits |-> x, orders |-> o]
    PROVE  DayOK'
  BY DEF DayOK

LEMMA DayFields ==
    ASSUME DayOK
    PROVE  /\ today = [entries |-> today.entries, exits |-> today.exits, orders |-> today.orders]
           /\ today.entries \in 0..MaxEntries /\ today.exits \in 0..MaxExits
           /\ today.orders \in 0..MaxOrders /\ today.orders = today.entries + today.exits
  BY DEF DayOK

\* CapitalTypeOK is the conjunction of these.
LEMMA CapitalTypeParts ==
    CapitalTypeOK <=> /\ AccountOK /\ SizerOK /\ DayOK
                      /\ regime \in {"SIDEWAYS", "DISABLED"}
                      /\ positions \in Books /\ granted \in Books
                      /\ cooling \in BOOLEAN
                      /\ left \in [approvals : Nat, events : Nat]
  BY DEF CapitalTypeOK, AccountOK, SizerOK, DayOK, Books

\* A result keeps the sizer's streaks and its scale.
LEMMA TradesKeepTheSizer ==
    ASSUME SizerOK, NEW pnl \in Int
    PROVE  SizerAfter(pnl) \in [wins : Nat, losses : Nat, bp : {50, 75, 100, 125, 150}]
<1> DEFINE wins == IF pnl > 0 THEN sizer.wins + 1 ELSE 0
           losses == IF pnl > 0 THEN 0 ELSE sizer.losses + 1
           bp == CASE wins >= 5 -> 150
                   [] wins \in 3..4 -> 125
                   [] wins \in 1..2 -> sizer.bp
                   [] losses = 1 -> 100
                   [] losses \in 2..3 -> 75
                   [] losses >= 4 -> 50
<1>1. wins \in Nat /\ losses \in Nat /\ (wins >= 1 \/ losses >= 1)
  BY DEF SizerOK
<1>2. SizerAfter(pnl) = [wins |-> wins, losses |-> losses, bp |-> bp]
  BY DEF SizerAfter
<1>3. bp \in {50, 75, 100, 125, 150}
  <2> HIDE DEF wins, losses
  <2> QED BY <1>1 DEF SizerOK
<1> HIDE DEF wins, losses, bp
<1> QED BY <1>1, <1>2, <1>3

\* Every step keeps the tracker with its reason and one streak at a time.
LEMMA AccountStep ==
    ASSUME CapitalTypeOK, [CapitalNext]_capitalVars PROVE AccountOK'
<1>1. TrackerInvariant'
  BY TrackerStep DEF TrackerInvariant, OneStreak, CapitalTypeOK
<1>2. tracker \in Trackers /\ OneStreak(tracker) /\ ReasonFits(tracker)
  BY DEF CapitalTypeOK, OneStreak
<1>3. ReasonFits(tracker')
  <2>1. ASSUME NEW s \in Symbols, NEW pnl \in PnLs, RecordTradeResult(s, pnl)
        PROVE  ReasonFits(tracker')
    <3>1. pnl \in Int /\ tracker' = RecordTrade(tracker, pnl)
      BY <2>1, CapitalAssumption DEF RecordTradeResult
    <3> QED BY <1>2, <3>1, ReasonsFitAfterTrades
  <2>2. ASSUME NEW d \in Transfers, BalanceIsRead(d) PROVE ReasonFits(tracker')
    <3>1. Capital + d \in Int /\ tracker' = UpdateCapital(tracker, Capital + d)
      BY <1>2, <2>2, CapitalAssumption DEF BalanceIsRead, Capital, Trackers
    <3> QED BY <1>2, <3>1, ReasonsFitAfterBalances
  <2>3. CASE ResetTracker
    BY <1>2, <2>3, ReasonsFitAfterResets DEF ResetTracker
  <2>4. ASSUME tracker' = tracker PROVE ReasonFits(tracker')
    BY <1>2, <2>4
  <2>5. ASSUME NEW s \in Symbols,
               \/ \E stop \in Stops : Approve(s, stop)
               \/ CallerTracks(s) \/ CallerGivesUp(s) \/ RemovePosition(s) \/ PriceDoubles(s)
        PROVE  ReasonFits(tracker')
    BY <2>4, <2>5 DEF Approve, CallerTracks, CallerGivesUp, RemovePosition, PriceDoubles
  <2>6. ASSUME \/ PlaceExit \/ DailyLimitsReset \/ CooldownPasses
               \/ \E r \in {"SIDEWAYS", "DISABLED"} : SetRegime(r)
               \/ UNCHANGED capitalVars
        PROVE  ReasonFits(tracker')
    BY <2>4, <2>6 DEF PlaceExit, DailyLimitsReset, CooldownPasses, SetRegime, capitalVars
  <2> QED BY <2>1, <2>2, <2>3, <2>5, <2>6 DEF CapitalNext
<1> QED BY <1>1, <1>3 DEF AccountOK, TrackerInvariant, OneStreak

LEMMA CapitalStart == CapitalInit => CapitalTypeOK
<1> SUFFICES ASSUME CapitalInit PROVE CapitalTypeOK
  OBVIOUS
<1>1. tracker \in Trackers /\ ReasonFits(tracker) /\ tracker.losses = 0
  <2>1. tracker \in Trackers /\ tracker.losses = 0
    BY CapitalAssumption DEF CapitalInit, NewTracker, Trackers, DrawdownStates
  <2>2. Fitting(tracker.state, tracker.reason, tracker.losses)
    BY DEF CapitalInit, NewTracker, Fitting
  <2> QED BY <2>1, <2>2, ReasonsThatFit
<1>2. AccountOK /\ SizerOK
  BY <1>1 DEF CapitalInit, AccountOK, SizerOK
<1>3. DayOK
  <2>1. 0 \in 0..MaxEntries /\ 0 \in 0..MaxExits /\ 0 \in 0..MaxOrders /\ 0 = 0 + 0
    BY CapitalAssumption
  <2> QED BY <2>1 DEF CapitalInit, DayOK, NoOrders
<1>4. positions \in Books /\ granted \in Books /\ left \in [approvals : Nat, events : Nat]
  BY CapitalAssumption DEF CapitalInit, Books, Nothing
<1> QED BY <1>2, <1>3, <1>4, CapitalTypeParts DEF CapitalInit

\* An approval keeps the types: what is granted is a natural number.
LEMMA ApprovalsKeepTypes ==
    ASSUME CapitalTypeOK, NEW s \in Symbols, NEW stop \in Stops, Approve(s, stop)
    PROVE  /\ SizerOK' /\ DayOK' /\ regime' \in {"SIDEWAYS", "DISABLED"}
           /\ positions' \in Books /\ granted' \in Books /\ cooling' \in BOOLEAN
           /\ left' \in [approvals : Nat, events : Nat]
<1>1. /\ SizerOK /\ DayOK /\ granted \in Books /\ positions \in Books
      /\ left \in [approvals : Nat, events : Nat] /\ regime \in {"SIDEWAYS", "DISABLED"}
  BY CapitalTypeParts
<1>2. granted' \in Books
  <2>1. PICK v \in Nat : v = Fitted(s, stop)
    BY FittedFits DEF Approve
  <2>2. granted' = [granted EXCEPT ![s] = [value |-> v, stop |-> stop]]
    BY <2>1 DEF Approve
  <2> QED BY <1>1, <2>2 DEF Books
<1>3. DayOK'
  <2>1. PICK e \in 0..MaxEntries, x \in 0..MaxExits, o \in 0..MaxOrders :
            today = [entries |-> e, exits |-> x, orders |-> o] /\ o = e + x
    BY <1>1, DayFields
  <2>2. /\ today' = [entries |-> e + 1, exits |-> x, orders |-> o + 1]
        /\ e < MaxEntries /\ o < MaxOrders
    BY <2>1 DEF Approve, MayEnter
  <2>3. e + 1 \in 0..MaxEntries /\ o + 1 \in 0..MaxOrders /\ o + 1 = (e + 1) + x
    BY <2>1, <2>2, CapitalAssumption
  <2> QED BY <2>2, <2>3, DayMoves
<1> QED BY <1>1, <1>2, <1>3 DEF Approve, SizerOK

LEMMA CapitalStep == CapitalTypeOK /\ [CapitalNext]_capitalVars => CapitalTypeOK'
<1> SUFFICES ASSUME CapitalTypeOK, [CapitalNext]_capitalVars PROVE CapitalTypeOK'
  OBVIOUS
<1> DEFINE Rest == /\ SizerOK /\ DayOK /\ regime \in {"SIDEWAYS", "DISABLED"}
                   /\ positions \in Books /\ granted \in Books /\ cooling \in BOOLEAN
                   /\ left \in [approvals : Nat, events : Nat]
<1>1. Rest
  BY CapitalTypeParts
<1>a. today' = today => DayOK'
  BY <1>1 DEF DayOK
<1>b. sizer' = sizer => SizerOK'
  BY <1>1 DEF SizerOK
<1>2. Nothing \in [value : Nat, stop : Stops \union {0}]
  BY DEF Nothing
<1>3. ASSUME NEW s \in Symbols, NEW stop \in Stops, Approve(s, stop) PROVE Rest'
  BY <1>3, ApprovalsKeepTypes
<1>4. ASSUME NEW s \in Symbols, CallerTracks(s) \/ CallerGivesUp(s) \/ RemovePosition(s)
      PROVE  Rest'
  <2>1. positions' \in Books /\ granted' \in Books
    BY <1>1, <1>2, <1>4 DEF CallerTracks, CallerGivesUp, RemovePosition, Books
  <2> QED BY <1>1, <1>4, <1>a, <1>b, <2>1 DEF CallerTracks, CallerGivesUp, RemovePosition
<1>5. ASSUME NEW s \in Symbols, PriceDoubles(s) PROVE Rest'
  <2>1. PICK v \in Nat : v = 2 * positions[s].value
    BY <1>1 DEF Books
  <2>2. positions' = [positions EXCEPT ![s] = [positions[s] EXCEPT !.value = v]]
    BY <1>1, <1>5, <2>1 DEF PriceDoubles, Books
  <2>3. positions' \in Books
    BY <1>1, <2>2 DEF Books
  <2> QED BY <1>1, <1>5, <1>a, <1>b, <2>3 DEF PriceDoubles
<1>6. ASSUME NEW s \in Symbols, NEW pnl \in PnLs, RecordTradeResult(s, pnl) PROVE Rest'
  <2>1. pnl \in Int
    BY CapitalAssumption
  <2>2. SizerOK'
    BY <1>1, <1>6, <2>1, TradesKeepTheSizer DEF RecordTradeResult, SizerOK
  <2>3. positions' \in Books
    BY <1>1, <1>2, <1>6 DEF RecordTradeResult, Books
  <2> QED BY <1>1, <1>6, <1>a, <2>2, <2>3 DEF RecordTradeResult
<1>7. ASSUME NEW d \in Transfers, BalanceIsRead(d) PROVE Rest'
  BY <1>1, <1>7, <1>a, <1>b DEF BalanceIsRead, book
<1>8. ASSUME PlaceExit PROVE Rest'
  <2>1. PICK e \in 0..MaxEntries, x \in 0..MaxExits, o \in 0..MaxOrders :
            today = [entries |-> e, exits |-> x, orders |-> o] /\ o = e + x
    BY <1>1, DayFields
  <2>2. /\ today' = [entries |-> e, exits |-> x + 1, orders |-> o + 1]
        /\ x < MaxExits /\ o < MaxOrders
    BY <1>8, <2>1 DEF PlaceExit
  <2>3. x + 1 \in 0..MaxExits /\ o + 1 \in 0..MaxOrders /\ o + 1 = e + (x + 1)
    BY <2>1, <2>2, CapitalAssumption
  <2>4. DayOK'
    BY <2>2, <2>3, DayMoves
  <2> QED BY <1>1, <1>8, <1>b, <2>4 DEF PlaceExit, book
<1>9. ASSUME DailyLimitsReset PROVE Rest'
  <2>1. DayOK'
    <3>1. 0 \in 0..MaxEntries /\ 0 \in 0..MaxExits /\ 0 \in 0..MaxOrders /\ 0 = 0 + 0
      BY CapitalAssumption
    <3>2. today' = [entries |-> 0, exits |-> 0, orders |-> 0]
      BY <1>9 DEF DailyLimitsReset, NoOrders
    <3> QED BY <3>1, <3>2, DayMoves
  <2> QED BY <1>1, <1>9, <1>b, <2>1 DEF DailyLimitsReset, book
<1>10. ASSUME CooldownPasses \/ (\E r \in {"SIDEWAYS", "DISABLED"} : SetRegime(r)) \/ ResetTracker
      PROVE  Rest'
  BY <1>1, <1>10, <1>a, <1>b DEF CooldownPasses, SetRegime, ResetTracker, book
<1>11. ASSUME UNCHANGED capitalVars PROVE Rest'
  BY <1>1, <1>11, <1>a, <1>b DEF capitalVars, book
<1>12. Rest'
  <2> HIDE DEF Rest
  <2> QED
    BY <1>3, <1>4, <1>5, <1>6, <1>7, <1>8, <1>9, <1>10, <1>11 DEF CapitalNext
<1>13. AccountOK'
  BY AccountStep
<1> QED BY <1>12, <1>13 DEF CapitalTypeOK, AccountOK, SizerOK, DayOK, Books

\* The inductive invariant of the capital manager: counts within their limits,
\* the tracker's state with its reason, a size that is a natural number.
THEOREM CapitalTypes == CapitalSpec => []CapitalTypeOK
  BY CapitalStart, CapitalStep, PTL DEF CapitalSpec

\* Whatever the limits, the correlations, the capital and the positions held, an
\* approval fits the position, aggregate and correlated limits, also when its
\* size was fitted and not checked again (validate_trade).
THEOREM ApprovalsAlwaysFit == CapitalSpec => ApprovalsFitExposure
<1>1. ASSUME CapitalTypeOK, [CapitalNext]_capitalVars, NEW s \in Symbols,
             granted[s] = Nothing, granted'[s] /= Nothing
      PROVE  WithinExposure(s, granted'[s].value)
  <2>1. PICK t \in Symbols, stop \in Stops : Approve(t, stop)
    <3>1. ASSUME granted' = granted PROVE FALSE
      BY <1>1, <3>1
    <3>2. ASSUME NEW t \in Symbols,
                 CallerTracks(t) \/ CallerGivesUp(t) \/ RemovePosition(t) \/ PriceDoubles(t)
                   \/ \E pnl \in PnLs : RecordTradeResult(t, pnl)
          PROVE  FALSE
      BY <1>1, <3>2 DEF CallerTracks, CallerGivesUp, RemovePosition, PriceDoubles,
                        RecordTradeResult, CapitalTypeOK
    <3> QED BY <1>1, <3>1, <3>2
            DEF CapitalNext, BalanceIsRead, PlaceExit, DailyLimitsReset, CooldownPasses, SetRegime,
                ResetTracker, capitalVars, book
  <2>2. t = s /\ granted'[s].value = Fitted(s, stop)
    BY <1>1, <2>1 DEF Approve, CapitalTypeOK
  <2>3. Fitted(s, stop) > 0
    BY <2>1, <2>2 DEF Approve
  <2> QED BY <1>1, <2>2, <2>3, FittedFits
<1>2. ASSUME CapitalTypeOK, [CapitalNext]_capitalVars
      PROVE  \A s \in Symbols :
               granted[s] = Nothing /\ granted'[s] /= Nothing
                 => WithinExposure(s, granted'[s].value)
  BY <1>1, <1>2
<1> QED BY CapitalTypes, <1>2, PTL DEF CapitalSpec, ApprovalsFitExposure

-----------------------------------------------------------------------------
(* CircuitBreakers                                                         *)

\* While the rapid-loss breaker is closed every loss of the run has been
\* counted: whatever is not counted trips it.
BreakersInvariant ==
    /\ BreakersTypeOK
    /\ "rapid_loss" \notin tripped => losing <= session.streak
    /\ RunsOfLossesTrip

LEMMA BreakersStart == BreakersInit => BreakersInvariant
  BY BreakersAssumption
  DEF BreakersInit, BreakersInvariant, BreakersTypeOK, RunsOfLossesTrip, NewSession

\* A result is counted in the session, and a loss that is not counted in the
\* streak has tripped the breaker.
LEMMA ResultsKeepTheBreakers ==
    ASSUME BreakersInvariant, NEW pnl \in Results, RecordResult(pnl)
    PROVE  BreakersInvariant'
<1> DEFINE counted == [session EXCEPT !.pnl = @ + pnl, !.total = @ + 1]
           streak == StreakAfter(pnl, counted)
<1> USE BreakersAssumption DEF BreakersInvariant, BreakersTypeOK, RunsOfLossesTrip
<1>1. /\ counted = [pnl |-> session.pnl + pnl, streak |-> session.streak,
                    total |-> session.total + 1]
      /\ session.total + 1 \in 0..MaxTrades
  <2> DEFINE paid == [session EXCEPT !.pnl = session.pnl + pnl]
  <2>1. paid = [pnl |-> session.pnl + pnl, streak |-> session.streak, total |-> session.total]
    OBVIOUS
  <2>2. counted = [paid EXCEPT !.total = session.total + 1]
    OBVIOUS
  <2> HIDE DEF paid, counted
  <2>3. counted = [pnl |-> session.pnl + pnl, streak |-> session.streak,
                   total |-> session.total + 1]
    BY <2>1, <2>2
  <2> QED BY <2>3 DEF RecordResult
<1>2. streak = IF pnl >= 0 THEN 0 ELSE session.streak + 1
  BY <1>1 DEF StreakAfter
<1>3. /\ losing' = IF pnl < 0 THEN losing + 1 ELSE 0
      /\ capital' = capital
  BY DEF RecordResult
<1>4. CASE session' = counted /\ tripped' = tripped \union {"rapid_loss"}
  <2>1. /\ session' \in [pnl : Int, streak : Nat, total : 0..MaxTrades]
        /\ session'.streak = session.streak /\ session'.total = session.total + 1
    BY <1>1, <1>4
  <2>2. tripped' \subseteq Breakers /\ "rapid_loss" \in tripped'
    BY <1>4 DEF Breakers
  <2> HIDE DEF counted, streak
  <2> QED BY <1>3, <2>1, <2>2
<1>5. CASE /\ session' = [counted EXCEPT !.streak = streak]
           /\ tripped' = IF pnl < 0 /\ streak >= StreakLimit /\ counted.total >= MinTrades
                         THEN tripped \union {"rapid_loss"} ELSE tripped
  <2>1. /\ session' = [pnl |-> session.pnl + pnl, streak |-> streak, total |-> session.total + 1]
        /\ counted.total = session.total + 1
    BY <1>1, <1>5
  <2>2. streak \in Nat /\ streak <= session.total + 1
    BY <1>2
  <2> HIDE DEF counted, streak
  <2>3. /\ session' \in [pnl : Int, streak : Nat, total : 0..MaxTrades]
        /\ session'.streak = streak /\ session'.total = session.total + 1
    BY <1>1, <2>1, <2>2
  <2>4. tripped' \subseteq Breakers /\ ("rapid_loss" \in tripped => "rapid_loss" \in tripped')
    BY <1>5 DEF Breakers
  <2>5. losing' \in 0..session'.total
    BY <1>3, <2>3
  <2>6. "rapid_loss" \notin tripped' => losing' <= session'.streak
    BY <1>2, <1>3, <2>3, <2>4
  <2>7. RunsOfLossesTrip'
    <3> SUFFICES ASSUME losing' >= StreakLimit, session'.total >= MinTrades,
                        "rapid_loss" \notin tripped'
                 PROVE  FALSE
      OBVIOUS
    <3>1. pnl < 0
      BY <1>3
    <3>2. streak >= StreakLimit /\ counted.total >= MinTrades
      BY <2>1, <2>3, <2>5, <2>6
    <3> QED BY <1>5, <3>1, <3>2
  <2> QED BY <1>3, <2>2, <2>3, <2>4, <2>5, <2>6, <2>7
<1> QED BY <1>4, <1>5 DEF RecordResult

LEMMA BreakersStep == BreakersInvariant /\ [BreakersNext]_breakerVars => BreakersInvariant'
<1> SUFFICES ASSUME BreakersInvariant, [BreakersNext]_breakerVars
             PROVE  BreakersInvariant'
  OBVIOUS
<1> USE BreakersAssumption DEF BreakersInvariant, BreakersTypeOK, RunsOfLossesTrip
<1>1. ASSUME NEW b \in Detectors, Detects(b)
      PROVE  BreakersInvariant'
  BY <1>1 DEF Detects, Breakers
<1>2. ASSUME NEW pnl \in Results, RecordResult(pnl)
      PROVE  BreakersInvariant'
  BY <1>2, ResultsKeepTheBreakers
<1>3. ASSUME NEW c \in Capitals, SetCapital(c)
      PROVE  BreakersInvariant'
  BY <1>3 DEF SetCapital
<1>4. CASE ResetSession
  BY <1>4 DEF ResetSession, NewSession
<1>5. ASSUME NEW b \in Breakers, NEW manual \in BOOLEAN, ResetBreaker(b, manual)
      PROVE  BreakersInvariant'
  <2>1. CASE b = "rapid_loss"
    BY <1>5, <2>1 DEF ResetBreaker
  <2>2. CASE b /= "rapid_loss"
    BY <1>5, <2>2 DEF ResetBreaker
  <2> QED BY <2>1, <2>2
<1>6. CASE UNCHANGED breakerVars
  BY <1>6 DEF breakerVars
<1> QED BY <1>1, <1>2, <1>3, <1>4, <1>5, <1>6 DEF BreakersNext

\* For all limits, results, capitals and orders of resets a run of losses that
\* is long enough has tripped the breaker (RapidLossBreaker.record_trade).
THEOREM RunsOfLossesAlwaysTrip == BreakersSpec => []RunsOfLossesTrip
<1>1. BreakersInvariant => RunsOfLossesTrip
  BY DEF BreakersInvariant
<1> QED BY BreakersStart, BreakersStep, <1>1, PTL DEF BreakersSpec

-----------------------------------------------------------------------------
(* The capital governor                                                    *)

\* An active quarantine has not been stable for longer than no risk was
\* found, a released one is followed by none, and what is frozen lasts to the
\* latest end announced: evaluations that do not ask the engine do not thaw it,
\* and those that ask it find nothing frozen that they could replace.
GovernorInv ==
    /\ GovernorTypeOK
    /\ ~quarantine.active => riskAge = Stability
    /\ quarantine.stable <= riskAge
    /\ announced = frozen

\* A quarantine as the controller may hold it.
WellFormed(q) ==
    /\ q \in [active : BOOLEAN, locked : Shares, value : Risks \union {NoRisk},
             stable : Unstable..Stability]
    /\ q.active <=> q.locked > 0
    /\ q.active \/ q = Released

\* A trigger locks some share of the capital, whatever was locked before.
LEMMA ActivateType ==
    ASSUME NEW q, WellFormed(q), NEW risk \in Risks
    PROVE  /\ WellFormed(Activate(q, risk))
           /\ Activate(q, risk).active = TRUE
           /\ Activate(q, risk).stable = Unstable
<1> USE GovernorAssumption DEF Shares, NoRisk, Unstable
<1>1. q.active => q.locked \in {250, 375, 500}
  BY DEF WellFormed
<1>2. /\ SmallerOf(500, (3 * 250) \div 2) = 375
      /\ SmallerOf(500, (3 * 375) \div 2) = 500
      /\ SmallerOf(500, (3 * 500) \div 2) = 500
  BY DEF SmallerOf
<1>3. Activate(q, risk).locked \in {250, 375, 500}
  <2>1. CASE ~q.active
    BY <2>1 DEF Activate
  <2>2. CASE q.active
    BY <1>1, <1>2, <2>2 DEF Activate
  <2> QED BY <2>1, <2>2
<1> QED BY <1>3 DEF Activate, WellFormed

\* Asking the controller keeps what is known of the quarantine and its age.
LEMMA QuarantineKept ==
    ASSUME GovernorInv, NEW risk \in Risks \union {NoRisk},
           quarantine' = QuarantineAfter(risk),
           riskAge' = IF risk /= NoRisk THEN 0 ELSE riskAge
    PROVE  /\ WellFormed(quarantine')
           /\ riskAge' \in 0..Stability
           /\ ~quarantine'.active => riskAge' = Stability
           /\ quarantine'.stable <= riskAge'
<1>0. WellFormed(quarantine)
  BY DEF GovernorInv, GovernorTypeOK, WellFormed
<1>1. CASE risk /= NoRisk
  <2>1. quarantine' = Activate(quarantine, risk) /\ riskAge' = 0 /\ risk \in Risks
    BY <1>1 DEF QuarantineAfter
  <2>2. WellFormed(quarantine') /\ quarantine'.active = TRUE /\ quarantine'.stable = Unstable
    BY <1>0, <2>1, ActivateType
  <2> QED BY <2>1, <2>2, GovernorAssumption DEF Unstable
<1> USE GovernorAssumption DEF NoRisk, Unstable
<1>2. CASE risk = NoRisk /\ ~quarantine.active
  BY <1>0, <1>2 DEF QuarantineAfter, GovernorInv, GovernorTypeOK
<1>3. CASE risk = NoRisk /\ quarantine.active
  <2>1. quarantine' = CheckRelease(quarantine) /\ riskAge' = riskAge
    BY <1>3 DEF QuarantineAfter
  <2>2. CASE quarantine.stable = Unstable
    BY <2>1, <2>2, <1>3 DEF CheckRelease, GovernorInv, GovernorTypeOK, WellFormed
  <2>3. CASE quarantine.stable >= Stability /\ quarantine.stable /= Unstable
    <3>1. quarantine' = Released /\ riskAge = Stability
      BY <2>1, <2>3 DEF CheckRelease, GovernorInv, GovernorTypeOK, WellFormed
    <3> QED BY <3>1, <2>1 DEF Released, Shares, WellFormed
  <2>4. CASE ~(quarantine.stable >= Stability) /\ quarantine.stable /= Unstable
    BY <2>1, <2>4, <1>3 DEF CheckRelease, GovernorInv, GovernorTypeOK, WellFormed
  <2> QED BY <2>2, <2>3, <2>4
<1> QED BY <1>1, <1>2, <1>3

LEMMA GovernorInitInv == GovernorInit => GovernorInv
  BY GovernorAssumption
     DEF GovernorInit, GovernorInv, GovernorTypeOK, Released, Shares, NoRisk, Unstable,
         Free, Decisions

LEMMA GovernorStep == GovernorInv /\ [GovernorNext]_governorVars => GovernorInv'
<1> SUFFICES ASSUME GovernorInv, [GovernorNext]_governorVars
             PROVE  GovernorInv'
  OBVIOUS
<1> USE GovernorAssumption
<1>1. CASE Evaluates
  <2>1. PICK risk \in Risks \union {NoRisk}, equity \in Equities, peak \in Equities,
             heated \in BOOLEAN, confidence \in Free :
               Evaluate(risk, equity, peak, heated, confidence)
    BY <1>1 DEF Evaluates
  <2>2. /\ WellFormed(quarantine')
        /\ riskAge' \in 0..Stability
        /\ ~quarantine'.active => riskAge' = Stability
        /\ quarantine'.stable <= riskAge'
    BY <2>1, QuarantineKept DEF Evaluate
  <2>3. /\ frozen' \in Nat /\ announced' = frozen'
        /\ lastPeak' \in Equities \union {0}
        /\ scaling' \in Free /\ decision' \in Decisions
    <3>1. FreezeFor(equity, heated) \in Nat
      BY DEF FreezeFor
    <3>2. PeakAfter(equity, peak) \in Equities \union {0}
      BY DEF PeakAfter, GovernorInv, GovernorTypeOK
    <3> QED BY <2>1, <3>1, <3>2 DEF Evaluate, LargerOf, GovernorInv, GovernorTypeOK, Decisions
  <2> QED BY <2>2, <2>3 DEF GovernorInv, GovernorTypeOK, WellFormed
<1>2. CASE \E locked \in {250, 500} : ForceActivate(locked)
  BY <1>2 DEF ForceActivate, GovernorInv, GovernorTypeOK, Shares, NoRisk, Unstable
<1>3. CASE ForceRelease
  BY <1>3 DEF ForceRelease, GovernorInv, GovernorTypeOK, Released, Shares, NoRisk, Unstable
<1>4. CASE \E duration \in ManualFreezes : ForceFreeze(duration)
  BY <1>4 DEF ForceFreeze, GovernorInv, GovernorTypeOK, Decisions
<1>5. CASE RestoreState
  <2>1. UNCHANGED <<frozen, lastPeak, scaling, riskAge, announced>> /\ decision' = "none"
    BY <1>5 DEF RestoreState
  <2>2. CASE ~quarantine.active
    BY <1>5, <2>1, <2>2 DEF RestoreState, GovernorInv, GovernorTypeOK
  <2>3. CASE quarantine.active
    <3> DEFINE forgotten == [quarantine EXCEPT !.value = NoRisk]
    <3>1. quarantine' = [forgotten EXCEPT !.stable = Unstable]
      BY <1>5, <2>3 DEF RestoreState
    <3>3. /\ forgotten \in [active : BOOLEAN, locked : Shares, value : Risks \union {NoRisk},
                           stable : Unstable..Stability]
          /\ forgotten.active = quarantine.active /\ forgotten.locked = quarantine.locked
      BY DEF GovernorInv, GovernorTypeOK, NoRisk, Unstable
    <3> HIDE DEF forgotten
    <3>2. /\ quarantine' \in [active : BOOLEAN, locked : Shares, value : Risks \union {NoRisk},
                              stable : Unstable..Stability]
          /\ quarantine'.active = quarantine.active /\ quarantine'.locked = quarantine.locked
          /\ quarantine'.stable = Unstable
      BY <3>1, <3>3 DEF NoRisk, Unstable
    <3> QED BY <2>1, <2>3, <3>2 DEF GovernorInv, GovernorTypeOK, Unstable
  <2> QED BY <2>2, <2>3
<1>6. CASE GovernorClock
  <2>1. frozen' \in Nat /\ announced' = frozen'
    BY <1>6 DEF GovernorClock, GovernorInv, GovernorTypeOK, Less
  <2>2. riskAge' \in 0..Stability /\ riskAge' >= riskAge
    BY <1>6 DEF GovernorClock, GovernorInv, GovernorTypeOK, SmallerOf
  <2>3. /\ quarantine' \in [active : BOOLEAN, locked : Shares, value : Risks \union {NoRisk},
                            stable : Unstable..Stability]
        /\ quarantine'.active = quarantine.active /\ quarantine'.locked = quarantine.locked
        /\ quarantine'.value = quarantine.value
        /\ quarantine'.stable = IF quarantine.stable = Unstable THEN Unstable
                                ELSE SmallerOf(quarantine.stable + 1, Stability)
    BY <1>6 DEF GovernorClock, GovernorInv, GovernorTypeOK, SmallerOf, Unstable
  <2>4. quarantine'.stable <= riskAge'
    BY <1>6, <2>3 DEF GovernorClock, GovernorInv, GovernorTypeOK, SmallerOf, Unstable
  <2>5. quarantine'.active \/ quarantine' = Released
    BY <2>3 DEF GovernorInv, GovernorTypeOK, Released, Unstable
  <2>6. ~quarantine'.active => riskAge' = Stability
    BY <2>2, <2>3 DEF GovernorInv, GovernorTypeOK
  <2>7. UNCHANGED <<lastPeak, scaling, decision>>
    BY <1>6 DEF GovernorClock
  <2> QED BY <2>1, <2>2, <2>3, <2>4, <2>5, <2>6, <2>7 DEF GovernorInv, GovernorTypeOK
<1>7. CASE UNCHANGED governorVars
  BY <1>7 DEF governorVars, GovernorInv, GovernorTypeOK
<1> QED BY <1>1, <1>2, <1>3, <1>4, <1>5, <1>6, <1>7 DEF GovernorNext

\* The inductive invariant of the governor: types, the age of the last risk
\* against the stability proven, and the freeze against its announcement.
THEOREM GovernorInvariant == GovernorSpec => []GovernorInv
  BY GovernorInitInv, GovernorStep, PTL DEF GovernorSpec

LEMMA FreeStep ==
    GovernorInv /\ [GovernorNext]_governorVars =>
      [Evaluates /\ decision' \in Free => riskAge >= Stability /\ announced = 0]_governorVars
<1> SUFFICES ASSUME GovernorInv, Evaluates, decision' \in Free
             PROVE  riskAge >= Stability /\ announced = 0
  OBVIOUS
<1> USE GovernorAssumption
<1>1. PICK risk \in Risks \union {NoRisk}, equity \in Equities, peak \in Equities,
           heated \in BOOLEAN, confidence \in Free :
             Evaluate(risk, equity, peak, heated, confidence)
  BY DEF Evaluates
<1>2. ~quarantine'.active /\ frozen = 0
  BY <1>1 DEF Evaluate, Free
<1>3. riskAge' = Stability
  BY <1>1, <1>2, QuarantineKept DEF Evaluate
<1>4. risk = NoRisk
  BY <1>1, <1>2 DEF Evaluate, QuarantineAfter, Activate
<1> QED BY <1>1, <1>2, <1>3, <1>4 DEF Evaluate, GovernorInv, GovernorTypeOK

\* For all stability periods, freezes, risks and equities a free decision is
\* made only in calm, over every order of quarantines, freezes, operators'
\* commands and restarts: no freeze announced since an operator last froze is
\* still to end (SovereignCapitalGovernor.evaluate).
THEOREM FreeAlwaysCalm == GovernorSpec => FreeOnlyWhenCalm
  BY GovernorInvariant, FreeStep, PTL DEF GovernorSpec, FreeOnlyWhenCalm
-----------------------------------------------------------------------------
(* The latches                                                             *)

\* What is closed in memory and saved is closed in its row, and a latch that
\* stands and is not mislaid is closed in both, so that neither a crash nor
\* the next start opens it.
LatchInv ==
    /\ LatchTypeOK
    /\ \A record \in {trust, trustRow} :
          record.locked <=> record.state \in {"CRITICAL", "UNKNOWN_THREAT"}
    /\ process /\ killed /\ "kill_switch" \notin mislaid => killRow
    /\ process /\ trust.locked /\ "meta_governor" \notin mislaid => trustRow.locked
    /\ "kill_switch" \in standing \ mislaid => killRow /\ (process => killed)
    /\ "meta_governor" \in standing \ mislaid => trustRow.locked /\ (process => trust.locked)

\* The state of trust alone decides whether a reset is required.
Agrees(record) ==
    /\ record \in TrustRecords
    /\ record.locked <=> record.state \in {"CRITICAL", "UNKNOWN_THREAT"}

LEMMA TrustAgrees ==
    ASSUME LatchTypeOK, Agrees(trust), NEW finding \in TrustStates
    PROVE  Agrees(TrustAfter(finding)) /\ (trust.locked => TrustAfter(finding) = trust)
<1>1. CASE trust.locked
  BY <1>1 DEF TrustAfter
<1>2. CASE ~trust.locked /\ finding \in {"CRITICAL", "UNKNOWN_THREAT"}
  <2>1. (finding \in {"CRITICAL", "UNKNOWN_THREAT"}) = TRUE
    BY <1>2
  <2>2. TrustAfter(finding) = [state |-> finding, locked |-> TRUE]
    BY <1>2, <2>1, Zenon DEF TrustAfter
  <2> QED BY <1>2, <2>2 DEF Agrees, TrustRecords
<1>3. CASE ~trust.locked /\ finding \notin {"CRITICAL", "UNKNOWN_THREAT"}
  <2>1. (finding \in {"CRITICAL", "UNKNOWN_THREAT"}) = FALSE
    BY <1>3
  <2>2. TrustAfter(finding) = [state |-> finding, locked |-> FALSE]
    BY <1>3, <2>1, Zenon DEF TrustAfter
  <2> QED BY <1>3, <2>2 DEF Agrees, TrustRecords
<1> QED BY <1>1, <1>2, <1>3

LEMMA LatchInitInv == LatchInit => LatchInv
<1> SUFFICES ASSUME LatchInit PROVE LatchInv
  OBVIOUS
<1>1. /\ trust \in TrustRecords /\ trustRow \in TrustRecords
      /\ trust.state = "OPERATIONAL" /\ trust.locked = FALSE /\ trustRow = trust
  BY DEF LatchInit, Trusting, TrustRecords, TrustStates
<1>2. /\ coolingDown \in [Latches -> 0..Cooldown]
      /\ operator \in [Operators -> [stage : {"away", "requested", "confirmed"}, latch : Latches]]
  BY CooldownAssumption DEF LatchInit, Latches, Away
<1>3. LatchTypeOK
  BY <1>1, <1>2 DEF LatchInit, LatchTypeOK, EntriesTrusted
<1> QED BY <1>1, <1>3 DEF LatchInit, LatchInv

LEMMA LatchStep == LatchInv /\ [LatchNext]_latchVars => LatchInv'
<1> SUFFICES ASSUME LatchInv, [LatchNext]_latchVars
             PROVE  LatchInv'
  OBVIOUS
<1> USE CooldownAssumption
<1>a. Agrees(trust) /\ Agrees(trustRow)
  BY DEF LatchInv, LatchTypeOK, Agrees
<1>b. /\ killed \in BOOLEAN /\ killRow \in BOOLEAN /\ process \in BOOLEAN
      /\ coolingDown \in [Latches -> 0..Cooldown]
      /\ operator \in [Operators -> [stage : {"away", "requested", "confirmed"}, latch : Latches]]
      /\ standing \subseteq Latches /\ mislaid \subseteq Latches
  BY DEF LatchInv, LatchTypeOK
<1>c. ASSUME Agrees(trust')
      PROVE  trust'.locked <=> ~EntriesTrusted'
  BY <1>c DEF Agrees, EntriesTrusted, TrustRecords, TrustStates
<1>1. CASE Trigger
  <2>1. killRow' \in BOOLEAN /\ mislaid' \subseteq Latches
    BY <1>1, <1>b DEF Trigger, SaveSwitch, Accounted, Latches
  <2>2. UNCHANGED <<process, trust, trustRow, coolingDown, operator>> /\ killed' = TRUE
    BY <1>1 DEF Trigger
  <2>3. standing' = standing \union {"kill_switch"}
    BY <1>1 DEF Trigger
  <2>4. LatchTypeOK'
    BY <2>1, <2>2, <2>3, <1>a, <1>b, <1>c DEF LatchTypeOK, Agrees, Latches
  <2>5. "kill_switch" \notin mislaid' => killRow'
    BY <1>1, <2>2 DEF Trigger, SaveSwitch, Accounted, LatchInv
  <2>6. "meta_governor" \in mislaid' <=> "meta_governor" \in mislaid
    <3>1. mislaid' \in {mislaid, mislaid \ {"kill_switch"}, mislaid \union {"kill_switch"}}
      BY <1>1 DEF Trigger, SaveSwitch, Accounted
    <3> QED BY <3>1
  <2> QED BY <2>2, <2>3, <2>4, <2>5, <2>6 DEF LatchInv
<1>2. ASSUME NEW finding \in TrustStates, EvaluateTrust(finding)
      PROVE  LatchInv'
  <2>1. /\ Agrees(trust') /\ Agrees(trustRow')
        /\ trust.locked => trust' = trust
    BY <1>2, <1>a, TrustAgrees DEF EvaluateTrust, SaveTrust, LatchInv
  <2>2. mislaid' \subseteq Latches /\ standing' \subseteq Latches
    BY <1>2, <1>b DEF EvaluateTrust, SaveTrust, Accounted, Latches
  <2>3. UNCHANGED <<process, killed, killRow, coolingDown, operator>> /\ process
    BY <1>2 DEF EvaluateTrust
  <2>4. LatchTypeOK'
    BY <2>1, <2>2, <2>3, <1>b, <1>c DEF LatchTypeOK, Agrees, Latches
  <2>5. trust'.locked /\ "meta_governor" \notin mislaid' => trustRow'.locked
    BY <1>2 DEF EvaluateTrust, SaveTrust, Accounted
  <2>6. "meta_governor" \in standing' \ mislaid' => trust'.locked
    <3>1. CASE trust'.locked
      BY <3>1
    <3>2. CASE ~trust'.locked
      BY <3>2, <1>2, <2>1, <2>3 DEF EvaluateTrust, SaveTrust, Accounted, LatchInv
    <3> QED BY <3>1, <3>2
  <2>7. /\ "kill_switch" \in mislaid' <=> "kill_switch" \in mislaid
        /\ "kill_switch" \in standing' <=> "kill_switch" \in standing
    BY <1>2 DEF EvaluateTrust, SaveTrust, Accounted
  <2> QED BY <2>1, <2>3, <2>4, <2>5, <2>6, <2>7 DEF LatchInv, Agrees
<1>3. ASSUME NEW o \in Operators, NEW l \in Latches, RequestConfirmation(o, l)
      PROVE  LatchInv'
  <2>1. operator' \in [Operators -> [stage : {"away", "requested", "confirmed"}, latch : Latches]]
    BY <1>3, <1>b DEF RequestConfirmation
  <2> QED BY <1>3, <2>1 DEF RequestConfirmation, LatchInv, LatchTypeOK, latches, tables, claims,
                            EntriesTrusted
<1>4. ASSUME NEW o \in Operators, NEW right \in BOOLEAN, VerifyConfirmation(o, right)
      PROVE  LatchInv'
  <2>1. /\ operator' \in [Operators -> [stage : {"away", "requested", "confirmed"},
                                        latch : Latches]]
        /\ coolingDown' \in [Latches -> 0..Cooldown]
    <3>1. CASE right
      <4>1. operator[o] \in [stage : {"away", "requested", "confirmed"}, latch : Latches]
        BY <1>b
      <4>2. operator' = [operator EXCEPT ![o] = [operator[o] EXCEPT !.stage = "confirmed"]]
        BY <1>4, <3>1 DEF VerifyConfirmation
      <4>3. [operator[o] EXCEPT !.stage = "confirmed"]
               \in [stage : {"away", "requested", "confirmed"}, latch : Latches]
        BY <4>1
      <4> QED BY <1>4, <1>b, <3>1, <4>2, <4>3 DEF VerifyConfirmation
    <3>2. CASE ~right
      BY <1>4, <1>b, <3>2 DEF VerifyConfirmation, Away, Latches
    <3> QED BY <3>1, <3>2
  <2> QED BY <1>4, <2>1 DEF VerifyConfirmation, LatchInv, LatchTypeOK, latches, tables, claims,
                            EntriesTrusted
<1>5. ASSUME NEW o \in Operators, Release(o)
      PROVE  LatchInv'
  <2>1. operator' \in [Operators -> [stage : {"away", "requested", "confirmed"}, latch : Latches]]
    BY <1>5, <1>b DEF Release, Away, Latches
  <2>2. /\ UNCHANGED <<process, coolingDown>> /\ process
        /\ standing' = standing \ {operator[o].latch}
    BY <1>5 DEF Release
  <2>3. CASE operator[o].latch = "kill_switch"
    <3>1. ResetSwitch
      BY <1>5, <2>3 DEF Release
    <3>2. killed' = FALSE /\ UNCHANGED <<trust, trustRow, mislaid>> /\ killRow' \in BOOLEAN
      BY <3>1, <1>b DEF ResetSwitch, SaveSwitch, Accounted
    <3>3. LatchTypeOK'
      BY <2>1, <2>2, <3>2, <1>a, <1>b, <1>c DEF LatchTypeOK, Agrees
    <3> QED BY <2>2, <2>3, <3>2, <3>3 DEF LatchInv
  <2>4. CASE operator[o].latch = "meta_governor"
    <3>1. ResetTrust
      BY <1>5, <2>4 DEF Release
    <3>2. /\ trust' = [state |-> "DEGRADED", locked |-> FALSE]
          /\ trustRow' \in {trust', trustRow}
          /\ UNCHANGED <<killed, killRow, mislaid>>
      BY <3>1 DEF ResetTrust, SaveTrust, Accounted
    <3>3. Agrees(trust') /\ Agrees(trustRow')
      <4>1. Agrees(trust')
        BY <3>2 DEF Agrees, TrustRecords, TrustStates
      <4> QED BY <3>2, <4>1, <1>a
    <3>4. LatchTypeOK'
      BY <2>1, <2>2, <3>2, <3>3, <1>b, <1>c DEF LatchTypeOK, Agrees
    <3> QED BY <2>2, <2>4, <3>2, <3>3, <3>4 DEF LatchInv, Agrees
  <2> QED BY <1>b, <2>3, <2>4 DEF Latches
<1>6. CASE GateClock
  <2>1. coolingDown' \in [Latches -> 0..Cooldown]
    BY <1>6, <1>b DEF GateClock
  <2> QED BY <1>6, <2>1 DEF GateClock, LatchInv, LatchTypeOK, latches, tables, claims, EntriesTrusted
<1>7. CASE ProcessDies
  <2>1. /\ process' = FALSE /\ killed' = FALSE /\ trust' = Trusting
        /\ UNCHANGED <<killRow, trustRow, standing, mislaid>>
    BY <1>7 DEF ProcessDies, tables, claims
  <2>2. /\ coolingDown' \in [Latches -> 0..Cooldown]
        /\ operator' \in [Operators -> [stage : {"away", "requested", "confirmed"},
                                        latch : Latches]]
    BY <1>7 DEF ProcessDies, Away, Latches
  <2>3. Agrees(trust')
    BY <2>1 DEF Agrees, Trusting, TrustRecords, TrustStates
  <2>4. LatchTypeOK'
    BY <2>1, <2>2, <2>3, <1>a, <1>b, <1>c DEF LatchTypeOK, Agrees
  <2> QED BY <2>1, <2>3, <2>4, <1>a DEF LatchInv, Agrees
<1>8. CASE ProcessStarts
  <2>1. /\ process' = TRUE /\ trust' = trustRow
        /\ UNCHANGED <<killRow, trustRow, coolingDown, operator, standing>>
    BY <1>8 DEF ProcessStarts, tables
  <2>2. /\ killed' \in BOOLEAN /\ mislaid' \subseteq Latches
        /\ "kill_switch" \notin mislaid' => killed' = killRow /\ "kill_switch" \notin mislaid
        /\ killed' => killRow
        /\ "meta_governor" \in mislaid' <=> "meta_governor" \in mislaid
    <3>1. CASE killed' = killRow /\ UNCHANGED mislaid
      BY <1>b, <3>1
    <3>2. CASE killed' = FALSE /\ mislaid' = mislaid \union {"kill_switch"}
      BY <1>b, <3>2 DEF Latches
    <3> QED BY <1>8, <3>1, <3>2 DEF ProcessStarts
  <2>3. LatchTypeOK'
    BY <2>1, <2>2, <1>a, <1>b, <1>c DEF LatchTypeOK, Agrees
  <2> QED BY <2>1, <2>2, <2>3, <1>a DEF LatchInv, Agrees
<1>9. CASE UNCHANGED latchVars
  BY <1>9 DEF latchVars, latches, tables, claims, LatchInv, LatchTypeOK, EntriesTrusted
<1> QED BY <1>1, <1>2, <1>3, <1>4, <1>5, <1>6, <1>7, <1>8, <1>9 DEF LatchNext

\* The inductive invariant of the latches: memory and rows of what stands.
THEOREM LatchInvariant == LatchSpec => []LatchInv
  BY LatchInitInv, LatchStep, PTL DEF LatchSpec

\* For any number of operators and any cooldown a latch that was closed, and
\* was saved and loaded, denies entries until an operator has released it
\* (PersistentKillSwitch, SovereignMetaGovernor).
THEOREM LatchesAlwaysHold == LatchSpec => []LatchesHold
<1>1. LatchInv => LatchesHold
  BY DEF LatchInv, LatchTypeOK, LatchesHold, Closed, Latches
<1> QED BY LatchInvariant, <1>1, PTL

-----------------------------------------------------------------------------
(* RiskGates                                                               *)

\* The gates share no state: a behaviour of RiskGates is one of each gate, and
\* so the theorems above hold of it.
THEOREM GatesRunAlone ==
    Spec => /\ CapitalSpec /\ CatastropheSpec /\ DegradationSpec
            /\ BreakersSpec /\ GovernorSpec /\ LatchSpec
<1>1. Init => /\ CapitalInit /\ CatastropheInit /\ DegradationInit
              /\ BreakersInit /\ GovernorInit /\ LatchInit
  BY DEF Init
<1>2. ASSUME [Next]_vars
      PROVE  /\ [CapitalNext]_capitalVars /\ [CatastropheNext]_catastropheVars
             /\ [DegradationNext]_degradationVars /\ [BreakersNext]_breakerVars
             /\ [GovernorNext]_governorVars /\ [LatchNext]_latchVars
  BY <1>2 DEF Next, vars
<1> QED BY <1>1, <1>2, PTL
        DEF Spec, CapitalSpec, CatastropheSpec, DegradationSpec, BreakersSpec, GovernorSpec,
            LatchSpec

\* Every gate's state has its type, and what the types say of it: cooldowns with
\* their reasons, one streak at a time, counts that add up, quarantines that
\* lock what they hold, for all limits, thresholds and results.
THEOREM TypeCorrect == Spec => []TypeOK
<1>1. Spec => [](subject \in Subjects)
  <2>1. Init => subject \in Subjects
    BY DEF Init
  <2>2. subject \in Subjects /\ [Next]_vars => (subject \in Subjects)'
    BY DEF Next, vars
  <2> QED BY <2>1, <2>2, PTL DEF Spec
<1>2. CatastropheInvariant => CatastropheTypeOK
  BY DEF CatastropheInvariant
<1>3. DegradationInvariant => DegradationTypeOK
  BY DEF DegradationInvariant
<1>4. BreakersSpec => []BreakersInvariant
  BY BreakersStart, BreakersStep, PTL DEF BreakersSpec
<1>5. BreakersInvariant => BreakersTypeOK
  BY DEF BreakersInvariant
<1>6. GovernorInv => GovernorTypeOK
  BY DEF GovernorInv
<1>7. LatchInv => LatchTypeOK
  BY DEF LatchInv
<1> QED BY GatesRunAlone, CapitalTypes, CatastropheHolds, DegradationHolds, GovernorInvariant,
           LatchInvariant, <1>1, <1>2, <1>3, <1>4, <1>5, <1>6, <1>7, PTL DEF TypeOK
=============================================================================
