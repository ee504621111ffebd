--------------------------- MODULE CapitalManager ---------------------------
(***************************************************************************)
(* runtime/risk/capital_manager.py with the parts it coordinates: the      *)
(* drawdown tracker, the sizer (position_sizer.py), the exposure limits    *)
(* (risk_limits.py) and the daily limits.  validate_trade answers; what    *)
(* was approved becomes a position when the caller says so, and stops      *)
(* being one when the caller reports the trade.  Nothing here makes the    *)
(* caller do so in time: granted is what it has been granted since.        *)
(*                                                                         *)
(* Money is integral, a stop is a percentage of the entry, the price of an *)
(* approval is the entry.  A refused trade changes nothing and is left     *)
(* out.  The sizer's event and volatility factors are 1, Kelly sizing is   *)
(* used by nobody.  The capital of the manager and of its tracker are      *)
(* always assigned together.                                               *)
(***************************************************************************)
EXTENDS DrawdownTracker, FiniteSets, FiniteSetsExt

CONSTANTS
    Symbols,
    Correlations,    \* the pairs of symbols at or above correlation_threshold
    Stops,           \* distances of a stop, in percent of the entry
    InitialCapital,
    PnLs,            \* results a trade may have
    Transfers,       \* differences between the exchange's balance and ours
    PositionPct, AggregatePct, CorrelatedPct,  \* max_*_exposure_pct, max_position_size_pct
    HeatPct, MaxPositions,
    MaxEntries, MaxExits, MaxOrders,  \* DailyLimits
    MaxValue,        \* bound: the value prices may take a position to
    Quotas           \* bounds to explore: [approvals, events]; an event is a
                     \* trade recorded or a balance read

ASSUME CapitalAssumption ==
    /\ IsFiniteSet(Symbols)
    /\ InitialCapital \in Nat /\ PnLs \subseteq Int /\ Transfers \subseteq Int
    /\ Stops \subseteq Nat \ {0} /\ Correlations \subseteq SUBSET Symbols
    /\ {PositionPct, AggregatePct, CorrelatedPct, HeatPct, MaxPositions} \subseteq Nat
    /\ {MaxEntries, MaxExits, MaxOrders, MaxValue} \subseteq Nat
    /\ Quotas \subseteq [approvals : Nat, events : Nat]

VARIABLES
    tracker,     \* the DrawdownTracker
    sizer,       \* the PositionSizer: its streaks and its risk in basis points
    regime,      \* EXPANSION only scales sizes and is left out
    positions,   \* the positions the limits know of, or Nothing
    granted,     \* caller: approvals that are not positions yet, or Nothing
    cooling,     \* less than min_entry_cooldown_sec since the last approval
    today,       \* counts of DailyLimits for the day
    left         \* bound: what is left of the quota

book == <<positions, granted>>
capitalVars == <<tracker, sizer, regime, book, cooling, today, left>>

Nothing == [value |-> 0, stop |-> 0]
NoOrders == [entries |-> 0, exits |-> 0, orders |-> 0]
Capital == tracker.capital

\* A cooldown has its reason, and no other state is left with one, save the
\* maximum drawdown, which hides the cooldown it overrides.
ReasonFits(t) ==
    CASE t.state = "DAILY_COOLDOWN" ->
           t.reason = "DAILY_LOSS" \/ (t.reason = "CONSECUTIVE_LOSS" /\ t.losses >= LossHalt)
      [] t.state = "WEEKLY_COOLDOWN" -> t.reason = "WEEKLY_LOSS"
      [] t.state \in {"NORMAL", "WARNING", "REDUCED_RISK"} -> t.reason = "none"
      [] t.state = "MAXIMUM_DRAWDOWN" -> TRUE

CapitalTypeOK ==
    /\ tracker \in Trackers /\ ReasonFits(tracker)
    /\ tracker.wins = 0 \/ tracker.losses = 0
    /\ sizer \in [wins : Nat, losses : Nat, bp : {50, 75, 100, 125, 150}]
    /\ regime \in {"SIDEWAYS", "DISABLED"}
    /\ positions \in [Symbols -> [value : Nat, stop : Stops \union {0}]]
    /\ granted \in [Symbols -> [value : Nat, stop : Stops \union {0}]]
    /\ cooling \in BOOLEAN
    /\ today \in [entries : 0..MaxEntries, exits : 0..MaxExits, orders : 0..MaxOrders]
    /\ today.orders = today.entries + today.exits
    /\ left \in [approvals : Nat, events : Nat]

CapitalInit ==
    /\ tracker = NewTracker(InitialCapital)
    /\ sizer = [wins |-> 0, losses |-> 0, bp |-> 100]
    /\ regime = "SIDEWAYS"
    /\ positions = [s \in Symbols |-> Nothing]
    /\ granted = [s \in Symbols |-> Nothing]
    /\ cooling = FALSE
    /\ today = NoOrders
    /\ left \in Quotas

-----------------------------------------------------------------------------
(* RiskLimitsChecker                                                       *)

Others(s) == {t \in Symbols \ {s} : positions[t] /= Nothing}
ValueOf(S) == MapThenSumSet(LAMBDA t : positions[t].value, S)
HeatOf(S) == MapThenSumSet(LAMBDA t : positions[t].value * positions[t].stop, S)
CorrelatedOthers(s) == {t \in Others(s) : {s, t} \in Correlations}
Within(value, pct) == 100 * value <= pct * Capital

WithinExposure(s, value) ==
    /\ Within(value, PositionPct)
    /\ Within(ValueOf(Others(s)) + value, AggregatePct)
    /\ Within(ValueOf(CorrelatedOthers(s)) + value, CorrelatedPct)

\* check_new_position: no violation.
WithinLimits(s, value, stop) ==
    /\ WithinExposure(s, value)
    /\ positions[s] /= Nothing \/ Cardinality(Others(s)) < MaxPositions
    /\ HeatOf(Others(s)) + value * stop <= HeatPct * Capital

Share(pct) == (pct * Capital) \div 100

\* Mutant: the correlated limit is forgotten.
MaxAllowedUncorrelated(s) ==
    Max({0, Min({Share(PositionPct), Share(AggregatePct) - ValueOf(Others(s))})})

\* The value the three exposure limits leave; count and heat are not asked,
\* and the value may exceed the one that was refused.
MaxAllowed(s) ==
    Max({0, Min({Share(PositionPct), Share(AggregatePct) - ValueOf(Others(s)),
                 Share(CorrelatedPct) - ValueOf(CorrelatedOthers(s))})})

-----------------------------------------------------------------------------
(* PositionSizer                                                           *)

\* The value that risks the sizer's share of the capital at the stop.
Sized(stop) == IF Capital <= 0 THEN 0 ELSE (Capital * sizer.bp) \div (100 * stop)

\* A trade without profit counts as a loss here, unlike in the tracker.
SizerAfter(pnl) ==
    LET wins == IF pnl > 0 THEN sizer.wins + 1 ELSE 0
        losses == IF pnl > 0 THEN 0 ELSE sizer.losses + 1
    IN [wins |-> wins, losses |-> losses,
        bp |-> CASE wins >= 5 -> 150
                 [] wins \in 3..4 -> 125
                 [] wins \in 1..2 -> sizer.bp
                 [] losses = 1 -> 100
                 [] losses \in 2..3 -> 75
                 [] losses >= 4 -> 50]

-----------------------------------------------------------------------------
(* validate_trade and what the caller makes of it                          *)

MayEnter ==
    /\ TradingAllowed(tracker) /\ regime /= "DISABLED"
    /\ ~cooling
    /\ today.entries < MaxEntries /\ today.orders < MaxOrders

\* The size is multiplied for the drawdown, then fitted into the limits.
Wanted(stop) == (Sized(stop) * SizeMultiplier(tracker)) \div 100
Fitted(s, stop) ==
    IF Capital <= 0 THEN 0
    ELSE IF WithinLimits(s, Wanted(stop), stop) THEN Wanted(stop) ELSE MaxAllowed(s)

Approve(s, stop) ==
    /\ left.approvals > 0
    /\ granted[s] = Nothing  \* the caller waits for the order it has placed
    /\ MayEnter
    /\ Wanted(stop) > 0 /\ Fitted(s, stop) > 0
    /\ granted' = [granted EXCEPT ![s] = [value |-> Fitted(s, stop), stop |-> stop]]
    /\ cooling' = TRUE
    /\ today' = [today EXCEPT !.entries = @ + 1, !.orders = @ + 1]
    /\ left' = [left EXCEPT !.approvals = @ - 1]
    /\ UNCHANGED <<tracker, sizer, regime, positions>>

CallerTracks(s) ==
    /\ granted[s] /= Nothing
    /\ positions' = [positions EXCEPT ![s] = granted[s]]
    /\ granted' = [granted EXCEPT ![s] = Nothing]
    /\ UNCHANGED <<tracker, sizer, regime, cooling, today, left>>

CallerGivesUp(s) ==
    /\ granted[s] /= Nothing
    /\ granted' = [granted EXCEPT ![s] = Nothing]
    /\ UNCHANGED <<tracker, sizer, regime, positions, cooling, today, left>>

RemovePosition(s) ==
    /\ positions[s] /= Nothing
    /\ positions' = [positions EXCEPT ![s] = Nothing]
    /\ UNCHANGED <<tracker, sizer, regime, granted, cooling, today, left>>

\* update_position_price, for a price that doubles the position's value.
PriceDoubles(s) ==
    /\ positions[s].value \in 1..(MaxValue \div 2)
    /\ positions' = [positions EXCEPT ![s].value = 2 * @]
    /\ UNCHANGED <<tracker, sizer, regime, granted, cooling, today, left>>

\* The symbol is optional, and need not be that of a position the limits know.
RecordTradeResult(s, pnl) ==
    /\ left.events > 0
    /\ tracker' = RecordTrade(tracker, pnl)
    /\ sizer' = SizerAfter(pnl)
    /\ positions' = [positions EXCEPT ![s] = Nothing]
    /\ left' = [left EXCEPT !.events = @ - 1]
    /\ UNCHANGED <<regime, granted, cooling, today>>

\* The exchange's balance, which may hold transfers and results not recorded.
BalanceIsRead(difference) ==
    /\ left.events > 0
    /\ tracker' = UpdateCapital(tracker, Capital + difference)
    /\ left' = [left EXCEPT !.events = @ - 1]
    /\ UNCHANGED <<sizer, regime, book, cooling, today>>

\* can_place_exit, then record_exit_order.
PlaceExit ==
    /\ today.exits < MaxExits /\ today.orders < MaxOrders
    /\ today' = [today EXCEPT !.exits = @ + 1, !.orders = @ + 1]
    /\ UNCHANGED <<tracker, sizer, regime, book, cooling, left>>

\* Midnight, which every reader of the counts notices, or reset_daily_limits.
DailyLimitsReset ==
    /\ today' = NoOrders
    /\ UNCHANGED <<tracker, sizer, regime, book, cooling, left>>

CooldownPasses ==
    /\ cooling' = FALSE
    /\ UNCHANGED <<tracker, sizer, regime, book, today, left>>

SetRegime(r) ==
    /\ regime' = r
    /\ UNCHANGED <<tracker, sizer, book, cooling, today, left>>

\* reset_daily, reset_weekly and force_clear_consecutive_halt.
ResetTracker ==
    /\ tracker' \in {ResetDaily(tracker), ResetWeekly(tracker), ForceClear(tracker)}
    /\ UNCHANGED <<sizer, regime, book, cooling, today, left>>

CapitalNext ==
    \/ \E s \in Symbols :
          \/ \E stop \in Stops : Approve(s, stop)
          \/ CallerTracks(s) \/ CallerGivesUp(s)
          \/ RemovePosition(s) \/ PriceDoubles(s)
          \/ \E pnl \in PnLs : RecordTradeResult(s, pnl)
    \/ \E d \in Transfers : BalanceIsRead(d)
    \/ PlaceExit \/ DailyLimitsReset \/ CooldownPasses
    \/ \E r \in {"SIDEWAYS", "DISABLED"} : SetRegime(r)
    \/ ResetTracker

CapitalSpec == CapitalInit /\ [][CapitalNext]_capitalVars

-----------------------------------------------------------------------------
\* A limit of the tracker is broken.
Breached(t) ==
    \/ t.losses >= LossHalt
    \/ Below(t.day, t.capital, DailyPct)
    \/ Below(t.week, t.capital, WeeklyPct)

\* After a trade that leaves the day's loss, the week's loss or the streak
\* beyond its limit no entry is possible, whichever of the checks that share
\* the state came first and whatever they found there; the maximum drawdown,
\* which trades on at a quarter of the size, is the one exception
\* (_check_all_limits).
BreachesHaltTrading ==
    [][(\E s \in Symbols, pnl \in PnLs : RecordTradeResult(s, pnl)) =>
          (Breached(tracker') =>
              ~TradingAllowed(tracker') \/ tracker'.state = "MAXIMUM_DRAWDOWN")]_capitalVars

\* An approved value fits the position, aggregate and correlated limits with
\* the positions known, also when it is not the value that was asked for but
\* the adjusted one, which check_new_position is not asked about again
\* (validate_trade, _calculate_max_allowed_size).
ApprovalsFitExposure ==
    [][\A s \in Symbols :
          granted[s] = Nothing /\ granted'[s] /= Nothing => WithinExposure(s, granted'[s].value)]_capitalVars
=============================================================================
