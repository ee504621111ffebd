--------------------------- MODULE CircuitBreakers ---------------------------
(***************************************************************************)
(* runtime/risk/circuit_breaker.py: breakers that trip and stay tripped    *)
(* until they are reset.  RapidLossBreaker is followed with the session it *)
(* counts; the others trip on numbers they are given and are detectors,    *)
(* each of which may trip at any time.  Amounts are integers and limits    *)
(* percentages.  HALF_OPEN and cooldown_seconds are used by nothing, and   *)
(* events only report.                                                     *)
(***************************************************************************)
EXTENDS Integers

CONSTANTS
    Detectors,        \* names of the other breakers
    Results,          \* results a trade may have
    Capitals,         \* capitals that may be set
    SingleLossPct,    \* single_trade_loss_pct
    SessionLossPct,   \* session_loss_pct
    StreakLimit,      \* consecutive_losses
    MinTrades,        \* min_trades_for_streak
    ManualReset,      \* manual_reset_required
    MaxTrades         \* bound: trades recorded in a session

ASSUME BreakersAssumption ==
    /\ "rapid_loss" \notin Detectors
    /\ Results \subseteq Int /\ Capitals \subseteq Nat
    /\ {SingleLossPct, SessionLossPct, MinTrades, MaxTrades} \subseteq Nat
    /\ StreakLimit \in Nat \ {0}
    /\ ManualReset \in BOOLEAN

VARIABLES
    tripped,   \* the breakers that are OPEN
    capital,   \* _capital of the rapid-loss breaker
    session,   \* its _session_pnl, _consecutive_losses and _total_trades
    losing     \* history: losses recorded one after the other since it was reset

breakerVars == <<tripped, capital, session, losing>>

Breakers == Detectors \union {"rapid_loss"}
NewSession == [pnl |-> 0, streak |-> 0, total |-> 0]

BreakersInit ==
    /\ tripped = {}
    /\ capital = 0
    /\ session = NewSession
    /\ losing = 0

-----------------------------------------------------------------------------
\* trip: one that is OPEN stays as it is.
Detects(b) ==
    /\ tripped' = tripped \union {b}
    /\ UNCHANGED <<capital, session, losing>>

\* A loss is more than the share of the capital.
Exceeds(pnl, pct) == pnl < 0 /\ 100 * (-pnl) > pct * capital

\* Mutant: the minimum of trades is asked before a loss is counted (H7-A).
StreakAfterMinimum(pnl, counted) ==
    IF pnl >= 0 THEN 0
    ELSE IF counted.total < MinTrades THEN counted.streak ELSE counted.streak + 1

StreakAfter(pnl, counted) == IF pnl >= 0 THEN 0 ELSE counted.streak + 1

\* record_trade: what trips for the trade or the session returns before the
\* streak is counted, or put back by a win.  Without capital nothing is counted.
RecordResult(pnl) ==
    LET counted == [session EXCEPT !.pnl = @ + pnl, !.total = @ + 1]
        streak == StreakAfter(pnl, counted)
    IN /\ capital > 0
       /\ session.total < MaxTrades
       /\ losing' = IF pnl < 0 THEN losing + 1 ELSE 0
       /\ UNCHANGED capital
       /\ \/ /\ Exceeds(pnl, SingleLossPct) \/ Exceeds(counted.pnl, SessionLossPct)
             /\ session' = counted
             /\ tripped' = tripped \union {"rapid_loss"}
          \/ /\ ~Exceeds(pnl, SingleLossPct) /\ ~Exceeds(counted.pnl, SessionLossPct)
             /\ session' = [counted EXCEPT !.streak = streak]
             /\ tripped' = IF pnl < 0 /\ streak >= StreakLimit /\ counted.total >= MinTrades
                           THEN tripped \union {"rapid_loss"} ELSE tripped

SetCapital(c) ==
    /\ capital' = c
    /\ UNCHANGED <<tripped, session, losing>>

\* reset_session: the breaker itself stays as it is.
ResetSession ==
    /\ session' = NewSession
    /\ losing' = 0
    /\ UNCHANGED <<tripped, capital>>

\* reset: neither the session nor its streak begins anew.
ResetBreaker(b, manual) ==
    /\ manual \/ ~ManualReset
    /\ tripped' = tripped \ {b}
    /\ losing' = IF b = "rapid_loss" THEN 0 ELSE losing
    /\ UNCHANGED <<capital, session>>

BreakersNext ==
    \/ \E b \in Detectors : Detects(b)
    \/ \E pnl \in Results : RecordResult(pnl)
    \/ \E c \in Capitals : SetCapital(c)
    \/ ResetSession
    \/ \E b \in Breakers, manual \in BOOLEAN : ResetBreaker(b, manual)

BreakersSpec == BreakersInit /\ [][BreakersNext]_breakerVars

-----------------------------------------------------------------------------
\* Types; every loss of a run is a trade of the session.
BreakersTypeOK ==
    /\ tripped \subseteq Breakers
    /\ capital \in Capitals \union {0}
    /\ session \in [pnl : Int, streak : Nat, total : 0..MaxTrades]
    /\ session.streak <= session.total
    /\ losing \in 0..session.total

\* "5 consecutive losses", of at least min_trades_for_streak trades: a run of
\* losses since the breaker was last reset has tripped it when it reaches both
\* numbers, although losses that trip for another reason are not counted, wins
\* may not end the count, and the capital the limits refer to changes
\* (RapidLossBreaker.record_trade, H7-A).
RunsOfLossesTrip ==
    losing >= StreakLimit /\ session.total >= MinTrades => "rapid_loss" \in tripped
=============================================================================
