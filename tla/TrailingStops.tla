---------------------------- MODULE TrailingStops ----------------------------
(***************************************************************************)
(* runtime/exchange/trailing_stop_manager.py for one position: the stop it *)
(* trails, the trailing_stops row it persists (P2), the caller that        *)
(* carries each requested price to the exchange, and the stop order there. *)
(*                                                                         *)
(* update_price only asks; confirm_stop_update, called with the exchange's *)
(* answer, adopts a price (AUDIT-P0-9).  A caller that answers from within *)
(* the callback holds the manager's lock meanwhile, so one request is      *)
(* under way at a time.  One that answers later lets requests overlap,     *)
(* which is one of the faults a behaviour may have:                        *)
(*   overlap     update_price runs while a request is under way            *)
(*   lostAnswer  a price is taken, and reported as failed or not at all    *)
(*   midCrash    the process dies with a request under way, or in the      *)
(*               middle of a call                                          *)
(*   rowWrite    a write of the row fails, which is swallowed              *)
(*   rowRead     the rows cannot be loaded at a start, which is swallowed  *)
(*   staleQuery  the stop moves between the query and the reconciliation   *)
(* Prices are integers and percentages are in basis points; the rounding   *)
(* of floats is left out, as are the statistics and get_divergent_stops,   *)
(* which only reports.                                                     *)
(***************************************************************************)
EXTENDS Integers, FiniteSets

CONSTANTS
    Ticks,         \* the market prices that may be seen
    Atrs,          \* the ATR values that may come with them
    EntryPrice,    \* entry_price
    InitialRisk,   \* distance of the initial stop from the entry
    TrailBp,       \* trail_distance_pct
    AtrMultiplier, \* atr_multiplier
    TriggerBp,     \* break_even_trigger_pct
    OffsetBp,      \* break_even_offset_pct
    StepBp,        \* step_size_pct
    StepTrailBp,   \* step_trail_pct
    MinMoveBp,     \* min_move_to_update_pct
    Setups,        \* the directions, modes and sets of faults to consider
    MaxRequests    \* bound: requests under way at once, answers included

Modes == {"FIXED_DISTANCE", "ATR_MULTIPLE", "BREAK_EVEN_ONLY", "STEPPED"}
Faults == {"overlap", "lostAnswer", "midCrash", "rowWrite", "rowRead", "staleQuery"}

ASSUME PricesAssumption ==
    /\ Ticks \subseteq Nat \ {0} /\ Atrs \subseteq Nat \ {0}
    /\ EntryPrice \in Nat \ {0} /\ InitialRisk \in Nat
    /\ TrailBp \in Nat /\ AtrMultiplier \in Nat /\ TriggerBp \in Nat /\ OffsetBp \in Nat
    /\ StepBp \in Nat \ {0} /\ StepTrailBp \in Nat
    /\ MinMoveBp \in Nat \ {0}
\* No stop of a SHORT is trailed to zero or below, nor starts there for a LONG.
ASSUME PositiveStopsAssumption ==
    InitialRisk < EntryPrice /\ OffsetBp < 10000 /\ StepTrailBp <= StepBp
ASSUME SetupsAssumption ==
    Setups \subseteq [direction : {"LONG", "SHORT"}, mode : Modes, faults : SUBSET Faults]
ASSUME RequestsAssumption == MaxRequests \in Nat \ {0}

VARIABLES
    setup,         \* direction and mode of the stop, and the faults
    up,            \* the process is running
    stop,          \* the TrailingStopState, or NotTracked
    row,           \* its row in trailing_stops, or NotTracked
    exchangeStop,  \* exchange: the price of the stop order, or Gone
    requests,      \* prices asked for and not yet handled by the exchange
    answers,       \* answers of the exchange on their way to the caller
    queried,       \* the price a reconciliation has queried, or NotQueried
    position,      \* open, closed: unregister_stop has returned, or closing:
                   \* the process died in the middle of unregister_stop
    had            \* history: the prices the stop order has had

exchange == <<exchangeStop, had>>
wire == <<requests, answers>>
vars == <<setup, up, stop, row, exchange, wire, queried, position>>

-----------------------------------------------------------------------------
None == 0          \* no pending price, no ATR
Gone == 0          \* the stop order was filled or cancelled
NotQueried == -1
NotTracked == [tracked |-> FALSE, current |-> 0, watermark |-> 0, be |-> FALSE,
               pending |-> None, atr |-> None]

\* Protective is up for a LONG and down for a SHORT.
Sign == IF setup.direction = "LONG" THEN 1 ELSE -1
Gain(from, to) == Sign * (to - from)
Better(new, old) == Gain(old, new) > 0
Beyond(price, distance) == price - Sign * distance
Bp(price, points) == (price * points) \div 10000

InitialStop == Beyond(EntryPrice, InitialRisk)
BreakEvenStop == Beyond(EntryPrice, -Bp(EntryPrice, OffsetBp))

Fault(f) == f \in setup.faults
UnderWay == requests /= {} \/ answers /= {}

-----------------------------------------------------------------------------
(* _calculate_new_stop                                                     *)

Steps(watermark) == (10000 * Gain(EntryPrice, watermark)) \div (EntryPrice * StepBp)

\* Where the mode would have the stop, or None.
Level(st) ==
    CASE setup.mode = "FIXED_DISTANCE" -> Beyond(st.watermark, Bp(st.watermark, TrailBp))
      [] setup.mode = "ATR_MULTIPLE" ->
           IF st.atr = None THEN None ELSE Beyond(st.watermark, st.atr * AtrMultiplier)
      [] setup.mode = "STEPPED" ->
           IF Steps(st.watermark) > 0
           THEN Beyond(EntryPrice, -Bp(EntryPrice, Steps(st.watermark) * StepTrailBp)) ELSE None
      [] setup.mode = "BREAK_EVEN_ONLY" -> None

Triggers(st, price) ==
    ~st.be /\ 10000 * Gain(EntryPrice, price) >= TriggerBp * EntryPrice

\* Mutant: once at break-even the stop is not trailed any further.
StaysAtBreakEven(st, price) ==
    IF Triggers(st, price) /\ Better(BreakEvenStop, st.current) THEN BreakEvenStop
    ELSE IF ~st.be /\ Level(st) /= None /\ Better(Level(st), st.current) THEN Level(st)
    ELSE None

\* The break-even move comes first, and only at the tick that triggers it.
NewStop(st, price) ==
    IF Triggers(st, price) /\ Better(BreakEvenStop, st.current) THEN BreakEvenStop
    ELSE IF Level(st) /= None /\ Better(Level(st), st.current) THEN Level(st)
    ELSE None

\* min_move_to_update_pct, against the stop last confirmed.
Significant(new, old) == 10000 * Gain(old, new) >= MinMoveBp * EntryPrice

-----------------------------------------------------------------------------
Init ==
    /\ setup \in Setups
    /\ up = TRUE
    /\ stop = NotTracked
    /\ row = NotTracked
    /\ exchangeStop = InitialStop
    /\ had = {InitialStop}
    /\ requests = {}
    /\ answers = {}
    /\ queried = NotQueried
    /\ position = "open"

\* Mutant: the pending price is saved with the rest.
RowWithPending(st) == st

\* The columns of the row: what is pending is not among them.
RowOf(st) == [st EXCEPT !.pending = None]

Persist(st) == row' = RowOf(st) \/ (Fault("rowWrite") /\ row' = row)

\* register_trailing_stop, with the stop the caller has placed.
Register ==
    /\ up /\ ~stop.tracked /\ position = "open"
    /\ exchangeStop /= Gone
    /\ stop' = [tracked |-> TRUE, current |-> InitialStop, watermark |-> EntryPrice,
                be |-> FALSE, pending |-> None, atr |-> None]
    /\ Persist(stop')
    /\ UNCHANGED <<setup, up, exchange, wire, queried, position>>

\* Mutant: the state takes the new price when it asks for it.
AdoptsOnRequest(st, price) ==
    LET new == NewStop(st, price) IN
    [st EXCEPT !.be = @ \/ Triggers(st, price),
               !.pending = IF new /= None /\ Significant(new, st.current) THEN new ELSE @,
               !.current = IF new /= None /\ Significant(new, st.current) THEN new ELSE @]

\* The state after a tick: the trigger is remembered even if the move is not
\* made, and a new request replaces the one pending.
Ticked(st, price) ==
    LET new == NewStop(st, price) IN
    [st EXCEPT !.be = @ \/ Triggers(st, price),
               !.pending = IF new /= None /\ Significant(new, st.current) THEN new ELSE @]

\* Watermark and ATR are updated before the new price is calculated.
Observe(price, atr) ==
    [stop EXCEPT !.watermark = IF Better(price, @) THEN price ELSE @,
                 !.atr = IF atr = None THEN @ ELSE atr]

\* update_price: a tick that moves nothing asks for nothing.
UpdatePrice ==
    /\ up /\ stop.tracked
    /\ UnderWay => Fault("overlap")
    /\ queried /= NotQueried => Fault("staleQuery")
    /\ \E price \in Ticks, atr \in Atrs \union {None} :
         LET seen == Observe(price, atr)
             new == NewStop(seen, price)
         IN
         /\ atr /= None => setup.mode = "ATR_MULTIPLE"
         /\ stop' = Ticked(seen, price)
         /\ requests' = IF new /= None /\ Significant(new, stop.current)
                        THEN requests \union {new} ELSE requests
    /\ Cardinality(requests') + Cardinality(answers) <= MaxRequests
    /\ UNCHANGED <<setup, up, row, exchange, answers, queried, position>>

\* Mutant: the price is adopted and not saved.
ConfirmOnlyInMemory(price) ==
    /\ stop' = [stop EXCEPT !.current = price, !.pending = None]
    /\ row' = row

\* confirm_stop_update; a price other than the pending one is only warned about.
Confirm(price) ==
    IF stop.tracked /\ stop.pending /= None
    THEN /\ stop' = [stop EXCEPT !.current = price, !.pending = None]
         /\ Persist(stop')
    ELSE UNCHANGED <<stop, row>>

\* fail_stop_update
Fail ==
    /\ stop' = [stop EXCEPT !.pending = None]
    /\ UNCHANGED row

Answer(ok, price) == [ok |-> ok, price |-> price]

CallerHears ==
    /\ up
    /\ \E a \in answers :
         /\ answers' = answers \ {a}
         /\ IF a.ok THEN Confirm(a.price) ELSE Fail
    /\ UNCHANGED <<setup, up, exchange, requests, queried, position>>

\* unregister_stop: the state, and then its row, tracked or not.
Unregister ==
    /\ up
    /\ ~UnderWay \/ Fault("overlap")
    /\ stop' = NotTracked
    /\ row' = NotTracked \/ (Fault("rowWrite") /\ row' = row)
    /\ position' = "closed"
    /\ UNCHANGED <<setup, up, exchange, wire, queried>>

-----------------------------------------------------------------------------
(* reconcile_with_exchange: the caller queries, then hands in what it got. *)

Query ==
    /\ up /\ queried = NotQueried
    /\ ~UnderWay \/ Fault("staleQuery")
    /\ queried' = exchangeStop
    /\ UNCHANGED <<setup, up, stop, row, exchange, wire, position>>

Differs(price) ==
    1000 * (IF price > stop.current THEN price - stop.current ELSE stop.current - price) > stop.current

\* A stop that is gone is only reported.
Reconcile ==
    /\ up /\ queried /= NotQueried
    /\ queried' = NotQueried
    /\ IF stop.tracked /\ queried /= Gone /\ Differs(queried)
       THEN /\ stop' = [stop EXCEPT !.current = queried]
            /\ Persist(stop')
       ELSE UNCHANGED <<stop, row>>
    /\ UNCHANGED <<setup, up, exchange, wire, position>>

-----------------------------------------------------------------------------
(* The exchange                                                            *)

Accept(price) ==
    /\ exchangeStop /= Gone /\ price \in requests
    /\ exchangeStop' = price
    /\ had' = had \union {price}
    /\ requests' = requests \ {price}
    /\ \/ answers' = answers \union {Answer(TRUE, price)}
       \/ Fault("lostAnswer") /\ answers' \in {answers, answers \union {Answer(FALSE, price)}}
    /\ UNCHANGED <<setup, up, stop, row, queried, position>>

Refuse(price) ==
    /\ price \in requests
    /\ requests' = requests \ {price}
    /\ answers' = answers \union {Answer(FALSE, price)}
    /\ UNCHANGED <<setup, up, stop, row, exchange, queried, position>>

\* The stop order is filled, or cancelled from elsewhere.
StopLeaves ==
    /\ exchangeStop /= Gone
    /\ exchangeStop' = Gone
    /\ UNCHANGED <<setup, up, stop, row, had, wire, queried, position>>

-----------------------------------------------------------------------------
(* Crashes and restarts                                                    *)

\* In the middle of unregister_stop, the row is still there.  Otherwise a call
\* that had not reached the row might as well not have begun.
Crash ==
    /\ up
    /\ UnderWay => Fault("midCrash")
    /\ up' = FALSE
    /\ stop' = NotTracked
    /\ answers' = {}
    /\ queried' = NotQueried
    /\ \/ UNCHANGED position
       \/ Fault("midCrash") /\ position = "open" /\ position' = "closing"
    /\ UNCHANGED <<setup, row, exchange, requests>>

\* _load_persisted_state, after which a failure has left nothing tracked.
Restart ==
    /\ ~up
    /\ up' = TRUE
    /\ stop' = row \/ (Fault("rowRead") /\ stop' = NotTracked)
    /\ UNCHANGED <<setup, row, exchange, wire, queried, position>>

-----------------------------------------------------------------------------
Next ==
    \/ Register \/ UpdatePrice \/ CallerHears \/ Unregister
    \/ Query \/ Reconcile
    \/ \E price \in requests : Accept(price) \/ Refuse(price)
    \/ StopLeaves
    \/ Crash \/ Restart

(***************************************************************************)
(* Ticks keep coming, whatever else is going on; answers are handled, a    *)
(* reconciliation begun is finished, a process that died is started again; *)
(* and the exchange does not refuse every request for ever.                *)
(***************************************************************************)
Fairness ==
    /\ SF_vars(UpdatePrice)
    /\ WF_vars(CallerHears) /\ WF_vars(Reconcile) /\ WF_vars(Restart)
    /\ SF_vars(\E price \in requests : Accept(price))

Spec == Init /\ [][Next]_vars /\ Fairness

-----------------------------------------------------------------------------
(* Properties                                                              *)

Prices == Nat \ {0}
StopStates ==
    [tracked : BOOLEAN, current : Nat, watermark : Nat, be : BOOLEAN,
     pending : Nat, atr : Atrs \union {None}]

\* Every variable has its type, a tracked stop has a price and a watermark, and
\* what is pending is never in the row.
TypeOK ==
    /\ setup \in Setups
    /\ up \in BOOLEAN /\ position \in {"open", "closing", "closed"}
    /\ stop \in StopStates /\ row \in StopStates
    /\ stop.tracked => stop.current /= 0 /\ stop.watermark /= 0
    /\ row.pending = None
    /\ exchangeStop \in Nat
    /\ requests \subseteq Prices
    /\ answers \subseteq [ok : BOOLEAN, price : Prices]
    /\ queried \in Nat \union {NotQueried}
    /\ had \subseteq Prices

\* AUDIT-P0-9: whatever is lost, late or repeated, the manager and its row
\* claim no price that the stop order has not had; and without faults the
\* manager is never wrong about a stop that is there once nothing is under way,
\* across refusals, crashes and restarts.
ClaimsAreTrue ==
    /\ stop.tracked => stop.current \in had
    /\ row.tracked => row.current \in had
    /\ (setup.faults = {} /\ up /\ stop.tracked /\ ~UnderWay /\ exchangeStop /= Gone)
          => stop.current = exchangeStop

\* P2, as long as the row is written: wherever the process dies, a restart
\* finds what the manager held, which is the row: tracked, its confirmed price,
\* and a watermark and a trigger no further on.  Of a position whose stop was
\* unregistered it finds nothing; of one that died in the middle of
\* unregister_stop it may find the stop again.  A start that could not read the
\* rows tracks nothing, but then neither loses the row nor invents a stop.
RestartFindsTheConfirmed ==
    (up /\ ~Fault("rowWrite")) =>
        /\ row.tracked => position /= "closed"
        /\ row.tracked /\ ~Fault("rowRead") => stop.tracked
        /\ stop.tracked => /\ row.tracked
                           /\ row.current = stop.current
                           /\ ~Better(row.watermark, stop.watermark)
                           /\ row.be => stop.be

\* The ratchet: without faults the stop order only ever moves in the direction
\* that protects the position, whichever mode trails it.
ExchangeNeverLoosens ==
    [][ (setup.faults = {} /\ exchangeStop' /= Gone) => ~Better(exchangeStop, exchangeStop') ]_vars

\* Without faults, and in the modes that trail, a stop order that is behind the
\* level of its mode by a significant move is brought forward, refusals or not.
Behind ==
    /\ setup.faults = {} /\ up /\ stop.tracked /\ exchangeStop /= Gone
    /\ Level(stop) /= None
    /\ Significant(Level(stop), exchangeStop)

StopsFollow == Behind ~> ~Behind
=============================================================================
