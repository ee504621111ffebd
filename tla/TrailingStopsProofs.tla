------------------------- MODULE TrailingStopsProofs -------------------------
(***************************************************************************)
(* Proofs about the trailing stop: the types of its state, what it claims  *)
(* of the stop order, what a restart finds, and the ratchet.               *)
(***************************************************************************)
EXTENDS TrailingStops, TLAPS

-----------------------------------------------------------------------------
(* Prices                                                                  *)

\* Directions, written out.
LEMMA Directions ==
    ASSUME setup \in Setups
    PROVE  /\ \A new, old \in Int :
                Better(new, old) <=> IF setup.direction = "LONG" THEN new > old ELSE new < old
           /\ \A price, distance \in Int :
                Beyond(price, distance) =
                    IF setup.direction = "LONG" THEN price - distance ELSE price + distance
<1>1. CASE setup.direction = "LONG"
  BY <1>1 DEF Better, Gain, Beyond, Sign
<1>2. CASE setup.direction /= "LONG"
  BY <1>2 DEF Better, Gain, Beyond, Sign
<1> QED BY <1>1, <1>2

LEMMA SetupType ==
    ASSUME setup \in Setups
    PROVE  /\ setup.direction \in {"LONG", "SHORT"}
           /\ setup.mode \in Modes
           /\ setup.faults \in SUBSET Faults
BY SetupsAssumption

\* The stop a position starts with has a price.
LEMMA InitialStopIsAPrice ==
    ASSUME setup \in Setups
    PROVE  InitialStop \in Prices
<1>1. EntryPrice \in Int /\ InitialRisk \in Int
  BY PricesAssumption
<1>2. InitialStop = IF setup.direction = "LONG" THEN EntryPrice - InitialRisk
                                                ELSE EntryPrice + InitialRisk
  BY <1>1, Directions DEF InitialStop
<1> QED BY <1>2, PricesAssumption, PositiveStopsAssumption DEF Prices

\* A part of a price that is less than the whole, in basis points.
LEMMA PartOfPrice ==
    ASSUME NEW price \in Nat \ {0}, NEW points \in Nat, points < 10000
    PROVE  Bp(price, points) \in Nat /\ Bp(price, points) < price
<1>1. price * points \in Nat /\ price * points < price * 10000
  OBVIOUS
<1>2. \A n \in Nat : n < price * 10000 => n \div 10000 \in Nat /\ n \div 10000 < price
  OBVIOUS
<1> QED BY <1>1, <1>2 DEF Bp

LEMMA NonNegativePart ==
    ASSUME NEW price \in Nat, NEW points \in Nat
    PROVE  Bp(price, points) \in Nat
<1>1. price * points \in Nat
  OBVIOUS
<1> QED BY <1>1 DEF Bp

LEMMA BreakEvenIsAPrice ==
    ASSUME setup \in Setups
    PROVE  BreakEvenStop \in Prices
<1> DEFINE part == Bp(EntryPrice, OffsetBp)
<1>1. EntryPrice \in Int /\ part \in Nat /\ part < EntryPrice
  BY PricesAssumption, PositiveStopsAssumption, PartOfPrice
<1> HIDE DEF part
<1>2. BreakEvenStop = IF setup.direction = "LONG" THEN EntryPrice + part ELSE EntryPrice - part
  <2>1. BreakEvenStop = Beyond(EntryPrice, -part)
    BY DEF BreakEvenStop, part
  <2> QED BY <1>1, <2>1, Directions
<1> QED BY <1>1, <1>2 DEF Prices

\* A multiple of the divisor is not more than what was divided.
LEMMA QuotientBound ==
    ASSUME NEW n \in Int, NEW d \in Int, d > 0
    PROVE  n \div d \in Int /\ d * (n \div d) <= n
<1>1. n \div d \in Int
  OBVIOUS
<1>2. d * (n \div d) <= n
  OBVIOUS
<1> QED BY <1>1, <1>2

\* The steps of a SHORT do not take its stop to zero.
LEMMA SteppedStopIsAPrice ==
    ASSUME setup \in Setups, NEW watermark \in Nat \ {0}, Steps(watermark) > 0,
           NEW stepped, stepped = Beyond(EntryPrice, -Bp(EntryPrice, Steps(watermark) * StepTrailBp))
    PROVE  stepped \in Prices
<1> DEFINE gain == Gain(EntryPrice, watermark)
           steps == Steps(watermark)
<1> USE PricesAssumption
<1>1. gain \in Int /\ (setup.direction /= "LONG" => gain < EntryPrice)
  BY DEF Gain, Sign
<1>2. steps \in Int /\ (EntryPrice * StepBp) * steps <= 10000 * gain
  <2> DEFINE unit == EntryPrice * StepBp
             total == 10000 * gain
  <2>1. unit \in Int /\ unit > 0 /\ total \in Int
    BY <1>1
  <2>2. steps = total \div unit
    BY DEF Steps
  <2> HIDE DEF gain, steps, unit, total
  <2>3. steps \in Int /\ unit * steps <= total
    BY <2>1, <2>2, QuotientBound
  <2> QED BY <2>3 DEF unit, total
<1> HIDE DEF gain
<1>3. steps \in Nat
  BY <1>2
<1>4. steps * StepTrailBp \in Nat
  BY <1>3
<1> DEFINE part == Bp(EntryPrice, steps * StepTrailBp)
<1>5. part \in Nat
  BY <1>4, NonNegativePart
<1>6. stepped = IF setup.direction = "LONG" THEN EntryPrice + part ELSE EntryPrice - part
  <2>1. stepped = Beyond(EntryPrice, -part)
    OBVIOUS
  <2> HIDE DEF part
  <2> QED BY <1>5, <2>1, Directions
<1>7. CASE setup.direction = "LONG"
  <2> HIDE DEF part
  <2> QED BY <1>5, <1>6, <1>7 DEF Prices
<1>8. CASE setup.direction /= "LONG"
  <2>1. gain < EntryPrice
    BY <1>1, <1>8
  <2> HIDE DEF steps
  <2>2. steps * StepTrailBp <= steps * StepBp
    BY <1>3, PositiveStopsAssumption
  <2>3. EntryPrice * (steps * StepBp) <= 10000 * gain
    BY <1>2, <1>3
  <2>4. steps * StepBp < 10000
    <3> DEFINE total == steps * StepBp
    <3>1. total \in Nat
      BY <1>3
    <3> HIDE DEF total
    <3>2. EntryPrice * total < EntryPrice * 10000
      BY <1>1, <2>1, <2>3, <3>1 DEF total
    <3>3. total < 10000
      BY <3>1, <3>2
    <3> QED BY <3>3 DEF total
  <2>5. part < EntryPrice
    <3>1. steps * StepBp \in Int
      BY <1>3
    <3>2. steps * StepTrailBp < 10000
      BY <1>4, <2>2, <2>4, <3>1
    <3> QED BY <1>4, <3>2, PartOfPrice
  <2> HIDE DEF part
  <2> QED BY <1>5, <1>6, <1>8, <2>5 DEF Prices
<1> QED BY <1>7, <1>8

\* A tracked stop as the handlers find it.
Live(st) == st \in StopStates /\ st.current /= 0 /\ st.watermark /= 0

LEMMA LevelShape ==
    ASSUME setup \in Setups, NEW st, Live(st)
    PROVE  \/ Level(st) = None
           \/ Level(st) \in Prices
           \/ \E distance \in Nat : Level(st) = Beyond(st.watermark, distance)
<1> USE PricesAssumption
<1>0. st.watermark \in Nat \ {0} /\ st.atr \in Nat
  <2>1. st.watermark \in Nat /\ st.watermark /= 0 /\ st.atr \in Atrs \union {0}
    BY DEF Live, StopStates, None
  <2>2. Atrs \union {0} \subseteq Nat
    OBVIOUS
  <2> QED BY <2>1, <2>2
<1>1. setup.mode \in Modes
  BY SetupType
<1>2. CASE setup.mode = "FIXED_DISTANCE"
  <2>1. Level(st) = Beyond(st.watermark, Bp(st.watermark, TrailBp))
    BY <1>2 DEF Level
  <2>2. Bp(st.watermark, TrailBp) \in Nat
    BY <1>0, NonNegativePart
  <2> QED BY <2>1, <2>2
<1>3. CASE setup.mode = "ATR_MULTIPLE"
  <2>1. CASE st.atr = None
    BY <1>3, <2>1 DEF Level
  <2>2. CASE st.atr /= None
    <3>1. Level(st) = Beyond(st.watermark, st.atr * AtrMultiplier)
      BY <1>3, <2>2 DEF Level
    <3>2. st.atr * AtrMultiplier \in Nat
      BY <1>0
    <3> QED BY <3>1, <3>2
  <2> QED BY <2>1, <2>2
<1>4. CASE setup.mode = "STEPPED"
  <2>1. CASE Steps(st.watermark) > 0
    <3>1. Level(st) = Beyond(EntryPrice, -Bp(EntryPrice, Steps(st.watermark) * StepTrailBp))
      BY <1>4, <2>1 DEF Level
    <3> QED BY <1>0, <2>1, <3>1, SteppedStopIsAPrice
  <2>2. CASE ~(Steps(st.watermark) > 0)
    BY <1>4, <2>2 DEF Level
  <2> QED BY <2>1, <2>2
<1>5. CASE setup.mode = "BREAK_EVEN_ONLY"
  BY <1>5 DEF Level
<1> QED BY <1>1, <1>2, <1>3, <1>4, <1>5 DEF Modes

\* What a tick asks for is a price, and better than the stop it replaces.
LEMMA NewStopImproves ==
    ASSUME setup \in Setups, NEW st, Live(st), NEW price,
           NewStop(st, price) /= None
    PROVE  NewStop(st, price) \in Prices /\ Better(NewStop(st, price), st.current)
<1>1. CASE Triggers(st, price) /\ Better(BreakEvenStop, st.current)
  BY <1>1, BreakEvenIsAPrice DEF NewStop
<1>2. CASE ~(Triggers(st, price) /\ Better(BreakEvenStop, st.current))
  <2>1. Level(st) /= None /\ Better(Level(st), st.current) /\ NewStop(st, price) = Level(st)
    BY <1>2 DEF NewStop
  <2>2. CASE Level(st) \in Prices
    BY <2>1, <2>2
  <2>3. ASSUME NEW distance \in Nat, Level(st) = Beyond(st.watermark, distance)
        PROVE  Level(st) \in Prices
    <3>1. st.watermark \in Nat \ {0} /\ st.current \in Nat
      BY DEF Live, StopStates
    <3>2. Level(st) = IF setup.direction = "LONG" THEN st.watermark - distance
                                                  ELSE st.watermark + distance
      BY <2>3, <3>1, Directions
    <3>3. Level(st) \in Int
      BY <3>1, <3>2
    <3>4. setup.direction = "LONG" => Level(st) > st.current
      <4> DEFINE level == Level(st)
                 current == st.current
      <4>1. level \in Int /\ current \in Int /\ Better(level, current)
        BY <2>1, <3>1, <3>3
      <4> HIDE DEF level, current
      <4>2. setup.direction = "LONG" => level > current
        BY <4>1, Directions
      <4> QED BY <4>2 DEF level, current
    <3> QED BY <3>1, <3>2, <3>3, <3>4 DEF Prices
  <2> QED BY <2>1, <2>2, <2>3, LevelShape
<1> QED BY <1>1, <1>2

-----------------------------------------------------------------------------
(* Types                                                                   *)

\* A row, too, is of a stop with a price and a watermark: a restart reads it.
TypeInv ==
    /\ TypeOK
    /\ row.tracked => row.current /= 0 /\ row.watermark /= 0

LEMMA RowOfType ==
    ASSUME NEW st \in StopStates
    PROVE  /\ RowOf(st) \in StopStates
           /\ RowOf(st).pending = None
           /\ RowOf(st).tracked = st.tracked /\ RowOf(st).current = st.current
           /\ RowOf(st).watermark = st.watermark /\ RowOf(st).be = st.be
BY DEF RowOf, StopStates, None

LEMMA NotTrackedType ==
    /\ NotTracked \in StopStates
    /\ NotTracked.tracked = FALSE /\ NotTracked.pending = None
BY DEF NotTracked, StopStates, None

\* A tick leaves a live stop live, and at the price it had.
LEMMA TickedType ==
    ASSUME setup \in Setups, Live(stop), stop.tracked, NEW price \in Ticks,
           NEW atr \in Atrs \union {None}
    PROVE  LET seen == Observe(price, atr) IN
           /\ Live(seen)
           /\ seen.current = stop.current /\ seen.tracked = stop.tracked /\ seen.be = stop.be
           /\ seen.watermark = IF Better(price, stop.watermark) THEN price ELSE stop.watermark
           /\ Live(Ticked(seen, price))
           /\ Ticked(seen, price).current = stop.current
           /\ Ticked(seen, price).tracked = stop.tracked
           /\ Ticked(seen, price).watermark = seen.watermark
           /\ stop.be => Ticked(seen, price).be
<1> DEFINE seen == Observe(price, atr)
<1>0. price \in Nat \ {0}
  BY PricesAssumption
<1>1. /\ Live(seen)
      /\ seen.current = stop.current /\ seen.tracked = stop.tracked /\ seen.be = stop.be
      /\ seen.watermark = IF Better(price, stop.watermark) THEN price ELSE stop.watermark
  BY <1>0 DEF Observe, Live, StopStates, None
<1>2. NewStop(seen, price) \in Nat
  BY <1>1, NewStopImproves DEF Prices, None
<1> HIDE DEF seen
<1>3. Triggers(seen, price) \in BOOLEAN
  BY DEF Triggers
<1> QED BY <1>1, <1>2, <1>3 DEF Ticked, Live, StopStates, seen

-----------------------------------------------------------------------------
(* The invariants                                                          *)

\* Everything a price can be taken from is a price the stop order has had.
PricesWereHad ==
    /\ InitialStop \in had
    /\ exchangeStop \in had \union {Gone}
    /\ stop.tracked => stop.current \in had
    /\ row.tracked => row.current \in had
    /\ queried \in had \union {NotQueried, Gone}
    /\ \A a \in answers : a.ok => a.price \in had

\* The row while the process runs, and, running or not, that closing a position
\* deletes it.
RowFollows ==
    ~Fault("rowWrite") =>
        /\ row.tracked => position /= "closed"
        /\ up => RestartFindsTheConfirmed

\* What the process knows, or will when it starts again.
Known == IF up THEN stop ELSE row

\* Without faults one request or answer is under way at a time, for a price
\* that improves on the one at the exchange, and only a confirmation under
\* way may be ahead of what the manager knows.
OneAtATime ==
    /\ requests = {} \/ answers = {}
    /\ \A p, q \in requests : p = q
    /\ \A a, b \in answers : a = b
    /\ UnderWay => up /\ stop.tracked /\ stop.pending /= None /\ queried = NotQueried

KnowsTheStop ==
    exchangeStop /= Gone =>
        /\ queried /= NotQueried => queried = exchangeStop
        /\ \A p \in requests : Better(p, exchangeStop)
        /\ \A a \in answers : a.ok => a.price = exchangeStop
        /\ Known.tracked /\ (\A a \in answers : ~a.ok) => Known.current = exchangeStop
        /\ ~Known.tracked /\ position = "open" => exchangeStop = InitialStop

FaultFree == setup.faults = {} => OneAtATime /\ KnowsTheStop

IndInv == TypeInv /\ PricesWereHad /\ RowFollows /\ FaultFree

-----------------------------------------------------------------------------
(* The steps                                                               *)

\* A tick: a live stop that keeps its price, and perhaps one more request,
\* which is then the pending one and improves on that price.
LEMMA UpdatePriceShape ==
    ASSUME TypeInv, UpdatePrice
    PROVE  /\ up /\ stop.tracked /\ Live(stop')
           /\ stop'.tracked = stop.tracked /\ stop'.current = stop.current
           /\ stop.be => stop'.be
           /\ \A r \in Int : ~Better(r, stop.watermark) => ~Better(r, stop'.watermark)
           /\ UNCHANGED <<setup, up, row, exchangeStop, had, answers, queried, position>>
           /\ UnderWay => Fault("overlap")
           /\ queried /= NotQueried => Fault("staleQuery")
           /\ \/ requests' = requests
              \/ \E new \in Prices : /\ requests' = requests \union {new}
                                      /\ stop'.pending = new
                                      /\ Better(new, stop.current)
<1>1. PICK price \in Ticks, atr \in Atrs \union {None} :
         LET seen == Observe(price, atr)
             new == NewStop(seen, price)
         IN
         /\ stop' = Ticked(seen, price)
         /\ requests' = IF new /= None /\ Significant(new, stop.current)
                        THEN requests \union {new} ELSE requests
  BY DEF UpdatePrice
<1>2. setup \in Setups /\ up /\ stop.tracked /\ Live(stop)
  BY DEF UpdatePrice, TypeInv, TypeOK, Live
<1> DEFINE seen == Observe(price, atr)
           new == NewStop(seen, price)
<1>3. /\ Live(seen)
      /\ seen.current = stop.current
      /\ seen.watermark = IF Better(price, stop.watermark) THEN price ELSE stop.watermark
      /\ Live(stop')
      /\ stop'.current = stop.current /\ stop'.tracked = stop.tracked
      /\ stop'.watermark = seen.watermark
      /\ stop.be => stop'.be
  BY <1>1, <1>2, TickedType
<1>4. ASSUME NEW r \in Int, ~Better(r, stop.watermark)
      PROVE  ~Better(r, stop'.watermark)
  <2>1. stop.watermark \in Int /\ price \in Int
    BY <1>2, PricesAssumption DEF Live, StopStates
  <2>2. stop'.watermark = IF Better(price, stop.watermark) THEN price ELSE stop.watermark
    BY <1>3
  <2>3. CASE Better(price, stop.watermark)
    <3> DEFINE w == stop.watermark
    <3>1. w \in Int /\ Better(price, w) /\ ~Better(r, w)
      BY <1>4, <2>1, <2>3
    <3> HIDE DEF w
    <3>2. ~Better(r, price)
      BY <1>2, <2>1, <3>1, Directions
    <3> QED BY <2>2, <2>3, <3>2
  <2> QED BY <1>4, <2>2, <2>3
<1>5. \/ requests' = requests
      \/ new /= None /\ Significant(new, stop.current) /\ requests' = requests \union {new}
  BY <1>1
<1>6. CASE new /= None /\ Significant(new, stop.current) /\ requests' = requests \union {new}
  <2>1. new \in Prices /\ Better(new, stop.current)
    BY <1>2, <1>3, <1>6, NewStopImproves
  <2>2. stop'.pending = new
    <3>1. Significant(new, seen.current)
      BY <1>3, <1>6
    <3>2. stop' = [seen EXCEPT !.be = @ \/ Triggers(seen, price), !.pending = new]
      BY <1>1, <1>6, <3>1 DEF Ticked
    <3>3. seen \in StopStates
      BY <1>3 DEF Live
    <3> HIDE DEF seen, new
    <3> QED BY <3>2, <3>3 DEF StopStates
  <2> HIDE DEF new
  <2>3. \E n \in Prices : requests' = requests \union {n} /\ stop'.pending = n /\ Better(n, stop.current)
    BY <1>6, <2>1, <2>2
  <2> QED BY <1>2, <1>3, <1>4, <2>3 DEF UpdatePrice, exchange
<1>7. CASE requests' = requests
  BY <1>2, <1>3, <1>4, <1>7 DEF UpdatePrice, exchange
<1> QED BY <1>5, <1>6, <1>7

\* A new price is adopted, by a confirmation or a reconciliation.
Adopted(price) ==
    /\ stop.tracked
    /\ stop'.tracked /\ stop'.current = price
    /\ stop'.watermark = stop.watermark /\ stop'.be = stop.be
    /\ row' = RowOf(stop') \/ (Fault("rowWrite") /\ row' = row)

\* What the caller's answer does to the stop: adopts it, or lets it go.
LEMMA CallerHearsShape ==
    ASSUME TypeInv, CallerHears
    PROVE  /\ up /\ stop' \in StopStates
           /\ UNCHANGED <<setup, up, exchangeStop, had, requests, queried, position>>
           /\ \E a \in answers :
                /\ answers' = answers \ {a}
                /\ \/ a.ok /\ Adopted(a.price)
                   \/ /\ ~a.ok \/ ~(stop.tracked /\ stop.pending /= None)
                      /\ stop'.tracked = stop.tracked /\ stop'.current = stop.current
                      /\ stop'.watermark = stop.watermark /\ stop'.be = stop.be
                      /\ row' = row
<1>1. PICK a \in answers : answers' = answers \ {a} /\ IF a.ok THEN Confirm(a.price) ELSE Fail
  BY DEF CallerHears
<1>2. stop \in StopStates /\ a.price \in Nat
  BY DEF TypeInv, TypeOK, Prices
<1>3. CASE a.ok /\ stop.tracked /\ stop.pending /= None
  <2>1. /\ stop' = [stop EXCEPT !.current = a.price, !.pending = None]
        /\ row' = RowOf(stop') \/ (Fault("rowWrite") /\ row' = row)
    BY <1>1, <1>3 DEF Confirm, Persist
  <2>2. stop' \in StopStates /\ Adopted(a.price)
    BY <1>2, <1>3, <2>1 DEF StopStates, None, Adopted
  <2> QED BY <1>1, <1>3, <2>2 DEF CallerHears, exchange
<1>4. CASE a.ok /\ ~(stop.tracked /\ stop.pending /= None)
  <2>1. stop' = stop /\ row' = row
    BY <1>1, <1>4 DEF Confirm
  <2> QED BY <1>1, <1>2, <1>4, <2>1 DEF CallerHears, exchange
<1>5. CASE ~a.ok
  <2>1. stop' = [stop EXCEPT !.pending = None] /\ row' = row
    BY <1>1, <1>5 DEF Fail
  <2>2. /\ stop' \in StopStates
        /\ stop'.tracked = stop.tracked /\ stop'.current = stop.current
        /\ stop'.watermark = stop.watermark /\ stop'.be = stop.be
    BY <1>2, <2>1 DEF StopStates, None
  <2> QED BY <1>1, <1>5, <2>1, <2>2 DEF CallerHears, exchange
<1> QED BY <1>3, <1>4, <1>5

\* What a reconciliation does with the price it queried.
LEMMA ReconcileShape ==
    ASSUME TypeInv, Reconcile
    PROVE  /\ up /\ stop' \in StopStates
           /\ queried /= NotQueried /\ queried' = NotQueried
           /\ UNCHANGED <<setup, up, exchangeStop, had, requests, answers, position>>
           /\ stop'.pending = stop.pending
           /\ \/ queried /= Gone /\ Adopted(queried)
              \/ /\ stop' = stop /\ row' = row
                 /\ ~(stop.tracked /\ queried /= Gone /\ Differs(queried))
<1>1. stop \in StopStates /\ queried \in Nat \union {NotQueried}
  BY DEF TypeInv, TypeOK
<1>2. CASE stop.tracked /\ queried /= Gone /\ Differs(queried)
  <2>1. /\ stop' = [stop EXCEPT !.current = queried]
        /\ row' = RowOf(stop') \/ (Fault("rowWrite") /\ row' = row)
    BY <1>2 DEF Reconcile, Persist
  <2>2. queried \in Nat
    BY <1>1 DEF Reconcile
  <2>3. stop' \in StopStates /\ Adopted(queried) /\ stop'.pending = stop.pending
    BY <1>1, <1>2, <2>1, <2>2 DEF StopStates, Adopted
  <2> QED BY <1>2, <2>3 DEF Reconcile, exchange, wire
<1>3. CASE ~(stop.tracked /\ queried /= Gone /\ Differs(queried))
  <2>1. stop' = stop /\ row' = row
    BY <1>3 DEF Reconcile
  <2> QED BY <1>1, <1>3, <2>1 DEF Reconcile, exchange, wire
<1> QED BY <1>2, <1>3

LEMMA RegisterShape ==
    ASSUME TypeInv, Register
    PROVE  /\ up /\ ~stop.tracked /\ position = "open" /\ exchangeStop /= Gone
           /\ stop' \in StopStates /\ stop'.tracked /\ stop'.current = InitialStop
           /\ stop'.watermark = EntryPrice /\ stop'.be = FALSE
           /\ InitialStop /= 0 /\ EntryPrice /= 0
           /\ row' = RowOf(stop') \/ (Fault("rowWrite") /\ row' = row)
           /\ UNCHANGED <<setup, up, exchangeStop, had, requests, answers, queried, position>>
<1>1. InitialStop \in Prices /\ EntryPrice \in Nat \ {0}
  BY InitialStopIsAPrice, PricesAssumption DEF TypeInv, TypeOK
<1>2. stop' = [tracked |-> TRUE, current |-> InitialStop, watermark |-> EntryPrice,
               be |-> FALSE, pending |-> None, atr |-> None]
  BY DEF Register
<1>3. stop' \in StopStates
  BY <1>1, <1>2 DEF StopStates, None, Prices
<1> QED BY <1>1, <1>2, <1>3 DEF Register, Persist, exchange, wire, Prices

LEMMA TypesHold ==
    ASSUME TypeInv, [Next]_vars
    PROVE  TypeInv'
<1> USE DEF TypeInv, TypeOK
<1>0. /\ \A st \in StopStates : /\ RowOf(st) \in StopStates /\ RowOf(st).pending = None
                                 /\ RowOf(st).tracked = st.tracked
                                 /\ RowOf(st).current = st.current
                                 /\ RowOf(st).watermark = st.watermark
      /\ NotTracked \in StopStates /\ NotTracked.pending = None /\ ~NotTracked.tracked
  BY RowOfType, NotTrackedType
<1>1. CASE Register
  BY <1>0, <1>1, RegisterShape
<1>2. CASE UpdatePrice
  <2>1. requests' \subseteq Prices
    BY <1>2, UpdatePriceShape
  <2> QED BY <1>2, <2>1, UpdatePriceShape DEF Live
<1>3. CASE CallerHears
  <2>1. PICK a \in answers :
                /\ answers' = answers \ {a}
                /\ \/ a.ok /\ Adopted(a.price)
                   \/ /\ ~a.ok \/ ~(stop.tracked /\ stop.pending /= None)
                      /\ stop'.tracked = stop.tracked /\ stop'.current = stop.current
                      /\ stop'.watermark = stop.watermark /\ stop'.be = stop.be
                      /\ row' = row
    BY <1>3, CallerHearsShape
  <2>2. a.price /= 0
    BY DEF Prices
  <2> QED BY <1>0, <1>3, <2>1, <2>2, CallerHearsShape DEF Adopted
<1>4. CASE Unregister
  BY <1>0, <1>4 DEF Unregister, exchange, wire
<1>5. CASE Query
  BY <1>5 DEF Query, exchange, wire
<1>6. CASE Reconcile
  BY <1>0, <1>6, ReconcileShape DEF Adopted, Gone
<1>7. ASSUME NEW price \in requests, Accept(price)
      PROVE  TypeInv'
  <2>1. price \in Prices /\ price \in Nat
    BY DEF Prices
  <2>2. Answer(TRUE, price) \in [ok : BOOLEAN, price : Prices]
        /\ Answer(FALSE, price) \in [ok : BOOLEAN, price : Prices]
    BY <2>1 DEF Answer
  <2>3. answers' \subseteq [ok : BOOLEAN, price : Prices]
    BY <1>7, <2>2 DEF Accept
  <2> QED BY <1>7, <2>1, <2>3 DEF Accept
<1>8. ASSUME NEW price \in requests, Refuse(price)
      PROVE  TypeInv'
  <2>1. Answer(FALSE, price) \in [ok : BOOLEAN, price : Prices]
    BY DEF Answer
  <2> QED BY <1>8, <2>1 DEF Refuse, exchange
<1>9. CASE StopLeaves
  BY <1>9 DEF StopLeaves, wire, Gone
<1>10. CASE Crash
  BY <1>0, <1>10 DEF Crash, exchange
<1>11. CASE Restart
  BY <1>0, <1>11 DEF Restart, exchange, wire
<1>12. CASE UNCHANGED vars
  BY <1>12 DEF vars, exchange, wire
<1> QED BY <1>1, <1>2, <1>3, <1>4, <1>5, <1>6, <1>7, <1>8, <1>9, <1>10, <1>11, <1>12 DEF Next

LEMMA PricesHold ==
    ASSUME TypeInv, PricesWereHad, [Next]_vars
    PROVE  PricesWereHad'
<1> USE DEF PricesWereHad
<1>0. /\ \A st \in StopStates : /\ RowOf(st).tracked = st.tracked
                                 /\ RowOf(st).current = st.current
      /\ ~NotTracked.tracked
  BY RowOfType, NotTrackedType
<1>00. stop \in StopStates /\ row \in StopStates
  BY DEF TypeInv, TypeOK
<1>1. CASE Register
  BY <1>0, <1>1, RegisterShape DEF InitialStop, Beyond, Sign
<1>2. CASE UpdatePrice
  BY <1>2, UpdatePriceShape DEF InitialStop, Beyond, Sign
<1>3. CASE CallerHears
  <2>1. PICK a \in answers :
                /\ answers' = answers \ {a}
                /\ \/ a.ok /\ Adopted(a.price)
                   \/ /\ ~a.ok \/ ~(stop.tracked /\ stop.pending /= None)
                      /\ stop'.tracked = stop.tracked /\ stop'.current = stop.current
                      /\ stop'.watermark = stop.watermark /\ stop'.be = stop.be
                      /\ row' = row
    BY <1>3, CallerHearsShape
  <2> QED BY <1>0, <1>3, <2>1, CallerHearsShape DEF Adopted, InitialStop, Beyond, Sign
<1>4. CASE Unregister
  BY <1>0, <1>4 DEF Unregister, exchange, wire, InitialStop, Beyond, Sign
<1>5. CASE Query
  BY <1>5 DEF Query, exchange, wire, InitialStop, Beyond, Sign
<1>6. CASE Reconcile
  BY <1>0, <1>6, ReconcileShape DEF Adopted, InitialStop, Beyond, Sign
<1>7. ASSUME NEW price \in requests, Accept(price)
      PROVE  PricesWereHad'
  <2>1. \A a \in answers' : a \in answers \/ a.price = price
    BY <1>7 DEF Accept, Answer
  <2> QED BY <1>7, <2>1 DEF Accept, InitialStop, Beyond, Sign
<1>8. ASSUME NEW price \in requests, Refuse(price)
      PROVE  PricesWereHad'
  <2>1. \A a \in answers' : a \in answers \/ ~a.ok
    BY <1>8 DEF Refuse, Answer
  <2> QED BY <1>8, <2>1 DEF Refuse, exchange, InitialStop, Beyond, Sign
<1>9. CASE StopLeaves
  BY <1>9 DEF StopLeaves, wire, InitialStop, Beyond, Sign
<1>10. CASE Crash
  BY <1>0, <1>10 DEF Crash, exchange, InitialStop, Beyond, Sign
<1>11. CASE Restart
  BY <1>0, <1>11 DEF Restart, exchange, wire, InitialStop, Beyond, Sign
<1>12. CASE UNCHANGED vars
  BY <1>12 DEF vars, exchange, wire, InitialStop, Beyond, Sign
<1> QED BY <1>1, <1>2, <1>3, <1>4, <1>5, <1>6, <1>7, <1>8, <1>9, <1>10, <1>11, <1>12 DEF Next

LEMMA RowsHold ==
    ASSUME TypeInv, RowFollows, [Next]_vars
    PROVE  RowFollows'
<1> USE DEF RowFollows, RestartFindsTheConfirmed, Fault
<1>0. /\ \A st \in StopStates : /\ RowOf(st).tracked = st.tracked
                                 /\ RowOf(st).current = st.current
                                 /\ RowOf(st).watermark = st.watermark
                                 /\ RowOf(st).be = st.be
      /\ ~NotTracked.tracked
  BY RowOfType, NotTrackedType
<1>00. stop \in StopStates /\ row \in StopStates /\ setup \in Setups
  BY DEF TypeInv, TypeOK
<1>01. \A r \in Nat : ~Better(r, r)
  BY <1>00, Directions
<1>02. /\ stop.watermark \in Nat /\ row.watermark \in Nat
       /\ \A st \in StopStates : st.watermark \in Nat
  BY <1>00 DEF StopStates
<1>1. CASE Register
  BY <1>0, <1>01, <1>02, <1>1, RegisterShape DEF Better, Gain, Sign
<1>2. CASE UpdatePrice
  BY <1>02, <1>2, UpdatePriceShape DEF Better, Gain, Sign
<1>3. CASE CallerHears
  <2>1. PICK a \in answers :
                /\ answers' = answers \ {a}
                /\ \/ a.ok /\ Adopted(a.price)
                   \/ /\ ~a.ok \/ ~(stop.tracked /\ stop.pending /= None)
                      /\ stop'.tracked = stop.tracked /\ stop'.current = stop.current
                      /\ stop'.watermark = stop.watermark /\ stop'.be = stop.be
                      /\ row' = row
    BY <1>3, CallerHearsShape
  <2> QED BY <1>0, <1>01, <1>02, <1>3, <2>1, CallerHearsShape DEF Adopted, Better, Gain, Sign
<1>4. CASE Unregister
  BY <1>0, <1>4 DEF Unregister, exchange, wire
<1>5. CASE Query
  BY <1>5 DEF Query, exchange, wire, Better, Gain, Sign
<1>6. CASE Reconcile
  BY <1>0, <1>01, <1>02, <1>6, ReconcileShape DEF Adopted, Better, Gain, Sign
<1>7. ASSUME NEW price \in requests, Accept(price)
      PROVE  RowFollows'
  BY <1>7 DEF Accept, Better, Gain, Sign
<1>8. ASSUME NEW price \in requests, Refuse(price)
      PROVE  RowFollows'
  BY <1>8 DEF Refuse, exchange, Better, Gain, Sign
<1>9. CASE StopLeaves
  BY <1>9 DEF StopLeaves, wire, Better, Gain, Sign
<1>10. CASE Crash
  BY <1>0, <1>10 DEF Crash, exchange
<1>11. CASE Restart
  BY <1>0, <1>01, <1>02, <1>11 DEF Restart, exchange, wire, Better, Gain, Sign
<1>12. CASE UNCHANGED vars
  BY <1>12 DEF vars, exchange, wire, Better, Gain, Sign
<1> QED BY <1>1, <1>2, <1>3, <1>4, <1>5, <1>6, <1>7, <1>8, <1>9, <1>10, <1>11, <1>12 DEF Next

LEMMA FaultFreeHolds ==
    ASSUME IndInv, TypeInv', RowFollows', [Next]_vars
    PROVE  FaultFree'
<1> SUFFICES ASSUME setup'.faults = {}
             PROVE  OneAtATime' /\ KnowsTheStop'
  BY DEF FaultFree
<1> USE DEF OneAtATime, KnowsTheStop, Known, UnderWay
<1>0. /\ \A st \in StopStates : /\ RowOf(st).tracked = st.tracked
                                 /\ RowOf(st).current = st.current
      /\ ~NotTracked.tracked
  BY RowOfType, NotTrackedType
<1>00. /\ stop \in StopStates /\ row \in StopStates
       /\ setup' = setup
  BY DEF IndInv, TypeInv, TypeOK, vars, Next, Register, UpdatePrice, CallerHears, Unregister, Query,
         Reconcile, Accept, Refuse, StopLeaves, Crash, Restart
<1>01. /\ OneAtATime /\ KnowsTheStop
       /\ \A f : ~Fault(f)
       /\ up => RestartFindsTheConfirmed
       /\ exchangeStop \in Nat
  BY <1>00 DEF IndInv, FaultFree, Fault, RowFollows, TypeInv, TypeOK
<1>02. up => stop.tracked = row.tracked /\ (stop.tracked => row.current = stop.current)
  <2>1. stop.tracked \in BOOLEAN /\ row.tracked \in BOOLEAN
    BY <1>00 DEF StopStates
  <2> QED BY <1>01, <2>1 DEF RestartFindsTheConfirmed
<1>03. TypeInv
  BY DEF IndInv
<1>1. CASE Register
  BY <1>0, <1>01, <1>1, <1>03, RegisterShape DEF InitialStop, Beyond, Sign, Better, Gain
<1>2. CASE UpdatePrice
  <2>1. requests = {} /\ answers = {} /\ queried = NotQueried
    BY <1>01, <1>2, <1>03, UpdatePriceShape
  <2>2. \A p \in requests' : stop'.pending = p /\ p \in Prices /\ Better(p, stop.current)
    BY <1>2, <1>03, <2>1, UpdatePriceShape
  <2>3. exchangeStop /= Gone => stop.current = exchangeStop
    BY <1>01, <1>2, <1>03, <2>1, UpdatePriceShape
  <2>4. OneAtATime'
    BY <1>2, <1>03, <2>1, <2>2, UpdatePriceShape DEF Prices, None
  <2>5. KnowsTheStop'
    BY <1>2, <1>03, <2>1, <2>2, <2>3, UpdatePriceShape DEF InitialStop, Beyond, Sign, Better, Gain
  <2> QED BY <2>4, <2>5
<1>3. CASE CallerHears
  <2>1. PICK a \in answers :
                /\ answers' = answers \ {a}
                /\ \/ a.ok /\ Adopted(a.price)
                   \/ /\ ~a.ok \/ ~(stop.tracked /\ stop.pending /= None)
                      /\ stop'.tracked = stop.tracked /\ stop'.current = stop.current
                      /\ stop'.watermark = stop.watermark /\ stop'.be = stop.be
                      /\ row' = row
    BY <1>3, <1>03, CallerHearsShape
  <2>2. answers' = {} /\ requests' = {} /\ queried = NotQueried
    BY <1>01, <1>3, <1>03, <2>1, CallerHearsShape
  <2>3. stop.tracked /\ stop.pending /= None /\ up
    BY <1>01, <2>1
  <2>4. exchangeStop /= Gone => stop'.current = exchangeStop /\ stop'.tracked
    BY <1>01, <2>1, <2>2, <2>3, <1>3, <1>03, CallerHearsShape DEF Adopted
  <2>5. UNCHANGED <<setup, up, exchangeStop, had, requests, queried, position>>
    BY <1>3, <1>03, CallerHearsShape
  <2> QED BY <2>2, <2>3, <2>4, <2>5
<1>4. CASE Unregister
  <2>1. requests = {} /\ answers = {}
    BY <1>01, <1>4 DEF Unregister
  <2> QED BY <1>0, <1>01, <1>4, <2>1 DEF Unregister, exchange, wire
<1>5. CASE Query
  <2>1. requests = {} /\ answers = {}
    BY <1>01, <1>5 DEF Query
  <2> QED BY <1>01, <1>5, <2>1 DEF Query, exchange, wire, InitialStop, Beyond, Sign
<1>6. CASE Reconcile
  <2>1. requests = {} /\ answers = {}
    BY <1>01, <1>6, <1>03, ReconcileShape
  <2>2. UNCHANGED <<setup, up, exchangeStop, had, requests, answers, position>> /\ up
    BY <1>6, <1>03, ReconcileShape
  <2>3. queried' = NotQueried /\ stop'.tracked = stop.tracked
    BY <1>6, <1>03, ReconcileShape DEF Adopted
  <2>4. exchangeStop /= Gone /\ stop.tracked => stop'.current = exchangeStop
    BY <1>01, <1>6, <1>03, <2>1, <2>2, ReconcileShape DEF Adopted
  <2> QED BY <1>01, <2>1, <2>2, <2>3, <2>4 DEF InitialStop, Beyond, Sign
<1>7. ASSUME NEW price \in requests, Accept(price)
      PROVE  OneAtATime' /\ KnowsTheStop'
  <2>1. answers = {} /\ requests = {price} /\ queried = NotQueried /\ up /\ stop.tracked
        /\ stop.pending /= None
    BY <1>01
  <2>2. /\ answers' = {Answer(TRUE, price)} /\ requests' = {} /\ exchangeStop' = price
        /\ UNCHANGED <<setup, up, stop, row, queried, position>>
    BY <1>01, <1>7, <2>1 DEF Accept
  <2> QED BY <2>1, <2>2 DEF Answer
<1>8. ASSUME NEW price \in requests, Refuse(price)
      PROVE  OneAtATime' /\ KnowsTheStop'
  <2>1. answers = {} /\ requests = {price} /\ queried = NotQueried /\ up /\ stop.tracked
        /\ stop.pending /= None
    BY <1>01
  <2>2. /\ answers' = {Answer(FALSE, price)} /\ requests' = {}
        /\ UNCHANGED <<setup, up, stop, row, exchangeStop, had, queried, position>>
    BY <1>8, <2>1 DEF Refuse, exchange
  <2> QED BY <1>01, <2>1, <2>2 DEF Answer
<1>9. CASE StopLeaves
  BY <1>01, <1>9 DEF StopLeaves, wire
<1>10. CASE Crash
  <2>1. requests = {} /\ answers = {} /\ up
    BY <1>01, <1>10 DEF Crash
  <2>2. /\ requests' = {} /\ answers' = {} /\ ~up' /\ queried' = NotQueried
        /\ position' = position
        /\ UNCHANGED <<setup, row, exchangeStop>>
    BY <1>01, <1>10, <2>1 DEF Crash, exchange
  <2> QED BY <1>01, <1>02, <2>1, <2>2 DEF InitialStop, Beyond, Sign
<1>11. CASE Restart
  <2>1. requests = {} /\ answers = {}
    BY <1>01, <1>11 DEF Restart
  <2> QED BY <1>01, <1>11, <2>1 DEF Restart, exchange, wire, InitialStop, Beyond, Sign
<1>12. CASE UNCHANGED vars
  BY <1>01, <1>12 DEF vars, exchange, wire, InitialStop, Beyond, Sign, Better, Gain
<1> QED BY <1>1, <1>2, <1>3, <1>4, <1>5, <1>6, <1>7, <1>8, <1>9, <1>10, <1>11, <1>12 DEF Next

LEMMA Inductive == IndInv /\ [Next]_vars => IndInv'
BY TypesHold, PricesHold, RowsHold, FaultFreeHolds DEF IndInv

LEMMA Established == Init => IndInv
<1> SUFFICES ASSUME Init
             PROVE  IndInv
  OBVIOUS
<1>1. setup \in Setups /\ InitialStop \in Prices
  BY InitialStopIsAPrice DEF Init
<1>2. TypeInv
  BY <1>1, NotTrackedType DEF Init, TypeInv, TypeOK, Prices
<1>3. PricesWereHad
  BY NotTrackedType DEF Init, PricesWereHad
<1>4. RowFollows
  BY NotTrackedType DEF Init, RowFollows, RestartFindsTheConfirmed
<1>5. FaultFree
  BY NotTrackedType DEF Init, FaultFree, OneAtATime, KnowsTheStop, Known, UnderWay
<1> QED BY <1>2, <1>3, <1>4, <1>5 DEF IndInv

LEMMA AlwaysIndInv == Spec => []IndInv
BY Established, Inductive, PTL DEF Spec

-----------------------------------------------------------------------------
(* The theorems                                                            *)

\* The types of the manager, its row, and the exchange's side, for all prices,
\* percentages and setups.
THEOREM TypeCorrect == Spec => []TypeOK
<1>1. IndInv => TypeOK
  BY DEF IndInv, TypeInv
<1> QED BY <1>1, AlwaysIndInv, PTL

\* AUDIT-P0-9: manager and row claim only prices the stop order has had, under
\* every combination of faults, and without faults the price that it has.
THEOREM ClaimsAreAlwaysTrue == Spec => []ClaimsAreTrue
<1>1. IndInv => ClaimsAreTrue
  BY DEF IndInv, PricesWereHad, FaultFree, OneAtATime, KnowsTheStop, Known, UnderWay, ClaimsAreTrue
<1> QED BY <1>1, AlwaysIndInv, PTL

\* P2: as long as the row is written, a restart finds what the manager held
\* wherever the process dies, and nothing of a position whose stop was
\* unregistered: also where a start cannot read the rows, and up to a death in
\* the middle of unregister_stop.
THEOREM RestartAlwaysFindsTheConfirmed == Spec => []RestartFindsTheConfirmed
<1>1. IndInv => RestartFindsTheConfirmed
  BY DEF IndInv, RowFollows, RestartFindsTheConfirmed
<1> QED BY <1>1, AlwaysIndInv, PTL

\* The ratchet: without faults no step loosens the stop order.
THEOREM TheRatchetHolds == Spec => ExchangeNeverLoosens
<1>1. IndInv /\ [Next]_vars =>
        [(setup.faults = {} /\ exchangeStop' /= Gone) => ~Better(exchangeStop, exchangeStop')]_vars
  <2> SUFFICES ASSUME IndInv, [Next]_vars, setup.faults = {}, exchangeStop' /= Gone
               PROVE  ~Better(exchangeStop, exchangeStop')
    OBVIOUS
  <2>1. setup \in Setups /\ exchangeStop \in Nat /\ requests \subseteq Prices
        /\ \A p \in requests : exchangeStop /= Gone => Better(p, exchangeStop)
    BY DEF IndInv, TypeInv, TypeOK, FaultFree, KnowsTheStop
  <2>2. \A n \in Nat : ~Better(n, n)
    BY <2>1, Directions
  <2>3. CASE exchangeStop' = exchangeStop
    BY <2>1, <2>2, <2>3
  <2>4. ASSUME NEW price \in requests, Accept(price)
        PROVE  ~Better(exchangeStop, exchangeStop')
    <3>1. exchangeStop' = price /\ price \in Nat /\ Better(price, exchangeStop)
      BY <2>1, <2>4 DEF Accept, Prices
    <3>2. \A m, n \in Nat : Better(m, n) => ~Better(n, m)
      BY <2>1, Directions
    <3> QED BY <2>1, <3>1, <3>2
  <2> QED BY <2>3, <2>4 DEF Next, vars, exchange, Register, UpdatePrice, CallerHears, Unregister,
             Query, Reconcile, Refuse, StopLeaves, Crash, Restart, Gone
<1> QED BY <1>1, AlwaysIndInv, PTL DEF Spec, ExchangeNeverLoosens
=============================================================================
