------------------------- MODULE OrderExecutorProofs -------------------------
(***************************************************************************)
(* Proofs about the order executor: its types and retry limits, what is in *)
(* _pending_orders, one stop per entry, the list of the unprotected, and   *)
(* that resubmissions execute no more than what remained.                  *)
(***************************************************************************)
EXTENDS OrderExecutor, FiniteSums, FiniteSetTheorems, SequenceTheorems, TLAPS

-----------------------------------------------------------------------------
(* The invariant                                                           *)

Kinds == {"entry", "stop"}
Requests ==
    [kind : Kinds, entry : Nat, size : 0..EntrySize, generation : Nat, cascade : BOOLEAN]
OrderRecords ==
    [kind : Kinds, entry : Nat, size : 1..EntrySize, generation : Nat, cascade : BOOLEAN,
     filled : Nat, status : {"open", "closed", "triggered", "filled", "canceled", "void"}, told : Nat]

\* An entry is open while something of it is left, and told of what it filled;
\* a stop belongs to an entry; an order is resubmitted after the one it continues.
WellFormedOrder(o) ==
    /\ market[o].generation < o
    /\ market[o].kind = "entry" =>
         /\ market[o].filled <= market[o].size
         /\ market[o].status \in {"open", "closed", "void"}
         /\ market[o].status = "open" => market[o].filled < market[o].size
         /\ market[o].told <= market[o].filled
    /\ market[o].kind = "stop" =>
         /\ market[o].filled = 0 /\ market[o].told <= 2
         /\ market[o].entry \in Entries

MarketInv ==
    /\ market \in Seq(OrderRecords) /\ Len(market) <= MaxOrders
    /\ \A o \in Issued : WellFormedOrder(o)

\* What is known of an order is at most what it filled, and that once more:
\* an order update may tell of fills that are then told one by one.
UpdateRecords == [status : Statuses, filled : Nat, size : 1..EntrySize]
UpdatesInv ==
    /\ DOMAIN updates \subseteq Issued
    /\ updates \in [DOMAIN updates -> UpdateRecords]
    /\ \A o \in DOMAIN updates :
         /\ updates[o].size = market[o].size
         /\ updates[o].filled <= market[o].filled + market[o].told
         /\ updates[o].status = "PARTIAL" => o \in Entries
    /\ pending \subseteq DOMAIN updates
    /\ PendingIsLive

\* Each coroutine works for its own kind of order, and what it was answered is
\* the order it asked for.
Calls == [step : Steps, request : Requests, attempt : 0..MaxRetries, id : Nat]
WellFormedCall(c, call, orders) ==
    /\ call \in Calls
    /\ call.step \in {"idle", "posting"} => call.id = 0
    /\ call.step \in {"posting", "answered"} =>
         /\ call.request.size > 0
         /\ call.request.kind = IF c = "stop" THEN "stop" ELSE "entry"
    /\ call.step = "posting" => call.request.generation <= Len(orders) /\ call.attempt > 0
    /\ call.step = "answered" =>
         /\ call.id \in DOMAIN orders
         /\ orders[call.id].kind = call.request.kind
         /\ orders[call.id].entry = call.request.entry
         /\ orders[call.id].size = call.request.size
    /\ call.step \in {"cancelling", "cancelled"} =>
         /\ c /= "stop"
         /\ call.id \in DOMAIN orders /\ orders[call.id].kind = "entry"
         /\ call.request.kind = "entry"
         /\ call.request.generation <= Len(orders)

CallsInv ==
    /\ calls \in [Callers -> Calls]
    /\ \A c \in Callers : WellFormedCall(c, calls[c], market)

\* What was cancelled, and what was resubmitted for that, is not open.
ClosedInv ==
    /\ resubmits \in [Ids -> Nat]
    /\ \A o \in Ids : resubmits[o] > 0 => o \in Entries /\ market[o].status /= "open"
    /\ \A c \in Callers : calls[c].step = "cancelled" => market[calls[c].id].status /= "open"

\* What is left of a partial fill is at most what was asked for.
PartialsInv ==
    /\ known \in [Ids -> 0..2 * EntrySize]
    /\ \A t \in todo : t.id \in Entries /\ t.amount \in 0..EntrySize
    /\ accepted \subseteq Entries

ResubmitsInv == ClosedInv /\ PartialsInv

Placing == calls["stop"].step \in {"posting", "answered"}

\* A stop is registered for an entry that is known, until it is placed.
RegistrationsInv ==
    /\ configs \subseteq Entries \intersect DOMAIN updates
    /\ due \subseteq Entries
    /\ DOMAIN stops \subseteq Entries
    /\ configs \intersect DOMAIN stops = {}

\* A stop has an id once it was placed, and is cancelled by the last event it gets.
WellFormedStop(e) ==
    /\ stops[e] \in [state : StopStates, id : Nat, attempts : 1..StopRetries]
    /\ stops[e].id /= 0 => stops[e].id \in StopsOf(e)
    /\ stops[e].state \in {"PENDING_PLACEMENT", "FAILED"} <=> stops[e].id = 0
    /\ stops[e].state = "CANCELLED" => market[stops[e].id].told = 2

PlacingInv ==
    Placing => /\ calls["stop"].request.entry \in DOMAIN stops
               /\ stops[calls["stop"].request.entry].state = "PENDING_PLACEMENT"

StopsInv ==
    /\ RegistrationsInv
    /\ \A e \in DOMAIN stops : WellFormedStop(e)
    /\ PlacingInv
    /\ ListedIffAnnounced

\* Unless an answer was lost, an entry has no stop at the exchange before its
\* placement is accepted.
NoSecondStop ==
    /\ lost \in BOOLEAN
    /\ ~lost =>
         /\ \A e \in Entries : e \notin DOMAIN stops => StopsOf(e) = {}
         /\ calls["stop"].step = "posting" => StopsOf(calls["stop"].request.entry) = {}
         /\ \A e \in Entries : \A a, b \in StopsOf(e) : a = b

IndInv == MarketInv /\ UpdatesInv /\ CallsInv /\ ResubmitsInv /\ StopsInv /\ NoSecondStop

-----------------------------------------------------------------------------
(* The orders at the exchange                                              *)

\* How an order may change: it stays the order it is, what was executed and
\* told is not taken back, and it is not opened again.
Keeps(old, new) ==
    /\ new \in OrderRecords
    /\ new.kind = old.kind /\ new.entry = old.entry /\ new.size = old.size
    /\ new.generation = old.generation /\ new.cascade = old.cascade
    /\ new.filled >= old.filled /\ new.told >= old.told
    /\ old.status /= "open" => new.status /= "open"
    /\ new.kind = "entry" =>
         /\ new.filled <= new.size
         /\ new.status \in {"open", "closed", "void"}
         /\ new.status = "open" => new.filled < new.size
         /\ new.told <= new.filled
    /\ new.kind = "stop" => new.filled = 0 /\ new.told <= 2

Same == market' = market

\* A request gets an id: the exchange's, or the client's own.
Answers(c) == Accept(c) \/ OkWithoutOrder(c)
Added(c) ==
    /\ calls[c].step = "posting"
    /\ Len(market) < MaxOrders
    /\ \E status \in {"open", "void"} :
          market' = Append(market, NewOrder(calls[c].request, status))
Changed(o) == \E r : Keeps(market[o], r) /\ market' = [market EXCEPT ![o] = r]

LEMMA OrdersAreRecords ==
    ASSUME MarketInv
    PROVE  /\ Issued = 1..Len(market) /\ Len(market) \in Nat
           /\ Issued \subseteq Ids
           /\ \A o \in Issued : market[o] \in OrderRecords /\ WellFormedOrder(o)
           /\ Entries \subseteq Issued
<1>1. market \in Seq(OrderRecords) /\ Len(market) <= MaxOrders
  BY DEF MarketInv
<1>2. Issued = 1..Len(market) /\ Len(market) \in Nat
  BY <1>1, LenProperties DEF Issued
<1>3. Issued \subseteq Ids
  BY <1>1, <1>2, RetriesAssumption DEF Ids
<1>4. \A o \in Issued : market[o] \in OrderRecords
  BY <1>1, <1>2, ElementOfSeq
<1> QED BY <1>2, <1>3, <1>4 DEF MarketInv, Entries

LEMMA FillChanges ==
    ASSUME MarketInv, NEW o, Fill(o)
    PROVE  o \in Issued /\ Changed(o)
<1>1. o \in Issued /\ market[o] \in OrderRecords /\ WellFormedOrder(o) /\ market[o].kind = "entry"
  BY OrdersAreRecords DEF Fill, Entries
<1> DEFINE old == market[o]
<1>2. /\ old \in OrderRecords /\ old.kind = "entry" /\ old.status = "open"
      /\ old.filled < old.size /\ old.told <= old.filled
  BY <1>1 DEF WellFormedOrder, Fill
<1>3. /\ old.filled \in Nat /\ old.size \in Int /\ old.told \in Nat
      /\ [old EXCEPT !.filled = old.filled + 1, !.status = "closed"] \in OrderRecords
      /\ [old EXCEPT !.filled = old.filled + 1, !.status = "open"] \in OrderRecords
  <2> HIDE DEF old
  <2>1. old.filled \in Nat /\ old.size \in Int /\ old.told \in Nat
    BY <1>2, EntryAssumption DEF OrderRecords
  <2>2. old.filled + 1 \in Nat
    BY <2>1
  <2>3. \A n \in Nat, status \in {"open", "closed"} :
           [old EXCEPT !.filled = n, !.status = status] \in OrderRecords
    BY <1>2 DEF OrderRecords
  <2> QED BY <2>1, <2>2, <2>3
<1>4. CASE old.filled + 1 = old.size
  <2> DEFINE new == [old EXCEPT !.filled = old.filled + 1, !.status = "closed"]
  <2>1. market' = [market EXCEPT ![o] = new]
    BY <1>4 DEF Fill
  <2> HIDE DEF old
  <2>2. Keeps(old, new)
    BY <1>2, <1>3, <1>4 DEF Keeps, OrderRecords
  <2> QED BY <1>1, <2>1, <2>2 DEF Changed, old
<1>5. CASE old.filled + 1 /= old.size
  <2> DEFINE new == [old EXCEPT !.filled = old.filled + 1, !.status = "open"]
  <2>1. market' = [market EXCEPT ![o] = new]
    BY <1>2, <1>5 DEF Fill
  <2> HIDE DEF old
  <2>2. Keeps(old, new)
    BY <1>2, <1>3, <1>5 DEF Keeps, OrderRecords
  <2> QED BY <1>1, <2>1, <2>2 DEF Changed, old
<1> QED BY <1>4, <1>5

LEMMA HandleFillChanges ==
    ASSUME MarketInv, NEW o, HandleFill(o)
    PROVE  o \in Issued /\ Changed(o)
<1>1. o \in Issued /\ market[o] \in OrderRecords /\ WellFormedOrder(o) /\ market[o].kind = "entry"
  BY OrdersAreRecords DEF HandleFill, Entries
<1> DEFINE r == [market[o] EXCEPT !.told = @ + 1]
<1>2. market' = [market EXCEPT ![o] = r]
  BY DEF HandleFill
<1>3. Keeps(market[o], r)
  BY <1>1 DEF Keeps, OrderRecords, WellFormedOrder, HandleFill
<1> QED BY <1>1, <1>2, <1>3 DEF Changed

LEMMA StopMovesChanges ==
    ASSUME MarketInv, NEW o, StopMoves(o)
    PROVE  o \in Issued /\ Changed(o)
<1>1. o \in Issued /\ market[o] \in OrderRecords /\ WellFormedOrder(o) /\ market[o].kind = "stop"
  BY OrdersAreRecords DEF StopMoves
<1>2. PICK to \in {"triggered", "filled", "canceled"} : market' = [market EXCEPT ![o].status = to]
  BY DEF StopMoves
<1> DEFINE r == [market[o] EXCEPT !.status = to]
<1>3. Keeps(market[o], r)
  BY <1>1 DEF Keeps, OrderRecords, WellFormedOrder
<1> QED BY <1>1, <1>2, <1>3 DEF Changed

LEMMA StopEventChanges ==
    ASSUME MarketInv, NEW o, NEW stage \in {1, 2}, NEW state, StopEvent(o, stage, state)
    PROVE  /\ o \in Issued /\ Changed(o)
           /\ market'[o].told = stage
<1>1. o \in Issued /\ market[o] \in OrderRecords /\ WellFormedOrder(o) /\ market[o].kind = "stop"
  BY OrdersAreRecords DEF StopEvent
<1> DEFINE r == [market[o] EXCEPT !.told = stage]
<1>2. market' = [market EXCEPT ![o] = r]
  BY DEF StopEvent
<1>3. Keeps(market[o], r) /\ r.told = stage
  BY <1>1 DEF Keeps, OrderRecords, WellFormedOrder, StopEvent
<1>4. market'[o] = r
  BY <1>1, <1>2 DEF Issued
<1> QED BY <1>1, <1>2, <1>3, <1>4 DEF Changed

LEMMA CancelReachesChanges ==
    ASSUME MarketInv, CallsInv, NEW c \in Callers, CancelReaches(c)
    PROVE  calls[c].id \in Issued /\ Changed(calls[c].id)
<1> DEFINE o == calls[c].id
<1>1. o \in Entries
  BY DEF CancelReaches, CallsInv, WellFormedCall, Entries, Issued
<1>2. o \in Issued /\ market[o] \in OrderRecords /\ WellFormedOrder(o) /\ market[o].kind = "entry"
  BY <1>1, OrdersAreRecords DEF Entries
<1>3. PICK status : status = IF market[o].status = "open" THEN "closed" ELSE market[o].status
  OBVIOUS
<1> DEFINE r == [market[o] EXCEPT !.status = status]
<1>4. market' = [market EXCEPT ![o] = r]
  BY <1>3 DEF CancelReaches
<1> HIDE DEF o
<1>5. status \in {"closed", "void"}
  BY <1>2, <1>3 DEF WellFormedOrder
<1>6. Keeps(market[o], r)
  BY <1>2, <1>5 DEF Keeps, OrderRecords, WellFormedOrder
<1> QED BY <1>2, <1>4, <1>6 DEF Changed, o

\* Every step leaves the orders as they are, adds one or changes one.
LEMMA MarketMoves ==
    ASSUME MarketInv, CallsInv, [Next]_vars
    PROVE  \/ Same
           \/ \E c \in Callers : Answers(c) /\ Added(c)
           \/ \E o \in Issued : Changed(o)
<1>1. ASSUME NEW c \in Callers, CallStep(c)
      PROVE  Same \/ (Answers(c) /\ Added(c)) \/ (\E o \in Issued : Changed(o))
  <2>1. CASE CancelReaches(c)
    BY <2>1, CancelReachesChanges
  <2>2. CASE Answers(c)
    BY <2>2 DEF Answers, Accept, OkWithoutOrder, Added
  <2> QED BY <1>1, <2>1, <2>2 DEF CallStep, Unreached, Refuse, Answers, Record, CancelFails,
             CancelAnswered, exchange, Same
<1>2. ASSUME NEW o \in Ids, HandleStopTriggered(o) \/ HandleStopFilled(o) \/ HandleStopCancelled(o)
      PROVE  \E a \in Issued : Changed(a)
  BY <1>2, StopEventChanges DEF HandleStopTriggered, HandleStopFilled, HandleStopCancelled
<1>3. ASSUME NEW o \in Ids, Fill(o) \/ HandleFill(o) \/ StopMoves(o)
      PROVE  \E a \in Issued : Changed(a)
  BY <1>3, FillChanges, HandleFillChanges, StopMovesChanges
<1>4. "client" \in Callers /\ "partial" \in Callers /\ "stop" \in Callers
  BY DEF Callers
<1>5. ASSUME NEW o \in Ids, CancelOrder(o) \/ HandleOrderUpdate(o) \/ RegisterStop(o) \/ PlaceStop(o)
      PROVE  Same
  BY <1>5 DEF CancelOrder, HandleOrderUpdate, RegisterStop, PlaceStop, exchange, Same
<1>6. CASE SubmitOrder \/ CheckPartialFills \/ HandlePartialFill \/ UNCHANGED vars
  BY <1>6 DEF SubmitOrder, CheckPartialFills, HandlePartialFill, vars, exchange, Same
<1> QED BY <1>1, <1>2, <1>3, <1>4, <1>5, <1>6 DEF Next, StopPlacementStep

\* What every step leaves of the orders there were.
Kept ==
    /\ Issued \subseteq Issued' /\ Entries \subseteq Entries'
    /\ Len(market) \in Nat /\ Len(market') \in Nat /\ Len(market) <= Len(market')
    /\ \A o \in Issued : Keeps(market[o], market'[o])
    /\ \A e : StopsOf(e) \subseteq StopsOf(e)'

LEMMA KeptReflexive ==
    ASSUME MarketInv
    PROVE  \A o \in Issued : Keeps(market[o], market[o])
<1> TAKE o \in Issued
<1>1. market[o] \in OrderRecords /\ WellFormedOrder(o)
  BY OrdersAreRecords
<1>2. market[o].filled \in Nat /\ market[o].told \in Nat
  BY <1>1 DEF OrderRecords
<1> QED BY <1>1, <1>2 DEF Keeps, WellFormedOrder

LEMMA SameKeeps ==
    ASSUME MarketInv, Same
    PROVE  MarketInv' /\ Kept /\ Issued' = Issued /\ \A e : StopsOf(e)' = StopsOf(e)
<1>1. Issued' = Issued /\ Entries' = Entries /\ \A e : StopsOf(e)' = StopsOf(e)
  BY DEF Same, Issued, Entries, StopsOf
<1>2. MarketInv'
  BY <1>1 DEF MarketInv, WellFormedOrder, Same, Entries, Issued
<1> QED BY <1>1, <1>2, KeptReflexive, OrdersAreRecords DEF Kept, Same

LEMMA ChangedKeeps ==
    ASSUME MarketInv, NEW o \in Issued, Changed(o)
    PROVE  MarketInv' /\ Kept /\ Issued' = Issued /\ \A e : StopsOf(e)' = StopsOf(e)
<1>1. PICK r : Keeps(market[o], r) /\ market' = [market EXCEPT ![o] = r]
  BY DEF Changed
<1>2. o \in 1..Len(market) /\ r \in OrderRecords /\ market \in Seq(OrderRecords)
  BY <1>1, OrdersAreRecords DEF Keeps, MarketInv
<1>3. market' \in Seq(OrderRecords) /\ Len(market') = Len(market)
      /\ \A a \in 1..Len(market) : market'[a] = IF a = o THEN r ELSE market[a]
  BY <1>1, <1>2, ExceptSeq
<1>4. Issued' = Issued
  BY <1>3, OrdersAreRecords, LenProperties DEF Issued
<1>5. \A a \in Issued : Keeps(market[a], market'[a])
  BY <1>1, <1>3, KeptReflexive, OrdersAreRecords
<1>6. Entries' = Entries /\ \A e : StopsOf(e)' = StopsOf(e)
  BY <1>4, <1>5 DEF Entries, StopsOf, Keeps
<1>7. ASSUME NEW a \in Issued
      PROVE  WellFormedOrder(a)'
  BY <1>5, <1>6, OrdersAreRecords DEF WellFormedOrder, Keeps
<1>8. MarketInv'
  BY <1>3, <1>4, <1>7 DEF MarketInv
<1> QED BY <1>3, <1>4, <1>5, <1>6, <1>8, OrdersAreRecords DEF Kept

\* What is filed is what was asked for, and nothing of it is executed.
NewlyFiled(order, request) ==
    /\ order.kind = request.kind /\ order.entry = request.entry /\ order.size = request.size
    /\ order.filled = 0

LEMMA AddedKeeps ==
    ASSUME MarketInv, CallsInv, StopsInv, NEW c \in Callers, Added(c)
    PROVE  /\ MarketInv' /\ Kept
           /\ Issued' = Issued \union {Len(market) + 1} /\ Len(market) + 1 \notin Issued
           /\ \A o \in Issued : market'[o] = market[o]
           /\ NewlyFiled(market'[Len(market) + 1], calls[c].request)
<1>0. PICK n : n = Len(market) + 1
  OBVIOUS
<1>a. PICK status \in {"open", "void"} :
        market' = Append(market, NewOrder(calls[c].request, status))
  BY DEF Added
<1> DEFINE new == NewOrder(calls[c].request, status)
<1>1. /\ calls[c].request \in Requests /\ calls[c].request.size > 0
      /\ calls[c].request.generation <= Len(market)
      /\ calls[c].request.kind = "stop" => calls[c].request.entry \in Entries
  <2>1. calls[c] \in Calls /\ calls[c].step = "posting"
    BY DEF Added, CallsInv
  <2>2. /\ calls[c].request.size > 0 /\ calls[c].request.generation <= Len(market)
        /\ calls[c].request.kind = IF c = "stop" THEN "stop" ELSE "entry"
    BY <2>1 DEF CallsInv, WellFormedCall
  <2>3. calls[c].request.kind = "stop" => calls[c].request.entry \in Entries
    BY <2>1, <2>2 DEF StopsInv, Placing, PlacingInv, RegistrationsInv
  <2> QED BY <2>1, <2>2, <2>3 DEF Calls
<1>2. new \in OrderRecords /\ new.filled = 0 /\ new.told = 0 /\ new.status \in {"open", "void"}
      /\ new.kind = calls[c].request.kind /\ new.entry = calls[c].request.entry
      /\ new.generation = calls[c].request.generation
      /\ new.size = calls[c].request.size
  BY <1>1, EntryAssumption DEF NewOrder, Requests, OrderRecords, Kinds
<1> HIDE DEF new
<1>3. /\ market \in Seq(OrderRecords) /\ Len(market) \in Nat /\ Issued = 1..Len(market)
      /\ Len(market) < MaxOrders /\ market' = Append(market, new)
  BY <1>a, OrdersAreRecords DEF MarketInv, Added, new
<1>4. /\ market' \in Seq(OrderRecords) /\ Len(market') = n
      /\ market'[n] = new /\ \A o \in Issued : market'[o] = market[o]
  BY <1>0, <1>2, <1>3, AppendProperties
<1>5. Issued' = Issued \union {n} /\ n \notin Issued
  <2>1. DOMAIN market' = 1..n
    BY <1>4, LenProperties
  <2>2. Issued' = 1..n
    BY <2>1 DEF Issued
  <2>3. 1..n = (1..Len(market)) \union {n} /\ n \notin 1..Len(market)
    BY <1>0, <1>3
  <2> QED BY <1>3, <2>2, <2>3
<1>6. Entries \subseteq Entries' /\ \A e : StopsOf(e) \subseteq StopsOf(e)'
  <2>1. \A o \in Issued : o \in Issued' /\ market'[o] = market[o]
    BY <1>4, <1>5
  <2> QED BY <2>1 DEF Entries, StopsOf
<1>7. ASSUME NEW o \in Issued
      PROVE  WellFormedOrder(o)'
  BY <1>4, <1>6, OrdersAreRecords DEF WellFormedOrder
<1>8. WellFormedOrder(n)'
  <2>1. new.generation < n
    BY <1>0, <1>1, <1>2, <1>3 DEF OrderRecords
  <2>2. new.size \in 1..EntrySize
    BY <1>2 DEF OrderRecords
  <2> QED BY <1>1, <1>2, <1>4, <1>6, <2>1, <2>2, EntryAssumption DEF WellFormedOrder
<1>9. MarketInv'
  <2>1. Len(market') <= MaxOrders
    BY <1>0, <1>3, <1>4, RetriesAssumption
  <2> QED BY <1>4, <1>5, <1>7, <1>8, <2>1 DEF MarketInv
<1> QED BY <1>0, <1>2, <1>3, <1>4, <1>5, <1>6, <1>9, KeptReflexive DEF Kept, NewlyFiled

LEMMA MarketHolds ==
    ASSUME MarketInv, CallsInv, StopsInv, [Next]_vars
    PROVE  MarketInv' /\ Kept
BY MarketMoves, SameKeeps, ChangedKeeps, AddedKeeps

-----------------------------------------------------------------------------
(* The coroutines                                                          *)

LEMMA CallKept ==
    ASSUME MarketInv, Kept, NEW c, NEW call, WellFormedCall(c, call, market)
    PROVE  WellFormedCall(c, call, market')
<1>1. \A o \in DOMAIN market :
        /\ o \in DOMAIN market'
        /\ market'[o].kind = market[o].kind /\ market'[o].entry = market[o].entry
        /\ market'[o].size = market[o].size
  BY DEF Kept, Keeps, Issued
<1>2. call \in Calls => call.request.generation \in Nat
  BY DEF Calls, Requests
<1>3. Len(market) \in Nat /\ Len(market') \in Nat /\ Len(market) <= Len(market')
  BY DEF Kept
<1> QED BY <1>1, <1>2, <1>3 DEF WellFormedCall

\* The other coroutines stay as they were.
LEMMA OneCallChanges ==
    ASSUME MarketInv, CallsInv, Kept, NEW c \in Callers, NEW call,
           WellFormedCall(c, call, market'), calls' = [calls EXCEPT ![c] = call]
    PROVE  CallsInv'
<1>1. call \in Calls
  BY DEF WellFormedCall
<1>2. calls' \in [Callers -> Calls]
  BY <1>1 DEF CallsInv
<1>3. \A d \in Callers : calls'[d] = IF d = c THEN call ELSE calls[d]
  BY DEF CallsInv
<1>4. \A d \in Callers : WellFormedCall(d, calls'[d], market')
  BY <1>3, CallKept DEF CallsInv
<1> QED BY <1>2, <1>4 DEF CallsInv

LEMMA NoCallChanges ==
    ASSUME MarketInv, CallsInv, Kept, calls' = calls
    PROVE  CallsInv'
<1>1. \A d \in Callers : WellFormedCall(d, calls'[d], market')
  BY CallKept DEF CallsInv
<1> QED BY <1>1 DEF CallsInv

LEMMA IdleIsWellFormed ==
    ASSUME NEW c, NEW orders
    PROVE  WellFormedCall(c, Idle, orders)
<1>1. Idle = [step |-> "idle", request |-> [kind |-> "entry", entry |-> 0, size |-> 0,
                generation |-> 0, cascade |-> FALSE], attempt |-> 0, id |-> 0]
  BY DEF Idle, Call, NoRequest, EntryRequest
<1>2. 0 \in 0..EntrySize /\ 0 \in 0..MaxRetries
  BY EntryAssumption, RetriesAssumption
<1>3. [kind |-> "entry", entry |-> 0, size |-> 0, generation |-> 0, cascade |-> FALSE] \in Requests
  BY <1>2 DEF Requests, Kinds
<1>4. Idle \in Calls /\ Idle.step = "idle" /\ Idle.id = 0
  BY <1>1, <1>2, <1>3 DEF Calls, Steps
<1> HIDE DEF Idle
<1> QED BY <1>4 DEF WellFormedCall

LEMMA PostingIsWellFormed ==
    ASSUME NEW c, NEW orders, NEW request \in Requests, request.size > 0,
           request.kind = IF c = "stop" THEN "stop" ELSE "entry",
           request.generation <= Len(orders), NEW attempt \in 1..MaxRetries
    PROVE  WellFormedCall(c, Call("posting", request, attempt, 0), orders)
BY RetriesAssumption DEF WellFormedCall, Call, Calls, Steps

\* What a submission that fails, or fails for good, does to its coroutine.
LEMMA SubmissionFailsCall ==
    ASSUME MarketInv, CallsInv, Kept, NEW c \in Callers, calls[c].step = "posting",
           SubmissionFails(c)
    PROVE  CallsInv'
<1>1. calls' = [calls EXCEPT ![c] = Idle] \/ calls' = [calls EXCEPT ![c] = Posting(calls[c].request)]
  BY DEF SubmissionFails
<1>2. WellFormedCall(c, calls[c], market')
  BY CallKept DEF CallsInv
<1>3. WellFormedCall(c, Posting(calls[c].request), market')
  <2>1. 1 \in 1..MaxRetries
    BY RetriesAssumption
  <2>2. /\ calls[c].request \in Requests /\ calls[c].request.size > 0
        /\ calls[c].request.kind = IF c = "stop" THEN "stop" ELSE "entry"
        /\ calls[c].request.generation <= Len(market')
    BY <1>2 DEF WellFormedCall, Calls
  <2> QED BY <2>1, <2>2, PostingIsWellFormed DEF Posting
<1>4. WellFormedCall(c, Idle, market')
  BY IdleIsWellFormed
<1>5. PICK idle, posting : idle = Idle /\ posting = Posting(calls[c].request)
  OBVIOUS
<1> QED BY <1>1, <1>3, <1>4, <1>5, OneCallChanges

LEMMA RequestFailsCall ==
    ASSUME MarketInv, CallsInv, Kept, NEW c \in Callers, calls[c].step = "posting",
           RequestFails(c)
    PROVE  CallsInv'
<1>1. CASE Repeats(c)
  <2>1. WellFormedCall(c, calls[c], market') /\ calls[c] \in Calls
    BY CallKept DEF CallsInv
  <2>2. PICK next : next = [calls[c] EXCEPT !.attempt = calls[c].attempt + 1]
    OBVIOUS
  <2>3. calls' = [calls EXCEPT ![c] = next]
    BY <1>1, <2>2 DEF RequestFails
  <2>4. calls[c].attempt + 1 \in 0..MaxRetries /\ calls[c].attempt + 1 > 0
    BY <1>1, <2>1, RetriesAssumption DEF Repeats, Calls
  <2>5. WellFormedCall(c, next, market')
    BY <2>1, <2>2, <2>4 DEF WellFormedCall, Calls
  <2> QED BY <2>3, <2>5, OneCallChanges
<1>2. CASE ~Repeats(c)
  BY <1>2, SubmissionFailsCall DEF RequestFails
<1> QED BY <1>1, <1>2

LEMMA AcceptCall ==
    ASSUME MarketInv, CallsInv, StopsInv, NEW c \in Callers, Answers(c), MarketInv', Kept
    PROVE  CallsInv'
<1>1. Added(c) /\ calls[c].step = "posting"
  BY DEF Answers, Accept, OkWithoutOrder, Added
<1>2. CASE RequestFails(c)
  BY <1>1, <1>2, RequestFailsCall
<1>3. CASE calls' = [calls EXCEPT ![c].step = "answered", ![c].id = Len(market) + 1]
  <2>1. PICK next : next = [calls[c] EXCEPT !.step = "answered", !.id = Len(market) + 1]
    OBVIOUS
  <2>2. PICK n : n = Len(market) + 1
    OBVIOUS
  <2>3. calls' = [calls EXCEPT ![c] = next]
    BY <1>3, <2>1
  <2>4. /\ WellFormedCall(c, calls[c], market) /\ calls[c] \in Calls
        /\ calls[c].request \in Requests
    BY DEF CallsInv, WellFormedCall, Calls
  <2>5. n \in Nat /\ n \in DOMAIN market' /\ NewlyFiled(market'[n], calls[c].request)
    BY <1>1, <2>2, AddedKeeps, OrdersAreRecords DEF Issued
  <2>6. /\ market'[n].kind = calls[c].request.kind
        /\ market'[n].entry = calls[c].request.entry
        /\ market'[n].size = calls[c].request.size
    BY <2>5 DEF NewlyFiled
  <2>7. next \in Calls
    BY <2>1, <2>2, <2>4, <2>5 DEF Calls, Steps
  <2>8. next.step = "answered" /\ next.id = n /\ next.request = calls[c].request
    BY <2>1, <2>2, <2>4 DEF Calls
  <2>9. WellFormedCall(c, next, market')
    BY <1>1, <2>4, <2>5, <2>6, <2>7, <2>8 DEF WellFormedCall
  <2> QED BY <2>3, <2>9, OneCallChanges
<1> QED BY <1>2, <1>3 DEF Answers, Accept, OkWithoutOrder

LEMMA CancelCall ==
    ASSUME MarketInv, CallsInv, Kept, NEW c \in Callers,
           CancelReaches(c) \/ CancelFails(c) \/ CancelAnswered(c)
    PROVE  CallsInv'
<1>1. PICK idle, posting : idle = Idle /\ posting = Posting(calls[c].request)
  OBVIOUS
<1>2. WellFormedCall(c, calls[c], market') /\ calls[c] \in Calls /\ calls[c].request \in Requests
  BY CallKept DEF CallsInv, Calls
<1>3. WellFormedCall(c, idle, market')
  BY <1>1, IdleIsWellFormed
<1>4. CASE CancelReaches(c)
  <2>1. PICK next : next = [calls[c] EXCEPT !.step = "cancelled"]
    OBVIOUS
  <2>2. calls[c].step = "cancelling" /\ calls' = [calls EXCEPT ![c] = next]
    BY <1>4, <2>1 DEF CancelReaches
  <2>3. next \in Calls /\ next.step = "cancelled" /\ next.id = calls[c].id
        /\ next.request = calls[c].request
    BY <1>2, <2>1 DEF Calls, Steps
  <2>4. WellFormedCall(c, next, market')
    BY <1>2, <2>2, <2>3 DEF WellFormedCall
  <2> QED BY <2>2, <2>4, OneCallChanges
<1>5. CASE CancelFails(c)
  BY <1>1, <1>3, <1>5, OneCallChanges DEF CancelFails
<1>6. CASE CancelAnswered(c)
  <2>1. CASE calls[c].request.size > 0
    <3>1. calls' = [calls EXCEPT ![c] = posting]
      BY <1>1, <1>6, <2>1 DEF CancelAnswered
    <3>2. 1 \in 1..MaxRetries
      BY RetriesAssumption
    <3>3. calls[c].step = "cancelled"
      BY <1>6 DEF CancelAnswered
    <3>4. /\ calls[c].request.kind = IF c = "stop" THEN "stop" ELSE "entry"
          /\ calls[c].request.generation <= Len(market')
      BY <1>2, <3>3 DEF WellFormedCall
    <3>5. WellFormedCall(c, posting, market')
      BY <1>1, <1>2, <2>1, <3>2, <3>4, PostingIsWellFormed DEF Posting
    <3> QED BY <3>1, <3>5, OneCallChanges
  <2>2. CASE ~(calls[c].request.size > 0)
    <3>1. calls' = [calls EXCEPT ![c] = idle]
      BY <1>1, <1>6, <2>2 DEF CancelAnswered
    <3> QED BY <1>3, <3>1, OneCallChanges
  <2> QED BY <2>1, <2>2
<1> QED BY <1>4, <1>5, <1>6

LEMMA CancellingIsWellFormed ==
    ASSUME MarketInv, NEW c \in {"client", "partial"}, NEW o \in Entries,
           NEW request \in Requests, request.kind = "entry", request.generation <= Len(market)
    PROVE  WellFormedCall(c, Cancelling(o, request), market)
<1>1. o \in DOMAIN market /\ market[o].kind = "entry" /\ o \in Nat
  BY OrdersAreRecords DEF Entries, Issued
<1>2. PICK call : call = Cancelling(o, request)
  OBVIOUS
<1>3. call \in Calls /\ call.step = "cancelling" /\ call.id = o /\ call.request = request
  BY <1>1, <1>2, RetriesAssumption DEF Cancelling, Call, Calls, Steps
<1> QED BY <1>1, <1>2, <1>3 DEF WellFormedCall

LEMMA StartCall ==
    ASSUME MarketInv, UpdatesInv, CallsInv, ResubmitsInv, StopsInv, Kept,
           \/ SubmitOrder \/ HandlePartialFill
           \/ \E o \in Ids : CancelOrder(o) \/ PlaceStop(o)
    PROVE  CallsInv'
<1>1. CASE SubmitOrder
  <2>1. PICK cascade \in BOOLEAN :
          calls' = [calls EXCEPT !["client"] = Posting(EntryRequest(EntrySize, 0, cascade))]
    BY <1>1 DEF SubmitOrder
  <2>2. PICK request, call : request = EntryRequest(EntrySize, 0, cascade) /\ call = Posting(request)
    OBVIOUS
  <2>3. request \in Requests /\ request.size > 0 /\ request.kind = "entry" /\ request.generation = 0
    BY <2>2, EntryAssumption DEF EntryRequest, Requests, Kinds
  <2>4. Len(market') \in Nat /\ 1 \in 1..MaxRetries /\ "client" \in Callers
    BY RetriesAssumption DEF Kept, Callers
  <2>5. WellFormedCall("client", call, market')
    BY <2>2, <2>3, <2>4, PostingIsWellFormed DEF Posting
  <2> QED BY <2>1, <2>2, <2>4, <2>5, OneCallChanges
<1>2. CASE HandlePartialFill
  <2>1. PICK t \in todo :
          calls' = IF t.id \notin pending THEN calls
                   ELSE [calls EXCEPT !["partial"] =
                           Cancelling(t.id, EntryRequest(t.amount, market[t.id].generation + 1,
                                                         market[t.id].cascade))]
    BY <1>2 DEF HandlePartialFill
  <2>2. PICK request, call :
          /\ request = EntryRequest(t.amount, market[t.id].generation + 1, market[t.id].cascade)
          /\ call = Cancelling(t.id, request)
    OBVIOUS
  <2>3. t.id \in Entries /\ t.amount \in 0..EntrySize
    BY DEF ResubmitsInv, PartialsInv
  <2>4. /\ t.id \in Issued /\ market[t.id] \in OrderRecords
        /\ market[t.id].generation < t.id /\ t.id <= Len(market)
    BY <2>3, OrdersAreRecords DEF WellFormedOrder
  <2>5. /\ market[t.id].generation \in Nat /\ market[t.id].cascade \in BOOLEAN
        /\ t.id \in Nat /\ Len(market) \in Nat
    BY <2>4, OrdersAreRecords DEF OrderRecords
  <2>6. market[t.id].generation + 1 \in Nat /\ market[t.id].generation + 1 <= Len(market)
    BY <2>4, <2>5
  <2>7. request \in Requests /\ request.kind = "entry" /\ request.generation <= Len(market)
    BY <2>2, <2>3, <2>5, <2>6 DEF EntryRequest, Requests, Kinds
  <2>8. WellFormedCall("partial", call, market')
    BY <2>2, <2>3, <2>7, CancellingIsWellFormed, CallKept
  <2>9. "partial" \in Callers
    BY DEF Callers
  <2> QED BY <2>1, <2>2, <2>8, <2>9, OneCallChanges, NoCallChanges
<1>3. ASSUME NEW o \in Ids, CancelOrder(o)
      PROVE  CallsInv'
  <2>1. o \in Entries /\ calls' = [calls EXCEPT !["client"] = Cancelling(o, NoRequest)]
    BY <1>3 DEF CancelOrder, UpdatesInv, Entries
  <2>2. NoRequest \in Requests /\ NoRequest.kind = "entry" /\ NoRequest.generation = 0
    BY EntryAssumption DEF NoRequest, EntryRequest, Requests, Kinds
  <2>3. PICK call : call = Cancelling(o, NoRequest)
    OBVIOUS
  <2>4. WellFormedCall("client", call, market')
    <3>1. 0 <= Len(market)
      BY OrdersAreRecords
    <3> QED BY <2>1, <2>2, <2>3, <3>1, CancellingIsWellFormed, CallKept
  <2>5. "client" \in Callers
    BY DEF Callers
  <2> QED BY <2>1, <2>3, <2>4, <2>5, OneCallChanges
<1>4. ASSUME NEW e \in Ids, PlaceStop(e)
      PROVE  CallsInv'
  <2>1. CASE e \notin configs
    BY <1>4, <2>1, NoCallChanges DEF PlaceStop
  <2>2. CASE e \in configs
    <3>1. calls' = [calls EXCEPT !["stop"] = Posting(StopRequest(e))]
      BY <1>4, <2>2 DEF PlaceStop
    <3>2. PICK request, call : request = StopRequest(e) /\ call = Posting(request)
      OBVIOUS
    <3>3. e \in DOMAIN updates /\ updates[e].size \in 1..EntrySize /\ e \in Nat
      <4>1. e \in DOMAIN updates /\ e \in Entries
        BY <2>2 DEF StopsInv, RegistrationsInv
      <4>2. updates[e] \in UpdateRecords
        BY <4>1 DEF UpdatesInv
      <4> QED BY <4>1, <4>2, OrdersAreRecords DEF UpdateRecords
    <3>4. /\ request \in Requests /\ request.size > 0 /\ request.kind = "stop"
          /\ request.generation = 0
      BY <3>2, <3>3, EntryAssumption DEF StopRequest, Requests, Kinds
    <3>5. Len(market') \in Nat /\ 1 \in 1..MaxRetries /\ "stop" \in Callers
      BY RetriesAssumption DEF Kept, Callers
    <3>6. WellFormedCall("stop", call, market')
      BY <3>2, <3>4, <3>5, PostingIsWellFormed DEF Posting
    <3> QED BY <3>1, <3>2, <3>5, <3>6, OneCallChanges
  <2> QED BY <2>1, <2>2
<1> QED BY <1>1, <1>2, <1>3, <1>4

LEMMA CallsHold ==
    ASSUME IndInv, [Next]_vars, MarketInv', Kept
    PROVE  CallsInv'
<1> USE DEF IndInv
<1>1. ASSUME NEW c \in Callers, CallStep(c)
      PROVE  CallsInv'
  <2>1. CASE Unreached(c)
    BY <2>1, RequestFailsCall DEF Unreached
  <2>2. CASE Refuse(c)
    BY <2>2, SubmissionFailsCall DEF Refuse
  <2>3. CASE Answers(c)
    BY <2>3, AcceptCall
  <2>4. CASE Record(c)
    <3>1. PICK idle : idle = Idle
      OBVIOUS
    <3>2. calls' = [calls EXCEPT ![c] = idle]
      BY <2>4, <3>1 DEF Record
    <3> QED BY <3>1, <3>2, IdleIsWellFormed, OneCallChanges
  <2> QED BY <1>1, <2>1, <2>2, <2>3, <2>4, CancelCall DEF CallStep, Answers
<1>2. CASE SubmitOrder \/ HandlePartialFill \/ \E o \in Ids : CancelOrder(o) \/ PlaceStop(o)
  BY <1>2, StartCall
<1>3. CASE \/ CheckPartialFills \/ UNCHANGED vars
           \/ \E o \in Ids :
                 \/ Fill(o) \/ HandleFill(o) \/ HandleOrderUpdate(o)
                 \/ RegisterStop(o) \/ StopMoves(o)
                 \/ HandleStopTriggered(o) \/ HandleStopFilled(o) \/ HandleStopCancelled(o)
  <2>1. calls' = calls
    BY <1>3 DEF CheckPartialFills, Fill, HandleFill, HandleOrderUpdate, RegisterStop, StopMoves,
       HandleStopTriggered, HandleStopFilled, HandleStopCancelled, StopEvent, vars
  <2> QED BY <2>1, NoCallChanges
<1>4. "client" \in Callers /\ "partial" \in Callers /\ "stop" \in Callers
  BY DEF Callers
<1> QED BY <1>1, <1>2, <1>3, <1>4 DEF Next, StopPlacementStep

-----------------------------------------------------------------------------
(* The order updates                                                       *)

Live(update) ==
    /\ update.status \in {"SUBMITTED", "ACKNOWLEDGED", "PARTIAL"}
    /\ update.filled < update.size

LEMMA KnownUpdates ==
    ASSUME MarketInv, UpdatesInv, Kept, NEW o \in DOMAIN updates
    PROVE  /\ updates[o] \in UpdateRecords /\ o \in Issued /\ o \in Issued'
           /\ updates[o].size = market'[o].size
           /\ updates[o].filled <= market'[o].filled + market'[o].told
           /\ updates[o].status = "PARTIAL" => o \in Entries'
<1>1. /\ updates[o] \in UpdateRecords /\ o \in Issued
      /\ updates[o].size = market[o].size
      /\ updates[o].filled <= market[o].filled + market[o].told
      /\ updates[o].status = "PARTIAL" => o \in Entries
  BY DEF UpdatesInv
<1>2. Keeps(market[o], market'[o]) /\ o \in Issued' /\ market[o] \in OrderRecords
  BY <1>1, OrdersAreRecords DEF Kept
<1>3. market[o].filled \in Nat /\ market[o].told \in Nat /\ updates[o].filled \in Nat
      /\ market'[o].filled \in Nat /\ market'[o].told \in Nat
      /\ market'[o].filled >= market[o].filled /\ market'[o].told >= market[o].told
      /\ market'[o].size = market[o].size
  BY <1>1, <1>2 DEF Keeps, OrderRecords, UpdateRecords
<1>4. Entries \subseteq Entries'
  BY DEF Kept
<1> QED BY <1>1, <1>2, <1>3, <1>4

LEMMA UpdatesSame ==
    ASSUME MarketInv, UpdatesInv, Kept, updates' = updates, pending' \subseteq pending
    PROVE  UpdatesInv'
<1>1. \A o \in DOMAIN updates :
        /\ o \in Issued' /\ updates[o].size = market'[o].size
        /\ updates[o].filled <= market'[o].filled + market'[o].told
        /\ updates[o].status = "PARTIAL" => o \in Entries'
  BY KnownUpdates
<1> QED BY <1>1 DEF UpdatesInv, PendingIsLive

\* One entry is written; only a live one stays pending.
LEMMA OneUpdateChanges ==
    ASSUME MarketInv, UpdatesInv, Kept, NEW o \in Issued', NEW update \in UpdateRecords,
           updates' = With(updates, o, update),
           update.size = market'[o].size,
           update.filled <= market'[o].filled + market'[o].told,
           update.status = "PARTIAL" => o \in Entries',
           pending' \subseteq pending \union {o},
           o \in pending' => Live(update)
    PROVE  UpdatesInv'
<1>1. /\ DOMAIN updates' = DOMAIN updates \union {o}
      /\ \A x \in DOMAIN updates' : updates'[x] = IF x = o THEN update ELSE updates[x]
  BY DEF With
<1>2. \A x \in DOMAIN updates :
        /\ updates[x] \in UpdateRecords /\ x \in Issued'
        /\ updates[x].size = market'[x].size
        /\ updates[x].filled <= market'[x].filled + market'[x].told
        /\ updates[x].status = "PARTIAL" => x \in Entries'
  BY KnownUpdates
<1>3. \A x \in DOMAIN updates' :
        /\ updates'[x] \in UpdateRecords /\ x \in Issued'
        /\ updates'[x].size = market'[x].size
        /\ updates'[x].filled <= market'[x].filled + market'[x].told
        /\ updates'[x].status = "PARTIAL" => x \in Entries'
  BY <1>1, <1>2
<1>4. pending' \subseteq DOMAIN updates'
  BY <1>1 DEF UpdatesInv
<1>5. \A x \in pending' : Live(updates'[x])
  BY <1>1, <1>4 DEF UpdatesInv, PendingIsLive, Live
<1>6. updates' \in [DOMAIN updates' -> UpdateRecords]
  <2>1. updates' = [x \in DOMAIN updates' |-> updates'[x]]
    BY DEF With
  <2> QED BY <1>3, <2>1
<1> QED BY <1>3, <1>4, <1>5, <1>6 DEF UpdatesInv, PendingIsLive, Live

LEMMA ExceptIsWith ==
    ASSUME NEW o \in DOMAIN updates, NEW update, updates' = [updates EXCEPT ![o] = update]
    PROVE  updates' = With(updates, o, update)
BY DEF With

LEMMA RecordUpdates ==
    ASSUME MarketInv, UpdatesInv, CallsInv, Kept, NEW c \in Callers, Record(c)
    PROVE  UpdatesInv'
<1>1. PICK o, size : o = calls[c].id /\ size = calls[c].request.size
  OBVIOUS
<1>2. /\ o \in Issued /\ market[o].size = size /\ size > 0 /\ size \in 0..EntrySize
  <2>1. calls[c] \in Calls /\ WellFormedCall(c, calls[c], market) /\ calls[c].step = "answered"
    BY DEF CallsInv, Record
  <2> QED BY <1>1, <2>1 DEF WellFormedCall, Calls, Requests, Issued
<1>3. PICK update : update = [status |-> "SUBMITTED", filled |-> 0, size |-> size]
  OBVIOUS
<1>4. updates' = With(updates, o, update) /\ pending' = pending \union {o} /\ market' = market
  BY <1>1, <1>3 DEF Record, exchange
<1>5. update \in UpdateRecords /\ Live(update)
  BY <1>2, <1>3, EntryAssumption DEF UpdateRecords, Live, Statuses
<1>6. /\ o \in Issued' /\ market[o] \in OrderRecords
      /\ update.size = market'[o].size /\ update.filled = 0 /\ update.status = "SUBMITTED"
  BY <1>2, <1>3, <1>4, OrdersAreRecords DEF Issued
<1>7. 0 <= market'[o].filled + market'[o].told
  BY <1>4, <1>6 DEF OrderRecords
<1> QED BY <1>4, <1>5, <1>6, <1>7, OneUpdateChanges

LEMMA CancelAnsweredUpdates ==
    ASSUME MarketInv, UpdatesInv, Kept, NEW c \in Callers, CancelAnswered(c)
    PROVE  UpdatesInv'
<1>1. PICK o : o = calls[c].id
  OBVIOUS
<1>2. updates' = [updates EXCEPT ![o].status = "CANCELED"] /\ pending' = pending \ {o}
  BY <1>1 DEF CancelAnswered
<1>3. CASE o \in DOMAIN updates
  <2>1. PICK update : update = [updates[o] EXCEPT !.status = "CANCELED"]
    OBVIOUS
  <2>2. updates' = [updates EXCEPT ![o] = update]
    BY <1>2, <2>1
  <2>3. /\ updates[o] \in UpdateRecords /\ o \in Issued'
        /\ updates[o].size = market'[o].size
        /\ updates[o].filled <= market'[o].filled + market'[o].told
    BY <1>3, KnownUpdates
  <2>4. /\ update \in UpdateRecords /\ update.size = updates[o].size
        /\ update.filled = updates[o].filled /\ update.status = "CANCELED"
    BY <2>1, <2>3 DEF UpdateRecords, Statuses
  <2> QED BY <1>2, <1>3, <2>2, <2>3, <2>4, ExceptIsWith, OneUpdateChanges
<1>4. CASE o \notin DOMAIN updates
  BY <1>2, <1>4, UpdatesSame DEF UpdatesInv
<1> QED BY <1>3, <1>4

LEMMA HandleFillUpdates ==
    ASSUME MarketInv, UpdatesInv, Kept, NEW o, HandleFill(o)
    PROVE  UpdatesInv'
<1>1. CASE o \notin DOMAIN updates
  BY <1>1, UpdatesSame DEF HandleFill
<1>2. CASE o \in DOMAIN updates
  <2>1. PICK filled : filled = updates[o].filled + 1
    OBVIOUS
  <2>0. PICK status \in {"FILLED", "PARTIAL"} :
          status = IF filled >= updates[o].size THEN "FILLED" ELSE "PARTIAL"
    OBVIOUS
  <2>2. PICK update : update = [updates[o] EXCEPT !.filled = filled, !.status = status]
    OBVIOUS
  <2>3. /\ updates' = [updates EXCEPT ![o] = update]
        /\ pending' = PendingAfterFill(o, filled)
        /\ market' = [market EXCEPT ![o].told = @ + 1]
    BY <1>2, <2>0, <2>1, <2>2 DEF HandleFill
  <2>4. /\ updates[o] \in UpdateRecords /\ o \in Issued /\ o \in Issued'
        /\ updates[o].size = market'[o].size
        /\ updates[o].filled <= market[o].filled + market[o].told
    BY <1>2, KnownUpdates DEF UpdatesInv
  <2>5. /\ updates[o].filled \in Nat /\ updates[o].size \in Int
        /\ updates[o].size \in 1..EntrySize
    BY <2>4, EntryAssumption DEF UpdateRecords
  <2>6. /\ update \in UpdateRecords /\ update.size = updates[o].size
        /\ update.filled = filled /\ update.status = status
    <3>1. filled \in Nat
      BY <2>1, <2>5
    <3> QED BY <2>2, <2>4, <3>1 DEF UpdateRecords, Statuses
  <2>7. filled <= market'[o].filled + market'[o].told
    <3>1. market[o] \in OrderRecords /\ o \in DOMAIN market
      BY <2>4, OrdersAreRecords DEF Issued
    <3>2. market'[o] = [market[o] EXCEPT !.told = @ + 1]
      BY <2>3, <3>1
    <3>3. market'[o].filled = market[o].filled /\ market'[o].told = market[o].told + 1
          /\ market[o].filled \in Nat /\ market[o].told \in Nat
      BY <3>1, <3>2 DEF OrderRecords
    <3> QED BY <2>1, <2>4, <2>5, <3>3
  <2>8. pending' \subseteq pending \union {o} /\ (o \in pending' => Live(update))
    <3>1. CASE filled >= updates[o].size
      BY <2>1, <2>3, <3>1 DEF PendingAfterFill
    <3>2. CASE ~(filled >= updates[o].size)
      <4>1. pending' = pending
        BY <2>1, <2>3, <3>2 DEF PendingAfterFill
      <4>2. update.status = "PARTIAL" /\ filled < updates[o].size
        BY <2>0, <2>1, <2>5, <2>6, <3>2
      <4> QED BY <2>6, <4>1, <4>2 DEF Live
    <3> QED BY <3>1, <3>2
  <2>9. o \in Entries'
    BY DEF HandleFill, Kept
  <2> QED BY <1>2, <2>3, <2>4, <2>6, <2>7, <2>8, <2>9, ExceptIsWith, OneUpdateChanges
<1> QED BY <1>1, <1>2

LEMMA HandleOrderUpdateUpdates ==
    ASSUME MarketInv, UpdatesInv, Kept, NEW o, HandleOrderUpdate(o)
    PROVE  UpdatesInv'
<1>1. PICK filled \in 0..market[o].filled, status \in {"FILLED", "CANCELED", "ACKNOWLEDGED"} :
        /\ filled = market[o].size => status = "FILLED"
        /\ updates' = [updates EXCEPT ![o].filled = filled, ![o].status = status]
        /\ pending' = IF status = "ACKNOWLEDGED" THEN pending ELSE pending \ {o}
  BY DEF HandleOrderUpdate
<1>2. o \in Entries /\ o \in DOMAIN updates /\ market' = market
  BY DEF HandleOrderUpdate, exchange
<1>3. /\ updates[o] \in UpdateRecords /\ o \in Issued /\ o \in Issued'
      /\ updates[o].size = market[o].size
  BY <1>2, KnownUpdates
<1>4. /\ market[o].filled \in Nat /\ market[o].told \in Nat /\ market[o].size \in Int
      /\ market[o].filled <= market[o].size
  <2>1. market[o] \in OrderRecords /\ WellFormedOrder(o) /\ market[o].kind = "entry"
    BY <1>2, OrdersAreRecords DEF Entries
  <2> QED BY <2>1, EntryAssumption DEF OrderRecords, WellFormedOrder
<1>5. PICK update : update = [updates[o] EXCEPT !.filled = filled, !.status = status]
  OBVIOUS
<1>6. updates' = [updates EXCEPT ![o] = update]
  BY <1>1, <1>5
<1>7. filled \in Nat /\ filled <= market[o].filled
  BY <1>4
<1>8. /\ update \in UpdateRecords /\ update.size = updates[o].size
      /\ update.filled = filled /\ update.status = status
  BY <1>3, <1>5, <1>7 DEF UpdateRecords, Statuses
<1>9. o \in pending' => Live(update)
  <2>1. ASSUME o \in pending'
        PROVE  status = "ACKNOWLEDGED" /\ filled < market[o].size
    BY <1>1, <1>4, <1>7, <2>1
  <2> QED BY <1>3, <1>8, <2>1 DEF Live
<1>10. filled <= market'[o].filled + market'[o].told
  BY <1>2, <1>4, <1>7
<1>11. updates' = With(updates, o, update)
  BY <1>2, <1>6, ExceptIsWith
<1>12. pending' \subseteq pending \union {o}
  BY <1>1
<1> QED BY <1>2, <1>3, <1>8, <1>9, <1>10, <1>11, <1>12, OneUpdateChanges

LEMMA UpdatesHold ==
    ASSUME IndInv, [Next]_vars, Kept
    PROVE  UpdatesInv'
<1> USE DEF IndInv
<1>1. ASSUME NEW c \in Callers, CallStep(c)
      PROVE  UpdatesInv'
  <2>1. CASE Record(c)
    BY <2>1, RecordUpdates
  <2>2. CASE CancelAnswered(c)
    BY <2>2, CancelAnsweredUpdates
  <2>3. CASE Unreached(c) \/ Refuse(c) \/ Answers(c) \/ CancelReaches(c) \/ CancelFails(c)
    BY <2>3, UpdatesSame DEF Unreached, Refuse, Answers, Accept, OkWithoutOrder, CancelReaches,
       CancelFails
  <2> QED BY <1>1, <2>1, <2>2, <2>3 DEF CallStep, Answers
<1>2. ASSUME NEW o \in Ids, HandleFill(o) \/ HandleOrderUpdate(o)
      PROVE  UpdatesInv'
  BY <1>2, HandleFillUpdates, HandleOrderUpdateUpdates
<1>3. CASE \/ SubmitOrder \/ CheckPartialFills \/ HandlePartialFill \/ UNCHANGED vars
           \/ \E o \in Ids :
                 \/ CancelOrder(o) \/ Fill(o) \/ RegisterStop(o) \/ StopMoves(o) \/ PlaceStop(o)
                 \/ HandleStopTriggered(o) \/ HandleStopFilled(o) \/ HandleStopCancelled(o)
  <2>1. updates' = updates /\ pending' = pending
    BY <1>3 DEF SubmitOrder, CheckPartialFills, HandlePartialFill, CancelOrder, Fill, RegisterStop,
       StopMoves, PlaceStop, HandleStopTriggered, HandleStopFilled, HandleStopCancelled, StopEvent, vars
  <2> QED BY <2>1, UpdatesSame
<1>4. "client" \in Callers /\ "partial" \in Callers /\ "stop" \in Callers
  BY DEF Callers
<1> QED BY <1>1, <1>2, <1>3, <1>4 DEF Next, StopPlacementStep

-----------------------------------------------------------------------------
(* Partial fills                                                           *)

\* Nothing is cancelled or resubmitted that was not before.
NothingNew ==
    /\ resubmits' = resubmits
    /\ \A c \in Callers : calls'[c].step = "cancelled" => calls'[c] = calls[c]

LEMMA ClosedStays ==
    ASSUME MarketInv, CallsInv, ClosedInv, Kept, NothingNew
    PROVE  ClosedInv'
<1>1. \A o \in Issued : market[o].status /= "open" => market'[o].status /= "open"
  BY DEF Kept, Keeps
<1>2. \A o \in Entries : o \in Issued /\ o \in Entries'
  BY DEF Kept, Entries
<1>3. \A c \in Callers : calls[c].step = "cancelled" => calls[c].id \in Issued
  BY DEF CallsInv, WellFormedCall, Issued
<1> QED BY <1>1, <1>2, <1>3 DEF ClosedInv, NothingNew

LEMMA CallMovesOn ==
    ASSUME CallsInv, NEW c \in Callers, NEW call, call.step /= "cancelled",
           calls' = [calls EXCEPT ![c] = call]
    PROVE  \A d \in Callers : calls'[d].step = "cancelled" => calls'[d] = calls[d]
BY DEF CallsInv

LEMMA StepsOfCalls ==
    /\ Idle.step = "idle"
    /\ \A request : Posting(request).step = "posting"
    /\ \A id, request : Cancelling(id, request).step = "cancelling"
BY DEF Idle, Posting, Cancelling, Call

LEMMA SubmissionsCancelNothing ==
    ASSUME CallsInv, NEW c \in Callers, calls[c].step = "posting",
           SubmissionFails(c) \/ RequestFails(c)
    PROVE  \A d \in Callers : calls'[d].step = "cancelled" => calls'[d] = calls[d]
<1>1. ASSUME SubmissionFails(c)
      PROVE  \A d \in Callers : calls'[d].step = "cancelled" => calls'[d] = calls[d]
  <2>1. \/ calls' = [calls EXCEPT ![c] = Idle]
        \/ calls' = [calls EXCEPT ![c] = Posting(calls[c].request)]
    BY <1>1 DEF SubmissionFails
  <2>2. PICK idle, posting : idle = Idle /\ posting = Posting(calls[c].request)
    OBVIOUS
  <2> QED BY <2>1, <2>2, StepsOfCalls, CallMovesOn
<1>2. CASE RequestFails(c) /\ Repeats(c)
  <2>1. PICK next : next = [calls[c] EXCEPT !.attempt = @ + 1]
    OBVIOUS
  <2>2. calls' = [calls EXCEPT ![c] = next]
    BY <1>2, <2>1 DEF RequestFails
  <2>3. next.step = "posting"
    BY <2>1 DEF CallsInv, Calls
  <2> QED BY <2>2, <2>3, CallMovesOn
<1> QED BY <1>1, <1>2 DEF RequestFails

LEMMA OtherCallStepsCancelNothing ==
    ASSUME CallsInv, NEW c \in Callers,
           Unreached(c) \/ Refuse(c) \/ Answers(c) \/ Record(c) \/ CancelFails(c)
    PROVE  NothingNew
<1>1. resubmits' = resubmits
  BY DEF Unreached, Refuse, Answers, Accept, OkWithoutOrder, Record, CancelFails, partialState
<1>2. CASE Record(c) \/ CancelFails(c)
  <2>1. PICK idle : idle = Idle
    OBVIOUS
  <2>2. calls' = [calls EXCEPT ![c] = idle]
    BY <1>2, <2>1 DEF Record, CancelFails
  <2> QED BY <1>1, <2>1, <2>2, StepsOfCalls, CallMovesOn DEF NothingNew
<1>3. CASE Unreached(c) \/ Refuse(c)
  BY <1>1, <1>3, SubmissionsCancelNothing DEF Unreached, Refuse, NothingNew
<1>4. CASE Answers(c)
  <2>1. CASE RequestFails(c)
    BY <1>1, <1>4, <2>1, SubmissionsCancelNothing DEF Answers, Accept, OkWithoutOrder, NothingNew
  <2>2. CASE ~RequestFails(c)
    <3>1. PICK next : next = [calls[c] EXCEPT !.step = "answered", !.id = Len(market) + 1]
      OBVIOUS
    <3>2. calls' = [calls EXCEPT ![c] = next]
      BY <1>4, <2>2, <3>1 DEF Answers, Accept, OkWithoutOrder
    <3>3. next.step = "answered"
      BY <3>1 DEF CallsInv, Calls
    <3> QED BY <1>1, <3>2, <3>3, CallMovesOn DEF NothingNew
  <2> QED BY <2>1, <2>2
<1> QED BY <1>2, <1>3, <1>4

LEMMA CancelReachesCloses ==
    ASSUME MarketInv, CallsInv, ClosedInv, Kept, NEW c \in Callers, CancelReaches(c)
    PROVE  ClosedInv'
<1>1. PICK o, next : o = calls[c].id /\ next = [calls[c] EXCEPT !.step = "cancelled"]
  OBVIOUS
<1>2. PICK status : status = IF market[o].status = "open" THEN "closed" ELSE market[o].status
  OBVIOUS
<1>3. /\ market' = [market EXCEPT ![o].status = status]
      /\ calls' = [calls EXCEPT ![c] = next] /\ resubmits' = resubmits
      /\ calls[c].step = "cancelling"
  BY <1>1, <1>2 DEF CancelReaches, partialState
<1>4. o \in Entries /\ next.id = o
  BY <1>1, <1>3 DEF CallsInv, WellFormedCall, Entries, Issued, Calls
<1>5. market'[o].status /= "open"
  <2>1. market[o] \in OrderRecords /\ o \in DOMAIN market
    BY <1>4, OrdersAreRecords DEF Issued
  <2>2. market'[o] = [market[o] EXCEPT !.status = status]
    BY <1>3, <2>1
  <2>3. status /= "open"
    BY <1>2
  <2> QED BY <2>1, <2>2, <2>3 DEF OrderRecords
<1>6. \A d \in Callers : calls'[d] = IF d = c THEN next ELSE calls[d]
  BY <1>3 DEF CallsInv
<1>7. /\ \A a \in Issued : market[a].status /= "open" => market'[a].status /= "open"
      /\ \A a \in Entries : a \in Issued /\ a \in Entries'
  BY DEF Kept, Keeps, Entries
<1>8. \A d \in Callers : calls[d].step = "cancelled" => calls[d].id \in Issued
  BY DEF CallsInv, WellFormedCall, Issued
<1>9. \A d \in Callers : calls'[d].step = "cancelled" => market'[calls'[d].id].status /= "open"
  BY <1>4, <1>5, <1>6, <1>7, <1>8 DEF ClosedInv
<1>10. \A a \in Ids : resubmits'[a] > 0 => a \in Entries' /\ market'[a].status /= "open"
  BY <1>3, <1>7 DEF ClosedInv
<1> QED BY <1>3, <1>9, <1>10 DEF ClosedInv

LEMMA CancelAnsweredCloses ==
    ASSUME MarketInv, CallsInv, ClosedInv, Kept, NEW c \in Callers, CancelAnswered(c)
    PROVE  ClosedInv'
<1>1. PICK o : o = calls[c].id
  OBVIOUS
<1>2. /\ o \in Entries /\ o \in Ids /\ market' = market /\ market[o].status /= "open"
  <2>1. calls[c].step = "cancelled" /\ WellFormedCall(c, calls[c], market)
    BY DEF CancelAnswered, CallsInv
  <2>2. o \in Entries
    BY <1>1, <2>1 DEF WellFormedCall, Entries, Issued
  <2> QED BY <1>1, <2>1, <2>2, OrdersAreRecords DEF CancelAnswered, exchange, ClosedInv
<1>3. /\ resubmits' = resubmits \/ resubmits' = [resubmits EXCEPT ![o] = @ + 1]
      /\ \/ calls' = [calls EXCEPT ![c] = Idle]
         \/ calls' = [calls EXCEPT ![c] = Posting(calls[c].request)]
  BY <1>1 DEF CancelAnswered
<1>4. \A a \in Ids : a /= o => resubmits'[a] = resubmits[a]
  BY <1>2, <1>3 DEF ClosedInv
<1>5. resubmits' \in [Ids -> Nat]
  BY <1>2, <1>3 DEF ClosedInv
<1>6. PICK idle, posting : idle = Idle /\ posting = Posting(calls[c].request)
  OBVIOUS
<1>7. \A d \in Callers : calls'[d].step = "cancelled" => d /= c /\ calls'[d] = calls[d]
  BY <1>3, <1>6, StepsOfCalls DEF CallsInv
<1>8. Entries' = Entries
  BY <1>2 DEF Entries, Issued
<1>9. \A d \in Callers : calls'[d].step = "cancelled" => market'[calls'[d].id].status /= "open"
  BY <1>2, <1>7 DEF ClosedInv
<1>10. \A a \in Ids : resubmits'[a] > 0 => a \in Entries' /\ market'[a].status /= "open"
  BY <1>2, <1>4, <1>8 DEF ClosedInv
<1> QED BY <1>5, <1>9, <1>10 DEF ClosedInv

LEMMA ClosedHolds ==
    ASSUME IndInv, [Next]_vars, Kept
    PROVE  ClosedInv'
<1> USE DEF IndInv, ResubmitsInv
<1>1. ASSUME NEW c \in Callers, CallStep(c)
      PROVE  ClosedInv'
  BY <1>1, CancelReachesCloses, CancelAnsweredCloses, OtherCallStepsCancelNothing, ClosedStays
     DEF CallStep, Answers
<1>2. PICK client, partial, stop : client = "client" /\ partial = "partial" /\ stop = "stop"
  OBVIOUS
<1>3. client \in Callers /\ partial \in Callers /\ stop \in Callers
  BY <1>2 DEF Callers
<1>4. CASE SubmitOrder
  <2>1. PICK request : calls' = [calls EXCEPT ![client] = Posting(request)]
    BY <1>2, <1>4 DEF SubmitOrder
  <2>2. PICK call : call = Posting(request)
    OBVIOUS
  <2>3. resubmits' = resubmits
    BY <1>4 DEF SubmitOrder, partialState
  <2> QED BY <1>3, <2>1, <2>2, <2>3, StepsOfCalls, CallMovesOn, ClosedStays DEF NothingNew
<1>5. CASE HandlePartialFill
  <2>1. PICK id, request :
          calls' = calls \/ calls' = [calls EXCEPT ![partial] = Cancelling(id, request)]
    BY <1>2, <1>5 DEF HandlePartialFill
  <2>2. PICK call : call = Cancelling(id, request)
    OBVIOUS
  <2>3. resubmits' = resubmits
    BY <1>5 DEF HandlePartialFill
  <2> QED BY <1>3, <2>1, <2>2, <2>3, StepsOfCalls, CallMovesOn, ClosedStays DEF NothingNew
<1>6. ASSUME NEW o \in Ids, CancelOrder(o)
      PROVE  ClosedInv'
  <2>1. PICK call : call = Cancelling(o, NoRequest)
    OBVIOUS
  <2>2. calls' = [calls EXCEPT ![client] = call] /\ resubmits' = resubmits
    BY <1>2, <1>6, <2>1 DEF CancelOrder, partialState
  <2> QED BY <1>3, <2>1, <2>2, StepsOfCalls, CallMovesOn, ClosedStays DEF NothingNew
<1>7. ASSUME NEW e \in Ids, PlaceStop(e)
      PROVE  ClosedInv'
  <2>1. PICK call : call = Posting(StopRequest(e))
    OBVIOUS
  <2>2. calls' = calls \/ calls' = [calls EXCEPT ![stop] = call]
    BY <1>2, <1>7, <2>1 DEF PlaceStop
  <2>3. resubmits' = resubmits
    BY <1>7 DEF PlaceStop, partialState
  <2> QED BY <1>3, <2>1, <2>2, <2>3, StepsOfCalls, CallMovesOn, ClosedStays DEF NothingNew
<1>8. CASE \/ CheckPartialFills \/ UNCHANGED vars
           \/ \E o \in Ids :
                 \/ Fill(o) \/ HandleFill(o) \/ HandleOrderUpdate(o)
                 \/ RegisterStop(o) \/ StopMoves(o)
                 \/ HandleStopTriggered(o) \/ HandleStopFilled(o) \/ HandleStopCancelled(o)
  <2>1. calls' = calls /\ resubmits' = resubmits
    BY <1>8 DEF CheckPartialFills, Fill, HandleFill, HandleOrderUpdate, RegisterStop, StopMoves,
       HandleStopTriggered, HandleStopFilled, HandleStopCancelled, StopEvent, vars, partialState
  <2> QED BY <2>1, ClosedStays DEF NothingNew
<1> QED BY <1>1, <1>2, <1>3, <1>4, <1>5, <1>6, <1>7, <1>8 DEF Next, StopPlacementStep

LEMMA PartialsHold ==
    ASSUME IndInv, [Next]_vars, Kept
    PROVE  PartialsInv'
<1> USE DEF IndInv, ResubmitsInv
<1>0. Entries \subseteq Entries'
  BY DEF Kept
<1>1. CASE CheckPartialFills
  <2>1. PICK stale \in SUBSET Partials :
          /\ todo' = {[id |-> o, amount |-> AmountToResubmit(o)] : o \in stale}
          /\ known' = [o \in Ids |-> IF o \in stale THEN updates[o].filled ELSE known[o]]
    BY <1>1 DEF CheckPartialFills
  <2>2. ASSUME NEW o \in stale
        PROVE  /\ o \in Entries /\ AmountToResubmit(o) \in 0..EntrySize
               /\ updates[o].filled \in 0..2 * EntrySize
    <3>1. /\ o \in DOMAIN updates /\ updates[o] \in UpdateRecords /\ o \in Entries
          /\ updates[o].filled < updates[o].size
          /\ updates[o].filled <= market[o].filled + market[o].told
      BY <2>1, <2>2 DEF Partials, UpdatesInv, PendingIsLive
    <3>2. /\ market[o] \in OrderRecords /\ market[o].filled <= market[o].size
          /\ market[o].told <= market[o].filled
      BY <3>1, OrdersAreRecords DEF WellFormedOrder, Entries
    <3>3. /\ updates[o].filled \in Nat /\ updates[o].size \in 1..EntrySize
          /\ market[o].size \in 1..EntrySize /\ market[o].filled \in Nat /\ market[o].told \in Nat
      BY <3>1, <3>2 DEF UpdateRecords, OrderRecords
    <3>4. updates[o].filled \in 0..2 * EntrySize
      BY <3>1, <3>2, <3>3, EntryAssumption
    <3>5. 0 \in 0..EntrySize /\ updates[o].size - updates[o].filled \in 0..EntrySize
      BY <3>1, <3>3, EntryAssumption
    <3> QED BY <3>1, <3>4, <3>5 DEF AmountToResubmit
  <2>3. known' \in [Ids -> 0..2 * EntrySize]
    BY <2>1, <2>2 DEF PartialsInv
  <2>4. \A t \in todo' : t.id \in Entries /\ t.amount \in 0..EntrySize
    BY <2>1, <2>2
  <2>5. accepted' = accepted
    BY <1>1 DEF CheckPartialFills
  <2> QED BY <1>0, <2>3, <2>4, <2>5 DEF PartialsInv
<1>2. CASE HandlePartialFill
  BY <1>0, <1>2 DEF HandlePartialFill, PartialsInv
<1>3. ASSUME NEW c \in Callers, CallStep(c)
      PROVE  PartialsInv'
  <2>1. CASE CancelAnswered(c)
    <3>1. /\ known' = known /\ todo' = todo
          /\ accepted' \subseteq accepted \union configs
      BY <2>1 DEF CancelAnswered
    <3> QED BY <1>0, <3>1 DEF PartialsInv, StopsInv, RegistrationsInv
  <2>2. CASE ~CancelAnswered(c)
    <3>1. UNCHANGED <<known, todo, accepted>>
      BY <1>3, <2>2 DEF CallStep, Unreached, Refuse, Answers, Accept, OkWithoutOrder, Record,
         CancelReaches, CancelFails,
         partialState
    <3> QED BY <1>0, <3>1 DEF PartialsInv
  <2> QED BY <2>1, <2>2
<1>4. CASE \/ SubmitOrder \/ UNCHANGED vars
           \/ \E o \in Ids :
                 \/ CancelOrder(o) \/ PlaceStop(o)
                 \/ Fill(o) \/ HandleFill(o) \/ HandleOrderUpdate(o)
                 \/ RegisterStop(o) \/ StopMoves(o)
                 \/ HandleStopTriggered(o) \/ HandleStopFilled(o) \/ HandleStopCancelled(o)
  <2>1. UNCHANGED <<known, todo, accepted>>
    BY <1>4 DEF SubmitOrder, CancelOrder, PlaceStop, Fill, HandleFill, HandleOrderUpdate,
       RegisterStop,
       StopMoves, HandleStopTriggered, HandleStopFilled, HandleStopCancelled, StopEvent, vars,
       partialState
  <2> QED BY <1>0, <2>1 DEF PartialsInv
<1>5. "client" \in Callers /\ "partial" \in Callers /\ "stop" \in Callers
  BY DEF Callers
<1> QED BY <1>1, <1>2, <1>3, <1>4, <1>5 DEF Next, StopPlacementStep

-----------------------------------------------------------------------------
(* Stops                                                                   *)

LEMMA UpdatesStayKnown ==
    ASSUME [Next]_vars
    PROVE  DOMAIN updates \subseteq DOMAIN updates'
<1>1. ASSUME NEW c, CallStep(c)
      PROVE  DOMAIN updates \subseteq DOMAIN updates'
  BY <1>1 DEF CallStep, Unreached, Refuse, Answers, Accept, OkWithoutOrder, Record, With,
     CancelReaches, CancelFails,
     CancelAnswered
<1>2. ASSUME NEW o, HandleFill(o) \/ HandleOrderUpdate(o)
      PROVE  DOMAIN updates \subseteq DOMAIN updates'
  BY <1>2 DEF HandleFill, HandleOrderUpdate
<1>3. CASE \/ SubmitOrder \/ CheckPartialFills \/ HandlePartialFill \/ UNCHANGED vars
           \/ \E o \in Ids :
                 \/ CancelOrder(o) \/ Fill(o) \/ RegisterStop(o) \/ StopMoves(o) \/ PlaceStop(o)
                 \/ HandleStopTriggered(o) \/ HandleStopFilled(o) \/ HandleStopCancelled(o)
  BY <1>3 DEF SubmitOrder, CheckPartialFills, HandlePartialFill, CancelOrder, Fill, RegisterStop,
     StopMoves, PlaceStop, HandleStopTriggered, HandleStopFilled, HandleStopCancelled, StopEvent, vars
<1> QED BY <1>1, <1>2, <1>3 DEF Next, StopPlacementStep

\* Only a registration and a placement touch what is registered.
LEMMA StopsSameDomain ==
    ASSUME NEW c, SubmissionFails(c) \/ RequestFails(c)
    PROVE  DOMAIN stops' = DOMAIN stops
BY DEF SubmissionFails, RequestFails, StopFailed

LEMMA RegistrationsStay ==
    ASSUME [Next]_vars, \A e \in Ids : ~RegisterStop(e) /\ ~PlaceStop(e) /\ ~HandleFill(e)
    PROVE  configs' = configs /\ due' = due /\ DOMAIN stops' = DOMAIN stops
<1>1. ASSUME NEW c, CallStep(c)
      PROVE  configs' = configs /\ due' = due /\ DOMAIN stops' = DOMAIN stops
  <2>1. CASE Unreached(c) \/ Refuse(c) \/ Answers(c)
    <3>1. CASE Unreached(c) \/ Refuse(c) \/ Accept(c)
      BY <3>1, StopsSameDomain DEF Unreached, Refuse, Accept
    <3>2. CASE OkWithoutOrder(c)
      BY <3>2 DEF OkWithoutOrder, stopState
    <3> QED BY <2>1, <3>1, <3>2 DEF Answers
  <2>2. CASE Record(c) \/ CancelReaches(c) \/ CancelFails(c) \/ CancelAnswered(c)
    BY <2>2 DEF Record, CancelReaches, CancelFails, CancelAnswered, stopState
  <2> QED BY <1>1, <2>1, <2>2 DEF CallStep, Answers
<1>2. ASSUME NEW o \in Ids, HandleStopTriggered(o) \/ HandleStopFilled(o) \/ HandleStopCancelled(o)
      PROVE  configs' = configs /\ due' = due /\ DOMAIN stops' = DOMAIN stops
  BY <1>2 DEF HandleStopTriggered, HandleStopFilled, HandleStopCancelled, StopEvent
<1>3. CASE \/ SubmitOrder \/ CheckPartialFills \/ HandlePartialFill \/ UNCHANGED vars
           \/ \E o \in Ids : CancelOrder(o) \/ Fill(o) \/ HandleOrderUpdate(o) \/ StopMoves(o)
  BY <1>3 DEF SubmitOrder, CheckPartialFills, HandlePartialFill, CancelOrder, Fill,
     HandleOrderUpdate,
     StopMoves, vars, stopState
<1> QED BY <1>1, <1>2, <1>3 DEF Next, StopPlacementStep

LEMMA RegistrationsHold ==
    ASSUME IndInv, [Next]_vars, Kept
    PROVE  RegistrationsInv'
<1> USE DEF IndInv, StopsInv
<1>1. Entries \subseteq Entries' /\ DOMAIN updates \subseteq DOMAIN updates'
  BY UpdatesStayKnown DEF Kept
<1>2. ASSUME NEW e, RegisterStop(e)
      PROVE  RegistrationsInv'
  BY <1>1, <1>2 DEF RegisterStop, RegistrationsInv
<1>3. ASSUME NEW e, HandleFill(e)
      PROVE  RegistrationsInv'
  BY <1>1, <1>3 DEF HandleFill, RegistrationsInv
<1>4. ASSUME NEW e, PlaceStop(e)
      PROVE  RegistrationsInv'
  BY <1>1, <1>4 DEF PlaceStop, ConfigsAfterPlacing, With, RegistrationsInv
<1>5. CASE \A e \in Ids : ~RegisterStop(e) /\ ~PlaceStop(e) /\ ~HandleFill(e)
  BY <1>1, <1>5, RegistrationsStay DEF RegistrationsInv
<1> QED BY <1>2, <1>3, <1>4, <1>5

\* A stop stays as it was and is announced as it was, or it is written and
\* announced by what was written.
StopKept(e) ==
    e \in DOMAIN stops /\ stops'[e] = stops[e] /\ (e \in announced' <=> e \in announced)
StopWritten(e) ==
    /\ WellFormedStop(e)'
    /\ e \in announced' <=> stops'[e].state \in {"FAILED", "CANCELLED"}
StopsKeepUp ==
    /\ announced' \subseteq DOMAIN stops'
    /\ \A e \in DOMAIN stops' : StopKept(e) \/ StopWritten(e)

LEMMA StopsChange ==
    ASSUME MarketInv, StopsInv, Kept, StopsKeepUp
    PROVE  (\A e \in DOMAIN stops : WellFormedStop(e))' /\ ListedIffAnnounced'
<1>1. ASSUME NEW e \in DOMAIN stops, StopKept(e)
      PROVE  WellFormedStop(e)' /\ (e \in announced' <=> stops'[e].state \in {"FAILED", "CANCELLED"})
  <2>1. WellFormedStop(e) /\ stops'[e] = stops[e]
    BY <1>1 DEF StopsInv, StopKept
  <2>2. StopsOf(e) \subseteq StopsOf(e)'
    BY DEF Kept
  <2>3. ASSUME stops[e].state = "CANCELLED"
        PROVE  market'[stops[e].id].told = 2
    <3>1. PICK o : o = stops[e].id
      OBVIOUS
    <3>2. o \in StopsOf(e) /\ market[o].told = 2
      BY <2>1, <2>3, <3>1 DEF WellFormedStop
    <3>3. o \in Issued /\ market[o].kind = "stop"
      BY <3>2 DEF StopsOf
    <3>4. Keeps(market[o], market'[o])
      BY <3>3 DEF Kept
    <3>5. market'[o].told \in Nat /\ market'[o].told >= market[o].told /\ market'[o].told <= 2
      BY <3>3, <3>4 DEF Keeps, OrderRecords
    <3> QED BY <3>1, <3>2, <3>5
  <2>4. WellFormedStop(e)'
    BY <2>1, <2>2, <2>3 DEF WellFormedStop
  <2>5. e \in announced <=> stops[e].state \in {"FAILED", "CANCELLED"}
    BY DEF StopsInv, ListedIffAnnounced, UnprotectedEntries
  <2> QED BY <1>1, <2>1, <2>4, <2>5 DEF StopKept
<1>2. \A e \in DOMAIN stops' :
        WellFormedStop(e)' /\ (e \in announced' <=> stops'[e].state \in {"FAILED", "CANCELLED"})
  BY <1>1 DEF StopsKeepUp, StopKept, StopWritten
<1> QED BY <1>2 DEF StopsKeepUp, ListedIffAnnounced, UnprotectedEntries

LEMMA AnnouncedAreKnown ==
    ASSUME StopsInv
    PROVE  announced \subseteq DOMAIN stops
BY DEF StopsInv, ListedIffAnnounced, UnprotectedEntries

LEMMA StopsUntouched ==
    ASSUME StopsInv, stops' = stops, announced' = announced
    PROVE  StopsKeepUp
BY AnnouncedAreKnown DEF StopsKeepUp, StopKept

\* The stop whose placement is under way is the one written.
LEMMA OneStopChanges ==
    ASSUME StopsInv, NEW e, NEW stop, stops' = With(stops, e, stop), WellFormedStop(e)',
           announced' = IF stop.state \in {"FAILED", "CANCELLED"} THEN announced \union {e}
                        ELSE announced,
           e \notin announced
    PROVE  StopsKeepUp
<1>1. DOMAIN stops' = DOMAIN stops \union {e}
      /\ \A x \in DOMAIN stops' : stops'[x] = IF x = e THEN stop ELSE stops[x]
  BY DEF With
<1>2. announced' \subseteq DOMAIN stops'
  BY <1>1, AnnouncedAreKnown
<1>3. StopWritten(e)
  BY <1>1 DEF StopWritten
<1>4. \A x \in DOMAIN stops' : x /= e => StopKept(x)
  BY <1>1 DEF StopKept
<1> QED BY <1>2, <1>3, <1>4 DEF StopsKeepUp

\* The entry place_stop_for_fill is at work for.
LEMMA PlacedEntry ==
    ASSUME StopsInv, Placing, NEW e, e = calls["stop"].request.entry
    PROVE  /\ e \in DOMAIN stops /\ e \in Entries /\ e \notin announced
           /\ WellFormedStop(e) /\ stops[e].state = "PENDING_PLACEMENT" /\ stops[e].id = 0
<1>1. e \in DOMAIN stops /\ stops[e].state = "PENDING_PLACEMENT" /\ WellFormedStop(e)
  BY DEF StopsInv, PlacingInv
<1> QED BY <1>1 DEF WellFormedStop, StopsInv, RegistrationsInv, ListedIffAnnounced,
   UnprotectedEntries

LEMMA StopSubmissionFails ==
    ASSUME CallsInv, StopsInv, calls["stop"].step = "posting", SubmissionFails("stop")
    PROVE  StopsKeepUp /\ PlacingInv'
<1>0. PICK e, request, stop : e = calls["stop"].request.entry /\ request = calls["stop"].request
                              /\ stop = "stop"
  OBVIOUS
<1>1. stop \in Callers /\ calls \in [Callers -> Calls]
  BY <1>0 DEF CallsInv, Callers
<1>2. /\ e \in DOMAIN stops /\ e \notin announced /\ WellFormedStop(e)
      /\ stops[e].state = "PENDING_PLACEMENT" /\ stops[e].id = 0
  BY <1>0, PlacedEntry DEF Placing
<1>3. stops[e] \in [state : StopStates, id : Nat, attempts : 1..StopRetries]
  BY <1>2 DEF WellFormedStop
<1>4. CASE TriesAgain(e)
  <2>1. PICK attempts : attempts = IF stops[e].attempts < StopRetries
                                   THEN stops[e].attempts + 1 ELSE stops[e].attempts
    OBVIOUS
  <2>2. PICK next, posting : /\ next = [stops[e] EXCEPT !.attempts = attempts]
                             /\ posting = Posting(request)
    OBVIOUS
  <2>3. /\ stops' = [stops EXCEPT ![e] = next] /\ announced' = announced
        /\ calls' = [calls EXCEPT ![stop] = posting]
    BY <1>0, <1>4, <2>1, <2>2 DEF SubmissionFails
  <2>4. attempts \in 1..StopRetries
    <3>1. stops[e].attempts \in 1..StopRetries
      BY <1>3
    <3> QED BY <2>1, <3>1, RetriesAssumption
  <2>5. /\ next \in [state : StopStates, id : Nat, attempts : 1..StopRetries]
        /\ next.state = "PENDING_PLACEMENT" /\ next.id = 0
    BY <1>2, <1>3, <2>2, <2>4
  <2>6. stops'[e] = next /\ e \in DOMAIN stops'
    BY <1>2, <2>3
  <2>7. WellFormedStop(e)'
    BY <2>5, <2>6 DEF WellFormedStop
  <2>8. stops' = With(stops, e, next)
    BY <1>2, <2>3 DEF With
  <2>9. StopsKeepUp
    BY <1>2, <2>3, <2>5, <2>7, <2>8, OneStopChanges
  <2>10. calls'[stop].request = request
    BY <1>1, <2>2, <2>3 DEF Posting, Call
  <2> QED BY <1>0, <2>5, <2>6, <2>9, <2>10 DEF PlacingInv
<1>5. CASE ~TriesAgain(e)
  <2>1. PICK next, idle : next = [stops[e] EXCEPT !.state = "FAILED"] /\ idle = Idle
    OBVIOUS
  <2>2. /\ stops' = [stops EXCEPT ![e] = next] /\ announced' = announced \union {e}
        /\ calls' = [calls EXCEPT ![stop] = idle]
    BY <1>0, <1>5, <2>1 DEF SubmissionFails, StopFailed
  <2>3. /\ next \in [state : StopStates, id : Nat, attempts : 1..StopRetries]
        /\ next.state = "FAILED" /\ next.id = 0
    BY <1>2, <1>3, <2>1 DEF StopStates
  <2>4. stops'[e] = next
    BY <1>2, <2>2
  <2>5. WellFormedStop(e)'
    BY <2>3, <2>4 DEF WellFormedStop
  <2>6. stops' = With(stops, e, next)
    BY <1>2, <2>2 DEF With
  <2>7. StopsKeepUp
    BY <1>2, <2>2, <2>3, <2>5, <2>6, OneStopChanges
  <2>8. calls'["stop"].step = "idle"
    BY <1>0, <1>1, <2>1, <2>2, StepsOfCalls
  <2> QED BY <2>7, <2>8 DEF PlacingInv, Placing
<1> QED BY <1>4, <1>5

\* The placement goes on for the same entry.
LEMMA PlacingGoesOn ==
    ASSUME StopsInv, Placing, stops' = stops, announced' = announced,
           calls'["stop"].request = calls["stop"].request
    PROVE  StopsKeepUp /\ PlacingInv'
BY StopsUntouched DEF StopsInv, PlacingInv

LEMMA StopRequestFails ==
    ASSUME CallsInv, StopsInv, calls["stop"].step = "posting", RequestFails("stop")
    PROVE  StopsKeepUp /\ PlacingInv'
<1>1. CASE Repeats("stop")
  <2>1. PICK stop, next : stop = "stop" /\ next = [calls["stop"] EXCEPT !.attempt = @ + 1]
    OBVIOUS
  <2>2. calls' = [calls EXCEPT ![stop] = next] /\ stops' = stops /\ announced' = announced
    BY <1>1, <2>1 DEF RequestFails
  <2>3. stop \in Callers /\ calls \in [Callers -> Calls]
    BY <2>1 DEF CallsInv, Callers
  <2>4. calls'[stop].request = calls[stop].request
    BY <2>1, <2>2, <2>3 DEF Calls
  <2> QED BY <2>1, <2>2, <2>4, PlacingGoesOn DEF Placing
<1>2. CASE ~Repeats("stop")
  BY <1>2, StopSubmissionFails DEF RequestFails
<1> QED BY <1>1, <1>2

LEMMA StopAccepted ==
    ASSUME CallsInv, StopsInv, Answers("stop")
    PROVE  StopsKeepUp /\ PlacingInv'
<1>1. calls["stop"].step = "posting"
  BY DEF Answers, Accept, OkWithoutOrder
<1>2. CASE RequestFails("stop")
  BY <1>1, <1>2, StopRequestFails
<1>3. CASE ~RequestFails("stop")
  <2>1. PICK stop, next : /\ stop = "stop"
                          /\ next = [calls["stop"] EXCEPT !.step = "answered", !.id = Len(market) + 1]
    OBVIOUS
  <2>2. calls' = [calls EXCEPT ![stop] = next] /\ stops' = stops /\ announced' = announced
    BY <1>3, <2>1 DEF Answers, Accept, OkWithoutOrder, stopState
  <2>3. stop \in Callers /\ calls \in [Callers -> Calls]
    BY <2>1 DEF CallsInv, Callers
  <2>4. calls'[stop].request = calls[stop].request
    BY <2>1, <2>2, <2>3 DEF Calls
  <2> QED BY <1>1, <2>1, <2>2, <2>4, PlacingGoesOn DEF Placing
<1> QED BY <1>2, <1>3

LEMMA StopRecorded ==
    ASSUME MarketInv, CallsInv, StopsInv, Record("stop")
    PROVE  StopsKeepUp /\ PlacingInv'
<1>0. PICK e, o, stop, idle : /\ e = calls["stop"].request.entry /\ o = calls["stop"].id
                              /\ stop = "stop" /\ idle = Idle
  OBVIOUS
<1>1. stop \in Callers /\ calls \in [Callers -> Calls] /\ calls[stop].step = "answered"
  BY <1>0 DEF CallsInv, Callers, Record
<1>2. /\ e \in DOMAIN stops /\ e \notin announced /\ WellFormedStop(e)
  BY <1>0, <1>1, PlacedEntry DEF Placing
<1>3. stops[e] \in [state : StopStates, id : Nat, attempts : 1..StopRetries]
  BY <1>2 DEF WellFormedStop
<1>4. WellFormedCall(stop, calls[stop], market) /\ market' = market
  BY <1>1 DEF CallsInv, Record, exchange
<1>5. o \in StopsOf(e) /\ o \in Nat /\ o /= 0
  <2>1. o \in Issued /\ market[o].kind = "stop" /\ market[o].entry = e
    BY <1>0, <1>1, <1>4 DEF WellFormedCall, Issued
  <2> QED BY <2>1, OrdersAreRecords DEF StopsOf
<1>6. PICK next : next = [stops[e] EXCEPT !.state = "PLACED", !.id = o]
  OBVIOUS
<1>7. /\ stops' = [stops EXCEPT ![e] = next] /\ announced' = announced
      /\ calls' = [calls EXCEPT ![stop] = idle]
  BY <1>0, <1>6 DEF Record
<1>8. /\ next \in [state : StopStates, id : Nat, attempts : 1..StopRetries]
      /\ next.state = "PLACED" /\ next.id = o
  BY <1>3, <1>5, <1>6 DEF StopStates
<1>9. stops'[e] = next /\ StopsOf(e)' = StopsOf(e)
  BY <1>2, <1>4, <1>7 DEF StopsOf, Issued
<1>10. WellFormedStop(e)'
  BY <1>5, <1>8, <1>9 DEF WellFormedStop
<1>11. stops' = With(stops, e, next)
  BY <1>2, <1>7 DEF With
<1>12. StopsKeepUp
  BY <1>2, <1>7, <1>8, <1>10, <1>11, OneStopChanges
<1>13. calls'["stop"].step = "idle"
  BY <1>0, <1>1, <1>7, StepsOfCalls
<1> QED BY <1>12, <1>13 DEF PlacingInv, Placing

LEMMA StopPlaced ==
    ASSUME CallsInv, StopsInv, NEW e, PlaceStop(e)
    PROVE  StopsKeepUp /\ PlacingInv'
<1>1. CASE e \notin configs
  <2>1. calls' = calls /\ stops' = stops /\ announced' = announced
    BY <1>1 DEF PlaceStop
  <2> QED BY <2>1, StopsUntouched DEF StopsInv, PlacingInv, Placing
<1>2. CASE e \in configs
  <2>1. PICK next, request, posting, stop :
          /\ next = [state |-> "PENDING_PLACEMENT", id |-> 0, attempts |-> 1]
          /\ request = StopRequest(e) /\ posting = Posting(request) /\ stop = "stop"
    OBVIOUS
  <2>2. /\ stops' = With(stops, e, next) /\ announced' = announced
        /\ calls' = [calls EXCEPT ![stop] = posting]
    BY <1>2, <2>1 DEF PlaceStop
  <2>3. next \in [state : StopStates, id : Nat, attempts : 1..StopRetries]
    BY <2>1, RetriesAssumption DEF StopStates
  <2>4. stops'[e] = next /\ e \in DOMAIN stops'
    BY <2>2 DEF With
  <2>5. WellFormedStop(e)'
    BY <2>1, <2>3, <2>4 DEF WellFormedStop
  <2>6. e \notin announced
    BY <1>2, AnnouncedAreKnown DEF StopsInv, RegistrationsInv
  <2>7. StopsKeepUp
    BY <2>1, <2>2, <2>5, <2>6, OneStopChanges
  <2>8. calls'[stop].request.entry = e
    <3>1. stop \in Callers /\ calls \in [Callers -> Calls]
      BY <2>1 DEF CallsInv, Callers
    <3>2. calls'[stop] = posting
      BY <2>2, <3>1
    <3>3. posting.request = request /\ request.entry = e
      BY <2>1 DEF Posting, Call, StopRequest
    <3> QED BY <3>2, <3>3
  <2> QED BY <2>1, <2>4, <2>7, <2>8 DEF PlacingInv
<1> QED BY <1>1, <1>2

\* An event reaches the stop filed under its id, if that can still change.
LEMMA StopEventHandled ==
    ASSUME MarketInv, StopsInv, NEW o, NEW stage \in {1, 2},
           NEW state \in {"TRIGGERED", "FILLED", "CANCELLED"},
           StopEvent(o, stage, state), state = "CANCELLED" => stage = 2,
           announced' = IF state = "CANCELLED" THEN announced \union EntryOf(o) ELSE announced,
           UNCHANGED calls
    PROVE  StopsKeepUp /\ PlacingInv'
<1>1. /\ o \in Issued /\ market[o].kind = "stop" /\ market[o].told < stage
      /\ DOMAIN stops' = DOMAIN stops
      /\ \A e \in DOMAIN stops : stops'[e] = IF e \in EntryOf(o)
                                              THEN [stops[e] EXCEPT !.state = state] ELSE stops[e]
  BY DEF StopEvent
<1>2. Issued' = Issued /\ (\A e : StopsOf(e)' = StopsOf(e)) /\ market'[o].told = stage
  BY StopEventChanges, ChangedKeeps
<1>3. o \in Nat /\ o /= 0 /\ market[o].told \in Nat
  BY <1>1, OrdersAreRecords DEF OrderRecords
<1>4. ASSUME NEW e \in DOMAIN stops, e \in EntryOf(o)
      PROVE  StopWritten(e) /\ stops[e].state /= "PENDING_PLACEMENT"
  <2>1. WellFormedStop(e) /\ stops[e].id = o /\ o \in StopsOf(e)
    BY <1>3, <1>4 DEF StopsInv, EntryOf, WellFormedStop
  <2>2. stops[e] \in [state : StopStates, id : Nat, attempts : 1..StopRetries]
    BY <2>1 DEF WellFormedStop
  <2>3. PICK next : next = [stops[e] EXCEPT !.state = state]
    OBVIOUS
  <2>4. stops'[e] = next
    BY <1>1, <1>4, <2>3
  <2>5. /\ next \in [state : StopStates, id : Nat, attempts : 1..StopRetries]
        /\ next.state = state /\ next.id = o
    BY <2>1, <2>2, <2>3 DEF StopStates
  <2>6. WellFormedStop(e)'
    BY <1>2, <1>3, <2>1, <2>4, <2>5 DEF WellFormedStop
  <2>7. stops[e].state \notin {"PENDING_PLACEMENT", "FAILED"}
    BY <1>3, <2>1 DEF WellFormedStop
  <2>8. stops[e].state /= "CANCELLED"
    <3>1. market[o].told /= 2
      BY <1>1, <1>3
    <3> QED BY <2>1, <3>1 DEF WellFormedStop
  <2>9. e \notin announced
    BY <2>7, <2>8 DEF StopsInv, ListedIffAnnounced, UnprotectedEntries
  <2>10. e \in announced' <=> next.state \in {"FAILED", "CANCELLED"}
    BY <1>4, <2>5, <2>9
  <2> QED BY <2>4, <2>6, <2>7, <2>10 DEF StopWritten
<1>5. ASSUME NEW e \in DOMAIN stops, e \notin EntryOf(o)
      PROVE  StopKept(e)
  BY <1>1, <1>5 DEF StopKept
<1>6. announced' \subseteq DOMAIN stops'
  BY <1>1, AnnouncedAreKnown DEF EntryOf
<1>7. StopsKeepUp
  BY <1>1, <1>4, <1>5, <1>6 DEF StopsKeepUp
<1>8. PlacingInv'
  BY <1>1, <1>4 DEF StopsInv, PlacingInv, Placing
<1> QED BY <1>7, <1>8

LEMMA StopsKeptUp ==
    ASSUME IndInv, [Next]_vars
    PROVE  StopsKeepUp /\ PlacingInv'
<1> USE DEF IndInv
<1>1. ASSUME CallStep("stop")
      PROVE  StopsKeepUp /\ PlacingInv'
  <2>1. calls["stop"].step \notin {"cancelling", "cancelled"}
    BY DEF CallsInv, WellFormedCall, Callers
  <2>2. CASE Unreached("stop")
    BY <2>2, StopRequestFails DEF Unreached
  <2>3. CASE Refuse("stop")
    BY <2>3, StopSubmissionFails DEF Refuse
  <2>4. CASE Answers("stop")
    BY <2>4, StopAccepted
  <2>5. CASE Record("stop")
    BY <2>5, StopRecorded
  <2> QED BY <1>1, <2>1, <2>2, <2>3, <2>4, <2>5 DEF CallStep, Answers, CancelReaches,
             CancelFails, CancelAnswered
<1>2. ASSUME NEW c \in {"client", "partial"}, CallStep(c)
      PROVE  StopsKeepUp /\ PlacingInv'
  <2>1. SubmissionFails(c) \/ RequestFails(c) =>
          stops' = stops /\ announced' = announced /\ calls'["stop"] = calls["stop"]
    BY DEF SubmissionFails, RequestFails, CallsInv, Callers
  <2>2. CASE Answers(c) /\ ~RequestFails(c)
    <3>1. calls' = [calls EXCEPT ![c].step = "answered", ![c].id = Len(market) + 1]
      BY <2>2 DEF Answers, Accept, OkWithoutOrder
    <3>2. calls'["stop"] = calls["stop"]
      BY <3>1 DEF CallsInv, Callers
    <3>3. stops' = stops /\ announced' = announced
      BY <2>2 DEF Answers, Accept, OkWithoutOrder, stopState
    <3> QED BY <3>2, <3>3, StopsUntouched DEF StopsInv, PlacingInv, Placing
  <2>3. CASE Record(c) \/ CancelReaches(c) \/ CancelFails(c) \/ CancelAnswered(c)
    <3>1. stops' = stops /\ announced' = announced
      BY <2>3 DEF Record, CancelReaches, CancelFails, CancelAnswered, stopState
    <3>2. calls'["stop"] = calls["stop"]
      BY <2>3 DEF Record, CancelReaches, CancelFails, CancelAnswered, CallsInv, Callers
    <3> QED BY <3>1, <3>2, StopsUntouched DEF StopsInv, PlacingInv, Placing
  <2>4. CASE SubmissionFails(c) \/ RequestFails(c)
    BY <2>1, <2>4, StopsUntouched DEF StopsInv, PlacingInv, Placing
  <2>5. CASE Answers(c)
    BY <2>2, <2>4, <2>5
  <2> QED BY <1>2, <2>3, <2>4, <2>5 DEF CallStep, Answers, Unreached, Refuse
<1>3. ASSUME NEW o \in Ids, HandleStopTriggered(o) \/ HandleStopFilled(o) \/ HandleStopCancelled(o)
      PROVE  StopsKeepUp /\ PlacingInv'
  <2>1. calls' = calls
    BY <1>3 DEF HandleStopTriggered, HandleStopFilled, HandleStopCancelled, StopEvent
  <2> QED BY <1>3, <2>1, StopEventHandled DEF HandleStopTriggered, HandleStopFilled,
     HandleStopCancelled
<1>4. ASSUME NEW e \in Ids, PlaceStop(e)
      PROVE  StopsKeepUp /\ PlacingInv'
  BY <1>4, StopPlaced
<1>5. CASE \/ SubmitOrder \/ CheckPartialFills \/ HandlePartialFill \/ UNCHANGED vars
           \/ \E o \in Ids : \/ CancelOrder(o) \/ Fill(o) \/ HandleFill(o) \/ HandleOrderUpdate(o)
                             \/ RegisterStop(o) \/ StopMoves(o)
  <2>1. stops' = stops /\ announced' = announced
    BY <1>5 DEF SubmitOrder, CheckPartialFills, HandlePartialFill, CancelOrder, Fill, HandleFill,
       HandleOrderUpdate, RegisterStop, StopMoves, vars, stopState
  <2>2. calls'["stop"] = calls["stop"]
    BY <1>5 DEF SubmitOrder, CheckPartialFills, HandlePartialFill, CancelOrder, Fill, HandleFill,
       HandleOrderUpdate, RegisterStop, StopMoves, vars, CallsInv, Callers
  <2> QED BY <2>1, <2>2, StopsUntouched DEF StopsInv, PlacingInv, Placing
<1> QED BY <1>1, <1>2, <1>3, <1>4, <1>5 DEF Next, StopPlacementStep

LEMMA StopsHold ==
    ASSUME IndInv, [Next]_vars, Kept
    PROVE  StopsInv'
BY RegistrationsHold, StopsKeptUp, StopsChange DEF IndInv, StopsInv

-----------------------------------------------------------------------------
(* One stop per entry                                                      *)

LEMMA StopsHaveEntries ==
    ASSUME MarketInv, NEW e, e \notin Entries
    PROVE  StopsOf(e) = {}
BY OrdersAreRecords DEF WellFormedOrder, StopsOf

\* An accepted entry is nobody's stop.
LEMMA EntriesAreNoStops ==
    ASSUME MarketInv, CallsInv, StopsInv, NEW c \in {"client", "partial"}, Added(c)
    PROVE  \A e : StopsOf(e)' = StopsOf(e)
<1>1. PICK n : n = Len(market) + 1
  OBVIOUS
<1>2. c \in Callers /\ c /= "stop"
  BY DEF Callers
<1>3. /\ Issued' = Issued \union {n}
      /\ \A o \in Issued : market'[o] = market[o]
      /\ NewlyFiled(market'[n], calls[c].request)
  BY <1>1, <1>2, AddedKeeps
<1>4. calls[c].request.kind = "entry"
  BY <1>2 DEF CallsInv, WellFormedCall, Added
<1>5. market'[n].kind = "entry"
  BY <1>3, <1>4 DEF NewlyFiled
<1> QED BY <1>3, <1>5 DEF StopsOf

LEMMA StopsOfStay ==
    ASSUME MarketInv, CallsInv, StopsInv, [Next]_vars, ~Answers("stop")
    PROVE  \A e : StopsOf(e)' = StopsOf(e)
<1>1. ASSUME Same \/ \E o \in Issued : Changed(o)
      PROVE  \A e : StopsOf(e)' = StopsOf(e)
  BY <1>1, SameKeeps, ChangedKeeps
<1>2. ASSUME NEW c \in Callers, CallStep(c)
      PROVE  \A e : StopsOf(e)' = StopsOf(e)
  <2>1. CASE Answers(c)
    <3>1. c \in {"client", "partial"}
      BY <2>1 DEF Callers
    <3> QED BY <2>1, <3>1, EntriesAreNoStops DEF Answers, Accept, OkWithoutOrder, Added
  <2>2. CASE CancelReaches(c)
    BY <1>1, <2>2, CancelReachesChanges
  <2>3. CASE Unreached(c) \/ Refuse(c) \/ Record(c) \/ CancelFails(c) \/ CancelAnswered(c)
    BY <1>1, <2>3 DEF Unreached, Refuse, Record, CancelFails, CancelAnswered, exchange, Same
  <2> QED BY <1>2, <2>1, <2>2, <2>3 DEF CallStep, Answers
<1>3. ASSUME NEW o \in Ids, HandleStopTriggered(o) \/ HandleStopFilled(o) \/ HandleStopCancelled(o)
      PROVE  \A e : StopsOf(e)' = StopsOf(e)
  BY <1>1, <1>3, StopEventChanges DEF HandleStopTriggered, HandleStopFilled, HandleStopCancelled
<1>4. ASSUME NEW o \in Ids, Fill(o) \/ HandleFill(o) \/ StopMoves(o)
      PROVE  \A e : StopsOf(e)' = StopsOf(e)
  BY <1>1, <1>4, FillChanges, HandleFillChanges, StopMovesChanges
<1>5. CASE \/ SubmitOrder \/ CheckPartialFills \/ HandlePartialFill \/ UNCHANGED vars
           \/ \E o \in Ids : CancelOrder(o) \/ HandleOrderUpdate(o) \/ RegisterStop(o) \/ PlaceStop(o)
  <2>1. Same
    BY <1>5 DEF SubmitOrder, CheckPartialFills, HandlePartialFill, CancelOrder, HandleOrderUpdate,
       RegisterStop, PlaceStop, vars, exchange, Same
  <2> QED BY <1>1, <2>1
<1>6. "client" \in Callers /\ "partial" \in Callers /\ "stop" \in Callers
  BY DEF Callers
<1> QED BY <1>2, <1>3, <1>4, <1>5, <1>6 DEF Next, StopPlacementStep

LEMMA LostStays ==
    ASSUME [Next]_vars, \A c \in Callers : ~Answers(c)
    PROVE  lost' = lost
<1>1. ASSUME NEW c \in Callers, CallStep(c)
      PROVE  lost' = lost
  BY <1>1 DEF CallStep, Answers, Unreached, Refuse, Record, CancelReaches, CancelFails,
     CancelAnswered,
     exchange
<1>2. CASE \E o \in Ids : HandleStopTriggered(o) \/ HandleStopFilled(o) \/ HandleStopCancelled(o)
  BY <1>2 DEF HandleStopTriggered, HandleStopFilled, HandleStopCancelled, StopEvent
<1>3. CASE \/ SubmitOrder \/ CheckPartialFills \/ HandlePartialFill \/ UNCHANGED vars
           \/ \E o \in Ids : \/ CancelOrder(o) \/ Fill(o) \/ HandleFill(o) \/ HandleOrderUpdate(o)
                             \/ RegisterStop(o) \/ StopMoves(o) \/ PlaceStop(o)
  BY <1>3 DEF SubmitOrder, CheckPartialFills, HandlePartialFill, CancelOrder, Fill, HandleFill,
     HandleOrderUpdate, RegisterStop, StopMoves, PlaceStop, vars, exchange
<1>4. "client" \in Callers /\ "partial" \in Callers /\ "stop" \in Callers
  BY DEF Callers
<1> QED BY <1>1, <1>2, <1>3, <1>4 DEF Next, StopPlacementStep

\* A stop is requested again, or for the first time: its placement is new.
FirstRequest ==
    /\ calls'["stop"].request.entry \in configs
    /\ calls'["stop"].request.entry \in DOMAIN stops'
SameRequest ==
    /\ calls["stop"].step = "posting"
    /\ calls'["stop"].request.entry = calls["stop"].request.entry

LEMMA StopRequests ==
    ASSUME CallsInv, [Next]_vars, calls'["stop"].step = "posting"
    PROVE  SameRequest \/ FirstRequest
<1>0. "stop" \in Callers /\ calls \in [Callers -> Calls]
  BY DEF CallsInv, Callers
<1>1. ASSUME calls["stop"].step = "posting", SubmissionFails("stop")
      PROVE  SameRequest
  <2>1. PICK stop, idle, posting : /\ stop = "stop" /\ idle = Idle
                                   /\ posting = Posting(calls["stop"].request)
    OBVIOUS
  <2>2. calls' = [calls EXCEPT ![stop] = idle] \/ calls' = [calls EXCEPT ![stop] = posting]
    BY <1>1, <2>1 DEF SubmissionFails
  <2>3. calls'[stop] = idle \/ calls'[stop] = posting
    BY <1>0, <2>1, <2>2
  <2>4. calls'[stop] = posting
    BY <2>1, <2>3, StepsOfCalls
  <2> QED BY <1>1, <2>1, <2>4 DEF SameRequest, Posting, Call
<1>2. ASSUME calls["stop"].step = "posting", RequestFails("stop")
      PROVE  SameRequest
  <2>1. CASE Repeats("stop")
    <3>1. PICK stop, next : stop = "stop" /\ next = [calls["stop"] EXCEPT !.attempt = @ + 1]
      OBVIOUS
    <3>2. calls' = [calls EXCEPT ![stop] = next]
      BY <1>2, <2>1, <3>1 DEF RequestFails
    <3>3. calls'[stop].request = calls[stop].request
      BY <1>0, <3>1, <3>2 DEF Calls
    <3> QED BY <1>2, <3>1, <3>3 DEF SameRequest
  <2> QED BY <1>1, <1>2, <2>1 DEF RequestFails
<1>3. ASSUME CallStep("stop")
      PROVE  SameRequest
  <2>1. calls["stop"].step \notin {"cancelling", "cancelled"}
    BY DEF CallsInv, WellFormedCall, Callers
  <2>2. CASE Unreached("stop") \/ Refuse("stop")
    BY <1>1, <1>2, <2>2 DEF Unreached, Refuse
  <2>3. CASE Answers("stop")
    <3>1. CASE RequestFails("stop")
      BY <1>2, <2>3, <3>1 DEF Answers, Accept, OkWithoutOrder
    <3>2. CASE ~RequestFails("stop")
      <4>1. calls' = [calls EXCEPT !["stop"].step = "answered", !["stop"].id = Len(market) + 1]
        BY <2>3, <3>2 DEF Answers, Accept, OkWithoutOrder
      <4>2. calls'["stop"].step = "answered"
        BY <1>0, <4>1 DEF Calls
      <4> QED BY <4>2
    <3> QED BY <3>1, <3>2
  <2>4. CASE Record("stop")
    <3>1. PICK stop, idle : stop = "stop" /\ idle = Idle
      OBVIOUS
    <3>2. calls'[stop] = idle
      BY <1>0, <2>4, <3>1 DEF Record
    <3> QED BY <3>1, <3>2, StepsOfCalls
  <2> QED BY <1>3, <2>1, <2>2, <2>3, <2>4 DEF CallStep, Answers, CancelReaches,
             CancelFails, CancelAnswered
<1>4. ASSUME NEW c \in {"client", "partial"}, CallStep(c)
      PROVE  calls'["stop"] = calls["stop"]
  <2>1. SubmissionFails(c) \/ RequestFails(c) => calls'["stop"] = calls["stop"]
    BY <1>0 DEF SubmissionFails, RequestFails
  <2>2. CASE Answers(c) /\ ~RequestFails(c)
    <3>1. calls' = [calls EXCEPT ![c].step = "answered", ![c].id = Len(market) + 1]
      BY <2>2 DEF Answers, Accept, OkWithoutOrder
    <3> QED BY <1>0, <3>1
  <2>3. CASE Record(c) \/ CancelReaches(c) \/ CancelFails(c) \/ CancelAnswered(c)
    BY <1>0, <2>3 DEF Record, CancelReaches, CancelFails, CancelAnswered
  <2> QED BY <1>4, <2>1, <2>2, <2>3 DEF CallStep, Answers, Unreached, Refuse
<1>5. ASSUME NEW e \in Ids, PlaceStop(e)
      PROVE  SameRequest \/ FirstRequest
  <2>1. CASE e \in configs
    <3>1. PICK stop, request, posting : /\ stop = "stop" /\ request = StopRequest(e)
                                        /\ posting = Posting(request)
      OBVIOUS
    <3>2. calls' = [calls EXCEPT ![stop] = posting] /\ e \in DOMAIN stops'
      BY <1>5, <2>1, <3>1 DEF PlaceStop, With
    <3>3. calls'[stop] = posting /\ posting.request.entry = e
      BY <1>0, <3>1, <3>2 DEF Posting, Call, StopRequest
    <3> QED BY <2>1, <3>1, <3>2, <3>3 DEF FirstRequest
  <2>2. CASE e \notin configs
    BY <1>5, <2>2 DEF PlaceStop, SameRequest
  <2> QED BY <2>1, <2>2
<1>6. CASE \/ SubmitOrder \/ CheckPartialFills \/ HandlePartialFill \/ UNCHANGED vars
           \/ \E o \in Ids : \/ CancelOrder(o) \/ Fill(o) \/ HandleFill(o) \/ HandleOrderUpdate(o)
                             \/ RegisterStop(o) \/ StopMoves(o) \/ HandleStopTriggered(o)
                             \/ HandleStopFilled(o) \/ HandleStopCancelled(o)
  <2>1. calls'["stop"] = calls["stop"]
    BY <1>0, <1>6 DEF SubmitOrder, CheckPartialFills, HandlePartialFill, CancelOrder, Fill,
       HandleFill,
       HandleOrderUpdate, RegisterStop, StopMoves, HandleStopTriggered, HandleStopFilled,
       HandleStopCancelled, StopEvent, vars
  <2> QED BY <2>1 DEF SameRequest
<1> QED BY <1>3, <1>4, <1>5, <1>6 DEF Next, StopPlacementStep, SameRequest

LEMMA StopsStayKnown ==
    ASSUME [Next]_vars
    PROVE  DOMAIN stops \subseteq DOMAIN stops'
<1>1. ASSUME NEW e, PlaceStop(e) \/ RegisterStop(e) \/ HandleFill(e)
      PROVE  DOMAIN stops \subseteq DOMAIN stops'
  BY <1>1 DEF PlaceStop, With, RegisterStop, HandleFill
<1> QED BY <1>1, RegistrationsStay

LEMMA NoSecondStopHolds ==
    ASSUME IndInv, [Next]_vars, Kept
    PROVE  NoSecondStop'
<1> USE DEF IndInv
<1>0. "stop" \in Callers
  BY DEF Callers
<1>1. lost' \in BOOLEAN
  <2>1. CASE \E c \in Callers : Answers(c)
    BY <2>1 DEF Answers, Accept, OkWithoutOrder, NoSecondStop
  <2> QED BY <2>1, LostStays DEF NoSecondStop
<1>2. SUFFICES ASSUME ~lost'
               PROVE  /\ \A e \in Entries' : e \notin DOMAIN stops' => StopsOf(e)' = {}
                      /\ calls'["stop"].step = "posting"
                           => StopsOf(calls["stop"].request.entry)' = {}
                      /\ \A e \in Entries' : \A a, b \in StopsOf(e)' : a = b
  BY <1>1 DEF NoSecondStop
<1>3. ~lost
  <2>1. CASE \E c \in Callers : Answers(c)
    BY <1>2, <2>1 DEF Answers, Accept, OkWithoutOrder
  <2> QED BY <1>2, <2>1, LostStays
<1>4. /\ \A e : e \notin DOMAIN stops => StopsOf(e) = {}
      /\ \A e : \A a, b \in StopsOf(e) : a = b
      /\ calls["stop"].step = "posting" => StopsOf(calls["stop"].request.entry) = {}
  BY <1>3, StopsHaveEntries DEF NoSecondStop
<1>5. DOMAIN stops \subseteq DOMAIN stops'
  BY StopsStayKnown
<1>6. CASE Answers("stop")
  <2>1. PICK n, e : n = Len(market) + 1 /\ e = calls["stop"].request.entry
    OBVIOUS
  <2>2. /\ calls["stop"].step = "posting" /\ Added("stop")
        /\ calls' = [calls EXCEPT !["stop"].step = "answered", !["stop"].id = Len(market) + 1]
    BY <1>2, <1>6 DEF Answers, Accept, OkWithoutOrder, Added
  <2>3. /\ Issued' = Issued \union {n}
        /\ \A o \in Issued : market'[o] = market[o]
        /\ NewlyFiled(market'[n], calls["stop"].request)
    BY <1>0, <2>1, <2>2, AddedKeeps
  <2>4. market'[n].entry = e
    BY <2>1, <2>3 DEF NewlyFiled
  <2>5. \A x : StopsOf(x)' \subseteq StopsOf(x) \union (IF x = e THEN {n} ELSE {})
    BY <2>3, <2>4 DEF StopsOf
  <2>6. StopsOf(e) = {} /\ e \in DOMAIN stops
    BY <1>4, <2>1, <2>2, PlacedEntry DEF Placing
  <2>7. calls'["stop"].step = "answered"
    BY <1>0, <2>2 DEF CallsInv, Calls
  <2>8. \A x \in Entries' : x \notin DOMAIN stops' => StopsOf(x)' = {}
    BY <1>4, <1>5, <2>5, <2>6
  <2>9. \A x \in Entries' : \A a, b \in StopsOf(x)' : a = b
    BY <1>4, <2>5, <2>6
  <2> QED BY <2>7, <2>8, <2>9
<1>7. CASE ~Answers("stop")
  <2>1. \A e : StopsOf(e)' = StopsOf(e)
    BY <1>7, StopsOfStay
  <2>2. ASSUME calls'["stop"].step = "posting"
        PROVE  StopsOf(calls["stop"].request.entry)' = {}
    <3>1. PICK e : e = calls'["stop"].request.entry
      OBVIOUS
    <3>0. StopsOf(calls["stop"].request.entry)' = StopsOf(e)
      BY <2>1, <3>1 DEF StopsOf
    <3>2. CASE SameRequest
      BY <1>4, <3>0, <3>1, <3>2 DEF SameRequest
    <3>3. CASE FirstRequest
      <4>1. e \in configs
        BY <3>1, <3>3 DEF FirstRequest
      <4>2. e \notin DOMAIN stops
        BY <4>1 DEF StopsInv, RegistrationsInv
      <4>3. StopsOf(e) = {}
        BY <1>4, <4>2
      <4> QED BY <3>0, <4>3
    <3> QED BY <2>2, <3>2, <3>3, StopRequests
  <2> QED BY <1>4, <1>5, <2>1, <2>2
<1> QED BY <1>6, <1>7

-----------------------------------------------------------------------------
(* The invariant is inductive                                              *)

LEMMA Established == Init => IndInv
<1> SUFFICES ASSUME Init
             PROVE  IndInv
  OBVIOUS
<1>1. market = << >> /\ Len(market) = 0 /\ market \in Seq(OrderRecords)
  BY DEF Init
<1>2. Issued = {} /\ Entries = {} /\ \A e : StopsOf(e) = {}
  BY <1>1 DEF Issued, Entries, StopsOf
<1>3. MarketInv
  BY <1>1, <1>2, RetriesAssumption DEF MarketInv
<1>4. DOMAIN updates = {} /\ updates = [o \in {} |-> 0] /\ pending = {}
  BY DEF Init
<1>5. UpdatesInv
  BY <1>4 DEF UpdatesInv, PendingIsLive
<1>6. PICK idle : idle = Idle
  OBVIOUS
<1>7. calls = [c \in Callers |-> idle] /\ idle.step = "idle"
  BY <1>6, StepsOfCalls DEF Init
<1>8. \A c \in Callers : WellFormedCall(c, idle, market)
  BY <1>6, IdleIsWellFormed
<1>9. idle \in Calls \/ Callers = {}
  BY <1>8 DEF WellFormedCall
<1>10. CallsInv
  BY <1>7, <1>8, <1>9 DEF CallsInv
<1>11. ClosedInv
  <2>1. resubmits = [o \in Ids |-> 0]
    BY DEF Init
  <2>2. resubmits \in [Ids -> Nat] /\ \A o \in Ids : ~(resubmits[o] > 0)
    BY <2>1
  <2> QED BY <1>7, <2>2 DEF ClosedInv
<1>12. PartialsInv
  <2>1. 0 \in 0..2 * EntrySize
    BY EntryAssumption
  <2> QED BY <2>1 DEF PartialsInv, Init
<1>13. StopsInv
  <2>1. calls["stop"].step = "idle"
    BY <1>7 DEF Callers
  <2> QED BY <2>1 DEF StopsInv, RegistrationsInv, PlacingInv, Placing, ListedIffAnnounced,
             UnprotectedEntries, Init
<1>14. NoSecondStop
  <2>1. calls["stop"].step = "idle"
    BY <1>7 DEF Callers
  <2> QED BY <1>2, <2>1 DEF NoSecondStop, Init
<1> QED BY <1>3, <1>5, <1>10, <1>11, <1>12, <1>13, <1>14 DEF IndInv, ResubmitsInv

LEMMA Inductive == IndInv /\ [Next]_vars => IndInv'
<1> SUFFICES ASSUME IndInv, [Next]_vars
             PROVE  IndInv'
  OBVIOUS
<1>1. MarketInv' /\ Kept
  BY MarketHolds DEF IndInv
<1> QED BY <1>1, CallsHold, UpdatesHold, ClosedHolds, PartialsHold, StopsHold,
           NoSecondStopHolds DEF IndInv, ResubmitsInv

LEMMA AlwaysIndInv == Spec => []IndInv
BY Established, Inductive, PTL DEF Spec

-----------------------------------------------------------------------------
(* What the entry and its resubmissions may execute                        *)

Smaller(m, n) == IF m <= n THEN m ELSE n

\* What an order takes of the size asked for: all of its own, until the rest
\* of it was resubmitted; then what it had executed when the rest was computed.
Booked ==
    [o \in Ids |-> IF resubmits[o] > 0 THEN Smaller(market[o].filled, known[o])
                   ELSE market[o].size]
Requested(c) == IF calls[c].step = "posting" THEN calls[c].request.size ELSE 0
Stopping(c) == calls[c].step \in {"cancelling", "cancelled"}

\* An id that was answered is not recorded yet, and is nobody else's; what is
\* cancelled is recorded, and what was resubmitted is not pending again.
IdsAreFresh ==
    /\ \A c \in Callers : calls[c].step = "answered" => calls[c].id \notin DOMAIN updates
    /\ \A c, d \in Callers :
         calls[c].step = "answered" /\ calls[d].step = "answered" /\ c /= d
           => calls[c].id /= calls[d].id
    /\ \A c \in Callers : Stopping(c) => calls[c].id \in DOMAIN updates
    /\ \A o \in Ids : resubmits[o] > 0 => o \in DOMAIN updates /\ o \notin pending

\* What is to be submitted again, and what was known to be executed, is no more
\* than the order asked for; only handle_partial_fill submits anything again.
AmountsFit ==
    /\ \A t \in todo : t.amount > 0 => t.amount + known[t.id] <= market[t.id].size
    /\ Stopping("client") => calls["client"].request.size = 0
    /\ Stopping("partial") /\ calls["partial"].request.size > 0 =>
         calls["partial"].request.size + known[calls["partial"].id]
           <= market[calls["partial"].id].size
    /\ calls["partial"].step = "posting" => Len(market) > 0

\* An order is resubmitted once: handle_partial_fill takes on an order that is
\* pending, and one that was resubmitted is not.
ResubmittedOnce ==
    /\ \A o \in Ids : resubmits[o] <= 1
    /\ Stopping("partial") => resubmits[calls["partial"].id] = 0

BookedFits ==
    ~lost => Total(Booked, Entries) + Requested("client") + Requested("partial") <= EntrySize

SharesInv == IdsAreFresh /\ AmountsFit /\ ResubmittedOnce /\ BookedFits

-----------------------------------------------------------------------------
(* How a call moves                                                        *)

Others(c) == \A d \in Callers : d /= c => calls'[d] = calls[d]

\* Nothing new is asked for.
Quiet(c) ==
    \/ calls'[c] = calls[c]
    \/ calls'[c].step = "idle"
    \/ /\ calls[c].step = "posting" /\ calls'[c].step = "posting"
       /\ calls'[c].request = calls[c].request
    \/ /\ calls[c].step = "cancelling" /\ calls'[c].step = "cancelled"
       /\ calls'[c].request = calls[c].request /\ calls'[c].id = calls[c].id
Arrives(c) ==
    /\ calls[c].step = "posting" /\ Answers(c) /\ Others(c)
    /\ calls'[c].step = "answered" /\ calls'[c].id = Len(market) + 1
Asks(c) ==
    /\ calls'[c].step = "posting" /\ Others(c)
    /\ c = "client" => SubmitOrder /\ calls'[c].request.size = EntrySize
    /\ c = "partial" => /\ CancelAnswered(c) /\ calls[c].step = "cancelled"
                        /\ calls[c].request.size > 0
                        /\ calls'[c].request = calls[c].request
StartsToCancel(c) ==
    /\ calls'[c].step = "cancelling" /\ Others(c)
    /\ c /= "stop" /\ calls'[c].id \in DOMAIN updates
    /\ c = "client" => calls'[c].request.size = 0
    /\ c = "partial" => /\ calls'[c].id \in pending
                        /\ \E t \in todo : calls'[c].id = t.id /\ calls'[c].request.size = t.amount
Moves(c) == Quiet(c) \/ Arrives(c) \/ Asks(c) \/ StartsToCancel(c)

LEMMA OneMoves ==
    ASSUME CallsInv, NEW c \in Callers, NEW call, calls' = [calls EXCEPT ![c] = call]
    PROVE  calls'[c] = call /\ Others(c)
BY DEF CallsInv, Others

LEMMA OthersAreQuiet ==
    ASSUME NEW c \in Callers, Others(c), Moves(c)
    PROVE  \A d \in Callers : Moves(d)
BY DEF Others, Moves, Quiet

LEMMA PostingMoves ==
    ASSUME CallsInv, NEW c \in Callers, calls[c].step = "posting",
           SubmissionFails(c) \/ RequestFails(c)
    PROVE  Others(c) /\ Quiet(c)
<1>1. CASE SubmissionFails(c)
  <2>1. PICK idle, posting, request :
          idle = Idle /\ posting = Posting(request) /\ request = calls[c].request
    OBVIOUS
  <2>2. calls' = [calls EXCEPT ![c] = idle] \/ calls' = [calls EXCEPT ![c] = posting]
    BY <1>1, <2>1 DEF SubmissionFails
  <2>3. Others(c) /\ (calls'[c] = idle \/ calls'[c] = posting)
    BY <2>2, OneMoves
  <2>4. idle.step = "idle" /\ posting.step = "posting" /\ posting.request = request
    BY <2>1 DEF Idle, Posting, Call
  <2> QED BY <2>1, <2>3, <2>4 DEF Quiet
<1>2. CASE RequestFails(c) /\ Repeats(c)
  <2>1. PICK next : next = [calls[c] EXCEPT !.attempt = @ + 1]
    OBVIOUS
  <2>2. calls' = [calls EXCEPT ![c] = next]
    BY <1>2, <2>1 DEF RequestFails
  <2>3. next.step = "posting" /\ next.request = calls[c].request
    BY <2>1 DEF CallsInv, Calls
  <2> QED BY <2>2, <2>3, OneMoves DEF Quiet
<1> QED BY <1>1, <1>2 DEF RequestFails

LEMMA CallStepMoves ==
    ASSUME CallsInv, AmountsFit, NEW c \in Callers, CallStep(c)
    PROVE  Others(c) /\ Moves(c)
<1>1. CASE Unreached(c) \/ Refuse(c)
  BY <1>1, PostingMoves DEF Unreached, Refuse, Moves
<1>2. CASE Answers(c)
  <2>1. CASE RequestFails(c)
    BY <1>2, <2>1, PostingMoves DEF Answers, Accept, OkWithoutOrder, Moves
  <2>2. CASE ~RequestFails(c)
    <3>1. PICK n : n = Len(market) + 1
      OBVIOUS
    <3>2. PICK next : next = [calls[c] EXCEPT !.step = "answered", !.id = n]
      OBVIOUS
    <3>3. calls' = [calls EXCEPT ![c] = next] /\ calls[c].step = "posting"
      BY <1>2, <2>2, <3>1, <3>2 DEF Answers, Accept, OkWithoutOrder
    <3>4. next.step = "answered" /\ next.id = n
      BY <3>2 DEF CallsInv, Calls
    <3>5. Others(c) /\ calls'[c] = next
      BY <3>3, OneMoves
    <3> QED BY <1>2, <3>1, <3>3, <3>4, <3>5 DEF Moves, Arrives
  <2> QED BY <2>1, <2>2
<1>3. PICK idle : idle = Idle /\ idle.step = "idle"
  BY StepsOfCalls
<1>4. CASE Record(c) \/ CancelFails(c)
  <2>1. calls' = [calls EXCEPT ![c] = idle]
    BY <1>3, <1>4 DEF Record, CancelFails
  <2> QED BY <1>3, <2>1, OneMoves DEF Moves, Quiet
<1>5. CASE CancelReaches(c)
  <2>1. PICK next : next = [calls[c] EXCEPT !.step = "cancelled"]
    OBVIOUS
  <2>2. calls' = [calls EXCEPT ![c] = next] /\ calls[c].step = "cancelling"
    BY <1>5, <2>1 DEF CancelReaches
  <2>3. next.step = "cancelled" /\ next.request = calls[c].request /\ next.id = calls[c].id
    BY <2>1 DEF CallsInv, Calls
  <2>4. Others(c) /\ calls'[c] = next
    BY <2>2, OneMoves
  <2> QED BY <2>2, <2>3, <2>4 DEF Moves, Quiet
<1>6. CASE CancelAnswered(c)
  <2>1. calls[c].step = "cancelled" /\ c /= "stop"
    BY <1>6 DEF CancelAnswered, CallsInv, WellFormedCall
  <2>2. CASE ~(calls[c].request.size > 0)
    <3>1. calls' = [calls EXCEPT ![c] = idle]
      BY <1>3, <1>6, <2>2 DEF CancelAnswered
    <3> QED BY <1>3, <3>1, OneMoves DEF Moves, Quiet
  <2>3. CASE calls[c].request.size > 0
    <3>1. PICK request, posting : request = calls[c].request /\ posting = Posting(request)
      OBVIOUS
    <3>2. calls' = [calls EXCEPT ![c] = posting]
      BY <1>6, <2>3, <3>1 DEF CancelAnswered
    <3>3. posting.step = "posting" /\ posting.request = request
      BY <3>1 DEF Posting, Call
    <3>4. c /= "client"
      BY <2>1, <2>3 DEF AmountsFit, Stopping
    <3>5. Others(c) /\ calls'[c] = posting
      BY <3>2, OneMoves
    <3> QED BY <1>6, <2>1, <2>3, <3>1, <3>3, <3>4, <3>5 DEF Moves, Asks
  <2> QED BY <2>2, <2>3
<1> QED BY <1>1, <1>2, <1>4, <1>5, <1>6 DEF CallStep, Answers

LEMMA CallsMove ==
    ASSUME IndInv, AmountsFit, [Next]_vars
    PROVE  \A c \in Callers : Moves(c)
<1> USE DEF IndInv
<1>1. ASSUME NEW c \in Callers, CallStep(c)
      PROVE  \A d \in Callers : Moves(d)
  BY <1>1, CallStepMoves, OthersAreQuiet
<1>2. PICK client, partial, stop : client = "client" /\ partial = "partial" /\ stop = "stop"
  OBVIOUS
<1>3. client \in Callers /\ partial \in Callers /\ stop \in Callers
  BY <1>2 DEF Callers
<1>4. CASE SubmitOrder
  <2>1. PICK cascade : calls' = [calls EXCEPT ![client] = Posting(EntryRequest(EntrySize, 0, cascade))]
    BY <1>2, <1>4 DEF SubmitOrder
  <2>2. PICK posting : posting = Posting(EntryRequest(EntrySize, 0, cascade))
    OBVIOUS
  <2>3. posting.step = "posting" /\ posting.request.size = EntrySize
    BY <2>2 DEF Posting, Call, EntryRequest
  <2>4. Others(client) /\ calls'[client] = posting
    BY <1>3, <2>1, <2>2, OneMoves
  <2>5. Asks(client)
    BY <1>2, <1>4, <2>3, <2>4 DEF Asks
  <2> QED BY <1>3, <2>4, <2>5, OthersAreQuiet DEF Moves
<1>5. CASE HandlePartialFill
  <2>0. PICK t \in todo :
          calls' = IF t.id \notin pending THEN calls
                   ELSE [calls EXCEPT ![partial] =
                           Cancelling(t.id, EntryRequest(t.amount, market[t.id].generation + 1,
                                                         market[t.id].cascade))]
    BY <1>2, <1>5 DEF HandlePartialFill
  <2>1. PICK generation, cascade :
          \/ calls' = calls
          \/ /\ t.id \in pending
             /\ calls' = [calls EXCEPT ![partial] =
                            Cancelling(t.id, EntryRequest(t.amount, generation, cascade))]
    BY <2>0
  <2>2. CASE calls' = calls
    BY <2>2 DEF Moves, Quiet
  <2>3. CASE calls' /= calls
    <3>1. PICK next : next = Cancelling(t.id, EntryRequest(t.amount, generation, cascade))
      OBVIOUS
    <3>2. next.step = "cancelling" /\ next.id = t.id /\ next.request.size = t.amount
      BY <3>1 DEF Cancelling, Call, EntryRequest
    <3>3. Others(partial) /\ calls'[partial] = next
      BY <1>3, <2>1, <2>3, <3>1, OneMoves
    <3>4. t.id \in DOMAIN updates /\ t.id \in pending
      BY <2>1, <2>3 DEF UpdatesInv
    <3>5. StartsToCancel(partial)
      BY <1>2, <3>2, <3>3, <3>4 DEF StartsToCancel
    <3> QED BY <1>3, <3>3, <3>5, OthersAreQuiet DEF Moves
  <2> QED BY <2>2, <2>3
<1>6. ASSUME NEW o \in Ids, CancelOrder(o)
      PROVE  \A d \in Callers : Moves(d)
  <2>1. PICK next : next = Cancelling(o, NoRequest)
    OBVIOUS
  <2>2. calls' = [calls EXCEPT ![client] = next] /\ o \in DOMAIN updates
    BY <1>2, <1>6, <2>1 DEF CancelOrder
  <2>3. next.step = "cancelling" /\ next.id = o /\ next.request.size = 0
    BY <2>1 DEF Cancelling, Call, NoRequest, EntryRequest
  <2>4. Others(client) /\ calls'[client] = next
    BY <1>3, <2>2, OneMoves
  <2>5. StartsToCancel(client)
    BY <1>2, <2>2, <2>3, <2>4 DEF StartsToCancel
  <2> QED BY <1>3, <2>4, <2>5, OthersAreQuiet DEF Moves
<1>7. ASSUME NEW e \in Ids, PlaceStop(e)
      PROVE  \A d \in Callers : Moves(d)
  <2>1. PICK next : next = Posting(StopRequest(e))
    OBVIOUS
  <2>2. calls' = calls \/ calls' = [calls EXCEPT ![stop] = next]
    BY <1>2, <1>7, <2>1 DEF PlaceStop
  <2>3. CASE calls' = calls
    BY <2>3 DEF Moves, Quiet
  <2>4. CASE calls' /= calls
    <3>1. next.step = "posting"
      BY <2>1 DEF Posting, Call
    <3>2. Others(stop) /\ calls'[stop] = next
      BY <1>3, <2>2, <2>4, OneMoves
    <3>3. Asks(stop)
      BY <1>2, <3>1, <3>2 DEF Asks
    <3> QED BY <1>3, <3>2, <3>3, OthersAreQuiet DEF Moves
  <2> QED BY <2>3, <2>4
<1>8. CASE \/ CheckPartialFills \/ UNCHANGED vars
           \/ \E o \in Ids :
                 \/ Fill(o) \/ HandleFill(o) \/ HandleOrderUpdate(o)
                 \/ RegisterStop(o) \/ StopMoves(o)
                 \/ HandleStopTriggered(o) \/ HandleStopFilled(o) \/ HandleStopCancelled(o)
  <2>1. calls' = calls
    BY <1>8 DEF CheckPartialFills, Fill, HandleFill, HandleOrderUpdate, RegisterStop, StopMoves,
       HandleStopTriggered, HandleStopFilled, HandleStopCancelled, StopEvent, vars
  <2> QED BY <2>1 DEF Moves, Quiet
<1> QED BY <1>1, <1>2, <1>3, <1>4, <1>5, <1>6, <1>7, <1>8 DEF Next, StopPlacementStep

-----------------------------------------------------------------------------
(* Ids and amounts                                                         *)

LEMMA UpdatesMove ==
    ASSUME [Next]_vars, \A c \in Callers : ~Record(c)
    PROVE  DOMAIN updates' = DOMAIN updates /\ pending' \subseteq pending
<1>1. ASSUME NEW c \in Callers, CallStep(c)
      PROVE  DOMAIN updates' = DOMAIN updates /\ pending' \subseteq pending
  BY <1>1 DEF CallStep, Unreached, Refuse, Answers, Accept, OkWithoutOrder, CancelReaches,
     CancelFails, CancelAnswered
<1>2. ASSUME NEW o, HandleFill(o) \/ HandleOrderUpdate(o)
      PROVE  DOMAIN updates' = DOMAIN updates /\ pending' \subseteq pending
  BY <1>2 DEF HandleFill, HandleOrderUpdate, PendingAfterFill
<1>3. CASE \/ SubmitOrder \/ CheckPartialFills \/ HandlePartialFill \/ UNCHANGED vars
           \/ \E o \in Ids :
                 \/ CancelOrder(o) \/ Fill(o) \/ RegisterStop(o) \/ StopMoves(o) \/ PlaceStop(o)
                 \/ HandleStopTriggered(o) \/ HandleStopFilled(o) \/ HandleStopCancelled(o)
  BY <1>3 DEF SubmitOrder, CheckPartialFills, HandlePartialFill, CancelOrder, Fill, RegisterStop,
     StopMoves, PlaceStop, HandleStopTriggered, HandleStopFilled, HandleStopCancelled, StopEvent, vars
<1>4. "client" \in Callers /\ "partial" \in Callers /\ "stop" \in Callers
  BY DEF Callers
<1> QED BY <1>1, <1>2, <1>3, <1>4 DEF Next, StopPlacementStep

LEMMA ResubmitsStay ==
    ASSUME [Next]_vars, \A c \in Callers : ~CancelAnswered(c)
    PROVE  resubmits' = resubmits
<1>1. ASSUME NEW c \in Callers, CallStep(c)
      PROVE  resubmits' = resubmits
  BY <1>1 DEF CallStep, Unreached, Refuse, Answers, Accept, OkWithoutOrder, Record,
     CancelReaches, CancelFails, partialState
<1>2. CASE \/ SubmitOrder \/ CheckPartialFills \/ HandlePartialFill \/ UNCHANGED vars
           \/ \E o \in Ids :
                 \/ CancelOrder(o) \/ PlaceStop(o)
                 \/ Fill(o) \/ HandleFill(o) \/ HandleOrderUpdate(o)
                 \/ RegisterStop(o) \/ StopMoves(o)
                 \/ HandleStopTriggered(o) \/ HandleStopFilled(o) \/ HandleStopCancelled(o)
  BY <1>2 DEF SubmitOrder, CheckPartialFills, HandlePartialFill, CancelOrder, PlaceStop, Fill,
     HandleFill, HandleOrderUpdate, RegisterStop, StopMoves, HandleStopTriggered, HandleStopFilled,
     HandleStopCancelled, StopEvent, vars, partialState
<1>3. "client" \in Callers /\ "partial" \in Callers /\ "stop" \in Callers
  BY DEF Callers
<1> QED BY <1>1, <1>2, <1>3 DEF Next, StopPlacementStep

LEMMA RecordedStaysFresh ==
    ASSUME IndInv, SharesInv, [Next]_vars, NEW c \in Callers, Record(c)
    PROVE  IdsAreFresh'
<1>1. PICK o : o = calls[c].id
  OBVIOUS
<1>2. PICK idle : idle = Idle /\ idle.step = "idle"
  BY StepsOfCalls
<1>3. calls'[c] = idle /\ Others(c) /\ calls[c].step = "answered"
  <2>1. calls' = [calls EXCEPT ![c] = idle]
    BY <1>2 DEF Record
  <2> QED BY <2>1, OneMoves DEF IndInv, Record
<1>4. DOMAIN updates' = DOMAIN updates \union {o} /\ pending' = pending \union {o}
      /\ resubmits' = resubmits
  BY <1>1 DEF Record, With, partialState
<1>5. o \notin DOMAIN updates /\ \A d \in Callers : calls[d].step = "answered" /\ d /= c => calls[d].id /= o
  BY <1>1, <1>3 DEF SharesInv, IdsAreFresh
<1>6. \A d \in Callers : d /= c => calls'[d] = calls[d]
  BY <1>3 DEF Others
<1>7. \A d \in Callers : calls'[d].step = "answered" => calls'[d].id \notin DOMAIN updates'
  BY <1>2, <1>3, <1>4, <1>5, <1>6 DEF SharesInv, IdsAreFresh
<1>8. \A d, e \in Callers :
        calls'[d].step = "answered" /\ calls'[e].step = "answered" /\ d /= e
          => calls'[d].id /= calls'[e].id
  BY <1>2, <1>3, <1>6 DEF SharesInv, IdsAreFresh
<1>9. \A d \in Callers : Stopping(d)' => calls'[d].id \in DOMAIN updates'
  BY <1>2, <1>3, <1>4, <1>6 DEF SharesInv, IdsAreFresh, Stopping
<1>10. \A a \in Ids : resubmits'[a] > 0 => a \in DOMAIN updates' /\ a \notin pending'
  BY <1>4, <1>5 DEF SharesInv, IdsAreFresh
<1> QED BY <1>7, <1>8, <1>9, <1>10 DEF IdsAreFresh

LEMMA OthersStayFresh ==
    ASSUME IndInv, SharesInv, [Next]_vars, \A c \in Callers : ~Record(c)
    PROVE  IdsAreFresh'
<1>1. DOMAIN updates' = DOMAIN updates /\ pending' \subseteq pending
  BY UpdatesMove
<1>2. \A c \in Callers : Moves(c)
  BY CallsMove DEF SharesInv
<1>3. PICK n : n = Len(market) + 1
  OBVIOUS
<1>4. /\ n \notin Issued /\ DOMAIN updates \subseteq Issued
      /\ \A c \in Callers : calls[c].step = "answered" => calls[c].id \in Issued
  <2>1. Issued = 1..Len(market) /\ Len(market) \in Nat
    BY OrdersAreRecords DEF IndInv
  <2>2. n \notin Issued
    BY <1>3, <2>1
  <2> QED BY <2>2 DEF IndInv, UpdatesInv, CallsInv, WellFormedCall, Issued
<1>5. \A c \in Callers :
         calls'[c].step = "answered" =>
           calls'[c] = calls[c] \/ (calls[c].step = "posting" /\ calls'[c].id = n /\ Others(c))
  BY <1>2, <1>3 DEF Moves, Quiet, Arrives, Asks, StartsToCancel
<1>6. \A c \in Callers : calls'[c].step = "answered" => calls'[c].id \notin DOMAIN updates'
  BY <1>1, <1>4, <1>5 DEF SharesInv, IdsAreFresh
<1>7. ASSUME NEW c \in Callers, NEW d \in Callers, calls'[c].step = "answered",
             calls'[d].step = "answered", c /= d
      PROVE  calls'[c].id /= calls'[d].id
  <2>1. CASE calls'[c] = calls[c] /\ calls'[d] = calls[d]
    BY <1>7, <2>1 DEF SharesInv, IdsAreFresh
  <2>2. CASE calls'[c] /= calls[c]
    <3>1. calls'[c].id = n /\ calls'[d] = calls[d]
      BY <1>5, <1>7, <2>2 DEF Others
    <3> QED BY <1>4, <1>7, <3>1
  <2>3. CASE calls'[d] /= calls[d]
    <3>1. calls'[d].id = n /\ calls'[c] = calls[c]
      BY <1>5, <1>7, <2>3 DEF Others
    <3> QED BY <1>4, <1>7, <3>1
  <2> QED BY <2>1, <2>2, <2>3
<1>8. \A c \in Callers : Stopping(c)' => calls'[c].id \in DOMAIN updates'
  BY <1>1, <1>2 DEF Moves, Quiet, Arrives, Asks, StartsToCancel, Stopping, SharesInv, IdsAreFresh
<1>9. \A o \in Ids : resubmits'[o] > 0 => o \in DOMAIN updates' /\ o \notin pending'
  <2>1. CASE \A c \in Callers : ~CancelAnswered(c)
    BY <1>1, <2>1, ResubmitsStay DEF SharesInv, IdsAreFresh
  <2>2. ASSUME NEW c \in Callers, CancelAnswered(c)
        PROVE  \A o \in Ids : resubmits'[o] > 0 => o \in DOMAIN updates' /\ o \notin pending'
    <3>1. PICK x : x = calls[c].id
      OBVIOUS
    <3>2. x \in DOMAIN updates /\ pending' = pending \ {x}
      BY <2>2, <3>1 DEF CancelAnswered, SharesInv, IdsAreFresh, Stopping
    <3>3. resubmits' = resubmits \/ resubmits' = [resubmits EXCEPT ![x] = @ + 1]
      BY <2>2, <3>1 DEF CancelAnswered
    <3>4. \A o \in Ids : o /= x => resubmits'[o] = resubmits[o]
      BY <3>3 DEF IndInv, ResubmitsInv, ClosedInv
    <3> QED BY <1>1, <3>2, <3>4 DEF SharesInv, IdsAreFresh
  <2> QED BY <2>1, <2>2
<1> QED BY <1>6, <1>7, <1>8, <1>9 DEF IdsAreFresh

LEMMA IdsStayFresh ==
    ASSUME IndInv, SharesInv, [Next]_vars
    PROVE  IdsAreFresh'
BY RecordedStaysFresh, OthersStayFresh

LEMMA KnownStays ==
    ASSUME [Next]_vars, ~CheckPartialFills
    PROVE  known' = known /\ todo' \subseteq todo
<1>1. ASSUME NEW c \in Callers, CallStep(c)
      PROVE  known' = known /\ todo' = todo
  BY <1>1 DEF CallStep, Unreached, Refuse, Answers, Accept, OkWithoutOrder, Record,
     CancelReaches, CancelFails, CancelAnswered,
     partialState
<1>2. CASE \/ SubmitOrder \/ HandlePartialFill \/ UNCHANGED vars
           \/ \E o \in Ids :
                 \/ CancelOrder(o) \/ PlaceStop(o)
                 \/ Fill(o) \/ HandleFill(o) \/ HandleOrderUpdate(o)
                 \/ RegisterStop(o) \/ StopMoves(o)
                 \/ HandleStopTriggered(o) \/ HandleStopFilled(o) \/ HandleStopCancelled(o)
  BY <1>2 DEF SubmitOrder, HandlePartialFill, CancelOrder, PlaceStop, Fill,
     HandleFill, HandleOrderUpdate, RegisterStop, StopMoves, HandleStopTriggered, HandleStopFilled,
     HandleStopCancelled, StopEvent, vars, partialState
<1>3. "client" \in Callers /\ "partial" \in Callers /\ "stop" \in Callers
  BY DEF Callers
<1> QED BY <1>1, <1>2, <1>3 DEF Next, StopPlacementStep

LEMMA PartialsChecked ==
    ASSUME IndInv, SharesInv, Kept, CheckPartialFills
    PROVE  AmountsFit'
<1>1. calls' = calls /\ calls["partial"].step = "idle" /\ market' = market
  BY StepsOfCalls DEF CheckPartialFills, exchange
<1>2. PICK stale \in SUBSET Partials :
        /\ todo' = {[id |-> o, amount |-> AmountToResubmit(o)] : o \in stale}
        /\ known' = [o \in Ids |-> IF o \in stale THEN updates[o].filled ELSE known[o]]
  BY DEF CheckPartialFills
<1>3. ASSUME NEW t \in todo', t.amount > 0
      PROVE  t.amount + known'[t.id] <= market'[t.id].size
  <2>1. PICK o \in stale : t = [id |-> o, amount |-> AmountToResubmit(o)]
    BY <1>2
  <2>2. /\ o \in DOMAIN updates /\ updates[o] \in UpdateRecords /\ o \in Issued
        /\ updates[o].size = market[o].size
    BY <1>2 DEF Partials, IndInv, UpdatesInv
  <2>3. o \in Ids /\ known'[o] = updates[o].filled
    BY <1>2, <2>2, OrdersAreRecords DEF IndInv
  <2>4. t.id = o /\ t.amount = updates[o].size - updates[o].filled
    BY <1>3, <2>1 DEF AmountToResubmit
  <2>5. updates[o].size \in Int /\ updates[o].filled \in Int
    BY <2>2, EntryAssumption DEF UpdateRecords
  <2> QED BY <1>1, <2>2, <2>3, <2>4, <2>5
<1>4. Stopping("client")' => calls'["client"].request.size = 0
  BY <1>1 DEF SharesInv, AmountsFit, Stopping
<1> QED BY <1>1, <1>3, <1>4 DEF AmountsFit, Stopping

LEMMA AmountsStayFit ==
    ASSUME IndInv, SharesInv, Kept, [Next]_vars
    PROVE  AmountsFit'
<1>1. CASE CheckPartialFills
  BY <1>1, PartialsChecked
<1>2. CASE ~CheckPartialFills
  <2>1. known' = known /\ todo' \subseteq todo
    BY <1>2, KnownStays
  <2>2. PICK client, partial : client = "client" /\ partial = "partial"
    OBVIOUS
  <2>3. Moves(client) /\ Moves(partial) /\ client \in Callers /\ partial \in Callers
    BY <2>2, CallsMove DEF SharesInv, Callers
  <2>4. \A o \in Issued : market'[o].size = market[o].size
    BY DEF Kept, Keeps
  <2>5. \A t \in todo : t.id \in Issued
    BY DEF IndInv, ResubmitsInv, PartialsInv, Entries
  <2>6. \A t \in todo' : t.amount > 0 => t.amount + known'[t.id] <= market'[t.id].size
    BY <2>1, <2>4, <2>5 DEF SharesInv, AmountsFit
  <2>7. Stopping(client)' => calls'[client].request.size = 0
    BY <2>2, <2>3 DEF SharesInv, AmountsFit, Moves, Quiet, Arrives, Asks, StartsToCancel, Stopping
  <2>8. ASSUME Stopping(partial)', calls'[partial].request.size > 0
        PROVE  calls'[partial].request.size + known'[calls'[partial].id]
                 <= market'[calls'[partial].id].size
    <3>1. CASE StartsToCancel(partial)
      <4>1. PICK t \in todo : calls'[partial].id = t.id /\ calls'[partial].request.size = t.amount
        BY <2>2, <3>1 DEF StartsToCancel
      <4>2. t.amount + known[t.id] <= market[t.id].size
        BY <2>8, <4>1 DEF SharesInv, AmountsFit
      <4> QED BY <2>1, <2>4, <2>5, <4>1, <4>2
    <3>2. CASE ~StartsToCancel(partial)
      <4>1. /\ Stopping(partial) /\ calls'[partial].request = calls[partial].request
            /\ calls'[partial].id = calls[partial].id
        BY <2>3, <2>8, <3>2 DEF Moves, Quiet, Arrives, Asks, Stopping
      <4>2. calls[partial].id \in Issued
        BY <2>3, <4>1 DEF Stopping, IndInv, CallsInv, WellFormedCall, Issued
      <4>3. calls[partial].request.size + known[calls[partial].id] <= market[calls[partial].id].size
        BY <2>2, <2>8, <4>1 DEF SharesInv, AmountsFit
      <4> QED BY <2>1, <2>4, <4>1, <4>2, <4>3
    <3> QED BY <3>1, <3>2
  <2>9. ASSUME calls'[partial].step = "posting"
        PROVE  Len(market') > 0
    <3>1. Len(market) \in Nat /\ Len(market') \in Nat /\ Len(market) <= Len(market')
      BY DEF Kept
    <3>2. CASE calls[partial].step = "posting"
      BY <2>2, <3>1, <3>2 DEF SharesInv, AmountsFit
    <3>3. CASE calls[partial].step /= "posting"
      <4>1. Asks(partial)
        BY <2>3, <2>9, <3>3 DEF Moves, Quiet, Arrives, StartsToCancel
      <4>2. calls[partial].step = "cancelled"
        BY <2>2, <4>1 DEF Asks
      <4>3. calls[partial].id \in Issued
        BY <2>3, <4>2 DEF IndInv, CallsInv, WellFormedCall, Issued
      <4>4. Issued = 1..Len(market)
        BY OrdersAreRecords DEF IndInv
      <4> QED BY <3>1, <4>3, <4>4
    <3> QED BY <3>2, <3>3
  <2> QED BY <2>2, <2>6, <2>7, <2>8, <2>9 DEF AmountsFit
<1> QED BY <1>1, <1>2


-----------------------------------------------------------------------------
(* Sizes                                                                   *)

LEMMA EntriesAreFinite ==
    ASSUME MarketInv
    PROVE  IsFiniteSet(Entries) /\ Entries \subseteq Ids
<1>1. Issued = 1..Len(market) /\ Len(market) \in Nat /\ Entries \subseteq Issued
      /\ Issued \subseteq Ids
  BY OrdersAreRecords
<1>2. IsFiniteSet(1..Len(market))
  BY <1>1, FS_Interval
<1> QED BY <1>1, <1>2, FS_Subset

LEMMA BookedType ==
    ASSUME MarketInv, ResubmitsInv, NEW o \in Entries
    PROVE  /\ market[o].filled \in Nat /\ market[o].size \in Nat /\ known[o] \in Nat
           /\ market[o].filled <= market[o].size
           /\ resubmits[o] \in Nat
           /\ Booked[o] = IF resubmits[o] > 0 THEN Smaller(market[o].filled, known[o])
                          ELSE market[o].size
           /\ Booked[o] \in Nat
<1>1. o \in Ids /\ o \in Issued /\ market[o] \in OrderRecords /\ WellFormedOrder(o)
      /\ market[o].kind = "entry"
  BY EntriesAreFinite, OrdersAreRecords DEF Entries
<1>2. market[o].filled \in Nat /\ market[o].size \in Nat /\ market[o].filled <= market[o].size
  BY <1>1, EntryAssumption DEF OrderRecords, WellFormedOrder
<1>3. known[o] \in 0..2 * EntrySize /\ resubmits[o] \in Nat
  BY <1>1 DEF ResubmitsInv, PartialsInv, ClosedInv
<1>4. known[o] \in Nat /\ resubmits[o] \in Nat
  BY <1>3, EntryAssumption
<1>5. Booked[o] = IF resubmits[o] > 0 THEN Smaller(market[o].filled, known[o]) ELSE market[o].size
  BY <1>1, <1>4 DEF Booked
<1>6. Booked[o] \in Nat
  BY <1>2, <1>4, <1>5 DEF Smaller
<1> QED BY <1>2, <1>4, <1>5, <1>6

LEMMA RequestedType ==
    ASSUME CallsInv, NEW c \in Callers
    PROVE  Requested(c) \in Nat
<1>1. calls[c].request.size \in 0..EntrySize
  BY DEF CallsInv, Calls, Requests
<1> QED BY <1>1, EntryAssumption DEF Requested

\* Only a fill changes what an order has executed, and only of an open one.
LEMMA ClosedStayFilled ==
    ASSUME MarketInv, CallsInv, StopsInv, [Next]_vars, NEW o \in Issued,
           market[o].status /= "open"
    PROVE  market'[o].filled = market[o].filled
<1>1. market[o] \in OrderRecords /\ o \in DOMAIN market
  BY OrdersAreRecords DEF Issued
<1>2. ASSUME NEW c \in Callers, CallStep(c)
      PROVE  market'[o].filled = market[o].filled
  <2>1. CASE CancelReaches(c)
    BY <1>1, <2>1 DEF CancelReaches, OrderRecords
  <2>2. CASE Answers(c)
    <3>1. Added(c)
      BY <2>2 DEF Answers, Accept, OkWithoutOrder, Added
    <3> QED BY <3>1, AddedKeeps
  <2> QED BY <1>2, <2>1, <2>2 DEF CallStep, Answers, Unreached, Refuse, Record, CancelFails,
             CancelAnswered, exchange
<1>3. ASSUME NEW x \in Ids, HandleStopTriggered(x) \/ HandleStopFilled(x) \/ HandleStopCancelled(x)
      PROVE  market'[o].filled = market[o].filled
  <2>1. PICK stage : market' = [market EXCEPT ![x].told = stage]
    BY <1>3 DEF HandleStopTriggered, HandleStopFilled, HandleStopCancelled, StopEvent
  <2> QED BY <1>1, <2>1 DEF OrderRecords
<1>4. ASSUME NEW x \in Ids, HandleFill(x)
      PROVE  market'[o].filled = market[o].filled
  BY <1>1, <1>4 DEF HandleFill, OrderRecords
<1>5. ASSUME NEW x \in Ids, StopMoves(x)
      PROVE  market'[o].filled = market[o].filled
  <2>1. PICK to : market' = [market EXCEPT ![x].status = to]
    BY <1>5 DEF StopMoves
  <2> QED BY <1>1, <2>1 DEF OrderRecords
<1>6. ASSUME NEW x \in Ids, Fill(x)
      PROVE  market'[o].filled = market[o].filled
  <2>1. x /= o
    BY <1>6 DEF Fill
  <2> QED BY <1>1, <1>6, <2>1 DEF Fill
<1>7. ASSUME NEW x \in Ids, CancelOrder(x) \/ HandleOrderUpdate(x) \/ RegisterStop(x) \/ PlaceStop(x)
      PROVE  market' = market
  BY <1>7 DEF CancelOrder, HandleOrderUpdate, RegisterStop, PlaceStop, exchange
<1>8. CASE SubmitOrder \/ CheckPartialFills \/ HandlePartialFill \/ UNCHANGED vars
  BY <1>8 DEF SubmitOrder, CheckPartialFills, HandlePartialFill, vars, exchange
<1>9. "client" \in Callers /\ "partial" \in Callers /\ "stop" \in Callers
  BY DEF Callers
<1> QED BY <1>2, <1>3, <1>4, <1>5, <1>6, <1>7, <1>8, <1>9 DEF Next, StopPlacementStep

\* Only an accepted entry adds to the entries.
LEMMA EntriesStay ==
    ASSUME MarketInv, CallsInv, StopsInv, [Next]_vars, ~Answers("client"), ~Answers("partial")
    PROVE  Entries' = Entries
<1>1. CASE Same \/ (\E o \in Issued : Changed(o))
  <2>1. Issued' = Issued /\ Kept
    BY <1>1, SameKeeps, ChangedKeeps
  <2> QED BY <2>1 DEF Kept, Keeps, Entries
<1>2. CASE Answers("stop") /\ Added("stop")
  <2>1. "stop" \in Callers
    BY DEF Callers
  <2>2. PICK n : n = Len(market) + 1
    OBVIOUS
  <2>3. /\ Issued' = Issued \union {n} /\ \A o \in Issued : market'[o] = market[o]
        /\ NewlyFiled(market'[n], calls["stop"].request)
    BY <1>2, <2>1, <2>2, AddedKeeps
  <2>4. calls["stop"].request.kind = "stop"
    BY <1>2, <2>1 DEF CallsInv, WellFormedCall, Added
  <2>5. market'[n].kind = "stop"
    BY <2>3, <2>4 DEF NewlyFiled
  <2> QED BY <2>3, <2>5 DEF Entries
<1>3. \A c \in Callers : Answers(c) => c = "stop"
  BY DEF Callers
<1> QED BY <1>1, <1>2, <1>3, MarketMoves


-----------------------------------------------------------------------------
(* The size asked for                                                      *)

\* Nothing is added to what is booked or requested.
LEMMA NoMoreBooked ==
    ASSUME MarketInv, ResubmitsInv, CallsInv, MarketInv', ResubmitsInv', CallsInv',
           Entries' = Entries, \A o \in Entries : Booked'[o] = Booked[o],
           Requested("client")' <= Requested("client"),
           Requested("partial")' <= Requested("partial"),
           Total(Booked, Entries) + Requested("client") + Requested("partial") <= EntrySize
    PROVE  (Total(Booked, Entries) + Requested("client") + Requested("partial") <= EntrySize)'
<1>1. PICK w, v, S : w = Booked /\ v = Booked' /\ S = Entries
  OBVIOUS
<1>2. IsFiniteSet(S) /\ \A o \in S : v[o] = w[o] /\ w[o] \in Int
  BY <1>1, EntriesAreFinite, BookedType
<1>3. Total(v, S) = Total(w, S) /\ Total(w, S) \in Int
  BY <1>2, TotalOfEqual, TotalType
<1>4. /\ Requested("client") \in Nat /\ Requested("partial") \in Nat
      /\ Requested("client")' \in Nat /\ Requested("partial")' \in Nat
  <2>1. "client" \in Callers /\ "partial" \in Callers
    BY DEF Callers
  <2>2. Requested("client") \in Nat /\ Requested("partial") \in Nat
    BY <2>1, RequestedType
  <2>3. \A c \in Callers : calls'[c].request.size \in 0..EntrySize
    BY DEF CallsInv, Calls, Requests
  <2>4. \A c \in Callers : Requested(c)' \in Nat
    BY <2>3, EntryAssumption DEF Requested
  <2> QED BY <2>1, <2>2, <2>4
<1>5. Total(Booked, Entries)' = Total(v, S)
  BY <1>1
<1> QED BY <1>1, <1>3, <1>4, <1>5, EntryAssumption


\* What is requested grows only when something is submitted.
LEMMA NoMoreRequested ==
    ASSUME CallsInv, CallsInv', NEW c \in Callers, Moves(c), ~Asks(c)
    PROVE  Requested(c)' <= Requested(c)
<1>1. CASE calls'[c].step = "posting"
  <2>1. calls[c].step = "posting" /\ calls'[c].request = calls[c].request
    BY <1>1 DEF Moves, Quiet, Arrives, StartsToCancel
  <2>2. calls[c].request.size \in 0..EntrySize
    BY DEF CallsInv, Calls, Requests
  <2> QED BY <1>1, <2>1, <2>2, EntryAssumption DEF Requested
<1>2. CASE calls'[c].step /= "posting"
  <2>1. Requested(c) \in Nat
    BY RequestedType
  <2> QED BY <1>2, <2>1 DEF Requested
<1> QED BY <1>1, <1>2

\* A count changes only with a submission of what is left.
LEMMA CountsStay ==
    ASSUME IndInv, SharesInv, [Next]_vars, ~Asks("partial")
    PROVE  resubmits' = resubmits
<1>1. ASSUME NEW c \in Callers, CancelAnswered(c)
      PROVE  resubmits' = resubmits
  <2>1. calls[c].step = "cancelled" /\ WellFormedCall(c, calls[c], market)
    BY <1>1 DEF CancelAnswered, IndInv, CallsInv
  <2>2. c = "client" => ~(calls[c].request.size > 0)
    BY <2>1 DEF SharesInv, AmountsFit, Stopping
  <2>3. c = "partial" => ~(calls[c].request.size > 0)
    <3>1. SUFFICES ASSUME c = "partial", calls[c].request.size > 0
                   PROVE  FALSE
      OBVIOUS
    <3>2. PICK posting : posting = Posting(calls[c].request) /\ posting.step = "posting"
      BY StepsOfCalls
    <3>3. calls' = [calls EXCEPT ![c] = posting]
      BY <1>1, <3>1, <3>2 DEF CancelAnswered
    <3>4. calls'[c].step = "posting"
      BY <3>2, <3>3, OneMoves DEF IndInv
    <3>5. Moves(c)
      BY CallsMove DEF SharesInv
    <3> QED BY <2>1, <3>1, <3>4, <3>5 DEF Moves, Quiet, Arrives, StartsToCancel
  <2>4. c /= "stop"
    BY <2>1 DEF WellFormedCall
  <2>5. ~(calls[c].request.size > 0)
    BY <2>2, <2>3, <2>4 DEF Callers
  <2> QED BY <1>1, <2>5 DEF CancelAnswered
<1> QED BY <1>1, ResubmitsStay

\* As long as counts stay, so does what the entries have booked.
LEMMA BookedStays ==
    ASSUME IndInv, SharesInv, [Next]_vars, Kept, IndInv', resubmits' = resubmits
    PROVE  \A o \in Entries : Booked'[o] = Booked[o]
<1> TAKE o \in Entries
<1>1. o \in Ids /\ o \in Issued /\ o \in Ids'
  BY EntriesAreFinite, OrdersAreRecords DEF IndInv, Ids
<1>2. Keeps(market[o], market'[o]) /\ market'[o].size = market[o].size
  BY <1>1 DEF Kept, Keeps
<1>3. resubmits[o] \in Nat
  BY BookedType DEF IndInv
<1>4. CASE ~(resubmits[o] > 0)
  BY <1>1, <1>2, <1>4 DEF Booked
<1>5. CASE resubmits[o] > 0
  <2>1. market[o].status /= "open" /\ o \notin pending
    BY <1>1, <1>5 DEF SharesInv, IdsAreFresh, IndInv, ResubmitsInv, ClosedInv
  <2>2. market'[o].filled = market[o].filled
    BY <1>1, <2>1, ClosedStayFilled DEF IndInv
  <2>3. known'[o] = known[o]
    <3>1. CASE CheckPartialFills
      BY <1>1, <2>1, <3>1 DEF CheckPartialFills, Partials
    <3>2. CASE ~CheckPartialFills
      BY <3>2, KnownStays
    <3> QED BY <3>1, <3>2
  <2>4. resubmits[o] > 0 /\ resubmits'[o] > 0
    BY <1>5
  <2> QED BY <1>1, <2>2, <2>3, <2>4 DEF Booked
<1> QED BY <1>4, <1>5

\* The order handle_partial_fill cancels has not been resubmitted.
LEMMA ResubmittedStaysOnce ==
    ASSUME IndInv, SharesInv, [Next]_vars
    PROVE  ResubmittedOnce'
<1> USE DEF IndInv
<1>1. PICK partial : partial = "partial"
  OBVIOUS
<1>2. partial \in Callers /\ Moves(partial) /\ resubmits \in [Ids -> Nat]
  BY <1>1, CallsMove DEF SharesInv, Callers, ResubmitsInv, ClosedInv
<1>3. CASE Asks(partial)
  <2>1. PICK o : o = calls[partial].id
    OBVIOUS
  <2>2. /\ CancelAnswered(partial) /\ calls[partial].step = "cancelled"
        /\ calls'[partial].step = "posting"
    BY <1>1, <1>3 DEF Asks
  <2>3. resubmits[o] = 0
    BY <1>1, <2>1, <2>2 DEF SharesInv, ResubmittedOnce, Stopping
  <2>4. resubmits' = resubmits \/ resubmits' = [resubmits EXCEPT ![o] = @ + 1]
    BY <2>1, <2>2 DEF CancelAnswered
  <2>5. \A a \in Ids : resubmits[a] \in Nat /\ resubmits[a] <= 1
    BY <1>2 DEF SharesInv, ResubmittedOnce
  <2>6. \A a \in Ids : resubmits'[a] <= 1
    BY <1>2, <2>3, <2>4, <2>5
  <2> QED BY <1>1, <2>2, <2>6 DEF ResubmittedOnce, Stopping, Ids
<1>4. CASE ~Asks(partial)
  <2>1. resubmits' = resubmits
    BY <1>1, <1>4, CountsStay
  <2>2. ASSUME Stopping(partial)'
        PROVE  resubmits[calls'[partial].id] = 0
    <3>1. CASE StartsToCancel(partial)
      <4>1. PICK o : o = calls'[partial].id
        OBVIOUS
      <4>2. o \in pending
        BY <1>1, <3>1, <4>1 DEF StartsToCancel
      <4>3. o \in Ids
        BY <4>2, OrdersAreRecords DEF UpdatesInv
      <4>4. resubmits[o] \in Nat /\ ~(resubmits[o] > 0)
        BY <1>2, <4>2, <4>3 DEF SharesInv, IdsAreFresh
      <4> QED BY <4>1, <4>4
    <3>2. CASE ~StartsToCancel(partial)
      <4>1. Stopping(partial) /\ calls'[partial].id = calls[partial].id
        BY <1>2, <1>4, <2>2, <3>2 DEF Moves, Quiet, Arrives, Stopping
      <4> QED BY <1>1, <4>1 DEF SharesInv, ResubmittedOnce
    <3> QED BY <3>1, <3>2
  <2> QED BY <1>1, <2>1, <2>2 DEF SharesInv, ResubmittedOnce, Ids
<1> QED BY <1>3, <1>4

LEMMA FirstSubmission ==
    ASSUME MarketInv, CallsInv, MarketInv', CallsInv', SharesInv, Asks("client")
    PROVE  BookedFits'
<1>1. /\ SubmitOrder /\ calls'["client"].request.size = EntrySize
      /\ calls'["client"].step = "posting" /\ calls'["partial"] = calls["partial"]
  BY DEF Asks, Others, Callers
<1>2. market = << >> /\ market' = market
  BY <1>1 DEF SubmitOrder, exchange
<1>3. Entries' = {}
  <2>1. DOMAIN market' = {}
    BY <1>2
  <2> QED BY <2>1 DEF Entries, Issued
<1>4. Requested("partial")' = 0
  <2>1. ~(Len(market) > 0)
    BY <1>2
  <2> QED BY <1>1, <2>1 DEF Requested, SharesInv, AmountsFit
<1>5. Requested("client")' = EntrySize
  BY <1>1 DEF Requested
<1>6. PICK v, S : v = Booked' /\ S = Entries'
  OBVIOUS
<1>7. Total(v, S) = 0
  <2>1. S = {} /\ IsFiniteSet({})
    BY <1>3, <1>6, FS_EmptySet
  <2> QED BY <2>1, TotalStep
<1>8. Total(Booked, Entries)' = 0
  BY <1>6, <1>7
<1> QED BY <1>4, <1>5, <1>8, EntryAssumption DEF BookedFits


LEMMA EntryAccepted ==
    ASSUME IndInv, SharesInv, [Next]_vars, Kept, IndInv',
           NEW c \in {"client", "partial"}, NEW d \in {"client", "partial"}, c /= d, Answers(c)
    PROVE  BookedFits'
<1> SUFFICES ASSUME ~lost'
             PROVE  (Total(Booked, Entries) + Requested("client") + Requested("partial") <= EntrySize)'
  BY DEF BookedFits
<1> USE DEF IndInv
<1>0. c \in Callers /\ d \in Callers
  BY DEF Callers
<1>1. PICK n, size : n = Len(market) + 1 /\ size = calls[c].request.size
  OBVIOUS
<1>2. /\ calls[c].step = "posting" /\ Added(c) /\ ~lost /\ resubmits' = resubmits
      /\ calls' = [calls EXCEPT ![c].step = "answered", ![c].id = Len(market) + 1]
  BY DEF Answers, Accept, OkWithoutOrder, Added, partialState
<1>3. calls'[c].step = "answered" /\ calls'[d] = calls[d]
  BY <1>0, <1>2 DEF CallsInv, Calls
<1>4. /\ Issued' = Issued \union {n} /\ n \notin Issued
      /\ \A o \in Issued : market'[o] = market[o]
      /\ NewlyFiled(market'[n], calls[c].request)
  BY <1>0, <1>1, <1>2, AddedKeeps
<1>5. market'[n].kind = "entry" /\ market'[n].size = size
  BY <1>0, <1>1, <1>2, <1>4 DEF NewlyFiled, CallsInv, WellFormedCall
<1>6. Entries' = Entries \union {n} /\ n \notin Entries
  BY <1>4, <1>5 DEF Entries
<1>7. n \in Ids /\ resubmits[n] = 0
  <2>1. n \in Ids
    BY <1>1, <1>2, OrdersAreRecords, RetriesAssumption DEF Added, Ids
  <2>2. resubmits[n] \in Nat /\ ~(resubmits[n] > 0)
    BY <1>6, <2>1 DEF ResubmitsInv, ClosedInv
  <2> QED BY <2>1, <2>2
<1>8. PICK w, v, S : w = Booked /\ v = Booked' /\ S = Entries
  OBVIOUS
<1>9. v[n] = size
  <2>1. Booked'[n] = size
    BY <1>2, <1>5, <1>7 DEF Booked, Ids
  <2> QED BY <1>8, <2>1
<1>10. size \in Nat /\ Requested(c) = size
  BY <1>0, <1>1, <1>2, RequestedType DEF Requested
<1>11. IsFiniteSet(S) /\ \A o \in S : v[o] = w[o] /\ w[o] \in Int
  BY <1>2, <1>8, EntriesAreFinite, BookedType, BookedStays
<1>12. Total(v, S \union {n}) = size + Total(w, S) /\ Total(w, S) \in Int
  <2>1. Total(v, S \union {n}) = v[n] + Total(v, S)
    <3>1. n \notin S /\ \A o \in S \union {n} : v[o] \in Int
      BY <1>6, <1>8, <1>9, <1>10, <1>11
    <3> QED BY <1>11, <3>1, TotalOfMore
  <2>2. Total(v, S) = Total(w, S)
    BY <1>11, TotalOfEqual
  <2>3. Total(w, S) \in Int
    BY <1>11, TotalType
  <2> QED BY <1>9, <2>1, <2>2, <2>3
<1>13. Total(Booked, Entries)' = Total(v, S \union {n})
  BY <1>6, <1>8
<1>14. Requested(c)' = 0 /\ Requested(d)' = Requested(d) /\ Requested(d) \in Nat
  BY <1>0, <1>3, RequestedType DEF Requested
<1>15. Total(w, S) + Requested(c) + Requested(d) <= EntrySize
  <2>1. Total(Booked, Entries) + Requested("client") + Requested("partial") <= EntrySize
    BY <1>2 DEF SharesInv, BookedFits
  <2>2. Total(w, S) + Requested("client") + Requested("partial") <= EntrySize
    BY <1>8, <2>1
  <2>3. Requested("client") \in Nat /\ Requested("partial") \in Nat
    BY RequestedType DEF Callers
  <2>4. (c = "client" /\ d = "partial") \/ (c = "partial" /\ d = "client")
    OBVIOUS
  <2> QED BY <1>12, <2>2, <2>3, <2>4
<1>16. Total(Booked, Entries)' + Requested(c)' + Requested(d)' <= EntrySize
  BY <1>10, <1>12, <1>13, <1>14, <1>15, EntryAssumption
<1>17. Total(Booked, Entries)' \in Int
  BY <1>10, <1>12, <1>13
<1>18. CASE c = "client"
  BY <1>16, <1>18
<1>19. CASE c = "partial"
  BY <1>14, <1>16, <1>17, <1>19
<1> QED BY <1>18, <1>19

\* What is left of an order is submitted: it has booked what it had executed.
LEMMA RestSubmitted ==
    ASSUME IndInv, SharesInv, [Next]_vars, Kept, IndInv', Asks("partial")
    PROVE  BookedFits'
<1> SUFFICES ASSUME ~lost'
             PROVE  (Total(Booked, Entries) + Requested("client") + Requested("partial") <= EntrySize)'
  BY DEF BookedFits
<1> USE DEF IndInv
<1>0. "partial" \in Callers /\ "client" \in Callers
  BY DEF Callers
<1>1. PICK o, size : o = calls["partial"].id /\ size = calls["partial"].request.size
  OBVIOUS
<1>2. /\ CancelAnswered("partial") /\ calls["partial"].step = "cancelled" /\ size > 0
      /\ calls'["partial"].step = "posting" /\ calls'["partial"].request.size = size
      /\ calls'["client"] = calls["client"]
  BY <1>0, <1>1 DEF Asks, Others
<1>3. /\ resubmits' = [resubmits EXCEPT ![o] = @ + 1] /\ market' = market /\ known' = known
      /\ ~lost
  BY <1>1, <1>2 DEF CancelAnswered, exchange
<1>4. Entries' = Entries /\ o \in Entries /\ o \in Ids
  <2>1. o \in Entries
    BY <1>0, <1>1, <1>2 DEF CallsInv, WellFormedCall, Entries, Issued
  <2> QED BY <1>3, <2>1, EntriesAreFinite DEF Entries, Issued
<1>5. resubmits[o] = 0 /\ resubmits'[o] = 1 /\ \A x \in Ids : x /= o => resubmits'[x] = resubmits[x]
  <2>1. resubmits[o] = 0
    BY <1>1, <1>2 DEF SharesInv, ResubmittedOnce, Stopping
  <2> QED BY <1>3, <1>4, <2>1 DEF ResubmitsInv, ClosedInv
<1>6. size + known[o] <= market[o].size
  BY <1>1, <1>2 DEF SharesInv, AmountsFit, Stopping
<1>7. size \in Nat
  BY <1>0, <1>1 , EntryAssumption DEF CallsInv, Calls, Requests
<1>8. PICK w, v, S : w = Booked /\ v = Booked' /\ S = Entries
  OBVIOUS
<1>9. \A x \in S : w[x] \in Int
  BY <1>8, BookedType
<1>10. \A x \in S : x /= o => v[x] = w[x]
  <2>1. \A x \in Entries : x /= o => Booked'[x] = Booked[x]
    BY <1>3, <1>5, EntriesAreFinite DEF Booked, Ids
  <2> QED BY <1>8, <2>1
<1>11. w[o] = market[o].size /\ v[o] = Smaller(market[o].filled, known[o])
  <2>1. Booked[o] = market[o].size
    BY <1>4, <1>5, BookedType
  <2>2. Booked'[o] = Smaller(market[o].filled, known[o])
    BY <1>3, <1>4, <1>5 DEF Booked, Ids
  <2> QED BY <1>8, <2>1, <2>2
<1>12. v[o] \in Int /\ v[o] + size <= w[o] /\ w[o] \in Int
  <2>1. market[o].filled \in Nat /\ market[o].size \in Nat /\ known[o] \in Nat
    BY <1>4, BookedType
  <2> QED BY <1>6, <1>7, <1>11, <2>1 DEF Smaller
<1>13. IsFiniteSet(S) /\ o \in S
  BY <1>4, <1>8, EntriesAreFinite
<1>14. \A x \in S : w[x] \in Int /\ v[x] \in Int
  BY <1>9, <1>10, <1>12
<1>15. Total(v, S) = Total(w, S) - w[o] + v[o]
  BY <1>10, <1>13, <1>14, TotalOfChanged
<1>16. Total(w, S) \in Int
  BY <1>9, <1>13, TotalType
<1>17. Total(Booked, Entries)' = Total(v, S)
  BY <1>4, <1>8
<1>18. Requested("partial")' = size /\ Requested("client")' = Requested("client")
       /\ Requested("partial") = 0 /\ Requested("client") \in Nat
  BY <1>0, <1>2, RequestedType DEF Requested
<1>19. Total(w, S) + Requested("client") + Requested("partial") <= EntrySize
  BY <1>3, <1>8 DEF SharesInv, BookedFits
<1> QED BY <1>7, <1>12, <1>15, <1>16, <1>17, <1>18, <1>19, EntryAssumption

LEMMA BookedStaysFit ==
    ASSUME IndInv, SharesInv, [Next]_vars, Kept, IndInv'
    PROVE  BookedFits'
<1>1. CASE Asks("client")
  BY <1>1, FirstSubmission DEF IndInv
<1>2. CASE Asks("partial")
  BY <1>2, RestSubmitted
<1>3. CASE Answers("client") \/ Answers("partial")
  BY <1>3, EntryAccepted
<1>4. CASE ~Asks("client") /\ ~Asks("partial") /\ ~Answers("client") /\ ~Answers("partial")
  <2>1. SUFFICES ASSUME ~lost'
                 PROVE  (Total(Booked, Entries) + Requested("client") + Requested("partial")
                           <= EntrySize)'
    BY DEF BookedFits
  <2>2. ~lost
    <3>1. CASE \E c \in Callers : Answers(c)
      BY <2>1, <3>1 DEF Answers, Accept, OkWithoutOrder
    <3> QED BY <2>1, <3>1, LostStays
  <2>3. Total(Booked, Entries) + Requested("client") + Requested("partial") <= EntrySize
    BY <2>2 DEF SharesInv, BookedFits
  <2>4. Entries' = Entries
    BY <1>4, EntriesStay DEF IndInv
  <2>5. \A o \in Entries : Booked'[o] = Booked[o]
    BY <1>4, CountsStay, BookedStays
  <2>6. /\ Requested("client")' <= Requested("client")
        /\ Requested("partial")' <= Requested("partial")
    <3>1. "client" \in Callers /\ "partial" \in Callers
      BY DEF Callers
    <3>2. \A c \in Callers : Moves(c)
      BY CallsMove DEF SharesInv
    <3> QED BY <1>4, <3>1, <3>2, NoMoreRequested DEF IndInv
  <2> QED BY <2>3, <2>4, <2>5, <2>6, NoMoreBooked DEF IndInv
<1> QED BY <1>1, <1>2, <1>3, <1>4

LEMMA SharesInductive == IndInv /\ SharesInv /\ [Next]_vars => SharesInv'
<1> SUFFICES ASSUME IndInv, SharesInv, [Next]_vars
             PROVE  SharesInv'
  OBVIOUS
<1>1. MarketInv' /\ Kept /\ IndInv'
  BY MarketHolds, Inductive DEF IndInv
<1> QED BY <1>1, IdsStayFresh, AmountsStayFit, ResubmittedStaysOnce, BookedStaysFit DEF SharesInv


LEMMA SharesEstablished == Init => SharesInv
<1> SUFFICES ASSUME Init
             PROVE  SharesInv
  OBVIOUS
<1>1. PICK idle : idle = Idle /\ idle.step = "idle"
  BY StepsOfCalls
<1>2. \A c \in Callers : calls[c].step = "idle"
  BY <1>1 DEF Init
<1>3. calls["client"].step = "idle" /\ calls["partial"].step = "idle"
  BY <1>2 DEF Callers
<1>4. IdsAreFresh /\ ResubmittedOnce
  <2>1. \A o \in Ids : resubmits[o] = 0
    BY DEF Init
  <2> QED BY <1>2, <1>3, <2>1 DEF Init, IdsAreFresh, ResubmittedOnce, Stopping
<1>5. AmountsFit
  BY <1>3 DEF Init, AmountsFit, Stopping
<1>6. Entries = {}
  <2>1. DOMAIN market = {}
    BY DEF Init
  <2> QED BY <2>1 DEF Entries, Issued
<1>7. Total(Booked, Entries) = 0
  <2>1. PICK w : w = Booked
    OBVIOUS
  <2>2. Total(w, {}) = 0
    BY FS_EmptySet, TotalStep
  <2> QED BY <1>6, <2>1, <2>2
<1>8. BookedFits
  BY <1>3, <1>7, EntryAssumption DEF BookedFits, Requested
<1> QED BY <1>4, <1>5, <1>8 DEF SharesInv

LEMMA AlwaysShares == Spec => [](IndInv /\ SharesInv)
<1>1. Init => IndInv /\ SharesInv
  BY Established, SharesEstablished
<1>2. IndInv /\ SharesInv /\ [Next]_vars => (IndInv /\ SharesInv)'
  BY Inductive, SharesInductive
<1> QED BY <1>1, <1>2, PTL DEF Spec

\* The sums of the property are totals.
LEMMA ExecutedIsTotal ==
    ASSUME IsFiniteSet(Entries), NEW w, w = [o \in Entries |-> market[o].filled]
    PROVE  MapThenSumSet(LAMBDA o : market[o].filled, Entries) = Total(w, Entries)
<1>1. PICK S : S = Entries
  OBVIOUS
<1> DEFINE iter[s \in SUBSET S] ==
             IF s = {} THEN 0
             ELSE market[CHOOSE x \in s : TRUE].filled + iter[s \ {CHOOSE x \in s : TRUE}]
           Step(sum, s) == IF s = {} THEN 0
                           ELSE market[CHOOSE x \in s : TRUE].filled
                                  + sum[s \ {CHOOSE x \in s : TRUE}]
<1>2. IsFiniteSet(S)
  BY <1>1
<1>3. ASSUME NEW sum, NEW s \in SUBSET S
      PROVE  Step(sum, s) = SumStep(w, sum, s)
  <2>1. CASE s = {}
    BY <2>1 DEF SumStep
  <2>2. CASE s /= {}
    <3>1. Pick(s) \in S
      BY <2>2, PickIsMember
    <3>2. w[Pick(s)] = market[Pick(s)].filled
      BY <1>1, <3>1
    <3> QED BY <2>2, <3>2 DEF SumStep, Pick
  <2> QED BY <2>1, <2>2
<1>4. \A sum : sum = [s \in SUBSET S |-> Step(sum, s)] <=> SumsUp(sum, w, S)
  <2> TAKE sum
  <2>1. [s \in SUBSET S |-> Step(sum, s)] = [s \in SUBSET S |-> SumStep(w, sum, s)]
    <3> HIDE DEF Step
    <3> QED BY <1>3
  <2> HIDE DEF Step
  <2> QED BY <2>1 DEF SumsUp
<1>5. \E sum : sum = [s \in SUBSET S |-> Step(sum, s)]
  <2> HIDE DEF Step
  <2> QED BY <1>2, <1>4, SumsExist
<1>6. iter = [s \in SUBSET S |-> Step(iter, s)]
  BY <1>5
<1>7. SumsUp(iter, w, S)
  <2> HIDE DEF Step, iter
  <2> QED BY <1>4, <1>6
<1>8. MapThenSumSet(LAMBDA o : market[o].filled, S) = iter[S]
  BY DEF MapThenSumSet, MapThenFoldSet
<1> HIDE DEF iter
<1> QED BY <1>1, <1>2, <1>7, <1>8, SumsAreTotals

LEMMA ExcessIsTotal ==
    ASSUME IsFiniteSet(Resubmitted), NEW w, w = [o \in Resubmitted |-> Excess(o)]
    PROVE  MapThenSumSet(Excess, Resubmitted) = Total(w, Resubmitted)
<1>1. PICK S : S = Resubmitted
  OBVIOUS
<1> DEFINE iter[s \in SUBSET S] ==
             IF s = {} THEN 0
             ELSE Excess(CHOOSE x \in s : TRUE) + iter[s \ {CHOOSE x \in s : TRUE}]
           Step(sum, s) == IF s = {} THEN 0
                           ELSE Excess(CHOOSE x \in s : TRUE)
                                  + sum[s \ {CHOOSE x \in s : TRUE}]
<1>2. IsFiniteSet(S)
  BY <1>1
<1>3. ASSUME NEW sum, NEW s \in SUBSET S
      PROVE  Step(sum, s) = SumStep(w, sum, s)
  <2>1. CASE s = {}
    BY <2>1 DEF SumStep
  <2>2. CASE s /= {}
    <3>1. Pick(s) \in S
      BY <2>2, PickIsMember
    <3>2. w[Pick(s)] = Excess(Pick(s))
      BY <1>1, <3>1
    <3> QED BY <2>2, <3>2 DEF SumStep, Pick
  <2> QED BY <2>1, <2>2
<1>4. \A sum : sum = [s \in SUBSET S |-> Step(sum, s)] <=> SumsUp(sum, w, S)
  <2> TAKE sum
  <2>1. [s \in SUBSET S |-> Step(sum, s)] = [s \in SUBSET S |-> SumStep(w, sum, s)]
    <3> HIDE DEF Step
    <3> QED BY <1>3
  <2> HIDE DEF Step
  <2> QED BY <2>1 DEF SumsUp
<1>5. \E sum : sum = [s \in SUBSET S |-> Step(sum, s)]
  <2> HIDE DEF Step
  <2> QED BY <1>2, <1>4, SumsExist
<1>6. iter = [s \in SUBSET S |-> Step(iter, s)]
  BY <1>5
<1>7. SumsUp(iter, w, S)
  <2> HIDE DEF Step, iter
  <2> QED BY <1>4, <1>6
<1>8. MapThenSumSet(Excess, S) = iter[S]
  BY DEF MapThenSumSet, MapThenFoldSet
<1> HIDE DEF iter
<1> QED BY <1>1, <1>2, <1>7, <1>8, SumsAreTotals

-----------------------------------------------------------------------------
(* What follows                                                            *)

(***************************************************************************)
(* Everything is filed under an id the exchange gave out or, when an "ok"  *)
(* named no order, under the client's own; no order is resubmitted more    *)
(* than once, although an "ok" may come to more than one cancel of it; and *)
(* the requests per submission and the submissions per stop stay within    *)
(* max_retries and stop_max_retries.                                       *)
(***************************************************************************)
THEOREM TypeCorrect == Spec => []TypeOK
<1>1. ASSUME IndInv, SharesInv
      PROVE  TypeOK
  <2> USE <1>1 DEF IndInv
  <2>1. Len(market) <= MaxOrders /\ Len(market) \in Nat /\ Issued = 1..Len(market)
    BY OrdersAreRecords DEF MarketInv
  <2>2. ASSUME NEW o \in Issued
        PROVE  /\ market[o].kind \in {"entry", "stop"}
               /\ market[o].filled \in 0..market[o].size
               /\ market[o].cascade \in BOOLEAN
               /\ market[o].told \in 0..market[o].size + 2
               /\ market[o].generation \in 0..MaxOrders
               /\ market[o].status \in {"open", "closed", "triggered", "filled", "canceled", "void"}
    <3>1. market[o] \in OrderRecords /\ WellFormedOrder(o)
      BY OrdersAreRecords
    <3>2. /\ market[o].kind \in {"entry", "stop"} /\ market[o].cascade \in BOOLEAN
          /\ market[o].status \in {"open", "closed", "triggered", "filled", "canceled", "void"}
          /\ market[o].filled \in Nat /\ market[o].told \in Nat /\ market[o].generation \in Nat
          /\ market[o].size \in 1..EntrySize
      BY <3>1 DEF OrderRecords, Kinds
    <3>3. market[o].filled <= market[o].size /\ market[o].told <= market[o].size + 2
      BY <3>1, <3>2, EntryAssumption DEF WellFormedOrder
    <3>4. market[o].generation <= MaxOrders
      BY <2>1, <3>1, <3>2, RetriesAssumption DEF WellFormedOrder
    <3> QED BY <3>2, <3>3, <3>4, EntryAssumption, RetriesAssumption
  <2>3. /\ DOMAIN updates \subseteq Issued /\ pending \subseteq DOMAIN updates
        /\ \A o \in DOMAIN updates : /\ updates[o].status \in Statuses
                                     /\ updates[o].filled \in Nat
                                     /\ updates[o].size = market[o].size
    BY DEF UpdatesInv, UpdateRecords
  <2>4. /\ resubmits \in [Ids -> 0..1] /\ known \in [Ids -> 0..2 * EntrySize]
        /\ accepted \subseteq Entries
        /\ \A t \in todo : t.id \in Entries /\ t.amount \in 0..EntrySize
    <3>1. resubmits \in [Ids -> Nat] /\ \A o \in Ids : resubmits[o] <= 1
      BY <1>1 DEF ResubmitsInv, ClosedInv, SharesInv, ResubmittedOnce
    <3>2. \A o \in Ids : resubmits[o] \in 0..1
      BY <3>1
    <3>3. resubmits \in [Ids -> 0..1]
      BY <3>1, <3>2
    <3> QED BY <3>3 DEF ResubmitsInv, PartialsInv
  <2>5. /\ configs \subseteq Entries /\ due \subseteq Entries /\ announced \subseteq Entries
        /\ DOMAIN stops \subseteq Entries
    BY AnnouncedAreKnown DEF StopsInv, RegistrationsInv
  <2>6. \A e \in DOMAIN stops : /\ stops[e].state \in StopStates
                                /\ stops[e].id \in {0} \union StopsOf(e)
                                /\ stops[e].attempts \in 1..StopRetries
    BY DEF StopsInv, WellFormedStop
  <2>7. ASSUME NEW c \in Callers
        PROVE  /\ calls[c].step \in Steps /\ calls[c].attempt \in 0..MaxRetries
               /\ calls[c].id \in {0} \union Issued
    <3>1. calls[c] \in Calls /\ WellFormedCall(c, calls[c], market)
      BY DEF CallsInv
    <3>2. calls[c].step \in Steps /\ calls[c].attempt \in 0..MaxRetries
      BY <3>1 DEF Calls
    <3>3. calls[c].id \in {0} \union Issued
      BY <3>1, <3>2 DEF WellFormedCall, Steps, Issued
    <3> QED BY <3>2, <3>3
  <2>8. lost \in BOOLEAN
    BY DEF NoSecondStop
  <2> QED BY <2>1, <2>2, <2>3, <2>4, <2>5, <2>6, <2>7, <2>8 DEF TypeOK
<1>2. IndInv /\ SharesInv => TypeOK
  BY <1>1
<1> QED BY <1>2, AlwaysShares, PTL

(***************************************************************************)
(* However fills, order updates and cancels interleave, an order in        *)
(* _pending_orders has a live status and something of it is left.          *)
(***************************************************************************)
THEOREM PendingOrdersAreLive == Spec => []PendingIsLive
<1>1. IndInv => PendingIsLive
  BY DEF IndInv, UpdatesInv
<1> QED BY <1>1, AlwaysIndInv, PTL

(***************************************************************************)
(* For any limits of the retries and any number of orders: as long as no   *)
(* answer to an accepted order was lost, an entry has at most one stop     *)
(* order, at the exchange or filed as if it were.                          *)
(***************************************************************************)
THEOREM AtMostOneStop == Spec => []OneStopPerEntry
<1>1. ASSUME IndInv, ~lost, NEW e \in Entries
      PROVE  Cardinality(StopsOf(e)) <= 1
  <2>1. \A a, b \in StopsOf(e) : a = b
    BY <1>1 DEF IndInv, NoSecondStop
  <2>2. CASE StopsOf(e) = {}
    BY <2>2, FS_EmptySet
  <2>3. CASE StopsOf(e) /= {}
    <3>1. PICK o : o \in StopsOf(e)
      BY <2>3
    <3>2. StopsOf(e) = {o}
      BY <2>1, <3>1
    <3>3. Cardinality({o}) = 1
      BY FS_Singleton
    <3> QED BY <3>2, <3>3
  <2> QED BY <2>2, <2>3
<1>2. IndInv => OneStopPerEntry
  BY <1>1 DEF OneStopPerEntry
<1> QED BY <1>2, AlwaysIndInv, PTL

(***************************************************************************)
(* get_unprotected_entries lists an entry if and only if the failure       *)
(* callback was called for it, whatever events of stops come in any order. *)
(***************************************************************************)
THEOREM UnprotectedAreAnnounced == Spec => []ListedIffAnnounced
<1>1. IndInv => ListedIffAnnounced
  BY DEF IndInv, StopsInv
<1> QED BY <1>1, AlwaysIndInv, PTL

(***************************************************************************)
(* E3, for any size of the entry, any min_fill_pct and any limits of the   *)
(* retries: as long as no answer was lost, the entry and its resubmissions *)
(* execute no more than was asked for, except for what was filled after a  *)
(* check_partial_fills had computed the remaining size.                    *)
(***************************************************************************)
THEOREM NeverMoreThanAskedFor == Spec => []ResubmissionsFillTheRest
<1>1. ASSUME IndInv, SharesInv, ~lost
      PROVE  MapThenSumSet(LAMBDA o : market[o].filled, Entries)
                <= EntrySize + MapThenSumSet(Excess, Resubmitted)
  <2>1. PICK filled, booked, excess, E, R :
          /\ filled = [o \in Entries |-> market[o].filled] /\ booked = Booked
          /\ excess = [o \in Resubmitted |-> Excess(o)]
          /\ E = Entries /\ R = Resubmitted
    OBVIOUS
  <2>2. IsFiniteSet(E) /\ R \subseteq E
    BY <1>1, <2>1, EntriesAreFinite DEF IndInv, Resubmitted
  <2>3. IsFiniteSet(R) /\ IsFiniteSet(E \ R)
    BY <2>2, FS_Subset
  <2>4. ASSUME NEW o \in E
        PROVE  /\ filled[o] \in Int /\ booked[o] \in Int
               /\ o \notin R => filled[o] <= booked[o]
               /\ o \in R => excess[o] \in Int /\ filled[o] <= booked[o] + excess[o]
    <3>1. /\ market[o].filled \in Nat /\ market[o].size \in Nat /\ known[o] \in Nat
          /\ market[o].filled <= market[o].size
          /\ Booked[o] \in Nat
          /\ Booked[o] = IF resubmits[o] > 0 THEN Smaller(market[o].filled, known[o])
                         ELSE market[o].size
      BY <1>1, <2>1, BookedType DEF IndInv
    <3>2. o \in R <=> resubmits[o] > 0
      BY <2>1, <3>1 DEF Resubmitted
    <3>3. filled[o] = market[o].filled /\ booked[o] = Booked[o]
      BY <2>1
    <3>4. o \in R => excess[o] = Excess(o)
      BY <2>1
    <3> QED BY <3>1, <3>2, <3>3, <3>4 DEF Excess, Smaller
  <2>5. PICK both : both = [o \in R |-> booked[o] + excess[o]]
    OBVIOUS
  <2>6. Total(both, R) = Total(booked, R) + Total(excess, R)
    <3>1. \A o \in R : booked[o] \in Int /\ excess[o] \in Int /\ both[o] = booked[o] + excess[o]
      BY <2>2, <2>4, <2>5
    <3> QED BY <2>3, <3>1, TotalOfSums
  <2>7. Total(filled, R) <= Total(both, R)
    <3>1. \A o \in R : filled[o] \in Int /\ both[o] \in Int /\ filled[o] <= both[o]
      BY <2>2, <2>4, <2>5
    <3> QED BY <2>3, <3>1, TotalOfLess
  <2>8. Total(filled, E \ R) <= Total(booked, E \ R)
    <3>1. \A o \in E \ R : filled[o] \in Int /\ booked[o] \in Int /\ filled[o] <= booked[o]
      BY <2>4
    <3> QED BY <2>3, <3>1, TotalOfLess
  <2>9. /\ Total(filled, E) = Total(filled, R) + Total(filled, E \ R)
        /\ Total(booked, E) = Total(booked, R) + Total(booked, E \ R)
    <3>1. R \intersect (E \ R) = {} /\ R \union (E \ R) = E
      BY <2>2
    <3>2. \A o \in E : filled[o] \in Int /\ booked[o] \in Int
      BY <2>4
    <3>3. PICK U : U = E \ R
      OBVIOUS
    <3>4. Total(filled, R \union U) = Total(filled, R) + Total(filled, U)
      BY <2>3, <3>1, <3>2, <3>3, TotalOfBoth
    <3>5. Total(booked, R \union U) = Total(booked, R) + Total(booked, U)
      BY <2>3, <3>1, <3>2, <3>3, TotalOfBoth
    <3> QED BY <3>1, <3>3, <3>4, <3>5
  <2>10. /\ Total(filled, R) \in Int /\ Total(filled, E \ R) \in Int /\ Total(booked, R) \in Int
         /\ Total(booked, E \ R) \in Int /\ Total(excess, R) \in Int
    <3>1. /\ \A o \in R : filled[o] \in Int /\ booked[o] \in Int /\ excess[o] \in Int
          /\ \A o \in E \ R : filled[o] \in Int /\ booked[o] \in Int
      BY <2>2, <2>4
    <3>2. Total(filled, R) \in Int /\ Total(booked, R) \in Int
      BY <2>3, <3>1, TotalType
    <3>3. Total(filled, E \ R) \in Int /\ Total(booked, E \ R) \in Int
      BY <2>3, <3>1, TotalType
    <3>4. Total(excess, R) \in Int
      BY <2>3, <3>1, TotalType
    <3> QED BY <3>2, <3>3, <3>4
  <2>11. Total(booked, E) <= EntrySize
    <3>1. Total(booked, E) + Requested("client") + Requested("partial") <= EntrySize
      BY <1>1, <2>1 DEF SharesInv, BookedFits
    <3>2. Requested("client") \in Nat /\ Requested("partial") \in Nat
      BY <1>1, RequestedType DEF IndInv, Callers
    <3> QED BY <2>9, <2>10, <3>1, <3>2, EntryAssumption
  <2>12. Total(filled, E) <= EntrySize + Total(excess, R)
    BY <2>6, <2>7, <2>8, <2>9, <2>10, <2>11, EntryAssumption
  <2>13. MapThenSumSet(LAMBDA o : market[o].filled, Entries) = Total(filled, E)
    BY <2>1, <2>2, ExecutedIsTotal
  <2>14. MapThenSumSet(Excess, Resubmitted) = Total(excess, R)
    BY <2>1, <2>3, ExcessIsTotal
  <2> QED BY <2>12, <2>13, <2>14
<1>2. IndInv /\ SharesInv => ResubmissionsFillTheRest
  BY <1>1 DEF ResubmissionsFillTheRest
<1> QED BY <1>2, AlwaysShares, PTL
=============================================================================
