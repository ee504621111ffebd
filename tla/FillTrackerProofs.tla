-------------------------- MODULE FillTrackerProofs --------------------------
(***************************************************************************)
(* Proofs about the fill tracker: what it keeps in memory, that it reports *)
(* each fill once, that it misses none of a tracked order, that filled     *)
(* sizes are what the fills say, and that it gives up only in silence.     *)
(***************************************************************************)
EXTENDS FillTracker, FiniteSums, SequenceTheorems

-----------------------------------------------------------------------------
(* The invariant                                                           *)

Ids == {FillId(f) : f \in Fills}
Ends == {"no", "fills", "update", "timeout", "untracked"}

\* The dictionaries with values in V.
Dictionaries(V) == UNION {[D -> V] : D \in SUBSET Orders}

Books ==
    [tracked_orders : Dictionaries(Entries),
     order_fills    : Dictionaries(Seq(Fills)),
     early          : [Orders -> Seq(Fills)],
     seen           : SUBSET Ids,
     reported       : [Fills -> 0..MaxReports],
     received       : SUBSET Fills,
     overflowed     : SUBSET Fills,
     overwritten    : SUBSET Orders,
     ended          : [Orders -> Ends]]

\* A book of what the exchange has executed.
WellFormed(b, past) ==
    /\ b \in Books
    /\ Tracked(b) \subseteq DOMAIN b.order_fills
    /\ \A o \in DOMAIN b.order_fills : b.order_fills[o] \in Seq(FillsOf(o, past))
    /\ \A o \in Orders : /\ b.early[o] \in Seq(FillsOf(o, b.received))
                         /\ Len(b.early[o]) <= MaxBuffered
    /\ b.received \subseteq past /\ b.overflowed \subseteq b.received
    /\ b.seen \subseteq {FillId(f) : f \in past}

\* A tracked order has not ended, and no fill came since it was flagged.
FlaggedInSilence(b) ==
    \A o \in Tracked(b) :
        /\ b.ended[o] = "no"
        /\ b.tracked_orders[o].flagged =>
               b.tracked_orders[o].checked = Len(b.order_fills[o])

FillsReceived(b, o) == ToSet(b.order_fills[o])

\* The fills of an order were seen, and add up to its filled size; those that
\* ended it are all there are.
FillsAddUp(b, past) ==
    \A o \in DOMAIN b.order_fills :
        /\ \A f \in FillsReceived(b, o) : FillId(f) \in b.seen
        /\ o \notin b.overwritten =>
             /\ o \in Tracked(b) =>
                  /\ b.tracked_orders[o].filled = Size(FillsReceived(b, o))
                  /\ Size(FillsReceived(b, o)) < OrderSize[o]
             /\ b.ended[o] = "fills" =>
                  /\ FillsReceived(b, o) = FillsOf(o, past)
                  /\ OrderSize[o] <= Size(FillsOf(o, past))

\* What was received is reported, if it is not waiting for its order to be
\* tracked or, while the buffer is replayed, among those that are left.
NothingMissed(b, left) ==
    /\ \A f \in Fills : FillId(f) \in b.seen => b.reported[f] > 0
    /\ \A f \in b.received \ b.overflowed :
          /\ f.order \in Tracked(b) => b.reported[f] > 0 \/ f \in left
          /\ f.order \notin DOMAIN b.order_fills => f \in ToSet(b.early[f.order])

\* No fill is reported twice, and the ids of the reported ones are known.
Once(b, ids) ==
    \A f \in Fills : b.reported[f] <= 1 /\ (b.reported[f] > 0 => FillId(f) \in ids)

ExchangeInv ==
    /\ executed \subseteq Fills /\ canceled \subseteq Orders
    /\ \A o \in Orders : Size(FillsOf(o, executed)) <= OrderSize[o]

PollInv ==
    /\ poll.step \in {"sleeping", "listing", "checking", "fetching"}
    /\ poll.ids \subseteq Orders /\ poll.open \subseteq Orders /\ poll.current \subseteq Orders
    /\ poll = [step |-> poll.step, ids |-> poll.ids, open |-> poll.open, current |-> poll.current]

\* A book that tells what happened, without faults that prevent it.
BookIsRight(b, past, left, complete, once) ==
    /\ WellFormed(b, past) /\ FlaggedInSilence(b) /\ FillsAddUp(b, past)
    /\ complete => NothingMissed(b, left)
    /\ once => Once(b, b.seen)

Complete == "midCrash" \notin faults
Durable == faults \intersect {"persist", "load"} = {}

StoreInv ==
    /\ up \in BOOLEAN /\ faults \in FaultModels
    /\ persisted \subseteq {FillId(f) : f \in executed}
    /\ Complete => \A f \in Fills : FillId(f) \in persisted => book.reported[f] > 0
    /\ Durable => Once(book, persisted) /\ (up => book.seen = persisted)
    /\ ~up => book = [EmptyBook EXCEPT !.reported = book.reported]

IndInv == ExchangeInv /\ PollInv /\ StoreInv /\ BookIsRight(book, executed, {}, Complete, up /\ Durable)

-----------------------------------------------------------------------------
(* Sizes and dictionaries                                                  *)

Weights == [f \in Fills |-> f.size]

LEMMA SizeIsTotal ==
    ASSUME NEW S \in SUBSET Fills
    PROVE  Size(S) = Total(Weights, S)
<1> DEFINE iter[s \in SUBSET S] ==
             IF s = {} THEN 0
             ELSE (CHOOSE f \in s : TRUE).size + iter[s \ {CHOOSE f \in s : TRUE}]
           Step(sum, s) == IF s = {} THEN 0
                           ELSE (CHOOSE f \in s : TRUE).size + sum[s \ {CHOOSE f \in s : TRUE}]
<1>1. IsFiniteSet(S)
  BY FillsAssumption, FS_Subset
<1>2. ASSUME NEW sum, NEW s \in SUBSET S
      PROVE  Step(sum, s) = SumStep(Weights, sum, s)
  <2>1. CASE s = {}
    BY <2>1 DEF SumStep
  <2>2. CASE s /= {}
    <3>1. Pick(s) \in Fills
      BY <2>2, PickIsMember
    <3>2. Weights[Pick(s)] = Pick(s).size
      BY <3>1 DEF Weights
    <3> QED BY <2>2, <3>2 DEF SumStep, Pick
  <2> QED BY <2>1, <2>2
<1>3. \A sum : sum = [s \in SUBSET S |-> Step(sum, s)] <=> SumsUp(sum, Weights, S)
  <2> TAKE sum
  <2>1. [s \in SUBSET S |-> Step(sum, s)] = [s \in SUBSET S |-> SumStep(Weights, sum, s)]
    <3> HIDE DEF Step
    <3> QED BY <1>2
  <2> HIDE DEF Step
  <2> QED BY <2>1 DEF SumsUp
<1>4. \E sum : sum = [s \in SUBSET S |-> Step(sum, s)]
  <2> HIDE DEF Step
  <2> QED BY <1>1, <1>3, SumsExist
<1>5. iter = [s \in SUBSET S |-> Step(iter, s)]
  BY <1>4
<1>6. SumsUp(iter, Weights, S)
  <2> HIDE DEF Step, iter
  <2> QED BY <1>3, <1>5
<1>7. Size(S) = iter[S]
  BY DEF Size, MapThenSumSet, MapThenFoldSet
<1> HIDE DEF iter
<1> QED BY <1>1, <1>6, <1>7, SumsAreTotals

LEMMA WeightsArePositive ==
    \A f \in Fills : Weights[f] \in Nat /\ Weights[f] > 0 /\ Weights[f] = f.size
BY FillsAssumption DEF Weights

LEMMA SizeType ==
    /\ Size({}) = 0
    /\ \A S \in SUBSET Fills : IsFiniteSet(S) /\ Size(S) \in Nat
<1>1. Size({}) = 0
  BY SizeIsTotal, TotalStep, FS_EmptySet
<1>2. ASSUME NEW S \in SUBSET Fills
      PROVE  IsFiniteSet(S) /\ Size(S) \in Nat
  <2>1. IsFiniteSet(S)
    BY FillsAssumption, FS_Subset
  <2>2. \A f \in S : Weights[f] \in Nat
    BY WeightsArePositive
  <2> QED BY <2>1, <2>2, SizeIsTotal, TotalIsNatural
<1> QED BY <1>1, <1>2

LEMMA SizeOfMore ==
    ASSUME NEW S \in SUBSET Fills, NEW f \in Fills, f \notin S
    PROVE  Size(S \union {f}) = Size(S) + f.size
<1>1. IsFiniteSet(S) /\ \A g \in S \union {f} : Weights[g] \in Int
  BY SizeType, WeightsArePositive
<1>2. Total(Weights, S \union {f}) = Weights[f] + Total(Weights, S)
  BY <1>1, TotalOfMore
<1>3. S \union {f} \in SUBSET Fills
  OBVIOUS
<1>4. Size(S \union {f}) = f.size + Size(S)
  BY <1>2, <1>3, SizeIsTotal, WeightsArePositive
<1>5. Size(S) \in Nat /\ f.size \in Nat
  BY SizeType, FillsAssumption
<1> QED BY <1>4, <1>5

LEMMA SizeOfPart ==
    ASSUME NEW T \in SUBSET Fills, NEW S \in SUBSET T
    PROVE  Size(S) <= Size(T) /\ (S /= T => Size(S) < Size(T))
<1>1. IsFiniteSet(T) /\ \A f \in T : Weights[f] \in Nat /\ Weights[f] > 0
  BY SizeType, WeightsArePositive
<1>2. Total(Weights, S) <= Total(Weights, T) /\ (S /= T => Total(Weights, S) < Total(Weights, T))
  BY <1>1, TotalOfPart
<1>3. S \in SUBSET Fills
  OBVIOUS
<1> QED BY <1>2, <1>3, SizeIsTotal

LEMMA DictionaryType ==
    ASSUME NEW V, NEW d
    PROVE  d \in Dictionaries(V) <=> DOMAIN d \subseteq Orders /\ d \in [DOMAIN d -> V]
BY DEF Dictionaries

LEMMA DictionaryChanges ==
    ASSUME NEW V, NEW d \in Dictionaries(V)
    PROVE  /\ \A o \in DOMAIN d : \A v \in V :
                /\ [d EXCEPT ![o] = v] \in Dictionaries(V)
                /\ DOMAIN [d EXCEPT ![o] = v] = DOMAIN d
           /\ \A o \in Orders : \A v \in V : With(d, o, v) \in Dictionaries(V)
           /\ \A D \in SUBSET DOMAIN d : [o \in D |-> d[o]] \in Dictionaries(V)
<1>1. DOMAIN d \subseteq Orders /\ d \in [DOMAIN d -> V]
  BY DictionaryType
<1>2. ASSUME NEW o \in DOMAIN d, NEW v \in V
      PROVE  [d EXCEPT ![o] = v] \in Dictionaries(V) /\ DOMAIN [d EXCEPT ![o] = v] = DOMAIN d
  <2>1. [d EXCEPT ![o] = v] \in [DOMAIN d -> V]
    BY <1>1
  <2> QED BY <1>1, <2>1 DEF Dictionaries
<1>3. ASSUME NEW o \in Orders, NEW v \in V
      PROVE  With(d, o, v) \in Dictionaries(V)
  <2>1. With(d, o, v) \in [DOMAIN d \union {o} -> V]
    BY <1>1 DEF With
  <2> QED BY <1>1, <2>1 DEF Dictionaries
<1>4. ASSUME NEW D \in SUBSET DOMAIN d
      PROVE  [o \in D |-> d[o]] \in Dictionaries(V)
  <2>1. [o \in D |-> d[o]] \in [D -> V]
    BY <1>1
  <2> QED BY <1>1, <2>1 DEF Dictionaries
<1> QED BY <1>2, <1>3, <1>4


LEMMA QueuesOfMore ==
    ASSUME NEW S, NEW T, S \subseteq T, NEW q \in Seq(S)
    PROVE  q \in Seq(T) /\ ToSet(q) \subseteq S
<1>1. q \in [1..Len(q) -> S] /\ Len(q) \in Nat
  OBVIOUS
<1>2. q \in [1..Len(q) -> T]
  BY <1>1
<1>3. ToSet(q) \subseteq S
  BY <1>1 DEF ToSet
<1> QED BY <1>1, <1>2, <1>3

\* A queue that grows at its end, and may lose its head.
LEMMA Queues ==
    ASSUME NEW S, NEW q \in Seq(S), NEW x \in S
    PROVE  /\ Append(q, x) \in Seq(S) /\ Len(Append(q, x)) = Len(q) + 1
           /\ ToSet(Append(q, x)) = ToSet(q) \union {x}
           /\ q /= <<>> => /\ Head(q) \in S /\ Append(Tail(q), x) \in Seq(S)
                           /\ Len(Append(Tail(q), x)) = Len(q)
                           /\ ToSet(q) \subseteq ToSet(Append(Tail(q), x)) \union {Head(q)}
                           /\ x \in ToSet(Append(Tail(q), x))
<1>1. /\ Append(q, x) \in Seq(S) /\ Len(Append(q, x)) = Len(q) + 1
      /\ \A i \in 1..Len(q) : Append(q, x)[i] = q[i]
      /\ Append(q, x)[Len(q) + 1] = x
  OBVIOUS
<1>2. ToSet(Append(q, x)) = ToSet(q) \union {x}
  <2>1. DOMAIN Append(q, x) = 1..(Len(q) + 1) /\ DOMAIN q = 1..Len(q) /\ Len(q) \in Nat
    BY <1>1
  <2>2. ToSet(Append(q, x)) \subseteq ToSet(q) \union {x}
    BY <1>1, <2>1 DEF ToSet
  <2>3. ToSet(q) \subseteq ToSet(Append(q, x)) /\ x \in ToSet(Append(q, x))
    BY <1>1, <2>1 DEF ToSet
  <2> QED BY <2>2, <2>3
<1>3. ASSUME q /= <<>>
      PROVE  /\ Head(q) \in S /\ Append(Tail(q), x) \in Seq(S)
             /\ Len(Append(Tail(q), x)) = Len(q)
             /\ ToSet(q) \subseteq ToSet(Append(Tail(q), x)) \union {Head(q)}
             /\ x \in ToSet(Append(Tail(q), x))
  <2>1. /\ Tail(q) \in Seq(S) /\ Len(Tail(q)) = Len(q) - 1 /\ Len(q) \in Nat /\ Len(q) > 0
        /\ Head(q) = q[1] /\ \A i \in 1..(Len(q) - 1) : Tail(q)[i] = q[i + 1]
    BY <1>3
  <2>2. PICK t \in Seq(S) : t = Tail(q)
    BY <2>1
  <2>3. /\ Append(t, x) \in Seq(S) /\ Len(Append(t, x)) = Len(t) + 1
        /\ \A i \in 1..Len(t) : Append(t, x)[i] = t[i]
        /\ Append(t, x)[Len(t) + 1] = x
    OBVIOUS
  <2>4. Head(q) \in S
    BY <2>1
  <2>5. DOMAIN Append(t, x) = 1..Len(q) /\ DOMAIN q = 1..Len(q)
    BY <2>1, <2>2, <2>3
  <2>6. \A i \in 2..Len(q) : q[i] = Append(t, x)[i - 1] /\ i - 1 \in 1..Len(q)
    BY <2>1, <2>2, <2>3
  <2>7. ToSet(q) \subseteq ToSet(Append(t, x)) \union {Head(q)}
    <3>1. ASSUME NEW i \in 1..Len(q)
          PROVE  q[i] \in ToSet(Append(t, x)) \union {Head(q)}
      <4>1. i = 1 \/ i \in 2..Len(q)
        BY <2>1
      <4> QED BY <4>1, <2>1, <2>5, <2>6 DEF ToSet
    <3> QED BY <3>1, <2>5 DEF ToSet
  <2>8. x \in ToSet(Append(t, x))
    <3>1. Len(t) + 1 \in DOMAIN Append(t, x)
      BY <2>1, <2>2, <2>5
    <3> QED BY <3>1, <2>3 DEF ToSet
  <2> QED BY <2>1, <2>2, <2>3, <2>4, <2>7, <2>8
<1> QED BY <1>1, <1>2, <1>3

-----------------------------------------------------------------------------
(* What processing a fill does to a book                                   *)

\* All but what is named stays.
SameOrders(b, c) == c.tracked_orders = b.tracked_orders /\ c.ended = b.ended
SameReports(b, c) == c.order_fills = b.order_fills /\ c.seen = b.seen /\ c.reported = b.reported
SameBuffers(b, c) == c.early = b.early /\ c.overflowed = b.overflowed

\* An order that is tracked no more.
NoLongerTracked(b, c, o, why) ==
    /\ c.tracked_orders = [x \in Tracked(b) \ {o} |-> b.tracked_orders[x]]
    /\ c.ended = [b.ended EXCEPT ![o] = why]

Reports(b, c, f) ==
    /\ f.order \in Tracked(b) /\ FillId(f) \notin b.seen
    /\ c.seen = b.seen \union {FillId(f)}
    /\ c.order_fills = [b.order_fills EXCEPT ![f.order] = Append(b.order_fills[f.order], f)]
    /\ c.reported = [b.reported EXCEPT ![f] = More(b.reported[f])]
    /\ SameBuffers(b, c)
    /\ LET e == b.tracked_orders[f.order] IN
       \/ /\ OrderSize[f.order] <= e.filled + f.size
          /\ NoLongerTracked(b, c, f.order, "fills")
       \/ /\ ~(OrderSize[f.order] <= e.filled + f.size)
          /\ c.tracked_orders = [b.tracked_orders EXCEPT ![f.order] = PartlyFilled(e, f)]
          /\ c.ended = b.ended

Buffers(b, c, f) ==
    /\ f.order \notin Tracked(b)
    /\ SameOrders(b, c) /\ SameReports(b, c)
    /\ LET queue == b.early[f.order] IN
       \/ /\ Len(queue) < MaxBuffered
          /\ c.early = [b.early EXCEPT ![f.order] = Append(queue, f)]
          /\ c.overflowed = b.overflowed
       \/ /\ ~(Len(queue) < MaxBuffered)
          /\ c.early = [b.early EXCEPT ![f.order] = Append(Tail(queue), f)]
          /\ c.overflowed = b.overflowed \union {Head(queue)}

Ignores(b, c) == SameOrders(b, c) /\ SameReports(b, c) /\ SameBuffers(b, c)

Processes(b, c, f, from_buffer) ==
    /\ c \in Books
    /\ c.received = b.received \union {f} /\ c.overwritten = b.overwritten
    /\ \/ /\ f.order \in Tracked(b) => FillId(f) \in b.seen
          /\ f.order \notin Tracked(b) => from_buffer
          /\ Ignores(b, c)
       \/ ~from_buffer /\ Buffers(b, c, f)
       \/ Reports(b, c, f)

LEMMA PartlyFilledType ==
    ASSUME NEW e \in Entries, NEW f \in Fills
    PROVE  /\ PartlyFilled(e, f) \in Entries
           /\ PartlyFilled(e, f).filled = e.filled + f.size
           /\ PartlyFilled(e, f).flagged = FALSE
<1>1. e.filled \in Nat /\ f.size \in Nat
  BY FillsAssumption DEF Entries
<1>2. PICK n \in Nat : n = e.filled + f.size
  BY <1>1
<1>3. PartlyFilled(e, f) = [e EXCEPT !.filled = n, !.status = "PARTIAL", !.flagged = FALSE]
  BY <1>2 DEF PartlyFilled, Entries
<1> QED BY <1>2, <1>3 DEF Entries, Statuses

LEMMA ProcessShape ==
    ASSUME NEW b \in Books, Tracked(b) \subseteq DOMAIN b.order_fills,
           NEW f \in Fills, NEW from_buffer \in BOOLEAN,
           NEW c, c = Process(b, f, from_buffer)
    PROVE  Processes(b, c, f, from_buffer)
<1> USE DEF Processes
<1> DEFINE o == f.order
           h == [b EXCEPT !.received = b.received \union {f}]
<1>1. /\ h \in Books /\ Tracked(h) = Tracked(b) /\ Ignores(b, h)
      /\ h.received = b.received \union {f} /\ h.overwritten = b.overwritten
  BY DEF Books, Tracked, Ignores, SameOrders, SameReports, SameBuffers
<1>2. /\ c = IF o \in Tracked(b) THEN Apply(h, f) ELSE IF from_buffer THEN h ELSE Buffer(h, f)
  BY DEF Process
<1>3. o \in Orders /\ f.size \in Nat /\ FillId(f) \in Ids
  BY FillsAssumption DEF Ids
<1>4. CASE o \notin Tracked(b) /\ from_buffer
  BY <1>1, <1>2, <1>4
<1>5. CASE o \notin Tracked(b) /\ ~from_buffer
  <2> DEFINE queue == b.early[o]
  <2>1. queue \in Seq(Fills) /\ h.early[o] = queue
    BY <1>1, <1>3 DEF Books, Ignores, SameBuffers
  <2>2. CASE Len(queue) < MaxBuffered
    <3>1. PICK q \in Seq(Fills) : q = Append(queue, f)
      BY <2>1, Queues
    <3> HIDE DEF queue, h
    <3>2. PICK buffers \in [Orders -> Seq(Fills)] : buffers = [h.early EXCEPT ![o] = q]
      BY <1>1 DEF Books
    <3>3. c = [h EXCEPT !.early = buffers]
      BY <1>1, <1>2, <1>5, <2>1, <2>2, <3>1, <3>2 DEF Buffer, Books
    <3>4. c \in Books
      BY <1>1, <3>3 DEF Books
    <3>5. /\ c.early = [b.early EXCEPT ![o] = q] /\ c.overflowed = b.overflowed
          /\ SameOrders(b, c) /\ SameReports(b, c)
          /\ c.received = h.received /\ c.overwritten = h.overwritten
      BY <1>1, <3>2, <3>3 DEF Books, Ignores, SameOrders, SameReports, SameBuffers
    <3> QED BY <1>1, <1>5, <2>2, <3>1, <3>4, <3>5 DEF Buffers, queue
  <2>3. CASE ~(Len(queue) < MaxBuffered)
    <3>1. queue /= <<>>
      BY <2>1, <2>3, BufferAssumption
    <3>2. PICK q \in Seq(Fills) : q = Append(Tail(queue), f)
      BY <2>1, <3>1, Queues
    <3>3. PICK dropped \in SUBSET Fills : dropped = b.overflowed \union {Head(queue)}
      <4>1. Head(queue) \in Fills /\ b.overflowed \in SUBSET Fills
        BY <2>1, <3>1, Queues DEF Books
      <4> HIDE DEF queue
      <4> QED BY <4>1
    <3> HIDE DEF queue, h
    <3>4. PICK buffers \in [Orders -> Seq(Fills)] : buffers = [h.early EXCEPT ![o] = q]
      BY <1>1 DEF Books
    <3>5. c = [h EXCEPT !.early = buffers, !.overflowed = dropped]
      BY <1>1, <1>2, <1>5, <2>1, <2>3, <3>2, <3>3, <3>4 DEF Buffer, Books, Ignores, SameBuffers
    <3>6. c \in Books
      BY <1>1, <3>5 DEF Books
    <3>7. /\ c.early = [b.early EXCEPT ![o] = q] /\ c.overflowed = dropped
          /\ SameOrders(b, c) /\ SameReports(b, c)
          /\ c.received = h.received /\ c.overwritten = h.overwritten
      BY <1>1, <3>5, <3>4 DEF Books, Ignores, SameOrders, SameReports, SameBuffers
    <3> QED BY <1>1, <1>5, <2>3, <3>2, <3>3, <3>6, <3>7 DEF Buffers, queue
  <2> QED BY <2>2, <2>3
<1>6. CASE o \in Tracked(b) /\ FillId(f) \in b.seen
  <2>1. c = h
    BY <1>1, <1>2, <1>6 DEF Apply, IsDuplicate, Ignores, SameReports
  <2> QED BY <1>1, <1>6, <2>1
<1>7. CASE o \in Tracked(b) /\ FillId(f) \notin b.seen
  <2> DEFINE e == b.tracked_orders[o]
  <2>1. e \in Entries /\ o \in DOMAIN b.order_fills /\ b.order_fills[o] \in Seq(Fills)
    BY <1>7, DictionaryType DEF Books, Tracked
  <2>2. PICK ids \in SUBSET Ids : ids = b.seen \union {FillId(f)}
    BY <1>3 DEF Books
  <2>3. PICK fills \in Dictionaries(Seq(Fills)) :
          fills = [b.order_fills EXCEPT ![o] = Append(b.order_fills[o], f)]
    <3>1. Append(b.order_fills[o], f) \in Seq(Fills)
      BY <2>1
    <3> QED BY <2>1, <3>1, DictionaryChanges DEF Books
  <2>4. PICK reports \in [Fills -> 0..MaxReports] :
          reports = [b.reported EXCEPT ![f] = More(b.reported[f])]
    <3>1. b.reported[f] \in 0..MaxReports
      BY DEF Books
    <3>2. More(b.reported[f]) \in 0..MaxReports
      BY <3>1 DEF More, MaxReports
    <3> QED BY <3>2 DEF Books
  <2> DEFINE r == [h EXCEPT !.seen = ids, !.order_fills = fills, !.reported = reports]
  <2>5. /\ r \in Books /\ SameBuffers(b, r) /\ r.received = h.received
        /\ r.overwritten = h.overwritten /\ r.seen = ids /\ r.order_fills = fills
        /\ r.reported = reports /\ SameOrders(b, r)
    <3> HIDE DEF h
    <3> QED BY <1>1 DEF Books, Ignores, SameOrders, SameBuffers
  <2>6. c = IF IsFilled(o, e.filled + f.size) THEN Stop(r, o, "fills")
            ELSE [r EXCEPT !.tracked_orders[o] = PartlyFilled(e, f)]
    <3>1. /\ h.tracked_orders = b.tracked_orders /\ h.seen = b.seen
          /\ h.order_fills = b.order_fills /\ h.reported = b.reported
      BY <1>1 DEF Ignores, SameOrders, SameReports
    <3>2. r = [h EXCEPT !.seen = @ \union {FillId(f)},
                        !.order_fills[o] = Append(@, f),
                        !.reported[f] = More(@)]
      <4> HIDE DEF h
      <4> QED BY <1>1, <2>2, <2>3, <2>4, <3>1 DEF Books
    <3> HIDE DEF h, r
    <3> QED BY <1>2, <1>7, <3>1, <3>2 DEF Apply, IsDuplicate
  <2>7. e.filled \in Nat /\ OrderSize[o] \in Nat
    BY <1>3, <2>1, SizeAssumption DEF Entries
  <2>8. CASE OrderSize[o] <= e.filled + f.size
    <3>1. PICK rest \in Dictionaries(Entries) :
            rest = [x \in Tracked(b) \ {o} |-> b.tracked_orders[x]]
      BY DictionaryChanges DEF Books, Tracked
    <3>2. PICK ends \in [Orders -> Ends] : ends = [b.ended EXCEPT ![o] = "fills"]
      BY DEF Books, Ends
    <3>3. c = [r EXCEPT !.tracked_orders = rest, !.ended = ends]
      <4>1. c = Stop(r, o, "fills")
        BY <1>3, <2>6, <2>7, <2>8 DEF IsFilled
      <4> HIDE DEF r
      <4> QED BY <2>5, <3>1, <3>2, <4>1 DEF Stop, SameOrders, Tracked, Books
    <3> HIDE DEF r, e, h
    <3>4. c \in Books /\ SameBuffers(b, c) /\ c.tracked_orders = rest /\ c.ended = ends
      BY <2>5, <3>3 DEF Books, SameBuffers
    <3>5. /\ c.seen = ids /\ c.order_fills = fills /\ c.reported = reports
          /\ c.received = h.received /\ c.overwritten = h.overwritten
      BY <2>5, <3>3 DEF Books
    <3> QED BY <1>1, <1>7, <2>2, <2>3, <2>4, <2>8, <3>1, <3>2, <3>4, <3>5 DEF Reports, NoLongerTracked, e
  <2>9. CASE ~(OrderSize[o] <= e.filled + f.size)
    <3>1. PICK new \in Entries : new = PartlyFilled(e, f)
      BY <2>1, PartlyFilledType
    <3>2. PICK entries \in Dictionaries(Entries) : entries = [b.tracked_orders EXCEPT ![o] = new]
      BY <1>7, DictionaryChanges DEF Books, Tracked
    <3>3. c = [r EXCEPT !.tracked_orders = entries]
      <4>1. c = [r EXCEPT !.tracked_orders[o] = new]
        BY <1>3, <2>6, <2>7, <2>9, <3>1 DEF IsFilled
      <4> HIDE DEF r
      <4> QED BY <2>5, <3>2, <4>1 DEF SameOrders, Books
    <3> HIDE DEF r, e, h
    <3>4. c \in Books /\ SameBuffers(b, c) /\ c.tracked_orders = entries /\ c.ended = b.ended
      BY <2>5, <3>3 DEF Books, SameBuffers, SameOrders
    <3>5. /\ c.seen = ids /\ c.order_fills = fills /\ c.reported = reports
          /\ c.received = h.received /\ c.overwritten = h.overwritten
      BY <2>5, <3>3 DEF Books
    <3> QED BY <1>1, <1>7, <2>2, <2>3, <2>4, <2>9, <3>1, <3>2, <3>4, <3>5 DEF Reports, e
  <2> QED BY <2>8, <2>9
<1> QED BY <1>4, <1>5, <1>6, <1>7


\* What a book has of each order.
LEMMA BookTypes ==
    ASSUME NEW past \in SUBSET Fills, NEW b, WellFormed(b, past)
    PROVE  /\ b \in Books
           /\ \A o \in Tracked(b) : /\ o \in Orders /\ o \in DOMAIN b.order_fills
                                    /\ b.tracked_orders[o] \in Entries
           /\ DOMAIN b.order_fills \subseteq Orders
           /\ \A o \in DOMAIN b.order_fills : b.order_fills[o] \in Seq(FillsOf(o, past))
           /\ b.ended \in [Orders -> Ends] /\ b.reported \in [Fills -> 0..MaxReports]
           /\ b.early \in [Orders -> Seq(Fills)]
           /\ b.received \subseteq Fills
BY DictionaryType DEF WellFormed, Books, Tracked

\* A book that processing has led to.
Follows(b, c) ==
    /\ b.seen \subseteq c.seen
    /\ DOMAIN c.order_fills = DOMAIN b.order_fills
    /\ Tracked(c) \subseteq Tracked(b)
    /\ \A o \in Orders : c.ended[o] \in {b.ended[o], "fills"}
    /\ \A f \in Fills : b.reported[f] > 0 => c.reported[f] > 0

LEMMA ReportsCount ==
    ASSUME NEW n \in 0..MaxReports
    PROVE  More(n) > 0 /\ (n = 0 => More(n) = 1)
BY DEF More, MaxReports

LEMMA ProcessKeepsForm ==
    ASSUME NEW past \in SUBSET Fills, NEW b, WellFormed(b, past), NEW f \in past,
           NEW from_buffer, NEW c, Processes(b, c, f, from_buffer)
    PROVE  WellFormed(c, past) /\ Follows(b, c)
<1> USE BookTypes DEF Follows
<1>1. /\ f \in Fills /\ f.order \in Orders /\ f \in FillsOf(f.order, past)
      /\ FillId(f) \in {FillId(g) : g \in past}
  BY FillsAssumption DEF FillsOf
<1>2. c \in Books /\ c.received = b.received \union {f} /\ c.received \subseteq past
  BY <1>1 DEF Processes, WellFormed
<1>3. \A o \in Orders : b.early[o] \in Seq(FillsOf(o, c.received)) /\ Len(b.early[o]) <= MaxBuffered
  <2>1. ASSUME NEW o \in Orders
        PROVE  b.early[o] \in Seq(FillsOf(o, c.received))
    <3>1. FillsOf(o, b.received) \subseteq FillsOf(o, c.received)
      BY <1>2 DEF FillsOf
    <3>2. b.early[o] \in Seq(FillsOf(o, b.received))
      BY DEF WellFormed
    <3> QED BY <3>1, <3>2, QueuesOfMore
  <2> QED BY <2>1 DEF WellFormed
<1>4. CASE Ignores(b, c)
  <2>1. WellFormed(c, past)
    BY <1>2, <1>3, <1>4 DEF WellFormed, Tracked, Ignores, SameOrders, SameReports, SameBuffers
  <2> QED BY <1>4, <2>1 DEF Tracked, Ignores, SameOrders, SameReports
<1>5. CASE Buffers(b, c, f)
  <2> DEFINE queue == b.early[f.order]
             mine == FillsOf(f.order, c.received)
  <2>1. queue \in Seq(mine) /\ Len(queue) <= MaxBuffered /\ f \in mine /\ mine \subseteq c.received
    BY <1>1, <1>2, <1>3 DEF FillsOf
  <2>2. \A o \in Orders : o /= f.order => c.early[o] = b.early[o]
    BY <1>5 DEF Buffers, Books, WellFormed
  <2>3. /\ c.early[f.order] \in Seq(mine) /\ Len(c.early[f.order]) <= MaxBuffered
        /\ c.overflowed \subseteq c.received
    <3> HIDE DEF mine
    <3>1. b.overflowed \subseteq c.received
      BY <1>2 DEF WellFormed
    <3>2. CASE /\ Len(queue) < MaxBuffered /\ c.early = [b.early EXCEPT ![f.order] = Append(queue, f)]
               /\ c.overflowed = b.overflowed
      <4>1. c.early[f.order] = Append(queue, f)
        BY <1>1, <3>2
      <4> HIDE DEF queue
      <4>2. /\ Append(queue, f) \in Seq(mine) /\ Len(Append(queue, f)) = Len(queue) + 1
            /\ Len(queue) \in Nat
        BY <2>1, Queues
      <4> QED BY <3>1, <3>2, <4>1, <4>2, BufferAssumption
    <3>3. CASE /\ ~(Len(queue) < MaxBuffered)
               /\ c.early = [b.early EXCEPT ![f.order] = Append(Tail(queue), f)]
               /\ c.overflowed = b.overflowed \union {Head(queue)}
      <4>1. c.early[f.order] = Append(Tail(queue), f)
        BY <1>1, <3>3
      <4> HIDE DEF queue
      <4>2. queue /= <<>>
        BY <2>1, <3>3, BufferAssumption
      <4>3. Head(queue) \in c.received
        BY <2>1, <4>2, Queues
      <4> QED BY <2>1, <3>1, <3>3, <4>1, <4>2, <4>3, Queues
    <3> QED BY <1>5, <3>2, <3>3 DEF Buffers
  <2>4. WellFormed(c, past)
    <3>1. \A o \in Orders : c.early[o] \in Seq(FillsOf(o, c.received)) /\ Len(c.early[o]) <= MaxBuffered
      BY <1>3, <2>2, <2>3
    <3> QED BY <1>2, <1>5, <2>3, <3>1 DEF WellFormed, Buffers, SameOrders, SameReports, Tracked
  <2> QED BY <1>5, <2>4 DEF Buffers, SameOrders, SameReports, Tracked
<1>6. CASE Reports(b, c, f)
  <2> DEFINE o == f.order
  <2>1. o \in Tracked(b) /\ o \in DOMAIN b.order_fills
    BY <1>6 DEF Reports
  <2>2. /\ DOMAIN c.order_fills = DOMAIN b.order_fills
        /\ \A x \in DOMAIN c.order_fills : c.order_fills[x] \in Seq(FillsOf(x, past))
    <3>1. PICK fills \in Seq(FillsOf(o, past)) : fills = Append(b.order_fills[o], f)
      BY <1>1, <2>1, Queues
    <3>2. c.order_fills = [b.order_fills EXCEPT ![o] = fills]
      BY <1>6, <3>1 DEF Reports
    <3>3. DOMAIN c.order_fills = DOMAIN b.order_fills
      BY <3>2
    <3>4. \A x \in DOMAIN c.order_fills : c.order_fills[x] = IF x = o THEN fills ELSE b.order_fills[x]
      BY <3>2
    <3> QED BY <3>1, <3>3, <3>4
  <2>3. Tracked(c) \subseteq Tracked(b)
    BY <1>6 DEF Reports, NoLongerTracked, Tracked
  <2>4. \A x \in Orders : c.ended[x] \in {b.ended[x], "fills"}
    BY <1>6 DEF Reports, NoLongerTracked
  <2>5. b.seen \subseteq c.seen /\ c.seen \subseteq {FillId(g) : g \in past}
    BY <1>1, <1>6 DEF Reports, WellFormed
  <2>6. /\ \A x \in Orders : c.early[x] \in Seq(FillsOf(x, c.received)) /\ Len(c.early[x]) <= MaxBuffered
        /\ c.overflowed \subseteq c.received
    BY <1>2, <1>3, <1>6 DEF Reports, SameBuffers, WellFormed
  <2>7. WellFormed(c, past)
    BY <1>2, <2>2, <2>3, <2>5, <2>6 DEF WellFormed
  <2>8. \A g \in Fills : b.reported[g] > 0 => c.reported[g] > 0
    <3>1. b.reported[f] \in 0..MaxReports
      BY <1>1
    <3>2. PICK n : n = More(b.reported[f]) /\ n > 0
      BY <3>1, ReportsCount
    <3>3. c.reported = [b.reported EXCEPT ![f] = n]
      BY <1>6, <3>2 DEF Reports
    <3> QED BY <3>2, <3>3
  <2> QED BY <2>2, <2>3, <2>4, <2>5, <2>7, <2>8
<1> QED BY <1>4, <1>5, <1>6 DEF Processes


LEMMA ProcessKeepsSilence ==
    ASSUME NEW past \in SUBSET Fills, NEW b, WellFormed(b, past), FlaggedInSilence(b),
           NEW f \in past, NEW from_buffer, NEW c, Processes(b, c, f, from_buffer)
    PROVE  FlaggedInSilence(c)
<1> USE BookTypes
<1>1. f \in Fills /\ f.order \in Orders
  BY FillsAssumption
<1>2. CASE Ignores(b, c) \/ Buffers(b, c, f)
  BY <1>2 DEF Ignores, Buffers, SameOrders, SameReports, FlaggedInSilence, Tracked
<1>3. CASE Reports(b, c, f)
  <2> DEFINE o == f.order
             e == b.tracked_orders[o]
  <2>1. o \in Tracked(b) /\ e \in Entries
    BY <1>3 DEF Reports
  <2>2. \A x \in DOMAIN b.order_fills : x /= o => c.order_fills[x] = b.order_fills[x]
    BY <1>3 DEF Reports
  <2>3. CASE NoLongerTracked(b, c, o, "fills")
    <3>1. /\ Tracked(c) = Tracked(b) \ {o}
          /\ \A x \in Tracked(c) : c.tracked_orders[x] = b.tracked_orders[x] /\ c.ended[x] = b.ended[x]
      BY <2>3 DEF NoLongerTracked, Tracked
    <3> QED BY <2>2, <3>1 DEF FlaggedInSilence
  <2>4. CASE c.tracked_orders = [b.tracked_orders EXCEPT ![o] = PartlyFilled(e, f)] /\ c.ended = b.ended
    <3>1. /\ Tracked(c) = Tracked(b)
          /\ \A x \in Tracked(c) : x /= o => c.tracked_orders[x] = b.tracked_orders[x]
      BY <2>4 DEF Tracked
    <3>2. c.tracked_orders[o].flagged = FALSE
      <4>1. c.tracked_orders[o] = PartlyFilled(e, f)
        BY <2>1, <2>4 DEF Tracked
      <4> HIDE DEF e
      <4> QED BY <1>1, <2>1, <4>1, PartlyFilledType
    <3> QED BY <2>2, <2>4, <3>1, <3>2 DEF FlaggedInSilence
  <2> QED BY <1>3, <2>3, <2>4 DEF Reports
<1> QED BY <1>2, <1>3 DEF Processes

\* The fills an order is reported for are new to it, so that they add up; and
\* they cannot add up to its size before they are all there are.
LEMMA ProcessKeepsSums ==
    ASSUME NEW past \in SUBSET Fills, NEW b, WellFormed(b, past), FillsAddUp(b, past),
           FlaggedInSilence(b),
           \A o \in Orders : Size(FillsOf(o, past)) <= OrderSize[o],
           NEW f \in past, NEW from_buffer, NEW c, Processes(b, c, f, from_buffer)
    PROVE  FillsAddUp(c, past)
<1> USE BookTypes
<1>1. f \in Fills /\ f.order \in Orders /\ f.size \in Nat /\ f.size > 0 /\ f \in FillsOf(f.order, past)
  BY FillsAssumption DEF FillsOf
<1>2. CASE Ignores(b, c) \/ Buffers(b, c, f)
  BY <1>2 DEF Processes, Ignores, Buffers, SameOrders, SameReports, FillsAddUp, FillsReceived, Tracked
<1>3. CASE Reports(b, c, f)
  <2> DEFINE o == f.order
             e == b.tracked_orders[o]
  <2>1. o \in Tracked(b) /\ e \in Entries /\ o \in DOMAIN b.order_fills /\ FillId(f) \notin b.seen
    BY <1>3 DEF Reports
  <2>2. /\ DOMAIN c.order_fills = DOMAIN b.order_fills
        /\ \A x \in DOMAIN b.order_fills : x /= o => c.order_fills[x] = b.order_fills[x]
        /\ c.order_fills[o] = Append(b.order_fills[o], f)
        /\ c.overwritten = b.overwritten
    BY <1>3, <2>1 DEF Reports, Processes
  <2>3. /\ \A x \in Orders : x /= o => (x \in Tracked(c) <=> x \in Tracked(b)) /\ c.ended[x] = b.ended[x]
        /\ \A x \in Tracked(b) : x /= o => c.tracked_orders[x] = b.tracked_orders[x]
    <3>1. CASE NoLongerTracked(b, c, o, "fills")
      BY <3>1 DEF NoLongerTracked, Tracked
    <3>2. CASE c.tracked_orders = [b.tracked_orders EXCEPT ![o] = PartlyFilled(e, f)] /\ c.ended = b.ended
      BY <3>2 DEF Tracked
    <3> QED BY <1>3, <3>1, <3>2 DEF Reports
  <2>4. c.seen = b.seen \union {FillId(f)}
    BY <1>3 DEF Reports
  <2>5. PICK had : had = FillsReceived(b, o)
    OBVIOUS
  <2>6. /\ had \in SUBSET Fills /\ had \in SUBSET FillsOf(o, past) /\ f \notin had
        /\ FillsReceived(c, o) = had \union {f}
    <3>1. b.order_fills[o] \in Seq(FillsOf(o, past)) /\ FillsOf(o, past) \subseteq Fills
      <4>1. FillsOf(o, past) \subseteq Fills
        BY DEF FillsOf
      <4> QED BY <2>1, <4>1
    <3>2. had \subseteq FillsOf(o, past)
      BY <2>5, <3>1, QueuesOfMore DEF FillsReceived
    <3>3. f \notin had
      BY <2>1, <2>5 DEF FillsAddUp
    <3>4. FillsReceived(c, o) = had \union {f}
      BY <1>1, <2>2, <2>5, <3>1, Queues DEF FillsReceived
    <3> QED BY <3>1, <3>2, <3>3, <3>4
  <2>7. \A x \in DOMAIN c.order_fills : \A g \in FillsReceived(c, x) : FillId(g) \in c.seen
    BY <2>2, <2>4, <2>5, <2>6 DEF FillsAddUp, FillsReceived
  <2>8. ASSUME NEW x \in DOMAIN c.order_fills, x /= o, x \notin c.overwritten
        PROVE  /\ x \in Tracked(c) =>
                    /\ c.tracked_orders[x].filled = Size(FillsReceived(c, x))
                    /\ Size(FillsReceived(c, x)) < OrderSize[x]
               /\ c.ended[x] = "fills" =>
                    /\ FillsReceived(c, x) = FillsOf(x, past)
                    /\ OrderSize[x] <= Size(FillsOf(x, past))
    <3>1. /\ FillsReceived(c, x) = FillsReceived(b, x) /\ c.ended[x] = b.ended[x]
          /\ x \in Tracked(c) => x \in Tracked(b) /\ c.tracked_orders[x] = b.tracked_orders[x]
      BY <2>2, <2>3, <2>8 DEF FillsReceived
    <3> QED BY <2>2, <2>8, <3>1 DEF FillsAddUp
  <2>9. ASSUME o \notin c.overwritten
        PROVE  /\ o \in Tracked(c) =>
                    /\ c.tracked_orders[o].filled = Size(FillsReceived(c, o))
                    /\ Size(FillsReceived(c, o)) < OrderSize[o]
               /\ c.ended[o] = "fills" =>
                    /\ FillsReceived(c, o) = FillsOf(o, past)
                    /\ OrderSize[o] <= Size(FillsOf(o, past))
    <3>1. Size(FillsReceived(c, o)) = e.filled + f.size
      <4>1. e.filled = Size(had)
        BY <2>1, <2>2, <2>5, <2>9 DEF FillsAddUp
      <4> QED BY <1>1, <2>6, <4>1, SizeOfMore
    <3>2. FillsReceived(c, o) \in SUBSET FillsOf(o, past) /\ FillsOf(o, past) \in SUBSET Fills
      BY <1>1, <2>6 DEF FillsOf
    <3>3. PICK total \in Nat : total = Size(FillsReceived(c, o))
      BY <3>2, SizeType
    <3>4. OrderSize[o] \in Nat
      BY <1>1, SizeAssumption
    <3>5. CASE OrderSize[o] <= e.filled + f.size /\ NoLongerTracked(b, c, o, "fills")
      <4>1. o \notin Tracked(c)
        BY <3>5 DEF NoLongerTracked, Tracked
      <4>2. OrderSize[o] <= total
        BY <3>1, <3>3, <3>5
      <4>3. /\ total <= Size(FillsOf(o, past))
            /\ FillsReceived(c, o) /= FillsOf(o, past) => total < Size(FillsOf(o, past))
        BY <3>2, <3>3, SizeOfPart
      <4>4. Size(FillsOf(o, past)) \in Nat /\ Size(FillsOf(o, past)) <= OrderSize[o]
        BY <1>1, <3>2, SizeType
      <4> QED BY <3>4, <4>1, <4>2, <4>3, <4>4
    <3>6. CASE /\ ~(OrderSize[o] <= e.filled + f.size)
               /\ c.tracked_orders = [b.tracked_orders EXCEPT ![o] = PartlyFilled(e, f)]
               /\ c.ended = b.ended
      <4>1. c.tracked_orders[o] = PartlyFilled(e, f)
        BY <2>1, <3>6 DEF Tracked
      <4>2. c.tracked_orders[o].filled = e.filled + f.size
        <5> HIDE DEF e
        <5> QED BY <1>1, <2>1, <4>1, PartlyFilledType
      <4>3. total < OrderSize[o]
        BY <3>1, <3>3, <3>4, <3>6
      <4>4. c.ended[o] = "no"
        BY <2>1, <3>6 DEF FlaggedInSilence
      <4> QED BY <3>1, <3>3, <4>2, <4>3, <4>4
    <3> QED BY <1>3, <3>5, <3>6 DEF Reports
  <2> QED BY <2>7, <2>8, <2>9 DEF FillsAddUp
<1> QED BY <1>2, <1>3 DEF Processes

\* A fill that is processed for a tracked order is reported, or was before.
LEMMA ProcessMissesNothing ==
    ASSUME NEW past \in SUBSET Fills, NEW b, WellFormed(b, past),
           NEW f \in past, NEW from_buffer, NEW c, Processes(b, c, f, from_buffer),
           from_buffer => f.order \in DOMAIN b.order_fills,
           NEW left, NEW rest, left \subseteq rest \union {f},
           NothingMissed(b, left)
    PROVE  NothingMissed(c, rest)
<1> USE BookTypes
<1>1. f \in Fills /\ f.order \in Orders
  BY FillsAssumption
<1>2. c.received = b.received \union {f} /\ c \in Books
  BY DEF Processes
<1>3. CASE Ignores(b, c) /\ ~Buffers(b, c, f) /\ ~Reports(b, c, f)
  <2>1. /\ f.order \in Tracked(b) => b.reported[f] > 0
        /\ f.order \notin Tracked(b) => f.order \in DOMAIN b.order_fills
    BY <1>1, <1>3 DEF Processes, NothingMissed
  <2>2. f.order \in DOMAIN b.order_fills
    BY <2>1
  <2> QED BY <1>2, <1>3, <2>1, <2>2
          DEF Ignores, SameOrders, SameReports, SameBuffers, NothingMissed, Tracked
<1>4. CASE Buffers(b, c, f)
  <2> DEFINE queue == b.early[f.order]
  <2>1. queue \in Seq(b.received) /\ queue \in Seq(Fills)
    <3>1. queue \in Seq(FillsOf(f.order, b.received)) /\ FillsOf(f.order, b.received) \subseteq b.received
      BY <1>1 DEF WellFormed, FillsOf
    <3> HIDE DEF queue
    <3> QED BY <3>1, QueuesOfMore
  <2>2. /\ \A o \in Orders : o /= f.order => c.early[o] = b.early[o]
        /\ f \in ToSet(c.early[f.order])
        /\ ToSet(queue) \subseteq ToSet(c.early[f.order]) \union c.overflowed
        /\ b.overflowed \subseteq c.overflowed
    <3>1. CASE /\ c.early = [b.early EXCEPT ![f.order] = Append(queue, f)]
               /\ c.overflowed = b.overflowed
      <4>1. ToSet(Append(queue, f)) = ToSet(queue) \union {f}
        <5> HIDE DEF queue
        <5> QED BY <1>1, <2>1, Queues
      <4> QED BY <1>1, <3>1, <4>1
    <3>2. CASE /\ ~(Len(queue) < MaxBuffered)
               /\ c.early = [b.early EXCEPT ![f.order] = Append(Tail(queue), f)]
               /\ c.overflowed = b.overflowed \union {Head(queue)}
      <4>1. queue /= <<>>
        BY <2>1, <3>2, BufferAssumption
      <4>2. /\ ToSet(queue) \subseteq ToSet(Append(Tail(queue), f)) \union {Head(queue)}
            /\ f \in ToSet(Append(Tail(queue), f))
        <5> HIDE DEF queue
        <5> QED BY <1>1, <2>1, <4>1, Queues
      <4> QED BY <1>1, <3>2, <4>2
    <3> QED BY <1>4, <3>1, <3>2 DEF Buffers
  <2>3. \A g \in Fills : FillId(g) \in c.seen => c.reported[g] > 0
    BY <1>4 DEF Buffers, SameReports, NothingMissed
  <2>4. ASSUME NEW g \in c.received \ c.overflowed
        PROVE  /\ g.order \in Tracked(c) => c.reported[g] > 0 \/ g \in rest
               /\ g.order \notin DOMAIN c.order_fills => g \in ToSet(c.early[g.order])
    <3>1. /\ DOMAIN c.order_fills = DOMAIN b.order_fills /\ Tracked(c) = Tracked(b)
          /\ c.reported = b.reported /\ f.order \notin Tracked(b)
      BY <1>4 DEF Buffers, SameReports, SameOrders, Tracked
    <3>2. CASE g = f
      BY <2>2, <3>1, <3>2
    <3>3. CASE g /= f
      <4>1. g \in b.received \ b.overflowed /\ g.order \in Orders
        BY <1>2, <2>2, <2>4, <3>3, FillsAssumption
      <4>2. /\ g.order \in Tracked(b) => b.reported[g] > 0 \/ g \in left
            /\ g.order \notin DOMAIN b.order_fills => g \in ToSet(b.early[g.order])
        BY <4>1 DEF NothingMissed
      <4>3. g.order \notin DOMAIN c.order_fills => g \in ToSet(c.early[g.order])
        BY <2>2, <2>4, <3>1, <4>1, <4>2
      <4> QED BY <3>1, <3>3, <4>2, <4>3
    <3> QED BY <3>2, <3>3
  <2> QED BY <2>3, <2>4 DEF NothingMissed
<1>5. CASE Reports(b, c, f)
  <2>1. /\ DOMAIN c.order_fills = DOMAIN b.order_fills /\ Tracked(c) \subseteq Tracked(b)
        /\ c.early = b.early /\ c.overflowed = b.overflowed
        /\ f.order \in Tracked(b) /\ f.order \in DOMAIN b.order_fills
    BY <1>5 DEF Reports, NoLongerTracked, SameBuffers, Tracked
  <2>2. c.reported[f] > 0 /\ \A g \in Fills : g /= f => c.reported[g] = b.reported[g]
    <3>1. PICK n : n = More(b.reported[f]) /\ n > 0
      BY <1>1, ReportsCount
    <3>2. c.reported = [b.reported EXCEPT ![f] = n] /\ b.reported \in [Fills -> 0..MaxReports]
      BY <1>5, <3>1 DEF Reports
    <3> QED BY <1>1, <3>1, <3>2
  <2>3. \A g \in Fills : FillId(g) \in c.seen => c.reported[g] > 0
    <3>1. ASSUME NEW g \in Fills, FillId(g) \in c.seen
          PROVE  c.reported[g] > 0
      <4>1. CASE g = f
        BY <2>2, <4>1
      <4>2. CASE g /= f
        <5>1. FillId(g) /= FillId(f)
          BY <1>1, <4>2, FillIdAssumption
        <5>2. FillId(g) \in b.seen
          BY <1>5, <3>1, <5>1 DEF Reports
        <5> QED BY <2>2, <4>2, <5>2 DEF NothingMissed
      <4> QED BY <4>1, <4>2
    <3> QED BY <3>1
  <2>4. ASSUME NEW g \in c.received \ c.overflowed
        PROVE  /\ g.order \in Tracked(c) => c.reported[g] > 0 \/ g \in rest
               /\ g.order \notin DOMAIN c.order_fills => g \in ToSet(c.early[g.order])
    <3>1. CASE g = f
      BY <2>1, <2>2, <3>1
    <3>2. CASE g /= f
      <4>1. g \in b.received \ b.overflowed /\ g \in Fills
        BY <1>2, <2>1, <2>4, <3>2
      <4> QED BY <2>1, <2>2, <3>2, <4>1 DEF NothingMissed
    <3> QED BY <3>1, <3>2
  <2> QED BY <2>3, <2>4 DEF NothingMissed
<1> QED BY <1>3, <1>4, <1>5 DEF Processes

LEMMA ProcessReportsOnce ==
    ASSUME NEW past \in SUBSET Fills, NEW b, WellFormed(b, past), Once(b, b.seen),
           NEW f \in past, NEW from_buffer, NEW c, Processes(b, c, f, from_buffer)
    PROVE  Once(c, c.seen)
<1>1. f \in Fills /\ \A g \in Fills : b.reported[g] \in 0..MaxReports
  BY BookTypes
<1>2. CASE Ignores(b, c) \/ Buffers(b, c, f)
  BY <1>2 DEF Ignores, Buffers, SameReports, Once
<1>3. CASE Reports(b, c, f)
  <2>1. b.reported[f] = 0
    BY <1>1, <1>3 DEF Reports, Once
  <2>2. c.reported[f] = 1 /\ \A g \in Fills : g /= f => c.reported[g] = b.reported[g]
    BY <1>1, <1>3, <2>1, BookTypes, ReportsCount DEF Reports
  <2> QED BY <1>3, <2>2 DEF Reports, Once
<1> QED BY <1>2, <1>3 DEF Processes


-----------------------------------------------------------------------------
(* Processing a queue of fills                                             *)

\* What holds of a book, and is kept by processing each fill of a queue, holds
\* after all of it.  Good is a set of books for each number of fills processed.
LEMMA ProcessingInduction ==
    ASSUME NEW b, NEW queue \in Seq(Fills), NEW from_buffer,
           NEW Good, b \in Good[0],
           \A n \in 1..Len(queue) : \A c \in Good[n - 1] :
               Process(c, queue[n], from_buffer) \in Good[n]
    PROVE  ProcessAll(b, queue, from_buffer) \in Good[Len(queue)]
<1> DEFINE Step(done, n) == IF n = 0 THEN b ELSE Process(done[n - 1], queue[n], from_buffer)
           Steps(done, m) == done = [n \in 0..m |-> Step(done, n)]
           Failing == {m \in Nat : ~\E done : Steps(done, m)}
           done[n \in 0..Len(queue)] == Step(done, n)
<1>1. Len(queue) \in Nat
  OBVIOUS
<1>2. \E any : Steps(any, 0)
  <2> DEFINE none == [n \in 0..0 |-> b]
  <2>1. \A n \in 0..0 : n = 0
    OBVIOUS
  <2>2. Steps(none, 0)
    BY <2>1
  <2> QED BY <2>2
<1>3. ASSUME NEW m \in Nat, NEW less, Steps(less, m)
      PROVE  \E any : Steps(any, m + 1)
  <2> DEFINE more == [n \in 0..(m + 1) |-> Step(less, n)]
  <2>1. \A n \in 0..m : n \in 0..(m + 1)
    OBVIOUS
  <2>2. \A n \in 0..m : more[n] = less[n]
    <3>1. \A n \in 0..m : more[n] = Step(less, n)
      BY <2>1
    <3>2. \A n \in 0..m : less[n] = Step(less, n)
      BY <1>3
    <3> HIDE DEF more, Step
    <3> QED BY <3>1, <3>2
  <2>3. \A n \in 0..(m + 1) : n /= 0 => n - 1 \in 0..m
    OBVIOUS
  <2>4. \A n \in 0..(m + 1) : Step(less, n) = Step(more, n)
    <3> HIDE DEF more
    <3> QED BY <2>2, <2>3
  <2>5. Steps(more, m + 1)
    BY <2>4
  <2> QED BY <2>5
<1>4. Failing = {}
  <2> SUFFICES ASSUME Failing /= {} PROVE FALSE
    OBVIOUS
  <2>1. PICK m \in Failing : \A n \in Failing : m <= n
    <3>1. Failing \subseteq Nat
      OBVIOUS
    <3> HIDE DEF Failing
    <3> QED BY <3>1, LeastNatural
  <2>2. m \in Nat /\ m /= 0
    BY <1>2
  <2>3. PICK k \in Nat : m = k + 1
    <3>1. m - 1 \in Nat /\ m = (m - 1) + 1
      BY <2>2
    <3> QED BY <3>1
  <2>4. k \notin Failing
    <3>1. ~(m <= k)
      BY <2>3
    <3> QED BY <3>1, <2>1
  <2>5. PICK less : Steps(less, k)
    BY <2>4
  <2>6. \E any : Steps(any, k + 1)
    BY <2>5, <1>3
  <2>7. k + 1 \notin Failing
    BY <2>6
  <2> QED BY <2>1, <2>3, <2>7
<1>5. done = [n \in 0..Len(queue) |-> Step(done, n)]
  <2>1. \E any : any = [n \in 0..Len(queue) |-> Step(any, n)]
    BY <1>1, <1>4
  <2> QED BY <2>1
<1>6. ProcessAll(b, queue, from_buffer) = done[Len(queue)]
  BY DEF ProcessAll
<1> HIDE DEF done
<1> DEFINE Bad == {n \in 0..Len(queue) : done[n] \notin Good[n]}
<1>7. Bad = {}
  <2> SUFFICES ASSUME Bad /= {} PROVE FALSE
    OBVIOUS
  <2>1. PICK m \in Bad : \A n \in Bad : m <= n
    <3>1. Bad \subseteq Nat
      BY <1>1
    <3> HIDE DEF Bad
    <3> QED BY <3>1, LeastNatural
  <2>2. m \in 0..Len(queue) /\ m /= 0
    <3>1. done[0] = b
      BY <1>1, <1>5
    <3> QED BY <3>1
  <2>3. m \in 1..Len(queue) /\ m - 1 \in 0..Len(queue) /\ ~(m <= m - 1)
    BY <1>1, <2>2
  <2>4. done[m - 1] \in Good[m - 1]
    BY <2>1, <2>3
  <2>5. done[m] = Process(done[m - 1], queue[m], from_buffer)
    BY <1>5, <2>2
  <2> QED BY <2>1, <2>3, <2>4, <2>5
<1> QED BY <1>1, <1>6, <1>7


\* What is left of a queue after n fills.
Left(queue, n) == {queue[i] : i \in (n + 1)..Len(queue)}

LEMMA ProcessKeeps ==
    ASSUME NEW past \in SUBSET Fills, \A o \in Orders : Size(FillsOf(o, past)) <= OrderSize[o],
           NEW left, NEW rest, NEW complete, NEW once, NEW b, BookIsRight(b, past, left, complete, once),
           NEW f \in past, left \subseteq rest \union {f},
           NEW from_buffer \in BOOLEAN, from_buffer => f.order \in DOMAIN b.order_fills,
           NEW c, c = Process(b, f, from_buffer)
    PROVE  BookIsRight(c, past, rest, complete, once) /\ Follows(b, c) /\ c \in Books
<1>0. /\ WellFormed(b, past) /\ FlaggedInSilence(b) /\ FillsAddUp(b, past)
      /\ complete => NothingMissed(b, left)
      /\ once => Once(b, b.seen)
  BY DEF BookIsRight
<1>1. Processes(b, c, f, from_buffer)
  <2>1. f \in Fills /\ Tracked(b) \subseteq DOMAIN b.order_fills /\ b \in Books
    BY <1>0 DEF WellFormed
  <2> QED BY <2>1, ProcessShape
<1>2. WellFormed(c, past) /\ Follows(b, c)
  BY <1>0, <1>1, ProcessKeepsForm
<1>3. FlaggedInSilence(c) /\ FillsAddUp(c, past)
  BY <1>0, <1>1, ProcessKeepsSilence, ProcessKeepsSums
<1>4. complete => NothingMissed(c, rest)
  BY <1>0, <1>1, ProcessMissesNothing
<1>5. once => Once(c, c.seen)
  BY <1>0, <1>1, ProcessReportsOnce
<1>6. c \in Books
  BY <1>1 DEF Processes
<1> QED BY <1>2, <1>3, <1>4, <1>5, <1>6 DEF BookIsRight

LEMMA ProcessAllKeeps ==
    ASSUME NEW past \in SUBSET Fills, \A o \in Orders : Size(FillsOf(o, past)) <= OrderSize[o],
           NEW queue \in Seq(past), NEW from_buffer \in BOOLEAN,
           NEW complete, NEW once, NEW b,
           BookIsRight(b, past, IF from_buffer THEN ToSet(queue) ELSE {}, complete, once),
           from_buffer => \A f \in ToSet(queue) : f.order \in DOMAIN b.order_fills,
           NEW c, c = ProcessAll(b, queue, from_buffer)
    PROVE  BookIsRight(c, past, {}, complete, once) /\ Follows(b, c)
<1> DEFINE left(n) == IF from_buffer THEN Left(queue, n) ELSE {}
           Right(d, n) == BookIsRight(d, past, left(n), complete, once) /\ Follows(b, d)
           Good == [n \in 0..Len(queue) |-> {d \in Books : Right(d, n)}]
<1>1. /\ Len(queue) \in Nat /\ \A n \in 1..Len(queue) : queue[n] \in past
      /\ DOMAIN queue = 1..Len(queue) /\ queue \in Seq(Fills)
  BY QueuesOfMore
<1>2. b \in Good[0]
  <2>1. Left(queue, 0) = ToSet(queue)
    BY <1>1 DEF Left, ToSet
  <2>2. b \in Books /\ Follows(b, b)
    BY BookTypes DEF BookIsRight, Follows
  <2>3. Right(b, 0)
    BY <2>1, <2>2
  <2> HIDE DEF Right
  <2> QED BY <1>1, <2>2, <2>3
<1>3. ASSUME NEW n \in 1..Len(queue), NEW d \in Good[n - 1]
      PROVE  Process(d, queue[n], from_buffer) \in Good[n]
  <2>1. n - 1 \in 0..Len(queue) /\ n \in 0..Len(queue)
    BY <1>1
  <2>2. d \in Books /\ Right(d, n - 1)
    <3> HIDE DEF Right
    <3> QED BY <1>3, <2>1
  <2>3. PICK f \in past : f = queue[n]
    BY <1>1
  <2>4. PICK e : e = Process(d, f, from_buffer)
    OBVIOUS
  <2>5. left(n - 1) \subseteq left(n) \union {f}
    <3>1. \A i \in ((n - 1) + 1)..Len(queue) : i = n \/ i \in (n + 1)..Len(queue)
      BY <1>1
    <3> QED BY <2>3, <3>1 DEF Left
  <2>6. from_buffer => f.order \in DOMAIN d.order_fills
    <3>1. f \in ToSet(queue)
      BY <1>1, <2>3 DEF ToSet
    <3> QED BY <2>2, <3>1 DEF Follows
  <2>7. BookIsRight(e, past, left(n), complete, once) /\ Follows(d, e) /\ e \in Books
    <3> HIDE DEF left
    <3> QED BY <2>2, <2>4, <2>5, <2>6, ProcessKeeps
  <2>8. e \in Books /\ Right(e, n)
    <3> HIDE DEF left
    <3> QED BY <2>2, <2>7 DEF Follows
  <2> HIDE DEF Right
  <2> QED BY <2>1, <2>3, <2>4, <2>8
<1>4. c \in Good[Len(queue)]
  <2> HIDE DEF Good
  <2> QED BY <1>1, <1>2, <1>3, ProcessingInduction
<1>5. Right(c, Len(queue))
  <2> HIDE DEF Right
  <2> QED BY <1>1, <1>4
<1>6. left(Len(queue)) = {}
  <2>1. (Len(queue) + 1)..Len(queue) = {}
    BY <1>1
  <2> QED BY <2>1 DEF Left
<1> HIDE DEF left
<1> QED BY <1>5, <1>6


-----------------------------------------------------------------------------
(* The other changes of a book                                             *)

\* A book in which an order starts to be tracked, its buffer emptied.
Started(b, o) ==
    [b EXCEPT !.tracked_orders = With(b.tracked_orders, o, NewEntry),
              !.order_fills = With(b.order_fills, o, <<>>),
              !.ended = [b.ended EXCEPT ![o] = "no"],
              !.early = [b.early EXCEPT ![o] = <<>>]]

\* What was buffered for the order is left to be replayed.
LEMMA TrackKeeps ==
    ASSUME NEW past \in SUBSET Fills, NEW complete, NEW once, NEW b,
           BookIsRight(b, past, {}, complete, once),
           NEW o \in Orders, o \notin DOMAIN b.order_fills,
           NEW c, c = Started(b, o)
    PROVE  /\ BookIsRight(c, past, ToSet(b.early[o]), complete, once)
           /\ DOMAIN c.order_fills = DOMAIN b.order_fills \union {o}
           /\ c.seen = b.seen /\ c.reported = b.reported
           /\ \A x \in Orders : c.ended[x] = b.ended[x] \/ c.ended[x] = "no"
<1>0. /\ WellFormed(b, past) /\ FlaggedInSilence(b) /\ FillsAddUp(b, past)
      /\ complete => NothingMissed(b, {})
      /\ once => Once(b, b.seen)
  BY DEF BookIsRight
<1>1. NewEntry \in Entries
  BY DEF NewEntry, Entries, Statuses
<1>2. PICK entries \in Dictionaries(Entries) : entries = With(b.tracked_orders, o, NewEntry)
  BY <1>0, <1>1, DictionaryChanges DEF WellFormed, Books
<1>3. PICK fills \in Dictionaries(Seq(Fills)) : fills = With(b.order_fills, o, <<>>)
  <2>1. <<>> \in Seq(Fills)
    OBVIOUS
  <2> QED BY <1>0, <2>1, DictionaryChanges DEF WellFormed, Books
<1>4. PICK ends \in [Orders -> Ends] : ends = [b.ended EXCEPT ![o] = "no"]
  BY <1>0 DEF WellFormed, Books, Ends
<1>5. PICK buffers \in [Orders -> Seq(Fills)] : buffers = [b.early EXCEPT ![o] = <<>>]
  <2>1. b.early \in [Orders -> Seq(Fills)]
    BY <1>0, BookTypes
  <2>2. <<>> \in Seq(Fills)
    OBVIOUS
  <2> QED BY <2>1, <2>2
<1>6. c = [b EXCEPT !.tracked_orders = entries, !.order_fills = fills, !.ended = ends, !.early = buffers]
  BY <1>2, <1>3, <1>4, <1>5 DEF Started
<1>7. /\ c \in Books /\ c.tracked_orders = entries /\ c.order_fills = fills /\ c.ended = ends
      /\ c.early = buffers /\ c.seen = b.seen /\ c.reported = b.reported /\ c.received = b.received
      /\ c.overflowed = b.overflowed /\ c.overwritten = b.overwritten
  BY <1>0, <1>6 DEF WellFormed, Books
<1>8. /\ Tracked(c) = Tracked(b) \union {o} /\ c.tracked_orders[o] = NewEntry
      /\ \A x \in Tracked(b) \ {o} : c.tracked_orders[x] = b.tracked_orders[x]
  BY <1>2, <1>7 DEF With, Tracked
<1>9. /\ DOMAIN c.order_fills = DOMAIN b.order_fills \union {o} /\ c.order_fills[o] = <<>>
      /\ \A x \in DOMAIN b.order_fills : c.order_fills[x] = b.order_fills[x]
  BY <1>3, <1>7 DEF With
<1>10. /\ c.ended[o] = "no" /\ c.early[o] = <<>>
       /\ \A x \in Orders \ {o} : c.ended[x] = b.ended[x] /\ c.early[x] = b.early[x]
  BY <1>0, <1>4, <1>5, <1>7 DEF WellFormed, Books
<1>11. o \notin Tracked(b) /\ Tracked(b) \subseteq DOMAIN b.order_fills /\ DOMAIN b.order_fills \subseteq Orders
  BY <1>0, BookTypes DEF WellFormed
<1>12. WellFormed(c, past)
  <2>1. \A x \in DOMAIN c.order_fills : c.order_fills[x] \in Seq(FillsOf(x, past))
    <3>1. <<>> \in Seq(FillsOf(o, past))
      OBVIOUS
    <3> QED BY <1>0, <1>9, <3>1 DEF WellFormed
  <2>2. \A x \in Orders : c.early[x] \in Seq(FillsOf(x, c.received)) /\ Len(c.early[x]) <= MaxBuffered
    <3>1. <<>> \in Seq(FillsOf(o, c.received)) /\ Len(<<>>) <= MaxBuffered
      BY BufferAssumption
    <3> QED BY <1>0, <1>7, <1>10, <3>1 DEF WellFormed
  <2> QED BY <1>0, <1>7, <1>8, <1>9, <2>1, <2>2 DEF WellFormed
<1>13. FlaggedInSilence(c)
  <2>1. ASSUME NEW x \in Tracked(c)
        PROVE  /\ c.ended[x] = "no"
               /\ c.tracked_orders[x].flagged =>
                      c.tracked_orders[x].checked = Len(c.order_fills[x])
    <3>1. CASE x = o
      BY <1>8, <1>10, <3>1 DEF NewEntry
    <3>2. CASE x /= o
      <4>1. x \in Tracked(b) \ {o} /\ x \in DOMAIN b.order_fills /\ x \in Orders \ {o}
        BY <1>8, <1>11, <3>2
      <4> QED BY <1>0, <1>8, <1>9, <1>10, <4>1 DEF FlaggedInSilence
    <3> QED BY <3>1, <3>2
  <2> QED BY <2>1 DEF FlaggedInSilence
<1>14. FillsAddUp(c, past)
  <2>1. FillsReceived(c, o) = {} /\ \A x \in DOMAIN b.order_fills : FillsReceived(c, x) = FillsReceived(b, x)
    BY <1>9 DEF FillsReceived, ToSet
  <2>2. NewEntry.filled = 0 /\ Size({}) = 0 /\ 0 < OrderSize[o]
    BY SizeType, SizeAssumption DEF NewEntry
  <2>3. \A x \in DOMAIN b.order_fills : x \in Orders \ {o} /\ (x \in Tracked(c) => x \in Tracked(b) \ {o})
    BY <1>8, <1>11
  <2> DEFINE AddUp(d, x) ==
        /\ \A f \in FillsReceived(d, x) : FillId(f) \in d.seen
        /\ x \notin d.overwritten =>
             /\ x \in Tracked(d) =>
                  /\ d.tracked_orders[x].filled = Size(FillsReceived(d, x))
                  /\ Size(FillsReceived(d, x)) < OrderSize[x]
             /\ d.ended[x] = "fills" =>
                  /\ FillsReceived(d, x) = FillsOf(x, past)
                  /\ OrderSize[x] <= Size(FillsOf(x, past))
  <2>4. AddUp(c, o)
    BY <1>8, <1>10, <2>1, <2>2
  <2>5. ASSUME NEW x \in DOMAIN b.order_fills
        PROVE  AddUp(c, x)
    <3>1. AddUp(b, x)
      BY <1>0 DEF FillsAddUp
    <3>2. /\ c.seen = b.seen /\ c.overwritten = b.overwritten /\ c.ended[x] = b.ended[x]
          /\ FillsReceived(c, x) = FillsReceived(b, x)
          /\ x \in Tracked(c) => x \in Tracked(b) /\ c.tracked_orders[x] = b.tracked_orders[x]
      BY <1>7, <1>8, <1>10, <2>1, <2>3
    <3> QED BY <3>1, <3>2
  <2> QED BY <1>9, <2>4, <2>5 DEF FillsAddUp
<1>15. complete => NothingMissed(c, ToSet(b.early[o]))
  BY <1>0, <1>7, <1>8, <1>9, <1>10, FillsAssumption DEF NothingMissed, WellFormed
<1>16. once => Once(c, c.seen)
  BY <1>0, <1>7 DEF Once
<1> QED BY <1>7, <1>9, <1>10, <1>12, <1>13, <1>14, <1>15, <1>16 DEF BookIsRight

\* What a change of some entries or the end of some orders has to respect.
LEMMA OrdersChangeKeeps ==
    ASSUME NEW past \in SUBSET Fills, NEW complete, NEW once, NEW b,
           BookIsRight(b, past, {}, complete, once),
           NEW c \in Books, SameReports(b, c), SameBuffers(b, c), c.received = b.received,
           b.overwritten \subseteq c.overwritten, Tracked(c) \subseteq Tracked(b),
           FlaggedInSilence(c),
           \A o \in Tracked(c) \ c.overwritten :
               c.tracked_orders[o].filled = b.tracked_orders[o].filled,
           \A o \in Orders \ c.overwritten : c.ended[o] = "fills" => b.ended[o] = "fills"
    PROVE  BookIsRight(c, past, {}, complete, once)
<1>0. /\ WellFormed(b, past) /\ FillsAddUp(b, past)
      /\ complete => NothingMissed(b, {})
      /\ once => Once(b, b.seen)
  BY DEF BookIsRight
<1>1. /\ c.order_fills = b.order_fills /\ c.seen = b.seen /\ c.reported = b.reported
      /\ c.early = b.early /\ c.overflowed = b.overflowed
  BY DEF SameReports, SameBuffers
<1>2. WellFormed(c, past)
  BY <1>0, <1>1 DEF WellFormed
<1>3. FillsAddUp(c, past)
  <2>1. \A o \in DOMAIN b.order_fills : o \in Orders /\ FillsReceived(c, o) = FillsReceived(b, o)
    BY <1>0, <1>1, BookTypes DEF FillsReceived
  <2> QED BY <1>0, <1>1, <2>1 DEF FillsAddUp
<1>4. complete => NothingMissed(c, {})
  BY <1>0, <1>1 DEF NothingMissed
<1>5. once => Once(c, c.seen)
  BY <1>0, <1>1 DEF Once
<1> QED BY <1>2, <1>3, <1>4, <1>5 DEF BookIsRight

\* The exchange executes a fill of an order that is not complete.
LEMMA PastGrows ==
    ASSUME NEW past \in SUBSET Fills, NEW f \in Fills, f \notin past,
           Size(FillsOf(f.order, past)) + f.size <= OrderSize[f.order],
           NEW complete, NEW once, NEW b, BookIsRight(b, past, {}, complete, once)
    PROVE  BookIsRight(b, past \union {f}, {}, complete, once)
<1>0. WellFormed(b, past) /\ FillsAddUp(b, past)
  BY DEF BookIsRight
<1>1. f.order \in Orders /\ f.size \in Nat \ {0}
  BY FillsAssumption
<1>2. \A o \in Orders : /\ FillsOf(o, past) \subseteq FillsOf(o, past \union {f})
                        /\ o /= f.order => FillsOf(o, past \union {f}) = FillsOf(o, past)
  BY DEF FillsOf
<1>3. WellFormed(b, past \union {f})
  <2>1. \A o \in DOMAIN b.order_fills : b.order_fills[o] \in Seq(FillsOf(o, past \union {f}))
    <3>1. ASSUME NEW o \in DOMAIN b.order_fills
          PROVE  b.order_fills[o] \in Seq(FillsOf(o, past \union {f}))
      <4>1. o \in Orders /\ b.order_fills[o] \in Seq(FillsOf(o, past))
        BY <1>0, BookTypes
      <4>2. FillsOf(o, past) \subseteq FillsOf(o, past \union {f})
        BY <1>2, <4>1
      <4> QED BY <4>1, <4>2, QueuesOfMore
    <3> QED BY <3>1
  <2> QED BY <1>0, <2>1 DEF WellFormed
<1>4. FillsAddUp(b, past \union {f})
  <2>1. \A o \in DOMAIN b.order_fills : o \in Orders
    BY <1>0, BookTypes
  <2>2. ~(OrderSize[f.order] <= Size(FillsOf(f.order, past)))
    <3>1. FillsOf(f.order, past) \in SUBSET Fills
      BY DEF FillsOf
    <3>2. Size(FillsOf(f.order, past)) \in Nat /\ OrderSize[f.order] \in Nat
      BY <1>1, <3>1, SizeType, SizeAssumption
    <3> QED BY <1>1, <3>2
  <2> QED BY <1>0, <1>2, <2>1, <2>2 DEF FillsAddUp
<1> QED BY <1>3, <1>4 DEF BookIsRight


-----------------------------------------------------------------------------
(* The process starts, stops, and installs a new book                      *)

\* The book of a process that starts, or has stopped.
NewBook(reports, ids) == [EmptyBook EXCEPT !.reported = reports, !.seen = ids]

\* What the ids it starts with have to say of what was reported.
RightIds(reports, ids, complete, once) ==
    /\ complete => \A f \in Fills : FillId(f) \in ids => reports[f] > 0
    /\ once => \A f \in Fills : reports[f] <= 1 /\ (reports[f] > 0 => FillId(f) \in ids)

LEMMA NewBookIsRight ==
    ASSUME NEW past \in SUBSET Fills, NEW ids \in SUBSET {FillId(f) : f \in past},
           NEW reports \in [Fills -> 0..MaxReports], NEW complete, NEW once,
           RightIds(reports, ids, complete, once),
           NEW b, b = NewBook(reports, ids)
    PROVE  /\ BookIsRight(b, past, {}, complete, once)
           /\ b.reported = reports /\ b.seen = ids /\ Tracked(b) = {}
<1> DEFINE quiet == [o \in Orders |-> <<>>]
           fresh == [o \in Orders |-> "no"]
<1>1. \A S : quiet \in [Orders -> Seq(S)] /\ \A o \in Orders : quiet[o] = <<>>
  <2>1. \A S : <<>> \in Seq(S)
    OBVIOUS
  <2> QED BY <2>1
<1>2. fresh \in [Orders -> Ends]
  BY DEF Ends
<1>3. /\ b.tracked_orders = NoOrders /\ b.order_fills = NoOrders /\ b.early = quiet
      /\ b.seen = ids /\ b.reported = reports /\ b.received = {} /\ b.overflowed = {}
      /\ b.overwritten = {} /\ b.ended = fresh
  BY DEF EmptyBook, NewBook
<1>4. DOMAIN NoOrders = {} /\ \A V : NoOrders \in Dictionaries(V)
  BY DictionaryType DEF NoOrders
<1>5. b = [tracked_orders |-> NoOrders, order_fills |-> NoOrders, early |-> quiet, seen |-> ids,
           reported |-> reports, received |-> {}, overflowed |-> {}, overwritten |-> {},
           ended |-> fresh]
  BY DEF EmptyBook, NewBook
<1>6. ids \subseteq Ids
  BY DEF Ids
<1> HIDE DEF quiet, fresh
<1>7. b \in Books
  BY <1>1, <1>2, <1>4, <1>5, <1>6 DEF Books
<1>8. WellFormed(b, past)
  <2>1. Len(<<>>) <= MaxBuffered
    BY BufferAssumption
  <2> QED BY <1>1, <1>3, <1>4, <1>7, <2>1 DEF WellFormed, Tracked
<1>9. FlaggedInSilence(b) /\ FillsAddUp(b, past) /\ (complete => NothingMissed(b, {})) /\ (once => Once(b, b.seen))
  BY <1>3, <1>4 DEF RightIds, FlaggedInSilence, FillsAddUp, NothingMissed, Once, Tracked
<1> QED BY <1>3, <1>4, <1>8, <1>9 DEF BookIsRight, Tracked

LEMMA InitHolds == Init => IndInv
<1> SUFFICES ASSUME Init PROVE IndInv
  OBVIOUS
<1> USE DEF Init
<1>1. ExchangeInv
  <2>1. \A o \in Orders : FillsOf(o, {}) = {}
    BY DEF FillsOf
  <2>2. \A o \in Orders : Size({}) <= OrderSize[o]
    BY SizeType, SizeAssumption
  <2> QED BY <2>1, <2>2 DEF ExchangeInv
<1>2. PollInv
  BY DEF PollInv, Sleeping
<1> DEFINE none == [f \in Fills |-> 0]
<1>3. none \in [Fills -> 0..MaxReports]
  BY DEF MaxReports
<1>4. /\ EmptyBook = [EmptyBook EXCEPT !.reported = none, !.seen = {}]
      /\ EmptyBook.reported = none /\ EmptyBook.seen = {}
  <2> DEFINE quiet == [o \in Orders |-> <<>>]
             fresh == [o \in Orders |-> "no"]
  <2>1. EmptyBook = [tracked_orders |-> NoOrders, order_fills |-> NoOrders, early |-> quiet,
                     seen |-> {}, reported |-> none, received |-> {}, overflowed |-> {},
                     overwritten |-> {}, ended |-> fresh]
    BY DEF EmptyBook
  <2> HIDE DEF quiet, fresh, none
  <2>2. EmptyBook.reported = none /\ EmptyBook.seen = {}
    BY <2>1
  <2>3. [EmptyBook EXCEPT !.reported = none] = EmptyBook
    BY <2>1
  <2>4. [EmptyBook EXCEPT !.seen = {}] = EmptyBook
    BY <2>1
  <2> QED BY <2>2, <2>3, <2>4
<1>5. \A complete, once : BookIsRight(EmptyBook, {}, {}, complete, once)
  <2> SUFFICES ASSUME NEW complete, NEW once
               PROVE  BookIsRight(EmptyBook, {}, {}, complete, once)
    OBVIOUS
  <2>1. \A f \in Fills : none[f] = 0
    OBVIOUS
  <2> HIDE DEF none
  <2>2. PICK past \in SUBSET Fills : past = {}
    OBVIOUS
  <2>3. PICK ids \in SUBSET {FillId(f) : f \in past} : ids = {}
    OBVIOUS
  <2>4. EmptyBook = NewBook(none, ids)
    BY <1>4, <2>3 DEF NewBook
  <2>5. \A f \in Fills : none[f] <= 1 /\ ~(none[f] > 0) /\ FillId(f) \notin ids
    BY <2>1, <2>3
  <2>6. BookIsRight(EmptyBook, past, {}, complete, once)
    <3>1. RightIds(none, ids, complete, once)
      BY <2>5 DEF RightIds
    <3> QED BY <1>3, <2>4, <3>1, NewBookIsRight
  <2> QED BY <2>2, <2>6
<1>6. StoreInv
  BY <1>4 DEF StoreInv, Once
<1> QED BY <1>1, <1>2, <1>5, <1>6 DEF IndInv

LEMMA InstallKeeps ==
    ASSUME IndInv, up, up' = up, faults' = faults, executed' = executed,
           NEW c, BookIsRight(c, executed, {}, Complete, Durable), book.seen \subseteq c.seen,
           \A f \in Fills : book.reported[f] > 0 => c.reported[f] > 0,
           Install(c)
    PROVE  StoreInv' /\ BookIsRight(book', executed', {}, Complete', (up /\ Durable)')
<1>1. book' = c /\ persisted \subseteq persisted' /\ persisted' \subseteq persisted \union c.seen
  BY DEF Install
<1>2. Complete' = Complete /\ Durable' = Durable
  BY DEF Complete, Durable
<1>3. BookIsRight(book', executed', {}, Complete', (up /\ Durable)')
  <2>1. (up /\ Durable)' = Durable
    BY DEF Durable
  <2> QED BY <1>1, <1>2, <2>1
<1>4. StoreInv'
  <2>1. persisted' \subseteq {FillId(f) : f \in executed}
    BY <1>1 DEF IndInv, StoreInv, BookIsRight, WellFormed
  <2>2. Complete => \A f \in Fills : FillId(f) \in persisted' => c.reported[f] > 0
    BY <1>1 DEF IndInv, StoreInv, BookIsRight, NothingMissed
  <2>3. Durable => Once(c, persisted') /\ c.seen = persisted'
    <3> SUFFICES ASSUME Durable PROVE Once(c, persisted') /\ c.seen = persisted'
      OBVIOUS
    <3>1. book.seen = persisted /\ Once(c, c.seen)
      BY DEF IndInv, StoreInv, BookIsRight
    <3>2. persisted' = persisted \union (c.seen \ book.seen)
      BY DEF Install, Durable
    <3>3. c.seen = persisted'
      BY <3>1, <3>2
    <3> QED BY <3>1, <3>3
  <2> QED BY <1>1, <1>2, <2>1, <2>2, <2>3 DEF IndInv, StoreInv
<1> QED BY <1>3, <1>4


-----------------------------------------------------------------------------
(* Changes of orders                                                       *)

LEMMA OverwriteKeeps ==
    ASSUME NEW past \in SUBSET Fills, NEW complete, NEW once, NEW b,
           BookIsRight(b, past, {}, complete, once), NEW o \in Orders,
           NEW c, c = [b EXCEPT !.overwritten = b.overwritten \union {o}]
    PROVE  /\ BookIsRight(c, past, {}, complete, once)
           /\ SameReports(b, c) /\ SameOrders(b, c) /\ o \in c.overwritten
<1>1. b \in Books /\ FlaggedInSilence(b)
  BY DEF BookIsRight, WellFormed
<1>2. PICK all \in SUBSET Orders : all = b.overwritten \union {o}
  BY <1>1 DEF Books
<1>3. c = [b EXCEPT !.overwritten = all]
  BY <1>2
<1>4. /\ c \in Books /\ SameReports(b, c) /\ SameBuffers(b, c) /\ SameOrders(b, c)
      /\ c.received = b.received /\ c.overwritten = all
  BY <1>1, <1>3 DEF Books, SameReports, SameBuffers, SameOrders
<1>5. Tracked(c) = Tracked(b) /\ FlaggedInSilence(c)
  BY <1>1, <1>4 DEF SameOrders, SameReports, Tracked, FlaggedInSilence
<1>6. BookIsRight(c, past, {}, complete, once)
  <2>1. b.overwritten \subseteq c.overwritten /\ c.tracked_orders = b.tracked_orders /\ c.ended = b.ended
    BY <1>2, <1>4 DEF SameOrders
  <2> QED BY <1>4, <1>5, <2>1, OrdersChangeKeeps
<1> QED BY <1>2, <1>4, <1>6

LEMMA StopKeeps ==
    ASSUME NEW past \in SUBSET Fills, NEW complete, NEW once, NEW b,
           BookIsRight(b, past, {}, complete, once), NEW o \in Tracked(b),
           NEW why \in Ends, why /= "fills", NEW c, c = Stop(b, o, why)
    PROVE  /\ BookIsRight(c, past, {}, complete, once)
           /\ SameReports(b, c) /\ NoLongerTracked(b, c, o, why)
<1>1. b \in Books /\ FlaggedInSilence(b) /\ o \in Orders /\ b.ended \in [Orders -> Ends]
  BY BookTypes DEF BookIsRight
<1>2. PICK entries \in Dictionaries(Entries) :
        entries = [x \in Tracked(b) \ {o} |-> b.tracked_orders[x]]
  BY <1>1, DictionaryChanges DEF Books, Tracked
<1>3. PICK ends \in [Orders -> Ends] : ends = [b.ended EXCEPT ![o] = why]
  BY <1>1
<1>4. c = [b EXCEPT !.tracked_orders = entries, !.ended = ends]
  BY <1>1, <1>2, <1>3 DEF Stop, Tracked, Books
<1>5. /\ c \in Books /\ SameReports(b, c) /\ SameBuffers(b, c)
      /\ c.tracked_orders = entries /\ c.ended = ends
      /\ c.received = b.received /\ c.overwritten = b.overwritten
  BY <1>1, <1>4 DEF Books, SameReports, SameBuffers
<1>6. /\ Tracked(c) = Tracked(b) \ {o}
      /\ \A x \in Tracked(c) : c.tracked_orders[x] = b.tracked_orders[x] /\ x /= o
      /\ \A x \in Orders : c.ended[x] = IF x = o THEN why ELSE b.ended[x]
  BY <1>1, <1>2, <1>3, <1>5 DEF Tracked
<1>7. FlaggedInSilence(c)
  <2>1. \A x \in Tracked(b) : x \in Orders
    BY BookTypes DEF BookIsRight
  <2> QED BY <1>1, <1>5, <1>6, <2>1 DEF FlaggedInSilence, SameReports
<1>8. BookIsRight(c, past, {}, complete, once)
  <2>1. \A x \in Orders : c.ended[x] = "fills" => b.ended[x] = "fills"
    BY <1>6
  <2>2. Tracked(c) \subseteq Tracked(b) /\ b.overwritten \subseteq c.overwritten
    BY <1>5, <1>6
  <2>3. \A x \in Tracked(c) : c.tracked_orders[x].filled = b.tracked_orders[x].filled
    BY <1>6
  <2> QED BY <1>5, <1>7, <2>1, <2>2, <2>3, OrdersChangeKeeps
<1> QED BY <1>2, <1>3, <1>5, <1>8 DEF NoLongerTracked

LEMMA EntryChangeKeeps ==
    ASSUME NEW past \in SUBSET Fills, NEW complete, NEW once, NEW b,
           BookIsRight(b, past, {}, complete, once), NEW o \in Tracked(b),
           NEW e \in Entries,
           e.filled = b.tracked_orders[o].filled \/ o \in b.overwritten,
           e.flagged = b.tracked_orders[o].flagged, e.checked = b.tracked_orders[o].checked,
           NEW c, c = [b EXCEPT !.tracked_orders = [b.tracked_orders EXCEPT ![o] = e]]
    PROVE  BookIsRight(c, past, {}, complete, once) /\ SameReports(b, c) /\ c.ended = b.ended
<1>1. b \in Books /\ FlaggedInSilence(b)
  BY DEF BookIsRight, WellFormed
<1>2. PICK entries \in Dictionaries(Entries) :
        entries = [b.tracked_orders EXCEPT ![o] = e] /\ DOMAIN entries = Tracked(b)
  BY <1>1, DictionaryChanges DEF Books, Tracked
<1>3. c = [b EXCEPT !.tracked_orders = entries]
  BY <1>2
<1>4. /\ c \in Books /\ SameReports(b, c) /\ SameBuffers(b, c)
      /\ c.tracked_orders = entries /\ c.ended = b.ended
      /\ c.received = b.received /\ c.overwritten = b.overwritten
  BY <1>1, <1>3 DEF Books, SameReports, SameBuffers
<1>5. /\ Tracked(c) = Tracked(b) /\ c.tracked_orders[o] = e
      /\ \A x \in Tracked(b) : x /= o => c.tracked_orders[x] = b.tracked_orders[x]
  BY <1>2, <1>4 DEF Tracked
<1>6. FlaggedInSilence(c)
  BY <1>1, <1>4, <1>5 DEF FlaggedInSilence, SameReports
<1>7. BookIsRight(c, past, {}, complete, once)
  <2>1. \A x \in Tracked(c) \ c.overwritten :
          c.tracked_orders[x].filled = b.tracked_orders[x].filled
    BY <1>4, <1>5
  <2> QED BY <1>4, <1>5, <1>6, <2>1, OrdersChangeKeeps
<1> QED BY <1>4, <1>7

\* Flagged orders are flagged at this check; those that are given up end.
LEMMA CheckKeeps ==
    ASSUME NEW past \in SUBSET Fills, NEW complete, NEW once, NEW b,
           BookIsRight(b, past, {}, complete, once), NEW c, c = CheckTimeouts(b)
    PROVE  /\ BookIsRight(c, past, {}, complete, once) /\ SameReports(b, c)
           /\ \A o \in Tracked(b) : c.ended[o] = "timeout" => Finalises(b.tracked_orders[o])
<1>1. b \in Books /\ FlaggedInSilence(b)
  BY DEF BookIsRight, WellFormed
<1>2. /\ \A o \in Tracked(b) : /\ o \in Orders /\ o \in DOMAIN b.order_fills
                               /\ b.tracked_orders[o] \in Entries
      /\ b.ended \in [Orders -> Ends]
      /\ \A o \in DOMAIN b.order_fills : b.order_fills[o] \in Seq(FillsOf(o, past))
  BY BookTypes DEF BookIsRight
<1> DEFINE Checked(o) == [b.tracked_orders[o] EXCEPT
                             !.flagged = @ \/ Late(b.tracked_orders[o]),
                             !.checked = Len(b.order_fills[o])]
           gone == {o \in Tracked(b) : Finalises(b.tracked_orders[o])}
           Kept(o) == IF b.tracked_orders[o].overdue THEN Checked(o) ELSE b.tracked_orders[o]
<1>3. ASSUME NEW o \in Tracked(b)
      PROVE  /\ Checked(o) \in Entries /\ Checked(o).filled = b.tracked_orders[o].filled
             /\ Checked(o).checked = Len(b.order_fills[o])
  <2>1. PICK n \in Nat : n = Len(b.order_fills[o])
    BY <1>2
  <2>2. PICK e \in Entries : e = b.tracked_orders[o]
    BY <1>2
  <2>3. PICK flag \in BOOLEAN : flag = (e.flagged \/ Late(e))
    OBVIOUS
  <2>4. Checked(o) = [e EXCEPT !.flagged = flag, !.checked = n]
    BY <2>1, <2>2, <2>3 DEF Entries
  <2> QED BY <2>1, <2>2, <2>4 DEF Entries
<1>4. ASSUME NEW o \in Tracked(b)
      PROVE  /\ Kept(o) \in Entries /\ Kept(o).filled = b.tracked_orders[o].filled
             /\ Kept(o).flagged => Kept(o).checked = Len(b.order_fills[o])
  <2>1. CASE b.tracked_orders[o].overdue
    <3> HIDE DEF Checked
    <3> QED BY <1>3, <2>1
  <2>2. CASE ~b.tracked_orders[o].overdue
    <3> HIDE DEF Checked
    <3> QED BY <1>1, <1>2, <2>2 DEF FlaggedInSilence
  <2> QED BY <2>1, <2>2
<1>5. PICK entries \in Dictionaries(Entries) : entries = [o \in Tracked(b) \ gone |-> Kept(o)]
  <2> HIDE DEF Kept, gone
  <2>1. [o \in Tracked(b) \ gone |-> Kept(o)] \in [Tracked(b) \ gone -> Entries]
    BY <1>4
  <2>2. Tracked(b) \ gone \in SUBSET Orders
    BY <1>2
  <2> QED BY <2>1, <2>2 DEF Dictionaries
<1>6. PICK ends \in [Orders -> Ends] :
        ends = [o \in Orders |-> IF o \in gone THEN "timeout" ELSE b.ended[o]]
  BY <1>2 DEF Ends
<1>7. c = [b EXCEPT !.tracked_orders = entries, !.ended = ends]
  <2>1. c = [b EXCEPT !.tracked_orders = [o \in Tracked(b) \ gone |->
                                            IF @[o].overdue THEN Checked(o) ELSE @[o]],
                      !.ended = [o \in Orders |-> IF o \in gone THEN "timeout" ELSE @[o]]]
    BY DEF CheckTimeouts
  <2> HIDE DEF Checked, gone
  <2> QED BY <1>1, <1>5, <1>6, <2>1 DEF Books
<1> HIDE DEF Kept
<1>8. /\ c \in Books /\ SameReports(b, c) /\ SameBuffers(b, c)
      /\ c.tracked_orders = entries /\ c.ended = ends
      /\ c.received = b.received /\ c.overwritten = b.overwritten
  BY <1>1, <1>7 DEF Books, SameReports, SameBuffers
<1>9. /\ Tracked(c) = Tracked(b) \ gone
      /\ \A o \in Tracked(c) : c.tracked_orders[o] = Kept(o)
      /\ \A o \in Orders : c.ended[o] = IF o \in gone THEN "timeout" ELSE b.ended[o]
  BY <1>5, <1>6, <1>8 DEF Tracked
<1>10. FlaggedInSilence(c)
  <2> HIDE DEF gone
  <2> QED BY <1>1, <1>2, <1>4, <1>8, <1>9 DEF FlaggedInSilence, SameReports
<1>11. BookIsRight(c, past, {}, complete, once)
  <2> HIDE DEF gone
  <2>1. \A o \in Tracked(c) : c.tracked_orders[o].filled = b.tracked_orders[o].filled
    BY <1>4, <1>9
  <2>2. \A o \in Orders : c.ended[o] = "fills" => b.ended[o] = "fills"
    BY <1>9
  <2> QED BY <1>8, <1>9, <1>10, <2>1, <2>2, OrdersChangeKeeps
<1>12. \A o \in Tracked(b) : c.ended[o] = "timeout" => Finalises(b.tracked_orders[o])
  BY <1>1, <1>2, <1>9 DEF FlaggedInSilence
<1> QED BY <1>8, <1>11, <1>12


-----------------------------------------------------------------------------
(* The actions                                                             *)

\* Nothing tracked is given up by timeout, unless it was flagged in silence.
GivesUp ==
    \A o \in Tracked(book) :
        /\ book'.ended[o] = "timeout"
        /\ ~book.tracked_orders[o].cancel_confirmed
        => book.tracked_orders[o].checked = Len(book.order_fills[o])

\* What IndInv says of the book.
LEMMA BookOfInv ==
    ASSUME IndInv
    PROVE  /\ BookIsRight(book, executed, {}, Complete, up /\ Durable)
           /\ WellFormed(book, executed) /\ FlaggedInSilence(book)
           /\ book \in Books /\ executed \in SUBSET Fills
           /\ \A o \in Orders : Size(FillsOf(o, executed)) <= OrderSize[o]
           /\ \A o \in Tracked(book) : book.ended[o] = "no"
           /\ Tracked(book) \subseteq Orders
<1>1. WellFormed(book, executed) /\ executed \in SUBSET Fills
  BY DEF IndInv, BookIsRight, ExchangeInv
<1>2. Tracked(book) \subseteq Orders
  BY <1>1, BookTypes
<1> QED BY <1>1, <1>2 DEF IndInv, BookIsRight, ExchangeInv, WellFormed, FlaggedInSilence

\* Only a process that is up has a book worth changing.
LEMMA BookChanged ==
    ASSUME IndInv, up, executed' = executed, persisted' = persisted, up' = up, faults' = faults,
           BookIsRight(book', executed, {}, Complete, up /\ Durable), SameReports(book, book')
    PROVE  StoreInv' /\ BookIsRight(book', executed', {}, Complete', (up /\ Durable)')
<1>1. Complete' = Complete /\ (up /\ Durable)' = (up /\ Durable) /\ Durable' = Durable
  BY DEF Complete, Durable
<1>2. StoreInv'
  BY <1>1 DEF IndInv, StoreInv, SameReports, Once
<1>3. BookIsRight(book', executed', {}, Complete', (up /\ Durable)')
  BY <1>1
<1> QED BY <1>2, <1>3

LEMMA FillArrives ==
    ASSUME IndInv, NEW f \in Fills, HandleWsFill(f)
    PROVE  StoreInv' /\ BookIsRight(book', executed', {}, Complete', (up /\ Durable)') /\ GivesUp
<1> USE BookOfInv
<1>1. PICK c : c = Process(book, f, FALSE)
  OBVIOUS
<1>2. up /\ f \in executed /\ Install(c) /\ executed' = executed /\ up' = up /\ faults' = faults
  BY <1>1 DEF HandleWsFill
<1>3. BookIsRight(book, executed, {}, Complete, Durable)
  <2>1. (up /\ Durable) = Durable
    BY <1>2 DEF Durable
  <2> QED BY <2>1
<1>4. BookIsRight(c, executed, {}, Complete, Durable) /\ Follows(book, c)
  <2>1. PICK none : none = {}
    OBVIOUS
  <2>2. none \subseteq none \union {f} /\ BookIsRight(book, executed, none, Complete, Durable)
    BY <1>3, <2>1
  <2>3. PICK from_buffer \in BOOLEAN : ~from_buffer /\ c = Process(book, f, from_buffer)
    BY <1>1
  <2>4. f \in executed
    BY <1>2
  <2>5. BookIsRight(c, executed, none, Complete, Durable) /\ Follows(book, c)
    BY <2>2, <2>3, <2>4, ProcessKeeps
  <2> QED BY <2>1, <2>5
<1>5. StoreInv' /\ BookIsRight(book', executed', {}, Complete', (up /\ Durable)')
  <2>1. book.seen \subseteq c.seen /\ \A g \in Fills : book.reported[g] > 0 => c.reported[g] > 0
    BY <1>4 DEF Follows
  <2> QED BY <1>2, <1>4, <2>1, InstallKeeps
<1>6. GivesUp
  BY <1>2, <1>4 DEF GivesUp, Install, Follows
<1> QED BY <1>5, <1>6

LEMMA HistoryArrives ==
    ASSUME IndInv, PollFetched
    PROVE  StoreInv' /\ BookIsRight(book', executed', {}, Complete', (up /\ Durable)') /\ GivesUp
<1> USE BookOfInv
<1>0. PICK o \in poll.current : \E answer \in SetToSeqs(FillsOf(o, executed)) :
        Install(ProcessAll(book, answer, FALSE))
  BY DEF PollFetched
<1>1. PICK answer \in SetToSeqs(FillsOf(o, executed)) : Install(ProcessAll(book, answer, FALSE))
  BY <1>0
<1>2. answer \in Seq(executed)
  <2>1. FillsOf(o, executed) \subseteq executed /\ FillsOf(o, executed) \in SUBSET Fills
    BY DEF FillsOf
  <2>2. Cardinality(FillsOf(o, executed)) \in Nat
    BY <2>1, SizeType, FS_CardinalityType
  <2>3. answer \in [1..Cardinality(FillsOf(o, executed)) -> FillsOf(o, executed)]
    BY DEF SetToSeqs
  <2> QED BY <2>1, <2>2, <2>3
<1>3. PICK c : c = ProcessAll(book, answer, FALSE)
  OBVIOUS
<1>4. up /\ Install(c) /\ executed' = executed /\ up' = up /\ faults' = faults
  BY <1>1, <1>3 DEF PollFetched
<1>5. BookIsRight(book, executed, {}, Complete, Durable)
  <2>1. (up /\ Durable) = Durable
    BY <1>4 DEF Durable
  <2> QED BY <2>1
<1>6. BookIsRight(c, executed, {}, Complete, Durable) /\ Follows(book, c)
  BY <1>2, <1>3, <1>5, ProcessAllKeeps
<1>7. StoreInv' /\ BookIsRight(book', executed', {}, Complete', (up /\ Durable)')
  <2>1. book.seen \subseteq c.seen /\ \A g \in Fills : book.reported[g] > 0 => c.reported[g] > 0
    BY <1>6 DEF Follows
  <2> QED BY <1>4, <1>6, <2>1, InstallKeeps
<1>8. GivesUp
  BY <1>4, <1>6 DEF GivesUp, Install, Follows
<1> QED BY <1>7, <1>8

LEMMA TrackingStarts ==
    ASSUME IndInv, NEW o \in Orders, TrackOrder(o)
    PROVE  StoreInv' /\ BookIsRight(book', executed', {}, Complete', (up /\ Durable)') /\ GivesUp
<1> USE BookOfInv
<1>1. PICK b : b = [book EXCEPT !.tracked_orders = With(book.tracked_orders, o, NewEntry),
                                !.order_fills = With(book.order_fills, o, <<>>),
                                !.ended = [book.ended EXCEPT ![o] = "no"]]
  OBVIOUS
<1>2. PICK d : d = Started(book, o)
  OBVIOUS
<1>3. PICK queue : queue = book.early[o]
  OBVIOUS
<1>4. PICK c : c = ProcessAll(d, queue, TRUE)
  OBVIOUS
<1>5. /\ up /\ o \notin DOMAIN book.order_fills /\ Install(c)
      /\ executed' = executed /\ up' = up /\ faults' = faults
  <2>1. b.early = book.early /\ [b EXCEPT !.early = [b.early EXCEPT ![o] = <<>>]] = d
    BY <1>1, <1>2 DEF Books, Started
  <2>2. Replay(b, o) = c
    BY <1>3, <1>4, <2>1 DEF Replay
  <2> QED BY <1>1, <2>2 DEF TrackOrder
<1>6. BookIsRight(book, executed, {}, Complete, Durable)
  <2>1. (up /\ Durable) = Durable
    BY <1>5 DEF Durable
  <2> QED BY <2>1
<1>7. /\ BookIsRight(d, executed, ToSet(queue), Complete, Durable)
      /\ DOMAIN d.order_fills = DOMAIN book.order_fills \union {o}
      /\ d.seen = book.seen /\ d.reported = book.reported
      /\ \A x \in Orders : d.ended[x] = book.ended[x] \/ d.ended[x] = "no"
  <2>1. executed \in SUBSET Fills /\ o \notin DOMAIN book.order_fills
    BY <1>5
  <2>4. /\ BookIsRight(d, executed, ToSet(book.early[o]), Complete, Durable)
        /\ DOMAIN d.order_fills = DOMAIN book.order_fills \union {o}
        /\ d.seen = book.seen /\ d.reported = book.reported
        /\ \A x \in Orders : d.ended[x] = book.ended[x] \/ d.ended[x] = "no"
    <3>1. BookIsRight(d, executed, ToSet(book.early[o]), Complete, Durable)
      BY <1>2, <1>6, <2>1, TrackKeeps
    <3>2. DOMAIN d.order_fills = DOMAIN book.order_fills \union {o}
      BY <1>2, <1>6, <2>1, TrackKeeps
    <3>3. d.seen = book.seen /\ d.reported = book.reported
      BY <1>2, <1>6, <2>1, TrackKeeps
    <3>4. \A x \in Orders : d.ended[x] = book.ended[x] \/ d.ended[x] = "no"
      BY <1>2, <1>6, <2>1, TrackKeeps
    <3> QED BY <3>1, <3>2, <3>3, <3>4
  <2> QED BY <1>3, <2>4
<1>8. queue \in Seq(executed) /\ \A f \in ToSet(queue) : f.order = o
  <2>1. queue \in Seq(FillsOf(o, book.received)) /\ FillsOf(o, book.received) \subseteq executed
    BY <1>3 DEF WellFormed, FillsOf
  <2>2. queue \in Seq(executed) /\ ToSet(queue) \subseteq FillsOf(o, book.received)
    BY <2>1, QueuesOfMore
  <2> QED BY <2>2 DEF FillsOf
<1>9. BookIsRight(c, executed, {}, Complete, Durable) /\ Follows(d, c)
  BY <1>4, <1>7, <1>8, ProcessAllKeeps
<1>10. StoreInv' /\ BookIsRight(book', executed', {}, Complete', (up /\ Durable)')
  <2>1. book.seen \subseteq c.seen /\ \A g \in Fills : book.reported[g] > 0 => c.reported[g] > 0
    BY <1>7, <1>9 DEF Follows
  <2> QED BY <1>5, <1>9, <2>1, InstallKeeps
<1>11. GivesUp
  <2>1. \A x \in Tracked(book) : c.ended[x] /= "timeout"
    BY <1>7, <1>9 DEF Follows
  <2> QED BY <1>5, <2>1 DEF GivesUp, Install
<1> QED BY <1>10, <1>11


\* An order update overwrites the entry or ends its tracking.
LEMMA UpdateArrives ==
    ASSUME IndInv, NEW o \in Orders, HandleWsOrderUpdate(o)
    PROVE  StoreInv' /\ BookIsRight(book', executed', {}, Complete', (up /\ Durable)') /\ GivesUp
<1> USE BookOfInv
<1>1. /\ up /\ o \in Tracked(book) /\ executed' = executed /\ persisted' = persisted
      /\ up' = up /\ faults' = faults
  BY DEF HandleWsOrderUpdate
<1>2. PICK once : once = (up /\ Durable)
  OBVIOUS
<1>3. PICK b : b = [book EXCEPT !.overwritten = book.overwritten \union {o}]
  OBVIOUS
<1>4. PICK update \in Updates(o) :
        book' = IF update.status /= "open" THEN Stop(b, o, "update")
                ELSE [b EXCEPT !.tracked_orders[o].filled = update.filled,
                               !.tracked_orders[o].status = "ACKNOWLEDGED"]
  BY <1>3 DEF HandleWsOrderUpdate
<1>5. update.filled \in Nat
  <2>1. \A past \in SUBSET FillsOf(o, executed) : Size(past) \in Nat
    BY SizeType DEF FillsOf
  <2>2. FillsOf(o, executed) \in SUBSET FillsOf(o, executed)
    OBVIOUS
  <2> QED BY <2>1, <2>2 DEF Updates
<1>6. BookIsRight(b, executed, {}, Complete, once)
  BY <1>2, <1>3, OverwriteKeeps
<1>7. SameReports(book, b) /\ SameOrders(book, b) /\ o \in b.overwritten
  BY <1>2, <1>3, OverwriteKeeps
<1>8. o \in Tracked(b) /\ b \in Books /\ b.tracked_orders[o] \in Entries
  <2>1. WellFormed(b, executed)
    BY <1>6 DEF BookIsRight
  <2>2. o \in Tracked(b)
    BY <1>1, <1>7 DEF SameOrders, Tracked
  <2> QED BY <2>1, <2>2, BookTypes
<1>9. CASE update.status /= "open"
  <2>1. PICK c : c = Stop(b, o, "update") /\ book' = c
    BY <1>4, <1>9
  <2>2. PICK why \in Ends : why = "update" /\ why /= "fills"
    BY DEF Ends
  <2>3. c = Stop(b, o, why)
    BY <2>1, <2>2
  <2>4. BookIsRight(c, executed, {}, Complete, once)
    BY <1>6, <1>8, <2>2, <2>3, StopKeeps
  <2>5. SameReports(b, c) /\ NoLongerTracked(b, c, o, why)
    BY <1>6, <1>8, <2>2, <2>3, StopKeeps
  <2>6. SameReports(book, book')
    BY <1>7, <2>1, <2>5 DEF SameReports
  <2>7. GivesUp
    <3>1. b.ended = book.ended /\ b.ended \in [Orders -> Ends]
      BY <1>7, <1>8 DEF SameOrders, Books
    <3>2. \A x \in Tracked(book) : c.ended[x] /= "timeout"
      BY <2>2, <2>5, <3>1 DEF NoLongerTracked
    <3> QED BY <2>1, <3>2 DEF GivesUp
  <2> QED BY <1>1, <1>2, <2>1, <2>4, <2>6, <2>7, BookChanged
<1>10. CASE ~(update.status /= "open")
  <2>1. PICK e \in Entries : e = [b.tracked_orders[o] EXCEPT !.filled = update.filled, !.status = "ACKNOWLEDGED"]
    BY <1>5, <1>8 DEF Entries, Statuses
  <2>2. e.flagged = b.tracked_orders[o].flagged /\ e.checked = b.tracked_orders[o].checked
    BY <1>8, <2>1 DEF Entries
  <2>3. PICK c : c = [b EXCEPT !.tracked_orders = [b.tracked_orders EXCEPT ![o] = e]] /\ book' = c
    BY <1>4, <1>8, <1>10, <2>1 DEF Books, Tracked
  <2>4. BookIsRight(c, executed, {}, Complete, once)
    BY <1>6, <1>7, <1>8, <2>2, <2>3, EntryChangeKeeps
  <2>5. SameReports(b, c) /\ c.ended = b.ended
    <3>1. SameReports(b, c)
      BY <1>6, <1>7, <1>8, <2>2, <2>3, EntryChangeKeeps
    <3>2. c.ended = b.ended
      BY <1>6, <1>7, <1>8, <2>2, <2>3, EntryChangeKeeps
    <3> QED BY <3>1, <3>2
  <2>6. SameReports(book, book')
    BY <1>7, <2>3, <2>5 DEF SameReports
  <2>7. GivesUp
    BY <1>7, <2>3, <2>5 DEF GivesUp, SameOrders
  <2> QED BY <1>1, <1>2, <2>3, <2>4, <2>6, <2>7, BookChanged
<1> QED BY <1>9, <1>10

\* UntrackOrder, ConfirmCancel and Overdue.
LEMMA OrderTouched ==
    ASSUME IndInv, NEW o \in Orders, UntrackOrder(o) \/ ConfirmCancel(o) \/ Overdue(o)
    PROVE  StoreInv' /\ BookIsRight(book', executed', {}, Complete', (up /\ Durable)') /\ GivesUp
<1> USE BookOfInv
<1>1. /\ o \in Tracked(book) /\ executed' = executed /\ persisted' = persisted
      /\ up' = up /\ faults' = faults
  BY DEF UntrackOrder, ConfirmCancel, Overdue
<1>2. up
  <2>1. ~up => Tracked(book) = {}
    <3> SUFFICES ASSUME ~up PROVE Tracked(book) = {}
      OBVIOUS
    <3>1. PICK reports : book = [EmptyBook EXCEPT !.reported = reports]
      BY DEF IndInv, StoreInv
    <3>2. [EmptyBook EXCEPT !.reported = reports].tracked_orders = NoOrders
      BY DEF EmptyBook
    <3>3. book.tracked_orders = NoOrders
      BY <3>1, <3>2
    <3> QED BY <3>3 DEF Tracked, NoOrders
  <2> QED BY <1>1, <2>1
<1>3. PICK once : once = (up /\ Durable)
  OBVIOUS
<1>4. book.tracked_orders[o] \in Entries
  BY <1>1, BookTypes
<1>5. CASE UntrackOrder(o)
  <2>1. PICK c : c = Stop(book, o, "untracked") /\ book' = c
    BY <1>5 DEF UntrackOrder
  <2>2. PICK why \in Ends : why = "untracked" /\ why /= "fills"
    BY DEF Ends
  <2>3. c = Stop(book, o, why)
    BY <2>1, <2>2
  <2>4. BookIsRight(c, executed, {}, Complete, once)
    BY <1>1, <1>3, <2>2, <2>3, StopKeeps
  <2>5. SameReports(book, c) /\ NoLongerTracked(book, c, o, why)
    BY <1>1, <1>3, <2>2, <2>3, StopKeeps
  <2>6. GivesUp
    BY <2>1, <2>2, <2>5 DEF GivesUp, NoLongerTracked, Books
  <2> QED BY <1>1, <1>2, <1>3, <2>1, <2>4, <2>5, <2>6, BookChanged
<1>6. ASSUME NEW e \in Entries, e.filled = book.tracked_orders[o].filled,
             e.flagged = book.tracked_orders[o].flagged, e.checked = book.tracked_orders[o].checked,
             book' = [book EXCEPT !.tracked_orders = [book.tracked_orders EXCEPT ![o] = e]]
      PROVE  StoreInv' /\ BookIsRight(book', executed', {}, Complete', (up /\ Durable)') /\ GivesUp
  <2>1. PICK c : c = [book EXCEPT !.tracked_orders = [book.tracked_orders EXCEPT ![o] = e]] /\ book' = c
    BY <1>6
  <2>2. BookIsRight(c, executed, {}, Complete, once)
    BY <1>1, <1>3, <1>6, <2>1, EntryChangeKeeps
  <2>3. SameReports(book, c) /\ c.ended = book.ended
    <3>1. SameReports(book, c)
      BY <1>1, <1>3, <1>6, <2>1, EntryChangeKeeps
    <3>2. c.ended = book.ended
      BY <1>1, <1>3, <1>6, <2>1, EntryChangeKeeps
    <3> QED BY <3>1, <3>2
  <2>4. GivesUp
    BY <2>1, <2>3 DEF GivesUp
  <2> QED BY <1>1, <1>2, <1>3, <2>1, <2>2, <2>3, <2>4, BookChanged
<1>7. CASE ConfirmCancel(o)
  <2>1. PICK e \in Entries : e = [book.tracked_orders[o] EXCEPT !.cancel_confirmed = TRUE]
    BY <1>4 DEF Entries
  <2>2. /\ e.filled = book.tracked_orders[o].filled /\ e.flagged = book.tracked_orders[o].flagged
        /\ e.checked = book.tracked_orders[o].checked
    BY <1>4, <2>1 DEF Entries
  <2>3. book' = [book EXCEPT !.tracked_orders = [book.tracked_orders EXCEPT ![o] = e]]
    BY <1>7, <2>1 DEF ConfirmCancel, Books
  <2> QED BY <1>6, <2>2, <2>3
<1>8. CASE Overdue(o)
  <2>1. PICK e \in Entries : e = [book.tracked_orders[o] EXCEPT !.overdue = TRUE]
    BY <1>4 DEF Entries
  <2>2. /\ e.filled = book.tracked_orders[o].filled /\ e.flagged = book.tracked_orders[o].flagged
        /\ e.checked = book.tracked_orders[o].checked
    BY <1>4, <2>1 DEF Entries
  <2>3. book' = [book EXCEPT !.tracked_orders = [book.tracked_orders EXCEPT ![o] = e]]
    BY <1>8, <2>1 DEF Overdue, Books
  <2> QED BY <1>6, <2>2, <2>3
<1> QED BY <1>5, <1>7, <1>8

LEMMA TimeoutsChecked ==
    ASSUME IndInv, PollCheckTimeouts
    PROVE  StoreInv' /\ BookIsRight(book', executed', {}, Complete', (up /\ Durable)') /\ GivesUp
<1> USE BookOfInv
<1>1. PICK c : c = CheckTimeouts(book) /\ book' = c
  BY DEF PollCheckTimeouts
<1>2. up /\ executed' = executed /\ persisted' = persisted /\ up' = up /\ faults' = faults
  BY DEF PollCheckTimeouts
<1>3. PICK once : once = (up /\ Durable)
  OBVIOUS
<1>4. BookIsRight(c, executed, {}, Complete, once)
  BY <1>1, <1>3, CheckKeeps
<1>5. SameReports(book, c)
  BY <1>1, <1>3, CheckKeeps
<1>6. \A o \in Tracked(book) : c.ended[o] = "timeout" => Finalises(book.tracked_orders[o])
  BY <1>1, <1>3, CheckKeeps
<1>7. GivesUp
  BY <1>1, <1>6 DEF GivesUp, Finalises, FlaggedInSilence
<1> QED BY <1>1, <1>2, <1>3, <1>4, <1>5, <1>7, BookChanged

\* What is executed grows, at an exchange that fills no order beyond its size.
LEMMA FillExecuted ==
    ASSUME IndInv, NEW f \in Fills, Execute(f)
    PROVE  ExchangeInv' /\ StoreInv' /\ BookIsRight(book', executed', {}, Complete', (up /\ Durable)')
<1> USE BookOfInv
<1>1. PICK past \in SUBSET Fills : past = executed
  OBVIOUS
<1>2. /\ f \notin past /\ Size(FillsOf(f.order, past)) + f.size <= OrderSize[f.order]
      /\ executed' = past \union {f} /\ canceled' = canceled /\ book' = book
      /\ persisted' = persisted /\ up' = up /\ faults' = faults
  BY <1>1 DEF Execute
<1>3. Complete' = Complete /\ (up /\ Durable)' = (up /\ Durable) /\ Durable' = Durable
  BY <1>2 DEF Complete, Durable
<1>4. ExchangeInv'
  <2>1. \A o \in Orders : Size(FillsOf(o, past \union {f})) <= OrderSize[o]
    <3>1. ASSUME NEW o \in Orders
          PROVE  Size(FillsOf(o, past \union {f})) <= OrderSize[o]
      <4>1. CASE o = f.order
        <5>1. FillsOf(o, past \union {f}) = FillsOf(o, past) \union {f} /\ f \notin FillsOf(o, past)
          BY <1>2, <4>1 DEF FillsOf
        <5>2. FillsOf(o, past) \in SUBSET Fills
          BY DEF FillsOf
        <5>3. Size(FillsOf(o, past) \union {f}) = Size(FillsOf(o, past)) + f.size
          BY <5>1, <5>2, SizeOfMore
        <5> QED BY <1>2, <4>1, <5>1, <5>3
      <4>2. CASE o /= f.order
        <5>1. FillsOf(o, past \union {f}) = FillsOf(o, past)
          BY <4>2 DEF FillsOf
        <5> QED BY <1>1, <5>1
      <4> QED BY <4>1, <4>2
    <3> QED BY <3>1
  <2> QED BY <1>2, <2>1 DEF IndInv, ExchangeInv
<1>5. PICK once : once = (up /\ Durable)
  OBVIOUS
<1>6. BookIsRight(book, past \union {f}, {}, Complete, once)
  <2>1. BookIsRight(book, past, {}, Complete, once)
    BY <1>1, <1>5
  <2> QED BY <1>2, <2>1, PastGrows
<1>7. StoreInv'
  <2>1. persisted \subseteq {FillId(g) : g \in past \union {f}}
    BY <1>1 DEF IndInv, StoreInv
  <2> QED BY <1>2, <1>3, <2>1 DEF IndInv, StoreInv
<1> QED BY <1>2, <1>3, <1>4, <1>5, <1>6, <1>7

\* A crash, at any time or between the id of a fill and its report.
LEMMA MemoryLost ==
    ASSUME IndInv, Crash \/ \E f \in Fills : CrashInFill(f)
    PROVE  /\ StoreInv' /\ BookIsRight(book', executed', {}, Complete', (up /\ Durable)') /\ PollInv'
           /\ GivesUp
<1> USE BookOfInv
<1>1. /\ up /\ up' = FALSE /\ executed' = executed /\ faults' = faults
      /\ book' = [EmptyBook EXCEPT !.reported = book.reported] /\ poll' = Sleeping
  BY DEF Crash, CrashInFill, LoseMemory
<1>2. /\ persisted \subseteq persisted' /\ persisted' \subseteq {FillId(f) : f \in executed}
      /\ Complete => persisted' = persisted
  BY DEF Crash, CrashInFill, Complete, IndInv, StoreInv
<1>3. Complete' = Complete /\ Durable' = Durable
  BY <1>1 DEF Complete, Durable
<1>4. PICK reports \in [Fills -> 0..MaxReports] : reports = book.reported
  BY DEF Books
<1>5. PICK c : c = book' /\ c = [EmptyBook EXCEPT !.reported = reports]
  BY <1>1, <1>4
<1>6. c = [EmptyBook EXCEPT !.reported = reports, !.seen = {}]
  <2>1. EmptyBook.seen = {} /\ DOMAIN EmptyBook = DOMAIN EmptyBook
    BY DEF EmptyBook
  <2>2. [EmptyBook EXCEPT !.seen = {}] = EmptyBook
    BY <2>1 DEF EmptyBook
  <2>3. c.seen = {} /\ [c EXCEPT !.seen = {}] = c
    BY <1>5, <2>1 DEF EmptyBook
  <2> QED BY <1>5, <2>3
<1>7. PICK ids \in SUBSET {FillId(f) : f \in executed} : ids = {}
  OBVIOUS
<1>8. BookIsRight(c, executed, {}, Complete, FALSE) /\ c.reported = reports
  <2>1. PICK once : once = FALSE
    OBVIOUS
  <2>2. RightIds(reports, ids, Complete, once)
    BY <1>7, <2>1 DEF RightIds
  <2>3. c = NewBook(reports, ids)
    BY <1>6, <1>7 DEF NewBook
  <2>4. BookIsRight(c, executed, {}, Complete, once)
    BY <2>1, <2>2, <2>3, NewBookIsRight
  <2>5. c.reported = reports
    BY <2>1, <2>2, <2>3, NewBookIsRight
  <2> QED BY <2>1, <2>4, <2>5
<1>9. BookIsRight(book', executed', {}, Complete', (up /\ Durable)')
  <2>1. (up /\ Durable)' = FALSE
    BY <1>1
  <2> QED BY <1>1, <1>3, <1>5, <1>8, <2>1
<1>10. StoreInv'
  <2>1. up' \in BOOLEAN /\ faults' \in FaultModels
    BY <1>1 DEF IndInv, StoreInv
  <2>2. Complete => \A f \in Fills : FillId(f) \in persisted' => book'.reported[f] > 0
    BY <1>2, <1>4, <1>5, <1>8 DEF IndInv, StoreInv
  <2>3. Durable => Once(book', persisted')
    BY <1>2, <1>4, <1>5, <1>8 DEF IndInv, StoreInv, Once
  <2>4. book' = [EmptyBook EXCEPT !.reported = book'.reported]
    BY <1>1, <1>4, <1>5, <1>8
  <2> QED BY <1>1, <1>2, <1>3, <2>1, <2>2, <2>3, <2>4 DEF StoreInv
<1>11. PollInv'
  BY <1>1 DEF PollInv, Sleeping
<1>12. GivesUp
  <2>1. EmptyBook.ended = [o \in Orders |-> "no"]
    BY DEF EmptyBook
  <2>2. \A o \in Orders : book'.ended[o] = "no"
    BY <1>1, <2>1
  <2> QED BY <2>2 DEF GivesUp
<1> QED BY <1>9, <1>10, <1>11, <1>12

LEMMA Restarted ==
    ASSUME IndInv, Restart
    PROVE  StoreInv' /\ BookIsRight(book', executed', {}, Complete', (up /\ Durable)') /\ GivesUp
<1> USE BookOfInv
<1>1. /\ ~up /\ up' /\ executed' = executed /\ faults' = faults /\ persisted' = persisted
      /\ book' = [book EXCEPT !.seen = Load] /\ up' = TRUE
  BY DEF Restart
<1>2. Complete' = Complete /\ Durable' = Durable
  BY <1>1 DEF Complete, Durable
<1>3. PICK ids \in SUBSET {FillId(f) : f \in executed} : ids = Load /\ ids \subseteq persisted
  BY DEF Load, IndInv, StoreInv
<1>4. Durable => ids = persisted
  BY <1>3 DEF Durable, Load
<1>5. PICK reports \in [Fills -> 0..MaxReports] :
        reports = book.reported /\ book = [EmptyBook EXCEPT !.reported = reports]
  BY <1>1 DEF Books, IndInv, StoreInv
<1>6. PICK c : c = book' /\ c = NewBook(reports, ids)
  BY <1>1, <1>3, <1>5 DEF NewBook
<1>7. Complete => \A f \in Fills : FillId(f) \in persisted => reports[f] > 0
  BY <1>5 DEF IndInv, StoreInv
<1>8. Durable => \A f \in Fills : reports[f] <= 1 /\ (reports[f] > 0 => FillId(f) \in persisted)
  BY <1>5 DEF IndInv, StoreInv, Once
<1>9. RightIds(reports, ids, Complete, Durable)
  BY <1>3, <1>4, <1>7, <1>8 DEF RightIds
<1>10. BookIsRight(c, executed, {}, Complete, Durable) /\ c.reported = reports /\ c.seen = ids
  <2>1. BookIsRight(c, executed, {}, Complete, Durable)
    BY <1>6, <1>9, NewBookIsRight
  <2>2. c.reported = reports /\ c.seen = ids
    BY <1>6 DEF NewBook, EmptyBook
  <2> QED BY <2>1, <2>2
<1>11. BookIsRight(book', executed', {}, Complete', (up /\ Durable)')
  <2>1. (up /\ Durable)' = Durable
    BY <1>1, <1>2 DEF Durable
  <2> QED BY <1>1, <1>2, <1>6, <1>10, <2>1
<1>12. StoreInv'
  <2>1. Complete => \A f \in Fills : FillId(f) \in persisted => c.reported[f] > 0
    BY <1>7, <1>10
  <2>2. Durable => Once(c, persisted) /\ c.seen = persisted
    BY <1>4, <1>8, <1>10 DEF Once
  <2>3. up' \in BOOLEAN /\ faults' \in FaultModels /\ persisted' \subseteq {FillId(f) : f \in executed'}
    BY <1>1 DEF IndInv, StoreInv
  <2> QED BY <1>1, <1>2, <1>6, <2>1, <2>2, <2>3 DEF StoreInv
<1>13. GivesUp
  <2>1. c.ended = EmptyBook.ended /\ EmptyBook.ended = [o \in Orders |-> "no"]
    BY <1>6 DEF EmptyBook, NewBook
  <2>2. \A o \in Orders : c.ended[o] = "no"
    BY <2>1
  <2> QED BY <1>6, <2>2 DEF GivesUp
<1> QED BY <1>11, <1>12, <1>13


-----------------------------------------------------------------------------
(* The theorems                                                            *)

\* IndInv holds of every state that is reached; nothing is given up out of turn.
LEMMA NextKeeps == IndInv /\ [Next]_vars => IndInv' /\ (GivesUp \/ UNCHANGED vars)
<1> SUFFICES ASSUME IndInv, [Next]_vars
             PROVE  IndInv' /\ (GivesUp \/ UNCHANGED vars)
  OBVIOUS
<1> USE BookOfInv
<1> DEFINE Kept == StoreInv' /\ BookIsRight(book', executed', {}, Complete', (up /\ Durable)') /\ GivesUp
           Elsewhere == ExchangeInv' /\ PollInv'
<1>1. ASSUME executed' = executed, canceled' = canceled
      PROVE  ExchangeInv'
  BY <1>1 DEF IndInv, ExchangeInv
<1>2. ASSUME poll' = poll
      PROVE  PollInv'
  BY <1>2 DEF IndInv, PollInv
<1>3. ASSUME book' = book, executed' = executed, persisted' = persisted, up' = up, faults' = faults
      PROVE  Kept
  <2>1. Complete' = Complete /\ (up /\ Durable)' = (up /\ Durable) /\ Durable' = Durable
    BY <1>3 DEF Complete, Durable
  <2>2. StoreInv'
    BY <1>3, <2>1 DEF IndInv, StoreInv
  <2>3. BookIsRight(book', executed', {}, Complete', (up /\ Durable)')
    BY <1>3, <2>1
  <2>4. GivesUp
    BY <1>3 DEF GivesUp
  <2> QED BY <2>2, <2>3, <2>4
<1>4. ASSUME NEW f \in Fills, Execute(f)
      PROVE  Kept /\ Elsewhere
  <2>1. GivesUp
    BY <1>4 DEF Execute, GivesUp
  <2> QED BY <1>2, <1>4, <2>1, FillExecuted DEF Execute
<1>5. ASSUME NEW f \in Fills, HandleWsFill(f)
      PROVE  Kept /\ Elsewhere
  BY <1>1, <1>2, <1>5, FillArrives DEF HandleWsFill
<1>6. ASSUME Crash \/ \E f \in Fills : CrashInFill(f)
      PROVE  Kept /\ Elsewhere
  BY <1>1, <1>6, MemoryLost DEF Crash, CrashInFill
<1>7. ASSUME NEW o \in Orders, CancelAtExchange(o)
      PROVE  Kept /\ Elsewhere
  <2>1. ExchangeInv'
    BY <1>7 DEF CancelAtExchange, IndInv, ExchangeInv
  <2> QED BY <1>2, <1>3, <1>7, <2>1 DEF CancelAtExchange
<1>8. ASSUME NEW o \in Orders, TrackOrder(o)
      PROVE  Kept /\ Elsewhere
  BY <1>1, <1>2, <1>8, TrackingStarts DEF TrackOrder
<1>9. ASSUME NEW o \in Orders, UntrackOrder(o) \/ ConfirmCancel(o) \/ Overdue(o)
      PROVE  Kept /\ Elsewhere
  BY <1>1, <1>2, <1>9, OrderTouched DEF UntrackOrder, ConfirmCancel, Overdue
<1>10. ASSUME NEW o \in Orders, HandleWsOrderUpdate(o)
       PROVE  Kept /\ Elsewhere
  BY <1>1, <1>2, <1>10, UpdateArrives DEF HandleWsOrderUpdate
<1>11. ASSUME PollStep
       PROVE  Kept /\ Elsewhere
  <2>1. ExchangeInv'
    BY <1>1, <1>11 DEF PollStep, PollBegin, PollListed, PollListingFails, PollAsk, PollFetched,
                      PollFetchFails, PollCheckTimeouts
  <2>2. PollInv
    BY DEF IndInv
  <2>3. CASE PollBegin
    <3>1. PollInv'
      BY <2>3 DEF PollBegin, PollInv, OpenOrders
    <3> QED BY <1>3, <2>1, <2>3, <3>1 DEF PollBegin
  <2>4. CASE PollListed
    <3>1. PollInv'
      BY <2>2, <2>4 DEF PollListed, PollInv
    <3> QED BY <1>3, <2>1, <2>4, <3>1 DEF PollListed
  <2>5. CASE PollListingFails
    <3>1. PollInv'
      BY <2>5 DEF PollListingFails, Sleeping, PollInv
    <3> QED BY <1>3, <2>1, <2>5, <3>1 DEF PollListingFails
  <2>6. ASSUME NEW o \in Orders, PollAsk(o)
        PROVE  Kept /\ Elsewhere
    <3>1. PollInv'
      BY <2>2, <2>6 DEF PollAsk, PollInv
    <3> QED BY <1>3, <2>1, <2>6, <3>1 DEF PollAsk
  <2>7. CASE PollFetched
    <3>1. PollInv'
      BY <2>2, <2>7 DEF PollFetched, PollInv
    <3> QED BY <2>1, <2>7, <3>1, HistoryArrives
  <2>8. CASE PollFetchFails
    <3>1. PollInv'
      BY <2>2, <2>8 DEF PollFetchFails, PollInv
    <3> QED BY <1>3, <2>1, <2>8, <3>1 DEF PollFetchFails
  <2>9. CASE PollCheckTimeouts
    <3>1. PollInv'
      BY <2>9 DEF PollCheckTimeouts, Sleeping, PollInv
    <3> QED BY <2>1, <2>9, <3>1, TimeoutsChecked
  <2> QED BY <1>11, <2>3, <2>4, <2>5, <2>6, <2>7, <2>8, <2>9 DEF PollStep
<1>12. ASSUME Restart
       PROVE  Kept /\ Elsewhere
  BY <1>1, <1>2, <1>12, Restarted DEF Restart
<1>13. CASE UNCHANGED vars
  BY <1>1, <1>2, <1>3, <1>13 DEF vars, IndInv
<1>14. ASSUME Kept /\ Elsewhere
       PROVE  IndInv' /\ GivesUp
  BY <1>14 DEF IndInv
<1>15. ASSUME NEW f \in Fills, Execute(f) \/ HandleWsFill(f) \/ CrashInFill(f)
       PROVE  Kept /\ Elsewhere
  <2> HIDE DEF Kept, Elsewhere
  <2> QED BY <1>4, <1>5, <1>6, <1>15
<1>16. ASSUME NEW o \in Orders,
              \/ CancelAtExchange(o) \/ TrackOrder(o) \/ UntrackOrder(o)
              \/ HandleWsOrderUpdate(o) \/ ConfirmCancel(o) \/ Overdue(o)
       PROVE  Kept /\ Elsewhere
  <2> HIDE DEF Kept, Elsewhere
  <2> QED BY <1>7, <1>8, <1>9, <1>10, <1>16
<1>17. CASE Next
  <2>1. Kept /\ Elsewhere
    <3> HIDE DEF Kept, Elsewhere
    <3> QED BY <1>6, <1>11, <1>12, <1>15, <1>16, <1>17 DEF Next
  <2> HIDE DEF Kept, Elsewhere
  <2> QED BY <1>14, <2>1
<1> QED BY <1>13, <1>17

LEMMA Invariant == Spec => []IndInv
<1>1. IndInv /\ [Next]_vars => IndInv'
  BY NextKeeps
<1> QED BY <1>1, InitHolds, PTL DEF Spec

LEMMA InvariantIsEnough ==
    IndInv => TypeOK /\ ReportedOnce /\ TrackedOrdersMissNothing /\ FilledIsWhatFillsSay
<1> SUFFICES ASSUME IndInv
             PROVE  TypeOK /\ ReportedOnce /\ TrackedOrdersMissNothing /\ FilledIsWhatFillsSay
  OBVIOUS
<1>1. /\ BookIsRight(book, executed, {}, Complete, up /\ Durable)
      /\ WellFormed(book, executed) /\ FillsAddUp(book, executed)
      /\ executed \in SUBSET Fills
  BY BookOfInv DEF BookIsRight
<1>2. TypeOK
  <2>1. /\ DOMAIN book.order_fills \subseteq Orders
        /\ \A o \in Tracked(book) : book.tracked_orders[o] \in Entries
        /\ book.ended \in [Orders -> Ends] /\ book.reported \in [Fills -> 0..MaxReports]
    BY <1>1, BookTypes
  <2>2. \A o \in Orders : book.early[o] \in Seq(FillsOf(o, executed))
    <3>1. ASSUME NEW o \in Orders
          PROVE  book.early[o] \in Seq(FillsOf(o, executed))
      <4>1. book.early[o] \in Seq(FillsOf(o, book.received))
        BY <1>1 DEF WellFormed
      <4>2. FillsOf(o, book.received) \subseteq FillsOf(o, executed)
        BY <1>1 DEF WellFormed, FillsOf
      <4> QED BY <4>1, <4>2, QueuesOfMore
    <3> QED BY <3>1
  <2>3. executed \subseteq Fills /\ canceled \subseteq Orders
    BY DEF IndInv, ExchangeInv
  <2>4. book.overwritten \subseteq Orders
    BY <1>1 DEF WellFormed, Books
  <2>5. /\ Tracked(book) \subseteq DOMAIN book.order_fills
        /\ \A o \in DOMAIN book.order_fills : book.order_fills[o] \in Seq(FillsOf(o, executed))
        /\ \A o \in Orders : Len(book.early[o]) <= MaxBuffered
        /\ book.received \subseteq executed /\ book.overflowed \subseteq book.received
        /\ book.seen \subseteq {FillId(f) : f \in executed}
    BY <1>1 DEF WellFormed
  <2>6. /\ persisted \subseteq {FillId(f) : f \in executed} /\ up \in BOOLEAN /\ faults \in FaultModels
    BY DEF IndInv, StoreInv
  <2>7. /\ poll.step \in {"sleeping", "listing", "checking", "fetching"}
        /\ poll.ids \subseteq Orders /\ poll.open \subseteq Orders /\ poll.current \subseteq Orders
    BY DEF IndInv, PollInv
  <2> QED BY <2>1, <2>2, <2>3, <2>4, <2>5, <2>6, <2>7 DEF TypeOK, Ends
<1>3. ReportedOnce
  BY DEF ReportedOnce, IndInv, StoreInv, Durable, Once
<1>4. TrackedOrdersMissNothing
  BY <1>1 DEF TrackedOrdersMissNothing, BookIsRight, Complete, NothingMissed
<1>5. FilledIsWhatFillsSay
  BY <1>1 DEF FilledIsWhatFillsSay, Processed, FillsAddUp, FillsReceived
<1> QED BY <1>2, <1>3, <1>4, <1>5

\* The tracker keeps what its type invariant says: every tracked order has its
\* list of fills, and no buffer of early fills outgrows its bound.
THEOREM TypeCorrect == Spec => []TypeOK
<1>1. IndInv => TypeOK
  BY InvariantIsEnough
<1> QED BY <1>1, Invariant, PTL

\* P3: however often the socket and the polling loop deliver a fill, and across
\* restarts, on_fill is called once for it, if its id is stored and loaded.
THEOREM ReportedAtMostOnce == Spec => []ReportedOnce
<1>1. IndInv => ReportedOnce
  BY InvariantIsEnough
<1> QED BY <1>1, Invariant, PTL

\* P0-6: no fill handed to the process is missed for an order it tracks, those
\* that arrived before the order included, unless a full buffer dropped it.
THEOREM TrackedMissNothing == Spec => []TrackedOrdersMissNothing
<1>1. IndInv => TrackedOrdersMissNothing
  BY InvariantIsEnough
<1> QED BY <1>1, Invariant, PTL

\* filled_size is the sum of the fills processed as long as no order update
\* overwrites it, and only all of an order's fills complete it.
THEOREM FilledSizesAddUp == Spec => []FilledIsWhatFillsSay
<1>1. IndInv => FilledIsWhatFillsSay
  BY InvariantIsEnough
<1> QED BY <1>1, Invariant, PTL

\* F3: _check_timeouts gives up an order whose cancel is not confirmed only if
\* no fill of it came since the check that flagged it.
THEOREM GivenUpInSilence == Spec => GivesUpOnlyInSilence
<1>1. IndInv /\ [Next]_vars => [GivesUp]_vars
  BY NextKeeps
<1>2. [][GivesUp]_vars => GivesUpOnlyInSilence
  BY PTL DEF GivesUpOnlyInSilence, GivesUp
<1> QED BY <1>1, <1>2, Invariant, PTL DEF Spec

=============================================================================
