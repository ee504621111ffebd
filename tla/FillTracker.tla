----------------------------- MODULE FillTracker -----------------------------
(***************************************************************************)
(* runtime/exchange/fill_tracker.py: FillTracker, with the seen_fill_ids   *)
(* table it persists to (P3) and the exchange it listens to.               *)
(*                                                                         *)
(* The exchange executes fills of open orders, and may cancel the rest.    *)
(* The tracker hears of them in three ways that are not ordered with each  *)
(* other: fills and order updates over the WebSocket, each possibly late,  *)
(* repeated or never, and the REST polling loop.  Handlers hold the RLock  *)
(* and do not await, so each is one step; the polling loop awaits inside   *)
(* its RLock, which is re-entrant within the event loop's thread and so    *)
(* keeps no other coroutine out: each part between two awaits is a step.   *)
(*                                                                         *)
(* Prices, fees and slippage are left out.  entry.seen_fill_ids is left    *)
(* out too: an id enters it together with _global_seen_fill_ids, which is  *)
(* tested first, so it never decides.  remaining_size is the order's size  *)
(* less filled_size throughout.                                            *)
(***************************************************************************)
EXTENDS Integers, Sequences, FiniteSetsExt, SequencesExt

CONSTANTS
    Orders,       \* exchange order ids
    Fills,        \* [order, size, tid, time] of every fill there may be
    NoTid,        \* the tid of a fill that carries none
    OrderSize,    \* original_size of every order
    MaxBuffered,  \* _max_buffered_fills_per_order
    FaultModels   \* the sets of faults to consider, see faults

FaultKinds == {"persist", "load", "midCrash"}
MaxReports == 2                          \* reports of a fill are counted up to this

ASSUME FillsAssumption ==
    IsFiniteSet(Fills) /\ \A f \in Fills : f.order \in Orders /\ f.size \in Nat \ {0}
ASSUME SizeAssumption == OrderSize \in [Orders -> Nat \ {0}]
ASSUME BufferAssumption == MaxBuffered \in Nat \ {0}
ASSUME FillFaultsAssumption == FaultModels \subseteq SUBSET FaultKinds

VARIABLES
    executed,   \* exchange: the fills that have happened
    canceled,   \* exchange: the orders cancelled before they were complete
    book,       \* the tracker's memory, a Book
    persisted,  \* the seen_fill_ids table
    poll,       \* where _poll_loop is
    up,         \* the process is running
    faults      \* the faults of this behaviour, chosen at the start

vars == <<executed, canceled, book, persisted, poll, up, faults>>

-----------------------------------------------------------------------------
(* The exchange *)

Size(S) == MapThenSumSet(LAMBDA f : f.size, S)
FillsOf(o, S) == {f \in S : f.order = o}
IsOpen(o) == o \notin canceled /\ Size(FillsOf(o, executed)) < OrderSize[o]
OpenOrders == {o \in Orders : IsOpen(o)}

\* The tid when there is one, else a hash of the order, size and time.
FillId(f) == IF f.tid /= NoTid THEN <<"tid", f.tid>> ELSE <<"syn", f.order, f.size, f.time>>

\* The exchange gives no tid twice, and the hash tells fills without one apart.
ASSUME FillIdAssumption == \A f, g \in Fills : FillId(f) = FillId(g) => f = g

Execute(f) ==
    /\ f \notin executed
    /\ IsOpen(f.order)
    /\ Size(FillsOf(f.order, executed)) + f.size <= OrderSize[f.order]
    /\ executed' = executed \union {f}
    /\ UNCHANGED <<canceled, book, persisted, poll, up, faults>>

CancelAtExchange(o) ==
    /\ IsOpen(o)
    /\ canceled' = canceled \union {o}
    /\ UNCHANGED <<executed, book, persisted, poll, up, faults>>

-----------------------------------------------------------------------------
(***************************************************************************)
(* The tracker's memory.  tracked_orders and order_fills are dictionaries, *)
(* so functions on the ids they hold; the last five fields are history.    *)
(***************************************************************************)
NoOrders == [o \in {} |-> <<>>]
Unchecked == -1

EmptyBook ==
    [tracked_orders |-> NoOrders,              \* order id -> TrackingEntry
     order_fills |-> NoOrders,                 \* order id -> the fills processed
     early |-> [o \in Orders |-> <<>>],        \* _early_fill_buffer
     seen |-> {},                              \* _global_seen_fill_ids
     reported |-> [f \in Fills |-> 0],         \* on_fill calls, in any process
     received |-> {},                          \* fills this process has been handed
     overflowed |-> {},                        \* fills the full buffer dropped
     overwritten |-> {},                       \* orders an order update was applied to
     ended |-> [o \in Orders |-> "no"]]        \* what ended the tracking of an order

NewEntry ==
    [filled |-> 0, status |-> "SUBMITTED", flagged |-> FALSE, cancel_confirmed |-> FALSE,
     overdue |-> FALSE,                        \* submitted longer ago than its timeout
     checked |-> Unchecked]                    \* history: its fills at the last check

Tracked(b) == DOMAIN b.tracked_orders
With(dict, o, value) == [x \in DOMAIN dict \union {o} |-> IF x = o THEN value ELSE dict[x]]
Stop(b, o, why) ==
    [b EXCEPT !.tracked_orders = [x \in Tracked(b) \ {o} |-> @[x]], !.ended[o] = why]

More(n) == IF n = MaxReports THEN n ELSE n + 1

IsDuplicate(b, f) == FillId(f) \in b.seen

\* Mutant: an order whose remaining size is exactly zero is not filled.
IsExceeded(o, filled) == filled > OrderSize[o]
IsFilled(o, filled) == filled >= OrderSize[o]

\* Mutant: a fill leaves the timeout flag of its order.
PartlyFilledStillFlagged(e, f) == [e EXCEPT !.filled = @ + f.size, !.status = "PARTIAL"]
PartlyFilled(e, f) ==
    [e EXCEPT !.filled = @ + f.size, !.status = "PARTIAL", !.flagged = FALSE]

\* _process_fill for a tracked order: duplicates are ignored, a fill revives
\* a timed-out order, and the one that completes the order ends its tracking.
Apply(b, f) ==
    LET o == f.order
        e == b.tracked_orders[o]
        c == [b EXCEPT !.seen = @ \union {FillId(f)},
                       !.order_fills[o] = Append(@, f),
                       !.reported[f] = More(@)]
    IN IF IsDuplicate(b, f) THEN b
       ELSE IF IsFilled(o, e.filled + f.size) THEN Stop(c, o, "fills")
       ELSE [c EXCEPT !.tracked_orders[o] = PartlyFilled(e, f)]

\* Mutant: the buffer is not bounded.
BufferUnbounded(b, f) == [b EXCEPT !.early[f.order] = Append(@, f)]

\* _buffer_early_fill: a full buffer drops its oldest fill.
Buffer(b, f) ==
    LET queue == b.early[f.order] IN
    IF Len(queue) < MaxBuffered THEN [b EXCEPT !.early[f.order] = Append(@, f)]
    ELSE [b EXCEPT !.early[f.order] = Append(Tail(@), f),
                   !.overflowed = @ \union {Head(queue)}]

\* _process_fill.  A fill from the buffer is not buffered again.
Process(b, f, from_buffer) ==
    LET c == [b EXCEPT !.received = @ \union {f}] IN
    IF f.order \in Tracked(b) THEN Apply(c, f)
    ELSE IF from_buffer THEN c
    ELSE Buffer(c, f)

\* One after the other, with no await between them.
ProcessAll(b, queue, from_buffer) ==
    LET done[n \in 0..Len(queue)] ==
            IF n = 0 THEN b ELSE Process(done[n - 1], queue[n], from_buffer)
    IN done[Len(queue)]

-----------------------------------------------------------------------------
(* The process *)

Sleeping == [step |-> "sleeping", ids |-> {}, open |-> {}, current |-> {}]

Init ==
    /\ executed = {} /\ canceled = {}
    /\ book = EmptyBook
    /\ persisted = {}
    /\ poll = Sleeping
    /\ up = TRUE
    /\ faults \in FaultModels

\* The new memory, and the ids it saw: a failed save_fill_id is swallowed.
Install(b) ==
    /\ book' = b
    /\ LET new == b.seen \ book.seen IN
       \/ persisted' = persisted \union new
       \/ "persist" \in faults /\ persisted' = persisted

\* Mutant: track_order does not replay what arrived before it.
ReplayNothing(b, o) == [b EXCEPT !.early[o] = <<>>]

\* _replay_buffered_fills
Replay(b, o) == ProcessAll([b EXCEPT !.early[o] = <<>>], b.early[o], TRUE)

\* track_order.  Its caller tracks an order once per process: a second call
\* would reset the entry and the list of fills.
TrackOrder(o) ==
    /\ up
    /\ o \notin DOMAIN book.order_fills
    /\ Install(Replay([book EXCEPT !.tracked_orders = With(@, o, NewEntry),
                                   !.order_fills = With(@, o, <<>>),
                                   !.ended[o] = "no"], o))
    /\ UNCHANGED <<executed, canceled, poll, up, faults>>

UntrackOrder(o) ==
    /\ up
    /\ o \in Tracked(book)
    /\ book' = Stop(book, o, "untracked")
    /\ UNCHANGED <<executed, canceled, persisted, poll, up, faults>>

\* handle_ws_fill: any fill that has happened, once more or for the first time.
HandleWsFill(f) ==
    /\ up
    /\ f \in executed
    /\ Install(Process(book, f, FALSE))
    /\ UNCHANGED <<executed, canceled, poll, up, faults>>

\* The updates the exchange may have sent about an order: how it stood when
\* past was what had been executed of it.
Updates(o) ==
    {[filled |-> Size(past),
      status |-> IF Size(past) = OrderSize[o] THEN "filled" ELSE "open"] :
        past \in SUBSET FillsOf(o, executed)}
    \union (IF o \in canceled
            THEN {[filled |-> Size(FillsOf(o, executed)), status |-> "canceled"]} ELSE {})

\* handle_ws_order_update: the entry is overwritten, whatever it held.
HandleWsOrderUpdate(o) ==
    /\ up
    /\ o \in Tracked(book)
    /\ \E update \in Updates(o) :
          LET b == [book EXCEPT !.overwritten = @ \union {o}] IN
          book' = IF update.status /= "open" THEN Stop(b, o, "update")
                  ELSE [b EXCEPT !.tracked_orders[o].filled = update.filled,
                                 !.tracked_orders[o].status = "ACKNOWLEDGED"]
    /\ UNCHANGED <<executed, canceled, persisted, poll, up, faults>>

ConfirmCancel(o) ==
    /\ up
    /\ o \in Tracked(book)
    /\ o \in canceled
    /\ book' = [book EXCEPT !.tracked_orders[o].cancel_confirmed = TRUE]
    /\ UNCHANGED <<executed, canceled, persisted, poll, up, faults>>

\* Time: market_fill_timeout_ms or limit_fill_timeout_ms since submission.
Overdue(o) ==
    /\ o \in Tracked(book)
    /\ book' = [book EXCEPT !.tracked_orders[o].overdue = TRUE]
    /\ UNCHANGED <<executed, canceled, persisted, poll, up, faults>>

-----------------------------------------------------------------------------
(***************************************************************************)
(* _poll_loop: sleep, ask for the open orders, ask for the fills of each   *)
(* tracked order that is not among them, then check timeouts.  A request   *)
(* that fails or times out is swallowed and the loop goes on.              *)
(***************************************************************************)
Late(e) == e.overdue /\ ~e.flagged /\ ~e.cancel_confirmed

\* Mutant: a flagged order is only finalised once its cancel is confirmed.
FinalisesConfirmed(e) == e.overdue /\ e.cancel_confirmed
Finalises(e) == e.overdue /\ (e.flagged \/ e.cancel_confirmed)

\* _check_timeouts: the first timeout flags, the second one finalises.
CheckTimeouts(b) ==
    LET Checked(o) == [b.tracked_orders[o] EXCEPT
                          !.flagged = @ \/ Late(b.tracked_orders[o]),
                          !.checked = Len(b.order_fills[o])]
        done == {o \in Tracked(b) : Finalises(b.tracked_orders[o])}
    IN [b EXCEPT !.tracked_orders =
                    [o \in Tracked(b) \ done |->
                        IF @[o].overdue THEN Checked(o) ELSE @[o]],
                 !.ended = [o \in Orders |-> IF o \in done THEN "timeout" ELSE @[o]]]

\* The orders it asks about, and those still open when it asks.
PollBegin ==
    /\ up
    /\ poll.step = "sleeping"
    /\ Tracked(book) /= {}
    /\ poll' = [step |-> "listing", ids |-> Tracked(book), open |-> OpenOrders, current |-> {}]
    /\ UNCHANGED <<executed, canceled, book, persisted, up, faults>>

\* openOrders answers, with what was open at some time since it was asked.
PollListed ==
    /\ up
    /\ poll.step = "listing"
    /\ \E open \in SUBSET poll.open :
          /\ OpenOrders \subseteq open
          /\ poll' = [poll EXCEPT !.step = "checking", !.ids = @ \ open, !.open = {}]
    /\ UNCHANGED <<executed, canceled, book, persisted, up, faults>>

PollListingFails ==
    /\ up
    /\ poll.step = "listing"
    /\ poll' = [Sleeping EXCEPT !.step = "checking"]
    /\ UNCHANGED <<executed, canceled, book, persisted, up, faults>>

\* The next closed order, if it is still tracked, has its history fetched.
PollAsk(o) ==
    /\ up
    /\ poll.step = "checking"
    /\ o \in poll.ids
    /\ poll' = [poll EXCEPT !.ids = @ \ {o},
                            !.step = IF o \in Tracked(book) THEN "fetching" ELSE @,
                            !.current = IF o \in Tracked(book) THEN {o} ELSE {}]
    /\ UNCHANGED <<executed, canceled, book, persisted, up, faults>>

\* userFills answers, in any order, or does not.
PollFetched ==
    /\ up
    /\ poll.step = "fetching"
    /\ \E o \in poll.current : \E answer \in SetToSeqs(FillsOf(o, executed)) :
          Install(ProcessAll(book, answer, FALSE))
    /\ poll' = [poll EXCEPT !.step = "checking", !.current = {}]
    /\ UNCHANGED <<executed, canceled, up, faults>>

PollFetchFails ==
    /\ up
    /\ poll.step = "fetching"
    /\ poll' = [poll EXCEPT !.step = "checking", !.current = {}]
    /\ UNCHANGED <<executed, canceled, book, persisted, up, faults>>

PollCheckTimeouts ==
    /\ up
    /\ poll.step = "checking"
    /\ poll.ids = {}
    /\ book' = CheckTimeouts(book)
    /\ poll' = Sleeping
    /\ UNCHANGED <<executed, canceled, persisted, up, faults>>

PollStep ==
    \/ PollBegin \/ PollListed \/ PollListingFails
    \/ (\E o \in Orders : PollAsk(o))
    \/ PollFetched \/ PollFetchFails \/ PollCheckTimeouts

-----------------------------------------------------------------------------
LoseMemory ==
    /\ up' = FALSE
    /\ book' = [EmptyBook EXCEPT !.reported = book.reported]
    /\ poll' = Sleeping

Crash ==
    /\ up
    /\ LoseMemory
    /\ UNCHANGED <<executed, canceled, persisted, faults>>

\* The process dies between save_fill_id and the on_fill callback.
CrashInFill(f) ==
    /\ up
    /\ "midCrash" \in faults
    /\ f \in executed
    /\ f.order \in Tracked(book)
    /\ ~IsDuplicate(book, f)
    /\ persisted' = persisted \union {FillId(f)}
    /\ LoseMemory
    /\ UNCHANGED <<executed, canceled, faults>>

\* Mutant: a new process starts with no fill ids.
LoadNothing == {}

\* _load_persisted_fill_ids: a failed load is swallowed.
Load == IF "load" \in faults THEN {} ELSE persisted

Restart ==
    /\ ~up
    /\ up' = TRUE
    /\ book' = [book EXCEPT !.seen = Load]
    /\ UNCHANGED <<executed, canceled, persisted, poll, faults>>

Next ==
    \/ \E f \in Fills : Execute(f) \/ HandleWsFill(f) \/ CrashInFill(f)
    \/ \E o \in Orders :
          \/ CancelAtExchange(o)
          \/ TrackOrder(o) \/ UntrackOrder(o)
          \/ HandleWsOrderUpdate(o)
          \/ ConfirmCancel(o) \/ Overdue(o)
    \/ PollStep
    \/ Crash \/ Restart

\* The event loop runs the polling task, and aiohttp's request_timeout turns
\* a silent exchange into a failed request: the loop always gets on.
Fairness == WF_vars(PollStep)

Spec == Init /\ [][Next]_vars /\ Fairness

-----------------------------------------------------------------------------
(* Properties *)

Statuses == {"SUBMITTED", "ACKNOWLEDGED", "PARTIAL"}

Entries ==
    [filled : Nat, status : Statuses, flagged : BOOLEAN, cancel_confirmed : BOOLEAN,
     overdue : BOOLEAN, checked : Nat \union {Unchecked}]

(***************************************************************************)
(* Type invariant: only live orders are tracked, each with its list of     *)
(* fills, every buffer keeps within _max_buffered_fills_per_order, and the *)
(* ids in memory are those of fills the exchange has executed.             *)
(***************************************************************************)
TypeOK ==
    /\ executed \subseteq Fills /\ canceled \subseteq Orders
    /\ Tracked(book) \subseteq DOMAIN book.order_fills
    /\ DOMAIN book.order_fills \subseteq Orders
    /\ \A o \in Tracked(book) : book.tracked_orders[o] \in Entries
    /\ \A o \in DOMAIN book.order_fills : book.order_fills[o] \in Seq(FillsOf(o, executed))
    /\ \A o \in Orders : /\ book.early[o] \in Seq(FillsOf(o, executed))
                         /\ Len(book.early[o]) <= MaxBuffered
    /\ book.reported \in [Fills -> 0..MaxReports]
    /\ book.received \subseteq executed /\ book.overflowed \subseteq book.received
    /\ book.overwritten \subseteq Orders
    /\ book.ended \in [Orders -> {"no", "fills", "update", "timeout", "untracked"}]
    /\ book.seen \subseteq {FillId(f) : f \in executed}
    /\ persisted \subseteq {FillId(f) : f \in executed}
    /\ poll.step \in {"sleeping", "listing", "checking", "fetching"}
    /\ poll.ids \subseteq Orders /\ poll.open \subseteq Orders /\ poll.current \subseteq Orders
    /\ up \in BOOLEAN
    /\ faults \in FaultModels

(***************************************************************************)
(* P3: on_fill is called at most once for a fill, however often the socket *)
(* and the polling loop deliver it, before and after restarts, unless the  *)
(* id could not be persisted or loaded.                                    *)
(***************************************************************************)
ReportedOnce ==
    faults \intersect {"persist", "load"} = {} => \A f \in Fills : book.reported[f] <= 1

(***************************************************************************)
(* P0-6: while an order is tracked, every fill of it that this process has *)
(* been handed, before tracking or after, has been reported, unless a full *)
(* buffer dropped it or a crash came between its id and its report.        *)
(***************************************************************************)
TrackedOrdersMissNothing ==
    "midCrash" \notin faults =>
        \A f \in book.received \ book.overflowed :
            f.order \in Tracked(book) => book.reported[f] > 0

Processed(o) == Size(ToSet(book.order_fills[o]))

(***************************************************************************)
(* As long as no order update was applied to an order, its filled_size is  *)
(* what its fills add up to and less than its size; and when its fills     *)
(* end its tracking, they are all the exchange ever executed of it.        *)
(***************************************************************************)
FilledIsWhatFillsSay ==
    \A o \in DOMAIN book.order_fills \ book.overwritten :
        /\ o \in Tracked(book) => /\ book.tracked_orders[o].filled = Processed(o)
                                  /\ Processed(o) < OrderSize[o]
        /\ book.ended[o] = "fills" => ToSet(book.order_fills[o]) = FillsOf(o, executed)

(***************************************************************************)
(* F3: _check_timeouts gives up an order whose cancel is not confirmed     *)
(* only if no fill of it was processed since the previous check that found *)
(* it overdue ("flagged twice with no fills between").                     *)
(***************************************************************************)
GivesUpOnlyInSilence ==
    [][\A o \in Tracked(book) :
          /\ book'.ended[o] = "timeout"
          /\ ~book.tracked_orders[o].cancel_confirmed
          => book.tracked_orders[o].checked = Len(book.order_fills[o])]_vars

(***************************************************************************)
(* An overdue order does not stay tracked for ever: the polling loop flags *)
(* it and finalises it, whatever the socket and the exchange's answers do. *)
(***************************************************************************)
OverdueOrdersSettle ==
    \A o \in Orders :
        (o \in Tracked(book) /\ book.tracked_orders[o].overdue) ~> (o \notin Tracked(book))

(***************************************************************************)
(* FillTracker's docstring: "Ensures no fills are missed due to network    *)
(* issues."  So once the tracker itself calls an order complete, get_fills *)
(* has every fill of it that this process was handed.  It does not: the    *)
(* order update that ends the tracking may overtake the fills, which are   *)
(* then buffered for an order nobody will track again.                     *)
(***************************************************************************)
CompleteOrdersMissNothing ==
    \A o \in DOMAIN book.order_fills \ Tracked(book) :
        book.ended[o] /= "untracked" =>
            \A f \in FillsOf(o, book.received) : f \in ToSet(book.order_fills[o])
=============================================================================
