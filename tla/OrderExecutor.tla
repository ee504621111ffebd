---------------------------- MODULE OrderExecutor ----------------------------
(***************************************************************************)
(* runtime/exchange/order_executor.py: OrderExecutor, from the submission  *)
(* of an entry through its partial fills (E3) to the stop loss that has to *)
(* follow it (E4, X1, X2), with the exchange it talks to.                  *)
(*                                                                         *)
(* Handlers do not await, so each is one step.  The three coroutines that  *)
(* talk to the exchange (the client's own call, handle_partial_fill and    *)
(* place_stop_for_fill) are cut at every await: between two of their steps *)
(* the exchange executes, and any handler runs.  A request may fail to     *)
(* arrive, be refused, or succeed with its answer lost, and a retry after  *)
(* a lost answer is a second order.  An answer "ok" that names no order,   *)
(* as one with an error inside does not, is taken for success: the order   *)
(* is filed under the client's own id, and is nowhere.  An "ok" to a       *)
(* cancel is taken for a cancel, whatever was left to cancel.              *)
(*                                                                         *)
(* Fills are of one unit, and come through FillTracker: each at most once. *)
(* Prices, signatures, latencies and metrics are left out, and so are      *)
(* check_timeouts, which only reports, and the fills of stops, which are   *)
(* followed through the three handle_stop_ events.                         *)
(***************************************************************************)
EXTENDS Integers, Sequences, FiniteSets, FiniteSetsExt

CONSTANTS
    EntrySize,    \* the size of the entry the client submits
    MinFillPct,   \* min_fill_pct, in percent, by is_cascade
    MaxResubmits, \* max_partial_resubmits
    MaxRetries,   \* max_retries: requests per submission
    StopRetries,  \* stop_max_retries: submissions per stop
    MaxOrders,    \* bound: the ids given out
    ClientCancels \* bound: the orders the client cancels of its own accord

ASSUME EntryAssumption == EntrySize \in Nat \ {0} /\ MinFillPct \in [BOOLEAN -> 0..100]
ASSUME RetriesAssumption ==
    /\ MaxResubmits \in Nat
    /\ MaxRetries \in Nat \ {0} /\ StopRetries \in Nat \ {0}
    /\ MaxOrders \in Nat \ {0}

VARIABLES
    market,       \* exchange: the orders it accepted, and among them the void
                  \* ones it did not, filed under the client's id; an id is an index
    updates,      \* _order_updates, and the size each order was recorded with
    pending,      \* the keys of _pending_orders
    resubmits,    \* _partial_resubmit_counts
    configs,      \* the keys of _pending_stop_placements
    stops,        \* _stop_order_status
    calls,        \* the coroutine of each caller
    todo,         \* what check_partial_fills returned and is still to be handled
    due,          \* entries whose handle_fill returned True
    announced,    \* history: entries _on_stop_failure was called for
    known,        \* history: the filled size each resubmission was computed from
    accepted,     \* history: entries with a stop registered whose partial fill was settled for
    lost          \* history: the answer to an accepted order was lost

exchange == <<market, lost>>
stopState == <<configs, stops, due, announced>>
partialState == <<resubmits, todo, known, accepted>>
vars == <<market, updates, pending, resubmits, configs, stops, calls, todo,
          due, announced, known, accepted, lost>>

-----------------------------------------------------------------------------
Ids == 1..MaxOrders
Callers == {"client", "partial", "stop"}
Issued == DOMAIN market
Entries == {o \in Issued : market[o].kind = "entry"}
StopsOf(e) == {o \in Issued : market[o].kind = "stop" /\ market[o].entry = e}

With(dict, o, value) == [x \in DOMAIN dict \union {o} |-> IF x = o THEN value ELSE dict[x]]

\* What a request asks for: an entry of the given generation (how often it
\* has been resubmitted), or the stop of an entry.
EntryRequest(size, generation, cascade) ==
    [kind |-> "entry", entry |-> 0, size |-> size, generation |-> generation,
     cascade |-> cascade]
StopRequest(e) ==
    [kind |-> "stop", entry |-> e, size |-> updates[e].size, generation |-> 0,
     cascade |-> FALSE]

NewOrder(request, status) ==
    [kind |-> request.kind, entry |-> request.entry, size |-> request.size,
     generation |-> request.generation, cascade |-> request.cascade,
     filled |-> 0, status |-> status, told |-> 0]

-----------------------------------------------------------------------------
(* Coroutines *)

NoRequest == EntryRequest(0, 0, FALSE)
Call(step, request, attempt, id) ==
    [step |-> step, request |-> request, attempt |-> attempt, id |-> id]
Idle == Call("idle", NoRequest, 0, 0)
Posting(request) == Call("posting", request, 1, 0)
Cancelling(id, request) == Call("cancelling", request, 0, id)

Init ==
    /\ market = <<>> /\ lost = FALSE
    /\ updates = [o \in {} |-> 0]
    /\ pending = {}
    /\ resubmits = [o \in Ids |-> 0]
    /\ configs = {} /\ stops = [e \in {} |-> 0] /\ due = {} /\ announced = {}
    /\ calls = [c \in Callers |-> Idle]
    /\ todo = {}
    /\ known = [o \in Ids |-> 0] /\ accepted = {}

\* submit_order of a valid request; the client submits one entry.
SubmitOrder ==
    /\ calls["client"] = Idle
    /\ market = <<>> /\ updates = [o \in {} |-> 0]
    /\ \E cascade \in BOOLEAN :
          calls' = [calls EXCEPT !["client"] = Posting(EntryRequest(EntrySize, 0, cascade))]
    /\ UNCHANGED <<exchange, updates, pending, partialState, stopState>>

\* Mutant: a placement that failed for good is not announced.
StopFailedSilently(e) ==
    /\ stops' = [stops EXCEPT ![e].state = "FAILED"]
    /\ announced' = announced

\* X2-B: all submissions of the stop failed.
StopFailed(e) ==
    /\ stops' = [stops EXCEPT ![e].state = "FAILED"]
    /\ announced' = announced \union {e}

\* Mutant: a failed placement is tried again without end.
TriesAgainForever(e) == TRUE
TriesAgain(e) == stops[e].attempts < StopRetries

\* submit_order came back without success.  Only a stop is tried again (X2-A).
SubmissionFails(c) ==
    LET e == calls[c].request.entry IN
    IF c /= "stop"
    THEN /\ calls' = [calls EXCEPT ![c] = Idle]
         /\ UNCHANGED <<stops, announced>>
    ELSE IF TriesAgain(e)
    THEN /\ calls' = [calls EXCEPT ![c] = Posting(@.request)]
         /\ stops' = [stops EXCEPT ![e].attempts = IF @ < StopRetries THEN @ + 1 ELSE @]
         /\ announced' = announced
    ELSE /\ calls' = [calls EXCEPT ![c] = Idle]
         /\ StopFailed(e)

\* Mutant: one request more than max_retries.
RepeatsOnceMore(c) == calls[c].attempt <= MaxRetries
Repeats(c) == calls[c].attempt < MaxRetries

\* E1: the request is repeated, or the submission has failed.
RequestFails(c) ==
    IF Repeats(c)
    THEN /\ calls' = [calls EXCEPT ![c].attempt = @ + 1]
         /\ UNCHANGED <<stops, announced>>
    ELSE SubmissionFails(c)

Unreached(c) ==
    /\ calls[c].step = "posting"
    /\ RequestFails(c)
    /\ UNCHANGED <<exchange, updates, pending, partialState, configs, due>>

\* Any other answer than status "ok" is a rejection, and is not retried.
Refuse(c) ==
    /\ calls[c].step = "posting"
    /\ SubmissionFails(c)
    /\ UNCHANGED <<exchange, updates, pending, partialState, configs, due>>

\* The exchange accepts; its answer arrives, or is lost.
Accept(c) ==
    /\ calls[c].step = "posting"
    /\ Len(market) < MaxOrders
    /\ market' = Append(market, NewOrder(calls[c].request, "open"))
    /\ \/ /\ calls' = [calls EXCEPT ![c].step = "answered", ![c].id = Len(market) + 1]
          /\ UNCHANGED <<stops, announced, lost>>
       \/ /\ lost' = TRUE
          /\ RequestFails(c)
    /\ UNCHANGED <<updates, pending, partialState, configs, due>>

\* The answer is "ok", with an error where the order should be: nothing was
\* accepted, and the client's own id stands in for the order's.
OkWithoutOrder(c) ==
    /\ calls[c].step = "posting"
    /\ Len(market) < MaxOrders
    /\ market' = Append(market, NewOrder(calls[c].request, "void"))
    /\ calls' = [calls EXCEPT ![c].step = "answered", ![c].id = Len(market) + 1]
    /\ UNCHANGED <<lost, updates, pending, partialState, stopState>>

\* submit_order records the order under its id; a stop is PLACED.
Record(c) ==
    LET call == calls[c] IN
    /\ call.step = "answered"
    /\ updates' = With(updates, call.id,
                       [status |-> "SUBMITTED", filled |-> 0, size |-> call.request.size])
    /\ pending' = pending \union {call.id}
    /\ stops' = IF c = "stop"
                THEN [stops EXCEPT ![call.request.entry].state = "PLACED",
                                   ![call.request.entry].id = call.id]
                ELSE stops
    /\ calls' = [calls EXCEPT ![c] = Idle]
    /\ UNCHANGED <<exchange, partialState, configs, due, announced>>

-----------------------------------------------------------------------------
(* Cancelling, and partial fills *)

\* cancel_order, called by the client for an order get_pending_orders lists.
\* The id of a void order is no number: int(order_id) raises, and nothing is sent.
CancelOrder(o) ==
    /\ calls["client"] = Idle
    /\ o \in DOMAIN updates \intersect ClientCancels
    /\ market[o].kind = "entry" /\ market[o].status /= "void"
    /\ updates[o].status \in {"SUBMITTED", "ACKNOWLEDGED", "PARTIAL"}
    /\ calls' = [calls EXCEPT !["client"] = Cancelling(o, NoRequest)]
    /\ UNCHANGED <<exchange, updates, pending, partialState, stopState>>

\* The exchange cancels what is left of the order, if anything is, and says "ok"
\* either way; the answer arrives later.
CancelReaches(c) ==
    /\ calls[c].step = "cancelling"
    /\ market' = [market EXCEPT ![calls[c].id].status = IF @ = "open" THEN "closed" ELSE @]
    /\ calls' = [calls EXCEPT ![c].step = "cancelled"]
    /\ UNCHANGED <<lost, updates, pending, partialState, stopState>>

\* The request is lost or not answered "ok", or its answer is lost.
CancelFails(c) ==
    /\ calls[c].step \in {"cancelling", "cancelled"}
    /\ calls' = [calls EXCEPT ![c] = Idle]
    /\ UNCHANGED <<exchange, updates, pending, partialState, stopState>>

\* The order is CANCELED; handle_partial_fill goes on to submit the rest.
CancelAnswered(c) ==
    LET call == calls[c]
        o == call.id
        resubmit == call.request.size > 0
    IN
    /\ call.step = "cancelled"
    /\ updates' = [updates EXCEPT ![o].status = "CANCELED"]
    /\ pending' = pending \ {o}
    /\ resubmits' = IF resubmit THEN [resubmits EXCEPT ![o] = @ + 1] ELSE resubmits
    /\ calls' = [calls EXCEPT ![c] = IF resubmit THEN Posting(call.request) ELSE Idle]
    /\ accepted' = IF c = "partial" /\ ~resubmit /\ o \in configs
                   THEN accepted \union {o} ELSE accepted
    /\ UNCHANGED <<exchange, todo, known, stopState>>

Acceptable(o) == updates[o].filled * 100 >= MinFillPct[market[o].cascade] * updates[o].size

\* Mutant: the whole order is submitted again, not what remains of it.
AmountToResubmitAll(o) ==
    IF Acceptable(o) \/ resubmits[o] >= MaxResubmits THEN 0 ELSE updates[o].size

\* Accept the fill or give up (0), or submit the remaining size.  The count
\* is kept under the order's own id, and a resubmission has a new id.
AmountToResubmit(o) ==
    IF Acceptable(o) \/ resubmits[o] >= MaxResubmits
    THEN 0 ELSE updates[o].size - updates[o].filled

Partials == {o \in pending : updates[o].status = "PARTIAL"}

\* check_partial_fills, when the orders in stale are past partial_fill_timeout_ms.
CheckPartialFills ==
    /\ todo = {}
    /\ calls["partial"] = Idle
    /\ \E stale \in SUBSET Partials \ {{}} :
          /\ todo' = {[id |-> o, amount |-> AmountToResubmit(o)] : o \in stale}
          /\ known' = [o \in Ids |-> IF o \in stale THEN updates[o].filled ELSE known[o]]
    /\ UNCHANGED <<exchange, updates, pending, resubmits, accepted, calls, stopState>>

\* handle_partial_fill for the next of them, up to its cancel request.
HandlePartialFill ==
    /\ calls["partial"] = Idle
    /\ \E t \in todo :
          /\ todo' = todo \ {t}
          /\ calls' = IF t.id \notin pending THEN calls
                      ELSE [calls EXCEPT !["partial"] =
                               Cancelling(t.id, EntryRequest(t.amount, market[t.id].generation + 1,
                                                             market[t.id].cascade))]
    /\ UNCHANGED <<exchange, updates, pending, resubmits, known, accepted, stopState>>

-----------------------------------------------------------------------------
(* The exchange, and the handlers of what it sends *)

\* A unit of an entry is executed, with or without its notification.
Fill(o) ==
    /\ o \in Entries
    /\ market[o].status = "open"
    /\ market' = [market EXCEPT ![o].filled = @ + 1,
                                ![o].status = IF market[o].filled + 1 = market[o].size
                                              THEN "closed" ELSE @]
    /\ UNCHANGED <<lost, updates, pending, calls, partialState, stopState>>

\* Mutant: a fill that completes its order leaves it pending.
StillPending(o, filled) == pending
PendingAfterFill(o, filled) == IF filled >= updates[o].size THEN pending \ {o} ELSE pending

\* handle_fill: a fill of an unknown order is dropped; one that completes a
\* known order with a registered stop asks the caller to place it.
HandleFill(o) ==
    /\ o \in Entries
    /\ market[o].told < market[o].filled
    /\ market' = [market EXCEPT ![o].told = @ + 1]
    /\ IF o \notin DOMAIN updates THEN UNCHANGED <<updates, pending, due>>
       ELSE LET filled == updates[o].filled + 1
                complete == filled >= updates[o].size
            IN /\ updates' = [updates EXCEPT ![o].filled = filled,
                                             ![o].status = IF complete THEN "FILLED" ELSE "PARTIAL"]
               /\ pending' = PendingAfterFill(o, filled)
               /\ due' = IF complete /\ o \in configs THEN due \union {o} ELSE due
    /\ UNCHANGED <<lost, calls, partialState, configs, stops, announced>>

\* handle_order_update: how the order stood when filled units were executed.
HandleOrderUpdate(o) ==
    /\ o \in Entries \intersect DOMAIN updates
    /\ market[o].status /= "void"
    /\ \E filled \in 0..market[o].filled :
          LET status == IF filled = market[o].size THEN "FILLED"
                        ELSE IF filled = market[o].filled /\ market[o].status = "closed"
                             THEN "CANCELED" ELSE "ACKNOWLEDGED"
          IN /\ updates' = [updates EXCEPT ![o].filled = filled, ![o].status = status]
             /\ pending' = IF status = "ACKNOWLEDGED" THEN pending ELSE pending \ {o}
    /\ UNCHANGED <<exchange, calls, partialState, stopState>>

-----------------------------------------------------------------------------
(* Stops *)

\* register_stop_for_entry, once for an order the client knows.
RegisterStop(e) ==
    /\ e \in Entries \intersect DOMAIN updates
    /\ e \notin configs \union DOMAIN stops
    /\ configs' = configs \union {e}
    /\ UNCHANGED <<exchange, updates, pending, calls, partialState, stops, due, announced>>

\* Mutant: the configuration is read, not taken out.
ConfigsKept(e) == configs
ConfigsAfterPlacing(e) == configs \ {e}

\* place_stop_for_fill: the configuration is taken out, so placed only once.
PlaceStop(e) ==
    /\ calls["stop"] = Idle
    /\ e \in due
    /\ due' = due \ {e}
    /\ IF e \notin configs THEN UNCHANGED <<configs, stops, calls>>
       ELSE /\ configs' = ConfigsAfterPlacing(e)
            /\ stops' = With(stops, e, [state |-> "PENDING_PLACEMENT", id |-> 0, attempts |-> 1])
            /\ calls' = [calls EXCEPT !["stop"] = Posting(StopRequest(e))]
    /\ UNCHANGED <<exchange, updates, pending, partialState, announced>>

\* The exchange triggers, fills or cancels a stop.
StopMoves(o) ==
    /\ o \in Issued /\ market[o].kind = "stop"
    /\ \E to \in {"triggered", "filled", "canceled"} :
          /\ \/ market[o].status = "open" /\ to \in {"triggered", "canceled"}
             \/ market[o].status = "triggered" /\ to = "filled"
          /\ market' = [market EXCEPT ![o].status = to]
    /\ UNCHANGED <<lost, updates, pending, calls, partialState, stopState>>

\* The entry a stop is filed under: _stop_order_by_stop_id.
EntryOf(o) == {e \in DOMAIN stops : stops[e].id = o}

\* An event of a stop that is not recorded (yet) is dropped.
StopEvent(o, stage, state) ==
    /\ o \in Issued /\ market[o].kind = "stop"
    /\ market[o].told < stage
    /\ market' = [market EXCEPT ![o].told = stage]
    /\ stops' = [e \in DOMAIN stops |->
                    IF e \in EntryOf(o) THEN [stops[e] EXCEPT !.state = state] ELSE stops[e]]
    /\ UNCHANGED <<lost, updates, pending, calls, partialState, configs, due>>

HandleStopTriggered(o) ==
    /\ o \in Issued /\ market[o].status \in {"triggered", "filled"}
    /\ StopEvent(o, 1, "TRIGGERED")
    /\ announced' = announced

HandleStopFilled(o) ==
    /\ o \in Issued /\ market[o].status = "filled"
    /\ StopEvent(o, 2, "FILLED")
    /\ announced' = announced

HandleStopCancelled(o) ==
    /\ o \in Issued /\ market[o].status = "canceled"
    /\ StopEvent(o, 2, "CANCELLED")
    /\ announced' = announced \union EntryOf(o)

-----------------------------------------------------------------------------
CallStep(c) ==
    \/ Unreached(c) \/ Refuse(c) \/ Accept(c) \/ OkWithoutOrder(c) \/ Record(c)
    \/ CancelReaches(c) \/ CancelFails(c) \/ CancelAnswered(c)

StopPlacementStep == (\E e \in Ids : PlaceStop(e)) \/ CallStep("stop")

Next ==
    \/ SubmitOrder
    \/ \E c \in {"client", "partial"} : CallStep(c)
    \/ CheckPartialFills \/ HandlePartialFill
    \/ \E o \in Ids :
          \/ CancelOrder(o)
          \/ Fill(o) \/ HandleFill(o) \/ HandleOrderUpdate(o)
          \/ RegisterStop(o)
          \/ StopMoves(o)
          \/ HandleStopTriggered(o) \/ HandleStopFilled(o) \/ HandleStopCancelled(o)
    \/ StopPlacementStep

\* The event loop resumes place_stop_for_fill, and request_timeout turns a
\* silent exchange into a failed request: a placement always gets on.
Spec == Init /\ [][Next]_vars /\ WF_vars(StopPlacementStep)

-----------------------------------------------------------------------------
(* Properties *)

Statuses == {"SUBMITTED", "ACKNOWLEDGED", "PARTIAL", "FILLED", "CANCELED"}
StopStates == {"PENDING_PLACEMENT", "PLACED", "TRIGGERED", "FILLED", "CANCELLED", "FAILED"}
Steps == {"idle", "posting", "answered", "cancelling", "cancelled"}

(***************************************************************************)
(* Type invariant: everything is filed under an id the exchange gave out,  *)
(* or under the client's own for a void order; an order is resubmitted at  *)
(* most once, although an "ok" to a cancel may come for an order whose     *)
(* cancel was answered before; and retries stay within max_retries and     *)
(* stop_max_retries.                                                       *)
(***************************************************************************)
TypeOK ==
    /\ Len(market) <= MaxOrders
    /\ \A o \in Issued :
          /\ market[o].kind \in {"entry", "stop"}
          /\ market[o].filled \in 0..market[o].size
          /\ market[o].cascade \in BOOLEAN
          /\ market[o].told \in 0..market[o].size + 2
          /\ market[o].generation \in 0..MaxOrders
          /\ market[o].status \in {"open", "closed", "triggered", "filled", "canceled", "void"}
    /\ DOMAIN updates \subseteq Issued
    /\ \A o \in DOMAIN updates : /\ updates[o].status \in Statuses
                                 /\ updates[o].filled \in Nat
                                 /\ updates[o].size = market[o].size
    /\ pending \subseteq DOMAIN updates
    /\ resubmits \in [Ids -> 0..1] /\ known \in [Ids -> 0..2 * EntrySize]
    /\ configs \subseteq Entries /\ due \subseteq Entries /\ announced \subseteq Entries
    /\ accepted \subseteq Entries
    /\ DOMAIN stops \subseteq Entries
    /\ \A e \in DOMAIN stops : /\ stops[e].state \in StopStates
                               /\ stops[e].id \in {0} \union StopsOf(e)
                               /\ stops[e].attempts \in 1..StopRetries
    /\ \A c \in Callers : /\ calls[c].step \in Steps
                          /\ calls[c].attempt \in 0..MaxRetries
                          /\ calls[c].id \in {0} \union Issued
    /\ \A t \in todo : t.id \in Entries /\ t.amount \in 0..EntrySize
    /\ lost \in BOOLEAN

(***************************************************************************)
(* An order in _pending_orders is one that can still be worked on: its     *)
(* status is live and something of it remains, however fills, order        *)
(* updates and cancels interleave.  (The converse fails: a fill handled    *)
(* after the cancel makes the order PARTIAL again, for get_pending_orders  *)
(* only.)                                                                  *)
(***************************************************************************)
PendingIsLive ==
    \A o \in pending :
        /\ updates[o].status \in {"SUBMITTED", "ACKNOWLEDGED", "PARTIAL"}
        /\ updates[o].filled < updates[o].size

Excess(o) == IF market[o].filled > known[o] THEN market[o].filled - known[o] ELSE 0
Resubmitted == {o \in Entries : resubmits[o] > 0}

(***************************************************************************)
(* E3: with no answer lost, the entry and its resubmissions together       *)
(* execute no more than the size asked for, except by what was filled      *)
(* between the check that computed the remaining size and the cancel.      *)
(***************************************************************************)
ResubmissionsFillTheRest ==
    ~lost => MapThenSumSet(LAMBDA o : market[o].filled, Entries)
                <= EntrySize + MapThenSumSet(Excess, Resubmitted)

(***************************************************************************)
(* X2-A: a second stop order for an entry, at the exchange or filed as if  *)
(* it were, exists only if the answer to an accepted order was lost,       *)
(* whatever is retried and however often fills ask for the stop.           *)
(***************************************************************************)
OneStopPerEntry == ~lost => \A e \in Entries : Cardinality(StopsOf(e)) <= 1

UnprotectedEntries == {e \in DOMAIN stops : stops[e].state \in {"FAILED", "CANCELLED"}}

(***************************************************************************)
(* X2-B: every entry get_unprotected_entries lists was announced through   *)
(* the failure callback, and no stop that holds was announced as failed.   *)
(***************************************************************************)
ListedIffAnnounced == UnprotectedEntries = announced

\* PLACED (or further) with an id that events of the stop can be filed under,
\* or FAILED and announced.
Settled(e) ==
    /\ e \in DOMAIN stops /\ stops[e].state /= "PENDING_PLACEMENT"
    /\ stops[e].id \in StopsOf(e) \/ e \in announced

(***************************************************************************)
(* E4: whenever handle_fill has asked for stops, there comes a time when   *)
(* each of them is settled: the stop is PLACED under an id, or it is       *)
(* FAILED and announced.  PLACED is what the code records, not that the    *)
(* exchange has the stop: an answer "ok" with an error inside places a     *)
(* void one.                                                               *)
(***************************************************************************)
StopPlacementSettles == []<>(\A e \in due \union DOMAIN stops : Settled(e))

(***************************************************************************)
(* get_unprotected_entries: "Get list of entry orders without active stop  *)
(* protection."  So an entry whose partial fill was accepted and whose     *)
(* rest is cancelled, and which had a stop registered, has that stop       *)
(* under way, placed or, in one of the listed states, failed.  It has none *)
(* and is not listed: only a fill that completes the order asks for the    *)
(* stop, and none will come.                                               *)
(***************************************************************************)
AcceptedPartialsAreCovered ==
    \A e \in accepted :
        /\ updates[e].status = "CANCELED"
        /\ updates[e].filled = market[e].filled /\ market[e].told = market[e].filled
        => e \in due \union DOMAIN stops
=============================================================================
