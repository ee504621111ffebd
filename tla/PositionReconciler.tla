------------------------- MODULE PositionReconciler -------------------------
(***************************************************************************)
(* runtime/exchange/position_reconciler.py: the periodic comparison of a   *)
(* book of local positions, which order handling sets and clears, with     *)
(* snapshots fetched from the exchange.                                    *)
(*                                                                         *)
(* A reconcile() is cut at its one await.  The fetch takes a snapshot      *)
(* outside the lock, and a fetch that fails is an empty snapshot; the rest *)
(* runs under the lock in one step, against whatever the book and the      *)
(* account have become meanwhile.  The loop and a triggered pass may both  *)
(* be under way.  Callbacks are assumed not to raise.  The results, which  *)
(* are only reported, are left out, with the stop a reported mismatch asks *)
(* to adjust; so are entry prices.                                         *)
(***************************************************************************)
EXTENDS Integers, FiniteSets

CONSTANTS
    Symbols,          \* the instruments
    Sizes,            \* the absolute sizes a position may have
    Passes,           \* the reconcile() calls that may be under way at once
    Required,         \* consecutive_mismatches_required
    SizeTolerancePct  \* size_tolerance_pct, in percent

\* A close may leave a rest, which is a size too.
ASSUME SizesAssumption ==
    /\ Sizes \subseteq Nat \ {0}
    /\ \A m, n \in Sizes : m > n => m - n \in Sizes
ASSUME RequiredAssumption == Required \in Nat \ {0}
ASSUME ToleranceAssumption == SizeTolerancePct \in Nat

VARIABLES
    exchange,            \* exchange: the signed size of every position
    closes,              \* exchange: emergency closes asked for and not executed
    positions,           \* _positions: at most one tracked position per symbol
    consecutive_unknown, \* _consecutive_unknown (a missing key reads as 0)
    consecutive_missing, \* _consecutive_missing
    snapshot,            \* what each pass fetched and has not compared yet
    missed,              \* history: detections of a tracked position as missing
    untracked            \* history: detections of a position as unknown

account == <<exchange, closes>>
counters == <<consecutive_unknown, consecutive_missing>>
history == <<missed, untracked>>
book == <<positions, counters, snapshot, history>>

-----------------------------------------------------------------------------
SignedSizes == Sizes \union {-n : n \in Sizes}
Held == SignedSizes \union {0}
Sides == {"BUY", "SELL"}
Tracked == [side : Sides, size : Sizes]
NoPosition == [side |-> "BUY", size |-> 0]
Idle == [fetched |-> FALSE, sizes |-> [s \in Symbols |-> 0]]
Fetched(sizes) == [fetched |-> TRUE, sizes |-> sizes]

Magnitude(n) == IF n < 0 THEN -n ELSE n
SideOf(n) == IF n > 0 THEN "BUY" ELSE "SELL"
IsTracked(s) == positions[s] /= NoPosition
NoCounts == [s \in Symbols |-> 0]

\* Detections of one kind, of one symbol: how many, how many of them in
\* comparisons one directly after the other, and whether something came
\* between them that the counters do not notice.
NoDetection == [total |-> 0, streak |-> 0, broken |-> FALSE]
NoneDetected == [s \in Symbols |-> NoDetection]
OneMore(d) == [total |-> d.total + 1, streak |-> d.streak + 1, broken |-> d.broken]
Breaks(d) == IF d.total > 0 THEN [d EXCEPT !.broken = TRUE] ELSE d
EndsStreak(d) == [d EXCEPT !.streak = 0]

EmptyBook ==
    /\ positions = [s \in Symbols |-> NoPosition]
    /\ consecutive_unknown = NoCounts
    /\ consecutive_missing = NoCounts
    /\ snapshot = [p \in Passes |-> Idle]
    /\ missed = NoneDetected
    /\ untracked = NoneDetected

LoseBook ==
    /\ positions' = [s \in Symbols |-> NoPosition]
    /\ consecutive_unknown' = NoCounts
    /\ consecutive_missing' = NoCounts
    /\ snapshot' = [p \in Passes |-> Idle]
    /\ missed' = NoneDetected
    /\ untracked' = NoneDetected

-----------------------------------------------------------------------------
(* The account and the callers                                             *)

\* A fill, a liquidation or a close placed elsewhere.
Trade(s) ==
    /\ \E n \in Held \ {exchange[s]} : exchange' = [exchange EXCEPT ![s] = n]
    /\ UNCHANGED <<closes, book>>

\* What the emergency callback asked for: a close of the size it was given,
\* which never opens a position in the other direction.
ExecuteClose(s) ==
    \E n \in closes[s] :
        LET rest == Magnitude(exchange[s]) - Magnitude(n)
            left == IF rest <= 0 THEN 0 ELSE IF n > 0 THEN rest ELSE -rest
        IN
        /\ exchange' = [exchange EXCEPT
             ![s] = IF @ /= 0 /\ SideOf(@) = SideOf(n) THEN left ELSE @]
        /\ closes' = [closes EXCEPT ![s] = @ \ {n}]
        /\ UNCHANGED book

set_local_position(s) ==
    /\ \E new \in Tracked : positions' = [positions EXCEPT ![s] = new]
    /\ untracked' = [untracked EXCEPT ![s] = Breaks(@)]
    /\ UNCHANGED <<account, counters, snapshot, missed>>

clear_local_position(s) ==
    /\ IsTracked(s)
    /\ positions' = [positions EXCEPT ![s] = NoPosition]
    /\ missed' = [missed EXCEPT ![s] = Breaks(@)]
    /\ UNCHANGED <<account, counters, snapshot, untracked>>

-----------------------------------------------------------------------------
(* The fetch.  A status other than 200, a timeout and a malformed answer   *)
(* all return {}, which is also what an empty account returns.             *)

Fetch(p) ==
    /\ ~snapshot[p].fetched
    /\ snapshot' = [snapshot EXCEPT ![p] = Fetched(exchange)]
    /\ UNCHANGED <<account, positions, counters, history>>

FailedFetch(p) ==
    /\ ~snapshot[p].fetched
    /\ snapshot' = [snapshot EXCEPT ![p] = Fetched([s \in Symbols |-> 0])]
    /\ UNCHANGED <<account, positions, counters, history>>

-----------------------------------------------------------------------------
(* The comparison: what one snapshot does to one symbol.                   *)

Seen(p, s) == snapshot[p].sizes[s] /= 0

PositionsMatch(local, size) ==
    /\ local.side = SideOf(size)
    /\ local.size > 0 =>
         100 * Magnitude(Magnitude(size) - local.size) <= SizeTolerancePct * local.size

Unknown(p, s) == Seen(p, s) /\ ~IsTracked(s)
Missing(p, s) == ~Seen(p, s) /\ IsTracked(s)
Matching(p, s) == Seen(p, s) /\ IsTracked(s) /\ PositionsMatch(positions[s], snapshot[p].sizes[s])
Mismatched(p, s) == Seen(p, s) /\ IsTracked(s) /\ ~PositionsMatch(positions[s], snapshot[p].sizes[s])

\* Mutant: the count is not put back once it has been acted on.
CountUnreset(count) == count + 1

\* F4: the detection that makes the count reach the requirement is acted on,
\* and the count starts again.
Confirmed(count) == count + 1 >= Required
CountAfter(count) == IF Confirmed(count) THEN 0 ELSE count + 1

\* The (symbol, size) the emergency callback is given.
EmergencyCloses(p, s) ==
    IF Unknown(p, s) /\ Confirmed(consecutive_unknown[s]) THEN {snapshot[p].sizes[s]} ELSE {}

\* Mutant: a mismatch is reported and the size not adopted.
PositionUnsynced(p, s) ==
    IF Missing(p, s) /\ Confirmed(consecutive_missing[s]) THEN NoPosition ELSE positions[s]

\* A mismatch of side, too, only adopts the size.
PositionAfter(p, s) ==
    IF Missing(p, s) /\ Confirmed(consecutive_missing[s]) THEN NoPosition
    ELSE IF Mismatched(p, s) THEN [positions[s] EXCEPT !.size = Magnitude(snapshot[p].sizes[s])]
    ELSE positions[s]

\* Only a match clears it: a snapshot without the symbol does not.
UnknownAfter(p, s) ==
    IF Unknown(p, s) THEN CountAfter(consecutive_unknown[s])
    ELSE IF Matching(p, s) THEN 0
    ELSE consecutive_unknown[s]

\* Mutant: without the second loop's else, only a match clears the count.
MissingClearedByMatchOnly(p, s) ==
    IF Missing(p, s) THEN CountAfter(consecutive_missing[s])
    ELSE IF Matching(p, s) THEN 0
    ELSE consecutive_missing[s]

\* Any snapshot with a tracked symbol clears it; clearing the position does not.
MissingAfter(p, s) ==
    IF Missing(p, s) THEN CountAfter(consecutive_missing[s])
    ELSE IF Seen(p, s) /\ IsTracked(s) THEN 0
    ELSE consecutive_missing[s]

\* The history: a detection that was acted on, or spoken against by a sight of
\* the tracked position, or a match, does not count again.  Any other
\* comparison ends the streak, and one that sees no position at all comes
\* between two detections of it as unknown.
Observed(p) ==
    /\ missed' = [s \in Symbols |->
         IF Missing(p, s)
         THEN (IF positions'[s] = NoPosition THEN NoDetection ELSE OneMore(missed[s]))
         ELSE IF Seen(p, s) /\ IsTracked(s) THEN NoDetection
         ELSE EndsStreak(missed[s])]
    /\ untracked' = [s \in Symbols |->
         IF Unknown(p, s)
         THEN (IF EmergencyCloses(p, s) /= {} THEN NoDetection ELSE OneMore(untracked[s]))
         ELSE IF Matching(p, s) THEN NoDetection
         ELSE IF Seen(p, s) THEN EndsStreak(untracked[s])
         ELSE EndsStreak(Breaks(untracked[s]))]

\* reconcile(), from the answer to the fetch on.
Compare(p) ==
    /\ snapshot[p].fetched
    /\ positions' = [s \in Symbols |-> PositionAfter(p, s)]
    /\ consecutive_unknown' = [s \in Symbols |-> UnknownAfter(p, s)]
    /\ consecutive_missing' = [s \in Symbols |-> MissingAfter(p, s)]
    /\ closes' = [s \in Symbols |-> closes[s] \union EmergencyCloses(p, s)]
    /\ snapshot' = [snapshot EXCEPT ![p] = Idle]
    /\ Observed(p)
    /\ UNCHANGED exchange

-----------------------------------------------------------------------------
Detections == [total : Nat, streak : Nat, broken : BOOLEAN]

BookTypeOK ==
    /\ exchange \in [Symbols -> Held]
    /\ closes \in [Symbols -> SUBSET SignedSizes]
    /\ positions \in [Symbols -> Tracked \union {NoPosition}]
    /\ consecutive_unknown \in [Symbols -> 0 .. Required - 1]
    /\ consecutive_missing \in [Symbols -> 0 .. Required - 1]
    /\ snapshot \in [Passes -> [fetched : BOOLEAN, sizes : [Symbols -> Held]]]
    /\ missed \in [Symbols -> Detections]
    /\ untracked \in [Symbols -> Detections]
=============================================================================
