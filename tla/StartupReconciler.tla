-------------------------- MODULE StartupReconciler --------------------------
(***************************************************************************)
(* runtime/persistence/startup_reconciler.py: P5, the comparison of the    *)
(* positions table with the account before trading resumes, and the rows   *)
(* it rewrites.  The table is read as PositionStateMachine reads it, with  *)
(* load_non_flat_positions; every save commits on its own and may fail.    *)
(*                                                                         *)
(* The machine keeps the quantity of a SHORT negative, the reconciler      *)
(* compares it as it is and writes the size of a SHORT back positive.      *)
(***************************************************************************)
EXTENDS Integers, FiniteSets

CONSTANTS
    Symbols,          \* the instruments
    AutoSyncLocal,    \* auto_sync_local, a Boolean
    TolerancePct      \* size_tolerance_pct, in percent: a natural number

VARIABLES
    rows,     \* the positions table (a missing row reads as FLAT)
    listing,  \* exchange_positions: the signed size of each listed symbol
    verdict   \* the outcome of the last reconcile, while it is current

-----------------------------------------------------------------------------
FlatRow == [state |-> "FLAT", direction |-> "NONE", quantity |-> 0]
Transitional == {"ENTERING", "REDUCING", "CLOSING"}
IsLocal(s) == rows[s].state /= "FLAT"
Listed(s) == s \in DOMAIN listing
NothingListed == [s \in {} |-> 0]

AbsInt(n) == IF n < 0 THEN -n ELSE n
Larger(m, n) == IF m < n THEN n ELSE m
ExchangeSide(n) == IF n > 0 THEN "LONG" ELSE IF n < 0 THEN "SHORT" ELSE "NONE"

DirectionsDiffer(row, n) ==
    row.direction /= "NONE" /\ ExchangeSide(n) /= "NONE" /\ row.direction /= ExchangeSide(n)

SizesDiffer(row, n) ==
    /\ row.quantity > 0 /\ n /= 0
    /\ 100 * AbsInt(row.quantity - AbsInt(n)) > TolerancePct * Larger(row.quantity, AbsInt(n))

\* Mutant: the skip of two empty sides also skips a position the exchange has.
ComparePositionsShort(row, n) ==
    IF row.quantity <= 0 THEN "NONE"
    ELSE IF DirectionsDiffer(row, n) THEN "DIRECTION_MISMATCH"
    ELSE IF SizesDiffer(row, n) THEN "SIZE_MISMATCH"
    ELSE IF row.state \in Transitional THEN "STATE_MISMATCH"
    ELSE "NONE"

\* _compare_positions
ComparePositions(row, n) ==
    IF row.quantity <= 0 /\ n = 0 THEN "NONE"
    ELSE IF DirectionsDiffer(row, n) THEN "DIRECTION_MISMATCH"
    ELSE IF SizesDiffer(row, n) THEN "SIZE_MISMATCH"
    ELSE IF row.state \in Transitional THEN "STATE_MISMATCH"
    ELSE "NONE"

\* The discrepancy found for a symbol, if any.
Discrepancy(s) ==
    IF IsLocal(s) THEN
        IF Listed(s) THEN ComparePositions(rows[s], listing[s]) ELSE "GHOST_POSITION"
    ELSE IF Listed(s) /\ listing[s] /= 0 THEN "ORPHAN_POSITION"
    ELSE "NONE"

Found == {s \in Symbols : Discrepancy(s) /= "NONE"}

\* The discrepancies that are resolved by rewriting the row.
Rewritten ==
    {s \in Found : AutoSyncLocal /\ Discrepancy(s) \in
                     {"GHOST_POSITION", "SIZE_MISMATCH", "STATE_MISMATCH"}}

\* RESET_TO_FLAT, and SYNC_LOCAL_TO_EXCHANGE.
ResolvedRow(s) ==
    IF Discrepancy(s) = "GHOST_POSITION" \/ listing[s] = 0 THEN FlatRow
    ELSE [state |-> "OPEN", direction |-> ExchangeSide(listing[s]), quantity |-> AbsInt(listing[s])]

Save(saved) ==
    rows' = [s \in Symbols |-> IF s \in saved THEN ResolvedRow(s) ELSE rows[s]]

ManualReview(failed) == (Found \ Rewritten) \union failed

\* reconcile(): it never awaits anything in between.
Reconcile ==
    \E failed \in SUBSET Rewritten :
        /\ Save(Rewritten \ failed)
        /\ verdict' = IF ManualReview(failed) = {} THEN "success" ELSE "manual"
        /\ UNCHANGED listing

\* The process dies among the saves.
DieReconciling ==
    /\ \E saved \in SUBSET Rewritten : Save(saved)
    /\ verdict' = "none"
    /\ listing' = NothingListed

-----------------------------------------------------------------------------
\* The two things the comparison does not look at: the size of a position
\* whose quantity is negative, and a position listed with size zero.
BlindToSize(row) == row.quantity < 0
BlindToClosed(s) == Listed(s) /\ listing[s] = 0

AgreesWith(row, n) ==
    /\ row.state = "OPEN"
    /\ row.direction = ExchangeSide(n)
    /\ ~SizesDiffer(row, n)
=============================================================================
