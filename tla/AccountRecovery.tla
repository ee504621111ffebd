--------------------------- MODULE AccountRecovery ---------------------------
(***************************************************************************)
(* The life of a process that reconciles twice over: at startup, the       *)
(* positions table with the account (StartupReconciler), and then, every   *)
(* few seconds, the book of local positions with the account               *)
(* (PositionReconciler).  The account moves whether or not the process     *)
(* runs; the table survives a crash, the book does not, and after one it   *)
(* is empty until the callers set it again.                                *)
(*                                                                         *)
(* Between the two the table is the position machine's, whose transitions  *)
(* are PositionMachine: here it is followed during startup only, and after *)
(* a crash it holds any rows the machine may have saved.                   *)
(***************************************************************************)
EXTENDS PositionReconciler

CONSTANTS
    AutoSyncLocal,    \* auto_sync_local
    ListsClosed,      \* the account may list closed positions, with size zero
    MaxMoves          \* bound: moves of the account and the callers, crashes

ASSUME ChoicesAssumption == AutoSyncLocal \in BOOLEAN /\ ListsClosed \in BOOLEAN
ASSUME BoundAssumption == MaxMoves \in Nat

VARIABLES
    rows, listing, verdict,  \* see StartupReconciler
    phase,   \* "down", "starting" (with a listing), "resolved" or "running"
    moves,   \* bound: the moves so far
    calm     \* no further moves, crashes or failed fetches

Startup == INSTANCE StartupReconciler WITH TolerancePct <- SizeTolerancePct

startup == <<rows, listing, verdict>>
environment == <<phase, moves, calm>>
vars == <<account, book, startup, environment>>

-----------------------------------------------------------------------------
\* The rows the machine saves: a size has the sign of its direction, unless
\* the row goes back to one the reconciler wrote.
Saved(states, d, n) == [state : states, direction : {d}, quantity : {n}]

SavedRows ==
    {Startup!FlatRow}
    \union (UNION {Saved({"OPEN", "REDUCING", "CLOSING"}, "LONG", n) : n \in Sizes})
    \union (UNION {Saved({"OPEN", "REDUCING", "CLOSING"}, "SHORT", n) : n \in SignedSizes})
    \union (UNION {Saved({"ENTERING", "CLOSING"}, d, 0) : d \in {"LONG", "SHORT"}})

NotFollowed == [s \in Symbols |-> Startup!FlatRow]

Init ==
    /\ exchange \in [Symbols -> Held]
    /\ closes = [s \in Symbols |-> {}]
    /\ EmptyBook
    /\ rows \in [Symbols -> SavedRows]
    /\ listing = Startup!NothingListed
    /\ verdict = "none"
    /\ phase = "down"
    /\ moves = 0
    /\ calm = FALSE

-----------------------------------------------------------------------------
(* Moves of the environment, up to MaxMoves of them                        *)

Move ==
    /\ ~calm /\ moves < MaxMoves
    /\ moves' = moves + 1
    /\ UNCHANGED <<phase, calm>>

AccountTrades(s) == Move /\ Trade(s) /\ UNCHANGED startup

CallerTracks(s) ==
    /\ phase = "running"
    /\ Move
    /\ set_local_position(s) \/ clear_local_position(s)
    /\ UNCHANGED startup

Crash ==
    /\ phase = "running"
    /\ ~calm /\ moves < MaxMoves
    /\ moves' = moves + 1
    /\ phase' = "down"
    /\ LoseBook
    /\ rows' \in [Symbols -> SavedRows]
    /\ UNCHANGED <<account, listing, verdict, calm>>

CalmDown ==
    /\ phase = "running"
    /\ ~calm
    /\ calm' = TRUE
    /\ UNCHANGED <<account, book, startup, phase, moves>>

-----------------------------------------------------------------------------
(* Startup                                                                 *)

Query ==
    /\ phase = "down"
    /\ phase' = "starting"
    /\ \E closed \in SUBSET {s \in Symbols : exchange[s] = 0} :
         /\ closed /= {} => ListsClosed
         /\ listing' = [s \in {t \in Symbols : exchange[t] /= 0} \union closed |-> exchange[s]]
    /\ UNCHANGED <<account, book, rows, verdict, moves, calm>>

StartupReconciles ==
    /\ phase = "starting"
    /\ phase' = "resolved"
    /\ Startup!Reconcile
    /\ UNCHANGED <<account, book, moves, calm>>

Resume ==
    /\ phase = "resolved"
    /\ phase' = "running"
    /\ rows' = NotFollowed
    /\ listing' = Startup!NothingListed
    /\ verdict' = "none"
    /\ UNCHANGED <<account, book, moves, calm>>

DiesStarting ==
    /\ phase = "starting"
    /\ phase' = "down"
    /\ Startup!DieReconciling
    /\ UNCHANGED <<account, book, moves, calm>>

-----------------------------------------------------------------------------
(* Running                                                                 *)

Running(A) == phase = "running" /\ A /\ UNCHANGED <<startup, environment>>

Fetches(p) == Running(Fetch(p))
FetchFails(p) == ~calm /\ Running(FailedFetch(p))
Compares(p) == Running(Compare(p))
ClosesExecute(s) == ExecuteClose(s) /\ UNCHANGED <<startup, environment>>

Next ==
    \/ \E s \in Symbols : AccountTrades(s) \/ CallerTracks(s) \/ ClosesExecute(s)
    \/ Crash \/ CalmDown
    \/ Query \/ StartupReconciles \/ Resume \/ DiesStarting
    \/ \E p \in Passes : Fetches(p) \/ FetchFails(p) \/ Compares(p)

(***************************************************************************)
(* _reconcile_loop runs for as long as the process does and survives every *)
(* exception of a pass; a triggered pass is a task that runs to its end;   *)
(* the exchange executes the closes it was sent.                           *)
(***************************************************************************)
CONSTANT Loop  \* the pass of _reconcile_loop
ASSUME LoopAssumption == Loop \in Passes

Fairness ==
    /\ WF_vars(Fetches(Loop))
    /\ \A p \in Passes : WF_vars(Compares(p))
    /\ \A s \in Symbols : WF_vars(ClosesExecute(s))

Spec == Init /\ [][Next]_vars /\ Fairness

-----------------------------------------------------------------------------
(* Properties                                                              *)

\* Every variable has its type, and no count of detections stands at the
\* requirement, where it would have been acted on.
TypeOK ==
    /\ BookTypeOK
    /\ rows \in [Symbols -> [state : {"FLAT", "ENTERING", "OPEN", "REDUCING", "CLOSING"},
                             direction : {"LONG", "SHORT", "NONE"}, quantity : Held]]
    /\ \A s \in Symbols :
         rows[s].state = "FLAT" => rows[s] = Startup!FlatRow
    /\ DOMAIN listing \subseteq Symbols
    /\ \A s \in DOMAIN listing : listing[s] \in Held
    /\ verdict \in {"none", "success", "manual"}
    /\ phase \in {"down", "starting", "resolved", "running"}
    /\ moves \in 0 .. MaxMoves
    /\ calm \in BOOLEAN

\* startup_reconciler.py, "Ensures local state matches exchange reality": if a
\* reconcile reports success, then every position listed is in the table, open,
\* in its direction and its size, and nothing else is, except for what the
\* comparison is blind to: the size of a SHORT the machine saved, and an OPEN
\* row of a symbol listed with size zero.  And it is final: a restart that
\* finds the account as it was has nothing left to resolve.
SuccessMeansAgreement ==
    verdict = "success" =>
        /\ \A s \in Symbols :
             IF Startup!Listed(s) /\ listing[s] /= 0
             THEN Startup!AgreesWith(rows[s], listing[s])
             ELSE rows[s] = Startup!FlatRow \/ Startup!BlindToClosed(s)
        /\ Startup!Found = {}

\* F4, "requires consecutive_mismatches_required consecutive detections"
\* (position_reconciler.py:307-309, 370-371), as far as it holds.  A position is
\* reset only when Required comparisons one directly after the other missed it,
\* or Required with none in between that saw it if the callers cleared it
\* meanwhile.  One is closed only untracked, at the size and on the side it was
\* last seen with, and when Required comparisons one directly after the other
\* found it so, or Required with none in between that matched it if the callers
\* tracked it meanwhile or a snapshot came without it: found, absent, found is
\* acted on, which is not what F4 says.  No detection is acted on twice.
ActsOnRepeatedDetections ==
    [][ \A p \in Passes, s \in Symbols : Compares(p) =>
          /\ IsTracked(s) /\ positions'[s] = NoPosition =>
               /\ missed[s].streak + 1 >= Required \/ missed[s].broken
               /\ missed[s].total + 1 >= Required
          /\ closes'[s] /= closes[s] =>
               /\ untracked[s].streak + 1 >= Required \/ untracked[s].broken
               /\ untracked[s].total + 1 >= Required
               /\ ~IsTracked(s)
               /\ closes'[s] = closes[s] \union {snapshot[p].sizes[s]} ]_vars

\* Once the callers and the account are calm and fetches succeed, the book and
\* the account come to agree and stay so, whatever stale snapshots were still
\* under way: the unknown is closed, the missing is forgotten, sizes are equal.
\* (Not sides: a book on the wrong side stays there.)
Settled ==
    \A s \in Symbols :
        /\ IsTracked(s) <=> exchange[s] /= 0
        /\ IsTracked(s) =>
             100 * Magnitude(Magnitude(exchange[s]) - positions[s].size)
               <= SizeTolerancePct * positions[s].size

CalmSettles == calm ~> []Settled
=============================================================================
