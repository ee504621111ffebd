------------------------- MODULE CatastropheHandler -------------------------
(***************************************************************************)
(* runtime/risk/catastrophe_handler.py: a state that failures make worse,  *)
(* two counters of failures in a time window, and the ways back to NORMAL. *)
(* Methods change the state under the handler's lock; failures are counted *)
(* outside of it, and callers are taken to be of one thread.  A window is  *)
(* a choice: when a failure is counted, the window of the earlier ones is  *)
(* over or not.  The event list and the callback, whose exceptions are     *)
(* swallowed, are left out.                                                *)
(***************************************************************************)
EXTENDS Naturals

CONSTANTS
    Conditions,   \* names of the recovery conditions callers report
    Thresholds,   \* failures in a window that make a storm, for each counter
    MaxCount      \* bound: failures counted in one window

Counters == {"rejection", "rate_limit"}

ASSUME ThresholdsAssumption == Thresholds \in [Counters -> Nat \ {0}]
ASSUME CountAssumption == MaxCount \in Nat

VARIABLES
    severity,  \* the CatastropheState
    counts,    \* failures counted in the current window of each counter
    reported   \* _recovery_conditions_met: what callers said of each condition

catastropheVars == <<severity, counts, reported>>

Severities == {"NORMAL", "DEGRADED", "CRITICAL", "HALTED"}
FailureTypes == {"WEBSOCKET_DISCONNECT", "API_RATE_LIMIT", "ORDER_REJECTION_STORM",
                 "POSITION_MISMATCH", "FUNDING_SPIKE", "ORDERBOOK_VANISH", "EXCHANGE_HALT",
                 "UNKNOWN"}
Reports == {"unreported", "met", "unmet"}

NoCounts == [k \in Counters |-> 0]
NothingReported == [c \in Conditions |-> "unreported"]

CatastropheTypeOK ==
    /\ severity \in Severities
    /\ counts \in [Counters -> 0..MaxCount]
    /\ reported \in [Conditions -> Reports]

CatastropheInit ==
    /\ severity = "NORMAL"
    /\ counts = NoCounts
    /\ reported = NothingReported

-----------------------------------------------------------------------------
\* STATE_TRANSITIONS.  UNKNOWN is in no row and leaves the state as it is.
Worse(from, failure) ==
    CASE failure = "UNKNOWN" \/ from = "HALTED" -> from
      [] failure = "EXCHANGE_HALT" /\ from /= "HALTED" -> "HALTED"
      [] failure \in {"POSITION_MISMATCH", "ORDERBOOK_VANISH"} /\ from /= "HALTED" ->
           IF from = "NORMAL" THEN "CRITICAL" ELSE "HALTED"
      [] failure \in {"WEBSOCKET_DISCONNECT", "ORDER_REJECTION_STORM"} /\ from /= "HALTED" ->
           [NORMAL |-> "DEGRADED", DEGRADED |-> "CRITICAL", CRITICAL |-> "HALTED"][from]
      [] failure = "FUNDING_SPIKE" /\ from /= "HALTED" ->
           IF from = "NORMAL" THEN "DEGRADED" ELSE "CRITICAL"
      [] failure = "API_RATE_LIMIT" /\ from /= "HALTED" ->
           IF from = "NORMAL" THEN "DEGRADED" ELSE from

ReportFailure(failure) ==
    /\ severity' = Worse(severity, failure)
    /\ UNCHANGED <<counts, reported>>

Storm == [rejection |-> "ORDER_REJECTION_STORM", rate_limit |-> "API_RATE_LIMIT"]

\* report_rejection and report_rate_limit.  Once there is a storm, every
\* further failure of the window reports it again.
CountFailure(k, windowOver) ==
    LET count == IF windowOver THEN 1 ELSE counts[k] + 1
    IN /\ count <= MaxCount
       /\ counts' = [counts EXCEPT ![k] = count]
       /\ severity' = IF count >= Thresholds[k] THEN Worse(severity, Storm[k]) ELSE severity
       /\ UNCHANGED reported

\* Mutant: the counters of the failures survive the recovery.
BackToNormalStillCounting ==
    /\ severity' = "NORMAL"
    /\ reported' = NothingReported
    /\ UNCHANGED counts

\* How both ways back end: nothing of the catastrophe is remembered.
BackToNormal ==
    /\ severity' = "NORMAL"
    /\ counts' = NoCounts
    /\ reported' = NothingReported

Merged(said) == [c \in Conditions |-> IF said[c] = "unreported" THEN reported[c] ELSE said[c]]

\* attempt_recovery, with the conditions the caller reports this time added
\* to what was reported before; a condition nobody reported is no condition.
AttemptRecovery(said) ==
    /\ severity \in {"DEGRADED", "CRITICAL"}
    /\ \/ /\ \A c \in Conditions : Merged(said)[c] /= "unmet"
          /\ BackToNormal
       \/ /\ \E c \in Conditions : Merged(said)[c] = "unmet"
          /\ reported' = Merged(said)
          /\ UNCHANGED <<severity, counts>>

\* force_reset with the phrase, from any state.
ForceReset == BackToNormal

CatastropheNext ==
    \/ \E failure \in FailureTypes : ReportFailure(failure)
    \/ \E k \in Counters, windowOver \in BOOLEAN : CountFailure(k, windowOver)
    \/ \E said \in [Conditions -> Reports] : AttemptRecovery(said)
    \/ ForceReset

CatastropheSpec == CatastropheInit /\ [][CatastropheNext]_catastropheVars

-----------------------------------------------------------------------------
\* While entries are allowed no storm is under way, and nothing said about
\* an earlier catastrophe is left to decide when the next one is over: the
\* state, the counters and the conditions are written by different methods
\* (can_enter_position, report_rejection, attempt_recovery).
NormalStartsAfresh ==
    severity = "NORMAL" =>
        /\ \A k \in Counters : counts[k] < Thresholds[k]
        /\ reported = NothingReported
=============================================================================
