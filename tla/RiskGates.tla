------------------------------ MODULE RiskGates ------------------------------
(***************************************************************************)
(* The gates of runtime/risk and runtime/governance that decide how much   *)
(* may be traded: the capital manager, the catastrophe handler, the        *)
(* degradation manager, the circuit breakers, the capital governor, and    *)
(* the latches that only an operator releases.  They share no state and    *)
(* never call each other, so that a behaviour follows one of them, its     *)
(* subject.                                                                *)
(***************************************************************************)
EXTENDS CapitalManager, CatastropheHandler, DegradationManager, CircuitBreakers,
        CapitalGovernor, OperatorLatches

VARIABLE subject

vars == <<subject, capitalVars, catastropheVars, degradationVars, breakerVars,
          governorVars, latchVars>>

Subjects == {"capital", "catastrophe", "degradation", "breakers", "governor", "latches"}

TypeOK ==
    /\ subject \in Subjects
    /\ CapitalTypeOK
    /\ CatastropheTypeOK
    /\ DegradationTypeOK
    /\ BreakersTypeOK
    /\ GovernorTypeOK
    /\ LatchTypeOK

Init ==
    /\ subject \in Subjects
    /\ CapitalInit
    /\ CatastropheInit
    /\ DegradationInit
    /\ BreakersInit
    /\ GovernorInit
    /\ LatchInit
    /\ subject /= "capital" => left = CHOOSE q \in Quotas : TRUE  \* nobody spends it

Next ==
    /\ UNCHANGED subject
    /\ \/ /\ subject = "capital" /\ CapitalNext
          /\ UNCHANGED <<catastropheVars, degradationVars, breakerVars, governorVars, latchVars>>
       \/ /\ subject = "catastrophe" /\ CatastropheNext
          /\ UNCHANGED <<capitalVars, degradationVars, breakerVars, governorVars, latchVars>>
       \/ /\ subject = "degradation" /\ DegradationNext
          /\ UNCHANGED <<capitalVars, catastropheVars, breakerVars, governorVars, latchVars>>
       \/ /\ subject = "breakers" /\ BreakersNext
          /\ UNCHANGED <<capitalVars, catastropheVars, degradationVars, governorVars, latchVars>>
       \/ /\ subject = "governor" /\ GovernorNext
          /\ UNCHANGED <<capitalVars, catastropheVars, degradationVars, breakerVars, latchVars>>
       \/ /\ subject = "latches" /\ LatchNext
          /\ UNCHANGED <<capitalVars, catastropheVars, degradationVars, breakerVars, governorVars>>

Spec == Init /\ [][Next]_vars
=============================================================================
