------------------------------ MODULE MCServices ------------------------------
(***************************************************************************)
(* Model checking of the components that share no state with each other:   *)
(* rule findings, data quality, commissioning, the circuit breaker and     *)
(* the local rules of the edge.  Their joint behaviours are                *)
(* interleavings of their own, so part says which one of them moves and    *)
(* the others stay in their initial states.                                *)
(***************************************************************************)
EXTENDS RuleFindings, DataQuality, Commissioning, CircuitBreaker, LocalRules

VARIABLE part

servicesVars == <<findingVars, qualityVars, commissioningVars,
                  breakerVars, localVars, part>>

ServicesInit ==
    /\ FindingInit /\ QualityInit /\ CommissioningInit
    /\ BreakerInit /\ LocalInit
    /\ part \in {"findings", "quality", "commissioning", "breaker", "local"}
    /\ part = "quality" \/ deviates = {}

ServicesNext ==
    /\ UNCHANGED part
    /\ \/ /\ part = "findings" /\ FindingNext
          /\ UNCHANGED <<qualityVars, commissioningVars, breakerVars, localVars>>
       \/ /\ part = "quality" /\ QualityNext
          /\ UNCHANGED <<findingVars, commissioningVars, breakerVars, localVars>>
       \/ /\ part = "commissioning" /\ CommissioningNext
          /\ UNCHANGED <<findingVars, qualityVars, breakerVars, localVars>>
       \/ /\ part = "breaker" /\ BreakerNext
          /\ UNCHANGED <<findingVars, qualityVars, commissioningVars, localVars>>
       \/ /\ part = "local" /\ LocalNext
          /\ UNCHANGED <<findingVars, qualityVars, commissioningVars, breakerVars>>

\* Every evaluation of the rules ends.  While the worker runs, evaluations keep
\* being begun, and not every one of them fails or loses a savepoint.
FindingFairness ==
    /\ WF_evaluation(part = "findings" /\ \E undone \in BOOLEAN : Ends("reprocess", undone))
    /\ WF_findingVars(part = "findings" /\ WorkerBegins)
    /\ SF_evaluation(part = "findings" /\ Ends("worker", FALSE))

\* Both loops of the data quality worker go on for ever, and the database ends a
\* deadlock.  Row locks are granted in the order of asking, and the window loop
\* sleeps between cycles, so an event that waits for a row comes to write it.
QualityFairness ==
    /\ SF_qualityVars(part = "quality" /\ TopicStep)
    /\ WF_qualityVars(part = "quality" /\ WindowStep)
    /\ WF_qualityVars(part = "quality" /\ Deadlock /\ Victim)

\* Time passes, calls keep being made, and the provider answers or times out.
BreakerFairness ==
    /\ WF_breakerVars(part = "breaker" /\ TimeoutExpires)
    /\ WF_breakerVars(part = "breaker" /\ CallBegins)
    /\ WF_breakerVars(part = "breaker" /\ (CallSucceeds \/ CallFails))

ServicesSpec ==
    /\ ServicesInit
    /\ [][ServicesNext]_servicesVars
    /\ FindingFairness /\ QualityFairness /\ BreakerFairness

\* The variables of every component keep their types.
ServicesTypeOK ==
    /\ FindingTypeOK /\ QualityTypeOK /\ CommissioningTypeOK
    /\ BreakerTypeOK /\ LocalTypeOK

-----------------------------------------------------------------------------
(* Values of constants. *)

MCTracked == {Restriction, Leakage}

\* debounce of the demonstration policy, one less for all but the fast findings
MCRequired == [t \in FindingTypes |-> 2]

MCWindows == {{}, {"FLOW", "PRESSURE"}}

MCOutOfRange == {<<"PRESSURE", "HIGH">>, <<"RESERVOIR_LEVEL", "LOW">>}
=============================================================================
