--------------------------- MODULE StrategyLifecycle ---------------------------
(***************************************************************************)
(* What the strategy orchestrator promises, whatever the kind of strategy  *)
(* (spec.md 4.3 and 6): the life of the single sw-update strategy and, for *)
(* each of its steps, whether it has not started, is being worked on, or   *)
(* is finished.  Steps start only while the strategy is applied, abort()   *)
(* finishes the steps not yet started, and the strategy is concluded only *)
(* when no step is being worked on.                                        *)
(***************************************************************************)
CONSTANTS Ids   \* the possible step owners (subclouds and SystemController)

VARIABLES
    strategyState,   \* the strategy's state; "none" when there is none
    phase            \* step id -> "initial" | "active" | "done"

Terminal == {"complete", "failed", "aborted"}
Phases == {"initial", "active", "done"}

Create ==
    /\ strategyState = "none"
    /\ \E ids \in SUBSET Ids : phase' = [i \in ids |-> "initial"]
    /\ strategyState' = "initial"

Apply ==
    /\ strategyState = "initial"
    /\ strategyState' = "applying"
    /\ UNCHANGED phase

RequestAbort ==
    /\ strategyState = "applying"
    /\ strategyState' = "abort-requested"
    /\ UNCHANGED phase

\* The abort is carried out: every step not yet started is finished.
Abort ==
    /\ strategyState = "abort-requested"
    /\ strategyState' = "aborting"
    /\ phase' = [i \in DOMAIN phase |->
                    IF phase[i] = "initial" THEN "done" ELSE phase[i]]

\* A step is started; the abort may have been requested meanwhile.
Start(i) ==
    /\ strategyState \in {"applying", "abort-requested"}
    /\ phase[i] = "initial"
    /\ phase' = [phase EXCEPT ![i] = "active"]
    /\ UNCHANGED strategyState

\* A step is finished, started or not (failed, aborted, complete).
Finish(i) ==
    /\ strategyState \in {"applying", "abort-requested", "aborting"}
    /\ phase[i] # "done"
    /\ phase' = [phase EXCEPT ![i] = "done"]
    /\ UNCHANGED strategyState

\* The strategy is concluded while no step is being worked on.
Conclude ==
    /\ strategyState \in {"applying", "abort-requested", "aborting"}
    /\ \A i \in DOMAIN phase : phase[i] # "active"
    /\ \E v \in Terminal : strategyState' = v
    /\ UNCHANGED phase

Delete ==
    /\ strategyState \in {"initial"} \cup Terminal
    /\ strategyState' = "deleting"
    /\ UNCHANGED phase

Destroy ==
    /\ strategyState = "deleting"
    /\ strategyState' = "none"
    /\ phase' = [i \in {} |-> "initial"]

Init ==
    /\ strategyState = "none"
    /\ phase = [i \in {} |-> "initial"]

\* The orchestrator's own moves.
Orchestrate ==
    Abort \/ Conclude \/ Destroy \/ \E i \in DOMAIN phase : Start(i) \/ Finish(i)

Next ==
    \/ Create \/ Apply \/ RequestAbort \/ Delete
    \/ Orchestrate

\* The orchestrator keeps moving an applied, aborted or deleted strategy.
Spec == Init /\ [][Next]_<<strategyState, phase>>
             /\ WF_<<strategyState, phase>>(Orchestrate)

=============================================================================
