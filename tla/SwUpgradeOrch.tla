---------------------------- MODULE SwUpgradeOrch ----------------------------
(***************************************************************************)
(* The upgrade orchestration thread of dcmanager                           *)
(* (dcmanager/manager/sw_upgrade_orch_thread.py, class SwUpgradeOrchThread) *)
(* together with the strategy API of SwUpdateManager that creates, applies, *)
(* aborts and deletes the single sw-update strategy.                       *)
(*                                                                         *)
(* Actors:                                                                 *)
(*  - the orchestration loop (upgrade_orch), one thread, which each pass   *)
(*    runs apply(), abort() or delete() on the strategy it reads;          *)
(*  - the per-region worker greenthreads it spawns                         *)
(*    (update_subcloud_upgrade), tracked in subcloud_workers;              *)
(*  - the REST API (SwUpdateManager, modelled from spec.md section 6) and  *)
(*    the user managing/unmanaging subclouds.                              *)
(*                                                                         *)
(* apply() reads all strategy steps once (db_api.strategy_step_get_all)    *)
(* and then writes steps one at a time; every DB write is a point where    *)
(* the eventlet hub may run a worker or an API request, so apply() is a    *)
(* scan action followed by one action per step it writes.                  *)
(***************************************************************************)
EXTENDS Naturals, FiniteSets, FiniteSetsExt

CONSTANTS
    Subclouds,             \* subcloud ids (strategy_step.subcloud_id), naturals > 0
    MaxParallel,           \* max-parallel-subclouds of a parallel strategy
    SystemControllerStep,  \* TRUE iff a strategy gets the subcloud_id=None step
    MaxRestarts            \* bound on restarts of the orchestrator service

ASSUME Subclouds \subseteq Nat \ {0}
ASSUME MaxParallel \in Nat \ {0}
ASSUME SystemControllerStep \in BOOLEAN
ASSUME MaxRestarts \in Nat

\* subcloud_id None: the step of the SystemController (region RegionOne).
NullSubcloud == 0

\* The strategy states consts.SW_UPDATE_STATE_*; "none" is the absence of a
\* strategy row (sw_update_strategy_get raises NotFound).
StrategyStates == {"none", "initial", "applying", "abort-requested",
                   "aborting", "aborted", "complete", "failed", "deleting"}

\* The step states the upgrade thread writes (consts.STRATEGY_STATE_*).
StepStates == {"initial", "installing-license", "creating-strategy",
               "complete", "aborted", "failed"}
TerminalStepStates == {"complete", "aborted", "failed"}

VARIABLES
    strategyState,   \* sw_update_strategy.state
    stopOnFailure,   \* sw_update_strategy.stop_on_failure
    steps,           \* subcloud_id -> [stage, state]: the strategy_steps table
    managed,         \* subcloud -> management_state = managed
    workers,         \* regions with an entry in self.subcloud_workers
    pc,              \* where the orchestration loop is: sleep/finalize/dispatch
    snapshot,        \* strategy_steps as read at the start of apply()
    verdict,         \* the strategy state apply() decided to write
    todo,            \* steps of current_stage apply() has still to visit
    restarts         \* restarts of the orchestrator service so far

vars == <<strategyState, stopOnFailure, steps, managed, workers,
          pc, snapshot, verdict, todo, restarts>>
orchVars == <<pc, snapshot, verdict, todo>>

NoSteps == [s \in {} |-> "initial"]

-----------------------------------------------------------------------------
(***************************************************************************)
(* Strategy creation: stage assignment (SwUpdateManager, spec.md 4.3).     *)
(* The SystemController step, when present, is stage 1; subclouds follow   *)
(* in id order, MaxParallel per stage when parallel, one per stage when    *)
(* serial (tests test_create_sw_update_strategy_parallel/_serial).        *)
(***************************************************************************)
FirstSubcloudStage == IF SystemControllerStep THEN 2 ELSE 1

StageOf(sc, members, applyType) ==
    LET rank == Cardinality({t \in members : t < sc})
        size == IF applyType = "serial" THEN 1 ELSE MaxParallel
    IN  FirstSubcloudStage + rank \div size

NewSteps(members, applyType) ==
    LET ids == members \cup (IF SystemControllerStep THEN {NullSubcloud} ELSE {})
    IN  [s \in ids |->
            [stage |-> IF s = NullSubcloud THEN 1
                       ELSE StageOf(s, members, applyType),
             state |-> "initial"]]

CreateStrategy ==
    /\ strategyState = "none"
    /\ \E members \in SUBSET {s \in Subclouds : managed[s]},
          applyType \in {"serial", "parallel"}, sof \in BOOLEAN :
          /\ steps' = NewSteps(members, applyType)
          /\ stopOnFailure' = sof
    /\ strategyState' = "initial"
    /\ UNCHANGED <<managed, workers, orchVars>>

ApplyStrategy ==
    /\ strategyState = "initial"
    /\ strategyState' = "applying"
    /\ UNCHANGED <<stopOnFailure, steps, managed, workers, orchVars>>

AbortStrategy ==
    /\ strategyState = "applying"
    /\ strategyState' = "abort-requested"
    /\ UNCHANGED <<stopOnFailure, steps, managed, workers, orchVars>>

DeleteStrategy ==
    /\ strategyState \in {"initial", "complete", "failed", "aborted"}
    /\ strategyState' = "deleting"
    /\ UNCHANGED <<stopOnFailure, steps, managed, workers, orchVars>>

\* The user manages or unmanages a subcloud at any time.
SetManagement(s) ==
    /\ managed' = [managed EXCEPT ![s] = ~@]
    /\ UNCHANGED <<strategyState, stopOnFailure, steps, workers, orchVars>>

-----------------------------------------------------------------------------
(***************************************************************************)
(* The orchestration thread.                                               *)
(***************************************************************************)

\* strategy_step_update: the DB write of one step's state (the timestamps
\* it also sets are not modelled).
StepUpdate(s, st) == steps' = [steps EXCEPT ![s].state = st]

\* Steps are visited by (stage, subcloud_id).
Before(snap, a, b) ==
    \/ snap[a].stage < snap[b].stage
    \/ snap[a].stage = snap[b].stage /\ a < b

\* Fault variants of IsStop, for mutation checks: the stage is taken from
\* the first step still initial; failed subcloud steps never stop the scan.
IsStopAtInitial(snap, s) ==
    \/ snap[s].state = "initial"
    \/ /\ snap[s].state = "failed"
       /\ s = NullSubcloud \/ stopOnFailure
IsStopIgnoringStopOnFailure(snap, s) ==
    \/ snap[s].state \notin TerminalStepStates
    \/ snap[s].state = "failed" /\ s = NullSubcloud

\* The scan loop of apply() leaves the loop at step s: s is not finished, or
\* s failed and is the SystemController's step or stop_on_failure is set.
IsStop(snap, s) ==
    \/ snap[s].state \notin TerminalStepStates
    \/ /\ snap[s].state = "failed"
       /\ s = NullSubcloud \/ stopOnFailure

\* The step at which the scan breaks (empty: the for-else branch runs).
ScanStop(snap) ==
    {s \in DOMAIN snap :
        /\ IsStop(snap, s)
        /\ \A t \in DOMAIN snap : Before(snap, t, s) => ~IsStop(snap, t)}

\* Fault variant of FinalVerdict: aborts are checked before failures.
FinalVerdictAbortFirst(snap) ==
    IF \E s \in DOMAIN snap : snap[s].state = "aborted" THEN "aborted"
    ELSE IF \E s \in DOMAIN snap : snap[s].state = "failed" THEN "failed"
    ELSE "complete"

\* The for-else branch: every step is finished.
FinalVerdict(snap) ==
    IF \E s \in DOMAIN snap : snap[s].state = "failed" THEN "failed"
    ELSE IF \E s \in DOMAIN snap : snap[s].state = "aborted" THEN "aborted"
    ELSE "complete"

\* stop_after_stage: a step of that stage is neither complete nor failed.
WorkRemaining(snap, stage) ==
    \E s \in DOMAIN snap : snap[s].stage = stage
                           /\ snap[s].state \notin {"complete", "failed"}

ApplyActive == pc = "sleep" /\ strategyState \in {"applying", "aborting"}

\* apply(): every step is finished; decide failed/aborted/complete.
ApplyComplete ==
    /\ ApplyActive
    /\ ScanStop(steps) = {}
    /\ pc' = "finalize"
    /\ verdict' = FinalVerdict(steps)
    /\ UNCHANGED <<strategyState, stopOnFailure, steps, managed, workers,
                   snapshot, todo>>

\* apply(): the SystemController's step failed.
ApplySystemControllerFailed ==
    /\ ApplyActive
    /\ \E s \in ScanStop(steps) : s = NullSubcloud /\ steps[s].state = "failed"
    /\ pc' = "finalize"
    /\ verdict' = "failed"
    /\ UNCHANGED <<strategyState, stopOnFailure, steps, managed, workers,
                   snapshot, todo>>

\* Fault variant of ApplyStageFailed: the strategy is failed without
\* waiting for the other steps of the failed step's stage.
ApplyStageFailedUnsettled ==
    /\ ApplyActive
    /\ \E s \in ScanStop(steps) : s # NullSubcloud /\ steps[s].state = "failed"
    /\ pc' = "finalize"
    /\ verdict' = "failed"
    /\ UNCHANGED <<strategyState, stopOnFailure, steps, managed, workers,
                   snapshot, todo>>

\* apply(): stop_on_failure and the stage of the failed step has settled.
ApplyStageFailed ==
    /\ ApplyActive
    /\ \E s \in ScanStop(steps) :
          /\ s # NullSubcloud /\ steps[s].state = "failed"
          /\ ~WorkRemaining(steps, steps[s].stage)
    /\ pc' = "finalize"
    /\ verdict' = "failed"
    /\ UNCHANGED <<strategyState, stopOnFailure, steps, managed, workers,
                   snapshot, todo>>

\* apply(): work on the stage of the step the scan stopped at.
ApplyStage ==
    /\ ApplyActive
    /\ \E s \in ScanStop(steps) :
          /\ steps[s].state = "failed" =>
                s # NullSubcloud /\ WorkRemaining(steps, steps[s].stage)
          /\ todo' = {t \in DOMAIN steps : steps[t].stage = steps[s].stage}
    /\ snapshot' = steps
    /\ pc' = "dispatch"
    /\ UNCHANGED <<strategyState, stopOnFailure, steps, managed, workers,
                   verdict>>

\* The strategy update under strategy_lock; it overwrites whatever state
\* the API may have written since the strategy was read.
Finalize ==
    /\ pc = "finalize"
    /\ strategyState' = verdict
    /\ pc' = "sleep"
    /\ verdict' = "complete"
    /\ UNCHANGED <<stopOnFailure, steps, managed, workers, snapshot, todo>>

\* Fault variant of DispatchOutcome: a step already started is rewritten
\* with the state it has instead of being failed as unimplemented.
DispatchOutcomeKeepsState(s) ==
    CASE snapshot[s].state = "initial" /\ s # NullSubcloud /\ ~managed[s]
            -> "failed"
      [] snapshot[s].state = "initial" -> "installing-license"
      [] OTHER -> snapshot[s].state

\* The state apply() writes for a step of current_stage, from the state it
\* read: initial starts the upgrade unless the subcloud is unmanaged;
\* installing-license and every other state are failed as unimplemented.
DispatchOutcome(s) ==
    CASE snapshot[s].state = "initial" /\ s # NullSubcloud /\ ~managed[s]
            -> "failed"
      [] snapshot[s].state = "initial" -> "installing-license"
      [] OTHER -> "failed"

\* A worker is started for a step entering its first state, unless one is
\* still registered for that region.
StartsWorker(s) ==
    /\ DispatchOutcome(s) = "installing-license"
    /\ s \notin workers

\* One iteration of the "Working on stage" loop of apply().
DispatchStep ==
    /\ pc = "dispatch"
    /\ LET s == Min(todo) IN
          /\ StepUpdate(s, DispatchOutcome(s))
          /\ workers' = IF StartsWorker(s) THEN workers \cup {s} ELSE workers
          /\ todo' = todo \ {s}
    \* the loop ends: apply() returns and its locals go out of scope
    /\ IF todo' = {} THEN pc' = "sleep" /\ snapshot' = NoSteps
                     ELSE UNCHANGED <<pc, snapshot>>
    /\ UNCHANGED <<strategyState, stopOnFailure, managed, verdict>>

\* Fault variant of AbortPass: the strategy state "aborting" is written to
\* the steps instead of the step state "aborted".
AbortPassWritesStrategyState ==
    /\ pc = "sleep"
    /\ strategyState = "abort-requested"
    /\ steps' = [s \in DOMAIN steps |->
                    IF steps[s].state = "initial"
                    THEN [steps[s] EXCEPT !.state = "aborting"]
                    ELSE steps[s]]
    /\ strategyState' = "aborting"
    /\ UNCHANGED <<stopOnFailure, managed, workers, orchVars>>

\* abort(): steps not yet started are aborted, then the strategy aborting.
AbortPass ==
    /\ pc = "sleep"
    /\ strategyState = "abort-requested"
    /\ steps' = [s \in DOMAIN steps |->
                    IF steps[s].state = "initial"
                    THEN [steps[s] EXCEPT !.state = "aborted"]
                    ELSE steps[s]]
    /\ strategyState' = "aborting"
    /\ UNCHANGED <<stopOnFailure, managed, workers, orchVars>>

\* delete(): destroy all steps, then the strategy.
DeletePass ==
    /\ pc = "sleep"
    /\ strategyState = "deleting"
    /\ steps' = NoSteps
    /\ strategyState' = "none"
    /\ stopOnFailure' = FALSE
    /\ UNCHANGED <<managed, workers, orchVars>>

\* One pass of upgrade_orch().
OrchStep ==
    \/ ApplyComplete \/ ApplySystemControllerFailed \/ ApplyStageFailed
    \/ ApplyStage \/ Finalize \/ DispatchStep \/ AbortPass \/ DeletePass

-----------------------------------------------------------------------------
(***************************************************************************)
(* Worker greenthreads (update_subcloud_upgrade).                          *)
(***************************************************************************)

\* The SystemController's worker moves its step to creating-strategy by
\* subcloud_id, whatever the step's state now is (NotFound if the steps were
\* destroyed, swallowed), then removes itself from subcloud_workers.
WorkerSystemController ==
    /\ NullSubcloud \in workers
    /\ IF NullSubcloud \in DOMAIN steps
       THEN StepUpdate(NullSubcloud, "creating-strategy")
       ELSE UNCHANGED steps
    /\ workers' = workers \ {NullSubcloud}
    /\ UNCHANGED <<strategyState, stopOnFailure, managed, orchVars>>

\* A subcloud's worker raises NotImplementedError, which is logged; it only
\* removes itself from subcloud_workers.
WorkerSubcloud(r) ==
    /\ r \in workers \ {NullSubcloud}
    /\ workers' = workers \ {r}
    /\ UNCHANGED <<strategyState, stopOnFailure, steps, managed, orchVars>>

\* The service is stopped and started again.  upgrade_orch() tests
\* stopped() between two passes, and apply() tests it after every step of
\* its dispatch loop and returns there, leaving the rest of the stage
\* undispatched.  run() then stops the greenthreads still running, and the
\* new thread starts with an empty subcloud_workers and no apply() locals.
\* The strategy and its steps stay in the DB.
Restart ==
    /\ pc \in {"sleep", "dispatch"}
    /\ restarts < MaxRestarts
    /\ restarts' = restarts + 1
    /\ workers' = {}
    /\ pc' = "sleep"
    /\ snapshot' = NoSteps
    /\ todo' = {}
    /\ UNCHANGED <<strategyState, stopOnFailure, steps, managed, verdict>>

-----------------------------------------------------------------------------
Init ==
    /\ strategyState = "none"
    /\ stopOnFailure = FALSE
    /\ steps = NoSteps
    /\ managed \in [Subclouds -> BOOLEAN]
    /\ workers = {}
    /\ pc = "sleep"
    /\ snapshot = NoSteps
    /\ verdict = "complete"
    /\ todo = {}
    /\ restarts = 0

ApiStep ==
    \/ CreateStrategy \/ ApplyStrategy \/ AbortStrategy \/ DeleteStrategy
    \/ \E s \in Subclouds : SetManagement(s)

\* Every step but a restart leaves the restart count alone.
Next ==
    \/ /\ \/ ApiStep
          \/ OrchStep
          \/ WorkerSystemController
          \/ \E r \in Subclouds : WorkerSubcloud(r)
       /\ UNCHANGED restarts
    \/ Restart

\* The loop catches every exception and wakes every 10 seconds; the
\* eventlet hub runs every spawned greenthread.
Fairness ==
    /\ WF_vars(OrchStep /\ UNCHANGED restarts)
    /\ WF_vars(WorkerSystemController /\ UNCHANGED restarts)
    /\ \A r \in Subclouds : WF_vars(WorkerSubcloud(r) /\ UNCHANGED restarts)

Spec == Init /\ [][Next]_vars /\ Fairness

-----------------------------------------------------------------------------
StepRecord == [stage : Nat \ {0}, state : StepStates]

TypeOK ==
    /\ strategyState \in StrategyStates
    /\ stopOnFailure \in BOOLEAN
    /\ DOMAIN steps \subseteq Subclouds \cup {NullSubcloud}
    /\ \A s \in DOMAIN steps : steps[s] \in StepRecord
    /\ managed \in [Subclouds -> BOOLEAN]
    /\ workers \subseteq Subclouds \cup {NullSubcloud}
    /\ pc \in {"sleep", "finalize", "dispatch"}
    /\ verdict \in {"complete", "aborted", "failed"}
    /\ todo \subseteq DOMAIN snapshot
    /\ restarts \in 0..MaxRestarts

Terminal(s) == steps[s].state \in TerminalStepStates
Started(s) == steps[s].state \notin {"initial", "aborted"}

\* Stages run in order: apply() never starts (or fails at dispatch) a step
\* while a step of an earlier stage is unfinished, though it decides the
\* stage from a snapshot that workers and API calls may have outdated.
StageOrder ==
    \A s, t \in DOMAIN steps :
        steps[t].stage < steps[s].stage /\ Started(s) => Terminal(t)

\* stop_on_failure: once a subcloud step of stage k has failed, no step of
\* a later stage is ever started by apply().
StopOnFailureHonoured ==
    stopOnFailure =>
        \A f, t \in DOMAIN steps :
            steps[f].state = "failed" /\ steps[t].stage > steps[f].stage
                => steps[t].state \in {"initial", "aborted"}

\* The state apply() gives a finished strategy agrees with its steps: a
\* complete strategy has only complete steps, an aborted one has an
\* aborted step and no failed step.
VerdictMatchesSteps ==
    /\ strategyState = "complete" =>
          \A s \in DOMAIN steps : steps[s].state = "complete"
    /\ strategyState = "aborted" =>
          /\ \E s \in DOMAIN steps : steps[s].state = "aborted"
          /\ \A s \in DOMAIN steps : steps[s].state # "failed"

\* A step that reached complete, aborted or failed keeps that state while
\* the strategy exists (spec.md section 8: terminal step states are
\* monotonic); checked against the workers' and apply()'s step writes.
TerminalStepStable ==
    [][\A s \in DOMAIN steps \cap DOMAIN steps' :
          Terminal(s) => steps'[s].state = steps[s].state]_steps

\* Every strategy the user applies or aborts is eventually finished by the
\* orchestration loop (complete, failed or aborted).
StrategyTerminates ==
    strategyState \in {"applying", "abort-requested", "aborting"}
        ~> strategyState \in {"complete", "failed", "aborted"}


\* The refinement mapping to StrategyLifecycle: a step is active in any
\* state between initial and the terminal states.
Phase(st) ==
    IF st = "initial" THEN "initial"
    ELSE IF st \in TerminalStepStates THEN "done" ELSE "active"

Lifecycle == INSTANCE StrategyLifecycle
    WITH Ids <- Subclouds \cup {NullSubcloud},
         phase <- [s \in DOMAIN steps |-> Phase(steps[s].state)]

\* The upgrade thread with the strategy API implements the promised
\* strategy lifecycle: steps start only while the strategy is applied,
\* abort() finishes the steps not started, a finished step stays finished,
\* the strategy is concluded only when no step is in progress, and an
\* applied, aborted or deleted strategy keeps moving.
ImplementsLifecycle == Lifecycle!Spec
=============================================================================
