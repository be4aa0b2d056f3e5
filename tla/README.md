# TLA+ models of distcloud

These modules model the concurrent parts of `src/distributedcloud`, the
distributed-cloud manager (dcmanager) and orchestrator (dcorch). TLC checks
them. `PROJECT.json` records:

- each component and its status;
- each run and the properties it checks;
- each mutant;
- the source lines behind every definition ("map");
- the findings;
- the hazards.

## The system and its parts

| Part | Source | Actors | Model |
|---|---|---|---|
| Upgrade strategy orchestration | `dcmanager/manager/sw_upgrade_orch_thread.py` | the loop `upgrade_orch` (one thread, 10 s tick); per-region worker greenthreads `update_subcloud_upgrade` kept in `subcloud_workers` | `SwUpgradeOrch`, refining `StrategyLifecycle` |
| Strategy API (SwUpdateManager create/apply/abort/delete) | not in `src/` (spec.md 4.3, 6) | REST calls | the environment of `SwUpgradeOrch` (spec-modelled) |
| Resource sync pass | `dcorch/engine/sync_thread.py` (`sync`, `set_sync_status`) | one sync thread per (subcloud, endpoint type) | `SyncThread` |
| Sync audit and master-resource cache | `sync_thread.py` (`sync_audit`, `audit_find_*`, `get_cached_master_resources`, `post_audit`) | the audit of every sync thread, sharing a class-level cache under `AUDIT_LOCK_NAME` | `SyncAudit`; its purge of failed requests is `PurgeFailed` in `SyncThread` |
| Subcloud audit (availability, openstack) | not in `src/`; spec.md 4.2, 8 and `dcmanager/tests/unit/audit/test_subcloud_audit_manager.py` | the periodic audit of every subcloud | `SubcloudAudit` (spec-modelled); composed with `SyncThread` in `SyncOnAudit` |
| Patch/kube endpoint audits, patch/kube orchestration | not in `src/` | | not modelled |
| Token expiry check | `dccommon/utils.py` (`is_token_expiring_soon`) | the identity client renewing its token (not in `src/`) | `TokenExpiry` |
| Playbook runner, password strip | `dccommon/utils.py` | I/O and formatting | not modelled |
| Service entry point, constants | `dcmanager/cmd/orchestrator.py`, `dccommon/consts.py` | start-up | not modelled |

**How the parts interact.**

- **Orchestration.** The strategy API writes the single strategy row: create,
  apply, abort-requested, deleting. The orchestration loop reads that row every
  tick and runs `apply()`, `abort()` or `delete()`. `apply()` writes step
  states and starts workers, and workers write step states too. Everything runs
  as eventlet greenthreads, so every DB call is a point where another
  greenthread may run. The model splits `apply()` at each step write.
- **Sync.** The API proxy and the audit enqueue orch requests (`schedule_work`),
  and a sync pass drains them. The pass reports the endpoint's sync status to
  dcmanager at its start and at its end. The audit of any thread soft-deletes
  failed requests (`delete_previous_failed_requests`) while passes run.
- **Audit and sync.** dcmanager's subcloud audit publishes each subcloud's
  availability. A dcorch sync thread reads it in `is_subcloud_enabled` before
  its pass and before each request, and runs requests only for an online
  subcloud. `SyncOnAudit` composes the two components.

## Modules

### SwUpgradeOrch (with MCSwUpgradeOrch)

**State.**

| Variable | Code |
|---|---|
| `strategyState`, `stopOnFailure` | the strategy row |
| `steps` | the `strategy_steps` table, subcloud_id -> [stage, state]; the SystemController step is subcloud_id `0` (`None` in the code) |
| `managed` | management state per subcloud |
| `workers` | the keys of `subcloud_workers` |

The locals of `apply()` are model variables too:

- `snapshot`: the result of `strategy_step_get_all`;
- `todo`: the steps of `current_stage` still to visit;
- `verdict`: the strategy state about to be written;
- `pc`: where the loop is.

**Actions.**

- **Scan of apply().** `ApplyComplete`, `ApplySystemControllerFailed`,
  `ApplyStageFailed` and `ApplyStage` are its four outcomes: the for-else
  branch, a failed SystemController step, a settled stop-on-failure stage, and
  work on `current_stage`. `IsStop` and `ScanStop` translate the scan loop.
  `FinalVerdict` translates the for-else branch and `WorkRemaining` the
  stop-after-stage loop.
- **Dispatch.** `Finalize` is the strategy write under `strategy_lock`.
  `DispatchStep` is one iteration of the "Working on stage" loop, and
  `DispatchOutcome` gives the state it writes.
- **Abort and delete.** `AbortPass` is `abort()` and `DeletePass` is
  `delete()`.
- **Workers.** `WorkerSystemController` writes `creating-strategy` to step 0
  and deregisters. `WorkerSubcloud(r)` is the subcloud worker: its
  `do_update_subcloud_upgrade` raises `NotImplementedError`, so it only
  deregisters.
- **Restart.** `Restart` is `stop()` followed by a new `run()` of the thread.
  `upgrade_orch()` tests `stopped()` between two passes, and `apply()` tests
  it after every step it dispatches and returns there (lines 297-299), so a
  stop can also leave the rest of a stage undispatched. `run()` kills the
  worker greenthreads on its way out, so `subcloud_workers` is empty again,
  and the new loop has no `apply()` locals. The strategy and step rows survive, and the restarted loop
  resumes from them. `restarts` counts restarts up to `MaxRestarts`.
- **Environment (spec-modelled).**
  - `CreateStrategy`: stage packing as in spec.md 4.3 and the tests. The
    SystemController is stage 1, then `MaxParallel` subclouds per stage, or
    one per stage when serial.
  - `ApplyStrategy`, `AbortStrategy` and `DeleteStrategy`: the valid source
    states of spec.md 6.
  - `SetManagement`: the user manages or unmanages a subcloud.

The upgrade thread really implements only this much: a subcloud step never
reaches `complete`. The model keeps that, so a strategy with subcloud steps
always ends `failed` or `aborted`.

### StrategyLifecycle (abstract)

This module states what the orchestrator promises for any kind of strategy. It
is written from spec.md 4.3 and 6.

**State.** The strategy state, and for each step a phase: `initial`,
`active` or `done`.

**Actions.**

- The API's `Create`, `Apply`, `RequestAbort` and `Delete`.
- The orchestrator's moves (`Orchestrate`):
  - `Abort` finishes every step not yet started.
  - `Start(i)` is allowed only while the strategy is applying or
    abort-requested.
  - `Finish(i)`.
  - `Conclude` is allowed only while no step is active.
  - `Destroy`.

**Fairness.** `Orchestrate` is weakly fair.

**Refinement.** `SwUpgradeOrch` instantiates it as `Lifecycle`. The mapping
`Phase` sends `initial` to `initial`, any state between initial and terminal
to `active`, and complete/failed/aborted to `done`. `ImplementsLifecycle`
(= `Lifecycle!Spec`) is checked in `orch_stages`.

With the SystemController step the refinement does not hold: finding 1 moves a
`done` step back to `active`.

### SyncThread (with MCSyncThread)

**State.**

| Variable | Code |
|---|---|
| `req` | orch_request rows of one target: state and try_count. `absent` means not yet enqueued; `completed` and `purged` are soft-deleted. |
| `enabled`, `managed`, `syncRow` | `is_subcloud_enabled`, `is_subcloud_managed`, and the row `should_exit` looks up |
| `reported`, `fresh` | `sync_status_reported`, and whether `sync_status_report_time` is under 3600 s old |
| `dcmStatus` | what dcmanager holds |
| `lost` | `update_subcloud_endpoint_status` casts lost so far, up to `MaxLost` |
| `pc`, `startStatus`, `todo`, `cur`, `retry` | the locals of `sync()` |

**Actions.** The pass is split at its DB reads and saves:

- `SyncStart`: the first read, the first report and the defer decision.
- `RequestUnreachable` and `RequestStart`: the top of the request loop.
- One action per outcome of the resource handler: `AttemptSucceeds`,
  `AttemptTimesOut`, `AttemptFailsRetry` and `AttemptFails`.
  - An attempt on a request deleted meanwhile takes the `OrchRequestNotFound`
    break.
  - A save in an exception handler of a deleted request raises out of
    `sync()`; this is `SaveRaises`.
- `Finish`: the re-read and the end-of-pass report.

`SetSyncStatus` is `set_sync_status`: it is skipped while the subcloud is
unmanaged, and skipped while the same status was reported less than 3600 s
ago. `Tell` is the RPC cast that follows: it records the report and its
time, and dcmanager applies it unless the cast is lost (a `cast` is
fire-and-forget, so the thread never learns of the loss).

**Environment.**

- `Enqueue`: `schedule_work`, or the API proxy.
- `PurgeFailed`: the audit's purge.
- `SetEnabled`, `SetManaged` and `RemoveSyncRow`.
- `ReportExpires`: 3600 s pass since the last report.

The `OrchRequestNotFound` branch after the in-progress save (line 356) is not
reachable. Only failed requests are purged, and a request in
`actual_sync_requests` is never failed before the pass reaches it.

### SyncAudit (with MCSyncAudit)

This module models the audits of several subclouds for one resource type.

**State.**

- `master`: the master cloud's resources.
- `rows`: the resource table.
- Per subcloud:
  - `sc`: the subcloud's resources;
  - `mapped`: its subcloud_resource rows;
  - `queue`: its orch requests, in order, each tagged with who scheduled it.
- `cache` and `cached`: the class-level `master_resources_dict`.
- The audit's locals:
  - `abortSet`: `abort_resources`;
  - `scSnap`: `sc_resources`;
  - `mView` and `mLeft`: `m_resources`;
  - `dbLeft`: `db_resources`, from which `audit_find_missing` removes matches.
- `steady`: a history variable holding the resources on the master throughout
  the current audit.

**Actions of the audit.**

| Action | Code |
|---|---|
| `AuditStart` | the pending-request read (line 470) |
| `AuditUnreachable` | the early return at 489, which skips `post_audit` |
| `AuditFetch` | `get_all_resources` with `CachedMaster` = `get_cached_master_resources` |
| `AuditMissing` | one iteration of `audit_find_missing` |
| `AuditNoMaster` | `audit_find_missing` with an empty master list |
| `AuditExtra` | one iteration of `audit_find_extra` |
| `AuditEnd` | `post_audit` emptying the cache |

Each audit iteration reads the subcloud_resource mapping when it runs, and
each schedules its work separately, so audits, sync passes and the user
interleave between them.

**Environment (spec-modelled).**

- `SyncRequest(s)`: the handler of the request at the head of the queue. A
  create adds the resource and its mapping (`persist_db_subcloud_resource`);
  a delete removes both.
- `MasterChange` then `ProxyEnqueue`: the API proxy, which changes the master
  first and then enqueues a request for every subcloud.
- `SubcloudLoses`: the user deletes a resource in a subcloud by hand.

**Defaults kept.** The resource hooks keep the base class's defaults. Hooks
that subclasses override (same_resource, map_subcloud_resource,
audit_dependants) are not in `src/`.

### SubcloudAudit (with MCSubcloudAudit)

The audit engine is not in `src/`. The module is written from spec.md 4.2
and 8 and from the expectations of `test_subcloud_audit_manager.py`, and
every map entry is spec-modelled.

**State.** Per subcloud: `avail` (availability_status), `failCount`
(audit_fail_count), `osInstalled` (openstack_installed), `osEndpoints`
(whether the openstack endpoint types are synced), and the environment's
`reachable` (the service-group query succeeds) and `osApp` (stx-openstack
applied and active). `streak` is a history variable: the consecutive
unreachable audits, capped at `AvailFailMax + 1`. `budget` bounds the
environment's changes.

**Actions.** `AuditSubcloud(s)` is one audit of one subcloud. It is
`AuditReachable` or `AuditUnreachable`, followed by `AuditOpenstack`.
`FailedCount` and `AvailAfterFailure` give the new count and availability,
as the tests expect: the count stops at `AvailFailMax`. `Reach` and
`AppChange` are the environment.

### SyncOnAudit (with MCSyncOnAudit)

This module composes `SubcloudAudit` (as `Audit`) with `SyncThread` (as
`Sync`), in the way the ICS02 environment modules compose chains. The sync
thread's `enabled` is substituted by `Enabled`, which is true when
`avail[Synced] = "online"`. That is `is_subcloud_enabled`, with the initial
sync taken as completed.

- `AuditAction` is an audit step or a change of reachability or of the
  application, with the sync variables unchanged.
- `SyncAction` is a pass step or a step of the thread's remaining
  environment (enqueue, purge, manage, row removal, report expiry), with the
  audit variables unchanged.
- `SetEnabled` is not part of the composition: only the audit changes the
  availability.

Both components keep their fairness.

### TokenExpiry (with MCTokenExpiry)

This module models the near-expiry test of keystone tokens and the client that
uses it.

- `RandRange` is the set of values `random.randrange(start, stop, step)` can
  return.
- `Durations` applies it to `STALE_TOKEN_DURATION_MIN`, `_MAX` and `_STEP`.
- `IsSoon` is `timeutils.is_soon`, the comparison `dt <= now + window`.
- `IsTokenExpiringSoon(d)` is the whole function, for a draw `d`.

Around these sits the identity client of spec.md 4.1, which is
spec-modelled. `CheckToken` draws a duration, tests the cached token, and
replaces it with one living `TokenLife` seconds when the test says so. `Tick`
lets time pass. Time is whole seconds: the code parses microsecond ISO
timestamps, and that matters only at equality (finding 5).

## Runs

| Run | Checks | Result and what it shows |
|---|---|---|
| `orch_stages` | `TypeOK`, `StageOrder`, `StopOnFailureHonoured`, `VerdictMatchesSteps`, `StrategyTerminates`, `ImplementsLifecycle` | pass, 108,832 distinct states, with one restart of the thread, between passes or in the middle of a stage. Even though apply() works from a stale snapshot, stages run in order, stop_on_failure stops later stages, a finished strategy's state matches its steps, and every applied or aborted strategy terminates. The thread implements `StrategyLifecycle`. |
| `orch_sc` | `StrategyTerminates` | pass, 26,720 distinct states. With the SystemController step, its racing worker and a restart, strategies still terminate. |
| `orch_terminal` | `TerminalStepStable` | violation (finding 1). A late SystemController worker writes `creating-strategy` over the step apply() failed as "install license not yet implemented". |
| `sync_pass` | `TypeOK`, `EveryRequestSettles`, `StatusConverges` | pass, 393,456 distinct states, about 60 s. Under every handler outcome, purge, disable and one lost status cast: once the subcloud stays enabled and the handler eventually stops timing out, every queued or in-progress request ends completed, failed or purged. Once the subcloud also stays managed, the status dcmanager holds ends up matching the requests, even after a lost cast. Without the timing-out condition neither holds: the code retries a timed-out request on every pass without limit (finding 2), and the status flips between in-sync and out-of-sync each pass. |
| `sync_trycount` | `TryCountWithinMaxRetry` | violation (finding 2). A request timed out 3 times stays in-progress, the next pass times it out again, and try_count reaches 4. This contradicts spec.md 8 and scenario 6. |
| `audit_pass` | `TypeOK`, `AuditDeletesOnlyOutsideMasterView`, `Converges` | pass, 478,090 distinct states, about 95 s. The two `abort_resources` checks pair up across the missing and extra loops. The audit never deletes a resource of the master list it works from. Once changes stop, every subcloud holds exactly the master's resources: the repair covers stale caches, manual deletes and unreachable audits. |
| `audit_stale_cache` | `NoDeleteOfSteadyResource` | violation (finding 4). sc1's audit caches the master list while resource 1 is absent from it. Resource 1 is then created on the master, after a delete or for the first time (the trace depends on the workers), and the proxy creates it in sc2. sc2's audit starts after that, uses the cached list, and schedules the delete of resource 1 in sc2. |
| `token_pass` | `TypeOK`, `RenewalWithinWindow` | pass, 25,480 distinct states. Every draw lies in [300, 480); `TypeOK` states that range. Whatever is drawn, a check renews every token with 300 s or less to live and keeps every token with 480 s or more. |
| `token_boundary` | `NearExpiryAsSpecified` | violation (finding 5). A token with exactly the drawn duration left is renewed, but spec.md 4.1 says "remaining life < the drawn value". |
| `audit_sync_pass` | `TypeOK`, `OfflineOnlyAfterConsecutiveFailures`, `AvailabilityConverges`, `RequestsSettleOnceReachable` | pass, 115,368 distinct states, about 30 s, on `SyncOnAudit`. An online subcloud goes offline only after `AvailFailMax` consecutive unreachable audits. Once reachability and the application stop changing, availability matches reachability and the openstack endpoints match the application. Once the subcloud stays reachable, its subcloud_sync row stays and the handler eventually stops timing out, every request settles, including one queued while the subcloud was offline: the audit brings the subcloud online, and the sync pass then runs the request. |
| `subaudit_count` | `FailCountCountsUnreachableAudits` | violation (finding 6). The tests cap audit_fail_count at `AvailFailMax`, but spec.md 8 says it grows by one on every unreachable tick. |
| `sync_insync` | `InSyncReportedOnlyWhenClean` | violation (finding 3). The end-of-pass report says in-sync with a request still queued. |

**Mutants.** Each property of a passing run is also checked against a plausible
bug of the code it is about:

| Property | Mutated definition | Plausible bug |
|---|---|---|
| `StageOrder` | `IsStop` | the stage is taken from the first *initial* step |
| `StopOnFailureHonoured` | `IsStop` | failed subcloud steps never stop the scan |
| `VerdictMatchesSteps` | `FinalVerdict` | aborts are tested before failures |
| `StrategyTerminates` | `DispatchOutcome` | a started step is rewritten unchanged |
| `TypeOK` (orchestration) | `AbortPass` | the strategy state `aborting` is written to steps |
| `EveryRequestSettles` | `ActualRequests` | only queued requests are processed |
| `StatusConverges` | `SetSyncStatus` | the debounce skips a repeated status whatever the age of the last report; only a lost cast exposes it |
| `TypeOK` (sync) | `AttemptTimesOut` | the unused `STATE_TIMEDOUT` is saved |
| `ImplementsLifecycle` | `ApplyStageFailed` | the strategy fails without waiting for the rest of the failed stage |
| `TypeOK` (audit) | `AuditExtra` | the finding string is passed as the operation type |
| `AuditDeletesOnlyOutsideMasterView` | `AuditExtra` | the `abort_resources` check of `audit_find_extra` is dropped |
| `Converges` | `AuditEnd` | `post_audit` does not empty the cache |
| `TypeOK` (token) | `RandRange` | randrange taken to include its stop value |
| `RenewalWithinWindow` | `IsSoon` | the comparison made strict |
| `TypeOK` (subcloud audit) | `FailedCount` | the count is not capped |
| `AvailabilityConverges` | `AvailAfterFailure` | the threshold must be passed, not reached |
| `OfflineOnlyAfterConsecutiveFailures` | `AuditReachable` | an online subcloud keeps its count on a reachable audit |
| `RequestsSettleOnceReachable` | `AuditReachable` | a reachable audit resets the count but never brings an offline subcloud online |

## Bounds

**Orchestration.** Three subclouds and `MaxParallel = 2`.

- Parallel strategies have stages {1,2} and {3}.
- Serial strategies have three stages.
- Any subset of managed subclouds may be members, so stop-on-failure can fail
  a step while another step of its stage is still running.
- The SystemController step is a constant, with both values checked.
- Every subcloud may be unmanaged at any time, so the unmanaged-fails-step path
  is reached.
- `MaxRestarts = 1`: one restart, at any sleep or between two dispatches, is enough for the restarted
  loop to meet every strategy and step state the first loop left behind.
- Strategies are created, deleted and recreated without bound: the state space
  is finite because steps only move forward within a strategy.

**Sync.** Two requests and `MAX_RETRY = 3` as in the code. try_count saturates
at `TryCountBound = 4`, which stands for "4 or more": the handler itself is
never capped, and a request may time out on every pass. 4 is one more than
MAX_RETRY, the least that shows a second pass retrying. `MaxLost = 1` in
`sync_pass`: one lost cast is enough to leave dcmanager with a status the
thread believes it reported. The composition uses `MaxLost = 0`.

**Audit.** Two subclouds and one resource, `MaxQueue = 2`, and
`MaxChanges = 2`. The change budget covers user changes, manual deletes and
unreachable audits.

- One change lets a cached list go stale.
- Two allow a delete followed by a re-create, or a change plus an unreachable
  audit.
- With two resources the state space is beyond the five-minute budget.
- The audit handles each resource independently, except through the queue
  order.

**Token.** The code's constants (300, 480 and 20), a 600 s token, and 20 s
ticks over 1200 s. With these, every draw meets tokens with more, exactly as
much and less life left than it, and renewed tokens are checked again.

**Subcloud audit and sync.** One subcloud, `AvailFailMax = 2` (the default),
`MaxChanges = 3`, and a sync thread for that subcloud with one request and
`MAX_RETRY = 3`.

- Three changes let the subcloud go unreachable, come back and go again, so
  a reachable audit can break a streak of failures.
- The request can be enqueued in any availability, and the subcloud can go
  offline in the middle of a pass.
- Subclouds are audited independently and share only the change budget, so
  a second subcloud adds no case. With a second subcloud, or a second
  request, the composition exceeds a million states and the five-minute
  budget. `SyncThread` alone checks two requests.
- `subaudit_count` runs `SubcloudAudit` alone, with two subclouds.

## Fairness

The orchestration loop catches every exception and sleeps 10 s between passes,
and the eventlet hub runs every spawned greenthread. The model therefore takes
weak fairness of `OrchStep`, of `WorkerSystemController` and of each
`WorkerSubcloud`.

A sync pass is triggered by every enqueue and every audit. The model takes weak
fairness of `SyncPass`, and of `ReportExpires`, because time passes and every
report ages past 3600 s. The other environment steps are not fair. Nothing in
the code makes the handler stop timing out, so the liveness properties take
that as an antecedent (`HandlerStopsTimingOut`: eventually no attempt times
out). Without it a request is retried on every pass forever and the status
flips with each pass.

In `SyncAudit` the audits are periodic (spec.md 4.4), each subcloud's sync pass
runs its queued requests, and the proxy enqueues within the request that
changed the master. All three are weakly fair. Changes are bounded, so they
stop.

`Restart` is not fair. The loop's fairness is conjoined with
`UNCHANGED restarts`, so a restart never helps a strategy terminate.

In `SubcloudAudit` every subcloud is audited every `T_audit`, so each
`AuditSubcloud(s)` is weakly fair. `SyncOnAudit` keeps that fairness and the
weak fairness of the sync pass and of report expiry, each conjoined with the other component's
variables unchanged. Reachability and the application are not
fair, and their changes are bounded.

The liveness properties are conditioned on the environment settling
(`<>[]` enabled, managed and so on). The code cannot guarantee progress against
a subcloud that flaps forever.

## Not modelled

- **Patch and kube endpoint audits.** Their engine is not in `src/`. What they
  compute is a comparison of patch sets or versions within one audit, with
  no interleaving, and the unit tests pin it case by case. A model would
  repeat those tests.
- **Patch, kube and firmware orchestration threads.** Their code is not in
  `src/`. The upgrade thread is, and `StrategyLifecycle` states what every
  kind of thread promises. A model of the other kinds would be written from
  spec.md alone, and it would not add a concurrency question that the
  upgrade thread does not already raise. The kube pre-check version rule
  (spec.md 4.3) is a pure comparison with no state, and its spec scenario
  already fixes its outcomes.
- **Sync thread set-up.** `initialize`, `initialize_sc_clients` and the
  keystone and dbsync clients only open sessions. `run_sync_audit` only
  checks `disable_audit_endpoints` before `sync_audit`. The initial sync of
  a subcloud is not in `src/`, so `SyncOnAudit` takes it as completed.
- **The subcloud resource table helpers.** `get_db_subcloud_resource` and
  `persist_db_subcloud_resource` are the `mapped` sets of `SyncAudit`. The
  resource-specific hooks keep their base-class defaults.
- **Out of scope.** The playbook runner, password stripping, the service
  entry point and the constants are I/O, formatting and configuration, with
  no state a model checker could say anything about.
