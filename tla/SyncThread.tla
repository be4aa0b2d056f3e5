------------------------------ MODULE SyncThread ------------------------------
(***************************************************************************)
(* The sync pass of one dcorch sync thread for one (subcloud, endpoint     *)
(* type): SyncThread.sync() and set_sync_status() of                       *)
(* dcorch/engine/sync_thread.py.                                           *)
(*                                                                         *)
(* The pass reads the orch requests of its target, reports the endpoint    *)
(* sync status to dcmanager, runs the resource handler for each request    *)
(* with up to MAX_RETRY attempts, and reports the status again at the end. *)
(* Concurrently: the API proxy and the audit enqueue requests; the sync     *)
(* audit of any thread soft-deletes failed requests                        *)
(* (delete_previous_failed_requests); dcmanager takes the subcloud         *)
(* offline/online, manages/unmanages it, and may remove its subcloud_sync  *)
(* row; time passes so that the 3600 s report debounce expires.            *)
(* Each DB call is a point where other greenthreads run, so the pass is    *)
(* split at the reads and saves of the code.                               *)
(***************************************************************************)
EXTENDS Naturals, FiniteSets, FiniteSetsExt

CONSTANTS
    Requests,        \* orch request ids of this target, ordered as read
    MAX_RETRY,       \* SyncThread.MAX_RETRY
    MaxLost,         \* bound on reports lost on their way to dcmanager
    TryCountBound    \* try_count saturates here: TryCountBound stands for
                     \* TryCountBound or more, so that the model is finite

ASSUME Requests \subseteq Nat /\ Requests # {}
ASSUME MAX_RETRY \in Nat \ {0} /\ MaxLost \in Nat
ASSUME TryCountBound \in Nat /\ TryCountBound > MAX_RETRY

\* orch request states; "absent" is a request not yet enqueued, "completed"
\* a soft-deleted completed one, "purged" a soft-deleted failed one.
ReqStates == {"absent", "queued", "in-progress", "failed", "completed",
              "purged"}
Deleted == {"completed", "purged"}
SyncStatuses == {"in-sync", "out-of-sync"}

VARIABLES
    req,          \* request -> [state, tries]: orch_request rows
    enabled,      \* is_subcloud_enabled(): online and initial sync completed
    managed,      \* is_subcloud_managed()
    syncRow,      \* the subcloud_sync row exists (should_exit() is false)
    reported,     \* subcloud_sync.sync_status_reported
    fresh,        \* sync_status_report_time is less than 3600 s old
    dcmStatus,    \* the endpoint sync status dcmanager holds
    lost,         \* reports lost so far
    pc,           \* idle / request / attempt / finish
    startStatus,  \* sync_status_start
    todo,         \* actual_sync_requests not yet visited
    cur,          \* the request being synced
    retry         \* retry_count

vars == <<req, enabled, managed, syncRow, reported, fresh, dcmStatus, lost,
          pc, startStatus, todo, cur, retry>>
envVars == <<enabled, managed, syncRow>>
reportVars == <<reported, fresh, dcmStatus, lost>>
passVars == <<pc, startStatus, todo, cur, retry>>

\* The requests get_by_attrs returns: queued, in-progress or failed.
Listed == {r \in Requests : req[r].state \in {"queued", "in-progress", "failed"}}

-----------------------------------------------------------------------------
(***************************************************************************)
(* set_sync_status: skipped for an unmanaged subcloud, and when the same   *)
(* status was reported less than 3600 s ago; otherwise dcmanager is told   *)
(* and the report is recorded.  With the subcloud_sync row gone,           *)
(* subcloud_sync_get raises and the pass ends with nothing written.        *)
(***************************************************************************)
\* update_subcloud_endpoint_status is an RPC cast: dcmanager is told, or,
\* up to MaxLost times, the message is lost.  Either way the report is
\* recorded in the subcloud_sync row.
Tell(st) ==
    /\ reported' = st
    /\ fresh' = TRUE
    /\ \/ dcmStatus' = st /\ UNCHANGED lost
       \/ lost < MaxLost /\ lost' = lost + 1 /\ UNCHANGED dcmStatus

\* Fault variant: the debounce skips a repeated status whatever the age of
\* the last report.
SetSyncStatusIgnoringReportTime(st) ==
    IF ~managed \/ ~syncRow \/ reported = st
    THEN UNCHANGED reportVars
    ELSE Tell(st)

SetSyncStatus(st) ==
    IF ~managed \/ ~syncRow \/ (fresh /\ reported = st)
    THEN UNCHANGED reportVars
    ELSE Tell(st)

\* Fault variant: only queued requests are processed.
ActualRequestsQueuedOnly(listed) == {r \in listed : req[r].state = "queued"}

\* The requests the pass will process: failed ones are left out.
ActualRequests(listed) == {r \in listed : req[r].state # "failed"}

\* The start of sync(): read the requests and enabled state, report the
\* status, and go on only with work for an enabled subcloud.
SyncStart ==
    /\ pc = "idle"
    /\ syncRow
    /\ LET status == IF Listed # {} THEN "out-of-sync" ELSE "in-sync"
           actual == ActualRequests(Listed)
       IN  /\ SetSyncStatus(status)
           /\ IF actual = {} \/ ~enabled
              THEN UNCHANGED passVars
              ELSE /\ pc' = "request"
                   /\ todo' = actual
                   /\ startStatus' = status
                   /\ UNCHANGED <<cur, retry>>
    /\ UNCHANGED <<req, envVars>>

\* Leaving one request for the next, or for the end of the pass.
NextRequest ==
    /\ todo' = todo \ {cur}
    /\ pc' = IF todo' = {} THEN "finish" ELSE "request"

\* Top of the request loop: the subcloud was disabled or its thread is to
\* exit, EndpointNotReachable ends the loop.
RequestUnreachable ==
    /\ pc = "request"
    /\ ~enabled \/ ~syncRow
    /\ pc' = "finish"
    /\ UNCHANGED <<req, envVars, reportVars, startStatus, todo, cur, retry>>

\* Top of the request loop: the request is saved in-progress.
RequestStart ==
    /\ pc = "request"
    /\ enabled /\ syncRow
    /\ LET r == Min(todo) IN
          /\ req' = [req EXCEPT ![r].state = "in-progress"]
          /\ cur' = r
    /\ retry' = 0
    /\ pc' = "attempt"
    /\ UNCHANGED <<envVars, reportVars, startStatus, todo>>

\* The handler succeeds: the request is saved completed and soft-deleted,
\* or, if it was deleted meanwhile, OrchRequestNotFound breaks the loop.
AttemptSucceeds ==
    /\ pc = "attempt"
    /\ req' = IF req[cur].state \in Deleted THEN req
              ELSE [req EXCEPT ![cur].state = "completed"]
    /\ NextRequest
    /\ UNCHANGED <<envVars, reportVars, startStatus, cur, retry>>

\* A save inside an exception handler of a request deleted meanwhile raises
\* OrchRequestNotFound out of sync(): the pass ends without its final report.
SaveRaises ==
    /\ req[cur].state \in Deleted
    /\ pc' = "idle"
    /\ todo' = {}
    /\ UNCHANGED <<req, startStatus, retry>>

\* request.try_count += 1, saturating at TryCountBound.
Tried(n) == IF n < TryCountBound THEN n + 1 ELSE n

\* Fault variant: a timed-out request is saved in the timedout state.
AttemptTimesOutMarksTimedOut ==
    /\ pc = "attempt"
    /\ \/ SaveRaises
       \/ /\ req[cur].state \notin Deleted
          /\ req' = [req EXCEPT ![cur] = [state |-> "timedout",
                                          tries |-> Tried(@.tries)]]
          /\ retry' = retry + 1
          /\ pc' = IF retry' >= MAX_RETRY THEN "finish" ELSE "attempt"
          /\ UNCHANGED <<startStatus, todo>>
    /\ UNCHANGED <<envVars, reportVars, cur>>

\* SyncRequestTimeout: try_count is incremented and saved; after MAX_RETRY
\* timeouts EndpointNotReachable ends the loop.
AttemptTimesOut ==
    /\ pc = "attempt"
    /\ \/ SaveRaises
       \/ /\ req[cur].state \notin Deleted
          /\ req' = [req EXCEPT ![cur].tries = Tried(@)]
          /\ retry' = retry + 1
          /\ pc' = IF retry' >= MAX_RETRY THEN "finish" ELSE "attempt"
          /\ UNCHANGED <<startStatus, todo>>
    /\ UNCHANGED <<envVars, reportVars, cur>>

\* SyncRequestFailedRetry: try_count incremented, the request saved failed,
\* and the handler retried while retry_count < MAX_RETRY.
AttemptFailsRetry ==
    /\ pc = "attempt"
    /\ \/ SaveRaises
       \/ /\ req[cur].state \notin Deleted
          /\ req' = [req EXCEPT ![cur] = [state |-> "failed",
                                          tries |-> Tried(@.tries)]]
          /\ retry' = retry + 1
          /\ IF retry' >= MAX_RETRY THEN NextRequest
             ELSE UNCHANGED <<pc, todo>>
          /\ UNCHANGED startStatus
    /\ UNCHANGED <<envVars, reportVars, cur>>

\* SyncRequestFailed: the request is saved failed and not retried.
AttemptFails ==
    /\ pc = "attempt"
    /\ \/ SaveRaises
       \/ /\ req[cur].state \notin Deleted
          /\ req' = [req EXCEPT ![cur].state = "failed"]
          /\ NextRequest
          /\ UNCHANGED <<startStatus, retry>>
    /\ UNCHANGED <<envVars, reportVars, cur>>

\* The end of sync(): the requests are read again and the status reported
\* by the code's two conditions on sync_status_start.
Finish ==
    /\ pc = "finish"
    /\ IF Listed # {} /\ startStatus # "out-of-sync"
       THEN SetSyncStatus("out-of-sync")
       ELSE IF startStatus # "in-sync"
       THEN SetSyncStatus("in-sync")
       ELSE UNCHANGED reportVars
    /\ pc' = "idle"
    /\ todo' = {}
    /\ UNCHANGED <<req, envVars, startStatus, cur, retry>>

SyncPass ==
    \/ SyncStart \/ RequestUnreachable \/ RequestStart
    \/ AttemptSucceeds \/ AttemptTimesOut \/ AttemptFailsRetry \/ AttemptFails
    \/ Finish

-----------------------------------------------------------------------------
(***************************************************************************)
(* The environment.                                                        *)
(***************************************************************************)

\* A request is enqueued for this target (API proxy or audit schedule_work);
\* each request id is enqueued once.
Enqueue(r) ==
    /\ req[r].state = "absent"
    /\ req' = [req EXCEPT ![r] = [state |-> "queued", tries |-> 0]]
    /\ UNCHANGED <<envVars, reportVars, passVars>>

\* The sync audit of some thread soft-deletes failed requests.
PurgeFailed(r) ==
    /\ req[r].state = "failed"
    /\ req' = [req EXCEPT ![r].state = "purged"]
    /\ UNCHANGED <<envVars, reportVars, passVars>>

SetEnabled ==
    /\ enabled' = ~enabled
    /\ UNCHANGED <<req, managed, syncRow, reportVars, passVars>>

SetManaged ==
    /\ managed' = ~managed
    /\ UNCHANGED <<req, enabled, syncRow, reportVars, passVars>>

\* The subcloud_sync row is removed: the thread is to exit.
RemoveSyncRow ==
    /\ syncRow
    /\ syncRow' = FALSE
    /\ UNCHANGED <<req, enabled, managed, reportVars, passVars>>

\* 3600 s pass since the last report.
ReportExpires ==
    /\ fresh
    /\ fresh' = FALSE
    /\ UNCHANGED <<req, envVars, reported, dcmStatus, lost, passVars>>

Environment ==
    \/ \E r \in Requests : Enqueue(r) \/ PurgeFailed(r)
    \/ SetEnabled \/ SetManaged \/ RemoveSyncRow \/ ReportExpires

-----------------------------------------------------------------------------
Init ==
    /\ req = [r \in Requests |-> [state |-> "absent", tries |-> 0]]
    /\ enabled \in BOOLEAN
    /\ managed \in BOOLEAN
    /\ syncRow = TRUE
    /\ reported = "none"
    /\ fresh = FALSE
    /\ dcmStatus = "unknown"
    /\ lost = 0
    /\ pc = "idle"
    /\ startStatus = "in-sync"
    /\ todo = {}
    /\ cur = Min(Requests)
    /\ retry = 0

Next == SyncPass \/ Environment

\* Sync passes are requested by every enqueue and every audit and the
\* thread's greenthread runs them: the pass is weakly fair.  Time passes, so
\* a report does not stay less than 3600 s old for ever.
Spec == Init /\ [][Next]_vars /\ WF_vars(SyncPass) /\ WF_vars(ReportExpires)

-----------------------------------------------------------------------------
TypeOK ==
    /\ req \in [Requests -> [state : ReqStates, tries : 0..TryCountBound]]
    /\ enabled \in BOOLEAN /\ managed \in BOOLEAN /\ syncRow \in BOOLEAN
    /\ reported \in SyncStatuses \cup {"none"}
    /\ fresh \in BOOLEAN
    /\ dcmStatus \in SyncStatuses \cup {"unknown"}
    /\ lost \in 0..MaxLost
    /\ pc \in {"idle", "request", "attempt", "finish"}
    /\ startStatus \in SyncStatuses
    /\ todo \subseteq Requests
    /\ cur \in Requests
    /\ retry \in 0..MAX_RETRY


\* From some point on, the resource handler never raises SyncRequestTimeout:
\* the subcloud's endpoint answers within its session timeout again.
HandlerStopsTimingOut == <>[][~AttemptTimesOut]_vars

Pending == {r \in Requests : req[r].state \in {"queued", "in-progress"}}
SubcloudSyncable == enabled /\ managed /\ syncRow

\* spec.md section 8: a request's try_count never exceeds MAX_RETRY, though
\* a request left in-progress by EndpointNotReachable is tried again by
\* the next pass.
TryCountWithinMaxRetry == \A r \in Requests : req[r].tries <= MAX_RETRY

\* The sync thread tells dcmanager "in-sync" only after a read of the
\* requests that found none queued or in-progress (spec.md 4.4 step 2).
InSyncReportedOnlyWhenClean ==
    [][dcmStatus' = "in-sync" /\ dcmStatus # "in-sync" => Pending = {}]_dcmStatus

\* While the subcloud stays enabled and its thread alive, and once the
\* resource handler stops timing out, every queued or in-progress request
\* is eventually completed, failed or deleted: a request left in-progress
\* by an aborted pass is not forgotten.  Without the second condition the
\* code gives no such guarantee: a handler that keeps raising
\* SyncRequestTimeout leaves its request in-progress for ever.
EveryRequestSettles ==
    (<>[](enabled /\ syncRow) /\ HandlerStopsTimingOut) =>
        \A r \in Requests :
            req[r].state \in {"queued", "in-progress"}
                ~> req[r].state \in {"completed", "failed", "purged"}

\* Once the subcloud stays managed, enabled and its thread alive, and the
\* handler has stopped timing out, the status dcmanager holds ends up
\* out-of-sync exactly when requests remain listed, whatever the debounce
\* of set_sync_status suppressed before.  While timeouts go on, each pass
\* reports out-of-sync at its start and in-sync at its end (finding 3), so
\* the status flips with every pass.
StatusConverges ==
    (<>[]SubcloudSyncable /\ HandlerStopsTimingOut) =>
        <>[](dcmStatus = IF Listed # {} THEN "out-of-sync" ELSE "in-sync")

=============================================================================
