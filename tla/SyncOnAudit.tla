------------------------------ MODULE SyncOnAudit ------------------------------
(***************************************************************************)
(* The subcloud audit of dcmanager composed with the sync thread of dcorch *)
(* for one (subcloud, endpoint type).  The two meet in the subcloud's      *)
(* availability: the audit publishes it (update_subcloud_availability,     *)
(* spec.md 6) and the sync thread reads it back in is_subcloud_enabled     *)
(* (dcorch/engine/sync_thread.py) before a pass and before every request.  *)
(* The initial sync of the subcloud is taken as completed, so the thread   *)
(* is enabled exactly while the audit holds the subcloud online.  Each     *)
(* component step leaves the other's variables unchanged.                  *)
(***************************************************************************)
EXTENDS Naturals

CONSTANTS
    Subclouds, AvailFailMax, MaxChanges,   \* of SubcloudAudit
    Requests, MAX_RETRY, MaxLost, TryCountBound,   \* of SyncThread
    Synced                                 \* the subcloud of the sync thread

ASSUME Synced \in Subclouds

VARIABLES
    avail, failCount, osInstalled, osEndpoints, reachable, osApp, streak,
    budget,
    req, managed, syncRow, reported, fresh, dcmStatus, lost, pc,
    startStatus, todo, cur, retry

auditVars == <<avail, failCount, osInstalled, osEndpoints, reachable, osApp,
               streak, budget>>
syncVars == <<req, managed, syncRow, reported, fresh, dcmStatus, lost, pc,
              startStatus, todo, cur, retry>>
vars == <<auditVars, syncVars>>

Audit == INSTANCE SubcloudAudit

\* is_subcloud_enabled: the availability the audit published is online
\* (and the initial sync has completed).
Enabled == avail[Synced] = "online"

Sync == INSTANCE SyncThread WITH enabled <- Enabled

\* A step of the audit engine: an audit of one subcloud, or a change of
\* reachability or of the application.
AuditAction ==
    /\ \E s \in Subclouds :
          Audit!AuditSubcloud(s) \/ Audit!Reach(s) \/ Audit!AppChange(s)
    /\ UNCHANGED syncVars

\* A step of the sync thread or of its environment other than dcmanager's
\* availability, which only the audit changes here.
SyncAction ==
    /\ UNCHANGED auditVars
    /\ \/ Sync!SyncPass
       \/ \E r \in Requests : Sync!Enqueue(r) \/ Sync!PurgeFailed(r)
       \/ Sync!SetManaged \/ Sync!RemoveSyncRow \/ Sync!ReportExpires

Init == Audit!Init /\ Sync!Init

Next == AuditAction \/ SyncAction

\* Both components keep their own fairness: each subcloud is audited every
\* T_audit, the thread's pass runs when requested, and reports age.
Spec ==
    /\ Init /\ [][Next]_vars
    /\ \A s \in Subclouds : WF_vars(Audit!AuditSubcloud(s) /\ UNCHANGED syncVars)
    /\ WF_vars(UNCHANGED auditVars /\ Sync!SyncPass)
    /\ WF_vars(UNCHANGED auditVars /\ Sync!ReportExpires)

-----------------------------------------------------------------------------
TypeOK == Audit!TypeOK /\ Sync!TypeOK

\* The properties of the audit hold in the composition.
OfflineOnlyAfterConsecutiveFailures == Audit!OfflineOnlyAfterConsecutiveFailures
AvailabilityConverges == Audit!AvailabilityConverges

\* Once the subcloud stays reachable, its subcloud_sync row stays and the
\* resource handler has stopped timing out, every request queued for it,
\* while it was offline included, is completed, failed or deleted: the
\* audit brings the subcloud online, and the sync pass, which checks
\* is_subcloud_enabled, then runs the request.
RequestsSettleOnceReachable ==
    (<>[](reachable[Synced] /\ syncRow) /\ Sync!HandlerStopsTimingOut) =>
        \A r \in Requests :
            req[r].state \in {"queued", "in-progress"}
                ~> req[r].state \in {"completed", "failed", "purged"}

=============================================================================
