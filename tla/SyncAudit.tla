------------------------------- MODULE SyncAudit -------------------------------
(***************************************************************************)
(* The differential sync audit of dcorch (SyncThread.sync_audit,           *)
(* audit_find_missing, audit_find_extra, audit_action, get_all_resources,  *)
(* get_cached_master_resources and post_audit of                           *)
(* dcorch/engine/sync_thread.py) for one resource type, run by the sync    *)
(* threads of several subclouds against one master cloud.                  *)
(*                                                                         *)
(* The audits share the class-level master_resources_dict: the first audit *)
(* to ask fills it from the master cloud under AUDIT_LOCK_NAME, and every   *)
(* audit empties it in post_audit when it ends.  Concurrently the user     *)
(* changes master resources through the API proxy, which enqueues a create *)
(* or delete request for every subcloud, and each subcloud's sync pass     *)
(* runs its requests in order.  The resource hooks keep the defaults of    *)
(* the base class: same_resource and audit_discrepancy return True,        *)
(* map_subcloud_resource returns False, resource_exists_in_subcloud        *)
(* returns True, update_resource_refs returns its argument; every mapping  *)
(* is managed.  The subcloud stays enabled here (SyncThread models the     *)
(* enable checks).                                                         *)
(***************************************************************************)
EXTENDS Naturals, Sequences, SequencesExt, FiniteSets, FiniteSetsExt

CONSTANTS
    Subclouds,     \* the sync threads, one per subcloud
    Resources,     \* master resource ids of the audited resource type
    MaxQueue,      \* bound on the orch requests queued per subcloud
    MaxChanges     \* bound on user changes and unreachable audits

ASSUME Resources \subseteq Nat /\ Resources # {}
ASSUME MaxQueue \in Nat \ {0} /\ MaxChanges \in Nat

Ops == {"create", "delete"}
Request == [res : Resources, op : Ops, by : {"audit", "proxy"}]

VARIABLES
    master,     \* resources present in the master cloud
    rows,       \* resource table rows (Resource.master_id)
    sc,         \* subcloud -> resources present in the subcloud
    mapped,     \* subcloud -> resources with a subcloud_resource row
    queue,      \* subcloud -> its queued orch requests, in id order
    proxied,    \* master changes forwarded by the proxy, not yet enqueued
    cache,      \* master_resources_dict[resource_type] as a set
    cached,     \* resource_type is a key of master_resources_dict
    apc,        \* subcloud -> where its audit is
    abortSet,   \* subcloud -> abort_resources
    scSnap,     \* subcloud -> sc_resources
    mView,      \* subcloud -> m_resources
    mLeft,      \* subcloud -> m_resources not yet visited by find_missing
    dbLeft,     \* subcloud -> db_resources (find_missing removes matches)
    steady,     \* history: resources on the master throughout the audit
    budget      \* user changes and unreachable audits left

envVars == <<master, rows, proxied, budget>>
auditVars == <<apc, abortSet, scSnap, mView, mLeft, dbLeft, steady>>
vars == <<master, rows, sc, mapped, queue, proxied, cache, cached,
          auditVars, budget>>

\* Resources with a queued or in-progress request of the subcloud.
Pending(s) == {queue[s][i].res : i \in 1..Len(queue[s])}

\* schedule_work through utils.enqueue_work: the resource row is created if
\* needed and a request appended (bounded by MaxQueue).
ScheduleWork(s, r, op) ==
    /\ Len(queue[s]) < MaxQueue
    /\ queue' = [queue EXCEPT ![s] = Append(@, [res |-> r, op |-> op,
                                                by |-> "audit"])]
    /\ rows' = rows \cup {r}

\* sync_audit returns: its locals go out of scope.
EndAudit(s) ==
    /\ apc' = [apc EXCEPT ![s] = "idle"]
    /\ abortSet' = [abortSet EXCEPT ![s] = {}]
    /\ scSnap' = [scSnap EXCEPT ![s] = {}]
    /\ mView' = [mView EXCEPT ![s] = {}]
    /\ mLeft' = [mLeft EXCEPT ![s] = {}]
    /\ dbLeft' = [dbLeft EXCEPT ![s] = {}]
    /\ steady' = [steady EXCEPT ![s] = {}]

-----------------------------------------------------------------------------
(***************************************************************************)
(* The audit of subcloud s.                                                *)
(***************************************************************************)

\* sync_audit up to the pending-request read: resources with queued or
\* in-progress requests are not audited.
AuditStart(s) ==
    /\ apc[s] = "idle"
    /\ abortSet' = [abortSet EXCEPT ![s] = Pending(s)]
    /\ steady' = [steady EXCEPT ![s] = master]
    /\ apc' = [apc EXCEPT ![s] = "fetch"]
    /\ UNCHANGED <<master, rows, sc, mapped, queue, proxied, cache, cached,
                   scSnap, mView, mLeft, dbLeft, budget>>

\* get_all_resources finds the subcloud unreachable: sync_audit returns
\* at once, without post_audit.
AuditUnreachable(s) ==
    /\ apc[s] = "fetch"
    /\ budget > 0
    /\ budget' = budget - 1
    /\ EndAudit(s)
    /\ UNCHANGED <<master, rows, proxied, sc, mapped, queue, cache, cached>>

\* get_cached_master_resources, under the audit lock: the cached list if
\* there is one, else the master's list, which is then cached.
CachedMaster == IF cached THEN cache ELSE master

\* get_all_resources: the subcloud's resources, the DB rows, and the master
\* resources from the cache, fetched and cached when absent.
AuditFetch(s) ==
    /\ apc[s] = "fetch"
    /\ LET m == CachedMaster IN
          /\ mView' = [mView EXCEPT ![s] = m]
          /\ mLeft' = [mLeft EXCEPT ![s] = m]
          /\ cache' = m
    /\ cached' = TRUE
    /\ scSnap' = [scSnap EXCEPT ![s] = sc[s]]
    /\ dbLeft' = [dbLeft EXCEPT ![s] = rows]
    /\ apc' = [apc EXCEPT ![s] = "missing"]
    /\ UNCHANGED <<master, rows, sc, mapped, queue, proxied, abortSet,
                   steady, budget>>

\* The decision of audit_find_missing for master resource r: it is missing
\* when it has no DB row, no subcloud_resource mapping (read now), or its
\* mapped subcloud resource is not among sc_resources.
MissingInSubcloud(s, r) ==
    \/ r \notin dbLeft[s]
    \/ r \notin mapped[s]
    \/ r \notin scSnap[s]

\* One iteration of audit_find_missing; the last one moves to
\* audit_find_extra.
AuditMissing(s) ==
    /\ apc[s] = "missing"
    /\ mLeft[s] # {}
    /\ LET r == Min(mLeft[s]) IN
          /\ mLeft' = [mLeft EXCEPT ![s] = @ \ {r}]
          /\ dbLeft' = IF r \in abortSet[s] THEN dbLeft
                       ELSE [dbLeft EXCEPT ![s] = @ \ {r}]
          /\ IF r \notin abortSet[s] /\ MissingInSubcloud(s, r)
             THEN ScheduleWork(s, r, "create")
             ELSE UNCHANGED <<queue, rows>>
    /\ apc' = [apc EXCEPT ![s] = IF mLeft'[s] = {} THEN "extra" ELSE "missing"]
    /\ UNCHANGED <<master, sc, mapped, proxied, cache, cached, abortSet,
                   scSnap, mView, steady, budget>>

\* An empty master list goes straight to audit_find_extra.
AuditNoMaster(s) ==
    /\ apc[s] = "missing"
    /\ mLeft[s] = {}
    /\ apc' = [apc EXCEPT ![s] = "extra"]
    /\ UNCHANGED <<master, rows, sc, mapped, queue, proxied, cache, cached,
                   abortSet, scSnap, mView, mLeft, dbLeft, steady, budget>>

\* Fault variant of AuditExtra: the abort_resources check is left out.
AuditExtraIgnoringPending(s) ==
    /\ apc[s] = "extra"
    /\ dbLeft[s] # {}
    /\ LET r == Min(dbLeft[s]) IN
          /\ dbLeft' = [dbLeft EXCEPT ![s] = @ \ {r}]
          /\ IF r \in mapped[s]
             THEN ScheduleWork(s, r, "delete")
             ELSE UNCHANGED <<queue, rows>>
    /\ UNCHANGED <<master, sc, mapped, proxied, cache, cached, apc, abortSet,
                   scSnap, mView, mLeft, steady, budget>>

\* Fault variant of AuditExtra: the audit finding is passed as the
\* operation type of the request.
AuditExtraSchedulesFinding(s) ==
    /\ apc[s] = "extra"
    /\ dbLeft[s] # {}
    /\ LET r == Min(dbLeft[s]) IN
          /\ dbLeft' = [dbLeft EXCEPT ![s] = @ \ {r}]
          /\ IF r \notin abortSet[s] /\ r \in mapped[s]
             THEN ScheduleWork(s, r, "extra_resource")
             ELSE UNCHANGED <<queue, rows>>
    /\ UNCHANGED <<master, sc, mapped, proxied, cache, cached, apc, abortSet,
                   scSnap, mView, mLeft, steady, budget>>

\* One iteration of audit_find_extra over the DB rows left: a row with
\* pending work is skipped; one with a managed mapping gets a delete.
AuditExtra(s) ==
    /\ apc[s] = "extra"
    /\ dbLeft[s] # {}
    /\ LET r == Min(dbLeft[s]) IN
          /\ dbLeft' = [dbLeft EXCEPT ![s] = @ \ {r}]
          /\ IF r \notin abortSet[s] /\ r \in mapped[s]
             THEN ScheduleWork(s, r, "delete")
             ELSE UNCHANGED <<queue, rows>>
    /\ UNCHANGED <<master, sc, mapped, proxied, cache, cached, apc, abortSet,
                   scSnap, mView, mLeft, steady, budget>>

\* Fault variant of AuditEnd: post_audit leaves the cache filled.
AuditEndKeepingCache(s) ==
    /\ apc[s] = "extra"
    /\ dbLeft[s] = {}
    /\ EndAudit(s)
    /\ UNCHANGED <<master, rows, sc, mapped, queue, proxied, cache, cached,
                   budget>>

\* The end of sync_audit: post_audit empties master_resources_dict under
\* the audit lock.
AuditEnd(s) ==
    /\ apc[s] = "extra"
    /\ dbLeft[s] = {}
    /\ EndAudit(s)
    /\ cached' = FALSE
    /\ cache' = {}
    /\ UNCHANGED <<master, rows, sc, mapped, queue, proxied, budget>>

AuditStep(s) ==
    \/ AuditStart(s) \/ AuditUnreachable(s) \/ AuditFetch(s)
    \/ AuditMissing(s) \/ AuditNoMaster(s) \/ AuditExtra(s) \/ AuditEnd(s)

-----------------------------------------------------------------------------
(***************************************************************************)
(* The sync pass of subcloud s runs the request at the head of its queue;  *)
(* the handler creates the resource in the subcloud and records its       *)
(* mapping (persist_db_subcloud_resource), or deletes both.                *)
(***************************************************************************)
SyncRequest(s) ==
    /\ queue[s] # <<>>
    /\ LET q == Head(queue[s]) IN
          IF q.op = "create"
          THEN /\ sc' = [sc EXCEPT ![s] = @ \cup {q.res}]
               /\ mapped' = [mapped EXCEPT ![s] = @ \cup {q.res}]
          ELSE /\ sc' = [sc EXCEPT ![s] = @ \ {q.res}]
               /\ mapped' = [mapped EXCEPT ![s] = @ \ {q.res}]
    /\ queue' = [queue EXCEPT ![s] = Tail(@)]
    /\ UNCHANGED <<master, rows, proxied, cache, cached, auditVars, budget>>

-----------------------------------------------------------------------------
(***************************************************************************)
(* The user, through the API proxy: the change is made in the master      *)
(* cloud, then the proxy enqueues the request for every subcloud.          *)
(***************************************************************************)
MasterChange(r) ==
    /\ budget > 0
    /\ budget' = budget - 1
    /\ \E op \in Ops :
          /\ master' = IF op = "create" THEN master \cup {r} ELSE master \ {r}
          /\ master' # master
          /\ proxied' = proxied \cup {[res |-> r, op |-> op]}
    /\ steady' = [s \in Subclouds |-> steady[s] \cap master']
    /\ UNCHANGED <<rows, sc, mapped, queue, cache, cached, apc, abortSet,
                   scSnap, mView, mLeft, dbLeft>>

ProxyEnqueue(p) ==
    /\ p \in proxied
    /\ \A s \in Subclouds : Len(queue[s]) < MaxQueue
    /\ queue' = [s \in Subclouds |->
                    Append(queue[s], [res |-> p.res, op |-> p.op, by |-> "proxy"])]
    /\ rows' = rows \cup {p.res}
    /\ proxied' = proxied \ {p}
    /\ UNCHANGED <<master, sc, mapped, cache, cached, auditVars, budget>>

\* The user deletes a resource directly in a subcloud.
SubcloudLoses(s, r) ==
    /\ budget > 0
    /\ r \in sc[s]
    /\ budget' = budget - 1
    /\ sc' = [sc EXCEPT ![s] = @ \ {r}]
    /\ UNCHANGED <<master, rows, mapped, queue, proxied, cache, cached,
                   auditVars>>

-----------------------------------------------------------------------------
Init ==
    /\ master \in SUBSET Resources
    /\ rows = master
    /\ sc = [s \in Subclouds |-> master]
    /\ mapped = [s \in Subclouds |-> master]
    /\ queue = [s \in Subclouds |-> <<>>]
    /\ proxied = {}
    /\ cache = {}
    /\ cached = FALSE
    /\ apc = [s \in Subclouds |-> "idle"]
    /\ abortSet = [s \in Subclouds |-> {}]
    /\ scSnap = [s \in Subclouds |-> {}]
    /\ mView = [s \in Subclouds |-> {}]
    /\ mLeft = [s \in Subclouds |-> {}]
    /\ dbLeft = [s \in Subclouds |-> {}]
    /\ steady = [s \in Subclouds |-> {}]
    /\ budget = MaxChanges

Next ==
    \/ \E s \in Subclouds : AuditStep(s) \/ SyncRequest(s)
    \/ \E r \in Resources : MasterChange(r)
    \/ \E p \in proxied : ProxyEnqueue(p)
    \/ \E s \in Subclouds, r \in Resources : SubcloudLoses(s, r)

\* Audits are periodic, each subcloud's sync pass runs its queued requests,
\* and the proxy enqueues within the request that changed the master.
Spec ==
    /\ Init /\ [][Next]_vars
    /\ \A s \in Subclouds : WF_vars(AuditStep(s)) /\ WF_vars(SyncRequest(s))
    /\ \A p \in [res : Resources, op : Ops] : WF_vars(ProxyEnqueue(p))

-----------------------------------------------------------------------------
TypeOK ==
    /\ master \subseteq Resources /\ rows \subseteq Resources
    /\ sc \in [Subclouds -> SUBSET Resources]
    /\ mapped \in [Subclouds -> SUBSET Resources]
    /\ \A s \in Subclouds : queue[s] \in Seq(Request) /\ Len(queue[s]) <= MaxQueue
    /\ proxied \subseteq [res : Resources, op : Ops]
    /\ cache \subseteq Resources /\ cached \in BOOLEAN
    /\ apc \in [Subclouds -> {"idle", "fetch", "missing", "extra"}]
    /\ \A s \in Subclouds :
          {abortSet[s], scSnap[s], mView[s], mLeft[s], dbLeft[s], steady[s]}
              \subseteq SUBSET Resources
    /\ budget \in 0..MaxChanges

\* The resources a step of the audit of s schedules an op for.
AuditScheduled(s, op) ==
    IF Len(queue'[s]) = Len(queue[s]) + 1 /\ Last(queue'[s]).by = "audit"
                                           /\ Last(queue'[s]).op = op
    THEN {Last(queue'[s]).res} ELSE {}

\* audit_find_missing skips a resource with pending work before removing
\* its row from db_resources, so the row reaches audit_find_extra: the
\* audit never schedules the delete of a resource of the master list it
\* works from, however the two loops and the pending check interleave.
AuditDeletesOnlyOutsideMasterView ==
    [][\A s \in Subclouds : AuditScheduled(s, "delete") \cap mView[s] = {}]_queue

\* An audit never deletes from a subcloud a resource that was on the
\* master cloud during the whole audit: the master list it uses is not
\* older than the audit (the shared cache of get_cached_master_resources).
NoDeleteOfSteadyResource ==
    [][\A s \in Subclouds : AuditScheduled(s, "delete") \cap steady[s] = {}]_queue

\* Once the user stops changing resources, every subcloud ends up holding
\* exactly the master's resources: the proxy's requests, the audits and
\* the sync passes repair every divergence, stale caches included.
Converges ==
    <>[](\A s \in Subclouds : sc[s] = master)

=============================================================================
