----------------------------- MODULE SubcloudAudit -----------------------------
(***************************************************************************)
(* The availability part of the subcloud audit engine of dcmanager         *)
(* (spec.md 4.2; the engine is not in this repository, its unit tests are *)
(* dcmanager/tests/unit/audit/test_subcloud_audit_manager.py).  Every tick *)
(* audits each subcloud: the service-group query decides reachability, the *)
(* availability and audit-fail-count are updated and published, and for an *)
(* online subcloud the openstack-installed flag and the openstack endpoint *)
(* types follow the stx-openstack application.  Reachability and the       *)
(* application come from the environment; dcmanager applies what the audit *)
(* publishes.                                                              *)
(***************************************************************************)
EXTENDS Naturals

CONSTANTS
    Subclouds,       \* the managed subclouds
    AvailFailMax,    \* AVAIL_FAIL_COUNT_MAX (spec.md: default 2)
    MaxChanges       \* bound on changes of reachability and applications

ASSUME AvailFailMax \in Nat \ {0} /\ MaxChanges \in Nat

VARIABLES
    avail,        \* subcloud -> availability_status
    failCount,    \* subcloud -> audit_fail_count
    osInstalled,  \* subcloud -> openstack_installed
    osEndpoints,  \* subcloud -> the openstack endpoint types are synced
    reachable,    \* subcloud -> the service-group query succeeds, none inactive
    osApp,        \* subcloud -> stx-openstack is present and active
    streak,       \* history: consecutive unreachable audits, capped one
                  \* above AvailFailMax
    budget        \* environment changes left

vars == <<avail, failCount, osInstalled, osEndpoints, reachable, osApp,
          streak, budget>>

\* Mutant: the count is not capped.
FailedCountUncapped(c) == c + 1

\* The audit-fail-count after an unreachable audit: one more, up to the cap.
FailedCount(c) == IF c < AvailFailMax THEN c + 1 ELSE c

\* Mutant: the threshold is passed, not reached.
AvailAfterFailureLate(a, c) ==
    IF a = "online" /\ c > AvailFailMax THEN "offline" ELSE a

\* The availability after an unreachable audit: an online subcloud goes
\* offline once the count reaches the maximum; otherwise it is kept.
AvailAfterFailure(a, c) ==
    IF a = "online" /\ c >= AvailFailMax THEN "offline" ELSE a

\* Mutant: an online subcloud keeps its count (no transition, no write).
AuditReachableKeepingCount(s) ==
    /\ reachable[s]
    /\ avail' = [avail EXCEPT ![s] = "online"]
    /\ failCount' = [failCount EXCEPT ![s] = IF avail[s] = "online" THEN @ ELSE 0]
    /\ streak' = [streak EXCEPT ![s] = 0]

\* Mutant: the offline-to-online transition is dropped; only the count is
\* reset.
AuditReachableStayingOffline(s) ==
    /\ reachable[s]
    /\ UNCHANGED avail
    /\ failCount' = [failCount EXCEPT ![s] = 0]
    /\ streak' = [streak EXCEPT ![s] = 0]

\* The audit of subcloud s on a reachable subcloud: it goes (or stays)
\* online with a count of 0.
AuditReachable(s) ==
    /\ reachable[s]
    /\ avail' = [avail EXCEPT ![s] = "online"]
    /\ failCount' = [failCount EXCEPT ![s] = 0]
    /\ streak' = [streak EXCEPT ![s] = 0]

\* The audit of subcloud s on an unreachable subcloud.
AuditUnreachable(s) ==
    /\ ~reachable[s]
    /\ LET c == FailedCount(failCount[s]) IN
          /\ failCount' = [failCount EXCEPT ![s] = c]
          /\ avail' = [avail EXCEPT ![s] = AvailAfterFailure(avail[s], c)]
    /\ streak' = [streak EXCEPT ![s] = IF @ <= AvailFailMax THEN @ + 1 ELSE @]

\* The openstack check of an online, reachable subcloud: when the flag
\* differs from the application, dcmanager toggles it and adds or removes
\* the openstack endpoint types (update_subcloud_sync_endpoint_type).
AuditOpenstack(s) ==
    IF reachable[s] /\ avail'[s] = "online" /\ osInstalled[s] # osApp[s]
    THEN /\ osInstalled' = [osInstalled EXCEPT ![s] = osApp[s]]
         /\ osEndpoints' = [osEndpoints EXCEPT ![s] = osApp[s]]
    ELSE UNCHANGED <<osInstalled, osEndpoints>>

\* One per-subcloud audit of a tick.
AuditSubcloud(s) ==
    /\ AuditReachable(s) \/ AuditUnreachable(s)
    /\ AuditOpenstack(s)
    /\ UNCHANGED <<reachable, osApp, budget>>

\* The subcloud becomes reachable or unreachable.
Reach(s) ==
    /\ budget > 0
    /\ budget' = budget - 1
    /\ reachable' = [reachable EXCEPT ![s] = ~@]
    /\ UNCHANGED <<avail, failCount, osInstalled, osEndpoints, osApp, streak>>

\* stx-openstack is installed, activated, deactivated or removed.
AppChange(s) ==
    /\ budget > 0
    /\ budget' = budget - 1
    /\ osApp' = [osApp EXCEPT ![s] = ~@]
    /\ UNCHANGED <<avail, failCount, osInstalled, osEndpoints, reachable,
                   streak>>

\* A newly added subcloud: offline, no failures, no openstack.
Init ==
    /\ avail = [s \in Subclouds |-> "offline"]
    /\ failCount = [s \in Subclouds |-> 0]
    /\ osInstalled = [s \in Subclouds |-> FALSE]
    /\ osEndpoints = [s \in Subclouds |-> FALSE]
    /\ reachable \in [Subclouds -> BOOLEAN]
    /\ osApp \in [Subclouds -> BOOLEAN]
    /\ streak = [s \in Subclouds |-> 0]
    /\ budget = MaxChanges

Next ==
    \/ \E s \in Subclouds : AuditSubcloud(s) \/ Reach(s) \/ AppChange(s)

\* The audit runs every T_audit for every subcloud; the environment is not
\* fair.
Spec == Init /\ [][Next]_vars /\ \A s \in Subclouds : WF_vars(AuditSubcloud(s))

-----------------------------------------------------------------------------
TypeOK ==
    /\ avail \in [Subclouds -> {"online", "offline"}]
    /\ failCount \in [Subclouds -> 0..AvailFailMax]
    /\ osInstalled \in [Subclouds -> BOOLEAN]
    /\ osEndpoints \in [Subclouds -> BOOLEAN]
    /\ reachable \in [Subclouds -> BOOLEAN]
    /\ osApp \in [Subclouds -> BOOLEAN]
    /\ streak \in [Subclouds -> 0..(AvailFailMax + 1)]
    /\ budget \in 0..MaxChanges

\* Scenario 5 of spec.md: an online subcloud goes offline only after
\* AvailFailMax consecutive unreachable audits; a reachable audit between
\* two failures starts the count again.
OfflineOnlyAfterConsecutiveFailures ==
    [][\A s \in Subclouds :
         avail[s] = "online" /\ avail'[s] = "offline" => streak'[s] >= AvailFailMax]_vars

\* Once reachability and the applications stop changing, every subcloud's
\* availability matches its reachability and an online subcloud's openstack
\* endpoint types match its stx-openstack application.
AvailabilityConverges ==
    <>[](\A s \in Subclouds :
            /\ avail[s] = IF reachable[s] THEN "online" ELSE "offline"
            /\ avail[s] = "online" => osEndpoints[s] = osApp[s])

\* spec.md 8: audit_fail_count goes up by one on every unreachable audit and
\* back to 0 on a reachable one, so it counts the consecutive unreachable
\* audits.
FailCountCountsUnreachableAudits ==
    \A s \in Subclouds : failCount[s] = streak[s]

=============================================================================
