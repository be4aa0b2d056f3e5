------------------------------ MODULE MCSyncAudit ------------------------------
EXTENDS SyncAudit

\* Two subclouds whose audits overlap, two resources.
MCSubclouds == {"sc1", "sc2"}
MCResources == {1}
=============================================================================
