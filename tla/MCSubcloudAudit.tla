---------------------------- MODULE MCSubcloudAudit ----------------------------
\* SubcloudAudit with two subclouds.
EXTENDS SubcloudAudit

MCSubclouds == {"subcloud1", "subcloud2"}

=============================================================================
