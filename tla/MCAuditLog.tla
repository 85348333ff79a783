----------------------------- MODULE MCAuditLog -----------------------------
(* AuditLog with its constants given in the configuration.                 *)
EXTENDS AuditLog
=============================================================================
