---------------------------- MODULE MCAuditTrail ----------------------------
(* Small instances of AuditTrail for TLC, on the definitions of MCEngine.     *)
EXTENDS AuditTrail, MCEngine
=============================================================================
