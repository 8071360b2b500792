----------------------------- MODULE MCAuditLog -----------------------------
\* Names for the model values of the runs of AuditLog.
EXTENDS AuditLog
CONSTANTS a1, a2, copied, cleared
=============================================================================
