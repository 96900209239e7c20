------------------------------ MODULE MCAuditLog ------------------------------
(* Small instances of modules AuditLog and AuditReader.                     *)
EXTENDS AuditReader

CONSTANTS t1, t2, t3

ThreeCalls == {t1, t2, t3}
OneTest == {t1}
SomeLimits == {0, 2}
=============================================================================
