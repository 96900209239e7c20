------------------------------- MODULE MCBackup -------------------------------
(* Small instances of module Backup.  Calls differ in their names only.     *)
EXTENDS Backup, TLC

CONSTANTS t1, t2, t3

TwoCalls == {t1, t2}
ThreeCalls == {t1, t2, t3}
AnyCall == Permutations(ThreeCalls)
=============================================================================
