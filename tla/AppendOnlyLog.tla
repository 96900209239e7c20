---------------------------- MODULE AppendOnlyLog ----------------------------
(***************************************************************************)
(* What the audit log and its external anchor promise to whoever logs and  *)
(* to whoever audits, with no rows, hashes, locks, transactions or failures *)
(* in sight: events are written one after the other, each once, and what   *)
(* is written stays; a writer that goes on has its event in the log; and   *)
(* what the anchor vouches for is always a beginning of the log, though    *)
(* not always a longer one than before.                                    *)
(***************************************************************************)
EXTENDS Integers, Sequences

CONSTANT Events

VARIABLES
  log,      \* the events, in the order they were written
  vouched,  \* the beginning of the log that the anchor holds
  returned  \* events whose writers have gone on

logVars == <<log, vouched, returned>>

LogInit ==
  /\ log = <<>>
  /\ vouched = <<>>
  /\ returned = {}

Write(e) ==
  /\ \A i \in 1..Len(log) : log[i] # e
  /\ log' = Append(log, e)
  /\ UNCHANGED <<vouched, returned>>

(* The anchor learns of the log up to the event, or does not.               *)
Return(e) ==
  /\ e \notin returned
  /\ returned' = returned \cup {e}
  /\ \E i \in 1..Len(log) :
       log[i] = e /\ vouched' \in {vouched, SubSeq(log, 1, i)}
  /\ UNCHANGED log

LogNext == \E e \in Events : Write(e) \/ Return(e)

LogSpec == LogInit /\ [][LogNext]_logVars
=============================================================================
