------------------------------- MODULE AuditLog -------------------------------
(***************************************************************************)
(* The hash-chained audit log of app/storage.py and its external anchor,   *)
(* app/audit_anchor.py.  Each appender is one call of append_audit, made   *)
(* by a handler in a thread of its own; it is named for the event it logs. *)
(*                                                                         *)
(* A hash is abstracted to what it is computed from: entry_hash is the     *)
(* sequence of the events up to the entry, "genesis" the empty sequence.   *)
(* Two hashes are then equal exactly when the histories they cover are.    *)
(***************************************************************************)
EXTENDS Integers, Sequences

CONSTANTS
  None,
  Appenders,  \* calls of append_audit
  AnchorSet,  \* whether CYRADUCT_AUDIT_ANCHOR_URL is set
  MaxCrashes  \* bound on restarts of the process

ASSUME NoneAssumption == None \notin Appenders /\ None \notin Seq(Appenders)
ASSUME AnchorAssumption == AnchorSet \in BOOLEAN

VARIABLES
  rows,     \* the audit_log table
  nextSeq,  \* the sequence the database draws audit_log.seq from
  lock,     \* the caller that holds storage._lock, or None
  pc,       \* where each call stands
  got,      \* prev_hash, as each running call read it
  anchor,   \* the last hash the anchor endpoint recorded, or None
  crashes

auditVars == <<rows, nextSeq, lock, pc, got, anchor, crashes>>

Genesis == <<>>
Hashes == Seq(Appenders)
Entry == [seq: Nat, event: Appenders, prev: Hashes, hash: Hashes]

(* "new" precedes the call; "inserting" holds the lock and has read the     *)
(* last hash; "anchoring" has committed; "unanchored" failed to reach the   *)
(* anchor; "failed" raised, before or after its commit; "gone" died with    *)
(* the process.                                                             *)
PCs == {"new", "called", "inserting", "anchoring", "done", "unanchored",
        "failed", "gone"}

(* _last_hash: the hash of the entry with the highest seq.                  *)
IsLast(r, log) == r \in log /\ \A q \in log : q.seq <= r.seq

LastHash(log) ==
  IF log = {} THEN Genesis ELSE (CHOOSE r \in log : IsLast(r, log)).hash

(* verify_audit_chain: along ascending seq every entry names the hash before *)
(* it and its own hash covers that and the event.                           *)
Preceding(r, log) == {q \in log : q.seq < r.seq}

VerifyAuditChain(log) ==
  \A r \in log : /\ r.prev = LastHash(Preceding(r, log))
                 /\ r.hash = Append(r.prev, r.event)

NewEntry(t) ==
  [seq |-> nextSeq, event |-> t, prev |-> got[t], hash |-> Append(got[t], t)]

AuditInit ==
  /\ rows = {}
  /\ nextSeq = 1
  /\ lock = None
  /\ got = [t \in Appenders |-> Genesis]
  /\ anchor = None
  /\ crashes = 0

(* A handler reaches its append_audit.                                      *)
Call(t) ==
  /\ pc[t] = "new"
  /\ pc' = [pc EXCEPT ![t] = "called"]
  /\ UNCHANGED <<rows, nextSeq, lock, got, anchor, crashes>>

(* A faulty variant: the last hash is read before the lock is taken. *)
ReadLast_Unlocked(t) ==
  /\ pc[t] = "called"
  /\ got' = [got EXCEPT ![t] = LastHash(rows)]
  /\ pc' = [pc EXCEPT ![t] = "inserting"]
  /\ UNCHANGED <<rows, nextSeq, lock, anchor, crashes>>

(* append_audit takes the lock and reads the last hash.                     *)
ReadLast(t) ==
  /\ pc[t] = "called"
  /\ lock = None
  /\ lock' = t
  /\ got' = [got EXCEPT ![t] = LastHash(rows)]
  /\ pc' = [pc EXCEPT ![t] = "inserting"]
  /\ UNCHANGED <<rows, nextSeq, anchor, crashes>>

(* Another entry has the seq that would be drawn, the primary key.          *)
SeqTaken == \E r \in rows : r.seq = nextSeq

(* The insert commits and the lock is released, in this order.  The         *)
(* database draws seq from its sequence, which no rollback winds back.      *)
Insert(t) ==
  /\ pc[t] = "inserting"
  /\ ~SeqTaken
  /\ rows' = rows \cup {NewEntry(t)}
  /\ pc' = [pc EXCEPT ![t] = "anchoring"]
  /\ nextSeq' = nextSeq + 1
  /\ lock' = None
  /\ UNCHANGED <<got, anchor, crashes>>

(* The database refuses the insert or the commit: the transaction rolls     *)
(* back, perhaps after it drew a seq, and the handler answers 500.  (A      *)
(* commit that only seems to fail is Insert and then RaiseAfterCommit.)     *)
InsertFails(t) ==
  /\ pc[t] = "inserting"
  /\ pc' = [pc EXCEPT ![t] = "failed"]
  /\ nextSeq' \in {nextSeq, nextSeq + 1}
  /\ lock' = None
  /\ got' = [got EXCEPT ![t] = Genesis]
  /\ UNCHANGED <<rows, anchor, crashes>>

(* A faulty variant: the hash is anchored before its entry is inserted. *)
Anchor_Early(t) ==
  /\ AnchorSet
  /\ pc[t] = "inserting"
  /\ anchor' = Append(got[t], t)
  /\ UNCHANGED <<rows, nextSeq, lock, pc, got, crashes>>

(* anchor_latest_hash, outside the lock: the endpoint records the hash.     *)
Anchor(t) ==
  /\ AnchorSet
  /\ pc[t] = "anchoring"
  /\ anchor' = Append(got[t], t)
  /\ pc' = [pc EXCEPT ![t] = "done"]
  /\ got' = [got EXCEPT ![t] = Genesis]
  /\ UNCHANGED <<rows, nextSeq, lock, crashes>>

(* There is no anchor, or the call to its endpoint fails, perhaps after the *)
(* endpoint recorded the hash: an httpx.HTTPError is logged and swallowed.  *)
AnchorFails(t) ==
  /\ pc[t] = "anchoring"
  /\ anchor' \in {anchor} \cup IF AnchorSet THEN {Append(got[t], t)} ELSE {}
  /\ pc' = [pc EXCEPT ![t] = "unanchored"]
  /\ got' = [got EXCEPT ![t] = Genesis]
  /\ UNCHANGED <<rows, nextSeq, lock, crashes>>

(* The entry is in and the handler answers 500: the acknowledgement of the  *)
(* commit was lost, or the anchor's URL is one that httpx refuses with      *)
(* InvalidURL, which is no HTTPError.                                       *)
RaiseAfterCommit(t) ==
  /\ pc[t] = "anchoring"
  /\ pc' = [pc EXCEPT ![t] = "failed"]
  /\ got' = [got EXCEPT ![t] = Genesis]
  /\ UNCHANGED <<rows, nextSeq, lock, anchor, crashes>>

AppendAudit(t) ==
  \/ ReadLast(t) \/ Insert(t) \/ InsertFails(t)
  \/ Anchor(t) \/ AnchorFails(t) \/ RaiseAfterCommit(t)

InFlight == {"called", "inserting", "anchoring"}

(* The process dies: an open transaction rolls back, perhaps after it drew  *)
(* a seq; the lock was its own.                                             *)
Crash ==
  /\ crashes < MaxCrashes
  /\ crashes' = crashes + 1
  /\ nextSeq' \in {nextSeq, IF lock = None THEN nextSeq ELSE nextSeq + 1}
  /\ lock' = None
  /\ pc' = [t \in Appenders |-> IF pc[t] \in InFlight THEN "gone" ELSE pc[t]]
  /\ got' = [t \in Appenders |-> IF pc[t] \in InFlight THEN Genesis ELSE got[t]]
  /\ UNCHANGED <<rows, anchor>>

AuditNext ==
  Crash \/ \E t \in Appenders : Call(t) \/ AppendAudit(t)

Init == AuditInit /\ pc = [t \in Appenders |-> "new"]

Spec == Init /\ [][AuditNext]_auditVars

-----------------------------------------------------------------------------
(* verify_audit_chain answers True at every moment a caller may ask, for    *)
(* whatever threads append, wait, fail or die: no two entries follow the    *)
(* same one and none is skipped.                                            *)
ChainVerifies == VerifyAuditChain(rows)

(* The external anchor never vouches for an entry that is not in the log:   *)
(* a crash or a failed insert leaves no hash outside that nothing inside    *)
(* explains.                                                                *)
AnchoredIsLogged == anchor # None => \E r \in rows : r.hash = anchor

(* The audit log is what AppendOnlyLog says of it: the hash of the last     *)
(* entry stands for a log that only ever grows, at its end and by one event *)
(* at a time, whose writers go on only when their event is in it, and of    *)
(* which the anchor holds a beginning.                                      *)
Promise == INSTANCE AppendOnlyLog WITH
  Events <- Appenders,
  log <- LastHash(rows),
  vouched <- IF anchor = None THEN Genesis ELSE anchor,
  returned <- {t \in Appenders : pc[t] \in {"done", "unanchored"}}

KeepsLog == Promise!LogSpec

(* Once every call has returned and reached the anchor, the anchor holds    *)
(* the hash of the last entry ("external anchor for the latest audit-log    *)
(* hash").                                                                  *)
AnchorIsLatest ==
  (\A t \in Appenders : pc[t] = "done") => anchor = LastHash(rows)
=============================================================================
