-------------------------------- MODULE Backup --------------------------------
(***************************************************************************)
(* backup_postgres.py beside a running service: the dump reads the tables  *)
(* one after the other while handlers go on writing, and every dump is     *)
(* kept in a file of its own; a restore of any of them, run with the       *)
(* service stopped, replaces the tables in one transaction.  Module        *)
(* AuditLog gives the audit_log table; here are receipts and agent_chain,  *)
(* and a database that is lost and created anew.                           *)
(*                                                                         *)
(* Every appender evaluates an action of one agent: it saves a receipt,    *)
(* named for it, and then appends its audit entry.                         *)
(***************************************************************************)
EXTENDS AuditLog, FiniteSets

CONSTANTS
  MaxDumps,  \* bound on backups kept at a time
  MaxPosts,  \* bound on POSTs for two receipts together
  MaxWipes   \* bound on losses of the database

VARIABLES
  saved,     \* receipts: the receipts the table holds, consumed or not
  consumed,  \* those with consumed_at set
  head,      \* agent_chain: the agent's last_receipt_hash, or None
  dumping,   \* the next table a dump reads, or "idle"
  dump,      \* what it has read
  dumps,     \* the backups there are
  posts,     \* posts[r]: POSTs that left for receipt r
  holes,     \* whether a log with a gap was ever restored
  revived,   \* spent receipts that a restore brought back unspent
  wipes

tables == <<rows, saved, consumed, head>>
backupVars == <<auditVars, saved, consumed, head, dumping, dump, dumps, posts,
                holes, revived, wipes>>

NoDump == [saved |-> {}, consumed |-> {}, rows |-> {}, head |-> None]

(* save_receipt: the row and the agent's chain head, in one transaction.    *)
SaveReceipt(t) ==
  /\ Call(t)
  /\ saved' = saved \cup {t}
  /\ head' = t
  /\ UNCHANGED <<consumed, dumping, dump, dumps, posts, holes, revived, wipes>>

(* The drawn seq is taken: IntegrityError, the transaction rolls back and   *)
(* the handler answers 500.                                                 *)
RefuseInsert(t) ==
  /\ pc[t] = "inserting"
  /\ SeqTaken
  /\ pc' = [pc EXCEPT ![t] = "refused"]
  /\ nextSeq' = nextSeq + 1
  /\ lock' = None
  /\ got' = [got EXCEPT ![t] = Genesis]
  /\ UNCHANGED <<rows, anchor, crashes>>

(* A step of append_audit, or the death of the process.                     *)
LogStep ==
  /\ \/ Crash
     \/ \E t \in Appenders : AppendAudit(t) \/ RefuseInsert(t)
  /\ UNCHANGED <<saved, consumed, head, dumping, dump, dumps, posts, holes,
                 revived, wipes>>

(* The broker claims an unconsumed receipt and POSTs its action.            *)
Execute(r) ==
  /\ r \in saved \ consumed
  /\ \A q \in Appenders \ {r} : posts[q] + posts[r] < MaxPosts
  /\ consumed' = consumed \cup {r}
  /\ posts' = [posts EXCEPT ![r] = @ + 1]
  /\ UNCHANGED <<auditVars, saved, head, dumping, dump, dumps, holes,
                 revived, wipes>>

(* dump_all_tables: one SELECT per table, in the order of TABLES; each sees *)
(* what is committed when it runs.  With the last, main keeps the backup.   *)
DumpTable ==
  /\ Cardinality(dumps) < MaxDumps
  /\ \/ /\ dumping = "idle"
        /\ dump' = [NoDump EXCEPT !.saved = saved, !.consumed = consumed]
        /\ dumping' = "audit_log"
        /\ UNCHANGED dumps
     \/ /\ dumping = "audit_log"
        /\ dump' = [dump EXCEPT !.rows = rows]
        /\ dumping' = "agent_chain"
        /\ UNCHANGED dumps
     \/ /\ dumping = "agent_chain"
        /\ dumps' = dumps \cup {[dump EXCEPT !.head = head]}
        /\ dump' = NoDump
        /\ dumping' = "idle"
  /\ UNCHANGED <<auditVars, tables, posts, holes, revived, wipes>>

(* A backup is not kept for ever.                                           *)
DropBackup(d) ==
  /\ dumps' = dumps \ {d}
  /\ UNCHANGED <<auditVars, tables, dumping, dump, posts, holes, revived, wipes>>

(* A SELECT, the encryption or the upload fails: main exits and keeps none. *)
DumpFails ==
  /\ dumping # "idle"
  /\ dump' = NoDump
  /\ dumping' = "idle"
  /\ UNCHANGED <<auditVars, tables, dumps, posts, holes, revived, wipes>>

Stopped == \A t \in Appenders : pc[t] \notin InFlight

(* A log with no gap: no insert before its last entry drew a seq and failed. *)
Gapless(log) == \A r \in log : \A s \in 1..r.seq : \E q \in log : q.seq = s

(* What the properties remember of a restore.                               *)
Brought(d) ==
  /\ holes' = (holes \/ ~Gapless(d.rows))
  /\ revived' = revived \cup {r \in d.saved \ d.consumed : posts[r] > 0}

(* A faulty variant: rows are inserted without deleting those there. *)
RestoreFromDump_NoDelete(d) ==
  /\ Stopped
  /\ rows' = rows \cup d.rows
  /\ saved' = saved \cup d.saved
  /\ consumed' = consumed \cup d.consumed
  /\ head' = d.head
  /\ Brought(d)
  /\ UNCHANGED <<nextSeq, lock, pc, got, anchor, crashes, dumping, dump, dumps,
                 posts, wipes>>

(* A faulty variant: the tables are truncated and their sequences restart. *)
RestoreFromDump_RestartsSequence(d) ==
  /\ Stopped
  /\ rows' = d.rows
  /\ nextSeq' = 1
  /\ saved' = d.saved
  /\ consumed' = d.consumed
  /\ head' = d.head
  /\ Brought(d)
  /\ UNCHANGED <<lock, pc, got, anchor, crashes, dumping, dump, dumps, posts,
                 wipes>>

(* A faulty variant: the receipts are inserted without the columns that     *)
(* tell what became of them.                                                *)
RestoreFromDump_FreshReceipts(d) ==
  /\ Stopped
  /\ rows' = d.rows
  /\ saved' = d.saved
  /\ consumed' = {}
  /\ head' = d.head
  /\ Brought(d)
  /\ UNCHANGED <<nextSeq, lock, pc, got, anchor, crashes, dumping, dump, dumps,
                 posts, wipes>>

(* restore_from_dump: every table's rows deleted and the dump's inserted,   *)
(* seq included, in one transaction.  Explicit values leave the sequence    *)
(* of audit_log.seq where it was.  A backup may be under way meanwhile.     *)
RestoreFromDump(d) ==
  /\ Stopped
  /\ rows' = d.rows
  /\ saved' = d.saved
  /\ consumed' = d.consumed
  /\ head' = d.head
  /\ Brought(d)
  /\ UNCHANGED <<nextSeq, lock, pc, got, anchor, crashes, dumping, dump, dumps,
                 posts, wipes>>

(* The database is lost; init_db creates empty tables in a new one.         *)
Wipe ==
  /\ Stopped
  /\ wipes < MaxWipes
  /\ wipes' = wipes + 1
  /\ rows' = {} /\ saved' = {} /\ consumed' = {} /\ head' = None
  /\ nextSeq' = 1
  /\ UNCHANGED <<lock, pc, got, anchor, crashes, dumping, dump, dumps, posts,
                 holes, revived>>

BackupInit ==
  /\ Init
  /\ saved = {} /\ consumed = {} /\ head = None
  /\ dumping = "idle" /\ dump = NoDump /\ dumps = {}
  /\ posts = [t \in Appenders |-> 0]
  /\ holes = FALSE /\ revived = {} /\ wipes = 0

BackupNext ==
  \/ \E t \in Appenders : SaveReceipt(t) \/ Execute(t)
  \/ LogStep
  \/ DumpTable \/ DumpFails
  \/ \E d \in dumps : RestoreFromDump(d) \/ DropBackup(d)
  \/ Wipe

BackupSpec == BackupInit /\ [][BackupNext]_backupVars

-----------------------------------------------------------------------------
(* Through losses of the database and restores of one backup or another,    *)
(* verify_audit_chain answers True, whatever is appended after, if the      *)
(* database was kept or no seq is missing from a backup that was restored.  *)
(* With both a new database and a gap, an append draws the missing seq, and *)
(* its entry stands before those it should follow.                          *)
ChainSurvives == wipes = 0 \/ ~holes => VerifyAuditChain(rows)

(* As long as the database itself is kept, going back to a backup makes no  *)
(* later append_audit fail: seq is never drawn twice.                       *)
AppendsAcceptedUnlessWiped ==
  wipes = 0 => \A t \in Appenders : pc[t] # "refused"

(* A receipt is spent twice only if a backup that holds it unspent was      *)
(* restored: what was spent when the dump read the receipts is spent after  *)
(* its restore, whatever else is lost, created anew and restored.           *)
DumpedSpendsHold == \A r \in Appenders : posts[r] <= 1 \/ r \in revived

(* "a backup taken now can genuinely restore a wiped database later": the   *)
(* service that runs on the restored database can log what it does.         *)
AppendsAccepted == \A t \in Appenders : pc[t] # "refused"

(* "replayed receipts do not reach the execution sink": one POST per        *)
(* receipt, also after a restore.                                           *)
SpentOnce == \A t \in Appenders : posts[t] <= 1

(* "any tampering with history breaks the chain and is detectable": an      *)
(* entry whose writer went on and that is no longer there makes the check   *)
(* fail.                                                                    *)
LossDetected ==
  VerifyAuditChain(rows) =>
    \A t \in Appenders :
      pc[t] \in {"done", "unanchored"} => \E r \in rows : r.event = t

(* Receipts are chained per agent: the head of the chain, which the next    *)
(* receipt will sign as its predecessor, is a receipt the table holds.      *)
HeadIsHeld == head = None \/ head \in saved
=============================================================================
