------------------------------ MODULE AuditReader ------------------------------
(***************************************************************************)
(* routers/admin.py audit_log beside the appends of module AuditLog: an    *)
(* administrator or a test harness asks for the log.  The handler reads    *)
(* the entries and checks the chain in two transactions, each under        *)
(* storage._lock, and other threads append between them.                   *)
(***************************************************************************)
EXTENDS AuditLog, FiniteSets

CONSTANTS
  Limits,      \* values considered for the query's limit
  TestEvents,  \* events whose detail names an agent of the test namespace
  MaxAsks      \* bound on queries

ASSUME LimitsAssumption == Limits \subseteq Nat /\ TestEvents \subseteq Appenders

VARIABLES
  reader,      \* where the query stands
  key,         \* the key it was asked with
  limit,
  entries,     \* what the answer shows
  chainValid,  \* and what it says of the chain
  asks

readerVars == <<auditVars, reader, key, limit, entries, chainValid, asks>>

ReaderInit ==
  /\ Init
  /\ reader = "idle"
  /\ key = "full"
  /\ limit = 0
  /\ entries = {}
  /\ chainValid = FALSE
  /\ asks = 0

(* A query with a key that check_admin_or_test_key knows; others get a 401  *)
(* and touch nothing.                                                       *)
Ask ==
  /\ reader \in {"idle", "answered"}
  /\ asks < MaxAsks /\ asks' = asks + 1
  /\ key' \in {"full", "test"}
  /\ limit' \in Limits
  /\ reader' = "asked"
  /\ UNCHANGED <<auditVars, entries, chainValid>>

(* A faulty variant: the entries with the highest seq, not the lowest. *)
Listing_Latest(log, n) ==
  {r \in log : Cardinality({q \in log : q.seq > r.seq}) < n}

(* ORDER BY seq LIMIT n: the n entries with the lowest seq.                 *)
Listing(log, n) == {r \in log : Cardinality(Preceding(r, log)) < n}

Shown(log) == {r \in log : key = "full" \/ r.event \in TestEvents}

(* get_audit_log, and for a test key the filter over what it returned.      *)
GetAuditLog ==
  /\ reader = "asked"
  /\ lock = None
  /\ entries' = Shown(Listing(rows, limit))
  /\ reader' = "listed"
  /\ UNCHANGED <<auditVars, key, limit, chainValid, asks>>

CheckChain ==
  /\ reader = "listed"
  /\ lock = None
  /\ chainValid' = VerifyAuditChain(rows)
  /\ reader' = "answered"
  /\ UNCHANGED <<auditVars, key, limit, entries, asks>>

(* The database refuses a read, and the handler answers 500.                *)
ReadFails ==
  /\ reader \in {"asked", "listed"}
  /\ reader' = "idle"
  /\ UNCHANGED <<auditVars, key, limit, entries, chainValid, asks>>

(* The appends go on meanwhile; the process takes the query with it.        *)
Appends == \E t \in Appenders : Call(t) \/ AppendAudit(t)

Log ==
  \/ Appends /\ UNCHANGED reader
  \/ Crash /\ reader' = "idle"

ReaderNext ==
  \/ Ask \/ GetAuditLog \/ CheckChain \/ ReadFails
  \/ Log /\ UNCHANGED <<key, limit, entries, chainValid, asks>>

ReaderSpec == ReaderInit /\ [][ReaderNext]_readerVars

-----------------------------------------------------------------------------
(* An answer stands up to whoever recomputes it, whatever was appended      *)
(* between its two reads and since: it reports the chain intact, the        *)
(* entries shown are of the log, and with the full key their hashes chain   *)
(* from "genesis" without a gap.                                            *)
AnswerVerifies ==
  reader = "answered" =>
    /\ chainValid
    /\ entries \subseteq rows
    /\ key = "full" => VerifyAuditChain(entries)

(* demo.py counts the answer as "recent entries": the last one is there.    *)
ShowsRecent ==
  [][GetAuditLog /\ key = "full" /\ limit > 0 /\ rows # {}
       => \E r \in entries' : IsLast(r, rows)]_readerVars
=============================================================================
