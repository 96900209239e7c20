---------------------------- MODULE AuditLogProofs ----------------------------
(***************************************************************************)
(* Proofs about the audit log and what reads and copies it, modules        *)
(* AuditLog, AuditReader and Backup: for any number of concurrent calls of *)
(* append_audit, of queries, restarts, losses of the database and restores.*)
(***************************************************************************)
EXTENDS AuditReader, Backup, FiniteSetTheorems, SequenceTheorems, TLAPS

(* An empty log has no last entry.                                          *)
HasLast(log) == log # {} => \E r \in log : IsLast(r, log)

-----------------------------------------------------------------------------
(* The log and its anchor. *)

TypeInv ==
  /\ rows \subseteq Entry
  /\ nextSeq \in Nat
  /\ lock \in Appenders \cup {None}
  /\ pc \in [Appenders -> PCs]
  /\ got \in [Appenders -> Hashes]
  /\ anchor \in Hashes \cup {None}

(* Rows are drawn in the order in which they commit, so one is the last.    *)
SeqsDrawn ==
  /\ \A r \in rows : r.seq < nextSeq
  /\ HasLast(rows)

(* storage._lock covers exactly the calls between their read and their      *)
(* commit, so what such a call read is still the last hash.                 *)
LockHeld ==
  \A t \in Appenders :
    /\ pc[t] = "inserting" <=> lock = t
    /\ pc[t] = "inserting" => got[t] = LastHash(rows)

(* What a call is about to anchor has been committed.                       *)
Committed ==
  \A t \in Appenders :
    pc[t] = "anchoring" => \E r \in rows : r.hash = Append(got[t], t)

AInv ==
  TypeInv /\ SeqsDrawn /\ LockHeld /\ Committed
  /\ ChainVerifies /\ AnchoredIsLogged

(* An entry drawn after all others extends a chain that verifies, if it     *)
(* names the last hash.                                                     *)
LEMMA ChainExtends ==
  ASSUME NEW log \in SUBSET Entry, NEW n \in Entry,
         \A r \in log : r.seq < n.seq,
         VerifyAuditChain(log),
         n.prev = LastHash(log), n.hash = Append(n.prev, n.event)
  PROVE  VerifyAuditChain(log \cup {n})
<1> DEFINE longer == log \cup {n}
<1> SUFFICES ASSUME NEW r \in longer
             PROVE  /\ r.prev = LastHash(Preceding(r, longer))
                    /\ r.hash = Append(r.prev, r.event)
  BY DEF VerifyAuditChain
<1>1. \A q \in longer : q.seq \in Nat
  BY DEF Entry
<1>2. CASE r = n
  <2>1. Preceding(r, longer) = log
    BY <1>1, <1>2 DEF Preceding
  <2> QED
    BY <1>2, <2>1
<1>3. CASE r \in log
  <2>1. Preceding(r, longer) = Preceding(r, log)
    BY <1>1, <1>3 DEF Preceding
  <2> QED
    BY <1>3, <2>1 DEF VerifyAuditChain
<1> QED
  BY <1>2, <1>3

LEMMA LastHashType ==
  ASSUME NEW log \in SUBSET Entry, HasLast(log)
  PROVE  LastHash(log) \in Hashes
<1>1. CASE log = {}
  BY <1>1 DEF LastHash, Genesis, Hashes
<1>2. CASE log # {}
  <2> DEFINE last == CHOOSE r \in log : IsLast(r, log)
  <2>1. last \in log
    BY <1>2 DEF HasLast
  <2>2. last.hash \in Hashes
    BY <2>1 DEF Entry
  <2> QED
    BY <1>2, <2>2 DEF LastHash
<1> QED
  BY <1>1, <1>2

LEMMA InitInv == Init => AInv
<1> SUFFICES ASSUME Init PROVE AInv
  OBVIOUS
<1> USE DEF Init, AuditInit
<1>1. TypeInv
  BY DEF TypeInv, PCs, Hashes, Genesis
<1>2. LockHeld
  BY NoneAssumption DEF LockHeld
<1> QED
  BY <1>1, <1>2
     DEF AInv, SeqsDrawn, HasLast, Committed, ChainVerifies,
         VerifyAuditChain, AnchoredIsLogged

LEMMA NextInv == AInv /\ [AuditNext]_auditVars => AInv'
<1> SUFFICES ASSUME AInv, [AuditNext]_auditVars PROVE AInv'
  OBVIOUS
<1> USE DEF AInv
<1>1. ASSUME NEW t \in Appenders, Call(t) PROVE AInv'
  <2>1. TypeInv'
    BY <1>1 DEF Call, TypeInv, PCs
  <2> QED
    BY <1>1, <2>1
       DEF Call, TypeInv, SeqsDrawn, HasLast, LockHeld, Committed, ChainVerifies,
           AnchoredIsLogged
<1>2. ASSUME NEW t \in Appenders, ReadLast(t) PROVE AInv'
  <2>1. LastHash(rows) \in Hashes
    BY LastHashType DEF TypeInv, SeqsDrawn
  <2>2. TypeInv'
    BY <1>2, <2>1 DEF ReadLast, TypeInv, PCs
  <2>3. LockHeld'
    BY <1>2, NoneAssumption DEF ReadLast, LockHeld, TypeInv
  <2>4. Committed'
    BY <1>2 DEF ReadLast, Committed, TypeInv
  <2> QED
    BY <1>2, <2>2, <2>3, <2>4
       DEF ReadLast, SeqsDrawn, HasLast, ChainVerifies, AnchoredIsLogged
<1>3. ASSUME NEW t \in Appenders, Insert(t) PROVE AInv'
  <2>1. NewEntry(t) \in Entry
    BY <1>3 DEF NewEntry, Entry, TypeInv, Hashes
  <2>2. TypeInv'
    BY <1>3, <2>1 DEF Insert, TypeInv, PCs
  <2>3. SeqsDrawn'
    <3>1. NewEntry(t).seq = nextSeq /\ nextSeq \in Nat
      BY DEF NewEntry, TypeInv
    <3>2. \A r \in rows' : r.seq \in Nat /\ r.seq <= nextSeq
      BY <1>3, <2>1, <3>1 DEF Insert, SeqsDrawn, TypeInv, Entry
    <3>3. IsLast(NewEntry(t), rows')
      BY <1>3, <3>1, <3>2 DEF Insert, IsLast
    <3>4. HasLast(rows)'
      BY <1>3, <3>3 DEF Insert, HasLast
    <3>5. \A r \in rows' : r.seq < nextSeq'
      BY <1>3, <3>1, <3>2 DEF Insert
    <3> QED
      BY <3>4, <3>5 DEF SeqsDrawn
  <2>4. ChainVerifies'
    <3>1. \A r \in rows : r.seq < NewEntry(t).seq
      BY DEF SeqsDrawn, NewEntry
    <3>2. NewEntry(t).prev = LastHash(rows)
      BY <1>3 DEF NewEntry, LockHeld, Insert
    <3>3. NewEntry(t).hash = Append(NewEntry(t).prev, NewEntry(t).event)
      BY DEF NewEntry
    <3> QED
      BY <1>3, <2>1, <3>1, <3>2, <3>3, ChainExtends
         DEF ChainVerifies, TypeInv, Insert
  <2>5. LockHeld'
    BY <1>3, NoneAssumption DEF Insert, LockHeld, TypeInv
  <2>6. Committed'
    <3> SUFFICES ASSUME NEW u \in Appenders, pc'[u] = "anchoring"
                 PROVE  \E r \in rows' : r.hash = Append(got'[u], u)
      BY DEF Committed
    <3>1. CASE u = t
      <4>1. NewEntry(t).hash = Append(got[t], t) /\ got' = got
        BY <1>3 DEF NewEntry, Insert
      <4> QED
        BY <1>3, <3>1, <4>1 DEF Insert
    <3>2. CASE u # t
      BY <1>3, <3>2 DEF Insert, Committed, TypeInv
    <3> QED
      BY <3>1, <3>2
  <2>7. AnchoredIsLogged'
    BY <1>3 DEF Insert, AnchoredIsLogged
  <2> QED
    BY <2>2, <2>3, <2>4, <2>5, <2>6, <2>7
<1>4. ASSUME NEW t \in Appenders, InsertFails(t) PROVE AInv'
  <2>1. TypeInv'
    BY <1>4 DEF InsertFails, TypeInv, PCs, Hashes, Genesis
  <2>2. LockHeld' /\ Committed'
    BY <1>4, NoneAssumption DEF InsertFails, LockHeld, Committed, TypeInv
  <2> QED
    BY <1>4, <2>1, <2>2
       DEF InsertFails, SeqsDrawn, HasLast, ChainVerifies, AnchoredIsLogged,
           TypeInv, Entry
<1>5. ASSUME NEW t \in Appenders, Anchor(t) PROVE AInv'
  <2>1. Append(got[t], t) \in Hashes /\ Genesis \in Hashes
    BY DEF TypeInv, Hashes, Genesis
  <2>2. TypeInv'
    BY <1>5, <2>1 DEF Anchor, TypeInv, PCs
  <2>3. AnchoredIsLogged'
    BY <1>5 DEF Anchor, AnchoredIsLogged, Committed
  <2> QED
    BY <1>5, <2>2, <2>3
       DEF Anchor, SeqsDrawn, HasLast, LockHeld, Committed, ChainVerifies, TypeInv
<1>6. ASSUME NEW t \in Appenders, AnchorFails(t) PROVE AInv'
  <2>1. Append(got[t], t) \in Hashes /\ Genesis \in Hashes
    BY DEF TypeInv, Hashes, Genesis
  <2>2. TypeInv'
    BY <1>6, <2>1 DEF AnchorFails, TypeInv, PCs
  <2>3. AnchoredIsLogged'
    BY <1>6 DEF AnchorFails, AnchoredIsLogged, Committed
  <2> QED
    BY <1>6, <2>2, <2>3
       DEF AnchorFails, SeqsDrawn, HasLast, LockHeld, Committed, ChainVerifies, TypeInv
<1>7. ASSUME NEW t \in Appenders, RaiseAfterCommit(t) PROVE AInv'
  <2>1. TypeInv'
    BY <1>7 DEF RaiseAfterCommit, TypeInv, PCs, Hashes, Genesis
  <2> QED
    BY <1>7, <2>1
       DEF RaiseAfterCommit, SeqsDrawn, HasLast, LockHeld, Committed,
           ChainVerifies, AnchoredIsLogged, TypeInv
<1>8. CASE Crash
  <2>1. TypeInv'
    BY <1>8 DEF Crash, TypeInv, PCs, Hashes, Genesis
  <2>2. LockHeld' /\ Committed'
    BY <1>8, NoneAssumption DEF Crash, LockHeld, Committed, TypeInv, InFlight
  <2>3. SeqsDrawn'
    BY <1>8 DEF Crash, SeqsDrawn, HasLast, TypeInv, Entry
  <2> QED
    BY <1>8, <2>1, <2>2, <2>3 DEF Crash, ChainVerifies, AnchoredIsLogged
<1>9. CASE UNCHANGED auditVars
  BY <1>9
     DEF auditVars, TypeInv, SeqsDrawn, HasLast, LockHeld, Committed, ChainVerifies,
         AnchoredIsLogged
<1> QED
  BY <1>1, <1>2, <1>3, <1>4, <1>5, <1>6, <1>7, <1>8, <1>9
     DEF AuditNext, AppendAudit

LEMMA Invariance == Spec => []AInv
BY InitInv, NextInv, PTL DEF Spec

(* verify_audit_chain answers True whatever the threads of the process do   *)
(* and wherever it dies: storage._lock is enough for the chain.             *)
THEOREM AuditChainVerifies == Spec => []ChainVerifies
<1>1. AInv => ChainVerifies
  BY DEF AInv
<1> QED
  BY <1>1, Invariance, PTL

(* Every hash the anchor ever holds is the hash of an entry of the log.     *)
THEOREM AnchoredEntriesLogged == Spec => []AnchoredIsLogged
<1>1. AInv => AnchoredIsLogged
  BY DEF AInv
<1> QED
  BY <1>1, Invariance, PTL

-----------------------------------------------------------------------------
(* The log as a sequence: module AppendOnlyLog. *)

PastCommit == {"anchoring", "done", "unanchored", "failed", "gone"}

Opens(h, log) == Len(h) <= Len(log) /\ \A i \in 1..Len(h) : h[i] = log[i]

(* Every event of the log has an entry, every entry covers a beginning of   *)
(* the log, and the call that wrote it is past its commit.                  *)
Accounted ==
  /\ \A i \in 1..Len(LastHash(rows)) :
       \E r \in rows : r.event = LastHash(rows)[i]
  /\ \A r \in rows :
       /\ Opens(r.hash, LastHash(rows))
       /\ pc[r.event] \in PastCommit

(* The last hash of a log that an entry was added to is that entry's.       *)
LEMMA LastIsAdded ==
  ASSUME NEW log \in SUBSET Entry, NEW n \in Entry,
         \A r \in log : r.seq < n.seq
  PROVE  LastHash(log \cup {n}) = n.hash
<1> DEFINE longer == log \cup {n}
<1>1. \A r \in longer : r.seq \in Nat
  BY DEF Entry
<1>2. IsLast(n, longer)
  BY <1>1 DEF IsLast
<1>3. \A r \in longer : IsLast(r, longer) => r = n
  BY <1>1 DEF IsLast
<1>4. (CHOOSE r \in longer : IsLast(r, longer)) = n
  BY <1>2, <1>3
<1> QED
  BY <1>4 DEF LastHash

(* An insert writes the event at the end of the log, for the first time.    *)
LEMMA InsertAppends ==
  ASSUME AInv, NEW t \in Appenders, Insert(t)
  PROVE  /\ rows' = rows \cup {NewEntry(t)} /\ NewEntry(t) \in Entry
         /\ NewEntry(t).event = t /\ NewEntry(t).hash = LastHash(rows')
         /\ LastHash(rows) \in Hashes
         /\ LastHash(rows') = Append(LastHash(rows), t)
<1> USE DEF AInv
<1>1. /\ NewEntry(t) \in Entry /\ NewEntry(t).seq = nextSeq
      /\ NewEntry(t).event = t /\ NewEntry(t).hash = Append(got[t], t)
  BY DEF NewEntry, Entry, TypeInv, Hashes
<1>2. rows' = rows \cup {NewEntry(t)} /\ got[t] = LastHash(rows)
  BY DEF Insert, LockHeld
<1>3. LastHash(rows') = NewEntry(t).hash
  BY <1>1, <1>2, LastIsAdded DEF SeqsDrawn, TypeInv
<1>4. LastHash(rows) \in Hashes
  BY LastHashType DEF TypeInv, SeqsDrawn
<1> QED
  BY <1>1, <1>2, <1>3, <1>4

LEMMA OpensAppend ==
  ASSUME NEW s \in Hashes, NEW e \in Appenders
  PROVE  /\ Append(s, e) \in Hashes /\ Len(Append(s, e)) = Len(s) + 1
         /\ Append(s, e)[Len(s) + 1] = e
         /\ \A i \in 1..Len(s) : Append(s, e)[i] = s[i]
         /\ Len(s) \in Nat
BY DEF Hashes

(* Every step but an insert leaves the entries alone.                       *)
LEMMA OnlyInserts ==
  ASSUME [AuditNext]_auditVars, ~ \E t \in Appenders : Insert(t)
  PROVE  rows' = rows
BY DEF AuditNext, AppendAudit, Crash, Call, ReadLast, Anchor, AnchorFails,
       RaiseAfterCommit, InsertFails, auditVars

LEMMA AccountedNext == AInv /\ Accounted /\ [AuditNext]_auditVars => Accounted'
<1> SUFFICES ASSUME AInv, Accounted, [AuditNext]_auditVars PROVE Accounted'
  OBVIOUS
<1> DEFINE last == LastHash(rows)
<1>1. ASSUME NEW t \in Appenders, Insert(t) PROVE Accounted'
  <2> DEFINE n == NewEntry(t)
             longer == LastHash(rows')
  <2>1. /\ rows' = rows \cup {n} /\ n.event = t /\ n.hash = longer
        /\ last \in Hashes /\ longer = Append(last, t)
    BY <1>1, InsertAppends
  <2>2. /\ Len(longer) = Len(last) + 1 /\ longer[Len(last) + 1] = t
        /\ \A i \in 1..Len(last) : longer[i] = last[i]
        /\ Len(last) \in Nat
    <3> HIDE DEF longer, last
    <3> QED
      BY <2>1, OpensAppend
  <2> HIDE DEF n, longer, last
  <2>3. \A i \in 1..Len(longer) : \E r \in rows' : r.event = longer[i]
    <3> TAKE i \in 1..Len(longer)
    <3>1. CASE i = Len(last) + 1
      BY <2>1, <2>2, <3>1
    <3>2. CASE i # Len(last) + 1
      <4>1. i \in 1..Len(last)
        BY <2>2, <3>2
      <4>2. PICK r \in rows : r.event = last[i]
        BY <4>1 DEF Accounted, last
      <4> QED
        BY <2>1, <2>2, <4>1, <4>2
    <3> QED
      BY <3>1, <3>2
  <2>4. \A r \in rows' : Opens(r.hash, longer)
    <3> TAKE r \in rows'
    <3>1. CASE r = n
      BY <2>1, <2>2, <3>1 DEF Opens
    <3>2. CASE r \in rows
      <4>1. Opens(r.hash, last) /\ Len(r.hash) \in Nat
        BY <3>2 DEF Accounted, last, AInv, TypeInv, Entry, Hashes
      <4> QED
        BY <2>2, <4>1 DEF Opens
    <3> QED
      BY <2>1, <3>1, <3>2
  <2>5. \A r \in rows' : pc'[r.event] \in PastCommit
    BY <1>1, <2>1 DEF Insert, Accounted, PastCommit, AInv, TypeInv
  <2> QED
    BY <2>3, <2>4, <2>5 DEF Accounted, longer
<1>2. CASE ~ \E t \in Appenders : Insert(t)
  <2>1. rows' = rows
    BY <1>2, OnlyInserts
  <2>2. \A u \in Appenders :
          pc[u] \in PastCommit => pc'[u] \in PastCommit
    BY <1>2 DEF AuditNext, AppendAudit, Crash, Call, ReadLast, Anchor, AnchorFails,
                RaiseAfterCommit, InsertFails, auditVars, PastCommit, AInv, TypeInv
  <2>3. \A r \in rows : r.event \in Appenders
    BY DEF AInv, TypeInv, Entry
  <2> QED
    BY <2>1, <2>2, <2>3 DEF Accounted
<1> QED
  BY <1>1, <1>2

(* What a call that committed has its entry cover is a beginning of the     *)
(* log that ends with its event.                                            *)
LEMMA AnchoringIsLogged ==
  ASSUME AInv, Accounted, NEW t \in Appenders, pc[t] = "anchoring"
  PROVE  \E i \in 1..Len(LastHash(rows)) :
           /\ LastHash(rows)[i] = t
           /\ SubSeq(LastHash(rows), 1, i) = Append(got[t], t)
<1> DEFINE last == LastHash(rows)
           h == Append(got[t], t)
<1>1. PICK r \in rows : r.hash = h
  BY DEF AInv, Committed
<1>2. Opens(h, last)
  BY <1>1 DEF Accounted
<1>3. last \in Hashes /\ got[t] \in Hashes
  BY LastHashType DEF AInv, TypeInv, SeqsDrawn
<1>4. /\ h \in Hashes /\ Len(h) = Len(got[t]) + 1 /\ h[Len(h)] = t
      /\ Len(got[t]) \in Nat /\ Len(last) \in Nat
  BY <1>3, OpensAppend DEF Hashes
<1> HIDE DEF last, h
<1>5. Len(h) \in 1..Len(last) /\ last[Len(h)] = t
  BY <1>2, <1>4 DEF Opens
<1>6. SubSeq(last, 1, Len(h)) = h
  <2>1. \A i \in 1..Len(h) : last[i] \in Appenders
    BY <1>3, <1>4, <1>5, ElementOfSeq DEF Hashes
  <2>2. /\ SubSeq(last, 1, Len(h)) \in Seq(Appenders)
        /\ Len(SubSeq(last, 1, Len(h))) = Len(h)
        /\ \A i \in 1..Len(h) : SubSeq(last, 1, Len(h))[i] = last[i]
    BY <1>4, <2>1, SubSeqProperties
  <2> QED
    BY <1>2, <1>4, <2>2, SeqEqual DEF Opens, Hashes
<1> QED
  BY <1>5, <1>6 DEF last, h

(* Every step of the log is a step of AppendOnlyLog or leaves it as it is.  *)
LEMMA LogStepMaps ==
  AInv /\ Accounted /\ [AuditNext]_auditVars => [Promise!LogNext]_(Promise!logVars)
<1> SUFFICES ASSUME AInv, Accounted, [AuditNext]_auditVars
             PROVE  [Promise!LogNext]_(Promise!logVars)
  OBVIOUS
<1> DEFINE Vouched == IF anchor = None THEN Genesis ELSE anchor
           Returned == {t \in Appenders : pc[t] \in {"done", "unanchored"}}
<1>0. pc \in [Appenders -> PCs]
  BY DEF AInv, TypeInv
<1>1. ASSUME NEW t \in Appenders, Insert(t) PROVE Promise!Write(t)
  <2>1. /\ LastHash(rows') = Append(LastHash(rows), t)
        /\ pc[t] = "inserting" /\ anchor' = anchor
        /\ pc' = [pc EXCEPT ![t] = "anchoring"]
    BY <1>1, InsertAppends DEF Insert
  <2>2. \A i \in 1..Len(LastHash(rows)) : LastHash(rows)[i] # t
    BY <2>1 DEF Accounted, PastCommit
  <2>3. Returned' = Returned
    BY <1>0, <2>1
  <2> QED
    BY <2>1, <2>2, <2>3 DEF Promise!Write
<1>2. ASSUME NEW t \in Appenders, Anchor(t) \/ AnchorFails(t) PROVE Promise!Return(t)
  <2>1. /\ pc[t] = "anchoring" /\ rows' = rows
        /\ anchor' \in {anchor, Append(got[t], t)}
        /\ \E end \in {"done", "unanchored"} : pc' = [pc EXCEPT ![t] = end]
    BY <1>2 DEF Anchor, AnchorFails
  <2>2. t \notin Returned /\ Returned' = Returned \cup {t}
    BY <1>0, <2>1
  <2>3. Append(got[t], t) # None
    <3>1. got[t] \in Hashes
      BY DEF AInv, TypeInv
    <3>2. Append(got[t], t) \in Hashes
      BY <3>1, OpensAppend
    <3> QED
      BY <3>2, NoneAssumption DEF Hashes
  <2>4. Vouched' \in {Vouched, Append(got[t], t)}
    BY <2>1, <2>3
  <2>5. PICK i \in 1..Len(LastHash(rows)) :
          /\ LastHash(rows)[i] = t
          /\ SubSeq(LastHash(rows), 1, i) = Append(got[t], t)
    BY <2>1, AnchoringIsLogged
  <2> QED
    BY <2>1, <2>2, <2>4, <2>5 DEF Promise!Return
<1>3. CASE ~ \E t \in Appenders : Insert(t) \/ Anchor(t) \/ AnchorFails(t)
  <2>1. rows' = rows /\ anchor' = anchor
    BY <1>3, OnlyInserts DEF AuditNext, AppendAudit, Crash, Call, ReadLast,
                             RaiseAfterCommit, InsertFails, auditVars
  <2>2. \A t \in Appenders : pc'[t] \in {"done", "unanchored"}
                              <=> pc[t] \in {"done", "unanchored"}
    BY <1>0, <1>3 DEF AuditNext, AppendAudit, Crash, Call, ReadLast, InsertFails,
                      RaiseAfterCommit, InFlight, auditVars
  <2> QED
    BY <2>1, <2>2 DEF Promise!logVars
<1> QED
  BY <1>1, <1>2, <1>3 DEF Promise!LogNext

(* The audit log is append-only, and its anchor a beginning of it, for any  *)
(* number of concurrent calls, failures and restarts.                       *)
THEOREM AuditLogIsAppendOnly == Spec => KeepsLog
<1>1. Init => Promise!LogInit /\ Accounted
  <2> SUFFICES ASSUME Init PROVE Promise!LogInit /\ Accounted
    OBVIOUS
  <2>1. rows = {} /\ LastHash(rows) = <<>> /\ anchor = None
        /\ pc = [t \in Appenders |-> "new"]
    BY DEF Init, AuditInit, LastHash, Genesis
  <2>2. Promise!LogInit
    BY <2>1 DEF Promise!LogInit, Genesis
  <2>3. Accounted
    BY <2>1 DEF Accounted
  <2> QED
    BY <2>2, <2>3
<1> QED
  BY <1>1, AccountedNext, LogStepMaps, Invariance, PTL
     DEF Spec, KeepsLog, Promise!LogSpec

-----------------------------------------------------------------------------
(* What an auditor is shown. *)

(* The entries shown under the full key have no gap before them.            *)
NoGap ==
  \A r \in entries : \A q \in rows : q.seq < r.seq => q \in entries

ReaderInv ==
  /\ IsFiniteSet(rows)
  /\ limit \in Nat
  /\ reader \in {"listed", "answered"} =>
       entries \subseteq rows /\ (key = "full" => NoGap)
  /\ reader = "answered" => chainValid

(* An initial segment of a chain that verifies verifies.                    *)
LEMMA SegmentVerifies ==
  ASSUME NEW log, NEW part \in SUBSET log,
         VerifyAuditChain(log),
         \A r \in part : \A q \in log : q.seq < r.seq => q \in part
  PROVE  VerifyAuditChain(part)
<1>1. \A r \in part : Preceding(r, part) = Preceding(r, log)
  BY DEF Preceding
<1> QED
  BY <1>1 DEF VerifyAuditChain

(* What get_audit_log selects is an initial segment.                        *)
LEMMA ListingIsSegment ==
  ASSUME NEW log \in SUBSET Entry, IsFiniteSet(log), NEW n \in Nat,
         NEW r \in Listing(log, n), NEW q \in log, q.seq < r.seq
  PROVE  q \in Listing(log, n)
<1>1. r \in log /\ Cardinality(Preceding(r, log)) < n
  BY DEF Listing
<1>2. \A e \in log : e.seq \in Nat
  BY DEF Entry
<1>3. Preceding(q, log) \subseteq Preceding(r, log)
  BY <1>1, <1>2 DEF Preceding
<1>4. IsFiniteSet(Preceding(r, log))
  <2>1. Preceding(r, log) \subseteq log
    BY DEF Preceding
  <2> QED
    BY <2>1, FS_Subset
<1>5. /\ Cardinality(Preceding(q, log)) <= Cardinality(Preceding(r, log))
      /\ IsFiniteSet(Preceding(q, log))
  BY <1>3, <1>4, FS_Subset
<1>6. /\ Cardinality(Preceding(q, log)) \in Nat
      /\ Cardinality(Preceding(r, log)) \in Nat
  BY <1>4, <1>5, FS_CardinalityType
<1> QED
  BY <1>1, <1>5, <1>6 DEF Listing

(* The reader writes nothing: the log evolves as if it were not there.      *)
LEMMA ReaderOnlyReads == [ReaderNext]_readerVars => [AuditNext]_auditVars
BY DEF ReaderNext, Ask, GetAuditLog, CheckChain, ReadFails, Log, Appends,
       AuditNext, readerVars

(* A step that is not the reader's leaves what it was shown in place: the   *)
(* log only grows, and at its end.                                          *)
LEMMA LogKeeps ==
  ASSUME AInv, ReaderInv, [AuditNext]_auditVars,
         UNCHANGED <<key, limit, entries, chainValid>>,
         reader' \in {reader, "idle"}
  PROVE  ReaderInv'
<1>1. CASE \E t \in Appenders : Insert(t)
  <2> PICK t \in Appenders : Insert(t)
    BY <1>1
  <2>1. rows' = rows \cup {NewEntry(t)} /\ NewEntry(t).seq = nextSeq
    BY DEF Insert, NewEntry
  <2>2. IsFiniteSet(rows')
    BY <2>1, FS_AddElement DEF ReaderInv
  <2>3. ASSUME entries \subseteq rows, NoGap PROVE NoGap'
    <3>1. \A r \in entries : r.seq \in Nat /\ r.seq < nextSeq
      BY <2>3 DEF AInv, SeqsDrawn, TypeInv, Entry
    <3>2. nextSeq \in Nat
      BY DEF AInv, TypeInv
    <3> QED
      BY <2>1, <2>3, <3>1, <3>2 DEF NoGap
  <2> QED
    BY <2>1, <2>2, <2>3 DEF ReaderInv
<1>2. CASE ~ \E t \in Appenders : Insert(t)
  <2>1. rows' = rows
    BY <1>2, OnlyInserts
  <2> QED
    BY <2>1 DEF ReaderInv, NoGap
<1> QED
  BY <1>1, <1>2

LEMMA ReaderStep == AInv /\ ReaderInv /\ [ReaderNext]_readerVars => ReaderInv'
<1> SUFFICES ASSUME AInv, ReaderInv, [ReaderNext]_readerVars PROVE ReaderInv'
  OBVIOUS
<1>1. CASE Ask
  BY <1>1, LimitsAssumption DEF Ask, ReaderInv, auditVars
<1>2. CASE GetAuditLog
  <2>1. rows' = rows /\ entries' \subseteq rows
    BY <1>2 DEF GetAuditLog, Shown, Listing, auditVars
  <2>2. ASSUME key = "full" PROVE NoGap'
    <3>1. entries' = Listing(rows, limit)
      BY <1>2, <2>2 DEF GetAuditLog, Shown, Listing
    <3>2. rows \subseteq Entry /\ IsFiniteSet(rows) /\ limit \in Nat
      BY DEF AInv, TypeInv, ReaderInv
    <3> QED
      BY <2>1, <3>1, <3>2, ListingIsSegment DEF NoGap
  <2> QED
    BY <1>2, <2>1, <2>2 DEF GetAuditLog, ReaderInv
<1>3. CASE CheckChain
  BY <1>3 DEF CheckChain, ReaderInv, NoGap, AInv, ChainVerifies, auditVars
<1>4. CASE ReadFails
  BY <1>4 DEF ReadFails, ReaderInv, auditVars
<1>5. CASE Log /\ UNCHANGED <<key, limit, entries, chainValid, asks>>
  <2>1. reader' \in {reader, "idle"}
    BY <1>5 DEF Log
  <2> QED
    BY <1>5, <2>1, ReaderOnlyReads, LogKeeps
<1>6. CASE UNCHANGED readerVars
  BY <1>6 DEF readerVars, auditVars, ReaderInv, NoGap
<1> QED
  BY <1>1, <1>2, <1>3, <1>4, <1>5, <1>6 DEF ReaderNext

LEMMA ReaderInvariance == ReaderSpec => [](AInv /\ ReaderInv)
<1>1. ReaderInit => Init
  BY DEF ReaderInit
<1>2. ReaderInit => ReaderInv
  BY FS_EmptySet DEF ReaderInit, Init, AuditInit, ReaderInv
<1>3. ReaderSpec => Spec
  BY <1>1, ReaderOnlyReads, PTL DEF ReaderSpec, Spec
<1> QED
  BY <1>2, <1>3, Invariance, ReaderStep, PTL DEF ReaderSpec

(* An answer of GET /attested/audit-log verifies, with every limit, whatever *)
(* is appended between its two transactions and after them.                 *)
THEOREM AnswersVerify == ReaderSpec => []AnswerVerifies
<1>1. AInv /\ ReaderInv => AnswerVerifies
  <2> SUFFICES ASSUME AInv, ReaderInv, reader = "answered", key = "full"
               PROVE  VerifyAuditChain(entries)
    BY DEF AnswerVerifies, ReaderInv
  <2> QED
    BY SegmentVerifies DEF AInv, ChainVerifies, ReaderInv, NoGap
<1> QED
  BY <1>1, ReaderInvariance, PTL

-----------------------------------------------------------------------------
(* Backups: the chain. *)

Below(log, n) == \A r \in log : r.seq < n

(* Of the seqs from n to the last one none is missing: an append that draws *)
(* n finds it taken, or stands after all entries.                           *)
Filled(log, n) == \A r \in log : \A s \in n..r.seq : \E q \in log : q.seq = s

Dump == [saved: SUBSET Appenders, consumed: SUBSET Appenders,
         rows: SUBSET Entry, head: Appenders \cup {None}]

(* The backups there are, and the one being taken.                          *)
Copies == dumps \cup {dump}

BackupType ==
  /\ rows \subseteq Entry
  /\ saved \subseteq Appenders /\ consumed \subseteq Appenders
  /\ head \in Appenders \cup {None}
  /\ dump \in Dump /\ dumps \subseteq Dump
  /\ nextSeq \in Nat \ {0}
  /\ lock \in Appenders \cup {None}
  /\ pc \in [Appenders -> PCs \cup {"refused"}]
  /\ got \in [Appenders -> Hashes]
  /\ holes \in BOOLEAN /\ wipes \in Nat
  /\ HasLast(rows) /\ \A d \in Copies : HasLast(d.rows)

(* As long as the database is kept, its sequence is ahead of every entry,   *)
(* those in the backups included.                                           *)
SeqsAhead ==
  wipes = 0 =>
    /\ Below(rows, nextSeq)
    /\ \A d \in Copies : Below(d.rows, nextSeq)
    /\ \A t \in Appenders : pc[t] # "refused"

(* What ChainSurvives needs to go on: the next append is refused or last,   *)
(* and every backup holds a chain.                                          *)
ChainKept ==
  wipes = 0 \/ ~holes =>
    /\ VerifyAuditChain(rows) /\ Filled(rows, nextSeq)
    /\ \A d \in Copies : VerifyAuditChain(d.rows)

BackupInv == BackupType /\ LockHeld /\ SeqsAhead /\ ChainKept

LEMMA BelowIsFilled ==
  ASSUME NEW log \in SUBSET Entry, NEW n \in Nat, Below(log, n)
  PROVE  Filled(log, n)
BY DEF Below, Filled, Entry

LEMMA GaplessIsFilled ==
  ASSUME NEW log \in SUBSET Entry, NEW n \in Nat \ {0}, Gapless(log)
  PROVE  Filled(log, n)
BY DEF Gapless, Filled, Entry

(* If the seq that is drawn is free in a log without holes above it, it is  *)
(* above the log.                                                           *)
LEMMA FreeIsAbove ==
  ASSUME NEW log \in SUBSET Entry, NEW n \in Nat, Filled(log, n),
         \A r \in log : r.seq # n
  PROVE  Below(log, n)
<1> SUFFICES ASSUME NEW r \in log, ~(r.seq < n) PROVE FALSE
  BY DEF Below
<1>1. r.seq \in Nat
  BY DEF Entry
<1>2. n \in n..r.seq
  BY <1>1
<1> QED
  BY <1>2 DEF Filled

LEMMA HasLastExtends ==
  ASSUME NEW log \in SUBSET Entry, HasLast(log), NEW n \in Entry
  PROVE  HasLast(log \cup {n})
<1>1. n.seq \in Nat /\ \A r \in log : r.seq \in Nat
  BY DEF Entry
<1>2. CASE log = {}
  BY <1>1, <1>2 DEF HasLast, IsLast
<1>3. CASE log # {}
  <2>1. PICK r \in log : IsLast(r, log)
    BY <1>3 DEF HasLast
  <2>2. CASE n.seq <= r.seq
    <3>1. IsLast(r, log \cup {n})
      BY <2>1, <2>2 DEF IsLast
    <3> QED
      BY <3>1 DEF HasLast
  <2>3. CASE r.seq < n.seq
    <3>1. IsLast(n, log \cup {n})
      BY <1>1, <2>1, <2>3 DEF IsLast
    <3> QED
      BY <3>1 DEF HasLast
  <2> QED
    BY <1>1, <2>1, <2>2, <2>3
<1> QED
  BY <1>2, <1>3

LEMMA BackupInitInv == BackupInit => BackupInv
<1> SUFFICES ASSUME BackupInit PROVE BackupInv
  OBVIOUS
<1> USE DEF BackupInit, Init, AuditInit, NoDump, Copies
<1>0. dump \in Dump /\ \A d \in Copies : d.rows = {}
  BY DEF Dump
<1>1. BackupType
  <2>1. HasLast({}) /\ holes \in BOOLEAN
    BY DEF HasLast
  <2>2. got \in [Appenders -> Hashes] /\ pc \in [Appenders -> PCs \cup {"refused"}]
    BY DEF PCs, Hashes, Genesis
  <2> QED
    BY <1>0, <2>1, <2>2 DEF BackupType
<1>2. LockHeld
  BY NoneAssumption DEF LockHeld
<1> QED
  BY <1>0, <1>1, <1>2
     DEF BackupInv, SeqsAhead, ChainKept, VerifyAuditChain, Below, Filled

(* An insert that finds its seq free.                                       *)
LEMMA InsertKeepsChain ==
  ASSUME BackupInv, NEW t \in Appenders, Insert(t),
         UNCHANGED <<dump, dumps, saved, consumed, head, holes, wipes>>
  PROVE  BackupInv'
<1> DEFINE e == NewEntry(t)
<1> USE DEF BackupInv
<1> Copies' = Copies
  BY DEF Copies
<1>0. /\ rows' = rows \cup {e} /\ nextSeq' = nextSeq + 1
      /\ \A r \in rows : r.seq # nextSeq
      /\ nextSeq \in Nat
  BY DEF Insert, SeqTaken, BackupType
<1>1. /\ e \in Entry /\ e.seq = nextSeq
      /\ e.prev = LastHash(rows) /\ e.hash = Append(e.prev, e.event)
  BY DEF NewEntry, Entry, BackupType, Hashes, Insert, LockHeld
<1> HIDE DEF e
<1>2. rows \in SUBSET Entry
  BY DEF BackupType
<1>3. BackupType'
  <2>1. HasLast(rows')
    BY <1>0, <1>1, <1>2, HasLastExtends DEF BackupType
  <2> QED
    BY <1>0, <1>1, <2>1 DEF Insert, BackupType, PCs
<1>4. LockHeld'
  BY NoneAssumption DEF Insert, LockHeld, BackupType
<1>5. ASSUME VerifyAuditChain(rows), Below(rows, nextSeq)
      PROVE  VerifyAuditChain(rows') /\ Below(rows', nextSeq')
  <2>1. VerifyAuditChain(rows')
    BY <1>0, <1>1, <1>2, <1>5, ChainExtends DEF Below
  <2>2. Below(rows', nextSeq')
    BY <1>0, <1>1, <1>2, <1>5 DEF Below, Entry
  <2> QED
    BY <2>1, <2>2
<1>6. SeqsAhead'
  <2> SUFFICES ASSUME wipes = 0
               PROVE  /\ Below(rows', nextSeq')
                      /\ \A d \in Copies : Below(d.rows, nextSeq')
                      /\ \A u \in Appenders : pc'[u] # "refused"
    BY DEF SeqsAhead
  <2>1. Below(rows', nextSeq')
    BY <1>0, <1>1, <1>2 DEF SeqsAhead, Below, Entry
  <2>2. \A d \in Copies : Below(d.rows, nextSeq')
    BY <1>0 DEF SeqsAhead, Below, BackupType, Copies, Dump, Entry
  <2> QED
    BY <2>1, <2>2 DEF SeqsAhead, Insert, BackupType
<1>7. ChainKept'
  <2> SUFFICES ASSUME wipes = 0 \/ ~holes
               PROVE  VerifyAuditChain(rows') /\ Filled(rows', nextSeq')
    BY DEF ChainKept
  <2>1. VerifyAuditChain(rows) /\ Below(rows, nextSeq)
    BY <1>0, <1>2, FreeIsAbove DEF ChainKept
  <2>2. VerifyAuditChain(rows') /\ Below(rows', nextSeq')
    BY <1>5, <2>1
  <2> QED
    BY <1>0, <1>3, <2>2, BelowIsFilled DEF BackupType
<1> QED
  BY <1>3, <1>4, <1>6, <1>7

(* Steps that leave the log and its copies, though not the sequence, alone. *)
LEMMA LogUntouched ==
  ASSUME BackupInv, UNCHANGED <<rows, dump, dumps, holes, wipes>>,
         saved' \subseteq Appenders, consumed' \subseteq Appenders,
         head' \in Appenders \cup {None},
         nextSeq' \in {nextSeq, nextSeq + 1},
         lock' \in Appenders \cup {None},
         pc' \in [Appenders -> PCs \cup {"refused"}],
         got' \in [Appenders -> Hashes], LockHeld',
         \A t \in Appenders : pc'[t] = "refused" => pc[t] = "refused" \/ SeqTaken
  PROVE  BackupInv'
<1> USE DEF BackupInv
<1> Copies' = Copies
  BY DEF Copies
<1>1. BackupType'
  BY DEF BackupType, HasLast
<1>2. /\ nextSeq \in Nat
      /\ \A r \in rows : r.seq \in Nat
      /\ \A d \in Copies : \A r \in d.rows : r.seq \in Nat
  BY DEF BackupType, Copies, Dump, Entry
<1>3. SeqsAhead'
  BY <1>2 DEF SeqsAhead, Below, SeqTaken
<1>4. ChainKept'
  BY <1>2 DEF ChainKept, Filled
<1> QED
  BY <1>1, <1>3, <1>4

LEMMA LogStepKeepsChain == BackupInv /\ LogStep => BackupInv'
<1> SUFFICES ASSUME BackupInv, LogStep PROVE BackupInv'
  OBVIOUS
<1> USE DEF BackupInv
<1>0. UNCHANGED <<dump, dumps, saved, consumed, head, holes, wipes>>
  BY DEF LogStep
<1> Genesis \in Hashes
  BY DEF Genesis, Hashes
<1>1. CASE Crash
  <2>1. LockHeld'
    BY <1>1, NoneAssumption DEF Crash, LockHeld, BackupType, InFlight
  <2> QED
    BY <1>0, <1>1, <2>1, LogUntouched DEF Crash, BackupType, PCs, InFlight
<1>2. ASSUME NEW t \in Appenders, ReadLast(t) PROVE BackupInv'
  <2>1. LastHash(rows) \in Hashes
    BY LastHashType DEF BackupType
  <2>2. LockHeld'
    BY <1>2, NoneAssumption DEF ReadLast, LockHeld, BackupType
  <2> QED
    BY <1>0, <1>2, <2>1, <2>2, LogUntouched DEF ReadLast, BackupType, PCs
<1>3. ASSUME NEW t \in Appenders, Insert(t) PROVE BackupInv'
  BY <1>0, <1>3, InsertKeepsChain
<1>4. ASSUME NEW t \in Appenders,
             Anchor(t) \/ AnchorFails(t) \/ RaiseAfterCommit(t)
      PROVE  BackupInv'
  <2>1. LockHeld'
    BY <1>4 DEF Anchor, AnchorFails, RaiseAfterCommit, LockHeld, BackupType
  <2> QED
    BY <1>0, <1>4, <2>1, LogUntouched
       DEF Anchor, AnchorFails, RaiseAfterCommit, BackupType, PCs
<1>5. ASSUME NEW t \in Appenders, InsertFails(t) \/ RefuseInsert(t) PROVE BackupInv'
  <2>1. LockHeld'
    BY <1>5, NoneAssumption DEF InsertFails, RefuseInsert, LockHeld, BackupType
  <2> QED
    BY <1>0, <1>5, <2>1, LogUntouched
       DEF InsertFails, RefuseInsert, BackupType, PCs
<1> QED
  BY <1>1, <1>2, <1>3, <1>4, <1>5 DEF LogStep, AppendAudit

(* A step of the backup program that only reads: what it copies of the log  *)
(* it copies in one SELECT.                                                 *)
LEMMA CopyKeepsChain ==
  ASSUME BackupInv,
         UNCHANGED <<rows, saved, consumed, head, nextSeq, lock, pc, got, holes,
                     wipes>>,
         dump' \in Dump, dumps' \subseteq Dump,
         \A c \in Copies' :
           c.rows = {} \/ c.rows = rows \/ \E d \in Copies : c.rows = d.rows
  PROVE  BackupInv'
<1> USE DEF BackupInv
<1>1. VerifyAuditChain({}) /\ HasLast({}) /\ Below({}, nextSeq)
  BY DEF VerifyAuditChain, HasLast, Below
<1>2. BackupType' /\ LockHeld'
  BY <1>1 DEF BackupType, LockHeld
<1>3. SeqsAhead'
  BY <1>1 DEF SeqsAhead
<1>4. ChainKept'
  BY <1>1 DEF ChainKept
<1> QED
  BY <1>2, <1>3, <1>4

LEMMA DumpKeepsChain == BackupInv /\ (DumpTable \/ DumpFails) => BackupInv'
<1> SUFFICES ASSUME BackupInv, DumpTable \/ DumpFails PROVE BackupInv'
  OBVIOUS
<1>1. UNCHANGED <<rows, saved, consumed, head, nextSeq, lock, pc, got, holes,
                 wipes>>
  BY DEF DumpTable, DumpFails, auditVars, tables
<1>2. /\ saved \in SUBSET Appenders /\ consumed \in SUBSET Appenders
      /\ rows \in SUBSET Entry /\ head \in Appenders \cup {None}
      /\ dump \in Dump /\ dumps \subseteq Dump
  BY DEF BackupInv, BackupType
<1>3. NoDump \in Dump /\ NoDump.rows = {}
  BY DEF NoDump, Dump
<1>4. CASE dump' = [NoDump EXCEPT !.saved = saved, !.consumed = consumed]
           /\ UNCHANGED dumps
  <2>1. dump' \in Dump /\ dump'.rows = {}
    BY <1>2, <1>3, <1>4 DEF Dump
  <2> QED
    BY <1>1, <1>2, <1>4, <2>1, CopyKeepsChain DEF Copies
<1>5. CASE dump' = [dump EXCEPT !.rows = rows] /\ UNCHANGED dumps
  <2>1. dump' \in Dump /\ dump'.rows = rows
    BY <1>2, <1>5 DEF Dump
  <2> QED
    BY <1>1, <1>2, <1>5, <2>1, CopyKeepsChain DEF Copies
<1>6. CASE /\ dumps' = dumps \cup {[dump EXCEPT !.head = head]}
           /\ dump' = NoDump
  <2>1. /\ [dump EXCEPT !.head = head] \in Dump
        /\ [dump EXCEPT !.head = head].rows = dump.rows
    BY <1>2 DEF Dump
  <2> QED
    BY <1>1, <1>2, <1>3, <1>6, <2>1, CopyKeepsChain DEF Copies
<1>7. CASE dump' = NoDump /\ UNCHANGED dumps
  BY <1>1, <1>2, <1>3, <1>7, CopyKeepsChain DEF Copies
<1> QED
  BY <1>4, <1>5, <1>6, <1>7 DEF DumpTable, DumpFails

LEMMA BackupNextInv == BackupInv /\ [BackupNext]_backupVars => BackupInv'
<1> SUFFICES ASSUME BackupInv, [BackupNext]_backupVars PROVE BackupInv'
  OBVIOUS
<1> USE DEF BackupInv
<1>1. ASSUME NEW t \in Appenders, SaveReceipt(t) PROVE BackupInv'
  <2>1. LockHeld'
    BY <1>1 DEF SaveReceipt, Call, LockHeld, BackupType
  <2> QED
    BY <1>1, <2>1, LogUntouched DEF SaveReceipt, Call, BackupType, PCs
<1>2. ASSUME NEW t \in Appenders, Execute(t) PROVE BackupInv'
  BY <1>2, LogUntouched DEF Execute, auditVars, BackupType, LockHeld
<1>3. CASE LogStep
  BY <1>3, LogStepKeepsChain
<1>4. CASE DumpTable \/ DumpFails
  BY <1>4, DumpKeepsChain
<1>5. ASSUME NEW d \in dumps, RestoreFromDump(d) PROVE BackupInv'
  <2>1. /\ rows' = d.rows /\ holes' = (holes \/ ~Gapless(d.rows))
        /\ UNCHANGED <<nextSeq, lock, pc, got, dump, dumps, wipes>>
        /\ d \in Copies /\ d \in Dump /\ Copies' = Copies
    BY <1>5 DEF RestoreFromDump, Brought, Copies, BackupType
  <2>2. BackupType'
    BY <1>5, <2>1 DEF RestoreFromDump, BackupType, Dump
  <2>3. LockHeld'
    BY <1>5, <2>1 DEF RestoreFromDump, Stopped, InFlight, LockHeld
  <2>4. SeqsAhead'
    BY <2>1 DEF SeqsAhead
  <2>5. ChainKept'
    <3>1. d.rows \in SUBSET Entry
      BY <2>1 DEF Dump
    <3> QED
      BY <2>1, <3>1, BelowIsFilled, GaplessIsFilled
         DEF ChainKept, SeqsAhead, BackupType
  <2> QED
    BY <2>2, <2>3, <2>4, <2>5
<1>6. CASE Wipe
  <2>1. /\ rows' = {} /\ nextSeq' = 1 /\ wipes' = wipes + 1
        /\ UNCHANGED <<lock, pc, got, dump, dumps, holes>> /\ Copies' = Copies
    BY <1>6 DEF Wipe, Copies
  <2>2. BackupType'
    BY <1>6, <2>1 DEF Wipe, BackupType, HasLast
  <2>3. LockHeld'
    BY <1>6, <2>1 DEF Wipe, Stopped, InFlight, LockHeld
  <2> QED
    BY <2>1, <2>2, <2>3
       DEF SeqsAhead, ChainKept, Filled, VerifyAuditChain, BackupType
<1>7. ASSUME NEW d \in dumps, DropBackup(d) PROVE BackupInv'
  BY <1>7, CopyKeepsChain DEF DropBackup, auditVars, tables, Copies, BackupType
<1>8. CASE UNCHANGED backupVars
  BY <1>8, LogUntouched DEF backupVars, auditVars, BackupType, LockHeld
<1> QED
  BY <1>1, <1>2, <1>3, <1>4, <1>5, <1>6, <1>7, <1>8 DEF BackupNext

LEMMA BackupInvariance == BackupSpec => []BackupInv
BY BackupInitInv, BackupNextInv, PTL DEF BackupSpec

(* Restoring keeps the audit chain verifying, however often the database is *)
(* dumped, lost and restored from one backup or another, if it is not both  *)
(* lost and restored from a backup in which a seq is missing.               *)
THEOREM RestoredChainVerifies == BackupSpec => []ChainSurvives
<1>1. BackupInv => ChainSurvives
  BY DEF BackupInv, ChainKept, ChainSurvives
<1> QED
  BY <1>1, BackupInvariance, PTL

(* A database that is restored in place refuses no entry for its seq.       *)
THEOREM KeptDatabaseAccepts == BackupSpec => []AppendsAcceptedUnlessWiped
<1>1. BackupInv => AppendsAcceptedUnlessWiped
  BY DEF BackupInv, SeqsAhead, AppendsAcceptedUnlessWiped
<1> QED
  BY <1>1, BackupInvariance, PTL

-----------------------------------------------------------------------------
(* Backups: what was spent. *)

(* A receipt is saved once: before, no table and no backup knows it.  One   *)
(* that the table holds unspent was never posted, or revived.               *)
SpendsKept ==
  /\ posts \in [Appenders -> Nat]
  /\ \A r \in Appenders :
       /\ pc[r] = "new" =>
            posts[r] = 0 /\ r \notin saved /\ \A d \in Copies : r \notin d.saved
       /\ r \notin revived =>
            posts[r] <= 1 /\ (r \in saved \ consumed => posts[r] = 0)

LEMMA SpendsNext ==
  BackupInv /\ SpendsKept /\ [BackupNext]_backupVars => SpendsKept'
<1> SUFFICES ASSUME BackupType, SpendsKept, [BackupNext]_backupVars
             PROVE  SpendsKept'
  BY DEF BackupInv
<1>0. dump \in Dump /\ dumps \subseteq Dump
  BY DEF BackupType
<1>1. ASSUME NEW t \in Appenders, SaveReceipt(t) PROVE SpendsKept'
  BY <1>1 DEF SaveReceipt, Call, SpendsKept, BackupType, Copies
<1>2. ASSUME NEW t \in Appenders, Execute(t) PROVE SpendsKept'
  BY <1>2 DEF Execute, SpendsKept, Copies, auditVars
<1>3. CASE LogStep
  <2>1. UNCHANGED <<saved, consumed, dump, dumps, posts, revived>>
    BY <1>3 DEF LogStep
  <2>2. \A r \in Appenders : pc'[r] = "new" => pc[r] = "new"
    BY <1>3 DEF LogStep, Crash, AppendAudit, ReadLast, Insert, Anchor, AnchorFails,
                RaiseAfterCommit, InsertFails, RefuseInsert, BackupType
  <2> QED
    BY <2>1, <2>2 DEF SpendsKept, Copies
<1>4. CASE DumpTable \/ DumpFails
  <2>1. UNCHANGED <<pc, saved, consumed, posts, revived>>
    BY <1>4 DEF DumpTable, DumpFails, auditVars, tables
  <2>2. \A c \in Copies' :
          c.saved = {} \/ c.saved = saved \/ \E d \in Copies : c.saved = d.saved
    <3>1. [NoDump EXCEPT !.saved = saved, !.consumed = consumed].saved = saved
          /\ NoDump.saved = {}
      BY DEF NoDump
    <3>2. /\ [dump EXCEPT !.rows = rows].saved = dump.saved
          /\ [dump EXCEPT !.head = head].saved = dump.saved
      BY <1>0 DEF Dump
    <3> QED
      BY <1>4, <3>1, <3>2 DEF DumpTable, DumpFails, Copies
  <2> QED
    BY <2>1, <2>2 DEF SpendsKept
<1>5. ASSUME NEW d \in dumps, RestoreFromDump(d) PROVE SpendsKept'
  <2>1. /\ saved' = d.saved /\ consumed' = d.consumed
        /\ revived' = revived \cup {r \in d.saved \ d.consumed : posts[r] > 0}
        /\ UNCHANGED <<pc, posts>> /\ d \in Copies /\ Copies' = Copies
    BY <1>5 DEF RestoreFromDump, Brought, Copies
  <2> QED
    BY <2>1 DEF SpendsKept
<1>6. CASE Wipe
  BY <1>6 DEF Wipe, SpendsKept, Copies
<1>7. ASSUME NEW d \in dumps, DropBackup(d) PROVE SpendsKept'
  BY <1>7 DEF DropBackup, auditVars, tables, SpendsKept, Copies
<1>8. CASE UNCHANGED backupVars
  BY <1>8 DEF backupVars, auditVars, SpendsKept, Copies
<1> QED
  BY <1>1, <1>2, <1>3, <1>4, <1>5, <1>6, <1>7, <1>8 DEF BackupNext

(* Every receipt is spent once, unless it was restored as unspent, through  *)
(* any number of backups, losses and restores.                              *)
THEOREM SpendsSurvive == BackupSpec => []DumpedSpendsHold
<1>1. BackupInit => SpendsKept
  BY DEF BackupInit, Init, NoDump, SpendsKept, Copies
<1>2. SpendsKept => DumpedSpendsHold
  BY DEF SpendsKept, DumpedSpendsHold
<1> QED
  BY <1>1, <1>2, BackupInvariance, SpendsNext, PTL DEF BackupSpec
=============================================================================
