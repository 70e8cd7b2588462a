------------------------- MODULE HandoverProofProofs -------------------------
(***************************************************************************)
(* Theorems about the audit ledger and the proofs that are built on it, for*)
(* any writers, jobs, bundles, keys and bounds.                            *)
(***************************************************************************)
EXTENDS HandoverProof, FiniteSetTheorems, SequenceTheorems, TLAPS

StoredRecord ==
  [kind : Kind, id : {j.id : j \in Job}, version : Nat, auditSequence : Nat]

LedgerTyped ==
  /\ ledger \in Seq(AuditEntry)
  /\ rows \subseteq StoredRecord /\ IsFiniteSet(rows)
  /\ call \in [Writer -> AuditTx \cup {None}]
  /\ lock \in Writer \cup {None}

Locked == {"append", "record", "commit"}

\* A transaction holds the lock from LockAuditLedger to its end, and no other
\* one does.
LockOK == \A w \in Writer : lock = w <=> call[w] # None /\ call[w].step \in Locked

\* What a transaction knows.  It may have seen an old ledger, but from the
\* moment it has inserted its entry it has seen all of it; and once it has
\* changed its row the stored version is the one before its own.
TxOK(c) ==
  /\ c.step = "row" => c.job.kind \in RowFirst
  /\ c.job.kind \in RowFirst => c.view \in 0 .. Len(ledger)
  /\ c.job.kind \notin RowFirst =>
       c.view = IF c.step = "lock" THEN None ELSE Len(ledger)
  /\ c.entry # None =>
       /\ c.entry.kind = c.job.kind /\ c.entry.recordRoot = c.job
       /\ c.entry.occurredAt = c.job.at
  /\ c.step \in {"record", "commit"} =>
       c.entry # None /\ Follows(c.entry, c.view) /\ c.view = Len(ledger)
  /\ c.step = "commit" => ~AlreadyRecorded(c.job)
  /\ c.job.kind \in RowFirst /\ c.step # "row" => c.job.version = StoredVersion(c.job) + 1

\* Two transactions have not both changed the row of one record.
RowsExclusive ==
  \A w, x \in Writer :
    w # x /\ call[w] # None /\ call[x] # None =>
      ~(/\ call[w].step # "row" /\ call[x].step # "row"
        /\ call[w].job.kind \in RowFirst /\ SameRecord(call[x].job, call[w].job))

\* The stored version of a row is the last one.
VersionsOK == \A r \in rows : r.kind \in RowFirst => r.version <= StoredVersion(r)

LedgerInv ==
  /\ LedgerTyped
  /\ LockOK
  /\ \A w \in Writer : call[w] # None => TxOK(call[w])
  /\ RowsExclusive
  /\ LedgerAccountsForRecords
  /\ VersionsOK

-----------------------------------------------------------------------------
\* Facts about entries: the root of an entry is never the zero root, and the
\* entry that auditHeadLocked and NewEntry make is well-formed.
LEMMA RootTyped ==
  ASSUME NEW e \in AuditEntry
  PROVE  Root(e) \in Seq(Nat \X Kind \X Job \X Nat) /\ Root(e) # <<>>
<1> DEFINE h == <<e.sequence, e.kind, e.recordRoot, e.occurredAt>>
<1>1. e.previousRoot \in Seq(Nat \X Kind \X Job \X Nat) /\ h \in Nat \X Kind \X Job \X Nat
  BY DEF AuditEntry
<1> HIDE DEF h
<1>2. Root(e) = Append(e.previousRoot, h)
  BY DEF Root, h
<1> QED BY <1>1, <1>2, AppendProperties, EmptySeq

\* The head of a ledger; only the empty one has the genesis head.
LEMMA HeadTyped ==
  ASSUME ledger \in Seq(AuditEntry), NEW n \in 0 .. Len(ledger)
  PROVE  /\ HeadRoot(n) \in Seq(Nat \X Kind \X Job \X Nat)
         /\ HeadRoot(n) = <<>> <=> n = 0
<1>1. CASE n = 0
  BY <1>1 DEF HeadRoot
<1>2. CASE n # 0
  <2>1. ledger[n] \in AuditEntry
    BY <1>2, ElementOfSeq
  <2> QED BY <1>2, <2>1, RootTyped DEF HeadRoot
<1> QED BY <1>1, <1>2

\* The entry nextAuditEntry makes is well formed and follows the head.
LEMMA EntryTyped ==
  ASSUME ledger \in Seq(AuditEntry), NEW n \in 0 .. Len(ledger), NEW j \in Job
  PROVE  LET e == NextAuditEntry(n, j)
         IN  /\ e \in AuditEntry /\ Follows(e, n)
             /\ e.kind = j.kind /\ e.recordRoot = j /\ e.occurredAt = j.at
<1>1. HeadRoot(n) \in Seq(Nat \X Kind \X Job \X Nat)
  BY HeadTyped
<1>2. j.kind \in Kind /\ j.at \in Nat /\ n + 1 \in Nat
  BY JobAssumption
<1> QED BY <1>1, <1>2 DEF NextAuditEntry, NewEntry, AuditEntry, Follows

\* A transaction that runs is a transaction.
LEMMA RunningTyped ==
  ASSUME LedgerInv, NEW w \in Writer, call[w] # None
  PROVE  call[w] \in AuditTx /\ call[w].job \in Job /\ TxOK(call[w])
BY DEF LedgerInv, LedgerTyped, AuditTx

-----------------------------------------------------------------------------
\* A step of one transaction that commits nothing.
LEMMA TxMoves ==
  ASSUME LedgerInv, NEW w \in Writer, NEW c \in AuditTx,
         UNCHANGED <<ledger, rows>>, call' = [call EXCEPT ![w] = c],
         TxOK(c), c.step # "row" => ~RowBusy(w, c.job),
         \/ lock' = lock /\ (lock = w <=> c.step \in Locked)
         \/ lock = None /\ lock' = w /\ c.step \in Locked
  PROVE  LedgerInv'
<1>1. c # None /\ call'[w] = c /\ \A x \in Writer \ {w} : call'[x] = call[x]
  BY NoneAssumption DEF LedgerInv, LedgerTyped
<1>2. LedgerTyped'
  BY DEF LedgerInv, LedgerTyped
<1>3. LockOK'
  BY <1>1, NoneAssumption DEF LedgerInv, LockOK
<1>4. ASSUME NEW x \in Writer, call'[x] # None PROVE TxOK(call[x])'
  <2>1. TxOK(call'[x])
    BY <1>1, <1>4 DEF LedgerInv
  <2> QED BY <2>1 DEF TxOK, Follows, HeadRoot, AlreadyRecorded, StoredVersion
<1>5. RowsExclusive'
  <2>1. ASSUME NEW x \in Writer, NEW y \in Writer, x # y, call'[x] # None, call'[y] # None,
               call'[x].step # "row", call'[y].step # "row",
               call'[x].job.kind \in RowFirst, SameRecord(call'[y].job, call'[x].job)
        PROVE  FALSE
    <3>1. CASE x # w /\ y # w
      BY <1>1, <2>1, <3>1 DEF LedgerInv, RowsExclusive
    <3>2. CASE x = w
      BY <1>1, <2>1, <3>2 DEF RowBusy
    <3>3. CASE y = w
      BY <1>1, <2>1, <3>3 DEF RowBusy, SameRecord
    <3> QED BY <3>1, <3>2, <3>3
  <2> QED BY <2>1 DEF RowsExclusive, SameRecord
<1>6. LedgerAccountsForRecords'
  BY DEF LedgerInv, LedgerAccountsForRecords, OneChain, SameRecord, Root, ValidEntry
<1>7. VersionsOK'
  BY DEF LedgerInv, VersionsOK, StoredVersion, SameRecord
<1> QED BY <1>2, <1>3, <1>4, <1>5, <1>6, <1>7 DEF LedgerInv

\* A transaction that is rolled back.
LEMMA RollbackKeepsInv ==
  ASSUME LedgerInv, NEW w \in Writer, Rollback(w)
  PROVE  LedgerInv'
<1>1. call'[w] = None /\ \A x \in Writer \ {w} : call'[x] = call[x]
  BY DEF Rollback, LedgerInv, LedgerTyped
<1>2. LedgerTyped'
  BY DEF Rollback, LedgerInv, LedgerTyped
<1>3. LockOK'
  BY <1>1, NoneAssumption DEF Rollback, LedgerInv, LockOK
<1>4. ASSUME NEW x \in Writer, call'[x] # None PROVE TxOK(call[x])'
  <2>1. TxOK(call'[x])
    BY <1>1, <1>4 DEF LedgerInv
  <2> QED BY <2>1 DEF Rollback, TxOK, Follows, HeadRoot, AlreadyRecorded, StoredVersion
<1>5. RowsExclusive'
  BY <1>1 DEF LedgerInv, RowsExclusive, SameRecord
<1>6. LedgerAccountsForRecords'
  BY DEF Rollback, LedgerInv, LedgerAccountsForRecords, OneChain, SameRecord, Root, ValidEntry
<1>7. VersionsOK'
  BY DEF Rollback, LedgerInv, VersionsOK, StoredVersion, SameRecord
<1> QED BY <1>2, <1>3, <1>4, <1>5, <1>6, <1>7 DEF LedgerInv

\* Beginning a transaction keeps the invariant.
LEMMA BeginKeepsInv ==
  ASSUME LedgerInv, NEW w \in Writer, NEW j \in Job, BeginTx(w, j)
  PROVE  LedgerInv'
<1> DEFINE n == Len(ledger)
           c == [job |-> j, entry |-> IF j.kind = "append" THEN NextAuditEntry(n, j) ELSE None,
                 step |-> IF j.kind \in RowFirst THEN "row" ELSE "lock",
                 view |-> IF j.kind \in RowFirst THEN n ELSE None]
<1>1. ledger \in Seq(AuditEntry) /\ n \in Nat /\ n \in 0 .. n
  BY LenProperties DEF LedgerInv, LedgerTyped
<1>2. j.kind = "append" =>
        /\ NextAuditEntry(n, j) \in AuditEntry
        /\ NextAuditEntry(n, j).kind = j.kind /\ NextAuditEntry(n, j).recordRoot = j
        /\ NextAuditEntry(n, j).occurredAt = j.at
  BY <1>1, EntryTyped
<1>3. UNCHANGED <<ledger, rows, lock>> /\ call' = [call EXCEPT ![w] = c] /\ call[w] = None
  BY DEF BeginTx
<1>4. c \in AuditTx
  BY <1>1, <1>2 DEF AuditTx
<1>5. TxOK(c)
  BY <1>1, <1>2 DEF TxOK, RowFirst
<1>6. c.step # "row" => ~RowBusy(w, c.job)
  BY DEF RowBusy
<1>7. lock # w /\ c.step \notin Locked
  BY <1>3 DEF LedgerInv, LockOK, Locked
<1> HIDE DEF c
<1> QED BY <1>3, <1>4, <1>5, <1>6, <1>7, TxMoves

\* Writing the row of the record keeps it.
LEMMA PersistKeepsInv ==
  ASSUME LedgerInv, NEW w \in Writer, PersistSnapshot(w)
  PROVE  LedgerInv'
<1> DEFINE c == [call[w] EXCEPT !.step = "lock"]
<1>1. call[w] # None /\ call[w].step = "row" /\ ~RowBusy(w, call[w].job)
  BY DEF PersistSnapshot, Running
<1>2. call[w] \in AuditTx /\ TxOK(call[w]) /\ call[w].job.kind \in RowFirst
  BY <1>1, RunningTyped DEF TxOK
<1>3. CASE Rollback(w)
  BY <1>3, RollbackKeepsInv
<1>4. CASE /\ call[w].job.version = StoredVersion(call[w].job) + 1
           /\ Proceed(w, c) /\ UNCHANGED <<ledger, rows, lock>>
  <2>1. c \in AuditTx /\ c.step = "lock" /\ c.job = call[w].job /\ c.view = call[w].view
        /\ c.entry = call[w].entry
    BY <1>2 DEF AuditTx
  <2>2. lock # w
    BY <1>1 DEF LedgerInv, LockOK, Locked
  <2> HIDE DEF c
  <2>3. TxOK(c)
    BY <1>2, <1>4, <2>1 DEF TxOK
  <2> QED BY <1>1, <1>4, <2>1, <2>2, <2>3, TxMoves DEF Proceed, Locked
<1> QED BY <1>3, <1>4 DEF PersistSnapshot

\* A transaction past its row is the only one on that row.
LEMMA NotBusy ==
  ASSUME LedgerInv, NEW w \in Writer, call[w] # None, call[w].step # "row"
  PROVE  ~RowBusy(w, call[w].job)
BY DEF LedgerInv, RowsExclusive, RowBusy

\* lockAuditLedger keeps it: what is read under the lock is the head.
LEMMA LockKeepsInv ==
  ASSUME LedgerInv, NEW w \in Writer, LockAuditLedger(w)
  PROVE  LedgerInv'
<1> DEFINE v == IF call[w].view = None THEN Len(ledger) ELSE call[w].view
           c == [call[w] EXCEPT !.step = "append", !.view = v]
<1>1. call[w] # None /\ call[w].step = "lock"
  BY DEF LockAuditLedger, Running
<1>2. call[w] \in AuditTx /\ TxOK(call[w]) /\ Len(ledger) \in Nat
  BY <1>1, RunningTyped, LenProperties DEF LedgerInv, LedgerTyped
<1>3. lock = None /\ lock' = w /\ call' = [call EXCEPT ![w] = c] /\ UNCHANGED <<ledger, rows>>
  BY DEF LockAuditLedger, Proceed
<1>4. /\ c \in AuditTx /\ c.step = "append" /\ c.job = call[w].job /\ c.view = v
      /\ c.entry = call[w].entry
  BY <1>2 DEF AuditTx
<1> HIDE DEF c
<1>5. TxOK(c)
  <2>1. call[w].job.kind \in RowFirst => v = call[w].view /\ v \in 0 .. Len(ledger)
    BY <1>2, NoneAssumption DEF TxOK
  <2>2. call[w].job.kind \notin RowFirst => v = Len(ledger)
    BY <1>1, <1>2 DEF TxOK
  <2> HIDE DEF v
  <2> QED BY <1>1, <1>2, <1>4, <2>1, <2>2 DEF TxOK
<1>6. ~RowBusy(w, c.job)
  BY <1>1, <1>4, NotBusy
<1> QED BY <1>3, <1>4, <1>5, <1>6, TxMoves DEF Locked

\* The primary key refuses an entry that was made from an old view.
LEMMA FreeIsNext ==
  ASSUME LedgerInv, NEW n \in 0 .. Len(ledger), NEW e, Follows(e, n), FreeSequence(e)
  PROVE  n = Len(ledger)
<1>1. Len(ledger) \in Nat
  BY LenProperties DEF LedgerInv, LedgerTyped
<1>2. n < Len(ledger) => ledger[n + 1].sequence = n + 1
  BY <1>1 DEF LedgerInv, LedgerAccountsForRecords, OneChain
<1> QED BY <1>1, <1>2 DEF Follows, FreeSequence

\* insertAuditEntry keeps it.
LEMMA InsertEntryKeepsInv ==
  ASSUME LedgerInv, NEW w \in Writer, InsertAuditEntry(w)
  PROVE  LedgerInv'
<1> DEFINE e == IF call[w].entry = None THEN NextAuditEntry(call[w].view, call[w].job)
                ELSE call[w].entry
           c == [call[w] EXCEPT !.step = "record", !.entry = e]
<1>1. call[w] # None /\ call[w].step = "append"
  BY DEF InsertAuditEntry, Running
<1>2. /\ call[w] \in AuditTx /\ call[w].job \in Job /\ TxOK(call[w])
      /\ ledger \in Seq(AuditEntry) /\ Len(ledger) \in Nat
  BY <1>1, RunningTyped, LenProperties DEF LedgerInv, LedgerTyped
<1>3. call[w].view \in 0 .. Len(ledger)
  BY <1>1, <1>2 DEF TxOK
<1>4. /\ e \in AuditEntry /\ e.kind = call[w].job.kind /\ e.recordRoot = call[w].job
      /\ e.occurredAt = call[w].job.at
  <2>1. CASE call[w].entry = None
    BY <1>2, <1>3, <2>1, EntryTyped
  <2>2. CASE call[w].entry # None
    BY <1>2, <2>2 DEF AuditTx, TxOK
  <2> QED BY <2>1, <2>2
<1>5. \/ /\ Follows(e, call[w].view) /\ FreeSequence(e)
         /\ Proceed(w, c) /\ UNCHANGED <<ledger, rows, lock>>
      \/ Rollback(w)
  BY DEF InsertAuditEntry
<1> HIDE DEF e
<1>6. CASE /\ Follows(e, call[w].view) /\ FreeSequence(e)
           /\ Proceed(w, c) /\ UNCHANGED <<ledger, rows, lock>>
  <2>1. call[w].view = Len(ledger)
    BY <1>3, <1>6, FreeIsNext
  <2>2. /\ c \in AuditTx /\ c.step = "record" /\ c.job = call[w].job
        /\ c.view = call[w].view /\ c.entry = e
    BY <1>2, <1>4 DEF AuditTx
  <2> HIDE DEF c
  <2>3. TxOK(c)
    BY <1>1, <1>2, <1>3, <1>4, <1>6, <2>1, <2>2, NoneAssumption DEF TxOK
  <2>4. ~RowBusy(w, c.job) /\ lock = w
    BY <1>1, <2>2, NotBusy DEF LedgerInv, LockOK, Locked
  <2> QED BY <1>6, <2>2, <2>3, <2>4, TxMoves DEF Proceed, Locked
<1> QED BY <1>5, <1>6, RollbackKeepsInv

\* Inserting the record beside its entry keeps it.
LEMMA InsertRecordKeepsInv ==
  ASSUME LedgerInv, NEW w \in Writer, InsertRecord(w)
  PROVE  LedgerInv'
<1> DEFINE c == [call[w] EXCEPT !.step = "commit"]
<1>1. call[w] # None /\ call[w].step = "record"
  BY DEF InsertRecord, Running
<1>2. call[w] \in AuditTx /\ TxOK(call[w])
  BY <1>1, RunningTyped
<1>3. CASE ~AlreadyRecorded(call[w].job) /\ Proceed(w, c) /\ UNCHANGED <<ledger, rows, lock>>
  <2>1. /\ c \in AuditTx /\ c.step = "commit" /\ c.job = call[w].job
        /\ c.view = call[w].view /\ c.entry = call[w].entry
    BY <1>2 DEF AuditTx
  <2> HIDE DEF c
  <2>2. TxOK(c)
    BY <1>1, <1>2, <1>3, <2>1 DEF TxOK
  <2>3. ~RowBusy(w, c.job) /\ lock = w
    BY <1>1, <2>1, NotBusy DEF LedgerInv, LockOK, Locked
  <2> QED BY <1>3, <2>1, <2>2, <2>3, TxMoves DEF Proceed, Locked
<1> QED BY <1>3, RollbackKeepsInv DEF InsertRecord

\* Commit, seen from the ledger and the records: one entry at the end, and for
\* all jobs but "append" one new record, bound to it.
LEMMA CommitAppends ==
  ASSUME LedgerInv, NEW w \in Writer, Commit(w)
  PROVE  LET n == Len(ledger) + 1  e == call[w].entry  j == call[w].job
             r == [kind |-> j.kind, id |-> j.id, version |-> j.version, auditSequence |-> n]
         IN  /\ n \in Nat /\ j \in Job /\ TxOK(call[w]) /\ lock = w
             /\ call[w] # None /\ call[w].step = "commit"
             /\ e \in AuditEntry /\ e.sequence = n /\ e.previousRoot = HeadRoot(n - 1)
             /\ e.kind = j.kind /\ e.recordRoot = j /\ e.occurredAt = j.at
             /\ ledger' \in Seq(AuditEntry) /\ Len(ledger') = n
             /\ ledger'[n] = e /\ \A i \in 1 .. n - 1 : ledger'[i] = ledger[i]
             /\ r \in StoredRecord
             /\ rows' = IF j.kind = "append" THEN rows ELSE rows \cup {r}
             /\ \A s \in rows : s.auditSequence \in 1 .. n - 1
<1>1. call[w] # None /\ call[w].step = "commit"
  BY DEF Commit, Running
<1>2. /\ call[w] \in AuditTx /\ call[w].job \in Job /\ TxOK(call[w])
      /\ ledger \in Seq(AuditEntry) /\ Len(ledger) \in Nat /\ lock = w
  BY <1>1, RunningTyped, LenProperties DEF LedgerInv, LedgerTyped, LockOK, Locked
<1>3. call[w].entry # None /\ Follows(call[w].entry, Len(ledger))
  BY <1>1, <1>2 DEF TxOK
<1>4. /\ call[w].entry \in AuditEntry /\ call[w].entry.kind = call[w].job.kind
      /\ call[w].entry.recordRoot = call[w].job /\ call[w].entry.occurredAt = call[w].job.at
  BY <1>2, <1>3 DEF AuditTx, TxOK
<1>5. /\ call[w].entry.sequence = Len(ledger) + 1
      /\ call[w].entry.previousRoot = HeadRoot(Len(ledger))
  BY <1>3 DEF Follows
<1>6. /\ ledger' = Append(ledger, call[w].entry)
      /\ rows' = IF call[w].job.kind = "append" THEN rows
                 ELSE rows \cup {[kind |-> call[w].job.kind, id |-> call[w].job.id,
                                  version |-> call[w].job.version,
                                  auditSequence |-> call[w].entry.sequence]}
  BY DEF Commit
<1>7. /\ ledger' \in Seq(AuditEntry) /\ Len(ledger') = Len(ledger) + 1
      /\ ledger'[Len(ledger) + 1] = call[w].entry
      /\ \A i \in 1 .. Len(ledger) : ledger'[i] = ledger[i]
  BY <1>2, <1>4, <1>6, AppendProperties
<1>8. \A s \in rows : s.auditSequence \in 1 .. Len(ledger)
  BY DEF LedgerInv, LedgerAccountsForRecords
<1>9. [kind |-> call[w].job.kind, id |-> call[w].job.id, version |-> call[w].job.version,
       auditSequence |-> Len(ledger) + 1] \in StoredRecord
  BY <1>2, JobAssumption DEF StoredRecord
<1>10. Len(ledger) + 1 \in Nat /\ Len(ledger) + 1 - 1 = Len(ledger)
  BY <1>2
<1> QED BY <1>1, <1>2, <1>4, <1>5, <1>6, <1>7, <1>8, <1>9, <1>10

\* How many versions a record has after Commit.
LEMMA CommitCounts ==
  ASSUME LedgerInv, NEW w \in Writer, Commit(w), NEW x
  PROVE  /\ StoredVersion(x) \in Nat
         /\ StoredVersion(x)' = IF call[w].job.kind # "append" /\ SameRecord(call[w].job, x)
                                THEN StoredVersion(x) + 1 ELSE StoredVersion(x)
<1> DEFINE n == Len(ledger) + 1
           j == call[w].job
           r == [kind |-> j.kind, id |-> j.id, version |-> j.version, auditSequence |-> n]
           S == {s \in rows : SameRecord(s, x)}
           T1 == {s \in rows' : SameRecord(s, x)}
<1>1. /\ rows' = IF j.kind = "append" THEN rows ELSE rows \cup {r}
      /\ \A s \in rows : s.auditSequence \in 1 .. n - 1
      /\ n \in Nat /\ r.auditSequence = n /\ SameRecord(r, x) = SameRecord(j, x)
  BY CommitAppends DEF SameRecord
<1>2. IsFiniteSet(S) /\ Cardinality(S) \in Nat
  BY FS_Subset, FS_CardinalityType DEF LedgerInv, LedgerTyped
<1>3. r \notin S
  BY <1>1
<1>4. /\ StoredVersion(x) = Cardinality(S) + IF x.kind = "handover" THEN 1 ELSE 0
      /\ StoredVersion(x)' = Cardinality(T1) + IF x.kind = "handover" THEN 1 ELSE 0
  BY DEF StoredVersion, SameRecord
<1> HIDE DEF r, j, n
<1>5. T1 = IF j.kind # "append" /\ SameRecord(j, x) THEN S \cup {r} ELSE S
  BY <1>1
<1> HIDE DEF S, T1
<1>6. Cardinality(S \cup {r}) = Cardinality(S) + 1
  BY <1>2, <1>3, FS_AddElement
<1> QED BY <1>2, <1>4, <1>5, <1>6 DEF j

\* The chain grows by an entry that follows its head.
LEMMA CommitKeepsChain ==
  ASSUME LedgerInv, NEW w \in Writer, Commit(w)
  PROVE  OneChain'
<1> DEFINE n == Len(ledger) + 1
           e == call[w].entry
<1>1. /\ n \in Nat /\ n - 1 \in Nat /\ n > 0 /\ Len(ledger') = n
      /\ ledger'[n] = e /\ \A i \in 1 .. n - 1 : ledger'[i] = ledger[i]
      /\ e.sequence = n /\ e.previousRoot = HeadRoot(n - 1)
      /\ e.kind \in Kind /\ e.occurredAt > 0
  <2>1. call[w].job.kind \in Kind /\ call[w].job.at \in Nat \ {0} /\ Len(ledger) \in Nat
    BY CommitAppends, JobAssumption, LenProperties DEF LedgerInv, LedgerTyped
  <2>2. n - 1 \in Nat /\ n > 0
    BY <2>1
  <2>3. /\ n \in Nat /\ Len(ledger') = n
        /\ ledger'[n] = e /\ \A i \in 1 .. n - 1 : ledger'[i] = ledger[i]
        /\ e.sequence = n /\ e.previousRoot = HeadRoot(n - 1)
        /\ e.kind = call[w].job.kind /\ e.occurredAt = call[w].job.at
    BY CommitAppends
  <2> HIDE DEF n, e
  <2> QED BY <2>1, <2>2, <2>3
<1>2. e.previousRoot = <<>> <=> n = 1
  <2>1. HeadRoot(n - 1) = <<>> <=> n - 1 = 0
    BY <1>1, HeadTyped DEF LedgerInv, LedgerTyped
  <2> QED BY <1>1, <2>1
<1>3. e.previousRoot = IF n = 1 THEN <<>> ELSE Root(ledger[n - 1])
  BY <1>1 DEF HeadRoot
<1>4. Len(ledger) = n - 1
  BY <1>1
<1> HIDE DEF n, e
<1>5. ASSUME NEW i \in 1 .. n
      PROVE  /\ ValidEntry(ledger'[i]) /\ ledger'[i].sequence = i
             /\ ledger'[i].previousRoot = IF i = 1 THEN <<>> ELSE Root(ledger'[i - 1])
  <2>1. CASE i = n
    <3>1. i # 1 => ledger'[i - 1] = ledger[i - 1]
      BY <1>1, <2>1
    <3> QED BY <1>1, <1>2, <1>3, <2>1, <3>1 DEF ValidEntry
  <2>2. CASE i # n
    <3>1. i \in 1 .. n - 1 /\ ledger'[i] = ledger[i] /\ (i # 1 => ledger'[i - 1] = ledger[i - 1])
      BY <1>1, <2>2
    <3>2. /\ ValidEntry(ledger[i]) /\ ledger[i].sequence = i
          /\ ledger[i].previousRoot = IF i = 1 THEN <<>> ELSE Root(ledger[i - 1])
      BY <1>4, <3>1 DEF LedgerInv, LedgerAccountsForRecords, OneChain
    <3> QED BY <3>1, <3>2
  <2> QED BY <2>1, <2>2
<1> QED BY <1>1, <1>5 DEF OneChain, ValidEntry, Root

\* The records stay accounted for.
LEMMA CommitKeepsAccount ==
  ASSUME LedgerInv, NEW w \in Writer, Commit(w)
  PROVE  LedgerAccountsForRecords'
<1> DEFINE n == Len(ledger) + 1
           e == call[w].entry
           j == call[w].job
           r == [kind |-> j.kind, id |-> j.id, version |-> j.version, auditSequence |-> n]
<1>1. /\ n \in Nat /\ Len(ledger') = n /\ Len(ledger) = n - 1
      /\ ledger'[n] = e /\ \A i \in 1 .. n - 1 : ledger'[i] = ledger[i]
      /\ e.kind = j.kind /\ e.recordRoot = j /\ j \in Job
      /\ rows' = IF j.kind = "append" THEN rows ELSE rows \cup {r}
      /\ \A s \in rows : s.auditSequence \in 1 .. n - 1
  <2>1. Len(ledger) \in Nat /\ Len(ledger) = n - 1
    BY LenProperties DEF LedgerInv, LedgerTyped
  <2>2. /\ n \in Nat /\ Len(ledger') = n
        /\ ledger'[n] = e /\ \A i \in 1 .. n - 1 : ledger'[i] = ledger[i]
        /\ e.kind = j.kind /\ e.recordRoot = j /\ j \in Job
        /\ rows' = IF j.kind = "append" THEN rows ELSE rows \cup {r}
        /\ \A s \in rows : s.auditSequence \in 1 .. n - 1
    BY CommitAppends
  <2> HIDE DEF n, e, j, r
  <2> QED BY <2>1, <2>2
<1>2. n \in 1 .. n
  <2>1. Len(ledger) \in Nat
    BY LenProperties DEF LedgerInv, LedgerTyped
  <2> QED BY <2>1
<1>3. r.auditSequence = n /\ r.version = j.version /\ r.kind = j.kind /\ r.id = j.id
  OBVIOUS
<1>4. j.kind # "append" => \A s \in rows : SameRecord(s, r) => s.version # r.version
  <2>1. SUFFICES ASSUME j.kind # "append", NEW s \in rows, SameRecord(s, r)
                 PROVE  s.version # r.version
    OBVIOUS
  <2>2. s \in StoredRecord /\ s.version \in Nat /\ call[w].step = "commit" /\ TxOK(call[w])
    BY CommitAppends DEF LedgerInv, LedgerTyped, StoredRecord
  <2>3. CASE j.kind \in RowFirst
    <3>1. j.version = StoredVersion(j) + 1 /\ StoredVersion(j) \in Nat
      BY <2>2, <2>3, CommitCounts DEF TxOK
    <3>2. s.version <= StoredVersion(s) /\ StoredVersion(s) = StoredVersion(j)
      BY <2>1, <2>3, <1>3 DEF LedgerInv, VersionsOK, StoredVersion, SameRecord
    <3> HIDE DEF r, j
    <3> QED BY <1>3, <2>2, <3>1, <3>2
  <2>4. CASE j.kind \in LockFirst
    BY <1>3, <2>1, <2>2, <2>4 DEF TxOK, AlreadyRecorded, SameRecord
  <2> QED BY <1>1, <2>1, <2>3, <2>4, JobAssumption DEF Kind
<1> HIDE DEF n, e, j, r
<1>5. \A s \in rows' : \E k \in Job :
        /\ SameRecord(s, k) /\ s.version = k.version
        /\ s.auditSequence \in 1 .. n /\ ledger'[s.auditSequence].recordRoot = k
  <2>1. ASSUME NEW s \in rows
        PROVE  \E k \in Job :
                 /\ SameRecord(s, k) /\ s.version = k.version
                 /\ s.auditSequence \in 1 .. n /\ ledger'[s.auditSequence].recordRoot = k
    <3>1. PICK k \in Job :
            /\ SameRecord(s, k) /\ s.version = k.version
            /\ s.auditSequence \in 1 .. n - 1 /\ ledger[s.auditSequence].recordRoot = k
      BY <1>1 DEF LedgerInv, LedgerAccountsForRecords
    <3> QED BY <1>1, <3>1
  <2>2. \E k \in Job :
           /\ SameRecord(r, k) /\ r.version = k.version
           /\ r.auditSequence \in 1 .. n /\ ledger'[r.auditSequence].recordRoot = k
    BY <1>1, <1>2, <1>3 DEF SameRecord
  <2> QED BY <1>1, <2>1, <2>2
<1>6. ASSUME NEW i \in 1 .. n, ledger'[i].kind # "append"
      PROVE  Cardinality({s \in rows' : s.auditSequence = i}) = 1
  <2>1. CASE i = n
    <3>1. {s \in rows' : s.auditSequence = i} = {r}
      BY <1>1, <1>3, <1>6, <2>1
    <3> QED BY <3>1, FS_Singleton
  <2>2. CASE i # n
    <3>1. i \in 1 .. n - 1
      BY <1>1, <2>2
    <3>2. {s \in rows' : s.auditSequence = i} = {s \in rows : s.auditSequence = i}
      BY <1>1, <1>3, <2>2
    <3>3. Cardinality({s \in rows : s.auditSequence = i}) = 1
      BY <1>1, <1>6, <3>1 DEF LedgerInv, LedgerAccountsForRecords
    <3> QED BY <3>2, <3>3
  <2> QED BY <2>1, <2>2
<1>7. \A s, t \in rows' : SameRecord(s, t) /\ s.version = t.version => s = t
  <2>1. \A s, t \in rows : SameRecord(s, t) /\ s.version = t.version => s = t
    BY DEF LedgerInv, LedgerAccountsForRecords
  <2> QED BY <1>1, <1>4, <2>1 DEF SameRecord
<1> QED BY <1>1, <1>5, <1>6, <1>7, CommitKeepsChain DEF LedgerAccountsForRecords, SameRecord

\* A commit keeps it: the entry and its record appear together.
LEMMA CommitKeepsInv ==
  ASSUME LedgerInv, NEW w \in Writer, Commit(w)
  PROVE  LedgerInv'
<1> DEFINE j == call[w].job
<1>1. /\ call' = [call EXCEPT ![w] = None] /\ lock' = None /\ lock = w
      /\ call[w] # None /\ call[w].step = "commit" /\ j \in Job
      /\ j.kind # "append" => rows' = rows \cup {[kind |-> j.kind, id |-> j.id,
                                version |-> j.version, auditSequence |-> Len(ledger) + 1]}
      /\ j.kind = "append" => rows' = rows
  BY CommitAppends DEF Commit
<1>2. call'[w] = None /\ \A x \in Writer \ {w} : call'[x] = call[x]
  BY <1>1 DEF LedgerInv, LedgerTyped
<1>3. LedgerTyped'
  <2>1. rows' \subseteq StoredRecord /\ ledger' \in Seq(AuditEntry)
    BY CommitAppends DEF LedgerInv, LedgerTyped
  <2>2. IsFiniteSet(rows')
    <3>1. IsFiniteSet(rows) /\ \E r : rows' \in {rows, rows \cup {r}}
      BY <1>1 DEF LedgerInv, LedgerTyped
    <3>2. \A r : IsFiniteSet(rows \cup {r})
      BY <3>1, FS_AddElement
    <3> QED BY <3>1, <3>2
  <2> QED BY <1>1, <2>1, <2>2 DEF LedgerInv, LedgerTyped
<1>4. LockOK'
  BY <1>1, <1>2, NoneAssumption DEF LedgerInv, LockOK
<1>5. ASSUME NEW x \in Writer, call'[x] # None PROVE TxOK(call[x])'
  <2> DEFINE c == call[x]
  <2>1. x # w /\ call'[x] = c /\ c # None /\ c.step \in {"row", "lock"}
    BY <1>1, <1>2, <1>5, RunningTyped DEF LedgerInv, LockOK, Locked, AuditTx
  <2>2. TxOK(c) /\ c.job \in Job
    BY <2>1, RunningTyped
  <2>3. Len(ledger) \in Nat /\ Len(ledger') = Len(ledger) + 1
    BY CommitAppends, LenProperties DEF LedgerInv, LedgerTyped
  <2>4. ASSUME c.job.kind \in RowFirst, c.step # "row"
        PROVE  c.job.version = StoredVersion(c.job)' + 1
    <3>1. ~SameRecord(j, c.job)
      BY <1>1, <2>1, <2>4 DEF LedgerInv, RowsExclusive
    <3>2. \A y : ~SameRecord(j, y) => StoredVersion(y)' = StoredVersion(y)
      BY CommitCounts
    <3>3. PICK y : y = c.job
      OBVIOUS
    <3>4. StoredVersion(y)' = StoredVersion(y) /\ StoredVersion(y) = StoredVersion(c.job)
      BY <3>1, <3>2, <3>3
    <3>5. StoredVersion(c.job)' = StoredVersion(y)'
      BY <2>1, <3>3 DEF StoredVersion
    <3>6. c.job.version = StoredVersion(c.job) + 1
      BY <2>2, <2>4 DEF TxOK
    <3> QED BY <3>4, <3>5, <3>6
  <2>5. /\ c.step = "row" => c.job.kind \in RowFirst
        /\ c.job.kind \in RowFirst => c.view \in 0 .. Len(ledger')
        /\ c.job.kind \notin RowFirst => c.step = "lock" /\ c.view = None
        /\ c.entry # None => /\ c.entry.kind = c.job.kind /\ c.entry.recordRoot = c.job
                             /\ c.entry.occurredAt = c.job.at
    BY <2>1, <2>2, <2>3 DEF TxOK
  <2> QED BY <2>1, <2>4, <2>5 DEF TxOK
<1>6. RowsExclusive'
  BY <1>2 DEF LedgerInv, RowsExclusive, SameRecord
<1>7. VersionsOK'
  <2>1. SUFFICES ASSUME NEW s \in rows', s.kind \in RowFirst
                 PROVE  s.version <= StoredVersion(s)'
    BY DEF VersionsOK, StoredVersion, SameRecord
  <2>2. PICK y : y = s
    OBVIOUS
  <2>3. /\ StoredVersion(y) \in Nat
        /\ StoredVersion(y)' \in {StoredVersion(y), StoredVersion(y) + 1}
        /\ j.kind # "append" /\ SameRecord(j, y) => StoredVersion(y)' = StoredVersion(y) + 1
    BY CommitCounts
  <2>4. CASE s \in rows
    <3>1. s.version \in Nat /\ s.version <= StoredVersion(y)
      BY <2>1, <2>2, <2>4 DEF LedgerInv, LedgerTyped, StoredRecord, VersionsOK
    <3> QED BY <2>2, <2>3, <3>1
  <2>5. CASE s \notin rows
    <3>1. s.kind = j.kind /\ s.id = j.id /\ s.version = j.version /\ j.kind # "append"
      BY <1>1, <2>5
    <3>2. j.version = StoredVersion(j) + 1 /\ StoredVersion(j) = StoredVersion(y)
      BY <1>1, <2>1, <2>2, <3>1, RunningTyped DEF TxOK, StoredVersion, SameRecord
    <3>3. StoredVersion(y)' = StoredVersion(y) + 1
      BY <2>2, <2>3, <3>1 DEF SameRecord
    <3> QED BY <2>2, <2>3, <3>1, <3>2, <3>3
  <2> QED BY <2>4, <2>5
<1>8. \A x \in Writer : call'[x] # None => TxOK(call[x])'
  BY <1>5
<1>9. LedgerAccountsForRecords'
  BY CommitKeepsAccount
<1> QED BY <1>3, <1>4, <1>6, <1>7, <1>8, <1>9 DEF LedgerInv

\* What does not touch the ledger keeps the invariant.
LEMMA IdleKeepsLedger ==
  ASSUME LedgerInv, UNCHANGED ledgerVars
  PROVE  LedgerInv'
<1> USE DEF ledgerVars
<1>1. LedgerTyped' /\ LockOK' /\ RowsExclusive' /\ VersionsOK' /\ LedgerAccountsForRecords'
  <2>1. LedgerTyped' /\ LockOK'
    BY DEF LedgerInv, LedgerTyped, LockOK
  <2>2. RowsExclusive'
    BY DEF LedgerInv, RowsExclusive, SameRecord
  <2>3. VersionsOK'
    BY DEF LedgerInv, VersionsOK, StoredVersion, SameRecord
  <2>4. LedgerAccountsForRecords'
    BY DEF LedgerInv, LedgerAccountsForRecords, OneChain, Root, ValidEntry, SameRecord
  <2> QED BY <2>1, <2>2, <2>3, <2>4
<1>2. \A w \in Writer : call'[w] # None => TxOK(call[w])'
  BY DEF LedgerInv, TxOK, Follows, HeadRoot, AlreadyRecorded, StoredVersion
<1> QED BY <1>1, <1>2 DEF LedgerInv

\* The invariant of the ledger holds initially.
LEMMA InitLedgerInv == Init => LedgerInv
<1> SUFFICES ASSUME InitLedger PROVE LedgerInv
  BY DEF Init
<1>1. LedgerTyped
  BY FS_EmptySet, EmptySeq DEF InitLedger, LedgerTyped
<1>2. Len(ledger) = 0
  BY EmptySeq DEF InitLedger
<1>3. LedgerAccountsForRecords
  BY <1>2 DEF InitLedger, LedgerAccountsForRecords, OneChain
<1> QED BY <1>1, <1>3, NoneAssumption DEF InitLedger, LedgerInv, LockOK, RowsExclusive, VersionsOK

\* Every step keeps the invariant of the ledger.
LEMMA NextLedgerInv == LedgerInv /\ [Next]_vars => LedgerInv'
<1> SUFFICES ASSUME LedgerInv, [Next]_vars PROVE LedgerInv'
  OBVIOUS
<1>1. CASE Transaction
  <2>1. PICK w \in Writer : (\E j \in Job : BeginTx(w, j)) \/ Step(w) \/ Fail(w)
    BY <1>1 DEF Transaction
  <2> QED BY <2>1, BeginKeepsInv, PersistKeepsInv, LockKeepsInv, InsertEntryKeepsInv,
             InsertRecordKeepsInv, CommitKeepsInv, RollbackKeepsInv DEF Step, Fail
<1>2. CASE ~Transaction
  <2>1. UNCHANGED ledgerVars
    BY <1>2 DEF Next, vars, IngestEvidence, BuildBundle, SignBundle, StampBundle, CertifyBundle,
       SignProof, RevokeKey, Tick
  <2> QED BY <2>1, IdleKeepsLedger
<1> QED BY <1>1, <1>2

\* The invariant of the ledger always holds.
LEMMA LedgerInvHolds == Spec => []LedgerInv
BY InitLedgerInv, NextLedgerInv, PTL DEF Spec

\* The audit ledger accounts for the records: however the transactions of
\* evaluations, handovers, estimators, bundles and callers of AppendAuditEntry
\* overlap, fail and are repeated, it is one chain, every record is bound to one
\* entry with its root, and no version of a record is stored twice.
THEOREM LedgerIsComplete == Spec => []LedgerAccountsForRecords
<1>1. LedgerInv => LedgerAccountsForRecords
  BY DEF LedgerInv
<1> QED BY <1>1, LedgerInvHolds, PTL

\* A transaction that locks the ledger before its first query sees the head
\* until it ends.
THEOREM LockShowsHead == Spec => []LockFirstSeesHead
<1>1. LedgerInv => LockFirstSeesHead
  BY DEF LedgerInv, LockFirstSeesHead, TxOK
<1> QED BY <1>1, LedgerInvHolds, PTL

-----------------------------------------------------------------------------
(***************************************************************************)
(* Evidence.                                                               *)
(***************************************************************************)
\* The row of a submission that was received at t.
Kept(s, t) == Row(NewObject(s, t))

\* JSONB writes what Go writes for the value of a payload.
Unaltered(payload) == StoredAsJSONB(CanonicalJSON(payload)) = CanonicalJSON(payload)

\* What is stored has been submitted, at a time that it can have been.
StoredOK ==
  /\ now \in Nat
  /\ evidence \in [{s.id : s \in Submission} -> EvidenceObject \cup {Absent}]
  /\ \A id \in DOMAIN evidence : evidence[id] # Absent =>
       \E s \in Submission, t \in 1 .. now :
         /\ s.id = id /\ ValidSnapshot(NewObject(s, t)) /\ evidence[id] = Kept(s, t)
         /\ StoredAsJSONB(CanonicalJSON(s.payload)) # Absent

\* SaveEvidence answers the repetition of a submission with the object that was
\* stored first, and refuses another submission under its identifier; but if
\* JSONB has written the payload otherwise, it refuses every submission.
RepetitionsAnswered ==
  \A s \in Submission : evidence[s.id] # Absent =>
    (Accepted(s, now) <=> MadeOf(evidence[s.id], s) /\ Unaltered(s.payload))

\* The fields of a row.
LEMMA KeptFields ==
  ASSUME NEW s \in Submission, NEW t \in Nat, NEW o, o = Kept(s, t)
  PROVE  /\ o.id = s.id /\ o.session = s.session
         /\ o.source = s.source /\ o.type = s.type /\ o.observedAt = s.observedAt
         /\ o.receivedAt = t /\ o.digest = CanonicalJSON(s.payload)
         /\ o.payload = StoredAsJSONB(CanonicalJSON(s.payload))
         /\ o.payload # Absent => o \in EvidenceObject
<1>1. s.payload \in Text /\ s.observedAt \in Nat
  BY SubmissionAssumption
<1>2. PICK c, d : c = CanonicalJSON(s.payload) /\ d = StoredAsJSONB(c)
  OBVIOUS
<1>3. c \in Text /\ d \in Text \cup {Absent}
  BY <1>1, <1>2, SpellingAssumption DEF CanonicalJSON, StoredAsJSONB
<1>4. o = [id |-> s.id, session |-> s.session, source |-> s.source, type |-> s.type,
           observedAt |-> s.observedAt, payload |-> d, receivedAt |-> t, digest |-> c]
  BY <1>2 DEF Kept, Row, NewObject
<1>5. d # Absent => o \in EvidenceObject
  BY <1>1, <1>3, <1>4 DEF EvidenceObject
<1> QED BY <1>2, <1>4, <1>5

\* NewObject makes a snapshot that decodeEvidenceSnapshot accepts, if its times do.
LEMMA NewFields ==
  ASSUME NEW s \in Submission, NEW t \in Nat, NEW o, o = NewObject(s, t)
  PROVE  /\ o.id = s.id /\ o.observedAt = s.observedAt /\ o.receivedAt = t
         /\ o.payload = CanonicalJSON(s.payload)
         /\ VerifySnapshot(o) <=> s.observedAt > 0 /\ t >= s.observedAt
<1>1. s.payload \in Text
  BY SubmissionAssumption
<1>2. CanonicalJSON(CanonicalJSON(s.payload)) = CanonicalJSON(s.payload)
  BY <1>1, SpellingAssumption DEF CanonicalJSON
<1>3. /\ o.id = s.id /\ o.observedAt = s.observedAt
      /\ o.receivedAt = t /\ o.digest = CanonicalJSON(s.payload)
      /\ o.payload = CanonicalJSON(s.payload)
  BY DEF NewObject
<1> QED BY <1>2, <1>3 DEF VerifySnapshot, ValidSnapshot

\* A row and a submission are one to SaveEvidence if they differ in the time of
\* receipt and in how the payload is written.
LEMMA SameIfFieldsAre ==
  ASSUME NEW s \in Submission, NEW t \in Nat, NEW r \in Submission, NEW u \in Nat,
         s.id = r.id, Unaltered(s.payload)
  PROVE  SameSubmission(Kept(s, t), NewObject(r, u)) <=> MadeOf(Kept(s, t), r)
<1>1. PICK c, d : c = CanonicalJSON(s.payload) /\ d = CanonicalJSON(r.payload)
  OBVIOUS
<1>2. StoredAsJSONB(c) = c
  BY <1>1 DEF Unaltered
<1>3. /\ Kept(s, t) = [id |-> s.id, session |-> s.session, source |-> s.source,
           type |-> s.type, observedAt |-> s.observedAt, payload |-> c, receivedAt |-> t,
           digest |-> c]
      /\ NewObject(r, u) = [id |-> r.id, session |-> r.session, source |-> r.source,
           type |-> r.type, observedAt |-> r.observedAt, payload |-> d, receivedAt |-> u,
           digest |-> d]
  BY <1>1, <1>2 DEF Kept, Row, NewObject
<1>4. SameSubmission(Kept(s, t), NewObject(r, u)) <=>
        /\ s.session = r.session /\ s.source = r.source /\ s.type = r.type
        /\ s.observedAt = r.observedAt /\ c = d
  BY <1>3 DEF SameSubmission
<1>5. MadeOf(Kept(s, t), r) <=>
        /\ s.session = r.session /\ s.source = r.source /\ s.type = r.type
        /\ s.observedAt = r.observedAt /\ c = d
  BY <1>1, <1>3 DEF MadeOf
<1> QED BY <1>4, <1>5

\* What is stored of a submission decides how its repetition is answered.
LEMMA StoredAnswersRetries == StoredOK => RepetitionsAnswered
<1> SUFFICES ASSUME StoredOK, NEW s \in Submission, evidence[s.id] # Absent
             PROVE  Accepted(s, now) <=> MadeOf(evidence[s.id], s) /\ Unaltered(s.payload)
  BY DEF RepetitionsAnswered
<1>1. PICK r \in Submission, t \in 1 .. now :
        r.id = s.id /\ ValidSnapshot(NewObject(r, t)) /\ evidence[s.id] = Kept(r, t)
  BY DEF StoredOK
<1>2. t \in Nat /\ now \in Nat /\ t <= now /\ r.observedAt \in Nat /\ s.observedAt \in Nat
  BY SubmissionAssumption DEF StoredOK
<1>3. PICK o, c : o = Kept(r, t) /\ c = CanonicalJSON(r.payload)
  OBVIOUS
<1>4. /\ o.observedAt = r.observedAt /\ o.receivedAt = t /\ o.digest = c
      /\ o.payload = StoredAsJSONB(c)
  BY <1>2, <1>3, KeptFields
<1>5. PICK n : n = NewObject(s, now)
  OBVIOUS
<1>6. n.id = s.id /\ (VerifySnapshot(n) <=> s.observedAt > 0 /\ now >= s.observedAt)
  BY <1>2, <1>5, NewFields
<1>7. r.observedAt > 0 /\ t >= r.observedAt
  <2>1. PICK q : q = NewObject(r, t)
    OBVIOUS
  <2>2. q.observedAt = r.observedAt /\ q.receivedAt = t
    BY <1>2, <2>1, NewFields
  <2> QED BY <1>1, <2>1, <2>2 DEF ValidSnapshot
<1>8. Accepted(s, now) <=> VerifySnapshot(n) /\ VerifySnapshot(o) /\ SameSubmission(o, n)
  BY <1>1, <1>3, <1>5, <1>6 DEF Accepted, CanSave, Readable
<1>9. MadeOf(o, s) => s.observedAt = r.observedAt /\ c = CanonicalJSON(s.payload)
  BY <1>4 DEF MadeOf
<1>10. MadeOf(o, s) => (Unaltered(r.payload) <=> Unaltered(s.payload))
  BY <1>3, <1>9 DEF Unaltered
<1>11. CASE ~Unaltered(r.payload)
  BY <1>1, <1>3, <1>4, <1>8, <1>10, <1>11 DEF VerifySnapshot, Unaltered
<1>12. CASE Unaltered(r.payload)
  <2>1. CanonicalJSON(c) = c /\ o.payload = c
    BY <1>3, <1>4, <1>12, SubmissionAssumption, SpellingAssumption DEF CanonicalJSON, Unaltered
  <2>2. VerifySnapshot(o)
    BY <1>4, <1>7, <2>1 DEF VerifySnapshot, ValidSnapshot
  <2>3. SameSubmission(o, n) <=> MadeOf(o, s)
    BY <1>1, <1>2, <1>3, <1>5, <1>12, SameIfFieldsAre
  <2>4. MadeOf(o, s) => VerifySnapshot(n)
    BY <1>2, <1>6, <1>7, <1>9
  <2> QED BY <1>1, <1>3, <1>8, <1>10, <1>12, <2>2, <2>3, <2>4
<1> QED BY <1>11, <1>12

\* Ingest stores what is submitted, and nothing else touches the table.
LEMMA IngestKeepsStored ==
  ASSUME StoredOK, NEW s \in Submission, Ingest(s, now), now' = now, now > 0
  PROVE  StoredOK'
<1>1. CASE evidence[s.id] # Absent
  BY <1>1 DEF Ingest, StoredOK
<1>2. CASE evidence[s.id] = Absent
  <2>1. evidence' = [evidence EXCEPT ![s.id] = Kept(s, now)] /\ now \in 1 .. now
    BY <1>2 DEF Ingest, Kept, StoredOK
  <2>2. StoredAsJSONB(CanonicalJSON(s.payload)) # Absent
    BY <1>2 DEF Ingest, NewObject
  <2>3. Kept(s, now) \in EvidenceObject
    BY <2>2, KeptFields DEF StoredOK
  <2>4. ValidSnapshot(NewObject(s, now))
    BY DEF Ingest, CanSave, VerifySnapshot
  <2>5. evidence' \in [{r.id : r \in Submission} -> EvidenceObject \cup {Absent}]
    BY <2>1, <2>3 DEF StoredOK
  <2>6. ASSUME NEW id \in DOMAIN evidence', evidence'[id] # Absent
        PROVE  \E r \in Submission, t \in 1 .. now :
                 /\ r.id = id /\ ValidSnapshot(NewObject(r, t)) /\ evidence'[id] = Kept(r, t)
                 /\ StoredAsJSONB(CanonicalJSON(r.payload)) # Absent
    <3>1. CASE id = s.id
      BY <2>1, <2>2, <2>4, <3>1 DEF StoredOK
    <3>2. CASE id # s.id
      BY <2>1, <2>6, <3>2 DEF StoredOK
    <3> QED BY <3>1, <3>2
  <2> QED BY <2>5, <2>6 DEF StoredOK
<1> QED BY <1>1, <1>2

\* Later is no less past: the passing of time keeps what is stored.
LEMMA IdleKeepsStored ==
  ASSUME StoredOK, UNCHANGED evidence, now' = now \/ now' = now + 1
  PROVE  StoredOK'
<1>1. now \in Nat /\ now' \in Nat /\ 1 .. now \subseteq 1 .. now'
  BY DEF StoredOK
<1>2. /\ evidence' \in [{r.id : r \in Submission} -> EvidenceObject \cup {Absent}]
      /\ \A id \in DOMAIN evidence' : evidence'[id] # Absent =>
           \E s \in Submission, t \in 1 .. now' :
             /\ s.id = id /\ ValidSnapshot(NewObject(s, t)) /\ evidence'[id] = Kept(s, t)
             /\ StoredAsJSONB(CanonicalJSON(s.payload)) # Absent
  BY <1>1 DEF StoredOK
<1> QED BY <1>1, <1>2 DEF StoredOK

-----------------------------------------------------------------------------
(***************************************************************************)
(* The artefacts.                                                          *)
(***************************************************************************)
TimesTyped ==
  /\ now \in Nat \ {0}
  /\ built \in [BundleID -> Nat] /\ signed \in [BundleID -> Nat]
  /\ stamped \in [BundleID -> Nat] /\ certified \in [BundleID -> Nat]
  /\ revoked \in [DOMAIN Keys -> Nat \cup {None}]

\* Each artefact is made of the one before it, not before it, and after it has
\* been verified.
ArtefactOK(b) ==
  /\ built[b] > 0 => b # None
  /\ signed[b] > 0 => built[b] > 0 /\ signed[b] \in built[b] .. now
  /\ stamped[b] > 0 =>
       /\ signed[b] > 0 /\ stamped[b] \in signed[b] .. now
       /\ "signer" \in DOMAIN Keys /\ Keys["signer"].validFrom <= signed[b]
  /\ certified[b] > 0 =>
       /\ stamped[b] > 0 /\ certified[b] \in stamped[b] .. now
       /\ DecisionRepeats(Bundle(b)) /\ Trace.result # "UNKNOWN" /\ Trace.outcomes # <<>>
ArtefactsOK == \A b \in BundleID : ArtefactOK(b)

\* A participant signs what NewHandoverProofBinding accepts.
ConsentsOK ==
  \A c \in consents :
    /\ c.bundle \in BundleID /\ certified[c.bundle] > 0
    /\ c.transfer.from # c.transfer.to /\ c.transfer.version >= 2
    /\ certified[c.bundle] >= c.transfer.at /\ c.at \in certified[c.bundle] .. now

\* An entry is of the kind and the time of its record.
EntriesOK ==
  \A i \in DOMAIN ledger :
    LET e == ledger[i] IN e.kind = e.recordRoot.kind /\ e.occurredAt = e.recordRoot.at

ProofInv == LedgerInv /\ StoredOK /\ TimesTyped /\ ArtefactsOK /\ ConsentsOK /\ EntriesOK

-----------------------------------------------------------------------------
\* A bundle as Build makes it: its root is that of its manifest, so that
\* VerifyBundle accepts it.
LEMMA BundleFields ==
  ASSUME NEW b, NEW x, x = Bundle(b)
  PROVE  /\ x.manifest.bundleID = b /\ x.manifest.generatedAt = built[b]
         /\ x.objects.trace = Trace
         /\ [manifest |-> x.manifest, objects |-> x.objects] = x
         /\ b # None /\ built[b] > 0 => T!VerifyBundle(x)
<1> DEFINE o == [trace |-> Trace,
                 policy |-> [kind |-> "snapshot", version |-> Trace.policyBinding],
                 evidence |-> Bound]
           M(root) == [bundleID |-> b, evaluation |-> Trace.evaluation,
                       session |-> Trace.session, generatedAt |-> built[b],
                       policy |-> Trace.policyBinding, objects |-> o,
                       bundleRoot |-> root]
<1>1. x = [manifest |-> T!WithRoot(M(None)), objects |-> o] /\ o.trace = Trace
  BY DEF Bundle, T!Build
<1> HIDE DEF o
<1>2. \A r, q : [M(r) EXCEPT !.bundleRoot = q] = M(q)
  OBVIOUS
<1>3. \A r : /\ M(r).bundleID = b /\ M(r).generatedAt = built[b] /\ M(r).bundleRoot = r
            /\ M(r).objects = o
  OBVIOUS
<1> HIDE DEF M
<1>4. \A r : T!CalculateRoot(M(r)) = M(None)
  BY <1>2 DEF T!CalculateRoot
<1>5. T!WithRoot(M(None)) = M(M(None))
  BY <1>2, <1>4 DEF T!WithRoot
<1> QED BY <1>1, <1>3, <1>4, <1>5 DEF T!VerifyBundle

\* A signature as NewSignature and the signer make it.
LEMMA SignatureFields ==
  ASSUME NEW b, NEW s, s = Signature(b)
  PROVE  /\ s.signer = "signer" /\ s.value = "signer" /\ s.signingTime = signed[b]
         /\ s.manifest = Bundle(b).manifest /\ s.bundleRoot = Bundle(b).manifest.bundleRoot
BY DEF Signature, T!SignedBy, T!NewSignature

\* A timestamp as NewTrustedTimestamp and the authority make it.
LEMMA TimestampFields ==
  ASSUME NEW b, NEW s, s = Timestamp(b)
  PROVE  /\ s.authority = "authority" /\ s.value = "authority" /\ s.issuedAt = stamped[b]
         /\ s.signature = Signature(b) /\ s.bundleRoot = Bundle(b).manifest.bundleRoot
BY DEF Timestamp, T!SignedBy, T!NewTrustedTimestamp

\* A certificate as NewVerificationCertificate and the verifier make it.
LEMMA CertificateFields ==
  ASSUME NEW b, NEW c, c = Certificate(b)
  PROVE  /\ c.verifier = "verifier" /\ c.value = "verifier" /\ c.issuedAt = certified[b]
         /\ c.timestamp = Timestamp(b)
         /\ c.bundleID = Bundle(b).manifest.bundleID
         /\ c.evaluation = Bundle(b).manifest.evaluation
         /\ c.bundleRoot = Bundle(b).manifest.bundleRoot /\ c.policy = Bundle(b).manifest.policy
         /\ c.result = Bundle(b).objects.trace.result
         /\ c.outcomes = Bundle(b).objects.trace.outcomes
BY DEF Certificate, T!SignedBy, T!NewVerificationCertificate

\* A key of the trust store.
LEMMA TrustStoreFields ==
  ASSUME TimesTyped, NEW s \in DOMAIN Keys
  PROVE  /\ DOMAIN TrustStore = DOMAIN Keys
         /\ TrustStore[s].validFrom = Keys[s].validFrom /\ Keys[s].validFrom \in Nat
         /\ TrustStore[s].validUntil = Keys[s].validUntil /\ Keys[s].validUntil \in Nat \cup {None}
         /\ TrustStore[s].revokedAt = revoked[s] /\ revoked[s] \in Nat \cup {None}
<1>1. Keys[s] \in [validFrom : Nat, validUntil : Nat \cup {None}, revokedAt : Nat \cup {None}]
  BY KeysAssumption
<1>2. DOMAIN TrustStore = DOMAIN Keys /\ TrustStore[s] = [Keys[s] EXCEPT !.revokedAt = revoked[s]]
  BY DEF TrustStore
<1> QED BY <1>1, <1>2 DEF TimesTyped

\* What a key is good for at a time it was good for before.
LEMMA InForceBefore ==
  ASSUME TimesTyped, NEW s \in DOMAIN Keys, NEW t \in Nat, NEW u \in Nat, t <= u,
         Keys[s].validFrom <= t, T!InForce(TrustStore[s], u)
  PROVE  T!InForce(TrustStore[s], t)
<1>1. /\ TrustStore[s].validFrom = Keys[s].validFrom /\ Keys[s].validFrom \in Nat
      /\ TrustStore[s].validUntil \in Nat \cup {None}
      /\ TrustStore[s].revokedAt \in Nat \cup {None}
  BY TrustStoreFields
<1>2. \A limit \in Nat \cup {None} : T!Before(u, limit) => T!Before(t, limit)
  BY NoneAssumption DEF T!Before
<1> QED BY <1>1, <1>2 DEF T!InForce

\* What the signature of a bundle needs to be verified.
LEMMA SignatureVerifies ==
  ASSUME ProofInv, NEW b \in BundleID, NEW s \in BundleID, built[b] > 0, signed[s] > 0,
         NEW at \in Nat
  PROVE  T!VerifySignature(Bundle(b), Signature(s), TrustStore, at) <=>
           s = b /\ at >= signed[b] /\ Trusted("signer", signed[b]) /\ Trusted("signer", at)
<1>1. PICK x, y, g : x = Bundle(b) /\ y = Bundle(s) /\ g = Signature(s)
  OBVIOUS
<1>2. /\ x.manifest.bundleID = b /\ x.manifest.generatedAt = built[b]
      /\ y.manifest.bundleID = s /\ T!VerifyBundle(x)
  BY <1>1, BundleFields DEF ProofInv, ArtefactsOK, ArtefactOK
<1>3. /\ g.signer = "signer" /\ g.value = "signer" /\ g.signingTime = signed[s]
      /\ g.manifest = y.manifest /\ g.bundleRoot = y.manifest.bundleRoot
  BY <1>1, SignatureFields
<1>4. s = b => x = y /\ signed[s] >= built[b]
  BY <1>1 DEF ProofInv, ArtefactsOK, ArtefactOK, TimesTyped
<1>5. T!ValidSignatureBinding(x, g) <=> s = b
  BY <1>2, <1>3, <1>4 DEF T!ValidSignatureBinding
<1>6. T!VerifySignature(x, g, TrustStore, at) <=>
        /\ at >= signed[s] /\ T!ValidSignatureBinding(x, g)
        /\ Trusted("signer", signed[s]) /\ Trusted("signer", at)
  BY <1>3 DEF T!VerifySignature, T!Resolves, Trusted
<1> QED BY <1>1, <1>5, <1>6

\* The same of the timestamp of a signature.
LEMMA TimestampVerifies ==
  ASSUME ProofInv, NEW b \in BundleID, NEW s \in BundleID, NEW ts \in BundleID,
         stamped[ts] > 0, NEW at \in Nat
  PROVE  T!VerifyTrustedTimestamp(Bundle(b), Signature(s), Timestamp(ts), TrustStore, at) /\ s = b
         <=> ts = b /\ s = b /\ at >= stamped[b] /\ Trusted("authority", stamped[b])
<1>1. PICK x, y, z, g, h : /\ x = Bundle(b) /\ y = Bundle(s) /\ z = Bundle(ts)
                           /\ g = Signature(s) /\ h = Timestamp(ts)
  OBVIOUS
<1>2. z.manifest.bundleID = ts /\ y.manifest.bundleID = s
  BY <1>1, BundleFields
<1>3. /\ g.manifest = y.manifest /\ g.signingTime = signed[s]
      /\ h.signature = Signature(ts) /\ Signature(ts).manifest = z.manifest
      /\ h.authority = "authority" /\ h.value = "authority" /\ h.issuedAt = stamped[ts]
      /\ h.bundleRoot = z.manifest.bundleRoot
  BY <1>1, SignatureFields, TimestampFields
<1>4. h.signature = g => ts = s
  BY <1>2, <1>3
<1>5. ts = b /\ s = b => /\ h.signature = g /\ h.bundleRoot = x.manifest.bundleRoot
                         /\ stamped[ts] >= signed[s]
  BY <1>1, <1>3 DEF ProofInv, ArtefactsOK, ArtefactOK, TimesTyped
<1>6. T!VerifyTrustedTimestamp(x, g, h, TrustStore, at) <=>
        /\ at >= stamped[ts] /\ stamped[ts] >= signed[s]
        /\ h.signature = g /\ h.bundleRoot = x.manifest.bundleRoot
        /\ Trusted("authority", stamped[ts])
  BY <1>3 DEF T!VerifyTrustedTimestamp, T!Resolves, Trusted
<1> QED BY <1>1, <1>4, <1>5, <1>6

\* The invariant makes the archives importable.
LEMMA ProofInvArchives == ProofInv => ArchivesEndure
<1> SUFFICES ASSUME ProofInv, NEW b \in BundleID, stamped[b] > 0
             PROVE  T!ImportTimestampedArchive(Archive(b), TrustStore, now)
                    <=> Trusted("signer", stamped[b]) /\ Trusted("authority", stamped[b])
  BY DEF ArchivesEndure, Made
<1>1. /\ built[b] > 0 /\ signed[b] > 0 /\ b # None /\ stamped[b] >= signed[b]
      /\ now >= stamped[b] /\ now \in Nat /\ stamped[b] \in Nat /\ signed[b] \in Nat
      /\ "signer" \in DOMAIN Keys /\ Keys["signer"].validFrom <= signed[b]
  BY DEF ProofInv, ArtefactsOK, ArtefactOK, TimesTyped
<1>2. PICK x, a : x = Bundle(b) /\ a = Archive(b)
  OBVIOUS
<1>3. /\ a.manifest = x.manifest /\ a.objects = x.objects
      /\ a.signature = Signature(b) /\ a.timestamp = Timestamp(b)
  BY <1>2 DEF Archive, T!ExportTimestampedArchive
<1>4. T!BundleFromArchiveEntries(a) = x /\ T!VerifyBundle(x) /\ a.timestamp.issuedAt = stamped[b]
  BY <1>1, <1>2, <1>3, BundleFields, TimestampFields DEF T!BundleFromArchiveEntries
<1>5. T!ImportTimestampedArchive(a, TrustStore, now) <=>
        /\ T!VerifySignature(x, Signature(b), TrustStore, stamped[b])
        /\ T!VerifyTrustedTimestamp(x, Signature(b), Timestamp(b), TrustStore, now)
  BY <1>3, <1>4 DEF T!ImportTimestampedArchive, T!ImportSignedArchive
<1>6. T!VerifySignature(x, Signature(b), TrustStore, stamped[b]) <=>
        Trusted("signer", signed[b]) /\ Trusted("signer", stamped[b])
  BY <1>1, <1>2, SignatureVerifies
<1>7. T!VerifyTrustedTimestamp(x, Signature(b), Timestamp(b), TrustStore, now) <=>
        Trusted("authority", stamped[b])
  BY <1>1, <1>2, TimestampVerifies
<1>8. Trusted("signer", stamped[b]) => Trusted("signer", signed[b])
  BY <1>1, InForceBefore DEF Trusted, ProofInv
<1> QED BY <1>2, <1>5, <1>6, <1>7, <1>8

\* The same of the certificate of a timestamped bundle.
LEMMA CertificateVerifies ==
  ASSUME ProofInv, NEW b \in BundleID, NEW ts \in BundleID, NEW c \in BundleID,
         certified[c] > 0
  PROVE  T!VerifyVerificationCertificate(Bundle(b), Timestamp(ts), Certificate(c), TrustStore, now)
           /\ ts = b
         <=> c = b /\ ts = b /\ TrustedNow("verifier", certified[b])
<1>1. PICK x, z, h, d : /\ x = Bundle(b) /\ z = Bundle(c)
                        /\ h = Timestamp(ts) /\ d = Certificate(c)
  OBVIOUS
<1>2. x.manifest.bundleID = b /\ z.manifest.bundleID = c /\ z.objects.trace = Trace
      /\ x.objects.trace = Trace
  BY <1>1, BundleFields
<1>3. /\ d.verifier = "verifier" /\ d.value = "verifier" /\ d.issuedAt = certified[c]
      /\ d.timestamp = Timestamp(c) /\ d.bundleID = c
      /\ d.evaluation = z.manifest.evaluation /\ d.bundleRoot = z.manifest.bundleRoot
      /\ d.policy = z.manifest.policy
      /\ d.result = Trace.result /\ d.outcomes = Trace.outcomes
  BY <1>1, <1>2, CertificateFields
<1>4. h.issuedAt = stamped[ts]
  BY <1>1, TimestampFields
<1>5. T!Certifies(d, x.manifest) => c = b
  BY <1>2, <1>3 DEF T!Certifies
<1>6. T!ValidCertificate(d)
  <2>1. d.timestamp.issuedAt = stamped[c]
    BY <1>3, TimestampFields
  <2>2. /\ certified[c] >= stamped[c]
        /\ Trace.result # "UNKNOWN" /\ Trace.outcomes # <<>>
    BY DEF ProofInv, ArtefactsOK, ArtefactOK, TimesTyped
  <2> QED BY <1>3, <2>1, <2>2 DEF T!ValidCertificate
<1>7. ASSUME c = b, ts = b
      PROVE  /\ T!Certifies(d, x.manifest) /\ d.timestamp = h /\ DecisionRepeats(x)
             /\ now >= certified[c] /\ certified[c] >= stamped[ts]
  <2>1. DecisionRepeats(x) /\ now >= certified[c] /\ certified[c] >= stamped[ts]
    BY <1>1, <1>7 DEF ProofInv, ArtefactsOK, ArtefactOK, TimesTyped
  <2> QED BY <1>1, <1>3, <1>2, <1>7, <2>1 DEF T!Certifies
<1>8. T!VerifyVerificationCertificate(x, h, d, TrustStore, now) <=>
        /\ now >= certified[c] /\ certified[c] >= stamped[ts]
        /\ T!Certifies(d, x.manifest) /\ d.timestamp = h
        /\ DecisionRepeats(x)
        /\ TrustedNow("verifier", certified[c])
  BY <1>2, <1>3, <1>4, <1>6 DEF T!VerifyVerificationCertificate, T!Resolves, Trusted, TrustedNow
<1> QED BY <1>1, <1>5, <1>7, <1>8

\* FindTransfer finds the entry of a transfer.
LEMMA EntryOfTransfer ==
  ASSUME ProofInv, NEW y \in Transfers
  PROVE  LET e == Entry(y)
         IN  e.recordRoot = y /\ ValidEntry(e) /\ e.kind = "handover" /\ e.occurredAt = y.at
<1>1. PICK i \in DOMAIN ledger : ledger[i].kind = "handover" /\ ledger[i].recordRoot = y
  BY DEF Transfers
<1>2. y.kind = "handover"
  BY <1>1 DEF ProofInv, EntriesOK
<1>3. Entry(y) \in {ledger[k] : k \in DOMAIN ledger} /\ Entry(y).recordRoot = y
  BY <1>1 DEF Entry
<1>4. PICK k \in DOMAIN ledger : Entry(y) = ledger[k]
  BY <1>3
<1>5. k \in 1 .. Len(ledger)
  BY LenProperties DEF ProofInv, LedgerInv, LedgerTyped
<1>6. ValidEntry(ledger[k])
  BY <1>5 DEF ProofInv, LedgerInv, LedgerAccountsForRecords, OneChain
<1> QED BY <1>2, <1>3, <1>4, <1>6 DEF ProofInv, EntriesOK

\* The fields of what a participant has signed.
LEMMA ConsentFields ==
  ASSUME NEW c, NEW s, s = Consent(c)
  PROVE  /\ s.role = c.role /\ s.signedAt = c.at
         /\ s.participant = IF c.role = "outgoing" THEN c.transfer.from ELSE c.transfer.to
         /\ s.value = s.participant /\ s.binding = BindingOf(c.proof, c.transfer, c.bundle)
         /\ s.binding.proof = c.proof /\ s.binding.transfer = c.transfer
         /\ s.binding.bundleID = c.bundle
<1>1. PICK p, m : p = BindingOf(c.proof, c.transfer, c.bundle) /\ m = Bundle(c.bundle).manifest
  OBVIOUS
<1>2. m.bundleID = c.bundle
  BY <1>1, BundleFields
<1>3. p.proof = c.proof /\ p.transfer = c.transfer /\ p.bundleID = c.bundle
  BY <1>1, <1>2 DEF BindingOf, NewHandoverProofBinding
<1>4. PICK q : q = Participant(p, c.role)
  OBVIOUS
<1>5. q = IF c.role = "outgoing" THEN c.transfer.from ELSE c.transfer.to
  BY <1>3, <1>4 DEF Participant
<1>6. s = [role |-> c.role, participant |-> q, signedAt |-> c.at, binding |-> p, value |-> q]
  BY <1>1, <1>4 DEF Consent, NewHandoverProofSignature, T!SignedBy
<1> QED BY <1>1, <1>3, <1>5, <1>6

\* What the signature of a participant needs to be verified.
LEMMA ConsentVerifies ==
  ASSUME ProofInv, NEW id, NEW x, NEW b \in BundleID, NEW k \in consents,
         NEW role \in {"outgoing", "incoming"}
  PROVE  now >= Consent(k).signedAt
         /\ VerifyHandoverProofSignature(BindingOf(id, x, b), role, Consent(k), TrustStore, now)
         <=> /\ k.role = role /\ k.proof = id /\ k.transfer = x /\ k.bundle = b
             /\ TrustedNow(IF role = "outgoing" THEN x.from ELSE x.to, k.at)
<1>1. PICK p, s, m, d : /\ p = BindingOf(id, x, b) /\ s = Consent(k)
                        /\ m = Bundle(b).manifest /\ d = Certificate(b)
  OBVIOUS
<1>2. m.bundleID = b /\ d.issuedAt = certified[b]
  BY <1>1, BundleFields, CertificateFields
<1>3. p.proof = id /\ p.transfer = x /\ p.bundleID = b /\ p.certificate.issuedAt = certified[b]
  BY <1>1, <1>2 DEF BindingOf, NewHandoverProofBinding
<1>4. /\ s.role = k.role /\ s.signedAt = k.at
      /\ s.participant = IF k.role = "outgoing" THEN k.transfer.from ELSE k.transfer.to
      /\ s.value = s.participant /\ s.binding = BindingOf(k.proof, k.transfer, k.bundle)
      /\ s.binding.proof = k.proof /\ s.binding.transfer = k.transfer
      /\ s.binding.bundleID = k.bundle
  BY <1>1, ConsentFields
<1>5. s.binding = p <=> k.proof = id /\ k.transfer = x /\ k.bundle = b
  BY <1>1, <1>3, <1>4
<1>6. k.bundle = b => now >= k.at /\ k.at >= certified[b]
  BY DEF ProofInv, ConsentsOK, TimesTyped
<1>7. Participant(p, role) = IF role = "outgoing" THEN x.from ELSE x.to
  BY <1>3 DEF Participant
<1>8. VerifyHandoverProofSignature(p, role, s, TrustStore, now) <=>
        /\ k.role = role /\ s.participant = Participant(p, role)
        /\ s.binding = p /\ k.at >= certified[b]
        /\ TrustedNow(s.participant, k.at)
  BY <1>3, <1>4 DEF VerifyHandoverProofSignature, T!Resolves, Trusted, TrustedNow
<1> QED BY <1>1, <1>4, <1>5, <1>6, <1>7, <1>8

\* The invariant makes exactly the coherent portable proofs verify.
LEMMA ProofInvCoherent == ProofInv => CoherentProofsVerify
<1> SUFFICES ASSUME ProofInv, NEW id \in ProofID, NEW x \in Transfers, NEW y \in Transfers,
                    NEW b \in Made(built), NEW s \in Made(signed), NEW ts \in Made(stamped),
                    NEW c \in Made(certified), NEW out \in consents, NEW in \in consents
             PROVE  VerifyPortableHandoverProof(
                      [proof |-> id, transfer |-> x, entry |-> Entry(y), bundle |-> Bundle(b),
                       signature |-> Signature(s), timestamp |-> Timestamp(ts),
                       certificate |-> Certificate(c), outgoing |-> Consent(out),
                       incoming |-> Consent(in)], TrustStore, now)
                    <=> /\ x = y /\ {s, ts, c} = {b}
                        /\ out.role = "outgoing" /\ in.role = "incoming"
                        /\ \A k \in {out, in} : k.proof = id /\ k.transfer = x /\ k.bundle = b
                        /\ TrustedNow("signer", signed[b]) /\ TrustedNow("verifier", certified[b])
                        /\ Trusted("authority", stamped[b])
                        /\ TrustedNow(x.from, out.at) /\ TrustedNow(x.to, in.at)
  BY DEF CoherentProofsVerify
<1>1. /\ b \in BundleID /\ s \in BundleID /\ ts \in BundleID /\ c \in BundleID
      /\ built[b] > 0 /\ signed[s] > 0 /\ stamped[ts] > 0 /\ certified[c] > 0
      /\ now \in Nat /\ now >= signed[s] /\ now >= stamped[ts]
  BY DEF Made, ProofInv, ArtefactsOK, ArtefactOK, TimesTyped
<1>2. PICK B, S, H, C, E, O, I, p :
        /\ B = Bundle(b) /\ S = Signature(s) /\ H = Timestamp(ts) /\ C = Certificate(c)
        /\ E = Entry(y) /\ O = Consent(out) /\ I = Consent(in)
        /\ p = NewHandoverProofBinding(id, x, E, B.manifest, C)
  OBVIOUS
<1>3. VerifyPortableHandoverProof(
        [proof |-> id, transfer |-> x, entry |-> E, bundle |-> B, signature |-> S, timestamp |-> H,
         certificate |-> C, outgoing |-> O, incoming |-> I], TrustStore, now)
      <=> /\ T!VerifySignature(B, S, TrustStore, now)
          /\ T!VerifyTrustedTimestamp(B, S, H, TrustStore, now)
          /\ T!VerifyVerificationCertificate(B, H, C, TrustStore, now)
          /\ CanBind(x, E, B.manifest, C)
          /\ VerifyHandoverProofSignatures(p, O, I, TrustStore, now)
  BY <1>2 DEF VerifyPortableHandoverProof
<1>4. T!VerifySignature(B, S, TrustStore, now) <=> s = b /\ TrustedNow("signer", signed[b])
  BY <1>1, <1>2, SignatureVerifies DEF TrustedNow
<1>5. s = b => (T!VerifyTrustedTimestamp(B, S, H, TrustStore, now) <=>
                  ts = b /\ Trusted("authority", stamped[b]))
  BY <1>1, <1>2, TimestampVerifies
<1>6. ts = b => (T!VerifyVerificationCertificate(B, H, C, TrustStore, now) <=>
                   c = b /\ TrustedNow("verifier", certified[b]))
  BY <1>1, <1>2, CertificateVerifies
<1>7. E.recordRoot = y /\ ValidEntry(E) /\ E.kind = "handover" /\ E.occurredAt = y.at
  BY <1>2, EntryOfTransfer
<1>8. CanBind(x, E, B.manifest, C) => x = y
  BY <1>7 DEF CanBind
<1>9. x = y /\ c = b =>
        /\ CanBind(x, E, B.manifest, C) <=> certified[b] >= x.at
        /\ p = BindingOf(id, x, b)
  <2>1. ASSUME x = y, c = b
        PROVE  /\ CanBind(x, E, B.manifest, C) <=> certified[b] >= x.at
               /\ p = BindingOf(id, x, b)
    <3>1. T!Certifies(C, B.manifest) /\ C.issuedAt = certified[b]
      BY <1>2, <2>1, CertificateFields DEF T!Certifies
    <3> QED BY <1>2, <1>7, <2>1, <3>1 DEF CanBind, BindingOf
  <2> QED BY <2>1
<1>10. p.transfer = x /\ p.certificate.issuedAt = certified[c]
  <2>1. C.issuedAt = certified[c]
    BY <1>2, CertificateFields
  <2> QED BY <1>2, <2>1 DEF NewHandoverProofBinding
<1>11. ValidBinding(p) <=> x.from # x.to /\ x.version >= 2 /\ certified[c] >= x.at
  BY <1>10 DEF ValidBinding
<1>12. p = BindingOf(id, x, b) =>
         (VerifyHandoverProofSignatures(p, O, I, TrustStore, now) <=>
            /\ ValidBinding(p)
            /\ out.role = "outgoing" /\ out.proof = id /\ out.transfer = x /\ out.bundle = b
            /\ TrustedNow(x.from, out.at)
            /\ in.role = "incoming" /\ in.proof = id /\ in.transfer = x /\ in.bundle = b
            /\ TrustedNow(x.to, in.at))
  <2>1. now >= O.signedAt
           /\ VerifyHandoverProofSignature(BindingOf(id, x, b), "outgoing", O, TrustStore, now)
         <=> /\ out.role = "outgoing" /\ out.proof = id /\ out.transfer = x /\ out.bundle = b
             /\ TrustedNow(x.from, out.at)
    <3>1. now >= Consent(out).signedAt
             /\ VerifyHandoverProofSignature(BindingOf(id, x, b), "outgoing", Consent(out),
                                             TrustStore, now)
           <=> /\ out.role = "outgoing" /\ out.proof = id /\ out.transfer = x /\ out.bundle = b
               /\ TrustedNow(IF "outgoing" = "outgoing" THEN x.from ELSE x.to, out.at)
      BY <1>1, ConsentVerifies
    <3> QED BY <1>2, <3>1
  <2>2. now >= I.signedAt
           /\ VerifyHandoverProofSignature(BindingOf(id, x, b), "incoming", I, TrustStore, now)
         <=> /\ in.role = "incoming" /\ in.proof = id /\ in.transfer = x /\ in.bundle = b
             /\ TrustedNow(x.to, in.at)
    <3>1. now >= Consent(in).signedAt
             /\ VerifyHandoverProofSignature(BindingOf(id, x, b), "incoming", Consent(in),
                                             TrustStore, now)
           <=> /\ in.role = "incoming" /\ in.proof = id /\ in.transfer = x /\ in.bundle = b
               /\ TrustedNow(IF "incoming" = "outgoing" THEN x.from ELSE x.to, in.at)
      BY <1>1, ConsentVerifies
    <3> QED BY <1>2, <3>1
  <2> QED BY <2>1, <2>2 DEF VerifyHandoverProofSignatures
<1>13. out.transfer = x /\ out.bundle = b =>
         x.from # x.to /\ x.version >= 2 /\ certified[b] >= x.at
  BY DEF ProofInv, ConsentsOK
<1>14. VerifyPortableHandoverProof(
         [proof |-> id, transfer |-> x, entry |-> E, bundle |-> B, signature |-> S, timestamp |-> H,
          certificate |-> C, outgoing |-> O, incoming |-> I], TrustStore, now)
       <=> /\ x = y /\ s = b /\ ts = b /\ c = b
           /\ out.role = "outgoing" /\ in.role = "incoming"
           /\ out.proof = id /\ out.transfer = x /\ out.bundle = b
           /\ in.proof = id /\ in.transfer = x /\ in.bundle = b
           /\ TrustedNow("signer", signed[b]) /\ TrustedNow("verifier", certified[b])
           /\ Trusted("authority", stamped[b])
           /\ TrustedNow(x.from, out.at) /\ TrustedNow(x.to, in.at)
  <2> DEFINE Chosen == x = y /\ s = b /\ ts = b /\ c = b
  <2>1. VerifyPortableHandoverProof(
          [proof |-> id, transfer |-> x, entry |-> E, bundle |-> B, signature |-> S,
           timestamp |-> H, certificate |-> C, outgoing |-> O, incoming |-> I], TrustStore, now) => Chosen
    BY <1>3, <1>4, <1>5, <1>6, <1>8
  <2>2. CASE Chosen
    <3>1. p = BindingOf(id, x, b) /\ (CanBind(x, E, B.manifest, C) <=> certified[b] >= x.at)
      BY <1>9, <2>2
    <3>2. ValidBinding(p) <=> x.from # x.to /\ x.version >= 2 /\ certified[b] >= x.at
      BY <1>11, <2>2
    <3>3. T!VerifyTrustedTimestamp(B, S, H, TrustStore, now) <=> Trusted("authority", stamped[b])
      BY <1>5, <2>2
    <3>4. T!VerifyVerificationCertificate(B, H, C, TrustStore, now) <=>
            TrustedNow("verifier", certified[b])
      BY <1>6, <2>2
    <3> QED BY <1>3, <1>4, <1>12, <1>13, <2>2, <3>1, <3>2, <3>3, <3>4
  <2> QED BY <2>1, <2>2
<1>15. {s, ts, c} = {b} <=> s = b /\ ts = b /\ c = b
  OBVIOUS
<1>16. (\A k \in {out, in} : k.proof = id /\ k.transfer = x /\ k.bundle = b) <=>
         /\ out.proof = id /\ out.transfer = x /\ out.bundle = b
         /\ in.proof = id /\ in.transfer = x /\ in.bundle = b
  OBVIOUS
<1> QED BY <1>2, <1>14, <1>15, <1>16

-----------------------------------------------------------------------------
\* The invariant holds initially.
LEMMA InitProofInv == Init => ProofInv
<1> SUFFICES ASSUME Init PROVE ProofInv
  OBVIOUS
<1>1. LedgerInv
  BY InitLedgerInv
<1>2. StoredOK
  <2>1. evidence = [id \in {s.id : s \in Submission} |-> Absent] /\ now = 1
    BY DEF Init, InitEvidence
  <2> QED BY <2>1 DEF StoredOK
<1>3. TimesTyped
  BY DEF Init, Unmade, TimesTyped
<1>4. ArtefactsOK
  BY DEF Init, Unmade, ArtefactsOK, ArtefactOK
<1>5. ConsentsOK
  BY DEF Init, ConsentsOK
<1>6. EntriesOK
  BY DEF Init, InitLedger, EntriesOK
<1> QED BY <1>1, <1>2, <1>3, <1>4, <1>5, <1>6 DEF ProofInv

\* The ledger grows by entries of the kind and the time of their records.
LEMMA NextEntriesOK ==
  ASSUME LedgerInv, EntriesOK, [Next]_vars
  PROVE  EntriesOK'
<1>1. CASE UNCHANGED ledger
  BY <1>1 DEF EntriesOK
<1>2. ASSUME NEW w \in Writer, Commit(w)
      PROVE  EntriesOK'
  <2>1. LedgerInv' /\ ledger \in Seq(AuditEntry) /\ ledger' \in Seq(AuditEntry)
    BY <1>2, CommitAppends, CommitKeepsInv DEF LedgerInv, LedgerTyped
  <2>2. /\ DOMAIN ledger = 1 .. Len(ledger) /\ DOMAIN ledger' = 1 .. Len(ledger')
        /\ Len(ledger) \in Nat
    BY <2>1, LenProperties
  <2>3. PICK n, e : n = Len(ledger) + 1 /\ e = call[w].entry
    OBVIOUS
  <2>4. /\ Len(ledger') = n /\ ledger'[n] = e /\ \A i \in 1 .. n - 1 : ledger'[i] = ledger[i]
        /\ e.kind = e.recordRoot.kind /\ e.occurredAt = e.recordRoot.at
    BY <1>2, <2>3, CommitAppends
  <2>5. \A i \in 1 .. n : i = n \/ (i \in 1 .. n - 1 /\ i \in DOMAIN ledger)
    BY <2>2, <2>3
  <2> QED BY <2>2, <2>4, <2>5 DEF EntriesOK
<1>3. UNCHANGED ledger \/ \E w \in Writer : Commit(w)
  BY DEF Next, vars, ledgerVars, IngestEvidence, BuildBundle, SignBundle, StampBundle,
     CertifyBundle, SignProof, RevokeKey, Tick, Transaction, BeginTx, Fail, Rollback, Step,
     PersistSnapshot, LockAuditLedger, InsertAuditEntry, InsertRecord
<1> QED BY <1>1, <1>2, <1>3

\* A bundle is determined by the time it is built.
LEMMA BundleStays ==
  ASSUME NEW b, built'[b] = built[b]
  PROVE  Bundle(b)' = Bundle(b)
BY DEF Bundle

\* A step that makes no artefact.
LEMMA IdleKeepsArtefacts ==
  ASSUME TimesTyped, ArtefactsOK, ConsentsOK,
         UNCHANGED <<built, signed, stamped, certified, consents>>,
         now' \in {now, now + 1}, revoked' \in [DOMAIN Keys -> Nat \cup {None}]
  PROVE  TimesTyped' /\ ArtefactsOK' /\ ConsentsOK'
<1>1. TimesTyped'
  BY DEF TimesTyped
<1>2. now \in Nat /\ now' \in Nat /\ now <= now'
  BY DEF TimesTyped
<1>3. ArtefactsOK'
  <2>1. SUFFICES ASSUME NEW b \in BundleID
                 PROVE  /\ built[b] > 0 => b # None
                        /\ signed[b] > 0 => built[b] > 0 /\ signed[b] \in built[b] .. now'
                        /\ stamped[b] > 0 =>
                             /\ signed[b] > 0 /\ stamped[b] \in signed[b] .. now'
                             /\ "signer" \in DOMAIN Keys /\ Keys["signer"].validFrom <= signed[b]
                        /\ certified[b] > 0 =>
                             /\ stamped[b] > 0 /\ certified[b] \in stamped[b] .. now'
                             /\ DecisionRepeats(Bundle(b))
                             /\ Trace.result # "UNKNOWN" /\ Trace.outcomes # <<>>
    BY BundleStays DEF ArtefactsOK, ArtefactOK
  <2>2. \A i \in Nat : i .. now \subseteq i .. now'
    BY <1>2
  <2> QED BY <1>2, <2>2 DEF ArtefactsOK, ArtefactOK, TimesTyped
<1>4. ConsentsOK'
  BY <1>2 DEF ConsentsOK, TimesTyped
<1> QED BY <1>1, <1>3, <1>4

\* A step that makes an artefact of one bundle leaves the others alone.
LEMMA OthersKeepArtefacts ==
  ASSUME ArtefactsOK, NEW b \in BundleID, UNCHANGED now, ArtefactOK(b)',
         \A x \in BundleID \ {b} : /\ built'[x] = built[x] /\ signed'[x] = signed[x]
                                   /\ stamped'[x] = stamped[x] /\ certified'[x] = certified[x]
  PROVE  ArtefactsOK'
<1>1. ASSUME NEW x \in BundleID PROVE ArtefactOK(x)'
  <2>1. CASE x = b
    BY <2>1
  <2>2. CASE x # b
    <3>1. ArtefactOK(x)
      BY DEF ArtefactsOK, ArtefactOK
    <3>2. Bundle(x)' = Bundle(x)
      BY <2>2, BundleStays
    <3> QED BY <2>2, <3>1, <3>2 DEF ArtefactOK
  <2> QED BY <2>1, <2>2
<1> QED BY <1>1 DEF ArtefactsOK, ArtefactOK

\* An artefact is not made before what it is made from.
LEMMA ArtefactsInOrder ==
  ASSUME ProofInv, NEW b \in BundleID
  PROVE  /\ built[b] = 0 => signed[b] = 0
         /\ signed[b] = 0 => stamped[b] = 0
         /\ stamped[b] = 0 => certified[b] = 0
<1>1. /\ ArtefactOK(b) /\ built[b] \in Nat /\ signed[b] \in Nat
      /\ stamped[b] \in Nat /\ certified[b] \in Nat
  BY DEF ProofInv, ArtefactsOK, TimesTyped
<1>2. /\ signed[b] > 0 => built[b] > 0
      /\ stamped[b] > 0 => signed[b] > 0
      /\ certified[b] > 0 => stamped[b] > 0
  BY <1>1 DEF ArtefactOK
<1> QED BY <1>1, <1>2

\* Build keeps it.
LEMMA BuildKeepsArtefacts ==
  ASSUME ProofInv, NEW b \in BundleID, BuildBundle(b)
  PROVE  TimesTyped' /\ ArtefactsOK' /\ ConsentsOK'
<1>1. /\ built' = [built EXCEPT ![b] = now] /\ built[b] = 0 /\ b # None
      /\ UNCHANGED <<now, revoked, signed, stamped, certified, consents>>
  BY DEF BuildBundle, T!CanBuild
<1>2. TimesTyped'
  BY <1>1 DEF ProofInv, TimesTyped
<1>3. signed[b] = 0 /\ stamped[b] = 0 /\ certified[b] = 0
  BY <1>1, ArtefactsInOrder
<1>4. ArtefactOK(b)'
  BY <1>1, <1>3 DEF ArtefactOK
<1>5. ArtefactsOK'
  BY <1>1, <1>4, OthersKeepArtefacts DEF ProofInv, TimesTyped
<1>6. ConsentsOK'
  BY <1>1 DEF ProofInv, ConsentsOK
<1> QED BY <1>2, <1>5, <1>6

\* Signing a bundle keeps it: no sooner than the bundle was made.
LEMMA SignKeepsArtefacts ==
  ASSUME ProofInv, NEW b \in BundleID, NEW t \in 1 .. now, SignBundle(b, t)
  PROVE  TimesTyped' /\ ArtefactsOK' /\ ConsentsOK'
<1>1. /\ signed' = [signed EXCEPT ![b] = t] /\ built[b] > 0 /\ signed[b] = 0
      /\ T!CanSign(Bundle(b), t)
      /\ UNCHANGED <<now, revoked, built, stamped, certified, consents>>
  BY DEF SignBundle
<1>2. TimesTyped' /\ t \in Nat /\ now \in Nat /\ built[b] \in Nat
  BY <1>1 DEF ProofInv, TimesTyped
<1>3. t >= built[b]
  BY <1>1, BundleFields DEF T!CanSign
<1>4. stamped[b] = 0 /\ certified[b] = 0
  BY <1>1, ArtefactsInOrder
<1>5. signed'[b] = t /\ t \in built[b] .. now
  BY <1>1, <1>2, <1>3 DEF ProofInv, TimesTyped
<1>6. ArtefactOK(b)'
  <2>1. ArtefactOK(b)
    BY DEF ProofInv, ArtefactsOK
  <2>2. now' = now /\ built'[b] = built[b] /\ stamped'[b] = 0 /\ certified'[b] = 0
    BY <1>1, <1>4
  <2>3. b # None /\ built[b] > 0
    BY <1>1, <2>1 DEF ArtefactOK
  <2>4. ~(stamped'[b] > 0) /\ ~(certified'[b] > 0)
    BY <2>2
  <2> QED BY <1>5, <2>2, <2>3, <2>4 DEF ArtefactOK
<1>7. ArtefactsOK'
  BY <1>1, <1>6, OthersKeepArtefacts DEF ProofInv, TimesTyped
<1>8. ConsentsOK'
  BY <1>1 DEF ProofInv, ConsentsOK
<1> QED BY <1>2, <1>7, <1>8

\* Stamping keeps it: the authority has verified the signature.
LEMMA StampKeepsArtefacts ==
  ASSUME ProofInv, NEW b \in BundleID, NEW t \in 1 .. now, StampBundle(b, t)
  PROVE  TimesTyped' /\ ArtefactsOK' /\ ConsentsOK'
<1>1. /\ stamped' = [stamped EXCEPT ![b] = t] /\ signed[b] > 0 /\ stamped[b] = 0
      /\ T!VerifySignature(Bundle(b), Signature(b), TrustStore, now)
      /\ T!CanTimestamp(Signature(b), t)
      /\ UNCHANGED <<now, revoked, built, signed, certified, consents>>
  BY DEF StampBundle
<1>2. TimesTyped' /\ t \in Nat /\ now \in Nat /\ signed[b] \in Nat /\ built[b] > 0
  <2>1. ArtefactOK(b)
    BY DEF ProofInv, ArtefactsOK
  <2>2. TimesTyped' /\ t \in Nat /\ now \in Nat /\ signed[b] \in Nat
    BY <1>1 DEF ProofInv, TimesTyped
  <2> QED BY <1>1, <2>1, <2>2 DEF ArtefactOK
<1>3. t >= signed[b]
  BY <1>1, SignatureFields DEF T!CanTimestamp
<1>4. "signer" \in DOMAIN Keys /\ Keys["signer"].validFrom <= signed[b]
  <2>1. Trusted("signer", signed[b])
    BY <1>1, <1>2, SignatureVerifies
  <2>2. "signer" \in DOMAIN Keys
    BY <2>1 DEF Trusted, TrustStore
  <2> QED BY <2>1, <2>2, TrustStoreFields DEF Trusted, T!InForce, ProofInv
<1>5. certified[b] = 0
  BY <1>1, ArtefactsInOrder
<1>6. stamped'[b] = t /\ t \in signed[b] .. now
  BY <1>1, <1>2, <1>3 DEF ProofInv, TimesTyped
<1>7. ArtefactOK(b)'
  <2>1. ArtefactOK(b)
    BY DEF ProofInv, ArtefactsOK
  <2>2. now' = now /\ built'[b] = built[b] /\ signed'[b] = signed[b] /\ certified'[b] = 0
    BY <1>1, <1>5
  <2>3. b # None /\ built[b] > 0 /\ signed[b] > 0 /\ signed[b] \in built[b] .. now
    BY <1>1, <2>1 DEF ArtefactOK
  <2>4. ~(certified'[b] > 0)
    BY <2>2
  <2> QED BY <1>4, <1>6, <2>2, <2>3, <2>4 DEF ArtefactOK
<1>8. ArtefactsOK'
  BY <1>1, <1>7, OthersKeepArtefacts DEF ProofInv, TimesTyped
<1>9. ConsentsOK'
  BY <1>1 DEF ProofInv, ConsentsOK
<1> QED BY <1>2, <1>8, <1>9

\* Certifying keeps it: the verifier has repeated the decision.
LEMMA CertifyKeepsArtefacts ==
  ASSUME ProofInv, NEW b \in BundleID, NEW t \in 1 .. now, CertifyBundle(b, t)
  PROVE  TimesTyped' /\ ArtefactsOK' /\ ConsentsOK'
<1>1. /\ certified' = [certified EXCEPT ![b] = t] /\ stamped[b] > 0 /\ certified[b] = 0
      /\ T!CanCertify(Bundle(b), Timestamp(b), t)
      /\ T!ValidCertificate(T!NewVerificationCertificate(Bundle(b), Timestamp(b), "verifier", t))
      /\ UNCHANGED <<now, revoked, built, signed, stamped, consents>>
  BY DEF CertifyBundle
<1>2. TimesTyped' /\ t \in Nat /\ now \in Nat /\ stamped[b] \in Nat
  BY <1>1 DEF ProofInv, TimesTyped
<1>3. /\ t >= stamped[b] /\ DecisionRepeats(Bundle(b))
      /\ Trace.result # "UNKNOWN" /\ Trace.outcomes # <<>>
  <2>1. t >= stamped[b] /\ DecisionRepeats(Bundle(b))
    BY <1>1, TimestampFields DEF T!CanCertify
  <2>2. PICK d : d = T!NewVerificationCertificate(Bundle(b), Timestamp(b), "verifier", t)
    OBVIOUS
  <2>3. d.result = Bundle(b).objects.trace.result /\ d.outcomes = Bundle(b).objects.trace.outcomes
    BY <2>2 DEF T!NewVerificationCertificate
  <2>4. d.result = Trace.result /\ d.outcomes = Trace.outcomes
    BY <2>3, BundleFields
  <2> QED BY <1>1, <2>1, <2>2, <2>4 DEF T!ValidCertificate
<1>4. Bundle(b)' = Bundle(b)
  BY <1>1, BundleStays
<1>5. certified'[b] = t /\ t \in stamped[b] .. now
  <2>1. certified \in [BundleID -> Nat]
    BY DEF ProofInv, TimesTyped
  <2>2. certified'[b] = t
    BY <1>1, <2>1
  <2> QED BY <1>2, <1>3, <2>2
<1>6. ArtefactOK(b)'
  <2>1. ArtefactOK(b)
    BY DEF ProofInv, ArtefactsOK
  <2> QED BY <1>1, <1>3, <1>4, <1>5, <2>1 DEF ArtefactOK
<1>7. ArtefactsOK'
  BY <1>1, <1>6, OthersKeepArtefacts DEF ProofInv, TimesTyped
<1>8. ConsentsOK'
  <2>1. \A c \in consents : c.bundle # b /\ certified'[c.bundle] = certified[c.bundle]
    <3>1. certified \in [BundleID -> Nat]
      BY DEF ProofInv, TimesTyped
    <3>2. \A c \in consents : c.bundle \in BundleID /\ certified[c.bundle] > 0
      BY DEF ProofInv, ConsentsOK
    <3>3. \A c \in consents : c.bundle # b
      BY <1>1, <3>2
    <3> QED BY <1>1, <3>1, <3>2, <3>3
  <2> QED BY <1>1, <2>1 DEF ProofInv, ConsentsOK
<1> QED BY <1>2, <1>7, <1>8

\* The signature of a participant keeps it: the binding is valid.
LEMMA SignProofKeepsArtefacts ==
  ASSUME ProofInv, NEW proof \in ProofID, NEW transfer \in Transfers, NEW b \in BundleID,
         NEW role \in {"outgoing", "incoming"}, NEW t \in 1 .. now,
         SignProof(proof, transfer, b, role, t)
  PROVE  TimesTyped' /\ ArtefactsOK' /\ ConsentsOK'
<1> DEFINE c == [proof |-> proof, transfer |-> transfer, bundle |-> b, role |-> role, at |-> t]
<1>1. /\ consents' = consents \cup {c} /\ certified[b] > 0 /\ t >= certified[b]
      /\ ValidBinding(BindingOf(proof, transfer, b))
      /\ UNCHANGED <<now, revoked, built, signed, stamped, certified>>
  BY DEF SignProof
<1>2. TimesTyped'
  BY <1>1 DEF ProofInv, TimesTyped
<1>3. ArtefactsOK'
  <2>1. ASSUME NEW x \in BundleID PROVE ArtefactOK(x)'
    <3>1. ArtefactOK(x) /\ Bundle(x)' = Bundle(x)
      BY <1>1, BundleStays DEF ProofInv, ArtefactsOK
    <3> QED BY <1>1, <3>1 DEF ArtefactOK
  <2> QED BY <2>1 DEF ArtefactsOK
<1>4. transfer.from # transfer.to /\ transfer.version >= 2 /\ certified[b] >= transfer.at
  <2>1. PICK p, d : p = BindingOf(proof, transfer, b) /\ d = Certificate(b)
    OBVIOUS
  <2>2. d.issuedAt = certified[b]
    BY <2>1, CertificateFields
  <2>3. p.transfer = transfer /\ p.certificate.issuedAt = certified[b]
    BY <2>1, <2>2 DEF BindingOf, NewHandoverProofBinding
  <2>4. ValidBinding(p)
    BY <1>1, <2>1
  <2> QED BY <2>3, <2>4 DEF ValidBinding
<1>5. t \in certified[b] .. now
  BY <1>1 DEF ProofInv, TimesTyped
<1>6. c.transfer = transfer /\ c.bundle = b /\ c.at = t
  OBVIOUS
<1> HIDE DEF c
<1>7. ConsentsOK'
  BY <1>1, <1>4, <1>5, <1>6 DEF ProofInv, ConsentsOK
<1> QED BY <1>2, <1>3, <1>7

\* Every step keeps the invariant.
LEMMA NextProofInv == ProofInv /\ [Next]_vars => ProofInv'
<1> SUFFICES ASSUME ProofInv, [Next]_vars PROVE ProofInv'
  OBVIOUS
<1>1. LedgerInv' /\ EntriesOK'
  BY NextLedgerInv, NextEntriesOK DEF ProofInv
<1>2. now \in Nat /\ now > 0
  BY DEF ProofInv, TimesTyped
<1>3. StoredOK'
  <2>1. CASE IngestEvidence
    BY <1>2, <2>1, IngestKeepsStored DEF IngestEvidence, ProofInv
  <2>2. CASE ~IngestEvidence
    <3>1. UNCHANGED evidence /\ now' \in {now, now + 1}
      BY <2>2 DEF Next, vars, Transaction, BuildBundle, SignBundle, StampBundle, CertifyBundle,
         SignProof, RevokeKey, Tick
    <3> QED BY <3>1, IdleKeepsStored DEF ProofInv
  <2> QED BY <2>1, <2>2
<1>4. TimesTyped' /\ ArtefactsOK' /\ ConsentsOK'
  <2> DEFINE Idle == /\ UNCHANGED <<built, signed, stamped, certified, consents>>
                     /\ now' \in {now, now + 1} /\ revoked' \in [DOMAIN Keys -> Nat \cup {None}]
  <2>1. CASE Idle
    BY <2>1, IdleKeepsArtefacts DEF ProofInv
  <2>2. CASE IngestEvidence \/ Transaction \/ Tick \/ UNCHANGED vars
    <3>1. Idle
      BY <2>2 DEF IngestEvidence, Transaction, Tick, vars, proofVars, ProofInv, TimesTyped
    <3> QED BY <2>1, <3>1
  <2>3. ASSUME NEW s \in Revocable, NEW t \in Time, RevokeKey(s, t)
        PROVE  TimesTyped' /\ ArtefactsOK' /\ ConsentsOK'
    <3>1. t \in Nat /\ revoked' = [revoked EXCEPT ![s] = t]
      BY <2>3, BoundsAssumption DEF RevokeKey, Time
    <3>2. revoked' \in [DOMAIN Keys -> Nat \cup {None}]
      BY <3>1 DEF ProofInv, TimesTyped
    <3> QED BY <2>1, <2>3, <3>2 DEF RevokeKey
  <2>4. CASE \E b \in BundleID : BuildBundle(b)
    BY <2>4, BuildKeepsArtefacts
  <2>5. ASSUME NEW b \in Published, NEW t \in 1 .. now,
               SignBundle(b, t) \/ StampBundle(b, t) \/ CertifyBundle(b, t)
        PROVE  TimesTyped' /\ ArtefactsOK' /\ ConsentsOK'
    <3>1. b \in BundleID
      BY BoundsAssumption
    <3> QED BY <2>5, <3>1, SignKeepsArtefacts, StampKeepsArtefacts, CertifyKeepsArtefacts
  <2>6. ASSUME NEW proof \in ProofID, NEW transfer \in Transfers, NEW b \in BundleID,
               NEW role \in {"outgoing", "incoming"}, NEW t \in 1 .. now,
               SignProof(proof, transfer, b, role, t)
        PROVE  TimesTyped' /\ ArtefactsOK' /\ ConsentsOK'
    BY <2>6, SignProofKeepsArtefacts
  <2> HIDE DEF Idle
  <2> QED BY <2>2, <2>3, <2>4, <2>5, <2>6 DEF Next
<1> QED BY <1>1, <1>3, <1>4 DEF ProofInv

\* The invariant always holds.
LEMMA ProofInvHolds == Spec => []ProofInv
BY InitProofInv, NextProofInv, PTL DEF Spec

\* A client may repeat a submission of evidence at any time and written in any
\* way: SaveEvidence recognises it, answers with the object that was stored first,
\* and refuses another submission under its identifier, exactly if JSONB writes
\* the payload as Go does; otherwise the identifier can never be used again.
THEOREM RetriesGetAnswers == Spec => []RepetitionsAnswered
<1>1. ProofInv => RepetitionsAnswered
  BY StoredAnswersRetries DEF ProofInv
<1> QED BY <1>1, ProofInvHolds, PTL

\* VerifyPortableHandoverProof accepts exactly the coherent combinations of
\* artefacts, signed by keys in force, however many transfers, bundles and
\* consents there are and whichever keys are revoked.
THEOREM ProofsAreCoherent == Spec => []CoherentProofsVerify
BY ProofInvCoherent, ProofInvHolds, PTL

\* ImportTimestampedArchive accepts the archive of a timestamped bundle at any
\* later time, unless a key of it was not in force at the timestamp.
THEOREM ArchivesLast == Spec => []ArchivesEndure
BY ProofInvArchives, ProofInvHolds, PTL

=============================================================================
