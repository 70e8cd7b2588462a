----------------------------- MODULE AuditLedger -----------------------------
(***************************************************************************)
(* The common audit ledger in PostgreSQL (src/audit, src/persistence/      *)
(* postgres) and the transactions that append to it: evaluation saves and  *)
(* handover commits, which change a row before they lock the ledger;       *)
(* estimator results and bundle registrations, which lock it first; and    *)
(* AppendAuditEntry, whose caller has made the entry before.               *)
(*                                                                         *)
(* The transactions are serializable.  A transaction reads the database as *)
(* it was at its first query or update, so one that has waited for the     *)
(* lock may see a ledger that has grown since; LOCK TABLE is no query.  An *)
(* update waits for another transaction that has changed the row, and then *)
(* fails if that one commits.  Any statement may fail, which rolls back    *)
(* the transaction, and callers may repeat any call.                       *)
(***************************************************************************)
EXTENDS Naturals, Sequences, FiniteSets

CONSTANTS Writer,     \* requests served at a time
          Job,        \* what they may want to store
          MaxEntries, \* bound: entries when AppendAuditEntry is called
          None

RowFirst == {"evaluation", "handover"}
LockFirst == {"estimator", "bundle"}
\* "append" stands for whichever of the four kinds the caller has chosen.
Kind == RowFirst \cup LockFirst \cup {"append"}

\* A job stores the version of the record id, at time at.
ASSUME JobAssumption ==
  \A j \in Job : j.kind \in Kind /\ j.version \in Nat \ {0} /\ j.at \in Nat \ {0}

AuditEntry ==
  [sequence : Nat, kind : Kind, previousRoot : Seq(Nat \X Kind \X Job \X Nat),
   recordRoot : Job, occurredAt : Nat]

AuditTx ==
  [job : Job, entry : AuditEntry \cup {None}, view : Nat \cup {None},
   step : {"row", "lock", "append", "record", "commit"}]

ASSUME NoneAssumption == None \notin Writer \cup Nat \cup AuditEntry \cup AuditTx

VARIABLES ledger,  \* the committed entries
          rows,    \* the committed records, with the sequence of their entry
          call,    \* per writer, the transaction it runs, or None
          lock     \* the transaction that has locked the ledger, or None

ledgerVars == <<ledger, rows, call, lock>>

InitLedger ==
  /\ ledger = <<>>
  /\ rows = {}
  /\ call = [w \in Writer |-> None]
  /\ lock = None

-----------------------------------------------------------------------------
(***************************************************************************)
(* Entries.  A root is what has been hashed into it: the entries up to its *)
(* own.  The root before the first entry is zero, <<>>.                    *)
(***************************************************************************)
NewEntry(sequence, kind, previous, record, at) ==
  [sequence |-> sequence, kind |-> kind, previousRoot |-> previous,
   recordRoot |-> record, occurredAt |-> at]

ValidEntry(e) ==
  /\ e.kind \in Kind /\ e.occurredAt > 0
  /\ e.sequence > 0 /\ (e.sequence = 1 <=> e.previousRoot = <<>>)

Root(e) == Append(e.previousRoot, <<e.sequence, e.kind, e.recordRoot, e.occurredAt>>)

\* auditHeadLocked: the root of the last of n entries.
HeadRoot(n) == IF n = 0 THEN <<>> ELSE Root(ledger[n])

\* The entry that follows the first n of the ledger.
NextAuditEntry(n, j) == NewEntry(n + 1, j.kind, HeadRoot(n), j, j.at)

-----------------------------------------------------------------------------
SameRecord(r, j) == r.kind = j.kind /\ r.id = j.id

\* Responsibility for an object begins with version 1, before any handover.
StoredVersion(j) ==
  Cardinality({r \in rows : SameRecord(r, j)}) + (IF j.kind = "handover" THEN 1 ELSE 0)

\* Another transaction has changed the row of j and not ended.
RowBusy(w, j) ==
  \E x \in Writer \ {w} :
    /\ call[x] # None /\ call[x].step # "row"
    /\ j.kind \in RowFirst /\ SameRecord(call[x].job, j)

\* view: how much of the ledger the transaction sees; None before its snapshot.
\* The caller of AppendAuditEntry has asked FindAuditHead for the head.
BeginTx(w, j) ==
  /\ call[w] = None
  /\ j.kind = "append" => Len(ledger) < MaxEntries
  /\ call' = [call EXCEPT ![w] =
                [job |-> j,
                 entry |-> IF j.kind = "append" THEN NextAuditEntry(Len(ledger), j) ELSE None,
                 step |-> IF j.kind \in RowFirst THEN "row" ELSE "lock",
                 view |-> IF j.kind \in RowFirst THEN Len(ledger) ELSE None]]
  /\ UNCHANGED <<ledger, rows, lock>>

\* Mutant: a transaction that fails keeps its lock.
RollbackLocked(w) ==
  /\ call' = [call EXCEPT ![w] = None]
  /\ UNCHANGED <<ledger, rows, lock>>

Rollback(w) ==
  /\ call' = [call EXCEPT ![w] = None]
  /\ lock' = IF lock = w THEN None ELSE lock
  /\ UNCHANGED <<ledger, rows>>

Running(w, step) == call[w] # None /\ call[w].step = step

Proceed(w, c) == call' = [call EXCEPT ![w] = c]

\* persistSnapshot, or the update of a responsibility snapshot: the stored
\* version is the expected one, and nobody has changed it since the snapshot.
PersistSnapshot(w) ==
  /\ Running(w, "row")
  /\ LET c == call[w]
         current == /\ c.job.version = StoredVersion(c.job) + 1
                    /\ \A r \in rows : SameRecord(r, c.job) => r.auditSequence <= c.view
     IN /\ ~RowBusy(w, c.job)
        /\ IF current
           THEN Proceed(w, [c EXCEPT !.step = "lock"]) /\ UNCHANGED <<ledger, rows, lock>>
           ELSE Rollback(w)

\* Mutant: the lock does not exclude.
LockAuditLedgerShared(w) ==
  /\ Running(w, "lock")
  /\ lock' = w
  /\ Proceed(w, [call[w] EXCEPT !.step = "append",
                                !.view = IF @ = None THEN Len(ledger) ELSE @])
  /\ UNCHANGED <<ledger, rows>>

LockAuditLedger(w) ==
  /\ Running(w, "lock")
  /\ lock = None
  /\ lock' = w
  /\ Proceed(w, [call[w] EXCEPT !.step = "append",
                                !.view = IF @ = None THEN Len(ledger) ELSE @])
  /\ UNCHANGED <<ledger, rows>>

\* Mutant: sequence is no primary key.
AnySequence(e) == TRUE

\* The primary key of audit_ledger sees every committed entry.
FreeSequence(e) == \A i \in 1 .. Len(ledger) : ledger[i].sequence # e.sequence

\* AppendAuditEntry refuses an entry that does not follow the head it sees.
Follows(e, n) == e.sequence = n + 1 /\ e.previousRoot = HeadRoot(n)

InsertAuditEntry(w) ==
  /\ Running(w, "append")
  /\ LET c == call[w]
         e == IF c.entry = None THEN NextAuditEntry(c.view, c.job) ELSE c.entry
     IN IF Follows(e, c.view) /\ FreeSequence(e)
        THEN /\ Proceed(w, [c EXCEPT !.step = "record", !.entry = e])
             /\ UNCHANGED <<ledger, rows, lock>>
        ELSE Rollback(w)

\* The record of a lock-first job exists, whatever it contains.
AlreadyRecorded(j) == j.kind \in LockFirst /\ \E r \in rows : SameRecord(r, j)

InsertRecord(w) ==
  /\ Running(w, "record")
  /\ LET c == call[w] IN
     IF AlreadyRecorded(c.job)
     THEN Rollback(w)
     ELSE Proceed(w, [c EXCEPT !.step = "commit"]) /\ UNCHANGED <<ledger, rows, lock>>

Commit(w) ==
  /\ Running(w, "commit")
  /\ LET j == call[w].job  e == call[w].entry IN
     /\ ledger' = Append(ledger, e)
     /\ rows' = IF j.kind = "append" THEN rows
                ELSE rows \cup {[kind |-> j.kind, id |-> j.id, version |-> j.version,
                                 auditSequence |-> e.sequence]}
  /\ call' = [call EXCEPT ![w] = None]
  /\ lock' = None

\* The connection is lost, a statement is cancelled, or PostgreSQL gives up a
\* transaction that it cannot serialize.
Fail(w) == call[w] # None /\ Rollback(w)

Step(w) ==
  PersistSnapshot(w) \/ LockAuditLedger(w) \/ InsertAuditEntry(w) \/ InsertRecord(w) \/ Commit(w)

\* A transaction goes on while it can, and PostgreSQL serves the waiters of a
\* lock in turn.
LedgerFairness ==
  \A w \in Writer :
    /\ WF_ledgerVars(Step(w))
    /\ SF_ledgerVars(LockAuditLedger(w)) /\ SF_ledgerVars(PersistSnapshot(w))

-----------------------------------------------------------------------------
\* The ledger is one chain from the zero root to its head, without gaps or forks,
\* whichever transactions overlap and with whatever view of it they made their
\* entries.
OneChain ==
  \A i \in 1 .. Len(ledger) :
    LET e == ledger[i] IN
    /\ ValidEntry(e) /\ e.sequence = i
    /\ e.previousRoot = IF i = 1 THEN <<>> ELSE Root(ledger[i - 1])

\* The ledger accounts for the records: it is one chain; every record is bound
\* to an entry with its own root, and every entry that a caller did not append
\* directly to one record; and no record is stored twice, however often a call
\* fails and is repeated.
LedgerAccountsForRecords ==
  /\ OneChain
  /\ \A r \in rows : \E j \in Job :
       /\ SameRecord(r, j) /\ r.version = j.version
       /\ r.auditSequence \in 1 .. Len(ledger)
       /\ ledger[r.auditSequence].recordRoot = j
  /\ \A i \in 1 .. Len(ledger) :
       ledger[i].kind # "append" => Cardinality({r \in rows : r.auditSequence = i}) = 1
  /\ \A r, s \in rows : SameRecord(r, s) /\ r.version = s.version => r = s

\* What the lock is for: a transaction that takes it before it reads anything
\* sees the head of the ledger until it ends, whatever others commit meanwhile.
\* (A direct append may still fail: its caller chose the predecessor before.)
LockFirstSeesHead ==
  \A w \in Writer :
    call[w] # None /\ call[w].job.kind \notin RowFirst /\ call[w].step # "lock" =>
      call[w].view = Len(ledger)

\* Every call returns: the row locks and the lock on the ledger are taken in
\* one order and always released.
EveryCallReturns == \A w \in Writer : call[w] # None ~> call[w] = None
=============================================================================
