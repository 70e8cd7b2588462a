------------------------ MODULE OutboxDeliveryProofs ------------------------
(***************************************************************************)
(* Theorems about the delivery of stored events, for any events, workers,  *)
(* batch sizes, leases, retry policies and numbers of faults.              *)
(***************************************************************************)
EXTENDS OutboxDelivery, FiniteSetTheorems, WellFoundedInduction, TLAPS

\* The workers that have claimed the event and not offered it to the broker yet.
Outstanding(e) == {w \in Worker : publisher[w].batch[e] > 0 /\ publisher[w].current # e}

\* A worker whose loop is in state p: while its lease runs it owns what it has
\* claimed, and where it is the owner it knows the number of the attempt.
PublisherOK(w, p) ==
  /\ p.pc = "idle" => p = Idle
  /\ p.pc = "publish" => p.current = None
  /\ p.pc \in {"mark", "fail"} => p.current \in Event /\ p.batch[p.current] > 0
  /\ p.pc = "mark" => delivered[p.current] > 0
  /\ \A e \in Event : p.batch[e] > 0 =>
       /\ record[e] # None
       /\ record[e].owner = w => record[e].attempts = p.batch[e]
       /\ p.lease > 0 => record[e].owner = w /\ record[e].lease = p.lease

\* What a terminal record no longer has, and what it says.
RecordOK(e) ==
  IF record[e] = None THEN delivered[e] = 0
  ELSE /\ IsTerminal(record[e].status) => record[e].lease = 0 /\ record[e].wait = 0
       /\ record[e].status = "PUBLISHED" => delivered[e] > 0

\* Every attempt that was counted is worth one delivery: one that the broker has
\* accepted, or one that a worker may still make.
AttemptsCover(e) ==
  /\ IsFiniteSet(Outstanding(e))
  /\ record[e] # None =>
       \/ record[e].attempts = Cap
       \/ delivered[e] + Cardinality(Outstanding(e)) <= record[e].attempts

OInv ==
  /\ TypeOK
  /\ \A w \in Worker : PublisherOK(w, publisher[w])
  /\ \A e \in Event : RecordOK(e) /\ AttemptsCover(e)

-----------------------------------------------------------------------------
\* Induction over the natural numbers, for a set of them.
LEMMA SetInduction ==
  ASSUME NEW S, 0 \in S, \A n \in Nat : n \in S => n + 1 \in S
  PROVE  Nat \subseteq S
<1> DEFINE R == {ss \in Nat \X Nat : ss[1] < ss[2]}
           T == Nat \ S
<1>1. IsWellFoundedOn(R, Nat)
  BY NatLessThanWellFounded DEF OpToRel
<1>2. \A m, n \in Nat : m < n => <<m, n>> \in R
  OBVIOUS
<1> HIDE DEF R
<1>3. ASSUME T # {} PROVE FALSE
  <2>1. PICK n \in T : \A m \in T : <<m, n>> \notin R
    BY <1>1, <1>3, WFMin
  <2>2. n \in Nat /\ n # 0 /\ n - 1 \in Nat /\ n - 1 < n /\ (n - 1) + 1 = n
    BY <2>1
  <2>3. n - 1 \in S
    BY <1>2, <2>1, <2>2
  <2> QED BY <2>1, <2>2, <2>3
<1> QED BY <1>3

\* OutboxRetryPolicy.Delay stays within the policy, whatever the attempt: the
\* recursion has a value, and the value is a number up to the maximum.
LEMMA DelayBounded ==
  ASSUME NEW n \in Nat \ {0}
  PROVE  Delay(n) \in 0 .. MaxDelay
<1> DEFINE F(x) == IF x >= MaxDelay \div Multiplier THEN MaxDelay ELSE x * Multiplier
           Eq(g, m) == g = [i \in 1 .. m |-> IF i = 1 THEN BaseDelay ELSE F(g[i - 1])]
           G == {m \in Nat : \E g : Eq(g, m) /\ g \in [1 .. m -> Nat]}
           d == CHOOSE g : Eq(g, n)
<1>1. \A x \in Nat : F(x) \in Nat
  BY ConfigAssumption
<1>2. Delay(n) = Min({d[n], MaxDelay})
  BY DEF Delay
<1> HIDE DEF F
<1>3. 0 \in G
  <2>1. Eq([i \in 1 .. 0 |-> 0], 0) /\ [i \in 1 .. 0 |-> 0] \in [1 .. 0 -> Nat]
    OBVIOUS
  <2> QED BY <2>1
<1>4. ASSUME NEW m \in Nat, m \in G PROVE m + 1 \in G
  <2>1. PICK g : Eq(g, m) /\ g \in [1 .. m -> Nat]
    BY <1>4
  <2> DEFINE h == [i \in 1 .. m + 1 |-> IF i = 1 THEN BaseDelay ELSE F(g[i - 1])]
  <2>2. \A i \in 1 .. m + 1 : i # 1 => i - 1 \in 1 .. m
    OBVIOUS
  <2>3. h \in [1 .. m + 1 -> Nat]
    BY <1>1, <2>1, <2>2, ConfigAssumption
  <2>4. \A i \in 1 .. m : h[i] = g[i]
    BY <2>1
  <2>5. Eq(h, m + 1)
    BY <2>2, <2>4
  <2> HIDE DEF h
  <2> QED BY <2>3, <2>5
<1>5. n \in G
  <2> HIDE DEF G
  <2> QED BY <1>3, <1>4, SetInduction
<1>6. Eq(d, n)
  BY <1>5
<1> HIDE DEF d
<1>7. d[n] \in Nat
  <2> DEFINE S == {i \in Nat : i \in 1 .. n => d[i] \in Nat}
  <2>1. 0 \in S
    OBVIOUS
  <2>2. ASSUME NEW i \in Nat, i \in S PROVE i + 1 \in S
    <3>1. CASE i + 1 \notin 1 .. n
      BY <3>1
    <3>2. CASE i + 1 \in 1 .. n
      <4>1. d[i + 1] = IF i + 1 = 1 THEN BaseDelay ELSE F(d[i])
        BY <1>6, <3>2
      <4>2. i + 1 # 1 => i \in 1 .. n /\ d[i] \in Nat
        BY <2>2, <3>2
      <4> QED BY <1>1, <4>1, <4>2, ConfigAssumption
    <3> QED BY <3>1, <3>2
  <2> HIDE DEF S
  <2>3. n \in S
    BY <2>1, <2>2, SetInduction
  <2> QED BY <2>3 DEF S
<1>8. \A x, y \in Nat : Min({x, y}) \in Nat /\ Min({x, y}) <= y
  BY DEF Min
<1> QED BY <1>2, <1>7, <1>8, ConfigAssumption

\* Attempts and deliveries are counted up to the bound.
LEMMA CountedUp ==
  ASSUME NEW n \in 0 .. Cap
  PROVE  /\ Counted(n) \in 0 .. Cap /\ Counted(n) > 0 /\ Counted(n) >= n
         /\ n # Cap => Counted(n) = n + 1
         /\ n = Cap => Counted(n) = Cap
<1>1. Cap \in Nat /\ Cap > 0 /\ n + 1 \in Nat
  BY BoundsAssumption, ConfigAssumption
<1>2. ASSUME NEW x \in Nat, NEW y \in Nat PROVE Min({x, y}) = IF x <= y THEN x ELSE y
  BY DEF Min
<1>3. Counted(n) = IF n + 1 <= Cap THEN n + 1 ELSE Cap
  BY <1>1, <1>2 DEF Counted
<1> QED BY <1>1, <1>3

\* A timer that runs down stays in its range.
LEMMA LessTyped ==
  ASSUME NEW m \in Nat, NEW n \in 0 .. m
  PROVE  Less(n) \in 0 .. m /\ (Less(n) > 0 => n > 0) /\ (n = 0 => Less(n) = 0)
BY DEF Less

\* A publisher with nothing claimed.
LEMMA IdleTyped ==
  /\ Idle \in Publisher /\ Idle.pc = "idle" /\ Idle.current = None /\ Idle.lease = 0
  /\ \A e \in Event : Idle.batch[e] = 0
BY ConfigAssumption, CallTimeAssumption, BoundsAssumption DEF Idle, Publisher

\* The ranges the invariant gives the variables.
LEMMA Typed ==
  ASSUME OInv
  PROVE  /\ \A e \in Event : record[e] # None =>
              /\ record[e] \in Record /\ record[e].attempts \in 0 .. Cap
              /\ record[e].lease \in 0 .. LockDuration /\ record[e].wait \in 0 .. MaxDelay
         /\ \A e \in Event : delivered[e] \in 0 .. Cap
         /\ \A w \in Worker :
              /\ publisher[w] \in Publisher /\ publisher[w].lease \in 0 .. LockDuration
              /\ publisher[w].elapsed \in Nat
              /\ \A e \in Event : publisher[w].batch[e] \in 0 .. Cap
         /\ None \notin Event /\ None \notin Worker /\ None \notin Record
BY NoneAssumption, RecordAssumption DEF OInv, TypeOK, Record, Publisher

-----------------------------------------------------------------------------
\* A worker goes on with some of its claims, or with none: it has dealt with the
\* current one.
Shrinks(w, p) ==
  /\ p \in Publisher /\ p.pc \in {"idle", "publish"} /\ p.current = None
  /\ p.pc = "idle" => p = Idle
  /\ p.lease \in {0, publisher[w].lease}
  /\ \A e \in Event :
       /\ p.batch[e] \in {0, publisher[w].batch[e]}
       /\ e = publisher[w].current => p.batch[e] = 0

\* Its report, if it makes one, ends the attempt that it owns.
Reports(w, e, r) ==
  /\ e = publisher[w].current /\ e \in Event /\ Owns(w, e)
  /\ r \in Record /\ r.owner = None /\ r.attempts = record[e].attempts
  /\ r.status \in {"PUBLISHED", "RETRY_SCHEDULED", "DEAD_LETTERED"}
  /\ IsTerminal(r.status) => r.lease = 0 /\ r.wait = 0
  /\ r.status = "PUBLISHED" => delivered[e] > 0

\* How a report leaves the records.
LEMMA ShrinkingCovers ==
  ASSUME OInv, NEW w \in Worker, NEW p, Shrinks(w, p),
         publisher' = [publisher EXCEPT ![w] = p], UNCHANGED delivered,
         NEW e \in Event,
         record[e] # None /\ record'[e] # None => record'[e].attempts = record[e].attempts,
         record'[e] # None => record[e] # None
  PROVE  AttemptsCover(e)'
<1> DEFINE S == Outstanding(e)
           T == {v \in Worker : publisher'[v].batch[e] > 0 /\ publisher'[v].current # e}
<1>1. publisher'[w] = p /\ \A v \in Worker \ {w} : publisher'[v] = publisher[v]
  BY DEF OInv, TypeOK
<1>2. p.batch[e] > 0 => publisher[w].batch[e] > 0 /\ publisher[w].current # e
  BY DEF Shrinks
<1>3. T \subseteq S
  BY <1>1, <1>2 DEF Outstanding
<1>4. IsFiniteSet(S) /\ Cardinality(S) \in Nat
  BY FS_CardinalityType DEF OInv, AttemptsCover
<1>5. IsFiniteSet(T) /\ Cardinality(T) <= Cardinality(S) /\ Cardinality(T) \in Nat
  BY <1>3, <1>4, FS_Subset, FS_CardinalityType
<1>6. Outstanding(e)' = T
  BY DEF Outstanding
<1> HIDE DEF S, T
<1>7. record[e] # None =>
        /\ record[e].attempts = Cap \/ delivered[e] + Cardinality(S) <= record[e].attempts
        /\ record[e].attempts \in Nat
  BY Typed DEF OInv, AttemptsCover, S
<1>8. delivered[e] \in Nat
  BY Typed
<1>9. record'[e] # None =>
        record'[e].attempts = Cap \/ delivered[e] + Cardinality(T) <= record'[e].attempts
  BY <1>4, <1>5, <1>7, <1>8
<1> QED BY <1>5, <1>6, <1>9 DEF AttemptsCover

\* A worker that lets go of part of its batch keeps the invariant.
LEMMA ShrinkingKeepsInv ==
  ASSUME OInv, NEW w \in Worker, NEW p, Shrinks(w, p),
         publisher' = [publisher EXCEPT ![w] = p], UNCHANGED <<table, record, delivered>>,
         faults' \in 0 .. MaxFaults
  PROVE  OInv'
<1>1. publisher'[w] = p /\ \A v \in Worker \ {w} : publisher'[v] = publisher[v]
  BY DEF OInv, TypeOK
<1>2. TypeOK'
  BY DEF OInv, TypeOK, Shrinks, InFlight
<1>3. PublisherOK(w, p)
  <2>1. \A e \in Event : p.batch[e] > 0 =>
          publisher[w].batch[e] > 0 /\ publisher[w].batch[e] = p.batch[e]
    BY DEF Shrinks
  <2>2. p.lease > 0 => publisher[w].lease > 0 /\ publisher[w].lease = p.lease
    BY DEF Shrinks
  <2>3. PublisherOK(w, publisher[w])
    BY DEF OInv
  <2> QED BY <2>1, <2>2, <2>3 DEF Shrinks, PublisherOK
<1>4. \A v \in Worker : PublisherOK(v, publisher[v])'
  <2>1. \A v \in Worker : PublisherOK(v, publisher'[v])
    BY <1>1, <1>3 DEF OInv
  <2> QED BY <2>1 DEF PublisherOK
<1>5. \A e \in Event : RecordOK(e)'
  BY DEF OInv, RecordOK
<1>6. \A e \in Event : AttemptsCover(e)'
  BY ShrinkingCovers
<1> QED BY <1>2, <1>4, <1>5, <1>6 DEF OInv

\* A worker that also writes the outcome of an event it owns keeps it.
LEMMA ReportKeepsInv ==
  ASSUME OInv, NEW w \in Worker, NEW p, Shrinks(w, p), NEW e, NEW r, Reports(w, e, r),
         publisher' = [publisher EXCEPT ![w] = p], record' = [record EXCEPT ![e] = r],
         UNCHANGED <<table, delivered>>, faults' \in 0 .. MaxFaults, record[e] # None
  PROVE  OInv'
<1>1. publisher'[w] = p /\ \A v \in Worker \ {w} : publisher'[v] = publisher[v]
  BY DEF OInv, TypeOK
<1>2. e \in Event /\ record'[e] = r /\ r # None /\ \A f \in Event \ {e} : record'[f] = record[f]
  BY Typed DEF OInv, TypeOK, Reports
<1>3. record[e].owner = w /\ r.owner = None /\ r.owner # w /\ r \in Record
      /\ r.attempts = record[e].attempts
      /\ r.status \in {"PUBLISHED", "RETRY_SCHEDULED", "DEAD_LETTERED"}
  BY Typed DEF Reports, Owns
<1>4. TypeOK'
  <2>1. \A f \in Event : record'[f] # None =>
          /\ record'[f].owner # None => record'[f].status = InFlight
          /\ record'[f].status = "PUBLISHING" => record'[f].owner # None
    BY <1>2, <1>3 DEF OInv, TypeOK
  <2> QED BY <1>3, <2>1 DEF OInv, TypeOK, Shrinks, InFlight
<1>5. ASSUME NEW v \in Worker PROVE PublisherOK(v, publisher[v])'
  <2>1. PublisherOK(v, publisher[v]) /\ PublisherOK(w, publisher[w])
    BY DEF OInv
  <2>2. CASE v = w
    <3>1. p.batch[e] = 0
      BY <1>2 DEF Shrinks, Reports
    <3>2. \A f \in Event : p.batch[f] > 0 =>
            f # e /\ publisher[w].batch[f] > 0 /\ publisher[w].batch[f] = p.batch[f]
      BY <3>1 DEF Shrinks
    <3>3. p.lease > 0 => publisher[w].lease > 0 /\ publisher[w].lease = p.lease
      BY DEF Shrinks
    <3>4. \A f \in Event : p.batch[f] > 0 => record'[f] = record[f]
      BY <1>2, <3>2
    <3> QED BY <1>1, <2>1, <2>2, <3>2, <3>3, <3>4 DEF Shrinks, PublisherOK
  <2>3. CASE v # w
    <3>1. publisher[v].batch[e] > 0 => ~(publisher[v].lease > 0)
      BY <1>2, <1>3, <2>1, <2>3 DEF PublisherOK
    <3>2. r.owner # v
      BY <1>3, Typed
    <3>3. \A f \in Event : publisher[v].batch[f] > 0 =>
            /\ record'[f] # None
            /\ record'[f].owner = v => record'[f].attempts = publisher[v].batch[f]
            /\ publisher[v].lease > 0 =>
                 record'[f].owner = v /\ record'[f].lease = publisher[v].lease
      BY <1>2, <2>1, <3>1, <3>2 DEF PublisherOK
    <3> QED BY <1>1, <2>1, <2>3, <3>3 DEF PublisherOK
  <2> QED BY <2>2, <2>3
<1>6. \A f \in Event : RecordOK(f)'
  BY <1>2 DEF OInv, RecordOK, Reports
<1>7. \A f \in Event : AttemptsCover(f)'
  <2>1. \A f \in Event :
          /\ record[f] # None /\ record'[f] # None => record'[f].attempts = record[f].attempts
          /\ record'[f] # None => record[f] # None
    BY <1>2, <1>3
  <2> QED BY <2>1, ShrinkingCovers
<1> QED BY <1>4, <1>5, <1>6, <1>7 DEF OInv

-----------------------------------------------------------------------------
\* The worker that goes on with its batch, and the one that gives it up.
LEMMA ProceedShrinks ==
  ASSUME OInv, NEW w \in Worker, publisher[w].current \in Event,
         Proceed(w, publisher[w].current)
  PROVE  \E p : Shrinks(w, p) /\ publisher' = [publisher EXCEPT ![w] = p]
<1> DEFINE e == publisher[w].current
           rest == [publisher[w].batch EXCEPT ![e] = 0]
           q == [publisher[w] EXCEPT !.pc = "publish", !.batch = rest, !.current = None,
                                     !.elapsed = 0]
           p == IF \E f \in Event : rest[f] > 0 THEN q ELSE Idle
<1>1. publisher[w] \in Publisher
  BY Typed
<1>2. rest \in [Event -> 0 .. Cap] /\ rest[e] = 0
      /\ \A f \in Event : rest[f] \in {0, publisher[w].batch[f]}
  BY <1>1, BoundsAssumption DEF Publisher
<1>3. q \in Publisher /\ q.pc = "publish" /\ q.current = None
      /\ q.lease = publisher[w].lease /\ q.batch = rest
  <2>1. PublishTimeout \in Nat /\ CallTime \in Nat
    BY ConfigAssumption, CallTimeAssumption
  <2>2. 0 \in 0 .. PublishTimeout + CallTime
    BY <2>1
  <2> HIDE DEF rest
  <2> QED BY <1>1, <1>2, <2>2 DEF Publisher
<1>4. Shrinks(w, q)
  BY <1>2, <1>3 DEF Shrinks
<1>5. Shrinks(w, Idle)
  BY IdleTyped DEF Shrinks
<1>6. publisher' = [publisher EXCEPT ![w] = p]
  BY DEF Proceed, OInv, TypeOK
<1> QED BY <1>4, <1>5, <1>6

\* A worker that gives up its batch lets go of all of it.
LEMMA AbandonShrinks ==
  ASSUME NEW w \in Worker, Abandon(w)
  PROVE  Shrinks(w, Idle) /\ publisher' = [publisher EXCEPT ![w] = Idle]
BY IdleTyped DEF Shrinks, Abandon

\* What the two reports write.
LEMMA PublishedReports ==
  ASSUME OInv, NEW w \in Worker, publisher[w].pc = "mark",
         Owns(w, publisher[w].current), Published(w, publisher[w].current)
  PROVE  \E r : /\ Reports(w, publisher[w].current, r) /\ record[publisher[w].current] # None
                /\ record' = [record EXCEPT ![publisher[w].current] = r]
<1> DEFINE e == publisher[w].current
           r == [record[e] EXCEPT !.status = "PUBLISHED", !.wait = 0, !.owner = None,
                                  !.lease = 0]
<1>1. e \in Event /\ publisher[w].batch[e] > 0 /\ delivered[e] > 0 /\ record[e] # None
  BY DEF OInv, PublisherOK
<1>2. record[e] \in Record /\ 0 \in 0 .. LockDuration /\ 0 \in 0 .. MaxDelay
  BY <1>1, Typed, ConfigAssumption
<1>3. r \in Record /\ r.owner = None /\ r.attempts = record[e].attempts /\ r.lease = 0
      /\ r.wait = 0 /\ r.status = "PUBLISHED"
  BY <1>2 DEF Record, Status
<1>4. record' = [record EXCEPT ![e] = r]
  BY <1>1, <1>2 DEF Published, OInv, TypeOK, Record
<1>5. Reports(w, e, r)
  BY <1>1, <1>3 DEF Reports
<1> QED BY <1>1, <1>4, <1>5

\* What MarkFailed and MarkDeadLetter write is such an outcome.
LEMMA FailedReports ==
  ASSUME OInv, NEW w \in Worker, publisher[w].pc = "fail",
         Owns(w, publisher[w].current), Failed(w, publisher[w].current)
  PROVE  \E r : /\ Reports(w, publisher[w].current, r) /\ record[publisher[w].current] # None
                /\ record' = [record EXCEPT ![publisher[w].current] = r]
<1> DEFINE e == publisher[w].current
           n == publisher[w].batch[e]
           dead == n >= MaxAttempts
           s == IF dead THEN "DEAD_LETTERED" ELSE "RETRY_SCHEDULED"
           d == IF dead THEN 0 ELSE Delay(n)
           r == [record[e] EXCEPT !.status = s, !.wait = d, !.attempts = n,
                                  !.owner = None, !.lease = 0]
<1>1. e \in Event /\ n > 0 /\ record[e] # None
  BY DEF OInv, PublisherOK
<1>2. n \in 0 .. Cap /\ n \in Nat \ {0}
  BY <1>1, Typed, BoundsAssumption
<1>3. record[e].owner = w /\ record[e].attempts = n
  BY <1>1 DEF OInv, PublisherOK, Owns
<1>4. Delay(n) \in 0 .. MaxDelay
  BY <1>2, DelayBounded
<1>5. d \in 0 .. MaxDelay /\ (s = "DEAD_LETTERED" => d = 0) /\ s \in Status
      /\ s \in {"RETRY_SCHEDULED", "DEAD_LETTERED"}
  BY <1>4, ConfigAssumption DEF Status
<1>6. record[e] \in Record /\ 0 \in 0 .. LockDuration
  BY <1>1, Typed, ConfigAssumption
<1>7. record' = [record EXCEPT ![e] = r]
  BY <1>1, <1>6 DEF Failed, OInv, TypeOK, Record
<1> HIDE DEF d, s, n
<1>8. r \in Record /\ r.owner = None /\ r.attempts = n /\ r.lease = 0 /\ r.wait = d
      /\ r.status = s
  BY <1>2, <1>5, <1>6 DEF Record
<1>9. Reports(w, e, r)
  BY <1>1, <1>3, <1>5, <1>8 DEF Reports, IsTerminal
<1> QED BY <1>1, <1>7, <1>9

-----------------------------------------------------------------------------
\* MarkPublished keeps the invariant.
LEMMA MarkPublishedKeepsInv ==
  ASSUME OInv, NEW w \in Worker, MarkPublished(w)
  PROVE  OInv'
<1>1. publisher[w].current \in Event
  BY DEF OInv, PublisherOK, MarkPublished
<1>2. PICK p : Shrinks(w, p) /\ publisher' = [publisher EXCEPT ![w] = p]
  BY <1>1, ProceedShrinks DEF MarkPublished
<1>3. PICK e, r : /\ e = publisher[w].current /\ Reports(w, e, r) /\ record[e] # None
                  /\ record' = [record EXCEPT ![e] = r]
  BY PublishedReports DEF MarkPublished
<1>4. faults' \in 0 .. MaxFaults /\ UNCHANGED <<table, delivered>>
  BY DEF OInv, TypeOK, MarkPublished
<1> QED BY <1>2, <1>3, <1>4, ReportKeepsInv

\* MarkFailed and MarkDeadLetter keep it.
LEMMA PersistFailureKeepsInv ==
  ASSUME OInv, NEW w \in Worker, PersistFailure(w)
  PROVE  OInv'
<1>1. publisher[w].current \in Event
  BY DEF OInv, PublisherOK, PersistFailure
<1>2. PICK p : Shrinks(w, p) /\ publisher' = [publisher EXCEPT ![w] = p]
  BY <1>1, ProceedShrinks DEF PersistFailure
<1>3. PICK e, r : /\ e = publisher[w].current /\ Reports(w, e, r) /\ record[e] # None
                  /\ record' = [record EXCEPT ![e] = r]
  BY FailedReports DEF PersistFailure
<1>4. faults' \in 0 .. MaxFaults /\ UNCHANGED <<table, delivered>>
  BY DEF OInv, TypeOK, PersistFailure
<1> QED BY <1>2, <1>3, <1>4, ReportKeepsInv

\* An event left to its lease keeps it.
LEMMA LeaveToLeaseKeepsInv ==
  ASSUME OInv, NEW w \in Worker, LeaveToLease(w)
  PROVE  OInv'
<1>1. publisher[w].current \in Event
  BY DEF OInv, PublisherOK, LeaveToLease
<1>2. PICK p : Shrinks(w, p) /\ publisher' = [publisher EXCEPT ![w] = p]
  BY <1>1, ProceedShrinks DEF LeaveToLease
<1>3. faults' \in 0 .. MaxFaults /\ UNCHANGED <<table, record, delivered>>
  BY DEF OInv, TypeOK, LeaveToLease
<1> QED BY <1>2, <1>3, ShrinkingKeepsInv

\* A lost lease, a failed report and a crash keep it.
LEMMA GivingUpKeepsInv ==
  ASSUME OInv, NEW w \in Worker, LeaseLost(w) \/ ReportFails(w) \/ Crash(w)
  PROVE  OInv'
<1>1. PICK p : Shrinks(w, p) /\ publisher' = [publisher EXCEPT ![w] = p]
  BY AbandonShrinks DEF LeaseLost, ReportFails, Crash
<1>2. faults' \in 0 .. MaxFaults /\ UNCHANGED <<table, delivered>>
  BY BoundsAssumption DEF OInv, TypeOK, LeaseLost, ReportFails, Crash
<1>3. CASE UNCHANGED record
  BY <1>1, <1>2, <1>3, ShrinkingKeepsInv
<1>4. CASE ReportFails(w) /\ ~UNCHANGED record
  <2>1. PICK e, r : /\ e = publisher[w].current /\ Reports(w, e, r) /\ record[e] # None
                    /\ record' = [record EXCEPT ![e] = r]
    BY <1>4, PublishedReports, FailedReports DEF ReportFails
  <2> QED BY <1>1, <1>2, <2>1, ReportKeepsInv
<1> QED BY <1>3, <1>4 DEF LeaseLost, Crash

-----------------------------------------------------------------------------
\* Inserting an event keeps it.
LEMMA InsertKeepsInv ==
  ASSUME OInv, NEW e \in Event, Insert(e)
  PROVE  OInv'
<1>0. PICK ahead \in {0, BaseDelay} :
        record' = [record EXCEPT ![e] = [status |-> "PENDING", attempts |-> 0, owner |-> None,
                                         lease |-> 0, wait |-> ahead]]
  BY DEF Insert
<1> DEFINE r == [status |-> "PENDING", attempts |-> 0, owner |-> None, lease |-> 0,
                 wait |-> ahead]
<1>1. r \in Record /\ r # None
  BY ConfigAssumption, BoundsAssumption, RecordAssumption DEF Record, Status
<1>2. record[e] = None /\ record'[e] = r /\ \A f \in Event \ {e} : record'[f] = record[f]
  BY <1>0 DEF Insert, OInv, TypeOK
<1>3. r.status = "PENDING" /\ r.owner = None /\ r.attempts = 0
  OBVIOUS
<1>4. UNCHANGED <<table, delivered, publisher, faults>> /\ record' = [record EXCEPT ![e] = r]
  BY <1>0 DEF Insert
<1> HIDE DEF r
<1>5. TypeOK'
  <2>1. \A f \in Event : record'[f] # None =>
          /\ record'[f].owner # None => record'[f].status = InFlight
          /\ record'[f].status = "PUBLISHING" => record'[f].owner # None
    BY <1>2, <1>3 DEF OInv, TypeOK
  <2> QED BY <1>1, <1>4, <2>1 DEF OInv, TypeOK, InFlight
<1>6. \A w \in Worker : publisher[w].batch[e] = 0
  <2>1. \A w \in Worker : ~(publisher[w].batch[e] > 0) /\ publisher[w].batch[e] \in 0 .. Cap
    BY <1>2, Typed DEF OInv, PublisherOK
  <2> QED BY <2>1
<1>7. ASSUME NEW w \in Worker PROVE PublisherOK(w, publisher[w])'
  <2>1. \A f \in Event : publisher[w].batch[f] > 0 => record'[f] = record[f]
    BY <1>2, <1>6
  <2> QED BY <1>4, <2>1 DEF OInv, PublisherOK
<1>8. \A f \in Event : RecordOK(f)'
  BY <1>1, <1>2, <1>3, <1>4 DEF OInv, RecordOK, IsTerminal
<1>9. \A f \in Event : AttemptsCover(f)'
  <2>1. \A f \in Event : Outstanding(f)' = Outstanding(f)
    BY <1>4 DEF Outstanding
  <2>2. Outstanding(e) = {}
    BY <1>6 DEF Outstanding
  <2>3. delivered[e] = 0
    BY <1>2 DEF OInv, RecordOK
  <2>4. IsFiniteSet(Outstanding(e)) /\ Cardinality(Outstanding(e)) = 0
    BY <2>2, FS_EmptySet
  <2>5. AttemptsCover(e)'
    BY <1>2, <1>3, <1>4, <2>1, <2>3, <2>4 DEF AttemptsCover
  <2>6. \A f \in Event \ {e} : AttemptsCover(f)'
    BY <1>2, <1>4, <2>1 DEF OInv, AttemptsCover
  <2> QED BY <2>5, <2>6
<1> QED BY <1>5, <1>7, <1>8, <1>9 DEF OInv

\* ReleaseExpiredLocks keeps it: it takes no event from the holder of a live lease.
LEMMA ReleaseKeepsInv ==
  ASSUME OInv, NEW w \in Worker, ReleaseExpiredLocks(w)
  PROVE  OInv'
<1>1. UNCHANGED <<table, delivered, publisher, faults>>
  BY DEF ReleaseExpiredLocks
<1>2. ASSUME NEW e \in Event, e \in Expired
      PROVE  /\ record[e] # None /\ record[e].lease = 0 /\ record[e].status = InFlight
             /\ record'[e] \in Record /\ record'[e] # None /\ record'[e].owner = None
             /\ record'[e].attempts = record[e].attempts /\ record'[e].lease = 0
             /\ record'[e].wait = 0 /\ ~IsTerminal(record'[e].status)
             /\ record'[e].status # "PUBLISHING"
  <2>1. record[e] # None /\ record[e].lease = 0 /\ record[e].status = InFlight
    BY <1>2 DEF Expired
  <2>2. record[e] \in Record /\ 0 \in 0 .. LockDuration /\ 0 \in 0 .. MaxDelay
    BY <2>1, Typed, ConfigAssumption
  <2> DEFINE s == IF table = "outbox" THEN "RETRY_SCHEDULED" ELSE record[e].status
  <2>3. s \in {"RETRY_SCHEDULED", "PENDING"}
    BY <2>1 DEF InFlight
  <2>4. record'[e] = [record[e] EXCEPT !.status = s, !.wait = 0, !.owner = None, !.lease = 0]
    BY <1>2, <2>2 DEF ReleaseExpiredLocks, Record
  <2> HIDE DEF s
  <2>5. record'[e] \in Record
    BY <2>2, <2>3, <2>4 DEF Record, Status
  <2>6. record'[e].owner = None /\ record'[e].attempts = record[e].attempts
        /\ record'[e].lease = 0 /\ record'[e].wait = 0 /\ record'[e].status = s
    BY <2>2, <2>4 DEF Record
  <2> QED BY <2>1, <2>3, <2>5, <2>6, RecordAssumption DEF IsTerminal
<1>3. \A e \in Event : e \notin Expired => record'[e] = record[e]
  BY DEF ReleaseExpiredLocks
<1>4. TypeOK'
  <2>1. record' \in [Event -> Record \cup {None}]
    <3>1. \A e \in Event : record'[e] \in Record \cup {None}
      BY <1>2, <1>3 DEF OInv, TypeOK
    <3> QED BY <3>1 DEF ReleaseExpiredLocks
  <2>2. \A e \in Event : record'[e] # None =>
          /\ record'[e].owner # None => record'[e].status = InFlight
          /\ record'[e].status = "PUBLISHING" => record'[e].owner # None
    BY <1>2, <1>3 DEF OInv, TypeOK
  <2> QED BY <1>1, <2>1, <2>2 DEF OInv, TypeOK, InFlight
<1>5. ASSUME NEW v \in Worker PROVE PublisherOK(v, publisher[v])'
  <2>1. \A e \in Event : publisher[v].batch[e] > 0 =>
          /\ record'[e] # None
          /\ record'[e].owner = v => record'[e].attempts = publisher[v].batch[e]
          /\ publisher[v].lease > 0 =>
               record'[e].owner = v /\ record'[e].lease = publisher[v].lease
    BY <1>2, <1>3, Typed DEF OInv, PublisherOK
  <2> QED BY <1>1, <2>1 DEF OInv, PublisherOK
<1>6. \A e \in Event : RecordOK(e)'
  <2>1. \A e \in Event : e \in Expired => record'[e].status # "PUBLISHED"
    BY <1>2 DEF IsTerminal
  <2> QED BY <1>1, <1>2, <1>3, <2>1 DEF OInv, RecordOK
<1>7. \A e \in Event : AttemptsCover(e)'
  <2>1. \A e \in Event : Outstanding(e)' = Outstanding(e)
    BY <1>1 DEF Outstanding
  <2>2. \A e \in Event : record'[e] # None =>
          record[e] # None /\ record'[e].attempts = record[e].attempts
    BY <1>2, <1>3
  <2> QED BY <1>1, <2>1, <2>2 DEF OInv, AttemptsCover
<1> QED BY <1>4, <1>5, <1>6, <1>7 DEF OInv

\* The passing of time keeps it.
LEMMA TickKeepsInv ==
  ASSUME OInv, Tick
  PROVE  OInv'
<1>1. UNCHANGED <<table, delivered, faults>>
  BY DEF Tick
<1>2. ASSUME NEW e \in Event, record[e] # None
      PROVE  /\ record'[e] \in Record /\ record'[e] # None
             /\ record'[e].status = record[e].status /\ record'[e].owner = record[e].owner
             /\ record'[e].attempts = record[e].attempts
             /\ record'[e].lease = Less(record[e].lease) /\ record'[e].wait = Less(record[e].wait)
  <2>1. record[e] \in Record /\ record[e].lease \in 0 .. LockDuration
        /\ record[e].wait \in 0 .. MaxDelay
    BY <1>2, Typed
  <2>2. Less(record[e].lease) \in 0 .. LockDuration /\ Less(record[e].wait) \in 0 .. MaxDelay
    BY <2>1, LessTyped, ConfigAssumption
  <2>3. record'[e] = [record[e] EXCEPT !.lease = Less(record[e].lease),
                                       !.wait = Less(record[e].wait)]
    BY <1>2, <2>1 DEF Tick, Record
  <2> QED BY <2>1, <2>2, <2>3, RecordAssumption DEF Record
<1>3. \A e \in Event : record[e] = None => record'[e] = None
  BY DEF Tick
<1>4. ASSUME NEW w \in Worker
      PROVE  /\ publisher'[w] \in Publisher /\ publisher'[w].pc = publisher[w].pc
             /\ publisher'[w].current = publisher[w].current
             /\ publisher'[w].batch = publisher[w].batch
             /\ publisher'[w].lease = Less(publisher[w].lease)
             /\ publisher[w].pc = "idle" => publisher'[w] = Idle
  <2>1. CASE publisher[w].pc = "idle"
    <3>1. publisher[w] = Idle /\ publisher'[w] = Idle
      BY <2>1 DEF Tick, OInv, PublisherOK
    <3> QED BY <3>1, <2>1, IdleTyped DEF Less
  <2>2. CASE publisher[w].pc # "idle"
    <3>1. publisher[w] \in Publisher /\ publisher[w].lease \in 0 .. LockDuration
          /\ publisher[w].elapsed \in 0 .. PublishTimeout + CallTime
      BY Typed DEF Publisher
    <3>2. PublishTimeout \in Nat /\ CallTime \in Nat
      BY ConfigAssumption, CallTimeAssumption
    <3>3. publisher[w].elapsed + 1 \in 0 .. PublishTimeout + CallTime
      <4>1. publisher[w].elapsed < Busy(w)
        BY <2>2 DEF Tick
      <4>2. Busy(w) \in Nat /\ Busy(w) <= PublishTimeout + CallTime
        BY <3>2 DEF Busy
      <4> QED BY <3>1, <3>2, <4>1, <4>2
    <3>4. Less(publisher[w].lease) \in 0 .. LockDuration
      BY <3>1, LessTyped, ConfigAssumption
    <3>5. publisher'[w] = [publisher[w] EXCEPT !.lease = Less(publisher[w].lease),
                                               !.elapsed = publisher[w].elapsed + 1]
      BY <2>2, <3>1 DEF Tick, Publisher
    <3> QED BY <2>2, <3>1, <3>3, <3>4, <3>5 DEF Publisher
  <2> QED BY <2>1, <2>2
<1>5. TypeOK'
  <2>1. record' \in [Event -> Record \cup {None}]
    <3>1. \A e \in Event : record'[e] \in Record \cup {None}
      BY <1>2, <1>3
    <3> QED BY <3>1 DEF Tick
  <2>2. publisher' \in [Worker -> Publisher]
    BY <1>4 DEF Tick
  <2>3. \A e \in Event : record'[e] # None =>
          /\ record'[e].owner # None => record'[e].status = InFlight
          /\ record'[e].status = "PUBLISHING" => record'[e].owner # None
    BY <1>2, <1>3 DEF OInv, TypeOK
  <2> QED BY <1>1, <2>1, <2>2, <2>3 DEF OInv, TypeOK, InFlight
<1>6. ASSUME NEW w \in Worker PROVE PublisherOK(w, publisher[w])'
  <2>1. Less(publisher[w].lease) > 0 => publisher[w].lease > 0
    BY Typed, LessTyped, ConfigAssumption
  <2>2. \A e \in Event : publisher[w].batch[e] > 0 =>
          /\ record'[e] # None
          /\ record'[e].owner = w => record'[e].attempts = publisher[w].batch[e]
          /\ Less(publisher[w].lease) > 0 =>
               record'[e].owner = w /\ record'[e].lease = Less(publisher[w].lease)
    BY <1>2, <2>1 DEF OInv, PublisherOK
  <2> QED BY <1>1, <1>4, <2>2 DEF OInv, PublisherOK
<1>7. \A e \in Event : RecordOK(e)'
  <2>1. Less(0) = 0
    BY DEF Less
  <2> QED BY <1>1, <1>2, <1>3, <2>1 DEF OInv, RecordOK
<1>8. \A e \in Event : AttemptsCover(e)'
  <2>1. \A e \in Event : Outstanding(e)' = Outstanding(e)
    BY <1>4 DEF Outstanding
  <2> QED BY <1>1, <1>2, <1>3, <2>1 DEF OInv, AttemptsCover
<1> QED BY <1>5, <1>6, <1>7, <1>8 DEF OInv

-----------------------------------------------------------------------------
\* ClaimReady keeps it: the attempts it counts are within the cap.
LEMMA ClaimKeepsInv ==
  ASSUME OInv, NEW w \in Worker, ClaimReady(w)
  PROVE  OInv'
<1>1. PICK S \in SUBSET Ready :
        /\ publisher[w].pc = "idle"
        /\ record' = [e \in Event |->
             IF e \in S THEN [record[e] EXCEPT !.status = InFlight,
                                !.attempts = Counted(@), !.owner = w,
                                !.lease = LockDuration]
             ELSE record[e]]
        /\ publisher' = [publisher EXCEPT ![w] =
             [Idle EXCEPT !.pc = "publish", !.lease = LockDuration,
                !.batch = [e \in Event |-> IF e \in S THEN Counted(record[e].attempts)
                                           ELSE 0]]]
        /\ UNCHANGED <<table, delivered, faults>>
  BY DEF ClaimReady
<1> DEFINE b == [e \in Event |-> IF e \in S THEN Counted(record[e].attempts) ELSE 0]
           p == [Idle EXCEPT !.pc = "publish", !.lease = LockDuration, !.batch = b]
<1>2. LockDuration \in Nat /\ LockDuration > 0 /\ LockDuration \in 0 .. LockDuration
  BY ConfigAssumption
<1>3. ASSUME NEW e \in S
      PROVE  /\ e \in Event /\ record[e] # None /\ record[e].lease = 0
             /\ record[e] \in Record /\ record[e].attempts \in 0 .. Cap
             /\ Counted(record[e].attempts) \in 0 .. Cap /\ Counted(record[e].attempts) > 0
             /\ record'[e] \in Record /\ record'[e] # None
             /\ record'[e].status = InFlight /\ record'[e].owner = w
             /\ record'[e].attempts = Counted(record[e].attempts)
             /\ record'[e].lease = LockDuration
  <2>1. e \in Event /\ record[e] # None /\ record[e].lease = 0
    BY <1>3 DEF Ready
  <2>2. record[e] \in Record /\ record[e].attempts \in 0 .. Cap
    BY <2>1, Typed
  <2>3. Counted(record[e].attempts) \in 0 .. Cap /\ Counted(record[e].attempts) > 0
    BY <2>2, CountedUp
  <2>4. record'[e] = [record[e] EXCEPT !.status = InFlight,
                        !.attempts = Counted(record[e].attempts), !.owner = w,
                        !.lease = LockDuration]
    BY <1>1, <1>3, <2>1, <2>2 DEF Record
  <2>5. InFlight \in Status
    BY DEF InFlight, Status
  <2>6. record'[e] \in Record
    BY <1>2, <2>2, <2>3, <2>4, <2>5 DEF Record
  <2> QED BY <2>1, <2>2, <2>3, <2>4, <2>6, RecordAssumption DEF Record
<1>4. \A e \in Event \ S : record'[e] = record[e]
  BY <1>1
<1>5. b \in [Event -> 0 .. Cap] /\ \A e \in Event :
        /\ e \in S => b[e] = Counted(record[e].attempts) /\ b[e] > 0
        /\ e \notin S => b[e] = 0
  BY <1>3, BoundsAssumption
<1> HIDE DEF b
<1>6. p \in Publisher /\ p.pc = "publish" /\ p.current = None /\ p.batch = b
      /\ p.lease = LockDuration
  BY <1>2, <1>5, IdleTyped DEF Publisher
<1>7. publisher'[w] = p /\ publisher[w] = Idle
      /\ \A v \in Worker \ {w} : publisher'[v] = publisher[v]
  BY <1>1 DEF OInv, TypeOK, PublisherOK, b
<1> HIDE DEF p
<1>8. TypeOK'
  <2>1. record' \in [Event -> Record \cup {None}]
    <3>1. \A e \in Event : record'[e] \in Record \cup {None}
      BY <1>3, <1>4 DEF OInv, TypeOK
    <3> QED BY <1>1, <3>1
  <2>2. publisher' \in [Worker -> Publisher]
    BY <1>1, <1>6, <1>7 DEF OInv, TypeOK
  <2>3. \A e \in Event : record'[e] # None =>
          /\ record'[e].owner # None => record'[e].status = InFlight
          /\ record'[e].status = "PUBLISHING" => record'[e].owner # None
    BY <1>3, <1>4, NoneAssumption DEF OInv, TypeOK
  <2> QED BY <1>1, <2>1, <2>2, <2>3 DEF OInv, TypeOK, InFlight
<1>9. ASSUME NEW v \in Worker PROVE PublisherOK(v, publisher[v])'
  <2>1. CASE v = w
    <3>1. \A e \in Event : b[e] > 0 =>
            /\ record'[e] # None /\ record'[e].attempts = b[e]
            /\ record'[e].owner = w /\ record'[e].lease = LockDuration
      BY <1>3, <1>5
    <3> QED BY <1>6, <1>7, <2>1, <3>1 DEF PublisherOK
  <2>2. CASE v # w
    <3>1. ASSUME NEW e \in S, publisher[v].batch[e] > 0 PROVE ~(publisher[v].lease > 0)
      BY <1>3, <3>1 DEF OInv, PublisherOK
    <3>2. \A e \in Event : publisher[v].batch[e] > 0 =>
            /\ record'[e] # None
            /\ record'[e].owner = v => record'[e].attempts = publisher[v].batch[e]
            /\ publisher[v].lease > 0 =>
                 record'[e].owner = v /\ record'[e].lease = publisher[v].lease
      BY <1>3, <1>4, <2>2, <3>1 DEF OInv, PublisherOK
    <3>3. PublisherOK(v, publisher[v]) /\ publisher'[v] = publisher[v] /\ delivered' = delivered
      BY <1>1, <1>7, <2>2 DEF OInv
    <3> QED BY <3>2, <3>3 DEF PublisherOK
  <2> QED BY <2>1, <2>2
<1>10. \A e \in Event : RecordOK(e)'
  <2>1. ~IsTerminal(InFlight) /\ InFlight # "PUBLISHED"
    BY DEF IsTerminal, InFlight
  <2> QED BY <1>1, <1>3, <1>4, <2>1 DEF OInv, RecordOK
<1>11. ASSUME NEW e \in Event PROVE AttemptsCover(e)'
  <2> DEFINE O == Outstanding(e)
             T == {v \in Worker : publisher'[v].batch[e] > 0 /\ publisher'[v].current # e}
  <2>1. w \notin O /\ IsFiniteSet(O) /\ Cardinality(O) \in Nat
    <3>1. w \notin O
      BY <1>7, IdleTyped DEF Outstanding
    <3>2. IsFiniteSet(O)
      BY DEF OInv, AttemptsCover
    <3> QED BY <3>1, <3>2, FS_CardinalityType
  <2>2. Outstanding(e)' = T
    BY DEF Outstanding
  <2>3. e \in S => T = O \cup {w}
    BY <1>5, <1>6, <1>7, NoneAssumption DEF Outstanding
  <2>4. e \notin S => T = O
    BY <1>5, <1>6, <1>7, IdleTyped DEF Outstanding
  <2> HIDE DEF O, T
  <2>5. e \in S => IsFiniteSet(T) /\ Cardinality(T) = Cardinality(O) + 1
    BY <2>1, <2>3, FS_AddElement
  <2>6. record[e] # None =>
          /\ record[e].attempts = Cap \/ delivered[e] + Cardinality(O) <= record[e].attempts
          /\ record[e].attempts \in 0 .. Cap
    BY Typed DEF OInv, AttemptsCover, O
  <2>7. CASE e \notin S
    BY <1>1, <1>4, <2>1, <2>2, <2>4, <2>6, <2>7 DEF AttemptsCover
  <2>8. CASE e \in S
    <3>1. record'[e].attempts = Counted(record[e].attempts) /\ record[e] # None
      BY <1>3, <2>8
    <3>2. /\ record[e].attempts # Cap => Counted(record[e].attempts) = record[e].attempts + 1
          /\ record[e].attempts = Cap => Counted(record[e].attempts) = Cap
      BY <2>6, <3>1, CountedUp
    <3>3. delivered[e] \in Nat /\ Cap \in Nat
      BY Typed, BoundsAssumption
    <3>4. record'[e].attempts = Cap \/ delivered[e] + Cardinality(T) <= record'[e].attempts
      BY <2>1, <2>5, <2>6, <2>8, <3>1, <3>2, <3>3
    <3> QED BY <1>1, <2>2, <2>5, <2>8, <3>4 DEF AttemptsCover
  <2> QED BY <2>7, <2>8
<1> QED BY <1>8, <1>9, <1>10, <1>11 DEF OInv

\* Publishing an event keeps it, whatever the publisher answers.
LEMMA PublishKeepsInv ==
  ASSUME OInv, NEW w \in Worker, NEW e \in Event, NEW accepted \in BOOLEAN,
         NEW ok \in BOOLEAN, Publish(w, e, accepted, ok)
  PROVE  OInv'
<1> DEFINE pc == IF ok THEN "mark" ELSE "fail"
           p == [publisher[w] EXCEPT !.pc = pc, !.current = e]
<1>1. publisher[w] \in Publisher /\ publisher[w].pc = "publish" /\ publisher[w].batch[e] > 0
      /\ publisher[w].current = None
  BY Typed DEF Publish, Claimed, OInv, PublisherOK
<1>2. p \in Publisher /\ p.pc = pc /\ p.current = e /\ p.batch = publisher[w].batch
      /\ p.lease = publisher[w].lease /\ pc \in {"mark", "fail"}
  BY <1>1 DEF Publisher
<1>3. publisher'[w] = p /\ publisher' = [publisher EXCEPT ![w] = p]
      /\ \A v \in Worker \ {w} : publisher'[v] = publisher[v]
  BY <1>1 DEF Publish, OInv, TypeOK, Publisher
<1>4. UNCHANGED <<table, record>> /\ faults' \in 0 .. MaxFaults
  BY BoundsAssumption DEF Publish, OInv, TypeOK
<1>5. /\ delivered' \in [Event -> 0 .. Cap]
      /\ \A f \in Event \ {e} : delivered'[f] = delivered[f]
      /\ delivered'[e] = IF accepted THEN Counted(delivered[e]) ELSE delivered[e]
      /\ delivered[e] \in 0 .. Cap
  <2>1. delivered[e] \in 0 .. Cap /\ Counted(delivered[e]) \in 0 .. Cap
    BY Typed, CountedUp
  <2> QED BY <2>1 DEF Publish, OInv, TypeOK
<1>6. /\ delivered'[e] >= delivered[e] /\ delivered'[e] <= delivered[e] + 1
      /\ pc = "mark" => delivered'[e] > 0
  <2>1. /\ Counted(delivered[e]) \in 0 .. Cap /\ Counted(delivered[e]) > 0
        /\ Counted(delivered[e]) >= delivered[e]
        /\ delivered[e] # Cap => Counted(delivered[e]) = delivered[e] + 1
        /\ delivered[e] = Cap => Counted(delivered[e]) = Cap
    BY <1>5, CountedUp
  <2>2. pc = "mark" => accepted
    BY DEF Publish
  <2>3. Cap \in Nat
    BY BoundsAssumption
  <2> HIDE DEF pc
  <2> QED BY <1>5, <2>1, <2>2, <2>3
<1> HIDE DEF pc, p
<1>7. \A f \in Event : delivered[f] > 0 => delivered'[f] > 0
  BY <1>5, <1>6, Typed
<1>8. TypeOK'
  BY <1>2, <1>3, <1>4, <1>5 DEF OInv, TypeOK, InFlight
<1>9. record[e] # None
  BY <1>1 DEF OInv, PublisherOK
<1>10. ASSUME NEW v \in Worker PROVE PublisherOK(v, publisher[v])'
  <2>1. PublisherOK(v, publisher[v])
    BY DEF OInv
  <2>2. CASE v = w
    <3>1. p.pc \in {"mark", "fail"} /\ p.current = e /\ p.batch[e] > 0
          /\ (p.pc = "mark" => delivered'[e] > 0)
      BY <1>1, <1>2, <1>6
    <3>2. p.pc # "idle" /\ p.pc # "publish"
      BY <3>1
    <3> QED BY <1>2, <1>3, <1>4, <2>1, <2>2, <3>1, <3>2 DEF PublisherOK
  <2>3. CASE v # w
    BY <1>3, <1>4, <1>7, <2>1, <2>3 DEF PublisherOK
  <2> QED BY <2>2, <2>3
<1>11. \A f \in Event : RecordOK(f)'
  BY <1>4, <1>5, <1>7, <1>9 DEF OInv, RecordOK
<1>12. ASSUME NEW f \in Event PROVE AttemptsCover(f)'
  <2> DEFINE O == Outstanding(f)
             T == {v \in Worker : publisher'[v].batch[f] > 0 /\ publisher'[v].current # f}
  <2>1. IsFiniteSet(O) /\ Cardinality(O) \in Nat
    BY FS_CardinalityType DEF OInv, AttemptsCover
  <2>2. Outstanding(f)' = T
    BY DEF Outstanding
  <2>3. f # e => T = O
    BY <1>1, <1>2, <1>3, NoneAssumption DEF Outstanding
  <2>4. f = e => T = O \ {w} /\ w \in O
    BY <1>1, <1>2, <1>3, NoneAssumption DEF Outstanding
  <2> HIDE DEF O, T
  <2>5. f = e => IsFiniteSet(T) /\ Cardinality(T) = Cardinality(O) - 1
    BY <2>1, <2>4, FS_RemoveElement
  <2>6. record[f] # None =>
          /\ record[f].attempts = Cap \/ delivered[f] + Cardinality(O) <= record[f].attempts
          /\ record[f].attempts \in 0 .. Cap
    BY Typed DEF OInv, AttemptsCover, O
  <2>7. CASE f # e
    BY <1>4, <1>5, <2>1, <2>2, <2>3, <2>6, <2>7 DEF AttemptsCover
  <2>8. CASE f = e
    <3>1. delivered'[e] \in Nat /\ delivered[e] \in Nat /\ Cap \in Nat
      BY <1>5, BoundsAssumption
    <3>2. record[e].attempts = Cap \/ delivered'[e] + Cardinality(T) <= record[e].attempts
      BY <1>6, <1>9, <2>1, <2>5, <2>6, <2>8, <3>1
    <3> QED BY <1>4, <2>2, <2>5, <2>8, <3>2 DEF AttemptsCover
  <2> QED BY <2>7, <2>8
<1> QED BY <1>8, <1>10, <1>11, <1>12 DEF OInv

-----------------------------------------------------------------------------
\* The invariant holds initially.
LEMMA InitOInv ==
  Init => OInv
<1> SUFFICES ASSUME Init PROVE OInv
  OBVIOUS
<1>1. TypeOK
  BY IdleTyped, BoundsAssumption DEF Init, TypeOK
<1>2. \A w \in Worker : PublisherOK(w, publisher[w])
  BY IdleTyped DEF Init, PublisherOK
<1>3. \A e \in Event : Outstanding(e) = {}
  BY IdleTyped DEF Init, Outstanding
<1>4. \A e \in Event : RecordOK(e) /\ AttemptsCover(e)
  BY <1>3, FS_EmptySet DEF Init, RecordOK, AttemptsCover
<1> QED BY <1>1, <1>2, <1>4 DEF OInv

\* Every step keeps the invariant.
LEMMA NextOInv ==
  OInv /\ [Next]_vars => OInv'
<1> SUFFICES ASSUME OInv, [Next]_vars PROVE OInv'
  OBVIOUS
<1>1. CASE UNCHANGED vars
  <2>1. TypeOK'
    BY <1>1 DEF OInv, TypeOK, InFlight, vars
  <2>2. \A e \in Event : Outstanding(e)' = Outstanding(e)
    BY <1>1 DEF Outstanding, vars
  <2>3. \A e \in Event : RecordOK(e)' /\ AttemptsCover(e)'
    BY <1>1, <2>2 DEF OInv, RecordOK, AttemptsCover, vars
  <2>4. \A w \in Worker : PublisherOK(w, publisher[w])'
    BY <1>1 DEF OInv, PublisherOK, vars
  <2> QED BY <2>1, <2>3, <2>4 DEF OInv
<1>2. CASE Tick
  BY <1>2, TickKeepsInv
<1>3. ASSUME NEW e \in Event, Insert(e) PROVE OInv'
  BY <1>3, InsertKeepsInv
<1>4. ASSUME NEW w \in Worker, Work(w) PROVE OInv'
  BY <1>4, ClaimKeepsInv, PublishKeepsInv, MarkPublishedKeepsInv, PersistFailureKeepsInv,
     LeaveToLeaseKeepsInv, GivingUpKeepsInv DEF Work
<1>5. ASSUME NEW w \in Worker, ReportFails(w) \/ Crash(w) PROVE OInv'
  BY <1>5, GivingUpKeepsInv
<1>6. ASSUME NEW w \in Worker, ReleaseExpiredLocks(w) PROVE OInv'
  BY <1>6, ReleaseKeepsInv
<1> QED BY <1>1, <1>2, <1>3, <1>4, <1>5, <1>6 DEF Next

\* The invariant always holds.
LEMMA OInvHolds ==
  Spec => []OInv
BY InitOInv, NextOInv, PTL DEF Spec

\* The publishers, the outbox records and the counts keep their types, and a
\* record has an owner just while it is in flight, with any number of workers.
THEOREM DeliveryTypeCorrect ==
  Spec => []TypeOK
<1>1. OInv => TypeOK
  BY DEF OInv
<1> QED BY <1>1, OInvHolds, PTL

\* MarkPublished reports only what the broker has accepted, and the broker has
\* accepted an event at most once per attempt that ClaimReady has counted, however
\* leases run out and change hands in between.
THEOREM PublishedWasDelivered ==
  Spec => []PublishedIsDelivered
<1>1. OInv => PublishedIsDelivered
  <2> SUFFICES ASSUME OInv, NEW e \in Event, record[e] # None
               PROVE  delivered[e] <= record[e].attempts
    BY DEF PublishedIsDelivered, OInv, RecordOK
  <2>1. record[e].attempts = Cap \/ delivered[e] + Cardinality(Outstanding(e)) <= record[e].attempts
    BY DEF OInv, AttemptsCover
  <2>2. IsFiniteSet(Outstanding(e))
    BY DEF OInv, AttemptsCover
  <2>3. Cardinality(Outstanding(e)) \in Nat
    BY <2>2, FS_CardinalityType
  <2>4. delivered[e] \in 0 .. Cap /\ record[e].attempts \in 0 .. Cap /\ Cap \in Nat
    BY Typed, BoundsAssumption
  <2> QED BY <2>1, <2>3, <2>4
<1> QED BY <1>1, OInvHolds, PTL

\* ClaimReady gives an event to one worker at a time: two hold a claim on it only
\* when the lease of one of them has run out.
THEOREM LeasesExclude ==
  Spec => []LeasesAreExclusive
<1>1. OInv => LeasesAreExclusive
  <2> SUFFICES ASSUME OInv, NEW v \in Worker, NEW w \in Worker, v # w,
                      NEW e \in Claimed(v) \cap Claimed(w),
                      publisher[v].lease # 0, publisher[w].lease # 0
               PROVE  FALSE
    BY DEF LeasesAreExclusive
  <2>1. e \in Event /\ publisher[v].batch[e] > 0 /\ publisher[w].batch[e] > 0
    BY DEF Claimed
  <2>2. publisher[v].lease > 0 /\ publisher[w].lease > 0
    <3>1. publisher[v].lease \in 0 .. LockDuration /\ publisher[w].lease \in 0 .. LockDuration
      BY Typed
    <3> QED BY <3>1, ConfigAssumption
  <2>3. record[e].owner = v /\ record[e].owner = w
    BY <2>1, <2>2 DEF OInv, PublisherOK
  <2> QED BY <2>3
<1> QED BY <1>1, OInvHolds, PTL

-----------------------------------------------------------------------------
\* What one step does to the record of one event.
RecordMoves(e) ==
  /\ IsTerminal(record[e].status) => record'[e] = record[e]
  /\ record'[e].attempts >= record[e].attempts

\* Writing an outcome moves no record but along its life.
LEMMA ReportMoves ==
  ASSUME OInv, NEW w \in Worker, NEW f, NEW r, Reports(w, f, r), record[f] # None,
         record' = [record EXCEPT ![f] = r], NEW e \in Event, record[e] # None
  PROVE  RecordMoves(e)
<1>1. f \in Event /\ ~IsTerminal(record[f].status) /\ r.attempts = record[f].attempts
  BY DEF Reports, Owns, InFlight, IsTerminal
<1>2. record'[f] = r /\ (e # f => record'[e] = record[e])
  BY <1>1 DEF OInv, TypeOK
<1>3. record[e].attempts \in Nat
  BY Typed
<1> QED BY <1>1, <1>2, <1>3 DEF RecordMoves

\* No step moves a record but along its life.
LEMMA StepMoves ==
  ASSUME OInv, Next, NEW e \in Event, record[e] # None
  PROVE  RecordMoves(e)
<1>1. record[e] \in Record /\ record[e].attempts \in 0 .. Cap /\ record[e].attempts \in Nat
      /\ record[e].lease \in 0 .. LockDuration /\ record[e].wait \in 0 .. MaxDelay
  BY Typed
<1>2. CASE UNCHANGED record
  BY <1>1, <1>2 DEF RecordMoves
<1>3. CASE Tick
  <2>1. record'[e] = [record[e] EXCEPT !.lease = Less(record[e].lease),
                                       !.wait = Less(record[e].wait)]
    BY <1>1, <1>3 DEF Tick, Record
  <2>2. record'[e].attempts = record[e].attempts
    BY <1>1, <2>1 DEF Record
  <2>3. IsTerminal(record[e].status) => Less(record[e].lease) = record[e].lease
                                        /\ Less(record[e].wait) = record[e].wait
    BY DEF OInv, RecordOK, Less
  <2>4. IsTerminal(record[e].status) => record'[e] = record[e]
    BY <1>1, <2>1, <2>3 DEF Record
  <2> QED BY <1>1, <2>2, <2>4 DEF RecordMoves
<1>4. ASSUME NEW f \in Event, Insert(f) PROVE RecordMoves(e)
  <2>1. record'[e] = record[e]
    BY <1>4 DEF Insert
  <2> QED BY <1>1, <2>1 DEF RecordMoves
<1>5. ASSUME NEW w \in Worker, ClaimReady(w) PROVE RecordMoves(e)
  <2>1. PICK S \in SUBSET Ready :
          record' = [f \in Event |->
             IF f \in S THEN [record[f] EXCEPT !.status = InFlight,
                                !.attempts = Counted(@), !.owner = w,
                                !.lease = LockDuration]
             ELSE record[f]]
    BY <1>5 DEF ClaimReady
  <2>2. CASE e \notin S
    <3>1. record'[e] = record[e]
      BY <2>1, <2>2
    <3> QED BY <1>1, <3>1 DEF RecordMoves
  <2>3. CASE e \in S
    <3>1. ~IsTerminal(record[e].status)
      BY <2>3 DEF Ready, IsTerminal
    <3>2. record'[e].attempts = Counted(record[e].attempts)
      BY <1>1, <2>1, <2>3 DEF Record
    <3> QED BY <1>1, <3>1, <3>2, CountedUp DEF RecordMoves
  <2> QED BY <2>2, <2>3
<1>6. ASSUME NEW w \in Worker, MarkPublished(w) PROVE RecordMoves(e)
  <2>1. PICK f, r : /\ f = publisher[w].current /\ Reports(w, f, r) /\ record[f] # None
                    /\ record' = [record EXCEPT ![f] = r]
    BY <1>6, PublishedReports DEF MarkPublished
  <2> QED BY <2>1, ReportMoves
<1>7. ASSUME NEW w \in Worker, PersistFailure(w) PROVE RecordMoves(e)
  <2>1. PICK f, r : /\ f = publisher[w].current /\ Reports(w, f, r) /\ record[f] # None
                    /\ record' = [record EXCEPT ![f] = r]
    BY <1>7, FailedReports DEF PersistFailure
  <2> QED BY <2>1, ReportMoves
<1>8. ASSUME NEW w \in Worker, ReportFails(w), ~UNCHANGED record PROVE RecordMoves(e)
  <2>1. PICK f, r : /\ f = publisher[w].current /\ Reports(w, f, r) /\ record[f] # None
                    /\ record' = [record EXCEPT ![f] = r]
    BY <1>8, PublishedReports, FailedReports DEF ReportFails
  <2> QED BY <2>1, ReportMoves
<1>9. ASSUME NEW w \in Worker, ReleaseExpiredLocks(w) PROVE RecordMoves(e)
  <2>1. CASE e \notin Expired
    <3>1. record'[e] = record[e]
      BY <1>9, <2>1 DEF ReleaseExpiredLocks
    <3> QED BY <1>1, <3>1 DEF RecordMoves
  <2>2. CASE e \in Expired
    <3>1. ~IsTerminal(record[e].status)
      BY <2>2 DEF Expired, InFlight, IsTerminal
    <3>2. record'[e].attempts = record[e].attempts
      BY <1>1, <1>9, <2>2 DEF ReleaseExpiredLocks, Record
    <3> QED BY <1>1, <3>1, <3>2 DEF RecordMoves
  <2> QED BY <2>1, <2>2
<1> QED
  BY <1>2, <1>3, <1>4, <1>5, <1>6, <1>7, <1>8, <1>9
  DEF Next, Work, Publish, LeaveToLease, LeaseLost, Crash

\* A record that was published or dead-lettered is never written again, by no
\* report of a worker that has lost its lease and by no cleanup, and the attempts
\* it counts never go back, although a failed report writes the worker's own copy
\* of them.
THEOREM LateReportsAreHarmless ==
  Spec => LateReportsChangeNothing
<1>1. OInv /\ [Next]_vars =>
        [\A e \in Event : record[e] # None =>
           /\ IsTerminal(record[e].status) => record'[e] = record[e]
           /\ record'[e].attempts >= record[e].attempts]_vars
  BY StepMoves DEF RecordMoves
<1> QED BY <1>1, OInvHolds, PTL DEF Spec, LateReportsChangeNothing

=============================================================================
