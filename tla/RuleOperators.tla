---------------------------- MODULE RuleOperators ----------------------------
(***************************************************************************)
(* The rule operators of src/ruleoperator: what each decides of the        *)
(* evidence snapshots it is given, in whatever order they come.            *)
(*                                                                         *)
(* A selector is a record [type, source, pointer] whose source may be None *)
(* (any source) and whose pointer is None if its text is no JSON pointer.  *)
(* The type is a record [text, trimmed] of the text as the document has it *)
(* and without the blanks around it, None if nothing is left.  A rule is a *)
(* record with the fields that its operator uses: see PolicyDocument,      *)
(* which says which rules can be compiled.                                 *)
(***************************************************************************)
EXTENDS EvidenceQualification

Pass == [status |-> "PASS", reason |-> None]
Fail(r) == [status |-> "FAIL", reason |-> r]
Inconclusive(r) == [status |-> "INCONCLUSIVE", reason |-> r]

\* normalizeSelector: the type must not be blank, but keeps its blanks.
ValidSelector(s) == s.type.trimmed # None /\ s.pointer # None

SelectorMatches(o, s) ==
  o.type = s.type.text /\ (s.source = None \/ o.source = s.source)

Matches(input, s) == {i \in 1 .. Len(input) : SelectorMatches(input[i], s)}

\* The value that a rule is about.  There is none if the selector matches no
\* object or several, or the object has no such field.
SelectValue(input, s) ==
  LET m == Matches(input, s)
      o == input[CHOOSE i \in m : TRUE]
  IN CASE m = {} -> Inconclusive("EVIDENCE_NOT_FOUND")
       [] Cardinality(m) > 1 -> Inconclusive("EVIDENCE_AMBIGUOUS")
       [] Cardinality(m) = 1 /\ s.pointer \notin DOMAIN o.payload
            -> Inconclusive("FIELD_NOT_FOUND")
       [] OTHER -> [status |-> "SELECTED", value |-> o.payload[s.pointer]]

\* Numbers are compared as numbers, however they are written.
NumericValue(input, s) ==
  LET v == SelectValue(input, s)
  IN IF v.status = "SELECTED" /\ v.value.number = None
     THEN Inconclusive("INVALID_VALUE") ELSE v

\* Everything else is compared by its canonical text, numbers too.
Match(rule, input) ==
  LET v == SelectValue(input, rule.selector)
  IN IF v.status # "SELECTED" THEN v
     ELSE IF v.value.text = rule.expected.text THEN Pass ELSE Fail("MATCH_MISMATCH")

InRange(rule, input) ==
  LET v == NumericValue(input, rule.selector)
      n == v.value.number
  IN IF v.status # "SELECTED" THEN v
     ELSE IF rule.minimum.number <= n /\ n <= rule.maximum.number
          THEN Pass ELSE Fail("VALUE_OUT_OF_RANGE")

InTolerance(rule, input) ==
  LET v == NumericValue(input, rule.selector)
      difference == v.value.number - rule.expected.number
  IN IF v.status # "SELECTED" THEN v
     ELSE IF difference <= rule.tolerance.number /\ -difference <= rule.tolerance.number
          THEN Pass ELSE Fail("VALUE_OUTSIDE_TOLERANCE")

RuleSource(rule) == IF "sourceID" \in DOMAIN rule THEN rule.sourceID ELSE None

ExistenceSelector(rule) ==
  [type |-> rule.evidenceType, source |-> RuleSource(rule), pointer |-> <<>>]

Existence(rule, input) ==
  IF Cardinality(Matches(input, ExistenceSelector(rule))) < rule.minimumCount
  THEN Fail("EVIDENCE_COUNT_BELOW_MINIMUM") ELSE Pass

-----------------------------------------------------------------------------
(***************************************************************************)
(* The sequence operator sorts its input and takes, for one step after the *)
(* other, the first object after the previous one that the selector of the *)
(* step matches.  The first step with a problem decides.                   *)
(***************************************************************************)
Chronological(S) ==
  CHOOSE s \in [1 .. Cardinality(S) -> S] :
    \A i, j \in 1 .. Cardinality(S) : i < j => Earlier(s[i], s[j])

Window(rule, field) == IF field \in DOMAIN rule THEN rule[field] ELSE 0

\* The object taken for every step; Len(ordered) + 1 from where none is found.
StepIndexes(steps, ordered) ==
  LET end == Len(ordered) + 1
      at[k \in 0 .. Len(steps)] ==
        LET later == {i \in Matches(ordered, steps[k].selector) : i > at[k - 1]}
        IN CASE k = 0 -> 0
             [] k > 0 /\ later = {} -> end
             [] OTHER -> Min(later)
  IN at

StepDecision(rule, ordered, at, k) ==
  LET step == rule.steps[k]
      o == ordered[at[k]]
      since(i) == o.observedAt - ordered[at[i]].observedAt
      exceeds(window, i) == window > 0 /\ since(i) > window
  IN CASE at[k] > Len(ordered) ->
            IF Matches(ordered, step.selector) = {}
            THEN Inconclusive("SEQUENCE_INCOMPLETE") ELSE Fail("SEQUENCE_ORDER_INVALID")
       [] at[k] <= Len(ordered) ->
            CASE step.selector.pointer \notin DOMAIN o.payload
                   -> Inconclusive("FIELD_NOT_FOUND")
              [] step.selector.pointer \in DOMAIN o.payload
                 /\ o.payload[step.selector.pointer].text # step.expected.text
                   -> Fail("SEQUENCE_VALUE_MISMATCH")
              [] OTHER ->
                   IF k > 1 /\ exceeds(Window(rule, "maxGap"), k - 1)
                   THEN Fail("SEQUENCE_GAP_EXCEEDED")
                   ELSE IF exceeds(Window(rule, "maxDuration"), 1)
                   THEN Fail("SEQUENCE_DURATION_EXCEEDED")
                   ELSE Pass

Sequence(rule, input) ==
  LET ordered == Chronological(Range(input))
      at == StepIndexes(rule.steps, ordered)
      problems == {k \in 1 .. Len(rule.steps) :
                     StepDecision(rule, ordered, at, k) # Pass}
  IN IF problems = {} THEN Pass ELSE StepDecision(rule, ordered, at, Min(problems))

-----------------------------------------------------------------------------
Evaluate(rule, input) ==
  CASE rule.operator = "MATCH" -> Match(rule, input)
    [] rule.operator = "RANGE" -> InRange(rule, input)
    [] rule.operator = "TOLERANCE" -> InTolerance(rule, input)
    [] rule.operator = "EXISTENCE" -> Existence(rule, input)
    [] rule.operator = "SEQUENCE" -> Sequence(rule, input)
=============================================================================
