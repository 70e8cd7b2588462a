---------------------------- MODULE PolicyDocument ----------------------------
(***************************************************************************)
(* The compiler of policy.document.v1 (src/ruleoperator/                   *)
(* policy_compiler.go): which documents yield a qualifier and rule         *)
(* operators, which ones admission accepts, and what the compiled operator *)
(* of a rule decides.                                                      *)
(*                                                                         *)
(* A policy version is a record [schema, qualification, rules, required].  *)
(* A rule is a record of ruleID, operator and the fields that the JSON     *)
(* object has; a qualification policy lists its sources, types and methods *)
(* in sequences, without the blanks around them.  None stands for what is  *)
(* absent or blank.  The numbers of a rule are the values that decimal     *)
(* makes of their texts, which must be JSON numbers.                       *)
(***************************************************************************)
EXTENDS RuleOperators

\* The fields an operator must have and those it may have: any other field
\* makes the document invalid.
RequiredFields ==
  [MATCH |-> {"selector", "expected"},
   RANGE |-> {"selector", "minimum", "maximum"},
   TOLERANCE |-> {"selector", "expected", "tolerance"},
   EXISTENCE |-> {"evidenceType", "minimumCount"},
   SEQUENCE |-> {"steps"}]
OptionalFields ==
  [MATCH |-> {}, RANGE |-> {}, TOLERANCE |-> {},
   EXISTENCE |-> {"sourceID"}, SEQUENCE |-> {"maxGap", "maxDuration"}]

Fields(rule) == DOMAIN rule \ {"ruleID", "operator"}

\* What the rule reads: the evidence its selectors name.
Selectors(rule) ==
  CASE rule.operator = "EXISTENCE" -> {ExistenceSelector(rule)}
    [] rule.operator = "SEQUENCE" ->
         {rule.steps[k].selector : k \in 1 .. Len(rule.steps)}
    [] OTHER -> {rule.selector}

IsNumber(v) == v.number # None

\* The constructors' checks.
ValidArguments(rule) ==
  CASE rule.operator = "MATCH" -> TRUE
    [] rule.operator = "RANGE" ->
         /\ IsNumber(rule.minimum) /\ IsNumber(rule.maximum)
         /\ rule.minimum.number <= rule.maximum.number
    [] rule.operator = "TOLERANCE" ->
         /\ IsNumber(rule.expected) /\ IsNumber(rule.tolerance)
         /\ rule.tolerance.number >= 0
    [] rule.operator = "EXISTENCE" -> rule.minimumCount > 0
    [] rule.operator = "SEQUENCE" ->
         /\ Len(rule.steps) >= 2
         /\ \A k \in 1 .. Len(rule.steps) : "expected" \in DOMAIN rule.steps[k]
         /\ Window(rule, "maxGap") >= 0 /\ Window(rule, "maxDuration") >= 0

CompilePolicyRule(rule) ==
  /\ rule.operator \in DOMAIN RequiredFields
  /\ RequiredFields[rule.operator] \subseteq Fields(rule)
  /\ Fields(rule) \subseteq RequiredFields[rule.operator] \cup OptionalFields[rule.operator]
  /\ \A s \in Selectors(rule) : ValidSelector(s)
  /\ ValidArguments(rule)

\* The first rule with the identifier.
RuleNamed(v, id) ==
  v.rules[Min({i \in 1 .. Len(v.rules) : v.rules[i].ruleID = id})]

CompileRule(v, id) ==
  /\ v.schema = "policy.document.v1"
  /\ id # None /\ v.rules # <<>>
  /\ \A i \in 1 .. Len(v.rules) : v.rules[i].ruleID # None
  /\ \A i, j \in 1 .. Len(v.rules) : v.rules[i].ruleID = v.rules[j].ruleID => i = j
  /\ \E i \in 1 .. Len(v.rules) : v.rules[i].ruleID = id
  /\ CompilePolicyRule(RuleNamed(v, id))

-----------------------------------------------------------------------------
\* stringSet, stringList and the loop over the types: no blank, no repetition.
ValidList(s) == None \notin Range(s) /\ Cardinality(Range(s)) = Len(s)

\* The policy handed to NewQualifier.
CompiledQualification(v) ==
  [v.qualification EXCEPT !.trustedSources = Range(@), !.allowedTypes = Range(@),
                          !.allowedMethods = Range(@), !.requiredProvenance = Range(@),
                          !.requiredPayloadFields = Range(@)]

CompileQualificationPolicy(v) ==
  /\ v.schema = "policy.document.v1" /\ v.qualification # None
  /\ \A field \in {"trustedSources", "allowedTypes", "allowedMethods",
                   "requiredProvenance", "requiredPayloadFields"} :
       ValidList(v.qualification[field])
  /\ ValidQualificationPolicy(CompiledQualification(v))


\* validateEvidenceQualificationScope, which looks at the type without its blanks.
InScope(q, s) ==
  /\ q.allowedTypes = {} \/ s.type.trimmed \in q.allowedTypes
  /\ s.source = None \/ q.trustedSources = {} \/ s.source \in q.trustedSources

\* What admission demands of a version.
ValidatePolicyDocument(v) ==
  /\ CompileQualificationPolicy(v)
  /\ \A id \in Range(v.required) :
       /\ CompileRule(v, id)
       /\ \A s \in Selectors(RuleNamed(v, id)) : InScope(CompiledQualification(v), s)

-----------------------------------------------------------------------------
\* QualifyAndBind and Execute with version v, on the session's evidence S.
QualifiesUnder(v, S, session, t) ==
  QualifySet(CompiledQualification(v), S, session, t) = "QUALIFIED"

DecideBy(v, id, S, failure) ==
  IF CompileRule(v, id)
  THEN Evaluate(RuleNamed(v, id), Chronological(S)).status
  ELSE failure
=============================================================================
