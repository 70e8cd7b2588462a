-------------------------- MODULE MCPolicyRegistry --------------------------
(***************************************************************************)
(* PolicyRegistry with a handful of commands and four documents, and the   *)
(* documents that its validator accepts.                                   *)
(* PostgreSQL keeps the odd times; an even one is a fraction of a          *)
(* microsecond later.                                                      *)
(***************************************************************************)
EXTENDS PolicyRegistry, TLC, FiniteSets

CONSTANTS o1, o2

MCSymmetry == Permutations({o1, o2})

MCTrunc(t) == IF t % 2 = 0 THEN t - 1 ELSE t

\* The commands.  Each record lists its fields in the order in which the names
\* first occur here, which is TLC's normal form: its workers share them as they are.
Transition(op, id, at) == [op |-> op, id |-> id, at |-> at]

Register(key, validFrom, validUntil) ==
  [op |-> "register", id |-> key,
   key |-> [validFrom |-> validFrom, validUntil |-> validUntil,
            material |-> "m", revokedAt |-> None]]

Snap(id, from, until, content) ==
  [id |-> id, from |-> from, until |-> until, content |-> content]

Admit(snapshot, signedAt, activatedAt) ==
  [op |-> "admit", key |-> "k", snapshot |-> snapshot, signedAt |-> signedAt,
   activatedAt |-> activatedAt, approvedAt |-> 1, verifiedAt |-> signedAt,
   sound |-> TRUE]

MCRequest ==
  {Register("k", 1, None), Register("k", 2, 5),
   Transition("revoke", "k", 3), Transition("revoke", "k", 4),
   Admit(Snap("v1", 1, 3, "a"), 1, 1), Admit(Snap("v1", 1, 3, "b"), 3, 3),
   Admit(Snap("v1", 1, 3, "c"), 1, 1),
   Admit(Snap("v2", 3, None, "a"), 3, 3), Admit(Snap("v2", 2, None, "d"), 2, 2),
   Admit(Snap("v2", 5, 6, "a"), 1, 5),
   Transition("suspend", "v1", 4), Transition("suspend", "v2", 4),
   Transition("retire", "v1", 3), Transition("retire", "v1", 5)}

-----------------------------------------------------------------------------
(***************************************************************************)
(* The documents.  Each has one rule, on seals.  The type in a selector is *)
(* SEAL, or SEAL between blanks, or a text that no evidence type has, or   *)
(* blank; its pointer is the whole payload, a field, a field or array      *)
(* element "0", or no JSON pointer.                                        *)
(***************************************************************************)
Documents == INSTANCE PolicyDocument

Scalar(number, text) == [kind |-> "scalar", number |-> number, text |-> text]
Closed == Scalar(None, "closed")
Ten == Scalar(10, "10.0")

RuleType == {[text |-> "SEAL", trimmed |-> "SEAL"], [text |-> " SEAL ", trimmed |-> "SEAL"],
             [text |-> "seal", trimmed |-> "seal"], [text |-> " ", trimmed |-> None]}
Selector == [type : RuleType, source : {None, "s1", "s2"},
             pointer : {<<>>, <<"field">>, <<"0">>, None}]
Of(text, source) ==
  CHOOSE s \in Selector :
    s.type.text = text /\ s.source = source /\ s.pointer = <<"field">>

Step(s) == [selector |-> s, expected |-> Closed]
Count(type, source, n) ==
  [operator |-> "EXISTENCE", ruleID |-> "r", evidenceType |-> type, sourceID |-> source,
   minimumCount |-> n]
Rule ==
  [operator : {"MATCH"}, ruleID : {"r"}, selector : Selector,
   expected : {Closed, Documents!Null}]
  \cup [operator : {"RANGE"}, ruleID : {"r"}, selector : Selector,
        minimum : {Scalar(5, "5")}, maximum : {Scalar(10, "10")}]
  \cup [operator : {"TOLERANCE"}, ruleID : {"r"}, selector : Selector,
        expected : {Scalar(12, "12")}, tolerance : {Scalar(2, "2")}]
  \cup {Count(type, source, n) : type \in RuleType, source \in {None, "s1", "s2"}, n \in 0 .. 2}
  \cup {[operator |-> "SEQUENCE", ruleID |-> "r", steps |-> <<Step(Of("SEAL", None)), Step(s)>>] :
          s \in {t \in Selector : t.pointer # <<"0">>}}

Qualification ==
  [trustedSources : {<<>>, <<"s1">>}, allowedTypes : {<<>>, <<"SEAL">>, <<"WEIGHT">>},
   requiredPayloadFields : {<<>>, <<"field">>}, allowedMethods : {<<>>}, maxAge : {0},
   futureTolerance : {0}, requireConfidence : {FALSE}, minimumConfidence : {None},
   requiredProvenance : {<<>>}, version : {"q"}]

Document(q, rule) ==
  [schema |-> "policy.document.v1", required |-> <<"r">>, rules |-> <<rule>>,
   qualification |-> q]

\* The contents in the commands: two that admission accepts, one that only
\* counts seals of a source that is not trusted, and one whose rule wants a
\* type that no evidence has.
Trusting == CHOOSE q \in Qualification :
              /\ q.trustedSources = <<"s1">> /\ q.allowedTypes = <<"SEAL">>
              /\ q.requiredPayloadFields = <<>>
Contents ==
  LET seal == Of("SEAL", None).type
  IN [a |-> Document(Trusting, Count(seal, None, 1)),
      b |-> Document(Trusting, CHOOSE r \in Rule :
                                 r.operator = "MATCH" /\ r.selector = Of("SEAL", "s1")),
      c |-> Document(Trusting, Count(seal, "s2", 1)),
      d |-> Document(Trusting, Count(Of(" SEAL ", None).type, None, 1))]

MCValidDocument(c) == Documents!ValidatePolicyDocument(Contents[c])

-----------------------------------------------------------------------------
(***************************************************************************)
(* The evidence: one or two seals, each with one of twelve payloads.       *)
(***************************************************************************)
Compound(kind, v) == [kind |-> kind, number |-> None, text |-> <<kind, v.text>>]
Payload ==
  UNION {{<<>> :> v, (<<>> :> Compound("array", v)) @@ (<<"0">> :> v),
          (<<>> :> Compound("object", v)) @@ (<<"field">> :> v),
          (<<>> :> Compound("object", v)) @@ (<<"field">> :> Ten) @@ (<<"0">> :> v)} :
           v \in {Ten, Closed, Documents!Null}}

Observed(n, source, payload) ==
  [id |-> n, type |-> "SEAL", observedAt |-> n, session |-> "session", source |-> source,
   confidence |-> None, provenance |-> {}, method |-> "HTTP", payload |-> payload]
Seals(n) == {Observed(n, source, p) : source \in {"s1", "s2"}, p \in Payload}

Qualified ==
  [q \in Qualification |->
     {S \in {{o} : o \in Seals(1)} \cup {{o, p} : o \in Seals(1), p \in Seals(2)} :
        Documents!QualifiesUnder(Document(q, Count(Of("SEAL", None).type, None, 1)),
                                 S, "session", 3)}]

CanPass(q, rule) ==
  \E S \in Qualified[q] : Documents!DecideBy(Document(q, rule), "r", S, None) = "PASS"

\* The demands of a rule do not contradict those on the evidence: the type is
\* one that an evidence object can have, a payload that must have fields is not
\* compared with a scalar, and a field that must be there is not to be null.
Comparisons(rule) ==
  CASE rule.operator = "EXISTENCE" -> {}
    [] rule.operator = "SEQUENCE" ->
         {<<rule.steps[k].selector.pointer, rule.steps[k].expected>> : k \in 1 .. 2}
    [] rule.operator = "MATCH" -> {<<rule.selector.pointer, rule.expected>>}
    [] OTHER -> {<<rule.selector.pointer, Ten>>}
Coherent(q, rule) ==
  /\ \A s \in Documents!Selectors(rule) : s.type.text \in {"SEAL", "WEIGHT"}
  /\ \A c \in Comparisons(rule) :
       /\ c[1] = <<>> => q.requiredPayloadFields = <<>>
       /\ c = <<<<"field">>, Documents!Null>> => q.requiredPayloadFields = <<>>

\* A rule can pass if and only if its document is accepted and it is coherent.
AdmissionIsExact ==
  \A q \in Qualification, rule \in Rule :
    CanPass(q, rule) <=>
      Documents!ValidatePolicyDocument(Document(q, rule)) /\ Coherent(q, rule)

=============================================================================
