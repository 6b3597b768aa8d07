--------------------------- MODULE NativeEnvelope ---------------------------
(* Whether the evidence for a native replacement is whole: the declared      *)
(* targets, the direct declaration, the seal over the four pillars and the   *)
(* policy (packages/core, native-rules/deployment.ts, seal.ts, policy.ts and *)
(* rule-identity.ts).                                                        *)
(*                                                                           *)
(* A JSON text is the sequence of its tokens; a string token says whether it *)
(* is written without escapes.  A version is a sequence of numbers.          *)
EXTENDS Absent, Integers, Sequences, FiniteSets, SequencesExt

-----------------------------------------------------------------------------
(* The rules of native replacement: what each covers, what rules it out, and *)
(* which of its differences an inspection of the code can speak about        *)
(* (packages/core, native-rules/rules.ts and the three rules).               *)
Kinds(patterns, kind) == [p \in patterns |-> kind]
AxiosOptions ==
    {"adapter", "signal", "transformRequest", "transformResponse", "onUploadProgress", "onDownloadProgress",
     "responseType", "validateStatus", "timeout"}
AxiosChains == {"interceptors", "defaults", "CancelToken", "error.response", "error.code"}
AXIOS_FETCH_RULE ==
    [id |-> "axios-to-fetch", ecosystem |-> "js", packages |-> {"axios"}, native |-> "fetch()",
     minimumRuntime |-> [node |-> <<21, 0, 0>>], coveredApis |-> {"get"},
     incompatibleUses |-> AxiosOptions \cup AxiosChains \cup {"create"},
     patternKinds |-> [p \in AxiosOptions \cup AxiosChains \cup {"create"} |->
         IF p \in AxiosOptions THEN "option-key-value" ELSE IF p = "create" THEN "member-call" ELSE "property-chain"],
     semanticDifferences |-> <<"statuses", "response.data", "cancellation">>,
     surface |-> None]

UuidCalls == {"v1", "v3", "v5", "v6", "v7", "parse", "stringify", "validate", "version"}
UuidChains == {"NIL", "MAX"}
UUID_RANDOMUUID_RULE ==
    [id |-> "uuid-v4-to-randomuuid", ecosystem |-> "js", packages |-> {"uuid"}, native |-> "randomUUID()",
     minimumRuntime |-> [node |-> <<14, 17, 0>>], coveredApis |-> {"v4"},
     incompatibleUses |-> UuidCalls \cup UuidChains \cup {"v4 options", "v4 buffer", "browser crypto", "custom RNG"},
     patternKinds |-> [p \in UuidCalls \cup UuidChains |-> IF p \in UuidCalls THEN "member-call" ELSE "property-chain"],
     semanticDifferences |-> <<"string only", "availability">>,
     surface |-> None]

CLONEDEEP_STRUCTUREDCLONE_RULE ==
    [id |-> "clonedeep-to-structuredclone", ecosystem |-> "js", packages |-> {"lodash.clonedeep"}, native |-> "structuredClone()",
     minimumRuntime |-> [node |-> <<17, 0, 0>>], coveredApis |-> {"cloneDeep"},
     incompatibleUses |->
         {"functions", "symbols", "DOM nodes", "custom instances", "prototype reliance", "property descriptors", "getters", "setters",
          "RegExp.lastIndex", "non-cloneable values", "customizer", "cloneDeepWith", "transfer options", "browser target"},
     patternKinds |-> [p \in {"cloneDeepWith", "RegExp.lastIndex"} |-> IF p = "cloneDeepWith" THEN "member-call" ELSE "property-chain"],
     semanticDifferences |-> <<"throws", "prototypes", "lastIndex">>,
     surface |-> None]

JS_NATIVE_RULES == <<AXIOS_FETCH_RULE, UUID_RANDOMUUID_RULE, CLONEDEEP_STRUCTUREDCLONE_RULE>>

\* The pairs that are evaluated, and what the adapter is asked to look for.
CandidatesOf(dependencies) ==
    {c \in [dependency : dependencies, rule : {JS_NATIVE_RULES[i] : i \in DOMAIN JS_NATIVE_RULES}] :
        c.rule.ecosystem = c.dependency.ecosystem /\ c.dependency.name \in c.rule.packages}
Searched(rule) == rule.incompatibleUses \cap DOMAIN rule.patternKinds

FlowKinds == {"response-handling", "status-check", "parsed-response", "error-handling", "cancellation-propagation"}
KindDifference(kind, rule) ==
    IF rule.id # "axios-to-fetch" THEN None
    ELSE rule.semanticDifferences[CASE kind = "parsed-response" -> 2 [] kind = "cancellation-propagation" -> 3 [] OTHER -> 1]
Needed(rule, difference) == {k \in FlowKinds : KindDifference(k, rule) = difference}

-----------------------------------------------------------------------------
CONSTANTS
    FloorOf,       \* what FLOOR reads in the text of a minimum version, None if it does not match
    MaxTargets,    \* MAX_TARGETS
    LargestNumber  \* Number.MAX_SAFE_INTEGER

-----------------------------------------------------------------------------
(* JSON texts.  A value is an object of members in order, an array or a      *)
(* scalar; JSON.parse keeps the last member of a name.                       *)

Mark(kind) == [kind |-> kind, text |-> None, plain |-> TRUE]
RECURSIVE Tokens(_)
Between(tokenLists) == FoldLeft(LAMBDA acc, ts : IF acc = <<>> THEN ts ELSE acc \o <<Mark(",")>> \o ts, <<>>, tokenLists)
Tokens(value) ==
    CASE value.is = "object" ->
            <<Mark("{")>> \o Between([i \in DOMAIN value.members |->
                <<[kind |-> "string", text |-> value.members[i].key, plain |-> value.members[i].plain], Mark(":")>> \o Tokens(value.members[i].value)]) \o <<Mark("}")>>
      [] value.is = "array" -> <<Mark("[")>> \o Between([i \in DOMAIN value.items |-> Tokens(value.items[i])]) \o <<Mark("]")>>
      [] OTHER -> <<[kind |-> "string", text |-> value.text, plain |-> value.plain]>>
Keys(object) == {object.members[i].key : i \in DOMAIN object.members}
Member(object, key) ==
    LET at == {i \in DOMAIN object.members : object.members[i].key = key}
    IN  IF at = {} THEN None ELSE object.members[CHOOSE i \in at : \A j \in at : j <= i].value
Has(object, key, text) == Member(object, key) # None /\ Member(object, key).is = "scalar" /\ Member(object, key).text = text

\* Where the bracket that opens at a place closes, and what stands directly inside it.
Nesting(tokens, from, i) ==
    Cardinality({j \in from..i : tokens[j].kind \in {"{", "["}}) - Cardinality({j \in from..i : tokens[j].kind \in {"}", "]"}})
Closing(tokens, open) == CHOOSE i \in open..Len(tokens) : Nesting(tokens, open, i) = 0 /\ \A j \in open..(i - 1) : Nesting(tokens, open, j) > 0
Directly(tokens, open, i) == i > open /\ Nesting(tokens, open, i - 1) = 1
\* Direct members only: neither a name inside a nested value nor one in a string.
ObjectEntries(tokens, open) ==
    LET close == Closing(tokens, open)
        starts == {i \in open..close : Directly(tokens, open, i) /\ tokens[i].kind = "string" /\ tokens[i + 1].kind = ":"}
        End(s) == IF \E t \in starts : t > s THEN (CHOOSE t \in starts : t > s /\ \A u \in starts : u > s => t <= u) - 2 ELSE close - 1
    IN  {[key |-> tokens[s].text, plain |-> tokens[s].plain, start |-> s, value |-> SubSeq(tokens, s + 2, End(s))] : s \in starts}
\* Slip: the names of the outermost object only.
SlipHasDuplicateKeys(tokens) == \E a, b \in ObjectEntries(tokens, 1) : a # b /\ a.key = b.key
HasDuplicateKeys(tokens) ==
    \E o \in DOMAIN tokens : tokens[o].kind = "{" /\ \E a, b \in ObjectEntries(tokens, o) : a # b /\ a.key = b.key
\* The objects of the first array under a name written "targets".
TargetSlices(tokens) ==
    LET named == {i \in 1..(Len(tokens) - 2) : tokens[i] = [kind |-> "string", text |-> "targets", plain |-> TRUE] /\ tokens[i + 1].kind = ":" /\ tokens[i + 2].kind = "["}
        open == 2 + CHOOSE i \in named : \A j \in named : i <= j
        objects == {i \in open..Closing(tokens, open) : Directly(tokens, open, i) /\ tokens[i].kind = "{"}
    IN  IF named = {} THEN None
        ELSE [n \in 1..Cardinality(objects) |->
                LET o == CHOOSE i \in objects : Cardinality({j \in objects : j <= i}) = n IN SubSeq(tokens, o, Closing(tokens, o))]

-----------------------------------------------------------------------------
(* Versions and deployment targets                                         *)

Version(numbers) == IF numbers # None /\ \A i \in DOMAIN numbers : numbers[i] <= LargestNumber THEN numbers ELSE None
Place(v, i) == IF i <= Len(v) THEN v[i] ELSE 0
Meets(actual, required) ==
    \A i \in 1..3 : (\A j \in 1..(i - 1) : Place(actual, j) = Place(required, j)) => Place(actual, i) >= Place(required, i)

Blocked(reason) == [status |-> "blocked", reason |-> reason, targets |-> <<>>]
SameText(a, b) == [i \in DOMAIN a |-> <<a[i].kind, a[i].text>>] = [i \in DOMAIN b |-> <<b[i].kind, b[i].text>>]
WellFormed(entry) == entry.is = "object" /\ Keys(entry) = {"id", "runtime", "minVersion"} /\ \A m \in ToSet(entry.members) : m.value.is = "scalar"
TargetOf(entry) ==
    LET floor == Version(FloorOf[Member(entry, "minVersion").text])
    IN  [target |-> Member(entry, "id").text, runtime |-> Member(entry, "runtime").text,
         minimum |-> IF floor = None THEN None ELSE <<Place(floor, 1), Place(floor, 2), Place(floor, 3)>>]
\* What is wrong with one target, None when nothing is.
TargetFault(rule, entries, i, slices) ==
    LET entry == entries[i] target == TargetOf(entry)
    IN  CASE ~WellFormed(entry) -> "schema-invalid"
          [] \E j \in 1..(i - 1) : WellFormed(entries[j]) /\ Member(entries[j], "id").text = target.target -> "schema-invalid"
          [] ~SameText(slices[i], Tokens(entry)) -> "schema-invalid"
          [] target.minimum = None -> "ambiguous-range"
          [] target.runtime \notin DOMAIN rule.minimumRuntime -> "unsupported-target"
          [] ~Meets(target.minimum, rule.minimumRuntime[target.runtime]) -> "below-floor"
          [] OTHER -> None
Faults(rule, entries, slices) == SelectSeq([i \in DOMAIN entries |-> TargetFault(rule, entries, i, slices)], LAMBDA f : f # None)
\* A file is [there, readable, small, document]; the document None when it is not JSON.
DeploymentGate(rule, file) ==
    LET doc == file.document targets == Member(doc, "targets") slices == TargetSlices(Tokens(doc))
    IN  CASE ~file.there \/ ~file.readable -> Blocked("declaration-unavailable")
          [] ~file.small \/ doc = None -> Blocked("schema-invalid")
          [] HasDuplicateKeys(Tokens(doc)) -> Blocked("schema-invalid")
          [] doc.is # "object" \/ Keys(doc) # {"schemaVersion", "complete", "targets"} \/ ~Has(doc, "schemaVersion", "1") -> Blocked("schema-invalid")
          [] targets.is # "array" \/ Len(targets.items) \notin 1..MaxTargets -> Blocked("schema-invalid")
          [] ~Has(doc, "complete", "true") -> Blocked("incomplete-inventory")
          [] slices = None \/ Len(slices) # Len(targets.items) -> Blocked("schema-invalid")
          [] Faults(rule, targets.items, slices) # <<>> -> Blocked(Faults(rule, targets.items, slices)[1])
          [] OTHER -> [status |-> "pass", reason |-> None, targets |-> [i \in DOMAIN targets.items |-> TargetOf(targets.items[i])]]

-----------------------------------------------------------------------------
(* The direct declaration in package.json                                  *)

Section(kind) ==
    CASE kind = "runtime" -> "dependencies" [] kind = "dev" -> "devDependencies" [] kind = "peer" -> "peerDependencies"
      [] kind = "optional" -> "optionalDependencies" [] OTHER -> None
TheOne(tokens, open, key) ==
    LET named == {e \in ObjectEntries(tokens, open) : e.key = key}
    IN  IF Cardinality(named) # 1 THEN None ELSE LET e == CHOOSE x \in named : TRUE IN IF e.plain THEN e ELSE None
\* A manifest is [listed, document]; the place of the declaration, None when it is not proved.
Declaration(dependency, manifest) ==
    LET doc == manifest.document tokens == Tokens(doc) name == Section(dependency.kind)
        parsed == Member(doc, name)
        section == TheOne(tokens, 1, name)
        entry == TheOne(tokens, section.start + 2, dependency.name)
    IN  CASE dependency.ecosystem # "js" \/ ~manifest.listed \/ dependency.constraint = None \/ name = None -> None
          [] doc = None \/ doc.is # "object" -> None
          [] parsed = None \/ parsed.is # "object" -> None
          [] ~Has(parsed, dependency.name, dependency.constraint) -> None
          [] section = None \/ section.value[1].kind # "{" -> None
          [] entry = None \/ entry.value # <<[kind |-> "string", text |-> dependency.constraint, plain |-> TRUE]>> -> None
          [] OTHER -> entry.start

-----------------------------------------------------------------------------
(* The seal and the policy                                                 *)

\* The rule fields that affect the policy.
RuleIdentity(rule) == IF rule.id = "" \/ rule.packages = {} THEN None ELSE rule

Occurrences(seq, x) == Cardinality({i \in DOMAIN seq : seq[i] = x})
SameMembers(a, b) == Len(a) = Len(b) /\ \A x \in ToSet(a) \cup ToSet(b) : Occurrences(a, x) = Occurrences(b, x)
Pairs(rule, uses) == FlattenSeq([i \in DOMAIN uses |-> [d \in DOMAIN rule.semanticDifferences |-> <<uses[i], rule.semanticDifferences[d]>>]])
UsesOf(matched) == [i \in DOMAIN matched |-> matched[i].use]
InspectedPairs(semantic) == [i \in DOMAIN semantic |-> <<semantic[i].use, semantic[i].difference>>]
\* Every use, every pattern and every difference of a use, once each.
ReferenceComplete(rule, dependency, p) ==
    /\ p.matched.apis # <<>> /\ IsInjective(UsesOf(p.matched.apis))
    /\ SameMembers(Pairs(rule, UsesOf(p.matched.apis)), InspectedPairs(p.semantic.checks))
    /\ Len(p.incompatible.checks) = Cardinality(rule.incompatibleUses)
    /\ {c.pattern : c \in ToSet(p.incompatible.checks)} = rule.incompatibleUses
    /\ \A c \in ToSet(p.incompatible.checks) : c.state = "absent" /\ c.complete
    /\ \A c \in ToSet(p.semantic.checks) : c.state = "inspected" /\ c.sources > 0 /\ c.use \in ToSet(UsesOf(p.matched.apis))
    /\ \A m \in ToSet(p.matched.apis) : m.package = dependency.name
    /\ p.deployment.targets # <<>>
\* `verified` and `final` are the policy of the snapshot when it was verified, None when it was not.
Sealable(p, policy) == p.status = "pass" /\ p.policy # None /\ p.policy = policy
AssembleNativeEnvelope(rule, dependency, p, verified, declared, final) ==
    IF /\ RuleIdentity(rule) # None
       /\ verified # None /\ final = verified
       /\ \A of \in {"deployment", "matched", "incompatible", "semantic"} : Sealable(p[of], verified)
       /\ \A of \in {"matched", "incompatible", "semantic"} : p[of].lineage = "core-reconstructed"
       /\ ReferenceComplete(rule, dependency, p)
       /\ declared # None /\ dependency.name \in rule.packages /\ rule.ecosystem = dependency.ecosystem
    THEN [rule |-> rule, policy |-> final, declaration |-> declared, pillars |-> p]
    ELSE None

EvaluateNativePolicy(rule, dependency, envelope, first, final) ==
    LET p == envelope.pillars
    IN  IF /\ envelope # None /\ RuleIdentity(rule) = envelope.rule
           /\ first = envelope.policy /\ final = first /\ first # None
           /\ \A m \in ToSet(p.matched.apis) : m.package \in rule.packages /\ m.api \in rule.coveredApis
           /\ ReferenceComplete(rule, dependency, p)
           /\ DOMAIN rule.minimumRuntime # {}
           /\ \A t \in ToSet(p.deployment.targets) :
                 t.minimum # None /\ t.runtime \in DOMAIN rule.minimumRuntime /\ Meets(t.minimum, rule.minimumRuntime[t.runtime])
        THEN [rule |-> rule.id, dependency |-> p.matched.apis[1].package, confidence |-> "medium",
              affected |-> {m.use : m \in ToSet(p.matched.apis)}]
        ELSE None
=============================================================================
