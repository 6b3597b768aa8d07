--------------------------- MODULE ResultAssembly ---------------------------
(***************************************************************************)
(* From the outcomes of the adapters to the findings of a result: what a   *)
(* finding is, what the default policy makes of the evidence, and the      *)
(* passes that assemble the result (packages/core).                        *)
(***************************************************************************)
EXTENDS Absent, Integers, Sequences, FiniteSets

-----------------------------------------------------------------------------
(* A finding and how it is ranked and grouped: report/severity.ts and      *)
(* types/finding-group.ts.                                                 *)
(*                                                                         *)
(* A finding is a record; its texts are left out.  "marks" are the markers *)
(* only the engine may set, "limited" says that a limitation names the     *)
(* incomplete scan, "located" that its evidence names a line.              *)

Confidences == {"low", "medium", "high"}
Rank(confidence) == CASE confidence = "low" -> 0 [] confidence = "medium" -> 1 [] confidence = "high" -> 2
CapConfidence(confidence, cap) == IF Rank(confidence) > Rank(cap) THEN cap ELSE confidence

SeverityOrder == <<"critical", "high", "medium", "low", "info">>
SeverityRank(severity) == CHOOSE n \in DOMAIN SeverityOrder : SeverityOrder[n] = severity

\* UNUSED_SEVERITY_CAP and UNUSED_CONFIDENCE_CAP.
UnusedConfidenceCap == "medium"
KindCeiling(kind) ==
    CASE kind \in {"unused", "should-be-dev", "type-only", "duplicate-capability"} -> "medium"
      [] kind \in {"potentially-unnecessary", "maintenance-risk", "footprint"}     -> "low"
      [] OTHER                                                                     -> "info"
SeverityOf(f) ==
    LET rank == SeverityRank(KindCeiling(f.kind)) + (2 - Rank(f.confidence))
    IN  SeverityOrder[IF rank > Len(SeverityOrder) THEN Len(SeverityOrder) ELSE rank]
Stamped(f) == [f EXCEPT !.severity = SeverityOf(f)]
EffectiveSeverity(f) == IF f.severity = None THEN SeverityOf(f) ELSE f.severity
AtOrAbove(f, threshold) == SeverityRank(EffectiveSeverity(f)) <= SeverityRank(threshold)

Finding(kind, rule, dependency, confidence) ==
    [kind |-> kind, rule |-> rule, dependency |-> dependency, confidence |-> confidence,
     severity |-> None, marks |-> {}, limited |-> FALSE, plain |-> TRUE, file |-> None, located |-> TRUE]
Note(rule) == Finding("info", rule, None, "high")
Marked(f, mark) == [f EXCEPT !.marks = {mark}]

\* Only an explicit marker takes an info finding out of "incomplete".
FindingGroup(f) ==
    IF f.kind # "info" THEN "verdict"
    ELSE IF "healthFact" \in f.marks THEN "fact"
    ELSE IF "awareness" \in f.marks THEN "awareness"
    ELSE IF "adapterNote" \in f.marks THEN "note"
    ELSE "incomplete"
InGroup(findings, group) == {f \in findings : FindingGroup(f) = group}

-----------------------------------------------------------------------------
(* The default policy: recommend/policy.ts, allowlist.ts and paths.ts.     *)
(*                                                                         *)
(*   dependency  [ecosystem, project, name, kind, registry, manifest,      *)
(*                located]                                                 *)
(*   usage       [name, path, via, typeOnly, removed]                      *)
(*   graph       [ecosystem, project, closure, peers, unresolved, ...],    *)
(*               each of the three from a direct dependency to names       *)
(*   input       [dependencies, usages, graphs, usageAnalysed,             *)
(*                referenceAnalysed, changes], changes None outside a pull *)
(*               request, else a set of [ecosystem, name, manifest, change] *)
(*   config      [disabled, downgrade, allowlist]                          *)
(*                                                                         *)
(* A path is a sequence of names.  Of several hosts that need a dependency *)
(* the one a note names is left open.                                      *)
CONSTANTS
    TypesTarget,        \* of an @types package: the package it types
    DefaultAllowlist,   \* ecosystem -> [exact, prefixes]
    HasPrefix,          \* the <<name, prefix>> pairs
    Normal,             \* PEP 503: the normal form of a Python name
    NonShippedDirs, NonShippedFiles,
    TypeStripping       \* ecosystems whose build strips types

IsTypes(d) == d.ecosystem = "javascript-typescript" /\ d.name \in DOMAIN TypesTarget
SameProject(a, b) == a.ecosystem = b.ecosystem /\ a.project = b.project

MergedAllowlist(config, ecosystem) ==
    LET Of(lists) == IF ecosystem \in DOMAIN lists THEN lists[ecosystem] ELSE [exact |-> {}, prefixes |-> {}]
    IN  [exact    |-> Of(DefaultAllowlist).exact \cup Of(config.allowlist).exact,
         prefixes |-> Of(DefaultAllowlist).prefixes \cup Of(config.allowlist).prefixes]
IsAllowlisted(config, d) ==
    LET list == MergedAllowlist(config, d.ecosystem)
        Form(name) == IF d.ecosystem = "python" /\ name \in DOMAIN Normal THEN Normal[name] ELSE name
    IN  \/ \E entry \in list.exact : Form(entry) = Form(d.name)
        \/ \E prefix \in list.prefixes : <<Form(d.name), Form(prefix)>> \in HasPrefix

IsNonShippedPath(path) ==
    \/ \E i \in 1..(Len(path) - 1) : path[i] \in NonShippedDirs
    \/ path[Len(path)] \in NonShippedFiles

-----------------------------------------------------------------------------
(* The facts, as every rule sees them                                      *)

\* Slip: a use by a script or a configuration file does not count.
SlipUsagesOf(in, d) == {u \in in.usages : u.name = d.name /\ ~u.removed /\ u.via = "import"}
\* Usage is matched by name alone: the use of a namesake counts as well.
UsagesOf(in, d) == {u \in in.usages : u.name = d.name /\ ~u.removed}
RemovedInPr(in, d) == {u \in in.usages : u.name = d.name /\ u.removed}
Imports(usages) == {u \in usages : u.via = "import"}

DirectsOf(in, g) == {d.name : d \in {e \in in.dependencies : SameProject(e, g)}}
\* The direct dependencies of its own project that lead to d.
Hosts(in, d, edges) ==
    UNION {{host \in DOMAIN g[edges] \ {d.name} : d.name \in g[edges][host] /\ {host, d.name} \subseteq DirectsOf(in, g)}
              : g \in {h \in in.graphs : SameProject(h, d)}}
PeerHosts(in, d)       == Hosts(in, d, "peers")
UnresolvedPeers(in, d) == Hosts(in, d, "unresolved")
RequiredBy(in, d)      == Hosts(in, d, "closure")
IsNeededByAnother(in, d) == PeerHosts(in, d) \cup UnresolvedPeers(in, d) \cup RequiredBy(in, d) # {}

TypesCompanion(in, d) ==
    \E e \in in.dependencies : SameProject(e, d) /\ e.name = TypesTarget[d.name]

HasNoUsageEvidence(in, config, d) ==
    /\ d.ecosystem \in in.usageAnalysed
    /\ d.kind \notin {"peer", "optional"} /\ d.registry
    /\ UsagesOf(in, d) = {}
    /\ ~IsAllowlisted(config, d)
    /\ ~IsTypes(d)

-----------------------------------------------------------------------------
(* The rules: a finding about d, or None                                   *)

Anchored(kind, rule, d, confidence) ==
    [Finding(kind, rule, d.name, confidence) EXCEPT !.file = d.manifest, !.located = d.located]

AmbientTypes(in, config, d) ==
    IF /\ IsTypes(d) /\ UsagesOf(in, d) = {} /\ ~TypesCompanion(in, d)
       /\ d.ecosystem \in in.usageAnalysed /\ ~IsAllowlisted(config, d)
    THEN Anchored("info", "ambient-types-unverified", d, "low") ELSE None

\* Every evidence source was checked, and none speaks for d.
IsUnused(in, config, d) ==
    HasNoUsageEvidence(in, config, d) /\ d.ecosystem \in in.referenceAnalysed /\ ~IsNeededByAnother(in, d)

RemovedLastUsage(in, config, d) ==
    IF in.changes # None /\ RemovedInPr(in, d) # {} /\ IsUnused(in, config, d)
    THEN Anchored("unused", "removed-last-usage", d, "high") ELSE None

Unused(in, config, d) ==
    IF IsUnused(in, config, d) THEN Anchored("unused", "unused", d, "high") ELSE None

UnverifiedNoImports(in, config, d) ==
    IF HasNoUsageEvidence(in, config, d) /\ (IsNeededByAnother(in, d) \/ d.ecosystem \notin in.referenceAnalysed)
    THEN Anchored("info", "unverified-no-imports", d, "low") ELSE None

TypeOnly(in, config, d) ==
    IF /\ d.kind = "runtime" /\ d.ecosystem \in TypeStripping /\ d.name \notin DOMAIN TypesTarget
       /\ UsagesOf(in, d) # {} /\ \A u \in UsagesOf(in, d) : u.typeOnly /\ u.via = "import"
    THEN Finding("type-only", "type-only", d.name, "medium") ELSE None

ShouldBeDev(in, config, d) ==
    IF d.kind = "runtime" /\ Imports(UsagesOf(in, d)) # {} /\ \A u \in Imports(UsagesOf(in, d)) : IsNonShippedPath(u.path)
    THEN Anchored("should-be-dev", "should-be-dev", d, "medium") ELSE None

DefaultRules == <<"ambient-types-unverified", "removed-last-usage", "unused", "unverified-no-imports", "type-only", "should-be-dev">>
Evaluate(rule, in, config, d) ==
    CASE rule = "ambient-types-unverified" -> AmbientTypes(in, config, d)
      [] rule = "removed-last-usage"       -> RemovedLastUsage(in, config, d)
      [] rule = "unused"                   -> Unused(in, config, d)
      [] rule = "unverified-no-imports"    -> UnverifiedNoImports(in, config, d)
      [] rule = "type-only"                -> TypeOnly(in, config, d)
      [] rule = "should-be-dev"            -> ShouldBeDev(in, config, d)

-----------------------------------------------------------------------------
(* The policy: the first rule that speaks, for each dependency in scope    *)

Downgraded(f, config) ==
    IF f.rule \in DOMAIN config.downgrade
    THEN [f EXCEPT !.confidence = CapConfidence(f.confidence, config.downgrade[f.rule])] ELSE f

\* In a pull request: what it added or changed, and what it stopped using.
IsTouched(in, d) ==
    \/ in.changes = None
    \/ \E c \in in.changes : c.change # "removed" /\ c.ecosystem = d.ecosystem /\ c.name = d.name
    \/ RemovedInPr(in, d) # {}

Speaks(rule, in, config, d) == rule \notin config.disabled /\ Evaluate(rule, in, config, d) # None
\* What the first rule that speaks says of d; nothing when none does.
FirstFinding(in, config, d) ==
    {Downgraded(Evaluate(DefaultRules[i], in, config, d), config) :
        i \in {j \in DOMAIN DefaultRules : /\ Speaks(DefaultRules[j], in, config, d)
                                         /\ \A k \in 1..(j - 1) : ~Speaks(DefaultRules[k], in, config, d)}}
DefaultPolicy(in, config) ==
    UNION {FirstFinding(in, config, d) : d \in {e \in in.dependencies : IsTouched(in, e)}}

SummariseFindings(findings) ==
    [total |-> Cardinality(findings),
     byConfidence |-> [c \in Confidences |-> Cardinality({f \in findings : f.confidence = c})]]

-----------------------------------------------------------------------------
(* How adapter outcomes become one result: assembleAnalysisResult of       *)
(* packages/core/src/engine/analyse.ts, with manifest-malformed.ts,        *)
(* capability-duplicates.ts, capability-overlap.ts, adapter-notes.ts and   *)
(* declared-lines.ts.                                                      *)
(*                                                                         *)
(*   outcome  [ecosystem, detected, dependencies, usages, graphs,          *)
(*             usageAnalysed, referenceAnalysed, usageIncomplete, findings, *)
(*             notes, malformed, adapterNotes]; an outcome that was not     *)
(*             detected has findings only                                   *)
(*   context  [incomplete, notes, excluded, engineNotes, config, limited]  *)
(*   changes  None, or the dependency changes of the pull request          *)
(*                                                                         *)
(* Findings are a set: two findings that agree in every field modelled     *)
(* here are one.  Health, impact and the unified graph are ResultFacts.    *)
CONSTANTS
    Clusters,           \* the catalogue: sets of <<ecosystem, normal name>>
    SingleEcosystem,    \* the clusters with crossEcosystem: false
    MaxNotes            \* MAX_ADAPTER_NOTES, MAX_MALFORMED_MANIFEST_NOTES

AbsenceKinds == {"unused", "potentially-unnecessary"}
Detected(outcomes) == {o \in outcomes : o.detected}
Merged(outcomes, part) == UNION {o[part] : o \in Detected(outcomes)}

-----------------------------------------------------------------------------
(* What is missing from the facts                                          *)

\* As many notes as there is room for; which ones is left to the order of the adapters.
SomeOf(notes) == notes \cap CHOOSE part \in SUBSET notes : Cardinality(part) = MaxNotes

ManifestMalformedNotes(outcomes) ==
    LET broken == UNION {{<<o.ecosystem, m>> : m \in o.malformed} : o \in Detected(outcomes)}
        note   == {[Note("manifest-malformed") EXCEPT !.file = b[2]] : b \in broken}
    IN  IF Cardinality(broken) <= MaxNotes THEN note
        ELSE {[Note("manifest-malformed") EXCEPT !.file = "more"]} \cup SomeOf(note)

ScanNotes(outcomes, context) ==
    context.notes \cup (UNION {o.notes : o \in outcomes}) \cup ManifestMalformedNotes(outcomes)
ScanIncomplete(outcomes, context) ==
    context.incomplete \/ ScanNotes(outcomes, context) # {} \/ context.excluded

PullRequestCoverageFindings(changes, dependencies, ecosystems) ==
    LET Missed(c) == [Note(None) EXCEPT !.dependency = c.name, !.file = c.manifest]
        Listed(c) == \E d \in dependencies :
                         d.name = c.name /\ d.ecosystem = c.ecosystem /\ d.manifest = c.manifest
    IN  {Missed(c) : c \in {e \in changes : e.change # "removed" /\ e.ecosystem \notin ecosystems}}
          \cup {[Missed(c) EXCEPT !.confidence = "medium"] :
                   c \in {e \in changes : e.change # "removed" /\ e.ecosystem \in ecosystems /\ ~Listed(e)}}

Facts(outcomes, changes, context) ==
    [dependencies      |-> Merged(outcomes, "dependencies"),
     usages            |-> Merged(outcomes, "usages"),
     graphs            |-> Merged(outcomes, "graphs"),
     usageAnalysed     |-> {o.ecosystem : o \in {e \in Detected(outcomes) : e.usageAnalysed}},
     referenceAnalysed |-> IF ScanIncomplete(outcomes, context) THEN {}
                           ELSE {o.ecosystem : o \in {e \in Detected(outcomes) : e.usageAnalysed /\ e.referenceAnalysed}},
     changes           |-> changes]

\* What the injected policy adds: None when it throws.
Proposed(proposed) ==
    IF proposed = None THEN {[Note("policy-error") EXCEPT !.confidence = "low"]}
    ELSE {f \in proposed : f.plain}
           \cup (IF \A f \in proposed : f.plain THEN {} ELSE {[Note("policy-rejected") EXCEPT !.confidence = "low"]})

-----------------------------------------------------------------------------
(* What the engine adds by itself, after the policy                        *)

CatalogueName(d) == IF d.ecosystem = "python" /\ d.name \in DOMAIN Normal THEN Normal[d.name] ELSE d.name
InCluster(cluster, d) == <<d.ecosystem, CatalogueName(d)>> \in cluster
\* In a pull request only what it added is reported.
IsAdded(changes, d) ==
    changes = None \/ \E c \in changes : c.change = "added" /\ c.ecosystem = d.ecosystem /\ c.manifest = d.manifest /\ c.name = d.name

CrossEcosystemOverlaps(dependencies, changes) ==
    LET Overlapping(cluster, d) ==
            /\ cluster \notin SingleEcosystem /\ InCluster(cluster, d)
            /\ \E e \in dependencies : InCluster(cluster, e) /\ e.ecosystem # d.ecosystem
    IN  {Marked([Note("cross-ecosystem-capability-overlap") EXCEPT !.dependency = d.name], "awareness") :
            d \in {e \in dependencies : IsAdded(changes, e) /\ \E cluster \in Clusters : Overlapping(cluster, e)}}

DuplicatesRule == "same-ecosystem-capability-duplicates"
IsCandidate(d) == d.kind \notin {"peer", "optional"} /\ d.registry
SameEcosystemDuplicates(dependencies, changes) ==
    LET candidates == {d \in dependencies : IsCandidate(d)}
        Doubled(d) == \E cluster \in Clusters, e \in candidates :
                          InCluster(cluster, d) /\ InCluster(cluster, e) /\ SameProject(d, e) /\ e.name # d.name
    IN  {Marked(Finding("duplicate-capability", DuplicatesRule, d.name, "low"), "awareness") :
            d \in {e \in candidates : Doubled(e) /\ IsAdded(changes, e)}}

AdapterNoteFindings(outcomes) ==
    LET Mapped(o, n) ==
            IF n.dependency = None THEN Marked([Note("adapter-note") EXCEPT !.file = n.statement], "adapterNote")
            ELSE Marked([Note("adapter-capability") EXCEPT !.dependency = n.dependency, !.file = n.statement], "awareness")
        Sound(o, n) == n.statement # None /\ (n.dependency = None \/ \E d \in o.dependencies : d.name = n.dependency)
        notes == UNION {{Mapped(o, n) : n \in {m \in o.adapterNotes : Sound(o, m)}} : o \in Detected(outcomes)}
    IN  IF Cardinality(notes) <= MaxNotes THEN notes
        ELSE {Marked([Note("adapter-note") EXCEPT !.file = "more"], "adapterNote")} \cup SomeOf(notes)

UsageAttributionNote(outcomes) ==
    IF /\ \E o \in Detected(outcomes) : o.usageIncomplete
       /\ \E o \in outcomes : o.usages # {}
    THEN {Marked(Note("usage-attribution"), "adapterNote")} ELSE {}

DeclarationAnchored == {"removed-last-usage", "unused", "unverified-no-imports", "should-be-dev"}
DeclarationLineNote(findings) ==
    IF \E f \in findings : f.rule \in DeclarationAnchored /\ ~f.located THEN {Note("declaration-line-unavailable")} ELSE {}

-----------------------------------------------------------------------------
(* The result                                                              *)

\* Severity is core's, and so are the markers: whatever an adapter or the policy set is gone.
Owned(f) == Stamped([f EXCEPT !.marks = {}])

Provisional(f) ==
    IF f.kind \in AbsenceKinds THEN [f EXCEPT !.confidence = CapConfidence(f.confidence, "medium"), !.limited = TRUE] ELSE f

\* Slip: the shipping gate is lifted for all but the default policy's rules.
SlipGated(findings) ==
    LET Cap(f) == IF f.rule = "unused" THEN [f EXCEPT !.confidence = CapConfidence(f.confidence, UnusedConfidenceCap)] ELSE f
    IN  {Cap(f) : f \in findings}
\* The shipping gate for "unused": after the severity is stamped.
Gated(findings) ==
    LET Cap(f) == IF f.kind = "unused" THEN [f EXCEPT !.confidence = CapConfidence(f.confidence, UnusedConfidenceCap)] ELSE f
    IN  {Cap(f) : f \in findings}
          \cup (IF \A f \in findings : Cap(f) = f THEN {} ELSE {Stamped(Note("unused-confidence-capped"))})

\* No confident claim that something is not needed stands on partial facts.
Checked(findings, outcomes, context) ==
    LET kept == IF \A o \in Detected(outcomes) : ~o.usageIncomplete THEN findings
                ELSE {f \in findings : f.kind \notin AbsenceKinds}
    IN  IF ~ScanIncomplete(outcomes, context) THEN kept
        ELSE {Provisional(f) : f \in kept} \cup ScanNotes(outcomes, context) \cup {Note("partial-scan")}

AssembledFindings(outcomes, proposed, changes, context) ==
    LET dependencies == Merged(outcomes, "dependencies")
        reported == context.engineNotes
                      \cup (UNION {o.findings : o \in outcomes})
                      \cup (IF changes = None THEN {}
                            ELSE PullRequestCoverageFindings(changes, dependencies, {o.ecosystem : o \in Detected(outcomes)}))
                      \cup Proposed(proposed)
        owned    == {Owned(f) : f \in Checked(reported, outcomes, context)}
        doubles  == IF DuplicatesRule \in context.config.disabled THEN {}
                    ELSE {Downgraded(f, context.config) : f \in SameEcosystemDuplicates(dependencies, changes)}
        added    == CrossEcosystemOverlaps(dependencies, changes) \cup doubles
                      \cup AdapterNoteFindings(outcomes) \cup UsageAttributionNote(outcomes)
        gated    == Gated(owned \cup {Stamped(f) : f \in added})
        all      == gated \cup (IF context.limited THEN {Stamped(Marked(Note("impact-limited"), "adapterNote"))} ELSE {})
    IN  all \cup {Stamped(f) : f \in DeclarationLineNote(all)}
=============================================================================
