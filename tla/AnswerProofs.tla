--------------------------- MODULE AnswerProofs ------------------------------
(***************************************************************************)
(* Proofs about what a result may claim and what a clean check promises    *)
(* (modules ResultAssembly and Reporting), for every analysis, policy and  *)
(* configuration: whatever the passes of the assembly add, drop and cap, a *)
(* finding that something is not needed is one that was proposed, and one  *)
(* that was proposed by the default policy stands on all the evidence.     *)
(* That a line of arguments is read as it is meant, by induction over its  *)
(* arguments: of those after which something was read amiss the first      *)
(* would follow one after which nothing was.  And about the removal that   *)
(* is previewed (module ResultFacts).                                      *)
(***************************************************************************)
EXTENDS Reporting, ResultFacts, FiniteSetTheorems, SequenceTheorems, TLAPS

-----------------------------------------------------------------------------
(* Findings and what the passes make of them                               *)

LEMMA CapsAreConfidences ==
    /\ \A c, d \in Confidences : CapConfidence(c, d) \in Confidences
    /\ \A c \in Confidences : CapConfidence(c, "medium") # "high"
BY DEF CapConfidence, Rank, Confidences

\* A severity depends on what is claimed and how surely.
LEMMA SeverityIsOfKindAndConfidence ==
    ASSUME NEW f, NEW g, f.kind = g.kind, f.confidence = g.confidence
    PROVE  SeverityOf(f) = SeverityOf(g)
BY DEF SeverityOf

LEMMA FindingsAreFindings ==
    ASSUME NEW kind, NEW rule, NEW dependency, NEW confidence \in Confidences
    PROVE  LET f == Finding(kind, rule, dependency, confidence)
           IN  IsFinding(f) /\ f.kind = kind /\ f.rule = rule /\ f.dependency = dependency
               /\ f.confidence = confidence /\ f.marks = {} /\ f.plain
BY DEF Finding, IsFinding

LEMMA NotesAreFindings ==
    ASSUME NEW rule
    PROVE  IsFinding(Note(rule)) /\ Note(rule).kind = "info" /\ Note(rule).marks = {}
BY DEF Note, Finding, IsFinding, Confidences

\* Each pass changes only the fields it is about.
LEMMA PassesKeepFindings ==
    ASSUME NEW f, IsFinding(f)
    PROVE  /\ IsFinding(Stamped(f)) /\ Stamped(f).kind = f.kind /\ Stamped(f).marks = f.marks
           /\ \A mark : /\ IsFinding(Marked(f, mark)) /\ Marked(f, mark).kind = f.kind
                        /\ Marked(f, mark).marks = {mark}
           /\ IsFinding(Provisional(f)) /\ Provisional(f).kind = f.kind
           /\ Provisional(f).rule = f.rule /\ Provisional(f).dependency = f.dependency
           /\ Provisional(f).file = f.file
           /\ f.kind \in AbsenceKinds => Provisional(f).limited /\ Provisional(f).confidence # "high"
<1>1. /\ [f EXCEPT !.confidence = CapConfidence(f.confidence, "medium"), !.limited = TRUE].confidence
             = CapConfidence(f.confidence, "medium")
      /\ CapConfidence(f.confidence, "medium") \in Confidences
      /\ CapConfidence(f.confidence, "medium") # "high"
  BY CapsAreConfidences DEF IsFinding, Confidences
<1> QED BY <1>1 DEF IsFinding, Stamped, Marked, Provisional

LEMMA OwnedKeepsClaims ==
    ASSUME NEW f, IsFinding(f)
    PROVE  /\ IsFinding(Owned(f)) /\ Owned(f).marks = {}
           /\ Owned(f).kind = f.kind /\ Owned(f).rule = f.rule /\ Owned(f).dependency = f.dependency
           /\ Owned(f).file = f.file /\ Owned(f).limited = f.limited /\ Owned(f).confidence = f.confidence
           /\ Owned(f).severity = SeverityOf(f)
<1> DEFINE g == [f EXCEPT !.marks = {}]
<1>1. /\ IsFinding(g) /\ g.marks = {} /\ g.kind = f.kind /\ g.rule = f.rule
      /\ g.dependency = f.dependency /\ g.file = f.file
      /\ g.limited = f.limited /\ g.confidence = f.confidence
  BY DEF IsFinding
<1>2. SeverityOf(g) = SeverityOf(f)
  BY <1>1, SeverityIsOfKindAndConfidence
<1>3. Owned(f) = [g EXCEPT !.severity = SeverityOf(g)]
  BY DEF Owned, Stamped
<1> HIDE DEF g
<1> QED BY <1>1, <1>2, <1>3 DEF IsFinding

LEMMA DowngradesKeepClaims ==
    ASSUME NEW f, IsFinding(f), NEW config,
           \A rule \in DOMAIN config.downgrade : config.downgrade[rule] \in Confidences
    PROVE  /\ IsFinding(Downgraded(f, config))
           /\ Downgraded(f, config).kind = f.kind /\ Downgraded(f, config).rule = f.rule
           /\ Downgraded(f, config).dependency = f.dependency /\ Downgraded(f, config).file = f.file
<1>1. f.rule \in DOMAIN config.downgrade =>
          CapConfidence(f.confidence, config.downgrade[f.rule]) \in Confidences
  BY CapsAreConfidences DEF IsFinding
<1> QED BY <1>1 DEF Downgraded, IsFinding

-----------------------------------------------------------------------------
(* The default policy                                                      *)

\* A rule that says a dependency is not needed has found it so.
LEMMA RulesThatConvict ==
    ASSUME NEW i \in DOMAIN DefaultRules, NEW in, NEW config, NEW d,
           Evaluate(DefaultRules[i], in, config, d) # None
    PROVE  LET f == Evaluate(DefaultRules[i], in, config, d)
           IN  /\ IsFinding(f)
               /\ f.kind \in AbsenceKinds =>
                     IsUnused(in, config, d) /\ f.dependency = d.name /\ f.file = d.manifest
<1> DEFINE rule == DefaultRules[i]  f == Evaluate(rule, in, config, d)
<1>1. rule \in {"ambient-types-unverified", "removed-last-usage", "unused", "unverified-no-imports",
                "type-only", "should-be-dev"}
  BY DEF DefaultRules
<1>2. ASSUME NEW kind, NEW name, NEW confidence \in Confidences
      PROVE  LET g == Anchored(kind, name, d, confidence)
             IN  IsFinding(g) /\ g.kind = kind /\ g.dependency = d.name /\ g.file = d.manifest
  BY DEF Anchored, Finding, IsFinding
<1>3. "low" \in Confidences /\ "medium" \in Confidences /\ "high" \in Confidences
  BY DEF Confidences
<1> HIDE DEF rule
<1>4. CASE rule = "ambient-types-unverified"
  <2>1. f = AmbientTypes(in, config, d)
    BY <1>4 DEF Evaluate
  <2>2. f = Anchored("info", "ambient-types-unverified", d, "low")
    BY <2>1 DEF AmbientTypes, rule
  <2> QED BY <1>2, <1>3, <2>2 DEF AbsenceKinds, rule
<1>5. CASE rule = "removed-last-usage"
  <2>1. f = RemovedLastUsage(in, config, d)
    BY <1>5 DEF Evaluate
  <2>2. f = Anchored("unused", "removed-last-usage", d, "high") /\ IsUnused(in, config, d)
    BY <2>1 DEF RemovedLastUsage, rule
  <2> QED BY <1>2, <1>3, <2>2 DEF rule
<1>6. CASE rule = "unused"
  <2>1. f = Unused(in, config, d)
    BY <1>6 DEF Evaluate
  <2>2. f = Anchored("unused", "unused", d, "high") /\ IsUnused(in, config, d)
    BY <2>1 DEF Unused, rule
  <2> QED BY <1>2, <1>3, <2>2 DEF rule
<1>7. CASE rule = "unverified-no-imports"
  <2>1. f = UnverifiedNoImports(in, config, d)
    BY <1>7 DEF Evaluate
  <2>2. f = Anchored("info", "unverified-no-imports", d, "low")
    BY <2>1 DEF UnverifiedNoImports, rule
  <2> QED BY <1>2, <1>3, <2>2 DEF AbsenceKinds, rule
<1>8. CASE rule = "type-only"
  <2>1. f = TypeOnly(in, config, d)
    BY <1>8 DEF Evaluate
  <2>2. f = Finding("type-only", "type-only", d.name, "medium")
    BY <2>1 DEF TypeOnly, rule
  <2> QED BY <1>3, <2>2, FindingsAreFindings DEF AbsenceKinds, rule
<1>9. CASE rule = "should-be-dev"
  <2>1. f = ShouldBeDev(in, config, d)
    BY <1>9 DEF Evaluate
  <2>2. f = Anchored("should-be-dev", "should-be-dev", d, "medium")
    BY <2>1 DEF ShouldBeDev, rule
  <2> QED BY <1>2, <1>3, <2>2 DEF AbsenceKinds, rule
<1> QED BY <1>1, <1>4, <1>5, <1>6, <1>7, <1>8, <1>9

\* So has the policy as a whole, whatever its order and the downgrades.
LEMMA PolicyConvictsTheUnused ==
    ASSUME NEW in, NEW config,
           \A rule \in DOMAIN config.downgrade : config.downgrade[rule] \in Confidences,
           NEW f \in DefaultPolicy(in, config)
    PROVE  /\ IsFinding(f)
           /\ f.kind \in AbsenceKinds =>
                 \E d \in in.dependencies :
                     IsUnused(in, config, d) /\ f.dependency = d.name /\ f.file = d.manifest
<1>1. PICK d \in in.dependencies : f \in FirstFinding(in, config, d)
  BY DEF DefaultPolicy
<1>2. PICK i \in DOMAIN DefaultRules :
         /\ Speaks(DefaultRules[i], in, config, d)
         /\ f = Downgraded(Evaluate(DefaultRules[i], in, config, d), config)
  BY <1>1 DEF FirstFinding
<1> DEFINE g == Evaluate(DefaultRules[i], in, config, d)
<1>3. g # None
  BY <1>2 DEF Speaks
<1>4. /\ IsFinding(g)
      /\ g.kind \in AbsenceKinds =>
            IsUnused(in, config, d) /\ g.dependency = d.name /\ g.file = d.manifest
  BY <1>3, RulesThatConvict
<1>5. f = Downgraded(g, config)
  BY <1>2
<1> HIDE DEF g
<1> QED BY <1>4, <1>5, DowngradesKeepClaims

\* No evidence of a use that a whole scan sees means that there is none.
LEMMA UnusedIsTrulyUnused ==
    ASSUME NEW a, SeesWhatIsThere(a), \A o \in Detected(a.outcomes) : ~o.usageIncomplete,
           NEW d \in Merged(a.outcomes, "dependencies"),
           IsUnused(Facts(a.outcomes, a.changes, a.context), a.context.config, d)
    PROVE  IsTrulyUnused(a, d)
<1> DEFINE in == Facts(a.outcomes, a.changes, a.context)
<1>1. in.dependencies = Merged(a.outcomes, "dependencies")
  BY DEF Facts
<1>2. /\ d.ecosystem \in in.referenceAnalysed /\ UsagesOf(in, d) = {}
      /\ d.kind \notin {"peer", "optional"} /\ d.registry
      /\ ~IsAllowlisted(a.context.config, d)
  BY DEF IsUnused, HasNoUsageEvidence
<1>3. \A edges \in {"closure", "peers", "unresolved"} : Hosts(in, d, edges) = {}
  BY DEF IsUnused, IsNeededByAnother, PeerHosts, UnresolvedPeers, RequiredBy
<1>4. /\ d.name \in a.uses => \E u \in in.usages : u.name = d.name /\ ~u.removed
      /\ \A n \in a.needs : SameProject(n, d) /\ n.name = d.name /\ n.host \in DirectsOf(in, d) \ {d.name} =>
             \E g \in in.graphs : /\ SameProject(g, d)
                                  /\ \E edges \in {"closure", "peers", "unresolved"} :
                                         n.host \in DOMAIN g[edges] /\ d.name \in g[edges][n.host]
  BY <1>1, <1>2 DEF SeesWhatIsThere
<1> HIDE DEF in
<1>5. d.name \notin a.uses
  BY <1>2, <1>4 DEF UsagesOf
<1>6. ASSUME NEW n \in a.needs, NEW e \in Merged(a.outcomes, "dependencies"),
             n.name = d.name, SameProject(n, d), SameProject(e, d), n.host = e.name, e.name # d.name
      PROVE  FALSE
  <2>1. n.host \in DirectsOf(in, d) \ {d.name}
    BY <1>1, <1>6 DEF DirectsOf
  <2>2. PICK g \in in.graphs, edges \in {"closure", "peers", "unresolved"} :
            SameProject(g, d) /\ n.host \in DOMAIN g[edges] /\ d.name \in g[edges][n.host]
    BY <1>4, <1>6, <2>1
  <2>3. SameProject(e, g) /\ SameProject(d, g)
    BY <1>6, <2>2 DEF SameProject
  <2>4. {n.host, d.name} \subseteq DirectsOf(in, g)
    BY <1>1, <1>6, <2>3 DEF DirectsOf
  <2>5. n.host \in Hosts(in, d, edges)
    BY <1>6, <2>2, <2>4 DEF Hosts
  <2> QED BY <1>3, <2>2, <2>5
<1> QED BY <1>2, <1>5, <1>6 DEF IsTrulyUnused

-----------------------------------------------------------------------------
(* The assembly                                                            *)

\* What everybody reports, what the facts allow of it, and what the engine adds.
Reported(a) ==
    a.context.engineNotes
      \cup (UNION {o.findings : o \in a.outcomes})
      \cup (IF a.changes = None THEN {}
            ELSE PullRequestCoverageFindings(a.changes, Merged(a.outcomes, "dependencies"),
                                             {o.ecosystem : o \in Detected(a.outcomes)}))
      \cup Proposed(ProposedBy(a))
Kept(a) == Checked(Reported(a), a.outcomes, a.context)
Doubles(a) ==
    IF DuplicatesRule \in a.context.config.disabled THEN {}
    ELSE {Downgraded(f, a.context.config) :
             f \in SameEcosystemDuplicates(Merged(a.outcomes, "dependencies"), a.changes)}
Additions(a) ==
    CrossEcosystemOverlaps(Merged(a.outcomes, "dependencies"), a.changes) \cup Doubles(a)
      \cup AdapterNoteFindings(a.outcomes) \cup UsageAttributionNote(a.outcomes)
GatedOf(a) == Gated({Owned(f) : f \in Kept(a)} \cup {Stamped(f) : f \in Additions(a)})
Findings(a) == AssembledFindings(a.outcomes, ProposedBy(a), a.changes, a.context)

LEMMA AssemblyIs ==
    ASSUME NEW a
    PROVE  /\ GatedOf(a) \subseteq Findings(a)
           /\ \A f \in Findings(a) \ GatedOf(a) :
                 \E rule : f = Stamped(Marked(Note(rule), "adapterNote")) \/ f = Stamped(Note(rule))
<1> DEFINE all == GatedOf(a) \cup (IF a.context.limited
                                   THEN {Stamped(Marked(Note("impact-limited"), "adapterNote"))} ELSE {})
<1>1. Findings(a) = all \cup {Stamped(f) : f \in DeclarationLineNote(all)}
  BY DEF Findings, AssembledFindings, GatedOf, Additions, Doubles, Kept, Reported
<1>2. \A f \in DeclarationLineNote(all) : f = Note("declaration-line-unavailable")
  BY DEF DeclarationLineNote
<1> QED BY <1>1, <1>2

\* The gate for "unused" caps its confidence, adds a note, and leaves all else.
LEMMA GateKeepsClaims ==
    ASSUME NEW S, \A g \in S : IsFinding(g)
    PROVE  /\ \A f \in Gated(S) :
                 \/ f.kind = "info" /\ f \notin S
                 \/ \E g \in S : /\ f.kind = g.kind /\ f.rule = g.rule /\ f.dependency = g.dependency
                                 /\ f.file = g.file /\ f.limited = g.limited /\ f.severity = g.severity
                                 /\ g.confidence # "high" => f.confidence # "high"
                                 /\ g.kind = "unused" => f.confidence # "high"
           /\ \A g \in S : \E f \in Gated(S) : f.kind = g.kind /\ f.marks = g.marks
<1> DEFINE Cap(f) == IF f.kind = "unused"
                     THEN [f EXCEPT !.confidence = CapConfidence(f.confidence, UnusedConfidenceCap)] ELSE f
           note == Stamped(Note("unused-confidence-capped"))
<1>1. Gated(S) = {Cap(f) : f \in S} \cup (IF \A f \in S : Cap(f) = f THEN {} ELSE {note})
  BY DEF Gated
<1>2. note.kind = "info"
  BY NotesAreFindings, PassesKeepFindings
<1>3. ASSUME NEW g \in S
      PROVE  /\ Cap(g).kind = g.kind /\ Cap(g).rule = g.rule /\ Cap(g).dependency = g.dependency
             /\ Cap(g).file = g.file /\ Cap(g).limited = g.limited /\ Cap(g).severity = g.severity
             /\ Cap(g).marks = g.marks
             /\ g.confidence # "high" => Cap(g).confidence # "high"
             /\ g.kind = "unused" => Cap(g).confidence # "high"
  <2>1. CapConfidence(g.confidence, UnusedConfidenceCap) # "high"
    BY CapsAreConfidences DEF IsFinding, UnusedConfidenceCap
  <2> QED BY <2>1 DEF IsFinding
<1> HIDE DEF Cap, note
<1>4. ASSUME NEW f \in Gated(S)
      PROVE  \/ f.kind = "info" /\ f \notin S
             \/ \E g \in S : /\ f.kind = g.kind /\ f.rule = g.rule /\ f.dependency = g.dependency
                             /\ f.file = g.file /\ f.limited = g.limited /\ f.severity = g.severity
                             /\ g.confidence # "high" => f.confidence # "high"
                             /\ g.kind = "unused" => f.confidence # "high"
  <2>1. CASE f \in {Cap(g) : g \in S}
    BY <1>3, <2>1
  <2>2. CASE f = note /\ f \notin S
    BY <1>2, <2>2
  <2>3. CASE f = note /\ f \in S
    BY <1>2, <2>3
  <2> QED BY <1>1, <2>1, <2>2, <2>3
<1> QED BY <1>1, <1>3, <1>4

\* What the scan and the adapters note is a finding of kind "info".
LEMMA ScanNotesAreNotes ==
    ASSUME ReportAssumption, NEW a \in Analyses, NEW f \in ScanNotes(a.outcomes, a.context)
    PROVE  IsFinding(f) /\ f.kind = "info"
<1>1. CASE f \in OwnNotes(a)
  BY <1>1 DEF ReportAssumption
<1>2. CASE f \in ManifestMalformedNotes(a.outcomes)
  <2>1. \E file : f = [Note("manifest-malformed") EXCEPT !.file = file]
    BY <1>2 DEF ManifestMalformedNotes, SomeOf
  <2> QED BY <2>1 DEF Note, Finding, IsFinding, Confidences
<1> QED BY <1>1, <1>2 DEF ScanNotes, OwnNotes

LEMMA MalformedAreNoted ==
    ASSUME ReportAssumption, NEW outcomes
    PROVE  ManifestMalformedNotes(outcomes) # {} <=> \E o \in Detected(outcomes) : o.malformed # {}
<1> DEFINE broken == UNION {{<<o.ecosystem, m>> : m \in o.malformed} : o \in Detected(outcomes)}
           note == {[Note("manifest-malformed") EXCEPT !.file = b[2]] : b \in broken}
           more == {[Note("manifest-malformed") EXCEPT !.file = "more"]}
<1>1. ManifestMalformedNotes(outcomes) = IF Cardinality(broken) <= MaxNotes THEN note ELSE more \cup SomeOf(note)
  BY DEF ManifestMalformedNotes
<1>2. broken # {} <=> \E o \in Detected(outcomes) : o.malformed # {}
  <2>1. ASSUME NEW o \in Detected(outcomes), NEW m \in o.malformed PROVE <<o.ecosystem, m>> \in broken
    OBVIOUS
  <2>2. ASSUME NEW b \in broken PROVE \E o \in Detected(outcomes) : o.malformed # {}
    OBVIOUS
  <2> HIDE DEF broken
  <2> QED BY <2>1, <2>2
<1>3. more # {}
  OBVIOUS
<1> HIDE DEF broken, more
<1>4. note # {} <=> broken # {}
  OBVIOUS
<1>5. broken = {} => Cardinality(broken) <= MaxNotes
  BY FS_EmptySet DEF ReportAssumption
<1> HIDE DEF note
<1> QED BY <1>1, <1>2, <1>3, <1>4, <1>5

\* What a run says it missed is what its passes go by.
LEMMA PartlySeenIsIncomplete ==
    ASSUME ReportAssumption, NEW a
    PROVE  PartlySeen(a) <=> ScanIncomplete(a.outcomes, a.context)
<1>1. ManifestMalformedNotes(a.outcomes) # {} <=> \E o \in a.outcomes : o.detected /\ o.malformed # {}
  BY MalformedAreNoted DEF Detected
<1>2. UNION {o.notes : o \in a.outcomes} # {} <=> \E o \in a.outcomes : o.notes # {}
  OBVIOUS
<1>3. ScanNotes(a.outcomes, a.context) # {} <=>
         \/ a.context.notes # {} \/ (UNION {o.notes : o \in a.outcomes}) # {}
         \/ ManifestMalformedNotes(a.outcomes) # {}
  BY DEF ScanNotes
<1> QED BY <1>1, <1>2, <1>3 DEF PartlySeen, ScanIncomplete

\* What the engine adds by itself claims of nothing that it is not needed.
LEMMA AdditionsClaimNothing ==
    ASSUME ReportAssumption, NEW a \in Analyses, NEW f \in Additions(a)
    PROVE  IsFinding(f) /\ f.kind \notin AbsenceKinds
<1>1. ASSUME NEW g, IsFinding(g), g.kind = "info", NEW mark, f = Marked(g, mark)
      PROVE  IsFinding(f) /\ f.kind \notin AbsenceKinds
  BY <1>1, PassesKeepFindings DEF AbsenceKinds
<1>2. CASE f \in CrossEcosystemOverlaps(Merged(a.outcomes, "dependencies"), a.changes)
  <2>1. PICK name : f = Marked([Note("cross-ecosystem-capability-overlap") EXCEPT !.dependency = name], "awareness")
    BY <1>2 DEF CrossEcosystemOverlaps
  <2> DEFINE g == [Note("cross-ecosystem-capability-overlap") EXCEPT !.dependency = name]
  <2>2. IsFinding(g) /\ g.kind = "info"
    BY DEF Note, Finding, IsFinding, Confidences
  <2> HIDE DEF g
  <2> QED BY <1>1, <2>1, <2>2 DEF g
<1>3. CASE f \in Doubles(a)
  <2>1. PICK g : /\ g \in SameEcosystemDuplicates(Merged(a.outcomes, "dependencies"), a.changes)
                 /\ f = Downgraded(g, a.context.config)
    BY <1>3 DEF Doubles
  <2>2. \E name : g = Marked(Finding("duplicate-capability", DuplicatesRule, name, "low"), "awareness")
    BY <2>1 DEF SameEcosystemDuplicates
  <2>3. IsFinding(g) /\ g.kind = "duplicate-capability"
    BY <2>2 DEF Marked, Finding, IsFinding, Confidences
  <2>4. \A rule \in DOMAIN a.context.config.downgrade : a.context.config.downgrade[rule] \in Confidences
    BY DEF ReportAssumption
  <2> QED BY <2>1, <2>3, <2>4, DowngradesKeepClaims DEF AbsenceKinds
<1>4. CASE f \in AdapterNoteFindings(a.outcomes)
  <2> DEFINE Mapped(n) ==
               IF n.dependency = None THEN Marked([Note("adapter-note") EXCEPT !.file = n.statement], "adapterNote")
               ELSE Marked([Note("adapter-capability") EXCEPT !.dependency = n.dependency, !.file = n.statement],
                           "awareness")
             more == Marked([Note("adapter-note") EXCEPT !.file = "more"], "adapterNote")
             Sound(o, n) == n.statement # None /\ (n.dependency = None \/ \E d \in o.dependencies : d.name = n.dependency)
             notes == UNION {{Mapped(n) : n \in {m \in o.adapterNotes : Sound(o, m)}} : o \in Detected(a.outcomes)}
  <2>1. AdapterNoteFindings(a.outcomes) = IF Cardinality(notes) <= MaxNotes THEN notes ELSE {more} \cup SomeOf(notes)
    BY DEF AdapterNoteFindings
  <2>2. f \in notes \/ f = more
    <3> HIDE DEF notes, more
    <3> QED BY <1>4, <2>1 DEF SomeOf
  <2>3. f = more \/ \E n : f = Mapped(n)
    <3> HIDE DEF Mapped, Sound, more
    <3> QED BY <2>2
  <2>4. PICK rule, of, file, mark :
            \/ f = Marked([Note(rule) EXCEPT !.file = file], mark)
            \/ f = Marked([Note(rule) EXCEPT !.dependency = of, !.file = file], mark)
    BY <2>3
  <2> DEFINE g == [Note(rule) EXCEPT !.file = file]
             h == [Note(rule) EXCEPT !.dependency = of, !.file = file]
  <2>5. IsFinding(g) /\ g.kind = "info" /\ IsFinding(h) /\ h.kind = "info"
    BY DEF Note, Finding, IsFinding, Confidences
  <2>6. f = Marked(g, mark) \/ f = Marked(h, mark)
    BY <2>4
  <2> HIDE DEF g, h
  <2> QED BY <1>1, <2>5, <2>6
<1>5. CASE f \in UsageAttributionNote(a.outcomes)
  <2>1. f = Marked(Note("usage-attribution"), "adapterNote")
    BY <1>5 DEF UsageAttributionNote
  <2> QED BY <1>1, <2>1, NotesAreFindings
<1> QED BY <1>2, <1>3, <1>4, <1>5 DEF Additions

\* Everything that is reported is a finding, and claims come from the policy.
LEMMA ReportedAreFindings ==
    ASSUME ReportAssumption, NEW a \in Analyses, NEW f \in Reported(a)
    PROVE  IsFinding(f) /\ (f.kind \in AbsenceKinds => f \in ProposedBy(a) /\ ProposedBy(a) # None)
<1>1. CASE f \in OwnNotes(a)
  BY <1>1 DEF ReportAssumption, AbsenceKinds
<1>2. CASE f \in PullRequestCoverageFindings(a.changes, Merged(a.outcomes, "dependencies"),
                                             {o.ecosystem : o \in Detected(a.outcomes)})
  <2>1. \E name, file : \/ f = [Note(None) EXCEPT !.dependency = name, !.file = file]
                        \/ f = [[Note(None) EXCEPT !.dependency = name, !.file = file]
                                    EXCEPT !.confidence = "medium"]
    BY <1>2 DEF PullRequestCoverageFindings
  <2> QED BY <2>1 DEF Note, Finding, IsFinding, Confidences, AbsenceKinds
<1>3. CASE f \in Proposed(ProposedBy(a))
  <2>1. CASE \E rule : f = [Note(rule) EXCEPT !.confidence = "low"]
    BY <2>1 DEF Note, Finding, IsFinding, Confidences, AbsenceKinds
  <2>2. CASE f \in ProposedBy(a) /\ ProposedBy(a) # None
    <3>1. CASE a.default
      <4>1. \A rule \in DOMAIN a.context.config.downgrade :
                a.context.config.downgrade[rule] \in Confidences
        BY DEF ReportAssumption
      <4>2. f \in DefaultPolicy(Facts(a.outcomes, a.changes, a.context), a.context.config)
        BY <2>2, <3>1 DEF ProposedBy
      <4>3. IsFinding(f)
        BY <4>1, <4>2, PolicyConvictsTheUnused
      <4> QED BY <2>2, <4>3
    <3>2. CASE ~a.default
      BY <2>2, <3>2 DEF ProposedBy, ReportAssumption
    <3> QED BY <3>1, <3>2
  <2> QED BY <1>3, <2>1, <2>2 DEF Proposed
<1> QED BY <1>1, <1>2, <1>3 DEF Reported, OwnNotes

\* What the facts allow: no claim when a usage stage was cut, each one marked when the scan was.
LEMMA KeptClaims ==
    ASSUME ReportAssumption, NEW a \in Analyses, NEW f \in Kept(a)
    PROVE  /\ IsFinding(f)
           /\ f.kind \in AbsenceKinds =>
                 /\ \A o \in Detected(a.outcomes) : ~o.usageIncomplete
                 /\ ScanIncomplete(a.outcomes, a.context) => f.limited /\ f.confidence # "high"
                 /\ \E p \in ProposedBy(a) :
                        /\ IsFinding(p) /\ f.kind = p.kind /\ f.rule = p.rule
                        /\ f.dependency = p.dependency /\ f.file = p.file
                        /\ ScanIncomplete(a.outcomes, a.context) \/ f = p
<1> DEFINE cut == \E o \in Detected(a.outcomes) : o.usageIncomplete
           allowed == IF ~cut THEN Reported(a) ELSE {g \in Reported(a) : g.kind \notin AbsenceKinds}
<1>1. Kept(a) = IF ~ScanIncomplete(a.outcomes, a.context) THEN allowed
                ELSE {Provisional(g) : g \in allowed} \cup ScanNotes(a.outcomes, a.context) \cup {Note("partial-scan")}
  BY DEF Kept, Checked
<1>2. \A g \in allowed : /\ IsFinding(g)
                         /\ g.kind \in AbsenceKinds => ~cut /\ g \in ProposedBy(a)
  BY ReportedAreFindings
<1> HIDE DEF allowed, cut
<1>3. CASE f \in allowed /\ ~ScanIncomplete(a.outcomes, a.context)
  BY <1>2, <1>3 DEF cut
<1>4. CASE \E g \in allowed : f = Provisional(g) /\ ScanIncomplete(a.outcomes, a.context)
  <2>1. PICK g \in allowed : f = Provisional(g) /\ ScanIncomplete(a.outcomes, a.context)
    BY <1>4
  <2>2. /\ IsFinding(g) /\ IsFinding(f) /\ f.kind = g.kind /\ f.rule = g.rule
        /\ f.dependency = g.dependency /\ f.file = g.file
        /\ g.kind \in AbsenceKinds => f.limited /\ f.confidence # "high" /\ ~cut /\ g \in ProposedBy(a)
    BY <1>2, <2>1, PassesKeepFindings
  <2> QED BY <2>1, <2>2 DEF cut
<1>5. CASE f \in ScanNotes(a.outcomes, a.context)
  BY <1>5, ScanNotesAreNotes DEF AbsenceKinds
<1>6. CASE f = Note("partial-scan")
  BY <1>6, NotesAreFindings DEF AbsenceKinds
<1> QED BY <1>1, <1>3, <1>4, <1>5, <1>6

\* Every claim of a result was proposed, and bears the marks of what the run did not see.
LEMMA ClaimsStand ==
    ASSUME ReportAssumption, NEW a \in Analyses, NEW f \in Findings(a), f.kind \in AbsenceKinds
    PROVE  /\ \A o \in Detected(a.outcomes) : ~o.usageIncomplete
           /\ ScanIncomplete(a.outcomes, a.context) => f.limited /\ f.confidence # "high"
           /\ f.kind = "unused" => f.confidence # "high"
           /\ \E p \in ProposedBy(a) :
                  /\ IsFinding(p) /\ f.kind = p.kind /\ f.rule = p.rule
                  /\ f.dependency = p.dependency /\ f.file = p.file
                  /\ ScanIncomplete(a.outcomes, a.context) \/ f.severity = SeverityOf(p)
<1> DEFINE owned == {Owned(g) : g \in Kept(a)}  added == {Stamped(g) : g \in Additions(a)}
<1>1. \A g \in owned \cup added : IsFinding(g)
  BY KeptClaims, AdditionsClaimNothing, OwnedKeepsClaims, PassesKeepFindings
<1>2. \A g \in added : g.kind \notin AbsenceKinds
  BY AdditionsClaimNothing, PassesKeepFindings
<1>3. \A rule : LET g == Note(rule) IN
         Stamped(Marked(g, "adapterNote")).kind = "info" /\ Stamped(g).kind = "info"
  BY NotesAreFindings, PassesKeepFindings
<1>4. f \in GatedOf(a)
  BY <1>3, AssemblyIs DEF AbsenceKinds
<1>5. GatedOf(a) = Gated(owned \cup added)
  BY DEF GatedOf
<1> HIDE DEF owned, added
<1>6. PICK g \in owned \cup added :
          /\ f.kind = g.kind /\ f.rule = g.rule /\ f.dependency = g.dependency
          /\ f.file = g.file /\ f.limited = g.limited /\ f.severity = g.severity
          /\ g.confidence # "high" => f.confidence # "high"
          /\ g.kind = "unused" => f.confidence # "high"
  BY <1>1, <1>4, <1>5, GateKeepsClaims DEF AbsenceKinds
<1>7. g \in owned
  BY <1>2, <1>6
<1>8. PICK q \in Kept(a) : g = Owned(q)
  BY <1>7 DEF owned
<1>9. /\ IsFinding(q) /\ g.kind = q.kind /\ g.rule = q.rule /\ g.dependency = q.dependency
      /\ g.file = q.file /\ g.limited = q.limited /\ g.confidence = q.confidence
      /\ g.severity = SeverityOf(q)
  BY <1>8, KeptClaims, OwnedKeepsClaims
<1>10. /\ \A o \in Detected(a.outcomes) : ~o.usageIncomplete
       /\ ScanIncomplete(a.outcomes, a.context) => q.limited /\ q.confidence # "high"
       /\ \E p \in ProposedBy(a) :
              /\ IsFinding(p) /\ q.kind = p.kind /\ q.rule = p.rule
              /\ q.dependency = p.dependency /\ q.file = p.file
              /\ ScanIncomplete(a.outcomes, a.context) \/ q = p
  BY <1>6, <1>9, KeptClaims
<1> QED BY <1>6, <1>9, <1>10

-----------------------------------------------------------------------------
(* A clean check                                                           *)

LEMMA CleanChecks ==
    ASSUME NEW report, NEW added, NEW notes, RenderCheck(report, added, notes).conclusion = "success"
    PROVE  ListsAll(report) /\ notes = {}
<1>1. InGroup(report.findings, "verdict") = {} /\ ~Incomplete(report, notes)
  BY DEF RenderCheck, Check
<1>2. \A f \in report.findings : FindingGroup(f) \notin {"verdict", "incomplete"}
  BY <1>1 DEF InGroup, Incomplete
<1>3. \A f \in report.findings : f.kind = "info" /\ Marks(f) # {}
  BY <1>2 DEF FindingGroup, Marks
<1> QED BY <1>1, <1>3 DEF Incomplete, Unresolved, ListsAll

\* What is reported and kept cannot be marked away, so a clean check has none of it.
LEMMA CleanMeansNothingKept ==
    ASSUME ReportAssumption, NEW a \in Analyses,
           \A f \in Findings(a) : f.kind = "info" /\ Marks(f) # {}
    PROVE  Kept(a) = {}
<1> SUFFICES ASSUME NEW q \in Kept(a) PROVE FALSE
  OBVIOUS
<1> DEFINE S == {Owned(g) : g \in Kept(a)} \cup {Stamped(g) : g \in Additions(a)}
<1>1. \A g \in S : IsFinding(g)
  BY KeptClaims, AdditionsClaimNothing, OwnedKeepsClaims, PassesKeepFindings
<1>2. Owned(q) \in S /\ Owned(q).marks = {}
  BY KeptClaims, OwnedKeepsClaims
<1>3. GatedOf(a) = Gated(S)
  BY DEF GatedOf
<1> HIDE DEF S
<1>4. PICK f \in GatedOf(a) : f.marks = {}
  BY <1>1, <1>2, <1>3, GateKeepsClaims
<1>5. f \in Findings(a)
  BY AssemblyIs
<1> QED BY <1>4, <1>5 DEF Marks

LEMMA SuccessOfAReport ==
    ASSUME ReportAssumption, NEW a \in Analyses, ReportAnswer(a).check.conclusion = "success"
    PROVE  /\ ~PartlySeen(a) /\ a.context.engineNotes = {} /\ a.notes = {}
           /\ \A o \in a.outcomes : o.findings = {} /\ ~o.usageIncomplete
           /\ ProposedBy(a) = {}
           /\ a.changes # None => \A c \in a.changes : c.change # "removed" =>
                  \E d \in Merged(a.outcomes, "dependencies") :
                      d.ecosystem = c.ecosystem /\ d.name = c.name /\ d.manifest = c.manifest
           /\ ListsAll([findings |-> ReportAnswer(a).findings, excluded |-> a.context.excluded, native |-> a.native])
<1> DEFINE report == [findings |-> Findings(a), excluded |-> a.context.excluded, native |-> a.native]
<1>1. ReportAnswer(a) = [findings |-> Findings(a), check |-> RenderCheck(report, a.added, a.notes)]
  BY DEF ReportAnswer, Findings
<1>2. ListsAll(report) /\ a.notes = {}
  BY <1>1, CleanChecks
<1>3. Kept(a) = {}
  BY <1>2, CleanMeansNothingKept DEF ListsAll
<1>4. ~ScanIncomplete(a.outcomes, a.context)
  BY <1>3 DEF Kept, Checked
<1>5. \A f \in Reported(a) : f.kind \in AbsenceKinds /\ \E o \in Detected(a.outcomes) : o.usageIncomplete
  BY <1>3, <1>4 DEF Kept, Checked
<1>6. a.context.engineNotes = {} /\ \A o \in a.outcomes : o.findings = {}
  <2>1. \A f \in OwnNotes(a) : f.kind \notin AbsenceKinds
    BY DEF ReportAssumption, AbsenceKinds
  <2>2. a.context.engineNotes \cup (UNION {o.findings : o \in a.outcomes}) \subseteq Reported(a) \cap OwnNotes(a)
    BY DEF Reported, OwnNotes
  <2> QED BY <1>5, <2>1, <2>2
<1>7. \A o \in a.outcomes : ~o.usageIncomplete
  BY <1>6 DEF ReportAssumption
<1>8. Reported(a) = {}
  BY <1>5, <1>7 DEF Detected
<1>9. ProposedBy(a) = {}
  <2>1. Proposed(ProposedBy(a)) = {}
    BY <1>8 DEF Reported
  <2> QED BY <2>1 DEF Proposed
<1>10. ASSUME a.changes # None, NEW c \in a.changes, c.change # "removed"
       PROVE  \E d \in Merged(a.outcomes, "dependencies") :
                  d.ecosystem = c.ecosystem /\ d.name = c.name /\ d.manifest = c.manifest
  <2>1. PullRequestCoverageFindings(a.changes, Merged(a.outcomes, "dependencies"),
                                    {o.ecosystem : o \in Detected(a.outcomes)}) = {}
    BY <1>8, <1>10 DEF Reported
  <2> DEFINE ecosystems == {o.ecosystem : o \in Detected(a.outcomes)}
             Missed(e) == [Note(None) EXCEPT !.dependency = e.name, !.file = e.manifest]
             IsListed(e) == \E d \in Merged(a.outcomes, "dependencies") :
                              d.name = e.name /\ d.ecosystem = e.ecosystem /\ d.manifest = e.manifest
  <2>2. /\ {Missed(e) : e \in {e \in a.changes : e.change # "removed" /\ e.ecosystem \notin ecosystems}} = {}
        /\ {[Missed(e) EXCEPT !.confidence = "medium"] :
               e \in {e \in a.changes : e.change # "removed" /\ e.ecosystem \in ecosystems /\ ~IsListed(e)}} = {}
    BY <2>1 DEF PullRequestCoverageFindings
  <2> HIDE DEF Missed, IsListed, ecosystems
  <2>3. c.ecosystem \in ecosystems
    BY <1>10, <2>2
  <2>4. IsListed(c)
    BY <1>10, <2>2, <2>3
  <2> QED BY <2>4 DEF IsListed
<1>11. ~PartlySeen(a)
  BY <1>4, PartlySeenIsIncomplete
<1> QED BY <1>1, <1>2, <1>6, <1>7, <1>9, <1>10, <1>11

LEMMA SuccessOfAPost ==
    ASSUME ReportAssumption, NEW p \in Posts, PostCheck(p.output, p.pr, p.listing).check # None,
           PostCheck(p.output, p.pr, p.listing).check.conclusion = "success"
    PROVE  /\ p.output.kind = "result" /\ p.output.sound /\ ListsAll(p.output.result)
           /\ p.pr # None => p.listing /\ Len(p.pr.files) < PageSize * MaxFilePages
<1> DEFINE lines == CASE p.pr # None /\ p.listing  -> PullRequestAddedLines(p.pr.files)
                      [] p.pr # None /\ ~p.listing -> [added |-> {}, notes |-> {"unlisted"}]
                      [] OTHER -> [added |-> {}, notes |-> {}]
           rendered == CASE p.output.kind = "error"      -> FailedCheck("cli")
                         [] p.output.kind = "unreadable" -> FailedCheck("unreadable")
                         [] p.output.kind = "result" /\ ~IsAnalysisResult(p.output) -> FailedCheck("malformed")
                         [] OTHER -> RenderCheck(p.output.result, lines.added, lines.notes)
<1>1. PostCheck(p.output, p.pr, p.listing).check = rendered
  BY DEF PostCheck
<1>2. rendered.conclusion = "success"
  BY <1>1
<1>3. \A reason : FailedCheck(reason).conclusion = "neutral"
  BY DEF FailedCheck, Check
<1> HIDE DEF lines
<1>4. /\ p.output.kind \notin {"error", "unreadable"}
      /\ p.output.kind = "result" => IsAnalysisResult(p.output)
      /\ RenderCheck(p.output.result, lines.added, lines.notes).conclusion = "success"
  BY <1>2, <1>3
<1>5. ListsAll(p.output.result) /\ lines.notes = {}
  BY <1>4, CleanChecks
<1>6. p.pr # None => p.listing /\ ~(Len(p.pr.files) >= PageSize * MaxFilePages)
  BY <1>5 DEF lines, PullRequestAddedLines, ReportAssumption
<1>7. p.pr # None => Len(p.pr.files) < PageSize * MaxFilePages
  <2>1. PageSize * MaxFilePages \in Nat
    BY DEF ReportAssumption
  <2>2. p.pr # None => Len(p.pr.files) \in Nat
    BY DEF ReportAssumption
  <2> QED BY <1>6, <2>1, <2>2
<1>8. p.output.kind = "result" /\ p.output.sound
  BY <1>4 DEF ReportAssumption, IsAnalysisResult
<1> QED BY <1>5, <1>6, <1>7, <1>8

-----------------------------------------------------------------------------
(* The command line: how a line is read, argument by argument              *)

\* Of finitely many numbers one is the least.
LEMMA LeastNumber ==
    ASSUME NEW N \in Nat, NEW S, S \subseteq 0..N, S # {}
    PROVE  \E m \in S : \A k \in S : m <= k
<1> DEFINE Below(m) == {k \in S : k < m}
           T == {Below(m) : m \in S}
<1>1. IsFiniteSet(S)
  <2>1. IsFiniteSet(0..N)
    BY FS_Interval
  <2> QED BY <2>1, FS_Subset
<1>2. T \subseteq FiniteSubsetsOf(S) /\ T # {}
  <2>1. \A m \in S : Below(m) \in SUBSET S
    OBVIOUS
  <2>2. \A U \in SUBSET S : IsFiniteSet(U)
    BY <1>1, FS_Subset
  <2>3. \A m \in S : Below(m) \in FiniteSubsetsOf(S)
    BY <2>1, <2>2 DEF FiniteSubsetsOf
  <2> QED BY <2>3
<1>3. PICK B \in T : \A C \in T : <<C, B>> \notin StrictSubsetOrdering(S)
  <2> HIDE DEF T
  <2> QED BY <1>1, <1>2, WFMin, FS_StrictSubsetOrderingWellFounded
<1>4. PICK m \in S : B = Below(m)
  OBVIOUS
<1>5. ASSUME NEW k \in S, k < m PROVE FALSE
  <2>1. \A n \in S : n \in Int
    OBVIOUS
  <2>2. (\A n \in S : n < k => n < m) /\ ~(k < k)
    BY <2>1, <1>5
  <2>3. Below(k) \subseteq B /\ k \in B /\ k \notin Below(k)
    <3>1. Below(k) \subseteq Below(m)
      BY <2>2
    <3>2. k \in Below(m)
      BY <1>5
    <3> QED BY <1>4, <2>2, <3>1, <3>2
  <2>4. <<Below(k), B>> \in StrictSubsetOrdering(S)
    BY <2>3, <1>4 DEF StrictSubsetOrdering
  <2> QED BY <1>3, <2>4
<1> QED BY <1>5

LEMMA GreatestNumber ==
    ASSUME NEW N \in Nat, NEW S, S \subseteq 0..N, S # {}
    PROVE  \E m \in S : \A k \in S : k <= m
<1> DEFINE R == {N - k : k \in S}
<1>1. PICK r \in R : \A k \in R : r <= k
  <2>1. \A k \in S : N - k \in 0..N
    OBVIOUS
  <2>2. R \subseteq 0..N /\ R # {}
    BY <2>1
  <2> HIDE DEF R
  <2> QED BY <2>2, LeastNumber
<1>2. PICK m \in S : r = N - m
  OBVIOUS
<1>3. \A k \in S : N - k \in R
  OBVIOUS
<1>4. \A k \in S : k <= m
  <2> HIDE DEF R
  <2> QED BY <1>1, <1>2, <1>3
<1> QED BY <1>4

\* The function exists: after any number of arguments something has been read.
LEMMA ReadingSteps ==
    ASSUME NEW argv, Len(argv) \in Nat
    PROVE  /\ Reading(argv)[0] = Parsed
           /\ \A n \in 1..Len(argv) : Reading(argv)[n] = TakeArg(Reading(argv)[n - 1], argv[n])
<1> DEFINE After(f, n) == IF n = 0 THEN Parsed ELSE TakeArg(f[n - 1], argv[n])
           Reads(f, m) == f = [n \in 0..m |-> After(f, n)]
           S == {m \in 0..Len(argv) : ~ \E f : Reads(f, m)}
<1>1. S = {}
  <2> SUFFICES ASSUME S # {} PROVE FALSE
    OBVIOUS
  <2>1. PICK m \in S : \A k \in S : m <= k
    <3>1. S \subseteq 0..Len(argv)
      OBVIOUS
    <3> HIDE DEF S
    <3> QED BY <3>1, LeastNumber
  <2>2. m \in 0..Len(argv) /\ ~ \E f : Reads(f, m)
    OBVIOUS
  <2>3. CASE m = 0
    <3>1. Reads([n \in 0..0 |-> Parsed], 0)
      OBVIOUS
    <3> QED BY <2>2, <2>3, <3>1
  <2>4. CASE m # 0
    <3>1. m - 1 \in 0..Len(argv) /\ m - 1 \notin S
      <4>1. m \in Nat /\ m - 1 \in 0..Len(argv) /\ ~(m <= m - 1)
        BY <2>2, <2>4
      <4> HIDE DEF S
      <4> QED BY <2>1, <4>1
    <3>2. PICK f : Reads(f, m - 1)
      BY <3>1
    <3> DEFINE g == [n \in 0..m |-> IF n = m THEN TakeArg(f[m - 1], argv[m]) ELSE f[n]]
    <3>3. \A n \in 0..m : g[n] = After(g, n)
      BY <2>2, <2>4, <3>2
    <3>4. Reads(g, m)
      BY <3>3
    <3> HIDE DEF g
    <3> QED BY <2>2, <3>4
  <2> QED BY <2>3, <2>4
<1>2. PICK f : Reads(f, Len(argv))
  BY <1>1
<1>3. Reads(Reading(argv), Len(argv))
  BY <1>2 DEF Reading
<1> QED BY <1>3

-----------------------------------------------------------------------------
(* What has been read of a line                                            *)

IsLine(argv) == argv \in Seq(ToSet(argv)) /\ \A arg \in ToSet(argv) : IsArgument(arg)
AsWord(arg)  == IF IsWord(arg) THEN arg ELSE [text |-> "-", path |-> FALSE]
ValuesOf(argv) == {ValueAt(argv, i) : i \in DOMAIN argv}
States(argv) ==
    [flags : SUBSET {"json", "help", "version"}, values : [Options -> Seq(ValuesOf(argv))],
     words : Seq({AsWord(argv[i]) : i \in DOMAIN argv}), dashes : BOOLEAN, awaiting : Options \cup {None}, error : BOOLEAN]

\* The option at n still waits for its value.
Waits(argv, n, option) == n \in Stated(argv, option) /\ argv[n].value = None
Settled(argv, n, option) == {i \in Stated(argv, option) : i <= n /\ ~(i = n /\ argv[i].value = None)}
\* The values that stand at these places, in their order.
InOrder(argv, at, given) ==
    \E pos \in [1..Len(given) -> at] :
        /\ \A k \in 1..Len(given) : given[k] = ValueAt(argv, pos[k])
        /\ \A i \in at : \E k \in 1..Len(given) : pos[k] = i
        /\ \A k, l \in 1..Len(given) : k < l => pos[k] < pos[l]
FirstWord(argv, n, words) ==
    /\ words = <<>> <=> \A i \in 1..n : ~Positional(argv, i)
    /\ words # <<>> => \E i \in 1..n : /\ Positional(argv, i) /\ words[1] = AsWord(argv[i])
                                      /\ \A j \in 1..i - 1 : ~Positional(argv, j)
ReadWell(argv, n, p) ==
    /\ p.dashes <=> Dashed(argv, n)
    /\ \A flag \in {"json", "help", "version"} : flag \in p.flags <=> \E i \in Stated(argv, flag) : i <= n
    /\ \A option \in Options : Waits(argv, n, option) <=> p.awaiting = option
    /\ \A option \in Options :
           /\ InOrder(argv, Settled(argv, n, option), p.values[option])
           /\ \A i \in Settled(argv, n, option) : ValueAt(argv, i) # None
    /\ FirstWord(argv, n, p.words)

LEMMA ArgumentKinds ==
    ASSUME NEW arg, IsArgument(arg)
    PROVE  /\ IsWord(arg) <=> ~IsFlag(arg)
           /\ IsWord(arg) => arg.text # None
  BY DEF IsArgument, IsWord, IsFlag

LEMMA LinesAreSequences ==
    ASSUME NEW argv, IsLine(argv)
    PROVE  /\ Len(argv) \in Nat /\ DOMAIN argv = 1..Len(argv)
           /\ \A i \in DOMAIN argv : IsArgument(argv[i])
<1>1. Len(argv) \in Nat /\ DOMAIN argv = 1..Len(argv)
  BY LenProperties DEF IsLine
<1> QED BY <1>1 DEF IsLine, ToSet

\* One more value at the end.
LEMMA OneMoreValue ==
    ASSUME NEW argv, NEW at, NEW U, NEW given \in Seq(U), InOrder(argv, at, given), NEW m \in Nat,
           at \subseteq Nat, \A i \in at : i < m, ValueAt(argv, m) \in U
    PROVE  InOrder(argv, at \cup {m}, Append(given, ValueAt(argv, m)))
<1> DEFINE more == Append(given, ValueAt(argv, m))
           size == Len(given)
<1>1. /\ size \in Nat /\ Len(more) = size + 1 /\ more[size + 1] = ValueAt(argv, m)
      /\ \A k \in 1..size : more[k] = given[k]
  BY AppendProperties, LenProperties
<1>2. PICK pos \in [1..size -> at] :
          /\ \A k \in 1..size : given[k] = ValueAt(argv, pos[k])
          /\ \A i \in at : \E k \in 1..size : pos[k] = i
          /\ \A k, l \in 1..size : k < l => pos[k] < pos[l]
  BY DEF InOrder
<1> DEFINE next == [k \in 1..size + 1 |-> IF k = size + 1 THEN m ELSE pos[k]]
<1> HIDE DEF size, more
<1>3. next \in [1..size + 1 -> at \cup {m}]
  BY <1>1
<1>4. \A k \in 1..size + 1 : more[k] = ValueAt(argv, next[k])
  BY <1>1, <1>2
<1>5. \A i \in at \cup {m} : \E k \in 1..size + 1 : next[k] = i
  <2>1. size + 1 \in 1..size + 1 /\ next[size + 1] = m
    BY <1>1
  <2>2. \A k \in 1..size : k \in 1..size + 1 /\ next[k] = pos[k]
    BY <1>1
  <2> HIDE DEF next
  <2> QED BY <1>2, <2>1, <2>2
<1>6. \A k, l \in 1..size + 1 : k < l => next[k] < next[l]
  <2> SUFFICES ASSUME NEW k \in 1..size + 1, NEW l \in 1..size + 1, k < l PROVE next[k] < next[l]
    OBVIOUS
  <2>1. k \in 1..size /\ next[k] = pos[k] /\ pos[k] \in at
    BY <1>1
  <2>2. CASE l = size + 1
    BY <2>1, <2>2, <1>1
  <2>3. CASE l # size + 1
    <3>1. l \in 1..size /\ next[l] = pos[l]
      BY <1>1, <2>3
    <3> QED BY <1>2, <2>1, <3>1
  <2> QED BY <2>2, <2>3
<1> HIDE DEF next
<1> QED BY <1>1, <1>3, <1>4, <1>5, <1>6 DEF InOrder, more

LEMMA NextWord ==
    ASSUME NEW argv, NEW W, NEW words \in Seq(W), NEW n \in Nat, n # 0, FirstWord(argv, n - 1, words), AsWord(argv[n]) \in W
    PROVE  /\ Positional(argv, n)  => FirstWord(argv, n, Append(words, AsWord(argv[n])))
           /\ ~Positional(argv, n) => FirstWord(argv, n, words)
<1>1. \A i \in 1..n : i \in 1..(n - 1) \/ i = n
  OBVIOUS
<1>2. \A i \in 1..(n - 1) : i \in 1..n
  OBVIOUS
<1>3. ASSUME Positional(argv, n) PROVE FirstWord(argv, n, Append(words, AsWord(argv[n])))
  <2> DEFINE more == Append(words, AsWord(argv[n]))
  <2>1. /\ Len(words) \in Nat /\ Len(more) = Len(words) + 1 /\ more[Len(words) + 1] = AsWord(argv[n])
        /\ \A k \in 1..Len(words) : more[k] = words[k]
    BY AppendProperties, LenProperties
  <2>2. more # <<>>
    <3>1. Len(<<>>) = 0
      OBVIOUS
    <3> HIDE DEF more
    <3> QED BY <2>1, <3>1
  <2> HIDE DEF more
  <2>3. CASE words = <<>>
    <3>1. more[1] = AsWord(argv[n])
      <4>1. Len(words) = 0
        BY <2>3
      <4> QED BY <2>1, <4>1
    <3>2. \A j \in 1..(n - 1) : ~Positional(argv, j)
      BY <2>3 DEF FirstWord
    <3>3. n \in 1..n
      OBVIOUS
    <3> QED BY <1>3, <2>2, <3>1, <3>2, <3>3 DEF FirstWord, more
  <2>4. CASE words # <<>>
    <3>1. more[1] = words[1]
      <4>1. Len(words) # 0
        BY <2>4, EmptySeq
      <4> QED BY <2>1, <4>1
    <3>2. PICK i \in 1..(n - 1) : /\ Positional(argv, i) /\ words[1] = AsWord(argv[i])
                                 /\ \A j \in 1..(i - 1) : ~Positional(argv, j)
      BY <2>4 DEF FirstWord
    <3> QED BY <1>2, <2>2, <3>1, <3>2 DEF FirstWord, more
  <2> QED BY <2>3, <2>4
<1>4. ASSUME ~Positional(argv, n) PROVE FirstWord(argv, n, words)
  BY <1>1, <1>2, <1>4 DEF FirstWord
<1> QED BY <1>3, <1>4

\* What stands at one place of a line.
LEMMA OnePlace ==
    ASSUME NEW argv, IsLine(argv), NEW n \in 1..Len(argv)
    PROVE  /\ Dashed(argv, n) <=> Dashed(argv, n - 1) \/ IsDashes(argv[n])
           /\ \A flag : n \in Stated(argv, flag) <=> IsFlag(argv[n]) /\ argv[n].flag = flag /\ ~Dashed(argv, n)
           /\ Positional(argv, n) <=>
                 \/ Dashed(argv, n - 1)
                 \/ IsWord(argv[n]) /\ ~IsDashes(argv[n]) /\ ~ \E option \in Options : Waits(argv, n - 1, option)
           /\ \A option \in Options : Waits(argv, n - 1, option) =>
                 n - 1 \in 1..Len(argv) /\ ~Dashed(argv, n - 1) /\ ValueAt(argv, n - 1) = argv[n].text
           /\ \A option, other : Waits(argv, n - 1, option) /\ Waits(argv, n - 1, other) => option = other
<1>1. n \in DOMAIN argv /\ DOMAIN argv = 1..Len(argv) /\ Len(argv) \in Nat
  BY LinesAreSequences
<1>2. 1..n = 1..(n - 1) \cup {n}
  OBVIOUS
<1>3. Dashed(argv, n) <=> Dashed(argv, n - 1) \/ IsDashes(argv[n])
  BY <1>2 DEF Dashed
<1>4. \A flag : n \in Stated(argv, flag) <=> IsFlag(argv[n]) /\ argv[n].flag = flag /\ ~Dashed(argv, n)
  BY <1>1 DEF Stated
<1>5. (n - 1) + 1 = n
  OBVIOUS
<1>6. \A option \in Options : Waits(argv, n - 1, option) =>
          n - 1 \in 1..Len(argv) /\ ~Dashed(argv, n - 1) /\ ValueAt(argv, n - 1) = argv[n].text
  BY <1>1, <1>5 DEF Waits, Stated, ValueAt
<1>7. \A option, other : Waits(argv, n - 1, option) /\ Waits(argv, n - 1, other) => option = other
  BY DEF Waits, Stated
<1>8. Positional(argv, n) <=>
          \/ Dashed(argv, n - 1)
          \/ IsWord(argv[n]) /\ ~IsDashes(argv[n]) /\ ~ \E option \in Options : Waits(argv, n - 1, option)
  BY DEF Positional, Waits
<1> QED BY <1>3, <1>4, <1>6, <1>7, <1>8

\* Which values of an option are settled after one place more.
LEMMA SettledGrows ==
    ASSUME NEW argv, IsLine(argv), NEW n \in 1..Len(argv), NEW option \in Options
    PROVE  /\ Settled(argv, n - 1, option) \subseteq 1..(n - 1)
           /\ \A i \in Settled(argv, n - 1, option) : i < n /\ (Waits(argv, n - 1, option) => i < n - 1)
           /\ Settled(argv, n, option) =
                 Settled(argv, n - 1, option)
                   \cup (IF Waits(argv, n - 1, option) THEN {n - 1} ELSE {})
                   \cup (IF n \in Stated(argv, option) /\ argv[n].value # None THEN {n} ELSE {})
<1> DEFINE S == Stated(argv, option)
<1>1. S \subseteq 1..Len(argv)
  BY LinesAreSequences DEF Stated
<1>2. \A i : i \in Settled(argv, n - 1, option) <=> i \in S /\ i <= n - 1 /\ ~(i = n - 1 /\ argv[i].value = None)
  BY DEF Settled
<1>3. \A i : i \in Settled(argv, n, option) <=> i \in S /\ i <= n /\ ~(i = n /\ argv[i].value = None)
  BY DEF Settled
<1>4. Waits(argv, n - 1, option) <=> n - 1 \in S /\ argv[n - 1].value = None
  BY DEF Waits
<1> HIDE DEF S
<1>5. Len(argv) \in Nat
  BY LinesAreSequences
<1>6. \A i \in S : i \in Nat /\ i >= 1
  BY <1>1, <1>5
<1>7. Settled(argv, n - 1, option) \subseteq 1..(n - 1)
  BY <1>2, <1>6
<1>8. \A i \in Settled(argv, n - 1, option) : i < n /\ (Waits(argv, n - 1, option) => i < n - 1)
  BY <1>2, <1>4, <1>6
<1>9. \A i : i \in Settled(argv, n, option) <=>
          \/ i \in Settled(argv, n - 1, option)
          \/ i = n - 1 /\ Waits(argv, n - 1, option)
          \/ i = n /\ n \in S /\ argv[n].value # None
  <2> TAKE i
  <2>1. CASE i \in S
    <3>1. i \in Nat
      BY <1>6, <2>1
    <3>2. CASE i = n
      BY <1>2, <1>3, <2>1, <3>1, <3>2
    <3>3. CASE i = n - 1
      BY <1>2, <1>3, <1>4, <2>1, <3>1, <3>3
    <3>4. CASE i # n /\ i # n - 1
      <4>1. i <= n <=> i <= n - 1
        BY <3>1, <3>4
      <4> QED BY <1>2, <1>3, <2>1, <3>4, <4>1
    <3> QED BY <3>2, <3>3, <3>4
  <2>2. CASE i \notin S
    BY <1>2, <1>3, <1>4, <2>2
  <2> QED BY <2>1, <2>2
<1> QED BY <1>7, <1>8, <1>9 DEF S

\* One argument more is read well if each part takes what that argument is to it.
LEMMA ReadOn ==
    ASSUME ReportAssumption, NEW argv, IsLine(argv), NEW n \in 1..Len(argv),
           NEW p \in States(argv), ReadWell(argv, n - 1, p), NEW q,
           q.dashes <=> Dashed(argv, n),
           \A flag \in {"json", "help", "version"} : flag \in q.flags <=> flag \in p.flags \/ n \in Stated(argv, flag),
           \A option \in Options : Waits(argv, n, option) <=> q.awaiting = option,
           \A option \in Options :
               IF Waits(argv, n - 1, option)
               THEN /\ q.values[option] = Append(p.values[option], ValueAt(argv, n - 1))
                    /\ n \notin Stated(argv, option) /\ ValueAt(argv, n - 1) # None
               ELSE IF n \in Stated(argv, option) /\ argv[n].value # None
                    THEN q.values[option] = Append(p.values[option], ValueAt(argv, n))
                    ELSE q.values[option] = p.values[option],
           q.words = IF Positional(argv, n) THEN Append(p.words, AsWord(argv[n])) ELSE p.words
    PROVE  ReadWell(argv, n, q)
<1>1. /\ n \in DOMAIN argv /\ n \in Nat /\ n # 0 /\ n - 1 \in Nat /\ Len(argv) \in Nat /\ DOMAIN argv = 1..Len(argv)
  BY LinesAreSequences
<1>2. \A flag \in {"json", "help", "version"} : flag \in q.flags <=> \E i \in Stated(argv, flag) : i <= n
  <2> TAKE flag \in {"json", "help", "version"}
  <2>1. \A i \in Stated(argv, flag) : i <= n <=> i <= n - 1 \/ i = n
    BY <1>1 DEF Stated
  <2>2. flag \in p.flags <=> \E i \in Stated(argv, flag) : i <= n - 1
    BY DEF ReadWell
  <2>3. n <= n
    BY <1>1
  <2> QED BY <2>1, <2>2, <2>3
<1>3. ASSUME NEW option \in Options
      PROVE  /\ InOrder(argv, Settled(argv, n, option), q.values[option])
             /\ \A i \in Settled(argv, n, option) : ValueAt(argv, i) # None
  <2> DEFINE given == p.values[option]
             at == Settled(argv, n - 1, option)
             U == ValuesOf(argv)
  <2>1. given \in Seq(U)
    BY DEF States
  <2>2. InOrder(argv, at, given) /\ \A i \in at : ValueAt(argv, i) # None
    BY DEF ReadWell
  <2>3. /\ at \subseteq 1..(n - 1) /\ \A i \in at : i < n /\ (Waits(argv, n - 1, option) => i < n - 1)
        /\ Settled(argv, n, option) = at \cup (IF Waits(argv, n - 1, option) THEN {n - 1} ELSE {})
                                         \cup (IF n \in Stated(argv, option) /\ argv[n].value # None THEN {n} ELSE {})
    BY SettledGrows
  <2>4. at \subseteq Nat
    BY <2>3
  <2>5. \A i \in DOMAIN argv : ValueAt(argv, i) \in U
    BY DEF ValuesOf
  <2> HIDE DEF given, at, U
  <2>6. CASE Waits(argv, n - 1, option)
    <3>1. Settled(argv, n, option) = at \cup {n - 1} /\ n - 1 \in DOMAIN argv
      BY <2>3, <2>6 DEF Waits, Stated
    <3>2. InOrder(argv, at \cup {n - 1}, Append(given, ValueAt(argv, n - 1)))
      BY <1>1, <2>1, <2>2, <2>3, <2>4, <2>5, <2>6, <3>1, OneMoreValue
    <3> QED BY <2>2, <2>6, <3>1, <3>2 DEF given
  <2>7. CASE ~Waits(argv, n - 1, option) /\ n \in Stated(argv, option) /\ argv[n].value # None
    <3>1. Settled(argv, n, option) = at \cup {n}
      BY <2>3, <2>7
    <3>2. InOrder(argv, at \cup {n}, Append(given, ValueAt(argv, n)))
      BY <1>1, <2>1, <2>2, <2>3, <2>4, <2>5, OneMoreValue
    <3>3. ValueAt(argv, n) # None
      BY <2>7 DEF ValueAt
    <3> QED BY <2>2, <2>7, <3>1, <3>2, <3>3 DEF given
  <2>8. CASE ~Waits(argv, n - 1, option) /\ ~(n \in Stated(argv, option) /\ argv[n].value # None)
    <3>1. Settled(argv, n, option) = at
      BY <2>3, <2>8
    <3> QED BY <2>2, <2>8, <3>1 DEF given
  <2> QED BY <2>6, <2>7, <2>8
<1>4. FirstWord(argv, n, q.words)
  <2> DEFINE W == {AsWord(argv[i]) : i \in DOMAIN argv}
  <2>1. p.words \in Seq(W) /\ AsWord(argv[n]) \in W /\ FirstWord(argv, n - 1, p.words)
    BY <1>1 DEF States, ReadWell
  <2> HIDE DEF W
  <2> QED BY <1>1, <2>1, NextWord
<1> QED BY <1>2, <1>3, <1>4 DEF ReadWell

\* What changes of a state leave as it was.
LEMMA ErrorIsKept ==
    ASSUME NEW argv, NEW p \in States(argv), NEW q, q = [p EXCEPT !.error = TRUE]
    PROVE  q \in States(argv) /\ q.error
  BY DEF States

LEMMA DashesAreKept ==
    ASSUME NEW argv, NEW p \in States(argv), NEW q, q = [p EXCEPT !.dashes = TRUE]
    PROVE  /\ q \in States(argv) /\ q.dashes
           /\ q.flags = p.flags /\ q.awaiting = p.awaiting /\ q.words = p.words /\ q.values = p.values
  BY DEF States

LEMMA FlagIsKept ==
    ASSUME NEW argv, NEW p \in States(argv), NEW flag \in {"json", "help", "version"}, NEW q, q = [p EXCEPT !.flags = @ \cup {flag}]
    PROVE  /\ q \in States(argv) /\ q.flags = p.flags \cup {flag}
           /\ q.dashes = p.dashes /\ q.awaiting = p.awaiting /\ q.words = p.words /\ q.values = p.values
  BY DEF States

LEMMA OptionIsKept ==
    ASSUME NEW argv, NEW p \in States(argv), NEW option \in Options, NEW q, q = [p EXCEPT !.awaiting = option]
    PROVE  /\ q \in States(argv) /\ q.awaiting = option
           /\ q.dashes = p.dashes /\ q.flags = p.flags /\ q.words = p.words /\ q.values = p.values
  BY DEF States

LEMMA WordIsKept ==
    ASSUME NEW argv, NEW p \in States(argv), NEW i \in DOMAIN argv, NEW q, q = [p EXCEPT !.words = Append(@, AsWord(argv[i]))]
    PROVE  /\ q \in States(argv) /\ q.words = Append(p.words, AsWord(argv[i]))
           /\ q.dashes = p.dashes /\ q.flags = p.flags /\ q.awaiting = p.awaiting /\ q.values = p.values
<1> DEFINE W == {AsWord(argv[j]) : j \in DOMAIN argv}
<1>1. p.words \in Seq(W) /\ AsWord(argv[i]) \in W
  BY DEF States
<1> HIDE DEF W
<1>2. Append(p.words, AsWord(argv[i])) \in Seq(W)
  BY <1>1, AppendProperties
<1> QED BY <1>2 DEF States, W

LEMMA ValueIsKept ==
    ASSUME NEW argv, NEW p \in States(argv), NEW option \in Options, NEW v \in ValuesOf(argv)
    PROVE  LET values == [p.values EXCEPT ![option] = Append(@, v)]
           IN  /\ values \in [Options -> Seq(ValuesOf(argv))] /\ values[option] = Append(p.values[option], v)
               /\ \A other \in Options : other # option => values[other] = p.values[other]
<1> DEFINE U == ValuesOf(argv)
<1>1. p.values \in [Options -> Seq(U)] /\ v \in U
  BY DEF States
<1> HIDE DEF U
<1>2. Append(p.values[option], v) \in Seq(U)
  BY <1>1, AppendProperties
<1> QED BY <1>1, <1>2 DEF U

\* One argument more is read.
LEMMA ReadingGoesOn ==
    ASSUME ReportAssumption, NEW argv, IsLine(argv), NEW n \in 1..Len(argv),
           NEW p \in States(argv), ~p.error => ReadWell(argv, n - 1, p)
    PROVE  LET q == TakeArg(p, argv[n]) IN q \in States(argv) /\ (~q.error => ReadWell(argv, n, q))
<1> DEFINE arg == argv[n]
           q == TakeArg(p, arg)
           Words == {AsWord(argv[i]) : i \in DOMAIN argv}
<1>1. /\ n \in DOMAIN argv /\ IsArgument(arg) /\ AsWord(arg) \in Words /\ n \in Nat /\ n # 0
      /\ Len(argv) \in Nat /\ DOMAIN argv = 1..Len(argv)
  BY LinesAreSequences
<1>2. IsWord(arg) <=> ~IsFlag(arg)
  BY <1>1, ArgumentKinds
<1>3. /\ p.flags \in SUBSET {"json", "help", "version"} /\ p.values \in [Options -> Seq(ValuesOf(argv))]
      /\ p.words \in Seq(Words) /\ p.dashes \in BOOLEAN /\ p.awaiting \in Options \cup {None} /\ p.error \in BOOLEAN
  BY DEF States
<1>4. None \notin Options
  BY DEF ReportAssumption
<1> HIDE DEF arg, Words
<1>5. /\ Dashed(argv, n) <=> Dashed(argv, n - 1) \/ IsDashes(arg)
      /\ \A flag : n \in Stated(argv, flag) <=> IsFlag(arg) /\ arg.flag = flag /\ ~Dashed(argv, n)
      /\ Positional(argv, n) <=>
            \/ Dashed(argv, n - 1)
            \/ IsWord(arg) /\ ~IsDashes(arg) /\ ~ \E option \in Options : Waits(argv, n - 1, option)
      /\ \A option \in Options : Waits(argv, n - 1, option) =>
            n - 1 \in 1..Len(argv) /\ ~Dashed(argv, n - 1) /\ ValueAt(argv, n - 1) = arg.text
      /\ \A option \in Options : Waits(argv, n, option) <=> n \in Stated(argv, option) /\ arg.value = None
      /\ arg.value # None => ValueAt(argv, n) = arg.value
  BY OnePlace DEF arg, Waits, ValueAt
<1>6. ~p.error => /\ p.dashes <=> Dashed(argv, n - 1)
                  /\ \A option \in Options : Waits(argv, n - 1, option) <=> p.awaiting = option
  BY DEF ReadWell
<1>7. /\ IsDashes(arg) => IsWord(arg)
      /\ IsWord(arg) => arg.text # None
  BY <1>1, ArgumentKinds DEF IsDashes
<1>8. \A i \in DOMAIN argv : ValueAt(argv, i) \in ValuesOf(argv)
  BY DEF ValuesOf
<1>10. CASE p.error
  BY <1>10 DEF TakeArg, arg
<1>11. CASE ~p.error /\ p.dashes
  <2>1. q = [p EXCEPT !.words = Append(@, AsWord(arg))]
    BY <1>11 DEF TakeArg, AsWord
  <2>2. q \in States(argv) /\ q.dashes = p.dashes /\ q.flags = p.flags /\ q.awaiting = p.awaiting /\ q.values = p.values
        /\ q.words = Append(p.words, AsWord(arg))
    BY <1>1, <2>1, WordIsKept DEF arg
  <2> HIDE DEF q
  <2>3. ReadWell(argv, n, q)
    BY <1>5, <1>6, <1>11, <2>2, ReadOn DEF arg
  <2> QED BY <2>2, <2>3 DEF q, arg
<1>12. CASE ~p.error /\ ~p.dashes /\ p.awaiting # None
  <2>1. CASE IsFlag(arg) \/ IsDashes(arg)
    <3>1. q = [p EXCEPT !.error = TRUE]
      BY <1>12, <2>1 DEF TakeArg
    <3>2. q \in States(argv) /\ q.error
      BY <3>1, ErrorIsKept
    <3> QED BY <3>2 DEF arg
  <2>2. CASE ~IsFlag(arg) /\ ~IsDashes(arg)
    <3> DEFINE option == p.awaiting
    <3>1. option \in Options /\ Waits(argv, n - 1, option) /\ ValueAt(argv, n - 1) = arg.text /\ arg.text # None
          /\ arg.text \in ValuesOf(argv)
      BY <1>1, <1>2, <1>3, <1>5, <1>6, <1>7, <1>8, <1>12, <2>2
    <3>2. q = [p EXCEPT !.values[option] = Append(@, arg.text), !.awaiting = None]
      BY <1>12, <2>2 DEF TakeArg
    <3>3. /\ q \in States(argv) /\ q.dashes = p.dashes /\ q.flags = p.flags /\ q.awaiting = None /\ q.words = p.words
          /\ q.values[option] = Append(p.values[option], arg.text)
          /\ \A other \in Options : other # option => q.values[other] = p.values[other]
      <4> DEFINE values == [p.values EXCEPT ![option] = Append(@, arg.text)]
      <4> HIDE DEF q, option
      <4>1. q = [p EXCEPT !.values = values, !.awaiting = None]
        BY <3>2
      <4>2. /\ values \in [Options -> Seq(ValuesOf(argv))] /\ values[option] = Append(p.values[option], arg.text)
            /\ \A other \in Options : other # option => values[other] = p.values[other]
        BY <3>1, ValueIsKept
      <4> HIDE DEF values
      <4>3. /\ q \in States(argv) /\ q.values = values /\ q.awaiting = None
            /\ q.dashes = p.dashes /\ q.flags = p.flags /\ q.words = p.words
        BY <4>1, <4>2 DEF States
      <4> QED BY <4>2, <4>3
    <3> HIDE DEF q
    <3>4. ReadWell(argv, n, q)
      BY <1>2, <1>4, <1>5, <1>6, <1>12, <2>2, <3>1, <3>3, ReadOn DEF arg
    <3> QED BY <3>3, <3>4 DEF q, arg
  <2> QED BY <2>1, <2>2
<1>13. CASE ~p.error /\ ~p.dashes /\ p.awaiting = None
  <2>1. CASE IsDashes(arg)
    <3>1. q = [p EXCEPT !.dashes = TRUE]
      BY <1>2, <1>7, <1>13, <2>1 DEF TakeArg
    <3>2. q \in States(argv) /\ q.dashes /\ q.flags = p.flags /\ q.awaiting = None /\ q.words = p.words /\ q.values = p.values
      BY <1>13, <3>1, DashesAreKept
    <3> HIDE DEF q
    <3>3. ReadWell(argv, n, q)
      BY <1>2, <1>4, <1>5, <1>6, <1>7, <1>13, <2>1, <3>2, ReadOn DEF arg
    <3> QED BY <3>2, <3>3 DEF q, arg
  <2>2. CASE IsWord(arg) /\ ~IsDashes(arg)
    <3>1. q = [p EXCEPT !.words = Append(@, arg)] /\ AsWord(arg) = arg
      BY <1>2, <1>13, <2>2 DEF TakeArg, AsWord
    <3>2. q \in States(argv) /\ q.dashes = p.dashes /\ q.flags = p.flags /\ q.awaiting = None /\ q.values = p.values
          /\ q.words = Append(p.words, AsWord(arg))
      BY <1>1, <1>13, <3>1, WordIsKept DEF arg
    <3> HIDE DEF q
    <3>3. ReadWell(argv, n, q)
      BY <1>2, <1>4, <1>5, <1>6, <1>13, <2>2, <3>2, ReadOn DEF arg
    <3> QED BY <3>2, <3>3 DEF q, arg
  <2>3. CASE IsFlag(arg) /\ arg.flag \in {"json", "help", "version"}
    <3>1. q = [p EXCEPT !.flags = @ \cup {arg.flag}]
      BY <1>2, <1>7, <1>13, <2>3 DEF TakeArg, Options
    <3>2. q \in States(argv) /\ q.dashes = p.dashes /\ q.flags = p.flags \cup {arg.flag} /\ q.awaiting = None /\ q.values = p.values
          /\ q.words = p.words
      BY <1>13, <2>3, <3>1, FlagIsKept
    <3>3. \A option \in Options : n \notin Stated(argv, option)
      BY <1>5, <2>3 DEF Options
    <3> HIDE DEF q
    <3>4. ReadWell(argv, n, q)
      BY <1>2, <1>4, <1>5, <1>6, <1>7, <1>13, <2>3, <3>2, <3>3, ReadOn DEF arg
    <3> QED BY <3>2, <3>4 DEF q, arg
  <2>4. CASE IsFlag(arg) /\ arg.flag \in Options
    <3> DEFINE option == arg.flag
    <3>1. /\ \A flag \in {"json", "help", "version"} : n \notin Stated(argv, flag)
          /\ \A other : n \in Stated(argv, other) <=> other = option
          /\ ~Positional(argv, n) /\ ~Dashed(argv, n) /\ ~IsDashes(arg)
      BY <1>2, <1>5, <1>6, <1>7, <1>13, <2>4 DEF Options
    <3>2. CASE arg.value = None
      <4>1. q = [p EXCEPT !.awaiting = option]
        BY <1>2, <1>13, <2>4, <3>1, <3>2 DEF TakeArg, Options
      <4>2. q \in States(argv) /\ q.dashes = p.dashes /\ q.flags = p.flags /\ q.awaiting = option /\ q.words = p.words /\ q.values = p.values
        BY <2>4, <4>1, OptionIsKept
      <4> HIDE DEF q
      <4>3. ReadWell(argv, n, q)
        BY <1>4, <1>5, <1>6, <1>13, <2>4, <3>1, <3>2, <4>2, ReadOn DEF arg
      <4> QED BY <4>2, <4>3 DEF q, arg
    <3>3. CASE arg.value # None
      <4>1. q = [p EXCEPT !.values[option] = Append(@, arg.value), !.awaiting = None]
        <5>1. q = [p EXCEPT !.values[option] = Append(@, arg.value)]
          BY <1>2, <1>13, <2>4, <3>1, <3>3 DEF TakeArg, Options
        <5> QED BY <1>13, <5>1 DEF States
      <4>2. arg.value = ValueAt(argv, n) /\ arg.value \in ValuesOf(argv)
        BY <1>1, <1>5, <1>8, <3>3
      <4>3. /\ q \in States(argv) /\ q.dashes = p.dashes /\ q.flags = p.flags /\ q.awaiting = None /\ q.words = p.words
            /\ q.values[option] = Append(p.values[option], arg.value)
            /\ \A other \in Options : other # option => q.values[other] = p.values[other]
        <5> DEFINE values == [p.values EXCEPT ![option] = Append(@, arg.value)]
        <5>1. option \in Options
          BY <2>4
        <5> HIDE DEF q, option
        <5>2. q = [p EXCEPT !.values = values, !.awaiting = None]
          BY <4>1
        <5>3. /\ values \in [Options -> Seq(ValuesOf(argv))] /\ values[option] = Append(p.values[option], arg.value)
              /\ \A other \in Options : other # option => values[other] = p.values[other]
          BY <4>2, <5>1, ValueIsKept
        <5> HIDE DEF values
        <5>4. /\ q \in States(argv) /\ q.values = values /\ q.awaiting = None
              /\ q.dashes = p.dashes /\ q.flags = p.flags /\ q.words = p.words
          BY <5>2, <5>3 DEF States
        <5> QED BY <5>3, <5>4
      <4> HIDE DEF q
      <4>4. ReadWell(argv, n, q)
        <5>1. \A other \in Options : ~Waits(argv, n - 1, other) /\ ~Waits(argv, n, other) /\ q.awaiting # other
          BY <1>4, <1>5, <1>6, <1>13, <3>3, <4>3
        <5>2. \A other \in Options :
                  IF n \in Stated(argv, other) /\ argv[n].value # None
                  THEN q.values[other] = Append(p.values[other], ValueAt(argv, n))
                  ELSE q.values[other] = p.values[other]
          BY <3>1, <3>3, <4>2, <4>3 DEF arg
        <5>3. p.dashes <=> Dashed(argv, n)
          BY <1>13, <3>1
        <5> QED BY <1>13, <3>1, <4>3, <5>1, <5>2, <5>3, ReadOn
      <4> QED BY <4>3, <4>4 DEF q, arg
    <3> QED BY <3>2, <3>3
  <2>5. CASE IsFlag(arg) /\ arg.flag \notin {"json", "help", "version"} \cup Options
    <3>1. q = [p EXCEPT !.error = TRUE]
      BY <1>2, <1>7, <1>13, <2>5 DEF TakeArg
    <3>2. q \in States(argv) /\ q.error
      BY <3>1, ErrorIsKept
    <3> QED BY <3>2 DEF arg
  <2> QED BY <1>2, <2>1, <2>2, <2>3, <2>4, <2>5
<1> QED BY <1>3, <1>10, <1>11, <1>12, <1>13

\* What has been read of a whole line in which nothing was wrong.
LEMMA LineIsRead ==
    ASSUME ReportAssumption, NEW argv, IsLine(argv), ~ParseArgs(argv).error
    PROVE  /\ ParseArgs(argv) \in States(argv)
           /\ \A flag \in {"json", "help", "version"} : flag \in ParseArgs(argv).flags <=> Stated(argv, flag) # {}
           /\ \A option \in Options :
                  /\ InOrder(argv, Stated(argv, option), ParseArgs(argv).values[option])
                  /\ \A i \in Stated(argv, option) : ValueAt(argv, i) # None
           /\ FirstWord(argv, Len(argv), ParseArgs(argv).words)
<1> DEFINE read == Reading(argv)
           size == Len(argv)
           Good(n) == read[n] \in States(argv) /\ (~read[n].error => ReadWell(argv, n, read[n]))
           S == {n \in 0..size : ~Good(n)}
<1>1. size \in Nat /\ DOMAIN argv = 1..size
  BY LinesAreSequences
<1>2. read[0] = Parsed /\ \A n \in 1..size : read[n] = TakeArg(read[n - 1], argv[n])
  BY <1>1, ReadingSteps
<1>3. None \notin Options
  BY DEF ReportAssumption
<1>4. Good(0)
  <2>1. Parsed \in States(argv)
    BY EmptySeq DEF Parsed, States
  <2>2. \A flag : \A i \in Stated(argv, flag) : i \in Nat /\ ~(i <= 0)
    BY <1>1 DEF Stated
  <2>3. ~Dashed(argv, 0) /\ \A i \in 1..0 : FALSE
    BY DEF Dashed
  <2>4. FirstWord(argv, 0, <<>>)
    BY <2>3 DEF FirstWord
  <2>5. \A option \in Options : ~Waits(argv, 0, option) /\ Settled(argv, 0, option) = {}
    BY <2>2 DEF Waits, Settled
  <2>6. InOrder(argv, {}, <<>>)
    <3>1. Len(<<>>) = 0 /\ 1..0 = {}
      OBVIOUS
    <3> DEFINE pos == [k \in {} |-> 0]
    <3>2. pos \in [1..Len(<<>>) -> {}]
      BY <3>1
    <3> HIDE DEF pos
    <3> QED BY <3>1, <3>2 DEF InOrder
  <2>7. ReadWell(argv, 0, Parsed)
    BY <1>3, <2>2, <2>3, <2>4, <2>5, <2>6 DEF ReadWell, Parsed
  <2> QED BY <1>2, <2>1, <2>7
<1>5. ASSUME NEW n \in 1..size, Good(n - 1) PROVE Good(n)
  <2> HIDE DEF read
  <2>1. LET q == TakeArg(read[n - 1], argv[n]) IN q \in States(argv) /\ (~q.error => ReadWell(argv, n, q))
    BY <1>5, ReadingGoesOn
  <2> QED BY <1>2, <2>1
<1>6. S = {}
  <2> SUFFICES ASSUME S # {} PROVE FALSE
    OBVIOUS
  <2>1. S \subseteq 0..size
    OBVIOUS
  <2> HIDE DEF Good, S, size
  <2>2. PICK m \in S : \A k \in S : m <= k
    BY <1>1, <2>1, LeastNumber
  <2>3. m \in 0..size /\ ~Good(m)
    BY DEF S
  <2>4. m \in 1..size /\ m - 1 \in 0..size /\ ~(m <= m - 1)
    BY <1>1, <1>4, <2>3
  <2>5. Good(m - 1)
    BY <2>2, <2>4 DEF S
  <2> QED BY <1>5, <2>3, <2>4, <2>5
<1> DEFINE end == read[size]
<1>7. Good(size)
  BY <1>1, <1>6
<1>8. ParseArgs(argv) = [end EXCEPT !.error = @ \/ end.awaiting # None]
  BY DEF ParseArgs
<1>9. end \in States(argv) /\ (~end.error => ReadWell(argv, size, end))
  BY <1>7
<1> DEFINE p == ParseArgs(argv)
<1> HIDE DEF end, read, size
<1>10. /\ p \in States(argv) /\ p.flags = end.flags /\ p.values = end.values /\ p.words = end.words
       /\ ~end.error /\ end.awaiting = None
  BY <1>8, <1>9 DEF States
<1>11. ReadWell(argv, size, end)
  BY <1>9, <1>10
<1>12. \A flag : \A i \in Stated(argv, flag) : i \in 1..size /\ i <= size
  BY <1>1 DEF Stated
<1>13. \A option \in Options : Settled(argv, size, option) = Stated(argv, option)
  <2> TAKE option \in Options
  <2>1. ~Waits(argv, size, option)
    BY <1>3, <1>10, <1>11 DEF ReadWell
  <2> QED BY <1>12, <2>1 DEF Settled, Waits
<1>14. \A flag \in {"json", "help", "version"} : flag \in p.flags <=> Stated(argv, flag) # {}
  BY <1>10, <1>11, <1>12 DEF ReadWell
<1>15. \A option \in Options : InOrder(argv, Stated(argv, option), p.values[option]) /\ \A i \in Stated(argv, option) : ValueAt(argv, i) # None
  BY <1>10, <1>11, <1>13 DEF ReadWell
<1>16. FirstWord(argv, size, p.words)
  BY <1>10, <1>11 DEF ReadWell
<1> QED BY <1>10, <1>14, <1>15, <1>16 DEF size

\* What the values of an option tell of the line.
LEMMA ValuesTell ==
    ASSUME NEW argv, IsLine(argv), NEW option, NEW given \in Seq(ValuesOf(argv)), InOrder(argv, Stated(argv, option), given)
    PROVE  /\ given = <<>> <=> Stated(argv, option) = {}
           /\ \A v : v \in ToSet(given) <=> \E i \in Stated(argv, option) : ValueAt(argv, i) = v
           /\ Stated(argv, option) # {} => Last(given) = LastValue(argv, Stated(argv, option))
           /\ \A rule :
                  LET part == {i \in Stated(argv, option) : ValueAt(argv, i)[1] = rule}
                      For == {k \in DOMAIN given : given[k][1] = rule}
                  IN  part # {} => given[CHOOSE k \in For : \A l \in For : l <= k] = LastValue(argv, part)
<1> DEFINE at == Stated(argv, option)
           size == Len(given)
<1>1. size \in Nat /\ DOMAIN given = 1..size
  BY LenProperties
<1>2. at \subseteq DOMAIN argv
  BY DEF Stated
<1> HIDE DEF at, size
<1>3. PICK pos \in [1..size -> at] :
          /\ \A k \in 1..size : given[k] = ValueAt(argv, pos[k])
          /\ \A i \in at : \E k \in 1..size : pos[k] = i
          /\ \A k, l \in 1..size : k < l => pos[k] < pos[l]
  BY DEF InOrder, at, size
<1>4. given = <<>> <=> at = {}
  <2>1. CASE given = <<>>
    <3>1. size = 0
      BY <2>1 DEF size
    <3> QED BY <1>3, <2>1, <3>1
  <2>2. CASE given # <<>>
    <3>1. size # 0
      BY <2>2, EmptySeq DEF size
    <3> QED BY <1>1, <1>3, <2>2, <3>1
  <2> QED BY <2>1, <2>2
<1>5. \A v : v \in ToSet(given) <=> \E i \in at : ValueAt(argv, i) = v
  BY <1>1, <1>3 DEF ToSet
<1>6. \A part : part \subseteq at /\ part # {} =>
          \E k \in 1..size : /\ pos[k] \in part /\ given[k] = LastValue(argv, part)
                           /\ \A l \in 1..size : pos[l] \in part => l <= k
  <2> SUFFICES ASSUME NEW part, part \subseteq at, part # {}
               PROVE  \E k \in 1..size : /\ pos[k] \in part /\ given[k] = LastValue(argv, part)
                                        /\ \A l \in 1..size : pos[l] \in part => l <= k
    OBVIOUS
  <2>1. Len(argv) \in Nat /\ part \subseteq 0..Len(argv)
    BY <1>2, LinesAreSequences
  <2>2. PICK m \in part : \A j \in part : j <= m
    BY <2>1, GreatestNumber
  <2>3. m = CHOOSE i \in part : \A j \in part : j <= i
    <3>1. \A i \in part : (\A j \in part : j <= i) => i = m
      BY <2>1, <2>2
    <3> QED BY <2>2, <3>1
  <2>4. PICK k \in 1..size : pos[k] = m
    BY <1>3, <2>2
  <2>5. \A l \in 1..size : pos[l] \in part => l <= k
    <3> SUFFICES ASSUME NEW l \in 1..size, pos[l] \in part, ~(l <= k) PROVE FALSE
      OBVIOUS
    <3>1. pos[k] < pos[l]
      BY <1>1, <1>3
    <3>2. \A j \in part : j \in Nat
      BY <2>1
    <3>3. \A j \in part : ~(m < j)
      BY <2>2, <3>2
    <3> QED BY <2>4, <3>1, <3>3
  <2> QED BY <1>3, <2>2, <2>3, <2>4, <2>5 DEF LastValue
<1>7. ASSUME at # {} PROVE Last(given) = LastValue(argv, at)
  <2>1. PICK k \in 1..size : given[k] = LastValue(argv, at) /\ \A l \in 1..size : l <= k
    BY <1>3, <1>6, <1>7
  <2>2. k = size
    BY <1>1, <2>1
  <2> QED BY <2>1, <2>2 DEF Last, size
<1>8. ASSUME NEW rule,
             {i \in at : ValueAt(argv, i)[1] = rule} # {}
      PROVE  LET part == {i \in at : ValueAt(argv, i)[1] = rule}
                 For == {k \in DOMAIN given : given[k][1] = rule}
             IN  given[CHOOSE k \in For : \A l \in For : l <= k] = LastValue(argv, part)
  <2> DEFINE part == {i \in at : ValueAt(argv, i)[1] = rule}
             For == {k \in DOMAIN given : given[k][1] = rule}
  <2>1. \A k : k \in For <=> k \in 1..size /\ pos[k] \in part
    BY <1>1, <1>3
  <2>2. part \subseteq at /\ part # {}
    BY <1>8
  <2> HIDE DEF part, For
  <2>3. PICK k \in 1..size : /\ pos[k] \in part /\ given[k] = LastValue(argv, part)
                            /\ \A l \in 1..size : pos[l] \in part => l <= k
    BY <1>6, <2>2
  <2>4. k \in For /\ \A l \in For : l <= k
    BY <2>1, <2>3
  <2>5. \A j \in For : (\A l \in For : l <= j) => j = k
    BY <1>1, <2>1, <2>4
  <2>6. k = CHOOSE j \in For : \A l \in For : l <= j
    BY <2>4, <2>5
  <2> QED BY <2>3, <2>6 DEF part, For
<1> QED BY <1>4, <1>5, <1>7, <1>8 DEF at

-----------------------------------------------------------------------------
(* The scan and its gate                                                   *)

\* The policy of a line is what it says: rules it leaves out, and the confidence its last --downgrade allows.
LEMMA JudgedIsAnalysed ==
    ASSUME ReportAssumption, NEW line \in CommandLines, ~ParseArgs(line.argv).error
    PROVE  AnalysePath(line.engine, line.native, Policy(ParseArgs(line.argv))) = Judged(line)
<1> DEFINE argv == line.argv
           p == ParseArgs(argv)
           policy == Policy(p)
           given == p.values["downgrade"]
           CapOf(f) == {i \in Stated(argv, "downgrade") : ValueAt(argv, i)[1] = f.rule}
           HeldBy(f) == IF f.rule \in DOMAIN policy.downgrade
                        THEN [f EXCEPT !.confidence = CapConfidence(f.confidence, policy.downgrade[f.rule])] ELSE f
           Held(f) == IF CapOf(f) = {} THEN f
                      ELSE [f EXCEPT !.confidence = CapConfidence(f.confidence, LastValue(argv, CapOf(f))[2])]
           On == {n \in line.native : n.rule \notin policy.disabled}
           Left == {n \in line.native : \A i \in Stated(argv, "disable-rule") : ValueAt(argv, i) # n.rule}
<1>1. IsLine(argv)
  BY DEF ReportAssumption, IsLine
<1>2. p \in States(argv) /\ \A option \in Options : InOrder(argv, Stated(argv, option), p.values[option])
  BY <1>1, LineIsRead
<1>3. \A option \in Options : p.values[option] \in Seq(ValuesOf(argv))
  BY <1>2 DEF States
<1>4. "downgrade" \in Options /\ "disable-rule" \in Options
  BY DEF Options
<1> HIDE DEF p
<1>5. On = Left
  <2>1. \A v : v \in ToSet(p.values["disable-rule"]) <=> \E i \in Stated(argv, "disable-rule") : ValueAt(argv, i) = v
    BY <1>1, <1>2, <1>3, <1>4, ValuesTell
  <2>2. policy.disabled = ToSet(p.values["disable-rule"])
    BY DEF Policy
  <2> QED BY <2>1, <2>2
<1>6. ASSUME NEW f PROVE HeldBy(f) = Held(f)
  <2> DEFINE For == {k \in DOMAIN given : given[k][1] = f.rule}
  <2>1. policy.downgrade = ParseDowngrades(given)
    BY DEF Policy
  <2>2. /\ \A v : v \in ToSet(given) <=> \E i \in Stated(argv, "downgrade") : ValueAt(argv, i) = v
        /\ CapOf(f) # {} => given[CHOOSE k \in For : \A l \in For : l <= k] = LastValue(argv, CapOf(f))
    <3> HIDE DEF given, argv
    <3>1. given \in Seq(ValuesOf(argv)) /\ InOrder(argv, Stated(argv, "downgrade"), given)
      BY <1>2, <1>3, <1>4 DEF given
    <3>2. /\ \A v : v \in ToSet(given) <=> \E i \in Stated(argv, "downgrade") : ValueAt(argv, i) = v
          /\ \A rule :
                LET part == {i \in Stated(argv, "downgrade") : ValueAt(argv, i)[1] = rule}
                    those == {k \in DOMAIN given : given[k][1] = rule}
                IN  part # {} => given[CHOOSE k \in those : \A l \in those : l <= k] = LastValue(argv, part)
      BY <1>1, <3>1, ValuesTell
    <3> QED BY <3>2
  <2>3. f.rule \in DOMAIN policy.downgrade <=> \E v \in ToSet(given) : v[1] = f.rule
    BY <2>1 DEF ParseDowngrades
  <2>4. f.rule \in DOMAIN policy.downgrade <=> CapOf(f) # {}
    BY <2>2, <2>3
  <2>5. ASSUME f.rule \in DOMAIN policy.downgrade
        PROVE  policy.downgrade[f.rule] = given[CHOOSE k \in For : \A l \in For : l <= k][2]
    BY <2>1, <2>5 DEF ParseDowngrades
  <2> HIDE DEF CapOf, For, policy, given
  <2>6. CASE CapOf(f) = {}
    BY <2>4, <2>6
  <2>7. CASE CapOf(f) # {}
    <3>1. policy.downgrade[f.rule] = LastValue(argv, CapOf(f))[2]
      BY <2>2, <2>4, <2>5, <2>7
    <3> QED BY <2>4, <2>7, <3>1
  <2> QED BY <2>6, <2>7
<1>7. AnalysePath(line.engine, line.native, policy) = line.engine \cup {Stamped(HeldBy(f)) : f \in On}
  BY DEF AnalysePath
<1>8. Judged(line) = line.engine \cup {Stamped(Held(f)) : f \in Left}
  BY DEF Judged
<1> HIDE DEF HeldBy, Held, On, Left
<1>9. {Stamped(HeldBy(f)) : f \in On} = {Stamped(Held(f)) : f \in Left}
  BY <1>5, <1>6
<1> QED BY <1>7, <1>8, <1>9 DEF p

LEMMA JudgedIsFinite ==
    ASSUME ReportAssumption, NEW line \in CommandLines, line.engine # None
    PROVE  IsFiniteSet(Judged(line))
<1> DEFINE CapOf(f) == {i \in Stated(line.argv, "downgrade") : ValueAt(line.argv, i)[1] = f.rule}
           Held(f) == IF CapOf(f) = {} THEN f
                      ELSE [f EXCEPT !.confidence = CapConfidence(f.confidence, LastValue(line.argv, CapOf(f))[2])]
           Left == {n \in line.native : \A i \in Stated(line.argv, "disable-rule") : ValueAt(line.argv, i) # n.rule}
           F == [f \in Left |-> Stamped(Held(f))]
<1>1. Judged(line) = line.engine \cup {Stamped(Held(f)) : f \in Left}
  BY DEF Judged
<1>2. IsFiniteSet(line.native) /\ IsFiniteSet(line.engine)
  BY DEF ReportAssumption
<1>3. IsFiniteSet(Left)
  BY <1>2, FS_Subset
<1> HIDE DEF Held, Left
<1>4. F \in Surjection(Left, {Stamped(Held(f)) : f \in Left})
  BY DEF Surjection
<1>5. IsFiniteSet({Stamped(Held(f)) : f \in Left})
  <2> HIDE DEF F
  <2> QED BY <1>3, <1>4, FS_Surjection
<1> QED BY <1>1, <1>2, <1>5, FS_Union
\* What a line is promised of its answer r.
GateHolds(line, r) ==
    LET argv == line.argv
        failOn == Stated(argv, "fail-on")
        Fails(f) == Counted(f) /\ AtOrAbove(f, LastValue(argv, failOn))
    IN  /\ failOn # {} /\ r.exit = 0 =>
               \/ r.out = "version" /\ Stated(argv, "version") # {}
               \/ r.out = "help" /\ AsksForHelp(argv)
               \/ r.out \in {"summary", "result"} /\ \A f \in Judged(line) : ~Fails(f)
        /\ r.exit = 1 =>
               failOn # {} /\ r.out \in {"summary", "result"} /\ \E f \in Judged(line) : Fails(f)
        /\ r.out = "summary" =>
               /\ r.shown \subseteq Judged(line)
               /\ Cardinality({f \in Judged(line) : Counted(f)}) = r.hidden + Cardinality({f \in r.shown : Counted(f)})
        /\ r.out = "result" => r.shown = Judged(line)
        /\ r.out \in {"summary", "result", "error", "error object"} =>
               (Stated(argv, "json") # {} <=> r.out \in {"result", "error object"})

LEMMA JsonIsWanted ==
    ASSUME NEW argv, IsLine(argv)
    PROVE  WantsJson(argv) <=> Stated(argv, "json") # {}
<1>1. DOMAIN argv = 1..Len(argv) /\ Len(argv) \in Nat
  BY LinesAreSequences
<1>2. ASSUME NEW i \in DOMAIN argv
      PROVE  (\A j \in {k \in DOMAIN argv : IsDashes(argv[k])} : i < j) <=> ~Dashed(argv, i)
  <2>1. i \in 1..Len(argv)
    BY <1>1
  <2>2. \A j \in DOMAIN argv : j \in Nat /\ j >= 1
    BY <1>1
  <2>3. \A j \in 1..i : j \in DOMAIN argv /\ ~(i < j)
    BY <1>1, <2>1
  <2>4. \A j \in DOMAIN argv : ~(i < j) => j \in 1..i
    BY <1>1, <2>1
  <2> QED BY <2>3, <2>4 DEF Dashed
<1> QED BY <1>2 DEF WantsJson, Stated

\* A line that was understood and asks for nothing else runs the scan, and its gate judges what the line says.
LEMMA ScanIsGated ==
    ASSUME ReportAssumption, NEW line \in CommandLines, ~ParseArgs(line.argv).error, line.engine # None
    PROVE  GateHolds(line, RunScan(ParseArgs(line.argv), Judged(line)))
<1> DEFINE argv == line.argv
           p == ParseArgs(argv)
           failOn == Stated(argv, "fail-on")
           found == Judged(line)
           min == Chosen(p, "severity")
           shown == IF min = None THEN found ELSE {f \in found : AtOrAbove(f, min)}
           Of(findings) == {f \in findings : Counted(f)}
           r == RunScan(p, found)
<1>1. IsLine(argv)
  BY DEF ReportAssumption, IsLine
<1>2. /\ p \in States(argv) /\ ("json" \in p.flags <=> Stated(argv, "json") # {})
      /\ InOrder(argv, failOn, p.values["fail-on"]) /\ \A i \in failOn : ValueAt(argv, i) # None
  <2>1. "fail-on" \in Options
    BY DEF Options
  <2> QED BY <1>1, <2>1, LineIsRead
<1>3. /\ p.values["fail-on"] \in Seq(ValuesOf(argv))
  BY <1>2 DEF States, Options
<1>4. /\ p.values["fail-on"] = <<>> <=> failOn = {}
      /\ failOn # {} => Last(p.values["fail-on"]) = LastValue(argv, failOn)
  <2> HIDE DEF p
  <2> QED BY <1>1, <1>2, <1>3, ValuesTell
<1>5. failOn # {} => LastValue(argv, failOn) # None
  <2> SUFFICES ASSUME failOn # {} PROVE LastValue(argv, failOn) # None
    OBVIOUS
  <2>1. DOMAIN argv = 1..Len(argv) /\ Len(argv) \in Nat /\ failOn \subseteq DOMAIN argv
    BY <1>1, LinesAreSequences DEF Stated
  <2> HIDE DEF failOn
  <2>2. failOn \subseteq 0..Len(argv)
    BY <2>1
  <2>3. PICK m \in failOn : \A j \in failOn : j <= m
    BY <2>1, <2>2, GreatestNumber
  <2>4. (CHOOSE i \in failOn : \A j \in failOn : j <= i) \in failOn
    BY <2>3
  <2> QED BY <1>2, <2>4 DEF LastValue, failOn
<1>6. failOn = {} => Chosen(p, "fail-on") = None
  BY <1>4 DEF Chosen
<1>7. failOn # {} => Chosen(p, "fail-on") = LastValue(argv, failOn) /\ Chosen(p, "fail-on") # None
  BY <1>4, <1>5 DEF Chosen
<1>8. shown \subseteq found /\ Cardinality(Of(found)) \in Nat /\ Cardinality(Of(shown)) \in Nat
  <2>1. IsFiniteSet(found)
    BY JudgedIsFinite
  <2>2. shown \subseteq found /\ Of(found) \subseteq found /\ Of(shown) \subseteq found
    OBVIOUS
  <2> HIDE DEF found, shown, Of
  <2> QED BY <2>1, <2>2, FS_Subset, FS_CardinalityType
<1>9. Gate(found, shown, Chosen(p, "fail-on")) <=>
          failOn # {} /\ \E f \in found : Counted(f) /\ AtOrAbove(f, LastValue(argv, failOn))
  BY <1>6, <1>7 DEF Gate
<1> DEFINE code == IF Gate(found, shown, Chosen(p, "fail-on")) THEN 1 ELSE 0
<1>10. r = IF "json" \in p.flags THEN [exit |-> code, out |-> "result", shown |-> found, hidden |-> 0]
           ELSE [exit |-> code, out |-> "summary", shown |-> shown,
                 hidden |-> Cardinality(Of(found)) - Cardinality(Of(shown))]
  BY DEF RunScan
<1>11. r.exit = code /\ code \in {0, 1} /\ (code = 1 <=> Gate(found, shown, Chosen(p, "fail-on")))
  BY <1>10
<1>12. /\ r.out = (IF "json" \in p.flags THEN "result" ELSE "summary")
       /\ r.out = "result" => r.shown = found
       /\ r.out = "summary" => r.shown = shown /\ r.hidden = Cardinality(Of(found)) - Cardinality(Of(shown))
  BY <1>10
<1> HIDE DEF r, code, found, shown, p
<1>13. r.out = "summary" => Cardinality(Of(found)) = r.hidden + Cardinality(Of(r.shown))
  <2> HIDE DEF Of
  <2> QED BY <1>8, <1>12
<1>14. GateHolds(line, r)
  BY <1>2, <1>8, <1>9, <1>11, <1>12, <1>13 DEF GateHolds, found
<1> QED BY <1>14 DEF r, p, found

\* Every line of arguments gets an answer its gate stands behind.
LEMMA LineIsGated ==
    ASSUME ReportAssumption, NEW line \in CommandLines
    PROVE  GateHolds(line, Run(line.argv, line.engine, line.native, line.preview))
<1> DEFINE argv == line.argv
           p == ParseArgs(argv)
           route == Route(p)
           r == Run(argv, line.engine, line.native, line.preview)
<1>1. IsLine(argv)
  BY DEF ReportAssumption, IsLine
<1>2. WantsJson(argv) <=> Stated(argv, "json") # {}
  BY <1>1, JsonIsWanted
<1>3. ASSUME NEW code \in {2, 3} PROVE GateHolds(line, Said(argv, code, "error"))
  BY <1>2 DEF GateHolds, Said
<1>4. GateHolds(line, Said(argv, 2, "preview"))
  BY DEF GateHolds, Said
<1>5. ASSUME Stated(argv, "fail-on") = {}
      PROVE  GateHolds(line, Said(argv, 0, "help")) /\ GateHolds(line, Said(argv, 0, "preview"))
  <2>1. GateHolds(line, Said(argv, 0, "help"))
    BY <1>5 DEF GateHolds, Said
  <2>2. GateHolds(line, Said(argv, 0, "preview"))
    BY <1>5 DEF GateHolds, Said
  <2> QED BY <2>1, <2>2
<1>6. CASE p.error
  <2>1. r = Said(argv, 2, "error")
    BY <1>6 DEF Run
  <2> QED BY <1>3, <2>1
<1>7. CASE ~p.error
  <2>1. /\ p \in States(argv) /\ \A flag \in {"json", "help", "version"} : flag \in p.flags <=> Stated(argv, flag) # {}
        /\ InOrder(argv, Stated(argv, "fail-on"), p.values["fail-on"]) /\ FirstWord(argv, Len(argv), p.words)
    <3>1. "fail-on" \in Options
      BY DEF Options
    <3> QED BY <1>1, <1>7, <3>1, LineIsRead
  <2>2. p.values["fail-on"] = <<>> <=> Stated(argv, "fail-on") = {}
    <3>1. p.values["fail-on"] \in Seq(ValuesOf(argv))
      BY <2>1 DEF States, Options
    <3> HIDE DEF p
    <3> QED BY <1>1, <2>1, <3>1, ValuesTell
  <2>3. Stated(argv, "fail-on") # {} => HasAny(p, ScanOnly)
    BY <2>2 DEF HasAny, ScanOnly
  <2>4. CASE "version" \in p.flags
    <3>1. r = Said(argv, 0, "version") /\ Stated(argv, "version") # {}
      BY <1>7, <2>1, <2>4 DEF Run
    <3>2. GateHolds(line, Said(argv, 0, "version"))
      BY <3>1 DEF GateHolds, Said
    <3> QED BY <3>1, <3>2
  <2>5. CASE "version" \notin p.flags /\ "help" \in p.flags
    <3>1. r = Said(argv, 0, "help") /\ AsksForHelp(argv)
      BY <1>7, <2>1, <2>5 DEF Run, AsksForHelp
    <3>2. GateHolds(line, Said(argv, 0, "help"))
      BY <3>1 DEF GateHolds, Said
    <3> QED BY <3>1, <3>2
  <2> DEFINE flagged == "version" \in p.flags \/ "help" \in p.flags
             helped == p.words # <<>> /\ p.words[1].text = "help"
  <2>6. CASE ~flagged /\ helped
    <3>1. r \in {Said(argv, 2, "error"), Said(argv, 0, "help")}
      BY <1>7, <2>6 DEF Run
    <3>2. AsksForHelp(argv)
      <4>1. PICK i \in 1..Len(argv) : /\ Positional(argv, i) /\ p.words[1] = AsWord(argv[i])
                                     /\ \A j \in 1..i - 1 : ~Positional(argv, j)
        BY <2>1, <2>6 DEF FirstWord
      <4>2. i \in DOMAIN argv
        BY <1>1, LinesAreSequences
      <4>3. IsWord(argv[i]) /\ argv[i].text = "help"
        BY <2>6, <4>1 DEF AsWord
      <4> QED BY <4>1, <4>2, <4>3 DEF AsksForHelp
    <3>3. GateHolds(line, Said(argv, 0, "help"))
      BY <3>2 DEF GateHolds, Said
    <3> QED BY <1>3, <3>1, <3>3
  <2> DEFINE plain == ~p.error /\ ~flagged /\ ~helped
  <2>7. CASE plain /\ route.command = "help"
    <3>1. r = Said(argv, 0, "help")
      BY <2>7 DEF Run
    <3>2. ~HasAny(p, ScanOnly)
      <4>1. "help" \notin Commands
        BY DEF Commands, RepoCommands, PackageCommands
      <4> HIDE DEF p
      <4> QED BY <2>7, <4>1 DEF Route
    <3> QED BY <1>5, <2>3, <3>1, <3>2
  <2>8. CASE plain /\ route.command # "help" /\ (route.command = "usage" \/ ~Accepts(route, p))
    <3>1. r = Said(argv, 2, "error")
      BY <2>8 DEF Run
    <3> QED BY <1>3, <3>1
  <2> DEFINE heard == plain /\ route.command \notin {"help", "usage"} /\ Accepts(route, p)
  <2>9. CASE heard /\ (route.command \in NotImplemented \/ line.engine = None)
    <3>1. r \in {Said(argv, 2, "error"), Said(argv, 3, "error")}
      BY <2>9 DEF Run
    <3> QED BY <1>3, <3>1
  <2>10. CASE heard /\ route.command \notin NotImplemented /\ line.engine # None /\ route.command = "fix"
    <3>1. r = Said(argv, IF line.preview THEN 0 ELSE 2, "preview")
      BY <2>10 DEF Run
    <3>2. Stated(argv, "fail-on") = {}
      BY <2>3, <2>10 DEF Accepts
    <3> QED BY <1>4, <1>5, <3>1, <3>2
  <2>11. CASE heard /\ route.command \notin NotImplemented /\ line.engine # None /\ route.command # "fix"
    <3>1. r = RunScan(p, AnalysePath(line.engine, line.native, Policy(p)))
      BY <2>11 DEF Run
    <3>2. AnalysePath(line.engine, line.native, Policy(p)) = Judged(line)
      BY <1>7, JudgedIsAnalysed
    <3>3. GateHolds(line, RunScan(p, Judged(line)))
      BY <1>7, <2>11, ScanIsGated
    <3> QED BY <3>1, <3>2, <3>3
  <2> QED BY <1>7, <2>4, <2>5, <2>6, <2>7, <2>8, <2>9, <2>10, <2>11
<1> QED BY <1>6, <1>7

-----------------------------------------------------------------------------
(* The theorems                                                            *)

\* A behaviour is one call and its answer.
Answers ==
    \/ call.of = "report" /\ call.with \in Analyses /\ result \in {Pending, ReportAnswer(call.with)}
    \/ /\ call.of = "action" /\ call.with \in Posts
       /\ result \in {Pending, PostCheck(call.with.output, call.with.pr, call.with.listing)}
    \/ /\ call.of = "command" /\ call.with \in CommandLines
       /\ result \in {Pending, Run(call.with.argv, call.with.engine, call.with.native, call.with.preview)}

LEMMA AnswersHold == ReportSpec => []Answers
<1>1. ReportInit => Answers
  BY DEF ReportInit, Calling, Answers
<1>2. Answers /\ [ReportNext]_callVars => Answers'
  <2> SUFFICES ASSUME Answers, [ReportNext]_callVars PROVE Answers'
    OBVIOUS
  <2>1. CASE Report
    BY <2>1 DEF Report, Answering, Answers
  <2>2. CASE Action
    BY <2>2 DEF Action, Answering, Answers
  <2>3. CASE Command
    BY <2>3 DEF Command, Answering, Answers
  <2>4. CASE UNCHANGED callVars
    BY <2>4 DEF callVars, Answers
  <2> QED BY <2>1, <2>2, <2>3, <2>4 DEF ReportNext
<1> QED BY <1>1, <1>2, PTL DEF ReportSpec

\* The worst a result could say is that something is unused which is not: the
\* default policy never does, whatever adapters, scan and configuration lose or
\* ask for, and nobody's claim outlives partial facts unmarked.
THEOREM AbsenceIsAlwaysProved == ReportAssumption => (ReportSpec => []AbsenceIsProved)
<1> SUFFICES ASSUME ReportAssumption PROVE ReportSpec => []AbsenceIsProved
  OBVIOUS
<1>1. Answers => AbsenceIsProved
  <2> SUFFICES ASSUME Answers, Answered("report") PROVE AbsenceIsProved
    BY DEF AbsenceIsProved, UnusedIsUnused, PartialFactsNeverConvict
  <2> DEFINE a == call.with
  <2>1. a \in Analyses /\ result.findings = Findings(a)
    BY DEF Answers, Answered, ReportAnswer, Findings
  <2>2. PartlySeen(a) <=> ScanIncomplete(a.outcomes, a.context)
    BY PartlySeenIsIncomplete
  <2>3. ASSUME NEW f \in Findings(a), f.kind \in AbsenceKinds
        PROVE  /\ \A o \in Detected(a.outcomes) : ~o.usageIncomplete
               /\ PartlySeen(a) => f.limited /\ f.confidence # "high"
               /\ f.kind = "unused" => f.confidence # "high"
               /\ \E p \in ProposedBy(a) :
                      /\ IsFinding(p) /\ f.kind = p.kind /\ f.rule = p.rule
                      /\ f.dependency = p.dependency /\ f.file = p.file
                      /\ ScanIncomplete(a.outcomes, a.context) \/ f.severity = SeverityOf(p)
    BY <2>1, <2>2, <2>3, ClaimsStand
  <2>4. ASSUME NEW f \in Findings(a), f.kind \in AbsenceKinds, a.default
        PROVE  \E d \in Merged(a.outcomes, "dependencies") :
                   d.name = f.dependency /\ d.manifest = f.file /\ IsTrulyUnused(a, d)
    <3> DEFINE in == Facts(a.outcomes, a.changes, a.context)
    <3>1. PICK p \in ProposedBy(a) : p.kind \in AbsenceKinds /\ f.dependency = p.dependency /\ f.file = p.file
      BY <2>3, <2>4
    <3>2. p \in DefaultPolicy(in, a.context.config)
      BY <2>4, <3>1 DEF ProposedBy
    <3>3. \A rule \in DOMAIN a.context.config.downgrade : a.context.config.downgrade[rule] \in Confidences
      BY <2>1 DEF ReportAssumption
    <3>4. PICK d \in in.dependencies :
              IsUnused(in, a.context.config, d) /\ p.dependency = d.name /\ p.file = d.manifest
      BY <3>1, <3>2, <3>3, PolicyConvictsTheUnused
    <3>5. d \in Merged(a.outcomes, "dependencies")
      BY <3>4 DEF Facts
    <3>6. SeesWhatIsThere(a)
      BY <2>1 DEF ReportAssumption
    <3>7. IsTrulyUnused(a, d)
      BY <2>3, <2>4, <3>4, <3>5, <3>6, UnusedIsTrulyUnused
    <3> QED BY <3>1, <3>4, <3>5, <3>7
  <2> HIDE DEF a
  <2>6. Claims = {f \in Findings(a) : f.kind \in AbsenceKinds}
    BY <2>1 DEF Claims
  <2>7. UnusedIsUnused
    BY <2>4, <2>6 DEF UnusedIsUnused, a
  <2>8. PartialFactsNeverConvict
    BY <2>2, <2>3, <2>6 DEF PartialFactsNeverConvict, a
  <2> QED BY <2>7, <2>8 DEF AbsenceIsProved
<1> QED BY <1>1, AnswersHold, PTL

\* A clean check is a promise that nothing failed, was cut, dropped, proposed or
\* left out, of an analysis as of a result that the action posts; and whatever
\* arguments a command line has, its exit code is what the gate it states says
\* of what the scan found.
THEOREM SuccessIsAlwaysMeant == ReportAssumption => (ReportSpec => []SuccessIsMeant)
<1> SUFFICES ASSUME ReportAssumption PROVE ReportSpec => []SuccessIsMeant
  OBVIOUS
<1>1. Answers => SuccessIsMeant
  <2> SUFFICES ASSUME Answers PROVE SuccessIsMeant
    OBVIOUS
  <2>1. CASE Answered("report")
    <3>1. call.with \in Analyses /\ result = ReportAnswer(call.with) /\ ~Answered("action") /\ ~Answered("command")
      BY <2>1 DEF Answers, Answered
    <3> QED BY <2>1, <3>1, SuccessOfAReport DEF SuccessIsMeant, GateIsNeverSkipped
  <2>2. CASE Answered("action")
    <3>1. /\ call.with \in Posts /\ ~Answered("report") /\ ~Answered("command")
          /\ result = PostCheck(call.with.output, call.with.pr, call.with.listing)
      BY <2>2 DEF Answers, Answered
    <3> QED BY <2>2, <3>1, SuccessOfAPost DEF SuccessIsMeant, GateIsNeverSkipped
  <2>3. CASE ~Answered("report") /\ ~Answered("action")
    <3>1. Answered("command") => /\ call.with \in CommandLines
                                 /\ result = Run(call.with.argv, call.with.engine, call.with.native, call.with.preview)
      BY DEF Answers, Answered
    <3>2. Answered("command") => GateHolds(call.with, result)
      BY <3>1, LineIsGated
    <3>3. GateIsNeverSkipped
      BY <3>2 DEF GateIsNeverSkipped, GateHolds
    <3> QED BY <2>3, <3>3 DEF SuccessIsMeant
  <2> QED BY <2>1, <2>2, <2>3
<1> QED BY <1>1, AnswersHold, PTL

-----------------------------------------------------------------------------
(* The removal of a dependency (module ResultFacts): what is left of a       *)
(* manifest and its lockfile.                                                *)

\* Where no place is below another, a package finds what it needs at the top or nowhere.
LEMMA OnlyTheTop ==
    ASSUME NEW packages, NEW from \in DOMAIN packages, NEW name,
           \A key \in DOMAIN packages : key \in Seq(ToSet(key)) /\ Len(key) <= 1
    PROVE  PlacesFor(packages, from, name) = {NodeKey(name)} \cap DOMAIN packages
<1> DEFINE S == ToSet(from) \cup {name}
           Place(n) == Append(SubSeq(from, 1, n), name)
<1>1. from \in Seq(ToSet(from)) /\ Len(from) \in Nat
  BY LenProperties
<1>2. from \in Seq(S)
  <2>1. \A i \in 1..Len(from) : from[i] \in S
    BY <1>1 DEF ToSet
  <2> QED BY <1>1, <2>1, SeqDef
<1>3. ASSUME NEW n \in 0..Len(from)
      PROVE  Place(n) \in Seq(S) /\ Len(Place(n)) = n + 1 /\ Place(n)[n + 1] = name
  <2>1. SubSeq(from, 1, n) \in Seq(S) /\ Len(SubSeq(from, 1, n)) = n
    BY <1>1, <1>2, SubSeqProperties, Z3
  <2> HIDE DEF S
  <2> QED BY <2>1, <1>1, name \in S, AppendProperties DEF S
<1>4. \A n \in 0..Len(from) : Len(Place(n)) <= 1 => n = 0
  BY <1>1, <1>3
<1>5. Place(0) = NodeKey(name)
  <2>1. Place(0) \in Seq(S) /\ Len(Place(0)) = 1 /\ Place(0)[1] = name
    BY <1>1, <1>3
  <2>2. <<name>> \in Seq(S) /\ Len(<<name>>) = 1 /\ <<name>>[1] = name
    OBVIOUS
  <2> HIDE DEF Place, S
  <2> QED BY <2>1, <2>2, SeqEqual DEF NodeKey
<1>6. \A p \in PlacesFor(packages, from, name) : p = NodeKey(name) /\ p \in DOMAIN packages
  BY <1>4, <1>5 DEF PlacesFor
<1>7. NodeKey(name) \in DOMAIN packages => NodeKey(name) \in PlacesFor(packages, from, name)
  BY <1>1, <1>5 DEF PlacesFor
<1> QED BY <1>6, <1>7

LEMMA TheOnlyPlace ==
    ASSUME NEW packages, NEW from \in DOMAIN packages, NEW name,
           \A key \in DOMAIN packages : key \in Seq(ToSet(key)) /\ Len(key) <= 1,
           NodeKey(name) \in DOMAIN packages
    PROVE  PlaceFor(packages, from, name) = NodeKey(name)
<1>1. PlacesFor(packages, from, name) = {NodeKey(name)}
  BY OnlyTheTop
<1>2. Len(NodeKey(name)) = 1
  BY DEF NodeKey
<1> QED BY <1>1, <1>2 DEF PlaceFor

\* An object that loses one name of one section.
LEMMA UndeclaredSections ==
    ASSUME NEW object, NEW field, NEW name, NEW s,
           IsSection(object, field), Lacking(object[field], name) # None
    PROVE  LET edited == Undeclared(object, field, name) IN
           /\ DOMAIN edited = DOMAIN object
           /\ SectionOf(edited, s) = IF s = field THEN Lacking(object[field], name) ELSE SectionOf(object, s)
BY DEF Undeclared, SectionOf, IsSection, HasKey

LEMMA LackingFacts ==
    ASSUME NEW object, NEW key
    PROVE  /\ DOMAIN Lacking(object, key) = DOMAIN object \ {key}
           /\ \A k \in DOMAIN object \ {key} : Lacking(object, key)[k] = object[k]
BY DEF Lacking

\* What is known of two files when the removal of a name may be previewed.
Fit(manifest, lock, name, field) ==
    /\ field \in {"dependencies", "devDependencies"}
    /\ FieldsOf(manifest, name) = {field} /\ FieldOf(manifest, name) = field
    /\ IsSection(manifest, field) /\ IsSection(lock.packages[RootKey], field)
    /\ lock.packages[RootKey][field] = manifest[field]
    /\ \A s \in DependencySections : SectionOf(lock.packages[RootKey], s) = SectionOf(manifest, s)
    /\ \A s \in DependencySections : name \in DOMAIN SectionOf(manifest, s) => s = field
    /\ name \in DOMAIN manifest[field]

LEMMA PreviewableFits ==
    ASSUME NEW paths, NEW manifestText, NEW lockText, NEW name,
           Previewable(paths, manifestText, lockText, name)
    PROVE  Fit(manifestText.value, lockText.value, name, FieldOf(manifestText.value, name))
<1> DEFINE manifest == manifestText.value
           lock == lockText.value
<1>1. DeclaredOnce(manifest, name) /\ RootAgrees(manifest, lock, name)
  BY DEF Previewable
<1>2. PICK s \in {"dependencies", "devDependencies"} : FieldsOf(manifest, name) = {s}
  BY <1>1 DEF DeclaredOnce
<1>3. s \in DependencySections /\ HasKey(SectionOf(manifest, s), name)
  BY <1>2 DEF FieldsOf
<1>4. \A t \in DependencySections : HasKey(SectionOf(manifest, t), name) => t = s
  BY <1>2 DEF FieldsOf
<1>5. FieldOf(manifest, name) = s
  BY <1>3, <1>4 DEF FieldOf
<1>6. \A t \in DependencySections : SectionOf(lock.packages[RootKey], t) = SectionOf(manifest, t)
  BY <1>1 DEF RootAgrees
<1>7. \A object : HasKey(SectionOf(object, s), name) => IsSection(object, s) /\ SectionOf(object, s) = object[s]
  BY DEF SectionOf, HasKey
<1>8. IsSection(manifest, s) /\ IsSection(lock.packages[RootKey], s) /\ lock.packages[RootKey][s] = manifest[s]
  BY <1>3, <1>6, <1>7
<1>9. name \in DOMAIN manifest[s]
  BY <1>3, <1>7 DEF HasKey
<1> QED BY <1>2, <1>4, <1>5, <1>6, <1>8, <1>9 DEF Fit, HasKey

LEMMA LeafNeedsNothing ==
    ASSUME NEW lock, NEW name, OrdinaryLeaf(lock, name)
    PROVE  NeededBy(lock.packages[NodeKey(name)]) = {}
<1>1. \A s \in DependencySections : DOMAIN SectionOf(lock.packages[NodeKey(name)], s) = {}
  BY DEF OrdinaryLeaf, SectionOf, IsSection, HasKey, DependencySections
<1> QED BY <1>1 DEF NeededBy

\* The two files of a call that may be previewed, and what is left of them.
LEMMA RemovalIsSound ==
    ASSUME NEW c \in Removals, RemovalAssumption,
           Previewable(c.paths, c.manifest, c.lock, c.name)
    PROVE  LET manifest == c.manifest.value
               before == c.lock.value
               edited == EditRemoval(manifest, before, c.name)
               after == edited.lock
           IN  /\ \A s \in DependencySections : /\ SectionOf(after.packages[RootKey], s) = SectionOf(edited.manifest, s)
                                                /\ DOMAIN SectionOf(edited.manifest, s) = DOMAIN SectionOf(manifest, s) \ {c.name}
               /\ NothingIsMissing(before.packages, after.packages)
               /\ NothingStays(edited.manifest, after.packages, c.name)
               /\ NothingElseChanges(before, after, c.name)
               /\ LegacyIsInStep(after, c.name)
<1> DEFINE name == c.name
           manifest == c.manifest.value
           before == c.lock.value
           packages == before.packages
           root == packages[RootKey]
           field == FieldOf(manifest, name)
           edited == EditRemoval(manifest, before, name)
           after == edited.lock
           left == PrunedPackages(packages, field, name)
<1>1. Fit(manifest, before, name, field)
  BY PreviewableFits
<1>2. /\ manifest # None /\ before # None
      /\ IsSection(before, "packages") /\ IsSection(packages, RootKey)
      /\ OrdinaryLeaf(before, name) /\ Unreferenced(before, name) /\ LegacyAgrees(before, name)
      /\ DOMAIN before \subseteq {"name", "version", "lockfileVersion", "requires", "packages", "legacy"}
      /\ before.lockfileVersion \in {2, 3}
  BY DEF Previewable, PlainManifest
<1>3. \A key \in DOMAIN packages : key \in Seq(ToSet(key)) /\ Len(key) <= 1
  BY <1>2 DEF RemovalAssumption, OrdinaryLeaf
<1>4. Lacking(manifest[field], name) # None /\ Lacking(root[field], name) # None
  <2>1. field \in DependencySections
    BY <1>1 DEF Fit, DependencySections
  <2> QED BY <1>1, <1>2, <2>1 DEF RemovalAssumption, Fit
<1>5. RootKey \in DOMAIN packages /\ NodeKey(name) \in DOMAIN packages /\ NodeKey(name) # RootKey
  BY <1>2 DEF IsSection, HasKey, OrdinaryLeaf, NodeKey, RootKey
<1> HIDE DEF name, manifest, before

\* The packages that are left.
<1>6. /\ DOMAIN left = DOMAIN packages \ {NodeKey(name)}
      /\ left[RootKey] = Undeclared(root, field, name)
      /\ \A key \in DOMAIN left \ {RootKey} : left[key] = packages[key]
  <2>1. DOMAIN Lacking(packages, NodeKey(name)) = DOMAIN packages \ {NodeKey(name)}
        /\ \A k \in DOMAIN packages \ {NodeKey(name)} : Lacking(packages, NodeKey(name))[k] = packages[k]
    BY LackingFacts
  <2> QED BY <1>5, <2>1 DEF PrunedPackages, Undeclared
<1>7. /\ edited.manifest = Undeclared(manifest, field, name)
      /\ after.packages = left
      /\ DOMAIN after = DOMAIN before
      /\ \A key \in DOMAIN before \ {"packages", "legacy"} : after[key] = before[key]
      /\ HasKey(before, "legacy") => before.lockfileVersion = 2 /\ after.legacy = Lacking(before.legacy, name)
  <2>1. HasKey(before, "packages")
    BY <1>2 DEF IsSection
  <2>2. HasKey(before, "legacy") <=> before.lockfileVersion = 2
    BY <1>2 DEF LegacyAgrees
  <2> HIDE DEF field, left
  <2>3. left = PrunedPackages(packages, field, name) /\ field = FieldOf(manifest, name)
    BY DEF left, field
  <2> QED BY <2>1, <2>2, <2>3 DEF EditRemoval, HasKey
<1>8. \A s \in DependencySections : /\ SectionOf(left[RootKey], s) = IF s = field THEN Lacking(root[field], name) ELSE SectionOf(root, s)
                                    /\ SectionOf(edited.manifest, s) = IF s = field THEN Lacking(manifest[field], name) ELSE SectionOf(manifest, s)
  <2>1. IsSection(root, field) /\ IsSection(manifest, field)
    BY <1>1 DEF Fit
  <2> HIDE DEF field, left, edited, root
  <2> QED BY <1>4, <1>6, <1>7, <2>1, UndeclaredSections
<1>9. /\ root[field] = manifest[field]
      /\ \A s \in DependencySections : SectionOf(root, s) = SectionOf(manifest, s)
      /\ SectionOf(manifest, field) = manifest[field]
      /\ \A s \in DependencySections : s # field => name \notin DOMAIN SectionOf(manifest, s)
  BY <1>1 DEF Fit, SectionOf
<1> HIDE DEF field, left, edited, root, after
<1>10. ASSUME NEW s \in DependencySections
       PROVE  /\ SectionOf(left[RootKey], s) = SectionOf(edited.manifest, s)
              /\ DOMAIN SectionOf(edited.manifest, s) = DOMAIN SectionOf(manifest, s) \ {name}
              /\ DOMAIN SectionOf(left[RootKey], s) = DOMAIN SectionOf(root, s) \ {name}
  <2>1. DOMAIN Lacking(manifest[field], name) = DOMAIN manifest[field] \ {name}
    BY LackingFacts
  <2> QED BY <1>8, <1>9, <2>1
<1>11. \A key \in DOMAIN left : \A s \in DependencySections : DOMAIN SectionOf(left[key], s) = DOMAIN SectionOf(packages[key], s) \ {name}
  <2> TAKE key \in DOMAIN left
  <2> TAKE s \in DependencySections
  <2>1. CASE key = RootKey
    BY <2>1, <1>10 DEF root
  <2>2. CASE key # RootKey
    <3>1. ~HasKey(SectionOf(packages[key], s), name)
      BY <1>2, <1>6, <2>2 DEF Unreferenced
    <3> QED BY <1>6, <2>2, <3>1 DEF HasKey
  <2> QED BY <2>1, <2>2
<1>12. \A key \in DOMAIN left : NeededBy(left[key]) = NeededBy(packages[key]) \ {name} /\ MustHave(left[key]) = MustHave(packages[key]) \ {name}
  <2> SUFFICES ASSUME NEW key \in DOMAIN left
               PROVE  NeededBy(left[key]) = NeededBy(packages[key]) \ {name} /\ MustHave(left[key]) = MustHave(packages[key]) \ {name}
    OBVIOUS
  <2> DEFINE now == left[key]
             was == packages[key]
             must == DependencySections \ {"optionalDependencies"}
  <2>1. \A s \in DependencySections : DOMAIN SectionOf(now, s) = DOMAIN SectionOf(was, s) \ {name}
    BY <1>11
  <2>2. \A s \in must : DOMAIN SectionOf(now, s) = DOMAIN SectionOf(was, s) \ {name}
    BY <2>1
  <2> HIDE DEF now, was, must
  <2>3. \A n : n \in NeededBy(now) <=> n \in NeededBy(was) /\ n # name
    <3>1. \A n : (\E s \in DependencySections : n \in DOMAIN SectionOf(now, s))
                     <=> (\E s \in DependencySections : n \in DOMAIN SectionOf(was, s)) /\ n # name
      <4> TAKE n
      <4>1. ASSUME NEW s \in DependencySections, n \in DOMAIN SectionOf(now, s) PROVE n \in DOMAIN SectionOf(was, s) /\ n # name
        BY <2>1, <4>1
      <4>2. ASSUME NEW s \in DependencySections, n \in DOMAIN SectionOf(was, s), n # name PROVE n \in DOMAIN SectionOf(now, s)
        BY <2>1, <4>2
      <4> QED BY <4>1, <4>2
    <3> QED BY <3>1 DEF NeededBy
  <2>4. \A n : n \in MustHave(now) <=> n \in MustHave(was) /\ n # name
    <3>1. \A n : (\E s \in must : n \in DOMAIN SectionOf(now, s))
                     <=> (\E s \in must : n \in DOMAIN SectionOf(was, s)) /\ n # name
      <4> TAKE n
      <4>1. ASSUME NEW s \in must, n \in DOMAIN SectionOf(now, s) PROVE n \in DOMAIN SectionOf(was, s) /\ n # name
        BY <2>2, <4>1
      <4>2. ASSUME NEW s \in must, n \in DOMAIN SectionOf(was, s), n # name PROVE n \in DOMAIN SectionOf(now, s)
        BY <2>2, <4>2
      <4> QED BY <4>1, <4>2
    <3> QED BY <3>1 DEF MustHave, must
  <2> QED BY <2>3, <2>4 DEF now, was
<1>13. name \notin NeededBy(edited.manifest)
  BY <1>10 DEF NeededBy

\* Where packages are found.
<1>14. \A key \in DOMAIN left : key \in DOMAIN packages /\ key \in Seq(ToSet(key)) /\ Len(key) <= 1
  BY <1>3, <1>6
<1>15. \A key \in DOMAIN packages : \A n : PlacesFor(packages, key, n) = {NodeKey(n)} \cap DOMAIN packages
  BY <1>3, OnlyTheTop
<1>16. \A key \in DOMAIN left : \A n : PlacesFor(left, key, n) = {NodeKey(n)} \cap DOMAIN left
  BY <1>14, OnlyTheTop
<1>17. \A key \in DOMAIN packages : \A n : NodeKey(n) \in DOMAIN packages => PlaceFor(packages, key, n) = NodeKey(n)
  BY <1>3, TheOnlyPlace
<1>18. \A key \in DOMAIN left : \A n : NodeKey(n) \in DOMAIN left => PlaceFor(left, key, n) = NodeKey(n)
  BY <1>14, TheOnlyPlace
<1>19. \A n : n # name => NodeKey(n) # NodeKey(name)
  <2>1. \A n : NodeKey(n)[1] = n
    BY DEF NodeKey
  <2> QED BY <2>1

<1>20. Unmet(left) \subseteq Unmet(packages)
  <2> SUFFICES ASSUME NEW key \in DOMAIN left, NEW n \in MustHave(left[key]), PlacesFor(left, key, n) = {}
               PROVE  key \in DOMAIN packages /\ n \in MustHave(packages[key]) /\ PlacesFor(packages, key, n) = {}
    BY DEF Unmet
  <2>1. key \in DOMAIN packages /\ n \in MustHave(packages[key]) /\ n # name
    BY <1>12, <1>6
  <2>2. NodeKey(n) \notin DOMAIN packages
    BY <1>16, <1>6, <1>19, <2>1
  <2> QED BY <2>1, <2>2, <1>15
<1>21. Orphans(left) \subseteq Orphans(packages)
  <2> SUFFICES ASSUME NEW key \in DOMAIN left, key \in Installed(packages),
                      NEW places \in SUBSET DOMAIN left, ClosedUnderNeeds(left, places)
               PROVE  key \in places
    BY <1>6 DEF Orphans, Installed
  <2> DEFINE wider == places \cup {NodeKey(name)}
  <2>1. wider \in SUBSET DOMAIN packages /\ RootKey \in wider
    BY <1>5, <1>6 DEF ClosedUnderNeeds
  <2>2. ASSUME NEW k \in wider, NEW n \in NeededBy(packages[k]), PlacesFor(packages, k, n) # {}
        PROVE  PlaceFor(packages, k, n) \in wider
    <3>1. k \in DOMAIN packages /\ NodeKey(n) \in DOMAIN packages /\ PlaceFor(packages, k, n) = NodeKey(n)
      BY <1>15, <1>17, <2>1, <2>2
    <3>2. CASE n = name
      BY <3>1, <3>2
    <3>3. CASE k = NodeKey(name)
      BY <1>2, <3>3, LeafNeedsNothing
    <3>4. CASE n # name /\ k \in places
      <4>1. k \in DOMAIN left /\ n \in NeededBy(left[k])
        BY <1>12, <3>4
      <4>2. NodeKey(n) \in DOMAIN left /\ PlaceFor(left, k, n) = NodeKey(n) /\ PlacesFor(left, k, n) # {}
        BY <1>6, <1>16, <1>18, <1>19, <3>1, <3>4, <4>1
      <4> QED BY <3>1, <3>4, <4>1, <4>2 DEF ClosedUnderNeeds
    <3> QED BY <3>2, <3>3, <3>4
  <2>3. ClosedUnderNeeds(packages, wider)
    <3> HIDE DEF wider
    <3> QED BY <2>1, <2>2 DEF ClosedUnderNeeds
  <2>4. key \in wider
    <3> HIDE DEF wider
    <3> QED BY <2>1, <2>3 DEF Installed
  <2> QED BY <1>6, <2>4

<1>22. NothingStays(edited.manifest, left, name)
  <2>1. ASSUME NEW key \in DOMAIN left, key # RootKey, Last(key) = name
        PROVE  FALSE
    <3> DEFINE S == ToSet(key)
    <3>1. key \in Seq(S) /\ Len(key) <= 1
      BY <1>14
    <3>2. Len(key) \in Nat
      BY <3>1, LenProperties
    <3>3. Len(key) # 0
      BY <3>1, <2>1, EmptySeq DEF RootKey
    <3>4. Len(key) = 1
      <4> DEFINE length == Len(key)
      <4>1. length \in Nat /\ length <= 1 /\ length # 0
        BY <3>1, <3>2, <3>3
      <4> HIDE DEF length
      <4>2. length = 1
        BY <4>1
      <4> QED BY <4>2 DEF length
    <3>5. key[1] = name /\ name \in S
      BY <2>1, <3>1, <3>4 DEF Last, ToSet
    <3>6. <<name>> \in Seq(S) /\ Len(<<name>>) = 1 /\ <<name>>[1] = name
      BY <3>5
    <3>7. key = <<name>>
      <4> HIDE DEF S
      <4> QED BY <3>1, <3>4, <3>5, <3>6, SeqEqual
    <3> QED BY <1>6, <3>7 DEF NodeKey
  <2> QED BY <1>12, <1>13, <2>1 DEF NothingStays
<1>23. NothingElseChanges(before, after, name)
  BY <1>6, <1>7 DEF NothingElseChanges
<1>24. LegacyIsInStep(after, name)
  <2> SUFFICES ASSUME HasKey(after, "legacy"), NEW n \in DOMAIN after.legacy
               PROVE  /\ NodeKey(n) \in DOMAIN left /\ after.legacy[n].version = left[NodeKey(n)].version
                      /\ \A s \in LegacyKeys : ~HasKey(SectionOf(after.legacy[n], s), name)
    BY <1>7 DEF LegacyIsInStep
  <2>1. HasKey(before, "legacy") /\ before.lockfileVersion = 2 /\ after.legacy = Lacking(before.legacy, name)
    BY <1>7 DEF HasKey
  <2>2. n \in DOMAIN before.legacy \ {name} /\ after.legacy[n] = before.legacy[n]
    <3>1. /\ DOMAIN Lacking(before.legacy, name) = DOMAIN before.legacy \ {name}
          /\ \A k \in DOMAIN before.legacy \ {name} : Lacking(before.legacy, name)[k] = before.legacy[k]
      BY LackingFacts
    <3> QED BY <2>1, <3>1
  <2>3. /\ NodeKey(n) \in DOMAIN packages /\ before.legacy[n].version = packages[NodeKey(n)].version
        /\ \A s \in LegacyKeys : ~HasKey(SectionOf(before.legacy[n], s), name)
    BY <1>2, <2>1, <2>2 DEF LegacyAgrees, HasKey
  <2>4. NodeKey(n) # NodeKey(name) /\ NodeKey(n) # RootKey
    BY <1>19, <2>2 DEF NodeKey, RootKey
  <2> QED BY <1>6, <2>2, <2>3, <2>4
<1>25. NothingIsMissing(packages, left)
  BY <1>20, <1>21 DEF NothingIsMissing
<1> QED BY <1>7, <1>10, <1>22, <1>23, <1>24, <1>25 DEF name, manifest, before, edited, after

RemovalAnswers ==
    /\ call \in [of : {"removal"}, with : Removals]
    /\ result = Pending \/ result = PreviewNpmRemoval(call.with.paths, call.with.manifest, call.with.lock, call.with.name)

\* However a manifest and a lockfile of npm look, and whatever else they say,
\* a removal that is previewed leaves an install that lacks nothing and holds
\* nothing it did not lack or hold before, without the package.
THEOREM RemovalsBreakNothing == RemovalAssumption => (RemovalSpec => []RemovalBreaksNothing)
<1> SUFFICES ASSUME RemovalAssumption PROVE RemovalSpec => []RemovalBreaksNothing
  OBVIOUS
<1>1. RemovalInit => RemovalAnswers
  BY DEF RemovalInit, Calling, RemovalAnswers
<1>2. RemovalAnswers /\ [RemovalNext]_callVars => RemovalAnswers'
  BY DEF RemovalAnswers, RemovalNext, Answering, callVars
<1>3. RemovalAnswers => RemovalBreaksNothing
  <2> SUFFICES ASSUME RemovalAnswers, result # Pending, result # None
               PROVE  RemovalBreaksNothing
    BY DEF RemovalBreaksNothing, Answered
  <2> DEFINE c == call.with
  <2>1. c \in Removals
    BY DEF RemovalAnswers
  <2>2. Previewable(c.paths, c.manifest, c.lock, c.name) /\ result = EditRemoval(c.manifest.value, c.lock.value, c.name)
    BY DEF RemovalAnswers, PreviewNpmRemoval
  <2> HIDE DEF c
  <2> QED BY <2>1, <2>2, RemovalIsSound DEF RemovalBreaksNothing, c
<1> QED BY <1>1, <1>2, <1>3, PTL DEF RemovalSpec
=============================================================================
