----------------------------- MODULE MCAnswers -----------------------------
(* Every function without state that is checked against what its answer      *)
(* means, one call in a behaviour.  The instances are in the modules below;  *)
(* the constants they share have their values here.                          *)
EXTENDS Reporting, ResultFacts, TLC

CONSTANTS Failed, ZeroSha

\* The changes and events of a pull request.
MaxFiles == 5
MaxLines == 6
DependencyFiles ==
    [n \in {"package.json", "go.mod", "package-lock.json"} |->
        [ecosystem |-> IF n = "go.mod" THEN "go" ELSE "js", role |-> IF n = "package-lock.json" THEN "lockfile" ELSE "manifest"]]
VendoredDirs == {"node_modules"}
UnsafePaths == {<<"..", "s.ts">>}
ReadableManifests == {"package.json"}
CompareLimit == 3
Chars == [t |-> 1, u |-> 2, long |-> 3]
MaxLinesPerFile == 1
MaxLineChars == 2
MaxTotalChars == 6
DependencyNames == {"package.json"}
SourceNames == {"s.ts"}
GeneratedNames == {}
ExcludedDirs == {"dist"}
ScopeConfig == <<"scope">>
CommitCap == 3
MaxPages == 2
CompareCap == 3
DefaultBranch == "main"
CheckName == "GhostDeps"

\* Lockfiles, manifests and tsconfig files.
HugeNumber == 1000
MaxMatchStates == 1000
IgnoredSegments == {<<"n", "m">>}
GlobCharacters == {"[", "]"}
MaxYarnManifests == 2
BadScopes == {}
ScopeOf(name) == IF name = "@s/b" THEN "@s" ELSE None
MaxLinks == 8
MaxVisits == 100
MaxExtendsDepth == 2
MaxExtendsBases == 2
MaxPathEntries == 3
MaxManifests == 3
MaxLenient == 1
MaxConditionDepth == 2

\* What is derived from an analysis, judged and reported.
SomeEcosystems == <<"js", "python">>
SomeNames == <<"a", "b", "x", "y">>
SomeLooseName == [n \in {"A", "B"} |-> IF n = "A" THEN "a" ELSE "b"]
JS == "javascript-typescript"
SomeTypesTarget == "@types/gone" :> "gone"
SomeDefaultAllowlist == JS :> [exact |-> {"eslint"}, prefixes |-> {}]
SomeHasPrefix == {<<"lib", "li">>}
SomeNormal == [n \in {"Req", "req"} |-> "req"]
SomeClusters == {{<<JS, "lib">>, <<JS, "host">>, <<"python", "req">>}}
SomeNonShippedDirs == {"test"}
SomeTypeStripping == {JS}
SomeKnownRules == {"native", "unused"}
SomeKnownEcosystems == {JS}
FloorOf ==
    [t \in {"21", "20.9", "21.0.1", "14.2", "big", "^21"} |->
        CASE t = "21" -> <<21, 0>> [] t = "20.9" -> <<20, 9>> [] t = "21.0.1" -> <<21, 0, 1>> [] t = "14.2" -> <<14, 2>> [] t = "big" -> <<99, 0>> [] OTHER -> None]
MaxTargets == 2
LargestNumber == 50

\* The answers of an analysis child.
MaxDepth == 2
MaxNodes == 7
MaxString == 2
MaxArray == 2
MaxKeys == 2

Changes == INSTANCE MCPullRequestChanges
Locks == INSTANCE MCLockfiles
Aliases == INSTANCE MCPathAliases
\* What is reported and removed is called here, on what that module describes.
Results == INSTANCE MCResults WITH Analyses <- {}, Posts <- {}, CommandLines <- {}, Removals <- {}

SomeAnalyses == Results!SomeAnalyses
SomePosts == Results!SomePosts
SomeCommandLines == Results!SomeCommandLines
SomeRemovals == Results!SomeRemovals
ASSUME ReportAssumption
ASSUME RemovalAssumption

Init == ReportInit \/ RemovalInit \/ Changes!Init \/ Locks!Init \/ Aliases!Init \/ Results!Init
Next == ReportNext \/ RemovalNext \/ Changes!Next \/ Locks!Next \/ Aliases!Next \/ Results!Next
Spec == Init /\ [][Next]_callVars

-----------------------------------------------------------------------------
\* A context that calls itself complete tells every change of the dependencies
\* of a pull request, wherever GitHub cuts its diff and whatever patches it
\* leaves out, and every changed source line but those of an added, deleted or
\* renamed file whose patch is left out (unified.ts:148-286,
\* dependency-changes.ts:119-294, changes.ts:62-229, source-changes.ts:27-102);
\* and an event that changes a relevant file is analysed, whatever part of its
\* files GitHub listed (filter.ts:93-276, changed-files.ts:20-63).
NoChangeIsMissed == Changes!CompleteMeansEveryChange /\ Changes!RelevantIsAnalysed

\* A graph that is called whole is the graph of the install that the lockfile
\* records, of npm, pnpm, Yarn, Cargo, uv, Poetry and Pipenv, one that is not
\* says why, and ranges, workspace globs and feature gates mean what the package
\* manager means by them (model.ts:132-229, build.ts:301-421, yarn-workspace.ts:
\* 168-182, pnpm-workspace.ts:112-149, rust lockfile.ts:85-195, cargo-toml.ts:
\* 246-278, manifest.ts:118-194, python lockfile.ts:283-286, 327-329, 379-381).
GraphsAreTheInstalls ==
    /\ Locks!GraphIsTheInstall /\ Locks!DegradedIsDisclosed /\ Locks!RangesAndGlobsAreRead
    /\ Locks!CrateGraphIsTheInstall /\ Locks!GatesAreTheFeatures
    /\ Locks!PythonGraphIsTheInstall

\* An import counts as one of the repository's own exactly if TypeScript
\* resolves it to a listed file, unless something was not read, and then that
\* is noted (aliases.ts:23-27, 263-270, 448-459).
AliasesAreTypeScripts == Aliases!AliasesAreTypeScripts

\* What a result states beside its verdicts is true of the repository: impact,
\* footprints, health, the merged graph and the project tree; an ordinary
\* removal is previewed (impact.ts:29-162, footprint.ts:28-137, health.ts:88-170,
\* unified-graph.ts:31-114, project-tree.ts:36-63, fix-preview.ts:193-372); a
\* finding of a native rule stands only on evidence without a hole (deployment.ts:
\* 154-312, seal.ts:62-334, native-rules/policy.ts:36-176); and the result of an
\* analysis child is taken only for its own job and within the limits of the
\* whole tree (analysis-protocol.ts:76-115).
DerivedFactsAreTrue ==
    Results!DerivedFactsAreTrue /\ Results!NativeFindingIsProved /\ Results!AnswerIsBounded
=============================================================================
