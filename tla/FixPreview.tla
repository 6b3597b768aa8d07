----------------------------- MODULE FixPreview -----------------------------
(* The preview of a removal: the directory is bound by a snapshot of every   *)
(* listed file, the two edit targets and the sources are read, and all of it *)
(* holds only if a new scan and a new snapshot find the same                 *)
(* (core/src/engine/fix-preview.ts).  Meanwhile the directory may change;    *)
(* every change of a file gives it other bytes than it ever had.             *)
EXTENDS Integers, FiniteSets

CONSTANTS
    EditTargets,    \* the manifest and the lockfile
    OtherFiles,     \* the other files there may be
    Late,           \* those of them that are not there at first
    MaxWrites,      \* bound: how often one file changes
    MaxWritten,     \* bound: how many files change
    Removable(_),   \* do these targets allow the removal (NpmRemoval)?
    Uses(_, _)      \* does this source, in this version, use the package?
TreeAssumption == MaxWrites \in Nat /\ MaxWritten \in Nat /\ Late \subseteq OtherFiles /\ EditTargets \cap OtherFiles = {}

VARIABLES
    content,   \* each file: whether it is there, and its version
    scanned,   \* what the scan listed
    phase,     \* what is being read
    left,      \* the files still to be read for it
    found,     \* by stage, the versions that were read
    moved,     \* history: the listed files that changed between the two snapshots
    answer
previewVars == <<content, scanned, phase, left, found, moved, answer>>

PreviewFiles == EditTargets \cup OtherFiles
Versions == 0..MaxWrites
PreviewStages == {"snapshot", "texts", "baseline", "overlay", "rescan", "again"}
Answers == {"none", "blocked", "statically-checked"}
There == {f \in PreviewFiles : content[f].there}
NoVersions == [f \in {} |-> 0]
PreviewTypeOK ==
    /\ content \in [PreviewFiles -> [there : BOOLEAN, version : Versions]] /\ scanned \in SUBSET PreviewFiles /\ phase \in PreviewStages
    /\ left \in SUBSET PreviewFiles /\ moved \in SUBSET PreviewFiles /\ answer \in Answers /\ DOMAIN found = PreviewStages

PreviewInit ==
    /\ content = [f \in PreviewFiles |-> [there |-> f \notin Late, version |-> 0]]
    /\ scanned = PreviewFiles \ Late /\ left = PreviewFiles \ Late /\ phase = "snapshot"
    /\ found = [s \in PreviewStages |-> NoVersions] /\ moved = {} /\ answer = "none"

\* The directory's own life.
WriteVersion(f) ==
    /\ answer = "none" /\ content[f].version < MaxWrites
    /\ Cardinality({g \in PreviewFiles \ {f} : content[g].version > 0}) < MaxWritten
    /\ \E there \in BOOLEAN : content' = [content EXCEPT ![f] = [there |-> there, version |-> @.version + 1]]
    /\ moved' = IF phase \in {"texts", "baseline", "overlay", "rescan"} THEN moved \cup ({f} \cap scanned) ELSE moved
    /\ UNCHANGED <<scanned, phase, left, found, answer>>

BlockPreview == answer' = "blocked" /\ UNCHANGED <<content, scanned, phase, left, found, moved>>
\* One file after the other is read; one that cannot be read blocks the preview.
ReadVersion(f) ==
    /\ answer = "none" /\ f \in left
    /\ IF content[f].there
       THEN /\ found' = [found EXCEPT ![phase] = [g \in DOMAIN @ \cup {f} |-> IF g = f THEN content[f].version ELSE @[g]]]
            /\ left' = left \ {f} /\ UNCHANGED <<content, scanned, phase, moved, answer>>
       ELSE BlockPreview

Done(s) == answer = "none" /\ phase = s /\ left = {}
Enter(s, files) == phase' = s /\ left' = files
Bound == Done("snapshot") /\ Enter("texts", EditTargets \cap scanned) /\ UNCHANGED <<content, scanned, found, moved, answer>>
CheckTexts ==
    /\ Done("texts")
    /\ IF EditTargets \subseteq scanned /\ Removable(found["texts"])
       THEN Enter("baseline", scanned) /\ UNCHANGED <<content, scanned, found, moved, answer>>
       ELSE BlockPreview
Unused(versions) == \A f \in OtherFiles \cap DOMAIN versions : ~Uses(f, versions[f])
\* The baseline has the targets from disk; the overlay has them from the edit, and either finds the removal
\* and nothing else or does not.
Baseline ==
    /\ Done("baseline")
    /\ IF Unused(found["baseline"]) THEN Enter("overlay", scanned \ EditTargets) /\ UNCHANGED <<content, scanned, found, moved, answer>> ELSE BlockPreview
Overlay ==
    /\ Done("overlay")
    /\ (Enter("rescan", {}) /\ UNCHANGED <<content, scanned, found, moved, answer>>) \/ BlockPreview
Rescan ==
    /\ Done("rescan")
    /\ IF There = scanned THEN Enter("again", scanned) /\ UNCHANGED <<content, scanned, found, moved, answer>> ELSE BlockPreview
\* Slip: only the edit targets are compared.
SlipSameSnapshot == \A f \in EditTargets : found["again"][f] = found["snapshot"][f]
SameSnapshot == found["again"] = found["snapshot"]
Finish ==
    /\ Done("again")
    /\ IF SameSnapshot THEN answer' = "statically-checked" /\ UNCHANGED <<content, scanned, phase, left, found, moved>> ELSE BlockPreview

PreviewNext ==
    \/ \E f \in PreviewFiles : WriteVersion(f) \/ ReadVersion(f)
    \/ Bound \/ CheckTexts \/ Baseline \/ Overlay \/ Rescan \/ Finish
PreviewSpec == PreviewInit /\ [][PreviewNext]_previewVars

\* A preview that is called checked is of one directory: no listed file was
\* another while the preview was made, the texts it edits and the sources
\* it found no use in are those of the snapshot (fix-preview.ts:456-491,
\* "compare every source byte, not only edit targets").
CheckedIsOfOneTree ==
    answer = "statically-checked" =>
        LET bound == found["snapshot"] IN
        /\ moved = {} /\ found["texts"] = [f \in EditTargets |-> bound[f]]
        /\ Removable([f \in EditTargets |-> bound[f]]) /\ Unused(bound)
=============================================================================
