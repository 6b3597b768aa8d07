-------------------------- MODULE DirectoryProofs --------------------------
(***************************************************************************)
(* Proofs about directories on a disk: the native evidence, the preview of *)
(* a removal and the reads of one file while the directory changes, and    *)
(* the extraction of an archive into one, for every number of files,       *)
(* sizes, writes and limits.                                               *)
(***************************************************************************)
EXTENDS NativeEvidence, FixPreview, RepositoryScan, Extraction,
    SequenceTheorems, FiniteSetTheorems, TLAPS

-----------------------------------------------------------------------------
(* The native evidence                                                     *)

\* The directory, as it is and as it was, when no file is again what it was.
TreeInv ==
    /\ changes \in Nat /\ gone \subseteq Paths
    /\ tree \in [Paths -> Entries \cup {None}]
    /\ \A p \in Paths : IF tree[p] = None THEN p \in gone ELSE tree[p].content.mark <= changes

\* Where the directory differs from the snapshot it will differ for good.
Agrees(p) ==
    IF tree[p] = None THEN p \notin DOMAIN snapshot
    ELSE p \in DOMAIN snapshot /\ snapshot[p] = tree[p].content
OnSnapshot == snapshot # None /\ \A p \in Paths : Agrees(p)
SnapshotInv ==
    /\ snapshot = None \/ \E P \in SUBSET Paths : snapshot \in [P -> Contents]
    /\ snapshot # None => \A p \in Paths : IF p \in DOMAIN snapshot THEN snapshot[p].mark <= changes
                                            ELSE p \in gone

EvidenceStages == {"scan", "deployment", "matched", "patterns", "incompatible", "flows", "semantic", "seal", "policy"}
Collects == {"matched", "incompatible", "semantic", "seal"}
ControlInv ==
    /\ stage \in EvidenceStages \cup {"mint", "done"}
    /\ step \in 1..4 /\ (stage \notin Collects => step \in 1..2)
    /\ stage \notin {"mint", "done"} => snapshot # None
    /\ stage \in {"mint", "scan", "patterns", "flows"} => step = 1
    /\ evaluations \in Seq({"produced", "blocked", "no-verdict"})
    /\ stage = "mint" => evaluations = <<>>
    /\ stage = "policy" => blocked = {}

\* What a digest under way has read are contents of its listing.
CheckInv ==
    /\ check = None \/ \E P, Q \in SUBSET Paths : check \in [listing : [P -> Entries], read : [Q -> Contents]]
    /\ check # None =>
         /\ stage # "done" /\ Doing = "check"
         /\ DOMAIN check.read \subseteq DOMAIN check.listing
         /\ \A p \in DOMAIN check.read : check.read[p] = check.listing[p].content

\* As long as the directory is that of the snapshot, so is what is listed and read.
SeenInv ==
    /\ own = None \/ \E P \in SUBSET Paths : own \in [P -> Entries]
    /\ stage \in Collects /\ step = 3 => own # None
    /\ \E P \in SUBSET Paths : seen \in [P -> Contents \cup {None}]
    /\ OnSnapshot /\ own # None => DOMAIN own = DOMAIN snapshot
    /\ OnSnapshot => \A p \in DOMAIN seen : seen[p] # None => p \in DOMAIN snapshot /\ seen[p] = snapshot[p]

\* The stages of a candidate that are over, and what they have found unless they refused.
Before(s) ==
    CASE s = "matched" -> {"deployment"}
      [] s \in {"patterns", "incompatible"} -> {"deployment", "matched"}
      [] s \in {"flows", "semantic"} -> {"deployment", "matched", "incompatible"}
      [] s = "seal" -> {"deployment", "matched", "incompatible", "semantic"}
      [] s = "policy" -> {"deployment", "matched", "incompatible", "semantic", "seal"}
      [] OTHER -> {}
Held == Before(stage) \cup (IF stage \in Collects /\ step = 4 THEN {stage} ELSE {})
Supported(s) ==
    CASE s = "deployment" -> Targets \in DOMAIN snapshot /\ snapshot[Targets].supports
      [] s = "seal" -> Manifest \in DOMAIN snapshot /\ snapshot[Manifest].supports
      [] OTHER -> \A p \in Sources \cap DOMAIN snapshot : snapshot[p].supports
HeldInv == OnSnapshot => \A s \in Held \ blocked : Supported(s)

EvidenceInv == TreeInv /\ SnapshotInv /\ ControlInv /\ CheckInv /\ SeenInv /\ HeldInv

-----------------------------------------------------------------------------
(* The directory of the native evidence                                    *)

LEMMA EvidenceStarts ==
    ASSUME EvidenceAssumption, Init PROVE EvidenceInv
<1> USE DEF Init
<1>1. TreeInv
  <2>1. tree \in [Paths -> [content : [mark : {0}, supports : BOOLEAN], stamp : {0}] \cup {None}]
    BY DEF EvidenceAssumption
  <2>2. \A p \in Paths : tree[p] # None => tree[p] \in Entries /\ tree[p].content.mark = 0
    BY <2>1 DEF Entries, Contents
  <2> QED BY <2>1, <2>2 DEF TreeInv
<1>2. SnapshotInv /\ CheckInv
  BY DEF SnapshotInv, CheckInv
<1>3. ControlInv
  BY DEF ControlInv
<1>4. SeenInv
  <2>1. seen \in [{} -> Contents \cup {None}] /\ DOMAIN seen = {}
    BY DEF Nothing
  <2> QED BY <2>1 DEF SeenInv, Collects
<1>5. HeldInv
  BY DEF HeldInv, OnSnapshot
<1> QED BY <1>1, <1>2, <1>3, <1>4, <1>5 DEF EvidenceInv

\* A file that changes is not again what it was, so the directory never comes
\* back to the snapshot it has left.
LEMMA NoWayBack ==
    ASSUME EvidenceAssumption, ~Recurring, TreeInv, SnapshotInv, NEW p \in Paths, Change(p)
    PROVE  TreeInv' /\ SnapshotInv' /\ (OnSnapshot' => OnSnapshot)
<1>1. /\ changes' = changes + 1 /\ snapshot' = snapshot /\ changes \in Nat
      /\ tree' \in [Paths -> Entries \cup {None}]
      /\ \A q \in Paths : q # p => tree'[q] = tree[q]
      /\ gone \subseteq gone' /\ gone' \subseteq Paths
      /\ \/ tree'[p] # None /\ tree'[p].content.mark = changes + 1 /\ gone' = gone
         \/ tree'[p] = None /\ tree[p] # None /\ p \notin gone /\ p \in gone'
  <2>1. changes' = changes + 1 /\ snapshot' = snapshot /\ changes \in Nat /\ gone \subseteq Paths
        /\ tree \in [Paths -> Entries \cup {None}]
    BY DEF Change, TreeInv
  <2>2. CASE (\E c \in NewContents(p) : tree' = [tree EXCEPT ![p] = [content |-> c, stamp |-> changes + 1]])
             /\ UNCHANGED gone
    <3>1. PICK c \in NewContents(p) : tree' = [tree EXCEPT ![p] = [content |-> c, stamp |-> changes + 1]]
      BY <2>2
    <3>2. c \in Contents /\ c.mark = changes + 1
      BY <2>1 DEF NewContents, Contents
    <3>3. [content |-> c, stamp |-> changes + 1] \in Entries
      BY <2>1, <3>2 DEF Entries
    <3>4. tree' \in [Paths -> Entries \cup {None}] /\ tree'[p] = [content |-> c, stamp |-> changes + 1]
          /\ \A q \in Paths : q # p => tree'[q] = tree[q]
      BY <2>1, <3>1, <3>3
    <3>5. tree'[p] = None => FALSE
      BY <2>1, <3>3, <3>4 DEF EvidenceAssumption
    <3> QED BY <2>1, <2>2, <3>2, <3>4, <3>5
  <2>3. CASE /\ tree[p] # None /\ (Recurring \/ p \notin gone)
             /\ tree' = [tree EXCEPT ![p] = None] /\ gone' = gone \cup {p}
    BY <2>1, <2>3
  <2> QED BY <2>2, <2>3 DEF Change
<1>2. TreeInv'
  <2> SUFFICES ASSUME NEW q \in Paths
               PROVE  IF tree'[q] = None THEN q \in gone' ELSE tree'[q].content.mark <= changes + 1
    BY <1>1 DEF TreeInv
  <2>1. CASE q = p
    BY <1>1, <2>1
  <2>2. CASE q # p
    <3>1. tree'[q] = tree[q] /\ IF tree[q] = None THEN q \in gone ELSE tree[q].content.mark <= changes
      BY <1>1, <2>2 DEF TreeInv
    <3>2. tree[q] # None => tree[q].content.mark \in Nat
      BY DEF TreeInv, Entries, Contents
    <3> QED BY <1>1, <3>1, <3>2
  <2> QED BY <2>1, <2>2
<1>3. \A q \in DOMAIN snapshot : snapshot # None => snapshot[q].mark \in Nat
  BY DEF SnapshotInv, Contents
<1>4. SnapshotInv'
  <2> SUFFICES ASSUME snapshot # None, NEW q \in Paths
               PROVE  IF q \in DOMAIN snapshot THEN snapshot[q].mark <= changes + 1 ELSE q \in gone'
    BY <1>1 DEF SnapshotInv
  <2>1. IF q \in DOMAIN snapshot THEN snapshot[q].mark <= changes ELSE q \in gone
    BY DEF SnapshotInv
  <2> QED BY <1>1, <1>3, <2>1
<1>5. ASSUME OnSnapshot' PROVE OnSnapshot
  <2>1. snapshot # None
    BY <1>1, <1>5 DEF OnSnapshot
  <2>2. CASE tree'[p] # None /\ tree'[p].content.mark = changes + 1
    <3>1. p \in DOMAIN snapshot /\ snapshot[p] = tree'[p].content
      BY <1>1, <1>5, <2>2 DEF OnSnapshot, Agrees
    <3>2. snapshot[p].mark <= changes /\ snapshot[p].mark \in Nat
      BY <1>3, <2>1, <3>1 DEF SnapshotInv
    <3> QED BY <1>1, <2>2, <3>1, <3>2
  <2>3. CASE tree'[p] = None /\ tree[p] # None /\ p \notin gone
    <3>1. p \notin DOMAIN snapshot
      BY <1>1, <1>5, <2>3 DEF OnSnapshot, Agrees
    <3> QED BY <2>1, <2>3, <3>1 DEF SnapshotInv
  <2> QED BY <1>1, <2>2, <2>3
<1> QED BY <1>2, <1>4, <1>5

-----------------------------------------------------------------------------
(* The stages of the native evidence                                       *)

LEMMA StepsAre ==
    ASSUME ControlInv, stage # "done"
    PROVE  /\ Doing = "check" <=> (\/ stage \in {"mint", "policy"}
                                   \/ (stage = "deployment" /\ step = 1)
                                   \/ (stage \in Collects /\ step \in {1, 4}))
           /\ Doing = "inspect" <=> stage \in {"scan", "patterns", "flows"}
           /\ Doing = "declared" <=> (stage = "deployment" /\ step = 2)
           /\ Doing = "list" <=> (stage \in Collects /\ step = 2)
           /\ Doing = "read" <=> (stage \in Collects /\ step = 3)
           /\ Len(Steps(stage)) = (IF stage \in Collects THEN 4 ELSE IF stage \in {"deployment", "policy"} THEN 2 ELSE 1)
<1>1. CASE stage = "mint" \/ stage \in {"scan", "patterns", "flows"}
  BY <1>1 DEF Doing, Steps, Ends, Collects, ControlInv
<1>2. CASE stage \in {"deployment", "policy"}
  <2>1. step \in {1, 2}
    BY <1>2 DEF ControlInv, Collects
  <2> QED BY <1>2, <2>1 DEF Doing, Steps, Ends, Collects
<1>3. CASE stage \in Collects
  <2>1. step \in {1, 2, 3, 4}
    BY DEF ControlInv
  <2>2. Steps(stage) = <<"check", "list", "read", "check">>
    BY <1>3 DEF Steps, Collects
  <2> QED BY <1>3, <2>1, <2>2 DEF Doing, Ends, Collects
<1> QED BY <1>1, <1>2, <1>3 DEF ControlInv, EvidenceStages, Collects

LEMMA NextOf ==
    /\ Stages[Position("scan") + 1] = "deployment" /\ Stages[Position("deployment") + 1] = "matched"
    /\ Stages[Position("matched") + 1] = "patterns" /\ Stages[Position("patterns") + 1] = "incompatible"
    /\ Stages[Position("incompatible") + 1] = "flows" /\ Stages[Position("flows") + 1] = "semantic"
    /\ Stages[Position("semantic") + 1] = "seal" /\ Stages[Position("seal") + 1] = "policy"
<1>1. ASSUME NEW s, NEW i \in 1..9, Stages[i] = s, \A j \in 1..9 : Stages[j] = s => j = i PROVE Position(s) = i
  <2>1. DOMAIN Stages = 1..9
    BY DEF Stages
  <2> QED BY <1>1, <2>1 DEF Position
<1>2. /\ Stages[1] = "scan" /\ Stages[2] = "deployment" /\ Stages[3] = "matched" /\ Stages[4] = "patterns"
      /\ Stages[5] = "incompatible" /\ Stages[6] = "flows" /\ Stages[7] = "semantic" /\ Stages[8] = "seal"
      /\ Stages[9] = "policy"
  BY DEF Stages
<1>3. \A j \in 1..9 : j \in {1, 2, 3, 4, 5, 6, 7, 8, 9}
  OBVIOUS
<1>4. /\ Position("scan") = 1 /\ Position("deployment") = 2 /\ Position("matched") = 3
      /\ Position("patterns") = 4
  BY <1>1, <1>2, <1>3
<1>5. /\ Position("incompatible") = 5 /\ Position("flows") = 6 /\ Position("semantic") = 7
      /\ Position("seal") = 8
  BY <1>1, <1>2, <1>3
<1> QED BY <1>2, <1>4, <1>5

\* What has been produced changes by an outcome that says so only.
LEMMA OnlyProducedCounts ==
    ASSUME ControlInv, NEW o \in {"blocked", "no-verdict"}, evaluations' = Append(evaluations, o)
    PROVE  Produced' = Produced
<1>1. /\ Len(evaluations) \in Nat /\ DOMAIN evaluations = 1..Len(evaluations)
      /\ DOMAIN evaluations' = 1..Len(evaluations) + 1
      /\ \A c \in 1..Len(evaluations) : evaluations'[c] = evaluations[c]
      /\ evaluations'[Len(evaluations) + 1] = o
  BY DEF ControlInv
<1>2. \A c \in 1..Len(evaluations) + 1 : c \in 1..Len(evaluations) \/ c = Len(evaluations) + 1
  BY <1>1
<1> QED BY <1>1, <1>2 DEF Produced

LEMMA EvaluatedKeepsControl ==
    ASSUME ControlInv, stage \in EvidenceStages, NEW o \in {"produced", "blocked", "no-verdict"}, Evaluated(o)
    PROVE  /\ ControlInv' /\ snapshot' = snapshot /\ step' = 1 /\ Held' = {}
           /\ o # "produced" => Produced' = Produced
<1>1. /\ snapshot' = snapshot /\ step' = 1 /\ blocked' = {} /\ stage' \in {"done", "scan"}
      /\ evaluations' = Append(evaluations, o) /\ snapshot # None
  BY DEF Evaluated, ControlInv, EvidenceStages
<1>2. ControlInv'
  <2>1. evaluations' \in Seq({"produced", "blocked", "no-verdict"})
    BY <1>1 DEF ControlInv
  <2> QED BY <1>1, <2>1 DEF ControlInv, EvidenceStages, Collects
<1>3. Held' = {}
  BY <1>1 DEF Held, Before, Collects
<1>4. o # "produced" => Produced' = Produced
  BY <1>1, OnlyProducedCounts
<1> QED BY <1>1, <1>2, <1>3, <1>4

\* A stage that is left has found what it holds, unless it refused.
LEMMA LeavingKeepsControl ==
    ASSUME ControlInv, stage \in EvidenceStages, NEW refused \in {{}, {stage}}, LeaveStage(refused),
           stage \in Collects /\ refused = {} => step = 4
    PROVE  /\ ControlInv' /\ snapshot' = snapshot /\ step' = 1
           /\ Held' \ blocked' \subseteq (Held \ blocked)
                \cup (IF refused = {} /\ stage = "deployment" THEN {"deployment"} ELSE {})
           /\ Produced' # Produced => stage = "policy" /\ refused = {}
<1>1. CASE Evaluated("blocked") \/ (stage = "policy" /\ refused = {} /\ Evaluated("produced"))
  BY <1>1, EvaluatedKeepsControl
<1>2. CASE NextStage(refused) /\ stage # "policy" /\ (stage = "seal" => blocked \cup refused = {})
  <2>1. /\ blocked' = blocked \cup refused /\ step' = 1 /\ snapshot' = snapshot
        /\ evaluations' = evaluations /\ stage' = Stages[Position(stage) + 1] /\ snapshot # None
    BY <1>2 DEF NextStage, ControlInv, EvidenceStages
  <2>2. /\ stage = "scan" => stage' = "deployment"
        /\ stage = "deployment" => stage' = "matched"
        /\ stage = "matched" => stage' = "patterns"
        /\ stage = "patterns" => stage' = "incompatible"
        /\ stage = "incompatible" => stage' = "flows"
        /\ stage = "flows" => stage' = "semantic"
        /\ stage = "semantic" => stage' = "seal"
        /\ stage = "seal" => stage' = "policy"
    BY <2>1, NextOf
  <2>3. ControlInv'
    BY <1>2, <2>1, <2>2 DEF ControlInv, EvidenceStages, Collects
  <2>4. Produced' = Produced
    BY <2>1 DEF Produced
  <2>5. Held' = Before(stage')
    BY <2>1 DEF Held
  <2>6. Before(stage') \subseteq Before(stage) \cup (IF stage \in Collects \cup {"deployment"} THEN {stage} ELSE {})
    BY <1>2, <2>2 DEF Before, Collects, EvidenceStages
  <2>7. stage \in Collects /\ refused = {} => stage \in Held
    BY DEF Held
  <2>8. Before(stage) \subseteq Held
    BY DEF Held
  <2> QED BY <2>1, <2>3, <2>4, <2>5, <2>6, <2>7, <2>8 DEF Collects
<1> QED BY <1>1, <1>2 DEF LeaveStage

\* While the directory and the snapshot stay, what a step finds must be in the snapshot.
LEMMA StageKeepsEvidence ==
    ASSUME EvidenceInv, UNCHANGED <<directoryVars, snapshot>>, ControlInv', CheckInv', SeenInv',
           OnSnapshot => \A s \in (Held' \ blocked') \ (Held \ blocked) : Supported(s)
    PROVE  EvidenceInv'
<1> USE DEF EvidenceInv, directoryVars
<1>1. TreeInv' /\ SnapshotInv' /\ OnSnapshot' = OnSnapshot
  BY DEF TreeInv, SnapshotInv, OnSnapshot, Agrees
<1>2. \A s : Supported(s)' = Supported(s)
  BY DEF Supported
<1>3. HeldInv'
  <2> SUFFICES ASSUME OnSnapshot', NEW s \in Held' \ blocked' PROVE Supported(s)'
    BY DEF HeldInv
  <2>1. Supported(s)
    BY <1>1 DEF HeldInv
  <2> QED BY <1>2, <2>1
<1> QED BY <1>1, <1>3

LEMMA NothingSeen ==
    ASSUME own' = None, seen' = Nothing, step' # 3 PROVE SeenInv'
<1>1. seen' \in [{} -> Contents \cup {None}] /\ DOMAIN seen' = {}
  BY DEF Nothing
<1> QED BY <1>1 DEF SeenInv

-----------------------------------------------------------------------------
(* The digests                                                             *)

LEMMA ListingIsOfTheTree ==
    ASSUME TreeInv
    PROVE  \E P \in SUBSET Paths : Listing \in [P -> Entries] /\ P = DOMAIN Listing
<1>1. Listing \in [{p \in Paths : tree[p] # None} -> Entries]
  BY DEF Listing, TreeInv
<1> QED BY <1>1

LEMMA StartCheckKeeps ==
    ASSUME EvidenceInv, StartCheck PROVE EvidenceInv' /\ Produced' = Produced
<1> USE DEF EvidenceInv
<1>1. /\ stage # "done" /\ Doing = "check" /\ check' = [listing |-> Listing, read |-> Nothing]
      /\ UNCHANGED <<directoryVars, snapshot, candidate, stage, step, own, seen, view, blocked, evaluations>>
  BY DEF StartCheck, pillarVars
<1>2. CheckInv'
  <2>1. PICK P \in SUBSET Paths : Listing \in [P -> Entries]
    BY ListingIsOfTheTree
  <2>2. Nothing \in [{} -> Contents] /\ DOMAIN Nothing = {}
    BY DEF Nothing
  <2>3. check' \in [listing : [P -> Entries], read : [{} -> Contents]]
    BY <1>1, <2>1, <2>2
  <2>4. Doing' = "check" /\ stage' # "done"
    BY <1>1 DEF Doing
  <2> QED BY <1>1, <2>2, <2>3, <2>4 DEF CheckInv
<1>3. ControlInv' /\ SeenInv' /\ Held' = Held /\ blocked' = blocked /\ Produced' = Produced
  BY <1>1 DEF ControlInv, SeenInv, Held, Produced, OnSnapshot, Agrees, directoryVars
<1> QED BY <1>1, <1>2, <1>3, StageKeepsEvidence

\* A digest that fails leaves nothing that was found by it.
LEMMA CheckFailsKeeps ==
    ASSUME EvidenceAssumption, EvidenceInv, check # None, CheckFails
    PROVE  EvidenceInv' /\ Produced' = Produced
<1> USE DEF EvidenceInv
<1>1. /\ check' = None /\ own' = None /\ seen' = Nothing /\ UNCHANGED directoryVars
      /\ stage # "done" /\ Refused
      /\ stage \in {"mint", "policy"} \/ (stage = "deployment" /\ step = 1) \/ (stage \in Collects /\ step \in {1, 4})
  BY StepsAre DEF CheckFails, CheckInv
<1>2. /\ ControlInv' /\ snapshot' = snapshot /\ step' # 3
      /\ Held' \ blocked' \subseteq Held \ blocked /\ Produced' = Produced
  <2>1. CASE stage = "mint"
    <3>1. /\ evaluations' = [c \in 1..Candidates |-> "blocked"] /\ stage' = "done" /\ step' = 1
          /\ snapshot' = snapshot /\ blocked' = blocked
      BY <1>1, <2>1 DEF Refused, Unminted
    <3>2. evaluations' \in Seq({"produced", "blocked", "no-verdict"})
      BY <3>1 DEF EvidenceAssumption
    <3>3. Produced = {} /\ Produced' = {}
      BY <2>1, <3>1 DEF ControlInv, Produced
    <3>4. ControlInv' /\ Held' = {}
      BY <3>1, <3>2 DEF ControlInv, Held, Before, Collects
    <3> QED BY <3>1, <3>3, <3>4
  <2>2. CASE stage = "deployment"
    <3>1. /\ step = 1 /\ step' = step + 1 /\ stage' = stage /\ snapshot' = snapshot
          /\ evaluations' = evaluations /\ blocked' = blocked \cup {stage}
      BY <1>1, <2>2 DEF Refused, Continue, Collects
    <3>2. ControlInv' /\ Held' = {}
      BY <2>2, <3>1 DEF ControlInv, Held, Before, Collects
    <3> QED BY <3>1, <3>2 DEF Produced
  <2>3. CASE stage = "seal" /\ step = 1
    <3>1. /\ step' = 4 /\ stage' = stage /\ snapshot' = snapshot
          /\ evaluations' = evaluations /\ blocked' = blocked \cup {stage}
      BY <1>1, <2>3 DEF Refused, Steps
    <3>2. ControlInv' /\ Held' \subseteq Held \cup {stage}
      BY <2>3, <3>1 DEF ControlInv, Held, Collects
    <3> QED BY <3>1, <3>2 DEF Produced
  <2>4. CASE stage \notin {"mint", "deployment"} /\ ~(stage = "seal" /\ step = 1)
    <3>1. LeaveStage({stage}) /\ stage \in EvidenceStages
      BY <1>1, <2>4 DEF Refused, ControlInv
    <3>2. {stage} # {}
      OBVIOUS
    <3> QED BY <3>1, <3>2, LeavingKeepsControl
  <2> QED BY <2>1, <2>2, <2>3, <2>4
<1>3. CheckInv' /\ SeenInv'
  BY <1>1, <1>2, NothingSeen DEF CheckInv
<1> QED BY <1>1, <1>2, <1>3, StageKeepsEvidence

\* The digest reads what its listing has, or fails.
LEMMA CheckReadKeeps ==
    ASSUME EvidenceAssumption, EvidenceInv, CheckRead PROVE EvidenceInv' /\ Produced' = Produced
<1> USE DEF EvidenceInv
<1>1. CASE CheckFails
  BY <1>1, CheckFailsKeeps DEF CheckRead
<1>2. CASE ~CheckFails
  <2>1. PICK p \in Unread(check) :
          /\ tree[p] = check.listing[p]
          /\ check' = [check EXCEPT !.read = Extended(check.read, p, tree[p].content)]
          /\ UNCHANGED <<directoryVars, snapshot, candidate, stage, step, own, seen, view, blocked, evaluations>>
    BY <1>2 DEF CheckRead, pillarVars
  <2>2. check # None
    BY DEF CheckRead
  <2>3. PICK P, Q \in SUBSET Paths : check \in [listing : [P -> Entries], read : [Q -> Contents]]
    BY <2>2 DEF CheckInv
  <2>4. p \in P /\ p \notin Q /\ check.listing \in [P -> Entries] /\ check.read \in [Q -> Contents]
    BY <2>1, <2>3 DEF Unread
  <2>5. tree[p].content \in Contents
    BY <2>1, <2>4 DEF Entries
  <2>6. PICK r : r = Extended(check.read, p, tree[p].content)
    OBVIOUS
  <2>7. /\ r \in [Q \cup {p} -> Contents] /\ r[p] = check.listing[p].content
        /\ \A q \in Q : r[q] = check.read[q]
    BY <2>1, <2>4, <2>5, <2>6 DEF Extended
  <2>8. check' \in [listing : [P -> Entries], read : [Q \cup {p} -> Contents]]
        /\ check'.listing = check.listing /\ check'.read = r
    BY <2>1, <2>3, <2>4, <2>6, <2>7
  <2>9. CheckInv'
    <3>1. Doing' = Doing
      BY <2>1 DEF Doing
    <3>2. Q \cup {p} \in SUBSET Paths
      BY <2>4
    <3> QED BY <2>1, <2>2, <2>4, <2>7, <2>8, <3>1, <3>2 DEF CheckInv
  <2>10. ControlInv' /\ SeenInv' /\ Held' = Held /\ blocked' = blocked /\ Produced' = Produced
    BY <2>1 DEF ControlInv, SeenInv, Held, Produced, OnSnapshot, Agrees, directoryVars
  <2> QED BY <2>1, <2>9, <2>10, StageKeepsEvidence
<1> QED BY <1>1, <1>2

\* What a digest has read when its listing is still that of the directory.
LEMMA DigestIsOfTheTree ==
    ASSUME TreeInv, CheckInv, check # None, Unread(check) = {}, check.listing = Listing
    PROVE  /\ \E P \in SUBSET Paths : check.read \in [P -> Contents]
           /\ \A p \in Paths : /\ p \in DOMAIN check.read <=> tree[p] # None
                               /\ tree[p] # None => check.read[p] = tree[p].content
<1>1. PICK P, Q \in SUBSET Paths : check \in [listing : [P -> Entries], read : [Q -> Contents]]
  BY DEF CheckInv
<1>2. DOMAIN check.read = DOMAIN Listing /\ check.read \in [Q -> Contents]
  BY <1>1 DEF CheckInv, Unread
<1>3. \A p \in Paths : /\ p \in DOMAIN Listing <=> tree[p] # None
                       /\ tree[p] # None => Listing[p] = tree[p]
  BY DEF Listing
<1>4. \A p \in DOMAIN check.read : check.read[p] = Listing[p].content
  BY DEF CheckInv
<1> QED BY <1>2, <1>3, <1>4

\* The snapshot is hashed first: it is what the directory has then.
LEMMA MintKeeps ==
    ASSUME EvidenceAssumption, EvidenceInv, check # None, Unread(check) = {}, check.listing = Listing,
           check' = None, own' = None, seen' = Nothing, stage' = "scan", step' = 1, snapshot' = check.read,
           UNCHANGED <<directoryVars, blocked, evaluations>>
    PROVE  EvidenceInv'
<1> USE DEF EvidenceInv, directoryVars
<1>1. PICK P \in SUBSET Paths : check.read \in [P -> Contents]
  BY DigestIsOfTheTree
<1>2. \A p \in Paths : /\ p \in DOMAIN check.read <=> tree[p] # None
                       /\ tree[p] # None => check.read[p] = tree[p].content
  BY DigestIsOfTheTree
<1>3. snapshot' # None
  BY <1>1 DEF EvidenceAssumption
<1>4. SnapshotInv'
  <2>1. \E R \in SUBSET Paths : snapshot' \in [R -> Contents]
    BY <1>1
  <2>2. \A p \in Paths : IF p \in DOMAIN snapshot' THEN snapshot'[p].mark <= changes' ELSE p \in gone'
    BY <1>2 DEF TreeInv
  <2> QED BY <2>1, <2>2 DEF SnapshotInv
<1>5. TreeInv' /\ CheckInv'
  BY DEF TreeInv, CheckInv
<1>6. ControlInv' /\ Held' = {}
  BY <1>3 DEF ControlInv, EvidenceStages, Collects, Held, Before
<1>7. SeenInv' /\ HeldInv'
  BY <1>6, NothingSeen DEF HeldInv
<1> QED BY <1>4, <1>5, <1>6, <1>7

\* What is found, is found of the snapshot.
LEMMA FindingIsOfTheTree ==
    ASSUME EvidenceInv, stage = "policy", check # None, Unread(check) = {}, IsVerified(check)
    PROVE  /\ \A p \in Paths : Agrees(p)
           /\ \A p \in DOMAIN snapshot : snapshot[p].supports
           /\ {Manifest, Targets} \subseteq DOMAIN snapshot
<1> USE DEF EvidenceInv
<1>1. check.listing = Listing /\ check.read = snapshot /\ snapshot # None
  BY DEF IsVerified, ControlInv
<1>2. \A p \in Paths : /\ p \in DOMAIN check.read <=> tree[p] # None
                       /\ tree[p] # None => check.read[p] = tree[p].content
  BY <1>1, DigestIsOfTheTree
<1>3. OnSnapshot
  BY <1>1, <1>2 DEF OnSnapshot, Agrees
<1>4. Held = {"deployment", "matched", "incompatible", "semantic", "seal"} /\ blocked = {}
  BY DEF Held, Before, Collects, ControlInv
<1>5. Supported("deployment") /\ Supported("semantic") /\ Supported("seal")
  BY <1>3, <1>4 DEF HeldInv
<1>6. DOMAIN snapshot \subseteq Paths
  BY <1>1 DEF SnapshotInv
<1> QED BY <1>3, <1>5, <1>6 DEF Supported, OnSnapshot, Paths

LEMMA CheckEndsKeeps ==
    ASSUME EvidenceAssumption, EvidenceInv, CheckEnds PROVE EvidenceInv' /\ FoundInTheSnapshot
<1> USE DEF EvidenceInv
<1>1. check # None /\ Unread(check) = {} /\ stage # "done"
      /\ (stage \in {"mint", "policy"} \/ (stage = "deployment" /\ step = 1) \/ (stage \in Collects /\ step \in {1, 4}))
  BY StepsAre DEF CheckEnds, CheckInv
<1>2. CASE ~IsVerified(check)
  <2>1. CheckFails
    BY <1>2 DEF CheckEnds
  <2> QED BY <1>1, <2>1, CheckFailsKeeps DEF FoundInTheSnapshot
<1>3. CASE IsVerified(check) /\ stage = "mint"
  <2>1. EvidenceInv'
    BY <1>1, <1>3, MintKeeps DEF CheckEnds, IsVerified
  <2>2. evaluations' = evaluations
    BY <1>3 DEF CheckEnds
  <2> QED BY <2>1, <2>2 DEF FoundInTheSnapshot, Produced
<1>4. CASE IsVerified(check) /\ stage # "mint"
  <2>1. /\ check' = None /\ own' = None /\ seen' = Nothing /\ UNCHANGED directoryVars
        /\ (Ends /\ LeaveStage({})) \/ (~Ends /\ Continue({}))
    BY <1>4 DEF CheckEnds
  <2>2. /\ ControlInv' /\ snapshot' = snapshot /\ step' # 3
        /\ Held' \ blocked' \subseteq Held \ blocked
        /\ Produced' # Produced => stage = "policy"
    <3>1. CASE Ends /\ LeaveStage({})
      <4>1. stage \in EvidenceStages
        BY <1>1, <1>4 DEF ControlInv
      <4>2. stage # "deployment" /\ (stage \in Collects => step = 4)
        BY <1>1, <3>1 DEF Ends, Steps, Collects
      <4>3. {} \in {{}, {stage}}
        OBVIOUS
      <4> QED BY <3>1, <4>1, <4>2, <4>3, LeavingKeepsControl
    <3>2. CASE ~Ends /\ Continue({})
      <4>1. /\ blocked' = blocked /\ step' = step + 1 /\ stage' = stage /\ snapshot' = snapshot
            /\ evaluations' = evaluations
        BY <3>2 DEF Continue
      <4>2. step = 1
        BY <1>1, <3>2 DEF Ends, Steps, Collects, ControlInv
      <4>3. stage \in Collects \cup {"deployment", "policy"}
        BY <1>1, <1>4
      <4> QED BY <4>1, <4>2, <4>3 DEF ControlInv, Held, Collects, Produced
    <3> QED BY <2>1, <3>1, <3>2
  <2>3. EvidenceInv'
    <3>1. CheckInv' /\ SeenInv'
      BY <2>1, <2>2, NothingSeen DEF CheckInv
    <3> QED BY <2>1, <2>2, <3>1, StageKeepsEvidence
  <2>4. stage = "policy" => FoundInTheSnapshot
    BY <1>1, <1>4, FindingIsOfTheTree DEF FoundInTheSnapshot, Agrees
  <2>5. FoundInTheSnapshot
    BY <2>2, <2>4 DEF FoundInTheSnapshot
  <2> QED BY <2>3, <2>5
<1> QED BY <1>2, <1>3, <1>4

-----------------------------------------------------------------------------
(* The inspections and the reads                                           *)

LEMMA InspectKeeps ==
    ASSUME EvidenceAssumption, EvidenceInv, Inspect PROVE EvidenceInv' /\ Produced' = Produced
<1> USE DEF EvidenceInv
<1>1. /\ stage \in {"scan", "patterns", "flows"} /\ step = 1 /\ check = None
      /\ UNCHANGED <<directoryVars, check, own, seen>>
  <2>1. stage # "done" /\ Doing = "inspect" /\ UNCHANGED <<directoryVars, check, own, seen>>
    BY DEF Inspect
  <2>2. stage \in {"scan", "patterns", "flows"}
    BY <2>1, StepsAre
  <2> QED BY <2>1, <2>2 DEF ControlInv, CheckInv
<1>2. /\ ControlInv' /\ snapshot' = snapshot /\ step' = 1
      /\ Held' \ blocked' \subseteq Held \ blocked /\ Produced' = Produced
  <2>1. CASE UNCHANGED <<candidate, stage, step, snapshot, blocked, evaluations>>
    BY <1>1, <2>1 DEF ControlInv, Held, Produced
  <2>2. CASE Evaluated("no-verdict") \/ Evaluated("blocked")
    BY <1>1, <2>2, EvaluatedKeepsControl DEF EvidenceStages
  <2>3. CASE NextStage({})
    <3>1. LeaveStage({}) /\ stage \in EvidenceStages /\ stage \notin Collects \cup {"deployment", "policy"}
      BY <1>1, <2>3 DEF LeaveStage, EvidenceStages, Collects
    <3>2. {} \in {{}, {stage}}
      OBVIOUS
    <3> QED BY <3>1, <3>2, LeavingKeepsControl
  <2> QED BY <2>1, <2>2, <2>3 DEF Inspect
<1>3. CheckInv' /\ SeenInv'
  BY <1>1, <1>2 DEF CheckInv, SeenInv, OnSnapshot, Agrees, directoryVars
<1> QED BY <1>1, <1>2, <1>3, StageKeepsEvidence

\* The targets are read when nothing has been listed: they are the snapshot's as
\* long as the directory is.
LEMMA ReadTargetsKeeps ==
    ASSUME EvidenceAssumption, EvidenceInv, ReadTargets PROVE EvidenceInv' /\ Produced' = Produced
<1> USE DEF EvidenceInv
<1>1. stage = "deployment" /\ step = 2 /\ check = None /\ UNCHANGED <<directoryVars, check, own, seen>>
  <2>1. stage # "done" /\ Doing = "declared" /\ UNCHANGED <<directoryVars, check, own, seen>>
    BY DEF ReadTargets, pillarVars
  <2>2. stage = "deployment" /\ step = 2
    BY <2>1, StepsAre
  <2> QED BY <2>1, <2>2 DEF CheckInv
<1>2. PICK refused \in {{}, {stage}} :
        /\ LeaveStage(refused)
        /\ refused = {} => tree[Targets] # None /\ tree[Targets].content.supports
  BY DEF ReadTargets
<1>3. /\ ControlInv' /\ snapshot' = snapshot /\ step' = 1
      /\ Held' \ blocked' \subseteq (Held \ blocked) \cup (IF refused = {} THEN {"deployment"} ELSE {})
      /\ Produced' = Produced
  <2>1. stage \in EvidenceStages /\ stage \notin Collects
    BY <1>1 DEF EvidenceStages, Collects
  <2> QED BY <1>1, <1>2, <2>1, LeavingKeepsControl
<1>4. CheckInv' /\ SeenInv'
  BY <1>1, <1>3 DEF CheckInv, SeenInv, OnSnapshot, Agrees, directoryVars
<1>5. OnSnapshot /\ refused = {} => Supported("deployment")
  BY <1>2 DEF OnSnapshot, Agrees, Supported, Paths
<1> QED BY <1>1, <1>3, <1>4, <1>5, StageKeepsEvidence

LEMMA EnumerateKeeps ==
    ASSUME EvidenceAssumption, EvidenceInv, Enumerate PROVE EvidenceInv' /\ Produced' = Produced
<1> USE DEF EvidenceInv
<1>1. stage \in Collects /\ step = 2 /\ check = None /\ UNCHANGED <<directoryVars, check>> /\ seen' = Nothing
  <2>1. stage # "done" /\ Doing = "list" /\ UNCHANGED <<directoryVars, check>> /\ seen' = Nothing
    BY DEF Enumerate
  <2>2. stage \in Collects /\ step = 2
    BY <2>1, StepsAre
  <2> QED BY <2>1, <2>2 DEF CheckInv
<1>2. CASE own' = Listing /\ Continue({})
  <2>1. /\ blocked' = blocked /\ step' = 3 /\ stage' = stage /\ snapshot' = snapshot
        /\ evaluations' = evaluations
    BY <1>1, <1>2 DEF Continue
  <2>2. ControlInv' /\ Held' \subseteq Held /\ Produced' = Produced
    BY <1>1, <2>1 DEF ControlInv, Held, Collects, Produced
  <2>3. PICK P \in SUBSET Paths : Listing \in [P -> Entries]
    BY ListingIsOfTheTree
  <2>4. own' # None /\ own' \in [P -> Entries]
    BY <1>2, <2>3 DEF EvidenceAssumption
  <2>5. OnSnapshot => DOMAIN Listing = DOMAIN snapshot
    BY DEF OnSnapshot, Agrees, Listing, SnapshotInv
  <2>6. OnSnapshot' = OnSnapshot
    BY <1>1, <2>1 DEF OnSnapshot, Agrees, directoryVars
  <2>7. seen' \in [{} -> Contents \cup {None}] /\ DOMAIN seen' = {}
    BY <1>1 DEF Nothing
  <2>8. SeenInv'
    BY <1>2, <2>1, <2>4, <2>5, <2>6, <2>7 DEF SeenInv
  <2>9. CheckInv'
    BY <1>1 DEF CheckInv
  <2> QED BY <1>1, <2>1, <2>2, <2>8, <2>9, StageKeepsEvidence
<1>3. CASE own' = None /\ stage = "seal" /\ blocked' = blocked \cup {stage} /\ step' = Len(Steps(stage))
           /\ UNCHANGED <<candidate, stage, snapshot, evaluations>>
  <2>1. step' = 4
    BY <1>3 DEF Steps
  <2>2. ControlInv' /\ Held' \ blocked' \subseteq Held \ blocked /\ Produced' = Produced
    BY <1>1, <1>3, <2>1 DEF ControlInv, Held, Collects, Produced
  <2>3. CheckInv' /\ SeenInv'
    BY <1>1, <1>3, <2>1, NothingSeen DEF CheckInv
  <2> QED BY <1>1, <1>3, <2>2, <2>3, StageKeepsEvidence
<1>4. CASE own' = None /\ stage # "seal" /\ LeaveStage({stage})
  <2>1. stage \in EvidenceStages /\ {stage} # {} /\ stage # "policy"
    BY <1>1 DEF EvidenceStages, Collects
  <2>2. /\ ControlInv' /\ snapshot' = snapshot /\ step' = 1
        /\ Held' \ blocked' \subseteq Held \ blocked /\ Produced' = Produced
    BY <1>4, <2>1, LeavingKeepsControl
  <2>3. CheckInv' /\ SeenInv'
    BY <1>1, <1>4, <2>2, NothingSeen DEF CheckInv
  <2> QED BY <1>1, <2>2, <2>3, StageKeepsEvidence
<1> QED BY <1>2, <1>3, <1>4 DEF Enumerate

\* What a stage finds in what it has read, the snapshot has as long as the
\* directory is that of the snapshot.
LEMMA ReadCitedKeeps ==
    ASSUME EvidenceAssumption, EvidenceInv, ReadCited PROVE EvidenceInv' /\ Produced' = Produced
<1> USE DEF EvidenceInv
<1>1. stage \in Collects /\ step = 3 /\ check = None /\ own # None /\ UNCHANGED <<directoryVars, check>>
  <2>1. stage # "done" /\ Doing = "read" /\ UNCHANGED <<directoryVars, check>>
    BY DEF ReadCited
  <2>2. stage \in Collects /\ step = 3
    BY <2>1, StepsAre
  <2> QED BY <2>1, <2>2 DEF CheckInv, SeenInv
<1>2. CheckInv'
  BY <1>1 DEF CheckInv
<1>3. CASE Unseen = {}
  <2>1. PICK refused \in {{}, {stage}} :
          /\ Continue(refused)
          /\ refused = {} => Convinced /\ \A p \in DOMAIN own \cap Cited : seen[p] # None
    BY <1>3 DEF ReadCited
  <2>2. own' = None /\ seen' = Nothing
    BY <1>3 DEF ReadCited
  <2>3. /\ blocked' = blocked \cup refused /\ step' = 4 /\ stage' = stage /\ snapshot' = snapshot
        /\ evaluations' = evaluations
    BY <1>1, <2>1 DEF Continue
  <2>4. ControlInv' /\ Held' \subseteq Held \cup {stage} /\ Produced' = Produced
    BY <1>1, <2>3 DEF ControlInv, Held, Collects, Produced
  <2>5. SeenInv'
    BY <2>2, <2>3, NothingSeen
  <2>6. ASSUME OnSnapshot, refused = {} PROVE Supported(stage)
    <3>1. /\ \A p \in Cited : p \in DOMAIN seen
          /\ DOMAIN own = DOMAIN snapshot
          /\ \A p \in DOMAIN seen : seen[p] # None =>
               p \in DOMAIN snapshot /\ seen[p] = snapshot[p] /\ seen[p].supports
      BY <1>1, <1>3, <2>1, <2>6 DEF Unseen, SeenInv, Convinced
    <3>2. CASE stage = "seal"
      <4>1. seen[Manifest] # None /\ Manifest \in DOMAIN seen
        BY <2>1, <2>6, <3>1, <3>2 DEF Convinced, Cited
      <4> QED BY <3>1, <3>2, <4>1 DEF Supported
    <3>3. CASE stage # "seal"
      <4>1. \A p \in Sources \cap DOMAIN snapshot : seen[p] # None /\ p \in DOMAIN seen
        BY <2>1, <2>6, <3>1, <3>3 DEF Cited
      <4>2. \A p \in Sources \cap DOMAIN snapshot : snapshot[p].supports
        BY <3>1, <4>1
      <4> QED BY <1>1, <3>3, <4>2 DEF Supported, Collects
    <3> QED BY <3>2, <3>3
  <2> QED BY <1>1, <1>2, <2>3, <2>4, <2>5, <2>6, StageKeepsEvidence
<1>4. CASE Unseen # {}
  <2>1. PICK p \in Unseen :
          /\ seen' = Extended(seen, p, IF p \in DOMAIN own /\ tree[p] = own[p] THEN tree[p].content ELSE None)
          /\ UNCHANGED <<own, candidate, stage, step, snapshot, blocked, evaluations>>
    BY <1>4 DEF ReadCited
  <2>2. PICK v : v = IF p \in DOMAIN own /\ tree[p] = own[p] THEN tree[p].content ELSE None
    OBVIOUS
  <2>3. p \in Paths /\ p \notin DOMAIN seen
    BY DEF Unseen, Cited, Paths
  <2>4. /\ v \in Contents \cup {None}
        /\ v # None => tree[p] # None /\ v = tree[p].content
    <3>1. PICK P \in SUBSET Paths : own \in [P -> Entries]
      BY <1>1 DEF SeenInv
    <3>2. p \in DOMAIN own => own[p] \in Entries /\ own[p].content \in Contents
      BY <3>1 DEF Entries
    <3> QED BY <2>2, <3>2 DEF EvidenceAssumption
  <2>5. PICK P \in SUBSET Paths : seen \in [P -> Contents \cup {None}]
    BY DEF SeenInv
  <2>6. /\ seen' \in [P \cup {p} -> Contents \cup {None}] /\ DOMAIN seen' = P \cup {p} /\ seen'[p] = v
        /\ \A q \in P : seen'[q] = seen[q]
    BY <2>1, <2>2, <2>3, <2>4, <2>5 DEF Extended
  <2>7. OnSnapshot' = OnSnapshot
    BY <1>1, <2>1 DEF OnSnapshot, Agrees, directoryVars
  <2>8. ASSUME OnSnapshot, NEW q \in DOMAIN seen', seen'[q] # None
        PROVE  q \in DOMAIN snapshot /\ seen'[q] = snapshot[q]
    <3>1. CASE q = p
      BY <2>3, <2>4, <2>6, <2>8, <3>1 DEF OnSnapshot, Agrees
    <3>2. CASE q # p
      BY <2>5, <2>6, <2>8, <3>2 DEF SeenInv
    <3> QED BY <3>1, <3>2
  <2>9. SeenInv'
    <3>1. P \cup {p} \in SUBSET Paths
      BY <2>3
    <3>2. \E R \in SUBSET Paths : seen' \in [R -> Contents \cup {None}]
      BY <2>6, <3>1
    <3>3. OnSnapshot' => \A q \in DOMAIN seen' : seen'[q] # None => q \in DOMAIN snapshot' /\ seen'[q] = snapshot'[q]
      BY <2>1, <2>7, <2>8
    <3> QED BY <2>1, <2>7, <3>2, <3>3 DEF SeenInv
  <2>10. ControlInv' /\ Held' = Held /\ blocked' = blocked /\ Produced' = Produced
    BY <2>1 DEF ControlInv, Held, Produced
  <2> QED BY <1>1, <1>2, <2>1, <2>9, <2>10, StageKeepsEvidence
<1> QED BY <1>3, <1>4

LEMMA ChangeKeeps ==
    ASSUME EvidenceAssumption, ~Recurring, EvidenceInv, NEW p \in Paths, Change(p)
    PROVE  EvidenceInv' /\ Produced' = Produced
<1> USE DEF EvidenceInv
<1>1. TreeInv' /\ SnapshotInv' /\ (OnSnapshot' => OnSnapshot)
  BY NoWayBack
<1>2. UNCHANGED <<snapshot, candidate, stage, step, check, own, seen, view, blocked, evaluations>>
  BY DEF Change, pillarVars
<1>3. ControlInv' /\ CheckInv' /\ Held' = Held /\ blocked' = blocked /\ Produced' = Produced
  BY <1>2 DEF ControlInv, CheckInv, Doing, Held, Produced
<1>4. SeenInv'
  BY <1>1, <1>2 DEF SeenInv
<1>5. HeldInv'
  <2>1. \A s : Supported(s)' = Supported(s)
    BY <1>2 DEF Supported
  <2> QED BY <1>1, <1>3, <2>1 DEF HeldInv
<1> QED BY <1>1, <1>3, <1>4, <1>5

\* A finding speaks of the snapshot, which the directory still has, for every set
\* of files, every number of candidates and of changes, as long as no file is
\* again what it was (evaluateNativeProduction with native-rules/snapshot.ts).
THEOREM FindingsSpeakOfTheSnapshot ==
    EvidenceAssumption /\ ~Recurring => (Spec => FindingIsOfTheSnapshot)
<1> SUFFICES ASSUME EvidenceAssumption, ~Recurring PROVE Spec => FindingIsOfTheSnapshot
  OBVIOUS
<1>1. EvidenceInv /\ [Next]_vars => EvidenceInv' /\ (FoundInTheSnapshot \/ UNCHANGED vars)
  <2> SUFFICES ASSUME EvidenceInv, [Next]_vars PROVE EvidenceInv' /\ (FoundInTheSnapshot \/ UNCHANGED vars)
    OBVIOUS
  <2>1. CASE UNCHANGED vars
    BY <2>1 DEF vars, directoryVars, pillarVars, EvidenceInv, TreeInv, SnapshotInv, ControlInv, CheckInv, Doing,
                SeenInv, HeldInv, Held, Supported, OnSnapshot, Agrees
  <2>2. CASE CheckEnds
    BY <2>2, CheckEndsKeeps
  <2>3. CASE CheckIsCut
    BY <2>3, CheckFailsKeeps DEF CheckIsCut, FoundInTheSnapshot
  <2>4. CASE StartCheck \/ CheckRead \/ Inspect \/ ReadTargets \/ Enumerate \/ ReadCited \/ \E p \in Paths : Change(p)
    BY <2>4, StartCheckKeeps, CheckReadKeeps, InspectKeeps, ReadTargetsKeeps, EnumerateKeeps, ReadCitedKeeps, ChangeKeeps
       DEF FoundInTheSnapshot
  <2> QED BY <2>1, <2>2, <2>3, <2>4 DEF Next, Terminated
<1>2. Init => EvidenceInv
  BY EvidenceStarts
<1> QED BY <1>1, <1>2, PTL DEF Spec, FindingIsOfTheSnapshot

-----------------------------------------------------------------------------
(* The preview of a removal                                                *)

\* The stages in their order.
After(s) ==
    CASE s = "snapshot" -> {"texts", "baseline", "overlay", "rescan", "again"}
      [] s = "texts"    -> {"baseline", "overlay", "rescan", "again"}
      [] s = "baseline" -> {"overlay", "rescan", "again"}
      [] s = "overlay"  -> {"rescan", "again"}
      [] s = "rescan"   -> {"again"}
      [] OTHER          -> {}

Readings == UNION {[D -> Nat] : D \in SUBSET PreviewFiles}

PreviewTyped ==
    /\ content \in [PreviewFiles -> [there : BOOLEAN, version : Nat]]
    /\ scanned \in SUBSET PreviewFiles /\ left \in SUBSET PreviewFiles /\ phase \in PreviewStages
    /\ found \in [PreviewStages -> Readings]

\* What has been read, stage by stage; a version read later is no older.
ReadInOrder ==
    /\ \A t \in After(phase) : DOMAIN found[t] = {}
    /\ left \subseteq scanned /\ (phase = "texts" => left \subseteq EditTargets)
    /\ DOMAIN found["snapshot"] = (IF phase = "snapshot" THEN scanned \ left ELSE scanned)
    /\ phase = "again" => DOMAIN found["again"] = scanned \ left
    /\ phase = "texts" => DOMAIN found["texts"] = (EditTargets \cap scanned) \ left
    /\ phase = "baseline" => DOMAIN found["baseline"] = scanned \ left
    /\ \A s \in PreviewStages : \A f \in DOMAIN found[s] : found[s][f] <= content[f].version
    /\ \A s \in PreviewStages : \A t \in After(s) : \A f \in DOMAIN found[s] \cap DOMAIN found[t] :
          found[s][f] <= found[t][f]

\* What was found in what was read.
FoundInOrder ==
    /\ phase \in After("texts") =>
          EditTargets \subseteq scanned /\ DOMAIN found["texts"] = EditTargets /\ Removable(found["texts"])
    /\ phase \in After("baseline") => DOMAIN found["baseline"] = scanned /\ Unused(found["baseline"])

\* A file that moved shows at the second snapshot.
MovedShows ==
    /\ moved # {} => phase # "snapshot"
    /\ \A f \in moved :
          /\ f \in scanned /\ found["snapshot"][f] < content[f].version
          /\ f \in DOMAIN found["again"] => found["snapshot"][f] < found["again"][f]

PreviewInv ==
    /\ PreviewTyped /\ ReadInOrder /\ FoundInOrder /\ MovedShows
    /\ answer = "statically-checked" => phase = "again" /\ left = {} /\ SameSnapshot

LEMMA PreviewStarts ==
    ASSUME PreviewInit PROVE PreviewInv
<1> USE DEF PreviewInit, PreviewStages, NoVersions, PreviewFiles
<1>1. PreviewTyped
  <2>1. [f \in {} |-> 0] \in Readings
    BY DEF Readings
  <2> QED BY <2>1 DEF PreviewTyped
<1>2. ReadInOrder
  BY DEF ReadInOrder, After
<1>3. FoundInOrder /\ MovedShows
  BY DEF FoundInOrder, MovedShows, After
<1> QED BY <1>1, <1>2, <1>3 DEF PreviewInv

\* A file is written, made or removed: it is newer than all that was read of it.
LEMMA WritesKeepPreview ==
    ASSUME PreviewInv, NEW f \in PreviewFiles, WriteVersion(f) PROVE PreviewInv'
<1> USE DEF PreviewInv
<1>1. /\ answer = "none" /\ answer' = answer /\ scanned' = scanned /\ phase' = phase /\ left' = left
      /\ found' = found
      /\ moved' = (IF phase \in {"texts", "baseline", "overlay", "rescan"} THEN moved \cup ({f} \cap scanned) ELSE moved)
  BY DEF WriteVersion
<1>2. PICK there \in BOOLEAN : content' = [content EXCEPT ![f] = [there |-> there, version |-> content[f].version + 1]]
  BY DEF WriteVersion
<1>3. content[f].version \in Nat /\ content[f].version + 1 \in Nat
  BY DEF PreviewTyped
<1>4. content' \in [PreviewFiles -> [there : BOOLEAN, version : Nat]]
  BY <1>2, <1>3 DEF PreviewTyped
<1>5. /\ content'[f].version = content[f].version + 1
      /\ \A g \in PreviewFiles : g # f => content'[g] = content[g]
  BY <1>2 DEF PreviewTyped
<1>6. PreviewTyped'
  BY <1>1, <1>4 DEF PreviewTyped
<1>7. \A s \in PreviewStages : DOMAIN found[s] \subseteq PreviewFiles /\ \A g \in DOMAIN found[s] : found[s][g] \in Nat
  BY DEF PreviewTyped, Readings
<1>8. \A g \in PreviewFiles : content[g].version \in Nat /\ content[g].version <= content'[g].version
  BY <1>3, <1>5 DEF PreviewTyped
<1>9. \A s \in PreviewStages : \A g \in DOMAIN found[s] : found[s][g] <= content'[g].version
  <2> SUFFICES ASSUME NEW s \in PreviewStages, NEW g \in DOMAIN found[s]
               PROVE  found[s][g] <= content'[g].version
    OBVIOUS
  <2>1. found[s][g] <= content[g].version
    BY DEF ReadInOrder
  <2>2. g \in PreviewFiles /\ found[s][g] \in Nat /\ content[g].version \in Nat
        /\ content'[g].version \in Nat /\ content[g].version <= content'[g].version
    BY <1>4, <1>7, <1>8
  <2> QED BY <2>1, <2>2
<1>10. ReadInOrder'
  BY <1>1, <1>9 DEF ReadInOrder
<1>11. FoundInOrder'
  BY <1>1 DEF FoundInOrder, Unused
<1>12. MovedShows'
  <2>1. "snapshot" \in PreviewStages
    BY DEF PreviewStages
  <2>2. ASSUME NEW g \in moved
        PROVE  /\ g \in scanned /\ found["snapshot"][g] < content'[g].version
               /\ g \in DOMAIN found["again"] => found["snapshot"][g] < found["again"][g]
    <3>1. /\ g \in scanned /\ found["snapshot"][g] < content[g].version
          /\ g \in DOMAIN found["again"] => found["snapshot"][g] < found["again"][g]
      BY DEF MovedShows
    <3>2. g \in DOMAIN found["snapshot"] /\ g \in PreviewFiles
      BY <3>1 DEF MovedShows, ReadInOrder, PreviewTyped
    <3>3. found["snapshot"][g] \in Nat /\ content[g].version \in Nat /\ content'[g].version \in Nat
          /\ content[g].version <= content'[g].version
      BY <1>4, <1>7, <1>8, <2>1, <3>2
    <3> QED BY <3>1, <3>3
  <2>3. ASSUME f \in scanned, phase \in {"texts", "baseline", "overlay", "rescan"}
        PROVE  /\ found["snapshot"][f] < content'[f].version
               /\ f \notin DOMAIN found["again"]
    <3>1. f \in DOMAIN found["snapshot"]
      BY <2>3 DEF ReadInOrder
    <3>2. found["snapshot"][f] <= content[f].version /\ found["snapshot"][f] \in Nat
      BY <1>7, <2>1, <3>1 DEF ReadInOrder
    <3>3. DOMAIN found["again"] = {}
      BY <2>3 DEF ReadInOrder, After
    <3> QED BY <1>3, <1>5, <3>2, <3>3
  <2> QED BY <1>1, <2>2, <2>3 DEF MovedShows
<1> QED BY <1>1, <1>6, <1>10, <1>11, <1>12

LEMMA BlockKeepsPreview ==
    ASSUME PreviewInv, BlockPreview PROVE PreviewInv'
<1>1. /\ answer' = "blocked" /\ content' = content /\ scanned' = scanned /\ phase' = phase
      /\ left' = left /\ found' = found /\ moved' = moved
  BY DEF BlockPreview
<1>2. PreviewTyped' /\ ReadInOrder' /\ FoundInOrder' /\ MovedShows'
  BY <1>1 DEF PreviewInv, PreviewTyped, ReadInOrder, FoundInOrder, MovedShows, Unused
<1> QED BY <1>1, <1>2 DEF PreviewInv

\* The version that is read of a file is the newest of it.
LEMMA ReadsKeepPreview ==
    ASSUME PreviewInv, NEW f \in PreviewFiles, ReadVersion(f), content[f].there PROVE PreviewInv'
<1> USE DEF PreviewInv
<1>1. /\ answer = "none" /\ answer' = answer /\ scanned' = scanned /\ phase' = phase /\ content' = content
      /\ moved' = moved /\ f \in left /\ left' = left \ {f}
      /\ found' = [found EXCEPT ![phase] = [g \in DOMAIN found[phase] \cup {f} |->
                    IF g = f THEN content[f].version ELSE found[phase][g]]]
  BY DEF ReadVersion
<1>2. PICK v \in Nat : v = content[f].version
  BY DEF PreviewTyped
<1>3. PICK r : r = [g \in DOMAIN found[phase] \cup {f} |-> IF g = f THEN v ELSE found[phase][g]]
  OBVIOUS
<1>4. /\ phase \in PreviewStages /\ found[phase] \in Readings
      /\ \A s \in PreviewStages : DOMAIN found[s] \subseteq PreviewFiles /\ \A g \in DOMAIN found[s] : found[s][g] \in Nat
  BY DEF PreviewTyped, Readings
<1>5. /\ DOMAIN r = DOMAIN found[phase] \cup {f} /\ r[f] = v
      /\ \A g \in DOMAIN found[phase] : g # f => r[g] = found[phase][g]
  BY <1>3
<1>6. r \in Readings
  <2>1. r \in [DOMAIN found[phase] \cup {f} -> Nat]
    BY <1>3, <1>4
  <2>2. DOMAIN found[phase] \cup {f} \in SUBSET PreviewFiles
    BY <1>4
  <2> QED BY <2>1, <2>2 DEF Readings
<1>7. found' = [found EXCEPT ![phase] = r]
  BY <1>1, <1>2, <1>3
<1>8. found'[phase] = r /\ \A s \in PreviewStages : s # phase => found'[s] = found[s]
  BY <1>4, <1>7 DEF PreviewTyped
<1>9. PreviewTyped'
  BY <1>1, <1>6, <1>7 DEF PreviewTyped
<1>10. phase \notin After(phase) /\ \A s \in PreviewStages : After(s) \subseteq PreviewStages /\ s \notin After(s)
  BY DEF After, PreviewStages
<1>11. \A s \in PreviewStages : \A g \in DOMAIN found'[s] : found'[s][g] <= content[g].version
  <2> SUFFICES ASSUME NEW s \in PreviewStages, NEW g \in DOMAIN found'[s]
               PROVE  found'[s][g] <= content[g].version
    OBVIOUS
  <2>1. CASE s = phase /\ g = f
    BY <1>2, <1>5, <1>8, <2>1
  <2>2. CASE ~(s = phase /\ g = f)
    <3>1. g \in DOMAIN found[s] /\ found'[s][g] = found[s][g]
      BY <1>5, <1>8, <2>2
    <3> QED BY <3>1 DEF ReadInOrder
  <2> QED BY <2>1, <2>2
<1>12. \A s \in PreviewStages : \A t \in After(s) : \A g \in DOMAIN found'[s] \cap DOMAIN found'[t] :
          found'[s][g] <= found'[t][g]
  <2> SUFFICES ASSUME NEW s \in PreviewStages, NEW t \in After(s), NEW g \in DOMAIN found'[s] \cap DOMAIN found'[t]
               PROVE  found'[s][g] <= found'[t][g]
    OBVIOUS
  <2>0. t \in PreviewStages /\ s # t
    BY <1>10
  <2>1. CASE s = phase
    <3>1. found'[t] = found[t] /\ DOMAIN found[t] = {}
      BY <1>8, <2>0, <2>1 DEF ReadInOrder
    <3> QED BY <3>1
  <2>2. CASE t = phase /\ g = f
    <3>1. found'[s] = found[s] /\ found'[t][g] = v
      BY <1>5, <1>8, <2>0, <2>2
    <3>2. found[s][g] <= content[g].version
      BY <3>1 DEF ReadInOrder
    <3> QED BY <1>2, <2>2, <3>1, <3>2
  <2>3. CASE s # phase /\ ~(t = phase /\ g = f)
    <3>1. found'[s] = found[s] /\ g \in DOMAIN found[t] /\ found'[t][g] = found[t][g]
      BY <1>5, <1>8, <2>0, <2>3
    <3> QED BY <3>1 DEF ReadInOrder
  <2> QED BY <2>1, <2>2, <2>3
<1>13. ReadInOrder'
  <2>1. \A t \in After(phase) : DOMAIN found'[t] = {}
    <3>1. ASSUME NEW t \in After(phase) PROVE DOMAIN found'[t] = {}
      <4>1. t \in PreviewStages /\ t # phase /\ DOMAIN found[t] = {}
        BY <1>4, <1>10 DEF ReadInOrder
      <4> QED BY <1>8, <4>1
    <3> QED BY <3>1
  <2>2. f \in scanned
    BY <1>1 DEF ReadInOrder
  <2>3. DOMAIN found'["snapshot"] = (IF phase = "snapshot" THEN scanned \ left' ELSE scanned)
    BY <1>1, <1>5, <1>8, <2>2 DEF ReadInOrder, PreviewStages
  <2>4. /\ phase = "again" => DOMAIN found'["again"] = scanned \ left'
        /\ phase = "baseline" => DOMAIN found'["baseline"] = scanned \ left'
    BY <1>1, <1>5, <1>8, <2>2 DEF ReadInOrder
  <2>5. phase = "texts" => DOMAIN found'["texts"] = (EditTargets \cap scanned) \ left'
    BY <1>1, <1>5, <1>8, <2>2 DEF ReadInOrder
  <2>6. left' \subseteq scanned /\ (phase = "texts" => left' \subseteq EditTargets)
    BY <1>1 DEF ReadInOrder
  <2> QED BY <1>1, <1>11, <1>12, <2>1, <2>3, <2>4, <2>5, <2>6 DEF ReadInOrder
<1>14. FoundInOrder'
  <2>1. phase \in After("texts") => found'["texts"] = found["texts"]
    BY <1>8 DEF After, PreviewStages
  <2>2. phase \in After("baseline") => found'["baseline"] = found["baseline"]
    BY <1>8 DEF After, PreviewStages
  <2> QED BY <1>1, <2>1, <2>2 DEF FoundInOrder, Unused
<1>15. MovedShows'
  <2>1. ASSUME NEW g \in moved
        PROVE  /\ g \in scanned /\ found'["snapshot"][g] < content[g].version
               /\ g \in DOMAIN found'["again"] => found'["snapshot"][g] < found'["again"][g]
    <3>1. found'["snapshot"] = found["snapshot"]
      BY <1>8 DEF MovedShows, PreviewStages
    <3>2. g \in DOMAIN found'["again"] => \/ g \in DOMAIN found["again"] /\ found'["again"][g] = found["again"][g]
                                          \/ found'["again"][g] = content[g].version
      BY <1>2, <1>5, <1>8 DEF PreviewStages
    <3> QED BY <3>1, <3>2 DEF MovedShows
  <2> QED BY <1>1, <2>1 DEF MovedShows
<1> QED BY <1>1, <1>9, <1>13, <1>14, <1>15

\* The next stage has read nothing yet.
LEMMA NextStageKeepsPreview ==
    ASSUME PreviewInv, answer = "none", UNCHANGED <<content, scanned, found, moved, answer>>,
           left = {}, phase' \in After(phase), left' \subseteq scanned,
           phase' = "texts" => left' = EditTargets \cap scanned,
           phase' \in {"baseline", "again"} => left' = scanned,
           FoundInOrder'
    PROVE  PreviewInv'
<1> USE DEF PreviewInv
<1>1. /\ phase' \in PreviewStages \ {"snapshot"} /\ After(phase') \subseteq After(phase)
      /\ phase' # phase
  BY DEF After, PreviewStages
<1>2. PreviewTyped'
  BY <1>1 DEF PreviewTyped
<1>3. DOMAIN found["snapshot"] = scanned
  BY DEF ReadInOrder
<1>4. DOMAIN found[phase'] = {} /\ \A t \in After(phase') : DOMAIN found[t] = {}
  BY <1>1 DEF ReadInOrder
<1>5. ReadInOrder'
  BY <1>1, <1>3, <1>4 DEF ReadInOrder
<1>6. MovedShows'
  BY <1>1 DEF MovedShows
<1> QED BY <1>2, <1>5, <1>6

LEMMA StagesKeepPreview ==
    ASSUME PreviewInv,
           \/ Bound \/ CheckTexts \/ Baseline \/ Overlay \/ Rescan
    PROVE  PreviewInv'
<1> USE DEF Done, Enter
<1>1. CASE BlockPreview
  BY <1>1, BlockKeepsPreview
<1>2. CASE Bound
  <2>1. FoundInOrder'
    BY <1>2 DEF Bound, FoundInOrder, After
  <2>2. phase' \in After(phase) /\ left' = EditTargets \cap scanned /\ phase' = "texts"
    BY <1>2 DEF Bound, After
  <2> QED BY <1>2, <2>1, <2>2, NextStageKeepsPreview DEF Bound
<1>3. CASE CheckTexts /\ ~BlockPreview
  <2>1. /\ answer = "none" /\ phase = "texts" /\ left = {} /\ EditTargets \subseteq scanned
        /\ Removable(found["texts"]) /\ phase' = "baseline" /\ left' = scanned
        /\ UNCHANGED <<content, scanned, found, moved, answer>>
    BY <1>3 DEF CheckTexts
  <2>2. DOMAIN found["texts"] = EditTargets
    BY <2>1 DEF PreviewInv, ReadInOrder
  <2>3. FoundInOrder'
    BY <2>1, <2>2 DEF FoundInOrder, After
  <2>4. phase' \in After(phase)
    BY <2>1 DEF After
  <2> QED BY <2>1, <2>3, <2>4, NextStageKeepsPreview
<1>4. CASE Baseline /\ ~BlockPreview
  <2>1. /\ answer = "none" /\ phase = "baseline" /\ left = {}
        /\ Unused(found["baseline"]) /\ phase' = "overlay" /\ left' = scanned \ EditTargets
        /\ UNCHANGED <<content, scanned, found, moved, answer>>
    BY <1>4 DEF Baseline
  <2>2. DOMAIN found["baseline"] = scanned
    BY <2>1 DEF PreviewInv, ReadInOrder
  <2>3. FoundInOrder'
    BY <2>1, <2>2 DEF PreviewInv, FoundInOrder, After, Unused
  <2>4. phase' \in After(phase)
    BY <2>1 DEF After
  <2> QED BY <2>1, <2>3, <2>4, NextStageKeepsPreview
<1>5. CASE (Overlay \/ Rescan) /\ ~BlockPreview
  <2>1. /\ answer = "none" /\ left = {}
        /\ \/ phase = "overlay" /\ phase' = "rescan" /\ left' = {}
           \/ phase = "rescan" /\ phase' = "again" /\ left' = scanned
        /\ UNCHANGED <<content, scanned, found, moved, answer>>
    BY <1>5 DEF Overlay, Rescan
  <2>2. FoundInOrder'
    BY <2>1 DEF PreviewInv, FoundInOrder, After, Unused
  <2>3. phase' \in After(phase)
    BY <2>1 DEF After
  <2> QED BY <2>1, <2>2, <2>3, NextStageKeepsPreview
<1> QED BY <1>1, <1>2, <1>3, <1>4, <1>5

LEMMA FinishKeepsPreview ==
    ASSUME PreviewInv, Finish PROVE PreviewInv'
<1>1. CASE BlockPreview
  BY <1>1, BlockKeepsPreview
<1>2. CASE ~BlockPreview
  <2>1. /\ phase = "again" /\ left = {} /\ SameSnapshot
        /\ UNCHANGED <<content, scanned, phase, left, found, moved>>
    BY <1>2 DEF Finish, Done
  <2>2. PreviewTyped' /\ ReadInOrder' /\ FoundInOrder' /\ MovedShows'
    BY <2>1 DEF PreviewInv, PreviewTyped, ReadInOrder, FoundInOrder, MovedShows, Unused
  <2> QED BY <2>1, <2>2 DEF PreviewInv, SameSnapshot
<1> QED BY <1>1, <1>2

LEMMA CheckedIsBound ==
    ASSUME PreviewInv PROVE CheckedIsOfOneTree
<1> SUFFICES ASSUME answer = "statically-checked"
             PROVE  /\ moved = {}
                    /\ found["texts"] = [f \in EditTargets |-> found["snapshot"][f]]
                    /\ Removable([f \in EditTargets |-> found["snapshot"][f]])
                    /\ Unused(found["snapshot"])
  BY DEF CheckedIsOfOneTree
<1>1. /\ phase = "again" /\ left = {} /\ found["again"] = found["snapshot"]
      /\ DOMAIN found["snapshot"] = scanned
  BY DEF PreviewInv, ReadInOrder, SameSnapshot
<1>2. /\ EditTargets \subseteq scanned /\ DOMAIN found["texts"] = EditTargets /\ Removable(found["texts"])
      /\ DOMAIN found["baseline"] = scanned /\ Unused(found["baseline"])
  BY <1>1 DEF PreviewInv, FoundInOrder, After
<1>3. \A s \in PreviewStages : found[s] \in Readings
  BY DEF PreviewInv, PreviewTyped
<1>4. moved = {}
  <2> SUFFICES ASSUME NEW f \in moved PROVE FALSE
    OBVIOUS
  <2>1. f \in DOMAIN found["snapshot"] /\ found["snapshot"][f] < found["again"][f]
    BY <1>1 DEF PreviewInv, MovedShows
  <2>2. found["snapshot"][f] \in Nat
    BY <1>3, <2>1 DEF Readings, PreviewStages
  <2> QED BY <1>1, <2>1, <2>2
<1>5. ASSUME NEW s \in {"texts", "baseline"}, NEW f \in DOMAIN found[s], f \in scanned
      PROVE  found[s][f] = found["snapshot"][f]
  <2>1. s \in After("snapshot") /\ "again" \in After(s) /\ {s, "snapshot", "again"} \subseteq PreviewStages
    BY DEF After, PreviewStages
  <2>2. found["snapshot"][f] <= found[s][f] /\ found[s][f] <= found["again"][f]
    BY <1>1, <1>5, <2>1 DEF PreviewInv, ReadInOrder
  <2>3. found[s][f] \in Nat /\ found["snapshot"][f] \in Nat
    BY <1>1, <1>3, <1>5, <2>1 DEF Readings
  <2> QED BY <1>1, <2>2, <2>3
<1>6. found["texts"] = [f \in EditTargets |-> found["snapshot"][f]]
  <2>1. found["texts"] = [f \in EditTargets |-> found["texts"][f]]
    BY <1>2, <1>3 DEF Readings, PreviewStages
  <2> QED BY <1>2, <1>5, <2>1
<1>7. found["baseline"] = found["snapshot"]
  <2>1. /\ found["baseline"] = [f \in scanned |-> found["baseline"][f]]
        /\ found["snapshot"] = [f \in scanned |-> found["snapshot"][f]]
    BY <1>1, <1>2, <1>3 DEF Readings, PreviewStages
  <2> QED BY <1>2, <1>5, <2>1
<1> QED BY <1>2, <1>4, <1>6, <1>7

\* A preview that is called checked is of one directory, for all sets of files,
\* every number of writes and whatever the checks of texts and sources accept
\* (fix-preview.ts:456-491).
THEOREM CheckedPreviewIsOfOneTree ==
    PreviewSpec => []CheckedIsOfOneTree
<1>1. PreviewInv /\ [PreviewNext]_previewVars => PreviewInv'
  <2> SUFFICES ASSUME PreviewInv, [PreviewNext]_previewVars PROVE PreviewInv'
    OBVIOUS
  <2>1. ASSUME NEW f \in PreviewFiles, ReadVersion(f) PROVE PreviewInv'
    BY <2>1, ReadsKeepPreview, BlockKeepsPreview DEF ReadVersion
  <2>2. CASE UNCHANGED previewVars
    BY <2>2 DEF previewVars, PreviewInv, PreviewTyped, ReadInOrder, FoundInOrder, MovedShows,
                Unused, SameSnapshot
  <2> QED BY <2>1, <2>2, WritesKeepPreview, StagesKeepPreview, FinishKeepsPreview DEF PreviewNext
<1>2. PreviewInit => PreviewInv
  BY PreviewStarts
<1>3. PreviewInv => CheckedIsOfOneTree
  BY CheckedIsBound
<1> QED BY <1>1, <1>2, <1>3, PTL DEF PreviewSpec

-----------------------------------------------------------------------------
(* The reads of a file                                                     *)

ReadsTyped ==
    /\ size \in [Files -> Sizes] /\ version \in [Files -> Nat \ {0}]
    /\ operation \in {"readFileBytes", "readFile", "readFileHead"}
    /\ nextCall \in {"parents", "lstat", "open", "fstat", "read", "served", "changed", "too-large"}
    /\ expected \in Sizes /\ buffer \in Seq(Files \X (Nat \ {0}))

\* What the calls that are done have found.
Checked ==
    /\ nextCall \in {"open", "fstat", "read", "served"} =>
         before \in Files /\ (operation = "readFileBytes" => before = Listed)
    /\ nextCall = "fstat" => opened \in Files
    /\ nextCall \in {"read", "served"} =>
         /\ opened = before /\ stat \in [size : Sizes, version : Nat]
         /\ operation = "readFileBytes" => stat = [size |-> expected, version |-> 1] /\ expected <= MaxBytes
         /\ operation = "readFile" => stat.size <= MaxBytes

\* The bytes that were read are of the open file, and none of a version to come.
BytesInv ==
    /\ nextCall \in {"parents", "lstat", "open", "fstat"} => buffer = <<>>
    /\ nextCall = "read" => Len(buffer) <= Wanted
    /\ nextCall \in {"read", "served"} =>
         \A b \in 1..Len(buffer) : buffer[b][1] = opened /\ buffer[b][2] <= version[opened]

ReadsInv == ReadsTyped /\ Checked /\ BytesInv /\ ServedIsWhatWasChecked

LEMMA WantedIsBounded ==
    ASSUME ReadsAssumption, ReadsTyped, Checked, nextCall = "read"
    PROVE  /\ Wanted \in Nat
           /\ Wanted <= (IF operation = "readFileHead" THEN HeadBytes ELSE MaxBytes + 1)
<1>1. PICK n \in Nat : n = stat.size
  BY DEF Checked, ReadsAssumption
<1>2. operation \in {"readFileBytes", "readFile"} => n <= MaxBytes
  BY <1>1 DEF Checked
<1>3. CASE operation = "readFileHead"
  <2>1. Wanted = (IF n < HeadBytes THEN n ELSE HeadBytes)
    BY <1>1, <1>3 DEF Wanted
  <2> QED BY <1>3, <2>1 DEF ReadsAssumption
<1>4. CASE operation \in {"readFileBytes", "readFile"}
  <2>1. Wanted = n + 1
    BY <1>1, <1>4 DEF Wanted
  <2> QED BY <1>2, <1>4, <2>1 DEF ReadsAssumption
<1> QED BY <1>3, <1>4 DEF ReadsTyped

LEMMA ReadsStart ==
    ASSUME ReadsAssumption, ReadsInit PROVE ReadsInv
<1> USE DEF ReadsInit, ReadsAssumption
<1>1. ReadsTyped
  BY DEF ReadsTyped
<1>2. Checked /\ BytesInv
  BY DEF Checked, BytesInv
<1>3. ServedIsWhatWasChecked
  BY DEF ServedIsWhatWasChecked
<1> QED BY <1>1, <1>2, <1>3 DEF ReadsInv

\* The directory changes while something is still read: versions only grow.
LEMMA ChangesKeepReads ==
    ASSUME ReadsAssumption, ReadsInv, ChangeDirectory PROVE ReadsInv'
<1>1. /\ nextCall \notin {"served", "changed", "too-large"}
      /\ operation' = operation /\ expected' = expected /\ nextCall' = nextCall /\ before' = before
      /\ opened' = opened /\ stat' = stat /\ buffer' = buffer
  BY DEF ChangeDirectory, Outcomes, readerVars
<1>2. size' \in [Files -> Sizes] /\ version' \in [Files -> Nat \ {0}]
      /\ \A f \in Files : version[f] <= version'[f]
  <2>1. CASE Write
    <3>1. PICK f \in Files, s \in Sizes : size' = [size EXCEPT ![f] = s]
                                          /\ version' = [version EXCEPT ![f] = version[f] + 1]
      BY <2>1 DEF Write
    <3> QED BY <3>1 DEF ReadsInv, ReadsTyped
  <2>2. CASE Replace
    <3>1. size' = size /\ version' = version
      BY <2>2 DEF Replace
    <3> QED BY <3>1 DEF ReadsInv, ReadsTyped
  <2> QED BY <2>1, <2>2 DEF ChangeDirectory
<1>3. ReadsTyped'
  BY <1>1, <1>2 DEF ReadsInv, ReadsTyped
<1>4. Checked'
  BY <1>1 DEF ReadsInv, Checked
<1>5. BytesInv'
  <2>1. nextCall = "read" => Wanted' = Wanted
    BY <1>1 DEF Wanted
  <2>2. ASSUME nextCall = "read", NEW b \in 1..Len(buffer)
        PROVE  buffer[b][1] = opened /\ buffer[b][2] <= version'[opened]
    <3>1. buffer[b][1] = opened /\ buffer[b][2] <= version[opened] /\ opened \in Files
      BY <2>2 DEF ReadsInv, BytesInv, Checked
    <3>2. buffer[b][2] \in Nat
      BY <2>2 DEF ReadsInv, ReadsTyped
    <3> QED BY <1>2, <3>1, <3>2 DEF ReadsInv, ReadsTyped
  <2> QED BY <1>1, <2>1, <2>2 DEF ReadsInv, BytesInv
<1>6. ServedIsWhatWasChecked'
  BY <1>1 DEF ReadsInv, ServedIsWhatWasChecked
<1> QED BY <1>3, <1>4, <1>5, <1>6 DEF ReadsInv

\* The calls before the first byte.
LEMMA OpeningKeepsReads ==
    ASSUME ReadsAssumption, ReadsInv,
           CheckParents \/ Lstat \/ Open \/ Fstat
    PROVE  ReadsInv'
<1>1. /\ UNCHANGED <<size, version, operation, expected, buffer>>
      /\ buffer = <<>> /\ nextCall \in {"parents", "lstat", "open", "fstat"}
  BY DEF CheckParents, Lstat, Open, Fstat, placeVars, ReadsInv, BytesInv
<1>2. nextCall' \in {"lstat", "open", "fstat", "read", "changed", "too-large"}
  BY DEF CheckParents, Lstat, Open, Fstat
<1>3. ReadsTyped'
  BY <1>1, <1>2 DEF ReadsInv, ReadsTyped
<1>4. Checked'
  <2>1. CASE CheckParents
    BY <2>1 DEF CheckParents, Checked
  <2>2. CASE Lstat
    BY <2>2 DEF Lstat, Checked, IsListed
  <2>3. CASE Open
    BY <2>3 DEF Open, ReadsInv, Checked
  <2>4. CASE Fstat
    <3>1. /\ nextCall = "fstat" /\ before' = before /\ opened' = opened
          /\ stat' = [size |-> size[opened], version |-> version[opened]]
          /\ before \in Files /\ opened \in Files /\ (operation = "readFileBytes" => before = Listed)
      BY <2>4 DEF Fstat, ReadsInv, Checked, Now
    <3>2. stat' \in [size : Sizes, version : Nat] /\ stat'.size = size[opened]
      BY <3>1 DEF ReadsInv, ReadsTyped
    <3>3. CASE operation = "readFileBytes"
      <4>1. nextCall' = "changed" \/ (nextCall' = "read" /\ IsListed(opened) /\ expected <= MaxBytes)
        BY <2>4, <3>3 DEF Fstat
      <4> QED BY <1>1, <3>1, <3>2, <3>3, <4>1 DEF Checked, IsListed, Now
    <3>4. CASE operation # "readFileBytes"
      <4>1. nextCall' \in {"changed", "too-large"}
            \/ (nextCall' = "read" /\ opened = before /\ ~(operation = "readFile" /\ size[opened] > MaxBytes))
        BY <2>4, <3>4 DEF Fstat
      <4>2. size[opened] \in Nat /\ MaxBytes \in Nat
        BY <3>1 DEF ReadsInv, ReadsTyped, ReadsAssumption
      <4> QED BY <1>1, <3>1, <3>2, <3>4, <4>1, <4>2 DEF Checked
    <3> QED BY <3>3, <3>4
  <2> QED BY <2>1, <2>2, <2>3, <2>4
<1>5. BytesInv'
  <2>1. ASSUME nextCall' = "read" PROVE Wanted' \in Nat
    <3>1. PICK n \in Nat : n = stat'.size
      BY <1>4, <2>1 DEF Checked, ReadsAssumption
    <3>2. Wanted' \in {n + 1, n, HeadBytes}
      BY <1>3, <3>1 DEF Wanted, ReadsTyped
    <3> QED BY <3>2 DEF ReadsAssumption
  <2> QED BY <1>1, <1>2, <2>1 DEF BytesInv
<1>6. ServedIsWhatWasChecked'
  BY <1>1, <1>2 DEF ServedIsWhatWasChecked, ReadsAssumption
<1> QED BY <1>3, <1>4, <1>5, <1>6 DEF ReadsInv

LEMMA AppendedByte ==
    ASSUME NEW B, NEW s \in Seq(B), NEW x \in B
    PROVE  /\ Append(s, x) \in Seq(B) /\ Len(Append(s, x)) = Len(s) + 1 /\ Len(s) \in Nat
           /\ \A b \in 1..Len(s) : Append(s, x)[b] = s[b]
           /\ Append(s, x)[Len(s) + 1] = x
OBVIOUS

\* A byte more, of the file that is open.
LEMMA BytesKeepReads ==
    ASSUME ReadsAssumption, ReadsInv, Read PROVE ReadsInv'
<1> USE DEF ReadsInv
<1>1. /\ nextCall = "read" /\ Len(buffer) < Wanted
      /\ buffer' = Append(buffer, <<opened, version[opened]>>)
      /\ UNCHANGED <<size, version, operation, expected, nextCall, before, opened, stat>>
  BY DEF Read, MoreToRead, placeVars
<1>2. opened \in Files /\ opened = before /\ version[opened] \in Nat \ {0}
  BY <1>1 DEF Checked, ReadsTyped
<1>3. PICK x : x = <<opened, version[opened]>>
  OBVIOUS
<1>4. x \in Files \X (Nat \ {0}) /\ x[1] = opened /\ x[2] = version[opened]
  BY <1>2, <1>3
<1>5. /\ buffer' \in Seq(Files \X (Nat \ {0})) /\ Len(buffer') = Len(buffer) + 1 /\ Len(buffer) \in Nat
      /\ \A b \in 1..Len(buffer) : buffer'[b] = buffer[b]
      /\ buffer'[Len(buffer) + 1] = x
  BY <1>1, <1>3, <1>4, AppendedByte DEF ReadsTyped
<1>6. ReadsTyped' /\ Checked'
  BY <1>1, <1>5 DEF ReadsTyped, Checked
<1>7. /\ Wanted \in Nat /\ Wanted' = Wanted
      /\ Wanted <= (IF operation = "readFileHead" THEN HeadBytes ELSE MaxBytes + 1)
  BY <1>1, WantedIsBounded DEF Wanted
<1>8. Len(buffer') <= Wanted
  BY <1>1, <1>5, <1>7
<1>9. BytesInv'
  <2>1. ASSUME NEW b \in 1..Len(buffer') PROVE buffer'[b][1] = opened /\ buffer'[b][2] <= version[opened]
    <3>1. b \in 1..Len(buffer) \/ b = Len(buffer) + 1
      BY <1>5
    <3>2. CASE b = Len(buffer) + 1
      BY <1>2, <1>4, <1>5, <3>2
    <3>3. CASE b \in 1..Len(buffer)
      BY <1>1, <1>5, <3>3 DEF BytesInv
    <3> QED BY <3>1, <3>2, <3>3
  <2> QED BY <1>1, <1>7, <1>8, <2>1 DEF BytesInv
<1>10. ServedIsWhatWasChecked'
  <2>1. Len(buffer') <= (IF operation = "readFileHead" THEN HeadBytes ELSE MaxBytes + 1)
    BY <1>5, <1>7, <1>8 DEF ReadsAssumption
  <2> QED BY <1>1, <2>1 DEF ServedIsWhatWasChecked
<1> QED BY <1>6, <1>9, <1>10

\* The end of a read: what is served is of the version that was checked.
LEMMA EndsKeepReads ==
    ASSUME ReadsAssumption, ReadsInv, EndRead PROVE ReadsInv'
<1> USE DEF ReadsInv
<1>1. /\ nextCall = "read" /\ nextCall' \in {"served", "changed", "too-large"}
      /\ UNCHANGED <<size, version, operation, expected, before, opened, stat, buffer>>
      /\ operation \in {"readFileBytes", "readFile", "readFileHead"}
  BY DEF EndRead, placeVars, ReadsTyped
<1>2. ReadsTyped' /\ Checked' /\ BytesInv'
  BY <1>1 DEF ReadsTyped, Checked, BytesInv
<1>3. /\ opened = before /\ opened \in Files
      /\ \A b \in 1..Len(buffer) : /\ buffer[b] \in Files \X (Nat \ {0}) /\ buffer[b][1] = opened
                                   /\ buffer[b][2] <= version[opened]
      /\ Len(buffer) \in Nat /\ DOMAIN buffer = 1..Len(buffer) /\ buffer = [b \in 1..Len(buffer) |-> buffer[b]]
  BY <1>1 DEF ReadsTyped, Checked, BytesInv
<1>4. Len(buffer) <= Wanted /\ Wanted \in Nat
      /\ Wanted <= (IF operation = "readFileHead" THEN HeadBytes ELSE MaxBytes + 1)
  BY <1>1, WantedIsBounded DEF BytesInv
<1>5. ASSUME operation = "readFileBytes", nextCall' = "served"
      PROVE  buffer = [b \in 1..expected |-> <<Listed, 1>>]
  <2>1. Len(buffer) = expected /\ stat = [size |-> size[opened], version |-> version[opened]]
    BY <1>5 DEF EndRead, Unchanged, Now
  <2>2. opened = Listed /\ version[opened] = 1
    BY <1>1, <1>5, <2>1 DEF Checked
  <2>3. ASSUME NEW b \in 1..Len(buffer) PROVE buffer[b] = <<Listed, 1>>
    <3>1. buffer[b][1] = Listed /\ buffer[b][2] \in Nat \ {0} /\ buffer[b][2] <= 1
      BY <1>3, <2>2
    <3>2. buffer[b][2] = 1
      BY <3>1
    <3> QED BY <1>3, <3>1, <3>2
  <2> QED BY <1>3, <2>1, <2>3
<1>6. operation = "readFile" /\ nextCall' = "served" => Len(buffer) <= MaxBytes
  BY <1>3 DEF EndRead, ReadsAssumption
<1>7. operation = "readFileHead" => Len(buffer) <= HeadBytes
  BY <1>3, <1>4 DEF ReadsAssumption
<1>8. Len(buffer) <= (IF operation = "readFileHead" THEN HeadBytes ELSE MaxBytes + 1)
  BY <1>1 DEF ServedIsWhatWasChecked
<1>9. ServedIsWhatWasChecked'
  BY <1>1, <1>3, <1>5, <1>6, <1>7, <1>8 DEF ServedIsWhatWasChecked
<1> QED BY <1>2, <1>9

\* A read serves what was checked, whatever happens between its calls, for all
\* files, sizes and ceilings (handle.ts:169-326).
THEOREM ReadsServeWhatWasChecked ==
    ReadsAssumption => (ReadsSpec => []ServedIsWhatWasChecked)
<1> SUFFICES ASSUME ReadsAssumption PROVE ReadsSpec => []ServedIsWhatWasChecked
  OBVIOUS
<1>1. ReadsInv /\ [ReadsNext]_readVars => ReadsInv'
  <2> SUFFICES ASSUME ReadsInv, [ReadsNext]_readVars PROVE ReadsInv'
    OBVIOUS
  <2>1. CASE UNCHANGED readVars
    BY <2>1 DEF readVars, placeVars, readerVars, ReadsInv, ReadsTyped, Checked, BytesInv,
                Wanted, ServedIsWhatWasChecked
  <2> QED BY <2>1, ChangesKeepReads, OpeningKeepsReads, BytesKeepReads, EndsKeepReads DEF ReadsNext
<1>2. ReadsInit => ReadsInv
  BY ReadsStart
<1>3. ReadsInv => ServedIsWhatWasChecked
  BY DEF ReadsInv
<1> QED BY <1>1, <1>2, <1>3, PTL DEF ReadsSpec

-----------------------------------------------------------------------------
(* The extraction of an archive                                            *)

\* A destination that is not the extraction's own makes it fail at once, and
\* what has failed has left nothing.
DestinationInv ==
    /\ extracting = "begin" => disk = <<>> /\ dest # "made" /\ pos = 0
    /\ AllOrNothing

\* Once an extraction has thrown, at whatever entry or byte, and whether the
\* archive, the disk or the download is at fault, nothing of it is left on the
\* disk, and a destination that was there before stays (extract.ts:162-202).
THEOREM ExtractionLeavesNothing == ExtractSpec => []AllOrNothing
<1> USE DEF NoNodes
<1>1. ExtractInit => DestinationInv
  BY DEF ExtractInit, ExtractStarts, DestinationInv, AllOrNothing
<1>2. DestinationInv /\ [ExtractNext]_archiveVars => DestinationInv'
  <2> SUFFICES ASSUME DestinationInv, [ExtractNext]_archiveVars PROVE DestinationInv'
    OBVIOUS
  <2> DEFINE goes == {"next", "body", "removing", "done"}
  <2> USE DEF DestinationInv, AllOrNothing
  <2>1. CASE UNCHANGED <<extracting, dest, disk, pos>> /\ fault' \in {fault, TRUE}
    BY <2>1
  <2>2. CASE RemoveDestination
    BY <2>2 DEF RemoveDestination
  <2>3. CASE Begin
    BY <2>3 DEF Begin, tarVars
  <2>4. CASE extracting \in {"next", "body"} /\ extracting' \in goes /\ dest' = dest
    BY <2>4
  <2>5. CASE extracting = "begin" /\ extracting' = "failed" /\ UNCHANGED <<disk, pos>> /\ fault'
             /\ dest' \in {dest} \cup (IF dest = "absent" THEN {"made"} ELSE {})
    BY <2>5
  <2>6. ExtractStep =>
           \/ RemoveDestination \/ Begin
           \/ extracting \in {"next", "body"} /\ extracting' \in goes /\ dest' = dest
    BY DEF ExtractStep, ReadExtension, FinishArchive, RefuseArchive, RefuseEntry,
           ExtractDirectory, RecordSymlink, ExtractHardlink, OpenFile,
           WriteBlock, CloseFile, AtGoodEntry, Counted, Abort, extractVars
  <2>7. DiskFails \/ DownloadFails \/ PipedDownloadFails =>
           \/ UNCHANGED <<extracting, dest, disk, pos>> /\ fault'
           \/ extracting \in {"next", "body"} /\ extracting' \in goes /\ dest' = dest
           \/ /\ extracting = "begin" /\ extracting' = "failed" /\ UNCHANGED <<disk, pos>> /\ fault'
              /\ dest' \in {dest} \cup (IF dest = "absent" THEN {"made"} ELSE {})
    BY DEF DiskFails, DownloadFails, PipedDownloadFails, Abort, tarVars
  <2>8. CASE ExtractNext
    BY <2>1, <2>2, <2>3, <2>4, <2>5, <2>6, <2>7, <2>8 DEF ExtractNext
  <2>9. CASE UNCHANGED archiveVars
    BY <2>1, <2>9 DEF archiveVars, tarVars, extractVars
  <2> QED BY <2>8, <2>9
<1>3. DestinationInv => AllOrNothing
  BY DEF DestinationInv
<1> QED BY <1>1, <1>2, <1>3, PTL DEF ExtractSpec

-----------------------------------------------------------------------------
(* Its limits                                                              *)

\* The fields of what extensions said and of the summary, and their numbers.
FieldsInv ==
    /\ stream \in Streams /\ pos \in Nat
    /\ DOMAIN ext = DOMAIN NoExt /\ ext.size \in Nat \cup {None}
    /\ DOMAIN count = DOMAIN NoCount /\ count.entries \in Nat /\ count.bytes \in Nat

\* A file on the disk is within the limit of files, finished or not.
FileFits(node) == node.kind = "file" => Len(node.content) <= BlocksOf(MaxFile)
DiskInv(there) ==
    \A p \in DOMAIN there : there[p] \in [kind : {"file", "directory"}, content : Seq(Sent(stream))]
                                /\ FileFits(there[p])

\* What is counted is within the limits, and so it will be with the file that
\* is being written.
LimitsInv ==
    /\ IsFiniteSet(DOMAIN written) /\ Cardinality(DOMAIN written) <= count.entries
    /\ count.entries <= MaxEntries + (IF extracting \in {"removing", "failed"} THEN 1 ELSE 0)
    /\ count.bytes <= MaxTotal
    /\ extracting # "body" => entry = None
    /\ extracting = "body" => /\ entry.type = "file" /\ entry.size \in Nat
                      /\ entry.size <= MaxFile /\ count.bytes + entry.size <= MaxTotal

ExtractionInv == FieldsInv /\ DiskInv(disk) /\ LimitsInv

LEMMA SameStream ==
    ASSUME stream' = stream, DiskInv(disk') PROVE DiskInv(disk)'
<1> SUFFICES ASSUME NEW p \in DOMAIN disk'
             PROVE  /\ disk'[p] \in [kind : {"file", "directory"}, content : Seq(Sent(stream'))]
                    /\ FileFits(disk'[p])
  BY DEF DiskInv, FileFits, BlocksOf, Sent
<1> QED BY DEF DiskInv

LEMMA BlocksGrow ==
    ASSUME TarAssumption, NEW m \in Nat, NEW n \in Nat, m <= n
    PROVE  /\ BlocksOf(m) \in Nat /\ BlocksOf(n) \in Nat
           /\ BlocksOf(m) <= BlocksOf(n)
<1>1. Block \in Nat \ {0}
  BY DEF TarAssumption
<1> QED BY <1>1 DEF BlocksOf

\* What a header and an extension say of an entry's size is a number.
LEMMA SizesAreNumbers ==
    ASSUME TarAssumption, FieldsInv
    PROVE  /\ Blocks \in Seq(Sent(stream))
           /\ Has(1) => Ahead \in Sent(stream)
           /\ AtEntry => EntrySize \in Nat
           /\ AtExtension /\ ExtensionReadable =>
                  DOMAIN Told = DOMAIN ext /\ Told.size \in Nat \cup {None}
<1> DEFINE blocks == Blocks
<1>0. stream \in Streams /\ pos \in Nat
  BY DEF FieldsInv
<1>1. blocks \in Seq(Sent(stream)) /\ Len(blocks) \in Nat
  <2>1. blocks \in Seq(Sent(stream))
    BY <1>0 DEF TarAssumption, Blocks
  <2> HIDE DEF blocks
  <2> QED BY <2>1
<1>sizes. \A b \in Sent(stream) : /\ b.kind = "header"  => b.size \in Nat
                                  /\ b.kind = "records" => b.size \in Nat \cup {None}
  BY <1>0 DEF TarAssumption
<1>2. /\ Has(1) => Ahead \in Sent(stream)
      /\ Has(2) => Body \in Sent(stream)
  <2>1. \A i \in 1..Len(blocks) : blocks[i] \in Sent(stream)
    <3> HIDE DEF blocks
    <3> QED BY <1>1
  <2> QED BY <1>0, <1>1, <2>1 DEF Has, Ahead, Body
<1>3. ASSUME AtEntry PROVE EntrySize \in Nat
  <2>1. Ahead \in Sent(stream) /\ Ahead.kind = "header"
    BY <1>2, <1>3 DEF AtEntry
  <2> QED BY <1>sizes, <2>1 DEF FieldsInv, EntrySize, Said
<1>4. ASSUME AtExtension, ExtensionReadable
      PROVE  DOMAIN Told = DOMAIN ext /\ Told.size \in Nat \cup {None}
  <2>1. Body \in Sent(stream)
    BY <1>2, <1>4 DEF ExtensionReadable
  <2>2. Ahead.flag \in {"g", "x", "L", "K"}
    BY <1>4 DEF AtExtension, ExtensionFlags
  <2>3. Ahead.flag = "x" => Body.size \in Nat \cup {None}
    BY <1>sizes, <1>4, <2>1 DEF ExtensionReadable
  <2> QED BY <2>2, <2>3 DEF Told, Said, FieldsInv, NoExt
<1> QED BY <1>1, <1>2, <1>3, <1>4

\* What is given up leaves the limits as they were.
LEMMA AbortKeepsLimits ==
    ASSUME ExtractionAssumption, ExtractionInv, extracting # "removing", Abort PROVE ExtractionInv'
<1>1. /\ UNCHANGED <<stream, pos, ext, disk, written, count>>
      /\ extracting' = "removing" /\ entry' = None
  BY DEF Abort, tarVars
<1>2. FieldsInv'
  BY <1>1 DEF ExtractionInv, FieldsInv
<1>3. DiskInv(disk)'
  BY <1>1, SameStream DEF ExtractionInv
<1>4. LimitsInv'
  BY <1>1 DEF ExtractionInv, FieldsInv, LimitsInv, ExtractionAssumption
<1> QED BY <1>2, <1>3, <1>4 DEF ExtractionInv

\* An entry that fits is counted within the limits.
LEMMA CountingKeepsLimits ==
    ASSUME TarAssumption, ExtractionAssumption, ExtractionInv, extracting \in {"next", "body"},
           NEW e, e.size \in Nat, e.type \in DOMAIN Types, count.bytes + e.size <= MaxTotal,
           NEW newDisk, DiskInv(newDisk), Counted(e, newDisk)
    PROVE  ExtractionInv'
<1> DEFINE k == Key(Normal(e.name))
<1>1. /\ extracting' = (IF count.entries + 1 > MaxEntries THEN "removing" ELSE "next")
      /\ disk' = newDisk /\ entry' = None /\ stream' = stream
      /\ written' = Put(written, k, e.type) /\ ext' = NoExt
      /\ pos' \in {pos, pos + 1}
  BY DEF Counted, AfterEntry
<1>2. /\ DOMAIN count' = DOMAIN count /\ count'.entries = count.entries + 1
      /\ count'.bytes = count.bytes + e.size
  <2>1. e.type \notin {"entries", "bytes"}
    BY DEF Types
  <2>2. DOMAIN count = {"entries", "file", "directory", "symlink", "hardlink", "bytes"}
    BY DEF ExtractionInv, FieldsInv, NoCount
  <2> QED BY <2>1, <2>2 DEF Counted
<1>3. FieldsInv'
  BY <1>1, <1>2 DEF ExtractionInv, FieldsInv, NoExt
<1>4. DiskInv(disk)'
  BY <1>1, SameStream
<1>5. IsFiniteSet(DOMAIN written') /\ Cardinality(DOMAIN written') <= count.entries + 1
  <2>1. DOMAIN written' = DOMAIN written \cup {k}
    BY <1>1 DEF Put
  <2> HIDE DEF k
  <2>2. IsFiniteSet(DOMAIN written) /\ Cardinality(DOMAIN written) <= count.entries /\ count.entries \in Nat
    BY DEF ExtractionInv, LimitsInv, FieldsInv
  <2>3. /\ IsFiniteSet(DOMAIN written \cup {k})
        /\ Cardinality(DOMAIN written \cup {k}) \in {Cardinality(DOMAIN written), Cardinality(DOMAIN written) + 1}
    BY <2>2, FS_AddElement
  <2>4. Cardinality(DOMAIN written) \in Nat
    BY <2>2, FS_CardinalityType
  <2> QED BY <2>1, <2>2, <2>3, <2>4
<1>6. LimitsInv'
  <2>1. MaxEntries \in Nat /\ count.entries \in Nat /\ count.entries <= MaxEntries
    BY DEF ExtractionInv, LimitsInv, FieldsInv, ExtractionAssumption
  <2> QED BY <1>1, <1>2, <1>5, <2>1 DEF LimitsInv
<1> QED BY <1>3, <1>4, <1>6 DEF ExtractionInv

\* Directories that are made leave what is on the disk.
LEMMA MakingKeepsFiles ==
    ASSUME DiskInv(disk), NEW paths PROVE DiskInv(Made(paths))
<1>1. DirectoryNode \in [kind : {"file", "directory"}, content : Seq(Sent(stream))]
      /\ FileFits(DirectoryNode)
  BY DEF DirectoryNode, FileFits
<1> QED BY <1>1 DEF DiskInv, Made

LEMMA PuttingKeepsFiles ==
    ASSUME NEW there, DiskInv(there), NEW path, NEW node, FileFits(node),
           node \in [kind : {"file", "directory"}, content : Seq(Sent(stream))]
    PROVE  DiskInv(Put(there, path, node))
BY DEF DiskInv, Put

\* What may be extracted of an entry at hand.
LEMMA EntryIsTyped ==
    ASSUME TarAssumption, FieldsInv, AtEntry, EntryReadable
    PROVE  /\ Entry.type \in DOMAIN Types /\ Entry.size \in Nat
           /\ Entry.type = "file" \/ Entry.size = 0
<1>1. PICK t \in DOMAIN Types : Ahead.flag = Types[t] /\ (t = "file" \/ EntrySize = 0)
  BY DEF EntryReadable
<1>2. Entry.type = t
  <2>1. \A u \in DOMAIN Types : Types[u] = Types[t] => u = t
    BY DEF Types
  <2> QED BY <1>1, <2>1 DEF Entry
<1>3. Entry.size = EntrySize
  BY DEF Entry
<1> QED BY <1>1, <1>2, <1>3, SizesAreNumbers

LEMMA ExtractionInvHolds ==
    TarAssumption /\ ExtractionAssumption => (ExtractSpec => []ExtractionInv)
<1> SUFFICES ASSUME TarAssumption, ExtractionAssumption
             PROVE  ExtractSpec => []ExtractionInv
  OBVIOUS
<1>1. ExtractInit => ExtractionInv
  <2> SUFFICES ASSUME ExtractInit PROVE ExtractionInv
    OBVIOUS
  <2>1. FieldsInv /\ DiskInv(disk)
    BY DEF ExtractInit, ExtractStarts, FieldsInv, DiskInv, NoNodes, NoExt, NoCount
  <2>2. DOMAIN written = {} /\ count.entries = 0 /\ count.bytes = 0 /\ extracting = "begin" /\ entry = None
    BY DEF ExtractInit, ExtractStarts, NoNodes, NoCount
  <2> QED BY <2>1, <2>2, FS_EmptySet DEF ExtractionInv, LimitsInv, ExtractionAssumption
<1>2. ExtractionInv /\ [ExtractNext]_archiveVars => ExtractionInv'
  <2> SUFFICES ASSUME ExtractionInv, [ExtractNext]_archiveVars PROVE ExtractionInv'
    OBVIOUS
  <2>0. FieldsInv /\ DiskInv(disk) /\ LimitsInv
    BY DEF ExtractionInv
  <2>1. ASSUME UNCHANGED <<stream, ext, written, count, entry>>, disk' = disk \/ disk' = NoNodes,
               extracting' \in {extracting, "next", "failed", "done"},
               extracting = "body" => extracting' = "body", pos' \in Nat,
               extracting \in {"removing", "failed"} => extracting' \in {extracting, "failed"}
        PROVE  ExtractionInv'
    <3>1. DiskInv(disk')
      BY <2>0, <2>1 DEF DiskInv, NoNodes
    <3>2. DiskInv(disk)'
      BY <2>1, <3>1, SameStream
    <3>3. FieldsInv'
      BY <2>0, <2>1 DEF FieldsInv
    <3>4. LimitsInv'
      BY <2>0, <2>1 DEF FieldsInv, LimitsInv, ExtractionAssumption
    <3> QED BY <3>2, <3>3, <3>4 DEF ExtractionInv
  <2>2. ASSUME Begin PROVE ExtractionInv'
    BY <2>0, <2>1, <2>2 DEF Begin, tarVars, FieldsInv
  <2>3. ASSUME ReadExtension PROVE ExtractionInv'
    <3>1. ext' = Told /\ pos' = pos + 2 /\ UNCHANGED <<stream, extracting, disk, written, count, entry>>
      BY <2>3 DEF ReadExtension, extractVars
    <3>2. DOMAIN ext' = DOMAIN ext /\ ext'.size \in Nat \cup {None}
      BY <2>0, <2>3, <3>1, SizesAreNumbers DEF ReadExtension
    <3> QED BY <2>0, <3>1, <3>2 DEF ExtractionInv, FieldsInv, DiskInv, LimitsInv
  <2>4. ASSUME FinishArchive PROVE ExtractionInv'
    <3>1. Len(Blocks) \in Nat
      BY <2>0, SizesAreNumbers
    <3> QED BY <2>0, <2>1, <2>4, <3>1 DEF FinishArchive
  <2>5. ASSUME RefuseArchive \/ RefuseEntry PROVE ExtractionInv'
    BY <2>5, AbortKeepsLimits DEF RefuseArchive, RefuseEntry
  <2>6. ASSUME NEW t \in {"directory", "symlink", "hardlink"}, AtGoodEntry(t),
               NEW newDisk, DiskInv(newDisk), Counted(Entry, newDisk)
        PROVE  ExtractionInv'
    <3>1. Entry.type \in DOMAIN Types /\ Entry.size = 0
      BY <2>0, <2>6, EntryIsTyped DEF AtGoodEntry
    <3>2. count.bytes + Entry.size <= MaxTotal /\ Entry.size \in Nat /\ extracting = "next"
      BY <2>0, <2>6, <3>1 DEF LimitsInv, FieldsInv, AtGoodEntry
    <3> QED BY <2>6, <3>1, <3>2, CountingKeepsLimits
  <2>7. ASSUME ExtractDirectory PROVE ExtractionInv'
    BY <2>0, <2>6, <2>7, MakingKeepsFiles DEF ExtractDirectory
  <2>8. ASSUME RecordSymlink PROVE ExtractionInv'
    BY <2>0, <2>6, <2>8 DEF RecordSymlink
  <2>9. ASSUME ExtractHardlink PROVE ExtractionInv'
    <3> DEFINE path == Normal(Entry.name)
               target == Normal(Entry.link)
               newDisk == Put(Made(Parents(path)), path, disk[target])
    <3>1. AtGoodEntry("hardlink") /\ Counted(Entry, newDisk)
      BY <2>9 DEF ExtractHardlink
    <3>2. target \in DOMAIN disk
      BY <3>1 DEF AtGoodEntry, Acceptable
    <3>3. DiskInv(newDisk)
      <4>1. DiskInv(Made(Parents(path)))
        BY <2>0, MakingKeepsFiles
      <4>2. FileFits(disk[target])
            /\ disk[target] \in [kind : {"file", "directory"}, content : Seq(Sent(stream))]
        BY <2>0, <3>2 DEF DiskInv
      <4> QED BY <4>1, <4>2, PuttingKeepsFiles
    <3> QED BY <2>6, <3>1, <3>3
  <2>10. ASSUME OpenFile PROVE ExtractionInv'
    <3> DEFINE path == Normal(Entry.name)
               node == [kind |-> "file", content |-> <<>>]
    <3>1. /\ disk' = Put(Made(Parents(path)), path, node)
          /\ entry' = Entry /\ extracting = "next" /\ extracting' = "body" /\ pos' = pos + 1
          /\ UNCHANGED <<stream, ext, written, count>>
      BY <2>10 DEF OpenFile, AtGoodEntry
    <3>2. Entry.type = "file" /\ Entry.size \in Nat /\ Fits(Entry)
      <4>1. Entry.type = "file" /\ Acceptable(Entry)
        BY <2>10 DEF OpenFile, AtGoodEntry
      <4>2. Fits(Entry)
        BY <4>1 DEF Acceptable
      <4> QED BY <2>0, <2>10, <4>1, <4>2, EntryIsTyped DEF OpenFile, AtGoodEntry
    <3>3. FileFits(node) /\ node \in [kind : {"file", "directory"}, content : Seq(Sent(stream))]
      <4>1. BlocksOf(MaxFile) \in Nat
        BY BlocksGrow DEF ExtractionAssumption
      <4> QED BY <4>1 DEF FileFits
    <3>4. DiskInv(Put(Made(Parents(path)), path, node))
      BY <2>0, <3>3, MakingKeepsFiles, PuttingKeepsFiles
    <3>5. DiskInv(disk')
      BY <3>1, <3>4
    <3>6. FieldsInv' /\ DiskInv(disk)'
      BY <2>0, <3>1, <3>5, SameStream DEF FieldsInv
    <3> QED BY <2>0, <3>1, <3>2, <3>6 DEF ExtractionInv, LimitsInv, Fits
  <2>11. ASSUME WriteBlock PROVE ExtractionInv'
    <3> DEFINE path == Normal(entry.name)
    <3>1. /\ extracting = "body" /\ Has(1) /\ Len(disk[path].content) < BlocksOf(entry.size)
          /\ disk' = [disk EXCEPT ![path].content = Append(@, Ahead)] /\ pos' = pos + 1
          /\ UNCHANGED <<stream, ext, extracting, written, count, entry>>
      BY <2>11 DEF WriteBlock
    <3>2. Ahead \in Sent(stream)
      BY <2>0, <3>1, SizesAreNumbers
    <3>3. BlocksOf(entry.size) \in Nat /\ BlocksOf(MaxFile) \in Nat
          /\ BlocksOf(entry.size) <= BlocksOf(MaxFile)
      BY <2>0, <3>1, BlocksGrow DEF LimitsInv, ExtractionAssumption
    <3>4. DiskInv(disk')
      <4> HIDE DEF path
      <4> SUFFICES ASSUME NEW p \in DOMAIN disk'
                   PROVE  /\ disk'[p] \in [kind : {"file", "directory"}, content : Seq(Sent(stream))]
                          /\ FileFits(disk'[p])
        BY DEF DiskInv
      <4>1. p \in DOMAIN disk /\ FileFits(disk[p])
            /\ disk[p] \in [kind : {"file", "directory"}, content : Seq(Sent(stream))]
        BY <2>0, <3>1 DEF DiskInv
      <4>2. CASE p # path
        BY <3>1, <4>1, <4>2
      <4>3. CASE p = path
        <5>1. /\ disk'[p].kind = disk[p].kind /\ disk'[p].content = Append(disk[p].content, Ahead)
              /\ disk'[p] \in [kind : {"file", "directory"}, content : Seq(Sent(stream))]
          <6>1. disk'[p] = [disk[p] EXCEPT !.content = Append(disk[p].content, Ahead)]
            BY <3>1, <4>1, <4>3
          <6>2. Append(disk[p].content, Ahead) \in Seq(Sent(stream))
            BY <3>2, <4>1
          <6> QED BY <4>1, <6>1, <6>2
        <5>2. Len(disk'[p].content) = Len(disk[p].content) + 1 /\ Len(disk[p].content) \in Nat
          BY <3>2, <4>1, <5>1
        <5> QED BY <3>1, <3>3, <4>3, <5>1, <5>2 DEF FileFits
      <4> QED BY <4>2, <4>3
    <3>5. FieldsInv' /\ DiskInv(disk)'
      BY <2>0, <3>1, <3>4, SameStream DEF FieldsInv
    <3> QED BY <2>0, <3>1, <3>5 DEF ExtractionInv, LimitsInv
  <2>12. ASSUME CloseFile PROVE ExtractionInv'
    <3>1. entry.type \in DOMAIN Types /\ entry.size \in Nat /\ count.bytes + entry.size <= MaxTotal
      BY <2>0, <2>12 DEF CloseFile, LimitsInv, Types
    <3> QED BY <2>0, <2>12, <3>1, CountingKeepsLimits DEF CloseFile
  <2>13. ASSUME DiskFails \/ DownloadFails \/ PipedDownloadFails PROVE ExtractionInv'
    <3>1. CASE extracting \in {"next", "body"} /\ Abort
      BY <3>1, AbortKeepsLimits
    <3>2. CASE ~(extracting \in {"next", "body"} /\ Abort)
      BY <2>0, <2>1, <2>13, <3>2
         DEF DiskFails, DownloadFails, PipedDownloadFails, tarVars, FieldsInv
    <3> QED BY <3>1, <3>2
  <2>14. CASE UNCHANGED archiveVars
    BY <2>0, <2>1, <2>14 DEF archiveVars, tarVars, extractVars, FieldsInv
  <2>15. ASSUME RemoveDestination PROVE ExtractionInv'
    BY <2>0, <2>1, <2>15 DEF RemoveDestination, tarVars, FieldsInv
  <2> QED BY <2>2, <2>3, <2>4, <2>5, <2>7, <2>8, <2>9, <2>10, <2>11, <2>12, <2>13, <2>14, <2>15
         DEF ExtractNext, ExtractStep
<1> QED BY <1>1, <1>2, PTL DEF ExtractSpec

\* At every moment of an extraction the bytes on the disk are within the limits
\* of one file and of all of them: a file is measured before a byte of it is
\* written, with the size an extension has given it (extract.ts:239-252,
\* tar.ts:381-499).  The entries are within theirs while it goes on, and when it
\* gives up at most one is there beyond them (extract.ts:188-190).
THEOREM ExtractionKeepsItsLimits ==
    TarAssumption /\ ExtractionAssumption => (ExtractSpec => []SizesOnDisk)
<1> SUFFICES ASSUME TarAssumption, ExtractionAssumption
             PROVE  ExtractSpec => []SizesOnDisk
  OBVIOUS
<1>1. ExtractSpec => []ExtractionInv
  BY ExtractionInvHolds
<1>2. ExtractionInv => SizesOnDisk
  <2>2. ASSUME ExtractionInv PROVE SizesOnDisk
    <3>1. LET goesOn == extracting \in {"next", "body", "done"}
          IN  Cardinality(DOMAIN written) <= MaxEntries + (IF goesOn THEN 0 ELSE 1)
      BY <2>2, FS_CardinalityType DEF ExtractionInv, FieldsInv, LimitsInv, ExtractionAssumption
    <3>2. \A p \in DOMAIN disk : FileFits(disk[p])
      BY <2>2 DEF ExtractionInv, DiskInv
    <3> QED BY <2>2, <3>1, <3>2 DEF ExtractionInv, FieldsInv, FileFits, LimitsInv, SizesOnDisk
  <2> QED BY <2>2
<1> QED BY <1>1, <1>2, PTL

-----------------------------------------------------------------------------
(* What it has accepted                                                    *)

\* The file that is being written has a path and a key of its own.
AcceptedInv ==
    /\ WrittenIsOnDisk
    /\ extracting = "begin" => written = NoNodes /\ disk = NoNodes
    /\ extracting = "body" =>
         LET path == Normal(entry.name)
         IN  /\ path \in DOMAIN disk /\ disk[path].kind = "file"
             /\ entry.type = "file" /\ Key(path) \notin DOMAIN written

\* A disk on which all that was there is still there, and no other file is new.
Grows(there, new) ==
    /\ \A p \in DOMAIN disk : p \in DOMAIN there /\ there[p].kind = disk[p].kind
    /\ \A p \in DOMAIN there \ DOMAIN disk : there[p].kind = "file" => p \in new

KindOf(type) == IF type = "directory" THEN "directory" ELSE "file"
Holds(there, key, type) ==
    type # "symlink" => \E p \in DOMAIN there : Key(p) = key /\ there[p].kind = KindOf(type)

\* What is on the disk stays there for what was recorded of it.
LEMMA GrowingHolds ==
    ASSUME NEW there, NEW new, Grows(there, new), NEW key, NEW type, Holds(disk, key, type)
    PROVE  Holds(there, key, type)
BY DEF Grows, Holds

\* An entry is recorded once it is on the disk.
LEMMA CountingKeepsTree ==
    ASSUME AcceptedInv, extracting \in {"next", "body"}, NEW e, NEW newDisk, Counted(e, newDisk),
           Free(e), extracting = "body" => e = entry,
           Grows(newDisk, IF e.type \in {"file", "hardlink"} THEN {Normal(e.name)} ELSE {}),
           Holds(newDisk, Key(Normal(e.name)), e.type)
    PROVE  AcceptedInv'
<1> DEFINE path == Normal(e.name)
           key  == Key(path)
           new  == IF e.type \in {"file", "hardlink"} THEN {path} ELSE {}
<1>1. /\ extracting' \in {"next", "removing"} /\ disk' = newDisk
      /\ written' = Put(written, key, e.type)
  BY DEF Counted
<1>2. key \in DOMAIN written => written[key] = "directory" /\ e.type = "directory"
  BY DEF Free
<1>3. Grows(newDisk, new) /\ Holds(newDisk, key, e.type)
  OBVIOUS
<1>4. extracting = "body" /\ Normal(entry.name) \in DOMAIN disk => entry = e /\ e.type = "file"
  BY DEF AcceptedInv
<1> HIDE DEF key, path, new
<1>5. ASSUME NEW k \in DOMAIN written' PROVE Holds(newDisk, k, written'[k])
  <2>1. CASE k = key
    BY <1>1, <1>3, <1>5, <2>1 DEF Put
  <2>2. CASE k # key
    <3>1. k \in DOMAIN written /\ written'[k] = written[k]
      BY <1>1, <1>5, <2>2 DEF Put
    <3>2. Holds(disk, k, written[k])
      BY <3>1 DEF AcceptedInv, WrittenIsOnDisk, Holds, KindOf
    <3> QED BY <1>3, <3>1, <3>2, GrowingHolds
  <2> QED BY <2>1, <2>2
<1>6. ASSUME NEW p \in DOMAIN newDisk, newDisk[p].kind = "file"
      PROVE  Key(p) \in DOMAIN written' /\ written'[Key(p)] \in {"file", "hardlink"}
  <2>1. CASE p = path /\ e.type \in {"file", "hardlink"}
    BY <1>1, <2>1 DEF Put, key
  <2>2. CASE ~(p = path /\ e.type \in {"file", "hardlink"})
    <3>1. p \in DOMAIN disk /\ disk[p].kind = "file"
      BY <1>3, <1>6, <2>2 DEF Grows, new
    <3>2. Key(p) \in DOMAIN written /\ written[Key(p)] \in {"file", "hardlink"}
      <4>1. ~(extracting = "body" /\ p = Normal(entry.name))
        BY <1>4, <2>2, <3>1 DEF path
      <4> QED BY <3>1, <4>1 DEF AcceptedInv, WrittenIsOnDisk
    <3>3. Key(p) # key
      BY <1>2, <3>2
    <3> QED BY <1>1, <3>2, <3>3 DEF Put
  <2> QED BY <2>1, <2>2
<1>7. WrittenIsOnDisk'
  BY <1>1, <1>5, <1>6 DEF WrittenIsOnDisk, Holds, KindOf
<1> QED BY <1>1, <1>7 DEF AcceptedInv

\* An error leaves all of it to the catch.
LEMMA AbortKeepsTree ==
    ASSUME AcceptedInv, extracting \in {"next", "body"}, Abort PROVE AcceptedInv'
BY DEF AcceptedInv, WrittenIsOnDisk, Abort

\* Parents are made before an entry, and where nothing is in their way.
LEMMA EntriesGrowTheDisk ==
    ASSUME NEW path, CanCreate(path), NEW node, node.kind = "file"
    PROVE  LET there == Put(Made(Parents(path)), path, node)
           IN  Grows(there, {path}) /\ path \in DOMAIN there /\ there[path] = node
<1>1. path \notin DOMAIN disk
  BY DEF CanCreate
<1>2. \A p \in DOMAIN disk : p \in DOMAIN Made(Parents(path)) /\ Made(Parents(path))[p] = disk[p]
  BY DEF Made
<1>3. \A p \in DOMAIN Made(Parents(path)) \ DOMAIN disk : Made(Parents(path))[p].kind = "directory"
  BY DEF Made, DirectoryNode
<1> QED BY <1>1, <1>2, <1>3 DEF Put, Grows

LEMMA TreeStep ==
    ASSUME TarAssumption, ExtractionInv, AcceptedInv, ExtractStep PROVE AcceptedInv'
<1>1. ASSUME UNCHANGED <<disk, written, entry>>,
             extracting \in {"begin", "next"}, extracting' \in {"next", "done", "failed"}
      PROVE  AcceptedInv'
  BY <1>1 DEF AcceptedInv, WrittenIsOnDisk
<1>2. CASE Begin \/ ReadExtension \/ FinishArchive
  BY <1>1, <1>2 DEF Begin, ReadExtension, FinishArchive, extractVars
<1>3. CASE RefuseArchive \/ RefuseEntry
  BY <1>3, AbortKeepsTree DEF RefuseArchive, RefuseEntry
<1>4. ASSUME NEW t, AtGoodEntry(t)
      PROVE  extracting = "next" /\ Entry.type = t /\ Acceptable(Entry) /\ Free(Entry)
  BY <1>4 DEF AtGoodEntry, Acceptable
<1>5. ASSUME ExtractDirectory PROVE AcceptedInv'
  <2> DEFINE path == Normal(Entry.name)
             newDisk == IF Key(path) \in DOMAIN written THEN disk ELSE Made(Parents(path) \cup {path})
  <2>1. /\ extracting = "next" /\ Entry.type = "directory" /\ Free(Entry) /\ Counted(Entry, newDisk)
        /\ Key(path) \in DOMAIN written \/ CanMake(Parents(path) \cup {path})
    <3>1. AtGoodEntry("directory") /\ Counted(Entry, newDisk)
      BY <1>5 DEF ExtractDirectory
    <3>2. Acceptable(Entry) /\ Entry.type = "directory"
      BY <1>4, <3>1
    <3>3. Key(path) \in DOMAIN written \/ CanMake(Parents(path) \cup {path})
      BY <3>2 DEF Acceptable
    <3> QED BY <1>4, <3>1, <3>3
  <2> HIDE DEF path
  <2>2. CASE Key(path) \in DOMAIN written
    <3>1. newDisk = disk /\ written[Key(path)] = "directory"
      BY <2>1, <2>2 DEF Free, path
    <3>2. Holds(newDisk, Key(path), "directory") /\ Grows(newDisk, {})
      BY <2>1, <2>2, <3>1 DEF AcceptedInv, WrittenIsOnDisk, Holds, KindOf, Grows
    <3> QED BY <2>1, <3>2, CountingKeepsTree DEF path
  <2>3. CASE Key(path) \notin DOMAIN written
    <3>1. newDisk = Made(Parents(path) \cup {path}) /\ CanMake(Parents(path) \cup {path})
      BY <2>1, <2>3
    <3>2. Holds(newDisk, Key(path), "directory") /\ Grows(newDisk, {})
      BY <3>1 DEF Made, CanMake, DirectoryNode, Holds, KindOf, Grows
    <3> QED BY <2>1, <3>2, CountingKeepsTree DEF path
  <2> QED BY <2>2, <2>3
<1>6. ASSUME RecordSymlink PROVE AcceptedInv'
  <2>1. Holds(disk, Key(Normal(Entry.name)), "symlink") /\ Grows(disk, {})
    BY DEF Holds, Grows
  <2>2. extracting = "next" /\ Entry.type = "symlink" /\ Free(Entry) /\ Counted(Entry, disk)
    BY <1>4, <1>6 DEF RecordSymlink
  <2> QED BY <2>1, <2>2, CountingKeepsTree
<1>7. ASSUME ExtractHardlink PROVE AcceptedInv'
  <2> DEFINE path == Normal(Entry.name)
             node == disk[Normal(Entry.link)]
             newDisk == Put(Made(Parents(path)), path, node)
  <2>1. AtGoodEntry("hardlink") /\ Counted(Entry, newDisk)
    BY <1>7 DEF ExtractHardlink
  <2>2. extracting = "next" /\ Entry.type = "hardlink" /\ Free(Entry)
    BY <1>4, <2>1
  <2>3. CanCreate(path) /\ node.kind = "file"
    <3>1. Acceptable(Entry) /\ Entry.type = "hardlink"
      BY <1>4, <2>1
    <3> QED BY <3>1 DEF Acceptable
  <2>4. Grows(newDisk, {path}) /\ path \in DOMAIN newDisk /\ newDisk[path] = node
    <3> HIDE DEF path, node
    <3> QED BY <2>3, EntriesGrowTheDisk
  <2> HIDE DEF newDisk
  <2>5. Holds(newDisk, Key(path), "hardlink")
    BY <2>3, <2>4 DEF Holds, KindOf
  <2> QED BY <2>1, <2>2, <2>4, <2>5, CountingKeepsTree
<1>8. ASSUME OpenFile PROVE AcceptedInv'
  <2> DEFINE path == Normal(Entry.name)
             node == [kind |-> "file", content |-> <<>>]
             newDisk == Put(Made(Parents(path)), path, node)
  <2>1. AtGoodEntry("file") /\ disk' = newDisk /\ entry' = Entry /\ extracting' = "body" /\ written' = written
    BY <1>8 DEF OpenFile
  <2>2. extracting = "next" /\ Entry.type = "file" /\ Free(Entry)
    BY <1>4, <2>1
  <2>3. CanCreate(path)
    <3>1. Acceptable(Entry) /\ Entry.type = "file"
      BY <1>4, <2>1
    <3> QED BY <3>1 DEF Acceptable
  <2>4. Grows(newDisk, {path}) /\ path \in DOMAIN newDisk /\ newDisk[path] = node
    <3>1. node.kind = "file"
      OBVIOUS
    <3> HIDE DEF path, node
    <3> QED BY <2>3, <3>1, EntriesGrowTheDisk
  <2>5. Key(path) \notin DOMAIN written
    BY <2>2 DEF Free
  <2> HIDE DEF path, newDisk
  <2>6. \A k \in DOMAIN written : Holds(newDisk, k, written[k])
    <3>1. \A k \in DOMAIN written : Holds(disk, k, written[k])
      BY <2>2 DEF AcceptedInv, WrittenIsOnDisk, Holds, KindOf
    <3> QED BY <2>4, <3>1, GrowingHolds
  <2>7. \A p \in DOMAIN newDisk : newDisk[p].kind = "file" =>
            \/ p = path
            \/ Key(p) \in DOMAIN written /\ written[Key(p)] \in {"file", "hardlink"}
    BY <2>2, <2>4 DEF AcceptedInv, WrittenIsOnDisk, Grows
  <2>8. WrittenIsOnDisk'
    BY <2>1, <2>6, <2>7 DEF WrittenIsOnDisk, Holds, KindOf, path
  <2> QED BY <2>1, <2>2, <2>4, <2>5, <2>8 DEF AcceptedInv, path
<1>9. ASSUME WriteBlock PROVE AcceptedInv'
  <2>1. /\ disk' = [disk EXCEPT ![Normal(entry.name)].content = Append(@, Ahead)]
        /\ UNCHANGED <<extracting, written, entry>>
    BY <1>9 DEF WriteBlock
  <2>2. \A p \in DOMAIN disk : disk[p] \in [kind : {"file", "directory"}, content : Seq(Sent(stream))]
    BY DEF ExtractionInv, DiskInv
  <2>3. DOMAIN disk' = DOMAIN disk /\ \A p \in DOMAIN disk : disk'[p].kind = disk[p].kind
    BY <2>1, <2>2
  <2>4. /\ \A k \in DOMAIN written : Holds(disk, k, written[k]) => Holds(disk', k, written[k])
        /\ \A p \in DOMAIN disk' : disk'[p].kind = "file" => p \in DOMAIN disk /\ disk[p].kind = "file"
    BY <2>3 DEF Holds
  <2>5. WrittenIsOnDisk'
    BY <1>9, <2>1, <2>4 DEF AcceptedInv, WrittenIsOnDisk, WriteBlock, Holds, KindOf
  <2> QED BY <1>9, <2>1, <2>3, <2>5 DEF AcceptedInv, WriteBlock
<1>10. ASSUME CloseFile PROVE AcceptedInv'
  <2>1. extracting = "body" /\ Counted(entry, disk)
    BY <1>10 DEF CloseFile
  <2>2. /\ entry.type = "file" /\ Key(Normal(entry.name)) \notin DOMAIN written
        /\ Normal(entry.name) \in DOMAIN disk /\ disk[Normal(entry.name)].kind = "file"
    BY <2>1 DEF AcceptedInv
  <2>3. Free(entry)
    BY <2>2 DEF Free
  <2>4. Grows(disk, {Normal(entry.name)}) /\ Holds(disk, Key(Normal(entry.name)), "file")
    BY <2>2 DEF Grows, Holds, KindOf
  <2> QED BY <2>1, <2>2, <2>3, <2>4, CountingKeepsTree
<1>11. CASE RemoveDestination
  BY <1>11 DEF RemoveDestination, AcceptedInv, WrittenIsOnDisk
<1> QED BY <1>2, <1>3, <1>5, <1>6, <1>7, <1>8, <1>9, <1>10, <1>11 DEF ExtractStep

\* While an extraction runs, or is ended in its middle with the process, the
\* destination holds every entry that was accepted and no file beside those and
\* the one being written; once it has thrown, of a fault of the archive, of the
\* disk or of the download, it holds nothing; and it keeps its limits in the sense
\* of SizesOnDisk (extract.ts:162-297).
THEOREM ExtractionIsAllOrNothing ==
    TarAssumption /\ ExtractionAssumption => (ExtractSpec => []ArchiveOrNothing)
<1> SUFFICES ASSUME TarAssumption, ExtractionAssumption
             PROVE  ExtractSpec => []ArchiveOrNothing
  OBVIOUS
<1>1. ExtractSpec => []AllOrNothing
  BY ExtractionLeavesNothing
<1>2. ExtractSpec => []ExtractionInv
  BY ExtractionInvHolds
<1>3. ExtractSpec => []SizesOnDisk
  BY ExtractionKeepsItsLimits
<1>4. ExtractInit => AcceptedInv
  BY DEF ExtractInit, ExtractStarts, AcceptedInv, WrittenIsOnDisk, NoNodes
<1>5. ExtractionInv /\ AcceptedInv /\ [ExtractNext]_archiveVars => AcceptedInv'
  <2> SUFFICES ASSUME ExtractionInv, AcceptedInv, [ExtractNext]_archiveVars PROVE AcceptedInv'
    OBVIOUS
  <2>1. CASE UNCHANGED <<extracting, disk, written, entry>>
    BY <2>1 DEF AcceptedInv, WrittenIsOnDisk
  <2>2. CASE DiskFails \/ DownloadFails \/ PipedDownloadFails
    <3>1. CASE extracting = "begin" /\ extracting' = "failed"
      BY <3>1 DEF AcceptedInv, WrittenIsOnDisk
    <3> QED BY <2>1, <2>2, <3>1, AbortKeepsTree DEF DiskFails, DownloadFails, PipedDownloadFails
  <2>3. CASE UNCHANGED archiveVars
    BY <2>1, <2>3 DEF archiveVars, extractVars
  <2> QED BY <2>2, <2>3, TreeStep DEF ExtractNext
<1>6. AllOrNothing /\ AcceptedInv /\ SizesOnDisk => ArchiveOrNothing
  BY DEF ArchiveOrNothing, AcceptedInv
<1> QED BY <1>1, <1>2, <1>3, <1>4, <1>5, <1>6, PTL DEF ExtractSpec

-----------------------------------------------------------------------------
(* The scan of a repository                                                *)

Members(s) == {s[i] : i \in DOMAIN s}
Upto(p, n) == SubSeq(p, 1, n)

\* The directories that wait for their visit.
Pending == Members(stack) \cup Members(children)
ScanTypes ==
    /\ repository \in Trees /\ limits \in Limits /\ config \in Configs /\ override \in Overrides
    /\ stack \in Seq({Root} \cup DOMAIN repository) /\ children \in Seq(DOMAIN repository)
    /\ unread \subseteq DOMAIN repository /\ files \in Seq(DOMAIN repository)
    /\ \A p \in Pending : IsDirectory(p)
    /\ status \in {"scope", "failed", "walking", "reading", "done"} \cup Truncations
    /\ status \in {"scope", "walking", "done"} => unread = {} /\ children = <<>>
    /\ status = "done" => stack = <<>>
    /\ status = "scope" => stack = <<Root>> /\ files = <<>>

BoundsInv == totalBytes \in Nat /\ IsFiniteSet(recorded) /\ ScanIsBounded

\* What is counted as left out lies below the roots, and nothing else does.
Walks == status \notin {"scope", "failed"}
ScopeInv ==
    Walks =>
      /\ config # Malformed
      /\ scope.roots \subseteq Seq(Nat) \ {Root}
      /\ scope.excludedFiles =
            Cardinality({p \in DOMAIN repository : /\ repository[p].kind \in {"file", "vanishing"}
                                                   /\ \E r \in scope.roots : Below(r, p)})
      /\ \A r \in scope.roots :
            /\ \A p \in Pending : p # r /\ ~Below(r, p)
            /\ \A p \in unread \cup ListedFiles : ~Below(r, p)

\* Whatever is in the tree is listed, was entered, was skipped with what is above
\* it, or is still to come with what is above it.
IsSkipped(p) ==
    \/ [path |-> p, reason |-> Verdict(p)] \in skipped /\ Verdict(p) \notin {"descend", "list"}
    \/ [path |-> p, reason |-> "unreadable"] \in skipped
Covered(p) ==
    \/ \E n \in 0..Len(p) - 1 : Upto(p, n) \in Pending
    \/ \E n \in 1..Len(p) : Upto(p, n) \in unread
    \/ p \in ListedFiles
    \/ Verdict(p) = "descend"
    \/ \E n \in 1..Len(p) : IsSkipped(Upto(p, n))
CoverInv ==
    /\ Walks => \A p \in ListedFiles : Verdict(p) = "list"
    /\ status \in {"walking", "reading", "done"} => \A p \in DOMAIN repository : Covered(p)

ScanInv == ScanTypes /\ BoundsInv /\ ScopeInv /\ CoverInv

-----------------------------------------------------------------------------
(* Paths and lists of paths                                                *)

LEMMA Prefixes ==
    ASSUME NEW p \in Seq(Nat), NEW n \in 0..Len(p)
    PROVE  /\ Upto(p, n) \in Seq(Nat) /\ Len(Upto(p, n)) = n /\ Len(p) \in Nat
           /\ \A i \in 1..n : Upto(p, n)[i] = p[i]
           /\ \A m \in 0..n : Upto(Upto(p, n), m) = Upto(p, m)
           /\ Upto(p, Len(p)) = p
           /\ n = 0 => Upto(p, n) = Root
<1>1. Len(p) \in Nat /\ n \in Nat /\ n <= Len(p)
  OBVIOUS
<1>2. Upto(p, n) \in Seq(Nat) /\ Len(Upto(p, n)) = n /\ \A i \in 1..n : Upto(p, n)[i] = p[i]
  BY <1>1 DEF Upto
<1>3. ASSUME NEW m \in 0..n PROVE Upto(Upto(p, n), m) = Upto(p, m)
  <2>1. Upto(p, m) \in Seq(Nat) /\ Len(Upto(p, m)) = m /\ \A i \in 1..m : Upto(p, m)[i] = p[i]
    BY <1>1 DEF Upto
  <2> DEFINE q == Upto(p, n)
  <2>2. q \in Seq(Nat) /\ Len(q) = n /\ \A i \in 1..n : q[i] = p[i]
    BY <1>2
  <2> HIDE DEF q
  <2>3. Upto(q, m) \in Seq(Nat) /\ Len(Upto(q, m)) = m /\ \A i \in 1..m : Upto(q, m)[i] = q[i]
    BY <1>1, <2>2 DEF Upto
  <2>4. \A i \in 1..m : Upto(q, m)[i] = Upto(p, m)[i]
    <3>1. \A i \in 1..m : i \in 1..n
      BY <1>1
    <3>2. \A i \in 1..m : Upto(q, m)[i] = q[i] /\ Upto(p, m)[i] = p[i]
      BY <2>1, <2>3
    <3> QED BY <2>2, <3>1, <3>2
  <2>5. Upto(q, m) = Upto(p, m)
    BY <2>1, <2>3, <2>4, SeqEqual
  <2> QED BY <2>5 DEF q
<1>4. Upto(p, Len(p)) = p
  BY <1>1 DEF Upto
<1>5. n = 0 => Upto(p, n) = Root
  BY <1>1 DEF Upto, Root
<1> QED BY <1>1, <1>2, <1>3, <1>4, <1>5

\* Below says that the one is a proper prefix of the other.
LEMMA BelowIsPrefix ==
    ASSUME NEW r \in Seq(Nat), NEW p \in Seq(Nat)
    PROVE  Below(r, p) <=> Len(r) < Len(p) /\ Upto(p, Len(r)) = r
BY DEF Below, Upto

LEMMA BelowIsTransitive ==
    ASSUME NEW r \in Seq(Nat), NEW q \in Seq(Nat), NEW p \in Seq(Nat), Below(q, p), Below(r, p), Len(r) <= Len(q)
    PROVE  r = q \/ Below(r, q)
<1>1. /\ Len(q) < Len(p) /\ Upto(p, Len(q)) = q /\ Upto(p, Len(r)) = r
      /\ Len(q) \in Nat /\ Len(r) \in Nat /\ Len(p) \in Nat
  BY BelowIsPrefix
<1>2. Upto(q, Len(r)) = r
  <2>1. Len(q) \in 0..Len(p) /\ Len(r) \in 0..Len(q)
    BY <1>1
  <2>2. Upto(Upto(p, Len(q)), Len(r)) = Upto(p, Len(r))
    BY <2>1, Prefixes
  <2> QED BY <1>1, <2>2
<1>3. CASE Len(r) = Len(q)
  BY <1>1, <1>3
<1>4. CASE Len(r) < Len(q)
  BY <1>2, <1>4, BelowIsPrefix
<1> QED BY <1>1, <1>3, <1>4

LEMMA MembersAre ==
    ASSUME NEW S, NEW s \in Seq(S)
    PROVE  /\ Members(s) \subseteq S
           /\ \A x \in S : Members(Append(s, x)) = Members(s) \cup {x}
           /\ \A t \in Seq(S) : Members(s \o t) = Members(s) \cup Members(t)
           /\ s # <<>> => Head(s) \in S /\ Tail(s) \in Seq(S) /\ Members(s) = {Head(s)} \cup Members(Tail(s))
           /\ s = <<>> => Members(s) = {}
<1>1. Members(s) \subseteq S
  BY DEF Members
<1>2. ASSUME NEW x \in S PROVE Members(Append(s, x)) = Members(s) \cup {x}
  <2>1. /\ DOMAIN Append(s, x) = 1..Len(s) + 1 /\ DOMAIN s = 1..Len(s) /\ Len(s) \in Nat
        /\ \A i \in 1..Len(s) : Append(s, x)[i] = s[i]
        /\ Append(s, x)[Len(s) + 1] = x
    OBVIOUS
  <2>2. \A i \in 1..Len(s) + 1 : i \in 1..Len(s) \/ i = Len(s) + 1
    BY <2>1
  <2>3. ASSUME NEW y \in Members(Append(s, x)) PROVE y \in Members(s) \cup {x}
    BY <2>1, <2>2 DEF Members
  <2>4. ASSUME NEW y \in Members(s) \cup {x} PROVE y \in Members(Append(s, x))
    <3>1. Len(s) + 1 \in 1..Len(s) + 1 /\ 1..Len(s) \subseteq 1..Len(s) + 1
      BY <2>1
    <3> QED BY <2>1, <3>1 DEF Members
  <2> QED BY <2>3, <2>4
<1>3. ASSUME NEW t \in Seq(S) PROVE Members(s \o t) = Members(s) \cup Members(t)
  <2>1. /\ DOMAIN (s \o t) = 1..Len(s) + Len(t) /\ DOMAIN s = 1..Len(s) /\ DOMAIN t = 1..Len(t)
        /\ Len(s) \in Nat /\ Len(t) \in Nat
        /\ \A i \in 1..Len(s) + Len(t) : (s \o t)[i] = IF i <= Len(s) THEN s[i] ELSE t[i - Len(s)]
    OBVIOUS
  <2>2. ASSUME NEW y \in Members(s \o t) PROVE y \in Members(s) \cup Members(t)
    <3>1. PICK i \in 1..Len(s) + Len(t) : y = (s \o t)[i]
      BY <2>1, <2>2 DEF Members
    <3>2. CASE i <= Len(s)
      BY <2>1, <3>1, <3>2 DEF Members
    <3>3. CASE i > Len(s)
      <4>1. i - Len(s) \in 1..Len(t)
        BY <2>1, <3>3
      <4> QED BY <2>1, <3>1, <3>3, <4>1 DEF Members
    <3> QED BY <2>1, <3>2, <3>3
  <2>3. ASSUME NEW y \in Members(s) PROVE y \in Members(s \o t)
    <3>1. PICK i \in 1..Len(s) : y = s[i]
      BY <2>1, <2>3 DEF Members
    <3>2. i \in 1..Len(s) + Len(t) /\ (s \o t)[i] = y
      BY <2>1, <3>1
    <3> QED BY <2>1, <3>2 DEF Members
  <2>4. ASSUME NEW y \in Members(t) PROVE y \in Members(s \o t)
    <3>1. PICK i \in 1..Len(t) : y = t[i]
      BY <2>1, <2>4 DEF Members
    <3>2. i + Len(s) \in 1..Len(s) + Len(t) /\ (s \o t)[i + Len(s)] = y
      BY <2>1, <3>1
    <3> QED BY <2>1, <3>2 DEF Members
  <2> QED BY <2>2, <2>3, <2>4
<1>4. ASSUME s # <<>>
      PROVE  Head(s) \in S /\ Tail(s) \in Seq(S) /\ Members(s) = {Head(s)} \cup Members(Tail(s))
  <2>1. /\ Head(s) = s[1] /\ Head(s) \in S /\ Tail(s) \in Seq(S) /\ DOMAIN s = 1..Len(s)
        /\ Len(s) \in Nat /\ Len(s) >= 1 /\ DOMAIN Tail(s) = 1..Len(s) - 1
        /\ \A i \in 1..Len(s) - 1 : Tail(s)[i] = s[i + 1]
    BY <1>4
  <2>2. ASSUME NEW y \in Members(s) PROVE y \in {Head(s)} \cup Members(Tail(s))
    <3>1. PICK i \in 1..Len(s) : y = s[i]
      BY <2>1, <2>2 DEF Members
    <3>2. CASE i = 1
      BY <2>1, <3>1, <3>2
    <3>3. CASE i > 1
      <4>1. i - 1 \in 1..Len(s) - 1 /\ Tail(s)[i - 1] = s[i]
        BY <2>1, <3>3
      <4> QED BY <2>1, <3>1, <4>1 DEF Members
    <3> QED BY <3>2, <3>3
  <2>3. ASSUME NEW y \in Members(Tail(s)) PROVE y \in Members(s)
    <3>1. PICK i \in 1..Len(s) - 1 : y = Tail(s)[i]
      BY <2>1, <2>3 DEF Members
    <3>2. i + 1 \in 1..Len(s) /\ y = s[i + 1]
      BY <2>1, <3>1
    <3> QED BY <2>1, <3>2 DEF Members
  <2>4. Head(s) \in Members(s)
    BY <2>1 DEF Members
  <2> QED BY <2>1, <2>2, <2>3, <2>4
<1>5. s = <<>> => Members(s) = {}
  BY DEF Members
<1> QED BY <1>1, <1>2, <1>3, <1>4, <1>5

-----------------------------------------------------------------------------
(* What the model's operators say of a tree                                *)

\* Whatever is in a tree is in directories of the tree.
LEMMA TreeFacts ==
    ASSUME ScanAssumption, ScanTypes
    PROVE  /\ IsFiniteSet(DOMAIN repository)
           /\ \A p \in DOMAIN repository :
                /\ p \in Seq(Nat) /\ p # Root /\ Len(p) \in Nat \ {0}
                /\ repository[p].kind \in Kinds /\ repository[p].size \in Nat
                /\ \A n \in 1..Len(p) : Upto(p, n) \in DOMAIN repository
                /\ \A n \in 1..Len(p) - 1 : repository[Upto(p, n)].kind = "directory"
           /\ limits.maxFiles \in Nat /\ limits.maxTotalBytes \in Nat /\ limits.maxSkippedRecords \in Nat
<1>1. IsTreeOfFiles(repository) /\ limits \in Limits
  BY DEF ScanAssumption, ScanTypes
<1>2. limits.maxFiles \in Nat /\ limits.maxTotalBytes \in Nat /\ limits.maxSkippedRecords \in Nat
  BY <1>1 DEF ScanAssumption
<1>3. ASSUME NEW p \in DOMAIN repository
      PROVE  /\ p \in Seq(Nat) /\ p # Root /\ Len(p) \in Nat \ {0}
             /\ repository[p].kind \in Kinds /\ repository[p].size \in Nat
             /\ \A n \in 1..Len(p) : Upto(p, n) \in DOMAIN repository
             /\ \A n \in 1..Len(p) - 1 : repository[Upto(p, n)].kind = "directory"
  <2>1. /\ p \in Seq(Nat) /\ p # Root /\ repository[p].kind \in Kinds /\ repository[p].size \in Nat
        /\ \A n \in 1..Len(p) - 1 : Upto(p, n) \in DOMAIN repository /\ repository[Upto(p, n)].kind = "directory"
    BY <1>1 DEF IsTreeOfFiles, Upto
  <2>2. Len(p) \in Nat \ {0}
    BY <2>1 DEF Root
  <2>3. ASSUME NEW n \in 1..Len(p) PROVE Upto(p, n) \in DOMAIN repository
    <3>1. n = Len(p) \/ n \in 1..Len(p) - 1
      BY <2>2
    <3>2. Upto(p, Len(p)) = p
      BY <2>1, <2>2, Prefixes
    <3> QED BY <2>1, <3>1, <3>2
  <2> QED BY <2>1, <2>2, <2>3
<1>4. IsFiniteSet(DOMAIN repository)
  BY <1>1 DEF IsTreeOfFiles
<1> QED BY <1>2, <1>3, <1>4

\* What the verdict on an entry says of the entry.
LEMMA Verdicts ==
    ASSUME NEW p \in DOMAIN repository, p # Root
    PROVE  /\ repository[p].kind = "directory" =>
                /\ Verdict(p) \in {"unsafe-name", "path-too-long", "fixture-root", "excluded-directory", "too-deep", "descend"}
                /\ Verdict(p) = "fixture-root" => p \in scope.roots
                /\ Verdict(p) = "excluded-directory" => NameOf(p) \in ExcludedNames
           /\ repository[p].kind \in {"file", "vanishing"} =>
                /\ Verdict(p) \in {"unsafe-name", "path-too-long", "excluded-generated-file", "unreadable",
                                   "file-too-large", "list"}
                /\ Verdict(p) = "excluded-generated-file" => NameOf(p) \in GeneratedNames \ LockfileNames
           /\ repository[p].kind = "symlink" => Verdict(p) \in {"unsafe-name", "path-too-long", "symlink"}
           /\ Verdict(p) = "descend" => IsDirectory(p) /\ p \notin scope.roots
<1>1. /\ repository[p].kind = "directory" => IsDirectory(p)
      /\ repository[p].kind \in {"file", "vanishing"} => ~IsDirectory(p)
  BY DEF IsDirectory
<1> QED BY <1>1 DEF Verdict

\* An entry of a directory is one name longer; what is below the directory is an
\* entry of it or below one.
LEMMA EntriesAre ==
    ASSUME ScanAssumption, ScanTypes, NEW d \in {Root} \cup DOMAIN repository
    PROVE  /\ d \in Seq(Nat)
           /\ \A p \in EntriesIn(d) : p \in DOMAIN repository /\ Len(p) = Len(d) + 1 /\ Below(d, p)
           /\ \A p \in DOMAIN repository : \A n \in 0..Len(p) - 1 : Upto(p, n) = d => Upto(p, n + 1) \in EntriesIn(d)
<1>1. d \in Seq(Nat)
  <2>1. Root \in Seq(Nat)
    BY DEF Root
  <2>2. \A p \in DOMAIN repository : p \in Seq(Nat)
    BY TreeFacts
  <2> QED BY <2>1, <2>2
<1>2. ASSUME NEW p \in DOMAIN repository, NEW n \in 0..Len(p) - 1, Upto(p, n) = d
      PROVE  Upto(p, n + 1) \in EntriesIn(d)
  <2>1. p \in Seq(Nat) /\ Len(p) \in Nat /\ n + 1 \in 1..Len(p) /\ Upto(p, n + 1) \in DOMAIN repository
    BY TreeFacts
  <2>2. n \in 0..n + 1 /\ n + 1 \in 0..Len(p) /\ n \in 0..Len(p)
    BY <2>1
  <2>3. /\ Upto(p, n + 1) \in Seq(Nat) /\ Len(Upto(p, n + 1)) = n + 1
        /\ Upto(Upto(p, n + 1), n) = Upto(p, n) /\ Len(Upto(p, n)) = n
    BY <2>1, <2>2, Prefixes
  <2>4. Below(d, Upto(p, n + 1))
    BY <1>1, <1>2, <2>2, <2>3, BelowIsPrefix
  <2> QED BY <1>2, <2>1, <2>3, <2>4 DEF EntriesIn
<1> QED BY <1>1, <1>2 DEF EntriesIn

\* Nothing but the tree, the limits and the scope decides about an entry.
LEMMA SameVerdicts ==
    ASSUME UNCHANGED <<repository, limits, scope>>
    PROVE  \A p : Verdict(p)' = Verdict(p) /\ IsDirectory(p)' = IsDirectory(p)
BY DEF Verdict, IsDirectory, Ceiling

\* Skipping keeps the skips on record within their limit and among the skips.
LEMMA SkippingIsBounded ==
    ASSUME ScanAssumption, ScanTypes, IsFiniteSet(recorded), recorded \subseteq skipped,
           Cardinality(recorded) <= limits.maxSkippedRecords, NEW p, NEW reason, Skipping(p, reason)
    PROVE  /\ IsFiniteSet(recorded') /\ recorded' \subseteq skipped'
           /\ Cardinality(recorded') <= limits.maxSkippedRecords
           /\ skipped \subseteq skipped' /\ [path |-> p, reason |-> reason] \in skipped'
<1> DEFINE skip == [path |-> p, reason |-> reason]
<1>1. /\ skipped' = skipped \cup {skip}
      /\ recorded' = IF Cardinality(recorded) < limits.maxSkippedRecords THEN recorded \cup {skip} ELSE recorded
  BY DEF Skipping
<1>2. /\ Cardinality(recorded) \in Nat /\ IsFiniteSet(recorded \cup {skip})
      /\ Cardinality(recorded \cup {skip}) <= Cardinality(recorded) + 1
  <2> HIDE DEF skip
  <2>1. Cardinality(recorded) \in Nat
    BY FS_CardinalityType
  <2>2. /\ IsFiniteSet(recorded \cup {skip})
        /\ Cardinality(recorded \cup {skip}) =
              IF skip \in recorded THEN Cardinality(recorded) ELSE Cardinality(recorded) + 1
    BY FS_AddElement
  <2> QED BY <2>1, <2>2
<1>3. limits.maxSkippedRecords \in Nat
  BY TreeFacts
<1> HIDE DEF skip
<1>4. IsFiniteSet(recorded') /\ recorded' \subseteq skipped' /\ Cardinality(recorded') <= limits.maxSkippedRecords
  <2>1. CASE Cardinality(recorded) < limits.maxSkippedRecords
    <3>1. recorded' = recorded \cup {skip}
      BY <1>1, <2>1
    <3>2. recorded' \subseteq skipped'
      BY <1>1, <3>1
    <3>3. Cardinality(recorded \cup {skip}) <= limits.maxSkippedRecords
      BY <1>2, <1>3, <2>1, FS_CardinalityType
    <3> QED BY <1>2, <3>1, <3>2, <3>3
  <2>2. CASE ~(Cardinality(recorded) < limits.maxSkippedRecords)
    BY <1>1, <2>2
  <2> QED BY <2>1, <2>2
<1>5. skipped \subseteq skipped' /\ skip \in skipped'
  BY <1>1
<1> QED BY <1>4, <1>5 DEF skip

\* A step keeps everything covered when it keeps what is listed and skipped, and
\* what it takes out of what is to come is covered in another way.
LEMMA CoverStep ==
    ASSUME UNCHANGED <<repository, limits, scope>>, skipped \subseteq skipped', ListedFiles \subseteq ListedFiles',
           \A p \in DOMAIN repository : \A n \in 0..Len(p) - 1 :
              Upto(p, n) \in Pending => Upto(p, n) \in Pending' \/ Covered(p)',
           \A p \in DOMAIN repository : \A n \in 1..Len(p) :
              Upto(p, n) \in unread => Upto(p, n) \in unread' \/ Covered(p)',
           NEW p \in DOMAIN repository, Covered(p)
    PROVE  Covered(p)'
<1>1. \A q : Verdict(q)' = Verdict(q)
  BY SameVerdicts
<1>2. Covered(p)' <=>
        \/ \E n \in 0..Len(p) - 1 : Upto(p, n) \in Pending'
        \/ \E n \in 1..Len(p) : Upto(p, n) \in unread'
        \/ p \in ListedFiles'
        \/ Verdict(p) = "descend"
        \/ \E n \in 1..Len(p) : IsSkipped(Upto(p, n))'
  BY <1>1 DEF Covered, Upto
<1>3. \A q : IsSkipped(q) => IsSkipped(q)'
  BY <1>1 DEF IsSkipped
<1>4. CASE \E n \in 0..Len(p) - 1 : Upto(p, n) \in Pending
  BY <1>2, <1>4
<1>5. CASE \E n \in 1..Len(p) : Upto(p, n) \in unread
  BY <1>2, <1>5
<1>6. CASE p \in ListedFiles \/ Verdict(p) = "descend"
  BY <1>2, <1>6
<1>7. CASE \E n \in 1..Len(p) : IsSkipped(Upto(p, n))
  BY <1>2, <1>3, <1>7 DEF Upto
<1> QED BY <1>4, <1>5, <1>6, <1>7 DEF Covered

-----------------------------------------------------------------------------
(* Every step of a scan keeps the invariant                                *)

LEMMA ScanStarted == ASSUME ScanAssumption, ScanInit PROVE ScanInv
<1> PICK t \in Trees, l \in Limits, c \in Configs, o \in Overrides : ScanStarts(t, l, c, o)
  BY DEF ScanInit
<1>1. /\ repository = t /\ limits = l /\ config = c /\ override = o /\ stack = <<Root>> /\ unread = {}
      /\ children = <<>> /\ files = <<>> /\ totalBytes = 0 /\ recorded = {} /\ status = "scope"
      /\ skipped = {}
  BY DEF ScanStarts
<1>2. /\ stack \in Seq({Root} \cup DOMAIN repository) /\ children \in Seq(DOMAIN repository)
      /\ files \in Seq(DOMAIN repository) /\ DOMAIN stack = {1} /\ stack[1] = Root /\ DOMAIN children = {}
      /\ Len(files) = 0
  BY <1>1
<1>3. ScanTypes
  BY <1>1, <1>2 DEF ScanTypes, Pending, Members, IsDirectory
<1>4. IsFiniteSet(recorded) /\ Cardinality(recorded) = 0
  BY <1>1, FS_EmptySet
<1>5. BoundsInv
  BY <1>1, <1>2, <1>3, <1>4, TreeFacts DEF BoundsInv, ScanIsBounded
<1>6. ScopeInv /\ CoverInv
  BY <1>1 DEF ScopeInv, CoverInv, Walks
<1> QED BY <1>3, <1>5, <1>6 DEF ScanInv

\* Below a root that is missing there is nothing.
LEMMA NothingBelowMissing ==
    ASSUME ScanAssumption, ScanTypes, NEW r \in Seq(Nat), Missing(r), NEW p \in DOMAIN repository
    PROVE  ~Below(r, p)
<1> SUFFICES ASSUME Below(r, p) PROVE FALSE
  OBVIOUS
<1>1. p \in Seq(Nat) /\ Len(p) \in Nat /\ Len(r) \in Nat /\ Len(r) < Len(p) /\ Upto(p, Len(r)) = r
  BY TreeFacts, BelowIsPrefix
<1>2. PICK n \in 1..Len(r) : Upto(r, n) \notin DOMAIN repository
  BY DEF Missing, Upto
<1>3. n \in 0..Len(r) /\ n \in 1..Len(p) /\ Len(r) \in 0..Len(p)
  BY <1>1, <1>2
<1>4. Upto(Upto(p, Len(r)), n) = Upto(p, n)
  BY <1>1, <1>3, Prefixes
<1>5. Upto(p, n) \in DOMAIN repository
  BY <1>3, TreeFacts
<1> QED BY <1>1, <1>2, <1>4, <1>5

LEMMA ReadScopeKeeps == ASSUME ScanAssumption, ScanInv, ReadScope PROVE ScanInv'
<1>1. /\ UNCHANGED <<repository, limits, config, override>> /\ UNCHANGED <<stack, visited, unread, children>>
      /\ UNCHANGED <<files, totalBytes, skipped, recorded>> /\ status = "scope"
  BY DEF ReadScope, inputVars, walkVars
<1>2. \/ status' = "failed"
      \/ /\ status' = "walking" /\ ScopeIsRead
         /\ scope' = [roots |-> EffectiveRoots, excludedFiles |-> Cardinality(FilesInScope)]
  BY DEF ReadScope
<1>3. ScanTypes /\ BoundsInv /\ stack = <<Root>> /\ files = <<>> /\ unread = {} /\ children = <<>>
  BY <1>1 DEF ScanInv, ScanTypes
<1>4. ScanTypes' /\ BoundsInv'
  BY <1>1, <1>2, <1>3 DEF ScanTypes, BoundsInv, ScanIsBounded, Pending, Members, IsDirectory
<1>5. Pending' = {Root} /\ ListedFiles' = {} /\ unread' = {}
  BY <1>1, <1>3 DEF Pending, Members, ListedFiles
<1>6. CASE status' = "failed"
  BY <1>4, <1>6 DEF ScanInv, ScopeInv, CoverInv, Walks
<1>7. CASE status' = "walking"
  <2>1. /\ Parses(config) /\ Parses(override) /\ \A r \in EffectiveRoots : Missing(r) \/ Matched(r)
        /\ scope' = [roots |-> EffectiveRoots, excludedFiles |-> Cardinality(FilesInScope)]
    BY <1>2, <1>7 DEF ScopeIsRead
  <2>2. EffectiveRoots \subseteq Seq(Nat) \ {Root}
    <3>1. /\ config \in Configs /\ config # Malformed /\ override \in Overrides /\ override # Malformed
          /\ config = None \/ RootsAreValid(config)
          /\ override = None \/ RootsAreValid(override)
      BY <1>3, <2>1 DEF ScanTypes, Parses
    <3>2. /\ config = None \/ config \subseteq Seq(Nat)
          /\ override = None \/ override \subseteq Seq(Nat)
      BY <3>1 DEF ScanAssumption
    <3> QED BY <3>1, <3>2 DEF EffectiveRoots, RootsAreValid
  <2>3. FilesInScope = {p \in DOMAIN repository : /\ repository[p].kind \in {"file", "vanishing"}
                                                  /\ \E r \in EffectiveRoots : Below(r, p)}
    <3>1. ASSUME NEW p \in DOMAIN repository, NEW r \in EffectiveRoots, Below(r, p) PROVE r \in MatchedRoots
      <4>1. ~Missing(r)
        BY <1>3, <2>2, <3>1, NothingBelowMissing
      <4> QED BY <2>1, <4>1 DEF MatchedRoots
    <3> QED BY <3>1 DEF FilesInScope, FilesOf, Within, MatchedRoots
  <2>4. \A r \in EffectiveRoots : r # Root /\ ~Below(r, Root)
    BY <2>2 DEF Below, Root
  <2>5. ScopeInv'
    BY <1>1, <1>5, <2>1, <2>2, <2>3, <2>4 DEF ScopeInv, Below, Parses
  <2>6. CoverInv'
    <3>1. ASSUME NEW p \in DOMAIN repository PROVE Covered(p)'
      <4>1. 0 \in 0..Len(p) - 1 /\ Upto(p, 0) = Root
        BY <1>3, TreeFacts, Prefixes
      <4>2. \E n \in 0..Len(p) - 1 : Upto(p, n) \in Pending'
        BY <1>5, <4>1
      <4> QED BY <4>2 DEF Covered, Upto
    <3> QED BY <1>1, <1>5, <3>1 DEF CoverInv
  <2> QED BY <1>4, <2>5, <2>6 DEF ScanInv
<1> QED BY <1>2, <1>6, <1>7

LEMMA OpenDirectoryKeeps == ASSUME ScanAssumption, ScanInv, OpenDirectory PROVE ScanInv'
<1> DEFINE dir == Head(stack)
<1>1. /\ UNCHANGED <<repository, limits, config, override>> /\ UNCHANGED <<scope, children, files, totalBytes>>
      /\ status = "walking" /\ stack # <<>> /\ stack' = Tail(stack)
      /\ unread = {} /\ children = <<>>
      /\ ScanTypes /\ BoundsInv /\ ScopeInv /\ CoverInv
  BY DEF OpenDirectory, inputVars, ScanInv, ScanTypes
<1>2. \/ status' = "max-directories" /\ UNCHANGED <<unread, skipped, recorded>>
      \/ /\ dir # Root /\ repository[dir].kind = "sealed"
         /\ Skipping(dir, "unreadable") /\ UNCHANGED <<unread, status>>
      \/ /\ ~(dir # Root /\ repository[dir].kind = "sealed")
         /\ unread' = EntriesIn(dir) /\ status' = "reading" /\ UNCHANGED <<skipped, recorded>>
  BY DEF OpenDirectory
<1>3. /\ dir \in {Root} \cup DOMAIN repository /\ stack' \in Seq({Root} \cup DOMAIN repository)
      /\ Members(children) = {} /\ Members(children') = {}
      /\ Members(stack) = {dir} \cup Members(stack')
  BY <1>1, MembersAre DEF ScanTypes
<1>4. Pending = {dir} \cup Pending'
  BY <1>3 DEF Pending
<1> HIDE DEF dir
<1>5. IsDirectory(dir) /\ \A p \in Pending' : IsDirectory(p)
  BY <1>1, <1>4 DEF ScanTypes
<1>6. /\ dir \in Seq(Nat)
      /\ \A p \in EntriesIn(dir) : p \in DOMAIN repository /\ Len(p) = Len(dir) + 1 /\ Below(dir, p)
      /\ \A p \in DOMAIN repository : \A n \in 0..Len(p) - 1 : Upto(p, n) = dir => Upto(p, n + 1) \in EntriesIn(dir)
  BY <1>1, <1>3, EntriesAre
<1>7. unread' \subseteq DOMAIN repository
  BY <1>1, <1>2, <1>6
<1>8. ScanTypes'
  <2>1. \A p \in Pending' : IsDirectory(p)'
    BY <1>1, <1>5, SameVerdicts
  <2>2. status' \in {"walking", "reading"} \cup Truncations /\ (status' = "walking" => unread' = {})
    BY <1>1, <1>2 DEF Truncations
  <2>3. status' # "done" /\ status' # "scope"
    BY <2>2 DEF Truncations
  <2> QED BY <1>1, <1>3, <1>7, <2>1, <2>2, <2>3 DEF ScanTypes
<1>9. BoundsInv'
  <2>1. IsFiniteSet(recorded') /\ recorded' \subseteq skipped' /\ Cardinality(recorded') <= limits.maxSkippedRecords
    BY <1>1, <1>2, SkippingIsBounded DEF BoundsInv, ScanIsBounded
  <2> QED BY <1>1, <2>1 DEF BoundsInv, ScanIsBounded
<1>10. ScopeInv'
  <2>1. Walks
    BY <1>1 DEF Walks
  <2>2. ASSUME NEW r \in scope.roots, NEW p \in unread' PROVE ~Below(r, p)
    <3>1. CASE unread' = EntriesIn(dir)
      <4>1. /\ r \in Seq(Nat) /\ r # dir /\ ~Below(r, dir) /\ p \in Seq(Nat)
            /\ Len(p) = Len(dir) + 1 /\ Below(dir, p)
        BY <1>1, <1>4, <1>6, <2>1, <2>2, <3>1, TreeFacts DEF ScopeInv
      <4>2. SUFFICES ASSUME Below(r, p) PROVE FALSE
        OBVIOUS
      <4>3. Len(r) <= Len(dir)
        BY <1>6, <4>1, <4>2, BelowIsPrefix
      <4> QED BY <1>6, <4>1, <4>2, <4>3, BelowIsTransitive
    <3> QED BY <1>1, <1>2, <2>2, <3>1
  <2>3. ListedFiles' = ListedFiles
    BY <1>1 DEF ListedFiles
  <2> QED BY <1>1, <1>4, <2>1, <2>2, <2>3 DEF ScopeInv, Below
<1>11. CoverInv'
  <2>1. ListedFiles' = ListedFiles /\ \A p \in ListedFiles : Verdict(p)' = "list"
    BY <1>1, SameVerdicts DEF ListedFiles, CoverInv, Walks
  <2>2. ASSUME NEW p \in DOMAIN repository, status' \in {"walking", "reading", "done"} PROVE Covered(p)'
    <3>1. Covered(p)
      BY <1>1 DEF CoverInv
    <3>2. skipped \subseteq skipped'
      BY <1>2 DEF Skipping
    <3>3. ASSUME NEW q \in DOMAIN repository, NEW n \in 0..Len(q) - 1, Upto(q, n) = dir PROVE Covered(q)'
      <4>1. q \in Seq(Nat) /\ Len(q) \in Nat /\ n + 1 \in 1..Len(q) /\ n \in 0..Len(q)
        BY <1>1, TreeFacts
      <4>2. CASE unread' = EntriesIn(dir)
        BY <1>6, <3>3, <4>1, <4>2 DEF Covered, Upto
      <4>3. CASE dir # Root /\ Skipping(dir, "unreadable")
        <5>1. n # 0
          BY <3>3, <4>1, <4>3, Prefixes
        <5>2. n \in 1..Len(q)
          BY <4>1, <5>1
        <5>3. [path |-> dir, reason |-> "unreadable"] \in skipped'
          BY <4>3 DEF Skipping
        <5> QED BY <3>3, <5>2, <5>3 DEF Covered, IsSkipped, Upto
      <4> QED BY <1>2, <2>2, <4>2, <4>3
    <3> QED BY <1>1, <1>4, <2>1, <3>1, <3>2, <3>3, CoverStep
  <2> QED BY <1>1, <2>1, <2>2 DEF CoverInv
<1> QED BY <1>8, <1>9, <1>10, <1>11 DEF ScanInv

LEMMA ReadEntryKeeps == ASSUME ScanAssumption, ScanInv, NEW e \in unread, ReadEntry(e) PROVE ScanInv'
<1>1. /\ UNCHANGED <<repository, limits, config, override>> /\ UNCHANGED <<scope, stack>>
      /\ status = "reading" /\ unread' = unread \ {e}
      /\ ScanTypes /\ BoundsInv /\ ScopeInv /\ CoverInv /\ Walks
  BY DEF ReadEntry, inputVars, ScanInv, Walks
<1>2. \/ /\ Verdict(e) = "descend" /\ children' = Append(children, e)
         /\ UNCHANGED <<files, totalBytes, skipped, recorded, status>>
      \/ Verdict(e) = "list" /\ ListFile(e) /\ UNCHANGED <<children, skipped, recorded>>
      \/ /\ Verdict(e) \notin {"descend", "list"} /\ Skipping(e, Verdict(e))
         /\ UNCHANGED <<children, files, totalBytes, status>>
  BY DEF ReadEntry
<1>3. /\ e \in DOMAIN repository /\ e # Root /\ unread' \subseteq DOMAIN repository
      /\ children \in Seq(DOMAIN repository) /\ files \in Seq(DOMAIN repository)
      /\ repository[e].size \in Nat
  BY <1>1, TreeFacts DEF ScanTypes
<1>4. \/ status' = "reading" /\ files' = Append(files, e) /\ totalBytes' = totalBytes + repository[e].size
         /\ Len(files) + 1 <= limits.maxFiles /\ totalBytes' <= limits.maxTotalBytes /\ Verdict(e) = "list"
      \/ status' \in Truncations /\ UNCHANGED <<files, totalBytes>> /\ Verdict(e) = "list"
      \/ status' = "reading" /\ UNCHANGED <<files, totalBytes>> /\ Verdict(e) # "list"
  <2>1. CASE Verdict(e) = "list" /\ ListFile(e)
    <3>1. /\ status' = Stop(e)
          /\ Stop(e) = "reading" => files' = Append(files, e) /\ totalBytes' = totalBytes + repository[e].size
          /\ Stop(e) # "reading" => UNCHANGED <<files, totalBytes>>
      BY <2>1 DEF ListFile
    <3>2. /\ Len(files) \in Nat /\ limits.maxFiles \in Nat /\ limits.maxTotalBytes \in Nat /\ totalBytes \in Nat
      BY <1>1, <1>3, TreeFacts DEF BoundsInv
    <3>3. /\ Stop(e) = "reading" => /\ Len(files) + 1 <= limits.maxFiles
                                    /\ totalBytes + repository[e].size <= limits.maxTotalBytes
          /\ Stop(e) # "reading" => Stop(e) \in Truncations
      BY <1>3, <3>2 DEF Stop, Truncations
    <3> QED BY <2>1, <3>1, <3>3
  <2> QED BY <1>1, <1>2, <2>1
<1>5. children' = children \/ (children' = Append(children, e) /\ Verdict(e) = "descend")
  BY <1>2
<1>6. /\ children' \in Seq(DOMAIN repository) /\ files' \in Seq(DOMAIN repository)
      /\ Members(children') \in {Members(children), Members(children) \cup {e}}
      /\ children' # children => Members(children') = Members(children) \cup {e}
      /\ Members(files') \in {Members(files), Members(files) \cup {e}}
      /\ files' # files => Members(files') = Members(files) \cup {e} /\ Verdict(e) = "list"
  <2>1. /\ Append(children, e) \in Seq(DOMAIN repository) /\ Append(files, e) \in Seq(DOMAIN repository)
        /\ Members(Append(children, e)) = Members(children) \cup {e}
        /\ Members(Append(files, e)) = Members(files) \cup {e}
    BY <1>3, MembersAre
  <2>2. files' = files \/ (files' = Append(files, e) /\ Verdict(e) = "list")
    BY <1>4
  <2>3. children' = children => Members(children') = Members(children)
    OBVIOUS
  <2>4. files' = files => Members(files') = Members(files)
    OBVIOUS
  <2> QED BY <1>3, <1>5, <2>1, <2>2, <2>3, <2>4
<1>7. /\ Pending' = Pending \/ (Pending' = Pending \cup {e} /\ Verdict(e) = "descend")
      /\ ListedFiles' = ListedFiles \/ (ListedFiles' = ListedFiles \cup {e} /\ Verdict(e) = "list")
  <2>1. ListedFiles = Members(files) /\ ListedFiles' = Members(files')
    BY DEF ListedFiles, Members
  <2>2. Members(stack') = Members(stack)
    BY <1>1
  <2> QED BY <1>5, <1>6, <2>1, <2>2 DEF Pending
<1>8. ScanTypes'
  <2>1. \A p \in Pending' : IsDirectory(p)'
    <3>1. Verdict(e) = "descend" => IsDirectory(e)
      BY <1>3, Verdicts
    <3> QED BY <1>1, <1>7, <3>1, SameVerdicts DEF ScanTypes
  <2>2. status' \in {"reading"} \cup Truncations
    BY <1>4
  <2> QED BY <1>1, <1>3, <1>6, <2>1, <2>2 DEF ScanTypes, Truncations
<1>9. BoundsInv'
  <2>1. IsFiniteSet(recorded') /\ recorded' \subseteq skipped' /\ Cardinality(recorded') <= limits.maxSkippedRecords
    BY <1>1, <1>2, SkippingIsBounded DEF BoundsInv, ScanIsBounded
  <2>2. totalBytes' \in Nat /\ totalBytes' <= limits.maxTotalBytes /\ Len(files') <= limits.maxFiles
    <3>1. totalBytes \in Nat /\ totalBytes <= limits.maxTotalBytes /\ Len(files) <= limits.maxFiles
      BY <1>1 DEF BoundsInv, ScanIsBounded
    <3> QED BY <1>3, <1>4, <3>1
  <2> QED BY <1>1, <2>1, <2>2 DEF BoundsInv, ScanIsBounded
<1>10. ScopeInv'
  <2>1. \A r \in scope.roots : ~Below(r, e) /\ (Verdict(e) = "descend" => e # r)
    BY <1>1, <1>3, Verdicts DEF ScopeInv
  <2>2. \A r \in scope.roots : /\ \A p \in Pending' : p # r /\ ~Below(r, p)
                               /\ \A p \in unread' \cup ListedFiles' : ~Below(r, p)
    BY <1>1, <1>7, <2>1 DEF ScopeInv
  <2> QED BY <1>1, <2>2 DEF ScopeInv, Below
<1>11. CoverInv'
  <2>1. \A p : Verdict(p)' = Verdict(p)
    BY <1>1, SameVerdicts
  <2>2. \A p \in ListedFiles' : Verdict(p)' = "list"
    BY <1>1, <1>7, <2>1 DEF CoverInv
  <2>3. ASSUME NEW p \in DOMAIN repository, status' \in {"walking", "reading", "done"} PROVE Covered(p)'
    <3>1. Covered(p)
      BY <1>1 DEF CoverInv
    <3>2. status' = "reading"
      BY <1>4, <2>3 DEF Truncations
    <3>3. skipped \subseteq skipped' /\ ListedFiles \subseteq ListedFiles' /\ Pending \subseteq Pending'
      BY <1>2, <1>7 DEF Skipping
    <3>4. ASSUME NEW q \in DOMAIN repository, NEW n \in 1..Len(q), Upto(q, n) = e PROVE Covered(q)'
      <4>1. q \in Seq(Nat) /\ Len(q) \in Nat /\ (n = Len(q) => e = q) /\ (n # Len(q) => n \in 0..Len(q) - 1)
        <5>1. q \in Seq(Nat) /\ Len(q) \in Nat
          BY <1>1, TreeFacts
        <5>2. Upto(q, Len(q)) = q
          BY <5>1, Prefixes
        <5> QED BY <3>4, <5>1, <5>2
      <4>2. CASE Verdict(e) = "descend"
        <5>1. e \in Pending'
          <6>1. children' = Append(children, e)
            BY <1>2, <4>2
          <6>2. Members(children') = Members(children) \cup {e}
            BY <1>3, <6>1, MembersAre
          <6> QED BY <6>2 DEF Pending
        <5> QED BY <2>1, <3>4, <4>1, <4>2, <5>1 DEF Covered, Upto
      <4>3. CASE Verdict(e) = "list"
        <5>1. files' = Append(files, e)
          BY <1>4, <3>2, <4>3 DEF Truncations
        <5>2. e \in ListedFiles'
          <6>1. Members(files') = Members(files) \cup {e}
            BY <1>3, <5>1, MembersAre
          <6> QED BY <6>1 DEF ListedFiles, Members
        <5>3. n = Len(q)
          <6>1. SUFFICES ASSUME n # Len(q) PROVE FALSE
            OBVIOUS
          <6>2. repository[e].kind = "directory"
            <7>1. n \in 1..Len(q) - 1
              BY <4>1, <6>1
            <7>2. repository[Upto(q, n)].kind = "directory"
              BY <1>1, <7>1, TreeFacts
            <7> QED BY <3>4, <7>2
          <6> QED BY <1>3, <4>3, <6>2, Verdicts
        <5> QED BY <4>1, <5>2, <5>3 DEF Covered
      <4>4. CASE Verdict(e) \notin {"descend", "list"}
        <5>1. [path |-> e, reason |-> Verdict(e)] \in skipped'
          BY <1>2, <4>4 DEF Skipping
        <5>2. IsSkipped(e)'
          BY <2>1, <4>4, <5>1 DEF IsSkipped
        <5> QED BY <3>4, <5>2 DEF Covered, Upto
      <4> QED BY <4>2, <4>3, <4>4
    <3> QED BY <1>1, <3>1, <3>3, <3>4, CoverStep
  <2> QED BY <1>1, <2>2, <2>3 DEF CoverInv
<1> QED BY <1>8, <1>9, <1>10, <1>11 DEF ScanInv

LEMMA CloseDirectoryKeeps == ASSUME ScanAssumption, ScanInv, CloseDirectory PROVE ScanInv'
<1>1. /\ UNCHANGED <<repository, limits, config, override>>
      /\ UNCHANGED <<scope, unread, files, totalBytes, skipped, recorded>>
      /\ stack' = children \o stack /\ children' = <<>> /\ unread = {}
      /\ status = "reading" /\ status' = "walking"
      /\ ScanTypes /\ BoundsInv /\ ScopeInv /\ CoverInv /\ Walks
  BY DEF CloseDirectory, Deeper, inputVars, ScanInv, Walks
<1>2. /\ stack \in Seq({Root} \cup DOMAIN repository) /\ children \in Seq({Root} \cup DOMAIN repository)
  BY <1>1 DEF ScanTypes
<1>3. stack' \in Seq({Root} \cup DOMAIN repository) /\ Pending' = Pending
  <2>1. Members(stack') = Members(children) \cup Members(stack) /\ Members(children') = {}
    <3>1. Members(children \o stack) = Members(children) \cup Members(stack)
      BY <1>2, MembersAre
    <3>2. Members(<<>>) = {}
      BY DEF Members
    <3> QED BY <1>1, <3>1, <3>2
  <2> QED BY <1>1, <1>2, <2>1 DEF Pending
<1>4. \A p : Verdict(p)' = Verdict(p) /\ IsDirectory(p)' = IsDirectory(p)
  BY <1>1, SameVerdicts
<1>5. ScanTypes'
  BY <1>1, <1>3, <1>4 DEF ScanTypes
<1>6. ListedFiles' = ListedFiles
  BY <1>1 DEF ListedFiles
<1>7. BoundsInv' /\ ScopeInv'
  BY <1>1, <1>3, <1>6 DEF BoundsInv, ScanIsBounded, ScopeInv, Below
<1>8. CoverInv'
  <2>1. ASSUME NEW p \in DOMAIN repository PROVE Covered(p)'
    <3>1. Covered(p)
      BY <1>1 DEF CoverInv
    <3> QED BY <1>1, <1>3, <1>6, <3>1, CoverStep
  <2> QED BY <1>1, <1>4, <1>6, <2>1 DEF CoverInv
<1> QED BY <1>5, <1>7, <1>8 DEF ScanInv

LEMMA ScanHolds == ASSUME ScanAssumption, ScanInv, [ScanNext]_scanVars PROVE ScanInv'
<1>1. CASE FinishWalk
  <2>1. /\ UNCHANGED <<repository, limits, config, override>>
        /\ UNCHANGED <<scope, stack, children, visited, unread, files, totalBytes, skipped, recorded>>
        /\ status = "walking" /\ status' = "done" /\ stack = <<>>
        /\ ScanTypes /\ BoundsInv /\ ScopeInv /\ CoverInv /\ Walks
    BY <1>1 DEF FinishWalk, inputVars, walkVars, ScanInv, Walks
  <2>2. Pending' = Pending /\ ListedFiles' = ListedFiles
    BY <2>1 DEF Pending, Members, ListedFiles
  <2>3. \A p : Verdict(p)' = Verdict(p) /\ IsDirectory(p)' = IsDirectory(p)
    BY <2>1, SameVerdicts
  <2>4. ScanTypes' /\ BoundsInv' /\ ScopeInv'
    BY <2>1, <2>2, <2>3 DEF ScanTypes, BoundsInv, ScanIsBounded, ScopeInv, Below
  <2>5. ASSUME NEW p \in DOMAIN repository PROVE Covered(p)'
    <3>1. Covered(p)
      BY <2>1 DEF CoverInv
    <3> QED BY <2>1, <2>2, <3>1, CoverStep
  <2> QED BY <2>1, <2>2, <2>3, <2>4, <2>5 DEF ScanInv, CoverInv
<1>2. CASE UNCHANGED scanVars
  <2>1. /\ UNCHANGED <<repository, limits, config, override>>
        /\ UNCHANGED <<scope, stack, children, visited, unread, files, totalBytes, skipped, recorded, status>>
    BY <1>2 DEF scanVars, inputVars, walkVars
  <2>2. Pending' = Pending /\ ListedFiles' = ListedFiles
    BY <2>1 DEF Pending, Members, ListedFiles
  <2>3. \A p : Verdict(p)' = Verdict(p) /\ IsDirectory(p)' = IsDirectory(p)
    BY <2>1, SameVerdicts
  <2>4. ScanTypes' /\ BoundsInv' /\ ScopeInv'
    BY <2>1, <2>2, <2>3 DEF ScanInv, ScanTypes, BoundsInv, ScanIsBounded, ScopeInv, Below, Walks
  <2>5. ASSUME NEW p \in DOMAIN repository, status \in {"walking", "reading", "done"} PROVE Covered(p)'
    <3>1. Covered(p)
      BY <2>5 DEF ScanInv, CoverInv
    <3> QED BY <2>1, <2>2, <3>1, CoverStep
  <2> QED BY <2>1, <2>2, <2>3, <2>4, <2>5 DEF ScanInv, CoverInv, Walks
<1> QED BY <1>1, <1>2, ReadScopeKeeps, OpenDirectoryKeeps, ReadEntryKeeps, CloseDirectoryKeeps DEF ScanNext

\* A scan that has ended has listed, entered or skipped whatever is in the tree.
LEMMA WholeAtEnd ==
    ASSUME ScanAssumption, ScanInv, status = "done", NEW p \in DOMAIN repository, p \notin ListedFiles,
           Verdict(p) # "descend"
    PROVE  \E n \in 1..Len(p) : IsSkipped(Upto(p, n))
<1>1. Covered(p) /\ Pending = {} /\ unread = {}
  BY DEF ScanInv, ScanTypes, CoverInv, Pending, Members
<1> QED BY <1>1 DEF Covered

\* A skip that left out a file of the project, or hides one in a listing that
\* leaves the fixture roots aside, is of one of the reasons that are told.
LEMMA SkipsAreTold ==
    ASSUME ScanAssumption, ScanInv, NEW p \in DOMAIN repository, NEW n \in 1..Len(p), IsSkipped(Upto(p, n)),
           n = Len(p) => OwnFile(p),
           \A k \in 1..Len(p) - 1 : p[k] \notin ExcludedNames
    PROVE  \/ \E s \in skipped : s.reason \in HidesSource
           \/ Upto(p, n) \in scope.roots /\ Below(Upto(p, n), p)
<1> DEFINE q == Upto(p, n)
<1>1. /\ p \in Seq(Nat) /\ Len(p) \in Nat /\ q \in DOMAIN repository /\ q # Root
      /\ Len(q) = n /\ q[n] = p[n] /\ Upto(p, Len(p)) = p /\ q \in Seq(Nat)
      /\ n # Len(p) => repository[q].kind = "directory"
  <2>1. ScanTypes
    BY DEF ScanInv
  <2>2. p \in Seq(Nat) /\ Len(p) \in Nat /\ q \in DOMAIN repository /\ (n # Len(p) => repository[q].kind = "directory")
    BY <2>1, TreeFacts
  <2>3. q \in Seq(Nat) /\ Len(q) = n /\ q[n] = p[n] /\ Upto(p, Len(p)) = p
    <3>1. n \in 0..Len(p) /\ n \in 1..n /\ Len(p) \in 0..Len(p)
      BY <2>2
    <3> QED BY <2>2, <3>1, Prefixes
  <2>4. q # Root
    BY <2>1, <2>2, TreeFacts
  <2> QED BY <2>2, <2>3, <2>4
<1>2. CASE [path |-> q, reason |-> "unreadable"] \in skipped
  BY <1>2 DEF HidesSource
<1>3. CASE [path |-> q, reason |-> Verdict(q)] \in skipped /\ Verdict(q) \notin {"descend", "list"}
  <2>1. SUFFICES ASSUME Verdict(q) \notin HidesSource PROVE q \in scope.roots /\ Below(q, p)
    BY <1>3
  <2>2. CASE n = Len(p)
    <3>1. q = p /\ OwnFile(p)
      BY <1>1, <2>2
    <3>2. repository[p].kind \in {"file", "vanishing"} /\ NameOf(p) \notin GeneratedNames \ LockfileNames
      BY <3>1 DEF OwnFile
    <3> QED BY <1>1, <1>3, <2>1, <3>1, <3>2, Verdicts DEF HidesSource
  <2>3. CASE n # Len(p)
    <3>1. repository[q].kind = "directory" /\ NameOf(q) \notin ExcludedNames
      BY <1>1, <2>3 DEF NameOf
    <3>2. q \in scope.roots
      BY <1>1, <1>3, <2>1, <3>1, Verdicts DEF HidesSource
    <3>3. Below(q, p)
      BY <1>1, <2>3, BelowIsPrefix
    <3> QED BY <3>2, <3>3
  <2> QED BY <2>2, <2>3
<1> QED BY <1>2, <1>3 DEF IsSkipped

LEMMA ScanInvAccounts == ASSUME ScanAssumption, ScanInv PROVE ScanAccountsForAll
<1>1. ScanTypes /\ BoundsInv /\ ScopeInv /\ CoverInv
  BY DEF ScanInv
<1>2. ScanIsBounded
  BY <1>1 DEF BoundsInv
<1>3. ScopeIsExact
  <2>1. Ended => Walks
    BY DEF Ended, Walks, Truncations
  <2>2. \A i \in DOMAIN files : files[i] \in ListedFiles
    BY DEF ListedFiles
  <2> QED BY <1>1, <2>1, <2>2 DEF ScopeIsExact, ScopeInv
<1>4. SilenceMeansWhole
  <2>1. SUFFICES ASSUME status = "done"
                 PROVE  /\ CompletenessFindings = {} => \A p \in DOMAIN repository : OwnFile(p) => p \in ListedFiles
                        /\ ListingIsComplete =>
                              \A p \in DOMAIN repository :
                                  (\A r \in scope.roots : ~Below(r, p) /\ p # r) =>
                                      /\ OwnFile(p) => p \in ListedFiles
                                      /\ repository[p].kind = "symlink"
                                            /\ (\A n \in 1..(Len(p) - 1) : p[n] \notin ExcludedNames)
                                          => [path |-> p, reason |-> "symlink"] \in recorded
    <3>1. status \in Truncations => CompletenessFindings # {} /\ ~ListingIsComplete
      BY DEF CompletenessFindings, ListingIsComplete
    <3> QED BY <2>1, <3>1 DEF SilenceMeansWhole, Ended
  <2>2. ASSUME NEW p \in DOMAIN repository, OwnFile(p), p \notin ListedFiles
        PROVE  \/ \E s \in skipped : s.reason \in HidesSource
               \/ \E r \in scope.roots : Below(r, p)
    <3>1. Verdict(p) # "descend" /\ \A k \in 1..Len(p) - 1 : p[k] \notin ExcludedNames
      <4>1. p # Root /\ repository[p].kind \in {"file", "vanishing"}
        BY <1>1, <2>2, TreeFacts DEF OwnFile
      <4> QED BY <2>2, <4>1, Verdicts DEF OwnFile
    <3>2. PICK n \in 1..Len(p) : IsSkipped(Upto(p, n))
      BY <2>1, <2>2, <3>1, WholeAtEnd
    <3> QED BY <2>2, <3>1, <3>2, SkipsAreTold
  <2>3. ASSUME CompletenessFindings = {}, NEW p \in DOMAIN repository, OwnFile(p) PROVE p \in ListedFiles
    <3> DEFINE fixtures == {q \in DOMAIN repository : /\ repository[q].kind \in {"file", "vanishing"}
                                                      /\ \E r \in scope.roots : Below(r, q)}
    <3>1. ~(scope.excludedFiles > 0) /\ \A s \in skipped : s.reason \notin HidesSource
      BY <2>3 DEF CompletenessFindings
    <3>2. scope.excludedFiles = Cardinality(fixtures)
      BY <1>1, <2>1 DEF ScopeInv, Walks
    <3>3. IsFiniteSet(fixtures)
      BY <1>1, TreeFacts, FS_Subset
    <3>4. fixtures = {}
      <4> HIDE DEF fixtures
      <4>1. Cardinality(fixtures) \in Nat
        BY <3>3, FS_CardinalityType
      <4>2. Cardinality(fixtures) = 0
        BY <3>1, <3>2, <4>1
      <4> QED BY <3>3, <4>2, FS_EmptySet
    <3>5. ~\E r \in scope.roots : Below(r, p)
      BY <2>3, <3>4 DEF OwnFile
    <3> QED BY <2>2, <2>3, <3>1, <3>5
  <2>4. ASSUME ListingIsComplete, NEW p \in DOMAIN repository, \A r \in scope.roots : ~Below(r, p) /\ p # r
        PROVE  /\ OwnFile(p) => p \in ListedFiles
               /\ repository[p].kind = "symlink" /\ (\A n \in 1..(Len(p) - 1) : p[n] \notin ExcludedNames)
                    => [path |-> p, reason |-> "symlink"] \in recorded
    <3>1. \A s \in skipped : s.reason \in LeftOutByDesign
      BY <2>4 DEF ListingIsComplete
    <3>2. \A s \in skipped : s.reason \notin HidesSource
      BY <3>1 DEF LeftOutByDesign, HidesSource
    <3>3. OwnFile(p) => p \in ListedFiles
      BY <2>2, <2>4, <3>2
    <3>4. ASSUME repository[p].kind = "symlink", \A n \in 1..(Len(p) - 1) : p[n] \notin ExcludedNames
          PROVE  [path |-> p, reason |-> "symlink"] \in recorded
      <4>1. Verdict(p) \in {"unsafe-name", "path-too-long", "symlink"}
        BY <1>1, <3>4, TreeFacts, Verdicts
      <4>2. p \notin ListedFiles /\ Verdict(p) # "descend"
        BY <1>1, <2>1, <4>1 DEF CoverInv, Walks
      <4>3. PICK n \in 1..Len(p) : IsSkipped(Upto(p, n))
        BY <2>1, <4>2, WholeAtEnd
      <4>4. n = Len(p)
        BY <2>4, <3>2, <3>4, <4>3, SkipsAreTold
      <4>5. Upto(p, n) = p
        BY <1>1, <4>4, TreeFacts, Prefixes
      <4>6. [path |-> p, reason |-> Verdict(p)] \in skipped /\ Verdict(p) \notin HidesSource
        BY <3>2, <4>3, <4>5 DEF IsSkipped, HidesSource
      <4>7. [path |-> p, reason |-> "symlink"] \in skipped
        BY <4>1, <4>6 DEF HidesSource
      <4>8. {s \in recorded : s.reason = "symlink"} = {s \in skipped : s.reason = "symlink"}
        BY <2>4 DEF ListingIsComplete
      <4> QED BY <4>7, <4>8
    <3> QED BY <3>3, <3>4
  <2> QED BY <2>3, <2>4
<1> QED BY <1>2, <1>3, <1>4 DEF ScanAccountsForAll

\* A scan that reports nothing left no file of the project out, keeps its limits
\* at every moment and accounts for its fixture scope exactly, whatever the tree,
\* the limits, the configuration and the override are (scanner.ts:192-302).
THEOREM ScanHidesNothing == ScanAssumption => (ScanSpec => []ScanAccountsForAll)
<1> SUFFICES ASSUME ScanAssumption PROVE ScanSpec => []ScanAccountsForAll
  OBVIOUS
<1>1. ScanInit => ScanInv
  BY ScanStarted
<1>2. ScanInv /\ [ScanNext]_scanVars => ScanInv'
  BY ScanHolds
<1>3. ScanInv => ScanAccountsForAll
  BY ScanInvAccounts
<1> QED BY <1>1, <1>2, <1>3, PTL DEF ScanSpec
=============================================================================
