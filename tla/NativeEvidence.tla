--------------------------- MODULE NativeEvidence ---------------------------
(***************************************************************************)
(* From a snapshot to a native-replacement finding while the directory     *)
(* changes: evaluateNativeProduction of the JavaScript adapter and, of     *)
(* packages/core, native-rules/snapshot.ts with the reads and checks of    *)
(* deployment.ts, matched-api.ts, incompatible.ts, semantic.ts, seal.ts    *)
(* and policy.ts.                                                          *)
(*                                                                         *)
(* A content is [mark, supports]: whether a check that reads it finds what *)
(* the rule asks for (NativeCitations, NativePatterns, NativeFlows and     *)
(* NativeEnvelope say when).  An entry is a content with the stamp that    *)
(* stands for size, time and inode: a write gives another stamp.  A        *)
(* listing is one step, and may be incomplete.                             *)
(***************************************************************************)
EXTENDS Absent, Integers, Sequences

CONSTANTS
    Manifest, Targets, Sources,   \* package.json, ghostdeps.targets.json, the scripts
    Order,                        \* all of them, as a listing sorts them
    InitialTrees,
    Candidates,                   \* how many pairs of a dependency and a rule
    Recurring,                    \* may a file be again what it was before?
    MaxChanges                    \* bound: changes of the directory

VARIABLES
    tree,        \* path -> entry, None where there is no file
    changes,
    gone,        \* the paths where there has been no file
    listed,      \* the files when the handle was opened
    snapshot,    \* path -> content, as hashed first; None before and when blocked
    candidate, stage, step,
    check,       \* the calculation of a digest that is under way: [listing, read]
    own,         \* the listing a check of evidence reads by: None before
    seen,        \* path -> content it has read
    view,        \* path -> content the adapter has inspected
    blocked,     \* the stages that refused, for this candidate
    evaluations  \* the outcome of each candidate so far

directoryVars == <<tree, changes, gone, listed>>
pillarVars == <<own, seen, view>>
vars == <<directoryVars, snapshot, candidate, stage, step, check, pillarVars, blocked, evaluations>>

Paths == {Manifest, Targets} \cup Sources
Contents == [mark : Nat, supports : BOOLEAN]
Entries == [content : Contents, stamp : Nat]
\* None is none of the values it is compared with.
EvidenceAssumption ==
    /\ Candidates \in Nat \ {0}
    /\ InitialTrees \subseteq [Paths -> [content : [mark : {0}, supports : BOOLEAN], stamp : {0}] \cup {None}]
    /\ None \notin Contents /\ None \notin Entries
    /\ \A P \in SUBSET Paths : None \notin [P -> Contents] /\ None \notin [P -> Entries]
    /\ \A P, Q \in SUBSET Paths : None \notin [listing : [P -> Entries], read : [Q -> Contents]]
Nothing == [p \in {} |-> None]
Listing == [p \in {q \in Paths : tree[q] # None} |-> tree[p]]
\* The first of some paths, as a listing sorts them.
IsFirst(p, S) == \E i \in DOMAIN Order : Order[i] = p /\ \A j \in 1..i - 1 : Order[j] \notin S
Extended(f, p, value) == [q \in DOMAIN f \cup {p} |-> IF q = p THEN value ELSE f[q]]

\* What each stage does, in order: a digest, a listing, reads, or an inspection by the adapter.
Steps(of) ==
    CASE of = "mint"                                  -> <<"check">>
      [] of \in {"scan", "patterns", "flows"}         -> <<"inspect">>
      [] of = "deployment"                            -> <<"check", "declared">>
      [] of \in {"matched", "incompatible", "semantic", "seal"} -> <<"check", "list", "read", "check">>
      [] of = "policy"                                -> <<"check", "check">>
Stages == <<"scan", "deployment", "matched", "patterns", "incompatible", "flows", "semantic", "seal", "policy">>
Pillars == {"deployment", "matched", "incompatible", "semantic"}
Doing == Steps(stage)[step]
Produced == {c \in DOMAIN evaluations : evaluations[c] = "produced"}

Init ==
    /\ tree \in InitialTrees /\ changes = 0
    /\ gone = {p \in Paths : tree[p] = None} /\ listed = DOMAIN Listing
    /\ snapshot = None /\ candidate = 1 /\ stage = "mint" /\ step = 1
    /\ check = None /\ own = None /\ seen = Nothing /\ view = Nothing
    /\ blocked = {} /\ evaluations = <<>>

-----------------------------------------------------------------------------
(* The directory changes                                                   *)

FirstContents(p) == {t[p].content : t \in {u \in InitialTrees : u[p] # None}}
NewContents(p) ==
    [mark : {changes + 1}, supports : BOOLEAN] \cup (IF Recurring THEN FirstContents(p) ELSE {})
Change(p) ==
    /\ stage # "done" /\ changes < MaxChanges
    /\ changes' = changes + 1
    /\ \/ /\ \E c \in NewContents(p) : tree' = [tree EXCEPT ![p] = [content |-> c, stamp |-> changes + 1]]
          /\ UNCHANGED gone
       \/ /\ tree[p] # None /\ (Recurring \/ p \notin gone)
          /\ tree' = [tree EXCEPT ![p] = None] /\ gone' = gone \cup {p}
    /\ UNCHANGED <<listed, snapshot, candidate, stage, step, check, pillarVars, blocked, evaluations>>

-----------------------------------------------------------------------------
(* Which stage is next, and what becomes of a candidate                    *)

\* The next step of the stage, with what refused so far.
Continue(refused) == /\ blocked' = blocked \cup refused
                     /\ step' = step + 1
                     /\ UNCHANGED <<candidate, stage, snapshot, evaluations>>
Position(of) == CHOOSE i \in DOMAIN Stages : Stages[i] = of
NextStage(refused) ==
    /\ blocked' = blocked \cup refused
    /\ stage' = Stages[Position(stage) + 1] /\ step' = 1
    /\ UNCHANGED <<candidate, snapshot, evaluations>>
Evaluated(outcome) ==
    /\ evaluations' = Append(evaluations, outcome)
    /\ candidate' = candidate + 1
    /\ stage' = IF candidate = Candidates THEN "done" ELSE "scan"
    /\ step' = 1 /\ blocked' = {}
    /\ UNCHANGED snapshot
\* Slip: the envelope is sealed when the seal itself does not refuse.
SlipLeaveStage(refused) ==
    IF stage = "policy" THEN Evaluated(IF refused = {} THEN "produced" ELSE "blocked")
    ELSE IF stage = "seal" /\ refused # {} THEN Evaluated("blocked")
    ELSE NextStage(refused)
\* The envelope is sealed only when no stage refused.
LeaveStage(refused) ==
    IF stage = "policy" THEN Evaluated(IF refused = {} THEN "produced" ELSE "blocked")
    ELSE IF stage = "seal" /\ blocked \cup refused # {} THEN Evaluated("blocked")
    ELSE NextStage(refused)
Ends == step = Len(Steps(stage))

-----------------------------------------------------------------------------
(* mintNativeSnapshot and verifyNativeSnapshot                             *)

StartCheck ==
    /\ stage # "done" /\ Doing = "check" /\ check = None
    /\ check' = [listing |-> Listing, read |-> Nothing]
    /\ UNCHANGED <<directoryVars, snapshot, candidate, stage, step, pillarVars, blocked, evaluations>>

\* Without a snapshot every candidate is blocked at once.
Unminted ==
    /\ evaluations' = [c \in 1..Candidates |-> "blocked"]
    /\ candidate' = Candidates + 1 /\ stage' = "done" /\ step' = 1
    /\ UNCHANGED <<snapshot, blocked>>
\* A digest that fails: deployment and seal go on and remember it, the others return.
Refused ==
    CASE stage = "mint"                       -> Unminted
      [] stage = "deployment"                 -> Continue({stage})
      [] stage = "seal" /\ step = 1           -> blocked' = blocked \cup {stage} /\ step' = Len(Steps(stage))
                                                   /\ UNCHANGED <<candidate, stage, snapshot, evaluations>>
      [] OTHER                                -> LeaveStage({stage})
CheckFails ==
    /\ check' = None /\ own' = None /\ seen' = Nothing
    /\ Refused
    /\ UNCHANGED <<directoryVars, view>>

Unread(reads) == DOMAIN reads.listing \ DOMAIN reads.read
\* Each file is read by its listed identity, and fails when it has another.
CheckRead ==
    /\ check # None
    /\ \E p \in Unread(check) :
        /\ IsFirst(p, Unread(check))
        /\ IF tree[p] # check.listing[p] THEN CheckFails
           ELSE /\ check' = [check EXCEPT !.read = Extended(@, p, tree[p].content)]
                /\ UNCHANGED <<directoryVars, snapshot, candidate, stage, step, pillarVars, blocked, evaluations>>

IsVerified(calculated) ==
    /\ calculated.listing = Listing
    /\ stage = "mint" \/ calculated.read = snapshot
CheckEnds ==
    /\ check # None /\ Unread(check) = {}
    /\ IF ~IsVerified(check) THEN CheckFails
       ELSE /\ check' = None
            /\ IF stage = "mint"
               THEN snapshot' = check.read /\ stage' = "scan" /\ step' = 1 /\ UNCHANGED <<candidate, blocked, evaluations>>
               ELSE IF Ends THEN LeaveStage({}) ELSE Continue({})
            /\ own' = None /\ seen' = Nothing
            /\ UNCHANGED <<directoryVars, view>>
\* The listing or a read fails for another reason: a limit, a name, a link.
CheckIsCut == check # None /\ CheckFails

-----------------------------------------------------------------------------
(* The adapter reads what the handle lists, whatever is there now          *)

Uninspected == (listed \cap Sources) \ DOMAIN view
Inspect ==
    /\ stage # "done" /\ Doing = "inspect"
    /\ IF Uninspected = {}
       THEN /\ \/ NextStage({})
               \/ stage = "scan" /\ Evaluated("no-verdict")   \* no use of the package
               \/ Evaluated("blocked")                        \* the inspection throws
            /\ view' = IF stage' = "incompatible" THEN view ELSE Nothing
       ELSE \E p \in Uninspected :
                /\ IsFirst(p, Uninspected)
                /\ view' = Extended(view, p, IF tree[p] = None THEN None ELSE tree[p].content)
                /\ UNCHANGED <<candidate, stage, step, snapshot, blocked, evaluations>>
    /\ UNCHANGED <<directoryVars, check, own, seen>>

-----------------------------------------------------------------------------
(* The reads of each stage, judged by what they find                       *)

\* deployment.ts reads the targets once, after its only digest.
ReadTargets ==
    /\ stage # "done" /\ Doing = "declared"
    /\ LET good == Targets \in listed /\ tree[Targets] # None /\ tree[Targets].content.supports
       IN  LeaveStage(IF good THEN {} ELSE {stage})
    /\ UNCHANGED <<directoryVars, check, pillarVars>>

Enumerate ==
    /\ stage # "done" /\ Doing = "list"
    /\ \/ own' = Listing /\ seen' = Nothing /\ Continue({}) /\ UNCHANGED view
       \/ /\ own' = None /\ seen' = Nothing /\ view' = Nothing   \* incomplete
          /\ IF stage = "seal" THEN blocked' = blocked \cup {stage} /\ step' = Len(Steps(stage)) /\ UNCHANGED <<candidate, stage, snapshot, evaluations>>
             ELSE LeaveStage({stage})
    /\ UNCHANGED <<directoryVars, check>>

Cited == IF stage = "seal" THEN {Manifest} ELSE Sources
Unseen == Cited \ DOMAIN seen
\* incompatible.ts also wants the adapter to have inspected the same files and bytes.
Convinced ==
    /\ \A p \in DOMAIN seen : seen[p] # None => seen[p].supports
    /\ stage = "seal" => seen[Manifest] # None
    /\ stage = "incompatible" =>
          /\ listed \cap Sources = DOMAIN own \cap Sources
          /\ \A p \in DOMAIN own \cap Sources : seen[p] = view[p]
\* A file that is not listed or not as listed gives no bytes.
ReadCited ==
    /\ stage # "done" /\ Doing = "read"
    /\ IF Unseen = {}
       THEN /\ Continue(IF Convinced /\ \A p \in DOMAIN own \cap Cited : seen[p] # None THEN {} ELSE {stage})
            /\ own' = None /\ seen' = Nothing /\ view' = Nothing
       ELSE \E p \in Unseen :
                /\ IsFirst(p, Unseen)
                /\ seen' = Extended(seen, p, IF p \in DOMAIN own /\ tree[p] = own[p] THEN tree[p].content ELSE None)
                /\ UNCHANGED <<own, view, candidate, stage, step, snapshot, blocked, evaluations>>
    /\ UNCHANGED <<directoryVars, check>>

-----------------------------------------------------------------------------
Terminated == stage = "done" /\ UNCHANGED vars
Next ==
    \/ \E p \in Paths : Change(p)
    \/ StartCheck \/ CheckRead \/ CheckEnds \/ CheckIsCut
    \/ Inspect \/ ReadTargets \/ Enumerate \/ ReadCited
    \/ Terminated
Spec == Init /\ [][Next]_vars

-----------------------------------------------------------------------------
(* A finding speaks of one state of the tree: the one that was hashed first, that every check of evidence agreed   *)
(* with, and that the directory still has when the finding is made.                                                *)
FoundInTheSnapshot ==
    Produced' # Produced =>
        /\ \A p \in Paths : IF tree[p] = None THEN p \notin DOMAIN snapshot ELSE p \in DOMAIN snapshot /\ snapshot[p] = tree[p].content
        /\ \A p \in DOMAIN snapshot : snapshot[p].supports
        /\ {Manifest, Targets} \subseteq DOMAIN snapshot
FindingIsOfTheSnapshot == [][FoundInTheSnapshot]_vars
=============================================================================
