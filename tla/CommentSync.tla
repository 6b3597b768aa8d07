---------------------------- MODULE CommentSync ----------------------------
(***************************************************************************)
(* The one maintained comment of a pull request: its two writers, a scan's *)
(* maintainComment in comments/state.ts and handleCommentEdited in         *)
(* comments/edited.ts, and the lock of comments/queue.ts they share.       *)
(*                                                                         *)
(* A writer is a process that queues up on the lock, reads, decides and    *)
(* writes in separate calls.  People comment and edit in between: the lock *)
(* holds back the app's own writers only.  Each edit leads to a delivery   *)
(* with the body before and after it, which arrives at any later time.     *)
(***************************************************************************)
EXTENDS Integers, Sequences

CONSTANTS
    Scans,         \* the finished analyses that maintain the comment
    HeadOfScan,    \* the head each of them analysed
    Edits,         \* the edits people make, also the handlers of their deliveries
    Maintainers,   \* the edits whose author is admin or maintain
    Listed,        \* comments a listing returns at most   (code: 2 pages of 100)
    MaxRemarks,    \* bound of the model: comments by people
    MayFail,       \* whether calls to GitHub may fail
    NoWriter       \* nobody

CommentAssumption ==
    /\ Scans \cap Edits = {} /\ NoWriter \notin Scans \cup Edits
    /\ Maintainers \subseteq Edits
    /\ Listed \in Nat \ {0}
    /\ MaxRemarks \in Nat
    /\ MayFail \in BOOLEAN

Writers == Scans \cup Edits

VARIABLES
    comments,   \* the pull request's comments, the oldest first
    open,       \* whether the pull request is open
    made,       \* per edit made: the comment, its body before and after
    stage,      \* where each writer is
    plan,       \* per scan, the comment to update, or 0 to create one
    tail,       \* the entry of the map "tails": whose turn is last, or NoWriter
    before,     \* per writer, whose turn it waits for
    released    \* the writers whose gate is open

lockVars == <<tail, before, released>>
commentVars == <<comments, open, made, stage, plan, lockVars>>

-----------------------------------------------------------------------------
(* A body: the head it was rendered for, the acknowledgements appended to   *)
(* it, whether its text is as rendered, ticked or otherwise changed, and    *)
(* whether the first line is still a marker.                                *)

Texts == {"clean", "ticked", "changed", "changed again"}
Render(s) == [of |-> HeadOfScan[s], notes |-> 0, text |-> "clean", mark |-> TRUE]

\* What a person can make of a body.
Edited(b) ==
    {[b EXCEPT !.text = IF b.text = "changed" THEN "changed again" ELSE "changed"],
     [b EXCEPT !.mark = FALSE]}
    \cup {[c EXCEPT !.text = "ticked"] : c \in {d \in {b} : d.text = "clean"}}

Ours(i) == comments[i].bot /\ comments[i].body.mark
Remark == [bot |-> FALSE, body |-> <<>>]

CommentInit ==
    /\ comments = <<>>
    /\ open = TRUE
    /\ made = <<>>
    /\ stage = [p \in Writers |-> "off"]
    /\ plan = [s \in Scans |-> 0]
    /\ tail = NoWriter
    /\ before = [p \in Writers |-> NoWriter]
    /\ released = {}

Goto(p, where) == stage' = [stage EXCEPT ![p] = where]
Give(i, body) == comments' = [comments EXCEPT ![i].body = body]

-----------------------------------------------------------------------------
(* People                                                                   *)

Say ==
    /\ Len(SelectSeq(comments, LAMBDA c : ~c.bot)) < MaxRemarks
    /\ comments' = Append(comments, Remark)
    /\ UNCHANGED <<open, made, stage, plan, lockVars>>

Edit(e) ==
    /\ e \notin DOMAIN made
    /\ \E i \in DOMAIN comments :
          /\ Ours(i)
          /\ \E b \in Edited(comments[i].body) :
                /\ Give(i, b)
                /\ made' = [d \in DOMAIN made \cup {e} |->
                              IF d = e THEN [id |-> i, from |-> comments[i].body, to |-> b]
                                       ELSE made[d]]
    /\ UNCHANGED <<open, stage, plan, lockVars>>

Close ==
    /\ open
    /\ open' = FALSE
    /\ UNCHANGED <<comments, made, stage, plan, lockVars>>

-----------------------------------------------------------------------------
(* withCommentLock                                                          *)

\* A writer puts itself behind the last one; with no entry it need not wait.
\* A delivery whose bodies do not both carry a marker is ignored before.
Arrive(p) ==
    /\ stage[p] = "off"
    /\ p \in Edits => p \in DOMAIN made
    /\ IF p \in Edits /\ ~(made[p].from.mark /\ made[p].to.mark)
       THEN Goto(p, "done") /\ UNCHANGED lockVars
       ELSE /\ Goto(p, "queued")
            /\ before' = [before EXCEPT ![p] = tail]
            /\ tail' = p
            /\ UNCHANGED released
    /\ UNCHANGED <<comments, open, made, plan>>

Enter(p) ==
    /\ stage[p] = "queued"
    /\ before[p] \in released \cup {NoWriter}
    /\ Goto(p, IF p \in Scans THEN "list" ELSE "read")
    /\ UNCHANGED <<comments, open, made, plan, lockVars>>

\* Slip: the entry is deleted although others queued up behind.
SlipLeaveLock(p) ==
    /\ stage[p] = "leave"
    /\ Goto(p, "done")
    /\ released' = released \cup {p}
    /\ tail' = NoWriter
    /\ UNCHANGED <<comments, open, made, plan, before>>

\* The finally: the gate opens, and the entry goes unless others wait.
LeaveLock(p) ==
    /\ stage[p] = "leave"
    /\ Goto(p, "done")
    /\ released' = released \cup {p}
    /\ tail' = IF tail = p THEN NoWriter ELSE tail
    /\ UNCHANGED <<comments, open, made, plan, before>>

-----------------------------------------------------------------------------
(* A scan: maintainCommentLocked                                            *)

\* The listing holds the oldest comments only.
Owned == {i \in DOMAIN comments : i <= Listed /\ Ours(i)}

\* Slip: a comment of the bot is found by its head.
SlipList(s) ==
    /\ stage[s] = "list"
    /\ LET found == {i \in Owned : comments[i].body.of = HeadOfScan[s]} IN
       \/ /\ found = {}
          /\ plan' = [plan EXCEPT ![s] = 0]
          /\ Goto(s, "write")
       \/ \E i \in found :
             /\ found = {i}
             /\ plan' = [plan EXCEPT ![s] = i]
             /\ Goto(s, IF comments[i].body = Render(s) THEN "leave" ELSE "write")
       \/ /\ \E i, j \in found : i # j
          /\ Goto(s, "leave") /\ UNCHANGED plan
    /\ UNCHANGED <<comments, open, made, lockVars>>

\* One comment of ours is updated unless it is the same; with none, one is
\* created; more are an ambiguity that is left alone.
List(s) ==
    /\ stage[s] = "list"
    /\ \/ /\ Owned = {}
          /\ plan' = [plan EXCEPT ![s] = 0]
          /\ Goto(s, "write")
       \/ \E i \in Owned :
             /\ Owned = {i}
             /\ plan' = [plan EXCEPT ![s] = i]
             /\ Goto(s, IF comments[i].body = Render(s) THEN "leave" ELSE "write")
       \/ /\ \E i, j \in Owned : i # j
          /\ Goto(s, "leave") /\ UNCHANGED plan
    /\ UNCHANGED <<comments, open, made, lockVars>>

Write(s) ==
    /\ stage[s] = "write"
    /\ IF plan[s] = 0
       THEN comments' = Append(comments, [bot |-> TRUE, body |-> Render(s)])
       ELSE Give(plan[s], Render(s))
    /\ Goto(s, "leave")
    /\ UNCHANGED <<open, made, plan, lockVars>>

-----------------------------------------------------------------------------
(* A delivery of an edit: handleCommentEditedLocked                         *)

\* Slip: the body the comment has now is not compared.
SlipLive(e) == open

Live(e) == open /\ comments[made[e].id].body = made[e].to

ReadComment(e) ==
    /\ stage[e] = "read"
    /\ Goto(e, IF Live(e) THEN "permission" ELSE "leave")
    /\ UNCHANGED <<comments, open, made, plan, lockVars>>

Permission(e) ==
    /\ stage[e] = "permission"
    /\ Goto(e, IF e \in Maintainers THEN "reread" ELSE "leave")
    /\ UNCHANGED <<comments, open, made, plan, lockVars>>

Reread(e) ==
    /\ stage[e] = "reread"
    /\ Goto(e, IF Live(e) THEN "restore" ELSE "leave")
    /\ UNCHANGED <<comments, open, made, plan, lockVars>>

\* checkboxOnlyDiff: nothing but ticks.
OnlyTicks(e) == made[e].from.text = "clean" /\ made[e].to.text = "ticked"

\* The body before the edit is put back; ticks are acknowledged below it.
Restore(e) ==
    /\ stage[e] = "restore"
    /\ Give(made[e].id, IF OnlyTicks(e) THEN [made[e].from EXCEPT !.notes = @ + 1]
                                        ELSE made[e].from)
    /\ Goto(e, "leave")
    /\ UNCHANGED <<open, made, plan, lockVars>>

\* Slip: a call that fails ends the writer where it is.
SlipFail(p) ==
    /\ MayFail
    /\ stage[p] \in {"list", "write", "read", "permission", "reread", "restore"}
    /\ Goto(p, "done")
    /\ UNCHANGED <<comments, open, made, plan, lockVars>>

\* A call to GitHub fails: whatever it was for, the writer leaves the lock.
Fail(p) ==
    /\ MayFail
    /\ stage[p] \in {"list", "write", "read", "permission", "reread", "restore"}
    /\ Goto(p, "leave")
    /\ UNCHANGED <<comments, open, made, plan, lockVars>>

WriterStep(p) ==
    \/ Enter(p)
    \/ p \in Scans /\ (List(p) \/ Write(p))
    \/ p \in Edits /\ (ReadComment(p) \/ Permission(p) \/ Reread(p) \/ Restore(p))
    \/ Fail(p)
    \/ LeaveLock(p)

CommentNext ==
    \/ Say
    \/ Close
    \/ \E e \in Edits : Edit(e)
    \/ \E p \in Writers : Arrive(p) \/ WriterStep(p)

CommentSpec == CommentInit /\ [][CommentNext]_commentVars

\* GitHub answers or fails.  Nobody has to edit, and no delivery has to come.
FairCommentSpec == CommentSpec /\ \A p \in Writers : WF_commentVars(WriterStep(p))

-----------------------------------------------------------------------------
(* Properties                                                              *)

Outside == {"off", "queued", "done"}
Inside == {"list", "write", "read", "permission", "reread", "restore", "leave"}
Bodies == [of : {HeadOfScan[s] : s \in Scans}, notes : Nat, text : Texts, mark : BOOLEAN]

CommentTypeOK ==
    /\ comments \in Seq({Remark} \cup [bot : {TRUE}, body : Bodies])
    /\ open \in BOOLEAN
    /\ DOMAIN made \subseteq Edits
    /\ \A e \in DOMAIN made : made[e] \in [id : DOMAIN comments, from : Bodies, to : Bodies]
    /\ stage \in [Writers -> Outside \cup Inside]
    /\ plan \in [Scans -> 0..Len(comments)]
    /\ tail \in Writers \cup {NoWriter}
    /\ before \in [Writers -> Writers \cup {NoWriter}]
    /\ released \subseteq Writers

\* One writer at a time between its first read and its last write, although
\* the map forgets a queue that has run empty.
OneWriterInside ==
    \A p, q \in Writers : stage[p] \in Inside /\ stage[q] \in Inside => p = q

\* No two comments are the app's own.
OneMaintained ==
    \A i, j \in DOMAIN comments : Ours(i) /\ Ours(j) => i = j

\* The writers take turns and the pull request keeps one maintained comment,
\* "exactly one GhostDeps comment per PR" (comments/state.ts), whatever fails
\* and however scans and edits interleave, as long as a listing reaches it.
OneComment == OneWriterInside /\ OneMaintained

\* Only a scan changes which commit the comment reports on: a delivery that
\* comes late never puts the report of an earlier scan back over a later one.
OnlyScansMoveOn ==
    [][\A i \in DOMAIN comments :
          comments[i].bot /\ comments'[i].body.of # comments[i].body.of
              => \E s \in Scans : Write(s)]_commentVars

\* What these rest on.  The writers that came and have not gone wait for each
\* other in a chain: one of them waits for nobody, each other one for one of
\* them, no two for the same, nobody for the last, and never in a circle.
Here == {p \in Writers : stage[p] = "queued" \/ stage[p] \in Inside}
IsFree(p) == before[p] \in released \cup {NoWriter}
LockInv ==
    /\ \A p \in released : stage[p] = "done"
    /\ tail \in Here \/ (tail = NoWriter /\ Here = {})
    /\ \A p \in Here : before[p] \in Here \cup released \cup {NoWriter} /\ before[p] # tail
    /\ \A p, q \in Here : (IsFree(p) /\ IsFree(q)) \/ (before[p] = before[q] /\ ~IsFree(p)) => p = q
    /\ \A S \in SUBSET Here : S # {} => \E p \in S : before[p] \notin S
    /\ \A p \in Writers : stage[p] \in Inside => IsFree(p)

\* Edits are of the app's comments and keep the head; a writer in the lock has
\* the comment it read, of the head it read.
EditsAreOfOurs ==
    \A e \in DOMAIN made :
        LET kept == comments[made[e].id]
        IN  /\ kept.bot /\ made[e].from.of = made[e].to.of
            /\ stage[e] \in {"queued"} \cup Inside => made[e].to.mark
            /\ stage[e] = "restore" => kept.body.of = made[e].from.of
WritersKnowTheirComment ==
    /\ \A s \in Scans : stage[s] = "write" /\ plan[s] # 0 =>
          plan[s] \in DOMAIN comments /\ comments[plan[s]].bot
    /\ \A e \in Edits : stage[e] # "off" => e \in DOMAIN made
SyncInv == CommentTypeOK /\ LockInv /\ EditsAreOfOurs /\ WritersKnowTheirComment

\* As long as a listing reaches the maintained comment, whoever is about to
\* write will write to it, or there is none.
InReach == \A i \in DOMAIN comments : Ours(i) => i <= Listed
WritersWriteToOurs ==
    /\ \A s \in Scans : stage[s] = "write" => \A i \in DOMAIN comments : Ours(i) => i = plan[s]
    /\ \A e \in Edits : stage[e] = "restore" => \A i \in DOMAIN comments : Ours(i) => i = made[e].id

\* Every writer gets the lock and gives it back, also when its calls fail: no
\* writer that came stays.
WritersFinish == <>[](\A p \in Writers : stage[p] \in {"off", "done"})
=============================================================================
