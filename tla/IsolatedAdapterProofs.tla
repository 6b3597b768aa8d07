----------------------- MODULE IsolatedAdapterProofs -----------------------
(***************************************************************************)
(* Proofs about module IsolatedAdapter, for every listing, number of       *)
(* lanes, set of capabilities, budgets and cap: what the main thread       *)
(* settles with never calls a usage analysis complete that lost an answer, *)
(* and a late stage costs no fact of an earlier one, however the thread's  *)
(* messages, its death, its timers and the watchdog interleave.            *)
(***************************************************************************)
EXTENDS IsolatedAdapter, SequenceTheorems, TLAPS

-----------------------------------------------------------------------------
(* Outcomes and messages                                                   *)

LEMMA OutcomesAreSomething ==
    ASSUME NEW o \in Outcomes PROVE o # None
<1>1. DOMAIN o # {"none"}
  BY DEF Outcomes
<1> QED BY <1>1 DEF None

LEMMA EmptyIsAnOutcome == EmptyOutcome \in Outcomes /\ EmptyOutcome.findings = {}
                          /\ EmptyOutcome.detected = FALSE /\ EmptyOutcome.usageAnalysed = FALSE
                          /\ EmptyOutcome.deps = 0 /\ EmptyOutcome.usages = {}
BY RunAssumption DEF EmptyOutcome, Outcomes

Findings == Stages \cup {"api", "cap", "run"}

LEMMA FindingIsAdded ==
    ASSUME NEW o \in Outcomes, NEW s \in Findings
    PROVE  /\ WithFinding(o, s) \in Outcomes
           /\ WithFinding(o, s).findings = o.findings \cup {s}
           /\ WithFinding(o, s).detected = o.detected /\ WithFinding(o, s).deps = o.deps
           /\ WithFinding(o, s).graph = o.graph /\ WithFinding(o, s).usages = o.usages
           /\ WithFinding(o, s).usageAnalysed = o.usageAnalysed
           /\ WithFinding(o, s).usageIncomplete = o.usageIncomplete
           /\ WithFinding(o, s).notes = o.notes
BY DEF WithFinding, Outcomes, Findings

LEMMA SalvageIsAnOutcome ==
    ASSUME NEW o \in Outcomes, used \subseteq Deps
    PROVE  /\ Salvaged(o) \in Outcomes
           /\ Salvaged(o).findings = o.findings \cup {"usage"} /\ Salvaged(o).usages = used
           /\ Salvaged(o).detected = o.detected /\ Salvaged(o).deps = o.deps
           /\ Salvaged(o).graph = o.graph /\ Salvaged(o).usageAnalysed = o.usageAnalysed
           /\ Salvaged(o).notes = o.notes
<1> DEFINE w == WithFinding(o, "usage")
<1>1. w \in Outcomes /\ w.findings = o.findings \cup {"usage"} /\ w.detected = o.detected
      /\ w.deps = o.deps /\ w.graph = o.graph /\ w.usageAnalysed = o.usageAnalysed /\ w.notes = o.notes
  BY FindingIsAdded DEF Findings, Stages
<1> HIDE DEF w
<1>2. Salvaged(o) = [w EXCEPT !.usages = used, !.usageIncomplete = TRUE]
  BY DEF Salvaged, w
<1> QED BY <1>1, <1>2 DEF Outcomes

\* A list of usages that is cut loses the claim to be complete, and nothing else.
LEMMA CapKeepsFacts ==
    ASSUME NEW o \in Outcomes
    PROVE  /\ Capped(o) \in Outcomes
           /\ Capped(o) = o \/ (Capped(o).usageAnalysed = FALSE /\ "cap" \in Capped(o).findings)
           /\ o.findings \subseteq Capped(o).findings
           /\ Capped(o).findings \subseteq o.findings \cup {"cap"}
           /\ Capped(o).detected = o.detected /\ Capped(o).deps = o.deps
           /\ Capped(o).usages \subseteq o.usages
<1>1. CASE Cardinality(o.usages) <= MaxUsages
  BY <1>1 DEF Capped
<1>2. CASE ~(Cardinality(o.usages) <= MaxUsages)
  <2> DEFINE w == WithFinding(o, "cap")
             U == FirstUsages(o.usages)
  <2>1. w \in Outcomes /\ w.findings = o.findings \cup {"cap"} /\ w.detected = o.detected
        /\ w.deps = o.deps
    BY FindingIsAdded DEF Findings
  <2>2. U \subseteq o.usages /\ U \subseteq Deps
    BY DEF FirstUsages, Outcomes
  <2>3. Capped(o) = [w EXCEPT !.usages = U, !.usageAnalysed = FALSE, !.usageIncomplete = TRUE]
    BY <1>2 DEF Capped
  <2> HIDE DEF w, U
  <2> QED BY <2>1, <2>2, <2>3 DEF Outcomes
<1> QED BY <1>1, <1>2

LEMMA MessagesOfAType ==
    ASSUME NEW m \in Messages
    PROVE  /\ m.type \in {"stage", "usage-progress", "usage-start", "partial", "outcome", "run-error"}
           /\ m.type = "stage" => m.stage \in Stages /\ m = StageMsg(m.stage)
           /\ m.type = "usage-progress" => m.dep \in Deps
           /\ m.type \in {"usage-start", "partial", "outcome"} => m.outcome \in Outcomes
BY DEF Messages, StageMsg

-----------------------------------------------------------------------------
(* The messages on their way                                               *)

\* New messages go behind the old ones.
LEMMA PostedMessages ==
    ASSUME inbox \in Seq(Messages), InboxInv, UNCHANGED <<listed, beforeNotes>>,
           NEW msgs \in Seq(Messages), inbox' = inbox \o msgs,
           \A m \in Messages : IsTrue(m) => IsTrue(m)',
           \A k \in 1..Len(msgs) : IsTrue(msgs[k])',
           \A k \in 1..Len(msgs) :
              Knows(Needs(msgs[k])) \/ \E j \in 1..k - 1 : msgs[j].type = Needs(msgs[k])
    PROVE  InboxInv' /\ inbox' \in Seq(Messages)
<1>1. /\ inbox' \in Seq(Messages) /\ Len(inbox') = Len(inbox) + Len(msgs)
      /\ Len(inbox) \in Nat /\ Len(msgs) \in Nat
      /\ \A i \in 1..Len(inbox) : inbox'[i] = inbox[i] /\ inbox[i] \in Messages
      /\ \A k \in 1..Len(msgs) : inbox'[Len(inbox) + k] = msgs[k]
  <2>1. /\ Len(inbox) \in Nat /\ Len(msgs) \in Nat
        /\ \A i \in 1..Len(inbox) : inbox[i] \in Messages
    OBVIOUS
  <2>2. Len(inbox \o msgs) = Len(inbox) + Len(msgs) /\ inbox \o msgs \in Seq(Messages)
    BY ConcatProperties
  <2>3. \A i \in 1..Len(inbox) + Len(msgs) :
           (inbox \o msgs)[i] = IF i <= Len(inbox) THEN inbox[i] ELSE msgs[i - Len(inbox)]
    BY ConcatProperties
  <2>4. \A k \in 1..Len(msgs) : (inbox \o msgs)[Len(inbox) + k] = msgs[k]
    BY <2>1, <2>3
  <2> QED BY <2>1, <2>2, <2>3, <2>4
<1>2. \A i \in 1..Len(inbox') : i \in 1..Len(inbox) \/ \E k \in 1..Len(msgs) : i = Len(inbox) + k
  BY <1>1
<1>3. \A i \in 1..Len(inbox') : IsTrue(inbox[i])'
  <2> SUFFICES ASSUME NEW i \in 1..Len(inbox') PROVE IsTrue(inbox[i])'
    OBVIOUS
  <2>1. CASE i \in 1..Len(inbox)
    <3>1. IsTrue(inbox[i]) /\ inbox[i] \in Messages
      BY <1>1, <2>1 DEF InboxInv
    <3>2. PICK m \in Messages : m = inbox[i]
      BY <3>1
    <3>3. IsTrue(m)' /\ inbox'[i] = m
      BY <1>1, <2>1, <3>1, <3>2
    <3> QED BY <3>3 DEF IsTrue, BeforeNotes
  <2>2. CASE \E k \in 1..Len(msgs) : i = Len(inbox) + k
    <3>1. PICK k \in 1..Len(msgs) : i = Len(inbox) + k
      BY <2>2
    <3>2. IsTrue(msgs[k])' /\ inbox'[i] = msgs[k]
      BY <1>1, <3>1
    <3> QED BY <3>2 DEF IsTrue, BeforeNotes
  <2> QED BY <1>2, <2>1, <2>2
<1>4. \A i \in 1..Len(inbox') :
         Knows(Needs(inbox'[i])) \/ \E j \in 1..i - 1 : inbox'[j].type = Needs(inbox'[i])
  <2> SUFFICES ASSUME NEW i \in 1..Len(inbox')
               PROVE  Knows(Needs(inbox'[i])) \/ \E j \in 1..i - 1 : inbox'[j].type = Needs(inbox'[i])
    OBVIOUS
  <2>1. CASE i \in 1..Len(inbox)
    BY <1>1, <2>1 DEF InboxInv
  <2>2. CASE \E k \in 1..Len(msgs) : i = Len(inbox) + k
    <3>1. PICK k \in 1..Len(msgs) : i = Len(inbox) + k
      BY <2>2
    <3>2. CASE Knows(Needs(msgs[k]))
      BY <1>1, <3>1, <3>2
    <3>3. CASE \E j \in 1..k - 1 : msgs[j].type = Needs(msgs[k])
      <4>1. PICK j \in 1..k - 1 : msgs[j].type = Needs(msgs[k])
        BY <3>3
      <4>2. j \in 1..Len(msgs) /\ Len(inbox) + j \in 1..i - 1
        BY <1>1, <3>1
      <4> QED BY <1>1, <3>1, <4>1, <4>2
    <3> QED BY <3>2, <3>3
  <2> QED BY <1>2, <2>1, <2>2
<1> QED BY <1>1, <1>3, <1>4 DEF InboxInv, Knows

\* The first message is known to be true and to have what it needs.
LEMMA FirstMessage ==
    ASSUME inbox \in Seq(Messages), InboxInv, inbox # <<>>
    PROVE  /\ Head(inbox) \in Messages /\ IsTrue(Head(inbox)) /\ Knows(Needs(Head(inbox)))
           /\ Tail(inbox) \in Seq(Messages)
<1>1. Head(inbox) = inbox[1] /\ Head(inbox) \in Messages /\ Len(inbox) \in Nat \ {0}
      /\ Tail(inbox) \in Seq(Messages)
  BY HeadTailProperties
<1>2. Knows(Needs(inbox[1])) /\ IsTrue(inbox[1])
  BY <1>1 DEF InboxInv
<1> QED BY <1>1, <1>2

\* What the first message said is known once it is taken.
LEMMA TakenMessage ==
    ASSUME inbox \in Seq(Messages), InboxInv, inbox # <<>>, inbox' = Tail(inbox),
           \A m \in Messages : IsTrue(m) => IsTrue(m)',
           \A t \in {"nothing", "usage-start", "partial"} :
              Knows(t) \/ Head(inbox).type = t => Knows(t)'
    PROVE  InboxInv'
<1>1. /\ Head(inbox) = inbox[1] /\ Len(inbox) \in Nat \ {0}
      /\ Len(inbox') = Len(inbox) - 1
      /\ \A i \in 1..Len(inbox') : inbox'[i] = inbox[i + 1] /\ inbox[i + 1] \in Messages
  BY HeadTailProperties
<1>2. \A i \in 1..Len(inbox') : i + 1 \in 1..Len(inbox)
  BY <1>1
<1>3. \A i \in 1..Len(inbox') : IsTrue(inbox[i])'
  <2> SUFFICES ASSUME NEW i \in 1..Len(inbox') PROVE IsTrue(inbox[i])'
    OBVIOUS
  <2>1. PICK m \in Messages : m = inbox[i + 1]
    BY <1>1
  <2>2. IsTrue(m)' /\ inbox'[i] = m
    BY <1>1, <1>2, <2>1 DEF InboxInv
  <2> QED BY <2>2 DEF IsTrue, BeforeNotes
<1>4. \A i \in 1..Len(inbox') :
         Knows(Needs(inbox[i]))' \/ \E j \in 1..i - 1 : inbox'[j].type = Needs(inbox'[i])
  <2> SUFFICES ASSUME NEW i \in 1..Len(inbox')
               PROVE  Knows(Needs(inbox[i]))' \/ \E j \in 1..i - 1 : inbox'[j].type = Needs(inbox'[i])
    OBVIOUS
  <2>1. PICK t \in {"nothing", "usage-start", "partial"} : t = Needs(inbox[i + 1])
    BY DEF Needs
  <2>2. Knows(t) \/ \E j \in 1..i : inbox[j].type = t
    BY <1>1, <1>2, <2>1 DEF InboxInv
  <2>3. CASE Knows(t) \/ inbox[1].type = t
    <3>1. Knows(t)'
      BY <1>1, <2>3
    <3> QED BY <1>1, <2>1, <3>1 DEF Knows
  <2>4. CASE \E j \in 2..i : inbox[j].type = t
    <3>1. PICK j \in 2..i : inbox[j].type = t
      BY <2>4
    <3>2. j - 1 \in 1..i - 1 /\ inbox'[j - 1] = inbox[j]
      BY <1>1
    <3> QED BY <1>1, <2>1, <3>1, <3>2
  <2> QED BY <2>2, <2>3, <2>4
<1> QED BY <1>3, <1>4 DEF InboxInv

LEMMA WhatMessagesNeed ==
    /\ \A m : m.type # "stage" => Needs(m) = "nothing"
    /\ \A s : s \notin {"usage", "notes"} => Needs(StageMsg(s)) = "nothing"
    /\ Needs(StageMsg("usage")) = "usage-start" /\ Needs(StageMsg("notes")) = "partial"
    /\ \A s : StageMsg(s).type = "stage"
BY DEF Needs, StageMsg

LEMMA MessagesAreTyped ==
    /\ \A s \in Stages : StageMsg(s) \in Messages
    /\ \A o \in Outcomes : \A t \in {"usage-start", "partial", "outcome"} :
          [type |-> t, outcome |-> o] \in Messages
    /\ \A d \in Deps : [type |-> "usage-progress", dep |-> d] \in Messages
    /\ [type |-> "run-error"] \in Messages
BY DEF Messages, StageMsg

-----------------------------------------------------------------------------
(* The stages of the thread                                                *)

\* A stage of the thread goes on: what the main thread knows stays true, and the
\* run is not settled yet.
LEMMA ThreadMovesOn ==
    ASSUME RunTypeOK, InboxInv, MainInv, ResultInv, thread = "up", ~over,
           UNCHANGED mainVars, used' = used,
           PastListing => PastListing' /\ outcome'.deps = outcome.deps,
           running = {"notes"} => running' = {} /\ over' /\ outcome' \in WithNotes(outcome),
           NEW msgs \in Seq(Messages), inbox' = inbox \o msgs,
           \A k \in 1..Len(msgs) : IsTrue(msgs[k])',
           \A k \in 1..Len(msgs) :
              Knows(Needs(msgs[k])) \/ \E j \in 1..k - 1 : msgs[j].type = Needs(msgs[k])
    PROVE  InboxInv' /\ inbox' \in Seq(Messages) /\ MainInv' /\ ResultInv'
<1>1. /\ stage' = stage /\ watchdog' = watchdog /\ listed' = listed /\ salvage' = salvage
      /\ beforeNotes' = beforeNotes /\ completed' = completed /\ result' = result
  BY DEF mainVars
<1>2. \A o : BeforeNotes(o) => BeforeNotes(o)'
  BY DEF BeforeNotes
<1>3. \A m \in Messages : IsTrue(m) => IsTrue(m)'
  BY <1>2 DEF IsTrue
<1>4. InboxInv' /\ inbox' \in Seq(Messages)
  BY <1>1, <1>3, PostedMessages DEF RunTypeOK
<1>5. MainInv'
  <2>1. completed = None
    BY DEF MainInv
  <2>2. beforeNotes # None => BeforeNotes(beforeNotes)'
    BY <1>1, <1>2 DEF MainInv, BeforeNotes
  <2> QED BY <1>1, <2>1, <2>2 DEF MainInv
<1>6. ~settled /\ ~settled'
  BY <1>1 DEF ResultInv, settled
<1>7. ResultInv'
  BY <1>6 DEF ResultInv
<1> QED BY <1>4, <1>5, <1>7

\* What an outcome says of the usages, as long as the listing stays the same.
UsageFacts(o, inFlight) ==
    /\ o.usageAnalysed => inFlight = {} /\ 1 .. o.deps \subseteq returned /\ o.usages = used
    /\ "usage" \in o.findings => o.detected /\ o.usages \subseteq used

CallsAreTyped == calls \subseteq Deps /\ next \in 1 .. MaxDeps + 1 /\ laneThrew \in BOOLEAN

LEMMA ReportKeepsInv ==
    ASSUME AdapterInv, thread = "up", ~over, UNCHANGED <<thread, returned, used, mainVars>>,
           CallsAreTyped', aborted' \in BOOLEAN,
           NEW o \in Outcomes, Report(o), Full(o), UsageFacts(o, calls'),
           aborted' => o.findings # {},
           PastListing => o.deps = outcome.deps,
           running = {"notes"} => o \in WithNotes(outcome)
    PROVE  AdapterInv'
<1> USE DEF AdapterInv
<1> DEFINE m == [type |-> "outcome", outcome |-> o]
<1>1. running' = {} /\ over' = TRUE /\ inbox' = inbox \o <<m>> /\ outcome' = o
  BY DEF Report, End
<1>2. m \in Messages /\ m.type = "outcome" /\ m.outcome = o
  BY MessagesAreTyped
<1> HIDE DEF m
<1>3. IsTrue(m)'
  BY <1>1, <1>2 DEF IsTrue
<1>4. <<m>> \in Seq(Messages) /\ Len(<<m>>) = 1 /\ <<m>>[1] = m
  BY <1>2
<1>5. Needs(m) = "nothing" /\ Knows("nothing")
  BY <1>2, WhatMessagesNeed DEF Knows
<1>6. PastListing' /\ (running = {"notes"} => outcome' \in WithNotes(outcome))
  BY <1>1 DEF PastListing
<1>7. \A k \in 1..Len(<<m>>) : IsTrue(<<m>>[k])'
  BY <1>3, <1>4 DEF IsTrue
<1>8. \A k \in 1..Len(<<m>>) : Knows(Needs(<<m>>[k]))
  BY <1>4, <1>5
<1>9. InboxInv' /\ inbox' \in Seq(Messages) /\ MainInv' /\ ResultInv'
  BY <1>1, <1>4, <1>6, <1>7, <1>8, ThreadMovesOn
<1>10. RunTypeOK'
  BY <1>1, <1>9 DEF RunTypeOK, CallsAreTyped, mainVars
<1>11. UsagesAreRight(outcome)'
  BY <1>1 DEF UsagesAreRight, UsageFacts
<1>12. StagesInv'
  BY <1>1 DEF StagesInv, PastListing
<1>13. NoneIsPassedOver'
  BY <1>1 DEF NoneIsPassedOver
<1> QED BY <1>9, <1>10, <1>11, <1>12, <1>13

\* A malformed adapter: nothing is reported but the error.
LEMMA RunErrorKeepsInv ==
    ASSUME AdapterInv, thread = "up", ~over, RunError,
           running = {} \/ running = {"detection"},
           UNCHANGED <<thread, aborted, usageVars, mainVars>>
    PROVE  AdapterInv'
<1> USE DEF AdapterInv
<1> DEFINE m == [type |-> "run-error"]
<1>1. /\ running' = {} /\ over' = TRUE /\ inbox' = inbox \o <<m>> /\ outcome' = outcome
      /\ thread' = thread /\ aborted' = aborted /\ calls' = calls /\ next' = next
      /\ laneThrew' = laneThrew /\ returned' = returned /\ used' = used
  BY DEF RunError, End, usageVars
<1>2. m \in Messages /\ m.type = "run-error"
  BY MessagesAreTyped
<1> HIDE DEF m
<1>3. <<m>> \in Seq(Messages) /\ Len(<<m>>) = 1 /\ <<m>>[1] = m
  BY <1>2
<1>4. Needs(m) = "nothing" /\ Knows("nothing")
  BY <1>2, WhatMessagesNeed DEF Knows
<1>5. \A k \in 1..Len(<<m>>) : IsTrue(<<m>>[k])'
  BY <1>1, <1>2, <1>3 DEF IsTrue
<1>6. \A k \in 1..Len(<<m>>) : Knows(Needs(<<m>>[k]))
  BY <1>3, <1>4
<1>7. ~PastListing
  BY DEF PastListing, Analyses
<1>8. InboxInv' /\ inbox' \in Seq(Messages) /\ MainInv' /\ ResultInv'
  BY <1>1, <1>3, <1>5, <1>6, <1>7, ThreadMovesOn
<1>9. RunTypeOK'
  BY <1>1, <1>8 DEF RunTypeOK, mainVars
<1>10. UsagesAreRight(outcome)' /\ StagesInv' /\ NoneIsPassedOver'
  BY <1>1 DEF UsagesAreRight, StagesInv, NoneIsPassedOver, PastListing
<1> QED BY <1>8, <1>9, <1>10

\* The next stage begins, with the messages that announce it.
LEMMA StageKeepsInv ==
    ASSUME AdapterInv, thread = "up", ~over, UNCHANGED <<thread, over, returned, used, mainVars>>,
           CallsAreTyped', aborted' \in BOOLEAN,
           NEW o \in Outcomes, outcome' = o, UsageFacts(o, calls'),
           PastListing => PastListing' /\ o.deps = outcome.deps, running # {"notes"},
           StagesInv', NoneIsPassedOver',
           NEW msgs \in Seq(Messages), inbox' = inbox \o msgs,
           \A k \in 1..Len(msgs) : IsTrue(msgs[k])',
           \A k \in 1..Len(msgs) :
              Knows(Needs(msgs[k])) \/ \E j \in 1..k - 1 : msgs[j].type = Needs(msgs[k])
    PROVE  AdapterInv'
<1> USE DEF AdapterInv
<1>1. InboxInv' /\ inbox' \in Seq(Messages) /\ MainInv' /\ ResultInv'
  BY ThreadMovesOn
<1>2. RunTypeOK'
  BY <1>1 DEF RunTypeOK, CallsAreTyped, mainVars
<1>3. UsagesAreRight(outcome)'
  BY DEF UsagesAreRight, UsageFacts
<1> QED BY <1>1, <1>2, <1>3

\* The analyses are settled: the notes begin, or the outcome is reported.
LEMMA NotesKeepInv ==
    ASSUME AdapterInv, thread = "up", ~over, UNCHANGED <<thread, returned, used, mainVars>>,
           CallsAreTyped', aborted' \in BOOLEAN,
           NEW o \in Outcomes, Notes(o, aborted'), UsageFacts(o, calls'),
           o.detected, o.findings = {} => Lacks(o) \subseteq {"notes"},
           aborted' => o.findings # {},
           PastListing => o.deps = outcome.deps, running # {"notes"}
    PROVE  AdapterInv'
<1>1. CASE "notes" \in Capabilities /\ ~aborted'
  <2> DEFINE m == [type |-> "partial", outcome |-> o]
             n == StageMsg("notes")
  <2>1. /\ running' = {"notes"} /\ over' = over /\ outcome' = o
        /\ inbox' = inbox \o <<m, n>>
    BY <1>1 DEF Notes, Await
  <2>2. m \in Messages /\ m.type = "partial" /\ m.outcome = o
    BY MessagesAreTyped
  <2>3. n \in Messages /\ n.type = "stage" /\ Needs(n) = "partial"
    BY MessagesAreTyped, WhatMessagesNeed DEF Stages
  <2> HIDE DEF m, n
  <2>4. <<m, n>> \in Seq(Messages) /\ Len(<<m, n>>) = 2 /\ <<m, n>>[1] = m /\ <<m, n>>[2] = n
    BY <2>2, <2>3
  <2>5. IsTrue(m)' /\ IsTrue(n)'
    BY <2>1, <2>2, <2>3 DEF IsTrue, BeforeNotes
  <2>6. \A k \in 1..Len(<<m, n>>) : k = 1 \/ k = 2
    BY <2>4
  <2>7. \A k \in 1..Len(<<m, n>>) : IsTrue(<<m, n>>[k])'
    BY <2>4, <2>5, <2>6 DEF IsTrue, BeforeNotes
  <2>8. Knows(Needs(m))
    BY <2>2, WhatMessagesNeed DEF Knows
  <2>9. \A k \in 1..Len(<<m, n>>) : Knows(Needs(<<m, n>>[k]))
           \/ \E j \in 1..k - 1 : <<m, n>>[j].type = Needs(<<m, n>>[k])
    <3> SUFFICES ASSUME NEW k \in 1..Len(<<m, n>>)
                 PROVE  Knows(Needs(<<m, n>>[k]))
                           \/ \E j \in 1..k - 1 : <<m, n>>[j].type = Needs(<<m, n>>[k])
      OBVIOUS
    <3>1. CASE k = 1
      BY <2>4, <2>8, <3>1
    <3>2. CASE k = 2
      <4>1. 1 \in 1..k - 1 /\ <<m, n>>[1].type = Needs(<<m, n>>[k])
        BY <2>2, <2>3, <2>4, <3>2
      <4> QED BY <4>1
    <3> QED BY <2>6, <3>1, <3>2
  <2>10. PastListing'
    BY <2>1 DEF PastListing
  <2>11. StagesInv'
    BY <1>1, <2>1 DEF StagesInv, PastListing, Lacks
  <2>12. NoneIsPassedOver'
    BY <2>1 DEF NoneIsPassedOver
  <2> QED BY <1>1, <2>1, <2>4, <2>7, <2>9, <2>10, <2>11, <2>12, StageKeepsInv
<1>2. CASE ~("notes" \in Capabilities /\ ~aborted')
  <2>1. Report(o)
    BY <1>2 DEF Notes
  <2>2. Full(o)
    <3>1. CASE o.findings # {}
      BY <3>1 DEF Full
    <3>2. CASE "notes" \notin Capabilities
      BY <3>2 DEF Full, Lacks
    <3> QED BY <1>2, <3>1, <3>2
  <2> QED BY <2>1, <2>2, ReportKeepsInv
<1> QED BY <1>1, <1>2

\* One of the two analyses is settled.
LEMMA SettleKeepsInv ==
    ASSUME AdapterInv, thread = "up", UNCHANGED <<thread, usageVars, mainVars>>,
           aborted' \in BOOLEAN, NEW s \in Analyses \cap running,
           NEW o \in Outcomes, Settle(s, o, aborted'), UsageFacts(o, calls),
           o.detected, o.findings = {} => Lacks(o) \subseteq (running \ {s}) \cup {"notes"},
           aborted' => o.findings # {}, o.deps = outcome.deps
    PROVE  AdapterInv'
<1>1. ~over /\ running # {"notes"} /\ running \in SUBSET Analyses
  BY DEF AdapterInv, StagesInv, Analyses
<1>2. /\ calls' = calls /\ next' = next /\ laneThrew' = laneThrew /\ returned' = returned
      /\ used' = used /\ thread' = thread /\ CallsAreTyped'
  BY DEF usageVars, AdapterInv, RunTypeOK, CallsAreTyped
<1>3. CASE running = {s}
  <2>1. Notes(o, aborted') /\ (o.findings = {} => Lacks(o) \subseteq {"notes"})
    BY <1>3 DEF Settle
  <2> QED BY <1>1, <1>2, <2>1, NotesKeepInv
<1>4. CASE running # {s}
  <2>1. outcome' = o /\ running' = running \ {s} /\ over' = over /\ inbox' = inbox
    BY <1>4 DEF Settle
  <2>2. running' # {} /\ running' \in SUBSET Analyses
    BY <1>1, <1>4, <2>1
  <2>3. inbox' = inbox \o <<>> /\ <<>> \in Seq(Messages) /\ Len(<<>>) = 0
    BY <2>1, ConcatEmptySeq DEF AdapterInv, RunTypeOK
  <2>4. PastListing'
    BY <2>2 DEF PastListing
  <2>5. StagesInv'
    <3>1. running' # {"detection"} /\ running' # {"listing"} /\ "notes" \notin running'
      BY <2>2 DEF Analyses
    <3>2. o.findings = {} => Lacks(o) \subseteq running' \cup {"notes"}
      BY <2>1
    <3> QED BY <1>1, <2>1, <2>2, <3>1, <3>2 DEF StagesInv, Lacks
  <2>6. NoneIsPassedOver'
    BY <1>2, <2>1 DEF AdapterInv, NoneIsPassedOver
  <2>7. \A k \in 1..Len(<<>>) : FALSE
    BY <2>3
  <2> QED BY <1>1, <1>2, <2>1, <2>3, <2>4, <2>5, <2>6, <2>7, StageKeepsInv
<1> QED BY <1>3, <1>4

\* The first stages: one message announces each.
LEMMA AwaitKeepsInv ==
    ASSUME AdapterInv, thread = "up", ~over, UNCHANGED <<thread, aborted, usageVars, mainVars>>,
           NEW s \in {"detection", "listing"}, Await({s}), running # {"notes"}, ~PastListing,
           inbox' = Append(inbox, StageMsg(s)),
           outcome' = IF s = "detection" THEN EmptyOutcome ELSE [EmptyOutcome EXCEPT !.detected = TRUE],
           ~aborted
    PROVE  AdapterInv'
<1> DEFINE m == StageMsg(s)
<1>1. m \in Messages /\ m.type = "stage" /\ Needs(m) = "nothing"
  BY MessagesAreTyped, WhatMessagesNeed DEF Stages
<1> HIDE DEF m
<1>2. inbox' = inbox \o <<m>>
  BY <1>1, AppendIsConcat DEF m, AdapterInv, RunTypeOK
<1>3. <<m>> \in Seq(Messages) /\ Len(<<m>>) = 1 /\ <<m>>[1] = m
  BY <1>1
<1>4. IsTrue(m)'
  BY <1>1 DEF IsTrue
<1>5. \A k \in 1..Len(<<m>>) : IsTrue(<<m>>[k])'
  BY <1>3, <1>4 DEF IsTrue
<1>6. \A k \in 1..Len(<<m>>) : Knows(Needs(<<m>>[k]))
  BY <1>1, <1>3 DEF Knows
<1>7. /\ running' = {s} /\ over' = over /\ calls' = calls /\ next' = next /\ laneThrew' = laneThrew
      /\ returned' = returned /\ used' = used /\ aborted' = aborted /\ CallsAreTyped'
  BY DEF Await, usageVars, AdapterInv, RunTypeOK, CallsAreTyped
<1>8. /\ outcome' \in Outcomes /\ outcome'.usageAnalysed = FALSE /\ outcome'.findings = {}
  BY EmptyIsAnOutcome DEF Outcomes
<1>9. UsageFacts(outcome', calls')
  BY <1>8 DEF UsageFacts
<1>10. ~PastListing'
  BY <1>7 DEF PastListing, Analyses
<1>11. StagesInv'
  BY <1>7, <1>10 DEF StagesInv, AdapterInv
<1>12. NoneIsPassedOver'
  BY <1>7 DEF NoneIsPassedOver
<1> QED BY <1>2, <1>3, <1>5, <1>6, <1>7, <1>8, <1>9, <1>11, <1>12, StageKeepsInv DEF AdapterInv, RunTypeOK

LEMMA LoadKeepsInv ==
    ASSUME AdapterInv, UNCHANGED mainVars, Load PROVE AdapterInv'
<1>1. /\ thread = "up" /\ ~over /\ running = {} /\ outcome = EmptyOutcome /\ ~aborted /\ ~PastListing
      /\ UNCHANGED <<thread, aborted, usageVars>>
  BY EmptyIsAnOutcome DEF Load, Up, AdapterInv, StagesInv, PastListing, RunTypeOK
<1>2. CASE Await({"detection"}) /\ inbox' = Append(inbox, StageMsg("detection")) /\ UNCHANGED outcome
  BY <1>1, <1>2, AwaitKeepsInv
<1>3. CASE Report(WithFinding(outcome, "api"))
  <2> DEFINE o == WithFinding(outcome, "api")
  <2>1. /\ o \in Outcomes /\ o.findings = {"api"} /\ o.usageAnalysed = FALSE
    BY <1>1, EmptyIsAnOutcome, FindingIsAdded DEF Findings
  <2>2. Report(o)
    BY <1>3
  <2> HIDE DEF o
  <2>3. UsageFacts(o, calls') /\ Full(o)
    BY <2>1 DEF UsageFacts, Full
  <2>4. CallsAreTyped' /\ returned' = returned /\ used' = used /\ aborted' \in BOOLEAN
    BY <1>1 DEF usageVars, AdapterInv, RunTypeOK, CallsAreTyped
  <2> QED BY <1>1, <2>1, <2>2, <2>3, <2>4, ReportKeepsInv
<1>4. CASE RunError
  BY <1>1, <1>4, RunErrorKeepsInv
<1> QED BY <1>2, <1>3, <1>4 DEF Load

LEMMA DetectionKeepsInv ==
    ASSUME AdapterInv, UNCHANGED mainVars, DetectionReturns PROVE AdapterInv'
<1>1. /\ thread = "up" /\ "detection" \in running /\ UNCHANGED <<thread, aborted, usageVars>>
  BY DEF DetectionReturns, Up
<1>2. running = {"detection"}
  BY <1>1 DEF AdapterInv, StagesInv, Analyses
<1>3. ~over /\ outcome = EmptyOutcome /\ ~aborted /\ ~PastListing
  BY <1>2, EmptyIsAnOutcome DEF AdapterInv, StagesInv, PastListing, Analyses, RunTypeOK
<1>4. CASE Report(outcome)
  <2>1. UsageFacts(outcome, calls') /\ Full(outcome) /\ outcome \in Outcomes
    BY <1>3, EmptyIsAnOutcome DEF UsageFacts, Full
  <2>2. CallsAreTyped' /\ returned' = returned /\ used' = used /\ aborted' = FALSE
    BY <1>1, <1>3 DEF usageVars, AdapterInv, RunTypeOK, CallsAreTyped
  <2> QED BY <1>1, <1>2, <1>3, <1>4, <2>1, <2>2, ReportKeepsInv
<1>5. CASE /\ outcome' = [outcome EXCEPT !.detected = TRUE]
           /\ Await({"listing"}) /\ inbox' = Append(inbox, StageMsg("listing"))
  BY <1>1, <1>2, <1>3, <1>5, AwaitKeepsInv
<1>6. CASE RunError
  BY <1>1, <1>2, <1>3, <1>6, RunErrorKeepsInv
<1> QED BY <1>4, <1>5, <1>6 DEF DetectionReturns

\* The messages that announce the analyses: the listing goes before the usage
\* stage.
LEMMA Announcement ==
    ASSUME NEW o \in Outcomes, NEW stages, NEW msgs, msgs = Announce(o, stages)
    PROVE  /\ msgs \in Seq(Messages)
           /\ \A k \in 1..Len(msgs) :
                 /\ msgs[k].type = "stage" \/ msgs[k] = [type |-> "usage-start", outcome |-> o]
                 /\ \/ Needs(msgs[k]) = "nothing"
                    \/ \E j \in 1..k - 1 : msgs[j].type = Needs(msgs[k])
<1> DEFINE g == StageMsg("graph")
           u == [type |-> "usage-start", outcome |-> o]
           t == StageMsg("usage")
           p == IF "graph" \in stages THEN <<g>> ELSE <<>>
           q == IF "usage" \in stages THEN <<u, t>> ELSE <<>>
<1>1. /\ g \in Messages /\ g.type = "stage" /\ Needs(g) = "nothing"
      /\ u \in Messages /\ u.type = "usage-start" /\ Needs(u) = "nothing"
      /\ t \in Messages /\ t.type = "stage" /\ Needs(t) = "usage-start"
  BY MessagesAreTyped, WhatMessagesNeed DEF Stages
<1>2. msgs = p \o q
  BY DEF Announce
<1> SUFFICES /\ p \o q \in Seq(Messages)
             /\ \A k \in 1..Len(p \o q) :
                   /\ (p \o q)[k].type = "stage" \/ (p \o q)[k] = u
                   /\ \/ Needs((p \o q)[k]) = "nothing"
                      \/ \E j \in 1..k - 1 : (p \o q)[j].type = Needs((p \o q)[k])
  BY <1>2
<1> HIDE DEF g, u, t
<1>3. p \in Seq(Messages) /\ Len(p) \in Nat /\ \A k \in 1..Len(p) : p[k] = g
  <2>1. <<g>> \in Seq(Messages) /\ Len(<<g>>) = 1 /\ <<g>>[1] = g
    BY <1>1
  <2>2. <<>> \in Seq(Messages) /\ Len(<<>>) = 0
    OBVIOUS
  <2>3. CASE "graph" \in stages
    BY <2>1, <2>3
  <2>4. CASE "graph" \notin stages
    BY <2>2, <2>4
  <2> QED BY <2>3, <2>4
<1>4. q \in Seq(Messages) /\ Len(q) \in Nat
      /\ \A k \in 1..Len(q) : (k = 1 /\ q[k] = u) \/ (k = 2 /\ q[k] = t /\ q[1] = u)
  <2>1. <<u, t>> \in Seq(Messages) /\ Len(<<u, t>>) = 2 /\ <<u, t>>[1] = u /\ <<u, t>>[2] = t
    BY <1>1
  <2>2. <<>> \in Seq(Messages) /\ Len(<<>>) = 0
    OBVIOUS
  <2>3. CASE "usage" \in stages
    BY <2>1, <2>3
  <2>4. CASE "usage" \notin stages
    BY <2>2, <2>4
  <2> QED BY <2>3, <2>4
<1> HIDE DEF p, q
<1>5. /\ p \o q \in Seq(Messages) /\ Len(p \o q) = Len(p) + Len(q)
      /\ \A i \in 1 .. Len(p) + Len(q) : (p \o q)[i] = IF i <= Len(p) THEN p[i] ELSE q[i - Len(p)]
  BY <1>3, <1>4, ConcatProperties
<1>6. ASSUME NEW k \in 1..Len(p \o q)
      PROVE  /\ (p \o q)[k].type = "stage" \/ (p \o q)[k] = u
             /\ \/ Needs((p \o q)[k]) = "nothing"
                \/ \E j \in 1..k - 1 : (p \o q)[j].type = Needs((p \o q)[k])
  <2>1. CASE k <= Len(p)
    <3>1. (p \o q)[k] = g
      BY <1>3, <1>5, <2>1
    <3> QED BY <1>1, <3>1
  <2>2. CASE ~(k <= Len(p)) /\ k - Len(p) = 1
    <3>1. (p \o q)[k] = u
      BY <1>3, <1>4, <1>5, <2>2
    <3> QED BY <1>1, <3>1
  <2>3. CASE ~(k <= Len(p)) /\ k - Len(p) # 1
    <3>1. k - Len(p) \in 1..Len(q)
      BY <1>3, <1>4, <1>5, <2>3
    <3>2. k - Len(p) = 2 /\ q[2] = t /\ q[1] = u
      BY <1>4, <2>3, <3>1
    <3>3. (p \o q)[k] = t
      BY <1>5, <2>3, <3>2
    <3>4. k - 1 \in 1..Len(p) + Len(q) /\ ~(k - 1 <= Len(p)) /\ (k - 1) - Len(p) = 1
      BY <1>3, <1>5, <3>2
    <3>5. (p \o q)[k - 1] = u
      BY <1>5, <3>2, <3>4
    <3>6. k - 1 \in 1..k - 1
      BY <1>3, <3>4
    <3> QED BY <1>1, <3>3, <3>5, <3>6
  <2> QED BY <1>3, <2>1, <2>2, <2>3
<1> QED BY <1>5, <1>6

LEMMA ListingKeepsInv ==
    ASSUME AdapterInv, UNCHANGED mainVars, NEW n \in 0..MaxDeps, ListingReturns(n) PROVE AdapterInv'
<1>0. PICK o : o = [outcome EXCEPT !.deps = n]
  OBVIOUS
<1> DEFINE stages == Analyses \cap Capabilities
           first == IF "usage" \notin stages THEN 0 ELSE IF n < Concurrency THEN n ELSE Concurrency
<1>1. /\ thread = "up" /\ "listing" \in running
      /\ calls' = 1 .. first /\ next' = first + 1
      /\ thread' = thread /\ aborted' = aborted /\ timedOut' = timedOut
      /\ laneThrew' = laneThrew /\ returned' = returned /\ used' = used
  BY DEF ListingReturns, Up, Analyses
<1>2. \/ stages = {} /\ Notes(o, aborted)
      \/ stages # {} /\ outcome' = o /\ Await(stages) /\ inbox' = inbox \o Announce(o, stages)
  BY <1>0 DEF ListingReturns, Analyses
<1>3. running = {"listing"} /\ ~over /\ outcome = [EmptyOutcome EXCEPT !.detected = TRUE]
  BY <1>1 DEF AdapterInv, StagesInv, Analyses
<1>4. outcome.findings = {} /\ outcome.detected /\ ~outcome.usageAnalysed
      /\ outcome \in Outcomes
  BY <1>3, EmptyIsAnOutcome DEF Outcomes
<1>5. /\ o \in Outcomes /\ o.findings = {} /\ o.detected /\ ~o.usageAnalysed /\ o.deps = n
  BY <1>0, <1>4 DEF Outcomes
<1>6. ~aborted /\ ~PastListing
  BY <1>3, <1>4 DEF AdapterInv, StagesInv, PastListing, Analyses
<1>7. first \in 0..MaxDeps /\ MaxDeps \in Nat /\ ("usage" \in stages /\ n # 0 => first >= 1) /\ first <= n
  BY RunAssumption
<1> HIDE DEF first
<1>8. CallsAreTyped'
  BY <1>1, <1>7 DEF CallsAreTyped, Deps, AdapterInv, RunTypeOK
<1>9. UsageFacts(o, calls')
  BY <1>5 DEF UsageFacts
<1>10. CASE stages = {} /\ Notes(o, aborted)
  <2>1. Lacks(o) \subseteq {"notes"}
    BY <1>10 DEF Lacks, Analyses
  <2>2. Notes(o, aborted') /\ running # {"notes"} /\ aborted' = FALSE
    BY <1>1, <1>3, <1>6, <1>10 DEF Notes, Report, End, AdapterInv, RunTypeOK
  <2> QED BY <1>1, <1>3, <1>5, <1>6, <1>8, <1>9, <2>1, <2>2, NotesKeepInv
<1>11. CASE stages # {} /\ outcome' = o /\ Await(stages) /\ inbox' = inbox \o Announce(o, stages)
  <2>1. running' = stages /\ over' = over
    BY <1>11 DEF Await
  <2>2. PastListing' /\ running' # {"detection"} /\ running' # {"listing"} /\ running' # {}
    BY <1>11, <2>1 DEF PastListing, Analyses
  <2>3. Lacks(o) \subseteq running' \cup {"notes"}
    BY <2>1, RunAssumption DEF Lacks, Analyses
  <2>4. StagesInv'
    BY <1>1, <1>3, <1>5, <1>6, <1>11, <2>1, <2>2, <2>3 DEF StagesInv, Lacks
  <2>5. NoneIsPassedOver'
    <3> SUFFICES ASSUME "usage" \in stages, NEW d \in 1..n
                 PROVE  d \in calls' \/ (d >= next' /\ calls' # {})
      BY <1>5, <1>11, <2>1 DEF NoneIsPassedOver
    <3>1. d \in Nat /\ first \in Nat /\ first >= 1
      BY <1>7
    <3>2. d <= first \/ d >= first + 1
      BY <3>1
    <3> QED BY <1>1, <3>1, <3>2
  <2>a. PICK msgs : msgs = Announce(o, stages)
    OBVIOUS
  <2>6. /\ msgs \in Seq(Messages)
        /\ \A k \in 1..Len(msgs) :
              /\ msgs[k].type = "stage" \/ msgs[k] = [type |-> "usage-start", outcome |-> o]
              /\ Needs(msgs[k]) = "nothing" \/ \E j \in 1..k - 1 : msgs[j].type = Needs(msgs[k])
    <3> HIDE DEF stages
    <3>1. o \in Outcomes
      BY <1>5
    <3> QED BY <2>a, <3>1, Announcement
  <2>7. \A k \in 1..Len(msgs) : IsTrue(msgs[k])'
    BY <1>5, <1>11, <2>2, <2>6 DEF IsTrue
  <2>8. \A k \in 1..Len(msgs) : Knows(Needs(msgs[k])) \/ \E j \in 1..k - 1 : msgs[j].type = Needs(msgs[k])
    BY <2>6 DEF Knows
  <2>9. inbox' = inbox \o msgs /\ outcome' = o
    BY <1>11, <2>a
  <2>10. running # {"notes"} /\ aborted' = FALSE
    BY <1>1, <1>3, <1>6 DEF AdapterInv, RunTypeOK
  <2> QED BY <1>1, <1>3, <1>5, <1>6, <1>8, <1>9, <2>1, <2>4, <2>5, <2>6, <2>7, <2>8, <2>9, <2>10,
             StageKeepsInv
<1> QED BY <1>2, <1>10, <1>11

\* What is known while an analysis runs.
LEMMA WhileAnalysing ==
    ASSUME AdapterInv, NEW s \in Analyses \cap running
    PROVE  /\ ~over /\ outcome.detected /\ outcome \in Outcomes
           /\ outcome.findings = {} => Lacks(outcome) \subseteq running \cup {"notes"}
           /\ UsageFacts(outcome, calls) /\ used \subseteq Deps
           /\ (aborted => outcome.findings # {}) /\ aborted \in BOOLEAN
<1>1. running \in SUBSET Analyses /\ running # {} /\ ~over
  BY DEF AdapterInv, StagesInv, Analyses
<1>2. PastListing
  BY <1>1 DEF PastListing
<1> QED BY <1>1, <1>2 DEF AdapterInv, StagesInv, RunTypeOK, UsagesAreRight, UsageFacts

LEMMA GraphKeepsInv ==
    ASSUME AdapterInv, UNCHANGED mainVars, GraphReturns PROVE AdapterInv'
<1>1. PICK o : o = [outcome EXCEPT !.graph = TRUE]
  OBVIOUS
<1>2. /\ thread = "up" /\ "graph" \in Analyses \cap running
      /\ UNCHANGED <<thread, usageVars>> /\ aborted' = aborted /\ Settle("graph", o, aborted)
  BY <1>1 DEF GraphReturns, Up, Analyses
<1>3. /\ outcome.detected /\ outcome \in Outcomes /\ UsageFacts(outcome, calls)
      /\ outcome.findings = {} => Lacks(outcome) \subseteq running \cup {"notes"}
      /\ (aborted => outcome.findings # {}) /\ aborted \in BOOLEAN
  BY <1>2, WhileAnalysing
<1>4. /\ o \in Outcomes /\ o.detected /\ o.findings = outcome.findings /\ o.graph
      /\ o.usageAnalysed = outcome.usageAnalysed /\ o.deps = outcome.deps
      /\ o.usages = outcome.usages /\ o.notes = outcome.notes
  BY <1>1, <1>3 DEF Outcomes
<1>5. UsageFacts(o, calls)
  BY <1>3, <1>4 DEF UsageFacts
<1>6. o.findings = {} => Lacks(o) \subseteq (running \ {"graph"}) \cup {"notes"}
  BY <1>3, <1>4 DEF Lacks
<1>7. Settle("graph", o, aborted')
  BY <1>2 DEF Settle, Notes, Report, End, Await
<1> QED BY <1>2, <1>3, <1>4, <1>5, <1>6, <1>7, SettleKeepsInv

LEMMA NotesReturnKeepsInv ==
    ASSUME AdapterInv, UNCHANGED mainVars, NotesReturn PROVE AdapterInv'
<1>1. PICK o : o = [outcome EXCEPT !.notes = TRUE]
  OBVIOUS
<1>2. /\ thread = "up" /\ "notes" \in running /\ Report(o)
      /\ UNCHANGED <<thread, aborted, usageVars>>
  BY <1>1 DEF NotesReturn, Up
<1>3. running = {"notes"} /\ ~over /\ PastListing
  BY <1>2 DEF AdapterInv, StagesInv, PastListing, Analyses
<1>4. /\ outcome \in Outcomes /\ outcome.detected /\ UsageFacts(outcome, calls)
      /\ outcome.findings = {} => Lacks(outcome) \subseteq {"notes"}
      /\ (aborted => outcome.findings # {}) /\ aborted \in BOOLEAN
  BY <1>3 DEF AdapterInv, StagesInv, RunTypeOK, UsagesAreRight, UsageFacts
<1>5. /\ o \in Outcomes /\ o.detected /\ o.findings = outcome.findings /\ o.graph = outcome.graph
      /\ o.usageAnalysed = outcome.usageAnalysed /\ o.deps = outcome.deps
      /\ o.usages = outcome.usages /\ o.notes
  BY <1>1, <1>4 DEF Outcomes
<1>6. Full(o) /\ o \in WithNotes(outcome)
  BY <1>1, <1>4, <1>5 DEF Full, Lacks, WithNotes
<1>7. /\ calls' = calls /\ returned' = returned /\ used' = used /\ aborted' = aborted
      /\ thread' = thread /\ CallsAreTyped'
  BY <1>2 DEF usageVars, AdapterInv, RunTypeOK, CallsAreTyped
<1>8. UsageFacts(o, calls')
  BY <1>4, <1>5, <1>7 DEF UsageFacts
<1> QED BY <1>2, <1>3, <1>4, <1>5, <1>6, <1>7, <1>8, ReportKeepsInv

\* A usage stage that failed keeps what was found and says so.
LEMMA SalvageKeepsInv ==
    ASSUME AdapterInv, UNCHANGED mainVars, thread = "up", "usage" \in running,
           UNCHANGED <<thread, usageVars>>, aborted' \in BOOLEAN,
           Settle("usage", Salvaged(outcome), aborted')
    PROVE  AdapterInv'
<1>1. PICK o : o = Salvaged(outcome)
  OBVIOUS
<1>2. "usage" \in Analyses \cap running
  BY DEF Analyses
<1>3. outcome.detected /\ outcome \in Outcomes /\ UsageFacts(outcome, calls) /\ used \subseteq Deps
  BY <1>2, WhileAnalysing
<1>4. /\ o \in Outcomes /\ o.detected /\ o.findings = outcome.findings \cup {"usage"}
      /\ o.usageAnalysed = outcome.usageAnalysed /\ o.deps = outcome.deps /\ o.usages = used
  BY <1>1, <1>3, SalvageIsAnOutcome
<1>5. UsageFacts(o, calls) /\ o.findings # {}
  BY <1>3, <1>4 DEF UsageFacts
<1>6. Settle("usage", o, aborted')
  BY <1>1
<1> QED BY <1>2, <1>4, <1>5, <1>6, SettleKeepsInv

LEMMA UsageEndsKeepsInv ==
    ASSUME AdapterInv, UNCHANGED mainVars, UsageEnds PROVE AdapterInv'
<1>1. /\ thread = "up" /\ "usage" \in running /\ "usage" \in Analyses \cap running
      /\ UNCHANGED <<thread, usageVars>> /\ aborted' = aborted
  BY DEF UsageEnds, Up, Analyses
<1>2. /\ outcome.detected /\ outcome \in Outcomes /\ used \subseteq Deps
      /\ outcome.findings = {} => Lacks(outcome) \subseteq running \cup {"notes"}
      /\ (aborted => outcome.findings # {}) /\ aborted \in BOOLEAN /\ aborted' \in BOOLEAN
      /\ UsageFacts(outcome, calls)
  BY <1>1, WhileAnalysing
<1>3. CASE Settle("usage", Salvaged(outcome), aborted)
  <2>1. Settle("usage", Salvaged(outcome), aborted')
    BY <1>1, <1>3 DEF Settle, Notes, Report, End, Await
  <2> QED BY <1>1, <1>2, <2>1, SalvageKeepsInv
<1>4. CASE /\ LanesEnded /\ ~laneThrew
           /\ Settle("usage", [outcome EXCEPT !.usages = used, !.usageAnalysed = TRUE], aborted)
  <2>1. PICK o : o = [outcome EXCEPT !.usages = used, !.usageAnalysed = TRUE]
    OBVIOUS
  <2>2. /\ o \in Outcomes /\ o.detected /\ o.findings = outcome.findings /\ o.graph = outcome.graph
        /\ o.usageAnalysed /\ o.deps = outcome.deps /\ o.usages = used /\ o.notes = outcome.notes
    BY <1>2, <2>1 DEF Outcomes
  <2>3. 1 .. o.deps \subseteq returned /\ calls = {}
    BY <1>1, <1>4, <2>2 DEF LanesEnded, AdapterInv, NoneIsPassedOver
  <2>4. UsageFacts(o, calls)
    BY <1>2, <2>2, <2>3 DEF UsageFacts
  <2>5. o.findings = {} => Lacks(o) \subseteq (running \ {"usage"}) \cup {"notes"}
    BY <1>2, <2>2 DEF Lacks
  <2>6. Settle("usage", o, aborted')
    BY <1>1, <1>4, <2>1 DEF Settle, Notes, Report, End, Await
  <2> QED BY <1>1, <1>2, <2>2, <2>4, <2>5, <2>6, SettleKeepsInv
<1> QED BY <1>3, <1>4 DEF UsageEnds

\* A stage that fails, by an error or by its timer.
LEMMA FailureKeepsInv ==
    ASSUME AdapterInv, UNCHANGED mainVars, thread = "up", NEW s \in running,
           UNCHANGED <<thread, usageVars>>, aborted' \in BOOLEAN, StageFails(s, aborted')
    PROVE  AdapterInv'
<1>1. CASE s = "usage"
  <2>1. Settle("usage", Salvaged(outcome), aborted')
    BY <1>1 DEF StageFails
  <2> QED BY <1>1, <2>1, SalvageKeepsInv
<1>2. PICK o : o = WithFinding(outcome, s)
  OBVIOUS
<1>3. s \in Stages /\ ~over /\ outcome \in Outcomes
  BY DEF AdapterInv, StagesInv, RunTypeOK, Stages, Analyses
<1>4. /\ o \in Outcomes /\ o.detected = outcome.detected /\ o.findings = outcome.findings \cup {s}
      /\ o.usageAnalysed = outcome.usageAnalysed /\ o.deps = outcome.deps /\ o.usages = outcome.usages
  BY <1>2, <1>3, FindingIsAdded DEF Findings
<1>5. s # "usage" => UsageFacts(o, calls)
  BY <1>4 DEF UsageFacts, AdapterInv, UsagesAreRight
<1>6. CASE s = "graph"
  <2>1. Settle("graph", o, aborted')
    BY <1>2, <1>6 DEF StageFails
  <2>2. s \in Analyses \cap running
    BY <1>6 DEF Analyses
  <2>3. outcome.detected
    BY <2>2, WhileAnalysing
  <2> QED BY <1>4, <1>5, <1>6, <2>1, <2>2, <2>3, SettleKeepsInv
<1>7. CASE s # "usage" /\ s # "graph"
  <2>1. Report(o)
    BY <1>2, <1>7 DEF StageFails
  <2>2. Full(o) /\ o.findings # {}
    BY <1>4 DEF Full
  <2>3. /\ calls' = calls /\ returned' = returned /\ used' = used /\ thread' = thread /\ CallsAreTyped'
    BY DEF usageVars, AdapterInv, RunTypeOK, CallsAreTyped
  <2>4. running = {"notes"} => o \in WithNotes(outcome)
    BY <1>2 DEF WithNotes
  <2> QED BY <1>3, <1>4, <1>5, <1>7, <2>1, <2>2, <2>3, <2>4, ReportKeepsInv
<1> QED BY <1>1, <1>6, <1>7

LEMMA ThrowsKeepsInv ==
    ASSUME AdapterInv, UNCHANGED mainVars, NEW s \in Stages, StageThrows(s) PROVE AdapterInv'
<1>1. /\ thread = "up" /\ s \in running /\ UNCHANGED <<thread, usageVars>> /\ aborted' = aborted
      /\ aborted' \in BOOLEAN
  BY DEF StageThrows, Up, AdapterInv, RunTypeOK
<1>2. StageFails(s, aborted')
  BY <1>1 DEF StageThrows, StageFails, Settle, Notes, Report, End, Await
<1> QED BY <1>1, <1>2, FailureKeepsInv

LEMMA TimeOutKeepsInv ==
    ASSUME AdapterInv, UNCHANGED mainVars, NEW s \in Stages, StageTimesOut(s) PROVE AdapterInv'
<1>1. /\ thread = "up" /\ s \in running /\ UNCHANGED <<thread, usageVars>> /\ aborted' = TRUE
  BY DEF StageTimesOut, Up
<1>2. StageFails(s, aborted')
  BY <1>1 DEF StageTimesOut, StageFails, Settle, Notes, Report, End, Await
<1> QED BY <1>1, <1>2, FailureKeepsInv

-----------------------------------------------------------------------------
(* The calls, and the thread as a whole                                    *)

\* A step that changes no stage: calls that are over and calls that begin, a
\* thread that stalls, resumes, dies or ends.
LEMMA QuietKeepsInv ==
    ASSUME AdapterInv, UNCHANGED <<running, over, aborted, outcome, mainVars>>,
           CallsAreTyped', used \subseteq used', returned \subseteq returned',
           used' \subseteq returned', returned' \subseteq Deps,
           thread' \in {"up", "stalled", "crashed", "exit 0", "exit 1", "killed"},
           thread' \in {"up", "stalled"} => thread \in {"up", "stalled"},
           calls = {} => calls' = {} /\ used' = used, NoneIsPassedOver',
           NEW msgs \in Seq(Messages), inbox' = inbox \o msgs,
           \A k \in 1..Len(msgs) : IsTrue(msgs[k])',
           \A k \in 1..Len(msgs) :
              Knows(Needs(msgs[k])) \/ \E j \in 1..k - 1 : msgs[j].type = Needs(msgs[k])
    PROVE  AdapterInv'
<1>1. /\ stage' = stage /\ watchdog' = watchdog /\ listed' = listed /\ salvage' = salvage
      /\ beforeNotes' = beforeNotes /\ completed' = completed /\ result' = result
      /\ inbox \in Seq(Messages) /\ InboxInv
  BY DEF mainVars, AdapterInv, RunTypeOK
<1>2. \A m \in Messages : IsTrue(m) => IsTrue(m)'
  BY DEF IsTrue, BeforeNotes, PastListing
<1>3. InboxInv' /\ inbox' \in Seq(Messages)
  BY <1>1, <1>2, PostedMessages
<1>4. RunTypeOK'
  BY <1>1, <1>3 DEF AdapterInv, RunTypeOK, CallsAreTyped
<1>5. \A o : UsagesAreRight(o) => UsagesAreRight(o)'
  BY DEF UsagesAreRight
<1>6. UsagesAreRight(outcome)'
  BY <1>5 DEF AdapterInv, UsagesAreRight
<1>7. StagesInv'
  BY DEF AdapterInv, StagesInv, PastListing
<1>8. MainInv'
  BY <1>1 DEF AdapterInv, MainInv, PastListing, BeforeNotes
<1>9. ResultInv'
  <2> SUFFICES ASSUME settled' PROVE (over' \/ thread' \notin {"up", "stalled"})
                                     /\ UsagesAreRight(result)' /\ LossIsReported' /\ LateStagesCostNothing'
    BY DEF ResultInv
  <2>1. settled
    BY <1>1 DEF settled
  <2>2. (over \/ thread \notin {"up", "stalled"}) /\ UsagesAreRight(result)
        /\ LossIsReported /\ LateStagesCostNothing
    BY <2>1 DEF AdapterInv, ResultInv
  <2>3. UsagesAreRight(result)'
    BY <1>1, <2>2 DEF UsagesAreRight
  <2>4. LossIsReported'
    BY <1>1, <2>1, <2>2 DEF LossIsReported
  <2>5. LateStagesCostNothing'
    BY <1>1, <2>1, <2>2 DEF LateStagesCostNothing
  <2> QED BY <2>2, <2>3, <2>4, <2>5
<1> QED BY <1>3, <1>4, <1>6, <1>7, <1>8, <1>9 DEF AdapterInv

LEMMA NoMessage ==
    ASSUME inbox \in Seq(Messages)
    PROVE  /\ inbox = inbox \o <<>> /\ <<>> \in Seq(Messages)
           /\ \A k \in 1..Len(<<>>) : FALSE
BY ConcatEmptySeq

LEMMA OneMessage ==
    ASSUME inbox \in Seq(Messages), NEW m \in Messages, NEW msgs, msgs = <<m>>
    PROVE  /\ Append(inbox, m) = inbox \o msgs /\ msgs \in Seq(Messages)
           /\ \A k \in 1..Len(msgs) : msgs[k] = m
<1>1. msgs \in Seq(Messages) /\ Len(msgs) = 1 /\ msgs[1] = m
  OBVIOUS
<1>2. Append(inbox, m) = inbox \o msgs
  BY AppendIsConcat
<1>3. \A k \in 1..Len(msgs) : k = 1
  BY <1>1
<1> QED BY <1>1, <1>2, <1>3

\* A use that is found is reported, and so it is one.
LEMMA FoundIsTrue ==
    ASSUME inbox \in Seq(Messages), NEW d \in Deps, d \in used',
           inbox' = Append(inbox, [type |-> "usage-progress", dep |-> d])
    PROVE  \E msgs \in Seq(Messages) :
              /\ inbox' = inbox \o msgs
              /\ \A k \in 1..Len(msgs) : IsTrue(msgs[k])'
              /\ \A k \in 1..Len(msgs) : Knows(Needs(msgs[k]))
<1>1. PICK m : m = [type |-> "usage-progress", dep |-> d]
  OBVIOUS
<1>2. m \in Messages /\ m.type = "usage-progress" /\ m.dep = d
  BY <1>1, MessagesAreTyped
<1>3. inbox' = Append(inbox, m)
  BY <1>1
<1>4. IsTrue(m)' /\ Knows(Needs(m))
  BY <1>2, WhatMessagesNeed DEF Knows, IsTrue
<1>5. PICK msgs : msgs = <<m>>
  OBVIOUS
<1>6. msgs \in Seq(Messages) /\ inbox' = inbox \o msgs /\ \A k \in 1..Len(msgs) : msgs[k] = m
  BY <1>2, <1>3, <1>5, OneMessage
<1>7. \A k \in 1..Len(msgs) : IsTrue(msgs[k])'
  BY <1>4, <1>6 DEF IsTrue, BeforeNotes, PastListing, WithNotes
<1>8. \A k \in 1..Len(msgs) : Knows(Needs(msgs[k]))
  BY <1>4, <1>6
<1> QED BY <1>6, <1>7, <1>8

\* The lanes take the listing in its order.
LEMMA NextIsListed ==
    ASSUME NEW n \in 0..MaxDeps, NEW i \in 1..MaxDeps + 1
    PROVE  /\ i > n => \A e \in 1..n : ~(e >= i)
           /\ ~(i > n) => /\ i \in Deps /\ i + 1 \in 1..MaxDeps + 1
                          /\ \A e \in 1..n : e >= i => e = i \/ e >= i + 1
BY RunAssumption DEF Deps

\* A lane whose call is over: a dependency it does not take is none of the
\* listing, or the lane threw.
LEMMA CallsKeepInv ==
    ASSUME AdapterInv, UNCHANGED mainVars, NEW d \in Deps, CallReturns(d) \/ CallThrows(d)
    PROVE  AdapterInv'
<1>1. /\ d \in calls /\ UNCHANGED <<running, over, aborted, outcome>> /\ thread' = thread
      /\ thread \in {"up", "stalled", "crashed", "exit 0", "exit 1", "killed"}
      /\ calls \subseteq Deps /\ next \in 1 .. MaxDeps + 1 /\ laneThrew \in BOOLEAN
      /\ used \subseteq returned /\ returned \subseteq Deps /\ inbox \in Seq(Messages)
  BY DEF CallReturns, CallThrows, AdapterInv, RunTypeOK
<1>2. outcome.deps \in 0..MaxDeps /\ next \in 1..MaxDeps + 1
  BY DEF AdapterInv, RunTypeOK, Outcomes
<1>3. CASE CallReturns(d)
  <2>1. /\ returned' = returned \cup {d} /\ used' \in {used, used \cup {d}}
        /\ inbox' = inbox \/ (d \in used' /\ inbox' = Append(inbox, [type |-> "usage-progress", dep |-> d]))
    BY <1>3 DEF CallReturns
  <2>2. /\ next > outcome.deps => \A e \in 1..outcome.deps : ~(e >= next)
        /\ ~(next > outcome.deps) => /\ next \in Deps /\ next + 1 \in 1..MaxDeps + 1
              /\ \A e \in 1..outcome.deps : e >= next => e = next \/ e >= next + 1
    BY <1>2, NextIsListed
  <2>3. \E msgs \in Seq(Messages) :
           /\ inbox' = inbox \o msgs
           /\ \A k \in 1..Len(msgs) : IsTrue(msgs[k])'
           /\ \A k \in 1..Len(msgs) : Knows(Needs(msgs[k]))
    BY <1>1, <2>1, NoMessage, FoundIsTrue
  <2>4. PICK msgs \in Seq(Messages) :
           /\ inbox' = inbox \o msgs
           /\ \A k \in 1..Len(msgs) : IsTrue(msgs[k])'
           /\ \A k \in 1..Len(msgs) : Knows(Needs(msgs[k]))
    BY <2>3
  <2>5. CallsAreTyped' /\ NoneIsPassedOver'
    <3>1. CASE next > outcome.deps /\ calls' = calls \ {d} /\ UNCHANGED <<next, laneThrew>>
      BY <1>1, <2>1, <2>2, <3>1 DEF CallsAreTyped, NoneIsPassedOver, AdapterInv
    <3>2. CASE calls' = calls \ {d} /\ laneThrew' = TRUE /\ UNCHANGED next
      BY <1>1, <3>2 DEF CallsAreTyped, NoneIsPassedOver
    <3>3. CASE ~(next > outcome.deps) /\ calls' = (calls \ {d}) \cup {next} /\ next' = next + 1
               /\ UNCHANGED laneThrew
      BY <1>1, <2>1, <2>2, <3>3 DEF CallsAreTyped, NoneIsPassedOver, AdapterInv
    <3> QED BY <1>3, <3>1, <3>2, <3>3 DEF CallReturns, LaneGoesOn
  <2>6. used \subseteq used' /\ returned \subseteq returned' /\ used' \subseteq returned'
        /\ returned' \subseteq Deps /\ calls # {}
    BY <1>1, <2>1
  <2> QED BY <1>1, <2>4, <2>5, <2>6, QuietKeepsInv
<1>4. CASE CallThrows(d)
  <2>1. /\ calls' = calls \ {d} /\ laneThrew' = TRUE /\ next' = next /\ returned' = returned
        /\ used' = used /\ inbox' = inbox
    BY <1>4 DEF CallThrows
  <2>2. CallsAreTyped' /\ NoneIsPassedOver'
    BY <1>1, <2>1 DEF CallsAreTyped, NoneIsPassedOver
  <2>3. PICK msgs \in Seq(Messages) : inbox' = inbox \o msgs /\ \A k \in 1..Len(msgs) : FALSE
    BY <1>1, <2>1, NoMessage
  <2> QED BY <1>1, <2>1, <2>2, <2>3, QuietKeepsInv
<1> QED BY <1>3, <1>4

LEMMA LifeKeepsInv ==
    ASSUME AdapterInv, UNCHANGED mainVars, Stall \/ Resume \/ Dies \/ ThreadEnds
    PROVE  AdapterInv'
<1>1. /\ UNCHANGED <<running, over, aborted, outcome>> /\ calls' = calls /\ next' = next
      /\ laneThrew' = laneThrew /\ returned' = returned /\ used' = used /\ inbox' = inbox
      /\ thread' \in {"up", "stalled", "crashed", "exit 0", "exit 1", "killed"}
      /\ thread' \in {"up", "stalled"} => thread \in {"up", "stalled"}
  BY DEF Stall, Resume, Dies, ThreadEnds, threadOnly, usageVars, Up
<1>2. CallsAreTyped' /\ NoneIsPassedOver' /\ used' \subseteq returned' /\ returned' \subseteq Deps
  BY <1>1 DEF AdapterInv, RunTypeOK, CallsAreTyped, NoneIsPassedOver
<1>3. PICK msgs \in Seq(Messages) : inbox' = inbox \o msgs /\ \A k \in 1..Len(msgs) : FALSE
  BY <1>1, NoMessage DEF AdapterInv, RunTypeOK
<1> QED BY <1>1, <1>2, <1>3, QuietKeepsInv

LEMMA ThreadKeepsInv ==
    ASSUME AdapterInv, UNCHANGED mainVars, ThreadNext
    PROVE  AdapterInv'
BY LoadKeepsInv, DetectionKeepsInv, ListingKeepsInv, GraphKeepsInv, NotesReturnKeepsInv,
   UsageEndsKeepsInv, ThrowsKeepsInv, TimeOutKeepsInv, CallsKeepInv, LifeKeepsInv DEF ThreadNext

-----------------------------------------------------------------------------
(* What the promise resolves to                                            *)

\* The outcome as it was before the notes.
SameButNotes(o, b) ==
    /\ o.detected = b.detected /\ o.deps = b.deps /\ o.graph = b.graph /\ o.usages = b.usages
    /\ o.usageAnalysed = b.usageAnalysed /\ o.usageIncomplete = b.usageIncomplete
    /\ o.findings \subseteq b.findings \cup {"notes"} /\ b.findings \subseteq o.findings

LEMMA NotesAddNothingElse ==
    ASSUME NEW b \in Outcomes, NEW o \in WithNotes(b)
    PROVE  o \in Outcomes /\ SameButNotes(o, b)
<1>1. CASE o = b
  BY <1>1 DEF SameButNotes
<1>2. CASE o = [b EXCEPT !.notes = TRUE]
  BY <1>2 DEF SameButNotes, Outcomes
<1>3. CASE o = WithFinding(b, "notes")
  BY <1>3, FindingIsAdded DEF SameButNotes, Findings, Stages
<1> QED BY <1>1, <1>2, <1>3 DEF WithNotes

LEMMA CapIgnoresNotes ==
    ASSUME NEW o \in Outcomes, NEW b \in Outcomes, SameButNotes(o, b)
    PROVE  SameButNotes(Capped(o), Capped(b))
<1>1. CASE Cardinality(o.usages) <= MaxUsages
  BY <1>1 DEF Capped, SameButNotes
<1>2. CASE ~(Cardinality(o.usages) <= MaxUsages)
  <2> DEFINE w == WithFinding(o, "cap")
             v == WithFinding(b, "cap")
  <2>1. /\ w \in Outcomes /\ v \in Outcomes /\ SameButNotes(w, v)
        /\ o.usages = b.usages
    BY FindingIsAdded DEF SameButNotes, Findings
  <2>2. PICK U : U = FirstUsages(o.usages)
    OBVIOUS
  <2>3. Capped(o) = [w EXCEPT !.usages = U, !.usageAnalysed = FALSE, !.usageIncomplete = TRUE]
    BY <1>2, <2>2 DEF Capped
  <2>4. Capped(b) = [v EXCEPT !.usages = U, !.usageAnalysed = FALSE, !.usageIncomplete = TRUE]
    BY <1>2, <2>1, <2>2 DEF Capped
  <2> HIDE DEF w, v
  <2> QED BY <2>1, <2>3, <2>4 DEF Outcomes, SameButNotes
<1> QED BY <1>1, <1>2

RightResult(r) ==
    /\ UsagesAreRight(r)
    /\ r.findings = {} => over /\ r = outcome /\ Full(outcome)
    /\ "notes" \in r.findings =>
         /\ r = [Capped(outcome) EXCEPT !.notes = r.notes, !.findings = r.findings]
         /\ Capped(outcome).findings \subseteq r.findings

LEMMA NotesFailedIsRight ==
    ASSUME RunTypeOK, UsagesAreRight(outcome), beforeNotes # None, BeforeNotes(beforeNotes),
           NEW r, r = WithFinding(Capped(beforeNotes), "notes")
    PROVE  RightResult(r)
<1>1. PICK b \in Outcomes : b = beforeNotes
  BY DEF RunTypeOK
<1>2. outcome \in WithNotes(b) /\ outcome \in Outcomes
  BY <1>1 DEF BeforeNotes, WithNotes, RunTypeOK
<1>3. SameButNotes(outcome, b)
  BY <1>2, NotesAddNothingElse
<1>4. PICK c : c = Capped(b)
  OBVIOUS
<1>5. PICK own : own = Capped(outcome)
  OBVIOUS
<1>6. SameButNotes(own, c)
  BY <1>2, <1>3, <1>4, <1>5, CapIgnoresNotes
<1>7. /\ c \in Outcomes /\ (c = b \/ c.usageAnalysed = FALSE)
      /\ c.findings \subseteq b.findings \cup {"cap"} /\ c.detected = b.detected
      /\ c.deps = b.deps /\ c.usages \subseteq b.usages
  BY <1>4, CapKeepsFacts
<1>8. own \in Outcomes
  BY <1>2, <1>5, CapKeepsFacts
<1>9. /\ r = WithFinding(c, "notes") /\ r \in Outcomes /\ r.findings = c.findings \cup {"notes"}
      /\ r.detected = c.detected /\ r.deps = c.deps /\ r.graph = c.graph /\ r.usages = c.usages
      /\ r.usageAnalysed = c.usageAnalysed /\ r.usageIncomplete = c.usageIncomplete
  BY <1>1, <1>4, <1>7, FindingIsAdded DEF Findings, Stages
<1>10. UsagesAreRight(r)
  <2>1. ASSUME r.usageAnalysed PROVE calls = {} /\ 1 .. r.deps \subseteq returned /\ r.usages = used
    BY <1>3, <1>7, <1>9, <2>1 DEF SameButNotes, UsagesAreRight
  <2>2. ASSUME "usage" \in r.findings
        PROVE  r.detected /\ r.deps = outcome.deps /\ r.usages \subseteq used
    BY <1>3, <1>7, <1>9, <2>2 DEF SameButNotes, UsagesAreRight
  <2> QED BY <2>1, <2>2 DEF UsagesAreRight
<1>11. own.findings \subseteq r.findings
  BY <1>6, <1>9 DEF SameButNotes
<1>12. r = [own EXCEPT !.notes = r.notes, !.findings = r.findings]
  BY <1>6, <1>8, <1>9 DEF SameButNotes, Outcomes
<1> QED BY <1>5, <1>9, <1>10, <1>11, <1>12 DEF RightResult

LEMMA UsageFailedIsRight ==
    ASSUME RunTypeOK, MainInv, listed # None, stage = "usage",
           NEW r, r = Capped([EmptyOutcome EXCEPT !.detected = listed.detected, !.deps = listed.deps,
                                       !.usages = salvage, !.usageIncomplete = TRUE,
                                       !.findings = {stage}])
    PROVE  RightResult(r)
<1>1. PICK l \in Outcomes : l = listed
  BY DEF RunTypeOK
<1>2. l.detected /\ l.deps = outcome.deps /\ salvage \subseteq used /\ salvage \subseteq Deps
      /\ l.deps \in 0..MaxDeps
  BY <1>1 DEF MainInv, RunTypeOK, Outcomes
<1>3. PICK u : u = [EmptyOutcome EXCEPT !.detected = l.detected, !.deps = l.deps,
                                       !.usages = salvage, !.usageIncomplete = TRUE,
                                       !.findings = {"usage"}]
  OBVIOUS
<1>4. /\ u \in Outcomes /\ u.findings = {"usage"} /\ u.detected /\ u.deps = outcome.deps
      /\ u.usages = salvage /\ u.usageAnalysed = FALSE
  BY <1>2, <1>3 DEF Outcomes, EmptyOutcome, Stages
<1>5. r = Capped(u)
  BY <1>1, <1>3
<1>6. /\ r.findings \subseteq {"usage", "cap"} /\ "usage" \in r.findings /\ r.usageAnalysed = FALSE
      /\ r.detected /\ r.deps = outcome.deps /\ r.usages \subseteq used
  BY <1>2, <1>4, <1>5, CapKeepsFacts
<1> QED BY <1>6 DEF RightResult, UsagesAreRight

\* What is reported of a thread that failed.
LEMMA FailedIsRight ==
    ASSUME AdapterInv PROVE RightResult(Failed)
<1> PICK r : r = Failed
  OBVIOUS
<1> USE DEF AdapterInv
<1>1. CASE stage = "notes" /\ beforeNotes # None
  <2>1. r = WithFinding(Capped(beforeNotes), "notes")
    BY <1>1 DEF Failed
  <2> QED BY <1>1, <2>1, NotesFailedIsRight DEF MainInv
<1>2. CASE stage = "usage" /\ listed # None
  <2>1. r = Capped([EmptyOutcome EXCEPT !.detected = listed.detected, !.deps = listed.deps,
                                       !.usages = salvage, !.usageIncomplete = TRUE,
                                       !.findings = {stage}])
    BY <1>2 DEF Failed
  <2> QED BY <1>2, <2>1, UsageFailedIsRight
<1>3. CASE ~(stage = "notes" /\ beforeNotes # None) /\ ~(stage = "usage" /\ listed # None)
  <2>1. r = WithFinding(EmptyOutcome, stage) /\ stage \notin {"notes", "usage"}
        /\ stage \in Findings
    BY <1>3 DEF Failed, MainInv, RunTypeOK, Findings
  <2>2. r.findings = {stage} /\ r.usageAnalysed = FALSE
    BY <2>1, FindingIsAdded, EmptyIsAnOutcome
  <2> QED BY <2>1, <2>2 DEF RightResult, UsagesAreRight
<1> QED BY <1>1, <1>2, <1>3

\* What is reported of a thread that reached its end.
LEMMA CompletedIsRight ==
    ASSUME AdapterInv, completed # None PROVE RightResult(completed)
<1> USE DEF AdapterInv
<1>1. over /\ completed = Capped(outcome) /\ Full(outcome) /\ outcome \in Outcomes
  BY DEF MainInv, RunTypeOK
<1>2. PICK c : c = completed
  OBVIOUS
<1>3. /\ c \in Outcomes /\ (c = outcome \/ (c.usageAnalysed = FALSE /\ "cap" \in c.findings))
      /\ c.findings \subseteq outcome.findings \cup {"cap"} /\ c.detected = outcome.detected
      /\ c.deps = outcome.deps /\ c.usages \subseteq outcome.usages
  BY <1>1, <1>2, CapKeepsFacts
<1>4. UsagesAreRight(c)
  BY <1>3 DEF UsagesAreRight
<1>5. c = [c EXCEPT !.notes = c.notes, !.findings = c.findings]
  BY <1>3 DEF Outcomes
<1> QED BY <1>1, <1>2, <1>3, <1>4, <1>5 DEF RightResult

\* The first result stays.
LEMMA ResolveKeepsResult ==
    ASSUME AdapterInv, NEW r, RightResult(r), Resolve(r),
           UNCHANGED <<running, over, calls, returned, used, outcome>>,
           over \/ thread' \notin {"up", "stalled"}
    PROVE  ResultInv'
<1> SUFFICES ASSUME settled' PROVE ResultInv'
  BY DEF ResultInv
<1>1. \A o : UsagesAreRight(o) => UsagesAreRight(o)'
  BY DEF UsagesAreRight
<1>2. CASE settled
  <2>1. result' = result
    BY <1>2 DEF Resolve
  <2>2. UsagesAreRight(result) /\ LossIsReported /\ LateStagesCostNothing
    BY <1>2 DEF AdapterInv, ResultInv
  <2>3. UsagesAreRight(result)'
    BY <1>1, <2>1, <2>2 DEF UsagesAreRight
  <2>4. LossIsReported' /\ LateStagesCostNothing'
    BY <1>2, <2>1, <2>2 DEF LossIsReported, LateStagesCostNothing
  <2> QED BY <2>3, <2>4 DEF ResultInv
<1>3. CASE ~settled
  <2>1. result' = r
    BY <1>3 DEF Resolve
  <2>2. UsagesAreRight(result)'
    BY <1>1, <2>1 DEF RightResult, UsagesAreRight
  <2>3. LossIsReported'
    BY <2>1 DEF RightResult, LossIsReported, Full, Lacks
  <2>4. LateStagesCostNothing'
    BY <2>1 DEF RightResult, LateStagesCostNothing, UsagesAreRight
  <2> QED BY <2>2, <2>3, <2>4 DEF ResultInv
<1> QED BY <1>2, <1>3

-----------------------------------------------------------------------------
(* The main thread                                                         *)

\* A step that leaves the thread's outcome and its messages alone.
LEMMA SameThread ==
    ASSUME AdapterInv, UNCHANGED <<running, over, aborted, usageVars, outcome, inbox, memory, completed>>,
           thread' \in {"up", "stalled", "crashed", "exit 0", "exit 1", "killed"}, ResultInv'
    PROVE  AdapterInv'
<1> USE DEF AdapterInv, usageVars, memory
<1>1. RunTypeOK'
  BY DEF RunTypeOK
<1>2. UsagesAreRight(outcome)'
  BY DEF UsagesAreRight
<1>3. StagesInv'
  BY DEF StagesInv, PastListing
<1>4. NoneIsPassedOver'
  BY DEF NoneIsPassedOver
<1>5. InboxInv'
  <2>1. \A i \in 1..Len(inbox) : IsTrue(inbox[i])'
    BY DEF InboxInv, IsTrue, BeforeNotes, PastListing
  <2>2. \A t : Knows(t) => Knows(t)'
    BY DEF Knows
  <2> QED BY <2>1, <2>2 DEF InboxInv, Knows
<1>6. MainInv'
  BY DEF MainInv, PastListing, BeforeNotes
<1> QED BY <1>1, <1>2, <1>3, <1>4, <1>5, <1>6

LEMMA SettlingKeepsInv ==
    ASSUME AdapterInv, OnError \/ OnExit \/ WatchdogFires PROVE AdapterInv'
<1>1. /\ UNCHANGED <<running, over, aborted, usageVars, outcome, inbox, memory, completed>>
      /\ thread' \in {"up", "stalled", "crashed", "exit 0", "exit 1", "killed"} \ {"up", "stalled"}
  BY DEF OnError, OnExit, WatchdogFires, Kill, threadButState, threadVars, AdapterInv, RunTypeOK,
         usageVars
<1>2. PICK r : Resolve(r) /\ (r = Failed \/ (completed # None /\ r = completed))
  BY DEF OnError, OnExit, WatchdogFires, Finish
<1>3. RightResult(r)
  BY <1>2, FailedIsRight, CompletedIsRight
<1>4. ResultInv'
  BY <1>1, <1>2, <1>3, ResolveKeepsResult DEF usageVars
<1> QED BY <1>1, <1>4, SameThread

LEMMA ResultStays ==
    ASSUME ResultInv, result' = result, UNCHANGED <<thread, running, over, usageVars, outcome>>
    PROVE  ResultInv'
<1> SUFFICES ASSUME settled PROVE ResultInv'
  BY DEF ResultInv, settled
<1>1. UsagesAreRight(result)'
  BY DEF ResultInv, UsagesAreRight, usageVars
<1>2. LossIsReported' /\ LateStagesCostNothing'
  BY DEF ResultInv, LossIsReported, LateStagesCostNothing, settled, usageVars
<1> QED BY <1>1, <1>2 DEF ResultInv

LEMMA TickKeepsInv ==
    ASSUME AdapterInv, Tick PROVE AdapterInv'
<1>1. /\ UNCHANGED <<thread, running, over, aborted, usageVars, outcome, inbox, memory, completed>>
      /\ result' = result /\ thread' \in {"up", "stalled", "crashed", "exit 0", "exit 1", "killed"}
  BY DEF Tick, AdapterInv, RunTypeOK
<1>2. ResultInv'
  BY <1>1, ResultStays DEF AdapterInv
<1> QED BY <1>1, <1>2, SameThread

\* A message is taken, and what it says is true.
LEMMA ReceiveKeepsInv ==
    ASSUME AdapterInv, Receive PROVE AdapterInv'
<1> USE DEF AdapterInv
<1>1. /\ inbox # <<>> /\ inbox' = Tail(inbox)
      /\ UNCHANGED <<thread, running, over, aborted, usageVars, outcome>>
      /\ inbox \in Seq(Messages) /\ InboxInv
  BY DEF Receive, threadButInbox, RunTypeOK
<1>2. PICK m : m = Head(inbox)
  OBVIOUS
<1>3. m \in Messages /\ IsTrue(m) /\ Knows(Needs(m)) /\ inbox' \in Seq(Messages)
  BY <1>1, <1>2, FirstMessage
<1>4. \A n \in Messages : IsTrue(n) => IsTrue(n)'
  BY <1>1 DEF IsTrue, BeforeNotes, PastListing, usageVars
<1>5. UsagesAreRight(outcome)' /\ StagesInv' /\ NoneIsPassedOver'
  BY <1>1 DEF UsagesAreRight, StagesInv, PastListing, NoneIsPassedOver, usageVars
<1>6. \A o : BeforeNotes(o) => BeforeNotes(o)'
  BY <1>1 DEF BeforeNotes
<1>7. SUFFICES /\ MainInv' /\ ResultInv'
               /\ stage' \in Stages \cup {"run"} /\ salvage' \subseteq Deps
               /\ listed' \in Outcomes \cup {None} /\ beforeNotes' \in Outcomes \cup {None}
               /\ (Knows("usage-start") \/ m.type = "usage-start" => listed' # None)
               /\ (Knows("partial") \/ m.type = "partial" => beforeNotes' # None)
  <2> SUFFICES ASSUME MainInv', ResultInv',
                      stage' \in Stages \cup {"run"}, salvage' \subseteq Deps,
                      listed' \in Outcomes \cup {None}, beforeNotes' \in Outcomes \cup {None},
                      Knows("usage-start") \/ m.type = "usage-start" => listed' # None,
                      Knows("partial") \/ m.type = "partial" => beforeNotes' # None
               PROVE  AdapterInv'
    OBVIOUS
  <2>1. RunTypeOK'
    BY <1>1, <1>3 DEF RunTypeOK, usageVars
  <2>2. \A t \in {"nothing", "usage-start", "partial"} : Knows(t) \/ Head(inbox).type = t => Knows(t)'
    BY <1>2 DEF Knows
  <2>3. InboxInv'
    BY <1>1, <1>4, <2>2, TakenMessage
  <2> QED BY <1>5, <2>1, <2>3
<1>8. CASE m.type = "stage" /\ OnStage(m)
  <2>1. /\ stage' = m.stage /\ UNCHANGED <<listed, salvage, beforeNotes, completed, result>>
        /\ m.stage \in Stages /\ m = StageMsg(m.stage)
    BY <1>3, <1>8, MessagesOfAType DEF OnStage
  <2>2. (m.stage = "usage" => listed # None) /\ (m.stage = "notes" => beforeNotes # None)
    BY <1>3, <2>1, WhatMessagesNeed DEF Knows
  <2>3. beforeNotes # None => BeforeNotes(beforeNotes)'
    BY <1>1, <2>1 DEF MainInv, BeforeNotes
  <2>4. MainInv'
    BY <1>1, <2>1, <2>2, <2>3 DEF MainInv, PastListing, usageVars
  <2>5. ResultInv'
    BY <1>1, <2>1, ResultStays
  <2> QED BY <1>8, <2>1, <2>4, <2>5 DEF RunTypeOK, Knows
<1>9. CASE m.type = "usage-start" /\ OnUsageStart(m)
  <2>1. /\ listed' = m.outcome /\ UNCHANGED <<stage, salvage, beforeNotes, completed, result>>
        /\ m.outcome \in Outcomes /\ m.outcome # None
    BY <1>3, <1>9, MessagesOfAType, OutcomesAreSomething DEF OnUsageStart
  <2>2. m.outcome.detected /\ m.outcome.deps = outcome.deps /\ PastListing
    BY <1>3, <1>9 DEF IsTrue
  <2>3. beforeNotes # None => BeforeNotes(beforeNotes)'
    BY <1>1, <2>1 DEF MainInv, BeforeNotes
  <2>4. MainInv'
    BY <1>1, <2>1, <2>2, <2>3 DEF MainInv, PastListing, usageVars
  <2>5. ResultInv'
    BY <1>1, <2>1, ResultStays
  <2> QED BY <1>9, <2>1, <2>4, <2>5 DEF RunTypeOK, Knows
<1>10. CASE m.type = "usage-progress" /\ OnUsageProgress(m)
  <2>1. /\ salvage' \subseteq salvage \cup {m.dep} /\ UNCHANGED <<stage, listed, beforeNotes, completed, result>>
        /\ m.dep \in Deps /\ m.dep \in used
    BY <1>3, <1>10, MessagesOfAType DEF OnUsageProgress, IsTrue
  <2>2. salvage \subseteq used /\ salvage \subseteq Deps
    BY DEF MainInv, RunTypeOK
  <2>3. beforeNotes # None => BeforeNotes(beforeNotes)'
    BY <1>1, <2>1 DEF MainInv, BeforeNotes
  <2>4. MainInv'
    BY <1>1, <2>1, <2>2, <2>3 DEF MainInv, PastListing, usageVars
  <2>5. ResultInv'
    BY <1>1, <2>1, ResultStays
  <2> QED BY <1>10, <2>1, <2>2, <2>4, <2>5 DEF RunTypeOK, Knows
<1>11. CASE m.type = "partial" /\ OnPartial(m)
  <2>1. /\ beforeNotes' = m.outcome /\ UNCHANGED <<stage, listed, salvage, completed, result>>
        /\ m.outcome \in Outcomes /\ m.outcome # None
    BY <1>3, <1>11, MessagesOfAType, OutcomesAreSomething DEF OnPartial
  <2>2. BeforeNotes(m.outcome)
    BY <1>3, <1>11 DEF IsTrue
  <2>3. BeforeNotes(beforeNotes)'
    BY <1>1, <2>1, <2>2 DEF BeforeNotes
  <2>4. MainInv'
    BY <1>1, <2>1, <2>3 DEF MainInv, PastListing, usageVars
  <2>5. ResultInv'
    BY <1>1, <2>1, ResultStays
  <2> QED BY <1>11, <2>1, <2>4, <2>5 DEF RunTypeOK, Knows
<1>12. CASE m.type = "outcome" /\ OnOutcome(m)
  <2>1. /\ completed' = Capped(m.outcome) /\ UNCHANGED <<stage, listed, salvage, beforeNotes, result>>
        /\ over /\ m.outcome = outcome /\ Full(outcome)
    BY <1>3, <1>12 DEF OnOutcome, IsTrue
  <2>2. completed' = Capped(outcome)' /\ Full(outcome)' /\ over'
    BY <1>1, <2>1 DEF Capped, Full, Lacks, FirstUsages, WithFinding
  <2>3. beforeNotes # None => BeforeNotes(beforeNotes)'
    BY <1>1, <2>1 DEF MainInv, BeforeNotes
  <2>4. MainInv'
    BY <1>1, <2>1, <2>2, <2>3 DEF MainInv, PastListing, usageVars
  <2>5. ResultInv'
    BY <1>1, <2>1, ResultStays
  <2> QED BY <1>12, <2>1, <2>4, <2>5 DEF RunTypeOK, Knows
<1>13. CASE m.type = "run-error" /\ OnRunError
  <2>1. over /\ Resolve(Failed) /\ UNCHANGED <<stage, listed, salvage, beforeNotes, completed>>
    BY <1>3, <1>13 DEF OnRunError, Finish, IsTrue, memory
  <2>2. RightResult(Failed)
    BY FailedIsRight
  <2>3. ResultInv'
    BY <1>1, <2>1, <2>2, ResolveKeepsResult DEF usageVars
  <2>4. MainInv'
    BY <1>1, <2>1 DEF MainInv, BeforeNotes, PastListing, usageVars
  <2> QED BY <1>13, <2>1, <2>3, <2>4 DEF RunTypeOK, Knows
<1> QED BY <1>2, <1>8, <1>9, <1>10, <1>11, <1>12, <1>13 DEF Receive

LEMMA InitIsRight == Init => AdapterInv
<1> SUFFICES ASSUME Init PROVE AdapterInv
  OBVIOUS
<1> USE DEF Init, ThreadInit
<1>1. RunTypeOK
  <2>1. 1 \in 1..MaxDeps + 1
    BY RunAssumption
  <2>2. <<>> \in Seq(Messages)
    OBVIOUS
  <2> QED BY <2>1, <2>2, EmptyIsAnOutcome DEF RunTypeOK
<1>2. UsagesAreRight(outcome)
  BY EmptyIsAnOutcome DEF UsagesAreRight
<1>3. StagesInv
  BY DEF StagesInv, PastListing
<1>4. NoneIsPassedOver /\ InboxInv /\ MainInv /\ ResultInv
  BY DEF NoneIsPassedOver, InboxInv, MainInv, ResultInv, settled
<1> QED BY <1>1, <1>2, <1>3, <1>4 DEF AdapterInv

\* What is known of the thread, of its messages and of what the main thread has
\* taken from them holds throughout (isolated.ts:344-563, run-adapter.ts:243-421).
THEOREM AdapterInvariance == Spec => []AdapterInv
<1>1. AdapterInv /\ [Next]_vars => AdapterInv'
  <2> SUFFICES ASSUME AdapterInv, [Next]_vars PROVE AdapterInv'
    OBVIOUS
  <2>1. CASE ThreadNext /\ UNCHANGED mainVars
    BY <2>1, ThreadKeepsInv
  <2>2. CASE Receive
    BY <2>2, ReceiveKeepsInv
  <2>3. CASE OnError \/ OnExit \/ WatchdogFires
    BY <2>3, SettlingKeepsInv
  <2>4. CASE Tick
    BY <2>4, TickKeepsInv
  <2>5. CASE UNCHANGED vars
    <3>1. /\ UNCHANGED <<thread, running, over, aborted, usageVars, outcome, inbox, memory, completed>>
          /\ result' = result /\ thread' \in {"up", "stalled", "crashed", "exit 0", "exit 1", "killed"}
      BY <2>5 DEF vars, threadVars, mainVars, usageVars, memory, AdapterInv, RunTypeOK
    <3>2. ResultInv'
      BY <3>1, ResultStays DEF AdapterInv
    <3> QED BY <3>1, <3>2, SameThread
  <2> QED BY <2>1, <2>2, <2>3, <2>4, <2>5 DEF Next
<1> QED BY <1>1, InitIsRight, PTL DEF Spec

\* A usage analysis that is called complete had every call for every dependency
\* answered, and a result without a finding lost nothing, whatever aborts, lanes
\* that throw, cuts of the list and deaths of the thread come together
\* (run-adapter.ts:349-381, isolated.ts:145-157).
THEOREM NoAnswerIsLost == Spec => []UsageIsAccountedFor
<1>1. AdapterInv => UsageIsAccountedFor
  BY DEF AdapterInv, ResultInv, UsagesAreRight, UsageIsAccountedFor, AnalysedMeansEveryCall,
         LossIsReported
<1> QED BY <1>1, AdapterInvariance, PTL

\* A usage stage that fails keeps the whole listing, and notes that fail cost the
\* notes and nothing else, wherever the failure is noticed (isolated.ts:344-456).
THEOREM EarlierFactsStay == Spec => []LateStagesCostNothing
<1>1. AdapterInv => LateStagesCostNothing
  BY DEF AdapterInv, ResultInv, LateStagesCostNothing
<1> QED BY <1>1, AdapterInvariance, PTL
=============================================================================
