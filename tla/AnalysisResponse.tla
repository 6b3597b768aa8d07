-------------------------- MODULE AnalysisResponse --------------------------
(* What the JSON of an analysis child's frame says to the job that waits for *)
(* it (packages/github-app/src/worker/analysis-protocol.ts).  A value of the *)
(* JSON is a record with its "type", for a string its length, for an array   *)
(* its items, and for an object its keys and their values.                   *)
EXTENDS Absent, Integers, SequencesExt
CONSTANTS MaxDepth, MaxNodes, MaxString, MaxArray, MaxKeys

\* The values of a result in the order of the walk, which stops at the first
\* that is too much.
RECURSIVE BoundedJson(_, _, _)
BoundedJson(value, depth, nodes) ==
    LET Answer(code) == [nodes |-> nodes + 1, failure |-> code]
        Items(s, item) == IF s.failure # None THEN s ELSE BoundedJson(item, depth + 1, s.nodes)
        Fields(s, field) ==
            IF s.failure # None THEN s
            ELSE IF field.key \in {"long", "__proto__", "constructor", "prototype"} THEN [s EXCEPT !.failure = "RESULT_KEY"]
            ELSE BoundedJson(field.value, depth + 1, s.nodes)
    IN  IF nodes + 1 > MaxNodes \/ depth > MaxDepth THEN Answer("RESULT_COMPLEXITY")
        ELSE CASE value.type = "string" -> Answer(IF value.length > MaxString THEN "RESULT_STRING" ELSE None)
               [] value.type = "infinite" -> Answer("RESULT_NUMBER")
               [] value.type = "array" -> IF Len(value.items) > MaxArray THEN Answer("RESULT_ARRAY") ELSE FoldLeft(Items, Answer(None), value.items)
               [] value.type = "object" -> IF Len(value.fields) > MaxKeys THEN Answer("RESULT_KEYS") ELSE FoldLeft(Fields, Answer(None), value.fields)
               [] OTHER -> Answer(None)

\* Slip: the answer of another job is taken.
SlipValidateAnalysisResponse(doc, jobId) ==
    IF doc.keys # {"version", "jobId", "status", "result"} \/ doc.version # 1
         \/ doc.status \notin {"complete", "incomplete"} \/ doc.result.type # "object"
    THEN "BAD_RESPONSE_SHAPE" ELSE BoundedJson(doc.result, 0, 0).failure
ValidateAnalysisResponse(doc, jobId) ==
    IF doc.keys # {"version", "jobId", "status", "result"} \/ doc.version # 1 \/ doc.jobId # jobId
         \/ doc.status \notin {"complete", "incomplete"} \/ doc.result.type # "object"
    THEN "BAD_RESPONSE_SHAPE" ELSE BoundedJson(doc.result, 0, 0).failure

\* The tail of decodeAnalysisFrame, with what UTF-8 and JSON make of the body:
\* None if it is none.
DecodeAnalysisFrame(doc, jobId) ==
    IF doc = None THEN "FRAME_JSON" ELSE ValidateAnalysisResponse(doc, jobId)
=============================================================================
