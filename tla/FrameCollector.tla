--------------------------- MODULE FrameCollector ---------------------------
(***************************************************************************)
(* The frame of an analysis child, collected from its output:              *)
(* collectAnalysisFrame in packages/github-app/src/worker/analysis-frame-  *)
(* stream.ts, and the check of its size and header that decodeAnalysisFrame *)
(* makes again (analysis-protocol.ts).                                     *)
(*                                                                         *)
(* A frame is a header of HeaderBytes bytes, the digits of a length with   *)
(* the highest first, and so many bytes of body.  The transport cuts what  *)
(* the child sends into chunks anywhere, between any two of which the      *)
(* child may end, fail or hand over something that is not bytes.           *)
(***************************************************************************)
EXTENDS Integers, Sequences

CONSTANTS
    HeaderBytes,     \* (code: 4)
    Base,            \* a byte is one of 0..Base - 1        (code: 256)
    MaxFrameBytes,   \* MAX_ANALYSIS_FRAME_BYTES             (code: 16 MiB)
    MaxStreamBytes   \* bound of the model: the bytes a child sends

ASSUME CollectorAssumption ==
    /\ HeaderBytes \in Nat \ {0} /\ Base \in Nat \ {0}
    /\ MaxFrameBytes \in Nat /\ MaxStreamBytes \in Nat

VARIABLES
    sent,        \* every byte the child has sent, in order
    frame,       \* the bytes that are kept: header, then the frame's body
    expected,    \* the length of the body, 0 until the header is whole
    collection   \* "collecting", "collected", "decoded" but for its JSON, or why not

collectorVars == <<sent, frame, expected, collection>>

ByteStrings(n) == UNION {[1..k -> 0..Base - 1] : k \in 0..n}

\* DataView.getUint32, the highest byte first.
LengthIn(bytes) ==
    LET number[i \in 0..HeaderBytes] == IF i = 0 THEN 0 ELSE number[i - 1] * Base + bytes[i]
    IN  number[HeaderBytes]

CollectorInit == sent = <<>> /\ frame = <<>> /\ expected = 0 /\ collection = "collecting"

Refuse(code) == collection' = code /\ UNCHANGED <<frame, expected>>

\* Slip: a chunk that ends inside the header is not put into it.
SlipForHeader(chunk) ==
    LET lacking == HeaderBytes - Len(frame)
    IN  IF lacking <= 0 \/ Len(chunk) < lacking THEN 0 ELSE lacking
\* The bytes of a chunk that the header still lacks.
ForHeader(chunk) ==
    LET lacking == HeaderBytes - Len(frame)
    IN  IF lacking <= 0 THEN 0 ELSE IF Len(chunk) < lacking THEN Len(chunk) ELSE lacking

\* One chunk: what the header lacks, then what the frame lacks.  The length is
\* judged before anything of the body is kept.
Receive(chunk) ==
    LET take == ForHeader(chunk)
        headed == frame \o SubSeq(chunk, 1, take)
        rest == SubSeq(chunk, take + 1, Len(chunk))
        length == IF take = 0 THEN expected ELSE LengthIn(headed)
    IN  /\ collection = "collecting"
        /\ sent' = sent \o chunk
        /\ \/ Len(headed) < HeaderBytes
              /\ frame' = headed /\ UNCHANGED <<expected, collection>>
           \/ Len(headed) >= HeaderBytes /\ length \notin 1..MaxFrameBytes
              /\ Refuse("FRAME_LENGTH")
           \/ Len(headed) >= HeaderBytes /\ length \in 1..MaxFrameBytes
              /\ Len(headed) - HeaderBytes + Len(rest) > length /\ Refuse("FRAME_TRAILING")
           \/ Len(headed) >= HeaderBytes /\ length \in 1..MaxFrameBytes
              /\ Len(headed) - HeaderBytes + Len(rest) <= length
              /\ frame' = headed \o rest /\ expected' = length /\ UNCHANGED collection

\* Something that is not a Uint8Array, or a source that fails: the error is the
\* collector's own or the source's.
Break(code) == collection = "collecting" /\ Refuse(code) /\ UNCHANGED sent

\* The source ends.
End ==
    /\ collection = "collecting"
    /\ collection' = IF Len(frame) < HeaderBytes \/ Len(frame) # HeaderBytes + expected THEN "FRAME_TRUNCATED" ELSE "collected"
    /\ UNCHANGED <<sent, frame, expected>>

\* The head of decodeAnalysisFrame; the body is JSON from here on.
DecodeHeader ==
    LET length == LengthIn(SubSeq(frame, 1, HeaderBytes))
    IN  /\ collection = "collected"
        /\ collection' =
             IF Len(frame) < HeaderBytes \/ Len(frame) > MaxFrameBytes + HeaderBytes THEN "FRAME_SIZE"
             ELSE IF length \notin 1..MaxFrameBytes \/ length # Len(frame) - HeaderBytes THEN "FRAME_LENGTH"
             ELSE "decoded"
        /\ UNCHANGED <<sent, frame, expected>>

CollectorNext ==
    \/ \E chunk \in ByteStrings(MaxStreamBytes - Len(sent)) : Receive(chunk)
    \/ Break("FRAME_CHUNK") \/ Break("SOURCE")
    \/ End
    \/ DecodeHeader

CollectorSpec == CollectorInit /\ [][CollectorNext]_collectorVars

-----------------------------------------------------------------------------
(* Properties                                                              *)

\* The bytes of one frame and nothing else.
IsFrame(bytes) ==
    /\ Len(bytes) > HeaderBytes /\ Len(bytes) - HeaderBytes <= MaxFrameBytes
    /\ LengthIn(SubSeq(bytes, 1, HeaderBytes)) = Len(bytes) - HeaderBytes
BeginsFrame(bytes) == \E more \in ByteStrings(MaxFrameBytes) : IsFrame(bytes \o more)

\* However the transport cuts the stream, what is collected is the stream and
\* one frame, whose header is not refused again; a stream is refused only when
\* no frame begins like it, or when it ends and is none, and it is refused as
\* soon as that shows; and no byte beyond the declared frame is ever kept
\* (analysis-frame-stream.ts:8-13, 22-46, analysis-protocol.ts:119-125).
FrameIsTheStream ==
    /\ collection \in {"collected", "decoded"} => frame = sent /\ IsFrame(sent)
    /\ collection \in {"FRAME_LENGTH", "FRAME_TRAILING"} => ~BeginsFrame(sent)
    /\ collection = "FRAME_TRUNCATED" => ~IsFrame(sent)
    /\ collection # "FRAME_SIZE"
    /\ collection = "collecting" => frame = sent /\ (Len(sent) >= HeaderBytes => BeginsFrame(sent))
    /\ expected <= MaxFrameBytes /\ Len(frame) <= HeaderBytes + expected

\* The state of the collection that keeps this true.
CollectorInv ==
    LET declared == LengthIn(SubSeq(sent, 1, HeaderBytes))
        body == Len(sent) - HeaderBytes
    IN  /\ sent \in Seq(0..Base - 1) /\ expected \in 0..MaxFrameBytes
        /\ collection \in {"collecting", "collected", "decoded", "FRAME_CHUNK", "SOURCE", "FRAME_LENGTH",
                           "FRAME_TRAILING", "FRAME_TRUNCATED"}
        /\ Len(frame) <= HeaderBytes + expected
        /\ collection \in {"collecting", "collected", "decoded"} =>
             /\ frame = sent
             /\ body < 0 => expected = 0
             /\ body >= 0 => expected = declared /\ declared \in 1..MaxFrameBytes /\ body <= declared
        /\ collection \in {"collected", "decoded"} => body = expected /\ expected > 0
        /\ collection = "FRAME_LENGTH" => body >= 0 /\ declared \notin 1..MaxFrameBytes
        /\ collection = "FRAME_TRAILING" => body > declared /\ declared \in 1..MaxFrameBytes
        /\ collection = "FRAME_TRUNCATED" => body < 0 \/ body # declared
=============================================================================
