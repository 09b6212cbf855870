-------------------------------- MODULE Wire --------------------------------
(***************************************************************************)
(* Frames on a byte stream: src/src/wire.cpp.  A byte is known by the frame *)
(* it belongs to and its offset in it; the header has HeaderBytes of them.   *)
(* A frame that was damaged on the way, or made by a broken peer, carries    *)
(* intact = FALSE; one whose payload codec fails, decodes = FALSE.           *)
(***************************************************************************)
EXTENDS Naturals, Sequences

CONSTANT HeaderBytes    \* kFrameHeaderBytes

ASSUME HeaderAssumption == HeaderBytes \in Nat \ {0}

\* ParseFrameKind.
WorkerKinds == {"hello", "place_request", "set_epoch", "shutdown", "recovery_query", "stats_query"}
ServerKinds == {"hello_ack", "place_result", "epoch_ack", "shutdown_ack", "error",
                "recovery_report", "stats_report"}
FrameKinds == WorkerKinds \cup ServerKinds

\* EncodeFrame, for a frame whose body fits the negotiated bound.
EncodeFrame(f) == [i \in 1 .. (HeaderBytes + f.size) |-> [frame |-> f, at |-> i]]

\* DecodeFrame of a buffer that holds as many bytes as the header declares.
DecodeFrame(bytes) ==
    LET f == bytes[1].frame
    IN IF bytes # EncodeFrame(f) \/ ~f.intact THEN "frame_checksum_mismatch"
       ELSE IF f.kind \notin FrameKinds THEN "wire_malformed" ELSE "frame"

\* FrameStream::Next on a buffer: "none" asks for more bytes.
NextIgnoresBody(buffer, bound) ==
    IF Len(buffer) < HeaderBytes THEN "none"
    ELSE IF buffer[1].frame.size > bound THEN "frame_too_large" ELSE "frame"
NextStatus(buffer, bound) ==
    IF Len(buffer) < HeaderBytes THEN "none"
    ELSE LET declared == buffer[1].frame.size
             total == HeaderBytes + declared
         IN IF declared > bound THEN "frame_too_large"
            ELSE IF Len(buffer) < total THEN "none"
            ELSE DecodeFrame(SubSeq(buffer, 1, total))
NextFrame(buffer) == buffer[1].frame
\* What stays buffered when the frame is taken: the beginning of the next ones.
RestDropped(buffer) == <<>>
Rest(buffer) == SubSeq(buffer, HeaderBytes + NextFrame(buffer).size + 1, Len(buffer))

=============================================================================
