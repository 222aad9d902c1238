---------------------------- MODULE ResponseScan ----------------------------
(***************************************************************************)
(* One response on its way to the client through                           *)
(* DynamicResponseScanService: its headers are scanned, its encoding is    *)
(* resolved, and its body is a ScanningBody around a DecompressingBody     *)
(* around whatever the upstream sends, which may be cut into frames        *)
(* anywhere and may fail anywhere.                                         *)
(***************************************************************************)
EXTENDS StreamScanner

CONSTANTS
    HeaderBlocks,       \* header and trailer blocks: sequences of values
    BlockUnsupported,   \* UnsupportedEncodingBehavior::Block
    MaxDecompressed,    \* MAX_DECOMPRESSED_SIZE
    MaxFrame,           \* bound: bytes in a frame (DECOMPRESS_CHUNK_SIZE if decoded)
    MaxStream           \* bound: bytes the upstream sends

ASSUME ResponseScanAssumption ==
    /\ HeaderBlocks \subseteq Seq(Seq(Byte))
    /\ BlockUnsupported \in BOOLEAN
    /\ MaxDecompressed \in Nat /\ MaxFrame \in Nat /\ MaxStream \in Nat

\* What the first Content-Encoding line says: nothing readable, one coding the
\* proxy decodes, "identity", one on the allowed list, another one, or several.
Encoding == {"none", "known", "identity", "allowed", "unknown", "stacked"}

VARIABLES
    mode,      \* "awaiting" the upstream, "refused", or the body: "raw" or "decoded"
    upstream,  \* what the inner body can still yield: "data", "end" or "nothing"
    overlap,   \* OverlapBuffer::overlap of the body's scanner
    received,  \* history: data the scanner was given
    sent,      \* history: data the client was given
    values,    \* history: the last header or trailer block scanned
    alarm,     \* where a secret was detected: "no", "headers", "body", "trailers", "final"
    completed, \* ScanningBody::completed
    error      \* the last error the client was given, or "none"

vars == <<mode, upstream, overlap, received, sent, values, alarm, completed, error>>

Frame == BoundedSeq(Byte, MaxFrame)

Init ==
    /\ mode = "awaiting" /\ upstream = "data"
    /\ overlap = <<>> /\ received = <<>> /\ sent = <<>> /\ values = <<>>
    /\ alarm = "no" /\ completed = FALSE /\ error = "none"

\* resolve_encoding
ResolveEncoding(encoding) ==
    IF encoding = "known" THEN "decoded"
    ELSE IF encoding \in {"unknown", "stacked"} /\ BlockUnsupported THEN "refused"
    ELSE "raw"

\* DynamicResponseScanService::call once the upstream's response is there.  The
\* headers have a scanner of their own.
Respond ==
    /\ mode = "awaiting"
    /\ \E block \in HeaderBlocks, encoding \in Encoding :
          /\ values' = block
          /\ \/ /\ ScanValues(<<>>, block).found
                /\ mode' = "refused" /\ alarm' = "headers" /\ error' = "SecretLeakDetected"
             \/ /\ ~ScanValues(<<>>, block).found
                /\ mode' = ResolveEncoding(encoding)
                /\ error' = IF mode' = "refused" THEN "UnsupportedContentEncoding" ELSE "none"
                /\ UNCHANGED alarm
    /\ UNCHANGED <<upstream, overlap, received, sent, completed>>

-----------------------------------------------------------------------------
(* ScanningBody::poll_frame.  Once a secret was detected every poll is     *)
(* answered with the same error; once completed, with None.                *)

Polled == mode \in {"raw", "decoded"} /\ alarm = "no" /\ ~completed

\* Mutant: the frame is checked before it is counted.
OverLimitBefore(frame) == mode = "decoded" /\ Len(received) > MaxDecompressed

\* poll_decompressing_frame: decompressed_bytes with the frame is past the limit.
OverLimit(frame) == mode = "decoded" /\ Len(received) + Len(frame) > MaxDecompressed

\* A data frame: decoded frames are never empty.
PollData ==
    /\ Polled /\ upstream = "data"
    /\ \E frame \in Frame :
          /\ Len(received) + Len(frame) <= MaxStream
          /\ mode = "decoded" => frame # <<>>
          /\ ~OverLimit(frame)
          /\ received' = received \o frame
          /\ overlap' = NextOverlap(overlap, frame)
          /\ \/ /\ ScanChunk(overlap, frame)
                /\ alarm' = "body" /\ error' = "SecretLeakDetected"
                /\ UNCHANGED sent
             \/ /\ ~ScanChunk(overlap, frame)
                /\ sent' = sent \o frame
                /\ UNCHANGED <<alarm, error>>
    /\ UNCHANGED <<mode, upstream, values, completed>>

\* A decoded frame past the limit completes the inner body.
PollOverLimit ==
    /\ Polled /\ upstream = "data"
    /\ \E frame \in Frame : Len(received) + Len(frame) <= MaxStream /\ OverLimit(frame)
    /\ upstream' = "nothing" /\ error' = "SizeLimitExceeded"
    /\ UNCHANGED <<mode, overlap, received, sent, values, alarm, completed>>

\* The trailers, the last frame of a raw body; a decoder drops them.
PollTrailers ==
    /\ Polled /\ upstream = "data" /\ mode = "raw"
    /\ \E block \in HeaderBlocks :
          LET scan == ScanValues(overlap, block)
          IN /\ values' = block
             /\ overlap' = scan.overlap
             /\ alarm' = IF scan.found THEN "trailers" ELSE alarm
             /\ error' = IF scan.found THEN "SecretLeakDetected" ELSE error
    /\ upstream' = "end"
    /\ UNCHANGED <<mode, received, sent, completed>>

\* The upstream, or the decoder, fails; the error is passed on.
PollError ==
    /\ Polled /\ upstream # "nothing"
    /\ upstream' = "nothing" /\ error' = "BodyError"
    /\ UNCHANGED <<mode, overlap, received, sent, values, alarm, completed>>

\* The end: what is left in the overlap is scanned once more.
PollEnd ==
    /\ Polled
    /\ completed' = TRUE /\ upstream' = "nothing" /\ overlap' = <<>>
    /\ alarm' = IF ScanChunk(overlap, <<>>) THEN "final" ELSE alarm
    /\ error' = IF ScanChunk(overlap, <<>>) THEN "SecretLeakDetected" ELSE error
    /\ UNCHANGED <<mode, received, sent, values>>

Next == Respond \/ PollData \/ PollOverLimit \/ PollTrailers \/ PollError \/ PollEnd

Spec == Init /\ [][Next]_vars

-----------------------------------------------------------------------------
(* Properties                                                              *)

TypeOK ==
    /\ mode \in {"awaiting", "refused", "raw", "decoded"}
    /\ upstream \in {"data", "end", "nothing"}
    /\ upstream = "data" => overlap \in Seq(Byte) /\ Len(overlap) <= OverlapSize
    /\ received \in Seq(Byte) /\ sent \in Seq(Byte) /\ values \in Seq(Seq(Byte))
    /\ alarm \in {"no", "headers", "body", "trailers", "final"}
    /\ completed \in BOOLEAN

\* However the upstream cuts its body into frames, the data the client was given
\* holds no secret, whole or across frames.  (The empty pattern is in any data.)
NothingLeaks == \A p \in Patterns \ {<<>>} : ~ContainsPattern(sent, p)

\* The scanner raises no false alarm on a body: where it does, a secret is in the
\* data, not only in what the overlap makes of it.
AlarmIsTrue == alarm = "body" => ContainsAny(received)

\* The client gets the body of the upstream byte for byte: all that the scanner was
\* given, unless and until there is an alarm; decoded, never more than the limit.
Transparent ==
    /\ IsPrefix(sent, received)
    /\ alarm # "body" => sent = received
    /\ mode = "decoded" => Len(sent) <= MaxDecompressed

\* No block is let through with a secret in one of its values.
HeadersClean ==
    alarm \notin {"headers", "trailers"} => \A i \in DOMAIN values : ~ContainsAny(values[i])
=============================================================================
