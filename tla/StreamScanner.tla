--------------------------- MODULE StreamScanner ---------------------------
(***************************************************************************)
(* OverlapBuffer and StreamScanner (icebreaker-proxy, body): searching a   *)
(* stream for secrets while it goes by in chunks.  The scanner keeps the   *)
(* last OverlapSize bytes it has seen and searches them together with the  *)
(* next chunk.  Bytes are members of any set; only equality matters.       *)
(***************************************************************************)
EXTENDS Integers, SequencesExt

CONSTANTS
    Byte,
    Patterns,       \* the byte strings searched for
    DefaultOverlap  \* DEFAULT_OVERLAP_SIZE

PatternSizes == {Len(p) : p \in Patterns} \cup {DefaultOverlap}

\* A Vec of patterns is finite, so one of them is the longest.
ASSUME ScannerAssumption ==
    /\ Patterns \subseteq Seq(Byte)
    /\ DefaultOverlap \in Nat
    /\ \E n \in PatternSizes : \A m \in PatternSizes : m <= n

\* StreamScanner::new: max_pattern_len.max(DEFAULT_OVERLAP_SIZE)
OverlapSize == CHOOSE n \in PatternSizes : \A m \in PatternSizes : m <= n

\* contains_pattern: some window of the haystack is the needle.  The empty needle
\* is in every haystack.
ContainsPattern(haystack, needle) ==
    \E i \in 0 .. Len(haystack) - Len(needle) :
        \A j \in 1 .. Len(needle) : haystack[i + j] = needle[j]

ContainsAny(haystack) == \E p \in Patterns : ContainsPattern(haystack, p)

\* Mutant: the wrong end is kept.
FirstBytes(s, n) == SubSeq(s, 1, n)

LastBytes(s, n) == SubSeq(s, Len(s) - n + 1, Len(s))

\* Mutant: a chunk shorter than the overlap replaces it.
NextOverlapOfChunk(overlap, chunk) ==
    IF Len(chunk) >= OverlapSize THEN LastBytes(chunk, OverlapSize) ELSE chunk

\* Mutant: the overlap is never cut.
NextOverlapUncut(overlap, chunk) == overlap \o chunk

\* OverlapBuffer::process on a chunk that is not the last: the overlap it leaves.
NextOverlap(overlap, chunk) ==
    IF Len(chunk) >= OverlapSize THEN LastBytes(chunk, OverlapSize)
    ELSE IF Len(overlap \o chunk) >= OverlapSize THEN LastBytes(overlap \o chunk, OverlapSize)
    ELSE overlap \o chunk

\* StreamScanner::scan_chunk: whether a pattern is in the searchable region.
ScanChunk(overlap, chunk) == ContainsAny(overlap \o chunk)

\* Mutant: the loop returns with the first value that has anything in it.
ScanValueFirstOnly(scan, value) ==
    IF scan.found \/ scan.overlap # <<>> THEN scan
    ELSE [found |-> ScanChunk(scan.overlap, value), overlap |-> NextOverlap(scan.overlap, value)]

\* scan_header_values: one scanner goes over the values, and stops at a hit.
ScanValue(scan, value) ==
    IF scan.found THEN scan
    ELSE [found |-> ScanChunk(scan.overlap, value), overlap |-> NextOverlap(scan.overlap, value)]

\* What the scanner has made of the first n values, for every n.
ScanLoop(overlap, values) ==
    LET after[n \in 0..Len(values)] ==
            IF n = 0 THEN [found |-> FALSE, overlap |-> overlap]
            ELSE ScanValue(after[n - 1], values[n])
    IN after

ScanValues(overlap, values) == ScanLoop(overlap, values)[Len(values)]
=============================================================================
