------------------------- MODULE ResponseScanProofs -------------------------
(***************************************************************************)
(* Whatever the frames, the patterns and their lengths: no secret passes   *)
(* the scanner in the data of a body, and no body is stopped without one.  *)
(***************************************************************************)
EXTENDS ResponseScan, SequenceTheorems, WellFoundedInduction, TLAPS

\* o is the end of s, as much of it as the overlap holds.
IsTail(o, s) ==
    /\ Len(o) <= OverlapSize
    /\ \E h \in Seq(Byte) : s = h \o o /\ (Len(o) = OverlapSize \/ h = <<>>)

\* While data can come, the overlap is the end of the data scanned so far.
OverlapInv == upstream = "data" /\ alarm = "no" => IsTail(overlap, received)

\* What the client has and what the scanner was given are the same until an alarm.
ScanInv ==
    /\ OverlapInv
    /\ mode = "awaiting" => sent = <<>> /\ received = <<>> /\ alarm = "no"
    /\ alarm = "no" => sent = received
    /\ Transparent
    /\ NothingLeaks
    /\ AlarmIsTrue

-----------------------------------------------------------------------------
(* The scanner                                                             *)

\* The overlap is at least as long as every pattern.
LEMMA OverlapSizeBound ==
    OverlapSize \in Nat /\ \A p \in Patterns : Len(p) \in Nat /\ Len(p) <= OverlapSize
  <1>1. OverlapSize \in PatternSizes /\ \A m \in PatternSizes : m <= OverlapSize
    BY ScannerAssumption DEF OverlapSize
  <1>2. \A p \in Patterns : Len(p) \in Nat
    BY ScannerAssumption
  <1>3. QED BY <1>1, <1>2, ScannerAssumption DEF PatternSizes

\* What LastBytes cuts off and what it keeps make up the whole.
LEMMA LastBytesSplit ==
    ASSUME NEW t \in Seq(Byte), NEW n \in Nat, n <= Len(t)
    PROVE  /\ LastBytes(t, n) \in Seq(Byte) /\ Len(LastBytes(t, n)) = n
           /\ \E h \in Seq(Byte) : t = h \o LastBytes(t, n)
  <1>1. LastBytes(t, n) \in Seq(Byte) /\ Len(LastBytes(t, n)) = n
    BY DEF LastBytes
  <1> DEFINE h == SubSeq(t, 1, Len(t) - n)
  <1>2. h \in Seq(Byte) OBVIOUS
  <1>3. h \o LastBytes(t, n) = SubSeq(t, 1, Len(t))
    <2>1. /\ 1 \in 1 .. Len(t) + 1 /\ Len(t) - n \in 1 - 1 .. Len(t)
          /\ Len(t) \in Len(t) - n .. Len(t)
      OBVIOUS
    <2>2. QED BY <2>1, ConcatAdjacentSubSeq, Zenon DEF LastBytes
  <1>4. SubSeq(t, 1, Len(t)) = t BY SubSeqFull
  <1>5. QED BY <1>1, <1>2, <1>3, <1>4

\* An end of full length is all that the overlap holds.
LEMMA TailOfWhole ==
    ASSUME NEW s \in Seq(Byte), NEW g \in Seq(Byte), NEW l \in Seq(Byte), Len(l) = OverlapSize
    PROVE  IsTail(l, s \o (g \o l))
  <1>1. s \o g \in Seq(Byte) OBVIOUS
  <1>2. Len(l) <= OverlapSize BY OverlapSizeBound
  <1>3. s \o (g \o l) = (s \o g) \o l BY ConcatAssociative, SMT
  <1>4. QED BY <1>1, <1>2, <1>3, Zenon DEF IsTail

\* OverlapBuffer::process leaves the end of everything seen so far.
LEMMA NextOverlapIsTail ==
    ASSUME NEW s \in Seq(Byte), NEW o \in Seq(Byte), NEW c \in Seq(Byte), IsTail(o, s)
    PROVE  NextOverlap(o, c) \in Seq(Byte) /\ IsTail(NextOverlap(o, c), s \o c)
  <1> DEFINE n == OverlapSize
  <1>1. n \in Nat BY OverlapSizeBound
  <1>2. PICK h \in Seq(Byte) : s = h \o o /\ (Len(o) = n \/ h = <<>>) /\ Len(o) <= n
    BY DEF IsTail
  <1>3. o \o c \in Seq(Byte) /\ Len(o \o c) = Len(o) + Len(c)
    OBVIOUS
  <1>4. s \o c = h \o (o \o c) BY <1>2, ConcatAssociative
  <1>5. CASE Len(c) >= n
    <2> DEFINE l == LastBytes(c, n)
    <2>1. NextOverlap(o, c) = l BY <1>5 DEF NextOverlap
    <2>2. PICK g \in Seq(Byte) : c = g \o l
      BY <1>1, <1>5, LastBytesSplit
    <2>3. l \in Seq(Byte) /\ Len(l) = n
      BY <1>1, <1>5, LastBytesSplit
    <2> HIDE DEF l
    <2>4. IsTail(l, s \o (g \o l)) BY <2>3, TailOfWhole
    <2>5. QED BY <2>1, <2>2, <2>3, <2>4
  <1>6. CASE Len(c) < n /\ Len(o \o c) >= n
    <2> DEFINE l == LastBytes(o \o c, n)
    <2>1. NextOverlap(o, c) = l BY <1>1, <1>6 DEF NextOverlap
    <2>2. PICK g \in Seq(Byte) : o \o c = g \o l
      BY <1>1, <1>3, <1>6, LastBytesSplit
    <2>3. l \in Seq(Byte) /\ Len(l) = n
      BY <1>1, <1>3, <1>6, LastBytesSplit
    <2> HIDE DEF l
    <2>4. IsTail(l, h \o (g \o l)) BY <2>3, TailOfWhole
    <2>5. QED BY <1>4, <2>1, <2>2, <2>3, <2>4
  <1>7. CASE Len(c) < n /\ Len(o \o c) < n
    <2>1. NextOverlap(o, c) = o \o c BY <1>1, <1>3, <1>7 DEF NextOverlap
    <2>2. Len(o) < n BY <1>1, <1>3, <1>7
    <2>3. h = <<>> BY <1>1, <1>2, <2>2
    <2>4. Len(o \o c) <= n BY <1>1, <1>3, <1>7
    <2>5. IsTail(o \o c, s \o c) BY <1>4, <2>3, <2>4, Zenon DEF IsTail
    <2>6. QED BY <1>3, <2>1, <2>5
  <1>8. QED BY <1>1, <1>3, <1>5, <1>6, <1>7

\* Patterns in the right part of a concatenation.
LEMMA MatchInRight ==
    ASSUME NEW h \in Seq(Byte), NEW t \in Seq(Byte), NEW p \in Seq(Byte)
    PROVE  /\ ContainsPattern(t, p) => ContainsPattern(h \o t, p)
           /\ \A i \in Len(h) .. Len(h) + Len(t) - Len(p) :
                 (\A j \in 1 .. Len(p) : (h \o t)[i + j] = p[j]) => ContainsPattern(t, p)
  <1>1. \A k \in 0 .. Len(t) - Len(p), j \in 1 .. Len(p) : (h \o t)[Len(h) + k + j] = t[k + j]
    <2> TAKE k \in 0 .. Len(t) - Len(p), j \in 1 .. Len(p)
    <2>1. Len(h) + k + j \in Len(h) + 1 .. Len(h) + Len(t) OBVIOUS
    <2>2. QED BY <2>1
  <1>2. ASSUME ContainsPattern(t, p) PROVE ContainsPattern(h \o t, p)
    <2>1. PICK k \in 0 .. Len(t) - Len(p) : \A j \in 1 .. Len(p) : t[k + j] = p[j]
      BY <1>2 DEF ContainsPattern
    <2>2. Len(h) + k \in 0 .. Len(h \o t) - Len(p) OBVIOUS
    <2>3. \A j \in 1 .. Len(p) : (h \o t)[(Len(h) + k) + j] = p[j] BY <1>1, <2>1
    <2>4. QED BY <2>2, <2>3, Zenon DEF ContainsPattern
  <1>3. ASSUME NEW i \in Len(h) .. Len(h) + Len(t) - Len(p),
               \A j \in 1 .. Len(p) : (h \o t)[i + j] = p[j]
        PROVE  ContainsPattern(t, p)
    <2>1. i - Len(h) \in 0 .. Len(t) - Len(p) OBVIOUS
    <2>2. \A j \in 1 .. Len(p) : t[(i - Len(h)) + j] = p[j]
      <3> TAKE j \in 1 .. Len(p)
      <3>1. (h \o t)[Len(h) + (i - Len(h)) + j] = t[(i - Len(h)) + j] BY <1>1, <2>1
      <3>2. Len(h) + (i - Len(h)) + j = i + j OBVIOUS
      <3>3. QED BY <1>3, <3>1, <3>2
    <2>3. QED BY <2>1, <2>2, Zenon DEF ContainsPattern
  <1>4. QED BY <1>2, <1>3

\* A pattern that the new data completes lies within the overlap and the chunk.
LEMMA NewMatchIsSeen ==
    ASSUME NEW s \in Seq(Byte), NEW o \in Seq(Byte), NEW c \in Seq(Byte), IsTail(o, s),
           NEW p \in Patterns, ContainsPattern(s \o c, p), ~ContainsPattern(s, p)
    PROVE  ContainsPattern(o \o c, p)
  <1>1. p \in Seq(Byte) /\ OverlapSize \in Nat /\ Len(p) <= OverlapSize
    BY OverlapSizeBound, ScannerAssumption
  <1>2. PICK h \in Seq(Byte) : s = h \o o /\ (Len(o) = OverlapSize \/ h = <<>>)
    BY DEF IsTail
  <1>3. s \o c = h \o (o \o c) BY <1>2, ConcatAssociative
  <1>4. PICK i \in 0 .. Len(s \o c) - Len(p) : \A j \in 1 .. Len(p) : (s \o c)[i + j] = p[j]
    BY DEF ContainsPattern
  <1>5. i + Len(p) > Len(s)
    <2>1. SUFFICES ASSUME i + Len(p) <= Len(s) PROVE ContainsPattern(s, p)
      BY <1>1
    <2>2. i \in 0 .. Len(s) - Len(p) BY <1>1, <2>1
    <2>3. \A j \in 1 .. Len(p) : s[i + j] = p[j]
      <3> TAKE j \in 1 .. Len(p)
      <3>1. i + j \in 1 .. Len(s) BY <1>1, <2>1
      <3>2. (s \o c)[i + j] = s[i + j] BY <3>1
      <3>3. QED BY <1>4, <3>2
    <2>4. QED BY <2>2, <2>3, Zenon DEF ContainsPattern
  <1>6. Len(s) = Len(h) + Len(o) BY <1>2
  <1>7. Len(h) <= i
    <2>1. CASE Len(o) = OverlapSize BY <1>1, <1>5, <1>6, <2>1
    <2>2. CASE h = <<>> BY <2>2
    <2>3. QED BY <1>2, <2>1, <2>2
  <1> DEFINE t == o \o c
  <1>8. t \in Seq(Byte) /\ Len(s \o c) = Len(h) + Len(t)
    <2>1. Len(s \o c) = Len(s) + Len(c) /\ Len(o \o c) = Len(o) + Len(c) OBVIOUS
    <2>2. QED BY <1>6, <2>1
  <1>9. i \in Len(h) .. Len(h) + Len(t) - Len(p) BY <1>1, <1>7, <1>8
  <1>10. \A j \in 1 .. Len(p) : (h \o t)[i + j] = p[j] BY <1>3, <1>4, Zenon
  <1> HIDE DEF t
  <1>11. ContainsPattern(t, p)
    <2>1. \A k \in Len(h) .. Len(h) + Len(t) - Len(p) :
             (\A j \in 1 .. Len(p) : (h \o t)[k + j] = p[j]) => ContainsPattern(t, p)
      BY <1>1, <1>8, MatchInRight, Zenon
    <2>2. QED BY <1>9, <1>10, <2>1, Zenon
  <1>12. QED BY <1>11, Zenon DEF t

\* What is found in the overlap and the chunk is in the data.
LEMMA SeenMatchIsReal ==
    ASSUME NEW s \in Seq(Byte), NEW o \in Seq(Byte), NEW c \in Seq(Byte), IsTail(o, s),
           NEW p \in Patterns, ContainsPattern(o \o c, p)
    PROVE  ContainsPattern(s \o c, p)
  <1>1. PICK h \in Seq(Byte) : s = h \o o BY DEF IsTail
  <1>2. s \o c = h \o (o \o c) BY <1>1, ConcatAssociative
  <1>3. p \in Seq(Byte) /\ o \o c \in Seq(Byte) BY ScannerAssumption
  <1>4. QED BY <1>2, <1>3, MatchInRight

-----------------------------------------------------------------------------
(* The body                                                                *)

LEMMA FrameType == Frame \subseteq Seq(Byte)
  BY ResponseScanAssumption DEF Frame, BoundedSeq, SeqOf

\* Every reachable state is well typed; the overlap never outgrows its size.
THEOREM ScanTypeCorrect == Spec => [](TypeOK /\ OverlapInv)
  <1>1. Init => TypeOK /\ OverlapInv
    <2> SUFFICES ASSUME Init PROVE TypeOK /\ OverlapInv
      OBVIOUS
    <2>1. OverlapSize \in Nat BY OverlapSizeBound
    <2>2. IsTail(<<>>, <<>>)
      <3>1. <<>> \in Seq(Byte) /\ <<>> = <<>> \o <<>> /\ Len(<<>>) <= OverlapSize
        BY <2>1
      <3>2. QED BY <3>1, Zenon DEF IsTail
    <2>3. OverlapInv BY <2>2, Zenon DEF Init, OverlapInv
    <2>4. <<>> \in Seq(Byte) /\ <<>> \in Seq(Seq(Byte)) /\ Len(<<>>) <= OverlapSize
      BY <2>1
    <2>5. TypeOK BY <2>4, Zenon DEF Init, TypeOK
    <2>6. QED BY <2>3, <2>5
  <1>2. TypeOK /\ OverlapInv /\ [Next]_vars => TypeOK' /\ OverlapInv'
    <2> SUFFICES ASSUME TypeOK, OverlapInv, [Next]_vars
                 PROVE  TypeOK' /\ OverlapInv'
      OBVIOUS
    <2>1. CASE Respond
      BY <2>1, ResponseScanAssumption DEF Respond, TypeOK, OverlapInv, ResolveEncoding
    <2>2. CASE PollData
      <3>1. PICK f \in Frame : received' = received \o f /\ overlap' = NextOverlap(overlap, f)
                               /\ (sent' = sent \/ sent' = sent \o f)
        BY <2>2 DEF PollData
      <3>2. f \in Seq(Byte) BY FrameType
      <3>3. overlap \in Seq(Byte) /\ IsTail(overlap, received)
        BY <2>2 DEF PollData, Polled, TypeOK, OverlapInv
      <3>4. overlap' \in Seq(Byte) /\ IsTail(overlap', received')
        BY <3>1, <3>2, <3>3, NextOverlapIsTail DEF TypeOK
      <3>5. Len(overlap') <= OverlapSize BY <3>4 DEF IsTail
      <3>6. received' \in Seq(Byte) /\ sent' \in Seq(Byte)
        <4>1. received \o f \in Seq(Byte) /\ sent \o f \in Seq(Byte) BY <3>2 DEF TypeOK
        <4>2. QED BY <3>1, <4>1, Zenon DEF TypeOK
      <3>7. QED BY <2>2, <3>4, <3>5, <3>6 DEF PollData, TypeOK, OverlapInv
    <2>3. CASE PollOverLimit
      BY <2>3 DEF PollOverLimit, TypeOK, OverlapInv
    <2>4. CASE PollTrailers
      BY <2>4, ResponseScanAssumption DEF PollTrailers, TypeOK, OverlapInv
    <2>5. CASE PollError
      BY <2>5 DEF PollError, TypeOK, OverlapInv
    <2>6. CASE PollEnd
      BY <2>6 DEF PollEnd, TypeOK, OverlapInv
    <2>7. CASE UNCHANGED vars
      BY <2>7 DEF vars, TypeOK, OverlapInv
    <2>8. QED BY <2>1, <2>2, <2>3, <2>4, <2>5, <2>6, <2>7 DEF Next
  <1>3. QED BY <1>1, <1>2, PTL DEF Spec

\* A data frame keeps the invariant: withheld with a secret in it, passed on without.
LEMMA DataKeepsScanInv ==
    ASSUME TypeOK, ScanInv, OverlapInv', PollData
    PROVE  ScanInv'
  <1>1. PICK f \in Frame :
            /\ ~OverLimit(f)
            /\ received' = received \o f
            /\ \/ ScanChunk(overlap, f) /\ alarm' = "body" /\ sent' = sent
               \/ ~ScanChunk(overlap, f) /\ sent' = sent \o f /\ alarm' = alarm
    BY DEF PollData
  <1>2. /\ f \in Seq(Byte) /\ overlap \in Seq(Byte) /\ received \in Seq(Byte)
        /\ IsTail(overlap, received) /\ sent = received /\ alarm = "no"
        /\ mode' = mode /\ mode # "awaiting"
    BY FrameType DEF PollData, Polled, TypeOK, ScanInv, OverlapInv
  <1>3. received \o f \in Seq(Byte) /\ Len(received \o f) = Len(received) + Len(f)
    BY <1>2
  <1>4. IsPrefix(received, received \o f) /\ IsPrefix(received \o f, received \o f)
    BY <1>2, <1>3 DEF IsPrefix
  <1>5. CASE ScanChunk(overlap, f) /\ alarm' = "body" /\ sent' = sent
    <2>1. PICK p \in Patterns : ContainsPattern(overlap \o f, p)
      BY <1>5 DEF ScanChunk, ContainsAny
    <2>2. ContainsPattern(received', p) BY <1>1, <1>2, <2>1, SeenMatchIsReal
    <2>3. AlarmIsTrue' BY <2>2, Zenon DEF AlarmIsTrue, ContainsAny
    <2>4. NothingLeaks' BY <1>5 DEF ScanInv, NothingLeaks
    <2>5. Transparent' BY <1>1, <1>2, <1>4, <1>5 DEF ScanInv, Transparent
    <2>6. QED BY <1>2, <1>5, <2>3, <2>4, <2>5 DEF ScanInv, OverlapInv
  <1>6. CASE ~ScanChunk(overlap, f) /\ sent' = sent \o f /\ alarm' = alarm
    <2>1. sent' = received' BY <1>1, <1>2, <1>6
    <2>2. NothingLeaks'
      <3> SUFFICES ASSUME NEW p \in Patterns \ {<<>>} PROVE ~ContainsPattern(received', p)
        BY <2>1 DEF NothingLeaks
      <3>1. ~ContainsPattern(overlap \o f, p) BY <1>6 DEF ScanChunk, ContainsAny
      <3>2. ~ContainsPattern(received, p) BY <1>2 DEF ScanInv, NothingLeaks
      <3>3. QED BY <1>1, <1>2, <3>1, <3>2, NewMatchIsSeen
    <2>3. Transparent'
      <3>1. mode = "decoded" => Len(received') <= MaxDecompressed
        BY <1>1, <1>2, <1>3, ResponseScanAssumption DEF OverLimit
      <3>2. QED BY <1>1, <1>2, <1>4, <2>1, <3>1 DEF Transparent
    <2>4. AlarmIsTrue' BY <1>2, <1>6 DEF AlarmIsTrue
    <2>5. QED BY <1>2, <2>1, <2>2, <2>3, <2>4 DEF ScanInv
  <1>7. QED BY <1>1, <1>5, <1>6

\* The invariant of the scan holds of every reachable state.
LEMMA ScanInvHolds == Spec => []ScanInv
  <1>1. Init => ScanInv
    <2> SUFFICES ASSUME Init, OverlapInv PROVE ScanInv
      <3>1. OverlapSize \in Nat BY OverlapSizeBound
      <3>2. <<>> \in Seq(Byte) /\ <<>> = <<>> \o <<>> /\ Len(<<>>) <= OverlapSize
        BY <3>1
      <3>3. IsTail(<<>>, <<>>) BY <3>2, Zenon DEF IsTail
      <3>4. Init => OverlapInv BY <3>3, Zenon DEF Init, OverlapInv
      <3>5. QED BY <3>4
    <2>1. NothingLeaks
      <3>1. \A p \in Patterns \ {<<>>} : Len(p) \in Nat \ {0} BY ScannerAssumption
      <3>2. QED BY <3>1 DEF Init, NothingLeaks, ContainsPattern
    <2>2. Transparent BY ResponseScanAssumption DEF Init, Transparent, IsPrefix
    <2>3. AlarmIsTrue BY DEF Init, AlarmIsTrue
    <2>4. QED BY <2>1, <2>2, <2>3 DEF Init, ScanInv
  <1>2. TypeOK /\ ScanInv /\ [Next]_vars /\ OverlapInv' => ScanInv'
    <2> SUFFICES ASSUME TypeOK, ScanInv, [Next]_vars, OverlapInv'
                 PROVE  ScanInv'
      OBVIOUS
    <2>1. CASE PollData BY <2>1, DataKeepsScanInv
    <2>2. CASE Respond
      <3>1. /\ sent' = sent /\ received' = received /\ mode = "awaiting"
            /\ mode' # "awaiting" /\ alarm' \in {"no", "headers"}
        BY <2>2 DEF Respond, ResolveEncoding, ScanInv
      <3>2. sent = <<>> /\ received = <<>> BY <3>1 DEF ScanInv
      <3>3. Transparent'
        BY <3>1, <3>2, ResponseScanAssumption DEF Transparent, IsPrefix
      <3>4. NothingLeaks' BY <3>1 DEF ScanInv, NothingLeaks
      <3>5. AlarmIsTrue' BY <3>1 DEF AlarmIsTrue
      <3>6. QED BY <3>1, <3>2, <3>3, <3>4, <3>5 DEF ScanInv
    <2>3. CASE PollOverLimit \/ PollTrailers \/ PollError \/ PollEnd \/ UNCHANGED vars
      <3>1. /\ sent' = sent /\ received' = received /\ mode' = mode
            /\ \/ alarm' = alarm
               \/ mode # "awaiting" /\ alarm = "no" /\ alarm' \in {"trailers", "final"}
        <4>1. CASE PollOverLimit BY <4>1 DEF PollOverLimit
        <4>2. CASE PollTrailers BY <4>2 DEF PollTrailers, Polled
        <4>3. CASE PollError BY <4>3 DEF PollError
        <4>4. CASE PollEnd BY <4>4 DEF PollEnd, Polled
        <4>5. CASE UNCHANGED vars BY <4>5 DEF vars
        <4>6. QED BY <2>3, <4>1, <4>2, <4>3, <4>4, <4>5
      <3>2. Transparent' BY <3>1 DEF ScanInv, Transparent
      <3>3. NothingLeaks' BY <3>1 DEF ScanInv, NothingLeaks
      <3>4. AlarmIsTrue' BY <3>1 DEF ScanInv, AlarmIsTrue
      <3>5. QED BY <3>1, <3>2, <3>3, <3>4 DEF ScanInv
    <2>4. QED BY <2>1, <2>2, <2>3 DEF Next
  <1>3. QED BY <1>1, <1>2, ScanTypeCorrect, PTL DEF Spec

\* No secret reaches the client in the data of a body, for any set of patterns
\* and any way the upstream cuts its body into frames.
THEOREM NoSecretPasses == Spec => []NothingLeaks
  <1>1. ScanInv => NothingLeaks BY DEF ScanInv
  <1>2. QED BY <1>1, ScanInvHolds, PTL

\* A body is stopped only where there is a secret in it.
THEOREM NoFalseAlarm == Spec => []AlarmIsTrue
  <1>1. ScanInv => AlarmIsTrue BY DEF ScanInv
  <1>2. QED BY <1>1, ScanInvHolds, PTL

\* The client gets what the scanner was given, byte for byte, up to an alarm, and
\* of a decoded body no more than the limit.
THEOREM BodyIsTransparent == Spec => []Transparent
  <1>1. ScanInv => Transparent BY DEF ScanInv
  <1>2. QED BY <1>1, ScanInvHolds, PTL

-----------------------------------------------------------------------------
(* Headers and trailers: a loop over their values                          *)

\* A set of numbers that is not empty has a least one.
LEMMA LeastNumber ==
    ASSUME NEW T \in SUBSET Nat, T # {}
    PROVE  \E m \in T : \A k \in T : m <= k
  <1> DEFINE R == OpToRel(<, Nat)
  <1>1. IsWellFoundedOn(R, Nat) BY NatLessThanWellFounded
  <1>2. \A x, y \in Nat : y < x => <<y, x>> \in R BY DEF OpToRel
  <1> HIDE DEF R
  <1>3. PICK x \in T : \A y \in T : ~(<<y, x>> \in R) BY <1>1, WFMin
  <1>4. \A k \in T : ~(k < x) BY <1>2, <1>3
  <1>5. QED BY <1>4

\* f is the loop's course over the first n values, from an overlap o.
IsCourse(f, n, o, vs) ==
    /\ DOMAIN f = 0..n
    /\ f[0] = [found |-> FALSE, overlap |-> o]
    /\ \A i \in 1..n : f[i] = ScanValue(f[i - 1], vs[i])

LEMMA CourseExists ==
    ASSUME NEW o, NEW vs, NEW n \in Nat
    PROVE  \E f : IsCourse(f, n, o, vs)
  <1> DEFINE T == {m \in Nat : ~ \E f : IsCourse(f, m, o, vs)}
  <1> SUFFICES ASSUME T # {} PROVE FALSE
    OBVIOUS
  <1>1. PICK m \in T : \A k \in T : m <= k BY LeastNumber
  <1>2. CASE m = 0
    <2> DEFINE f == [i \in 0..0 |-> [found |-> FALSE, overlap |-> o]]
    <2>1. IsCourse(f, 0, o, vs) BY DEF IsCourse
    <2>2. QED BY <1>1, <1>2, <2>1
  <1>3. CASE m # 0
    <2>1. m \in Nat /\ m - 1 \in Nat /\ m - 1 \notin T BY <1>1, <1>3
    <2>2. PICK g : IsCourse(g, m - 1, o, vs) BY <2>1
    <2> DEFINE f == [i \in 0..m |-> IF i = m THEN ScanValue(g[m - 1], vs[m]) ELSE g[i]]
    <2>3. DOMAIN f = 0..m /\ f[0] = [found |-> FALSE, overlap |-> o]
      <3>1. f[0] = g[0] BY <1>3, <2>1
      <3>2. g[0] = [found |-> FALSE, overlap |-> o] BY <2>2 DEF IsCourse
      <3>3. DOMAIN f = 0..m OBVIOUS
      <3> HIDE DEF f
      <3>4. QED BY <3>1, <3>2, <3>3
    <2>4. ASSUME NEW i \in 1..m PROVE f[i] = ScanValue(f[i - 1], vs[i])
      <3>1. CASE i = m BY <2>1, <3>1
      <3>2. CASE i # m
        <4>1. i \in 1..(m - 1) /\ i - 1 \in 0..m /\ i - 1 # m BY <2>1, <3>2
        <4>2. QED BY <2>2, <4>1 DEF IsCourse
      <3>3. QED BY <3>1, <3>2
    <2> HIDE DEF f
    <2>5. IsCourse(f, m, o, vs) BY <2>3, <2>4 DEF IsCourse
    <2>6. QED BY <1>1, <2>5
  <1>4. QED BY <1>2, <1>3

\* The loop of scan_header_values goes as it is written.
LEMMA ScanLoopUnfolds ==
    ASSUME NEW o, NEW vs, Len(vs) \in Nat
    PROVE  IsCourse(ScanLoop(o, vs), Len(vs), o, vs)
  <1> DEFINE n == Len(vs)
             Body(f) == [i \in 0..n |-> IF i = 0 THEN [found |-> FALSE, overlap |-> o]
                                        ELSE ScanValue(f[i - 1], vs[i])]
  <1>1. PICK g : IsCourse(g, n, o, vs) BY CourseExists
  <1> DEFINE f == [i \in 0..n |-> g[i]]
  <1>2. f = Body(f)
    <2>1. ASSUME NEW i \in 0..n PROVE f[i] = Body(f)[i]
      <3>1. CASE i = 0 BY <1>1, <3>1 DEF IsCourse
      <3>2. CASE i # 0
        <4>1. i \in 1..n /\ i - 1 \in 0..n BY <3>2
        <4>2. f[i] = g[i] /\ f[i - 1] = g[i - 1] BY <4>1
        <4>3. g[i] = ScanValue(g[i - 1], vs[i]) BY <1>1, <4>1 DEF IsCourse
        <4> HIDE DEF f
        <4>4. QED BY <3>2, <4>1, <4>2, <4>3
      <3>3. QED BY <3>1, <3>2
    <2>2. QED BY <2>1, Zenon
  <1> DEFINE l == ScanLoop(o, vs)
  <1>3. l = CHOOSE h : h = Body(h) BY DEF ScanLoop
  <1>4. l = Body(l)
    <2> HIDE DEF Body, f, l
    <2>1. QED BY <1>2, <1>3, Zenon
  <1> HIDE DEF l
  <1> SUFFICES IsCourse(l, n, o, vs) BY DEF l
  <1>5. DOMAIN l = 0..n /\ 0 \in 0..n BY <1>4
  <1>6. \A i \in 0..n : l[i] = IF i = 0 THEN [found |-> FALSE, overlap |-> o]
                               ELSE ScanValue(l[i - 1], vs[i])
    BY <1>4
  <1>7. QED BY <1>5, <1>6 DEF IsCourse

\* What can be an overlap.
IsOverlap(o) == o \in Seq(Byte) /\ Len(o) <= OverlapSize

\* Scanning one value leaves an overlap, and finds whatever pattern is in it.
LEMMA ValueIsScanned ==
    ASSUME NEW o, IsOverlap(o), NEW v \in Seq(Byte)
    PROVE  /\ IsOverlap(NextOverlap(o, v))
           /\ ContainsAny(v) => ScanChunk(o, v)
  <1>1. o \in Seq(Byte) /\ Len(o) <= OverlapSize BY DEF IsOverlap
  <1>2. IsTail(o, o)
    <2>1. <<>> \in Seq(Byte) /\ o = <<>> \o o BY <1>1
    <2>2. QED BY <1>1, <2>1, Zenon DEF IsTail
  <1>3. IsOverlap(NextOverlap(o, v)) BY <1>1, <1>2, NextOverlapIsTail DEF IsOverlap, IsTail
  <1>4. ASSUME NEW p \in Patterns, ContainsPattern(v, p) PROVE ContainsPattern(o \o v, p)
    <2>1. p \in Seq(Byte) BY ScannerAssumption
    <2>2. QED BY <1>1, <1>4, <2>1, MatchInRight
  <1>5. QED BY <1>3, <1>4 DEF ContainsAny, ScanChunk

\* A block in which the loop finds nothing has no pattern in any of its values,
\* however many there are and whatever overlap the scanner starts with.
LEMMA CleanBlock ==
    ASSUME NEW o, IsOverlap(o), NEW vs \in Seq(Seq(Byte)), ~ScanValues(o, vs).found
    PROVE  \A i \in DOMAIN vs : ~ContainsAny(vs[i])
  <1> DEFINE n == Len(vs)
             f == ScanLoop(o, vs)
             Done(scan, k) ==
                 /\ IsOverlap(scan.overlap)
                 /\ ~scan.found => \A i \in 1..k : ~ContainsAny(vs[i])
             T == {k \in 0..n : ~Done(f[k], k)}
  <1>1. n \in Nat /\ DOMAIN vs = 1..n /\ \A i \in 1..n : vs[i] \in Seq(Byte) OBVIOUS
  <1>2. /\ f[0] = [found |-> FALSE, overlap |-> o]
        /\ \A i \in 1..n : f[i] = ScanValue(f[i - 1], vs[i])
    BY <1>1, ScanLoopUnfolds DEF IsCourse
  <1>3. ~f[n].found BY DEF ScanValues
  <1> HIDE DEF f, n
  <1>4. Done(f[0], 0) BY <1>2
  <1>5. ASSUME NEW k \in 1..n, Done(f[k - 1], k - 1) PROVE Done(f[k], k)
    <2> DEFINE before == f[k - 1]
    <2>1. f[k] = ScanValue(before, vs[k]) /\ vs[k] \in Seq(Byte) BY <1>1, <1>2
    <2>2. Done(before, k - 1) BY <1>5
    <2>3. \A i \in 1..k : i \in 1..(k - 1) \/ i = k BY <1>1
    <2> HIDE DEF before
    <2>4. CASE before.found
      <3>1. f[k] = before BY <2>1, <2>4 DEF ScanValue
      <3>2. QED BY <2>2, <2>4, <3>1
    <2>5. CASE ~before.found
      <3>1. /\ f[k].found = ScanChunk(before.overlap, vs[k])
            /\ f[k].overlap = NextOverlap(before.overlap, vs[k])
        BY <2>1, <2>5 DEF ScanValue
      <3>2. /\ IsOverlap(f[k].overlap)
            /\ ContainsAny(vs[k]) => f[k].found
        BY <2>1, <2>2, <3>1, ValueIsScanned
      <3>3. QED BY <2>2, <2>3, <2>5, <3>2
    <2>6. QED BY <2>4, <2>5
  <1> HIDE DEF Done
  <1>6. T = {}
    <2> SUFFICES ASSUME T # {} PROVE FALSE
      OBVIOUS
    <2>1. T \in SUBSET Nat BY <1>1
    <2>2. PICK k \in T : \A j \in T : k <= j BY <2>1, LeastNumber
    <2>3. k # 0 /\ k \in 1..n BY <1>1, <1>4, <2>2
    <2>4. k - 1 \in 0..n /\ ~(k <= k - 1) BY <1>1, <2>3
    <2>5. Done(f[k - 1], k - 1) BY <2>2, <2>4
    <2>6. QED BY <1>5, <2>2, <2>3, <2>5
  <1>7. Done(f[n], n) BY <1>1, <1>6
  <1>8. QED BY <1>1, <1>3, <1>7 DEF Done

\* No header or trailer block is let through with a secret in one of its values,
\* however many values it has.
THEOREM HeadersAreClean == Spec => []HeadersClean
  <1>1. Init => HeadersClean BY DEF Init, HeadersClean
  <1>2. ASSUME TypeOK, HeadersClean, [Next]_vars PROVE HeadersClean'
    <2>1. CASE Respond
      <3>1. PICK block \in HeaderBlocks :
               /\ values' = block
               /\ \/ alarm' = "headers"
                  \/ ~ScanValues(<<>>, block).found
        BY <2>1 DEF Respond
      <3>2. block \in Seq(Seq(Byte)) BY ResponseScanAssumption
      <3>3. IsOverlap(<<>>) BY OverlapSizeBound DEF IsOverlap
      <3>4. QED BY <3>1, <3>2, <3>3, CleanBlock DEF HeadersClean
    <2>2. CASE PollTrailers
      <3>1. PICK block \in HeaderBlocks :
               /\ values' = block
               /\ \/ alarm' = "trailers"
                  \/ ~ScanValues(overlap, block).found
        BY <2>2 DEF PollTrailers
      <3>2. block \in Seq(Seq(Byte)) BY ResponseScanAssumption
      <3>3. IsOverlap(overlap) BY <1>2, <2>2 DEF PollTrailers, TypeOK, IsOverlap
      <3>4. QED BY <3>1, <3>2, <3>3, CleanBlock DEF HeadersClean
    <2>3. CASE PollData \/ PollOverLimit \/ PollError \/ PollEnd \/ UNCHANGED vars
      <3>1. /\ values' = values
            /\ alarm' = alarm \/ alarm = "no"
        BY <2>3 DEF PollData, PollOverLimit, PollError, PollEnd, Polled, vars
      <3>2. QED BY <1>2, <3>1 DEF HeadersClean
    <2>4. QED BY <1>2, <2>1, <2>2, <2>3 DEF Next
  <1>3. QED BY <1>1, <1>2, ScanTypeCorrect, PTL DEF Spec
=============================================================================
