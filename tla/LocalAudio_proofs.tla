--------------------------- MODULE LocalAudio_proofs ---------------------------
(***************************************************************************)
(* Proofs about LocalAudio, for every window, batch and chunk size: the    *)
(* session is given the microphone frames in sequence, and the window of   *)
(* the output chunks is exact.                                             *)
(***************************************************************************)
EXTENDS LocalAudio, FiniteSetTheorems, SequenceTheorems, WellFoundedInduction, TLAPS

Frames == 1..MaxInput

\* A set of naturals that is not empty has a least element.
LEMMA LeastNatural ==
    ASSUME NEW S \in SUBSET Nat, S # {}
    PROVE  \E x \in S : \A y \in S : x <= y
<1>1. PICK x \in S : \A y \in S : ~ (<<y, x>> \in OpToRel(<, Nat))
  BY WFMin, NatLessThanWellFounded
<1>2. \A y \in S : ~ (y < x)
  BY <1>1 DEF OpToRel
<1> QED
  BY <1>2

-----------------------------------------------------------------------------
(* The input window. *)

\* The loop of accept stops at the first gap: what it pops is an interval.
LEMMA RunIsInterval ==
    ASSUME NEW h \in 0..MaxInput, NEW F \in SUBSET Frames, \A n \in F : n > h
    PROVE  \E m \in h..MaxInput : Run(h, F) = (h + 1)..m /\ m + 1 \notin F
<1> DEFINE Ends == {j \in Nat : j >= h /\ j + 1 \notin F}
<1>0. MaxInput \in Nat
  BY LimitAssumption
<1>1. MaxInput \in Ends
  BY <1>0 DEF Frames
<1>2. PICK m \in Ends : \A y \in Ends : m <= y
  <2>1. Ends \in SUBSET Nat
    OBVIOUS
  <2> HIDE DEF Ends
  <2> QED
    BY <1>1, <2>1, LeastNatural
<1>3. m \in h..MaxInput /\ m + 1 \notin F
  BY <1>0, <1>1, <1>2
<1>4. ASSUME NEW k \in (h + 1)..m PROVE k \in F
  <2>1. k - 1 \in Nat /\ k - 1 >= h /\ k - 1 < m /\ (k - 1) + 1 = k
    BY <1>3
  <2> QED
    BY <1>2, <1>3, <2>1
<1>5. ASSUME NEW n \in Run(h, F) PROVE n \in (h + 1)..m
  <2>1. n \in F /\ n > h /\ n \in Nat /\ \A k \in (h + 1)..n : k \in F
    BY <1>0 DEF Run, Frames
  <2>2. n > m => m + 1 \in (h + 1)..n
    BY <1>3, <2>1
  <2> QED
    BY <1>3, <2>1, <2>2
<1>6. ASSUME NEW n \in (h + 1)..m PROVE n \in Run(h, F)
  <2>1. \A k \in (h + 1)..n : k \in (h + 1)..m
    BY <1>3
  <2> QED
    BY <1>4, <2>1 DEF Run
<1> QED
  BY <1>3, <1>5, <1>6

\* The frames h+1, ..., m.
After(h, m) == [k \in 1..(m - h) |-> h + k]

\* The only way to list an interval in order.
LEMMA InOrderInterval ==
    ASSUME NEW h \in Nat, NEW m \in Nat, h <= m
    PROVE  InOrder((h + 1)..m) = After(h, m)
<1> DEFINE n == m - h
           S == (h + 1)..m
           Sorted(s) == \A j, k \in DOMAIN s : j < k => s[j] < s[k]
           s == InOrder(S)
<1>0. n \in Nat /\ Cardinality(S) = n
  <2>1. n \in Nat /\ h + 1 \in Int /\ m \in Int
    OBVIOUS
  <2>2. Cardinality((h + 1)..m) = IF h + 1 > m THEN 0 ELSE m - (h + 1) + 1
    BY <2>1, FS_Interval
  <2> QED
    BY <2>1, <2>2
<1>1. After(h, m) \in [1..n -> S] /\ Sorted(After(h, m))
  BY <1>0 DEF After
<1>2. s \in [1..n -> S] /\ Sorted(s)
  <2>1. s = CHOOSE f \in [1..n -> S] : Sorted(f)
    BY <1>0 DEF InOrder
  <2> HIDE DEF Sorted, s, S, n
  <2> QED
    BY <1>1, <2>1
<1>3. \A k \in 1..n : s[k] \in S
  BY <1>2
<1>4. \A j, k \in 1..n : j < k => s[j] < s[k]
  BY <1>2
<1> HIDE DEF s
<1>5. \A k \in 1..n : s[k] >= h + k
  <2> DEFINE Bad == {k \in 1..n : s[k] < h + k}
  <2>1. ASSUME Bad # {} PROVE FALSE
    <3>1. PICK k \in Bad : \A y \in Bad : k <= y
      <4>1. Bad \in SUBSET Nat
        BY <1>0
      <4> HIDE DEF Bad
      <4> QED
        BY <2>1, <4>1, LeastNatural
    <3>2. k \in 1..n /\ k \in Nat /\ s[k] \in S /\ s[k] < h + k
      BY <1>0, <1>3, <3>1
    <3>3. k # 1
      BY <3>2
    <3>4. k - 1 \in 1..n /\ k - 1 \notin Bad /\ k - 1 < k
      BY <1>0, <3>1, <3>2, <3>3
    <3>5. s[k - 1] \in S /\ s[k - 1] >= h + (k - 1) /\ s[k - 1] < s[k]
      BY <1>3, <1>4, <3>2, <3>4
    <3> QED
      BY <3>2, <3>5
  <2>2. ASSUME NEW k \in 1..n PROVE s[k] >= h + k
    BY <1>0, <1>3, <2>1
  <2> QED
    BY <2>2
<1>6. \A k \in 1..n : s[k] <= h + k
  <2> DEFINE Bad == {j \in 0..(n - 1) : s[n - j] > h + (n - j)}
  <2>1. ASSUME Bad # {} PROVE FALSE
    <3>1. PICK j \in Bad : \A y \in Bad : j <= y
      <4>1. Bad \in SUBSET Nat
        BY <1>0
      <4> HIDE DEF Bad
      <4> QED
        BY <2>1, <4>1, LeastNatural
    <3>2. j \in Nat /\ n - j \in 1..n /\ s[n - j] \in S /\ s[n - j] > h + (n - j)
      BY <1>0, <1>3, <3>1
    <3>3. j # 0
      BY <1>0, <3>2
    <3>4. j - 1 \in 0..(n - 1) /\ j - 1 \notin Bad
      BY <1>0, <3>1, <3>2, <3>3
    <3>5. n - (j - 1) \in 1..n /\ n - j < n - (j - 1)
      BY <1>0, <3>2, <3>4
    <3>6. s[n - (j - 1)] \in S /\ s[n - (j - 1)] <= h + (n - (j - 1))
      BY <1>3, <3>4, <3>5
    <3>7. s[n - j] < s[n - (j - 1)]
      BY <1>4, <3>2, <3>5
    <3> QED
      BY <1>0, <3>2, <3>6, <3>7
  <2>2. ASSUME NEW k \in 1..n PROVE s[k] <= h + k
    <3>1. n - k \in 0..(n - 1) /\ n - (n - k) = k /\ s[k] \in S
      BY <1>0, <1>3
    <3>2. n - k \notin Bad
      BY <2>1
    <3> QED
      BY <1>0, <3>1, <3>2
  <2> QED
    BY <2>2
<1>7. \A k \in 1..n : s[k] = h + k
  BY <1>0, <1>3, <1>5, <1>6
<1>8. s = After(h, m)
  BY <1>2, <1>7 DEF After
<1> QED
  BY <1>8 DEF s

\* What the session has been given grows by exactly the frames that were released.
LEMMA IntervalGrows ==
    ASSUME NEW h \in 0..MaxInput, NEW m \in h..MaxInput
    PROVE  /\ Interval(1, h) \in Seq(Frames) /\ After(h, m) \in Seq(Frames)
           /\ Interval(1, h) \o After(h, m) = Interval(1, m)
<1> DEFINE a == Interval(1, h)
           b == After(h, m)
           c == Interval(1, m)
<1>0. MaxInput \in Nat /\ h \in Nat /\ m \in Nat /\ h <= m /\ m - h \in Nat /\ m <= MaxInput
  BY LimitAssumption
<1>1. a = [k \in 1..h |-> k] /\ c = [k \in 1..m |-> k]
  BY <1>0 DEF Interval
<1>2. a \in Seq(Frames) /\ Len(a) = h /\ \A k \in 1..h : a[k] = k
  BY <1>0, <1>1 DEF Frames
<1>3. c \in Seq(Frames) /\ Len(c) = m /\ \A k \in 1..m : c[k] = k
  BY <1>0, <1>1 DEF Frames
<1>4. b \in Seq(Frames) /\ Len(b) = m - h /\ \A k \in 1..(m - h) : b[k] = h + k
  BY <1>0 DEF After, Frames
<1> HIDE DEF a, b, c
<1>5. /\ a \o b \in Seq(Frames) /\ Len(a \o b) = m
      /\ \A k \in 1..m : (a \o b)[k] = IF k <= h THEN a[k] ELSE b[k - h]
  <2>1. /\ a \o b \in Seq(Frames) /\ Len(a \o b) = Len(a) + Len(b)
        /\ \A k \in 1..(Len(a) + Len(b)) :
              (a \o b)[k] = IF k <= Len(a) THEN a[k] ELSE b[k - Len(a)]
    BY <1>2, <1>4, ConcatProperties
  <2>2. Len(a) = h /\ Len(a) + Len(b) = m
    BY <1>0, <1>2, <1>4
  <2> QED
    BY <2>1, <2>2
<1>6. \A k \in 1..m : (a \o b)[k] = c[k]
  BY <1>0, <1>2, <1>3, <1>4, <1>5
<1>7. Len(a \o b) = Len(c)
  BY <1>0, <1>3, <1>5
<1>8. a \o b = c
  BY <1>3, <1>5, <1>6, <1>7, SeqEqual
<1> QED
  BY <1>2, <1>4, <1>8 DEF a, b, c

-----------------------------------------------------------------------------
(* Input.  While the call is not over, the frames given to the session, the   *)
(* batch and the frames still to be fed are the frames 1..highest in order.    *)
(* It is kept only because the reader never waits for the next message with    *)
(* frames left to feed or with a full batch.                                   *)

ReaderTypes ==
    /\ reader \in {"receive", "sendAudio", "flush", "sendAck"}
    /\ sinceAck \in Nat /\ timer \in {"none", "sleep", "send"} /\ acks \in Seq(0..MaxInput)

InputTypes ==
    /\ ReaderTypes
    /\ highest \in 0..MaxInput /\ pending \subseteq Frames
    /\ todo \in Seq(Frames) /\ batch \in Seq(Frames) /\ accepted \in Seq(Frames)

InputFlow ==
    ~terminal =>
        /\ accepted \o batch \o todo = Interval(1, highest)
        /\ reader # "sendAudio" => todo = <<>> /\ Len(batch) < BatchFrames

InputInv == terminal \in BOOLEAN /\ InputTypes /\ InputWindowBounded /\ InputFlow

\* Lists of frames can be regrouped.
LEMMA Regroup ==
    \A a, b, c \in Seq(Frames) : (a \o b) \o c = a \o (b \o c)
<1> SUFFICES ASSUME NEW a \in Seq(Frames), NEW b \in Seq(Frames), NEW c \in Seq(Frames)
             PROVE  (a \o b) \o c = a \o (b \o c)
  OBVIOUS
<1> QED
  BY ConcatAssociative

\* The end of _handle_input_audio.
LEMMA AcknowledgeType ==
    ASSUME ReaderTypes, NEW since \in Nat, NEW h \in 0..MaxInput, Acknowledge(since, h)
    PROVE  ReaderTypes' /\ reader' # "sendAudio"
<1>1. CASE acks' = Append(acks, h) /\ sinceAck' = 0 /\ reader' = "sendAck" /\ timer' = timer
  <2>1. Append(acks, h) \in Seq(0..MaxInput)
    BY AppendProperties DEF ReaderTypes
  <2> QED
    BY <1>1, <2>1 DEF ReaderTypes
<1>2. CASE /\ acks' = acks /\ sinceAck' = since /\ reader' = "receive"
           /\ timer' = IF since > 0 /\ timer = "none" THEN "sleep" ELSE timer
  BY <1>2 DEF ReaderTypes
<1> QED
  BY <1>1, <1>2 DEF Acknowledge

\* One pass of the loop over ready loses and reorders nothing, and the reader
\* goes on to the next message only with nothing left and room in the batch.
LEMMA FeedKeeps ==
    ASSUME ReaderTypes, NEW frames \in Seq(Frames), NEW queued \in Seq(Frames),
           Len(queued) < BatchFrames, NEW since \in Nat, NEW h \in 0..MaxInput,
           Feed(frames, queued, since, h)
    PROVE  /\ ReaderTypes' /\ batch' \in Seq(Frames) /\ todo' \in Seq(Frames)
           /\ batch' \o todo' = queued \o frames
           /\ reader' # "sendAudio" => todo' = <<>> /\ Len(batch') < BatchFrames
<1> DEFINE room == BatchFrames - Len(queued)
           k == IF Len(frames) < room THEN Len(frames) ELSE room
           head == SubSeq(frames, 1, k)
           rest == SubSeq(frames, k + 1, Len(frames))
<1>0. BatchFrames \in Nat /\ Len(queued) \in Nat /\ Len(frames) \in Nat
  BY LimitAssumption, LenProperties
<1>1. k \in 0..Len(frames) /\ Len(queued) + k <= BatchFrames
      /\ (Len(queued) + k < BatchFrames => k = Len(frames))
  BY <1>0
<1>2. /\ batch' = queued \o head /\ todo' = rest
      /\ IF Len(queued \o head) = BatchFrames
         THEN /\ reader' = "sendAudio" /\ sinceAck' = since
              /\ UNCHANGED <<timer, acks>>
         ELSE Acknowledge(since, h)
  BY DEF Feed
<1> HIDE DEF k
<1>3. head \in Seq(Frames) /\ Len(head) = k
  <2>1. 1 \in Int /\ k \in Int /\ \A i \in 1..k : frames[i] \in Frames
    BY <1>0, <1>1, ElementOfSeq
  <2>2. head \in Seq(Frames) /\ Len(head) = IF 1 <= k THEN k - 1 + 1 ELSE 0
    BY <2>1, SubSeqProperties
  <2> QED
    BY <1>0, <1>1, <2>2
<1>4. rest \in Seq(Frames) /\ (k = Len(frames) => rest = <<>>)
  <2>1. k + 1 \in Int /\ Len(frames) \in Int /\ \A i \in (k + 1)..Len(frames) : frames[i] \in Frames
    BY <1>0, <1>1, ElementOfSeq
  <2>2. rest \in Seq(Frames)
    BY <2>1, SubSeqProperties
  <2>3. Len(frames) < k + 1 => rest = <<>>
    BY <2>1, SubSeqEmpty
  <2>4. k = Len(frames) => Len(frames) < k + 1
    BY <1>0
  <2> HIDE DEF rest
  <2> QED
    BY <2>2, <2>3, <2>4
<1>5. head \o rest = frames
  <2>1. 1 \in 1..Len(frames) + 1 /\ k \in (1 - 1)..Len(frames) /\ Len(frames) \in k..Len(frames)
    BY <1>0, <1>1
  <2>2. head \o rest = SubSeq(frames, 1, Len(frames))
    BY <2>1, ConcatAdjacentSubSeq
  <2> QED
    BY <2>2, SubSeqFull
<1> HIDE DEF head, rest
<1>6. /\ queued \o head \in Seq(Frames) /\ Len(queued \o head) = Len(queued) + k
      /\ (queued \o head) \o rest = queued \o frames
  <2>1. queued \o head \in Seq(Frames) /\ Len(queued \o head) = Len(queued) + Len(head)
    BY <1>3, ConcatProperties
  <2>2. (queued \o head) \o rest = queued \o (head \o rest)
    <3>1. head \in Seq(Frames) /\ rest \in Seq(Frames)
      BY <1>3, <1>4
    <3> QED
      BY <3>1, Regroup
  <2> QED
    BY <1>3, <1>5, <2>1, <2>2
<1>7. CASE Len(queued \o head) = BatchFrames
  BY <1>2, <1>4, <1>6, <1>7 DEF ReaderTypes
<1>8. CASE Len(queued \o head) # BatchFrames
  <2>1. ReaderTypes' /\ reader' # "sendAudio"
    BY <1>2, <1>8, AcknowledgeType
  <2>2. Len(queued \o head) < BatchFrames /\ rest = <<>>
    <3>1. k \in Nat /\ Len(queued) + k # BatchFrames /\ Len(queued) + k \in Nat
      BY <1>0, <1>1, <1>6, <1>8
    <3>2. Len(queued) + k < BatchFrames
      BY <1>0, <1>1, <3>1
    <3> QED
      BY <1>1, <1>4, <1>6, <3>2
  <2> QED
    BY <1>2, <1>4, <1>6, <2>1, <2>2
<1> QED
  BY <1>7, <1>8

\* accept keeps the frames behind a gap, within the window.
LEMMA AcceptKeeps ==
    ASSUME InputTypes, InputWindowBounded, NEW n \in Frames, Fresh(n), WithinWindow(n),
           NEW m \in highest..MaxInput, m + 1 \notin pending \cup {n}
    PROVE  LET left == (pending \cup {n}) \ ((highest + 1)..m)
           IN  /\ left \subseteq Frames
               /\ \A j \in left : j > m + 1 /\ j <= m + WindowFrames
               /\ Cardinality(left) <= WindowBytes
<1> DEFINE there == pending \cup {n}
           left == there \ ((highest + 1)..m)
<1>0. /\ MaxInput \in Nat /\ WindowFrames \in Nat /\ WindowBytes \in Nat
      /\ highest \in Nat /\ pending \subseteq Frames /\ m \in Nat /\ highest <= m
  BY LimitAssumption DEF InputTypes
<1>1. left \subseteq Frames
  BY <1>0
<1>2. ASSUME NEW j \in left PROVE j > m + 1 /\ j <= m + WindowFrames
  <2>1. j \in Nat /\ j \in there /\ ~(j \in (highest + 1)..m) /\ j # m + 1
    BY <1>0, <1>1 DEF Frames
  <2>2. j > highest /\ j <= highest + WindowFrames
    BY <1>0, <2>1 DEF Fresh, WithinWindow, InputWindowBounded
  <2> QED
    BY <1>0, <2>1, <2>2
<1>3. Cardinality(left) <= WindowBytes
  <2>1. IsFiniteSet(Frames)
    BY <1>0, FS_Interval DEF Frames
  <2>2. IsFiniteSet(pending) /\ Cardinality(pending) \in Nat
    BY <1>0, <2>1, FS_Subset, FS_CardinalityType
  <2>3. IsFiniteSet(there) /\ Cardinality(there) = Cardinality(pending) + 1
    BY <2>2, FS_AddElement DEF Fresh
  <2>4. Cardinality(left) <= Cardinality(there) /\ IsFiniteSet(left)
    BY <2>3, FS_Subset
  <2>5. Cardinality(left) \in Nat /\ Cardinality(pending) + 1 <= WindowBytes
    BY <2>4, FS_CardinalityType DEF WithinWindow
  <2> QED
    BY <1>0, <2>2, <2>3, <2>4, <2>5
<1> QED
  BY <1>1, <1>2, <1>3

\* A step that leaves the reader and its data alone, whatever it does to the call.
LEMMA InputRests ==
    ASSUME InputInv, UNCHANGED <<reader, input>>, terminal' = terminal \/ terminal' = TRUE
    PROVE  InputInv'
<1>1. /\ reader' = reader /\ highest' = highest /\ pending' = pending /\ todo' = todo
      /\ batch' = batch /\ sinceAck' = sinceAck /\ timer' = timer /\ accepted' = accepted
      /\ acks' = acks
  BY DEF input
<1>2. InputTypes' /\ InputWindowBounded'
  BY <1>1 DEF InputInv, InputTypes, ReaderTypes, InputWindowBounded
<1>3. InputFlow'
  BY <1>1 DEF InputInv, InputFlow
<1>4. terminal' \in BOOLEAN
  BY DEF InputInv
<1> QED
  BY <1>2, <1>3, <1>4 DEF InputInv

\* A failed write ends the call.
LEMMA InputFails ==
    ASSUME InputInv, UNCHANGED input, terminal' = TRUE, reader' = "receive"
    PROVE  InputInv'
<1>1. /\ highest' = highest /\ pending' = pending /\ todo' = todo
      /\ batch' = batch /\ sinceAck' = sinceAck /\ timer' = timer /\ accepted' = accepted
      /\ acks' = acks
  BY DEF input
<1>2. InputTypes' /\ InputWindowBounded'
  BY <1>1 DEF InputInv, InputTypes, ReaderTypes, InputWindowBounded
<1>3. InputFlow' /\ terminal' \in BOOLEAN
  BY DEF InputFlow
<1> QED
  BY <1>2, <1>3 DEF InputInv

\* A frame of the product.
LEMMA ReceiveFrameKeeps ==
    ASSUME InputInv, NEW n \in Frames, ReceiveFrame(n)
    PROVE  InputInv'
<1>0. /\ InputTypes /\ ReaderTypes /\ InputWindowBounded /\ ~terminal /\ Fresh(n)
      /\ accepted \in Seq(Frames) /\ batch \in Seq(Frames) /\ sinceAck \in Nat
      /\ highest \in 0..MaxInput /\ pending \subseteq Frames /\ accepted' = accepted
      /\ reader = "receive" /\ MaxInput \in Nat
  BY LimitAssumption DEF InputInv, InputTypes, ReaderTypes, ReceiveFrame
<1>1. todo = <<>> /\ Len(batch) < BatchFrames /\ accepted \o batch = Interval(1, highest)
  <2>1. todo = <<>> /\ Len(batch) < BatchFrames
        /\ (accepted \o batch) \o todo = Interval(1, highest)
    BY <1>0 DEF InputInv, InputFlow
  <2>2. accepted \o batch \in Seq(Frames)
    BY <1>0, ConcatProperties
  <2>3. (accepted \o batch) \o <<>> = accepted \o batch
    BY <2>2, ConcatEmptySeq
  <2> QED
    BY <2>1, <2>3
<1>2. CASE WithinWindow(n)
  <2> DEFINE there == pending \cup {n}
             ready == Run(highest, there)
             h == highest + Cardinality(ready)
  <2>1. /\ pending' = there \ ready /\ highest' = h /\ terminal' = terminal
        /\ Feed(InOrder(ready), batch, sinceAck, h)
    BY <1>2 DEF ReceiveFrame
  <2>2. there \in SUBSET Frames /\ \A j \in there : j > highest
    <3>1. \A j \in pending : j > highest + 1 /\ j \in Nat
      BY <1>0 DEF InputWindowBounded, Frames
    <3>2. n > highest
      BY <1>0 DEF Fresh
    <3> QED
      BY <1>0, <3>1, <3>2
  <2>3. PICK m \in highest..MaxInput : ready = (highest + 1)..m /\ m + 1 \notin there
    BY <1>0, <2>2, RunIsInterval
  <2>4. highest \in Nat /\ m \in Nat /\ highest <= m /\ m \in 0..MaxInput
    BY <1>0, <2>3
  <2>5. h = m
    <3>1. highest + 1 \in Int /\ m \in Int
      BY <2>4
    <3>2. Cardinality(ready) = IF highest + 1 > m THEN 0 ELSE m - (highest + 1) + 1
      BY <2>3, <3>1, FS_Interval
    <3> QED
      BY <2>4, <3>2
  <2>6. InOrder(ready) = After(highest, m)
    BY <2>3, <2>4, InOrderInterval
  <2>7. Feed(After(highest, m), batch, sinceAck, m) /\ highest' = m
        /\ pending' = there \ ((highest + 1)..m)
    BY <2>1, <2>3, <2>5, <2>6
  <2>8. /\ After(highest, m) \in Seq(Frames)
        /\ Interval(1, highest) \o After(highest, m) = Interval(1, m)
    BY <1>0, <2>3, IntervalGrows
  <2> HIDE DEF ready, h
  <2>9. /\ ReaderTypes' /\ batch' \in Seq(Frames) /\ todo' \in Seq(Frames)
        /\ batch' \o todo' = batch \o After(highest, m)
        /\ reader' # "sendAudio" => todo' = <<>> /\ Len(batch') < BatchFrames
    BY <1>0, <1>1, <2>4, <2>7, <2>8, FeedKeeps
  <2>10. accepted' \o batch' \o todo' = Interval(1, highest')
    <3>1. (accepted \o batch') \o todo' = accepted \o (batch' \o todo')
      <4>1. accepted \in Seq(Frames) /\ batch' \in Seq(Frames) /\ todo' \in Seq(Frames)
        BY <1>0, <2>9
      <4> QED
        BY <4>1, Regroup
    <3>2. accepted \o (batch \o After(highest, m)) = (accepted \o batch) \o After(highest, m)
      <4>1. /\ accepted \in Seq(Frames) /\ batch \in Seq(Frames)
            /\ After(highest, m) \in Seq(Frames)
        BY <1>0, <2>8
      <4> QED
        BY <4>1, Regroup
    <3> QED
      BY <1>0, <1>1, <2>7, <2>8, <2>9, <3>1, <3>2
  <2>11. /\ pending' \subseteq Frames
         /\ \A j \in pending' : j > highest' + 1 /\ j <= highest' + WindowFrames
         /\ Cardinality(pending') <= WindowBytes
    BY <1>0, <1>2, <2>3, <2>7, AcceptKeeps
  <2>12. InputTypes' /\ InputWindowBounded' /\ InputFlow'
    BY <1>0, <2>4, <2>7, <2>9, <2>10, <2>11 DEF InputTypes, InputWindowBounded, InputFlow
  <2>13. terminal' \in BOOLEAN
    BY <2>1 DEF InputInv
  <2> QED
    BY <2>12, <2>13 DEF InputInv
<1>3. CASE ~WithinWindow(n)
  <2>1. UNCHANGED <<reader, input>> /\ terminal' = TRUE
    BY <1>3 DEF ReceiveFrame, Fails, input
  <2> QED
    BY <2>1, InputRests
<1> QED
  BY <1>2, <1>3

\* The batch was taken by send_audio.
LEMMA AudioSentKeeps ==
    ASSUME InputInv, AudioSent
    PROVE  InputInv'
<1>0. /\ InputTypes /\ ReaderTypes /\ InputWindowBounded /\ terminal' = terminal
      /\ accepted \in Seq(Frames) /\ batch \in Seq(Frames) /\ todo \in Seq(Frames)
      /\ sinceAck \in Nat /\ highest \in 0..MaxInput /\ highest' = highest /\ pending' = pending
      /\ accepted' = accepted \o batch /\ accepted \o batch \in Seq(Frames)
      /\ Len(batch) \in Nat /\ sinceAck + Len(batch) \in Nat
  BY ConcatProperties, LenProperties DEF InputInv, InputTypes, ReaderTypes, AudioSent
<1>1. InputWindowBounded' /\ terminal' \in BOOLEAN
  BY <1>0 DEF InputInv, InputWindowBounded
<1>2. CASE terminal
  <2>1. /\ batch' = <<>> /\ todo' = <<>> /\ reader' = "receive" /\ timer' = timer /\ acks' = acks
        /\ sinceAck' = sinceAck + Len(batch) /\ <<>> \in Seq(Frames)
    BY <1>2 DEF AudioSent
  <2>2. InputTypes'
    BY <1>0, <2>1 DEF InputTypes, ReaderTypes
  <2>3. InputFlow'
    BY <1>0, <1>2 DEF InputFlow
  <2> QED
    BY <1>1, <2>2, <2>3 DEF InputInv
<1>3. CASE ~terminal
  <2>1. /\ Feed(todo, <<>>, sinceAck + Len(batch), highest)
        /\ (accepted \o batch) \o todo = Interval(1, highest)
    BY <1>3 DEF AudioSent, InputInv, InputFlow
  <2>2. <<>> \in Seq(Frames) /\ Len(<<>>) < BatchFrames
    BY LimitAssumption
  <2>3. /\ ReaderTypes' /\ batch' \in Seq(Frames) /\ todo' \in Seq(Frames)
        /\ batch' \o todo' = <<>> \o todo
        /\ reader' # "sendAudio" => todo' = <<>> /\ Len(batch') < BatchFrames
    BY <1>0, <2>1, <2>2, FeedKeeps
  <2>4. accepted' \o batch' \o todo' = Interval(1, highest')
    <3>1. ((accepted \o batch) \o batch') \o todo' = (accepted \o batch) \o (batch' \o todo')
      <4>1. /\ accepted \o batch \in Seq(Frames) /\ batch' \in Seq(Frames)
            /\ todo' \in Seq(Frames)
        BY <1>0, <2>3
      <4> QED
        BY <4>1, Regroup
    <3>2. <<>> \o todo = todo
      BY <1>0, ConcatEmptySeq
    <3> QED
      BY <1>0, <2>1, <2>3, <3>1, <3>2
  <2>5. InputTypes' /\ InputFlow'
    BY <1>0, <2>3, <2>4 DEF InputTypes, InputFlow
  <2> QED
    BY <1>1, <2>5 DEF InputInv
<1> QED
  BY <1>2, <1>3

\* The batch of a barge-in or a stop was taken by send_audio.
LEMMA BatchFlushedKeeps ==
    ASSUME InputInv, BatchFlushed
    PROVE  InputInv'
<1>0. /\ InputTypes /\ ReaderTypes /\ InputWindowBounded /\ terminal' = terminal
      /\ accepted \in Seq(Frames) /\ batch \in Seq(Frames) /\ todo \in Seq(Frames)
      /\ sinceAck \in Nat /\ highest' = highest /\ pending' = pending /\ todo' = todo
      /\ accepted' = accepted \o batch /\ accepted \o batch \in Seq(Frames) /\ batch' = <<>>
      /\ Len(batch) \in Nat /\ sinceAck' = sinceAck + Len(batch) /\ sinceAck' \in Nat
      /\ reader = "flush" /\ reader' = "receive" /\ timer' = timer /\ acks' = acks
      /\ <<>> \in Seq(Frames)
  BY ConcatProperties, LenProperties DEF InputInv, InputTypes, ReaderTypes, BatchFlushed
<1>1. InputWindowBounded' /\ terminal' \in BOOLEAN
  BY <1>0 DEF InputInv, InputWindowBounded
<1>2. InputTypes'
  BY <1>0 DEF InputTypes, ReaderTypes
<1>3. ASSUME ~terminal
      PROVE  /\ accepted' \o batch' \o todo' = Interval(1, highest')
             /\ todo' = <<>> /\ Len(batch') < BatchFrames
  <2>1. todo = <<>> /\ (accepted \o batch) \o todo = Interval(1, highest)
    BY <1>0, <1>3 DEF InputInv, InputFlow
  <2>2. (accepted \o batch) \o <<>> = accepted \o batch
    BY <1>0, ConcatEmptySeq
  <2>3. Len(<<>>) < BatchFrames
    BY LimitAssumption
  <2> QED
    BY <1>0, <2>1, <2>2, <2>3
<1>4. InputFlow'
  BY <1>0, <1>3 DEF InputFlow
<1> QED
  BY <1>1, <1>2, <1>4 DEF InputInv

\* The steps that only move the reader or its timer.
LEMMA ReaderMoves ==
    ASSUME InputInv, ReaderTypes', terminal' = terminal,
           UNCHANGED <<highest, pending, todo, batch, accepted>>,
           ~terminal => reader # "sendAudio" \/ reader' = reader
    PROVE  InputInv'
<1>1. InputTypes' /\ InputWindowBounded'
  BY DEF InputInv, InputTypes, InputWindowBounded
<1>2. InputFlow'
  BY DEF InputInv, InputFlow
<1>3. terminal' \in BOOLEAN
  BY DEF InputInv
<1> QED
  BY <1>1, <1>2, <1>3 DEF InputInv

\* Every step keeps the input in sequence.
LEMMA InputStep ==
    ASSUME InputInv, [Next]_vars
    PROVE  InputInv'
<1>0. ReaderTypes /\ sinceAck \in Nat /\ highest \in 0..MaxInput
  BY DEF InputInv, InputTypes, ReaderTypes
<1>1. ASSUME NEW n \in 1..MaxInput, ReceiveFrame(n) PROVE InputInv'
  BY <1>1, ReceiveFrameKeeps DEF Frames
<1>2. ASSUME NEW n \in 1..MaxInput, ReceiveWaiting(n) PROVE InputInv'
  <2>1. /\ reader = "receive" /\ Acknowledge(sinceAck, highest) /\ terminal' = terminal
        /\ UNCHANGED <<highest, pending, todo, batch, accepted>>
    BY <1>2 DEF ReceiveWaiting
  <2>2. ReaderTypes'
    BY <1>0, <2>1, AcknowledgeType
  <2> QED
    BY <2>1, <2>2, ReaderMoves
<1>3. CASE Supersede
  BY <1>3, InputRests DEF Supersede
<1>4. CASE FlushBatch
  <2>1. /\ reader = "receive" /\ reader' = "flush" /\ terminal' = terminal
        /\ UNCHANGED <<highest, pending, todo, batch, accepted, sinceAck, timer, acks>>
    BY <1>4 DEF FlushBatch, input
  <2>2. ReaderTypes'
    BY <1>0, <2>1 DEF ReaderTypes
  <2> QED
    BY <2>1, <2>2, ReaderMoves
<1>5. CASE ReaderStep
  <2>1. CASE AudioSent
    BY <2>1, AudioSentKeeps
  <2>2. CASE AudioFails \/ FlushFails \/ AckFails
    BY <2>2, InputFails DEF AudioFails, FlushFails, AckFails, Fails
  <2>3. CASE BatchFlushed
    BY <2>3, BatchFlushedKeeps
  <2>4. CASE AckSent
    <3>1. /\ reader = "sendAck" /\ reader' = "receive" /\ terminal' = terminal
          /\ UNCHANGED <<highest, pending, todo, batch, accepted, sinceAck, timer, acks>>
      BY <2>4 DEF AckSent, input
    <3>2. ReaderTypes'
      BY <1>0, <3>1 DEF ReaderTypes
    <3> QED
      BY <3>1, <3>2, ReaderMoves
  <2> QED
    BY <1>5, <2>1, <2>2, <2>3, <2>4 DEF ReaderStep
<1>6. CASE TimerStep
  <2>1. /\ reader' = reader /\ terminal' = terminal
        /\ UNCHANGED <<highest, pending, todo, batch, accepted>>
    BY <1>6 DEF TimerStep, TimerFires, TimerSent
  <2>2. ReaderTypes'
    <3>1. Append(acks, highest) \in Seq(0..MaxInput)
      BY <1>0, AppendProperties DEF ReaderTypes
    <3>2. CASE TimerFires
      <4>1. /\ timer' \in {"none", "send"} /\ sinceAck' = 0
            /\ acks' = acks \/ acks' = Append(acks, highest)
        BY <3>2 DEF TimerFires
      <4> QED
        BY <1>0, <2>1, <3>1, <4>1 DEF ReaderTypes
    <3>3. CASE TimerSent
      BY <1>0, <3>3 DEF TimerSent, ReaderTypes
    <3> QED
      BY <1>6, <3>2, <3>3 DEF TimerStep
  <2> QED
    BY <2>1, <2>2, ReaderMoves
<1>7. ASSUME NEW size \in ChunkSizes, ForwardAudio(size) PROVE InputInv'
  BY <1>7, InputRests DEF ForwardAudio
<1>8. CASE ForwarderStep
  <2>1. UNCHANGED <<reader, input>> /\ (terminal' = terminal \/ terminal' = TRUE)
    BY <1>8 DEF ForwarderStep, CapacityFound, CapacityTimeout, ChunkSent, ChunkFails, Fails
  <2> QED
    BY <2>1, InputRests
<1>9. ASSUME NEW h \in 0..(MaxOutput + 1), NEW position \in 0..(WindowBytes + 1),
             OutputAck(h, position)
      PROVE  InputInv'
  <2>1. UNCHANGED <<reader, input>> /\ (terminal' = terminal \/ terminal' = TRUE)
    BY <1>9 DEF OutputAck, Fails
  <2> QED
    BY <2>1, InputRests
<1>10. CASE UNCHANGED vars
  <2>1. UNCHANGED <<reader, input>> /\ terminal' = terminal
    BY <1>10 DEF vars
  <2> QED
    BY <2>1, InputRests
<1> QED
  BY <1>1, <1>2, <1>3, <1>4, <1>5, <1>6, <1>7, <1>8, <1>9, <1>10 DEF Next

\* Nothing has arrived.
LEMMA InputStarts == Init => InputInv
<1> SUFFICES ASSUME Init PROVE InputInv
  OBVIOUS
<1>0. MaxInput \in Nat /\ WindowBytes \in Nat /\ BatchFrames \in Nat \ {0}
  BY LimitAssumption
<1>1. /\ ReaderTypes /\ highest = 0 /\ pending = {} /\ todo = <<>> /\ batch = <<>>
      /\ accepted = <<>> /\ terminal = FALSE
  BY DEF Init, ReaderTypes
<1>2. InputTypes
  BY <1>0, <1>1 DEF InputTypes
<1>3. InputWindowBounded
  BY <1>0, <1>1, FS_EmptySet DEF InputWindowBounded
<1>4. InputFlow
  <2>1. <<>> \in Seq(Frames) /\ Len(<<>>) = 0
    BY EmptySeq
  <2>2. accepted \o batch \o todo = <<>>
    BY <1>1, <2>1, ConcatEmptySeq
  <2>3. Interval(1, 0) = <<>>
    BY DEF Interval
  <2> QED
    BY <1>0, <1>1, <2>1, <2>2, <2>3 DEF InputFlow
<1> QED
  BY <1>1, <1>2, <1>3, <1>4 DEF InputInv

\* Whatever the product sends, the input stays in sequence.
LEMMA InputInvariant == Spec => []InputInv
<1> QED
  BY InputStarts, InputStep, PTL DEF Spec

-----------------------------------------------------------------------------
(* Sums.  Total adds along a recursive function: a least length without such   *)
(* a function, or a least index where two of them part, would be a             *)
(* counterexample, and the well-order of the naturals says there is none.      *)

\* g adds up the first n numbers of s.
Adds(g, s, n) == g = [k \in 0..n |-> IF k = 0 THEN 0 ELSE g[k - 1] + s[k]]

\* The recursion of Total is well defined, whatever the length of the sequence.
LEMMA AddsExists ==
    ASSUME NEW s, NEW n \in Nat
    PROVE  \E g : Adds(g, s, n)
<1> DEFINE Bad == {m \in Nat : ~ \E g : Adds(g, s, m)}
<1>1. ASSUME Bad # {} PROVE FALSE
  <2>1. PICK m \in Bad : \A y \in Bad : m <= y
    <3> HIDE DEF Bad
    <3>1. Bad \in SUBSET Nat
      BY DEF Bad
    <3> QED
      BY <1>1, <3>1, LeastNatural
  <2>2. CASE m = 0
    <3>1. Adds([k \in 0..0 |-> 0], s, 0)
      BY DEF Adds
    <3> QED
      BY <2>2, <3>1
  <2>3. CASE m # 0
    <3>1. m - 1 \in Nat /\ m - 1 \notin Bad
      BY <2>1, <2>3
    <3>2. PICK g : Adds(g, s, m - 1)
      BY <3>1
    <3> DEFINE h == [k \in 0..m |-> IF k = m THEN g[m - 1] + s[m] ELSE g[k]]
    <3>3. ASSUME NEW k \in 0..m
          PROVE  h[k] = IF k = 0 THEN 0 ELSE h[k - 1] + s[k]
      BY <2>3, <3>2 DEF Adds
    <3>4. Adds(h, s, m)
      BY <3>3 DEF Adds
    <3> QED
      BY <3>4
  <2> QED
    BY <2>2, <2>3
<1> QED
  BY <1>1

\* Total is the last value of such a function.
LEMMA TotalAdds ==
    ASSUME NEW s \in Seq(Nat)
    PROVE  \E g : Adds(g, s, Len(s)) /\ Total(s) = g[Len(s)]
<1> DEFINE g == CHOOSE f : Adds(f, s, Len(s))
<1>1. Adds(g, s, Len(s))
  <2>1. Len(s) \in Nat
    BY LenProperties
  <2>2. \E f : Adds(f, s, Len(s))
    BY <2>1, AddsExists
  <2> QED
    BY <2>2
<1>2. Total(s) = g[Len(s)]
  BY DEF Total, Adds
<1> QED
  BY <1>1, <1>2

\* The function adds one number per index.
LEMMA AddsStep ==
    ASSUME NEW s, NEW n \in Nat, NEW g, Adds(g, s, n)
    PROVE  /\ g[0] = 0
           /\ \A k \in 1..n : g[k] = g[k - 1] + s[k]
<1>1. \A k \in 0..n : g[k] = IF k = 0 THEN 0 ELSE g[k - 1] + s[k]
  BY DEF Adds
<1>2. ASSUME NEW k \in 1..n PROVE g[k] = g[k - 1] + s[k]
  <2>1. k \in 0..n /\ k # 0
    OBVIOUS
  <2> QED
    BY <1>1, <2>1
<1> QED
  BY <1>1, <1>2

\* Every partial sum is a natural number.
LEMMA AddsType ==
    ASSUME NEW s \in Seq(Nat), NEW g, Adds(g, s, Len(s))
    PROVE  \A k \in 0..Len(s) : g[k] \in Nat
<1> DEFINE Bad == {k \in 0..Len(s) : g[k] \notin Nat}
<1>0. /\ g[0] = 0 /\ Len(s) \in Nat
      /\ \A k \in 1..Len(s) : g[k] = g[k - 1] + s[k] /\ s[k] \in Nat
  BY AddsStep, LenProperties, ElementOfSeq
<1>1. ASSUME Bad # {} PROVE FALSE
  <2>1. PICK m \in Bad : \A y \in Bad : m <= y
    <3>1. Bad \in SUBSET Nat
      BY <1>0
    <3> HIDE DEF Bad
    <3> QED
      BY <1>1, <3>1, LeastNatural
  <2>2. m # 0 /\ m - 1 \notin Bad /\ m \in 1..Len(s) /\ m - 1 \in 0..Len(s)
    BY <1>0, <2>1
  <2>3. g[m - 1] \in Nat
    BY <2>2
  <2>4. g[m] = g[m - 1] + s[m] /\ s[m] \in Nat
    BY <1>0, <2>2
  <2> QED
    BY <2>1, <2>3, <2>4
<1> QED
  BY <1>1

\* A sum is the sum of its parts.
LEMMA TotalConcat ==
    ASSUME NEW s \in Seq(Nat), NEW t \in Seq(Nat)
    PROVE  Total(s \o t) = Total(s) + Total(t) /\ Total(s) \in Nat /\ Total(t) \in Nat
<1> DEFINE q == s \o t
           p == Len(s)
<1>1. /\ q \in Seq(Nat) /\ Len(q) = p + Len(t) /\ p \in Nat /\ Len(t) \in Nat
      /\ \A k \in 1..p : q[k] = s[k]
      /\ \A k \in 1..Len(t) : q[p + k] = t[k]
  BY ConcatProperties, LenProperties
<1> HIDE DEF q
<1>2. PICK g : Adds(g, q, Len(q)) /\ Total(q) = g[Len(q)]
  BY <1>1, TotalAdds
<1>3. PICK f : Adds(f, s, p) /\ Total(s) = f[p]
  BY TotalAdds
<1>4. PICK h : Adds(h, t, Len(t)) /\ Total(t) = h[Len(t)]
  BY TotalAdds
<1>5. /\ \A k \in 0..Len(q) : g[k] \in Nat
      /\ \A k \in 0..p : f[k] \in Nat
      /\ \A k \in 0..Len(t) : h[k] \in Nat
  BY <1>1, <1>2, <1>3, <1>4, AddsType
<1>6. /\ g[0] = 0 /\ f[0] = 0 /\ h[0] = 0
      /\ \A k \in 1..Len(q) : g[k] = g[k - 1] + q[k]
      /\ \A k \in 1..p : f[k] = f[k - 1] + s[k]
      /\ \A k \in 1..Len(t) : h[k] = h[k - 1] + t[k]
  <2>1. Len(q) \in Nat
    BY <1>1
  <2>2. g[0] = 0 /\ \A k \in 1..Len(q) : g[k] = g[k - 1] + q[k]
    BY <1>2, <2>1, AddsStep
  <2>3. f[0] = 0 /\ \A k \in 1..p : f[k] = f[k - 1] + s[k]
    BY <1>1, <1>3, AddsStep
  <2>4. h[0] = 0 /\ \A k \in 1..Len(t) : h[k] = h[k - 1] + t[k]
    BY <1>1, <1>4, AddsStep
  <2> QED
    BY <2>2, <2>3, <2>4
<1>7. g[p] = f[p]
  <2> DEFINE Bad == {k \in 0..p : g[k] # f[k]}
  <2>1. ASSUME Bad # {} PROVE FALSE
    <3>1. PICK m \in Bad : \A y \in Bad : m <= y
      <4>1. Bad \in SUBSET Nat
        BY <1>1
      <4> HIDE DEF Bad
      <4> QED
        BY <2>1, <4>1, LeastNatural
    <3>2. m \in 1..p /\ m - 1 \in 0..p /\ m - 1 \notin Bad /\ m \in 1..Len(q)
      BY <1>1, <1>6, <3>1
    <3>3. g[m - 1] = f[m - 1] /\ q[m] = s[m]
      BY <1>1, <3>2
    <3>4. g[m] = f[m]
      BY <1>6, <3>2, <3>3
    <3> QED
      BY <3>1, <3>4
  <2>2. p \notin Bad
    BY <2>1
  <2>3. p \in 0..p
    BY <1>1
  <2> QED
    BY <2>2, <2>3
<1>8. g[p + Len(t)] = g[p] + h[Len(t)]
  <2> DEFINE Bad == {k \in 0..Len(t) : g[p + k] # g[p] + h[k]}
  <2>1. ASSUME Bad # {} PROVE FALSE
    <3>1. PICK m \in Bad : \A y \in Bad : m <= y
      <4>1. Bad \in SUBSET Nat
        BY <1>1
      <4> HIDE DEF Bad
      <4> QED
        BY <2>1, <4>1, LeastNatural
    <3>2. m \in 0..Len(t) /\ g[p + m] # g[p] + h[m] /\ g[p] \in Nat
      BY <1>1, <1>5, <3>1
    <3>3. m # 0
      BY <1>1, <1>6, <3>2
    <3>4. /\ m \in 1..Len(t) /\ m - 1 \in 0..Len(t) /\ m - 1 \notin Bad
          /\ p + m \in 1..Len(q) /\ p + m - 1 = p + (m - 1)
      <4>1. /\ m \in 1..Len(t) /\ m - 1 \in 0..Len(t) /\ ~(m <= m - 1)
            /\ p + m \in 1..Len(q) /\ p + m - 1 = p + (m - 1)
        BY <1>1, <3>2, <3>3
      <4> HIDE DEF Bad
      <4> QED
        BY <3>1, <4>1
    <3>5. g[p + (m - 1)] = g[p] + h[m - 1] /\ q[p + m] = t[m] /\ h[m - 1] \in Nat
      BY <1>1, <1>5, <3>4
    <3>6. g[p + m] = g[p + (m - 1)] + q[p + m] /\ h[m] = h[m - 1] + t[m]
      BY <1>6, <3>4
    <3>7. t[m] \in Nat
      BY <3>4, ElementOfSeq
    <3> QED
      BY <3>2, <3>5, <3>6, <3>7
  <2>2. Len(t) \notin Bad
    BY <2>1
  <2>3. Len(t) \in 0..Len(t)
    BY <1>1
  <2> QED
    BY <2>2, <2>3
<1>9. f[p] \in Nat /\ h[Len(t)] \in Nat
  BY <1>1, <1>5
<1> QED
  BY <1>1, <1>2, <1>3, <1>4, <1>7, <1>8, <1>9 DEF q

\* One number.
LEMMA TotalSingle == ASSUME NEW x \in Nat PROVE Total(<<x>>) = x
<1>1. <<x>> \in Seq(Nat) /\ Len(<<x>>) = 1 /\ <<x>>[1] = x
  OBVIOUS
<1>2. PICK g : Adds(g, <<x>>, 1) /\ Total(<<x>>) = g[1]
  BY <1>1, TotalAdds
<1>3. g[0] = 0 /\ g[1] = g[1 - 1] + <<x>>[1]
  BY <1>2, AddsStep
<1> QED
  BY <1>1, <1>2, <1>3

\* Zeros add up to nothing, and so does the empty sequence.
LEMMA TotalZero ==
    ASSUME NEW s \in Seq(Nat), \A k \in 1..Len(s) : s[k] = 0
    PROVE  Total(s) = 0
<1> DEFINE n == Len(s)
<1>0. n \in Nat
  BY LenProperties
<1>1. PICK g : Adds(g, s, n) /\ Total(s) = g[n]
  BY TotalAdds
<1>2. g[0] = 0 /\ \A k \in 1..n : g[k] = g[k - 1] + s[k]
  BY <1>0, <1>1, AddsStep
<1> DEFINE Bad == {k \in 0..n : g[k] # 0}
<1>3. ASSUME Bad # {} PROVE FALSE
  <2>1. PICK m \in Bad : \A y \in Bad : m <= y
    <3>1. Bad \in SUBSET Nat
      BY <1>0
    <3> HIDE DEF Bad
    <3> QED
      BY <1>3, <3>1, LeastNatural
  <2>2. m \in 1..n /\ m - 1 \in 0..n /\ m - 1 \notin Bad
    BY <1>0, <1>2, <2>1
  <2>3. g[m - 1] = 0 /\ s[m] = 0
    BY <2>2
  <2>4. g[m] = 0
    BY <1>2, <2>2, <2>3
  <2> QED
    BY <2>1, <2>4
<1>4. n \notin Bad
  BY <1>3
<1>5. n \in 0..n
  BY <1>0
<1> QED
  BY <1>1, <1>4, <1>5

-----------------------------------------------------------------------------
(* Output.  The window is the interval of the chunks sent and not acknowledged; *)
(* so an acknowledgement pops a prefix, and the sum the playback position is    *)
(* checked against is the sum of what the loop pops.                            *)

Chunks == [sequence : 1..MaxOutput, size : ChunkSizes]

SizeList(w) == [k \in DOMAIN w |-> w[k].size]

OutputTypes ==
    /\ forwarder \in {"idle", "wait", "send"} /\ chunk \in ChunkSizes \cup {0}
    /\ sequence \in 0..MaxOutput /\ acked \in 0..MaxOutput
    /\ window \in Seq(Chunks)
    /\ windowBytes \in Nat /\ ackedBytes \in Nat /\ played \in Nat

WindowIsInterval ==
    /\ acked <= sequence /\ Len(window) = sequence - acked
    /\ \A k \in 1..Len(window) : window[k].sequence = acked + k

WindowInv ==
    /\ WindowIsInterval
    /\ windowBytes = Sizes(window)
    /\ Len(window) <= WindowFrames /\ windowBytes <= WindowBytes
    /\ played <= ackedBytes

OutputInv ==
    /\ OutputTypes /\ WindowInv
    /\ forwarder = "wait" => chunk \in ChunkSizes /\ sequence < MaxOutput

\* The sizes of chunks are natural numbers.
LEMMA SizeListType ==
    ASSUME NEW w \in Seq(Chunks)
    PROVE  /\ SizeList(w) \in Seq(Nat) /\ Len(SizeList(w)) = Len(w)
           /\ \A k \in 1..Len(w) : SizeList(w)[k] = w[k].size
<1>1. Len(w) \in Nat /\ DOMAIN w = 1..Len(w)
  BY LenProperties
<1>2. ASSUME NEW k \in 1..Len(w) PROVE w[k].size \in Nat
  <2>1. w[k] \in Chunks
    BY ElementOfSeq
  <2>2. ChunkSizes \subseteq Nat
    BY LimitAssumption, ChunkAssumption
  <2> QED
    BY <2>1, <2>2 DEF Chunks
<1>3. SizeList(w) = [k \in 1..Len(w) |-> w[k].size]
  BY <1>1 DEF SizeList
<1> QED
  BY <1>1, <1>2, <1>3

\* The bytes of two windows in a row.
LEMMA SizesConcat ==
    ASSUME NEW a \in Seq(Chunks), NEW b \in Seq(Chunks)
    PROVE  Sizes(a \o b) = Sizes(a) + Sizes(b) /\ Sizes(a) \in Nat /\ Sizes(b) \in Nat
<1> DEFINE p == SizeList(a)
           q == SizeList(b)
           r == SizeList(a \o b)
<1>1. /\ p \in Seq(Nat) /\ Len(p) = Len(a) /\ Len(a) \in Nat
      /\ \A k \in 1..Len(a) : p[k] = a[k].size
  BY SizeListType, LenProperties
<1>2. /\ q \in Seq(Nat) /\ Len(q) = Len(b) /\ Len(b) \in Nat
      /\ \A k \in 1..Len(b) : q[k] = b[k].size
  BY SizeListType, LenProperties
<1>3. /\ a \o b \in Seq(Chunks) /\ Len(a \o b) = Len(a) + Len(b)
      /\ \A k \in 1..(Len(a) + Len(b)) :
            (a \o b)[k] = IF k <= Len(a) THEN a[k] ELSE b[k - Len(a)]
  BY ConcatProperties
<1>4. /\ r \in Seq(Nat) /\ Len(r) = Len(a \o b)
      /\ \A k \in 1..Len(a \o b) : r[k] = (a \o b)[k].size
  BY <1>3, SizeListType
<1> HIDE DEF p, q, r
<1>5. /\ p \o q \in Seq(Nat) /\ Len(p \o q) = Len(p) + Len(q)
      /\ \A k \in 1..(Len(p) + Len(q)) :
            (p \o q)[k] = IF k <= Len(p) THEN p[k] ELSE q[k - Len(p)]
  <2>1. p \in Seq(Nat) /\ q \in Seq(Nat)
    BY <1>1, <1>2
  <2> QED
    BY <2>1, ConcatProperties
<1>6. ASSUME NEW k \in 1..Len(r) PROVE r[k] = (p \o q)[k]
  <2>1. k \in 1..(Len(a) + Len(b)) /\ r[k] = (a \o b)[k].size
    BY <1>3, <1>4
  <2>2. CASE k <= Len(a)
    <3>1. k \in 1..Len(a)
      BY <1>1, <2>1, <2>2
    <3>2. r[k] = a[k].size /\ p[k] = a[k].size
      BY <1>1, <1>3, <2>1, <2>2, <3>1
    <3>3. (p \o q)[k] = p[k]
      BY <1>1, <1>2, <1>5, <2>1, <2>2
    <3> QED
      BY <3>2, <3>3
  <2>3. CASE ~(k <= Len(a))
    <3>1. k - Len(a) \in 1..Len(b)
      BY <1>1, <1>2, <2>1, <2>3
    <3>2. r[k] = b[k - Len(a)].size /\ q[k - Len(a)] = b[k - Len(a)].size
      BY <1>2, <1>3, <2>1, <2>3, <3>1
    <3>3. (p \o q)[k] = q[k - Len(a)]
      BY <1>1, <1>2, <1>5, <2>1, <2>3
    <3> QED
      BY <3>2, <3>3
  <2> QED
    BY <2>2, <2>3
<1>7. r = p \o q
  BY <1>1, <1>2, <1>3, <1>4, <1>5, <1>6, SeqEqual
<1>8. Total(p \o q) = Total(p) + Total(q) /\ Total(p) \in Nat /\ Total(q) \in Nat
  BY <1>1, <1>2, TotalConcat
<1> QED
  BY <1>7, <1>8 DEF Sizes, SizeList, p, q, r

\* A chunk enters the window with its size.
LEMMA SizesAppend ==
    ASSUME NEW w \in Seq(Chunks), NEW c \in Chunks
    PROVE  Sizes(Append(w, c)) = Sizes(w) + c.size
<1>1. <<c>> \in Seq(Chunks) /\ Len(<<c>>) = 1 /\ <<c>>[1] = c /\ c.size \in Nat
  <2>1. ChunkSizes \subseteq Nat
    BY LimitAssumption, ChunkAssumption
  <2>2. c.size \in Nat
    BY <2>1 DEF Chunks
  <2> QED
    BY <2>2
<1>2. Append(w, c) = w \o <<c>>
  BY AppendIsConcat
<1>3. SizeList(<<c>>) = <<c.size>>
  <2> DEFINE l == SizeList(<<c>>)
  <2>1. l \in Seq(Nat) /\ Len(l) = 1 /\ l[1] = c.size
    <3> DEFINE w1 == <<c>>
    <3>1. w1 \in Seq(Chunks) /\ Len(w1) = 1 /\ w1[1] = c /\ 1 \in 1..1
      BY <1>1
    <3> HIDE DEF w1
    <3>2. /\ SizeList(w1) \in Seq(Nat) /\ Len(SizeList(w1)) = 1
          /\ SizeList(w1)[1] = c.size
      BY <3>1, SizeListType
    <3> QED
      BY <3>2 DEF w1
  <2> HIDE DEF l
  <2>2. <<c.size>> \in Seq(Nat) /\ Len(<<c.size>>) = 1 /\ <<c.size>>[1] = c.size
    BY <1>1
  <2>3. l = <<c.size>>
    BY <2>1, <2>2, SeqEqual
  <2> QED
    BY <2>3 DEF l
<1>4. Sizes(<<c>>) = c.size
  BY <1>1, <1>3, TotalSingle DEF Sizes, SizeList
<1> QED
  BY <1>1, <1>2, <1>4, SizesConcat

\* An empty window has no bytes.
LEMMA SizesEmpty == Sizes(<<>>) = 0
<1> DEFINE l == SizeList(<<>>)
<1>1. l \in Seq(Nat) /\ Len(l) = 0
  <2>1. <<>> \in Seq(Chunks) /\ Len(<<>>) = 0
    BY EmptySeq
  <2> QED
    BY <2>1, SizeListType
<1>2. Total(l) = 0
  <2> HIDE DEF l
  <2>1. \A k \in 1..Len(l) : l[k] = 0
    BY <1>1
  <2> QED
    BY <1>1, <2>1, TotalZero
<1> QED
  BY <1>2 DEF Sizes, SizeList

\* The chunks popped by an acknowledgement of n chunks, and the ones left.
Popped(w, n) == SubSeq(w, 1, n)
Left(w, n) == SubSeq(w, n + 1, Len(w))

\* The list BytesUpTo adds up.
UpToList(h) ==
    [k \in DOMAIN window |-> IF window[k].sequence <= h THEN window[k].size ELSE 0]

\* The size of each chunk up to h, and nothing for the others.
LEMMA UpToListType ==
    ASSUME OutputTypes, WindowIsInterval, NEW h \in Nat
    PROVE  /\ UpToList(h) \in Seq(Nat) /\ Len(UpToList(h)) = Len(window)
           /\ \A k \in 1..Len(window) :
                 UpToList(h)[k] = IF acked + k <= h THEN window[k].size ELSE 0
<1>1. window \in Seq(Chunks) /\ Len(window) \in Nat /\ DOMAIN window = 1..Len(window)
  BY LenProperties DEF OutputTypes
<1>2. \A k \in 1..Len(window) : window[k].sequence = acked + k
  BY DEF WindowIsInterval
<1>3. ASSUME NEW k \in 1..Len(window) PROVE window[k].size \in Nat
  <2>1. window[k] \in Chunks
    BY <1>1, ElementOfSeq
  <2>2. ChunkSizes \subseteq Nat
    BY LimitAssumption, ChunkAssumption
  <2> QED
    BY <2>1, <2>2 DEF Chunks
<1>4. UpToList(h) = [k \in 1..Len(window) |-> IF acked + k <= h THEN window[k].size ELSE 0]
  BY <1>1, <1>2 DEF UpToList
<1> QED
  BY <1>1, <1>3, <1>4

\* An acknowledgement that is not new adds nothing to the position it allows.
LEMMA UpToNothing ==
    ASSUME OutputTypes, WindowIsInterval, NEW h \in Nat, h <= acked
    PROVE  BytesUpTo(h) = 0
<1>1. acked \in Nat /\ Len(window) \in Nat
  BY LenProperties DEF OutputTypes
<1>2. \A k \in 1..Len(window) : ~(acked + k <= h)
  BY <1>1
<1>3. UpToList(h) \in Seq(Nat) /\ \A k \in 1..Len(UpToList(h)) : UpToList(h)[k] = 0
  BY <1>2, UpToListType
<1>4. Total(UpToList(h)) = 0
  BY <1>3, TotalZero
<1> QED
  BY <1>4 DEF BytesUpTo, UpToList

\* The loop pops the chunks up to h and no other.
LEMMA PassedExactly ==
    ASSUME OutputTypes, WindowIsInterval, NEW h \in acked..sequence
    PROVE  Passed(h) = h - acked /\ h - acked \in 0..Len(window)
<1>1. /\ acked \in Nat /\ sequence \in Nat /\ Len(window) \in Nat /\ DOMAIN window = 1..Len(window)
      /\ Len(window) = sequence - acked
      /\ \A k \in 1..Len(window) : window[k].sequence = acked + k
  BY LenProperties DEF OutputTypes, WindowIsInterval
<1>2. h \in Nat /\ h - acked \in 0..Len(window)
  BY <1>1
<1>3. {k \in DOMAIN window : \A j \in 1..k : window[j].sequence <= h} = 1..(h - acked)
  <2>1. ASSUME NEW k \in 1..Len(window), \A j \in 1..k : window[j].sequence <= h
        PROVE  k \in 1..(h - acked)
    <3>1. k \in 1..k /\ window[k].sequence = acked + k
      BY <1>1
    <3> QED
      BY <1>1, <1>2, <2>1, <3>1
  <2>2. ASSUME NEW k \in 1..(h - acked)
        PROVE  k \in 1..Len(window) /\ \A j \in 1..k : window[j].sequence <= h
    BY <1>1, <1>2
  <2> QED
    BY <1>1, <2>1, <2>2
<1>4. Cardinality(1..(h - acked)) = h - acked
  <2>1. 1 \in Int /\ h - acked \in Int
    BY <1>1, <1>2
  <2>2. Cardinality(1..(h - acked)) = IF 1 > h - acked THEN 0 ELSE (h - acked) - 1 + 1
    BY <2>1, FS_Interval
  <2> QED
    BY <1>1, <1>2, <2>2
<1> QED
  BY <1>2, <1>3, <1>4 DEF Passed

\* A window is what is popped of it and what is left.
LEMMA WindowSplits ==
    ASSUME NEW w \in Seq(Chunks), NEW n \in 0..Len(w)
    PROVE  /\ Popped(w, n) \in Seq(Chunks) /\ Len(Popped(w, n)) = n
           /\ \A k \in 1..n : Popped(w, n)[k] = w[k]
           /\ Left(w, n) \in Seq(Chunks) /\ Len(Left(w, n)) = Len(w) - n
           /\ \A k \in 1..(Len(w) - n) : Left(w, n)[k] = w[n + k]
           /\ Popped(w, n) \o Left(w, n) = w
<1>0. Len(w) \in Nat /\ n \in Nat /\ n <= Len(w)
  BY LenProperties
<1>1. /\ Popped(w, n) \in Seq(Chunks) /\ Len(Popped(w, n)) = n
      /\ \A k \in 1..n : Popped(w, n)[k] = w[k]
  <2>1. 1 \in Int /\ n \in Int /\ \A i \in 1..n : w[i] \in Chunks
    BY <1>0, ElementOfSeq
  <2>2. /\ SubSeq(w, 1, n) \in Seq(Chunks)
        /\ Len(SubSeq(w, 1, n)) = IF 1 <= n THEN n - 1 + 1 ELSE 0
        /\ \A i \in 1..(n - 1 + 1) : SubSeq(w, 1, n)[i] = w[1 + i - 1]
    BY <2>1, SubSeqProperties
  <2>3. n - 1 + 1 = n /\ (IF 1 <= n THEN n - 1 + 1 ELSE 0) = n /\ \A i \in 1..n : 1 + i - 1 = i
    BY <1>0
  <2> QED
    BY <2>2, <2>3 DEF Popped
<1>2. /\ Left(w, n) \in Seq(Chunks) /\ Len(Left(w, n)) = Len(w) - n
      /\ \A k \in 1..(Len(w) - n) : Left(w, n)[k] = w[n + k]
  <2>1. n + 1 \in Int /\ Len(w) \in Int /\ \A i \in (n + 1)..Len(w) : w[i] \in Chunks
    BY <1>0, ElementOfSeq
  <2>2. /\ SubSeq(w, n + 1, Len(w)) \in Seq(Chunks)
        /\ Len(SubSeq(w, n + 1, Len(w))) = IF n + 1 <= Len(w) THEN Len(w) - (n + 1) + 1 ELSE 0
        /\ \A i \in 1..(Len(w) - (n + 1) + 1) :
              SubSeq(w, n + 1, Len(w))[i] = w[(n + 1) + i - 1]
    BY <2>1, SubSeqProperties
  <2>3. /\ Len(w) - (n + 1) + 1 = Len(w) - n
        /\ (IF n + 1 <= Len(w) THEN Len(w) - (n + 1) + 1 ELSE 0) = Len(w) - n
        /\ \A i \in 1..(Len(w) - n) : (n + 1) + i - 1 = n + i
    BY <1>0
  <2> QED
    BY <2>2, <2>3 DEF Left
<1>3. Popped(w, n) \o Left(w, n) = w
  <2>1. 1 \in 1..Len(w) + 1 /\ n \in (1 - 1)..Len(w) /\ Len(w) \in n..Len(w)
    BY <1>0
  <2>2. SubSeq(w, 1, n) \o SubSeq(w, n + 1, Len(w)) = SubSeq(w, 1, Len(w))
    BY <2>1, ConcatAdjacentSubSeq
  <2> QED
    BY <2>2, SubSeqFull DEF Popped, Left
<1> QED
  BY <1>1, <1>2, <1>3

\* What _handle_output_ack allows to be played is what it pops.
LEMMA UpToPopped ==
    ASSUME OutputTypes, WindowIsInterval, NEW h \in acked..sequence
    PROVE  BytesUpTo(h) = Sizes(Popped(window, h - acked))
<1> DEFINE n == h - acked
           u == UpToList(h)
           p == SizeList(Popped(window, n))
           z == [k \in 1..(Len(window) - n) |-> 0]
<1>1. /\ acked \in Nat /\ h \in Nat /\ window \in Seq(Chunks) /\ Len(window) \in Nat
      /\ n \in 0..Len(window)
  BY PassedExactly, LenProperties DEF OutputTypes
<1>2. /\ u \in Seq(Nat) /\ Len(u) = Len(window)
      /\ \A k \in 1..Len(window) : u[k] = IF acked + k <= h THEN window[k].size ELSE 0
  BY <1>1, UpToListType
<1>3. /\ Popped(window, n) \in Seq(Chunks) /\ Len(Popped(window, n)) = n
      /\ \A k \in 1..n : Popped(window, n)[k] = window[k]
  BY <1>1, WindowSplits
<1>4. p \in Seq(Nat) /\ Len(p) = n /\ \A k \in 1..n : p[k] = window[k].size
  BY <1>3, SizeListType
<1>5. z \in Seq(Nat) /\ Len(z) = Len(window) - n /\ \A k \in 1..(Len(window) - n) : z[k] = 0
  BY <1>1
<1>6. \A k \in 1..Len(window) : acked + k <= h <=> k <= n
  BY <1>1
<1>7. n \in Nat /\ n <= Len(window)
  BY <1>1
<1> HIDE DEF n, u, p, z
<1>8. /\ p \o z \in Seq(Nat) /\ Len(p \o z) = Len(window)
      /\ \A k \in 1..Len(window) : (p \o z)[k] = IF k <= n THEN p[k] ELSE z[k - n]
  <2>1. p \in Seq(Nat) /\ z \in Seq(Nat)
    BY <1>4, <1>5
  <2>2. /\ p \o z \in Seq(Nat) /\ Len(p \o z) = Len(p) + Len(z)
        /\ \A k \in 1..(Len(p) + Len(z)) :
              (p \o z)[k] = IF k <= Len(p) THEN p[k] ELSE z[k - Len(p)]
    BY <2>1, ConcatProperties
  <2>3. Len(p) = n /\ Len(p) + Len(z) = Len(window)
    BY <1>1, <1>4, <1>5, <1>7
  <2> QED
    BY <2>2, <2>3
<1>9. ASSUME NEW k \in 1..Len(window) PROVE u[k] = (p \o z)[k]
  <2>1. CASE k <= n
    <3>1. k \in 1..n
      BY <1>7, <2>1
    <3> QED
      BY <1>2, <1>4, <1>6, <1>8, <2>1, <3>1
  <2>2. CASE ~(k <= n)
    <3>1. k - n \in 1..(Len(window) - n)
      BY <1>1, <1>7, <2>2
    <3> QED
      BY <1>2, <1>5, <1>6, <1>8, <2>2, <3>1
  <2> QED
    BY <2>1, <2>2
<1>10. u = p \o z
  BY <1>2, <1>8, <1>9, SeqEqual
<1>11. Total(p \o z) = Total(p) + Total(z) /\ Total(p) \in Nat
  BY <1>4, <1>5, TotalConcat
<1>12. Total(z) = 0
  BY <1>5, TotalZero
<1>13. Total(u) = Total(p)
  BY <1>10, <1>11, <1>12
<1> QED
  BY <1>13 DEF BytesUpTo, UpToList, Sizes, SizeList, u, p, n

\* A chunk for which there is room is sent.
LEMMA SendChunkKeeps ==
    ASSUME OutputInv, NEW size \in ChunkSizes, Capacity(size), sequence < MaxOutput,
           SendChunk(size), UNCHANGED <<acked, ackedBytes, played>>, chunk' = size
    PROVE  OutputInv'
<1> DEFINE c == [sequence |-> sequence + 1, size |-> size]
<1>0. /\ OutputTypes /\ WindowInv /\ WindowIsInterval /\ window \in Seq(Chunks)
      /\ Len(window) \in Nat /\ sequence \in Nat /\ acked \in Nat /\ windowBytes \in Nat
      /\ MaxOutput \in Nat /\ WindowFrames \in Nat /\ WindowBytes \in Nat /\ size \in Nat
  BY LimitAssumption, ChunkAssumption, LenProperties DEF OutputInv, OutputTypes, WindowInv
<1>1. c \in Chunks /\ c.sequence = sequence + 1 /\ c.size = size
  BY <1>0 DEF Chunks
<1>2. /\ sequence' = sequence + 1 /\ window' = Append(window, c)
      /\ windowBytes' = windowBytes + size /\ forwarder' = "send"
  BY DEF SendChunk
<1> HIDE DEF c
<1>3. /\ window' \in Seq(Chunks) /\ Len(window') = Len(window) + 1
      /\ \A k \in 1..Len(window) : window'[k] = window[k]
      /\ window'[Len(window) + 1] = c
  BY <1>0, <1>1, <1>2, AppendProperties
<1>4. OutputTypes'
  BY <1>0, <1>2, <1>3 DEF OutputTypes
<1>5. WindowIsInterval'
  <2>1. /\ acked <= sequence /\ Len(window) = sequence - acked
        /\ \A k \in 1..Len(window) : window[k].sequence = acked + k
    BY <1>0 DEF WindowIsInterval
  <2>2. ASSUME NEW k \in 1..(Len(window) + 1) PROVE window'[k].sequence = acked + k
    <3>1. CASE k = Len(window) + 1
      BY <1>0, <1>1, <1>3, <2>1, <3>1
    <3>2. CASE k # Len(window) + 1
      <4>1. k \in 1..Len(window)
        BY <1>0, <3>2
      <4> QED
        BY <1>3, <2>1, <4>1
    <3> QED
      BY <3>1, <3>2
  <2>3. acked' = acked /\ acked <= sequence + 1 /\ Len(window') = (sequence + 1) - acked
    BY <1>0, <1>3, <2>1
  <2> QED
    BY <1>2, <1>3, <2>2, <2>3 DEF WindowIsInterval
<1>6. windowBytes' = Sizes(window')
  BY <1>0, <1>1, <1>2, SizesAppend DEF WindowInv
<1>7. Len(window') <= WindowFrames /\ windowBytes' <= WindowBytes
  BY <1>0, <1>2, <1>3 DEF Capacity
<1>8. played' <= ackedBytes'
  BY DEF OutputInv, WindowInv
<1> QED
  BY <1>2, <1>4, <1>5, <1>6, <1>7, <1>8 DEF OutputInv, WindowInv

\* Steps that leave the window alone.
LEMMA OutputRests ==
    ASSUME OutputInv, UNCHANGED <<output, chunk>>, forwarder' = forwarder \/ forwarder' = "idle"
    PROVE  OutputInv'
<1>1. /\ sequence' = sequence /\ acked' = acked /\ window' = window /\ windowBytes' = windowBytes
      /\ ackedBytes' = ackedBytes /\ played' = played /\ chunk' = chunk
  BY DEF output
<1>2. OutputTypes'
  BY <1>1 DEF OutputInv, OutputTypes
<1>3. WindowInv'
  BY <1>1 DEF OutputInv, WindowInv, WindowIsInterval, Sizes
<1> QED
  BY <1>1, <1>2, <1>3 DEF OutputInv

\* An acknowledgement of new chunks: they leave, with their bytes, for the acknowledged ones.
LEMMA SlideKeeps ==
    ASSUME OutputInv, NEW h \in Nat, WasSent(h), ~(h <= acked), NEW position \in Nat,
           position <= ackedBytes + BytesUpTo(h), played' = position, Slide(h),
           UNCHANGED <<forwarder, chunk, sequence>>
    PROVE  OutputInv'
<1> DEFINE n == h - acked
           gone == Popped(window, n)
           left == Left(window, n)
<1>0. /\ OutputTypes /\ WindowInv /\ WindowIsInterval /\ window \in Seq(Chunks)
      /\ Len(window) \in Nat /\ sequence \in 0..MaxOutput /\ acked \in Nat /\ windowBytes \in Nat
      /\ ackedBytes \in Nat /\ MaxOutput \in Nat /\ WindowFrames \in Nat /\ WindowBytes \in Nat
  BY LimitAssumption, LenProperties DEF OutputInv, OutputTypes, WindowInv
<1>1. h \in acked..sequence /\ h \in 0..MaxOutput
  BY <1>0 DEF WasSent
<1>2. Passed(h) = n /\ n \in 0..Len(window)
  BY <1>0, <1>1, PassedExactly
<1>3. /\ gone \in Seq(Chunks) /\ left \in Seq(Chunks) /\ Len(left) = Len(window) - n
      /\ \A k \in 1..(Len(window) - n) : left[k] = window[n + k]
      /\ gone \o left = window
  BY <1>0, <1>2, WindowSplits
<1>4. BytesUpTo(h) = Sizes(gone)
  BY <1>0, <1>1, UpToPopped
<1>5. /\ acked' = h /\ window' = left /\ windowBytes' = windowBytes - Sizes(gone)
      /\ ackedBytes' = ackedBytes + Sizes(gone)
  BY <1>2 DEF Slide, Popped, Left
<1>6. n \in Nat /\ n <= Len(window) /\ acked + n = h
  BY <1>0, <1>1, <1>2
<1> HIDE DEF n, gone, left
<1>7. windowBytes = Sizes(gone) + Sizes(left) /\ Sizes(gone) \in Nat /\ Sizes(left) \in Nat
  <2>1. Sizes(gone \o left) = Sizes(gone) + Sizes(left) /\ Sizes(gone) \in Nat /\ Sizes(left) \in Nat
    BY <1>3, SizesConcat
  <2>2. windowBytes = Sizes(window)
    BY <1>0 DEF WindowInv
  <2> QED
    BY <1>3, <2>1, <2>2
<1>8. windowBytes' = Sizes(left) /\ windowBytes' <= windowBytes /\ windowBytes' \in Nat
      /\ ackedBytes' \in Nat
  BY <1>0, <1>5, <1>7
<1>9. OutputTypes'
  BY <1>0, <1>1, <1>3, <1>5, <1>8 DEF OutputTypes
<1>10. WindowIsInterval'
  <2>1. /\ acked <= sequence /\ Len(window) = sequence - acked
        /\ \A k \in 1..Len(window) : window[k].sequence = acked + k
    BY <1>0 DEF WindowIsInterval
  <2>2. ASSUME NEW k \in 1..Len(left) PROVE left[k].sequence = h + k
    <3>1. n + k \in 1..Len(window) /\ acked + (n + k) = h + k /\ k \in 1..(Len(window) - n)
      BY <1>0, <1>3, <1>6
    <3> QED
      BY <1>3, <2>1, <3>1
  <2>3. h <= sequence /\ Len(left) = sequence - h
    BY <1>0, <1>1, <1>3, <1>6, <2>1
  <2> QED
    BY <1>5, <2>2, <2>3 DEF WindowIsInterval
<1>11. Len(window') <= WindowFrames /\ windowBytes' <= WindowBytes
  <2>1. Len(window) <= WindowFrames /\ windowBytes <= WindowBytes
    BY <1>0 DEF WindowInv
  <2> QED
    BY <1>0, <1>3, <1>5, <1>6, <1>8, <2>1
<1>12. played' <= ackedBytes'
  BY <1>4, <1>5
<1>13. windowBytes' = Sizes(window')
  BY <1>5, <1>8
<1>14. WindowInv'
  BY <1>10, <1>11, <1>12, <1>13 DEF WindowInv
<1> QED
  BY <1>9, <1>14 DEF OutputInv

\* Every step keeps the window exact.
LEMMA OutputStep ==
    ASSUME OutputInv, [Next]_vars
    PROVE  OutputInv'
<1>1. ASSUME NEW n \in 1..MaxInput, ReceiveFrame(n) \/ ReceiveWaiting(n) PROVE OutputInv'
  BY <1>1, OutputRests DEF ReceiveFrame, ReceiveWaiting
<1>2. CASE Supersede \/ FlushBatch \/ ReaderStep \/ TimerStep
  <2>1. UNCHANGED <<output, chunk>> /\ forwarder' = forwarder
    BY <1>2 DEF Supersede, FlushBatch, ReaderStep, AudioSent, AudioFails, BatchFlushed, FlushFails,
       AckSent, AckFails, TimerStep, TimerFires, TimerSent
  <2> QED
    BY <2>1, OutputRests
<1>3. ASSUME NEW size \in ChunkSizes, ForwardAudio(size) PROVE OutputInv'
  <2>1. sequence < MaxOutput /\ chunk' = size /\ UNCHANGED <<acked, ackedBytes, played>>
    BY <1>3 DEF ForwardAudio
  <2>2. CASE Capacity(size)
    <3>1. SendChunk(size)
      BY <1>3, <2>2 DEF ForwardAudio
    <3> QED
      BY <2>1, <2>2, <3>1, SendChunkKeeps
  <2>3. CASE ~Capacity(size)
    <3>1. forwarder' = "wait" /\ UNCHANGED <<sequence, window, windowBytes>>
      BY <1>3, <2>3 DEF ForwardAudio
    <3>2. OutputTypes'
      BY <2>1, <3>1 DEF OutputInv, OutputTypes
    <3>3. WindowInv'
      BY <2>1, <3>1 DEF OutputInv, WindowInv, WindowIsInterval, Sizes
    <3> QED
      BY <2>1, <3>1, <3>2, <3>3 DEF OutputInv
  <2> QED
    BY <2>2, <2>3
<1>4. CASE ForwarderStep
  <2>1. CASE CapacityFound
    <3>1. forwarder = "wait" /\ chunk' = chunk /\ UNCHANGED <<acked, ackedBytes, played>>
      BY <2>1 DEF CapacityFound
    <3>2. CASE terminal \/ ~current
      <4>1. UNCHANGED <<output, chunk>> /\ forwarder' = "idle"
        BY <2>1, <3>1, <3>2 DEF CapacityFound, output
      <4> QED
        BY <4>1, OutputRests
    <3>3. CASE ~(terminal \/ ~current)
      <4>1. SendChunk(chunk) /\ Capacity(chunk)
        BY <2>1, <3>3 DEF CapacityFound
      <4>2. chunk \in ChunkSizes /\ sequence < MaxOutput
        BY <3>1 DEF OutputInv
      <4> QED
        BY <3>1, <4>1, <4>2, SendChunkKeeps
    <3> QED
      BY <3>2, <3>3
  <2>2. CASE CapacityTimeout \/ ChunkSent \/ ChunkFails
    BY <2>2, OutputRests DEF CapacityTimeout, ChunkSent, ChunkFails
  <2> QED
    BY <1>4, <2>1, <2>2 DEF ForwarderStep
<1>5. ASSUME NEW h \in 0..(MaxOutput + 1), NEW position \in 0..(WindowBytes + 1),
             OutputAck(h, position)
      PROVE  OutputInv'
  <2>0. /\ UNCHANGED <<forwarder, chunk, sequence>> /\ h \in Nat /\ position \in Nat
        /\ OutputTypes /\ WindowIsInterval /\ ackedBytes \in Nat
    BY <1>5, LimitAssumption DEF OutputAck, OutputInv, WindowInv, OutputTypes
  <2>1. CASE WasSent(h) /\ ValidPosition(h, position)
    <3>1. played' = position /\ position <= ackedBytes + BytesUpTo(h)
      BY <1>5, <2>1 DEF OutputAck, ValidPosition
    <3>2. CASE h <= acked
      <4>1. UNCHANGED <<acked, window, windowBytes, ackedBytes>>
        BY <1>5, <2>1, <3>2 DEF OutputAck
      <4>2. BytesUpTo(h) = 0
        BY <2>0, <3>2, UpToNothing
      <4>3. played' <= ackedBytes' /\ played' \in Nat
        BY <2>0, <3>1, <4>1, <4>2
      <4>4. OutputTypes'
        BY <2>0, <4>1, <4>3 DEF OutputTypes
      <4>5. WindowInv'
        BY <2>0, <4>1, <4>3 DEF OutputInv, WindowInv, WindowIsInterval, Sizes
      <4> QED
        BY <2>0, <4>4, <4>5 DEF OutputInv
    <3>3. CASE ~(h <= acked)
      <4>1. Slide(h)
        BY <1>5, <2>1, <3>3 DEF OutputAck
      <4> QED
        BY <2>0, <2>1, <3>1, <3>3, <4>1, SlideKeeps
    <3> QED
      BY <3>2, <3>3
  <2>2. CASE ~(WasSent(h) /\ ValidPosition(h, position))
    <3>1. UNCHANGED <<output, chunk>> /\ forwarder' = forwarder
      BY <1>5, <2>2 DEF OutputAck, output
    <3> QED
      BY <3>1, OutputRests
  <2> QED
    BY <2>1, <2>2
<1>6. CASE UNCHANGED vars
  <2>1. UNCHANGED <<output, chunk>> /\ forwarder' = forwarder
    BY <1>6 DEF vars
  <2> QED
    BY <2>1, OutputRests
<1> QED
  BY <1>1, <1>2, <1>3, <1>4, <1>5, <1>6 DEF Next

\* Nothing was sent.
LEMMA OutputStarts == Init => OutputInv
<1> SUFFICES ASSUME Init PROVE OutputInv
  OBVIOUS
<1>0. MaxOutput \in Nat /\ WindowFrames \in Nat /\ WindowBytes \in Nat
  BY LimitAssumption
<1>1. /\ forwarder = "idle" /\ chunk = 0 /\ sequence = 0 /\ acked = 0 /\ window = <<>>
      /\ windowBytes = 0 /\ ackedBytes = 0 /\ played = 0
  BY DEF Init
<1>2. <<>> \in Seq(Chunks) /\ Len(<<>>) = 0
  BY EmptySeq
<1>3. OutputTypes
  BY <1>0, <1>1, <1>2 DEF OutputTypes
<1>4. Sizes(<<>>) = 0
  BY SizesEmpty
<1>5. WindowInv
  BY <1>0, <1>1, <1>2, <1>4 DEF WindowInv, WindowIsInterval
<1> QED
  BY <1>1, <1>3, <1>5 DEF OutputInv

\* Whatever the product acknowledges, the window is exact.
LEMMA OutputInvariant == Spec => []OutputInv
<1> QED
  BY OutputStarts, OutputStep, PTL DEF Spec

-----------------------------------------------------------------------------
(* The theorems. *)

\* The generation only ever turns stale.
LEMMA CurrentInvariant == Spec => [](current \in BOOLEAN)
<1>1. Init => current \in BOOLEAN
  BY DEF Init
<1>2. current \in BOOLEAN /\ [Next]_vars => (current \in BOOLEAN)'
  BY DEF Next, vars, ReceiveFrame, ReceiveWaiting, Supersede, FlushBatch, ReaderStep, AudioSent,
     AudioFails, BatchFlushed, FlushFails, AckSent, AckFails, TimerStep, TimerFires, TimerSent,
     ForwardAudio, ForwarderStep, CapacityFound, CapacityTimeout, ChunkSent, ChunkFails, OutputAck
<1> QED
  BY <1>1, <1>2, PTL DEF Spec

\* Whatever order, repetition and batching the microphone frames come in, the session is
\* given each of them once and in sequence, nothing is lost between _InputWindow, the list
\* being fed and the batch, and the input window keeps its limits.
THEOREM AudioInSequence == Spec => []InputInSequence
<1>1. InputInv /\ OutputInv /\ current \in BOOLEAN => InputInSequence
  <2> SUFFICES ASSUME InputInv, OutputInv, current \in BOOLEAN PROVE InputInSequence
    OBVIOUS
  <2>1. TypeOK
    BY DEF TypeOK, InputInv, InputTypes, ReaderTypes, OutputInv, OutputTypes, Frames, Chunks
  <2> QED
    BY <2>1 DEF InputInSequence, InputInv, InputFlow
<1> QED
  BY <1>1, InputInvariant, OutputInvariant, CurrentInvariant, PTL

\* The output window is exactly the chunks sent and not acknowledged, in order, its byte
\* counter is their size, both limits hold whatever the product acknowledges, and the
\* playback position never passes the audio of the acknowledged chunks.
THEOREM AudioWindowExact == Spec => []OutputWindowExact
<1>1. OutputInv => OutputWindowExact
  <2> SUFFICES ASSUME OutputInv PROVE OutputWindowExact
    OBVIOUS
  <2>1. /\ acked \in Nat /\ sequence \in Nat /\ Len(window) \in Nat
        /\ DOMAIN window = 1..Len(window) /\ Len(window) = sequence - acked
        /\ \A k \in 1..Len(window) : window[k].sequence = acked + k
    BY LenProperties DEF OutputInv, OutputTypes, WindowInv, WindowIsInterval
  <2>2. [k \in DOMAIN window |-> window[k].sequence] = [k \in 1..(sequence - acked) |-> acked + k]
    BY <2>1
  <2>3. Interval(acked + 1, sequence) = [k \in 1..(sequence - acked) |-> acked + k]
    <3>1. sequence + 1 - (acked + 1) = sequence - acked
      BY <2>1
    <3>2. \A k \in 1..(sequence - acked) : (acked + 1) + k - 1 = acked + k
      BY <2>1
    <3> QED
      BY <3>1, <3>2 DEF Interval
  <2> QED
    BY <2>2, <2>3 DEF OutputInv, WindowInv, OutputWindowExact
<1> QED
  BY <1>1, OutputInvariant, PTL

\* A producer without capacity has chunks outstanding.
BlockedOnProduct == forwarder = "wait" /\ ~Capacity(chunk) => window # <<>>

\* _send_output_chunk never waits for an acknowledgement that cannot come: when it finds no
\* capacity, the product has chunks left to acknowledge.  It rests on the exact byte count:
\* a count that drifted up would block the producer on an empty window.
THEOREM AudioBlockedOnProduct == Spec => []BlockedOnProduct
<1>1. OutputInv => BlockedOnProduct
  <2> SUFFICES ASSUME OutputInv, forwarder = "wait", window = <<>> PROVE Capacity(chunk)
    BY DEF BlockedOnProduct
  <2>1. chunk \in 1..WindowBytes /\ WindowFrames \in Nat \ {0} /\ WindowBytes \in Nat
    BY LimitAssumption, ChunkAssumption DEF OutputInv
  <2>2. Len(window) = 0
    BY EmptySeq
  <2>3. windowBytes = 0
    <3>1. windowBytes = Sizes(<<>>)
      BY DEF OutputInv, WindowInv
    <3> QED
      BY <3>1, SizesEmpty
  <2> QED
    BY <2>1, <2>2, <2>3 DEF Capacity
<1> QED
  BY <1>1, OutputInvariant, PTL

===============================================================================
