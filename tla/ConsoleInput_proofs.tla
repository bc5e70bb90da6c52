-------------------------- MODULE ConsoleInput_proofs --------------------------
(***************************************************************************)
(* For every frame, stream and chunk size: the input path keeps its types, *)
(* accounts for every byte and delivers in order.                          *)
(***************************************************************************)
EXTENDS ConsoleInput, SequenceTheorems, TLAPS

\* The bytes on their way, the oldest first, and those already delivered.
Track == sent \o hand \o stream

\* Delivery order is inductive together with the fact that a byte is numbered
\* when it is submitted: nothing in the pipe has a number still to be given.
Numbered == \A i \in 1 .. Len(Track) : Track[i] <= submitted

IInv == TypeOK /\ EveryByteAccounted /\ HostSeesInputOrder /\ Numbered

USE InputAssumption

\* Concatenation of byte sequences is associative.
LEMMA Assoc ==
  ASSUME NEW a \in Seq(Position), NEW b \in Seq(Position), NEW c \in Seq(Position)
  PROVE  (a \o b) \o c = a \o (b \o c)
BY ConcatAssociative

\* The parts of the pipe are sequences of numbers, and so is the pipe.
LEMMA TrackSeq ==
  ASSUME TypeOK
  PROVE  /\ sent \in Seq(Position) /\ hand \in Seq(Position)
         /\ stream \in Seq(Position)
         /\ Track \in Seq(Nat)
         /\ Len(Track) = Len(sent) + Len(hand) + Len(stream)
BY DEF TypeOK, Track, Position

\* Appending the next numbers to an increasing sequence keeps it increasing.
LEMMA AppendNumbers ==
  ASSUME NEW s \in Seq(Nat), NEW m \in Nat, NEW w \in Nat,
         Increasing(s), \A i \in 1 .. Len(s) : s[i] <= m
  PROVE  /\ s \o Numbers(m, m + w) \in Seq(Nat)
         /\ Increasing(s \o Numbers(m, m + w))
         /\ \A i \in 1 .. Len(s \o Numbers(m, m + w)) : (s \o Numbers(m, m + w))[i] <= m + w
<1> DEFINE u == Numbers(m, m + w)
           t == s \o u
<1>1. u \in Seq(Nat) /\ Len(u) = w /\ \A i \in 1 .. w : u[i] = m + i
  BY DEF Numbers
<1> HIDE DEF u
<1>2. t \in Seq(Nat) /\ Len(t) = Len(s) + w /\ Len(s) \in Nat
  <2>1. u \in Seq(Nat) /\ Len(u) = w
    BY <1>1
  <2>2. QED
    BY <2>1
<1>3. \A i \in 1 .. Len(t) : t[i] = IF i <= Len(s) THEN s[i] ELSE m + (i - Len(s))
  BY <1>1, <1>2
<1>4. \A i \in 1 .. Len(s) : s[i] \in Nat /\ s[i] <= m
  OBVIOUS
<1> HIDE DEF t
<1>5. Increasing(t)
  <2> SUFFICES ASSUME NEW i \in 1 .. Len(t), NEW j \in 1 .. Len(t), i < j
               PROVE  t[i] < t[j]
    BY DEF Increasing
  <2>1. CASE j <= Len(s)
    <3>1. i \in 1 .. Len(s) /\ j \in 1 .. Len(s)
      BY <1>2, <2>1
    <3>2. t[i] = s[i] /\ t[j] = s[j]
      BY <1>2, <1>3, <3>1
    <3>3. QED
      BY <3>1, <3>2 DEF Increasing
  <2>2. CASE i <= Len(s) /\ Len(s) < j
    BY <1>2, <1>3, <1>4, <2>2
  <2>3. CASE Len(s) < i
    BY <1>2, <1>3, <2>3
  <2>4. QED
    BY <1>2, <2>1, <2>2, <2>3
<1>6. \A i \in 1 .. Len(t) : t[i] <= m + w
  <2> SUFFICES ASSUME NEW i \in 1 .. Len(t)
               PROVE  t[i] <= m + w
    OBVIOUS
  <2>1. CASE i <= Len(s)
    <3>1. i \in 1 .. Len(s)
      BY <1>2, <2>1
    <3>2. QED
      BY <1>3, <1>4, <2>1, <3>1
  <2>2. CASE Len(s) < i
    BY <1>2, <1>3, <2>2
  <2>3. QED
    BY <1>2, <2>1, <2>2
<1>7. QED
  BY <1>2, <1>5, <1>6 DEF t, u

\* Taking the middle part out of an increasing sequence keeps it increasing.
LEMMA CutMiddle ==
  ASSUME NEW a \in Seq(Nat), NEW b \in Seq(Nat), NEW c \in Seq(Nat), NEW m \in Nat,
         Increasing(a \o b \o c), \A i \in 1 .. Len(a \o b \o c) : (a \o b \o c)[i] <= m
  PROVE  /\ Increasing(a \o <<>> \o c)
         /\ \A i \in 1 .. Len(a \o <<>> \o c) : (a \o <<>> \o c)[i] <= m
<1> DEFINE t == a \o b \o c
           u == a \o <<>> \o c
           k(i) == IF i <= Len(a) THEN i ELSE i + Len(b)
<1>1. /\ Len(a) \in Nat /\ Len(b) \in Nat /\ Len(c) \in Nat
      /\ Len(t) = Len(a) + Len(b) + Len(c) /\ Len(u) = Len(a) + Len(c)
  OBVIOUS
<1>2. \A i \in 1 .. Len(u) : k(i) \in 1 .. Len(t) /\ u[i] = t[k(i)]
  BY <1>1
<1>3. \A i, j \in 1 .. Len(u) : i < j => k(i) < k(j)
  BY <1>1
<1> HIDE DEF t, u, k
<1>4. Increasing(t) /\ \A i \in 1 .. Len(t) : t[i] <= m
  BY DEF t
<1>5. Increasing(u)
  BY <1>2, <1>3, <1>4 DEF Increasing
<1>6. \A i \in 1 .. Len(u) : u[i] <= m
  BY <1>2, <1>4
<1>7. QED
  BY <1>5, <1>6 DEF u

-----------------------------------------------------------------------------

LEMMA InitIInv == Init => IInv
<1> SUFFICES ASSUME Init PROVE IInv
  OBVIOUS
<1>1. TypeOK /\ EveryByteAccounted
  BY DEF Init, TypeOK, EveryByteAccounted, Nothing
<1>2. Len(Track) = 0
  BY DEF Init, Track
<1>3. QED
  BY <1>1, <1>2 DEF IInv, HostSeesInputOrder, Increasing, Numbered, Track

\* What submitting keeps: the accepted part of the frame joins the stream.
LEMMA SubmitIInv ==
  ASSUME IInv, NEW len \in 1 .. FrameMax, Submit(len)
  PROVE  IInv'
<1> DEFINE written == Smaller(len, StreamSize - Len(stream))
           added == Numbers(submitted, submitted + written)
<1>1. /\ written \in 0 .. len /\ written <= StreamSize - Len(stream)
      /\ written \in Nat /\ len - written \in Nat /\ len \in Nat
  BY DEF IInv, TypeOK, Smaller
<1>2. /\ uncounted = Nothing /\ submitted + len <= MaxBytes
      /\ stream' = stream \o added
      /\ uncounted' = [written |-> written, refused |-> len - written]
      /\ submitted' = submitted + len
      /\ UNCHANGED <<bridge, hand, unreported, sent, lost, bytesSent>>
  BY DEF Submit, usbTx
<1> HIDE DEF written
<1>3. added \in Seq(Position) /\ Len(added) = written
  BY <1>1, <1>2 DEF IInv, TypeOK, Numbers, Position
<1>4. TypeOK'
  BY <1>1, <1>2, <1>3 DEF IInv, TypeOK
<1>5. Len(stream') = Len(stream) + written /\ Len(stream) \in Nat
  <2>1. stream \in Seq(Position)
    BY DEF IInv, TypeOK
  <2>2. Len(stream \o added) = Len(stream) + Len(added) /\ Len(stream) \in Nat
    BY <1>3, <2>1, ConcatProperties
  <2>3. QED
    BY <1>2, <1>3, <2>2
<1>6. EveryByteAccounted'
  <2>1. uncounted.written = 0 /\ uncounted.refused = 0
    BY <1>2 DEF Nothing
  <2>2. uncounted'.written = written /\ uncounted'.refused = len - written
    BY <1>2
  <2>3. /\ bridge.bytesToUsb \in Nat /\ bridge.droppedToUsb \in Nat
        /\ Len(hand) \in Nat /\ Len(sent) \in Nat /\ lost \in Nat
        /\ submitted \in Nat
    BY DEF IInv, TypeOK
  <2>4. EveryByteAccounted
    BY DEF IInv
  <2>5. /\ submitted' = submitted + len
        /\ UNCHANGED <<bridge, hand, unreported, sent, lost, bytesSent>>
    BY <1>2
  <2>6. written \in Nat /\ len \in Nat /\ len - written \in Nat
    BY <1>1
  <2>7. submitted' = bridge'.bytesToUsb + bridge'.droppedToUsb
                       + uncounted'.written + uncounted'.refused
    <3>1. submitted = bridge.bytesToUsb + bridge.droppedToUsb
      BY <2>1, <2>3, <2>4 DEF EveryByteAccounted
    <3>2. bridge' = bridge
      BY <2>5
    <3>3. QED
      BY <2>2, <2>3, <2>5, <2>6, <3>1, <3>2
  <2>8. bridge'.bytesToUsb + uncounted'.written
          = Len(stream') + Len(hand') + Len(sent') + lost'
    <3>1. bridge.bytesToUsb = Len(stream) + Len(hand) + Len(sent) + lost
      BY <2>1, <2>3, <2>4 DEF EveryByteAccounted
    <3>2. QED
      BY ONLY <1>5, <2>2, <2>3, <2>5, <2>6, <3>1
  <2>9. Len(sent') = bytesSent' + unreported'
    BY <2>4, <2>5 DEF EveryByteAccounted
  <2>10. QED
    BY <2>7, <2>8, <2>9 DEF EveryByteAccounted
<1>7. HostSeesInputOrder' /\ Numbered'
  <2>1. Track \in Seq(Nat) /\ submitted \in Nat
    BY TrackSeq DEF IInv, TypeOK
  <2>2. Track' = Track \o added
    <3>1. /\ sent \in Seq(Position) /\ hand \in Seq(Position)
          /\ stream \in Seq(Position)
      BY DEF IInv, TypeOK
    <3>2. (sent \o hand) \in Seq(Position)
      BY <3>1, ConcatProperties
    <3>3. added \in Seq(Position)
      BY <1>3
    <3> HIDE DEF added
    <3>4. (sent \o hand) \o (stream \o added) = ((sent \o hand) \o stream) \o added
      BY <3>1, <3>2, <3>3, Assoc
    <3>5. QED
      BY <1>2, <3>4 DEF Track
  <2>3. /\ Track' \in Seq(Nat) /\ Increasing(Track')
        /\ \A i \in 1 .. Len(Track') : Track'[i] <= submitted + written
    BY <1>1, <2>1, <2>2, AppendNumbers DEF IInv, HostSeesInputOrder, Numbered, Track
  <2>4. \A i \in 1 .. Len(Track') : Track'[i] \in Nat
    BY <2>3
  <2>5. \A i \in 1 .. Len(Track') : Track'[i] <= submitted'
    BY <1>1, <1>2, <2>1, <2>3, <2>4
  <2>6. QED
    BY <2>3, <2>5 DEF HostSeesInputOrder, Numbered, Track
<1>8. QED
  BY <1>4, <1>6, <1>7 DEF IInv

LEMMA CountIInv ==
  ASSUME IInv, Count
  PROVE  IInv'
<1>1. Track' = Track
  BY DEF Count, usbTx, Track
<1>2. TypeOK'
  BY DEF IInv, TypeOK, Count, usbTx, Nothing
<1>3. EveryByteAccounted'
  BY DEF IInv, TypeOK, EveryByteAccounted, Count, usbTx, Nothing
<1>4. HostSeesInputOrder' /\ Numbered'
  BY <1>1 DEF IInv, HostSeesInputOrder, Numbered, Count, Track
<1>5. QED
  BY <1>2, <1>3, <1>4 DEF IInv

\* Moving bytes from one part of the pipe to the next leaves the track alone.
LEMMA SplitHead ==
  ASSUME NEW S, NEW s \in Seq(S), NEW n \in 0 .. Len(s)
  PROVE  /\ SubSeq(s, 1, n) \in Seq(S)
         /\ SubSeq(s, n + 1, Len(s)) \in Seq(S)
         /\ Len(SubSeq(s, 1, n)) = n /\ Len(SubSeq(s, n + 1, Len(s))) = Len(s) - n
         /\ SubSeq(s, 1, n) \o SubSeq(s, n + 1, Len(s)) = s
<1>1. Len(s) \in Nat /\ n \in Nat /\ n <= Len(s) /\ 1 \in 1 .. Len(s) + 1
      /\ n \in 1 - 1 .. Len(s) /\ Len(s) \in n .. Len(s)
  OBVIOUS
<1>2. \A i \in 1 .. Len(s) : s[i] \in S
  OBVIOUS
<1>3. SubSeq(s, 1, n) \in Seq(S) /\ Len(SubSeq(s, 1, n)) = n
  BY <1>1, <1>2, SubSeqProperties
<1>4. /\ SubSeq(s, n + 1, Len(s)) \in Seq(S)
      /\ Len(SubSeq(s, n + 1, Len(s))) = Len(s) - n
  BY <1>1, <1>2, SubSeqProperties
<1>5. SubSeq(s, 1, n) \o SubSeq(s, n + 1, Len(s)) = s
  BY <1>1, ConcatAdjacentSubSeq, SubSeqFull
<1>6. QED
  BY <1>3, <1>4, <1>5

LEMMA TransmitIInv ==
  ASSUME IInv, Transmit
  PROVE  IInv'
<1>1. CASE Receive
  <2> DEFINE n == Smaller(Len(stream), ChunkMax)
  <2>1. n \in 0 .. Len(stream) /\ n <= ChunkMax
    BY DEF IInv, TypeOK, Smaller
  <2>2. /\ hand = <<>> /\ hand' = SubSeq(stream, 1, n)
        /\ stream' = SubSeq(stream, n + 1, Len(stream))
        /\ UNCHANGED <<submitted, uncounted, bridge, unreported, sent, lost, bytesSent>>
    BY <1>1 DEF Receive, submitter
  <2> HIDE DEF n
  <2>3. /\ hand' \in Seq(Position) /\ stream' \in Seq(Position)
        /\ Len(hand') = n /\ Len(stream') = Len(stream) - n
        /\ hand' \o stream' = stream
    BY <2>1, <2>2, SplitHead DEF IInv, TypeOK
  <2>4. /\ Len(stream) \in Nat /\ n \in Nat /\ Len(hand) = 0
        /\ Len(stream') <= StreamSize /\ Len(hand') <= ChunkMax
    BY <2>1, <2>2, <2>3 DEF IInv, TypeOK
  <2>5. TypeOK'
    BY <2>2, <2>3, <2>4 DEF IInv, TypeOK
  <2>6. EveryByteAccounted'
    <3>1. /\ Len(sent) \in Nat /\ lost \in Nat /\ EveryByteAccounted
      BY DEF IInv, TypeOK
    <3>2. /\ Len(hand') = n /\ Len(stream') = Len(stream) - n
          /\ Len(stream) \in Nat /\ n \in Nat /\ Len(hand) = 0
      BY <2>3, <2>4
    <3>3. UNCHANGED <<submitted, uncounted, bridge, unreported, sent, lost, bytesSent>>
      BY <2>2
    <3>4. QED
      BY ONLY <3>1, <3>2, <3>3 DEF EveryByteAccounted
  <2>7. Track' = Track
    <3>1. sent \in Seq(Position) /\ sent \o <<>> = sent
      BY DEF IInv, TypeOK
    <3>2. hand' \in Seq(Position) /\ stream' \in Seq(Position)
      BY <2>3
    <3>3. (sent \o hand') \o stream' = sent \o (hand' \o stream')
      BY <3>1, <3>2, Assoc
    <3>4. hand = <<>> /\ sent' = sent /\ hand' \o stream' = stream
      BY <2>2, <2>3
    <3>5. QED
      BY <3>1, <3>3, <3>4 DEF Track
  <2>8. QED
    BY <2>2, <2>5, <2>6, <2>7 DEF IInv, HostSeesInputOrder, Numbered, Track
<1>2. ASSUME NEW n \in 1 .. ChunkMax, Write(n)
      PROVE  IInv'
  <2>1. /\ n \in 0 .. Len(hand) /\ unreported = 0
        /\ sent' = sent \o SubSeq(hand, 1, n)
        /\ hand' = SubSeq(hand, n + 1, Len(hand))
        /\ unreported' = n
        /\ UNCHANGED <<submitted, uncounted, bridge, stream, lost, bytesSent>>
    BY <1>2 DEF Write, submitter, IInv, TypeOK
  <2>2. /\ SubSeq(hand, 1, n) \in Seq(Position) /\ hand' \in Seq(Position)
        /\ Len(SubSeq(hand, 1, n)) = n /\ Len(hand') = Len(hand) - n
        /\ SubSeq(hand, 1, n) \o hand' = hand
    BY <2>1, SplitHead DEF IInv, TypeOK
  <2>3. sent' \in Seq(Position) /\ Len(sent') = Len(sent) + n
    BY <2>1, <2>2, ConcatProperties DEF IInv, TypeOK
  <2>4. TypeOK'
    BY <2>1, <2>2, <2>3 DEF IInv, TypeOK
  <2>5. EveryByteAccounted'
    <3>1. /\ Len(sent) \in Nat /\ Len(hand) \in Nat /\ lost \in Nat
          /\ Len(stream) \in Nat /\ EveryByteAccounted
      BY DEF IInv, TypeOK
    <3>2. Len(hand') = Len(hand) - n /\ Len(sent') = Len(sent) + n /\ n \in Nat
      BY <2>2, <2>3
    <3>3. /\ unreported = 0 /\ unreported' = n /\ submitted' = submitted
          /\ uncounted' = uncounted /\ bridge' = bridge /\ stream' = stream
          /\ lost' = lost /\ bytesSent' = bytesSent
      BY <2>1
    <3>4. bytesSent \in Nat
      BY DEF IInv, TypeOK
    <3>5. QED
      BY ONLY <3>1, <3>2, <3>3, <3>4 DEF EveryByteAccounted
  <2>6. Track' = Track
    <3>1. sent \in Seq(Position)
      BY DEF IInv, TypeOK
    <3>2. SubSeq(hand, 1, n) \in Seq(Position) /\ hand' \in Seq(Position)
      BY <2>2
    <3>3. (sent \o SubSeq(hand, 1, n)) \o hand' = sent \o (SubSeq(hand, 1, n) \o hand')
      BY <3>1, <3>2, Assoc
    <3>4. QED
      BY <2>1, <2>2, <3>3 DEF Track
  <2>7. QED
    BY <2>1, <2>4, <2>5, <2>6 DEF IInv, HostSeesInputOrder, Numbered, Track
<1>3. CASE AddSent
  <2>1. Track' = Track
    BY <1>3 DEF AddSent, submitter, Track
  <2>2. TypeOK'
    BY <1>3 DEF IInv, TypeOK, AddSent, submitter
  <2>3. EveryByteAccounted'
    <3>1. bytesSent \in Nat /\ unreported \in Nat /\ Len(sent) \in Nat
      BY DEF IInv, TypeOK
    <3>2. QED
      BY <1>3, <3>1 DEF IInv, EveryByteAccounted, AddSent, submitter
  <2>4. QED
    BY <1>3, <2>1, <2>2, <2>3 DEF IInv, HostSeesInputOrder, Numbered, Track, AddSent, submitter
<1>4. CASE Backpressure
  <2>1. TypeOK' /\ EveryByteAccounted'
    <3>1. /\ Len(sent) \in Nat /\ Len(hand) \in Nat /\ lost \in Nat
          /\ Len(stream) \in Nat
      BY DEF IInv, TypeOK
    <3>2. TypeOK'
      BY <1>4, <3>1 DEF IInv, TypeOK, Backpressure, submitter
    <3>3. hand' = <<>> /\ Len(hand') = 0 /\ lost' = lost + Len(hand)
      BY <1>4 DEF Backpressure
    <3>4. EveryByteAccounted'
      BY <1>4, <3>1, <3>3 DEF IInv, EveryByteAccounted, Backpressure, submitter
    <3>5. QED
      BY <3>2, <3>4
  <2>2. Track' = sent \o <<>> \o stream /\ submitted' = submitted
    BY <1>4 DEF Backpressure, submitter, Track
  <2>3. /\ sent \in Seq(Nat) /\ hand \in Seq(Nat) /\ stream \in Seq(Nat)
        /\ submitted \in Nat
    BY DEF IInv, TypeOK, Position
  <2>4. /\ Increasing(sent \o <<>> \o stream)
        /\ \A i \in 1 .. Len(sent \o <<>> \o stream) : (sent \o <<>> \o stream)[i] <= submitted
    BY <2>3, CutMiddle DEF IInv, HostSeesInputOrder, Numbered, Track
  <2>5. QED
    BY <2>1, <2>2, <2>4 DEF IInv, HostSeesInputOrder, Numbered, Track
<1>5. QED
  BY <1>1, <1>2, <1>3, <1>4 DEF Transmit

LEMMA NextIInv == IInv /\ [Next]_vars => IInv'
<1> SUFFICES ASSUME IInv, [Next]_vars
             PROVE  IInv'
  OBVIOUS
<1>1. CASE UNCHANGED vars
  BY <1>1 DEF vars, submitter, usbTx, IInv, TypeOK, EveryByteAccounted,
              HostSeesInputOrder, Numbered, Track, Increasing
<1>2. QED
  BY <1>1, SubmitIInv, CountIInv, TransmitIInv DEF Next

\* Counters, buffers and byte numbers keep their types and limits.
THEOREM TypeCorrect == Spec => []TypeOK
BY InitIInv, NextIInv, PTL DEF Spec, IInv

\* No keystroke disappears from the books.
THEOREM AllBytesAccounted == Spec => []EveryByteAccounted
BY InitIInv, NextIInv, PTL DEF Spec, IInv

\* The host never gets keystrokes out of order or twice.
THEOREM InputOrderKept == Spec => []HostSeesInputOrder
BY InitIInv, NextIInv, PTL DEF Spec, IInv
=============================================================================
