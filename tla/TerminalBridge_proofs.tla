------------------------- MODULE TerminalBridge_proofs -------------------------
(***************************************************************************)
(* For every ring size, snapshot size, set of batches and set of tasks:    *)
(* the types and counters of TerminalBridge hold, and TerminalBridge       *)
(* implements BridgeHistory.                                               *)
(***************************************************************************)
EXTENDS TerminalBridge, TLAPS

\* One wrap at most: the ring never adds more than its size to an index.
LEMMA ModWrap ==
  ASSUME NEW k \in 0 .. (2 * Capacity - 1)
  PROVE  k % Capacity = IF k < Capacity THEN k ELSE k - Capacity
BY SizeAssumption

\* The ring positions of Contents are slots of the storage array.
LEMMA SlotInIndex ==
  ASSUME NEW s \in Index, NEW i \in 0 .. Capacity
  PROVE  /\ (s + i) % Capacity \in Index
         /\ (s + i) % Capacity = IF s + i < Capacity THEN s + i ELSE s + i - Capacity
<1>1. s + i \in 0 .. (2 * Capacity - 1)
  BY SizeAssumption DEF Index
<1>2. QED
  BY <1>1, ModWrap, SizeAssumption DEF Index

LEMMA ContentsType ==
  ASSUME TypeOK
  PROVE  Contents \in Seq(Byte) /\ Len(Contents) = count
<1>1. count \in Nat
  BY SizeAssumption DEF TypeOK
<1>2. ASSUME NEW i \in 1 .. count
      PROVE  storage[(start + i - 1) % Capacity] \in Byte
  <2>1. i - 1 \in 0 .. Capacity /\ start + i - 1 = start + (i - 1)
    BY SizeAssumption DEF TypeOK, Index
  <2>2. (start + i - 1) % Capacity \in Index
    BY <2>1, SlotInIndex DEF TypeOK
  <2>3. QED
    BY <2>2 DEF TypeOK
<1>3. QED
  BY <1>1, <1>2 DEF Contents

-----------------------------------------------------------------------------

\* What relates the counters to the ring: bytes received are retained, dropped
\* or still to be written, and between two publications the status is current.
Accounting ==
  /\ status.bytesFromUsb = count + dropped + Len(pending)
  /\ lock = NoTask => /\ pending = <<>>
                      /\ status.retained = count
                      /\ status.droppedOldest = dropped

IInv == TypeOK /\ Accounting /\ ReportConsistent

USE DEF StatusType, ZeroStatus

\* The two updates of s_status keep its type and change only what they name.
LEMMA StatusUpdate ==
  ASSUME NEW st \in StatusType, NEW n \in Nat, NEW m \in Nat
  PROVE  /\ [st EXCEPT !.bytesFromUsb = n] \in StatusType
         /\ [st EXCEPT !.bytesFromUsb = n].bytesFromUsb = n
         /\ [st EXCEPT !.bytesFromUsb = n].retained = st.retained
         /\ [st EXCEPT !.bytesFromUsb = n].droppedOldest = st.droppedOldest
         /\ [st EXCEPT !.retained = n, !.droppedOldest = m] \in StatusType
         /\ [st EXCEPT !.retained = n, !.droppedOldest = m].bytesFromUsb = st.bytesFromUsb
         /\ [st EXCEPT !.retained = n, !.droppedOldest = m].retained = n
         /\ [st EXCEPT !.retained = n, !.droppedOldest = m].droppedOldest = m
OBVIOUS

LEMMA InitIInv == Init => IInv
<1> SUFFICES ASSUME Init PROVE IInv
  OBVIOUS
<1>1. TypeOK
  BY ByteAssumption, SizeAssumption DEF Init, TypeOK, Index
<1>2. Accounting /\ ReportConsistent
  BY DEF Init, Accounting, ReportConsistent
<1>3. QED
  BY <1>1, <1>2 DEF IInv

LEMMA PublishBeginIInv ==
  ASSUME IInv, NEW t \in Publishers, NEW batch \in Batches, PublishBegin(t, batch)
  PROVE  IInv'
<1>1. batch \in Seq(Byte) /\ Len(batch) \in Nat
  BY BatchAssumption
<1>2. TypeOK'
  <2>1. status.bytesFromUsb + Len(batch) \in Nat
    BY <1>1 DEF IInv, TypeOK
  <2>2. status' \in StatusType
    BY <2>1, StatusUpdate DEF IInv, TypeOK, PublishBegin
  <2> HIDE DEF StatusType
  <2>3. QED
    BY <1>1, <2>2 DEF IInv, TypeOK, PublishBegin, ring
<1>3. Accounting'
  BY <1>1, TaskAssumption DEF IInv, TypeOK, Accounting, PublishBegin, ring
<1>4. ReportConsistent'
  BY DEF IInv, ReportConsistent, PublishBegin
<1>5. QED
  BY <1>2, <1>3, <1>4 DEF IInv

LEMMA WriteByteIInv ==
  ASSUME IInv, WriteByte
  PROVE  IInv'
<1> USE DEF IInv, WriteByte
<1>1. /\ Head(pending) \in Byte /\ Tail(pending) \in Seq(Byte)
      /\ Len(Tail(pending)) = Len(pending) - 1 /\ Len(pending) \in Nat
  BY DEF TypeOK
<1>2. NextIndex(start) \in Index
  BY SlotInIndex, SizeAssumption DEF TypeOK, NextIndex
<1>3. TypeOK'
  <2>1. CASE count < Capacity
    BY <2>1, <1>1, SizeAssumption DEF TypeOK
  <2>2. CASE count = Capacity
    BY <2>2, <1>1, <1>2, SizeAssumption DEF TypeOK
  <2>3. QED
    BY <2>1, <2>2
<1>4. Accounting'
  <2>1. pending # <<>> => lock # NoTask
    BY DEF Accounting
  <2>2. count + dropped + Len(pending) = count' + dropped' + Len(pending')
    <3>1. count \in Nat /\ dropped \in Nat /\ pending' = Tail(pending)
      BY SizeAssumption DEF TypeOK
    <3>2. \/ count' = count + 1 /\ dropped' = dropped
          \/ count' = count /\ dropped' = dropped + 1
      OBVIOUS
    <3>3. QED
      BY ONLY <1>1, <3>1, <3>2
  <2>3. QED
    BY <2>1, <2>2 DEF Accounting
<1>5. ReportConsistent'
  BY DEF ReportConsistent
<1>6. QED
  BY <1>3, <1>4, <1>5

LEMMA NextIInv == IInv /\ [Next]_vars => IInv'
<1> SUFFICES ASSUME IInv, [Next]_vars
             PROVE  IInv'
  OBVIOUS
<1>1. ASSUME NEW t \in Publishers, NEW batch \in Batches, PublishBegin(t, batch)
      PROVE  IInv'
  BY <1>1, PublishBeginIInv
<1>2. ASSUME NEW t \in Publishers, PublishEnd(t)
      PROVE  IInv'
  <2>1. TypeOK'
    <3>1. count \in Nat /\ dropped \in Nat
      BY SizeAssumption DEF IInv, TypeOK
    <3>2. status' \in StatusType
      BY <1>2, <3>1, StatusUpdate DEF IInv, TypeOK, PublishEnd
    <3> HIDE DEF StatusType
    <3>3. QED
      BY <1>2, <3>2 DEF IInv, TypeOK, PublishEnd, ring
  <2>2. Accounting' /\ ReportConsistent'
    BY <1>2 DEF IInv, TypeOK, Accounting, ReportConsistent, PublishEnd, ring
  <2>3. QED
    BY <2>1, <2>2 DEF IInv
<1>3. CASE WriteByte
  BY <1>3, WriteByteIInv
<1>4. CASE Snapshot
  <2> DEFINE toCopy == IF count < SnapshotMax THEN count ELSE SnapshotMax
             first  == count - toCopy
  <2>1. toCopy \in 0 .. count /\ first \in 0 .. count
    BY SizeAssumption DEF IInv, TypeOK
  <2>2. ASSUME NEW i \in 1 .. toCopy
        PROVE  storage[(start + first + i - 1) % Capacity] \in Byte
    <3>1. first + i - 1 \in 0 .. Capacity /\ start + first + i - 1 = start + (first + i - 1)
      BY <2>1, SizeAssumption DEF IInv, TypeOK, Index
    <3> HIDE DEF first, toCopy
    <3>2. (start + first + i - 1) % Capacity \in Index
      BY <3>1, SlotInIndex DEF IInv, TypeOK
    <3>3. QED
      BY <3>2 DEF IInv, TypeOK
  <2>3. shown' = [i \in 1 .. toCopy |-> storage[(start + first + i - 1) % Capacity]]
    BY <1>4 DEF Snapshot
  <2> HIDE DEF first, toCopy
  <2>4. shown' \in Seq(Byte)
    <3>1. toCopy \in Nat
      BY <2>1 DEF IInv, TypeOK
    <3>2. QED
      BY <2>2, <2>3, <3>1
  <2>5. QED
    BY <1>4, <2>4 DEF IInv, TypeOK, Accounting, ReportConsistent, Snapshot, ring
<1>5. CASE GetStatus
  BY <1>5 DEF IInv, TypeOK, Accounting, ReportConsistent, GetStatus, ring
<1>6. CASE UNCHANGED vars
  BY <1>6 DEF IInv, TypeOK, Accounting, ReportConsistent, vars, ring
<1>7. QED
  BY <1>1, <1>2, <1>3, <1>4, <1>5, <1>6 DEF Next

\* Indices, counters and the lock keep their types in every state.
THEOREM TypeCorrect == Spec => []TypeOK
<1>1. IInv => TypeOK
  BY DEF IInv
<1>2. QED
  BY <1>1, InitIInv, NextIInv, PTL DEF Spec

\* Every status handed out adds up: received = retained + dropped.
THEOREM ReportsAddUp == Spec => []ReportConsistent
<1>1. IInv => ReportConsistent
  BY DEF IInv
<1>2. QED
  BY <1>1, InitIInv, NextIInv, PTL DEF Spec

-----------------------------------------------------------------------------

\* The operators of BridgeHistory on the stream are those of this module.
LEMMA SameLastN == \A s, n : H!LastN(s, n) = LastN(s, n)
BY DEF LastN, H!LastN

\* Dropping the oldest byte of a stream longer than n keeps its last n bytes.
LEMMA LastNTail ==
  ASSUME NEW s \in Seq(Byte), NEW n \in Nat, Len(s) > n
  PROVE  LastN(Tail(s), n) = LastN(s, n)
<1>1. Tail(s) \in Seq(Byte) /\ Len(Tail(s)) = Len(s) - 1 /\ Len(s) \in Nat
  OBVIOUS
<1>2. \A i \in 1 .. Len(s) - 1 : Tail(s)[i] = s[i + 1]
  OBVIOUS
<1>3. CASE Len(s) = n + 1
  <2>1. LastN(Tail(s), n) = Tail(s)
    BY <1>1, <1>3 DEF LastN
  <2>2. LastN(s, n) = SubSeq(s, 2, Len(s))
    BY <1>1, <1>3 DEF LastN
  <2>3. QED
    BY <1>1, <1>2, <1>3, <2>1, <2>2
<1>4. CASE Len(s) > n + 1
  <2> DEFINE u == Tail(s)
             p == SubSeq(u, Len(u) - n + 1, Len(u))
             q == SubSeq(s, Len(s) - n + 1, Len(s))
  <2>1. LastN(Tail(s), n) = p /\ LastN(s, n) = q
    BY <1>1, <1>4 DEF LastN
  <2>2. p = [i \in 1 .. n |-> u[i + Len(u) - n]]
    BY <1>1, <1>4
  <2>3. q = [i \in 1 .. n |-> s[i + Len(s) - n]]
    BY <1>1, <1>4
  <2>4. ASSUME NEW i \in 1 .. n
        PROVE  u[i + Len(u) - n] = s[i + Len(s) - n]
    <3>1. i + Len(u) - n \in 1 .. Len(s) - 1
      BY <1>1, <1>4
    <3>2. i + Len(u) - n + 1 = i + Len(s) - n
      BY <1>1, <1>4
    <3>3. QED
      BY <1>2, <3>1, <3>2
  <2>5. QED
    BY <2>1, <2>2, <2>3, <2>4
<1>5. Len(s) = n + 1 \/ Len(s) > n + 1
  <2>1. \A k \in Nat : k > n => k = n + 1 \/ k > n + 1
    OBVIOUS
  <2>2. QED
    BY <1>1, <2>1
<1>6. QED
  BY <1>3, <1>4, <1>5

\* Writing a byte moves it from the batch to the ring and leaves the stream,
\* cut to the ring's size, as it was.
LEMMA WriteByteKeepsLatest ==
  ASSUME IInv, WriteByte
  PROVE  Latest' = Latest
<1> DEFINE b == Head(pending)
           rest == Tail(pending)
<1>1. /\ pending \in Seq(Byte) /\ pending # <<>>
      /\ pending' = rest /\ rest \in Seq(Byte) /\ b \in Byte
      /\ Len(rest) = Len(pending) - 1 /\ Len(pending) \in Nat \ {0}
      /\ pending[1] = b
      /\ \A i \in 1 .. Len(rest) : rest[i] = pending[i + 1]
  BY DEF IInv, TypeOK, WriteByte
<1>2. /\ Contents \in Seq(Byte) /\ Len(Contents) = count
      /\ Contents' \in Seq(Byte) /\ Len(Contents') = count'
  <2>1. TypeOK /\ TypeOK'
    BY WriteByteIInv DEF IInv
  <2>2. (Contents \in Seq(Byte) /\ Len(Contents) = count)'
    BY <2>1, ContentsType, PTL
  <2>3. QED
    BY <2>1, <2>2, ContentsType
<1>3. start \in Index /\ count \in 0 .. Capacity /\ storage \in [Index -> Byte]
  BY DEF IInv, TypeOK
<1>4. CASE count < Capacity
  <2>1. /\ start' = start /\ count' = count + 1
        /\ storage' = [storage EXCEPT ![(start + count) % Capacity] = b]
    BY <1>3, <1>4, SizeAssumption DEF WriteByte
  <2>2. ASSUME NEW i \in 1 .. count
        PROVE  storage'[(start + i - 1) % Capacity] = storage[(start + i - 1) % Capacity]
    <3>1. i - 1 \in 0 .. Capacity /\ start + i - 1 = start + (i - 1)
      BY <1>3, SizeAssumption DEF Index
    <3>2. (start + i - 1) % Capacity \in Index
      BY <1>3, <3>1, SlotInIndex
    <3>3. (start + i - 1) % Capacity # (start + count) % Capacity
      <4>1. (start + (i - 1)) % Capacity = IF start + (i - 1) < Capacity
                                           THEN start + (i - 1)
                                           ELSE start + (i - 1) - Capacity
        BY <1>3, <3>1, SlotInIndex
      <4>2. (start + count) % Capacity = IF start + count < Capacity THEN start + count
                                         ELSE start + count - Capacity
        BY <1>3, SlotInIndex
      <4>3. QED
        BY <1>3, <1>4, <3>1, <4>1, <4>2, SizeAssumption DEF Index
    <3>4. QED
      BY <1>3, <2>1, <3>2, <3>3
  <2>3. storage'[(start + count) % Capacity] = b
    BY <1>3, <2>1, SlotInIndex
  <2>4. \A i \in 1 .. count : Contents'[i] = Contents[i]
    BY <1>3, <2>1, <2>2, SizeAssumption DEF Contents
  <2>5. Contents'[count + 1] = b
    BY <1>3, <2>1, <2>3, SizeAssumption DEF Contents, Index
  <2>6. Contents' = Append(Contents, b)
    BY <1>1, <1>2, <2>1, <2>4, <2>5
  <2>7. Contents' \o rest = Contents \o pending
    BY <1>1, <1>2, <2>6
  <2>8. QED
    BY <1>1, <2>7 DEF Latest
<1>5. CASE count = Capacity
  <2>1. /\ start' = NextIndex(start) /\ count' = count
        /\ storage' = [storage EXCEPT ![start] = b]
    BY <1>5, SizeAssumption DEF WriteByte
  <2>2. start' = IF start + 1 < Capacity THEN start + 1 ELSE 0
    <3>1. 1 \in 0 .. Capacity
      BY SizeAssumption
    <3>2. (start + 1) % Capacity = IF start + 1 < Capacity THEN start + 1
                                   ELSE start + 1 - Capacity
      BY <1>3, <3>1, SlotInIndex
    <3>3. QED
      BY <1>3, <2>1, <3>2, SizeAssumption DEF NextIndex, Index
  <2>3. ASSUME NEW i \in 1 .. count - 1
        PROVE  Contents'[i] = Contents[i + 1]
    <3>1. /\ i - 1 \in 0 .. Capacity /\ i \in 0 .. Capacity
          /\ start' + i - 1 = start' + (i - 1) /\ start + (i + 1) - 1 = start + i
          /\ start' \in Index
      BY <1>3, <2>2, SizeAssumption DEF Index
    <3>2. (start' + (i - 1)) % Capacity = (start + i) % Capacity
      <4>1. (start' + (i - 1)) % Capacity = IF start' + (i - 1) < Capacity
                                            THEN start' + (i - 1)
                                            ELSE start' + (i - 1) - Capacity
        BY <3>1, SlotInIndex
      <4>2. (start + i) % Capacity = IF start + i < Capacity THEN start + i
                                     ELSE start + i - Capacity
        BY <1>3, <3>1, SlotInIndex
      <4>3. QED
        BY <1>3, <1>5, <2>2, <4>1, <4>2, SizeAssumption DEF Index
    <3>3. (start + i) % Capacity # start /\ (start + i) % Capacity \in Index
      <4>1. (start + i) % Capacity = IF start + i < Capacity THEN start + i
                                     ELSE start + i - Capacity
        BY <1>3, <3>1, SlotInIndex
      <4>2. QED
        BY <1>3, <1>5, <4>1, SizeAssumption DEF Index
    <3>4. Contents'[i] = storage'[(start' + (i - 1)) % Capacity]
      BY <1>3, <2>1, <3>1, SizeAssumption DEF Contents
    <3>5. Contents[i + 1] = storage[(start + i) % Capacity]
      BY <1>3, <3>1, SizeAssumption DEF Contents
    <3>6. QED
      BY <1>3, <2>1, <3>2, <3>3, <3>4, <3>5
  <2>4. Contents'[count] = b
    <3>1. start' + count - 1 = start' + (count - 1) /\ count - 1 \in 0 .. Capacity
          /\ start' \in Index
      BY <1>3, <1>5, <2>2, SizeAssumption DEF Index
    <3>2. (start' + (count - 1)) % Capacity = start
      <4>1. (start' + (count - 1)) % Capacity = IF start' + (count - 1) < Capacity
                                                THEN start' + (count - 1)
                                                ELSE start' + (count - 1) - Capacity
        BY <3>1, SlotInIndex
      <4>2. QED
        BY <1>3, <1>5, <2>2, <4>1, SizeAssumption DEF Index
    <3>3. Contents'[count] = storage'[(start' + (count - 1)) % Capacity]
      BY <1>3, <1>5, <2>1, <3>1, SizeAssumption DEF Contents
    <3>4. QED
      BY <1>3, <2>1, <3>2, <3>3
  <2>5. Contents # <<>> /\ count \in Nat \ {0}
    BY <1>2, <1>5, SizeAssumption
  <2>6. Contents' = Append(Tail(Contents), b)
    BY <1>1, <1>2, <2>1, <2>3, <2>4, <2>5
  <2>7. Contents' \o rest = Tail(Contents \o pending)
    BY <1>1, <1>2, <2>5, <2>6
  <2>8. LastN(Tail(Contents \o pending), Capacity) = LastN(Contents \o pending, Capacity)
    <3>1. Contents \o pending \in Seq(Byte) /\ Len(Contents \o pending) > Capacity
      BY <1>1, <1>2, <1>5, SizeAssumption
    <3>2. QED
      BY <3>1, LastNTail, SizeAssumption
  <2>9. QED
    BY <1>1, <2>7, <2>8 DEF Latest
<1>6. count < Capacity \/ count = Capacity
  BY <1>3, SizeAssumption
<1>7. QED
  BY <1>4, <1>5, <1>6

-----------------------------------------------------------------------------

\* Between publications the stream that clients can see is the ring itself.
LEMMA IdleLatest ==
  ASSUME IInv, pending = <<>>
  PROVE  /\ Latest = Contents
         /\ Len(Contents) = count /\ Contents \in Seq(Byte)
<1>1. Contents \in Seq(Byte) /\ Len(Contents) = count /\ count <= Capacity
  BY ContentsType, SizeAssumption DEF IInv, TypeOK
<1>2. Contents \o <<>> = Contents
  BY <1>1
<1>3. QED
  BY <1>1, <1>2 DEF Latest, LastN

LEMMA InitImplements == Init => H!Init
<1> SUFFICES ASSUME Init PROVE H!Init
  OBVIOUS
<1>1. IInv /\ pending = <<>>
  BY InitIInv DEF Init
<1>2. Latest = <<>>
  <2>1. Latest = Contents /\ Len(Contents) = 0 /\ Contents \in Seq(Byte)
    BY <1>1, IdleLatest DEF Init
  <2>2. QED
    BY <2>1
<1>3. QED
  BY <1>2 DEF Init, H!Init, H!Report

LEMMA StepImplements == IInv /\ [Next]_vars => [H!Next]_H!vars
<1> SUFFICES ASSUME IInv, [Next]_vars
             PROVE  [H!Next]_H!vars
  OBVIOUS
<1>0. IInv'
  BY NextIInv
<1>1. ASSUME NEW t \in Publishers, NEW batch \in Batches, PublishBegin(t, batch)
      PROVE  H!Publish(batch)
  <2>1. pending = <<>>
    BY <1>1 DEF IInv, Accounting, PublishBegin
  <2>2. Latest = Contents
    BY <2>1, IdleLatest
  <2>3. Contents' = Contents
    BY <1>1 DEF PublishBegin, ring, Contents
  <2>4. Latest' = LastN(Latest \o batch, Capacity)
    BY <1>1, <2>2, <2>3 DEF PublishBegin, Latest
  <2>5. status'.bytesFromUsb = status.bytesFromUsb + Len(batch)
    <3>1. batch \in Seq(Byte) /\ status.bytesFromUsb + Len(batch) \in Nat
      BY BatchAssumption DEF IInv, TypeOK
    <3>2. QED
      BY <1>1, <3>1, StatusUpdate DEF PublishBegin, IInv, TypeOK
  <2>6. QED
    BY <1>1, <2>4, <2>5, SameLastN DEF PublishBegin, H!Publish
<1>2. ASSUME NEW t \in Publishers, PublishEnd(t)
      PROVE  UNCHANGED H!vars
  <2>1. Latest' = Latest
    BY <1>2 DEF PublishEnd, ring, Latest, Contents
  <2>2. status'.bytesFromUsb = status.bytesFromUsb
    BY <1>2 DEF PublishEnd, IInv, TypeOK
  <2>3. QED
    BY <1>2, <2>1, <2>2 DEF PublishEnd, H!vars
<1>3. CASE WriteByte
  BY <1>3, WriteByteKeepsLatest DEF WriteByte, H!vars
<1>4. CASE Snapshot
  <2> DEFINE toCopy == IF count < SnapshotMax THEN count ELSE SnapshotMax
             first  == count - toCopy
  <2>1. pending = <<>>
    BY <1>4 DEF IInv, Accounting, Snapshot
  <2>2. /\ Latest = Contents /\ Contents \in Seq(Byte) /\ Len(Contents) = count
        /\ count \in Nat
    BY <2>1, IdleLatest, SizeAssumption DEF IInv, TypeOK
  <2>3. /\ toCopy \in Nat /\ first \in Nat /\ first + toCopy = count
        /\ toCopy = SnapshotMax \/ first = 0
        /\ count <= SnapshotMax => toCopy = count /\ first = 0
        /\ count > SnapshotMax => toCopy = SnapshotMax
    BY <2>2, SizeAssumption
  <2>4. shown' = [i \in 1 .. toCopy |-> storage[(start + first + i - 1) % Capacity]]
    BY <1>4 DEF Snapshot
  <2> HIDE DEF toCopy, first
  <2>5. ASSUME NEW i \in 1 .. toCopy
        PROVE  storage[(start + first + i - 1) % Capacity] = Contents[i + first]
    <3>1. start + first + i - 1 = start + (i + first) - 1 /\ i + first \in 1 .. count
      BY <2>2, <2>3 DEF IInv, TypeOK, Index
    <3>2. QED
      BY <3>1 DEF Contents
  <2>6. shown' = [i \in 1 .. toCopy |-> Contents[i + first]]
    BY <2>4, <2>5
  <2>7. shown' = LastN(Contents, SnapshotMax)
    <3>1. CASE count <= SnapshotMax
      <4>1. LastN(Contents, SnapshotMax) = Contents
        BY <2>2, <3>1 DEF LastN
      <4>2. Contents = [i \in 1 .. count |-> Contents[i]]
        BY <2>2
      <4>3. QED
        BY <2>2, <2>3, <2>6, <3>1, <4>1, <4>2
    <3>2. CASE count > SnapshotMax
      <4>1. LastN(Contents, SnapshotMax)
              = SubSeq(Contents, count - SnapshotMax + 1, count)
        BY <2>2, <3>2, SizeAssumption DEF LastN
      <4>2. first = count - SnapshotMax /\ toCopy = SnapshotMax
        BY <2>2, <2>3, <3>2, SizeAssumption
      <4>3. SubSeq(Contents, count - SnapshotMax + 1, count)
              = [i \in 1 .. SnapshotMax |-> Contents[i + (count - SnapshotMax)]]
        BY <2>2, <3>2, SizeAssumption
      <4>4. QED
        BY <2>6, <4>1, <4>2, <4>3
    <3>3. QED
      BY <2>2, <3>1, <3>2, SizeAssumption
  <2>8. Latest' = Latest /\ status' = status /\ reported' = reported
    BY <1>4 DEF Snapshot, ring, Latest, Contents
  <2>9. H!Snapshot
    BY <2>2, <2>7, <2>8, SameLastN DEF H!Snapshot
  <2>10. QED
    BY <2>9 DEF H!Next
<1>5. CASE GetStatus
  <2>1. pending = <<>> /\ status.retained = count /\ status.droppedOldest = dropped
        /\ status.bytesFromUsb = count + dropped
    BY <1>5 DEF IInv, Accounting, TypeOK, GetStatus
  <2>2. Latest = Contents /\ Len(Contents) = count
    BY <2>1, IdleLatest
  <2>3. status = H!Report(status.bytesFromUsb, Len(Latest))
    <3>1. status.bytesFromUsb - count = dropped
      BY <2>1, SizeAssumption DEF IInv, TypeOK
    <3>2. QED
      BY <2>1, <2>2, <3>1 DEF IInv, TypeOK, H!Report
  <2>4. Latest' = Latest
    BY <1>5 DEF GetStatus, ring, Latest, Contents
  <2>5. H!Status
    BY <1>5, <2>3, <2>4 DEF GetStatus, H!Status
  <2>6. QED
    BY <2>5 DEF H!Next
<1>6. CASE UNCHANGED vars
  BY <1>6 DEF vars, ring, Latest, Contents, H!vars
<1>7. QED
  BY <1>1, <1>2, <1>3, <1>4, <1>5, <1>6 DEF Next, H!Next

\* The byte-by-byte ring behind its mutex implements the atomic history.
THEOREM BridgeImplementsHistory == Spec => ImplementsHistory
BY InitIInv, NextIInv, InitImplements, StepImplements, PTL
   DEF Spec, ImplementsHistory, H!Spec
=============================================================================
