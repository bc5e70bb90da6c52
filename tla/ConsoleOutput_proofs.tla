------------------------- MODULE ConsoleOutput_proofs --------------------------
(***************************************************************************)
(* Proofs about ConsoleOutput, for any number of descriptors and any sizes *)
(* of table, queue, reads and snapshots: its types, that the output of a   *)
(* connection comes in order, and that nothing is missing between the      *)
(* scrollback and the live output.                                         *)
(***************************************************************************)
EXTENDS ConsoleOutput, FiniteSetTheorems, SequenceTheorems, TLAPS

(* The order of all that is on its way to a connection: broadcast, with    *)
(* web_tx, in the queue, kept by the filter, not yet seen by it.           *)
OrderOK ==
  /\ \A i, j \in 1 .. Len(queue) : i < j => Before(queue[i], queue[j])
  /\ \A i \in 1 .. Len(queue) : /\ queue[i] \subseteq 1 .. fed
                                /\ Before(tx.chunk, queue[i])
                                /\ Before(queue[i], held)
  /\ held \subseteq 1 .. fed
  /\ tx.chunk \subseteq 1 .. fed /\ Before(tx.chunk, held)
  /\ \A f \in Fd : /\ live[f] \subseteq 1 .. fed
                   /\ \A i \in 1 .. Len(queue) : Before(live[f], queue[i])
                   /\ f \in tx.to => Before(live[f], tx.chunk)
                   /\ Before(live[f], held)

(* A byte that connection f is to get.                                     *)
Accounted(f, p) ==
  \/ p \in live[f] \cup replayed[f] \cup hidden \cup dropped \cup held
  \/ p \in fed + 1 .. published
  \/ \E i \in 1 .. Len(queue) : p \in queue[i]
  \/ f \in tx.to /\ p \in tx.chunk
  \/ greeting.fd = f /\ p \in greeting.rest

(* NoGap, byte by byte.                                                    *)
GapOK ==
  \A f \in registered \cap open :
    ~(greeting.fd = f /\ greeting.step = "copy") =>
      \A p \in owed[f] .. published : Accounted(f, p)

IInv == TypeOK /\ OrderOK /\ GapOK

LEMMA GapOKIsNoGap == GapOK <=> NoGap
  BY DEF GapOK, NoGap, Accounted, OnItsWay, Queued

LEMMA OrderImplies == OrderOK => LiveInOrder
  BY DEF OrderOK, LiveInOrder, Queued, Before
-----------------------------------------------------------------------------
LEMMA InitInv == Init => IInv
<1> SUFFICES ASSUME Init PROVE IInv
  OBVIOUS
<1> USE OutputAssumption
<1>1. TypeOK
  <2>1. Cardinality({}) = 0
    BY FS_EmptySet
  <2>2. <<>> \in Seq((SUBSET Position) \ {{}}) /\ Len(<<>>) = 0
    BY EmptySeq
  <2> QED
    BY <2>1, <2>2 DEF Init, TypeOK, NoChunk, Idle, Unseen
<1>2. OrderOK
  BY DEF Init, OrderOK, NoChunk, Unseen, Before
<1>3. GapOK
  BY DEF Init, GapOK
<1> QED
  BY <1>1, <1>2, <1>3 DEF IInv

-----------------------------------------------------------------------------
(* What a turn of the callback works on.                                   *)
LEMMA Pool ==
  ASSUME TypeOK, OrderOK, fed < published,
         NEW upto, upto = Smaller(fed + ChunkMax, published),
         NEW pool, pool = held \cup (fed + 1 .. upto)
  PROVE  /\ upto \in Nat /\ fed < upto /\ upto <= published
         /\ pool \subseteq 1 .. upto /\ pool \subseteq Position
         /\ upto + 1 .. published \subseteq Position
<1> USE OutputAssumption
<1>1. /\ fed \in Nat /\ published \in Nat /\ published <= MaxBytes
      /\ ChunkMax \in Nat \ {0} /\ held \subseteq 1 .. fed
  BY DEF TypeOK, OrderOK
<1>2. upto \in Nat /\ fed < upto /\ upto <= published
  BY <1>1 DEF Smaller
<1>3. ASSUME NEW p \in pool PROVE p \in 1 .. upto
  <2>1. p \in 1 .. fed \/ p \in fed + 1 .. upto
    BY <1>1
  <2> QED
    BY <1>1, <1>2, <2>1
<1>4. 1 .. upto \subseteq Position /\ upto + 1 .. published \subseteq Position
  BY <1>1, <1>2 DEF Position
<1> QED
  BY <1>2, <1>3, <1>4

(* What a turn decides: a chunk may be queued, or it is dropped with all   *)
(* that is left of the read.                                               *)
Decided(shown, kept, upto, pool) ==
  /\ upto \in Nat /\ fed < upto /\ upto <= published
  /\ pool = held \cup (fed + 1 .. upto) /\ pool \subseteq Position
  /\ pool \subseteq 1 .. upto
  /\ upto + 1 .. published \subseteq Position
  /\ shown \subseteq pool /\ kept \subseteq pool /\ Before(shown, kept)
  /\ held' = kept /\ hidden' = hidden \cup (pool \ (shown \cup kept))
  /\ \/ shown = {} /\ fed' = upto /\ queue' = queue /\ dropped' = dropped
     \/ /\ shown # {} /\ Len(queue) < QueueDepth
        /\ queue' = Append(queue, shown) /\ fed' = upto /\ dropped' = dropped
     \/ /\ fed' = published /\ queue' = queue
        /\ dropped' = dropped \cup shown \cup (upto + 1 .. published)

LEMMA FilterChunkCases ==
  ASSUME TypeOK, OrderOK, NEW shown, NEW kept, FilterChunk(shown, kept)
  PROVE  \E upto, pool : Decided(shown, kept, upto, pool)
<1> DEFINE upto == Smaller(fed + ChunkMax, published)
           pool == held \cup (fed + 1 .. upto)
<1> HIDE DEF upto, pool
<1>1. /\ fed < published
      /\ shown \cup kept \subseteq pool
      /\ Before(shown, kept)
      /\ held' = kept /\ hidden' = hidden \cup (pool \ (shown \cup kept))
      /\ \/ shown = {} /\ fed' = upto /\ queue' = queue /\ dropped' = dropped
         \/ /\ shown # {} /\ Len(queue) < QueueDepth
            /\ queue' = Append(queue, shown) /\ fed' = upto /\ dropped' = dropped
         \/ /\ fed' = published /\ queue' = queue
            /\ dropped' = dropped \cup shown \cup (upto + 1 .. published)
  BY DEF FilterChunk, Filter, upto, pool
<1>2. /\ upto \in Nat /\ fed < upto /\ upto <= published
      /\ pool \subseteq 1 .. upto /\ pool \subseteq Position
      /\ upto + 1 .. published \subseteq Position
  BY <1>1, Pool DEF upto, pool
<1>3. pool = held \cup (fed + 1 .. upto)
  BY DEF pool
<1> QED
  BY <1>1, <1>2, <1>3 DEF Decided
-----------------------------------------------------------------------------
(* The table never outgrows its size, and its entries are descriptors.     *)
LEMMA TypeStep ==
  ASSUME IInv, [Next]_vars
  PROVE  TypeOK'
<1> USE OutputAssumption DEF IInv
<1> DEFINE Chunks == (SUBSET Position) \ {{}}
<1>0. registered' \subseteq registered =>
        registered' \subseteq Fd /\ Cardinality(registered') <= MaxClients
  <2> SUFFICES ASSUME registered' \subseteq registered
               PROVE  registered' \subseteq Fd /\ Cardinality(registered') <= MaxClients
    OBVIOUS
  <2>1. IsFiniteSet(registered)
    BY FS_Subset DEF TypeOK
  <2>2. /\ IsFiniteSet(registered') /\ Cardinality(registered') <= Cardinality(registered)
    BY <2>1, FS_Subset
  <2>3. Cardinality(registered) \in Nat /\ Cardinality(registered') \in Nat
    BY <2>1, <2>2, FS_CardinalityType
  <2> QED
    BY <2>2, <2>3 DEF TypeOK
<1>1. ASSUME NEW n \in 1 .. ReadMax, UsbRead(n) PROVE TypeOK'
  BY <1>1 DEF UsbRead, TypeOK, clients
<1>2. ASSUME NEW shown, NEW kept, FilterChunk(shown, kept) PROVE TypeOK'
  <2> PICK upto, pool : Decided(shown, kept, upto, pool)
    BY <1>2, FilterChunkCases
  <2> USE DEF Decided
  <2>1. published' = published /\ UNCHANGED <<tx, registered, clients, live>>
    BY <1>2 DEF FilterChunk
  <2>2. fed' \in 0 .. published'
    BY <2>1 DEF TypeOK
  <2>3. /\ held' \subseteq Position /\ hidden' \subseteq Position
        /\ dropped' \subseteq Position
    <3>1. hidden \subseteq Position /\ dropped \subseteq Position
      BY DEF TypeOK
    <3> QED
      BY <3>1
  <2>4. queue' \in Seq(Chunks) /\ Len(queue') <= QueueDepth
    <3>1. queue \in Seq(Chunks) /\ Len(queue) <= QueueDepth /\ Len(queue) \in Nat
      BY DEF TypeOK
    <3>2. CASE queue' = queue
      BY <3>1, <3>2
    <3>3. CASE shown # {} /\ Len(queue) < QueueDepth /\ queue' = Append(queue, shown)
      <4>1. shown \in Chunks
        BY <3>3
      <4> QED
        BY <3>1, <3>3, <4>1, AppendProperties
    <3> QED
      BY <3>2, <3>3
  <2> QED
    BY <2>1, <2>2, <2>3, <2>4 DEF TypeOK, clients
<1>3. ASSUME TxReceive PROVE TypeOK'
  <2>1. /\ queue' = Tail(queue) /\ queue # <<>>
        /\ tx' = [chunk |-> Head(queue), to |-> registered, failed |-> Nobody]
        /\ queue \in Seq(Chunks)
    BY <1>3 DEF TxReceive, TypeOK
  <2>2. queue' \in Seq(Chunks) /\ Len(queue') = Len(queue) - 1 /\ Head(queue) \in Chunks
    BY <2>1, HeadTailProperties
  <2> QED
    BY <1>3, <2>1, <2>2 DEF TxReceive, TypeOK, usbRx, clients
<1>4. ASSUME NEW f \in Fd, TxSend(f) PROVE TypeOK'
  BY <1>4 DEF TxSend, TypeOK, usbRx, clients, NoChunk
<1>5. ASSUME NEW f \in Fd, TxFail(f) PROVE TypeOK'
  BY <1>5 DEF TxFail, TypeOK, usbRx, clients
<1>6. ASSUME TxRemove PROVE TypeOK'
  <2>1. registered' \subseteq registered
    BY <1>6 DEF TxRemove
  <2> QED
    BY <1>0, <1>6, <2>1 DEF TxRemove, TypeOK, usbRx, clients, NoChunk
<1>7. ASSUME TxNobody PROVE TypeOK'
  BY <1>7 DEF TxNobody, TypeOK, usbRx, clients, NoChunk
<1>8. ASSUME NEW f \in Fd, Accept(f) PROVE TypeOK'
  <2>1. registered' = registered \cup {f}
    BY <1>8 DEF Accept
  <2>2. IsFiniteSet(registered)
    BY FS_Subset DEF TypeOK
  <2>3. Cardinality(registered) \in Nat
    BY <2>2, FS_CardinalityType
  <2>4. Cardinality(registered') = IF f \in registered THEN Cardinality(registered)
                                   ELSE Cardinality(registered) + 1
    BY <2>1, <2>2, FS_AddElement
  <2>5. Cardinality(registered') <= MaxClients
    BY <1>8, <2>3, <2>4 DEF Accept, TypeOK
  <2> QED
    BY <1>8, <2>5 DEF Accept, TypeOK, usbRx
<1>9. ASSUME NEW f \in Fd, Refuse(f) PROVE TypeOK'
  BY <1>9 DEF Refuse, TypeOK, usbRx
<1>10. ASSUME CopySnapshot PROVE TypeOK'
  <2>1. Oldest \in Nat \ {0} /\ Snapshot \subseteq Position
    BY DEF Oldest, Snapshot, Position, TypeOK
  <2>2. Idle \in [fd : Fd \cup {Nobody}, step : {"idle", "copy", "send"}, rest : SUBSET Position]
    BY DEF Idle
  <2> QED
    BY <1>10, <2>1, <2>2 DEF CopySnapshot, TypeOK, usbRx
<1>11. ASSUME SendPiece PROVE TypeOK'
  <2> DEFINE piece == {p \in greeting.rest :
                         Cardinality({q \in greeting.rest : q <= p}) <= PieceMax}
  <2>1. piece \subseteq greeting.rest
    OBVIOUS
  <2> HIDE DEF piece
  <2>2. /\ replayed' = [replayed EXCEPT ![greeting.fd] = @ \cup piece]
        /\ greeting' = IF greeting.rest \ piece = {} THEN Idle
                       ELSE [greeting EXCEPT !.rest = greeting.rest \ piece]
        /\ UNCHANGED <<usbRx, queue, tx, registered, open, owed, live>>
    BY <1>11 DEF SendPiece, piece
  <2> QED
    BY <2>1, <2>2 DEF TypeOK, usbRx, Idle
<1>12. ASSUME GreetingFails PROVE TypeOK'
  <2>1. registered' \subseteq registered
    BY <1>12 DEF GreetingFails
  <2> QED
    BY <1>0, <1>12, <2>1 DEF GreetingFails, TypeOK, usbRx, Idle
<1>13. ASSUME NEW f \in Fd, CloseFrame(f) PROVE TypeOK'
  <2>1. registered' \subseteq registered
    BY <1>13 DEF CloseFrame
  <2> QED
    BY <1>0, <1>13, <2>1 DEF CloseFrame, TypeOK, usbRx
<1>14. ASSUME NEW f \in Fd, Break(f) PROVE TypeOK'
  BY <1>14 DEF Break, TypeOK, usbRx
<1>15. ASSUME ClearClients PROVE TypeOK'
  <2>1. registered' \subseteq registered
    BY <1>15 DEF ClearClients
  <2> QED
    BY <1>0, <1>15, <2>1 DEF ClearClients, TypeOK, usbRx, clients
<1>16. ASSUME UNCHANGED vars PROVE TypeOK'
  BY <1>16 DEF vars, usbRx, clients, TypeOK
<1> QED
  BY <1>1, <1>2, <1>3, <1>4, <1>5, <1>6, <1>7, <1>8, <1>9, <1>10, <1>11, <1>12,
     <1>13, <1>14, <1>15, <1>16 DEF Next, Callback, WebTx, Httpd

-----------------------------------------------------------------------------
(* The order along the whole way is kept: what the filter shows is newer   *)
(* than all that was queued and older than what it keeps.                  *)
LEMMA OrderStep ==
  ASSUME IInv, [Next]_vars
  PROVE  OrderOK'
<1> USE DEF IInv
<1> DEFINE Chunks == (SUBSET Position) \ {{}}
<1>0. queue \in Seq(Chunks) /\ fed \in Nat /\ published \in Nat /\ Len(queue) \in Nat
  BY DEF TypeOK
<1>1. ASSUME UNCHANGED <<fed, held, queue, tx, live>> PROVE OrderOK'
  BY <1>1 DEF OrderOK
<1>2. ASSUME NEW shown, NEW kept, FilterChunk(shown, kept) PROVE OrderOK'
  <2> PICK upto, pool : Decided(shown, kept, upto, pool)
    BY <1>2, FilterChunkCases
  <2> USE DEF Decided
  <2>1. tx' = tx /\ live' = live
    BY <1>2 DEF FilterChunk
  <2>2. /\ fed' \in Nat /\ fed <= fed' /\ upto <= fed'
        /\ 1 .. upto \subseteq 1 .. fed' /\ 1 .. fed \subseteq 1 .. fed'
    BY <1>0
  <2>3. ASSUME NEW S, S \subseteq 1 .. fed, Before(S, held)
        PROVE  Before(S, pool) /\ Before(S, shown) /\ Before(S, kept)
    <3>1. ASSUME NEW p \in S, NEW q \in pool PROVE p < q
      <4>1. q \in held \/ q \in fed + 1 .. upto
        OBVIOUS
      <4>2. p \in 1 .. fed
        BY <2>3
      <4> QED
        BY <1>0, <2>3, <4>1, <4>2 DEF Before
    <3> QED
      BY <3>1 DEF Before
  <2>4. /\ held' \subseteq 1 .. fed' /\ shown \subseteq 1 .. fed'
        /\ tx'.chunk \subseteq 1 .. fed' /\ Before(tx'.chunk, held')
        /\ Before(tx.chunk, shown)
    BY <2>1, <2>2, <2>3 DEF OrderOK
  <2>5. \A f \in Fd : /\ live'[f] \subseteq 1 .. fed'
                      /\ Before(live[f], shown)
                      /\ f \in tx'.to => Before(live'[f], tx'.chunk)
                      /\ Before(live'[f], held')
    BY <2>1, <2>2, <2>3 DEF OrderOK
  <2>6. \A i \in 1 .. Len(queue) : /\ queue[i] \subseteq 1 .. fed'
                                   /\ Before(queue[i], shown) /\ Before(queue[i], held')
    BY <2>2, <2>3 DEF OrderOK
  <2>7. CASE queue' = queue
    BY <2>1, <2>4, <2>5, <2>6, <2>7 DEF OrderOK
  <2>8. CASE shown # {} /\ queue' = Append(queue, shown)
    <3>0. shown \in Chunks
      BY <2>8
    <3>1. /\ Len(queue') = Len(queue) + 1 /\ queue'[Len(queue) + 1] = shown
          /\ \A i \in 1 .. Len(queue) : queue'[i] = queue[i]
      BY <1>0, <2>8, <3>0, AppendProperties
    <3>2. \A i \in 1 .. Len(queue') :
            \/ i \in 1 .. Len(queue) /\ queue'[i] = queue[i]
            \/ i = Len(queue) + 1 /\ queue'[i] = shown
      BY <1>0, <3>1
    <3>3. \A i, j \in 1 .. Len(queue') : i < j => Before(queue'[i], queue'[j])
      <4> SUFFICES ASSUME NEW i \in 1 .. Len(queue'), NEW j \in 1 .. Len(queue'), i < j
                   PROVE  Before(queue'[i], queue'[j])
        OBVIOUS
      <4>1. i \in 1 .. Len(queue) /\ queue'[i] = queue[i]
        BY <1>0, <3>1, <3>2
      <4>2. CASE j \in 1 .. Len(queue) /\ queue'[j] = queue[j]
        BY <4>1, <4>2 DEF OrderOK
      <4>3. CASE queue'[j] = shown
        BY <2>6, <4>1, <4>3
      <4> QED
        BY <3>2, <4>2, <4>3
    <3>4. \A i \in 1 .. Len(queue') : /\ queue'[i] \subseteq 1 .. fed'
                                      /\ Before(tx'.chunk, queue'[i])
                                      /\ Before(queue'[i], held')
      BY <2>1, <2>4, <2>6, <3>2 DEF OrderOK
    <3>5. \A f \in Fd : \A i \in 1 .. Len(queue') : Before(live'[f], queue'[i])
      BY <2>1, <2>5, <3>2 DEF OrderOK
    <3> QED
      BY <2>4, <2>5, <3>3, <3>4, <3>5 DEF OrderOK
  <2> QED
    BY <2>7, <2>8
<1>3. ASSUME TxReceive PROVE OrderOK'
  <2>1. /\ queue' = Tail(queue) /\ queue # <<>>
        /\ tx' = [chunk |-> Head(queue), to |-> registered, failed |-> Nobody]
        /\ UNCHANGED <<fed, held, live>>
    BY <1>3 DEF TxReceive, usbRx
  <2>2. /\ Len(queue') = Len(queue) - 1
        /\ \A i \in 1 .. Len(queue') : queue'[i] = queue[i + 1]
    BY <1>0, <2>1, HeadTailProperties
  <2>3. tx'.chunk = queue[1] /\ 1 \in 1 .. Len(queue)
    BY <1>0, <2>1
  <2>4. \A i \in 1 .. Len(queue') :
          i \in Nat /\ i + 1 \in 1 .. Len(queue) /\ 1 < i + 1
    BY <1>0, <2>2
  <2>5. \A i, j \in 1 .. Len(queue') : i < j => Before(queue'[i], queue'[j])
    <3> SUFFICES ASSUME NEW i \in 1 .. Len(queue'), NEW j \in 1 .. Len(queue'), i < j
                 PROVE  Before(queue'[i], queue'[j])
      OBVIOUS
    <3>1. i + 1 < j + 1
      OBVIOUS
    <3> QED
      BY <2>2, <2>4, <3>1 DEF OrderOK
  <2>6. \A i \in 1 .. Len(queue') : /\ queue'[i] \subseteq 1 .. fed'
                                    /\ Before(tx'.chunk, queue'[i])
                                    /\ Before(queue'[i], held')
    BY <2>1, <2>2, <2>3, <2>4 DEF OrderOK
  <2>7. /\ held' \subseteq 1 .. fed' /\ tx'.chunk \subseteq 1 .. fed'
        /\ Before(tx'.chunk, held')
    BY <2>1, <2>3 DEF OrderOK
  <2>8. \A f \in Fd : /\ live'[f] \subseteq 1 .. fed'
                      /\ \A i \in 1 .. Len(queue') : Before(live'[f], queue'[i])
                      /\ Before(live'[f], tx'.chunk)
                      /\ Before(live'[f], held')
    BY <2>1, <2>2, <2>3, <2>4 DEF OrderOK
  <2> QED
    BY <2>5, <2>6, <2>7, <2>8 DEF OrderOK
<1>4. ASSUME NEW f \in Fd, TxSend(f) PROVE OrderOK'
  <2>1. /\ f \in tx.to /\ UNCHANGED <<fed, held, queue>>
        /\ live' = [live EXCEPT ![f] = @ \cup tx.chunk]
        /\ tx' = NoChunk \/ tx' = [tx EXCEPT !.to = @ \ {f}]
    BY <1>4 DEF TxSend, usbRx
  <2>2. /\ tx'.chunk \subseteq tx.chunk /\ tx'.to \subseteq tx.to \ {f}
    <3>1. CASE tx' = NoChunk
      BY <3>1 DEF NoChunk
    <3>2. CASE tx' = [tx EXCEPT !.to = @ \ {f}]
      <4>1. tx \in [chunk : SUBSET Position, to : SUBSET Fd, failed : Fd \cup {Nobody}]
        BY DEF TypeOK
      <4>2. tx'.chunk = tx.chunk /\ tx'.to = tx.to \ {f}
        BY <3>2, <4>1
      <4> QED
        BY <4>2
    <3> QED
      BY <2>1, <3>1, <3>2
  <2>3. \A g \in Fd : live'[g] = IF g = f THEN live[g] \cup tx.chunk ELSE live[g]
    BY <2>1 DEF TypeOK
  <2> QED
    BY <2>1, <2>2, <2>3 DEF OrderOK, Before
<1>5. ASSUME UNCHANGED <<fed, held, queue, live>>,
             tx'.chunk \subseteq tx.chunk, tx'.to \subseteq tx.to
      PROVE  OrderOK'
  BY <1>5 DEF OrderOK, Before
<1>6. ASSUME NEW f \in Fd, UNCHANGED <<fed, held, queue, tx>>,
             live' = [live EXCEPT ![f] = {}]
      PROVE  OrderOK'
  <2>1. \A g \in Fd : live'[g] = IF g = f THEN {} ELSE live[g]
    BY <1>6 DEF TypeOK
  <2> QED
    BY <1>6, <2>1 DEF OrderOK, Before
<1>7. ASSUME (\E n \in 1 .. ReadMax : UsbRead(n)) PROVE OrderOK'
  BY <1>1, <1>7 DEF UsbRead
<1>8. ASSUME NEW f \in Fd, TxFail(f) PROVE OrderOK'
  <2>1. tx'.chunk = tx.chunk /\ tx'.to = tx.to
    BY <1>8 DEF TxFail, TypeOK
  <2> QED
    BY <1>5, <1>8, <2>1 DEF TxFail, usbRx
<1>9. ASSUME TxRemove \/ TxNobody PROVE OrderOK'
  <2>1. tx'.chunk \subseteq tx.chunk /\ tx'.to \subseteq tx.to
    <3>1. CASE tx' = NoChunk
      BY <3>1 DEF NoChunk
    <3>2. CASE tx' = [tx EXCEPT !.to = @ \ {tx.failed}, !.failed = Nobody]
      <4>1. tx \in [chunk : SUBSET Position, to : SUBSET Fd, failed : Fd \cup {Nobody}]
        BY DEF TypeOK
      <4>2. tx'.chunk = tx.chunk /\ tx'.to = tx.to \ {tx.failed}
        BY <3>2, <4>1
      <4> QED
        BY <4>2
    <3> QED
      BY <1>9, <3>1, <3>2 DEF TxRemove, TxNobody
  <2> QED
    BY <1>5, <1>9, <2>1 DEF TxRemove, TxNobody, usbRx
<1>10. ASSUME NEW f \in Fd, Accept(f) \/ Refuse(f) PROVE OrderOK'
  BY <1>6, <1>10 DEF Accept, Refuse, usbRx
<1>11. ASSUME NEW f \in Fd, CloseFrame(f) \/ Break(f) PROVE OrderOK'
  BY <1>1, <1>11 DEF CloseFrame, Break, usbRx
<1>12. ASSUME CopySnapshot \/ SendPiece \/ GreetingFails \/ ClearClients \/ UNCHANGED vars
       PROVE  OrderOK'
  BY <1>1, <1>12 DEF CopySnapshot, SendPiece, GreetingFails, ClearClients, vars, usbRx
<1> QED
  BY <1>2, <1>3, <1>4, <1>7, <1>8, <1>9, <1>10, <1>11, <1>12
     DEF Next, Callback, WebTx, Httpd

-----------------------------------------------------------------------------
(* No step loses a byte that a registered connection is to get: it only    *)
(* moves on, or the connection is forgotten or greeted anew.               *)
LEMMA GapStep ==
  ASSUME IInv, [Next]_vars
  PROVE  GapOK'
<1> USE DEF IInv
<1> DEFINE Chunks == (SUBSET Position) \ {{}}
           TxType == [chunk : SUBSET Position, to : SUBSET Fd, failed : Fd \cup {Nobody}]
<1>0. /\ queue \in Seq(Chunks) /\ Len(queue) \in Nat /\ tx \in TxType
      /\ fed \in Nat /\ published \in Nat /\ fed <= published
      /\ \A f \in Fd : owed[f] \in Nat
      /\ registered \subseteq Fd
  BY DEF TypeOK
<1>1. ASSUME NEW n \in 1 .. ReadMax, UsbRead(n) PROVE GapOK'
  <2>1. /\ published' = published + n
        /\ UNCHANGED <<fed, held, hidden, dropped, queue, tx, registered, open, greeting,
                       owed, replayed, live>>
    BY <1>1 DEF UsbRead, clients
  <2>2. n \in Nat
    BY OutputAssumption
  <2>3. ASSUME NEW f \in registered \cap open, NEW p \in owed[f] .. published'
        PROVE  p \in owed[f] .. published \/ p \in fed + 1 .. published'
    BY <1>0, <2>1, <2>2
  <2>4. fed + 1 .. published \subseteq fed + 1 .. published'
    BY <1>0, <2>1, <2>2
  <2>5. ASSUME NEW f, NEW p, Accounted(f, p) PROVE Accounted(f, p)'
    BY <2>1, <2>4, <2>5 DEF Accounted
  <2>6. ASSUME NEW f, NEW p, p \in fed + 1 .. published' PROVE Accounted(f, p)'
    BY <2>1, <2>6 DEF Accounted
  <2> QED
    BY <2>1, <2>3, <2>5, <2>6 DEF GapOK
<1>2. ASSUME NEW shown, NEW kept, FilterChunk(shown, kept) PROVE GapOK'
  <2> PICK upto, pool : Decided(shown, kept, upto, pool)
    BY <1>2, FilterChunkCases
  <2> USE DEF Decided
  <2>1. UNCHANGED <<published, tx, registered, open, greeting, owed, replayed, live>>
    BY <1>2 DEF FilterChunk, clients
  <2>2. \A p \in shown :
          p \in dropped' \/ \E i \in 1 .. Len(queue') : p \in queue'[i]
    <3>1. CASE queue' = Append(queue, shown) /\ shown # {}
      <4>1. shown \in Chunks
        BY <3>1
      <4>2. Len(queue') = Len(queue) + 1 /\ queue'[Len(queue) + 1] = shown
        BY <1>0, <3>1, <4>1, AppendProperties
      <4>3. Len(queue) + 1 \in 1 .. Len(queue')
        BY <1>0, <4>2
      <4> QED
        BY <4>2, <4>3
    <3> QED
      BY <3>1
  <2>3. \A p \in pool : \/ p \in hidden' \cup held' \cup dropped'
                        \/ \E i \in 1 .. Len(queue') : p \in queue'[i]
    BY <2>2
  <2>4. \A p \in fed + 1 .. published :
          p \in pool \/ p \in dropped' \/ p \in fed' + 1 .. published
    <3>1. \A p \in fed + 1 .. published : p \in fed + 1 .. upto \/ p \in upto + 1 .. published
      BY <1>0
    <3> QED
      BY <3>1
  <2>5. \A i \in 1 .. Len(queue) :
          i \in 1 .. Len(queue') /\ queue'[i] = queue[i]
    <3>1. CASE queue' = Append(queue, shown) /\ shown # {}
      <4>1. shown \in Chunks
        BY <3>1
      <4>2. /\ Len(queue') = Len(queue) + 1
            /\ \A i \in 1 .. Len(queue) : queue'[i] = queue[i]
        BY <1>0, <3>1, <4>1, AppendProperties
      <4> QED
        BY <1>0, <4>2
    <3> QED
      BY <3>1
  <2>6. dropped \subseteq dropped' /\ hidden \subseteq hidden'
    OBVIOUS
  <2>7. ASSUME NEW f, NEW p, Accounted(f, p) PROVE Accounted(f, p)'
    <3>1. CASE p \in held \/ p \in fed + 1 .. published
      <4>1. p \in pool \/ p \in dropped' \/ p \in fed' + 1 .. published'
        BY <2>1, <2>4, <3>1
      <4> QED
        BY <2>3, <4>1 DEF Accounted
    <3>2. CASE \E i \in 1 .. Len(queue) : p \in queue[i]
      BY <2>5, <3>2 DEF Accounted
    <3>3. CASE \/ p \in live[f] \cup replayed[f] \cup hidden \cup dropped
               \/ f \in tx.to /\ p \in tx.chunk
               \/ greeting.fd = f /\ p \in greeting.rest
      BY <2>1, <2>6, <3>3 DEF Accounted
    <3> QED
      BY <2>7, <3>1, <3>2, <3>3 DEF Accounted
  <2> QED
    BY <2>1, <2>7 DEF GapOK
<1>3. ASSUME TxReceive PROVE GapOK'
  <2>1. /\ queue' = Tail(queue) /\ queue # <<>>
        /\ tx = NoChunk
        /\ tx' = [chunk |-> Head(queue), to |-> registered, failed |-> Nobody]
        /\ UNCHANGED <<published, fed, held, hidden, dropped, registered, open, greeting,
                       owed, replayed, live>>
    BY <1>3 DEF TxReceive, usbRx, clients
  <2>2. /\ Len(queue') = Len(queue) - 1
        /\ \A i \in 1 .. Len(queue') : queue'[i] = queue[i + 1]
    BY <1>0, <2>1, HeadTailProperties
  <2>3. tx'.chunk = queue[1] /\ tx'.to = registered
    BY <1>0, <2>1
  <2>4. ASSUME NEW i \in 1 .. Len(queue)
        PROVE  i = 1 \/ \E j \in 1 .. Len(queue') : queue'[j] = queue[i]
    <3>1. CASE i # 1
      <4>1. i - 1 \in 1 .. Len(queue') /\ (i - 1) + 1 = i
        BY <1>0, <2>2, <3>1
      <4> QED
        BY <2>2, <4>1
    <3> QED
      BY <3>1
  <2>5. ASSUME NEW f \in registered, NEW p, Accounted(f, p) PROVE Accounted(f, p)'
    <3>1. CASE \E i \in 1 .. Len(queue) : p \in queue[i]
      BY <2>3, <2>4, <3>1 DEF Accounted
    <3>2. CASE f \in tx.to /\ p \in tx.chunk
      BY <2>1, <3>2 DEF NoChunk
    <3>3. CASE \/ p \in live[f] \cup replayed[f] \cup hidden \cup dropped \cup held
               \/ p \in fed + 1 .. published
               \/ greeting.fd = f /\ p \in greeting.rest
      BY <2>1, <3>3 DEF Accounted
    <3> QED
      BY <2>5, <3>1, <3>2, <3>3 DEF Accounted
  <2> QED
    BY <2>1, <2>5 DEF GapOK
<1>4. ASSUME NEW f \in Fd, TxSend(f) PROVE GapOK'
  <2>1. /\ UNCHANGED <<published, fed, held, hidden, dropped, queue, registered, open,
                       greeting, owed, replayed>>
        /\ live' = [live EXCEPT ![f] = @ \cup tx.chunk]
        /\ tx' = IF tx.to = {f} THEN NoChunk ELSE [tx EXCEPT !.to = @ \ {f}]
    BY <1>4 DEF TxSend, usbRx, clients
  <2>2. \A g \in Fd : live'[g] = IF g = f THEN live[g] \cup tx.chunk ELSE live[g]
    BY <2>1 DEF TypeOK
  <2>3. ASSUME NEW g \in tx.to \ {f} PROVE g \in tx'.to /\ tx'.chunk = tx.chunk
    BY <1>0, <2>1
  <2>4. ASSUME NEW g \in Fd, NEW p, Accounted(g, p) PROVE Accounted(g, p)'
    <3>1. CASE g \in tx.to /\ p \in tx.chunk
      <4>1. CASE g = f
        BY <2>2, <3>1, <4>1 DEF Accounted
      <4>2. CASE g # f
        BY <2>3, <3>1, <4>2 DEF Accounted
      <4> QED
        BY <4>1, <4>2
    <3>2. CASE p \in live[g]
      BY <2>2, <3>2 DEF Accounted
    <3>3. CASE \/ p \in replayed[g] \cup hidden \cup dropped \cup held
               \/ p \in fed + 1 .. published
               \/ \E i \in 1 .. Len(queue) : p \in queue[i]
               \/ greeting.fd = g /\ p \in greeting.rest
      BY <2>1, <3>3 DEF Accounted
    <3> QED
      BY <2>4, <3>1, <3>2, <3>3 DEF Accounted
  <2> QED
    BY <1>0, <2>1, <2>4 DEF GapOK
<1>5. ASSUME NEW f \in Fd, TxFail(f) PROVE GapOK'
  <2>1. tx'.chunk = tx.chunk /\ tx'.to = tx.to
    BY <1>0, <1>5 DEF TxFail
  <2> QED
    BY <1>5, <2>1 DEF TxFail, usbRx, clients, GapOK, Accounted
<1>6. ASSUME TxRemove \/ TxNobody PROVE GapOK'
  <2>1. /\ UNCHANGED <<usbRx, queue, clients, live>>
        /\ registered' \subseteq registered
        /\ \A g \in registered' : g \in tx.to => g \in tx'.to /\ tx'.chunk = tx.chunk
    <3>1. CASE TxNobody
      BY <3>1 DEF TxNobody
    <3>2. CASE TxRemove
      <4>1. ASSUME NEW g \in registered', g \in tx.to
            PROVE  g \in tx'.to /\ tx'.chunk = tx.chunk
        <5>1. g # tx.failed
          BY <3>2, <4>1 DEF TxRemove
        <5>2. tx' = [tx EXCEPT !.to = @ \ {tx.failed}, !.failed = Nobody]
          BY <3>2, <4>1, <5>1 DEF TxRemove
        <5> QED
          BY <1>0, <4>1, <5>1, <5>2
      <4> QED
        BY <3>2, <4>1 DEF TxRemove
    <3> QED
      BY <1>6, <3>1, <3>2
  <2> QED
    BY <2>1 DEF usbRx, clients, GapOK, Accounted
<1>7. ASSUME NEW f \in Fd, Accept(f) PROVE GapOK'
  <2>1. /\ UNCHANGED <<usbRx, queue, tx, owed>>
        /\ greeting = Idle
        /\ greeting' = [fd |-> f, step |-> "copy", rest |-> {}]
        /\ registered' = registered \cup {f} /\ open' = open \cup {f}
        /\ \A g \in Fd \ {f} : live'[g] = live[g] /\ replayed'[g] = replayed[g]
    BY <1>7 DEF Accept, TypeOK
  <2>2. ASSUME NEW g \in Fd \ {f}, NEW p, Accounted(g, p) PROVE Accounted(g, p)'
    BY <2>1, <2>2 DEF usbRx, Accounted, Idle
  <2>3. ASSUME NEW g \in registered' \cap open', g # f
        PROVE  /\ g \in registered \cap open /\ g \in Fd \ {f}
               /\ ~(greeting.fd = g /\ greeting.step = "copy")
    BY <1>0, <2>1, <2>3 DEF Idle
  <2> QED
    BY <2>1, <2>2, <2>3 DEF GapOK, usbRx
<1>8. ASSUME NEW f \in Fd, Refuse(f) PROVE GapOK'
  <2>1. /\ UNCHANGED <<usbRx, queue, tx, registered, greeting>>
        /\ open' = open \cup {f}
        /\ \A g \in Fd \ {f} : /\ live'[g] = live[g] /\ replayed'[g] = replayed[g]
                               /\ owed'[g] = owed[g]
    BY <1>8 DEF Refuse, TypeOK
  <2>2. ASSUME NEW g \in Fd \ {f}, NEW p, Accounted(g, p) PROVE Accounted(g, p)'
    BY <2>1, <2>2 DEF usbRx, Accounted
  <2>3. f \in registered => owed'[f] .. published = {}
    BY <1>8 DEF Refuse, TypeOK
  <2>4. ASSUME NEW g \in registered' \cap open',
               ~(greeting'.fd = g /\ greeting'.step = "copy"),
               NEW p \in owed'[g] .. published'
        PROVE  Accounted(g, p)'
    <3>1. g # f /\ g \in registered \cap open /\ p \in owed[g] .. published
      BY <1>0, <2>1, <2>3, <2>4 DEF usbRx
    <3>2. Accounted(g, p)
      BY <2>1, <2>4, <3>1 DEF GapOK
    <3> QED
      BY <1>0, <2>2, <3>1, <3>2
  <2> QED
    BY <2>4 DEF GapOK
<1>9. ASSUME CopySnapshot PROVE GapOK'
  <2>1. /\ UNCHANGED <<usbRx, queue, tx, registered, open, live, replayed>>
        /\ greeting.step = "copy"
        /\ owed' = [owed EXCEPT ![greeting.fd] = Oldest]
        /\ greeting' = IF Snapshot = {} THEN Idle
                       ELSE [greeting EXCEPT !.step = "send", !.rest = Snapshot]
    BY <1>9 DEF CopySnapshot
  <2>2. ASSUME NEW g \in registered \cap open, g = greeting.fd, NEW p \in owed'[g] .. published
        PROVE  greeting'.fd = g /\ p \in greeting'.rest
    <3>1. owed'[g] = Oldest
      BY <1>0, <2>1, <2>2 DEF TypeOK
    <3>2. p \in Snapshot
      BY <2>2, <3>1 DEF Snapshot
    <3> QED
      BY <2>1, <2>2, <3>2 DEF TypeOK
  <2>3. ASSUME NEW g \in registered \cap open, g # greeting.fd
        PROVE  /\ owed'[g] = owed[g]
               /\ \A p : Accounted(g, p) => Accounted(g, p)'
    BY <1>0, <2>1, <2>3 DEF TypeOK, usbRx, Accounted
  <2> QED
    BY <2>1, <2>2, <2>3 DEF GapOK, usbRx, Accounted
<1>10. ASSUME SendPiece PROVE GapOK'
  <2> DEFINE piece == {p \in greeting.rest :
                         Cardinality({q \in greeting.rest : q <= p}) <= PieceMax}
  <2> HIDE DEF piece
  <2>1. /\ replayed' = [replayed EXCEPT ![greeting.fd] = @ \cup piece]
        /\ greeting.step = "send"
        /\ greeting' = IF greeting.rest \ piece = {} THEN Idle
                       ELSE [greeting EXCEPT !.rest = greeting.rest \ piece]
        /\ UNCHANGED <<usbRx, queue, tx, registered, open, owed, live>>
    BY <1>10 DEF SendPiece, piece
  <2>2. ASSUME NEW g \in Fd, NEW p, Accounted(g, p) PROVE Accounted(g, p)'
    <3>1. \A h \in Fd : replayed[h] \subseteq replayed'[h]
      BY <2>1 DEF TypeOK
    <3>2. CASE greeting.fd = g /\ p \in greeting.rest
      <4>1. CASE p \in piece
        <5>1. p \in replayed'[g]
          BY <2>1, <3>2, <4>1 DEF TypeOK
        <5> QED
          BY <5>1 DEF Accounted
      <4>2. CASE p \notin piece
        <5>1. greeting'.fd = g /\ p \in greeting'.rest
          BY <2>1, <3>2, <4>2 DEF TypeOK
        <5> QED
          BY <5>1 DEF Accounted
      <4> QED
        BY <4>1, <4>2
    <3>3. CASE ~(greeting.fd = g /\ p \in greeting.rest)
      BY <2>1, <2>2, <3>1, <3>3 DEF Accounted, usbRx
    <3> QED
      BY <3>2, <3>3
  <2> QED
    BY <1>0, <2>1, <2>2 DEF GapOK, usbRx
<1>11. ASSUME GreetingFails PROVE GapOK'
  <2>1. /\ UNCHANGED <<usbRx, queue, tx, open, owed, live, replayed>>
        /\ registered' = registered \ {greeting.fd}
        /\ greeting' = Idle
    BY <1>11 DEF GreetingFails
  <2>2. ASSUME NEW g \in registered', NEW p, Accounted(g, p) PROVE Accounted(g, p)'
    BY <2>1, <2>2 DEF usbRx, Accounted
  <2> QED
    BY <2>1, <2>2 DEF GapOK, usbRx
<1>12. ASSUME UNCHANGED <<usbRx, queue, tx, greeting, owed, live, replayed>>,
              registered' \subseteq registered, open' \subseteq open
       PROVE  GapOK'
  BY <1>12 DEF usbRx, GapOK, Accounted
<1>13. ASSUME NEW f \in Fd, CloseFrame(f) \/ Break(f) PROVE GapOK'
  BY <1>12, <1>13 DEF CloseFrame, Break
<1>14. ASSUME ClearClients \/ UNCHANGED vars PROVE GapOK'
  BY <1>12, <1>14 DEF ClearClients, vars, clients
<1> QED
  BY <1>1, <1>2, <1>3, <1>4, <1>5, <1>6, <1>7, <1>8, <1>9, <1>10, <1>11,
     <1>13, <1>14 DEF Next, Callback, WebTx, Httpd
-----------------------------------------------------------------------------
THEOREM Invariance == Spec => []IInv
<1>1. IInv /\ [Next]_vars => IInv'
  BY TypeStep, OrderStep, GapStep DEF IInv
<1> QED
  BY <1>1, InitInv, PTL DEF Spec

(* The queue and the table keep their sizes, for every size: usb_rx_task,  *)
(* web_tx_task and httpd step in any order.                                *)
THEOREM TypeCorrect == Spec => []TypeOK
<1>1. IInv => TypeOK
  BY DEF IInv
<1> QED
  BY <1>1, Invariance, PTL

(* Live output comes in order and once, for any number of connections that *)
(* come, break and are replaced under the same descriptor.                 *)
THEOREM OutputInOrder == Spec => []LiveInOrder
<1>1. IInv => LiveInOrder
  BY OrderImplies DEF IInv
<1> QED
  BY <1>1, Invariance, PTL

(* A terminal that stays connected misses nothing between the scrollback   *)
(* of its greeting, sent by httpd, and the live output, sent by web_tx.    *)
THEOREM NothingMissed == Spec => []NoGap
<1>1. IInv => NoGap
  BY GapOKIsNoGap DEF IInv
<1> QED
  BY <1>1, Invariance, PTL
=============================================================================
