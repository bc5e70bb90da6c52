--------------------------- MODULE WebSession_proofs ---------------------------
(***************************************************************************)
(* For any number of descriptors, slots and sessions: types and bounds,    *)
(* what is about to be written belongs to the current session, entries     *)
(* match their connections, ended sessions stay ended and unlocking takes  *)
(* a tap.                                                                  *)
(***************************************************************************)
EXTENDS WebSession, FiniteSetTheorems, SequenceTheorems, TLAPS

\* What the variables' types have to say for the rest of the proof; nothing
\* here depends on the bounds of a run.
Types ==
  /\ made \in Nat /\ session \in Int
  /\ table \in [Fd -> Int] /\ conn \in [Fd -> Int]
  /\ locked \in BOOLEAN
  /\ permits \in Int
  /\ handler \in [step : {"idle", "check", "write"}, fd : Fd \cup {Nobody}, token : Int]

\* A handler is under way only when the server is ready, which is why neither
\* the start of the server nor queued work can come between check and write.
HandlerOnlyWhenReady == handler.step # "idle" => web = "ready"

\* A connection is closed, was refused, or was let in with a token.
OpenOrClosed == \A f \in Fd : conn[f] >= -1

\* The connection a handler works for is as it was when its frame came.
HandledConnection ==
  handler.step # "idle" =>
    handler.fd \in Fd /\ conn[handler.fd] \in {0, handler.token}

IInv ==
  /\ Types /\ OpenOrClosed
  /\ HandlerOnlyWhenReady /\ HandledConnection
  /\ InputOfSession /\ EntryMatchesConnection

USE DEF Types, OpenOrClosed, HandlerOnlyWhenReady, HandledConnection,
        InputOfSession, EntryMatchesConnection, Waiting, Closed, httpdIdle, Valid, ClearedTable,
        sessions, terminals, lock, life

\* An empty table and closed descriptors have their types and agree.
LEMMA Cleared ==
  /\ ClearedTable \in [Fd -> Int]
  /\ \A f \in Fd : ClearedTable[f] = 0
  /\ [f \in Fd |-> Closed] \in [Fd -> Int]
  /\ \A f \in Fd : [g \in Fd |-> Closed][f] = -1
OBVIOUS

\* Changing one entry, of a descriptor or not, keeps a table a table.
LEMMA Updated ==
  ASSUME NEW F \in [Fd -> Int], NEW g, NEW v \in Int
  PROVE  [F EXCEPT ![g] = v] \in [Fd -> Int]
<1>1. [F EXCEPT ![g] = v] = [f \in Fd |-> IF f = g THEN v ELSE F[f]]
  OBVIOUS
<1>2. [f \in Fd |-> IF f = g THEN v ELSE F[f]] \in [Fd -> Int]
  OBVIOUS
<1>3. QED
  BY <1>1, <1>2

LEMMA IdleHandler ==
  Waiting \in [step : {"idle", "check", "write"}, fd : Fd \cup {Nobody}, token : Int]
OBVIOUS

LEMMA InitIInv == Init => IInv
<1> SUFFICES ASSUME Init
             PROVE  IInv
  OBVIOUS
<1> USE DEF Init, Down
<1>1. Types
  <2>1. /\ table = ClearedTable /\ conn = [f \in Fd |-> Closed] /\ handler = Waiting
        /\ made = 0 /\ session = 0 /\ locked = FALSE /\ permits = 0
    BY DEF Init, Down
  <2>2. table \in [Fd -> Int] /\ conn \in [Fd -> Int]
    BY <2>1, Cleared
  <2>3. handler \in [step : {"idle", "check", "write"}, fd : Fd \cup {Nobody}, token : Int]
    BY <2>1, IdleHandler
  <2>4. locked \in BOOLEAN
    BY <2>1, Zenon
  <2>5. made \in Nat /\ session \in Int /\ permits \in Int
    BY <2>1
  <2>6. QED
    BY <2>2, <2>3, <2>4, <2>5
<1>2. handler.step = "idle"
  OBVIOUS
<1>3. \A f \in Fd : table[f] = 0
  BY Cleared
<1>4. QED
  BY <1>1, <1>2, <1>3 DEF IInv

\* Requests: they come only when the httpd task is idle.
LEMMA RequestIInv ==
  ASSUME IInv, NEW t \in 0 .. made, Request(t)
  PROVE  IInv'
<1>1. CASE OpenTerminal(t)
  BY <1>1 DEF OpenTerminal, IInv
<1>2. ASSUME NEW sameOrigin \in BOOLEAN, Logout(t, sameOrigin)
      PROVE  IInv'
  BY <1>2 DEF Logout, IInv
<1>3. ASSUME NEW replySent \in BOOLEAN, RequestLock(t, replySent)
      PROVE  IInv'
  BY <1>3 DEF RequestLock, IInv
<1>4. ASSUME NEW replySent \in BOOLEAN, Rotate(t, replySent)
      PROVE  IInv'
  BY <1>4 DEF Rotate, IInv
<1>5. QED
  BY <1>1, <1>2, <1>3, <1>4 DEF Request

LEMMA ConnectIInv ==
  ASSUME IInv, NEW f \in Fd, NEW t \in 0 .. made, Connect(f, t)
  PROVE  IInv'
<1>1. t \in Int
  BY DEF IInv
<1>2. CASE Valid(t)
  <2>1. Types'
    BY <1>1, <1>2 DEF Connect, IInv
  <2>2. EntryMatchesConnection'
    <3> SUFFICES ASSUME NEW g \in Fd, conn'[g] > 0, table'[g] # 0
                 PROVE  table'[g] = conn'[g]
      OBVIOUS
    <3>1. CASE g = f
      <4>1. conn'[f] = t
        BY <1>2 DEF Connect, IInv
      <4>2. table'[f] = t \/ table'[f] = 0
        BY <1>2 DEF Connect, IInv
      <4>3. QED
        BY <3>1, <4>1, <4>2
    <3>2. CASE g # f
      BY <1>2, <3>2 DEF Connect, IInv
    <3>3. QED
      BY <3>1, <3>2
  <2>3. QED
    BY <2>1, <2>2 DEF Connect, IInv
<1>3. CASE ~Valid(t)
  BY <1>3 DEF Connect, IInv
<1>4. QED
  BY <1>2, <1>3

\* Terminal connections: an entry is written only for a connection let in.
LEMMA TerminalIInv ==
  ASSUME IInv, Terminal
  PROVE  IInv'
<1>1. ASSUME NEW f \in Fd, NEW t \in 0 .. made, Connect(f, t)
      PROVE  IInv'
  BY <1>1, ConnectIInv
<1>2. ASSUME NEW f \in Fd, Frame(f)
      PROVE  IInv'
  BY <1>2 DEF Frame, IInv
<1>3. ASSUME NEW f \in Fd, Disconnect(f)
      PROVE  IInv'
  BY <1>3 DEF Disconnect, IInv
<1>4. ASSUME NEW f \in Fd, RemoveFd(f)
      PROVE  IInv'
  BY <1>4 DEF RemoveFd, IInv
<1>5. CASE CloseFrame
  <2>1. PICK g \in Fd \cup {Nobody} : handler.fd = g
    BY DEF IInv
  <2>2. table' = [table EXCEPT ![g] = 0] /\ conn' = conn /\ handler' = Waiting
    BY <1>5, <2>1 DEF CloseFrame
  <2>3. table' \in [Fd -> Int] /\ handler'.step = "idle"
    <3>1. table \in [Fd -> Int]
      BY DEF IInv
    <3>2. table' \in [Fd -> Int]
      BY <3>1, <2>2, Updated
    <3>3. handler'.step = "idle"
      BY <2>2
    <3>4. QED
      BY <3>2, <3>3
  <2>4. Types'
    BY <1>5, <2>2, <2>3, IdleHandler DEF CloseFrame, IInv
  <2>5. EntryMatchesConnection'
    BY <2>2 DEF IInv
  <2>6. QED
    BY <2>2, <2>3, <2>4, <2>5 DEF IInv
<1>6. CASE FrameFails
  <2>1. PICK g \in Fd \cup {Nobody} : handler.fd = g
    BY DEF IInv
  <2>2. conn' = [conn EXCEPT ![g] = -1] /\ table' = table /\ handler' = Waiting
    BY <1>6, <2>1 DEF FrameFails
  <2>3. conn' \in [Fd -> Int] /\ handler'.step = "idle"
    <3>1. conn \in [Fd -> Int]
      BY DEF IInv
    <3>2. conn' \in [Fd -> Int]
      BY <3>1, <2>2, Updated
    <3>3. handler'.step = "idle"
      BY <2>2
    <3>4. QED
      BY <3>2, <3>3
  <2>4. Types'
    BY <1>6, <2>2, <2>3, IdleHandler DEF FrameFails, IInv
  <2>5. EntryMatchesConnection'
    BY <2>2 DEF IInv
  <2>6. OpenOrClosed'
    BY <2>2, <2>3 DEF IInv
  <2>7. QED
    BY <2>3, <2>4, <2>5, <2>6 DEF IInv
<1>7. ASSUME NEW accepted \in BOOLEAN, CheckInput(accepted)
      PROVE  IInv'
  BY <1>7 DEF CheckInput, IInv
<1>8. CASE WriteInput
  BY <1>8 DEF WriteInput, IInv
<1>9. CASE ClearFds
  BY <1>9 DEF ClearFds, IInv
<1>10. QED
  BY <1>1, <1>2, <1>3, <1>4, <1>5, <1>6, <1>7, <1>8, <1>9 DEF Terminal, HandlerGoesOn

LEMMA NextIInv == IInv /\ [Next]_vars => IInv'
<1> SUFFICES ASSUME IInv, [Next]_vars
             PROVE  IInv'
  OBVIOUS
<1>1. CASE SetServer
  BY <1>1 DEF SetServer, IInv
<1>2. CASE ResetStatus
  <2>1. table' = ClearedTable /\ conn' = conn /\ handler' = handler /\ web = "starting"
    BY <1>2 DEF ResetStatus
  <2>2. handler'.step = "idle"
    BY <2>1 DEF IInv
  <2>3. Types'
    BY <1>2, <2>1, Cleared DEF ResetStatus, IInv
  <2>4. EntryMatchesConnection'
    BY <2>1, Cleared
  <2>5. QED
    BY <2>1, <2>2, <2>3, <2>4 DEF IInv
<1>3. CASE Restart
  <2>1. table' = ClearedTable /\ conn' = [f \in Fd |-> Closed] /\ handler' = Waiting
    BY <1>3 DEF Restart
  <2>2. handler'.step = "idle"
    BY <2>1
  <2>3. Types'
    <3>1. table' \in [Fd -> Int] /\ conn' \in [Fd -> Int]
      BY <2>1, Cleared
    <3>2. handler' \in [step : {"idle", "check", "write"}, fd : Fd \cup {Nobody}, token : Int]
      BY <2>1, IdleHandler
    <3>3. made' \in Nat /\ session' \in Int /\ permits' \in Int
      BY <1>3 DEF Restart, IInv
    <3>4. locked' \in BOOLEAN
      BY <1>3, Zenon DEF Restart
    <3>5. QED
      BY <3>1, <3>2, <3>3, <3>4
  <2>4. EntryMatchesConnection'
    BY <2>1, Cleared
  <2>5. OpenOrClosed'
    BY <2>1, Cleared
  <2>6. QED
    BY <2>2, <2>3, <2>4, <2>5 DEF IInv
<1>4. CASE Expire
  BY <1>4 DEF Expire, IInv
<1>5. CASE Tap
  BY <1>5 DEF Tap, IInv
<1>6. ASSUME NEW queued \in BOOLEAN, QueueTap(queued)
      PROVE  IInv'
  BY <1>6 DEF QueueTap, IInv
<1>7. CASE DoWork
  BY <1>7 DEF DoWork, IInv
<1>8. CASE UNCHANGED vars
  BY <1>8 DEF vars, IInv
<1>9. QED
  BY <1>1, <1>2, <1>3, <1>4, <1>5, <1>6, <1>7, <1>8, RequestIInv, TerminalIInv DEF Next

\* Input that is written came while nothing was locked, under the token of the
\* current session, from a connection it let in or one that was refused.
THEOREM InputBelongsToSession == Spec => []InputOfSession
BY InitIInv, NextIInv, PTL DEF Spec, IInv

\* A connection that was let in is known by its own session.
THEOREM EntriesMatch == Spec => []EntryMatchesConnection
BY InitIInv, NextIInv, PTL DEF Spec, IInv

\* A step makes at most one new token, and takes back the end of no session:
\* only OpenTerminal makes a session valid, and its token is new.
LEMMA StepEndsForGood ==
  ASSUME IInv, [Next]_vars, NEW t \in 1 .. made, ~Valid(t)
  PROVE  ~Valid(t)'
<1>1. t \in Int /\ t # made + 1 /\ t # 0
  BY DEF IInv
<1>2. CASE session' = session /\ expired' = expired
  BY <1>2
<1>3. CASE session' = 0
  BY <1>1, <1>3
<1>4. CASE session' = made + 1
  BY <1>1, <1>4
<1>5. CASE session' = session /\ expired' = TRUE
  BY <1>5
<1>6. \/ session' = session /\ expired' = expired
      \/ session' = 0
      \/ session' = made + 1
      \/ session' = session /\ expired' = TRUE
  <2>1. ASSUME NEW u \in 0 .. made, Request(u)
        PROVE  (session' = session /\ expired' = expired) \/ session' = 0 \/ session' = made + 1
    BY <2>1 DEF Request, OpenTerminal, Logout, RequestLock, Rotate
  <2>2. CASE Terminal
    BY <2>2 DEF Terminal, Connect, Frame, Disconnect, RemoveFd, HandlerGoesOn, CloseFrame,
                FrameFails, WriteInput, CheckInput, ClearFds
  <2>3. CASE \/ SetServer \/ ResetStatus \/ Restart \/ Expire \/ Tap \/ DoWork
             \/ \E queued \in BOOLEAN : QueueTap(queued)
    BY <2>3 DEF SetServer, ResetStatus, Restart, Expire, Tap, DoWork, QueueTap
  <2>4. CASE UNCHANGED vars
    BY <2>4 DEF vars
  <2>5. QED
    BY <2>1, <2>2, <2>3, <2>4 DEF Next
<1>7. QED
  BY <1>2, <1>3, <1>4, <1>5, <1>6

\* A session that ended never comes back.
THEOREM SessionsEndForGood == Spec => EndedStaysEnded
<1>1. IInv /\ [Next]_vars => [\A t \in 1 .. made : ~Valid(t) => ~Valid(t)']_vars
  BY StepEndsForGood
<1>2. QED
  BY <1>1, InitIInv, NextIInv, PTL DEF Spec, EndedStaysEnded
-----------------------------------------------------------------------------
\* permits counts the unlocks on their way, in the queue or about to be queued:
\* c[i] is how many the queue holds from its place i on.
UnlocksFrom(c) ==
  /\ c \in [1 .. Len(work) + 1 -> Nat]
  /\ c[Len(work) + 1] = 0
  /\ \A i \in 1 .. Len(work) : c[i] = c[i + 1] + (IF work[i] = "unlock" THEN 1 ELSE 0)
  /\ permits = c[1] + (IF tap = "unlock" THEN 1 ELSE 0)

LockOK ==
  /\ work \in Seq({"lock", "unlock"})
  /\ tap \in {"none", "lock", "unlock"}
  /\ \E c : UnlocksFrom(c)

\* An unlock at the head of the queue is one of those counted.
LEMMA PermitsCounted ==
  ASSUME LockOK
  PROVE  /\ permits \in Nat
         /\ work # <<>> /\ Head(work) = "unlock" => permits > 0
         /\ tap = "unlock" => permits > 0
<1>1. PICK c : UnlocksFrom(c)
  BY DEF LockOK
<1>2. Len(work) \in Nat /\ 1 \in 1 .. Len(work) + 1 /\ c[1] \in Nat
  BY <1>1 DEF LockOK, UnlocksFrom
<1>3. permits \in Nat /\ (tap = "unlock" => permits > 0)
  BY <1>1, <1>2 DEF UnlocksFrom
<1>4. ASSUME work # <<>>, Head(work) = "unlock" PROVE permits > 0
  <2>1. work[1] = "unlock" /\ 1 \in 1 .. Len(work)
    BY <1>4 DEF LockOK
  <2>2. c[1] = c[2] + 1 /\ c[2] \in Nat
    BY <1>1, <1>2, <2>1 DEF UnlocksFrom
  <2>3. QED
    BY <1>1, <1>2, <2>2 DEF UnlocksFrom
<1>5. QED
  BY <1>3, <1>4

\* One more item in the queue.
LEMMA QueueWork ==
  ASSUME LockOK, NEW w \in {"lock", "unlock"}, work' = Append(work, w),
         tap' \in {"none", "lock", "unlock"},
         permits' + (IF tap = "unlock" THEN 1 ELSE 0)
           = permits + (IF w = "unlock" THEN 1 ELSE 0) + (IF tap' = "unlock" THEN 1 ELSE 0)
  PROVE  permits' \in Int => LockOK'
<1> SUFFICES ASSUME permits' \in Int PROVE LockOK'
  OBVIOUS
<1> DEFINE one(v) == IF v = "unlock" THEN 1 ELSE 0
<1>1. PICK c : UnlocksFrom(c)
  BY DEF LockOK
<1>2. Len(work) \in Nat
  BY DEF LockOK
<1>3. /\ work' \in Seq({"lock", "unlock"}) /\ Len(work') = Len(work) + 1
      /\ work'[Len(work) + 1] = w
      /\ \A i \in 1 .. Len(work) : work'[i] = work[i]
  BY AppendProperties DEF LockOK
<1>d. PICK d : d = [i \in 1 .. Len(work') + 1 |->
                     IF i <= Len(work) + 1 THEN c[i] + one(w) ELSE 0]
  OBVIOUS
<1>4. d \in [1 .. Len(work') + 1 -> Nat]
  <2>1. ASSUME NEW i \in 1 .. Len(work') + 1, i <= Len(work) + 1 PROVE c[i] \in Nat
    BY <1>1, <1>2, <1>3, <2>1 DEF UnlocksFrom
  <2>2. one(w) \in Nat
    OBVIOUS
  <2>3. QED
    BY <1>d, <2>1, <2>2
<1>5. d[Len(work') + 1] = 0
  BY <1>2, <1>3, <1>d
<1>6. ASSUME NEW i \in 1 .. Len(work') PROVE d[i] = d[i + 1] + one(work'[i])
  <2>1. CASE i = Len(work) + 1
    <3>1. d[i] = c[i] + one(w) /\ d[i + 1] = 0 /\ c[i] = 0
      BY <1>1, <1>2, <1>3, <1>d, <2>1 DEF UnlocksFrom
    <3>2. QED
      BY <1>3, <2>1, <3>1
  <2>2. CASE i # Len(work) + 1
    <3>1. i \in 1 .. Len(work) /\ i + 1 \in 1 .. Len(work) + 1
      BY <1>2, <1>3, <2>2
    <3>2. d[i] = c[i] + one(w) /\ d[i + 1] = c[i + 1] + one(w)
      BY <1>2, <1>3, <1>d, <3>1
    <3>3. c[i] = c[i + 1] + one(work[i]) /\ c[i + 1] \in Nat
      BY <1>1, <3>1 DEF UnlocksFrom
    <3>4. QED
      BY <1>3, <3>1, <3>2, <3>3
  <2>3. QED
    BY <2>1, <2>2
<1>7. permits' = d[1] + one(tap')
  <2>1. 1 \in 1 .. Len(work) + 1 /\ 1 \in 1 .. Len(work') + 1 /\ 1 <= Len(work) + 1
    BY <1>2, <1>3
  <2>2. c[1] \in Nat /\ permits = c[1] + one(tap)
    BY <1>1, <2>1 DEF UnlocksFrom
  <2>3. d[1] = c[1] + one(w)
    BY <1>d, <2>1
  <2>4. QED
    BY <2>2, <2>3
<1>8. UnlocksFrom(d)'
  BY <1>4, <1>5, <1>6, <1>7 DEF UnlocksFrom
<1>9. QED
  BY <1>3, <1>8 DEF LockOK

\* One item less.
LEMMA FinishWork ==
  ASSUME LockOK, work # <<>>, work' = Tail(work), tap' = tap,
         permits' = IF Head(work) = "unlock" THEN permits - 1 ELSE permits
  PROVE  LockOK'
<1>1. PICK c : UnlocksFrom(c)
  BY DEF LockOK
<1>2. Len(work) \in Nat /\ Head(work) = work[1] /\ 1 \in 1 .. Len(work)
  BY DEF LockOK
<1>3. /\ work' \in Seq({"lock", "unlock"}) /\ Len(work') = Len(work) - 1
      /\ \A i \in 1 .. Len(work') : work'[i] = work[i + 1]
  BY HeadTailProperties DEF LockOK
<1>d. PICK d : d = [i \in 1 .. Len(work') + 1 |-> c[i + 1]]
  OBVIOUS
<1>4. d \in [1 .. Len(work') + 1 -> Nat] /\ d[Len(work') + 1] = 0
  BY <1>1, <1>2, <1>3, <1>d DEF UnlocksFrom
<1>5. ASSUME NEW i \in 1 .. Len(work')
      PROVE  d[i] = d[i + 1] + (IF work'[i] = "unlock" THEN 1 ELSE 0)
  <2>1. i + 1 \in 1 .. Len(work) /\ d[i] = c[i + 1] /\ d[i + 1] = c[i + 2]
    BY <1>2, <1>3, <1>d
  <2>2. (i + 1) + 1 = i + 2
    OBVIOUS
  <2>3. QED
    BY <1>1, <1>3, <2>1, <2>2 DEF UnlocksFrom
<1>6. permits' = d[1] + (IF tap' = "unlock" THEN 1 ELSE 0)
  <2>1. c[1] = c[2] + (IF work[1] = "unlock" THEN 1 ELSE 0) /\ c[2] \in Nat
    BY <1>1, <1>2 DEF UnlocksFrom
  <2>2. d[1] = c[2]
    BY <1>2, <1>3, <1>d
  <2>3. QED
    BY <1>1, <1>2, <2>1, <2>2 DEF UnlocksFrom
<1>7. UnlocksFrom(d)'
  BY <1>4, <1>5, <1>6 DEF UnlocksFrom
<1>8. QED
  BY <1>3, <1>7 DEF LockOK

\* The tap is decided, or what it decided cannot be queued.
LEMMA TapDecided ==
  ASSUME LockOK, work' = work, tap' \in {"none", "lock", "unlock"}, permits' \in Int,
         permits' + (IF tap = "unlock" THEN 1 ELSE 0)
           = permits + (IF tap' = "unlock" THEN 1 ELSE 0)
  PROVE  LockOK'
<1>1. PICK c : UnlocksFrom(c)
  BY DEF LockOK
<1>2. Len(work) \in Nat /\ c[1] \in Nat
  BY <1>1 DEF LockOK, UnlocksFrom
<1>3. permits' = c[1] + (IF tap' = "unlock" THEN 1 ELSE 0)
  BY <1>1, <1>2 DEF UnlocksFrom
<1>4. UnlocksFrom(c)'
  BY <1>1, <1>3 DEF UnlocksFrom
<1>5. QED
  BY <1>4 DEF LockOK

\* Nothing is on its way.
LEMMA NoWork ==
  ASSUME work = <<>>, tap = "none", permits = 0
  PROVE  LockOK
<1>1. Len(work) = 0 /\ work \in Seq({"lock", "unlock"})
  BY EmptySeq
<1>2. UnlocksFrom([i \in 1 .. 1 |-> 0])
  BY <1>1 DEF UnlocksFrom
<1>3. QED
  BY <1>1, <1>2 DEF LockOK

LEMMA NextLockOK == LockOK /\ [Next]_vars => LockOK'
<1> SUFFICES ASSUME LockOK, [Next]_vars
             PROVE  LockOK'
  OBVIOUS
<1>0. permits \in Nat
  BY PermitsCounted
<1>1. CASE UNCHANGED <<work, tap, permits>>
  BY <1>1 DEF LockOK, UnlocksFrom
<1>2. ASSUME NEW t \in 0 .. made, Request(t)
      PROVE  LockOK'
  <2>1. CASE \/ OpenTerminal(t) \/ \E sameOrigin \in BOOLEAN : Logout(t, sameOrigin)
             \/ \E replySent \in BOOLEAN : Rotate(t, replySent)
    BY <1>1, <2>1 DEF OpenTerminal, Logout, Rotate
  <2>2. ASSUME NEW replySent \in BOOLEAN, RequestLock(t, replySent)
        PROVE  LockOK'
    <3>1. work' = Append(work, "lock") /\ tap' = tap /\ permits' = permits
      BY <2>2 DEF RequestLock
    <3>2. tap' \in {"none", "lock", "unlock"}
      BY <3>1 DEF LockOK
    <3>3. QED
      BY <1>0, <3>1, <3>2, QueueWork
  <2>3. QED
    BY <1>2, <2>1, <2>2 DEF Request
<1>3. CASE Restart
  <2>1. work' = <<>> /\ tap' = "none" /\ permits' = 0
    BY <1>3 DEF Restart
  <2>2. (work = <<>> /\ tap = "none" /\ permits = 0 => LockOK)'
    BY NoWork, PTL
  <2>3. QED
    BY <2>1, <2>2
<1>4. CASE Tap
  <2>1. /\ work' = work /\ tap = "none"
        /\ \/ tap' = "unlock" /\ permits' = permits + 1
           \/ tap' = "lock" /\ permits' = permits
    BY <1>4 DEF Tap
  <2>2. QED
    BY <1>0, <2>1, TapDecided
<1>5. ASSUME NEW queued \in BOOLEAN, QueueTap(queued)
      PROVE  LockOK'
  <2>1. tap \in {"lock", "unlock"} /\ tap' = "none"
    BY <1>5 DEF QueueTap, LockOK
  <2>2. CASE queued
    <3>1. work' = Append(work, tap) /\ permits' = permits
      BY <1>5, <2>2 DEF QueueTap
    <3>2. QED
      BY <1>0, <2>1, <3>1, QueueWork
  <2>3. CASE ~queued
    <3>1. /\ work' = work
          /\ permits' = IF tap = "unlock" THEN permits - 1 ELSE permits
      BY <1>5, <2>3 DEF QueueTap
    <3>2. QED
      BY <1>0, <2>1, <3>1, TapDecided
  <2>4. QED
    BY <2>2, <2>3
<1>6. CASE DoWork
  BY <1>6, FinishWork DEF DoWork
<1>7. CASE SetServer \/ ResetStatus \/ Expire \/ UNCHANGED vars
  BY <1>1, <1>7 DEF SetServer, ResetStatus, Expire, vars
<1>8. CASE Terminal
  BY <1>1, <1>8 DEF Terminal, Connect, Frame, Disconnect, RemoveFd, HandlerGoesOn,
     CloseFrame, FrameFails, WriteInput, CheckInput, ClearFds
<1>9. QED
  BY <1>2, <1>3, <1>4, <1>5, <1>6, <1>7, <1>8 DEF Next

\* Only the work item of a tap unlocks a running server.
LEMMA StepUnlocks ==
  ASSUME LockOK, [Next]_vars, locked, ~locked', web = "ready", web' = "ready"
  PROVE  permits > 0
<1>1. CASE DoWork
  <2>1. work # <<>> /\ Head(work) # "lock"
    BY <1>1 DEF DoWork
  <2>2. Head(work) = "unlock"
    BY <2>1, HeadTailProperties DEF LockOK
  <2>3. QED
    BY <2>1, <2>2, PermitsCounted
<1>2. CASE SetServer \/ ResetStatus \/ Restart
  BY <1>2 DEF SetServer, ResetStatus, Restart
<1>3. ASSUME NEW t \in 0 .. made, Request(t)
      PROVE  FALSE
  BY <1>3 DEF Request, OpenTerminal, Logout, RequestLock, Rotate
<1>4. CASE Expire \/ Tap \/ (\E queued \in BOOLEAN : QueueTap(queued)) \/ UNCHANGED vars
  BY <1>4 DEF Expire, Tap, QueueTap, vars
<1>5. CASE Terminal
  BY <1>5 DEF Terminal, Connect, Frame, Disconnect, RemoveFd, HandlerGoesOn,
     CloseFrame, FrameFails, WriteInput, CheckInput, ClearFds
<1>6. QED
  BY <1>1, <1>2, <1>3, <1>4, <1>5 DEF Next

\* Whatever is queued, repeated or late, a running server is unlocked only by
\* a tap on the device made while it was locked.
THEOREM UnlocksNeedTap == Spec => UnlockNeedsTap
<1>1. Init => LockOK
  BY NoWork DEF Init, Down
<1>2. LockOK /\ [Next]_vars =>
        [(locked /\ ~locked' /\ web = "ready" /\ web' = "ready") => permits > 0]_vars
  BY StepUnlocks
<1>3. QED
  BY <1>1, <1>2, NextLockOK, PTL DEF Spec, UnlockNeedsTap
-----------------------------------------------------------------------------
\* The part of TypeOK that the queue of work does not concern.
TableOK ==
  /\ made \in 0 .. MaxTokens /\ session \in 0 .. made
  /\ table \in [Fd -> 0 .. made] /\ Cardinality(Registered) <= MaxClients
  /\ conn \in [Fd -> {Closed} \cup 0 .. made]
  /\ handler \in [step : {"idle", "check", "write"}, fd : Fd \cup {Nobody}, token : 0 .. made]

HandlerType(n) == [step : {"idle", "check", "write"}, fd : Fd \cup {Nobody}, token : 0 .. n]

\* A table whose entries are among those of another is not fuller.
LEMMA FewerEntries ==
  ASSUME TableOK, Registered' \subseteq Registered
  PROVE  Cardinality(Registered') <= MaxClients
<1>1. IsFiniteSet(Registered)
  BY SessionAssumption, FS_Subset DEF Registered
<1>2. IsFiniteSet(Registered') /\ Cardinality(Registered') <= Cardinality(Registered)
  BY <1>1, FS_Subset
<1>3. Cardinality(Registered) \in Nat /\ Cardinality(Registered') \in Nat
  BY <1>1, <1>2, FS_CardinalityType
<1>4. QED
  BY <1>2, <1>3, SessionAssumption DEF TableOK

\* Nothing is entered into the table.
OnlyClears ==
  /\ table' \in [Fd -> 0 .. made]
  /\ \A f \in Fd : table'[f] # 0 => table[f] # 0

\* Closing descriptors and clearing entries keeps the types.
LEMMA ClearsEntries ==
  ASSUME TableOK, made' = made, session' = session \/ session' = 0, OnlyClears,
         conn' \in [Fd -> {Closed} \cup 0 .. made], handler' \in HandlerType(made)
  PROVE  TableOK'
<1>1. table' \in [Fd -> 0 .. made]
  BY DEF OnlyClears
<1>2. Registered' \subseteq Registered
  BY DEF OnlyClears, Registered
<1>3. Cardinality(Registered') <= MaxClients
  BY <1>2, FewerEntries
<1>4. session' \in 0 .. made
  BY SessionAssumption DEF TableOK
<1>5. QED
  BY <1>1, <1>3, <1>4 DEF TableOK, HandlerType

LEMMA OneEntryCleared ==
  ASSUME TableOK, NEW g, table' = [table EXCEPT ![g] = 0]
  PROVE  OnlyClears
<1>1. table' = [f \in Fd |-> IF f = g THEN 0 ELSE table[f]]
  BY DEF TableOK
<1>2. 0 \in 0 .. made
  BY SessionAssumption DEF TableOK
<1>3. QED
  BY <1>1, <1>2 DEF OnlyClears, TableOK

LEMMA AllCleared == ASSUME TableOK, table' = ClearedTable PROVE OnlyClears
BY SessionAssumption DEF OnlyClears, TableOK

LEMMA NoneCleared == ASSUME TableOK, table' = table PROVE OnlyClears
BY DEF OnlyClears, TableOK

LEMMA IdleHandlerType == ASSUME NEW n \in Nat PROVE Waiting \in HandlerType(n)
BY DEF HandlerType

LEMMA ConnectTableOK ==
  ASSUME TableOK, NEW f \in Fd, NEW t \in 0 .. made, Connect(f, t)
  PROVE  TableOK'
<1>1. /\ made' = made /\ session' = session /\ handler' = handler
      /\ made \in Nat /\ 0 \in 0 .. made
  BY SessionAssumption DEF Connect, TableOK
<1>2. conn' \in [Fd -> {Closed} \cup 0 .. made] /\ table' \in [Fd -> 0 .. made]
  BY <1>1 DEF Connect, TableOK
<1>3. Cardinality(Registered') <= MaxClients
  <2>1. CASE table' = table
    <3>1. Registered' = Registered
      BY <2>1 DEF Registered
    <3>2. QED
      BY <3>1 DEF TableOK
  <2>2. CASE table[f] # 0 /\ table' = [table EXCEPT ![f] = t]
    <3>1. Registered' \subseteq Registered
      BY <2>2 DEF Registered, TableOK
    <3>2. QED
      BY <3>1, FewerEntries
  <2>3. CASE table[f] = 0 /\ table' # table
    <3>1. Cardinality(Registered) < MaxClients /\ table' = [table EXCEPT ![f] = t] /\ t # 0
      BY <2>3 DEF Connect
    <3>2. Registered' = Registered \cup {f} /\ f \notin Registered
      BY <2>3, <3>1 DEF Registered, TableOK
    <3>3. IsFiniteSet(Registered)
      BY SessionAssumption, FS_Subset DEF Registered
    <3>4. Cardinality(Registered') = Cardinality(Registered) + 1 /\ Cardinality(Registered) \in Nat
      BY <3>2, <3>3, FS_AddElement, FS_CardinalityType
    <3>5. QED
      BY <3>1, <3>4, SessionAssumption
  <2>4. QED
    BY <2>1, <2>2, <2>3 DEF Connect
<1>4. QED
  BY <1>1, <1>2, <1>3 DEF TableOK

LEMMA TerminalTableOK ==
  ASSUME TableOK, Terminal
  PROVE  TableOK'
<1>0. /\ made \in Nat /\ Waiting \in HandlerType(made) /\ handler \in HandlerType(made)
      /\ conn \in [Fd -> {Closed} \cup 0 .. made]
  BY IdleHandlerType, SessionAssumption DEF TableOK, HandlerType
<1>1. ASSUME NEW f \in Fd, NEW t \in 0 .. made, Connect(f, t) PROVE TableOK'
  BY <1>1, ConnectTableOK
<1>2. ASSUME NEW f \in Fd, Frame(f) PROVE TableOK'
  <2>1. made' = made /\ session' = session /\ conn' = conn
    BY <1>2 DEF Frame
  <2>2. CASE Valid(table[f])
    <3>1. table' = table /\ handler' = [step |-> "check", fd |-> f, token |-> table[f]]
      BY <1>2, <2>2 DEF Frame
    <3>2. handler' \in HandlerType(made)
      BY <3>1 DEF HandlerType, TableOK
    <3>3. QED
      BY <1>0, <2>1, <3>1, <3>2, NoneCleared, ClearsEntries
  <2>3. CASE ~Valid(table[f])
    <3>1. table' = [table EXCEPT ![f] = 0] /\ handler' = handler
      BY <1>2, <2>3 DEF Frame
    <3>2. QED
      BY <1>0, <2>1, <3>1, OneEntryCleared, ClearsEntries
  <2>4. QED
    BY <2>2, <2>3
<1>3. ASSUME NEW f \in Fd, Disconnect(f) PROVE TableOK'
  <2>1. conn' \in [Fd -> {Closed} \cup 0 .. made]
    BY <1>0, <1>3 DEF Disconnect
  <2>2. made' = made /\ session' = session /\ table' = table /\ handler' = handler
    BY <1>3 DEF Disconnect
  <2>3. QED
    BY <1>0, <2>1, <2>2, NoneCleared, ClearsEntries
<1>4. ASSUME NEW f \in Fd, RemoveFd(f) PROVE TableOK'
  <2>1. /\ made' = made /\ session' = session /\ conn' = conn /\ handler' = handler
        /\ table' = [table EXCEPT ![f] = 0]
    BY <1>4 DEF RemoveFd
  <2>2. QED
    BY <1>0, <2>1, OneEntryCleared, ClearsEntries
<1>5. CASE CloseFrame
  <2>1. /\ made' = made /\ session' = session /\ conn' = conn /\ handler' = Waiting
        /\ table' = [table EXCEPT ![handler.fd] = 0]
    BY <1>5 DEF CloseFrame
  <2>2. QED
    BY <1>0, <2>1, OneEntryCleared, ClearsEntries
<1>6. CASE FrameFails
  <2>1. /\ made' = made /\ session' = session /\ table' = table /\ handler' = Waiting
        /\ conn' = [conn EXCEPT ![handler.fd] = Closed]
    BY <1>6 DEF FrameFails
  <2>2. conn' = [f \in Fd |-> IF f = handler.fd THEN Closed ELSE conn[f]]
    BY <1>0, <2>1
  <2>3. conn' \in [Fd -> {Closed} \cup 0 .. made]
    BY <1>0, <2>2
  <2>4. QED
    BY <1>0, <2>1, <2>3, NoneCleared, ClearsEntries
<1>7. ASSUME NEW accepted \in BOOLEAN, CheckInput(accepted) PROVE TableOK'
  <2>1. made' = made /\ session' = session /\ table' = table /\ conn' = conn
    BY <1>7 DEF CheckInput
  <2>2. handler' \in HandlerType(made)
    BY <1>0, <1>7 DEF CheckInput, HandlerType
  <2>3. QED
    BY <1>0, <2>1, <2>2, NoneCleared, ClearsEntries
<1>8. CASE WriteInput
  <2>1. /\ made' = made /\ session' = session /\ table' = table /\ conn' = conn
        /\ handler' = Waiting
    BY <1>8 DEF WriteInput
  <2>2. QED
    BY <1>0, <2>1, NoneCleared, ClearsEntries
<1>9. CASE ClearFds
  <2>1. /\ made' = made /\ session' = session /\ conn' = conn /\ handler' = handler
        /\ table' = ClearedTable
    BY <1>9 DEF ClearFds
  <2>2. QED
    BY <1>0, <2>1, AllCleared, ClearsEntries
<1>10. QED
  BY <1>1, <1>2, <1>3, <1>4, <1>5, <1>6, <1>7, <1>8, <1>9 DEF Terminal, HandlerGoesOn

LEMMA NextTableOK == TableOK /\ [Next]_vars => TableOK'
<1> SUFFICES ASSUME TableOK, [Next]_vars
             PROVE  TableOK'
  OBVIOUS
<1>0. /\ made \in Nat /\ Waiting \in HandlerType(made) /\ handler \in HandlerType(made)
      /\ conn \in [Fd -> {Closed} \cup 0 .. made]
  BY IdleHandlerType, SessionAssumption DEF TableOK, HandlerType
<1>1. ASSUME UNCHANGED <<made, table, conn, handler>>, session' = session \/ session' = 0
      PROVE  TableOK'
  BY <1>0, <1>1, NoneCleared, ClearsEntries
<1>2. ASSUME NEW t \in 0 .. made, Request(t) PROVE TableOK'
  <2>1. CASE OpenTerminal(t)
    <3>1. /\ made' = made + 1 /\ session' = made + 1 /\ made < MaxTokens
          /\ UNCHANGED <<table, conn, handler>>
      BY <2>1 DEF OpenTerminal
    <3>2. made' \in 0 .. MaxTokens /\ session' \in 0 .. made' /\ 0 .. made \subseteq 0 .. made'
      BY <1>0, <3>1, SessionAssumption
    <3>3. Registered' = Registered
      BY <3>1 DEF Registered
    <3>4. QED
      BY <3>1, <3>2, <3>3 DEF TableOK
  <2>2. CASE ~OpenTerminal(t)
    BY <1>1, <1>2, <2>2 DEF Request, Logout, RequestLock, Rotate
  <2>3. QED
    BY <2>1, <2>2
<1>3. CASE Restart
  <2>1. /\ made' = made /\ session' = 0 /\ handler' = Waiting
        /\ conn' = [f \in Fd |-> Closed]
        /\ table' = ClearedTable
    BY <1>3 DEF Restart
  <2>2. conn' \in [Fd -> {Closed} \cup 0 .. made]
    BY <2>1
  <2>3. QED
    BY <1>0, <2>1, <2>2, AllCleared, ClearsEntries
<1>4. CASE ResetStatus
  <2>1. /\ made' = made /\ session' = session /\ handler' = handler /\ conn' = conn
        /\ table' = ClearedTable
    BY <1>4 DEF ResetStatus
  <2>2. QED
    BY <1>0, <2>1, AllCleared, ClearsEntries
<1>5. CASE \/ SetServer \/ Expire \/ Tap \/ DoWork \/ UNCHANGED vars
           \/ \E queued \in BOOLEAN : QueueTap(queued)
  BY <1>1, <1>5 DEF SetServer, Expire, Tap, DoWork, QueueTap, vars
<1>6. QED
  BY <1>2, <1>3, <1>4, <1>5, TerminalTableOK DEF Next

\* The rest of TypeOK.
QueueOK ==
  /\ web \in {"down", "starting", "ready"}
  /\ {expired, locked, overrun} \subseteq BOOLEAN
  /\ Len(work) <= MaxWork

LEMMA NextQueueOK == LockOK /\ QueueOK /\ [Next]_vars => QueueOK'
<1> SUFFICES ASSUME LockOK, QueueOK, [Next]_vars
             PROVE  QueueOK'
  OBVIOUS
<1>1. web' \in {"down", "starting", "ready"}
  BY DEF QueueOK, Next, SetServer, ResetStatus, Restart, Request, OpenTerminal, Logout,
     RequestLock, Rotate, Expire, Terminal, Connect, Frame, Disconnect, RemoveFd,
     HandlerGoesOn, CloseFrame, FrameFails, WriteInput, CheckInput, ClearFds, Tap,
     QueueTap, DoWork, vars
<1>2. {expired', locked', overrun'} \subseteq BOOLEAN
  BY Zenon DEF QueueOK, Next, SetServer, ResetStatus, Restart, Request, OpenTerminal, Logout,
     RequestLock, Rotate, Expire, Terminal, Connect, Frame, Disconnect, RemoveFd,
     HandlerGoesOn, CloseFrame, FrameFails, WriteInput, CheckInput, ClearFds, Tap,
     QueueTap, DoWork, vars
<1>3. Len(work') <= MaxWork
  <2>1. \/ work' = work \/ work' = <<>>
        \/ work # <<>> /\ work' = Tail(work)
        \/ Len(work) < MaxWork /\ \E w \in {"lock", "unlock"} : work' = Append(work, w)
    BY DEF LockOK, Next, SetServer, ResetStatus, Restart, Request, OpenTerminal, Logout,
       RequestLock, Rotate, Expire, Terminal, Connect, Frame, Disconnect, RemoveFd,
       HandlerGoesOn, CloseFrame, FrameFails, WriteInput, CheckInput, ClearFds, Tap,
       QueueTap, DoWork, vars
  <2>2. Len(work) \in Nat /\ MaxWork \in Nat
    BY SessionAssumption DEF LockOK
  <2>3. QED
    BY <2>1, <2>2, EmptySeq, HeadTailProperties, AppendProperties DEF LockOK, QueueOK
<1>4. QED
  BY <1>1, <1>2, <1>3 DEF QueueOK

\* The table of connections never holds more than its slots, and every token
\* in it was made: for any number of descriptors, slots, sessions and items.
THEOREM TypeCorrect == Spec => []TypeOK
<1>1. Init => LockOK /\ TableOK /\ QueueOK
  <2> SUFFICES ASSUME Init
               PROVE  LockOK /\ TableOK /\ QueueOK
    OBVIOUS
  <2> USE DEF Init, Down
  <2>1. LockOK
    BY NoWork
  <2>2. Registered = {} /\ Cardinality({}) = 0
    BY FS_EmptySet DEF Registered
  <2>3. /\ made = 0 /\ session = 0 /\ 0 \in 0 .. MaxTokens /\ 0 \in 0 .. 0
        /\ table = [f \in Fd |-> 0] /\ conn = [f \in Fd |-> Closed]
    BY SessionAssumption
  <2>4. handler \in HandlerType(0)
    BY IdleHandlerType
  <2>5. table \in [Fd -> 0 .. made] /\ conn \in [Fd -> {Closed} \cup 0 .. made]
    BY <2>3
  <2>6. TableOK
    BY <2>2, <2>3, <2>4, <2>5, SessionAssumption DEF TableOK, HandlerType
  <2>7. QueueOK
    <3>1. Len(work) <= MaxWork
      BY EmptySeq, SessionAssumption
    <3>2. {expired, locked, overrun} \subseteq BOOLEAN
      BY Zenon
    <3>3. web = "down"
      OBVIOUS
    <3>4. QED
      BY <3>1, <3>2, <3>3 DEF QueueOK
  <2>8. QED
    BY <2>1, <2>6, <2>7
<1>2. LockOK /\ TableOK /\ QueueOK => TypeOK
  BY PermitsCounted DEF LockOK, TableOK, QueueOK, TypeOK
<1>3. QED
  BY <1>1, <1>2, NextLockOK, NextTableOK, NextQueueOK, PTL DEF Spec
=============================================================================
