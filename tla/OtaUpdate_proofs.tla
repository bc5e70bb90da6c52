-------------------------- MODULE OtaUpdate_proofs --------------------------
(***************************************************************************)
(* Proofs about OtaUpdate, for every set of images, every size and limit,  *)
(* with and without rollback.                                              *)
(***************************************************************************)
EXTENDS OtaUpdate, TLAPS

\* otadata: at most the selected slot is new or on trial, a new one does not
\* run, and the running one was never struck off.
OtadataOK ==
  /\ \A slot \in Slots :
       /\ state[slot] = "new" => slot = boot /\ slot /= running
       /\ state[slot] = "pending" => slot = boot
  /\ state[running] /= "aborted"
  /\ state[boot] /= "aborted"
  /\ state[boot] = "pending" => state[Other(boot)] = "valid"
  /\ ~Rollback => state = [slot \in Slots |-> "valid"]

\* While an upload is active, the slot it goes to holds the bytes received,
\* and the image that runs is confirmed.
UploadOK ==
  upload.active =>
    /\ ~Unconfirmed
    /\ upload.received = session.written
    /\ session.written = flash[Target].have
    /\ session.written <= session.expected

IInv ==
  /\ TypeOK
  /\ OtadataOK
  /\ UploadOK
  /\ AlwaysBoots
  /\ PendingBootsUpdate
  /\ BusyOnlyWhileReceiving
  /\ UploadBounded

-----------------------------------------------------------------------------
\* The two slots, and the slot that runs as the other one's other.
LEMMA SlotFacts ==
  /\ Slots = {0, 1}
  /\ \A slot \in Slots : Other(slot) \in Slots /\ Other(slot) /= slot
                          /\ Other(Other(slot)) = slot
  /\ \A s1, s2 \in Slots : s1 /= s2 => s1 = Other(s2)
BY DEF Slots, Other

\* Records of well typed fields.
LEMMA RecordTypes ==
  /\ \A b, c \in BOOLEAN : [in_progress |-> b, pending_reboot |-> c] \in StatusType
  /\ \A n, m \in 0..MaxImage : [expected |-> n, written |-> m] \in SessionType
  /\ \A b \in BOOLEAN, n \in 0..MaxImage, t, e \in Nat :
       [active |-> b, received |-> n, timeouts |-> t, elapsed |-> e] \in UploadType
BY Zenon DEF StatusType, SessionType, UploadType

\* What a restart and the end of an upload leave in RAM has its type.
LEMMA Cleared ==
  NoStatus \in StatusType /\ NoSession \in SessionType /\ NoUpload \in UploadType
BY ImageAssumption DEF NoStatus, NoSession, NoUpload, StatusType, SessionType, UploadType

\* The factory image satisfies the invariant.
LEMMA InitIInv == Init => IInv
<1> SUFFICES ASSUME Init
             PROVE  IInv
  OBVIOUS
<1> USE ImageAssumption, TimeAssumption DEF Init
<1>1. TypeOK
  <2>1. flash \in [Slots -> [image : Images \cup {Broken}, have : 0..MaxImage]]
    <3>1. {0, ImageLen} \subseteq 0..MaxImage
      OBVIOUS
    <3>2. QED
      BY <3>1
  <2>2. QED
    BY <2>1, Cleared DEF TypeOK, Slots
<1>2. OtadataOK /\ AlwaysBoots
  BY DEF OtadataOK, AlwaysBoots, Unconfirmed, Verifies, Slots, Other
<1>3. UploadOK /\ PendingBootsUpdate /\ BusyOnlyWhileReceiving /\ UploadBounded
  BY DEF UploadOK, PendingBootsUpdate, BusyOnlyWhileReceiving, UploadBounded,
         NoStatus, NoSession, NoUpload
<1>4. QED
  BY <1>1, <1>2, <1>3 DEF IInv

\* A restart, in whatever state it comes.
LEMMA BootIInv == ASSUME IInv, Boot PROVE IInv'
<1> USE SlotFacts DEF Boot
<1>1. Choice \in Slots /\ Started \in Slots /\ Verifies(Started)
  BY DEF IInv, TypeOK, AlwaysBoots, Choice, Started
<1>2. TypeOK'
  <2>1. state' \in [Slots -> {"valid", "new", "pending", "aborted"}]
    BY DEF IInv, TypeOK, BootState
  <2>2. QED
    BY <1>1, <2>1, Cleared DEF IInv, TypeOK
<1>3. OtadataOK' /\ AlwaysBoots'
  <2>1. AlwaysBoots => Verifies(running)
    BY DEF AlwaysBoots
  <2>2. CASE Rollback /\ state[boot] = "pending"
    <3>1. boot' = Other(boot) /\ running' = Other(boot)
      BY <2>1, <2>2 DEF IInv, TypeOK, AlwaysBoots, Unconfirmed, Choice, Started
    <3>2. state' = [state EXCEPT ![boot] = "aborted"]
      BY <2>2 DEF BootState
    <3>3. QED
      BY <1>1, <2>2, <3>1, <3>2
         DEF IInv, TypeOK, OtadataOK, AlwaysBoots, Unconfirmed, Verifies
  <2>3. CASE Rollback /\ state[boot] = "new"
    <3>1. boot' = boot /\ running = Other(boot) /\ state[running] = "valid"
      BY <2>3 DEF IInv, TypeOK, OtadataOK, Choice
    <3>2. state' = [state EXCEPT ![boot] = "pending"]
      BY <2>3 DEF BootState
    <3>3. QED
      BY <1>1, <2>3, <3>1, <3>2
         DEF IInv, TypeOK, OtadataOK, AlwaysBoots, Unconfirmed, Verifies
  <2>4. CASE ~Rollback \/ state[boot] = "valid"
    <3>1. boot' = boot /\ state' = state
      BY <2>4 DEF IInv, TypeOK, Choice, BootState
    <3>2. running' = boot \/ running' = running
      BY <1>1, <2>1, <3>1 DEF IInv, TypeOK, Choice, Started
    <3>3. QED
      BY <1>1, <2>4, <3>1, <3>2
         DEF IInv, TypeOK, OtadataOK, AlwaysBoots, Unconfirmed, Verifies
  <2>5. QED
    BY <2>2, <2>3, <2>4, RollbackAssumption DEF IInv, TypeOK, OtadataOK
<1>4. UploadOK' /\ PendingBootsUpdate' /\ BusyOnlyWhileReceiving' /\ UploadBounded'
  BY TimeAssumption DEF UploadOK, PendingBootsUpdate, BusyOnlyWhileReceiving, UploadBounded,
     NoStatus, NoSession, NoUpload
<1>5. QED
  BY <1>2, <1>3, <1>4 DEF IInv

\* app_main: only the state of the selected slot changes.
LEMMA MarkValidIInv == ASSUME IInv, MarkValid PROVE IInv'
<1> USE SlotFacts DEF MarkValid
<1>1. TypeOK'
  BY DEF IInv, TypeOK, flashVars, appVars, otaVars, webVars
<1>2. OtadataOK' /\ AlwaysBoots'
  BY DEF IInv, TypeOK, OtadataOK, AlwaysBoots, Unconfirmed, Verifies
<1>3. UploadOK' /\ BusyOnlyWhileReceiving' /\ UploadBounded'
  BY DEF IInv, TypeOK, UploadOK, Unconfirmed, Target, BusyOnlyWhileReceiving,
     UploadBounded, otaVars
<1>4. PendingBootsUpdate'
  BY DEF IInv, TypeOK, PendingBootsUpdate, Target, Choice, Started, Verifies, otaVars
<1>5. QED
  BY <1>1, <1>2, <1>3, <1>4 DEF IInv

-----------------------------------------------------------------------------
\* The start of an upload, well or not, erases the slot that does not run.
LEMMA BeginIInv ==
  ASSUME IInv, NEW image \in Images \cup {Broken}, NEW len \in 0..(MaxImage + 1),
         Begin(image, len) \/ BeginFails(image, len)
  PROVE  IInv'
<1> USE SlotFacts, ImageAssumption
<1>1. len \in 0..MaxImage /\ ~upload.active
  BY DEF Begin, BeginFails, HttpdFree, PolicyEvaluate
<1>2. Target \in Slots /\ Target /= running /\ Target = Other(running)
  BY DEF IInv, TypeOK, Target
<1>3. UNCHANGED <<boot, state, appVars, webVars>>
  BY DEF Begin, BeginFails
<1>4. UNCHANGED flash \/ (~Unconfirmed /\ Erase(image))
  BY DEF Begin, BeginFails
<1>5. TypeOK'
  <2>1. flash' \in [Slots -> [image : Images \cup {Broken}, have : 0..MaxImage]]
    BY <1>4 DEF IInv, TypeOK, Erase
  <2>2. status' \in StatusType /\ session' \in SessionType /\ upload' \in UploadType
    <3>1. CASE Begin(image, len)
      <4>1. upload' = [active |-> TRUE, received |-> 0, timeouts |-> 0, elapsed |-> 0]
        BY <3>1 DEF Begin, NoUpload
      <4>2. 0 \in Nat /\ 0 \in 0..MaxImage
        OBVIOUS
      <4>3. status' \in StatusType /\ session' \in SessionType
        BY <1>1, <3>1, <4>2, RecordTypes DEF Begin
      <4>4. upload' \in UploadType
        BY <4>1, <4>2, RecordTypes
      <4>5. QED
        BY <4>3, <4>4
    <3>2. CASE BeginFails(image, len)
      BY <3>2, Cleared DEF BeginFails, IInv, TypeOK
    <3>3. QED
      BY <3>1, <3>2
  <2>3. QED
    BY <1>3, <2>1, <2>2 DEF IInv, TypeOK, appVars, webVars
<1>6. OtadataOK' /\ AlwaysBoots'
  BY <1>2, <1>3, <1>4
     DEF IInv, TypeOK, OtadataOK, AlwaysBoots, Unconfirmed, Verifies, Erase, appVars
<1>7. UploadOK' /\ PendingBootsUpdate' /\ BusyOnlyWhileReceiving' /\ UploadBounded'
  <2>1. CASE Begin(image, len)
    <3>1. flash'[Target] = [image |-> image, have |-> 0] /\ Target' = Target
      BY <1>2, <2>1 DEF IInv, TypeOK, Begin, Erase, Target, appVars
    <3>2. session' = [expected |-> len, written |-> 0]
          /\ upload' = [NoUpload EXCEPT !.active = TRUE]
          /\ status' = [in_progress |-> TRUE, pending_reboot |-> FALSE]
          /\ ~Unconfirmed /\ ~Unconfirmed'
      BY <2>1 DEF Begin, Unconfirmed, appVars
    <3>3. QED
      BY <1>1, <3>1, <3>2, TimeAssumption
         DEF UploadOK, PendingBootsUpdate, BusyOnlyWhileReceiving, UploadBounded, NoUpload
  <2>2. CASE BeginFails(image, len)
    BY <1>1, <2>2 DEF IInv, BeginFails, UploadOK, PendingBootsUpdate,
       BusyOnlyWhileReceiving, UploadBounded, NoStatus
  <2>3. QED
    BY <2>1, <2>2
<1>8. QED
  BY <1>5, <1>6, <1>7 DEF IInv

\* The handler returns without an image: the flash keeps what it has.
LEMMA AbortIInv ==
  ASSUME IInv, upload.active, UNCHANGED <<flashVars, appVars, webVars>>,
         session' = NoSession, upload' = NoUpload,
         status'.in_progress = FALSE, status'.pending_reboot \in {FALSE, status.pending_reboot},
         status' \in StatusType
  PROVE  IInv'
<1>1. TypeOK'
  BY Cleared DEF IInv, TypeOK, flashVars, appVars, webVars
<1>2. OtadataOK' /\ AlwaysBoots'
  BY DEF IInv, OtadataOK, AlwaysBoots, Unconfirmed, Verifies, flashVars, appVars
<1>3. UploadOK' /\ BusyOnlyWhileReceiving' /\ UploadBounded'
  BY TimeAssumption DEF UploadOK, BusyOnlyWhileReceiving, UploadBounded, NoUpload
<1>4. PendingBootsUpdate'
  <2>1. ~status.pending_reboot
    BY DEF IInv, PendingBootsUpdate, TypeOK, StatusType
  <2>2. QED
    BY <2>1 DEF PendingBootsUpdate
<1>5. QED
  BY <1>1, <1>2, <1>3, <1>4 DEF IInv

\* Bytes arrive in time and fit.
LEMMA ReceiveIInv ==
  ASSUME IInv, NEW got \in 1..MaxImage, NEW time \in 0..RecvTime, Receive(got, time)
  PROVE  IInv'
<1> USE SlotFacts, ImageAssumption, TimeAssumption DEF Receive
<1>1. Target \in Slots /\ Target /= running /\ Target' = Target
  BY DEF IInv, TypeOK, Target, appVars
<1>2. upload.active /\ ~status.pending_reboot
  BY DEF IInv, Receiving, PendingBootsUpdate
<1>3. /\ session.written \in 0..MaxImage /\ session.expected \in 0..MaxImage
      /\ upload.received \in 0..MaxImage /\ upload.elapsed \in Nat
      /\ flash[Target].have = session.written /\ upload.received = session.written
      /\ session.written + got \in 0..MaxImage
  BY <1>1, <1>2 DEF IInv, TypeOK, UploadOK, SessionType, UploadType
<1>4. TypeOK'
  <2>1. flash' \in [Slots -> [image : Images \cup {Broken}, have : 0..MaxImage]]
    BY <1>1, <1>3 DEF IInv, TypeOK
  <2>2. session' = [expected |-> session.expected, written |-> session.written + got]
    BY DEF IInv, TypeOK, SessionType
  <2>3. upload' = [active |-> upload.active, received |-> upload.received + got,
                   timeouts |-> 0, elapsed |-> upload.elapsed + time]
    BY DEF IInv, TypeOK, UploadType
  <2>4. session' \in SessionType /\ upload' \in UploadType
    <3>1. upload.active \in BOOLEAN
      BY DEF IInv, TypeOK, UploadType
    <3>2. 0 \in Nat /\ upload.elapsed + time \in Nat /\ upload.received + got \in 0..MaxImage
      BY <1>3
    <3> HIDE DEF Receive
    <3>3. session' \in SessionType
      BY <1>3, <2>2, RecordTypes, Zenon
    <3>4. upload' \in UploadType
      BY <2>3, <3>1, <3>2, RecordTypes, Zenon
    <3>5. QED
      BY <3>3, <3>4
  <2>5. QED
    BY <2>1, <2>4 DEF IInv, TypeOK, appVars, webVars
<1>5. OtadataOK' /\ AlwaysBoots'
  BY <1>1, <1>2 DEF IInv, TypeOK, OtadataOK, UploadOK, AlwaysBoots, Unconfirmed, Verifies, appVars
<1>6. UploadOK' /\ BusyOnlyWhileReceiving'
  BY <1>1, <1>2, <1>3 DEF IInv, TypeOK, UploadOK, Unconfirmed, BusyOnlyWhileReceiving,
     SessionType, UploadType, appVars
<1>7. PendingBootsUpdate' /\ UploadBounded'
  BY <1>2, <1>3 DEF IInv, TypeOK, PendingBootsUpdate, UploadBounded, DeadlineExceeded, UploadType
<1>8. QED
  BY <1>4, <1>5, <1>6, <1>7 DEF IInv

\* Nothing arrives for RecvTime.
LEMMA RecvTimeoutIInv == ASSUME IInv, RecvTimeout PROVE IInv'
<1>1. CASE upload.timeouts + 1 >= RecvTimeoutLimit
  BY <1>1, AbortIInv DEF RecvTimeout, Receiving, Abort, IInv, TypeOK, StatusType
<1>2. CASE ~(upload.timeouts + 1 >= RecvTimeoutLimit)
  <2>1. /\ upload' = [upload EXCEPT !.timeouts = upload.timeouts + 1,
                                    !.elapsed = @ + RecvTime]
        /\ UNCHANGED <<status, session, flashVars, appVars, webVars>>
        /\ upload \in UploadType /\ ~DeadlineExceeded
    BY <1>2 DEF RecvTimeout, IInv, TypeOK
  <2>2. upload' = [active |-> upload.active, received |-> upload.received,
                   timeouts |-> upload.timeouts + 1, elapsed |-> upload.elapsed + RecvTime]
    BY <2>1 DEF UploadType
  <2>3. upload' \in UploadType /\ UploadBounded'
    <3>1. upload.elapsed \in Nat /\ upload.timeouts \in Nat /\ upload.elapsed <= Deadline
      BY <2>1, TimeAssumption DEF UploadType, DeadlineExceeded
    <3>2. QED
      BY <2>1, <2>2, <3>1, TimeAssumption DEF UploadType, UploadBounded
  <2>4. QED
    BY <2>1, <2>2, <2>3
       DEF IInv, TypeOK, OtadataOK, UploadOK, AlwaysBoots, PendingBootsUpdate,
           BusyOnlyWhileReceiving, Unconfirmed, Verifies, Target, Choice, Started,
           flashVars, appVars, webVars
<1>3. QED
  BY <1>1, <1>2

\* The image verified and is selected.
LEMMA FinishIInv == ASSUME IInv, Finish PROVE IInv'
<1> USE SlotFacts, RollbackAssumption DEF Finish
<1>1. Target \in Slots /\ Target = Other(running) /\ Target' = Target /\ ~Unconfirmed
  BY DEF IInv, TypeOK, UploadOK, Target, appVars
<1>2. TypeOK'
  BY <1>1, Cleared DEF IInv, TypeOK, StatusType, appVars, webVars
<1>3. OtadataOK' /\ AlwaysBoots'
  BY <1>1 DEF IInv, TypeOK, OtadataOK, AlwaysBoots, Unconfirmed, Verifies, appVars
<1>4. PendingBootsUpdate'
  BY <1>1 DEF IInv, TypeOK, OtadataOK, PendingBootsUpdate, Choice, Started, Verifies,
     NoUpload
<1>5. UploadOK' /\ BusyOnlyWhileReceiving' /\ UploadBounded'
  BY TimeAssumption DEF UploadOK, BusyOnlyWhileReceiving, UploadBounded, NoUpload
<1>6. QED
  BY <1>2, <1>3, <1>4, <1>5 DEF IInv

\* Every step keeps the invariant.
LEMMA NextIInv == IInv /\ [Next]_vars => IInv'
<1> SUFFICES ASSUME IInv, [Next]_vars
             PROVE  IInv'
  OBVIOUS
<1>1. CASE Reset \/ RebootTask
  BY <1>1, BootIInv DEF Reset, RebootTask
<1>2. CASE StartWeb \/ NotMarked
  BY <1>2 DEF StartWeb, NotMarked, IInv, TypeOK, OtadataOK, UploadOK, AlwaysBoots,
     PendingBootsUpdate, BusyOnlyWhileReceiving, UploadBounded, Unconfirmed,
     Verifies, Target, Choice, Started, flashVars, otaVars, webVars
<1>3. CASE MarkValid
  BY <1>3, MarkValidIInv
<1>4. CASE Upload
  <2>1. ASSUME NEW image \in Images \cup {Broken}, NEW len \in 0..(MaxImage + 1),
               Begin(image, len) \/ BeginFails(image, len)
        PROVE  IInv'
    BY <2>1, BeginIInv
  <2>2. ASSUME NEW got \in 1..MaxImage, NEW time \in 0..RecvTime, Receive(got, time)
        PROVE  IInv'
    BY <2>2, ReceiveIInv
  <2>3. CASE GiveUp
    BY <2>3, AbortIInv DEF GiveUp, Receiving, Abort, IInv, TypeOK, StatusType
  <2>4. CASE RecvTimeout
    BY <2>4, RecvTimeoutIInv
  <2>5. CASE Finish
    BY <2>5, FinishIInv
  <2>6. CASE FinishFails
    BY <2>6, AbortIInv, Cleared DEF FinishFails, NoStatus
  <2>7. QED
    BY <1>4, <2>1, <2>2, <2>3, <2>4, <2>5, <2>6 DEF Upload
<1>5. CASE Import \/ Rotate \/ RequestReboot \/ UNCHANGED vars
  <2>1. /\ UNCHANGED <<flashVars, appVars, otaVars>>
        /\ credPending' \in {TRUE, credPending}
        /\ rebooting' \in {TRUE, rebooting}
    BY <1>5, Zenon DEF Import, Rotate, RequestReboot, vars, webVars
  <2>2. TypeOK'
    BY <2>1 DEF IInv, TypeOK, flashVars, appVars, otaVars
  <2>3. OtadataOK' /\ UploadOK' /\ AlwaysBoots' /\ PendingBootsUpdate'
    BY <2>1 DEF IInv, OtadataOK, UploadOK, AlwaysBoots, PendingBootsUpdate,
       Unconfirmed, Verifies, Target, Choice, Started, flashVars, appVars, otaVars
  <2>4. BusyOnlyWhileReceiving' /\ UploadBounded'
    BY <2>1 DEF IInv, BusyOnlyWhileReceiving, UploadBounded, otaVars
  <2>5. QED
    BY <2>2, <2>3, <2>4 DEF IInv
<1>6. QED
  BY <1>1, <1>2, <1>3, <1>4, <1>5 DEF Next

LEMMA InvariantHolds == Spec => []IInv
BY InitIInv, NextIInv, PTL DEF Spec

\* The fields keep their types; a slot never holds more than fits.
THEOREM TypeCorrect == Spec => []TypeOK
BY InvariantHolds, PTL DEF IInv

\* At every moment at which power may be cut there is a complete image, and
\* one to go back to while the running image is on trial.
THEOREM DeviceAlwaysBoots == Spec => []AlwaysBoots
BY InvariantHolds, PTL DEF IInv

\* A restart that is reported as pending starts the image that was accepted.
THEOREM PendingMeansNewImage == Spec => []PendingBootsUpdate
BY InvariantHolds, PTL DEF IInv

\* No exit of the upload handler leaves ota_update busy.
THEOREM UploadsReleaseUpdate == Spec => []BusyOnlyWhileReceiving
BY InvariantHolds, PTL DEF IInv

\* No client holds the upload handler beyond the deadline and one receive.
THEOREM UploadsAreBounded == Spec => []UploadBounded
BY InvariantHolds, PTL DEF IInv

-----------------------------------------------------------------------------
\* In a state of the invariant both images of the abstract state are complete,
\* and unless the boot loader was told to start the other slot, it starts the
\* running one or the one before.
LEMMA MappedTypes ==
  ASSUME IInv
  PROVE  /\ running \in Slots /\ Started \in Slots
         /\ flash[running].image \in Images
         /\ flash[Started].image \in Images
         /\ Verifies(Started)
BY SlotFacts DEF IInv, TypeOK, AlwaysBoots, Verifies, Choice, Started

LEMMA InitRefines == Init => BI!Init
<1> SUFFICES ASSUME Init
             PROVE  BI!Init
  OBVIOUS
<1>1. Choice = 0
  BY SlotFacts DEF Init, Choice
<1>2. Started = 0
  BY <1>1, ImageAssumption DEF Init, Started, Verifies
<1>3. QED
  BY <1>2 DEF Init, BI!Init, NoStatus

\* A restart is one of the abstract device.
LEMMA BootRefines == ASSUME IInv, IInv', Boot PROVE BI!Restart
<1> USE SlotFacts DEF Boot
<1>1. running \in Slots /\ running' \in Slots /\ boot \in Slots /\ boot' \in Slots
      /\ Started \in Slots /\ Started' \in Slots
  BY MappedTypes, BootIInv DEF IInv, TypeOK, Choice, Started
<1>2. flash[running].image' = flash[Started].image
  BY <1>1
<1>3. flash[Started].image' \in {flash[Started].image, flash[running].image}
  <2>1. CASE Started = running
    <3>1. CASE Started' = running
      BY <2>1, <3>1
    <3>2. CASE Started' /= running
      BY <1>1, <2>1, <3>2 DEF IInv, TypeOK, OtadataOK, AlwaysBoots, Unconfirmed,
         Verifies, Choice, Started, BootState
    <3>3. QED
      BY <3>1, <3>2
  <2>2. CASE Started /= running
    BY <1>1, <2>2
  <2>3. QED
    BY <2>1, <2>2
<1>4. (boot /= running)' \in {boot /= running, FALSE}
  <2>1. CASE boot = running
    <3>1. Verifies(Choice)
      BY <1>1, <2>1 DEF IInv, TypeOK, OtadataOK, AlwaysBoots, Unconfirmed, Choice
    <3>2. boot' = running'
      BY <3>1 DEF Started
    <3>3. QED
      BY <3>2
  <2>2. CASE boot /= running
    BY <2>2, Zenon
  <2>3. QED
    BY <2>1, <2>2
<1>5. QED
  BY <1>2, <1>3, <1>4 DEF BI!Restart, NoStatus

\* Writing to the slot that does not run: when it is selected, the abstract
\* device replaces what it offered; when it is not, it sees nothing.
LEMMA UploadRefines ==
  ASSUME IInv, IInv', UNCHANGED <<running, boot, state>>, status'.pending_reboot = FALSE,
         flash'[running] = flash[running], ~Unconfirmed
  PROVE  [BI!Next]_BI!vars
<1> USE SlotFacts
<1>1. /\ running \in Slots /\ running' = running /\ boot \in Slots /\ boot' = boot
      /\ flash[Started].image \in Images /\ flash'[Started'].image \in Images
      /\ state \in [Slots -> {"valid", "new", "pending", "aborted"}]
  BY MappedTypes DEF IInv, TypeOK, AlwaysBoots, Verifies, Choice, Started
<1>2. CASE boot /= running
  BY <1>1, <1>2 DEF BI!Next, BI!Replace
<1>3. CASE boot = running
  <2>1. Choice = running /\ Choice' = running
    BY <1>1, <1>3, RollbackAssumption DEF IInv, OtadataOK, Unconfirmed, Choice
  <2>2. Started = running /\ Started' = running
    BY <1>1, <2>1 DEF IInv, AlwaysBoots, Verifies, Started
  <2>3. ~status.pending_reboot
    BY <1>1, <1>3 DEF IInv, PendingBootsUpdate, Target
  <2>4. status.pending_reboot = FALSE
    BY <2>3 DEF IInv, TypeOK, StatusType
  <2>5. QED
    BY <1>1, <1>3, <2>2, <2>4 DEF BI!vars
<1>4. QED
  BY <1>2, <1>3

\* What the call that confirms the image does for the abstract device.
LEMMA MarkValidRefines == ASSUME IInv, IInv', MarkValid PROVE [BI!Next]_BI!vars
<1> USE SlotFacts DEF MarkValid
<1>1. /\ running \in Slots /\ running' = running /\ boot \in Slots /\ boot' = boot
      /\ flash' = flash /\ status' = status
      /\ flash[Started].image \in Images /\ flash'[Started'].image \in Images
      /\ status.pending_reboot \in BOOLEAN
  BY MappedTypes DEF IInv, TypeOK, AlwaysBoots, Verifies, Choice, Started, StatusType, otaVars
<1>2. state' = [state EXCEPT ![boot] = "valid"] /\ Choice' = boot
  BY <1>1 DEF IInv, TypeOK, Choice
<1>3. CASE boot = running
  <2>1. Started' = running
    BY <1>1, <1>2, <1>3 DEF IInv, AlwaysBoots, Verifies, Started
  <2>2. QED
    BY <1>1, <1>3, <2>1 DEF BI!Next, BI!Confirm
<1>4. CASE boot /= running /\ status.pending_reboot = FALSE
  BY <1>1, <1>4 DEF BI!Next, BI!Replace
<1>5. CASE status.pending_reboot = TRUE
  <2>1. Started = boot /\ Started' = boot
    BY <1>1, <1>5 DEF IInv, PendingBootsUpdate
  <2>2. QED
    BY <1>1, <2>1 DEF BI!vars
<1>6. QED
  BY <1>1, <1>3, <1>4, <1>5

\* Every step is one of the abstract device, or one it does not see.
LEMMA NextRefines == IInv /\ IInv' /\ [Next]_vars => [BI!Next]_BI!vars
<1> SUFFICES ASSUME IInv, IInv', [Next]_vars
             PROVE  [BI!Next]_BI!vars
  OBVIOUS
<1> USE SlotFacts
<1>1. CASE Reset \/ RebootTask
  BY <1>1, BootRefines DEF Reset, RebootTask, BI!Next
<1>2. CASE MarkValid
  BY <1>2, MarkValidRefines
<1>3. CASE StartWeb \/ NotMarked \/ Import \/ Rotate \/ RequestReboot \/ UNCHANGED vars
  <2>1. UNCHANGED <<flash, boot, state, running, status>>
    BY <1>3 DEF StartWeb, NotMarked, Import, Rotate, RequestReboot, vars,
       flashVars, appVars, otaVars, webVars
  <2>2. QED
    BY <2>1 DEF BI!vars, Started, Choice, Verifies
<1>4. CASE Upload
  <2>1. ASSUME NEW image \in Images \cup {Broken}, NEW len \in 0..(MaxImage + 1),
               Begin(image, len) \/ BeginFails(image, len)
        PROVE  [BI!Next]_BI!vars
    <3>1. UNCHANGED <<running, boot, state>> /\ status'.pending_reboot = FALSE
      BY <2>1 DEF Begin, BeginFails, NoStatus, appVars
    <3>2. CASE ~Unconfirmed
      <4>1. flash'[running] = flash[running]
        BY <2>1 DEF Begin, BeginFails, Erase, Target, IInv, TypeOK
      <4>2. QED
        BY <3>1, <3>2, <4>1, UploadRefines
    <3>3. CASE Unconfirmed
      <4>1. UNCHANGED flash
        BY <2>1, <3>3 DEF Begin, BeginFails
      <4>2. ~status.pending_reboot
        BY <3>3 DEF IInv, TypeOK, OtadataOK, PendingBootsUpdate, Unconfirmed, Target
      <4>3. status.pending_reboot = FALSE
        BY <4>2 DEF IInv, TypeOK, StatusType
      <4>4. QED
        BY <3>1, <4>1, <4>3 DEF BI!vars, Started, Choice, Verifies
    <3>4. QED
      BY <3>2, <3>3
  <2>2. ASSUME NEW got \in 1..MaxImage, NEW time \in 0..RecvTime,
               Receive(got, time) \/ GiveUp \/ RecvTimeout \/ FinishFails
        PROVE  [BI!Next]_BI!vars
    <3>1. upload.active /\ UNCHANGED <<running, boot, state>>
      BY <2>2 DEF Receive, GiveUp, RecvTimeout, FinishFails, Receiving, flashVars, appVars
    <3>2. ~Unconfirmed /\ ~status.pending_reboot /\ flash'[running] = flash[running]
      BY <2>2, <3>1 DEF Receive, GiveUp, RecvTimeout, FinishFails, flashVars,
         IInv, TypeOK, UploadOK, PendingBootsUpdate, Target
    <3>3. status.pending_reboot = FALSE
      BY <3>2 DEF IInv, TypeOK, StatusType
    <3>4. status' = status \/ status' = NoStatus
          \/ status' = [status EXCEPT !.in_progress = FALSE]
      BY <2>2 DEF Receive, GiveUp, RecvTimeout, FinishFails, Abort
    <3>5. status'.pending_reboot = FALSE
      BY <3>3, <3>4 DEF NoStatus, IInv, TypeOK, StatusType
    <3>6. QED
      BY <3>1, <3>2, <3>5, UploadRefines
  <2>3. CASE Finish
    <3>1. status'.pending_reboot = TRUE /\ boot' = Target /\ running' = running
      BY <2>3 DEF Finish, appVars
    <3>2. flash'[running'] = flash[running] /\ Target /= running
      BY <2>3 DEF Finish, IInv, TypeOK, Target, appVars
    <3>3. flash'[Started'].image \in Images
      BY DEF IInv, TypeOK, AlwaysBoots, Verifies, Choice, Started
    <3>4. QED
      BY <3>1, <3>2, <3>3 DEF BI!Next, BI!Accept
  <2>4. QED
    <3>1. CASE \E got \in 1..MaxImage, time \in 0..RecvTime : Receive(got, time)
      BY <3>1, <2>2
    <3>2. CASE GiveUp \/ RecvTimeout \/ FinishFails
      <4>1. 1 \in 1..MaxImage /\ 0 \in 0..RecvTime
        BY ImageAssumption, TimeAssumption
      <4>2. QED
        BY <3>2, <4>1, <2>2
    <3>3. QED
      BY <1>4, <2>1, <2>3, <3>1, <3>2 DEF Upload
<1>5. QED
  BY <1>1, <1>2, <1>3, <1>4 DEF Next

\* Slots, sessions and failing uploads implement the device of BootImage.
THEOREM UpdateImplementsBootImage == Spec => ImplementsBootImage
BY InitRefines, NextRefines, InvariantHolds, PTL DEF ImplementsBootImage, Spec, BI!Spec

=============================================================================
