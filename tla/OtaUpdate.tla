------------------------------ MODULE OtaUpdate ------------------------------
(***************************************************************************)
(* Firmware update over HTTP: ota_update.c, its policy, the upload and     *)
(* reboot handlers of web_server.c, the restart task and the place in      *)
(* app_main that confirms the running image. Two slots, uploads that fail  *)
(* anywhere, restarts at any time. The partitions, the record of the boot  *)
(* choice and the boot loader belong to ESP-IDF.                           *)
(***************************************************************************)
EXTENDS Integers

CONSTANTS
  Images,             \* contents that verify when complete
  Broken,             \* a content that never verifies
  ImageLen,           \* bytes of a complete image
  MaxImage,           \* OTA_UPDATE_MAX_IMAGE_BYTES
  RecvTimeoutLimit,   \* OTA_UPDATE_RECV_TIMEOUT_LIMIT
  Deadline,           \* OTA_UPDATE_UPLOAD_DEADLINE_MS, in units of time
  RecvTime,           \* longest httpd_req_recv, in the same units
  Rollback            \* CONFIG_BOOTLOADER_APP_ROLLBACK_ENABLE

ASSUME ImageAssumption ==
  /\ ImageLen \in Nat \ {0}
  /\ MaxImage \in Nat
  /\ ImageLen <= MaxImage
  /\ Broken \notin Images

ASSUME TimeAssumption ==
  /\ RecvTimeoutLimit \in Nat
  /\ Deadline \in Nat
  /\ RecvTime \in Nat

ASSUME RollbackAssumption == Rollback \in BOOLEAN

VARIABLES
  flash,        \* per slot: whose bytes it holds, and how many of them
  running,      \* the slot the boot loader started
  boot,         \* the slot otadata selects
  state,        \* otadata's state of each slot
  phase,        \* how far app_main has come
  serving,      \* the web server has started
  status,       \* s_status: in_progress, pending_reboot
  session,      \* s_session: expected_bytes and written_bytes
  upload,       \* ota_upload_handler: in its loop, received, timeouts, time
  credPending,  \* s_credential_reboot_pending
  rebooting     \* reboot_task waits for its delay to pass

flashVars == <<flash, boot, state>>
appVars   == <<running, phase, serving>>
otaVars   == <<status, session, upload>>
webVars   == <<credPending, rebooting>>
vars == <<flashVars, appVars, otaVars, webVars>>

Slots == {0, 1}
Other(slot) == 1 - slot
Verifies(slot) == flash[slot].image \in Images /\ flash[slot].have >= ImageLen

StatusType == [in_progress : BOOLEAN, pending_reboot : BOOLEAN]
SessionType == [expected : 0..MaxImage, written : 0..MaxImage]
UploadType == [active : BOOLEAN, received : 0..MaxImage,
                timeouts : Nat, elapsed : Nat]

NoStatus == [in_progress |-> FALSE, pending_reboot |-> FALSE]
NoSession == [expected |-> 0, written |-> 0]
NoUpload == [active |-> FALSE, received |-> 0, timeouts |-> 0, elapsed |-> 0]

\* The factory image is in slot 0; slot 1 was never written.
Init ==
  /\ flash \in [Slots -> [image : Images \cup {Broken}, have : {0, ImageLen}]]
  /\ flash[0].image \in Images /\ flash[0].have = ImageLen
  /\ flash[1].image = Broken /\ flash[1].have = 0
  /\ running = 0
  /\ boot = 0
  /\ state = [slot \in Slots |-> "valid"]
  /\ phase = "booting"
  /\ serving = FALSE
  /\ status = NoStatus
  /\ session = NoSession
  /\ upload = NoUpload
  /\ credPending = FALSE
  /\ rebooting = FALSE

-----------------------------------------------------------------------------
(* The boot loader and otadata (external). *)

\* The selected slot, unless rollback has struck it off.
Choice ==
  IF Rollback /\ state[boot] \in {"pending", "aborted"} THEN Other(boot) ELSE boot

\* The boot loader skips an image that does not verify.
Started == IF Verifies(Choice) THEN Choice ELSE Other(Choice)

\* With rollback, a new image may start once before it has to be confirmed.
BootState ==
  IF ~Rollback THEN state
  ELSE CASE state[boot] = "pending" -> [state EXCEPT ![boot] = "aborted"]
         [] state[boot] = "new"     -> [state EXCEPT ![boot] = "pending"]
         [] OTHER                   -> state

Boot ==
  /\ running' = Started
  /\ boot' = Choice
  /\ state' = BootState
  /\ phase' = "booting"
  /\ serving' = FALSE
  /\ status' = NoStatus
  /\ session' = NoSession
  /\ upload' = NoUpload
  /\ credPending' = FALSE
  /\ rebooting' = FALSE
  /\ UNCHANGED flash

\* Power is cut, the image crashes, or another part restarts the device.
Reset == Boot

-----------------------------------------------------------------------------
(* app_main *)

\* WiFi is up and web_server_start returns, well or not.
StartWeb ==
  /\ phase = "booting"
  /\ phase' = "started"
  /\ serving' \in BOOLEAN
  /\ UNCHANGED <<running, flashVars, otaVars, webVars>>

\* esp_ota_mark_app_valid_cancel_rollback confirms what otadata selects.
MarkValid ==
  /\ phase = "started"
  /\ phase' = "done"
  /\ state' = [state EXCEPT ![boot] = "valid"]
  /\ UNCHANGED <<running, serving, flash, boot, otaVars, webVars>>

\* The bridge did not start, or the call failed.
NotMarked ==
  /\ phase = "started"
  /\ phase' = "done"
  /\ UNCHANGED <<running, serving, flashVars, otaVars, webVars>>

-----------------------------------------------------------------------------
(* The upload handler. httpd runs one handler at a time. *)

HttpdFree == serving /\ ~upload.active

\* Variant: the slot to write is the one that is selected.
TargetOfBoot == boot

\* esp_ota_get_next_update_partition(NULL)
Target == Other(running)

PolicyEvaluate(len) ==
  CASE status.in_progress -> "busy"
    [] len = 0            -> "empty"
    [] len > MaxImage     -> "too_large"
    [] OTHER              -> "accept"

\* esp_ota_begin refuses while the running image waits to be confirmed.
Unconfirmed == Rollback /\ state[running] = "pending"

Erase(image) == flash' = [flash EXCEPT ![Target] = [image |-> image, have |-> 0]]

\* Variant: a new upload leaves the report of the one before.
BeginKeepsPending(image, len) ==
  /\ HttpdFree
  /\ PolicyEvaluate(len) = "accept"
  /\ ~Unconfirmed
  /\ Erase(image)
  /\ status' = [status EXCEPT !.in_progress = TRUE]
  /\ session' = [expected |-> len, written |-> 0]
  /\ upload' = [NoUpload EXCEPT !.active = TRUE]
  /\ UNCHANGED <<boot, state, appVars, webVars>>

\* Variant: the slot is selected before it is written.
BeginSelects(image, len) ==
  /\ HttpdFree
  /\ PolicyEvaluate(len) = "accept"
  /\ ~Unconfirmed
  /\ Erase(image)
  /\ boot' = Target
  /\ status' = [in_progress |-> TRUE, pending_reboot |-> FALSE]
  /\ session' = [expected |-> len, written |-> 0]
  /\ upload' = [NoUpload EXCEPT !.active = TRUE]
  /\ UNCHANGED <<state, appVars, webVars>>

Begin(image, len) ==
  /\ HttpdFree
  /\ PolicyEvaluate(len) = "accept"
  /\ ~Unconfirmed
  /\ Erase(image)
  /\ status' = [in_progress |-> TRUE, pending_reboot |-> FALSE]
  /\ session' = [expected |-> len, written |-> 0]
  /\ upload' = [NoUpload EXCEPT !.active = TRUE]
  /\ UNCHANGED <<boot, state, appVars, webVars>>

\* No memory, no confirmation, or the partition could not be erased.
BeginFails(image, len) ==
  /\ HttpdFree
  /\ PolicyEvaluate(len) = "accept"
  /\ \/ UNCHANGED flash
     \/ ~Unconfirmed /\ Erase(image)
  /\ status' = NoStatus
  /\ UNCHANGED <<boot, state, appVars, session, upload, webVars>>

\* Variant: only silence counts.
DeadlineOfSilence == upload.timeouts * RecvTime > Deadline

DeadlineExceeded == upload.elapsed > Deadline

\* Variant: the abort forgets the flag.
AbortKeepsBusy ==
  /\ session' = NoSession
  /\ upload' = NoUpload
  /\ UNCHANGED status

\* ota_update_abort, and the handler returns.
Abort ==
  /\ status' = [status EXCEPT !.in_progress = FALSE]
  /\ session' = NoSession
  /\ upload' = NoUpload

Receiving ==
  /\ upload.active
  /\ upload.received < session.expected

\* The head of the loop: later than the deadline, or httpd_req_recv fails.
GiveUp ==
  /\ Receiving
  /\ Abort
  /\ UNCHANGED <<flashVars, appVars, webVars>>

RecvTimeout ==
  /\ Receiving
  /\ ~DeadlineExceeded
  /\ LET timeouts == upload.timeouts + 1
     IN  IF timeouts >= RecvTimeoutLimit
         THEN Abort
         ELSE /\ upload' = [upload EXCEPT !.timeouts = timeouts,
                                          !.elapsed = @ + RecvTime]
              /\ UNCHANGED <<status, session>>
  /\ UNCHANGED <<flashVars, appVars, webVars>>

\* Variant: the buffer is filled and written whatever the body's length is.
ReceiveUnlimited(got, time) ==
  /\ Receiving
  /\ ~DeadlineExceeded
  /\ flash' = [flash EXCEPT ![Target].have = @ + got]
  /\ session' = [session EXCEPT !.written = @ + got]
  /\ upload' = [upload EXCEPT !.received = @ + got, !.timeouts = 0,
                              !.elapsed = @ + time]
  /\ UNCHANGED <<boot, state, appVars, status, webVars>>

\* ota_update_write of the got bytes that arrived after a while.
Receive(got, time) ==
  /\ Receiving
  /\ ~DeadlineExceeded
  /\ got <= session.expected - upload.received
  /\ session.written + got <= session.expected
  /\ flash' = [flash EXCEPT ![Target].have = @ + got]
  /\ session' = [session EXCEPT !.written = @ + got]
  /\ upload' = [upload EXCEPT !.received = @ + got, !.timeouts = 0,
                              !.elapsed = @ + time]
  /\ UNCHANGED <<boot, state, appVars, status, webVars>>

\* ota_update_finish: esp_ota_end, then esp_ota_set_boot_partition.
Finish ==
  /\ upload.active
  /\ upload.received = session.expected
  /\ session.written = session.expected
  /\ Verifies(Target)
  /\ boot' = Target
  /\ state' = IF Rollback THEN [state EXCEPT ![Target] = "new"] ELSE state
  /\ status' = [in_progress |-> FALSE, pending_reboot |-> TRUE]
  /\ session' = NoSession
  /\ upload' = NoUpload
  /\ UNCHANGED <<flash, appVars, webVars>>

\* The length is wrong, or one of the two calls fails.
FinishFails ==
  /\ upload.active
  /\ upload.received = session.expected
  /\ status' = NoStatus
  /\ session' = NoSession
  /\ upload' = NoUpload
  /\ UNCHANGED <<flashVars, appVars, webVars>>

-----------------------------------------------------------------------------
(* Restarts on request. *)

\* config_import_handler saves a configuration.
Import ==
  /\ HttpdFree
  /\ credPending' = TRUE
  /\ UNCHANGED <<flashVars, appVars, otaVars, rebooting>>

\* credentials_rotate_handler ends in a restart of its own.
Rotate ==
  /\ HttpdFree
  /\ rebooting' = TRUE
  /\ UNCHANGED <<flashVars, appVars, otaVars, credPending>>

RebootAllowed == status.pending_reboot /\ ~status.in_progress

\* reboot_handler makes a task that restarts after 250 ms.
RequestReboot ==
  /\ HttpdFree
  /\ RebootAllowed \/ credPending
  /\ rebooting' = TRUE
  /\ UNCHANGED <<flashVars, appVars, otaVars, credPending>>

RebootTask == rebooting /\ Boot

-----------------------------------------------------------------------------
Upload ==
  \/ \E image \in Images \cup {Broken}, len \in 0..(MaxImage + 1) :
       Begin(image, len) \/ BeginFails(image, len)
  \/ \E got \in 1..MaxImage, time \in 0..RecvTime : Receive(got, time)
  \/ GiveUp
  \/ RecvTimeout
  \/ Finish
  \/ FinishFails

Next ==
  \/ Reset
  \/ StartWeb
  \/ MarkValid
  \/ NotMarked
  \/ Upload
  \/ Import
  \/ Rotate
  \/ RequestReboot
  \/ RebootTask

Spec == Init /\ [][Next]_vars

-----------------------------------------------------------------------------
(* Properties *)

TypeOK ==
  /\ flash \in [Slots -> [image : Images \cup {Broken}, have : 0..MaxImage]]
  /\ running \in Slots
  /\ boot \in Slots
  /\ state \in [Slots -> {"valid", "new", "pending", "aborted"}]
  /\ phase \in {"booting", "started", "done"}
  /\ serving \in BOOLEAN
  /\ status \in StatusType
  /\ session \in SessionType
  /\ upload \in UploadType
  /\ credPending \in BOOLEAN
  /\ rebooting \in BOOLEAN

\* Whenever power is cut there is a complete image to start: ota_update_begin
\* never writes to the slot that runs, and not to the other one either while
\* the running image may have to give way to it.
AlwaysBoots ==
  /\ Verifies(running)
  /\ Unconfirmed => Verifies(Other(running))

\* While ota_update reports a pending restart, a restart does start the image
\* that was accepted: a later upload withdraws the report (ota_update.c:97)
\* before it erases the slot.
PendingBootsUpdate ==
  status.pending_reboot =>
    boot = Target /\ Verifies(boot) /\ Started = boot /\ ~upload.active

\* An update is in progress exactly while the upload handler receives: no exit
\* of the handler leaves ota_update busy, which would refuse every upload until
\* the next restart.
BusyOnlyWhileReceiving ==
  /\ status.in_progress <=> upload.active
  /\ ~upload.active => session = NoSession

\* A client that sends a byte now and then cannot hold httpd for longer than
\* the deadline and one last receive: neither successes nor timeouts reset the
\* time that ota_upload_handler compares.
UploadBounded == upload.elapsed <= Deadline + RecvTime

\* Updating implements what BootImage promises: nothing new is started before
\* an upload was accepted, and a restart starts that image or the one before.
BI == INSTANCE BootImage WITH
  running <- flash[running].image,
  next    <- flash[Started].image,
  chosen  <- boot /= running,
  pending <- status.pending_reboot

ImplementsBootImage == BI!Spec
=============================================================================
