--------------------------- MODULE BootCredentials ---------------------------
(***************************************************************************)
(* Where the access point's configuration lives and how it survives:       *)
(*                                                                         *)
(*   nvs      the keys in flash, written one by one, kept for ever;        *)
(*   cache    a copy in RTC memory, kept by a restart, lost with power;    *)
(*   config   the copy in RAM the web server's handlers change;            *)
(*   ap       what the running access point was started with;              *)
(*   display  the password on the device's screen.                         *)
(*                                                                         *)
(* The main task boots (app_main), the httpd task rotates the password and *)
(* imports settings, the reset_control task erases the flash.  The device  *)
(* may restart, and lose power, between any two steps.                     *)
(*                                                                         *)
(* A configuration is its name, password and channel; the other numbers    *)
(* (max_clients, brightness, font_size) are stored like the channel and    *)
(* nothing depends on them.  Passwords are numbered as they are generated; *)
(* 0 is one an older firmware stored, which is long enough for             *)
(* storage_config.c but is not the phrase of six words app_main asks for.  *)
(***************************************************************************)
EXTENDS Naturals, Sequences

CONSTANTS
  Ssids, KVM,         \* names, and the one the firmware gives itself
  Channels, Default,  \* channels, and the one taken when none is stored
  MayRecover,         \* whether the flash may have to be erased at boot
  MaxGen,             \* bound of the model: passwords generated
  Absent              \* a key that is not stored; no password, no configuration

ASSUME BootAssumption ==
  /\ KVM \in Ssids /\ Absent \notin Ssids
  /\ Default \in Channels /\ Absent \notin Channels
  /\ MayRecover \in BOOLEAN
  /\ MaxGen \in Nat /\ Absent \notin 0..MaxGen

Password == 0..MaxGen
Config == [ssid : Ssids, password : Password, channel : Channels]

ASSUME AbsentAssumption == Absent \notin Config

VARIABLES
  encrypted,   \* CONFIG_NVS_ENCRYPTION: an option of the build, never changes
  nvs,         \* the keys of the namespace "serialite"
  cache,       \* s_ephemeral_rtc_cache, Absent when its checksum is wrong
  phase,       \* how far app_main is
  config,      \* s_credentials_ctx.config
  ephemeral,   \* ephemeral_credentials of app_main
  ui,          \* s_credentials_ctx.ui_ready
  web,         \* the web server runs
  ap,          \* what wifi_ap_start was given
  display,     \* s_ctx.wifi_password of lvgl_ui.c
  job,         \* the save under way in httpd: what, and the keys left
  generated,   \* number of passwords generated so far
  erased,      \* history: a factory reset has begun since the last restart
  tried,       \* history: passwords whose rotation failed since then
  remnants,    \* history: values the flash may hold besides the configuration's
  displayed,   \* history: passwords that were ever put on the display
  retired      \* history: passwords a completed rotation has replaced

vars == <<encrypted, nvs, cache, phase, config, ephemeral, ui, web, ap, display,
          job, generated, erased, tried, remnants, displayed, retired>>
ram == <<config, ephemeral, ui, web, ap, display, job>>
history == <<erased, tried, remnants, displayed, retired>>
-----------------------------------------------------------------------------
Keys == {"ssid", "password", "channel"}

\* Variant: the channel is not saved.
SaveOrderNoChannel == <<"ssid", "password">>

(* storage_save_config: one nvs_set after the other.                       *)
SaveOrder == <<"ssid", "password", "channel">>

Empty == [k \in Keys |-> Absent]
Nvs == [ssid : Ssids \cup {Absent}, password : Password \cup {Absent},
        channel : Channels \cup {Absent}]

NoRemnants == [k \in Keys |-> {}]

NoJob == [kind |-> "none", next |-> Absent, left |-> <<>>]

(* What an older firmware may have left.                                   *)
Legacy == [ssid |-> KVM, password |-> 0, channel |-> Default]

(* What storage_load_config and app_main accept from the flash.  Secrets   *)
(* are read only with encryption; one of the two keys without the other is *)
(* CORRUPT, none of them MISSING, and either way they are not used.        *)
StoredValid ==
  /\ encrypted
  /\ nvs.ssid # Absent
  /\ nvs.password # Absent
  /\ nvs.password # 0

Stored == [ssid |-> nvs.ssid, password |-> nvs.password,
           channel |-> IF nvs.channel = Absent THEN Default ELSE nvs.channel]

Generated == [ssid |-> KVM, password |-> generated + 1, channel |-> Default]

(* What the keys may hold besides the configuration in force.              *)
Pending == IF job = NoJob THEN remnants
           ELSE [k \in Keys |-> remnants[k] \cup {job.next[k]}]

(* What the next boot will use if nothing is lost on the way.              *)
BootChoice == IF StoredValid THEN Stored ELSE cache
-----------------------------------------------------------------------------
(* A factory-new device, or one on which an older firmware has left a      *)
(* configuration, with or without encryption.                              *)
Init ==
  /\ encrypted \in BOOLEAN
  /\ nvs \in {Empty, Legacy}
  /\ cache = Absent
  /\ phase = "nvs"
  /\ config = Absent /\ ephemeral = FALSE
  /\ ui = FALSE /\ web = FALSE /\ ap = Absent /\ display = Absent
  /\ job = NoJob
  /\ generated = 0
  /\ erased = FALSE /\ tried = {} /\ displayed = {} /\ retired = {}
  /\ remnants = [k \in Keys |-> {nvs[k]} \ {Absent}]

-----------------------------------------------------------------------------
(* Boot.                                                                   *)

(* A flash that is full or of another format is erased.                    *)
InitNvs ==
  /\ phase = "nvs"
  /\ nvs' \in {nvs} \cup (IF MayRecover THEN {Empty} ELSE {})
  /\ phase' = IF encrypted THEN "load" ELSE "scrub ssid"
  /\ UNCHANGED <<encrypted, cache, ram, generated, history>>

(* storage_init of a build without encryption erases the secrets an older  *)
(* firmware may have stored, one key after the other.                      *)
Scrub(key, here, there) ==
  /\ phase = here
  /\ nvs' = [nvs EXCEPT ![key] = Absent]
  /\ phase' = there
  /\ UNCHANGED <<encrypted, cache, ram, generated, history>>

ScrubSsid == Scrub("ssid", "scrub ssid", "scrub password")

\* Variant: the name is erased twice.
ScrubNothing == Scrub("ssid", "scrub password", "load")

ScrubPassword == Scrub("password", "scrub password", "load")

(* The stored configuration if it can be used, else the one in RTC memory, *)
(* else a new one.  RTC memory is written only when it holds nothing.      *)
UseStored ==
  /\ StoredValid
  /\ config' = Stored
  /\ ephemeral' = FALSE
  /\ UNCHANGED generated

ReuseCached ==
  /\ ~StoredValid
  /\ cache # Absent
  /\ config' = cache
  /\ ephemeral' = TRUE
  /\ UNCHANGED generated

GenerateEphemeral ==
  /\ ~StoredValid
  /\ cache = Absent
  /\ generated < MaxGen
  /\ config' = Generated
  /\ ephemeral' = TRUE
  /\ generated' = generated + 1

StoreIfEmpty(c) == cache' = IF cache = Absent THEN c ELSE cache

Load ==
  /\ phase = "load"
  /\ UseStored \/ ReuseCached \/ GenerateEphemeral
  /\ StoreIfEmpty(config')
  /\ phase' = "start"
  /\ UNCHANGED <<encrypted, nvs, ui, web, ap, display, job, history>>

\* Variant: the access point starts whether or not its password can be read.
NeverSkipAp(ready) == FALSE

(* startup_policy_after_ui.                                                *)
SkipAp(ready) == ~ready /\ ephemeral

(* Display, access point and web server, each of which may fail to start.  *)
Start ==
  /\ phase = "start"
  /\ \E ready, apOk, webOk \in BOOLEAN :
       /\ ui' = ready
       /\ display' = IF ready THEN config.password ELSE Absent
       /\ displayed' = IF ready THEN displayed \cup {config.password} ELSE displayed
       /\ ap' = IF apOk /\ ~SkipAp(ready) THEN config ELSE Absent
       /\ web' = (webOk /\ apOk /\ ~SkipAp(ready))
  /\ phase' = "running"
  /\ UNCHANGED <<encrypted, nvs, cache, config, ephemeral, job, generated,
                 erased, tried, remnants, retired>>
-----------------------------------------------------------------------------
(* The handlers of the httpd task.                                         *)

Serving == phase = "running" /\ web /\ job = NoJob

Rotated == [ssid |-> KVM, password |-> generated + 1, channel |-> config.channel]

\* Variant: without encryption the new password is kept in RAM only.
RotateInRamOnly ==
  /\ Serving /\ ui /\ generated < MaxGen
  /\ generated' = generated + 1
  /\ display' = Rotated.password
  /\ displayed' = displayed \cup {Rotated.password}
  /\ IF encrypted
       THEN /\ job' = [kind |-> "rotate", next |-> Rotated, left |-> SaveOrder]
            /\ UNCHANGED <<cache, config>>
       ELSE config' = Rotated /\ UNCHANGED <<cache, job>>
  /\ UNCHANGED <<encrypted, nvs, phase, ephemeral, ui, web, ap, erased, tried,
                 remnants, retired>>

(* The new password is put on the display, hidden, before it is saved.  A  *)
(* rotation without display, or whose display update times out, ends here  *)
(* and changes nothing.  Without encryption nothing may be saved: the new  *)
(* configuration goes to RTC memory and the rotation is done.              *)
RotateBegin ==
  /\ Serving /\ ui /\ generated < MaxGen
  /\ generated' = generated + 1
  /\ display' = Rotated.password
  /\ displayed' = displayed \cup {Rotated.password}
  /\ IF encrypted
       THEN /\ job' = [kind |-> "rotate", next |-> Rotated, left |-> SaveOrder]
            /\ UNCHANGED <<cache, config>>
       ELSE /\ cache' = Rotated
            /\ config' = Rotated
            /\ UNCHANGED job
  /\ UNCHANGED <<encrypted, nvs, phase, ephemeral, ui, web, ap, erased, tried,
                 remnants, retired>>

(* An import takes over everything but the password.  Without encryption   *)
(* it is refused, as is a text that config_transfer_import_json rejects.   *)
ImportBegin ==
  /\ Serving /\ encrypted
  /\ \E s \in Ssids, c \in Channels :
       job' = [kind |-> "import",
               next |-> [config EXCEPT !.ssid = s, !.channel = c],
               left |-> SaveOrder]
  /\ UNCHANGED <<encrypted, nvs, cache, phase, config, ephemeral, ui, web, ap, display,
                 generated, history>>

(* storage_save_config: one nvs_set per key, then nvs_commit.              *)
SaveKey ==
  /\ job # NoJob /\ job.left # <<>>
  /\ nvs' = [nvs EXCEPT ![Head(job.left)] = job.next[Head(job.left)]]
  /\ job' = [job EXCEPT !.left = Tail(@)]
  /\ UNCHANGED <<encrypted, cache, phase, config, ephemeral, ui, web, ap, display,
                 generated, history>>

\* Variant: the configuration in RAM is replaced although the save failed.
SaveFailsKeepingNext ==
  /\ job # NoJob
  /\ job' = NoJob
  /\ config' = job.next
  /\ remnants' = Pending
  /\ IF job.kind = "rotate"
       THEN /\ display' \in {config.password, display}
            /\ tried' = tried \cup {job.next.password}
       ELSE UNCHANGED <<display, tried>>
  /\ UNCHANGED <<encrypted, nvs, cache, phase, ephemeral, ui, web, ap,
                 generated, erased, displayed, retired>>

(* A key or the commit fails: what was written stays.  A rotation puts the *)
(* old password back on the display, unless that times out.                *)
SaveFails ==
  /\ job # NoJob
  /\ job' = NoJob
  /\ remnants' = Pending
  /\ IF job.kind = "rotate"
       THEN /\ display' \in {config.password, display}
            /\ tried' = tried \cup {job.next.password}
       ELSE UNCHANGED <<display, tried>>
  /\ UNCHANGED <<encrypted, nvs, cache, phase, config, ephemeral, ui, web, ap,
                 generated, erased, displayed, retired>>

SaveDone ==
  /\ job # NoJob /\ job.left = <<>>
  /\ job' = NoJob
  /\ config' = job.next
  /\ tried' = IF job.kind = "rotate" THEN {} ELSE tried
  /\ remnants' = IF erased THEN remnants ELSE NoRemnants
  /\ UNCHANGED <<encrypted, nvs, cache, phase, ephemeral, ui, web, ap, display,
                 generated, erased, displayed, retired>>
-----------------------------------------------------------------------------
(* BOOT held for ten seconds, if the display runs.  All keys are erased;   *)
(* an error, or the loss of power, leaves some of them.  The device goes   *)
(* on for 200 ms before it restarts, and for good after an error.          *)
FactoryReset ==
  /\ phase = "running" /\ ui
  /\ \E K \in SUBSET Keys : nvs' = [k \in Keys |-> IF k \in K THEN Absent ELSE nvs[k]]
  /\ erased' = TRUE
  /\ remnants' = [k \in Keys |-> Pending[k] \cup {config[k]}]
  /\ UNCHANGED <<encrypted, cache, phase, ram, generated, tried, displayed, retired>>

(* The end of all that is in RAM.  When the configuration had a password   *)
(* other than the access point's, a rotation was waiting for this.         *)
Reboot ==
  /\ phase' = "nvs"
  /\ config' = Absent /\ ephemeral' = FALSE
  /\ ui' = FALSE /\ web' = FALSE /\ ap' = Absent /\ display' = Absent
  /\ job' = NoJob
  /\ erased' = FALSE /\ tried' = {} /\ remnants' = Pending
  /\ retired' = IF ap # Absent /\ config.password # ap.password
                THEN retired \cup {ap.password} ELSE retired
  /\ UNCHANGED <<encrypted, nvs, generated, displayed>>

(* reboot_task, the factory reset, a failed ESP_ERROR_CHECK, a panic.      *)
Restart == Reboot /\ UNCHANGED cache

PowerCut == Reboot /\ cache' = Absent

Next ==
  \/ InitNvs \/ ScrubSsid \/ ScrubPassword \/ Load \/ Start
  \/ RotateBegin \/ ImportBegin \/ SaveKey \/ SaveFails \/ SaveDone
  \/ FactoryReset \/ Restart \/ PowerCut

Spec == Init /\ [][Next]_vars
-----------------------------------------------------------------------------
Phases == {"nvs", "scrub ssid", "scrub password", "load", "start", "running"}

(* The types of the variables, the job in particular: what it saves is a   *)
(* configuration and what is left to write is the end of the order of the  *)
(* keys.                                                                   *)
TypeOK ==
  /\ encrypted \in BOOLEAN
  /\ nvs \in Nvs
  /\ cache \in Config \cup {Absent}
  /\ phase \in Phases
  /\ config \in Config \cup {Absent}
  /\ ephemeral \in BOOLEAN /\ ui \in BOOLEAN /\ web \in BOOLEAN
  /\ ap \in Config \cup {Absent}
  /\ display \in Password \cup {Absent}
  /\ \/ job = NoJob
     \/ job \in [kind : {"rotate", "import"}, next : Config,
                 left : {<<"ssid", "password", "channel">>, <<"password", "channel">>,
                         <<"channel">>, <<>>}]
  /\ generated \in 0..MaxGen
  /\ erased \in BOOLEAN
  /\ tried \subseteq Password
  /\ remnants \in [ssid : SUBSET Ssids, password : SUBSET Password,
                   channel : SUBSET Channels]
  /\ displayed \subseteq Password
  /\ retired \subseteq Password

(* A restart brings the configuration of the handlers back, field by field *)
(* but for fields of a save or a reset that was cut short or has failed (a *)
(* channel not yet stored is then the default): a completed rotation or    *)
(* import is in force after the next restart, and no mix holds a field     *)
(* that nobody asked for.  Excepted is the time from a factory reset to    *)
(* its restart.  A save that has failed may take effect in part: the keys  *)
(* it wrote stay, see FailedImportSavesNothing.                            *)
RestartKeepsConfig ==
  phase \in {"start", "running"} /\ ~erased =>
    \A f \in Keys : \/ BootChoice[f] = config[f]
                    \/ BootChoice[f] \in Pending[f]
                    \/ f = "channel" /\ nvs[f] = Absent /\ Pending # NoRemnants

(* The display shows the password of the configuration, or that of a       *)
(* rotation that is under way or has failed since the last restart.        *)
DisplayExplained ==
  phase = "running" /\ ui =>
    \/ display = config.password
    \/ display \in tried
    \/ job.kind = "rotate" /\ display = job.next.password

(* No access point runs with a password that was never on the display: a   *)
(* rotation shows before it saves, and without display only a stored       *)
(* password is used.                                                       *)
NeverUnseen == ap # Absent => ap.password \in displayed

(* Without encryption the flash holds no secret once storage_init is done. *)
NoPlaintextSecrets ==
  ~encrypted /\ phase \in {"load", "start", "running"} =>
    nvs.ssid = Absent /\ nvs.password = Absent

(* docs/operational-label.md:49-50 asks to rotate the password when the    *)
(* device changes hands and to reset it before reuse: a password that was  *)
(* rotated away is never used again.                                       *)
RotatedAwayStaysAway == ap # Absent => ap.password \notin retired

ImportFails == job.kind = "import" /\ job' = NoJob /\ config' = config

(* "import failed: config could not be saved safely; no changes saved":    *)
(* after that answer the next boot takes over nothing of the import, but   *)
(* what it would have taken without it: the configuration, or what an      *)
(* earlier failed save has left.                                           *)
FailedImportSavesNothing ==
  [][ImportFails /\ ~erased =>
       \A f \in Keys : BootChoice'[f] \in {config[f]} \cup remnants[f]]_vars
=============================================================================
