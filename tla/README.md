# Verification of serialite

serialite is an emergency serial console on an ESP32-S3: a host is connected by
USB, and browsers reach its console through an access point the device opens.
This directory holds TLA+ models of the firmware, the TLC configurations that
check them and theorems that TLAPS proves. Source paths below are relative to
`src/`; `web_server.c` is `components/web_server/src/web_server.c`, and so on.

    tlc -config MCWebSession.cfg MCWebSession     # a run (see the table of runs)
    tlapm WebSession_proofs.tla                   # the proofs of a module

## 1. The system

FreeRTOS tasks share memory under mutexes and critical sections. Nothing but
NVS, the OTA partitions and one block of RTC memory survives a restart.

| task | what it does |
|---|---|
| `app_main` | boots: NVS, storage, credentials, display, WiFi, USB, web, marks the image valid |
| `usb_rx`, `usb_tx` (prio 8) | read the host's console and publish it; write accepted input to the host |
| httpd (ESP-IDF) | runs every HTTP and WebSocket handler and all queued work, one at a time |
| `web_tx` (3) | sends queued console output to all WebSocket connections |
| `ap_guard` (2) | every 30 s: clears connections when no station is left, stops the idle AP |
| `reset_control` (2) | polls the buttons every 100 ms: lock toggle, power off, factory reset |
| `lvgl` (2) | display; `demo_serial` (2) can never start; `reboot_task` restarts after 250 ms |
| WiFi event loop | counts stations |

### Components

| component | state | operations | interacts with | hard behaviour | correct when |
|---|---|---|---|---|---|
| terminal_bridge | ring of output, stream of input, counters, subscribers | publish, submit, read, snapshot, status | called by usb, web, demo; calls `bridge_output_cb` | several tasks, wrap, partial sends | output atomic and in order, counters add up |
| usb_console | buffers, connection flag, counters | rx and tx loop | USB driver, bridge | backpressure, partial writes | order kept, nothing twice, never blocks |
| web output (web_server.c) | queue of 16 chunks, table of 4 connections | callback, broadcast, greet, remove | bridge, httpd sockets | two senders per socket, full queue, reused descriptors | no gap, in order, no client stops others |
| ANSI filter | mode, kept sequence | filter a call's bytes | used by web output | sequences cut by reads, buffer limits | result independent of the cuts |
| sessions, lock (web_server.c, web_security.c) | one session, connection tokens, `locked`, queued work | login, logout, frame, lock, unlock, rotate | httpd, reset_control, ap_guard | work queued for another task, stale tokens, restart | only the current session types, never while locked |
| ota_update | status, session, partitions | begin, write, finish, abort, reboot | httpd, boot loader | failing upload, restart at any time | only a whole image is booted |
| boot, storage, config_transfer, credentials | NVS keys, RTC cache, configuration in RAM, display | boot, rotate, import, export, reset | all | power cut between writes, partial failure | password shown = password in force, corrupt state recognised |
| config_transfer | none | export, import | import and export handlers | one text, many readings | import undoes export, an edit is noticed |
| start of the services (app_main, web_server) | tasks, queue, locks, subscription | start, failed start | all tasks that already run | any call may fail, tasks deleted anywhere | everything, or neither server, queue nor running task; what runs goes on |
| rate limit, input window | counters and windows | evaluate | handlers | window edges | no stretch of time passes more than two budgets |
| AP exposure, wifi_ap | idle timer, started, stations | look, judge, stop | ap_guard, driver | stale connections, late task, failing stop | stops when idle, never when used |
| gestures (reset_control) | press timers | poll | buttons | long and short press, missed polls, restart with a button down | one deed per press, none too early |
| event_log | ring of 32 entries | append, snapshot, init | all tasks | wrap of ring and numbers, second initialisation | the latest events in order, counters consistent |
| lvgl_ui, secret_display | screen lit, password visible, timers | turn of the UI task, update of the credentials | BOOT, httpd | debouncing, late turns, rotation while dark | the password does not stay readable |
| macros, routes, pairing, BLE, demo, power, board, TLS identity, fingerprint, mDNS, wifi_client, watchdog, diagnostics | none that moves after boot | lookups, formatting and I/O | - | - | - |

`PROJECT.json` lists every component with its status, and every hazard of this
code with the properties that cover it.

## 2. What is modelled

| module | code | extends / instantiates |
|---|---|---|
| `BridgeHistory` | what the bridge promises: one stream, published and read atomically | |
| `TerminalBridge` | output half of terminal_bridge.c, terminal_scrollback.c | instantiates BridgeHistory |
| `TerminalBridge_proofs` | | TerminalBridge, TLAPS |
| `ConsoleInput` | `terminal_bridge_submit_input`, the stream, `usb_tx_task` | |
| `ConsoleInput_proofs` | | ConsoleInput, TLAPS |
| `ConsoleOutput` | `usb_rx_task`, `bridge_output_cb`, `web_tx_task`, greeting and table of connections | |
| `ConsoleOutput_proofs` | | ConsoleOutput, TLAPS |
| `AnsiFilter` | web_terminal_ansi.c | |
| `WebSession` | web_security.c's session, `websocket_handler`, logout, rotation, emergency lock | |
| `WebSession_proofs` | | WebSession, TLAPS |
| `BootImage` | what an update promises: which image runs, which one is next | |
| `OtaUpdate` | ota_update.c and its policy, upload, import and reboot handlers, `reboot_task`, the confirmation in app_main | instantiates BootImage |
| `OtaUpdate_proofs` | | OtaUpdate, TLAPS |
| `BootCredentials` | the boot in app_main.c, storage.c, storage_config.c, the RTC cache, rotation, import, factory reset | |
| `BootCredentials_proofs` | | BootCredentials, TLAPS |
| `ConfigTransfer` | config_transfer.c | |
| `Startup` | the end of app_main, `web_server_start`, `cleanup_failed_start`, `wifi_ap_start`, `usb_console_start` | |
| `ApGuard` | `ap_guard_task`, ap_exposure_policy.c, `wifi_ap_stop` | |
| `DisplayPower` | `handle_display_power`, `lvgl_ui_update_credentials` | |
| `Gestures` | reset_control.c, power_button_gesture.c, reset_gesture.c | |
| `EventLog` | event_log.c | |
| `Limits` | web_input_policy.c, http_rate_limit.c | |
| `MCConsoleOutput`, `MCWebSession`, `MCTerminalBridge` | small instances for TLC | the module they are named after |
| `MCParts` | nine parts side by side | MCTerminalBridge, AnsiFilter, ApGuard, DisplayPower, EventLog, Gestures, Limits, Startup, ConfigTransfer |
| `Text_proofs` | | AnsiFilter, ConfigTransfer, EventLog, TLAPS |
| `Parts_proofs` | proofs of ApGuard, Gestures, DisplayPower, Limits, Startup, and of the parts together | MCParts, Text_proofs, TerminalBridge_proofs |

`MCParts` gives its nine parts one instance. Its variable `focus` picks the part
that moves in a behaviour; the others stay as they start. They share no state in
the code that a property here is about, so that their interleavings would only
multiply states. The modules that need fairness, or whose actors meet, have
instances of their own.

### TerminalBridge
`lock` is `s_lock` by its holder; `storage`, `start`, `count`, `dropped` are the
fields of `s_scrollback`; `status` the three fields of `s_status` that concern
output. A publication is `PublishBegin` (take the mutex, count the batch), one
`WriteByte` per byte of the batch, and `PublishEnd` (copy the ring's figures,
give the mutex). `Snapshot` and `GetStatus` read under the mutex and leave what
they return in `shown` and `reported`. `ImplementsHistory` is the refinement: a
batch counts as published from `PublishBegin` on, since nobody can look before
the mutex is given, so that the abstract stream is `Contents \o pending`, cut to
the ring's size.

### ConsoleInput
Bytes are numbered as they are submitted. The stream buffer is a FreeRTOS
object and is modelled by its contract: `Submit` takes what fits and does not
wait, `Receive` wakes for one byte. Counters are steps of their own (`Count`,
`AddSent`), because the code takes a mutex for them after the bytes moved.
`Write` lets the driver take any part, `Backpressure` is `written <= 0`.

### ConsoleOutput
Bytes are numbered, a chunk is a set of positions. The filter is reduced to its
contract `Filter` (some bytes are shown, an unfinished sequence is kept, the
rest is hidden, order stays). That the implementation keeps to it is `OrderKept`
of `AnsiFilter`, proved for every size of the buffers: each byte read adds at most
itself to what is shown or kept, so a call shows and keeps only what it was given
or had kept, what it shows is before what it keeps, and what is hidden stays so.
A turn of the callback's loop is one step (it uses only its own state and the
queue); `web_tx_task` copies the table (`TxReceive`), sends per connection in any
order, and removes a failed descriptor in a second step (`TxFail`, `TxRemove`):
between the two the descriptor may be closed and opened again. The httpd task
registers (`Accept`) or refuses (`Refuse`) a connection, copies the scrollback
(`CopySnapshot`) and sends it in pieces (`SendPiece`), with web_tx between any two. A break of a connection
(`Break`) tells nobody. A WebSocket frame is sent in one step: httpd and web_tx
may send on one socket at the same time, and what that does to the framing
belongs to esp_http_server.

### AnsiFilter
Bytes are their classes: ESC, BEL, other control bytes (`"NUL"`), `[`, `]`, `\`,
other final bytes (`"A"`), other text (`"0"`). One action per byte, with the five
cases of the switch; `NextCall` ends a call anywhere. `Visible` defines what the
whole stream means by looking for items from left to right, without modes,
buffers or calls.

### WebSession
Tokens are numbered. `session` is the one slot of `s_security` (the code has
`WEB_SECURITY_MAX_SESSIONS` 1), `expired` its time; `table` is `s_ws_clients`;
`conn` says which session let a connection in (0: it was refused and is still
open, because httpd completes the handshake before the handler runs). A data
frame is `Frame` (token of the entry), then `CloseFrame`, `FrameFails` or
`CheckInput`, then `WriteInput`; the other tasks may step in between. The lock's
work is in `work`; a tap of the button reads the lock in `Tap` and queues in
`QueueTap`. `GoesOn` is the guard `require_mutating_auth_csrf_origin`, which
returns the result of sending its error reply: after a refusal the handler ends
only if that reply could not be sent. `permits` counts the taps made while
locked whose unlock has not run, `overrun` whether a refused request has changed
something; both only serve to state properties.

### OtaUpdate
`flash` says per slot whose bytes it holds and how many; an image verifies when
it is one of `Images` and complete. `boot` and `state` are otadata, `Choice`,
`Started` and `BootState` the boot loader with and without rollback (`Rollback`),
all external. `status` and `session` are `s_status` and `s_session` without the
figures that are only displayed; `upload` is the handler's loop with its
timeouts and the time since it began. A turn of the loop is `Receive`,
`RecvTimeout` or `GiveUp`; time passes in `Receive` and `RecvTimeout`, up to
`RecvTime` each. `Reset` may come between any two steps, and so may `RebootTask`
once a reboot or a rotation was requested. The lock of ota_update.c is not
modelled, because all its callers run on the httpd task. Refused requests are
not told apart: the guard of these handlers lets them go on (see WebSession).
`BootImage` is the device without slots: `Accept` is the end of a good upload,
`Replace` any change to what a selected slot offers while no restart is reported
as pending, `Confirm` and `Restart` what they say.

### BootCredentials
The configuration in its five places: the keys of NVS, the RTC cache, RAM, the
running access point, the display. `phase` follows app_main; `storage_init`
scrubs two keys in two steps, `storage_load_config` classifies what it finds,
`BootChoice` is the decision for the stored, the cached or a new configuration.
A save (`RotateBegin`, `ImportBegin`) is a `job` with the keys left, written one
by one (`SaveKey`), and may fail at each (`SaveFails`). Power cuts, restarts and
the factory reset come between any two steps, the reset while a save is under
way. Passwords are numbers in the order they are generated, 0 is one an older
firmware stored. `remnants`, `tried`, `displayed`, `retired` and `erased` are
history, for the properties.

### ConfigTransfer
A file is a sequence of symbols. `Json` is what export prints; the parser is
`Parsed`, whose cursor is the rest of the text: it takes literals, strings and
numbers in the code's order, and is `Failed` once something was not as expected.
The user may carry the file to another device and change symbols of it (`Edit`).
`Hash` is any function from settings to words, so that two settings may have one
checksum; `HexText` prints a word and `HexWord` reads it back, also where the hex
digits are capital letters (`Sums` has more texts than words). A key with the
punctuation around it is one symbol, and so is a checksum. `max_clients` is imported
and then overwritten by `apply_strict_stored_wifi_policy`; the model has one number
with a range and one without. The length limits of buffers that no export reaches
(`CONFIG_TRANSFER_MAX_JSON`, the canonical text) are left out.

### Startup
`step` follows the main task through every call that may fail, then through
`cleanup_failed_start`. The tasks that already run are reduced to where they stand
with the lock of the connections (`Want`, `Take`, `Give`) and, for usb_rx, with the
queue (`Publish`, `SendChunk`). A deleted task keeps what it holds, as in FreeRTOS.

### ApGuard, DisplayPower, Gestures, Limits
Time is counted in ticks: in the sleep of ap_guard, between the turns of the UI
task and of reset_control, and by `Tick`. A task may be late by a bound that is a
constant (`MaxSleep`, `MaxTurn`, `MaxPoll`). Ages and times are counted up to where
the code stops telling them apart. In `ApGuard` the guard's loop is three steps,
and stations come and go between them. In `Gestures` a turn treats the two
buttons one after the other, from one look at both. In `Limits` windows begin with
the first frame or request after the last window.

### EventLog
One action per critical section. The snapshot is an operator, since it changes
nothing. Sequence numbers and counters wrap at `LogWord`.

## 3. What the runs check

| run | size | checks |
|---|---|---|
| ConsoleInput | frame 3, stream 3, chunk 2, 7 bytes | `TypeOK`, `HostSeesInputOrder`, `EveryByteAccounted`, `AcceptedLeavesStream` |
| ConsoleInputDrops | same | violated: `DropsVisible` |
| ConsoleOutput | two descriptors, two slots, queue 1, reads of 2 in chunks of 1, 3 bytes | `TypeOK`, `NoGap`, `LiveInOrder`, `UsbReaderNeverWaits`, `QueueDrains` |
| WebSession | two descriptors, one slot, three sessions, two items of work | `TypeOK`, `InputOfSession`, `EntryMatchesConnection`, `EndedStaysEnded`, `UnlockNeedsTap`, `LockTakesEffect` |
| WebSessionInput | same | violated: `InputAuthorised` |
| WebSessionRefused | same | violated: `RefusedChangesNothing` |
| OtaUpdate | two images and a broken one of two bytes, slots of three, two timeouts, deadline 2, with rollback | `TypeOK`, `AlwaysBoots`, `PendingBootsUpdate`, `BusyOnlyWhileReceiving`, `UploadBounded`, refinement `ImplementsBootImage` |
| BootCredentials | two names, two channels, two generated passwords and a legacy one, with and without encryption | `TypeOK`, `RestartKeepsConfig`, `DisplayExplained`, `NeverUnseen`, `NoPlaintextSecrets` |
| BootCredentialsImport | same, flash never has to be erased at boot | violated: `FailedImportSavesNothing` |
| BootCredentialsRetired | same as BootCredentialsImport | violated: `RotatedAwayStaysAway` |
| StartupRescue | every start and every failure | violated: `RescueAlive` |
| MCParts | see below | see below |

The parts of `MCParts` (1.17 million states together) share one `PartsTypeOK`:

| part | size | checks |
|---|---|---|
| bridge | ring 3, snapshot 2, batches of 1, 2 and 4 bytes, two publishers, 8 bytes | `ReportConsistent`, refinement `ImplementsHistory` |
| filter | sequence, input and output of 3, 5 bytes of 8 classes | `CallsDoNotMatter`, `OrderKept` |
| ap | two stations, two connections, idle time 3, sleeps up to 2 | `StopsOnlyUnused`, `IdleApStops` |
| display | debounce 2, reveal 3, idle 5, turns up to 2 | `RevealEnds` |
| log | ring of 3, numbers modulo 5, 7 events | `LogKeepsLatest` |
| gestures | short 1, long 3, reset 4, polls up to 2 | `OneDeedPerPress`, `HeldLongEnough` |
| limits | window 3, 2 frames, 3 bytes, 2 requests | `BudgetKept` |
| start | every failure | `AllOrNothing` |
| transfer | names up to 2, channels 1 to 2, numbers 0 to 3 in base 2, two words and three texts of them, one edit | `ImportInvertsExport` |

Why the bounds are enough. The ring of three wraps more than once in eight
bytes, and the batch of four is longer than the ring and than a snapshot. The
stream of three and the frame of three make every split of a frame into accepted
and refused, the chunk of two makes a frame take two reads. The queue of one
fills while a chunk is with web_tx, a full queue drops the rest of a read, and a
third byte can follow what was dropped; that chunks keep their order in a longer
queue, for every length, is `OutputInOrder`. Two connections make one fail while
the other waits, and meet stale entries, refusals and reuse; a full table is just
one more refusal there, and is met in `WebSession`, which has one slot for two
descriptors. A sequence of three bytes reaches and passes
the buffer's limit, and 5 bytes span up to five calls and hold an OSC with
either end, or a sequence that is too long and what follows it (for every number
of bytes, there is the theorem); the output of three is shorter than a kept
sequence with a call's text, so that truncation occurs. Three sessions are
enough for a token that ended, the current one, and the one that replaces it.
Slots of three bytes take an image that is cut short, one that fits and one with
a tail, and lengths of 0 and 4 are refused; a deadline of 2 passes while bytes
still trickle in, because each byte may wait for one timeout. Two generated
passwords are the one in force and the one a rotation brings, next to one of an
older firmware that no boot accepts; two names and channels tell a mixed
configuration from both of its origins, and channel 6 is the default that stands
in for a missing key. The idle time, the reveal and the holds are longer than
the task can be late, so that a late look can fall before, on and after their
end. Seven events wrap a ring of three and numbers modulo five. A window of
three ticks with two frames makes windows end between any two frames. Files of
one edit reach every symbol of every file; two edits that agree (a number and
its checksum) would be another export, which the property allows, and so may one
edit be where two settings have one checksum. `MaxTotal`, `MaxBytes`,
`MaxTokens`, `MaxWork`, `MaxGen`, `MaxEvents` and `MaxEdits` only bound the
model. Where a bound stops the system, the cfg turns the deadlock check off
(`ConsoleInput`, `ConsoleOutput`: all bytes are used up; `BootCredentials`: all
passwords; `StartupRescue`: the start is over). The others check it; in
`MCParts` the step `PartEnds` stands for the end of the filter's bytes, of the
events and of the start.

Fairness. `ConsoleInput`: both tasks run for ever and no call of theirs waits
without a timeout (driver write: 5 ms; submission: none). `ConsoleOutput`:
`UsbReaderNeverWaits` assumes only that usb_rx runs, so that it holds with web_tx
and httpd stopped for ever; `QueueDrains` states as its own condition that web_tx
runs and that a send ends, well or badly, which httpd's send timeout provides. `WebSession`: the
handler in progress ends (its receive has a timeout), and queued work is strongly
fair, because httpd's loop looks at its control socket in every turn and a
handler in progress merely disables it. `OtaUpdate` assumes none: that an upload
ends in time is stated as a bound on its time. So is `IdleApStops`: time passes only
in a sleep of the guard, of at most `MaxSleep`, so that an access point without
stations is stopped within `IdleTimeout + 2 * MaxSleep`, without any fairness. The
other modules are about safety.

## 4. What the models show

Six runs are violations, each a statement of the repository that the code
does not keep:

* `DropsVisible`: input given up under USB backpressure is in no counter
  (usb_console.c:92-95; docs/production-hardening.md:100).
* `InputAuthorised`: the frames of a connection are judged by the entry of its
  descriptor. A connection whose GET of /ws was refused stays open, and where an
  earlier connection left its entry, its input is taken for that session's, as long
  as the session is valid (web_server.c:1845-1853, 621-638;
  docs/feature-checklist.md:16, docs/security-test-matrix.md:18). What does hold at
  the write is `InputOfSession`.
* `RefusedChangesNothing`: after a refused CSRF, origin or session check the
  handler goes on, because the guard returns `ESP_OK` once its error reply is
  sent (web_server.c:510-525 with 1331 and 1357; docs/feature-checklist.md:38).
* `FailedImportSavesNothing`: an import that fails after the first keys were
  written is answered with "no changes saved" (web_server.c:1497), but the keys stay,
  and the next boot takes them if they make a valid configuration: with the channel
  failing, the access point opens with the imported name (storage.c:168-191;
  docs/production-hardening.md:87). `RestartKeepsConfig` allows the fields of a failed
  save; this run is about just these.
* `RotatedAwayStaysAway`: the RTC cache keeps the password the device was switched on
  with; a rotation does not update it, and after a factory reset the next boot
  opens the access point with it (app_main.c:413-427; docs/operational-label.md:49-50).
* `RescueAlive`: a start of the web server that fails late deletes tasks that may
  hold the lock of the connections, and the queue that usb_rx may be about to use
  (web_server.c:772-783), where app_main.c:531 counts on the device staying alive.

Observations made while modelling, with no run of their own:

* A tap between the moments `s_server` and `locked` are set (web_server.c:2028,
  2032) is undone by the start; `UnlockNeedsTap` excludes this window.
* The emergency lock sets a flag and nothing else (web_server.c:670-675); the session
  and the connections survive it and can type after an unlock.
  docs/feature-checklist.md:48 says that logout and emergency lock invalidate the
  session. No property repeats the assignment.
* The time of a session may run out between the check of a frame and its write;
  `InputOfSession` says nothing of that.
* logout_handler goes on after the error reply for a foreign origin (1022), like the
  guard of the other handlers; `Logout` models it and `overrun` counts it.
* `NoGap` is about gaps, not repetition: a terminal gets bytes twice that arrive
  while it is greeted, and newer before older.
* web_tx removes by descriptor after a failed send (708): if the descriptor was
  reused meanwhile, the new connection loses its registration, and with it its
  output, silently. Stale entries take slots until a send to them fails or no
  station is left.
* A refused connection on a descriptor with an entry also gets the output that is
  broadcast to that entry (`Refuse` in `ConsoleOutput`). `EntryMatchesConnection` is
  about connections that were let in.
* Output goes to connections whose session was replaced until their next frame.
* A kept sequence of up to 64 bytes and 256 bytes of input can exceed the 256
  bytes of output; the filter then cuts without a sign (`cut` in the model).
* When a second upload fails to begin (ota_update.c:105, 115), `pending_reboot` is
  already FALSE (97): the accepted image stays selected and starts at the next
  power cut, while `/api/reboot` answers that nothing is pending.
* While a second upload rewrites the selected slot, its image starts after a power
  cut as soon as it is complete, before `esp_ota_end` and
  `esp_ota_set_boot_partition` have accepted it; `Replace` in `BootImage` allows it.
* The reboot handler checks that no upload is active, and restarts 250 ms later:
  an upload that begins meanwhile has erased the accepted image and is cut off.
* app_main confirms the image otadata selects after the web server started; an
  upload accepted before that call would be confirmed without having run.
* `enforce_http_rate_limit` (267) and `read_small_body` (482) also return the result of
  sending their error reply. An import whose body is too large or cannot be read
  goes on (1487) with a buffer that was not filled or not ended; what saves it is
  that the parser accepts nothing but an export.
* `wifi_ap_stop` (wifi_ap.c:179) gives the access point up in its status also when the
  driver refused: it stays open, and no later call stops it.
* A rotation while the screen is dark sets the reveal: the press that wakes the
  screen within 30 s also shows the password. Otherwise the first press only
  wakes and a second reveals, where README.md:42 has one press do both.
* A start that fails at its last call leaves `bridge_output_cb` registered
  (web_server.c:2221), which the bridge cannot take back; with the queue gone it does
  nothing. `AllOrNothing` allows just that.
* app_main confirms an image (525) also when the web server did not start.
* `event_log_init` in `web_server_start` drops the events of the boot before it.
* Between a factory reset and its restart, 200 ms later, a save that is under way
  writes keys again.
* A corrupt stored configuration is replaced by the RTC copy if there is one, so
  that the password on the display may be an old one, not a new one.
* An import takes the checksum in capital letters too (config_transfer.c:171): the
  only change of an exported text that is neither noticed nor a change of settings.
* BEL directly after ESC does not end an OSC; the model's `OscEnds` says so.

## 5. What is proved

All theorems hold for every value of the constants that satisfies the named
assumptions (`SizeAssumption`, `InputAssumption`, `SessionAssumption`, ...), which
only say that sizes are natural numbers, positive where a buffer exists.

**TerminalBridge_proofs** (`TypeCorrect`, `ReportsAddUp`,
`BridgeImplementsHistory`). `TypeOK` is not inductive for the report: while a
publisher holds the mutex the status is ahead of the ring. The invariant `IInv`
adds that the bytes counted are the bytes retained, dropped and pending, that
only the holder of the mutex has bytes pending, and that the status is exact when
the mutex is free. The refinement rests on one lemma about sequences
(`WriteByteKeepsLatest`): moving a byte from the batch into the ring, wrapped or
not, does not change the last `Capacity` bytes of ring and batch together, so
that `WriteByte` and `PublishEnd` are stuttering steps and `PublishBegin` is the
publication.

**ConsoleInput_proofs** (`TypeCorrect`, `AllBytesAccounted`, `InputOrderKept`).
Order alone is not inductive: a submitted byte is larger than those on the way
only because numbers grow, and a write splits the task's buffer. `IInv` says that
sent, in hand and in the stream together are one increasing sequence of numbers
up to `submitted`, with the sums of the counters.

**WebSession_proofs** (`TypeCorrect`, `InputBelongsToSession`, `EntriesMatch`,
`SessionsEndForGood`, `UnlocksNeedTap`).
`InputOfSession` needs that a handler is under way only when the server is ready
(`HandlerOnlyWhenReady`), since `ResetStatus` writes the lock and the table, and that
the connection a handler works for is as it was when its frame came
(`HandledConnection`): let in with the token it found, or refused. The
third is an action property: only `OpenTerminal` makes a session valid, and its
token is the next number, larger than all before.

`UnlocksNeedTap` is about a queue: an unlock that runs was queued by a tap, and what
matters is whether that tap is still paid for. `LockOK` counts, for every suffix of
the queue, the unlocks in it and the tap under way: they are never more than
`permits`. `TypeCorrect` needs the capacity of the table as a lemma on cardinality.

**ConsoleOutput_proofs** (`TypeCorrect`, `OutputInOrder`, `NothingMissed`). Neither
order nor completeness is inductive: order needs all that is on its way to a
connection as one line, from what was broadcast over web_tx and the queue to what
the filter keeps (`OrderOK`), and completeness needs it byte by byte with the
greeting's rest (`GapOK`). The turn of the callback is one lemma with three cases
(`FilterChunkCases`): queued, dropped, or nothing to send.

**BootCredentials_proofs** (`TypeCorrect`, `NothingInPlaintext`, `NoApUnseen`,
`DisplayIsExplained`, `ConfigSurvives`). The invariant has a conjunct per place the
configuration lives in: what is where in each phase (`PhaseOK`), that nothing in use
is of an older firmware (`NewPasswords`), that what was saved was shown (`ShownOK`),
and, for `RestartKeepsConfig`, that a key in flash is the configuration's or a
remnant (`KeysOK`, `WrittenOK`), and that the cache is what a boot without flash would
take (`CacheOK`). No bound on names, channels or passwords is used.

**Text_proofs** is about parts whose operators are recursive functions over a text.
The library's induction theorems take an operator as a parameter, which the
installed provers cannot instantiate; what stands in for them is `Least`: a set of
natural numbers with a member has a least one, so that a counterexample to an
equation has a smallest one. `StartsDefined`, `PrintedIs` and `ValueIs` prove with
it that the functions exist and satisfy their equations, and the rest is by the same
induction.

* AnsiFilter (`FilterTypeCorrect`, `CallsAreSeamless`, `BytesKeepTheirOrder`). The mode
  alone says too little. `FilterIInv` says that exactly one item of the stream
  has not ended, where it starts, which mode goes with its bytes, that the kept
  sequence is its beginning or the mark that it was too long (`ModeOK`), and that what
  was written is what is visible before it (`OutOK`). Four lemmas say what one byte
  more does to the items of a stream (`StartsAfter`, `EndsAppend`, `UnendedAfter`,
  `VisibleAfter`), and one per mode that the filter does the same. `OrderKept` is a
  property of the steps: `PassedIncreases` is what the invariant says of their ends,
  `EmitsOf` and `AppendsOf` are what a step may write and keep.
* ConfigTransfer (`TransferTypeCorrect`, `ImportsAreExports`). Numbers: what is printed
  reads back, and a text of digits without a zero in front is the only one of its
  value (`PrintedReadsBack`, `ValuePrintsBack`). Parser: what it takes of a text is
  what export would write for the value it read (`StringTaken`, `NumberTaken`), and
  the other way round (`StringRead`, `NumberRead`). Hence `ParsedExport` and
  `ParsedAccepts`, for every file, not just for edited ones.
* EventLog (`LogTypeCorrect`, `LatestEventsKept`). `LogOK` compares each slot of the ring
  with the history. That the numbers wrap needs `WrapsInto`: a counter that is
  increased modulo the word is the count modulo the word.

**Parts_proofs**, for the parts that keep time or start the others:

* ApGuard (`ApStopsOnlyUnused`, `ApStopsInTime`). `IdleOK` relates the policy's idle time
  to the time since a station was seen, `VacantOK` to the time since the last one
  went: they differ by the sleep in which it went and the sleep in which the idle
  time ended, which is where the two `MaxSleep` come from.
* Gestures (`OneDeed`, `HeldThroughout`). `TimedOK` says that a press is timed from a look
  after the last one that found the button up, `DeedsOK` that what can still act has
  not acted.
* DisplayPower (`DisplayTypeCorrect`, `RevealIsShort`). `PressOK` ties the history of a
  press to the debounced button, `RevealOK` the time since somebody asked to what is
  left of the reveal: the turn that hides the password is the next one after its end.
  The proof needs that the reveal time is not zero.
* Limits (`LimitTypeCorrect`, `BudgetsAreKept`). `WindowOK`: a window counts what was
  accepted since it began, and what came before it, in the last stretch as long as a
  window, is within one budget.
* Startup (`StartTypeCorrect`, `StartsWhollyOrNotAtAll`). `LaunchOK` says for every step of
  the start, and of its undoing, which of server, queue and tasks are there, and
  that the callback is registered only once both tasks were made.
* The parts together (`PartsAreThemselves`, `PartsTypeCorrect`). A step of one part is a
  stutter of the others, so that `PartsSpec` implies the specification of each part,
  and every theorem about a part holds in `MCParts`.

**OtaUpdate_proofs** (`TypeCorrect`, `DeviceAlwaysBoots`, `PendingMeansNewImage`,
`UploadsReleaseUpdate`, `UploadsAreBounded`, `UpdateImplementsBootImage`), for
`Rollback` TRUE and FALSE. `AlwaysBoots` is not inductive: that there is an image to
go back to depends on what otadata may say, so that `IInv` adds `OtadataOK` (only
the selected slot is new or on trial, a new one does not run, the running one was
never struck off) and `UploadOK` (an upload runs only under a confirmed image,
into the other slot, which holds the bytes received). The refinement splits on
whether the slot written is the selected one: then the abstract device replaces
its offer, otherwise it sees nothing.

Every safety invariant, action property and refinement that a passing run checks is
proved. Only model-checked: the liveness properties (`AcceptedLeavesStream`,
`UsbReaderNeverWaits`, `QueueDrains`, `LockTakesEffect`), because the prover cannot
reason about ENABLED and fairness; and the five violations, which are counterexamples.

## 6. Not modelled

Left out because there is no behaviour to check: drawing and status labels, pages
and assets, route tables, HTML and diagnostics formatting, cryptography (hashes,
certificates, fingerprints), board and power I/O, the watchdog calls, mDNS, and the
draw of six words with its list of 7776, which is most of credentials.c and 7776
lines of the implementation.

Left out because the firmware never reaches it: terminal_bridge_ring.c,
local_pairing, emergency_lock_gesture.c, `web_server_emergency_lock`,
`usb_console_write`, web_password_hash.c and the login with a password, the BLE
backend (a stub that always refuses), `wifi_client` (a mode that is not enabled), the
macros (`s_macros_enabled` is never true, web_server.c:1976) and `demo_serial`, whose
policy asks for a read-only writer state that `web_security_writer_state` never
returns.

Left out of modelled components: the framing of a WebSocket message when httpd and
web_tx send on one socket at once, and the driver's event counter of stations,
which stands in for the driver's list only when that cannot be read. Bytes
accepted before an emergency lock still reach the host, a sequence kept by the
filter may be completed by bytes after a dropped chunk, and output goes to
connections of a replaced session: the code promises nothing else, so that these
hazards have a note instead of a property.

What could still be done: a composition of `WebSession` with `Startup`, for the tap in
the window of web_server.c:2028-2032.
