------------------------ MODULE BootCredentials_proofs ------------------------
(***************************************************************************)
(* Proofs about BootCredentials, for any names, channels and number of     *)
(* passwords, with and without encryption.                                 *)
(***************************************************************************)
EXTENDS BootCredentials, TLAPS

Alive == phase \in {"start", "running"}

Lefts == {<<"ssid", "password", "channel">>, <<"password", "channel">>, <<"channel">>,
          <<>>}

LeftKeys(l) ==
  CASE l = <<>> -> {}
    [] l = <<"channel">> -> {"channel"}
    [] l = <<"password", "channel">> -> {"password", "channel"}
    [] l = <<"ssid", "password", "channel">> -> Keys

(* Where there is what; a save runs only with encryption.                  *)
PhaseOK ==
  /\ Alive => config \in Config /\ cache \in Config
  /\ ~Alive => config = Absent
  /\ phase # "running" => ap = Absent /\ job = NoJob /\ ~ui /\ ~web
  /\ job # NoJob => encrypted
  /\ phase \in {"scrub ssid", "scrub password"} => ~encrypted

(* What is used or saved is no password of an older firmware.              *)
NewPasswords ==
  /\ config # Absent => config.password # 0
  /\ cache # Absent => cache.password # 0
  /\ job # NoJob => job.next.password # 0

ScrubOK ==
  /\ ~encrypted /\ phase = "scrub password" => nvs.ssid = Absent
  /\ NoPlaintextSecrets

(* A password was on the display before it was saved.                      *)
ShownOK ==
  /\ nvs.password \in {Absent, 0} \cup displayed
  /\ phase = "start" /\ ~ephemeral => config.password \in displayed
  /\ web => config.password \in displayed
  /\ job # NoJob => job.next.password \in displayed
  /\ NeverUnseen

DisplayOK ==
  /\ job # NoJob /\ job.kind = "rotate" => display = job.next.password
  /\ job # NoJob /\ job.kind = "import" => job.next.password = config.password
  /\ DisplayExplained

(* Each key is missing, or a remnant, or part of a whole configuration,    *)
(* which is the one in RAM.                                                *)
KeysOK ==
  \A f \in Keys : \/ nvs[f] = Absent
                  \/ nvs[f] \in Pending[f]
                  \/ StoredValid /\ (config # Absent => nvs[f] = config[f])

(* Keys a save has written hold what it saves, unless a reset got between; *)
(* then nothing is in flash that is no remnant.                            *)
WrittenOK ==
  job # NoJob =>
    \/ \A f \in Keys \ LeftKeys(job.left) : nvs[f] = job.next[f]
    \/ erased /\ \A f \in Keys : /\ job.next[f] \in remnants[f]
                                 /\ nvs[f] = Absent \/ nvs[f] \in remnants[f]

(* What the next boot finds if the flash has nothing usable.               *)
CacheOK == Alive /\ ~erased /\ ~StoredValid => config = cache

ChannelOK ==
  Alive /\ ~erased /\ StoredValid /\ nvs.channel = Absent =>
    config.channel = Default \/ Pending # NoRemnants

IInv ==
  /\ TypeOK /\ PhaseOK /\ NewPasswords /\ ScrubOK /\ ShownOK /\ DisplayOK
  /\ KeysOK /\ WrittenOK /\ CacheOK /\ ChannelOK
-----------------------------------------------------------------------------
(* A turn of storage_save_config takes the first key that is left.         *)
LEMMA LeftStep ==
  ASSUME NEW l \in Lefts, l # <<>>
  PROVE  /\ Head(l) \in Keys /\ Tail(l) \in Lefts
         /\ LeftKeys(Tail(l)) = LeftKeys(l) \ {Head(l)}
  <1>1. CASE l = <<"ssid", "password", "channel">>
    BY <1>1 DEF Lefts, LeftKeys, Keys
  <1>2. CASE l = <<"password", "channel">>
    BY <1>2 DEF Lefts, LeftKeys, Keys
  <1>3. CASE l = <<"channel">>
    BY <1>3 DEF Lefts, LeftKeys, Keys
  <1> QED  BY <1>1, <1>2, <1>3 DEF Lefts

LEMMA InitIInv == Init => IInv
  <1> SUFFICES ASSUME Init PROVE IInv
    OBVIOUS
  <1> USE BootAssumption, AbsentAssumption DEF Init
  <1>1. TypeOK
    <2>1. Empty \in Nvs /\ Legacy \in Nvs
      BY DEF Empty, Legacy, Keys, Nvs, Password
    <2>2. remnants \in [ssid : SUBSET Ssids, password : SUBSET Password,
                       channel : SUBSET Channels]
      BY DEF Empty, Legacy, Keys, Password
    <2>3. /\ config \in Config \cup {Absent} /\ cache \in Config \cup {Absent}
          /\ ap \in Config \cup {Absent} /\ display \in Password \cup {Absent}
          /\ phase \in Phases /\ generated \in 0..MaxGen
      BY DEF Phases
    <2> QED  BY <2>1, <2>2, <2>3, Zenon DEF TypeOK
  <1>2. PhaseOK /\ NewPasswords
    BY DEF PhaseOK, Alive, NewPasswords
  <1>3. ScrubOK /\ DisplayOK
    BY DEF ScrubOK, NoPlaintextSecrets, DisplayOK, DisplayExplained
  <1>4. ShownOK
    BY DEF ShownOK, NeverUnseen, Empty, Legacy, Keys
  <1>5. KeysOK
    BY DEF KeysOK, Pending
  <1>6. WrittenOK /\ CacheOK /\ ChannelOK
    BY DEF WrittenOK, CacheOK, ChannelOK, Alive
  <1> QED  BY <1>1, <1>2, <1>3, <1>4, <1>5, <1>6 DEF IInv
-----------------------------------------------------------------------------
(* A save under way has a configuration to save, and it is pending.        *)
LEMMA JobFacts ==
  ASSUME IInv, job # NoJob
  PROVE  /\ job.kind \in {"rotate", "import"} /\ job.next \in Config
         /\ job.left \in Lefts /\ job.next.password \notin {0, Absent}
         /\ job = [kind |-> job.kind, next |-> job.next, left |-> job.left]
         /\ \A f \in Keys : job.next[f] \in Pending[f] /\ job.next[f] # Absent
         /\ encrypted /\ phase = "running" /\ config \in Config /\ cache \in Config
  BY BootAssumption, AbsentAssumption
     DEF IInv, TypeOK, Lefts, PhaseOK, NewPasswords, Pending, Keys, Config, Password, Alive

(* What a save or its failure leaves of the job.                           *)
LEMMA NoJobIsNone == NoJob.kind = "none" /\ NoJob.left = <<>>
  BY DEF NoJob
-----------------------------------------------------------------------------
LEMMA Preserved ==
  ASSUME IInv, [Next]_vars
  PROVE  IInv'
  <1> USE BootAssumption, AbsentAssumption DEF IInv, vars, ram, history, Keys, Config,
          Password, Nvs, NoJob
  <1>1. CASE InitNvs
    <2>1. TypeOK'
      BY <1>1 DEF InitNvs, Empty, TypeOK, Phases, PhaseOK, Alive
    <2>2. PhaseOK'
      BY <1>1 DEF InitNvs, Empty, PhaseOK, Alive
    <2>3. NewPasswords'
      BY <1>1 DEF InitNvs, Empty, NewPasswords
    <2>4. ScrubOK'
      BY <1>1 DEF InitNvs, Empty, ScrubOK, NoPlaintextSecrets
    <2>5. ShownOK'
      BY <1>1 DEF InitNvs, Empty, ShownOK, NeverUnseen
    <2>6. DisplayOK'
      BY <1>1 DEF InitNvs, Empty, DisplayOK, DisplayExplained
    <2>7. KeysOK'
      BY <1>1 DEF InitNvs, Empty, KeysOK, Pending, StoredValid
    <2>8. WrittenOK'
      BY <1>1 DEF InitNvs, Empty, WrittenOK, PhaseOK, Alive
    <2>9. CacheOK'
      BY <1>1 DEF InitNvs, Empty, CacheOK, Alive, StoredValid
    <2>10. ChannelOK'
      BY <1>1 DEF InitNvs, Empty, ChannelOK, Alive, StoredValid, Pending, NoRemnants
    <2> QED  BY <2>1, <2>2, <2>3, <2>4, <2>5, <2>6, <2>7, <2>8, <2>9, <2>10
  <1>2. CASE ScrubSsid
    <2>1. TypeOK'
      BY <1>2 DEF ScrubSsid, Scrub, TypeOK, Phases, PhaseOK, Alive
    <2>2. PhaseOK'
      BY <1>2 DEF ScrubSsid, Scrub, PhaseOK, Alive
    <2>3. NewPasswords'
      BY <1>2 DEF ScrubSsid, Scrub, NewPasswords
    <2>4. ScrubOK'
      BY <1>2 DEF ScrubSsid, Scrub, ScrubOK, NoPlaintextSecrets, TypeOK, Phases
    <2>5. ShownOK'
      BY <1>2 DEF ScrubSsid, Scrub, ShownOK, NeverUnseen, TypeOK, Phases
    <2>6. DisplayOK'
      BY <1>2 DEF ScrubSsid, Scrub, DisplayOK, DisplayExplained
    <2>7. KeysOK'
      BY <1>2
         DEF ScrubSsid, Scrub, KeysOK, Pending, StoredValid, PhaseOK, Alive, TypeOK,
         Phases
    <2>8. WrittenOK'
      BY <1>2 DEF ScrubSsid, Scrub, WrittenOK, PhaseOK, Alive
    <2>9. CacheOK'
      BY <1>2 DEF ScrubSsid, Scrub, CacheOK, Alive, StoredValid
    <2>10. ChannelOK'
      BY <1>2 DEF ScrubSsid, Scrub, ChannelOK, Alive, StoredValid, Pending, NoRemnants
    <2> QED  BY <2>1, <2>2, <2>3, <2>4, <2>5, <2>6, <2>7, <2>8, <2>9, <2>10
  <1>3. CASE ScrubPassword
    <2>1. TypeOK'
      BY <1>3 DEF ScrubPassword, Scrub, TypeOK, Phases, PhaseOK, Alive
    <2>2. PhaseOK'
      BY <1>3 DEF ScrubPassword, Scrub, PhaseOK, Alive
    <2>3. NewPasswords'
      BY <1>3 DEF ScrubPassword, Scrub, NewPasswords
    <2>4. ScrubOK'
      BY <1>3 DEF ScrubPassword, Scrub, ScrubOK, NoPlaintextSecrets, TypeOK, Phases
    <2>5. ShownOK'
      BY <1>3 DEF ScrubPassword, Scrub, ShownOK, NeverUnseen, TypeOK, Phases
    <2>6. DisplayOK'
      BY <1>3 DEF ScrubPassword, Scrub, DisplayOK, DisplayExplained
    <2>7. KeysOK'
      BY <1>3 DEF ScrubPassword, Scrub, KeysOK, Pending, StoredValid, PhaseOK, Alive,
                  TypeOK, Phases
    <2>8. WrittenOK'
      BY <1>3 DEF ScrubPassword, Scrub, WrittenOK, PhaseOK, Alive
    <2>9. CacheOK'
      BY <1>3 DEF ScrubPassword, Scrub, CacheOK, Alive, StoredValid
    <2>10. ChannelOK'
      BY <1>3
         DEF ScrubPassword, Scrub, ChannelOK, Alive, StoredValid, Pending, NoRemnants
    <2> QED  BY <2>1, <2>2, <2>3, <2>4, <2>5, <2>6, <2>7, <2>8, <2>9, <2>10
  <1>4. CASE Load
    <2>1. TypeOK'
      <3>1. CASE UseStored
        BY <1>4, <3>1
           DEF Load, UseStored, StoreIfEmpty, Stored, StoredValid, TypeOK, Phases
      <3>2. CASE ReuseCached
        BY <1>4, <3>2 DEF Load, ReuseCached, StoreIfEmpty, TypeOK, Phases
      <3>3. CASE GenerateEphemeral
        <4>1. generated + 1 \in 0..MaxGen
          BY <3>3 DEF GenerateEphemeral, TypeOK
        <4>2. Generated \in Config
          BY <4>1 DEF Generated
        <4> QED  BY <1>4, <3>3, <4>1, <4>2
                 DEF Load, GenerateEphemeral, StoreIfEmpty, TypeOK, Phases
      <3> QED  BY <1>4, <3>1, <3>2, <3>3 DEF Load
    <2>2. PhaseOK'
      BY <1>4 DEF Load, UseStored, ReuseCached, GenerateEphemeral, StoreIfEmpty, Stored,
                  Generated, PhaseOK, Alive, TypeOK, Phases, KeysOK, Pending,
                  StoredValid
    <2>3. NewPasswords'
      BY <1>4 DEF Load, UseStored, ReuseCached, GenerateEphemeral, StoreIfEmpty, Stored,
                  Generated, NewPasswords, TypeOK, Phases, KeysOK, Pending, StoredValid
    <2>4. ScrubOK'
      BY <1>4 DEF Load, UseStored, ReuseCached, GenerateEphemeral, StoreIfEmpty, Stored,
                  Generated, ScrubOK, NoPlaintextSecrets
    <2>5. ShownOK'
      BY <1>4 DEF Load, UseStored, ReuseCached, GenerateEphemeral, StoreIfEmpty, Stored,
                  Generated, ShownOK, NeverUnseen, PhaseOK, Alive, KeysOK, Pending,
                  StoredValid
    <2>6. DisplayOK'
      BY <1>4 DEF Load, UseStored, ReuseCached, GenerateEphemeral, StoreIfEmpty, Stored,
                  Generated, DisplayOK, DisplayExplained, PhaseOK, Alive
    <2>7. KeysOK'
      BY <1>4 DEF Load, UseStored, ReuseCached, GenerateEphemeral, StoreIfEmpty, Stored,
                  Generated, KeysOK, Pending, StoredValid
    <2>8. WrittenOK'
      BY <1>4 DEF Load, UseStored, ReuseCached, GenerateEphemeral, StoreIfEmpty, Stored,
                  Generated, WrittenOK
    <2>9. CacheOK'
      BY <1>4 DEF Load, UseStored, ReuseCached, GenerateEphemeral, StoreIfEmpty, Stored,
                  Generated, CacheOK, Alive, StoredValid
    <2>10. ChannelOK'
      BY <1>4 DEF Load, UseStored, ReuseCached, GenerateEphemeral, StoreIfEmpty, Stored,
                  Generated, ChannelOK, Alive, StoredValid, Pending, NoRemnants
    <2> QED  BY <2>1, <2>2, <2>3, <2>4, <2>5, <2>6, <2>7, <2>8, <2>9, <2>10
  <1>5. CASE Start
    <2>1. TypeOK'
      BY <1>5 DEF Start, SkipAp, TypeOK, Phases, PhaseOK, Alive
    <2>2. PhaseOK'
      BY <1>5 DEF Start, SkipAp, PhaseOK, Alive
    <2>3. NewPasswords'
      BY <1>5 DEF Start, SkipAp, NewPasswords
    <2>4. ScrubOK'
      BY <1>5 DEF Start, SkipAp, ScrubOK, NoPlaintextSecrets
    <2>5. ShownOK'
      BY <1>5 DEF Start, SkipAp, ShownOK, NeverUnseen
    <2>6. DisplayOK'
      BY <1>5 DEF Start, SkipAp, DisplayOK, DisplayExplained, PhaseOK, Alive
    <2>7. KeysOK'
      BY <1>5 DEF Start, SkipAp, KeysOK, Pending, StoredValid
    <2>8. WrittenOK'
      BY <1>5 DEF Start, SkipAp, WrittenOK
    <2>9. CacheOK'
      BY <1>5 DEF Start, SkipAp, CacheOK, Alive, StoredValid
    <2>10. ChannelOK'
      BY <1>5 DEF Start, SkipAp, ChannelOK, Alive, StoredValid, Pending, NoRemnants
    <2> QED  BY <2>1, <2>2, <2>3, <2>4, <2>5, <2>6, <2>7, <2>8, <2>9, <2>10
  <1>6. CASE RotateBegin
    <2>1. TypeOK'
      BY <1>6
         DEF RotateBegin, Serving, Rotated, SaveOrder, TypeOK, Phases, PhaseOK, Alive
    <2>2. PhaseOK'
      BY <1>6
         DEF RotateBegin, Serving, Rotated, SaveOrder, PhaseOK, Alive, TypeOK, Phases
    <2>3. NewPasswords'
      BY <1>6 DEF RotateBegin, Serving, Rotated, SaveOrder, NewPasswords, TypeOK, Phases
    <2>4. ScrubOK'
      BY <1>6 DEF RotateBegin, Serving, Rotated, SaveOrder, ScrubOK, NoPlaintextSecrets
    <2>5. ShownOK'
      BY <1>6 DEF RotateBegin, Serving, Rotated, SaveOrder, ShownOK, NeverUnseen
    <2>6. DisplayOK'
      BY <1>6 DEF RotateBegin, Serving, Rotated, SaveOrder, DisplayOK, DisplayExplained
    <2>7. KeysOK'
      BY <1>6 DEF RotateBegin, Serving, Rotated, SaveOrder, KeysOK, Pending, StoredValid
    <2>8. WrittenOK'
      BY <1>6 DEF RotateBegin, Serving, SaveOrder, LeftKeys, WrittenOK
    <2>9. CacheOK'
      BY <1>6 DEF RotateBegin, Serving, Rotated, SaveOrder, CacheOK, Alive, StoredValid
    <2>10. ChannelOK'
      BY <1>6
         DEF RotateBegin, Serving, Rotated, SaveOrder, ChannelOK, Alive, StoredValid,
         Pending, NoRemnants
    <2> QED  BY <2>1, <2>2, <2>3, <2>4, <2>5, <2>6, <2>7, <2>8, <2>9, <2>10
  <1>7. CASE ImportBegin
    <2> PICK s \in Ssids, c \in Channels :
             job' = [kind |-> "import",
                     next |-> [config EXCEPT !.ssid = s, !.channel = c],
                     left |-> SaveOrder]
      BY <1>7 DEF ImportBegin
    <2>0. /\ config \in Config /\ job = NoJob /\ web /\ phase = "running" /\ encrypted
          /\ UNCHANGED <<encrypted, nvs, cache, phase, config, ephemeral, ui, web, ap,
                         display, generated, erased, tried, remnants, displayed, retired>>
      BY <1>7 DEF ImportBegin, Serving, PhaseOK, Alive
    <2>a. /\ job'.kind = "import" /\ job'.left = <<"ssid", "password", "channel">>
          /\ job'.next \in Config /\ job'.next.password = config.password
          /\ job' \in [kind : {"rotate", "import"}, next : Config, left : Lefts]
      BY <2>0 DEF SaveOrder, Lefts
    <2>1. TypeOK'
      BY <2>0, <2>a DEF TypeOK, Lefts
    <2>2. PhaseOK'
      BY <2>0 DEF PhaseOK, Alive
    <2>3. NewPasswords'
      BY <2>0, <2>a DEF NewPasswords
    <2>4. ScrubOK'
      BY <2>0 DEF ScrubOK, NoPlaintextSecrets
    <2>5. ShownOK'
      BY <2>0, <2>a DEF ShownOK, NeverUnseen
    <2>6. DisplayOK'
      BY <2>0, <2>a, NoJobIsNone DEF DisplayOK, DisplayExplained
    <2>7. KeysOK'
      BY <2>0 DEF KeysOK, Pending, StoredValid, TypeOK
    <2>8. WrittenOK'
      BY <2>0, <2>a DEF WrittenOK, LeftKeys
    <2>9. CacheOK'
      BY <2>0 DEF CacheOK, Alive, StoredValid
    <2>10. ChannelOK'
      BY <2>0, <2>a DEF ChannelOK, Alive, StoredValid, Pending, NoRemnants, TypeOK
    <2> QED  BY <2>1, <2>2, <2>3, <2>4, <2>5, <2>6, <2>7, <2>8, <2>9, <2>10
  <1>8. CASE SaveKey
    <2> DEFINE key == Head(job.left)
    <2>0. /\ job # NoJob /\ job.left # <<>>
          /\ nvs' = [nvs EXCEPT ![key] = job.next[key]]
          /\ job' = [job EXCEPT !.left = Tail(job.left)]
          /\ UNCHANGED <<encrypted, cache, phase, config, ephemeral, ui, web, ap, display,
                         generated, erased, tried, remnants, displayed, retired>>
      BY <1>8 DEF SaveKey
    <2>a. /\ key \in Keys /\ Tail(job.left) \in Lefts
          /\ LeftKeys(Tail(job.left)) = LeftKeys(job.left) \ {key}
      BY <2>0, JobFacts, LeftStep
    <2>b. /\ job'.kind = job.kind /\ job'.next = job.next /\ job'.left = Tail(job.left)
          /\ job'.kind \in {"rotate", "import"} /\ job'.next \in Config
          /\ job' \in [kind : {"rotate", "import"}, next : Config, left : Lefts]
      BY <2>0, <2>a, JobFacts
    <2>c. /\ nvs' \in Nvs
          /\ \A f \in Keys : nvs'[f] = IF f = key THEN job.next[f] ELSE nvs[f]
      BY <2>0, <2>a, JobFacts DEF TypeOK
    <2>d. Pending' = Pending
      <3>1. job' # NoJob
        BY <2>b, NoJobIsNone
      <3> QED  BY <2>0, <2>b, <3>1 DEF Pending
    <2>e. StoredValid => StoredValid'
      BY <2>0, <2>a, <2>c, JobFacts DEF StoredValid
    <2> HIDE DEF key
    <2>1. TypeOK'
      BY <2>0, <2>b, <2>c DEF TypeOK, Lefts
    <2>2. PhaseOK'
      BY <2>0, <2>b, JobFacts DEF PhaseOK, Alive
    <2>3. NewPasswords'
      BY <2>0, <2>b, JobFacts DEF NewPasswords
    <2>4. ScrubOK'
      BY <2>0, JobFacts DEF ScrubOK, NoPlaintextSecrets
    <2>5. ShownOK'
      BY <2>0, <2>b, <2>c, JobFacts DEF ShownOK, NeverUnseen
    <2>6. DisplayOK'
      BY <2>0, <2>b, NoJobIsNone DEF DisplayOK, DisplayExplained
    <2>7. KeysOK'
      BY <2>0, <2>c, <2>d, <2>e, JobFacts DEF KeysOK
    <2>8. WrittenOK'
      BY <2>0, <2>a, <2>b, <2>c DEF WrittenOK
    <2>9. CacheOK'
      BY <2>0, <2>e DEF CacheOK, Alive
    <2>10. ChannelOK'
      BY <2>0, <2>d, JobFacts DEF ChannelOK, NoRemnants
    <2> QED  BY <2>1, <2>2, <2>3, <2>4, <2>5, <2>6, <2>7, <2>8, <2>9, <2>10
  <1>9. CASE SaveFails
    <2>1. TypeOK'
      BY <1>9 DEF SaveFails, Pending, TypeOK, Phases, PhaseOK, Alive
    <2>2. PhaseOK'
      BY <1>9 DEF SaveFails, Pending, PhaseOK, Alive
    <2>3. NewPasswords'
      BY <1>9 DEF SaveFails, Pending, NewPasswords
    <2>4. ScrubOK'
      BY <1>9 DEF SaveFails, Pending, ScrubOK, NoPlaintextSecrets
    <2>5. ShownOK'
      BY <1>9 DEF SaveFails, Pending, ShownOK, NeverUnseen
    <2>6. DisplayOK'
      <3>1. CASE job.kind = "rotate"
        BY <1>9, <3>1, NoJobIsNone DEF SaveFails, DisplayOK, DisplayExplained
      <3>2. CASE job.kind # "rotate"
        BY <1>9, <3>2, NoJobIsNone DEF SaveFails, DisplayOK, DisplayExplained
      <3> QED  BY <3>1, <3>2
    <2>7. KeysOK'
      BY <1>9 DEF SaveFails, Pending, KeysOK, StoredValid
    <2>8. WrittenOK'
      BY <1>9 DEF SaveFails, Pending, WrittenOK
    <2>9. CacheOK'
      BY <1>9 DEF SaveFails, Pending, CacheOK, Alive, StoredValid
    <2>10. ChannelOK'
      BY <1>9 DEF SaveFails, Pending, ChannelOK, Alive, StoredValid, NoRemnants
    <2> QED  BY <2>1, <2>2, <2>3, <2>4, <2>5, <2>6, <2>7, <2>8, <2>9, <2>10
  <1>10. CASE SaveDone
    <2>0. /\ job # NoJob /\ job.left = <<>> /\ job' = NoJob /\ config' = job.next
          /\ tried' = IF job.kind = "rotate" THEN {} ELSE tried
          /\ remnants' = IF erased THEN remnants ELSE NoRemnants
          /\ UNCHANGED <<encrypted, nvs, cache, phase, ephemeral, ui, web, ap, display,
                         generated, erased, displayed, retired>>
      BY <1>10 DEF SaveDone
    <2>a. /\ Pending' = remnants' /\ encrypted /\ phase = "running" /\ job.next \in Config
          /\ job.next.password \notin {0, Absent} /\ job.kind \in {"rotate", "import"}
          /\ config' # Absent
      BY <2>0, JobFacts DEF Pending
    <2>b. \/ \A f \in Keys : nvs[f] = job.next[f]
          \/ erased /\ \A f \in Keys : nvs[f] = Absent \/ nvs[f] \in remnants[f]
      BY <2>0 DEF WrittenOK, LeftKeys
    <2>c. (\A f \in Keys : nvs[f] = job.next[f]) => StoredValid' /\ nvs'.channel # Absent
      BY <2>0, <2>a DEF StoredValid
    <2>1. TypeOK'
      BY <2>0, <2>a DEF TypeOK, NoRemnants
    <2>2. PhaseOK'
      BY <2>0, <2>a DEF PhaseOK, Alive
    <2>3. NewPasswords'
      BY <2>0, <2>a DEF NewPasswords
    <2>4. ScrubOK'
      BY <2>0 DEF ScrubOK, NoPlaintextSecrets
    <2>5. ShownOK'
      BY <2>0, <2>a DEF ShownOK, NeverUnseen
    <2>6. DisplayOK'
      BY <2>0, <2>a, NoJobIsNone DEF DisplayOK, DisplayExplained
    <2>7. KeysOK'
      BY <2>0, <2>a, <2>b, <2>c DEF KeysOK
    <2>8. WrittenOK'
      BY <2>0 DEF WrittenOK
    <2>9. CacheOK'
      BY <2>0, <2>b, <2>c DEF CacheOK
    <2>10. ChannelOK'
      BY <2>0, <2>b, <2>c DEF ChannelOK
    <2> QED  BY <2>1, <2>2, <2>3, <2>4, <2>5, <2>6, <2>7, <2>8, <2>9, <2>10
  <1>11. CASE FactoryReset
    <2>1. TypeOK'
      BY <1>11 DEF FactoryReset, Pending, TypeOK, Phases, PhaseOK, Alive
    <2>2. PhaseOK'
      BY <1>11 DEF FactoryReset, Pending, PhaseOK, Alive
    <2>3. NewPasswords'
      BY <1>11 DEF FactoryReset, Pending, NewPasswords
    <2>4. ScrubOK'
      BY <1>11 DEF FactoryReset, Pending, ScrubOK, NoPlaintextSecrets
    <2>5. ShownOK'
      BY <1>11 DEF FactoryReset, Pending, ShownOK, NeverUnseen
    <2>6. DisplayOK'
      BY <1>11 DEF FactoryReset, Pending, DisplayOK, DisplayExplained
    <2>7. KeysOK'
      BY <1>11 DEF FactoryReset, Pending, KeysOK, StoredValid, PhaseOK, Alive
    <2>8. WrittenOK'
      BY <1>11 DEF FactoryReset, Pending, WrittenOK, PhaseOK, Alive, KeysOK, StoredValid
    <2>9. CacheOK'
      BY <1>11 DEF FactoryReset, Pending, CacheOK, Alive, StoredValid
    <2>10. ChannelOK'
      BY <1>11 DEF FactoryReset, Pending, ChannelOK, Alive, StoredValid, NoRemnants
    <2> QED  BY <2>1, <2>2, <2>3, <2>4, <2>5, <2>6, <2>7, <2>8, <2>9, <2>10
  <1>12. CASE Restart
    <2>1. TypeOK'
      BY <1>12 DEF Restart, Reboot, Pending, TypeOK, Phases
    <2>2. PhaseOK'
      BY <1>12 DEF Restart, Reboot, Pending, PhaseOK, Alive
    <2>3. NewPasswords'
      BY <1>12 DEF Restart, Reboot, Pending, NewPasswords
    <2>4. ScrubOK'
      BY <1>12 DEF Restart, Reboot, Pending, ScrubOK, NoPlaintextSecrets
    <2>5. ShownOK'
      BY <1>12 DEF Restart, Reboot, Pending, ShownOK, NeverUnseen
    <2>6. DisplayOK'
      BY <1>12 DEF Restart, Reboot, Pending, DisplayOK, DisplayExplained
    <2>7. KeysOK'
      BY <1>12 DEF Restart, Reboot, Pending, KeysOK, StoredValid
    <2>8. WrittenOK'
      BY <1>12 DEF Restart, Reboot, Pending, WrittenOK
    <2>9. CacheOK'
      BY <1>12 DEF Restart, Reboot, Pending, CacheOK, Alive, StoredValid
    <2>10. ChannelOK'
      BY <1>12 DEF Restart, Reboot, Pending, ChannelOK, Alive, StoredValid, NoRemnants
    <2> QED  BY <2>1, <2>2, <2>3, <2>4, <2>5, <2>6, <2>7, <2>8, <2>9, <2>10
  <1>13. CASE PowerCut
    <2>1. TypeOK'
      BY <1>13 DEF PowerCut, Reboot, Pending, TypeOK, Phases
    <2>2. PhaseOK'
      BY <1>13 DEF PowerCut, Reboot, Pending, PhaseOK, Alive
    <2>3. NewPasswords'
      BY <1>13 DEF PowerCut, Reboot, Pending, NewPasswords
    <2>4. ScrubOK'
      BY <1>13 DEF PowerCut, Reboot, Pending, ScrubOK, NoPlaintextSecrets
    <2>5. ShownOK'
      BY <1>13 DEF PowerCut, Reboot, Pending, ShownOK, NeverUnseen
    <2>6. DisplayOK'
      BY <1>13 DEF PowerCut, Reboot, Pending, DisplayOK, DisplayExplained
    <2>7. KeysOK'
      BY <1>13 DEF PowerCut, Reboot, Pending, KeysOK, StoredValid
    <2>8. WrittenOK'
      BY <1>13 DEF PowerCut, Reboot, Pending, WrittenOK
    <2>9. CacheOK'
      BY <1>13 DEF PowerCut, Reboot, Pending, CacheOK, Alive, StoredValid
    <2>10. ChannelOK'
      BY <1>13 DEF PowerCut, Reboot, Pending, ChannelOK, Alive, StoredValid, NoRemnants
    <2> QED  BY <2>1, <2>2, <2>3, <2>4, <2>5, <2>6, <2>7, <2>8, <2>9, <2>10
  <1>14. CASE UNCHANGED vars
    <2>1. TypeOK'
      <3> HIDE DEF Keys, Config, Password, Nvs, NoJob
      <3>1. /\ encrypted' = encrypted /\ nvs' = nvs /\ cache' = cache /\ phase' = phase
            /\ config' = config /\ ephemeral' = ephemeral /\ ui' = ui /\ web' = web
            /\ ap' = ap /\ display' = display /\ job' = job /\ generated' = generated
            /\ erased' = erased /\ tried' = tried /\ remnants' = remnants
            /\ displayed' = displayed /\ retired' = retired
        BY <1>14
      <3> QED  BY <3>1, Zenon DEF TypeOK
    <2>2. PhaseOK'
      BY <1>14 DEF PhaseOK, Alive
    <2>3. NewPasswords'
      BY <1>14 DEF NewPasswords
    <2>4. ScrubOK'
      BY <1>14 DEF ScrubOK, NoPlaintextSecrets
    <2>5. ShownOK'
      BY <1>14 DEF ShownOK, NeverUnseen
    <2>6. DisplayOK'
      BY <1>14 DEF DisplayOK, DisplayExplained
    <2>7. KeysOK'
      BY <1>14 DEF KeysOK, Pending, StoredValid
    <2>8. WrittenOK'
      BY <1>14 DEF WrittenOK
    <2>9. CacheOK'
      BY <1>14 DEF CacheOK, Alive, StoredValid
    <2>10. ChannelOK'
      BY <1>14 DEF ChannelOK, Alive, StoredValid, Pending, NoRemnants
    <2> QED  BY <2>1, <2>2, <2>3, <2>4, <2>5, <2>6, <2>7, <2>8, <2>9, <2>10
  <1> QED
    BY <1>1, <1>2, <1>3, <1>4, <1>5, <1>6, <1>7, <1>8, <1>9, <1>10, <1>11, <1>12, <1>13, <1>14
       DEF Next
-----------------------------------------------------------------------------
LEMMA Invariant == Spec => []IInv
  <1>1. Init => IInv
    BY InitIInv
  <1>2. IInv /\ [Next]_vars => IInv'
    BY Preserved
  <1> QED  BY <1>1, <1>2, PTL DEF Spec

(* The variables keep their types: what a save writes is a configuration,  *)
(* and what it has left is the end of the order of the keys.               *)
THEOREM TypeCorrect == Spec => []TypeOK
  <1>1. IInv => TypeOK
    BY DEF IInv
  <1> QED  BY <1>1, Invariant, PTL

(* Without encryption, storage_init leaves no secret in flash and nothing  *)
(* puts one there.                                                         *)
THEOREM NothingInPlaintext == Spec => []NoPlaintextSecrets
  <1>1. IInv => NoPlaintextSecrets
    BY DEF IInv, ScrubOK
  <1> QED  BY <1>1, Invariant, PTL

(* No access point is started with a password that was never displayed.    *)
THEOREM NoApUnseen == Spec => []NeverUnseen
  <1>1. IInv => NeverUnseen
    BY DEF IInv, ShownOK
  <1> QED  BY <1>1, Invariant, PTL

(* What the display shows is in force, being saved, or failed to be saved. *)
THEOREM DisplayIsExplained == Spec => []DisplayExplained
  <1>1. IInv => DisplayExplained
    BY DEF IInv, DisplayOK
  <1> QED  BY <1>1, Invariant, PTL

(* Whatever was written when the device goes down, the next boot finds     *)
(* each field of the configuration, or what was being saved into it.       *)
LEMMA ConfigIsKept == IInv => RestartKeepsConfig
  <1> SUFFICES ASSUME IInv, phase \in {"start", "running"}, ~erased, NEW f \in Keys
               PROVE  \/ BootChoice[f] = config[f]
                      \/ BootChoice[f] \in Pending[f]
                      \/ f = "channel" /\ nvs[f] = Absent /\ Pending # NoRemnants
    BY DEF RestartKeepsConfig
  <1>1. config \in Config /\ cache \in Config /\ config # Absent
    BY AbsentAssumption DEF IInv, PhaseOK, Alive
  <1>2. CASE ~StoredValid
    BY <1>1, <1>2 DEF IInv, CacheOK, Alive, BootChoice
  <1>3. CASE StoredValid /\ nvs[f] # Absent
    <2>1. BootChoice[f] = nvs[f]
      BY <1>3 DEF BootChoice, Stored, Keys
    <2> QED  BY <1>1, <1>3, <2>1 DEF IInv, KeysOK
  <1>4. CASE StoredValid /\ nvs[f] = Absent
    <2>1. f = "channel"
      BY <1>4 DEF StoredValid, Keys
    <2>2. BootChoice[f] = Default
      BY <1>4, <2>1 DEF BootChoice, Stored
    <2> QED  BY <1>4, <2>1, <2>2 DEF IInv, ChannelOK, Alive
  <1> QED  BY <1>2, <1>3, <1>4

THEOREM ConfigSurvives == Spec => []RestartKeepsConfig
  BY Invariant, ConfigIsKept, PTL
=============================================================================
