# HexeVoice in TLA+

HexeVoice is a voice node: ESP32 endpoints stream audio to a FastAPI backend,
which elects the endpoint that heard the wake word, transcribes what it
captures, routes the text to an assistant and sends speech back. Around that it
keeps timers, touch panels, speaker profiles, intents, media, firmware, and its
own set-up with Core and the Supervisor. This directory models the parts where
the order of events matters, on the backend, in its Piper container and in the
firmware where the two must agree. Paths are relative to the repository;
`session_manager.py`, `pipeline.py` and `wake_election.py` are in
`src/hexevoice/voice/`; `main.py` in `src/hexevoice/`; `backend_client.cpp`,
`ota.cpp` and `wifi.cpp` in `firmware/components/endpoint_runtime/`.

## 1. The system

### Components

| Component | State | Operations | Talks to |
| --- | --- | --- | --- |
| Voice sessions (`session_manager.py`, `contracts.py`) | per endpoint: active session, audio buffers, pending follow-up and its timer task; per manager: operator windows, playbacks, command records | WebSocket, HTTP and binary audio events; commands; follow-up timer; status poll | endpoint, election, turn pipeline, history |
| Control connections (same file) | `_endpoint_runtimes`, one runtime per WebSocket | connect, replace, disconnect | coroutines of the same endpoint |
| Wake election (`wake_election.py`) | pending candidates, active decision | submit, status | sessions |
| Audio upload (`backend_client.cpp`, `session_manager.py`) | the firmware's capture and session; bodies and frames in flight | capture, post, finalize, follow-up | each other, over three connections |
| Recordings (`wake_recordings.py`, `micro_vad_chunks.py`, `wake.py`) | preroll per session, marked chunks, WAV and JSON files, the detector's stream | chunk, wake, end, delete, sweep | sessions, the wake service |
| Turn pipeline (`pipeline.py`, `stt_profiles.py`) | one turn; engines' models | transcribe, look up the speaker, decide, answer | STT services, Speaker ID, assistant, TTS |
| Assistant and intents (`assistant/`) | pending questions, intent registry file, adapters' last result | match, classify, ask, confirm, register, review | AI node, domain events |
| Maintenance by voice (`voice_admin_maintenance.py`) | code, lock, settings | evaluate, set | turns |
| Timers, touch panels (`timer_announcements.py`, `domain_events.py`, `weather_snapshots.py`, `p4_quick_actions.py`) | ownership cache, publisher's queue, forecasts, waiting results, dialogues | MQTT events, presses, playback ends | the timer and weather node over MQTT, sessions |
| Spoken files (`tts/service.py`) | audio files, sidecars, named assets | synthesise, convert, fetch, sweep | turns, nodes, endpoints |
| Piper container (`src/tts/service.py`) | table of warm processes, list of voices | `PUT /config`, `/health` | backend |
| Speaker identification (`speaker_id/`, `speaker_profile_review.py`) | profiles, candidates, reviews | enrol, verify, learn, review | turns, operator |
| Onboarding, trust, governance, last steps of set-up (`onboarding/`, `trust/`, `setup_*.py`, `migration.py`, `capabilities/`, `main.py`) | one JSON file | ten-step set-up, refreshes, bundles, smoke test | Core |
| Runtime supervision (`runtime/service.py`, `providers/setup.py`) | registration, saved settings, running engines | heartbeat, actions, reconcile | Supervisor, Docker, engines |
| Endpoint registry, discovery, BLE onboarding (`endpoint/`) | known endpoints, pairing jobs, leases, credentials | heartbeat, offer, pair, provision, hand over | endpoints, Core's BLE host |
| Settings and media of endpoints (`endpoint/runtime_config.py`, `media.py`; `settings.cpp`) | settings file, volume; manifest, files, SD cards | reload, push, ask; upload, deliver | endpoints, operator |
| Placement and quality (`voice_placement_calibration.py`, ...) | windows, samples, reports, observations | open, sample, end, clean up | sessions, history |
| Commands (`session_manager.py`, `backend_client.cpp`) | `_command_records`; the media queue and its worker | push, acknowledge, expire; run, queue, download | each other |
| Firmware update (`ota.cpp`, `wifi.cpp`) | `ota_active`, two partitions, otadata | accept, download, arm, validate, roll back | backend, ESP-IDF |

The sessions, turns and most routes run on **one asyncio event loop** and are
synchronous between awaits, so a handler without an `await` is atomic. What is
not atomic, and therefore hard:

* `_replace_endpoint_runtime` and `push_cancel_command` await a send in the
  middle; the follow-up timer is a task of its own;
* a session is woken by one of five handlers, fed by three transports, and
  ended by a dozen paths, each of which must file it and release its timer;
* the speaker is looked up in a thread beside the turn; intents may be invoked
  from a worker thread in the middle of one;
* MQTT events are handled in the network thread, which schedules coroutines on
  the loop; filters overlap, so events come twice;
* routes written as plain functions, conversions and sweeps run in worker
  threads and rewrite whole JSON files that nobody locks;
* commands' records are made after their send; answers come at any time, or not;
* engines and heartbeats are told things over HTTP by coroutines that the next
  request may overtake;
* on the endpoint nothing is atomic: FreeRTOS tasks share flags without a lock,
  and power may go at any time.

### What makes each component correct

* **Sessions**: one at a time, each filed once; nothing is transcribed that was
  not woken; a timer belongs to the live session; captured speech survives a
  duplicate start; operator captures are not answered; nobody waits for ever.
* **Connections**: the newest gets the commands; a replacement takes apart only
  what it set out to.
* **Election**: within a window the best candidate wins; rounds do not leak.
* **Hearing**: a session hears its own audio, all of it, in order; silence is
  cut but no speech; a recording is what was heard around its wake.
* **Turns**: what the speaker's identity decides holds for every text the turn
  considers; a yes confirms the last question; the maintenance code cannot be
  guessed at length; an AI node is asked once.
* **Timers and panels**: cache and display agree with the timer node once its
  events have arrived and the last one told the state; nothing is heard, shown or listened for twice.
* **Files**: what a sidecar or registry names exists, and is its owner's, whoever
  writes; what the media manifest names, while one request writes at a time.
* **Grants**: steps, tokens, leases, credentials and approvals follow the
  decisions they rest on.
* **Configuration**: no process is lost; endpoints hold what the file says, with
  the exceptions listed below; the Supervisor comes to know the node.
* **Commands and updates**: what a record says was done; a whole confirmed image
  is always left.

## 2. The modules

| Module | What it is | Checked by |
| --- | --- | --- |
| `WakeArbiter`, `SessionLedger`, `TrialBoot` | abstract specifications | refinement targets |
| `WakeElection` | submit, status, expiry | `wake_election`, proofs |
| `VoiceSession` | the sessions of one endpoint | `voice_session`, proofs |
| `EndpointConnections` | the coroutines behind one endpoint's sockets | `endpoint_connections`, `orphan_connection`, proofs |
| `CommandRecord`, `CommandTracking` | commands, on both sides | `commands`, proofs |
| `FirmwareUpdate` | an update over the air, on both sides | `firmware_update`, proofs |
| `TimerEvents`, `TimerSpeech` | timers' cache and display; alarms and announcements | `timers`, proofs |
| `WeatherCards`, `TimerCapture` | the two cards of the touch panels | `timers`, proofs |
| `VoiceTurn` with `AssistantTurns`, `AdminMaintenance` | one turn from the text to the answer | `turn`, `code_redacted`, proofs |
| `SpeechToText`, `AiNode` | the engines a turn hears with, the node it asks | `turn`, proofs |
| `WakeRecordings` | what is kept of the audio | `turn`, proofs |
| `AudioUpload` | how a capture reaches the backend, on both sides | `turn`, `followup_unheard`, proofs |
| `SpeechFiles`, `SpeechAssets` | spoken replies and named assets on disk | `services`, proofs |
| `NodeOnboarding`, `SetupReady` | set-up with Core; its last steps, in threads | `services`, proofs |
| `SpeakerProfiles` | the Speaker ID service and the review of lessons | `services`, proofs |
| `EndpointPairing` | registry, discovery, BLE onboarding, handoff | `services`, proofs |
| `IntentRegistry` | the registry's file and its writers | `services`, proofs |
| `EndpointMedia` | the media library and the SD cards | `services`, proofs |
| `PlacementTests` | tests, calibrations, observations | `services`, proofs |
| `ProviderRuntime` | engines, their settings, heartbeats | `provider_runtime`, proofs |
| `PiperService` | the warm processes in Piper's container | `provider_runtime`, proofs |
| `EndpointSettings` | settings file, hot reload, volume | `provider_runtime`, proofs |
| `MC*` | instances for TLC; `MCTimers`, `MCTurn`, `MCServices` and `MCProvider` put modules that share no state side by side, one per behaviour (`part`) | |
| `*Proofs` | inductive invariants, safety and refinement: one module for each subject, `EndpointProofs` for `EndpointConnections` and all of `MCProvider`, `ServicesProofs` for all of `MCServices` | tlapm |

Modules that do not share state are checked in one run, because a run asks one
question of all of them (are files whole? are grants justified?). The variable
`part` picks whose behaviour it is, so nothing is lost by it: what could
interact is in one module or in modules that extend each other
(`VoiceTurn` extends `AssistantTurns` and `AdminMaintenance`, `SpeechAssets`
extends `SpeechFiles`, `SetupReady` extends `NodeOnboarding`).

### WakeElection

A candidate has an arrival time and a rank (the score of `rank_key`, of which
only the order matters). `SubmitCandidate` first expires (`LivePending`,
`LiveDecision`), then either contests the active decision (`Contest`) or elects
among the pending ones (`Elect`). Two details of the code are kept because they
are easy to get wrong: the window of a decision is measured from its *winner*,
so each replacement extends it, and a rejected contester is *not* added to the
decision. `Status` expires too, because `status()` does.

### VoiceSession

`session` is `_active_session` with the parts of its history entry and buffers
the handlers test. There is one action per handler:

| Code | Actions |
| --- | --- |
| `_handle_session_start` | `SessionStart` (with `CanReplace`, `CaptureComplete`, the merges) |
| `_handle_audio_chunk` | `AudioChunk` = `Admit`, `KeepPrewake`, `Elect`, `Capture` in that order |
| `_handle_audio_end` | `AudioEnd`: `EndUnwoken`, or one of the four `Path`s to `FinishTurn`/`AwaitFollowup` |
| `_handle_wake_candidate` | `WakeCandidate` |
| `_handle_tts_playback_event` | `ReplyPlayed`, `PlaybackFailed`, `AlarmStarts`, `AlarmEnds` |
| `_followup_timeout` | `FollowupTimeout` |
| `_handle_session_cancel`, `cancel_from_operator` | `SessionCancel`, `OperatorCancel` |
| `push_cancel_command` (awaits) | `CancelSent`, `CancelApplied` |
| `status` | `StatusPoll` |
| `_stand_down_replaced_winner` | `StandDown` |
| `handle_websocket`, `_replace_endpoint_runtime` | `Connect`, `Disconnect`, `Reconnect` |
| operator windows, custom capture, alarms | `OpenWindow`, `WindowExpires`, `CustomCaptureToggles` |

`SetState` is `_set_session_state` with the transition table of
`contracts.py`: a transition that is not allowed *fails* the session, which the
rest of the code often does not notice; the models keep that. `filed` and
`record` are the history store; `heard` is what the last step handed to
speech-to-text. The endpoint numbers its sessions with a counter in RAM
(`backend_client.cpp:168,3474`), so `counter` returns to 0 when it restarts
(`MayReboot`) and later sessions have the ids of earlier ones. `upsert_session`
then replaces the older record: `File` writes `record` of that id again, and what
is accounted for is kept in `owed`, the sessions started and not yet filed. Of a
record only the id and whether it was filed as failed are kept; that the store
drops all but the newest hundred is left out. A start whose payload proves
invalid supersedes the live session and opens none (`opened` in `SessionStart`). The turn pipeline is a choice of outcome. Speech-to-text of an
empty buffer is modelled as a failure, as the adapters in `pipeline.py` answer
`empty_audio`.

### EndpointConnections

One coroutine per WebSocket, numbered in order of arrival, with a program
counter (`phase`) that stops at each await of `handle_websocket` and
`_replace_endpoint_runtime`. `VoiceSession` takes a replacement as one step;
this module shows what that leaves out. A session that a connection starts
while it is itself being replaced is dropped with it and never filed;
`DroppedOnlyDuringReplacement` says that this is the only way for one to be
lost. The theorems about `VoiceSession`, `AllSessionsFiled` above all, are to
be read with that restriction.

### CommandTracking

| Code | Actions |
| --- | --- |
| `_push_endpoint_command`, at its await | `Push`, `MakeRecord`, `PushFails` |
| `_handle_command_ack`, `_handle_command_error` | `HearAnswer` |
| `status`, `volume_status` (`_expire_commands`) | `StatusPoll`, with `Overdue` for the time |
| `handle_backend_event_json` | `Receive`, `AckReceived`, `RunQuick` |
| `queue_media_transfer` | `RefuseTransfer`, `QueueTransfer`, `AckQueued` |
| `media_transfer_task`, `write_media_transfer` | `TakeTransfer`, `StartTransfer`, `FailTransfer`, `StoreTransfer` |
| `send_ws_text` | `Send`: arrives in order, or is lost |
| the WebSocket, a restart | `Connect`, `Disconnect`, `Reboot` |

The channels are sequences, as one WebSocket delivers in order; what is under
way when it closes is lost. The sends of the two firmware tasks interleave a
message at a time, which is what `g_ws_send_lock` gives. `outcome` is what the
endpoint really did, which the records are compared with. Asset preparation
(`queue_asset_prepare`) queues to the same worker in the same order of steps.

### FirmwareUpdate

| Code | Actions |
| --- | --- |
| `push_ota_update`, `clear_ota_commands`, `status` | `Push`, `Clear`, `StatusPoll`, `Overdue` |
| `start_ota_update` | `RefuseUpdate`; `QueueUpdate`, then `MarkActive` |
| `ota_task` | `TakeUpdate`, `BreakOff`, `Mismatch`, `Install`, `GiveUp` |
| restart, bootloader | `Restart` with `Boots` |
| `validate_pending_boot_image`, `init_ota` | `ConfirmTrial`, `RejectTrial`, `StartUnconfirmed` |
| `wifi_event_handler` | `WifiConnects`, `WifiDrops` |
| `websocket_task` | `SocketOpens`, `SocketCloses` |

`start_ota_update` is two steps because `ota_task` may run between its
`xQueueSend` and its assignment to `ota_active`. A slot has the bytes, the
version and the otadata state that ESP-IDF keeps; `Boots`, `Slots` and `Other`
are external and say what the code relies on: an armed image is booted once on
trial, an unconfirmed one is aborted at the next boot, and the other slot is
tried before the factory image. `Restart` may come between any two steps.

### Timers and touch panels

| Code | Actions |
| --- | --- |
| `AsyncDomainEventPublisher` | `AskCreate`, `AskStatus`, `AskControl`, `AskAdjust`, `AskSnooze` queue; `Publish` is its thread |
| MQTT client thread, `TimerOwnershipCache` | `Subscribe`, `Disconnect`, `Receive`, `Lapse` |
| the display coroutine, its two sends | `ShowTimers`, `ShowScreen` |
| `TimerAnnouncementService`: dedup in the thread, coroutines on the loop | `Hear`; `Play`, `Announce` |
| `weather_snapshots.py` in the MQTT thread | `AcceptForecast`, `AcceptResult`, `TellListeners` |
| `p4_quick_actions.py` on the loop | `HandleResult`, `KeepWaiting`, `ShowWeather`, `RenderFor`, `DrawCard`, `PrepareAhead`; `PressTimer`, `BeginTimer`, the steps of a prompt and of an answer |

The timer and weather node and the broker are external: any timer may complete
at any time, an event comes once or twice. A request that is published is done
(`CreateTimer`, `TellStatus`, ...), or refused, and the node says so (`Denied`), or
is lost (`NotPublished`). The schema of its answers has a failure for every
request that asks (`docs/events-schemsa/timer-response-event.schema.json:23-27`,
`tests/test_event_schemas.py:48-63`) and does not ask it to carry the timer's state
or id. With the state, a failure is to the cache any event with that state; without
one it is an event of its own, "unmet" for `create_failed`, `status_failed` and
`adjust_time_failed`, "stop_failed" for `stop_failed` and `cancel_failed`, about the
timer of the request or, if it names none, about its session. `untold` has those
whose last event did not tell their state.

### A turn

`VoiceTurn!Begin` is `complete_turn` up to the lookup of the speaker,
`SpeakerAnswers` its thread, `Retry` the second transcription, `Decide` the
assistant (`HandleTurn`) and the maintenance verdict (`Evaluate`), `Conclude`
what is done with the answer. `Invoke` is the intent API, in two steps because
it runs in a thread; `ApiSays` names the texts it may be given.
What a text means is a table (`Local`, `Guess`), of one text for each kind the
code tells apart.

`SpeechToText` follows a recording: `Hand` cuts the silence (`Trim`), `Load` and
the `Transcribe...` actions are the engines, `Judge` and `Settle` the second
engine. `AiNode` asks the classifier and then the assistant: `ResolveTarget`
asks Core, `Execute` the node, whose late answer counts as a failure though it
did the work.

### Audio

`WakeRecordings` has one action per handler that touches what is kept
(`AudioChunk`, `Woken`, `EndTurn`, `EndSession`, ...) and the steps of writing a
recording, since `StartSweep` and `SweepFile` run in a thread beside them. The
open VAD chunks of a session are a sequence in the order of the Python dict: a
debug kind that is open is updated where it is (`VadPut`), a new one comes last.
Writing a chunk that was marked closes the one of that mark that is still open
(`FlushPending`).
`AudioUpload` has the firmware (`StartCapture`, `Hear`, `SpeechEnds`,
`Finalize`, `CaptureTimeout`, `SendEnd`, `Receive`, ...) and the backend's
handlers (`HandleControl`, `HandleBody`, `HandleFrame`, `FollowupEnds`, ...)
over three connections of which only the messages on one are ordered.

### Files

`SpeechFiles`: a request, its conversion thread, a fetch and three sweeps, each
step one read or write of a sidecar. `SpeechAssets`: `_synthesize_managed`, with
its staging streams shared between nodes. `IntentRegistry`: a change is
`RegisterIntent` (and so on) in memory, then `Replace`, `Dump`, `StoreRecords`,
`Adopt`, the four steps of a save that threads interleave. `EndpointMedia`: an
upload is `BeginUpload`, `WriteTemp`, `ReplaceFile`, `SaveManifest`; a transfer
`Deliver`, `Download`, `CheckTransfer`, `StoreTransfer`. `SpeakerProfiles`: one
action per route of the service, and an approval in three steps, since the node
awaits the service. `PlacementTests`: one action per request.

### Set-up and pairing

`NodeOnboarding` has one action per route, each a whole load, call of Core and
save, with an answer that may be lost; `CoreDecides`, `CoreRevokes` and
`CoreFindsReady` are Core. `SetupReady` has the routes that run in threads: the
file is loaded in `BeginRequest` and saved in a `Finish...`. `EndpointPairing`
takes the BLE calls apart at each request (lease, call, release), because the
devices move meanwhile though the loop waits.

### Engines, heartbeats and settings

`ProviderRuntime`: `SaveSetup`, `SaveChoice` and the steps that follow
(`SttIsTold`, `SettingsAreWritten`, `EnvironmentIsWritten`, `PiperIsTold`,
`ClearingReads`, `ClearingWrites`), `ServiceAction` and `SetupApplies` (control
scripts), `ReconcileReads` and `ReconcileTells` (the task after a restart),
`BeatStarts` and `BeatContinues` (a heartbeat, a request at a time).
`PiperService`: `PUT /config` in the steps its two locks leave (`UpdateConfig`,
`ReplaceWorkers`, `StopOld`, `StartNew`, `KeepList`), beside `Health`.
`EndpointSettings`: `EditFile`, `Connects` with its push, `Tick` and `PushNext`
(the hot-reload round), `Speak`, `RunAsk` and `FinishAsk` (the spoken volume, with
its task), `SendNext` and `SendFails` (awaited sends), and on the endpoint
`Receive`, `SaveMute` (the second of two writes to NVS), `Restart`, `UseKnob`.

## 3. What the runs show

Passing runs, with what their bounds are for:

* `wake_election`: three ranks, four candidates, six ticks, window 2. Four
  candidates are enough for a winner, its replacement, a rejected one and one
  of the next round; six ticks for two rounds to expire in.
* `voice_session`: two ids between two boots and any number of boots, so that one
  session supersedes another, an old one's timer, cancel or event meets the new
  one, and every id comes back; both windows, custom captures
  and alarms on. Ages have the four ranges that the thresholds 750 ms, 10 s and
  60 s tell apart. Also checks that no session waits for ever.
* `endpoint_connections`: four connections: one in use, two that replace it at
  the same time, one that replaces what they made.
* `commands`: one quick command, one transfer and a media queue of one, so that
  the two firmware tasks run against each other. That the queue keeps its bound
  when more transfers come is proved, not run.
* `firmware_update`: versions 1 to 3 of which 2 is faulty: two updates in a row
  with a roll-back between them, so that both slots have held every role.
* `timers`: two timers (one may be taken for the other), due at different times,
  two pending display coroutines, two links on the MQTT connection and a
  publisher's queue of one, which fills; in a part of its own one failure that
  does not tell the state, which is enough for a wrong record that is then
  selected, asked about and put right, with one display coroutine at a time and
  without a lost connection (those that do tell it are as free as any event); two results, of which one waits for a forecast, and two forecasts
  of two places; two dialogues of one panel, so that a second press overtakes
  the first, and two prompts.
* `turn`: one endpoint with two sessions, the older of which may still be
  asked; the API may say "gate", a question, and "yes", so that it asks over a
  turn's question and answers one; two wrong codes lock; two lessons are kept.
  Recordings of three frames;
  two texts to the AI node, so that what is remembered of the first decides the
  second; chunks shorter and longer than a frame, a preroll that is not a
  multiple of either, two days; two captures of two frames with one body in
  flight, so that an old body meets the next session.
* `services`: spoken files live two ticks of ten minutes, and a text may be spoken
  in two takes, so that an old one is swept beside a new one; two nodes share one name; two profiles with two public ids and two engines; a built-in and a
  service's intent with a writer for the loop and one for a turn; two uploaders
  of two assets; two devices on one address; one Core with two sessions, of which one
  when a bundle is imported; one thread for the last steps, beside the loop; three windows for two places in a
  history of two.
* `provider_runtime`: two ids of the node and two heartbeats at once; two tries
  of a reconciling task; three generations of Piper's workers, requests that
  overlap being left aside, as processes are then lost (see below); two endpoints, two edits
  of the file, two questions about the volume, volumes 0 and 1 (zero is the only
  one the code treats apart).

Several invariants are conjunctions of a module's properties, named in the MC
module: `FilesInv`, `GrantsInv`, `HearingInv`, `ConfigurationInv`, `PanelInv`,
`HeardOnce`, `IdentityPolicies`, `WhatTurnsLeaveBehind`. Each part has a mutant
of its own in `PROJECT.json` where a bug of its own would break it.

Violation runs are disagreements between the code and its documents or tests;
each is one finding of `PROJECT.json`:

| Run | The documents say | The code does |
| --- | --- | --- |
| `orphan_connection` | the duplicate socket gets the commands (`tests/test_voice_websocket.py:492`) | not the slower of two |
| `code_redacted` | the request is allowed with the right code (`tests/test_voice_pipeline.py:1142`) | the assistant redacts the text before the code is checked |
| `followup_unheard` | the endpoint answers a follow-up question (`docs/voice-intent-registration.md:221`) | an endpoint that asks when to upload is never told to, and waits until the follow-up is cancelled |

### Other differences seen while modelling

The models have these behaviours too; where a property is named, it is stated in
the module and not run. They are narrower than the ones above, or turn on what a
document means.

Sessions and audio:

* A follow-up's timer also fires during the answer (`FollowupTimesOutInSilence`;
  `docs/voice-intent-registration.md:221`). An enrollment phrase is answered if
  the window closes before `audio.end` (`EnrollmentNeverAnswered`;
  `docs/speaker-id-service.md:235`).
* Chunks buffered for an alarm's stop phrase are kept when the session is then
  woken, and transcribed (`session_manager.py:2526`; `docs/architecture.md:59`).
* The grace of `docs/operations.md:458` and the ten seconds of
  `docs/openwakeword-runtime.md:135` are computed from the endpoint's clock: they
  end at once when it is set between (`session_manager.py:2284`, `:471`).
* A session started while its connection is being replaced is not persisted
  (`session_manager.py:418`, `docs/local-tts-runtime.md:258`).
* A follow-up's upload holds the question's audio again, as the buffer is not
  cleared (`AnswersAreHeardAlone`). `audio.end` names the session there is after
  the post, and `session.completed` or `session.error` of an old session ends a
  newer one (`backend_client.cpp:1903`); frames of the audio socket carry no
  session. A body that comes while the session responds is answered 202 and
  dropped.
* During a speaker-enrollment window, and while an alarm plays before the wake, a
  recording holds the preroll twice (`docs/openwakeword-runtime.md:124`).
* `attach_transcript` renews only the metadata's age, so the audio may be swept
  before it; the detector's `_audio_buffers` of a session are never released.

Commands and updates:

* The media worker's verdict may be overwritten by the queue's acknowledgement
  (`VerdictsAreFinal`; `docs/endpoint-sd-media-contract.md:178`); a late answer
  opens a record that has timed out (`session_manager.py:5101`,
  `docs/voice-node-roadmap.md:279`); one handled before the record is made is
  dropped (`session_manager.py:1657`).
* Checksum mismatches are only logged (`MismatchIsReported`;
  `docs/firmware-ota.md:263`); a station lost during an update that failed does
  not reconnect (`StationReconnects`; `docs/firmware-baseline.md:19`);
  `ota_active` may be set after the update failed (`ota.cpp:821-829`).

Turns, intents and identity:

* The first text's request is executed although the second transcription is
  authoritative (`FinalResponseActs`; `docs/stt-intent-first-fallback.md:23`).
  A personal action is executed without an identity where the answer's policy
  comes after it (`PersonalNeedsIdentity`; `docs/task-details.md:2525`). The
  lookup starts before the policy is known (`docs/speaker-id-service.md:638`).
  A child recognised after the first decision gets the answer.
* Concurrent saves of the registry can lose a registration, bring a disabled
  intent back (`StatusIsTheOperators`; `docs/voice-intent-registration.md:97`),
  and leave file and memory different. An intent updated to be personal keeps
  its policy `use_if_ready` (`intent_registry.py:1194`).
* One text may be executed by the AI nodes of both Core's and the configured URL.
* A rejected candidate may have been learned (`docs/speaker-id-service.md:247`);
  approval with a lost answer appends its sample again; a failed `PUT /config`
  leaves `enabled` changed in memory.

Timers and panels:

* A request that the timer node refuses may leave cache and display wrong, against
  "keeps the endpoint countdown and timer activity UI synchronized"
  (`docs/voice-intent-registration.md:174-178`). `_timer_state_from_event` goes by the
  beginning of the type (`timer_announcements.py:593-605`): without a state in the
  event, `stop_failed` and `cancel_failed` end the record of a timer that runs, and
  `create_failed`, `status_failed` and `adjust_time_failed` make or keep an active
  one where there is none. One that never had a due time does not lapse, and
  `select_timer` may choose it, or call the choice ambiguous for its sake, until an
  event tells the timer's state; one kept under a session's id is never told
  anything. `CacheAgreesWhenSettled` and `DisplayAgreesWhenSettled` therefore exempt
  the timers of `untold`, as they do for events lost with the connection, and claim
  that the next event that tells the state puts both right. No run of its own shows
  it: the schema allows a failure to tell the state, and the docs only ask for it in
  the other responses.
* The answer to "how much time is left" counts as answered by "Checking the
  timer." (`StatusAnswerSpoken`; `docs/voice-intent-registration.md:129`).
* With another timer active a finished timer's screen is never shown
  (`session_manager.py:1533-1536`).
* A weather result opens the newest forecast, not the one it names
  (`OpensItsForecast`; `docs/waveshare-p4-7b-roadmap.md:282`); one stored as
  pending after its forecast came is never shown.
* A panel's timer dialogue survives a disconnect or an error: every later turn at
  the panel is taken for its answer; a second press's dialogue may be closed by
  the first's confirmation.

* A question the intent API asks over a turn's one leaves the turn's session with
  the old question: `_clear_pending_followup` takes only the endpoint's entry and
  the API's own (`assistant/service.py:1683-1757`), so after a "yes" to the new
  one a second "yes" of that session confirms the old
  (`docs/voice-intent-registration.md`, "The pending follow-up … is cleared").
  `YesConfirmsTheLastQuestion` allows this one case, by the ghost `hidden`: the
  questions over which the API asked another.

Files, placement, media:

* A named asset kept until it is replaced loses its audio with its staging stream
  (`docs/local-tts-runtime.md:31,41,50`); a long-lived reply's sidecar is
  overwritten by the conversion's old copy, and expires.
* Overlapping uploads and deletes of media lose entries or bring them back
  without a file; two uploads of one asset share a temporary file; delivering
  one asset to a second endpoint replaces the first's command record, as the
  request id is the asset's (`main.py:2507`).
* The end of a placement test closes the window that replaced its own
  (`WindowsAreAnswered`; `docs/voice-placement-testing.md:21`). An `observed_at`
  in the future leaves an open calibration without a next sample.

Set-up and pairing:

* Polling again after the approval clears a pending activation, and takes a
  trusted node back to "approval". The routes in threads undo a revocation of
  trust with the file they loaded. `complete` marks the node ready from an old
  smoke test, without asking Core (`docs/architecture.md:262`), and a failed test may lead to the page itself (`FailedTestLeadsOn`).
* A bundle imported without a token leaves the node trusted (`migration.py:96`).
* A new SSID saved without a password keeps the old password
  (`ble_wifi_credentials.py:42-60`); a handoff may reach another device on the
  record's address; concurrent handoffs of one session both install.
* A renewed offer resets an endpoint's audience mode (`discovery.py:66-84`,
  `docs/task-details.md:2455`).
* Helper scripts of `setup_host.py` run inside an async route and block the loop;
  `rerun-supervisor-registration` then requests the node's own API, which cannot
  answer, and times out (`setup_host.py:745-766`, `main.py:3976-3980`).

Engines and endpoint settings:

* An edit of the settings file that a connecting endpoint reads first, or that
  comes in the middle of a round, or whose round a failed send ends, never
  reaches the endpoints already connected (`ReloadReaches`;
  `endpoint/runtime_config.py:150`, the hot-reload test of
  `tests/test_voice_websocket.py`).
* "Turn it up" starts from the volume last asked for by voice; neither the file's
  nor the knob's changes are noted, and two adjustments may start from the same
  one. Power lost between saving volume and mute leaves an endpoint muted at a
  volume above zero. A setting with `restart.on_apply` restarts the endpoint at
  every connection. `endpoint.settings.open` has no way to be said.
* Overlapping `PUT /config` requests to Piper leave processes nobody stops; a
  failed one has replaced the workers but not the list; the warm workers are
  never used for synthesis (`docs/local-tts-runtime.md:158`).
* A reconciling task keeps telling an engine the configuration it read first; an
  error status counts as applied; a restart from the script does not apply the
  saved settings (`RestartAppliesSettings`; `docs/local-tts-runtime.md:78`). The
  preload of a model never reaches the engine.

`CHECK_DEADLOCK FALSE` is set where the bounds stop the model: ids, candidates,
connections, captures, edits and questions run out.

### Fairness

Only what the backend's own scheduling gives: `Tick` (time passes),
`FollowupTimeout` (the event loop runs a timer that is due) and `StatusPoll`:
`maintain_registered_pages` in `node_ui.py`, started by `main.py`, rebuilds
the endpoints page every ten seconds and that page calls `status()`, which
expires stale sessions and overdue commands. Nothing is assumed of the endpoint
or the operator. `CommandTracking!LiveSpec` assumes `Overdue` and `StatusPoll`,
no more. `ProviderRuntime!RuntimeFairness` is weak fairness of the heartbeat's
steps: the loop in `main.py` starts one every five seconds, and each of its
requests ends, as the client of the Supervisor has a timeout. `RuntimeIsKnown`
assumes in its own premise that the Supervisor and the node's identity settle.
`FirmwareUpdate!LiveSpec`, which no run uses, adds the endpoint's tasks and that
Wi-Fi and the socket connect in the end: `StationReconnects` and
`MismatchIsReported` fail although all of that is granted.

## 4. What is proved

For all values of the constants, from the assumptions named in the modules that
declare them (`VoiceAssumption`, `ElectionAssumption`, `ConnectionsAssumption`,
`UpdateAssumption`, `CommandAssumption`, `TimerAssumption`, `SpeechAssumption`,
`CaptureAssumption`, `WeatherAssumption`, `MaxFailedAssumption`,
`ApiAssumption`, `ReviewAssumption`, `SpeechToTextAssumption`,
`AiNodeAssumption`, `UploadAssumption`, `RecordingsAssumption`,
`SpeechFilesAssumption`, `AssetsAssumption`, `OnboardingAssumption`,
`SpeakersAssumption`, `PairingAssumption`, `RegistryAssumption`,
`MediaAssumption`, `PlacementAssumption`, `RuntimeAssumption`,
`PiperAssumption`, `SettingsAssumption`): any number of ids, connections,
timers, captures, Cores, endpoints, profiles, files, writers and requests, any
window, rank, limit, frame, preroll and time a file is kept. They ask that an
absent value is none of those there are, that bounds are numbers, and little
more: the built-in intents are distinct, the stock voice is a choice, the beep
that the backend makes for itself is a media asset. What texts there are and what they mean is no constant but the table of
`AssistantTurns`, one text for each kind the code tells apart.

* `VoiceSessionProofs`: `IInv` is inductive. It strengthens the checked
  invariants by `LiveIsSound`: the live session belongs to a live connection;
  one that has left `idle` has a recorded wake; an idle one holds only pre-wake
  audio; one with no counted chunk holds no audio. Without the first,
  `TimerOwnsLiveFollowup` is not preserved by a disconnect; without the others
  `NothingHeardWithoutWake` is not by `AudioEnd`. The proof has one lemma per
  handler (`...Keeps`), and the handlers share three facts about what a step
  does to the session: nothing (`LeftAlone`), a change (`Kept`), its end
  (`Ended`). The ledger's `taken` are the ids up to `counter`, so that a filed
  outcome may be rewritten only after a `Restart` and by a session that ended. Type correctness, the four invariants, `SupersededHeldNoSpeech`
  and the refinement of `SessionLedger` follow.
* `WakeElectionProofs`: `IInv` says the active decision is well formed and its
  winner outranks its candidates, pending candidates are recent, and a live
  decision owns them. Type correctness, the two invariants, the action property
  and the refinement of `WakeArbiter` follow.
* `FirmwareUpdateProofs`: `IInv` relates both slots, otadata and `ota_task`.
  `ConfirmedRuns`: while a confirmed image runs it is not faulty, and otadata
  prefers it, or else a whole newer image that waits for the restart, or one
  already given up. `TrialRuns`: while an image is on trial the older one is
  whole, confirmed and sound, and nothing is being written over it (ESP-IDF
  refuses to, and the proof needs it). Without these, what a restart boots
  could not be told. `Booting` says what the bootloader does slot by slot,
  `Rebooted` covers every restart, `FlashUntouched` every step that leaves the
  flash alone. Types, `OnlySignedImagesRun`, `ASoundImageIsKept` and the
  refinement of `TrialBoot` follow.
* `CommandTrackingProofs`: the records are right because the answers under way
  are, so `IInv` speaks of those: `AnswersAreTrue` of each alone,
  `AnswersInOrder` of what may still follow a verdict (the same one, or the
  second acknowledgement of a transfer). Both hold because of `OnePlace`: a
  request is on the socket, with the event task, in the queue or with the
  worker, in one of them at a time and only while nothing is decided. Types
  with the bound of the queue, `VerdictsAreTrue` and
  `VerdictsOnlyLostToQueueAck` follow.
* `EndpointProofs`, first part: connections are numbered as they come, and
  `IInv` says what that order means at every await: `InOrder` (none comes
  before an earlier one), `RegisteredWasServed` (the registered runtime is of a
  connection that got past its own replacement), `ReplacesAnOlder` (what is
  being closed came before the connection that closes it) and
  `SessionsAreServed` (a session is of a handler that serves, and one that a
  replacement cancelled has been filed). `NewerConnectionsSpared` rests on the
  third, `DroppedOnlyDuringReplacement` on the last. Types, that no
  session outlives its handler, and the two action properties follow. Which
  connection is registered when two replacements race is not claimed: the run
  `orphan_connection` shows it need not be the newest.
* `EndpointProofs`, second part: what `MCProvider` puts side by side, each
  module's own specification (`RuntimeSpec`, `PiperSpec`, `SettingsSpec`) and
  then the instance (`ConfigurationHolds`). `RuntimeInv`: a heartbeat under way
  has the id that Core gave, and a task that is about to ask an engine has
  something left to ask it for, or it could ask for what nobody chose.
  `PiperInv`: a request that works alone starts only workers of the table and
  holds the replaced ones until it has stopped them (`AloneSound`), and no
  request is at work, nor any process there, while the container is down;
  without the first, `ProcessesAreListed` is lost between `ReplaceWorkers` and
  `StopOld`. `SettingsInv`: what was read is no newer than the file and equal to
  it under one signature (`ReadInv`); whoever is connected and not still to come
  in the round was sent it (`RoundInv`); and one volume comes last, both for the
  endpoint, on the wire or in the device (`SaysLast`), and for the backend, in
  the requests that were sent or in what it believes (`AskedLast`), unless the
  knob, a restart or a lost socket came between (`VolumeInv`). That needs the
  requests to be sent in the order they were made (`SentFirst`).
* `TimersProofs`: `SpeechInv` orders a timer's events, in the stream, the
  deduplication and the coroutines, so that each is taken up once; `CaptureInv`
  says a panel speaks for a dialogue and listens after its prompt; `WeatherInv`
  that a result is in one place until it is answered. `PanelsAnswerOnce`
  carries the hypothesis `FewResults`: no more results arrive than ids are
  remembered, 100 in the code, since a result that was forgotten would be
  accepted again. `CacheInv` says of each timer whose last event told its state
  that the last event on the wire, or the cache when there is none, says whether it
  runs (`LastWord`, `CacheAgrees`), that its creation comes before all else about it
  (`CreatedFirst`), and that the provisional record is gone once its own tells the
  state (`OneRecord`); a failure that does not tell may leave both. `JobsKnown` is
  needed for the failures: a request other than a creation is about a timer the node
  has heard of, or its refusal would be the first event about it. All that needs
  `DuesApart`: the cache takes a provisional timer for the one that is due at the
  same time, so two timers with the same due time may be confused; `EventTypes`
  needs no such hypothesis. `DisplayInv` follows the display's coroutines: when none is left
  at its first send, the last one carries what the cache holds, or the screen
  does.
* `TurnProofs` is about all that `MCTurn` puts side by side. `TurnInv` is
  `AdminInv` (each refused code is counted, and the lock is on from the last
  one allowed), `QuestionsInv` and `IdentityInv`. `QuestionsInv` needs
  `NewestSession`: the newest session of an endpoint keeps the endpoint's
  question or a hidden one, and the next session none; without it a "yes" could
  confirm a question of a session that is over. `IdentityInv` needs
  `AnswerFollowsPolicy`: the speaker is looked up before the text is
  understood, so while the turn waits the policy it was given must still be
  that of its text.
  `AiInv`: before the assistant has failed at Core's node, nothing was sent by
  it (`NotYetSent`), which makes the retry at the other address the first there.
  `SttInv`: what each engine was given, by where the turn is.
  `UploadInv`: a session's buffer holds its own captures (`OwnAudio`), one
  stream is open (`OneStream`), and what the backend has answered 202 to is
  buffered, transcribed, or of a session that is over (`AcceptedIsKept`), though
  the answer is still on its way.
  `RecordingsInv`: preroll and session audio are one run of bytes up to the last
  that came (`OneRun`), the VAD chunks, open, pending and written, share no byte
  (`VadInv`), and metadata is as new as its audio, which the sweep has still to
  visit if it would delete it (`SweepInv`): it visits audio and metadata in any
  order, in a thread, while the recorder writes.
  The theorems `NodeIsAskedOnce`, `SpeechIsTranscribed`, `UploadsAreHeard`,
  `RecordingsAreWhatWasHeard` and `NoAudioIsForgotten` are about each module's
  own specification (`AiSpec`, `SttSpec`, `UploadSpec`, `RecordingsSpec`), as
  those about the turn are about `TurnSpec`, without the limits of a `part`;
  `HearingHolds` puts them together for `MCTurn`, as the run checks them.

* `ServicesProofs` is about all that `MCServices` puts side by side; each service
  has an invariant, and theorems about its own specification but for what the
  division into parts is needed for.
  `AssetsInv`: what a request, a conversion and a fetch read of a sidecar is
  still good when they write it back (`StreamSound`: while somebody works on a
  stream its sidecar cannot expire), and a name is staged by its own node.
  `SetupInv`: tokens and activations are those of consumed sessions
  (`FileSound`, which sessions keep as they grow), a trusted node's was issued
  (`Issued`), a step follows its trust (`StepSound`), and where there is one Core
  a token that lost its trust is not registered there (`Disowned`): otherwise
  polling the governance with it would take the node on. What a thread's file
  says has to hold like the node's, since it may be saved (`RequestsInv`).
  `SpeakersInv`: whoever waits to mark a candidate as approved has had its sample
  learned (`AnsweredWasLearned`).
  `PairingInv`: a call that runs holds a lease (`CallsHoldALease`), its key is of
  the device asked for (`KeysAreOfTheAsked`), and the approval an install rests
  on is not made again (`ApprovalsAreFinal`).
  `IntentsInv`: every list that a thread may still store is as sound as the
  registry's (`WriteSound`).
  `MediaInv`: one writer alone holds a copy equal to the manifest and moves its
  own content (`AloneInv`); whatever is queued, being written or on a card was
  asked for under that name (`DeliveryInv`).
  `PlacementInv`: samples and windows stay within each other's dates and in the
  order they were learned (`CalibrationInv`); nobody can still speak for a test
  that was reported (`TestsInv`).
  `GrantsWereDecided` and `KeptFilesStayWhole` put them together, as the run
  checks them.

What proving these showed. `PostTrustNeedsTrust` used to promise trust in every
step after it. With two Cores the code does not keep that: a trusted node that
the operator points at another Core is found unknown there by a refresh of trust,
which marks it revoked but keeps its token (`trust/status.py:64-79`); pointed back
at its own, `governance/service.py:124-130` asks for a token and not for trust, so
the node goes on to "governance_sync" and "ready" with its trust revoked, against
`docs/architecture.md:239,245`. It is therefore stated with `OneCore` for the
steps from the governance on. `TokensAreIssued` and `UnblockedMayGoOn`
hold for the instance's division, where the part of the threads imports no
bundle: a thread that loaded a restored file and saves it after the set-up was
started afresh would bring an unissued token back. `FilesStayWhole` needs no such
division, and claims the types only.

Only model-checked: the liveness of `WaitingIsBounded`, `EveryRecordSettles` and
`RuntimeIsKnown`, as liveness under fairness and ENABLED are beyond the prover.
So are recursion operators, induction over data, and operators given as
arguments: the proved modules use none of them. Where a recording grows a chunk
at a time the invariants speak of its indices, and `PlacementTests` keeps a part
of a list by its places (`Kept`), `IntentRegistry` finds the first match by its
place. The refuted properties of the runs that expect a violation stay with TLC.

## 5. Not modelled

See `components` in `PROJECT.json` for each part and its reason. In short:
signal processing and scores, the words of texts and what a pattern matches, the
rendering of pages, cards and pictures, validation of request bodies, firmware
bundles (functions without state that sign and list), the host's checks and
helper scripts, process and container sampling, mDNS, wake words and drawing on
the device, its BLE stack and asset sync, the recovery image and the frontend.
Of commands, what they do on the endpoint is left out but for the volume and the
media; of updates, the checks of a manifest other than its version, which are
one choice.

## 6. Plan

Done: the modules of section 2, and proofs of every safety property the runs
check, with the refinements of `SessionLedger`, `WakeArbiter` and `TrialBoot`.

Next, in this order:

1. `WakeArbitration`: `WakeElection` with two endpoints' sessions: at most one
   endpoint is left with an accepted session when the round is over.
2. Commands over connections that are replaced: `CommandTracking` with
   `EndpointConnections`.
