--------------------------- MODULE ProviderRuntime ---------------------------
(* The engines beside the backend and the Supervisor above it.                *)
(*                                                                            *)
(* Speech to text, Piper and the wake detector run in containers of their own.*)
(* The operator picks a model or a voice (kept in the onboarding file, in the *)
(* TTS settings file and in Piper's environment file), the backend tells the  *)
(* running engine with PUT /config, control scripts start and stop the        *)
(* engines, and a task tells a restarted speech engine its model again.  Every*)
(* five seconds, and when setup asks for it, a heartbeat registers the runtime*)
(* with the Supervisor and reports its state.  All of these are coroutines    *)
(* that await requests and threads, so the other tasks run between their      *)
(* steps.  The Supervisor, Docker and the node's trust are the environment.   *)
EXTENDS Naturals, FiniteSets, Sequences

CONSTANTS
  NodeIds, NoNodeId,  \* the ids Core may give this node
  Beats,              \* heartbeats that may be under way: the loop's and setup's
  Choices, Off,       \* models and voices; Off: an engine that does not answer
  Stock,              \* the choice of the environment when none is saved
  Edits, Reconciles,  \* coroutines of a saved setting, and tasks after a restart
  MaxTries            \* requests of one such task (30 in the code)

ASSUME RuntimeAssumption ==
  /\ NoNodeId \notin NodeIds /\ Off \notin Choices /\ Stock \in Choices
  /\ Beats # {} /\ IsFiniteSet(Beats) /\ MaxTries \in Nat \ {0}

VARIABLES
  identity,   \* the onboarding file: node id and operational readiness
  overseer,   \* the Supervisor: how it answers and what it holds of each node
  link,       \* NodeRuntimeService: registered and the last error
  beats,      \* each heartbeat: next request, its payload, the answer
  savedChoice, \* provider_setup.provider_configs of the onboarding file
  settings,   \* voice_tts_settings.json: default voice (Off: no file), restart_required
  envVoice,   \* PIPER_TTS_MODEL_PATH of Piper's environment file
  engines,    \* what each engine runs
  disk,       \* models and voices that were downloaded
  edits,      \* coroutines that apply a saved setting
  reconciles  \* reconcile_external_stt_provider_config tasks

runtimeVars == <<identity, overseer, link, beats, savedChoice, settings, envVoice,
                 engines, disk, edits, reconciles>>
supervising == <<identity, overseer, link, beats>>
providing   == <<savedChoice, settings, envVoice, engines, disk, edits, reconciles>>

EngineIds == {"stt", "tts", "wake"}
ProviderStates  == {"absent", "unknown", "running"}

(* _supervisor_runtime_payload: a node with an id reports "running" when the  *)
(* onboarding file says it is operational.                                    *)
RuntimeState == IF identity.ready THEN "running" ELSE "unknown"

Resting  == [pc |-> "idle", id |-> NoNodeId, state |-> "unknown", yes |-> FALSE]
Finished == [pc |-> "idle", todo |-> <<>>, choice |-> Stock]
Unasked  == [pc |-> "idle", todo |-> <<>>, tries |-> 0]

RuntimeTypeOK ==
  /\ identity \in [id : NodeIds \cup {NoNodeId}, ready : BOOLEAN]
  /\ overseer \in [mood : {"ready", "flaky", "down"},
                   known : [NodeIds -> ProviderStates]]
  /\ link \in [registered : BOOLEAN, error : BOOLEAN]
  /\ beats \in [Beats -> [pc : {"idle", "health", "register", "registering",
                                "heartbeat", "beating"},
                          id : NodeIds \cup {NoNodeId}, state : ProviderStates, yes : BOOLEAN]]
  /\ savedChoice \in [{"stt", "tts"} -> Choices \cup {Off}]
  /\ settings \in [voice : Choices \cup {Off}, restart : BOOLEAN] /\ envVoice \in Choices
  /\ engines \in [EngineIds -> Choices \cup {Off}] /\ disk \subseteq Choices
  /\ edits \in [Edits -> [pc : {"idle", "stt", "file", "env", "put", "clear", "store"},
                          todo : UNION {[1 .. n -> Choices] : n \in 0 .. 2},
                          choice : Choices]]
  /\ reconciles \in [Reconciles -> [pc : {"idle", "sleep", "put"},
                          todo : UNION {[1 .. n -> Choices] : n \in 0 .. 2},
                          tries : 0 .. MaxTries - 1]]

RuntimeInit ==
  /\ identity = [id |-> NoNodeId, ready |-> FALSE]
  /\ overseer = [mood |-> "ready", known |-> [n \in NodeIds |-> "absent"]]
  /\ link = [registered |-> FALSE, error |-> FALSE]
  /\ beats = [b \in Beats |-> Resting]
  /\ savedChoice = [p \in {"stt", "tts"} |-> Off]
  /\ settings = [voice |-> Off, restart |-> FALSE] /\ envVoice = Stock
  /\ engines = [e \in EngineIds |-> Off] /\ disk = {Stock}
  /\ edits = [e \in Edits |-> Finished]
  /\ reconciles = [r \in Reconciles |-> Unasked]

-----------------------------------------------------------------------------
(* The heartbeat.                                                             *)

(* A thread reads the payload; without a node id nothing is sent.             *)
BeatStarts(b) ==
  /\ beats[b].pc = "idle" /\ identity.id # NoNodeId
  /\ beats' = [beats EXCEPT ![b] = [pc |-> "health", id |-> identity.id,
                                    state |-> RuntimeState, yes |-> FALSE]]
  /\ UNCHANGED <<identity, overseer, link, providing>>

(* supervisor_unreachable and supervisor_not_ready ("down") end the heartbeat.*)
HealthIsHeard(b) ==
  /\ beats[b].pc = "health"
  /\ IF overseer.mood \in {"ready", "flaky"}
     THEN /\ beats' = [beats EXCEPT ![b].pc = IF link.registered THEN "heartbeat" ELSE "register"]
          /\ UNCHANGED link
     ELSE /\ beats' = [beats EXCEPT ![b] = Resting]
          /\ link' = [registered |-> FALSE, error |-> TRUE]
  /\ UNCHANGED <<identity, overseer, providing>>

(* Any failure of a request, its answer's loss included, reads as None.       *)
Answers(done) == IF overseer.mood = "ready" THEN {done} ELSE {FALSE, done}

RegisterIsSent(b) ==
  LET up == overseer.mood \in {"ready", "flaky"} IN
  /\ beats[b].pc = "register"
  /\ overseer' = IF up THEN [overseer EXCEPT !.known[beats[b].id] = beats[b].state] ELSE overseer
  /\ \E yes \in Answers(up) : beats' = [beats EXCEPT ![b].pc = "registering", ![b].yes = yes]
  /\ UNCHANGED <<identity, link, providing>>

RegisterIsHeard(b) ==
  /\ beats[b].pc = "registering"
  /\ IF beats[b].yes
     THEN /\ link' = [link EXCEPT !.registered = TRUE]
          /\ beats' = [beats EXCEPT ![b].pc = "heartbeat"]
     ELSE /\ link' = [link EXCEPT !.error = TRUE]
          /\ beats' = [beats EXCEPT ![b] = Resting]
  /\ UNCHANGED <<identity, overseer, providing>>

(* The Supervisor refuses the heartbeat of a node it does not hold.           *)
HeartbeatIsSent(b) ==
  LET held == overseer.mood \in {"ready", "flaky"} /\ overseer.known[beats[b].id] # "absent" IN
  /\ beats[b].pc = "heartbeat"
  /\ overseer' = IF held THEN [overseer EXCEPT !.known[beats[b].id] = beats[b].state] ELSE overseer
  /\ \E yes \in Answers(held) : beats' = [beats EXCEPT ![b].pc = "beating", ![b].yes = yes]
  /\ UNCHANGED <<identity, link, providing>>

(* Mutant of AfterHeartbeat: a refused heartbeat keeps the registration.      *)
AfterHeartbeatKeeping(yes) == [registered |-> link.registered, error |-> ~ yes]

AfterHeartbeat(yes) == [registered |-> link.registered /\ yes, error |-> ~ yes]

HeartbeatIsHeard(b) ==
  /\ beats[b].pc = "beating"
  /\ link' = AfterHeartbeat(beats[b].yes)
  /\ beats' = [beats EXCEPT ![b] = Resting]
  /\ UNCHANGED <<identity, overseer, providing>>

BeatContinues(b) ==
  \/ HealthIsHeard(b) \/ RegisterIsSent(b) \/ RegisterIsHeard(b)
  \/ HeartbeatIsSent(b) \/ HeartbeatIsHeard(b)

(* Trust gives the node an id, or another one; readiness comes and goes.      *)
IdentityChanges ==
  /\ identity' \in [id : NodeIds, ready : BOOLEAN]
  /\ UNCHANGED <<overseer, link, beats, providing>>

(* The Supervisor stops, starts or loses what it held.                        *)
SupervisorChanges ==
  /\ \E mood \in {"ready", "flaky", "down"}, forgets \in BOOLEAN :
       overseer' = [mood |-> mood, known |-> IF forgets THEN [n \in NodeIds |-> "absent"]
                                                        ELSE overseer.known]
  /\ UNCHANGED <<identity, link, beats, providing>>

-----------------------------------------------------------------------------
(* Settings and the engines they are meant for.                               *)

(* The warm models are applied one by one before the chosen one, and each     *)
(* request makes its model the running one.                                   *)
RequestsFor(choice, warm) == IF warm = choice THEN <<choice>> ELSE <<warm, choice>>

(* Setup saves the choice and tells no engine.                                *)
SaveSetup(p, c) ==
  /\ savedChoice' = [savedChoice EXCEPT ![p] = c]
  /\ UNCHANGED <<supervising, settings, envVoice, engines, disk, edits, reconciles>>

(* PUT /api/node/ui/providers/{id}/setup saves the choice; the coroutine goes *)
(* on with the engine.  PUT /api/tts/settings writes the TTS files only.      *)
SaveChoice(e, p, c) ==
  /\ edits[e].pc = "idle" /\ (p = "tts" => c \in disk)
  /\ \E alsoSaved \in (IF p = "tts" THEN BOOLEAN ELSE {TRUE}), warm \in Choices :
       /\ savedChoice' = IF alsoSaved THEN [savedChoice EXCEPT ![p] = c] ELSE savedChoice
       /\ edits' = [edits EXCEPT ![e] = [pc |-> IF p = "stt" THEN "stt" ELSE "file",
                      todo |-> IF p = "stt" THEN RequestsFor(c, warm) ELSE <<>>, choice |-> c]]
  /\ UNCHANGED <<supervising, settings, envVoice, engines, disk, reconciles>>

(* update_config of the speech engine switches its adapter; an engine that    *)
(* does not answer ends the coroutine silently.                               *)
SttIsTold(e) ==
  /\ edits[e].pc = "stt"
  /\ IF engines["stt"] = Off \/ edits[e].todo = <<>>
     THEN edits' = [edits EXCEPT ![e] = Finished] /\ UNCHANGED engines
     ELSE /\ engines' = [engines EXCEPT !["stt"] = Head(edits[e].todo)]
          /\ edits' = [edits EXCEPT ![e].todo = Tail(@)]
  /\ UNCHANGED <<supervising, savedChoice, settings, envVoice, disk, reconciles>>

(* TtsRuntimeSettingsService.update in a thread: the file, then the           *)
(* environment file.                                                          *)
SettingsAreWritten(e) ==
  /\ edits[e].pc = "file"
  /\ settings' = [voice |-> edits[e].choice, restart |-> TRUE]
  /\ edits' = [edits EXCEPT ![e].pc = "env"]
  /\ UNCHANGED <<supervising, savedChoice, envVoice, engines, disk, reconciles>>

EnvironmentIsWritten(e) ==
  /\ edits[e].pc = "env"
  /\ envVoice' = edits[e].choice
  /\ edits' = [edits EXCEPT ![e].pc = "put"]
  /\ UNCHANGED <<supervising, savedChoice, settings, engines, disk, reconciles>>

(* Piper takes the voice or answers with an error status, which the backend   *)
(* does not look at; only a failed connection keeps restart_required.         *)
PiperIsTold(e) ==
  /\ edits[e].pc = "put"
  /\ IF engines["tts"] = Off
     THEN edits' = [edits EXCEPT ![e] = Finished] /\ UNCHANGED engines
     ELSE /\ engines' \in {engines, [engines EXCEPT !["tts"] = edits[e].choice]}
          /\ edits' = [edits EXCEPT ![e].pc = "clear"]
  /\ UNCHANGED <<supervising, savedChoice, settings, envVoice, disk, reconciles>>

(* clear_restart_required reads the file, if there is one, and writes it back.*)
ClearingReads(e) ==
  /\ edits[e].pc = "clear"
  /\ edits' = [edits EXCEPT ![e] = IF settings.voice = Off THEN Finished
                                    ELSE [@ EXCEPT !.pc = "store", !.choice = settings.voice]]
  /\ UNCHANGED <<supervising, savedChoice, settings, envVoice, engines, disk, reconciles>>

ClearingWrites(e) ==
  /\ edits[e].pc = "store"
  /\ settings' = [voice |-> edits[e].choice, restart |-> FALSE]
  /\ edits' = [edits EXCEPT ![e] = Finished]
  /\ UNCHANGED <<supervising, savedChoice, envVoice, engines, disk, reconciles>>

-----------------------------------------------------------------------------
(* Control of the services.                                                   *)

(* apply_saved_piper_provider_config and its speech counterpart: the saved    *)
(* configuration comes before the environment file.                           *)
Boots(s) ==
  CASE s = "stt"  -> IF savedChoice["stt"] = Off THEN Stock ELSE savedChoice["stt"]
    [] s = "tts"  -> IF savedChoice["tts"] = Off THEN envVoice ELSE savedChoice["tts"]
    [] s = "wake" -> Stock

(* service_action: a script that is missing or fails changes nothing.  A      *)
(* speech engine that was started gets a reconciling task, a restarted Piper  *)
(* has its restart flag cleared by the coroutine that restarted it.           *)
ServiceAction(s, a) ==
  /\ a \in {"install", "start", "stop", "restart", "download-models"}
  /\ engines' = CASE a \in {"start", "restart"} -> [engines EXCEPT ![s] = Boots(s)]
                  [] a = "stop" -> [engines EXCEPT ![s] = Off]
                  [] OTHER -> engines
  /\ disk' = IF a = "download-models" /\ s # "wake" THEN disk \cup {Boots(s)} ELSE disk
  /\ IF s = "stt" /\ a \in {"install", "start", "restart"}
     THEN \E r \in Reconciles : /\ reconciles[r].pc = "idle"
                                /\ reconciles' = [reconciles EXCEPT ![r].pc = "sleep"]
     ELSE UNCHANGED reconciles
  /\ IF s = "tts" /\ a = "restart"
     THEN \E e \in Edits : /\ edits[e].pc = "idle"
                           /\ edits' = [edits EXCEPT ![e].pc = "clear"]
     ELSE UNCHANGED edits
  /\ UNCHANGED <<supervising, savedChoice, settings, envVoice>>

(* Setup installs and starts the engines one after the other, and leaves the  *)
(* rest to the saved configuration.                                           *)
SetupApplies(s) ==
  /\ engines' = [engines EXCEPT ![s] = Boots(s)]
  /\ UNCHANGED <<supervising, savedChoice, settings, envVoice, disk, edits, reconciles>>

(* After a second the task reads the saved configuration, once.               *)
ReconcileReads(r) ==
  /\ reconciles[r].pc = "sleep"
  /\ \E warm \in Choices :
       reconciles' = [reconciles EXCEPT ![r] =
         IF savedChoice["stt"] = Off THEN Unasked
         ELSE [pc |-> "put", todo |-> RequestsFor(savedChoice["stt"], warm), tries |-> 0]]
  /\ UNCHANGED <<supervising, savedChoice, settings, envVoice, engines, disk, edits>>

(* Mutant: the first attempt is not counted.                                  *)
CountsFromOne(tries) == tries = MaxTries

LastTry(tries) == tries + 1 = MaxTries

(* Thirty attempts two seconds apart while the engine does not answer.        *)
ReconcileTells(r) ==
  LET task == reconciles[r] IN
  /\ task.pc = "put"
  /\ IF engines["stt"] = Off
     THEN /\ reconciles' = [reconciles EXCEPT ![r] =
                IF LastTry(task.tries) THEN Unasked ELSE [task EXCEPT !.tries = @ + 1]]
          /\ UNCHANGED engines
     ELSE /\ engines' = [engines EXCEPT !["stt"] = Head(task.todo)]
          /\ reconciles' = [reconciles EXCEPT ![r] =
                IF Len(task.todo) = 1 THEN Unasked ELSE [task EXCEPT !.todo = Tail(@)]]
  /\ UNCHANGED <<supervising, savedChoice, settings, envVoice, disk, edits>>

EngineFails(s) ==
  /\ engines[s] # Off /\ engines' = [engines EXCEPT ![s] = Off]
  /\ UNCHANGED <<supervising, savedChoice, settings, envVoice, disk, edits, reconciles>>

(* A restart ends every coroutine; the lifespan starts one reconciling task.  *)
BackendRestarts ==
  /\ link' = [registered |-> FALSE, error |-> FALSE]
  /\ beats' = [b \in Beats |-> Resting]
  /\ edits' = [e \in Edits |-> Finished]
  /\ \E r \in Reconciles : reconciles' = [q \in Reconciles |->
                             IF q = r THEN [Unasked EXCEPT !.pc = "sleep"] ELSE Unasked]
  /\ UNCHANGED <<identity, overseer, savedChoice, settings, envVoice, engines, disk>>

-----------------------------------------------------------------------------
(* What setup shows of all this (setup_provider_status_payload).              *)

(* A provider is healthy when its container runs, or its health answers.      *)
Healthy(p) == engines[p] # Off
ProviderState(p) == IF Healthy(p) THEN "healthy" ELSE "pending"

AssetState(p) ==
  CASE savedChoice[p] \notin disk -> "missing"
    [] savedChoice[p] \in disk /\ Healthy(p) -> "healthy"
    [] OTHER -> "downloaded"

Blockers ==
  {"not_started" : p \in {q \in EngineIds : ProviderState(q) # "healthy"}}
  \cup {"selected_asset_missing" :
          p \in {q \in {"stt", "tts"} : savedChoice[q] # Off /\ AssetState(q) = "missing"}}
  \cup {"provider_config_missing" : p \in {q \in {"stt", "tts"} : savedChoice[q] = Off}}
  \cup {"trusted_identity_missing" : n \in {identity.id} \cap {NoNodeId}}
  \cup {"supervisor_registration_failed" : failed \in {link.error} \cap {TRUE}}

ContinueBlocked == Blockers # {}

-----------------------------------------------------------------------------
SupervisorNext ==
  \/ \E b \in Beats : BeatStarts(b) \/ BeatContinues(b)
  \/ IdentityChanges \/ SupervisorChanges

ProviderNext ==
  \/ \E p \in {"stt", "tts"}, c \in Choices : SaveSetup(p, c) \/ \E e \in Edits : SaveChoice(e, p, c)
  \/ \E e \in Edits : \/ SttIsTold(e) \/ SettingsAreWritten(e) \/ EnvironmentIsWritten(e)
                      \/ PiperIsTold(e) \/ ClearingReads(e) \/ ClearingWrites(e)
  \/ \E s \in EngineIds, a \in {"install", "start", "stop", "restart", "download-models"} :
       ServiceAction(s, a)
  \/ \E r \in Reconciles : ReconcileReads(r) \/ ReconcileTells(r)
  \/ \E s \in EngineIds : SetupApplies(s) \/ EngineFails(s)

RuntimeNext == SupervisorNext \/ ProviderNext \/ BackendRestarts

RuntimeSpec == RuntimeInit /\ [][RuntimeNext]_runtimeVars

(* The heartbeat loop is started with the backend and repeats for ever, and   *)
(* the client's timeout ends each of its requests.                            *)
RuntimeFairness == \A b \in Beats : WF_runtimeVars(BeatStarts(b)) /\ WF_runtimeVars(BeatContinues(b))

-----------------------------------------------------------------------------
(* Once the node keeps its identity and the Supervisor stays ready, the       *)
(* Supervisor comes to hold the node's present state, whatever it forgot,     *)
(* however often the node's id changed, and the failure setup shows is taken  *)
(* back, unless the backend restarts, or the Supervisor forgets, for ever.    *)
(* The registered flag is the process's: it survives a Supervisor that forgot *)
(* the node, and only the refused heartbeat clears it.                        *)
RuntimeIsKnown ==
  \A n \in NodeIds, ready \in BOOLEAN :
    (/\ <>[](overseer.mood = "ready" /\ identity = [id |-> n, ready |-> ready])
     /\ <>[][~ (BackendRestarts \/ SupervisorChanges)]_runtimeVars)
      => <>[](overseer.known[n] = RuntimeState /\ "supervisor_registration_failed" \notin Blockers)

(* A successful restart of Piper makes the saved voice the running one        *)
(* (docs/local-tts-runtime.md:78): when nothing is under way and Piper runs   *)
(* without restart_required, it runs the voice of the settings file.          *)
RestartAppliesSettings ==
  (/\ \A e \in Edits : edits[e].pc = "idle"
   /\ Off \notin {engines["tts"], settings.voice} /\ ~ settings.restart) => engines["tts"] = settings.voice
=============================================================================
