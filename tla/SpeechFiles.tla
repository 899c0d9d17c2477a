---------------------------- MODULE SpeechFiles ----------------------------
(***************************************************************************)
(* src/hexevoice/tts/service.py and the text-to-speech adapters of         *)
(* voice/pipeline.py: the spoken replies kept in runtime/voice_tts.  A     *)
(* stream is a group of audio files and a JSON sidecar.  Nobody locks      *)
(* them: the adapter writes a first sidecar, its thread adds the           *)
(* conversions it has not waited for, the service writes its own sidecar   *)
(* over it, a fetch adds its latency, each by reading the whole sidecar    *)
(* and writing the whole sidecar; and three sweeps delete.                 *)
(*                                                                         *)
(* A tick is ten minutes: requests, fetches and conversions end within     *)
(* one.  A sweep is one step for each stream.                              *)
(***************************************************************************)
EXTENDS Naturals, FiniteSets

CONSTANTS Streams,       \* ids: common clips, replies of the intent API, stages
          Lasting,       \* those asked for with lifetime long_lived
          DefaultLife,   \* ticks of DEFAULT_TTS_AUDIO_TTL_SECONDS
          MaxClock,      \* bound: ticks of a behaviour
          Nothing

(* raw stands for the files written before the answer, opt for those of    *)
(* the conversions left to the thread, asset for the qualities of a named  *)
(* asset, plain for the silence written when there is nothing else.        *)
Variants == {"raw", "opt", "asset", "plain"}
Never == MaxClock + DefaultLife + 1
Sidecar == [expires : 0 .. Never, ready : SUBSET Variants,
            conversion : {"not_needed", "pending", "completed", "failed"}]

ASSUME SpeechFilesAssumption ==
  /\ Lasting \subseteq Streams /\ DefaultLife \in Nat \ {0} /\ MaxClock \in Nat
  /\ Nothing \notin Sidecar

VARIABLES
  clock,
  files,      \* by stream, the audio files there are
  written,    \*   and when the last of them was
  sidecar,    \*   and its JSON, or Nothing
  request,    \* by stream, a request that synthesises it
  converter,  \*   the thread of its conversions
  fetch,      \*   an endpoint's fetch of it
  deleted     \* history: streams deleted while work on them went on

fvars == <<clock, files, written, sidecar, request, converter, fetch, deleted>>

FilesInit ==
  /\ clock = 0 /\ files = [s \in Streams |-> {}]
  /\ written = [s \in Streams |-> 0] /\ sidecar = [s \in Streams |-> Nothing]
  /\ request = [s \in Streams |-> [at |-> "idle"]]
  /\ converter = [s \in Streams |-> [at |-> "idle"]]
  /\ fetch = [s \in Streams |-> [at |-> "idle"]] /\ deleted = {}

Store(s, new) ==
  /\ files' = [files EXCEPT ![s] = @ \cup new]
  /\ written' = [written EXCEPT ![s] = IF new = {} THEN @ ELSE clock]

Save(s, json) == sidecar' = [sidecar EXCEPT ![s] = json]

Expired(s) == sidecar[s] # Nothing /\ sidecar[s].expires <= clock

Erase(gone) ==
  /\ files' = [s \in Streams |-> IF s \in gone THEN {} ELSE files[s]]
  /\ sidecar' = [s \in Streams |-> IF s \in gone THEN Nothing ELSE sidecar[s]]

-----------------------------------------------------------------------------

(* write_default_tts_sidecar.                                              *)
First(ready, conversion) ==
  [expires |-> clock + DefaultLife, ready |-> ready, conversion |-> conversion]

(* Piper: the files the endpoint needs, the sidecar, and the thread for    *)
(* the other rates (endpoint_required_sync); OpenAI: one file, no          *)
(* conversion.  A Piper that fails falls back on the deterministic         *)
(* adapter, which writes nothing; the service then writes silence.         *)
Piper(s) ==
  \E waits \in BOOLEAN :
    /\ Store(s, {"raw"}) /\ Save(s, First({"raw"}, IF waits THEN "not_needed" ELSE "pending"))
    /\ converter' = [converter EXCEPT ![s] = IF waits THEN @ ELSE [at |-> "running"]]

OpenAi(s) == Store(s, {"raw"}) /\ Save(s, First({"raw"}, "not_needed")) /\ UNCHANGED converter

Deterministic(s) ==
  /\ Store(s, IF files[s] = {} THEN {"plain"} ELSE {})
  /\ UNCHANGED <<sidecar, converter>>

SynthesizeReply(s) ==
  \/ (Piper(s) \/ OpenAi(s)) /\ deleted' = deleted \ {s}
  \/ Deterministic(s) /\ UNCHANGED deleted

(* synthesize: a clip that is still good is answered from its sidecar.     *)
(* CleanupExpired has run: Speak waits for it.                             *)
Available(s) == sidecar[s] # Nothing /\ ~ Expired(s)

(* cached_common_clip_response.                                            *)
Cached(s) == s \notin Lasting /\ Available(s) /\ files[s] # {}

Speak(s) ==
  /\ request[s].at = "idle" /\ converter[s].at = "idle" /\ fetch[s].at = "idle"
  /\ ~ Expired(s) /\ ~ Cached(s)
  /\ SynthesizeReply(s)
  /\ request' = [request EXCEPT ![s] = [at |-> "spoken"]]
  /\ UNCHANGED <<clock, fetch>>

(* _merge_existing_generated_metadata keeps what the thread has recorded.  *)
ReadsForMerge(s) ==
  /\ request[s].at = "spoken"
  /\ request' = [request EXCEPT ![s] = [at |-> "merging", saw |-> sidecar[s]]]
  /\ UNCHANGED <<clock, files, written, sidecar, converter, fetch, deleted>>

Merged(s, ttl) ==
  LET saw == request[s].saw IN
  [expires |-> IF s \in Lasting THEN Never ELSE clock + ttl,
   ready |-> IF saw = Nothing THEN {} ELSE saw.ready,
   conversion |-> IF saw = Nothing THEN "not_needed" ELSE saw.conversion]

Answer(s) ==
  \E ttl \in 1 .. DefaultLife :
    /\ request[s].at = "merging" /\ Save(s, Merged(s, ttl))
    /\ request' = [request EXCEPT ![s] = [at |-> "idle"]]
    /\ UNCHANGED <<clock, files, written, converter, fetch, deleted>>

-----------------------------------------------------------------------------

(* complete_optional_tts_conversions: a failure after some files, or none, *)
(* marks every one of them ready all the same, with status failed.         *)
Convert(s) ==
  \E status \in {"completed", "failed"} :
    /\ converter[s].at = "running"
    /\ IF status = "completed" THEN Store(s, {"opt"}) ELSE UNCHANGED <<files, written>>
    /\ converter' = [converter EXCEPT ![s] = [at |-> "converted", status |-> status]]
    /\ UNCHANGED <<clock, sidecar, request, fetch, deleted>>

(* Without a sidecar to update, the files stay as they are.                *)
ReadsForUpdate(s) ==
  /\ converter[s].at = "converted"
  /\ converter' = [converter EXCEPT ![s] =
       IF sidecar[s] = Nothing THEN [at |-> "idle"]
       ELSE [at |-> "updating", status |-> @.status, saw |-> sidecar[s]]]
  /\ UNCHANGED <<clock, files, written, sidecar, request, fetch, deleted>>

UpdatesSidecar(s) ==
  /\ converter[s].at = "updating"
  /\ Save(s, [converter[s].saw EXCEPT !.ready = @ \cup {"opt"},
                                      !.conversion = converter[s].status])
  /\ converter' = [converter EXCEPT ![s] = [at |-> "idle"]]
  /\ UNCHANGED <<clock, files, written, request, fetch, deleted>>

(* tts_file_response: the file, and record_fetch_latency.                  *)
Fetch(s) ==
  /\ fetch[s].at = "idle" /\ files[s] # {} /\ sidecar[s] # Nothing /\ ~ Expired(s)
  /\ fetch' = [fetch EXCEPT ![s] = [at |-> "reading", saw |-> sidecar[s]]]
  /\ UNCHANGED <<clock, files, written, sidecar, request, converter, deleted>>

RecordFetchLatency(s) ==
  /\ fetch[s].at = "reading"
  /\ IF sidecar[s] = Nothing THEN UNCHANGED sidecar ELSE Save(s, fetch[s].saw)
  /\ fetch' = [fetch EXCEPT ![s] = [at |-> "idle"]]
  /\ UNCHANGED <<clock, files, written, request, converter, deleted>>

-----------------------------------------------------------------------------

(* cleanup_expired: every five minutes, and at the start of most requests. *)
CleanupExpired ==
  /\ \E s \in Streams : Expired(s)
  /\ Erase({s \in Streams : Expired(s)})
  /\ UNCHANGED <<clock, written, request, converter, fetch, deleted>>

(* cleanup_orphaned_audio, at midnight: audio older than ten minutes that  *)
(* has no sidecar.                                                         *)
Orphaned(s) == files[s] # {} /\ sidecar[s] = Nothing /\ written[s] < clock

(* Mutant: the sweep goes by age alone.                                    *)
SweepByAge ==
  /\ \E s \in Streams : files[s] # {} /\ written[s] < clock
  /\ files' = [s \in Streams |-> IF files[s] # {} /\ written[s] < clock THEN {} ELSE files[s]]
  /\ UNCHANGED <<clock, written, sidecar, request, converter, fetch, deleted>>

CleanupOrphaned ==
  /\ \E s \in Streams : Orphaned(s)
  /\ files' = [s \in Streams |-> IF Orphaned(s) THEN {} ELSE files[s]]
  /\ UNCHANGED <<clock, written, sidecar, request, converter, fetch, deleted>>

DeleteArtifact(s) ==
  /\ files[s] # {} \/ sidecar[s] # Nothing
  /\ Erase({s}) /\ deleted' = deleted \cup {s}
  /\ UNCHANGED <<clock, written, request, converter, fetch>>

Busy(s) == request[s].at # "idle" \/ converter[s].at # "idle" \/ fetch[s].at # "idle"

FileSteps(s) ==
  \/ Speak(s) \/ ReadsForMerge(s) \/ Answer(s)
  \/ Convert(s) \/ ReadsForUpdate(s) \/ UpdatesSidecar(s)
  \/ Fetch(s) \/ RecordFetchLatency(s) \/ DeleteArtifact(s)

Housekeeping == CleanupExpired \/ CleanupOrphaned

-----------------------------------------------------------------------------

FilesTypeOK ==
  /\ clock \in 0 .. MaxClock /\ deleted \subseteq Streams
  /\ \A s \in Streams :
       /\ files[s] \subseteq Variants /\ written[s] \in 0 .. MaxClock
       /\ sidecar[s] \in Sidecar \cup {Nothing}

(* What a sidecar that has not expired lists as ready is on the disk,      *)
(* whatever order the thread, the service, the fetches and the sweeps come *)
(* in; unless a conversion failed, or an operator deleted the stream under *)
(* them.                                                                   *)
ReadyIsOnDisk ==
  \A s \in Streams \ deleted :
    sidecar[s] # Nothing /\ ~ Expired(s) /\ sidecar[s].conversion # "failed"
      => sidecar[s].ready \subseteq files[s]

=============================================================================
