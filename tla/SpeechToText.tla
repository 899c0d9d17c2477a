---------------------------- MODULE SpeechToText ----------------------------
(***************************************************************************)
(* The speech-to-text adapters of src/hexevoice/voice/pipeline.py and the  *)
(* profiles of stt_profiles.py: the silence cut off a recording, the       *)
(* engine that loads its model when it first needs it, the preload at the  *)
(* start of the application, and the second engine for a transcript that   *)
(* is not good enough.                                                     *)
(*                                                                         *)
(* Frames are loud or not; paddings and the minimum are in frames.  An     *)
(* engine in another process answers or fails, without the steps of a load.*)
(***************************************************************************)
EXTENDS Naturals, Sequences, FiniteSets, SequencesExt, FiniteSetsExt

CONSTANTS MaxFrames,   \* bound: frames of a recording
          MaxLoads     \* bound: loads of an engine, failed ones included

ASSUME SpeechToTextAssumption == {MaxFrames, MaxLoads} \subseteq Nat

Engines == {"primary", "fallback"}
Reasons == {"low_confidence", "empty_transcript", "intent_unmatched"}

VARIABLES
  profile,   \* fallback configured, fallback_when, the trim's configuration
  take,      \* the recording of the turn, or <<>>
  at,        \* where its transcription is
  heard,     \* first and last frame the engines were given, by engine
  transcript,
  model,     \* by engine: _model is set
  loads,     \*   its load_count, failures counted too
  preloading \* the startup thread

mvars == <<profile, take, at, heard, transcript, model, loads, preloading>>

(* empty: fewer than three characters.                                     *)
Transcript == [error : BOOLEAN, empty : BOOLEAN, sure : BOOLEAN]
NoTranscript == [error |-> FALSE, empty |-> TRUE, sure |-> TRUE]

SttInit ==
  /\ profile \in [second : BOOLEAN, when : {{}, Reasons}, engine : {"in_process", "service", "openai"},
                  leading : 0 .. 1, trailing : 0 .. 1, least : {0, 3}]
  /\ take = <<>> /\ at = "idle" /\ heard = [e \in Engines |-> <<0, 0>>]
  /\ transcript = NoTranscript /\ model = [e \in Engines |-> FALSE]
  /\ loads = [e \in Engines |-> 0] /\ preloading = "due"

-----------------------------------------------------------------------------

Loud(frames) == {i \in 1 .. Len(frames) : frames[i]}
Least(a, b) == IF a < b THEN a ELSE b
Minus(a, b) == IF a < b THEN 0 ELSE a - b

(* Mutant: the trailing padding ends where the leading one began.          *)
TrimShort(frames) ==
  LET loud == Loud(frames) IN
  IF loud = {} THEN <<1, Len(frames)>>
  ELSE <<Minus(Min(loud), profile.leading + 1) + 1,
         Least(Len(frames), Min(loud) + profile.trailing)>>

(* trim_stt_silence.  The code counts from 0 and its end is exclusive;     *)
(* here both ends are frames of the recording.  What is missing to the     *)
(* minimum is added half before and half after; what the beginning of the  *)
(* recording refuses is not added at its end.                              *)
Trim(frames) ==
  LET n == Len(frames)
      loud == Loud(frames)
      start == Minus(Min(loud), profile.leading + 1)
      end == Least(n, Max(loud) + profile.trailing)
      missing == Minus(profile.least, end - start)
      start2 == Minus(start, missing \div 2)
      end2 == Least(n, end + missing - missing \div 2)
      start3 == IF end2 - start2 < profile.least THEN Minus(end2, profile.least) ELSE start2
  IN
  IF loud = {} THEN <<1, n>>
  ELSE IF missing = 0 THEN <<start + 1, end>>
  ELSE <<start3 + 1, end2>>

(* A turn's recording.  One without audio is an error like any other.      *)
Record ==
  \E n \in 1 .. MaxFrames : \E frames \in [1 .. n -> BOOLEAN] :
    /\ at = "idle" /\ take' = frames /\ at' = "recorded"
    /\ UNCHANGED <<profile, heard, transcript, model, loads, preloading>>

Engine == IF at \in {"recorded", "primary"} THEN "primary" ELSE "fallback"

(* SilenceTrimmingSpeechToTextAdapter.transcribe and its                   *)
(* maybe_fallback_transcribe: each trims the recording it is given.        *)
Hand ==
  /\ at \in {"recorded", "unsatisfied"}
  /\ heard' = [heard EXCEPT ![Engine] = Trim(take)]
  /\ at' = Engine
  /\ UNCHANGED <<profile, take, transcript, model, loads, preloading>>

(* FasterWhisperSpeechToTextAdapter._load_model has no lock.               *)
LoadModel(e) ==
  \E loaded \in BOOLEAN :
    /\ loads[e] < MaxLoads /\ loads' = [loads EXCEPT ![e] = @ + 1]
    /\ model' = [model EXCEPT ![e] = @ \/ loaded]

Load ==
  /\ at \in Engines /\ profile.engine = "in_process" /\ ~ model[Engine]
  /\ LoadModel(Engine)
  /\ IF model'[Engine] THEN UNCHANGED <<at, transcript>>
     ELSE /\ at' = IF at = "primary" THEN "transcribed" ELSE "settled"
          /\ transcript' = [NoTranscript EXCEPT !.error = TRUE]
  /\ UNCHANGED <<profile, take, heard, preloading>>

(* An error has no text and no confidence.                                 *)
Hears(t) == t.error => t.empty /\ ~ t.sure

Result(t) ==
  /\ at \in Engines
  /\ transcript' = t /\ at' = IF at = "primary" THEN "transcribed" ELSE "settled"
  /\ UNCHANGED <<profile, take, heard, model, loads, preloading>>

TranscribeInProcess ==
  \E t \in Transcript : profile.engine = "in_process" /\ model[Engine] /\ Hears(t) /\ Result(t)

(* A request to the engine's service: its answer's text and error are its  *)
(* own, so a failure may come with a text.                                 *)
TranscribeByService == \E t \in Transcript : profile.engine = "service" /\ Result(t)

(* OpenAI names no confidence, which passes for a good one.                *)
TranscribeByOpenAi ==
  \E t \in Transcript : profile.engine = "openai" /\ Hears(t) /\ t.sure = ~ t.error /\ Result(t)

(* should_use_stt_fallback, asked after the text was matched or not.       *)
Unsatisfying(t, matched) ==
  \/ t.error
  \/ "empty_transcript" \in profile.when /\ t.empty
  \/ "low_confidence" \in profile.when /\ ~ t.sure
  \/ "intent_unmatched" \in profile.when /\ ~ t.empty /\ ~ matched

(* ProfiledSpeechToTextAdapter.maybe_fallback_transcribe.                  *)
Judge ==
  \E matched \in BOOLEAN :
    /\ at = "transcribed" /\ (transcript.empty => ~ matched)
    /\ at' = IF profile.second /\ Unsatisfying(transcript, matched) THEN "unsatisfied" ELSE "settled"
    /\ UNCHANGED <<profile, take, heard, transcript, model, loads, preloading>>

Settle ==
  /\ at = "settled" /\ at' = "idle" /\ take' = <<>>
  /\ heard' = [e \in Engines |-> <<0, 0>>] /\ transcript' = NoTranscript
  /\ UNCHANGED <<profile, model, loads, preloading>>

-----------------------------------------------------------------------------

(* preload_stt asks the adapter the pipeline was built with, which is the  *)
(* trimming one: it has no preload, so nothing is asked of the engine it   *)
(* wraps.                                                                  *)
Preload ==
  /\ preloading = "due" /\ preloading' = "done"
  /\ UNCHANGED <<profile, take, at, heard, transcript, model, loads>>

SttNext ==
  \/ Record \/ Hand \/ Load \/ TranscribeInProcess \/ TranscribeByService
  \/ TranscribeByOpenAi \/ Judge \/ Settle \/ Preload

SttSpec == SttInit /\ [][SttNext]_mvars

-----------------------------------------------------------------------------

SttTypeOK ==
  /\ at \in {"idle", "recorded", "transcribed", "unsatisfied", "settled"} \cup Engines
  /\ transcript \in Transcript /\ preloading \in {"due", "done"}
  /\ \A e \in Engines : heard[e] \in (0 .. MaxFrames) \X (0 .. MaxFrames) /\ loads[e] <= MaxLoads

(* docs/operations.md: silence is removed without cutting the command.     *)
(* Every engine that was asked got all the loud frames, with their padding *)
(* or up to the ends of the recording, and both engines got the same.      *)
SpeechIsHandedOver ==
  \A e \in Engines :
    at \notin {"idle", "recorded"} /\ heard[e] # <<0, 0>> =>
      /\ \A i \in Loud(take) :
           /\ heard[e][1] <= IF i > profile.leading THEN i - profile.leading ELSE 1
           /\ heard[e][2] >= Least(Len(take), i + profile.trailing)
      /\ e = "fallback" => heard["primary"] = heard["fallback"]

(* A failure is the answer only when every engine that could have heard    *)
(* the words was asked.                                                    *)
FailureIsNotTheLastWord ==
  at = "settled" /\ transcript.error /\ profile.second => heard["fallback"] # <<0, 0>>

=============================================================================
