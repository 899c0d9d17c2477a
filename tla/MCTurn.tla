------------------------------- MODULE MCTurn -------------------------------
(***************************************************************************)
(* Instances for TLC of a turn and of what it hears: VoiceTurn, the        *)
(* speech-to-text adapters, the AI node, what is kept of the audio, and    *)
(* how it is uploaded.  The files a turn writes, the admin settings, the   *)
(* lessons and the questions, do not touch each other, nor do the other    *)
(* modules, so a behaviour says what concerns one of them, and the         *)
(* operator handles that one; the others stand still.                      *)
(***************************************************************************)
EXTENDS VoiceTurn, SpeechToText, AiNode, WakeRecordings, AudioUpload

VARIABLE part

TurnParts == {"questions", "lessons", "maintenance"}
KeptParts == {"preroll", "marked", "disk"}

SaidIn(p) ==
  CASE p = "questions" -> {"door", "timer", "yes", "weather", "mumble"}
    [] p = "lessons" -> {"calendar", "agenda", "diary", "weapon", "weather", "mumble"}
    [] p = "maintenance" -> {"debug", "timer", "weapon", "mumble"}

Init ==
  /\ TurnInit /\ SttInit /\ AiInit /\ RecordingsInit /\ UploadInit
  /\ part \in TurnParts \cup KeptParts \cup {"hearing", "asking", "upload"}
  /\ part # "lessons" => ~ setup.private /\ setup.personal
  /\ part = "lessons" => setup.override = setup.personal
  /\ part = "questions" => ~ setup.override /\ ~ setup.speakerId
  /\ part \notin TurnParts =>
       setup = CHOOSE s \in Setups : ~ s.private /\ s.personal
  /\ part # "hearing" =>
       profile = [second |-> FALSE, when |-> {}, engine |-> "openai",
                  leading |-> 0, trailing |-> 0, least |-> 0]
  /\ part # "maintenance" => admin.known
  /\ part # "asking" => configured = NoUrl /\ ~ trusted
  /\ part # "upload" => kind = [board |-> "local", upload |-> "http"]

Turns ==
  /\ part \in TurnParts /\ TurnNext
  /\ turn'.says \in SaidIn(part)
  /\ part # "maintenance" => UNCHANGED avars
  /\ part # "questions" => UNCHANGED invocation
  /\ part = "maintenance" => UNCHANGED sessionOf
  /\ UNCHANGED <<mvars, ivars, wakeVars, uploadVars>>

(* What is kept of the audio: one session's preroll, chunks of odd lengths *)
(* among them, and its recording; one session's VAD chunks; and the files  *)
(* of short sessions, over days.                                           *)
Unmarked == \A s \in Heard : vad'[s].open = <<>> /\ vad'[s].pending = <<>>

Kept ==
  /\ part \in KeptParts /\ RecordingsNext
  /\ part = "preroll" =>
       hearing'.id <= 1 /\ Unmarked /\ windows' \in {{}, {"enrollment"}} /\ UNCHANGED <<day, sweep>>
       /\ (wavs # {} => wavs' # {})
  /\ part = "marked" =>
       hearing'.id <= 1 /\ hearing'.bytes <= 6 /\ hearing'.bytes % 2 = 0 /\ windows' # {"enrollment"}
       /\ UNCHANGED dvars
  /\ part = "disk" => hearing'.bytes <= 2 /\ windows' = {} /\ Unmarked
  /\ UNCHANGED <<vvars, mvars, ivars, uploadVars>>

Next ==
  /\ UNCHANGED part
  /\ \/ Turns \/ Kept
     \/ part = "hearing" /\ SttNext /\ UNCHANGED <<vvars, ivars, wakeVars, uploadVars>>
     \/ part = "asking" /\ AiNext /\ UNCHANGED <<vvars, mvars, wakeVars, uploadVars>>
     \/ part = "upload" /\ UploadNext /\ UNCHANGED <<vvars, mvars, ivars, wakeVars>>

Spec == Init /\ [][Next]_<<vvars, mvars, ivars, wakeVars, uploadVars, part>>

-----------------------------------------------------------------------------
(* What the turn hears and asks: every engine is given all of the speech,  *)
(* a failure of the first is not the last word when there is a second, and *)
(* an AI node is asked once for a text, whatever the resolution of its     *)
(* address, the trust in it and the two adapters' failures do.             *)
HearingInv ==
  /\ SttTypeOK /\ AiTypeOK /\ RecordingsTypeOK /\ UploadTypeOK
  /\ HeldForTheActiveSession /\ RecordingIsWhatWasHeard /\ VadChunksOfTheWoken /\ AudioHasItsStory
  /\ SessionsHearTheirOwn /\ FramesInOrder /\ AcceptedIsTranscribed
  /\ SpeechIsHandedOver /\ FailureIsNotTheLastWord /\ AskedOnceEach
=============================================================================
