----------------------------- MODULE AudioUpload -----------------------------
(***************************************************************************)
(* How what an endpoint captured gets to the backend: the capture and the  *)
(* upload of the firmware (voice/backend_client.cpp) with the ways audio   *)
(* comes in (voice/session_manager.py, POST /api/voice/audio/chunk and the *)
(* audio WebSocket).                                                       *)
(*                                                                         *)
(* Control messages go over one WebSocket, in order.  The firmware keeps   *)
(* the audio of a capture and posts all of it at the end, over a           *)
(* connection of its own; only then it says audio.end.  An endpoint with   *)
(* an audio socket sends frames as it hears them, without a session's id.  *)
(* Sessions are started by the button, so they listen at once; an answer   *)
(* may ask back and keep the session open for a follow-up.                 *)
(*                                                                         *)
(* A frame is its number.  A message is lost with its connection only.     *)
(***************************************************************************)
EXTENDS Naturals, Sequences, FiniteSets

CONSTANTS Boards,       \* "local": its VAD ends the capture; "advisory": it asks the backend
          Uploads,      \* "http", "socket"
          MaxCaptures,  \* bound: sessions of the endpoint
          MaxHeard,     \* bound: frames captured
          MaxPosts,     \* bound: bodies in flight
          MaxAsks       \* bound: turns that may ask back

ASSUME UploadAssumption ==
  /\ Boards \subseteq {"local", "advisory"} /\ Uploads \subseteq {"http", "socket"}
  /\ MaxCaptures \in Nat /\ MaxHeard \in Nat /\ MaxPosts \in Nat /\ MaxAsks \in Nat

VARIABLES
  kind,     \* the endpoint's board and upload
  mic,      \* the firmware's session: g_session_id, g_session_started, ...
  post,     \* finish_audio_stream at work: where, for whom, with what
  captured, \* history: by frame its session, and whether it answers a question
  ctl,      \* control messages to the backend
  back,     \* and to the endpoint
  bodies,   \* bodies of POST requests in flight
  socket,   \* frames in flight on the audio socket
  active,   \* the backend's active session: id, stage, what it heard
  turns     \* history: what audio.end found to transcribe

uploadVars == <<kind, mic, post, captured, ctl, back, bodies, socket, active, turns>>

NoCaptureYet == [id |-> 0, started |-> FALSE, finished |-> FALSE, reported |-> FALSE,
                 followup |-> FALSE, quiet |-> FALSE, buffer |-> <<>>,
                 finalize |-> FALSE, playing |-> 0]
NoPost == [at |-> "no", id |-> 0, audio |-> <<>>, ok |-> FALSE]
NoActive == [id |-> 0, stage |-> "none", heard |-> <<>>]

UploadInit ==
  /\ kind \in [board : Boards, upload : Uploads]
  /\ mic = NoCaptureYet /\ post = NoPost /\ captured = <<>>
  /\ ctl = <<>> /\ back = <<>> /\ bodies = {} /\ socket = <<>>
  /\ active = NoActive /\ turns = <<>>

-----------------------------------------------------------------------------
(* The endpoint *)

(* reset_voice_session_state: the session's id stays.                      *)
ResetCapture == [NoCaptureYet EXCEPT !.id = mic.id, !.finalize = mic.finalize]

(* ensure_session_started, by the button.                                  *)
StartCapture ==
  /\ ~ mic.started /\ mic.id < MaxCaptures
  /\ mic' = [mic EXCEPT !.id = @ + 1, !.started = TRUE, !.finished = FALSE, !.reported = FALSE,
                        !.followup = FALSE, !.quiet = FALSE]
  /\ ctl' = Append(ctl, [type |-> "start", id |-> mic.id + 1])
  /\ UNCHANGED <<kind, post, captured, back, bodies, socket, active, turns>>

(* A frame: kept for the upload, or sent.                                  *)
Hear ==
  /\ mic.started /\ ~ mic.finished /\ post.at = "no" /\ ~ mic.quiet /\ mic.playing = 0
  /\ Len(captured) < MaxHeard
  /\ captured' = Append(captured, [id |-> mic.id, followup |-> mic.followup])
  /\ IF kind.upload = "http"
       THEN mic' = [mic EXCEPT !.buffer = Append(@, Len(captured) + 1)] /\ UNCHANGED socket
       ELSE socket' = Append(socket, Len(captured) + 1) /\ UNCHANGED mic
  /\ UNCHANGED <<kind, post, ctl, back, bodies, active, turns>>

(* finish_audio_stream: what is kept is posted, when there is any.         *)
BeginFinish(m) ==
  /\ m.started /\ ~ m.finished /\ post.at = "no"
  /\ IF kind.upload = "socket" \/ m.buffer = <<>>
       THEN post' = [NoPost EXCEPT !.at = "answered", !.id = m.id] /\ UNCHANGED bodies
       ELSE /\ post' = [at |-> "posted", id |-> m.id, audio |-> m.buffer, ok |-> FALSE]
            /\ Cardinality(bodies) < MaxPosts
            /\ bodies' = bodies \cup {[id |-> m.id, audio |-> m.buffer]}
  /\ mic' = [m EXCEPT !.finished = TRUE]

(* send_vad_speech_ended_event is made once for a session.                 *)
ReportSpeechEnd(m) ==
  IF m.reported \/ ~ m.started \/ m.finished
    THEN mic' = m /\ UNCHANGED ctl
    ELSE /\ mic' = [m EXCEPT !.reported = TRUE]
         /\ ctl' = Append(ctl, [type |-> "speech_ended", id |-> m.id])

(* The VAD finds silence after speech.                                     *)
HeardInThisWindow ==
  \E n \in DOMAIN captured : captured[n] = [id |-> mic.id, followup |-> mic.followup]

SpeechEnds ==
  /\ mic.started /\ ~ mic.finished /\ ~ mic.quiet /\ HeardInThisWindow
  /\ LET m == [mic EXCEPT !.quiet = TRUE] IN
     \/ kind.board = "local" /\ BeginFinish(m) /\ UNCHANGED ctl
     \/ kind.board = "advisory" /\ ReportSpeechEnd(m) /\ UNCHANGED <<post, bodies>>
  /\ UNCHANGED <<kind, captured, back, socket, active, turns>>

(* process_pending_audio_finalize, for whatever session there is by then.  *)
Finalize ==
  /\ mic.finalize /\ post.at = "no"
  /\ LET m == [mic EXCEPT !.finalize = FALSE] IN
     IF m.started /\ ~ m.finished THEN BeginFinish(m)
     ELSE mic' = m /\ UNCHANGED <<post, bodies>>
  /\ UNCHANGED <<kind, captured, ctl, back, socket, active, turns>>

(* active_audio_stream_timed_out: fifteen seconds after the start, or the  *)
(* follow-up, for which the backend waits ten.                             *)
CaptureTimeout ==
  /\ ~ (active.stage = "followup" /\ active.id = mic.id)
  /\ BeginFinish(mic)
  /\ UNCHANGED <<kind, captured, ctl, back, socket, active, turns>>

(* No connection, or no answer within thirty seconds: the body may still   *)
(* arrive, or not.                                                         *)
PostFails ==
  /\ post.at = "posted" /\ post' = [post EXCEPT !.at = "answered"]
  /\ \/ bodies' = bodies \ {[id |-> post.id, audio |-> post.audio]}
     \/ UNCHANGED bodies
  /\ UNCHANGED <<kind, mic, captured, ctl, back, socket, active, turns>>

(* audio.end names the session there is by then.  "acked": what the        *)
(* backend had acknowledged (history).                                     *)
SendEnd ==
  /\ post.at = "answered"
  /\ ctl' = Append(ctl, [type |-> "end", id |-> mic.id,
                         acked |-> IF post.ok THEN [id |-> post.id, audio |-> post.audio]
                                   ELSE [id |-> 0, audio |-> <<>>]])
  /\ mic' = [mic EXCEPT !.finished = TRUE] /\ post' = NoPost
  /\ UNCHANGED <<kind, captured, back, bodies, socket, active, turns>>

CancelCapture ==
  /\ mic.started /\ mic' = ResetCapture
  /\ ctl' = Append(ctl, [type |-> "cancel", id |-> mic.id])
  /\ UNCHANGED <<kind, post, captured, back, bodies, socket, active, turns>>

(* resume_audio_stream_for_followup: neither the audio kept nor the report *)
(* of the end of speech is cleared.                                        *)
Resume == [mic EXCEPT !.finished = FALSE, !.followup = TRUE, !.quiet = FALSE]

(* Messages of the backend; none is compared with the session.             *)
Receive ==
  /\ back # <<>> /\ back' = Tail(back)
  /\ LET type == back[1].type IN
     mic' = CASE type = "finalize" -> [mic EXCEPT !.finalize = TRUE]
              [] type = "ready"    -> [mic EXCEPT !.playing = back[1].id]
              [] type = "followup" -> IF mic.started THEN Resume ELSE mic
              [] type = "over"     -> ResetCapture
  /\ UNCHANGED <<kind, post, captured, ctl, bodies, socket, active, turns>>

Played ==
  /\ mic.playing # 0 /\ mic' = [mic EXCEPT !.playing = 0]
  /\ ctl' = Append(ctl, [type |-> "played", id |-> mic.playing])
  /\ UNCHANGED <<kind, post, captured, back, bodies, socket, active, turns>>

-----------------------------------------------------------------------------
(* The backend *)

(* Mutant: any active session will do.                                     *)
RequireAny(id) == active.stage # "none"

(* _require_active_session *)
RequireActive(id) == active.stage # "none" /\ active.id = id

Capturing == active.stage \in {"listening", "followup"}
Over(id) == Append(back, [type |-> "over", id |-> id])

(* session.start: a session that heard nothing may be replaced, by its age.*)
HandleStart(m) ==
  \/ /\ active.stage = "none" \/ (active.stage = "listening" /\ active.heard = <<>>)
     /\ active' = [id |-> m.id, stage |-> "listening", heard |-> <<>>]
     /\ UNCHANGED <<back, turns>>
  \/ /\ active.stage # "none"
     /\ back' = Over(m.id) /\ UNCHANGED <<active, turns>>

(* _handle_vad_speech_ended *)
HandleSpeechEnded(m) ==
  /\ back' = IF RequireActive(m.id) THEN Append(back, [type |-> "finalize", id |-> m.id]) ELSE Over(m.id)
  /\ UNCHANGED <<active, turns>>

(* _handle_audio_end: the turn answers, or asks back.                      *)
HandleEnd(m) ==
  IF ~ RequireActive(m.id) THEN back' = Over(m.id) /\ UNCHANGED <<active, turns>>
  ELSE /\ Capturing
       /\ turns' = Append(turns, [id |-> m.id, audio |-> active.heard, acked |-> m.acked])
       /\ \/ active' = NoActive /\ back' = Over(m.id)
          \/ /\ Len(turns) < MaxAsks
             /\ active' = [active EXCEPT !.stage = "responding"]
             /\ back' = Append(back, [type |-> "ready", id |-> m.id])

HandleCancel(m) ==
  /\ active' = IF RequireActive(m.id) THEN NoActive ELSE active
  /\ back' = Over(m.id) /\ UNCHANGED turns

(* tts.playback.completed opens the window for the answer.                 *)
HandlePlayed(m) ==
  /\ IF RequireActive(m.id) /\ active.stage = "responding"
       THEN /\ active' = [active EXCEPT !.stage = "followup", !.heard = <<>>]
            /\ back' = Append(back, [type |-> "followup", id |-> m.id])
       ELSE UNCHANGED <<active, back>>
  /\ UNCHANGED turns

HandleControl ==
  /\ ctl # <<>> /\ ctl' = Tail(ctl)
  /\ LET m == ctl[1] IN
     \/ m.type = "start" /\ HandleStart(m)
     \/ m.type = "speech_ended" /\ HandleSpeechEnded(m)
     \/ m.type = "end" /\ HandleEnd(m)
     \/ m.type = "cancel" /\ HandleCancel(m)
     \/ m.type = "played" /\ HandlePlayed(m)
  /\ UNCHANGED <<kind, mic, post, captured, bodies, socket>>

(* Mutant: the follow-up is forgotten.                                     *)
TakesFirst(audio) ==
  IF active.stage = "listening" THEN [active EXCEPT !.heard = @ \o audio] ELSE active

(* Audio that comes while the backend responds is dropped.                 *)
TakesIn(audio) == IF Capturing THEN [active EXCEPT !.heard = @ \o audio] ELSE active

(* The request is answered 202, dropped or not; this says: and not dropped.*)
Accepted(body) == RequireActive(body.id) /\ Capturing

(* handle_http_audio_event: the body names its session, and is refused for *)
(* another; the error also goes to the endpoint.                           *)
HandleBody ==
  \E body \in bodies :
    /\ bodies' = bodies \ {body}
    /\ IF RequireActive(body.id) THEN active' = TakesIn(body.audio) /\ UNCHANGED back
       ELSE back' = Over(body.id) /\ UNCHANGED active
    /\ post' = IF post.at = "posted" /\ [id |-> post.id, audio |-> post.audio] = body
                 THEN [post EXCEPT !.at = "answered", !.ok = Accepted(body)] ELSE post
    /\ UNCHANGED <<kind, mic, captured, ctl, socket, turns>>

(* handle_binary_audio_frame: the frame is the active session's, if any.   *)
HandleFrame ==
  /\ socket # <<>> /\ socket' = Tail(socket)
  /\ active' = IF active.stage = "none" THEN active ELSE TakesIn(<<socket[1]>>)
  /\ UNCHANGED <<kind, mic, post, captured, ctl, back, bodies, turns>>

(* Ten seconds are over, whatever was heard.                               *)
FollowupEnds ==
  /\ active.stage = "followup"
  /\ active' = NoActive /\ back' = Over(active.id)
  /\ UNCHANGED <<kind, mic, post, captured, ctl, bodies, socket, turns>>

(* The status poll cancels a session that listens for too long.            *)
ListeningEnds ==
  /\ active.stage = "listening" /\ active' = NoActive
  /\ UNCHANGED <<kind, mic, post, captured, ctl, back, bodies, socket, turns>>

(* The control socket is lost, and with it the audio socket and the        *)
(* sessions at both ends; a POST goes on.                                  *)
SocketLost ==
  /\ mic.started \/ ctl # <<>> \/ back # <<>>
  /\ mic' = ResetCapture /\ active' = NoActive
  /\ ctl' = <<>> /\ back' = <<>> /\ socket' = <<>>
  /\ UNCHANGED <<kind, post, captured, bodies, turns>>

UploadNext ==
  \/ StartCapture \/ Hear \/ SpeechEnds \/ Finalize \/ CaptureTimeout \/ PostFails \/ SendEnd
  \/ CancelCapture \/ Receive \/ Played
  \/ HandleControl \/ HandleBody \/ HandleFrame \/ FollowupEnds \/ ListeningEnds \/ SocketLost

UploadSpec == UploadInit /\ [][UploadNext]_uploadVars

-----------------------------------------------------------------------------
UploadTypeOK ==
  /\ active.stage \in {"none", "listening", "responding", "followup"}
  /\ active.id \in 0 .. MaxCaptures /\ mic.id \in 0 .. MaxCaptures
  /\ \A n \in DOMAIN captured : captured[n].id \in 1 .. MaxCaptures
  /\ mic.playing \in 0 .. MaxCaptures /\ post.at \in {"no", "posted", "answered"}

(* What is posted is heard by the session it was captured for, or by none: *)
(* a body that comes late, after a reset, a new session or a new           *)
(* connection, is not another session's.  (_require_active_session; frames *)
(* of an audio socket have no session to tell.)                            *)
SessionsHearTheirOwn ==
  kind.upload = "http" =>
    /\ \A n \in DOMAIN active.heard : captured[active.heard[n]].id = active.id
    /\ \A t \in DOMAIN turns :
         \A n \in DOMAIN turns[t].audio : captured[turns[t].audio[n]].id = turns[t].id

(* A socket's frames are heard in order, none twice.                       *)
FramesInOrder ==
  kind.upload = "socket" =>
    \A i \in 2 .. Len(active.heard) : active.heard[i - 1] < active.heard[i]

(* When the backend accepted a capture while it listened, all of it was    *)
(* transcribed, in one piece, once its audio.end is handled: the end does  *)
(* not overtake it.  (Perhaps by another audio.end: of an earlier post     *)
(* whose session was over, which names the session there is by then.)      *)
(* (docs/task-details.md: "firmware uploads one buffered HTTP audio body,  *)
(* then emits `audio.end`".)                                               *)
Within(part, whole) ==
  \E k \in 0 .. Len(whole) - Len(part) : part = SubSeq(whole, k + 1, k + Len(part))

AcceptedIsTranscribed ==
  \A t \in DOMAIN turns :
    turns[t].acked.id = turns[t].id =>
      \E u \in 1 .. t : turns[u].id = turns[t].id /\ Within(turns[t].acked.audio, turns[u].audio)

(* In a follow-up, when nothing is under way between the two, the endpoint *)
(* is not waiting to be told to upload the answer it captured, while the   *)
(* backend waits for the answer, to cancel the follow-up for silence.      *)
(* (docs/voice-intent-registration.md:223: "keeps the same audio stream    *)
(* open for 10 seconds. If no follow-up audio arrives in that window, the  *)
(* backend sends `session.cancelled`".)                                    *)
NothingUnderWay ==
  ctl = <<>> /\ back = <<>> /\ bodies = {} /\ socket = <<>> /\ post = NoPost /\ ~ mic.finalize

AnswersAreHeard ==
  active.stage = "followup" /\ active.id = mic.id /\ NothingUnderWay =>
    ~ (mic.started /\ ~ mic.finished /\ mic.followup /\ mic.quiet)

(* What a follow-up transcribes was said in it.                            *)
AnswersAreHeardAlone ==
  kind.upload = "http" /\ active.stage = "followup" =>
    \A n \in DOMAIN active.heard : captured[active.heard[n]].followup
=============================================================================
