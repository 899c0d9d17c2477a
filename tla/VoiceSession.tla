---------------------------- MODULE VoiceSession ----------------------------
(***************************************************************************)
(* src/hexevoice/voice/session_manager.py: the life of the voice sessions  *)
(* of ONE endpoint, from session.start to the history record.              *)
(*                                                                         *)
(* Every handler runs on one event loop and does not await, so a handler   *)
(* is one step.  The exceptions are modelled: push_cancel_command awaits   *)
(* the send before it touches the session (CancelSent, CancelApplied), and *)
(* the follow-up timer is a task of its own.  The replacement of a         *)
(* connection (Reconnect) is one step here although it awaits the closing  *)
(* of the old sockets: EndpointConnections opens it up, and shows that a   *)
(* session may then be filed twice or never.  A request the code answers   *)
(* with an error and no change of state is a stutter and has no action.    *)
(*                                                                         *)
(* Abstractions: an audio chunk carries audio and only where it was heard  *)
(* is kept (before the wake, or as speech); ages are the four ranges the   *)
(* code's thresholds tell apart; transcription, assistant and TTS are a    *)
(* choice of outcome.  The turn pipeline is configured, as main.py does.   *)
(***************************************************************************)
EXTENDS Integers

CONSTANTS MaxSessions,  \* bound: sessions an endpoint starts between boots
          NoSession,    \* _active_session is None; also no timer task
          Windows,      \* operator windows in use: enrollment, placement
          CustomInUse,  \* the P4 quick-action capture may be active
          Alarms        \* a timer alarm may play on the endpoint

(* <endpoint_id>-<n>, where g_session_counter counts the endpoint's starts  *)
Ids == 1 .. MaxSessions

(* VoiceSessionState and VOICE_SESSION_ALLOWED_TRANSITIONS                 *)
Ending == {"cancelled", "failed"}

Allowed ==
  [idle          |-> {"wake_detected", "listening", "capturing"} \cup Ending,
   wake_detected |-> {"listening"} \cup Ending,
   listening     |-> {"capturing"} \cup Ending,
   capturing     |-> {"transcribing"} \cup Ending,
   transcribing  |-> {"local_command", "routing"} \cup Ending,
   local_command |-> {"responding", "completed"} \cup Ending,
   routing       |-> {"responding"} \cup Ending,
   responding    |-> {"listening", "completed"} \cup Ending,
   completed     |-> {"idle"},
   cancelled     |-> {"idle"},
   failed        |-> {"idle"}]

States == DOMAIN Allowed

(* _set_session_state: a transition that is not allowed fails the session. *)
SetState(from, to) ==
  IF from = to \/ to \in Allowed[from] THEN to ELSE "failed"

Wakes == {"none", "button", "elected", "enrollment", "placement"}

Clocks == {"boot", "synced"}

Session ==
  [id        : Ids,
   state     : States,
   wake      : Wakes,                          \* history "wake", accepted
   placement : BOOLEAN,                        \* history "placement_test"
   counted   : BOOLEAN,                        \* _chunk_count > 0
   audio     : SUBSET {"prewake", "speech"},   \* _audio_chunks
   follow    : {"none", "waiting", "listening"},
   age       : 0 .. 3,   \* <750ms, <10s, <60s, more, since started_at
   stamp     : Clocks]   \* the endpoint clock that stamped started_at

ASSUME VoiceAssumption ==
  /\ MaxSessions \in Nat
  /\ NoSession \notin Ids /\ NoSession \notin Session
  /\ Windows \subseteq {"enrollment", "placement"}
  /\ CustomInUse \in BOOLEAN /\ Alarms \in BOOLEAN

VARIABLES
  connected,   \* the control WebSocket of the endpoint is up
  clock,       \* the endpoint's clock: seconds since boot, or NTP time
  session,     \* _active_session with its history entry and buffers
  timer,       \* the session a follow-up timeout task is armed for
  cancelling,  \* push_cancel_command is awaiting its send
  alarm,       \* an alarm playback is in _active_playbacks
  window,      \* operator windows open for the endpoint
  custom,      \* custom_capture_active(endpoint)
  counter,     \* g_session_counter of the endpoint
  owed,        \* history: the sessions started and not yet filed
  record,      \* VoiceSessionHistoryStore, by id: filed as failed, or closed
  filed,       \* history: the completion_reason filed by the last step
  heard        \* history: the audio transcribed by the last step

vars == <<connected, clock, session, timer, cancelling, alarm, window,
          custom, counter, owed, record, filed, heard>>

env == <<connected, clock, cancelling, alarm, window, custom>>

Live == session # NoSession

NoTurn == [wake |-> "none", placement |-> FALSE, audio |-> {},
           via |-> "nothing"]

Silent == heard' = NoTurn

(* completion_reason, and one value for a step that files nothing *)
Reasons ==
  {"nothing", "stt_failed", "tts_failed", "custom_capture_completed",
   "placement_test", "speaker_enrollment_capture", "result_media_pending",
   "turn_completed", "wake_not_detected", "playback_interrupt_stop",
   "superseded_by_new_session", "pre_wake_timeout",
   "active_session_timeout", "tts_playback_failed", "followup_timeout",
   "endpoint_cancelled", "operator_cancelled", "endpoint_cancel_pushed",
   "stand_down_replaced_by_better_candidate", "websocket_disconnected",
   "endpoint_reconnected"}

Turn(s, via) == [wake |-> s.wake, placement |-> s.placement,
                 audio |-> s.audio, via |-> via]

-----------------------------------------------------------------------------
(* Timing *)

(* event.timestamp - started_at.  Both are stamped by the endpoint in      *)
(* whole seconds, so less than 750 ms may read as more; and across the     *)
(* endpoint's NTP sync the difference is decades.                          *)
EventAges(s) ==
  IF s.stamp # clock THEN {3}
  ELSE IF s.age <= 1 THEN {0, 1} ELSE {s.age}

(* datetime.now() - started_at, in status()                                *)
ServerAge(s) == IF s.stamp = "boot" THEN 3 ELSE s.age

(* Mutant: a follow-up that listens again is not bounded.                  *)
TimeoutForgetsListening(s, age) ==
  {why \in {"pre_wake_timeout", "active_session_timeout"} :
     IF why = "pre_wake_timeout"
       THEN s.state = "idle" /\ age >= 2
       ELSE s.state \in {"wake_detected", "capturing"} /\ age = 3}

(* _active_session_timeout_reason                                          *)
TimeoutReasons(s, age) ==
  {why \in {"pre_wake_timeout", "active_session_timeout"} :
     IF why = "pre_wake_timeout"
       THEN s.state = "idle" /\ age >= 2
       ELSE s.state \in {"wake_detected", "listening", "capturing"}
            /\ age = 3}

-----------------------------------------------------------------------------
(* Ending a session: state, history record, timer and buffers together.    *)

(* upsert_session replaces an older record of the same id.  A step may     *)
(* open the next session as it files the last: opened is {} or its id.     *)
File(s, final, why, opened) ==
  /\ record' = [record EXCEPT ![s.id] =
                   IF final = "failed" THEN "failed" ELSE "closed"]
  /\ filed' = why
  /\ owed' = (owed \ {s.id}) \cup opened

(* A step that does not touch the session. *)
Bystander ==
  /\ filed' = "nothing" /\ Silent
  /\ UNCHANGED <<session, timer, counter, owed, record>>

NothingFiled == filed' = "nothing" /\ UNCHANGED <<record, owed>>

(* Mutant: the state is overwritten instead of set by a transition.        *)
CancelUnchecked(why) ==
  /\ Live
  /\ File(session, "cancelled", why, {})
  /\ session' = NoSession
  /\ timer' = NoSession

Cancel(why) ==
  /\ Live
  /\ File(session, SetState(session.state, "cancelled"), why, {})
  /\ session' = NoSession
  /\ timer' = NoSession

(* Requests that address the live session: its own id, or another id that  *)
(* the placement, enrollment or alarm-interrupt rules fold into it.        *)
PlacementCapture(s) == s.placement /\ "placement" \in window

EnrollmentCapture(s) == s.wake = "enrollment" /\ "enrollment" \in window

Merges == PlacementCapture(session) \/ EnrollmentCapture(session)

InterruptMerges == session.state = "idle" /\ alarm

-----------------------------------------------------------------------------
(* audio.end *)

(* What a finished turn may come to on each path: the state asked for and  *)
(* the reason filed.                                                       *)
Endings ==
  [custom     |-> {<<"failed", "stt_failed">>,
                   <<"completed", "custom_capture_completed">>},
   placement  |-> {<<"completed", "placement_test">>},
   enrollment |-> {<<"failed", "stt_failed">>,
                   <<"completed", "speaker_enrollment_capture">>},
   turn       |-> {<<"failed", "stt_failed">>, <<"failed", "tts_failed">>,
                   <<"completed", "result_media_pending">>,
                   <<"completed", "turn_completed">>}]

(* Mutant: placement is read from the open windows, not from the session.  *)
PathByWindow(s) ==
  CASE custom                                        -> "custom"
    [] ~ custom /\ "placement" \in window            -> "placement"
    [] ~ custom /\ window = {"enrollment"}           -> "enrollment"
    [] OTHER                                         -> "turn"

(* The path is chosen when the audio ends, from what is open at that time. *)
Path(s) ==
  CASE custom                                        -> "custom"
    [] ~ custom /\ s.placement                       -> "placement"
    [] ~ custom /\ ~ s.placement
                /\ "enrollment" \in window           -> "enrollment"
    [] OTHER                                         -> "turn"

Transcribed(s) == SetState(s.state, "transcribing")

(* Mutant: the follow-up task is not cancelled.                            *)
FinishKeepsTimer(s, ending, opened) ==
  /\ File(s, SetState(SetState(Transcribed(s), "local_command"), ending[1]),
          ending[2], opened)
  /\ heard' = Turn(s, Path(s))
  /\ window' = IF Path(s) = "placement" THEN window \ {"placement"}
                                        ELSE window
  /\ UNCHANGED timer

(* A turn routed to the assistant also passes through routing and          *)
(* responding; each ends where the local command does.                     *)
FinishTurn(s, ending, opened) ==
  /\ File(s, SetState(SetState(Transcribed(s), "local_command"), ending[1]),
          ending[2], opened)
  /\ heard' = Turn(s, Path(s))
  /\ window' = IF Path(s) = "placement" THEN window \ {"placement"}
                                        ELSE window
  /\ timer' = NoSession

(* The assistant asked a question: the session waits for its own reply to  *)
(* be played.  A timer armed for an earlier question stays armed.          *)
AwaitFollowup(s) ==
  /\ Path(s) = "turn"
  /\ session' = [s EXCEPT
       !.state = SetState(SetState(Transcribed(s), "routing"), "responding"),
       !.follow = "waiting"]
  /\ heard' = Turn(s, "turn")
  /\ NothingFiled /\ UNCHANGED <<timer, window>>

(* audio.end before the wake: during an alarm the buffered audio is        *)
(* searched for a stop phrase, otherwise nothing is transcribed.           *)
EndUnwoken ==
  /\ session.state = "idle"
  /\ \/ Cancel("wake_not_detected")
     \/ alarm /\ session.audio # {} /\ Cancel("playback_interrupt_stop")
  /\ heard' = IF alarm /\ session.audio # {}
                THEN Turn(session, "interrupt") ELSE NoTurn
  /\ UNCHANGED window

AudioEnd(i) ==
  /\ Live
  /\ i = session.id \/ Merges \/ InterruptMerges
  /\ \/ EndUnwoken
     \/ /\ session.state # "idle"
        /\ \/ \E ending \in Endings[Path(session)] :
                FinishTurn(session, ending, {}) /\ session' = NoSession
           \/ AwaitFollowup(session)
  /\ UNCHANGED <<connected, clock, cancelling, alarm, custom, counter>>

-----------------------------------------------------------------------------
(* session.start *)

Woken == SetState(SetState("idle", "wake_detected"), "listening")

NewSession(i, source, open) ==
  [id |-> i, state |-> IF source = "button" THEN Woken ELSE "idle",
   wake |-> IF source = "button" THEN "button" ELSE "none",
   placement |-> "placement" \in open, counted |-> FALSE, audio |-> {},
   follow |-> "none", age |-> 0, stamp |-> clock]

(* A placement or enrollment capture that has audio is finished first.     *)
CaptureComplete(s) ==
  /\ s.state \in {"listening", "capturing"} /\ s.counted
  /\ PlacementCapture(s) \/ EnrollmentCapture(s)

(* Mutant: a session that captured audio is replaced too.                  *)
CanReplaceAny(s, age) ==
  /\ s.counted \/ age # 0
  /\ \/ s.state = "idle" /\ s.wake = "none"
     \/ s.state \in {"wake_detected", "listening", "capturing"}

(* _can_replace_active_session: a stale session that captured nothing.     *)
CanReplace(s, age) ==
  /\ s.counted \/ age # 0
  /\ \/ s.state = "idle" /\ s.wake = "none"
     \/ s.state \in {"wake_detected", "listening"} /\ ~ s.counted

(* The next session opens once the last is filed.  A payload that does not *)
(* validate opens none, but only after the last session has been ended.    *)
SessionStart(i, source) ==
  /\ connected
  /\ i > counter /\ counter' = i
  /\ \E opened \in {{}, {i}} :
       /\ \/ /\ ~ Live /\ Silent /\ UNCHANGED <<timer, window, record>>
             /\ filed' = "nothing" /\ owed' = owed \cup opened
          \/ /\ Live /\ CaptureComplete(session)
             /\ \E ending \in Endings[Path(session)] :
                  FinishTurn(session, ending, opened)
          \/ /\ Live /\ ~ CaptureComplete(session) /\ ~ InterruptMerges
             /\ \E age \in EventAges(session) : CanReplace(session, age)
             /\ File(session, SetState(session.state, "cancelled"),
                     "superseded_by_new_session", opened)
             /\ timer' = NoSession
             /\ Silent /\ UNCHANGED window
       /\ session' = IF opened = {} THEN NoSession
                                    ELSE NewSession(i, source, window')
  /\ UNCHANGED <<connected, clock, cancelling, alarm, custom>>

-----------------------------------------------------------------------------
(* audio.chunk and wake.candidate *)

Capturable == {"idle", "wake_detected", "listening", "capturing"}

Places(s) == "placement" \in window /\ s.state \in Capturable
                                    /\ ~ s.placement

Enrolls(s) == "enrollment" \in window /\ s.state \in Capturable
                                      /\ s.wake # "enrollment"

(* Mutant: the placement admission does not record the wake.               *)
AdmitUnrecorded(s) ==
  [s EXCEPT
     !.counted = TRUE,
     !.wake = IF Enrolls(s) THEN "enrollment" ELSE @,
     !.placement = @ \/ Places(s),
     !.state = IF Enrolls(s) \/ Places(s) THEN SetState(@, "listening")
                                          ELSE @]

(* An open window accepts the chunk in place of a wake word.               *)
Admit(s) ==
  [s EXCEPT
     !.counted = TRUE,
     !.wake = IF Enrolls(s) THEN "enrollment"
              ELSE IF Places(s) THEN "placement" ELSE @,
     !.placement = @ \/ Places(s),
     !.state = IF Enrolls(s) \/ Places(s) THEN SetState(@, "listening")
                                          ELSE @]

(* Audio heard before the wake is kept only to interrupt an alarm.         *)
KeepPrewake(s) ==
  [s EXCEPT !.audio = IF s.state = "idle" /\ alarm THEN @ \cup {"prewake"}
                                                   ELSE @]

(* Mutant: the wake is recorded under a source the history does not know.  *)
ElectUnknown(s) == [s EXCEPT !.wake = "candidate", !.state = Woken]

(* _accept_wake_candidate: the candidate won its election.                 *)
Elect(s) == [s EXCEPT !.wake = "elected", !.state = Woken]

(* The chunk that woke or enrolled the session is not itself captured.     *)
Capture(s, spent) ==
  IF s.state \in {"listening", "capturing"}
    THEN [s EXCEPT !.state = SetState(@, "capturing"),
                   !.audio = IF spent THEN @ ELSE @ \cup {"speech"}]
    ELSE s

AudioChunk(i) ==
  /\ Live
  /\ i = session.id \/ Merges \/ InterruptMerges
  /\ \E age \in EventAges(session) :
       \/ \E why \in TimeoutReasons(session, age) : Cancel(why)
       \/ /\ TimeoutReasons(session, age) = {}
          /\ LET s == KeepPrewake(Admit(session))
             IN \/ session' = Capture(s, Enrolls(session))
                \/ s.state = "idle" /\ session' = Capture(Elect(s), TRUE)
          /\ NothingFiled /\ UNCHANGED timer
  /\ Silent /\ UNCHANGED <<env, counter>>

(* The endpoint's own detection, elected; a rejected one changes nothing.  *)
WakeCandidate(i) ==
  /\ Live /\ i = session.id /\ session.state = "idle"
  /\ session' = Elect(session)
  /\ NothingFiled /\ Silent /\ UNCHANGED <<env, timer, counter>>

-----------------------------------------------------------------------------
(* Playback of replies and alarms *)

(* The reply with the question was played: listen again, without a wake.   *)
ReplyPlayed(i) ==
  /\ Live /\ i = session.id
  /\ session.follow # "none" /\ session.state = "responding"
  /\ session' = [session EXCEPT !.state = SetState(@, "listening"),
                                !.follow = "listening",
                                !.audio = {}, !.counted = FALSE]
  /\ timer' = session.id
  /\ NothingFiled /\ Silent /\ UNCHANGED <<env, counter>>

(* tts.playback.failed of any stream cancels a session with a follow-up    *)
(* pending: the handler does not compare ids.                              *)
PlaybackFailed ==
  /\ Live /\ session.follow # "none"
  /\ Cancel("tts_playback_failed")
  /\ alarm' \in {alarm, FALSE}
  /\ Silent
  /\ UNCHANGED <<connected, clock, cancelling, window, custom, counter>>

AlarmStarts ==
  /\ Alarms /\ connected /\ ~ alarm /\ alarm' = TRUE
  /\ Bystander /\ UNCHANGED <<connected, clock, cancelling, window, custom>>

(* completed, stopped, or failed with no follow-up pending                 *)
AlarmEnds ==
  /\ alarm /\ alarm' = FALSE
  /\ Bystander /\ UNCHANGED <<connected, clock, cancelling, window, custom>>

(* _followup_timeout, after its sleep                                      *)
FollowupTimeout ==
  /\ timer # NoSession
  /\ IF Live /\ connected /\ session.id = timer /\ session.follow # "none"
       THEN Cancel("followup_timeout")
       ELSE timer' = NoSession /\ NothingFiled /\ UNCHANGED session
  /\ Silent /\ UNCHANGED <<env, counter>>

-----------------------------------------------------------------------------
(* Everything else that ends a session *)

CancelRequested(why) == Cancel(why) /\ Silent /\ UNCHANGED <<env, counter>>

SessionCancel(i) ==
  /\ Live
  /\ i = session.id \/ Merges
  /\ CancelRequested("endpoint_cancelled")

OperatorCancel == CancelRequested("operator_cancelled")

(* push_cancel_command: whatever is live once the send has returned.       *)
CancelSent ==
  /\ connected /\ ~ cancelling /\ cancelling' = TRUE
  /\ Bystander /\ UNCHANGED <<connected, clock, alarm, window, custom>>

CancelApplied ==
  /\ cancelling /\ cancelling' = FALSE
  /\ \/ Cancel("endpoint_cancel_pushed")
     \/ ~ Live /\ NothingFiled /\ UNCHANGED <<session, timer>>
  /\ Silent /\ UNCHANGED <<connected, clock, alarm, window, custom, counter>>

(* status(), which the page cache rebuilds every ten seconds               *)
StatusPoll ==
  /\ Live
  /\ \E why \in TimeoutReasons(session, ServerAge(session)) :
       CancelRequested(why)

(* _stand_down_replaced_winner: another endpoint overtook this one.        *)
StandDown ==
  /\ Live /\ session.wake = "elected"
  /\ CancelRequested("stand_down_replaced_by_better_candidate")

(* Mutant: the runtime is dropped with its session unfiled.                *)
DropWithConnection(why) ==
  /\ connected
  /\ session' = NoSession /\ timer' = NoSession /\ NothingFiled
  /\ alarm' = FALSE /\ cancelling' = FALSE
  /\ Silent /\ UNCHANGED <<window, custom>>

EndWithConnection(why) ==
  /\ connected
  /\ \/ Cancel(why)
     \/ ~ Live /\ timer' = NoSession /\ NothingFiled /\ UNCHANGED session
  /\ alarm' = FALSE /\ cancelling' = FALSE
  /\ Silent /\ UNCHANGED <<window, custom>>

Disconnect ==
  /\ EndWithConnection("websocket_disconnected") /\ connected' = FALSE
  /\ UNCHANGED <<clock, counter>>

(* The clock and the counter that numbers the sessions live in the RAM of  *)
(* the endpoint: after a restart both begin again.                         *)
MayReboot ==
  \/ UNCHANGED <<clock, counter>>
  \/ clock' = "boot" /\ counter' = 0

(* A second control socket replaces the runtime of the first.              *)
Reconnect ==
  /\ EndWithConnection("endpoint_reconnected") /\ connected' = TRUE
  /\ MayReboot

(* A new runtime, perhaps of an endpoint that was restarted.               *)
Connect ==
  /\ ~ connected /\ connected' = TRUE
  /\ MayReboot
  /\ filed' = "nothing" /\ Silent
  /\ UNCHANGED <<session, timer, owed, record, cancelling, alarm, window,
                 custom>>

-----------------------------------------------------------------------------
(* The surroundings *)

SetWindows(ws) ==
  /\ window' = ws
  /\ Bystander /\ UNCHANGED <<connected, clock, cancelling, alarm, custom>>

OpenWindow(w) == w \in Windows \ window /\ SetWindows(window \cup {w})

(* Windows are dropped lazily; nothing else observes that they expired.    *)
WindowExpires(w) == w \in window /\ SetWindows(window \ {w})

CustomCaptureToggles ==
  /\ CustomInUse /\ custom' = ~ custom
  /\ Bystander /\ UNCHANGED <<connected, clock, cancelling, alarm, window>>

ClockSync ==
  /\ clock = "boot" /\ clock' = "synced"
  /\ Bystander /\ UNCHANGED <<connected, cancelling, alarm, window, custom>>

Tick ==
  /\ Live /\ session.age < 3
  /\ session' = [session EXCEPT !.age = @ + 1]
  /\ NothingFiled /\ Silent /\ UNCHANGED <<env, timer, counter>>

-----------------------------------------------------------------------------

Init ==
  /\ connected = FALSE /\ clock = "boot"
  /\ session = NoSession /\ timer = NoSession
  /\ cancelling = FALSE /\ alarm = FALSE
  /\ window = {} /\ custom = FALSE
  /\ counter = 0 /\ owed = {} /\ record = [i \in Ids |-> "open"]
  /\ filed = "nothing" /\ heard = NoTurn

EndpointEvent(i) ==
  \/ SessionStart(i, "wake_word") \/ SessionStart(i, "button")
  \/ AudioChunk(i) \/ AudioEnd(i) \/ WakeCandidate(i)
  \/ ReplyPlayed(i) \/ SessionCancel(i)

Connection == Connect \/ Disconnect \/ Reconnect

Surroundings ==
  \/ AlarmStarts \/ AlarmEnds \/ CustomCaptureToggles \/ ClockSync
  \/ \E w \in Windows : OpenWindow(w) \/ WindowExpires(w)

Next ==
  \/ \E i \in Ids : EndpointEvent(i)
  \/ PlaybackFailed \/ FollowupTimeout \/ StatusPoll \/ StandDown
  \/ OperatorCancel \/ CancelSent \/ CancelApplied
  \/ Connection \/ Surroundings \/ Tick

Spec == Init /\ [][Next]_vars

(* Time passes; the event loop runs a timer that is due; main.py's page    *)
(* cache keeps calling status().  Nothing is assumed of the endpoint.      *)
Fairness == WF_vars(Tick) /\ WF_vars(FollowupTimeout) /\ WF_vars(StatusPoll)

FairSpec == Spec /\ Fairness

-----------------------------------------------------------------------------
(* Properties *)

(* Every variable stays in its type; the session states and the fields are *)
(* those of VoiceSessionSnapshot and EndpointSessionRuntime.               *)
TypeOK ==
  /\ connected \in BOOLEAN /\ clock \in Clocks
  /\ session \in Session \cup {NoSession}
  /\ timer \in Ids \cup {NoSession}
  /\ cancelling \in BOOLEAN /\ alarm \in BOOLEAN /\ custom \in BOOLEAN
  /\ window \subseteq Windows
  /\ counter \in 0 .. MaxSessions /\ owed \subseteq Ids
  /\ record \in [Ids -> {"open", "closed", "failed"}]
  /\ filed \in Reasons
  /\ heard \in [wake : Wakes, placement : BOOLEAN,
                audio : SUBSET {"prewake", "speech"},
                via : {"nothing", "interrupt"} \cup DOMAIN Endings]

(* Speech-to-text only ever receives the audio of a session that was woken *)
(* by a word, a button or an operator's window; the one exception is the   *)
(* search for a stop phrase while an alarm rings.  The wake is recorded by *)
(* one handler and relied on by another, with reconnects, follow-ups and   *)
(* supersessions between them.                                             *)
NothingHeardWithoutWake ==
  /\ heard.via \notin {"nothing", "interrupt"} => heard.wake # "none"
  /\ heard.via = "interrupt" => heard.audio = {"prewake"}

(* Of the sessions started, only the live one is still to be filed: no way *)
(* out of a session (turn, error, timeout, cancel, supersession, lost      *)
(* connection, a start that turns out invalid) skips the history store,    *)
(* and none files a session it keeps.                                      *)
SessionsAccountedFor == owed = IF Live THEN {session.id} ELSE {}

(* A follow-up timeout task never outlives its session, and so the checks  *)
(* _followup_timeout makes when it wakes always succeed.                   *)
TimerOwnsLiveFollowup ==
  timer # NoSession =>
    Live /\ connected /\ session.id = timer /\ session.follow # "none"

(* A placement sample is never answered: docs/voice-placement-testing.md   *)
(* promises that assistant routing and TTS are suppressed for it, whatever *)
(* became of the window between its first chunk and its end.               *)
PlacementNeverAnswered == heard.placement => heard.via # "turn"

(* A new session may replace a stale one, never one that holds speech: a   *)
(* duplicate session.start does not throw away what the user said.         *)
SupersededHeldNoSpeech ==
  [][filed' = "superseded_by_new_session"
     => "speech" \notin session.audio]_vars

(* The live session, its health and the outcomes of all sessions, seen as  *)
(* a SessionLedger.                                                        *)
Ledger ==
  INSTANCE SessionLedger WITH
    Ids <- Ids,
    Nobody <- NoSession,
    live <- IF Live THEN session.id ELSE NoSession,
    broken <- Live /\ session.state = "failed",
    taken <- 1 .. counter,
    outcome <- record

(* Sessions are opened and closed as the ledger allows: one at a time,     *)
(* each closed once, a session that made an invalid transition never as    *)
(* completed or cancelled, and what was filed of a session rewritten only  *)
(* by a later one that a restarted endpoint gave the same id.              *)
ImplementsLedger == Ledger!LSpec

(* A session waiting for a wake, for speech or for the end of speech does  *)
(* not wait for ever, although the endpoint may fall silent: it ends, is   *)
(* answered or fails.                                                      *)
WaitingIsBounded ==
  Live /\ session.state \in {"idle", "listening", "capturing"}
    ~> ~ Live \/ session.state \in {"responding", "failed"}

-----------------------------------------------------------------------------
(* What the documents say and the code does not do; see the README.        *)

(* docs/voice-intent-registration.md:221: the timeout is for a window in   *)
(* which no follow-up audio arrived.                                       *)
FollowupTimesOutInSilence ==
  [][filed' = "followup_timeout"
     => session.follow = "listening" /\ ~ session.counted]_vars

(* docs/speaker-id-service.md:235: phrases captured for enrollment are not *)
(* answered by the assistant.                                              *)
EnrollmentNeverAnswered ==
  heard.wake = "enrollment" /\ "speech" \in heard.audio => heard.via # "turn"
=============================================================================
