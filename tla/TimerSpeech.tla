----------------------------- MODULE TimerSpeech -----------------------------
(***************************************************************************)
(* src/hexevoice/timer_announcements.py: what an endpoint is made to say   *)
(* about its timers.  The same events as in TimerEvents make the thread of *)
(* the MQTT client schedule an alarm or an announcement, told apart from   *)
(* its duplicates there; the coroutines run on the loop, where the voice   *)
(* session that asked may be active, filed in the history, or gone.        *)
(*                                                                         *)
(* A session asks for one timer, or how long is left; the timer node       *)
(* answers in any order, and names the session that asked.  The            *)
(* overlapping topic filters deliver an event once or twice in a row.      *)
(***************************************************************************)
EXTENDS Naturals, Sequences, SequencesExt

CONSTANTS Spoken,      \* timers asked for in a voice session
          Touched,     \* timers set on the touch screen of the panel
          Remembered,  \* length of _seen_alarm_keys
          InFlight     \* bound: events on the wire, and coroutines

Asked == Spoken \cup Touched
Question == "status"           \* the session that asks how long is left
Subjects == Asked \cup {Question}

ASSUME SpeechAssumption ==
  /\ Question \notin Asked /\ Spoken \cap Touched = {}
  /\ {Remembered, InFlight} \subseteq Nat \ {0}

VARIABLES
  voice,         \* the session: none, asked (the turn runs), active, filed
  answered,      \* what the timer node has reported of each subject
  stream,        \* events on their way to the subscriber
  alarmKeys,     \* _seen_alarm_keys, newest first
  answerKeys,    \* _seen_announcement_keys
  calls,         \* coroutines scheduled on the loop
  rang,          \* how often the alarm of a timer was played
  outcome        \* of the announcement for a session

svars == <<voice, answered, stream, alarmKeys, answerKeys, calls, rang, outcome>>

Happening(kind, s) == [kind |-> kind, subject |-> s]

-----------------------------------------------------------------------------

(* The turn publishes the request and speaks its reply in one piece on the *)
(* loop, but the answer may already be under way.                          *)
Ask(s) ==
  /\ voice[s] = "none" /\ \A r \in Subjects : voice[r] # "active"
  /\ voice' = [voice EXCEPT ![s] = IF s \in Touched THEN "touched"
                                   ELSE "active"]
  /\ UNCHANGED <<answered, stream, alarmKeys, answerKeys, calls, rang, outcome>>

(* The session ends; the record in its history holds the reply.            *)
EndSession(s) ==
  /\ voice[s] = "active" /\ voice' = [voice EXCEPT ![s] = "filed"]
  /\ UNCHANGED <<answered, stream, alarmKeys, answerKeys, calls, rang, outcome>>

Report(s) ==
  \E kind \in IF s = Question THEN {"status"} ELSE {"created", "completed"},
     n \in 1 .. 2 :
    /\ voice[s] # "none" /\ kind \notin answered[s]
    /\ kind = "completed" => "created" \in answered[s]
    /\ Len(stream) + n <= InFlight
    /\ answered' = [answered EXCEPT ![s] = @ \cup {kind}]
    /\ stream' = stream \o [k \in 1 .. n |-> Happening(kind, s)]
    /\ UNCHANGED <<voice, alarmKeys, answerKeys, calls, rang, outcome>>

-----------------------------------------------------------------------------

(* timer_completed_alarm and timer_success_announcement: an event makes an *)
(* alarm or an announcement, never both.                                   *)
MakesAlarm(e) == e.kind = "completed"

(* Mutant: the key of an event is not kept.                                *)
KeepKeys(e) == UNCHANGED <<alarmKeys, answerKeys>>

(* Mutant: the list of alarm keys grows for ever.                          *)
KeepAllKeys(e) ==
  IF MakesAlarm(e)
  THEN alarmKeys' = <<e.subject>> \o alarmKeys /\ UNCHANGED answerKeys
  ELSE answerKeys' = answerKeys \cup {e.subject} /\ UNCHANGED alarmKeys

(* The key is kept before the coroutine runs: what fails is not repeated.  *)
RememberKey(e) ==
  IF MakesAlarm(e)
  THEN /\ alarmKeys' = SubSeq(<<e.subject>> \o alarmKeys, 1,
             IF Len(alarmKeys) < Remembered THEN Len(alarmKeys) + 1
             ELSE Remembered)
       /\ UNCHANGED answerKeys
  ELSE answerKeys' = answerKeys \cup {e.subject} /\ UNCHANGED alarmKeys

Seen(e) ==
  IF MakesAlarm(e) THEN Contains(alarmKeys, e.subject)
  ELSE e.subject \in answerKeys

(* _on_message                                                             *)
Hear ==
  /\ stream # <<>> /\ Len(calls) < InFlight
  /\ LET e == Head(stream)
     IN IF Seen(e) THEN UNCHANGED <<alarmKeys, answerKeys, calls>>
        ELSE RememberKey(e) /\ calls' = Append(calls, e)
  /\ stream' = Tail(stream)
  /\ UNCHANGED <<voice, answered, rang, outcome>>

(* push_play_sound_command: the endpoint may be away, or the synthesis     *)
(* fail.                                                                   *)
PushSound(t) == rang' = [rang EXCEPT ![t] = @ + 1] \/ UNCHANGED rang

(* _play_alarm_async: an alarm that fails is not tried again.              *)
Play(k) ==
  /\ k \in DOMAIN calls /\ MakesAlarm(calls[k])
  /\ calls' = RemoveAt(calls, k)
  /\ PushSound(calls[k].subject)
  /\ UNCHANGED <<voice, answered, stream, alarmKeys, answerKeys, outcome>>

(* Mutant: only the session that is active now is asked.                   *)
ActiveReplied(s) == voice[s] = "active"

(* The session is active, or its history holds a reply.                    *)
AlreadyReplied(s) == voice[s] \in {"active", "filed"}

(* push_timer_announcement                                                 *)
PushAnnouncement(s) ==
  \E result \in IF AlreadyReplied(s) THEN {"skipped"} ELSE {"spoken", "refused"} :
    outcome' = [outcome EXCEPT ![s] = result]

(* _announce_async                                                         *)
Announce(k) ==
  /\ k \in DOMAIN calls /\ ~ MakesAlarm(calls[k])
  /\ calls' = RemoveAt(calls, k)
  /\ PushAnnouncement(calls[k].subject)
  /\ UNCHANGED <<voice, answered, stream, alarmKeys, answerKeys, rang>>

-----------------------------------------------------------------------------

SpeechInit ==
  /\ voice = [s \in Subjects |-> "none"]
  /\ answered = [s \in Subjects |-> {}]
  /\ stream = <<>> /\ alarmKeys = <<>> /\ calls = <<>>
  /\ answerKeys = {} /\ outcome = [s \in Subjects |-> "none"]
  /\ rang = [t \in Asked |-> 0]

SpeechNext ==
  \/ \E s \in Subjects : Ask(s) \/ EndSession(s) \/ Report(s)
  \/ Hear
  \/ \E k \in 1 .. InFlight : Play(k) \/ Announce(k)

SpeechSpec == SpeechInit /\ [][SpeechNext]_svars

-----------------------------------------------------------------------------

SpeechTypeOK ==
  /\ voice \in [Subjects -> {"none", "touched", "active", "filed"}]
  /\ Len(stream) <= InFlight /\ Len(calls) <= InFlight
  /\ Len(alarmKeys) <= Remembered
  /\ answerKeys \subseteq Subjects
  /\ outcome \in [Subjects -> {"none", "spoken", "skipped", "refused"}]

(* "A single timer completion does not ring twice": the event is delivered *)
(* once per matching filter, and the alarm is played on another thread     *)
(* than the one that tells the copies apart.                               *)
AlarmsRingOnce == \A t \in Asked : rang[t] <= 1

(* A creation answered aloud in its voice session is not announced again,  *)
(* whether the event arrives while the session is active or after it was   *)
(* filed.                                                                  *)
RepliedNotAnnounced == \A s \in Spoken : outcome[s] # "spoken"

(* Nothing is heard twice: not a completion, not a creation.               *)
HeardOnce == AlarmsRingOnce /\ RepliedNotAnnounced

(* docs/voice-intent-registration.md:129: the answer of the timer node to  *)
(* "how much time is left" is announced back to the endpoint.  The turn    *)
(* has said "Checking the timer." by then, and that counts as the reply.   *)
StatusAnswerSpoken == outcome[Question] # "skipped"
=============================================================================
