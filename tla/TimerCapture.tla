---------------------------- MODULE TimerCapture ----------------------------
(***************************************************************************)
(* The timer button of the touch panels (p4_quick_actions.py and           *)
(* session_manager.py _complete_custom_capture).  A press opens a dialogue *)
(* with Interaction; its prompt is played, the end of the playback opens   *)
(* the microphone, and while the dialogue is open and no prompt of it is   *)
(* playing, whatever is said at the panel is its answer and not a turn of  *)
(* the assistant.  Handlers are coroutines that await Interaction and the  *)
(* sound's synthesis; presses, answers and endpoint events run in between. *)
(***************************************************************************)
EXTENDS Naturals, FiniteSets

CONSTANTS
    TouchPanels,   \* endpoints with the buttons
    Dialogs,       \* custom timer dialogues of Interaction
    NoDialog,
    MaxPrompts     \* bound: prompts of a behaviour

ASSUME CaptureAssumption ==
    /\ NoDialog \notin Dialogs
    /\ MaxPrompts \in Nat \ {0}

VARIABLES
    dialog,         \* Interaction's status of a dialogue
    timerSession,   \* _timer_sessions of a panel
    prompting,      \* _timer_prompt_playback of a panel
    press,          \* the button's coroutine: its step and dialogue
    answer,         \* the answer's coroutine: step, dialogue and words
    sounding,       \* dialogues whose prompt the panel plays
    prompts,        \* prompts marked as playing, per panel
    listens         \* endpoint.listen commands sent for them

cvars == <<dialog, timerSession, prompting, press, answer, sounding,
           prompts, listens>>

Words == {"nothing", "duration", "yes", "no"}
NoAnswer == [step |-> "idle", dialog |-> NoDialog, words |-> "nothing"]

CaptureTypeOK ==
    /\ dialog \in [Dialogs -> {"new", "awaiting_duration", "awaiting_confirmation", "ended"}]
    /\ timerSession \in [TouchPanels -> Dialogs \cup {NoDialog}]
    /\ prompting \in [TouchPanels -> Dialogs \cup {NoDialog}]
    /\ press \in [TouchPanels ->
         [step : {"idle", "invoked", "begun", "spoken"},
          dialog : Dialogs \cup {NoDialog}, words : {"nothing"}]]
    /\ answer \in [TouchPanels ->
         [step : {"idle", "reading", "confirming", "prompt", "spoken", "goodbye"},
          dialog : Dialogs \cup {NoDialog}, words : Words]]
    /\ sounding \in [TouchPanels -> SUBSET Dialogs]
    /\ prompts \in [TouchPanels -> 0 .. MaxPrompts]
    /\ listens \in [TouchPanels -> 0 .. MaxPrompts + 1]

CaptureInit ==
    /\ dialog = [d \in Dialogs |-> "new"]
    /\ timerSession = [p \in TouchPanels |-> NoDialog]
    /\ prompting = [p \in TouchPanels |-> NoDialog]
    /\ press = [p \in TouchPanels |-> NoAnswer]
    /\ answer = [p \in TouchPanels |-> NoAnswer]
    /\ sounding = [p \in TouchPanels |-> {}]
    /\ prompts = [p \in TouchPanels |-> 0]
    /\ listens = [p \in TouchPanels |-> 0]

\* custom_capture_active
CaptureActive(p) == timerSession[p] # NoDialog /\ prompting[p] = NoDialog

counters == <<prompts, listens>>

-----------------------------------------------------------------------------
(* The button.  One press at a time is followed at a panel.                *)

\* handle_button: the declared intent is invoked first.
PressTimer(p) ==
    /\ press[p].step = "idle"
    /\ press' = [press EXCEPT ![p].step = "invoked"]
    /\ UNCHANGED <<dialog, timerSession, prompting, answer, sounding, counters>>

\* It is not registered or Interaction does not answer: status only.
PressFails(p) ==
    /\ press[p].step \in {"invoked", "begun"}
    /\ press' = [press EXCEPT ![p] = NoAnswer]
    /\ UNCHANGED <<dialog, timerSession, prompting, answer, sounding, counters>>

\* _begin_timer: a new dialogue takes the panel, whatever it had.
BeginTimer(p, d) ==
    /\ press[p].step = "invoked" /\ dialog[d] = "new"
    /\ dialog' = [dialog EXCEPT ![d] = "awaiting_duration"]
    /\ timerSession' = [timerSession EXCEPT ![p] = d]
    /\ press' = [press EXCEPT ![p].step = "begun", ![p].dialog = d]
    /\ UNCHANGED <<prompting, answer, sounding, counters>>

\* The prompt is sent to the panel ...
SpeakFirstPrompt(p) ==
    /\ press[p].step = "begun" /\ prompts[p] < MaxPrompts
    /\ sounding' = [sounding EXCEPT ![p] = @ \cup {press[p].dialog}]
    /\ press' = [press EXCEPT ![p].step = "spoken"]
    /\ UNCHANGED <<dialog, timerSession, prompting, answer, counters>>

\* ... and noted as playing when the sending has returned.
NotePlaying(p, d) ==
    /\ prompting' = [prompting EXCEPT ![p] = d]
    /\ prompts' = [prompts EXCEPT ![p] = @ + 1]

NoteFirstPrompt(p) ==
    /\ press[p].step = "spoken" /\ prompts[p] < MaxPrompts
    /\ NotePlaying(p, press[p].dialog)
    /\ press' = [press EXCEPT ![p] = NoAnswer]
    /\ UNCHANGED <<dialog, timerSession, answer, sounding, listens>>

-----------------------------------------------------------------------------
(* Endpoint events.                                                        *)

\* Mutant: the note is kept for the command's acknowledgement.
CompletedKeepsNote(p, d) ==
    /\ prompting' = prompting
    /\ IF prompting[p] = d /\ listens[p] <= MaxPrompts
       THEN listens' = [listens EXCEPT ![p] = @ + 1] ELSE UNCHANGED listens

\* handle_endpoint_event: the prompt of the noted dialogue has ended.
Completed(p, d) ==
    IF prompting[p] = d
    THEN /\ prompting' = [prompting EXCEPT ![p] = NoDialog]
         /\ listens' = [listens EXCEPT ![p] = @ + 1]
    ELSE UNCHANGED <<prompting, listens>>

\* tts.playback.completed: at the end of a prompt, or sent again.
PlaybackEnds(p, d) ==
    /\ dialog[d] # "new"
    /\ sounding' = [sounding EXCEPT ![p] = @ \ {d}]
    /\ Completed(p, d)
    /\ UNCHANGED <<dialog, timerSession, press, answer, prompts>>

\* audio.end of a turn with these words, which is an answer and never reaches
\* the assistant.  A failed transcript has no words.  One answer at a time is
\* followed.
TurnEnds(p, w) ==
    /\ CaptureActive(p)
    /\ answer[p].step = "idle"
    /\ answer' = [answer EXCEPT ![p] =
         [step |-> IF w = "nothing" THEN "prompt" ELSE "reading",
          dialog |-> timerSession[p], words |-> w]]
    /\ UNCHANGED <<dialog, timerSession, prompting, press, sounding, prompts, listens>>

-----------------------------------------------------------------------------
(* handle_custom_capture.                                                  *)

Going(p, step) == answer' = [answer EXCEPT ![p].step = step]
EndAnswer(p) == answer' = [answer EXCEPT ![p] = NoAnswer]

\* read_active, and what the dialogue waits for decides: the duration is
\* submitted, a yes or no is acted on, anything else asked again; in another
\* status the answer is dropped and the panel keeps the dialogue.
ReadDialog(p) ==
    LET a == answer[p] IN
    /\ a.step = "reading"
    /\ \/ /\ dialog[a.dialog] = "awaiting_duration"
          /\ \/ dialog' = [dialog EXCEPT ![a.dialog] = "awaiting_confirmation"]
             \/ UNCHANGED dialog
          /\ Going(p, "prompt")
       \/ /\ dialog[a.dialog] = "awaiting_confirmation"
          /\ Going(p, IF a.words \in {"yes", "no"} THEN "confirming" ELSE "prompt")
          /\ UNCHANGED dialog
       \/ /\ dialog[a.dialog] = "ended"
          /\ EndAnswer(p) /\ UNCHANGED dialog
    /\ UNCHANGED <<timerSession, prompting, press, sounding, counters>>

\* confirm or cancel: Interaction ends the dialogue, the panel forgets the
\* dialogue it has by then, and the outcome is spoken.
ConfirmDialog(p) ==
    LET a == answer[p] IN
    /\ a.step = "confirming"
    /\ dialog' = [dialog EXCEPT ![a.dialog] = "ended"]
    /\ timerSession' = [timerSession EXCEPT ![p] = NoDialog]
    /\ Going(p, "goodbye")
    /\ UNCHANGED <<prompting, press, sounding, counters>>

\* The sound of the outcome, the timer screen or the idle one.
SayGoodbye(p) ==
    /\ answer[p].step = "goodbye"
    /\ sounding' = [sounding EXCEPT ![p] = @ \cup {answer[p].dialog}]
    /\ EndAnswer(p)
    /\ UNCHANGED <<dialog, timerSession, prompting, press, counters>>

\* _continue_timer_prompt
SpeakPrompt(p) ==
    /\ answer[p].step = "prompt" /\ prompts[p] < MaxPrompts
    /\ sounding' = [sounding EXCEPT ![p] = @ \cup {answer[p].dialog}]
    /\ Going(p, "spoken")
    /\ UNCHANGED <<dialog, timerSession, prompting, press, counters>>

NotePrompt(p) ==
    /\ answer[p].step = "spoken" /\ prompts[p] < MaxPrompts
    /\ NotePlaying(p, answer[p].dialog)
    /\ EndAnswer(p)
    /\ UNCHANGED <<dialog, timerSession, press, sounding, listens>>

\* Interaction fails or the panel has gone: the exception ends the coroutine.
AnswerFails(p) ==
    /\ answer[p].step # "idle"
    /\ EndAnswer(p)
    /\ UNCHANGED <<dialog, timerSession, prompting, press, sounding, counters>>

\* Interaction lets a dialogue nobody answers expire, and tells nobody.
DialogExpires(d) ==
    /\ dialog[d] \in {"awaiting_duration", "awaiting_confirmation"}
    /\ dialog' = [dialog EXCEPT ![d] = "ended"]
    /\ UNCHANGED <<timerSession, prompting, press, answer, sounding, counters>>

CaptureNext ==
    \/ \E d \in Dialogs : DialogExpires(d)
    \/ \E p \in TouchPanels :
         \/ PressTimer(p) \/ PressFails(p) \/ SpeakFirstPrompt(p) \/ NoteFirstPrompt(p)
         \/ \E d \in Dialogs : BeginTimer(p, d) \/ PlaybackEnds(p, d)
         \/ \E w \in Words : TurnEnds(p, w)
         \/ ReadDialog(p) \/ ConfirmDialog(p) \/ SayGoodbye(p)
         \/ SpeakPrompt(p) \/ NotePrompt(p) \/ AnswerFails(p)

-----------------------------------------------------------------------------
(* The microphone is opened at most once for each prompt that was played,  *)
(* though the panel may report the end of a playback again, and a second   *)
(* press or an answer may overtake the first prompt                        *)
(* (p4_quick_actions.py handle_endpoint_event).                            *)
OneListenPerPrompt == \A p \in TouchPanels : listens[p] <= prompts[p]
=============================================================================
