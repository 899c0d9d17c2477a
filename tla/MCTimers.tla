------------------------------- MODULE MCTimers -------------------------------
(***************************************************************************)
(* Instances for TLC of what Interaction's events set off: the timers'     *)
(* cache and display, the alarms and announcements, and the two cards of   *)
(* the touch panels, weather and timer.  They share no state, so a         *)
(* behaviour follows one of them.  The display is followed twice: with its *)
(* coroutines overlapping and a connection that drops, and with requests   *)
(* that fail.                                                              *)
(***************************************************************************)
EXTENDS TimerEvents, TimerSpeech, WeatherCards, TimerCapture

CONSTANTS
  panel,         \* a touch panel
  sunny, windy,  \* forecasts, of two places
  fine, failed   \* the outcome of two requests: sunny's, and none

VARIABLE part

\* Values of constants that a configuration cannot write.
TwoForecasts == {sunny, windy}
TwoPlaces == [f \in TwoForecasts |-> IF f = sunny THEN "here" ELSE "there"]
FetchTimes == [f \in TwoForecasts |-> 1]
TwoResults == {fine, failed}
Naming == [r \in TwoResults |-> IF r = fine THEN sunny ELSE NoForecast]
OnePanel == [r \in TwoResults |-> panel]

Init ==
  /\ TimerInit /\ SpeechInit /\ WeatherInit /\ CaptureInit
  /\ part \in {"display", "failure", "speech", "weather", "capture"}
  /\ \A t \in Timers : due[t] = t

Next ==
  /\ UNCHANGED part
  /\ \/ /\ TimerNext /\ UNCHANGED <<svars, wvars, cvars>>
        /\ \/ part = "display" /\ UNCHANGED denied
           \/ part = "failure" /\ Len(tasks') <= 1 /\ link' <= 1
     \/ part = "speech" /\ SpeechNext /\ UNCHANGED <<tvars, wvars, cvars>>
     \/ part = "weather" /\ WeatherNext /\ UNCHANGED <<tvars, svars, cvars>>
     \/ part = "capture" /\ CaptureNext /\ UNCHANGED <<tvars, svars, wvars>>

Spec == Init /\ [][Next]_<<tvars, svars, wvars, cvars, part>>

-----------------------------------------------------------------------------
(* The types of the four modules' variables.                               *)
EventsTypeOK == TimerTypeOK /\ SpeechTypeOK /\ WeatherTypeOK /\ CaptureTypeOK

(* The touch panels: a weather request is answered once on the screen of   *)
(* the panel that asked, and the microphone opens once for a prompt of the *)
(* timer's dialogue, whatever is delivered again, pressed again or lost    *)
(* (p4_quick_actions.py).                                                  *)
PanelInv == ResultsAnsweredOnce /\ OneListenPerPrompt
=============================================================================
