--------------------------- MODULE PlacementTests ---------------------------
(***************************************************************************)
(* What the backend learns about the place an endpoint stands in           *)
(* (voice/session_manager.py, persistence/voice_placement_calibration.py,  *)
(* voice_session_history.py and voice_quality_observation_log.py):         *)
(*                                                                         *)
(*   - tests: an operator opens a window for an endpoint, the first audio  *)
(*     in it makes its session a test, and the end of the session makes    *)
(*     its report, kept in the history of sessions;                        *)
(*   - calibrations: windows of one or two days to which an endpoint       *)
(*     reports samples, stamped with its own clock, each with a retention; *)
(*   - observations: a line for every completed turn, by day.              *)
(*                                                                         *)
(* All requests are handled on the event loop, one at a time.  The clock   *)
(* counts days.  One endpoint: it numbers its sessions from one after      *)
(* every restart, and the history knows a session by its number.           *)
(***************************************************************************)
EXTENDS Naturals, Sequences, FiniteSets

CONSTANTS Durations,     \* of calibrations, days
          Retentions,    \* of their samples, days
          MaxWindows,    \* max_windows of the store
          MaxSamples,    \* max_samples
          MaxRecords,    \* max_records of the history
          Month,         \* one calendar month, days
          MaxDate,       \* bound: days
          MaxOpened,     \* bound: windows ever opened, of each kind
          MaxSessionId   \* bound: sessions between restarts of the endpoint

ASSUME PlacementAssumption ==
  /\ Durations \subseteq Nat \ {0} /\ Retentions \subseteq Nat \ {0}
  /\ {MaxWindows, MaxSamples, MaxRecords} \subseteq Nat \ {0}
  /\ {Month, MaxDate, MaxOpened, MaxSessionId} \subseteq Nat

VARIABLES
  date,         \* days since the first
  windows,      \* calibrations, newest first
  samples,      \* newest first
  opened,       \* tests opened so far, the last one's number
  testWindow,   \* _active_placement_test_windows of the endpoint
  spoken,       \* the active session
  sessionNo,    \* the endpoint's counter
  records,      \* the history of sessions, newest first
  observations  \* lines of the observation log

calibrationVars == <<windows, samples>>
testVars == <<opened, testWindow, spoken, sessionNo, records, observations>>
placementVars == <<date, calibrationVars, testVars>>

NoTest == 0
NoDate == MaxDate + 10
NotSpoken == [id |-> 0, test |-> NoTest, chunks |-> 0]
DefaultRetention == 3
MaxReports == MaxSamples + 1  \* bound: samples of a window

PlacementInit ==
  /\ date = 0 /\ windows = <<>> /\ samples = <<>>
  /\ opened = 0 /\ testWindow = NoTest /\ spoken = NotSpoken /\ sessionNo = 0
  /\ records = <<>> /\ observations = {}

Newest(seq, most) == SubSeq(seq, 1, IF Len(seq) < most THEN Len(seq) ELSE most)

(* The elements at some places, in their order.                            *)
InOrder(e) == \A i, j \in DOMAIN e : i < j => e[i] < e[j]
Kept(seq, places) ==
  LET order == CHOOSE e \in [1 .. Cardinality(places) -> places] : InOrder(e)
  IN  [k \in 1 .. Cardinality(places) |-> seq[order[k]]]

-----------------------------------------------------------------------------
(* Calibrations *)

(* _complete_expired_windows *)
CompleteExpired ==
  [n \in DOMAIN windows |->
     IF windows[n].status = "active" /\ windows[n].ends <= date
       THEN [windows[n] EXCEPT !.status = "completed", !.due = NoDate] ELSE windows[n]]

(* cleanup: samples outlive a window that was dropped, for three days.     *)
RetentionOf(sample, ws) ==
  IF \E n \in DOMAIN ws : ws[n].id = sample.of
    THEN ws[CHOOSE n \in DOMAIN ws : ws[n].id = sample.of].retention ELSE DefaultRetention

Retained(all, ws) == Kept(all, {n \in DOMAIN all : all[n].observed + RetentionOf(all[n], ws) >= date})

WindowIds == {windows[n].id : n \in DOMAIN windows}
Started == IF windows = <<>> THEN 0 ELSE windows[1].id

StartWindow ==
  \E days \in Durations, keep \in Retentions :
    /\ Started < MaxOpened
    /\ windows' = Newest(<<[id |-> Started + 1, status |-> "active", from |-> date, ends |-> date + days,
                            due |-> date, retention |-> keep, count |-> 0, closed |-> NoDate]>>
                          \o CompleteExpired, MaxWindows)
    /\ UNCHANGED <<date, samples, testVars>>

(* cancel_window: whatever its state.                                      *)
CancelWindow ==
  \E n \in DOMAIN windows :
    /\ windows' = [windows EXCEPT ![n] = [@ EXCEPT !.status = "cancelled", !.due = NoDate, !.closed = date]]
    /\ UNCHANGED <<date, samples, testVars>>

(* Mutant: only the windows' stored status is looked at.                   *)
OpenByStatus == windows

(* The windows record_sample looks at.                                     *)
OpenByDate == CompleteExpired

(* record_sample: observed by the endpoint's clock, which may be behind    *)
(* or ahead.                                                               *)
RecordSample ==
  \E n \in DOMAIN windows, observed \in 0 .. MaxDate :
    LET w  == OpenByDate[n]
        ws == [OpenByDate EXCEPT ![n] = [w EXCEPT !.count = @ + 1,
                 !.due = IF observed + 1 < w.ends THEN observed + 1 ELSE NoDate]]
        all == Newest(<<[of |-> w.id, observed |-> observed, received |-> date]>> \o samples, MaxSamples)
    IN /\ w.status = "active" /\ w.count < MaxReports
       /\ windows' = ws /\ samples' = Retained(all, ws)
       /\ UNCHANGED <<date, testVars>>

(* cleanup, which status, get_window and list_samples begin with.          *)
CleanupCalibrations ==
  /\ windows' = CompleteExpired /\ samples' = Retained(samples, CompleteExpired)
  /\ UNCHANGED <<date, testVars>>

-----------------------------------------------------------------------------
(* Tests *)

(* start_placement_test_window: in the place of one that is open.          *)
OpenTest ==
  /\ opened < MaxOpened /\ opened' = opened + 1 /\ testWindow' = opened + 1
  /\ UNCHANGED <<date, calibrationVars, spoken, sessionNo, records, observations>>

(* _expire_placement_test_windows: after 30 seconds to 15 minutes.         *)
TestExpires ==
  /\ testWindow # NoTest /\ testWindow' = NoTest
  /\ UNCHANGED <<date, calibrationVars, opened, spoken, sessionNo, records, observations>>

(* upsert_session *)
Upsert(record) ==
  Newest(<<record>> \o Kept(records, {n \in DOMAIN records : records[n].id # record.id}), MaxRecords)

(* Mutant: the report is of the window that is open when the session ends. *)
TestOpenAtEnd == IF testWindow = NoTest THEN spoken.test ELSE testWindow

(* _complete_active_placement_test: what the session noted wins over the   *)
(* window that is open by then.                                            *)
TestOfSession == spoken.test

(* Mutant: the window stays open.                                          *)
KeepWindow == testWindow

(* What is left of the endpoint's window, whichever it is.                 *)
CloseWindow == NoTest

CompleteTest ==
  /\ records' = Upsert([id |-> spoken.id, test |-> TestOfSession, report |-> TRUE, how |-> "test",
                        said |-> spoken.test])
  /\ testWindow' = CloseWindow

(* session.start, which completes a test that heard something.             *)
SpeechStarts ==
  /\ sessionNo < MaxSessionId
  /\ sessionNo' = sessionNo + 1 /\ spoken' = [NotSpoken EXCEPT !.id = sessionNo + 1]
  /\ IF spoken.test # NoTest /\ testWindow # NoTest /\ spoken.chunks > 0
       THEN CompleteTest
       ELSE spoken.id = 0 /\ UNCHANGED <<records, testWindow>>
  /\ UNCHANGED <<date, calibrationVars, opened, observations>>

(* A chunk: the first one in a window makes the session its test.          *)
SpeechHeard ==
  /\ spoken.id # 0 /\ spoken.chunks < 2
  /\ spoken' = [spoken EXCEPT !.chunks = @ + 1,
                              !.test = IF @ = NoTest THEN testWindow ELSE @]
  /\ UNCHANGED <<date, calibrationVars, opened, testWindow, sessionNo, records, observations>>

(* Mutant: every session that is filed is observed.                        *)
EveryEnd(how) == TRUE

(* Which ends the observation log has a line for.                          *)
Observed(how) == how = "turn"

(* A line of the log: derived from the record of the session, without its  *)
(* audio.                                                                  *)
ObservationOf == [day |-> date, id |-> spoken.id, test |-> spoken.test]

(* _persist_active_session_history *)
FileRecord(how) ==
  /\ records' = Upsert([id |-> spoken.id, test |-> spoken.test, report |-> FALSE, how |-> how,
                        said |-> spoken.test])
  /\ observations' = IF Observed(how)
       THEN observations \cup {ObservationOf} ELSE observations

(* audio.end: a test's report, or a turn.                                  *)
SpeechEnds ==
  /\ spoken.id # 0 /\ spoken.chunks > 0 /\ spoken' = NotSpoken
  /\ \/ spoken.test # NoTest /\ CompleteTest /\ UNCHANGED observations
     \/ spoken.test = NoTest /\ FileRecord("turn") /\ UNCHANGED testWindow
  /\ UNCHANGED <<date, calibrationVars, opened, sessionNo>>

SpeechCancelled ==
  /\ spoken.id # 0 /\ spoken' = NotSpoken /\ FileRecord("cancelled")
  /\ UNCHANGED <<date, calibrationVars, opened, testWindow, sessionNo>>

(* _upsert_persisted_session_history: a playback is reported later.        *)
PlaybackReported ==
  \E n \in DOMAIN records :
    /\ records[n].how = "turn" /\ records' = Upsert(records[n])
    /\ UNCHANGED <<date, calibrationVars, opened, testWindow, spoken, sessionNo, observations>>

(* cleanup of the observation log, by request.                             *)
CleanupObservations ==
  /\ observations' = {o \in observations : o.day + Month >= date}
  /\ UNCHANGED <<date, calibrationVars, opened, testWindow, spoken, sessionNo, records>>

(* The endpoint restarts, and its session is gone.                         *)
EndpointRestarts ==
  /\ sessionNo # 0 /\ sessionNo' = 0 /\ spoken' = NotSpoken
  /\ UNCHANGED <<date, calibrationVars, opened, testWindow, records, observations>>

(* The backend restarts: windows of tests are in memory only.              *)
BackendRestarts ==
  /\ spoken # NotSpoken \/ testWindow # NoTest
  /\ spoken' = NotSpoken /\ testWindow' = NoTest
  /\ UNCHANGED <<date, calibrationVars, opened, sessionNo, records, observations>>

DayPasses ==
  /\ date < MaxDate /\ date' = date + 1 /\ UNCHANGED <<calibrationVars, testVars>>

Calibrates == StartWindow \/ CancelWindow \/ RecordSample \/ CleanupCalibrations
TestsPlaces ==
  \/ OpenTest \/ TestExpires \/ SpeechStarts \/ SpeechHeard \/ SpeechEnds \/ SpeechCancelled
  \/ PlaybackReported \/ CleanupObservations \/ EndpointRestarts \/ BackendRestarts

PlacementNext == Calibrates \/ TestsPlaces \/ DayPasses

PlacementSpec == PlacementInit /\ [][PlacementNext]_placementVars

-----------------------------------------------------------------------------
PlacementTypeOK ==
  /\ date \in 0 .. MaxDate /\ opened \in 0 .. MaxOpened /\ testWindow \in 0 .. opened
  /\ Len(windows) <= MaxWindows /\ Len(samples) <= MaxSamples /\ Len(records) <= MaxRecords
  /\ \A n \in DOMAIN windows : windows[n].status \in {"active", "completed", "cancelled"}
  /\ spoken.id \in 0 .. MaxSessionId /\ spoken.test \in 0 .. opened

(* A calibration's samples all came while it was open: none after its last *)
(* day, though nobody told the store that it was over, and none after it   *)
(* was cancelled.  (docs/architecture.md: "supports cancellation and       *)
(* retention cleanup".)                                                    *)
SamplesWhileOpen ==
  \A s \in DOMAIN samples, n \in DOMAIN windows :
    samples[s].of = windows[n].id =>
      /\ windows[n].from <= samples[s].received /\ samples[s].received < windows[n].ends
      /\ samples[s].received <= windows[n].closed

(* A test is reported once, from the session that spoke for it, however    *)
(* windows are replaced and sessions interrupted meanwhile.                *)
(* (docs/voice-placement-testing.md: "The next matching endpoint turn is   *)
(* treated as an active placement sample.")                                *)
TestsReportedOnce ==
  /\ \A n \in DOMAIN records : records[n].report => records[n].test = records[n].said /\ records[n].test # NoTest
  /\ \A i, j \in DOMAIN records :
       records[i].report /\ records[j].report /\ records[i].test = records[j].test => i = j

(* What was said for a test is not observed as a turn.                     *)
TestsAreNotObserved == \A o \in observations : o.test = NoTest

(* A window that is closed before its time was answered.  Violated: a      *)
(* test's end closes the window that replaced its own.                     *)
WindowsAreAnswered ==
  [][testWindow # NoTest /\ testWindow' = NoTest /\ records' # records
       => \E n \in DOMAIN records' : records'[n].report /\ records'[n].test = testWindow]_placementVars
=============================================================================
