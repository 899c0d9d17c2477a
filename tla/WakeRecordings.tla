--------------------------- MODULE WakeRecordings ---------------------------
(***************************************************************************)
(* What of an endpoint's audio is kept, and for how long: the audio before *)
(* the wake word (voice/wake_recordings.py), the chunks the firmware's VAD *)
(* marks (voice/micro_vad_chunks.py) and the stream to the wake service    *)
(* (voice/wake.py), as the session manager's handlers drive them.          *)
(*                                                                         *)
(* Handlers run on the event loop; the sweep of old files runs in a        *)
(* thread, every five minutes, and file by file.  Audio is the positions   *)
(* of its bytes in the session, so that what is lost, moved or doubled     *)
(* shows.  All chunks have one format.                                     *)
(***************************************************************************)
EXTENDS Naturals, FiniteSets, SequencesExt

CONSTANTS Heard,        \* sessions of the endpoint, in order: 1 .. n
          ChunkBytes,   \* bytes a chunk may have
          Frame,        \* bytes of a PCM frame
          Preroll,      \* _max_preroll_bytes
          MaxBytes,     \* bound: bytes of a session
          VadMarks,     \* micro-VAD chunk numbers of a session, 0 for none
          MaxDay        \* bound: days, of which a file is kept one

ASSUME RecordingsAssumption ==
  /\ IsFiniteSet(Heard) /\ Heard = 1 .. Cardinality(Heard)
  /\ Frame \in Nat \ {0} /\ Preroll \in Nat /\ Preroll >= Frame
  /\ ChunkBytes \subseteq Nat \ {0} /\ MaxBytes \in Nat /\ VadMarks \subseteq Nat /\ MaxDay \in Nat

VARIABLES
  hearing,    \* _active_session of the endpoint and _audio_chunks
  windows,    \* operator windows of the endpoint, and whether an alarm plays
  captures,   \* WakeRecordingService._captures
  vad,        \* MicroVadChunkRecordingService: by session
  vadFiles,   \* the VAD chunks written, in order
  wokenOnes,  \* history: the sessions that were woken
  stream,     \* WyomingOpenWakeWordWakeDetector._connections
  recordings, \* history: the recordings made, by number
  wavs, storys, \* the files of the recordings, each with its day
  day,
  sweep       \* the thread: the files it has yet to visit and its cutoff

hvars == <<hearing, windows, captures, vad, vadFiles, wokenOnes, stream>>
dvars == <<recordings, wavs, storys, day, sweep>>
wakeVars == <<hvars, dvars>>

NoHearing == [id |-> 0, stage |-> "none", enrolled |-> FALSE, placed |-> FALSE,
              bytes |-> 0, audio |-> <<>>, special |-> FALSE]
NoCapture == [accepted |-> FALSE, audio |-> <<>>, exists |-> FALSE]
NoVad == [open |-> <<>>, pending |-> <<>>, accepted |-> FALSE]
WindowSets == {{}, {"enrollment"}, {"placement"}, {"placement", "debug"}, {"alarm"}}

RecordingsInit ==
  /\ hearing = NoHearing /\ windows = {}
  /\ captures = [s \in Heard |-> NoCapture] /\ vad = [s \in Heard |-> NoVad]
  /\ vadFiles = <<>> /\ wokenOnes = {} /\ stream = {}
  /\ recordings = <<>> /\ wavs = {} /\ storys = {} /\ day = 0
  /\ sweep = [left |-> {}, cutoff |-> 0]

-----------------------------------------------------------------------------
(* The wake recorder *)

(* Mutant: what is over goes, whole frame or not.                          *)
TrimBytes(audio) ==
  IF Len(audio) <= Preroll THEN audio
  ELSE SubSeq(audio, Len(audio) - Preroll + 1, Len(audio))

(* _trim_capture: at most the preroll is kept, and whole frames go.        *)
TrimCapture(audio) ==
  LET excess == Len(audio) - Preroll IN
  IF excess <= 0 THEN audio
  ELSE SubSeq(audio, excess + ((Frame - (excess % Frame)) % Frame) + 1, Len(audio))

CaptureWakeChunk(c, bytes) ==
  [c EXCEPT !.exists = TRUE, !.audio = TrimCapture(c.audio \o bytes)]

MarkAccepted(c) == IF c.exists THEN [c EXCEPT !.accepted = TRUE] ELSE c

(* _write_wav drops a frame that is not whole.                             *)
WholeFrames(audio) == SubSeq(audio, 1, Frame * (Len(audio) \div Frame))

-----------------------------------------------------------------------------
(* The VAD recorder: a chunk is written when it is final, or held until    *)
(* the session is woken.  The open chunks, [mark, audio], are in the order *)
(* in which their marks first came, as those of a dict.                    *)
VadPut(v, mark, bytes, started) ==
  LET chunk(old) == [mark |-> mark, audio |-> old \o bytes] IN
  IF \A k \in DOMAIN v.open : v.open[k].mark # mark
    THEN [v EXCEPT !.open = Append(@, chunk(<<>>))]
    ELSE [v EXCEPT !.open = [k \in DOMAIN @ |->
            IF @[k].mark # mark THEN @[k] ELSE chunk(IF started THEN <<>> ELSE @[k].audio)]]

Place(v, mark) == CHOOSE k \in DOMAIN v.open : v.open[k].mark = mark
Chunk(v, mark) == v.open[Place(v, mark)]
Without(v, mark) == [v EXCEPT !.open = RemoveAt(@, Place(v, mark))]

(* _finish_capture: what is held, and what is written.                     *)
FinishVad(v, mark) ==
  IF v.accepted THEN Without(v, mark)
  ELSE [Without(v, mark) EXCEPT !.pending = Append(@, Chunk(v, mark))]

FilesOf(s, chunks) ==
  [i \in DOMAIN chunks |-> [session |-> s, mark |-> chunks[i].mark, audio |-> chunks[i].audio]]

(* Mutant: what was flushed stays pending.                                 *)
FlushAndKeep(v) == [v EXCEPT !.accepted = TRUE]

(* mark_session_accepted, _write_capture: the open chunk of a mark that is *)
(* written is dropped (here left without audio, of which no file is made). *)
FlushPending(v) ==
  LET writes(mark) == \E i \in DOMAIN v.pending : v.pending[i].mark = mark
  IN [v EXCEPT !.accepted = TRUE, !.pending = <<>>,
               !.open = [k \in DOMAIN @ |->
                  IF writes(@[k].mark) THEN [@[k] EXCEPT !.audio = <<>>] ELSE @[k]]]

(* Mutant: whatever is held is written.                                    *)
AllAtClose(v) == v.pending \o v.open

(* close_session: of a session that was woken the open chunks are written, *)
(* of another nothing is.                                                  *)
AtClose(v) == IF v.accepted THEN v.pending \o v.open ELSE <<>>

-----------------------------------------------------------------------------
(* Sessions.  In stage "turn" the handler of audio.end is at work, so that *)
(* only the thread and the clock move.                                     *)
Live == hearing.stage \notin {"none", "turn"}
Capturable == hearing.stage \in {"idle", "listening"}

OpenSession ==
  /\ hearing.stage = "none" /\ hearing.id + 1 \in Heard
  /\ hearing' = [NoHearing EXCEPT !.id = hearing.id + 1, !.stage = "idle"]
  /\ UNCHANGED <<windows, captures, vad, vadFiles, wokenOnes, stream, dvars>>

(* Operators open and close their windows, an alarm plays and stops.       *)
WindowsChange ==
  /\ hearing.stage # "turn" /\ windows' \in WindowSets
  /\ UNCHANGED <<hearing, captures, vad, vadFiles, wokenOnes, stream, dvars>>

(* inspect_chunk: what the wake service is sent goes over the session's    *)
(* own connection, which an error drops.  "heard": it detected the word.   *)
Inspected == {"quiet", "heard", "fails"}
StreamAfter(outcome) ==
  IF outcome = "fails" THEN stream \ {hearing.id} ELSE stream \cup {hearing.id}

(* _handle_audio_chunk, with "won" the verdict of the wake election on a   *)
(* detection.                                                              *)
AudioChunk ==
  \E n \in ChunkBytes, mark \in VadMarks, started, final, won \in BOOLEAN, outcome \in Inspected :
    LET s == hearing.id
        bytes == [i \in 1 .. n |-> hearing.bytes + i]
        placing == "placement" \in windows
        withheld == placing /\ "debug" \notin windows
        enrolls == "enrollment" \in windows /\ Capturable
        enrolled == enrolls /\ ~ hearing.enrolled
        placed == placing /\ Capturable /\ ~ hearing.placed
        idle == hearing.stage = "idle" /\ ~ enrolled /\ ~ placed
        accepted == idle /\ outcome = "heard" /\ won
        kept == IF (hearing.stage = "idle" \/ enrolls) /\ ~ (withheld /\ Capturable)
                  THEN CaptureWakeChunk(captures[s], bytes) ELSE captures[s]
        marked == IF mark = 0 \/ withheld THEN vad[s] ELSE VadPut(vad[s], mark, bytes, started)
        finishes == mark # 0 /\ ~ withheld /\ final
        ended == IF finishes THEN FinishVad(marked, mark) ELSE marked
        atOnce == IF finishes /\ marked.accepted THEN <<Chunk(marked, mark)>> ELSE <<>>
        woken == enrolled \/ accepted
    IN /\ Live /\ hearing.bytes + n <= MaxBytes
       /\ mark = 0 => ~ started /\ ~ final
       /\ idle \/ (outcome = "quiet" /\ ~ won)
       /\ captures' = [captures EXCEPT ![s] = IF woken THEN MarkAccepted(kept) ELSE kept]
       /\ vad' = [vad EXCEPT ![s] = IF woken THEN FlushPending(ended) ELSE ended]
       /\ vadFiles' = vadFiles \o FilesOf(s, atOnce \o IF woken THEN ended.pending ELSE <<>>)
       /\ wokenOnes' = IF woken THEN wokenOnes \cup {s} ELSE wokenOnes
       /\ stream' = IF idle THEN StreamAfter(outcome) ELSE stream
       /\ hearing' = [hearing EXCEPT
            !.bytes = @ + n,
            !.stage = IF hearing.stage = "idle" /\ ~ (idle /\ ~ accepted) THEN "listening" ELSE @,
            !.enrolled = @ \/ enrolled, !.placed = @ \/ placed,
            !.special = @ \/ windows # {},
            !.audio =
              IF \/ idle /\ "alarm" \in windows
                 \/ ~ idle /\ Capturable /\ ~ enrolled
              THEN @ \o bytes ELSE @]
       /\ UNCHANGED <<windows, dvars>>

(* A wake the endpoint heard itself, elected; or the button, which starts  *)
(* a listening session and marks nothing.                                  *)
Woken ==
  /\ hearing.stage = "idle"
  /\ hearing' = [hearing EXCEPT !.stage = "listening"]
  /\ \/ /\ captures' = [captures EXCEPT ![hearing.id] = MarkAccepted(@)]
        /\ vad' = [vad EXCEPT ![hearing.id] = FlushPending(@)]
        /\ vadFiles' = vadFiles \o FilesOf(hearing.id, vad[hearing.id].pending)
        /\ wokenOnes' = wokenOnes \cup {hearing.id}
     \/ UNCHANGED <<captures, vad, vadFiles, wokenOnes>>
  /\ UNCHANGED <<windows, stream, dvars>>

(* Mutant: only the stream is closed.                                      *)
ReleaseStream(s) ==
  /\ stream' = stream \ {s}
  /\ UNCHANGED captures

(* _release_active_session_wake_stream                                     *)
Release(s) ==
  /\ captures' = [captures EXCEPT ![s] = NoCapture]
  /\ stream' = stream \ {s}

(* _clear_active_session_runtime                                           *)
Clear(s) ==
  /\ hearing' = [NoHearing EXCEPT !.id = s]
  /\ vad' = [vad EXCEPT ![s] = NoVad]
  /\ vadFiles' = vadFiles \o FilesOf(s, AtClose(vad[s]))

(* The session is cancelled, times out, is replaced or stood down, or      *)
(* audio.end comes before a wake or for a placement test.                  *)
EndSession ==
  /\ Live /\ Release(hearing.id) /\ Clear(hearing.id)
  /\ UNCHANGED <<windows, wokenOnes, dvars>>

-----------------------------------------------------------------------------
(* Recordings on disk *)
File(r) == [of |-> r, day |-> day]
Old(files, cutoff) == {f \in files : f.day < cutoff}

(* Mutant: the metadata is kept a day less.                                *)
ExpiredSooner(cutoff) == [wavs |-> Old(wavs, cutoff), storys |-> Old(storys, cutoff + 1)]

(* cleanup_expired, with one retention for both files.                     *)
Expired(cutoff) == [wavs |-> Old(wavs, cutoff), storys |-> Old(storys, cutoff)]

Cutoff == day - 1

(* record_accepted_session: old files are swept, and the audio written;    *)
(* a session without an accepted wake is transcribed without a recording.  *)
RecordAudio ==
  LET c == captures[hearing.id]
      r == Len(recordings) + 1
      swept == Expired(Cutoff)
  IN /\ hearing.stage = "listening" /\ ~ hearing.placed
     /\ hearing' = [hearing EXCEPT !.stage = "turn"]
     /\ IF c.accepted /\ c.audio \o hearing.audio # <<>>
          THEN /\ recordings' = Append(recordings,
                    [session |-> hearing.id, audio |-> WholeFrames(c.audio \o hearing.audio),
                     special |-> hearing.special])
               /\ wavs' = (wavs \ swept.wavs) \cup {File(r)}
               /\ storys' = storys \ swept.storys
               /\ captures' = [captures EXCEPT ![hearing.id] = NoCapture]
          ELSE UNCHANGED <<recordings, wavs, storys, captures>>
     /\ UNCHANGED <<windows, vad, vadFiles, wokenOnes, stream, day, sweep>>

Latest == Len(recordings)
InMaking(r) == hearing.stage = "turn" /\ r = Latest /\ recordings[r].session = hearing.id

(* The metadata follows, and again with the transcript, unless it was      *)
(* swept meanwhile.                                                        *)
WriteStory ==
  /\ Latest > 0 /\ InMaking(Latest)
  /\ ~ \E f \in storys : f.of = Latest
  /\ \E f \in wavs : f.of = Latest
  /\ storys' = storys \cup {File(Latest)}
  /\ UNCHANGED <<hvars, recordings, wavs, day, sweep>>

AttachTranscript ==
  /\ Latest > 0 /\ InMaking(Latest)
  /\ \E f \in storys : f.of = Latest /\ storys' = (storys \ {f}) \cup {File(Latest)}
  /\ UNCHANGED <<hvars, recordings, wavs, day, sweep>>

(* The turn's end: the session waits for an answer, or is over.            *)
EndTurn ==
  /\ hearing.stage = "turn"
  /\ Latest > 0 /\ InMaking(Latest) => \E f \in storys : f.of = Latest
  /\ \/ /\ hearing' = [hearing EXCEPT !.stage = "listening", !.audio = <<>>]
        /\ UNCHANGED <<captures, vad, vadFiles, stream>>
     \/ Release(hearing.id) /\ Clear(hearing.id)
  /\ UNCHANGED <<windows, wokenOnes, dvars>>

(* delete_recording, by the operator or with an endpoint's artifacts.      *)
DeleteRecording ==
  /\ hearing.stage # "turn"
  /\ \E r \in DOMAIN recordings :
       /\ wavs' = {f \in wavs : f.of # r}
       /\ storys' = {f \in storys : f.of # r}
  /\ UNCHANGED <<hvars, recordings, day, sweep>>

(* The thread: it lists the directory, then looks at one file after the    *)
(* other, by its own order, and deletes it when it is too old.             *)
StartSweep ==
  /\ sweep.left = {} /\ wavs \cup storys # {}
  /\ sweep' = [left |-> ({"wav"} \X {f.of : f \in wavs}) \cup ({"json"} \X {f.of : f \in storys}),
               cutoff |-> Cutoff]
  /\ UNCHANGED <<hvars, recordings, wavs, storys, day>>

SweepFile ==
  \E f \in sweep.left :
    /\ sweep' = [sweep EXCEPT !.left = @ \ {f}]
    /\ wavs' = wavs \ {x \in Expired(sweep.cutoff).wavs : f = <<"wav", x.of>>}
    /\ storys' = storys \ {x \in Expired(sweep.cutoff).storys : f = <<"json", x.of>>}
    /\ UNCHANGED <<hvars, recordings, day>>

NextDay ==
  /\ day < MaxDay /\ day' = day + 1
  /\ UNCHANGED <<hvars, recordings, wavs, storys, sweep>>

RecordingsNext ==
  \/ OpenSession \/ WindowsChange \/ AudioChunk \/ Woken \/ EndSession
  \/ RecordAudio \/ WriteStory \/ AttachTranscript \/ EndTurn \/ DeleteRecording
  \/ StartSweep \/ SweepFile \/ NextDay

RecordingsSpec == RecordingsInit /\ [][RecordingsNext]_wakeVars

-----------------------------------------------------------------------------
RecordingsTypeOK ==
  /\ hearing.stage \in {"none", "idle", "listening", "turn"} /\ windows \in WindowSets
  /\ \A s \in Heard : Len(captures[s].audio) <= Preroll
  /\ stream \subseteq Heard /\ day \in 0 .. MaxDay
  /\ wavs \cup storys \subseteq [of : DOMAIN recordings, day : 0 .. day]

(* Audio is held for the session that is active only: whichever way it     *)
(* ends, the capture, the VAD chunks and the wake service's stream go.     *)
(* (close_session, _release_active_session_wake_stream.)                   *)
HeldForTheActiveSession ==
  \A s \in Heard :
    (s # hearing.id \/ hearing.stage = "none") =>
      captures[s] = NoCapture /\ vad[s] = NoVad /\ s \notin stream

(* A recording is what was heard, in one piece and from a whole frame on:  *)
(* the preroll and the chunk with the wake word, then what was transcribed *)
(* (unless an operator's window or an alarm was open meanwhile).           *)
RecordingIsWhatWasHeard ==
  \A r \in DOMAIN recordings :
    LET audio == recordings[r].audio IN
    ~ recordings[r].special /\ audio # <<>> =>
      /\ (audio[1] - 1) % Frame = 0
      /\ \A i \in 2 .. Len(audio) : audio[i] = audio[i - 1] + 1

(* A VAD chunk is written at most once, and only of a session that was     *)
(* woken.  (docs/openwakeword-runtime.md: "Sessions without an accepted    *)
(* wake word are discarded".)                                              *)
VadChunksOfTheWoken ==
  /\ \A i, j \in DOMAIN vadFiles :
       i < j /\ vadFiles[i].session = vadFiles[j].session =>
         \A x \in DOMAIN vadFiles[i].audio, y \in DOMAIN vadFiles[j].audio :
           vadFiles[i].audio[x] # vadFiles[j].audio[y]
  /\ \A i \in DOMAIN vadFiles : vadFiles[i].session \in wokenOnes
  /\ \A s \in Heard : vad[s].accepted => vad[s].pending = <<>>

(* Audio never stays without the metadata that lists it and says when it   *)
(* goes, but while it is written or the sweep is about to delete it.       *)
AudioHasItsStory ==
  \A f \in wavs :
    \/ \E g \in storys : g.of = f.of
    \/ InMaking(f.of)
    \/ <<"wav", f.of>> \in sweep.left /\ f.day < sweep.cutoff
=============================================================================
