------------------------- MODULE VoiceSessionProofs -------------------------
(***************************************************************************)
(* Proofs about VoiceSession for every number of session ids.  Safety      *)
(* follows from one inductive invariant, IInv: the type invariant, the     *)
(* account of the sessions started, the ownership of the timer, and what   *)
(* the state of the live session says about its wake and its audio.        *)
(***************************************************************************)
EXTENDS VoiceSession, TLAPS

(* What every handler may assume of the session it is given.               *)
Sound(s) ==
  /\ s.state # "idle" => s.wake # "none"
  /\ s.state = "idle" => s.audio \subseteq {"prewake"}
  /\ ~ s.counted => s.audio = {}

LiveIsSound == Live => connected /\ Sound(session)

IInv == /\ TypeOK
        /\ SessionsAccountedFor
        /\ TimerOwnsLiveFollowup
        /\ LiveIsSound
        /\ NothingHeardWithoutWake
        /\ PlacementNeverAnswered

-----------------------------------------------------------------------------
(* The state machine of a session *)

(* The states, spelled out.                                                *)
LEMMA StatesAre ==
  States = {"idle", "wake_detected", "listening", "capturing",
            "transcribing", "local_command", "routing", "responding",
            "completed", "cancelled", "failed"}
BY DEF States, Allowed

(* A transition lands where it was asked to, or fails the session.         *)
LEMMA SetStateLands ==
  ASSUME NEW from, NEW to
  PROVE  SetState(from, to) \in {to, "failed"}
BY DEF SetState

(* A failed session stays failed, unless it is reset to idle.              *)
LEMMA FailedIsStuck ==
  ASSUME NEW to, to # "idle"
  PROVE  SetState("failed", to) = "failed"
BY DEF SetState, Allowed

(* Both ways of waking an idle session end in listening.                   *)
LEMMA WokenIsListening == Woken = "listening"
BY DEF Woken, SetState, Allowed, Ending

(* The end of a turn files what the session came to, a failed one as       *)
(* failed.                                                                 *)
LEMMA FinalState ==
  ASSUME NEW s, NEW ending \in Endings[Path(s)], Path(s) \in DOMAIN Endings
  PROVE  LET final == SetState(SetState(Transcribed(s), "local_command"),
                               ending[1])
         IN /\ s.state = "failed" => final = "failed"
            /\ ending[2] \in Reasons
<1> DEFINE final == SetState(SetState(Transcribed(s), "local_command"),
                             ending[1])
<1>1. ending[1] \in {"completed", "failed"} /\ ending[2] \in Reasons
  BY DEF Endings, Reasons
<1>2. ASSUME s.state = "failed" PROVE final = "failed"
  BY <1>1, <1>2, FailedIsStuck DEF Transcribed
<1> QED BY <1>1, <1>2

(* The path of a turn is one of the four.                                  *)
LEMMA PathIsKnown ==
  ASSUME NEW s
  PROVE  Path(s) \in DOMAIN Endings
BY DEF Path, Endings

-----------------------------------------------------------------------------
(* The invariant, by what a step does to the session: nothing, a change to *)
(* the live session, the end of it.                                        *)

EnvTyped ==
  /\ connected \in BOOLEAN /\ clock \in Clocks
  /\ cancelling \in BOOLEAN /\ alarm \in BOOLEAN /\ custom \in BOOLEAN
  /\ window \subseteq Windows /\ counter \in 0 .. MaxSessions

(* What filing a session does to the store and to the account of sessions. *)
Files(s, opened) ==
  /\ \E final \in {"closed", "failed"} :
       /\ record' = [record EXCEPT ![s.id] = final]
       /\ s.state = "failed" => final = "failed"
  /\ owed' = (owed \ {s.id}) \cup opened

HeardRight ==
  /\ heard \in [wake : Wakes, placement : BOOLEAN,
                audio : SUBSET {"prewake", "speech"},
                via : {"nothing", "interrupt"} \cup DOMAIN Endings]
  /\ NothingHeardWithoutWake
  /\ PlacementNeverAnswered

(* A step that transcribes nothing.                                        *)
LEMMA SilentIsRight ==
  ASSUME Silent
  PROVE  HeardRight'
BY DEF Silent, HeardRight, NoTurn, NothingHeardWithoutWake,
       PlacementNeverAnswered, Wakes

(* A turn of a sound session that is not idle may be transcribed.          *)
LEMMA TurnIsRight ==
  ASSUME session \in Session, Sound(session), session.state # "idle",
         heard' = Turn(session, Path(session))
  PROVE  HeardRight'
<1> DEFINE via == Path(session)
<1>1. via \in DOMAIN Endings /\ via \notin {"nothing", "interrupt"}
  BY PathIsKnown DEF Endings
<1>2. session.placement => via # "turn"
  BY DEF Path
<1>3. /\ session.wake \in Wakes /\ session.placement \in BOOLEAN
      /\ session.audio \subseteq {"prewake", "speech"}
      /\ session.wake # "none"
  BY DEF Session, Sound
<1>4. heard' = [wake |-> session.wake, placement |-> session.placement,
               audio |-> session.audio, via |-> via]
  BY DEF Turn
<1> HIDE DEF via
<1>5. /\ heard'.wake = session.wake /\ heard'.via = via
      /\ heard'.placement = session.placement
  BY <1>4
<1>6. heard' \in [wake : Wakes, placement : BOOLEAN,
                  audio : SUBSET {"prewake", "speech"},
                  via : {"nothing", "interrupt"} \cup DOMAIN Endings]
  BY <1>1, <1>3, <1>4
<1>7. NothingHeardWithoutWake'
  BY <1>1, <1>3, <1>5 DEF NothingHeardWithoutWake
<1>8. PlacementNeverAnswered'
  BY <1>2, <1>5 DEF PlacementNeverAnswered
<1> QED BY <1>6, <1>7, <1>8 DEF HeardRight

(* The goal for every step: the invariant again, and a step the ledger of  *)
(* sessions allows.                                                        *)
Preserved == IInv' /\ [Ledger!LNext]_(Ledger!lvars)

(* The session is left alone, and so is the connection unless it is new.   *)
LEMMA LeftAlone ==
  ASSUME IInv, EnvTyped', HeardRight', filed' \in Reasons,
         UNCHANGED <<session, timer, owed, record>>,
         Live => connected',
         counter' = counter \/ (~ Live /\ counter' = 0)
  PROVE  Preserved
<1>1. IInv'
  BY DEF IInv, TypeOK, EnvTyped, HeardRight, SessionsAccountedFor, Live,
         TimerOwnsLiveFollowup, LiveIsSound
<1>2. CASE counter' = counter
  BY <1>1, <1>2 DEF Ledger!lvars, Live, Preserved
<1>3. CASE ~ Live /\ counter' = 0
  <2>1. Ledger!Restart
    BY <1>3 DEF Ledger!Restart, Ledger!Closes, Live
  <2> QED BY <1>1, <2>1 DEF Ledger!LNext, Preserved
<1> QED BY <1>2, <1>3

(* The live session changes but keeps its id.                              *)
LEMMA Kept ==
  ASSUME IInv, Live, EnvTyped', HeardRight', filed' \in Reasons,
         session' \in Session, session'.id = session.id, Sound(session'),
         session.state = "failed" => session'.state = "failed",
         \/ timer' = timer /\ (session.follow = session'.follow
                                \/ session'.follow # "none")
         \/ timer' = session.id /\ session'.follow # "none",
         UNCHANGED <<connected, counter, owed, record>>
  PROVE  Preserved
<1>1. session \in Session /\ session.id \in Ids
  BY DEF IInv, TypeOK, Live, Session
<1>2. Live'
  BY VoiceAssumption, <1>1 DEF Live, Session, IInv, TypeOK
<1>3. TypeOK'
  BY <1>1 DEF IInv, TypeOK, EnvTyped, HeardRight
<1>4. SessionsAccountedFor'
  BY <1>2 DEF IInv, SessionsAccountedFor
<1>5. TimerOwnsLiveFollowup'
  BY <1>2 DEF IInv, TimerOwnsLiveFollowup, LiveIsSound
<1>6. LiveIsSound'
  BY <1>2 DEF IInv, LiveIsSound
<1>7. [Ledger!LNext]_(Ledger!lvars)
  <2>1. Ledger!Break \/ UNCHANGED Ledger!lvars
    BY <1>1, <1>2, VoiceAssumption DEF Ledger!Break, Ledger!lvars
  <2> QED BY <2>1 DEF Ledger!LNext
<1> QED BY <1>3, <1>4, <1>5, <1>6, <1>7 DEF IInv, HeardRight, Preserved

(* The live session is filed and gone, its endpoint perhaps restarted.     *)
LEMMA Ended ==
  ASSUME IInv, Live, EnvTyped', HeardRight', filed' \in Reasons,
         Files(session, {}), session' = NoSession, timer' = NoSession,
         counter' \in {counter, 0}
  PROVE  Preserved
<1>1. session.id \in Ids /\ record \in [Ids -> {"open", "closed", "failed"}]
  BY DEF IInv, TypeOK, Live, Session
<1>2. ~ Live'
  BY DEF Live
<1>3. PICK final \in {"closed", "failed"} :
        /\ record' = [record EXCEPT ![session.id] = final]
        /\ session.state = "failed" => final = "failed"
  BY DEF Files
<1>4. SessionsAccountedFor'
  BY <1>2 DEF IInv, SessionsAccountedFor, Files
<1>5. TypeOK'
  BY <1>1, <1>2, <1>3, <1>4
  DEF IInv, TypeOK, EnvTyped, HeardRight, SessionsAccountedFor
<1>6. TimerOwnsLiveFollowup' /\ LiveIsSound'
  BY <1>2 DEF TimerOwnsLiveFollowup, LiveIsSound
<1>7. Ledger!Closes
  BY <1>1, <1>3, VoiceAssumption DEF Ledger!Closes, Ledger!Outcomes, Live
<1>8. Ledger!Close \/ Ledger!Restart
  BY <1>2, <1>7 DEF Ledger!Close, Ledger!Restart
<1> QED BY <1>4, <1>5, <1>6, <1>8 DEF IInv, HeardRight, Preserved,
                                      Ledger!LNext

-----------------------------------------------------------------------------
(* The operators an audio chunk applies, on a sound session.               *)

(* The operator windows wake an idle session and record who did.           *)
LEMMA AdmitIsSound ==
  ASSUME NEW s \in Session, Sound(s)
  PROVE  /\ Admit(s) \in Session /\ Sound(Admit(s)) /\ Admit(s).counted
         /\ Admit(s).id = s.id /\ Admit(s).follow = s.follow
         /\ s.state = "failed" => Admit(s).state = "failed"
<1> DEFINE a == Admit(s)
<1>1. SetState(s.state, "listening") \in States
  BY SetStateLands, StatesAre
<1>2. a \in Session
  BY <1>1 DEF Admit, Session, Wakes
<1>3. a.id = s.id /\ a.follow = s.follow /\ a.counted /\ a.audio = s.audio
  BY DEF Admit, Session
<1>4. ASSUME Enrolls(s) \/ Places(s) PROVE Sound(a)
  <2>1. a.wake # "none"
    BY <1>4 DEF Admit, Session
  <2>2. a.state = SetState(s.state, "listening")
    BY <1>4 DEF Admit, Session
  <2>3. a.state # "idle"
    BY <2>2, SetStateLands
  <2> HIDE DEF a
  <2> QED BY <1>2, <1>3, <2>1, <2>3 DEF Sound
<1>5. ASSUME ~ (Enrolls(s) \/ Places(s)) PROVE Sound(a)
  <2>1. a.wake = s.wake /\ a.state = s.state
    BY <1>5 DEF Admit, Session
  <2> HIDE DEF a
  <2> QED BY <1>2, <1>3, <2>1 DEF Sound
<1>6. ASSUME s.state = "failed" PROVE a.state = "failed"
  <2>1. SetState(s.state, "listening") = "failed"
    BY <1>6, FailedIsStuck
  <2> QED BY <1>6, <2>1 DEF Admit, Session
<1> QED BY <1>2, <1>3, <1>4, <1>5, <1>6

(* A chunk kept for an alarm interrupt is kept as pre-wake audio.          *)
LEMMA KeepPrewakeIsSound ==
  ASSUME NEW s \in Session, Sound(s), s.counted
  PROVE  LET k == KeepPrewake(s)
         IN /\ k \in Session /\ Sound(k) /\ k.counted
            /\ k.id = s.id /\ k.follow = s.follow /\ k.state = s.state
<1> DEFINE k == KeepPrewake(s)
<1>1. k \in Session
  BY DEF KeepPrewake, Session
<1>2. /\ k.id = s.id /\ k.follow = s.follow /\ k.counted
      /\ k.state = s.state /\ k.wake = s.wake
  BY DEF KeepPrewake, Session
<1>3. s.state = "idle" => k.audio \subseteq {"prewake"}
  BY DEF KeepPrewake, Session, Sound
<1>4. Sound(k)
  <2> HIDE DEF k
  <2> QED BY <1>2, <1>3 DEF Sound
<1> QED BY <1>1, <1>2, <1>4

(* An accepted wake leaves a listening session with the wake recorded.     *)
LEMMA ElectIsSound ==
  ASSUME NEW s \in Session, Sound(s)
  PROVE  LET e == Elect(s)
         IN /\ e \in Session /\ Sound(e) /\ e.counted = s.counted
            /\ e.id = s.id /\ e.follow = s.follow
<1> DEFINE e == Elect(s)
<1>1. e = [s EXCEPT !.wake = "elected", !.state = "listening"]
  BY WokenIsListening DEF Elect
<1>2. e \in Session
  BY <1>1, StatesAre DEF Session, Wakes
<1>3. /\ e.id = s.id /\ e.follow = s.follow /\ e.counted = s.counted
      /\ e.audio = s.audio /\ e.wake = "elected" /\ e.state = "listening"
  BY <1>1 DEF Session
<1>4. Sound(e)
  <2> HIDE DEF e
  <2> QED BY <1>3 DEF Sound
<1> QED BY <1>2, <1>3, <1>4

(* Speech is buffered only once the session has left idle.                 *)
LEMMA CaptureIsSound ==
  ASSUME NEW s \in Session, Sound(s), s.counted, NEW spent \in BOOLEAN
  PROVE  LET c == Capture(s, spent)
         IN /\ c \in Session /\ Sound(c)
            /\ c.id = s.id /\ c.follow = s.follow
            /\ s.state = "failed" => c.state = "failed"
<1> DEFINE c == Capture(s, spent)
<1>1. CASE s.state \in {"listening", "capturing"}
  <2>1. c = [s EXCEPT !.state = SetState(@, "capturing"),
                      !.audio = IF spent THEN @ ELSE @ \cup {"speech"}]
    BY <1>1 DEF Capture
  <2>2. SetState(s.state, "capturing") \in {"capturing", "failed"}
    BY SetStateLands
  <2>3. c \in Session
    BY <2>1, <2>2, StatesAre DEF Session
  <2>4. /\ c.id = s.id /\ c.follow = s.follow /\ c.counted
        /\ c.wake = s.wake /\ c.state # "idle"
    BY <2>1, <2>2 DEF Session
  <2>5. Sound(c)
    <3> HIDE DEF c
    <3> QED BY <1>1, <2>4 DEF Sound
  <2> QED BY <1>1, <2>3, <2>4, <2>5
<1>2. CASE s.state \notin {"listening", "capturing"}
  BY <1>2 DEF Capture
<1> QED BY <1>1, <1>2

-----------------------------------------------------------------------------
(* One lemma per shape of action *)

(* Every way of cancelling the live session at once.                       *)
LEMMA CancelKeeps ==
  ASSUME IInv, NEW why \in Reasons, Cancel(why), EnvTyped', HeardRight',
         counter' \in {counter, 0}
  PROVE  Preserved
<1>1. session.state = "failed"
        => SetState(session.state, "cancelled") = "failed"
  BY FailedIsStuck
<1>2. /\ Files(session, {}) /\ Live /\ filed' = why
      /\ session' = NoSession /\ timer' = NoSession
  BY <1>1 DEF Cancel, File, Files
<1> QED BY <1>2, Ended

(* What surrounds the session keeps its types from TypeOK.                 *)
LEMMA EnvIsTyped ==
  ASSUME IInv
  PROVE  EnvTyped
BY DEF IInv, TypeOK, EnvTyped

(* The live session is one of the sessions, with a known id.               *)
LEMMA LiveSession ==
  ASSUME IInv, Live
  PROVE  session \in Session /\ session.id \in Ids /\ Sound(session)
         /\ connected
BY DEF IInv, TypeOK, Live, LiveIsSound, Session

(* A cancel, whoever asks for it, files the session it ends.               *)
LEMMA CancelRequestedKeeps ==
  ASSUME IInv, NEW why \in Reasons, CancelRequested(why)
  PROVE  Preserved
<1>1. EnvTyped'
  BY EnvIsTyped DEF CancelRequested, env, EnvTyped
<1>2. HeardRight'
  BY SilentIsRight DEF CancelRequested
<1> QED BY <1>1, <1>2, CancelKeeps DEF CancelRequested

(* A step that leaves the session alone preserves the invariant.           *)
LEMMA BystanderKeeps ==
  ASSUME IInv, Bystander, EnvTyped', connected => connected'
  PROVE  Preserved
<1>1. HeardRight'
  BY SilentIsRight DEF Bystander
<1>2. filed' \in Reasons
  BY DEF Bystander, Reasons
<1> QED BY <1>1, <1>2, LeftAlone, LiveSession DEF Bystander

-----------------------------------------------------------------------------
(* The larger actions *)

(* One audio chunk: admitted, kept, elected and captured in turn.          *)
LEMMA AudioChunkKeeps ==
  ASSUME IInv, NEW i \in Ids, AudioChunk(i)
  PROVE  Preserved
<1> DEFINE a == Admit(session)
           k == KeepPrewake(a)
<1>1. Live /\ session \in Session /\ Sound(session)
  BY LiveSession DEF AudioChunk
<1>2. EnvTyped' /\ HeardRight' /\ connected' = connected /\ counter' = counter
  BY EnvIsTyped, SilentIsRight DEF AudioChunk, env, EnvTyped
<1>3. PICK age \in EventAges(session) :
        \/ \E why \in TimeoutReasons(session, age) : Cancel(why)
        \/ /\ \/ session' = Capture(k, Enrolls(session))
              \/ k.state = "idle" /\ session' = Capture(Elect(k), TRUE)
           /\ NothingFiled /\ UNCHANGED timer
  BY DEF AudioChunk
<1>4. CASE \E why \in TimeoutReasons(session, age) : Cancel(why)
  <2>1. PICK why \in TimeoutReasons(session, age) : Cancel(why)
    BY <1>4
  <2>2. why \in Reasons
    BY <2>1 DEF TimeoutReasons, Reasons
  <2> QED BY <1>2, <2>1, <2>2, CancelKeeps
<1>5. CASE /\ \/ session' = Capture(k, Enrolls(session))
              \/ k.state = "idle" /\ session' = Capture(Elect(k), TRUE)
           /\ NothingFiled /\ UNCHANGED timer
  <2>1. /\ a \in Session /\ Sound(a) /\ a.counted
        /\ a.id = session.id /\ a.follow = session.follow
        /\ session.state = "failed" => a.state = "failed"
    BY <1>1, AdmitIsSound
  <2> HIDE DEF a
  <2>2. /\ k \in Session /\ Sound(k) /\ k.counted
        /\ k.id = session.id /\ k.follow = session.follow
        /\ session.state = "failed" => k.state = "failed"
    BY <2>1, KeepPrewakeIsSound
  <2> HIDE DEF k
  <2>3. /\ Elect(k) \in Session /\ Sound(Elect(k)) /\ Elect(k).counted
        /\ Elect(k).id = session.id /\ Elect(k).follow = session.follow
    BY <2>2, ElectIsSound
  <2>4. Enrolls(session) \in BOOLEAN
    BY DEF Enrolls
  <2>5. /\ session' \in Session /\ Sound(session')
        /\ session'.id = session.id /\ session'.follow = session.follow
        /\ session.state = "failed" => session'.state = "failed"
    <3>1. CASE session' = Capture(k, Enrolls(session))
      BY <2>2, <2>4, <3>1, CaptureIsSound
    <3>2. CASE k.state = "idle" /\ session' = Capture(Elect(k), TRUE)
      BY <2>2, <2>3, <3>2, CaptureIsSound
    <3> QED BY <1>5, <3>1, <3>2
  <2>6. /\ filed' \in Reasons /\ record' = record /\ timer' = timer
        /\ owed' = owed
    BY <1>5 DEF NothingFiled, Reasons
  <2> QED BY <1>1, <1>2, <2>5, <2>6, Kept
<1> QED BY <1>3, <1>4, <1>5

(* What a step may assume of a turn it finishes.                           *)
LEMMA TurnFinished ==
  ASSUME IInv, Live, session.state # "idle",
         NEW ending \in Endings[Path(session)], NEW opened,
         FinishTurn(session, ending, opened)
  PROVE  /\ HeardRight' /\ filed' \in Reasons /\ timer' = NoSession
         /\ window' \subseteq Windows /\ Files(session, opened)
<1>1. HeardRight'
  BY LiveSession, TurnIsRight DEF FinishTurn
<1>2. filed' \in Reasons
  BY PathIsKnown, FinalState DEF FinishTurn, File
<1>3. window' \subseteq Windows
  BY DEF FinishTurn, IInv, TypeOK
<1>4. Files(session, opened)
  BY PathIsKnown, FinalState DEF FinishTurn, File, Files
<1> QED BY <1>1, <1>2, <1>3, <1>4 DEF FinishTurn

(* audio.end, on each path of a turn and with its follow-up.               *)
LEMMA AudioEndKeeps ==
  ASSUME IInv, NEW i \in Ids, AudioEnd(i)
  PROVE  Preserved
<1>1. /\ Live /\ session \in Session /\ Sound(session)
      /\ UNCHANGED <<connected, clock, cancelling, alarm, custom, counter>>
  BY LiveSession DEF AudioEnd
<1>2. CASE EndUnwoken
  <2>1. EnvTyped'
    BY <1>1, <1>2, EnvIsTyped DEF EnvTyped, EndUnwoken
  <2>2. HeardRight'
    <3>1. CASE alarm /\ session.audio # {}
      <4>1. heard' = [wake |-> session.wake,
                      placement |-> session.placement,
                      audio |-> session.audio, via |-> "interrupt"]
        BY <1>2, <3>1 DEF EndUnwoken, Turn
      <4>2. /\ session.audio = {"prewake"}
            /\ session.wake \in Wakes /\ session.placement \in BOOLEAN
        BY <1>1, <1>2, <3>1 DEF Session, Sound, EndUnwoken
      <4> QED BY <4>1, <4>2 DEF HeardRight, NothingHeardWithoutWake,
                              PlacementNeverAnswered
    <3>2. CASE ~ (alarm /\ session.audio # {})
      BY <1>2, <3>2, SilentIsRight DEF EndUnwoken, Silent
    <3> QED BY <3>1, <3>2
  <2>3. PICK why \in Reasons : Cancel(why)
    BY <1>2 DEF EndUnwoken, Reasons
  <2> QED BY <1>1, <2>1, <2>2, <2>3, CancelKeeps
<1>3. CASE /\ session.state # "idle"
           /\ \E ending \in Endings[Path(session)] :
                FinishTurn(session, ending, {}) /\ session' = NoSession
  <2>1. PICK ending \in Endings[Path(session)] :
          FinishTurn(session, ending, {}) /\ session' = NoSession
    BY <1>3
  <2>2. /\ HeardRight' /\ filed' \in Reasons /\ timer' = NoSession
        /\ window' \subseteq Windows /\ Files(session, {})
    BY <1>1, <1>3, <2>1, TurnFinished
  <2>3. EnvTyped'
    BY <1>1, <2>2, EnvIsTyped DEF EnvTyped
  <2> QED BY <1>1, <2>1, <2>2, <2>3, Ended
<1>4. CASE session.state # "idle" /\ AwaitFollowup(session)
  <2> DEFINE to == SetState(SetState(Transcribed(session), "routing"),
                            "responding")
  <2>1. to \in {"responding", "failed"}
    BY SetStateLands
  <2> HIDE DEF to
  <2>2. session' = [session EXCEPT !.state = to, !.follow = "waiting"]
    BY <1>4 DEF AwaitFollowup, to
  <2>3. session' \in Session
    BY <1>1, <2>1, <2>2, StatesAre DEF Session
  <2>4. /\ session'.id = session.id /\ session'.follow = "waiting"
        /\ session'.state = to /\ session'.wake = session.wake
        /\ session'.counted = session.counted
        /\ session'.audio = session.audio
    BY <1>1, <2>2 DEF Session
  <2>5. Sound(session')
    BY <1>1, <1>4, <2>1, <2>4 DEF Sound
  <2>6. HeardRight'
    BY <1>1, <1>4, TurnIsRight DEF AwaitFollowup
  <2>7. session.state = "failed" => session'.state = "failed"
    BY <2>4, FailedIsStuck DEF to, Transcribed
  <2>8. EnvTyped' /\ filed' \in Reasons /\ record' = record
        /\ timer' = timer /\ owed' = owed
    BY <1>1, <1>4, EnvIsTyped
    DEF EnvTyped, AwaitFollowup, NothingFiled, Reasons
  <2> QED BY <1>1, <2>3, <2>4, <2>5, <2>6, <2>7, <2>8, Kept
<1> QED BY <1>2, <1>3, <1>4 DEF AudioEnd

-----------------------------------------------------------------------------
(* A new session is opened, the one before it filed if there was one; a    *)
(* start that is refused only files the one before it.                     *)
LEMMA Started ==
  ASSUME IInv, NEW i \in Ids, i > counter, counter' = i,
         NEW opened \in {{}, {i}},
         IF opened = {} THEN session' = NoSession
           ELSE /\ session' \in Session /\ session'.id = i
                /\ Sound(session') /\ session'.state # "failed",
         EnvTyped', HeardRight', filed' \in Reasons, connected',
         timer' = NoSession,
         \/ ~ Live /\ record' = record /\ owed' = owed \cup opened
         \/ Live /\ Files(session, opened)
  PROVE  Preserved
<1>1. /\ Live' <=> opened # {}
      /\ Live' => session' \in Session /\ session'.id = i
      /\ Live' => Sound(session') /\ session'.state # "failed"
  BY VoiceAssumption DEF Live
<1>2. record \in [Ids -> {"open", "closed", "failed"}] /\ counter \in Int
  BY DEF IInv, TypeOK
<1>3. record' \in [Ids -> {"open", "closed", "failed"}]
  <2>1. CASE ~ Live /\ record' = record
    BY <1>2, <2>1
  <2>2. CASE Live /\ Files(session, opened)
    BY <1>2, <2>2, LiveSession DEF Files
  <2> QED BY <2>1, <2>2
<1>4. owed' = opened
  <2>1. owed = IF Live THEN {session.id} ELSE {}
    BY DEF IInv, SessionsAccountedFor
  <2> QED BY <2>1 DEF Files
<1>5. SessionsAccountedFor'
  BY <1>1, <1>4 DEF SessionsAccountedFor
<1>6. TypeOK'
  <2>1. session' \in Session \cup {NoSession}
    BY <1>1 DEF Live
  <2>2. owed' \subseteq Ids
    BY <1>4
  <2> QED BY <1>3, <2>1, <2>2 DEF TypeOK, EnvTyped, HeardRight
<1>7. TimerOwnsLiveFollowup' /\ LiveIsSound'
  BY <1>1 DEF TimerOwnsLiveFollowup, LiveIsSound
<1>8. Ledger!Closes
  BY LiveSession, VoiceAssumption
  DEF Files, Ledger!Closes, Ledger!Outcomes, Live
<1>9. Ledger!Open(i)
  <2>1. /\ i \notin 1 .. counter
        /\ (1 .. counter) \cup {i} \subseteq 1 .. counter'
    BY <1>2 DEF Ids
  <2>2. (IF Live THEN session.id ELSE NoSession)' \in {i, NoSession}
    BY <1>1
  <2>3. ~ (Live /\ session.state = "failed")'
    BY <1>1
  <2> QED BY <1>8, <2>1, <2>2, <2>3 DEF Ledger!Open
<1> QED BY <1>5, <1>6, <1>7, <1>9 DEF IInv, HeardRight, Preserved,
                                      Ledger!LNext

(* A new session starts idle with no audio, or woken by its source.        *)
LEMMA NewSessionIsSound ==
  ASSUME IInv, NEW i \in Ids, NEW source \in {"wake_word", "button"},
         NEW open
  PROVE  LET n == NewSession(i, source, open)
         IN n \in Session /\ n.id = i /\ Sound(n) /\ n.state # "failed"
<1> DEFINE n == NewSession(i, source, open)
<1>1. n = [id |-> i,
           state |-> IF source = "button" THEN "listening" ELSE "idle",
           wake |-> IF source = "button" THEN "button" ELSE "none",
           placement |-> "placement" \in open, counted |-> FALSE,
           audio |-> {}, follow |-> "none", age |-> 0, stamp |-> clock]
  BY WokenIsListening DEF NewSession
<1>2. n \in Session
  <2>1. clock \in Clocks
    BY DEF IInv, TypeOK
  <2>2. {"idle", "listening"} \subseteq States
    BY StatesAre
  <2> QED BY <1>1, <2>1, <2>2 DEF Session, Wakes
<1>3. /\ n.id = i /\ n.audio = {}
      /\ n.state = "idle" \/ n.wake = "button"
      /\ n.state \in {"idle", "listening"}
  BY <1>1
<1> HIDE DEF n
<1>4. Sound(n)
  BY <1>3 DEF Sound
<1> QED BY <1>2, <1>3, <1>4 DEF n

(* session.start, alone or over a session it completes or cancels.         *)
LEMMA SessionStartKeeps ==
  ASSUME IInv, NEW i \in Ids, NEW source \in {"wake_word", "button"},
         SessionStart(i, source)
  PROVE  Preserved
<1>1. /\ i > counter /\ counter' = i /\ connected
      /\ UNCHANGED <<connected, clock, cancelling, alarm, custom>>
  BY DEF SessionStart
<1>2. PICK opened \in {{i}, {}} :
        /\ \/ /\ ~ Live /\ Silent /\ UNCHANGED <<timer, window, record>>
              /\ filed' = "nothing" /\ owed' = owed \cup opened
           \/ /\ Live /\ CaptureComplete(session)
              /\ \E ending \in Endings[Path(session)] :
                   FinishTurn(session, ending, opened)
           \/ /\ Live
              /\ File(session, SetState(session.state, "cancelled"),
                      "superseded_by_new_session", opened)
              /\ timer' = NoSession
              /\ Silent /\ UNCHANGED window
        /\ session' = IF opened = {} THEN NoSession
                                     ELSE NewSession(i, source, window')
  BY DEF SessionStart
<1>3. IF opened = {} THEN session' = NoSession
        ELSE /\ session' \in Session /\ session'.id = i
             /\ Sound(session') /\ session'.state # "failed"
  BY <1>2, NewSessionIsSound
<1>4. counter' \in 0 .. MaxSessions
  BY <1>1, VoiceAssumption DEF Ids
<1>5. CASE /\ ~ Live /\ Silent /\ UNCHANGED <<timer, window, record>>
           /\ filed' = "nothing" /\ owed' = owed \cup opened
  <2>1. timer' = NoSession
    BY <1>5 DEF IInv, TimerOwnsLiveFollowup
  <2>2. EnvTyped' /\ HeardRight'
    BY <1>1, <1>4, <1>5, EnvIsTyped, SilentIsRight DEF EnvTyped
  <2>3. filed' \in Reasons /\ record' = record
    BY <1>5 DEF Reasons
  <2> QED BY <1>1, <1>2, <1>3, <1>5, <2>1, <2>2, <2>3, Started
<1>6. CASE /\ Live /\ CaptureComplete(session)
           /\ \E ending \in Endings[Path(session)] :
                FinishTurn(session, ending, opened)
  <2>1. PICK ending \in Endings[Path(session)] :
          FinishTurn(session, ending, opened)
    BY <1>6
  <2>2. session.state # "idle"
    BY <1>6 DEF CaptureComplete
  <2>3. /\ HeardRight' /\ filed' \in Reasons /\ timer' = NoSession
        /\ window' \subseteq Windows /\ Files(session, opened)
    BY <1>6, <2>1, <2>2, TurnFinished
  <2>4. EnvTyped'
    BY <1>1, <1>4, <2>3, EnvIsTyped DEF EnvTyped
  <2> QED BY <1>1, <1>2, <1>3, <1>6, <2>3, <2>4, Started
<1>7. CASE /\ Live
           /\ File(session, SetState(session.state, "cancelled"),
                   "superseded_by_new_session", opened)
           /\ timer' = NoSession
           /\ Silent /\ UNCHANGED window
  <2>1. EnvTyped' /\ HeardRight'
    BY <1>1, <1>4, <1>7, EnvIsTyped, SilentIsRight DEF EnvTyped
  <2>2. filed' \in Reasons /\ Files(session, opened)
    BY <1>7, FailedIsStuck DEF File, Files, Reasons
  <2> QED BY <1>1, <1>2, <1>3, <1>7, <2>1, <2>2, Started
<1> QED BY <1>2, <1>5, <1>6, <1>7

(* A candidate for the live session wakes it, or is only recorded.         *)
LEMMA WakeCandidateKeeps ==
  ASSUME IInv, NEW i \in Ids, WakeCandidate(i)
  PROVE  Preserved
<1>1. Live /\ session \in Session /\ Sound(session)
  BY LiveSession DEF WakeCandidate
<1>2. EnvTyped' /\ HeardRight'
  BY EnvIsTyped, SilentIsRight DEF WakeCandidate, env, EnvTyped
<1>3. /\ session' \in Session /\ Sound(session')
      /\ session'.id = session.id /\ session'.follow = session.follow
  BY <1>1, ElectIsSound DEF WakeCandidate
<1>4. /\ filed' \in Reasons /\ record' = record /\ timer' = timer
      /\ owed' = owed /\ counter' = counter /\ connected' = connected
  BY DEF WakeCandidate, NothingFiled, Reasons, env
<1>5. session.state # "failed"
  BY DEF WakeCandidate
<1> QED BY <1>1, <1>2, <1>3, <1>4, <1>5, Kept

(* The end of the reply opens the follow-up and arms its timer.            *)
LEMMA ReplyPlayedKeeps ==
  ASSUME IInv, NEW i \in Ids, ReplyPlayed(i)
  PROVE  Preserved
<1>1. Live /\ session \in Session /\ Sound(session)
  BY LiveSession DEF ReplyPlayed
<1>2. EnvTyped' /\ HeardRight'
  BY EnvIsTyped, SilentIsRight DEF ReplyPlayed, env, EnvTyped
<1>3. session' = [session EXCEPT !.state = "listening",
                                 !.follow = "listening",
                                 !.audio = {}, !.counted = FALSE]
  BY DEF ReplyPlayed, SetState, Allowed
<1>4. session' \in Session
  BY <1>1, <1>3, StatesAre DEF Session
<1>5. /\ session'.id = session.id /\ session'.follow = "listening"
      /\ session'.audio = {} /\ session'.state = "listening"
      /\ session'.wake = session.wake
  BY <1>1, <1>3 DEF Session
<1>6. session.wake # "none" /\ session.state # "failed"
  BY <1>1 DEF ReplyPlayed, Sound
<1>7. Sound(session')
  BY <1>5, <1>6 DEF Sound
<1>8. /\ filed' \in Reasons /\ record' = record /\ timer' = session.id
      /\ owed' = owed /\ counter' = counter /\ connected' = connected
  BY DEF ReplyPlayed, NothingFiled, Reasons, env
<1> QED BY <1>1, <1>2, <1>4, <1>5, <1>6, <1>7, <1>8, Kept

(* Time passing ages the session and touches nothing else of it.           *)
LEMMA TickKeeps ==
  ASSUME IInv, Tick
  PROVE  Preserved
<1>1. Live /\ session \in Session /\ Sound(session) /\ session.age < 3
  BY LiveSession DEF Tick
<1>2. EnvTyped' /\ HeardRight'
  BY EnvIsTyped, SilentIsRight DEF Tick, env, EnvTyped
<1>3. session.age \in 0 .. 3 /\ session.age + 1 \in 0 .. 3
  BY <1>1 DEF Session
<1>4. session' = [session EXCEPT !.age = session.age + 1]
  BY DEF Tick
<1>5. session' \in Session
  BY <1>1, <1>3, <1>4 DEF Session
<1>6. /\ session'.id = session.id /\ session'.follow = session.follow
      /\ session'.audio = session.audio /\ session'.state = session.state
      /\ session'.wake = session.wake
      /\ session'.counted = session.counted
  BY <1>1, <1>4 DEF Session
<1>7. Sound(session')
  BY <1>1, <1>6 DEF Sound
<1>8. /\ filed' \in Reasons /\ record' = record /\ timer' = timer
      /\ owed' = owed /\ counter' = counter /\ connected' = connected
  BY DEF Tick, NothingFiled, Reasons, env
<1> QED BY <1>1, <1>2, <1>5, <1>6, <1>7, <1>8, Kept

-----------------------------------------------------------------------------
(* The smaller actions *)

(* A failed playback cancels a session that waits for a follow-up.         *)
LEMMA PlaybackFailedKeeps ==
  ASSUME IInv, PlaybackFailed
  PROVE  Preserved
<1>1. EnvTyped' /\ HeardRight'
  BY EnvIsTyped, SilentIsRight DEF PlaybackFailed, EnvTyped
<1> QED BY <1>1, CancelKeeps DEF PlaybackFailed, Reasons

(* The follow-up timer ends the session it was armed for, if any.          *)
LEMMA FollowupTimeoutKeeps ==
  ASSUME IInv, FollowupTimeout
  PROVE  Preserved
<1>1. EnvTyped' /\ HeardRight' /\ counter' = counter /\ connected' = connected
  BY EnvIsTyped, SilentIsRight DEF FollowupTimeout, env, EnvTyped
<1>2. Live /\ connected /\ session.id = timer /\ session.follow # "none"
  BY DEF FollowupTimeout, IInv, TimerOwnsLiveFollowup
<1>3. Cancel("followup_timeout")
  BY <1>2 DEF FollowupTimeout
<1> QED BY <1>1, <1>3, CancelKeeps DEF Reasons

(* The cancel command ends whatever session is live by then.               *)
LEMMA CancelAppliedKeeps ==
  ASSUME IInv, CancelApplied
  PROVE  Preserved
<1>1. /\ EnvTyped' /\ HeardRight'
      /\ UNCHANGED <<connected, counter>>
  BY EnvIsTyped, SilentIsRight DEF CancelApplied, EnvTyped
<1>2. CASE Cancel("endpoint_cancel_pushed")
  BY <1>1, <1>2, CancelKeeps DEF Reasons
<1>3. CASE ~ Live /\ NothingFiled /\ UNCHANGED <<session, timer>>
  BY <1>1, <1>3, LeftAlone DEF NothingFiled, Reasons
<1> QED BY <1>2, <1>3 DEF CancelApplied

(* A restart leaves the clock and the counter in their types.              *)
LEMMA RebootIsTyped ==
  ASSUME IInv, MayReboot
  PROVE  /\ clock' \in Clocks /\ counter' \in 0 .. MaxSessions
         /\ counter' \in {counter, 0}
BY VoiceAssumption DEF MayReboot, IInv, TypeOK, Clocks

(* A lost or replaced connection files its session and its timer.          *)
LEMMA ConnectionKeeps ==
  ASSUME IInv, Connection
  PROVE  Preserved
<1>1. CASE Connect
  <2>1. EnvTyped' /\ HeardRight' /\ filed' \in Reasons
    BY <1>1, EnvIsTyped, RebootIsTyped, SilentIsRight
    DEF Connect, EnvTyped, Reasons
  <2>2. ~ Live
    BY <1>1, LiveSession DEF Connect
  <2>3. /\ UNCHANGED <<session, timer, owed, record>> /\ connected'
        /\ counter' \in {counter, 0}
    BY <1>1, RebootIsTyped DEF Connect
  <2> QED BY <2>1, <2>2, <2>3, LeftAlone
<1>2. ASSUME NEW why \in Reasons, EndWithConnection(why),
             connected' \in BOOLEAN, clock' \in Clocks,
             counter' \in 0 .. MaxSessions, counter' \in {counter, 0}
      PROVE  Preserved
  <2>1. EnvTyped' /\ HeardRight'
    BY <1>2, EnvIsTyped, SilentIsRight DEF EndWithConnection, EnvTyped
  <2>2. CASE Cancel(why)
    BY <1>2, <2>1, <2>2, CancelKeeps
  <2>3. CASE ~ Live /\ timer' = NoSession /\ NothingFiled
             /\ UNCHANGED session
    <3>1. timer = NoSession
      BY <2>3 DEF IInv, TimerOwnsLiveFollowup
    <3> QED BY <1>2, <2>1, <2>3, <3>1, LeftAlone DEF NothingFiled, Reasons
  <2> QED BY <1>2, <2>2, <2>3 DEF EndWithConnection
<1>3. {"websocket_disconnected", "endpoint_reconnected"} \subseteq Reasons
  BY DEF Reasons
<1>4. CASE Disconnect
  BY <1>2, <1>3, <1>4, EnvIsTyped DEF Disconnect, EnvTyped
<1>5. CASE Reconnect
  BY <1>2, <1>3, <1>5, RebootIsTyped DEF Reconnect
<1> QED BY <1>1, <1>4, <1>5 DEF Connection

(* Windows, alarms and the custom capture leave the session alone.         *)
LEMMA SurroundingsKeep ==
  ASSUME IInv, Surroundings \/ CancelSent
  PROVE  Preserved
<1>1. Bystander /\ connected' = connected
  BY DEF Surroundings, CancelSent, AlarmStarts, AlarmEnds, OpenWindow,
         WindowExpires, SetWindows, CustomCaptureToggles, ClockSync
<1>2. EnvTyped'
  BY EnvIsTyped
  DEF EnvTyped, Bystander, Clocks, Surroundings, CancelSent, AlarmStarts,
      AlarmEnds, OpenWindow, WindowExpires, SetWindows,
      CustomCaptureToggles, ClockSync
<1> QED BY <1>1, <1>2, BystanderKeeps

-----------------------------------------------------------------------------
(* The invariant *)

(* The invariant holds before the first connection.                        *)
LEMMA InitIInv == Init => IInv
<1> SUFFICES ASSUME Init PROVE IInv
  OBVIOUS
<1>1. ~ Live
  BY DEF Init, Live
<1>2. TypeOK
  <2>1. counter \in 0 .. MaxSessions
    BY VoiceAssumption DEF Init
  <2>2. record \in [Ids -> {"open", "closed", "failed"}]
    BY DEF Init
  <2> QED BY <2>1, <2>2 DEF Init, TypeOK, NoTurn, Clocks, Wakes, Reasons
<1>3. SessionsAccountedFor /\ TimerOwnsLiveFollowup /\ LiveIsSound
  BY <1>1 DEF Init, SessionsAccountedFor, TimerOwnsLiveFollowup, LiveIsSound
<1>4. NothingHeardWithoutWake /\ PlacementNeverAnswered
  BY DEF Init, NoTurn, NothingHeardWithoutWake, PlacementNeverAnswered
<1> QED BY <1>2, <1>3, <1>4 DEF IInv

(* Every step of every actor keeps the invariant.                          *)
LEMMA StepIInv == IInv /\ [Next]_vars => Preserved
<1> SUFFICES ASSUME IInv, [Next]_vars PROVE Preserved
  OBVIOUS
<1>1. CASE \E i \in Ids : EndpointEvent(i)
  <2>1. PICK i \in Ids : EndpointEvent(i)
    BY <1>1
  <2>2. CASE SessionStart(i, "wake_word") \/ SessionStart(i, "button")
    BY <2>2, SessionStartKeeps
  <2>3. CASE AudioChunk(i)
    BY <2>3, AudioChunkKeeps
  <2>4. CASE AudioEnd(i)
    BY <2>4, AudioEndKeeps
  <2>5. CASE WakeCandidate(i)
    BY <2>5, WakeCandidateKeeps
  <2>6. CASE ReplyPlayed(i)
    BY <2>6, ReplyPlayedKeeps
  <2>7. CASE SessionCancel(i)
    BY <2>7, CancelRequestedKeeps DEF SessionCancel, Reasons
  <2> QED BY <2>1, <2>2, <2>3, <2>4, <2>5, <2>6, <2>7 DEF EndpointEvent
<1>2. CASE PlaybackFailed
  BY <1>2, PlaybackFailedKeeps
<1>3. CASE FollowupTimeout
  BY <1>3, FollowupTimeoutKeeps
<1>4. CASE StatusPoll \/ StandDown \/ OperatorCancel
  <2>1. PICK why \in Reasons : CancelRequested(why)
    BY <1>4 DEF StatusPoll, StandDown, OperatorCancel, TimeoutReasons,
                Reasons
  <2> QED BY <2>1, CancelRequestedKeeps
<1>5. CASE CancelApplied
  BY <1>5, CancelAppliedKeeps
<1>6. CASE Connection
  BY <1>6, ConnectionKeeps
<1>7. CASE Surroundings \/ CancelSent
  BY <1>7, SurroundingsKeep
<1>8. CASE Tick
  BY <1>8, TickKeeps
<1>9. CASE UNCHANGED vars
  <2>1. EnvTyped'
    BY <1>9, EnvIsTyped DEF vars, EnvTyped
  <2>2. HeardRight'
    BY <1>9 DEF vars, IInv, TypeOK, HeardRight, NothingHeardWithoutWake,
                PlacementNeverAnswered
  <2>3. /\ filed' \in Reasons
        /\ UNCHANGED <<session, timer, owed, record, counter>>
        /\ connected' = connected
    BY <1>9 DEF vars, IInv, TypeOK
  <2> QED BY <2>1, <2>2, <2>3, LeftAlone, LiveSession
<1> QED BY <1>1, <1>2, <1>3, <1>4, <1>5, <1>6, <1>7, <1>8, <1>9 DEF Next

(* Every reachable state satisfies the inductive invariant.                *)
THEOREM SessionInvariant == Spec => []IInv
<1>1. IInv /\ [Next]_vars => IInv'
  BY StepIInv DEF Preserved
<1> QED BY <1>1, InitIInv, PTL DEF Spec

(* Type correctness of the runtime, its history entry and the records.     *)
THEOREM SessionTypes == Spec => []TypeOK
<1>1. IInv => TypeOK
  BY DEF IInv
<1> QED BY <1>1, SessionInvariant, PTL

(* No transcription without a recorded wake, whatever the interleaving of  *)
(* chunks, windows, elections, follow-ups and reconnects.                  *)
THEOREM HeardAfterWake == Spec => []NothingHeardWithoutWake
<1>1. IInv => NothingHeardWithoutWake
  BY DEF IInv
<1> QED BY <1>1, SessionInvariant, PTL

(* Every session started is on file, except the live one, which is not.    *)
THEOREM AllSessionsFiled == Spec => []SessionsAccountedFor
<1>1. IInv => SessionsAccountedFor
  BY DEF IInv
<1> QED BY <1>1, SessionInvariant, PTL

(* The follow-up task belongs to the live session, which has a follow-up.  *)
THEOREM TimerOwned == Spec => []TimerOwnsLiveFollowup
<1>1. IInv => TimerOwnsLiveFollowup
  BY DEF IInv
<1> QED BY <1>1, SessionInvariant, PTL

(* A placement sample never reaches the assistant.                         *)
THEOREM PlacementSuppressed == Spec => []PlacementNeverAnswered
<1>1. IInv => PlacementNeverAnswered
  BY DEF IInv
<1> QED BY <1>1, SessionInvariant, PTL

(* _can_replace_active_session never gives up captured speech: a session   *)
(* it replaces counted no chunk, or was never woken.                       *)
THEOREM SpeechSurvivesNewSession == Spec => SupersededHeldNoSpeech
<1> DEFINE Why == "superseded_by_new_session"
           Kind == filed' = Why => "speech" \notin session.audio
<1>1. IInv /\ [Next]_vars => [Kind]_vars
  <2> SUFFICES ASSUME IInv, Next, filed' = Why
               PROVE  "speech" \notin session.audio
    OBVIOUS
  <2>1. PICK i \in Ids : SessionStart(i, "wake_word")
                           \/ SessionStart(i, "button")
    <3>1. ASSUME NEW i \in Ids, AudioEnd(i) PROVE FALSE
      <4>1. CASE EndUnwoken
        BY <3>1, <4>1 DEF EndUnwoken, Cancel, File
      <4>2. CASE \E ending \in Endings[Path(session)] :
                   FinishTurn(session, ending, {})
        BY <4>2, PathIsKnown DEF FinishTurn, File, Endings
      <4>3. CASE AwaitFollowup(session)
        BY <4>3 DEF AwaitFollowup, NothingFiled
      <4> QED BY <3>1, <4>1, <4>2, <4>3 DEF AudioEnd
    <3>2. ASSUME NEW i \in Ids,
                 \/ AudioChunk(i) \/ WakeCandidate(i)
                 \/ ReplyPlayed(i) \/ SessionCancel(i)
          PROVE  FALSE
      BY <3>2 DEF AudioChunk, WakeCandidate, ReplyPlayed, SessionCancel,
                  CancelRequested, TimeoutReasons, Cancel, File, NothingFiled
    <3>3. ~ (PlaybackFailed \/ FollowupTimeout \/ Tick)
      BY DEF PlaybackFailed, FollowupTimeout, Tick, Cancel, File,
             NothingFiled
    <3>4. ~ (StatusPoll \/ StandDown \/ OperatorCancel \/ CancelApplied)
      BY DEF StatusPoll, StandDown, OperatorCancel, CancelApplied,
             CancelRequested, TimeoutReasons, Cancel, File, NothingFiled
    <3>5. ~ (Connection \/ CancelSent \/ Surroundings)
      BY DEF Connection, Connect, Disconnect, Reconnect, EndWithConnection,
             Cancel, File, NothingFiled, Bystander, CancelSent, Surroundings,
             AlarmStarts, AlarmEnds, OpenWindow, WindowExpires, SetWindows,
             CustomCaptureToggles, ClockSync
    <3> QED BY <3>1, <3>2, <3>3, <3>4, <3>5 DEF Next, EndpointEvent
  <2>2. CASE \E ending \in Endings[Path(session)] :
               \E opened \in SUBSET Ids : FinishTurn(session, ending, opened)
    BY <2>2, PathIsKnown DEF FinishTurn, File, Endings
  <2>3. CASE Live /\ \E age \in EventAges(session) : CanReplace(session, age)
    BY <2>3, LiveSession DEF CanReplace, Sound
  <2> QED BY <2>1, <2>2, <2>3 DEF SessionStart, NothingFiled
<1> QED BY <1>1, SessionInvariant, PTL DEF Spec, SupersededHeldNoSpeech

(* Every behaviour of the session manager, for any number of sessions and  *)
(* of restarts of the endpoint, is one of the ledger: one live session,    *)
(* each closed once, a broken one never as a success, and an outcome       *)
(* overwritten only by a session that a restarted endpoint gave the id.    *)
THEOREM SessionsImplementLedger == Spec => ImplementsLedger
<1>1. Init => Ledger!LInit
  BY DEF Init, Live, Ledger!LInit
<1>2. IInv /\ [Next]_vars => [Ledger!LNext]_(Ledger!lvars)
  BY StepIInv DEF Preserved
<1> QED BY <1>1, <1>2, SessionInvariant, PTL
        DEF Spec, ImplementsLedger, Ledger!LSpec
=============================================================================
