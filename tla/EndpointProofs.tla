--------------------------- MODULE EndpointProofs ---------------------------
(***************************************************************************)
(* Proofs about what reaches an endpoint: its connections, and what is     *)
(* configured, for every number of connections, endpoints, requests,       *)
(* engines and processes.                                                  *)
(*                                                                         *)
(* A replacement works on the runtime it looked up before its awaits: what *)
(* is known of that runtime, and of the registered one, has to survive     *)
(* everything the other coroutines do meanwhile.  What is configured is    *)
(* read, then told, by tasks that hold on to what they read: the engines', *)
(* the Piper requests' and the reloading round's.                          *)
(***************************************************************************)
EXTENDS EndpointConnections, MCProvider, SequenceTheorems, FiniteSetTheorems, TLAPS
-----------------------------------------------------------------------------
(* The connections *)

(* Connections come in the order of their numbers.                         *)
InOrder ==
  \A i, j \in Sockets : i < j /\ phase[i] = "absent" => phase[j] = "absent"

(* What is registered has been served at some time.                        *)
RegisteredWasServed ==
  bound # Nothing => phase[bound] \in {"starting", "serving", "ended"}

(* What is being replaced connected before the connection replacing it.    *)
ReplacesAnOlder ==
  \A k \in Sockets :
    phase[k] \in Closing => target[k] \in Sockets /\ target[k] < k

(* A session is served, and was filed when a replacement cancelled it.     *)
SessionsAreServed ==
  \A k \in Sockets :
    /\ session[k] # "none" => phase[k] = "serving"
    /\ session[k] = "cancelled" => filed[k] > 0

IInv == /\ TypeOK
        /\ InOrder
        /\ RegisteredWasServed
        /\ ReplacesAnOlder
        /\ SessionsAreServed
        /\ CommandsHaveAReader

(* A step drops a session unfiled, and makes a runtime inactive, only as   *)
(* the two action properties allow.                                        *)
Dropping ==
  \A k \in Sockets :
    session[k] # "none" /\ session'[k] = "none" /\ filed'[k] = 0
      => /\ session[k] = "live"
         /\ \E j \in Sockets : phase[j] \in Closing /\ target[j] = k

Sparing ==
  \A k \in Sockets :
    active[k] /\ ~ active'[k]
      => phase'[k] = "ended" \/ \E j \in Sockets : j > k /\ target[j] = k

(* The goal for every step.                                                *)
Preserved == IInv' /\ Dropping /\ Sparing

-----------------------------------------------------------------------------

LEMMA InitIsInvariant == Init => IInv
BY ConnectionsAssumption
   DEF Init, IInv, TypeOK, InOrder, RegisteredWasServed, ReplacesAnOlder,
       SessionsAreServed, CommandsHaveAReader, Registered, Sockets, Phases,
       Closing

(* The registered runtime is that of an earlier connection than the one    *)
(* that connects now.                                                      *)
LEMMA RegisteredIsOlder ==
  ASSUME IInv, NEW k \in Sockets, phase[k] = "absent", bound # Nothing
  PROVE  bound \in Sockets /\ bound < k /\ phase[bound] # "absent"
<1>1. bound \in Sockets /\ phase[bound] # "absent"
  BY DEF IInv, TypeOK, RegisteredWasServed
<1>2. ~ (k < bound)
  BY <1>1 DEF IInv, InOrder
<1> QED BY <1>1, <1>2, ConnectionsAssumption DEF Sockets

-----------------------------------------------------------------------------
(* Connections *)

LEMMA ConnectStep ==
  ASSUME IInv, NEW k \in Sockets, Connect(k)
  PROVE  Preserved
<1> USE DEF Connect, Serve
<1>1. TypeOK'
  BY ConnectionsAssumption
     DEF IInv, TypeOK, Sockets, Phases, BindOver
<1>2. bound' = k
  BY DEF Registered, BindOver
<1>3. phase' = [phase EXCEPT ![k] = "starting"]
      /\ target' = [target EXCEPT ![k] = Nothing]
      /\ UNCHANGED <<session, filed>>
  OBVIOUS
<1>4. RegisteredWasServed' /\ CommandsHaveAReader'
  BY <1>2, <1>3
     DEF IInv, TypeOK, RegisteredWasServed, CommandsHaveAReader
<1>5. InOrder'
  BY ConnectionsAssumption DEF IInv, TypeOK, InOrder, Sockets
<1>6. ReplacesAnOlder' /\ SessionsAreServed'
  BY <1>3 DEF IInv, TypeOK, ReplacesAnOlder, SessionsAreServed, Closing
<1>7. Dropping /\ Sparing
  BY DEF Dropping, Sparing, IInv, TypeOK
<1> QED BY <1>1, <1>4, <1>5, <1>6, <1>7 DEF Preserved, IInv

LEMMA BeginReplacementStep ==
  ASSUME IInv, NEW k \in Sockets, BeginReplacement(k)
  PROVE  Preserved
<1>1. /\ bound \in Sockets /\ bound < k /\ phase[bound] # "absent"
      /\ phase[k] = "absent" /\ active[bound]
  BY RegisteredIsOlder DEF BeginReplacement, Registered
<1>2. PICK p \in Closing : phase' = [phase EXCEPT ![k] = p]
  BY DEF BeginReplacement, Closing
<1>3. /\ target' = [target EXCEPT ![k] = bound]
      /\ session' = [session EXCEPT
           ![bound] = IF @ = "none" THEN @ ELSE "cancelled"]
      /\ filed' = [filed EXCEPT
           ![bound] = IF session[bound] = "none" THEN @ ELSE @ + 1]
      /\ UNCHANGED <<bound, active, audio>>
      /\ \A j \in Sockets : j < k => phase[j] # "absent"
  BY DEF BeginReplacement
<1>4. \/ open' = [open EXCEPT ![k] = TRUE]
      \/ open' = [open EXCEPT ![k] = TRUE, ![bound] = FALSE]
  BY DEF BeginReplacement
<1>5. TypeOK'
  <2>1. phase' \in [Sockets -> Phases]
    BY <1>2 DEF IInv, TypeOK, Phases, Closing
  <2>2. target' \in [Sockets -> Sockets \cup {Nothing}]
    BY <1>1, <1>3 DEF IInv, TypeOK
  <2>3. open' \in [Sockets -> BOOLEAN]
    BY <1>4 DEF IInv, TypeOK
  <2>4. /\ session' \in [Sockets -> {"none", "live", "cancelled"}]
        /\ filed' \in [Sockets -> Nat]
    BY <1>1, <1>3 DEF IInv, TypeOK
  <2> QED BY <1>3, <2>1, <2>2, <2>3, <2>4 DEF IInv, TypeOK
<1>6. InOrder' /\ RegisteredWasServed' /\ ReplacesAnOlder'
  <2>1. InOrder'
    BY <1>2, <1>3, ConnectionsAssumption
       DEF IInv, TypeOK, InOrder, Sockets, Closing
  <2>2. RegisteredWasServed'
    BY <1>1, <1>2, <1>3, ConnectionsAssumption
       DEF IInv, TypeOK, RegisteredWasServed, Sockets
  <2>3. ReplacesAnOlder'
    BY <1>1, <1>2, <1>3, ConnectionsAssumption
       DEF IInv, TypeOK, ReplacesAnOlder
  <2> QED BY <2>1, <2>2, <2>3
<1>7. SessionsAreServed'
  <2>1. \A j \in Sockets : session'[j] # "none" => session[j] # "none"
    BY <1>1, <1>3 DEF IInv, TypeOK
  <2>2. \A j \in Sockets : phase[j] # "absent" => phase'[j] = phase[j]
    BY <1>1, <1>2 DEF IInv, TypeOK
  <2>3. \A j \in Sockets : session'[j] = "cancelled" => filed'[j] > 0
    BY <1>1, <1>3 DEF IInv, TypeOK, SessionsAreServed
  <2> QED BY <2>1, <2>2, <2>3 DEF IInv, SessionsAreServed
<1>8. CommandsHaveAReader'
  BY <1>1, <1>2, <1>3, <1>4, ConnectionsAssumption
     DEF IInv, TypeOK, CommandsHaveAReader, Registered, Sockets, Closing
<1>9. Dropping /\ Sparing
  BY <1>1, <1>3 DEF Dropping, Sparing, IInv, TypeOK
<1> QED BY <1>5, <1>6, <1>7, <1>8, <1>9 DEF Preserved, IInv

LEMMA FinishReplacementStep ==
  ASSUME IInv, NEW k \in Sockets, phase[k] \in Closing, FinishReplacement(k)
  PROVE  Preserved
<1> DEFINE r == target[k]
<1>1. r \in Sockets /\ r < k /\ r # k
  BY ConnectionsAssumption DEF IInv, ReplacesAnOlder, Sockets
<1>2. /\ audio' = [audio EXCEPT ![r] = FALSE]
      /\ session' = [session EXCEPT ![r] = "none"]
      /\ active' = [[active EXCEPT ![r] = FALSE] EXCEPT ![k] = TRUE]
      /\ phase' = [phase EXCEPT ![k] = "starting"]
      /\ target' = [target EXCEPT ![k] = Nothing]
      /\ UNCHANGED <<open, filed>>
  BY DEF FinishReplacement, Serve
<1>3. bound' = k \/ (bound' = bound /\ bound # Nothing /\ bound # r)
  BY DEF FinishReplacement, Serve, BindOver
<1> HIDE DEF r
<1>4. TypeOK'
  BY <1>1, <1>2, <1>3, ConnectionsAssumption
     DEF IInv, TypeOK, Sockets, Phases
<1>5. InOrder' /\ RegisteredWasServed' /\ ReplacesAnOlder'
  BY <1>1, <1>2, <1>3, ConnectionsAssumption
     DEF IInv, TypeOK, InOrder, RegisteredWasServed, ReplacesAnOlder, Sockets,
         Closing
<1>6. SessionsAreServed'
  BY <1>1, <1>2, ConnectionsAssumption
     DEF IInv, TypeOK, SessionsAreServed, Closing
<1>7. CommandsHaveAReader'
  <2>1. CASE bound' = k
    BY <2>1, <1>2 DEF IInv, TypeOK, CommandsHaveAReader
  <2>2. CASE bound' = bound /\ bound # Nothing /\ bound # r /\ bound # k
    BY <2>2, <1>1, <1>2
       DEF IInv, TypeOK, CommandsHaveAReader, Registered
  <2> QED BY <2>1, <2>2, <1>3
<1>8. Dropping /\ Sparing
  BY <1>1, <1>2, ConnectionsAssumption
     DEF Dropping, Sparing, IInv, TypeOK, SessionsAreServed, Sockets, r
<1> QED BY <1>4, <1>5, <1>6, <1>7, <1>8 DEF Preserved, IInv

LEMMA AudioClosedStep ==
  ASSUME IInv, NEW k \in Sockets, AudioClosed(k)
  PROVE  Preserved
<1>1. CASE FinishReplacement(k)
  BY <1>1, FinishReplacementStep DEF AudioClosed, Closing
<1>2. CASE active[target[k]]
  <2>1. target[k] \in Sockets /\ target[k] < k /\ phase[k] \in Closing
    BY DEF IInv, ReplacesAnOlder, AudioClosed, Closing
  <2>2. /\ phase[k] = "closing audio"
        /\ phase' = [phase EXCEPT ![k] = "closing control"]
        /\ open' = [open EXCEPT ![target[k]] = FALSE]
        /\ UNCHANGED <<target, bound, active, audio, session, filed>>
    BY <1>2 DEF AudioClosed
  <2>3. TypeOK' /\ InOrder' /\ SessionsAreServed'
    <3>1. TypeOK'
      BY <2>1, <2>2 DEF IInv, TypeOK, Phases
    <3>2. InOrder'
      BY <2>2 DEF IInv, TypeOK, InOrder
    <3>3. SessionsAreServed'
      BY <2>2 DEF IInv, TypeOK, SessionsAreServed
    <3> QED BY <3>1, <3>2, <3>3
  <2>4. Dropping /\ Sparing
    BY <2>2 DEF Dropping, Sparing
  <2>5. RegisteredWasServed' /\ CommandsHaveAReader'
    BY <2>1, <2>2
       DEF IInv, TypeOK, RegisteredWasServed, CommandsHaveAReader, Registered
  <2>6. ReplacesAnOlder'
    BY <2>1, <2>2 DEF IInv, TypeOK, ReplacesAnOlder, Closing
  <2> QED BY <2>3, <2>4, <2>5, <2>6 DEF Preserved, IInv
<1> QED BY <1>1, <1>2 DEF AudioClosed

LEMMA ControlClosedStep ==
  ASSUME IInv, NEW k \in Sockets, ControlClosed(k)
  PROVE  Preserved
BY FinishReplacementStep DEF ControlClosed, Closing

(* The first commands are sent, or one of them fails.                      *)
LEMMA StartStep ==
  ASSUME IInv, NEW k \in Sockets, Started(k) \/ StartFails(k)
  PROVE  Preserved
<1>1. PICK p \in {"serving", "ended"} :
        /\ phase[k] = "starting" /\ phase' = [phase EXCEPT ![k] = p]
        /\ p = "ended" => Registered /\ ~ open[bound]
  BY DEF Started, StartFails
<1>2. UNCHANGED <<target, bound, active, audio, open, session, filed>>
  BY DEF Started, StartFails
<1>3. TypeOK'
  BY <1>1, <1>2 DEF IInv, TypeOK, Phases
<1>4. InOrder'
  BY <1>1 DEF IInv, TypeOK, InOrder
<1>5. RegisteredWasServed' /\ CommandsHaveAReader'
  BY <1>1, <1>2
     DEF IInv, TypeOK, RegisteredWasServed, CommandsHaveAReader, Registered
<1>6. ReplacesAnOlder'
  BY <1>1, <1>2 DEF IInv, TypeOK, ReplacesAnOlder, Closing
<1>7. SessionsAreServed'
  BY <1>1, <1>2 DEF IInv, TypeOK, SessionsAreServed
<1>8. Dropping /\ Sparing
  BY <1>2 DEF Dropping, Sparing
<1> QED BY <1>3, <1>4, <1>5, <1>6, <1>7, <1>8 DEF Preserved, IInv

-----------------------------------------------------------------------------
(* Sessions, and the end of a handler *)

LEMMA HandlerEndsStep ==
  ASSUME IInv, NEW k \in Sockets, HandlerEnds(k)
  PROVE  Preserved
<1> USE DEF HandlerEnds, FileAndClear
<1>1. TypeOK'
  <2>1. /\ filed[k] \in Nat /\ filed[k] + 1 \in Nat
        /\ filed' \in [Sockets -> Nat]
    BY DEF IInv, TypeOK
  <2>2. phase' \in [Sockets -> Phases]
    BY DEF IInv, TypeOK, Phases
  <2> QED BY <2>1, <2>2 DEF IInv, TypeOK
<1>2. InOrder'
  BY DEF IInv, TypeOK, InOrder
<1>3. RegisteredWasServed' /\ CommandsHaveAReader'
  BY DEF IInv, TypeOK, RegisteredWasServed, CommandsHaveAReader, Registered
<1>4. ReplacesAnOlder'
  BY DEF IInv, TypeOK, ReplacesAnOlder, Closing
<1>5. SessionsAreServed'
  BY DEF IInv, TypeOK, SessionsAreServed
<1>6. Dropping /\ Sparing
  BY DEF Dropping, Sparing, IInv, TypeOK
<1> QED BY <1>1, <1>2, <1>3, <1>4, <1>5, <1>6 DEF Preserved, IInv

LEMMA SessionStep ==
  ASSUME IInv, NEW k \in Sockets, SessionStarts(k) \/ SessionEnds(k)
  PROVE  Preserved
<1>1. CASE SessionStarts(k)
  <2> USE <1>1 DEF SessionStarts, Heard
  <2>1. IInv'
    BY DEF IInv, TypeOK, InOrder, RegisteredWasServed, ReplacesAnOlder,
           SessionsAreServed, CommandsHaveAReader, Registered
  <2>2. Dropping /\ Sparing
    BY DEF Dropping, Sparing, IInv, TypeOK
  <2> QED BY <2>1, <2>2 DEF Preserved
<1>2. CASE SessionEnds(k)
  <2> USE <1>2 DEF SessionEnds, FileAndClear
  <2>1. IInv'
    BY DEF IInv, TypeOK, InOrder, RegisteredWasServed, ReplacesAnOlder,
           SessionsAreServed, CommandsHaveAReader, Registered
  <2>2. Dropping /\ Sparing
    BY DEF Dropping, Sparing, IInv, TypeOK
  <2> QED BY <2>1, <2>2 DEF Preserved
<1> QED BY <1>1, <1>2

(* The audio socket comes and goes, and a connection may be lost.          *)
LEMMA SocketStep ==
  ASSUME IInv,
         AudioConnects
           \/ \E k \in Sockets : AudioDisconnects(k) \/ ConnectionLost(k)
  PROVE  Preserved
<1>1. UNCHANGED <<phase, target, bound, active, session, filed>>
  BY DEF AudioConnects, AudioDisconnects, ConnectionLost
<1>2. /\ audio' \in [Sockets -> BOOLEAN] /\ open' \in [Sockets -> BOOLEAN]
      /\ \A k \in Sockets : open'[k] => open[k]
  BY DEF AudioConnects, AudioDisconnects, ConnectionLost, Registered, IInv,
         TypeOK
<1>3. IInv'
  BY <1>1, <1>2
     DEF IInv, TypeOK, InOrder, RegisteredWasServed, ReplacesAnOlder,
         SessionsAreServed, CommandsHaveAReader, Registered
<1>4. Dropping /\ Sparing
  BY <1>1 DEF Dropping, Sparing
<1> QED BY <1>3, <1>4 DEF Preserved

-----------------------------------------------------------------------------

LEMMA Inductive == IInv /\ [Next]_cvars => Preserved
<1> SUFFICES ASSUME IInv, [Next]_cvars PROVE Preserved
  OBVIOUS
<1>1. ASSUME NEW k \in Sockets, Handler(k) PROVE Preserved
  BY <1>1, AudioClosedStep, ControlClosedStep, StartStep, HandlerEndsStep
     DEF Handler
<1>2. ASSUME NEW k \in Sockets, Events(k) PROVE Preserved
  BY <1>2, ConnectStep, BeginReplacementStep, SessionStep, SocketStep
     DEF Events
<1>3. CASE AudioConnects
  BY <1>3, SocketStep
<1>4. CASE UNCHANGED cvars
  <2>1. IInv'
    BY <1>4
       DEF cvars, IInv, TypeOK, InOrder, RegisteredWasServed, ReplacesAnOlder,
           SessionsAreServed, CommandsHaveAReader, Registered
  <2>2. Dropping /\ Sparing
    BY <1>4 DEF cvars, Dropping, Sparing
  <2> QED BY <2>1, <2>2 DEF Preserved
<1> QED BY <1>1, <1>2, <1>3, <1>4 DEF Next

LEMMA Invariance == Spec => []IInv
<1>1. IInv /\ [Next]_cvars => IInv'
  BY Inductive DEF Preserved
<1> QED BY <1>1, InitIsInvariant, PTL DEF Spec

(* Every variable of the coroutines and runtimes keeps its type.           *)
THEOREM ConnectionTypes == Spec => []TypeOK
<1>1. IInv => TypeOK
  BY DEF IInv
<1> QED BY <1>1, Invariance, PTL

(* No session outlives the coroutine of its connection, whichever of its   *)
(* ways out handle_websocket takes.                                        *)
THEOREM SessionsEndWithHandler == Spec => []NoSessionOutlivesHandler
<1>1. IInv => NoSessionOutlivesHandler
  BY DEF IInv, SessionsAreServed, NoSessionOutlivesHandler
<1> QED BY <1>1, Invariance, PTL

(* A command sent to the registered runtime finds somebody to read its     *)
(* acknowledgement.                                                        *)
THEOREM RegisteredIsRead == Spec => []CommandsHaveAReader
<1>1. IInv => CommandsHaveAReader
  BY DEF IInv
<1> QED BY <1>1, Invariance, PTL

(* _replace_endpoint_runtime takes apart the runtime it looked up before   *)
(* its awaits, never that of a later connection.                           *)
THEOREM ReplacementsSpareNewer == Spec => NewerConnectionsSpared
<1>1. IInv /\ [Next]_cvars => [Sparing]_cvars
  BY Inductive DEF Preserved
<1>2. Spec => [][Sparing]_cvars
  BY <1>1, Invariance, PTL DEF Spec
<1> QED BY <1>2 DEF NewerConnectionsSpared, Sparing

(* A session that is dropped without a record began while its connection   *)
(* was being replaced; every other one is filed.                           *)
THEOREM DropsAreReplacements == Spec => DroppedOnlyDuringReplacement
<1>1. IInv /\ [Next]_cvars => [Dropping]_cvars
  BY Inductive DEF Preserved
<1>2. Spec => [][Dropping]_cvars
  BY <1>1, Invariance, PTL DEF Spec
<1> QED BY <1>2 DEF DroppedOnlyDuringReplacement, Dropping
-----------------------------------------------------------------------------
(* The engines and the heartbeat *)

Few == UNION {[1 .. n -> Choices] : n \in 0 .. 2}

BeatRecord == [pc : {"idle", "health", "register", "registering", "heartbeat", "beating"},
               id : NodeIds \cup {NoNodeId}, state : ProviderStates, yes : BOOLEAN]
EditRecord == [pc : {"idle", "stt", "file", "env", "put", "clear", "store"}, todo : Few, choice : Choices]
TaskRecord == [pc : {"idle", "sleep", "put"}, todo : Few, tries : 0 .. MaxTries - 1]

SupervisorTypes ==
  /\ identity \in [id : NodeIds \cup {NoNodeId}, ready : BOOLEAN]
  /\ overseer \in [mood : {"ready", "flaky", "down"}, known : [NodeIds -> ProviderStates]]
  /\ link \in [registered : BOOLEAN, error : BOOLEAN]
  /\ beats \in [Beats -> BeatRecord]

(* A heartbeat that is under way is one of a node with an id, and a task   *)
(* that asks an engine has something left to ask it for.                   *)
RuntimeInv ==
  /\ SupervisorTypes
  /\ \A b \in Beats : beats[b].pc # "idle" => beats[b].id \in NodeIds
  /\ savedChoice \in [{"stt", "tts"} -> Choices \cup {Off}]
  /\ settings \in [voice : Choices \cup {Off}, restart : BOOLEAN] /\ envVoice \in Choices
  /\ engines \in [EngineIds -> Choices \cup {Off}] /\ disk \subseteq Choices
  /\ edits \in [Edits -> EditRecord] /\ reconciles \in [Reconciles -> TaskRecord]
  /\ \A r \in Reconciles : reconciles[r].pc = "put" => reconciles[r].todo # <<>>

LEMMA FewIs ==
  /\ <<>> \in Few
  /\ \A c, w \in Choices : RequestsFor(c, w) \in Few /\ RequestsFor(c, w) # <<>>
  /\ \A todo \in Few : todo # <<>> =>
       /\ Head(todo) \in Choices /\ Tail(todo) \in Few
       /\ Len(todo) # 1 => Tail(todo) # <<>>
<1>1. ASSUME NEW todo \in Seq(Choices), Len(todo) <= 2 PROVE todo \in Few
  <2>1. todo \in [1 .. Len(todo) -> Choices] /\ Len(todo) \in Nat
    BY LenProperties
  <2>2. Len(todo) \in 0 .. 2
    BY <1>1, <2>1
  <2> QED BY <2>1, <2>2 DEF Few
<1>2. ASSUME NEW todo \in Few PROVE todo \in Seq(Choices) /\ Len(todo) <= 2
  <2>1. PICK n \in 0 .. 2 : todo \in [1 .. n -> Choices]
    BY DEF Few
  <2>2. todo \in Seq(Choices) /\ Len(todo) = n
    BY <2>1
  <2> QED BY <2>2
<1>3. <<>> \in Few
  <2>1. <<>> \in Seq(Choices) /\ Len(<<>>) <= 2
    OBVIOUS
  <2> QED BY <1>1, <2>1
<1>4. \A c, w \in Choices : RequestsFor(c, w) \in Few /\ RequestsFor(c, w) # <<>>
  <2> TAKE c, w \in Choices
  <2>1. <<c>> \in Seq(Choices) /\ Len(<<c>>) <= 2 /\ <<c>> # <<>>
    OBVIOUS
  <2>2. <<w, c>> \in Seq(Choices) /\ Len(<<w, c>>) <= 2 /\ <<w, c>> # <<>>
    OBVIOUS
  <2> QED BY <1>1, <2>1, <2>2 DEF RequestsFor
<1>5. ASSUME NEW todo \in Few, todo # <<>>
      PROVE  /\ Head(todo) \in Choices /\ Tail(todo) \in Few
             /\ Len(todo) # 1 => Tail(todo) # <<>>
  <2>1. todo \in Seq(Choices) /\ Len(todo) <= 2
    BY <1>2
  <2>2. Head(todo) \in Choices /\ Tail(todo) \in Seq(Choices) /\ Len(Tail(todo)) = Len(todo) - 1
    BY <1>5, <2>1, HeadTailProperties
  <2>3. Len(todo) \in Nat /\ Len(todo) # 0
    BY <1>5, <2>1, EmptySeq
  <2>4. Len(Tail(todo)) <= 2
    BY <2>1, <2>2, <2>3
  <2>5. Tail(todo) \in Few
    BY <1>1, <2>2, <2>4
  <2>6. Len(todo) # 1 => Len(Tail(todo)) # 0
    BY <2>2, <2>3
  <2>7. Len(todo) # 1 => Tail(todo) # <<>>
    BY <2>2, <2>6, EmptySeq
  <2> QED BY <2>2, <2>5, <2>7
<1> QED BY <1>3, <1>4, <1>5

LEMMA RestIs ==
  /\ Resting \in BeatRecord /\ Resting.pc = "idle"
  /\ Finished \in EditRecord
  /\ Unasked \in TaskRecord /\ Unasked.pc = "idle"
  /\ [Unasked EXCEPT !.pc = "sleep"] \in TaskRecord /\ [Unasked EXCEPT !.pc = "sleep"].pc = "sleep"
<1>1. 0 \in 0 .. MaxTries - 1
  BY RuntimeAssumption
<1> QED BY <1>1, FewIs, RuntimeAssumption
        DEF Resting, Finished, Unasked, BeatRecord, EditRecord, TaskRecord, ProviderStates

LEMMA RuntimeInitInv == RuntimeInit => RuntimeInv
<1> SUFFICES ASSUME RuntimeInit PROVE RuntimeInv
  OBVIOUS
<1>1. beats \in [Beats -> BeatRecord] /\ \A b \in Beats : beats[b].pc = "idle"
  BY RestIs DEF RuntimeInit
<1>2. edits \in [Edits -> EditRecord]
  BY RestIs DEF RuntimeInit
<1>3. reconciles \in [Reconciles -> TaskRecord] /\ \A r \in Reconciles : reconciles[r].pc = "idle"
  BY RestIs DEF RuntimeInit
<1>4. SupervisorTypes
  BY <1>1 DEF RuntimeInit, SupervisorTypes, ProviderStates
<1> QED BY <1>1, <1>2, <1>3, <1>4, RuntimeAssumption DEF RuntimeInit, RuntimeInv

(* The heartbeats, the node's identity and the Supervisor.                 *)
LEMMA BeatPut ==
  ASSUME RuntimeInv, NEW b \in Beats, NEW beat \in BeatRecord, beat.pc # "idle" => beat.id \in NodeIds,
         beats' = [beats EXCEPT ![b] = beat], UNCHANGED providing, UNCHANGED identity,
         overseer' \in [mood : {"ready", "flaky", "down"}, known : [NodeIds -> ProviderStates]],
         link' \in [registered : BOOLEAN, error : BOOLEAN]
  PROVE  RuntimeInv'
<1>1. beats' \in [Beats -> BeatRecord] /\ \A c \in Beats : beats'[c].pc # "idle" => beats'[c].id \in NodeIds
  BY DEF RuntimeInv, SupervisorTypes
<1> QED BY <1>1 DEF RuntimeInv, SupervisorTypes, providing

LEMMA BeatKeeps ==
  ASSUME RuntimeInv, NEW b \in Beats, BeatStarts(b) \/ BeatContinues(b)
  PROVE  RuntimeInv'
<1>1. beats[b] \in BeatRecord /\ (beats[b].pc # "idle" => beats[b].id \in NodeIds)
  BY DEF RuntimeInv, SupervisorTypes
<1>2. /\ overseer \in [mood : {"ready", "flaky", "down"}, known : [NodeIds -> ProviderStates]]
      /\ link \in [registered : BOOLEAN, error : BOOLEAN]
      /\ identity \in [id : NodeIds \cup {NoNodeId}, ready : BOOLEAN]
  BY DEF RuntimeInv, SupervisorTypes
<1>3. CASE BeatStarts(b)
  <2> DEFINE beat == [pc |-> "health", id |-> identity.id, state |-> RuntimeState, yes |-> FALSE]
  <2>1. beat \in BeatRecord /\ beat.id \in NodeIds
    BY <1>2, <1>3 DEF BeatStarts, BeatRecord, RuntimeState, ProviderStates
  <2>2. beats' = [beats EXCEPT ![b] = beat] /\ UNCHANGED providing /\ UNCHANGED <<identity, overseer, link>>
    BY <1>3 DEF BeatStarts
  <2> HIDE DEF beat
  <2> QED BY <1>2, <2>1, <2>2, BeatPut
<1>4. CASE HealthIsHeard(b)
  <2>1. CASE overseer.mood \in {"ready", "flaky"}
    <3> DEFINE beat == [beats[b] EXCEPT !.pc = IF link.registered THEN "heartbeat" ELSE "register"]
    <3>1. beat \in BeatRecord /\ beat.id \in NodeIds
      BY <1>1, <1>4 DEF HealthIsHeard, BeatRecord
    <3>2. beats' = [beats EXCEPT ![b] = beat] /\ UNCHANGED providing /\ UNCHANGED <<identity, overseer, link>>
      BY <1>4, <2>1 DEF HealthIsHeard
    <3> HIDE DEF beat
    <3> QED BY <1>2, <3>1, <3>2, BeatPut
  <2>2. CASE overseer.mood \notin {"ready", "flaky"}
    <3>1. /\ beats' = [beats EXCEPT ![b] = Resting] /\ UNCHANGED providing /\ UNCHANGED <<identity, overseer>>
          /\ link' = [registered |-> FALSE, error |-> TRUE]
      BY <1>4, <2>2 DEF HealthIsHeard
    <3> QED BY <1>2, <3>1, BeatPut, RestIs
  <2> QED BY <2>1, <2>2
<1>5. ASSUME NEW pc \in {"registering", "beating"}, NEW done \in BOOLEAN, beats[b].pc # "idle",
             UNCHANGED <<identity, link, providing>>,
             \E yes \in Answers(done) : beats' = [beats EXCEPT ![b].pc = pc, ![b].yes = yes],
             overseer' = overseer \/ overseer' = [overseer EXCEPT !.known[beats[b].id] = beats[b].state]
      PROVE  RuntimeInv'
  <2>1. PICK yes \in BOOLEAN : beats' = [beats EXCEPT ![b].pc = pc, ![b].yes = yes]
    BY <1>5 DEF Answers
  <2> DEFINE beat == [beats[b] EXCEPT !.pc = pc, !.yes = yes]
  <2>2. beat \in BeatRecord /\ beat.id \in NodeIds
    BY <1>1, <1>5 DEF BeatRecord
  <2>3. beats' = [beats EXCEPT ![b] = beat]
    BY <1>1, <2>1 DEF RuntimeInv, SupervisorTypes
  <2>4. overseer' \in [mood : {"ready", "flaky", "down"}, known : [NodeIds -> ProviderStates]]
    BY <1>1, <1>2, <1>5 DEF BeatRecord
  <2> HIDE DEF beat
  <2> QED BY <1>2, <1>5, <2>2, <2>3, <2>4, BeatPut
<1>6. CASE RegisterIsSent(b)
  <2> DEFINE up == overseer.mood \in {"ready", "flaky"}
  <2>1. up \in BOOLEAN /\ beats[b].pc # "idle" /\ UNCHANGED <<identity, link, providing>>
    BY <1>6 DEF RegisterIsSent
  <2>2. \E yes \in Answers(up) : beats' = [beats EXCEPT ![b].pc = "registering", ![b].yes = yes]
    BY <1>6, Zenon DEF RegisterIsSent
  <2>3. overseer' = overseer \/ overseer' = [overseer EXCEPT !.known[beats[b].id] = beats[b].state]
    BY <1>6 DEF RegisterIsSent
  <2> HIDE DEF up
  <2> QED BY <1>5, <2>1, <2>2, <2>3
<1>7. CASE HeartbeatIsSent(b)
  BY <1>5, <1>7 DEF HeartbeatIsSent
<1>8. CASE RegisterIsHeard(b)
  <2>1. CASE beats[b].yes
    <3> DEFINE beat == [beats[b] EXCEPT !.pc = "heartbeat"]
    <3>1. beat \in BeatRecord /\ beat.id \in NodeIds
      BY <1>1, <1>8 DEF RegisterIsHeard, BeatRecord
    <3>2. /\ beats' = [beats EXCEPT ![b] = beat] /\ UNCHANGED providing /\ UNCHANGED <<identity, overseer>>
          /\ link' = [link EXCEPT !.registered = TRUE]
      BY <1>8, <2>1 DEF RegisterIsHeard
    <3> HIDE DEF beat
    <3> QED BY <1>2, <3>1, <3>2, BeatPut
  <2>2. CASE ~ beats[b].yes
    <3>1. /\ beats' = [beats EXCEPT ![b] = Resting] /\ UNCHANGED providing /\ UNCHANGED <<identity, overseer>>
          /\ link' = [link EXCEPT !.error = TRUE]
      BY <1>8, <2>2 DEF RegisterIsHeard
    <3> QED BY <1>2, <3>1, BeatPut, RestIs
  <2> QED BY <2>1, <2>2
<1>9. CASE HeartbeatIsHeard(b)
  <2>1. /\ beats' = [beats EXCEPT ![b] = Resting] /\ UNCHANGED providing /\ UNCHANGED <<identity, overseer>>
        /\ link' = AfterHeartbeat(beats[b].yes)
    BY <1>9 DEF HeartbeatIsHeard
  <2>2. beats[b].yes \in BOOLEAN
    BY <1>1 DEF BeatRecord
  <2>3. link' \in [registered : BOOLEAN, error : BOOLEAN]
    BY <1>2, <2>1, <2>2 DEF AfterHeartbeat
  <2> QED BY <1>2, <2>1, <2>3, BeatPut, RestIs
<1> QED BY <1>3, <1>4, <1>6, <1>7, <1>8, <1>9 DEF BeatContinues

LEMMA SupervisorKeeps ==
  ASSUME RuntimeInv, SupervisorNext PROVE RuntimeInv'
<1>1. CASE IdentityChanges
  BY <1>1 DEF IdentityChanges, RuntimeInv, SupervisorTypes, providing
<1>2. CASE SupervisorChanges
  <2>1. /\ UNCHANGED <<identity, link, beats, providing>>
        /\ overseer' \in [mood : {"ready", "flaky", "down"}, known : [NodeIds -> ProviderStates]]
    BY <1>2 DEF SupervisorChanges, RuntimeInv, SupervisorTypes, ProviderStates
  <2> QED BY <2>1 DEF RuntimeInv, SupervisorTypes, providing
<1> QED BY <1>1, <1>2, BeatKeeps DEF SupervisorNext

(* The settings, the engines and the tasks.                                *)
LEMMA BootsIs ==
  ASSUME RuntimeInv, NEW s \in EngineIds PROVE Boots(s) \in Choices
BY RuntimeAssumption DEF Boots, RuntimeInv, EngineIds

LEMMA EngineRuns ==
  ASSUME RuntimeInv, NEW s \in EngineIds, NEW c \in Choices \cup {Off}
  PROVE  [engines EXCEPT ![s] = c] \in [EngineIds -> Choices \cup {Off}]
BY DEF RuntimeInv

LEMMA EditsKeep ==
  ASSUME RuntimeInv, NEW e \in Edits,
         SttIsTold(e) \/ SettingsAreWritten(e) \/ EnvironmentIsWritten(e) \/ PiperIsTold(e)
           \/ ClearingReads(e) \/ ClearingWrites(e)
  PROVE  RuntimeInv'
<1>1. edits[e] \in EditRecord /\ edits \in [Edits -> EditRecord]
  BY DEF RuntimeInv
<1>2. /\ UNCHANGED supervising /\ UNCHANGED <<savedChoice, disk, reconciles>>
  BY DEF SttIsTold, SettingsAreWritten, EnvironmentIsWritten, PiperIsTold, ClearingReads, ClearingWrites
<1>3. ASSUME NEW edit \in EditRecord, edits' = [edits EXCEPT ![e] = edit],
             settings' \in [voice : Choices \cup {Off}, restart : BOOLEAN], envVoice' \in Choices,
             engines' \in [EngineIds -> Choices \cup {Off}]
      PROVE  RuntimeInv'
  <2>1. edits' \in [Edits -> EditRecord]
    BY <1>1, <1>3
  <2> QED BY <1>2, <1>3, <2>1 DEF RuntimeInv, SupervisorTypes, supervising
<1>4. /\ settings \in [voice : Choices \cup {Off}, restart : BOOLEAN] /\ envVoice \in Choices
      /\ engines \in [EngineIds -> Choices \cup {Off}]
  BY DEF RuntimeInv
<1>5. edits[e].choice \in Choices /\ edits[e].todo \in Few
  BY <1>1 DEF EditRecord
<1>6. CASE SttIsTold(e)
  <2>1. UNCHANGED <<settings, envVoice>>
    BY <1>6 DEF SttIsTold
  <2>2. CASE engines["stt"] = Off \/ edits[e].todo = <<>>
    <3>1. edits' = [edits EXCEPT ![e] = Finished] /\ engines' = engines
      BY <1>6, <2>2 DEF SttIsTold
    <3> QED BY <1>3, <1>4, <2>1, <3>1, RestIs
  <2>3. CASE ~ (engines["stt"] = Off \/ edits[e].todo = <<>>)
    <3> DEFINE edit == [edits[e] EXCEPT !.todo = Tail(edits[e].todo)]
    <3>1. edits' = [edits EXCEPT ![e] = edit] /\ engines' = [engines EXCEPT !["stt"] = Head(edits[e].todo)]
      BY <1>6, <2>3 DEF SttIsTold
    <3>2. Head(edits[e].todo) \in Choices /\ Tail(edits[e].todo) \in Few
      BY <1>5, <2>3, FewIs
    <3>3. edit \in EditRecord
      BY <1>1, <3>2 DEF EditRecord
    <3>4. engines' \in [EngineIds -> Choices \cup {Off}]
      BY <1>4, <3>1, <3>2 DEF EngineIds
    <3> HIDE DEF edit
    <3> QED BY <1>3, <1>4, <2>1, <3>1, <3>3, <3>4
  <2> QED BY <2>2, <2>3
<1>7. ASSUME NEW pc \in {"env", "put", "clear"} PROVE [edits[e] EXCEPT !.pc = pc] \in EditRecord
  BY <1>1 DEF EditRecord
<1>8. CASE SettingsAreWritten(e)
  <2>1. /\ edits' = [edits EXCEPT ![e] = [edits[e] EXCEPT !.pc = "env"]]
        /\ settings' = [voice |-> edits[e].choice, restart |-> TRUE] /\ UNCHANGED <<envVoice, engines>>
    BY <1>8 DEF SettingsAreWritten
  <2> QED BY <1>3, <1>4, <1>5, <1>7, <2>1
<1>9. CASE EnvironmentIsWritten(e)
  <2>1. /\ edits' = [edits EXCEPT ![e] = [edits[e] EXCEPT !.pc = "put"]]
        /\ envVoice' = edits[e].choice /\ UNCHANGED <<settings, engines>>
    BY <1>9 DEF EnvironmentIsWritten
  <2> QED BY <1>3, <1>4, <1>5, <1>7, <2>1
<1>10. CASE PiperIsTold(e)
  <2>1. UNCHANGED <<settings, envVoice>>
    BY <1>10 DEF PiperIsTold
  <2>2. engines' \in {engines, [engines EXCEPT !["tts"] = edits[e].choice]}
    BY <1>10 DEF PiperIsTold
  <2>3. engines' \in [EngineIds -> Choices \cup {Off}]
    BY <1>4, <1>5, <2>2 DEF EngineIds
  <2>4. \/ edits' = [edits EXCEPT ![e] = Finished]
        \/ edits' = [edits EXCEPT ![e] = [edits[e] EXCEPT !.pc = "clear"]]
    BY <1>10 DEF PiperIsTold
  <2> QED BY <1>3, <1>4, <1>7, <2>1, <2>3, <2>4, RestIs
<1>11. CASE ClearingReads(e)
  <2>1. UNCHANGED <<settings, envVoice, engines>>
    BY <1>11 DEF ClearingReads
  <2>2. CASE settings.voice = Off
    <3>1. edits' = [edits EXCEPT ![e] = Finished]
      BY <1>11, <2>2 DEF ClearingReads
    <3> QED BY <1>3, <1>4, <2>1, <3>1, RestIs
  <2>3. CASE settings.voice # Off
    <3> DEFINE edit == [edits[e] EXCEPT !.pc = "store", !.choice = settings.voice]
    <3>1. edits' = [edits EXCEPT ![e] = edit]
      BY <1>11, <2>3 DEF ClearingReads
    <3>2. edit \in EditRecord
      BY <1>1, <1>4, <2>3 DEF EditRecord
    <3> HIDE DEF edit
    <3> QED BY <1>3, <1>4, <2>1, <3>1, <3>2
  <2> QED BY <2>2, <2>3
<1>12. CASE ClearingWrites(e)
  <2>1. /\ edits' = [edits EXCEPT ![e] = Finished]
        /\ settings' = [voice |-> edits[e].choice, restart |-> FALSE] /\ UNCHANGED <<envVoice, engines>>
    BY <1>12 DEF ClearingWrites
  <2> QED BY <1>3, <1>4, <1>5, <2>1, RestIs
<1> QED BY <1>6, <1>8, <1>9, <1>10, <1>11, <1>12

LEMMA SavesKeep ==
  ASSUME RuntimeInv, NEW p \in {"stt", "tts"}, NEW c \in Choices,
         SaveSetup(p, c) \/ \E e \in Edits : SaveChoice(e, p, c)
  PROVE  RuntimeInv'
<1>1. [savedChoice EXCEPT ![p] = c] \in [{"stt", "tts"} -> Choices \cup {Off}]
  BY DEF RuntimeInv
<1>2. CASE SaveSetup(p, c)
  BY <1>1, <1>2 DEF SaveSetup, RuntimeInv, SupervisorTypes, supervising
<1>3. ASSUME NEW e \in Edits, SaveChoice(e, p, c) PROVE RuntimeInv'
  <2>1. savedChoice' \in [{"stt", "tts"} -> Choices \cup {Off}]
    BY <1>1, <1>3 DEF SaveChoice, RuntimeInv
  <2>2. PICK warm \in Choices :
          edits' = [edits EXCEPT ![e] = [pc |-> IF p = "stt" THEN "stt" ELSE "file",
                      todo |-> IF p = "stt" THEN RequestsFor(c, warm) ELSE <<>>, choice |-> c]]
    BY <1>3 DEF SaveChoice
  <2> DEFINE edit == [pc |-> IF p = "stt" THEN "stt" ELSE "file",
                      todo |-> IF p = "stt" THEN RequestsFor(c, warm) ELSE <<>>, choice |-> c]
  <2>3. edit \in EditRecord
    BY FewIs DEF EditRecord
  <2>4. edits' \in [Edits -> EditRecord]
    BY <2>2, <2>3 DEF RuntimeInv
  <2>5. UNCHANGED supervising /\ UNCHANGED <<settings, envVoice, engines, disk, reconciles>>
    BY <1>3 DEF SaveChoice
  <2> HIDE DEF edit
  <2> QED BY <2>1, <2>4, <2>5 DEF RuntimeInv, SupervisorTypes, supervising
<1> QED BY <1>2, <1>3

LEMMA ActionsKeep ==
  ASSUME RuntimeInv, NEW s \in EngineIds, NEW a, ServiceAction(s, a) PROVE RuntimeInv'
<1>1. Boots(s) \in Choices
  BY BootsIs
<1>2. engines' \in [EngineIds -> Choices \cup {Off}]
  BY <1>1 DEF ServiceAction, RuntimeInv
<1>3. disk' \subseteq Choices
  BY <1>1 DEF ServiceAction, RuntimeInv
<1>4. /\ reconciles' \in [Reconciles -> TaskRecord]
      /\ \A r \in Reconciles : reconciles'[r].pc = "put" => reconciles'[r].todo # <<>>
  <2>1. CASE reconciles' = reconciles
    BY <2>1 DEF RuntimeInv
  <2>2. ASSUME NEW r \in Reconciles, reconciles' = [reconciles EXCEPT ![r].pc = "sleep"]
        PROVE  <1>4!1 /\ <1>4!2
    <3> DEFINE task == [reconciles[r] EXCEPT !.pc = "sleep"]
    <3>1. task \in TaskRecord /\ task.pc = "sleep"
      BY DEF RuntimeInv, TaskRecord
    <3>2. reconciles' = [reconciles EXCEPT ![r] = task]
      BY <2>2
    <3> HIDE DEF task
    <3> QED BY <3>1, <3>2 DEF RuntimeInv
  <2> QED BY <2>1, <2>2 DEF ServiceAction
<1>5. edits' \in [Edits -> EditRecord]
  <2>1. CASE edits' = edits
    BY <2>1 DEF RuntimeInv
  <2>2. ASSUME NEW e \in Edits, edits' = [edits EXCEPT ![e].pc = "clear"]
        PROVE  edits' \in [Edits -> EditRecord]
    <3> DEFINE edit == [edits[e] EXCEPT !.pc = "clear"]
    <3>1. edit \in EditRecord
      BY DEF RuntimeInv, EditRecord
    <3>2. edits' = [edits EXCEPT ![e] = edit]
      BY <2>2
    <3> HIDE DEF edit
    <3> QED BY <3>1, <3>2 DEF RuntimeInv
  <2> QED BY <2>1, <2>2 DEF ServiceAction
<1>6. UNCHANGED supervising /\ UNCHANGED <<savedChoice, settings, envVoice>>
  BY DEF ServiceAction
<1> QED BY <1>2, <1>3, <1>4, <1>5, <1>6 DEF RuntimeInv, SupervisorTypes, supervising

(* A task's next record, and what the engines then run.                    *)
LEMMA TaskPut ==
  ASSUME RuntimeInv, NEW r \in Reconciles, NEW task \in TaskRecord,
         task.pc = "put" => task.todo # <<>>,
         reconciles' = [reconciles EXCEPT ![r] = task],
         engines' \in [EngineIds -> Choices \cup {Off}],
         UNCHANGED supervising, UNCHANGED <<savedChoice, settings, envVoice, disk, edits>>
  PROVE  RuntimeInv'
<1>1. /\ reconciles' \in [Reconciles -> TaskRecord]
      /\ \A q \in Reconciles : reconciles'[q].pc = "put" => reconciles'[q].todo # <<>>
  BY DEF RuntimeInv
<1> QED BY <1>1 DEF RuntimeInv, SupervisorTypes, supervising

LEMMA ReconcilesKeep ==
  ASSUME RuntimeInv, NEW r \in Reconciles, ReconcileReads(r) \/ ReconcileTells(r)
  PROVE  RuntimeInv'
<1>1. /\ reconciles[r] \in TaskRecord /\ (reconciles[r].pc = "put" => reconciles[r].todo # <<>>)
      /\ engines \in [EngineIds -> Choices \cup {Off}]
  BY DEF RuntimeInv
<1>2. reconciles[r].todo \in Few /\ reconciles[r].tries \in 0 .. MaxTries - 1
  BY <1>1 DEF TaskRecord
<1>3. UNCHANGED supervising /\ UNCHANGED <<savedChoice, settings, envVoice, disk, edits>>
  BY DEF ReconcileReads, ReconcileTells
<1>4. CASE ReconcileReads(r)
  <2>1. PICK warm \in Choices : reconciles' = [reconciles EXCEPT ![r] =
          IF savedChoice["stt"] = Off THEN Unasked
          ELSE [pc |-> "put", todo |-> RequestsFor(savedChoice["stt"], warm), tries |-> 0]]
    BY <1>4 DEF ReconcileReads
  <2>2. engines' = engines
    BY <1>4 DEF ReconcileReads
  <2>3. CASE savedChoice["stt"] = Off
    BY <1>1, <1>3, <2>1, <2>2, <2>3, TaskPut, RestIs
  <2>4. CASE savedChoice["stt"] # Off
    <3> DEFINE task == [pc |-> "put", todo |-> RequestsFor(savedChoice["stt"], warm), tries |-> 0]
    <3>1. savedChoice["stt"] \in Choices
      BY <2>4 DEF RuntimeInv
    <3>2. 0 \in 0 .. MaxTries - 1
      BY RuntimeAssumption
    <3>3. task \in TaskRecord /\ task.todo # <<>>
      BY <3>1, <3>2, FewIs DEF TaskRecord
    <3>4. reconciles' = [reconciles EXCEPT ![r] = task]
      BY <2>1, <2>4
    <3> HIDE DEF task
    <3> QED BY <1>1, <1>3, <2>2, <3>3, <3>4, TaskPut
  <2> QED BY <2>3, <2>4
<1>5. CASE ReconcileTells(r)
  <2>1. reconciles[r].pc = "put"
    BY <1>5 DEF ReconcileTells
  <2>2. CASE engines["stt"] = Off
    <3>1. engines' = engines
      BY <1>5, <2>2 DEF ReconcileTells
    <3>2. CASE LastTry(reconciles[r].tries)
      <4>1. reconciles' = [reconciles EXCEPT ![r] = Unasked]
        BY <1>5, <2>2, <3>2 DEF ReconcileTells
      <4> QED BY <1>1, <1>3, <3>1, <4>1, TaskPut, RestIs
    <3>3. CASE ~ LastTry(reconciles[r].tries)
      <4> DEFINE task == [reconciles[r] EXCEPT !.tries = reconciles[r].tries + 1]
      <4>1. reconciles' = [reconciles EXCEPT ![r] = task]
        BY <1>5, <2>2, <3>3 DEF ReconcileTells
      <4>2. reconciles[r].tries + 1 \in 0 .. MaxTries - 1
        BY <1>2, <3>3, RuntimeAssumption DEF LastTry
      <4>3. task \in TaskRecord /\ task.todo = reconciles[r].todo
        BY <1>1, <4>2 DEF TaskRecord
      <4> HIDE DEF task
      <4> QED BY <1>1, <1>3, <2>1, <3>1, <4>1, <4>3, TaskPut
    <3> QED BY <3>2, <3>3
  <2>3. CASE engines["stt"] # Off
    <3>1. Head(reconciles[r].todo) \in Choices /\ Tail(reconciles[r].todo) \in Few
      BY <1>1, <1>2, <2>1, FewIs
    <3>2. engines' = [engines EXCEPT !["stt"] = Head(reconciles[r].todo)]
      BY <1>5, <2>3 DEF ReconcileTells
    <3>3. engines' \in [EngineIds -> Choices \cup {Off}]
      BY <1>1, <3>1, <3>2
    <3>4. CASE Len(reconciles[r].todo) = 1
      <4>1. reconciles' = [reconciles EXCEPT ![r] = Unasked]
        BY <1>5, <2>3, <3>4 DEF ReconcileTells
      <4> QED BY <1>1, <1>3, <3>3, <4>1, TaskPut, RestIs
    <3>5. CASE Len(reconciles[r].todo) # 1
      <4> DEFINE task == [reconciles[r] EXCEPT !.todo = Tail(reconciles[r].todo)]
      <4>1. reconciles' = [reconciles EXCEPT ![r] = task]
        BY <1>5, <2>3, <3>5 DEF ReconcileTells
      <4>2. task \in TaskRecord /\ task.todo = Tail(reconciles[r].todo)
        BY <1>1, <3>1 DEF TaskRecord
      <4>3. task.todo # <<>>
        BY <1>1, <1>2, <2>1, <3>5, <4>2, FewIs
      <4> HIDE DEF task
      <4> QED BY <1>3, <3>3, <4>1, <4>2, <4>3, TaskPut
    <3> QED BY <3>4, <3>5
  <2> QED BY <2>2, <2>3
<1> QED BY <1>4, <1>5

LEMMA ProvidersKeepTypes ==
  ASSUME RuntimeInv, ProviderNext PROVE RuntimeInv'
<1>1. ASSUME NEW s \in EngineIds, NEW c \in Choices \cup {Off}, engines' = [engines EXCEPT ![s] = c],
             UNCHANGED <<supervising, savedChoice, settings, envVoice, disk, edits, reconciles>>
      PROVE  RuntimeInv'
  <2>1. engines' \in [EngineIds -> Choices \cup {Off}]
    BY <1>1, EngineRuns
  <2> QED BY <1>1, <2>1 DEF RuntimeInv, SupervisorTypes, supervising
<1>2. ASSUME NEW s \in EngineIds, SetupApplies(s) \/ EngineFails(s) PROVE RuntimeInv'
  <2>1. Boots(s) \in Choices
    BY BootsIs
  <2> QED BY <1>1, <1>2, <2>1 DEF SetupApplies, EngineFails
<1> QED BY <1>2, SavesKeep, EditsKeep, ActionsKeep, ReconcilesKeep DEF ProviderNext

LEMMA RestartKeepsTypes ==
  ASSUME RuntimeInv, BackendRestarts PROVE RuntimeInv'
<1>1. /\ beats' = [b \in Beats |-> Resting] /\ edits' = [e \in Edits |-> Finished]
      /\ link' = [registered |-> FALSE, error |-> FALSE]
      /\ UNCHANGED <<identity, overseer, savedChoice, settings, envVoice, engines, disk>>
  BY DEF BackendRestarts
<1>2. beats' \in [Beats -> BeatRecord] /\ \A b \in Beats : beats'[b].pc = "idle"
  BY <1>1, RestIs
<1>3. edits' \in [Edits -> EditRecord]
  BY <1>1, RestIs
<1>4. PICK r \in Reconciles : reconciles' = [q \in Reconciles |->
                                IF q = r THEN [Unasked EXCEPT !.pc = "sleep"] ELSE Unasked]
  BY DEF BackendRestarts
<1>5. reconciles' \in [Reconciles -> TaskRecord] /\ \A q \in Reconciles : reconciles'[q].pc # "put"
  BY <1>4, RestIs
<1>6. link' \in [registered : BOOLEAN, error : BOOLEAN]
  BY <1>1
<1> QED BY <1>1, <1>2, <1>3, <1>5, <1>6 DEF RuntimeInv, SupervisorTypes

LEMMA RuntimeFrame == RuntimeInv /\ UNCHANGED runtimeVars => RuntimeInv'
BY DEF runtimeVars, RuntimeInv, SupervisorTypes

LEMMA RuntimeStep == RuntimeInv /\ RuntimeNext => RuntimeInv'
BY SupervisorKeeps, ProvidersKeepTypes, RestartKeepsTypes DEF RuntimeNext

LEMMA RuntimeShows == RuntimeInv => RuntimeTypeOK
BY DEF RuntimeInv, SupervisorTypes, RuntimeTypeOK, BeatRecord, EditRecord, TaskRecord, Few

(* A heartbeat is the node's: it is sent with an id that Core gave it.     *)
HeartbeatsHaveAnId == \A b \in Beats : beats[b].pc # "idle" => beats[b].id \in NodeIds

(* runtime/service.py, main.py: while choices are saved, engines fail and  *)
(* are restarted, every engine runs a model or a voice that was chosen, a  *)
(* task asks it for one that is left to ask for and ends after its tries,  *)
(* and no heartbeat is sent without the node's id.                         *)
THEOREM EnginesRunChoices == RuntimeSpec => [](RuntimeTypeOK /\ HeartbeatsHaveAnId)
<1>1. RuntimeInv /\ [RuntimeNext]_runtimeVars => RuntimeInv'
  BY RuntimeStep, RuntimeFrame
<1>2. RuntimeInv => HeartbeatsHaveAnId
  BY DEF RuntimeInv, HeartbeatsHaveAnId
<1> QED BY <1>1, <1>2, RuntimeInitInv, RuntimeShows, PTL DEF RuntimeSpec
-----------------------------------------------------------------------------
(* Piper's processes *)

PutRecord == [pc : {"idle", "workers", "stop", "start", "keep"}, old : SUBSET Workers,
              new : SUBSET Workers, voices : SUBSET Models]

OneForEach(workers) == \A v, w \in workers : v.model = w.model => v = w

PiperTypes ==
  /\ serving \in BOOLEAN /\ default \in Models /\ list \subseteq Voices
  /\ table \subseteq Workers /\ OneForEach(table)
  /\ made \in 0 .. MaxWorkers /\ running \subseteq Workers
  /\ puts \in [Puts -> PutRecord] /\ overlapped \in BOOLEAN

(* A request holds the workers it has to stop until it starts the others.  *)
PutSound(put) ==
  /\ put.pc \in {"idle", "workers", "start", "keep"} => put.old = {}

(* A request that works alone starts only workers the table has.           *)
AloneSound ==
  /\ \A p, q \in AtWork : p = q
  /\ \A p \in AtWork : puts[p].new \subseteq table
  /\ running \subseteq table \cup UNION {puts[p].old : p \in Puts}

PiperInv ==
  /\ PiperTypes
  /\ \A p \in Puts : PutSound(puts[p])
  /\ ~ serving => AtWork = {} /\ table = {} /\ running = {}
  /\ ~ overlapped => AloneSound

(* Workers of some models, one for each, while their number is free.       *)
LEMMA MadeWorkers ==
  ASSUME NEW models \in SUBSET Models, made \in 0 .. MaxWorkers, made < MaxWorkers
  PROVE  WorkersFor(models) \subseteq Workers /\ OneForEach(WorkersFor(models))
BY PiperAssumption DEF WorkersFor, Workers, OneForEach

LEMMA FilledIs ==
  ASSUME PiperTypes, Fills
  PROVE  /\ table' \subseteq Workers /\ OneForEach(table') /\ made' \in 0 .. MaxWorkers
         /\ table \subseteq table'
<1>1. CASE table # {}
  BY <1>1 DEF Fills, Filled, PiperTypes
<1>2. CASE table = {}
  <2> DEFINE models == {ModelFor(v) : v \in list}
  <2>1. models \subseteq Models
    BY DEF ModelFor, PiperTypes
  <2>2. CASE list = {}
    <3>1. table' = {}
      BY <1>2, <2>2 DEF Fills, Filled, WorkersFor
    <3>2. made' = made
      BY <1>2, <2>2 DEF Fills
    <3> QED BY <1>2, <3>1, <3>2 DEF OneForEach, PiperTypes
  <2>3. CASE list # {}
    <3>1. made < MaxWorkers /\ made' = made + 1
      BY <1>2, <2>3 DEF Fills
    <3>2. table' = WorkersFor(models)
      BY <1>2 DEF Fills, Filled
    <3>3. made \in 0 .. MaxWorkers
      BY DEF PiperTypes
    <3>4. WorkersFor(models) \subseteq Workers /\ OneForEach(WorkersFor(models))
      BY <2>1, <3>1, <3>3, MadeWorkers
    <3>5. made' \in 0 .. MaxWorkers
      BY <3>1, <3>3, PiperAssumption
    <3> QED BY <1>2, <3>2, <3>4, <3>5
  <2> QED BY <2>2, <2>3
<1> QED BY <1>1, <1>2

LEMMA PiperInitInv == PiperInit => PiperInv
<1> SUFFICES ASSUME PiperInit PROVE PiperInv
  OBVIOUS
<1>1. NoPut \in PutRecord /\ NoPut.pc = "idle" /\ NoPut.old = {} /\ NoPut.new = {}
  BY DEF NoPut, PutRecord
<1>2. AtWork = {}
  BY <1>1 DEF AtWork, PiperInit
<1>3. PiperTypes
  <2>1. puts \in [Puts -> PutRecord]
    BY <1>1 DEF PiperInit
  <2>2. made \in 0 .. MaxWorkers
    BY PiperAssumption DEF PiperInit
  <2> QED BY <2>1, <2>2 DEF PiperInit, PiperTypes, OneForEach
<1>4. \A p \in Puts : PutSound(puts[p])
  BY <1>1 DEF PiperInit, PutSound
<1> QED BY <1>2, <1>3, <1>4 DEF PiperInv, PiperInit, AloneSound

(* The container starts, ends, answers health, and loses a process.        *)
LEMMA ContainerKeeps ==
  ASSUME PiperInv, Boot \/ Shutdown \/ Health \/ ProcessEnds \/ RefuseConfig
  PROVE  PiperInv'
<1>1. puts' = puts /\ list' = list /\ AtWork' = AtWork
  BY DEF Boot, Shutdown, Health, ProcessEnds, RefuseConfig, AtWork
<1>2. UNION {puts'[p].old : p \in Puts} = UNION {puts[p].old : p \in Puts}
  BY <1>1
<1>3. CASE Boot
  <2>1. table' \subseteq Workers /\ OneForEach(table') /\ made' \in 0 .. MaxWorkers
    BY <1>3, FilledIs DEF Boot, PiperInv
  <2>2. AtWork' = {} /\ running' = table' /\ serving' = TRUE
    BY <1>1, <1>3 DEF Boot, PiperInv
  <2>3. AloneSound'
    BY <2>2 DEF AloneSound
  <2> QED BY <1>1, <1>3, <2>1, <2>2, <2>3 DEF Boot, PiperInv, PiperTypes, OneForEach
<1>4. CASE Shutdown
  <2>1. AtWork' = {} /\ table' = {} /\ running' = {} /\ made' = made
    BY <1>1, <1>4 DEF Shutdown
  <2>2. AloneSound' /\ OneForEach(table')
    BY <2>1 DEF AloneSound, OneForEach
  <2> QED BY <1>1, <1>4, <2>1, <2>2 DEF Shutdown, PiperInv, PiperTypes, OneForEach
<1>5. CASE Health
  <2>1. /\ table' \subseteq Workers /\ OneForEach(table') /\ made' \in 0 .. MaxWorkers
        /\ table \subseteq table'
    BY <1>5, FilledIs DEF Health, PiperInv
  <2>2. running' = running /\ overlapped' = overlapped /\ serving' = serving /\ serving /\ default' = default
    BY <1>5 DEF Health
  <2>3. AloneSound => AloneSound'
    BY <1>1, <1>2, <2>1, <2>2 DEF AloneSound
  <2> QED BY <1>1, <2>1, <2>2, <2>3 DEF PiperInv, PiperTypes, OneForEach
<1>6. CASE ProcessEnds
  <2>1. /\ running' \subseteq running /\ table' = table /\ made' = made /\ overlapped' = overlapped
        /\ serving' = serving /\ default' = default
    BY <1>6 DEF ProcessEnds
  <2>2. AloneSound => AloneSound'
    BY <1>1, <1>2, <2>1 DEF AloneSound
  <2> QED BY <1>1, <2>1, <2>2 DEF PiperInv, PiperTypes, OneForEach
<1>7. CASE RefuseConfig
  <2>1. /\ running' = running /\ table' = table /\ made' = made /\ overlapped' = overlapped
        /\ serving' = serving /\ default' \in Models
    BY <1>7 DEF RefuseConfig
  <2>2. AloneSound => AloneSound'
    BY <1>1, <1>2, <2>1 DEF AloneSound
  <2> QED BY <1>1, <2>1, <2>2 DEF PiperInv, PiperTypes, OneForEach
<1> QED BY <1>3, <1>4, <1>5, <1>6, <1>7

(* One request moves: what is left to show of it and of the processes.     *)
LEMMA PutMoves ==
  ASSUME PiperInv, NEW p \in Puts, NEW put \in PutRecord, PutSound(put),
         puts' = [puts EXCEPT ![p] = put], serving' = serving, serving,
         default' \in Models, list' \subseteq Voices,
         table' \subseteq Workers, OneForEach(table'), made' \in 0 .. MaxWorkers,
         running' \subseteq Workers,
         overlapped' = (overlapped \/ (puts[p].pc = "idle" /\ AtWork # {})),
         ~ overlapped' =>
           /\ put.new \subseteq table' \/ put.pc = "idle"
           /\ running' \subseteq table' \cup put.old \cup UNION {puts[q].old : q \in Puts \ {p}}
  PROVE  PiperInv'
<1>1. puts \in [Puts -> PutRecord]
  BY DEF PiperInv, PiperTypes
<1>2. puts' \in [Puts -> PutRecord] /\ puts'[p] = put /\ \A q \in Puts \ {p} : puts'[q] = puts[q]
  BY <1>1
<1>3. PiperTypes'
  BY <1>2 DEF PiperInv, PiperTypes, OneForEach
<1>4. \A q \in Puts : PutSound(puts'[q])
  BY <1>2 DEF PiperInv
<1>5. ASSUME ~ overlapped' PROVE AloneSound'
  <2>1. ~ overlapped /\ AloneSound
    BY <1>5 DEF PiperInv
  <2>2. AtWork \ {p} = {}
    <3>1. CASE puts[p].pc = "idle"
      BY <1>5, <3>1
    <3>2. CASE puts[p].pc # "idle"
      BY <2>1, <3>2 DEF AloneSound, AtWork
    <3> QED BY <3>1, <3>2
  <2>3. AtWork' \subseteq {p}
    BY <1>2, <2>2 DEF AtWork
  <2>4. \A q \in AtWork' : puts'[q].new \subseteq table'
    BY <1>2, <1>5, <2>3 DEF AtWork
  <2>5. running' \subseteq table' \cup UNION {puts'[q].old : q \in Puts}
    BY <1>2, <1>5
  <2> QED BY <2>3, <2>4, <2>5 DEF AloneSound
<1> QED BY <1>2, <1>3, <1>4, <1>5 DEF PiperInv

(* A request at work, which the container then waits for.                  *)
LEMMA AtWorkIs ==
  ASSUME PiperInv, NEW p \in Puts, puts[p].pc # "idle"
  PROVE  /\ serving /\ puts[p] \in PutRecord /\ PutSound(puts[p])
         /\ ~ overlapped =>
              /\ puts[p].new \subseteq table
              /\ running \subseteq table \cup puts[p].old \cup UNION {puts[q].old : q \in Puts \ {p}}
<1>1. p \in AtWork
  BY DEF AtWork
<1>2. puts[p] \in PutRecord /\ PutSound(puts[p])
  BY DEF PiperInv, PiperTypes
<1>3. UNION {puts[q].old : q \in Puts} = puts[p].old \cup UNION {puts[q].old : q \in Puts \ {p}}
  OBVIOUS
<1> QED BY <1>1, <1>2, <1>3 DEF PiperInv, PiperTypes, AloneSound

LEMMA UpdateConfigKeeps ==
  ASSUME PiperInv, NEW p \in Puts, UpdateConfig(p) PROVE PiperInv'
<1>1. PICK voices \in SUBSET Models :
        puts' = [puts EXCEPT ![p] = [NoPut EXCEPT !.pc = "workers", !.voices = voices]]
  BY DEF UpdateConfig
<1> DEFINE put == [NoPut EXCEPT !.pc = "workers", !.voices = voices]
<1>2. put \in PutRecord /\ PutSound(put) /\ put.new = {} /\ put.old = {}
  BY DEF NoPut, PutRecord, PutSound
<1>3. puts' = [puts EXCEPT ![p] = put]
  BY <1>1
<1>4. puts[p].pc = "idle"
  BY DEF UpdateConfig
<1>5. overlapped' = (overlapped \/ (puts[p].pc = "idle" /\ AtWork # {}))
  BY DEF UpdateConfig
<1>6. ASSUME ~ overlapped'
      PROVE  running \subseteq table \cup UNION {puts[q].old : q \in Puts \ {p}}
  <2>1. ~ overlapped /\ PutSound(puts[p])
    BY <1>5, <1>6 DEF PiperInv, PiperTypes
  <2>2. puts[p].old = {}
    BY <1>4, <2>1 DEF PutSound
  <2> QED BY <2>1, <2>2 DEF PiperInv, AloneSound
<1> HIDE DEF put
<1> QED BY <1>2, <1>3, <1>5, <1>6, PutMoves DEF UpdateConfig, PiperInv, PiperTypes

LEMMA ReplaceWorkersKeeps ==
  ASSUME PiperInv, NEW p \in Puts, ReplaceWorkers(p) PROVE PiperInv'
<1> DEFINE new == WorkersFor(puts[p].voices)
           put == [puts[p] EXCEPT !.pc = "stop", !.old = table, !.new = new]
<1>1. puts[p].pc # "idle"
  BY DEF ReplaceWorkers
<1>2. serving /\ puts[p] \in PutRecord
  BY <1>1, AtWorkIs
<1>3. new \subseteq Workers /\ OneForEach(new)
  <2>1. puts[p].voices \subseteq Models
    BY <1>2 DEF PutRecord
  <2> QED BY <2>1, MadeWorkers DEF ReplaceWorkers, PiperInv, PiperTypes
<1>4. made' \in 0 .. MaxWorkers
  BY PiperAssumption DEF ReplaceWorkers, PiperInv, PiperTypes
<1>5. put \in PutRecord /\ PutSound(put) /\ put.new = new /\ put.old = table
  BY <1>2, <1>3 DEF PutRecord, PutSound, PiperInv, PiperTypes
<1>6. puts' = [puts EXCEPT ![p] = put] /\ table' = new
  BY <1>2 DEF ReplaceWorkers, PiperInv, PiperTypes
<1>7. ASSUME ~ overlapped
      PROVE  running \subseteq table \cup UNION {puts[q].old : q \in Puts \ {p}}
  <2>1. puts[p].old = {}
    BY <1>1, AtWorkIs DEF PutSound, ReplaceWorkers
  <2>2. running \subseteq table \cup puts[p].old \cup UNION {puts[q].old : q \in Puts \ {p}}
    BY <1>1, <1>7, AtWorkIs
  <2> HIDE DEF put, new
  <2> QED BY <2>1, <2>2
<1>8. /\ serving' = serving /\ default' \in Models /\ list' \subseteq Voices
      /\ running' = running /\ running \subseteq Workers
      /\ overlapped' = overlapped /\ overlapped \in BOOLEAN
  BY DEF ReplaceWorkers, PiperInv, PiperTypes
<1>9. ~ overlapped' =>
        /\ put.new \subseteq table' \/ put.pc = "idle"
        /\ running' \subseteq table' \cup put.old \cup UNION {puts[q].old : q \in Puts \ {p}}
  <2> DEFINE others == UNION {puts[q].old : q \in Puts \ {p}}
  <2>1. put.new = table' /\ put.old = table /\ (~ overlapped => running \subseteq table \cup others)
    BY <1>5, <1>6, <1>7
  <2> HIDE DEF put, new, others
  <2>2. ~ overlapped' =>
          /\ put.new \subseteq table' \/ put.pc = "idle"
          /\ running' \subseteq table' \cup put.old \cup others
    BY <2>1, <1>8
  <2> QED BY <2>2 DEF others
<1>10. overlapped' = (overlapped \/ (puts[p].pc = "idle" /\ AtWork # {}))
  BY <1>1, <1>8
<1>11. table' \subseteq Workers /\ OneForEach(table')
  BY <1>3, <1>6
<1> HIDE DEF put, new
<1> QED BY <1>2, <1>4, <1>5, <1>6, <1>8, <1>9, <1>10, <1>11, PutMoves

LEMMA StopOldKeeps ==
  ASSUME PiperInv, NEW p \in Puts, StopOld(p) PROVE PiperInv'
<1>1. puts[p].pc # "idle" /\ puts[p].pc = "stop"
  BY DEF StopOld
<1>2. serving /\ puts[p] \in PutRecord
  BY <1>1, AtWorkIs
<1>3. CASE puts[p].old = {}
  <2> DEFINE put == [puts[p] EXCEPT !.pc = "start"]
  <2>1. put \in PutRecord /\ PutSound(put) /\ put.new = puts[p].new /\ put.old = {}
    BY <1>2, <1>3 DEF PutRecord, PutSound
  <2>2. puts' = [puts EXCEPT ![p] = put] /\ running' = running
    BY <1>3 DEF StopOld
  <2>3. ~ overlapped => /\ put.new \subseteq table
                        /\ running \subseteq table \cup put.old \cup UNION {puts[q].old : q \in Puts \ {p}}
    BY <1>1, <1>3, <2>1, AtWorkIs
  <2> HIDE DEF put
  <2> QED BY <1>1, <1>2, <2>1, <2>2, <2>3, PutMoves DEF StopOld, PiperInv, PiperTypes
<1>4. CASE puts[p].old # {}
  <2>1. PICK w \in puts[p].old :
          running' = running \ {w} /\ puts' = [puts EXCEPT ![p].old = @ \ {w}]
    BY <1>4 DEF StopOld, Stops
  <2> DEFINE put == [puts[p] EXCEPT !.old = @ \ {w}]
  <2>2. /\ put \in PutRecord /\ PutSound(put)
        /\ put.new = puts[p].new /\ put.old = puts[p].old \ {w}
    BY <1>1, <1>2 DEF PutRecord, PutSound
  <2>3. puts' = [puts EXCEPT ![p] = put]
    BY <2>1
  <2>4. ~ overlapped => /\ put.new \subseteq table
                        /\ running' \subseteq table \cup put.old \cup UNION {puts[q].old : q \in Puts \ {p}}
    BY <1>1, <2>1, <2>2, AtWorkIs
  <2> HIDE DEF put
  <2> QED BY <1>1, <1>2, <2>1, <2>2, <2>3, <2>4, PutMoves DEF StopOld, PiperInv, PiperTypes
<1> QED BY <1>3, <1>4

LEMMA StartNewKeeps ==
  ASSUME PiperInv, NEW p \in Puts, StartNew(p) PROVE PiperInv'
<1>1. puts[p].pc # "idle" /\ puts[p].pc = "start"
  BY DEF StartNew
<1>2. serving /\ puts[p] \in PutRecord /\ puts[p].old = {}
  BY <1>1, AtWorkIs DEF PutSound
<1>3. ~ overlapped => /\ puts[p].new \subseteq table
                      /\ running \subseteq table \cup UNION {puts[q].old : q \in Puts \ {p}}
  BY <1>1, <1>2, AtWorkIs
<1>4. CASE puts[p].new = {}
  <2> DEFINE put == [puts[p] EXCEPT !.pc = "keep"]
  <2>1. put \in PutRecord /\ PutSound(put) /\ put.new = puts[p].new /\ put.old = {}
    BY <1>2 DEF PutRecord, PutSound
  <2>2. puts' = [puts EXCEPT ![p] = put] /\ running' = running
    BY <1>4 DEF StartNew
  <2> HIDE DEF put
  <2> QED BY <1>1, <1>2, <1>3, <2>1, <2>2, PutMoves DEF StartNew, PiperInv, PiperTypes
<1>5. CASE puts[p].new # {}
  <2>1. PICK w \in puts[p].new, ok \in BOOLEAN :
          /\ Start(w, ok)
          /\ puts' = [puts EXCEPT ![p] = IF ok THEN [puts[p] EXCEPT !.new = puts[p].new \ {w}]
                                               ELSE NoPut]
    BY <1>5 DEF StartNew
  <2> DEFINE put == IF ok THEN [puts[p] EXCEPT !.new = puts[p].new \ {w}] ELSE NoPut
  <2>2. /\ put \in PutRecord /\ PutSound(put)
        /\ put.new \subseteq puts[p].new /\ put.old = {}
    <3>1. NoPut \in PutRecord /\ PutSound(NoPut) /\ NoPut.new = {} /\ NoPut.old = {}
      BY DEF NoPut, PutRecord, PutSound
    <3>2. CASE ok
      BY <1>1, <1>2, <3>2 DEF PutRecord, PutSound
    <3>3. CASE ~ ok
      BY <3>1, <3>3
    <3> QED BY <3>2, <3>3
  <2>3. puts' = [puts EXCEPT ![p] = put]
    BY <2>1
  <2>4. running' \subseteq running \cup {w} /\ w \in Workers
    BY <1>2, <2>1 DEF Start, PutRecord
  <2>5. ~ overlapped => /\ put.new \subseteq table
                        /\ running' \subseteq table \cup UNION {puts[q].old : q \in Puts \ {p}}
    BY <1>3, <2>2, <2>4
  <2> HIDE DEF put
  <2> QED BY <1>1, <1>2, <2>2, <2>3, <2>4, <2>5, PutMoves DEF StartNew, PiperInv, PiperTypes
<1> QED BY <1>4, <1>5

LEMMA KeepListKeeps ==
  ASSUME PiperInv, NEW p \in Puts, KeepList(p) PROVE PiperInv'
<1>1. puts[p].pc # "idle" /\ puts[p].pc = "keep"
  BY DEF KeepList
<1>2. serving /\ puts[p] \in PutRecord /\ puts[p].old = {}
  BY <1>1, AtWorkIs DEF PutSound
<1>3. NoPut \in PutRecord /\ PutSound(NoPut) /\ NoPut.pc = "idle"
  BY DEF NoPut, PutRecord, PutSound
<1>4. puts[p].voices \subseteq Models
  BY <1>2 DEF PutRecord
<1>5. table' \subseteq Workers /\ OneForEach(table') /\ made' \in 0 .. MaxWorkers /\ table \subseteq table'
  <2>1. CASE table' = table
    BY <2>1 DEF KeepList, PiperInv, PiperTypes
  <2>2. CASE table' # table
    <3>1. table = {} /\ table' = WorkersFor(puts[p].voices) /\ made < MaxWorkers /\ made' = made + 1
      BY <2>2 DEF KeepList
    <3>2. made \in 0 .. MaxWorkers
      BY DEF PiperInv, PiperTypes
    <3>3. table' \subseteq Workers /\ OneForEach(table')
      BY <1>4, <3>1, <3>2, MadeWorkers
    <3>4. made' \in 0 .. MaxWorkers
      BY <3>1, <3>2, PiperAssumption
    <3> QED BY <3>1, <3>3, <3>4
  <2> QED BY <2>1, <2>2
<1>6. puts' = [puts EXCEPT ![p] = NoPut] /\ list' \subseteq Voices
  BY <1>4 DEF KeepList, Voices
<1>7. ~ overlapped => running \subseteq table' \cup UNION {puts[q].old : q \in Puts \ {p}}
  BY <1>1, <1>2, <1>5, AtWorkIs
<1> QED BY <1>1, <1>2, <1>3, <1>5, <1>6, <1>7, PutMoves DEF KeepList, PiperInv, PiperTypes

LEMMA PiperFrame == PiperInv /\ UNCHANGED piperVars => PiperInv'
BY DEF piperVars, PiperInv, PiperTypes, OneForEach, AloneSound, AtWork

LEMMA PiperStep == PiperInv /\ PiperNext => PiperInv'
BY ContainerKeeps, UpdateConfigKeeps, ReplaceWorkersKeeps, StopOldKeeps, StartNewKeeps, KeepListKeeps
   DEF PiperNext

LEMMA PiperShows == PiperInv => PiperTypeOK /\ ProcessesAreListed
<1> SUFFICES ASSUME PiperInv PROVE PiperTypeOK /\ ProcessesAreListed
  OBVIOUS
<1>1. \A p \in Puts : puts[p] \in PutRecord
  BY DEF PiperInv, PiperTypes
<1>2. PiperTypeOK
  BY <1>1 DEF PiperInv, PiperTypes, PiperTypeOK, OneForEach, PutRecord, Voices
<1> QED BY <1>2 DEF PiperInv, AloneSound, ProcessesAreListed

(* tts/service.py: unless two PUT /config overlapped, every process        *)
(* of a voice is the table's, or about to be stopped by the request that   *)
(* replaced it, for any number of voices, requests and workers, however    *)
(* they fail and the container restarts.                                   *)
THEOREM ProcessesStayListed == PiperSpec => [](PiperTypeOK /\ ProcessesAreListed)
<1>1. PiperInv /\ [PiperNext]_piperVars => PiperInv'
  BY PiperStep, PiperFrame
<1> QED BY <1>1, PiperInitInv, PiperShows, PTL DEF PiperSpec
-----------------------------------------------------------------------------
(* The endpoints' settings *)

(* A request that sets a volume asks for one there is.                     *)
Requests == {a \in Ask : a.op = "set" => a.by \in Volumes}

(* The file that was read, and what it then said.                          *)
ReadInv ==
  /\ file.content \in Contents \cup {Invalid} /\ file.stamp \in 0 .. MaxEdits
  /\ held.content \in Contents /\ held.stamp \in 0 .. MaxEdits
  /\ held.stamp <= file.stamp /\ HeldIsTheFile

(* What each endpoint was sent, unless the round has it still to come.     *)
RoundInv ==
  /\ loop.todo \subseteq Endpoints /\ loop.to \in Endpoints /\ online \subseteq Endpoints
  /\ rest \in [Senders -> Seq(Command)]
  /\ told \in [Endpoints -> 0 .. MaxEdits] /\ shortcut \in BOOLEAN
  /\ ~ shortcut => \A e \in online \ loop.todo : told[e] = held.stamp

(* What is on a wire, or else the endpoint itself, says a volume last.     *)
SaysLast(commands, d, v) ==
  IF commands # <<>> THEN commands[Len(commands)] = [op |-> "volume", volume |-> v]
  ELSE /\ d.volume = v /\ d.saved = v /\ d.muted = (v = 0)
       /\ ~ d.saving => d.savedMute = IF v = 0 THEN "on" ELSE "off"

SentTo(queue, e, i) == queue[i].pc = "sent" /\ queue[i].to = e

(* The volume an endpoint was last sent, by the requests or the belief.    *)
AskedLast(queue, e, believes, v) ==
  \/ believes = v /\ \A i \in 1 .. Len(queue) : ~ SentTo(queue, e, i)
  \/ \E i \in 1 .. Len(queue) :
       /\ SentTo(queue, e, i) /\ queue[i].target = v
       /\ \A j \in 1 .. Len(queue) : j > i => ~ SentTo(queue, e, j)

SentFirst(queue) ==
  \A i, j \in 1 .. Len(queue) : i < j /\ queue[j].pc = "sent" => queue[i].pc = "sent"

(* The wire and the requests agree on the volume that comes last.          *)
VolumeInv ==
  /\ wire \in [Endpoints -> Seq(Command)] /\ device \in [Endpoints -> Device]
  /\ asks \in Seq(Requests) /\ SentFirst(asks)
  /\ believed \in [Endpoints -> Volumes \cup {NoVolume}] /\ touched \subseteq Endpoints
  /\ \A e \in Endpoints \ touched :
       \E v \in Volumes : SaysLast(wire[e], device[e], v) /\ AskedLast(asks, e, believed[e], v)

SettingsInv == ReadInv /\ RoundInv /\ VolumeInv

LEMMA SettingsInitInv == SettingsInit => SettingsInv
<1> SUFFICES ASSUME SettingsInit PROVE SettingsInv
  OBVIOUS
<1>1. 0 \in 0 .. MaxEdits /\ 0 \in Volumes
  BY SettingsAssumption DEF Volumes
<1>2. Unset \in Contents
  BY DEF Unset, Contents
<1>3. NewDevice \in Device
  BY SettingsAssumption DEF NewDevice, Device, Volumes
<1>4. ReadInv
  BY <1>1, <1>2 DEF SettingsInit, ReadInv, HeldIsTheFile
<1>5. <<>> \in Seq(Command) /\ <<>> \in Seq(Requests) /\ Len(<<>>) = 0
  OBVIOUS
<1>6. RoundInv
  BY <1>1, <1>5 DEF SettingsInit, RoundInv
<1>7. VolumeInv
  BY <1>3, <1>5 DEF SettingsInit, VolumeInv, SentFirst
<1> QED BY <1>4, <1>6, <1>7 DEF SettingsInv

-----------------------------------------------------------------------------
(* The file and the round.                                                 *)

LEMMA EditedKeeps ==
  ASSUME ReadInv, Edited
  PROVE  /\ file'.content \in Contents \cup {Invalid} /\ file'.stamp \in 0 .. MaxEdits
         /\ file'.stamp = file.stamp + 1
<1>1. file'.content \in Contents \cup {Invalid} /\ file'.stamp = file.stamp + 1 /\ file.stamp < MaxEdits
  BY DEF Edited
<1> QED BY <1>1, SettingsAssumption DEF ReadInv

LEMMA ReloadKeeps == ASSUME ReadInv, Reload PROVE ReadInv'
<1>1. CASE Edited
  <2>1. /\ file'.content \in Contents \cup {Invalid} /\ file'.stamp \in 0 .. MaxEdits
        /\ file'.stamp = file.stamp + 1
    BY <1>1, EditedKeeps
  <2>2. held' = held \/ (file'.content # Invalid /\ held' = [content |-> file'.content, stamp |-> file.stamp])
    BY DEF Reload, Reloaded
  <2>3. held'.content \in Contents /\ held'.stamp \in 0 .. MaxEdits /\ held'.stamp <= file.stamp
    BY <2>1, <2>2 DEF ReadInv
  <2>4. held'.stamp < file'.stamp
    BY <2>1, <2>3, SettingsAssumption DEF ReadInv
  <2> QED BY <2>1, <2>3, <2>4 DEF ReadInv, HeldIsTheFile
<1>2. CASE UNCHANGED file
  <2>1. held' = held \/ (file.content # Invalid /\ held' = [content |-> file.content, stamp |-> file.stamp])
    BY <1>2 DEF Reload, Reloaded
  <2> QED BY <1>2, <2>1 DEF ReadInv, HeldIsTheFile
<1> QED BY <1>1, <1>2 DEF Reload

LEMMA CommandsAre ==
  ASSUME NEW c \in Contents PROVE CommandsFor(c) \in Seq(Command)
<1> DEFINE one   == [op |-> "volume", volume |-> IF c.volume = NoVolume THEN 0 ELSE c.volume]
           two   == [op |-> IF c.mute = "on" THEN "mute" ELSE "unmute", volume |-> 0]
           three == [op |-> "restart", volume |-> 0]
<1>1. 0 \in Volumes /\ c.volume \in Volumes \cup {NoVolume}
  BY SettingsAssumption DEF Contents, Volumes
<1>2. one \in Command /\ two \in Command /\ three \in Command
  BY <1>1 DEF Command
<1>3. CommandsFor(c) = (IF c.volume # NoVolume THEN <<one>> ELSE <<>>)
                       \o (IF c.mute # "unset" THEN <<two>> ELSE <<>>)
                       \o (IF c.restart THEN <<three>> ELSE <<>>)
  BY DEF CommandsFor
<1> HIDE DEF one, two, three
<1>4. \A x, y, z \in Seq(Command) : x \o y \o z \in Seq(Command)
  BY ConcatProperties
<1>5. /\ (IF c.volume # NoVolume THEN <<one>> ELSE <<>>) \in Seq(Command)
      /\ (IF c.mute # "unset" THEN <<two>> ELSE <<>>) \in Seq(Command)
      /\ (IF c.restart THEN <<three>> ELSE <<>>) \in Seq(Command)
  BY <1>2
<1> QED BY <1>3, <1>4, <1>5

(* Its settings are sent to an endpoint.                                   *)
LEMMA PushKeeps ==
  ASSUME ReadInv, RoundInv, NEW s \in Senders, NEW e \in Endpoints, PushConfig(s, e),
         loop'.todo \in {loop.todo, loop.todo \ {e}}, loop'.to \in Endpoints,
         online' \subseteq online \cup {e}
  PROVE  ReadInv' /\ RoundInv'
<1>1. ReadInv'
  BY ReloadKeeps DEF PushConfig
<1>2. CommandsFor(held'.content) \in Seq(Command)
  BY <1>1, CommandsAre DEF ReadInv
<1>3. rest' \in [Senders -> Seq(Command)]
  BY <1>2 DEF PushConfig, RoundInv
<1>4. told' \in [Endpoints -> 0 .. MaxEdits] /\ told'[e] = held'.stamp
      /\ \A d \in Endpoints \ {e} : told'[d] = told[d]
  BY <1>1 DEF PushConfig, RoundInv, ReadInv
<1>5. shortcut' \in BOOLEAN /\ (~ shortcut' => ~ shortcut /\ held' = held)
  BY DEF PushConfig, RoundInv
<1>6. ~ shortcut' => \A d \in online' \ loop'.todo : told'[d] = held'.stamp
  BY <1>4, <1>5 DEF RoundInv
<1>7. loop'.todo \subseteq Endpoints /\ online' \subseteq Endpoints
  BY DEF RoundInv
<1> QED BY <1>1, <1>3, <1>4, <1>5, <1>6, <1>7 DEF RoundInv

LEMMA ReadFrame == ReadInv /\ UNCHANGED <<file, held>> => ReadInv'
BY DEF ReadInv, HeldIsTheFile

LEMMA ConfigFrame == ReadInv /\ UNCHANGED configVars => ReadInv'
BY ReadFrame DEF configVars

LEMMA RoundFrame ==
  ASSUME RoundInv, UNCHANGED <<loop, rest, told, shortcut>>, held'.stamp = held.stamp, online' \subseteq online
  PROVE  RoundInv'
BY DEF RoundInv

LEMMA TickKeepsRound == ASSUME ReadInv, RoundInv, Tick PROVE ReadInv' /\ RoundInv'
<1>1. ReadInv'
  BY ReloadKeeps DEF Tick
<1>2. /\ loop.todo = {} /\ loop'.todo = (IF held' # held THEN online ELSE {}) /\ loop'.to = loop.to
      /\ UNCHANGED <<rest, online, told, shortcut>>
  BY DEF Tick, Round, RoundInv
<1>3. loop'.todo \subseteq Endpoints
  BY <1>2 DEF RoundInv
<1>4. ~ shortcut => \A d \in online \ loop'.todo : told[d] = held'.stamp
  BY <1>2 DEF RoundInv
<1> QED BY <1>1, <1>2, <1>3, <1>4 DEF RoundInv

(* What the file and the round keep, of every step.                        *)
LEMMA ConfigurationKeeps ==
  ASSUME ReadInv, RoundInv, SettingsNext
  PROVE  ReadInv' /\ RoundInv'
<1>1. CASE EditFile
  <2>1. /\ file'.content \in Contents \cup {Invalid} /\ file'.stamp \in 0 .. MaxEdits
        /\ file'.stamp = file.stamp + 1 /\ held' = held
    BY <1>1, EditedKeeps DEF EditFile
  <2>2. held.stamp < file'.stamp
    BY <2>1, SettingsAssumption DEF ReadInv
  <2>3. ReadInv'
    BY <2>1, <2>2 DEF ReadInv, HeldIsTheFile
  <2> QED BY <1>1, <2>1, <2>3, RoundFrame DEF EditFile
<1>2. CASE Tick
  BY <1>2, TickKeepsRound
<1>3. CASE RunAsk
  BY <1>3, ConfigFrame, RoundFrame DEF RunAsk, configVars
<1>4. CASE FinishAsk
  BY <1>4, ConfigFrame, RoundFrame DEF FinishAsk, configVars
<1>5. ASSUME NEW e \in Endpoints, Connects(e) PROVE ReadInv' /\ RoundInv'
  <2>1. e \in Senders /\ PushConfig(e, e) /\ loop' = loop /\ online' = online \cup {e}
    BY <1>5 DEF Connects, Senders
  <2>2. loop.to \in Endpoints
    BY DEF RoundInv
  <2> QED BY <2>1, <2>2, PushKeeps
<1>6. ASSUME NEW e \in Endpoints, PushNext(e) PROVE ReadInv' /\ RoundInv'
  <2>1. /\ HotReload \in Senders /\ PushConfig(HotReload, e) /\ online' = online
        /\ loop'.todo = loop.todo \ {e} /\ loop'.to = e
    BY <1>6 DEF PushNext, Senders
  <2> QED BY <2>1, PushKeeps
<1>7. ASSUME NEW s \in Senders, SendNext(s) PROVE ReadInv' /\ RoundInv'
  <2>1. Tail(rest[s]) \in Seq(Command)
    BY <1>7, HeadTailProperties DEF SendNext, RoundInv
  <2>2. /\ rest' = [rest EXCEPT ![s] = Tail(rest[s])]
        /\ UNCHANGED <<loop, online, told, shortcut, file, held>>
    BY <1>7 DEF SendNext, configVars
  <2> QED BY <2>1, <2>2, ReadFrame DEF RoundInv
<1>8. ASSUME NEW s \in Senders, SendFails(s) PROVE ReadInv' /\ RoundInv'
  <2>1. /\ rest' = [rest EXCEPT ![s] = <<>>] /\ UNCHANGED <<told, file, held>>
        /\ shortcut' = (shortcut \/ s = HotReload) /\ online' \subseteq online
        /\ IF s = HotReload THEN loop'.todo = {} /\ loop'.to = loop.to ELSE loop' = loop
    BY <1>8 DEF SendFails, Lose
  <2>2. rest' \in [Senders -> Seq(Command)]
    BY <2>1 DEF RoundInv
  <2> QED BY <2>1, <2>2, ReadFrame DEF RoundInv
<1>9. ASSUME NEW e \in Endpoints,
             Disconnect(e) \/ Speak(e) \/ SaveMute(e) \/ Receive(e) \/ Restart(e) \/ UseKnob(e)
      PROVE  ReadInv' /\ RoundInv'
  <2>1. UNCHANGED configVars /\ UNCHANGED <<loop, rest>> /\ online' \subseteq online
    BY <1>9 DEF Disconnect, Lose, Speak, SaveMute, Receive, Restart, UseKnob
  <2> QED BY <2>1, ConfigFrame, RoundFrame DEF configVars
<1> QED BY <1>1, <1>2, <1>3, <1>4, <1>5, <1>6, <1>7, <1>8, <1>9 DEF SettingsNext

-----------------------------------------------------------------------------
(* The volume.                                                             *)

LEMMA VolumesAre ==
  /\ MaxVolume \in Nat \ {0} /\ DefaultVolume \in Volumes /\ 0 \in Volumes
  /\ \A v \in Int : Clamp(v) \in Volumes
BY SettingsAssumption DEF Volumes, Clamp

(* The last of a sequence that loses its first.                            *)
LEMMA TailEnds ==
  ASSUME NEW S, NEW s \in Seq(S), s # <<>>
  PROVE  /\ Tail(s) = <<>> => Head(s) = s[Len(s)]
         /\ Tail(s) # <<>> => Tail(s)[Len(Tail(s))] = s[Len(s)]
<1>1. Len(s) \in Nat /\ Len(s) # 0
  BY EmptySeq
<1>2. /\ Tail(s) \in Seq(S) /\ Len(Tail(s)) = Len(s) - 1
      /\ \A i \in 1 .. Len(Tail(s)) : Tail(s)[i] = s[i + 1]
  BY HeadTailProperties
<1>3. CASE Tail(s) = <<>>
  <2> DEFINE n == Len(s)
             m == Len(Tail(s))
  <2>1. m = 0 /\ m = n - 1 /\ n \in Nat
    <3>1. m = 0 BY <1>3, EmptySeq
    <3>2. m = n - 1 BY <1>2
    <3> QED BY <1>1, <3>1, <3>2
  <2> HIDE DEF n, m
  <2>2. n = 1
    BY <2>1
  <2> QED BY <1>3, <2>2 DEF n
<1>4. CASE Tail(s) # <<>>
  <2>1. Len(Tail(s)) # 0
    BY <1>2, <1>4, EmptySeq
  <2> DEFINE n == Len(Tail(s))
  <2>2. n \in 1 .. n /\ n + 1 = Len(s)
    BY <1>1, <1>2, <2>1
  <2>3. Tail(s)[n] = s[n + 1]
    BY <1>2, <2>2
  <2> QED BY <1>4, <2>2, <2>3
<1> QED BY <1>3, <1>4

(* A step that leaves the requests alone.                                  *)
LEMMA AsksStay ==
  ASSUME VolumeInv, UNCHANGED <<asks, believed>>,
         wire' \in [Endpoints -> Seq(Command)], device' \in [Endpoints -> Device],
         touched' \subseteq Endpoints,
         \A e \in Endpoints \ touched' :
           e \notin touched /\ \A v \in Volumes : SaysLast(wire[e], device[e], v)
                                                  => SaysLast(wire'[e], device'[e], v)
  PROVE  VolumeInv'
BY DEF VolumeInv

(* The next command on a wire, or the connection is lost with all on it.   *)
LEMMA WireKeeps ==
  ASSUME NEW e \in Endpoints, wire \in [Endpoints -> Seq(Command)], NEW c \in Command, Sends(e, c)
  PROVE  /\ wire' \in [Endpoints -> Seq(Command)]
         /\ \A d \in Endpoints \ {e} : wire'[d] = wire[d]
         /\ IF e \in online THEN wire'[e] = Append(wire[e], c) ELSE wire' = wire
<1>1. Append(wire[e], c) \in Seq(Command)
  BY AppendProperties
<1> QED BY <1>1 DEF Sends

LEMMA LoseKeeps ==
  ASSUME VolumeInv, NEW e \in Endpoints, Lose(e), UNCHANGED <<asks, believed, device>>
  PROVE  VolumeInv'
<1>1. /\ wire' = [wire EXCEPT ![e] = <<>>] /\ wire \in [Endpoints -> Seq(Command)]
      /\ touched' = IF wire[e] = <<>> THEN touched ELSE touched \cup {e}
  BY DEF Lose, VolumeInv
<1>2. wire' \in [Endpoints -> Seq(Command)] /\ touched' \subseteq Endpoints
  BY <1>1 DEF VolumeInv
<1>3. ASSUME NEW d \in Endpoints \ touched' PROVE d \notin touched /\ wire'[d] = wire[d]
  BY <1>1, <1>3
<1>4. device' \in [Endpoints -> Device]
  BY DEF VolumeInv
<1> QED BY <1>2, <1>3, <1>4, AsksStay

LEMMA SendersKeep ==
  ASSUME RoundInv, VolumeInv, NEW s \in Senders, SendNext(s) \/ SendFails(s)
  PROVE  VolumeInv'
<1> DEFINE e == Target(s)
<1>1. e \in Endpoints
  BY DEF Target, Senders, RoundInv
<1>2. CASE SendNext(s)
  <2>1. Head(rest[s]) \in Command
    BY <1>2, HeadTailProperties DEF SendNext, RoundInv
  <2>2. Sends(e, Head(rest[s])) /\ touched' = touched \cup {e} /\ UNCHANGED <<asks, believed, device>>
    BY <1>2 DEF SendNext
  <2> HIDE DEF e
  <2>3. wire' \in [Endpoints -> Seq(Command)] /\ \A d \in Endpoints \ {e} : wire'[d] = wire[d]
    BY <1>1, <2>1, <2>2, WireKeeps DEF VolumeInv
  <2>4. touched' \subseteq Endpoints /\ device' \in [Endpoints -> Device]
    BY <1>1, <2>2 DEF VolumeInv
  <2> QED BY <2>2, <2>3, <2>4, AsksStay
<1>3. CASE SendFails(s)
  <2>1. Lose(e) /\ UNCHANGED <<asks, believed, device>>
    BY <1>3 DEF SendFails
  <2> HIDE DEF e
  <2> QED BY <1>1, <2>1, LoseKeeps
<1> QED BY <1>2, <1>3

(* The endpoint takes a command, saves, restarts, or is used.              *)
LEMMA DeviceMoves ==
  ASSUME VolumeInv, NEW e \in Endpoints, NEW d \in Device, device' = [device EXCEPT ![e] = d],
         wire' \in [Endpoints -> Seq(Command)], \A x \in Endpoints \ {e} : wire'[x] = wire[x],
         UNCHANGED <<asks, believed>>, touched' \in {touched, touched \cup {e}},
         e \notin touched' =>
           \A v \in Volumes : SaysLast(wire[e], device[e], v) => SaysLast(wire'[e], d, v)
  PROVE  VolumeInv'
<1>1. device' \in [Endpoints -> Device] /\ device'[e] = d
      /\ \A x \in Endpoints \ {e} : device'[x] = device[x]
  BY DEF VolumeInv
<1>2. touched' \subseteq Endpoints
  BY DEF VolumeInv
<1>3. ASSUME NEW x \in Endpoints \ touched'
      PROVE  x \notin touched /\ \A v \in Volumes : SaysLast(wire[x], device[x], v)
                                                    => SaysLast(wire'[x], device'[x], v)
  <2>1. CASE x = e
    BY <1>1, <1>3, <2>1
  <2>2. CASE x # e
    BY <1>1, <1>3, <2>2
  <2> QED BY <2>1, <2>2
<1> QED BY <1>1, <1>2, <1>3, AsksStay

LEMMA DevicesKeep ==
  ASSUME VolumeInv, NEW e \in Endpoints, SaveMute(e) \/ Receive(e) \/ Restart(e) \/ UseKnob(e)
  PROVE  VolumeInv'
<1>1. device[e] \in Device /\ wire[e] \in Seq(Command) /\ wire \in [Endpoints -> Seq(Command)]
      /\ touched \subseteq Endpoints
  BY DEF VolumeInv
<1>2. ASSUME NEW v \in Volumes PROVE SetVolume(device[e], v) \in Device
  BY <1>1 DEF SetVolume, Device
<1>3. ASSUME NEW on \in BOOLEAN PROVE SetMuted(device[e], on) \in Device
  BY <1>1 DEF SetMuted, Device
<1>4. CASE SaveMute(e)
  <2> DEFINE d == [SetMuted(device[e], device[e].muted) EXCEPT !.saving = FALSE]
  <2>1. device' = [device EXCEPT ![e] = d] /\ UNCHANGED <<wire, asks, believed, touched>>
    BY <1>4 DEF SaveMute
  <2>2. d \in Device
    BY <1>1 DEF SetMuted, Device
  <2>3. \A v \in Volumes : SaysLast(wire[e], device[e], v) => SaysLast(wire[e], d, v)
    BY <1>1 DEF SaysLast, SetMuted, Device
  <2> HIDE DEF d
  <2> QED BY <1>1, <2>1, <2>2, <2>3, DeviceMoves
<1>5. CASE Receive(e)
  <2> DEFINE c == Head(wire[e])
             d == IF c.op = "volume" THEN SetVolume(device[e], c.volume)
                                     ELSE SetMuted(device[e], c.op = "mute")
  <2>1. /\ wire[e] # <<>> /\ device' = [device EXCEPT ![e] = d] /\ UNCHANGED <<asks, believed, touched>>
        /\ wire' = [wire EXCEPT ![e] = Tail(wire[e])]
    BY <1>5 DEF Receive
  <2>2. c \in Command /\ Tail(wire[e]) \in Seq(Command)
    BY <1>1, <2>1, HeadTailProperties
  <2>3. d \in Device
    BY <1>2, <1>3, <2>2 DEF Command
  <2>4. wire' \in [Endpoints -> Seq(Command)] /\ wire'[e] = Tail(wire[e])
        /\ \A x \in Endpoints \ {e} : wire'[x] = wire[x]
    BY <1>1, <2>1, <2>2
  <2>5. ASSUME NEW v \in Volumes, SaysLast(wire[e], device[e], v) PROVE SaysLast(wire'[e], d, v)
    <3>1. wire[e][Len(wire[e])] = [op |-> "volume", volume |-> v]
      BY <2>1, <2>5 DEF SaysLast
    <3>2. CASE Tail(wire[e]) = <<>>
      <4>1. c = [op |-> "volume", volume |-> v]
        BY <1>1, <2>1, <3>1, <3>2, TailEnds
      <4>2. d = SetVolume(device[e], v)
        BY <4>1
      <4> HIDE DEF c, d
      <4> QED BY <1>1, <2>4, <3>2, <4>2 DEF SaysLast, SetVolume, Device
    <3>3. CASE Tail(wire[e]) # <<>>
      <4>1. Tail(wire[e])[Len(Tail(wire[e]))] = wire[e][Len(wire[e])]
        BY <1>1, <2>1, <3>3, TailEnds
      <4> HIDE DEF c, d
      <4> QED BY <2>4, <3>1, <3>3, <4>1 DEF SaysLast
    <3> QED BY <3>2, <3>3
  <2> HIDE DEF c, d
  <2> QED BY <2>1, <2>3, <2>4, <2>5, DeviceMoves
<1>6. CASE Restart(e)
  <2> DEFINE d == Booted(device[e])
  <2>1. /\ device' = [device EXCEPT ![e] = d] /\ UNCHANGED <<asks, believed>>
        /\ wire' = [wire EXCEPT ![e] = <<>>]
        /\ touched' = IF wire[e] # <<>> \/ device[e].saving THEN touched \cup {e} ELSE touched
    BY <1>6 DEF Restart
  <2>2. d \in Device
    BY <1>1 DEF Booted, Device
  <2>3. wire' \in [Endpoints -> Seq(Command)] /\ wire'[e] = <<>>
        /\ \A x \in Endpoints \ {e} : wire'[x] = wire[x]
    BY <1>1, <2>1
  <2>4. ASSUME e \notin touched', NEW v \in Volumes, SaysLast(wire[e], device[e], v)
        PROVE  SaysLast(wire'[e], d, v)
    <3>1. wire[e] = <<>> /\ ~ device[e].saving
      BY <2>1, <2>4
    <3>2. /\ device[e].volume = v /\ device[e].saved = v
          /\ device[e].savedMute = (IF v = 0 THEN "on" ELSE "off")
      BY <2>4, <3>1 DEF SaysLast
    <3>3. d.volume = v /\ d.saved = v /\ d.savedMute = device[e].savedMute /\ d.muted = (v = 0)
      BY <1>1, <3>2 DEF Booted, Device
    <3> QED BY <2>3, <3>2, <3>3 DEF SaysLast
  <2> HIDE DEF d
  <2> QED BY <2>1, <2>2, <2>3, <2>4, DeviceMoves
<1>7. CASE UseKnob(e)
  <2>1. /\ touched' = touched \cup {e} /\ UNCHANGED <<wire, asks, believed>>
        /\ device' \in {[device EXCEPT ![e] = SetVolume(device[e], Clamp(device[e].volume + 1))],
                        [device EXCEPT ![e] = SetVolume(device[e], Clamp(device[e].volume - 1))],
                        [device EXCEPT ![e] = SetMuted(device[e], ~ device[e].muted)]}
    BY <1>7 DEF UseKnob
  <2>2. device[e].volume + 1 \in Int /\ device[e].volume - 1 \in Int
    BY <1>1 DEF Device, Volumes
  <2>3. PICK d \in Device : device' = [device EXCEPT ![e] = d]
    <3>1. SetVolume(device[e], Clamp(device[e].volume + 1)) \in Device
      BY <1>2, <2>2, VolumesAre
    <3>2. SetVolume(device[e], Clamp(device[e].volume - 1)) \in Device
      BY <1>2, <2>2, VolumesAre
    <3>3. SetMuted(device[e], ~ device[e].muted) \in Device
      BY <1>1 DEF SetMuted, Device
    <3> QED BY <2>1, <3>1, <3>2, <3>3
  <2> QED BY <1>1, <2>1, <2>3, DeviceMoves
<1> QED BY <1>4, <1>5, <1>6, <1>7

-----------------------------------------------------------------------------
(* The spoken requests.                                                    *)

LEMMA SpeakKeepsVolume ==
  ASSUME VolumeInv, NEW e \in Endpoints, Speak(e) PROVE VolumeInv'
<1>1. PICK x \in Spoken :
        asks' = Append(asks, [pc |-> "queued", to |-> e, op |-> x.op, by |-> x.by, target |-> 0])
  BY DEF Speak
<1> DEFINE a == [pc |-> "queued", to |-> e, op |-> x.op, by |-> x.by, target |-> 0]
<1>2. a \in Requests
  <2>1. x.op \in {"set", "adjust", "mute", "unmute"} /\ x.by \in -1 .. MaxVolume
        /\ (x.op = "set" => x.by \in Volumes)
    BY VolumesAre DEF Spoken, Volumes
  <2> QED BY <2>1, VolumesAre DEF Requests, Ask
<1>3. a.pc = "queued"
  OBVIOUS
<1>4. asks \in Seq(Requests) /\ asks' = Append(asks, a)
  BY <1>1 DEF VolumeInv
<1> HIDE DEF a
<1>5. /\ asks' \in Seq(Requests) /\ Len(asks') = Len(asks) + 1 /\ Len(asks) \in Nat
      /\ \A i \in 1 .. Len(asks) : asks'[i] = asks[i]
      /\ asks'[Len(asks) + 1] = a
  BY <1>2, <1>4, AppendProperties
<1>6. \A i \in 1 .. Len(asks') : asks'[i].pc = "sent" => i \in 1 .. Len(asks) /\ asks'[i] = asks[i]
  <2> TAKE i \in 1 .. Len(asks')
  <2>1. i \in 1 .. Len(asks) \/ i = Len(asks) + 1
    BY <1>5
  <2> QED BY <1>3, <1>5, <2>1
<1>7. SentFirst(asks')
  <2> SUFFICES ASSUME NEW i \in 1 .. Len(asks'), NEW j \in 1 .. Len(asks'), i < j, asks'[j].pc = "sent"
               PROVE  asks'[i].pc = "sent"
    BY DEF SentFirst
  <2>1. j \in 1 .. Len(asks) /\ asks'[j] = asks[j]
    BY <1>6
  <2>2. i \in 1 .. Len(asks)
    BY <1>5, <2>1
  <2> QED BY <1>5, <2>1, <2>2 DEF VolumeInv, SentFirst
<1>8. ASSUME NEW d \in Endpoints, NEW v \in Volumes, AskedLast(asks, d, believed[d], v)
      PROVE  AskedLast(asks', d, believed[d], v)
  <2>1. CASE believed[d] = v /\ \A i \in 1 .. Len(asks) : ~ SentTo(asks, d, i)
    BY <1>6, <2>1 DEF AskedLast, SentTo
  <2>2. ASSUME NEW i \in 1 .. Len(asks), SentTo(asks, d, i), asks[i].target = v,
               \A j \in 1 .. Len(asks) : j > i => ~ SentTo(asks, d, j)
        PROVE  AskedLast(asks', d, believed[d], v)
    <3>1. i \in 1 .. Len(asks') /\ SentTo(asks', d, i) /\ asks'[i].target = v
      BY <1>5, <2>2 DEF SentTo
    <3>2. \A j \in 1 .. Len(asks') : j > i => ~ SentTo(asks', d, j)
      BY <1>6, <2>2 DEF SentTo
    <3> QED BY <3>1, <3>2 DEF AskedLast
  <2> QED BY <1>8, <2>1, <2>2 DEF AskedLast
<1>9. UNCHANGED <<believed, wire, device, touched>>
  BY DEF Speak, deviceVars
<1> QED BY <1>5, <1>7, <1>8, <1>9 DEF VolumeInv

LEMMA FinishKeepsVolume ==
  ASSUME VolumeInv, FinishAsk PROVE VolumeInv'
<1> DEFINE a == Head(asks)
<1>1. asks \in Seq(Requests) /\ asks # <<>> /\ a.pc = "sent" /\ asks' = Tail(asks)
  BY DEF FinishAsk, VolumeInv
<1>2. /\ a \in Requests /\ asks' \in Seq(Requests) /\ Len(asks') = Len(asks) - 1
      /\ \A i \in 1 .. Len(asks') : asks'[i] = asks[i + 1]
  BY <1>1, HeadTailProperties
<1>3. Len(asks) \in Nat /\ Len(asks) # 0 /\ a = asks[1]
  BY <1>1, EmptySeq
<1> HIDE DEF a
<1>4. \A i \in 1 .. Len(asks') : i + 1 \in 1 .. Len(asks)
  BY <1>2, <1>3
<1>5. \A i \in 1 .. Len(asks) : i = 1 \/ (i - 1 \in 1 .. Len(asks') /\ asks'[i - 1] = asks[i])
  <2> TAKE i \in 1 .. Len(asks)
  <2>1. CASE i # 1
    <3>1. i - 1 \in 1 .. Len(asks') /\ (i - 1) + 1 = i
      BY <1>2, <1>3, <2>1
    <3> QED BY <1>2, <3>1
  <2> QED BY <2>1
<1>6. SentFirst(asks')
  <2>1. \A i, j \in 1 .. Len(asks') : i < j => i + 1 < j + 1
    OBVIOUS
  <2> QED BY <1>2, <1>4, <2>1 DEF VolumeInv, SentFirst
<1>7. /\ a.to \in Endpoints /\ a.target \in Volumes /\ believed' = [believed EXCEPT ![a.to] = a.target]
      /\ UNCHANGED <<wire, device, touched>>
  BY <1>2 DEF FinishAsk, deviceVars, Requests, Ask, a
<1>8. believed' \in [Endpoints -> Volumes \cup {NoVolume}]
  BY <1>7 DEF VolumeInv
<1>9. ASSUME NEW d \in Endpoints, NEW v \in Volumes, AskedLast(asks, d, believed[d], v)
      PROVE  AskedLast(asks', d, believed'[d], v)
  <2>1. CASE believed[d] = v /\ \A i \in 1 .. Len(asks) : ~ SentTo(asks, d, i)
    <3>1. d # a.to
      BY <1>1, <1>3, <2>1 DEF SentTo, a
    <3>2. believed'[d] = v
      BY <1>7, <2>1, <3>1 DEF VolumeInv
    <3>3. \A i \in 1 .. Len(asks') : ~ SentTo(asks', d, i)
      BY <1>2, <1>4, <2>1 DEF SentTo
    <3> QED BY <3>2, <3>3 DEF AskedLast
  <2>2. ASSUME NEW i \in 1 .. Len(asks), SentTo(asks, d, i), asks[i].target = v,
               \A j \in 1 .. Len(asks) : j > i => ~ SentTo(asks, d, j)
        PROVE  AskedLast(asks', d, believed'[d], v)
    <3>1. CASE i = 1
      <4>1. a.to = d /\ a.target = v
        BY <1>3, <2>2, <3>1 DEF SentTo
      <4>2. believed'[d] = v
        BY <1>7, <4>1 DEF VolumeInv
      <4>3. \A j \in 1 .. Len(asks') : j + 1 > i
        BY <3>1
      <4>4. \A j \in 1 .. Len(asks') : ~ SentTo(asks', d, j)
        BY <1>2, <1>4, <2>2, <4>3 DEF SentTo
      <4> QED BY <4>2, <4>4 DEF AskedLast
    <3>2. CASE i # 1
      <4>1. i - 1 \in 1 .. Len(asks') /\ asks'[i - 1] = asks[i]
        BY <1>5, <3>2
      <4>2. \A j \in 1 .. Len(asks') : j > i - 1 => j + 1 > i
        OBVIOUS
      <4>3. \A j \in 1 .. Len(asks') : j > i - 1 => ~ SentTo(asks', d, j)
        BY <1>2, <1>4, <2>2, <4>2 DEF SentTo
      <4>4. SentTo(asks', d, i - 1) /\ asks'[i - 1].target = v
        BY <2>2, <4>1 DEF SentTo
      <4> DEFINE k == i - 1
      <4>5. k \in 1 .. Len(asks') /\ SentTo(asks', d, k) /\ asks'[k].target = v
            /\ \A j \in 1 .. Len(asks') : j > k => ~ SentTo(asks', d, j)
        BY <4>1, <4>3, <4>4
      <4> HIDE DEF k
      <4> QED BY <4>5 DEF AskedLast
    <3> QED BY <3>1, <3>2
  <2> QED BY <1>9, <2>1, <2>2 DEF AskedLast
<1> QED BY <1>2, <1>6, <1>7, <1>8, <1>9 DEF VolumeInv

(* A request that was not sent leaves.                                     *)
LEMMA WithoutIs ==
  ASSUME VolumeInv, NEW i \in 1 .. Len(asks), asks[i].pc # "sent", asks' = Without(i)
  PROVE  /\ asks' \in Seq(Requests) /\ SentFirst(asks')
         /\ \A d \in Endpoints, v \in Volumes, b \in Volumes \cup {NoVolume} :
              AskedLast(asks, d, b, v) => AskedLast(asks', d, b, v)
<1> DEFINE n == Len(asks)
           front == SubSeq(asks, 1, i - 1)
           back == SubSeq(asks, i + 1, n)
<1>1. asks \in Seq(Requests) /\ n \in Nat /\ i \in 1 .. n /\ \A k \in 1 .. n : asks[k] \in Requests
  BY ElementOfSeq DEF VolumeInv
<1>2. SentFirst(asks)
  BY DEF VolumeInv
<1>3. /\ front \in Seq(Requests) /\ Len(front) = i - 1
      /\ \A k \in 1 .. i - 1 : front[k] = asks[k]
  <2>1. \A k \in 1 .. i - 1 : asks[k] \in Requests
    BY <1>1
  <2>2. front \in Seq(Requests) /\ Len(front) = (IF 1 <= i - 1 THEN (i - 1) - 1 + 1 ELSE 0)
        /\ \A k \in 1 .. (i - 1) - 1 + 1 : front[k] = asks[1 + k - 1]
    BY <1>1, <2>1, SubSeqProperties
  <2>3. (i - 1) - 1 + 1 = i - 1 /\ \A k \in 1 .. i - 1 : 1 + k - 1 = k
    BY <1>1
  <2>4. Len(front) = i - 1
    BY <1>1, <2>2
  <2> QED BY <2>2, <2>3, <2>4
<1>4. /\ back \in Seq(Requests) /\ Len(back) = n - i
      /\ \A k \in 1 .. n - i : back[k] = asks[i + k]
  <2>1. \A k \in i + 1 .. n : asks[k] \in Requests
    BY <1>1
  <2>2. back \in Seq(Requests) /\ Len(back) = (IF i + 1 <= n THEN n - (i + 1) + 1 ELSE 0)
        /\ \A k \in 1 .. n - (i + 1) + 1 : back[k] = asks[(i + 1) + k - 1]
    BY <1>1, <2>1, SubSeqProperties
  <2>3. n - (i + 1) + 1 = n - i /\ \A k \in 1 .. n - i : (i + 1) + k - 1 = i + k
    BY <1>1
  <2>4. Len(back) = n - i
    BY <1>1, <2>2
  <2> QED BY <2>2, <2>3, <2>4
<1>5. asks' = front \o back
  BY DEF Without
<1> DEFINE left == asks'
<1>6. left \in Seq(Requests) /\ Len(left) = n - 1
      /\ \A k \in 1 .. n - 1 : left[k] = IF k <= i - 1 THEN front[k] ELSE back[k - (i - 1)]
  <2> HIDE DEF front, back
  <2>1. front \o back \in Seq(Requests) /\ Len(front \o back) = Len(front) + Len(back)
        /\ \A k \in 1 .. Len(front) + Len(back) :
             (front \o back)[k] = IF k <= Len(front) THEN front[k] ELSE back[k - Len(front)]
    BY <1>3, <1>4, ConcatProperties
  <2>2. Len(front) + Len(back) = n - 1
    BY <1>1, <1>3, <1>4
  <2> QED BY <1>3, <1>5, <2>1, <2>2
<1>7. \A k \in 1 .. n - 1 : IF k < i THEN left[k] = asks[k] ELSE k + 1 \in 1 .. n /\ left[k] = asks[k + 1]
  <2> TAKE k \in 1 .. n - 1
  <2>1. CASE k < i
    <3>1. k <= i - 1 /\ k \in 1 .. i - 1
      BY <1>1, <2>1
    <3> QED BY <1>3, <1>6, <2>1, <3>1
  <2>2. CASE ~ (k < i)
    <3>1. ~ (k <= i - 1) /\ k - (i - 1) \in 1 .. n - i /\ i + (k - (i - 1)) = k + 1 /\ k + 1 \in 1 .. n
      BY <1>1, <2>2
    <3> QED BY <1>4, <1>6, <2>2, <3>1
  <2> QED BY <2>1, <2>2
<1> HIDE DEF front, back
<1>8. \A k \in 1 .. n : k >= i => asks[k].pc # "sent"
  BY <1>1, <1>2 DEF SentFirst
<1>9. \A k \in 1 .. Len(left) : left[k].pc = "sent" => k < i /\ k \in 1 .. n /\ left[k] = asks[k]
  <2> TAKE k \in 1 .. Len(left)
  <2>1. k \in 1 .. n - 1 /\ k \in 1 .. n
    BY <1>1, <1>6
  <2>2. CASE k < i
    BY <1>7, <2>1, <2>2
  <2>3. CASE ~ (k < i)
    <3>1. k + 1 \in 1 .. n /\ left[k] = asks[k + 1] /\ k + 1 >= i
      BY <1>1, <1>7, <2>1, <2>3
    <3> QED BY <1>8, <3>1
  <2> QED BY <2>2, <2>3
<1>10. \A k \in 1 .. n : asks[k].pc = "sent" => k < i /\ k \in 1 .. Len(left) /\ left[k] = asks[k]
  <2> TAKE k \in 1 .. n
  <2>1. SUFFICES ASSUME asks[k].pc = "sent" PROVE k < i /\ k \in 1 .. Len(left) /\ left[k] = asks[k]
    OBVIOUS
  <2>2. k < i
    BY <1>1, <1>8, <2>1
  <2>3. k \in 1 .. n - 1
    BY <1>1, <2>2
  <2> QED BY <1>6, <1>7, <2>2, <2>3
<1> HIDE DEF n, left
<1>11. SentFirst(left)
  <2> SUFFICES ASSUME NEW j \in 1 .. Len(left), NEW k \in 1 .. Len(left), j < k, left[k].pc = "sent"
               PROVE  left[j].pc = "sent"
    BY DEF SentFirst
  <2>1. k < i /\ k \in 1 .. n /\ left[k] = asks[k]
    BY <1>9
  <2>2. Len(left) \in Nat /\ n \in Nat
    BY <1>1, <1>6, EmptySeq
  <2>3. j \in 1 .. n - 1 /\ j \in 1 .. n /\ j < i
    BY <1>1, <1>6, <2>1, <2>2
  <2>4. left[j] = asks[j]
    BY <1>7, <2>3
  <2> QED BY <1>2, <2>1, <2>3, <2>4 DEF SentFirst, n
<1>12. ASSUME NEW d \in Endpoints, NEW v \in Volumes, NEW b \in Volumes \cup {NoVolume},
              AskedLast(asks, d, b, v)
       PROVE  AskedLast(left, d, b, v)
  <2>1. CASE b = v /\ \A k \in 1 .. Len(asks) : ~ SentTo(asks, d, k)
    <3>1. \A k \in 1 .. Len(left) : ~ SentTo(left, d, k)
      BY <1>9, <2>1 DEF SentTo, n
    <3> QED BY <2>1, <3>1 DEF AskedLast
  <2>2. ASSUME NEW k \in 1 .. Len(asks), SentTo(asks, d, k), asks[k].target = v,
               \A j \in 1 .. Len(asks) : j > k => ~ SentTo(asks, d, j)
        PROVE  AskedLast(left, d, b, v)
    <3>1. k \in 1 .. Len(left) /\ SentTo(left, d, k) /\ left[k].target = v
      BY <1>10, <2>2 DEF SentTo, n
    <3>2. \A j \in 1 .. Len(left) : j > k => ~ SentTo(left, d, j)
      BY <1>9, <2>2 DEF SentTo, n
    <3> QED BY <3>1, <3>2 DEF AskedLast
  <2> QED BY <1>12, <2>1, <2>2 DEF AskedLast
<1> QED BY <1>6, <1>11, <1>12 DEF left

(* A sequence with one element replaced.                                    *)
LEMMA ReplacedIs ==
  ASSUME NEW S, NEW s \in Seq(S), NEW i \in 1 .. Len(s), NEW x \in S, NEW t,
         t = [s EXCEPT ![i] = x]
  PROVE  /\ t \in Seq(S) /\ Len(t) = Len(s) /\ t[i] = x
         /\ \A j \in 1 .. Len(s) : j # i => t[j] = s[j]
<1>1. t \in Seq(S) /\ Len(t) = Len(s)
  BY ExceptSeq
<1>2. s \in [1 .. Len(s) -> S]
  BY LenProperties
<1> QED BY <1>1, <1>2

(* A volume is sent: it is what comes last on the wire, and was asked last.*)
LEMMA SendingKeeps ==
  ASSUME VolumeInv, NEW i \in 1 .. Len(asks), asks[i].pc = "queued",
         \A j \in 1 .. (i - 1) : asks[j].pc = "sent", NEW v \in Volumes,
         asks[i].to \in online, Sends(asks[i].to, [op |-> "volume", volume |-> v]),
         asks' = [asks EXCEPT ![i] = [asks[i] EXCEPT !.pc = "sent", !.target = v]],
         touched' = touched \ {asks[i].to}, UNCHANGED <<believed, device>>
  PROVE  VolumeInv'
<1> DEFINE e == asks[i].to
           a == [asks[i] EXCEPT !.pc = "sent", !.target = v]
           c == [op |-> "volume", volume |-> v]
<1>1. asks \in Seq(Requests) /\ asks[i] \in Requests /\ SentFirst(asks) /\ Len(asks) \in Nat
  BY ElementOfSeq, LenProperties DEF VolumeInv
<1>2. /\ e \in Endpoints /\ c \in Command /\ a \in Requests
      /\ a.pc = "sent" /\ a.to = e /\ a.target = v
  BY <1>1 DEF Requests, Ask, Command
<1>3. asks' \in Seq(Requests) /\ Len(asks') = Len(asks)
      /\ asks'[i] = a /\ \A j \in 1 .. Len(asks) : j # i => asks'[j] = asks[j]
  <2>1. asks' = [asks EXCEPT ![i] = a]
    OBVIOUS
  <2> HIDE DEF a, e
  <2>2. a \in Requests /\ asks \in Seq(Requests) /\ i \in 1 .. Len(asks)
    BY <1>1, <1>2
  <2> DEFINE s == asks
             t == asks'
  <2>3. s \in Seq(Requests) /\ i \in 1 .. Len(s) /\ t = [s EXCEPT ![i] = a]
    BY <2>1, <2>2
  <2> HIDE DEF s, t
  <2>4. /\ t \in Seq(Requests) /\ Len(t) = Len(s) /\ t[i] = a
        /\ \A j \in 1 .. Len(s) : j # i => t[j] = s[j]
    BY <2>2, <2>3, ReplacedIs
  <2> QED BY <2>4 DEF s, t
<1>4. wire' \in [Endpoints -> Seq(Command)] /\ wire'[e] = Append(wire[e], c)
      /\ \A d \in Endpoints \ {e} : wire'[d] = wire[d]
  <2> HIDE DEF c
  <2> QED BY <1>2, WireKeeps DEF VolumeInv, c
<1>5. /\ wire'[e] # <<>> /\ wire'[e][Len(wire'[e])] = c
  <2>1. wire[e] \in Seq(Command)
    BY <1>2 DEF VolumeInv
  <2> HIDE DEF c, e
  <2>2. /\ wire'[e] # <<>> /\ Len(wire'[e]) = Len(wire[e]) + 1
        /\ wire'[e][Len(wire[e]) + 1] = c
    BY <1>2, <1>4, <2>1, AppendProperties, SMTT(30)
  <2> QED BY <2>2
<1> HIDE DEF e, a, c
<1>6. \A j \in 1 .. Len(asks) : asks[j].pc = "sent" => j < i
  BY <1>1 DEF SentFirst
<1>7. SentFirst(asks')
  <2> SUFFICES ASSUME NEW j \in 1 .. Len(asks'), NEW k \in 1 .. Len(asks'), j < k, asks'[k].pc = "sent"
               PROVE  asks'[j].pc = "sent"
    BY DEF SentFirst
  <2>1. CASE j = i
    BY <1>2, <1>3, <2>1
  <2>2. CASE j # i
    <3>1. k <= i
      BY <1>3, <1>6
    <3>2. j \in 1 .. (i - 1)
      BY <1>1, <1>3, <2>2, <3>1
    <3> QED BY <1>3, <2>2, <3>2
  <2> QED BY <2>1, <2>2
<1>8. \E u \in Volumes : SaysLast(wire'[e], device'[e], u) /\ AskedLast(asks', e, believed'[e], u)
  <2>1. SaysLast(wire'[e], device'[e], v)
    BY <1>5 DEF SaysLast, c
  <2>2. SentTo(asks', e, i) /\ asks'[i].target = v /\ i \in 1 .. Len(asks')
    BY <1>2, <1>3 DEF SentTo
  <2>3. \A j \in 1 .. Len(asks') : j > i => ~ SentTo(asks', e, j)
    BY <1>3, <1>6 DEF SentTo
  <2>4. AskedLast(asks', e, believed'[e], v)
    BY <2>2, <2>3 DEF AskedLast
  <2> QED BY <2>1, <2>4
<1>9. ASSUME NEW d \in Endpoints \ touched', d # e
      PROVE  \E u \in Volumes : SaysLast(wire'[d], device'[d], u) /\ AskedLast(asks', d, believed'[d], u)
  <2>1. d \notin touched /\ wire'[d] = wire[d]
    BY <1>4, <1>9 DEF e
  <2>2. PICK u \in Volumes : SaysLast(wire[d], device[d], u) /\ AskedLast(asks, d, believed[d], u)
    BY <2>1 DEF VolumeInv
  <2>3. \A j \in 1 .. Len(asks) : SentTo(asks', d, j) <=> SentTo(asks, d, j)
    <3> TAKE j \in 1 .. Len(asks)
    <3>1. CASE j = i
      BY <1>2, <1>3, <1>9, <3>1 DEF SentTo
    <3>2. CASE j # i
      BY <1>3, <3>2 DEF SentTo
    <3> QED BY <3>1, <3>2
  <2>4. \A j \in 1 .. Len(asks) : SentTo(asks, d, j) => asks'[j] = asks[j]
    BY <1>3 DEF SentTo
  <2>5. AskedLast(asks', d, believed[d], u)
    BY <1>3, <2>2, <2>3, <2>4 DEF AskedLast
  <2> QED BY <2>1, <2>2, <2>5
<1>10. \A d \in Endpoints \ touched' :
         \E u \in Volumes : SaysLast(wire'[d], device'[d], u) /\ AskedLast(asks', d, believed'[d], u)
  BY <1>8, <1>9
<1> QED BY <1>3, <1>4, <1>7, <1>10 DEF VolumeInv

LEMMA RunKeepsVolume ==
  ASSUME VolumeInv, RunAsk PROVE VolumeInv'
<1> DEFINE said(a) == IF a.op \in {"set", "adjust"} THEN TargetOf(a) ELSE 0
<1>1. PICK i \in 1 .. Len(asks) :
        /\ asks[i].pc = "queued" /\ \A j \in 1 .. (i - 1) : asks[j].pc = "sent"
        /\ Sends(asks[i].to, [op |-> IF asks[i].op \in {"mute", "unmute"} THEN asks[i].op ELSE "volume",
                              volume |-> said(asks[i])])
        /\ IF asks[i].to \notin online THEN asks' = Without(i) /\ UNCHANGED touched
           ELSE IF asks[i].op \in {"mute", "unmute"}
                THEN asks' = Without(i) /\ touched' = touched \cup {asks[i].to}
           ELSE /\ asks' = [asks EXCEPT ![i] = [asks[i] EXCEPT !.pc = "sent", !.target = said(asks[i])]]
                /\ touched' = touched \ {asks[i].to}
        /\ UNCHANGED <<believed, device>>
  BY DEF RunAsk
<1> DEFINE a == asks[i]
           c == [op |-> IF a.op \in {"mute", "unmute"} THEN a.op ELSE "volume", volume |-> said(a)]
<1>2. a \in Requests
  BY ElementOfSeq DEF VolumeInv
<1>3. a.to \in Endpoints /\ a.op \in {"set", "adjust", "mute", "unmute"} /\ a.by \in Int
      /\ (a.op = "set" => a.by \in Volumes)
  BY <1>2, VolumesAre DEF Requests, Ask
<1>4. said(a) \in Volumes
  <2>1. believed[a.to] \in Volumes \cup {NoVolume}
    BY <1>3 DEF VolumeInv
  <2> DEFINE base == IF believed[a.to] = NoVolume THEN DefaultVolume ELSE believed[a.to]
  <2>2. base + a.by \in Int
    <3>1. base \in Volumes
      BY <2>1, VolumesAre
    <3>2. base \in Int
      BY <3>1 DEF Volumes
    <3> HIDE DEF base, a
    <3> QED BY <1>3, <3>2
  <2>3. TargetOf(a) \in Volumes \/ a.op \notin {"set", "adjust"}
    BY <1>3, <2>2, VolumesAre DEF TargetOf
  <2> QED BY <2>3, VolumesAre
<1>5. c \in Command
  BY <1>3, <1>4 DEF Command
<1>6. CASE a.to \in online /\ a.op \notin {"mute", "unmute"}
  <2>1. c = [op |-> "volume", volume |-> said(a)]
    BY <1>6
  <2> HIDE DEF said
  <2> QED BY <1>1, <1>4, <1>6, <2>1, SendingKeeps
<1>7. CASE ~ (a.to \in online /\ a.op \notin {"mute", "unmute"})
  <2>1. asks' = Without(i) /\ (IF a.to \in online THEN touched' = touched \cup {a.to} ELSE touched' = touched)
    BY <1>1, <1>7
  <2>2. /\ asks' \in Seq(Requests) /\ SentFirst(asks')
        /\ \A d \in Endpoints, v \in Volumes, b \in Volumes \cup {NoVolume} :
             AskedLast(asks, d, b, v) => AskedLast(asks', d, b, v)
    BY <1>1, <2>1, WithoutIs
  <2>3. Sends(a.to, c)
    BY <1>1
  <2> HIDE DEF c
  <2>4. /\ wire' \in [Endpoints -> Seq(Command)]
        /\ \A d \in Endpoints \ {a.to} : wire'[d] = wire[d]
        /\ a.to \notin online => wire' = wire
    BY <1>3, <1>5, <2>3, WireKeeps DEF VolumeInv
  <2>5. ASSUME NEW d \in Endpoints \ touched'
        PROVE  \E v \in Volumes : SaysLast(wire'[d], device'[d], v) /\ AskedLast(asks', d, believed'[d], v)
    <3>1. d \notin touched /\ wire'[d] = wire[d] /\ device' = device /\ believed' = believed
      BY <1>1, <2>1, <2>4, <2>5
    <3>2. PICK v \in Volumes : SaysLast(wire[d], device[d], v) /\ AskedLast(asks, d, believed[d], v)
      BY <3>1 DEF VolumeInv
    <3>3. believed[d] \in Volumes \cup {NoVolume}
      BY DEF VolumeInv
    <3> QED BY <2>2, <3>1, <3>2, <3>3
  <2>6. touched' \subseteq Endpoints
    BY <1>3, <2>1 DEF VolumeInv
  <2> QED BY <1>1, <2>2, <2>4, <2>5, <2>6 DEF VolumeInv
<1> QED BY <1>6, <1>7

LEMMA VolumeFrame == VolumeInv /\ UNCHANGED <<wire, device, touched, asks, believed>> => VolumeInv'
BY DEF VolumeInv

LEMMA VolumeKeeps ==
  ASSUME RoundInv, VolumeInv, SettingsNext PROVE VolumeInv'
<1>1. CASE EditFile \/ Tick \/ \E e \in Endpoints : Connects(e) \/ PushNext(e)
  BY <1>1, VolumeFrame DEF EditFile, Tick, Connects, PushNext, deviceVars
<1>2. ASSUME NEW e \in Endpoints, Disconnect(e) PROVE VolumeInv'
  BY <1>2, LoseKeeps DEF Disconnect
<1> QED BY <1>1, <1>2, RunKeepsVolume, FinishKeepsVolume, SendersKeep, SpeakKeepsVolume, DevicesKeep
        DEF SettingsNext

LEMMA SettingsStep == SettingsInv /\ SettingsNext => SettingsInv'
BY ConfigurationKeeps, VolumeKeeps DEF SettingsInv

LEMMA SettingsFrame == SettingsInv /\ UNCHANGED settingsVars => SettingsInv'
<1> SUFFICES ASSUME SettingsInv, UNCHANGED settingsVars PROVE SettingsInv'
  OBVIOUS
<1>1. UNCHANGED <<file, held>> /\ UNCHANGED <<loop, rest, told, shortcut>> /\ UNCHANGED online
      /\ UNCHANGED <<wire, device, touched, asks, believed>>
  BY DEF settingsVars
<1> QED BY <1>1, ReadFrame, RoundFrame, VolumeFrame DEF SettingsInv

LEMMA SettingsShow ==
  SettingsInv => SettingsTypeOK /\ HeldIsTheFile /\ ReloadReachesButFor /\ VolumeIsAsBelieved
<1> SUFFICES ASSUME SettingsInv
             PROVE  SettingsTypeOK /\ HeldIsTheFile /\ ReloadReachesButFor /\ VolumeIsAsBelieved
  OBVIOUS
<1>1. asks \in Seq(Ask)
  <2>1. asks \in Seq(Requests) /\ Requests \subseteq Ask
    BY DEF SettingsInv, VolumeInv, Requests
  <2> QED BY <2>1, SeqMonotonic
<1>2. SettingsTypeOK
  BY <1>1 DEF SettingsInv, ReadInv, RoundInv, VolumeInv, SettingsTypeOK
<1>3. ReloadReachesButFor
  BY DEF SettingsInv, RoundInv, ReloadReachesButFor, ReloadReaches, AllSent, Round
<1>4. ASSUME NEW e \in Endpoints \ touched, wire[e] = <<>>, ~ device[e].saving,
             \A i \in 1 .. Len(asks) : asks[i].pc = "queued"
      PROVE  device[e].volume = believed[e] /\ device[e].muted = (device[e].volume = 0)
  <2>1. PICK v \in Volumes : SaysLast(wire[e], device[e], v) /\ AskedLast(asks, e, believed[e], v)
    BY DEF SettingsInv, VolumeInv
  <2>2. device[e].volume = v /\ device[e].muted = (v = 0)
    BY <1>4, <2>1 DEF SaysLast
  <2>3. believed[e] = v
    BY <1>4, <2>1 DEF AskedLast, SentTo
  <2> QED BY <2>2, <2>3
<1>5. VolumeIsAsBelieved
  BY <1>4 DEF VolumeIsAsBelieved
<1> QED BY <1>2, <1>3, <1>5 DEF SettingsInv, ReadInv

(* runtime_config.py, session_manager.py, the endpoint's board settings:   *)
(* what is held of the operator's file is what the file says, an endpoint  *)
(* was sent it unless an edit was seen outside a round, and the volume the *)
(* backend believes is the endpoint's once all has been taken in, for any  *)
(* number of endpoints, edits, requests and commands on the wires.         *)
THEOREM SettingsArrive ==
  SettingsSpec => [](SettingsTypeOK /\ HeldIsTheFile /\ ReloadReachesButFor /\ VolumeIsAsBelieved)
<1>1. SettingsInv /\ [SettingsNext]_settingsVars => SettingsInv'
  BY SettingsStep, SettingsFrame
<1> QED BY <1>1, SettingsInitInv, SettingsShow, PTL DEF SettingsSpec
-----------------------------------------------------------------------------
(* What is configured *)

ConfigInv == RuntimeInv /\ PiperInv /\ SettingsInv

LEMMA ConfigInitInv == ConfigInit => ConfigInv
BY RuntimeInitInv, PiperInitInv, SettingsInitInv DEF ConfigInit, ConfigInv

(* Each part's steps are the component's.                                  *)
LEMMA PartsAre ==
  ASSUME ConfigInv, ConfigNext
  PROVE  /\ RuntimeNext \/ UNCHANGED runtimeVars
         /\ PiperNext \/ UNCHANGED piperVars
         /\ SettingsNext \/ UNCHANGED settingsVars
<1>1. Only \in Endpoints /\ Only \in Senders
  BY DEF ConfigInv, SettingsInv, RoundInv, Only, Senders
<1>2. VolumeSteps => SettingsNext
  BY <1>1 DEF VolumeSteps, SettingsNext
<1>3. ReloadSteps => SettingsNext
  BY <1>1 DEF ReloadSteps, SettingsNext
<1>4. CASE part = "supervisor" /\ (SupervisorNext \/ BackendRestarts)
  BY <1>4 DEF ConfigNext, RuntimeNext
<1>5. CASE part = "engines" /\ ProviderNext
  BY <1>5 DEF ConfigNext, RuntimeNext
<1>6. CASE part = "piper" /\ PiperNext
  BY <1>6 DEF ConfigNext
<1>7. CASE part = "volume" /\ VolumeSteps
  BY <1>2, <1>7 DEF ConfigNext
<1>8. CASE part = "reload" /\ ReloadSteps
  BY <1>3, <1>8 DEF ConfigNext
<1> QED BY <1>4, <1>5, <1>6, <1>7, <1>8 DEF ConfigNext

LEMMA ConfigStep == ConfigInv /\ [ConfigNext]_vars => ConfigInv'
<1> SUFFICES ASSUME ConfigInv, [ConfigNext]_vars PROVE ConfigInv'
  OBVIOUS
<1>1. /\ RuntimeNext \/ UNCHANGED runtimeVars
      /\ PiperNext \/ UNCHANGED piperVars
      /\ SettingsNext \/ UNCHANGED settingsVars
  BY PartsAre DEF vars
<1>2. RuntimeInv'
  BY <1>1, RuntimeStep, RuntimeFrame DEF ConfigInv
<1>3. PiperInv'
  BY <1>1, PiperStep, PiperFrame DEF ConfigInv
<1>4. SettingsInv'
  BY <1>1, SettingsStep, SettingsFrame DEF ConfigInv
<1> QED BY <1>2, <1>3, <1>4 DEF ConfigInv

LEMMA ConfigShows == ConfigInv => ConfigurationInv
BY RuntimeShows, PiperShows, SettingsShow DEF ConfigInv, ConfigurationInv

(* runtime_config.py, runtime/service.py, tts/service.py: what is          *)
(* configured is what runs.  Every engine runs a choice, no process of     *)
(* Piper's is lost, what is held of the operator's file is what it says    *)
(* and reached the endpoints, and a volume is the one believed, for every  *)
(* number of engines, voices, endpoints, requests and edits.               *)
THEOREM ConfigurationHolds == ConfigSpec => []ConfigurationInv
BY ConfigInitInv, ConfigStep, ConfigShows, PTL DEF ConfigSpec
=============================================================================
