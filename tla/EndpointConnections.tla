------------------------- MODULE EndpointConnections -------------------------
(***************************************************************************)
(* src/hexevoice/voice/session_manager.py: the control WebSockets of ONE   *)
(* endpoint and the runtimes behind them.                                  *)
(*                                                                         *)
(* handle_websocket is one coroutine per connection.  It keeps an          *)
(* EndpointSessionRuntime of its own, and one of them is registered for    *)
(* the endpoint in _endpoint_runtimes.  A connection that finds another    *)
(* runtime registered first takes it apart (_replace_endpoint_runtime),    *)
(* and awaits there while the sockets of the old connection close: every   *)
(* other coroutine may run meanwhile.  VoiceSession takes a replacement as *)
(* one step; here it is opened up at its awaits.                           *)
(*                                                                         *)
(* Abstractions: what a session does between its start and its end is left *)
(* to VoiceSession; the firmware gives endpoint_id in the query, so a      *)
(* runtime is bound when it is made; connection_active and websocket are   *)
(* always set and cleared together.                                        *)
(***************************************************************************)
EXTENDS Naturals

CONSTANTS Connections,   \* bound: how often the endpoint connects
          Nothing        \* no runtime is registered, or being replaced

Sockets == 1 .. Connections   \* in the order in which they connect

ASSUME ConnectionsAssumption ==
  Connections \in Nat /\ Nothing \notin Nat

VARIABLES
  phase,     \* where the coroutine of each socket is
  target,    \* the runtime it is replacing
  bound,     \* _endpoint_runtimes[endpoint]
  active,    \* connection_active of each runtime
  audio,     \* audio_websocket of each runtime is connected
  open,      \* the control socket has not been closed by either side
  session,   \* _active_session of each runtime
  filed      \* history: records filed for the current session

cvars == <<phase, target, bound, active, audio, open, session, filed>>

Phases == {"absent", "closing audio", "closing control", "starting",
           "serving", "ended"}

Closing == {"closing audio", "closing control"}

-----------------------------------------------------------------------------

Registered == bound # Nothing /\ active[bound]

(* Mutant: the runtime is reset to the marker of an empty registry.        *)
FileAndForget(k) ==
  /\ filed' = [filed EXCEPT ![k] = IF session[k] = "none" THEN @ ELSE @ + 1]
  /\ session' = [session EXCEPT ![k] = Nothing]

(* Mutant: the runtime is cleared before its session is filed.             *)
ClearBeforeFiling(k) ==
  /\ session' = [session EXCEPT ![k] = "none"]
  /\ UNCHANGED filed

(* _persist_active_session_history and _clear_active_session_runtime.      *)
FileAndClear(k) ==
  /\ filed' = [filed EXCEPT ![k] = IF session[k] = "none" THEN @ ELSE @ + 1]
  /\ session' = [session EXCEPT ![k] = "none"]

(* _bind_runtime_endpoint: a runtime in use keeps its place.               *)
BindOver(b, live, k) == IF b # Nothing /\ b # k /\ live[b] THEN b ELSE k

(* The runtime of a new connection is made and bound.                      *)
Serve(k, b, live) ==
  /\ active' = [live EXCEPT ![k] = TRUE]
  /\ bound' = BindOver(b, live, k)
  /\ phase' = [phase EXCEPT ![k] = "starting"]
  /\ target' = [target EXCEPT ![k] = Nothing]

Connect(k) ==
  /\ phase[k] = "absent"
  /\ \A j \in Sockets : j < k => phase[j] # "absent"
  /\ ~ Registered
  /\ Serve(k, bound, active)
  /\ open' = [open EXCEPT ![k] = TRUE]
  /\ UNCHANGED <<audio, session, filed>>

(* The runtime in use is replaced: its session is cancelled and filed, but *)
(* it stays in place until the sockets are closed.                         *)
BeginReplacement(k) ==
  /\ phase[k] = "absent"
  /\ \A j \in Sockets : j < k => phase[j] # "absent"
  /\ Registered
  /\ target' = [target EXCEPT ![k] = bound]
  /\ session' = [session EXCEPT
       ![bound] = IF @ = "none" THEN @ ELSE "cancelled"]
  /\ filed' = [filed EXCEPT
       ![bound] = IF session[bound] = "none" THEN @ ELSE @ + 1]
  /\ \/ /\ audio[bound]
        /\ phase' = [phase EXCEPT ![k] = "closing audio"]
        /\ open' = [open EXCEPT ![k] = TRUE]
     \/ /\ ~ audio[bound]
        /\ phase' = [phase EXCEPT ![k] = "closing control"]
        /\ open' = [open EXCEPT ![k] = TRUE, ![bound] = FALSE]
  /\ UNCHANGED <<bound, active, audio>>

(* Mutant: after the awaits the registry is consulted again.               *)
FinishWithRegistered(k) ==
  LET r == IF bound = Nothing THEN target[k] ELSE bound
  IN /\ audio' = [audio EXCEPT ![r] = FALSE]
     /\ session' = [session EXCEPT ![r] = "none"]
     /\ Serve(k, Nothing, [active EXCEPT ![r] = FALSE])
     /\ UNCHANGED <<open, filed>>

(* The replaced runtime is emptied and forgotten, and the new one made.    *)
FinishReplacement(k) ==
  LET r == target[k]
  IN /\ audio' = [audio EXCEPT ![r] = FALSE]
     /\ session' = [session EXCEPT ![r] = "none"]
     /\ Serve(k, IF bound = r THEN Nothing ELSE bound,
              [active EXCEPT ![r] = FALSE])
     /\ UNCHANGED <<open, filed>>

(* The audio socket is closed; the control socket may be gone by now.      *)
AudioClosed(k) ==
  /\ phase[k] = "closing audio"
  /\ \/ /\ active[target[k]]
        /\ phase' = [phase EXCEPT ![k] = "closing control"]
        /\ open' = [open EXCEPT ![target[k]] = FALSE]
        /\ UNCHANGED <<target, bound, active, audio, session, filed>>
     \/ ~ active[target[k]] /\ FinishReplacement(k)

ControlClosed(k) == phase[k] = "closing control" /\ FinishReplacement(k)

(* _push_startup_runtime_config has sent its commands.                     *)
Started(k) ==
  /\ phase[k] = "starting"
  /\ phase' = [phase EXCEPT ![k] = "serving"]
  /\ UNCHANGED <<target, bound, active, audio, open, session, filed>>

(* A send of it failed: the exception leaves handle_websocket before its   *)
(* try block, and nothing is cleaned up.                                   *)
StartFails(k) ==
  /\ phase[k] = "starting" /\ Registered /\ ~ open[bound]
  /\ phase' = [phase EXCEPT ![k] = "ended"]
  /\ UNCHANGED <<target, bound, active, audio, open, session, filed>>

(* Mutant: a handler that fails leaves the loop outside its finally block. *)
HandlerCrashes(k) ==
  /\ phase[k] = "serving"
  /\ phase' = [phase EXCEPT ![k] = "ended"]
  /\ UNCHANGED <<target, bound, active, audio, open, session, filed>>

(* The loop of handle_websocket ends, by a disconnect or an exception, and *)
(* its finally block runs; the runtime stays registered.                   *)
HandlerEnds(k) ==
  /\ phase[k] = "serving"
  /\ phase' = [phase EXCEPT ![k] = "ended"]
  /\ active' = [active EXCEPT ![k] = FALSE]
  /\ open' = [open EXCEPT ![k] = FALSE]
  /\ FileAndClear(k)
  /\ UNCHANGED <<target, bound, audio>>

-----------------------------------------------------------------------------
(* Events on an established connection *)

(* An event of one connection is refused while another is registered.      *)
Heard(k) == phase[k] = "serving" /\ (Registered => bound = k)

(* A reply cannot be sent on a socket the backend has closed, so there the *)
(* event is the last one and the finally block follows at once.            *)
SessionStarts(k) ==
  /\ Heard(k) /\ session[k] = "none" /\ open[k]
  /\ session' = [session EXCEPT ![k] = "live"]
  /\ filed' = [filed EXCEPT ![k] = 0]
  /\ UNCHANGED <<phase, target, bound, active, audio, open>>

(* The session ends: a turn, a cancel, a timeout.  A session cancelled by  *)
(* a replacement is still in place, and ends and is filed again.           *)
SessionEnds(k) ==
  /\ Heard(k) \/ (bound = k /\ active[k])
  /\ session[k] # "none"
  /\ FileAndClear(k)
  /\ UNCHANGED <<phase, target, bound, active, audio, open>>

AudioConnects ==
  /\ Registered /\ ~ audio[bound]
  /\ audio' = [audio EXCEPT ![bound] = TRUE]
  /\ UNCHANGED <<phase, target, bound, active, open, session, filed>>

AudioDisconnects(k) ==
  /\ audio[k]
  /\ audio' = [audio EXCEPT ![k] = FALSE]
  /\ UNCHANGED <<phase, target, bound, active, open, session, filed>>

(* The endpoint reboots, or the network drops the connection.              *)
ConnectionLost(k) ==
  /\ open[k]
  /\ open' = [open EXCEPT ![k] = FALSE]
  /\ UNCHANGED <<phase, target, bound, active, audio, session, filed>>

-----------------------------------------------------------------------------

Init ==
  /\ phase = [k \in Sockets |-> "absent"]
  /\ target = [k \in Sockets |-> Nothing]
  /\ bound = Nothing
  /\ active = [k \in Sockets |-> FALSE]
  /\ audio = [k \in Sockets |-> FALSE]
  /\ open = [k \in Sockets |-> FALSE]
  /\ session = [k \in Sockets |-> "none"]
  /\ filed = [k \in Sockets |-> 0]

Handler(k) ==
  \/ AudioClosed(k) \/ ControlClosed(k) \/ Started(k) \/ StartFails(k)
  \/ HandlerEnds(k)

Events(k) ==
  \/ Connect(k) \/ BeginReplacement(k) \/ SessionStarts(k) \/ SessionEnds(k)
  \/ AudioDisconnects(k) \/ ConnectionLost(k)

Next == (\E k \in Sockets : Handler(k) \/ Events(k)) \/ AudioConnects

Spec == Init /\ [][Next]_cvars

-----------------------------------------------------------------------------
(* Properties *)

(* Every variable stays in its type (EndpointSessionRuntime).              *)
TypeOK ==
  /\ phase \in [Sockets -> Phases]
  /\ target \in [Sockets -> Sockets \cup {Nothing}]
  /\ bound \in Sockets \cup {Nothing}
  /\ active \in [Sockets -> BOOLEAN] /\ audio \in [Sockets -> BOOLEAN]
  /\ open \in [Sockets -> BOOLEAN]
  /\ session \in [Sockets -> {"none", "live", "cancelled"}]
  /\ filed \in [Sockets -> Nat]

(* No session is left behind by its connection, although handle_websocket  *)
(* has two ways out, one without cleanup, and a replacement may empty the  *)
(* runtime under it: nobody would ever end that session.                   *)
NoSessionOutlivesHandler ==
  \A k \in Sockets : phase[k] = "ended" => session[k] = "none"

(* A command is sent to the registered runtime; if its socket is open, a   *)
(* coroutine is there to read the acknowledgement.                         *)
CommandsHaveAReader ==
  Registered /\ open[bound] => phase[bound] \in {"starting", "serving"}

(* docs/local-tts-runtime.md:258, "Recent voice sessions are also          *)
(* persisted": a session is dropped without a record only by a replacement *)
(* of its connection, and then only if it began while the replacement was  *)
(* waiting for the old sockets to close.                                   *)
DroppedOnlyDuringReplacement ==
  [][\A k \in Sockets :
       session[k] # "none" /\ session'[k] = "none" /\ filed'[k] = 0
         => /\ session[k] = "live"
            /\ \E j \in Sockets : phase[j] \in Closing /\ target[j] = k
    ]_cvars

(* A replacement that finishes late, after other connections came and      *)
(* went, takes apart the runtime it looked up before its awaits and never  *)
(* a newer one.                                                            *)
NewerConnectionsSpared ==
  [][\A k \in Sockets :
       active[k] /\ ~ active'[k]
         => phase'[k] = "ended" \/ \E j \in Sockets : j > k /\ target[j] = k
    ]_cvars

-----------------------------------------------------------------------------
(* What documents and tests say and the code does not do; see the README.  *)

(* tests/test_voice_websocket.py:492: after a duplicate control socket     *)
(* replaced another, commands reach the endpoint.  Here the endpoint has   *)
(* one connection left, open and served.                                   *)
LoneConnectionIsReachable ==
  \A k \in Sockets :
    /\ phase[k] = "serving" /\ open[k]
    /\ \A j \in Sockets : j # k => phase[j] \in {"absent", "ended"}
    => bound = k
=============================================================================
