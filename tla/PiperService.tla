---------------------------- MODULE PiperService ----------------------------
(* The Piper container: a process that stays loaded for each warm voice.      *)
(*                                                                            *)
(* A table holds one worker for each model of the list in the environment; it *)
(* is filled from that list whenever it is found empty.  PUT /config swaps the*)
(* table, stops the old workers, starts the new ones and only then keeps the  *)
(* new list.  The endpoints are plain functions, so FastAPI runs each request *)
(* in a thread of its own; one lock guards the table and one each worker.     *)
EXTENDS Naturals, FiniteSets

CONSTANTS
  Models,      \* the voices whose model file is installed
  Unknown,     \* a voice without a file
  Puts,        \* requests to PUT /config
  MaxWorkers   \* workers ever created

ASSUME PiperAssumption == Unknown \notin Models /\ Models # {} /\ MaxWorkers \in Nat

VARIABLES
  serving,     \* the container is up
  default,     \* PIPER_TTS_MODEL_PATH
  list,        \* PIPER_TTS_WARM_VOICES
  table,       \* _WARM_WORKERS
  made,        \* WarmPiperWorkers so far: each has its number
  running,     \* the workers whose process lives
  puts,        \* each request: where it is, the workers still to stop and to start
  overlapped   \* two of the requests were under way at once (for the properties)

piperVars == <<serving, default, list, table, made, running, puts, overlapped>>

Voices  == Models \cup {Unknown}
Workers == [model : Models, number : 1 .. MaxWorkers]
NoPut   == [pc |-> "idle", old |-> {}, new |-> {}, voices |-> {}]
AtWork  == {p \in Puts : puts[p].pc # "idle"}

PiperTypeOK ==
  /\ serving \in BOOLEAN /\ default \in Models /\ list \subseteq Voices
  /\ table \subseteq Workers /\ \A v, w \in table : v.model = w.model => v = w
  /\ made \in 0 .. MaxWorkers /\ running \subseteq Workers
  /\ \A p \in Puts : /\ puts[p].pc \in {"idle", "workers", "stop", "start", "keep"}
                     /\ puts[p].old \subseteq Workers /\ puts[p].new \subseteq Workers
                     /\ puts[p].voices \subseteq Voices
  /\ overlapped \in BOOLEAN

PiperInit ==
  /\ serving = FALSE /\ default \in Models /\ list \in SUBSET Voices
  /\ table = {} /\ made = 0 /\ running = {}
  /\ puts = [p \in Puts |-> NoPut] /\ overlapped = FALSE

-----------------------------------------------------------------------------
(* A voice without a file speaks with the default model, and its warm worker  *)
(* is the default's.                                                          *)
ModelFor(voice) == IF voice \in Models THEN voice ELSE default

WorkersFor(models) == {[model |-> m, number |-> made + 1] : m \in models}

(* _warm_workers: an empty table is filled; the workers are not started.      *)
Filled == IF table = {} THEN WorkersFor({ModelFor(v) : v \in list}) ELSE table
Fills  == /\ table' = Filled
          /\ IF table = {} /\ list # {} THEN made < MaxWorkers /\ made' = made + 1
                                        ELSE UNCHANGED made

(* A worker whose process could not be started, or whose prewarming fails,    *)
(* raises; the process may live on.                                           *)
Start(w, ok) ==
  IF ok THEN running' = running \cup {w}
        ELSE running' \in {running \cup {w}, running \ {w}}

(* The lifespan starts every worker before the first request is served; at    *)
(* the first that fails the container ends with its processes.                *)
Boot ==
  /\ ~ serving /\ Fills
  /\ serving' = TRUE /\ running' = table'
  /\ UNCHANGED <<default, list, puts, overlapped>>

(* Requests are finished first; the next container reads its own files.       *)
Shutdown ==
  /\ serving /\ AtWork = {}
  /\ serving' = FALSE /\ table' = {} /\ running' = {} /\ overlapped' = FALSE
  /\ UNCHANGED <<default, list, made, puts>>

(* GET /health lists the table's workers.                                     *)
Health == serving /\ Fills /\ UNCHANGED <<serving, default, list, running, puts, overlapped>>

(* A process may end; the next start of its worker makes another.             *)
ProcessEnds ==
  /\ \E w \in running : running' = running \ {w}
  /\ UNCHANGED <<serving, default, list, table, made, puts, overlapped>>

-----------------------------------------------------------------------------
(* PUT /config: the default voice is kept before the warm voices are looked   *)
(* at; an unknown one is refused with nothing, or only the default, changed.  *)
UpdateConfig(p) ==
  /\ serving /\ puts[p].pc = "idle"
  /\ default' \in Models
  /\ \E voices \in SUBSET Models :
       puts' = [puts EXCEPT ![p] = [NoPut EXCEPT !.pc = "workers", !.voices = voices]]
  /\ overlapped' = (overlapped \/ AtWork # {})
  /\ UNCHANGED <<serving, list, table, made, running>>

RefuseConfig == serving /\ default' \in Models
                /\ UNCHANGED <<serving, list, table, made, running, puts, overlapped>>

(* _replace_warm_workers, under the table's lock.                             *)
ReplaceWorkers(p) ==
  LET new == WorkersFor(puts[p].voices) IN
  /\ puts[p].pc = "workers" /\ made < MaxWorkers
  /\ made' = made + 1 /\ table' = new
  /\ puts' = [puts EXCEPT ![p].pc = "stop", ![p].old = table, ![p].new = new]
  /\ UNCHANGED <<serving, default, list, running, overlapped>>

(* Mutant: the workers that were replaced are forgotten, not stopped.         *)
Forgets(w) == UNCHANGED running

Stops(w) == running' = running \ {w}

StopOld(p) ==
  /\ puts[p].pc = "stop"
  /\ IF puts[p].old = {}
     THEN puts' = [puts EXCEPT ![p].pc = "start"] /\ UNCHANGED running
     ELSE \E w \in puts[p].old : /\ Stops(w)
                                 /\ puts' = [puts EXCEPT ![p].old = @ \ {w}]
  /\ UNCHANGED <<serving, default, list, table, made, overlapped>>

(* A worker that cannot be started answers 500: the table stays replaced, and *)
(* neither the other workers nor the list are seen to.                        *)
StartNew(p) ==
  /\ puts[p].pc = "start"
  /\ IF puts[p].new = {}
     THEN puts' = [puts EXCEPT ![p].pc = "keep"] /\ UNCHANGED running
     ELSE \E w \in puts[p].new, ok \in BOOLEAN :
            /\ Start(w, ok)
            /\ puts' = [puts EXCEPT ![p] = IF ok THEN [puts[p] EXCEPT !.new = puts[p].new \ {w}]
                                                 ELSE NoPut]
  /\ UNCHANGED <<serving, default, list, table, made, overlapped>>

(* The list is kept and the answer is health's.                               *)
KeepList(p) ==
  /\ puts[p].pc = "keep"
  /\ list' = puts[p].voices
  /\ table' = IF table = {} THEN WorkersFor(puts[p].voices) ELSE table
  /\ IF table' # table THEN made < MaxWorkers /\ made' = made + 1 ELSE UNCHANGED made
  /\ puts' = [puts EXCEPT ![p] = NoPut]
  /\ UNCHANGED <<serving, default, running, overlapped>>

PiperNext ==
  \/ Boot \/ Shutdown \/ Health \/ ProcessEnds \/ RefuseConfig
  \/ \E p \in Puts : UpdateConfig(p) \/ ReplaceWorkers(p) \/ StopOld(p) \/ StartNew(p) \/ KeepList(p)

PiperSpec == PiperInit /\ [][PiperNext]_piperVars

-----------------------------------------------------------------------------
(* No process is lost: unless two requests overlapped, every process that     *)
(* runs is the table's or is about to be stopped by the request that replaced *)
(* it, so the next PUT /config or the end of the container stops it, however  *)
(* requests failed and health refilled the table in between.                  *)
ProcessesAreListed ==
  ~ overlapped => running \subseteq table \cup UNION {puts[p].old : p \in Puts}
=============================================================================
