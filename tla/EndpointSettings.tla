-------------------------- MODULE EndpointSettings --------------------------
(* The settings of the endpoints: the operator's file of them, which is read  *)
(* again when its signature changes and pushed to the endpoints, and the      *)
(* volume, which a voice, a file and a knob may set.                          *)
(*                                                                            *)
(* Each endpoint that connects is sent the settings of its own; a task of the *)
(* backend looks at the file every two seconds and, when it has changed,      *)
(* sends its settings to the endpoints that are connected then.  Both read the*)
(* file through EndpointRuntimeConfig, which remembers the signature it read. *)
EXTENDS Integers, Sequences

CONSTANTS
  Endpoints,
  HotReload,      \* the backend's task, beside the connections' handlers
  Invalid,        \* a file that cannot be parsed
  NoVolume,       \* a volume that is not set, or not known
  MaxVolume,      \* 100 percent
  DefaultVolume,  \* of a new endpoint, and what an unknown one is taken for
  MaxEdits, MaxAsks, MaxWire   \* bounds: edits of the file, spoken requests, commands on a wire

ASSUME SettingsAssumption ==
  /\ HotReload \notin Endpoints
  /\ MaxVolume \in Nat \ {0} /\ DefaultVolume \in 0 .. MaxVolume /\ NoVolume \notin 0 .. MaxVolume
  /\ MaxEdits \in Nat /\ MaxAsks \in Nat /\ MaxWire \in Nat

VARIABLES
  file,      \* the operator's file: its content and its signature
  held,      \* what EndpointRuntimeConfig read, and the signature it then had
  loop,      \* the hot reload's endpoints that are still to be seen to, and the one being sent to
  rest,      \* what each sender has yet to send
  online,    \* the endpoints with a connection
  wire,      \* the commands on it
  asks,      \* the spoken requests whose tasks have not ended, oldest first
  believed,  \* _last_volume_percent_by_endpoint
  device,    \* each endpoint: its volume and mute, those it saved, and whether it is saving
  told,      \* the settings each endpoint was last sent, by signature (for the properties)
  shortcut,  \* an edit was picked up, or given up, outside the hot reload's round (for the properties)
  touched    \* the volume was set by something else since it was last asked for (for the properties)

settingsVars == <<file, held, loop, rest, online, wire, asks, believed, device, told, shortcut, touched>>
deviceVars   == <<wire, device, touched>>
configVars   == <<file, held, told, shortcut>>

Volumes  == 0 .. MaxVolume
Contents == [volume : Volumes \cup {NoVolume}, mute : {"unset", "on", "off"}, restart : BOOLEAN]
Unset    == [volume |-> NoVolume, mute |-> "unset", restart |-> FALSE]
Command  == [op : {"volume", "mute", "unmute", "restart"}, volume : Volumes]
Senders  == Endpoints \cup {HotReload}
Device   == [volume : Volumes, muted : BOOLEAN, saved : Volumes, savedMute : {"unset", "on", "off"},
             saving : BOOLEAN]
Ask      == [pc : {"queued", "sent"}, to : Endpoints, op : {"set", "adjust", "mute", "unmute"},
             by : -1 .. MaxVolume, target : Volumes]

SettingsTypeOK ==
  /\ file.content \in Contents \cup {Invalid} /\ file.stamp \in 0 .. MaxEdits
  /\ held.content \in Contents /\ held.stamp \in 0 .. MaxEdits
  /\ loop.todo \subseteq Endpoints /\ loop.to \in Endpoints /\ online \subseteq Endpoints
  /\ \A s \in Senders : rest[s] \in Seq(Command)
  /\ \A e \in Endpoints : wire[e] \in Seq(Command) /\ device[e] \in Device
  /\ asks \in Seq(Ask) /\ believed \in [Endpoints -> Volumes \cup {NoVolume}]
  /\ told \in [Endpoints -> 0 .. MaxEdits] /\ shortcut \in BOOLEAN /\ touched \subseteq Endpoints

NewDevice == [volume |-> DefaultVolume, muted |-> FALSE, saved |-> DefaultVolume,
              savedMute |-> "unset", saving |-> FALSE]

(* The backend starts: the file, if there is one, has been read.              *)
SettingsInit ==
  /\ file = [content |-> Unset, stamp |-> 0] /\ held = file
  /\ loop \in [todo : {{}}, to : Endpoints] /\ rest = [s \in Senders |-> <<>>]
  /\ online = {} /\ wire = [e \in Endpoints |-> <<>>] /\ asks = <<>>
  /\ believed = [e \in Endpoints |-> NoVolume] /\ device = [e \in Endpoints |-> NewDevice]
  /\ told = [e \in Endpoints |-> 0] /\ shortcut = FALSE /\ touched = Endpoints

-----------------------------------------------------------------------------
(* The file.                                                                  *)

Edited == /\ file.stamp < MaxEdits
          /\ file' \in [content : Contents \cup {Invalid}, stamp : {file.stamp + 1}]

EditFile == Edited /\ UNCHANGED <<held, loop, rest, online, asks, believed, told, shortcut>>
                   /\ UNCHANGED deviceVars

(* Mutant: the signature is taken after the file was read.                    *)
SignAfter(before, after) ==
  IF after.stamp = held.stamp \/ before.content = Invalid THEN held
  ELSE [content |-> before.content, stamp |-> after.stamp]

(* The signature is taken before the file is read, which the operator may be  *)
(* saving in between; a file that cannot be parsed leaves all as it was.      *)
Reloaded(before, after) ==
  IF before.stamp = held.stamp \/ after.content = Invalid THEN held
  ELSE [content |-> after.content, stamp |-> before.stamp]

Reload == (Edited \/ UNCHANGED file) /\ held' = Reloaded(file, file')

CommandsFor(c) ==
  LET Some(present, op, v) == IF present THEN <<[op |-> op, volume |-> v]>> ELSE <<>> IN
     Some(c.volume # NoVolume, "volume", IF c.volume = NoVolume THEN 0 ELSE c.volume)
  \o Some(c.mute # "unset", IF c.mute = "on" THEN "mute" ELSE "unmute", 0)
  \o Some(c.restart, "restart", 0)

(* _push_startup_runtime_config: config_for looks at the file first.          *)
PushConfig(s, e) ==
  /\ Reload
  /\ rest' = [rest EXCEPT ![s] = CommandsFor(held'.content)]
  /\ told' = [told EXCEPT ![e] = held'.stamp]
  /\ shortcut' = (shortcut \/ held' # held)

(* Mutant: a handler sends nothing when the file has not changed.             *)
ConnectQuietly(e) ==
  /\ e \notin online /\ rest[e] = <<>>
  /\ online' = online \cup {e} /\ Reload
  /\ told' = IF held' # held THEN [told EXCEPT ![e] = held'.stamp] ELSE told
  /\ shortcut' = (shortcut \/ held' # held)
  /\ UNCHANGED <<loop, rest, asks, believed>> /\ UNCHANGED deviceVars

Connects(e) ==
  /\ e \notin online /\ rest[e] = <<>>
  /\ online' = online \cup {e} /\ PushConfig(e, e)
  /\ UNCHANGED <<loop, asks, believed>> /\ UNCHANGED deviceVars

Round == loop.todo # {} \/ rest[HotReload] # <<>>

(* push_reloaded_runtime_config_to_connected_endpoints.                       *)
Tick ==
  /\ ~ Round /\ Reload
  /\ loop' = [loop EXCEPT !.todo = IF held' # held THEN online ELSE {}]
  /\ UNCHANGED <<rest, online, asks, believed, told, shortcut>> /\ UNCHANGED deviceVars

PushNext(e) ==
  /\ e \in loop.todo /\ rest[HotReload] = <<>>
  /\ loop' = [todo |-> loop.todo \ {e}, to |-> e] /\ PushConfig(HotReload, e)
  /\ UNCHANGED <<online, asks, believed>> /\ UNCHANGED deviceVars

Target(s) == IF s = HotReload THEN loop.to ELSE s

(* _push_endpoint_command: not accepted when the endpoint has no connection.  *)
Sends(e, command) ==
  IF e \in online THEN Len(wire[e]) < MaxWire /\ wire' = [wire EXCEPT ![e] = Append(@, command)]
                  ELSE UNCHANGED wire

SendNext(s) ==
  /\ rest[s] # <<>> /\ Sends(Target(s), Head(rest[s]))
  /\ rest' = [rest EXCEPT ![s] = Tail(@)]
  /\ touched' = touched \cup {Target(s)}
  /\ UNCHANGED <<loop, online, asks, believed, device>> /\ UNCHANGED configVars

Lose(e) == /\ online' = online \ {e} /\ wire' = [wire EXCEPT ![e] = <<>>]
           /\ touched' = IF wire[e] = <<>> THEN touched ELSE touched \cup {e}

(* The connection breaks under a sender: the handler ends with it, and the    *)
(* hot reload gives up its round.  The runtime such a handler leaves behind   *)
(* is EndpointConnections' subject.                                           *)
SendFails(s) ==
  /\ rest[s] # <<>> /\ Target(s) \in online /\ Lose(Target(s))
  /\ rest' = [rest EXCEPT ![s] = <<>>]
  /\ loop' = IF s = HotReload THEN [loop EXCEPT !.todo = {}] ELSE loop
  /\ shortcut' = (shortcut \/ s = HotReload)
  /\ UNCHANGED <<file, held, told, asks, believed, device>>

Disconnect(e) ==
  /\ e \in online /\ Lose(e)
  /\ UNCHANGED <<loop, rest, asks, believed, device>> /\ UNCHANGED configVars

-----------------------------------------------------------------------------
(* Spoken requests: each is queued as a task and run in turn.                 *)

Spoken == [op : {"set"}, by : Volumes] \cup [op : {"adjust"}, by : {-1, 1}]
          \cup [op : {"mute", "unmute"}, by : {0}]

Speak(e) ==
  /\ Len(asks) < MaxAsks
  /\ \E x \in Spoken :
       asks' = Append(asks, [pc |-> "queued", to |-> e, op |-> x.op, by |-> x.by, target |-> 0])
  /\ UNCHANGED <<loop, rest, online, believed>> /\ UNCHANGED deviceVars /\ UNCHANGED configVars

Clamp(v) == IF v < 0 THEN 0 ELSE IF v > MaxVolume THEN MaxVolume ELSE v

(* An adjustment starts from the volume last accepted.                        *)
TargetOf(a) ==
  IF a.op = "set" THEN a.by
  ELSE Clamp((IF believed[a.to] = NoVolume THEN DefaultVolume ELSE believed[a.to]) + a.by)

Without(i) == SubSeq(asks, 1, i - 1) \o SubSeq(asks, i + 1, Len(asks))

RunAsk ==
  \E i \in 1 .. Len(asks) :
    LET a == asks[i]
        v == IF a.op \in {"set", "adjust"} THEN TargetOf(a) ELSE 0 IN
    /\ a.pc = "queued" /\ \A j \in 1 .. (i - 1) : asks[j].pc = "sent"
    /\ Sends(a.to, [op |-> IF a.op \in {"mute", "unmute"} THEN a.op ELSE "volume", volume |-> v])
    /\ IF a.to \notin online THEN asks' = Without(i) /\ UNCHANGED touched
       ELSE IF a.op \in {"mute", "unmute"} THEN asks' = Without(i) /\ touched' = touched \cup {a.to}
       ELSE /\ asks' = [asks EXCEPT ![i] = [a EXCEPT !.pc = "sent", !.target = v]]
            /\ touched' = touched \ {a.to}
    /\ UNCHANGED <<loop, rest, online, believed, device>> /\ UNCHANGED configVars

(* push_volume_command goes on after its send.                                *)
FinishAsk ==
  /\ asks # <<>> /\ Head(asks).pc = "sent"
  /\ believed' = [believed EXCEPT ![Head(asks).to] = Head(asks).target]
  /\ asks' = Tail(asks)
  /\ UNCHANGED <<loop, rest, online>> /\ UNCHANGED deviceVars /\ UNCHANGED configVars

-----------------------------------------------------------------------------
(* The endpoint.                                                              *)

(* Mutant: a volume above zero does not end a mute.                           *)
StaysMuted(d, v) ==
  [d EXCEPT !.volume = v, !.muted = @ \/ v = 0, !.saved = v, !.saving = TRUE]

(* set_output_volume_percent saves the volume, then the mute.                 *)
SetVolume(d, v) ==
  [d EXCEPT !.volume = v, !.muted = (v = 0), !.saved = v, !.saving = TRUE]

SetMuted(d, on) == [d EXCEPT !.muted = on, !.savedMute = IF on THEN "on" ELSE "off"]

SaveMute(e) ==
  /\ device[e].saving
  /\ device' = [device EXCEPT ![e] = [SetMuted(@, @.muted) EXCEPT !.saving = FALSE]]
  /\ UNCHANGED <<loop, rest, online, wire, asks, believed, touched>> /\ UNCHANGED configVars

(* init_settings: a volume of zero is a mute, once a mute was ever saved.     *)
Booted(d) ==
  [d EXCEPT !.volume = d.saved, !.saving = FALSE,
            !.muted = d.savedMute # "unset" /\ (d.savedMute = "on" \/ d.saved = 0)]

Receive(e) ==
  LET c == Head(wire[e]) IN
  /\ wire[e] # <<>> /\ ~ device[e].saving /\ c.op # "restart"
  /\ wire' = [wire EXCEPT ![e] = Tail(@)]
  /\ device' = [device EXCEPT ![e] = IF c.op = "volume" THEN SetVolume(@, c.volume)
                                     ELSE SetMuted(@, c.op = "mute")]
  /\ UNCHANGED <<loop, rest, online, asks, believed, touched>> /\ UNCHANGED configVars

(* The endpoint restarts, told to or not; what it was sent is lost.           *)
Restart(e) ==
  /\ device' = [device EXCEPT ![e] = Booted(@)]
  /\ online' = online \ {e} /\ wire' = [wire EXCEPT ![e] = <<>>]
  /\ touched' = IF wire[e] # <<>> \/ device[e].saving THEN touched \cup {e} ELSE touched
  /\ UNCHANGED <<loop, rest, asks, believed>> /\ UNCHANGED configVars

(* The knob, the touch panel and the mute switch.                             *)
UseKnob(e) ==
  /\ ~ device[e].saving
  /\ device' \in {[device EXCEPT ![e] = SetVolume(@, Clamp(@.volume + 1))],
                  [device EXCEPT ![e] = SetVolume(@, Clamp(@.volume - 1))],
                  [device EXCEPT ![e] = SetMuted(@, ~ @.muted)]}
  /\ touched' = touched \cup {e}
  /\ UNCHANGED <<loop, rest, online, wire, asks, believed>> /\ UNCHANGED configVars

SettingsNext ==
  \/ EditFile \/ Tick \/ RunAsk \/ FinishAsk
  \/ \E s \in Senders : SendNext(s) \/ SendFails(s)
  \/ \E e \in Endpoints : \/ Connects(e) \/ PushNext(e) \/ Disconnect(e) \/ Speak(e)
                          \/ SaveMute(e) \/ Receive(e) \/ Restart(e) \/ UseKnob(e)

SettingsSpec == SettingsInit /\ [][SettingsNext]_settingsVars

-----------------------------------------------------------------------------
(* The settings held under the file's signature are the file's, though it may *)
(* have been saved while it was read.                                         *)
HeldIsTheFile ==
  held.stamp = file.stamp /\ file.content # Invalid => held.content = file.content

AllSent == ~ Round /\ \A s \in Senders : rest[s] = <<>>

(* Once the file has been read and all is sent, every connected endpoint was  *)
(* sent what it says ...                                                      *)
ReloadReaches ==
  AllSent /\ held.stamp = file.stamp => \A e \in online : told[e] = held.stamp

(* ... unless a connection, or the round itself, read an edit before the hot  *)
(* reload could see it, or a round was given up: it then never comes round    *)
(* again.                                                                     *)
ReloadReachesButFor == ~ shortcut => ReloadReaches

(* When the commands have settled, the endpoint's volume is the one the       *)
(* backend believes, and it is muted at zero alone, however often it          *)
(* restarted since, unless something else set it.                             *)
VolumeIsAsBelieved ==
  \A e \in Endpoints \ touched :
    wire[e] = <<>> /\ ~ device[e].saving /\ (\A i \in 1 .. Len(asks) : asks[i].pc = "queued") =>
      device[e].volume = believed[e] /\ device[e].muted = (device[e].volume = 0)
=============================================================================
