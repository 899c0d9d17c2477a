----------------------------- MODULE MCProvider -----------------------------
(***************************************************************************)
(* Instances of ProviderRuntime for TLC.  The heartbeat and the engines    *)
(* share only the backend they restart with, Piper's container is seen     *)
(* from inside in PiperService, and the settings of the endpoints in       *)
(* EndpointSettings: a behaviour follows one of them.  A node that is      *)
(* operational has the first of the ids.                                   *)
(***************************************************************************)
EXTENDS ProviderRuntime, PiperService, EndpointSettings

VARIABLE part

vars == <<runtimeVars, piperVars, settingsVars, part>>

Trusted == CHOOSE n \in NodeIds : TRUE
Only    == CHOOSE e \in Endpoints : TRUE

ConfigInit ==
  /\ RuntimeInit /\ PiperInit /\ SettingsInit
  /\ part \in {"supervisor", "engines", "piper", "reload", "volume"}
  /\ part # "piper" => list = {} /\ default = Stock
  /\ loop.to = Only

(* The file's sections set a volume, a mute, or a restart.                 *)
Set      == [Unset EXCEPT !.volume = MaxVolume, !.mute = "off"]
Sections == {Invalid, Set, [Unset EXCEPT !.restart = TRUE]}

(* One endpoint's volume, asked for, set by its knob and by the file ...   *)
VolumeSteps ==
  \/ RunAsk \/ FinishAsk \/ SaveMute(Only) \/ Receive(Only) \/ Restart(Only) \/ UseKnob(Only)
  \/ Speak(Only) \/ SendNext(Only) \/ Disconnect(Only)
  \/ Connects(Only) /\ file'.content \in {Unset, Set} /\ file'.stamp < 2

(* ... and the file's way to several endpoints.                            *)
ReloadSteps ==
  \/ EditFile \/ Tick
  \/ \E s \in Senders : SendNext(s) \/ SendFails(s)
  \/ \E e \in Endpoints : Connects(e) \/ PushNext(e) \/ Restart(e)
  \/ Receive(Only) \/ SaveMute(Only)

(* Once two PUT /config overlapped nothing is claimed until the container    *)
(* ends, which leaves nothing behind.                                        *)
ConfigNext ==
  /\ part' = part
  /\ \/ /\ part = "supervisor" /\ (SupervisorNext \/ BackendRestarts)
        /\ identity'.ready => identity'.id = Trusted
     \/ part = "engines" /\ ProviderNext
     \/ part = "piper" /\ PiperNext /\ default' = Stock /\ ~ overlapped'
     \/ part = "volume" /\ VolumeSteps
     \/ part = "reload" /\ ReloadSteps
  /\ IF part = "piper" THEN UNCHANGED runtimeVars ELSE UNCHANGED piperVars
  /\ IF part \in {"volume", "reload"} THEN UNCHANGED runtimeVars /\ file'.content \in Sections \cup {Unset}
                                      ELSE UNCHANGED settingsVars

ConfigSpec == ConfigInit /\ [][ConfigNext]_vars /\ RuntimeFairness

(* What is configured is what runs: a reconciling task stops after its     *)
(* tries, no process of Piper's is lost, and the endpoints' settings are   *)
(* the file's and their volume the one believed.                           *)
ConfigurationInv ==
  /\ RuntimeTypeOK /\ PiperTypeOK /\ SettingsTypeOK
  /\ ProcessesAreListed /\ HeldIsTheFile /\ ReloadReachesButFor /\ VolumeIsAsBelieved
=============================================================================
