--------------------------- MODULE FirmwareUpdate ----------------------------
(***************************************************************************)
(* Updating the firmware of one endpoint over the air.                     *)
(*                                                                         *)
(* Backend: push_ota_update, clear_ota_commands and the command records.   *)
(* Endpoint (src/firmware/components/endpoint_runtime): start_ota_update,  *)
(* called by the WebSocket event task; ota_task, which downloads, checks   *)
(* and restarts; the boot validation of init_ota; websocket_task, which    *)
(* keeps the sockets closed while ota_active; and the Wi-Fi event handler. *)
(* They share ota_active without a lock.                                   *)
(*                                                                         *)
(* Abstractions: a command is named by the version it offers, and its      *)
(* record is the latest for that version; answers are not delayed (see     *)
(* CommandTracking); one ota.update is under way at a time; every fault of *)
(* a manifest but its version is one choice; the bootloader and the slots  *)
(* of ESP-IDF are external, modelled from how the code relies on them.     *)
(***************************************************************************)
EXTENDS Naturals, CommandRecord

CONSTANTS MaxVersion,   \* bound: versions offered
          Faulty,       \* versions whose image fails its start-up tests
          None          \* no version

Versions == 0 .. MaxVersion
Offers   == 1 .. MaxVersion

ASSUME UpdateAssumption ==
  /\ MaxVersion \in Nat /\ Faulty \subseteq Offers /\ None \notin Versions

VARIABLES
  record, due,   \* the backend's records, and those overdue
  inbox,         \* an ota.update under way to the endpoint
  wifi,          \* "up", "trying", or "left": nobody is reconnecting
  ws,            \* the control WebSocket is connected
  ready,         \* g_ota_queue exists
  queue,         \* g_ota_queue, one deep
  caller,        \* start_ota_update has queued this, not yet set ota_active
  active,        \* ota_active
  task,          \* ota_task: [at, req]
  content,       \* bytes of a slot: "signed", "unsigned", "partial"
  version,       \* the version of those bytes
  state,         \* the slot's state in otadata
  boot,          \* the slot otadata prefers
  running        \* the slot that runs

linkVars  == <<record, due, inbox, wifi, ws>>
flashVars == <<content, version, state, boot>>
uvars == <<linkVars, ready, queue, caller, active, task, flashVars, running>>

Slots == {"ota_0", "ota_1"}

Other(s) == IF s = "ota_0" THEN "ota_1" ELSE "ota_0"

Idle == [at |-> "waiting", req |-> None]

-----------------------------------------------------------------------------
(* Backend *)

Push(v) ==
  /\ ws /\ inbox = None
  /\ record[v] \in Terminal \cup {"none"}
  /\ inbox' = v
  /\ record' = [record EXCEPT ![v] = "pending"]
  /\ due' = due \ {v}
  /\ UNCHANGED <<wifi, ws, ready, queue, caller, active, task, flashVars, running>>

Overdue(v) ==
  /\ record[v] # "none" /\ due' = due \cup {v}
  /\ UNCHANGED <<record, inbox, wifi, ws, ready, queue, caller, active, task,
                 flashVars, running>>

StatusPoll ==
  /\ record' = Expired(record, due)
  /\ UNCHANGED <<due, inbox, wifi, ws, ready, queue, caller, active, task,
                 flashVars, running>>

(* clear_ota_commands, by the operator *)
Clear ==
  /\ record' = [v \in Offers |-> "none"] /\ due' = {}
  /\ UNCHANGED <<inbox, wifi, ws, ready, queue, caller, active, task, flashVars,
                 running>>

-----------------------------------------------------------------------------
(* The WebSocket event task *)

(* send_ws_text *)
Answer(v, status) ==
  record' = IF ws /\ ~ active THEN Answered(record, v, status) ELSE record

(* start_ota_update returns false: not initialised, an update is active,   *)
(* the version is not newer, the manifest is at fault, or the queue full.  *)
RefuseUpdate ==
  /\ inbox # None /\ caller = None
  /\ inbox' = None
  /\ Answer(inbox, "failed")
  /\ UNCHANGED <<due, wifi, ws, ready, queue, caller, active, task, flashVars,
                 running>>

(* Mutant: any version but the running one is accepted.                    *)
QueueAnyVersion ==
  /\ inbox # None /\ caller = None
  /\ ready /\ ~ active
  /\ inbox # version[running]
  /\ queue = None
  /\ queue' = inbox /\ caller' = inbox /\ inbox' = None
  /\ Answer(inbox, "accepted")
  /\ UNCHANGED <<due, wifi, ws, ready, active, task, flashVars, running>>

(* It is sent to the queue.                                                *)
QueueUpdate ==
  /\ inbox # None /\ caller = None
  /\ ready /\ ~ active
  /\ inbox > version[running]
  /\ queue = None
  /\ queue' = inbox /\ caller' = inbox /\ inbox' = None
  /\ Answer(inbox, "accepted")
  /\ UNCHANGED <<due, wifi, ws, ready, active, task, flashVars, running>>

(* ... and only then is the update marked active.                          *)
MarkActive ==
  /\ caller # None
  /\ active' = TRUE /\ caller' = None
  /\ UNCHANGED <<linkVars, ready, queue, task, flashVars, running>>

-----------------------------------------------------------------------------
(* ota_task *)

TakeUpdate ==
  /\ queue # None /\ task = Idle
  /\ task' = [at |-> "downloading", req |-> queue]
  /\ queue' = None /\ active' = TRUE
  /\ UNCHANGED <<linkVars, ready, caller, flashVars, running>>

(* The download cannot begin (ESP-IDF also refuses it while the running    *)
(* image is not confirmed), or breaks off and leaves part of an image.     *)
BreakOff ==
  /\ task.at = "downloading"
  /\ task' = [task EXCEPT !.at = "failed"]
  /\ \/ UNCHANGED content
     \/ /\ state[running] # "pending"
        /\ content' = [content EXCEPT ![Other(running)] = "partial"]
  /\ UNCHANGED <<linkVars, ready, queue, caller, active, version, state, boot,
                 running>>

(* The whole body is in the other slot, but size or SHA-256 is not the     *)
(* signed one: the artifact was rebuilt since it was pushed.               *)
Mismatch ==
  /\ task.at = "downloading" /\ wifi = "up" /\ state[running] # "pending"
  /\ task' = [task EXCEPT !.at = "mismatched"]
  /\ content' = [content EXCEPT ![Other(running)] = "unsigned"]
  /\ UNCHANGED <<linkVars, ready, queue, caller, active, version, state, boot,
                 running>>

(* esp_https_ota_finish: the other slot will be booted, on trial.          *)
Arm(bytes) ==
  /\ task' = [task EXCEPT !.at = "restarting"]
  /\ content' = [content EXCEPT ![Other(running)] = bytes]
  /\ version' = [version EXCEPT ![Other(running)] = task.req]
  /\ state' = [state EXCEPT ![Other(running)] = "new"]
  /\ boot' = Other(running)

(* Mutant: the digest is not compared.                                     *)
InstallUnchecked ==
  /\ task.at = "downloading" /\ wifi = "up" /\ state[running] # "pending"
  /\ \E bytes \in {"signed", "unsigned"} : Arm(bytes)
  /\ UNCHANGED <<linkVars, ready, queue, caller, active, running>>

Install ==
  /\ task.at = "downloading" /\ wifi = "up" /\ state[running] # "pending"
  /\ Arm("signed")
  /\ UNCHANGED <<linkVars, ready, queue, caller, active, running>>

(* Mutant: the request of the failed update is kept.                       *)
GiveUpKeepsRequest ==
  /\ task.at \in {"failed", "mismatched"}
  /\ task' = [task EXCEPT !.at = "waiting"] /\ active' = FALSE
  /\ UNCHANGED <<linkVars, ready, queue, caller, flashVars, running>>

GiveUp ==
  /\ task.at \in {"failed", "mismatched"}
  /\ task' = Idle /\ active' = FALSE
  /\ UNCHANGED <<linkVars, ready, queue, caller, flashVars, running>>

-----------------------------------------------------------------------------
(* Starting up *)

(* The bootloader, given the states of the slots: a trial that was not     *)
(* confirmed is over, a new image is tried, and without a usable image in  *)
(* either slot the factory's recovery image runs.                          *)
Boots(states) ==
  LET over   == [s \in Slots |-> IF states[s] = "pending" THEN "aborted"
                                                          ELSE states[s]]
      usable == {s \in Slots : over[s] \in {"new", "valid"}
                               /\ content[s] # "partial"}
      chosen == IF boot \in usable THEN boot
                ELSE IF Other(boot) \in usable THEN Other(boot) ELSE "factory"
  IN /\ running' = chosen
     /\ state' = [s \in Slots |-> IF s = chosen /\ over[s] = "new"
                                    THEN "pending" ELSE over[s]]

(* Nothing but the flash and the backend survives.                         *)
ColdStart ==
  /\ inbox' = None /\ wifi' = "trying" /\ ws' = FALSE
  /\ ready' = FALSE /\ queue' = None /\ caller' = None
  /\ active' = FALSE /\ task' = Idle
  /\ UNCHANGED <<record, due, content, version, boot>>

(* esp_restart after an update or on command, a crash, a loss of power.    *)
Restart == running \in Slots /\ Boots(state) /\ ColdStart

OnTrial == running \in Slots /\ state[running] = "pending"

Initialised ==
  /\ ready' = TRUE
  /\ UNCHANGED <<linkVars, queue, caller, active, task, content, version, boot,
                 running>>

(* Mutant: the image is confirmed before its tests.                        *)
ConfirmUntested ==
  /\ ~ ready /\ OnTrial
  /\ state' = [state EXCEPT ![running] = "valid"]
  /\ Initialised

(* validate_pending_boot_image, its three outcomes, and init_ota.          *)
ConfirmTrial ==
  /\ ~ ready /\ OnTrial /\ version[running] \notin Faulty
  /\ state' = [state EXCEPT ![running] = "valid"]
  /\ Initialised

(* A test fails, on a sound image because of its hardware.                 *)
RejectTrial ==
  /\ ~ ready /\ OnTrial
  /\ Boots([state EXCEPT ![running] = "invalid"])
  /\ ColdStart

(* Nothing to validate, or otadata cannot be written: the image stays on   *)
(* trial and runs on.                                                      *)
StartUnconfirmed ==
  /\ ~ ready /\ running \in Slots
  /\ UNCHANGED state /\ Initialised

-----------------------------------------------------------------------------
(* The network *)

WifiConnects ==
  /\ wifi = "trying" /\ wifi' = "up"
  /\ UNCHANGED <<record, due, inbox, ws, ready, queue, caller, active, task,
                 flashVars, running>>

(* WIFI_EVENT_STA_DISCONNECTED: a connection lost, or an attempt failed.   *)
WifiDrops ==
  /\ wifi # "left"
  /\ wifi' = IF active THEN "left" ELSE "trying"
  /\ ws' = FALSE /\ inbox' = None
  /\ UNCHANGED <<record, due, ready, queue, caller, active, task, flashVars,
                 running>>

(* websocket_task *)
SocketOpens ==
  /\ wifi = "up" /\ ~ active /\ ~ ws /\ ws' = TRUE
  /\ UNCHANGED <<record, due, inbox, wifi, ready, queue, caller, active, task,
                 flashVars, running>>

SocketCloses ==
  /\ active /\ ws /\ ws' = FALSE /\ inbox' = None
  /\ UNCHANGED <<record, due, wifi, ready, queue, caller, active, task,
                 flashVars, running>>

-----------------------------------------------------------------------------

Init ==
  /\ record = [v \in Offers |-> "none"] /\ due = {} /\ inbox = None
  /\ wifi = "trying" /\ ws = FALSE
  /\ ready = FALSE /\ queue = None /\ caller = None
  /\ active = FALSE /\ task = Idle
  /\ content = [s \in Slots |-> IF s = "ota_0" THEN "signed" ELSE "partial"]
  /\ version = [s \in Slots |-> 0]
  /\ state = [s \in Slots |-> IF s = "ota_0" THEN "valid" ELSE "empty"]
  /\ boot = "ota_0" /\ running = "ota_0"

Backend == StatusPoll \/ Clear \/ \E v \in Offers : Push(v) \/ Overdue(v)

EventTask == RefuseUpdate \/ QueueUpdate \/ MarkActive

OtaTask == TakeUpdate \/ BreakOff \/ Mismatch \/ Install \/ GiveUp

StartUp == Restart \/ ConfirmTrial \/ RejectTrial \/ StartUnconfirmed

Network == WifiConnects \/ WifiDrops \/ SocketOpens \/ SocketCloses

Next == Backend \/ EventTask \/ OtaTask \/ StartUp \/ Network

Spec == Init /\ [][Next]_uvars

(* Every task of the endpoint is scheduled, Wi-Fi attempts succeed in the  *)
(* end, and the backend polls.                                             *)
LiveSpec ==
  /\ Spec
  /\ WF_uvars(StatusPoll) /\ WF_uvars(EventTask) /\ WF_uvars(TakeUpdate)
  /\ WF_uvars(GiveUp) /\ SF_uvars(WifiConnects) /\ SF_uvars(SocketOpens)
  /\ WF_uvars(SocketCloses)
  /\ \A v \in Offers : WF_uvars(Overdue(v))

-----------------------------------------------------------------------------
(* Properties *)

TaskStates == {Idle} \cup
  [at : {"downloading", "failed", "mismatched", "restarting"}, req : Offers]

(* The update's state stays in its types: in particular the endpoint never *)
(* runs out of usable images and falls back to the recovery image.         *)
TypeOK ==
  /\ record \in [Offers -> Statuses] /\ due \subseteq Offers
  /\ inbox \in Offers \cup {None}
  /\ wifi \in {"up", "trying", "left"} /\ ws \in BOOLEAN
  /\ ready \in BOOLEAN /\ active \in BOOLEAN
  /\ queue \in Offers \cup {None} /\ caller \in Offers \cup {None}
  /\ task \in TaskStates
  /\ content \in [Slots -> {"signed", "unsigned", "partial"}]
  /\ version \in [Slots -> Versions]
  /\ state \in [Slots -> {"empty", "new", "pending", "valid", "invalid",
                          "aborted"}]
  /\ boot \in Slots /\ running \in Slots

(* docs/firmware-ota.md, "reject downloaded images whose byte count or     *)
(* SHA-256 differs from signed metadata": whatever was interrupted, rolled *)
(* back or restarted, the running image is one that was signed.            *)
OnlySignedImagesRun == running \in Slots => content[running] = "signed"

(* At every moment, wherever a download, a trial or a restart is cut off,  *)
(* some slot holds a whole image that passed its tests and is confirmed.   *)
ASoundImageIsKept ==
  \E s \in Slots : /\ state[s] = "valid" /\ content[s] = "signed"
                   /\ version[s] \notin Faulty

(* The version to go back to.                                              *)
Confirmed == IF state[running] = "valid" THEN version[running]
                                         ELSE version[Other(running)]

Trials == INSTANCE TrialBoot WITH
            Versions <- Offers, Sound <- Versions \ Faulty,
            confirmed <- Confirmed, current <- version[running]

(* The slots, the bootloader and the validation implement the abstract     *)
(* contract: only newer versions are tried, only sound ones confirmed, and *)
(* a version given up leads back to the last one confirmed.                *)
ImplementsTrialBoot == Trials!TSpec

(* docs/firmware-baseline.md: "Wi-Fi station startup and reconnect         *)
(* handling": a station that is not connected is reconnecting, at least    *)
(* once no update is active.                                               *)
StationReconnects == wifi = "left" => active

(* docs/firmware-ota.md: "The endpoint reports OTA integrity failures      *)
(* through command.error with exact codes such as ... checksum_mismatch".  *)
MismatchIsReported ==
  \A v \in Offers :
    (task = [at |-> "mismatched", req |-> v] /\ record[v] # "none")
      ~> (record[v] \in {"failed", "none"})
=============================================================================
