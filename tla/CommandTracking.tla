--------------------------- MODULE CommandTracking ---------------------------
(***************************************************************************)
(* Commands the backend pushes to one endpoint, and the answers.           *)
(*                                                                         *)
(* Backend (src/hexevoice/voice/session_manager.py): _push_endpoint_command*)
(* awaits the send and only then makes the record; the coroutine of the    *)
(* connection updates it from command.ack and command.error; status()      *)
(* expires what is overdue.                                                *)
(*                                                                         *)
(* Endpoint (src/firmware, voice/backend_client.cpp): the WebSocket event  *)
(* task acknowledges a command, then runs it, or, for a media transfer,    *)
(* queues it for a worker task and acknowledges that too.  Both tasks send *)
(* on the one socket, a message at a time under a lock.                    *)
(*                                                                         *)
(* Abstractions: the ten seconds of a record are an event that may come at *)
(* any time after it was made; a send that fails or times out on the lock  *)
(* is a message lost; an answer's text is left out.  A request id is used  *)
(* once.  Only a media asset that is delivered again uses one twice, as    *)
(* main.py makes the id from the asset: that delivery's record overwrites  *)
(* the settled one with "pending", and is not in the model.                *)
(***************************************************************************)
EXTENDS Naturals, Sequences, CommandRecord

CONSTANTS Requests,     \* the request ids, each used for one command
          Quick,        \* the commands the event task runs itself
          QueueDepth,   \* kMediaQueueDepth
          Nobody        \* a task has no request in hand

ASSUME CommandAssumption ==
  /\ Quick \subseteq Requests /\ Nobody \notin Requests
  /\ QueueDepth \in Nat \ {0}

VARIABLES
  record,    \* _command_records: the status of each
  due,       \* timeout_at of these has passed
  pushed,    \* requests somebody has tried to send
  sending,   \* ... whose send is still awaited
  linked,    \* the control socket is connected
  down, up,  \* what is under way on it, each way
  task,      \* the WebSocket event task: [at, req]
  queue,     \* g_media_queue
  worker,    \* media_transfer_task: [at, req]
  outcome    \* what the endpoint did about each command

backendVars  == <<record, due, pushed, sending>>
endpointVars == <<task, queue, worker, outcome>>
kvars == <<backendVars, linked, down, up, endpointVars>>

Resting == [at |-> "idle", req |-> Nobody]

Answers == [req : Requests, status : {"accepted", "started"} \cup Verdicts]

-----------------------------------------------------------------------------
(* The backend *)

(* _push_endpoint_command up to its await.                                 *)
Push(r) ==
  /\ linked /\ r \notin pushed
  /\ pushed' = pushed \cup {r}
  /\ sending' = sending \cup {r}
  /\ down' = Append(down, r)
  /\ UNCHANGED <<record, due, linked, up, endpointVars>>

(* ... and after it.                                                       *)
MakeRecord(r) ==
  /\ r \in sending
  /\ sending' = sending \ {r}
  /\ record' = [record EXCEPT ![r] = "pending"]
  /\ UNCHANGED <<due, pushed, linked, down, up, endpointVars>>

(* The send raises: no record is made.                                     *)
PushFails(r) ==
  /\ r \in sending /\ ~ linked
  /\ sending' = sending \ {r}
  /\ UNCHANGED <<record, due, pushed, linked, down, up, endpointVars>>

(* _handle_command_ack, _handle_command_error                              *)
HearAnswer ==
  /\ up # <<>>
  /\ up' = Tail(up)
  /\ record' = Answered(record, Head(up).req, Head(up).status)
  /\ UNCHANGED <<due, pushed, sending, linked, down, endpointVars>>

Overdue(r) ==
  /\ record[r] # "none" /\ r \notin due
  /\ due' = due \cup {r}
  /\ UNCHANGED <<record, pushed, sending, linked, down, up, endpointVars>>

(* status, volume_status                                                   *)
StatusPoll ==
  /\ record' = Expired(record, due)
  /\ UNCHANGED <<due, pushed, sending, linked, down, up, endpointVars>>

-----------------------------------------------------------------------------
(* The endpoint *)

(* send_command_ack, send_command_error: send_ws_text gives up when it is  *)
(* not connected, cannot get the lock in time, or fails three times.       *)
Send(r, status) ==
  \/ linked /\ up' = Append(up, [req |-> r, status |-> status])
  \/ UNCHANGED up

Receive ==
  /\ task = Resting /\ down # <<>>
  /\ task' = [at |-> "received", req |-> Head(down)]
  /\ down' = Tail(down)
  /\ UNCHANGED <<backendVars, linked, up, queue, worker, outcome>>

(* acknowledge_command_received                                            *)
AckReceived ==
  /\ task.at = "received"
  /\ Send(task.req, "accepted")
  /\ task' = [task EXCEPT !.at = "acknowledged"]
  /\ UNCHANGED <<backendVars, linked, down, queue, worker, outcome>>

(* A branch of handle_backend_event_json for a command it runs itself, or  *)
(* one that queue_media_transfer refuses.                                  *)
Finish(r, verdict) ==
  /\ outcome' = [outcome EXCEPT ![r] = verdict]
  /\ Send(r, verdict)

(* Mutant: the receipt is acknowledged after the command has been run.    *)
RunQuickFirst ==
  /\ task.at = "acknowledged" /\ task.req \in Quick
  /\ outcome' = [outcome EXCEPT ![task.req] = "succeeded"]
  /\ up' = IF linked THEN up \o <<[req |-> task.req, status |-> "succeeded"],
                                  [req |-> task.req, status |-> "accepted"]>>
           ELSE up
  /\ task' = Resting
  /\ UNCHANGED <<backendVars, linked, down, queue, worker>>

RunQuick ==
  /\ task.at = "acknowledged" /\ task.req \in Quick
  /\ \E verdict \in Verdicts : Finish(task.req, verdict)
  /\ task' = Resting
  /\ UNCHANGED <<backendVars, linked, down, queue, worker>>

(* queue_media_transfer: not acceptable as it is, or the queue is full.    *)
RefuseTransfer ==
  /\ task.at = "acknowledged" /\ task.req \notin Quick
  /\ Finish(task.req, "failed")
  /\ task' = Resting
  /\ UNCHANGED <<backendVars, linked, down, queue, worker>>

QueueTransfer ==
  /\ task.at = "acknowledged" /\ task.req \notin Quick
  /\ Len(queue) < QueueDepth
  /\ queue' = Append(queue, task.req)
  /\ task' = [task EXCEPT !.at = "queued"]
  /\ UNCHANGED <<backendVars, linked, down, up, worker, outcome>>

AckQueued ==
  /\ task.at = "queued"
  /\ Send(task.req, "accepted")
  /\ task' = Resting
  /\ UNCHANGED <<backendVars, linked, down, queue, worker, outcome>>

(* media_transfer_task                                                     *)
TakeTransfer ==
  /\ worker = Resting /\ queue # <<>>
  /\ worker' = [at |-> "taken", req |-> Head(queue)]
  /\ queue' = Tail(queue)
  /\ UNCHANGED <<backendVars, linked, down, up, task, outcome>>

(* Mutant: the worker reports success when it has only begun.              *)
StartTransferAsDone ==
  /\ worker.at = "taken"
  /\ Send(worker.req, "succeeded")
  /\ worker' = [worker EXCEPT !.at = "downloading"]
  /\ UNCHANGED <<backendVars, linked, down, task, queue, outcome>>

(* write_media_transfer, from its checks to the download                   *)
StartTransfer ==
  /\ worker.at = "taken"
  /\ Send(worker.req, "started")
  /\ worker' = [worker EXCEPT !.at = "downloading"]
  /\ UNCHANGED <<backendVars, linked, down, task, queue, outcome>>

(* Mutant: the worker keeps the request in hand when it fails.             *)
FailTransferKeepsRequest ==
  /\ worker # Resting
  /\ Finish(worker.req, "failed")
  /\ worker' = [worker EXCEPT !.at = "idle"]
  /\ UNCHANGED <<backendVars, linked, down, task, queue>>

(* One of its many failures, before or after "started".                    *)
FailTransfer ==
  /\ worker # Resting
  /\ Finish(worker.req, "failed")
  /\ worker' = Resting
  /\ UNCHANGED <<backendVars, linked, down, task, queue>>

(* The file has its size and checksum and is renamed into place.           *)
StoreTransfer ==
  /\ worker.at = "downloading"
  /\ Finish(worker.req, "succeeded")
  /\ worker' = Resting
  /\ UNCHANGED <<backendVars, linked, down, task, queue>>

-----------------------------------------------------------------------------
(* The connection *)

Connect ==
  /\ ~ linked /\ linked' = TRUE
  /\ UNCHANGED <<backendVars, down, up, endpointVars>>

(* What is under way is lost; both tasks go on.                            *)
Disconnect ==
  /\ linked /\ linked' = FALSE
  /\ down' = <<>> /\ up' = <<>>
  /\ UNCHANGED <<backendVars, endpointVars>>

(* The endpoint restarts: nothing of a command is kept in flash.           *)
Reboot ==
  /\ linked' = FALSE /\ down' = <<>> /\ up' = <<>>
  /\ task' = Resting /\ queue' = <<>> /\ worker' = Resting
  /\ UNCHANGED <<backendVars, outcome>>

-----------------------------------------------------------------------------

Init ==
  /\ record = [r \in Requests |-> "none"] /\ due = {}
  /\ pushed = {} /\ sending = {}
  /\ linked = FALSE /\ down = <<>> /\ up = <<>>
  /\ task = Resting /\ queue = <<>> /\ worker = Resting
  /\ outcome = [r \in Requests |-> "open"]

Backend ==
  \/ \E r \in Requests : Push(r) \/ MakeRecord(r) \/ PushFails(r) \/ Overdue(r)
  \/ HearAnswer \/ StatusPoll

Endpoint ==
  \/ Receive \/ AckReceived \/ RunQuick
  \/ RefuseTransfer \/ QueueTransfer \/ AckQueued
  \/ TakeTransfer \/ StartTransfer \/ FailTransfer \/ StoreTransfer

Next == Backend \/ Endpoint \/ Connect \/ Disconnect \/ Reboot

Spec == Init /\ [][Next]_kvars

(* Time passes and the page that polls the status is rebuilt all the time. *)
LiveSpec ==
  /\ Spec
  /\ WF_kvars(StatusPoll)
  /\ \A r \in Requests : WF_kvars(Overdue(r))

-----------------------------------------------------------------------------
(* Properties *)

TaskStates == [at : {"received", "acknowledged", "queued", "taken",
                     "downloading"}, req : Requests] \cup {Resting}

(* The state of both sides stays in its types, and the media queue never   *)
(* holds more than kMediaQueueDepth transfers.                             *)
TypeOK ==
  /\ record \in [Requests -> Statuses]
  /\ due \subseteq pushed /\ pushed \subseteq Requests
  /\ sending \subseteq pushed /\ linked \in BOOLEAN
  /\ down \in Seq(Requests) /\ up \in Seq(Answers)
  /\ task \in TaskStates /\ worker \in TaskStates
  /\ queue \in Seq(Requests) /\ Len(queue) <= QueueDepth
  /\ outcome \in [Requests -> Verdicts \cup {"open"}]

(* What a record says was done or failed was done or failed on the         *)
(* endpoint: through losses, reconnects and restarts no verdict is guessed *)
(* by the backend or reported before the work is over.                     *)
VerdictsAreTrue ==
  \A r \in Requests : record[r] \in Verdicts => outcome[r] = record[r]

(* A verdict in a record is only ever overwritten by the acknowledgement   *)
(* that a transfer was queued, which the event task sends after the worker *)
(* may have finished it (see VerdictsAreFinal); a command the event task   *)
(* runs itself keeps its verdict.                                          *)
VerdictsOnlyLostToQueueAck ==
  [][\A r \in Requests :
       record[r] \in Verdicts /\ record'[r] # record[r]
         => r \notin Quick /\ record'[r] = "accepted"]_kvars

(* However late answers come, every record ends up terminal and stays so:  *)
(* one revived by an answer expires again at the next status poll.         *)
EveryRecordSettles ==
  \A r \in Requests : <>[](record[r] \in Terminal \cup {"none"})

(* docs/voice-node-roadmap.md, "Every backend-issued endpoint command      *)
(* carries ... terminal success, failure, timeout, or unsupported status": *)
(* a success or a failure reported by the endpoint is not taken back.      *)
VerdictsAreFinal ==
  [][\A r \in Requests :
       record[r] \in Verdicts => record'[r] = record[r]]_kvars
=============================================================================
