------------------------ MODULE FirmwareUpdateProofs ------------------------
(***************************************************************************)
(* Proofs about FirmwareUpdate for every bound on the versions and every   *)
(* set of faulty ones.  TypeOK and OnlySignedImagesRun are not inductive:  *)
(* what a restart boots depends on both slots, on otadata and on how far   *)
(* the update had come, which IInv relates.                                *)
(***************************************************************************)
EXTENDS FirmwareUpdate, TLAPS

(* Whatever is being installed is newer than what runs.                    *)
OnlyNewer ==
  /\ queue # None => queue > version[running]
  /\ task # Idle => task.req > version[running]

Runnable == state[running] \in {"valid", "pending"} /\ content[running] = "signed"

(* While a confirmed image runs, otadata prefers it, or else an image that *)
(* is newer, whole and waits for the restart, or one that was given up.    *)
ConfirmedRuns ==
  LET o == Other(running) IN
    state[running] = "valid" =>
      /\ version[running] \notin Faulty
      /\ state[o] # "pending"
      /\ state[o] = "new" =>
           /\ boot = o /\ content[o] = "signed" /\ task.at = "restarting"
           /\ version[o] > version[running]
      /\ boot = o => state[o] \in {"new", "invalid", "aborted"}

(* While an image is on trial, the one it came from is kept.               *)
TrialRuns ==
  LET o == Other(running) IN
    state[running] = "pending" =>
      /\ boot = running
      /\ state[o] = "valid" /\ content[o] = "signed"
      /\ version[o] \notin Faulty /\ version[o] < version[running]
      /\ task.at \notin {"mismatched", "restarting"}

IInv == TypeOK /\ OnlyNewer /\ Runnable /\ ConfirmedRuns /\ TrialRuns

(* The goal for every step: the invariant again, and a step the contract   *)
(* allows.                                                                 *)
Preserved == IInv' /\ [Trials!TNext]_(Trials!tvars)

-----------------------------------------------------------------------------
(* Slots *)

(* There are two slots, and the other one of the other is the first.       *)
LEMMA OtherSlot ==
  ASSUME NEW s \in Slots
  PROVE  /\ Other(s) \in Slots /\ Other(s) # s /\ Other(Other(s)) = s
         /\ Slots = {s, Other(s)}
BY DEF Slots, Other

SlotStates == {"empty", "new", "pending", "valid", "invalid", "aborted"}

(* What the bootloader does, slot by slot: it takes the preferred slot if  *)
(* it can, or else the other one.                                          *)
LEMMA Booting ==
  ASSUME TypeOK, NEW st \in [Slots -> SlotStates], Boots(st)
  PROVE  /\ st[boot] \in {"new", "valid"} /\ content[boot] # "partial"
              => running' = boot
         /\ st[boot] \notin {"new", "valid"}
            /\ st[Other(boot)] \in {"new", "valid"}
            /\ content[Other(boot)] # "partial" => running' = Other(boot)
         /\ state' \in [Slots -> SlotStates]
         /\ \A s \in Slots :
              state'[s] = IF st[s] = "pending" THEN "aborted"
                          ELSE IF s = running' /\ st[s] = "new" THEN "pending"
                          ELSE st[s]
<1> DEFINE over == [s \in Slots |-> IF st[s] = "pending" THEN "aborted" ELSE st[s]]
           usable == {s \in Slots : over[s] \in {"new", "valid"}
                                    /\ content[s] # "partial"}
           chosen == IF boot \in usable THEN boot
                     ELSE IF Other(boot) \in usable THEN Other(boot)
                     ELSE "factory"
<1>1. running' = chosen
  BY DEF Boots
<1>2. state' = [s \in Slots |-> IF s = chosen /\ over[s] = "new"
                                  THEN "pending" ELSE over[s]]
  BY DEF Boots
<1>3. boot \in Slots /\ Other(boot) \in Slots
  BY OtherSlot DEF TypeOK
<1>4. \A s \in Slots : over[s] \in {"new", "valid"} <=> st[s] \in {"new", "valid"}
  OBVIOUS
<1>5. \A s \in Slots :
        s \in usable <=> st[s] \in {"new", "valid"} /\ content[s] # "partial"
  BY <1>4
<1>6. \A s \in Slots :
        state'[s] = IF s = running' /\ over[s] = "new" THEN "pending" ELSE over[s]
  BY <1>1, <1>2
<1>7. \A s \in Slots :
        state'[s] = IF st[s] = "pending" THEN "aborted"
                    ELSE IF s = running' /\ st[s] = "new" THEN "pending"
                    ELSE st[s]
  BY <1>6
<1>8. \A s \in Slots : over[s] \in SlotStates
  BY DEF SlotStates
<1>9. state' \in [Slots -> SlotStates]
  BY <1>2, <1>8 DEF SlotStates
<1> HIDE DEF over, usable
<1>a. st[boot] \in {"new", "valid"} /\ content[boot] # "partial"
        => running' = boot
  BY <1>1, <1>3, <1>5
<1>b. st[boot] \notin {"new", "valid"} /\ st[Other(boot)] \in {"new", "valid"}
        /\ content[Other(boot)] # "partial" => running' = Other(boot)
  BY <1>1, <1>3, <1>5
<1> QED BY <1>a, <1>b, <1>7, <1>9

(* Two slots tell everything about the state of slots.                     *)
LEMMA BothSlots ==
  ASSUME TypeOK
  PROVE  /\ Other(running) \in Slots /\ Other(running) # running
         /\ Other(Other(running)) = running
         /\ \A s \in Slots : s = running \/ s = Other(running)
         /\ boot = running \/ boot = Other(running)
<1>1. running \in Slots /\ boot \in Slots
  BY DEF TypeOK
<1> QED BY <1>1, OtherSlot

-----------------------------------------------------------------------------
(* Steps that leave the flash alone *)

(* A step that leaves the flash alone and does not fall back from arming it.*)
LEMMA FlashUntouched ==
  ASSUME IInv, UNCHANGED <<flashVars, running>>, TypeOK', OnlyNewer',
         task.at = "restarting" => task'.at = "restarting",
         task'.at \in {"mismatched", "restarting"}
           => task.at \in {"mismatched", "restarting"}
  PROVE  Preserved
<1>1. UNCHANGED <<content, version, state, boot, running>>
  BY DEF flashVars
<1>2. Runnable' /\ ConfirmedRuns' /\ TrialRuns'
  BY <1>1 DEF IInv, Runnable, ConfirmedRuns, TrialRuns
<1>3. UNCHANGED Trials!tvars
  BY <1>1 DEF Trials!tvars, Confirmed
<1> QED BY <1>2, <1>3 DEF IInv, Preserved

(* An answer leaves a record with one of its statuses.                     *)
LEMMA AnswerTyped ==
  ASSUME TypeOK, NEW v \in Offers, NEW status \in Statuses, Answer(v, status)
  PROVE  record' \in [Offers -> Statuses]
<1>1. record \in [Offers -> Statuses] /\ "none" \in Statuses
  BY DEF TypeOK, Statuses
<1>2. Answered(record, v, status) \in [Offers -> Statuses]
  BY <1>1 DEF Answered
<1> QED BY <1>1, <1>2 DEF Answer

(* The backend touches its records and what is under way, no more.         *)
LEMMA BackendStep ==
  ASSUME IInv, Backend
  PROVE  Preserved
<1>1. UNCHANGED <<wifi, ws, ready, queue, caller, active, task, flashVars, running>>
  BY DEF Backend, StatusPoll, Clear, Push, Overdue
<1>2. /\ record' \in [Offers -> Statuses] /\ due' \subseteq Offers
      /\ inbox' \in Offers \cup {None}
  <2>1. record \in [Offers -> Statuses] /\ due \subseteq Offers
        /\ inbox \in Offers \cup {None}
    BY DEF IInv, TypeOK
  <2>2. {"none", "pending"} \subseteq Statuses
    BY DEF Statuses
  <2>3. CASE StatusPoll
    <3>1. \A v \in Offers :
            (IF v \in due /\ record[v] \notin Terminal \cup {"none"}
               THEN "timed_out" ELSE record[v]) \in Statuses
      BY <2>1 DEF Statuses, Terminal
    <3>2. Expired(record, due) \in [Offers -> Statuses]
      BY <2>1, <3>1 DEF Expired
    <3> QED BY <2>1, <2>3, <3>2 DEF StatusPoll
  <2>4. CASE Clear
    BY <2>1, <2>2, <2>4 DEF Clear
  <2>5. ASSUME NEW v \in Offers, Push(v) \/ Overdue(v)
        PROVE  /\ record' \in [Offers -> Statuses] /\ due' \subseteq Offers
               /\ inbox' \in Offers \cup {None}
    BY <2>1, <2>2, <2>5 DEF Push, Overdue
  <2> QED BY <2>3, <2>4, <2>5 DEF Backend
<1>3. TypeOK'
  BY <1>1, <1>2 DEF IInv, TypeOK, flashVars
<1>4. OnlyNewer'
  BY <1>1 DEF IInv, OnlyNewer, flashVars
<1> QED BY <1>1, <1>3, <1>4, FlashUntouched

(* The event task queues newer versions only.                              *)
LEMMA EventTaskStep ==
  ASSUME IInv, EventTask
  PROVE  Preserved
<1>1. UNCHANGED <<due, wifi, ws, ready, task, flashVars, running>>
  BY DEF EventTask, RefuseUpdate, QueueUpdate, MarkActive, linkVars
<1>2. TypeOK /\ OnlyNewer /\ {"accepted", "failed"} \subseteq Statuses
  BY DEF IInv, Statuses, Terminal, Verdicts
<1>3. CASE RefuseUpdate
  <2>1. inbox \in Offers
    BY <1>2, <1>3 DEF RefuseUpdate, TypeOK
  <2>2. record' \in [Offers -> Statuses]
    BY <1>2, <1>3, <2>1, AnswerTyped DEF RefuseUpdate
  <2>3. TypeOK' /\ OnlyNewer'
    BY <1>1, <1>2, <1>3, <2>2 DEF RefuseUpdate, TypeOK, OnlyNewer, flashVars
  <2> QED BY <1>1, <2>3, FlashUntouched
<1>4. CASE QueueUpdate
  <2>1. inbox \in Offers
    BY <1>2, <1>4 DEF QueueUpdate, TypeOK
  <2>2. record' \in [Offers -> Statuses]
    BY <1>2, <1>4, <2>1, AnswerTyped DEF QueueUpdate
  <2>3. TypeOK' /\ OnlyNewer'
    BY <1>1, <1>2, <1>4, <2>1, <2>2
    DEF QueueUpdate, TypeOK, OnlyNewer, flashVars
  <2> QED BY <1>1, <2>3, FlashUntouched
<1>5. CASE MarkActive
  <2>1. TypeOK' /\ OnlyNewer'
    BY <1>1, <1>2, <1>5 DEF MarkActive, TypeOK, OnlyNewer, flashVars, linkVars
  <2> QED BY <1>1, <2>1, FlashUntouched
<1> QED BY <1>3, <1>4, <1>5 DEF EventTask

(* Wi-Fi and the socket come and go.                                       *)
LEMMA NetworkStep ==
  ASSUME IInv, Network
  PROVE  Preserved
<1>1. /\ UNCHANGED <<record, due, ready, queue, caller, active, task, flashVars,
                     running>>
      /\ wifi' \in {wifi, "up", "trying", "left"} /\ ws' \in {ws, TRUE, FALSE}
      /\ inbox' \in {inbox, None}
  BY DEF Network, WifiConnects, WifiDrops, SocketOpens, SocketCloses
<1>2. TypeOK' /\ OnlyNewer'
  BY <1>1 DEF IInv, TypeOK, OnlyNewer, flashVars
<1> QED BY <1>1, <1>2, FlashUntouched

-----------------------------------------------------------------------------
(* ota_task writes to the slot that does not run, and only while the one   *)
(* that runs is confirmed.                                                 *)

(* A task that is not waiting has a version in hand.                       *)
LEMMA TaskIs ==
  ASSUME TypeOK
  PROVE  /\ None \notin Offers
         /\ task # Idle => task.req \in Offers
         /\ task = Idle <=> task.at = "waiting"
         /\ task # Idle => task = [at |-> task.at, req |-> task.req]
BY UpdateAssumption DEF TypeOK, TaskStates, Idle, Offers, Versions

(* A task that goes on keeps its version.                                  *)
LEMMA TaskGoesOn ==
  ASSUME TypeOK, task # Idle, NEW at, task' = [task EXCEPT !.at = at],
         at \in {"downloading", "failed", "mismatched", "restarting"}
  PROVE  task'.at = at /\ task'.req = task.req /\ task' \in TaskStates
<1>1. task' = [at |-> at, req |-> task.req]
  BY TaskIs
<1> QED BY <1>1, TaskIs DEF TaskStates

(* A download that breaks off leaves part of an image where none runs.     *)
LEMMA BreakOffStep ==
  ASSUME IInv, BreakOff
  PROVE  Preserved
<1>1. TypeOK /\ task # Idle /\ task.at = "downloading"
  BY TaskIs DEF IInv, BreakOff
<1>2. task'.at = "failed" /\ task'.req = task.req /\ task' \in TaskStates
  BY <1>1, TaskGoesOn DEF BreakOff
<1>3. UNCHANGED <<record, due, inbox, wifi, ws, ready, queue, caller, active,
                  version, state, boot, running>>
  BY DEF BreakOff, linkVars
<1>4. content' \in [Slots -> {"signed", "unsigned", "partial"}]
  BY <1>1 DEF BreakOff, TypeOK
<1>5. TypeOK'
  BY <1>1, <1>2, <1>3, <1>4 DEF TypeOK
<1>6. OnlyNewer'
  BY <1>1, <1>2, <1>3 DEF IInv, OnlyNewer
<1>7. \/ UNCHANGED content
      \/ state[running] # "pending" /\ content'[running] = content[running]
  BY <1>1, BothSlots DEF BreakOff, TypeOK
<1>8. Runnable' /\ ConfirmedRuns' /\ TrialRuns'
  BY <1>1, <1>2, <1>3, <1>7 DEF IInv, Runnable, ConfirmedRuns, TrialRuns
<1>9. UNCHANGED Trials!tvars
  BY <1>3 DEF Trials!tvars, Confirmed
<1> QED BY <1>5, <1>6, <1>8, <1>9 DEF IInv, Preserved

(* Bytes that are not the signed ones stay where none runs.                *)
LEMMA MismatchStep ==
  ASSUME IInv, Mismatch
  PROVE  Preserved
<1>1. TypeOK /\ task # Idle /\ task.at = "downloading"
      /\ state[running] # "pending"
  BY TaskIs DEF IInv, Mismatch
<1>2. task'.at = "mismatched" /\ task'.req = task.req /\ task' \in TaskStates
  BY <1>1, TaskGoesOn DEF Mismatch
<1>3. UNCHANGED <<record, due, inbox, wifi, ws, ready, queue, caller, active,
                  version, state, boot, running>>
  BY DEF Mismatch, linkVars
<1>4. /\ content' \in [Slots -> {"signed", "unsigned", "partial"}]
      /\ content'[running] = content[running]
  BY <1>1, BothSlots DEF Mismatch, TypeOK
<1>5. TypeOK'
  BY <1>1, <1>2, <1>3, <1>4 DEF TypeOK
<1>6. OnlyNewer'
  BY <1>1, <1>2, <1>3 DEF IInv, OnlyNewer
<1>7. Runnable' /\ ConfirmedRuns' /\ TrialRuns'
  BY <1>1, <1>2, <1>3, <1>4 DEF IInv, Runnable, ConfirmedRuns, TrialRuns
<1>8. UNCHANGED Trials!tvars
  BY <1>3 DEF Trials!tvars, Confirmed
<1> QED BY <1>5, <1>6, <1>7, <1>8 DEF IInv, Preserved

(* A new image is armed in the slot that does not run.                     *)
LEMMA InstallStep ==
  ASSUME IInv, Install
  PROVE  Preserved
<1> DEFINE o == Other(running)
<1>1. TypeOK /\ task # Idle /\ task.at = "downloading"
  BY TaskIs DEF IInv, Install
<1>2. state[running] = "valid" /\ task.req \in Offers
      /\ task.req > version[running]
  BY <1>1, TaskIs DEF IInv, Install, Runnable, OnlyNewer
<1>3. task'.at = "restarting" /\ task'.req = task.req /\ task' \in TaskStates
  BY <1>1, TaskGoesOn DEF Install, Arm
<1>4. UNCHANGED <<record, due, inbox, wifi, ws, ready, queue, caller, active,
                  running>>
  BY DEF Install, linkVars
<1>5. o \in Slots /\ o # running /\ running \in Slots
  BY <1>1, BothSlots DEF TypeOK
<1>6. /\ content' = [content EXCEPT ![o] = "signed"]
      /\ version' = [version EXCEPT ![o] = task.req]
      /\ state' = [state EXCEPT ![o] = "new"]
      /\ boot' = o
  BY DEF Install, Arm
<1>7. /\ content'[o] = "signed" /\ content'[running] = content[running]
      /\ version'[o] = task.req /\ version'[running] = version[running]
      /\ state'[o] = "new" /\ state'[running] = "valid"
  BY <1>1, <1>2, <1>5, <1>6 DEF TypeOK
<1>8. TypeOK'
  <2>1. task.req \in Versions
    BY <1>2 DEF Offers, Versions
  <2> QED BY <1>1, <1>3, <1>4, <1>5, <1>6, <2>1 DEF TypeOK
<1>9. OnlyNewer'
  BY <1>2, <1>3, <1>4, <1>7 DEF IInv, OnlyNewer
<1>10. Runnable' /\ ConfirmedRuns' /\ TrialRuns'
  BY <1>2, <1>3, <1>4, <1>6, <1>7
  DEF IInv, Runnable, ConfirmedRuns, TrialRuns
<1>11. UNCHANGED Trials!tvars
  BY <1>2, <1>4, <1>7 DEF Trials!tvars, Confirmed
<1> QED BY <1>8, <1>9, <1>10, <1>11 DEF IInv, Preserved

(* All of ota_task.                                                        *)
LEMMA OtaTaskStep ==
  ASSUME IInv, OtaTask
  PROVE  Preserved
<1>1. TypeOK /\ OnlyNewer
  BY DEF IInv
<1>2. CASE TakeUpdate
  <2>1. queue \in Offers /\ queue > version[running]
    BY <1>1, <1>2 DEF TakeUpdate, TypeOK, OnlyNewer
  <2>2. UNCHANGED <<record, due, inbox, wifi, ws, ready, caller, flashVars, running>>
        /\ queue' = None /\ active' = TRUE
        /\ task' = [at |-> "downloading", req |-> queue]
    BY <1>2 DEF TakeUpdate, linkVars
  <2>3. task' \in TaskStates /\ task'.req = queue /\ task'.at = "downloading"
    BY <2>1, <2>2 DEF TaskStates
  <2>4. TypeOK'
    BY <1>1, <2>2, <2>3 DEF TypeOK, flashVars
  <2>5. OnlyNewer'
    BY <2>1, <2>2, <2>3 DEF OnlyNewer, flashVars
  <2>6. task.at = "waiting"
    BY <1>2 DEF TakeUpdate, Idle
  <2> QED BY <2>2, <2>3, <2>4, <2>5, <2>6, FlashUntouched
<1>3. CASE GiveUp
  <2>1. UNCHANGED <<record, due, inbox, wifi, ws, ready, queue, caller, flashVars,
                    running>>
        /\ active' = FALSE /\ task' = Idle
        /\ task.at \in {"failed", "mismatched"}
    BY <1>3 DEF GiveUp, linkVars
  <2>2. TypeOK' /\ OnlyNewer'
    BY <1>1, <2>1 DEF TypeOK, OnlyNewer, TaskStates, flashVars
  <2>3. task'.at = "waiting"
    BY <2>1 DEF Idle
  <2> QED BY <2>1, <2>2, <2>3, FlashUntouched
<1> QED BY <1>2, <1>3, BreakOffStep, MismatchStep, InstallStep DEF OtaTask

-----------------------------------------------------------------------------
(* Starting up *)

(* Whatever is restarted from, a confirmed image or its trial, what boots  *)
(* is the trial, or the image to go back to.                               *)
LEMMA Rebooted ==
  ASSUME IInv, ColdStart, NEW st \in [Slots -> SlotStates], Boots(st),
         \A s \in Slots : s # running => st[s] = state[s],
         \/ st[running] = state[running]
         \/ state[running] = "pending" /\ st[running] = "invalid"
  PROVE  Preserved
<1> DEFINE o == Other(running)
<1>1. TypeOK /\ OnlyNewer /\ Runnable /\ ConfirmedRuns /\ TrialRuns
  BY DEF IInv
<1>2. /\ running \in Slots /\ o \in Slots /\ o # running /\ Other(o) = running
      /\ \A s \in Slots : s = running \/ s = o
      /\ boot = running \/ boot = o
  BY <1>1, BothSlots DEF TypeOK
<1>3. /\ inbox' = None /\ wifi' = "trying" /\ ws' = FALSE
      /\ ready' = FALSE /\ queue' = None /\ caller' = None
      /\ active' = FALSE /\ task' = Idle
      /\ UNCHANGED <<record, due, content, version, boot>>
  BY DEF ColdStart
<1>4. state' \in [Slots -> SlotStates]
  BY <1>1, Booting
<1>5. \A s \in Slots :
        state'[s] = IF st[s] = "pending" THEN "aborted"
                    ELSE IF s = running' /\ st[s] = "new" THEN "pending"
                    ELSE st[s]
  BY <1>1, Booting
<1>6. st[boot] \in {"new", "valid"} /\ content[boot] # "partial"
        => running' = boot
  BY <1>1, Booting
<1>7. st[boot] \notin {"new", "valid"} /\ st[Other(boot)] \in {"new", "valid"}
        /\ content[Other(boot)] # "partial" => running' = Other(boot)
  BY <1>1, Booting
<1>8. version[running] \in Nat /\ version[o] \in Nat /\ version[o] \in Versions
  BY <1>1, <1>2, UpdateAssumption DEF TypeOK, Versions
<1>9. st[o] = state[o]
  BY <1>2
<1>10. running' \in Slots => TypeOK' /\ OnlyNewer'
  BY <1>1, <1>3, <1>4 DEF TypeOK, OnlyNewer, TaskStates, SlotStates
<1> HIDE DEF o
<1>11. CASE state[running] = "valid" /\ ~ (boot = o /\ state[o] = "new")
  <2>1. /\ st[running] = "valid" /\ version[running] \notin Faulty
        /\ content[running] = "signed"
        /\ state[o] \notin {"pending", "new"}
        /\ boot = o => state[o] \in {"invalid", "aborted"}
    BY <1>1, <1>11 DEF Runnable, ConfirmedRuns, o
  <2>2. running' = running
    BY <1>2, <1>6, <1>7, <1>9, <2>1
  <2>3. state'[running] = "valid" /\ state'[o] = state[o]
    BY <1>2, <1>5, <1>9, <2>1, <2>2
  <2>4. Runnable' /\ ConfirmedRuns' /\ TrialRuns'
    BY <1>3, <2>1, <2>2, <2>3 DEF Runnable, ConfirmedRuns, TrialRuns, o
  <2>5. UNCHANGED Trials!tvars
    BY <1>3, <1>11, <2>2, <2>3 DEF Trials!tvars, Confirmed
  <2> QED BY <1>2, <1>10, <2>2, <2>4, <2>5 DEF IInv, Preserved
<1>12. CASE state[running] = "valid" /\ boot = o /\ state[o] = "new"
  <2>1. /\ st[running] = "valid" /\ version[running] \notin Faulty
        /\ content[running] = "signed" /\ content[o] = "signed"
        /\ version[o] > version[running]
    BY <1>1, <1>12 DEF Runnable, ConfirmedRuns, o
  <2>2. running' = o
    BY <1>6, <1>9, <1>12, <2>1
  <2>3. state'[o] = "pending" /\ state'[running] = "valid"
    BY <1>2, <1>5, <1>9, <1>12, <2>1, <2>2
  <2>4. Other(running') = running /\ boot' = running' /\ task'.at = "waiting"
    BY <1>2, <1>3, <1>12, <2>2 DEF Idle
  <2>5. Runnable' /\ ConfirmedRuns' /\ TrialRuns'
    BY <1>3, <2>1, <2>2, <2>3, <2>4 DEF Runnable, ConfirmedRuns, TrialRuns
  <2>6. Confirmed = version[running] /\ Confirmed' = version[running]
    BY <1>3, <1>12, <2>2, <2>3, <2>4 DEF Confirmed
  <2>7. version[o] \in Offers
    BY <1>8, <2>1 DEF Offers, Versions
  <2>8. Trials!Try(version[o])
    BY <1>3, <2>1, <2>2, <2>6 DEF Trials!Try
  <2> QED BY <1>2, <1>10, <2>2, <2>5, <2>7, <2>8 DEF IInv, Preserved, Trials!TNext
<1>13. CASE state[running] = "pending"
  <2>1. /\ boot = running /\ st[running] \in {"pending", "invalid"}
        /\ st[o] = "valid" /\ content[o] = "signed"
        /\ version[o] \notin Faulty
    BY <1>1, <1>9, <1>13 DEF TrialRuns, o
  <2>2. running' = o
    BY <1>2, <1>7, <2>1 DEF o
  <2>3. state'[o] = "valid" /\ state'[running] \in {"aborted", "invalid"}
    BY <1>2, <1>5, <2>1, <2>2
  <2>4. Other(running') = running /\ boot' = running
    BY <1>2, <1>3, <2>1, <2>2
  <2>5. Runnable' /\ ConfirmedRuns' /\ TrialRuns'
    BY <1>2, <1>3, <2>1, <2>2, <2>3, <2>4
    DEF Runnable, ConfirmedRuns, TrialRuns
  <2>6. Confirmed = version[o] /\ Confirmed' = version[o]
    BY <1>3, <1>13, <2>2, <2>3 DEF Confirmed, o
  <2>7. Trials!Revert
    BY <1>3, <2>2, <2>6 DEF Trials!Revert
  <2> QED BY <1>2, <1>10, <2>2, <2>5, <2>7 DEF IInv, Preserved, Trials!TNext
<1> QED BY <1>1, <1>11, <1>12, <1>13 DEF Runnable

(* A restart, and the validation that follows it.                          *)
LEMMA StartUpStep ==
  ASSUME IInv, StartUp
  PROVE  Preserved
<1>1. TypeOK /\ OnlyNewer /\ Runnable /\ ConfirmedRuns /\ TrialRuns
  BY DEF IInv
<1>2. running \in Slots /\ state \in [Slots -> SlotStates]
  BY <1>1 DEF TypeOK, SlotStates
<1>3. CASE Restart
  BY <1>2, <1>3, Rebooted DEF Restart
<1>4. CASE RejectTrial
  <2> DEFINE st == [state EXCEPT ![running] = "invalid"]
  <2>1. /\ st \in [Slots -> SlotStates] /\ st[running] = "invalid"
        /\ \A s \in Slots : s # running => st[s] = state[s]
    BY <1>2 DEF SlotStates
  <2>2. Boots(st) /\ ColdStart /\ state[running] = "pending"
    BY <1>4 DEF RejectTrial, OnTrial
  <2> QED BY <2>1, <2>2, Rebooted
<1>5. CASE StartUnconfirmed
  <2>1. UNCHANGED <<linkVars, queue, caller, active, task, flashVars, running>>
        /\ ready' = TRUE
    BY <1>5 DEF StartUnconfirmed, Initialised, flashVars
  <2>2. TypeOK' /\ OnlyNewer'
    BY <1>1, <2>1 DEF TypeOK, OnlyNewer, linkVars, flashVars
  <2> QED BY <2>1, <2>2, FlashUntouched
<1>6. CASE ConfirmTrial
  <2> DEFINE o == Other(running)
  <2>1. UNCHANGED <<linkVars, queue, caller, active, task, content, version,
                    boot, running>>
        /\ ready' = TRUE /\ state' = [state EXCEPT ![running] = "valid"]
        /\ state[running] = "pending" /\ version[running] \notin Faulty
    BY <1>6 DEF ConfirmTrial, Initialised, OnTrial
  <2>2. o \in Slots /\ o # running
    BY <1>1, BothSlots
  <2>3. state'[running] = "valid" /\ state'[o] = state[o]
    BY <1>2, <2>1, <2>2
  <2>4. state' \in [Slots -> SlotStates]
    BY <1>2, <2>1 DEF SlotStates
  <2>5. TypeOK' /\ OnlyNewer'
    BY <1>1, <2>1, <2>4 DEF TypeOK, OnlyNewer, SlotStates, linkVars
  <2>6. boot = running /\ state[o] = "valid"
    BY <1>1, <2>1 DEF TrialRuns
  <2>7. Runnable' /\ ConfirmedRuns' /\ TrialRuns'
    BY <1>1, <2>1, <2>2, <2>3, <2>6 DEF Runnable, ConfirmedRuns, TrialRuns
  <2>8. version[running] \in Versions
    BY <1>1 DEF TypeOK
  <2>9. Trials!Confirm
    BY <2>1, <2>3, <2>8 DEF Trials!Confirm, Confirmed
  <2> QED BY <2>5, <2>7, <2>9 DEF IInv, Preserved, Trials!TNext
<1> QED BY <1>3, <1>4, <1>5, <1>6 DEF StartUp

-----------------------------------------------------------------------------
(* The theorems *)

(* An endpoint as it was flashed.                                          *)
LEMMA InitIsSound ==
  ASSUME Init
  PROVE  IInv /\ Trials!TInit
<1>1. 0 \in Versions /\ 0 \notin Faulty /\ MaxVersion \in Nat
  BY UpdateAssumption DEF Versions, Offers
<1>2. /\ running = "ota_0" /\ boot = "ota_0" /\ running \in Slots
      /\ Other(running) = "ota_1" /\ Other(running) \in Slots
      /\ queue = None /\ task = Idle
  BY DEF Init, Slots, Other
<1>3. /\ version[running] = 0 /\ state[running] = "valid"
      /\ content[running] = "signed" /\ state[Other(running)] = "empty"
  BY <1>2 DEF Init, Slots
<1>4. TypeOK
  BY <1>1, <1>2 DEF Init, TypeOK, TaskStates, Statuses
<1>5. OnlyNewer /\ Runnable /\ ConfirmedRuns /\ TrialRuns
  BY <1>1, <1>2, <1>3 DEF OnlyNewer, Runnable, ConfirmedRuns, TrialRuns
<1>6. Trials!TInit
  BY <1>1, <1>3 DEF Trials!TInit, Confirmed
<1> QED BY <1>4, <1>5, <1>6 DEF IInv

(* Every step keeps the invariant and maps to a step of the contract.      *)
LEMMA StepIsSound ==
  ASSUME IInv, [Next]_uvars
  PROVE  Preserved
<1>1. CASE UNCHANGED uvars
  <2>1. UNCHANGED <<record, due, inbox, wifi, ws, ready, queue, caller, active,
                    task, flashVars, running>>
    BY <1>1 DEF uvars, linkVars
  <2>2. TypeOK' /\ OnlyNewer'
    BY <2>1 DEF IInv, TypeOK, OnlyNewer, flashVars
  <2> QED BY <2>1, <2>2, FlashUntouched
<1>2. CASE Next
  BY <1>2, BackendStep, EventTaskStep, OtaTaskStep, StartUpStep, NetworkStep
  DEF Next
<1> QED BY <1>1, <1>2

(* The invariant holds throughout.                                         *)
LEMMA AlwaysIInv == Spec => []IInv
<1>1. Init => IInv
  BY InitIsSound
<1>2. IInv /\ [Next]_uvars => IInv'
  BY StepIsSound DEF Preserved
<1> QED BY <1>1, <1>2, PTL DEF Spec

(* However updates, restarts and losses follow each other, the state of    *)
(* start_ota_update, ota_task and the slots keeps its types: in particular *)
(* the bootloader always finds an image to run.                            *)
THEOREM UpdateTypes == Spec => []TypeOK
<1>1. IInv => TypeOK
  BY DEF IInv
<1> QED BY <1>1, AlwaysIInv, PTL

(* The image that runs is one whose bytes were compared with the signed    *)
(* size and SHA-256 by ota_task, whatever the artifact had become.         *)
THEOREM SignedImagesRun == Spec => []OnlySignedImagesRun
<1>1. IInv => OnlySignedImagesRun
  BY DEF IInv, Runnable, OnlySignedImagesRun
<1> QED BY <1>1, AlwaysIInv, PTL

(* Downloading into the other slot, arming it and trying it never leave    *)
(* the endpoint without a confirmed image that passed its tests.           *)
THEOREM SoundImageKept == Spec => []ASoundImageIsKept
<1>1. ASSUME IInv PROVE ASoundImageIsKept
  <2>1. TypeOK /\ Runnable /\ ConfirmedRuns /\ TrialRuns
    BY <1>1 DEF IInv
  <2>2. running \in Slots /\ Other(running) \in Slots
    BY <2>1, BothSlots DEF TypeOK
  <2>3. CASE state[running] = "valid"
    BY <2>1, <2>2, <2>3 DEF Runnable, ConfirmedRuns, ASoundImageIsKept
  <2>4. CASE state[running] = "pending"
    BY <2>1, <2>2, <2>4 DEF TrialRuns, ASoundImageIsKept
  <2> QED BY <2>1, <2>3, <2>4 DEF Runnable
<1> QED BY <1>1, AlwaysIInv, PTL

(* The update of an endpoint implements its contract: newer versions are   *)
(* tried, sound ones confirmed, and one given up leads back to the last    *)
(* confirmed one.                                                          *)
THEOREM UpdatesImplementTrialBoot == Spec => ImplementsTrialBoot
<1>1. Init => Trials!TInit
  BY InitIsSound
<1>2. IInv /\ [Next]_uvars => [Trials!TNext]_(Trials!tvars)
  BY StepIsSound DEF Preserved
<1> QED BY <1>1, <1>2, AlwaysIInv, PTL
        DEF Spec, ImplementsTrialBoot, Trials!TSpec
=============================================================================
