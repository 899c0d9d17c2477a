---------------------------- MODULE SessionLedger ----------------------------
(***************************************************************************)
(* What one endpoint's voice sessions promise, whatever the events that    *)
(* drive them: at most one session is live; an id opens one session at     *)
(* most between two restarts of the endpoint, and that session is closed   *)
(* exactly once; one that broke its state machine is not closed as a       *)
(* success; and the outcome of an id stays until the endpoint has          *)
(* restarted, opened the id again and closed that session too.             *)
(***************************************************************************)
EXTENDS Naturals

CONSTANTS Ids,       \* session ids
          Nobody     \* no session is live

VARIABLES live,      \* the live session, or Nobody
          broken,    \* the live session left its state machine
          taken,     \* the ids spent since the endpoint last started
          outcome    \* what became of the last session of every id

lvars == <<live, broken, taken, outcome>>

Outcomes == {"closed", "failed"}   \* closed: completed, or cancelled

LInit ==
  /\ live = Nobody /\ ~ broken
  /\ taken = {} /\ outcome = [i \in Ids |-> "open"]

(* The live session ends, or there is none.                                *)
Closes ==
  \/ live = Nobody /\ UNCHANGED outcome
  \/ \E o \in Outcomes :
       /\ live # Nobody
       /\ broken => o = "failed"
       /\ outcome' = [outcome EXCEPT ![live] = o]

Close == Closes /\ live' = Nobody /\ ~ broken' /\ UNCHANGED taken

(* A fresh id is spent, on the next session or on a start that is refused, *)
(* and so may be others whose start never arrived; the session the backend *)
(* still held is closed.                                                   *)
Open(i) ==
  /\ i \notin taken /\ taken \cup {i} \subseteq taken'
  /\ Closes
  /\ live' \in {i, Nobody} /\ ~ broken'

Break ==
  /\ live # Nobody
  /\ broken'
  /\ UNCHANGED <<live, taken, outcome>>

(* The endpoint starts again and numbers its sessions from the beginning.  *)
Restart == Closes /\ live' = Nobody /\ ~ broken' /\ taken' = {}

LNext == Break \/ Close \/ Restart \/ \E i \in Ids : Open(i)

LSpec == LInit /\ [][LNext]_lvars
=============================================================================
