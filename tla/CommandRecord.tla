---------------------------- MODULE CommandRecord ----------------------------
(***************************************************************************)
(* src/hexevoice/voice/session_manager.py: what becomes of the records in  *)
(* _command_records.  Only the status of a record is kept here: "terminal" *)
(* is set together with it and follows from it.  "none" is no record.      *)
(***************************************************************************)
Verdicts == {"succeeded", "failed"}

Terminal == Verdicts \cup {"timed_out"}

Statuses == Terminal \cup {"none", "pending", "accepted", "started"}

(* _update_command_from_ack and _update_command_from_error: whatever the   *)
(* record says already.  A request without a record is ignored.            *)
Answered(record, r, status) ==
  [record EXCEPT ![r] = IF @ = "none" THEN "none" ELSE status]

(* Mutant: only commands nobody has acknowledged expire.                   *)
ExpiredPending(record, due) ==
  [r \in DOMAIN record |->
     IF r \in due /\ record[r] = "pending" THEN "timed_out" ELSE record[r]]

(* _expire_commands                                                        *)
Expired(record, due) ==
  [r \in DOMAIN record |->
     IF r \in due /\ record[r] \notin Terminal \cup {"none"}
       THEN "timed_out" ELSE record[r]]
=============================================================================
