----------------------------- MODULE SetupReady -----------------------------
(***************************************************************************)
(* The last steps of setup, main.py's /api/setup/capabilities and          *)
(* /api/setup/ready: requests that work in threads, so the file of         *)
(* NodeOnboarding that one of them loaded, or the ready state it read,     *)
(* may be old when it is saved.                                            *)
(***************************************************************************)
EXTENDS NodeOnboarding

CONSTANTS Slots        \* requests under way at a time

Idle == [op |-> "idle"]
Requests == {"select", "declare", "sync", "smoke", "complete", "acknowledge"}
Recoveries == {"declare", "sync"}
Unread == [tested |-> FALSE, failed |-> "none", warned |-> {}, accepted |-> {}, completed |-> FALSE]

(* The checks of the smoke test, in its order; one is not required.        *)
CheckOrder == <<"frontend", "trust", "governance", "providers", "engines", "dirs", "sockets",
                "alias", "core", "capability", "currency", "supervisor">>
CheckIds == {CheckOrder[i] : i \in DOMAIN CheckOrder}
Warnings == {"alias"}

VARIABLES
  ready,    \* setup/ready-state.json
  requests  \* by slot: what it does, and what it read

rvars == <<ready, requests>>

ReadyInit ==
  /\ OnboardingInit
  /\ ready = Unread
  /\ requests = [s \in Slots |-> Idle]

Request(s) == requests[s]
Finish(s) == requests' = [requests EXCEPT ![s] = Idle]
Continue(s, request) == requests' = [requests EXCEPT ![s] = request]

(* A request, or a recovery action, which keeps the ready state it read    *)
(* first for the case that it fails.  The ones that ask Core, or write a   *)
(* selection, load the file; what it forbids fails with an HTTP error.     *)
BeginRequest(s) ==
  \E op \in Requests, recovery \in BOOLEAN :
    /\ Request(s) = Idle
    /\ recovery => op \in Recoveries
    /\ op = "select" => node.trust = "trusted"
    /\ Continue(s, [op |-> op, recovery |-> recovery,
                   file |-> IF op \in {"complete", "acknowledge"} THEN Fresh ELSE node,
                   ready |-> IF recovery \/ op \in {"complete", "acknowledge"} THEN ready ELSE Unread])
    /\ UNCHANGED <<ready, ovars>>

Saves(file) == node' = file /\ UNCHANGED <<sessions, registry, bundle, restored, ready>>

FinishSelect(s) == Request(s).op = "select" /\ Saves(Selected(Request(s).file)) /\ Finish(s)

(* Core decides by the token of the file as it was loaded.                 *)
FinishDeclare(s) ==
  LET file == Request(s).file IN
  /\ Request(s).op = "declare" /\ MayDeclare(file) /\ Registered(file)
  /\ node' = Declared(file)
  /\ registry' = [registry EXCEPT ![file.core].ready = FALSE]
  /\ Finish(s) /\ UNCHANGED <<sessions, bundle, restored, ready>>

FinishSync(s) ==
  \E updated \in BOOLEAN :
    /\ Request(s).op = "sync" /\ MayGovern(Request(s).file) /\ Registered(Request(s).file)
    /\ Saves(Synced(Request(s).file, updated)) /\ Finish(s)

(* setup_action_error_payload: the error is noted in the file as it is by  *)
(* then; what the node itself or Core refuses rejects the declaration.     *)
Noted(op, refused) ==
  IF op = "declare"
  THEN [node EXCEPT !.errors = @ \cup {"declaration"}, !.capability = IF refused THEN "rejected" ELSE @]
  ELSE [node EXCEPT !.errors = @ \cup {"governance"}, !.governed = FALSE]

(* The request is refused, or Core cannot be reached.  A recovery action   *)
(* notes its error in the ready state it read when it began.               *)
FailRequest(s) ==
  /\ Request(s).op \in {"declare", "sync"}
  /\ IF Request(s).recovery
     THEN ready' = Request(s).ready /\ UNCHANGED ovars
     ELSE \E refused \in BOOLEAN : Saves(Noted(Request(s).op, refused))
  /\ Finish(s)

-----------------------------------------------------------------------------
(* setup_capabilities_status_payload: what the capabilities' page shows in *)
(* the way of the next step.                                               *)
CapabilitiesCurrent(file) == file.capability = "accepted"
ProvidersReady(file) == file.enabled /\ file.allowed

CapabilityBlockers(file) ==
  {reason \in {"untrusted_node", "core_connection_not_configured", "provider_setup_incomplete",
               "invalid_manifest", "core_declaration_rejected", "governance_sync_failed",
               "capability_declaration_not_current", "governance_not_current"} :
     CASE reason = "untrusted_node" -> file.trust # "trusted"
       [] reason = "core_connection_not_configured" -> file.core = NoCore
       [] reason = "provider_setup_incomplete" -> ~ file.allowed
       [] reason = "invalid_manifest" -> ~ file.id \/ ~ file.enabled
       [] reason = "core_declaration_rejected" -> "declaration" \in file.errors
       [] reason = "governance_sync_failed" -> "governance" \in file.errors
       [] reason = "capability_declaration_not_current" -> ~ CapabilitiesCurrent(file)
       [] reason = "governance_not_current" -> ~ file.governed}

-----------------------------------------------------------------------------
(* The smoke test: what the onboarding file and Core's record fail, and    *)
(* the checks of the host, the engines and the Supervisor, one of which    *)
(* may fail: the state keeps one.                                          *)
Trusted(file) == file.trust = "trusted" /\ file.id /\ file.token # 0
VisibleToCore(file) == Registered(file) /\ registry[file.core].ready

Fails(check, file) ==
  CASE check = "trust"      -> ~ Trusted(file)
    [] check = "governance" -> ~ file.governed
    [] check = "providers"  -> ~ ProvidersReady(file)
    [] check = "core"       -> ~ VisibleToCore(file)
    [] check = "capability" -> ~ VisibleToCore(file) \/ file.capability = "missing"
    [] check = "currency"   -> ~ file.governed
    [] OTHER -> FALSE

(* The page the failed step is on.                                         *)
PageOf(check) ==
  CASE check \in {"frontend", "dirs", "alias"} -> "host"
    [] check \in {"trust", "core"} -> "trust"
    [] check \in {"engines", "supervisor"} -> "providers"
    [] check \in {"capability", "currency"} -> "capabilities"
    [] OTHER -> "none"

(* Of the checks that failed, the state keeps the first with a page, or    *)
(* one without when there is no other.                                     *)
Earliest(checks) ==
  CheckOrder[CHOOSE i \in DOMAIN CheckOrder :
    /\ CheckOrder[i] \in checks
    /\ \A j \in DOMAIN CheckOrder : CheckOrder[j] \in checks => i <= j]

Paged(checks) == {check \in checks : PageOf(check) # "none"}

FirstOf(failed) ==
  IF failed = {} THEN "none" ELSE Earliest(IF Paged(failed) # {} THEN Paged(failed) ELSE failed)

FinishSmoke(s) ==
  \E others \in {{}} \cup {{check} : check \in {"frontend", "engines", "dirs", "sockets", "supervisor"}}, warned \in SUBSET Warnings :
    /\ Request(s).op = "smoke"
    /\ ready' = [ready EXCEPT !.tested = TRUE, !.warned = warned,
                   !.failed = FirstOf(others \cup {check \in CheckIds : Fails(check, Request(s).file)})]
    /\ Finish(s) /\ UNCHANGED ovars

(* setup_ready_failed_step_route: after the checks, what is blocked now.    *)
FailedStepRoute(state, file) ==
  LET shown == Paged({state.failed} \cup state.warned) IN
  IF shown # {} THEN PageOf(Earliest(shown))
  ELSE IF ~ ProvidersReady(file) THEN "providers"
  ELSE IF CapabilityBlockers(file) # {} THEN "capabilities" ELSE "ready"

Completable(state) == state.tested /\ state.failed = "none" /\ state.warned \subseteq state.accepted

RefuseComplete(s) ==
  /\ Request(s).op = "complete" /\ ~ Completable(Request(s).ready)
  /\ Finish(s) /\ UNCHANGED <<ready, ovars>>

(* The onboarding file is loaded, marked and saved at once ...             *)
MarkComplete(s) ==
  /\ Request(s).op = "complete" /\ Completable(Request(s).ready)
  /\ Saves([node EXCEPT !.operational = TRUE, !.step = "ready"])
  /\ Continue(s, [Request(s) EXCEPT !.op = "completing"])

(* ... and the ready state as it was read, by a thread.                    *)
FinishComplete(s) ==
  /\ Request(s).op = "completing"
  /\ ready' = [Request(s).ready EXCEPT !.completed = TRUE]
  /\ Finish(s) /\ UNCHANGED ovars

FinishAcknowledge(s) ==
  /\ Request(s).op = "acknowledge"
  /\ ready' = [Request(s).ready EXCEPT !.accepted = Request(s).ready.warned]
  /\ Finish(s) /\ UNCHANGED ovars

ReadyNext ==
  \/ OnboardingNext /\ UNCHANGED rvars
  \/ \E s \in Slots :
       \/ BeginRequest(s) \/ FinishSelect(s) \/ FinishDeclare(s) \/ FinishSync(s) \/ FailRequest(s)
       \/ FinishSmoke(s) \/ RefuseComplete(s) \/ MarkComplete(s) \/ FinishComplete(s)
       \/ FinishAcknowledge(s)

ReadySpec == ReadyInit /\ [][ReadyNext]_<<ovars, rvars>>

-----------------------------------------------------------------------------
(* The types of the variables.                                             *)
ReadyTypeOK ==
  /\ ready \in [tested : BOOLEAN, failed : CheckIds \cup {"none"}, warned : SUBSET Warnings, accepted : SUBSET Warnings,
                 completed : BOOLEAN]
  /\ \A s \in Slots : requests[s].op \in Requests \cup {"idle", "completing"}

(* What setup shows as unblocked can go on: when the capabilities' page    *)
(* shows no blocker, declaring again and asking for the governance are not *)
(* refused by the node itself, whatever was lost, revoked, restarted or    *)
(* saved late in between, unless the file came from a bundle.              *)
UnblockedMayGoOn ==
  CapabilityBlockers(node) = {} /\ ~ restored => MayDeclare(node) /\ MayGovern(node)

(* A failed smoke test leads to a page where the operator can do something *)
(* about it.                                                               *)
FailedTestLeadsOn == ready.failed # "none" => FailedStepRoute(ready, node) # "ready"
=============================================================================
