--------------------------- MODULE NodeOnboarding ---------------------------
(***************************************************************************)
(* The node's setup with Core: src/hexevoice/onboarding, setup_trust.py,   *)
(* setup_reauth.py, trust/status.py, providers/setup.py, capabilities,     *)
(* governance and migration.py, all of them operations on one JSON file    *)
(* (persistence/onboarding_state.py) that load it, mostly ask Core, and    *)
(* save it whole.  The routes run on the event loop and wait for nothing,  *)
(* so an operation is one step.  Core decides in the meantime, and may do  *)
(* what it was asked while its answer is lost; the node then saves nothing *)
(* but the error.                                                          *)
(*                                                                         *)
(* A token is known by the session it was issued for.                      *)
(***************************************************************************)
EXTENDS Naturals, Sequences, FiniteSets

CONSTANTS Cores, NoCore,
          MaxSessions,    \* bound: sessions, reauthorisations included
          NoBundle

ASSUME OnboardingAssumption ==
  NoCore \notin Cores /\ MaxSessions \in Nat /\ IsFiniteSet(Cores)

Terminal == {"rejected", "invalid", "consumed"}    \* expired counts as rejected
PreTrust == {"node_identity", "core_connection", "bootstrap_discovery",
             "registration", "approval", "trust_activation"}
PostTrust == {"provider_setup", "capability_declaration", "governance_sync", "ready"}
Redacted == MaxSessions + 1    \* an activation without its token
Nonces == {1, 2}               \* an operator's; a reauthorisation makes a new one

VARIABLES
  node,      \* PersistedOnboardingState
  sessions,  \* Core's sessions, in the order they began
  registry,  \* by Core, the node's record: nothing, a token, or revoked
  bundle,    \* an export or a backup
  restored   \* history: the file came from a bundle and was not reset since

ovars == <<node, sessions, registry, bundle, restored>>

Fresh ==
  [nonce |-> 0, core |-> NoCore, connected |-> FALSE, advert |-> FALSE,
   session |-> 0, closed |-> FALSE, activation |-> 0,
   trust |-> "untrusted", id |-> FALSE, token |-> 0,
   enabled |-> FALSE, allowed |-> FALSE, capability |-> "missing",
   governed |-> FALSE, operational |-> FALSE, errors |-> {}, step |-> "node_identity"]

OnboardingInit ==
  /\ node = Fresh /\ sessions = <<>> /\ registry = [c \in Cores |-> [token |-> 0, ready |-> FALSE]]
  /\ bundle = NoBundle /\ restored = FALSE

Sessions == DOMAIN sessions
Registered(file) == file.core # NoCore /\ file.id /\ file.token # 0 /\ registry[file.core].token = file.token

SaveNode(file) == node' = file /\ UNCHANGED <<sessions, registry, bundle, restored>>

-----------------------------------------------------------------------------

(* _recompute_resume.                                                      *)
Resume(file) ==
  IF file.trust = "trusted" /\ file.step # "node_identity" THEN file.step
  ELSE IF file.nonce = 0 THEN "node_identity"
  ELSE IF file.core = NoCore \/ ~ file.connected THEN "core_connection"
  ELSE IF file.advert THEN "registration" ELSE "bootstrap_discovery"

SaveIdentity ==
  \E nonce \in Nonces :
    LET file == [node EXCEPT !.nonce = nonce] IN
    SaveNode([file EXCEPT !.step = Resume(file)])

(* Another Core invalidates the discovery and the session, not the trust.  *)
SaveCoreConnection ==
  \E c \in Cores :
    LET file == [node EXCEPT !.core = c, !.connected = FALSE, !.advert = FALSE,
                  !.session = 0, !.closed = FALSE, !.activation = 0]
    IN SaveNode([file EXCEPT !.step = Resume(file)])

RestartSetup == node' = Fresh /\ restored' = FALSE /\ UNCHANGED <<sessions, registry, bundle>>

TestConnection ==
  \E reached \in {FALSE, node.core # NoCore} :
    SaveNode([node EXCEPT !.connected = reached,
                !.step = IF reached THEN "bootstrap_discovery"
                         ELSE IF node.core # NoCore THEN "core_connection" ELSE @])

ValidateAdvertisement ==
  \E valid \in BOOLEAN :
    SaveNode([node EXCEPT !.advert = valid, !.step = IF valid THEN "registration" ELSE @])

-----------------------------------------------------------------------------

Opened(kind) == Append(sessions, [core |-> node.core, nonce |-> node.nonce, kind |-> kind, status |-> "pending"])

(* start_session; without an answer, the session is Core's alone.          *)
StartSession ==
  \E answered \in BOOLEAN :
    /\ node.core # NoCore /\ node.nonce # 0 /\ node.advert
    /\ Len(sessions) < MaxSessions /\ sessions' = Opened("onboarding")
    /\ node' = IF answered
         THEN [node EXCEPT !.session = Len(sessions) + 1, !.closed = FALSE, !.step = "approval"]
         ELSE node
    /\ UNCHANGED <<registry, bundle, restored>>

(* An operator of Core, or its clock.                                      *)
CoreDecides ==
  \E s \in Sessions, status \in {"approved", "rejected"} :
    /\ sessions[s].status = "pending"
    /\ sessions' = [sessions EXCEPT ![s].status = status]
    /\ UNCHANGED <<node, registry, bundle, restored>>

CoreRevokes ==
  \E c \in Cores :
    /\ registry[c].token # 0 /\ registry' = [registry EXCEPT ![c] = [@ EXCEPT !.token = 0, !.ready = FALSE]]
    /\ UNCHANGED <<node, sessions, bundle, restored>>

(* What Core makes of the session the file names.                          *)
Outcome ==
  LET s == node.session IN
  IF sessions[s].core # node.core \/ sessions[s].nonce # node.nonce THEN "invalid"
  ELSE sessions[s].status

(* Asked for an approved session, Core issues the token and is done.       *)
CoreFinalizes ==
  LET s == node.session IN
  IF Outcome = "approved"
    THEN /\ sessions' = [sessions EXCEPT ![s].status = "consumed"]
         /\ registry' = [registry EXCEPT ![node.core] = [token |-> s, ready |-> FALSE]]
    ELSE UNCHANGED <<sessions, registry>>

(* poll_session.  A session that is not approved, or not any more, leaves  *)
(* no activation to apply.                                                 *)
PollSession ==
  \E answered \in BOOLEAN :
    /\ node.core # NoCore /\ node.nonce # 0 /\ node.session # 0 /\ CoreFinalizes
    /\ node' = IF ~ answered THEN node
         ELSE [node EXCEPT !.closed = Outcome \in Terminal,
                 !.activation = IF Outcome = "approved" THEN node.session ELSE 0,
                 !.step = IF Outcome = "approved" THEN "trust_activation" ELSE "approval"]
    /\ UNCHANGED <<bundle, restored>>

Activated(file) ==
  [file EXCEPT !.trust = "trusted", !.id = TRUE,
     !.token = IF file.activation = Redacted THEN 0 ELSE file.activation,
     !.activation = 0, !.step = "provider_setup"]

FinalizeActivation == node.activation # 0 /\ SaveNode(Activated(node))

(* Mutant: trust that is lost leaves the setup where it was.               *)
RefreshTrustInPlace ==
  /\ node.core # NoCore /\ node.id /\ node.token # 0
  /\ IF Registered(node)
       THEN SaveNode([node EXCEPT !.trust = "trusted", !.step = IF @ \in PreTrust THEN "provider_setup" ELSE @])
       ELSE SaveNode([node EXCEPT !.trust = "revoked", !.session = 0, !.closed = FALSE, !.activation = 0])

(* refresh_status: supported, or revoked or removed.                       *)
RefreshTrust ==
  /\ node.core # NoCore /\ node.id /\ node.token # 0
  /\ IF Registered(node)
       THEN SaveNode([node EXCEPT !.trust = "trusted", !.step = IF @ \in PreTrust THEN "provider_setup" ELSE @])
       ELSE SaveNode([node EXCEPT !.trust = "revoked", !.session = 0, !.closed = FALSE,
                        !.activation = 0, !.step = "registration"])

-----------------------------------------------------------------------------

(* setup_reauth.py: a new nonce, and the session takes the place of the    *)
(* onboarding session.                                                     *)
StartReauth ==
  \E answered \in BOOLEAN :
    LET nonce == Len(sessions) + 3 IN
    /\ node.id /\ node.core # NoCore /\ Len(sessions) < MaxSessions
    /\ sessions' = Append(sessions, [core |-> node.core, nonce |-> nonce, kind |-> "reauth", status |-> "pending"])
    /\ node' = IF ~ answered THEN node
         ELSE [node EXCEPT !.nonce = nonce, !.session = Len(sessions) + 1,
                 !.closed = FALSE, !.step = "trust_activation"]
    /\ UNCHANGED <<registry, bundle, restored>>

FinalizeReauth ==
  \E answered \in BOOLEAN :
    /\ node.core # NoCore /\ node.session # 0 /\ node.nonce # 0 /\ CoreFinalizes
    /\ node' = IF ~ answered THEN node
         ELSE IF Outcome = "approved"
           THEN Activated([node EXCEPT !.closed = FALSE, !.activation = node.session])
         ELSE [node EXCEPT !.closed = Outcome \in Terminal]
    /\ UNCHANGED <<bundle, restored>>

RepollApproval == IF node.trust = "reauth_required" THEN FinalizeReauth ELSE PollSession

RetryTrustFinalize == IF node.trust = "reauth_required" THEN FinalizeReauth ELSE FinalizeActivation

(* _pretrust_resume_step.                                                  *)
PretrustStep ==
  IF node.nonce = 0 THEN "node_identity"
  ELSE IF node.core = NoCore THEN "core_connection"
  ELSE IF node.advert THEN "registration" ELSE "bootstrap_discovery"

RestartOnboarding ==
  LET file == IF node.trust = "trusted" THEN node ELSE [node EXCEPT !.trust = "untrusted", !.id = FALSE, !.token = 0] IN
  SaveNode([file EXCEPT !.session = 0, !.closed = FALSE, !.activation = 0, !.step = PretrustStep])

ClearExpiredSession ==
  /\ node.closed
  /\ SaveNode([node EXCEPT !.session = 0, !.closed = FALSE, !.activation = 0,
                 !.step = IF node.trust = "reauth_required" THEN "trust_activation" ELSE "registration"])

-----------------------------------------------------------------------------

(* _manifest_stale_updates.                                                *)
Stale(file) ==
  IF file.capability # "accepted" THEN file
  ELSE [file EXCEPT !.capability = "stale", !.governed = FALSE, !.operational = FALSE,
                  !.errors = @ \ {"declaration"}]

(* save_setup: the providers the settings name, or too few of them.        *)
SaveProviders ==
  \E enabled, complete, changed \in BOOLEAN :
    LET file == [node EXCEPT !.enabled = enabled, !.allowed = enabled /\ complete /\ node.id,
                   !.step = IF enabled /\ complete /\ node.id THEN "capability_declaration" ELSE "provider_setup"]
    IN
    /\ node.trust = "trusted" /\ (enabled # node.enabled => changed)
    /\ SaveNode(IF changed THEN Stale(file) ELSE file)

(* What save_selection, declare and the governance update make of the file *)
(* they loaded: a whole file, to be saved.                                 *)
Selected(file) ==
  [file EXCEPT !.capability = "stale", !.governed = FALSE, !.errors = @ \ {"declaration"}]
Declared(file) ==
  [file EXCEPT !.capability = "accepted", !.governed = FALSE, !.errors = @ \ {"declaration"},
     !.step = "governance_sync"]
Synced(file, updated) ==
  [file EXCEPT !.governed = TRUE, !.errors = @ \ {"governance"}, !.step = IF updated /\ file.operational THEN "ready" ELSE "governance_sync"]

MayDeclare(file) == file.trust = "trusted" /\ file.id /\ file.token # 0 /\ file.core # NoCore /\ file.enabled /\ file.allowed
MayGovern(file) == file.core # NoCore /\ file.id /\ file.token # 0 /\ file.capability # "missing"

SaveSelection == node.trust = "trusted" /\ SaveNode(Selected(node))

(* The manifest, then the budget, each refused by an HTTP error.           *)
Declare ==
  \E budget \in BOOLEAN :
    /\ MayDeclare(node) /\ Registered(node)
    /\ registry' = [registry EXCEPT ![node.core].ready = FALSE]
    /\ node' = IF budget THEN Declared(node) ELSE node
    /\ UNCHANGED <<sessions, bundle, restored>>

(* current, and refresh with or without something new.                     *)
SyncGovernance ==
  \E updated \in BOOLEAN : MayGovern(node) /\ Registered(node) /\ SaveNode(Synced(node, updated))

PollOperationalStatus ==
  /\ MayGovern(node) /\ Registered(node)
  /\ SaveNode([node EXCEPT !.operational = registry[node.core].ready,
                 !.step = IF registry[node.core].ready THEN "ready" ELSE "governance_sync"])

CoreFindsReady ==
  \E c \in Cores :
    /\ registry[c].token # 0 /\ ~ registry[c].ready
    /\ registry' = [registry EXCEPT ![c].ready = TRUE]
    /\ UNCHANGED <<node, sessions, bundle, restored>>

-----------------------------------------------------------------------------

(* _redact_trust_secrets.                                                  *)
Redact(file) ==
  [file EXCEPT !.token = 0, !.trust = IF file.id THEN "reauth_required" ELSE @,
     !.activation = IF @ = 0 THEN 0 ELSE Redacted,
     !.operational = ~ file.id /\ @]

ExportBundle == bundle' = Redact(node) /\ UNCHANGED <<node, sessions, registry, restored>>

(* import_bundle and restore_backup.                                       *)
ImportBundle ==
  \E c \in Cores \cup {NoCore} :
    /\ bundle # NoBundle
    /\ node' = IF c = NoCore THEN bundle ELSE [bundle EXCEPT !.core = c]
    /\ restored' = TRUE /\ UNCHANGED <<sessions, registry, bundle>>

OnboardingNext ==
  \/ SaveIdentity \/ SaveCoreConnection \/ RestartSetup \/ TestConnection \/ ValidateAdvertisement
  \/ StartSession \/ PollSession \/ FinalizeActivation \/ RefreshTrust
  \/ StartReauth \/ FinalizeReauth \/ RestartOnboarding \/ ClearExpiredSession
  \/ RepollApproval \/ RetryTrustFinalize
  \/ SaveProviders \/ SaveSelection \/ Declare \/ SyncGovernance \/ PollOperationalStatus
  \/ ExportBundle \/ ImportBundle \/ CoreDecides \/ CoreRevokes \/ CoreFindsReady

OnboardingSpec == OnboardingInit /\ [][OnboardingNext]_ovars

-----------------------------------------------------------------------------

(* The types of the variables.                                             *)
NodeFile ==
  [nonce : 0 .. MaxSessions + 3, core : Cores \cup {NoCore}, connected : BOOLEAN, advert : BOOLEAN,
   session : 0 .. MaxSessions, closed : BOOLEAN, activation : 0 .. Redacted,
   trust : {"untrusted", "trusted", "revoked", "reauth_required"}, id : BOOLEAN,
   token : 0 .. MaxSessions, enabled : BOOLEAN, allowed : BOOLEAN,
   capability : {"missing", "stale", "accepted", "rejected"}, governed : BOOLEAN, operational : BOOLEAN,
   errors : SUBSET {"declaration", "governance"},  \* last_error of each
   step : PreTrust \cup PostTrust]

OnboardingTypeOK ==
  /\ node \in NodeFile /\ (bundle # NoBundle => bundle \in NodeFile) /\ restored \in BOOLEAN
  /\ registry \in [Cores -> [token : 0 .. MaxSessions, ready : BOOLEAN]]
  /\ \A s \in Sessions : sessions[s].status \in Terminal \cup {"pending", "approved"}

(* docs/architecture.md:239, 245: provider setup, declaration, governance   *)
(* and ready come after trust, and trust that is lost takes the node back  *)
(* before them, whatever was started, lost, decided or saved in between;   *)
(* unless a bundle brought the step with it.  The calls for the governance *)
(* ask for the node's token, not for its trust: a node that another Core   *)
(* disowned and that is set back to its own may be past trust without it.  *)
OneCore == \A c, d \in Cores : c = d

PostTrustNeedsTrust ==
  node.step \in PostTrust /\ ~ restored =>
    /\ node.id /\ node.token # 0
    /\ OneCore \/ node.step \in {"provider_setup", "capability_declaration"} => node.trust = "trusted"
    /\ node.step = "ready" => node.operational /\ node.capability # "missing"

(* The token of a node that never was restored is one Core issued it.      *)
TokensAreIssued ==
  /\ node.trust = "trusted" /\ ~ restored => node.token \in Sessions
  /\ node.token # 0 => sessions[node.token].status = "consumed"

=============================================================================
