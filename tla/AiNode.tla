------------------------------- MODULE AiNode -------------------------------
(***************************************************************************)
(* AiNodeIntentClassifier and AiNodeAssistantAdapter                       *)
(* (src/hexevoice/assistant/service.py): a text no intent matches is shown *)
(* to the classifier, and what the classifier does not settle goes to the  *)
(* assistant.  Core names the AI node to ask, while the node is trusted;   *)
(* the configured URL stands in for a resolution that fails and, for the   *)
(* assistant, for an execution that fails; the local echo for both.  Each  *)
(* adapter keeps the same fields about the last time it tried.             *)
(*                                                                         *)
(* An AI node that answers too late has executed the request all the same. *)
(***************************************************************************)
EXTENDS Naturals, FiniteSets

CONSTANTS CoreUrl, StaticUrl,  \* where a text is sent, by who names it
          NoUrl,
          MaxAiTurns           \* bound: turns of a behaviour

ASSUME AiNodeAssumption ==
  Cardinality({CoreUrl, StaticUrl, NoUrl}) = 3 /\ MaxAiTurns \in Nat

Adapters == {"classifier", "assistant"}
Urls == {CoreUrl, StaticUrl}

VARIABLES
  configured,   \* the configured URL: none, one of its own, or Core's choice
  trusted,      \* trust_activation.trust_status, set in other threads
  aiTurns,      \* turns begun
  asking,       \* the adapter at work, its step and its target
  sent,         \* history: by adapter and URL, how often this text was sent
  aiReply,      \* what answers
  health        \* by adapter: _last_error_code, _last_resolved_url,
                \* _last_resolution_source, _last_resolution_error

ivars == <<configured, trusted, aiTurns, asking, sent, aiReply, health>>

Nowhere == [url |-> NoUrl, source |-> "none"]
StaticTarget == IF configured = NoUrl THEN Nowhere ELSE [url |-> configured, source |-> "static"]
ErrorCode == {"ai_node_timeout", "ai_node_http_error", "ai_node_invalid_response"}

AiInit ==
  /\ configured \in {NoUrl, StaticUrl, CoreUrl} /\ trusted \in BOOLEAN
  /\ aiTurns = 0 /\ asking = [at |-> "idle", who |-> "assistant", target |-> Nowhere]
  /\ sent = [a \in Adapters |-> [u \in Urls |-> 0]] /\ aiReply = "none"
  /\ health = [a \in Adapters |->
       [error |-> "fine", url |-> NoUrl, source |-> "none", unresolved |-> FALSE]]

-----------------------------------------------------------------------------

(* Trust is won, and revoked, in the node's other threads.                 *)
TrustTurns ==
  /\ trusted' = ~ trusted
  /\ UNCHANGED <<configured, aiTurns, asking, sent, aiReply, health>>

(* A text without an intent.  The classifier may be switched off.          *)
AskAiNode ==
  \E who \in Adapters :
    /\ asking.at = "idle" /\ aiTurns < MaxAiTurns /\ aiTurns' = aiTurns + 1
    /\ asking' = [at |-> "resolving", who |-> who, target |-> Nowhere]
    /\ sent' = [a \in Adapters |-> [u \in Urls |-> 0]] /\ aiReply' = "none"
    /\ UNCHANGED <<configured, trusted, health>>

(* classify returns nothing and the assistant is asked; the assistant      *)
(* returns the local echo (_fallback_response).                            *)
Declined ==
  IF asking.who = "classifier"
    THEN asking' = [at |-> "resolving", who |-> "assistant", target |-> Nowhere] /\ UNCHANGED aiReply
    ELSE asking' = [at |-> "idle", who |-> "assistant", target |-> Nowhere] /\ aiReply' = "echo"

(* _resolve_target: Core refuses, has no candidate, names one without a    *)
(* URL, or is not asked.                                                   *)
ResolveTarget ==
  \E found \in BOOLEAN :
    LET target == IF found THEN [url |-> CoreUrl, source |-> "core"] ELSE StaticTarget IN
    /\ asking.at = "resolving" /\ (found => trusted)
    /\ health' = [health EXCEPT
         ![asking.who].unresolved = @ \/ ~ found,
         ![asking.who].error = IF target = Nowhere THEN "missing_ai_node_base_url" ELSE @]
    /\ IF target = Nowhere THEN Declined
       ELSE asking' = [asking EXCEPT !.at = "sending", !.target = target] /\ UNCHANGED aiReply
    /\ UNCHANGED <<configured, trusted, aiTurns, sent>>

(* _execute_target and the end of classify: the AI node answered in time,  *)
(* with a text.  The classifier's answer may settle nothing: an intent it  *)
(* is not sure of, or that is not in the registry.                         *)
Succeeds ==
  \E settles \in BOOLEAN :
    LET who == asking.who  t == asking.target IN
    /\ who = "assistant" => settles
    /\ health' = [health EXCEPT ![who] =
         [error |-> "fine", url |-> t.url, source |-> t.source,
          unresolved |-> t.source # "core" /\ @.unresolved]]
    /\ IF settles THEN /\ asking' = [at |-> "idle", who |-> "assistant", target |-> Nowhere]
                       /\ aiReply' = who
       ELSE Declined

(* Mutant: a failed execution is sent to the configured URL again.         *)
RetriesAlways == asking.who = "assistant" /\ asking.target.source = "core" /\ configured # NoUrl

(* handle_turn: only what Core chose is retried, and only somewhere else.  *)
Retries ==
  /\ asking.who = "assistant" /\ asking.target.source = "core"
  /\ configured \notin {NoUrl, asking.target.url}

Fails ==
  \E code \in ErrorCode :
    IF Retries
      THEN asking' = [asking EXCEPT !.target = StaticTarget] /\ UNCHANGED <<aiReply, health>>
      ELSE health' = [health EXCEPT ![asking.who].error = code] /\ Declined

Execute ==
  /\ asking.at = "sending"
  /\ sent' = [sent EXCEPT ![asking.who][asking.target.url] = @ + 1]
  /\ Succeeds \/ Fails
  /\ UNCHANGED <<configured, trusted, aiTurns>>

AiNext == TrustTurns \/ AskAiNode \/ ResolveTarget \/ Execute

AiSpec == AiInit /\ [][AiNext]_ivars

-----------------------------------------------------------------------------

(* The types of the variables.                                             *)
AiTypeOK ==
  /\ configured \in Urls \cup {NoUrl} /\ trusted \in BOOLEAN /\ aiTurns \in 0 .. MaxAiTurns
  /\ asking \in [at : {"idle", "resolving", "sending"}, who : Adapters,
                  target : [url : Urls \cup {NoUrl}, source : {"none", "static", "core"}]]
  /\ sent \in [Adapters -> [Urls -> 0 .. 2]] /\ aiReply \in Adapters \cup {"none", "echo"}
  /\ health \in [Adapters -> [error : ErrorCode \cup {"fine", "missing_ai_node_base_url"},
                               url : Urls \cup {NoUrl}, source : {"none", "static", "core"},
                               unresolved : BOOLEAN]]

(* An AI node is asked once for a text, however the resolution, the trust  *)
(* and the failures of the two adapters fall; the echo speaks only when    *)
(* the configured AI node was asked; and the status of the assistant says  *)
(* how the last text fared.                                                *)
AskedOnceEach ==
  /\ \A a \in Adapters, u \in Urls : sent[a][u] <= 1
  /\ asking.at = "idle" /\ aiReply = "echo" =>
       /\ configured # NoUrl => sent["assistant"][configured] = 1
       /\ health["assistant"].error # "fine"
  /\ asking.at = "idle" /\ aiReply = "assistant" =>
       /\ health["assistant"].error = "fine" /\ sent["assistant"][health["assistant"].url] = 1
       /\ health["assistant"].unresolved => health["assistant"].source = "static"
=============================================================================
