--------------------------- MODULE AssistantTurns ---------------------------
(***************************************************************************)
(* src/hexevoice/assistant/service.py, AssistantTurnService: one text of   *)
(* one endpoint is matched against the local intents, then put to the      *)
(* classifier of the AI node, then to the assistant.  An intent is         *)
(* published and dispatched at once, inside handle_turn; it may leave a    *)
(* question the next turn of the endpoint may answer with yes or no.       *)
(*                                                                         *)
(* What is said is a member of Says; what the matcher makes of it is       *)
(* written in Local, what the classifier makes of it in Guess.             *)
(***************************************************************************)
EXTENDS Naturals, FiniteSets

CONSTANTS Endpoints, Sessions, \* sessions of an endpoint are numbered
          ApiSays,             \* bound: what the intent API is called with
          NoQuestion           \* no follow-up is pending

Intents == {"timer", "calendar", "door", "gate", "debug", "diary"}
NoIntent == "none"
Says == {"timer", "calendar", "agenda", "door", "gate", "yes", "debug",
         "diary", "weapon", "weather", "mumble"}

(* What the intents declare: their policy for the speaker, whether they    *)
(* ask for confirmation, whether they are maintenance.                     *)
PolicyOf(i) ==
  CASE i \in {"calendar", "debug"} -> "required"
    [] i = "diary" -> "forbidden"
    [] i \in {"timer", "yes"} -> "not_required"
    [] OTHER -> "use_if_ready"
Asks == {"door", "gate"}
IsAdmin(i) == i = "debug"

ASSUME ApiAssumption == ApiSays \subseteq Says /\ Sessions \subseteq Nat \ {0}

VARIABLES
  byEndpoint,    \* _pending_followups_by_endpoint
  bySession,     \* _pending_followups_by_session, of [endpoint, session]
  asked,         \* ghost: the last question put to the endpoint, unanswered
  confirmed,     \* ghost: the question the last "yes" confirmed
  hidden,        \* ghost: questions of turns the API has asked another over
  acted,         \* ghost: what was executed in the turn
  invocation     \* the intent a call of the API has found for an endpoint

asvars == <<byEndpoint, bySession, asked, confirmed, hidden, acted, invocation>>

ApiSession == 0  \* _next_session_id: a session of the call alone

Open(e, s) ==
  IF byEndpoint[e] # NoQuestion THEN byEndpoint[e] ELSE bySession[<<e, s>>]

(* _pending_followup, of a question that has not expired                   *)
PendingFollowup(e, s) == Open(e, s)

(* LocalIntentFinder.find: a confirmation needs a pending question.  "The  *)
(* agenda" is not one of the examples or patterns of the calendar intent.  *)
Local(says, pending) ==
  IF says \in Intents THEN says
  ELSE IF says = "yes" /\ pending # NoQuestion THEN "yes" ELSE NoIntent

(* match_ai_classification: the same intents, by the guess of the node.    *)
Guess(says) == IF says = "agenda" THEN "calendar" ELSE NoIntent

(* Mutant: only the session forgets the question.                          *)
ClearSessionOnly(q) ==
  /\ bySession' = [bySession EXCEPT ![<<q.endpoint, q.session>>] = NoQuestion]
  /\ UNCHANGED byEndpoint

(* _clear_pending_followup                                                 *)
ClearFollowup(q) ==
  /\ bySession' = [bySession EXCEPT ![<<q.endpoint, q.session>>] = NoQuestion]
  /\ byEndpoint' = [byEndpoint EXCEPT ![q.endpoint] = NoQuestion]

(* _store_pending_followup                                                 *)
StoreFollowup(e, s, i) ==
  LET q == [endpoint |-> e, session |-> s, about |-> i]
  IN /\ byEndpoint' = [byEndpoint EXCEPT ![e] = q]
     /\ bySession' = [bySession EXCEPT ![<<e, s>>] = q]

(* _apply_followup_transition: any other intent drops the question.        *)
ApplyFollowup(e, s, i) ==
  LET pending == PendingFollowup(e, s)
  IN IF i \in Asks THEN StoreFollowup(e, s, i)
     ELSE IF pending # NoQuestion THEN ClearFollowup(pending)
     ELSE UNCHANGED <<byEndpoint, bySession>>

(* _handle_matched_intent: voice.intent.recognized is published and the    *)
(* command dispatched, then the reply is made.  "how" says who found the   *)
(* intent and "speaker" whether the turn knew who spoke.                   *)
HandleMatched(e, s, i, how, speaker) ==
  /\ acted' = acted \cup {[intent |-> i, how |-> how, speaker |-> speaker]}
  /\ confirmed' = IF i = "yes" /\ how # "api" THEN PendingFollowup(e, s) ELSE NoQuestion
  /\ asked' = [asked EXCEPT ![e] =
                 IF i \in Asks THEN [endpoint |-> e, session |-> s, about |-> i]
                 ELSE NoQuestion]
  /\ hidden' = IF how = "api" /\ i \in Asks THEN hidden \cup {byEndpoint[e]} ELSE hidden
  /\ ApplyFollowup(e, s, i)

(* A turn that is not an intent leaves the question open.                  *)
NothingMatched ==
  confirmed' = NoQuestion /\ UNCHANGED <<byEndpoint, bySession, asked, hidden, acted>>

(* handle_turn; the intent it found, or none for a chat with the assistant *)
(* of the AI node, its fallback, or "I didn't catch that."                 *)
Found(e, s, says) ==
  LET here == Local(says, PendingFollowup(e, s))
  IN IF says = "mumble" THEN NoIntent
     ELSE IF here # NoIntent THEN here ELSE Guess(says)

HandleTurn(e, s, says, speaker) ==
  LET i == Found(e, s, says)
  IN IF i = NoIntent THEN NothingMatched
     ELSE HandleMatched(e, s, i,
            IF Local(says, PendingFollowup(e, s)) = i THEN "local" ELSE "ai", speaker)

(* invoke_intent: the intent API and the buttons run the same steps in a   *)
(* worker thread, without the turn's checks and the classifier, so a turn  *)
(* may come between finding the intent and executing it.                   *)
InvokeFind(e, says) ==
  /\ invocation[e] = NoIntent /\ says \in ApiSays
  /\ Local(says, PendingFollowup(e, ApiSession)) # NoIntent
  /\ invocation' = [invocation EXCEPT ![e] = Local(says, PendingFollowup(e, ApiSession))]
  /\ UNCHANGED <<byEndpoint, bySession, asked, confirmed, hidden, acted>>

InvokeIntent(e) ==
  /\ invocation[e] # NoIntent
  /\ HandleMatched(e, ApiSession, invocation[e], "api", "none")
  /\ invocation' = [invocation EXCEPT ![e] = NoIntent]

(* is_expired: seen when the question is looked up, by a turn or by the    *)
(* status; both places forget it.                                          *)
Expire(e, s) ==
  /\ PendingFollowup(e, s) # NoQuestion
  /\ ClearFollowup(PendingFollowup(e, s))
  /\ asked' = [asked EXCEPT ![e] = NoQuestion]
  /\ confirmed' = NoQuestion /\ UNCHANGED <<hidden, acted, invocation>>

AssistantInit ==
  /\ byEndpoint = [e \in Endpoints |-> NoQuestion]
  /\ bySession = [es \in Endpoints \X (Sessions \cup {ApiSession}) |-> NoQuestion]
  /\ asked = [e \in Endpoints |-> NoQuestion]
  /\ confirmed = NoQuestion /\ hidden = {} /\ acted = {}
  /\ invocation = [e \in Endpoints |-> NoIntent]

-----------------------------------------------------------------------------

(* The question an endpoint has pending is also that of the session that   *)
(* asked it, so that clearing one clears both.                             *)
FollowupsAgree ==
  \A e \in Endpoints :
    byEndpoint[e] # NoQuestion =>
      /\ byEndpoint[e].endpoint = e
      /\ bySession[<<e, byEndpoint[e].session>>] = byEndpoint[e]

(* A "yes" of a turn confirms the question the endpoint asked last, never  *)
(* an older one that a later intent has replaced or that was answered: all *)
(* but a question over which the intent API has asked another.  That one   *)
(* its session keeps, and finds when the API's question is gone.           *)
YesConfirmsTheLastQuestion ==
  [][confirmed' # NoQuestion /\ confirmed' # confirmed
       => asked[confirmed'.endpoint] = confirmed' \/ confirmed' \in hidden]_asvars
=============================================================================
