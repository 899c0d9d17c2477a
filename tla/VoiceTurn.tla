------------------------------ MODULE VoiceTurn ------------------------------
(***************************************************************************)
(* src/hexevoice/voice/pipeline.py, VoiceTurnPipeline.complete_turn: the   *)
(* audio of an utterance becomes a text, an answer and speech.  The turn   *)
(* runs in one piece on the event loop, but the lookup of the speaker runs *)
(* beside it in a thread, and the turn reads the result at several points: *)
(* before the assistant, after a second transcription by the more accurate *)
(* model, and when the answer says what the policy really was.             *)
(***************************************************************************)
EXTENDS AssistantTurns, AdminMaintenance, Sequences, SequencesExt

CONSTANTS NoSpeaker, ReviewLimit   \* max_candidates of the review store

ASSUME ReviewAssumption == ReviewLimit \in Nat \ {0}

Policies == {"not_required", "use_if_ready", "required", "forbidden"}
Codes == {"none", "right", "wrong"}
Persons == {"dan", "kid"}          \* dan: adult, admin, consents; kid: child

(* What is known of the speaker: the status, who, and whether the score is *)
(* high enough for an override, a lesson or maintenance.                   *)
Speakers == {x \in [status : {"identified"}, who : Persons, sure : BOOLEAN] :
               x.who = "kid" => x.sure}
            \cup [status : {"unknown", "unavailable", "disabled", "skipped",
                            "timeout", "pending"}, who : {NoSpeaker}, sure : {FALSE}]
Unnamed(status) == [status |-> status, who |-> NoSpeaker, sure |-> FALSE]
Results == {x \in Speakers : x.status \in {"identified", "unknown", "unavailable"}}

Setups == [speakerId : BOOLEAN, private : BOOLEAN, personal : BOOLEAN,
           override : BOOLEAN, mode : [Endpoints -> {"general", "child_safe"}]]

Replies == {"none", "silent", "audience", "clarify", "intent", "chat", "admin_refused"}

VARIABLES
  setup,       \* the settings and the audience modes of the endpoints
  turn,        \* the turn that runs, or the one that ended last
  lookup,      \* speaker_future: none, running, or its result
  sessionOf,   \* the newest session of an endpoint
  reviews      \* candidates of the review store, newest first

vvars == <<asvars, avars, setup, turn, lookup, sessionOf, reviews>>

Identified(x) == x.status = "identified"

-----------------------------------------------------------------------------

(* _text_requires_speaker_identity: "my calendar" and the like.            *)
Personal(says) == says = "calendar"

(* _restricted_content_reason of the text or of the command: "passcode"    *)
(* and a gun.                                                              *)
Restricted(says, intent) == says \in {"debug", "weapon"} \/ IsAdmin(intent)

(* _speaker_identity_policy of a text                                      *)
TextPolicy(says) ==
  IF ~ setup.speakerId THEN "forbidden"
  ELSE IF Personal(says) THEN "required" ELSE "use_if_ready"

(* Mutant: the preview of the local intent is not made.                    *)
PolicyByText(t) == TextPolicy(t.says)

(* _local_intent_speaker_identity_policy: the intent the matcher finds     *)
(* decides, before it is executed.                                         *)
TurnPolicy(t) ==
  LET i == IF t.says = "mumble" THEN NoIntent
           ELSE Local(t.says, PendingFollowup(t.endpoint, t.session))
  IN IF i # NoIntent THEN PolicyOf(i) ELSE TextPolicy(t.says)

(* The policy the answer itself carries: the intent's, or "required" of    *)
(* the clarification.  Other answers leave it to the text.                 *)
FinalPolicy(t) ==
  IF ~ setup.speakerId THEN "forbidden"
  ELSE IF t.reply = "intent" THEN PolicyOf(t.intent)
  ELSE IF t.reply = "clarify" THEN "required" ELSE TextPolicy(t.says)

(* _start_speaker_identity                                                 *)
Starts == setup.speakerId /\ ~ setup.private

(* _speaker_identity_for_policy.  A lookup that runs is waited for when    *)
(* the policy is required, and the wait ends without it when the result is *)
(* not there by now.                                                       *)
SpeakerFor(policy, current) ==
  IF policy = "forbidden" THEN Unnamed("skipped")
  ELSE IF setup.private THEN Unnamed("skipped")
  ELSE IF ~ setup.speakerId THEN Unnamed("disabled")
  ELSE IF current.status \notin {"none", "pending"} THEN current
  ELSE IF lookup = Unnamed("none") THEN Unnamed("unavailable")
  ELSE IF lookup # Unnamed("running") THEN lookup
  ELSE IF policy = "required" THEN Unnamed("timeout") ELSE Unnamed("pending")

(* _endpoint_audience_policy, _stricter_audience_class                     *)
ChildListens(t, x) == setup.mode[t.endpoint] = "child_safe" \/ x.who = "kid"

(* _speaker_identity_for_audience_override                                 *)
ForOverride(t, intent, x) ==
  IF setup.mode[t.endpoint] = "child_safe" /\ setup.override
     /\ Restricted(t.says, intent) /\ ~ Identified(x)
  THEN SpeakerFor("required", x) ELSE x

(* _adult_admin_override_allowed: maintenance also needs the code.         *)
Overrides(t, intent, verified, x) ==
  /\ setup.override /\ x.who = "dan" /\ x.sure
  /\ t.says = "debug" \/ IsAdmin(intent) => verified

(* _audience_policy_decision                                               *)
AudienceBlocks(t, intent, verified, x) ==
  /\ ChildListens(t, x) /\ Restricted(t.says, intent)
  /\ ~ Overrides(t, intent, verified, x)

(* _speaker_identity_blocks_required_policy                                *)
Blocks(policy, x) == policy = "required" /\ ~ Identified(x)

(* _speaker_identity_with_learning_policy, the last call of the turn       *)
Teaches(policy, x, quality) ==
  /\ ~ setup.private /\ policy # "forbidden"
  /\ x.who = "dan" /\ x.sure /\ quality = "good"

-----------------------------------------------------------------------------

Idle ==
  [stage |-> "idle", endpoint |-> CHOOSE e \in Endpoints : TRUE, session |-> 1,
   says |-> "mumble", code |-> "none", heard |-> "none", quality |-> "good",
   policy |-> "forbidden", speaker |-> Unnamed("none"), reply |-> "none",
   intent |-> NoIntent, told |-> FALSE, verdict |-> "none"]

(* The utterance is transcribed while the speaker is looked up.            *)
Begin(e, says, code, quality) ==
  \E s \in {sessionOf[e], sessionOf[e] + 1} \cap Sessions :
    /\ turn.stage \in {"idle", "done"}
    /\ code # "none" => says = "debug"
    /\ sessionOf' = [sessionOf EXCEPT ![e] = s]
    /\ turn' = [Idle EXCEPT !.stage = "heard", !.endpoint = e, !.session = s,
                  !.says = says, !.code = code, !.heard = code, !.quality = quality]
    /\ lookup' = IF Starts THEN Unnamed("running") ELSE Unnamed("none")
    /\ acted' = {} /\ confirmed' = NoQuestion
    /\ UNCHANGED <<setup, byEndpoint, bySession, asked, hidden, invocation, avars, reviews>>

(* _identify_speaker, in its thread                                        *)
SpeakerAnswers ==
  \E x \in Results :
    /\ lookup = Unnamed("running") /\ turn.stage # "done"
    /\ lookup' = x
    /\ UNCHANGED <<asvars, avars, setup, turn, sessionOf, reviews>>

(* _assistant_request: the assistant is told who speaks when that is       *)
(* required or personalisation is on.                                      *)
Told(policy, x) ==
  Identified(x) /\ policy # "forbidden" /\ (policy = "required" \/ setup.personal)

(* What the turn says without the assistant.                               *)
Silence(t) == [t EXCEPT !.reply = "silent", !.says = "mumble"]
AudienceRefusal(t) == [t EXCEPT !.reply = "audience", !.intent = NoIntent]
Clarification(t) == [t EXCEPT !.reply = "clarify", !.intent = NoIntent]
MaintenanceRefusal(t) == [t EXCEPT !.reply = "admin_refused", !.intent = NoIntent]

(* What handle_turn answers.  The heard text of a maintenance intent comes *)
(* back without its code, and the turn goes on with that text.             *)
Answered(t) ==
  LET i == Found(t.endpoint, t.session, t.says)
  IN [t EXCEPT !.reply = IF t.says = "mumble" THEN "silent"
                         ELSE IF i # NoIntent THEN "intent" ELSE "chat",
               !.intent = i, !.code = IF IsAdmin(i) THEN "none" ELSE @,
               !.told = Told(t.policy, t.speaker)]

(* The decision of a text: silence, the audience and the speaker come      *)
(* before the assistant.                                                   *)
Consider(t) ==
  LET p == TurnPolicy(t)
      x == ForOverride(t, NoIntent, SpeakerFor(p, t.speaker))
      u == [t EXCEPT !.policy = p, !.speaker = x]
  IN IF t.quality = "silent"
     THEN turn' = Silence(u) /\ NothingMatched
     ELSE IF AudienceBlocks(u, NoIntent, FALSE, x)
     THEN turn' = AudienceRefusal(u) /\ NothingMatched
     ELSE IF Blocks(p, x)
     THEN turn' = Clarification(u) /\ NothingMatched
     ELSE turn' = Answered(u)
          /\ HandleTurn(u.endpoint, u.session, u.says, x.status)

Decide ==
  /\ turn.stage = "heard" /\ Consider([turn EXCEPT !.stage = "answered"])
  /\ UNCHANGED <<avars, setup, lookup, sessionOf, reviews, invocation>>

(* maybe_fallback_transcribe: an error, an empty text, low confidence or a *)
(* text no intent matched is transcribed again, and the new text is        *)
(* handled like the first, unless the first was refused.                   *)
Retry(says, code) ==
  /\ turn.stage = "answered" /\ turn.quality # "silent"
  /\ turn.reply \in {"silent", "intent", "chat"}
  /\ code # "none" => says = "debug"
  /\ Consider([turn EXCEPT !.stage = "retried", !.says = says, !.code = code,
                           !.heard = code, !.reply = "none", !.intent = NoIntent])
  /\ UNCHANGED <<avars, setup, lookup, sessionOf, reviews, invocation>>

Lesson(s, x) == [session |-> s, who |-> x.who, state |-> "pending"]
Newest(seq) == SubSeq(seq, 1, IF Len(seq) < ReviewLimit THEN Len(seq) ELSE ReviewLimit)

(* Mutant: the list only grows.                                            *)
LearnAll(s, x) ==
  IF Contains(reviews, Lesson(s, x)) THEN reviews ELSE <<Lesson(s, x)>> \o reviews

(* add_candidate: one that waits for review is not added again; the list   *)
(* keeps its newest.                                                       *)
Learn(s, x) ==
  IF Contains(reviews, Lesson(s, x)) THEN reviews ELSE Newest(<<Lesson(s, x)>> \o reviews)

(* The rest of the turn: the answer may change the policy, an admin intent *)
(* needs the code, the audience is asked again, a lesson is filed.         *)
Conclude ==
  LET p == FinalPolicy(turn)
      changed == p # turn.policy
      x1 == IF changed THEN SpeakerFor(p, turn.speaker) ELSE turn.speaker
      t1 == IF changed /\ Blocks(p, x1) THEN Clarification(turn) ELSE turn
      x == ForOverride(turn, t1.intent, x1)
      t == [t1 EXCEPT !.stage = "done", !.policy = p, !.speaker = x]
      maintenance == IsAdmin(t.intent)
      v == Verdict(Cleared(admin), t.code, x.who = "dan" /\ x.sure, t.quality = "good")
      t2 == IF maintenance /\ v # "allowed" THEN MaintenanceRefusal(t) ELSE t
      t3 == IF AudienceBlocks(t2, t2.intent, maintenance /\ v = "allowed", x)
            THEN AudienceRefusal(t2) ELSE t2
  IN /\ turn.stage \in {"answered", "retried"}
     /\ turn' = [t3 EXCEPT !.verdict = IF maintenance THEN v ELSE "none"]
     /\ lookup' = Unnamed("none")
     /\ IF maintenance THEN Evaluate(v) ELSE UNCHANGED avars
     /\ reviews' = IF Teaches(p, x, t.quality) THEN Learn(<<t.endpoint, t.session>>, x)
                   ELSE reviews
     /\ UNCHANGED <<asvars, setup, sessionOf>>

-----------------------------------------------------------------------------

(* Between turns: the operator, the intent API and time.                   *)
Between(A) ==
  turn.stage \in {"idle", "done"} /\ A
  /\ UNCHANGED <<setup, turn, lookup, sessionOf>>

Invoke(e) ==
  /\ InvokeIntent(e) \/ \E says \in ApiSays : InvokeFind(e, says)
  /\ UNCHANGED <<avars, setup, turn, lookup, sessionOf, reviews>>

QuestionExpires(e, s) == Between(Expire(e, s) /\ UNCHANGED <<avars, reviews>>)
SetMaintenance(on) == Between(UpdateSettings(on) /\ UNCHANGED <<asvars, reviews>>)
NewPasscode == Between(SetPasscode /\ UNCHANGED <<asvars, reviews>>)
LockoutEnds == Between(LockoutPasses /\ UNCHANGED <<asvars, reviews>>)

(* mark_reviewed: approved, rejected or discarded, once.                   *)
Review(k) ==
  Between(/\ k \in DOMAIN reviews /\ reviews[k].state = "pending"
          /\ reviews' = [reviews EXCEPT ![k].state = "reviewed"]
          /\ UNCHANGED <<asvars, avars>>)

TurnInit ==
  /\ AssistantInit /\ AdminInit
  /\ setup \in Setups /\ turn = Idle /\ lookup = Unnamed("none")
  /\ sessionOf = [e \in Endpoints |-> 1] /\ reviews = <<>>

TurnNext ==
  \/ \E e \in Endpoints, says \in Says, code \in Codes, q \in {"good", "poor", "silent"} :
       Begin(e, says, code, q)
  \/ SpeakerAnswers \/ Decide \/ Conclude
  \/ \E says \in Says, code \in Codes : Retry(says, code)
  \/ \E e \in Endpoints, s \in Sessions :
       QuestionExpires(e, s)
  \/ \E e \in Endpoints : Invoke(e)
  \/ \E on \in BOOLEAN : SetMaintenance(on)
  \/ NewPasscode \/ LockoutEnds
  \/ \E k \in 1 .. ReviewLimit : Review(k)

TurnSpec == TurnInit /\ [][TurnNext]_vvars

-----------------------------------------------------------------------------

TurnTypeOK ==
  /\ AdminTypeOK
  /\ turn.stage \in {"idle", "heard", "answered", "retried", "done"}
  /\ turn.says \in Says /\ turn.reply \in Replies /\ turn.policy \in Policies
  /\ turn.speaker \in Speakers \cup {Unnamed("none")}
  /\ lookup \in Results \cup {Unnamed("none"), Unnamed("running")}
  /\ Len(reviews) <= ReviewLimit

(* docs/task-details.md:2525: an intent the endpoint matched itself, and   *)
(* that requires the speaker, is executed only when the speaker is known,  *)
(* whichever text found it, the first or the second.                       *)
KnownSpeakerActs ==
  \A a \in acted : a.how = "local" /\ PolicyOf(a.intent) = "required"
                     => a.speaker = "identified"

(* With privacy mode on no turn learns who spoke: nothing is looked up, no *)
(* assistant is told, no lesson is filed.                                  *)
PrivacyModeHolds ==
  setup.private => lookup = Unnamed("none") /\ ~ Identified(turn.speaker)
                   /\ ~ turn.told /\ reviews = <<>>

(* docs/task-details.md:2521: where the text or the answer forbids it, the *)
(* turn ends without knowing who spoke, also when an earlier text of the   *)
(* same turn, or the policy before the answer, had allowed it.             *)
ForbiddenForgetsSpeaker ==
  turn.policy = "forbidden" => ~ Identified(turn.speaker) /\ ~ turn.told

(* At most one candidate of a speaker and a session waits for review.      *)
OneLessonPerSession ==
  \A j, k \in DOMAIN reviews :
    reviews[j] = reviews[k] /\ reviews[j].state = "pending" => j = k

(* A child-safe endpoint, or a child the turn has recognised by its end,   *)
(* gets no answer on restricted matters, though the answer may be made     *)
(* before the child is recognised.                                         *)
ChildIsRefused ==
  turn.stage = "done" /\ turn.says = "weapon" /\ turn.reply = "chat"
  /\ (setup.mode[turn.endpoint] = "child_safe" \/ turn.speaker.who = "kid")
    => setup.override /\ turn.speaker.who = "dan"

(* What is known of the speaker decides what a turn does and says.         *)
IdentityPolicies ==
  KnownSpeakerActs /\ PrivacyModeHolds /\ ForbiddenForgetsSpeaker /\ ChildIsRefused

(* The admin file, the lessons and the questions after any number of turns *)
(* and of calls between and beside them.                                   *)
WhatTurnsLeaveBehind == GuessesAreBounded /\ OneLessonPerSession /\ FollowupsAgree

(* docs/task-details.md:2525: "Required identity failures do not execute   *)
(* personal actions."                                                      *)
PersonalNeedsIdentity ==
  \A a \in acted : a.how # "api" /\ PolicyOf(a.intent) = "required"
                     => a.speaker = "identified"

(* docs/stt-intent-first-fallback.md:23: "The fallback path keeps the      *)
(* final assistant response authoritative."                                *)
FinalResponseActs ==
  turn.stage = "done" /\ turn.reply = "intent" =>
    \A a \in acted : a.how # "api" => a.intent = turn.intent

(* tests/test_voice_pipeline.py:1142: the maintenance request of the       *)
(* configured speaker is allowed when its code was right.                  *)
RightCodeAllowed ==
  turn.stage = "done" /\ turn.heard = "right" => turn.verdict \notin {"missing", "wrong"}
=============================================================================
