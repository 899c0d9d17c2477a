----------------------------- MODULE TurnProofs -----------------------------
(***************************************************************************)
(* Proofs about what MCTurn composes, for every number of endpoints,       *)
(* sessions and captures and every limit: VoiceTurn (the questions a turn  *)
(* and the intent API leave behind, the maintenance code, the lessons, and *)
(* what the identity of the speaker decides), the AI node, the             *)
(* speech-to-text adapters, the upload of the audio, and what is kept of   *)
(* it.  A section per module; the theorems end the parts.                  *)
(***************************************************************************)
EXTENDS MCTurn, SequenceTheorems, FiniteSetTheorems, WellFoundedInduction, TLAPS

-----------------------------------------------------------------------------
(* AdminMaintenance *)

(* Every refusal for the code is counted, and at the last one allowed the  *)
(* lock comes on.                                                          *)
AdminInv ==
  /\ AdminTypeOK
  /\ guesses = admin.failed
  /\ admin.lock = "open" <=> admin.failed < MaxFailed

Verdicts == {"disabled", "locked", "no_passcode", "speaker", "audio",
             "missing", "wrong", "allowed"}

LEMMA AdminInitInv == AdminInit => AdminInv
<1> SUFFICES ASSUME AdminInit PROVE AdminInv
  OBVIOUS
<1>1. MaxFailed \in Nat \ {0} /\ 0 \in 0 .. MaxFailed
  BY MaxFailedAssumption
<1>2. /\ admin \in [enabled : BOOLEAN, known : BOOLEAN, failed : 0 .. MaxFailed,
                   lock : Locks]
      /\ admin.failed = 0 /\ admin.lock = "open" /\ guesses = 0
  BY <1>1 DEF AdminInit, Locks
<1> QED BY <1>1, <1>2 DEF AdminInv, AdminTypeOK

LEMMA ClearedOpens ==
  ASSUME AdminInv
  PROVE  /\ Cleared(admin) \in [enabled : BOOLEAN, known : BOOLEAN,
                                failed : 0 .. MaxFailed, lock : Locks]
         /\ Cleared(admin).lock = "open" <=> Cleared(admin).failed < MaxFailed
         /\ Cleared(admin).failed
              = IF admin.lock = "lapsed" THEN 0 ELSE guesses
         /\ Cleared(admin).enabled = admin.enabled
         /\ Cleared(admin).lock \in {"open", "locked"}
<1>1. MaxFailed \in Nat \ {0} /\ 0 \in 0 .. MaxFailed
  BY MaxFailedAssumption
<1>2. /\ admin \in [enabled : BOOLEAN, known : BOOLEAN, failed : 0 .. MaxFailed,
                   lock : Locks]
      /\ guesses = admin.failed
      /\ (admin.lock = "open" <=> admin.failed < MaxFailed)
  BY DEF AdminInv, AdminTypeOK
<1>3. CASE admin.lock = "lapsed"
  <2>1. Cleared(admin) = [admin EXCEPT !.lock = "open", !.failed = 0]
    BY <1>3 DEF Cleared
  <2>2. /\ Cleared(admin) \in [enabled : BOOLEAN, known : BOOLEAN,
                               failed : 0 .. MaxFailed, lock : Locks]
        /\ Cleared(admin).lock = "open" /\ Cleared(admin).failed = 0
        /\ Cleared(admin).enabled = admin.enabled
    BY <1>1, <1>2, <2>1 DEF Locks
  <2> QED BY <1>1, <1>3, <2>2
<1>4. CASE admin.lock # "lapsed"
  <2>1. Cleared(admin) = admin /\ admin.lock \in {"open", "locked"}
    BY <1>2, <1>4 DEF Cleared, Locks
  <2> QED BY <1>2, <1>4, <2>1
<1> QED BY <1>3, <1>4

LEMMA SettingsStep ==
  ASSUME AdminInv
  PROVE  /\ \A on \in BOOLEAN : UpdateSettings(on) => AdminInv'
         /\ SetPasscode => AdminInv'
         /\ LockoutPasses => AdminInv'
<1>0. MaxFailed \in Nat \ {0} /\ 0 \in 0 .. MaxFailed
  BY MaxFailedAssumption
<1> DEFINE a == Cleared(admin)
<1>1. /\ a \in [enabled : BOOLEAN, known : BOOLEAN, failed : 0 .. MaxFailed,
                lock : Locks]
      /\ a.lock = "open" <=> a.failed < MaxFailed
      /\ a.failed = IF admin.lock = "lapsed" THEN 0 ELSE guesses
  BY ClearedOpens
<1> HIDE DEF a
<1>2. ASSUME NEW on \in BOOLEAN, UpdateSettings(on) PROVE AdminInv'
  <2>1. admin' = [a EXCEPT !.enabled = on]
        /\ guesses' = IF admin.lock = "lapsed" THEN 0 ELSE guesses
    BY <1>2 DEF UpdateSettings, a
  <2> QED BY <1>0, <1>1, <2>1 DEF AdminInv, AdminTypeOK
<1>3. ASSUME SetPasscode PROVE AdminInv'
  <2>1. admin' = [a EXCEPT !.known = TRUE, !.failed = 0, !.lock = "open"]
        /\ guesses' = 0
    BY <1>3 DEF SetPasscode, a
  <2>2. /\ admin' \in [enabled : BOOLEAN, known : BOOLEAN,
                       failed : 0 .. MaxFailed, lock : Locks]
        /\ admin'.failed = 0 /\ admin'.lock = "open"
    BY <1>0, <1>1, <2>1 DEF Locks
  <2> QED BY <1>0, <2>1, <2>2 DEF AdminInv, AdminTypeOK
<1>4. ASSUME LockoutPasses PROVE AdminInv'
  BY <1>0, <1>4 DEF LockoutPasses, AdminInv, AdminTypeOK, Locks
<1> QED BY <1>2, <1>3, <1>4

(* A verdict about the code is only given while the lock is off.           *)
LEMMA VerdictIs ==
  ASSUME AdminInv, NEW code, NEW known, NEW clean
  PROVE  LET v == Verdict(Cleared(admin), code, known, clean)
         IN /\ v \in Verdicts
            /\ v \in {"missing", "wrong", "allowed"}
                 => Cleared(admin).lock = "open"
BY ClearedOpens DEF Verdict, Refusal, Verdicts

LEMMA EvaluateStep ==
  ASSUME AdminInv, NEW v \in Verdicts, Evaluate(v),
         v \in {"missing", "wrong", "allowed"} => Cleared(admin).lock = "open"
  PROVE  AdminInv'
<1>0. MaxFailed \in Nat \ {0}
  BY MaxFailedAssumption
<1> DEFINE a == Cleared(admin)
           count == IF admin.lock = "lapsed" THEN 0 ELSE guesses
<1>1. /\ a \in [enabled : BOOLEAN, known : BOOLEAN, failed : 0 .. MaxFailed,
                lock : Locks]
      /\ a.lock = "open" <=> a.failed < MaxFailed
      /\ a.failed = count
  BY ClearedOpens
<1>2. /\ admin' = IF v \in {"missing", "wrong"} THEN Failed(a)
                  ELSE IF v = "allowed" THEN [a EXCEPT !.failed = 0] ELSE a
      /\ guesses' = IF v \in {"missing", "wrong"} THEN count + 1
                    ELSE IF v = "allowed" THEN 0 ELSE count
  BY DEF Evaluate
<1>3. v \in {"missing", "wrong", "allowed"} => a.lock = "open"
  OBVIOUS
<1> HIDE DEF a, count
<1>4. CASE v \in {"missing", "wrong"}
  <2>1. a.failed + 1 \in 0 .. MaxFailed /\ a.failed \in Nat
    BY <1>0, <1>1, <1>3, <1>4
  <2>2. admin' = [a EXCEPT !.failed = a.failed + 1,
                    !.lock = IF a.failed + 1 >= MaxFailed
                             THEN "locked" ELSE "open"]
    BY <1>2, <1>4 DEF Failed
  <2>3. /\ admin' \in [enabled : BOOLEAN, known : BOOLEAN,
                       failed : 0 .. MaxFailed, lock : Locks]
        /\ admin'.failed = a.failed + 1
        /\ admin'.lock = IF a.failed + 1 >= MaxFailed THEN "locked" ELSE "open"
    BY <1>1, <2>1, <2>2 DEF Locks
  <2>4. guesses' = admin'.failed /\ guesses' \in Nat
    BY <1>1, <1>2, <1>4, <2>1, <2>3
  <2>5. admin'.lock = "open" <=> admin'.failed < MaxFailed
    BY <1>0, <2>1, <2>3
  <2> QED BY <2>3, <2>4, <2>5 DEF AdminInv, AdminTypeOK
<1>5. CASE v = "allowed"
  <2>1. admin' = [a EXCEPT !.failed = 0] /\ guesses' = 0
    BY <1>2, <1>5
  <2> QED BY <1>0, <1>1, <1>3, <1>5, <2>1 DEF AdminInv, AdminTypeOK
<1>6. CASE v \notin {"missing", "wrong", "allowed"}
  <2>1. admin' = a /\ guesses' = count
    BY <1>2, <1>6
  <2> QED BY <1>1, <2>1 DEF AdminInv, AdminTypeOK
<1> QED BY <1>4, <1>5, <1>6

-----------------------------------------------------------------------------
(* AssistantTurns *)

Questions == [endpoint : Endpoints, session : Sessions \cup {ApiSession},
              about : Asks]
MaybeQuestions == Questions \cup {NoQuestion}
Scopes == Endpoints \X (Sessions \cup {ApiSession})

QuestionTypes ==
  /\ byEndpoint \in [Endpoints -> MaybeQuestions]
  /\ bySession \in [Scopes -> MaybeQuestions]
  /\ sessionOf \in [Endpoints -> Nat]

LastAsked == asked = byEndpoint

(* A session keeps its own question.                                       *)
SessionsOwn ==
  \A e \in Endpoints, s \in Sessions \cup {ApiSession} :
    bySession[<<e, s>>] # NoQuestion
      => bySession[<<e, s>>].endpoint = e /\ bySession[<<e, s>>].session = s

(* The newest session of an endpoint keeps the question of the endpoint,   *)
(* or one over which the API has asked another.  The next keeps none.      *)
NewestSession ==
  \A e \in Endpoints, s \in Sessions :
    /\ s = sessionOf[e]
         => bySession[<<e, s>>] \in {NoQuestion, byEndpoint[e]} \cup hidden
    /\ s > sessionOf[e] => bySession[<<e, s>>] = NoQuestion

QuestionsInv ==
  QuestionTypes /\ FollowupsAgree /\ LastAsked /\ SessionsOwn /\ NewestSession

LEMMA QuestionsInitInv ==
  AssistantInit /\ sessionOf = [e \in Endpoints |-> 1] => QuestionsInv
<1> SUFFICES ASSUME AssistantInit, sessionOf = [e \in Endpoints |-> 1]
             PROVE  QuestionsInv
  OBVIOUS
<1>1. /\ byEndpoint = [e \in Endpoints |-> NoQuestion]
      /\ asked = [e \in Endpoints |-> NoQuestion]
      /\ bySession = [es \in Scopes |-> NoQuestion]
  BY DEF AssistantInit, Scopes
<1>2. \A e \in Endpoints, s \in Sessions \cup {ApiSession} : <<e, s>> \in Scopes
  BY DEF Scopes
<1>3. QuestionTypes
  BY <1>1 DEF QuestionTypes, MaybeQuestions
<1>4. \A e \in Endpoints, s \in Sessions \cup {ApiSession} :
        bySession[<<e, s>>] = NoQuestion
  BY <1>1, <1>2
<1> QED
  BY <1>1, <1>3, <1>4
     DEF QuestionsInv, FollowupsAgree, LastAsked, SessionsOwn, NewestSession

(* _store_pending_followup: by the newest session, or by the API, which    *)
(* hides what was asked before.                                            *)
LEMMA StoreStep ==
  ASSUME QuestionsInv, UNCHANGED sessionOf,
         NEW e \in Endpoints, NEW s \in Sessions \cup {ApiSession},
         NEW i \in Asks, StoreFollowup(e, s, i),
         asked' = [asked EXCEPT
                     ![e] = [endpoint |-> e, session |-> s, about |-> i]],
         \/ s \in Sessions /\ s = sessionOf[e] /\ hidden' = hidden
         \/ s = ApiSession /\ hidden' = hidden \cup {byEndpoint[e]}
  PROVE  QuestionsInv'
<1> DEFINE q == [endpoint |-> e, session |-> s, about |-> i]
<1>1. q \in MaybeQuestions /\ q.endpoint = e /\ q.session = s
  BY DEF MaybeQuestions, Questions
<1>2. /\ byEndpoint' = [byEndpoint EXCEPT ![e] = q]
      /\ bySession' = [bySession EXCEPT ![<<e, s>>] = q]
      /\ asked' = [asked EXCEPT ![e] = q]
  BY DEF StoreFollowup
<1> HIDE DEF q
<1>3. /\ byEndpoint \in [Endpoints -> MaybeQuestions]
      /\ bySession \in [Scopes -> MaybeQuestions]
      /\ sessionOf \in [Endpoints -> Nat]
      /\ asked = byEndpoint /\ <<e, s>> \in Scopes
  BY DEF QuestionsInv, QuestionTypes, LastAsked, Scopes
<1>4. QuestionTypes' /\ LastAsked'
  BY <1>1, <1>2, <1>3 DEF QuestionTypes, LastAsked
<1>5. /\ byEndpoint'[e] = q /\ \A f \in Endpoints \ {e} : byEndpoint'[f] = byEndpoint[f]
      /\ \A f \in Endpoints, r \in Sessions \cup {ApiSession} :
           bySession'[<<f, r>>] = IF f = e /\ r = s THEN q ELSE bySession[<<f, r>>]
  BY <1>2, <1>3 DEF Scopes
<1>6. FollowupsAgree'
  <2> SUFFICES ASSUME NEW f \in Endpoints, byEndpoint'[f] # NoQuestion
               PROVE  /\ byEndpoint'[f].endpoint = f
                      /\ bySession'[<<f, byEndpoint'[f].session>>] = byEndpoint'[f]
    BY DEF FollowupsAgree
  <2>1. CASE f = e
    BY <1>1, <1>5, <2>1
  <2>2. CASE f # e
    <3>1. byEndpoint'[f] = byEndpoint[f] /\ byEndpoint[f] \in Questions
      BY <1>3, <1>5, <2>2 DEF MaybeQuestions
    <3>2. byEndpoint[f].session \in Sessions \cup {ApiSession}
      BY <3>1 DEF Questions
    <3>3. /\ byEndpoint[f].endpoint = f
          /\ bySession[<<f, byEndpoint[f].session>>] = byEndpoint[f]
      BY <3>1 DEF QuestionsInv, FollowupsAgree
    <3> QED BY <1>5, <2>2, <3>1, <3>2, <3>3
  <2> QED BY <2>1, <2>2
<1>7. SessionsOwn'
  BY <1>1, <1>5 DEF QuestionsInv, SessionsOwn
<1>8. NewestSession'
  <2> SUFFICES ASSUME NEW f \in Endpoints, NEW r \in Sessions
               PROVE  /\ r = sessionOf[f]
                           => bySession'[<<f, r>>]
                                \in {NoQuestion, byEndpoint'[f]} \cup hidden'
                      /\ r > sessionOf[f] => bySession'[<<f, r>>] = NoQuestion
    BY DEF NewestSession
  <2>1. /\ r = sessionOf[f]
             => bySession[<<f, r>>] \in {NoQuestion, byEndpoint[f]} \cup hidden
        /\ r > sessionOf[f] => bySession[<<f, r>>] = NoQuestion
    BY DEF QuestionsInv, NewestSession
  <2>2. r \in Nat \ {0} /\ sessionOf[f] \in Nat
    BY <1>3, ApiAssumption
  <2>3. CASE f = e /\ r = s
    <3>1. r = sessionOf[f]
      BY <2>2, <2>3 DEF ApiSession
    <3> QED BY <1>5, <2>2, <2>3, <3>1
  <2>4. CASE f = e /\ r # s
    <3>1. bySession'[<<f, r>>] = bySession[<<f, r>>]
      BY <1>5, <2>4
    <3>2. r = sessionOf[f] => hidden' = hidden \cup {byEndpoint[f]}
      BY <2>4
    <3> QED BY <2>1, <3>1, <3>2
  <2>5. CASE f # e
    <3>1. bySession'[<<f, r>>] = bySession[<<f, r>>] /\ byEndpoint'[f] = byEndpoint[f]
          /\ hidden \subseteq hidden'
      BY <1>5, <2>5
    <3> QED BY <2>1, <3>1
  <2> QED BY <2>3, <2>4, <2>5
<1> QED BY <1>4, <1>6, <1>7, <1>8 DEF QuestionsInv

(* _clear_pending_followup, of the question an endpoint or session has.    *)
LEMMA ClearStep ==
  ASSUME QuestionsInv, UNCHANGED <<sessionOf, hidden>>,
         NEW e \in Endpoints, NEW s \in Sessions \cup {ApiSession},
         PendingFollowup(e, s) # NoQuestion,
         ClearFollowup(PendingFollowup(e, s)),
         asked' = [asked EXCEPT ![e] = NoQuestion]
  PROVE  QuestionsInv'
<1> DEFINE q == PendingFollowup(e, s)
<1>1. /\ byEndpoint \in [Endpoints -> MaybeQuestions]
      /\ bySession \in [Scopes -> MaybeQuestions]
      /\ sessionOf \in [Endpoints -> Nat]
      /\ asked = byEndpoint /\ <<e, s>> \in Scopes
  BY DEF QuestionsInv, QuestionTypes, LastAsked, Scopes
<1>2. q = IF byEndpoint[e] # NoQuestion THEN byEndpoint[e] ELSE bySession[<<e, s>>]
  BY DEF PendingFollowup, Open
<1>3. q \in Questions
  BY <1>1, <1>2 DEF MaybeQuestions
<1>4. q.endpoint = e /\ q.session \in Sessions \cup {ApiSession}
  <2>1. q.session \in Sessions \cup {ApiSession} /\ q # NoQuestion
    BY <1>3 DEF Questions
  <2> HIDE DEF q
  <2>2. q.endpoint = e
    <3>1. CASE q = byEndpoint[e]
      BY <2>1, <3>1 DEF QuestionsInv, FollowupsAgree
    <3>2. CASE q = bySession[<<e, s>>]
      BY <2>1, <3>2 DEF QuestionsInv, SessionsOwn
    <3> QED BY <1>2, <3>1, <3>2
  <2> QED BY <2>1, <2>2
<1>5. /\ bySession' = [bySession EXCEPT ![<<q.endpoint, q.session>>] = NoQuestion]
      /\ byEndpoint' = [byEndpoint EXCEPT ![q.endpoint] = NoQuestion]
  BY DEF ClearFollowup
<1> HIDE DEF q
<1>6. /\ byEndpoint'[e] = NoQuestion
      /\ \A f \in Endpoints \ {e} : byEndpoint'[f] = byEndpoint[f]
      /\ \A f \in Endpoints, r \in Sessions \cup {ApiSession} :
           bySession'[<<f, r>>] = IF f = e /\ r = q.session THEN NoQuestion
                                  ELSE bySession[<<f, r>>]
  BY <1>1, <1>4, <1>5 DEF Scopes
<1>7. QuestionTypes' /\ LastAsked'
  BY <1>1, <1>4, <1>5 DEF QuestionTypes, LastAsked, MaybeQuestions
<1>8. FollowupsAgree'
  <2> SUFFICES ASSUME NEW f \in Endpoints, byEndpoint'[f] # NoQuestion
               PROVE  /\ byEndpoint'[f].endpoint = f
                      /\ bySession'[<<f, byEndpoint'[f].session>>] = byEndpoint'[f]
    BY DEF FollowupsAgree
  <2>1. f # e /\ byEndpoint'[f] = byEndpoint[f]
    BY <1>6
  <2>2. byEndpoint[f].session \in Sessions \cup {ApiSession}
    BY <1>1, <2>1 DEF MaybeQuestions, Questions
  <2>3. /\ byEndpoint[f].endpoint = f
        /\ bySession[<<f, byEndpoint[f].session>>] = byEndpoint[f]
    BY <2>1 DEF QuestionsInv, FollowupsAgree
  <2> QED BY <1>6, <2>1, <2>2, <2>3
<1>9. SessionsOwn'
  BY <1>6 DEF QuestionsInv, SessionsOwn
<1>10. NewestSession'
  <2> SUFFICES ASSUME NEW f \in Endpoints, NEW r \in Sessions
               PROVE  /\ r = sessionOf[f]
                           => bySession'[<<f, r>>]
                                \in {NoQuestion, byEndpoint'[f]} \cup hidden
                      /\ r > sessionOf[f] => bySession'[<<f, r>>] = NoQuestion
    BY DEF NewestSession
  <2>1. /\ r = sessionOf[f]
             => bySession[<<f, r>>] \in {NoQuestion, byEndpoint[f]} \cup hidden
        /\ r > sessionOf[f] => bySession[<<f, r>>] = NoQuestion
    BY DEF QuestionsInv, NewestSession
  <2>2. CASE f = e /\ r = q.session
    BY <1>6, <2>2
  <2>3. CASE f = e /\ r # q.session
    <3>1. bySession'[<<f, r>>] = bySession[<<f, r>>]
      BY <1>6, <2>3
    <3>2. bySession[<<f, r>>] = byEndpoint[f]
            => bySession[<<f, r>>] = NoQuestion
      BY <1>2, <2>3 DEF QuestionsInv, SessionsOwn
    <3> QED BY <2>1, <3>1, <3>2
  <2>4. CASE f # e
    BY <1>6, <2>1, <2>4
  <2> QED BY <2>2, <2>3, <2>4
<1> QED BY <1>7, <1>8, <1>9, <1>10 DEF QuestionsInv

(* What confirmed says of the question that a "yes" has confirmed.         *)
YesIsLast ==
  confirmed' # NoQuestion
    => asked[confirmed'.endpoint] = confirmed' \/ confirmed' \in hidden

(* _handle_matched_intent: in a turn of the newest session, or of the API. *)
LEMMA MatchedStep ==
  ASSUME QuestionsInv, UNCHANGED sessionOf, NEW e \in Endpoints,
         NEW s \in Sessions \cup {ApiSession}, NEW i, NEW how, NEW speaker,
         HandleMatched(e, s, i, how, speaker),
         \/ s \in Sessions /\ s = sessionOf[e] /\ how # "api"
         \/ s = ApiSession /\ how = "api"
  PROVE  QuestionsInv' /\ YesIsLast
<1>1. /\ confirmed' = IF i = "yes" /\ how # "api"
                      THEN PendingFollowup(e, s) ELSE NoQuestion
      /\ asked' = [asked EXCEPT ![e] =
                     IF i \in Asks
                     THEN [endpoint |-> e, session |-> s, about |-> i]
                     ELSE NoQuestion]
      /\ hidden' = IF how = "api" /\ i \in Asks
                   THEN hidden \cup {byEndpoint[e]} ELSE hidden
      /\ ApplyFollowup(e, s, i)
  BY DEF HandleMatched
<1>2. /\ byEndpoint \in [Endpoints -> MaybeQuestions]
      /\ asked = byEndpoint
  BY DEF QuestionsInv, QuestionTypes, LastAsked
<1>3. QuestionsInv'
  <2>1. CASE i \in Asks
    BY <1>1, <2>1, StoreStep DEF ApplyFollowup
  <2>2. CASE i \notin Asks /\ PendingFollowup(e, s) # NoQuestion
    BY <1>1, <2>2, ClearStep DEF ApplyFollowup
  <2>3. CASE i \notin Asks /\ PendingFollowup(e, s) = NoQuestion
    <3>1. byEndpoint[e] = NoQuestion
      BY <2>3 DEF PendingFollowup, Open
    <3>2. UNCHANGED <<byEndpoint, bySession, hidden, asked>>
      BY <1>1, <1>2, <2>3, <3>1 DEF ApplyFollowup
    <3> QED
      BY <3>2 DEF QuestionsInv, QuestionTypes, FollowupsAgree, LastAsked,
                  SessionsOwn, NewestSession
  <2> QED BY <2>1, <2>2, <2>3
<1>4. YesIsLast
  <2> SUFFICES ASSUME confirmed' # NoQuestion
               PROVE  asked[confirmed'.endpoint] = confirmed'
                      \/ confirmed' \in hidden
    BY DEF YesIsLast
  <2>1. confirmed' = PendingFollowup(e, s) /\ s \in Sessions /\ s = sessionOf[e]
    BY <1>1
  <2>2. CASE byEndpoint[e] # NoQuestion
    <3>1. confirmed' = byEndpoint[e] /\ byEndpoint[e].endpoint = e
      BY <2>1, <2>2 DEF PendingFollowup, Open, QuestionsInv, FollowupsAgree
    <3> QED BY <1>2, <3>1
  <2>3. CASE byEndpoint[e] = NoQuestion
    <3>1. confirmed' = bySession[<<e, s>>]
      BY <2>1, <2>3 DEF PendingFollowup, Open
    <3> QED BY <2>1, <2>3, <3>1 DEF QuestionsInv, NewestSession
  <2> QED BY <2>2, <2>3
<1> QED BY <1>3, <1>4

-----------------------------------------------------------------------------
(* VoiceTurn: the state of a turn *)

TurnStates ==
  [stage : {"idle", "heard", "answered", "retried", "done"},
   endpoint : Endpoints \cup {Idle.endpoint}, session : Sessions \cup {1},
   says : Says, code : Codes, heard : Codes,
   quality : {"good", "poor", "silent"}, policy : Policies,
   speaker : Speakers \cup {Unnamed("none")}, reply : Replies,
   intent : Intents \cup {"yes", NoIntent}, told : BOOLEAN,
   verdict : Verdicts \cup {"none"}]

Lessons == [session : Endpoints \X Sessions, who : Persons \cup {NoSpeaker},
            state : {"pending", "reviewed"}]

TurnTypes ==
  /\ setup \in Setups /\ turn \in TurnStates
  /\ lookup \in Results \cup {Unnamed("none"), Unnamed("running")}
  /\ sessionOf \in [Endpoints -> Nat]
  /\ reviews \in Seq(Lessons) /\ Len(reviews) <= ReviewLimit

(* A turn that runs is of the newest session of its endpoint.              *)
OfNewestSession ==
  turn.stage \notin {"idle", "done"} =>
    /\ turn.endpoint \in Endpoints /\ turn.session \in Sessions
    /\ turn.session = sessionOf[turn.endpoint]

(* A lookup that said nothing, and is not asked again.                     *)
Nameless(x) == x.status \notin {"identified", "none", "pending"}

(* Before the turn is over: nobody is told before the text was considered, *)
(* and the policy of an answer was the policy of its text.                 *)
AnswerFollowsPolicy ==
  /\ turn.told => setup.speakerId
  /\ turn.stage = "heard" => ~ turn.told
  /\ turn.stage \in {"answered", "retried"} =>
       /\ turn.policy = "forbidden" => Nameless(turn.speaker)
       /\ turn.reply = "intent" /\ PolicyOf(turn.intent) = "forbidden"
            => turn.policy = "forbidden"

IdentityInv ==
  TurnTypes /\ OfNewestSession /\ AnswerFollowsPolicy
  /\ IdentityPolicies /\ OneLessonPerSession

LEMMA UnnamedIs ==
  /\ \A s : Unnamed(s).status = s /\ Unnamed(s).sure = FALSE
  /\ \A s \in {"unknown", "unavailable", "disabled", "skipped", "timeout",
               "pending"} : Unnamed(s) \in Speakers
BY DEF Unnamed, Speakers

LEMMA PolicyIs ==
  /\ \A i : PolicyOf(i) \in Policies
  /\ \A y : TextPolicy(y) \in Policies
  /\ \A y : TextPolicy(y) = "forbidden" <=> ~ setup.speakerId
BY DEF PolicyOf, TextPolicy, Policies

(* _speaker_identity_for_policy                                            *)
LEMMA SpeakerForIs ==
  ASSUME TurnTypes, NEW p \in Policies,
         NEW x \in Speakers \cup {Unnamed("none")}
  PROVE  LET y == SpeakerFor(p, x)
         IN /\ y \in Speakers
            /\ p = "forbidden" => Nameless(y)
            /\ Nameless(x) => Nameless(y)
            /\ Identified(y) => setup.speakerId /\ ~ setup.private
<1> DEFINE y == SpeakerFor(p, x)
<1>1. CASE p = "forbidden" \/ setup.private
  BY <1>1, UnnamedIs DEF SpeakerFor, Nameless, Identified
<1>2. CASE p # "forbidden" /\ ~ setup.private /\ ~ setup.speakerId
  BY <1>2, UnnamedIs DEF SpeakerFor, Nameless, Identified
<1>3. CASE p # "forbidden" /\ ~ setup.private /\ setup.speakerId
           /\ x.status \notin {"none", "pending"}
  <2>1. y = x
    BY <1>3 DEF SpeakerFor
  <2>2. x \in Speakers
    BY <1>3, UnnamedIs
  <2> QED BY <1>3, <2>1, <2>2 DEF Nameless
<1>4. CASE p # "forbidden" /\ ~ setup.private /\ setup.speakerId
           /\ x.status \in {"none", "pending"}
  <2>1. y \in {Unnamed("unavailable"), Unnamed("timeout"), Unnamed("pending")}
        \/ (y = lookup /\ y \notin {Unnamed("none"), Unnamed("running")})
    BY <1>4 DEF SpeakerFor
  <2>2. y \in Speakers
    BY <2>1, UnnamedIs DEF TurnTypes, Results
  <2> QED BY <1>4, <2>2 DEF Nameless
<1> QED BY <1>1, <1>2, <1>3, <1>4

LEMMA ForOverrideIs ==
  ASSUME TurnTypes, NEW t, NEW i, NEW x \in Speakers \cup {Unnamed("none")}
  PROVE  LET y == ForOverride(t, i, x)
         IN /\ y \in Speakers \cup {Unnamed("none")}
            /\ x \in Speakers => y \in Speakers
            /\ Nameless(x) => Nameless(y)
            /\ Identified(x) => y = x
            /\ Identified(y) => Identified(x)
                                \/ (setup.speakerId /\ ~ setup.private)
<1>1. "required" \in Policies
  BY DEF Policies
<1> QED BY <1>1, SpeakerForIs DEF ForOverride

LEMMA FoundIs ==
  ASSUME NEW e, NEW s, NEW y \in Says
  PROVE  LET l == Local(y, PendingFollowup(e, s))
             i == Found(e, s, y)
         IN /\ i \in Intents \cup {"yes", NoIntent}
            /\ NoIntent \notin Intents \cup {"yes"}
            /\ i # NoIntent => y # "mumble"
                               /\ (i = l \/ (l = NoIntent /\ i = "calendar"))
            /\ i = NoIntent => y = "mumble" \/ l = NoIntent
BY DEF Found, Local, Guess, Intents, NoIntent

(* What the turn says without the assistant.                               *)
StillThat(t, u) ==
  /\ u \in TurnStates /\ u.stage = t.stage
  /\ u.endpoint = t.endpoint /\ u.session = t.session
  /\ u.quality = t.quality /\ u.policy = t.policy
  /\ u.speaker = t.speaker /\ u.told = t.told
  /\ u.reply \in {"silent", "audience", "clarify", "admin_refused"}

LEMMA TurnMoves ==
  ASSUME NEW t \in TurnStates
  PROVE  /\ StillThat(t, Silence(t)) /\ StillThat(t, AudienceRefusal(t))
         /\ StillThat(t, Clarification(t)) /\ StillThat(t, MaintenanceRefusal(t))
         /\ Silence(t).says = "mumble" /\ AudienceRefusal(t).says = t.says
         /\ Clarification(t).says = t.says /\ MaintenanceRefusal(t).says = t.says
         /\ AudienceRefusal(t).reply = "audience"
         /\ Clarification(t).intent = NoIntent
         /\ MaintenanceRefusal(t).intent = NoIntent
<1>1. /\ {"silent", "audience", "clarify", "admin_refused"} \subseteq Replies
      /\ "mumble" \in Says /\ NoIntent \in Intents \cup {"yes", NoIntent}
  BY DEF Replies, Says
<1>2. StillThat(t, Silence(t)) /\ Silence(t).says = "mumble"
  BY <1>1 DEF TurnStates, Silence, StillThat
<1>3. /\ StillThat(t, AudienceRefusal(t)) /\ AudienceRefusal(t).says = t.says
      /\ AudienceRefusal(t).reply = "audience"
  BY <1>1 DEF TurnStates, AudienceRefusal, StillThat
<1>4. /\ StillThat(t, Clarification(t)) /\ Clarification(t).says = t.says
      /\ Clarification(t).intent = NoIntent
  BY <1>1 DEF TurnStates, Clarification, StillThat
<1>5. /\ StillThat(t, MaintenanceRefusal(t)) /\ MaintenanceRefusal(t).says = t.says
      /\ MaintenanceRefusal(t).intent = NoIntent
  BY <1>1 DEF TurnStates, MaintenanceRefusal, StillThat
<1> QED BY <1>2, <1>3, <1>4, <1>5

LEMMA AnsweredIs ==
  ASSUME NEW t \in TurnStates
  PROVE  LET u == Answered(t)
         IN /\ u \in TurnStates /\ u.stage = t.stage
            /\ u.endpoint = t.endpoint /\ u.session = t.session
            /\ u.quality = t.quality /\ u.policy = t.policy
            /\ u.speaker = t.speaker /\ u.told = Told(t.policy, t.speaker)
            /\ u.intent = Found(t.endpoint, t.session, t.says)
            /\ u.reply = "intent" => u.intent # NoIntent
<1> DEFINE i == Found(t.endpoint, t.session, t.says)
           r == IF t.says = "mumble" THEN "silent"
                ELSE IF i # NoIntent THEN "intent" ELSE "chat"
           c == IF IsAdmin(i) THEN "none" ELSE t.code
           b == Told(t.policy, t.speaker)
<1>1. t.says \in Says /\ t.code \in Codes
  BY DEF TurnStates
<1>2. i \in Intents \cup {"yes", NoIntent}
  BY <1>1, FoundIs
<1>3. r \in Replies /\ c \in Codes /\ (r = "intent" => i # NoIntent)
  BY <1>1 DEF Replies, Codes
<1>4. b \in BOOLEAN
  BY DEF Told, Identified
<1>5. Answered(t) = [t EXCEPT !.reply = r, !.intent = i, !.code = c, !.told = b]
  BY DEF Answered
<1> HIDE DEF i, r, c, b
<1> DEFINE u == [t EXCEPT !.reply = r, !.intent = i, !.code = c, !.told = b]
<1>6. /\ u \in TurnStates /\ u.stage = t.stage
      /\ u.endpoint = t.endpoint /\ u.session = t.session
      /\ u.quality = t.quality /\ u.policy = t.policy
      /\ u.speaker = t.speaker /\ u.told = b /\ u.intent = i /\ u.reply = r
  <2>1. u \in TurnStates
    BY <1>2, <1>3, <1>4 DEF TurnStates
  <2>2. /\ u.stage = t.stage /\ u.endpoint = t.endpoint
        /\ u.session = t.session /\ u.quality = t.quality
        /\ u.policy = t.policy /\ u.speaker = t.speaker
    BY DEF TurnStates
  <2>3. u.told = b /\ u.intent = i /\ u.reply = r
    BY DEF TurnStates
  <2> QED BY <2>1, <2>2, <2>3
<1> QED BY <1>3, <1>5, <1>6 DEF i, b

(* The decision of a text: whatever it is, the policy of the text allows   *)
(* what is known of the speaker and who is told, and what the assistant    *)
(* does for an intent the endpoint matched.                                *)
LEMMA ConsiderIs ==
  ASSUME TurnTypes, NEW t \in TurnStates, Consider(t),
         t.told => setup.speakerId, t.quality = "silent" => ~ t.told,
         setup.private => ~ t.told /\ ~ Identified(t.speaker)
  PROVE  /\ turn' \in TurnStates /\ turn'.stage = t.stage
         /\ turn'.endpoint = t.endpoint /\ turn'.session = t.session
         /\ turn'.told => setup.speakerId
         /\ setup.private => ~ turn'.told /\ ~ Identified(turn'.speaker)
         /\ turn'.policy = "forbidden"
              => Nameless(turn'.speaker) /\ ~ turn'.told
         /\ turn'.reply = "intent" /\ PolicyOf(turn'.intent) = "forbidden"
              => turn'.policy = "forbidden"
         /\ \/ NothingMatched
            \/ \E i, how, speaker :
                 /\ HandleMatched(t.endpoint, t.session, i, how, speaker)
                 /\ how # "api"
                 /\ how = "local" /\ PolicyOf(i) = "required"
                      => speaker = "identified"
<1> DEFINE p == TurnPolicy(t)
           z == SpeakerFor(p, t.speaker)
           x == ForOverride(t, NoIntent, z)
           u == [t EXCEPT !.policy = p, !.speaker = x]
           l == Local(t.says, PendingFollowup(t.endpoint, t.session))
<1>1. t.speaker \in Speakers \cup {Unnamed("none")} /\ t.says \in Says
  BY DEF TurnStates
<1>2. p = IF t.says = "mumble" \/ l = NoIntent THEN TextPolicy(t.says)
          ELSE PolicyOf(l)
  BY DEF TurnPolicy
<1>3. p \in Policies
  BY <1>2, PolicyIs
<1>4. z \in Speakers /\ (p = "forbidden" => Nameless(z))
      /\ (Identified(z) => setup.speakerId /\ ~ setup.private)
  BY <1>1, <1>3, SpeakerForIs
<1>5. x \in Speakers /\ (p = "forbidden" => Nameless(x))
      /\ (Identified(x) => setup.speakerId /\ ~ setup.private)
  BY <1>4, ForOverrideIs
<1>6. /\ u \in TurnStates /\ u.stage = t.stage /\ u.endpoint = t.endpoint
      /\ u.session = t.session /\ u.quality = t.quality /\ u.says = t.says
      /\ u.policy = p /\ u.speaker = x /\ u.told = t.told
  BY <1>3, <1>5 DEF TurnStates
<1>7. \/ t.quality = "silent" /\ turn' = Silence(u) /\ NothingMatched
      \/ /\ t.quality # "silent" /\ AudienceBlocks(u, NoIntent, FALSE, x)
         /\ turn' = AudienceRefusal(u) /\ NothingMatched
      \/ /\ Blocks(p, x) /\ turn' = Clarification(u) /\ NothingMatched
      \/ /\ ~ Blocks(p, x) /\ turn' = Answered(u)
         /\ HandleTurn(u.endpoint, u.session, u.says, x.status)
  BY DEF Consider
<1> HIDE DEF p, z, x, u, l
<1>8. ASSUME t.told, p = "forbidden" PROVE ~ Restricted(t.says, NoIntent)
  <2>1. setup.speakerId
    BY <1>8
  <2>2. t.says # "mumble" /\ l # NoIntent /\ PolicyOf(l) = "forbidden"
    BY <1>2, <1>8, <2>1, PolicyIs
  <2>3. t.says \notin {"debug", "weapon"}
    BY <2>2 DEF l, Local, PolicyOf, Intents
  <2> QED BY <2>3 DEF Restricted, IsAdmin, NoIntent
<1>9. CASE t.quality = "silent" /\ turn' = Silence(u) /\ NothingMatched
  BY <1>5, <1>6, <1>9, TurnMoves DEF StillThat
<1>10. CASE /\ t.quality # "silent" /\ AudienceBlocks(u, NoIntent, FALSE, x)
            /\ turn' = AudienceRefusal(u) /\ NothingMatched
  <2>1. Restricted(t.says, NoIntent)
    BY <1>6, <1>10 DEF AudienceBlocks
  <2>2. ~ (t.told /\ p = "forbidden")
    BY <1>8, <2>1
  <2> QED BY <1>5, <1>6, <1>10, <2>2, TurnMoves DEF StillThat
<1>11. CASE Blocks(p, x) /\ turn' = Clarification(u) /\ NothingMatched
  <2>1. p = "required"
    BY <1>11 DEF Blocks
  <2> QED BY <1>5, <1>6, <1>11, <2>1, TurnMoves DEF StillThat
<1>12. CASE /\ ~ Blocks(p, x) /\ turn' = Answered(u)
            /\ HandleTurn(u.endpoint, u.session, u.says, x.status)
  <2> DEFINE i == Found(t.endpoint, t.session, t.says)
             how == IF l = i THEN "local" ELSE "ai"
  <2>1. /\ i # NoIntent => t.says # "mumble"
                           /\ (i = l \/ (l = NoIntent /\ i = "calendar"))
    BY <1>1, FoundIs DEF l
  <2>2. /\ turn' \in TurnStates /\ turn'.stage = t.stage
        /\ turn'.endpoint = t.endpoint /\ turn'.session = t.session
        /\ turn'.policy = p /\ turn'.speaker = x /\ turn'.told = Told(p, x)
        /\ turn'.intent = i /\ (turn'.reply = "intent" => i # NoIntent)
    BY <1>6, <1>12, AnsweredIs
  <2>3. IF i = NoIntent THEN NothingMatched
        ELSE HandleMatched(t.endpoint, t.session, i, how, x.status)
    BY <1>6, <1>12 DEF HandleTurn, l
  <2> HIDE DEF i
  <2>4. turn'.told => Identified(x) /\ p # "forbidden"
    BY <2>2 DEF Told
  <2>5. PolicyOf("calendar") = "required"
    BY DEF PolicyOf
  <2>6. i # NoIntent /\ PolicyOf(i) = "forbidden" => p = "forbidden"
    BY <1>2, <2>1, <2>5
  <2>7. how = "local" /\ i # NoIntent /\ PolicyOf(i) = "required"
          => x.status = "identified"
    <3> SUFFICES ASSUME l = i, i # NoIntent, PolicyOf(i) = "required"
                 PROVE  x.status = "identified"
      OBVIOUS
    <3>1. p = "required"
      BY <1>2, <2>1
    <3> QED BY <1>12, <3>1 DEF Blocks, Identified
  <2>8. \/ NothingMatched
        \/ \E j, h, speaker :
             /\ HandleMatched(t.endpoint, t.session, j, h, speaker)
             /\ h # "api"
             /\ h = "local" /\ PolicyOf(j) = "required"
                  => speaker = "identified"
    <3>1. CASE i = NoIntent
      BY <2>3, <3>1
    <3>2. CASE i # NoIntent
      <4>1. how # "api"
        OBVIOUS
      <4> QED BY <2>3, <2>7, <3>2, <4>1
    <3> QED BY <3>1, <3>2
  <2> QED BY <1>5, <2>2, <2>4, <2>6, <2>8
<1> QED BY <1>7, <1>9, <1>10, <1>11, <1>12

-----------------------------------------------------------------------------
(* The lessons *)

(* The newest of a list of at most m members and a new one before them.    *)
LEMMA Remembering ==
  ASSUME NEW S, NEW s \in Seq(S), NEW e \in S, NEW m \in Nat \ {0},
         Len(s) <= m
  PROVE  LET t == SubSeq(<<e>> \o s, 1, IF Len(s) + 1 < m THEN Len(s) + 1 ELSE m)
         IN /\ t \in Seq(S) /\ Len(t) <= m
            /\ \A i \in 1 .. Len(t) :
                 /\ i = 1 => t[i] = e
                 /\ i # 1 => i - 1 \in 1 .. Len(s) /\ t[i] = s[i - 1]
<1> DEFINE n == IF Len(s) + 1 < m THEN Len(s) + 1 ELSE m
           f == <<e>> \o s
           t == SubSeq(f, 1, n)
<1>1. Len(s) \in Nat /\ n \in Nat \ {0} /\ n <= Len(s) + 1 /\ n <= m
  BY LenProperties
<1>2. <<e>> \in Seq(S) /\ Len(<<e>>) = 1 /\ <<e>>[1] = e
  OBVIOUS
<1>3. /\ f \in Seq(S) /\ Len(f) = Len(s) + 1
      /\ \A i \in 1 .. Len(s) + 1 :
           f[i] = IF i <= 1 THEN <<e>>[i] ELSE s[i - 1]
  BY <1>1, <1>2, ConcatProperties
<1> HIDE DEF n, f
<1>4. \A i \in 1 .. n : f[i] \in S
  BY <1>1, <1>3, ElementOfSeq
<1>5. t \in Seq(S) /\ Len(t) = n /\ \A i \in 1 .. n : t[i] = f[i]
  BY <1>1, <1>4, SubSeqProperties
<1>6. \A i \in 1 .. n :
        /\ i = 1 => t[i] = e
        /\ i # 1 => i - 1 \in 1 .. Len(s) /\ t[i] = s[i - 1]
  BY <1>1, <1>2, <1>3, <1>5
<1> HIDE DEF t
<1> QED BY <1>1, <1>5, <1>6 DEF t, n, f

(* add_candidate                                                           *)
LEMMA LearnStep ==
  ASSUME reviews \in Seq(Lessons), Len(reviews) <= ReviewLimit,
         OneLessonPerSession,
         NEW s \in Endpoints \X Sessions, NEW x, x.who \in Persons,
         reviews' = Learn(s, x)
  PROVE  /\ reviews' \in Seq(Lessons) /\ Len(reviews') <= ReviewLimit
         /\ OneLessonPerSession'
<1> DEFINE e == Lesson(s, x)
           f == <<e>> \o reviews
           t == SubSeq(f, 1, IF Len(reviews) + 1 < ReviewLimit
                             THEN Len(reviews) + 1 ELSE ReviewLimit)
<1>1. e \in Lessons
  BY DEF Lesson, Lessons
<1>2. ReviewLimit \in Nat \ {0}
  BY ReviewAssumption
<1>3. CASE Contains(reviews, e)
  <2>1. reviews' = reviews
    BY <1>3 DEF Learn
  <2> QED BY <2>1 DEF OneLessonPerSession
<1>4. CASE ~ Contains(reviews, e)
  <2>1. Len(f) = Len(reviews) + 1 /\ Len(reviews) \in Nat
    BY <1>1, LenProperties, ConcatProperties
  <2>2. reviews' = t
    BY <1>4, <2>1 DEF Learn, Newest
  <2>3. /\ t \in Seq(Lessons) /\ Len(t) <= ReviewLimit
        /\ \A i \in 1 .. Len(t) :
             /\ i = 1 => t[i] = e
             /\ i # 1 => i - 1 \in 1 .. Len(reviews) /\ t[i] = reviews[i - 1]
    BY <1>1, <1>2, Remembering
  <2>4. \A i \in 1 .. Len(reviews) : reviews[i] # e
    BY <1>4 DEF Contains
  <2> HIDE DEF e, t
  <2>5. \A j, k \in 1 .. Len(t) : t[j] = t[k] /\ t[j].state = "pending" => j = k
    <3> SUFFICES ASSUME NEW j \in 1 .. Len(t), NEW k \in 1 .. Len(t),
                        t[j] = t[k], t[j].state = "pending"
                 PROVE  j = k
      OBVIOUS
    <3>1. CASE j = 1 \/ k = 1
      BY <3>1, <2>3, <2>4
    <3>2. CASE j # 1 /\ k # 1
      <4>1. /\ j - 1 \in 1 .. Len(reviews) /\ t[j] = reviews[j - 1]
            /\ k - 1 \in 1 .. Len(reviews) /\ t[k] = reviews[k - 1]
        BY <3>2, <2>3
      <4>2. DOMAIN reviews = 1 .. Len(reviews)
        BY LenProperties
      <4>3. j - 1 = k - 1
        BY <4>1, <4>2 DEF OneLessonPerSession
      <4>4. j \in Int /\ k \in Int
        BY <2>3, LenProperties
      <4> QED BY <4>3, <4>4
    <3> QED BY <3>1, <3>2
  <2>6. DOMAIN t = 1 .. Len(t)
    BY <2>3, LenProperties
  <2> QED BY <2>2, <2>3, <2>5, <2>6 DEF OneLessonPerSession
<1> QED BY <1>3, <1>4

(* mark_reviewed                                                           *)
LEMMA ReviewedStep ==
  ASSUME reviews \in Seq(Lessons), Len(reviews) <= ReviewLimit,
         OneLessonPerSession, NEW k \in DOMAIN reviews,
         reviews' = [reviews EXCEPT ![k].state = "reviewed"]
  PROVE  /\ reviews' \in Seq(Lessons) /\ Len(reviews') <= ReviewLimit
         /\ OneLessonPerSession' /\ reviews # <<>>
<1>1. Len(reviews) \in Nat /\ DOMAIN reviews = 1 .. Len(reviews)
  BY LenProperties
<1> DEFINE r == [reviews[k] EXCEPT !.state = "reviewed"]
<1>2. reviews[k] \in Lessons
  BY <1>1, ElementOfSeq
<1>3. r \in Lessons /\ r.state = "reviewed"
  BY <1>2 DEF Lessons
<1>4. reviews' = [reviews EXCEPT ![k] = r]
  OBVIOUS
<1> HIDE DEF r
<1>5. reviews' \in Seq(Lessons) /\ Len(reviews') = Len(reviews)
  BY <1>1, <1>3, <1>4, ExceptSeq
<1>6. DOMAIN reviews' = DOMAIN reviews
      /\ \A j \in DOMAIN reviews : reviews'[j] = IF j = k THEN r ELSE reviews[j]
  BY <1>4
<1>7. OneLessonPerSession'
  <2> SUFFICES ASSUME NEW i \in DOMAIN reviews, NEW j \in DOMAIN reviews,
                      reviews'[i] = reviews'[j], reviews'[i].state = "pending"
               PROVE  i = j
    BY <1>6 DEF OneLessonPerSession
  <2>1. i # k /\ j # k
    BY <1>3, <1>6
  <2> QED BY <1>6, <2>1 DEF OneLessonPerSession
<1>8. reviews # <<>>
  BY <1>1
<1> QED BY <1>5, <1>7, <1>8

-----------------------------------------------------------------------------
(* The actions *)

TurnInv == AdminInv /\ QuestionsInv /\ IdentityInv

(* What YesConfirmsTheLastQuestion asks of a step.                         *)
YesNow == YesIsLast \/ confirmed' = confirmed

LEMMA AdminFrame == AdminInv /\ UNCHANGED avars => AdminInv'
BY DEF AdminInv, AdminTypeOK, avars

LEMMA QuestionsFrame ==
  ASSUME QuestionsInv, UNCHANGED <<byEndpoint, bySession, asked, hidden, sessionOf>>
  PROVE  QuestionsInv'
BY DEF QuestionsInv, QuestionTypes, FollowupsAgree, LastAsked, SessionsOwn,
       NewestSession

(* The intent API executes as "api"; a turn under the policy of the text.  *)
LEMMA ActedStep ==
  ASSUME KnownSpeakerActs, NEW e, NEW s, NEW i, NEW how, NEW speaker,
         HandleMatched(e, s, i, how, speaker),
         how = "local" /\ PolicyOf(i) = "required" => speaker = "identified"
  PROVE  KnownSpeakerActs'
<1> DEFINE a == [intent |-> i, how |-> how, speaker |-> speaker]
<1>1. acted' = acted \cup {a}
  BY DEF HandleMatched
<1>2. a.intent = i /\ a.how = how /\ a.speaker = speaker
  OBVIOUS
<1> HIDE DEF a
<1> QED BY <1>1, <1>2 DEF KnownSpeakerActs

LEMMA IdentityFrame ==
  ASSUME IdentityInv, UNCHANGED <<setup, turn, lookup, sessionOf, reviews>>,
         KnownSpeakerActs'
  PROVE  IdentityInv'
<1>1. TurnTypes' /\ OfNewestSession' /\ AnswerFollowsPolicy'
  BY DEF IdentityInv, TurnTypes, OfNewestSession, AnswerFollowsPolicy
<1>2. PrivacyModeHolds' /\ ForbiddenForgetsSpeaker' /\ ChildIsRefused'
  BY DEF IdentityInv, IdentityPolicies, PrivacyModeHolds,
         ForbiddenForgetsSpeaker, ChildIsRefused
<1>3. OneLessonPerSession'
  BY DEF IdentityInv, OneLessonPerSession
<1> QED BY <1>1, <1>2, <1>3 DEF IdentityInv, IdentityPolicies

(* Calls of the intent API                                                 *)
LEMMA InvokeStep ==
  ASSUME TurnInv, NEW e \in Endpoints, Invoke(e)
  PROVE  TurnInv' /\ YesNow
<1>1. AdminInv' /\ UNCHANGED <<setup, turn, lookup, sessionOf, reviews>>
  BY AdminFrame DEF Invoke, TurnInv
<1>2. CASE InvokeIntent(e)
  <2>1. HandleMatched(e, ApiSession, invocation[e], "api", "none")
    BY <1>2 DEF InvokeIntent
  <2>2. QuestionsInv' /\ YesIsLast
    BY <1>1, <2>1, MatchedStep DEF TurnInv
  <2>3. KnownSpeakerActs'
    BY <2>1, ActedStep DEF TurnInv, IdentityInv, IdentityPolicies
  <2> QED BY <1>1, <2>2, <2>3, IdentityFrame DEF TurnInv, YesNow
<1>3. CASE \E says \in ApiSays : InvokeFind(e, says)
  <2>1. UNCHANGED <<byEndpoint, bySession, asked, confirmed, hidden, acted>>
    BY <1>3 DEF InvokeFind
  <2>2. QuestionsInv'
    BY <1>1, <2>1, QuestionsFrame DEF TurnInv
  <2>3. KnownSpeakerActs'
    BY <2>1 DEF TurnInv, IdentityInv, IdentityPolicies, KnownSpeakerActs
  <2> QED BY <1>1, <2>1, <2>2, <2>3, IdentityFrame DEF TurnInv, YesNow
<1> QED BY <1>2, <1>3 DEF Invoke

LEMMA ExpiryStep ==
  ASSUME TurnInv, NEW e \in Endpoints, NEW s \in Sessions, QuestionExpires(e, s)
  PROVE  TurnInv' /\ YesNow
<1>1. /\ UNCHANGED <<setup, turn, lookup, sessionOf, reviews, avars, hidden, acted>>
      /\ PendingFollowup(e, s) # NoQuestion
      /\ ClearFollowup(PendingFollowup(e, s))
      /\ asked' = [asked EXCEPT ![e] = NoQuestion] /\ confirmed' = NoQuestion
  BY DEF QuestionExpires, Between, Expire
<1>2. QuestionsInv'
  BY <1>1, ClearStep DEF TurnInv
<1>3. KnownSpeakerActs'
  BY <1>1 DEF TurnInv, IdentityInv, IdentityPolicies, KnownSpeakerActs
<1>4. IdentityInv'
  BY <1>1, <1>3, IdentityFrame DEF TurnInv
<1>5. AdminInv'
  BY <1>1, AdminFrame DEF TurnInv
<1> QED BY <1>1, <1>2, <1>4, <1>5 DEF TurnInv, YesNow, YesIsLast

(* The operator's pages and the five minutes of the lock                   *)
LEMMA MaintenanceStep ==
  ASSUME TurnInv,
         (\E on \in BOOLEAN : SetMaintenance(on)) \/ NewPasscode \/ LockoutEnds
  PROVE  TurnInv' /\ YesNow
<1>1. /\ UNCHANGED <<setup, turn, lookup, sessionOf, reviews, asvars>>
      /\ (\E on \in BOOLEAN : UpdateSettings(on)) \/ SetPasscode \/ LockoutPasses
  BY DEF SetMaintenance, NewPasscode, LockoutEnds, Between
<1>2. AdminInv'
  BY <1>1, SettingsStep DEF TurnInv
<1>3. UNCHANGED <<byEndpoint, bySession, asked, confirmed, hidden, acted>>
  BY <1>1 DEF asvars
<1>4. QuestionsInv'
  BY <1>1, <1>3, QuestionsFrame DEF TurnInv
<1>5. KnownSpeakerActs'
  BY <1>3 DEF TurnInv, IdentityInv, IdentityPolicies, KnownSpeakerActs
<1>6. IdentityInv'
  BY <1>1, <1>5, IdentityFrame DEF TurnInv
<1> QED BY <1>2, <1>3, <1>4, <1>6 DEF TurnInv, YesNow

LEMMA ReviewStep ==
  ASSUME TurnInv, NEW k \in 1 .. ReviewLimit, Review(k)
  PROVE  TurnInv' /\ YesNow
<1>1. /\ UNCHANGED <<setup, turn, lookup, sessionOf, avars, asvars>>
      /\ k \in DOMAIN reviews
      /\ reviews' = [reviews EXCEPT ![k].state = "reviewed"]
  BY DEF Review, Between
<1>2. UNCHANGED <<byEndpoint, bySession, asked, confirmed, hidden, acted>>
  BY <1>1 DEF asvars
<1>3. QuestionsInv' /\ AdminInv'
  BY <1>1, <1>2, QuestionsFrame, AdminFrame DEF TurnInv
<1>4. /\ reviews' \in Seq(Lessons) /\ Len(reviews') <= ReviewLimit
      /\ OneLessonPerSession' /\ reviews # <<>>
  BY <1>1, ReviewedStep DEF TurnInv, IdentityInv, TurnTypes
<1>5. TurnTypes' /\ OfNewestSession' /\ AnswerFollowsPolicy'
  BY <1>1, <1>4 DEF TurnInv, IdentityInv, TurnTypes, OfNewestSession,
                    AnswerFollowsPolicy
<1>6. KnownSpeakerActs' /\ ForbiddenForgetsSpeaker' /\ ChildIsRefused'
  BY <1>1, <1>2 DEF TurnInv, IdentityInv, IdentityPolicies, KnownSpeakerActs,
                    ForbiddenForgetsSpeaker, ChildIsRefused
<1>7. PrivacyModeHolds'
  BY <1>1, <1>4 DEF TurnInv, IdentityInv, IdentityPolicies, PrivacyModeHolds
<1> QED BY <1>2, <1>3, <1>4, <1>5, <1>6, <1>7
        DEF TurnInv, IdentityInv, IdentityPolicies, YesNow

LEMMA SpeakerStep ==
  ASSUME TurnInv, SpeakerAnswers
  PROVE  TurnInv' /\ YesNow
<1>1. /\ lookup = Unnamed("running") /\ lookup' \in Results
      /\ UNCHANGED <<asvars, avars, setup, turn, sessionOf, reviews>>
  BY DEF SpeakerAnswers
<1>2. UNCHANGED <<byEndpoint, bySession, asked, confirmed, hidden, acted>>
  BY <1>1 DEF asvars
<1>3. QuestionsInv' /\ AdminInv'
  BY <1>1, <1>2, QuestionsFrame, AdminFrame DEF TurnInv
<1>4. TurnTypes' /\ OfNewestSession' /\ AnswerFollowsPolicy'
  BY <1>1 DEF TurnInv, IdentityInv, TurnTypes, OfNewestSession, AnswerFollowsPolicy
<1>5. KnownSpeakerActs' /\ ForbiddenForgetsSpeaker' /\ ChildIsRefused'
      /\ OneLessonPerSession'
  BY <1>1, <1>2 DEF TurnInv, IdentityInv, IdentityPolicies, KnownSpeakerActs,
                    ForbiddenForgetsSpeaker, ChildIsRefused, OneLessonPerSession
<1>6. ~ setup.private
  BY <1>1, UnnamedIs DEF TurnInv, IdentityInv, IdentityPolicies, PrivacyModeHolds
<1>7. PrivacyModeHolds'
  BY <1>1, <1>6 DEF PrivacyModeHolds
<1> QED BY <1>2, <1>3, <1>4, <1>5, <1>7
        DEF TurnInv, IdentityInv, IdentityPolicies, YesNow

(* The first text of the turn                                              *)
LEMMA BeginStep ==
  ASSUME TurnInv, NEW e \in Endpoints, NEW says \in Says, NEW code \in Codes,
         NEW quality \in {"good", "poor", "silent"},
         Begin(e, says, code, quality)
  PROVE  TurnInv' /\ YesNow
<1> PICK s \in {sessionOf[e], sessionOf[e] + 1} \cap Sessions :
      /\ sessionOf' = [sessionOf EXCEPT ![e] = s]
      /\ turn' = [Idle EXCEPT !.stage = "heard", !.endpoint = e, !.session = s,
                   !.says = says, !.code = code, !.heard = code,
                   !.quality = quality]
      /\ lookup' = IF Starts THEN Unnamed("running") ELSE Unnamed("none")
      /\ acted' = {} /\ confirmed' = NoQuestion
      /\ UNCHANGED <<setup, byEndpoint, bySession, asked, hidden, avars, reviews>>
  BY DEF Begin
<1>1. sessionOf \in [Endpoints -> Nat] /\ sessionOf' \in [Endpoints -> Nat]
      /\ sessionOf'[e] = s /\ \A f \in Endpoints \ {e} : sessionOf'[f] = sessionOf[f]
  BY DEF TurnInv, QuestionsInv, QuestionTypes
<1>2. /\ turn' \in TurnStates /\ turn'.stage = "heard" /\ turn'.endpoint = e
      /\ turn'.session = s /\ ~ turn'.told /\ turn'.speaker = Unnamed("none")
  <2>1. /\ "forbidden" \in Policies /\ "none" \in Replies
        /\ "none" \in Codes /\ "mumble" \in Says
    BY DEF Policies, Replies, Codes, Says
  <2>2. Idle \in [stage : {"idle"}, endpoint : {Idle.endpoint}, session : {1},
                  says : Says, code : Codes, heard : Codes, quality : {"good"},
                  policy : {"forbidden"}, speaker : {Unnamed("none")},
                  reply : {"none"}, intent : {NoIntent}, told : {FALSE},
                  verdict : {"none"}]
    BY <2>1 DEF Idle
  <2> QED BY <2>1, <2>2 DEF TurnStates
<1>3. ~ Identified(turn'.speaker)
  BY <1>2, UnnamedIs DEF Identified
<1>4. QuestionsInv'
  <2>1. QuestionTypes' /\ FollowupsAgree' /\ LastAsked' /\ SessionsOwn'
    BY <1>1 DEF TurnInv, QuestionsInv, QuestionTypes, FollowupsAgree,
                LastAsked, SessionsOwn
  <2>2. NewestSession'
    <3> SUFFICES ASSUME NEW f \in Endpoints, NEW r \in Sessions
                 PROVE  /\ r = sessionOf'[f] => bySession[<<f, r>>]
                                \in {NoQuestion, byEndpoint[f]} \cup hidden
                        /\ r > sessionOf'[f] => bySession[<<f, r>>] = NoQuestion
      BY DEF NewestSession
    <3>1. /\ r = sessionOf[f] => bySession[<<f, r>>]
                                   \in {NoQuestion, byEndpoint[f]} \cup hidden
          /\ r > sessionOf[f] => bySession[<<f, r>>] = NoQuestion
      BY DEF TurnInv, QuestionsInv, NewestSession
    <3>2. r \in Nat /\ sessionOf[f] \in Nat
      BY <1>1, ApiAssumption
    <3>3. f = e => sessionOf'[f] = sessionOf[f] \/ sessionOf'[f] = sessionOf[f] + 1
      BY <1>1
    <3>4. f # e => sessionOf'[f] = sessionOf[f]
      BY <1>1
    <3> QED BY <3>1, <3>2, <3>3, <3>4
  <2> QED BY <2>1, <2>2 DEF QuestionsInv
<1>5. AdminInv' /\ OneLessonPerSession' /\ KnownSpeakerActs'
  BY AdminFrame DEF TurnInv, IdentityInv, OneLessonPerSession, KnownSpeakerActs
<1>6. TurnTypes' /\ OfNewestSession' /\ AnswerFollowsPolicy'
  BY <1>1, <1>2 DEF TurnInv, IdentityInv, TurnTypes, OfNewestSession,
                    AnswerFollowsPolicy
<1>7. PrivacyModeHolds'
  BY <1>2, <1>3 DEF TurnInv, IdentityInv, IdentityPolicies, PrivacyModeHolds, Starts
<1>8. ForbiddenForgetsSpeaker' /\ ChildIsRefused'
  BY <1>2, <1>3 DEF ForbiddenForgetsSpeaker, ChildIsRefused
<1> QED BY <1>4, <1>5, <1>6, <1>7, <1>8
        DEF TurnInv, IdentityInv, IdentityPolicies, YesNow, YesIsLast

(* The first and the second text are decided alike.                        *)
LEMMA ConsideredStep ==
  ASSUME TurnInv, NEW t \in TurnStates, Consider(t),
         turn.stage \notin {"idle", "done"}, t.stage \in {"answered", "retried"},
         t.endpoint = turn.endpoint, t.session = turn.session,
         t.told = turn.told, t.speaker = turn.speaker,
         t.quality = "silent" => ~ turn.told,
         UNCHANGED <<avars, setup, lookup, sessionOf, reviews, invocation>>
  PROVE  TurnInv' /\ YesNow
<1>1. /\ TurnTypes /\ OfNewestSession /\ AnswerFollowsPolicy
      /\ KnownSpeakerActs /\ PrivacyModeHolds /\ OneLessonPerSession
  BY DEF TurnInv, IdentityInv, IdentityPolicies
<1>2. /\ t.told => setup.speakerId
      /\ setup.private => ~ t.told /\ ~ Identified(t.speaker)
  BY <1>1 DEF AnswerFollowsPolicy, PrivacyModeHolds
<1>3. /\ turn' \in TurnStates /\ turn'.stage = t.stage
      /\ turn'.endpoint = t.endpoint /\ turn'.session = t.session
      /\ turn'.told => setup.speakerId
      /\ setup.private => ~ turn'.told /\ ~ Identified(turn'.speaker)
      /\ turn'.policy = "forbidden" => Nameless(turn'.speaker) /\ ~ turn'.told
      /\ turn'.reply = "intent" /\ PolicyOf(turn'.intent) = "forbidden"
           => turn'.policy = "forbidden"
      /\ \/ NothingMatched
         \/ \E i, how, speaker :
              /\ HandleMatched(t.endpoint, t.session, i, how, speaker)
              /\ how # "api"
              /\ how = "local" /\ PolicyOf(i) = "required"
                   => speaker = "identified"
  BY <1>1, <1>2, ConsiderIs
<1>4. /\ t.endpoint \in Endpoints /\ t.session \in Sessions
      /\ t.session = sessionOf[t.endpoint]
  BY <1>1 DEF OfNewestSession
<1>5. QuestionsInv' /\ YesIsLast /\ KnownSpeakerActs'
  <2>1. CASE NothingMatched
    BY <1>1, <2>1, QuestionsFrame
       DEF NothingMatched, TurnInv, YesIsLast, KnownSpeakerActs
  <2>2. CASE \E i, how, speaker :
               /\ HandleMatched(t.endpoint, t.session, i, how, speaker)
               /\ how # "api"
               /\ how = "local" /\ PolicyOf(i) = "required"
                    => speaker = "identified"
    <3> PICK i, how, speaker :
          /\ HandleMatched(t.endpoint, t.session, i, how, speaker)
          /\ how # "api"
          /\ how = "local" /\ PolicyOf(i) = "required" => speaker = "identified"
      BY <2>2
    <3>1. QuestionsInv' /\ YesIsLast
      BY <1>4, MatchedStep DEF TurnInv
    <3>2. KnownSpeakerActs'
      BY <1>1, ActedStep
    <3> QED BY <3>1, <3>2
  <2> QED BY <1>3, <2>1, <2>2
<1>6. AdminInv' /\ OneLessonPerSession'
  BY <1>1, AdminFrame DEF TurnInv, OneLessonPerSession
<1>7. TurnTypes' /\ OfNewestSession' /\ AnswerFollowsPolicy'
  BY <1>1, <1>3, <1>4 DEF TurnTypes, OfNewestSession, AnswerFollowsPolicy
<1>8. PrivacyModeHolds' /\ ForbiddenForgetsSpeaker' /\ ChildIsRefused'
  BY <1>1, <1>3 DEF PrivacyModeHolds, ForbiddenForgetsSpeaker, ChildIsRefused,
                    Nameless, Identified
<1> QED BY <1>5, <1>6, <1>7, <1>8
        DEF TurnInv, IdentityInv, IdentityPolicies, YesNow

LEMMA DecideStep ==
  ASSUME TurnInv, Decide PROVE TurnInv' /\ YesNow
<1> DEFINE t == [turn EXCEPT !.stage = "answered"]
<1>1. turn \in TurnStates /\ turn.stage = "heard" /\ ~ turn.told
  BY DEF Decide, TurnInv, IdentityInv, TurnTypes, AnswerFollowsPolicy
<1>2. /\ t \in TurnStates /\ t.stage = "answered"
      /\ t.endpoint = turn.endpoint /\ t.session = turn.session
      /\ t.told = turn.told /\ t.speaker = turn.speaker
  BY <1>1 DEF TurnStates
<1>3. /\ Consider(t)
      /\ UNCHANGED <<avars, setup, lookup, sessionOf, reviews, invocation>>
  BY DEF Decide
<1> HIDE DEF t
<1> QED BY <1>1, <1>2, <1>3, ConsideredStep

LEMMA RetryStep ==
  ASSUME TurnInv, NEW says \in Says, NEW code \in Codes, Retry(says, code)
  PROVE  TurnInv' /\ YesNow
<1> DEFINE t == [turn EXCEPT !.stage = "retried", !.says = says, !.code = code,
                   !.heard = code, !.reply = "none", !.intent = NoIntent]
<1>1. /\ turn \in TurnStates /\ turn.stage = "answered"
      /\ turn.quality # "silent" /\ "none" \in Replies
  BY DEF Retry, TurnInv, IdentityInv, TurnTypes, Replies
<1>2. /\ t \in TurnStates /\ t.stage = "retried"
      /\ t.endpoint = turn.endpoint /\ t.session = turn.session
      /\ t.told = turn.told /\ t.speaker = turn.speaker
      /\ t.quality = turn.quality
  BY <1>1 DEF TurnStates
<1>3. /\ Consider(t)
      /\ UNCHANGED <<avars, setup, lookup, sessionOf, reviews, invocation>>
  BY DEF Retry
<1> HIDE DEF t
<1> QED BY <1>1, <1>2, <1>3, ConsideredStep

(* The rest of the turn                                                    *)
LEMMA ConcludeStep ==
  ASSUME TurnInv, Conclude PROVE TurnInv' /\ YesNow
<1> DEFINE
      p == FinalPolicy(turn)
      changed == p # turn.policy
      x1 == IF changed THEN SpeakerFor(p, turn.speaker) ELSE turn.speaker
      t1 == IF changed /\ Blocks(p, x1) THEN Clarification(turn) ELSE turn
      x == ForOverride(turn, t1.intent, x1)
      t == [t1 EXCEPT !.stage = "done", !.policy = p, !.speaker = x]
      maintenance == IsAdmin(t.intent)
      v == Verdict(Cleared(admin), t.code, x.who = "dan" /\ x.sure,
                   t.quality = "good")
      t2 == IF maintenance /\ v # "allowed" THEN MaintenanceRefusal(t) ELSE t
      t3 == IF AudienceBlocks(t2, t2.intent, maintenance /\ v = "allowed", x)
            THEN AudienceRefusal(t2) ELSE t2
      w == IF maintenance THEN v ELSE "none"
<1>1. /\ turn.stage \in {"answered", "retried"}
      /\ turn' = [t3 EXCEPT !.verdict = w]
      /\ lookup' = Unnamed("none")
      /\ IF maintenance THEN Evaluate(v) ELSE UNCHANGED avars
      /\ reviews' = IF Teaches(p, x, t.quality)
                    THEN Learn(<<t.endpoint, t.session>>, x) ELSE reviews
      /\ UNCHANGED <<asvars, setup, sessionOf>>
  BY DEF Conclude
<1>2. /\ TurnTypes /\ OfNewestSession /\ AnswerFollowsPolicy
      /\ KnownSpeakerActs /\ PrivacyModeHolds /\ ForbiddenForgetsSpeaker
      /\ OneLessonPerSession /\ AdminInv /\ QuestionsInv
  BY DEF TurnInv, IdentityInv, IdentityPolicies
<1>3. turn \in TurnStates /\ turn.speaker \in Speakers \cup {Unnamed("none")}
  BY <1>2 DEF TurnTypes, TurnStates
<1>4. p \in Policies
  BY PolicyIs DEF FinalPolicy, Policies
<1>5. /\ x1 \in Speakers \cup {Unnamed("none")}
      /\ p = "forbidden" => Nameless(x1)
      /\ Identified(x1) => ~ setup.private
  <2>1. CASE changed
    BY <1>2, <1>3, <1>4, <2>1, SpeakerForIs
  <2>2. CASE ~ changed
    BY <1>1, <1>2, <1>3, <2>2 DEF AnswerFollowsPolicy, PrivacyModeHolds
  <2> QED BY <2>1, <2>2
<1>6. p = "forbidden" => ~ turn.told
  <2> SUFFICES ASSUME turn.told, p = "forbidden" PROVE FALSE
    OBVIOUS
  <2>1. setup.speakerId
    BY <1>2 DEF AnswerFollowsPolicy
  <2>2. turn.reply = "intent" /\ PolicyOf(turn.intent) = "forbidden"
    BY <2>1, PolicyIs DEF FinalPolicy
  <2> QED BY <1>1, <1>2, <2>2 DEF AnswerFollowsPolicy, ForbiddenForgetsSpeaker
<1>7. /\ t1 \in TurnStates /\ t1.endpoint = turn.endpoint
      /\ t1.session = turn.session /\ t1.told = turn.told
      /\ t1.quality = turn.quality
      /\ t1.says = turn.says
  BY <1>3, TurnMoves DEF StillThat
<1>8. /\ x \in Speakers \cup {Unnamed("none")}
      /\ p = "forbidden" => Nameless(x)
      /\ setup.private => ~ Identified(x)
  <2>1. /\ Nameless(x1) => Nameless(x)
        /\ x \in Speakers \cup {Unnamed("none")}
        /\ Identified(x) => Identified(x1) \/ ~ setup.private
    BY <1>2, <1>5, ForOverrideIs
  <2> QED BY <1>5, <2>1
<1> HIDE DEF x, x1, p
<1>9. /\ t \in TurnStates /\ t.stage = "done" /\ t.endpoint = turn.endpoint
      /\ t.session = turn.session /\ t.told = turn.told /\ t.policy = p
      /\ t.speaker = x /\ t.says = turn.says
  <2> HIDE DEF t1
  <2> QED BY <1>4, <1>7, <1>8 DEF TurnStates
<1>10. v \in Verdicts
       /\ (v \in {"missing", "wrong", "allowed"} => Cleared(admin).lock = "open")
  BY <1>2, VerdictIs
<1> HIDE DEF t, t1, v
<1>11. w \in Verdicts \cup {"none"}
  BY <1>10
<1>12. /\ t2 \in TurnStates /\ t2.stage = "done" /\ t2.endpoint = turn.endpoint
       /\ t2.session = turn.session /\ t2.told = turn.told /\ t2.policy = p
       /\ t2.speaker = x /\ t2.says = turn.says
  BY <1>9, TurnMoves DEF StillThat
<1> HIDE DEF t2
<1>13. /\ t3 \in TurnStates /\ t3.stage = "done" /\ t3.endpoint = turn.endpoint
       /\ t3.session = turn.session /\ t3.told = turn.told /\ t3.policy = p
       /\ t3.speaker = x /\ t3.says = turn.says
       /\ t3.reply = "chat"
            => ~ AudienceBlocks(t2, t2.intent, maintenance /\ v = "allowed", x)
  BY <1>12, TurnMoves DEF StillThat
<1> HIDE DEF w, t3, maintenance
<1>14. /\ turn' \in TurnStates /\ turn'.stage = "done"
       /\ turn'.endpoint = turn.endpoint /\ turn'.session = turn.session
       /\ turn'.told = turn.told /\ turn'.policy = p /\ turn'.speaker = x
       /\ turn'.says = turn.says /\ turn'.reply = t3.reply
  BY <1>1, <1>11, <1>13 DEF TurnStates
<1>15. AdminInv'
  BY <1>1, <1>2, <1>10, EvaluateStep, AdminFrame
<1>16. UNCHANGED <<byEndpoint, bySession, asked, confirmed, hidden, acted>>
  BY <1>1 DEF asvars
<1>17. QuestionsInv' /\ KnownSpeakerActs'
  BY <1>1, <1>2, <1>16, QuestionsFrame DEF KnownSpeakerActs
<1>18. /\ reviews' \in Seq(Lessons) /\ Len(reviews') <= ReviewLimit
       /\ OneLessonPerSession' /\ (setup.private => reviews' = <<>>)
  <2>0. /\ reviews \in Seq(Lessons) /\ Len(reviews) <= ReviewLimit
        /\ (setup.private => reviews = <<>>)
    BY <1>2 DEF TurnTypes, PrivacyModeHolds
  <2>1. CASE Teaches(p, x, t.quality)
    <3>1. x.who \in Persons /\ ~ setup.private
      BY <2>1 DEF Teaches, Persons
    <3>2. <<t.endpoint, t.session>> \in Endpoints \X Sessions
      BY <1>1, <1>2, <1>9 DEF OfNewestSession
    <3>3. reviews' = Learn(<<t.endpoint, t.session>>, x)
      BY <1>1, <2>1
    <3> QED BY <1>2, <2>0, <3>1, <3>2, <3>3, LearnStep
  <2>2. CASE ~ Teaches(p, x, t.quality)
    BY <1>1, <1>2, <2>0, <2>2 DEF OneLessonPerSession
  <2> QED BY <2>1, <2>2
<1>19. TurnTypes' /\ OfNewestSession' /\ AnswerFollowsPolicy'
  BY <1>1, <1>2, <1>14, <1>18 DEF TurnTypes, OfNewestSession, AnswerFollowsPolicy
<1>20. PrivacyModeHolds' /\ ForbiddenForgetsSpeaker'
  BY <1>1, <1>2, <1>6, <1>8, <1>14, <1>18
     DEF PrivacyModeHolds, ForbiddenForgetsSpeaker, Nameless, Identified
<1>21. ChildIsRefused'
  <2> SUFFICES ASSUME turn'.says = "weapon", turn'.reply = "chat",
                      setup'.mode[turn'.endpoint] = "child_safe"
                        \/ turn'.speaker.who = "kid"
               PROVE  setup'.override /\ turn'.speaker.who = "dan"
    BY DEF ChildIsRefused
  <2>1. ~ AudienceBlocks(t2, t2.intent, maintenance /\ v = "allowed", x)
    BY <1>13, <1>14
  <2>2. ChildListens(t2, x) /\ Restricted(t2.says, t2.intent)
    BY <1>1, <1>12, <1>14 DEF ChildListens, Restricted
  <2>3. setup.override /\ x.who = "dan"
    BY <2>1, <2>2 DEF AudienceBlocks, Overrides
  <2> QED BY <1>1, <1>14, <2>3
<1> QED BY <1>15, <1>16, <1>17, <1>18, <1>19, <1>20, <1>21
        DEF TurnInv, IdentityInv, IdentityPolicies, YesNow

-----------------------------------------------------------------------------

LEMMA TurnInitInv == TurnInit => TurnInv
<1> SUFFICES ASSUME TurnInit PROVE TurnInv
  OBVIOUS
<1>1. AdminInv /\ QuestionsInv
  BY AdminInitInv, QuestionsInitInv DEF TurnInit
<1>2. /\ setup \in Setups /\ turn = Idle /\ lookup = Unnamed("none")
      /\ sessionOf = [e \in Endpoints |-> 1] /\ reviews = <<>> /\ acted = {}
  BY DEF TurnInit, AssistantInit
<1>3. /\ turn.stage = "idle" /\ ~ turn.told /\ turn.speaker = Unnamed("none")
      /\ turn \in TurnStates
  <2>1. /\ "forbidden" \in Policies /\ "none" \in Replies
        /\ "none" \in Codes /\ "mumble" \in Says
    BY DEF Policies, Replies, Codes, Says
  <2> QED BY <1>2, <2>1 DEF Idle, TurnStates
<1>4. ~ Identified(turn.speaker)
  BY <1>3, UnnamedIs DEF Identified
<1>5. TurnTypes /\ OfNewestSession /\ AnswerFollowsPolicy
  <2>1. reviews \in Seq(Lessons) /\ Len(reviews) = 0
    BY <1>2
  <2> QED BY <1>2, <1>3, <2>1, ReviewAssumption
          DEF TurnTypes, OfNewestSession, AnswerFollowsPolicy
<1>6. /\ KnownSpeakerActs /\ PrivacyModeHolds /\ ForbiddenForgetsSpeaker
      /\ ChildIsRefused /\ OneLessonPerSession
  BY <1>2, <1>3, <1>4 DEF KnownSpeakerActs, PrivacyModeHolds,
     ForbiddenForgetsSpeaker, ChildIsRefused, OneLessonPerSession
<1> QED BY <1>1, <1>5, <1>6 DEF TurnInv, IdentityInv, IdentityPolicies

LEMMA TurnStep ==
  ASSUME TurnInv, [TurnNext]_vvars
  PROVE  TurnInv' /\ [YesNow]_asvars
<1>1. CASE UNCHANGED vvars
  <2>1. UNCHANGED <<setup, turn, lookup, sessionOf, reviews, avars, asvars>>
    BY <1>1 DEF vvars
  <2>2. UNCHANGED <<byEndpoint, bySession, asked, confirmed, hidden, acted>>
    BY <2>1 DEF asvars
  <2>3. QuestionsInv' /\ AdminInv'
    BY <2>1, <2>2, QuestionsFrame, AdminFrame DEF TurnInv
  <2>4. KnownSpeakerActs'
    BY <2>2 DEF TurnInv, IdentityInv, IdentityPolicies, KnownSpeakerActs
  <2>5. IdentityInv'
    BY <2>1, <2>4, IdentityFrame DEF TurnInv
  <2> QED BY <2>1, <2>3, <2>5 DEF TurnInv
<1>2. CASE \E e \in Endpoints, says \in Says, code \in Codes,
             q \in {"good", "poor", "silent"} : Begin(e, says, code, q)
  BY <1>2, BeginStep
<1>3. CASE SpeakerAnswers
  BY <1>3, SpeakerStep
<1>4. CASE Decide
  BY <1>4, DecideStep
<1>5. CASE Conclude
  BY <1>5, ConcludeStep
<1>6. CASE \E says \in Says, code \in Codes : Retry(says, code)
  BY <1>6, RetryStep
<1>7. CASE \E e \in Endpoints, s \in Sessions : QuestionExpires(e, s)
  BY <1>7, ExpiryStep
<1>8. CASE \E e \in Endpoints : Invoke(e)
  BY <1>8, InvokeStep
<1>9. CASE (\E on \in BOOLEAN : SetMaintenance(on)) \/ NewPasscode \/ LockoutEnds
  BY <1>9, MaintenanceStep
<1>10. CASE \E k \in 1 .. ReviewLimit : Review(k)
  BY <1>10, ReviewStep
<1> QED BY <1>1, <1>2, <1>3, <1>4, <1>5, <1>6, <1>7, <1>8, <1>9, <1>10
        DEF TurnNext

LEMMA TurnInvariant == TurnSpec => []TurnInv
<1>1. TurnInit => TurnInv
  BY TurnInitInv
<1>2. TurnInv /\ [TurnNext]_vvars => TurnInv'
  BY TurnStep
<1> QED BY <1>1, <1>2, PTL DEF TurnSpec

(* The admin file, the turn and its lookup stay what the operations write: *)
(* complete_turn, the review store and voice_admin_maintenance.py.         *)
THEOREM TurnStaysTyped == TurnSpec => []TurnTypeOK
<1>1. TurnInv => TurnTypeOK
  <2> SUFFICES ASSUME TurnInv PROVE TurnTypeOK
    OBVIOUS
  <2>1. AdminTypeOK /\ turn \in TurnStates
        /\ lookup \in Results \cup {Unnamed("none"), Unnamed("running")}
        /\ Len(reviews) <= ReviewLimit
    BY DEF TurnInv, AdminInv, IdentityInv, TurnTypes
  <2> QED BY <2>1 DEF TurnTypeOK, TurnStates
<1> QED BY <1>1, TurnInvariant, PTL

(* What is known of the speaker decides what complete_turn does and says:  *)
(* no action that needs the speaker without one, nobody named in private   *)
(* or under a policy that forbids it, no restricted answer to a child,     *)
(* whatever the second text, the late lookup or the answer change.         *)
THEOREM SpeakerPoliciesHold == TurnSpec => []IdentityPolicies
<1>1. TurnInv => IdentityPolicies
  BY DEF TurnInv, IdentityInv
<1> QED BY <1>1, TurnInvariant, PTL

(* After any turns, calls and expiries: no more wrong codes than allowed,  *)
(* one lesson of a speaker and a session to review, and the two maps of    *)
(* pending questions agree.                                                *)
THEOREM TurnsLeaveAgreement == TurnSpec => []WhatTurnsLeaveBehind
<1>1. TurnInv => WhatTurnsLeaveBehind
  <2> SUFFICES ASSUME TurnInv PROVE WhatTurnsLeaveBehind
    OBVIOUS
  <2>1. /\ MaxFailed \in Nat \ {0} /\ admin.failed \in 0 .. MaxFailed
        /\ guesses = admin.failed
        /\ (admin.lock = "open" <=> admin.failed < MaxFailed)
    BY MaxFailedAssumption DEF TurnInv, AdminInv, AdminTypeOK
  <2>2. GuessesAreBounded
    BY <2>1 DEF GuessesAreBounded
  <2> QED BY <2>2 DEF TurnInv, IdentityInv, QuestionsInv, WhatTurnsLeaveBehind
<1> QED BY <1>1, TurnInvariant, PTL

(* _pending_followup and _apply_followup_transition: a "yes" of a turn     *)
(* confirms what its endpoint was asked last, or a question over which the *)
(* intent API has asked another.                                           *)
THEOREM YesIsForTheLastQuestion == TurnSpec => YesConfirmsTheLastQuestion
<1>1. TurnInv /\ [TurnNext]_vvars
        => [confirmed' # NoQuestion /\ confirmed' # confirmed
              => asked[confirmed'.endpoint] = confirmed' \/ confirmed' \in hidden]_asvars
  BY TurnStep DEF YesNow, YesIsLast
<1> QED BY <1>1, TurnInvariant, PTL DEF TurnSpec, YesConfirmsTheLastQuestion

-----------------------------------------------------------------------------
(* AiNode *)

Unsent(a) == \A u \in Urls : sent[a][u] = 0

(* Where a text is sent: to Core's node, or the configured one.            *)
TargetsAreNamed ==
  IF asking.at = "sending"
  THEN /\ asking.target.url \in Urls
       /\ \/ asking.target = [url |-> CoreUrl, source |-> "core"]
          \/ /\ asking.target = [url |-> configured, source |-> "static"]
             /\ configured # NoUrl
  ELSE asking.target = Nowhere

(* Before the assistant has failed at Core's node nothing was sent by it;  *)
(* before the classifier, nothing at all.                                  *)
NotYetSent ==
  /\ asking.at # "idle" /\ asking.who = "classifier"
       => Unsent("classifier") /\ Unsent("assistant")
  /\ asking.at = "resolving" => Unsent("assistant")
  /\ asking.at = "sending" /\ asking.who = "assistant" =>
       /\ sent["assistant"][asking.target.url] = 0
       /\ asking.target.source = "core" => Unsent("assistant")

AiInv == AiTypeOK /\ TargetsAreNamed /\ NotYetSent /\ AskedOnceEach

AiTargets == [url : Urls \cup {NoUrl}, source : {"none", "static", "core"}]
AiHealths ==
  [error : ErrorCode \cup {"fine", "missing_ai_node_base_url"},
   url : Urls \cup {NoUrl}, source : {"none", "static", "core"}, unresolved : BOOLEAN]

LEMMA AiTypes ==
  AiTypeOK <=>
    /\ configured \in Urls \cup {NoUrl} /\ trusted \in BOOLEAN
    /\ aiTurns \in 0 .. MaxAiTurns
    /\ asking \in [at : {"idle", "resolving", "sending"}, who : Adapters, target : AiTargets]
    /\ sent \in [Adapters -> [Urls -> 0 .. 2]]
    /\ aiReply \in Adapters \cup {"none", "echo"}
    /\ health \in [Adapters -> AiHealths]
BY DEF AiTypeOK, AiTargets, AiHealths

LEMMA AiInitInv == AiInit => AiInv
<1> SUFFICES ASSUME AiInit PROVE AiInv
  OBVIOUS
<1>1. MaxAiTurns \in Nat
  BY AiNodeAssumption
<1>2. /\ configured \in Urls \cup {NoUrl} /\ trusted \in BOOLEAN /\ aiTurns = 0
      /\ asking = [at |-> "idle", who |-> "assistant", target |-> Nowhere]
      /\ sent = [a \in Adapters |-> [u \in Urls |-> 0]] /\ aiReply = "none"
      /\ health = [a \in Adapters |->
           [error |-> "fine", url |-> NoUrl, source |-> "none", unresolved |-> FALSE]]
  BY DEF AiInit, Urls
<1>3. Nowhere \in AiTargets
  BY DEF Nowhere, AiTargets
<1>4. AiTypeOK
  <2>1. sent \in [Adapters -> [Urls -> 0 .. 2]]
    BY <1>2
  <2>2. health \in [Adapters -> AiHealths]
    BY <1>2 DEF AiHealths
  <2>3. asking \in [at : {"idle", "resolving", "sending"}, who : Adapters,
                    target : AiTargets]
    BY <1>2, <1>3 DEF Adapters
  <2> QED BY <1>1, <1>2, <2>1, <2>2, <2>3, AiTypes
          DEF AiTypeOK, AiTargets, AiHealths, Adapters
<1>5. TargetsAreNamed /\ NotYetSent
  BY <1>2 DEF TargetsAreNamed, NotYetSent
<1>6. AskedOnceEach
  BY <1>2 DEF AskedOnceEach
<1> QED BY <1>4, <1>5, <1>6 DEF AiInv

(* A text that neither adapter could settle goes to the assistant, or is   *)
(* echoed.                                                                 *)
LEMMA DeclinedIs ==
  ASSUME AiTypeOK, Declined
  PROVE  /\ asking' \in [at : {"idle", "resolving", "sending"}, who : Adapters,
                         target : AiTargets]
         /\ asking'.target = Nowhere /\ asking'.who = "assistant"
         /\ aiReply' \in Adapters \cup {"none", "echo"}
         /\ asking.who = "classifier" => asking'.at = "resolving"
         /\ asking.who # "classifier" => asking'.at = "idle" /\ aiReply' = "echo"
<1>1. Nowhere \in AiTargets
  BY DEF Nowhere, AiTargets
<1>2. aiReply \in Adapters \cup {"none", "echo"}
  BY AiTypes
<1> QED BY <1>1, <1>2 DEF Declined, Adapters

LEMMA AiAsks ==
  ASSUME AiInv, AskAiNode PROVE AiInv'
<1> PICK who \in Adapters :
      /\ aiTurns < MaxAiTurns /\ aiTurns' = aiTurns + 1
      /\ asking' = [at |-> "resolving", who |-> who, target |-> Nowhere]
      /\ sent' = [a \in Adapters |-> [u \in Urls |-> 0]] /\ aiReply' = "none"
      /\ UNCHANGED <<configured, trusted, health>>
  BY DEF AskAiNode
<1>0. AiTypeOK /\ MaxAiTurns \in Nat
  BY AiNodeAssumption DEF AiInv
<1>1. Nowhere \in AiTargets
  BY DEF Nowhere, AiTargets
<1>2. AiTypeOK'
  <2>1. sent' \in [Adapters -> [Urls -> 0 .. 2]]
    OBVIOUS
  <2>2. asking' \in [at : {"idle", "resolving", "sending"}, who : Adapters,
                     target : AiTargets]
    BY <1>1
  <2>3. aiTurns' \in 0 .. MaxAiTurns
    BY <1>0, AiTypes
  <2> QED BY <1>0, <2>1, <2>2, <2>3, AiTypes DEF AiTypeOK, AiTargets
<1>3. \A a \in Adapters : \A u \in Urls : sent'[a][u] = 0
  OBVIOUS
<1>4. "assistant" \in Adapters /\ "classifier" \in Adapters
  BY DEF Adapters
<1>5. TargetsAreNamed' /\ NotYetSent'
  BY <1>3, <1>4 DEF TargetsAreNamed, NotYetSent, Unsent
<1>6. AskedOnceEach'
  BY <1>3 DEF AskedOnceEach
<1> QED BY <1>2, <1>5, <1>6 DEF AiInv

LEMMA AiResolves ==
  ASSUME AiInv, ResolveTarget PROVE AiInv'
<1> PICK found \in BOOLEAN :
      LET target == IF found THEN [url |-> CoreUrl, source |-> "core"] ELSE StaticTarget IN
      /\ asking.at = "resolving"
      /\ health' = [health EXCEPT
           ![asking.who].unresolved = @ \/ ~ found,
           ![asking.who].error = IF target = Nowhere THEN "missing_ai_node_base_url" ELSE @]
      /\ IF target = Nowhere THEN Declined
         ELSE asking' = [asking EXCEPT !.at = "sending", !.target = target] /\ UNCHANGED aiReply
      /\ UNCHANGED <<configured, trusted, aiTurns, sent>>
  BY DEF ResolveTarget
<1> DEFINE target == IF found THEN [url |-> CoreUrl, source |-> "core"] ELSE StaticTarget
           who == asking.who
<1>0. /\ AiTypeOK /\ TargetsAreNamed /\ NotYetSent /\ AskedOnceEach
      /\ configured \in Urls \cup {NoUrl} /\ who \in Adapters
      /\ health \in [Adapters -> AiHealths]
      /\ asking \in [at : {"idle", "resolving", "sending"}, who : Adapters, target : AiTargets]
  BY AiTypes DEF AiInv
<1>1. /\ target = Nowhere => configured = NoUrl
      /\ target # Nowhere =>
           \/ target = [url |-> CoreUrl, source |-> "core"]
           \/ target = [url |-> configured, source |-> "static"] /\ configured # NoUrl
  BY DEF StaticTarget, Nowhere
<1>2. target \in AiTargets /\ (target # Nowhere => target.url \in Urls)
  BY <1>0, <1>1 DEF AiTargets, Urls, Nowhere
<1> DEFINE h == [health[who] EXCEPT !.unresolved = @ \/ ~ found,
                   !.error = IF target = Nowhere THEN "missing_ai_node_base_url" ELSE @]
<1>3. /\ health' = [health EXCEPT ![who] = h]
      /\ IF target = Nowhere THEN Declined
         ELSE asking' = [asking EXCEPT !.at = "sending", !.target = target] /\ UNCHANGED aiReply
  BY <1>0
<1>4. h \in AiHealths /\ (target = Nowhere => h.error # "fine")
  <2>1. health[who] \in AiHealths
    BY <1>0
  <2> QED BY <2>1 DEF AiHealths
<1> HIDE DEF target, h
<1>5. health' \in [Adapters -> AiHealths] /\ health'[who] = h
  BY <1>0, <1>3, <1>4
<1>6. CASE target = Nowhere
  <2>1. /\ asking' \in [at : {"idle", "resolving", "sending"}, who : Adapters,
                        target : AiTargets]
        /\ asking'.target = Nowhere /\ asking'.who = "assistant"
        /\ aiReply' \in Adapters \cup {"none", "echo"}
        /\ asking.who = "classifier" => asking'.at = "resolving"
        /\ asking.who # "classifier" => asking'.at = "idle" /\ aiReply' = "echo"
    BY <1>0, <1>3, <1>6, DeclinedIs
  <2>2. AiTypeOK'
    BY <1>0, <1>5, <2>1, AiTypes DEF AiTypeOK, AiTargets, AiHealths
  <2>3. asking'.at # "sending"
    BY <2>1
  <2>4. TargetsAreNamed' /\ NotYetSent'
    BY <1>0, <2>1, <2>3 DEF TargetsAreNamed, NotYetSent, Unsent
  <2>5. AskedOnceEach'
    <3>1. \A a \in Adapters, u \in Urls : sent'[a][u] <= 1
      BY <1>0 DEF AskedOnceEach
    <3>2. configured' = NoUrl
      BY <1>1, <1>6
    <3>3. who = "assistant" \/ who = "classifier"
      BY <1>0 DEF Adapters
    <3>4. aiReply' = "echo" /\ asking'.at = "idle" => health'["assistant"].error # "fine"
      BY <1>4, <1>5, <1>6, <2>1, <3>3
    <3>5. asking'.at = "idle" => aiReply' = "echo"
      BY <2>1
    <3> QED BY <3>1, <3>2, <3>4, <3>5 DEF AskedOnceEach
  <2> QED BY <2>2, <2>4, <2>5 DEF AiInv
<1>7. CASE target # Nowhere
  <2>1. /\ asking' \in [at : {"idle", "resolving", "sending"}, who : Adapters,
                        target : AiTargets]
        /\ asking'.target = target /\ asking'.who = who /\ asking'.at = "sending"
        /\ aiReply' = aiReply
    BY <1>0, <1>2, <1>3, <1>7
  <2>2. AiTypeOK'
    BY <1>0, <1>5, <2>1, AiTypes DEF AiTypeOK, AiTargets, AiHealths
  <2>3. TargetsAreNamed'
    BY <1>1, <1>2, <1>7, <2>1 DEF TargetsAreNamed
  <2>4. NotYetSent'
    BY <1>0, <1>2, <1>7, <2>1 DEF NotYetSent, Unsent
  <2>5. AskedOnceEach'
    BY <1>0, <2>1 DEF AskedOnceEach
  <2> QED BY <2>2, <2>3, <2>4, <2>5 DEF AiInv
<1> QED BY <1>6, <1>7

LEMMA AiExecutes ==
  ASSUME AiInv, Execute PROVE AiInv'
<1> DEFINE who == asking.who
           t == asking.target
<1>0. /\ AiTypeOK /\ TargetsAreNamed /\ NotYetSent /\ AskedOnceEach
      /\ configured \in Urls \cup {NoUrl} /\ who \in Adapters
      /\ sent \in [Adapters -> [Urls -> 0 .. 2]]
      /\ health \in [Adapters -> AiHealths]
      /\ asking \in [at : {"idle", "resolving", "sending"}, who : Adapters, target : AiTargets]
      /\ asking.at = "sending" /\ t \in AiTargets /\ aiReply \in Adapters \cup {"none", "echo"}
  BY AiTypes DEF AiInv, Execute
<1>1. /\ sent' = [sent EXCEPT ![who][t.url] = @ + 1]
      /\ UNCHANGED <<configured, trusted, aiTurns>>
  BY DEF Execute
<1>2. /\ t.url \in Urls
      /\ \/ t.source = "core" /\ t.url = CoreUrl
         \/ t.source = "static" /\ t.url = configured /\ configured # NoUrl
  BY <1>0 DEF TargetsAreNamed
<1>3. sent[who][t.url] = 0
  BY <1>0, <1>2 DEF NotYetSent, Unsent, Adapters
<1>4. /\ sent' \in [Adapters -> [Urls -> 0 .. 2]]
      /\ \A a \in Adapters, u \in Urls :
           sent'[a][u] = IF a = who /\ u = t.url THEN 1 ELSE sent[a][u]
  BY <1>0, <1>1, <1>2, <1>3
<1>5. \A a \in Adapters, u \in Urls : sent'[a][u] <= 1
  BY <1>0, <1>4 DEF AskedOnceEach
<1>6. who = "classifier" \/ who = "assistant"
  BY <1>0 DEF Adapters
<1>7. /\ "assistant" \in Adapters
      /\ who = "classifier" => \A u \in Urls : sent'["assistant"][u] = 0
  <2>1. "assistant" \in Adapters
    BY DEF Adapters
  <2> QED BY <1>0, <1>4, <2>1 DEF NotYetSent, Unsent
<1>8. CASE Succeeds
  <2> PICK settles \in BOOLEAN :
        /\ who = "assistant" => settles
        /\ health' = [health EXCEPT ![who] =
             [error |-> "fine", url |-> t.url, source |-> t.source,
              unresolved |-> t.source # "core" /\ @.unresolved]]
        /\ IF settles
           THEN /\ asking' = [at |-> "idle", who |-> "assistant", target |-> Nowhere]
                /\ aiReply' = who
           ELSE Declined
    BY <1>8 DEF Succeeds
  <2> DEFINE h == [error |-> "fine", url |-> t.url, source |-> t.source,
                   unresolved |-> t.source # "core" /\ health[who].unresolved]
  <2>1. health' = [health EXCEPT ![who] = h]
    OBVIOUS
  <2>2. h \in AiHealths /\ h.error = "fine" /\ h.url = t.url /\ h.source = t.source
        /\ (h.unresolved => t.source # "core")
    <3>1. h.unresolved \in BOOLEAN
      OBVIOUS
    <3> QED BY <1>0, <1>2, <3>1 DEF AiHealths, AiTargets
  <2> HIDE DEF h
  <2>3. health' \in [Adapters -> AiHealths] /\ health'[who] = h
    BY <1>0, <2>1, <2>2
  <2>4. CASE settles
    <3>1. /\ asking'.at = "idle" /\ asking'.target = Nowhere /\ aiReply' = who
          /\ asking' \in [at : {"idle", "resolving", "sending"}, who : Adapters,
                          target : AiTargets]
      BY <1>7, <2>4 DEF Nowhere, AiTargets
    <3>2. AiTypeOK'
      BY <1>0, <1>1, <1>4, <2>3, <3>1, AiTypes DEF AiTypeOK, AiTargets, AiHealths
    <3>3. TargetsAreNamed' /\ NotYetSent'
      BY <3>1 DEF TargetsAreNamed, NotYetSent
    <3>4. AskedOnceEach'
      <4>1. aiReply' # "echo"
        BY <1>6, <3>1
      <4>2. aiReply' = "assistant" =>
              /\ health'["assistant"].error = "fine"
              /\ sent'["assistant"][health'["assistant"].url] = 1
              /\ health'["assistant"].unresolved
                   => health'["assistant"].source = "static"
        BY <1>2, <1>4, <1>7, <2>2, <2>3, <3>1
      <4> QED BY <1>5, <4>1, <4>2 DEF AskedOnceEach
    <3> QED BY <3>2, <3>3, <3>4 DEF AiInv
  <2>5. CASE ~ settles
    <3>1. /\ asking' \in [at : {"idle", "resolving", "sending"}, who : Adapters,
                          target : AiTargets]
          /\ asking'.target = Nowhere /\ asking'.who = "assistant"
          /\ aiReply' \in Adapters \cup {"none", "echo"}
          /\ asking'.at = "resolving" /\ who = "classifier"
      BY <1>0, <1>6, <2>5, DeclinedIs
    <3>2. AiTypeOK'
      BY <1>0, <1>1, <1>4, <2>3, <3>1, AiTypes DEF AiTypeOK, AiTargets, AiHealths
    <3>3. TargetsAreNamed'
      BY <3>1 DEF TargetsAreNamed
    <3>4. NotYetSent'
      BY <1>7, <3>1 DEF NotYetSent, Unsent
    <3>5. AskedOnceEach'
      BY <1>5, <3>1 DEF AskedOnceEach
    <3> QED BY <3>2, <3>3, <3>4, <3>5 DEF AiInv
  <2> QED BY <2>4, <2>5
<1>9. CASE Fails
  <2>1. CASE Retries
    <3>1. /\ who = "assistant" /\ t.source = "core" /\ configured \in Urls
          /\ configured # t.url /\ configured # NoUrl
          /\ asking' = [asking EXCEPT !.target = StaticTarget]
          /\ UNCHANGED <<aiReply, health>>
      BY <1>0, <1>9, <2>1 DEF Fails, Retries
    <3>2. /\ StaticTarget = [url |-> configured, source |-> "static"]
          /\ StaticTarget \in AiTargets
      BY <3>1 DEF StaticTarget, AiTargets
    <3>3. /\ asking' \in [at : {"idle", "resolving", "sending"}, who : Adapters,
                          target : AiTargets]
          /\ asking'.at = "sending" /\ asking'.who = "assistant"
          /\ asking'.target = [url |-> configured, source |-> "static"]
      BY <1>0, <3>1, <3>2
    <3>4. AiTypeOK'
      BY <1>0, <1>1, <1>4, <3>1, <3>3, AiTypes DEF AiTypeOK, AiTargets, AiHealths
    <3>5. TargetsAreNamed'
      BY <1>1, <3>1, <3>3 DEF TargetsAreNamed
    <3>6. NotYetSent'
      <4>1. sent["assistant"][configured] = 0
        BY <1>0, <3>1 DEF NotYetSent, Unsent
      <4>2. sent'["assistant"][configured] = 0
        BY <1>4, <1>7, <3>1, <4>1
      <4> QED BY <3>3, <4>2 DEF NotYetSent
    <3>7. AskedOnceEach'
      BY <1>5, <3>3 DEF AskedOnceEach
    <3> QED BY <3>4, <3>5, <3>6, <3>7 DEF AiInv
  <2>2. CASE ~ Retries
    <3> PICK code \in ErrorCode :
          health' = [health EXCEPT ![who].error = code] /\ Declined
      BY <1>9, <2>2 DEF Fails
    <3> DEFINE h == [health[who] EXCEPT !.error = code]
    <3>1. health' = [health EXCEPT ![who] = h]
      OBVIOUS
    <3>2. h \in AiHealths /\ h.error # "fine"
      <4>1. health[who] \in AiHealths
        BY <1>0
      <4> QED BY <4>1 DEF AiHealths, ErrorCode
    <3> HIDE DEF h
    <3>3. health' \in [Adapters -> AiHealths] /\ health'[who] = h
      BY <1>0, <3>1, <3>2
    <3>4. /\ asking' \in [at : {"idle", "resolving", "sending"}, who : Adapters,
                          target : AiTargets]
          /\ asking'.target = Nowhere /\ asking'.who = "assistant"
          /\ aiReply' \in Adapters \cup {"none", "echo"}
          /\ who = "classifier" => asking'.at = "resolving"
          /\ who # "classifier" => asking'.at = "idle" /\ aiReply' = "echo"
      BY <1>0, DeclinedIs
    <3>5. AiTypeOK'
      BY <1>0, <1>1, <1>4, <3>3, <3>4, AiTypes DEF AiTypeOK, AiTargets, AiHealths
    <3>6. TargetsAreNamed'
      BY <3>4 DEF TargetsAreNamed
    <3>7. NotYetSent'
      BY <1>7, <3>4 DEF NotYetSent, Unsent
    <3>8. AskedOnceEach'
      <4>1. CASE who = "classifier"
        BY <1>5, <3>4, <4>1 DEF AskedOnceEach
      <4>2. CASE who = "assistant"
        <5>1. configured # NoUrl => configured = t.url
          BY <1>2, <2>2, <4>2 DEF Retries
        <5>2. configured # NoUrl => sent'["assistant"][configured] = 1
          BY <1>2, <1>4, <1>7, <4>2, <5>1
        <5>3. asking'.at = "idle" /\ aiReply' = "echo"
              /\ health'["assistant"].error # "fine"
          BY <3>2, <3>3, <3>4, <4>2
        <5> QED BY <1>1, <1>5, <5>2, <5>3 DEF AskedOnceEach
      <4> QED BY <1>6, <4>1, <4>2
    <3> QED BY <3>5, <3>6, <3>7, <3>8 DEF AiInv
  <2> QED BY <2>1, <2>2
<1> QED BY <1>8, <1>9 DEF Execute

LEMMA AiStep ==
  ASSUME AiInv, AiNext \/ UNCHANGED ivars PROVE AiInv'
<1>1. CASE TrustTurns \/ UNCHANGED ivars
  <2>1. /\ UNCHANGED <<configured, aiTurns, asking, sent, aiReply, health>>
        /\ trusted' \in BOOLEAN
    BY <1>1 DEF TrustTurns, ivars, AiInv, AiTypeOK
  <2> QED BY <2>1 DEF AiInv, AiTypeOK, TargetsAreNamed, NotYetSent, Unsent,
                      AskedOnceEach, Nowhere
<1> QED BY <1>1, AiAsks, AiResolves, AiExecutes DEF AiNext

-----------------------------------------------------------------------------
(* SpeechToText *)

(* What each engine was given of the recording, by where the turn is.      *)
GivenAll ==
  /\ at # "idle" =>
       \E n \in 1 .. MaxFrames : take \in [1 .. n -> BOOLEAN]
  /\ at \in {"idle", "recorded"} => heard["primary"] = <<0, 0>>
  /\ at \in {"primary", "transcribed", "unsatisfied", "fallback", "settled"}
       => heard["primary"] = Trim(take)
  /\ at \in {"idle", "recorded", "primary", "transcribed", "unsatisfied"}
       => heard["fallback"] = <<0, 0>>
  /\ at = "fallback" => heard["fallback"] = Trim(take)
  /\ at = "settled" => heard["fallback"] \in {<<0, 0>>, Trim(take)}

Profiles == [second : BOOLEAN, when : {{}, Reasons},
             engine : {"in_process", "service", "openai"},
             leading : 0 .. 1, trailing : 0 .. 1, least : {0, 3}]

SttTypes ==
  /\ profile \in Profiles
  /\ model \in [Engines -> BOOLEAN] /\ loads \in [Engines -> 0 .. MaxLoads]
  /\ heard \in [Engines -> (0 .. MaxFrames) \X (0 .. MaxFrames)]

SttInv == SttTypeOK /\ SttTypes /\ GivenAll /\ FailureIsNotTheLastWord

LEMMA MinIs ==
  ASSUME NEW S \in SUBSET Nat, S # {}
  PROVE  /\ Min(S) \in S /\ \A x \in S : Min(S) <= x
<1> DEFINE R == {p \in Nat \X Nat : p[1] < p[2]}
<1>1. IsWellFoundedOn(R, Nat)
  BY NatLessThanWellFounded DEF OpToRel
<1>2. \A x, y \in Nat : <<y, x>> \in R <=> y < x
  OBVIOUS
<1> HIDE DEF R
<1>3. PICK x \in S : \A y \in S : <<y, x>> \notin R
  BY <1>1, WFMin
<1>4. ASSUME NEW y \in S PROVE x <= y
  <2>1. x \in Nat /\ y \in Nat
    OBVIOUS
  <2>2. ~ y < x
    BY <1>2, <1>3, <2>1
  <2> QED BY <2>1, <2>2
<1> QED BY <1>4 DEF Min

LEMMA MaxIs ==
  ASSUME NEW n \in Nat, NEW S \in SUBSET (1 .. n), S # {}
  PROVE  /\ Max(S) \in S /\ \A x \in S : Max(S) >= x
<1> DEFINE T == {n - x : x \in S}
<1>1. T \in SUBSET Nat /\ T # {}
  <2>1. \A x \in S : x \in Int /\ x <= n
    OBVIOUS
  <2>2. \A x \in S : n - x \in Nat
    BY <2>1
  <2>3. PICK x \in S : TRUE
    OBVIOUS
  <2>4. n - x \in T
    BY <2>3
  <2> QED BY <2>2, <2>4
<1>2. Min(T) \in T /\ \A y \in T : Min(T) <= y
  BY <1>1, MinIs
<1>3. PICK m \in S : Min(T) = n - m
  BY <1>2
<1>4. \A x \in S : m >= x
  <2> SUFFICES ASSUME NEW x \in S PROVE m >= x
    OBVIOUS
  <2>1. n - m <= n - x
    BY <1>2, <1>3
  <2> QED BY <2>1
<1> QED BY <1>4 DEF Max

(* What is left of a recording holds every loud frame, with its padding or *)
(* up to the ends of the recording.                                        *)
LEMMA TrimCovers ==
  ASSUME profile \in Profiles, NEW n \in Nat \ {0}, NEW frames \in [1 .. n -> BOOLEAN]
  PROVE  /\ Trim(frames) \in (1 .. n) \X (1 .. n)
         /\ \A i \in Loud(frames) :
              /\ Trim(frames)[1] <= IF i > profile.leading THEN i - profile.leading ELSE 1
              /\ Trim(frames)[2] >= Least(n, i + profile.trailing)
<1>1. Len(frames) = n
  BY LenProperties
<1> DEFINE loud == Loud(frames)
<1>2. loud \in SUBSET (1 .. n)
  BY <1>1 DEF Loud
<1>3. CASE loud = {}
  BY <1>1, <1>3 DEF Trim
<1>4. CASE loud # {}
  <2>1. /\ Min(loud) \in 1 .. n /\ Max(loud) \in 1 .. n
        /\ \A i \in loud : Min(loud) <= i /\ i <= Max(loud) /\ i \in 1 .. n
    <3>1. loud \in SUBSET Nat
      BY <1>2
    <3>2. Min(loud) \in loud /\ \A i \in loud : Min(loud) <= i
      BY <3>1, <1>4, MinIs
    <3>3. Max(loud) \in loud /\ \A i \in loud : Max(loud) >= i
      BY <1>2, <1>4, MaxIs
    <3> HIDE DEF loud
    <3> QED BY <1>2, <3>2, <3>3
  <2> DEFINE a == Min(loud)
             b == Max(loud)
             l == profile.leading
             t == profile.trailing
             m == profile.least
             start == Minus(a, l + 1)
             end == Least(n, b + t)
             missing == Minus(m, end - start)
             h == missing \div 2
             start2 == Minus(start, h)
             end2 == Least(n, end + missing - h)
             start3 == IF end2 - start2 < m THEN Minus(end2, m) ELSE start2
  <2>2. Trim(frames) = IF missing = 0 THEN <<start + 1, end>> ELSE <<start3 + 1, end2>>
    BY <1>1, <1>4 DEF Trim
  <2>3. l \in 0 .. 1 /\ t \in 0 .. 1 /\ m \in {0, 3}
    BY DEF Profiles
  <2> HIDE DEF l, t, m
  <2>4. start \in Nat /\ start <= a - 1 /\ (start = 0 \/ start = a - l - 1)
    BY <2>1, <2>3 DEF Minus
  <2>5. end \in Nat /\ b <= end /\ end <= n /\ (end = n \/ end = b + t)
    BY <2>1, <2>3 DEF Least
  <2> HIDE DEF start, end, a, b
  <2>6. missing \in Nat
    BY <2>3, <2>4, <2>5, <2>1 DEF Minus, a, b
  <2> HIDE DEF missing
  <2>7. h \in Nat /\ h <= missing
    BY <2>6
  <2> HIDE DEF h
  <2>8. start2 \in Nat /\ start2 <= start
    BY <2>4, <2>7 DEF Minus
  <2>9. end2 \in Nat /\ end <= end2 /\ end2 <= n
    BY <2>5, <2>6, <2>7 DEF Least
  <2> HIDE DEF start2, end2
  <2>10. start3 \in Nat /\ start3 <= start
    BY <2>3, <2>4, <2>8, <2>9 DEF Minus
  <2> HIDE DEF start3
  <2>11. PICK p, q \in Nat : /\ Trim(frames) = <<p + 1, q>>
                             /\ p <= start /\ end <= q /\ q <= n
    BY <2>2, <2>4, <2>5, <2>9, <2>10
  <2>12. p + 1 \in 1 .. n /\ q \in 1 .. n
    BY <2>1, <2>4, <2>5, <2>11 DEF a, b
  <2>13. ASSUME NEW i \in loud
         PROVE  /\ p + 1 <= IF i > l THEN i - l ELSE 1
                /\ q >= Least(n, i + t)
    <3>1. a <= i /\ i <= b /\ i \in 1 .. n /\ a \in 1 .. n /\ b \in 1 .. n
      BY <2>1 DEF a, b
    <3>2. p + 1 <= IF i > l THEN i - l ELSE 1
      BY <2>3, <2>4, <2>11, <3>1
    <3>3. q >= Least(n, i + t)
      BY <2>3, <2>5, <2>11, <3>1 DEF Least
    <3> QED BY <3>2, <3>3
  <2> QED BY <2>11, <2>12, <2>13 DEF l, t
<1> QED BY <1>3, <1>4

SttPlaces ==
  {"idle", "recorded", "transcribed", "unsatisfied", "settled"} \cup Engines

Given == (0 .. MaxFrames) \X (0 .. MaxFrames)

LEMMA SttInitInv == SttInit => SttInv
<1> SUFFICES ASSUME SttInit PROVE SttInv
  OBVIOUS
<1>0. MaxFrames \in Nat /\ MaxLoads \in Nat
  BY SpeechToTextAssumption
<1>1. /\ profile \in Profiles /\ at = "idle" /\ heard = [e \in Engines |-> <<0, 0>>]
      /\ transcript = NoTranscript /\ model = [e \in Engines |-> FALSE]
      /\ loads = [e \in Engines |-> 0] /\ preloading = "due"
  BY DEF SttInit, Profiles
<1>2. "primary" \in Engines /\ "fallback" \in Engines /\ NoTranscript \in Transcript
  BY DEF Engines, NoTranscript, Transcript
<1>3. SttTypes
  BY <1>0, <1>1 DEF SttTypes
<1>4. SttTypeOK
  BY <1>0, <1>1, <1>2 DEF SttTypeOK
<1>5. GivenAll /\ FailureIsNotTheLastWord
  BY <1>1, <1>2 DEF GivenAll, FailureIsNotTheLastWord
<1> QED BY <1>3, <1>4, <1>5 DEF SttInv

(* The recording of a turn, and what its engines are given of it.          *)
LEMMA TakeIs ==
  ASSUME SttInv, at # "idle"
  PROVE  /\ Trim(take) \in Given /\ Trim(take) # <<0, 0>>
         /\ \A i \in Loud(take) :
              /\ Trim(take)[1] <= IF i > profile.leading THEN i - profile.leading ELSE 1
              /\ Trim(take)[2] >= Least(Len(take), i + profile.trailing)
<1>0. MaxFrames \in Nat
  BY SpeechToTextAssumption
<1>1. PICK n \in 1 .. MaxFrames : take \in [1 .. n -> BOOLEAN]
  BY DEF SttInv, GivenAll
<1>2. n \in Nat \ {0} /\ n <= MaxFrames /\ Len(take) = n
  BY <1>0, <1>1, LenProperties
<1>3. profile \in Profiles
  BY DEF SttInv, SttTypes
<1>4. /\ Trim(take) \in (1 .. n) \X (1 .. n)
      /\ \A i \in Loud(take) :
           /\ Trim(take)[1] <= IF i > profile.leading THEN i - profile.leading ELSE 1
           /\ Trim(take)[2] >= Least(n, i + profile.trailing)
  BY <1>1, <1>2, <1>3, TrimCovers
<1>5. \A p \in (1 .. n) \X (1 .. n) : p \in Given /\ p # <<0, 0>>
  <2>1. \A i \in 1 .. n : i \in 0 .. MaxFrames /\ i # 0
    BY <1>0, <1>2
  <2> QED BY <2>1 DEF Given
<1> QED BY <1>2, <1>4, <1>5

LEMMA TrimStays ==
  ASSUME profile' = profile, take' = take
  PROVE  Trim(take)' = Trim(take)
BY DEF Trim

(* Every step but the two that change the recording and what is given.     *)
LEMMA SttMoves ==
  ASSUME SttInv, UNCHANGED <<profile, take, heard>>,
         at' \in SttPlaces, transcript' \in Transcript, preloading' \in {"due", "done"},
         model' \in [Engines -> BOOLEAN], loads' \in [Engines -> 0 .. MaxLoads],
         \/ at' = at
         \/ at \in {"primary"} /\ at' = "transcribed"
         \/ at = "fallback" /\ at' = "settled"
         \/ at = "transcribed" /\ at' = "unsatisfied"
         \/ at = "transcribed" /\ at' = "settled" /\ ~ (transcript'.error /\ profile.second),
         at' = at => transcript' = transcript
  PROVE  SttInv'
<1>0. MaxLoads \in Nat
  BY SpeechToTextAssumption
<1>1. SttTypes' /\ SttTypeOK'
  <2>1. \A e \in Engines : loads'[e] <= MaxLoads
    BY <1>0
  <2> QED BY <2>1 DEF SttInv, SttTypes, SttTypeOK, SttPlaces
<1>2. GivenAll'
  <2>1. Trim(take)' = Trim(take)
    BY TrimStays
  <2>2. GivenAll
    BY DEF SttInv
  <2> QED BY <2>1, <2>2 DEF GivenAll
<1>3. FailureIsNotTheLastWord'
  <2>1. at = "fallback" => heard["fallback"] # <<0, 0>>
    BY TakeIs DEF SttInv, GivenAll
  <2> QED BY <2>1 DEF SttInv, FailureIsNotTheLastWord
<1> QED BY <1>1, <1>2, <1>3 DEF SttInv

LEMMA SttRecords == SttInv /\ Record => SttInv'
<1> SUFFICES ASSUME SttInv, Record PROVE SttInv'
  OBVIOUS
<1>1. PICK n \in 1 .. MaxFrames : \E frames \in [1 .. n -> BOOLEAN] :
        /\ at = "idle" /\ take' = frames /\ at' = "recorded"
        /\ UNCHANGED <<profile, heard, transcript, model, loads, preloading>>
  BY DEF Record
<1>2. SttTypes' /\ SttTypeOK'
  BY <1>1 DEF SttInv, SttTypes, SttTypeOK
<1>3. GivenAll'
  <2>1. \E k \in 1 .. MaxFrames : take' \in [1 .. k -> BOOLEAN]
    BY <1>1
  <2> QED BY <1>1, <2>1 DEF SttInv, GivenAll
<1>4. FailureIsNotTheLastWord'
  BY <1>1 DEF FailureIsNotTheLastWord
<1> QED BY <1>2, <1>3, <1>4 DEF SttInv

LEMMA SttHands == SttInv /\ Hand => SttInv'
<1> SUFFICES ASSUME SttInv, Hand PROVE SttInv'
  OBVIOUS
<1>1. /\ at \in {"recorded", "unsatisfied"} /\ at' = Engine
      /\ heard' = [heard EXCEPT ![Engine] = Trim(take)]
      /\ UNCHANGED <<profile, take, transcript, model, loads, preloading>>
  BY DEF Hand
<1>2. Trim(take) \in Given /\ Trim(take)' = Trim(take)
  BY <1>1, TakeIs, TrimStays
<1>3. /\ at = "recorded" => Engine = "primary"
      /\ at = "unsatisfied" => Engine = "fallback"
      /\ "primary" \in Engines /\ "fallback" \in Engines
  BY <1>1 DEF Engine, Engines
<1>4. heard \in [Engines -> Given]
  BY DEF SttInv, SttTypes, Given
<1>5. heard' \in [Engines -> Given] /\ at' \in Engines
  BY <1>1, <1>2, <1>3, <1>4
<1>6. SttTypes' /\ SttTypeOK'
  BY <1>1, <1>5 DEF SttInv, SttTypes, SttTypeOK, Given
<1>7. GivenAll'
  BY <1>1, <1>2, <1>3, <1>4 DEF SttInv, GivenAll
<1>8. FailureIsNotTheLastWord'
  BY <1>1, <1>3 DEF FailureIsNotTheLastWord
<1> QED BY <1>6, <1>7, <1>8 DEF SttInv

LEMMA SttLoads == SttInv /\ Load => SttInv'
<1> SUFFICES ASSUME SttInv, Load PROVE SttInv'
  OBVIOUS
<1>0. MaxLoads \in Nat
  BY SpeechToTextAssumption
<1>1. /\ at \in Engines /\ LoadModel(Engine)
      /\ IF model'[Engine] THEN UNCHANGED <<at, transcript>>
         ELSE /\ at' = IF at = "primary" THEN "transcribed" ELSE "settled"
              /\ transcript' = [NoTranscript EXCEPT !.error = TRUE]
      /\ UNCHANGED <<profile, take, heard, preloading>>
  BY DEF Load
<1>2. Engine \in Engines /\ at \in {"primary", "fallback"}
  BY <1>1 DEF Engine, Engines
<1>3. /\ model \in [Engines -> BOOLEAN] /\ loads \in [Engines -> 0 .. MaxLoads]
      /\ at \in SttPlaces /\ transcript \in Transcript
      /\ preloading \in {"due", "done"}
  BY DEF SttInv, SttTypes, SttTypeOK, SttPlaces
<1>4. model' \in [Engines -> BOOLEAN] /\ loads' \in [Engines -> 0 .. MaxLoads]
  BY <1>0, <1>1, <1>2, <1>3 DEF LoadModel
<1>5. [NoTranscript EXCEPT !.error = TRUE] \in Transcript
  BY DEF NoTranscript, Transcript
<1>6. /\ at' \in SttPlaces /\ transcript' \in Transcript
      /\ \/ at' = at /\ transcript' = transcript
         \/ at = "primary" /\ at' = "transcribed"
         \/ at = "fallback" /\ at' = "settled"
  BY <1>1, <1>2, <1>3, <1>5 DEF SttPlaces
<1> QED BY <1>1, <1>3, <1>4, <1>6, SttMoves

LEMMA SttResults ==
  ASSUME SttInv, NEW t \in Transcript, Result(t) PROVE SttInv'
<1>1. /\ at \in {"primary", "fallback"}
      /\ transcript' = t /\ at' = IF at = "primary" THEN "transcribed" ELSE "settled"
      /\ UNCHANGED <<profile, take, heard, model, loads, preloading>>
  BY DEF Result, Engines
<1>2. /\ model \in [Engines -> BOOLEAN] /\ loads \in [Engines -> 0 .. MaxLoads]
      /\ preloading \in {"due", "done"}
  BY DEF SttInv, SttTypes, SttTypeOK
<1>3. at' \in SttPlaces
  BY <1>1 DEF SttPlaces
<1> QED BY <1>1, <1>2, <1>3, SttMoves

LEMMA SttStep == SttInv /\ (SttNext \/ UNCHANGED mvars) => SttInv'
<1> SUFFICES ASSUME SttInv, SttNext \/ UNCHANGED mvars PROVE SttInv'
  OBVIOUS
<1>0. /\ model \in [Engines -> BOOLEAN] /\ loads \in [Engines -> 0 .. MaxLoads]
      /\ at \in SttPlaces /\ transcript \in Transcript
      /\ preloading \in {"due", "done"}
  BY DEF SttInv, SttTypes, SttTypeOK, SttPlaces
<1>1. CASE TranscribeInProcess \/ TranscribeByService \/ TranscribeByOpenAi
  BY <1>1, SttResults
     DEF TranscribeInProcess, TranscribeByService, TranscribeByOpenAi
<1>2. CASE Judge
  <2> PICK matched \in BOOLEAN :
        /\ at = "transcribed"
        /\ at' = IF profile.second /\ Unsatisfying(transcript, matched)
                 THEN "unsatisfied" ELSE "settled"
        /\ UNCHANGED <<profile, take, heard, transcript, model, loads, preloading>>
    BY <1>2 DEF Judge
  <2>1. transcript.error => Unsatisfying(transcript, matched)
    BY DEF Unsatisfying
  <2>2. at' \in SttPlaces
    BY DEF SttPlaces
  <2> QED BY <1>0, <2>1, <2>2, SttMoves
<1>3. CASE Preload \/ UNCHANGED mvars
  <2>1. /\ UNCHANGED <<profile, take, at, heard, transcript, model, loads>>
        /\ preloading' \in {"due", "done"}
    BY <1>0, <1>3 DEF Preload, mvars
  <2> QED BY <1>0, <2>1, SttMoves
<1>4. CASE Settle
  <2>1. /\ at' = "idle" /\ heard' = [e \in Engines |-> <<0, 0>>]
        /\ transcript' = NoTranscript
        /\ UNCHANGED <<profile, model, loads, preloading>>
    BY <1>4 DEF Settle
  <2>2. NoTranscript \in Transcript /\ "primary" \in Engines /\ "fallback" \in Engines
    BY DEF NoTranscript, Transcript, Engines
  <2>3. MaxFrames \in Nat
    BY SpeechToTextAssumption
  <2>4. SttTypes' /\ SttTypeOK'
    BY <2>1, <2>2, <2>3 DEF SttInv, SttTypes, SttTypeOK
  <2>5. GivenAll' /\ FailureIsNotTheLastWord'
    BY <2>1, <2>2 DEF GivenAll, FailureIsNotTheLastWord
  <2> QED BY <2>4, <2>5 DEF SttInv
<1> QED BY <1>1, <1>2, <1>3, <1>4, SttRecords, SttHands, SttLoads DEF SttNext

LEMMA SttHandsOver == SttInv => SpeechIsHandedOver
<1> SUFFICES ASSUME SttInv, NEW e \in Engines, at \notin {"idle", "recorded"},
                    heard[e] # <<0, 0>>
             PROVE  /\ \A i \in Loud(take) :
                         /\ heard[e][1] <= IF i > profile.leading THEN i - profile.leading ELSE 1
                         /\ heard[e][2] >= Least(Len(take), i + profile.trailing)
                    /\ e = "fallback" => heard["primary"] = heard["fallback"]
  BY DEF SpeechIsHandedOver
<1>1. at \in {"primary", "transcribed", "unsatisfied", "fallback", "settled"}
  BY DEF SttInv, SttTypeOK, Engines
<1>2. heard["primary"] = Trim(take)
      /\ (heard["fallback"] # <<0, 0>> => heard["fallback"] = Trim(take))
  BY <1>1 DEF SttInv, GivenAll
<1>3. heard[e] = Trim(take)
  BY <1>2 DEF Engines
<1> QED BY <1>1, <1>2, <1>3, TakeIs

-----------------------------------------------------------------------------
(* AudioUpload *)

CaptureIds == 1 .. MaxCaptures
Frames == 1 .. Len(captured)
Clips == [id : 0 .. MaxCaptures, audio : Seq(Nat)]

MicStates ==
  [id : 0 .. MaxCaptures, started : BOOLEAN, finished : BOOLEAN, reported : BOOLEAN,
   followup : BOOLEAN, quiet : BOOLEAN, buffer : Seq(Nat), finalize : BOOLEAN,
   playing : 0 .. MaxCaptures]

Posts == [at : {"no", "posted", "answered"}, id : 0 .. MaxCaptures,
          audio : Seq(Nat), ok : BOOLEAN]

ControlMessages ==
  [type : {"start", "speech_ended", "cancel", "played"}, id : CaptureIds]
  \cup [type : {"end"}, id : 0 .. MaxCaptures, acked : Clips]

BackMessages == [type : {"finalize", "ready", "followup", "over"}, id : 0 .. MaxCaptures]

Actives == [id : 0 .. MaxCaptures, heard : Seq(Nat),
            stage : {"none", "listening", "responding", "followup"}]

TurnsHeard == [id : 0 .. MaxCaptures, audio : Seq(Nat), acked : Clips]

UploadTypes ==
  /\ kind \in [board : Boards, upload : Uploads] /\ mic \in MicStates /\ post \in Posts
  /\ captured \in Seq([id : CaptureIds, followup : BOOLEAN])
  /\ ctl \in Seq(ControlMessages) /\ back \in Seq(BackMessages)
  /\ bodies \subseteq Clips /\ socket \in Seq(Nat)
  /\ active \in Actives /\ turns \in Seq(TurnsHeard)

(* A session that has started has a number; one that has not keeps nothing.*)
Begun ==
  /\ mic.started => mic.id > 0
  /\ ~ mic.started => mic.buffer = <<>>

(* Audio was captured for the session that keeps, posts or hears it.       *)
CapturedFor(audio, id) ==
  \A n \in DOMAIN audio : audio[n] \in Frames /\ captured[audio[n]].id = id

Clip(id, audio) == [id |-> id, audio |-> audio]

ClipsHeld ==
  {Clip(mic.id, mic.buffer), Clip(post.id, post.audio), Clip(active.id, active.heard)}
  \cup bodies \cup {Clip(turns[t].id, turns[t].audio) : t \in 1 .. Len(turns)}

OwnAudio ==
  kind.upload = "http" =>
    socket = <<>> /\ \A c \in ClipsHeld : CapturedFor(c.audio, c.id)

(* What is on the socket comes after what was heard of it.                 *)
OneStream ==
  kind.upload = "socket" =>
    /\ bodies = {} /\ post.audio = <<>> /\ mic.buffer = <<>>
    /\ \A i \in 1 .. Len(active.heard) : active.heard[i] \in Frames
    /\ \A i \in 1 .. Len(socket) : socket[i] \in Frames
    /\ \A i, j \in 1 .. Len(active.heard) : i < j => active.heard[i] < active.heard[j]
    /\ \A i, j \in 1 .. Len(socket) : i < j => socket[i] < socket[j]
    /\ \A i \in 1 .. Len(active.heard), j \in 1 .. Len(socket) :
         active.heard[i] < socket[j]

(* A session is started once: its start is under way, or was handled or    *)
(* lost.                                                                   *)
StartUnderWay(id) == \E i \in 1 .. Len(ctl) : ctl[i].type = "start" /\ ctl[i].id = id
IsActive(id) == active.stage # "none" /\ active.id = id

StartedOnce ==
  /\ active.stage # "none" => active.id \in 1 .. mic.id /\ ~ StartUnderWay(active.id)
  /\ \A i \in 1 .. Len(ctl) : ctl[i].type = "start" => ctl[i].id \in 1 .. mic.id
  /\ \A i, j \in 1 .. Len(ctl) :
       ctl[i].type = "start" /\ ctl[j].type = "start" /\ ctl[i].id = ctl[j].id => i = j
  /\ post.id <= mic.id /\ \A b \in bodies : b.id <= mic.id

(* What became of a capture the backend accepted: it is in the session's   *)
(* buffer, or was transcribed, or the session is over.                     *)
Buffered(c) ==
  Capturing /\ active.id = c.id /\ Within(c.audio, active.heard)

Transcribed(c) ==
  \E u \in 1 .. Len(turns) : turns[u].id = c.id /\ Within(c.audio, turns[u].audio)

IsOver(id) == id <= mic.id /\ ~ IsActive(id) /\ ~ StartUnderWay(id)

Cared(c) == Buffered(c) \/ Transcribed(c) \/ IsOver(c.id)

Acknowledged ==
  (IF post.ok THEN {Clip(post.id, post.audio)} ELSE {})
  \cup {ctl[i].acked : i \in {j \in 1 .. Len(ctl) : ctl[j].type = "end"}}

AcceptedIsKept == \A c \in Acknowledged : c.id = 0 \/ Cared(c)

UploadInv ==
  UploadTypes /\ Begun /\ OwnAudio /\ OneStream /\ StartedOnce /\ AcceptedIsKept
  /\ AcceptedIsTranscribed

LEMMA WithinIs ==
  ASSUME NEW p \in Seq(Nat), NEW w \in Seq(Nat)
  PROVE  Within(p, w) <=>
           \E k \in Nat : /\ k + Len(p) <= Len(w)
                          /\ \A i \in 1 .. Len(p) : p[i] = w[k + i]
<1>1. Len(p) \in Nat /\ Len(w) \in Nat
  BY LenProperties
<1>2. ASSUME NEW k \in Nat, k + Len(p) <= Len(w)
      PROVE  p = SubSeq(w, k + 1, k + Len(p)) <=> \A i \in 1 .. Len(p) : p[i] = w[k + i]
  <2>1. \A i \in k + 1 .. k + Len(p) : w[i] \in Nat
    <3>1. \A i \in k + 1 .. k + Len(p) : i \in 1 .. Len(w)
      BY <1>1, <1>2
    <3> QED BY <3>1, ElementOfSeq
  <2> DEFINE s == SubSeq(w, k + 1, k + Len(p))
  <2>2. /\ s \in Seq(Nat)
        /\ Len(s) = IF k + 1 <= k + Len(p) THEN (k + Len(p)) - (k + 1) + 1 ELSE 0
        /\ \A i \in 1 .. (k + Len(p)) - (k + 1) + 1 : s[i] = w[(k + 1) + i - 1]
    BY <1>1, <2>1, SubSeqProperties
  <2> HIDE DEF s
  <2>3. Len(s) = Len(p) /\ (k + Len(p)) - (k + 1) + 1 = Len(p)
    BY <1>1, <2>2
  <2>4. ASSUME NEW i \in 1 .. Len(p) PROVE s[i] = w[k + i]
    <3>1. (k + 1) + i - 1 = k + i
      BY <1>1
    <3> QED BY <2>2, <2>3, <3>1
  <2>5. p = s <=> \A i \in 1 .. Len(p) : p[i] = s[i]
    BY <2>2, <2>3, SeqEqual
  <2> QED BY <2>4, <2>5 DEF s
<1>3. \A k : k \in 0 .. Len(w) - Len(p) <=> k \in Nat /\ k + Len(p) <= Len(w)
  BY <1>1
<1> QED BY <1>2, <1>3 DEF Within

(* What was heard stays heard, and what is taken in is heard.              *)
LEMMA WithinGrows ==
  ASSUME NEW p \in Seq(Nat), NEW w \in Seq(Nat), NEW x \in Seq(Nat)
  PROVE  /\ Within(p, w) => Within(p, w \o x)
         /\ Within(x, w \o x)
<1>1. Len(p) \in Nat /\ Len(w) \in Nat /\ Len(x) \in Nat
  BY LenProperties
<1>2. /\ w \o x \in Seq(Nat) /\ Len(w \o x) = Len(w) + Len(x)
      /\ \A i \in 1 .. Len(w) + Len(x) :
           (w \o x)[i] = IF i <= Len(w) THEN w[i] ELSE x[i - Len(w)]
  BY ConcatProperties
<1>3. ASSUME Within(p, w) PROVE Within(p, w \o x)
  <2>1. PICK k \in Nat : /\ k + Len(p) <= Len(w)
                         /\ \A i \in 1 .. Len(p) : p[i] = w[k + i]
    BY <1>3, WithinIs
  <2>2. k + Len(p) <= Len(w \o x)
    BY <1>1, <1>2, <2>1
  <2>3. ASSUME NEW i \in 1 .. Len(p) PROVE p[i] = (w \o x)[k + i]
    <3>1. k + i \in 1 .. Len(w) + Len(x) /\ k + i <= Len(w)
      BY <1>1, <2>1
    <3> QED BY <1>2, <2>1, <3>1
  <2> QED BY <1>2, <2>2, <2>3, WithinIs
<1>4. Within(x, w \o x)
  <2>1. Len(w) + Len(x) <= Len(w \o x)
    BY <1>2, <1>1
  <2>2. ASSUME NEW i \in 1 .. Len(x) PROVE x[i] = (w \o x)[Len(w) + i]
    <3>1. /\ Len(w) + i \in 1 .. Len(w) + Len(x) /\ ~ (Len(w) + i <= Len(w))
          /\ (Len(w) + i) - Len(w) = i
      BY <1>1
    <3> QED BY <1>2, <3>1
  <2> QED BY <1>1, <1>2, <2>1, <2>2, WithinIs
<1> QED BY <1>3, <1>4

LEMMA UploadInitInv == UploadInit => UploadInv
<1> SUFFICES ASSUME UploadInit PROVE UploadInv
  OBVIOUS
<1>0. MaxCaptures \in Nat
  BY UploadAssumption
<1>1. /\ kind \in [board : Boards, upload : Uploads]
      /\ mic = NoCaptureYet /\ post = NoPost /\ captured = <<>>
      /\ ctl = <<>> /\ back = <<>> /\ bodies = {} /\ socket = <<>>
      /\ active = NoActive /\ turns = <<>>
  BY DEF UploadInit
<1>2. mic \in MicStates /\ post \in Posts /\ active \in Actives
  BY <1>0, <1>1 DEF NoCaptureYet, NoPost, NoActive, MicStates, Posts, Actives
<1>3. UploadTypes
  BY <1>1, <1>2 DEF UploadTypes
<1>4. /\ mic.buffer = <<>> /\ ~ mic.started /\ mic.id = 0
      /\ post.audio = <<>> /\ ~ post.ok /\ post.id = 0
      /\ active.heard = <<>> /\ active.id = 0 /\ active.stage = "none"
  BY <1>1 DEF NoCaptureYet, NoPost, NoActive
<1>5. Begun /\ OneStream
  BY <1>1, <1>4 DEF Begun, OneStream
<1>6. OwnAudio
  <2>1. \A c \in ClipsHeld : c.audio = <<>>
    BY <1>1, <1>4 DEF ClipsHeld, Clip
  <2> QED BY <1>1, <2>1 DEF OwnAudio, CapturedFor
<1>7. StartedOnce
  BY <1>1, <1>4 DEF StartedOnce
<1>8. AcceptedIsKept /\ AcceptedIsTranscribed
  BY <1>1, <1>4 DEF AcceptedIsKept, Acknowledged, AcceptedIsTranscribed
<1> QED BY <1>3, <1>5, <1>6, <1>7, <1>8 DEF UploadInv

(* What is cared for stays so, when sessions only start once, the turns    *)
(* remain, and a session's buffer grows, is transcribed or goes with it.   *)
LEMMA CaredStays ==
  ASSUME UploadInv, UploadTypes',
         mic.id <= mic'.id, Len(turns) <= Len(turns'),
         \A u \in 1 .. Len(turns) : turns'[u] = turns[u],
         \A i \in 1 .. Len(ctl') :
           ctl'[i].type = "start" => ctl'[i].id > mic.id \/ StartUnderWay(ctl'[i].id),
         active'.stage # "none" => IsActive(active'.id) \/ StartUnderWay(active'.id),
         Capturing =>
           \/ active'.stage \in {"listening", "followup"} /\ active'.id = active.id
              /\ \E x \in Seq(Nat) : active'.heard = active.heard \o x
           \/ \E u \in 1 .. Len(turns') :
                turns'[u].id = active.id /\ turns'[u].audio = active.heard
           \/ ~ (active'.stage # "none" /\ active'.id = active.id),
         NEW c \in Clips, Cared(c)
  PROVE  Cared(c)'
<1>1. /\ c.id \in Nat /\ c.audio \in Seq(Nat) /\ mic.id \in Nat /\ mic'.id \in Nat
      /\ active.heard \in Seq(Nat) /\ active.id \in Nat
      /\ Len(turns) \in Nat /\ Len(turns') \in Nat
  <2>1. MaxCaptures \in Nat
    BY UploadAssumption
  <2> QED BY <2>1, LenProperties DEF UploadInv, UploadTypes, Clips, MicStates, Actives
<1>2. ASSUME NEW id \in Nat, id <= mic.id, ~ StartUnderWay(id)
      PROVE  id <= mic'.id /\ ~ StartUnderWay(id)'
  <2>1. id <= mic'.id
    BY <1>1, <1>2
  <2>2. ASSUME NEW i \in 1 .. Len(ctl'), ctl'[i].type = "start", ctl'[i].id = id
        PROVE  FALSE
    <3>1. ctl'[i].id > mic.id \/ StartUnderWay(ctl'[i].id)
      BY <2>2
    <3>2. ctl'[i].id > mic.id
      BY <1>2, <2>2, <3>1
    <3> QED BY <1>1, <1>2, <2>2, <3>2
  <2> QED BY <2>1, <2>2 DEF StartUnderWay
<1>3. CASE IsOver(c.id)
  <2>1. ~ IsActive(c.id)'
    BY <1>3 DEF IsOver, IsActive
  <2> QED BY <1>1, <1>2, <1>3, <2>1 DEF IsOver, Cared
<1>4. CASE Transcribed(c)
  <2>1. PICK u \in 1 .. Len(turns) : turns[u].id = c.id /\ Within(c.audio, turns[u].audio)
    BY <1>4 DEF Transcribed
  <2>2. u \in 1 .. Len(turns') /\ turns'[u] = turns[u]
    BY <1>1, SMTT(30)
  <2> QED BY <2>1, <2>2 DEF Transcribed, Cared
<1>5. CASE Buffered(c)
  <2>1. Capturing /\ active.id = c.id /\ Within(c.audio, active.heard)
    BY <1>5 DEF Buffered
  <2>2. CASE /\ active'.stage \in {"listening", "followup"} /\ active'.id = active.id
             /\ \E x \in Seq(Nat) : active'.heard = active.heard \o x
    <3>1. Within(c.audio, active'.heard)
      BY <1>1, <2>1, <2>2, WithinGrows
    <3> QED BY <2>1, <2>2, <3>1 DEF Buffered, Capturing, Cared
  <2>3. CASE \E u \in 1 .. Len(turns') :
               turns'[u].id = active.id /\ turns'[u].audio = active.heard
    BY <2>1, <2>3 DEF Transcribed, Cared
  <2>4. CASE ~ (active'.stage # "none" /\ active'.id = active.id)
    <3>1. active.id <= mic.id /\ ~ StartUnderWay(active.id)
      BY <1>1, <2>1 DEF UploadInv, StartedOnce, Capturing
    <3> QED BY <1>1, <1>2, <2>1, <2>4, <3>1 DEF IsOver, IsActive, Cared
  <2> QED BY <2>1, <2>2, <2>3, <2>4
<1> QED BY <1>3, <1>4, <1>5 DEF Cared

LEMMA AcknowledgedClips ==
  /\ UploadTypes => Acknowledged \subseteq Clips
  /\ UploadTypes' => Acknowledged' \subseteq Clips
<1>1. ASSUME NEW p \in Posts, NEW s \in Seq(ControlMessages)
      PROVE  /\ Clip(p.id, p.audio) \in Clips
             /\ \A i \in {j \in 1 .. Len(s) : s[j].type = "end"} : s[i].acked \in Clips
  <2>1. Clip(p.id, p.audio) \in Clips
    BY DEF Clip, Clips, Posts
  <2>2. ASSUME NEW i \in 1 .. Len(s), s[i].type = "end" PROVE s[i].acked \in Clips
    <3>1. s[i] \in ControlMessages
      BY ElementOfSeq
    <3> QED BY <2>2, <3>1 DEF ControlMessages
  <2> QED BY <2>1, <2>2
<1> QED BY <1>1 DEF Acknowledged, UploadTypes

(* A step that respects what is acknowledged: the part of the invariant    *)
(* about sessions and what became of their audio.                          *)
LEMMA SessionMoves ==
  ASSUME UploadInv, UploadTypes',
         mic.id <= mic'.id,
         \/ turns' = turns
         \/ \E m \in ControlMessages :
              /\ m.type = "end" /\ m.acked \in Acknowledged
              /\ Capturing /\ active.id = m.id
              /\ turns' = Append(turns, [id |-> m.id, audio |-> active.heard,
                                         acked |-> m.acked]),
         \A i \in 1 .. Len(ctl') : ctl'[i].type = "start" =>
           /\ ctl'[i].id \in 1 .. mic'.id
           /\ ctl'[i].id > mic.id \/ StartUnderWay(ctl'[i].id),
         \A i, j \in 1 .. Len(ctl') :
           ctl'[i].type = "start" /\ ctl'[j].type = "start" /\ ctl'[i].id = ctl'[j].id => i = j,
         active'.stage # "none" =>
           \/ IsActive(active'.id)
           \/ /\ StartUnderWay(active'.id)
              /\ \A i \in 1 .. Len(ctl') : ctl'[i].type = "start" => ctl'[i].id # active'.id,
         Capturing =>
           \/ active'.stage \in {"listening", "followup"} /\ active'.id = active.id
              /\ \E x \in Seq(Nat) : active'.heard = active.heard \o x
           \/ turns' # turns
           \/ ~ (active'.stage # "none" /\ active'.id = active.id),
         post'.id <= mic'.id, \A b \in bodies' : b.id <= mic'.id,
         \A c \in Clips : c \in Acknowledged' =>
           c \in Acknowledged \/ c.id = 0 \/ Buffered(c)'
  PROVE  StartedOnce' /\ AcceptedIsKept' /\ AcceptedIsTranscribed'
<1>0. /\ UploadTypes /\ StartedOnce /\ AcceptedIsKept /\ AcceptedIsTranscribed
      /\ mic.id \in Nat /\ mic'.id \in Nat /\ active.id \in Nat /\ active'.id \in Nat
      /\ active.heard \in Seq(Nat) /\ turns \in Seq(TurnsHeard) /\ Len(turns) \in Nat
  <2>1. MaxCaptures \in Nat
    BY UploadAssumption
  <2> QED BY <2>1, LenProperties DEF UploadInv, UploadTypes, MicStates, Actives
<1>1. /\ Len(turns) <= Len(turns') /\ Len(turns') \in Nat
      /\ \A u \in 1 .. Len(turns) : turns'[u] = turns[u]
      /\ turns' # turns =>
           /\ Capturing /\ Len(turns') = Len(turns) + 1
           /\ turns'[Len(turns')].id = active.id
           /\ turns'[Len(turns')].audio = active.heard
           /\ turns'[Len(turns')].acked \in Acknowledged
  <2>1. CASE turns' = turns
    BY <1>0, <2>1
  <2>2. CASE turns' # turns
    <3>1. PICK m \in ControlMessages :
            /\ m.type = "end" /\ m.acked \in Acknowledged
            /\ Capturing /\ active.id = m.id
            /\ turns' = Append(turns, [id |-> m.id, audio |-> active.heard,
                                       acked |-> m.acked])
      BY <2>2
    <3> DEFINE t == [id |-> m.id, audio |-> active.heard, acked |-> m.acked]
    <3>2. /\ t.id = active.id /\ t.audio = active.heard /\ t.acked \in Acknowledged
          /\ t \in TurnsHeard /\ turns' = Append(turns, t)
      BY <1>0, <3>1 DEF TurnsHeard, ControlMessages
    <3> HIDE DEF t
    <3>3. /\ Len(turns') = Len(turns) + 1 /\ turns'[Len(turns) + 1] = t
          /\ \A u \in 1 .. Len(turns) : turns'[u] = turns[u]
      BY <1>0, <3>2, AppendProperties
    <3> QED BY <1>0, <3>1, <3>2, <3>3
  <2> QED BY <2>1, <2>2
<1>2. ASSUME NEW c \in Clips, Cared(c) PROVE Cared(c)'
  <2>1. Capturing =>
          \/ active'.stage \in {"listening", "followup"} /\ active'.id = active.id
             /\ \E x \in Seq(Nat) : active'.heard = active.heard \o x
          \/ \E u \in 1 .. Len(turns') :
               turns'[u].id = active.id /\ turns'[u].audio = active.heard
          \/ ~ (active'.stage # "none" /\ active'.id = active.id)
    <3>1. turns' # turns => Len(turns') \in 1 .. Len(turns')
      BY <1>0, <1>1
    <3> QED BY <1>1, <3>1
  <2>2. active'.stage # "none" => IsActive(active'.id) \/ StartUnderWay(active'.id)
    OBVIOUS
  <2>3. \A i \in 1 .. Len(ctl') :
          ctl'[i].type = "start" => ctl'[i].id > mic.id \/ StartUnderWay(ctl'[i].id)
    OBVIOUS
  <2> QED BY <1>1, <1>2, <2>1, <2>2, <2>3, CaredStays
<1>3. Acknowledged \subseteq Clips /\ Acknowledged' \subseteq Clips
  BY AcknowledgedClips DEF UploadInv
<1>4. AcceptedIsKept'
  <2>1. ASSUME NEW c \in Clips, c \in Acknowledged' PROVE c.id = 0 \/ Cared(c)'
    BY <1>0, <1>2, <2>1 DEF AcceptedIsKept, Cared
  <2> QED BY <1>3, <2>1 DEF AcceptedIsKept
<1>5. StartedOnce'
  <2>1. ASSUME active'.stage # "none"
        PROVE  active'.id \in 1 .. mic'.id /\ ~ StartUnderWay(active.id)'
    <3>1. CASE IsActive(active'.id)
      <4>1. active.stage # "none" /\ active'.id = active.id
        BY <3>1 DEF IsActive
      <4>2. active.id \in 1 .. mic.id /\ ~ StartUnderWay(active.id)
        BY <1>0, <4>1 DEF StartedOnce
      <4>3. active'.id \in 1 .. mic'.id
        BY <1>0, <4>1, <4>2
      <4>4. ASSUME NEW i \in 1 .. Len(ctl'), ctl'[i].type = "start"
            PROVE  ctl'[i].id # active'.id
        <5>1. ctl'[i].id > mic.id \/ StartUnderWay(ctl'[i].id)
          BY <4>4
        <5>2. ctl'[i].id > mic.id => ctl'[i].id # active'.id
          BY <1>0, <4>1, <4>2
        <5> QED BY <4>1, <4>2, <5>1, <5>2
      <4> QED BY <4>3, <4>4 DEF StartUnderWay
    <3>2. CASE /\ StartUnderWay(active'.id)
               /\ \A i \in 1 .. Len(ctl') : ctl'[i].type = "start" => ctl'[i].id # active'.id
      <4>1. active'.id \in 1 .. mic.id
        BY <1>0, <3>2 DEF StartUnderWay, StartedOnce
      <4> QED BY <1>0, <3>2, <4>1 DEF StartUnderWay
    <3> QED BY <2>1, <3>1, <3>2
  <2>2. \A i \in 1 .. Len(ctl') : ctl'[i].type = "start" => ctl'[i].id \in 1 .. mic'.id
    OBVIOUS
  <2> QED BY <2>1, <2>2 DEF StartedOnce, StartUnderWay
<1>6. AcceptedIsTranscribed'
  <2> SUFFICES ASSUME NEW t \in 1 .. Len(turns'), turns'[t].acked.id = turns'[t].id
               PROVE  \E u \in 1 .. t : turns'[u].id = turns'[t].id
                                        /\ Within(turns'[t].acked.audio, turns'[u].audio)
    <3>1. turns' \in Seq(TurnsHeard)
      BY DEF UploadTypes
    <3>2. DOMAIN turns' = 1 .. Len(turns')
      BY <3>1, LenProperties
    <3> QED BY <3>2 DEF AcceptedIsTranscribed, Within
  <2>1. CASE t \in 1 .. Len(turns)
    <3>1. turns'[t] = turns[t] /\ \A u \in 1 .. t : turns'[u] = turns[u]
      BY <1>0, <1>1, <2>1
    <3>2. t \in DOMAIN turns
      BY <1>0, <2>1, LenProperties
    <3> QED BY <1>0, <2>1, <3>1, <3>2 DEF AcceptedIsTranscribed
  <2>2. CASE t \notin 1 .. Len(turns)
    <3>1. /\ t = Len(turns') /\ t = Len(turns) + 1 /\ turns' # turns /\ Capturing
          /\ turns'[t].id = active.id /\ turns'[t].audio = active.heard
          /\ turns'[t].acked \in Acknowledged
      BY <1>0, <1>1, <2>2
    <3> DEFINE c == turns'[t].acked
    <3>2. c.id = active.id /\ c \in Clips /\ active.id > 0
      BY <1>0, <1>3, <3>1 DEF StartedOnce, Capturing
    <3>3. Cared(c)
      BY <1>0, <3>1, <3>2 DEF AcceptedIsKept
    <3>4. ~ IsOver(c.id)
      BY <3>1, <3>2 DEF IsOver, IsActive, Capturing
    <3>5. CASE Buffered(c)
      BY <3>1, <3>2, <3>5 DEF Buffered
    <3>6. CASE Transcribed(c)
      <4>1. PICK u \in 1 .. Len(turns) : turns[u].id = c.id /\ Within(c.audio, turns[u].audio)
        BY <3>6 DEF Transcribed
      <4>2. u \in 1 .. t /\ turns'[u] = turns[u]
        BY <1>0, <1>1, <3>1
      <4> QED BY <3>1, <3>2, <4>1, <4>2
    <3> QED BY <3>3, <3>4, <3>5, <3>6 DEF Cared
  <2> QED BY <2>1, <2>2
<1> QED BY <1>4, <1>5, <1>6

(* A step that holds no audio but what was captured for its session.       *)
LEMMA OwnAudioMoves ==
  ASSUME UploadInv, UNCHANGED <<kind, captured>>,
         kind.upload = "http" =>
           /\ socket' = <<>>
           /\ \A c \in ClipsHeld' :
                \/ c \in ClipsHeld \/ c.audio = <<>>
                \/ \E d, e \in ClipsHeld : /\ c.id = d.id /\ d.id = e.id
                                           /\ d.audio \in Seq(Nat) /\ e.audio \in Seq(Nat)
                                           /\ c.audio = d.audio \o e.audio
  PROVE  OwnAudio'
<1> SUFFICES ASSUME kind.upload = "http", NEW c \in ClipsHeld' PROVE CapturedFor(c.audio, c.id)'
  BY DEF OwnAudio
<1>1. \A d \in ClipsHeld : CapturedFor(d.audio, d.id)
  BY DEF UploadInv, OwnAudio
<1>2. CASE c \in ClipsHeld \/ c.audio = <<>>
  BY <1>1, <1>2 DEF CapturedFor, Frames
<1>3. CASE \E d, e \in ClipsHeld : /\ c.id = d.id /\ d.id = e.id
                                   /\ d.audio \in Seq(Nat) /\ e.audio \in Seq(Nat)
                                   /\ c.audio = d.audio \o e.audio
  <2>1. PICK d \in ClipsHeld, e \in ClipsHeld :
               /\ c.id = d.id /\ d.id = e.id
               /\ d.audio \in Seq(Nat) /\ e.audio \in Seq(Nat)
               /\ c.audio = d.audio \o e.audio
    BY <1>3
  <2> DEFINE x == d.audio
             y == e.audio
  <2>2. /\ x \in Seq(Nat) /\ y \in Seq(Nat)
        /\ DOMAIN x = 1 .. Len(x) /\ DOMAIN y = 1 .. Len(y)
        /\ Len(x) \in Nat /\ Len(y) \in Nat
    BY <2>1, LenProperties
  <2>3. /\ x \o y \in Seq(Nat) /\ Len(x \o y) = Len(x) + Len(y)
        /\ \A i \in 1 .. Len(x) + Len(y) :
             (x \o y)[i] = IF i <= Len(x) THEN x[i] ELSE y[i - Len(x)]
    <3>1. \A S : \A p, q \in Seq(S) :
            /\ p \o q \in Seq(S) /\ Len(p \o q) = Len(p) + Len(q)
            /\ \A i \in 1 .. Len(p) + Len(q) :
                 (p \o q)[i] = IF i <= Len(p) THEN p[i] ELSE q[i - Len(p)]
      BY ConcatProperties
    <3> HIDE DEF x, y
    <3> QED BY <2>2, <3>1
  <2>4. DOMAIN (x \o y) = 1 .. Len(x) + Len(y)
    BY <2>3, LenProperties
  <2>5. /\ \A n \in DOMAIN x : x[n] \in Frames /\ captured[x[n]].id = c.id
        /\ \A n \in DOMAIN y : y[n] \in Frames /\ captured[y[n]].id = c.id
    BY <1>1, <2>1 DEF CapturedFor
  <2>6. c.audio = x \o y
    BY <2>1
  <2> HIDE DEF x, y
  <2>7. ASSUME NEW n \in 1 .. Len(x) + Len(y)
        PROVE  (x \o y)[n] \in Frames /\ captured[(x \o y)[n]].id = c.id
    <3>1. CASE n <= Len(x)
      BY <2>2, <2>3, <2>5, <3>1, SMTT(30)
    <3>2. CASE ~ n <= Len(x)
      <4>1. n - Len(x) \in 1 .. Len(y)
        BY <2>2, <3>2
      <4> QED BY <2>2, <2>3, <2>5, <3>2, <4>1
    <3> QED BY <3>1, <3>2
  <2>8. captured' = captured /\ Frames' = Frames
    BY DEF Frames
  <2> QED BY <2>4, <2>6, <2>7, <2>8 DEF CapturedFor
<1> QED BY <1>2, <1>3

(* A step of an audio socket's frames.                                     *)
LEMMA StreamMoves ==
  ASSUME UploadInv, kind' = kind, UploadTypes', Len(captured) <= Len(captured'),
         kind.upload = "socket" =>
           /\ bodies' = {} /\ post'.audio = <<>> /\ mic'.buffer = <<>>
           /\ \/ /\ socket' = socket \/ socket' = <<>>
                 /\ active'.heard = active.heard \/ active'.heard = <<>>
              \/ /\ socket' = Append(socket, Len(captured) + 1)
                 /\ Len(captured') = Len(captured) + 1 /\ active' = active
              \/ /\ socket # <<>> /\ socket' = Tail(socket)
                 /\ \/ active'.heard = active.heard
                    \/ active'.heard = active.heard \o <<socket[1]>>
  PROVE  OneStream'
<1> SUFFICES ASSUME kind.upload = "socket" PROVE OneStream'
  BY DEF OneStream
<1> DEFINE h == active.heard
           s == socket
<1>1. /\ h \in Seq(Nat) /\ s \in Seq(Nat) /\ Len(captured) \in Nat /\ Len(captured') \in Nat
      /\ Len(h) \in Nat /\ Len(s) \in Nat
      /\ \A i \in 1 .. Len(h) : h[i] \in Nat
      /\ \A i \in 1 .. Len(s) : s[i] \in Nat
  BY LenProperties, ElementOfSeq DEF UploadInv, UploadTypes, Actives
<1>2. /\ \A i \in 1 .. Len(h) : h[i] \in 1 .. Len(captured)
      /\ \A i \in 1 .. Len(s) : s[i] \in 1 .. Len(captured)
      /\ \A i, j \in 1 .. Len(h) : i < j => h[i] < h[j]
      /\ \A i, j \in 1 .. Len(s) : i < j => s[i] < s[j]
      /\ \A i \in 1 .. Len(h), j \in 1 .. Len(s) : h[i] < s[j]
  BY DEF UploadInv, OneStream, Frames
<1>3. \A n : n \in 1 .. Len(captured) => n \in 1 .. Len(captured')
  BY <1>1
<1>4. CASE /\ socket' = socket \/ socket' = <<>>
           /\ active'.heard = active.heard \/ active'.heard = <<>>
  BY <1>2, <1>3, <1>4 DEF OneStream, Frames
<1>5. CASE /\ socket' = Append(socket, Len(captured) + 1)
           /\ Len(captured') = Len(captured) + 1 /\ active' = active
  <2> HIDE DEF h
  <2>1. /\ Len(socket') = Len(s) + 1 /\ socket'[Len(s) + 1] = Len(captured) + 1
        /\ \A i \in 1 .. Len(s) : socket'[i] = s[i]
    BY <1>1, <1>5, AppendProperties
  <2> HIDE DEF s
  <2>2. \A i \in 1 .. Len(socket') :
          i \in 1 .. Len(s) \/ (i = Len(s) + 1 /\ socket'[i] = Len(captured) + 1)
    BY <1>1, <2>1
  <2>3. \A i \in 1 .. Len(socket') : socket'[i] \in 1 .. Len(captured')
    BY <1>1, <1>2, <1>5, <2>1, <2>2
  <2>4. ASSUME NEW i \in 1 .. Len(socket'), NEW j \in 1 .. Len(socket'), i < j
        PROVE  socket'[i] < socket'[j]
    <3>1. i \in 1 .. Len(s)
      BY <1>1, <2>1, <2>4
    <3>2. CASE j \in 1 .. Len(s)
      BY <1>2, <2>1, <2>4, <3>1, <3>2
    <3>3. CASE socket'[j] = Len(captured) + 1
      <4>1. s[i] \in 1 .. Len(captured) /\ socket'[i] = s[i]
        BY <1>2, <2>1, <3>1
      <4> QED BY <1>1, <3>3, <4>1
    <3> QED BY <2>2, <3>2, <3>3
  <2>5. ASSUME NEW i \in 1 .. Len(h), NEW j \in 1 .. Len(socket')
        PROVE  h[i] < socket'[j]
    <3>1. CASE j \in 1 .. Len(s)
      BY <1>2, <2>1, <3>1
    <3>2. CASE socket'[j] = Len(captured) + 1
      <4>1. h[i] \in 1 .. Len(captured)
        BY <1>2
      <4> QED BY <1>1, <3>2, <4>1
    <3> QED BY <2>2, <3>1, <3>2
  <2>6. active'.heard = h
    BY <1>5 DEF h
  <2> QED BY <1>2, <1>3, <2>3, <2>4, <2>5, <2>6 DEF OneStream, Frames
<1>6. CASE /\ socket # <<>> /\ socket' = Tail(socket)
           /\ \/ active'.heard = active.heard
              \/ active'.heard = active.heard \o <<socket[1]>>
  <2>1. /\ Len(socket') = Len(s) - 1 /\ Len(s) > 0
        /\ \A i \in 1 .. Len(s) - 1 : socket'[i] = s[i + 1] /\ i + 1 \in 1 .. Len(s)
    <3>1. Len(s) \in Nat \ {0}
      <4>1. s \in Seq(Nat) /\ s # <<>>
        BY <1>1, <1>6
      <4> QED BY <4>1, EmptySeq
    <3>2. Len(socket') = Len(s) - 1 /\ \A i \in 1 .. Len(socket') : socket'[i] = s[i + 1]
      BY <1>1, <1>6, HeadTailProperties
    <3> QED BY <3>1, <3>2
  <2>2. s[1] \in Nat /\ 1 \in 1 .. Len(s)
    BY <1>1, <2>1
  <2> DEFINE g == active'.heard
  <2>3. \/ g = h
        \/ /\ Len(g) = Len(h) + 1 /\ g[Len(h) + 1] = s[1]
           /\ \A i \in 1 .. Len(h) : g[i] = h[i]
    <3>1. CASE g = h
      BY <3>1
    <3>2. CASE g = h \o <<s[1]>>
      <4>1. g = Append(h, s[1])
        BY <1>1, <2>2, <3>2, AppendIsConcat
      <4> QED BY <1>1, <2>2, <4>1, AppendProperties
    <3> QED BY <1>6, <3>1, <3>2
  <2> HIDE DEF h, s, g
  <2>4. \A i \in 1 .. Len(g) : (i \in 1 .. Len(h) /\ g[i] = h[i])
                               \/ (i = Len(h) + 1 /\ g[i] = s[1])
    BY <1>1, <2>3
  <2>5. \A i \in 1 .. Len(g) : g[i] \in 1 .. Len(captured)
    BY <1>2, <2>2, <2>4
  <2>6. ASSUME NEW i \in 1 .. Len(g), NEW j \in 1 .. Len(g), i < j PROVE g[i] < g[j]
    <3>1. i \in 1 .. Len(h) /\ g[i] = h[i]
      BY <1>1, <2>4, <2>3, <2>6
    <3> QED BY <1>2, <2>2, <2>4, <2>6, <3>1
  <2>7. ASSUME NEW i \in 1 .. Len(g), NEW j \in 1 .. Len(socket') PROVE g[i] < socket'[j]
    <3>1. /\ j + 1 \in 1 .. Len(s) /\ 1 < j + 1 /\ socket'[j] = s[j + 1]
      BY <1>1, <2>1
    <3> QED BY <1>2, <2>2, <2>4, <3>1
  <2>8. \A i \in 1 .. Len(socket') : socket'[i] \in 1 .. Len(captured)
    BY <1>2, <2>1
  <2>9. ASSUME NEW i \in 1 .. Len(socket'), NEW j \in 1 .. Len(socket'), i < j
        PROVE  socket'[i] < socket'[j]
    <3>1. /\ i + 1 \in 1 .. Len(s) /\ j + 1 \in 1 .. Len(s) /\ i + 1 < j + 1
          /\ socket'[i] = s[i + 1] /\ socket'[j] = s[j + 1]
      <4>1. Len(socket') = Len(s) - 1
        BY <2>1
      <4>2. i \in 1 .. Len(s) - 1 /\ j \in 1 .. Len(s) - 1
        BY <4>1
      <4>3. i + 1 < j + 1
        BY <1>1, <2>9, <4>2
      <4> QED BY <2>1, <4>2, <4>3
    <3> QED BY <1>2, <3>1
  <2> QED BY <1>3, <2>5, <2>6, <2>7, <2>8, <2>9 DEF OneStream, Frames, g
<1> QED BY <1>4, <1>5, <1>6

(* A step of the endpoint: it says at most one thing, and what it posts is *)
(* what it kept for the session it is in.                                  *)
LEMMA FirmwareMoves ==
  ASSUME UploadInv, UNCHANGED <<kind, captured, active, turns, socket>>,
         mic' \in MicStates, Begun', post' \in Posts, bodies' \subseteq Clips,
         back' \in Seq(BackMessages), mic.id <= mic'.id,
         mic'.buffer = <<>> \/ (mic'.id = mic.id /\ mic'.buffer = mic.buffer),
         \/ post'.audio = <<>> /\ ~ post'.ok /\ post'.id <= mic'.id
         \/ post'.id = post.id /\ post'.audio = post.audio /\ post'.ok = post.ok
         \/ post'.id = mic.id /\ post'.audio = mic.buffer /\ ~ post'.ok,
         \A b \in bodies' : b \in bodies
                            \/ (kind.upload = "http" /\ b = Clip(mic.id, mic.buffer)),
         \/ ctl' = ctl
         \/ \E m \in ControlMessages :
              /\ ctl' = Append(ctl, m)
              /\ m.type = "start" => m.id = mic.id + 1 /\ mic'.id = m.id
              /\ m.type = "end" => m.acked.id = 0 \/ m.acked \in Acknowledged
  PROVE  UploadInv'
<1>0. /\ UploadTypes /\ OwnAudio /\ OneStream /\ StartedOnce
      /\ mic.id \in Nat /\ mic'.id \in Nat /\ active.id \in Nat /\ post.id \in Nat
      /\ ctl \in Seq(ControlMessages) /\ Len(ctl) \in Nat
      /\ active.heard \in Seq(Nat) /\ Len(captured) \in Nat
  <2>1. MaxCaptures \in Nat
    BY UploadAssumption
  <2> QED BY <2>1, LenProperties, SMTT(30) DEF UploadInv, UploadTypes, MicStates, Actives, Posts
<1>1. /\ ctl' \in Seq(ControlMessages) /\ Len(ctl') \in Nat
      /\ \A i \in 1 .. Len(ctl') :
           \/ i \in 1 .. Len(ctl) /\ ctl'[i] = ctl[i]
           \/ /\ i = Len(ctl) + 1
              /\ ctl'[i].type = "start" => ctl'[i].id = mic.id + 1 /\ mic'.id = ctl'[i].id
              /\ ctl'[i].type = "end" => ctl'[i].acked.id = 0 \/ ctl'[i].acked \in Acknowledged
  <2>1. CASE ctl' = ctl
    BY <1>0, <2>1
  <2>2. ASSUME NEW m \in ControlMessages, ctl' = Append(ctl, m),
               m.type = "start" => m.id = mic.id + 1 /\ mic'.id = m.id,
               m.type = "end" => m.acked.id = 0 \/ m.acked \in Acknowledged
        PROVE  <1>1!1
    <3>1. /\ ctl' \in Seq(ControlMessages) /\ Len(ctl') = Len(ctl) + 1
          /\ \A i \in 1 .. Len(ctl) : ctl'[i] = ctl[i]
          /\ ctl'[Len(ctl) + 1] = m
      BY <1>0, <2>2, AppendProperties
    <3>2. \A i \in 1 .. Len(ctl') : i \in 1 .. Len(ctl) \/ i = Len(ctl) + 1
      BY <1>0, <3>1
    <3> QED BY <1>0, <2>2, <3>1, <3>2
  <2> QED BY <2>1, <2>2
<1>2. UploadTypes'
  BY <1>0, <1>1 DEF UploadTypes
<1>3. \A i \in 1 .. Len(ctl') : ctl'[i].type = "start" =>
        /\ ctl'[i].id \in 1 .. mic'.id
        /\ ctl'[i].id > mic.id \/ StartUnderWay(ctl'[i].id)
  <2> SUFFICES ASSUME NEW i \in 1 .. Len(ctl'), ctl'[i].type = "start"
               PROVE  /\ ctl'[i].id \in 1 .. mic'.id
                      /\ ctl'[i].id > mic.id \/ StartUnderWay(ctl'[i].id)
    OBVIOUS
  <2>1. CASE i \in 1 .. Len(ctl) /\ ctl'[i] = ctl[i]
    <3>1. ctl[i].id \in 1 .. mic.id
      BY <1>0, <2>1 DEF StartedOnce
    <3> QED BY <1>0, <2>1, <3>1 DEF StartUnderWay
  <2>2. CASE ctl'[i].id = mic.id + 1 /\ mic'.id = ctl'[i].id
    BY <1>0, <2>2
  <2> QED BY <1>1, <2>1, <2>2
<1>4. ASSUME NEW i \in 1 .. Len(ctl'), NEW j \in 1 .. Len(ctl'),
             ctl'[i].type = "start", ctl'[j].type = "start", ctl'[i].id = ctl'[j].id
      PROVE  i = j
  <2>1. \A k \in 1 .. Len(ctl') : ctl'[k].type = "start" =>
          \/ k \in 1 .. Len(ctl) /\ ctl'[k] = ctl[k] /\ ctl'[k].id \in 1 .. mic.id
          \/ k = Len(ctl) + 1 /\ ctl'[k].id = mic.id + 1
    BY <1>0, <1>1 DEF StartedOnce
  <2>2. mic.id + 1 \notin 1 .. mic.id
    BY <1>0
  <2> QED BY <1>0, <1>4, <2>1, <2>2 DEF StartedOnce
<1>5. ASSUME active'.stage # "none" PROVE IsActive(active'.id)
  BY <1>5 DEF IsActive
<1>6. Capturing =>
        /\ active'.stage \in {"listening", "followup"} /\ active'.id = active.id
        /\ active'.heard = active.heard \o <<>> /\ <<>> \in Seq(Nat)
  <2>1. active.heard \o <<>> = active.heard /\ <<>> \in Seq(Nat)
    BY <1>0, ConcatEmptySeq, EmptySeq
  <2> QED BY <2>1 DEF Capturing
<1>7. post'.id <= mic'.id
  BY <1>0 DEF StartedOnce
<1>8. \A b \in bodies' : b.id <= mic'.id
  <2> TAKE b \in bodies'
  <2>1. CASE b \in bodies
    <3>1. b.id <= mic.id /\ b.id \in Nat
      <4>1. b \in Clips /\ MaxCaptures \in Nat
        BY <1>0, <2>1, UploadAssumption DEF UploadTypes
      <4> QED BY <1>0, <2>1, <4>1 DEF StartedOnce, Clips
    <3> QED BY <1>0, <3>1
  <2>2. CASE b = Clip(mic.id, mic.buffer)
    BY <1>0, <2>2 DEF Clip
  <2> QED BY <2>1, <2>2
<1>9. \A c \in Clips : c \in Acknowledged' => c \in Acknowledged \/ c.id = 0 \/ Buffered(c)'
  <2> SUFFICES ASSUME NEW c \in Clips, c \in Acknowledged'
               PROVE  c \in Acknowledged \/ c.id = 0
    OBVIOUS
  <2>1. CASE post'.ok /\ c = Clip(post'.id, post'.audio)
    BY <2>1 DEF Acknowledged
  <2>2. CASE \E i \in 1 .. Len(ctl') : ctl'[i].type = "end" /\ c = ctl'[i].acked
    <3>1. PICK i \in 1 .. Len(ctl') : ctl'[i].type = "end" /\ c = ctl'[i].acked
      BY <2>2
    <3>2. CASE i \in 1 .. Len(ctl) /\ ctl'[i] = ctl[i]
      BY <3>1, <3>2 DEF Acknowledged
    <3> QED BY <1>1, <3>1, <3>2
  <2> QED BY <2>1, <2>2 DEF Acknowledged
<1>10. StartedOnce' /\ AcceptedIsKept' /\ AcceptedIsTranscribed'
  BY <1>2, <1>3, <1>4, <1>5, <1>6, <1>7, <1>8, <1>9, SessionMoves
<1>11. OwnAudio'
  <2>1. ASSUME kind.upload = "http", NEW c \in ClipsHeld'
        PROVE  c \in ClipsHeld \/ c.audio = <<>>
    <3>1. \/ c = Clip(mic'.id, mic'.buffer) \/ c = Clip(post'.id, post'.audio)
          \/ c = Clip(active.id, active.heard) \/ c \in bodies'
          \/ \E t \in 1 .. Len(turns) : c = Clip(turns[t].id, turns[t].audio)
      BY <2>1 DEF ClipsHeld
    <3>2. Clip(mic.id, mic.buffer) \in ClipsHeld /\ Clip(post.id, post.audio) \in ClipsHeld
      BY DEF ClipsHeld
    <3>3. CASE c = Clip(mic'.id, mic'.buffer)
      BY <3>2, <3>3 DEF Clip
    <3>4. CASE c = Clip(post'.id, post'.audio)
      BY <3>2, <3>4 DEF Clip
    <3>5. CASE c \in bodies'
      BY <3>2, <3>5 DEF ClipsHeld
    <3> QED BY <3>1, <3>3, <3>4, <3>5 DEF ClipsHeld
  <2>2. kind.upload = "http" => socket' = <<>>
    BY <1>0 DEF OwnAudio
  <2> QED BY <2>1, <2>2, OwnAudioMoves
<1>12. OneStream'
  <2>1. Len(captured) <= Len(captured')
    BY <1>0
  <2>2. kind.upload = "socket" => bodies' = {} /\ post'.audio = <<>> /\ mic'.buffer = <<>>
    BY <1>0 DEF OneStream
  <2> QED BY <1>2, <2>1, <2>2, StreamMoves
<1> QED BY <1>2, <1>10, <1>11, <1>12 DEF UploadInv

LEMMA UploadFacts ==
  ASSUME UploadInv
  PROVE  /\ MaxCaptures \in Nat /\ mic \in MicStates /\ post \in Posts /\ Begun
         /\ back \in Seq(BackMessages) /\ bodies \subseteq Clips /\ active \in Actives
         /\ ctl \in Seq(ControlMessages) /\ captured \in Seq([id : CaptureIds, followup : BOOLEAN])
         /\ mic.id \in Nat /\ mic.id <= MaxCaptures /\ mic.playing \in Nat
         /\ mic.playing <= MaxCaptures /\ post.id <= mic.id
         /\ Clip(post.id, post.audio) \in Clips
<1>1. MaxCaptures \in Nat
  BY UploadAssumption
<1> QED BY <1>1 DEF UploadInv, UploadTypes, StartedOnce, MicStates, Posts, Clip, Clips

(* Resetting a capture keeps its session's number.                         *)
LEMMA ResetIs ==
  ASSUME UploadInv
  PROVE  /\ ResetCapture \in MicStates /\ ResetCapture.id = mic.id
         /\ ResetCapture.buffer = <<>> /\ ~ ResetCapture.started
<1>1. mic.id \in 0 .. MaxCaptures /\ mic.finalize \in BOOLEAN /\ MaxCaptures \in Nat
  BY UploadFacts DEF MicStates
<1>2. <<>> \in Seq(Nat) /\ 0 \in 0 .. MaxCaptures
  BY <1>1, EmptySeq
<1> QED BY <1>1, <1>2 DEF ResetCapture, NoCaptureYet, MicStates

(* What is posted when a capture is finished.                              *)
LEMMA FinishStep ==
  ASSUME UploadInv, NEW m \in MicStates, BeginFinish(m),
         m.id = mic.id, m.buffer = mic.buffer, m.started = mic.started,
         UNCHANGED <<kind, captured, ctl, back, socket, active, turns>>
  PROVE  UploadInv'
<1>0. /\ post \in Posts /\ bodies \subseteq Clips /\ Begun /\ mic.id \in Nat
      /\ back \in Seq(BackMessages)
  BY UploadFacts
<1>1. /\ m.started /\ mic' = [m EXCEPT !.finished = TRUE]
      /\ \/ post' = [NoPost EXCEPT !.at = "answered", !.id = m.id] /\ bodies' = bodies
         \/ /\ kind.upload # "socket"
            /\ post' = [at |-> "posted", id |-> m.id, audio |-> m.buffer, ok |-> FALSE]
            /\ bodies' = bodies \cup {[id |-> m.id, audio |-> m.buffer]}
  BY DEF BeginFinish
<1>2. /\ mic' \in MicStates /\ mic'.id = mic.id /\ mic'.buffer = mic.buffer
      /\ mic'.started = mic.started
  BY <1>1 DEF MicStates
<1>3. Begun'
  BY <1>0, <1>2 DEF Begun
<1>4. /\ post' \in Posts /\ ~ post'.ok /\ post'.id = mic.id
      /\ post'.audio = <<>> \/ post'.audio = mic.buffer
  <2>1. m.id \in 0 .. MaxCaptures /\ m.buffer \in Seq(Nat)
    BY DEF MicStates
  <2>2. <<>> \in Seq(Nat)
    BY EmptySeq
  <2>3. CASE post' = [NoPost EXCEPT !.at = "answered", !.id = m.id]
    BY <2>1, <2>2, <2>3 DEF NoPost, Posts
  <2>4. CASE post' = [at |-> "posted", id |-> m.id, audio |-> m.buffer, ok |-> FALSE]
    BY <2>1, <2>4 DEF Posts
  <2> QED BY <1>1, <2>3, <2>4
<1>5. kind.upload \in {"http", "socket"}
  BY UploadAssumption DEF UploadInv, UploadTypes
<1>6. bodies' \subseteq Clips
      /\ \A b \in bodies' : b \in bodies
                            \/ (kind.upload = "http" /\ b = Clip(mic.id, mic.buffer))
  <2>1. [id |-> m.id, audio |-> m.buffer] \in Clips
    BY DEF MicStates, Clips
  <2>2. [id |-> m.id, audio |-> m.buffer] = Clip(mic.id, mic.buffer)
    BY DEF Clip
  <2> QED BY <1>0, <1>1, <1>5, <2>1, <2>2
<1> QED BY <1>0, <1>2, <1>3, <1>4, <1>6, FirmwareMoves

(* The other steps of the endpoint, but for the frames it hears: its       *)
(* capture changes, and it says something or nothing.                      *)
LEMMA SayStep ==
  ASSUME UploadInv, UNCHANGED <<kind, captured, active, turns, socket, bodies>>,
         mic' \in MicStates, Begun', post' = post \/ post' = NoPost,
         back' \in Seq(BackMessages), mic.id <= mic'.id,
         mic'.buffer = <<>> \/ (mic'.id = mic.id /\ mic'.buffer = mic.buffer),
         \/ ctl' = ctl
         \/ \E m \in ControlMessages :
              /\ ctl' = Append(ctl, m)
              /\ m.type = "start" => m.id = mic.id + 1 /\ mic'.id = m.id
              /\ m.type = "end" => m.acked.id = 0 \/ m.acked \in Acknowledged
  PROVE  UploadInv'
<1>1. post \in Posts /\ bodies \subseteq Clips /\ MaxCaptures \in Nat /\ mic'.id \in Nat
  BY UploadFacts DEF MicStates
<1>2. /\ NoPost \in Posts /\ NoPost.audio = <<>> /\ ~ NoPost.ok /\ NoPost.id <= mic'.id
  BY <1>1 DEF NoPost, Posts
<1>3. /\ post' \in Posts
      /\ \/ post'.audio = <<>> /\ ~ post'.ok /\ post'.id <= mic'.id
         \/ post'.id = post.id /\ post'.audio = post.audio /\ post'.ok = post.ok
  BY <1>1, <1>2
<1>4. bodies' \subseteq Clips
      /\ \A b \in bodies' : b \in bodies
                            \/ (kind.upload = "http" /\ b = Clip(mic.id, mic.buffer))
  BY <1>1
<1> QED BY <1>3, <1>4, FirmwareMoves

LEMMA StartStep == UploadInv /\ StartCapture => UploadInv'
<1> SUFFICES ASSUME UploadInv, StartCapture PROVE UploadInv'
  OBVIOUS
<1>0. /\ MaxCaptures \in Nat /\ mic \in MicStates /\ Begun /\ back \in Seq(BackMessages)
      /\ mic.id \in Nat
  BY UploadFacts
<1> DEFINE m == [type |-> "start", id |-> mic.id + 1]
<1>1. /\ ~ mic.started /\ mic.id < MaxCaptures /\ ctl' = Append(ctl, m)
      /\ mic' = [mic EXCEPT !.id = @ + 1, !.started = TRUE, !.finished = FALSE,
                   !.reported = FALSE, !.followup = FALSE, !.quiet = FALSE]
      /\ UNCHANGED <<kind, post, captured, back, bodies, socket, active, turns>>
  BY DEF StartCapture
<1>2. mic.id + 1 \in CaptureIds /\ mic.id + 1 \in 0 .. MaxCaptures
  BY <1>0, <1>1 DEF CaptureIds
<1>3. /\ mic' \in MicStates /\ mic'.id = mic.id + 1 /\ mic'.started
      /\ mic'.buffer = mic.buffer
  BY <1>0, <1>1, <1>2 DEF MicStates
<1>4. m \in ControlMessages /\ m.type = "start" /\ m.id = mic.id + 1
  BY <1>2 DEF ControlMessages
<1> HIDE DEF m
<1>5. mic'.buffer = <<>>
  BY <1>0, <1>1, <1>3 DEF Begun
<1>6. Begun' /\ mic.id <= mic'.id
  BY <1>0, <1>3 DEF Begun
<1>7. \E n \in ControlMessages :
        /\ ctl' = Append(ctl, n)
        /\ n.type = "start" => n.id = mic.id + 1 /\ mic'.id = n.id
        /\ n.type = "end" => n.acked.id = 0 \/ n.acked \in Acknowledged
  BY <1>1, <1>3, <1>4
<1> QED BY <1>0, <1>1, <1>3, <1>5, <1>6, <1>7, SayStep

LEMMA EndsStep ==
  ASSUME UploadInv, SpeechEnds \/ Finalize \/ CaptureTimeout PROVE UploadInv'
<1>0. /\ MaxCaptures \in Nat /\ mic \in MicStates /\ Begun /\ back \in Seq(BackMessages)
      /\ mic.id \in Nat
  BY UploadFacts
<1>1. CASE CaptureTimeout
  BY <1>0, <1>1, FinishStep DEF CaptureTimeout
<1>2. CASE Finalize
  <2> DEFINE m == [mic EXCEPT !.finalize = FALSE]
  <2>1. /\ m \in MicStates /\ m.id = mic.id /\ m.buffer = mic.buffer
        /\ m.started = mic.started
    BY <1>0 DEF MicStates
  <2>2. /\ UNCHANGED <<kind, captured, ctl, back, socket, active, turns>>
        /\ BeginFinish(m) \/ (mic' = m /\ UNCHANGED <<post, bodies>>)
    BY <1>2 DEF Finalize
  <2> HIDE DEF m
  <2>3. CASE BeginFinish(m)
    BY <2>1, <2>2, <2>3, FinishStep
  <2>4. CASE mic' = m /\ UNCHANGED <<post, bodies>>
    <3>1. Begun'
      BY <1>0, <2>1, <2>4 DEF Begun
    <3> QED BY <1>0, <2>1, <2>2, <2>4, <3>1, SayStep
  <2> QED BY <2>2, <2>3, <2>4
<1>3. CASE SpeechEnds
  <2> DEFINE m == [mic EXCEPT !.quiet = TRUE]
  <2>1. /\ m \in MicStates /\ m.id = mic.id /\ m.buffer = mic.buffer
        /\ m.started = mic.started
    BY <1>0 DEF MicStates
  <2>2. /\ UNCHANGED <<kind, captured, back, socket, active, turns>>
        /\ \/ BeginFinish(m) /\ UNCHANGED ctl
           \/ ReportSpeechEnd(m) /\ UNCHANGED <<post, bodies>>
    BY <1>3 DEF SpeechEnds
  <2> HIDE DEF m
  <2>3. CASE BeginFinish(m) /\ UNCHANGED ctl
    BY <2>1, <2>2, <2>3, FinishStep
  <2>4. CASE ReportSpeechEnd(m) /\ UNCHANGED <<post, bodies>>
    <3>1. CASE mic' = m /\ UNCHANGED ctl
      <4>1. Begun'
        BY <1>0, <2>1, <3>1 DEF Begun
      <4> QED BY <1>0, <2>1, <2>2, <2>4, <3>1, <4>1, SayStep
    <3>2. CASE /\ m.started /\ mic' = [m EXCEPT !.reported = TRUE]
               /\ ctl' = Append(ctl, [type |-> "speech_ended", id |-> m.id])
      <4>1. /\ mic' \in MicStates /\ mic'.id = mic.id /\ mic'.buffer = mic.buffer
            /\ mic'.started = mic.started
        BY <2>1, <3>2 DEF MicStates
      <4>2. Begun' /\ m.id \in CaptureIds
        BY <1>0, <2>1, <3>2, <4>1 DEF Begun, CaptureIds, MicStates
      <4> DEFINE e == [type |-> "speech_ended", id |-> m.id]
      <4>3. e \in ControlMessages /\ e.type = "speech_ended" /\ ctl' = Append(ctl, e)
        BY <3>2, <4>2 DEF ControlMessages
      <4> HIDE DEF e
      <4>4. \E n \in ControlMessages :
              /\ ctl' = Append(ctl, n)
              /\ n.type = "start" => n.id = mic.id + 1 /\ mic'.id = n.id
              /\ n.type = "end" => n.acked.id = 0 \/ n.acked \in Acknowledged
        BY <4>3
      <4> QED BY <1>0, <2>2, <2>4, <4>1, <4>2, <4>4, SayStep
    <3> QED BY <2>4, <3>1, <3>2 DEF ReportSpeechEnd
  <2> QED BY <2>2, <2>3, <2>4
<1> QED BY <1>1, <1>2, <1>3

LEMMA SendEndStep == UploadInv /\ SendEnd => UploadInv'
<1> SUFFICES ASSUME UploadInv, SendEnd PROVE UploadInv'
  OBVIOUS
<1>0. /\ MaxCaptures \in Nat /\ mic \in MicStates /\ post \in Posts /\ Begun
      /\ back \in Seq(BackMessages) /\ mic.id \in Nat /\ Clip(post.id, post.audio) \in Clips
  BY UploadFacts
<1> DEFINE a == IF post.ok THEN [id |-> post.id, audio |-> post.audio]
                ELSE [id |-> 0, audio |-> <<>>]
           m == [type |-> "end", id |-> mic.id, acked |-> a]
<1>1. /\ ctl' = Append(ctl, m) /\ mic' = [mic EXCEPT !.finished = TRUE]
      /\ post' = NoPost
      /\ UNCHANGED <<kind, captured, back, bodies, socket, active, turns>>
  BY DEF SendEnd
<1>2. a \in Clips /\ (a.id = 0 \/ a \in Acknowledged)
  <2>1. [id |-> 0, audio |-> <<>>] \in Clips
    BY <1>0 DEF Clips
  <2>2. post.ok => a = Clip(post.id, post.audio) /\ a \in Acknowledged
    BY DEF Acknowledged, Clip
  <2> QED BY <1>0, <2>1, <2>2
<1> HIDE DEF a
<1>3. m \in ControlMessages /\ m.type = "end" /\ m.acked = a
  <2>1. mic.id \in 0 .. MaxCaptures
    BY <1>0 DEF MicStates
  <2> QED BY <1>2, <2>1 DEF ControlMessages
<1> HIDE DEF m
<1>4. /\ mic' \in MicStates /\ mic'.id = mic.id /\ mic'.buffer = mic.buffer
      /\ mic'.started = mic.started
  BY <1>0, <1>1 DEF MicStates
<1>5. Begun' /\ mic.id <= mic'.id
  BY <1>0, <1>4 DEF Begun
<1>6. \E n \in ControlMessages :
        /\ ctl' = Append(ctl, n)
        /\ n.type = "start" => n.id = mic.id + 1 /\ mic'.id = n.id
        /\ n.type = "end" => n.acked.id = 0 \/ n.acked \in Acknowledged
  BY <1>1, <1>2, <1>3
<1> QED BY <1>0, <1>1, <1>4, <1>5, <1>6, SayStep

LEMMA CancelStep ==
  ASSUME UploadInv, CancelCapture \/ Played PROVE UploadInv'
<1>0. /\ MaxCaptures \in Nat /\ mic \in MicStates /\ Begun /\ back \in Seq(BackMessages)
      /\ mic.id \in Nat /\ mic.playing \in Nat /\ mic.playing <= MaxCaptures
  BY UploadFacts
<1>1. PICK type \in {"cancel", "played"}, id \in CaptureIds :
        /\ ctl' = Append(ctl, [type |-> type, id |-> id])
        /\ mic' = ResetCapture \/ mic' = [mic EXCEPT !.playing = 0]
        /\ UNCHANGED <<kind, post, captured, back, bodies, socket, active, turns>>
  <2>1. CASE CancelCapture
    <3>1. mic.id \in CaptureIds
      BY <1>0, <2>1 DEF CancelCapture, Begun, CaptureIds, MicStates
    <3> QED BY <2>1, <3>1 DEF CancelCapture
  <2>2. CASE Played
    <3>1. mic.playing \in CaptureIds
      BY <1>0, <2>2 DEF Played, CaptureIds
    <3> QED BY <2>2, <3>1 DEF Played
  <2> QED BY <2>1, <2>2
<1> DEFINE m == [type |-> type, id |-> id]
<1>2. m \in ControlMessages /\ m.type \in {"cancel", "played"} /\ ctl' = Append(ctl, m)
  BY <1>1 DEF ControlMessages
<1> HIDE DEF m
<1>3. \E n \in ControlMessages :
        /\ ctl' = Append(ctl, n)
        /\ n.type = "start" => n.id = mic.id + 1 /\ mic'.id = n.id
        /\ n.type = "end" => n.acked.id = 0 \/ n.acked \in Acknowledged
  BY <1>2
<1>4. /\ mic' \in MicStates /\ mic'.id = mic.id
      /\ mic'.buffer = <<>> \/ mic'.buffer = mic.buffer
      /\ Begun'
  <2>1. CASE mic' = ResetCapture
    BY <2>1, ResetIs DEF Begun
  <2>2. CASE mic' = [mic EXCEPT !.playing = 0]
    <3>1. /\ mic' \in MicStates /\ mic'.id = mic.id /\ mic'.buffer = mic.buffer
          /\ mic'.started = mic.started
      BY <1>0, <2>2, SMTT(30) DEF MicStates
    <3> QED BY <1>0, <3>1 DEF Begun
  <2> QED BY <1>1, <2>1, <2>2
<1>5. mic.id <= mic'.id
  BY <1>0, <1>4
<1> QED BY <1>0, <1>1, <1>3, <1>4, <1>5, SayStep

LEMMA ReceiveStep == UploadInv /\ Receive => UploadInv'
<1> SUFFICES ASSUME UploadInv, Receive PROVE UploadInv'
  OBVIOUS
<1>0. /\ MaxCaptures \in Nat /\ mic \in MicStates /\ Begun /\ back \in Seq(BackMessages)
      /\ mic.id \in Nat
  BY UploadFacts
<1>1. /\ back # <<>> /\ back' = Tail(back)
      /\ UNCHANGED <<kind, post, captured, ctl, bodies, socket, active, turns>>
  BY DEF Receive
<1>2. back[1] \in BackMessages /\ back' \in Seq(BackMessages)
  <2>1. Len(back) \in Nat \ {0}
    BY <1>0, <1>1, EmptySeq
  <2> QED BY <1>0, <1>1, <2>1, ElementOfSeq, HeadTailProperties
<1>3. /\ back[1].type \in {"finalize", "ready", "followup", "over"}
      /\ back[1].id \in 0 .. MaxCaptures
  BY <1>2 DEF BackMessages
<1>4. \/ mic' = [mic EXCEPT !.finalize = TRUE]
      \/ mic' = [mic EXCEPT !.playing = back[1].id]
      \/ mic' = Resume \/ mic' = mic \/ mic' = ResetCapture
  BY <1>3 DEF Receive
<1>5. /\ mic' \in MicStates /\ mic'.id = mic.id
      /\ mic'.buffer = <<>> \/ mic'.buffer = mic.buffer
      /\ Begun'
  <2>1. CASE mic' = ResetCapture
    BY <2>1, ResetIs DEF Begun
  <2>2. CASE \/ mic' = [mic EXCEPT !.finalize = TRUE]
             \/ mic' = [mic EXCEPT !.playing = back[1].id]
             \/ mic' = Resume \/ mic' = mic
    <3>1. /\ mic' \in MicStates /\ mic'.id = mic.id /\ mic'.buffer = mic.buffer
          /\ mic'.started = mic.started
      BY <1>0, <1>3, <2>2 DEF MicStates, Resume
    <3> QED BY <1>0, <3>1 DEF Begun
  <2> QED BY <1>4, <2>1, <2>2
<1>6. mic.id <= mic'.id
  BY <1>0, <1>5
<1> QED BY <1>0, <1>1, <1>2, <1>5, <1>6, SayStep

LEMMA PostFailsStep == UploadInv /\ PostFails => UploadInv'
<1> SUFFICES ASSUME UploadInv, PostFails PROVE UploadInv'
  OBVIOUS
<1>0. /\ MaxCaptures \in Nat /\ mic \in MicStates /\ post \in Posts /\ Begun
      /\ back \in Seq(BackMessages) /\ mic.id \in Nat /\ bodies \subseteq Clips
  BY UploadFacts
<1>1. /\ post' = [post EXCEPT !.at = "answered"] /\ bodies' \subseteq bodies
      /\ UNCHANGED <<kind, mic, captured, ctl, back, socket, active, turns>>
  BY DEF PostFails
<1>2. /\ post' \in Posts /\ post'.id = post.id /\ post'.audio = post.audio
      /\ post'.ok = post.ok
  BY <1>0, <1>1 DEF Posts
<1>3. Begun' /\ mic.id <= mic'.id
  BY <1>0, <1>1 DEF Begun
<1> QED BY <1>0, <1>1, <1>2, <1>3, FirmwareMoves

(* Sessions and what became of their audio, when a step concerns neither.  *)
LEMMA SessionsStay ==
  ASSUME UploadInv, UploadTypes', mic'.id = mic.id,
         UNCHANGED <<ctl, active, turns, post, bodies>>
  PROVE  StartedOnce' /\ AcceptedIsKept' /\ AcceptedIsTranscribed'
<1>1. StartedOnce'
  BY DEF UploadInv, StartedOnce, StartUnderWay
<1>2. AcceptedIsKept'
  <2>1. Acknowledged' = Acknowledged
    BY DEF Acknowledged
  <2>2. \A c : Cared(c) => Cared(c)'
    BY DEF Cared, Buffered, Transcribed, IsOver, IsActive, StartUnderWay, Capturing
  <2> QED BY <2>1, <2>2 DEF UploadInv, AcceptedIsKept
<1>3. AcceptedIsTranscribed'
  BY DEF UploadInv, AcceptedIsTranscribed
<1> QED BY <1>1, <1>2, <1>3

LEMMA HearStep == UploadInv /\ Hear => UploadInv'
<1> SUFFICES ASSUME UploadInv, Hear PROVE UploadInv'
  OBVIOUS
<1>0. /\ mic \in MicStates /\ Begun /\ mic.id \in Nat /\ UploadTypes /\ OwnAudio /\ OneStream
      /\ captured \in Seq([id : CaptureIds, followup : BOOLEAN]) /\ Len(captured) \in Nat
      /\ mic.buffer \in Seq(Nat) /\ Len(mic.buffer) \in Nat /\ socket \in Seq(Nat)
      /\ kind.upload \in {"http", "socket"}
  BY UploadFacts, UploadAssumption, LenProperties DEF UploadInv, UploadTypes, MicStates
<1> DEFINE n == Len(captured) + 1
           f == [id |-> mic.id, followup |-> mic.followup]
<1>1. /\ mic.started /\ captured' = Append(captured, f)
      /\ IF kind.upload = "http"
           THEN mic' = [mic EXCEPT !.buffer = Append(@, n)] /\ UNCHANGED socket
           ELSE socket' = Append(socket, n) /\ UNCHANGED mic
      /\ UNCHANGED <<kind, post, ctl, back, bodies, active, turns>>
  BY DEF Hear
<1>2. f \in [id : CaptureIds, followup : BOOLEAN] /\ f.id = mic.id
  BY <1>0, <1>1 DEF Begun, CaptureIds, MicStates
<1> HIDE DEF f
<1>3. /\ captured' \in Seq([id : CaptureIds, followup : BOOLEAN])
      /\ Len(captured') = Len(captured) + 1 /\ captured'[n] = f
      /\ \A i \in Frames : captured'[i] = captured[i]
  BY <1>0, <1>1, <1>2, AppendProperties DEF Frames
<1>4. /\ Append(mic.buffer, n) \in Seq(Nat) /\ Append(socket, n) \in Seq(Nat)
      /\ Len(Append(mic.buffer, n)) = Len(mic.buffer) + 1
      /\ Append(mic.buffer, n)[Len(mic.buffer) + 1] = n
      /\ \A i \in 1 .. Len(mic.buffer) : Append(mic.buffer, n)[i] = mic.buffer[i]
  <2>1. n \in Nat
    BY <1>0
  <2> HIDE DEF n
  <2> QED BY <1>0, <2>1, AppendProperties
<1>5. /\ mic' \in MicStates /\ mic'.id = mic.id /\ mic'.started
      /\ kind.upload = "http" => mic'.buffer = Append(mic.buffer, n) /\ socket' = socket
      /\ kind.upload # "http" => mic' = mic /\ socket' = Append(socket, n)
  BY <1>0, <1>1, <1>4 DEF MicStates
<1>6. UploadTypes'
  <2>1. socket' \in Seq(Nat)
    BY <1>0, <1>4, <1>5
  <2> QED BY <1>0, <1>1, <1>3, <1>5, <2>1 DEF UploadTypes
<1>7. Begun'
  <2>1. mic.id > 0
    BY <1>0, <1>1 DEF Begun
  <2> QED BY <1>5, <2>1 DEF Begun
<1>8. StartedOnce' /\ AcceptedIsKept' /\ AcceptedIsTranscribed'
  BY <1>1, <1>5, <1>6, SessionsStay
<1>9. OwnAudio'
  <2> SUFFICES ASSUME kind.upload = "http"
               PROVE  socket' = <<>> /\ \A c \in ClipsHeld' : CapturedFor(c.audio, c.id)'
    BY <1>1 DEF OwnAudio
  <2>1. \A i \in Frames : i \in Frames' /\ captured'[i] = captured[i]
    BY <1>0, <1>3 DEF Frames
  <2>2. ASSUME NEW c \in ClipsHeld' PROVE CapturedFor(c.audio, c.id)'
    <3>1. \/ c = Clip(mic'.id, mic'.buffer) \/ c = Clip(post.id, post.audio)
          \/ c = Clip(active.id, active.heard) \/ c \in bodies
          \/ \E t \in 1 .. Len(turns) : c = Clip(turns[t].id, turns[t].audio)
      BY <1>1 DEF ClipsHeld
    <3>2. CASE c \in ClipsHeld
      <4>1. CapturedFor(c.audio, c.id)
        BY <1>0, <3>2 DEF OwnAudio
      <4> QED BY <2>1, <4>1 DEF CapturedFor
    <3>3. CASE c = Clip(mic'.id, mic'.buffer)
      <4>1. Clip(mic.id, mic.buffer) \in ClipsHeld
        BY DEF ClipsHeld
      <4>2. CapturedFor(mic.buffer, mic.id)
        BY <1>0, <4>1 DEF OwnAudio, Clip
      <4>3. /\ DOMAIN mic.buffer = 1 .. Len(mic.buffer)
            /\ DOMAIN mic'.buffer = 1 .. Len(mic.buffer) + 1
        BY <1>0, <1>4, <1>5, LenProperties
      <4>4. n \in Frames' /\ captured'[n].id = mic.id
        BY <1>0, <1>2, <1>3 DEF Frames
      <4>5. ASSUME NEW i \in 1 .. Len(mic.buffer) + 1
            PROVE  mic'.buffer[i] \in Frames' /\ captured'[mic'.buffer[i]].id = mic.id
        <5>1. CASE i \in 1 .. Len(mic.buffer)
          <6>1. mic'.buffer[i] = mic.buffer[i]
            BY <1>4, <1>5, <5>1
          <6> QED BY <2>1, <4>2, <4>3, <5>1, <6>1 DEF CapturedFor
        <5>2. CASE i = Len(mic.buffer) + 1
          BY <1>4, <1>5, <4>4, <5>2
        <5>3. i \in 1 .. Len(mic.buffer) \/ i = Len(mic.buffer) + 1
          BY <1>0
        <5> QED BY <5>1, <5>2, <5>3
      <4>6. c.audio = mic'.buffer /\ c.id = mic.id
        BY <1>5, <3>3 DEF Clip
      <4> QED BY <4>3, <4>5, <4>6 DEF CapturedFor
    <3> QED BY <3>1, <3>2, <3>3 DEF ClipsHeld
  <2> QED BY <1>0, <1>5, <2>2 DEF OwnAudio
<1>10. OneStream'
  <2>1. kind.upload = "socket" =>
          /\ bodies' = {} /\ post'.audio = <<>> /\ mic'.buffer = <<>>
          /\ socket' = Append(socket, n) /\ active' = active
    BY <1>0, <1>1, <1>5 DEF OneStream
  <2>2. Len(captured) <= Len(captured') /\ kind' = kind
    BY <1>0, <1>1, <1>3
  <2> QED BY <1>3, <1>6, <2>1, <2>2, StreamMoves
<1> QED BY <1>6, <1>7, <1>8, <1>9, <1>10 DEF UploadInv

(* What is left of the control messages when one is handled.               *)
LEMMA ControlLeft ==
  ASSUME UploadInv, ctl' = ctl \/ (ctl # <<>> /\ ctl' = Tail(ctl))
  PROVE  /\ ctl' \in Seq(ControlMessages) /\ Len(ctl') \in Nat
         /\ \A i \in 1 .. Len(ctl') :
              \/ i \in 1 .. Len(ctl) /\ ctl'[i] = ctl[i] /\ ctl' = ctl
              \/ i + 1 \in 1 .. Len(ctl) /\ ctl'[i] = ctl[i + 1] /\ ctl' = Tail(ctl)
         /\ ctl # <<>> /\ ctl' = Tail(ctl) =>
              /\ 1 \in 1 .. Len(ctl) /\ ctl[1] \in ControlMessages
              /\ \A i \in 1 .. Len(ctl') : i + 1 \in 1 .. Len(ctl) /\ ctl'[i] = ctl[i + 1]
<1>0. ctl \in Seq(ControlMessages) /\ Len(ctl) \in Nat
  BY UploadFacts, LenProperties
<1>1. CASE ctl' = ctl
  <2>1. ctl # <<>> => Len(ctl) \in Nat \ {0} /\ Len(Tail(ctl)) = Len(ctl) - 1
    BY <1>0, EmptySeq, HeadTailProperties
  <2>2. ctl # <<>> => Tail(ctl) # ctl
    BY <1>0, <2>1
  <2> QED BY <1>0, <1>1, <2>2
<1>2. CASE ctl # <<>> /\ ctl' = Tail(ctl)
  <2>1. Len(ctl) \in Nat \ {0}
    BY <1>0, <1>2, EmptySeq
  <2>2. /\ ctl' \in Seq(ControlMessages) /\ Len(ctl') = Len(ctl) - 1
        /\ \A i \in 1 .. Len(ctl') : ctl'[i] = ctl[i + 1]
    BY <1>0, <1>2, HeadTailProperties
  <2>3. \A i \in 1 .. Len(ctl') : i + 1 \in 1 .. Len(ctl)
    BY <2>1, <2>2
  <2>4. 1 \in 1 .. Len(ctl) /\ ctl[1] \in ControlMessages
    BY <1>0, <2>1, ElementOfSeq
  <2>5. Len(ctl') \in Nat
    BY <2>1, <2>2
  <2> QED BY <1>2, <2>2, <2>3, <2>4, <2>5
<1> QED BY <1>1, <1>2

(* A step of the backend that takes in no audio.                           *)
LEMMA BackendMoves ==
  ASSUME UploadInv, UNCHANGED <<kind, mic, post, captured, bodies, socket>>,
         back' \in Seq(BackMessages), active' \in Actives,
         ctl' = ctl \/ (ctl # <<>> /\ ctl' = Tail(ctl)),
         \/ turns' = turns
         \/ \E m \in ControlMessages :
              /\ m.type = "end" /\ m.acked \in Acknowledged
              /\ Capturing /\ active.id = m.id
              /\ turns' = Append(turns, [id |-> m.id, audio |-> active.heard,
                                         acked |-> m.acked]),
         active'.heard = <<>> \/ (active'.id = active.id /\ active'.heard = active.heard),
         active'.stage # "none" =>
           \/ IsActive(active'.id)
           \/ /\ ctl # <<>> /\ ctl' = Tail(ctl)
              /\ ctl[1].type = "start" /\ ctl[1].id = active'.id,
         Capturing => \/ active' = active \/ turns' # turns
                      \/ ~ (active'.stage # "none" /\ active'.id = active.id)
  PROVE  UploadInv'
<1>0. /\ UploadTypes /\ Begun /\ OwnAudio /\ OneStream /\ StartedOnce
      /\ mic.id \in Nat /\ active \in Actives /\ active.heard \in Seq(Nat)
      /\ turns \in Seq(TurnsHeard) /\ Len(turns) \in Nat /\ Len(captured) \in Nat
  BY UploadFacts, LenProperties DEF UploadInv, UploadTypes, Actives
<1>1. /\ ctl' \in Seq(ControlMessages) /\ Len(ctl') \in Nat
      /\ \A i \in 1 .. Len(ctl') :
           \/ i \in 1 .. Len(ctl) /\ ctl'[i] = ctl[i] /\ ctl' = ctl
           \/ i + 1 \in 1 .. Len(ctl) /\ ctl'[i] = ctl[i + 1] /\ ctl' = Tail(ctl)
      /\ ctl # <<>> /\ ctl' = Tail(ctl) =>
           /\ 1 \in 1 .. Len(ctl) /\ ctl[1] \in ControlMessages
           /\ \A i \in 1 .. Len(ctl') : i + 1 \in 1 .. Len(ctl) /\ ctl'[i] = ctl[i + 1]
  BY ControlLeft
<1>2. \/ turns' = turns
      \/ \E t \in TurnsHeard :
           /\ t.id = active.id /\ t.audio = active.heard
           /\ Len(turns') = Len(turns) + 1 /\ turns'[Len(turns) + 1] = t
           /\ turns' \in Seq(TurnsHeard)
           /\ \A i \in 1 .. Len(turns) : turns'[i] = turns[i]
  <2> SUFFICES ASSUME NEW m \in ControlMessages,
                      m.type = "end", m.acked \in Acknowledged, active.id = m.id,
                      turns' = Append(turns, [id |-> m.id, audio |-> active.heard,
                                              acked |-> m.acked])
               PROVE  <1>2!2
    OBVIOUS
  <2> DEFINE t == [id |-> m.id, audio |-> active.heard, acked |-> m.acked]
  <2>1. t \in TurnsHeard /\ t.id = active.id /\ t.audio = active.heard
    BY <1>0 DEF TurnsHeard, ControlMessages
  <2>2. turns' = Append(turns, t)
    OBVIOUS
  <2> HIDE DEF t
  <2> QED BY <1>0, <2>1, <2>2, AppendProperties
<1>3. UploadTypes'
  <2>1. turns' \in Seq(TurnsHeard)
    BY <1>0, <1>2 DEF UploadTypes
  <2> QED BY <1>0, <1>1, <2>1 DEF UploadTypes
<1>4. Begun'
  BY <1>0 DEF Begun
<1>5. \A i \in 1 .. Len(ctl') : ctl'[i].type = "start" =>
        /\ ctl'[i].id \in 1 .. mic'.id
        /\ ctl'[i].id > mic.id \/ StartUnderWay(ctl'[i].id)
  BY <1>0, <1>1 DEF StartUnderWay, StartedOnce
<1>6. \A i, j \in 1 .. Len(ctl') :
        ctl'[i].type = "start" /\ ctl'[j].type = "start" /\ ctl'[i].id = ctl'[j].id => i = j
  <2> SUFFICES ASSUME NEW i \in 1 .. Len(ctl'), NEW j \in 1 .. Len(ctl'),
                      ctl'[i].type = "start", ctl'[j].type = "start", ctl'[i].id = ctl'[j].id
               PROVE  i = j
    OBVIOUS
  <2>1. CASE ctl' = ctl
    BY <1>0, <2>1 DEF StartedOnce
  <2>2. CASE ctl # <<>> /\ ctl' = Tail(ctl)
    <3>1. /\ i + 1 \in 1 .. Len(ctl) /\ ctl'[i] = ctl[i + 1]
          /\ j + 1 \in 1 .. Len(ctl) /\ ctl'[j] = ctl[j + 1]
      BY <1>1, <2>2
    <3>2. i + 1 = j + 1
      BY <1>0, <3>1 DEF StartedOnce
    <3> QED BY <3>2
  <2> QED BY <2>1, <2>2
<1>7. ASSUME active'.stage # "none", ~ IsActive(active'.id)
      PROVE  /\ StartUnderWay(active'.id)
             /\ \A i \in 1 .. Len(ctl') : ctl'[i].type = "start" => ctl'[i].id # active'.id
  <2>1. /\ ctl # <<>> /\ ctl' = Tail(ctl)
        /\ ctl[1].type = "start" /\ ctl[1].id = active'.id
    BY <1>7
  <2>2. StartUnderWay(active'.id)
    BY <1>1, <2>1 DEF StartUnderWay
  <2>3. ASSUME NEW i \in 1 .. Len(ctl'), ctl'[i].type = "start", ctl'[i].id = active'.id
        PROVE  FALSE
    <3>1. i + 1 \in 1 .. Len(ctl) /\ ctl'[i] = ctl[i + 1] /\ 1 \in 1 .. Len(ctl)
      BY <1>1, <2>1
    <3>2. i + 1 = 1
      BY <1>0, <2>1, <2>3, <3>1 DEF StartedOnce
    <3> QED BY <3>2
  <2> QED BY <2>2, <2>3
<1>8. Capturing =>
        \/ active'.stage \in {"listening", "followup"} /\ active'.id = active.id
           /\ \E x \in Seq(Nat) : active'.heard = active.heard \o x
        \/ turns' # turns
        \/ ~ (active'.stage # "none" /\ active'.id = active.id)
  <2>1. active.heard \o <<>> = active.heard /\ <<>> \in Seq(Nat)
    BY <1>0, ConcatEmptySeq, EmptySeq
  <2> QED BY <2>1 DEF Capturing
<1>9. post'.id <= mic'.id /\ \A b \in bodies' : b.id <= mic'.id
  BY <1>0 DEF StartedOnce
<1>10. \A c \in Clips : c \in Acknowledged' => c \in Acknowledged
  BY <1>1, SMTT(30) DEF Acknowledged
<1>11. StartedOnce' /\ AcceptedIsKept' /\ AcceptedIsTranscribed'
  <2>1. mic.id <= mic'.id
    BY <1>0
  <2> QED BY <1>3, <1>5, <1>6, <1>7, <1>8, <1>9, <1>10, <2>1, SessionMoves
<1>12. OwnAudio'
  <2>1. ASSUME kind.upload = "http", NEW c \in ClipsHeld'
        PROVE  c \in ClipsHeld \/ c.audio = <<>>
    <3>1. \/ c = Clip(mic.id, mic.buffer) \/ c = Clip(post.id, post.audio)
          \/ c = Clip(active'.id, active'.heard) \/ c \in bodies
          \/ \E t \in 1 .. Len(turns') : c = Clip(turns'[t].id, turns'[t].audio)
      BY <2>1 DEF ClipsHeld
    <3>2. Clip(active.id, active.heard) \in ClipsHeld
          /\ \A t \in 1 .. Len(turns) : Clip(turns[t].id, turns[t].audio) \in ClipsHeld
      BY DEF ClipsHeld
    <3>3. CASE c = Clip(active'.id, active'.heard)
      BY <3>2, <3>3 DEF Clip
    <3>4. CASE \E t \in 1 .. Len(turns') : c = Clip(turns'[t].id, turns'[t].audio)
      <4>1. PICK t \in 1 .. Len(turns') : c = Clip(turns'[t].id, turns'[t].audio)
        BY <3>4
      <4>2. CASE t \in 1 .. Len(turns) /\ turns'[t] = turns[t]
        BY <3>2, <4>1, <4>2
      <4>3. CASE turns'[t].id = active.id /\ turns'[t].audio = active.heard
        BY <3>2, <4>1, <4>3
      <4>4. turns' = turns \/ t \in 1 .. Len(turns) \/ t = Len(turns) + 1
        BY <1>0, <1>2
      <4> QED BY <1>2, <4>2, <4>3, <4>4
    <3> QED BY <3>1, <3>3, <3>4 DEF ClipsHeld
  <2>2. kind.upload = "http" => socket' = <<>>
    BY <1>0 DEF OwnAudio
  <2> QED BY <2>1, <2>2, OwnAudioMoves
<1>13. OneStream'
  <2>1. kind.upload = "socket" => bodies' = {} /\ post'.audio = <<>> /\ mic'.buffer = <<>>
    BY <1>0 DEF OneStream
  <2>2. Len(captured) <= Len(captured')
    BY <1>0
  <2> QED BY <1>3, <2>1, <2>2, StreamMoves
<1> QED BY <1>3, <1>4, <1>11, <1>12, <1>13 DEF UploadInv

LEMMA SaysIs ==
  ASSUME UploadInv, NEW type \in {"finalize", "ready", "followup", "over"},
         NEW id \in 0 .. MaxCaptures
  PROVE  /\ Append(back, [type |-> type, id |-> id]) \in Seq(BackMessages)
         /\ Over(id) \in Seq(BackMessages)
<1>1. /\ [type |-> type, id |-> id] \in BackMessages
      /\ [type |-> "over", id |-> id] \in BackMessages
  BY DEF BackMessages
<1>2. back \in Seq(BackMessages)
  BY UploadFacts
<1> QED BY <1>1, <1>2, AppendProperties DEF Over

LEMMA ControlStep == UploadInv /\ HandleControl => UploadInv'
<1> SUFFICES ASSUME UploadInv, HandleControl PROVE UploadInv'
  OBVIOUS
<1> DEFINE m == ctl[1]
<1>0. /\ MaxCaptures \in Nat /\ active \in Actives /\ back \in Seq(BackMessages)
      /\ active.stage # "none" => active.id \in 1 .. mic.id /\ ~ StartUnderWay(active.id)
      /\ Append(turns, [id |-> m.id, audio |-> active.heard, acked |-> m.acked]) # turns
  <2>1. turns \in Seq(TurnsHeard) /\ Len(turns) \in Nat
    BY LenProperties DEF UploadInv, UploadTypes
  <2>2. \A t : Append(turns, t) # turns
    <3> SUFFICES ASSUME NEW t PROVE Append(turns, t) # turns
      OBVIOUS
    <3>1. Len(Append(turns, t)) = Len(turns) + 1
      BY <2>1
    <3> QED BY <2>1, <3>1
  <2> QED BY <2>2, UploadFacts DEF UploadInv, StartedOnce
<1>1. /\ ctl # <<>> /\ ctl' = Tail(ctl)
      /\ UNCHANGED <<kind, mic, post, captured, bodies, socket>>
  BY DEF HandleControl
<1>2. /\ m \in ControlMessages /\ 1 \in 1 .. Len(ctl)
      /\ m.type = "end" => m.acked \in Acknowledged
  BY <1>1, ControlLeft DEF Acknowledged
<1>3. m.id \in 0 .. MaxCaptures
  BY <1>0, <1>2 DEF ControlMessages, CaptureIds
<1>4. NoActive \in Actives /\ NoActive.heard = <<>> /\ NoActive.stage = "none"
  BY <1>0, EmptySeq DEF NoActive, Actives
<1>5. /\ Over(m.id) \in Seq(BackMessages)
      /\ Append(back, [type |-> "finalize", id |-> m.id]) \in Seq(BackMessages)
      /\ Append(back, [type |-> "ready", id |-> m.id]) \in Seq(BackMessages)
      /\ Append(back, [type |-> "followup", id |-> m.id]) \in Seq(BackMessages)
  BY <1>3, SaysIs
<1>6. CASE m.type = "start" /\ HandleStart(m)
  <2>1. CASE /\ active.stage = "none" \/ (active.stage = "listening" /\ active.heard = <<>>)
             /\ active' = [id |-> m.id, stage |-> "listening", heard |-> <<>>]
             /\ UNCHANGED <<back, turns>>
    <3>1. active' \in Actives /\ active'.heard = <<>> /\ active'.id = m.id
      BY <1>3, <2>1, EmptySeq DEF Actives
    <3>2. Capturing => active'.id # active.id
      BY <1>0, <1>2, <1>6, <3>1 DEF Capturing, StartUnderWay
    <3> QED BY <1>0, <1>1, <1>6, <2>1, <3>1, <3>2, BackendMoves
  <2>2. CASE back' = Over(m.id) /\ UNCHANGED <<active, turns>>
    BY <1>0, <1>1, <1>5, <2>2, BackendMoves DEF IsActive
  <2> QED BY <1>6, <2>1, <2>2 DEF HandleStart
<1>7. CASE m.type = "speech_ended" /\ HandleSpeechEnded(m)
  <2>1. UNCHANGED <<active, turns>> /\ back' \in Seq(BackMessages)
    BY <1>5, <1>7 DEF HandleSpeechEnded
  <2> QED BY <1>0, <1>1, <2>1, BackendMoves DEF IsActive
<1>8. CASE m.type = "end" /\ HandleEnd(m)
  <2>1. CASE back' = Over(m.id) /\ UNCHANGED <<active, turns>>
    BY <1>0, <1>1, <1>5, <2>1, BackendMoves DEF IsActive
  <2>2. CASE /\ RequireActive(m.id) /\ Capturing
             /\ turns' = Append(turns, [id |-> m.id, audio |-> active.heard,
                                        acked |-> m.acked])
             /\ \/ active' = NoActive /\ back' = Over(m.id)
                \/ /\ active' = [active EXCEPT !.stage = "responding"]
                   /\ back' = Append(back, [type |-> "ready", id |-> m.id])
    <3>1. /\ active' \in Actives
          /\ active'.heard = <<>> \/ (active'.id = active.id /\ active'.heard = active.heard)
          /\ active'.stage # "none" => active'.id = active.id /\ active.stage # "none"
      <4>1. CASE active' = NoActive
        BY <1>4, <4>1
      <4>2. CASE active' = [active EXCEPT !.stage = "responding"]
        BY <1>0, <2>2, <4>2 DEF Actives, RequireActive
      <4> QED BY <2>2, <4>1, <4>2
    <3>2. back' \in Seq(BackMessages) /\ turns' # turns /\ active.id = m.id
      BY <1>0, <1>5, <2>2 DEF RequireActive
    <3>3. active'.stage # "none" => IsActive(active'.id)
      BY <3>1 DEF IsActive
    <3> QED BY <1>1, <1>2, <1>8, <2>2, <3>1, <3>2, <3>3, BackendMoves
  <2> QED BY <1>8, <2>1, <2>2 DEF HandleEnd
<1>9. CASE m.type = "cancel" /\ HandleCancel(m)
  <2>1. /\ active' = NoActive \/ active' = active
        /\ back' = Over(m.id) /\ UNCHANGED turns
    BY <1>9 DEF HandleCancel
  <2>2. /\ active' \in Actives
        /\ active'.heard = <<>> \/ (active'.id = active.id /\ active'.heard = active.heard)
        /\ active'.stage # "none" => active' = active
    BY <1>0, <1>4, <2>1
  <2> QED BY <1>1, <1>5, <2>1, <2>2, BackendMoves DEF IsActive
<1>10. CASE m.type = "played" /\ HandlePlayed(m)
  <2>1. CASE UNCHANGED <<active, back, turns>>
    BY <1>0, <1>1, <2>1, BackendMoves DEF IsActive
  <2>2. CASE /\ active.stage = "responding" /\ UNCHANGED turns
             /\ active' = [active EXCEPT !.stage = "followup", !.heard = <<>>]
             /\ back' = Append(back, [type |-> "followup", id |-> m.id])
    <3>1. /\ active' \in Actives /\ active'.heard = <<>> /\ active'.id = active.id
          /\ ~ Capturing /\ IsActive(active'.id)
      BY <1>0, <2>2, EmptySeq DEF Actives, Capturing, IsActive
    <3> QED BY <1>1, <1>5, <2>2, <3>1, BackendMoves
  <2> QED BY <1>10, <2>1, <2>2 DEF HandlePlayed
<1> QED BY <1>6, <1>7, <1>8, <1>9, <1>10 DEF HandleControl

LEMMA TimesOutStep == UploadInv /\ (FollowupEnds \/ ListeningEnds) => UploadInv'
<1> SUFFICES ASSUME UploadInv, FollowupEnds \/ ListeningEnds PROVE UploadInv'
  OBVIOUS
<1>0. MaxCaptures \in Nat /\ active \in Actives /\ back \in Seq(BackMessages)
  BY UploadFacts
<1>1. /\ active' = NoActive /\ (back' = back \/ back' = Over(active.id))
      /\ UNCHANGED <<kind, mic, post, captured, ctl, bodies, socket, turns>>
  BY DEF FollowupEnds, ListeningEnds
<1>2. active.id \in 0 .. MaxCaptures
  BY <1>0 DEF Actives
<1>3. back' \in Seq(BackMessages)
  BY <1>0, <1>1, <1>2, SaysIs
<1>4. NoActive \in Actives /\ NoActive.heard = <<>> /\ NoActive.stage = "none"
  BY <1>0, EmptySeq DEF NoActive, Actives
<1> QED BY <1>1, <1>3, <1>4, BackendMoves

(* Everything under way is lost, but the post.                             *)
LEMMA LostStep == UploadInv /\ SocketLost => UploadInv'
<1> SUFFICES ASSUME UploadInv, SocketLost PROVE UploadInv'
  OBVIOUS
<1>0. /\ UploadTypes /\ OwnAudio /\ OneStream /\ StartedOnce
      /\ MaxCaptures \in Nat /\ mic.id \in Nat /\ Len(captured) \in Nat
  BY UploadFacts, LenProperties DEF UploadInv, UploadTypes
<1>1. /\ mic' = ResetCapture /\ active' = NoActive
      /\ ctl' = <<>> /\ back' = <<>> /\ socket' = <<>>
      /\ UNCHANGED <<kind, post, captured, bodies, turns>>
  BY DEF SocketLost
<1>2. /\ mic' \in MicStates /\ mic'.id = mic.id /\ mic'.buffer = <<>> /\ ~ mic'.started
  BY <1>1, ResetIs
<1>3. active' \in Actives /\ active'.heard = <<>> /\ active'.stage = "none" /\ active'.id = 0
  BY <1>0, <1>1, EmptySeq DEF NoActive, Actives
<1>4. UploadTypes'
  BY <1>0, <1>1, <1>2, <1>3, EmptySeq DEF UploadTypes
<1>5. Begun'
  BY <1>2 DEF Begun
<1>6. \A i : i \notin 1 .. Len(ctl')
  BY <1>1
<1>7. post'.id <= mic'.id /\ \A b \in bodies' : b.id <= mic'.id
  BY <1>0, <1>1, <1>2 DEF StartedOnce
<1>8. \A c \in Clips : c \in Acknowledged' => c \in Acknowledged
  BY <1>1, <1>6 DEF Acknowledged
<1>9. StartedOnce' /\ AcceptedIsKept' /\ AcceptedIsTranscribed'
  <2>1. mic.id <= mic'.id
    BY <1>0, <1>2
  <2> QED BY <1>1, <1>3, <1>4, <1>6, <1>7, <1>8, <2>1, SessionMoves
<1>10. OwnAudio'
  <2>1. ASSUME NEW c \in ClipsHeld' PROVE c \in ClipsHeld \/ c.audio = <<>>
    <3>1. \/ c = Clip(mic'.id, mic'.buffer) \/ c = Clip(active'.id, active'.heard)
          \/ c \in ClipsHeld
      BY <1>1 DEF ClipsHeld
    <3> QED BY <1>2, <1>3, <3>1 DEF Clip
  <2> QED BY <1>1, <2>1, OwnAudioMoves
<1>11. OneStream'
  <2>1. kind.upload = "socket" => bodies' = {} /\ post'.audio = <<>> /\ mic'.buffer = <<>>
    BY <1>0, <1>1, <1>2 DEF OneStream
  <2>2. Len(captured) <= Len(captured') /\ kind' = kind
    BY <1>0, <1>1
  <2> QED BY <1>1, <1>3, <1>4, <2>1, <2>2, StreamMoves
<1> QED BY <1>4, <1>5, <1>9, <1>10, <1>11 DEF UploadInv

(* The frames and bodies that come: the active session's buffer grows, or  *)
(* stays.                                                                  *)
LEMMA TakesInIs ==
  ASSUME UploadInv, NEW x \in Seq(Nat)
  PROVE  /\ TakesIn(x) \in Actives /\ TakesIn(x).id = active.id
         /\ TakesIn(x).stage = active.stage
         /\ TakesIn(x).heard = IF Capturing THEN active.heard \o x ELSE active.heard
<1>1. active \in Actives /\ active.heard \in Seq(Nat)
  BY UploadFacts DEF Actives
<1>2. active.heard \o x \in Seq(Nat)
  BY <1>1, ConcatProperties
<1> QED BY <1>1, <1>2 DEF TakesIn, Actives

LEMMA AudioMoves ==
  ASSUME UploadInv, UploadTypes', UNCHANGED <<kind, mic, captured, ctl, turns>>,
         post'.id = post.id, bodies' \subseteq bodies,
         active'.id = active.id, active'.stage = active.stage,
         active'.heard = active.heard
           \/ (Capturing /\ \E x \in Seq(Nat) : active'.heard = active.heard \o x),
         \A c \in Clips : c \in Acknowledged' => c \in Acknowledged \/ Buffered(c)'
  PROVE  StartedOnce' /\ AcceptedIsKept' /\ AcceptedIsTranscribed'
<1>0. StartedOnce /\ mic.id \in Nat /\ active.heard \in Seq(Nat)
  BY UploadFacts DEF UploadInv, Actives
<1>1. \A i \in 1 .. Len(ctl') : ctl'[i].type = "start" =>
        /\ ctl'[i].id \in 1 .. mic'.id
        /\ ctl'[i].id > mic.id \/ StartUnderWay(ctl'[i].id)
  BY <1>0 DEF StartUnderWay, StartedOnce
<1>2. \A i, j \in 1 .. Len(ctl') :
        ctl'[i].type = "start" /\ ctl'[j].type = "start" /\ ctl'[i].id = ctl'[j].id => i = j
  BY <1>0 DEF StartedOnce
<1>3. active'.stage # "none" => IsActive(active'.id)
  BY DEF IsActive
<1>4. Capturing =>
        /\ active'.stage \in {"listening", "followup"} /\ active'.id = active.id
        /\ \E x \in Seq(Nat) : active'.heard = active.heard \o x
  <2>1. active.heard \o <<>> = active.heard /\ <<>> \in Seq(Nat)
    BY <1>0, ConcatEmptySeq, EmptySeq
  <2> QED BY <2>1 DEF Capturing
<1>5. post'.id <= mic'.id /\ (\A b \in bodies' : b.id <= mic'.id) /\ mic.id <= mic'.id
  BY <1>0 DEF StartedOnce
<1> QED BY <1>1, <1>2, <1>3, <1>4, <1>5, SessionMoves

LEMMA BodyStep == UploadInv /\ HandleBody => UploadInv'
<1> SUFFICES ASSUME UploadInv, HandleBody PROVE UploadInv'
  OBVIOUS
<1>0. /\ UploadTypes /\ Begun /\ OwnAudio /\ OneStream /\ MaxCaptures \in Nat
      /\ active \in Actives /\ post \in Posts /\ bodies \subseteq Clips
      /\ back \in Seq(BackMessages) /\ Len(captured) \in Nat
      /\ kind.upload \in {"http", "socket"}
  BY UploadFacts, UploadAssumption, LenProperties DEF UploadInv, UploadTypes
<1>1. PICK body \in bodies :
    /\ bodies' = bodies \ {body}
    /\ IF RequireActive(body.id) THEN active' = TakesIn(body.audio) /\ UNCHANGED back
       ELSE back' = Over(body.id) /\ UNCHANGED active
    /\ post' = IF post.at = "posted" /\ [id |-> post.id, audio |-> post.audio] = body
                 THEN [post EXCEPT !.at = "answered", !.ok = Accepted(body)] ELSE post
    /\ UNCHANGED <<kind, mic, captured, ctl, socket, turns>>
  BY DEF HandleBody
<1>2. /\ body \in Clips /\ body.id \in 0 .. MaxCaptures /\ body.audio \in Seq(Nat)
      /\ body = Clip(body.id, body.audio)
  BY <1>0 DEF Clips, Clip
<1>3. /\ active' \in Actives /\ active'.id = active.id /\ active'.stage = active.stage
      /\ \/ active'.heard = active.heard
         \/ /\ RequireActive(body.id) /\ Capturing
            /\ active'.heard = active.heard \o body.audio
      /\ Accepted(body) => active'.heard = active.heard \o body.audio
      /\ back' \in Seq(BackMessages)
  <2>1. CASE RequireActive(body.id)
    <3>1. active' = TakesIn(body.audio) /\ back' = back
      BY <1>1, <2>1
    <3> QED BY <1>0, <1>2, <2>1, <3>1, TakesInIs DEF Accepted
  <2>2. CASE ~ RequireActive(body.id)
    <3>1. active' = active /\ back' = Over(body.id)
      BY <1>1, <2>2
    <3>2. back' \in Seq(BackMessages)
      BY <1>0, <1>2, <3>1, SaysIs
    <3> QED BY <1>0, <2>2, <3>1, <3>2 DEF Accepted
  <2> QED BY <2>1, <2>2
<1>4. /\ post' \in Posts /\ post'.id = post.id /\ post'.audio = post.audio
      /\ post'.ok => post.ok \/ (Clip(post.id, post.audio) = body /\ Accepted(body))
  <2>1. Accepted(body) \in BOOLEAN
    BY DEF Accepted, RequireActive, Capturing
  <2> QED BY <1>0, <1>1, <2>1 DEF Posts, Clip
<1>5. UploadTypes' /\ Begun'
  BY <1>0, <1>1, <1>3, <1>4 DEF UploadTypes, Begun
<1>6. \A c \in Clips : c \in Acknowledged' => c \in Acknowledged \/ Buffered(c)'
  <2> SUFFICES ASSUME NEW c \in Clips, c \in Acknowledged', c \notin Acknowledged
               PROVE  Buffered(c)'
    OBVIOUS
  <2>1. post'.ok /\ ~ post.ok /\ c = Clip(post.id, post.audio)
    BY <1>1, <1>4 DEF Acknowledged
  <2>2. c = body /\ Accepted(body)
    BY <1>4, <2>1
  <2>3. /\ Capturing /\ active.id = c.id /\ active'.heard = active.heard \o c.audio
        /\ c.audio \in Seq(Nat) /\ active.heard \in Seq(Nat)
    BY <1>0, <1>2, <1>3, <2>2 DEF Accepted, RequireActive, Actives
  <2>4. Within(c.audio, active'.heard)
    BY <2>3, WithinGrows
  <2> QED BY <1>3, <2>3, <2>4 DEF Buffered, Capturing
<1>7. StartedOnce' /\ AcceptedIsKept' /\ AcceptedIsTranscribed'
  <2>1. active'.heard = active.heard
        \/ (Capturing /\ \E x \in Seq(Nat) : active'.heard = active.heard \o x)
    BY <1>2, <1>3
  <2> QED BY <1>1, <1>3, <1>4, <1>5, <1>6, <2>1, AudioMoves
<1>8. OwnAudio'
  <2>1. /\ Clip(active.id, active.heard) \in ClipsHeld
        /\ Clip(body.id, body.audio) \in ClipsHeld
    BY <1>1, <1>2 DEF ClipsHeld
  <2>2. ASSUME NEW c \in ClipsHeld'
        PROVE  \/ c \in ClipsHeld
               \/ \E d, e \in ClipsHeld : /\ c.id = d.id /\ d.id = e.id
                                          /\ d.audio \in Seq(Nat) /\ e.audio \in Seq(Nat)
                                          /\ c.audio = d.audio \o e.audio
    <3>1. c = Clip(active.id, active'.heard) \/ c \in ClipsHeld
      BY <1>1, <1>3, <1>4 DEF ClipsHeld
    <3>2. CASE c = Clip(active.id, active.heard \o body.audio) /\ RequireActive(body.id)
      <4>1. body.id = active.id /\ active.heard \in Seq(Nat)
        BY <1>0, <3>2 DEF RequireActive, Actives
      <4> DEFINE d == Clip(active.id, active.heard)
                 e == Clip(body.id, body.audio)
      <4>2. /\ d \in ClipsHeld /\ e \in ClipsHeld /\ c.id = d.id /\ d.id = e.id
            /\ d.audio \in Seq(Nat) /\ e.audio \in Seq(Nat) /\ c.audio = d.audio \o e.audio
        BY <1>2, <2>1, <3>2, <4>1 DEF Clip
      <4> HIDE DEF d, e
      <4> QED BY <4>2
    <3> QED BY <1>3, <2>1, <3>1, <3>2
  <2>3. kind.upload = "http" => socket' = <<>>
    BY <1>0, <1>1 DEF OwnAudio
  <2> QED BY <1>1, <2>2, <2>3, OwnAudioMoves
<1>9. OneStream'
  <2>1. kind.upload # "socket"
    BY <1>0, <1>1 DEF OneStream
  <2> QED BY <1>1, <2>1 DEF OneStream
<1> QED BY <1>5, <1>7, <1>8, <1>9 DEF UploadInv

LEMMA FrameStep == UploadInv /\ HandleFrame => UploadInv'
<1> SUFFICES ASSUME UploadInv, HandleFrame PROVE UploadInv'
  OBVIOUS
<1>0. /\ UploadTypes /\ Begun /\ OwnAudio /\ OneStream
      /\ active \in Actives /\ socket \in Seq(Nat) /\ Len(captured) \in Nat
  BY UploadFacts, LenProperties DEF UploadInv, UploadTypes
<1>1. /\ socket # <<>> /\ socket' = Tail(socket)
      /\ active' = IF active.stage = "none" THEN active ELSE TakesIn(<<socket[1]>>)
      /\ UNCHANGED <<kind, mic, post, captured, ctl, back, bodies, turns>>
  BY DEF HandleFrame
<1>2. socket' \in Seq(Nat) /\ <<socket[1]>> \in Seq(Nat)
  <2>1. Len(socket) \in Nat \ {0}
    BY <1>0, <1>1, EmptySeq
  <2>2. socket[1] \in Nat
    BY <1>0, <2>1, ElementOfSeq
  <2> QED BY <1>0, <1>1, <2>2, HeadTailProperties
<1>3. /\ active' \in Actives /\ active'.id = active.id /\ active'.stage = active.stage
      /\ \/ active'.heard = active.heard
         \/ Capturing /\ active'.heard = active.heard \o <<socket[1]>>
  BY <1>0, <1>1, <1>2, TakesInIs
<1>4. UploadTypes' /\ Begun'
  BY <1>0, <1>1, <1>2, <1>3 DEF UploadTypes, Begun
<1>5. StartedOnce' /\ AcceptedIsKept' /\ AcceptedIsTranscribed'
  <2>1. Acknowledged' = Acknowledged
    BY <1>1 DEF Acknowledged
  <2> QED BY <1>1, <1>2, <1>3, <1>4, <2>1, AudioMoves
<1>6. OwnAudio'
  BY <1>0, <1>1 DEF OwnAudio
<1>7. OneStream'
  <2>1. kind.upload = "socket" => bodies' = {} /\ post'.audio = <<>> /\ mic'.buffer = <<>>
    BY <1>0, <1>1 DEF OneStream
  <2>2. Len(captured) <= Len(captured') /\ kind' = kind
    BY <1>0, <1>1
  <2> QED BY <1>1, <1>3, <1>4, <2>1, <2>2, StreamMoves
<1> QED BY <1>4, <1>5, <1>6, <1>7 DEF UploadInv

LEMMA UploadStep == UploadInv /\ (UploadNext \/ UNCHANGED uploadVars) => UploadInv'
<1> SUFFICES ASSUME UploadInv, UploadNext \/ UNCHANGED uploadVars PROVE UploadInv'
  OBVIOUS
<1>1. CASE UNCHANGED uploadVars
  <2>1. /\ UNCHANGED <<kind, mic, post, captured, ctl, back, bodies, socket>>
        /\ UNCHANGED <<active, turns>>
    BY <1>1 DEF uploadVars
  <2>2. /\ MaxCaptures \in Nat /\ mic \in MicStates /\ Begun /\ back \in Seq(BackMessages)
        /\ mic.id \in Nat
    BY UploadFacts
  <2>3. Begun' /\ mic.id <= mic'.id
    BY <2>1, <2>2 DEF Begun
  <2> QED BY <2>1, <2>2, <2>3, SayStep
<1> QED BY <1>1, StartStep, HearStep, EndsStep, PostFailsStep, SendEndStep, CancelStep,
           ReceiveStep, ControlStep, BodyStep, FrameStep, TimesOutStep, LostStep
        DEF UploadNext

LEMMA UploadShows ==
  UploadInv => UploadTypeOK /\ SessionsHearTheirOwn /\ FramesInOrder /\ AcceptedIsTranscribed
<1> SUFFICES ASSUME UploadInv
             PROVE  UploadTypeOK /\ SessionsHearTheirOwn /\ FramesInOrder
  BY DEF UploadInv
<1>0. /\ UploadTypes /\ OwnAudio /\ OneStream
      /\ active.heard \in Seq(Nat) /\ DOMAIN active.heard = 1 .. Len(active.heard)
      /\ Len(active.heard) \in Nat
      /\ turns \in Seq(TurnsHeard) /\ DOMAIN turns = 1 .. Len(turns)
      /\ captured \in Seq([id : CaptureIds, followup : BOOLEAN])
      /\ DOMAIN captured = 1 .. Len(captured)
  BY LenProperties DEF UploadInv, UploadTypes, Actives
<1>1. UploadTypeOK
  <2>1. \A n \in DOMAIN captured : captured[n] \in [id : CaptureIds, followup : BOOLEAN]
    BY <1>0, ElementOfSeq
  <2>2. \A n \in DOMAIN captured : captured[n].id \in 1 .. MaxCaptures
    BY <2>1 DEF CaptureIds
  <2> QED BY <1>0, <2>2 DEF UploadTypeOK, UploadTypes, Actives, MicStates, Posts
<1>2. SessionsHearTheirOwn
  <2> SUFFICES ASSUME kind.upload = "http" PROVE SessionsHearTheirOwn
    BY DEF SessionsHearTheirOwn
  <2>1. CapturedFor(active.heard, active.id)
    <3>1. Clip(active.id, active.heard) \in ClipsHeld
      BY DEF ClipsHeld
    <3> QED BY <1>0, <3>1 DEF OwnAudio, Clip
  <2>2. ASSUME NEW t \in DOMAIN turns PROVE CapturedFor(turns[t].audio, turns[t].id)
    <3>1. Clip(turns[t].id, turns[t].audio) \in ClipsHeld
      BY <1>0 DEF ClipsHeld
    <3> QED BY <1>0, <3>1 DEF OwnAudio, Clip
  <2> QED BY <2>1, <2>2 DEF SessionsHearTheirOwn, CapturedFor
<1>3. FramesInOrder
  <2> SUFFICES ASSUME kind.upload = "socket", NEW i \in 2 .. Len(active.heard)
               PROVE  active.heard[i - 1] < active.heard[i]
    BY DEF FramesInOrder
  <2>1. i - 1 \in 1 .. Len(active.heard) /\ i \in 1 .. Len(active.heard) /\ i - 1 < i
    BY <1>0
  <2> QED BY <1>0, <2>1 DEF OneStream
<1> QED BY <1>1, <1>2, <1>3

-----------------------------------------------------------------------------
(* WakeRecordings *)

Hearings ==
  [id : Heard \cup {0}, stage : {"none", "idle", "listening", "turn"},
   enrolled : BOOLEAN, placed : BOOLEAN, bytes : Nat, audio : Seq(Nat), special : BOOLEAN]

Captures == [accepted : BOOLEAN, audio : Seq(Nat), exists : BOOLEAN]
Chunks == [mark : Nat, audio : Seq(Nat)]
Vads == [open : Seq(Chunks), pending : Seq(Chunks), accepted : BOOLEAN]
VadFiles == [session : Heard, mark : Nat, audio : Seq(Nat)]
Recordings == [session : Heard, audio : Seq(Nat), special : BOOLEAN]

HearTypes ==
  /\ hearing \in Hearings /\ windows \in WindowSets
  /\ hearing.stage # "none" => hearing.id \in Heard
  /\ captures \in [Heard -> Captures] /\ vad \in [Heard -> Vads]
  /\ \A s \in Heard : Len(captures[s].audio) <= Preroll
  /\ vadFiles \in Seq(VadFiles) /\ wokenOnes \subseteq Heard /\ stream \subseteq Heard

DiskTypes ==
  /\ recordings \in Seq(Recordings) /\ day \in 0 .. MaxDay
  /\ wavs \cup storys \subseteq [of : 1 .. Len(recordings), day : 0 .. day]
  /\ sweep \in [left : SUBSET ({"wav", "json"} \X Nat), cutoff : Int] /\ sweep.cutoff <= day

(* Audio that is the session's last bytes, from a whole frame on.          *)
Run(audio, n) ==
  /\ Len(audio) <= n /\ (n - Len(audio)) % Frame = 0
  /\ \A i \in 1 .. Len(audio) : audio[i] = n - Len(audio) + i

(* Without an operator's window or an alarm, what the wake recorder and    *)
(* the session keep is one run up to the last chunk.                       *)
OneRun ==
  hearing.stage # "none" /\ ~ hearing.special =>
    /\ hearing.stage = "idle" => hearing.audio = <<>>
    /\ hearing.stage = "turn" /\ captures[hearing.id].accepted => hearing.audio = <<>>
    /\ hearing.stage = "idle" \/ captures[hearing.id].accepted =>
         Run(captures[hearing.id].audio \o hearing.audio, hearing.bytes)

(* The VAD chunks of a session, open, pending or written, share no byte.   *)
Apart(a, b) == \A i \in 1 .. Len(a), j \in 1 .. Len(b) : a[i] # b[j]

UpTo(chunks, n) ==
  \A i \in 1 .. Len(chunks) : \A k \in 1 .. Len(chunks[i].audio) : chunks[i].audio[k] <= n
AllApart(chunks) ==
  \A i, j \in 1 .. Len(chunks) : i # j => Apart(chunks[i].audio, chunks[j].audio)
BothApart(a, b) ==
  \A i \in 1 .. Len(a), j \in 1 .. Len(b) : Apart(a[i].audio, b[j].audio)
WrittenApart(chunks, files, s) ==
  \A i \in 1 .. Len(chunks), j \in 1 .. Len(files) :
    files[j].session = s => Apart(chunks[i].audio, files[j].audio)

FilesUpTo(files, s, n) ==
  \A i \in 1 .. Len(files) : files[i].session = s =>
    \A k \in 1 .. Len(files[i].audio) : files[i].audio[k] <= n

(* Of session s, with v open or pending and n bytes heard.                 *)
VadOk(v, files, s, n) ==
  /\ \A i, j \in 1 .. Len(v.open) : i # j => v.open[i].mark # v.open[j].mark
  /\ UpTo(v.open, n) /\ UpTo(v.pending, n)
  /\ FilesUpTo(files, s, n)
  /\ AllApart(v.open) /\ AllApart(v.pending) /\ BothApart(v.open, v.pending)
  /\ WrittenApart(v.open, files, s) /\ WrittenApart(v.pending, files, s)

FilesApart(files) ==
  \A i, j \in 1 .. Len(files) :
    i # j /\ files[i].session = files[j].session => Apart(files[i].audio, files[j].audio)

VadInv ==
  /\ FilesApart(vadFiles)
  /\ hearing.stage # "none" => VadOk(vad[hearing.id], vadFiles, hearing.id, hearing.bytes)
  /\ \A i \in 1 .. Len(vadFiles) :
       vadFiles[i].session <= hearing.id /\ vadFiles[i].session \in wokenOnes
  /\ \A s \in Heard : vad[s].accepted => vad[s].pending = <<>> /\ s \in wokenOnes

HearInv == HearTypes /\ HeldForTheActiveSession /\ OneRun /\ VadInv

(* The metadata is as new as the audio; and the sweep has yet to visit the *)
(* audio it would delete.                                                  *)
SweepInv ==
  /\ \A f \in wavs, g \in storys : f.of = g.of => f.day <= g.day
  /\ \A f \in wavs : f.day < sweep.cutoff => <<"wav", f.of>> \in sweep.left

DiskInv == DiskTypes /\ SweepInv /\ AudioHasItsStory /\ RecordingIsWhatWasHeard

RecordingsInv == HearInv /\ DiskInv

-----------------------------------------------------------------------------
(* WakeRecordings: whole frames *)

LEMMA Whole ==
  ASSUME NEW f \in Nat \ {0}, NEW x \in Nat
  PROVE  /\ x = f * (x \div f) + (x % f) /\ x % f \in 0 .. f - 1 /\ x \div f \in Nat
         /\ f * (x \div f) \in 0 .. x
<1>1. /\ x = f * (x \div f) + (x % f) /\ x % f \in 0 .. f - 1
  BY SMT
<1>2. x \div f \in Nat
  BY SMT
<1> QED BY <1>1, <1>2, SMT

LEMMA Multiple ==
  ASSUME NEW f \in Nat \ {0}, NEW k \in Nat
  PROVE  (f * k) % f = 0
OBVIOUS

LEMMA MultiplesAdd ==
  ASSUME NEW f \in Nat \ {0}, NEW a \in Nat, NEW b \in Nat, a % f = 0, b % f = 0
  PROVE  (a + b) % f = 0
<1>1. a = f * (a \div f) /\ b = f * (b \div f) /\ a \div f \in Nat /\ b \div f \in Nat
  BY Whole
<1>2. a + b = f * ((a \div f) + (b \div f))
  BY <1>1
<1>3. (a \div f) + (b \div f) \in Nat
  BY <1>1
<1>4. (f * ((a \div f) + (b \div f))) % f = 0
  BY <1>3, Multiple
<1> QED BY <1>2, <1>4

(* What is over, up to a whole frame.                                      *)
LEMMA UpToAFrame ==
  ASSUME NEW f \in Nat \ {0}, NEW e \in Nat
  PROVE  LET d == e + ((f - (e % f)) % f)
         IN /\ d \in Nat /\ d >= e /\ d < e + f /\ d % f = 0
<1> DEFINE r == e % f
           d == e + ((f - r) % f)
<1>1. r \in 0 .. f - 1 /\ e = f * (e \div f) + r /\ e \div f \in Nat
  BY Whole
<1> HIDE DEF r, d
<1> SUFFICES d \in Nat /\ d >= e /\ d < e + f /\ d % f = 0
  BY DEF r, d
<1>2. CASE r = 0
  <2>1. (f - r) % f = 0
    <3>1. f - r = f * 1
      BY <1>2
    <3> QED BY <3>1, Multiple
  <2>2. e % f = 0
    BY <1>2 DEF r
  <2>3. d = e
    BY <2>1 DEF d
  <2> QED BY <2>2, <2>3
<1>3. CASE r # 0
  <2>1. f - r \in 1 .. f - 1
    BY <1>1, <1>3
  <2>2. (f - r) % f = f - r
    BY <2>1
  <2>3. e + (f - r) = f * ((e \div f) + 1)
    BY <1>1
  <2>4. (e + (f - r)) % f = 0
    <3>1. (e \div f) + 1 \in Nat
      BY <1>1
    <3>2. (f * ((e \div f) + 1)) % f = 0
      BY <3>1, Multiple
    <3> QED BY <2>3, <3>2
  <2>5. /\ e + (f - r) \in Nat /\ e + (f - r) >= e /\ e + (f - r) < e + f
    BY <2>1
  <2>6. d = e + (f - r)
    BY <2>2 DEF d
  <2> QED BY <2>4, <2>5, <2>6
<1> QED BY <1>2, <1>3

LEMMA RecordingsConstants ==
  /\ Frame \in Nat \ {0} /\ Preroll \in Nat /\ Preroll >= Frame /\ MaxBytes \in Nat
  /\ MaxDay \in Nat /\ ChunkBytes \subseteq Nat \ {0} /\ VadMarks \subseteq Nat
  /\ Heard \subseteq Nat \ {0}
<1>1. Cardinality(Heard) \in Nat
  BY RecordingsAssumption, FS_CardinalityType DEF RecordingsAssumption
<1>2. 1 .. Cardinality(Heard) \subseteq Nat \ {0}
  BY <1>1
<1> QED BY <1>2, RecordingsAssumption DEF RecordingsAssumption

(* _trim_capture keeps the last bytes, at most the preroll.                *)
LEMMA TrimKeeps ==
  ASSUME NEW audio \in Seq(Nat)
  PROVE  \E d \in 0 .. Len(audio) :
           /\ d % Frame = 0
           /\ TrimCapture(audio) \in Seq(Nat) /\ Len(TrimCapture(audio)) = Len(audio) - d
           /\ Len(audio) - d <= Preroll
           /\ \A i \in 1 .. Len(audio) - d : TrimCapture(audio)[i] = audio[d + i]
<1> DEFINE e == Len(audio) - Preroll
           d == e + ((Frame - (e % Frame)) % Frame)
<1>0. Frame \in Nat \ {0} /\ Preroll \in Nat /\ Preroll >= Frame /\ Len(audio) \in Nat /\ e \in Int
  BY RecordingsConstants, LenProperties
<1>1. CASE e <= 0
  <2>1. TrimCapture(audio) = audio
    BY <1>1 DEF TrimCapture
  <2>2. 0 \in 0 .. Len(audio) /\ 0 % Frame = 0 /\ Len(audio) <= Preroll
    BY <1>0, <1>1
  <2>3. WITNESS 0 \in 0 .. Len(audio)
  <2> QED BY <1>0, <2>1, <2>2
<1>2. CASE e > 0
  <2>0. e \in Nat
    BY <1>0, <1>2
  <2> HIDE DEF e
  <2>1. d \in Nat /\ d >= e /\ d < e + Frame /\ d % Frame = 0
    BY <1>0, <2>0, UpToAFrame DEF d
  <2>2. TrimCapture(audio) = SubSeq(audio, d + 1, Len(audio))
    <3>1. TrimCapture(audio) = IF e <= 0 THEN audio ELSE SubSeq(audio, d + 1, Len(audio))
      BY Zenon DEF TrimCapture, d, e
    <3>2. ~ e <= 0
      BY <1>2, <2>0
    <3> QED BY <3>1, <3>2
  <2> HIDE DEF d
  <2>3. d \in 0 .. Len(audio) /\ Len(audio) - d <= Preroll
    BY <1>0, <2>1 DEF e
  <2>4. /\ SubSeq(audio, d + 1, Len(audio)) \in Seq(Nat)
        /\ Len(SubSeq(audio, d + 1, Len(audio))) = Len(audio) - d
        /\ \A i \in 1 .. Len(audio) - d : SubSeq(audio, d + 1, Len(audio))[i] = audio[d + i]
    BY <1>0, <2>3, SubSeqProperties
  <2> QED BY <2>1, <2>2, <2>3, <2>4
<1> QED BY <1>0, <1>1, <1>2

LEMMA TrimIs ==
  ASSUME NEW audio \in Seq(Nat)
  PROVE  /\ TrimCapture(audio) \in Seq(Nat) /\ Len(TrimCapture(audio)) <= Preroll
         /\ \A n \in Nat : Run(audio, n) => Run(TrimCapture(audio), n)
<1> DEFINE t == TrimCapture(audio)
<1>1. PICK d \in 0 .. Len(audio) :
        /\ d % Frame = 0 /\ t \in Seq(Nat) /\ Len(t) = Len(audio) - d
        /\ Len(audio) - d <= Preroll
        /\ \A i \in 1 .. Len(audio) - d : t[i] = audio[d + i]
  BY TrimKeeps
<1>2. Frame \in Nat \ {0} /\ Len(audio) \in Nat
  BY RecordingsConstants, LenProperties
<1> HIDE DEF t
<1>3. ASSUME NEW n \in Nat, Run(audio, n) PROVE Run(t, n)
  <2>1. /\ Len(audio) <= n /\ (n - Len(audio)) % Frame = 0
        /\ \A i \in 1 .. Len(audio) : audio[i] = n - Len(audio) + i
    BY <1>3 DEF Run
  <2>2. n - Len(audio) \in Nat /\ d \in Nat /\ n - Len(t) = (n - Len(audio)) + d
    BY <1>1, <1>2, <2>1
  <2>3. (n - Len(t)) % Frame = 0
    <3>1. ((n - Len(audio)) + d) % Frame = 0
      BY <1>1, <1>2, <2>1, <2>2, MultiplesAdd
    <3> QED BY <2>2, <3>1
  <2>4. \A i \in 1 .. Len(t) : t[i] = n - Len(t) + i
    BY <1>1, <1>2, <2>1, <2>2
  <2>5. Len(t) <= n
    BY <1>1, <1>2, <2>1
  <2> QED BY <2>3, <2>4, <2>5 DEF Run
<1> QED BY <1>1, <1>3 DEF t

(* The next bytes continue a run.                                          *)
LEMMA RunGoesOn ==
  ASSUME NEW audio \in Seq(Nat), NEW n \in Nat, NEW m \in Nat, Run(audio, n)
  PROVE  LET bytes == [i \in 1 .. m |-> n + i]
         IN bytes \in Seq(Nat) /\ Len(bytes) = m /\ Run(audio \o bytes, n + m)
<1> DEFINE bytes == [i \in 1 .. m |-> n + i]
<1>1. bytes \in Seq(Nat) /\ Len(bytes) = m /\ \A i \in 1 .. m : bytes[i] = n + i
  BY IsASeq DEF bytes
<1>2. Len(audio) \in Nat /\ Frame \in Nat \ {0}
  BY LenProperties, RecordingsConstants
<1>3. /\ Len(audio) <= n /\ (n - Len(audio)) % Frame = 0
      /\ \A i \in 1 .. Len(audio) : audio[i] = n - Len(audio) + i
  BY DEF Run
<1> HIDE DEF bytes
<1>4. /\ Len(audio \o bytes) = Len(audio) + m
      /\ \A i \in 1 .. Len(audio) + m :
           (audio \o bytes)[i] = IF i <= Len(audio) THEN audio[i] ELSE bytes[i - Len(audio)]
  BY <1>1, <1>2, ConcatProperties
<1>5. \A i \in 1 .. Len(audio) + m : (audio \o bytes)[i] = (n + m) - (Len(audio) + m) + i
  BY <1>1, <1>2, <1>3, <1>4
<1>6. (n + m) - (Len(audio) + m) = n - Len(audio) /\ Len(audio) + m <= n + m
  BY <1>2, <1>3
<1>7. Run(audio \o bytes, n + m)
  BY <1>3, <1>4, <1>5, <1>6 DEF Run
<1> QED BY <1>1, <1>7 DEF bytes

(* What is written of a run.                                               *)
LEMMA WholeIs ==
  ASSUME NEW audio \in Seq(Nat)
  PROVE  /\ WholeFrames(audio) \in Seq(Nat)
         /\ \A n \in Nat : Run(audio, n) =>
              /\ WholeFrames(audio) # <<>> => (WholeFrames(audio)[1] - 1) % Frame = 0
              /\ \A i \in 2 .. Len(WholeFrames(audio)) :
                   WholeFrames(audio)[i] = WholeFrames(audio)[i - 1] + 1
<1> DEFINE m == Frame * (Len(audio) \div Frame)
           w == SubSeq(audio, 1, m)
<1>1. Len(audio) \in Nat /\ Frame \in Nat \ {0} /\ m \in 0 .. Len(audio)
  BY LenProperties, RecordingsConstants, Whole
<1> HIDE DEF m
<1>2. w \in Seq(Nat) /\ Len(w) = m /\ \A i \in 1 .. m : w[i] = audio[i]
  BY <1>1, SubSeqProperties
<1>3. WholeFrames(audio) = w
  BY DEF WholeFrames, m, w
<1> HIDE DEF w
<1>4. ASSUME NEW n \in Nat, Run(audio, n)
      PROVE  /\ w # <<>> => (w[1] - 1) % Frame = 0
             /\ \A i \in 2 .. Len(w) : w[i] = w[i - 1] + 1
  <2>1. /\ Len(audio) <= n /\ (n - Len(audio)) % Frame = 0
        /\ \A i \in 1 .. Len(audio) : audio[i] = n - Len(audio) + i
    BY <1>4 DEF Run
  <2>2. ASSUME w # <<>> PROVE (w[1] - 1) % Frame = 0
    <3>1. m > 0
      BY <1>1, <1>2, <2>2, EmptySeq
    <3>2. 1 \in 1 .. m /\ 1 \in 1 .. Len(audio)
      BY <1>1, <3>1
    <3>3. w[1] = n - Len(audio) + 1
      BY <1>2, <2>1, <3>2
    <3>4. w[1] - 1 = n - Len(audio)
      BY <1>1, <3>3
    <3> QED BY <2>1, <3>4
  <2>3. ASSUME NEW i \in 2 .. Len(w) PROVE w[i] = w[i - 1] + 1
    <3>1. i \in 1 .. m /\ i - 1 \in 1 .. m /\ i \in 1 .. Len(audio) /\ i - 1 \in 1 .. Len(audio)
      BY <1>1, <1>2
    <3>2. w[i] = n - Len(audio) + i /\ w[i - 1] = n - Len(audio) + (i - 1)
      BY <1>2, <2>1, <3>1
    <3> QED BY <1>1, <3>2
  <2> QED BY <2>2, <2>3
<1> QED BY <1>2, <1>3, <1>4

-----------------------------------------------------------------------------
(* WakeRecordings: VAD chunks *)

(* What is left when one element is taken out.                             *)
LEMMA TakenOut ==
  ASSUME NEW S, NEW s \in Seq(S), NEW k \in 1 .. Len(s)
  PROVE  /\ RemoveAt(s, k) \in Seq(S) /\ Len(RemoveAt(s, k)) = Len(s) - 1
         /\ \A i \in 1 .. Len(s) - 1 :
              RemoveAt(s, k)[i] = s[IF i < k THEN i ELSE i + 1]
<1>1. Len(s) \in Nat /\ \A i \in 1 .. Len(s) : s[i] \in S
  BY LenProperties, ElementOfSeq
<1> DEFINE a == SubSeq(s, 1, k - 1)
           b == SubSeq(s, k + 1, Len(s))
<1>2. /\ a \in Seq(S) /\ Len(a) = k - 1
      /\ \A i \in 1 .. k - 1 : a[i] = s[i]
  BY <1>1, SubSeqProperties
<1>3. /\ b \in Seq(S) /\ Len(b) = Len(s) - k
      /\ \A i \in 1 .. Len(s) - k : b[i] = s[k + i]
  BY <1>1, SubSeqProperties
<1> HIDE DEF a, b
<1>4. /\ a \o b \in Seq(S) /\ Len(a \o b) = Len(s) - 1
      /\ \A i \in 1 .. Len(s) - 1 :
           (a \o b)[i] = IF i <= k - 1 THEN a[i] ELSE b[i - (k - 1)]
  BY <1>1, <1>2, <1>3, ConcatProperties, SMTT(30)
<1>5. \A i \in 1 .. Len(s) - 1 :
        (a \o b)[i] = s[IF i < k THEN i ELSE i + 1]
  BY <1>1, <1>2, <1>3, <1>4
<1>6. RemoveAt(s, k) = a \o b
  BY DEF RemoveAt, a, b
<1> QED BY <1>4, <1>5, <1>6

(* A session's files follow those there are.                               *)
LEMMA FilesAre ==
  ASSUME NEW f \in Seq(VadFiles), NEW s \in Heard, NEW c \in Seq(Chunks)
  PROVE  LET g == f \o FilesOf(s, c)
         IN /\ g \in Seq(VadFiles) /\ Len(g) = Len(f) + Len(c)
            /\ Len(f) \in Nat /\ Len(c) \in Nat
            /\ \A i \in 1 .. Len(f) : g[i] = f[i]
            /\ \A i \in 1 .. Len(c) :
                 g[Len(f) + i].session = s /\ g[Len(f) + i].audio = c[i].audio
<1> DEFINE h == FilesOf(s, c)
<1>1. /\ Len(f) \in Nat /\ Len(c) \in Nat /\ DOMAIN c = 1 .. Len(c)
      /\ \A i \in 1 .. Len(c) : c[i] \in Chunks
  BY LenProperties, ElementOfSeq
<1>2. h = [i \in 1 .. Len(c) |-> [session |-> s, mark |-> c[i].mark, audio |-> c[i].audio]]
  BY <1>1 DEF FilesOf
<1>3. \A i \in 1 .. Len(c) :
        [session |-> s, mark |-> c[i].mark, audio |-> c[i].audio] \in VadFiles
  BY <1>1 DEF Chunks, VadFiles
<1>4. h \in Seq(VadFiles) /\ Len(h) = Len(c)
  BY <1>1, <1>2, <1>3, IsASeq
<1>5. \A i \in 1 .. Len(c) : h[i].session = s /\ h[i].audio = c[i].audio
  BY <1>2
<1> HIDE DEF h
<1>6. /\ f \o h \in Seq(VadFiles) /\ Len(f \o h) = Len(f) + Len(c)
      /\ \A i \in 1 .. Len(f) + Len(c) :
           (f \o h)[i] = IF i <= Len(f) THEN f[i] ELSE h[i - Len(f)]
  <2>1. /\ f \o h \in Seq(VadFiles) /\ Len(f \o h) = Len(f) + Len(h)
        /\ \A i \in 1 .. Len(f) + Len(h) :
             (f \o h)[i] = IF i <= Len(f) THEN f[i] ELSE h[i - Len(f)]
    BY <1>4, ConcatProperties
  <2>2. Len(h) = Len(c)
    BY <1>4
  <2> QED BY <2>1, <2>2, Zenon
<1>7. \A i \in 1 .. Len(f) : (f \o h)[i] = f[i]
  BY <1>1, <1>6
<1>8. \A i \in 1 .. Len(c) : (f \o h)[Len(f) + i] = h[i]
  BY <1>1, <1>6
<1> QED BY <1>1, <1>5, <1>6, <1>7, <1>8 DEF h

LEMMA NoFiles ==
  ASSUME NEW f \in Seq(VadFiles), NEW s \in Heard
  PROVE  f \o FilesOf(s, <<>>) = f
<1>1. <<>> \in Seq(Chunks) /\ Len(<<>>) = 0
  BY EmptySeq
<1> DEFINE g == f \o FilesOf(s, <<>>)
<1>2. /\ g \in Seq(VadFiles) /\ Len(g) = Len(f) + 0 /\ Len(f) \in Nat
      /\ \A i \in 1 .. Len(f) : g[i] = f[i]
  <2> DEFINE c == <<>>
  <2>1. c \in Seq(Chunks) /\ Len(c) = 0
    BY <1>1
  <2> HIDE DEF c
  <2>2. LET h == f \o FilesOf(s, c)
        IN /\ h \in Seq(VadFiles) /\ Len(h) = Len(f) + Len(c) /\ Len(f) \in Nat
           /\ \A i \in 1 .. Len(f) : h[i] = f[i]
    BY <2>1, FilesAre
  <2> QED BY <2>1, <2>2 DEF c
<1>3. Len(g) = Len(f)
  BY <1>2
<1> HIDE DEF g
<1>4. g = f
  BY <1>2, <1>3, SeqEqual
<1> QED BY <1>4 DEF g

LEMMA ApartSymmetric ==
  ASSUME NEW a, NEW b, Apart(a, b) PROVE Apart(b, a)
BY DEF Apart

LEMMA BothSymmetric ==
  ASSUME NEW a, NEW b, BothApart(a, b) PROVE BothApart(b, a)
BY ApartSymmetric DEF BothApart

(* What is written stays apart from what is open or pending, and what is   *)
(* written twice never overlaps.                                           *)
LEMMA WrittenGrows ==
  ASSUME NEW f \in Seq(VadFiles), NEW s \in Heard, NEW c \in Seq(Chunks), NEW chunks,
         WrittenApart(chunks, f, s), BothApart(chunks, c)
  PROVE  WrittenApart(chunks, f \o FilesOf(s, c), s)
<1> DEFINE g == f \o FilesOf(s, c)
<1>1. /\ Len(g) = Len(f) + Len(c) /\ Len(f) \in Nat /\ Len(c) \in Nat
      /\ \A i \in 1 .. Len(f) : g[i] = f[i]
      /\ \A i \in 1 .. Len(c) : g[Len(f) + i].session = s /\ g[Len(f) + i].audio = c[i].audio
  BY FilesAre
<1> HIDE DEF g
<1>2. ASSUME NEW i \in 1 .. Len(chunks), NEW j \in 1 .. Len(g), g[j].session = s
      PROVE  Apart(chunks[i].audio, g[j].audio)
  <2>1. CASE j \in 1 .. Len(f)
    BY <1>1, <1>2, <2>1 DEF WrittenApart
  <2>2. CASE j - Len(f) \in 1 .. Len(c)
    <3>1. g[j].audio = c[j - Len(f)].audio
      BY <1>1, <2>2
    <3> QED BY <2>2, <3>1 DEF BothApart
  <2>3. j \in 1 .. Len(f) \/ j - Len(f) \in 1 .. Len(c)
    BY <1>1
  <2> QED BY <2>1, <2>2, <2>3
<1> QED BY <1>2 DEF WrittenApart, g

LEMMA FilesGrow ==
  ASSUME NEW f \in Seq(VadFiles), NEW s \in Heard, NEW c \in Seq(Chunks),
         FilesApart(f), AllApart(c), WrittenApart(c, f, s)
  PROVE  FilesApart(f \o FilesOf(s, c))
<1> DEFINE g == f \o FilesOf(s, c)
<1>1. /\ Len(g) = Len(f) + Len(c) /\ Len(f) \in Nat /\ Len(c) \in Nat
      /\ \A i \in 1 .. Len(f) : g[i] = f[i]
      /\ \A i \in 1 .. Len(c) : g[Len(f) + i].session = s /\ g[Len(f) + i].audio = c[i].audio
  BY FilesAre
<1> HIDE DEF g
<1>2. \A i \in 1 .. Len(g) : i \in 1 .. Len(f) \/ i - Len(f) \in 1 .. Len(c)
  BY <1>1
<1>3. \A i \in 1 .. Len(g) : i - Len(f) \in 1 .. Len(c) =>
        g[i].session = s /\ g[i].audio = c[i - Len(f)].audio
  <2>1. \A i \in 1 .. Len(g) : Len(f) + (i - Len(f)) = i
    BY <1>1
  <2> QED BY <1>1, <2>1
<1>4. ASSUME NEW i \in 1 .. Len(g), NEW j \in 1 .. Len(g), i # j, g[i].session = g[j].session
      PROVE  Apart(g[i].audio, g[j].audio)
  <2>1. CASE i \in 1 .. Len(f) /\ j \in 1 .. Len(f)
    BY <1>1, <1>4, <2>1 DEF FilesApart
  <2>2. CASE i \in 1 .. Len(f) /\ j - Len(f) \in 1 .. Len(c)
    <3>1. f[i].session = s /\ g[i].audio = f[i].audio /\ g[j].audio = c[j - Len(f)].audio
      BY <1>1, <1>3, <1>4, <2>2
    <3>2. Apart(c[j - Len(f)].audio, f[i].audio)
      BY <2>2, <3>1 DEF WrittenApart
    <3> QED BY <3>1, <3>2, ApartSymmetric
  <2>3. CASE i - Len(f) \in 1 .. Len(c) /\ j \in 1 .. Len(f)
    <3>1. f[j].session = s /\ g[j].audio = f[j].audio /\ g[i].audio = c[i - Len(f)].audio
      BY <1>1, <1>3, <1>4, <2>3
    <3> QED BY <2>3, <3>1 DEF WrittenApart
  <2>4. CASE i - Len(f) \in 1 .. Len(c) /\ j - Len(f) \in 1 .. Len(c)
    <3>1. i - Len(f) # j - Len(f)
      BY <1>1, <1>4
    <3>2. g[j].audio = c[j - Len(f)].audio /\ g[i].audio = c[i - Len(f)].audio
      BY <1>3, <2>4
    <3> QED BY <2>4, <3>1, <3>2 DEF AllApart
  <2> QED BY <1>2, <2>1, <2>2, <2>3, <2>4
<1> QED BY <1>4 DEF FilesApart, g

(* No chunk holds what is still to be heard.                               *)
LEMMA FilesGrowUpTo ==
  ASSUME NEW f \in Seq(VadFiles), NEW s \in Heard, NEW c \in Seq(Chunks), NEW n \in Nat,
         FilesUpTo(f, s, n), UpTo(c, n)
  PROVE  FilesUpTo(f \o FilesOf(s, c), s, n)
<1> DEFINE g == f \o FilesOf(s, c)
<1>1. /\ Len(g) = Len(f) + Len(c) /\ Len(f) \in Nat /\ Len(c) \in Nat
      /\ \A i \in 1 .. Len(f) : g[i] = f[i]
      /\ \A i \in 1 .. Len(c) : g[Len(f) + i].session = s /\ g[Len(f) + i].audio = c[i].audio
  BY FilesAre
<1> HIDE DEF g
<1>2. \A i \in 1 .. Len(g) : i \in 1 .. Len(f) \/ i - Len(f) \in 1 .. Len(c)
  BY <1>1
<1>3. \A i \in 1 .. Len(g) : i - Len(f) \in 1 .. Len(c) => g[i].audio = c[i - Len(f)].audio
  <2>1. \A i \in 1 .. Len(g) : Len(f) + (i - Len(f)) = i
    BY <1>1
  <2> QED BY <1>1, <2>1
<1> QED BY <1>1, <1>2, <1>3 DEF FilesUpTo, UpTo, g

OneMark(v) == \A i, j \in 1 .. Len(v.open) : i # j => v.open[i].mark # v.open[j].mark

PutAs(v, mark, bytes, w) ==
  /\ w \in Vads /\ w.pending = v.pending /\ w.accepted = v.accepted
  /\ \E k \in 1 .. Len(w.open), old \in Seq(Nat) :
       /\ w.open[k] = [mark |-> mark, audio |-> old \o bytes]
       /\ old = <<>> \/ (k \in 1 .. Len(v.open) /\ old = v.open[k].audio)
       /\ \A i \in 1 .. Len(w.open) : i # k =>
            i \in 1 .. Len(v.open) /\ w.open[i] = v.open[i] /\ v.open[i].mark # mark

(* capture_audio_chunk: the chunk with the mark goes on, or begins.        *)
LEMMA PutIs ==
  ASSUME NEW v \in Vads, OneMark(v), NEW mark \in Nat, NEW bytes \in Seq(Nat),
         NEW started \in BOOLEAN, NEW w, w = VadPut(v, mark, bytes, started)
  PROVE  PutAs(v, mark, bytes, w)
<1> DEFINE chunk(old) == [mark |-> mark, audio |-> old \o bytes]
<1>0. /\ v.open \in Seq(Chunks) /\ v.pending \in Seq(Chunks) /\ v.accepted \in BOOLEAN
      /\ Len(v.open) \in Nat /\ DOMAIN v.open = 1 .. Len(v.open)
      /\ \A i \in 1 .. Len(v.open) : v.open[i] \in Chunks
  BY LenProperties, ElementOfSeq DEF Vads
<1>1. \A old \in Seq(Nat) : chunk(old) \in Chunks
  BY ConcatProperties DEF Chunks
<1>2. <<>> \in Seq(Nat)
  BY EmptySeq
<1>3. CASE \A k \in DOMAIN v.open : v.open[k].mark # mark
  <2>1. w = [v EXCEPT !.open = Append(v.open, chunk(<<>>))]
    BY <1>3 DEF VadPut
  <2>2. /\ Append(v.open, chunk(<<>>)) \in Seq(Chunks)
        /\ Len(Append(v.open, chunk(<<>>))) = Len(v.open) + 1
        /\ \A i \in 1 .. Len(v.open) : Append(v.open, chunk(<<>>))[i] = v.open[i]
        /\ Append(v.open, chunk(<<>>))[Len(v.open) + 1] = chunk(<<>>)
    <3> DEFINE x == chunk(<<>>)
    <3>1. x \in Chunks
      BY <1>1, <1>2
    <3> HIDE DEF x
    <3>2. /\ Append(v.open, x) \in Seq(Chunks) /\ Len(Append(v.open, x)) = Len(v.open) + 1
          /\ \A i \in 1 .. Len(v.open) : Append(v.open, x)[i] = v.open[i]
          /\ Append(v.open, x)[Len(v.open) + 1] = x
      BY <1>0, <3>1, AppendProperties
    <3> QED BY <3>2 DEF x
  <2>3. /\ w \in Vads /\ w.pending = v.pending /\ w.accepted = v.accepted
        /\ w.open = Append(v.open, chunk(<<>>))
    BY <1>0, <2>1, <2>2 DEF Vads
  <2>4. Len(v.open) + 1 \in 1 .. Len(w.open)
    BY <1>0, <2>2, <2>3
  <2>5. \A i \in 1 .. Len(w.open) : i # Len(v.open) + 1 => i \in 1 .. Len(v.open)
    BY <1>0, <2>2, <2>3
  <2>6. \A i \in 1 .. Len(w.open) : i # Len(v.open) + 1 =>
          i \in 1 .. Len(v.open) /\ w.open[i] = v.open[i] /\ v.open[i].mark # mark
    BY <1>0, <1>3, <2>2, <2>3, <2>5
  <2>7. w.open[Len(v.open) + 1] = [mark |-> mark, audio |-> <<>> \o bytes]
    BY <2>2, <2>3
  <2>8. \E k \in 1 .. Len(w.open), old \in Seq(Nat) :
          /\ w.open[k] = [mark |-> mark, audio |-> old \o bytes]
          /\ old = <<>> \/ (k \in 1 .. Len(v.open) /\ old = v.open[k].audio)
          /\ \A i \in 1 .. Len(w.open) : i # k =>
               i \in 1 .. Len(v.open) /\ w.open[i] = v.open[i] /\ v.open[i].mark # mark
    BY <1>2, <2>4, <2>6, <2>7
  <2> QED BY <2>3, <2>8 DEF PutAs
<1>4. CASE ~ \A k \in DOMAIN v.open : v.open[k].mark # mark
  <2>1. PICK k \in 1 .. Len(v.open) : v.open[k].mark = mark
    BY <1>0, <1>4
  <2> DEFINE e(i) == IF v.open[i].mark # mark THEN v.open[i]
                     ELSE chunk(IF started THEN <<>> ELSE v.open[i].audio)
             o == [i \in 1 .. Len(v.open) |-> e(i)]
  <2>2. w = [v EXCEPT !.open = o]
    <3>1. o = [i \in DOMAIN v.open |->
                 IF v.open[i].mark # mark THEN v.open[i]
                 ELSE chunk(IF started THEN <<>> ELSE v.open[i].audio)]
      BY <1>0, Zenon
    <3> HIDE DEF o
    <3> QED BY <1>4, <3>1 DEF VadPut
  <2>3. \A i \in 1 .. Len(v.open) : e(i) \in Chunks
    <3>1. \A i \in 1 .. Len(v.open) : v.open[i] \in Chunks /\ v.open[i].audio \in Seq(Nat)
      BY <1>0 DEF Chunks
    <3> HIDE DEF chunk
    <3> QED BY <1>1, <1>2, <3>1
  <2>4. o \in Seq(Chunks) /\ Len(o) = Len(v.open)
    <3> HIDE DEF e
    <3> QED BY <1>0, <2>3
  <2>5. w \in Vads /\ w.pending = v.pending /\ w.accepted = v.accepted /\ w.open = o
    BY <1>0, <2>2, <2>4 DEF Vads
  <2>6. \A i \in 1 .. Len(v.open) : i # k => v.open[i].mark # mark
    BY <2>1 DEF OneMark
  <2>7. \A i \in 1 .. Len(v.open) : i # k => o[i] = v.open[i]
    BY <2>6
  <2>8. o[k] = chunk(<<>>) \/ o[k] = chunk(v.open[k].audio)
    BY <2>1
  <2>9. v.open[k].audio \in Seq(Nat)
    BY <1>0 DEF Chunks
  <2> HIDE DEF o, e
  <2>10. \E old \in Seq(Nat) :
          /\ w.open[k] = [mark |-> mark, audio |-> old \o bytes]
          /\ old = <<>> \/ (k \in 1 .. Len(v.open) /\ old = v.open[k].audio)
    BY <1>2, <2>5, <2>8, <2>9
  <2>11. \A i \in 1 .. Len(w.open) : i # k =>
           i \in 1 .. Len(v.open) /\ w.open[i] = v.open[i] /\ v.open[i].mark # mark
    BY <2>4, <2>5, <2>6, <2>7
  <2>12. k \in 1 .. Len(w.open)
    BY <2>4, <2>5
  <2> QED BY <2>5, <2>10, <2>11, <2>12 DEF PutAs
<1> QED BY <1>3, <1>4

LEMMA ApartGrows ==
  ASSUME NEW a, NEW b, NEW n \in Nat, NEW old \in Seq(Nat), NEW bytes \in Seq(Nat),
         a = old \o bytes, Apart(old, b), b \in Seq(Nat),
         \A j \in 1 .. Len(bytes) : bytes[j] > n,
         \A j \in 1 .. Len(b) : b[j] <= n
  PROVE  Apart(a, b) /\ Apart(b, a)
<1>1. /\ Len(old) \in Nat /\ Len(bytes) \in Nat /\ Len(a) = Len(old) + Len(bytes)
      /\ \A i \in 1 .. Len(a) : a[i] = IF i <= Len(old) THEN old[i] ELSE bytes[i - Len(old)]
      /\ \A j \in 1 .. Len(bytes) : bytes[j] \in Nat
      /\ \A j \in 1 .. Len(b) : b[j] \in Nat
  BY ConcatProperties, LenProperties, ElementOfSeq
<1>2. ASSUME NEW i \in 1 .. Len(a), NEW j \in 1 .. Len(b) PROVE a[i] # b[j]
  <2>1. CASE i <= Len(old)
    <3>1. i \in 1 .. Len(old) /\ a[i] = old[i]
      BY <1>1, <2>1
    <3> QED BY <3>1 DEF Apart
  <2>2. CASE ~ i <= Len(old)
    <3>1. i - Len(old) \in 1 .. Len(bytes) /\ a[i] = bytes[i - Len(old)]
      BY <1>1, <2>2
    <3>2. a[i] > n /\ a[i] \in Nat /\ b[j] <= n /\ b[j] \in Nat
      BY <1>1, <3>1
    <3> QED BY <3>2, SMTT(30)
  <2> QED BY <2>1, <2>2
<1> QED BY <1>2, ApartSymmetric DEF Apart

LEMMA PutUpTo ==
  ASSUME NEW old \in Seq(Nat), NEW bytes \in Seq(Nat), NEW n \in Nat, NEW m \in Nat,
         \A x \in 1 .. Len(old) : old[x] <= n,
         Len(bytes) = m, \A i \in 1 .. m : bytes[i] = n + i
  PROVE  \A x \in 1 .. Len(old \o bytes) : (old \o bytes)[x] <= n + m
<1>1. /\ Len(old) \in Nat /\ Len(old \o bytes) = Len(old) + Len(bytes)
      /\ \A x \in 1 .. Len(old) + Len(bytes) :
           (old \o bytes)[x] = IF x <= Len(old) THEN old[x] ELSE bytes[x - Len(old)]
  BY ConcatProperties, LenProperties
<1>2. \A x \in 1 .. Len(old) : old[x] \in Nat
  BY ElementOfSeq
<1>3. ASSUME NEW x \in 1 .. Len(old) + m PROVE (old \o bytes)[x] <= n + m
  <2>1. CASE x <= Len(old)
    <3>1. x \in 1 .. Len(old) /\ (old \o bytes)[x] = old[x]
      BY <1>1, <2>1
    <3>2. old[x] \in Nat /\ old[x] <= n
      BY <1>2, <3>1
    <3> QED BY <3>1, <3>2
  <2>2. CASE ~ x <= Len(old)
    <3>1. x - Len(old) \in 1 .. m /\ (old \o bytes)[x] = bytes[x - Len(old)]
      BY <1>1, <2>2
    <3> QED BY <3>1
  <2> QED BY <2>1, <2>2
<1> QED BY <1>1, <1>3

(* What is held for a session of which n bytes are heard.                  *)
VadHeld(v, f, s, n) ==
  v \in Vads /\ f \in Seq(VadFiles) /\ s \in Heard /\ n \in Nat /\ VadOk(v, f, s, n)

(* The m bytes that come next are put under a mark.                        *)
PutNext(v, f, s, n, mark, m, bytes, w) ==
  /\ VadHeld(v, f, s, n) /\ mark \in Nat /\ m \in Nat /\ bytes \in Seq(Nat)
  /\ Len(bytes) = m /\ (\A i \in 1 .. m : bytes[i] = n + i)
  /\ PutAs(v, mark, bytes, w)

LEMMA VadPutOk ==
  ASSUME NEW v, NEW f, NEW s, NEW n, NEW mark, NEW m, NEW bytes, NEW w,
         PutNext(v, f, s, n, mark, m, bytes, w)
  PROVE  /\ VadHeld(w, f, s, n + m) /\ w.pending = v.pending /\ w.accepted = v.accepted
         /\ \E k \in 1 .. Len(w.open) : w.open[k].mark = mark
<1>17. /\ v \in Vads /\ f \in Seq(VadFiles) /\ s \in Heard /\ n \in Nat /\ VadOk(v, f, s, n)
      /\ m \in Nat /\ bytes \in Seq(Nat) /\ Len(bytes) = m /\ (\A i \in 1 .. m : bytes[i] = n + i)
      /\ mark \in Nat /\ PutAs(v, mark, bytes, w)
  BY DEF VadHeld, PutNext
<1> USE <1>17
<1>0. OneMark(v)
  BY DEF VadOk, OneMark
<1>1. PICK k \in 1 .. Len(w.open), old \in Seq(Nat) :
        /\ w.open[k] = [mark |-> mark, audio |-> old \o bytes]
        /\ old = <<>> \/ (k \in 1 .. Len(v.open) /\ old = v.open[k].audio)
        /\ \A i \in 1 .. Len(w.open) : i # k =>
             i \in 1 .. Len(v.open) /\ w.open[i] = v.open[i] /\ v.open[i].mark # mark
  BY DEF PutAs
<1>2. w \in Vads /\ w.pending = v.pending /\ w.accepted = v.accepted
  BY DEF PutAs
<1>3. /\ v.open \in Seq(Chunks) /\ v.pending \in Seq(Chunks) /\ w.open \in Seq(Chunks)
      /\ \A i \in 1 .. Len(v.open) : v.open[i] \in Chunks /\ v.open[i].audio \in Seq(Nat)
      /\ \A i \in 1 .. Len(v.pending) : v.pending[i] \in Chunks /\ v.pending[i].audio \in Seq(Nat)
      /\ \A i \in 1 .. Len(f) : f[i] \in VadFiles /\ f[i].audio \in Seq(Nat)
  <2>1. v.open \in Seq(Chunks) /\ v.pending \in Seq(Chunks) /\ w.open \in Seq(Chunks)
    BY <1>2 DEF Vads
  <2>2. /\ \A i \in 1 .. Len(v.open) : v.open[i] \in Chunks
        /\ \A i \in 1 .. Len(v.pending) : v.pending[i] \in Chunks
        /\ \A i \in 1 .. Len(f) : f[i] \in VadFiles
    BY <2>1, ElementOfSeq
  <2>3. /\ \A c \in Chunks : c.audio \in Seq(Nat)
        /\ \A c \in VadFiles : c.audio \in Seq(Nat)
    BY DEF Chunks, VadFiles
  <2> QED BY <2>1, <2>2, <2>3
<1>4. w.open[k].audio = old \o bytes /\ w.open[k].mark = mark
  BY <1>1
<1>5. \A j \in 1 .. Len(bytes) : bytes[j] > n
  OBVIOUS
<1>6. \A i \in 1 .. Len(w.open) : i # k => i \in 1 .. Len(v.open) /\ w.open[i] = v.open[i]
  BY <1>1
<1>7. Len(<<>>) = 0 /\ \A b : Apart(<<>>, b)
  BY EmptySeq DEF Apart
<1>8. OneMark(w)
  <2>1. ASSUME NEW i \in 1 .. Len(w.open), NEW j \in 1 .. Len(w.open), i # j
        PROVE  w.open[i].mark # w.open[j].mark
    <3>1. CASE i = k
      BY <1>1, <1>4, <2>1, <3>1
    <3>2. CASE j = k
      BY <1>1, <1>4, <2>1, <3>2
    <3>3. CASE i # k /\ j # k
      BY <1>0, <1>6, <2>1, <3>3 DEF OneMark
    <3> QED BY <3>1, <3>2, <3>3
  <2> QED BY <2>1 DEF OneMark
<1>9. /\ UpTo(v.open, n) /\ UpTo(v.pending, n) /\ FilesUpTo(f, s, n)
      /\ AllApart(v.open) /\ AllApart(v.pending) /\ BothApart(v.open, v.pending)
      /\ WrittenApart(v.open, f, s) /\ WrittenApart(v.pending, f, s)
  BY DEF VadOk
<1>10. ASSUME NEW b \in Seq(Nat), \A j \in 1 .. Len(b) : b[j] <= n,
              k \in 1 .. Len(v.open) => Apart(v.open[k].audio, b)
       PROVE  Apart(w.open[k].audio, b) /\ Apart(b, w.open[k].audio)
  <2>1. Apart(old, b)
    BY <1>1, <1>7, <1>10
  <2> QED BY <1>4, <1>5, <1>10, <2>1, ApartGrows
<1>11. AllApart(w.open)
  <2>1. ASSUME NEW i \in 1 .. Len(w.open), i # k
        PROVE  Apart(w.open[k].audio, w.open[i].audio) /\ Apart(w.open[i].audio, w.open[k].audio)
    <3>1. i \in 1 .. Len(v.open) /\ w.open[i].audio = v.open[i].audio
      BY <1>6, <2>1
    <3>2. \A j \in 1 .. Len(v.open[i].audio) : v.open[i].audio[j] <= n
      BY <1>9, <3>1 DEF UpTo
    <3>3. k \in 1 .. Len(v.open) => Apart(v.open[k].audio, v.open[i].audio)
      BY <1>9, <2>1, <3>1 DEF AllApart
    <3> QED BY <1>3, <1>10, <3>1, <3>2, <3>3
  <2>2. ASSUME NEW i \in 1 .. Len(w.open), NEW j \in 1 .. Len(w.open), i # j, i # k, j # k
        PROVE  Apart(w.open[i].audio, w.open[j].audio)
    BY <1>6, <1>9, <2>2 DEF AllApart
  <2> QED BY <2>1, <2>2 DEF AllApart
<1>12. BothApart(w.open, v.pending)
  <2>1. ASSUME NEW i \in 1 .. Len(w.open), NEW j \in 1 .. Len(v.pending)
        PROVE  Apart(w.open[i].audio, v.pending[j].audio)
    <3>1. CASE i # k
      BY <1>6, <1>9, <3>1 DEF BothApart
    <3>2. CASE i = k
      <4>1. \A x \in 1 .. Len(v.pending[j].audio) : v.pending[j].audio[x] <= n
        BY <1>9 DEF UpTo
      <4>2. k \in 1 .. Len(v.open) => Apart(v.open[k].audio, v.pending[j].audio)
        BY <1>9 DEF BothApart
      <4> QED BY <1>3, <1>10, <3>2, <4>1, <4>2
    <3> QED BY <3>1, <3>2
  <2> QED BY <2>1 DEF BothApart
<1>13. WrittenApart(w.open, f, s)
  <2>1. ASSUME NEW i \in 1 .. Len(w.open), NEW j \in 1 .. Len(f), f[j].session = s
        PROVE  Apart(w.open[i].audio, f[j].audio)
    <3>1. CASE i # k
      BY <1>6, <1>9, <2>1, <3>1 DEF WrittenApart
    <3>2. CASE i = k
      <4>1. \A x \in 1 .. Len(f[j].audio) : f[j].audio[x] <= n
        BY <1>9, <2>1 DEF FilesUpTo
      <4>2. k \in 1 .. Len(v.open) => Apart(v.open[k].audio, f[j].audio)
        BY <1>9, <2>1 DEF WrittenApart
      <4> QED BY <1>3, <1>10, <3>2, <4>1, <4>2
    <3> QED BY <3>1, <3>2
  <2> QED BY <2>1 DEF WrittenApart
<1>14. UpTo(w.open, n + m)
  <2>1. ASSUME NEW i \in 1 .. Len(w.open), NEW j \in 1 .. Len(w.open[i].audio)
        PROVE  w.open[i].audio[j] <= n + m
    <3>1. CASE i # k
      <4>1. w.open[i] = v.open[i] /\ i \in 1 .. Len(v.open)
        BY <1>6, <3>1
      <4>2. w.open[i].audio[j] <= n /\ w.open[i].audio[j] \in Nat
        <5>1. v.open[i].audio \in Seq(Nat) /\ j \in 1 .. Len(v.open[i].audio)
          BY <1>3, <4>1
        <5>2. v.open[i].audio[j] \in Nat /\ v.open[i].audio[j] <= n
          BY <1>9, <4>1, <5>1, ElementOfSeq DEF UpTo
        <5> QED BY <4>1, <5>2
      <4> QED BY <4>2
    <3>2. CASE i = k
      <4>1. \A x \in 1 .. Len(old) : old[x] <= n
        <5>1. CASE old = <<>>
          BY <1>7, <5>1
        <5>2. CASE k \in 1 .. Len(v.open) /\ old = v.open[k].audio
          BY <1>9, <5>2 DEF UpTo
        <5> QED BY <1>1, <5>1, <5>2
      <4>2. \A x \in 1 .. Len(old \o bytes) : (old \o bytes)[x] <= n + m
        BY <4>1, PutUpTo
      <4> QED BY <1>4, <3>2, <4>2
    <3> QED BY <3>1, <3>2
  <2> QED BY <2>1 DEF UpTo
<1>15. UpTo(v.pending, n + m) /\ FilesUpTo(f, s, n + m)
  <2>1. ASSUME NEW x \in Nat, x <= n PROVE x <= n + m
    BY <2>1
  <2>2. UpTo(v.pending, n + m)
    BY <1>3, <1>9, <2>1, ElementOfSeq DEF UpTo
  <2>3. FilesUpTo(f, s, n + m)
    BY <1>3, <1>9, <2>1, ElementOfSeq DEF FilesUpTo
  <2> QED BY <2>2, <2>3
<1>16. VadOk(w, f, s, n + m)
  BY <1>2, <1>8, <1>9, <1>11, <1>12, <1>13, <1>14, <1>15 DEF VadOk, OneMark
<1>18. VadHeld(w, f, s, n + m)
  BY <1>2, <1>16 DEF VadHeld
<1> QED BY <1>2, <1>4, <1>18

(* What VadPut leaves is where a chunk can be finished.                    *)
LEMMA VadLater ==
  ASSUME NEW v \in Vads, NEW f \in Seq(VadFiles), NEW s \in Heard, NEW n \in Nat,
         NEW m \in Nat, VadOk(v, f, s, n)
  PROVE  VadOk(v, f, s, n + m)
<1>1. \A x \in Nat : x <= n => x <= n + m
  OBVIOUS
<1>2. /\ v.open \in Seq(Chunks) /\ v.pending \in Seq(Chunks)
  BY DEF Vads
<1>3. /\ \A i \in 1 .. Len(v.open) : v.open[i] \in Chunks
      /\ \A i \in 1 .. Len(v.pending) : v.pending[i] \in Chunks
      /\ \A i \in 1 .. Len(f) : f[i] \in VadFiles
  BY <1>2, ElementOfSeq
<1>4. /\ \A c \in Chunks : \A k \in 1 .. Len(c.audio) : c.audio[k] \in Nat
      /\ \A c \in VadFiles : \A k \in 1 .. Len(c.audio) : c.audio[k] \in Nat
  BY ElementOfSeq DEF Chunks, VadFiles
<1>5. UpTo(v.open, n) /\ UpTo(v.pending, n) /\ FilesUpTo(f, s, n)
  BY DEF VadOk
<1>6. UpTo(v.open, n + m) /\ UpTo(v.pending, n + m)
  BY <1>1, <1>3, <1>4, <1>5 DEF UpTo
<1>7. FilesUpTo(f, s, n + m)
  BY <1>1, <1>3, <1>4, <1>5 DEF FilesUpTo
<1> QED BY <1>6, <1>7 DEF VadOk

(* The open chunk with the mark is taken out.                              *)
LEMMA WithoutIs ==
  ASSUME NEW v \in Vads, NEW mark \in Nat, \E k \in 1 .. Len(v.open) : v.open[k].mark = mark
  PROVE  /\ Place(v, mark) \in 1 .. Len(v.open)
         /\ Chunk(v, mark) = v.open[Place(v, mark)] /\ Chunk(v, mark) \in Chunks
         /\ Without(v, mark) \in Vads
         /\ Without(v, mark).pending = v.pending /\ Without(v, mark).accepted = v.accepted
         /\ Len(Without(v, mark).open) = Len(v.open) - 1
         /\ \A i \in 1 .. Len(v.open) - 1 :
              Without(v, mark).open[i] = v.open[IF i < Place(v, mark) THEN i ELSE i + 1]
<1> DEFINE k == Place(v, mark)
           o == RemoveAt(v.open, k)
<1>1. v.open \in Seq(Chunks) /\ v.pending \in Seq(Chunks) /\ DOMAIN v.open = 1 .. Len(v.open)
  BY LenProperties DEF Vads
<1>2. k \in 1 .. Len(v.open)
  BY <1>1 DEF Place
<1> HIDE DEF k
<1>3. /\ o \in Seq(Chunks) /\ Len(o) = Len(v.open) - 1
      /\ \A i \in 1 .. Len(v.open) - 1 : o[i] = v.open[IF i < k THEN i ELSE i + 1]
  BY <1>1, <1>2, TakenOut
<1>4. Without(v, mark) = [v EXCEPT !.open = o]
  BY DEF Without, o, k
<1> HIDE DEF o
<1>5. /\ Without(v, mark) \in Vads /\ Without(v, mark).open = o
      /\ Without(v, mark).pending = v.pending /\ Without(v, mark).accepted = v.accepted
  BY <1>1, <1>3, <1>4 DEF Vads
<1>6. Chunk(v, mark) = v.open[k] /\ Chunk(v, mark) \in Chunks
  BY <1>1, <1>2, ElementOfSeq DEF Chunk, k
<1> QED BY <1>2, <1>3, <1>5, <1>6 DEF k

(* A part of what is open and pending is sound when the whole is.          *)
LEMMA WithoutOk ==
  ASSUME NEW v \in Vads, NEW f \in Seq(VadFiles), NEW s \in Heard, NEW n \in Nat,
         VadOk(v, f, s, n), NEW mark \in Nat, \E k \in 1 .. Len(v.open) : v.open[k].mark = mark
  PROVE  /\ VadOk(Without(v, mark), f, s, n)
         /\ BothApart(Without(v, mark).open, <<Chunk(v, mark)>>)
         /\ BothApart(<<Chunk(v, mark)>>, v.pending)
         /\ WrittenApart(<<Chunk(v, mark)>>, f, s)
         /\ AllApart(<<Chunk(v, mark)>>) /\ UpTo(<<Chunk(v, mark)>>, n)
<1> DEFINE k == Place(v, mark)
           c == <<Chunk(v, mark)>>
           o == Without(v, mark).open
           was(i) == IF i < k THEN i ELSE i + 1
<1>1. /\ k \in 1 .. Len(v.open) /\ Len(v.open) \in Nat
      /\ Len(o) = Len(v.open) - 1 /\ \A i \in 1 .. Len(o) : o[i] = v.open[was(i)]
      /\ Without(v, mark).pending = v.pending
  BY WithoutIs, LenProperties DEF Vads
<1>2. Len(c) = 1 /\ c[1] = v.open[k]
  BY WithoutIs
<1>3. /\ \A i \in 1 .. Len(o) : was(i) \in 1 .. Len(v.open) /\ was(i) # k
      /\ \A i, j \in 1 .. Len(o) : i # j => was(i) # was(j)
  BY <1>1
<1> HIDE DEF k, c, o, was
<1>4. /\ \A i, j \in 1 .. Len(v.open) : i # j => v.open[i].mark # v.open[j].mark
      /\ UpTo(v.open, n) /\ UpTo(v.pending, n) /\ FilesUpTo(f, s, n)
      /\ AllApart(v.open) /\ AllApart(v.pending) /\ BothApart(v.open, v.pending)
      /\ WrittenApart(v.open, f, s) /\ WrittenApart(v.pending, f, s)
  BY DEF VadOk
<1>5. ASSUME NEW i \in 1 .. Len(o), NEW j \in 1 .. Len(o), i # j
      PROVE  o[i].mark # o[j].mark
  <2>1. /\ was(i) \in 1 .. Len(v.open) /\ was(j) \in 1 .. Len(v.open) /\ was(i) # was(j)
        /\ o[i] = v.open[was(i)] /\ o[j] = v.open[was(j)]
    BY <1>1, <1>3, <1>5
  <2> QED BY <1>4, <2>1
<1>6. UpTo(o, n) /\ UpTo(c, n)
  <2>1. UpTo(c, n)
    BY <1>1, <1>2, <1>4 DEF UpTo
  <2>2. ASSUME NEW i \in 1 .. Len(o) PROVE \A x \in 1 .. Len(o[i].audio) : o[i].audio[x] <= n
    <3>1. was(i) \in 1 .. Len(v.open) /\ o[i] = v.open[was(i)]
      BY <1>1, <1>3
    <3> QED BY <1>4, <3>1 DEF UpTo
  <2> QED BY <2>1, <2>2 DEF UpTo
<1>7. AllApart(o)
  BY <1>1, <1>3, <1>4 DEF AllApart
<1>8. AllApart(c)
  BY <1>2 DEF AllApart
<1>9. BothApart(o, v.pending) /\ BothApart(c, v.pending)
  <2>1. ASSUME NEW i \in 1 .. Len(o), NEW j \in 1 .. Len(v.pending)
        PROVE  Apart(o[i].audio, v.pending[j].audio)
    BY <1>1, <1>3, <1>4, <2>1 DEF BothApart
  <2>2. ASSUME NEW i \in 1 .. Len(c), NEW j \in 1 .. Len(v.pending)
        PROVE  Apart(c[i].audio, v.pending[j].audio)
    BY <1>1, <1>2, <1>4, <2>2 DEF BothApart
  <2> QED BY <2>1, <2>2 DEF BothApart
<1>10. WrittenApart(o, f, s) /\ WrittenApart(c, f, s)
  <2>1. WrittenApart(c, f, s)
    BY <1>1, <1>2, <1>4 DEF WrittenApart
  <2>2. ASSUME NEW i \in 1 .. Len(o), NEW j \in 1 .. Len(f), f[j].session = s
        PROVE  Apart(o[i].audio, f[j].audio)
    <3>1. was(i) \in 1 .. Len(v.open) /\ o[i] = v.open[was(i)]
      BY <1>1, <1>3
    <3> QED BY <1>4, <2>2, <3>1 DEF WrittenApart
  <2> QED BY <2>1, <2>2 DEF WrittenApart
<1>11. BothApart(o, c)
  BY <1>1, <1>2, <1>3, <1>4, SMTT(30) DEF BothApart, AllApart
<1>12. VadOk(Without(v, mark), f, s, n)
  BY <1>1, <1>4, <1>5, <1>6, <1>7, <1>9, <1>10 DEF VadOk, o
<1> QED BY <1>6, <1>8, <1>9, <1>10, <1>11, <1>12 DEF o, c

(* _finish_capture of a session that was not woken.                        *)
LEMMA HeldBack ==
  ASSUME NEW v \in Vads, NEW f \in Seq(VadFiles), NEW s \in Heard, NEW n \in Nat,
         VadOk(v, f, s, n), NEW mark \in Nat, \E k \in 1 .. Len(v.open) : v.open[k].mark = mark,
         ~ v.accepted
  PROVE  /\ FinishVad(v, mark) \in Vads /\ ~ FinishVad(v, mark).accepted
         /\ VadOk(FinishVad(v, mark), f, s, n)
<1> DEFINE u == Without(v, mark)
           c == Chunk(v, mark)
           p == Append(v.pending, c)
           w == FinishVad(v, mark)
<1>1. /\ u \in Vads /\ u.pending = v.pending /\ u.accepted = v.accepted /\ c \in Chunks
      /\ v.pending \in Seq(Chunks) /\ v.accepted \in BOOLEAN
  BY WithoutIs DEF Vads
<1>2. /\ VadOk(u, f, s, n) /\ BothApart(u.open, <<c>>) /\ BothApart(<<c>>, v.pending)
      /\ WrittenApart(<<c>>, f, s) /\ UpTo(<<c>>, n)
  BY WithoutOk
<1>3. w = [u EXCEPT !.pending = Append(u.pending, c)]
  BY DEF FinishVad
<1> HIDE DEF u, c, w
<1>4. /\ p \in Seq(Chunks) /\ Len(p) = Len(v.pending) + 1 /\ Len(v.pending) \in Nat
      /\ \A i \in 1 .. Len(v.pending) : p[i] = v.pending[i]
      /\ p[Len(v.pending) + 1] = c
  BY <1>1, AppendProperties, LenProperties
<1> HIDE DEF p
<1>5. w = [u EXCEPT !.pending = p]
  BY <1>1, <1>3 DEF p
<1>6. w \in Vads /\ w.open = u.open /\ w.pending = p /\ w.accepted = v.accepted
  BY <1>1, <1>4, <1>5 DEF Vads
<1>7. /\ \A i, j \in 1 .. Len(u.open) : i # j => u.open[i].mark # u.open[j].mark
      /\ UpTo(u.open, n) /\ UpTo(v.pending, n) /\ FilesUpTo(f, s, n)
      /\ AllApart(u.open) /\ AllApart(v.pending) /\ BothApart(u.open, v.pending)
      /\ WrittenApart(u.open, f, s) /\ WrittenApart(v.pending, f, s)
  BY <1>1, <1>2 DEF VadOk
<1>8. \A i \in 1 .. Len(p) : i \in 1 .. Len(v.pending) \/ i = Len(v.pending) + 1
  BY <1>4
<1>9. Len(<<c>>) = 1 /\ <<c>>[1] = c /\ 1 \in 1 .. 1
  OBVIOUS
<1>10. UpTo(p, n)
  BY <1>2, <1>4, <1>7, <1>8, <1>9 DEF UpTo
<1>11. AllApart(p)
  <2>1. \A i \in 1 .. Len(v.pending) :
          Apart(c.audio, v.pending[i].audio) /\ Apart(v.pending[i].audio, c.audio)
    BY <1>2, <1>9, ApartSymmetric DEF BothApart
  <2> QED BY <1>4, <1>7, <1>8, <2>1 DEF AllApart
<1>12. BothApart(u.open, p)
  BY <1>2, <1>4, <1>7, <1>8, <1>9 DEF BothApart
<1>13. WrittenApart(p, f, s)
  BY <1>2, <1>4, <1>7, <1>8, <1>9 DEF WrittenApart
<1>14. VadOk(w, f, s, n)
  BY <1>6, <1>7, <1>10, <1>11, <1>12, <1>13 DEF VadOk
<1> QED BY <1>1, <1>6, <1>14 DEF w

(* And of one that was: the chunk is written.                              *)
LEMMA WrittenAtOnce ==
  ASSUME NEW v \in Vads, NEW f \in Seq(VadFiles), NEW s \in Heard, NEW n \in Nat,
         VadOk(v, f, s, n), NEW mark \in Nat, \E k \in 1 .. Len(v.open) : v.open[k].mark = mark,
         v.accepted, FilesApart(f)
  PROVE  LET g == f \o FilesOf(s, <<Chunk(v, mark)>>)
         IN /\ FinishVad(v, mark) \in Vads /\ FinishVad(v, mark).accepted
            /\ FinishVad(v, mark).pending = v.pending
            /\ <<Chunk(v, mark)>> \in Seq(Chunks)
            /\ VadOk(FinishVad(v, mark), g, s, n) /\ FilesApart(g)
<1> DEFINE u == Without(v, mark)
           c == <<Chunk(v, mark)>>
           g == f \o FilesOf(s, c)
<1>1. /\ u \in Vads /\ u.pending = v.pending /\ u.accepted = v.accepted
      /\ Chunk(v, mark) \in Chunks
  BY WithoutIs
<1>2. /\ VadOk(u, f, s, n) /\ BothApart(u.open, c) /\ BothApart(c, v.pending)
      /\ WrittenApart(c, f, s) /\ AllApart(c) /\ UpTo(c, n)
  BY WithoutOk
<1>3. FinishVad(v, mark) = u
  BY DEF FinishVad
<1>4. c \in Seq(Chunks)
  BY <1>1
<1> HIDE DEF u, c, g
<1>5. FilesApart(g)
  BY <1>2, <1>4, FilesGrow DEF g
<1>6. WrittenApart(u.open, f, s) /\ WrittenApart(u.pending, f, s) /\ FilesUpTo(f, s, n)
  BY <1>2 DEF VadOk
<1>7. BothApart(u.pending, c)
  BY <1>1, <1>2, BothSymmetric
<1>8. WrittenApart(u.open, g, s) /\ WrittenApart(u.pending, g, s)
  BY <1>2, <1>4, <1>6, <1>7, WrittenGrows DEF g
<1>9. FilesUpTo(g, s, n)
  BY <1>2, <1>4, <1>6, FilesGrowUpTo DEF g
<1>10. VadOk(u, g, s, n)
  BY <1>2, <1>8, <1>9 DEF VadOk
<1> QED BY <1>1, <1>3, <1>4, <1>5, <1>10 DEF g, c

(* mark_session_accepted writes what is pending.                           *)
LEMMA FlushOk ==
  ASSUME NEW v \in Vads, NEW f \in Seq(VadFiles), NEW s \in Heard, NEW n \in Nat,
         VadOk(v, f, s, n), FilesApart(f)
  PROVE  LET g == f \o FilesOf(s, v.pending)
         IN /\ FlushPending(v) \in Vads /\ FlushPending(v).accepted
            /\ FlushPending(v).pending = <<>> /\ v.pending \in Seq(Chunks)
            /\ VadOk(FlushPending(v), g, s, n) /\ FilesApart(g)
<1> DEFINE c == v.pending
           g == f \o FilesOf(s, c)
           w == FlushPending(v)
           o == w.open
<1>1. /\ <<>> \in Seq(Chunks) /\ Len(<<>>) = 0 /\ <<>> \in Seq(Nat)
      /\ c \in Seq(Chunks) /\ v.open \in Seq(Chunks)
      /\ Len(v.open) \in Nat /\ DOMAIN v.open = 1 .. Len(v.open)
  BY EmptySeq, LenProperties DEF Vads
<1>2. /\ w \in Vads /\ w.pending = <<>> /\ w.accepted
      /\ o \in Seq(Chunks) /\ Len(o) = Len(v.open)
      /\ \A i \in 1 .. Len(o) :
           /\ o[i].mark = v.open[i].mark
           /\ o[i].audio = v.open[i].audio \/ Len(o[i].audio) = 0
  <2> DEFINE writes(mark) == \E i \in DOMAIN v.pending : v.pending[i].mark = mark
             t == [k \in DOMAIN v.open |->
                     IF writes(v.open[k].mark)
                     THEN [v.open[k] EXCEPT !.audio = <<>>] ELSE v.open[k]]
  <2>0. w = [v EXCEPT !.accepted = TRUE, !.pending = <<>>, !.open = t]
    BY DEF FlushPending
  <2> HIDE DEF writes
  <2>2. \A k \in 1 .. Len(v.open) : v.open[k] \in Chunks
    BY <1>1, ElementOfSeq
  <2>3. \A k \in 1 .. Len(v.open) :
          /\ t[k] \in Chunks /\ t[k].mark = v.open[k].mark
          /\ t[k].audio = v.open[k].audio \/ t[k].audio = <<>>
    BY <1>1, <2>2 DEF Chunks
  <2>4. t \in [1 .. Len(v.open) -> Chunks]
    BY <1>1, <2>3
  <2> HIDE DEF t, w
  <2>1. w = [open |-> t, pending |-> <<>>, accepted |-> TRUE]
    BY <2>0 DEF Vads
  <2>5. t \in Seq(Chunks) /\ Len(t) = Len(v.open)
    BY <1>1, <2>4, IsASeq, LenProperties
  <2> QED BY <1>1, <2>1, <2>3, <2>5 DEF Vads
<1>3. /\ OneMark(v) /\ UpTo(v.open, n) /\ UpTo(c, n) /\ FilesUpTo(f, s, n)
      /\ AllApart(v.open) /\ AllApart(c) /\ BothApart(v.open, c)
      /\ WrittenApart(v.open, f, s) /\ WrittenApart(c, f, s)
  BY DEF VadOk, OneMark
<1> HIDE DEF w, c, g, o
<1>4. FilesApart(g)
  BY <1>1, <1>3, FilesGrow DEF g
<1>9. /\ \A i, j \in 1 .. Len(o) : i # j => o[i].mark # o[j].mark
      /\ UpTo(o, n) /\ AllApart(o) /\ BothApart(o, c) /\ WrittenApart(o, f, s)
  <2>1. ASSUME NEW i \in 1 .. Len(o), NEW a,
               Apart(v.open[i].audio, a) \/ Apart(a, v.open[i].audio)
        PROVE  Apart(o[i].audio, a) /\ Apart(a, o[i].audio)
    <3>1. CASE o[i].audio = v.open[i].audio
      BY <2>1, <3>1 DEF Apart
    <3>2. CASE Len(o[i].audio) = 0
      BY <3>2 DEF Apart
    <3> QED BY <1>2, <3>1, <3>2
  <2>2. \A i, j \in 1 .. Len(o) : i # j => o[i].mark # o[j].mark
    BY <1>2, <1>3 DEF OneMark
  <2>3. UpTo(o, n)
    <3> SUFFICES ASSUME NEW i \in 1 .. Len(o), NEW k \in 1 .. Len(o[i].audio)
                 PROVE  o[i].audio[k] <= n
      BY DEF UpTo
    <3>1. o[i].audio = v.open[i].audio
      BY <1>2
    <3> QED BY <1>2, <1>3, <3>1 DEF UpTo
  <2>4. AllApart(o)
    <3> SUFFICES ASSUME NEW i \in 1 .. Len(o), NEW j \in 1 .. Len(o), i # j
                 PROVE  Apart(o[i].audio, o[j].audio)
      BY DEF AllApart
    <3>1. Apart(v.open[i].audio, v.open[j].audio)
      BY <1>2, <1>3 DEF AllApart
    <3>2. Apart(o[i].audio, v.open[j].audio)
      BY <2>1, <3>1
    <3> QED BY <2>1, <3>2
  <2>5. BothApart(o, c) /\ WrittenApart(o, f, s)
    BY <1>2, <1>3, <2>1 DEF BothApart, WrittenApart
  <2> QED BY <2>2, <2>3, <2>4, <2>5
<1>5. WrittenApart(o, g, s)
  BY <1>1, <1>2, <1>3, <1>9, WrittenGrows DEF g
<1>6. FilesUpTo(g, s, n)
  BY <1>1, <1>3, FilesGrowUpTo DEF g
<1>7. /\ UpTo(<<>>, n) /\ AllApart(<<>>) /\ BothApart(o, <<>>)
      /\ WrittenApart(<<>>, g, s)
  BY <1>1 DEF UpTo, AllApart, BothApart, WrittenApart
<1>8. VadOk(w, g, s, n)
  BY <1>2, <1>5, <1>6, <1>7, <1>9 DEF VadOk, o
<1> QED BY <1>1, <1>2, <1>4, <1>8 DEF w, c, g

(* close_session writes what is open as well.                              *)
LEMMA CloseOk ==
  ASSUME NEW v \in Vads, NEW f \in Seq(VadFiles), NEW s \in Heard, NEW n \in Nat,
         VadOk(v, f, s, n), FilesApart(f)
  PROVE  AtClose(v) \in Seq(Chunks) /\ FilesApart(f \o FilesOf(s, AtClose(v)))
<1>1. CASE ~ v.accepted
  BY <1>1, NoFiles, EmptySeq DEF AtClose
<1>2. CASE v.accepted
  <2> DEFINE c == v.pending \o v.open
  <2>1. /\ v.pending \in Seq(Chunks) /\ v.open \in Seq(Chunks)
        /\ Len(v.pending) \in Nat /\ Len(v.open) \in Nat
    BY LenProperties DEF Vads
  <2>2. /\ c \in Seq(Chunks) /\ Len(c) = Len(v.pending) + Len(v.open)
        /\ \A i \in 1 .. Len(c) :
             c[i] = IF i <= Len(v.pending) THEN v.pending[i] ELSE v.open[i - Len(v.pending)]
    <3> DEFINE p == v.pending
               o == v.open
    <3>1. p \in Seq(Chunks) /\ o \in Seq(Chunks)
      BY <2>1
    <3> HIDE DEF p, o
    <3>2. /\ p \o o \in Seq(Chunks) /\ Len(p \o o) = Len(p) + Len(o)
          /\ \A i \in 1 .. Len(p) + Len(o) : (p \o o)[i] = IF i <= Len(p) THEN p[i] ELSE o[i - Len(p)]
      BY <3>1, ConcatProperties
    <3>3. /\ p \o o \in Seq(Chunks) /\ Len(p \o o) = Len(p) + Len(o)
          /\ \A i \in 1 .. Len(p \o o) : (p \o o)[i] = IF i <= Len(p) THEN p[i] ELSE o[i - Len(p)]
      BY <3>2
    <3> QED BY <3>3 DEF p, o
  <2>3. AtClose(v) = c
    BY <1>2 DEF AtClose
  <2>4. /\ AllApart(v.open) /\ AllApart(v.pending) /\ BothApart(v.open, v.pending)
        /\ WrittenApart(v.open, f, s) /\ WrittenApart(v.pending, f, s)
    BY DEF VadOk
  <2> HIDE DEF c
  <2> DEFINE l == Len(v.pending)
             First(i) == i \in 1 .. l /\ c[i] = v.pending[i]
             Second(i) == i - l \in 1 .. Len(v.open) /\ c[i] = v.open[i - l]
  <2>5. ASSUME NEW i \in 1 .. Len(c) PROVE First(i) \/ Second(i)
    <3>0. /\ i \in Int /\ 1 <= i /\ i <= l + Len(v.open) /\ l \in Nat
          /\ c[i] = IF i <= l THEN v.pending[i] ELSE v.open[i - l]
      <4> DEFINE m == Len(v.open)
      <4>1. Len(c) = l + m /\ l \in Nat /\ m \in Nat
        BY <2>1, <2>2
      <4>3. c[i] = IF i <= l THEN v.pending[i] ELSE v.open[i - l]
        BY <2>2, Zenon
      <4> HIDE DEF l, m
      <4>4. i \in Int /\ 1 <= i /\ i <= l + m
        BY <4>1
      <4> QED BY <4>1, <4>3, <4>4 DEF m
    <3> HIDE DEF l
    <3>1. CASE i <= l
      BY <3>0, <3>1
    <3>2. CASE ~ i <= l
      <4>1. i - l \in 1 .. Len(v.open)
        BY <2>1, <3>0, <3>2
      <4> QED BY <3>0, <3>2, <4>1
    <3> QED BY <3>1, <3>2
  <2>6. \A i, j \in 1 .. Len(c) : i # j => i - l # j - l
    BY <2>1, <2>2
  <2>7. AllApart(c)
    <3>1. ASSUME NEW i \in 1 .. Len(c), NEW j \in 1 .. Len(c), i # j
          PROVE  Apart(c[i].audio, c[j].audio)
      <4>1. CASE First(i) /\ First(j)
        BY <2>4, <3>1, <4>1 DEF AllApart
      <4>2. CASE First(i) /\ Second(j)
        BY <2>4, <4>2, ApartSymmetric DEF BothApart
      <4>3. CASE Second(i) /\ First(j)
        BY <2>4, <4>3 DEF BothApart
      <4>4. CASE Second(i) /\ Second(j)
        BY <2>4, <2>6, <3>1, <4>4 DEF AllApart
      <4> QED BY <2>5, <4>1, <4>2, <4>3, <4>4
    <3> QED BY <3>1 DEF AllApart
  <2>8. WrittenApart(c, f, s)
    BY <2>4, <2>5 DEF WrittenApart
  <2>9. FilesApart(f \o FilesOf(s, c))
    BY <2>2, <2>7, <2>8, FilesGrow
  <2> QED BY <2>2, <2>3, <2>9
<1> QED BY <1>1, <1>2

-----------------------------------------------------------------------------
(* WakeRecordings: the sessions *)

LEMMA NothingHeard ==
  /\ NoCapture \in Captures /\ NoVad \in Vads /\ Len(NoCapture.audio) = 0
  /\ \A id \in Heard \cup {0} : [NoHearing EXCEPT !.id = id] \in Hearings
  /\ <<>> \in Seq(Nat) /\ <<>> \in Seq(VadFiles) /\ <<>> \in Seq(Recordings)
<1>1. /\ <<>> \in Seq(Nat) /\ <<>> \in Seq(Chunks) /\ Len(<<>>) = 0
      /\ <<>> \in Seq(VadFiles) /\ <<>> \in Seq(Recordings)
  BY EmptySeq
<1>2. NoCapture \in Captures /\ Len(NoCapture.audio) = 0
  BY <1>1 DEF NoCapture, Captures
<1>3. NoVad \in Vads
  BY <1>1 DEF NoVad, Vads
<1>4. \A id \in Heard \cup {0} : [NoHearing EXCEPT !.id = id] \in Hearings
  BY <1>1 DEF NoHearing, Hearings
<1> QED BY <1>1, <1>2, <1>3, <1>4

LEMMA EmptyVad ==
  ASSUME NEW f \in Seq(VadFiles), NEW s \in Heard, NEW n \in Nat,
         \A i \in 1 .. Len(f) : f[i].session # s
  PROVE  VadOk(NoVad, f, s, n)
<1>1. NoVad.open = <<>> /\ NoVad.pending = <<>> /\ Len(<<>>) = 0
  BY EmptySeq DEF NoVad
<1>2. /\ UpTo(<<>>, n) /\ AllApart(<<>>) /\ BothApart(<<>>, <<>>) /\ WrittenApart(<<>>, f, s)
  BY <1>1 DEF UpTo, AllApart, BothApart, WrittenApart
<1>3. FilesUpTo(f, s, n)
  BY DEF FilesUpTo
<1> QED BY <1>1, <1>2, <1>3 DEF VadOk

LEMMA HearInitInv == RecordingsInit => HearInv
<1> SUFFICES ASSUME RecordingsInit PROVE HearInv
  OBVIOUS
<1>1. /\ NoHearing \in Hearings /\ NoHearing.id = 0 /\ NoHearing.stage = "none"
      /\ NoCapture \in Captures /\ NoVad \in Vads /\ Len(NoCapture.audio) = 0
      /\ <<>> \in Seq(VadFiles) /\ Len(<<>>) = 0 /\ ~ NoVad.accepted
  BY NothingHeard, EmptySeq DEF NoHearing, Hearings, NoVad
<1>2. HearTypes
  BY <1>1, RecordingsConstants DEF RecordingsInit, HearTypes, WindowSets
<1>3. HeldForTheActiveSession
  BY <1>1 DEF RecordingsInit, HeldForTheActiveSession
<1>4. OneRun
  BY <1>1 DEF RecordingsInit, OneRun
<1>5. VadInv
  BY <1>1 DEF RecordingsInit, VadInv, FilesApart
<1> QED BY <1>2, <1>3, <1>4, <1>5 DEF HearInv

LEMMA HearStays == HearInv /\ UNCHANGED hvars => HearInv'
<1> SUFFICES ASSUME HearInv, UNCHANGED hvars PROVE HearInv'
  OBVIOUS
<1>0. UNCHANGED <<hearing, windows, captures, vad, vadFiles, wokenOnes, stream>>
  BY DEF hvars
<1>1. HearTypes'
  BY <1>0 DEF HearInv, HearTypes
<1>2. HeldForTheActiveSession'
  BY <1>0 DEF HearInv, HeldForTheActiveSession
<1>3. OneRun'
  BY <1>0 DEF HearInv, OneRun
<1>4. VadInv'
  BY <1>0 DEF HearInv, VadInv
<1> QED BY <1>1, <1>2, <1>3, <1>4 DEF HearInv

LEMMA OpenHears == HearInv /\ OpenSession => HearInv'
<1> SUFFICES ASSUME HearInv, OpenSession PROVE HearInv'
  OBVIOUS
<1> DEFINE s == hearing.id + 1
<1>0. /\ HearTypes /\ HeldForTheActiveSession /\ VadInv /\ hearing.stage = "none"
      /\ s \in Heard /\ hearing.id \in Nat /\ hearing.id \in Heard \cup {0}
      /\ UNCHANGED <<windows, captures, vad, vadFiles, wokenOnes, stream>>
      /\ vadFiles \in Seq(VadFiles)
  BY RecordingsConstants DEF HearInv, OpenSession, HearTypes, Hearings
<1>1. /\ hearing' \in Hearings /\ hearing'.id = s /\ hearing'.stage = "idle"
      /\ hearing'.audio = <<>> /\ hearing'.bytes = 0
  <2>1. hearing' = [[NoHearing EXCEPT !.id = s] EXCEPT !.stage = "idle"]
    BY DEF OpenSession
  <2>2. [NoHearing EXCEPT !.id = s] \in Hearings
    BY <1>0, NothingHeard
  <2>3. [NoHearing EXCEPT !.id = s].audio = <<>> /\ [NoHearing EXCEPT !.id = s].bytes = 0
        /\ [NoHearing EXCEPT !.id = s].id = s
    BY DEF NoHearing
  <2> QED BY <2>1, <2>2, <2>3 DEF Hearings
<1>2. s # hearing.id
  BY <1>0
<1>3. captures[s] = NoCapture /\ vad[s] = NoVad
  BY <1>0, <1>2 DEF HeldForTheActiveSession
<1>4. HearTypes'
  BY <1>0, <1>1 DEF HearTypes
<1>5. HeldForTheActiveSession'
  BY <1>0, <1>1 DEF HeldForTheActiveSession
<1>6. OneRun'
  <2>1. NoCapture.audio \o <<>> = <<>> /\ Len(<<>>) = 0
    BY NothingHeard, EmptySeq, ConcatEmptySeq DEF NoCapture
  <2>2. Run(<<>>, 0)
    BY <2>1, RecordingsConstants DEF Run
  <2>3. captures'[s].audio \o hearing'.audio = <<>>
    BY <1>0, <1>1, <1>3, <2>1
  <2> QED BY <1>1, <2>2, <2>3 DEF OneRun
<1>7. VadInv'
  <2>1. \A i \in 1 .. Len(vadFiles) : vadFiles[i].session \in Nat /\ vadFiles[i].session <= hearing.id
    <3>1. \A i \in 1 .. Len(vadFiles) : vadFiles[i] \in VadFiles
      BY <1>0, ElementOfSeq
    <3> QED BY <1>0, <3>1, RecordingsConstants DEF VadInv, VadFiles
  <2>2. \A i \in 1 .. Len(vadFiles) : vadFiles[i].session # s /\ vadFiles[i].session <= s
    BY <1>0, <2>1
  <2>3. VadOk(NoVad, vadFiles, s, 0)
    BY <1>0, <2>2, EmptyVad
  <2>4. VadOk(vad'[hearing'.id], vadFiles', hearing'.id, hearing'.bytes)
    BY <1>0, <1>1, <1>3, <2>3
  <2> QED BY <1>0, <1>1, <2>2, <2>4 DEF VadInv
<1> QED BY <1>4, <1>5, <1>6, <1>7 DEF HearInv

LEMMA WindowsHear == HearInv /\ WindowsChange => HearInv'
<1> SUFFICES ASSUME HearInv, WindowsChange PROVE HearInv'
  OBVIOUS
<1>0. windows' \in WindowSets /\ UNCHANGED <<hearing, captures, vad, vadFiles, wokenOnes, stream>>
  BY DEF WindowsChange
<1>1. HearTypes'
  BY <1>0 DEF HearInv, HearTypes
<1>2. HeldForTheActiveSession'
  BY <1>0 DEF HearInv, HeldForTheActiveSession
<1>3. OneRun'
  BY <1>0 DEF HearInv, OneRun
<1>4. VadInv'
  BY <1>0 DEF HearInv, VadInv
<1> QED BY <1>1, <1>2, <1>3, <1>4 DEF HearInv

(* Files are added for the active session, when it was woken.              *)
LEMMA FilesOfWoken ==
  ASSUME HearInv, NEW s \in Heard, s = hearing.id, hearing'.id = s, NEW c \in Seq(Chunks),
         vadFiles' = vadFiles \o FilesOf(s, c), wokenOnes \subseteq wokenOnes',
         c = <<>> \/ s \in wokenOnes'
  PROVE  /\ vadFiles' \in Seq(VadFiles)
         /\ \A i \in 1 .. Len(vadFiles') :
              vadFiles'[i].session <= hearing'.id /\ vadFiles'[i].session \in wokenOnes'
<1> DEFINE g == vadFiles'
           l == Len(vadFiles)
<1>0. /\ vadFiles \in Seq(VadFiles)
      /\ \A i \in 1 .. l : vadFiles[i].session <= s /\ vadFiles[i].session \in wokenOnes
  BY DEF HearInv, HearTypes, VadInv
<1>1. /\ g \in Seq(VadFiles) /\ Len(g) = l + Len(c) /\ l \in Nat /\ Len(c) \in Nat
      /\ \A i \in 1 .. l : g[i] = vadFiles[i]
      /\ \A i \in 1 .. Len(c) : g[l + i].session = s /\ g[l + i].audio = c[i].audio
  BY <1>0, FilesAre
<1> HIDE DEF g, l
<1>2. s \in Nat
  BY RecordingsConstants
<1>3. ASSUME NEW i \in 1 .. Len(g)
      PROVE  g[i].session <= s /\ g[i].session \in wokenOnes'
  <2>1. CASE i \in 1 .. l
    BY <1>0, <1>1, <2>1
  <2>2. CASE i - l \in 1 .. Len(c)
    <3>1. l + (i - l) = i
      BY <1>1
    <3>2. g[i].session = s
      BY <1>1, <2>2, <3>1
    <3>3. c # <<>>
      BY <2>2, EmptySeq
    <3> QED BY <1>2, <3>2, <3>3
  <2>3. i \in 1 .. l \/ i - l \in 1 .. Len(c)
    BY <1>1
  <2> QED BY <2>1, <2>2, <2>3
<1> QED BY <1>1, <1>3 DEF g

(* The session ends: all that was held for it goes.                        *)
LEMMA ClearHears ==
  ASSUME HearInv, hearing.stage # "none", Release(hearing.id), Clear(hearing.id),
         UNCHANGED <<windows, wokenOnes>>
  PROVE  HearInv'
<1> DEFINE s == hearing.id
           c == AtClose(vad[s])
<1>0. /\ HearTypes /\ HeldForTheActiveSession /\ VadInv /\ s \in Heard
      /\ captures \in [Heard -> Captures] /\ vad \in [Heard -> Vads] /\ vad[s] \in Vads
      /\ vadFiles \in Seq(VadFiles) /\ hearing.bytes \in Nat
  BY DEF HearInv, HearTypes, Hearings
<1>1. /\ hearing' = [NoHearing EXCEPT !.id = s] /\ vad' = [vad EXCEPT ![s] = NoVad]
      /\ captures' = [captures EXCEPT ![s] = NoCapture] /\ stream' = stream \ {s}
      /\ vadFiles' = vadFiles \o FilesOf(s, c)
  BY DEF Release, Clear
<1>2. hearing' \in Hearings /\ hearing'.id = s /\ hearing'.stage = "none"
  BY <1>0, <1>1, NothingHeard DEF NoHearing
<1>3. VadOk(vad[s], vadFiles, s, hearing.bytes) /\ FilesApart(vadFiles)
  BY <1>0 DEF VadInv
<1>4. c \in Seq(Chunks) /\ FilesApart(vadFiles')
  BY <1>0, <1>1, <1>3, CloseOk
<1>5. c = <<>> \/ s \in wokenOnes'
  BY <1>0 DEF VadInv, AtClose
<1>6. /\ vadFiles' \in Seq(VadFiles)
      /\ \A i \in 1 .. Len(vadFiles') :
           vadFiles'[i].session <= hearing'.id /\ vadFiles'[i].session \in wokenOnes'
  <2> HIDE DEF c
  <2> QED BY <1>0, <1>1, <1>2, <1>4, <1>5, FilesOfWoken
<1>7. HearTypes'
  <2>1. captures' \in [Heard -> Captures] /\ vad' \in [Heard -> Vads]
    BY <1>0, <1>1, NothingHeard
  <2>2. \A x \in Heard : Len(captures'[x].audio) <= Preroll
    BY <1>0, <1>1, NothingHeard, RecordingsConstants DEF HearTypes
  <2> QED BY <1>0, <1>1, <1>2, <1>6, <2>1, <2>2 DEF HearTypes
<1>8. HeldForTheActiveSession'
  BY <1>0, <1>1, <1>2 DEF HeldForTheActiveSession
<1>9. OneRun'
  BY <1>2 DEF OneRun
<1>10. VadInv'
  <2>1. ~ NoVad.accepted
    BY DEF NoVad
  <2>2. \A x \in Heard : vad'[x].accepted => vad'[x].pending = <<>> /\ x \in wokenOnes'
    BY <1>0, <1>1, <2>1 DEF VadInv
  <2> QED BY <1>2, <1>4, <1>6, <2>2 DEF VadInv
<1> QED BY <1>7, <1>8, <1>9, <1>10 DEF HearInv

LEMMA AcceptedIs ==
  ASSUME NEW c \in Captures
  PROVE  MarkAccepted(c) \in Captures /\ MarkAccepted(c).audio = c.audio
BY DEF MarkAccepted, Captures

LEMMA WokenHears == HearInv /\ Woken => HearInv'
<1> SUFFICES ASSUME HearInv, Woken PROVE HearInv'
  OBVIOUS
<1> DEFINE s == hearing.id
           v == vad[s]
<1>0. /\ HearTypes /\ HeldForTheActiveSession /\ VadInv /\ OneRun /\ s \in Heard
      /\ captures \in [Heard -> Captures] /\ vad \in [Heard -> Vads] /\ v \in Vads
      /\ captures[s] \in Captures /\ wokenOnes \subseteq Heard
      /\ vadFiles \in Seq(VadFiles) /\ hearing.bytes \in Nat /\ hearing \in Hearings
      /\ hearing.stage = "idle" /\ hearing' = [hearing EXCEPT !.stage = "listening"]
      /\ UNCHANGED <<windows, stream>>
  BY DEF HearInv, HearTypes, Hearings, Woken
<1>1. /\ hearing' \in Hearings /\ hearing'.id = s /\ hearing'.stage = "listening"
      /\ hearing'.bytes = hearing.bytes /\ hearing'.audio = hearing.audio
      /\ hearing'.special = hearing.special
  BY <1>0 DEF Hearings
<1>2. CASE UNCHANGED <<captures, vad, vadFiles, wokenOnes>>
  <2>1. HearTypes'
    BY <1>0, <1>1, <1>2 DEF HearTypes
  <2>2. HeldForTheActiveSession'
    BY <1>0, <1>1, <1>2 DEF HeldForTheActiveSession
  <2>3. OneRun'
    BY <1>0, <1>1, <1>2 DEF OneRun
  <2>4. VadOk(vad'[hearing'.id], vadFiles', hearing'.id, hearing'.bytes)
    BY <1>0, <1>1, <1>2 DEF VadInv
  <2>5. VadInv'
    BY <1>0, <1>1, <1>2, <2>4 DEF VadInv
  <2> QED BY <2>1, <2>2, <2>3, <2>5 DEF HearInv
<1>3. CASE /\ captures' = [captures EXCEPT ![s] = MarkAccepted(captures[s])]
           /\ vad' = [vad EXCEPT ![s] = FlushPending(v)]
           /\ vadFiles' = vadFiles \o FilesOf(s, v.pending)
           /\ wokenOnes' = wokenOnes \cup {s}
  <2>1. VadOk(v, vadFiles, s, hearing.bytes) /\ FilesApart(vadFiles)
    BY <1>0 DEF VadInv
  <2>2. /\ FlushPending(v) \in Vads /\ FlushPending(v).accepted
        /\ FlushPending(v).pending = <<>> /\ v.pending \in Seq(Chunks)
        /\ VadOk(FlushPending(v), vadFiles', s, hearing.bytes) /\ FilesApart(vadFiles')
    BY <1>0, <1>3, <2>1, FlushOk
  <2>3. /\ vadFiles' \in Seq(VadFiles)
        /\ \A i \in 1 .. Len(vadFiles') :
             vadFiles'[i].session <= hearing'.id /\ vadFiles'[i].session \in wokenOnes'
    <3> HIDE DEF v
    <3> QED BY <1>0, <1>1, <1>3, <2>2, FilesOfWoken
  <2>4. HearTypes'
    <3>1. captures' \in [Heard -> Captures] /\ vad' \in [Heard -> Vads]
      BY <1>0, <1>3, <2>2, AcceptedIs
    <3>2. \A x \in Heard : Len(captures'[x].audio) <= Preroll
      BY <1>0, <1>3, AcceptedIs DEF HearTypes
    <3> QED BY <1>0, <1>1, <1>3, <2>3, <3>1, <3>2 DEF HearTypes
  <2>5. HeldForTheActiveSession'
    BY <1>0, <1>1, <1>3 DEF HeldForTheActiveSession
  <2>6. OneRun'
    <3>1. captures'[s].audio = captures[s].audio
      BY <1>0, <1>3, AcceptedIs
    <3> QED BY <1>0, <1>1, <3>1 DEF OneRun
  <2>7. VadInv'
    <3>1. vad'[s] = FlushPending(v) /\ \A x \in Heard : x # s => vad'[x] = vad[x]
      BY <1>0, <1>3
    <3>2. \A x \in Heard : vad'[x].accepted => vad'[x].pending = <<>> /\ x \in wokenOnes'
      BY <1>0, <1>3, <2>2, <3>1 DEF VadInv
    <3>3. VadOk(vad'[hearing'.id], vadFiles', hearing'.id, hearing'.bytes)
      BY <1>1, <2>2, <3>1
    <3> QED BY <2>2, <2>3, <3>2, <3>3 DEF VadInv
  <2> QED BY <2>4, <2>5, <2>6, <2>7 DEF HearInv
<1> QED BY <1>2, <1>3 DEF Woken

VadMove(v, f, s, n, woken, w, c) ==
  /\ w \in Vads /\ c \in Seq(Chunks)
  /\ VadOk(w, f \o FilesOf(s, c), s, n) /\ FilesApart(f \o FilesOf(s, c))
  /\ w.accepted <=> (v.accepted \/ woken)
  /\ w.accepted => w.pending = <<>>
  /\ c = <<>> \/ v.accepted \/ woken

(* The open chunk of a mark may be final, and the session may be woken.    *)
LEMMA VadMoves ==
  ASSUME NEW v \in Vads, NEW f \in Seq(VadFiles), NEW s \in Heard, NEW n \in Nat,
         VadOk(v, f, s, n), FilesApart(f), v.accepted => v.pending = <<>>,
         NEW mark \in Nat, NEW finishes \in BOOLEAN, NEW woken \in BOOLEAN,
         finishes => \E k \in 1 .. Len(v.open) : v.open[k].mark = mark
  PROVE  LET ended == IF finishes THEN FinishVad(v, mark) ELSE v
             atOnce == IF finishes /\ v.accepted THEN <<Chunk(v, mark)>> ELSE <<>>
         IN VadMove(v, f, s, n, woken, IF woken THEN FlushPending(ended) ELSE ended,
                    atOnce \o IF woken THEN ended.pending ELSE <<>>)
<1> DEFINE ended == IF finishes THEN FinishVad(v, mark) ELSE v
           atOnce == IF finishes /\ v.accepted THEN <<Chunk(v, mark)>> ELSE <<>>
           c == atOnce \o IF woken THEN ended.pending ELSE <<>>
           w == IF woken THEN FlushPending(ended) ELSE ended
           g == f \o FilesOf(s, c)
           h == f \o FilesOf(s, atOnce)
<1> SUFFICES VadMove(v, f, s, n, woken, w, c)
  OBVIOUS
<1>0. <<>> \in Seq(Chunks) /\ <<>> \o <<>> = <<>> /\ f \o FilesOf(s, <<>>) = f
      /\ v.accepted \in BOOLEAN
  BY EmptySeq, ConcatEmptySeq, NoFiles DEF Vads
<1>2. /\ ended \in Vads /\ ended.accepted = v.accepted /\ atOnce \in Seq(Chunks)
      /\ VadOk(ended, h, s, n) /\ FilesApart(h) /\ h \in Seq(VadFiles)
      /\ v.accepted => ended.pending = <<>>
      /\ atOnce = <<>> \/ v.accepted
  <2>1. CASE ~ finishes
    <3>1. ended = v /\ atOnce = <<>>
      BY <2>1
    <3> HIDE DEF ended, atOnce
    <3> QED BY <1>0, <3>1
  <2>2. CASE finishes /\ ~ v.accepted
    <3>1. ended = FinishVad(v, mark) /\ atOnce = <<>>
      BY <2>2
    <3>2. /\ ended \in Vads /\ ~ ended.accepted /\ VadOk(ended, f, s, n)
      BY <1>0, <2>2, <3>1, HeldBack
    <3>3. ended.accepted \in BOOLEAN
      BY <3>2 DEF Vads
    <3> HIDE DEF ended, atOnce
    <3> QED BY <1>0, <2>2, <3>1, <3>2, <3>3
  <2>3. CASE finishes /\ v.accepted
    <3>1. ended = FinishVad(v, mark) /\ atOnce = <<Chunk(v, mark)>>
      BY <2>3
    <3>2. /\ ended \in Vads /\ ended.accepted /\ ended.pending = v.pending
          /\ atOnce \in Seq(Chunks) /\ VadOk(ended, h, s, n) /\ FilesApart(h)
      BY <1>0, <2>3, <3>1, WrittenAtOnce
    <3>3. ended.accepted \in BOOLEAN /\ h \in Seq(VadFiles)
      BY <3>2, FilesAre DEF Vads
    <3> HIDE DEF ended, atOnce
    <3> QED BY <1>0, <2>3, <3>1, <3>2, <3>3
  <2> QED BY <2>1, <2>2, <2>3
<1> HIDE DEF ended, atOnce
<1>3. CASE ~ woken
  <2>1. w = ended /\ c = atOnce
    BY <1>2, <1>3, ConcatEmptySeq
  <2>2. g = h
    BY <2>1
  <2> HIDE DEF w, c, g, h
  <2>3. ended.accepted \in BOOLEAN
    BY <1>2 DEF Vads
  <2> QED BY <1>0, <1>2, <1>3, <2>1, <2>2, <2>3 DEF g, VadMove
<1>4. CASE woken
  <2> DEFINE p == ended.pending
  <2>1. w = FlushPending(ended) /\ c = atOnce \o p
    BY <1>4
  <2>2. /\ w \in Vads /\ w.accepted /\ w.pending = <<>> /\ p \in Seq(Chunks)
        /\ VadOk(w, h \o FilesOf(s, p), s, n) /\ FilesApart(h \o FilesOf(s, p))
    BY <1>0, <1>2, <2>1, FlushOk
  <2>3. CASE atOnce = <<>>
    <3>1. c = p /\ h = f
      BY <1>0, <2>1, <2>2, <2>3, ConcatEmptySeq
    <3>2. g = h \o FilesOf(s, p) /\ c \in Seq(Chunks)
      BY <2>2, <3>1
    <3>3. w.accepted \in BOOLEAN
      BY <2>2 DEF Vads
    <3> HIDE DEF w, c, g, h, p
    <3> QED BY <1>4, <2>2, <2>3, <3>2, <3>3 DEF g, VadMove
  <2>4. CASE v.accepted
    <3>1. p = <<>> /\ c = atOnce
      BY <1>2, <2>1, <2>4, ConcatEmptySeq
    <3>2. h \o FilesOf(s, p) = h
      BY <1>2, <3>1, NoFiles
    <3>3. g = h \o FilesOf(s, p) /\ c \in Seq(Chunks)
      BY <1>2, <3>1, <3>2
    <3>4. w.accepted \in BOOLEAN
      BY <2>2 DEF Vads
    <3> HIDE DEF w, c, g, h, p
    <3> QED BY <1>4, <2>2, <2>4, <3>3, <3>4 DEF g, VadMove
  <2> QED BY <1>2, <2>3, <2>4
<1> QED BY <1>3, <1>4

LEMMA CaptureIs ==
  ASSUME NEW c \in Captures, NEW bytes \in Seq(Nat)
  PROVE  /\ CaptureWakeChunk(c, bytes) \in Captures
         /\ CaptureWakeChunk(c, bytes).audio = TrimCapture(c.audio \o bytes)
         /\ Len(CaptureWakeChunk(c, bytes).audio) <= Preroll
<1>1. c.audio \in Seq(Nat)
  BY DEF Captures
<1>2. c.audio \o bytes \in Seq(Nat)
  BY <1>1, ConcatProperties
<1>3. /\ TrimCapture(c.audio \o bytes) \in Seq(Nat)
      /\ Len(TrimCapture(c.audio \o bytes)) <= Preroll
  BY <1>2, TrimIs
<1> QED BY <1>3 DEF CaptureWakeChunk, Captures

(* What VadMoves asks for and what the handler makes of it, each under one *)
(* name.                                                                   *)
VadMoving(v, f, s, n, mark, finishes) ==
  /\ VadHeld(v, f, s, n) /\ FilesApart(f) /\ (v.accepted => v.pending = <<>>)
  /\ mark \in Nat /\ (finishes => \E k \in 1 .. Len(v.open) : v.open[k].mark = mark)

VadEnds(v, mark, finishes, woken, w, c) ==
  LET ended == IF finishes THEN FinishVad(v, mark) ELSE v
      atOnce == IF finishes /\ v.accepted THEN <<Chunk(v, mark)>> ELSE <<>>
  IN /\ w = IF woken THEN FlushPending(ended) ELSE ended
     /\ c = atOnce \o IF woken THEN ended.pending ELSE <<>>

LEMMA MovesHeld ==
  ASSUME NEW v, NEW f, NEW s, NEW n, NEW mark, NEW finishes \in BOOLEAN, NEW woken \in BOOLEAN,
         NEW w, NEW c, VadMoving(v, f, s, n, mark, finishes),
         VadEnds(v, mark, finishes, woken, w, c)
  PROVE  VadMove(v, f, s, n, woken, w, c)
<1>1. /\ v \in Vads /\ f \in Seq(VadFiles) /\ s \in Heard /\ n \in Nat /\ VadOk(v, f, s, n)
      /\ FilesApart(f) /\ (v.accepted => v.pending = <<>>)
      /\ mark \in Nat /\ (finishes => \E k \in 1 .. Len(v.open) : v.open[k].mark = mark)
  BY Zenon DEF VadMoving, VadHeld
<1> DEFINE ended == IF finishes THEN FinishVad(v, mark) ELSE v
           atOnce == IF finishes /\ v.accepted THEN <<Chunk(v, mark)>> ELSE <<>>
<1>2. w = IF woken THEN FlushPending(ended) ELSE ended
  BY Zenon DEF VadEnds
<1>3. c = atOnce \o IF woken THEN ended.pending ELSE <<>>
  BY Zenon DEF VadEnds
<1>4. VadMove(v, f, s, n, woken, IF woken THEN FlushPending(ended) ELSE ended,
              atOnce \o IF woken THEN ended.pending ELSE <<>>)
  BY <1>1, VadMoves
<1> HIDE DEF ended, atOnce
<1> QED BY <1>2, <1>3, <1>4, Zenon

LEMMA AudioHears == HearInv /\ AudioChunk => HearInv'
<1> SUFFICES ASSUME HearInv, AudioChunk PROVE HearInv'
  OBVIOUS
<1> DEFINE s == hearing.id
<1>0. PICK n \in ChunkBytes, mark \in VadMarks, started, final, won \in BOOLEAN,
           outcome \in Inspected : AudioChunk!(n, mark, started, final, won, outcome)
  BY DEF AudioChunk
<1> DEFINE bytes == [i \in 1 .. n |-> hearing.bytes + i]
           placing == "placement" \in windows
           withheld == placing /\ "debug" \notin windows
           enrolls == "enrollment" \in windows /\ Capturable
           enrolled == enrolls /\ ~ hearing.enrolled
           placed == placing /\ Capturable /\ ~ hearing.placed
           idle == hearing.stage = "idle" /\ ~ enrolled /\ ~ placed
           accepted == idle /\ outcome = "heard" /\ won
           kept == IF (hearing.stage = "idle" \/ enrolls) /\ ~ (withheld /\ Capturable)
                     THEN CaptureWakeChunk(captures[s], bytes) ELSE captures[s]
           marked == IF mark = 0 \/ withheld THEN vad[s] ELSE VadPut(vad[s], mark, bytes, started)
           finishes == mark # 0 /\ ~ withheld /\ final
           ended == IF finishes THEN FinishVad(marked, mark) ELSE marked
           atOnce == IF finishes /\ marked.accepted THEN <<Chunk(marked, mark)>> ELSE <<>>
           woken == enrolled \/ accepted
           more == IF \/ idle /\ "alarm" \in windows
                      \/ ~ idle /\ Capturable /\ ~ enrolled
                   THEN hearing.audio \o bytes ELSE hearing.audio
           stage == IF hearing.stage = "idle" /\ ~ (idle /\ ~ accepted) THEN "listening"
                    ELSE hearing.stage
           c == atOnce \o IF woken THEN ended.pending ELSE <<>>
           w == IF woken THEN FlushPending(ended) ELSE ended
<1>1. /\ Live
      /\ captures' = [captures EXCEPT ![s] = IF woken THEN MarkAccepted(kept) ELSE kept]
      /\ vad' = [vad EXCEPT ![s] = w]
      /\ vadFiles' = vadFiles \o FilesOf(s, c)
      /\ wokenOnes' = IF woken THEN wokenOnes \cup {s} ELSE wokenOnes
      /\ stream' = IF idle THEN StreamAfter(outcome) ELSE stream
      /\ windows' = windows
  BY <1>0
<1>2. hearing' = [hearing EXCEPT
            !.bytes = @ + n, !.stage = stage,
            !.enrolled = @ \/ enrolled, !.placed = @ \/ placed,
            !.special = @ \/ windows # {}, !.audio = more]
  BY <1>0
<1> HIDE <1>0
<1>3. /\ HearTypes /\ HeldForTheActiveSession /\ VadInv /\ OneRun /\ s \in Heard
      /\ captures \in [Heard -> Captures] /\ vad \in [Heard -> Vads] /\ vad[s] \in Vads
      /\ captures[s] \in Captures /\ wokenOnes \subseteq Heard /\ stream \subseteq Heard
      /\ vadFiles \in Seq(VadFiles) /\ hearing.bytes \in Nat /\ hearing \in Hearings
      /\ hearing.audio \in Seq(Nat) /\ hearing.stage \in {"idle", "listening"}
      /\ n \in Nat \ {0} /\ mark \in Nat
  BY <1>1, RecordingsConstants DEF HearInv, HearTypes, Hearings, Live
<1>4. /\ enrolled \in BOOLEAN /\ placed \in BOOLEAN /\ woken \in BOOLEAN /\ finishes \in BOOLEAN
      /\ hearing.enrolled \in BOOLEAN /\ hearing.placed \in BOOLEAN /\ hearing.special \in BOOLEAN
      /\ withheld \in BOOLEAN /\ idle \in BOOLEAN /\ enrolls \in BOOLEAN
  BY <1>3, Zenon DEF Hearings
<1>5. bytes \in Seq(Nat) /\ Len(bytes) = n /\ \A i \in 1 .. n : bytes[i] = hearing.bytes + i
  BY <1>3
<1>6. /\ mark = 0 \/ withheld => ~ finishes /\ marked = vad[s]
      /\ ~ (mark = 0 \/ withheld) => marked = VadPut(vad[s], mark, bytes, started)
  OBVIOUS
<1>7. windows = {} => ~ withheld /\ ~ enrolls /\ ~ enrolled /\ ~ placed /\ "alarm" \notin windows
  OBVIOUS
<1>8. /\ kept = CaptureWakeChunk(captures[s], bytes) \/ kept = captures[s]
      /\ hearing.stage = "idle" /\ ~ withheld => kept = CaptureWakeChunk(captures[s], bytes)
      /\ hearing.stage # "idle" /\ ~ enrolls => kept = captures[s]
  OBVIOUS
<1>9. /\ more \in {hearing.audio, hearing.audio \o bytes}
      /\ idle /\ "alarm" \notin windows => more = hearing.audio
      /\ ~ idle /\ ~ enrolled => more = hearing.audio \o bytes
  BY <1>3 DEF Capturable
<1>10. /\ stage \in {"idle", "listening"}
       /\ hearing.stage = "listening" => stage = "listening"
       /\ idle <=> (hearing.stage = "idle" /\ ~ enrolled /\ ~ placed)
       /\ woken <=> (enrolled \/ accepted)
       /\ accepted => idle
  BY <1>3
<1>11. VadOk(vad[s], vadFiles, s, hearing.bytes) /\ FilesApart(vadFiles)
       /\ (vad[s].accepted => vad[s].pending = <<>> /\ s \in wokenOnes)
  BY <1>3 DEF VadInv
<1>12. /\ w \in Vads /\ c \in Seq(Chunks)
       /\ VadOk(w, vadFiles', s, hearing.bytes + n) /\ FilesApart(vadFiles')
       /\ w.accepted <=> (vad[s].accepted \/ woken)
       /\ w.accepted => w.pending = <<>>
       /\ c = <<>> \/ vad[s].accepted \/ woken
  <2> HIDE DEF bytes, finishes, marked, woken, withheld
  <2>0. VadHeld(vad[s], vadFiles, s, hearing.bytes) /\ n \in Nat /\ bytes \in Seq(Nat) /\ mark \in Nat
    BY <1>3, <1>5, <1>11 DEF VadHeld
  <2>1. PutAs(vad[s], mark, bytes, marked) \/ (~ finishes /\ marked = vad[s])
    <3>1. OneMark(vad[s])
      BY <1>11 DEF VadOk, OneMark
    <3> QED BY <1>3, <1>4, <1>5, <1>6, <3>1, PutIs, Zenon
  <2>2. /\ VadHeld(marked, vadFiles, s, hearing.bytes + n)
        /\ marked.pending = vad[s].pending /\ marked.accepted = vad[s].accepted
        /\ finishes => \E k \in 1 .. Len(marked.open) : marked.open[k].mark = mark
    <3> DEFINE held == vad[s]
               before == hearing.bytes
    <3>1. /\ VadHeld(held, vadFiles, s, before)
          /\ Len(bytes) = n /\ (\A i \in 1 .. n : bytes[i] = before + i)
          /\ PutAs(held, mark, bytes, marked) \/ (~ finishes /\ marked = held)
      BY <1>5, <2>0, <2>1
    <3> SUFFICES /\ VadHeld(marked, vadFiles, s, before + n)
                 /\ marked.pending = held.pending /\ marked.accepted = held.accepted
                 /\ finishes => \E k \in 1 .. Len(marked.open) : marked.open[k].mark = mark
      OBVIOUS
    <3> HIDE DEF held, before
    <3>2. CASE PutAs(held, mark, bytes, marked)
      <4>1. PutNext(held, vadFiles, s, before, mark, n, bytes, marked)
        BY <2>0, <3>1, <3>2, Zenon DEF PutNext
      <4> QED BY <4>1, VadPutOk
    <3>3. CASE ~ finishes /\ marked = held
      <4>1. /\ held \in Vads /\ vadFiles \in Seq(VadFiles) /\ s \in Heard /\ before \in Nat
            /\ VadOk(held, vadFiles, s, before)
        BY <3>1 DEF VadHeld
      <4>2. before + n \in Nat
        BY <2>0, <4>1
      <4>3. n \in Nat
        BY <2>0
      <4>4. VadOk(held, vadFiles, s, before + n)
        BY <4>3, <4>1, VadLater
      <4> QED BY <3>3, <4>1, <4>2, <4>4 DEF VadHeld
    <3> QED BY <3>1, <3>2, <3>3
  <2>3. VadMoving(marked, vadFiles, s, hearing.bytes + n, mark, finishes)
    BY <1>3, <1>11, <2>2, Zenon DEF VadMoving
  <2>4. VadEnds(marked, mark, finishes, woken, w, c)
    BY Zenon DEF VadEnds
  <2>5. VadMove(marked, vadFiles, s, hearing.bytes + n, woken, w, c)
    <3> HIDE DEF w, c
    <3> QED BY <1>4, <2>3, <2>4, MovesHeld, Zenon
  <2> HIDE DEF w, c
  <2> QED BY <1>1, <2>2, <2>5 DEF VadMove
<1> HIDE DEF bytes, placing, withheld, enrolls, enrolled, placed, idle, accepted, kept, marked,
             finishes, ended, atOnce, woken, more, stage, c, w
<1>13. /\ hearing' \in Hearings /\ hearing'.id = s /\ hearing'.stage = stage
       /\ hearing'.bytes = hearing.bytes + n /\ hearing'.audio = more
       /\ hearing'.special <=> (hearing.special \/ windows # {})
  <2>1. more \in Seq(Nat)
    <3>1. hearing.audio \o bytes \in Seq(Nat)
      BY <1>3, <1>5, ConcatProperties
    <3> QED BY <1>3, <1>9, <3>1
  <2>2. hearing.bytes + n \in Nat
    BY <1>3
  <2>3. /\ (hearing.enrolled \/ enrolled) \in BOOLEAN /\ (hearing.placed \/ placed) \in BOOLEAN
        /\ (hearing.special \/ windows # {}) \in BOOLEAN
    BY <1>4
  <2> QED BY <1>2, <1>3, <1>10, <2>1, <2>2, <2>3 DEF Hearings
<1>14. kept \in Captures /\ Len(kept.audio) <= Preroll
  <2>1. Len(captures[s].audio) <= Preroll
    BY <1>3 DEF HearTypes
  <2> QED BY <1>3, <1>5, <1>8, <2>1, CaptureIs
<1> DEFINE k == IF woken THEN MarkAccepted(kept) ELSE kept
<1>15. k \in Captures /\ k.audio = kept.audio /\ captures' = [captures EXCEPT ![s] = k]
       /\ (~ woken => k = kept)
  BY <1>1, <1>14, AcceptedIs
<1> HIDE DEF k
<1>16. /\ vadFiles' \in Seq(VadFiles)
       /\ \A i \in 1 .. Len(vadFiles') :
            vadFiles'[i].session <= hearing'.id /\ vadFiles'[i].session \in wokenOnes'
  <2>1. wokenOnes \subseteq wokenOnes' /\ (woken => s \in wokenOnes')
    BY <1>1
  <2> QED BY <1>1, <1>3, <1>11, <1>12, <1>13, <2>1, FilesOfWoken
<1>17. stream' \subseteq stream \cup {s}
  BY <1>1 DEF StreamAfter
<1>18. HearTypes'
  <2>1. captures' \in [Heard -> Captures] /\ vad' \in [Heard -> Vads]
    BY <1>1, <1>3, <1>12, <1>15
  <2>2. \A x \in Heard : Len(captures'[x].audio) <= Preroll
    BY <1>3, <1>14, <1>15 DEF HearTypes
  <2>3. wokenOnes' \subseteq Heard /\ stream' \subseteq Heard /\ windows' \in WindowSets
    BY <1>1, <1>3, <1>17 DEF HearTypes
  <2> QED BY <1>3, <1>13, <1>16, <2>1, <2>2, <2>3 DEF HearTypes
<1>19. HeldForTheActiveSession'
  <2>1. hearing'.stage # "none" /\ hearing'.id = s
    BY <1>10, <1>13
  <2>2. ASSUME NEW x \in Heard, x # s
        PROVE  captures'[x] = NoCapture /\ vad'[x] = NoVad /\ x \notin stream'
    BY <1>1, <1>3, <1>15, <1>17, <2>2 DEF HeldForTheActiveSession
  <2> QED BY <2>1, <2>2 DEF HeldForTheActiveSession
<1>20. OneRun'
  <2> SUFFICES ASSUME ~ hearing'.special
               PROVE  /\ stage = "idle" => more = <<>>
                      /\ stage = "idle" \/ captures'[s].accepted =>
                           Run(captures'[s].audio \o more, hearing.bytes + n)
    BY <1>10, <1>13 DEF OneRun
  <2>1. ~ hearing.special /\ windows = {}
    BY <1>13
  <2>2. ~ withheld /\ ~ enrolls /\ ~ enrolled /\ ~ placed /\ "alarm" \notin windows
    BY <1>7, <2>1
  <2>3. captures'[s] = k
    BY <1>3, <1>15
  <2>4. /\ hearing.stage = "idle" => hearing.audio = <<>>
        /\ hearing.stage = "idle" \/ captures[s].accepted =>
             Run(captures[s].audio \o hearing.audio, hearing.bytes)
    BY <1>3, <2>1 DEF OneRun
  <2>5. captures[s].audio \in Seq(Nat) /\ kept.audio \in Seq(Nat)
    BY <1>3, <1>14 DEF Captures
  <2>6. CASE hearing.stage = "idle"
    <3>1. idle /\ more = <<>>
      BY <1>9, <1>10, <2>2, <2>4, <2>6
    <3>2. Run(captures[s].audio, hearing.bytes)
      BY <2>4, <2>5, <2>6, ConcatEmptySeq
    <3>3. Run(captures[s].audio \o bytes, hearing.bytes + n)
      BY <1>3, <2>5, <3>2, RunGoesOn DEF bytes
    <3>4. captures[s].audio \o bytes \in Seq(Nat) /\ hearing.bytes + n \in Nat
      BY <1>3, <1>5, <2>5, ConcatProperties
    <3>5. Run(TrimCapture(captures[s].audio \o bytes), hearing.bytes + n)
      BY <3>3, <3>4, TrimIs
    <3>6. kept.audio = TrimCapture(captures[s].audio \o bytes)
      BY <1>3, <1>5, <1>8, <2>2, <2>6, CaptureIs
    <3>7. kept.audio \o more = kept.audio
      BY <2>5, <3>1, ConcatEmptySeq
    <3> QED BY <1>15, <2>3, <3>1, <3>5, <3>6, <3>7
  <2>7. CASE hearing.stage = "listening"
    <3>1. ~ idle /\ ~ woken /\ stage = "listening" /\ kept = captures[s]
      BY <1>8, <1>10, <2>2, <2>7
    <3>2. more = hearing.audio \o bytes
      BY <1>9, <2>2, <3>1
    <3>3. captures'[s] = captures[s]
      BY <1>15, <2>3, <3>1
    <3>4. ASSUME captures[s].accepted
          PROVE  Run(captures[s].audio \o more, hearing.bytes + n)
      <4>1. Run(captures[s].audio \o hearing.audio, hearing.bytes)
        BY <2>4, <3>4
      <4>2. captures[s].audio \o hearing.audio \in Seq(Nat)
        BY <1>3, <2>5, ConcatProperties
      <4>3. Run((captures[s].audio \o hearing.audio) \o bytes, hearing.bytes + n)
        BY <1>3, <4>1, <4>2, RunGoesOn DEF bytes
      <4>4. (captures[s].audio \o hearing.audio) \o bytes = captures[s].audio \o more
        <5> DEFINE a == captures[s].audio
                   b == hearing.audio
        <5>1. a \in Seq(Nat) /\ b \in Seq(Nat) /\ bytes \in Seq(Nat)
          BY <1>3, <1>5, <2>5
        <5> HIDE DEF a, b
        <5>2. (a \o b) \o bytes = a \o (b \o bytes)
          BY <5>1, ConcatAssociative, SMTT(30)
        <5> QED BY <3>2, <5>2 DEF a, b
      <4> QED BY <4>3, <4>4
    <3> QED BY <3>1, <3>3, <3>4
  <2> QED BY <1>3, <2>6, <2>7
<1>21. VadInv'
  <2>1. vad'[s] = w /\ \A x \in Heard : x # s => vad'[x] = vad[x]
    BY <1>1, <1>3
  <2>2. wokenOnes \subseteq wokenOnes' /\ (woken => s \in wokenOnes')
    BY <1>1
  <2>3. \A x \in Heard : vad'[x].accepted => vad'[x].pending = <<>> /\ x \in wokenOnes'
    <3>1. w.accepted => w.pending = <<>> /\ s \in wokenOnes'
      BY <1>11, <1>12, <2>2
    <3>2. \A x \in Heard : vad[x].accepted => vad[x].pending = <<>> /\ x \in wokenOnes
      BY <1>3 DEF VadInv
    <3> QED BY <2>1, <2>2, <3>1, <3>2
  <2>4. VadOk(vad'[hearing'.id], vadFiles', hearing'.id, hearing'.bytes)
    BY <1>12, <1>13, <2>1
  <2> QED BY <1>12, <1>16, <2>3, <2>4 DEF VadInv
<1> QED BY <1>18, <1>19, <1>20, <1>21 DEF HearInv

LEMMA EndHears == HearInv /\ EndSession => HearInv'
BY ClearHears DEF EndSession, Live

LEMMA RecordHears == HearInv /\ RecordAudio => HearInv'
<1> SUFFICES ASSUME HearInv, RecordAudio PROVE HearInv'
  OBVIOUS
<1> DEFINE s == hearing.id
<1>0. /\ HearTypes /\ HeldForTheActiveSession /\ VadInv /\ OneRun /\ s \in Heard
      /\ captures \in [Heard -> Captures] /\ captures[s] \in Captures
      /\ hearing \in Hearings /\ hearing.stage = "listening"
      /\ hearing' = [hearing EXCEPT !.stage = "turn"]
      /\ UNCHANGED <<windows, vad, vadFiles, wokenOnes, stream>>
  BY DEF HearInv, HearTypes, RecordAudio
<1>1. /\ hearing' \in Hearings /\ hearing'.id = s /\ hearing'.stage = "turn"
      /\ hearing'.bytes = hearing.bytes /\ hearing'.audio = hearing.audio
      /\ hearing'.special = hearing.special
  BY <1>0 DEF Hearings
<1>2. \/ captures' = [captures EXCEPT ![s] = NoCapture]
      \/ captures' = captures /\ ~ (captures[s].accepted /\ captures[s].audio \o hearing.audio # <<>>)
  BY DEF RecordAudio
<1>3. /\ captures' \in [Heard -> Captures]
      /\ \A x \in Heard : captures'[x] = captures[x] \/ captures'[x] = NoCapture
  BY <1>0, <1>2, NothingHeard
<1>4. HearTypes'
  <2>1. \A x \in Heard : Len(captures'[x].audio) <= Preroll
    BY <1>0, <1>3, NothingHeard, RecordingsConstants, SMTT(30) DEF HearTypes
  <2> QED BY <1>0, <1>1, <1>3, <2>1 DEF HearTypes
<1>5. HeldForTheActiveSession'
  BY <1>0, <1>1, <1>3 DEF HeldForTheActiveSession
<1>6. OneRun'
  <2> SUFFICES ASSUME ~ hearing.special, captures'[s].accepted
               PROVE  /\ hearing.audio = <<>>
                      /\ Run(captures'[s].audio \o hearing.audio, hearing.bytes)
    BY <1>1 DEF OneRun
  <2>1. captures' = captures /\ captures[s].audio \o hearing.audio = <<>>
    BY <1>0, <1>2 DEF NoCapture
  <2>2. Run(captures[s].audio \o hearing.audio, hearing.bytes)
    BY <1>0, <2>1 DEF OneRun
  <2>3. hearing.audio = <<>>
    <3>1. hearing.audio \in Seq(Nat) /\ captures[s].audio \in Seq(Nat)
      BY <1>0 DEF Hearings, Captures
    <3> QED BY <2>1, <3>1, ConcatSimplifications
  <2> QED BY <2>1, <2>2, <2>3
<1>7. VadInv'
  BY <1>0, <1>1 DEF VadInv
<1> QED BY <1>4, <1>5, <1>6, <1>7 DEF HearInv

LEMMA TurnEndHears == HearInv /\ EndTurn => HearInv'
<1> SUFFICES ASSUME HearInv, EndTurn PROVE HearInv'
  OBVIOUS
<1> DEFINE s == hearing.id
<1>0. hearing.stage = "turn" /\ UNCHANGED <<windows, wokenOnes>>
  BY DEF EndTurn
<1>1. CASE Release(s) /\ Clear(s)
  BY <1>0, <1>1, ClearHears
<1>2. CASE /\ hearing' = [hearing EXCEPT !.stage = "listening", !.audio = <<>>]
           /\ UNCHANGED <<captures, vad, vadFiles, stream>>
  <2>1. HearTypes /\ HeldForTheActiveSession /\ VadInv /\ OneRun /\ s \in Heard /\ hearing \in Hearings
    BY <1>0 DEF HearInv, HearTypes
  <2>2. /\ hearing' \in Hearings /\ hearing'.id = s /\ hearing'.stage = "listening"
        /\ hearing'.bytes = hearing.bytes /\ hearing'.audio = <<>>
        /\ hearing'.special = hearing.special
    BY <1>2, <2>1, EmptySeq DEF Hearings
  <2>3. HearTypes'
    BY <1>0, <1>2, <2>1, <2>2 DEF HearTypes
  <2>4. HeldForTheActiveSession'
    BY <1>0, <1>2, <2>1, <2>2 DEF HeldForTheActiveSession
  <2>5. OneRun'
    <3> SUFFICES ASSUME ~ hearing.special, captures[s].accepted
                 PROVE  Run(captures[s].audio \o <<>>, hearing.bytes)
      BY <1>2, <2>2 DEF OneRun
    <3>1. /\ hearing.audio = <<>>
          /\ Run(captures[s].audio \o hearing.audio, hearing.bytes)
      BY <1>0, <2>1 DEF OneRun
    <3> QED BY <3>1
  <2>6. VadInv'
    BY <1>0, <1>2, <2>1, <2>2 DEF VadInv
  <2> QED BY <2>3, <2>4, <2>5, <2>6 DEF HearInv
<1> QED BY <1>1, <1>2 DEF EndTurn

-----------------------------------------------------------------------------
(* WakeRecordings: the files *)

LEMMA DiskInitInv == RecordingsInit => DiskInv
<1> SUFFICES ASSUME RecordingsInit PROVE DiskInv
  OBVIOUS
<1>1. <<>> \in Seq(Recordings) /\ Len(<<>>) = 0 /\ DOMAIN <<>> = {}
  BY NothingHeard, EmptySeq
<1>2. DiskTypes
  <2>1. sweep \in [left : SUBSET ({"wav", "json"} \X Nat), cutoff : Int] /\ sweep.cutoff <= 0
    BY DEF RecordingsInit
  <2> QED BY <1>1, <2>1, RecordingsConstants DEF RecordingsInit, DiskTypes
<1>3. SweepInv /\ AudioHasItsStory
  BY DEF RecordingsInit, SweepInv, AudioHasItsStory
<1>4. RecordingIsWhatWasHeard
  BY <1>1 DEF RecordingsInit, RecordingIsWhatWasHeard
<1> QED BY <1>2, <1>3, <1>4 DEF DiskInv

(* Whether metadata is in the making depends on the turn only.             *)
LEMMA DiskStays ==
  ASSUME DiskInv, UNCHANGED dvars, hearing.stage # "turn" \/ hearing' = hearing
  PROVE  DiskInv'
<1>0. UNCHANGED <<recordings, wavs, storys, day, sweep>>
  BY DEF dvars
<1>1. DiskTypes'
  BY <1>0 DEF DiskInv, DiskTypes
<1>2. SweepInv'
  BY <1>0 DEF DiskInv, SweepInv
<1>3. RecordingIsWhatWasHeard'
  BY <1>0 DEF DiskInv, RecordingIsWhatWasHeard
<1>4. AudioHasItsStory'
  <2>1. ASSUME NEW r, InMaking(r) PROVE InMaking(r)'
    BY <1>0, <2>1 DEF InMaking, Latest
  <2> QED BY <1>0, <2>1 DEF DiskInv, AudioHasItsStory
<1> QED BY <1>1, <1>2, <1>3, <1>4 DEF DiskInv

LEMMA FilesKnown ==
  ASSUME DiskTypes
  PROVE  /\ Len(recordings) \in Nat /\ recordings \in Seq(Recordings)
         /\ day \in Nat /\ sweep.cutoff \in Int /\ sweep.cutoff <= day
         /\ \A f \in wavs \cup storys : f.of \in 1 .. Len(recordings) /\ f.day \in Nat /\ f.day <= day
         /\ DOMAIN recordings = 1 .. Len(recordings)
BY LenProperties, RecordingsConstants DEF DiskTypes

LEMMA TurnEndDisk == DiskInv /\ EndTurn => DiskInv'
<1> SUFFICES ASSUME DiskInv, EndTurn PROVE DiskInv'
  OBVIOUS
<1>0. /\ UNCHANGED <<recordings, wavs, storys, day, sweep>>
      /\ (Latest > 0 /\ InMaking(Latest) => \E f \in storys : f.of = Latest)
  BY DEF EndTurn, dvars
<1>1. DiskTypes'
  BY <1>0 DEF DiskInv, DiskTypes
<1>2. SweepInv'
  BY <1>0 DEF DiskInv, SweepInv
<1>3. RecordingIsWhatWasHeard'
  BY <1>0 DEF DiskInv, RecordingIsWhatWasHeard
<1>4. AudioHasItsStory'
  <2>1. ASSUME NEW f \in wavs, InMaking(f.of) PROVE \E g \in storys : g.of = f.of
    <3>1. f.of = Latest /\ Latest > 0
      BY <2>1, FilesKnown DEF DiskInv, InMaking, Latest
    <3> QED BY <1>0, <2>1, <3>1
  <2>2. ASSUME NEW f \in wavs
        PROVE  \/ \E g \in storys : g.of = f.of
               \/ <<"wav", f.of>> \in sweep.left /\ f.day < sweep.cutoff
    BY <2>1 DEF DiskInv, AudioHasItsStory
  <2> QED BY <1>0, <2>2 DEF AudioHasItsStory
<1> QED BY <1>1, <1>2, <1>3, <1>4 DEF DiskInv

LEMMA RecordDisk == HearInv /\ DiskInv /\ RecordAudio => DiskInv'
<1> SUFFICES ASSUME HearInv, DiskInv, RecordAudio PROVE DiskInv'
  OBVIOUS
<1> DEFINE s == hearing.id
           c == captures[s]
           a == c.audio \o hearing.audio
           made == [session |-> s, audio |-> WholeFrames(a), special |-> hearing.special]
<1>0. /\ hearing.stage = "listening" /\ hearing' = [hearing EXCEPT !.stage = "turn"]
      /\ UNCHANGED <<day, sweep>>
  BY DEF RecordAudio
<1>3. PICK r : r = Len(recordings) + 1
  OBVIOUS
<1>1. CASE UNCHANGED <<recordings, wavs, storys>>
  BY <1>0, <1>1, DiskStays DEF dvars
<1>2. CASE /\ c.accepted
           /\ recordings' = Append(recordings, made)
           /\ wavs' = (wavs \ Old(wavs, Cutoff)) \cup {File(r)}
           /\ storys' = storys \ Old(storys, Cutoff)
  <2>1. /\ Len(recordings) \in Nat /\ recordings \in Seq(Recordings)
        /\ day \in Nat /\ sweep.cutoff \in Int /\ sweep.cutoff <= day
        /\ \A f \in wavs \cup storys : f.of \in 1 .. Len(recordings) /\ f.day \in Nat /\ f.day <= day
        /\ wavs \cup storys \subseteq [of : 1 .. Len(recordings), day : 0 .. day]
        /\ File(r).of = r /\ File(r).day = day /\ r \in Nat
    BY <1>3, FilesKnown DEF DiskInv, DiskTypes, File
  <2>2. /\ hearing \in Hearings /\ s \in Heard /\ c \in Captures
        /\ hearing.bytes \in Nat /\ hearing.audio \in Seq(Nat) /\ c.audio \in Seq(Nat)
    BY <1>0 DEF HearInv, HearTypes, Hearings, Captures
  <2>3. hearing'.stage = "turn" /\ hearing'.id = s
    BY <1>0, <2>2 DEF Hearings
  <2>4. a \in Seq(Nat)
    BY <2>2, ConcatProperties
  <2> HIDE DEF a
  <2>5. made \in Recordings
    <3>1. WholeFrames(a) \in Seq(Nat)
      BY <2>4, WholeIs
    <3> QED BY <2>2, <3>1 DEF Hearings, Recordings
  <2>6. ~ hearing.special => Run(a, hearing.bytes)
    BY <1>0, <1>2 DEF HearInv, OneRun, a
  <2>7. /\ recordings' \in Seq(Recordings) /\ Len(recordings') = r
        /\ recordings'[r] = made /\ \A i \in 1 .. Len(recordings) : recordings'[i] = recordings[i]
        /\ DOMAIN recordings' = 1 .. r
    <3> HIDE DEF made
    <3> QED BY <1>2, <2>1, <2>5, <1>3, AppendProperties, LenProperties
  <2>8. r = Len(recordings) + 1
    BY <1>3
  <2>9. DiskTypes'
    <3>1. File(r) \in [of : 1 .. r, day : 0 .. day]
      BY <2>1, <2>8 DEF File
    <3>2. wavs' \cup storys' \subseteq [of : 1 .. r, day : 0 .. day]
      BY <1>2, <2>1, <2>8, <3>1
    <3> QED BY <1>0, <2>7, <3>2 DEF DiskInv, DiskTypes
  <2>10. \A f \in wavs' : f = File(r) \/ (f \in wavs /\ ~ f.day < Cutoff)
    BY <1>2 DEF Old
  <2>11. \A g \in storys : g.day < Cutoff \/ g \in storys'
    BY <1>2 DEF Old
  <2>12. SweepInv'
    <3>1. ASSUME NEW f \in wavs', NEW g \in storys', f.of = g.of PROVE f.day <= g.day
      <4>1. g \in storys /\ f # File(r)
        BY <1>2, <2>1, <2>8, <3>1
      <4> QED BY <2>10, <3>1, <4>1 DEF DiskInv, SweepInv
    <3>2. ASSUME NEW f \in wavs', f.day < sweep.cutoff PROVE <<"wav", f.of>> \in sweep.left
      BY <2>1, <2>10, <3>2 DEF DiskInv, SweepInv
    <3> QED BY <1>0, <3>1, <3>2 DEF SweepInv
  <2>13. AudioHasItsStory'
    <3>1. InMaking(r)'
      BY <2>3, <2>7 DEF InMaking, Latest
    <3>2. ASSUME NEW f \in wavs, ~ f.day < Cutoff
          PROVE  \/ \E g \in storys' : g.of = f.of
                 \/ <<"wav", f.of>> \in sweep.left /\ f.day < sweep.cutoff
      <4>1. CASE \E g \in storys : g.of = f.of
        <5>1. PICK g \in storys : g.of = f.of
          BY <4>1
        <5>2. f.day <= g.day
          BY <5>1 DEF DiskInv, SweepInv
        <5>3. ~ g.day < Cutoff
          BY <2>1, <3>2, <5>2 DEF Cutoff
        <5> QED BY <2>11, <5>1, <5>3
      <4>2. ~ InMaking(f.of)
        BY <1>0 DEF InMaking
      <4> QED BY <4>1, <4>2 DEF DiskInv, AudioHasItsStory
    <3>3. ASSUME NEW f \in wavs'
          PROVE  \/ \E g \in storys' : g.of = f.of
                 \/ InMaking(f.of)'
                 \/ <<"wav", f.of>> \in sweep'.left /\ f.day < sweep'.cutoff
      <4>1. CASE f = File(r)
        BY <2>1, <3>1, <4>1
      <4>2. CASE f \in wavs /\ ~ f.day < Cutoff
        BY <1>0, <3>2, <4>2
      <4> QED BY <2>10, <4>1, <4>2
    <3> QED BY <3>3 DEF AudioHasItsStory
  <2>14. RecordingIsWhatWasHeard'
    <3>1. ASSUME NEW i \in 1 .. Len(recordings)
          PROVE  recordings'[i] = recordings[i] /\ i \in DOMAIN recordings
      BY <2>1, <2>7
    <3>2. ~ hearing.special /\ WholeFrames(a) # <<>> =>
            /\ (WholeFrames(a)[1] - 1) % Frame = 0
            /\ \A i \in 2 .. Len(WholeFrames(a)) : WholeFrames(a)[i] = WholeFrames(a)[i - 1] + 1
      BY <2>2, <2>4, <2>6, WholeIs
    <3>3. recordings'[r].audio = WholeFrames(a) /\ recordings'[r].special = hearing.special
      BY <2>7
    <3>4. \A i \in DOMAIN recordings' : i = r \/ i \in 1 .. Len(recordings)
      BY <2>1, <2>7, <2>8
    <3> HIDE DEF made
    <3> QED BY <3>1, <3>2, <3>3, <3>4 DEF DiskInv, RecordingIsWhatWasHeard
  <2> QED BY <2>9, <2>12, <2>13, <2>14 DEF DiskInv
<1> QED BY <1>1, <1>2, <1>3 DEF RecordAudio, Expired

LEMMA WriteDisk == DiskInv /\ WriteStory => DiskInv'
<1> SUFFICES ASSUME DiskInv, WriteStory PROVE DiskInv'
  OBVIOUS
<1>0. /\ Latest > 0 /\ storys' = storys \cup {File(Latest)}
      /\ UNCHANGED <<hearing, recordings, wavs, day, sweep>>
  BY DEF WriteStory, hvars
<1>1. /\ DiskTypes /\ Len(recordings) \in Nat /\ day \in Nat
      /\ \A f \in wavs \cup storys : f.of \in 1 .. Len(recordings) /\ f.day \in Nat /\ f.day <= day
      /\ File(Latest) \in [of : 1 .. Len(recordings), day : 0 .. day]
      /\ File(Latest).of = Latest /\ File(Latest).day = day
  BY <1>0, FilesKnown DEF DiskInv, File, Latest
<1>2. DiskTypes'
  BY <1>0, <1>1 DEF DiskTypes
<1>3. SweepInv'
  BY <1>0, <1>1 DEF DiskInv, SweepInv
<1>4. RecordingIsWhatWasHeard'
  BY <1>0 DEF DiskInv, RecordingIsWhatWasHeard
<1>5. AudioHasItsStory'
  BY <1>0 DEF DiskInv, AudioHasItsStory, InMaking, Latest
<1> QED BY <1>2, <1>3, <1>4, <1>5 DEF DiskInv

LEMMA AttachDisk == DiskInv /\ AttachTranscript => DiskInv'
<1> SUFFICES ASSUME DiskInv, AttachTranscript PROVE DiskInv'
  OBVIOUS
<1>0. /\ Latest > 0 /\ UNCHANGED <<hearing, recordings, wavs, day, sweep>>
  BY DEF AttachTranscript, hvars
<1>1. PICK old \in storys : old.of = Latest /\ storys' = (storys \ {old}) \cup {File(Latest)}
  BY DEF AttachTranscript
<1>2. /\ DiskTypes /\ Len(recordings) \in Nat /\ day \in Nat
      /\ \A f \in wavs \cup storys : f.of \in 1 .. Len(recordings) /\ f.day \in Nat /\ f.day <= day
      /\ File(Latest) \in [of : 1 .. Len(recordings), day : 0 .. day]
      /\ File(Latest).of = Latest /\ File(Latest).day = day
  BY <1>0, FilesKnown DEF DiskInv, File, Latest
<1>3. DiskTypes'
  BY <1>0, <1>1, <1>2 DEF DiskTypes
<1>4. SweepInv'
  BY <1>0, <1>1, <1>2 DEF DiskInv, SweepInv
<1>5. RecordingIsWhatWasHeard'
  BY <1>0 DEF DiskInv, RecordingIsWhatWasHeard
<1>6. AudioHasItsStory'
  <2>1. ASSUME NEW g \in storys PROVE \E h \in storys' : h.of = g.of
    BY <1>1, <1>2
  <2>2. ASSUME NEW f \in wavs
        PROVE  \/ \E g \in storys' : g.of = f.of
               \/ InMaking(f.of)'
               \/ <<"wav", f.of>> \in sweep'.left /\ f.day < sweep'.cutoff
    BY <1>0, <2>1 DEF DiskInv, AudioHasItsStory, InMaking, Latest
  <2> QED BY <1>0, <2>2 DEF AudioHasItsStory
<1> QED BY <1>3, <1>4, <1>5, <1>6 DEF DiskInv

LEMMA DeleteDisk == DiskInv /\ DeleteRecording => DiskInv'
<1> SUFFICES ASSUME DiskInv, DeleteRecording PROVE DiskInv'
  OBVIOUS
<1>0. hearing.stage # "turn" /\ UNCHANGED <<hearing, recordings, day, sweep>>
  BY DEF DeleteRecording, hvars
<1>1. PICK r : wavs' = {f \in wavs : f.of # r} /\ storys' = {f \in storys : f.of # r}
  BY DEF DeleteRecording
<1>2. DiskTypes'
  BY <1>0, <1>1 DEF DiskInv, DiskTypes
<1>3. SweepInv'
  BY <1>0, <1>1 DEF DiskInv, SweepInv
<1>4. RecordingIsWhatWasHeard'
  BY <1>0 DEF DiskInv, RecordingIsWhatWasHeard
<1>5. AudioHasItsStory'
  BY <1>0, <1>1 DEF DiskInv, AudioHasItsStory, InMaking, Latest
<1> QED BY <1>2, <1>3, <1>4, <1>5 DEF DiskInv

LEMMA StartDisk == DiskInv /\ StartSweep => DiskInv'
<1> SUFFICES ASSUME DiskInv, StartSweep PROVE DiskInv'
  OBVIOUS
<1> DEFINE left == ({"wav"} \X {f.of : f \in wavs}) \cup ({"json"} \X {f.of : f \in storys})
<1>0. /\ sweep.left = {} /\ sweep' = [left |-> left, cutoff |-> day - 1]
      /\ UNCHANGED <<hearing, recordings, wavs, storys, day>>
  BY DEF StartSweep, Cutoff, hvars
<1>1. /\ DiskTypes /\ day \in Nat /\ day - 1 \in Int /\ day - 1 <= day
      /\ \A f \in wavs \cup storys : f.of \in Nat
  BY FilesKnown DEF DiskInv
<1>2. left \in SUBSET ({"wav", "json"} \X Nat)
  BY <1>1
<1>3. \A f \in wavs : <<"wav", f.of>> \in left
  OBVIOUS
<1> HIDE DEF left
<1>4. DiskTypes'
  BY <1>0, <1>1, <1>2 DEF DiskTypes
<1>5. SweepInv'
  BY <1>0, <1>3 DEF DiskInv, SweepInv
<1>6. RecordingIsWhatWasHeard'
  BY <1>0 DEF DiskInv, RecordingIsWhatWasHeard
<1>7. AudioHasItsStory'
  BY <1>0 DEF DiskInv, AudioHasItsStory, InMaking, Latest
<1> QED BY <1>4, <1>5, <1>6, <1>7 DEF DiskInv

LEMMA SweepDisk == DiskInv /\ SweepFile => DiskInv'
<1> SUFFICES ASSUME DiskInv, SweepFile PROVE DiskInv'
  OBVIOUS
<1>0. UNCHANGED <<hearing, recordings, day>>
  BY DEF SweepFile, hvars
<1>1. PICK f \in sweep.left :
        /\ sweep' = [sweep EXCEPT !.left = sweep.left \ {f}]
        /\ wavs' = wavs \ {x \in Old(wavs, sweep.cutoff) : f = <<"wav", x.of>>}
        /\ storys' = storys \ {x \in Old(storys, sweep.cutoff) : f = <<"json", x.of>>}
  BY DEF SweepFile, Expired
<1>2. /\ DiskTypes /\ sweep.cutoff \in Int
      /\ \A x \in wavs \cup storys : x.day \in Nat
  BY FilesKnown DEF DiskInv
<1>3. /\ sweep' \in [left : SUBSET ({"wav", "json"} \X Nat), cutoff : Int]
      /\ sweep'.left = sweep.left \ {f} /\ sweep'.cutoff = sweep.cutoff
  BY <1>1, <1>2 DEF DiskTypes
<1>4. /\ \A x \in wavs' : x \in wavs /\ (x.day < sweep.cutoff => f # <<"wav", x.of>>)
      /\ \A x \in storys' : x \in storys
      /\ \A x \in storys : x \in storys' \/ (x.day < sweep.cutoff /\ f = <<"json", x.of>>)
  BY <1>1 DEF Old
<1>5. DiskTypes'
  BY <1>0, <1>2, <1>3, <1>4 DEF DiskTypes
<1>6. SweepInv'
  BY <1>0, <1>3, <1>4 DEF DiskInv, SweepInv
<1>7. RecordingIsWhatWasHeard'
  BY <1>0 DEF DiskInv, RecordingIsWhatWasHeard
<1>8. AudioHasItsStory'
  <2>1. ASSUME NEW x \in wavs'
        PROVE  \/ \E g \in storys' : g.of = x.of
               \/ InMaking(x.of)
               \/ <<"wav", x.of>> \in sweep'.left /\ x.day < sweep.cutoff
    <3>1. x \in wavs /\ (x.day < sweep.cutoff => f # <<"wav", x.of>>)
      BY <1>4
    <3>2. CASE x.day < sweep.cutoff
      BY <1>3, <3>1, <3>2 DEF DiskInv, SweepInv
    <3>3. CASE ~ x.day < sweep.cutoff
      <4>1. ASSUME NEW g \in storys, g.of = x.of PROVE g \in storys'
        <5>1. x.day <= g.day
          BY <3>1, <4>1 DEF DiskInv, SweepInv
        <5>2. ~ g.day < sweep.cutoff
          BY <1>2, <3>1, <3>3, <5>1
        <5> QED BY <1>4, <5>2
      <4> QED BY <3>1, <3>3, <4>1 DEF DiskInv, AudioHasItsStory
    <3> QED BY <3>2, <3>3
  <2>2. ASSUME NEW x, InMaking(x) PROVE InMaking(x)'
    BY <1>0, <2>2 DEF InMaking, Latest
  <2> QED BY <1>3, <2>1, <2>2 DEF AudioHasItsStory
<1> QED BY <1>5, <1>6, <1>7, <1>8 DEF DiskInv

LEMMA DayDisk == DiskInv /\ NextDay => DiskInv'
<1> SUFFICES ASSUME DiskInv, NextDay PROVE DiskInv'
  OBVIOUS
<1>0. /\ day < MaxDay /\ day' = day + 1
      /\ UNCHANGED <<hearing, recordings, wavs, storys, sweep>>
  BY DEF NextDay, hvars
<1>1. /\ DiskTypes /\ day \in Nat /\ sweep.cutoff \in Int /\ sweep.cutoff <= day + 1 /\ MaxDay \in Nat
  BY FilesKnown, RecordingsConstants DEF DiskInv
<1>2. DiskTypes'
  <2>1. 0 .. day \subseteq 0 .. day + 1 /\ day + 1 \in 0 .. MaxDay
    BY <1>0, <1>1
  <2>2. [of : 1 .. Len(recordings), day : 0 .. day] \subseteq [of : 1 .. Len(recordings), day : 0 .. day + 1]
    BY <2>1
  <2> QED BY <1>0, <1>1, <2>1, <2>2 DEF DiskTypes
<1>3. SweepInv'
  BY <1>0 DEF DiskInv, SweepInv
<1>4. RecordingIsWhatWasHeard'
  BY <1>0 DEF DiskInv, RecordingIsWhatWasHeard
<1>5. AudioHasItsStory'
  BY <1>0 DEF DiskInv, AudioHasItsStory, InMaking, Latest
<1> QED BY <1>2, <1>3, <1>4, <1>5 DEF DiskInv

LEMMA RecordingsInitInv == RecordingsInit => RecordingsInv
BY HearInitInv, DiskInitInv DEF RecordingsInv

LEMMA RecordingsStep == RecordingsInv /\ [RecordingsNext]_wakeVars => RecordingsInv'
<1> SUFFICES ASSUME HearInv, DiskInv, [RecordingsNext]_wakeVars PROVE HearInv' /\ DiskInv'
  BY DEF RecordingsInv
<1>1. CASE OpenSession
  <2>1. UNCHANGED dvars /\ hearing.stage # "turn"
    BY <1>1 DEF OpenSession
  <2> QED BY <1>1, <2>1, OpenHears, DiskStays
<1>2. CASE WindowsChange
  <2>1. UNCHANGED dvars /\ hearing.stage # "turn"
    BY <1>2 DEF WindowsChange
  <2> QED BY <1>2, <2>1, WindowsHear, DiskStays
<1>3. CASE AudioChunk
  <2>1. PICK n \in ChunkBytes, mark \in VadMarks, started, final, won \in BOOLEAN,
             outcome \in Inspected : AudioChunk!(n, mark, started, final, won, outcome)
    BY <1>3 DEF AudioChunk
  <2>2. UNCHANGED dvars /\ Live
    BY <2>1
  <2>3. hearing.stage # "turn"
    BY <2>2 DEF Live
  <2> QED BY <1>3, <2>2, <2>3, AudioHears, DiskStays
<1>4. CASE Woken
  <2>1. UNCHANGED dvars /\ hearing.stage # "turn"
    BY <1>4 DEF Woken
  <2> QED BY <1>4, <2>1, WokenHears, DiskStays
<1>5. CASE EndSession
  <2>1. UNCHANGED dvars /\ hearing.stage # "turn"
    BY <1>5 DEF EndSession, Live
  <2> QED BY <1>5, <2>1, EndHears, DiskStays
<1>6. CASE RecordAudio
  BY <1>6, RecordHears, RecordDisk
<1>7. CASE WriteStory
  <2>1. UNCHANGED hvars
    BY <1>7 DEF WriteStory
  <2> QED BY <1>7, <2>1, HearStays, WriteDisk
<1>8. CASE AttachTranscript
  <2>1. UNCHANGED hvars
    BY <1>8 DEF AttachTranscript
  <2> QED BY <1>8, <2>1, HearStays, AttachDisk
<1>9. CASE EndTurn
  BY <1>9, TurnEndHears, TurnEndDisk
<1>10. CASE DeleteRecording
  <2>1. UNCHANGED hvars
    BY <1>10 DEF DeleteRecording
  <2> QED BY <1>10, <2>1, HearStays, DeleteDisk
<1>11. CASE StartSweep
  <2>1. UNCHANGED hvars
    BY <1>11 DEF StartSweep
  <2> QED BY <1>11, <2>1, HearStays, StartDisk
<1>12. CASE SweepFile
  <2>1. UNCHANGED hvars
    BY <1>12 DEF SweepFile
  <2> QED BY <1>12, <2>1, HearStays, SweepDisk
<1>13. CASE NextDay
  <2>1. UNCHANGED hvars
    BY <1>13 DEF NextDay
  <2> QED BY <1>13, <2>1, HearStays, DayDisk
<1>14. CASE UNCHANGED wakeVars
  <2>1. UNCHANGED hvars /\ UNCHANGED dvars /\ hearing' = hearing
    BY <1>14 DEF wakeVars, hvars
  <2> QED BY <2>1, HearStays, DiskStays
<1> QED BY <1>1, <1>2, <1>3, <1>4, <1>5, <1>6, <1>7, <1>8, <1>9, <1>10, <1>11, <1>12, <1>13, <1>14
        DEF RecordingsNext

LEMMA RecordingsShow ==
  RecordingsInv => /\ RecordingsTypeOK /\ HeldForTheActiveSession /\ RecordingIsWhatWasHeard
                   /\ VadChunksOfTheWoken /\ AudioHasItsStory
<1> SUFFICES ASSUME HearInv, DiskInv PROVE RecordingsTypeOK /\ VadChunksOfTheWoken
  BY DEF RecordingsInv, HearInv, DiskInv
<1>1. RecordingsTypeOK
  <2>1. DOMAIN recordings = 1 .. Len(recordings)
    BY FilesKnown DEF DiskInv
  <2> QED BY <2>1 DEF HearInv, DiskInv, HearTypes, DiskTypes, Hearings, RecordingsTypeOK
<1>2. /\ DOMAIN vadFiles = 1 .. Len(vadFiles) /\ Len(vadFiles) \in Nat
      /\ \A i \in 1 .. Len(vadFiles) : vadFiles[i] \in VadFiles
  BY LenProperties, ElementOfSeq DEF HearInv, HearTypes
<1>3. \A i \in 1 .. Len(vadFiles) : DOMAIN vadFiles[i].audio = 1 .. Len(vadFiles[i].audio)
  <2>1. \A i \in 1 .. Len(vadFiles) : vadFiles[i].audio \in Seq(Nat)
    BY <1>2 DEF VadFiles
  <2> QED BY <2>1, LenProperties
<1>4. ASSUME NEW i \in DOMAIN vadFiles, NEW j \in DOMAIN vadFiles,
             i < j, vadFiles[i].session = vadFiles[j].session,
             NEW x \in DOMAIN vadFiles[i].audio, NEW y \in DOMAIN vadFiles[j].audio
      PROVE  vadFiles[i].audio[x] # vadFiles[j].audio[y]
  <2>1. i \in 1 .. Len(vadFiles) /\ j \in 1 .. Len(vadFiles) /\ i # j
    BY <1>2, <1>4
  <2>2. Apart(vadFiles[i].audio, vadFiles[j].audio)
    BY <1>4, <2>1 DEF HearInv, VadInv, FilesApart
  <2> QED BY <1>3, <2>1, <2>2 DEF Apart
<1>5. /\ \A i \in DOMAIN vadFiles : vadFiles[i].session \in wokenOnes
      /\ \A s \in Heard : vad[s].accepted => vad[s].pending = <<>>
  BY <1>2 DEF HearInv, VadInv
<1> QED BY <1>1, <1>4, <1>5 DEF VadChunksOfTheWoken

-----------------------------------------------------------------------------
(* What the turn hears and asks *)

LEMMA AiInvariant == AiSpec => []AiInv
<1>1. AiInv /\ [AiNext]_ivars => AiInv'
  BY AiStep
<1> QED BY <1>1, AiInitInv, PTL DEF AiSpec

LEMMA SttInvariant == SttSpec => []SttInv
<1>1. SttInv /\ [SttNext]_mvars => SttInv'
  BY SttStep
<1> QED BY <1>1, SttInitInv, PTL DEF SttSpec

LEMMA UploadInvariant == UploadSpec => []UploadInv
<1>1. UploadInv /\ [UploadNext]_uploadVars => UploadInv'
  BY UploadStep
<1> QED BY <1>1, UploadInitInv, PTL DEF UploadSpec

LEMMA RecordingsInvariant == RecordingsSpec => []RecordingsInv
BY RecordingsInitInv, RecordingsStep, PTL DEF RecordingsSpec

(* AINodeClient.execute and the adapters: whatever the trust in Core's     *)
(* node, the resolution of its address and the failures of the assistant   *)
(* and the classifier, no adapter sends a text twice to one address.       *)
THEOREM NodeIsAskedOnce == AiSpec => []AskedOnceEach
<1>1. AiInv => AskedOnceEach
  BY DEF AiInv
<1> QED BY <1>1, AiInvariant, PTL

(* The speech-to-text adapters: all of the speech is handed to each engine *)
(* that is tried, the second engine gets what the first got, and a failure *)
(* of the first is not the answer when there is a second to try.           *)
THEOREM SpeechIsTranscribed == SttSpec => [](SpeechIsHandedOver /\ FailureIsNotTheLastWord)
<1>1. SttInv => SpeechIsHandedOver /\ FailureIsNotTheLastWord
  BY SttHandsOver DEF SttInv
<1> QED BY <1>1, SttInvariant, PTL

(* The firmware's upload and the backend's handlers: a session hears its   *)
(* own captures, a socket's frames in order, and a capture the backend     *)
(* accepted while it listened is transcribed in one piece, whatever is     *)
(* lost, late or overtaken between the two.                                *)
THEOREM UploadsAreHeard ==
  UploadSpec => [](SessionsHearTheirOwn /\ FramesInOrder /\ AcceptedIsTranscribed)
<1>1. UploadInv => SessionsHearTheirOwn /\ FramesInOrder /\ AcceptedIsTranscribed
  BY UploadShows
<1> QED BY <1>1, UploadInvariant, PTL

(* wake_recordings.py and micro_vad_chunks.py: audio is held for the       *)
(* active session only, a recording is one piece of what was heard from a  *)
(* whole frame on, and a VAD chunk is written once and of a woken session  *)
(* only, for every chunk size, preroll and frame.                          *)
THEOREM RecordingsAreWhatWasHeard ==
  RecordingsSpec =>
    [](HeldForTheActiveSession /\ RecordingIsWhatWasHeard /\ VadChunksOfTheWoken)
<1>1. RecordingsInv => HeldForTheActiveSession /\ RecordingIsWhatWasHeard /\ VadChunksOfTheWoken
  BY RecordingsShow
<1> QED BY <1>1, RecordingsInvariant, PTL

(* cleanup_expired in its thread, against record_accepted_session, the     *)
(* metadata's writes and deletions: audio is never left without the        *)
(* metadata that lists it.                                                 *)
THEOREM NoAudioIsForgotten == RecordingsSpec => []AudioHasItsStory
<1>1. RecordingsInv => AudioHasItsStory
  BY RecordingsShow
<1> QED BY <1>1, RecordingsInvariant, PTL

(* All of it together, as the runs compose it: what is handed over, heard, *)
(* asked and kept of the audio of a turn.                                  *)
THEOREM HearingHolds == Spec => []HearingInv
<1> DEFINE Inv == AiInv /\ SttInv /\ UploadInv /\ RecordingsInv
<1>1. Init => Inv
  BY AiInitInv, SttInitInv, UploadInitInv, RecordingsInitInv DEF Init
<1>2. Inv /\ [Next]_<<vvars, mvars, ivars, wakeVars, uploadVars, part>> => Inv'
  <2> SUFFICES ASSUME Inv, [Next]_<<vvars, mvars, ivars, wakeVars, uploadVars, part>> PROVE Inv'
    OBVIOUS
  <2>1. /\ AiNext \/ UNCHANGED ivars
        /\ SttNext \/ UNCHANGED mvars
        /\ UploadNext \/ UNCHANGED uploadVars
        /\ [RecordingsNext]_wakeVars
    BY DEF Next, Turns, Kept
  <2> QED BY <2>1, AiStep, SttStep, UploadStep, RecordingsStep
<1>3. Inv => HearingInv
  BY SttHandsOver, UploadShows, RecordingsShow DEF AiInv, SttInv, HearingInv
<1> QED BY <1>1, <1>2, <1>3, PTL DEF Spec
=============================================================================
