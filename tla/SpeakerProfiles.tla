--------------------------- MODULE SpeakerProfiles ---------------------------
(***************************************************************************)
(* The Speaker ID service, src/hexevoice/speaker_id/service.py, with its   *)
(* adapters, and the review of learning candidates by the node, main.py's  *)
(* /api/speaker-id and persistence/speaker_profile_review.py.  A request   *)
(* of the service is one step: its handlers wait for nothing.  The node    *)
(* waits for each answer of the service, and may lose it.                  *)
(*                                                                         *)
(* A voice is compared by a score of 0, 1 or 2: the confidence threshold   *)
(* and the margin are both 1.  The 200 candidates kept are never exceeded. *)
(***************************************************************************)
EXTENDS Naturals, FiniteSets

CONSTANTS Publics,      \* speaker_public_id
          ProfileIds, NoProfile,
          Providers, Installed, Signal,   \* deterministic_signal is always there
          Candidates,
          MaxLearned    \* bound: samples one candidate adds

ASSUME SpeakersAssumption ==
  /\ Signal \in Installed /\ Installed \subseteq Providers /\ NoProfile \notin ProfileIds \cup Publics /\ MaxLearned \in Nat

Absent == [public |-> NoProfile]
Unseen == [profile |-> NoProfile, public |-> NoProfile, status |-> "none", retained |-> FALSE]
Idling == [stage |-> "idle", profile |-> NoProfile]

VARIABLES
  speakers,    \* speaker-id profiles, a file
  enabled, provider,
  saved,       \* the runtime configuration, a file
  outcome,     \* the profile identified last
  candidates,  \* profile learning candidates, a file
  reviewing,   \* by candidate, the approval under way
  learned      \* history: samples each candidate added

kvars == <<speakers, enabled, provider, saved, outcome, candidates, reviewing, learned>>
service == <<speakers, enabled, provider, saved, outcome>>
review == <<candidates, reviewing, learned>>

SpeakersInit ==
  /\ speakers = [i \in ProfileIds |-> Absent] /\ outcome = NoProfile
  /\ enabled = TRUE /\ provider = Signal /\ saved = [enabled |-> TRUE, provider |-> Signal]
  /\ candidates = [c \in Candidates |-> Unseen]
  /\ reviewing = [c \in Candidates |-> Idling] /\ learned = [c \in Candidates |-> 0]

Present == {i \in ProfileIds : speakers[i] # Absent}
Of(public) == {i \in Present : speakers[i].public = public}

(* update_config.  A provider that is not installed is refused when the    *)
(* service is already switched on or off, in memory only.                  *)
UpdateConfig ==
  \E on \in BOOLEAN, p \in Providers :
    /\ enabled' = on
    /\ provider' = IF p \in Installed THEN p ELSE provider
    /\ saved' = IF p \in Installed THEN [enabled |-> on, provider |-> p] ELSE saved
    /\ UNCHANGED <<speakers, outcome, review>>

Restart ==
  /\ enabled' = saved.enabled /\ provider' = saved.provider /\ outcome' = NoProfile
  /\ UNCHANGED <<speakers, saved, review>>

(* _profile_age_policy: only an adult may be eligible.                     *)
WithAgePolicy(profile, age, admin) == [profile EXCEPT !.age = age, !.admin = admin /\ age = "adult"]

(* Mutant: a field that the request leaves out is left alone.              *)
UpdateFieldsAlone ==
  \E i \in Present, public \in Publics, age \in {"child", "adult"}, admin \in BOOLEAN :
    /\ Of(public) \subseteq {i}
    /\ speakers' = [speakers EXCEPT ![i] = [@ EXCEPT !.public = public, !.age = age, !.admin = @ \/ (admin /\ age = "adult")]]
    /\ UNCHANGED <<enabled, provider, saved, outcome, review>>

(* Whoever has the public id is enrolled anew, from the first sample on.   *)
Enroll ==
  \E public \in Publics, age \in {"child", "adult"}, admin \in BOOLEAN, i \in ProfileIds :
    /\ IF Of(public) # {} THEN i \in Of(public) ELSE i \notin Present
    /\ speakers' = [speakers EXCEPT ![i] =
         WithAgePolicy([public |-> public, provider |-> provider, made |-> {provider}, age |-> age, admin |-> FALSE], age, admin)]
    /\ UNCHANGED <<enabled, provider, saved, outcome, review>>

UpdateProfile ==
  \E i \in Present, public \in Publics, age \in {"child", "adult"}, admin \in BOOLEAN :
    /\ Of(public) \subseteq {i}
    /\ speakers' = [speakers EXCEPT ![i] = WithAgePolicy([@ EXCEPT !.public = public], age, admin)]
    /\ UNCHANGED <<enabled, provider, saved, outcome, review>>

Appendable(i) == i \in Present /\ speakers[i].provider = provider
Appended(i) == [speakers EXCEPT ![i].made = @ \cup {provider}]

AppendSamples ==
  \E i \in Present :
    /\ Appendable(i) /\ speakers' = Appended(i)
    /\ UNCHANGED <<enabled, provider, saved, outcome, review>>

DeleteProfile ==
  \E i \in Present :
    /\ speakers' = [speakers EXCEPT ![i] = Absent]
    /\ UNCHANGED <<enabled, provider, saved, outcome, review>>

-----------------------------------------------------------------------------

(* _rank_profiles, _identify_embedding.                                    *)
Comparable == {i \in Present : speakers[i].provider = provider}

Best(scores, i) == \A j \in Comparable : scores[j] <= scores[i]
Clears(scores, i) ==
  /\ scores[i] >= 1
  /\ \A j \in Comparable \ {i} : scores[i] >= scores[j] + 1

Identify ==
  \E scores \in [ProfileIds -> 0 .. 2], i \in Comparable :
    /\ enabled /\ Best(scores, i)
    /\ outcome' = IF Clears(scores, i) THEN i ELSE NoProfile
    /\ UNCHANGED <<speakers, enabled, provider, saved, review>>

(* add_candidate, of a turn whose speaker was identified: audio is kept    *)
(* with it only while debugging.                                           *)
AddCandidate ==
  \E c \in Candidates, named, retained \in BOOLEAN :
    /\ outcome \in Present /\ candidates[c].status = "none"
    /\ candidates' = [candidates EXCEPT ![c] =
         [profile |-> IF named THEN outcome ELSE NoProfile, public |-> speakers[outcome].public,
          status |-> "pending", retained |-> retained]]
    /\ UNCHANGED <<service, reviewing, learned>>

Reviewed(c, decision) == [candidates EXCEPT ![c].status = decision]

Dismiss ==
  \E c \in Candidates, decision \in {"rejected", "discarded"} :
    /\ candidates[c].status = "pending" /\ candidates' = Reviewed(c, decision)
    /\ UNCHANGED <<service, reviewing, learned>>

SetStage(c, stage, i) == reviewing' = [reviewing EXCEPT ![c] = [stage |-> stage, profile |-> i]]

(* The profile is the candidate's own, or found by its public id.          *)
BeginApproval ==
  \E c \in Candidates, i \in ProfileIds :
    /\ reviewing[c] = Idling /\ candidates[c].retained
    /\ IF candidates[c].profile # NoProfile THEN i = candidates[c].profile ELSE i \in Of(candidates[c].public)
    /\ SetStage(c, "asking", i)
    /\ UNCHANGED <<service, candidates, learned>>

(* Without an answer the approval fails, whatever the service has done.    *)
LearnSample ==
  \E c \in Candidates, answered \in BOOLEAN :
    LET i == reviewing[c].profile IN
    /\ reviewing[c].stage = "asking" /\ Appendable(i) /\ learned[c] < MaxLearned
    /\ speakers' = Appended(i) /\ learned' = [learned EXCEPT ![c] = @ + 1]
    /\ IF answered THEN SetStage(c, "answered", i) ELSE SetStage(c, "idle", NoProfile)
    /\ UNCHANGED <<enabled, provider, saved, outcome, candidates>>

(* Mutant: an approval counts when the service was asked.                  *)
RefuseYetApprove ==
  \E c \in Candidates :
    /\ reviewing[c].stage = "asking"
    /\ candidates' = IF candidates[c].status = "pending" THEN Reviewed(c, "approved") ELSE candidates
    /\ SetStage(c, "idle", NoProfile)
    /\ UNCHANGED <<service, learned>>

RefuseSample ==
  \E c \in Candidates :
    /\ reviewing[c].stage = "asking" /\ SetStage(c, "idle", NoProfile)
    /\ UNCHANGED <<service, candidates, learned>>

(* mark_reviewed; one that was reviewed before is an error, and stays.     *)
FinishApproval ==
  \E c \in Candidates :
    /\ reviewing[c].stage = "answered" /\ SetStage(c, "idle", NoProfile)
    /\ candidates' = IF candidates[c].status = "pending" THEN Reviewed(c, "approved") ELSE candidates
    /\ UNCHANGED <<service, learned>>

SpeakersNext ==
  \/ UpdateConfig \/ Restart \/ Enroll \/ UpdateProfile \/ AppendSamples \/ DeleteProfile \/ Identify
  \/ AddCandidate \/ Dismiss \/ BeginApproval \/ LearnSample \/ RefuseSample \/ FinishApproval

SpeakersSpec == SpeakersInit /\ [][SpeakersNext]_kvars

-----------------------------------------------------------------------------

(* The types of the variables.                                             *)
SpeakersTypeOK ==
  /\ enabled \in BOOLEAN /\ provider \in Installed /\ saved.provider \in Installed
  /\ outcome \in ProfileIds \cup {NoProfile} /\ \A c \in Candidates : learned[c] \in 0 .. MaxLearned
  /\ \A c \in Candidates : candidates[c].status \in {"none", "pending", "approved", "rejected", "discarded"}

(* Whatever is enrolled, renamed, changed, deleted and learned, and        *)
(* however the provider is switched in between: a public id names one      *)
(* profile, its embeddings are all of its own provider                     *)
(* (service.py:685, profile_provider_mismatch), and an eligible            *)
(* administrator is an adult (service.py:912).                             *)
ProfilesAreSound ==
  \A i \in Present :
    /\ Of(speakers[i].public) = {i}
    /\ speakers[i].made = {speakers[i].provider}
    /\ speakers[i].admin => speakers[i].age = "adult"

(* A candidate that counts as approved has added its sample.               *)
ApprovedWasLearned == \A c \in Candidates : candidates[c].status = "approved" => learned[c] > 0

=============================================================================
