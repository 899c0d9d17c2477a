----------------------------- MODULE MCServices -----------------------------
(***************************************************************************)
(* Instances for TLC of the services around the voice sessions.  They      *)
(* share no state with each other, so a behaviour is one service's, or one *)
(* part of it where its operations fall into groups that do not touch the  *)
(* same file; the others stand still.                                      *)
(***************************************************************************)
EXTENDS SpeechAssets, SetupReady, SpeakerProfiles, EndpointPairing, IntentRegistry,
        EndpointMedia, PlacementTests

CONSTANTS clip, lasting, builtin, weatherIntent

VARIABLE part

Parts == {"clip", "lasting", "assets", "onboarding", "migration", "ready",
          "profiles", "learning", "registry", "access", "intents",
          "library", "delivery", "calibration", "tests"}

\* Values of constants that a configuration cannot write.
OneStage == Texts \X {"shared", "own"}
AllStreams == {clip, lasting} \cup OneStage
OneNamespace == [k \in Keys |-> CHOOSE n \in Nodes : TRUE]
OneBuiltin == <<builtin>>
SomeFiles == {[type |-> "picture", stem |-> "logo", ext |-> "png"],
              [type |-> "picture", stem |-> "logo", ext |-> "gif"]}

Still(which) ==
  /\ IF which = "speech" THEN TRUE ELSE UNCHANGED everything
  /\ IF which = "setup" THEN TRUE ELSE UNCHANGED <<ovars, rvars>>
  /\ IF which = "speakers" THEN TRUE ELSE UNCHANGED kvars
  /\ IF which = "pairing" THEN TRUE ELSE UNCHANGED pvars
  /\ IF which = "intents" THEN TRUE ELSE UNCHANGED gvars
  /\ IF which = "media" THEN TRUE ELSE UNCHANGED mediaVars
  /\ IF which = "placement" THEN TRUE ELSE UNCHANGED placementVars

\* What only other parts vary is fixed.
Init ==
  /\ part \in Parts
  /\ AssetsInit /\ ReadyInit /\ SpeakersInit /\ PairingInit /\ RegistryInit /\ MediaInit
  /\ PlacementInit
  /\ part # "access" => \A a \in Addresses : home[a] = CHOOSE d \in Devices : TRUE

-----------------------------------------------------------------------------
(* The spoken files: a clip, a long-lived clip, or the named assets with   *)
(* their staging streams.                                                  *)
MineIn(p) == CASE p = "clip" -> {clip} [] p = "lasting" -> {lasting} [] p = "assets" -> OneStage

Speech ==
  /\ part \in {"clip", "lasting", "assets"} /\ SpeechNext
  /\ \A s \in Streams \ MineIn(part) :
       /\ files'[s] = files[s] /\ sidecar'[s] = sidecar[s] /\ request'[s] = request[s]
       /\ converter'[s] = converter[s] /\ fetch'[s] = fetch[s]
  /\ part # "assets" => UNCHANGED avars
  /\ part = "assets" => UNCHANGED <<request, converter, fetch>> /\ clock' < 2
  /\ Still("speech")

-----------------------------------------------------------------------------
(* Setup: without bundles, the providers complete or none; with a bundle,  *)
(* up to trust, of a node whose test of the connection fails; and the last *)
(* steps, after a first setup straight on.                                 *)
Forward ==
  /\ node.trust = "untrusted"
  /\ \/ SaveIdentity \/ SaveCoreConnection \/ TestConnection \/ ValidateAdvertisement
     \/ StartSession \/ PollSession \/ FinalizeActivation
  /\ node'.nonce # 2 /\ node'.step # node.step

Straight ==
  \/ Forward
  \/ CoreDecides \/ CoreFindsReady \/ CoreRevokes \/ RefreshTrust \/ PollOperationalStatus
  \/ (SaveProviders /\ node.step = "provider_setup")

LastSteps ==
  \E s \in Slots :
    \/ BeginRequest(s) \/ FinishSelect(s) \/ FinishDeclare(s) \/ FinishSync(s) \/ FailRequest(s)
    \/ FinishSmoke(s) \/ RefuseComplete(s) \/ MarkComplete(s) \/ FinishComplete(s) \/ FinishAcknowledge(s)

Setup ==
  /\ \/ /\ part = "onboarding" /\ OnboardingNext /\ UNCHANGED rvars
        /\ bundle' = bundle /\ node'.nonce # 2 /\ node'.allowed = node'.enabled
     \/ /\ part = "migration" /\ OnboardingNext /\ UNCHANGED rvars
        /\ Len(sessions') < MaxSessions /\ node'.nonce # 2 /\ ~ node'.enabled
        /\ node'.capability = "missing" /\ ~ node'.connected /\ (bundle' = bundle \/ bundle = NoBundle)
     \/ /\ part = "ready" /\ Straight /\ UNCHANGED rvars
        /\ Len(sessions') < MaxSessions
     \/ /\ part = "ready" /\ node.allowed /\ LastSteps
        /\ \A s \in Slots : Request(s).op = "smoke" => ready'.failed \notin {"frontend", "dirs", "engines", "supervisor"}
  /\ Still("setup")

-----------------------------------------------------------------------------
(* Speaker profiles: two people without candidates; one and a candidate.   *)
FirstOnly(S) == CHOOSE x \in S : TRUE

Speakers ==
  /\ part \in {"profiles", "learning"} /\ SpeakersNext
  /\ \/ part = "profiles" /\ UNCHANGED review
     \/ /\ part = "learning"
        /\ \A i \in ProfileIds : speakers'[i] # Absent =>
             i = FirstOnly(ProfileIds) /\ speakers'[i].public = FirstOnly(Publics)
  /\ Still("speakers")

(* Pairing: the registry and the handoffs; the jobs with the adapter.      *)
Pairing ==
  /\ \/ /\ part = "registry"
        /\ \/ Heartbeat \/ Offer \/ UpdateMetadata \/ Delete \/ GrowOld \/ StartPairing \/ IdentityIsRead
           \/ ApprovePairing \/ EndPairing \/ BeginHandoff \/ FinishHandoff \/ Moves
        /\ endpoints'[FirstOnly(Devices)] = Unregistered
     \/ /\ part = "access"
        /\ \/ StartPairing \/ IdentityIsRead \/ ApprovePairing \/ EndPairing \/ SaveCredentials \/ Scan
           \/ ReadIdentity \/ ProvisionWifi \/ SupervisorCall \/ ReleaseLease \/ StrayExpires \/ OffersAgain
  /\ Still("pairing")

(* Intents: a built-in administrator's intent, and a service's.            *)
Intents ==
  /\ part = "intents" /\ RegistryNext
  /\ \A w \in Writers :
       LET r == writing'[w].record IN
       /\ r.id = weatherIntent => r.policy = "use_if_ready" /\ r.status # "disabled"
       /\ r.id = builtin => r.policy = "required" /\ r.status # "active" /\ r.uses = 0
  /\ Still("intents")

(* Media: two writers of the library; one, and what is delivered.          *)
Media ==
  /\ part \in {"library", "delivery"} /\ MediaNext
  /\ \/ part = "library" /\ UNCHANGED <<cards, queued, asked>>
     \/ /\ part = "delivery" /\ library'[Beep] = NoEntry
        /\ \A u \in Uploaders \ {FirstOnly(Uploaders)} : uploads'[u] = NoUpload
        /\ ~ overlapped'
  /\ Still("media")

(* Placement: calibrations over three days; tests within one.              *)
Placement ==
  /\ \/ part = "calibration" /\ (Calibrates \/ DayPasses)
     \/ part = "tests" /\ (TestsPlaces \/ (date = 0 /\ DayPasses))
  /\ Still("placement")

Next ==
  /\ UNCHANGED part
  /\ \/ Speech
     \/ Setup \/ Speakers \/ Pairing \/ Intents \/ Media \/ Placement

allVars == <<part, everything, ovars, rvars, kvars, pvars, gvars, mediaVars, placementVars>>

Spec == Init /\ [][Next]_allVars

-----------------------------------------------------------------------------
(* What several write stays whole: a sidecar's audio can be fetched and a  *)
(* name is its node's, whatever the threads and sweeps do; the profiles    *)
(* stay one person's each; the built-in intents come first; an entry of    *)
(* the media library has its file, and an SD card what was sent to it; and *)
(* what is learned of a place was said for it, while it was asked for.     *)
FilesInv ==
  /\ AssetsTypeOK /\ ReadyIsOnDisk /\ NamesBelongToTheirNode
  /\ SpeakersTypeOK /\ ProfilesAreSound
  /\ RegistryTypeOK /\ BuiltinsComeFirst
  /\ MediaTypeOK /\ ManifestIsHonest /\ CardsHoldWhatWasAsked
  /\ PlacementTypeOK /\ SamplesWhileOpen /\ TestsReportedOnce /\ TestsAreNotObserved

(* What is granted was decided: the setup's steps follow trust (outside    *)
(* the threads of its last steps, whose old files undo a revocation) and   *)
(* its tokens are issued ones; an approved sample was learned; a lease is  *)
(* given back, credentials and firmware go to the device that was asked    *)
(* for or approved.                                                        *)
GrantsInv ==
  /\ OnboardingTypeOK /\ ReadyTypeOK /\ TokensAreIssued /\ UnblockedMayGoOn
  /\ (part # "ready" => PostTrustNeedsTrust)
  /\ ApprovedWasLearned
  /\ PairingTypeOK /\ LeasesAreReturned /\ SentToTheOneAsked /\ InstallsWereApproved
=============================================================================
