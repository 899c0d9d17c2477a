---------------------------- MODULE SpeechAssets ----------------------------
(***************************************************************************)
(* TtsAudioService._synthesize_managed (src/hexevoice/tts/service.py):     *)
(* speech under a name.  An alias, runtime/voice_tts_assets/aliases, leads *)
(* to a revision, the hash of its audio; the audio itself is left in the   *)
(* staging stream it was synthesised in, a stream of SpeechFiles like any  *)
(* other.  Requests run in threads; a lock covers only the write of an     *)
(* alias.                                                                  *)
(***************************************************************************)
EXTENDS SpeechFiles

CONSTANTS Nodes, Keys, Texts,
          Namespace,    \* first segment of a key: the node it belongs to
          Takes,        \* what Piper makes of a text differs from call to call
          MaxRevisions  \* bound: revisions of a behaviour

Modes == {"cached", "named_asset"}   \* persistent is a named asset kept for ever

(* ttsstage- ids: one for a text, and one of its own for each `always', of *)
(* which the model keeps one at a time.                                    *)
Stages == Texts \X {"shared", "own"}

ASSUME AssetsAssumption == Namespace \in [Keys -> Nodes] /\ Stages \subseteq Streams

StageOf(text, policy) == <<text, IF policy = "always" THEN "own" ELSE "shared">>

VARIABLES
  alias,      \* by key, or Nothing
  revisions,  \* the revision records: audio, stage, age
  managed     \* the request of each node

avars == <<alias, revisions, managed>>
everything == <<fvars, avars>>

AssetsInit ==
  /\ FilesInit /\ alias = [k \in Keys |-> Nothing] /\ revisions = {}
  /\ managed = [n \in Nodes |-> [at |-> "idle"]]

OwnerMatches(k, n) == alias[k] # Nothing => alias[k].owner = n

(* Mutant: whoever comes first names a key.                                *)
FirstComerNames(k, n) == TRUE

(* asset_key_owned_by.                                                     *)
MayName(k, n) == Namespace[k] = n

(* Neither is asked of a cached delivery, which leaves the name no owner.  *)
Permitted(k, n, mode) == mode = "cached" \/ (MayName(k, n) /\ OwnerMatches(k, n))

(* An alias that answers the request is not synthesised again, and nobody  *)
(* looks whether its audio is still there.                                 *)
Hit(k, text, policy) ==
  /\ alias[k] # Nothing
  /\ \/ policy = "if_missing"
     \/ policy = "if_changed" /\ alias[k].text = text

StageFree(s) == s[2] = "own" => sidecar[s] = Nothing /\ \A r \in revisions : r.stage # s

(* The synthesis and the variants, staged; a revision record that exists   *)
(* is kept, with the paths it names.                                       *)
Stage(n, k, text, policy, mode) ==
  \E take \in Takes, keep \in BOOLEAN :
    LET s == StageOf(text, policy)
        known == {r \in revisions : r.text = text /\ r.take = take}
        made == [text |-> text, take |-> take, stage |-> s, born |-> clock]
    IN
    /\ managed[n].at = "idle" /\ Permitted(k, n, mode)
    /\ ~ Hit(k, text, policy) /\ StageFree(s) /\ ~ Expired(s) /\ ~ Busy(s)
    /\ Cardinality(revisions) < MaxRevisions
    /\ Store(s, {"raw", "asset"}) /\ Save(s, First({"raw"}, "not_needed"))
    /\ revisions' = revisions \cup (IF known = {} THEN {made} ELSE {})
    /\ managed' = [managed EXCEPT ![n] =
         [at |-> "staged", mode |-> mode, key |-> k, text |-> text, keep |-> keep,
          revision |-> IF known = {} THEN made ELSE CHOOSE r \in known : TRUE]]
    /\ UNCHANGED <<clock, request, converter, fetch, deleted, alias>>

(* cleanup_unreferenced_revisions: records older than ten minutes that no  *)
(* alias names, with the audio their paths lead to.                        *)
Unreferenced(names) ==
  {r \in revisions : r.born < clock /\ \A k \in Keys : names[k] # Nothing => names[k].revision # r}

Collect(names) ==
  LET gone == Unreferenced(names) IN
  /\ revisions' = revisions \ gone
  /\ files' = [s \in Streams |-> IF \E r \in gone : r.stage = s THEN files[s] \ {"asset"} ELSE files[s]]

(* The owner is looked at again, under the lock.                           *)
NameAsset(n) ==
  LET m == managed[n]
      names == [alias EXCEPT ![m.key] = [owner |-> IF m.mode = "cached" THEN Nothing ELSE n,
                  text |-> m.text, revision |-> m.revision,
                  expires |-> IF m.keep THEN Never ELSE clock + 1]]
  IN
  /\ m.at = "staged" /\ managed' = [managed EXCEPT ![n] = [at |-> "idle"]]
  /\ IF m.mode = "cached" \/ OwnerMatches(m.key, n) THEN alias' = names /\ Collect(names)
     ELSE UNCHANGED <<alias, revisions, files>>
  /\ UNCHANGED <<clock, written, sidecar, request, converter, fetch, deleted>>

DeleteAsset(n, k) ==
  /\ alias[k] # Nothing /\ OwnerMatches(k, n)
  /\ alias' = [alias EXCEPT ![k] = Nothing] /\ Collect(alias')
  /\ UNCHANGED <<clock, written, sidecar, request, converter, fetch, deleted, managed>>

Tick ==
  /\ clock < MaxClock /\ \A s \in Streams : ~ Busy(s)
  /\ \A n \in Nodes : managed[n].at = "idle"
  /\ clock' = clock + 1
  /\ UNCHANGED <<files, written, sidecar, request, converter, fetch, deleted, avars>>

AssetSteps(n, k) ==
  \/ \E text \in Texts, policy \in {"if_changed", "always", "if_missing"}, mode \in Modes :
       Stage(n, k, text, policy, mode)
  \/ NameAsset(n) \/ DeleteAsset(n, k)

SpeechNext ==
  \/ \E s \in Streams : FileSteps(s) /\ UNCHANGED avars
  \/ Housekeeping /\ UNCHANGED avars
  \/ \E n \in Nodes, k \in Keys : AssetSteps(n, k)
  \/ Tick

SpeechFilesSpec == AssetsInit /\ [][SpeechNext]_everything

-----------------------------------------------------------------------------

AssetsTypeOK ==
  /\ FilesTypeOK
  /\ \A r \in revisions : r.text \in Texts /\ r.take \in Takes /\ r.stage \in Streams /\ r.born <= clock
  /\ \A k \in Keys : alias[k] # Nothing => alias[k].text = alias[k].revision.text

(* docs/local-tts-runtime.md:50: a named asset belongs to the node of its  *)
(* namespace and no other, also when two nodes ask for one name at once.   *)
NamesBelongToTheirNode == 
  \A k \in Keys : alias[k] # Nothing => alias[k].owner \in {Nothing, Namespace[k]}

=============================================================================
