--------------------------- MODULE ServicesProofs ---------------------------
(***************************************************************************)
(* Proofs about MCServices for every number of streams, names, Cores,      *)
(* profiles, devices, intents, files and endpoints, and every bound: each  *)
(* service by itself, under its own specification, and then together.      *)
(***************************************************************************)
EXTENDS MCServices, SequenceTheorems, FiniteSetTheorems, WellFoundedInduction, TLAPS

-----------------------------------------------------------------------------
(* Numbers *)

(* A set of numbers has a least one.                                       *)
LEMMA LeastIs ==
  ASSUME NEW T, T \subseteq Nat, T # {}
  PROVE  \E n \in T : \A m \in T : n <= m
<1> DEFINE R == {p \in Nat \X Nat : p[1] < p[2]}
<1>1. IsWellFoundedOn(R, Nat)
  BY NatLessThanWellFounded DEF OpToRel
<1>2. \A x, y \in Nat : <<y, x>> \in R <=> y < x
  OBVIOUS
<1> HIDE DEF R
<1>3. PICK n \in T : \A m \in T : <<m, n>> \notin R
  BY <1>1, WFMin
<1>4. ASSUME NEW m \in T PROVE n <= m
  <2>1. n \in Nat /\ m \in Nat /\ ~ m < n
    BY <1>2, <1>3
  <2> QED BY <2>1
<1> QED BY <1>4

(* How many the numbers up to one are.                                     *)
LEMMA UpTo ==
  ASSUME NEW n \in Nat PROVE IsFiniteSet(1 .. n) /\ Cardinality(1 .. n) = n
<1>1. n \in Int /\ 1 \in Int OBVIOUS
<1>2. IsFiniteSet(1 .. n) /\ Cardinality(1 .. n) = IF 1 > n THEN 0 ELSE n - 1 + 1
  BY <1>1, FS_Interval, Zenon
<1>3. CASE n = 0
  <2>1. 1 > n BY <1>3
  <2> QED BY <1>2, <1>3, <2>1
<1>4. CASE n # 0
  <2>1. ~ 1 > n /\ n - 1 + 1 = n BY <1>4
  <2> QED BY <1>2, <2>1
<1> QED BY <1>3, <1>4

-----------------------------------------------------------------------------
(* Spoken files.  A sidecar that a thread, a request or a fetch holds is   *)
(* as good as the one on the disk: its files are there, except those of a  *)
(* conversion that failed.                                                 *)
Json == [expires : 0 .. Never, ready : SUBSET {"raw", "opt"},
         conversion : {"not_needed", "pending", "completed", "failed"}]

Statuses == {"completed", "failed"}

Asking == {[at |-> "idle"], [at |-> "spoken"]} \cup [at : {"merging"}, saw : Json \cup {Nothing}]
Converting ==
  {[at |-> "idle"], [at |-> "running"]} \cup [at : {"converted"}, status : Statuses]
    \cup [at : {"updating"}, status : Statuses, saw : Json]
Fetching == {[at |-> "idle"]} \cup [at : {"reading"}, saw : Json]

StreamTypes ==
  /\ clock \in 0 .. MaxClock /\ deleted \subseteq Streams
  /\ files \in [Streams -> SUBSET Variants] /\ written \in [Streams -> 0 .. MaxClock]
  /\ sidecar \in [Streams -> Json \cup {Nothing}]
  /\ request \in [Streams -> Asking] /\ converter \in [Streams -> Converting]
  /\ fetch \in [Streams -> Fetching]

Lists(json, fs) ==
  json.ready \ {"opt"} \subseteq fs /\ (json.conversion # "failed" => json.ready \subseteq fs)

StillGood(json, t, fs) == json.expires > t /\ Lists(json, fs)

(* A stream of files, its sidecar and who works on it.                     *)
StreamSound(t, fs, json, req, conv, got) ==
  /\ json # Nothing /\ json.expires > t => Lists(json, fs)
  /\ (req.at # "idle" \/ conv.at # "idle" \/ got.at # "idle") /\ json # Nothing => json.expires > t
  /\ json = Nothing => conv.at = "idle" /\ got.at = "idle" /\ (req.at = "merging" => req.saw = Nothing)
  /\ req.at = "merging" /\ req.saw # Nothing => StillGood(req.saw, t, fs)
  /\ conv.at = "updating" => StillGood(conv.saw, t, fs)
  /\ conv.at \in {"converted", "updating"} /\ conv.status = "completed" => "opt" \in fs
  /\ got.at = "reading" => StillGood(got.saw, t, fs)

StreamIs(s) == StreamSound(clock, files[s], sidecar[s], request[s], converter[s], fetch[s])

StreamsInv == StreamTypes /\ \A s \in Streams \ deleted : StreamIs(s)

LEMMA JsonIs == Json \subseteq Sidecar /\ Nothing \notin Json
<1>1. Json \subseteq Sidecar BY DEF Json, Sidecar, Variants
<1> QED BY <1>1, SpeechFilesAssumption

LEMMA ClockIs == DefaultLife \in Nat \ {0} /\ MaxClock \in Nat /\ Never \in Nat /\ Never = MaxClock + DefaultLife + 1
BY SpeechFilesAssumption DEF Never

LEMMA StreamsInitInv ==
  ASSUME FilesInit PROVE StreamsInv
<1>1. StreamTypes
  BY ClockIs DEF FilesInit, StreamTypes, Asking, Converting, Fetching
<1>2. ASSUME NEW s \in Streams PROVE StreamIs(s)
  BY DEF FilesInit, StreamIs, StreamSound
<1> QED BY <1>1, <1>2 DEF StreamsInv

(* A step that works on one stream.                                        *)
LEMMA OneStream ==
  ASSUME StreamsInv, NEW s \in Streams, StreamTypes', clock' = clock, deleted \ {s} \subseteq deleted',
         \A z \in Streams \ {s} : /\ files'[z] = files[z] /\ sidecar'[z] = sidecar[z] /\ request'[z] = request[z]
                                  /\ converter'[z] = converter[z] /\ fetch'[z] = fetch[z],
         s \notin deleted' => StreamIs(s)'
  PROVE  StreamsInv'
<1>1. ASSUME NEW z \in Streams \ deleted', z # s PROVE StreamIs(z)'
  <2>1. StreamIs(z) BY <1>1 DEF StreamsInv
  <2>2. files'[z] = files[z] /\ sidecar'[z] = sidecar[z] /\ request'[z] = request[z] BY <1>1
  <2>3. converter'[z] = converter[z] /\ fetch'[z] = fetch[z] BY <1>1
  <2> QED BY <2>1, <2>2, <2>3 DEF StreamIs
<1> QED BY <1>1 DEF StreamsInv

LEMMA FirstSidecarIs ==
  ASSUME StreamTypes, NEW conversion \in {"not_needed", "pending", "completed", "failed"}
  PROVE  /\ First({"raw"}, conversion) \in Json /\ First({"raw"}, conversion).expires > clock
         /\ First({"raw"}, conversion).ready = {"raw"} /\ First({"raw"}, conversion).conversion = conversion
<1>1. clock \in 0 .. MaxClock BY DEF StreamTypes
<1> QED BY <1>1, ClockIs DEF First, Json

LEMMA SpeakKeeps ==
  ASSUME StreamsInv, NEW s \in Streams, Speak(s) PROVE StreamsInv'
<1> DEFINE spoken1 == [at |-> "spoken"]
           running == [at |-> "running"]
<1>1. /\ request[s].at = "idle" /\ converter[s].at = "idle" /\ fetch[s].at = "idle" /\ ~ Expired(s)
      /\ request' = [request EXCEPT ![s] = spoken1]
      /\ clock' = clock /\ fetch' = fetch
  BY DEF Speak
<1>2. StreamTypes BY DEF StreamsInv
<1>3. spoken1 \in Asking /\ spoken1.at = "spoken" /\ running \in Converting /\ running.at = "running"
  BY DEF Asking, Converting
<1> HIDE DEF spoken1, running
<1>4. request' \in [Streams -> Asking] /\ request'[s] = spoken1 /\ \A z \in Streams \ {s} : request'[z] = request[z]
  BY <1>1, <1>2, <1>3 DEF StreamTypes
<1>5. CASE Piper(s) /\ deleted' = deleted \ {s}
  <2>1. PICK waits \in BOOLEAN :
          /\ files' = [files EXCEPT ![s] = files[s] \cup {"raw"}]
          /\ written' = [written EXCEPT ![s] = clock]
          /\ sidecar' = [sidecar EXCEPT ![s] = First({"raw"}, IF waits THEN "not_needed" ELSE "pending")]
          /\ converter' = [converter EXCEPT ![s] = IF waits THEN converter[s] ELSE running]
    BY <1>5 DEF Piper, Store, Save, running
  <2> DEFINE json == First({"raw"}, IF waits THEN "not_needed" ELSE "pending")
             conv == IF waits THEN converter[s] ELSE running
  <2>2. json \in Json /\ json.expires > clock /\ json.ready = {"raw"} /\ json # Nothing
    BY <1>2, FirstSidecarIs, JsonIs
  <2>3. conv \in Converting /\ conv.at \in {"idle", "running"}
    BY <1>1, <1>2, <1>3 DEF StreamTypes
  <2>4. /\ sidecar' = [sidecar EXCEPT ![s] = json] /\ converter' = [converter EXCEPT ![s] = conv]
    BY <2>1
  <2> HIDE DEF json, conv
  <2>5. /\ files' \in [Streams -> SUBSET Variants] /\ files'[s] = files[s] \cup {"raw"}
        /\ \A z \in Streams \ {s} : files'[z] = files[z]
    BY <1>2, <2>1 DEF StreamTypes, Variants
  <2>6. /\ sidecar' \in [Streams -> Json \cup {Nothing}] /\ sidecar'[s] = json
        /\ \A z \in Streams \ {s} : sidecar'[z] = sidecar[z]
    BY <1>2, <2>2, <2>4 DEF StreamTypes
  <2>7. /\ converter' \in [Streams -> Converting] /\ converter'[s] = conv
        /\ \A z \in Streams \ {s} : converter'[z] = converter[z]
    BY <1>2, <2>3, <2>4 DEF StreamTypes
  <2>8. written' \in [Streams -> 0 .. MaxClock] /\ deleted' \subseteq Streams
    BY <1>2, <1>5, <2>1 DEF StreamTypes
  <2>9. StreamTypes'
    BY <1>1, <1>2, <1>4, <2>5, <2>6, <2>7, <2>8 DEF StreamTypes
  <2>10. StreamIs(s)'
    BY <1>1, <1>3, <1>4, <2>2, <2>3, <2>5, <2>6, <2>7 DEF StreamIs, StreamSound, Lists
  <2> QED BY <1>1, <1>4, <1>5, <2>5, <2>6, <2>7, <2>9, <2>10, OneStream
<1>6. CASE OpenAi(s) /\ deleted' = deleted \ {s}
  <2> DEFINE json == First({"raw"}, "not_needed")
  <2>1. /\ files' = [files EXCEPT ![s] = files[s] \cup {"raw"}] /\ written' = [written EXCEPT ![s] = clock]
        /\ sidecar' = [sidecar EXCEPT ![s] = json] /\ converter' = converter
    BY <1>6 DEF OpenAi, Store, Save
  <2>2. json \in Json /\ json.expires > clock /\ json.ready = {"raw"} /\ json # Nothing
    BY <1>2, FirstSidecarIs, JsonIs
  <2> HIDE DEF json
  <2>5. /\ files' \in [Streams -> SUBSET Variants] /\ files'[s] = files[s] \cup {"raw"}
        /\ \A z \in Streams \ {s} : files'[z] = files[z]
    BY <1>2, <2>1 DEF StreamTypes, Variants
  <2>6. /\ sidecar' \in [Streams -> Json \cup {Nothing}] /\ sidecar'[s] = json
        /\ \A z \in Streams \ {s} : sidecar'[z] = sidecar[z]
    BY <1>2, <2>1, <2>2 DEF StreamTypes
  <2>8. written' \in [Streams -> 0 .. MaxClock] /\ deleted' \subseteq Streams
    BY <1>2, <1>6, <2>1 DEF StreamTypes
  <2>9. StreamTypes'
    BY <1>1, <1>2, <1>4, <2>1, <2>5, <2>6, <2>8 DEF StreamTypes
  <2>10. StreamIs(s)'
    BY <1>1, <1>3, <1>4, <2>1, <2>2, <2>5, <2>6 DEF StreamIs, StreamSound, Lists
  <2> QED BY <1>1, <1>4, <1>6, <2>1, <2>5, <2>6, <2>9, <2>10, OneStream
<1>7. CASE Deterministic(s) /\ UNCHANGED deleted
  <2> DEFINE new == IF files[s] = {} THEN {"plain"} ELSE {}
  <2>1. /\ files' = [files EXCEPT ![s] = files[s] \cup new]
        /\ written' = [written EXCEPT ![s] = IF new = {} THEN written[s] ELSE clock]
        /\ sidecar' = sidecar /\ converter' = converter
    BY <1>7 DEF Deterministic, Store
  <2>2. new \subseteq Variants BY DEF Variants
  <2> HIDE DEF new
  <2>5. /\ files' \in [Streams -> SUBSET Variants] /\ files'[s] = files[s] \cup new
        /\ \A z \in Streams \ {s} : files'[z] = files[z]
    BY <1>2, <2>1, <2>2 DEF StreamTypes
  <2>8. written' \in [Streams -> 0 .. MaxClock] /\ deleted' = deleted
    BY <1>2, <1>7, <2>1 DEF StreamTypes
  <2>9. StreamTypes'
    BY <1>1, <1>2, <1>4, <2>1, <2>5, <2>8 DEF StreamTypes
  <2>10. ASSUME s \notin deleted PROVE StreamIs(s)'
    <3>1. StreamIs(s) BY <2>10 DEF StreamsInv
    <3>2. sidecar[s] # Nothing => sidecar[s].expires > clock
      <4>1. sidecar[s] \in Json \cup {Nothing} /\ clock \in Nat BY <1>2 DEF StreamTypes
      <4> QED BY <1>1, <4>1, ClockIs DEF Expired, Json
    <3>3. sidecar[s] # Nothing => Lists(sidecar[s], files[s])
      BY <3>1, <3>2 DEF StreamIs, StreamSound
    <3> QED BY <1>1, <1>3, <1>4, <2>1, <2>5, <3>2, <3>3 DEF StreamIs, StreamSound, Lists
  <2> QED BY <1>1, <1>4, <2>1, <2>5, <2>8, <2>9, <2>10, OneStream
<1> QED BY <1>5, <1>6, <1>7 DEF Speak, SynthesizeReply
\* What is on the disk and in the hands of those at work on a stream.
LEMMA ReadsForMergeKeeps ==
  ASSUME StreamsInv, NEW s \in Streams, ReadsForMerge(s) PROVE StreamsInv'
<1> DEFINE req == [at |-> "merging", saw |-> sidecar[s]]
<1>1. /\ request[s].at = "spoken" /\ request' = [request EXCEPT ![s] = req]
      /\ clock' = clock /\ files' = files /\ written' = written /\ sidecar' = sidecar
      /\ converter' = converter /\ fetch' = fetch /\ deleted' = deleted
  BY DEF ReadsForMerge
<1>2. StreamTypes BY DEF StreamsInv
<1>3. req \in Asking /\ req.at = "merging" /\ req.saw = sidecar[s]
  BY <1>2 DEF StreamTypes, Asking
<1> HIDE DEF req
<1>4. request' \in [Streams -> Asking] /\ request'[s] = req /\ \A z \in Streams \ {s} : request'[z] = request[z]
  BY <1>1, <1>2, <1>3 DEF StreamTypes
<1>5. StreamTypes'
  BY <1>1, <1>2, <1>4 DEF StreamTypes
<1>6. ASSUME s \notin deleted PROVE StreamIs(s)'
  <2>1. StreamIs(s) BY <1>6 DEF StreamsInv
  <2> QED BY <1>1, <1>3, <1>4, <2>1 DEF StreamIs, StreamSound, StillGood
<1> QED BY <1>1, <1>4, <1>5, <1>6, OneStream

LEMMA AnswerKeeps ==
  ASSUME StreamsInv, NEW s \in Streams, Answer(s) PROVE StreamsInv'
<1>1. PICK ttl \in 1 .. DefaultLife :
        /\ request[s].at = "merging" /\ sidecar' = [sidecar EXCEPT ![s] = Merged(s, ttl)]
        /\ request' = [request EXCEPT ![s] = [at |-> "idle"]]
        /\ clock' = clock /\ files' = files /\ written' = written
        /\ converter' = converter /\ fetch' = fetch /\ deleted' = deleted
  BY DEF Answer, Save
<1> DEFINE json == Merged(s, ttl)
           saw == request[s].saw
           req == [at |-> "idle"]
<1>2. StreamTypes BY DEF StreamsInv
<1>3. saw \in Json \cup {Nothing}
  BY <1>1, <1>2 DEF StreamTypes, Asking
<1>4. clock \in 0 .. MaxClock BY <1>2 DEF StreamTypes
<1>5. /\ json.ready = (IF saw = Nothing THEN {} ELSE saw.ready)
      /\ json.conversion = (IF saw = Nothing THEN "not_needed" ELSE saw.conversion)
      /\ json.expires = (IF s \in Lasting THEN Never ELSE clock + ttl)
      /\ json = [expires |-> json.expires, ready |-> json.ready, conversion |-> json.conversion]
  BY DEF Merged
<1> HIDE DEF saw
<1>6. json.expires \in 0 .. Never /\ json.expires > clock
  BY <1>4, <1>5, ClockIs
<1>7. json.ready \subseteq {"raw", "opt"} /\ json.conversion \in {"not_needed", "pending", "completed", "failed"}
  BY <1>3, <1>5 DEF Json
<1>8. json \in Json
  <2> HIDE DEF json
  <2> QED BY <1>5, <1>6, <1>7 DEF Json
<1>9. json # Nothing BY <1>8, JsonIs
<1> HIDE DEF json
<1>10. /\ sidecar' \in [Streams -> Json \cup {Nothing}] /\ sidecar'[s] = json
       /\ \A z \in Streams \ {s} : sidecar'[z] = sidecar[z]
  BY <1>1, <1>2, <1>8 DEF StreamTypes, json
<1>11. req \in Asking /\ req.at = "idle" BY DEF Asking
<1>12. /\ request' \in [Streams -> Asking] /\ request'[s] = req
       /\ \A z \in Streams \ {s} : request'[z] = request[z]
  BY <1>1, <1>2, <1>11 DEF StreamTypes
<1>13. StreamTypes'
  BY <1>1, <1>2, <1>10, <1>12 DEF StreamTypes
<1>14. ASSUME s \notin deleted PROVE StreamIs(s)'
  <2>1. StreamIs(s) BY <1>14 DEF StreamsInv
  <2>2. saw # Nothing => Lists(saw, files[s])
    BY <1>1, <2>1 DEF StreamIs, StreamSound, StillGood, saw
  <2>3. Lists(json, files[s])
    BY <1>3, <1>5, <2>2 DEF Lists
  <2> QED BY <1>1, <1>6, <1>9, <1>10, <1>11, <1>12, <2>1, <2>3 DEF StreamIs, StreamSound, StillGood
<1> QED BY <1>1, <1>10, <1>12, <1>13, <1>14, OneStream

LEMMA ConvertKeeps ==
  ASSUME StreamsInv, NEW s \in Streams, Convert(s) PROVE StreamsInv'
<1>1. PICK status \in Statuses :
        /\ converter[s].at = "running"
        /\ IF status = "completed"
             THEN /\ files' = [files EXCEPT ![s] = files[s] \cup {"opt"}]
                  /\ written' = [written EXCEPT ![s] = clock]
             ELSE files' = files /\ written' = written
        /\ converter' = [converter EXCEPT ![s] = [at |-> "converted", status |-> status]]
        /\ clock' = clock /\ sidecar' = sidecar /\ request' = request /\ fetch' = fetch /\ deleted' = deleted
  BY DEF Convert, Store, Statuses
<1> DEFINE conv == [at |-> "converted", status |-> status]
<1>2. StreamTypes BY DEF StreamsInv
<1>3. conv \in Converting /\ conv.at = "converted" /\ conv.status = status
  BY DEF Converting
<1>4. converter' = [converter EXCEPT ![s] = conv] BY <1>1
<1> HIDE DEF conv
<1>5. /\ files' \in [Streams -> SUBSET Variants] /\ files[s] \subseteq files'[s]
      /\ status = "completed" => "opt" \in files'[s]
      /\ \A z \in Streams \ {s} : files'[z] = files[z]
  BY <1>1, <1>2 DEF StreamTypes, Variants
<1>6. written' \in [Streams -> 0 .. MaxClock]
  BY <1>1, <1>2 DEF StreamTypes
<1>7. /\ converter' \in [Streams -> Converting] /\ converter'[s] = conv
      /\ \A z \in Streams \ {s} : converter'[z] = converter[z]
  BY <1>2, <1>3, <1>4 DEF StreamTypes
<1>8. StreamTypes'
  BY <1>1, <1>2, <1>5, <1>6, <1>7 DEF StreamTypes
<1>9. ASSUME s \notin deleted PROVE StreamIs(s)'
  <2>1. StreamIs(s) BY <1>9 DEF StreamsInv
  <2> QED BY <1>1, <1>3, <1>5, <1>7, <2>1 DEF StreamIs, StreamSound, StillGood, Lists
<1> QED BY <1>1, <1>5, <1>7, <1>8, <1>9, OneStream

LEMMA ReadsForUpdateKeeps ==
  ASSUME StreamsInv, NEW s \in Streams, ReadsForUpdate(s) PROVE StreamsInv'
<1> DEFINE conv == IF sidecar[s] = Nothing THEN [at |-> "idle"]
                   ELSE [at |-> "updating", status |-> converter[s].status, saw |-> sidecar[s]]
<1>1. /\ converter[s].at = "converted"
      /\ converter' = [converter EXCEPT ![s] = conv]
      /\ clock' = clock /\ files' = files /\ written' = written /\ sidecar' = sidecar
      /\ request' = request /\ fetch' = fetch /\ deleted' = deleted
  BY DEF ReadsForUpdate
<1>2. StreamTypes BY DEF StreamsInv
<1>3. converter[s].status \in Statuses /\ sidecar[s] \in Json \cup {Nothing}
  BY <1>1, <1>2 DEF StreamTypes, Converting
<1>4. /\ conv \in Converting
      /\ IF sidecar[s] = Nothing THEN conv.at = "idle"
         ELSE conv.at = "updating" /\ conv.status = converter[s].status /\ conv.saw = sidecar[s]
  <2>1. CASE sidecar[s] = Nothing BY <2>1 DEF Converting
  <2>2. CASE sidecar[s] # Nothing BY <1>3, <2>2 DEF Converting
  <2> QED BY <2>1, <2>2
<1> HIDE DEF conv
<1>7. /\ converter' \in [Streams -> Converting] /\ converter'[s] = conv
      /\ \A z \in Streams \ {s} : converter'[z] = converter[z]
  BY <1>1, <1>2, <1>4 DEF StreamTypes
<1>8. StreamTypes'
  BY <1>1, <1>2, <1>7 DEF StreamTypes
<1>9. ASSUME s \notin deleted PROVE StreamIs(s)'
  <2>1. StreamIs(s) BY <1>9 DEF StreamsInv
  <2> QED BY <1>1, <1>4, <1>7, <2>1 DEF StreamIs, StreamSound, StillGood
<1> QED BY <1>1, <1>7, <1>8, <1>9, OneStream

LEMMA UpdatesSidecarKeeps ==
  ASSUME StreamsInv, NEW s \in Streams, UpdatesSidecar(s) PROVE StreamsInv'
<1> DEFINE saw == converter[s].saw
           status == converter[s].status
           json == [saw EXCEPT !.ready = saw.ready \cup {"opt"}, !.conversion = status]
           conv == [at |-> "idle"]
<1>1. /\ converter[s].at = "updating" /\ sidecar' = [sidecar EXCEPT ![s] = json]
      /\ converter' = [converter EXCEPT ![s] = conv]
      /\ clock' = clock /\ files' = files /\ written' = written
      /\ request' = request /\ fetch' = fetch /\ deleted' = deleted
  BY DEF UpdatesSidecar, Save
<1>2. StreamTypes BY DEF StreamsInv
<1>3. saw \in Json /\ status \in Statuses
  BY <1>1, <1>2 DEF StreamTypes, Converting
<1>4. conv \in Converting /\ conv.at = "idle" BY DEF Converting
<1> HIDE DEF conv
<1>5. /\ json \in Json /\ json.expires = saw.expires /\ json.ready = saw.ready \cup {"opt"}
      /\ json.conversion = status
  <2> HIDE DEF saw, status
  <2> QED BY <1>3 DEF Json, Statuses
<1>6. json # Nothing BY <1>5, JsonIs
<1> HIDE DEF json
<1>7. /\ converter' \in [Streams -> Converting] /\ converter'[s] = conv
      /\ \A z \in Streams \ {s} : converter'[z] = converter[z]
  BY <1>1, <1>2, <1>4 DEF StreamTypes
<1>8. /\ sidecar' \in [Streams -> Json \cup {Nothing}] /\ sidecar'[s] = json
      /\ \A z \in Streams \ {s} : sidecar'[z] = sidecar[z]
  BY <1>1, <1>2, <1>5 DEF StreamTypes
<1>9. StreamTypes'
  BY <1>1, <1>2, <1>7, <1>8 DEF StreamTypes
<1>10. ASSUME s \notin deleted PROVE StreamIs(s)'
  <2>1. StreamIs(s) BY <1>10 DEF StreamsInv
  <2>2. saw.expires > clock /\ Lists(saw, files[s])
    BY <1>1, <2>1 DEF StreamIs, StreamSound, StillGood
  <2>3. status = "completed" => "opt" \in files[s]
    BY <1>1, <2>1 DEF StreamIs, StreamSound
  <2>4. Lists(json, files[s])
    BY <1>3, <1>5, <2>2, <2>3 DEF Lists, Statuses
  <2> HIDE DEF saw, status
  <2> QED BY <1>1, <1>4, <1>5, <1>6, <1>7, <1>8, <2>1, <2>2, <2>4 DEF StreamIs, StreamSound,
             StillGood
<1> QED BY <1>1, <1>7, <1>8, <1>9, <1>10, OneStream

LEMMA FetchKeeps ==
  ASSUME StreamsInv, NEW s \in Streams, Fetch(s) PROVE StreamsInv'
<1> DEFINE got == [at |-> "reading", saw |-> sidecar[s]]
<1>1. /\ sidecar[s] # Nothing /\ ~ Expired(s) /\ fetch' = [fetch EXCEPT ![s] = got]
      /\ clock' = clock /\ files' = files /\ written' = written /\ sidecar' = sidecar
      /\ request' = request /\ converter' = converter /\ deleted' = deleted
  BY DEF Fetch
<1>2. StreamTypes BY DEF StreamsInv
<1>3. sidecar[s] \in Json /\ sidecar[s].expires > clock
  <2>1. sidecar[s] \in Json /\ clock \in Nat BY <1>1, <1>2 DEF StreamTypes
  <2> QED BY <1>1, <2>1, ClockIs DEF Expired, Json
<1>4. got \in Fetching /\ got.at = "reading" /\ got.saw = sidecar[s]
  BY <1>3 DEF Fetching
<1> HIDE DEF got
<1>5. fetch' \in [Streams -> Fetching] /\ fetch'[s] = got /\ \A z \in Streams \ {s} : fetch'[z] = fetch[z]
  BY <1>1, <1>2, <1>4 DEF StreamTypes
<1>6. StreamTypes'
  BY <1>1, <1>2, <1>5 DEF StreamTypes
<1>7. ASSUME s \notin deleted PROVE StreamIs(s)'
  <2>1. StreamIs(s) BY <1>7 DEF StreamsInv
  <2> QED BY <1>1, <1>3, <1>4, <1>5, <2>1 DEF StreamIs, StreamSound, StillGood
<1> QED BY <1>1, <1>5, <1>6, <1>7, OneStream

LEMMA RecordFetchLatencyKeeps ==
  ASSUME StreamsInv, NEW s \in Streams, RecordFetchLatency(s) PROVE StreamsInv'
<1> DEFINE saw == fetch[s].saw
           got == [at |-> "idle"]
<1>1. /\ fetch[s].at = "reading" /\ fetch' = [fetch EXCEPT ![s] = got]
      /\ sidecar' = (IF sidecar[s] = Nothing THEN sidecar ELSE [sidecar EXCEPT ![s] = saw])
      /\ clock' = clock /\ files' = files /\ written' = written
      /\ request' = request /\ converter' = converter /\ deleted' = deleted
  BY DEF RecordFetchLatency, Save
<1>2. StreamTypes BY DEF StreamsInv
<1>3. saw \in Json
  BY <1>1, <1>2 DEF StreamTypes, Fetching
<1>4. got \in Fetching /\ got.at = "idle" BY DEF Fetching
<1> HIDE DEF got
<1>5. saw # Nothing BY <1>3, JsonIs
<1>6. fetch' \in [Streams -> Fetching] /\ fetch'[s] = got /\ \A z \in Streams \ {s} : fetch'[z] = fetch[z]
  BY <1>1, <1>2, <1>4 DEF StreamTypes
<1>7. /\ sidecar' \in [Streams -> Json \cup {Nothing}]
      /\ sidecar'[s] = IF sidecar[s] = Nothing THEN Nothing ELSE saw
      /\ \A z \in Streams \ {s} : sidecar'[z] = sidecar[z]
  <2> HIDE DEF saw
  <2> QED BY <1>1, <1>2, <1>3 DEF StreamTypes
<1>8. StreamTypes'
  BY <1>1, <1>2, <1>6, <1>7 DEF StreamTypes
<1>9. ASSUME s \notin deleted PROVE StreamIs(s)'
  <2>1. StreamIs(s) BY <1>9 DEF StreamsInv
  <2>2. saw.expires > clock /\ Lists(saw, files[s])
    BY <1>1, <2>1 DEF StreamIs, StreamSound, StillGood
  <2> HIDE DEF saw
  <2> QED BY <1>1, <1>4, <1>5, <1>6, <1>7, <2>1, <2>2 DEF StreamIs, StreamSound, StillGood
<1> QED BY <1>1, <1>6, <1>7, <1>8, <1>9, OneStream

-----------------------------------------------------------------------------
\* What the sweeps delete.
LEMMA ErasedAre ==
  ASSUME StreamTypes, NEW gone \in SUBSET Streams, Erase(gone)
  PROVE  /\ files' \in [Streams -> SUBSET Variants] /\ sidecar' \in [Streams -> Json \cup {Nothing}]
         /\ \A z \in Streams \ gone : files'[z] = files[z] /\ sidecar'[z] = sidecar[z]
         /\ \A z \in gone : sidecar'[z] = Nothing
BY DEF StreamTypes, Erase

LEMMA DeleteArtifactKeeps ==
  ASSUME StreamsInv, NEW s \in Streams, DeleteArtifact(s) PROVE StreamsInv'
<1>1. /\ Erase({s}) /\ deleted' = deleted \cup {s}
      /\ clock' = clock /\ written' = written /\ request' = request /\ converter' = converter /\ fetch' = fetch
  BY DEF DeleteArtifact
<1>2. StreamTypes BY DEF StreamsInv
<1>3. /\ files' \in [Streams -> SUBSET Variants] /\ sidecar' \in [Streams -> Json \cup {Nothing}]
      /\ \A z \in Streams \ {s} : files'[z] = files[z] /\ sidecar'[z] = sidecar[z]
  BY <1>1, <1>2, ErasedAre
<1>4. StreamTypes'
  BY <1>1, <1>2, <1>3 DEF StreamTypes
<1> QED BY <1>1, <1>3, <1>4, OneStream

LEMMA CleanupExpiredKeeps ==
  ASSUME StreamsInv, CleanupExpired PROVE StreamsInv'
<1> DEFINE gone == {s \in Streams : Expired(s)}
<1>1. /\ Erase(gone) /\ deleted' = deleted
      /\ clock' = clock /\ written' = written /\ request' = request /\ converter' = converter /\ fetch' = fetch
  BY DEF CleanupExpired
<1>2. StreamTypes BY DEF StreamsInv
<1>3. \A s \in gone : s \in Streams /\ Expired(s) OBVIOUS
<1>4. gone \in SUBSET Streams OBVIOUS
<1> HIDE DEF gone
<1>5. /\ files' \in [Streams -> SUBSET Variants] /\ sidecar' \in [Streams -> Json \cup {Nothing}]
      /\ \A z \in Streams \ gone : files'[z] = files[z] /\ sidecar'[z] = sidecar[z]
      /\ \A z \in gone : sidecar'[z] = Nothing
  BY <1>1, <1>2, <1>4, ErasedAre
<1>6. StreamTypes'
  BY <1>1, <1>2, <1>5 DEF StreamTypes
<1>7. ASSUME NEW s \in Streams \ deleted PROVE StreamIs(s)'
  <2>1. StreamIs(s) BY DEF StreamsInv
  <2>2. CASE s \in gone
    <3>1. sidecar[s] # Nothing /\ ~ sidecar[s].expires > clock
      <4>1. sidecar[s] \in Json \cup {Nothing} /\ clock \in Nat BY <1>2 DEF StreamTypes
      <4> QED BY <1>3, <2>2, <4>1, ClockIs DEF Expired, Json
    <3>2. request[s].at = "idle" /\ converter[s].at = "idle" /\ fetch[s].at = "idle"
      BY <2>1, <3>1 DEF StreamIs, StreamSound
    <3> QED BY <1>1, <1>5, <2>2, <3>2 DEF StreamIs, StreamSound
  <2>3. CASE s \notin gone
    BY <1>1, <1>5, <2>1, <2>3 DEF StreamIs
  <2> QED BY <2>2, <2>3
<1> QED BY <1>1, <1>6, <1>7 DEF StreamsInv

LEMMA CleanupOrphanedKeeps ==
  ASSUME StreamsInv, CleanupOrphaned PROVE StreamsInv'
<1>1. /\ files' = [s \in Streams |-> IF Orphaned(s) THEN {} ELSE files[s]]
      /\ deleted' = deleted /\ clock' = clock /\ written' = written /\ sidecar' = sidecar
      /\ request' = request /\ converter' = converter /\ fetch' = fetch
  BY DEF CleanupOrphaned
<1>2. StreamTypes BY DEF StreamsInv
<1>3. files' \in [Streams -> SUBSET Variants] /\ \A s \in Streams : sidecar[s] = Nothing \/ files'[s] = files[s]
  BY <1>1, <1>2 DEF StreamTypes, Orphaned
<1>4. StreamTypes'
  BY <1>1, <1>2, <1>3 DEF StreamTypes
<1>5. ASSUME NEW s \in Streams \ deleted PROVE StreamIs(s)'
  <2>1. StreamIs(s) BY DEF StreamsInv
  <2>2. CASE sidecar[s] = Nothing
    BY <1>1, <2>1, <2>2 DEF StreamIs, StreamSound
  <2>3. CASE files'[s] = files[s]
    BY <1>1, <2>1, <2>3 DEF StreamIs
  <2> QED BY <1>3, <2>2, <2>3
<1> QED BY <1>1, <1>4, <1>5 DEF StreamsInv

LEMMA FileStepsKeep ==
  ASSUME StreamsInv, (\E s \in Streams : FileSteps(s)) \/ Housekeeping PROVE StreamsInv'
<1>1. ASSUME NEW s \in Streams, FileSteps(s) PROVE StreamsInv'
  BY <1>1, SpeakKeeps, ReadsForMergeKeeps, AnswerKeeps, ConvertKeeps, ReadsForUpdateKeeps,
     UpdatesSidecarKeeps,
     FetchKeeps, RecordFetchLatencyKeeps, DeleteArtifactKeeps DEF FileSteps
<1>2. CASE Housekeeping
  BY <1>2, CleanupExpiredKeeps, CleanupOrphanedKeeps DEF Housekeeping
<1> QED BY <1>1, <1>2

-----------------------------------------------------------------------------
(* Named assets.  Whom a name was given to is the node of its namespace,   *)
(* unless the request asked for a cached delivery.                         *)
RevisionIs(r) ==
  r.text \in Texts /\ r.take \in Takes /\ r.stage \in Streams /\ r.born \in Nat /\ r.born <= clock

StagedIs(n, m) ==
  /\ m.at \in {"idle", "staged"}
  /\ m.at = "staged" => /\ m.key \in Keys /\ m.text = m.revision.text
                        /\ (m.mode = "cached" \/ Namespace[m.key] = n)

AliasIs(k, a) == a # Nothing => a.text = a.revision.text /\ a.owner \in {Nothing, Namespace[k]}

NamesInv ==
  /\ \A r \in revisions : RevisionIs(r)
  /\ DOMAIN managed = Nodes /\ managed = [n \in Nodes |-> managed[n]]
  /\ \A n \in Nodes : StagedIs(n, managed[n])
  /\ DOMAIN alias = Keys /\ alias = [k \in Keys |-> alias[k]]
  /\ \A k \in Keys : AliasIs(k, alias[k])

AssetsInv == StreamsInv /\ NamesInv

LEMMA AssetsInitInv ==
  ASSUME AssetsInit PROVE AssetsInv
<1>1. StreamsInv BY StreamsInitInv DEF AssetsInit
<1>2. NamesInv
  BY DEF AssetsInit, NamesInv, StagedIs, AliasIs
<1> QED BY <1>1, <1>2 DEF AssetsInv

LEMMA NamesFrame ==
  ASSUME NamesInv, UNCHANGED avars, clock' = clock PROVE NamesInv'
BY DEF NamesInv, avars, RevisionIs, StagedIs, AliasIs

LEMMA StageKeeps ==
  ASSUME AssetsInv, NEW n \in Nodes, NEW k \in Keys, NEW text \in Texts,
         NEW policy \in {"if_changed", "always", "if_missing"}, NEW mode \in Modes, Stage(n, k, text, policy, mode)
  PROVE  AssetsInv'
<1> DEFINE s == StageOf(text, policy)
           json == First({"raw"}, "not_needed")
<1>1. PICK take \in Takes, keep \in BOOLEAN :
        LET known == {r \in revisions : r.text = text /\ r.take = take}
            made == [text |-> text, take |-> take, stage |-> s, born |-> clock]
        IN
        /\ Permitted(k, n, mode) /\ ~ Expired(s) /\ ~ Busy(s)
        /\ Store(s, {"raw", "asset"}) /\ Save(s, json)
        /\ revisions' = revisions \cup (IF known = {} THEN {made} ELSE {})
        /\ managed' = [managed EXCEPT ![n] =
             [at |-> "staged", mode |-> mode, key |-> k, text |-> text, keep |-> keep,
              revision |-> IF known = {} THEN made ELSE CHOOSE r \in known : TRUE]]
        /\ UNCHANGED <<clock, request, converter, fetch, deleted, alias>>
  BY Zenon DEF Stage
<1>2. StreamTypes BY DEF AssetsInv, StreamsInv
<1>3. s \in Streams
  BY AssetsAssumption DEF StageOf, Stages
<1>4. json \in Json /\ json.expires > clock /\ json.ready = {"raw"} /\ json # Nothing
  BY <1>2, FirstSidecarIs, JsonIs
<1>5. /\ files' = [files EXCEPT ![s] = files[s] \cup {"raw", "asset"}] /\ written' = [written EXCEPT ![s] = clock]
      /\ sidecar' = [sidecar EXCEPT ![s] = json]
      /\ clock' = clock /\ request' = request /\ converter' = converter /\ fetch' = fetch
      /\ deleted' = deleted /\ alias' = alias
  BY <1>1 DEF Store, Save
<1>6. request[s].at = "idle" /\ converter[s].at = "idle" /\ fetch[s].at = "idle"
  BY <1>1 DEF Busy
<1> HIDE DEF s, json
<1>7. StreamsInv'
  <2>1. /\ files' \in [Streams -> SUBSET Variants] /\ files'[s] = files[s] \cup {"raw", "asset"}
        /\ \A z \in Streams \ {s} : files'[z] = files[z]
    BY <1>2, <1>3, <1>5 DEF StreamTypes, Variants
  <2>2. /\ sidecar' \in [Streams -> Json \cup {Nothing}] /\ sidecar'[s] = json
        /\ \A z \in Streams \ {s} : sidecar'[z] = sidecar[z]
    BY <1>2, <1>3, <1>4, <1>5 DEF StreamTypes
  <2>3. written' \in [Streams -> 0 .. MaxClock]
    BY <1>2, <1>3, <1>5 DEF StreamTypes
  <2>4. StreamTypes'
    BY <1>2, <1>5, <2>1, <2>2, <2>3 DEF StreamTypes
  <2>5. StreamIs(s)'
    BY <1>4, <1>5, <1>6, <2>1, <2>2 DEF StreamIs, StreamSound, Lists
  <2> QED BY <1>3, <1>5, <2>1, <2>2, <2>4, <2>5, OneStream DEF AssetsInv
<1> DEFINE known == {r \in revisions : r.text = text /\ r.take = take}
           made == [text |-> text, take |-> take, stage |-> s, born |-> clock]
           revision == IF known = {} THEN made ELSE CHOOSE r \in known : TRUE
           m == [at |-> "staged", mode |-> mode, key |-> k, text |-> text, keep |-> keep, revision |-> revision]
<1>8. /\ revisions' = revisions \cup (IF known = {} THEN {made} ELSE {}) /\ managed' = [managed EXCEPT ![n] = m]
  BY <1>1 DEF s
<1>9. revision.text = text
  <2>1. CASE known = {} BY <2>1
  <2>2. CASE known # {}
    <3>1. (CHOOSE r \in known : TRUE) \in known BY <2>2, Zenon
    <3>2. revision \in known BY <2>2, <3>1
    <3> QED BY <3>2
  <2> QED BY <2>1, <2>2
<1>10. RevisionIs(made)
  <2>1. clock \in Nat BY <1>2 DEF StreamTypes
  <2> QED BY <1>3, <2>1 DEF RevisionIs
<1> HIDE DEF revision
<1>11. StagedIs(n, m)
  BY <1>1, <1>9 DEF StagedIs, Permitted, MayName
<1>12. \A r \in revisions' : RevisionIs(r)
  BY <1>8, <1>10 DEF AssetsInv, NamesInv
<1> HIDE DEF m, made, known
<1>13. \A r \in revisions' : RevisionIs(r)'
  BY <1>5, <1>12 DEF RevisionIs
<1>14. /\ DOMAIN managed' = Nodes /\ managed' = [z \in Nodes |-> managed'[z]]
       /\ \A z \in Nodes : managed'[z] = IF z = n THEN m ELSE managed[z]
  BY <1>8 DEF AssetsInv, NamesInv
<1>15. \A z \in Nodes : StagedIs(z, managed'[z])
  BY <1>11, <1>14 DEF AssetsInv, NamesInv
<1>16. NamesInv'
  BY <1>5, <1>13, <1>14, <1>15 DEF AssetsInv, NamesInv
<1> QED BY <1>7, <1>16 DEF AssetsInv

\* What the sweep of the revisions takes is no stream's raw audio.
LEMMA CollectKeeps ==
  ASSUME AssetsInv, NEW names, Collect(names),
         UNCHANGED <<clock, written, sidecar, request, converter, fetch, deleted>>
  PROVE  StreamsInv' /\ \A r \in revisions' : RevisionIs(r)'
<1>1. StreamTypes BY DEF AssetsInv, StreamsInv
<1>2. revisions' \subseteq revisions BY DEF Collect
<1>3. /\ files' \in [Streams -> SUBSET Variants]
      /\ \A s \in Streams : files'[s] = files[s] \/ files'[s] = files[s] \ {"asset"}
  BY <1>1 DEF Collect, StreamTypes
<1>4. StreamTypes'
  BY <1>1, <1>3 DEF StreamTypes
<1>5. ASSUME NEW json \in Json, NEW s \in Streams, Lists(json, files[s]) PROVE Lists(json, files'[s])
  BY <1>3, <1>5 DEF Lists, Json
<1>6. ASSUME NEW s \in Streams \ deleted PROVE StreamIs(s)'
  <2>1. StreamIs(s) BY DEF AssetsInv, StreamsInv
  <2>2. sidecar[s] # Nothing => sidecar[s] \in Json
    BY <1>1 DEF StreamTypes
  <2>3. request[s].at = "merging" /\ request[s].saw # Nothing => request[s].saw \in Json
    BY <1>1 DEF StreamTypes, Asking
  <2>4. converter[s].at = "updating" => converter[s].saw \in Json
    BY <1>1 DEF StreamTypes, Converting
  <2>5. fetch[s].at = "reading" => fetch[s].saw \in Json
    BY <1>1 DEF StreamTypes, Fetching
  <2>6. "opt" \in files[s] => "opt" \in files'[s]
    BY <1>3
  <2>7. /\ clock' = clock /\ sidecar' = sidecar /\ request' = request /\ converter' = converter /\ fetch' = fetch
    OBVIOUS
  <2>8. sidecar[s] # Nothing /\ sidecar[s].expires > clock => Lists(sidecar[s], files'[s])
    BY <1>5, <2>1, <2>2 DEF StreamIs, StreamSound
  <2>9. request[s].at = "merging" /\ request[s].saw # Nothing => StillGood(request[s].saw, clock, files'[s])
    BY <1>5, <2>1, <2>3 DEF StreamIs, StreamSound, StillGood
  <2>10. converter[s].at = "updating" => StillGood(converter[s].saw, clock, files'[s])
    BY <1>5, <2>1, <2>4 DEF StreamIs, StreamSound, StillGood
  <2>11. fetch[s].at = "reading" => StillGood(fetch[s].saw, clock, files'[s])
    BY <1>5, <2>1, <2>5 DEF StreamIs, StreamSound, StillGood
  <2>12. StreamSound(clock, files'[s], sidecar[s], request[s], converter[s], fetch[s])
    BY <2>1, <2>6, <2>8, <2>9, <2>10, <2>11 DEF StreamIs, StreamSound
  <2> QED BY <2>7, <2>12 DEF StreamIs
<1>7. \A r \in revisions' : RevisionIs(r)'
  BY <1>2 DEF AssetsInv, NamesInv, RevisionIs
<1> QED BY <1>4, <1>6, <1>7 DEF StreamsInv

LEMMA NameAssetKeeps ==
  ASSUME AssetsInv, NEW n \in Nodes, NameAsset(n) PROVE AssetsInv'
<1> DEFINE m == managed[n]
           a == [owner |-> IF m.mode = "cached" THEN Nothing ELSE n, text |-> m.text, revision |-> m.revision,
                 expires |-> IF m.keep THEN Never ELSE clock + 1]
           names == [alias EXCEPT ![m.key] = a]
           idle == [at |-> "idle"]
<1>1. /\ m.at = "staged" /\ managed' = [managed EXCEPT ![n] = idle]
      /\ \/ alias' = names /\ Collect(names)
         \/ UNCHANGED <<alias, revisions, files>>
      /\ UNCHANGED <<clock, written, sidecar, request, converter, fetch, deleted>>
  BY DEF NameAsset
<1>2. StagedIs(n, m) BY DEF AssetsInv, NamesInv
<1>3. AliasIs(m.key, a) /\ m.key \in Keys
  BY <1>1, <1>2 DEF StagedIs, AliasIs
<1>4. /\ DOMAIN managed' = Nodes /\ managed' = [z \in Nodes |-> managed'[z]]
      /\ \A z \in Nodes : managed'[z] = IF z = n THEN idle ELSE managed[z]
  BY <1>1 DEF AssetsInv, NamesInv
<1>5. \A z \in Nodes : StagedIs(z, managed'[z])
  BY <1>4 DEF AssetsInv, NamesInv, StagedIs
<1>6. CASE alias' = names /\ Collect(names)
  <2> HIDE DEF a
  <2>1. StreamsInv' /\ \A r \in revisions' : RevisionIs(r)'
    BY <1>1, <1>6, CollectKeeps
  <2> HIDE DEF m
  <2>2. /\ DOMAIN alias' = Keys /\ alias' = [z \in Keys |-> alias'[z]]
        /\ \A z \in Keys : alias'[z] = IF z = m.key THEN a ELSE alias[z]
    BY <1>3, <1>6 DEF AssetsInv, NamesInv
  <2>3. \A z \in Keys : AliasIs(z, alias'[z])
    BY <1>3, <2>2 DEF AssetsInv, NamesInv
  <2> QED BY <1>4, <1>5, <2>1, <2>2, <2>3 DEF AssetsInv, NamesInv
<1>7. CASE UNCHANGED <<alias, revisions, files>>
  <2>1. StreamsInv'
    BY <1>1, <1>7 DEF AssetsInv, StreamsInv, StreamTypes, StreamIs
  <2>2. \A r \in revisions' : RevisionIs(r)'
    BY <1>1, <1>7 DEF AssetsInv, NamesInv, RevisionIs
  <2> QED BY <1>4, <1>5, <1>7, <2>1, <2>2 DEF AssetsInv, NamesInv
<1> QED BY <1>1, <1>6, <1>7

LEMMA DeleteAssetKeeps ==
  ASSUME AssetsInv, NEW n \in Nodes, NEW k \in Keys, DeleteAsset(n, k) PROVE AssetsInv'
<1>1. /\ alias' = [alias EXCEPT ![k] = Nothing] /\ Collect(alias') /\ managed' = managed
      /\ UNCHANGED <<clock, written, sidecar, request, converter, fetch, deleted>>
  BY DEF DeleteAsset
<1>2. StreamsInv' /\ \A r \in revisions' : RevisionIs(r)'
  BY <1>1, CollectKeeps
<1>3. /\ DOMAIN alias' = Keys /\ alias' = [z \in Keys |-> alias'[z]]
      /\ \A z \in Keys : alias'[z] = IF z = k THEN Nothing ELSE alias[z]
  BY <1>1 DEF AssetsInv, NamesInv
<1>4. \A z \in Keys : AliasIs(z, alias'[z])
  BY <1>3 DEF AssetsInv, NamesInv, AliasIs
<1> QED BY <1>1, <1>2, <1>3, <1>4 DEF AssetsInv, NamesInv

LEMMA TickKeeps ==
  ASSUME AssetsInv, Tick PROVE AssetsInv'
<1>1. /\ clock < MaxClock /\ \A s \in Streams : ~ Busy(s)
      /\ clock' = clock + 1
      /\ UNCHANGED <<files, written, sidecar, request, converter, fetch, deleted, avars>>
  BY DEF Tick
<1>2. StreamTypes BY DEF AssetsInv, StreamsInv
<1>3. clock \in Nat /\ clock' \in 0 .. MaxClock
  BY <1>1, <1>2, ClockIs DEF StreamTypes
<1>4. StreamTypes'
  BY <1>1, <1>2, <1>3 DEF StreamTypes
<1>5. ASSUME NEW s \in Streams \ deleted PROVE StreamIs(s)'
  <2>1. StreamIs(s) BY DEF AssetsInv, StreamsInv
  <2>2. request[s].at = "idle" /\ converter[s].at = "idle" /\ fetch[s].at = "idle"
    BY <1>1 DEF Busy
  <2>3. sidecar[s] # Nothing /\ sidecar[s].expires > clock + 1 => Lists(sidecar[s], files[s])
    <3>1. sidecar[s] # Nothing => sidecar[s].expires \in Nat
      BY <1>2, ClockIs DEF StreamTypes, Json
    <3> QED BY <1>3, <2>1, <3>1 DEF StreamIs, StreamSound
  <2> QED BY <1>1, <2>2, <2>3 DEF StreamIs, StreamSound
<1>6. \A r \in revisions' : RevisionIs(r)'
  <2>1. ASSUME NEW r \in revisions
        PROVE  r.text \in Texts /\ r.take \in Takes /\ r.stage \in Streams /\ r.born \in Nat /\ r.born <= clock
    BY DEF AssetsInv, NamesInv, RevisionIs
  <2> QED BY <1>1, <1>3, <2>1 DEF avars, RevisionIs
<1>7. NamesInv'
  BY <1>1, <1>6 DEF AssetsInv, NamesInv, avars
<1> QED BY <1>1, <1>4, <1>5, <1>7 DEF AssetsInv, StreamsInv
LEMMA AssetsStep ==
  ASSUME AssetsInv, SpeechNext PROVE AssetsInv'
<1>1. CASE ((\E s \in Streams : FileSteps(s)) \/ Housekeeping) /\ UNCHANGED avars
  <2>1. StreamsInv' BY <1>1, FileStepsKeep DEF AssetsInv
  <2>2. clock' = clock
    BY <1>1 DEF FileSteps, Housekeeping, CleanupExpired, CleanupOrphaned, Speak, ReadsForMerge,
       Answer, Convert,
                ReadsForUpdate, UpdatesSidecar, Fetch, RecordFetchLatency, DeleteArtifact
  <2> QED BY <1>1, <2>1, <2>2, NamesFrame DEF AssetsInv
<1>2. ASSUME NEW n \in Nodes, NEW k \in Keys, AssetSteps(n, k) PROVE AssetsInv'
  <2>1. CASE \E text \in Texts, policy \in {"if_changed", "always", "if_missing"}, mode \in Modes :
               Stage(n, k, text, policy, mode)
    BY <2>1, StageKeeps
  <2>2. CASE NameAsset(n)
    BY <2>2, NameAssetKeeps
  <2>3. CASE DeleteAsset(n, k)
    BY <2>3, DeleteAssetKeeps
  <2> QED BY <1>2, <2>1, <2>2, <2>3 DEF AssetSteps
<1>3. CASE Tick
  BY <1>3, TickKeeps
<1> QED BY <1>1, <1>2, <1>3 DEF SpeechNext

LEMMA AssetsFrame ==
  ASSUME AssetsInv, UNCHANGED everything PROVE AssetsInv'
<1>1. StreamsInv'
  BY DEF AssetsInv, StreamsInv, StreamTypes, StreamIs, everything, fvars
<1> QED BY <1>1, NamesFrame DEF AssetsInv, everything, fvars

LEMMA AssetsShow ==
  ASSUME AssetsInv PROVE AssetsTypeOK /\ ReadyIsOnDisk /\ NamesBelongToTheirNode
<1>1. StreamTypes BY DEF AssetsInv, StreamsInv
<1>2. FilesTypeOK
  BY <1>1, JsonIs DEF StreamTypes, FilesTypeOK
<1>3. AssetsTypeOK
  BY <1>2 DEF AssetsInv, NamesInv, RevisionIs, AliasIs, AssetsTypeOK
<1>4. ReadyIsOnDisk
  <2> SUFFICES ASSUME NEW s \in Streams \ deleted, sidecar[s] # Nothing, ~ Expired(s),
                      sidecar[s].conversion # "failed"
               PROVE  sidecar[s].ready \subseteq files[s]
    BY DEF ReadyIsOnDisk
  <2>1. sidecar[s] \in Json /\ clock \in Nat BY <1>1 DEF StreamTypes
  <2>2. sidecar[s].expires > clock BY <2>1, ClockIs DEF Expired, Json
  <2>3. StreamIs(s) BY DEF AssetsInv, StreamsInv
  <2> QED BY <2>2, <2>3 DEF StreamIs, StreamSound, Lists
<1>5. NamesBelongToTheirNode
  BY DEF AssetsInv, NamesInv, AliasIs, NamesBelongToTheirNode
<1> QED BY <1>3, <1>4, <1>5

(* tts/service.py, tts/streaming.py: what a sidecar that has not expired   *)
(* lists as ready is on the disk, unless its conversion failed or an       *)
(* operator deleted it, and a name is its own node's, whatever order the   *)
(* threads, the merges, the fetches and the sweeps come in.                *)
THEOREM ReadyFilesStay ==
  SpeechFilesSpec => [](AssetsTypeOK /\ ReadyIsOnDisk /\ NamesBelongToTheirNode)
<1>1. AssetsInit => AssetsInv
  BY AssetsInitInv
<1>2. AssetsInv /\ [SpeechNext]_everything => AssetsInv'
  BY AssetsStep, AssetsFrame
<1>3. AssetsInv => AssetsTypeOK /\ ReadyIsOnDisk /\ NamesBelongToTheirNode
  BY AssetsShow
<1> QED BY <1>1, <1>2, <1>3, PTL DEF SpeechFilesSpec

-----------------------------------------------------------------------------
(* Setup.  A token, and an activation that is not redacted, is that of a   *)
(* session Core consumed; a session once consumed stays so, and a file     *)
(* that is sound stays sound while sessions are added and decided.         *)
CoreSession ==
  [core : Cores, nonce : Nat, kind : {"onboarding", "reauth"}, status : Terminal \cup {"pending", "approved"}]

ConsumedIn(t, ss) == t \in DOMAIN ss /\ ss[t].status = "consumed"

FileSound(file, ss) ==
  /\ file \in NodeFile
  /\ file.session # 0 => file.session \in DOMAIN ss
  /\ file.token # 0 => ConsumedIn(file.token, ss)
  /\ file.activation \notin {0, Redacted} => ConsumedIn(file.activation, ss)

Grown(ss, st) ==
  /\ DOMAIN ss \subseteq DOMAIN st
  /\ \A t \in DOMAIN ss : ss[t].status = "consumed" => st[t].status = "consumed"

SetupFiles ==
  /\ sessions \in Seq(CoreSession) /\ Len(sessions) <= MaxSessions
  /\ registry \in [Cores -> [token : 0 .. MaxSessions, ready : BOOLEAN]]
  /\ restored \in BOOLEAN
  /\ FileSound(node, sessions)
  /\ bundle # NoBundle => FileSound(bundle, sessions)

(* What a node that was not restored knows of its trust.                   *)
Issued(file) ==
  /\ file.activation # Redacted
  /\ file.trust = "trusted" => file.id /\ file.token # 0

IssuedInv == ~ restored => Issued(node)

(* Its step follows its trust; and where there is one Core only, a token   *)
(* that lost its trust is not registered any more, so that the governance  *)
(* cannot be polled for with it.                                            *)
StepSound(file) ==
  file.step \in PostTrust =>
    /\ file.id /\ file.token # 0
    /\ OneCore \/ file.step \in {"provider_setup", "capability_declaration"} => file.trust = "trusted"
    /\ file.step = "ready" => file.operational /\ file.capability # "missing"

Disowned(file, reg) ==
  OneCore /\ file.trust # "trusted" /\ file.token # 0 => \A c \in Cores : reg[c].token # file.token

StepsInv == ~ restored => StepSound(node) /\ Disowned(node, registry)

LEMMA SessionBounds ==
  ASSUME SetupFiles
  PROVE  /\ MaxSessions \in Nat /\ Len(sessions) \in 0 .. MaxSessions
         /\ DOMAIN sessions = 1 .. Len(sessions)
         /\ \A s \in DOMAIN sessions : sessions[s] \in CoreSession
BY OnboardingAssumption DEF SetupFiles

\* A sound file stays sound.
LEMMA StaysSound ==
  ASSUME NEW file, NEW ss, NEW st, FileSound(file, ss), Grown(ss, st)
  PROVE  FileSound(file, st)
BY DEF FileSound, Grown, ConsumedIn

LEMMA GrownByNothing == ASSUME NEW ss PROVE Grown(ss, ss)
BY DEF Grown

\* Opening a session.
LEMMA OpeningGrows ==
  ASSUME SetupFiles, NEW r, r \in CoreSession, Len(sessions) < MaxSessions
  PROVE  /\ Append(sessions, r) \in Seq(CoreSession) /\ Len(Append(sessions, r)) <= MaxSessions
         /\ Len(sessions) + 1 \in DOMAIN Append(sessions, r)
         /\ Grown(sessions, Append(sessions, r))
<1>1. sessions \in Seq(CoreSession) BY DEF SetupFiles
<1>2. /\ Len(Append(sessions, r)) = Len(sessions) + 1 /\ Append(sessions, r) \in Seq(CoreSession)
      /\ \A t \in 1 .. Len(sessions) : Append(sessions, r)[t] = sessions[t]
  BY <1>1
<1>3. DOMAIN sessions = 1 .. Len(sessions) /\ DOMAIN Append(sessions, r) = 1 .. Len(sessions) + 1 /\ Len(sessions) \in Nat
  BY <1>1, <1>2
<1> QED BY <1>1, <1>2, <1>3, SessionBounds DEF Grown

\* Deciding a session that is not consumed.
LEMMA DecidingGrows ==
  ASSUME SetupFiles, NEW s \in Sessions, sessions[s].status # "consumed",
         NEW status, status \in {"approved", "rejected", "consumed"}
  PROVE  LET st == [sessions EXCEPT ![s].status = status] IN
         /\ st \in Seq(CoreSession) /\ Len(st) = Len(sessions) /\ DOMAIN st = DOMAIN sessions
         /\ Grown(sessions, st) /\ st[s].status = status
<1> DEFINE st == [sessions EXCEPT ![s].status = status]
<1>1. sessions \in Seq(CoreSession) /\ s \in 1 .. Len(sessions) /\ sessions[s] \in CoreSession
  BY SessionBounds DEF SetupFiles, Sessions
<1>2. [sessions[s] EXCEPT !.status = status] \in CoreSession
  BY <1>1 DEF CoreSession, Terminal
<1>3. st \in Seq(CoreSession) /\ Len(st) = Len(sessions) /\ DOMAIN st = DOMAIN sessions
  BY <1>1, <1>2, ExceptSeq
<1>4. st[s].status = status /\ \A t \in DOMAIN sessions \ {s} : st[t] = sessions[t]
  BY <1>1, <1>2 DEF Sessions, CoreSession
<1>5. Grown(sessions, st)
  BY <1>3, <1>4 DEF Grown
<1> QED BY <1>3, <1>4, <1>5

-----------------------------------------------------------------------------
\* What every step of the setup keeps; and what a file must be to be result.
SetupKept ==
  /\ SetupFiles' /\ Grown(sessions, sessions')
  /\ IssuedInv => IssuedInv'
  /\ IssuedInv /\ StepsInv => StepsInv'

MayBeSaved(file) ==
  /\ FileSound(file, sessions)
  /\ IssuedInv /\ ~ restored => Issued(file)
  /\ IssuedInv /\ StepsInv /\ ~ restored => StepSound(file) /\ Disowned(file, registry)

LEMMA SavingKeeps ==
  ASSUME SetupFiles, NEW file, MayBeSaved(file), SaveNode(file)
  PROVE  SetupKept
<1>1. node' = file /\ sessions' = sessions /\ registry' = registry /\ bundle' = bundle /\ restored' = restored
  BY DEF SaveNode
<1>2. SetupFiles'
  BY <1>1 DEF SetupFiles, MayBeSaved
<1>3. IssuedInv => IssuedInv'
  BY <1>1 DEF IssuedInv, MayBeSaved
<1>4. IssuedInv /\ StepsInv => StepsInv'
  BY <1>1 DEF StepsInv, MayBeSaved
<1> QED BY <1>1, <1>2, <1>3, <1>4, GrownByNothing DEF SetupKept

\* The file as it is.
LEMMA NodeIs ==
  ASSUME SetupFiles
  PROVE  /\ node \in NodeFile /\ FileSound(node, sessions)
         /\ IssuedInv /\ ~ restored => Issued(node)
         /\ IssuedInv /\ StepsInv /\ ~ restored => StepSound(node) /\ Disowned(node, registry)
BY DEF SetupFiles, FileSound, IssuedInv, StepsInv

\* Before trust: the step is computed, or one of those before trust.
LEMMA ResumeIs ==
  ASSUME NEW file, file \in NodeFile
  PROVE  \/ file.trust = "trusted" /\ Resume(file) = file.step
         \/ Resume(file) \in PreTrust
BY DEF Resume, PreTrust

\* A file with the trust, and what trust is told by, of the node's: its
\* session is one of Core's, and its step is the node's or before trust.
LEMMA UntrustedPart ==
  ASSUME SetupFiles, NEW file, file \in NodeFile,
         file.trust = node.trust, file.id = node.id, file.token = node.token,
         file.activation \in {0, node.activation}, file.session \in {0, node.session},
         \/ file.step \in PreTrust
         \/ /\ file.step = node.step /\ file.capability = node.capability
            /\ file.operational = node.operational
  PROVE  MayBeSaved(file)
<1> USE NodeIs
<1>1. FileSound(file, sessions)
  BY DEF FileSound
<1>2. Issued(node) => Issued(file)
  BY OnboardingAssumption DEF Issued, Redacted
<1>3. StepSound(node) => StepSound(file)
  <2>1. file.step \in PreTrust => file.step \notin PostTrust
    BY DEF PreTrust, PostTrust
  <2> QED BY <2>1 DEF StepSound
<1>4. Disowned(node, registry) => Disowned(file, registry)
  BY DEF Disowned
<1> QED BY <1>1, <1>2, <1>3, <1>4 DEF MayBeSaved

LEMMA IdentityKeeps ==
  ASSUME SetupFiles, SaveIdentity PROVE SetupKept
<1>1. PICK nonce \in Nonces :
        LET file == [node EXCEPT !.nonce = nonce] IN SaveNode([file EXCEPT !.step = Resume(file)])
  BY DEF SaveIdentity
<1> DEFINE file == [node EXCEPT !.nonce = nonce]
           result == [file EXCEPT !.step = Resume(file)]
<1>2. node \in NodeFile BY NodeIs
<1>3. file \in NodeFile /\ file = [node EXCEPT !.nonce = nonce]
  BY <1>2, OnboardingAssumption DEF NodeFile, Nonces
<1> HIDE DEF file
<1>4. Resume(file) \in PreTrust \/ (Resume(file) = file.step)
  BY <1>3, ResumeIs
<1>5. Resume(file) \in PreTrust \cup PostTrust
  BY <1>3, <1>4 DEF NodeFile
<1>6. result \in NodeFile
  BY <1>3, <1>5 DEF NodeFile
<1>7. MayBeSaved(result)
  <2>1. /\ result.trust = node.trust /\ result.id = node.id /\ result.token = node.token
        /\ result.activation = node.activation /\ result.session = node.session
        /\ result.step = Resume(file) /\ file.step = node.step
        /\ result.capability = node.capability /\ result.operational = node.operational
    BY <1>2, <1>3 DEF NodeFile
  <2> HIDE DEF result
  <2> QED BY <1>4, <1>6, <2>1, UntrustedPart
<1> QED BY <1>1, <1>7, SavingKeeps DEF file

LEMMA ConnectionKeeps ==
  ASSUME SetupFiles, SaveCoreConnection PROVE SetupKept
<1>1. PICK c \in Cores :
        LET file == [node EXCEPT !.core = c, !.connected = FALSE, !.advert = FALSE,
                      !.session = 0, !.closed = FALSE, !.activation = 0]
        IN SaveNode([file EXCEPT !.step = Resume(file)])
  BY DEF SaveCoreConnection
<1> DEFINE file == [node EXCEPT !.core = c, !.connected = FALSE, !.advert = FALSE,
                      !.session = 0, !.closed = FALSE, !.activation = 0]
           result == [file EXCEPT !.step = Resume(file)]
<1>2. node \in NodeFile BY NodeIs
<1>3. file \in NodeFile
  <2>1. 0 \in 0 .. Redacted /\ 0 \in 0 .. MaxSessions
    BY OnboardingAssumption DEF Redacted
  <2> QED BY <1>2, <2>1 DEF NodeFile
<1>b. /\ file.trust = node.trust /\ file.id = node.id /\ file.token = node.token
      /\ file.activation = 0 /\ file.session = 0 /\ file.step = node.step
      /\ file.capability = node.capability /\ file.operational = node.operational
  BY <1>2 DEF NodeFile
<1>a. SaveNode(result)
  BY <1>1
<1> HIDE DEF file
<1>4. Resume(file) \in PreTrust \/ (Resume(file) = file.step)
  BY <1>3, ResumeIs
<1>5. Resume(file) \in PreTrust \cup PostTrust
  BY <1>3, <1>4 DEF NodeFile
<1>6. result \in NodeFile
  BY <1>3, <1>5 DEF NodeFile
<1>7. MayBeSaved(result)
  <2>1. /\ result.trust = node.trust /\ result.id = node.id /\ result.token = node.token
        /\ result.activation = 0 /\ result.session = 0
        /\ result.step = Resume(file)
        /\ result.capability = node.capability /\ result.operational = node.operational
    BY <1>3, <1>b DEF NodeFile
  <2> HIDE DEF result
  <2> QED BY <1>3, <1>b, <1>4, <1>6, <2>1, UntrustedPart
<1> QED BY <1>a, <1>7, SavingKeeps

LEMMA TestKeeps ==
  ASSUME SetupFiles, TestConnection PROVE SetupKept
<1>1. PICK reached \in {FALSE, node.core # NoCore} :
        SaveNode([node EXCEPT !.connected = reached,
                    !.step = IF reached THEN "bootstrap_discovery"
                             ELSE IF node.core # NoCore THEN "core_connection" ELSE @])
  BY DEF TestConnection
<1> DEFINE step == IF reached THEN "bootstrap_discovery"
                   ELSE IF node.core # NoCore THEN "core_connection" ELSE node.step
           result == [node EXCEPT !.connected = reached, !.step = step]
<1>2. node \in NodeFile BY NodeIs
<1>3. step = node.step \/ step \in PreTrust
  BY DEF PreTrust
<1>4. SaveNode(result)
  BY <1>1, <1>2, Zenon
<1> HIDE DEF step
<1>5. MayBeSaved(result)
  <2>1. step \in PreTrust \cup PostTrust /\ reached \in BOOLEAN
    BY <1>2, <1>3 DEF NodeFile
  <2>2. result \in NodeFile
    BY <1>2, <2>1 DEF NodeFile
  <2>3. /\ result.trust = node.trust /\ result.id = node.id /\ result.token = node.token
        /\ result.activation = node.activation /\ result.session = node.session
        /\ result.step = step /\ result.capability = node.capability /\ result.operational = node.operational
    BY <1>2 DEF NodeFile
  <2> HIDE DEF result
  <2> QED BY <1>3, <2>2, <2>3, UntrustedPart
<1> QED BY <1>4, <1>5, SavingKeeps

LEMMA AdvertisementKeeps ==
  ASSUME SetupFiles, ValidateAdvertisement PROVE SetupKept
<1>1. PICK valid \in BOOLEAN :
        SaveNode([node EXCEPT !.advert = valid, !.step = IF valid THEN "registration" ELSE @])
  BY DEF ValidateAdvertisement
<1> DEFINE step == IF valid THEN "registration" ELSE node.step
           result == [node EXCEPT !.advert = valid, !.step = step]
<1>2. node \in NodeFile BY NodeIs
<1>3. step = node.step \/ step \in PreTrust
  BY DEF PreTrust
<1>4. SaveNode(result)
  BY <1>1, <1>2, Zenon
<1> HIDE DEF step
<1>5. MayBeSaved(result)
  <2>1. step \in PreTrust \cup PostTrust
    BY <1>2, <1>3 DEF NodeFile
  <2>2. result \in NodeFile
    BY <1>2, <2>1 DEF NodeFile
  <2>3. /\ result.trust = node.trust /\ result.id = node.id /\ result.token = node.token
        /\ result.activation = node.activation /\ result.session = node.session
        /\ result.step = step /\ result.capability = node.capability /\ result.operational = node.operational
    BY <1>2 DEF NodeFile
  <2> HIDE DEF result
  <2> QED BY <1>3, <2>2, <2>3, UntrustedPart
<1> QED BY <1>4, <1>5, SavingKeeps

\* The first file.
LEMMA FreshIs ==
  /\ Fresh \in NodeFile /\ Issued(Fresh) /\ StepSound(Fresh)
  /\ \A ss, reg : FileSound(Fresh, ss) /\ Disowned(Fresh, reg)
<1>1. 0 \in 0 .. Redacted /\ 0 \in 0 .. MaxSessions /\ 0 \in 0 .. MaxSessions + 3 /\ 0 # Redacted
  BY OnboardingAssumption DEF Redacted
<1>2. Fresh \in NodeFile
  BY <1>1 DEF Fresh, NodeFile, PreTrust, PostTrust
<1>3. /\ Fresh.token = 0 /\ Fresh.activation = 0 /\ Fresh.session = 0 /\ Fresh.trust = "untrusted"
      /\ Fresh.step = "node_identity"
  BY DEF Fresh
<1> QED BY <1>1, <1>2, <1>3 DEF Issued, StepSound, PostTrust, FileSound, Disowned

LEMMA RestartSetupKeeps ==
  ASSUME SetupFiles, RestartSetup PROVE SetupKept
BY FreshIs, GrownByNothing DEF RestartSetup, SetupKept, SetupFiles, IssuedInv, StepsInv

\* A step of the node's and of Core's.
MayBecome(file, ss, reg) ==
  /\ FileSound(file, ss)
  /\ IssuedInv /\ ~ restored => Issued(file)
  /\ IssuedInv /\ StepsInv /\ ~ restored => StepSound(file) /\ Disowned(file, reg)

LEMMA SteppingKeeps ==
  ASSUME SetupFiles, MayBecome(node', sessions', registry'),
         sessions' \in Seq(CoreSession), Len(sessions') <= MaxSessions, Grown(sessions, sessions'),
         registry' \in [Cores -> [token : 0 .. MaxSessions, ready : BOOLEAN]],
         UNCHANGED <<bundle, restored>>
  PROVE  SetupKept
<1>1. bundle # NoBundle => FileSound(bundle, sessions')
  BY StaysSound DEF SetupFiles
<1>2. SetupFiles'
  BY <1>1 DEF SetupFiles, MayBecome
<1>3. IssuedInv => IssuedInv'
  BY DEF IssuedInv, MayBecome
<1>4. IssuedInv /\ StepsInv => StepsInv'
  BY DEF StepsInv, MayBecome
<1> QED BY <1>2, <1>3, <1>4 DEF SetupKept

\* The same, of a file with the trust of the node's.
LEMMA TrustAsItWas ==
  ASSUME SetupFiles, NEW file, NEW ss, NEW reg, file \in NodeFile, Grown(sessions, ss),
         file.trust = node.trust, file.id = node.id, file.token = node.token,
         file.activation \in {0, node.activation} \/ ConsumedIn(file.activation, ss),
         ss \in Seq(CoreSession), Len(ss) <= MaxSessions,
         file.session \in {0, node.session} \/ file.session \in DOMAIN ss,
         \/ file.step \in PreTrust
         \/ /\ file.step = node.step /\ file.capability = node.capability
            /\ file.operational = node.operational,
         Disowned(node, registry) => Disowned(node, reg)
  PROVE  MayBecome(file, ss, reg)
<1> USE NodeIs
<1>1. FileSound(file, ss)
  BY DEF FileSound, Grown, ConsumedIn
<1>2. Issued(node) => Issued(file)
  <2>1. \A t \in DOMAIN ss : t # Redacted
    BY OnboardingAssumption DEF Redacted
  <2> QED BY <2>1, OnboardingAssumption DEF Issued, Redacted, ConsumedIn
<1>3. StepSound(node) => StepSound(file)
  <2>1. file.step \in PreTrust => file.step \notin PostTrust
    BY DEF PreTrust, PostTrust
  <2> QED BY <2>1 DEF StepSound
<1>4. Disowned(node, registry) => Disowned(file, reg)
  BY DEF Disowned
<1> QED BY <1>1, <1>2, <1>3, <1>4 DEF MayBecome

LEMMA StartSessionKeeps ==
  ASSUME SetupFiles, StartSession PROVE SetupKept
<1>1. PICK answered \in BOOLEAN :
        /\ node.core # NoCore /\ node.nonce # 0 /\ node.advert
        /\ Len(sessions) < MaxSessions /\ sessions' = Opened("onboarding")
        /\ node' = IF answered
             THEN [node EXCEPT !.session = Len(sessions) + 1, !.closed = FALSE, !.step = "approval"]
             ELSE node
        /\ UNCHANGED <<registry, bundle, restored>>
  BY DEF StartSession
<1> DEFINE n == Len(sessions) + 1
<1>2. node \in NodeFile BY NodeIs
<1>3. n \in 0 .. MaxSessions
  BY <1>1, SessionBounds
<1>4. /\ sessions' \in Seq(CoreSession) /\ Len(sessions') <= MaxSessions
      /\ n \in DOMAIN sessions' /\ Grown(sessions, sessions')
  <2>1. [core |-> node.core, nonce |-> node.nonce, kind |-> "onboarding", status |-> "pending"] \in CoreSession
    BY <1>1, <1>2, OnboardingAssumption DEF NodeFile, CoreSession
  <2> QED BY <1>1, <2>1, OpeningGrows DEF Opened
<1> HIDE DEF n
<1>5. node' = node \/ node' = [node EXCEPT !.session = n, !.closed = FALSE, !.step = "approval"]
  BY <1>1 DEF n
<1>6. node' \in NodeFile
  <2>1. [node EXCEPT !.session = n, !.closed = FALSE, !.step = "approval"] \in NodeFile
    BY <1>2, <1>3 DEF NodeFile, PreTrust
  <2> QED BY <1>2, <1>5, <2>1
<1>7. /\ node'.trust = node.trust /\ node'.id = node.id /\ node'.token = node.token
      /\ node'.activation = node.activation
      /\ \/ node' = node
         \/ node'.session = n /\ node'.step = "approval"
  BY <1>2, <1>5 DEF NodeFile
<1>8. MayBecome(node', sessions', registry')
  BY <1>1, <1>4, <1>6, <1>7, TrustAsItWas DEF PreTrust
<1> QED BY <1>1, <1>4, <1>8, SteppingKeeps DEF SetupFiles

\* What Core's finalization leaves: an approved session is consumed, and its
\* token, which no file had, registered.
LEMMA FinalizingIs ==
  ASSUME SetupFiles, node.session # 0, node.core # NoCore, CoreFinalizes
  PROVE  /\ sessions' \in Seq(CoreSession) /\ Len(sessions') <= MaxSessions /\ Grown(sessions, sessions')
         /\ registry' \in [Cores -> [token : 0 .. MaxSessions, ready : BOOLEAN]]
         /\ Outcome = "approved" => ConsumedIn(node.session, sessions')
         /\ Disowned(node, registry) => Disowned(node, registry')
<1> DEFINE s == node.session
<1>1. /\ node \in NodeFile /\ s \in Sessions /\ node.core \in Cores /\ s \in 0 .. MaxSessions
      /\ node.token # 0 => ConsumedIn(node.token, sessions)
  BY NodeIs DEF NodeFile, FileSound, Sessions
<1>2. CASE Outcome # "approved"
  <2>1. sessions' = sessions /\ registry' = registry
    BY <1>2 DEF CoreFinalizes
  <2> QED BY <2>1, <1>2, GrownByNothing DEF SetupFiles
<1>3. CASE Outcome = "approved"
  <2>1. /\ sessions' = [sessions EXCEPT ![s].status = "consumed"]
        /\ registry' = [registry EXCEPT ![node.core] = [token |-> s, ready |-> FALSE]]
    BY <1>3 DEF CoreFinalizes
  <2>2. sessions[s].status = "approved"
    BY <1>3 DEF Outcome
  <2> HIDE DEF s
  <2>3. /\ sessions' \in Seq(CoreSession) /\ Len(sessions') <= MaxSessions /\ Grown(sessions, sessions')
        /\ ConsumedIn(s, sessions')
    BY <1>1, <2>1, <2>2, DecidingGrows DEF ConsumedIn, Sessions, SetupFiles
  <2>4. registry' \in [Cores -> [token : 0 .. MaxSessions, ready : BOOLEAN]]
    BY <1>1, <2>1 DEF SetupFiles
  <2>5. node.token # 0 => node.token # s
    BY <1>1, <2>2 DEF ConsumedIn
  <2>6. \A c \in Cores : registry'[c].token \in {registry[c].token, s}
    BY <1>1, <2>1 DEF SetupFiles
  <2>7. Disowned(node, registry) => Disowned(node, registry')
    BY <2>5, <2>6 DEF Disowned
  <2> QED BY <2>3, <2>4, <2>7 DEF s
<1> QED BY <1>2, <1>3

LEMMA PollKeeps ==
  ASSUME SetupFiles, PollSession PROVE SetupKept
<1>1. PICK answered \in BOOLEAN :
        /\ node.core # NoCore /\ node.nonce # 0 /\ node.session # 0 /\ CoreFinalizes
        /\ node' = IF ~ answered THEN node
             ELSE [node EXCEPT !.closed = Outcome \in Terminal,
                     !.activation = IF Outcome = "approved" THEN node.session ELSE 0,
                     !.step = IF Outcome = "approved" THEN "trust_activation" ELSE "approval"]
        /\ UNCHANGED <<bundle, restored>>
  BY DEF PollSession
<1> DEFINE activation == IF Outcome = "approved" THEN node.session ELSE 0
           step == IF Outcome = "approved" THEN "trust_activation" ELSE "approval"
           closed == Outcome \in Terminal
           result == [node EXCEPT !.closed = closed, !.activation = activation, !.step = step]
<1>2. node \in NodeFile BY NodeIs
<1>3. node' = node \/ node' = result
  BY <1>1
<1>4. closed \in BOOLEAN /\ step \in PreTrust /\ activation \in 0 .. Redacted
  BY <1>2, OnboardingAssumption DEF PreTrust, NodeFile, Redacted
<1>5. activation = 0 \/ ConsumedIn(activation, sessions')
  BY <1>1, FinalizingIs
<1> HIDE DEF activation, step, closed
<1>6. result \in NodeFile
  BY <1>2, <1>4 DEF NodeFile
<1>7. /\ result.trust = node.trust /\ result.id = node.id /\ result.token = node.token
      /\ result.activation = activation /\ result.session = node.session /\ result.step = step
  BY <1>2 DEF NodeFile
<1> HIDE DEF result
<1>8. MayBecome(node', sessions', registry')
  BY <1>1, <1>2, <1>3, <1>4, <1>5, <1>6, <1>7, FinalizingIs, TrustAsItWas
<1> QED BY <1>1, <1>8, FinalizingIs, SteppingKeeps

\* Trust, with the token of a consumed session.
LEMMA TrustGained ==
  ASSUME NEW file, NEW ss, NEW reg, FileSound(file, ss), file.activation # Redacted,
         file.trust = "trusted", file.id, file.token # 0, file.step = "provider_setup"
  PROVE  MayBecome(file, ss, reg)
BY DEF MayBecome, Issued, StepSound, Disowned

LEMMA ActivatedIs ==
  ASSUME SetupFiles, NEW file, NEW ss, file \in NodeFile, ss \in Seq(CoreSession),
         file.session # 0 => file.session \in DOMAIN ss,
         file.activation # 0,
         file.activation # Redacted => ConsumedIn(file.activation, ss)
  PROVE  /\ FileSound(Activated(file), ss)
         /\ Activated(file).activation = 0 /\ Activated(file).trust = "trusted" /\ Activated(file).id
         /\ Activated(file).step = "provider_setup"
         /\ file.activation # Redacted => Activated(file).token # 0
<1> DEFINE token == IF file.activation = Redacted THEN 0 ELSE file.activation
           result == [file EXCEPT !.trust = "trusted", !.id = TRUE, !.token = token,
                        !.activation = 0, !.step = "provider_setup"]
<1>1. Activated(file) = result
  BY DEF Activated
<1>2. token \in 0 .. MaxSessions /\ 0 \in 0 .. Redacted
  BY OnboardingAssumption DEF NodeFile, Redacted
<1>3. token # 0 => ConsumedIn(token, ss)
  OBVIOUS
<1>4. file.activation # Redacted => token # 0
  OBVIOUS
<1> HIDE DEF token
<1>5. result \in NodeFile
  BY <1>2 DEF NodeFile, PostTrust
<1>6. /\ result.trust = "trusted" /\ result.id /\ result.token = token /\ result.activation = 0
      /\ result.step = "provider_setup" /\ result.session = file.session
  BY DEF NodeFile
<1> HIDE DEF result
<1> QED BY <1>1, <1>3, <1>4, <1>5, <1>6 DEF FileSound

LEMMA ActivationKeeps ==
  ASSUME SetupFiles, FinalizeActivation PROVE SetupKept
<1>1. node.activation # 0 /\ SaveNode(Activated(node))
  BY DEF FinalizeActivation
<1>2. FileSound(Activated(node), sessions)
  BY <1>1, NodeIs, ActivatedIs DEF SetupFiles, FileSound
<1>3. IssuedInv /\ ~ restored => node.activation # Redacted
  BY NodeIs DEF Issued
<1>4. node.activation # Redacted => MayBecome(Activated(node), sessions, registry)
  BY <1>1, <1>2, NodeIs, ActivatedIs, TrustGained, OnboardingAssumption DEF SetupFiles, FileSound,
     Redacted
<1>5. MayBeSaved(Activated(node))
  BY <1>2, <1>3, <1>4 DEF MayBecome, MayBeSaved
<1> QED BY <1>1, <1>5, SavingKeeps

\* Asked, Core supports the token it registered, or disowns it: where there
\* is no other Core, nobody knows it then.
LEMMA RefreshKeeps ==
  ASSUME SetupFiles, RefreshTrust PROVE SetupKept
<1>0. node \in NodeFile /\ FileSound(node, sessions) /\ node.core \in Cores /\ node.id /\ node.token # 0
  BY NodeIs DEF RefreshTrust, NodeFile
<1>1. CASE Registered(node)
  <2> DEFINE step == IF node.step \in PreTrust THEN "provider_setup" ELSE node.step
             result == [node EXCEPT !.trust = "trusted", !.step = step]
  <2>1. SaveNode(result)
    BY <1>0, <1>1, Zenon DEF RefreshTrust
  <2>2. step \in PostTrust /\ (step = "provider_setup" \/ step = node.step)
    BY <1>0 DEF NodeFile, PostTrust
  <2> HIDE DEF step
  <2>3. result \in NodeFile
    BY <1>0, <2>2 DEF NodeFile
  <2>4. /\ result.trust = "trusted" /\ result.id = node.id /\ result.token = node.token
        /\ result.activation = node.activation /\ result.session = node.session /\ result.step = step
        /\ result.capability = node.capability /\ result.operational = node.operational
    BY <1>0 DEF NodeFile
  <2> HIDE DEF result
  <2>5. FileSound(result, sessions)
    BY <1>0, <2>3, <2>4 DEF FileSound
  <2>6. Issued(node) => Issued(result)
    BY <1>0, <2>4 DEF Issued
  <2>7. StepSound(node) => StepSound(result)
    BY <1>0, <2>2, <2>4 DEF StepSound
  <2>8. MayBeSaved(result)
    BY <2>4, <2>5, <2>6, <2>7, NodeIs DEF MayBeSaved, Disowned
  <2> QED BY <2>1, <2>8, SavingKeeps
<1>2. CASE ~ Registered(node)
  <2> DEFINE result == [node EXCEPT !.trust = "revoked", !.session = 0, !.closed = FALSE,
                          !.activation = 0, !.step = "registration"]
  <2>1. SaveNode(result)
    BY <1>0, <1>2, Zenon DEF RefreshTrust
  <2>2. 0 \in 0 .. Redacted /\ 0 \in 0 .. MaxSessions /\ "registration" \in PreTrust /\ 0 # Redacted
    BY OnboardingAssumption DEF PreTrust, Redacted
  <2>3. result \in NodeFile
    BY <1>0, <2>2 DEF NodeFile
  <2>4. /\ result.trust = "revoked" /\ result.id = node.id /\ result.token = node.token
        /\ result.activation = 0 /\ result.session = 0 /\ result.step = "registration"
    BY <1>0 DEF NodeFile
  <2> HIDE DEF result
  <2>5. FileSound(result, sessions)
    BY <1>0, <2>3, <2>4 DEF FileSound
  <2>6. Issued(result) /\ StepSound(result)
    BY <2>2, <2>4 DEF Issued, StepSound, PostTrust
  <2>7. Disowned(result, registry)
    <3>1. registry[node.core].token # node.token
      BY <1>0, <1>2, OnboardingAssumption DEF Registered
    <3> QED BY <1>0, <2>4, <3>1 DEF Disowned, OneCore
  <2>8. MayBeSaved(result)
    BY <2>5, <2>6, <2>7 DEF MayBeSaved
  <2> QED BY <2>1, <2>8, SavingKeeps
<1> QED BY <1>1, <1>2

LEMMA StartReauthKeeps ==
  ASSUME SetupFiles, StartReauth PROVE SetupKept
<1> DEFINE nonce == Len(sessions) + 3
           n == Len(sessions) + 1
           result == [node EXCEPT !.nonce = nonce, !.session = n, !.closed = FALSE, !.step = "trust_activation"]
<1>1. /\ node.id /\ node.core # NoCore /\ Len(sessions) < MaxSessions
      /\ sessions' = Append(sessions, [core |-> node.core, nonce |-> nonce, kind |-> "reauth", status |-> "pending"])
      /\ node' = node \/ node' = result
      /\ UNCHANGED <<registry, bundle, restored>>
  BY DEF StartReauth
<1>2. node \in NodeFile BY NodeIs
<1>3. n \in 0 .. MaxSessions /\ nonce \in 0 .. MaxSessions + 3 /\ nonce \in Nat
  BY <1>1, SessionBounds
<1> HIDE DEF nonce
<1>4. /\ sessions' \in Seq(CoreSession) /\ Len(sessions') <= MaxSessions
      /\ n \in DOMAIN sessions' /\ Grown(sessions, sessions')
  <2>1. [core |-> node.core, nonce |-> nonce, kind |-> "reauth", status |-> "pending"] \in CoreSession
    BY <1>1, <1>2, <1>3 DEF NodeFile, CoreSession
  <2> QED BY <1>1, <2>1, OpeningGrows
<1> HIDE DEF n
<1>5. result \in NodeFile
  BY <1>2, <1>3 DEF NodeFile, PreTrust
<1>6. /\ result.trust = node.trust /\ result.id = node.id /\ result.token = node.token
      /\ result.activation = node.activation /\ result.session = n /\ result.step = "trust_activation"
  BY <1>2 DEF NodeFile
<1> HIDE DEF result
<1>7. MayBecome(node', sessions', registry')
  <2>1. "trust_activation" \in PreTrust BY DEF PreTrust
  <2> QED BY <1>1, <1>2, <1>4, <1>5, <1>6, <2>1, TrustAsItWas
<1> QED BY <1>1, <1>4, <1>7, SteppingKeeps DEF SetupFiles

LEMMA FinalizeReauthKeeps ==
  ASSUME SetupFiles, FinalizeReauth PROVE SetupKept
<1> DEFINE polled == [node EXCEPT !.closed = FALSE, !.activation = node.session]
           closed == Outcome \in Terminal
           result == [node EXCEPT !.closed = closed]
<1>1. /\ node.core # NoCore /\ node.session # 0 /\ node.nonce # 0 /\ CoreFinalizes
      /\ UNCHANGED <<bundle, restored>>
      /\ \/ node' = node
         \/ Outcome = "approved" /\ node' = Activated(polled)
         \/ node' = result
  BY DEF FinalizeReauth
<1>2. node \in NodeFile /\ node.session \in DOMAIN sessions
  BY <1>1, NodeIs DEF FileSound
<1>3. MayBecome(node, sessions', registry')
  BY <1>1, <1>2, FinalizingIs, TrustAsItWas
<1>4. MayBecome(result, sessions', registry')
  <2>1. closed \in BOOLEAN OBVIOUS
  <2> HIDE DEF closed
  <2>2. result \in NodeFile
    BY <1>2, <2>1 DEF NodeFile
  <2>3. /\ result.trust = node.trust /\ result.id = node.id /\ result.token = node.token
        /\ result.activation = node.activation /\ result.session = node.session /\ result.step = node.step
        /\ result.capability = node.capability /\ result.operational = node.operational
    BY <1>2 DEF NodeFile
  <2> HIDE DEF result
  <2> QED BY <1>1, <2>2, <2>3, FinalizingIs, TrustAsItWas
<1>5. ASSUME Outcome = "approved" PROVE MayBecome(Activated(polled), sessions', registry')
  <2>1. polled \in NodeFile
    <3>1. node.session \in 0 .. Redacted
      BY <1>2, OnboardingAssumption DEF NodeFile, Redacted
    <3> QED BY <1>2, <3>1 DEF NodeFile
  <2>2. polled.activation = node.session /\ polled.session = node.session
    BY <1>2 DEF NodeFile
  <2> HIDE DEF polled
  <2>3. node.session # Redacted /\ node.session \in DOMAIN sessions' /\ 0 # Redacted
    BY <1>1, <1>2, FinalizingIs, OnboardingAssumption DEF NodeFile, Redacted, Grown
  <2>4. ConsumedIn(node.session, sessions') /\ sessions' \in Seq(CoreSession)
    BY <1>1, <1>5, FinalizingIs
  <2> QED BY <1>1, <2>1, <2>2, <2>3, <2>4, ActivatedIs, TrustGained
<1>6. MayBecome(node', sessions', registry')
  BY <1>1, <1>3, <1>4, <1>5
<1> QED BY <1>1, <1>6, FinalizingIs, SteppingKeeps

LEMMA RestartOnboardingKeeps ==
  ASSUME SetupFiles, RestartOnboarding PROVE SetupKept
<1> DEFINE file == IF node.trust = "trusted" THEN node
                   ELSE [node EXCEPT !.trust = "untrusted", !.id = FALSE, !.token = 0]
           result == [file EXCEPT !.session = 0, !.closed = FALSE, !.activation = 0, !.step = PretrustStep]
<1>1. SaveNode(result)
  BY DEF RestartOnboarding
<1>2. node \in NodeFile BY NodeIs
<1>3. 0 \in 0 .. Redacted /\ 0 \in 0 .. MaxSessions /\ 0 # Redacted
  BY OnboardingAssumption DEF Redacted
<1>4. /\ file \in NodeFile
      /\ \/ file = node /\ node.trust = "trusted"
         \/ file.token = 0 /\ file.trust = "untrusted"
  <2>1. /\ [node EXCEPT !.trust = "untrusted", !.id = FALSE, !.token = 0] \in NodeFile
        /\ [node EXCEPT !.trust = "untrusted", !.id = FALSE, !.token = 0].token = 0
        /\ [node EXCEPT !.trust = "untrusted", !.id = FALSE, !.token = 0].trust = "untrusted"
    BY <1>2, <1>3 DEF NodeFile
  <2> QED BY <1>2, <2>1
<1> HIDE DEF file
<1>5. PretrustStep \in PreTrust /\ PretrustStep \notin PostTrust
  BY DEF PretrustStep, PreTrust, PostTrust
<1>6. result \in NodeFile
  BY <1>3, <1>4, <1>5 DEF NodeFile
<1>7. /\ result.trust = file.trust /\ result.id = file.id /\ result.token = file.token
      /\ result.activation = 0 /\ result.session = 0 /\ result.step = PretrustStep
  BY <1>4 DEF NodeFile
<1>8. MayBeSaved(result)
  <2> HIDE DEF result
  <2>1. FileSound(result, sessions)
    BY <1>4, <1>6, <1>7, NodeIs DEF FileSound
  <2>2. Issued(node) => Issued(result)
    BY <1>3, <1>4, <1>7 DEF Issued
  <2>3. StepSound(result)
    BY <1>5, <1>7 DEF StepSound
  <2>4. Disowned(result, registry)
    BY <1>4, <1>7 DEF Disowned
  <2> QED BY <2>1, <2>2, <2>3, <2>4, NodeIs DEF MayBeSaved
<1> QED BY <1>1, <1>8, SavingKeeps

LEMMA ClearingKeeps ==
  ASSUME SetupFiles, ClearExpiredSession PROVE SetupKept
<1> DEFINE step == IF node.trust = "reauth_required" THEN "trust_activation" ELSE "registration"
           result == [node EXCEPT !.session = 0, !.closed = FALSE, !.activation = 0, !.step = step]
<1>1. SaveNode(result)
  BY DEF ClearExpiredSession
<1>2. node \in NodeFile BY NodeIs
<1>3. 0 \in 0 .. Redacted /\ 0 \in 0 .. MaxSessions /\ step \in PreTrust
  BY OnboardingAssumption DEF Redacted, PreTrust
<1> HIDE DEF step
<1>4. result \in NodeFile
  BY <1>2, <1>3 DEF NodeFile
<1>5. /\ result.trust = node.trust /\ result.id = node.id /\ result.token = node.token
      /\ result.activation = 0 /\ result.session = 0 /\ result.step = step
  BY <1>2 DEF NodeFile
<1> HIDE DEF result
<1> QED BY <1>1, <1>3, <1>4, <1>5, UntrustedPart, SavingKeeps

\* A file whose manifest went stale.
LEMMA StaleIs ==
  ASSUME NEW file, file \in NodeFile
  PROVE  /\ Stale(file) \in NodeFile
         /\ Stale(file).trust = file.trust /\ Stale(file).id = file.id /\ Stale(file).token = file.token
         /\ Stale(file).activation = file.activation /\ Stale(file).session = file.session
         /\ Stale(file).step = file.step
<1> DEFINE errors == file.errors \ {"declaration"}
           result == [file EXCEPT !.capability = "stale", !.governed = FALSE, !.operational = FALSE,
                        !.errors = errors]
<1>1. Stale(file) = file \/ Stale(file) = result
  BY DEF Stale
<1>2. errors \in SUBSET {"declaration", "governance"}
  BY DEF NodeFile
<1> HIDE DEF errors
<1>3. /\ result \in NodeFile
      /\ result.trust = file.trust /\ result.id = file.id /\ result.token = file.token
      /\ result.activation = file.activation /\ result.session = file.session /\ result.step = file.step
  BY <1>2 DEF NodeFile
<1> HIDE DEF result
<1> QED BY <1>1, <1>3

\* A file of a trusted node with a step that does not need readiness.
LEMMA TrustedPart ==
  ASSUME SetupFiles, NEW file, file \in NodeFile, node.trust = "trusted",
         file.trust = node.trust, file.id = node.id, file.token = node.token,
         file.activation = node.activation, file.session = node.session,
         file.step # "ready"
  PROVE  MayBeSaved(file)
<1> USE NodeIs
<1>1. FileSound(file, sessions)
  BY DEF FileSound
<1>2. Issued(node) => Issued(file) /\ StepSound(file)
  BY DEF Issued, StepSound
<1>3. Disowned(file, registry)
  BY DEF Disowned
<1> QED BY <1>1, <1>2, <1>3 DEF MayBeSaved

LEMMA ProvidersKeep ==
  ASSUME SetupFiles, SaveProviders PROVE SetupKept
<1>1. PICK on, complete, changed \in BOOLEAN :
        LET file == [node EXCEPT !.enabled = on, !.allowed = on /\ complete /\ node.id,
                       !.step = IF on /\ complete /\ node.id THEN "capability_declaration" ELSE "provider_setup"]
        IN
        /\ node.trust = "trusted" /\ (on # node.enabled => changed)
        /\ SaveNode(IF changed THEN Stale(file) ELSE file)
  BY Zenon DEF SaveProviders
<1> DEFINE allowed == on /\ complete /\ node.id
           step == IF on /\ complete /\ node.id THEN "capability_declaration" ELSE "provider_setup"
           file == [node EXCEPT !.enabled = on, !.allowed = allowed, !.step = step]
<1>2. node \in NodeFile BY NodeIs
<1>3. node.trust = "trusted" /\ SaveNode(IF changed THEN Stale(file) ELSE file)
  BY <1>1
<1>4. step \in PostTrust /\ step # "ready" /\ allowed \in BOOLEAN
  BY <1>2 DEF PostTrust, NodeFile
<1> HIDE DEF step, allowed
<1>5. file \in NodeFile
  BY <1>2, <1>4 DEF NodeFile
<1>6. /\ file.trust = node.trust /\ file.id = node.id /\ file.token = node.token
      /\ file.activation = node.activation /\ file.session = node.session /\ file.step = step
  BY <1>2 DEF NodeFile
<1> HIDE DEF file
<1>7. MayBeSaved(file)
  BY <1>3, <1>4, <1>5, <1>6, TrustedPart
<1>8. MayBeSaved(Stale(file))
  BY <1>3, <1>4, <1>5, <1>6, StaleIs, TrustedPart
<1> QED BY <1>3, <1>7, <1>8, SavingKeeps

\* The files that the capabilities and the governance make of one.
LEMMA SelectedIs ==
  ASSUME NEW file, file \in NodeFile
  PROVE  /\ Selected(file) \in NodeFile /\ Selected(file).capability = "stale"
         /\ Selected(file).trust = file.trust /\ Selected(file).id = file.id /\ Selected(file).token = file.token
         /\ Selected(file).activation = file.activation /\ Selected(file).session = file.session
         /\ Selected(file).step = file.step /\ Selected(file).operational = file.operational
<1> DEFINE errors == file.errors \ {"declaration"}
<1>1. errors \in SUBSET {"declaration", "governance"}
  BY DEF NodeFile
<1>2. Selected(file) = [file EXCEPT !.capability = "stale", !.governed = FALSE, !.errors = errors]
  BY Zenon DEF Selected
<1> HIDE DEF errors
<1> QED BY ZenonT(30), <1>1, <1>2 DEF NodeFile

LEMMA DeclaredIs ==
  ASSUME NEW file, file \in NodeFile
  PROVE  /\ Declared(file) \in NodeFile /\ Declared(file).step = "governance_sync"
         /\ Declared(file).trust = file.trust /\ Declared(file).id = file.id /\ Declared(file).token = file.token
         /\ Declared(file).activation = file.activation /\ Declared(file).session = file.session
<1> DEFINE errors == file.errors \ {"declaration"}
<1>1. errors \in SUBSET {"declaration", "governance"}
  BY DEF NodeFile
<1>2. Declared(file) = [file EXCEPT !.capability = "accepted", !.governed = FALSE, !.errors = errors,
                          !.step = "governance_sync"]
  BY Zenon DEF Declared
<1> HIDE DEF errors
<1> QED BY ZenonT(30), <1>1, <1>2 DEF NodeFile, PostTrust

LEMMA SyncedIs ==
  ASSUME NEW file, file \in NodeFile, NEW updated \in BOOLEAN
  PROVE  /\ Synced(file, updated) \in NodeFile
         /\ Synced(file, updated).step \in {"ready", "governance_sync"}
         /\ Synced(file, updated).step = "ready" => file.operational
         /\ Synced(file, updated).trust = file.trust /\ Synced(file, updated).id = file.id
         /\ Synced(file, updated).token = file.token /\ Synced(file, updated).session = file.session
         /\ Synced(file, updated).activation = file.activation
         /\ Synced(file, updated).capability = file.capability
         /\ Synced(file, updated).operational = file.operational
<1> DEFINE errors == file.errors \ {"governance"}
           step == IF updated /\ file.operational THEN "ready" ELSE "governance_sync"
<1>1. errors \in SUBSET {"declaration", "governance"}
  BY DEF NodeFile
<1>2. Synced(file, updated) = [file EXCEPT !.governed = TRUE, !.errors = errors, !.step = step]
  BY Zenon DEF Synced
<1>3. step \in {"ready", "governance_sync"} /\ (step = "ready" => file.operational)
  OBVIOUS
<1> HIDE DEF errors, step
<1> QED BY ZenonT(30), <1>1, <1>2, <1>3 DEF NodeFile, PostTrust

LEMMA SelectionKeeps ==
  ASSUME SetupFiles, SaveSelection PROVE SetupKept
<1>1. node.trust = "trusted" /\ SaveNode(Selected(node)) /\ node \in NodeFile
  BY NodeIs DEF SaveSelection
<1>2. MayBeSaved(Selected(node))
  <2> USE NodeIs
  <2>1. FileSound(Selected(node), sessions)
    BY <1>1, SelectedIs DEF FileSound
  <2>2. Issued(node) => Issued(Selected(node))
    BY <1>1, SelectedIs DEF Issued
  <2>3. StepSound(node) => StepSound(Selected(node))
    BY <1>1, SelectedIs DEF StepSound
  <2>4. Disowned(Selected(node), registry)
    BY <1>1, SelectedIs DEF Disowned
  <2> QED BY <2>1, <2>2, <2>3, <2>4 DEF MayBeSaved
<1> QED BY <1>1, <1>2, SavingKeeps

\* Core's record of a node's readiness changes, its tokens do not.
LEMMA ReadinessIs ==
  ASSUME SetupFiles, NEW c \in Cores, NEW b \in BOOLEAN,
         registry' = [registry EXCEPT ![c].ready = b]
  PROVE  /\ registry' \in [Cores -> [token : 0 .. MaxSessions, ready : BOOLEAN]]
         /\ \A d \in Cores : registry'[d].token = registry[d].token
<1>1. registry \in [Cores -> [token : 0 .. MaxSessions, ready : BOOLEAN]]
  BY DEF SetupFiles
<1>2. [registry[c] EXCEPT !.ready = b] \in [token : 0 .. MaxSessions, ready : BOOLEAN]
  BY <1>1
<1>3. [registry[c] EXCEPT !.ready = b].token = registry[c].token
  BY <1>1
<1> QED BY <1>1, <1>2, <1>3

LEMMA DeclareKeeps ==
  ASSUME SetupFiles, Declare PROVE SetupKept
<1>1. /\ MayDeclare(node) /\ registry' = [registry EXCEPT ![node.core].ready = FALSE]
      /\ node' = Declared(node) \/ node' = node
      /\ UNCHANGED <<sessions, bundle, restored>>
  BY DEF Declare
<1>2. node \in NodeFile /\ node.core \in Cores
  BY <1>1, NodeIs DEF NodeFile, MayDeclare
<1>3. /\ registry' \in [Cores -> [token : 0 .. MaxSessions, ready : BOOLEAN]]
      /\ \A d \in Cores : registry'[d].token = registry[d].token
  BY <1>1, <1>2, ReadinessIs
<1>4. MayBeSaved(Declared(node)) /\ MayBeSaved(node)
  BY <1>1, <1>2, DeclaredIs, TrustedPart, NodeIs DEF MayDeclare, MayBeSaved
<1>5. MayBecome(node', sessions', registry')
  BY <1>1, <1>3, <1>4 DEF MayBecome, MayBeSaved, Disowned
<1> QED BY <1>1, <1>3, <1>5, GrownByNothing, SteppingKeeps DEF SetupFiles

\* With a registered token, where there is one Core, the node is trusted.
LEMMA GovernedPart ==
  ASSUME SetupFiles, NEW file, file \in NodeFile, MayGovern(node), Registered(node),
         file.trust = node.trust, file.id = node.id, file.token = node.token,
         file.activation = node.activation, file.session = node.session,
         file.step \in {"ready", "governance_sync"},
         file.step = "ready" => file.operational, file.capability = node.capability
  PROVE  MayBeSaved(file)
<1> USE NodeIs
<1>1. FileSound(file, sessions)
  BY DEF FileSound
<1>2. Issued(node) => Issued(file)
  BY DEF Issued
<1>3. Disowned(node, registry) => StepSound(file) /\ Disowned(file, registry)
  <2>1. node.core \in Cores /\ registry[node.core].token = node.token
    BY DEF MayGovern, Registered, NodeFile
  <2> QED BY <2>1 DEF MayGovern, StepSound, Disowned
<1> QED BY <1>1, <1>2, <1>3 DEF MayBeSaved

LEMMA SyncKeeps ==
  ASSUME SetupFiles, SyncGovernance PROVE SetupKept
<1>1. PICK updated \in BOOLEAN : MayGovern(node) /\ Registered(node) /\ SaveNode(Synced(node, updated))
  BY DEF SyncGovernance
<1>2. MayBeSaved(Synced(node, updated))
  <2>1. node \in NodeFile BY NodeIs
  <2>2. Synced(node, updated) \in NodeFile
    BY <2>1, SyncedIs
  <2>3. Synced(node, updated).step = "ready" => Synced(node, updated).operational
    BY <2>1, SyncedIs
  <2> QED BY <1>1, <2>1, <2>2, <2>3, SyncedIs, GovernedPart
<1> QED BY <1>1, <1>2, SavingKeeps

LEMMA StatusKeeps ==
  ASSUME SetupFiles, PollOperationalStatus PROVE SetupKept
<1> DEFINE operational == registry[node.core].ready
           step == IF operational THEN "ready" ELSE "governance_sync"
           result == [node EXCEPT !.operational = operational, !.step = step]
<1>1. MayGovern(node) /\ Registered(node) /\ SaveNode(result)
  BY DEF PollOperationalStatus
<1>2. node \in NodeFile /\ operational \in BOOLEAN
  BY <1>1, NodeIs DEF NodeFile, MayGovern, SetupFiles
<1>3. step \in {"ready", "governance_sync"} /\ (step = "ready" => operational)
  OBVIOUS
<1> HIDE DEF step, operational
<1>4. result \in NodeFile
  BY <1>2, <1>3 DEF NodeFile, PostTrust
<1>5. /\ result.trust = node.trust /\ result.id = node.id /\ result.token = node.token
      /\ result.activation = node.activation /\ result.session = node.session
      /\ result.step = step /\ result.capability = node.capability /\ result.operational = operational
  BY <1>2 DEF NodeFile
<1>6. MayBeSaved(result)
  <2> HIDE DEF result
  <2> QED BY <1>1, <1>3, <1>4, <1>5, GovernedPart
<1> QED BY <1>1, <1>6, SavingKeeps

LEMMA ExportKeeps ==
  ASSUME SetupFiles, ExportBundle PROVE SetupKept
<1> DEFINE trust == IF node.id THEN "reauth_required" ELSE node.trust
           activation == IF node.activation = 0 THEN 0 ELSE Redacted
           operational == ~ node.id /\ node.operational
           result == [node EXCEPT !.token = 0, !.trust = trust, !.activation = activation,
                        !.operational = operational]
<1>1. node \in NodeFile /\ FileSound(node, sessions)
  BY NodeIs
<1>2. bundle' = result /\ UNCHANGED <<node, sessions, registry, restored>>
  BY <1>1, Zenon DEF ExportBundle, Redact
<1>3. /\ 0 \in 0 .. MaxSessions /\ activation \in {0, Redacted} /\ activation \in 0 .. Redacted
      /\ trust \in {"untrusted", "trusted", "revoked", "reauth_required"} /\ operational \in BOOLEAN
  BY <1>1, OnboardingAssumption DEF NodeFile, Redacted
<1> HIDE DEF trust, activation, operational
<1>4. result \in NodeFile
  BY <1>1, <1>3 DEF NodeFile
<1>5. result.token = 0 /\ result.activation = activation /\ result.session = node.session
  BY <1>1 DEF NodeFile
<1> HIDE DEF result
<1>6. FileSound(result, sessions)
  BY <1>1, <1>3, <1>4, <1>5 DEF FileSound
<1> QED BY <1>2, <1>6, GrownByNothing DEF SetupKept, SetupFiles, IssuedInv, StepsInv

LEMMA ImportKeeps ==
  ASSUME SetupFiles, ImportBundle PROVE SetupKept
<1>1. PICK c \in Cores \cup {NoCore} :
        /\ bundle # NoBundle
        /\ node' = IF c = NoCore THEN bundle ELSE [bundle EXCEPT !.core = c]
        /\ restored' = TRUE /\ UNCHANGED <<sessions, registry, bundle>>
  BY DEF ImportBundle
<1>2. bundle \in NodeFile /\ FileSound(bundle, sessions)
  BY <1>1 DEF SetupFiles, FileSound
<1> DEFINE result == [bundle EXCEPT !.core = c]
<1>3. result \in NodeFile
  BY <1>2 DEF NodeFile
<1>4. result.token = bundle.token /\ result.activation = bundle.activation /\ result.session = bundle.session
  BY <1>2 DEF NodeFile
<1>5. FileSound(result, sessions)
  <2> HIDE DEF result
  <2> QED BY <1>2, <1>3, <1>4 DEF FileSound
<1>6. FileSound(node', sessions)
  BY <1>1, <1>2, <1>5
<1> QED BY <1>1, <1>6, GrownByNothing DEF SetupKept, SetupFiles, IssuedInv, StepsInv

\* The file is as it was, while Core decides.
LEMMA NodeStays ==
  ASSUME SetupFiles, UNCHANGED <<node, bundle, restored>>, Grown(sessions, sessions'),
         sessions' \in Seq(CoreSession), Len(sessions') <= MaxSessions,
         registry' \in [Cores -> [token : 0 .. MaxSessions, ready : BOOLEAN]],
         \A c \in Cores : registry'[c].token \in {registry[c].token, 0}
  PROVE  SetupKept
<1>1. Disowned(node, registry) => Disowned(node, registry')
  BY DEF Disowned
<1>2. MayBecome(node, sessions', registry')
  BY <1>1, NodeIs, TrustAsItWas
<1> QED BY <1>2, SteppingKeeps

LEMMA CoreKeeps ==
  ASSUME SetupFiles, CoreDecides \/ CoreRevokes \/ CoreFindsReady PROVE SetupKept
<1>1. CASE CoreDecides
  <2>1. PICK s \in Sessions, status \in {"approved", "rejected"} :
          /\ sessions[s].status = "pending"
          /\ sessions' = [sessions EXCEPT ![s].status = status]
          /\ UNCHANGED <<node, registry, bundle, restored>>
    BY <1>1 DEF CoreDecides
  <2>2. /\ sessions' \in Seq(CoreSession) /\ Len(sessions') <= MaxSessions /\ Grown(sessions, sessions')
    BY <2>1, DecidingGrows DEF SetupFiles
  <2> QED BY <2>1, <2>2, NodeStays DEF SetupFiles
<1>2. CASE CoreRevokes
  <2>1. PICK c \in Cores :
          /\ registry' = [registry EXCEPT ![c] = [@ EXCEPT !.token = 0, !.ready = FALSE]]
          /\ UNCHANGED <<node, sessions, bundle, restored>>
    BY <1>2 DEF CoreRevokes
  <2>2. /\ registry \in [Cores -> [token : 0 .. MaxSessions, ready : BOOLEAN]] /\ 0 \in 0 .. MaxSessions
    BY OnboardingAssumption DEF SetupFiles
  <2>3. /\ [registry[c] EXCEPT !.token = 0, !.ready = FALSE] \in [token : 0 .. MaxSessions, ready : BOOLEAN]
        /\ [registry[c] EXCEPT !.token = 0, !.ready = FALSE].token = 0
    BY <2>2
  <2>4. /\ registry' \in [Cores -> [token : 0 .. MaxSessions, ready : BOOLEAN]]
        /\ \A d \in Cores : registry'[d].token \in {registry[d].token, 0}
    BY <2>1, <2>2, <2>3
  <2> QED BY <2>1, <2>4, GrownByNothing, NodeStays DEF SetupFiles
<1>3. CASE CoreFindsReady
  <2>1. PICK c \in Cores :
          /\ registry' = [registry EXCEPT ![c].ready = TRUE]
          /\ UNCHANGED <<node, sessions, bundle, restored>>
    BY <1>3 DEF CoreFindsReady
  <2>2. /\ registry' \in [Cores -> [token : 0 .. MaxSessions, ready : BOOLEAN]]
        /\ \A d \in Cores : registry'[d].token = registry[d].token
    BY <2>1, ReadinessIs
  <2> QED BY <2>1, <2>2, GrownByNothing, NodeStays DEF SetupFiles
<1> QED BY <1>1, <1>2, <1>3

LEMMA OnboardingKeeps ==
  ASSUME SetupFiles, OnboardingNext PROVE SetupKept
<1>1. RepollApproval => FinalizeReauth \/ PollSession
  BY DEF RepollApproval
<1>2. RetryTrustFinalize => FinalizeReauth \/ FinalizeActivation
  BY DEF RetryTrustFinalize
<1> QED BY <1>1, <1>2, IdentityKeeps, ConnectionKeeps, TestKeeps, AdvertisementKeeps,
           RestartSetupKeeps,
           StartSessionKeeps, PollKeeps, ActivationKeeps, RefreshKeeps, StartReauthKeeps, FinalizeReauthKeeps,
           RestartOnboardingKeeps, ClearingKeeps, ProvidersKeep, SelectionKeeps, DeclareKeeps, SyncKeeps,
           StatusKeeps, ExportKeeps, ImportKeeps, CoreKeeps
        DEF OnboardingNext

LEMMA OnboardingInitInv ==
  ASSUME OnboardingInit PROVE SetupFiles /\ IssuedInv /\ StepsInv
<1>1. /\ sessions = <<>> /\ Len(sessions) = 0 /\ sessions \in Seq(CoreSession) /\ 0 \in 0 .. MaxSessions /\ 0 <= MaxSessions
  BY OnboardingAssumption DEF OnboardingInit
<1>2. registry \in [Cores -> [token : 0 .. MaxSessions, ready : BOOLEAN]]
  BY <1>1 DEF OnboardingInit
<1> QED BY <1>1, <1>2, FreshIs DEF OnboardingInit, SetupFiles, IssuedInv, StepsInv

LEMMA OnboardingFrame ==
  ASSUME SetupFiles, UNCHANGED ovars PROVE SetupKept
BY GrownByNothing DEF SetupFiles, SetupKept, IssuedInv, StepsInv, ovars

LEMMA OnboardingShows ==
  ASSUME SetupFiles
  PROVE  /\ OnboardingTypeOK
         /\ IssuedInv => TokensAreIssued
         /\ IssuedInv => UnblockedMayGoOn
         /\ StepsInv => PostTrustNeedsTrust
<1>1. \A s \in Sessions : sessions[s].status \in Terminal \cup {"pending", "approved"}
  BY SessionBounds DEF Sessions, CoreSession
<1>2. OnboardingTypeOK
  BY <1>1 DEF SetupFiles, OnboardingTypeOK, FileSound
<1>3. node.token # 0 => node.token \in Sessions /\ sessions[node.token].status = "consumed"
  BY DEF SetupFiles, FileSound, ConsumedIn, Sessions
<1>4. IssuedInv => TokensAreIssued
  BY <1>3 DEF IssuedInv, Issued, TokensAreIssued
<1>5. IssuedInv => UnblockedMayGoOn
  <2> SUFFICES ASSUME Issued(node), CapabilityBlockers(node) = {} PROVE MayDeclare(node) /\ MayGovern(node)
    BY DEF IssuedInv, UnblockedMayGoOn
  <2>1. /\ ~ (node.trust # "trusted") /\ ~ (node.core = NoCore) /\ ~ ~ node.allowed
        /\ ~ (~ node.id \/ ~ node.enabled) /\ CapabilitiesCurrent(node)
    <3>a. node.trust # "trusted" => "untrusted_node" \in CapabilityBlockers(node)
      BY DEF CapabilityBlockers
    <3>b. node.core = NoCore => "core_connection_not_configured" \in CapabilityBlockers(node)
      BY DEF CapabilityBlockers
    <3>c. ~ node.allowed => "provider_setup_incomplete" \in CapabilityBlockers(node)
      BY DEF CapabilityBlockers
    <3>d. ~ node.id \/ ~ node.enabled => "invalid_manifest" \in CapabilityBlockers(node)
      BY DEF CapabilityBlockers
    <3>e. ~ CapabilitiesCurrent(node) => "capability_declaration_not_current" \in CapabilityBlockers(node)
      BY DEF CapabilityBlockers
    <3> QED BY <3>a, <3>b, <3>c, <3>d, <3>e
  <2> QED BY <2>1 DEF Issued, MayDeclare, MayGovern, CapabilitiesCurrent
<1>6. StepsInv => PostTrustNeedsTrust
  BY DEF StepsInv, StepSound, PostTrustNeedsTrust
<1> QED BY <1>2, <1>4, <1>5, <1>6

(* onboarding/, governance/, capabilities/: a step of the setup after trust *)
(* has the token, and the trust, that it rests on, and the token of a      *)
(* trusted node is one that Core issued, whatever is started, lost, decided *)
(* or saved in between, for any number of Cores and sessions.              *)
THEOREM TrustLeadsSetup ==
  OnboardingSpec => [](OnboardingTypeOK /\ PostTrustNeedsTrust /\ TokensAreIssued)
<1> DEFINE Inv == SetupFiles /\ IssuedInv /\ StepsInv
<1>1. OnboardingInit => Inv
  BY OnboardingInitInv
<1>2. Inv /\ [OnboardingNext]_ovars => Inv'
  BY OnboardingKeeps, OnboardingFrame DEF SetupKept
<1>3. Inv => OnboardingTypeOK /\ PostTrustNeedsTrust /\ TokensAreIssued
  BY OnboardingShows
<1> QED BY <1>1, <1>2, <1>3, PTL DEF OnboardingSpec

-----------------------------------------------------------------------------
(* The last steps: the files that requests hold were saved, or are sound   *)
(* as one that was; and what they read of the ready state was written.     *)
ReadyFile ==
  [tested : BOOLEAN, failed : CheckIds \cup {"none"}, warned : SUBSET Warnings, accepted : SUBSET Warnings,
   completed : BOOLEAN]

RequestRecord == [op : Requests \cup {"completing"}, recovery : BOOLEAN, file : NodeFile, ready : ReadyFile]

RequestsInv ==
  /\ ready \in ReadyFile
  /\ requests \in [Slots -> {Idle} \cup RequestRecord]
  /\ \A s \in Slots : requests[s] # Idle => FileSound(requests[s].file, sessions)

RequestsIssued == \A s \in Slots : requests[s] # Idle => Issued(requests[s].file)

LastStep(s) ==
  \/ BeginRequest(s) \/ FinishSelect(s) \/ FinishDeclare(s) \/ FinishSync(s) \/ FailRequest(s)
  \/ FinishSmoke(s) \/ RefuseComplete(s) \/ MarkComplete(s) \/ FinishComplete(s) \/ FinishAcknowledge(s)

\* What they keep.
RequestsKept ==
  /\ SetupFiles' /\ RequestsInv' /\ restored' = restored
  /\ ~ restored /\ IssuedInv /\ RequestsIssued => IssuedInv' /\ RequestsIssued'

LEMMA RequestIs ==
  ASSUME RequestsInv, NEW s \in Slots, Request(s).op # "idle"
  PROVE  /\ requests[s] # Idle /\ requests[s] \in RequestRecord
         /\ FileSound(requests[s].file, sessions)
         /\ requests[s].file \in NodeFile /\ requests[s].ready \in ReadyFile
         /\ RequestsIssued => Issued(requests[s].file)
<1>1. requests[s] # Idle
  BY DEF Request, Idle
<1>2. requests[s] \in RequestRecord
  BY <1>1 DEF RequestsInv
<1>3. requests[s].file \in NodeFile /\ requests[s].ready \in ReadyFile
  BY <1>2 DEF RequestRecord
<1> QED BY <1>1, <1>2, <1>3 DEF RequestsInv, RequestsIssued

\* A begun ends, or goes on, with a sound file.
LEMMA EndingHolds ==
  ASSUME RequestsInv, NEW s \in Slots, sessions' = sessions, ready' \in ReadyFile, NEW begun,
         requests' = [requests EXCEPT ![s] = begun],
         begun = Idle \/ (begun \in RequestRecord /\ FileSound(begun.file, sessions))
  PROVE  /\ RequestsInv'
         /\ RequestsIssued /\ (begun # Idle => Issued(begun.file)) => RequestsIssued'
<1>1. requests' \in [Slots -> {Idle} \cup RequestRecord]
  BY DEF RequestsInv
<1>2. \A t \in Slots : requests'[t] = IF t = s THEN begun ELSE requests[t]
  BY DEF RequestsInv
<1>3. \A t \in Slots : requests'[t] # Idle => FileSound(requests'[t].file, sessions')
  BY <1>2 DEF RequestsInv
<1>4. RequestsIssued /\ (begun # Idle => Issued(begun.file)) => RequestsIssued'
  BY <1>2 DEF RequestsIssued
<1> QED BY <1>1, <1>3, <1>4 DEF RequestsInv

\* A file is saved.
LEMMA SavesHolds ==
  ASSUME SetupFiles, UNCHANGED <<sessions, bundle, restored>>, FileSound(node', sessions),
         registry' \in [Cores -> [token : 0 .. MaxSessions, ready : BOOLEAN]]
  PROVE  SetupFiles' /\ (~ restored /\ Issued(node') => IssuedInv') /\ (restored => IssuedInv')
BY DEF SetupFiles, IssuedInv

LEMMA BeginHolds ==
  ASSUME SetupFiles, RequestsInv, NEW s \in Slots, BeginRequest(s) PROVE RequestsKept
<1>1. PICK op \in Requests, recovery \in BOOLEAN :
        /\ Continue(s, [op |-> op, recovery |-> recovery,
                   file |-> IF op \in {"complete", "acknowledge"} THEN Fresh ELSE node,
                   ready |-> IF recovery \/ op \in {"complete", "acknowledge"} THEN ready ELSE Unread])
        /\ UNCHANGED <<ready, ovars>>
  BY DEF BeginRequest
<1> DEFINE file == IF op \in {"complete", "acknowledge"} THEN Fresh ELSE node
           read == IF recovery \/ op \in {"complete", "acknowledge"} THEN ready ELSE Unread
           begun == [op |-> op, recovery |-> recovery, file |-> file, ready |-> read]
<1>2. file \in NodeFile /\ FileSound(file, sessions) /\ (~ restored /\ IssuedInv => Issued(file))
  BY FreshIs, NodeIs
<1>3. Unread \in ReadyFile
  BY DEF Unread, ReadyFile
<1>4. read \in ReadyFile
  BY <1>3 DEF RequestsInv
<1> HIDE DEF file, read
<1>5. begun \in RequestRecord /\ begun.file = file
  BY <1>2, <1>4 DEF RequestRecord
<1>6. requests' = [requests EXCEPT ![s] = begun]
  BY <1>1 DEF Continue, file, read
<1> HIDE DEF begun
<1>7. ready' \in ReadyFile
  BY <1>1 DEF RequestsInv
<1>8. sessions' = sessions /\ restored' = restored
  BY <1>1 DEF ovars
<1>9. SetupFiles' /\ (IssuedInv => IssuedInv')
  BY <1>1, OnboardingFrame DEF SetupKept
<1> QED BY <1>2, <1>5, <1>6, <1>7, <1>8, <1>9, EndingHolds DEF RequestsKept

\* A file made of a sound one.
LEMMA MadeOf ==
  ASSUME NEW from, NEW ss, FileSound(from, ss), NEW file, file \in NodeFile,
         file.trust = from.trust, file.id = from.id, file.token = from.token,
         file.activation = from.activation, file.session = from.session
  PROVE  FileSound(file, ss) /\ (Issued(from) => Issued(file))
BY DEF FileSound, Issued

\* A request saves a file made of its own or of the node's, and ends or
\* goes on.
LEMMA SavingHolds ==
  ASSUME SetupFiles, RequestsInv, NEW s \in Slots, Request(s).op # "idle",
         UNCHANGED <<sessions, bundle, restored, ready>>,
         FileSound(node', sessions),
         ~ restored /\ IssuedInv /\ RequestsIssued => Issued(node'),
         registry' \in [Cores -> [token : 0 .. MaxSessions, ready : BOOLEAN]],
         NEW begun, requests' = [requests EXCEPT ![s] = begun],
         begun = Idle \/ (begun \in RequestRecord /\ begun.file = Request(s).file)
  PROVE  RequestsKept
<1>1. begun = Idle \/ (begun \in RequestRecord /\ FileSound(begun.file, sessions))
  BY RequestIs DEF Request
<1>2. RequestsIssued => (begun # Idle => Issued(begun.file))
  BY RequestIs DEF Request
<1>3. SetupFiles' /\ (~ restored /\ Issued(node') => IssuedInv')
  BY SavesHolds
<1>4. ready' \in ReadyFile
  BY DEF RequestsInv
<1> QED BY <1>1, <1>2, <1>3, <1>4, EndingHolds DEF RequestsKept

\* A request writes the ready state, or nothing.
LEMMA ReadingHolds ==
  ASSUME SetupFiles, RequestsInv, NEW s \in Slots, UNCHANGED ovars, ready' \in ReadyFile, Finish(s)
  PROVE  RequestsKept
<1>1. SetupFiles' /\ (IssuedInv => IssuedInv') /\ sessions' = sessions /\ restored' = restored
  BY OnboardingFrame DEF SetupKept, ovars
<1> QED BY <1>1, EndingHolds DEF RequestsKept, Finish

LEMMA FinishSelectHolds ==
  ASSUME SetupFiles, RequestsInv, NEW s \in Slots, FinishSelect(s) PROVE RequestsKept
<1> DEFINE file == Request(s).file
<1>1. /\ Request(s).op # "idle" /\ node' = Selected(file) /\ Finish(s)
      /\ UNCHANGED <<sessions, registry, bundle, restored, ready>>
  BY DEF FinishSelect, Saves
<1>2. file \in NodeFile /\ FileSound(file, sessions) /\ (RequestsIssued => Issued(file))
  BY <1>1, RequestIs DEF Request
<1> HIDE DEF file
<1>3. FileSound(node', sessions) /\ (Issued(file) => Issued(node'))
  BY <1>1, <1>2, SelectedIs, MadeOf
<1> QED BY <1>1, <1>2, <1>3, SavingHolds DEF SetupFiles, Finish

LEMMA FinishDeclareHolds ==
  ASSUME SetupFiles, RequestsInv, NEW s \in Slots, FinishDeclare(s) PROVE RequestsKept
<1> DEFINE file == Request(s).file
<1>1. /\ Request(s).op # "idle" /\ node' = Declared(file) /\ Finish(s) /\ MayDeclare(file)
      /\ registry' = [registry EXCEPT ![file.core].ready = FALSE]
      /\ UNCHANGED <<sessions, bundle, restored, ready>>
  BY DEF FinishDeclare
<1>2. file \in NodeFile /\ FileSound(file, sessions) /\ (RequestsIssued => Issued(file))
  BY <1>1, RequestIs DEF Request
<1> HIDE DEF file
<1>3. FileSound(node', sessions) /\ (Issued(file) => Issued(node'))
  BY <1>1, <1>2, DeclaredIs, MadeOf
<1>4. registry' \in [Cores -> [token : 0 .. MaxSessions, ready : BOOLEAN]]
  BY <1>1, <1>2, ReadinessIs DEF NodeFile, MayDeclare
<1> QED BY <1>1, <1>2, <1>3, <1>4, SavingHolds DEF Finish

LEMMA FinishSyncHolds ==
  ASSUME SetupFiles, RequestsInv, NEW s \in Slots, FinishSync(s) PROVE RequestsKept
<1> DEFINE file == Request(s).file
<1>1. PICK updated \in BOOLEAN :
      /\ Request(s).op # "idle" /\ node' = Synced(file, updated) /\ Finish(s)
      /\ UNCHANGED <<sessions, registry, bundle, restored, ready>>
  BY DEF FinishSync, Saves
<1>2. file \in NodeFile /\ FileSound(file, sessions) /\ (RequestsIssued => Issued(file))
  BY <1>1, RequestIs DEF Request
<1> HIDE DEF file
<1>3. FileSound(node', sessions) /\ (Issued(file) => Issued(node'))
  BY <1>1, <1>2, SyncedIs, MadeOf
<1> QED BY <1>1, <1>2, <1>3, SavingHolds DEF SetupFiles, Finish

LEMMA NotedIs ==
  ASSUME SetupFiles, NEW op, NEW refused \in BOOLEAN
  PROVE  FileSound(Noted(op, refused), sessions) /\ (Issued(node) => Issued(Noted(op, refused)))
<1> DEFINE declaring == node.errors \cup {"declaration"}
           syncing == node.errors \cup {"governance"}
           capability == IF refused THEN "rejected" ELSE node.capability
           f == [node EXCEPT !.errors = declaring, !.capability = capability]
           g == [node EXCEPT !.errors = syncing, !.governed = FALSE]
<1>1. node \in NodeFile /\ FileSound(node, sessions)
  BY NodeIs
<1>2. Noted(op, refused) = f \/ Noted(op, refused) = g
  <2>1. Noted(op, refused) = IF op = "declare" THEN f ELSE g
    BY Zenon DEF Noted
  <2> QED BY <2>1, Zenon
<1>3. /\ declaring \in SUBSET {"declaration", "governance"} /\ syncing \in SUBSET {"declaration", "governance"}
      /\ capability \in {"missing", "stale", "accepted", "rejected"}
  BY <1>1 DEF NodeFile
<1> HIDE DEF declaring, syncing, capability
<1>4. /\ f \in NodeFile /\ f.trust = node.trust /\ f.id = node.id /\ f.token = node.token
      /\ f.activation = node.activation /\ f.session = node.session
  BY <1>1, <1>3 DEF NodeFile
<1>5. /\ g \in NodeFile /\ g.trust = node.trust /\ g.id = node.id /\ g.token = node.token
      /\ g.activation = node.activation /\ g.session = node.session
  BY <1>1, <1>3 DEF NodeFile
<1> HIDE DEF f, g
<1> QED BY <1>1, <1>2, <1>4, <1>5, MadeOf

LEMMA FailHolds ==
  ASSUME SetupFiles, RequestsInv, NEW s \in Slots, FailRequest(s) PROVE RequestsKept
<1>1. Request(s).op # "idle" /\ Finish(s)
  BY DEF FailRequest
<1>2. CASE Request(s).recovery
  <2>1. ready' = Request(s).ready /\ UNCHANGED ovars
    BY <1>2 DEF FailRequest
  <2> QED BY <1>1, <2>1, RequestIs, ReadingHolds DEF Request
<1>3. CASE ~ Request(s).recovery
  <2>1. PICK refused \in BOOLEAN : Saves(Noted(Request(s).op, refused))
    BY <1>3 DEF FailRequest
  <2>2. /\ node' = Noted(Request(s).op, refused)
        /\ UNCHANGED <<sessions, registry, bundle, restored, ready>>
    BY <2>1 DEF Saves
  <2>3. FileSound(node', sessions) /\ (Issued(node) => Issued(node'))
    BY <2>2, NotedIs
  <2> QED BY <1>1, <2>2, <2>3, SavingHolds DEF SetupFiles, Finish, IssuedInv
<1> QED BY <1>2, <1>3

LEMMA FirstOfIs ==
  ASSUME NEW failed, failed \subseteq CheckIds
  PROVE  FirstOf(failed) \in CheckIds \cup {"none"}
<1>1. DOMAIN CheckOrder = 1 .. 12
  BY DEF CheckOrder
<1>2. ASSUME NEW checks, checks \subseteq CheckIds, checks # {} PROVE Earliest(checks) \in CheckIds
  <2> DEFINE T == {i \in DOMAIN CheckOrder : CheckOrder[i] \in checks}
  <2>1. T # {}
    BY <1>2 DEF CheckIds
  <2>2. PICK i \in T : \A j \in T : i <= j
    <3>1. T \subseteq Nat BY <1>1
    <3> HIDE DEF T
    <3> QED BY <2>1, <3>1, LeastIs
  <2>3. \E k \in DOMAIN CheckOrder :
          /\ CheckOrder[k] \in checks
          /\ \A j \in DOMAIN CheckOrder : CheckOrder[j] \in checks => k <= j
    BY <2>2
  <2>4. Earliest(checks) \in {CheckOrder[k] : k \in DOMAIN CheckOrder}
    BY <2>3 DEF Earliest
  <2> QED BY <2>4 DEF CheckIds
<1>3. Paged(failed) \subseteq failed
  BY DEF Paged
<1> QED BY <1>2, <1>3 DEF FirstOf

LEMMA SmokeHolds ==
  ASSUME SetupFiles, RequestsInv, NEW s \in Slots, FinishSmoke(s) PROVE RequestsKept
<1>1. PICK others \in {{}} \cup {{check} : check \in {"frontend", "engines", "dirs", "sockets", "supervisor"}},
           warned \in SUBSET Warnings :
        /\ ready' = [ready EXCEPT !.tested = TRUE, !.warned = warned,
                       !.failed = FirstOf(others \cup {check \in CheckIds : Fails(check, Request(s).file)})]
        /\ Finish(s) /\ UNCHANGED ovars
  BY Zenon DEF FinishSmoke
<1> DEFINE failed == FirstOf(others \cup {check \in CheckIds : Fails(check, Request(s).file)})
<1>2. {"frontend", "engines", "dirs", "sockets", "supervisor"} \subseteq CheckIds
  <2>1. /\ DOMAIN CheckOrder = 1 .. 12 /\ CheckOrder[1] = "frontend" /\ CheckOrder[5] = "engines"
        /\ CheckOrder[6] = "dirs" /\ CheckOrder[7] = "sockets" /\ CheckOrder[12] = "supervisor"
    BY DEF CheckOrder
  <2>2. \A i \in 1 .. 12 : CheckOrder[i] \in CheckIds
    BY <2>1 DEF CheckIds
  <2> QED BY <2>1, <2>2
<1>3. others \subseteq CheckIds
  BY <1>2
<1>4. failed \in CheckIds \cup {"none"}
  <2>1. others \cup {check \in CheckIds : Fails(check, Request(s).file)} \subseteq CheckIds
    BY <1>3
  <2> QED BY <2>1, FirstOfIs
<1>5. ready' = [ready EXCEPT !.tested = TRUE, !.warned = warned, !.failed = failed]
  BY <1>1
<1> HIDE DEF failed
<1>6. ready' \in ReadyFile
  BY <1>4, <1>5 DEF ReadyFile, RequestsInv
<1> QED BY <1>1, <1>6, ReadingHolds

LEMMA RefuseHolds ==
  ASSUME SetupFiles, RequestsInv, NEW s \in Slots, RefuseComplete(s) PROVE RequestsKept
BY ReadingHolds DEF RefuseComplete, RequestsInv

LEMMA MarkHolds ==
  ASSUME SetupFiles, RequestsInv, NEW s \in Slots, MarkComplete(s) PROVE RequestsKept
<1> DEFINE result == [node EXCEPT !.operational = TRUE, !.step = "ready"]
           begun == [Request(s) EXCEPT !.op = "completing"]
<1>1. /\ Request(s).op # "idle" /\ node' = result
      /\ requests' = [requests EXCEPT ![s] = begun]
      /\ UNCHANGED <<sessions, registry, bundle, restored, ready>>
  BY DEF MarkComplete, Saves, Continue
<1>2. node \in NodeFile /\ FileSound(node, sessions)
  BY NodeIs
<1>3. /\ result \in NodeFile /\ result.trust = node.trust /\ result.id = node.id /\ result.token = node.token
      /\ result.activation = node.activation /\ result.session = node.session
  BY <1>2 DEF NodeFile, PostTrust
<1> HIDE DEF result
<1>4. FileSound(node', sessions) /\ (Issued(node) => Issued(node'))
  BY <1>1, <1>2, <1>3, MadeOf
<1>5. Request(s) \in RequestRecord
  BY <1>1, RequestIs DEF Request
<1>6. begun \in RequestRecord /\ begun.file = Request(s).file
  BY <1>5 DEF RequestRecord
<1> HIDE DEF begun
<1> QED BY <1>1, <1>4, <1>6, SavingHolds DEF SetupFiles, IssuedInv

LEMMA CompleteHolds ==
  ASSUME SetupFiles, RequestsInv, NEW s \in Slots, FinishComplete(s) \/ FinishAcknowledge(s) PROVE RequestsKept
<1> DEFINE read == Request(s).ready
<1>1. /\ Request(s).op # "idle" /\ Finish(s) /\ UNCHANGED ovars
      /\ \/ ready' = [read EXCEPT !.completed = TRUE]
         \/ ready' = [read EXCEPT !.accepted = read.warned]
  BY DEF FinishComplete, FinishAcknowledge
<1>2. read \in ReadyFile
  BY <1>1, RequestIs DEF Request
<1> HIDE DEF read
<1>3. [read EXCEPT !.completed = TRUE] \in ReadyFile /\ [read EXCEPT !.accepted = read.warned] \in ReadyFile
  BY <1>2 DEF ReadyFile
<1> QED BY <1>1, <1>3, ReadingHolds

LEMMA LastStepHolds ==
  ASSUME SetupFiles, RequestsInv, NEW s \in Slots, LastStep(s) PROVE RequestsKept
BY BeginHolds, FinishSelectHolds, FinishDeclareHolds, FinishSyncHolds, FailHolds, SmokeHolds,
   RefuseHolds, MarkHolds, CompleteHolds DEF LastStep

\* While nothing works on the requests.
LEMMA RequestsFrame ==
  ASSUME RequestsInv, UNCHANGED rvars, Grown(sessions, sessions')
  PROVE  RequestsInv' /\ (RequestsIssued => RequestsIssued')
<1>1. requests' = requests /\ ready' = ready
  BY DEF rvars
<1>2. \A s \in Slots : requests[s] # Idle => FileSound(requests[s].file, sessions')
  BY StaysSound DEF RequestsInv
<1> QED BY <1>1, <1>2 DEF RequestsInv, RequestsIssued

LEMMA RequestsInitInv ==
  ASSUME ReadyInit PROVE RequestsInv /\ RequestsIssued
<1>1. Unread \in ReadyFile
  BY DEF Unread, ReadyFile
<1> QED BY <1>1 DEF ReadyInit, RequestsInv, RequestsIssued

LEMMA RequestsShow ==
  ASSUME RequestsInv PROVE ReadyTypeOK
<1>1. ASSUME NEW s \in Slots PROVE requests[s].op \in Requests \cup {"idle", "completing"}
  <2>1. requests[s] = Idle \/ requests[s] \in RequestRecord
    BY DEF RequestsInv
  <2>2. Idle.op = "idle"
    BY DEF Idle
  <2> QED BY <2>1, <2>2 DEF RequestRecord
<1> QED BY <1>1 DEF RequestsInv, ReadyFile, ReadyTypeOK

(* main.py, the ready step: also when two requests' threads and the setup  *)
(* save the onboarding file at once, each with what it read before, the    *)
(* files and the requests keep their types.                                *)
THEOREM FilesStayWhole ==
  ReadySpec => [](OnboardingTypeOK /\ ReadyTypeOK)
<1> DEFINE Inv == SetupFiles /\ RequestsInv
<1>1. ReadyInit => Inv
  BY OnboardingInitInv, RequestsInitInv DEF ReadyInit
<1>2. Inv /\ [ReadyNext]_<<ovars, rvars>> => Inv'
  <2> SUFFICES ASSUME Inv, [ReadyNext]_<<ovars, rvars>> PROVE Inv'
    OBVIOUS
  <2>1. CASE OnboardingNext /\ UNCHANGED rvars
    BY <2>1, OnboardingKeeps, RequestsFrame DEF SetupKept
  <2>2. CASE \E s \in Slots : LastStep(s)
    BY <2>2, LastStepHolds DEF RequestsKept
  <2>3. CASE UNCHANGED <<ovars, rvars>>
    <3>1. UNCHANGED ovars /\ UNCHANGED rvars BY <2>3
    <3> QED BY <3>1, OnboardingFrame, RequestsFrame DEF SetupKept
  <2> QED BY <2>1, <2>2, <2>3 DEF ReadyNext, LastStep
<1>3. Inv => OnboardingTypeOK /\ ReadyTypeOK
  BY OnboardingShows, RequestsShow
<1> QED BY <1>1, <1>2, <1>3, PTL DEF ReadySpec

-----------------------------------------------------------------------------
(* As the services' instance divides it: the threads of the last steps     *)
(* hold files only where nothing is restored and a step need not follow    *)
(* trust.                                                                  *)
SetupInv ==
  /\ SetupFiles /\ RequestsInv /\ IssuedInv
  /\ part # "ready" => StepsInv
  /\ part = "ready" => ~ restored /\ RequestsIssued

LEMMA StraightKeeps == ASSUME Straight PROVE OnboardingNext /\ restored' = restored
<1>1. OnboardingNext
  BY DEF Straight, Forward, OnboardingNext
<1>2. \A file : SaveNode(file) => restored' = restored
  BY DEF SaveNode
<1>3. SaveIdentity \/ SaveCoreConnection \/ TestConnection \/ ValidateAdvertisement => restored' = restored
  BY <1>2, Zenon DEF SaveIdentity, SaveCoreConnection, TestConnection, ValidateAdvertisement
<1>4. StartSession \/ PollSession => restored' = restored
  BY DEF StartSession, PollSession
<1>5. FinalizeActivation \/ RefreshTrust \/ PollOperationalStatus \/ SaveProviders => restored' = restored
  BY <1>2, Zenon DEF FinalizeActivation, RefreshTrust, PollOperationalStatus, SaveProviders
<1>6. CoreDecides \/ CoreFindsReady \/ CoreRevokes => restored' = restored
  BY DEF CoreDecides, CoreFindsReady, CoreRevokes
<1> QED BY <1>1, <1>3, <1>4, <1>5, <1>6 DEF Straight, Forward

LEMMA SetupStep ==
  ASSUME SetupInv, Setup, UNCHANGED part PROVE SetupInv'
<1>1. CASE part # "ready" /\ OnboardingNext /\ UNCHANGED rvars
  BY <1>1, OnboardingKeeps, RequestsFrame DEF SetupInv, SetupKept
<1>2. CASE part = "ready" /\ Straight /\ UNCHANGED rvars
  BY <1>2, StraightKeeps, OnboardingKeeps, RequestsFrame DEF SetupInv, SetupKept
<1>3. CASE part = "ready" /\ \E s \in Slots : LastStep(s)
  BY <1>3, LastStepHolds DEF SetupInv, RequestsKept
<1> QED BY <1>1, <1>2, <1>3 DEF Setup, LastSteps, LastStep

LEMMA SetupFrame ==
  ASSUME SetupInv, UNCHANGED <<part, ovars, rvars>> PROVE SetupInv'
<1>1. UNCHANGED ovars /\ UNCHANGED rvars /\ UNCHANGED part OBVIOUS
<1>2. restored' = restored BY <1>1 DEF ovars
<1> QED BY <1>1, <1>2, OnboardingFrame, RequestsFrame DEF SetupInv, SetupKept

LEMMA SetupInitInv ==
  ASSUME ReadyInit PROVE SetupInv
BY OnboardingInitInv, RequestsInitInv DEF ReadyInit, OnboardingInit, SetupInv

LEMMA SetupShows ==
  ASSUME SetupInv
  PROVE  /\ OnboardingTypeOK /\ ReadyTypeOK /\ TokensAreIssued /\ UnblockedMayGoOn
         /\ part # "ready" => PostTrustNeedsTrust
BY OnboardingShows, RequestsShow DEF SetupInv

-----------------------------------------------------------------------------
(* SpeakerProfiles *)

Profiles ==
  [public : Publics, provider : Installed, made : SUBSET Installed,
   age : {"child", "adult"}, admin : BOOLEAN]

ProfileTypes ==
  /\ speakers \in [ProfileIds -> {Absent} \cup Profiles]
  /\ enabled \in BOOLEAN /\ provider \in Installed
  /\ saved \in [enabled : BOOLEAN, provider : Installed]
  /\ outcome \in ProfileIds \cup {NoProfile}

ReviewTypes ==
  /\ DOMAIN candidates = Candidates
  /\ \A c \in Candidates :
       candidates[c] \in [profile : ProfileIds \cup {NoProfile}, public : Publics \cup {NoProfile},
                          status : {"none", "pending", "approved", "rejected", "discarded"},
                          retained : BOOLEAN]
  /\ reviewing \in [Candidates -> [stage : {"idle", "asking", "answered"},
                                   profile : ProfileIds \cup {NoProfile}]]
  /\ learned \in [Candidates -> 0 .. MaxLearned]

(* Whoever waits to mark a candidate as approved has added its sample.     *)
AnsweredWasLearned == \A c \in Candidates : reviewing[c].stage = "answered" => learned[c] > 0

ProfilesInv == ProfileTypes /\ ProfilesAreSound
ReviewInv == ReviewTypes /\ ApprovedWasLearned /\ AnsweredWasLearned
SpeakersInv == ProfilesInv /\ ReviewInv

LEMMA SpeakersInitInv == SpeakersInit => SpeakersInv
<1> SUFFICES ASSUME SpeakersInit PROVE SpeakersInv
  OBVIOUS
<1> USE DEF SpeakersInit
<1>1. ProfilesInv
  BY SpeakersAssumption DEF ProfilesInv, ProfileTypes, ProfilesAreSound, Present
<1>2. ReviewInv
  BY SpeakersAssumption
     DEF ReviewInv, ReviewTypes, ApprovedWasLearned, AnsweredWasLearned, Unseen, Idling
<1> QED BY <1>1, <1>2 DEF SpeakersInv

LEMMA PresentIs ==
  ASSUME ProfileTypes, NEW i \in ProfileIds
  PROVE  /\ i \in Present <=> speakers[i] # Absent
         /\ i \in Present <=> speakers[i] \in Profiles
BY SpeakersAssumption DEF ProfileTypes, Present, Profiles, Absent

(* One profile is put in the place of another, and its public id is        *)
(* nobody else's.                                                          *)
LEMMA ProfilePut ==
  ASSUME ProfilesInv, NEW i \in ProfileIds, NEW p \in {Absent} \cup Profiles,
         speakers' = [speakers EXCEPT ![i] = p],
         provider' \in Installed, enabled' \in BOOLEAN,
         saved' \in [enabled : BOOLEAN, provider : Installed],
         outcome' \in ProfileIds \cup {NoProfile},
         p # Absent => /\ p.made = {p.provider} /\ (p.admin => p.age = "adult")
                       /\ \A j \in Present \ {i} : speakers[j].public # p.public
  PROVE  ProfilesInv'
<1>1. ProfileTypes'
  BY DEF ProfilesInv, ProfileTypes
<1>2. \A j \in ProfileIds : speakers'[j] = IF j = i THEN p ELSE speakers[j]
  BY DEF ProfilesInv, ProfileTypes
<1>3. \A j \in Present' : j \in ProfileIds /\ (j = i => p # Absent) /\ (j # i => j \in Present)
  BY <1>2 DEF Present
<1>4. ASSUME NEW j \in Present'
      PROVE  /\ Of(speakers[j].public)' = {j}
             /\ speakers'[j].made = {speakers'[j].provider}
             /\ speakers'[j].admin => speakers'[j].age = "adult"
  <2>1. \A k \in Present' : speakers'[k].public = speakers'[j].public => k = j
    BY <1>2, <1>3 DEF ProfilesInv, ProfilesAreSound, Of
  <2>2. Of(speakers[j].public)' = {j}
    BY <2>1 DEF Of
  <2> QED BY <1>2, <1>3, <2>2 DEF ProfilesInv, ProfilesAreSound
<1> QED BY <1>1, <1>4 DEF ProfilesInv, ProfilesAreSound

LEMMA ProfilesFrame ==
  ASSUME ProfilesInv, speakers' = speakers, provider' \in Installed, enabled' \in BOOLEAN,
         saved' \in [enabled : BOOLEAN, provider : Installed],
         outcome' \in ProfileIds \cup {NoProfile}
  PROVE  ProfilesInv'
BY DEF ProfilesInv, ProfileTypes, ProfilesAreSound, Present, Of

LEMMA AppendedIs ==
  ASSUME ProfilesInv, NEW i \in ProfileIds, Appendable(i)
  PROVE  \E p \in Profiles :
           /\ Appended(i) = [speakers EXCEPT ![i] = p] /\ p = speakers[i] /\ i \in Present
<1> DEFINE p == [speakers[i] EXCEPT !.made = @ \cup {provider}]
<1>1. i \in Present /\ speakers[i] \in Profiles /\ speakers[i].made = {provider}
  BY PresentIs DEF Appendable, ProfilesInv, ProfilesAreSound
<1>2. p = speakers[i]
  BY <1>1 DEF Profiles
<1> QED BY <1>1, <1>2 DEF Appended

(* The service's own routes.                                               *)
LEMMA ServiceKeeps ==
  ASSUME ProfilesInv,
         \/ UpdateConfig \/ Restart \/ Enroll \/ UpdateProfile \/ AppendSamples
         \/ DeleteProfile \/ Identify
  PROVE  ProfilesInv'
<1>0. /\ provider \in Installed /\ enabled \in BOOLEAN
      /\ saved \in [enabled : BOOLEAN, provider : Installed]
      /\ outcome \in ProfileIds \cup {NoProfile}
      /\ Present \subseteq ProfileIds
  BY DEF ProfilesInv, ProfileTypes, Present
<1>1. CASE UpdateConfig
  BY <1>0, <1>1, ProfilesFrame DEF UpdateConfig
<1>2. CASE Restart
  BY <1>0, <1>2, ProfilesFrame DEF Restart
<1>3. CASE Enroll
  <2>1. PICK public \in Publics, age \in {"child", "adult"}, admin \in BOOLEAN, i \in ProfileIds :
          /\ IF Of(public) # {} THEN i \in Of(public) ELSE i \notin Present
          /\ speakers' = [speakers EXCEPT ![i] =
               WithAgePolicy([public |-> public, provider |-> provider, made |-> {provider},
                              age |-> age, admin |-> FALSE], age, admin)]
          /\ UNCHANGED <<enabled, provider, saved, outcome, review>>
    BY <1>3 DEF Enroll
  <2> DEFINE p == WithAgePolicy([public |-> public, provider |-> provider, made |-> {provider},
                                 age |-> age, admin |-> FALSE], age, admin)
  <2>2. /\ p \in Profiles /\ p.made = {p.provider} /\ p.public = public
        /\ p.admin => p.age = "adult"
    BY <1>0 DEF WithAgePolicy, Profiles
  <2>3. \A j \in Present \ {i} : speakers[j].public # public
    BY <2>1 DEF ProfilesInv, ProfilesAreSound, Of
  <2> HIDE DEF p
  <2> QED BY <1>0, <2>1, <2>2, <2>3, ProfilePut DEF p
<1>4. CASE UpdateProfile
  <2>1. PICK i \in Present, public \in Publics, age \in {"child", "adult"}, admin \in BOOLEAN :
          /\ Of(public) \subseteq {i}
          /\ speakers' = [speakers EXCEPT ![i] =
               WithAgePolicy([speakers[i] EXCEPT !.public = public], age, admin)]
          /\ UNCHANGED <<enabled, provider, saved, outcome, review>>
    BY <1>4 DEF UpdateProfile
  <2> DEFINE p == WithAgePolicy([speakers[i] EXCEPT !.public = public], age, admin)
  <2>2. speakers[i] \in Profiles /\ speakers[i].made = {speakers[i].provider}
    BY <1>0, PresentIs DEF ProfilesInv, ProfilesAreSound
  <2>3. /\ p \in Profiles /\ p.made = {p.provider} /\ p.public = public
        /\ p.admin => p.age = "adult"
    BY <2>2 DEF WithAgePolicy, Profiles
  <2>4. \A j \in Present \ {i} : speakers[j].public # public
    BY <2>1 DEF Of
  <2> HIDE DEF p
  <2> QED BY <1>0, <2>1, <2>3, <2>4, ProfilePut DEF p
<1>5. CASE AppendSamples
  <2>1. PICK i \in Present :
          /\ Appendable(i) /\ speakers' = Appended(i)
          /\ UNCHANGED <<enabled, provider, saved, outcome, review>>
    BY <1>5 DEF AppendSamples
  <2>2. speakers' = speakers
    BY <1>0, <2>1, AppendedIs DEF ProfilesInv, ProfileTypes
  <2> QED BY <1>0, <2>1, <2>2, ProfilesFrame
<1>6. CASE DeleteProfile
  BY <1>0, <1>6, ProfilePut DEF DeleteProfile
<1>7. CASE Identify
  <2>1. outcome' \in ProfileIds \cup {NoProfile}
    BY <1>0, <1>7 DEF Identify, Comparable
  <2> QED BY <1>0, <1>7, <2>1, ProfilesFrame DEF Identify
<1> QED BY <1>1, <1>2, <1>3, <1>4, <1>5, <1>6, <1>7

LEMMA ReviewFrame == ReviewInv /\ UNCHANGED review => ReviewInv'
BY DEF ReviewInv, ReviewTypes, ApprovedWasLearned, AnsweredWasLearned, review

LEMMA ServiceFrame == ProfilesInv /\ UNCHANGED service => ProfilesInv'
BY DEF ProfilesInv, ProfileTypes, ProfilesAreSound, Present, Of, service

(* The review of a candidate, an answer of the service at a time.          *)
LEMMA ReviewKeeps ==
  ASSUME ProfilesInv, ReviewInv,
         \/ AddCandidate \/ Dismiss \/ BeginApproval \/ LearnSample \/ RefuseSample
         \/ FinishApproval
  PROVE  SpeakersInv'
<1> USE DEF ReviewInv
<1>1. CASE AddCandidate
  <2>1. PICK c \in Candidates, named \in BOOLEAN, retained \in BOOLEAN :
          /\ outcome \in Present
          /\ candidates' = [candidates EXCEPT ![c] =
               [profile |-> IF named THEN outcome ELSE NoProfile,
                public |-> speakers[outcome].public,
                status |-> "pending", retained |-> retained]]
          /\ UNCHANGED <<service, reviewing, learned>>
    BY <1>1 DEF AddCandidate
  <2>2. outcome \in ProfileIds /\ speakers[outcome].public \in Publics
    BY <2>1, PresentIs DEF ProfilesInv, ProfileTypes, Present, Profiles
  <2>3. ReviewInv'
    BY <2>1, <2>2 DEF ReviewTypes, ApprovedWasLearned, AnsweredWasLearned
  <2> QED BY <2>1, <2>3, ServiceFrame DEF SpeakersInv
<1>2. CASE Dismiss
  <2>1. ReviewInv'
    BY SMTT(30), <1>2 DEF Dismiss, Reviewed, ReviewTypes, ApprovedWasLearned, AnsweredWasLearned
  <2> QED BY <1>2, <2>1, ServiceFrame DEF SpeakersInv, Dismiss
<1>3. CASE BeginApproval \/ RefuseSample
  <2>1. ReviewInv'
    BY <1>3 DEF BeginApproval, RefuseSample, SetStage, ReviewTypes, ApprovedWasLearned,
                AnsweredWasLearned
  <2> QED BY <1>3, <2>1, ServiceFrame DEF SpeakersInv, BeginApproval, RefuseSample
<1>4. CASE LearnSample
  <2>1. PICK c \in Candidates, answered \in BOOLEAN :
          /\ reviewing[c].stage = "asking" /\ Appendable(reviewing[c].profile)
          /\ learned[c] < MaxLearned
          /\ speakers' = Appended(reviewing[c].profile)
          /\ learned' = [learned EXCEPT ![c] = @ + 1]
          /\ IF answered THEN SetStage(c, "answered", reviewing[c].profile)
                         ELSE SetStage(c, "idle", NoProfile)
          /\ UNCHANGED <<enabled, provider, saved, outcome, candidates>>
    BY <1>4 DEF LearnSample
  <2>2. reviewing[c].profile \in ProfileIds
    BY <2>1 DEF Appendable, Present
  <2>3. speakers' = speakers
    BY <2>1, <2>2, AppendedIs DEF ProfilesInv, ProfileTypes
  <2>4. learned' \in [Candidates -> 0 .. MaxLearned] /\ learned'[c] > 0
    BY <2>1, SpeakersAssumption DEF ReviewTypes
  <2>5. ReviewInv'
    BY <2>1, <2>2, <2>4 DEF SetStage, ReviewTypes, ApprovedWasLearned, AnsweredWasLearned
  <2> QED BY <2>1, <2>3, <2>5, ServiceFrame DEF SpeakersInv, service
<1>5. CASE FinishApproval
  <2>1. ReviewInv'
    BY SMTT(30), <1>5 DEF FinishApproval, SetStage, Reviewed, ReviewTypes, ApprovedWasLearned,
                AnsweredWasLearned
  <2> QED BY <1>5, <2>1, ServiceFrame DEF SpeakersInv, FinishApproval
<1> QED BY <1>1, <1>2, <1>3, <1>4, <1>5

LEMMA SpeakersStep == SpeakersInv /\ [SpeakersNext]_kvars => SpeakersInv'
<1> SUFFICES ASSUME SpeakersInv, [SpeakersNext]_kvars PROVE SpeakersInv'
  OBVIOUS
<1>1. CASE UpdateConfig \/ Restart \/ Enroll \/ UpdateProfile \/ AppendSamples
           \/ DeleteProfile \/ Identify
  <2>1. UNCHANGED review
    BY <1>1 DEF UpdateConfig, Restart, Enroll, UpdateProfile, AppendSamples, DeleteProfile,
                Identify
  <2> QED BY <1>1, <2>1, ServiceKeeps, ReviewFrame DEF SpeakersInv
<1>2. CASE UNCHANGED kvars
  BY <1>2, ServiceFrame, ReviewFrame DEF SpeakersInv, kvars, service, review
<1> QED BY <1>1, <1>2, ReviewKeeps DEF SpeakersInv, SpeakersNext

LEMMA SpeakersShow ==
  SpeakersInv => SpeakersTypeOK /\ ProfilesAreSound /\ ApprovedWasLearned
BY DEF SpeakersInv, ProfilesInv, ReviewInv, ProfileTypes, ReviewTypes, SpeakersTypeOK

(* speaker_id/service.py: a public id names one profile, whose embeddings  *)
(* are all of its own provider, and only an adult is an eligible           *)
(* administrator, whatever is enrolled, changed and switched.              *)
THEOREM ProfilesStaySound == SpeakersSpec => []ProfilesAreSound
<1>1. SpeakersInv => ProfilesAreSound
  BY SpeakersShow
<1> QED BY <1>1, SpeakersInitInv, SpeakersStep, PTL DEF SpeakersSpec

(* persistence/speaker_profile_review.py: a candidate marked as approved   *)
(* was learned by the service, though its answers may be lost.             *)
THEOREM ApprovalsWereLearned == SpeakersSpec => []ApprovedWasLearned
<1>1. SpeakersInv => ApprovedWasLearned
  BY SpeakersShow
<1> QED BY <1>1, SpeakersInitInv, SpeakersStep, PTL DEF SpeakersSpec

-----------------------------------------------------------------------------
(* EndpointPairing *)

Identities == [device : Devices \cup {NoDevice}, nonce : 0 .. MaxOffers]
PairingStatuses ==
  {"none", "waiting", "found", "approved", "consumed", "expired", "canceled"}

EndpointRecords ==
  [state : {"none", "idle", "offline"}, seen : {"fresh", "stale"},
   ip : Addresses \cup {NoAddress}, device : Devices \cup {NoDevice},
   session : PairingSessions \cup {NoSession}, minimal : BOOLEAN,
   audience : {"general", "child_safe"}]

PairingTypes ==
  /\ endpoints \in [Devices -> EndpointRecords]
  /\ pairings \in [PairingSessions ->
       [status : PairingStatuses, approved : Devices \cup {NoDevice}, identity : Identities]]
  /\ leases \subseteq 1 .. MaxLeases /\ stray \subseteq 1 .. MaxLeases
  /\ job \in [kind : {"none", "scan", "identity", "provision", "done"},
              device : Devices \cup {NoDevice}, key : Identities,
              lease : 0 .. MaxLeases, password : Networks \cup {NoNetwork}]
  /\ credentials \in [ssid : Networks \cup {NoNetwork}, password : Networks \cup {NoNetwork}]
  /\ DOMAIN handoff = PairingSessions
  /\ nonces \in [Devices -> 1 .. MaxOffers]
  /\ wifi \in [Devices -> Networks \cup {NoNetwork}]

(* A key is of the device that was asked for, which is one.                *)
KeysAreOfTheAsked ==
  job.kind \in {"provision", "done"} =>
    job.key.device = job.device /\ job.device \in Devices

(* A call that is running holds a lease.                                   *)
CallsHoldALease == ~ Free => job.lease \in 1 .. MaxLeases

(* The approval an install rests on is not made again.                     *)
ApprovalsAreFinal ==
  \A s \in PairingSessions :
    handoff[s] # NoHandoff =>
      /\ pairings[s].approved = handoff[s].device
      /\ pairings[s].status \in {"approved", "consumed", "expired", "canceled"}

PairingInv ==
  /\ PairingTypes /\ LeasesAreReturned /\ CallsHoldALease /\ KeysAreOfTheAsked
  /\ ApprovalsAreFinal

LEMMA PairingInitInv == PairingInit => PairingInv
BY PairingAssumption
   DEF PairingInit, PairingInv, PairingTypes, LeasesAreReturned, CallsHoldALease, KeysAreOfTheAsked,
       ApprovalsAreFinal, Free, NoJob, NoIdentity, NoHandoff, Unregistered, Identities,
       PairingStatuses, EndpointRecords

(* What the registry's handlers keep.                                      *)
LEMMA PutKeeps ==
  ASSUME PairingInv, NEW d \in Devices, NEW record \in EndpointRecords, Put(d, record),
         UNCHANGED <<pairings, access, credentials, handoff, theDevices>>
  PROVE  PairingInv'
<1>1. PairingTypes'
  BY DEF PairingInv, PairingTypes, Put, access, theDevices
<1> QED
  BY <1>1 DEF PairingInv, LeasesAreReturned, CallsHoldALease, KeysAreOfTheAsked,
     ApprovalsAreFinal, Free,
              access, theDevices

LEMMA RegistryKeeps ==
  ASSUME PairingInv, Heartbeat \/ Offer \/ UpdateMetadata \/ Delete \/ GrowOld
  PROVE  PairingInv'
<1>1. \A d \in Devices : endpoints[d] \in EndpointRecords
  BY DEF PairingInv, PairingTypes
<1>2. ASSUME NEW d \in Devices, NEW a \in Addresses \cup {NoAddress},
             NEW state \in {"idle", "offline"}, NEW s \in PairingSessions \cup {NoSession},
             NEW minimal \in BOOLEAN, NEW told \in BOOLEAN
      PROVE  LET kept == [endpoints[d] EXCEPT !.state = state, !.seen = "fresh",
                            !.ip = IF a = NoAddress THEN @ ELSE a]
             IN (IF told THEN [kept EXCEPT !.device = d, !.session = s, !.minimal = minimal]
                 ELSE kept) \in EndpointRecords
  BY ZenonT(30), <1>1 DEF EndpointRecords
<1>3. CASE Heartbeat
  <2>1. PICK d \in Devices, a \in Addresses \cup {NoAddress}, state \in {"idle", "offline"},
             s \in PairingSessions \cup {NoSession}, minimal \in BOOLEAN, told \in BOOLEAN :
          LET known == endpoints[d]
              kept == [known EXCEPT !.state = state, !.seen = "fresh",
                                    !.ip = IF a = NoAddress THEN @ ELSE a]
          IN
          /\ Free /\ (a # NoAddress => home[a] = d)
          /\ Put(d, IF told
                    THEN [kept EXCEPT !.device = d, !.session = s, !.minimal = minimal]
                    ELSE kept)
          /\ UNCHANGED <<pairings, access, credentials, handoff, theDevices>>
    BY <1>3, Zenon DEF Heartbeat
  <2> QED BY ZenonT(30), <1>2, <2>1, PutKeeps
<1>4. CASE Offer
  <2>1. PICK d \in Devices, a \in Addresses, s \in PairingSessions \cup {NoSession},
             minimal \in BOOLEAN :
          /\ Put(d, [state |-> IF endpoints[d].state = "none" THEN "idle" ELSE endpoints[d].state,
                     seen |-> "fresh", ip |-> a, device |-> d,
                     session |-> IF s = NoSession THEN endpoints[d].session ELSE s,
                     minimal |-> minimal, audience |-> "general"])
          /\ UNCHANGED <<pairings, access, credentials, handoff, theDevices>>
    BY <1>4 DEF Offer
  <2>2. [state |-> IF endpoints[d].state = "none" THEN "idle" ELSE endpoints[d].state,
         seen |-> "fresh", ip |-> a, device |-> d,
         session |-> IF s = NoSession THEN endpoints[d].session ELSE s,
         minimal |-> minimal, audience |-> "general"] \in EndpointRecords
    BY <1>1 DEF EndpointRecords
  <2> QED BY <2>1, <2>2, PutKeeps
<1>5. CASE UpdateMetadata
  <2>1. PICK d \in Devices, mode \in {"general", "child_safe"} :
          /\ Put(d, [endpoints[d] EXCEPT !.audience = mode])
          /\ UNCHANGED <<pairings, access, credentials, handoff, theDevices>>
    BY <1>5 DEF UpdateMetadata
  <2>2. [endpoints[d] EXCEPT !.audience = mode] \in EndpointRecords
    BY <1>1 DEF EndpointRecords
  <2> QED BY <2>1, <2>2, PutKeeps
<1>6. CASE Delete
  <2>1. Unregistered \in EndpointRecords
    BY DEF EndpointRecords, Unregistered
  <2> QED BY <1>6, <2>1, PutKeeps DEF Delete
<1>7. CASE GrowOld
  <2>1. PICK d \in Devices :
          /\ Put(d, [endpoints[d] EXCEPT !.seen = "stale"])
          /\ UNCHANGED <<pairings, access, credentials, handoff, theDevices>>
    BY <1>7 DEF GrowOld
  <2>2. [endpoints[d] EXCEPT !.seen = "stale"] \in EndpointRecords
    BY <1>1 DEF EndpointRecords
  <2> QED BY <2>1, <2>2, PutKeeps
<1> QED BY <1>3, <1>4, <1>5, <1>6, <1>7

(* What the sessions' steps keep.                                          *)
LEMMA PairKeeps ==
  ASSUME PairingInv, NEW s \in PairingSessions,
         NEW p \in [status : PairingStatuses, approved : Devices \cup {NoDevice},
                    identity : Identities],
         Pair(s, p),
         handoff[s] # NoHandoff =>
           /\ p.approved = pairings[s].approved
           /\ p.status \in {"approved", "consumed", "expired", "canceled"}
  PROVE  PairingInv'
<1>1. PairingTypes'
  BY DEF PairingInv, PairingTypes, Pair, access, theDevices
<1> QED
  BY <1>1 DEF PairingInv, PairingTypes, LeasesAreReturned, CallsHoldALease, KeysAreOfTheAsked,
              ApprovalsAreFinal, Free, Pair, access, theDevices

LEMMA SessionsKeep ==
  ASSUME PairingInv, StartPairing \/ IdentityIsRead \/ ApprovePairing \/ EndPairing
  PROVE  PairingInv'
<1>1. \A s \in PairingSessions :
        /\ pairings[s] \in [status : PairingStatuses, approved : Devices \cup {NoDevice},
                             identity : Identities]
        /\ handoff[s] # NoHandoff =>
             pairings[s].status \in {"approved", "consumed", "expired", "canceled"}
  BY DEF PairingInv, PairingTypes, ApprovalsAreFinal
<1>2. CASE StartPairing
  BY <1>1, <1>2, PairKeeps DEF StartPairing, PairingStatuses
<1>3. CASE IdentityIsRead
  <2>1. PICK s \in PairingSessions, d \in Devices :
          /\ pairings[s].status \in {"waiting", "found", "approved"}
          /\ Pair(s, [pairings[s] EXCEPT !.identity = [device |-> d, nonce |-> nonces[d]],
                        !.status = IF @ = "waiting" THEN "found" ELSE @])
    BY <1>3 DEF IdentityIsRead
  <2>2. [device |-> d, nonce |-> nonces[d]] \in Identities
    BY DEF PairingInv, PairingTypes, Identities
  <2> QED BY <1>1, <2>1, <2>2, PairKeeps DEF PairingStatuses
<1>4. CASE ApprovePairing
  BY <1>1, <1>4, PairKeeps DEF ApprovePairing, PairingStatuses
<1>5. CASE EndPairing
  <2>1. PICK s \in PairingSessions, status \in {"consumed", "expired", "canceled"} :
          Pair(s, [pairings[s] EXCEPT !.status = status])
    BY <1>5 DEF EndPairing
  <2> QED BY <1>1, <2>1, PairKeeps DEF PairingStatuses
<1> QED BY <1>2, <1>3, <1>4, <1>5

LEMMA SavedIs ==
  ASSUME PairingTypes, NEW ssid \in Networks, NEW password \in Networks \cup {NoNetwork}
  PROVE  /\ Saved(ssid, password) \in
              [ssid : Networks \cup {NoNetwork}, password : Networks \cup {NoNetwork}]
         /\ SavedPassword(ssid) \in Networks \cup {NoNetwork}
BY DEF PairingTypes, Saved, SavedPassword

(* A request is granted a lease, when no other is out, or is not.          *)
LEMMA AccessKeeps ==
  ASSUME PairingInv, NEW j, RequestAccess(j),
         j \in [kind : {"scan", "identity", "provision"}, device : Devices \cup {NoDevice},
                key : Identities, lease : 0 .. MaxLeases, password : Networks \cup {NoNetwork}],
         j.kind = "provision" => j.key.device = j.device /\ j.device \in Devices,
         credentials' \in [ssid : Networks \cup {NoNetwork},
                           password : Networks \cup {NoNetwork}]
  PROVE  PairingInv'
<1> USE DEF PairingInv
<1>1. leases = {} /\ Free
  BY DEF RequestAccess, LeasesAreReturned
<1>2. CASE UNCHANGED <<job, leases>>
  <2>1. PairingTypes'
    BY <1>2 DEF RequestAccess, PairingTypes, theDevices
  <2> QED BY <1>2, <2>1 DEF RequestAccess, LeasesAreReturned, CallsHoldALease, KeysAreOfTheAsked,
                            ApprovalsAreFinal, Free, theDevices
<1>3. CASE leases \cup stray # 1 .. MaxLeases /\ Granted(j)
  <2> DEFINE l == CHOOSE l \in 1 .. MaxLeases : l \notin leases \cup stray
  <2>1. \E x \in 1 .. MaxLeases : x \notin leases \cup stray
    BY <1>3 DEF PairingTypes
  <2>2. l \in 1 .. MaxLeases
    BY <2>1
  <2>3. job' = [j EXCEPT !.lease = l] /\ leases' = leases \cup {l}
    BY <1>3 DEF Granted
  <2> HIDE DEF l
  <2>4. /\ job' \in [kind : {"scan", "identity", "provision"}, device : Devices \cup {NoDevice},
                      key : Identities, lease : 0 .. MaxLeases,
                      password : Networks \cup {NoNetwork}]
        /\ job'.kind = j.kind /\ job'.key = j.key /\ job'.device = j.device /\ job'.lease = l
    BY <2>2, <2>3, PairingAssumption
  <2>5. PairingTypes'
    BY <2>2, <2>3, <2>4 DEF RequestAccess, PairingTypes, theDevices
  <2>6. LeasesAreReturned'
    BY <1>1, <2>3, <2>4 DEF LeasesAreReturned, Free
  <2>7. KeysAreOfTheAsked'
    BY <2>4 DEF KeysAreOfTheAsked
  <2>8. CallsHoldALease'
    BY <2>2, <2>4 DEF CallsHoldALease
  <2> QED BY <2>5, <2>6, <2>7, <2>8 DEF RequestAccess, ApprovalsAreFinal
<1> QED BY <1>2, <1>3 DEF RequestAccess

LEMMA FreshKeyIs ==
  ASSUME PairingTypes, NEW s \in PairingSessions, NEW given \in Identities
  PROVE  FreshKey(s, given) \in Identities /\ FreshKey(s, given).device = given.device
BY DEF PairingTypes, FreshKey

LEMMA JobsKeep ==
  ASSUME PairingInv, SaveCredentials \/ Scan \/ ReadIdentity \/ ProvisionWifi
  PROVE  PairingInv'
<1> USE DEF PairingInv
<1>1. CASE SaveCredentials
  <2>1. /\ credentials' \in [ssid : Networks \cup {NoNetwork},
                              password : Networks \cup {NoNetwork}]
        /\ UNCHANGED <<endpoints, pairings, access, handoff, theDevices>>
    BY <1>1, SavedIs DEF SaveCredentials
  <2>2. PairingTypes'
    BY <2>1 DEF PairingTypes, access, theDevices
  <2> QED BY <2>1, <2>2 DEF LeasesAreReturned, CallsHoldALease, KeysAreOfTheAsked,
             ApprovalsAreFinal, Free,
                            access, theDevices
<1>2. ASSUME NEW k \in {"scan", "identity"}
      PROVE  /\ [NoJob EXCEPT !.kind = k] \in
                  [kind : {"scan", "identity", "provision"}, device : Devices \cup {NoDevice},
                   key : Identities, lease : 0 .. MaxLeases, password : Networks \cup {NoNetwork}]
             /\ [NoJob EXCEPT !.kind = k].kind = k
  BY PairingAssumption DEF NoJob, NoIdentity, Identities
<1>3. credentials \in [ssid : Networks \cup {NoNetwork}, password : Networks \cup {NoNetwork}]
  BY DEF PairingTypes
<1>4. CASE Scan
  BY <1>2, <1>3, <1>4, AccessKeeps DEF Scan
<1>5. CASE ReadIdentity
  BY <1>2, <1>3, <1>5, AccessKeeps DEF ReadIdentity
<1>6. CASE ProvisionWifi
  <2>1. PICK s \in PairingSessions, d \in Devices, n \in 1 .. MaxOffers, ssid \in Networks,
             password \in Networks \cup {NoNetwork}, save \in BOOLEAN :
          /\ credentials' = IF save THEN Saved(ssid, password) ELSE credentials
          /\ RequestAccess([kind |-> "provision", device |-> d,
               key |-> FreshKey(s, [device |-> d, nonce |-> n]), lease |-> 0,
               password |-> IF password = NoNetwork THEN SavedPassword(ssid) ELSE password])
    BY <1>6 DEF ProvisionWifi
  <2>2. [device |-> d, nonce |-> n] \in Identities
    BY DEF Identities
  <2>3. /\ FreshKey(s, [device |-> d, nonce |-> n]) \in Identities
        /\ FreshKey(s, [device |-> d, nonce |-> n]).device = d
    BY <2>2, FreshKeyIs
  <2>4. /\ credentials' \in [ssid : Networks \cup {NoNetwork},
                              password : Networks \cup {NoNetwork}]
        /\ (IF password = NoNetwork THEN SavedPassword(ssid) ELSE password)
             \in Networks \cup {NoNetwork}
    BY <1>3, <2>1, SavedIs
  <2> QED BY <2>1, <2>3, <2>4, AccessKeeps, PairingAssumption
<1> QED BY <1>1, <1>4, <1>5, <1>6

(* What a call under way does, and its end.                                *)
LEMMA CallsKeep ==
  ASSUME PairingInv, SupervisorCall \/ ReleaseLease \/ StrayExpires
  PROVE  PairingInv'
<1> USE DEF PairingInv
<1>1. CASE SupervisorCall
  <2>1. /\ job.key.device \in Devices /\ job' = [job EXCEPT !.kind = "done"]
        /\ wifi' \in [Devices -> Networks \cup {NoNetwork}]
        /\ UNCHANGED <<endpoints, pairings, leases, stray, credentials, handoff, nonces>>
    BY <1>1 DEF SupervisorCall, PairingTypes, KeysAreOfTheAsked
  <2>2. /\ job' \in [kind : {"done"}, device : Devices \cup {NoDevice}, key : Identities,
                      lease : 0 .. MaxLeases, password : Networks \cup {NoNetwork}]
        /\ job'.key = job.key /\ job'.device = job.device /\ job'.lease = job.lease
    BY <2>1 DEF PairingTypes
  <2>3. PairingTypes'
    BY <2>1, <2>2 DEF PairingTypes
  <2> QED BY <1>1, <2>1, <2>2, <2>3 DEF SupervisorCall, LeasesAreReturned, CallsHoldALease,
             KeysAreOfTheAsked,
                                        ApprovalsAreFinal, Free
<1>2. CASE ReleaseLease
  <2>1. /\ job' = NoJob /\ leases' = {} /\ job.lease \in 1 .. MaxLeases
        /\ stray' \in {stray, stray \cup {job.lease}}
        /\ UNCHANGED <<endpoints, pairings, credentials, handoff, nonces, wifi>>
    BY <1>2 DEF ReleaseLease, LeasesAreReturned, CallsHoldALease, theDevices
  <2>2. NoJob \in [kind : {"none"}, device : Devices \cup {NoDevice}, key : Identities,
                   lease : 0 .. MaxLeases, password : Networks \cup {NoNetwork}]
    BY PairingAssumption DEF NoJob, NoIdentity, Identities
  <2>3. PairingTypes'
    BY <2>1, <2>2 DEF PairingTypes
  <2> QED BY <2>1, <2>2, <2>3 DEF LeasesAreReturned, CallsHoldALease, KeysAreOfTheAsked,
                                  ApprovalsAreFinal, Free
<1>3. CASE StrayExpires
  <2>1. PairingTypes'
    BY <1>3 DEF StrayExpires, PairingTypes, theDevices
  <2> QED BY <1>3, <2>1 DEF StrayExpires, LeasesAreReturned, CallsHoldALease, KeysAreOfTheAsked,
                            ApprovalsAreFinal, Free
<1> QED BY <1>1, <1>2, <1>3

LEMMA HandoffsKeep ==
  ASSUME PairingInv, BeginHandoff \/ FinishHandoff \/ OffersAgain \/ Moves
  PROVE  PairingInv'
<1> USE DEF PairingInv
<1>1. CASE BeginHandoff
  <2>1. PICK s \in PairingSessions :
          /\ pairings[s].status = "approved" /\ pairings[s].approved = pairings[s].identity.device
          /\ handoff' = [handoff EXCEPT ![s] =
               [device |-> pairings[s].identity.device,
                address |-> endpoints[pairings[s].identity.device].ip]]
          /\ UNCHANGED <<endpoints, pairings, access, credentials, theDevices>>
    BY <1>1 DEF BeginHandoff, Approved
  <2>2. PairingTypes' /\ ApprovalsAreFinal'
    BY <2>1 DEF PairingTypes, ApprovalsAreFinal, access, theDevices
  <2> QED BY <2>1, <2>2 DEF LeasesAreReturned, CallsHoldALease, KeysAreOfTheAsked, Free, access
<1>2. CASE FinishHandoff
  <2>1. PairingTypes' /\ ApprovalsAreFinal'
    BY <1>2 DEF FinishHandoff, PairingTypes, ApprovalsAreFinal, access, theDevices
  <2> QED BY <1>2, <2>1 DEF FinishHandoff, LeasesAreReturned, CallsHoldALease,
                            KeysAreOfTheAsked, Free, access
<1>3. CASE OffersAgain \/ Moves
  <2>1. nonces' \in [Devices -> 1 .. MaxOffers]
    BY <1>3, PairingAssumption DEF OffersAgain, Moves, PairingTypes
  <2>2. PairingTypes'
    BY <1>3, <2>1 DEF OffersAgain, Moves, PairingTypes, access
  <2> QED BY <1>3, <2>2 DEF OffersAgain, Moves, LeasesAreReturned, CallsHoldALease,
                            KeysAreOfTheAsked, ApprovalsAreFinal, Free, access
<1> QED BY <1>1, <1>2, <1>3

LEMMA PairingFrame == PairingInv /\ UNCHANGED pvars => PairingInv'
BY DEF PairingInv, PairingTypes, LeasesAreReturned, CallsHoldALease, KeysAreOfTheAsked,
       ApprovalsAreFinal, Free, pvars

LEMMA PairingStep == PairingInv /\ [PairingNext]_pvars => PairingInv'
<1> SUFFICES ASSUME PairingInv, [PairingNext]_pvars PROVE PairingInv'
  OBVIOUS
<1> QED
  BY RegistryKeeps, SessionsKeep, JobsKeep, CallsKeep, HandoffsKeep, PairingFrame
     DEF PairingNext

LEMMA PairingShows ==
  PairingInv => PairingTypeOK /\ LeasesAreReturned /\ SentToTheOneAsked /\ InstallsWereApproved
<1>1. PairingTypes => PairingTypeOK
  BY PairingAssumption DEF PairingTypes, PairingTypeOK, EndpointRecords, Identities
<1> QED BY <1>1 DEF PairingInv, KeysAreOfTheAsked, ApprovalsAreFinal, SentToTheOneAsked,
                    InstallsWereApproved

(* ble_onboarding.py, main.py: whatever way a call to the adapter ends its *)
(* lease is given back, credentials go to the device the operator asked    *)
(* for, and firmware to one approved in its session, though Core, the      *)
(* supervisors and the devices move while a call runs.                     *)
THEOREM AccessIsGivenBack ==
  PairingSpec => [](LeasesAreReturned /\ SentToTheOneAsked /\ InstallsWereApproved)
<1>1. PairingInv => LeasesAreReturned /\ SentToTheOneAsked /\ InstallsWereApproved
  BY PairingShows
<1> QED BY <1>1, PairingInitInv, PairingStep, PTL DEF PairingSpec

-----------------------------------------------------------------------------
(* Intents.  What any of the writers holds of the registry, in memory, on  *)
(* the disk or on its way there, is a list of distinct intents with the    *)
(* built-in ones first.                                                    *)
IntentRecord ==
  [id : Ids, status : IntentStates, policy : {"required", "not_required", "use_if_ready"}, uses : 0 .. MaxUses]

ListSound(state) ==
  /\ state \in Seq(IntentRecord)
  /\ \A n \in DOMAIN Builtins : n \in DOMAIN state /\ state[n].id = Builtins[n]
  /\ \A m, n \in DOMAIN state : m # n => state[m].id # state[n].id

WriteRecord ==
  [pc : {"idle", "replace", "dump", "store", "adopt"}, record : IntentRecord \cup {NoRecord}, copy : Seq(IntentRecord)]

WriteSound(write) ==
  /\ write.pc = "replace" => write.record \in IntentRecord
  /\ write.pc \in {"store", "adopt"} => ListSound(write.copy)

IntentsInv ==
  /\ ListSound(registered) /\ ListSound(stored)
  /\ writing \in [Writers -> WriteRecord] /\ \A w \in Writers : WriteSound(writing[w])
  /\ match \in [Turns -> Ids \cup {NoIntentId}]

\* The record of an intent the list has.
LEMMA RecordIs ==
  ASSUME NEW state, ListSound(state), NEW i, Has(state, i)
  PROVE  RecordOf(state, i) \in IntentRecord /\ RecordOf(state, i).id = i
<1>1. \E n \in DOMAIN state : state[n].id = i
  BY DEF Has
<1>2. PICK n \in DOMAIN state : RecordOf(state, i) = state[n] /\ state[n].id = i
  BY <1>1 DEF RecordOf, Has
<1> QED BY <1>2 DEF ListSound

\* Replacing a record, and adding one, leave a list.
LEMMA ReplacedIs ==
  ASSUME NEW state, ListSound(state), NEW r \in IntentRecord
  PROVE  ListSound(Replaced(state, r))
<1>1. state \in Seq(IntentRecord) /\ DOMAIN state = 1 .. Len(state) /\ Len(state) \in Nat
  BY DEF ListSound
<1>2. Replaced(state, r) = [n \in 1 .. Len(state) |-> IF state[n].id = r.id THEN r ELSE state[n]]
  BY <1>1 DEF Replaced
<1>3. \A n \in 1 .. Len(state) : state[n] \in IntentRecord
  BY <1>1
<1>4. Replaced(state, r) \in Seq(IntentRecord) /\ DOMAIN Replaced(state, r) = DOMAIN state
  BY <1>1, <1>2, <1>3
<1>5. \A n \in DOMAIN state : Replaced(state, r)[n].id = state[n].id
  BY <1>1, <1>2
<1> QED BY <1>4, <1>5 DEF ListSound

LEMMA AddedIs ==
  ASSUME NEW state, ListSound(state), NEW r \in IntentRecord, ~ Has(state, r.id)
  PROVE  ListSound(Append(state, r))
<1>1. state \in Seq(IntentRecord) /\ DOMAIN state = 1 .. Len(state) /\ Len(state) \in Nat
  BY DEF ListSound
<1>2. /\ Append(state, r) \in Seq(IntentRecord) /\ DOMAIN Append(state, r) = 1 .. Len(state) + 1
      /\ \A n \in DOMAIN state : Append(state, r)[n] = state[n]
      /\ Append(state, r)[Len(state) + 1] = r
  BY <1>1
<1>3. \A n \in DOMAIN state : n \in DOMAIN Append(state, r) /\ state[n].id # r.id
  BY <1>1, <1>2 DEF Has
<1>4. \A n \in DOMAIN Append(state, r) : n \in DOMAIN state \/ n = Len(state) + 1
  BY <1>1, <1>2
<1> QED BY <1>2, <1>3, <1>4 DEF ListSound

LEMMA CreatedIs == ListSound(Created)
<1>1. /\ Builtins \in Seq(Ids) /\ DOMAIN Builtins = 1 .. Len(Builtins) /\ Len(Builtins) \in Nat
      /\ \A m, n \in DOMAIN Builtins : m # n => Builtins[m] # Builtins[n]
  BY RegistryAssumption
<1>2. \A i \in Ids : Builtin(i) \in IntentRecord /\ Builtin(i).id = i
  BY RegistryAssumption DEF Builtin, IntentRecord, IntentStates
<1>3. Created = [n \in 1 .. Len(Builtins) |-> Builtin(Builtins[n])]
  BY <1>1 DEF Created
<1>4. \A n \in 1 .. Len(Builtins) : Builtins[n] \in Ids
  BY <1>1
<1>5. \A n \in 1 .. Len(Builtins) : Created[n] = Builtin(Builtins[n])
  BY <1>3
<1>6. Created \in Seq(IntentRecord) /\ DOMAIN Created = 1 .. Len(Builtins)
  BY <1>1, <1>2, <1>3, <1>4
<1> QED BY <1>1, <1>2, <1>4, <1>5, <1>6 DEF ListSound

LEMMA IntentsInitInv ==
  ASSUME RegistryInit PROVE IntentsInv
<1>1. AtRest \in WriteRecord /\ WriteSound(AtRest)
  BY DEF AtRest, WriteRecord, WriteSound
<1> QED BY <1>1, CreatedIs DEF RegistryInit, IntentsInv

\* A write goes on.
LEMMA WritePut ==
  ASSUME IntentsInv, NEW w \in Writers, NEW write, write \in WriteRecord, WriteSound(write),
         writing' = [writing EXCEPT ![w] = write]
  PROVE  writing' \in [Writers -> WriteRecord] /\ \A v \in Writers : WriteSound(writing'[v])
<1>1. \A v \in Writers : writing'[v] = IF v = w THEN write ELSE writing[v]
  BY DEF IntentsInv
<1> QED BY <1>1 DEF IntentsInv

LEMMA BeginIs ==
  ASSUME IntentsInv, NEW w \in Writers, NEW r \in IntentRecord, Begin(w, r)
  PROVE  writing' \in [Writers -> WriteRecord] /\ \A v \in Writers : WriteSound(writing'[v])
<1> DEFINE write == [AtRest EXCEPT !.pc = "replace", !.record = r]
<1>1. AtRest \in WriteRecord
  BY DEF AtRest, WriteRecord
<1>2. write \in WriteRecord /\ WriteSound(write)
  BY <1>1 DEF WriteRecord, WriteSound
<1>3. writing' = [writing EXCEPT ![w] = write]
  BY DEF Begin
<1> HIDE DEF write
<1> QED BY <1>2, <1>3, WritePut

LEMMA ReplaceKeeps ==
  ASSUME IntentsInv, NEW w \in Writers, Replace(w) PROVE IntentsInv'
<1> DEFINE r == writing[w].record
           write == [writing[w] EXCEPT !.pc = "dump"]
<1>1. /\ writing[w].pc = "replace" /\ UNCHANGED <<stored, match>>
      /\ registered' = IF Has(registered, r.id) THEN Replaced(registered, r)
                       ELSE IF w = Loop THEN Append(registered, r) ELSE registered
      /\ writing' = [writing EXCEPT ![w] = write]
  BY DEF Replace
<1>2. writing[w] \in WriteRecord /\ r \in IntentRecord
  BY <1>1 DEF IntentsInv, WriteSound
<1>3. ListSound(registered')
  BY <1>1, <1>2, ReplacedIs, AddedIs DEF IntentsInv
<1>4. write \in WriteRecord /\ WriteSound(write)
  BY <1>2 DEF WriteRecord, WriteSound
<1> HIDE DEF r, write
<1> QED BY <1>1, <1>3, <1>4, WritePut DEF IntentsInv

LEMMA SaveKeeps ==
  ASSUME IntentsInv, NEW w \in Writers, Dump(w) \/ StoreRecords(w) \/ Adopt(w) PROVE IntentsInv'
<1> DEFINE dumped == [writing[w] EXCEPT !.pc = "store", !.copy = registered]
           kept == [writing[w] EXCEPT !.pc = "adopt"]
<1>1. writing[w] \in WriteRecord /\ WriteSound(writing[w])
  BY DEF IntentsInv
<1>2. AtRest \in WriteRecord /\ WriteSound(AtRest)
  BY DEF AtRest, WriteRecord, WriteSound
<1>3. CASE Dump(w)
  <2>1. writing' = [writing EXCEPT ![w] = dumped] /\ UNCHANGED <<registered, stored, match>>
    BY <1>3 DEF Dump
  <2>2. dumped \in WriteRecord /\ WriteSound(dumped)
    BY <1>1 DEF WriteRecord, WriteSound, IntentsInv, ListSound
  <2> HIDE DEF dumped
  <2> QED BY <2>1, <2>2, WritePut DEF IntentsInv
<1>4. CASE StoreRecords(w)
  <2>1. /\ writing[w].pc = "store" /\ UNCHANGED <<registered, match>>
        /\ \/ stored' = writing[w].copy /\ writing' = [writing EXCEPT ![w] = kept]
           \/ UNCHANGED stored /\ writing' = [writing EXCEPT ![w] = AtRest]
    BY <1>4 DEF StoreRecords
  <2>2. kept \in WriteRecord /\ WriteSound(kept)
    BY <1>1, <2>1 DEF WriteRecord, WriteSound
  <2>3. ListSound(stored')
    BY <1>1, <2>1 DEF WriteSound, IntentsInv
  <2> HIDE DEF kept
  <2> QED BY <1>2, <2>1, <2>2, <2>3, WritePut DEF IntentsInv
<1>5. CASE Adopt(w)
  <2>1. /\ writing[w].pc = "adopt" /\ registered' = writing[w].copy
        /\ writing' = [writing EXCEPT ![w] = AtRest] /\ UNCHANGED <<stored, match>>
    BY <1>5 DEF Adopt
  <2>2. ListSound(registered')
    BY <1>1, <2>1 DEF WriteSound
  <2> QED BY <1>2, <2>1, <2>2, WritePut DEF IntentsInv
<1> QED BY <1>3, <1>4, <1>5

LEMMA ApiKeeps ==
  ASSUME IntentsInv, RegisterIntent \/ UpdateIntent \/ TransitionIntent \/ ReviewIntent \/ SyncAdmin
  PROVE  IntentsInv'
<1> USE DEF IntentsInv
<1>0. Loop \in Writers
  BY DEF Writers
<1>1. CASE RegisterIntent
  <2>1. PICK i \in Ids, status \in IntentStates, policy \in {"required", "use_if_ready"} :
          /\ Begin(Loop, [id |-> i, status |-> status, policy |-> policy, uses |-> 0])
          /\ UNCHANGED <<registered, stored, match>>
    BY <1>1 DEF RegisterIntent
  <2>2. [id |-> i, status |-> status, policy |-> policy, uses |-> 0] \in IntentRecord
    BY RegistryAssumption DEF IntentRecord
  <2> QED BY <1>0, <2>1, <2>2, BeginIs
<1>2. CASE UpdateIntent
  <2>1. PICK i \in Ids, policy \in {"required", "use_if_ready"} :
          /\ Has(registered, i) /\ Begin(Loop, [RecordOf(registered, i) EXCEPT !.policy = policy])
          /\ UNCHANGED <<registered, stored, match>>
    BY <1>2 DEF UpdateIntent
  <2>2. [RecordOf(registered, i) EXCEPT !.policy = policy] \in IntentRecord
    BY <2>1, RecordIs DEF IntentRecord
  <2> QED BY <1>0, <2>1, <2>2, BeginIs
<1>3. ASSUME NEW i, NEW status \in IntentStates, Decide(i, status) PROVE IntentsInv'
  <2>1. /\ Has(registered, i) /\ Begin(Loop, [RecordOf(registered, i) EXCEPT !.status = status])
        /\ UNCHANGED <<registered, stored, match>>
    BY <1>3 DEF Decide
  <2>2. [RecordOf(registered, i) EXCEPT !.status = status] \in IntentRecord
    BY <2>1, RecordIs DEF IntentRecord
  <2> QED BY <1>0, <2>1, <2>2, BeginIs
<1>4. CASE TransitionIntent \/ ReviewIntent \/ SyncAdmin
  <2>1. \E i, status : Decide(i, status) /\ status \in IntentStates
    <3>1. ASSUME NEW i, Decide(i, RecordOf(registered, i).status) PROVE RecordOf(registered, i).status \in IntentStates
      BY <3>1, RecordIs DEF Decide, IntentRecord
    <3> QED BY <1>4, <3>1 DEF TransitionIntent, ReviewIntent, SyncAdmin, IntentStates
  <2> QED BY <1>3, <2>1
<1> QED BY <1>1, <1>2, <1>4

LEMMA FindKeeps ==
  ASSUME IntentsInv, NEW t \in Turns, FindText(t) \/ FindNamed(t) PROVE IntentsInv'
<1>1. UNCHANGED <<registered, stored, writing>> /\ \E i \in Ids \cup {NoIntentId} : match' = [match EXCEPT ![t] = i]
  <2>1. ASSUME NEW P \in SUBSET Ids PROVE FirstMatch(P) \in Ids \cup {NoIntentId}
    <3> DEFINE places == {n \in ActivePlaces : registered[n].id \in P}
    <3>1. FirstMatch(P) = IF places = {} THEN NoIntentId
                          ELSE registered[CHOOSE n \in places : \A m \in places : n <= m].id
      BY Zenon DEF FirstMatch
    <3>2. registered \in Seq(IntentRecord)
      BY DEF IntentsInv, ListSound
    <3>3. places \subseteq Nat /\ \A n \in places : registered[n].id \in Ids
      BY <3>2 DEF ActivePlaces
    <3> HIDE DEF places
    <3>4. places # {} => \E n \in places : \A m \in places : n <= m
      BY <3>3, LeastIs
    <3> QED BY <3>1, <3>3, <3>4
  <2>2. FindText(t) => UNCHANGED <<registered, stored, writing>> /\ \E P \in SUBSET Ids : match' = [match EXCEPT ![t] = FirstMatch(P)]
    <3>1. \A fits, short, pending, slot : {i \in Ids : Fits(i, fits, short, pending, slot)} \in SUBSET Ids
      OBVIOUS
    <3> QED BY <3>1, Zenon DEF FindText
  <2> QED BY <2>1, <2>2 DEF FindNamed
<1> QED BY <1>1 DEF IntentsInv

LEMMA CountKeeps ==
  ASSUME IntentsInv, NEW t \in Turns, CountMatch(t) PROVE IntentsInv'
<1> USE DEF IntentsInv
<1> DEFINE r == RecordOf(registered, match[t])
           counted == [r EXCEPT !.uses = r.uses + 1]
<1>1. /\ Has(registered, match[t]) /\ r.uses < MaxUses /\ Begin(t, counted)
      /\ match' = [match EXCEPT ![t] = NoIntentId] /\ UNCHANGED <<registered, stored>>
  BY DEF CountMatch
<1>2. r \in IntentRecord
  BY <1>1, RecordIs
<1> HIDE DEF r
<1>3. counted \in IntentRecord
  BY <1>1, <1>2, RegistryAssumption DEF IntentRecord
<1>4. t \in Writers
  BY DEF Writers
<1> HIDE DEF counted
<1> QED BY <1>1, <1>3, <1>4, BeginIs

LEMMA RestartKeeps ==
  ASSUME IntentsInv, RestartRegistry PROVE IntentsInv'
<1>1. AtRest \in WriteRecord /\ WriteSound(AtRest)
  BY DEF AtRest, WriteRecord, WriteSound
<1> QED BY <1>1 DEF RestartRegistry, IntentsInv

LEMMA IntentsFrame ==
  ASSUME IntentsInv, UNCHANGED gvars PROVE IntentsInv'
BY DEF IntentsInv, gvars

LEMMA IntentsStep ==
  ASSUME IntentsInv, RegistryNext PROVE IntentsInv'
BY ReplaceKeeps, SaveKeeps, ApiKeeps, FindKeeps, CountKeeps, RestartKeeps DEF RegistryNext

LEMMA IntentsShow ==
  ASSUME IntentsInv PROVE RegistryTypeOK /\ BuiltinsComeFirst
<1>1. \A n \in DOMAIN registered : registered[n].id \in Ids /\ registered[n].uses \in 0 .. MaxUses
  <2>1. \A n \in DOMAIN registered : registered[n] \in IntentRecord
    BY DEF IntentsInv, ListSound
  <2> QED BY <2>1 DEF IntentRecord
<1>2. RegistryTypeOK
  BY <1>1 DEF IntentsInv, RegistryTypeOK, WriteRecord
<1>3. BuiltinsComeFirst
  BY DEF IntentsInv, ListSound, BuiltinsComeFirst
<1> QED BY <1>2, <1>3

(* assistant/intent_registry.py: the built-in intents stay in the list, in *)
(* front of the operator's and in their order, whatever is created,        *)
(* changed, counted and saved by threads that read an older list.          *)
THEOREM BuiltinsStayFirst ==
  RegistrySpec => [](RegistryTypeOK /\ BuiltinsComeFirst)
<1>1. RegistryInit => IntentsInv
  BY IntentsInitInv
<1>2. IntentsInv /\ [RegistryNext]_gvars => IntentsInv'
  BY IntentsStep, IntentsFrame
<1>3. IntentsInv => RegistryTypeOK /\ BuiltinsComeFirst
  BY IntentsShow
<1> QED BY <1>1, <1>2, <1>3, PTL DEF RegistrySpec

-----------------------------------------------------------------------------
(* Media.  A name in the library, on its way or on a card is one the       *)
(* endpoint can read; what is checked is what was asked.                   *)
Readable == {n \in AllNames : n.ext \notin Converted}
MediaEntry == {NoEntry} \cup [name : Readable, take : MediaTakes]
Contents == MediaTakes \cup {Missing}
Manifest == [MediaAssets -> MediaEntry]

UploadRecord ==
  [at : {"loaded", "written", "replaced"}, asset : MediaAssets, name : Readable, take : MediaTakes, copy : Manifest]

TransferRecord ==
  [asset : MediaAssets, name : Readable, take : MediaTakes, overwrite : BOOLEAN, to : Panels,
   got : Contents, at : {"queued", "checking", "removed"}]

AskedFor(p, n, take, requested) ==
  \E i \in DOMAIN requested : requested[i].to = p /\ requested[i].name = n /\ requested[i].take = take

QueueSound(p, queue, requested) ==
  /\ queue \in Seq(TransferRecord) /\ Len(queue) <= QueueDepth + 1
  /\ \A i \in DOMAIN queue :
       /\ AskedFor(p, queue[i].name, queue[i].take, requested)
       /\ queue[i].at = "removed" => queue[i].got = queue[i].take

CardSound(p, card, requested) ==
  /\ card \in [AllNames -> Contents]
  /\ \A n \in AllNames : card[n] # Missing => n \in Readable /\ AskedFor(p, n, card[n], requested)

DeliveryInv ==
  /\ asked \in Seq(TransferRecord)
  /\ DOMAIN queued = Panels /\ queued = [p \in Panels |-> queued[p]]
  /\ \A p \in Panels : QueueSound(p, queued[p], asked)
  /\ cards \in [Panels -> [AllNames -> Contents]]
  /\ \A p \in Panels : CardSound(p, cards[p], asked)

LibraryTypes ==
  /\ library \in Manifest /\ overlapped \in BOOLEAN
  /\ payloads \in [MediaAssets -> [AllNames -> Contents]] /\ temps \in [MediaAssets -> [AllNames -> Contents]]
  /\ uploads \in [Uploaders -> {NoUpload} \cup UploadRecord]

(* One writer at a time works on the manifest it will replace, and moves   *)
(* its own content.                                                        *)
AloneInv ==
  ~ overlapped =>
    /\ \A u, v \in Working : u = v
    /\ \A u \in Working :
         LET up == uploads[u] IN
         /\ up.copy = library
         /\ up.at = "written" => temps[up.asset][up.name] = up.take
         /\ up.at = "replaced" => payloads[up.asset][up.name] = up.take
    /\ \A a \in MediaAssets :
         library[a] # NoEntry =>
           \/ payloads[a][library[a].name] = library[a].take
           \/ \E u \in Working : uploads[u].asset = a /\ uploads[u].at = "replaced"

MediaInv == LibraryTypes /\ AloneInv /\ DeliveryInv

LEMMA BeepIs == BeepName \in Readable /\ BeepTake \in MediaTakes /\ Missing \notin MediaTakes
BY MediaAssumption DEF BeepName, Readable, AllNames, Converted, BeepTake, Missing

LEMMA EntryIs ==
  ASSUME NEW e, e \in MediaEntry
  PROVE  /\ e.name \in Readable /\ e.name \in AllNames
         /\ e # NoEntry => e \in [name : Readable, take : MediaTakes] /\ e.take \in MediaTakes
<1>1. NoEntry.name = BeepName BY DEF NoEntry
<1> QED BY <1>1, BeepIs DEF MediaEntry, Readable

LEMMA PreparedIs ==
  ASSUME NEW f \in MediaFiles PROVE PreparedName(f) \in Readable
<1>1. PreparedName(f) \in AllNames BY DEF AllNames
<1>2. CASE f.ext \in Converted
  <2>1. PreparedName(f) = [f EXCEPT !.ext = "rgb565"] BY <1>2 DEF PreparedName
  <2>2. "ext" \in DOMAIN f BY MediaAssumption
  <2>3. PreparedName(f).ext = "rgb565" BY <2>1, <2>2
  <2> QED BY <1>1, <2>3 DEF Readable, Converted
<1>3. CASE f.ext \notin Converted
  BY <1>1, <1>3 DEF PreparedName, Readable
<1> QED BY <1>2, <1>3

LEMMA UploadIs ==
  ASSUME LibraryTypes, NEW u \in Uploaders
  PROVE  /\ u \in Working <=> uploads[u] \in UploadRecord
         /\ uploads[u] \in UploadRecord => uploads[u].at \in {"loaded", "written", "replaced"}
         /\ uploads[u].at # "idle" => u \in Working
         /\ u \notin Working => uploads[u] = NoUpload
<1>1. uploads[u] = NoUpload \/ uploads[u] \in UploadRecord
  BY DEF LibraryTypes
<1>2. NoUpload.at = "idle"
  BY DEF NoUpload
<1>3. uploads[u] \in UploadRecord => uploads[u].at \in {"loaded", "written", "replaced"}
  BY DEF UploadRecord
<1>4. NoUpload \notin UploadRecord
  BY <1>2 DEF UploadRecord
<1> QED BY <1>1, <1>2, <1>3, <1>4 DEF Working

LEMMA MediaInitInv ==
  ASSUME MediaInit PROVE MediaInv
<1>1. LibraryTypes
  BY DEF MediaInit, LibraryTypes, Manifest, MediaEntry, Contents
<1>2. Working = {}
  BY DEF MediaInit, Working, NoUpload
<1>3. AloneInv
  BY <1>2 DEF AloneInv, MediaInit
<1>4. DeliveryInv
  <2>1. asked = <<>> /\ asked \in Seq(TransferRecord)
    BY DEF MediaInit
  <2>2. \A p \in Panels : QueueSound(p, <<>>, asked)
    BY DEF QueueSound, QueueDepth
  <2>3. \A p \in Panels : cards[p] = [n \in AllNames |-> Missing]
    BY DEF MediaInit
  <2>4. \A p \in Panels : CardSound(p, cards[p], asked)
    BY <2>3 DEF CardSound, Contents
  <2>5. cards \in [Panels -> [AllNames -> Contents]]
    BY DEF MediaInit, Contents
  <2> QED BY <2>1, <2>2, <2>4, <2>5 DEF DeliveryInv, MediaInit
<1> QED BY <1>1, <1>3, <1>4 DEF MediaInv

\* What the library's steps leave of the deliveries, and conversely.
LEMMA DeliveryFrame ==
  ASSUME DeliveryInv, UNCHANGED <<cards, queued, asked>> PROVE DeliveryInv'
BY DEF DeliveryInv, QueueSound, CardSound, AskedFor

LEMMA LibraryFrame ==
  ASSUME LibraryTypes, AloneInv, UNCHANGED <<library, payloads, temps, uploads, overlapped>>
  PROVE  LibraryTypes' /\ AloneInv'
BY DEF LibraryTypes, AloneInv, Working

LEMMA LoadKeeps ==
  ASSUME LibraryTypes, AloneInv, NEW u \in Uploaders, NEW a \in MediaAssets, NEW n \in Readable,
         NEW t \in MediaTakes, LoadFor(u, a, n, t)
  PROVE  LibraryTypes' /\ AloneInv'
<1> DEFINE up == [at |-> "loaded", asset |-> a, name |-> n, take |-> t, copy |-> library]
<1>1. /\ uploads' = [uploads EXCEPT ![u] = up] /\ overlapped' = (overlapped \/ Working # {})
      /\ UNCHANGED <<library, payloads, temps>>
  BY DEF LoadFor
<1>2. up \in UploadRecord /\ up.at = "loaded" /\ up.copy = library
  BY DEF UploadRecord, LibraryTypes
<1> HIDE DEF up
<1>3. LibraryTypes'
  BY <1>1, <1>2 DEF LibraryTypes
<1>4. ASSUME ~ overlapped' PROVE Working' = {u} /\ uploads'[u] = up
  <2>1. Working = {} BY <1>1, <1>4
  <2>2. \A v \in Uploaders : uploads'[v] = IF v = u THEN up ELSE uploads[v]
    BY <1>1 DEF LibraryTypes
  <2> QED BY <1>2, <2>1, <2>2 DEF Working
<1>5. AloneInv'
  <2> SUFFICES ASSUME ~ overlapped' PROVE AloneInv'
    BY DEF AloneInv
  <2>1. ~ overlapped /\ Working = {} BY <1>1
  <2> QED BY <1>1, <1>2, <1>4, <2>1 DEF AloneInv
<1> QED BY <1>3, <1>5

LEMMA UploadKeeps ==
  ASSUME LibraryTypes, AloneInv, BeginUpload \/ EnsureBeepSound PROVE LibraryTypes' /\ AloneInv'
<1>1. CASE BeginUpload
  BY <1>1, PreparedIs, LoadKeeps DEF BeginUpload
<1>2. CASE EnsureBeepSound
  BY <1>2, BeepIs, LoadKeeps, MediaAssumption DEF EnsureBeepSound
<1> QED BY <1>1, <1>2

\* An upload goes on, or ends.
LEMMA UploadGoesOn ==
  ASSUME LibraryTypes, NEW u \in Working, NEW at, at \in {"written", "replaced"},
         uploads' = [uploads EXCEPT ![u].at = at]
  PROVE  /\ uploads' \in [Uploaders -> {NoUpload} \cup UploadRecord]
         /\ Working' = Working
         /\ \A v \in Uploaders \ {u} : uploads'[v] = uploads[v]
         /\ uploads'[u].at = at /\ uploads'[u].asset = uploads[u].asset /\ uploads'[u].name = uploads[u].name
         /\ uploads'[u].take = uploads[u].take /\ uploads'[u].copy = uploads[u].copy
<1> DEFINE up == [uploads[u] EXCEPT !.at = at]
<1>1. u \in Uploaders /\ uploads[u] \in UploadRecord
  BY UploadIs DEF Working
<1>2. /\ up \in UploadRecord /\ up.at = at /\ up.asset = uploads[u].asset /\ up.name = uploads[u].name
      /\ up.take = uploads[u].take /\ up.copy = uploads[u].copy
  BY <1>1 DEF UploadRecord
<1>3. uploads' = [uploads EXCEPT ![u] = up]
  OBVIOUS
<1> HIDE DEF up
<1>4. \A v \in Uploaders : uploads'[v] = IF v = u THEN up ELSE uploads[v]
  BY <1>1, <1>3 DEF LibraryTypes
<1>5. uploads' \in [Uploaders -> {NoUpload} \cup UploadRecord]
  BY <1>1, <1>2, <1>3 DEF LibraryTypes
<1>6. Working' = Working
  BY <1>1, <1>2, <1>4 DEF Working
<1> QED BY <1>1, <1>2, <1>4, <1>5, <1>6

LEMMA UploadEnds ==
  ASSUME LibraryTypes, NEW u \in Working, uploads' = [uploads EXCEPT ![u] = NoUpload]
  PROVE  /\ uploads' \in [Uploaders -> {NoUpload} \cup UploadRecord]
         /\ Working' = Working \ {u}
         /\ \A v \in Uploaders \ {u} : uploads'[v] = uploads[v]
<1>1. u \in Uploaders BY DEF Working
<1>2. \A v \in Uploaders : uploads'[v] = IF v = u THEN NoUpload ELSE uploads[v]
  BY <1>1 DEF LibraryTypes
<1>3. NoUpload.at = "idle" BY DEF NoUpload
<1>4. Working' = Working \ {u}
  BY <1>1, <1>2, <1>3 DEF Working
<1> QED BY <1>1, <1>2, <1>4 DEF LibraryTypes

LEMMA WriteTempKeeps ==
  ASSUME LibraryTypes, AloneInv, WriteTemp PROVE LibraryTypes' /\ AloneInv'
<1>1. PICK u \in Uploaders :
        /\ uploads[u].at = "loaded"
        /\ temps' = [temps EXCEPT ![uploads[u].asset][uploads[u].name] = uploads[u].take]
        /\ uploads' = [uploads EXCEPT ![u].at = "written"]
        /\ UNCHANGED <<library, payloads, overlapped>>
  BY DEF WriteTemp
<1>2. u \in Working /\ uploads[u] \in UploadRecord
  BY <1>1, UploadIs
<1> DEFINE a == uploads[u].asset
           n == uploads[u].name
           t == uploads[u].take
<1>3. a \in MediaAssets /\ n \in AllNames /\ t \in MediaTakes
  BY <1>2 DEF UploadRecord, Readable
<1>4. temps' = [temps EXCEPT ![a][n] = t] BY <1>1
<1>5. /\ uploads' \in [Uploaders -> {NoUpload} \cup UploadRecord]
      /\ Working' = Working
      /\ \A v \in Uploaders \ {u} : uploads'[v] = uploads[v]
      /\ uploads'[u].at = "written" /\ uploads'[u].asset = a /\ uploads'[u].name = n
      /\ uploads'[u].take = t /\ uploads'[u].copy = uploads[u].copy
  BY <1>1, <1>2, UploadGoesOn
<1> HIDE DEF a, n, t
<1>6. temps' \in [MediaAssets -> [AllNames -> Contents]] /\ temps'[a][n] = t
  BY <1>3, <1>4 DEF LibraryTypes, Contents
<1>7. LibraryTypes'
  BY <1>1, <1>5, <1>6 DEF LibraryTypes
<1>8. AloneInv'
  <2> SUFFICES ASSUME ~ overlapped PROVE AloneInv'
    BY <1>1 DEF AloneInv
  <2>1. Working = {u} BY <1>2 DEF AloneInv
  <2>2. uploads[u].copy = library BY <2>1 DEF AloneInv
  <2>3. \A b \in MediaAssets : library[b] # NoEntry => payloads[b][library[b].name] = library[b].take
    BY <1>1, <2>1 DEF AloneInv
  <2> QED BY <1>1, <1>5, <1>6, <2>1, <2>2, <2>3 DEF AloneInv
<1> QED BY <1>7, <1>8

LEMMA ReplaceFileKeeps ==
  ASSUME LibraryTypes, AloneInv, ReplaceFile PROVE LibraryTypes' /\ AloneInv'
<1>1. PICK u \in Uploaders :
        LET up == uploads[u] IN
        /\ up.at = "written"
        /\ IF temps[up.asset][up.name] = Missing
             THEN uploads' = [uploads EXCEPT ![u] = NoUpload] /\ UNCHANGED <<payloads, temps>>
             ELSE /\ payloads' = [payloads EXCEPT ![up.asset][up.name] = temps[up.asset][up.name]]
                  /\ temps' = [temps EXCEPT ![up.asset][up.name] = Missing]
                  /\ uploads' = [uploads EXCEPT ![u].at = "replaced"]
        /\ UNCHANGED <<library, overlapped>>
  BY Zenon DEF ReplaceFile
<1> DEFINE a == uploads[u].asset
           n == uploads[u].name
           t == uploads[u].take
<1>2. u \in Working /\ uploads[u] \in UploadRecord
  BY <1>1, UploadIs
<1>3. a \in MediaAssets /\ n \in AllNames /\ t \in MediaTakes
  BY <1>2 DEF UploadRecord, Readable
<1>4. ~ overlapped =>
        /\ Working = {u} /\ temps[a][n] = t /\ uploads[u].copy = library
        /\ \A b \in MediaAssets : library[b] # NoEntry => payloads[b][library[b].name] = library[b].take
  BY <1>1, <1>2 DEF AloneInv
<1>5. CASE temps[a][n] = Missing
  <2>1. uploads' = [uploads EXCEPT ![u] = NoUpload] /\ UNCHANGED <<payloads, temps, library, overlapped>>
    BY <1>1, <1>5
  <2>2. overlapped
    BY <1>3, <1>4, <1>5, BeepIs
  <2>3. uploads' \in [Uploaders -> {NoUpload} \cup UploadRecord]
    BY <1>2, <2>1, UploadEnds
  <2> QED BY <2>1, <2>2, <2>3 DEF LibraryTypes, AloneInv
<1>6. CASE temps[a][n] # Missing
  <2>1. /\ payloads' = [payloads EXCEPT ![a][n] = temps[a][n]] /\ temps' = [temps EXCEPT ![a][n] = Missing]
        /\ uploads' = [uploads EXCEPT ![u].at = "replaced"] /\ UNCHANGED <<library, overlapped>>
    BY <1>1, <1>6
  <2>2. /\ uploads' \in [Uploaders -> {NoUpload} \cup UploadRecord]
        /\ Working' = Working
        /\ \A v \in Uploaders \ {u} : uploads'[v] = uploads[v]
        /\ uploads'[u].at = "replaced" /\ uploads'[u].asset = a /\ uploads'[u].name = n
        /\ uploads'[u].take = t /\ uploads'[u].copy = uploads[u].copy
    BY <1>2, <2>1, UploadGoesOn
  <2> HIDE DEF a, n, t
  <2>3. temps[a][n] \in Contents BY <1>3 DEF LibraryTypes
  <2>4. /\ payloads' \in [MediaAssets -> [AllNames -> Contents]] /\ payloads'[a][n] = temps[a][n]
        /\ \A b \in MediaAssets \ {a} : payloads'[b] = payloads[b]
    BY <1>3, <2>1, <2>3 DEF LibraryTypes
  <2>5. temps' \in [MediaAssets -> [AllNames -> Contents]]
    BY <1>3, <2>1 DEF LibraryTypes, Contents
  <2>6. LibraryTypes'
    BY <2>1, <2>2, <2>4, <2>5 DEF LibraryTypes
  <2>7. AloneInv'
    <3> SUFFICES ASSUME ~ overlapped PROVE AloneInv'
      BY <2>1 DEF AloneInv
    <3> QED BY <1>4, <2>1, <2>2, <2>4 DEF AloneInv
  <2> QED BY <2>6, <2>7
<1> QED BY <1>5, <1>6

LEMMA SaveManifestKeeps ==
  ASSUME LibraryTypes, AloneInv, SaveManifest PROVE LibraryTypes' /\ AloneInv'
<1>1. PICK u \in Uploaders :
        /\ uploads[u].at = "replaced"
        /\ library' = [uploads[u].copy EXCEPT ![uploads[u].asset] = Entry(uploads[u])]
        /\ uploads' = [uploads EXCEPT ![u] = NoUpload]
        /\ UNCHANGED <<payloads, temps, overlapped>>
  BY DEF SaveManifest
<1> DEFINE a == uploads[u].asset
           e == Entry(uploads[u])
<1>2. u \in Working /\ uploads[u] \in UploadRecord
  BY <1>1, UploadIs
<1>3. a \in MediaAssets /\ e \in MediaEntry /\ e.name = uploads[u].name /\ e.take = uploads[u].take
  BY <1>2 DEF UploadRecord, Entry, MediaEntry
<1>4. uploads[u].copy \in Manifest
  BY <1>2 DEF UploadRecord
<1>5. library' = [uploads[u].copy EXCEPT ![a] = e] BY <1>1
<1>6. ~ overlapped =>
        /\ Working = {u} /\ uploads[u].copy = library /\ payloads[a][uploads[u].name] = uploads[u].take
        /\ \A b \in MediaAssets \ {a} : library[b] # NoEntry => payloads[b][library[b].name] = library[b].take
  BY <1>1, <1>2 DEF AloneInv
<1>7. uploads' \in [Uploaders -> {NoUpload} \cup UploadRecord] /\ Working' = Working \ {u}
  BY <1>1, <1>2, UploadEnds
<1> HIDE DEF a, e
<1>8. library' \in Manifest /\ library'[a] = e /\ \A b \in MediaAssets \ {a} : library'[b] = uploads[u].copy[b]
  BY <1>3, <1>4, <1>5 DEF Manifest
<1>9. LibraryTypes'
  BY <1>1, <1>7, <1>8 DEF LibraryTypes
<1>10. AloneInv'
  <2> SUFFICES ASSUME ~ overlapped PROVE AloneInv'
    BY <1>1 DEF AloneInv
  <2>1. Working' = {} BY <1>6, <1>7
  <2>2. \A b \in MediaAssets : library'[b] # NoEntry => payloads'[b][library'[b].name] = library'[b].take
    BY <1>1, <1>3, <1>6, <1>8
  <2> QED BY <2>1, <2>2 DEF AloneInv
<1> QED BY <1>9, <1>10

LEMMA DeleteKeeps ==
  ASSUME LibraryTypes, AloneInv, DeleteMedia PROVE LibraryTypes' /\ AloneInv'
<1>1. PICK a \in MediaAssets :
        /\ payloads' = [payloads EXCEPT ![a][library[a].name] = Missing]
        /\ library' = [library EXCEPT ![a] = NoEntry]
        /\ overlapped' = (overlapped \/ Working # {})
        /\ UNCHANGED <<temps, uploads>>
  BY DEF DeleteMedia
<1>2. library[a].name \in AllNames
  BY EntryIs DEF LibraryTypes, Manifest
<1>3. /\ payloads' \in [MediaAssets -> [AllNames -> Contents]]
      /\ \A b \in MediaAssets \ {a} : payloads'[b] = payloads[b]
  BY <1>1, <1>2 DEF LibraryTypes, Contents
<1>4. library' \in Manifest /\ library'[a] = NoEntry /\ \A b \in MediaAssets \ {a} : library'[b] = library[b]
  BY <1>1 DEF LibraryTypes, Manifest, MediaEntry
<1>5. LibraryTypes'
  BY <1>1, <1>3, <1>4 DEF LibraryTypes
<1>6. AloneInv'
  <2> SUFFICES ASSUME ~ overlapped' PROVE AloneInv'
    BY DEF AloneInv
  <2>1. ~ overlapped /\ Working = {} /\ Working' = {}
    BY <1>1 DEF Working
  <2> QED BY <1>3, <1>4, <2>1 DEF AloneInv
<1> QED BY <1>5, <1>6
-----------------------------------------------------------------------------
\* The steps of the delivery: a queue or a card changes, for one endpoint.
LEMMA QueueChanges ==
  ASSUME DeliveryInv, NEW p \in Panels, NEW queue, QueueSound(p, queue, asked),
         queued' = [queued EXCEPT ![p] = queue], UNCHANGED <<cards, asked>>
  PROVE  DeliveryInv'
<1>1. \A q \in Panels : queued'[q] = IF q = p THEN queue ELSE queued[q]
  BY DEF DeliveryInv
<1>2. DOMAIN queued' = Panels /\ queued' = [q \in Panels |-> queued'[q]]
  BY DEF DeliveryInv
<1>3. \A q \in Panels : QueueSound(q, queued'[q], asked)
  BY <1>1 DEF DeliveryInv
<1>4. asked' = asked /\ cards' = cards OBVIOUS
<1>5. \A q \in Panels : QueueSound(q, queued'[q], asked')
  BY <1>3, <1>4
<1>6. \A q \in Panels : CardSound(q, cards'[q], asked')
  BY <1>4 DEF DeliveryInv
<1> QED BY <1>2, <1>4, <1>5, <1>6 DEF DeliveryInv

LEMMA CardChanges ==
  ASSUME DeliveryInv, NEW p \in Panels, NEW card, CardSound(p, card, asked),
         cards' = [cards EXCEPT ![p] = card], UNCHANGED <<queued, asked>>
  PROVE  DeliveryInv'
<1>1. \A q \in Panels : cards'[q] = IF q = p THEN card ELSE cards[q]
  BY DEF DeliveryInv
<1>2. cards' \in [Panels -> [AllNames -> Contents]]
  BY DEF DeliveryInv, CardSound
<1>3. \A q \in Panels : CardSound(q, cards'[q], asked)
  BY <1>1 DEF DeliveryInv
<1>4. asked' = asked /\ queued' = queued OBVIOUS
<1>5. \A q \in Panels : CardSound(q, cards'[q], asked')
  BY <1>3, <1>4
<1> QED BY <1>2, <1>4, <1>5 DEF DeliveryInv

LEMMA FirstOfQueue ==
  ASSUME DeliveryInv, NEW p \in Panels, queued[p] # <<>>
  PROVE  /\ AtHead(p) \in TransferRecord /\ AtHead(p).name \in Readable /\ AtHead(p).name \in AllNames
         /\ AtHead(p).take \in MediaTakes
         /\ AskedFor(p, AtHead(p).name, AtHead(p).take, asked)
         /\ AtHead(p).at = "removed" => AtHead(p).got = AtHead(p).take
<1>1. QueueSound(p, queued[p], asked) BY DEF DeliveryInv
<1>2. 1 \in DOMAIN queued[p] /\ queued[p][1] \in TransferRecord
  BY <1>1 DEF QueueSound
<1> QED BY <1>1, <1>2 DEF QueueSound, AtHead, TransferRecord, Readable

LEMMA DroppingKeeps ==
  ASSUME DeliveryInv, NEW p \in Panels, queued[p] # <<>> PROVE QueueSound(p, Tail(queued[p]), asked)
<1> DEFINE queue == queued[p]
<1>1. QueueSound(p, queue, asked) BY DEF DeliveryInv
<1> HIDE DEF queue
<1>2. queue \in Seq(TransferRecord) /\ queue # <<>> /\ Len(queue) <= QueueDepth + 1
  BY <1>1 DEF queue, QueueSound
<1>3. Tail(queue) \in Seq(TransferRecord) /\ Len(Tail(queue)) = Len(queue) - 1
  BY <1>2
<1>4. \A i \in DOMAIN Tail(queue) : i + 1 \in DOMAIN queue /\ Tail(queue)[i] = queue[i + 1]
  BY <1>2
<1> QED BY <1>1, <1>2, <1>3, <1>4 DEF QueueSound, QueueDepth, queue

LEMMA AdvancingKeeps ==
  ASSUME DeliveryInv, NEW p \in Panels, queued[p] # <<>>,
         NEW transfer \in TransferRecord, transfer.name = AtHead(p).name, transfer.take = AtHead(p).take,
         transfer.at = "removed" => transfer.got = transfer.take
  PROVE  /\ QueueSound(p, [queued[p] EXCEPT ![1] = transfer], asked)
         /\ Advance(p, transfer) = [queued EXCEPT ![p] = [queued[p] EXCEPT ![1] = transfer]]
<1> DEFINE queue == queued[p]
           later == [queue EXCEPT ![1] = transfer]
<1>1. QueueSound(p, queue, asked) BY DEF DeliveryInv
<1>2. AskedFor(p, transfer.name, transfer.take, asked)
  BY FirstOfQueue
<1>3. Advance(p, transfer) = [queued EXCEPT ![p] = later]
  BY DEF Advance
<1> HIDE DEF queue
<1>4. queue \in Seq(TransferRecord) /\ queue # <<>> /\ Len(queue) <= QueueDepth + 1
  BY <1>1 DEF queue, QueueSound
<1>5. later \in Seq(TransferRecord) /\ Len(later) = Len(queue) /\ DOMAIN later = DOMAIN queue
  BY <1>4
<1>6. \A i \in DOMAIN later : later[i] = IF i = 1 THEN transfer ELSE queue[i]
  BY <1>4
<1> HIDE DEF later
<1>7. QueueSound(p, later, asked)
  BY <1>1, <1>2, <1>4, <1>5, <1>6 DEF QueueSound
<1> QED BY <1>3, <1>7 DEF later, queue

LEMMA DeliverKeeps ==
  ASSUME LibraryTypes, DeliveryInv, Deliver PROVE DeliveryInv'
<1>1. PICK p \in Panels, a \in MediaAssets, overwrite \in BOOLEAN :
        /\ library[a] # NoEntry
        /\ LET delivery == [asset |-> a, name |-> library[a].name, take |-> library[a].take,
                           overwrite |-> overwrite, to |-> p, got |-> Missing, at |-> "queued"]
           IN /\ asked' = Append(asked, delivery)
              /\ \/ /\ Len(queued[p]) <= QueueDepth
                    /\ queued' = [queued EXCEPT ![p] = Append(@, delivery)]
                 \/ UNCHANGED queued
        /\ UNCHANGED cards
  BY Zenon DEF Deliver
<1> DEFINE new == [asset |-> a, name |-> library[a].name, take |-> library[a].take,
                   overwrite |-> overwrite, to |-> p, got |-> Missing, at |-> "queued"]
<1>2. library[a] \in MediaEntry BY DEF LibraryTypes, Manifest
<1>3. library[a].name \in Readable /\ library[a].take \in MediaTakes
  BY <1>1, <1>2, EntryIs
<1>4. /\ new \in TransferRecord /\ new.to = p /\ new.name = library[a].name /\ new.take = library[a].take
      /\ new.at = "queued"
  BY <1>3 DEF TransferRecord, Contents
<1>5. /\ asked' = Append(asked, new) /\ UNCHANGED cards
      /\ \/ Len(queued[p]) <= QueueDepth /\ queued' = [queued EXCEPT ![p] = Append(queued[p], new)]
         \/ UNCHANGED queued
  BY <1>1
<1> HIDE DEF new
<1>6. /\ asked' \in Seq(TransferRecord) /\ Len(asked') = Len(asked) + 1 /\ asked'[Len(asked')] = new
      /\ \A i \in DOMAIN asked : i \in DOMAIN asked' /\ asked'[i] = asked[i]
  BY <1>4, <1>5 DEF DeliveryInv
<1>7. \A q, n, take : AskedFor(q, n, take, asked) => AskedFor(q, n, take, asked')
  BY <1>6 DEF AskedFor
<1>8. AskedFor(p, new.name, new.take, asked')
  BY <1>4, <1>6 DEF AskedFor, DeliveryInv
<1>9. \A q \in Panels : QueueSound(q, queued[q], asked')
  BY <1>7 DEF DeliveryInv, QueueSound
<1>10. \A q \in Panels : CardSound(q, cards'[q], asked')
  BY <1>5, <1>7 DEF DeliveryInv, CardSound
<1>11. CASE Len(queued[p]) <= QueueDepth /\ queued' = [queued EXCEPT ![p] = Append(queued[p], new)]
  <2> DEFINE queue == queued[p]
             longer == Append(queue, new)
  <2>1. QueueSound(p, queue, asked') BY <1>9
  <2>2. \A q \in Panels : queued'[q] = IF q = p THEN longer ELSE queued[q]
    BY <1>11 DEF DeliveryInv
  <2>3. DOMAIN queued' = Panels /\ queued' = [q \in Panels |-> queued'[q]]
    BY <1>11 DEF DeliveryInv
  <2>4. Len(queue) <= QueueDepth BY <1>11
  <2> HIDE DEF queue
  <2>5. queue \in Seq(TransferRecord) BY <2>1 DEF QueueSound
  <2>6. longer \in Seq(TransferRecord) /\ Len(longer) <= QueueDepth + 1
    BY <1>4, <2>4, <2>5 DEF QueueDepth
  <2>7. \A i \in DOMAIN longer : longer[i] = new \/ (i \in DOMAIN queue /\ longer[i] = queue[i])
    BY <2>5
  <2> HIDE DEF longer
  <2>8. QueueSound(p, longer, asked')
    BY <1>4, <1>8, <2>1, <2>6, <2>7 DEF QueueSound
  <2>9. \A q \in Panels : QueueSound(q, queued'[q], asked')
    BY <1>9, <2>2, <2>8
  <2> QED BY <1>5, <1>6, <1>10, <2>3, <2>9 DEF DeliveryInv
<1>12. CASE UNCHANGED queued
  BY <1>5, <1>6, <1>9, <1>10, <1>12 DEF DeliveryInv
<1> QED BY <1>5, <1>11, <1>12

LEMMA ServedIs ==
  ASSUME LibraryTypes, NEW a \in MediaAssets PROVE Served(a) \in Contents
<1>1. library[a].name \in AllNames BY EntryIs DEF LibraryTypes, Manifest
<1> QED BY <1>1 DEF Served, Contents, LibraryTypes

LEMMA DownloadKeeps ==
  ASSUME LibraryTypes, DeliveryInv, Download PROVE DeliveryInv'
<1>1. PICK p \in Panels :
        /\ queued[p] # <<>>
        /\ \/ queued' = Advance(p, [AtHead(p) EXCEPT !.got = Served(AtHead(p).asset), !.at = "checking"])
           \/ queued' = Drop(p)
        /\ UNCHANGED <<cards, asked>>
  BY Zenon DEF Download
<1>2. CASE queued' = Drop(p)
  BY <1>1, <1>2, DroppingKeeps, QueueChanges DEF Drop
<1>3. CASE queued' = Advance(p, [AtHead(p) EXCEPT !.got = Served(AtHead(p).asset), !.at = "checking"])
  <2> DEFINE h == AtHead(p)
             content == Served(h.asset)
             transfer == [h EXCEPT !.got = content, !.at = "checking"]
  <2>1. h \in TransferRecord BY <1>1, FirstOfQueue
  <2>2. h.asset \in MediaAssets BY <2>1 DEF TransferRecord
  <2>3. content \in Contents BY <2>2, ServedIs
  <2>4. queued' = Advance(p, transfer) BY <1>3
  <2> HIDE DEF content
  <2>5. transfer \in TransferRecord /\ transfer.name = h.name /\ transfer.take = h.take /\ transfer.at = "checking"
    <3> HIDE DEF h
    <3> QED BY <2>1, <2>3 DEF TransferRecord
  <2> HIDE DEF transfer
  <2>6. /\ QueueSound(p, [queued[p] EXCEPT ![1] = transfer], asked)
        /\ Advance(p, transfer) = [queued EXCEPT ![p] = [queued[p] EXCEPT ![1] = transfer]]
    BY <1>1, <2>5, AdvancingKeeps
  <2> QED BY <1>1, <2>4, <2>6, QueueChanges
<1> QED BY <1>1, <1>2, <1>3

LEMMA CheckTransferKeeps ==
  ASSUME DeliveryInv, CheckTransfer PROVE DeliveryInv'
<1>1. PICK p \in Panels :
        /\ queued[p] # <<>> /\ AtHead(p).at = "checking"
        /\ IF Verified(AtHead(p))
             THEN /\ queued' = Advance(p, [AtHead(p) EXCEPT !.at = "removed"])
                  /\ cards' = [cards EXCEPT ![p][AtHead(p).name] = IF AtHead(p).overwrite THEN Missing ELSE @]
             ELSE queued' = Drop(p) /\ UNCHANGED cards
        /\ UNCHANGED asked
  BY Zenon DEF CheckTransfer
<1>2. CASE ~ Verified(AtHead(p))
  BY <1>1, <1>2, DroppingKeeps, QueueChanges DEF Drop
<1>3. CASE Verified(AtHead(p))
  <2> DEFINE h == AtHead(p)
             transfer == [h EXCEPT !.at = "removed"]
             card == [cards[p] EXCEPT ![h.name] = IF h.overwrite THEN Missing ELSE cards[p][h.name]]
  <2>1. h \in TransferRecord /\ h.name \in AllNames /\ h.got = h.take
    BY <1>1, <1>3, FirstOfQueue DEF Verified
  <2>2. queued' = Advance(p, transfer) /\ cards' = [cards EXCEPT ![p] = card] /\ asked' = asked
    BY <1>1, <1>3
  <2>3. CardSound(p, cards[p], asked) BY DEF DeliveryInv
  <2> HIDE DEF h
  <2>4. transfer \in TransferRecord /\ transfer.name = h.name /\ transfer.take = h.take /\ transfer.got = h.got
    BY <2>1 DEF TransferRecord
  <2>5. /\ card \in [AllNames -> Contents]
        /\ \A n \in AllNames : card[n] = Missing \/ card[n] = cards[p][n]
    BY <2>1, <2>3 DEF CardSound, Contents
  <2> HIDE DEF transfer, card
  <2>6. CardSound(p, card, asked)
    BY <2>3, <2>5 DEF CardSound
  <2>7. /\ QueueSound(p, [queued[p] EXCEPT ![1] = transfer], asked)
        /\ Advance(p, transfer) = [queued EXCEPT ![p] = [queued[p] EXCEPT ![1] = transfer]]
    BY <1>1, <2>1, <2>4, AdvancingKeeps DEF h
  <2> DEFINE queue == [queued[p] EXCEPT ![1] = transfer]
  <2>8. queued' = [queued EXCEPT ![p] = queue] /\ QueueSound(p, queue, asked)
    BY <2>2, <2>7
  <2> HIDE DEF queue
  <2>9. \A q \in Panels : queued'[q] = IF q = p THEN queue ELSE queued[q]
    BY <2>8 DEF DeliveryInv
  <2>10. DOMAIN queued' = Panels /\ queued' = [q \in Panels |-> queued'[q]]
    BY <2>8 DEF DeliveryInv
  <2>11. \A q \in Panels : cards'[q] = IF q = p THEN card ELSE cards[q]
    BY <2>2 DEF DeliveryInv
  <2>12. cards' \in [Panels -> [AllNames -> Contents]]
    BY <2>2, <2>5 DEF DeliveryInv
  <2>13. \A q \in Panels : QueueSound(q, queued'[q], asked) /\ CardSound(q, cards'[q], asked)
    BY <2>6, <2>8, <2>9, <2>11 DEF DeliveryInv
  <2>14. \A q \in Panels : QueueSound(q, queued'[q], asked') /\ CardSound(q, cards'[q], asked')
    BY <2>2, <2>13
  <2> QED BY <2>2, <2>10, <2>12, <2>14 DEF DeliveryInv
<1> QED BY <1>2, <1>3

LEMMA StoreTransferKeeps ==
  ASSUME DeliveryInv, StoreTransfer PROVE DeliveryInv'
<1>1. PICK p \in Panels :
        /\ queued[p] # <<>> /\ AtHead(p).at = "removed"
        /\ cards' = [cards EXCEPT ![p][AtHead(p).name] = AtHead(p).got]
        /\ queued' = Drop(p)
        /\ UNCHANGED asked
  BY Zenon DEF StoreTransfer
<1> DEFINE h == AtHead(p)
           card == [cards[p] EXCEPT ![h.name] = h.got]
           queue == Tail(queued[p])
<1>2. /\ h \in TransferRecord /\ h.name \in Readable /\ h.name \in AllNames /\ h.take \in MediaTakes
      /\ AskedFor(p, h.name, h.take, asked) /\ h.got = h.take
  BY <1>1, FirstOfQueue
<1>3. queued' = [queued EXCEPT ![p] = queue] /\ cards' = [cards EXCEPT ![p] = card] /\ asked' = asked
  BY <1>1 DEF Drop
<1>4. QueueSound(p, queue, asked)
  BY <1>1, DroppingKeeps
<1>5. CardSound(p, cards[p], asked) BY DEF DeliveryInv
<1> HIDE DEF h, queue
<1>6. card \in [AllNames -> Contents] /\ \A n \in AllNames : card[n] = IF n = h.name THEN h.take ELSE cards[p][n]
  BY <1>2, <1>5 DEF CardSound, Contents
<1> HIDE DEF card
<1>7. CardSound(p, card, asked)
  BY <1>2, <1>5, <1>6 DEF CardSound
<1>8. \A q \in Panels : queued'[q] = IF q = p THEN queue ELSE queued[q]
  BY <1>3 DEF DeliveryInv
<1>9. DOMAIN queued' = Panels /\ queued' = [q \in Panels |-> queued'[q]]
  BY <1>3 DEF DeliveryInv
<1>10. \A q \in Panels : cards'[q] = IF q = p THEN card ELSE cards[q]
  BY <1>3 DEF DeliveryInv
<1>11. cards' \in [Panels -> [AllNames -> Contents]]
  BY <1>3, <1>6 DEF DeliveryInv
<1>12. \A q \in Panels : QueueSound(q, queued'[q], asked) /\ CardSound(q, cards'[q], asked)
  BY <1>4, <1>7, <1>8, <1>10 DEF DeliveryInv
<1>13. \A q \in Panels : QueueSound(q, queued'[q], asked') /\ CardSound(q, cards'[q], asked')
  BY <1>3, <1>12
<1> QED BY <1>3, <1>9, <1>11, <1>13 DEF DeliveryInv

LEMMA PanelsLoseKeeps ==
  ASSUME DeliveryInv, PanelResets \/ Reformat PROVE DeliveryInv'
<1>1. CASE PanelResets
  <2>1. PICK p \in Panels : queued' = [queued EXCEPT ![p] = <<>>] /\ UNCHANGED <<cards, asked>>
    BY <1>1 DEF PanelResets
  <2>2. QueueSound(p, <<>>, asked)
    BY DEF QueueSound, QueueDepth
  <2> QED BY <2>1, <2>2, QueueChanges
<1>2. CASE Reformat
  <2> DEFINE blank == [n \in AllNames |-> Missing]
  <2>1. PICK p \in Panels : cards' = [cards EXCEPT ![p] = blank] /\ UNCHANGED <<queued, asked>>
    BY <1>2 DEF Reformat
  <2>2. CardSound(p, blank, asked)
    BY DEF CardSound, Contents
  <2> HIDE DEF blank
  <2> QED BY <2>1, <2>2, CardChanges
<1> QED BY <1>1, <1>2

-----------------------------------------------------------------------------
LEMMA MediaStep ==
  ASSUME MediaInv, MediaNext PROVE MediaInv'
<1> USE DEF MediaInv
<1>1. CASE BeginUpload \/ EnsureBeepSound
  BY <1>1, UploadKeeps, DeliveryFrame DEF BeginUpload, EnsureBeepSound, LoadFor
<1>2. CASE WriteTemp
  BY <1>2, WriteTempKeeps, DeliveryFrame DEF WriteTemp
<1>3. CASE ReplaceFile
  BY <1>3, ReplaceFileKeeps, DeliveryFrame DEF ReplaceFile
<1>4. CASE SaveManifest
  BY <1>4, SaveManifestKeeps, DeliveryFrame DEF SaveManifest
<1>5. CASE DeleteMedia
  BY <1>5, DeleteKeeps, DeliveryFrame DEF DeleteMedia
<1>6. CASE Deliver
  BY <1>6, DeliverKeeps, LibraryFrame DEF Deliver
<1>7. CASE Download
  BY <1>7, DownloadKeeps, LibraryFrame DEF Download
<1>8. CASE CheckTransfer
  BY <1>8, CheckTransferKeeps, LibraryFrame DEF CheckTransfer
<1>9. CASE StoreTransfer
  BY <1>9, StoreTransferKeeps, LibraryFrame DEF StoreTransfer
<1>10. CASE PanelResets \/ Reformat
  BY <1>10, PanelsLoseKeeps, LibraryFrame DEF PanelResets, Reformat
<1> QED BY <1>1, <1>2, <1>3, <1>4, <1>5, <1>6, <1>7, <1>8, <1>9, <1>10 DEF MediaNext

LEMMA MediaFrame ==
  ASSUME MediaInv, UNCHANGED mediaVars PROVE MediaInv'
BY DeliveryFrame, LibraryFrame DEF MediaInv, mediaVars

LEMMA MediaShows ==
  ASSUME MediaInv PROVE MediaTypeOK /\ ManifestIsHonest /\ CardsHoldWhatWasAsked
<1>1. MediaEntry \subseteq Entries
  BY DEF MediaEntry, Entries, Readable
<1>2. library \in [MediaAssets -> Entries]
  BY <1>1 DEF MediaInv, LibraryTypes, Manifest
<1>3. MediaTypeOK
  BY <1>2 DEF MediaInv, MediaTypeOK, LibraryTypes, DeliveryInv, QueueSound, Contents
<1>4. ManifestIsHonest
  BY DEF MediaInv, AloneInv, ManifestIsHonest
<1>5. CardsHoldWhatWasAsked
  BY DEF MediaInv, DeliveryInv, CardSound, AskedFor, CardsHoldWhatWasAsked, Readable
<1> QED BY <1>3, <1>4, <1>5

(* endpoint/media.py, backend_client.cpp: while one writer works at a time *)
(* every entry of the manifest has its file, and a card holds under every  *)
(* name what was asked to go there, whatever is uploaded, deleted,         *)
(* delivered, reformatted and restarted meanwhile.                         *)
THEOREM CardsHoldTheirFiles ==
  MediaSpec => [](MediaTypeOK /\ ManifestIsHonest /\ CardsHoldWhatWasAsked)
<1>1. MediaInit => MediaInv
  BY MediaInitInv
<1>2. MediaInv /\ [MediaNext]_mediaVars => MediaInv'
  BY MediaStep, MediaFrame
<1>3. MediaInv => MediaTypeOK /\ ManifestIsHonest /\ CardsHoldWhatWasAsked
  BY MediaShows
<1> QED BY <1>1, <1>2, <1>3, PTL DEF MediaSpec

-----------------------------------------------------------------------------
(* Placement.  First, that the places of a sequence have an order: by the  *)
(* least bound of places that would have none.                             *)
LEMMA PlacesHaveOrder ==
  ASSUME NEW n \in Nat, NEW places \in SUBSET (1 .. n)
  PROVE  \E e \in [1 .. Cardinality(places) -> places] : InOrder(e)
<1> DEFINE Ordered(S) == \E e \in [1 .. Cardinality(S) -> S] : InOrder(e)
           Wrong == {b \in Nat : \E S \in SUBSET (1 .. b) : ~ Ordered(S)}
<1>1. Wrong = {}
  <2> SUFFICES ASSUME Wrong # {} PROVE FALSE
    OBVIOUS
  <2>1. Wrong \subseteq Nat OBVIOUS
  <2>2. PICK b \in Wrong : \A c \in Wrong : b <= c
    BY <2>1, LeastIs, Zenon
  <2>3. b \in Nat /\ \E S \in SUBSET (1 .. b) : ~ Ordered(S) OBVIOUS
  <2>4. PICK S \in SUBSET (1 .. b) : ~ Ordered(S) BY <2>3
  <2>5. ASSUME NEW c \in Nat, c < b, NEW T \in SUBSET (1 .. c) PROVE Ordered(T)
    <3>1. c \notin Wrong
      <4>1. ASSUME c \in Wrong PROVE FALSE
        <5>1. b <= c BY <2>2, <4>1, Zenon
        <5> QED BY <2>3, <2>5, <5>1
      <4> QED BY <4>1
    <3> QED BY <3>1, <2>5
  <2> HIDE DEF Wrong
  <2>6. Cardinality({}) = 0 BY FS_EmptySet
  <2>7. CASE S = {}
    <3> DEFINE e == [k \in 1 .. 0 |-> 0]
    <3>1. e \in [1 .. Cardinality(S) -> S] BY <2>6, <2>7
    <3>2. InOrder(e) BY DEF InOrder
    <3> QED BY <2>4, <3>1, <3>2
  <2>8. CASE S # {}
    <3>1. b >= 1
      <4>1. PICK z \in S : z \in 1 .. b BY <2>4, <2>8
      <4> QED BY <2>3, <4>1
    <3>2. b - 1 \in Nat /\ b - 1 < b BY <2>3, <3>1
    <3>3. CASE b \notin S
      <4>1. S \in SUBSET (1 .. b - 1) BY <2>3, <3>3
      <4> QED BY <2>4, <2>5, <3>2, <4>1
    <3>4. CASE b \in S
      <4> DEFINE T == S \ {b}
                 m == Cardinality(T)
      <4>1. T \in SUBSET (1 .. b - 1) BY <2>3
      <4>2. Ordered(T) BY <2>5, <3>2, <4>1
      <4>3. PICK e \in [1 .. m -> T] : InOrder(e) BY <4>2
      <4>4. IsFiniteSet(1 .. b) BY <2>3, FS_Interval
      <4>5. IsFiniteSet(S) BY <4>4, FS_Subset
      <4>6. Cardinality(S) \in Nat /\ m = Cardinality(S) - 1 /\ IsFiniteSet(T)
        BY <3>4, <4>5, FS_RemoveElement, FS_CardinalityType
      <4>7. m \in Nat BY <4>6, FS_CardinalityType
      <4>8. Cardinality(S) = m + 1 BY <4>6
      <4> HIDE DEF m
      <4> DEFINE f == [k \in 1 .. m + 1 |-> IF k = m + 1 THEN b ELSE e[k]]
      <4>9. f \in [1 .. m + 1 -> S]
        BY <3>4, <4>7
      <4>10. \A k \in 1 .. m : e[k] \in T /\ e[k] \in Nat /\ e[k] < b
        <5>1. ASSUME NEW k \in 1 .. m PROVE e[k] \in T
          BY <4>3
        <5>2. ASSUME NEW z \in T PROVE z \in Nat /\ z < b
          <6>1. z \in 1 .. b - 1 BY <4>1
          <6> QED BY <2>3, <6>1
        <5> QED BY <5>1, <5>2
      <4>11. InOrder(f)
        <5> SUFFICES ASSUME NEW k \in 1 .. m + 1, NEW l \in 1 .. m + 1, k < l PROVE f[k] < f[l]
          BY DEF InOrder
        <5>1. k \in 1 .. m /\ f[k] = e[k] BY <4>7
        <5>2. CASE l = m + 1 BY <4>10, <5>1, <5>2
        <5>3. CASE l # m + 1
          <6>1. l \in 1 .. m /\ f[l] = e[l] BY <4>7, <5>3
          <6> QED BY <4>3, <5>1, <6>1 DEF InOrder
        <5> QED BY <5>2, <5>3
      <4> HIDE DEF f
      <4>12. Ordered(S) BY <4>8, <4>9, <4>11
      <4> QED BY <2>4, <4>12
    <3> QED BY <3>3, <3>4
  <2> QED BY <2>7, <2>8
<1>2. n \notin Wrong BY <1>1
<1> QED BY <1>2

LEMMA KeptIs ==
  ASSUME NEW D, NEW seq \in Seq(D), NEW places \in SUBSET DOMAIN seq
  PROVE  /\ Kept(seq, places) \in Seq(D) /\ Len(Kept(seq, places)) <= Len(seq)
         /\ \E order \in [DOMAIN Kept(seq, places) -> places] :
              /\ InOrder(order) /\ \A k \in DOMAIN order : Kept(seq, places)[k] = seq[order[k]]
<1> DEFINE c == Cardinality(places)
           order == CHOOSE e \in [1 .. c -> places] : InOrder(e)
<1>1. Len(seq) \in Nat /\ DOMAIN seq = 1 .. Len(seq) OBVIOUS
<1>2. \E e \in [1 .. c -> places] : InOrder(e) BY <1>1, PlacesHaveOrder
<1>3. order \in [1 .. c -> places] /\ InOrder(order) BY <1>2, Zenon
<1>4. IsFiniteSet(1 .. Len(seq)) /\ Cardinality(1 .. Len(seq)) = Len(seq)
  BY <1>1, UpTo
<1>5. c \in Nat /\ c <= Len(seq)
  BY <1>1, <1>4, FS_Subset, FS_CardinalityType
<1>6. Kept(seq, places) = [k \in 1 .. c |-> seq[order[k]]]
  BY DEF Kept
<1> HIDE DEF c, order
<1>7. \A k \in 1 .. c : seq[order[k]] \in D
  BY <1>1, <1>3
<1>8. Kept(seq, places) \in Seq(D) /\ Len(Kept(seq, places)) = c
  BY <1>5, <1>6, <1>7
<1>9. DOMAIN Kept(seq, places) = 1 .. c BY <1>6
<1> QED BY <1>3, <1>5, <1>6, <1>8, <1>9

\* What is kept of a list with a new element before it.
NewestOf(kept, x, rest, most, D) ==
  /\ kept \in Seq(D) /\ Len(kept) >= 1 /\ Len(kept) <= most /\ Len(kept) <= Len(rest) + 1 /\ kept[1] = x
  /\ \A k \in DOMAIN kept : k # 1 => k - 1 \in DOMAIN rest /\ kept[k] = rest[k - 1]

LEMMA NewestIs ==
  ASSUME NEW D, NEW x \in D, NEW rest \in Seq(D), NEW most \in Nat \ {0},
         NEW kept, kept = Newest(<<x>> \o rest, most)
  PROVE  NewestOf(kept, x, rest, most, D)
<1> DEFINE all == <<x>> \o rest
           n == IF Len(all) < most THEN Len(all) ELSE most
<1>1. all \in Seq(D) /\ Len(all) = Len(rest) + 1 /\ all[1] = x
      /\ \A k \in 2 .. Len(all) : all[k] = rest[k - 1]
  OBVIOUS
<1> HIDE DEF all
<1>2. n \in 1 .. Len(all) /\ n <= most BY <1>1
<1>3. Newest(all, most) = SubSeq(all, 1, n) BY DEF Newest
<1> HIDE DEF n
<1>4. /\ SubSeq(all, 1, n) \in Seq(D) /\ Len(SubSeq(all, 1, n)) = n
      /\ \A k \in 1 .. n : SubSeq(all, 1, n)[k] = all[k]
  BY <1>1, <1>2
<1>5. kept \in Seq(D) /\ Len(kept) = n /\ \A k \in 1 .. n : kept[k] = all[k]
  BY <1>3, <1>4 DEF all
<1>6. DOMAIN kept = 1 .. n BY <1>5
<1> HIDE DEF n
<1>7. n \in Nat /\ 1 <= n /\ n <= Len(rest) + 1 /\ Len(rest) \in Nat BY <1>1, <1>2
<1>8. kept[1] = x
  <2>1. 1 \in 1 .. n BY <1>7
  <2> QED BY <1>1, <1>5, <2>1
<1>9. \A k \in DOMAIN kept : k # 1 => k - 1 \in DOMAIN rest /\ kept[k] = rest[k - 1]
  BY SMTT(30), <1>1, <1>5, <1>6, <1>7
<1> QED BY <1>2, <1>5, <1>7, <1>8, <1>9 DEF NewestOf
-----------------------------------------------------------------------------
(* Calibrations.  Of two windows the one before has the greater number,    *)
(* and one that is open was not closed.                                    *)
WindowRecord ==
  [id : Nat, status : {"active", "completed", "cancelled"}, from : Nat, ends : Nat, due : Nat,
   retention : Nat, count : Nat, closed : Nat]
SampleRecord == [of : Nat, observed : Nat, received : Nat]

(* A window at a day; a list of windows; a list of samples for it.         *)
WindowSound(w, day) == w.from <= day /\ w.from < w.ends /\ (w.status = "active" => w.closed = NoDate)

WindowsSound(ws, day) ==
  /\ ws \in Seq(WindowRecord) /\ Len(ws) <= MaxWindows
  /\ \A n \in DOMAIN ws : WindowSound(ws[n], day)
  /\ \A m, n \in DOMAIN ws : m < n => ws[n].id < ws[m].id

CameFor(sample, w) == w.from <= sample.received /\ sample.received < w.ends /\ sample.received <= w.closed

NumberOf(ws) == IF ws = <<>> THEN 0 ELSE ws[1].id

SamplesSound(all, ws, day) ==
  /\ all \in Seq(SampleRecord) /\ Len(all) <= MaxSamples
  /\ \A k \in DOMAIN all : all[k].of <= NumberOf(ws) /\ all[k].received <= day
  /\ \A k \in DOMAIN all, n \in DOMAIN ws : all[k].of = ws[n].id => CameFor(all[k], ws[n])

CalibrationInv ==
  date \in 0 .. MaxDate /\ WindowsSound(windows, date) /\ SamplesSound(samples, windows, date)

LEMMA PlacementIs ==
  /\ MaxWindows \in Nat \ {0} /\ MaxSamples \in Nat \ {0} /\ MaxRecords \in Nat \ {0}
  /\ MaxDate \in Nat /\ Month \in Nat /\ MaxOpened \in Nat /\ MaxSessionId \in Nat
  /\ Durations \subseteq Nat \ {0} /\ Retentions \subseteq Nat \ {0} /\ NoDate \in Nat /\ NoDate = MaxDate + 10
BY PlacementAssumption DEF NoDate

\* A list of windows changed at no day, number or place.
LEMMA ChangedWindows ==
  ASSUME CalibrationInv, NEW ws \in Seq(WindowRecord), Len(ws) = Len(windows),
         \A n \in DOMAIN windows :
           /\ ws[n].id = windows[n].id /\ ws[n].from = windows[n].from /\ ws[n].ends = windows[n].ends
           /\ ws[n].status = "active" => windows[n].status = "active" /\ ws[n].closed = windows[n].closed
           /\ ws[n].closed = windows[n].closed \/ ws[n].closed = date
  PROVE  WindowsSound(ws, date) /\ SamplesSound(samples, ws, date) /\ NumberOf(ws) = NumberOf(windows)
<1>1. windows \in Seq(WindowRecord) /\ samples \in Seq(SampleRecord) /\ date \in Nat
  BY DEF CalibrationInv, WindowsSound, SamplesSound
<1>2. DOMAIN ws = DOMAIN windows
  BY <1>1
<1>3. WindowsSound(ws, date)
  BY <1>2 DEF CalibrationInv, WindowsSound, WindowSound
<1>4. NumberOf(ws) = NumberOf(windows)
  <2>1. CASE windows = <<>>
    <3>1. ws = <<>> BY <1>1, <2>1
    <3> QED BY <2>1, <3>1 DEF NumberOf
  <2>2. CASE windows # <<>>
    <3>1. ws # <<>> /\ 1 \in DOMAIN windows BY <1>1, <2>2
    <3> QED BY <2>2, <3>1 DEF NumberOf
  <2> QED BY <2>1, <2>2
<1>5. SamplesSound(samples, ws, date)
  <2>1. ASSUME NEW k \in DOMAIN samples, NEW n \in DOMAIN ws, samples[k].of = ws[n].id
        PROVE  CameFor(samples[k], ws[n])
    <3>1. CameFor(samples[k], windows[n]) /\ samples[k].received <= date
      BY <1>2, <2>1 DEF CalibrationInv, SamplesSound
    <3> QED BY <1>2, <2>1, <3>1 DEF CameFor
  <2> QED BY <1>4, <2>1 DEF CalibrationInv, SamplesSound
<1> QED BY <1>3, <1>4, <1>5

LEMMA CompletedIs ==
  ASSUME CalibrationInv
  PROVE  /\ CompleteExpired \in Seq(WindowRecord) /\ Len(CompleteExpired) = Len(windows)
         /\ DOMAIN CompleteExpired = DOMAIN windows
         /\ \A n \in DOMAIN windows :
              LET w == CompleteExpired[n] IN
              /\ w.id = windows[n].id /\ w.from = windows[n].from /\ w.ends = windows[n].ends
              /\ w.closed = windows[n].closed
              /\ w.status = "active" => windows[n].status = "active" /\ date < windows[n].ends
         /\ WindowsSound(CompleteExpired, date) /\ SamplesSound(samples, CompleteExpired, date)
         /\ NumberOf(CompleteExpired) = NumberOf(windows)
<1> DEFINE ws == CompleteExpired
<1>1. windows \in Seq(WindowRecord) /\ date \in Nat
  BY DEF CalibrationInv, WindowsSound
<1>2. ASSUME NEW n \in DOMAIN windows
      PROVE  /\ ws[n] \in WindowRecord
             /\ ws[n].id = windows[n].id /\ ws[n].from = windows[n].from /\ ws[n].ends = windows[n].ends
             /\ ws[n].closed = windows[n].closed
             /\ ws[n].status = "active" => windows[n].status = "active" /\ date < windows[n].ends
  <2> DEFINE w == windows[n]
             v == [w EXCEPT !.status = "completed", !.due = NoDate]
  <2>1. w \in WindowRecord BY <1>1
  <2>2. ws[n] = IF w.status = "active" /\ w.ends <= date THEN v ELSE w
    BY DEF CompleteExpired
  <2> HIDE DEF w
  <2>3. /\ v \in WindowRecord /\ v.id = w.id /\ v.from = w.from /\ v.ends = w.ends /\ v.closed = w.closed
        /\ v.status = "completed"
    BY <2>1, PlacementIs DEF WindowRecord
  <2> HIDE DEF v
  <2>4. w.ends \in Nat BY <2>1 DEF WindowRecord
  <2>5. CASE w.status = "active" /\ w.ends <= date BY <2>2, <2>3, <2>5 DEF w
  <2>6. CASE ~ (w.status = "active" /\ w.ends <= date) BY <1>1, <2>1, <2>2, <2>4, <2>6 DEF w
  <2> QED BY <2>5, <2>6
<1>3. DOMAIN ws = 1 .. Len(windows) /\ Len(windows) \in Nat
  BY <1>1 DEF CompleteExpired
<1>4. ws = [n \in 1 .. Len(windows) |-> ws[n]]
  BY <1>1 DEF CompleteExpired
<1> HIDE DEF ws
<1>5. ws \in Seq(WindowRecord) /\ Len(ws) = Len(windows)
  <2>1. \A n \in 1 .. Len(windows) : ws[n] \in WindowRecord
    BY <1>1, <1>2
  <2>2. ws \in [1 .. Len(windows) -> WindowRecord]
    BY <1>4, <2>1, Zenon
  <2> QED BY <1>3, <2>2
<1>6. WindowsSound(ws, date) /\ SamplesSound(samples, ws, date) /\ NumberOf(ws) = NumberOf(windows)
  BY <1>2, <1>5, ChangedWindows
<1> QED BY <1>1, <1>2, <1>3, <1>5, <1>6 DEF ws

\* Retention leaves samples out.
LEMMA RetainedAre ==
  ASSUME NEW all, NEW ws, NEW now, SamplesSound(all, ws, now) PROVE SamplesSound(Retained(all, ws), ws, now)
<1> DEFINE places == {n \in DOMAIN all : all[n].observed + RetentionOf(all[n], ws) >= date}
           left == Kept(all, places)
<1>1. all \in Seq(SampleRecord) /\ Len(all) <= MaxSamples /\ places \in SUBSET DOMAIN all
  BY DEF SamplesSound
<1>2. Retained(all, ws) = left BY DEF Retained
<1> HIDE DEF places
<1>3. /\ left \in Seq(SampleRecord) /\ Len(left) <= Len(all)
      /\ \E order \in [DOMAIN left -> places] :
           InOrder(order) /\ \A k \in DOMAIN order : left[k] = all[order[k]]
  BY <1>1, KeptIs
<1> HIDE DEF left
<1>4. \A k \in DOMAIN left : \E l \in DOMAIN all : left[k] = all[l]
  BY <1>1, <1>3
<1>5. Len(left) <= MaxSamples
  BY <1>1, <1>3, PlacementIs
<1> QED BY <1>2, <1>3, <1>4, <1>5 DEF SamplesSound

LEMMA StartWindowKeeps ==
  ASSUME CalibrationInv, StartWindow PROVE CalibrationInv'
<1>1. PICK days \in Durations, keep \in Retentions :
        windows' = Newest(<<[id |-> Started + 1, status |-> "active", from |-> date, ends |-> date + days,
                             due |-> date, retention |-> keep, count |-> 0, closed |-> NoDate]>>
                           \o CompleteExpired, MaxWindows)
  BY DEF StartWindow
<1> DEFINE new == [id |-> Started + 1, status |-> "active", from |-> date, ends |-> date + days,
                   due |-> date, retention |-> keep, count |-> 0, closed |-> NoDate]
           rest == CompleteExpired
<1>2. samples' = samples /\ date' = date BY DEF StartWindow
<1>3. windows \in Seq(WindowRecord) /\ date \in 0 .. MaxDate /\ date \in Nat
  BY DEF CalibrationInv, WindowsSound
<1>4. Started = NumberOf(windows) /\ Started \in Nat
  <2>1. windows # <<>> => windows[1] \in WindowRecord BY <1>3
  <2> QED BY <2>1 DEF Started, NumberOf, WindowRecord
<1>5. days \in Nat \ {0} /\ keep \in Nat BY PlacementIs
<1>6. /\ new \in WindowRecord /\ new.id = Started + 1 /\ new.from = date /\ new.ends = date + days
      /\ new.status = "active" /\ new.closed = NoDate
  BY <1>3, <1>4, <1>5, PlacementIs DEF WindowRecord
<1>7. windows' = Newest(<<new>> \o rest, MaxWindows) BY <1>1
<1> HIDE DEF new
<1>8. /\ rest \in Seq(WindowRecord) /\ WindowsSound(rest, date) /\ SamplesSound(samples, rest, date)
      /\ NumberOf(rest) = NumberOf(windows)
  BY CompletedIs
<1> HIDE DEF rest
<1> DEFINE ws == Newest(<<new>> \o rest, MaxWindows)
<1> HIDE DEF ws
<1>9. /\ ws \in Seq(WindowRecord) /\ Len(ws) >= 1 /\ Len(ws) <= MaxWindows /\ ws[1] = new
      /\ \A k \in DOMAIN ws : k # 1 => k - 1 \in DOMAIN rest /\ ws[k] = rest[k - 1]
  <2>1. ws = Newest(<<new>> \o rest, MaxWindows) BY DEF ws
  <2>2. new \in WindowRecord /\ rest \in Seq(WindowRecord) /\ MaxWindows \in Nat \ {0}
    BY <1>6, <1>8, PlacementIs
  <2>3. NewestOf(ws, new, rest, MaxWindows, WindowRecord)
    BY <2>1, <2>2, NewestIs, Zenon
  <2> QED BY <2>3 DEF NewestOf
<1>10. \A k \in DOMAIN ws : k \in Nat /\ k >= 1 BY <1>9
<1>11. \A k \in DOMAIN rest : rest[k].id \in Nat /\ rest[k].id <= Started
  <2> SUFFICES ASSUME NEW k \in DOMAIN rest PROVE rest[k].id \in Nat /\ rest[k].id <= Started
    OBVIOUS
  <2>1. rest[k] \in WindowRecord /\ rest[1] \in WindowRecord /\ 1 \in DOMAIN rest /\ k \in Nat /\ k >= 1 /\ rest # <<>>
    BY <1>8
  <2>2. rest[1].id = Started BY <1>4, <1>8, <2>1 DEF NumberOf
  <2>3. rest[k].id \in Nat BY <2>1 DEF WindowRecord
  <2>4. 1 < k => rest[k].id < rest[1].id BY <1>8, <2>1 DEF WindowsSound
  <2> QED BY <1>4, <2>1, <2>2, <2>3, <2>4
<1>12. WindowsSound(ws, date)
  <2>1. \A n \in DOMAIN ws : WindowSound(ws[n], date)
    <3>1. WindowSound(new, date) BY <1>3, <1>5, <1>6 DEF WindowSound
    <3> QED BY <1>8, <1>9, <3>1 DEF WindowsSound
  <2>2. ASSUME NEW m \in DOMAIN ws, NEW n \in DOMAIN ws, m < n PROVE ws[n].id < ws[m].id
    <3>1. n # 1 /\ n - 1 \in DOMAIN rest /\ ws[n] = rest[n - 1] BY <1>9, <1>10, <2>2
    <3>2. CASE m = 1 BY <1>4, <1>6, <1>9, <1>11, <3>1, <3>2
    <3>3. CASE m # 1
      <4>1. m - 1 \in DOMAIN rest /\ ws[m] = rest[m - 1] /\ m - 1 < n - 1 BY <1>9, <1>10, <2>2, <3>3
      <4> QED BY <1>8, <3>1, <4>1 DEF WindowsSound
    <3> QED BY <3>2, <3>3
  <2> QED BY <1>9, <2>1, <2>2 DEF WindowsSound
<1>13. SamplesSound(samples, ws, date)
  <2>1. NumberOf(ws) = Started + 1
    <3>1. ws # <<>> BY <1>9
    <3> QED BY <1>6, <1>9, <3>1 DEF NumberOf
  <2>2. ASSUME NEW k \in DOMAIN samples PROVE samples[k].of \in Nat /\ samples[k].of <= Started
    <3>1. samples \in Seq(SampleRecord) /\ samples[k].of <= NumberOf(rest) BY <1>8 DEF SamplesSound
    <3>2. samples[k] \in SampleRecord BY <3>1
    <3> QED BY <1>4, <1>8, <3>1, <3>2 DEF SampleRecord
  <2>3. ASSUME NEW k \in DOMAIN samples, NEW n \in DOMAIN ws, samples[k].of = ws[n].id
        PROVE  CameFor(samples[k], ws[n])
    <3>1. n # 1 BY <1>4, <1>6, <1>9, <2>2, <2>3
    <3>2. n - 1 \in DOMAIN rest /\ ws[n] = rest[n - 1] BY <1>9, <3>1
    <3> QED BY <1>8, <2>3, <3>2 DEF SamplesSound
  <2>4. \A k \in DOMAIN samples : samples[k].of <= NumberOf(ws)
    BY <1>4, <2>1, <2>2
  <2> QED BY <1>8, <2>3, <2>4 DEF SamplesSound
<1> QED BY <1>2, <1>3, <1>7, <1>12, <1>13 DEF CalibrationInv, ws

LEMMA CancelWindowKeeps ==
  ASSUME CalibrationInv, CancelWindow PROVE CalibrationInv'
<1>1. PICK n \in DOMAIN windows :
        windows' = [windows EXCEPT ![n] =
          [windows[n] EXCEPT !.status = "cancelled", !.due = NoDate, !.closed = date]]
  BY DEF CancelWindow
<1>2. samples' = samples /\ date' = date BY DEF CancelWindow
<1> DEFINE w == windows[n]
           v == [w EXCEPT !.status = "cancelled", !.due = NoDate, !.closed = date]
<1>3. windows \in Seq(WindowRecord) /\ w \in WindowRecord /\ date \in Nat
  BY DEF CalibrationInv, WindowsSound
<1>4. windows' = [windows EXCEPT ![n] = v] BY <1>1
<1> HIDE DEF w
<1>5. /\ v \in WindowRecord /\ v.id = w.id /\ v.from = w.from /\ v.ends = w.ends /\ v.closed = date
      /\ v.status = "cancelled"
  BY <1>3, PlacementIs DEF WindowRecord
<1> HIDE DEF v
<1>6. windows' \in Seq(WindowRecord) /\ Len(windows') = Len(windows)
  BY <1>3, <1>4, <1>5
<1>7. \A m \in DOMAIN windows : windows'[m] = IF m = n THEN v ELSE windows[m]
  BY <1>3, <1>4
<1>8. WindowsSound(windows', date) /\ SamplesSound(samples, windows', date)
  BY <1>5, <1>6, <1>7, ChangedWindows DEF w
<1> QED BY <1>2, <1>8 DEF CalibrationInv

LEMMA RecordSampleKeeps ==
  ASSUME CalibrationInv, RecordSample PROVE CalibrationInv'
<1>1. PICK n \in DOMAIN windows, observed \in 0 .. MaxDate :
        LET w  == OpenByDate[n]
            ws == [OpenByDate EXCEPT ![n] = [w EXCEPT !.count = @ + 1,
                     !.due = IF observed + 1 < w.ends THEN observed + 1 ELSE NoDate]]
            all == Newest(<<[of |-> w.id, observed |-> observed, received |-> date]>> \o samples, MaxSamples)
        IN /\ w.status = "active"
           /\ windows' = ws /\ samples' = Retained(all, ws)
           /\ UNCHANGED <<date, testVars>>
  BY Zenon DEF RecordSample
<1> DEFINE old == OpenByDate
           w == old[n]
           due == IF observed + 1 < w.ends THEN observed + 1 ELSE NoDate
           count == w.count + 1
           v == [w EXCEPT !.count = count, !.due = due]
           ws == [old EXCEPT ![n] = v]
           new == [of |-> w.id, observed |-> observed, received |-> date]
           all == Newest(<<new>> \o samples, MaxSamples)
<1>2. w.status = "active" /\ windows' = ws /\ samples' = Retained(all, ws) /\ date' = date
  BY <1>1, Zenon
<1>3. date \in Nat /\ date \in 0 .. MaxDate BY DEF CalibrationInv
<1>4. /\ old \in Seq(WindowRecord) /\ Len(old) = Len(windows) /\ DOMAIN old = DOMAIN windows
      /\ \A m \in DOMAIN windows :
           /\ old[m].id = windows[m].id /\ old[m].from = windows[m].from /\ old[m].ends = windows[m].ends
           /\ old[m].closed = windows[m].closed
           /\ old[m].status = "active" => windows[m].status = "active" /\ date < windows[m].ends
      /\ WindowsSound(old, date) /\ SamplesSound(samples, old, date)
  BY CompletedIs DEF OpenByDate
<1> HIDE DEF old
<1>5. w \in WindowRecord BY <1>4
<1>6. WindowSound(w, date) BY <1>4 DEF WindowsSound
<1>7. date < w.ends /\ w.closed = NoDate /\ w.from <= date
  BY <1>2, <1>4, <1>6 DEF WindowSound
<1> HIDE DEF w
<1>8. due \in Nat /\ count \in Nat BY <1>5, PlacementIs DEF WindowRecord
<1> HIDE DEF due, count
<1>9. /\ v \in WindowRecord /\ v.id = w.id /\ v.from = w.from /\ v.ends = w.ends /\ v.closed = w.closed
      /\ v.status = w.status
  BY <1>5, <1>8 DEF WindowRecord
<1> HIDE DEF v
<1>10. ws \in Seq(WindowRecord) /\ Len(ws) = Len(windows)
  BY <1>4, <1>9
<1>11. \A m \in DOMAIN windows : ws[m] = IF m = n THEN v ELSE old[m]
  BY <1>4
<1> HIDE DEF ws
<1>12. \A m \in DOMAIN windows :
         /\ ws[m].id = windows[m].id /\ ws[m].from = windows[m].from /\ ws[m].ends = windows[m].ends
         /\ ws[m].closed = windows[m].closed
         /\ ws[m].status = "active" => windows[m].status = "active"
  BY <1>4, <1>9, <1>11 DEF w
<1>13. WindowsSound(ws, date) /\ SamplesSound(samples, ws, date)
  BY <1>10, <1>12, ChangedWindows
<1>14. DOMAIN ws = DOMAIN windows BY <1>10, <1>13 DEF CalibrationInv, WindowsSound
<1>15. new \in SampleRecord /\ new.of = w.id /\ new.received = date
  BY <1>3, <1>5 DEF SampleRecord, WindowRecord
<1> HIDE DEF new
<1> HIDE DEF all
<1>16. /\ all \in Seq(SampleRecord) /\ Len(all) <= MaxSamples
       /\ \A k \in DOMAIN all : all[k] = new \/ \E l \in DOMAIN samples : all[k] = samples[l]
  <2>1. samples \in Seq(SampleRecord) BY <1>4 DEF SamplesSound
  <2>2. /\ all \in Seq(SampleRecord) /\ Len(all) <= MaxSamples /\ all[1] = new
        /\ \A k \in DOMAIN all : k # 1 => k - 1 \in DOMAIN samples /\ all[k] = samples[k - 1]
    <3>1. all = Newest(<<new>> \o samples, MaxSamples) BY DEF all
    <3>2. NewestOf(all, new, samples, MaxSamples, SampleRecord)
      BY <1>15, <2>1, <3>1, PlacementIs, NewestIs, Zenon
    <3> QED BY <3>2 DEF NewestOf
  <2> QED BY <2>2
<1>17. ws[n] = v /\ ws[n].id = w.id BY <1>9, <1>11
<1>18. new.of <= NumberOf(ws)
  <2>1. n \in Nat /\ n >= 1 /\ 1 \in DOMAIN ws /\ ws # <<>> /\ n \in DOMAIN ws
    BY <1>10, <1>14
  <2>2. ws[1] \in WindowRecord /\ ws[n] \in WindowRecord BY <1>10, <2>1
  <2>3. n = 1 \/ ws[n].id < ws[1].id BY <1>13, <2>1 DEF WindowsSound
  <2> QED BY <1>15, <1>17, <2>1, <2>2, <2>3 DEF NumberOf, WindowRecord
<1>19. ASSUME NEW m \in DOMAIN ws, new.of = ws[m].id PROVE CameFor(new, ws[m])
  <2>1. m = n
    <3>1. m \in Nat /\ n \in Nat /\ n \in DOMAIN ws BY <1>10, <1>14
    <3>2. ws[m] \in WindowRecord BY <1>10
    <3>3. ws[m].id \in Nat /\ ws[m].id = ws[n].id BY <1>15, <1>17, <1>19, <3>2 DEF WindowRecord
    <3>4. m < n => ws[n].id < ws[m].id BY <1>13, <3>1 DEF WindowsSound
    <3>5. n < m => ws[m].id < ws[n].id BY <1>13, <3>1 DEF WindowsSound
    <3> QED BY <3>1, <3>3, <3>4, <3>5
  <2> QED BY <1>3, <1>7, <1>9, <1>15, <1>17, <2>1, PlacementIs DEF CameFor
<1>20. SamplesSound(all, ws, date)
  BY <1>3, <1>13, <1>15, <1>16, <1>18, <1>19 DEF SamplesSound
<1>21. SamplesSound(Retained(all, ws), ws, date)
  BY <1>20, RetainedAre
<1> QED BY <1>2, <1>3, <1>13, <1>21 DEF CalibrationInv

LEMMA CalibrationStep ==
  ASSUME CalibrationInv, Calibrates \/ DayPasses PROVE CalibrationInv'
<1>1. CASE CleanupCalibrations
  <2>1. windows' = CompleteExpired /\ samples' = Retained(samples, CompleteExpired) /\ date' = date
    BY <1>1 DEF CleanupCalibrations
  <2>2. WindowsSound(CompleteExpired, date) /\ SamplesSound(samples, CompleteExpired, date)
    BY CompletedIs
  <2>3. SamplesSound(Retained(samples, CompleteExpired), CompleteExpired, date)
    BY <2>2, RetainedAre
  <2> QED BY <2>1, <2>2, <2>3 DEF CalibrationInv
<1>2. CASE DayPasses
  <2>1. date < MaxDate /\ date' = date + 1 /\ windows' = windows /\ samples' = samples
    BY <1>2 DEF DayPasses, calibrationVars
  <2>2. date \in 0 .. MaxDate /\ date \in Nat BY DEF CalibrationInv
  <2>3. date' \in 0 .. MaxDate BY <2>1, <2>2, PlacementIs
  <2>4. WindowsSound(windows, date + 1)
    <3>1. ASSUME NEW k \in DOMAIN windows PROVE windows[k].from \in Nat
      <4>1. windows \in Seq(WindowRecord) BY DEF CalibrationInv, WindowsSound
      <4>2. windows[k] \in WindowRecord BY <4>1
      <4> QED BY <4>2 DEF WindowRecord
    <3> QED BY <2>2, <3>1 DEF CalibrationInv, WindowsSound, WindowSound
  <2>5. SamplesSound(samples, windows, date + 1)
    <3>1. ASSUME NEW k \in DOMAIN samples PROVE samples[k].received \in Nat
      <4>1. samples \in Seq(SampleRecord) BY DEF CalibrationInv, SamplesSound
      <4>2. samples[k] \in SampleRecord BY <4>1
      <4> QED BY <4>2 DEF SampleRecord
    <3> QED BY <2>2, <3>1 DEF CalibrationInv, SamplesSound
  <2> QED BY <2>1, <2>3, <2>4, <2>5 DEF CalibrationInv
<1> QED BY <1>1, <1>2, StartWindowKeeps, CancelWindowKeeps, RecordSampleKeeps DEF Calibrates
-----------------------------------------------------------------------------
(* Tests.  A report is of a test that nobody can still speak for: neither  *)
(* the window that is open nor the session that is active.                 *)
SessionRecord ==
  [id : Nat, test : Nat, report : BOOLEAN, how : {"test", "turn", "cancelled"}, said : Nat]

ReportSound(r) == r.report => r.how = "test" /\ r.test = r.said /\ r.test # NoTest

OneReportEach(list) ==
  \A i, j \in DOMAIN list : list[i].report /\ list[j].report /\ list[i].test = list[j].test => i = j

ReportedBefore(list, test) == \E i \in DOMAIN list : list[i].report /\ list[i].test = test

HistorySound(list, last) ==
  /\ list \in Seq(SessionRecord) /\ Len(list) <= MaxRecords
  /\ \A i \in DOMAIN list : ReportSound(list[i]) /\ list[i].test <= last
  /\ OneReportEach(list)

SpokenRecord == [id : 0 .. MaxSessionId, test : Nat, chunks : Nat]

TestsInv ==
  /\ opened \in 0 .. MaxOpened /\ testWindow \in 0 .. opened /\ sessionNo \in 0 .. MaxSessionId
  /\ spoken \in SpokenRecord /\ spoken.test <= opened
  /\ HistorySound(records, opened)
  /\ ~ ReportedBefore(records, testWindow) /\ ~ ReportedBefore(records, spoken.test)
  /\ \A o \in observations : o.test = NoTest

PlacementInv == CalibrationInv /\ TestsInv

LEMMA NobodySpeaks == NotSpoken \in SpokenRecord /\ NotSpoken.test = NoTest /\ NotSpoken.id = 0 /\ NoTest = 0
BY PlacementIs DEF NotSpoken, SpokenRecord, NoTest

LEMMA NoTestNotReported ==
  ASSUME NEW list, NEW last, HistorySound(list, last) PROVE ~ ReportedBefore(list, NoTest)
BY DEF HistorySound, ReportedBefore, ReportSound

LEMMA PlacementInitInv ==
  ASSUME PlacementInit PROVE PlacementInv
<1>1. CalibrationInv
  <2>1. date = 0 /\ windows = <<>> /\ samples = <<>> BY DEF PlacementInit
  <2>2. WindowsSound(<<>>, 0) BY PlacementIs DEF WindowsSound
  <2>3. SamplesSound(<<>>, <<>>, 0) BY PlacementIs DEF SamplesSound
  <2> QED BY <2>1, <2>2, <2>3, PlacementIs DEF CalibrationInv
<1>2. TestsInv
  <2>1. opened = 0 /\ testWindow = 0 /\ spoken = NotSpoken /\ sessionNo = 0 /\ records = <<>> /\ observations = {}
    BY DEF PlacementInit, NoTest
  <2>2. HistorySound(<<>>, 0) BY PlacementIs DEF HistorySound, OneReportEach
  <2>3. \A test : ~ ReportedBefore(<<>>, test) BY DEF ReportedBefore
  <2> QED BY <2>1, <2>2, <2>3, NobodySpeaks, PlacementIs DEF TestsInv
<1> QED BY <1>1, <1>2 DEF PlacementInv

LEMMA CalibrationFrame ==
  ASSUME CalibrationInv, UNCHANGED <<date, calibrationVars>> PROVE CalibrationInv'
BY DEF CalibrationInv, calibrationVars

LEMMA TestsFrame ==
  ASSUME TestsInv, UNCHANGED testVars PROVE TestsInv'
BY DEF TestsInv, testVars

\* A record is added to the history: the reports that were there stay distinct.
LEMMA UpsertIs ==
  ASSUME NEW last \in Nat, HistorySound(records, last), NEW record \in SessionRecord, ReportSound(record),
         record.test <= last, record.report => ~ ReportedBefore(records, record.test)
  PROVE  /\ HistorySound(Upsert(record), last)
         /\ \A test : ReportedBefore(Upsert(record), test) =>
              ReportedBefore(records, test) \/ (record.report /\ record.test = test)
<1> DEFINE places == {n \in DOMAIN records : records[n].id # record.id}
           rest == Kept(records, places)
           list == Upsert(record)
<1>1. records \in Seq(SessionRecord) /\ Len(records) <= MaxRecords /\ places \in SUBSET DOMAIN records
  BY DEF HistorySound
<1>2. list = Newest(<<record>> \o rest, MaxRecords) BY DEF Upsert
<1> HIDE DEF places, list
<1>3. /\ rest \in Seq(SessionRecord)
      /\ \E order \in [DOMAIN rest -> places] : InOrder(order) /\ \A k \in DOMAIN order : rest[k] = records[order[k]]
  BY <1>1, KeptIs
<1> HIDE DEF rest
<1>4. PICK order \in [DOMAIN rest -> places] : InOrder(order) /\ \A k \in DOMAIN order : rest[k] = records[order[k]]
  BY <1>3
<1>5. NewestOf(list, record, rest, MaxRecords, SessionRecord)
  BY <1>2, <1>3, PlacementIs, NewestIs, Zenon
<1>6. /\ list \in Seq(SessionRecord) /\ Len(list) <= MaxRecords /\ list[1] = record
      /\ \A k \in DOMAIN list : k # 1 => k - 1 \in DOMAIN rest /\ list[k] = rest[k - 1]
  BY <1>5 DEF NewestOf
<1>7. \A k \in DOMAIN rest : order[k] \in DOMAIN records /\ rest[k] = records[order[k]]
  BY <1>1, <1>4
<1>8. \A k, l \in DOMAIN rest : k # l => order[k] # order[l]
  <2> SUFFICES ASSUME NEW k \in DOMAIN rest, NEW l \in DOMAIN rest, k < l PROVE order[k] # order[l]
    <3>1. DOMAIN rest \subseteq Nat BY <1>3
    <3> QED BY <3>1
  <2>1. order[k] < order[l] BY <1>4 DEF InOrder
  <2>2. order[k] \in Nat /\ order[l] \in Nat BY <1>1, <1>7
  <2> QED BY <2>1, <2>2
<1>9. \A k \in DOMAIN list : k = 1 \/ (k # 1 /\ k - 1 \in DOMAIN rest /\ list[k] = records[order[k - 1]])
  BY <1>6, <1>7
<1>10. DOMAIN list \subseteq Nat BY <1>6
<1>11. \A k \in DOMAIN list : ReportSound(list[k]) /\ list[k].test <= last
  BY <1>6, <1>7, <1>9 DEF HistorySound
<1>12. OneReportEach(list)
  <2> SUFFICES ASSUME NEW i \in DOMAIN list, NEW j \in DOMAIN list, list[i].report, list[j].report,
                      list[i].test = list[j].test, i # j
               PROVE  FALSE
    BY DEF OneReportEach
  <2>1. CASE i = 1
    <3>1. j - 1 \in DOMAIN rest /\ list[j] = records[order[j - 1]] BY <1>9, <2>1
    <3>2. ReportedBefore(records, record.test) BY <1>6, <1>7, <2>1, <3>1 DEF ReportedBefore
    <3> QED BY <1>6, <2>1, <3>2
  <2>2. CASE j = 1
    <3>1. i - 1 \in DOMAIN rest /\ list[i] = records[order[i - 1]] BY <1>9, <2>2
    <3>2. ReportedBefore(records, record.test) BY <1>6, <1>7, <2>2, <3>1 DEF ReportedBefore
    <3> QED BY <1>6, <2>2, <3>2
  <2>3. CASE i # 1 /\ j # 1
    <3>1. i - 1 \in DOMAIN rest /\ j - 1 \in DOMAIN rest /\ i - 1 # j - 1
      BY <1>9, <1>10, <2>3
    <3>2. list[i] = records[order[i - 1]] /\ list[j] = records[order[j - 1]]
      BY <1>9, <2>3
    <3>3. order[i - 1] # order[j - 1] BY <1>8, <3>1
    <3> QED BY <1>7, <3>1, <3>2, <3>3 DEF HistorySound, OneReportEach
  <2> QED BY <2>1, <2>2, <2>3
<1>13. \A test : ReportedBefore(list, test) =>
         ReportedBefore(records, test) \/ (record.report /\ record.test = test)
  <2> SUFFICES ASSUME NEW test, NEW i \in DOMAIN list, list[i].report, list[i].test = test
               PROVE  ReportedBefore(records, test) \/ (record.report /\ record.test = test)
    BY DEF ReportedBefore
  <2>1. CASE i = 1 BY <1>6, <2>1
  <2>2. CASE i # 1
    BY <1>7, <1>9, <2>2 DEF ReportedBefore
  <2> QED BY <2>1, <2>2
<1> QED BY <1>6, <1>11, <1>12, <1>13 DEF HistorySound, list

\* The report of the session's test, and a session that is filed.
LEMMA CompletingIs ==
  ASSUME TestsInv, spoken.test # NoTest, CompleteTest
  PROVE  /\ HistorySound(records', opened) /\ testWindow' = NoTest
         /\ ~ ReportedBefore(records', NoTest)
<1> DEFINE record == [id |-> spoken.id, test |-> spoken.test, report |-> TRUE, how |-> "test", said |-> spoken.test]
<1>1. records' = Upsert(record) /\ testWindow' = NoTest
  BY DEF CompleteTest, TestOfSession, CloseWindow
<1>2. spoken \in SpokenRecord /\ spoken.test <= opened /\ opened \in Nat BY PlacementIs DEF TestsInv
<1>3. record \in SessionRecord /\ ReportSound(record) /\ record.test = spoken.test
  BY <1>2, PlacementIs DEF SessionRecord, SpokenRecord, ReportSound
<1> HIDE DEF record
<1>4. HistorySound(Upsert(record), opened)
  BY <1>2, <1>3, UpsertIs DEF TestsInv
<1> QED BY <1>1, <1>4, NoTestNotReported

LEMMA FilingIs ==
  ASSUME TestsInv, NEW how \in {"turn", "cancelled"}, how = "turn" => spoken.test = NoTest, FileRecord(how)
  PROVE  /\ HistorySound(records', opened)
         /\ \A test : ReportedBefore(records', test) => ReportedBefore(records, test)
         /\ \A o \in observations' : o.test = NoTest
<1> DEFINE record == [id |-> spoken.id, test |-> spoken.test, report |-> FALSE, how |-> how, said |-> spoken.test]
<1>1. records' = Upsert(record)
  BY DEF FileRecord
<1>2. spoken \in SpokenRecord /\ spoken.test <= opened /\ opened \in Nat BY PlacementIs DEF TestsInv
<1>3. record \in SessionRecord /\ ReportSound(record) /\ record.test = spoken.test /\ ~ record.report
  BY <1>2, PlacementIs DEF SessionRecord, SpokenRecord, ReportSound
<1> HIDE DEF record
<1>4. /\ HistorySound(Upsert(record), opened)
      /\ \A test : ReportedBefore(Upsert(record), test) =>
              ReportedBefore(records, test) \/ (record.report /\ record.test = test)
  BY <1>2, <1>3, UpsertIs DEF TestsInv
<1>5. \A o \in observations' : o.test = NoTest
  BY DEF FileRecord, Observed, ObservationOf, TestsInv
<1> QED BY <1>1, <1>3, <1>4, <1>5

LEMMA SpeechStartsKeeps ==
  ASSUME TestsInv, SpeechStarts PROVE TestsInv'
<1>1. /\ sessionNo < MaxSessionId /\ sessionNo' = sessionNo + 1
      /\ spoken' = [NotSpoken EXCEPT !.id = sessionNo + 1]
      /\ opened' = opened /\ observations' = observations
      /\ \/ spoken.test # NoTest /\ CompleteTest
         \/ UNCHANGED <<records, testWindow>>
  BY DEF SpeechStarts
<1>2. sessionNo' \in 0 .. MaxSessionId
  BY <1>1, PlacementIs DEF TestsInv
<1>3. spoken' \in SpokenRecord /\ spoken'.test = NoTest
  <2>1. NotSpoken.chunks = 0 /\ spoken' = [id |-> sessionNo', test |-> NoTest, chunks |-> 0]
    BY <1>1 DEF NotSpoken
  <2> QED BY <1>2, <2>1 DEF SpokenRecord, NoTest
<1>4. CASE spoken.test # NoTest /\ CompleteTest
  BY <1>1, <1>2, <1>3, <1>4, CompletingIs, PlacementIs DEF TestsInv, NoTest
<1>5. CASE UNCHANGED <<records, testWindow>>
  BY <1>1, <1>2, <1>3, <1>5, NoTestNotReported, PlacementIs DEF TestsInv, NoTest
<1> QED BY <1>1, <1>4, <1>5

LEMMA SpeechHeardKeeps ==
  ASSUME TestsInv, SpeechHeard PROVE TestsInv'
<1> DEFINE test == IF spoken.test = NoTest THEN testWindow ELSE spoken.test
           chunks == spoken.chunks + 1
<1>1. /\ spoken' = [spoken EXCEPT !.chunks = chunks, !.test = test]
      /\ UNCHANGED <<opened, testWindow, sessionNo, records, observations>>
  BY DEF SpeechHeard
<1>2. spoken \in SpokenRecord BY DEF TestsInv
<1>3. /\ chunks \in Nat /\ test \in Nat /\ test <= opened /\ ~ ReportedBefore(records, test)
  <2>1. chunks \in Nat BY <1>2 DEF SpokenRecord
  <2>2. testWindow \in Nat /\ testWindow <= opened BY PlacementIs DEF TestsInv
  <2>3. spoken.test \in Nat /\ spoken.test <= opened BY <1>2 DEF SpokenRecord, TestsInv
  <2> QED BY <2>1, <2>2, <2>3 DEF TestsInv
<1> HIDE DEF test, chunks
<1>4. spoken' \in SpokenRecord /\ spoken'.test = test
  BY <1>1, <1>2, <1>3 DEF SpokenRecord
<1> QED BY <1>1, <1>3, <1>4 DEF TestsInv

LEMMA SpeechEndsKeeps ==
  ASSUME TestsInv, SpeechEnds \/ SpeechCancelled PROVE TestsInv'
<1>1. CASE SpeechEnds
  <2>1. /\ spoken' = NotSpoken /\ opened' = opened /\ sessionNo' = sessionNo
        /\ \/ spoken.test # NoTest /\ CompleteTest /\ UNCHANGED observations
           \/ spoken.test = NoTest /\ FileRecord("turn") /\ UNCHANGED testWindow
    BY <1>1 DEF SpeechEnds
  <2>2. CASE spoken.test # NoTest /\ CompleteTest /\ UNCHANGED observations
    BY <2>1, <2>2, CompletingIs, NobodySpeaks, PlacementIs DEF TestsInv
  <2>3. CASE spoken.test = NoTest /\ FileRecord("turn") /\ UNCHANGED testWindow
    <3>1. /\ HistorySound(records', opened)
          /\ \A test : ReportedBefore(records', test) => ReportedBefore(records, test)
          /\ \A o \in observations' : o.test = NoTest
      BY <2>3, FilingIs
    <3> QED BY <2>1, <2>3, <3>1, NobodySpeaks, PlacementIs DEF TestsInv
  <2> QED BY <2>1, <2>2, <2>3
<1>2. CASE SpeechCancelled
  <2>1. /\ spoken' = NotSpoken /\ opened' = opened /\ sessionNo' = sessionNo /\ testWindow' = testWindow
        /\ FileRecord("cancelled")
    BY <1>2 DEF SpeechCancelled
  <2>2. /\ HistorySound(records', opened)
        /\ \A test : ReportedBefore(records', test) => ReportedBefore(records, test)
        /\ \A o \in observations' : o.test = NoTest
    BY <2>1, FilingIs
  <2>3. ~ ReportedBefore(records', NoTest) BY <2>2, NoTestNotReported
  <2> QED BY <2>1, <2>2, <2>3, NobodySpeaks, PlacementIs DEF TestsInv
<1> QED BY <1>1, <1>2

LEMMA PlaybackReportedKeeps ==
  ASSUME TestsInv, PlaybackReported PROVE TestsInv'
<1>1. PICK n \in DOMAIN records : records[n].how = "turn" /\ records' = Upsert(records[n])
  BY DEF PlaybackReported
<1>2. UNCHANGED <<opened, testWindow, spoken, sessionNo, observations>>
  BY DEF PlaybackReported
<1>3. HistorySound(records, opened) /\ opened \in Nat BY PlacementIs DEF TestsInv
<1> DEFINE record == records[n]
<1>4. record \in SessionRecord /\ ReportSound(record) /\ record.test <= opened
  BY <1>3 DEF HistorySound
<1>5. record.report = FALSE
  BY <1>1, <1>4 DEF ReportSound, SessionRecord
<1>6. records' = Upsert(record) BY <1>1
<1> HIDE DEF record
<1>7. /\ HistorySound(Upsert(record), opened)
      /\ \A test : ReportedBefore(Upsert(record), test) =>
              ReportedBefore(records, test) \/ (record.report /\ record.test = test)
  BY <1>3, <1>4, <1>5, UpsertIs
<1> QED BY <1>2, <1>5, <1>6, <1>7 DEF TestsInv

LEMMA TestsStep ==
  ASSUME TestsInv, TestsPlaces PROVE TestsInv'
<1>1. CASE OpenTest
  <2>1. /\ opened < MaxOpened /\ opened' = opened + 1 /\ testWindow' = opened + 1
        /\ UNCHANGED <<spoken, sessionNo, records, observations>>
    BY <1>1 DEF OpenTest
  <2>2. opened \in Nat /\ opened' \in 0 .. MaxOpened /\ testWindow' \in 0 .. opened'
    BY <2>1, PlacementIs DEF TestsInv
  <2>3. \A i \in DOMAIN records : records[i].test \in Nat /\ records[i].test <= opened
    <3>1. records \in Seq(SessionRecord) BY DEF TestsInv, HistorySound
    <3>2. \A i \in DOMAIN records : records[i] \in SessionRecord BY <3>1
    <3> QED BY <3>2 DEF TestsInv, HistorySound, SessionRecord
  <2>4. HistorySound(records, opened + 1)
    BY <2>2, <2>3 DEF TestsInv, HistorySound
  <2>5. ~ ReportedBefore(records, opened + 1)
    BY <2>2, <2>3 DEF ReportedBefore
  <2>6. spoken.test \in Nat BY DEF TestsInv, SpokenRecord
  <2>7. spoken.test <= opened + 1 BY <2>2, <2>6 DEF TestsInv
  <2> QED BY <2>1, <2>2, <2>4, <2>5, <2>7 DEF TestsInv
<1>2. CASE TestExpires
  <2>1. testWindow' = NoTest /\ UNCHANGED <<opened, spoken, sessionNo, records, observations>>
    BY <1>2 DEF TestExpires
  <2>2. ~ ReportedBefore(records, NoTest) BY NoTestNotReported DEF TestsInv
  <2> QED BY <2>1, <2>2, NobodySpeaks, PlacementIs DEF TestsInv
<1>3. CASE CleanupObservations
  BY <1>3 DEF CleanupObservations, TestsInv
<1>4. CASE EndpointRestarts \/ BackendRestarts
  <2>1. /\ spoken' = NotSpoken /\ UNCHANGED <<opened, records, observations>>
        /\ sessionNo' \in {0, sessionNo} /\ testWindow' \in {NoTest, testWindow}
    BY <1>4 DEF EndpointRestarts, BackendRestarts
  <2>2. ~ ReportedBefore(records, NoTest) BY NoTestNotReported DEF TestsInv
  <2> QED BY <2>1, <2>2, NobodySpeaks, PlacementIs DEF TestsInv
<1> QED BY <1>1, <1>2, <1>3, <1>4, SpeechStartsKeeps, SpeechHeardKeeps, SpeechEndsKeeps,
           PlaybackReportedKeeps
        DEF TestsPlaces

LEMMA PlacementStep ==
  ASSUME PlacementInv, PlacementNext PROVE PlacementInv'
<1>1. CASE Calibrates \/ DayPasses
  <2>1. UNCHANGED testVars
    BY <1>1 DEF Calibrates, StartWindow, CancelWindow, RecordSample, CleanupCalibrations, DayPasses
  <2> QED BY <1>1, <2>1, CalibrationStep, TestsFrame DEF PlacementInv
<1>2. CASE TestsPlaces
  <2>1. UNCHANGED <<date, calibrationVars>>
    BY <1>2 DEF TestsPlaces, OpenTest, TestExpires, SpeechStarts, SpeechHeard, SpeechEnds,
       SpeechCancelled,
                PlaybackReported, CleanupObservations, EndpointRestarts, BackendRestarts
  <2> QED BY <1>2, <2>1, CalibrationFrame, TestsStep DEF PlacementInv
<1> QED BY <1>1, <1>2 DEF PlacementNext

LEMMA PlacementFrame ==
  ASSUME PlacementInv, UNCHANGED placementVars PROVE PlacementInv'
BY CalibrationFrame, TestsFrame DEF PlacementInv, placementVars

LEMMA PlacementShows ==
  ASSUME PlacementInv PROVE PlacementTypeOK /\ SamplesWhileOpen /\ TestsReportedOnce /\ TestsAreNotObserved
<1>1. PlacementTypeOK
  <2>1. \A n \in DOMAIN windows : windows[n] \in WindowRecord
    BY DEF PlacementInv, CalibrationInv, WindowsSound
  <2>2. spoken.id \in 0 .. MaxSessionId /\ spoken.test \in 0 .. opened
    BY PlacementIs DEF PlacementInv, TestsInv, SpokenRecord
  <2> QED BY <2>1, <2>2 DEF PlacementInv, CalibrationInv, WindowsSound, SamplesSound, TestsInv,
             HistorySound,
                            WindowRecord, PlacementTypeOK
<1>2. SamplesWhileOpen
  BY DEF PlacementInv, CalibrationInv, SamplesSound, CameFor, SamplesWhileOpen
<1>3. TestsReportedOnce
  BY DEF PlacementInv, TestsInv, HistorySound, ReportSound, OneReportEach, TestsReportedOnce
<1>4. TestsAreNotObserved
  BY DEF PlacementInv, TestsInv, TestsAreNotObserved
<1> QED BY <1>1, <1>2, <1>3, <1>4

(* persistence/voice_placement_calibration.py, voice/session_manager.py: a *)
(* sample is learned of while its window was open, a test is reported once *)
(* by the session that spoke for it, and is not observed as a turn.        *)
THEOREM LearnedWhileAsked ==
  PlacementSpec => [](PlacementTypeOK /\ SamplesWhileOpen /\ TestsReportedOnce /\ TestsAreNotObserved)
<1>1. PlacementInit => PlacementInv
  BY PlacementInitInv
<1>2. PlacementInv /\ [PlacementNext]_placementVars => PlacementInv'
  BY PlacementStep, PlacementFrame
<1>3. PlacementInv => PlacementTypeOK /\ SamplesWhileOpen /\ TestsReportedOnce /\ TestsAreNotObserved
  BY PlacementShows
<1> QED BY <1>1, <1>2, <1>3, PTL DEF PlacementSpec

-----------------------------------------------------------------------------
(* All services: who takes a step keeps its own invariant, the others      *)
(* stand still.                                                            *)
GrantsKept == SetupInv /\ SpeakersInv /\ PairingInv
FilesKept == AssetsInv /\ SpeakersInv /\ IntentsInv /\ MediaInv /\ PlacementInv
ServicesInv == GrantsKept /\ FilesKept

LEMMA StillAre ==
  ASSUME NEW which, Still(which)
  PROVE  /\ which # "speech" => UNCHANGED everything
         /\ which # "setup" => UNCHANGED <<ovars, rvars>>
         /\ which # "speakers" => UNCHANGED kvars
         /\ which # "pairing" => UNCHANGED pvars
         /\ which # "intents" => UNCHANGED gvars
         /\ which # "media" => UNCHANGED mediaVars
         /\ which # "placement" => UNCHANGED placementVars
BY DEF Still

\* A service that stands still.
LEMMA AssetsRest == AssetsInv /\ UNCHANGED everything => AssetsInv'
BY AssetsFrame
LEMMA SetupRests == SetupInv /\ UNCHANGED part /\ UNCHANGED <<ovars, rvars>> => SetupInv'
BY SetupFrame
LEMMA SpeakersRest == SpeakersInv /\ UNCHANGED kvars => SpeakersInv'
BY SpeakersStep
LEMMA PairingRests == PairingInv /\ UNCHANGED pvars => PairingInv'
BY PairingFrame
LEMMA IntentsRest == IntentsInv /\ UNCHANGED gvars => IntentsInv'
BY IntentsFrame
LEMMA MediaRests == MediaInv /\ UNCHANGED mediaVars => MediaInv'
BY MediaFrame
LEMMA PlacementRests == PlacementInv /\ UNCHANGED placementVars => PlacementInv'
BY PlacementFrame

LEMMA ServicesInitInv == Init => ServicesInv
BY AssetsInitInv, SetupInitInv, SpeakersInitInv, PairingInitInv, IntentsInitInv, MediaInitInv,
   PlacementInitInv
   DEF Init, ServicesInv, GrantsKept, FilesKept

LEMMA ServicesStep == ServicesInv /\ [Next]_allVars => ServicesInv'
<1> USE DEF ServicesInv, GrantsKept, FilesKept
<1> SUFFICES ASSUME ServicesInv, [Next]_allVars PROVE ServicesInv'
  OBVIOUS
<1>1. CASE Speech /\ UNCHANGED part
  <2>1. SpeechNext /\ Still("speech") BY <1>1 DEF Speech
  <2>2. AssetsInv' BY <2>1, AssetsStep
  <2>3. /\ UNCHANGED <<ovars, rvars>> /\ UNCHANGED kvars /\ UNCHANGED pvars /\ UNCHANGED gvars
        /\ UNCHANGED mediaVars /\ UNCHANGED placementVars
    BY <2>1, StillAre
  <2> QED BY <1>1, <2>2, <2>3, SetupRests, SpeakersRest, PairingRests, IntentsRest, MediaRests,
             PlacementRests
<1>2. CASE Setup /\ UNCHANGED part
  <2>1. Still("setup") BY <1>2 DEF Setup
  <2>2. SetupInv' BY <1>2, SetupStep
  <2>3. /\ UNCHANGED everything /\ UNCHANGED kvars /\ UNCHANGED pvars /\ UNCHANGED gvars
        /\ UNCHANGED mediaVars /\ UNCHANGED placementVars
    BY <2>1, StillAre
  <2> QED BY <2>2, <2>3, AssetsRest, SpeakersRest, PairingRests, IntentsRest, MediaRests,
             PlacementRests
<1>3. CASE Speakers /\ UNCHANGED part
  <2>1. SpeakersNext /\ Still("speakers") BY <1>3 DEF Speakers
  <2>2. SpeakersInv' BY <2>1, SpeakersStep
  <2>3. /\ UNCHANGED everything /\ UNCHANGED <<ovars, rvars>> /\ UNCHANGED pvars /\ UNCHANGED gvars
        /\ UNCHANGED mediaVars /\ UNCHANGED placementVars
    BY <2>1, StillAre
  <2> QED BY <1>3, <2>2, <2>3, AssetsRest, SetupRests, PairingRests, IntentsRest, MediaRests,
             PlacementRests
<1>4. CASE Pairing /\ UNCHANGED part
  <2>1. PairingNext /\ Still("pairing") BY <1>4 DEF Pairing, PairingNext
  <2>2. PairingInv' BY <2>1, PairingStep
  <2>3. /\ UNCHANGED everything /\ UNCHANGED <<ovars, rvars>> /\ UNCHANGED kvars /\ UNCHANGED gvars
        /\ UNCHANGED mediaVars /\ UNCHANGED placementVars
    BY <2>1, StillAre
  <2> QED BY <1>4, <2>2, <2>3, AssetsRest, SetupRests, SpeakersRest, IntentsRest, MediaRests,
             PlacementRests
<1>5. CASE Intents /\ UNCHANGED part
  <2>1. RegistryNext /\ Still("intents") BY <1>5 DEF Intents
  <2>2. IntentsInv' BY <2>1, IntentsStep
  <2>3. /\ UNCHANGED everything /\ UNCHANGED <<ovars, rvars>> /\ UNCHANGED kvars /\ UNCHANGED pvars
        /\ UNCHANGED mediaVars /\ UNCHANGED placementVars
    BY <2>1, StillAre
  <2> QED BY <1>5, <2>2, <2>3, AssetsRest, SetupRests, SpeakersRest, PairingRests, MediaRests,
             PlacementRests
<1>6. CASE Media /\ UNCHANGED part
  <2>1. MediaNext /\ Still("media") BY <1>6 DEF Media
  <2>2. MediaInv' BY <2>1, MediaStep
  <2>3. /\ UNCHANGED everything /\ UNCHANGED <<ovars, rvars>> /\ UNCHANGED kvars /\ UNCHANGED pvars
        /\ UNCHANGED gvars /\ UNCHANGED placementVars
    BY <2>1, StillAre
  <2> QED BY <1>6, <2>2, <2>3, AssetsRest, SetupRests, SpeakersRest, PairingRests, IntentsRest,
             PlacementRests
<1>7. CASE Placement /\ UNCHANGED part
  <2>1. PlacementNext /\ Still("placement") BY <1>7 DEF Placement, PlacementNext
  <2>2. PlacementInv' BY <2>1, PlacementStep
  <2>3. /\ UNCHANGED everything /\ UNCHANGED <<ovars, rvars>> /\ UNCHANGED kvars /\ UNCHANGED pvars
        /\ UNCHANGED gvars /\ UNCHANGED mediaVars
    BY <2>1, StillAre
  <2> QED BY <1>7, <2>2, <2>3, AssetsRest, SetupRests, SpeakersRest, PairingRests, IntentsRest,
             MediaRests
<1>8. CASE UNCHANGED allVars
  <2>1. /\ UNCHANGED part /\ UNCHANGED everything /\ UNCHANGED <<ovars, rvars>> /\ UNCHANGED kvars
        /\ UNCHANGED pvars /\ UNCHANGED gvars /\ UNCHANGED mediaVars /\ UNCHANGED placementVars
    BY <1>8 DEF allVars
  <2> QED BY <2>1, AssetsRest, SetupRests, SpeakersRest, PairingRests, IntentsRest, MediaRests,
             PlacementRests
<1> QED BY <1>1, <1>2, <1>3, <1>4, <1>5, <1>6, <1>7, <1>8, Zenon DEF Next

LEMMA GrantsShow == GrantsKept => GrantsInv
<1> SUFFICES ASSUME GrantsKept PROVE GrantsInv
  OBVIOUS
<1>1. ApprovedWasLearned BY SpeakersShow DEF GrantsKept
<1> QED BY <1>1, SetupShows, PairingShows DEF GrantsKept, GrantsInv

LEMMA FilesShow == FilesKept => FilesInv
<1> SUFFICES ASSUME FilesKept PROVE FilesInv
  OBVIOUS
<1>1. SpeakersTypeOK /\ ProfilesAreSound BY SpeakersShow DEF FilesKept
<1> QED BY <1>1, AssetsShow, IntentsShow, MediaShows, PlacementShows DEF FilesKept, FilesInv

(* What the services grant was decided (onboarding/, governance/,          *)
(* speaker_id/, ble_onboarding.py): a step after trust has trust or the    *)
(* token that was issued with it, an approved sample was learned, a lease  *)
(* comes back, and what is sent over it goes to the device asked for; for  *)
(* any number of Cores, of which a node may change from one to another.    *)
THEOREM GrantsWereDecided == Spec => []GrantsInv
<1>1. ServicesInv => GrantsInv
  BY GrantsShow DEF ServicesInv
<1> QED BY <1>1, ServicesInitInv, ServicesStep, PTL DEF Spec

(* What the services keep stays whole (tts/service.py, speaker_id/,        *)
(* assistant/intent_registry.py, endpoint/media.py, the placement stores): *)
(* whatever threads, sweeps and requests come between a read and the write *)
(* that rests on it.                                                       *)
THEOREM KeptFilesStayWhole == Spec => []FilesInv
<1>1. ServicesInv => FilesInv
  BY FilesShow DEF ServicesInv
<1> QED BY <1>1, ServicesInitInv, ServicesStep, PTL DEF Spec
=============================================================================
