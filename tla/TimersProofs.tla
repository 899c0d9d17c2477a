---------------------------- MODULE TimersProofs ----------------------------
(***************************************************************************)
(* Proofs about MCTimers for every number of timers, panels, forecasts and *)
(* dialogues, and every bound: first what is heard, then the two cards of  *)
(* the touch panels, then the cache of timers and the display.             *)
(***************************************************************************)
EXTENDS MCTimers, SequenceTheorems, FiniteSetTheorems, TLAPS

-----------------------------------------------------------------------------
(* Sequences *)

(* One copy or two of an event, as overlapping topic filters deliver it,   *)
(* are added to those on their way.                                        *)
LEMMA Delivered ==
  ASSUME NEW S, NEW s \in Seq(S), NEW e \in S, NEW n \in 1 .. 2
  PROVE  LET t == s \o [k \in 1 .. n |-> e]
         IN /\ t \in Seq(S) /\ Len(t) = Len(s) + n
            /\ \A i \in 1 .. Len(s) : t[i] = s[i]
            /\ \A i \in 1 .. Len(t) : i > Len(s) => t[i] = e
<1> DEFINE c == [k \in 1 .. n |-> e]
<1>1. c \in Seq(S) /\ Len(c) = n
  BY IsASeq
<1>2. Len(s) \in Nat
  BY LenProperties
<1> HIDE DEF c
<1>3. /\ s \o c \in Seq(S) /\ Len(s \o c) = Len(s) + n
      /\ \A i \in 1 .. Len(s) + n :
           (s \o c)[i] = IF i <= Len(s) THEN s[i] ELSE c[i - Len(s)]
  BY <1>1, ConcatProperties
<1>4. \A i \in 1 .. n : c[i] = e
  BY DEF c
<1> QED BY <1>2, <1>3, <1>4 DEF c

(* What is left when the head of a sequence is taken.                      *)
LEMMA Taken ==
  ASSUME NEW S, NEW s \in Seq(S), s # <<>>
  PROVE  /\ Head(s) \in S /\ Head(s) = s[1] /\ Len(s) \in Nat \ {0}
         /\ Tail(s) \in Seq(S) /\ Len(Tail(s)) = Len(s) - 1
         /\ \A i \in 1 .. Len(Tail(s)) :
              i + 1 \in 1 .. Len(s) /\ Tail(s)[i] = s[i + 1]
BY EmptySeq, LenProperties, HeadTailProperties

(* What is left when one element is taken out.                             *)
LEMMA Removed ==
  ASSUME NEW S, NEW s \in Seq(S), NEW k \in 1 .. Len(s)
  PROVE  /\ RemoveAt(s, k) \in Seq(S) /\ Len(RemoveAt(s, k)) = Len(s) - 1
         /\ \A i \in 1 .. Len(s) - 1 :
              RemoveAt(s, k)[i] = s[IF i < k THEN i ELSE i + 1]
<1>1. Len(s) \in Nat /\ \A i \in 1 .. Len(s) : s[i] \in S
  BY LenProperties, ElementOfSeq
<1> DEFINE a == SubSeq(s, 1, k - 1)
           b == SubSeq(s, k + 1, Len(s))
<1>2. /\ a \in Seq(S) /\ Len(a) = k - 1
      /\ \A i \in 1 .. k - 1 : a[i] = s[i]
  BY <1>1, SubSeqProperties
<1>3. /\ b \in Seq(S) /\ Len(b) = Len(s) - k
      /\ \A i \in 1 .. Len(s) - k : b[i] = s[k + i]
  BY <1>1, SubSeqProperties
<1> HIDE DEF a, b
<1>4. /\ a \o b \in Seq(S) /\ Len(a \o b) = Len(s) - 1
      /\ \A i \in 1 .. Len(s) - 1 :
           (a \o b)[i] = IF i <= k - 1 THEN a[i] ELSE b[i - (k - 1)]
  BY <1>1, <1>2, <1>3, ConcatProperties
<1>5. \A i \in 1 .. Len(s) - 1 :
        (a \o b)[i] = s[IF i < k THEN i ELSE i + 1]
  BY <1>1, <1>2, <1>3, <1>4
<1>6. RemoveAt(s, k) = a \o b
  BY DEF RemoveAt, a, b
<1> QED BY <1>4, <1>5, <1>6

(* A list of the newest keys: the new one in front, at most m of them.     *)
LEMMA Remembering ==
  ASSUME NEW S, NEW s \in Seq(S), NEW e \in S, NEW m \in Nat \ {0},
         Len(s) <= m
  PROVE  LET t == SubSeq(<<e>> \o s, 1, IF Len(s) < m THEN Len(s) + 1 ELSE m)
         IN /\ t \in Seq(S) /\ Len(t) = IF Len(s) < m THEN Len(s) + 1 ELSE m
            /\ t[1] = e
            /\ \A i \in 1 .. Len(t) :
                 i = 1 \/ (i - 1 \in 1 .. Len(s) /\ t[i] = s[i - 1])
<1> DEFINE n == IF Len(s) < m THEN Len(s) + 1 ELSE m
           f == <<e>> \o s
           t == SubSeq(f, 1, n)
<1>1. Len(s) \in Nat /\ n \in Nat \ {0} /\ n <= Len(s) + 1
  BY LenProperties
<1>2. <<e>> \in Seq(S) /\ Len(<<e>>) = 1 /\ <<e>>[1] = e
  OBVIOUS
<1>3. /\ f \in Seq(S) /\ Len(f) = Len(s) + 1
      /\ \A i \in 1 .. Len(s) + 1 :
           f[i] = IF i <= 1 THEN <<e>>[i] ELSE s[i - 1]
  BY <1>1, <1>2, ConcatProperties
<1> HIDE DEF n, f
<1>4. \A i \in 1 .. n : f[i] \in S
  BY <1>1, <1>3, ElementOfSeq
<1>5. t \in Seq(S) /\ Len(t) = n /\ \A i \in 1 .. n : t[i] = f[i]
  BY <1>1, <1>4, SubSeqProperties
<1>6. /\ t[1] = e
      /\ \A i \in 1 .. n : i = 1 \/ (i - 1 \in 1 .. Len(s) /\ t[i] = s[i - 1])
  BY <1>1, <1>2, <1>3, <1>5
<1> QED BY <1>5, <1>6 DEF n, f

-----------------------------------------------------------------------------
(* What is heard *)

Happenings == [kind : {"created", "completed", "status"}, subject : Subjects]

Reported(e) == e.kind \in answered[e.subject]

(* Something was done about an alarm: its key is kept, its coroutine       *)
(* waits, or it rang.                                                      *)
TakenUp(t) ==
  \/ \E i \in 1 .. Len(alarmKeys) : alarmKeys[i] = t
  \/ \E i \in 1 .. Len(calls) : calls[i] = Happening("completed", t)
  \/ rang[t] > 0

SpeechTypes ==
  /\ SpeechTypeOK
  /\ answered \in [Subjects -> SUBSET {"created", "completed", "status"}]
  /\ stream \in Seq(Happenings) /\ calls \in Seq(Happenings)
  /\ alarmKeys \in Seq(Asked)
  /\ rang \in [Asked -> Nat]
  /\ \A s \in Subjects : voice[s] = "touched" => s \in Touched

(* An alarm is about a timer, and comes from the timer node; the copies of *)
(* an event follow each other.                                             *)
StreamInOrder ==
  /\ \A i \in 1 .. Len(stream) :
       /\ Reported(stream[i])
       /\ stream[i].kind = "completed" => stream[i].subject \in Asked
       /\ voice[stream[i].subject] # "none"
  /\ \A i, j \in 1 .. Len(stream) : i < j /\ stream[i] = stream[j] => j = i + 1

(* An alarm that was taken up can only be heard once more, next, and then  *)
(* its key is the newest.                                                  *)
TakenUpOnce ==
  \A t \in Asked :
    TakenUp(t) =>
      /\ "completed" \in answered[t]
      /\ \A i \in 1 .. Len(stream) :
           stream[i] = Happening("completed", t)
             => i = 1 /\ Len(alarmKeys) > 0 /\ alarmKeys[1] = t

CallsInOrder ==
  /\ \A k \in 1 .. Len(calls) :
       /\ voice[calls[k].subject] # "none"
       /\ calls[k].kind = "completed" =>
            calls[k].subject \in Asked /\ rang[calls[k].subject] = 0
  /\ \A j, k \in 1 .. Len(calls) :
       calls[j].kind = "completed" /\ calls[j] = calls[k] => j = k

SpeechInv ==
  SpeechTypes /\ StreamInOrder /\ TakenUpOnce /\ CallsInOrder /\ HeardOnce

LEMMA HappeningIs ==
  ASSUME NEW e \in Happenings
  PROVE  /\ e.kind \in {"created", "completed", "status"}
         /\ e.subject \in Subjects
         /\ \A t : e = Happening("completed", t)
                     <=> e.kind = "completed" /\ e.subject = t
BY DEF Happenings, Happening

LEMMA SpeechInitInv == SpeechInit => SpeechInv
<1> SUFFICES ASSUME SpeechInit PROVE SpeechInv
  OBVIOUS
<1> USE DEF SpeechInit
<1>1. SpeechTypes
  BY SpeechAssumption DEF SpeechTypes, SpeechTypeOK
<1>2. StreamInOrder /\ TakenUpOnce /\ CallsInOrder
  BY DEF StreamInOrder, TakenUpOnce, CallsInOrder, TakenUp
<1>3. HeardOnce
  BY SpeechAssumption
     DEF HeardOnce, AlarmsRingOnce, RepliedNotAnnounced, Subjects, Asked
<1> QED BY <1>1, <1>2, <1>3 DEF SpeechInv

(* Sessions only move on: from asking to active or touched, then filed.    *)
LEMMA SessionSpeech ==
  ASSUME SpeechInv, NEW s \in Subjects, Ask(s) \/ EndSession(s)
  PROVE  SpeechInv'
<1>1. /\ voice' \in [Subjects -> {"none", "touched", "active", "filed"}]
      /\ \A r \in Subjects : voice[r] # "none" => voice'[r] # "none"
  BY DEF SpeechInv, SpeechTypes, SpeechTypeOK, Ask, EndSession
<1>a. \A r \in Subjects : voice'[r] = "touched" => r \in Touched
  BY DEF SpeechInv, SpeechTypes, SpeechTypeOK, Ask, EndSession
<1>2. UNCHANGED <<answered, stream, alarmKeys, answerKeys, calls, rang, outcome>>
  BY DEF Ask, EndSession
<1>3. SpeechTypes'
  BY <1>1, <1>a, <1>2 DEF SpeechInv, SpeechTypes, SpeechTypeOK
<1>4. StreamInOrder' /\ CallsInOrder'
  <2>1. /\ \A i \in 1 .. Len(stream) : stream[i].subject \in Subjects
        /\ \A i \in 1 .. Len(calls) : calls[i].subject \in Subjects
    BY ElementOfSeq, HappeningIs DEF SpeechInv, SpeechTypes
  <2> QED BY <1>1, <1>2, <2>1
          DEF SpeechInv, StreamInOrder, CallsInOrder, Reported
<1>5. TakenUpOnce'
  BY <1>2 DEF SpeechInv, TakenUpOnce, TakenUp
<1>6. HeardOnce'
  BY <1>2 DEF SpeechInv, HeardOnce, AlarmsRingOnce, RepliedNotAnnounced
<1> QED BY <1>3, <1>4, <1>5, <1>6 DEF SpeechInv

(* The timer node reports a thing once; the broker delivers it twice.      *)
LEMMA ReportSpeech ==
  ASSUME SpeechInv, NEW s \in Subjects, Report(s)
  PROVE  SpeechInv'
<1>1. PICK kind \in {"created", "completed", "status"}, n \in 1 .. 2 :
        /\ kind = "completed" => s \in Asked
        /\ voice[s] # "none" /\ kind \notin answered[s]
        /\ Len(stream) + n <= InFlight
        /\ answered' = [answered EXCEPT ![s] = @ \cup {kind}]
        /\ stream' = stream \o [k \in 1 .. n |-> Happening(kind, s)]
        /\ UNCHANGED <<voice, alarmKeys, answerKeys, calls, rang, outcome>>
  BY DEF Report, Subjects
<1> DEFINE e == Happening(kind, s)
<1>2. e \in Happenings /\ e.kind = kind /\ e.subject = s
  BY DEF Happening, Happenings
<1>3. /\ stream \in Seq(Happenings) /\ Len(stream) \in Nat
      /\ \A i \in 1 .. Len(stream) : stream[i] \in Happenings
      /\ alarmKeys \in Seq(Asked) /\ Len(alarmKeys) \in Nat
  BY LenProperties, ElementOfSeq DEF SpeechInv, SpeechTypes
<1>4. /\ stream' \in Seq(Happenings) /\ Len(stream') = Len(stream) + n
      /\ \A i \in 1 .. Len(stream) : stream'[i] = stream[i]
      /\ \A i \in 1 .. Len(stream') : i > Len(stream) => stream'[i] = e
  BY <1>1, <1>2, <1>3, Delivered
<1> HIDE DEF e
<1>5. \A i \in 1 .. Len(stream) : stream[i] # e
  BY <1>1, <1>2 DEF SpeechInv, StreamInOrder, Reported
<1>6. \A r \in Subjects : answered[r] \subseteq answered'[r]
  BY <1>1 DEF SpeechInv, SpeechTypes
<1>7. SpeechTypes'
  BY <1>1, <1>3, <1>4, SpeechAssumption
     DEF SpeechInv, SpeechTypes, SpeechTypeOK
<1>8. StreamInOrder'
  <2>1. kind \in answered'[s]
    BY <1>1 DEF SpeechInv, SpeechTypes
  <2>2. ASSUME NEW i \in 1 .. Len(stream')
        PROVE  /\ stream'[i].kind \in answered'[stream'[i].subject]
               /\ stream'[i].kind = "completed" => stream'[i].subject \in Asked
               /\ voice'[stream'[i].subject] # "none"
    <3>1. CASE i \in 1 .. Len(stream)
      BY <3>1, <1>1, <1>3, <1>4, <1>6, HappeningIs
         DEF SpeechInv, StreamInOrder, Reported
    <3>2. CASE i > Len(stream)
      BY <3>2, <2>1, <1>1, <1>2, <1>4
    <3> QED BY <3>1, <3>2, <1>3
  <2>3. ASSUME NEW i \in 1 .. Len(stream'), NEW j \in 1 .. Len(stream'),
               i < j, stream'[i] = stream'[j]
        PROVE  j = i + 1
    <3>1. CASE j \in 1 .. Len(stream)
      BY SMTT(30), <3>1, <2>3, <1>3, <1>4 DEF SpeechInv, StreamInOrder
    <3>2. CASE j > Len(stream)
      BY <3>2, <2>3, <1>1, <1>3, <1>4, <1>5
    <3> QED BY <3>1, <3>2, <1>3
  <2> QED BY <2>2, <2>3 DEF StreamInOrder, Reported
<1>9. TakenUpOnce'
  <2> SUFFICES ASSUME NEW t \in Asked, TakenUp(t)',
                      NEW i \in 1 .. Len(stream'),
                      stream'[i] = Happening("completed", t)
               PROVE  /\ "completed" \in answered'[t]
                      /\ i = 1 /\ Len(alarmKeys) > 0 /\ alarmKeys[1] = t
    <3>1. ASSUME NEW t \in Asked, TakenUp(t)'
          PROVE  "completed" \in answered'[t]
      BY <3>1, <1>1, <1>6 DEF SpeechInv, TakenUpOnce, TakenUp, Subjects
    <3> QED BY <3>1, <1>1 DEF TakenUpOnce
  <2>1. TakenUp(t)
    BY <1>1 DEF TakenUp
  <2>2. "completed" \in answered[t] /\ t \in Subjects
    BY <2>1 DEF SpeechInv, TakenUpOnce, Subjects
  <2>3. stream'[i] # e
    BY <2>2, <1>1, <1>2, HappeningIs
  <2>4. i \in 1 .. Len(stream) /\ stream[i] = stream'[i]
    BY <2>3, <1>3, <1>4
  <2> QED BY <2>1, <2>2, <2>4, <1>6 DEF SpeechInv, TakenUpOnce
<1>10. CallsInOrder' /\ HeardOnce'
  BY <1>1
     DEF SpeechInv, CallsInOrder, HeardOnce, AlarmsRingOnce,
         RepliedNotAnnounced
<1> QED BY <1>7, <1>8, <1>9, <1>10 DEF SpeechInv

(* An alarm that was taken up is recognised, and one that was not is none  *)
(* of those that wait or have rung.                                        *)
LEMMA UnseenIsNew ==
  ASSUME SpeechInv, stream # <<>>, MakesAlarm(stream[1]), ~ Seen(stream[1])
  PROVE  /\ stream[1].subject \in Asked /\ ~ TakenUp(stream[1].subject)
         /\ rang[stream[1].subject] = 0
<1> DEFINE e == stream[1]
           t == e.subject
<1>1. Len(stream) \in Nat \ {0} /\ e \in Happenings /\ 1 \in 1 .. Len(stream)
  BY EmptySeq, ElementOfSeq DEF SpeechInv, SpeechTypes
<1>2. t \in Asked /\ e = Happening("completed", t)
  BY <1>1, HappeningIs DEF MakesAlarm, SpeechInv, StreamInOrder
<1>3. \A i \in 1 .. Len(alarmKeys) : alarmKeys[i] # t
  BY DEF Seen, Contains
<1>4. Len(alarmKeys) \in Nat
  BY LenProperties DEF SpeechInv, SpeechTypes
<1>5. ~ TakenUp(t)
  BY <1>1, <1>2, <1>3, <1>4 DEF SpeechInv, TakenUpOnce
<1>6. rang[t] = 0
  BY <1>2, <1>5 DEF TakenUp, SpeechInv, SpeechTypes
<1> QED BY <1>2, <1>5, <1>6

(* _on_message: the next event makes a coroutine, or is recognised.        *)
LEMMA HearSpeech ==
  ASSUME SpeechInv, Hear
  PROVE  SpeechInv'
<1> DEFINE e == stream[1]
<1>1. /\ stream \in Seq(Happenings) /\ Len(stream) \in Nat \ {0}
      /\ e \in Happenings /\ Head(stream) = e /\ 1 \in 1 .. Len(stream)
      /\ stream' = Tail(stream) /\ stream' \in Seq(Happenings)
      /\ Len(stream') = Len(stream) - 1
      /\ \A i \in 1 .. Len(stream') :
           i + 1 \in 1 .. Len(stream) /\ stream'[i] = stream[i + 1]
  BY Taken, ElementOfSeq DEF SpeechInv, SpeechTypes, Hear
<1>2. /\ calls \in Seq(Happenings) /\ Len(calls) \in Nat
      /\ alarmKeys \in Seq(Asked) /\ Len(alarmKeys) \in Nat
      /\ Len(alarmKeys) <= Remembered
  BY LenProperties DEF SpeechInv, SpeechTypes, SpeechTypeOK
<1>3. /\ UNCHANGED <<voice, answered, rang, outcome>>
      /\ Len(calls) < InFlight
      /\ \/ Seen(e) /\ UNCHANGED <<alarmKeys, answerKeys, calls>>
         \/ ~ Seen(e) /\ RememberKey(e) /\ calls' = Append(calls, e)
  BY <1>1 DEF Hear
<1>4. e.kind \in answered[e.subject] /\ voice[e.subject] # "none"
  BY <1>1 DEF SpeechInv, StreamInOrder, Reported
<1> HIDE DEF e
<1>5. CASE Seen(e) /\ UNCHANGED <<alarmKeys, answerKeys, calls>>
  <2>1. SpeechTypes' /\ CallsInOrder' /\ HeardOnce'
    BY <1>1, <1>3, <1>5, SpeechAssumption
       DEF SpeechInv, SpeechTypes, SpeechTypeOK, CallsInOrder, HeardOnce,
           AlarmsRingOnce, RepliedNotAnnounced
  <2>2. StreamInOrder'
    BY <1>1, <1>3 DEF SpeechInv, StreamInOrder, Reported
  <2>3. TakenUpOnce'
    BY <1>1, <1>3, <1>5 DEF SpeechInv, TakenUpOnce, TakenUp
  <2> QED BY <2>1, <2>2, <2>3 DEF SpeechInv
<1>6. CASE ~ Seen(e) /\ RememberKey(e) /\ calls' = Append(calls, e)
  <2>1. /\ calls' \in Seq(Happenings) /\ Len(calls') = Len(calls) + 1
        /\ \A i \in 1 .. Len(calls) : calls'[i] = calls[i]
        /\ calls'[Len(calls) + 1] = e
    BY <1>1, <1>2, <1>6, AppendProperties
  <2>2. StreamInOrder'
    BY <1>1, <1>3 DEF SpeechInv, StreamInOrder, Reported
  <2>3. CASE ~ MakesAlarm(e)
    <3>1. /\ answerKeys' = answerKeys \cup {e.subject}
          /\ UNCHANGED alarmKeys
      BY <1>6, <2>3 DEF RememberKey
    <3>2. SpeechTypes'
      BY <1>1, <1>2, <1>3, <2>1, <3>1, HappeningIs, SpeechAssumption
         DEF SpeechInv, SpeechTypes, SpeechTypeOK
    <3>3. CallsInOrder'
      <4>1. \A i \in 1 .. Len(calls') :
              i \in 1 .. Len(calls) \/ (i = Len(calls) + 1 /\ calls'[i] = e)
        BY <1>2, <2>1
      <4> QED BY <4>1, <1>3, <1>4, <2>1, <2>3
              DEF SpeechInv, CallsInOrder, MakesAlarm
    <3>4. TakenUpOnce'
      <4>1. \A t \in Asked : TakenUp(t)' => TakenUp(t)
        BY <1>1, <1>2, <1>3, <2>1, <2>3, <3>1, HappeningIs
           DEF TakenUp, MakesAlarm
      <4> QED BY <4>1, <1>1, <1>3, <3>1 DEF SpeechInv, TakenUpOnce
    <3> QED BY <1>3, <2>2, <3>2, <3>3, <3>4
            DEF SpeechInv, HeardOnce, AlarmsRingOnce, RepliedNotAnnounced
  <2>4. CASE MakesAlarm(e)
    <3> DEFINE t0 == e.subject
    <3>1. t0 \in Asked /\ ~ TakenUp(t0) /\ rang[t0] = 0
          /\ e = Happening("completed", t0) /\ e.kind = "completed"
      BY <1>1, <1>6, <2>4, UnseenIsNew, HappeningIs DEF e, MakesAlarm, Hear
    <3>2. /\ alarmKeys' = SubSeq(<<t0>> \o alarmKeys, 1,
               IF Len(alarmKeys) < Remembered THEN Len(alarmKeys) + 1
               ELSE Remembered)
          /\ UNCHANGED answerKeys
      BY <1>6, <2>4 DEF RememberKey
    <3> HIDE DEF t0
    <3>3. /\ alarmKeys' \in Seq(Asked) /\ alarmKeys'[1] = t0
          /\ Len(alarmKeys') \in 1 .. Remembered
          /\ \A i \in 1 .. Len(alarmKeys') :
               i = 1 \/ (i - 1 \in 1 .. Len(alarmKeys)
                         /\ alarmKeys'[i] = alarmKeys[i - 1])
      BY <1>2, <3>1, <3>2, Remembering, SpeechAssumption
    <3>4. SpeechTypes'
      BY <1>1, <1>2, <1>3, <2>1, <3>2, <3>3, SpeechAssumption
         DEF SpeechInv, SpeechTypes, SpeechTypeOK
    <3>5. CallsInOrder'
      <4>1. \A i \in 1 .. Len(calls) : calls[i] # e
        BY <3>1 DEF TakenUp
      <4> QED BY SMTT(30), <1>2, <1>3, <1>4, <2>1, <3>1, <4>1
              DEF SpeechInv, CallsInOrder, t0
    <3>6. TakenUpOnce'
      <4>1. \A t \in Asked : TakenUp(t)' => TakenUp(t) \/ t = t0
        <5> SUFFICES ASSUME NEW t \in Asked, TakenUp(t)', t # t0
                     PROVE  TakenUp(t)
          OBVIOUS
        <5>1. CASE \E i \in 1 .. Len(alarmKeys') : alarmKeys'[i] = t
          BY <5>1, <3>3 DEF TakenUp
        <5>2. CASE \E i \in 1 .. Len(calls') :
                     calls'[i] = Happening("completed", t)
          <6>1. e # Happening("completed", t)
            BY <1>1, HappeningIs DEF t0
          <6> QED BY <5>2, <6>1, <1>2, <2>1 DEF TakenUp
        <5> QED BY <5>1, <5>2, <1>3 DEF TakenUp
      <4>2. \A i \in 1 .. Len(stream') : stream'[i] = e => i = 1
        BY <1>1 DEF SpeechInv, StreamInOrder, e
      <4>3. "completed" \in answered[t0]
        BY <1>4, <3>1 DEF t0
      <4> SUFFICES ASSUME NEW t \in Asked, TakenUp(t)'
                   PROVE  /\ "completed" \in answered[t]
                          /\ \A i \in 1 .. Len(stream') :
                               stream'[i] = Happening("completed", t)
                                 => i = 1 /\ alarmKeys'[1] = t
        BY <1>3, <3>3 DEF TakenUpOnce
      <4>4. CASE t = t0
        BY <4>4, <4>2, <4>3, <3>1, <3>3
      <4>5. CASE TakenUp(t)
        BY <4>5, <1>1 DEF SpeechInv, TakenUpOnce
      <4> QED BY <4>1, <4>4, <4>5
    <3> QED BY <1>3, <2>2, <3>4, <3>5, <3>6
            DEF SpeechInv, HeardOnce, AlarmsRingOnce, RepliedNotAnnounced
  <2> QED BY <2>3, <2>4
<1> QED BY <1>3, <1>5, <1>6

(* A coroutine that has run is gone; the others are the same.              *)
LEMMA CallDone ==
  ASSUME SpeechInv, NEW k \in 1 .. Len(calls), calls' = RemoveAt(calls, k)
  PROVE  /\ calls' \in Seq(Happenings) /\ Len(calls') = Len(calls) - 1
         /\ Len(calls) \in Nat /\ calls[k] \in Happenings
         /\ \A i \in 1 .. Len(calls') :
              \E j \in 1 .. Len(calls) :
                j # k /\ calls'[i] = calls[j] /\ j = IF i < k THEN i ELSE i + 1
<1>1. calls \in Seq(Happenings) /\ Len(calls) \in Nat /\ calls[k] \in Happenings
  BY LenProperties, ElementOfSeq DEF SpeechInv, SpeechTypes
<1>2. /\ calls' \in Seq(Happenings) /\ Len(calls') = Len(calls) - 1
      /\ \A i \in 1 .. Len(calls) - 1 :
           calls'[i] = calls[IF i < k THEN i ELSE i + 1]
  BY <1>1, Removed
<1>3. ASSUME NEW i \in 1 .. Len(calls')
      PROVE  \E j \in 1 .. Len(calls) :
               j # k /\ calls'[i] = calls[j] /\ j = IF i < k THEN i ELSE i + 1
  <2>1. CASE i < k
    BY <2>1, <1>1, <1>2
  <2>2. CASE ~ (i < k)
    BY <2>2, <1>1, <1>2
  <2> QED BY <2>1, <2>2
<1> QED BY <1>1, <1>2, <1>3

LEMMA CallSpeech ==
  ASSUME SpeechInv, NEW k \in 1 .. InFlight, Play(k) \/ Announce(k)
  PROVE  SpeechInv'
<1> DEFINE e == calls[k]
<1>1. /\ k \in 1 .. Len(calls) /\ calls' = RemoveAt(calls, k)
      /\ UNCHANGED <<voice, answered, stream, alarmKeys, answerKeys>>
  BY LenProperties DEF Play, Announce, SpeechInv, SpeechTypes
<1>2. /\ calls' \in Seq(Happenings) /\ Len(calls') = Len(calls) - 1
      /\ Len(calls) \in Nat /\ e \in Happenings
      /\ \A i \in 1 .. Len(calls') :
           \E j \in 1 .. Len(calls) :
             j # k /\ calls'[i] = calls[j] /\ j = IF i < k THEN i ELSE i + 1
  BY <1>1, CallDone
<1>3. /\ e.subject \in Subjects /\ voice[e.subject] # "none"
      /\ e.kind = "completed" => e.subject \in Asked /\ rang[e.subject] = 0
  BY <1>1, <1>2, HappeningIs DEF SpeechInv, CallsInOrder
<1>4. /\ rang' = rang
           \/ (MakesAlarm(e) /\ rang' = [rang EXCEPT ![e.subject] = @ + 1])
      /\ outcome' = outcome
           \/ \E r \in {"skipped", "spoken", "refused"} :
                /\ outcome' = [outcome EXCEPT ![e.subject] = r]
                /\ r = "spoken" => ~ AlreadyReplied(e.subject)
  BY DEF Play, Announce, PushSound, PushAnnouncement
<1> HIDE DEF e
<1>5. rang' \in [Asked -> Nat]
  <2>1. rang \in [Asked -> Nat]
    BY DEF SpeechInv, SpeechTypes
  <2>2. CASE MakesAlarm(e) /\ rang' = [rang EXCEPT ![e.subject] = @ + 1]
    <3>1. rang[e.subject] = 0 /\ e.subject \in Asked
      BY <2>2, <1>3 DEF MakesAlarm
    <3> QED BY <2>1, <2>2, <3>1
  <2> QED BY <2>1, <2>2, <1>4
<1>6. SpeechTypes'
  <2>1. outcome' \in [Subjects -> {"none", "spoken", "skipped", "refused"}]
    BY <1>3, <1>4 DEF SpeechInv, SpeechTypes, SpeechTypeOK
  <2>2. Len(calls') <= InFlight
    BY <1>2, SpeechAssumption DEF SpeechInv, SpeechTypes, SpeechTypeOK
  <2> QED BY <1>1, <1>2, <1>5, <2>1, <2>2
          DEF SpeechInv, SpeechTypes, SpeechTypeOK
<1>7. StreamInOrder'
  BY <1>1 DEF SpeechInv, StreamInOrder, Reported
<1>8. TakenUpOnce'
  <2>1. ASSUME NEW t \in Asked, TakenUp(t)' PROVE TakenUp(t)
    <3>1. CASE \E i \in 1 .. Len(calls') :
                 calls'[i] = Happening("completed", t)
      BY <3>1, <1>2 DEF TakenUp
    <3>2. CASE \E i \in 1 .. Len(alarmKeys') : alarmKeys'[i] = t
      BY <3>2, <1>1 DEF TakenUp
    <3>3. CASE rang'[t] > 0
      <4>1. CASE rang' = rang
        BY <4>1, <3>3 DEF TakenUp
      <4>2. CASE MakesAlarm(e) /\ rang' = [rang EXCEPT ![e.subject] = @ + 1]
        <5>1. CASE t = e.subject
          BY <5>1, <4>2, <1>1, <1>2, HappeningIs DEF TakenUp, MakesAlarm, e
        <5>2. CASE t # e.subject
          BY <5>2, <4>2, <3>3 DEF TakenUp, SpeechInv, SpeechTypes
        <5> QED BY <5>1, <5>2
      <4> QED BY <4>1, <4>2, <1>4
    <3> QED BY <2>1, <3>1, <3>2, <3>3 DEF TakenUp
  <2> QED BY <2>1, <1>1 DEF SpeechInv, TakenUpOnce
<1>9. CallsInOrder'
  <2>1. ASSUME NEW i \in 1 .. Len(calls'), calls'[i].kind = "completed"
        PROVE  calls'[i].subject \in Asked /\ rang'[calls'[i].subject] = 0
    <3>1. PICK j \in 1 .. Len(calls) : j # k /\ calls'[i] = calls[j]
      BY <1>2
    <3>2. calls[j].subject \in Asked /\ rang[calls[j].subject] = 0
      BY <2>1, <3>1 DEF SpeechInv, CallsInOrder
    <3>3. MakesAlarm(e) => calls[j].subject # e.subject
      <4>1. calls[j] \in Happenings
        BY <3>1, ElementOfSeq DEF SpeechInv, SpeechTypes
      <4>2. MakesAlarm(e) => calls[j] # e
        BY <1>1, <3>1 DEF SpeechInv, CallsInOrder, MakesAlarm, e
      <4>3. calls[j].kind = "completed"
        BY <2>1, <3>1
      <4>4. calls[j] = Happening("completed", calls[j].subject)
        BY <4>1, <4>3, HappeningIs
      <4>5. MakesAlarm(e) => e = Happening("completed", e.subject)
        BY <1>2, HappeningIs DEF MakesAlarm
      <4> QED BY <4>2, <4>4, <4>5
    <3>4. rang'[calls[j].subject] = rang[calls[j].subject]
      BY <3>2, <3>3, <1>4 DEF SpeechInv, SpeechTypes
    <3> QED BY <3>1, <3>2, <3>4
  <2>2. ASSUME NEW i \in 1 .. Len(calls'), NEW j \in 1 .. Len(calls'),
               calls'[i].kind = "completed", calls'[i] = calls'[j]
        PROVE  i = j
    BY <2>2, <1>1, <1>2 DEF SpeechInv, CallsInOrder
  <2>3. \A i \in 1 .. Len(calls') : voice'[calls'[i].subject] # "none"
    BY <1>1, <1>2 DEF SpeechInv, CallsInOrder
  <2> QED BY <2>1, <2>2, <2>3 DEF CallsInOrder
<1>10. HeardOnce'
  <2>1. AlarmsRingOnce'
    <3>1. rang \in [Asked -> Nat] /\ \A t \in Asked : rang[t] <= 1
      BY DEF SpeechInv, SpeechTypes, HeardOnce, AlarmsRingOnce
    <3>2. CASE MakesAlarm(e) /\ rang' = [rang EXCEPT ![e.subject] = @ + 1]
      <4>1. rang[e.subject] = 0
        BY <3>2, <1>3 DEF MakesAlarm
      <4> QED BY <3>1, <3>2, <4>1 DEF AlarmsRingOnce
    <3> QED BY <3>1, <3>2, <1>4 DEF AlarmsRingOnce
  <2>2. RepliedNotAnnounced'
    <3>1. AlreadyReplied(e.subject) \/ e.subject \notin Spoken
      BY <1>3, SpeechAssumption
         DEF SpeechInv, SpeechTypes, SpeechTypeOK, AlreadyReplied
    <3> QED BY <3>1, <1>4
            DEF SpeechInv, SpeechTypes, SpeechTypeOK, HeardOnce,
                RepliedNotAnnounced, Subjects, Asked
  <2> QED BY <2>1, <2>2 DEF HeardOnce
<1> QED BY <1>6, <1>7, <1>8, <1>9, <1>10 DEF SpeechInv

LEMMA SpeechStep == SpeechInv /\ [SpeechNext]_svars => SpeechInv'
<1> SUFFICES ASSUME SpeechInv, [SpeechNext]_svars PROVE SpeechInv'
  OBVIOUS
<1>1. CASE UNCHANGED svars
  <2>1. UNCHANGED <<voice, answered, stream, alarmKeys, answerKeys, calls,
                    rang, outcome>>
    BY <1>1 DEF svars
  <2>2. SpeechTypes' /\ StreamInOrder'
    BY <2>1 DEF SpeechInv, SpeechTypes, SpeechTypeOK, StreamInOrder, Reported
  <2>3. TakenUpOnce' /\ CallsInOrder'
    BY <2>1 DEF SpeechInv, TakenUpOnce, TakenUp, CallsInOrder
  <2>4. HeardOnce'
    BY <2>1 DEF SpeechInv, HeardOnce, AlarmsRingOnce, RepliedNotAnnounced
  <2> QED BY <2>2, <2>3, <2>4 DEF SpeechInv
<1> QED BY <1>1, SessionSpeech, ReportSpeech, HearSpeech, CallSpeech
        DEF SpeechNext

-----------------------------------------------------------------------------
(* The timer card *)

(* While a prompt is noted as playing, the microphone was opened less      *)
(* often than prompts were played.                                         *)
ListensFollowPrompts ==
  \A p \in TouchPanels :
    listens[p] < prompts[p] \/ (prompting[p] = NoDialog /\ listens[p] <= prompts[p])

(* A coroutine that speaks knows its dialogue.                             *)
SpeaksForADialog ==
  \A p \in TouchPanels :
    /\ press[p].step \in {"begun", "spoken"} => press[p].dialog \in Dialogs
    /\ answer[p].step # "idle" => answer[p].dialog \in Dialogs

Presses == [step : {"idle", "invoked", "begun", "spoken"},
            dialog : Dialogs \cup {NoDialog}, words : {"nothing"}]

Replies == [step : {"idle", "reading", "confirming", "prompt", "spoken",
                    "goodbye"},
            dialog : Dialogs \cup {NoDialog}, words : Words]

CaptureInv == CaptureTypeOK /\ SpeaksForADialog /\ ListensFollowPrompts

LEMMA CaptureInitInv == CaptureInit => CaptureInv
BY CaptureAssumption
   DEF CaptureInit, CaptureInv, CaptureTypeOK, SpeaksForADialog,
       ListensFollowPrompts, NoAnswer, Words

(* A coroutine has taken a step.                                           *)
LEMMA PressMoves ==
  ASSUME CaptureInv, NEW p \in TouchPanels, NEW v \in Presses,
         v.step \in {"begun", "spoken"} => v.dialog \in Dialogs,
         press' = [press EXCEPT ![p] = v], UNCHANGED answer
  PROVE  press' \in [TouchPanels -> Presses] /\ SpeaksForADialog'
BY DEF CaptureInv, CaptureTypeOK, SpeaksForADialog, Presses

LEMMA AnswerMoves ==
  ASSUME CaptureInv, NEW p \in TouchPanels, NEW v \in Replies,
         v.step # "idle" => v.dialog \in Dialogs,
         answer' = [answer EXCEPT ![p] = v], UNCHANGED press
  PROVE  answer' \in [TouchPanels -> Replies] /\ SpeaksForADialog'
BY DEF CaptureInv, CaptureTypeOK, SpeaksForADialog, Replies

(* A coroutine has ended, or none was there.                               *)
LEMMA NoneAtWork ==
  NoAnswer \in Presses /\ NoAnswer \in Replies /\ NoAnswer.step = "idle"
BY DEF NoAnswer, Presses, Replies, Words

(* A sound for a dialogue is sent to the panel.                            *)
LEMMA SoundSent ==
  ASSUME CaptureInv, NEW p \in TouchPanels, NEW d \in Dialogs,
         sounding' = [sounding EXCEPT ![p] = @ \cup {d}]
  PROVE  sounding' \in [TouchPanels -> SUBSET Dialogs]
BY DEF CaptureInv, CaptureTypeOK

(* A prompt is noted as playing.                                           *)
LEMMA NoteStep ==
  ASSUME CaptureInv, NEW p \in TouchPanels, NEW d \in Dialogs \cup {NoDialog},
         prompts[p] < MaxPrompts, NotePlaying(p, d), UNCHANGED listens
  PROVE  /\ ListensFollowPrompts'
         /\ prompting' \in [TouchPanels -> Dialogs \cup {NoDialog}]
         /\ prompts' \in [TouchPanels -> 0 .. MaxPrompts]
BY CaptureAssumption
   DEF CaptureInv, CaptureTypeOK, ListensFollowPrompts, NotePlaying

LEMMA PressStep ==
  ASSUME CaptureInv, NEW p \in TouchPanels,
         PressTimer(p) \/ PressFails(p) \/ SpeakFirstPrompt(p)
           \/ NoteFirstPrompt(p) \/ \E d \in Dialogs : BeginTimer(p, d)
  PROVE  CaptureInv'
<1>0. press \in [TouchPanels -> Presses]
  BY DEF CaptureInv, CaptureTypeOK, Presses
<1>1. CASE PressTimer(p)
  <2> DEFINE v == [press[p] EXCEPT !.step = "invoked"]
  <2>1. v \in Presses /\ v.step = "invoked"
    BY <1>0 DEF Presses
  <2>2. press' = [press EXCEPT ![p] = v]
    BY <1>1 DEF PressTimer
  <2>3. press' \in [TouchPanels -> Presses] /\ SpeaksForADialog'
    BY <1>1, <2>1, <2>2, PressMoves DEF PressTimer
  <2> QED BY <1>1, <2>3
          DEF PressTimer, CaptureInv, CaptureTypeOK, Presses,
              ListensFollowPrompts, counters
<1>2. CASE PressFails(p)
  <2>1. press' \in [TouchPanels -> Presses] /\ SpeaksForADialog'
    BY <1>2, NoneAtWork, PressMoves DEF PressFails
  <2> QED BY <1>2, <2>1
          DEF PressFails, CaptureInv, CaptureTypeOK, Presses,
              ListensFollowPrompts, counters
<1>3. CASE SpeakFirstPrompt(p)
  <2> DEFINE v == [press[p] EXCEPT !.step = "spoken"]
  <2>1. press[p].dialog \in Dialogs
    BY <1>3 DEF SpeakFirstPrompt, CaptureInv, SpeaksForADialog
  <2>2. v \in Presses /\ v.dialog \in Dialogs
    BY <1>0, <2>1 DEF Presses
  <2>3. press' = [press EXCEPT ![p] = v]
    BY <1>3 DEF SpeakFirstPrompt
  <2>4. press' \in [TouchPanels -> Presses] /\ SpeaksForADialog'
    BY <1>3, <2>2, <2>3, PressMoves DEF SpeakFirstPrompt
  <2>5. sounding' \in [TouchPanels -> SUBSET Dialogs]
    BY <1>3, <2>1, SoundSent DEF SpeakFirstPrompt
  <2> QED BY <1>3, <2>4, <2>5
          DEF SpeakFirstPrompt, CaptureInv, CaptureTypeOK, Presses,
              ListensFollowPrompts, counters
<1>4. CASE NoteFirstPrompt(p)
  <2>1. /\ NotePlaying(p, press[p].dialog) /\ prompts[p] < MaxPrompts
        /\ press[p].dialog \in Dialogs \cup {NoDialog}
        /\ press' = [press EXCEPT ![p] = NoAnswer]
        /\ UNCHANGED <<dialog, timerSession, answer, sounding, listens>>
    BY <1>4 DEF NoteFirstPrompt, CaptureInv, CaptureTypeOK
  <2>2. /\ ListensFollowPrompts'
        /\ prompting' \in [TouchPanels -> Dialogs \cup {NoDialog}]
        /\ prompts' \in [TouchPanels -> 0 .. MaxPrompts]
    BY <2>1, NoteStep
  <2>3. press' \in [TouchPanels -> Presses] /\ SpeaksForADialog'
    BY <2>1, NoneAtWork, PressMoves
  <2> QED BY <2>1, <2>2, <2>3 DEF CaptureInv, CaptureTypeOK, Presses
<1>5. ASSUME NEW d \in Dialogs, BeginTimer(p, d) PROVE CaptureInv'
  <2> DEFINE v == [[press[p] EXCEPT !.step = "begun"] EXCEPT !.dialog = d]
  <2>1. v \in Presses /\ v.dialog = d
    BY <1>0 DEF Presses
  <2>2. press' = [press EXCEPT ![p] = v] /\ UNCHANGED answer
    BY <1>0, <1>5 DEF BeginTimer
  <2> HIDE DEF v
  <2>3. press' \in [TouchPanels -> Presses] /\ SpeaksForADialog'
    BY <2>1, <2>2, PressMoves
  <2> QED BY <1>5, <2>3
          DEF BeginTimer, CaptureInv, CaptureTypeOK, Presses,
              ListensFollowPrompts, counters
<1> QED BY <1>1, <1>2, <1>3, <1>4, <1>5

(* The end of a prompt opens the microphone once, and is forgotten.        *)
LEMMA PlaybackStep ==
  ASSUME CaptureInv, NEW p \in TouchPanels, NEW d \in Dialogs,
         PlaybackEnds(p, d)
  PROVE  CaptureInv'
<1>1. /\ sounding' = [sounding EXCEPT ![p] = @ \ {d}]
      /\ UNCHANGED <<dialog, timerSession, press, answer, prompts>>
  BY DEF PlaybackEnds
<1>2. sounding' \in [TouchPanels -> SUBSET Dialogs] /\ SpeaksForADialog'
  BY <1>1 DEF CaptureInv, CaptureTypeOK, SpeaksForADialog
<1>3. CASE prompting[p] = d
  <2>1. /\ prompting' = [prompting EXCEPT ![p] = NoDialog]
        /\ listens' = [listens EXCEPT ![p] = @ + 1]
    BY <1>3 DEF PlaybackEnds, Completed
  <2>2. listens[p] < prompts[p]
    BY <1>3, CaptureAssumption DEF CaptureInv, ListensFollowPrompts
  <2>3. listens' \in [TouchPanels -> 0 .. MaxPrompts + 1]
    BY <2>1, <2>2, CaptureAssumption DEF CaptureInv, CaptureTypeOK
  <2>4. ListensFollowPrompts'
    BY <1>1, <2>1, <2>2, CaptureAssumption
       DEF CaptureInv, CaptureTypeOK, ListensFollowPrompts
  <2> QED BY <1>1, <1>2, <2>1, <2>3, <2>4 DEF CaptureInv, CaptureTypeOK
<1>4. CASE prompting[p] # d
  BY <1>1, <1>2, <1>4
     DEF PlaybackEnds, Completed, CaptureInv, CaptureTypeOK,
         ListensFollowPrompts
<1> QED BY <1>3, <1>4

(* What an answer's coroutine leaves alone when it moves from step to step.*)
LEMMA AnswerMoved ==
  ASSUME CaptureInv, NEW p \in TouchPanels,
         answer' \in [TouchPanels -> Replies], SpeaksForADialog',
         dialog' \in [Dialogs -> {"new", "awaiting_duration",
                                 "awaiting_confirmation", "ended"}],
         timerSession' \in [TouchPanels -> Dialogs \cup {NoDialog}],
         sounding' \in [TouchPanels -> SUBSET Dialogs],
         UNCHANGED <<prompting, press, counters>>
  PROVE  CaptureInv'
BY DEF CaptureInv, CaptureTypeOK, ListensFollowPrompts, counters, Replies

LEMMA AnswerStep ==
  ASSUME CaptureInv, NEW p \in TouchPanels,
         (\E w \in Words : TurnEnds(p, w)) \/ ReadDialog(p) \/ ConfirmDialog(p)
           \/ SayGoodbye(p) \/ SpeakPrompt(p) \/ NotePrompt(p)
           \/ AnswerFails(p)
  PROVE  CaptureInv'
<1> USE DEF Going, EndAnswer
<1>0. /\ answer \in [TouchPanels -> Replies]
      /\ dialog \in [Dialogs -> {"new", "awaiting_duration",
                                "awaiting_confirmation", "ended"}]
      /\ timerSession \in [TouchPanels -> Dialogs \cup {NoDialog}]
      /\ sounding \in [TouchPanels -> SUBSET Dialogs]
  BY DEF CaptureInv, CaptureTypeOK, Replies
<1>1. ASSUME NEW w \in Words, TurnEnds(p, w) PROVE CaptureInv'
  <2> DEFINE v == [step |-> IF w = "nothing" THEN "prompt" ELSE "reading",
                   dialog |-> timerSession[p], words |-> w]
  <2>1. v \in Replies /\ v.dialog \in Dialogs
    BY <1>0, <1>1 DEF TurnEnds, CaptureActive, Replies
  <2>2. answer' = [answer EXCEPT ![p] = v]
    BY <1>1 DEF TurnEnds
  <2>3. answer' \in [TouchPanels -> Replies] /\ SpeaksForADialog'
    BY <1>1, <2>1, <2>2, AnswerMoves DEF TurnEnds
  <2> QED BY <1>0, <1>1, <2>3, AnswerMoved DEF TurnEnds, counters
<1>2. ASSUME NEW step \in {"confirming", "prompt", "spoken", "goodbye"},
             answer[p].step # "idle",
             answer' = [answer EXCEPT ![p].step = step], UNCHANGED press
      PROVE  answer' \in [TouchPanels -> Replies] /\ SpeaksForADialog'
  <2> DEFINE v == [answer[p] EXCEPT !.step = step]
  <2>1. v \in Replies /\ v.dialog \in Dialogs
    BY <1>0, <1>2 DEF Replies, CaptureInv, SpeaksForADialog
  <2>2. answer' = [answer EXCEPT ![p] = v]
    BY <1>2
  <2> QED BY <1>2, <2>1, <2>2, AnswerMoves
<1>3. ASSUME answer' = [answer EXCEPT ![p] = NoAnswer], UNCHANGED press
      PROVE  answer' \in [TouchPanels -> Replies] /\ SpeaksForADialog'
  BY <1>3, NoneAtWork, AnswerMoves
<1>4. CASE NotePrompt(p)
  <2>1. /\ NotePlaying(p, answer[p].dialog) /\ prompts[p] < MaxPrompts
        /\ answer[p].dialog \in Dialogs \cup {NoDialog}
        /\ answer' = [answer EXCEPT ![p] = NoAnswer]
        /\ UNCHANGED <<dialog, timerSession, press, sounding, listens>>
    BY <1>4 DEF NotePrompt, CaptureInv, CaptureTypeOK
  <2>2. /\ ListensFollowPrompts'
        /\ prompting' \in [TouchPanels -> Dialogs \cup {NoDialog}]
        /\ prompts' \in [TouchPanels -> 0 .. MaxPrompts]
    BY <2>1, NoteStep
  <2>3. answer' \in [TouchPanels -> Replies] /\ SpeaksForADialog'
    BY <2>1, <1>3
  <2> QED BY <2>1, <2>2, <2>3 DEF CaptureInv, CaptureTypeOK, Replies
<1>5. CASE ReadDialog(p)
  <2>1. /\ UNCHANGED <<timerSession, prompting, press, sounding, counters>>
        /\ answer[p].step = "reading"
        /\ dialog' = dialog
             \/ dialog' = [dialog EXCEPT ![answer[p].dialog] =
                             "awaiting_confirmation"]
        /\ \/ \E step \in {"prompt", "confirming"} :
                answer' = [answer EXCEPT ![p].step = step]
           \/ answer' = [answer EXCEPT ![p] = NoAnswer]
    BY <1>5 DEF ReadDialog
  <2>2. answer' \in [TouchPanels -> Replies] /\ SpeaksForADialog'
    BY <2>1, <1>2, <1>3
  <2>3. dialog' \in [Dialogs -> {"new", "awaiting_duration",
                                "awaiting_confirmation", "ended"}]
    BY <1>0, <2>1
  <2> QED BY <1>0, <2>1, <2>2, <2>3, AnswerMoved
<1>6. CASE ConfirmDialog(p)
  <2>1. answer' \in [TouchPanels -> Replies] /\ SpeaksForADialog'
    BY <1>6, <1>2 DEF ConfirmDialog
  <2>2. /\ dialog' \in [Dialogs -> {"new", "awaiting_duration",
                                   "awaiting_confirmation", "ended"}]
        /\ timerSession' \in [TouchPanels -> Dialogs \cup {NoDialog}]
    BY <1>0, <1>6 DEF ConfirmDialog
  <2> QED BY <1>0, <1>6, <2>1, <2>2, AnswerMoved DEF ConfirmDialog
<1>7. CASE SayGoodbye(p) \/ SpeakPrompt(p)
  <2>1. answer[p].dialog \in Dialogs /\ answer[p].step # "idle"
    BY <1>7 DEF SayGoodbye, SpeakPrompt, CaptureInv, SpeaksForADialog
  <2>2. sounding' \in [TouchPanels -> SUBSET Dialogs]
    BY <1>7, <2>1, SoundSent DEF SayGoodbye, SpeakPrompt
  <2>3. answer' \in [TouchPanels -> Replies] /\ SpeaksForADialog'
    BY <1>7, <2>1, <1>2, <1>3 DEF SayGoodbye, SpeakPrompt
  <2> QED BY <1>0, <1>7, <2>2, <2>3, AnswerMoved DEF SayGoodbye, SpeakPrompt
<1>8. CASE AnswerFails(p)
  BY <1>0, <1>3, <1>8, AnswerMoved DEF AnswerFails
<1> QED BY <1>1, <1>4, <1>5, <1>6, <1>7, <1>8

LEMMA CaptureStep == CaptureInv /\ [CaptureNext]_cvars => CaptureInv'
<1> SUFFICES ASSUME CaptureInv, [CaptureNext]_cvars PROVE CaptureInv'
  OBVIOUS
<1>1. CASE UNCHANGED cvars
  BY <1>1
     DEF cvars, CaptureInv, CaptureTypeOK, SpeaksForADialog,
         ListensFollowPrompts
<1>2. ASSUME NEW d \in Dialogs, DialogExpires(d) PROVE CaptureInv'
  <2>1. dialog' \in [Dialogs -> {"new", "awaiting_duration",
                                "awaiting_confirmation", "ended"}]
    BY <1>2 DEF DialogExpires, CaptureInv, CaptureTypeOK
  <2> QED BY <1>2, <2>1
          DEF DialogExpires, CaptureInv, CaptureTypeOK, SpeaksForADialog,
              ListensFollowPrompts, counters
<1> QED BY <1>1, <1>2, PressStep, PlaybackStep, AnswerStep DEF CaptureNext

-----------------------------------------------------------------------------
(* The weather card *)

(* What is about to be shown or drawn is a forecast.                       *)
ForecastsAtHand ==
  /\ telling # NoForecast => forecast # NoForecast
  /\ \A r \in Results :
       /\ work[r] = "show" => forecast # NoForecast
       /\ work[r] \in {"render", "draw"} => drawn[r] # NoForecast

WeatherTypes == WeatherTypeOK /\ ForecastsAtHand

(* A result that is at work or waits was remembered, has not been          *)
(* answered, and is in one place.                                          *)
Remembers(r) == \E i \in 1 .. Len(recalled) : recalled[i] = r

ResultsInOnePlace ==
  /\ \A i, j \in 1 .. Len(recalled) : recalled[i] = recalled[j] => i = j
  /\ \A r \in Results :
       /\ work[r] # "none" => Remembers(r) /\ answers[r] = 0
       /\ answers[r] > 0 => Remembers(r)
  /\ \A p \in Panels :
       awaiting[p] \in Results =>
         /\ p = PanelOf[awaiting[p]] /\ Remembers(awaiting[p])
         /\ work[awaiting[p]] = "none" /\ answers[awaiting[p]] = 0

WeatherInv == WeatherTypes /\ ResultsInOnePlace /\ ResultsAnsweredOnce

(* No more results than the ids that are remembered (100 in the code): a   *)
(* result that was forgotten could be accepted again.                      *)
FewResults == IsFiniteSet(Results) /\ Cardinality(Results) <= MaxSeen

LEMMA WeatherInitInv == WeatherInit => WeatherInv
<1> SUFFICES ASSUME WeatherInit PROVE WeatherInv
  OBVIOUS
<1> USE DEF WeatherInit
<1>1. WeatherTypeOK
  BY WeatherAssumption DEF WeatherTypeOK, NoCard
<1>2. ForecastsAtHand /\ ResultsInOnePlace
  BY WeatherAssumption DEF ForecastsAtHand, ResultsInOnePlace, Remembers
<1>3. ResultsAnsweredOnce
  BY DEF ResultsAnsweredOnce
<1> QED BY <1>1, <1>2, <1>3 DEF WeatherInv, WeatherTypes

(* Steps that touch neither the results nor the table of those that wait:  *)
(* the feed, forecasts, pictures prepared ahead, panels and presses.       *)
LEMMA FeedTypes ==
  ASSUME WeatherTypes,
         \/ StartFeed \/ Subscribed \/ Unsubscribed \/ PrepareAhead
         \/ \E f \in Forecasts : AcceptForecast(f)
         \/ \E p \in Panels : PressWeather(p) \/ PanelComes(p) \/ PanelGoes(p)
  PROVE  /\ WeatherTypes'
         /\ UNCHANGED <<recalled, work, answers>>
         /\ \A p \in Panels : awaiting'[p] \in Results => awaiting'[p] = awaiting[p]
<1> USE DEF loopVars
<1>1. CASE StartFeed \/ Subscribed \/ Unsubscribed \/ PrepareAhead
  BY <1>1
     DEF StartFeed, Subscribed, Unsubscribed, PrepareAhead, WeatherTypes,
         WeatherTypeOK, ForecastsAtHand
<1>2. ASSUME NEW f \in Forecasts, AcceptForecast(f)
      PROVE  /\ WeatherTypes'
             /\ UNCHANGED <<recalled, awaiting, work, answers>>
  BY <1>2, WeatherAssumption
     DEF AcceptForecast, WeatherTypes, WeatherTypeOK, ForecastsAtHand
<1>3. ASSUME NEW p \in Panels, PressWeather(p)
      PROVE  /\ WeatherTypes'
             /\ UNCHANGED <<recalled, work, answers>>
             /\ awaiting' = [awaiting EXCEPT ![p] = Pressed]
  BY <1>3 DEF PressWeather, WeatherTypes, WeatherTypeOK, ForecastsAtHand
<1>4. ASSUME NEW p \in Panels, PanelComes(p) \/ PanelGoes(p)
      PROVE  /\ WeatherTypes'
             /\ UNCHANGED <<recalled, awaiting, work, answers>>
  <2>1. NoCard \in [result : Results \cup {Waitless},
                    forecast : Forecasts \cup {NoForecast}]
    BY DEF NoCard
  <2>2. card' \in [Panels -> [result : Results \cup {Waitless},
                              forecast : Forecasts \cup {NoForecast}]]
    BY <1>4, <2>1 DEF PanelComes, PanelGoes, WeatherTypes, WeatherTypeOK
  <2> QED BY <1>4, <2>2
          DEF PanelComes, PanelGoes, WeatherTypes, WeatherTypeOK,
              ForecastsAtHand
<1>5. ASSUME NEW p \in Panels, PressWeather(p)
      PROVE  \A q \in Panels : awaiting'[q] \in Results => awaiting'[q] = awaiting[q]
  BY <1>3, <1>5, WeatherAssumption DEF WeatherTypes, WeatherTypeOK
<1> QED BY <1>1, <1>2, <1>3, <1>4, <1>5

(* A card is shown, and counted.                                           *)
LEMMA Shown ==
  ASSUME WeatherTypes, NEW r \in Results,
         NEW f \in Forecasts \cup {NoForecast}, OnScreen(r, f)
  PROVE  /\ card' \in [Panels -> [result : Results \cup {Waitless},
                                  forecast : Forecasts \cup {NoForecast}]]
         /\ answers' \in [Results -> 0 .. 2]
         /\ \A s \in Results \ {r} : answers'[s] = answers[s]
         /\ answers[r] = 0 => answers'[r] = 1
<1>1. [result |-> r, forecast |-> f]
        \in [result : Results \cup {Waitless},
             forecast : Forecasts \cup {NoForecast}]
  OBVIOUS
<1>2. card' \in [Panels -> [result : Results \cup {Waitless},
                            forecast : Forecasts \cup {NoForecast}]]
  BY <1>1 DEF OnScreen, WeatherTypes, WeatherTypeOK
<1>3. answers \in [Results -> 0 .. 2]
  BY DEF WeatherTypes, WeatherTypeOK
<1> DEFINE n == IF answers[r] < 2 THEN answers[r] + 1 ELSE 2
<1>4. n \in 0 .. 2 /\ (answers[r] = 0 => n = 1)
  BY <1>3
<1>5. answers' = [answers EXCEPT ![r] = n]
  BY DEF OnScreen
<1> HIDE DEF n
<1> QED BY <1>2, <1>3, <1>4, <1>5

LEMMA CoroutineTypes ==
  ASSUME WeatherTypes, NEW r \in Results,
         \/ AcceptResult(r) \/ HandleResult(r) \/ KeepWaiting(r)
         \/ ShowWeather(r) \/ RenderFor(r) \/ DrawCard(r)
  PROVE  WeatherTypes'
<1> USE WeatherAssumption DEF WeatherTypes
<1>1. CASE AcceptResult(r)
  <2>1. recalled' \in Seq(Results) /\ Len(recalled') <= MaxSeen
    BY <1>1, Remembering, LenProperties DEF AcceptResult, WeatherTypeOK
  <2> QED BY <1>1, <2>1 DEF AcceptResult, WeatherTypeOK, ForecastsAtHand
<1>2. CASE HandleResult(r)
  <2>1. /\ UNCHANGED <<feed, forecast, telling, recalled, rendered, online, drawn>>
        /\ awaiting' \in {awaiting, [awaiting EXCEPT ![PanelOf[r]] = Waitless]}
        /\ \E w \in {"none", "show", "unmatched"} :
             /\ work' = [work EXCEPT ![r] = w]
             /\ w = "show" => forecast # NoForecast
        /\ UNCHANGED <<card, answers>> \/ OnScreen(r, NoForecast)
    BY <1>2 DEF HandleResult, Matches
  <2>2. /\ card' \in [Panels -> [result : Results \cup {Waitless},
                                 forecast : Forecasts \cup {NoForecast}]]
        /\ answers' \in [Results -> 0 .. 2]
    BY <2>1, Shown DEF WeatherTypeOK
  <2>3. awaiting' \in [Panels -> Results \cup {Waitless, Pressed}]
    BY <2>1 DEF WeatherTypeOK
  <2> QED BY <2>1, <2>2, <2>3 DEF WeatherTypeOK, ForecastsAtHand
<1>3. CASE KeepWaiting(r)
  BY <1>3 DEF KeepWaiting, WeatherTypeOK, ForecastsAtHand
<1>4. CASE ShowWeather(r)
  BY <1>4 DEF ShowWeather, WeatherTypeOK, ForecastsAtHand
<1>5. CASE RenderFor(r)
  <2>1. drawn[r] \in Forecasts
    BY <1>5 DEF RenderFor, WeatherTypeOK, ForecastsAtHand
  <2> QED BY <1>5, <2>1 DEF RenderFor, WeatherTypeOK, ForecastsAtHand
<1>6. CASE DrawCard(r)
  <2>1. drawn[r] \in Forecasts \cup {NoForecast}
    BY DEF WeatherTypeOK
  <2>2. /\ card' \in [Panels -> [result : Results \cup {Waitless},
                                 forecast : Forecasts \cup {NoForecast}]]
        /\ answers' \in [Results -> 0 .. 2]
    BY <1>6, <2>1, Shown DEF DrawCard, WeatherTypeOK
  <2> QED BY <1>6, <2>2 DEF DrawCard, WeatherTypeOK, ForecastsAtHand
<1> QED BY <1>1, <1>2, <1>3, <1>4, <1>5, <1>6

(* The listener's coroutines are those of the results that waited.         *)
LEMMA TellTypes ==
  ASSUME WeatherTypes, TellListeners
  PROVE  WeatherTypes'
<1>1. forecast # NoForecast
  BY DEF TellListeners, WeatherTypes, ForecastsAtHand
<1>2. /\ awaiting' \in [Panels -> Results \cup {Waitless, Pressed}]
      /\ work' \in [Results -> {"none", "queued", "unmatched", "show",
                                "render", "draw"}]
      /\ \A r \in Results : work'[r] \in {work[r], "show"}
  BY DEF TellListeners, WeatherTypes, WeatherTypeOK
<1> QED BY <1>1, <1>2
        DEF TellListeners, WeatherTypes, WeatherTypeOK, ForecastsAtHand

LEMMA WeatherTypesStep == WeatherTypes /\ [WeatherNext]_wvars => WeatherTypes'
<1> SUFFICES ASSUME WeatherTypes, [WeatherNext]_wvars PROVE WeatherTypes'
  OBVIOUS
<1>1. CASE UNCHANGED wvars
  BY <1>1 DEF wvars, WeatherTypes, WeatherTypeOK, ForecastsAtHand
<1> QED BY <1>1, FeedTypes, CoroutineTypes, TellTypes DEF WeatherNext

(* While a result is not remembered there is room to remember it.          *)
LEMMA RoomForResult ==
  ASSUME FewResults, WeatherInv, NEW r \in Results, ~ Remembers(r)
  PROVE  Len(recalled) < MaxSeen
<1>1. recalled \in [1 .. Len(recalled) -> Results] /\ Len(recalled) \in Nat
  BY LenProperties DEF WeatherInv, WeatherTypes, WeatherTypeOK
<1>2. recalled \in Injection(1 .. Len(recalled), Results \ {r})
  BY <1>1
     DEF Remembers, WeatherInv, ResultsInOnePlace, Injection, IsInjective
<1>3. /\ IsFiniteSet(Results \ {r})
      /\ Cardinality(Results \ {r}) = Cardinality(Results) - 1
  BY FS_RemoveElement DEF FewResults
<1>4. Cardinality(1 .. Len(recalled)) <= Cardinality(Results \ {r})
  BY <1>2, <1>3, FS_Injection
<1>5. Cardinality(1 .. Len(recalled)) = Len(recalled)
  <2> DEFINE n == Len(recalled)
  <2>1. 1 \in Int /\ n \in Int /\ n \in Nat
    BY <1>1
  <2> HIDE DEF n
  <2>2. Cardinality(1 .. n) = IF 1 > n THEN 0 ELSE n - 1 + 1
    BY <2>1, FS_Interval
  <2> QED BY <2>1, <2>2 DEF n
<1>6. Cardinality(Results) \in Nat
  BY FS_CardinalityType DEF FewResults
<1> QED BY <1>1, <1>3, <1>4, <1>5, <1>6, WeatherAssumption DEF FewResults

(* Only the coroutine of r moves, and the ids remembered are the same.     *)
LEMMA AcceptOnce ==
  ASSUME FewResults, WeatherInv, NEW r \in Results, AcceptResult(r)
  PROVE  ResultsInOnePlace' /\ ResultsAnsweredOnce'
<1>1. /\ recalled \in Seq(Results) /\ Len(recalled) \in Nat
      /\ Len(recalled) <= MaxSeen
      /\ work \in [Results -> {"none", "queued", "unmatched", "show",
                               "render", "draw"}]
  BY LenProperties DEF WeatherInv, WeatherTypes, WeatherTypeOK
<1>2. ~ Remembers(r) /\ Len(recalled) < MaxSeen
  BY RoomForResult DEF AcceptResult, Contains, Remembers
<1>3. /\ work' = [work EXCEPT ![r] = "queued"]
      /\ UNCHANGED <<awaiting, answers>>
      /\ Len(recalled') = Len(recalled) + 1 /\ recalled'[1] = r
      /\ \A i \in 1 .. Len(recalled') :
           i = 1 \/ (i - 1 \in 1 .. Len(recalled)
                     /\ recalled'[i] = recalled[i - 1])
  BY <1>1, <1>2, Remembering, WeatherAssumption DEF AcceptResult
<1>4. \A i, j \in 1 .. Len(recalled') : recalled'[i] = recalled'[j] => i = j
  BY <1>1, <1>2, <1>3 DEF WeatherInv, ResultsInOnePlace, Remembers
<1>5. \A s \in Results : Remembers(s)' <=> Remembers(s) \/ s = r
  <2>1. \A i \in 1 .. Len(recalled) :
          i + 1 \in 1 .. Len(recalled') /\ recalled'[i + 1] = recalled[i]
    BY <1>1, <1>3
  <2>2. 1 \in 1 .. Len(recalled')
    BY <1>1, <1>3
  <2> QED BY <1>3, <2>1, <2>2 DEF Remembers
<1>6. answers[r] = 0
  BY <1>2 DEF WeatherInv, WeatherTypes, WeatherTypeOK, ResultsInOnePlace
<1>7. \A p \in Panels : awaiting[p] # r
  BY <1>2 DEF WeatherInv, ResultsInOnePlace
<1>8. ResultsInOnePlace'
  BY <1>1, <1>3, <1>4, <1>5, <1>6, <1>7 DEF WeatherInv, ResultsInOnePlace
<1> QED BY <1>3, <1>8 DEF WeatherInv, ResultsAnsweredOnce

(* A coroutine of a result goes on, waits, or ends with at most one card.  *)
LEMMA CoroutineOnce ==
  ASSUME WeatherInv, NEW r \in Results,
         \/ HandleResult(r) \/ KeepWaiting(r)
         \/ ShowWeather(r) \/ RenderFor(r) \/ DrawCard(r)
  PROVE  ResultsInOnePlace' /\ ResultsAnsweredOnce'
<1>1. work[r] # "none" /\ UNCHANGED recalled
  BY DEF HandleResult, KeepWaiting, ShowWeather, RenderFor, DrawCard
<1>2. Remembers(r) /\ answers[r] = 0
  BY <1>1 DEF WeatherInv, ResultsInOnePlace
<1>3. PanelOf[r] \in Panels /\ \A p \in Panels : awaiting[p] # r
  BY <1>1, WeatherAssumption DEF WeatherInv, ResultsInOnePlace
<1>4. PICK w : work' = [work EXCEPT ![r] = w]
  BY DEF HandleResult, KeepWaiting, ShowWeather, RenderFor, DrawCard
<1>5. \/ UNCHANGED answers
      \/ w = "none" /\ \E f \in Forecasts \cup {NoForecast} : OnScreen(r, f)
  <2>1. work'[r] = w
    BY <1>4 DEF WeatherInv, WeatherTypes, WeatherTypeOK
  <2> QED BY <2>1
          DEF HandleResult, KeepWaiting, ShowWeather, RenderFor, DrawCard,
              WeatherInv, WeatherTypes, WeatherTypeOK
<1>6. \/ UNCHANGED answers
      \/ /\ w = "none" /\ answers'[r] = 1
         /\ \A s \in Results \ {r} : answers'[s] = answers[s]
  BY <1>2, <1>5, Shown DEF WeatherInv
<1>7. /\ \A p \in Panels : awaiting'[p] \in {awaiting[p], Waitless, r}
      /\ \A p \in Panels : awaiting'[p] = r =>
           p = PanelOf[r] /\ w = "none" /\ UNCHANGED answers
  <2>1. work'[r] = w
    BY <1>4 DEF WeatherInv, WeatherTypes, WeatherTypeOK
  <2>2. CASE KeepWaiting(r)
    BY <2>1, <2>2, <1>3
       DEF KeepWaiting, WeatherInv, WeatherTypes, WeatherTypeOK
  <2>3. CASE ~ KeepWaiting(r)
    <3>1. awaiting' \in {awaiting, [awaiting EXCEPT ![PanelOf[r]] = Waitless]}
      BY <2>3 DEF HandleResult, ShowWeather, RenderFor, DrawCard
    <3>2. Waitless # r
      BY WeatherAssumption
    <3> QED BY <3>1, <3>2, <1>3 DEF WeatherInv, WeatherTypes, WeatherTypeOK
  <2> QED BY <2>2, <2>3
<1>8. \A s \in Results : Remembers(s)' <=> Remembers(s)
  BY <1>1 DEF Remembers
<1>9. /\ work \in [Results -> {"none", "queued", "unmatched", "show",
                               "render", "draw"}]
      /\ answers \in [Results -> 0 .. 2]
      /\ Waitless \notin Results
  BY WeatherAssumption DEF WeatherInv, WeatherTypes, WeatherTypeOK
<1>10. ASSUME NEW s \in Results
       PROVE  /\ work'[s] # "none" => Remembers(s)' /\ answers'[s] = 0
              /\ answers'[s] > 0 => Remembers(s)'
              /\ answers'[s] <= 1
  <2>1. CASE s = r
    BY <2>1, <1>2, <1>4, <1>6, <1>8, <1>9
  <2>2. CASE s # r
    BY <2>2, <1>4, <1>6, <1>8, <1>9
       DEF WeatherInv, ResultsInOnePlace, ResultsAnsweredOnce
  <2> QED BY <2>1, <2>2
<1>11. ASSUME NEW p \in Panels, awaiting'[p] \in Results
       PROVE  /\ p = PanelOf[awaiting'[p]] /\ Remembers(awaiting'[p])
              /\ work'[awaiting'[p]] = "none" /\ answers'[awaiting'[p]] = 0
  <2>1. CASE awaiting'[p] = r
    BY <2>1, <1>2, <1>4, <1>7, <1>9
  <2>2. CASE awaiting'[p] # r
    <3>1. awaiting'[p] = awaiting[p]
      BY <2>2, <1>7, <1>9, <1>11
    <3> QED BY <2>2, <3>1, <1>4, <1>6, <1>9, <1>11
            DEF WeatherInv, ResultsInOnePlace
  <2> QED BY <2>1, <2>2
<1>12. ResultsInOnePlace'
  BY <1>1, <1>10, <1>11 DEF WeatherInv, ResultsInOnePlace, Remembers
<1> QED BY <1>10, <1>12 DEF ResultsAnsweredOnce

(* A result that waited starts again, and does not wait any more.          *)
LEMMA TellOnce ==
  ASSUME WeatherInv, TellListeners
  PROVE  ResultsInOnePlace' /\ ResultsAnsweredOnce'
<1> DEFINE served == {p \in Panels : Matches(telling, awaiting[p])}
<1>1. /\ awaiting' = [p \in Panels |-> IF p \in served THEN Waitless
                                       ELSE awaiting[p]]
      /\ work' = [r \in Results |->
                    IF \E p \in served : awaiting[p] = r THEN "show"
                    ELSE work[r]]
      /\ UNCHANGED <<recalled, answers>>
  BY DEF TellListeners
<1>2. /\ served \subseteq Panels /\ \A p \in served : awaiting[p] \in Results
      /\ Waitless \notin Results
  BY WeatherAssumption DEF Matches
<1> HIDE DEF served
<1>3. ASSUME NEW r \in Results
      PROVE  /\ work'[r] # "none" => Remembers(r)' /\ answers'[r] = 0
             /\ answers'[r] > 0 => Remembers(r)'
  BY <1>1, <1>2 DEF WeatherInv, ResultsInOnePlace, Remembers
<1>4. ASSUME NEW p \in Panels, awaiting'[p] \in Results
      PROVE  /\ p = PanelOf[awaiting'[p]] /\ Remembers(awaiting'[p])
             /\ work'[awaiting'[p]] = "none" /\ answers'[awaiting'[p]] = 0
  <2>1. awaiting'[p] = awaiting[p] /\ p \notin served
    BY <1>1, <1>2, <1>4
  <2>2. ~ \E q \in served : awaiting[q] = awaiting[p]
    BY <2>1, <1>2, <1>4 DEF WeatherInv, ResultsInOnePlace
  <2> QED BY <2>1, <2>2, <1>1, <1>4 DEF WeatherInv, ResultsInOnePlace
<1>5. ResultsInOnePlace'
  BY <1>1, <1>3, <1>4 DEF WeatherInv, ResultsInOnePlace, Remembers
<1> QED BY <1>1, <1>5 DEF WeatherInv, ResultsAnsweredOnce

LEMMA WeatherStep ==
  ASSUME FewResults
  PROVE  WeatherInv /\ [WeatherNext]_wvars => WeatherInv'
<1> SUFFICES ASSUME WeatherInv, [WeatherNext]_wvars
             PROVE  ResultsInOnePlace' /\ ResultsAnsweredOnce'
  BY WeatherTypesStep DEF WeatherInv
<1>1. ASSUME UNCHANGED <<recalled, work, answers>>,
             \A p \in Panels : awaiting'[p] \in Results => awaiting'[p] = awaiting[p]
      PROVE  ResultsInOnePlace' /\ ResultsAnsweredOnce'
  BY <1>1
     DEF WeatherInv, ResultsInOnePlace, Remembers, ResultsAnsweredOnce
<1>2. CASE UNCHANGED wvars
  BY <1>1, <1>2 DEF wvars
<1> QED BY <1>1, <1>2, FeedTypes, AcceptOnce, CoroutineOnce, TellOnce
        DEF WeatherNext, WeatherInv

-----------------------------------------------------------------------------
(* TimerEvents: the cache *)

Own(t) == <<t, "own">>
Prov(t) == <<t, "provisional">>

Kinds == {"created", "active", "over", "unmet", "stop_failed"}
States == {"none", "running", "over", "refused"}

Events == [type : Kinds, timer : Named, id : Ids]
Jobs == [act : {"create", "status", "stop", "adjust", "snooze"},
         timer : Named \cup {Nothing}]
Updates == [timers : SUBSET Ids, stage : 1 .. 2, screen : {"idle", "timer"}]
Records == [last : Kinds \cup {"none"}, dated : BOOLEAN, lapsed : BOOLEAN]

TimerTypes ==
  /\ TimerTypeOK
  /\ due \in [Timers -> Timers] /\ jobs \in Seq(Jobs) /\ link \in Nat
  /\ wire \in Seq(Events) /\ tasks \in Seq(Updates)
  /\ records \in [Ids -> Records] /\ untold \subseteq Named

(* An event names its timer, or the session, by an id of it; the other one *)
(* only a timer's, at its creation.                                        *)
EventsNameIds ==
  \A k \in 1 .. Len(wire) :
    /\ wire[k].id[1] = wire[k].timer
    /\ IF wire[k].type = "created" THEN wire[k].timer \in Timers
       ELSE wire[k].id = Own(wire[k].timer)

(* One request of each kind waits, and creations for timers that are new.  *)
QueuedOnce ==
  /\ \A j, k \in 1 .. Len(jobs) : jobs[j].act = jobs[k].act => j = k
  /\ \A k \in 1 .. Len(jobs) :
       jobs[k].act = "create" =>
         jobs[k].timer \in Timers /\ owner[jobs[k].timer] = "none"

(* A provisional record is that of a creation, and no event gives the      *)
(* session a due time.                                                     *)
ProvisionalOnce ==
  /\ \A t \in Named : records[Prov(t)].last \in {"none", "created"}
  /\ \A i \in Ids : i[1] = Session
                    => records[i].last # "created" /\ ~ records[i].dated

(* The other requests are for timers the node has been heard of.           *)
JobsKnown ==
  \A k \in 1 .. Len(jobs) :
    jobs[k].act # "create" /\ jobs[k].timer \in Timers
      => owner[jobs[k].timer] # "none"

(* Of a timer that does not exist nothing is known or on its way.          *)
UnheardOf ==
  \A t \in Timers :
    owner[t] = "none" =>
      /\ t \notin untold /\ \A k \in 1 .. Len(wire) : wire[k].timer # t
      /\ \A i \in Ids : i[1] = t => records[i].last = "none"

(* A creation is the first that is heard of a timer.                       *)
CreatedFirst ==
  \A k \in 1 .. Len(wire) :
    wire[k].type = "created" =>
      /\ \A j \in 1 .. k - 1 :
           wire[j].timer = wire[k].timer => wire[j] = wire[k]
      /\ \A i \in Ids : i[1] = wire[k].timer /\ i # wire[k].id
                        => records[i].last = "none"

(* A provisional record stays until an event tells the state of its timer; *)
(* a failure without a due time does not find it.                          *)
OneRecord ==
  \A t \in Named :
    Tells(records[Own(t)].last) => records[Prov(t)].last = "none"

(* The last event on its way about a timer says what became of it, and     *)
(* when there is none, the cache does.                                     *)
LastWord ==
  \A t \in Named \ untold : \A k \in 1 .. Len(wire) :
    wire[k].timer = t /\ (\A j \in k + 1 .. Len(wire) : wire[j].timer # t)
      => Tells(wire[k].type) /\ (t \in Running <=> wire[k].type # "over")

CacheAgrees ==
  \A t \in Named \ untold :
    (\A k \in 1 .. Len(wire) : wire[k].timer # t)
      => /\ (\E i \in Active : i[1] = t) <=> t \in Running
         /\ Tells(records[Own(t)].last) \/ records[Own(t)].last = "none"

RequestsInv == TimerTypes /\ EventsNameIds /\ QueuedOnce /\ ProvisionalOnce

Followed ==
  UnheardOf /\ CreatedFirst /\ OneRecord /\ LastWord /\ CacheAgrees

CacheInv == RequestsInv /\ (DuesApart => JobsKnown /\ Followed)

LEMMA IdIs ==
  /\ \A t \in Named : Own(t) \in Ids /\ Prov(t) \in Ids
                      /\ Own(t)[1] = t /\ Prov(t)[1] = t /\ Own(t) # Prov(t)
  /\ \A i \in Ids : i[1] \in Named /\ (i = Own(i[1]) \/ i = Prov(i[1]))
  /\ Timers = Named \ {Session} /\ Session \in Named /\ Nothing \notin Named
<1>1. Timers = Named \ {Session} /\ Session \in Named /\ Named \subseteq Nat
  BY TimerAssumption DEF Named, Session, Timers
<1>2. Nothing \notin Named
  BY <1>1, TimerAssumption
<1> QED BY <1>1, <1>2 DEF Ids, Own, Prov

LEMMA EventIs ==
  ASSUME NEW y \in Kinds, NEW t \in Named, NEW i \in Ids
  PROVE  /\ Event(y, t, i) \in Events
         /\ Event(y, t, i).type = y /\ Event(y, t, i).timer = t
         /\ Event(y, t, i).id = i
BY DEF Event, Events

LEMMA CacheInitInv == TimerInit => CacheInv
<1> SUFFICES ASSUME TimerInit PROVE CacheInv
  OBVIOUS
<1> USE DEF TimerInit
<1>0. QueueSize \in Nat /\ Pending \in Nat /\ Failures \in Nat
  BY TimerAssumption
<1>1. \A S : <<>> \in Seq(S) /\ Len(<<>>) = 0
  BY EmptySeq
<1>2. \A i \in Ids : records[i] = NoRecord
  OBVIOUS
<1>3. NoRecord \in Records /\ NoRecord.last = "none" /\ ~ NoRecord.dated
  BY DEF NoRecord, Records
<1>4. TimerTypeOK
  BY <1>0, <1>1 DEF TimerTypeOK
<1>5. records \in [Ids -> Records]
  BY <1>2, <1>3
<1>6. RequestsInv
  BY <1>1, <1>2, <1>3, <1>4, <1>5, IdIs
     DEF RequestsInv, TimerTypes, EventsNameIds, QueuedOnce, ProvisionalOnce
<1>7. Active = {} /\ Running = {}
  BY <1>2, <1>3 DEF Active, ActiveIn, ActiveAfter, Running
<1>8. JobsKnown /\ UnheardOf /\ CreatedFirst /\ OneRecord /\ LastWord
  BY <1>1, <1>2, <1>3, IdIs
     DEF JobsKnown, UnheardOf, CreatedFirst, OneRecord, LastWord, Tells
<1>9. CacheAgrees
  BY <1>2, <1>3, <1>7, IdIs DEF CacheAgrees
<1> QED BY <1>6, <1>8, <1>9 DEF CacheInv, Followed

(* What the node sends is lost, or is on its way once or twice, last.      *)
LEMMA Sent ==
  ASSUME TimerTypes, NEW e \in Events, Emit(e)
  PROVE  /\ wire' \in Seq(Events) /\ Len(wire') <= Pending
         /\ untold' \subseteq Named
         /\ e.timer \notin untold' => Tells(e.type)
         /\ \A u \in Named \ {e.timer} : u \in untold' <=> u \in untold
         /\ \/ e.timer \in untold' /\ wire' = wire
            \/ /\ Len(wire') > Len(wire)
               /\ \A k \in 1 .. Len(wire) : wire'[k] = wire[k]
               /\ \A k \in 1 .. Len(wire') : k > Len(wire) => wire'[k] = e
<1>1. wire \in Seq(Events) /\ Len(wire) <= Pending /\ Len(wire) \in Nat
      /\ untold \subseteq Named /\ e.timer \in Named
  BY LenProperties DEF TimerTypes, TimerTypeOK, Events
<1>2. /\ untold' \subseteq Named
      /\ e.timer \notin untold' => Tells(e.type)
      /\ \A u \in Named \ {e.timer} : u \in untold' <=> u \in untold
      /\ ~ subscribed => e.timer \in untold'
  BY <1>1 DEF Emit
<1>3. CASE subscribed
  <2>1. PICK n \in 1 .. 2 : /\ Len(wire) + n <= Pending
                            /\ wire' = wire \o [k \in 1 .. n |-> e]
    BY <1>3 DEF Emit
  <2>2. /\ wire' \in Seq(Events) /\ Len(wire') = Len(wire) + n
        /\ \A i \in 1 .. Len(wire) : wire'[i] = wire[i]
        /\ \A i \in 1 .. Len(wire') : i > Len(wire) => wire'[i] = e
    BY <1>1, <2>1, Delivered
  <2>3. Len(wire') > Len(wire) /\ Len(wire') <= Pending
    BY <1>1, <2>1, <2>2
  <2> QED BY <1>2, <2>2, <2>3
<1>4. CASE ~ subscribed
  BY <1>1, <1>2, <1>4 DEF Emit
<1> QED BY <1>3, <1>4

(* The node says what became of a timer, or that it could not do what was  *)
(* asked, of a timer it has or of the session; or it creates a timer.      *)
LEMMA NodeSpeaks ==
  ASSUME RequestsInv, Followed, NEW t \in Named, NEW e \in Events, Emit(e),
         UNCHANGED <<due, records>>, e.timer = t,
         e.type = "created" => t \in Timers /\ owner[t] = "none",
         \A u \in Timers : owner'[u] = "none" => owner[u] = "none" /\ u # t,
         \A u \in Named \ {t} : u \in Running' <=> u \in Running,
         Tells(e.type) => (t \in Running' <=> e.type # "over")
  PROVE  Followed'
<1> DEFINE n == Len(wire)
<1>1. /\ wire \in Seq(Events) /\ n \in Nat /\ untold \subseteq Named
      /\ Len(wire') \in Nat
  BY Sent, LenProperties DEF RequestsInv, TimerTypes
<1>2. /\ t \notin untold' => Tells(e.type)
      /\ \A u \in Named \ {t} : u \in untold' <=> u \in untold
      /\ \/ t \in untold' /\ wire' = wire
         \/ /\ Len(wire') > n
            /\ \A k \in 1 .. n : wire'[k] = wire[k]
            /\ \A k \in 1 .. Len(wire') : k > n => wire'[k] = e
  BY Sent DEF RequestsInv
<1>3. UnheardOf /\ CreatedFirst /\ OneRecord /\ LastWord /\ CacheAgrees
  BY DEF Followed
<1>5. UnheardOf'
  <2> SUFFICES ASSUME NEW u \in Timers, owner'[u] = "none"
               PROVE  /\ u \notin untold'
                      /\ \A k \in 1 .. Len(wire') : wire'[k].timer # u
                      /\ \A i \in Ids : i[1] = u => records[i].last = "none"
    BY DEF UnheardOf
  <2>1. u # t /\ owner[u] = "none" /\ u \in Named
    BY IdIs
  <2>2. /\ u \notin untold /\ \A k \in 1 .. n : wire[k].timer # u
        /\ \A i \in Ids : i[1] = u => records[i].last = "none"
    BY <1>3, <2>1 DEF UnheardOf
  <2> QED BY <1>1, <1>2, <2>1, <2>2
<1>6. CreatedFirst'
  <2> SUFFICES ASSUME NEW k \in 1 .. Len(wire'), wire'[k].type = "created"
               PROVE  /\ \A j \in 1 .. k - 1 :
                           wire'[j].timer = wire'[k].timer
                             => wire'[j] = wire'[k]
                      /\ \A i \in Ids :
                           i[1] = wire'[k].timer /\ i # wire'[k].id
                             => records[i].last = "none"
    BY DEF CreatedFirst
  <2>1. CASE k <= n
    <3>1. k \in 1 .. n /\ wire'[k] = wire[k]
          /\ \A j \in 1 .. k - 1 : wire'[j] = wire[j]
      BY <1>1, <1>2, <2>1
    <3> QED BY <1>3, <3>1 DEF CreatedFirst
  <2>2. CASE k > n
    <3>1. wire'[k] = e /\ \A j \in 1 .. k - 1 : j > n => wire'[j] = e
      BY <1>1, <1>2, <2>2
    <3>2. \A j \in 1 .. n : wire'[j] = wire[j]
      BY <1>2
    <3>3. t \in Timers /\ owner[t] = "none"
      BY <3>1
    <3>4. /\ \A j \in 1 .. n : wire[j].timer # t
          /\ \A i \in Ids : i[1] = t => records[i].last = "none"
      BY <1>3, <3>3 DEF UnheardOf
    <3> QED BY <1>1, <3>1, <3>2, <3>4
  <2> QED BY <1>1, <1>2, <2>1, <2>2
<1>7. OneRecord'
  BY <1>3 DEF OneRecord
<1>8. LastWord'
  <2> SUFFICES ASSUME NEW u \in Named \ untold', NEW k \in 1 .. Len(wire'),
                      wire'[k].timer = u,
                      \A j \in k + 1 .. Len(wire') : wire'[j].timer # u
               PROVE  Tells(wire'[k].type)
                      /\ (u \in Running' <=> wire'[k].type # "over")
    BY DEF LastWord
  <2>1. CASE u = t
    <3>1. /\ Tells(e.type) /\ Len(wire') > n
          /\ \A j \in 1 .. Len(wire') : j > n => wire'[j] = e
      BY <1>2, <2>1
    <3>2. k > n
      BY <1>1, <1>2, <2>1, <3>1
    <3> QED BY <2>1, <3>1, <3>2
  <2>2. CASE u # t
    <3>1. u \notin untold
      BY <1>2, <2>2
    <3>2. k \in 1 .. n /\ wire'[k] = wire[k]
          /\ \A j \in k + 1 .. n : wire'[j] = wire[j]
      BY <1>1, <1>2, <2>2
    <3>3. \A j \in k + 1 .. n : wire[j].timer # u
      BY <1>1, <1>2, <3>2
    <3>4. Tells(wire[k].type) /\ (u \in Running <=> wire[k].type # "over")
      BY <1>3, <3>1, <3>2, <3>3 DEF LastWord
    <3> QED BY <2>2, <3>2, <3>4
  <2> QED BY <2>1, <2>2
<1>9. CacheAgrees'
  <2> SUFFICES ASSUME NEW u \in Named \ untold',
                      \A k \in 1 .. Len(wire') : wire'[k].timer # u
               PROVE  /\ (\E i \in Active : i[1] = u) <=> u \in Running'
                      /\ Tells(records[Own(u)].last)
                         \/ records[Own(u)].last = "none"
    BY DEF CacheAgrees, Active, ActiveIn
  <2>1. u # t /\ u \notin untold
    BY <1>1, <1>2
  <2>2. \A k \in 1 .. n : wire[k].timer # u
    BY <1>1, <1>2
  <2> QED BY <1>3, <2>1, <2>2 DEF CacheAgrees
<1> QED BY <1>5, <1>6, <1>7, <1>8, <1>9 DEF Followed

(* An event of the node keeps the types and the cache's account.           *)
LEMMA NodeStep ==
  ASSUME RequestsInv, DuesApart => Followed,
         NEW y \in Kinds, NEW t \in Named, NEW k \in {"own", "provisional"},
         Emit(Event(y, t, <<t, k>>)), UNCHANGED <<due, records>>,
         y # "created" => k = "own",
         y = "created" => t \in Timers /\ owner[t] = "none",
         DuesApart =>
           \A u \in Timers : owner'[u] = "none" => owner[u] = "none" /\ u # t,
         \A u \in Named \ {t} : u \in Running' <=> u \in Running,
         Tells(y) => (t \in Running' <=> y # "over")
  PROVE  /\ wire' \in Seq(Events) /\ Len(wire') <= Pending
         /\ untold' \subseteq Named /\ EventsNameIds'
         /\ DuesApart' => Followed'
<1> DEFINE i == <<t, k>>
           e == Event(y, t, i)
<1>1. i \in Ids /\ i[1] = t /\ (k = "own" => i = Own(t))
  BY DEF Ids, Own
<1>2. Emit(e)
  OBVIOUS
<1> HIDE DEF i
<1>3. e \in Events /\ e.type = y /\ e.timer = t /\ e.id = i
  BY <1>1, EventIs
<1> HIDE DEF e
<1>4. TimerTypes /\ EventsNameIds /\ Len(wire) \in Nat
  BY LenProperties DEF RequestsInv, TimerTypes
<1>5. /\ wire' \in Seq(Events) /\ Len(wire') <= Pending
      /\ untold' \subseteq Named
      /\ \A j \in 1 .. Len(wire') :
           (j \in 1 .. Len(wire) /\ wire'[j] = wire[j]) \/ wire'[j] = e
  <2>1. CASE wire' = wire
    BY <1>2, <1>3, <1>4, <2>1, Sent
  <2>2. CASE wire' # wire
    BY <1>2, <1>3, <1>4, <2>2, Sent, LenProperties
  <2> QED BY <2>1, <2>2
<1>6. EventsNameIds'
  <2>1. /\ e.id[1] = e.timer
        /\ IF e.type = "created" THEN e.timer \in Timers ELSE e.id = Own(e.timer)
    BY <1>1, <1>3
  <2> QED BY <1>4, <1>5, <2>1 DEF EventsNameIds
<1>7. ASSUME DuesApart' PROVE Followed'
  <2>1. DuesApart /\ Followed
    BY <1>7 DEF DuesApart
  <2> QED BY <1>2, <1>3, <2>1, NodeSpeaks
<1> QED BY <1>5, <1>6, <1>7

(* CreateTimer: of a request for a timer that does not exist.              *)
LEMMA CreateStep ==
  ASSUME CacheInv, NEW t \in Timers, NEW k \in {"own", "provisional"},
         owner[t] = "none", owner' = [owner EXCEPT ![t] = "running"],
         Emit(Event("created", t, <<t, k>>)),
         UNCHANGED <<due, records>>
  PROVE  /\ wire' \in Seq(Events) /\ Len(wire') <= Pending
         /\ untold' \subseteq Named /\ EventsNameIds'
         /\ DuesApart' => Followed'
<1>1. RequestsInv /\ (DuesApart => Followed)
      /\ owner \in [Timers -> States]
  BY DEF CacheInv, RequestsInv, TimerTypes, TimerTypeOK, States
<1>2. /\ "created" \in Kinds /\ t \in Named
      /\ \A u \in Timers : owner'[u] = "none" => owner[u] = "none" /\ u # t
      /\ \A u \in Named \ {t} : u \in Running' <=> u \in Running
      /\ t \in Running'
  BY <1>1, IdIs DEF Kinds, Running
<1> QED BY <1>1, <1>2, NodeStep

(* Answered, a timer that completes, and a failure that tells the state.   *)
LEMMA ChangeStep ==
  ASSUME CacheInv, NEW t \in Named, NEW y \in {"active", "over"},
         Emit(Event(y, t, <<t, "own">>)), UNCHANGED <<due, records>>,
         DuesApart =>
           \A u \in Timers : owner'[u] = "none" => owner[u] = "none" /\ u # t,
         \A u \in Named \ {t} : u \in Running' <=> u \in Running,
         t \in Running' <=> y # "over"
  PROVE  /\ wire' \in Seq(Events) /\ Len(wire') <= Pending
         /\ untold' \subseteq Named /\ EventsNameIds'
         /\ DuesApart' => Followed'
<1>1. RequestsInv /\ (DuesApart => Followed) /\ y \in Kinds /\ y # "created"
  BY DEF CacheInv, Kinds
<1> QED BY <1>1, NodeStep

(* A failure that does not tell the state.                                 *)
LEMMA FailStep ==
  ASSUME CacheInv, NEW t \in Named, NEW y \in {"unmet", "stop_failed"},
         Emit(Event(y, t, <<t, "own">>)), UNCHANGED <<due, records>>,
         DuesApart =>
           \A u \in Timers : owner'[u] = "none" => owner[u] = "none" /\ u # t,
         Running' = Running
  PROVE  /\ wire' \in Seq(Events) /\ Len(wire') <= Pending
         /\ untold' \subseteq Named /\ EventsNameIds'
         /\ DuesApart' => Followed'
<1>1. /\ RequestsInv /\ (DuesApart => Followed)
      /\ y \in Kinds /\ y # "created" /\ ~ Tells(y)
  BY DEF CacheInv, Kinds, Tells
<1> QED BY <1>1, NodeStep

(* What the publisher's thread may do about the timers.                    *)
LEMMA PublishStep == CacheInv /\ Publish => CacheInv'
<1> SUFFICES ASSUME CacheInv, Publish PROVE CacheInv'
  OBVIOUS
<1> DEFINE job == Head(jobs)
<1>0. TimerTypes /\ EventsNameIds /\ QueuedOnce /\ ProvisionalOnce
  BY DEF CacheInv, RequestsInv
<1>1. /\ jobs # <<>> /\ jobs' = Tail(jobs)
      /\ UNCHANGED <<due, link, records, tasks, shown>>
  BY DEF Publish
<1>2. /\ job \in Jobs /\ job = jobs[1] /\ Len(jobs) \in Nat \ {0}
      /\ jobs' \in Seq(Jobs) /\ Len(jobs') = Len(jobs) - 1
      /\ \A k \in 1 .. Len(jobs') :
           k + 1 \in 1 .. Len(jobs) /\ jobs'[k] = jobs[k + 1]
  BY <1>0, <1>1, Taken DEF TimerTypes
<1>3. /\ Len(jobs) <= QueueSize /\ QueueSize \in Nat
      /\ owner \in [Timers -> States]
      /\ denied \in 0 .. Failures /\ Failures \in Nat
  BY <1>0, TimerAssumption DEF TimerTypes, TimerTypeOK, States
<1>4. job.act = "create" => job.timer \in Timers /\ owner[job.timer] = "none"
  BY <1>0, <1>2 DEF QueuedOnce
<1>5. DuesApart => (job.timer \in Timers /\ job.act # "create"
                      => owner[job.timer] # "none")
  BY <1>2 DEF CacheInv, JobsKnown
<1>6. \A k \in 1 .. Len(jobs') : jobs'[k].act # job.act
  BY <1>0, <1>2 DEF QueuedOnce
<1> DEFINE Heard ==
             /\ wire' \in Seq(Events) /\ Len(wire') <= Pending
             /\ untold' \subseteq Named /\ EventsNameIds'
             /\ DuesApart' => Followed'
           Kept == /\ owner' \in [Timers -> States] /\ denied' \in 0 .. Failures
                   /\ \A u \in Timers : owner'[u] = "none" => owner[u] = "none"
                   /\ \A u \in Timers : job.act # "create" /\ owner[u] = "none"
                                        => owner'[u] = "none"
<1> HIDE DEF job
<1>7. Heard /\ Kept
  <2>1. ASSUME NEW may \in {"running", "over"},
               NEW then \in {"running", "over"}, Answered(job, may, then)
        PROVE  Heard /\ Kept
    <3> DEFINE y == IF then = "over" THEN "over" ELSE "active"
    <3>1. PICK t \in Timers :
            /\ owner[t] = may /\ owner' = [owner EXCEPT ![t] = then]
            /\ UNCHANGED denied /\ Emit(Event(y, t, <<t, "own">>))
      BY <2>1 DEF Answered
    <3>2. y \in {"active", "over"} /\ (y = "over" <=> then = "over")
      OBVIOUS
    <3> HIDE DEF y
    <3>3. /\ t \in Named /\ (t \in Running' <=> y # "over")
          /\ \A u \in Timers : owner'[u] = "none" => owner[u] = "none" /\ u # t
          /\ \A u \in Named \ {t} : u \in Running' <=> u \in Running
      BY <1>3, <2>1, <3>1, <3>2, IdIs DEF Running
    <3>4. Heard
      BY <1>1, <3>1, <3>2, <3>3, ChangeStep
    <3>5. Kept
      BY <1>3, <3>1 DEF States
    <3> QED BY <3>4, <3>5
  <2>2. CASE CreateTimer(job)
    <3>1. /\ job.act = "create" /\ owner' = [owner EXCEPT ![job.timer] = "running"]
          /\ UNCHANGED denied
          /\ \E k \in {"own", "provisional"} :
               Emit(Event("created", job.timer, <<job.timer, k>>))
      BY <2>2 DEF CreateTimer
    <3>2. Heard
      BY <1>1, <1>4, <3>1, CreateStep
    <3>3. Kept
      BY <1>3, <1>4, <3>1 DEF States
    <3> QED BY <3>2, <3>3
  <2>3. CASE TellStatus(job) \/ AdjustTimer(job)
    BY <2>1, <2>3 DEF TellStatus, AdjustTimer
  <2>4. CASE ControlTimer(job)
    BY <2>1, <2>4 DEF ControlTimer
  <2>5. CASE SnoozeTimer(job)
    BY <2>1, <2>5 DEF SnoozeTimer
  <2>6. CASE NotPublished
    <3>1. UNCHANGED <<owner, denied, wire, untold>>
      BY <2>6 DEF NotPublished
    <3>2. Running' = Running /\ Active' = Active /\ DuesApart' = DuesApart
      BY <1>1, <3>1 DEF Running, Active, ActiveIn, DuesApart
    <3>3. Heard
      BY <1>0, <1>1, <3>1, <3>2
         DEF TimerTypes, TimerTypeOK, EventsNameIds, CacheInv, Followed,
             UnheardOf, CreatedFirst, OneRecord, LastWord, CacheAgrees
    <3> QED BY <1>3, <3>1, <3>3
  <2>7. CASE Denied(job)
    <3>1. /\ job.act \in {"create", "status", "adjust", "stop"}
          /\ job.timer \in Named \cup {Nothing}
          /\ owner' = IF job.act = "create"
                      THEN [owner EXCEPT ![job.timer] = "refused"] ELSE owner
          /\ denied' \in 0 .. Failures
      BY <1>2, <1>3, <2>7 DEF Denied, FailureOf, Jobs
    <3>2. Kept /\ Running' = Running
      BY <1>3, <1>4, <3>1 DEF States, Running
    <3>3. DuesApart =>
            \A u \in Timers : owner'[u] = "none" =>
              owner[u] = "none" /\ u # job.timer /\ u # Session
      BY <1>3, <1>4, <1>5, <3>1, IdIs
    <3>4. CASE /\ job.timer # Nothing
               /\ Emit(Event(IF job.timer \in Running THEN "active" ELSE "over",
                             job.timer, <<job.timer, "own">>))
      <4> DEFINE t == job.timer
                 y == IF t \in Running THEN "active" ELSE "over"
      <4>1. y \in {"active", "over"} /\ (t \in Running' <=> y # "over")
        BY <3>2
      <4>2. t \in Named /\ Emit(Event(y, t, <<t, "own">>))
        BY <3>1, <3>4
      <4> HIDE DEF t, y
      <4>3. DuesApart =>
              \A u \in Timers : owner'[u] = "none" => owner[u] = "none" /\ u # t
        BY <3>3 DEF t
      <4>4. Heard
        BY <1>1, <3>2, <4>1, <4>2, <4>3, ChangeStep
      <4> QED BY <3>2, <4>4
    <3>5. CASE \E t \in {job.timer, Session} \ {Nothing} :
                 Emit(Event(FailureOf[job.act], t, <<t, "own">>))
      <4>1. PICK t \in {job.timer, Session} \ {Nothing} :
              Emit(Event(FailureOf[job.act], t, <<t, "own">>))
        BY <3>5
      <4>2. t \in Named /\ FailureOf[job.act] \in {"unmet", "stop_failed"}
        BY <3>1, IdIs DEF FailureOf
      <4>3. DuesApart =>
              \A u \in Timers : owner'[u] = "none" => owner[u] = "none" /\ u # t
        BY <3>3
      <4>4. Heard
        BY <1>1, <3>2, <4>1, <4>2, <4>3, FailStep
      <4> QED BY <3>2, <4>4
    <3> QED BY <2>7, <3>4, <3>5 DEF Denied
  <2> HIDE DEF Heard, Kept
  <2> QED BY <2>2, <2>3, <2>4, <2>5, <2>6, <2>7 DEF Publish, job
<1>8. TimerTypes' /\ ProvisionalOnce'
  BY <1>0, <1>1, <1>2, <1>3, <1>7
     DEF TimerTypes, TimerTypeOK, ProvisionalOnce, States
<1>9. QueuedOnce'
  <2>1. \A j, k \in 1 .. Len(jobs') : jobs'[j].act = jobs'[k].act => j = k
    BY <1>0, <1>2 DEF QueuedOnce
  <2>2. ASSUME NEW k \in 1 .. Len(jobs'), jobs'[k].act = "create"
        PROVE  jobs'[k].timer \in Timers /\ owner'[jobs'[k].timer] = "none"
    <3>1. job.act # "create"
      BY <1>6, <2>2
    <3>2. jobs'[k].timer \in Timers /\ owner[jobs'[k].timer] = "none"
      BY SMTT(30), <1>0, <1>2, <2>2 DEF QueuedOnce
    <3> QED BY <1>7, <3>1, <3>2
  <2> QED BY <2>1, <2>2 DEF QueuedOnce
<1>10. DuesApart' => JobsKnown'
  <2> SUFFICES ASSUME DuesApart, NEW k \in 1 .. Len(jobs'),
                      jobs'[k].act # "create", jobs'[k].timer \in Timers
               PROVE  owner'[jobs'[k].timer] # "none"
    BY <1>1 DEF JobsKnown, DuesApart
  <2>1. k + 1 \in 1 .. Len(jobs) /\ jobs'[k] = jobs[k + 1]
    BY <1>2
  <2>2. owner[jobs'[k].timer] # "none"
    BY <2>1 DEF CacheInv, JobsKnown
  <2> QED BY <1>7, <2>2
<1> QED BY <1>7, <1>8, <1>9, <1>10 DEF CacheInv, RequestsInv

LEMMA CompleteStep ==
  ASSUME CacheInv, NEW t \in Timers, Complete(t) PROVE CacheInv'
<1>0. TimerTypes /\ EventsNameIds /\ QueuedOnce /\ ProvisionalOnce
  BY DEF CacheInv, RequestsInv
<1>1. /\ owner[t] = "running" /\ owner' = [owner EXCEPT ![t] = "over"]
      /\ Emit(Event("over", t, <<t, "own">>))
      /\ UNCHANGED <<due, denied, jobs, link, records, tasks, shown>>
      /\ owner \in [Timers -> States] /\ owner' \in [Timers -> States]
  BY <1>0 DEF Complete, TimerTypes, TimerTypeOK, States
<1>2. /\ t \in Named /\ t \notin Running'
      /\ \A u \in Timers : owner'[u] = "none" => owner[u] = "none" /\ u # t
      /\ \A u \in Timers : owner[u] = "none" => owner'[u] = "none"
      /\ \A u \in Named \ {t} : u \in Running' <=> u \in Running
  BY <1>1, IdIs DEF Running
<1>3. /\ wire' \in Seq(Events) /\ Len(wire') <= Pending
      /\ untold' \subseteq Named /\ EventsNameIds'
      /\ DuesApart' => Followed'
  BY <1>1, <1>2, ChangeStep
<1>4. TimerTypes' /\ ProvisionalOnce' /\ QueuedOnce'
  BY <1>0, <1>1, <1>2, <1>3
     DEF TimerTypes, TimerTypeOK, States, ProvisionalOnce, QueuedOnce
<1>5. DuesApart' => JobsKnown'
  BY <1>1, <1>2 DEF CacheInv, JobsKnown, DuesApart
<1> QED BY <1>3, <1>4, <1>5 DEF CacheInv, RequestsInv

(* _enqueue: a request of a kind that is not queued yet.                   *)
LEMMA RequestStep ==
  ASSUME CacheInv, NEW job \in Jobs, Request(job),
         job.act = "create" => job.timer \in Timers /\ owner[job.timer] = "none",
         DuesApart => (job.act # "create" /\ job.timer \in Timers
                         => owner[job.timer] # "none")
  PROVE  CacheInv'
<1>0. TimerTypes /\ EventsNameIds /\ QueuedOnce /\ ProvisionalOnce
  BY DEF CacheInv, RequestsInv
<1>1. /\ \A k \in DOMAIN jobs : jobs[k].act # job.act
      /\ jobs' = IF Len(jobs) = QueueSize THEN jobs ELSE Append(jobs, job)
      /\ UNCHANGED <<owner, due, denied, link, wire, records, tasks, shown>>
      /\ UNCHANGED untold
  BY DEF Request, Put
<1>2. /\ jobs \in Seq(Jobs) /\ Len(jobs) <= QueueSize /\ QueueSize \in Nat
      /\ Len(jobs) \in Nat /\ DOMAIN jobs = 1 .. Len(jobs)
  BY <1>0, TimerAssumption, LenProperties DEF TimerTypes, TimerTypeOK
<1>3. \/ jobs' = jobs
      \/ /\ jobs' \in Seq(Jobs) /\ Len(jobs') = Len(jobs) + 1
         /\ Len(jobs') <= QueueSize /\ jobs'[Len(jobs) + 1] = job
         /\ \A k \in 1 .. Len(jobs) : jobs'[k] = jobs[k]
  <2>1. /\ Append(jobs, job) \in Seq(Jobs)
        /\ Len(Append(jobs, job)) = Len(jobs) + 1
        /\ Append(jobs, job)[Len(jobs) + 1] = job
        /\ \A k \in 1 .. Len(jobs) : Append(jobs, job)[k] = jobs[k]
    BY <1>2, AppendProperties
  <2>2. CASE Len(jobs) = QueueSize
    BY <1>1, <2>2
  <2>3. CASE Len(jobs) # QueueSize
    <3>1. jobs' = Append(jobs, job)
      BY <1>1, <2>3
    <3>2. \A n, m \in Nat : n <= m /\ n # m => n + 1 <= m
      OBVIOUS
    <3>3. Len(jobs) + 1 <= QueueSize
      BY <1>2, <2>3, <3>2
    <3> QED BY <2>1, <3>1, <3>3
  <2> QED BY <2>2, <2>3
<1>4. jobs' \in Seq(Jobs) /\ Len(jobs') <= QueueSize
  BY <1>2, <1>3
<1>7. TimerTypes'
  BY <1>0, <1>1, <1>4 DEF TimerTypes, TimerTypeOK
<1>8. EventsNameIds' /\ ProvisionalOnce'
  BY <1>0, <1>1 DEF EventsNameIds, ProvisionalOnce
<1>5. QueuedOnce'
  <2>1. CASE jobs' = jobs
    BY <1>0, <1>1, <2>1 DEF QueuedOnce
  <2>2. CASE jobs' # jobs
    <3>1. \A k \in 1 .. Len(jobs') :
            (k \in 1 .. Len(jobs) /\ jobs'[k] = jobs[k])
            \/ (k = Len(jobs) + 1 /\ jobs'[k] = job)
      BY <1>2, <1>3, <2>2
    <3>2. ASSUME NEW j \in 1 .. Len(jobs'), NEW k \in 1 .. Len(jobs'),
                 jobs'[j].act = jobs'[k].act
          PROVE  j = k
      <4>1. \A i \in 1 .. Len(jobs) : jobs[i].act # job.act
        BY <1>1, <1>2
      <4>2. CASE j = Len(jobs) + 1 \/ k = Len(jobs) + 1
        BY <1>2, <3>1, <3>2, <4>1, <4>2
      <4>3. CASE j \in 1 .. Len(jobs) /\ k \in 1 .. Len(jobs)
        <5>1. jobs'[j] = jobs[j] /\ jobs'[k] = jobs[k]
          BY <1>2, <3>1, <4>3
        <5> QED BY <1>0, <3>2, <4>3, <5>1 DEF QueuedOnce
      <4> QED BY <3>1, <4>2, <4>3
    <3>3. ASSUME NEW k \in 1 .. Len(jobs'), jobs'[k].act = "create"
          PROVE  jobs'[k].timer \in Timers /\ owner'[jobs'[k].timer] = "none"
      <4>1. CASE k = Len(jobs) + 1
        <5>1. k \notin 1 .. Len(jobs)
          BY <1>2, <4>1
        <5>2. jobs'[k] = job
          BY <3>1, <5>1
        <5> QED BY <1>1, <3>3, <5>2
      <4>2. CASE k \in 1 .. Len(jobs) /\ jobs'[k] = jobs[k]
        BY <1>0, <1>1, <3>3, <4>2 DEF QueuedOnce
      <4> QED BY <3>1, <4>1, <4>2
    <3> QED BY <3>2, <3>3 DEF QueuedOnce
  <2> QED BY <2>1, <2>2
<1>6. Running' = Running /\ Active' = Active /\ DuesApart' = DuesApart
  BY <1>1 DEF Running, Active, ActiveIn, DuesApart
<1>9. DuesApart' => Followed'
  BY <1>1, <1>6 DEF CacheInv, Followed, UnheardOf, CreatedFirst, OneRecord,
                    LastWord, CacheAgrees
<1>10. DuesApart' => JobsKnown'
  <2> SUFFICES ASSUME DuesApart, NEW k \in 1 .. Len(jobs'),
                      jobs'[k].act # "create", jobs'[k].timer \in Timers
               PROVE  owner[jobs'[k].timer] # "none"
    BY <1>1, <1>6 DEF JobsKnown
  <2>1. CASE jobs' = jobs
    BY <2>1 DEF CacheInv, JobsKnown
  <2>2. CASE jobs' # jobs
    <3>1. (k \in 1 .. Len(jobs) /\ jobs'[k] = jobs[k]) \/ jobs'[k] = job
      BY <1>2, <1>3, <2>2
    <3> QED BY <3>1 DEF CacheInv, JobsKnown
  <2> QED BY <2>1, <2>2
<1> QED BY <1>5, <1>7, <1>8, <1>9, <1>10 DEF CacheInv, RequestsInv

LEMMA AskStep ==
  ASSUME CacheInv,
         (\E t \in Timers : AskCreate(t))
         \/ AskStatus \/ AskControl \/ AskAdjust \/ AskSnooze
  PROVE  CacheInv'
<1>1. ASSUME NEW t \in Selections
      PROVE  /\ t \in Named \cup {Nothing}
             /\ DuesApart => (t \in Timers => owner[t] # "none")
  <2>1. t = Nothing \/ \E i \in Active : i[1] = t
    BY <1>1 DEF Selections, Selected
  <2>2. \A i \in Active : i \in Ids /\ records[i].last # "none"
    BY DEF Active, ActiveIn, ActiveAfter
  <2>3. DuesApart => UnheardOf
    BY DEF CacheInv, Followed
  <2> QED BY <2>1, <2>2, <2>3, IdIs DEF UnheardOf
<1>2. \A t \in Named \cup {Nothing} :
        /\ CreateJob(t) \in Jobs /\ CreateJob(t).timer = t
        /\ CreateJob(t).act = "create"
        /\ StatusJob(t) \in Jobs /\ StatusJob(t).act = "status"
        /\ ControlJob(t) \in Jobs /\ ControlJob(t).act = "stop"
        /\ AdjustJob(t) \in Jobs /\ AdjustJob(t).act = "adjust"
        /\ SnoozeJob(t) \in Jobs /\ SnoozeJob(t).act = "snooze"
        /\ StatusJob(t).timer = t /\ ControlJob(t).timer = t
        /\ AdjustJob(t).timer = t /\ SnoozeJob(t).timer = t
  BY DEF Jobs, CreateJob, StatusJob, ControlJob, AdjustJob, SnoozeJob
<1>3. CASE \E t \in Timers : AskCreate(t)
  BY <1>2, <1>3, IdIs, RequestStep DEF AskCreate
<1>4. CASE AskStatus
  BY <1>1, <1>2, <1>4, RequestStep DEF AskStatus
<1>5. CASE AskControl
  BY <1>1, <1>2, <1>5, RequestStep DEF AskControl
<1>6. CASE AskAdjust
  BY <1>1, <1>2, <1>6, RequestStep DEF AskAdjust
<1>7. CASE AskSnooze
  BY <1>1, <1>2, <1>7, RequestStep DEF AskSnooze
<1> QED BY <1>3, <1>4, <1>5, <1>6, <1>7

(* update_from_event: the record of the event's id is the event's; if it   *)
(* tells the state, the other record of its timer is gone; those of others *)
(* are kept.                                                               *)
LEMMA RecordsUpdated ==
  ASSUME CacheInv, wire # <<>>, records' \in Updated(wire[1])
  PROVE  /\ records' \in [Ids -> Records]
         /\ records'[wire[1].id].last = wire[1].type
         /\ ~ records'[wire[1].id].lapsed
         /\ ProvisionalOnce'
         /\ DuesApart =>
              /\ Tells(wire[1].type) =>
                   \A i \in Ids : i[1] = wire[1].timer /\ i # wire[1].id
                                  => records'[i].last = "none"
              /\ \A i \in Ids : i[1] # wire[1].timer
                                => records'[i] = records[i]
<1> DEFINE e == wire[1]
           dated == \/ Tells(e.type) /\ e.timer \in Timers
                    \/ records[e.id].dated
           d == [last |-> e.type, dated |-> dated, lapsed |-> FALSE]
<1>1. /\ TimerTypes /\ EventsNameIds /\ ProvisionalOnce
      /\ wire \in Seq(Events) /\ records \in [Ids -> Records]
      /\ due \in [Timers -> Timers]
  BY DEF CacheInv, RequestsInv, TimerTypes
<1>2. e \in Events /\ 1 \in 1 .. Len(wire)
  BY <1>1, Taken
<1>3. /\ e.type \in Kinds /\ e.timer \in Named
      /\ e.id \in Ids /\ e.id[1] = e.timer
      /\ IF e.type = "created" THEN e.timer \in Timers ELSE e.id = Own(e.timer)
  BY <1>1, <1>2 DEF Events, EventsNameIds
<1>4. /\ dated \in BOOLEAN
      /\ Tells(e.type) /\ e.timer \in Timers => dated
      /\ e.timer = Session => ~ dated /\ e.type # "created"
  BY <1>1, <1>3, IdIs DEF Records, ProvisionalOnce
<1>5. PICK r \in IF e.type = "created" \/ ~ dated THEN {records}
                 ELSE WithoutProvisional(e.id, records) :
        records' = [r EXCEPT ![e.id] = d]
  BY DEF Updated
<1> HIDE DEF dated
<1>6. /\ d \in Records /\ d.last = e.type /\ d.dated = dated /\ ~ d.lapsed
      /\ NoRecord \in Records /\ NoRecord.last = "none" /\ ~ NoRecord.dated
  BY <1>3, <1>4 DEF Records, NoRecord
<1> HIDE DEF d
<1>7. r = records
      \/ \E j \in Ids \ {e.id} :
           /\ records[j].last = "created" /\ due[j[1]] = due[e.id[1]]
           /\ dated /\ r = [records EXCEPT ![j] = NoRecord]
  BY <1>5 DEF WithoutProvisional, DueOf
<1>8. r \in [Ids -> Records] /\ \A i \in Ids : r[i] = records[i] \/ r[i] = NoRecord
  BY <1>1, <1>6, <1>7
<1>9. /\ records' \in [Ids -> Records] /\ records'[e.id] = d
      /\ \A i \in Ids \ {e.id} : records'[i] = r[i]
  BY <1>3, <1>5, <1>6, <1>8
<1>10. ProvisionalOnce'
  <2>1. ASSUME NEW t \in Named
        PROVE  records'[Prov(t)].last \in {"none", "created"}
    <3>1. Prov(t) \in Ids /\ Prov(t) # Own(t)
          /\ records[Prov(t)].last \in {"none", "created"}
      BY <1>1, IdIs DEF ProvisionalOnce
    <3>2. CASE Prov(t) = e.id
      <4>1. e.type = "created"
        BY <1>3, <3>1, <3>2, IdIs
      <4> QED BY <1>6, <1>9, <3>2, <4>1
    <3>3. CASE Prov(t) # e.id
      BY <1>6, <1>8, <1>9, <3>1, <3>3
    <3> QED BY <3>2, <3>3
  <2>2. ASSUME NEW i \in Ids, i[1] = Session
        PROVE  records'[i].last # "created" /\ ~ records'[i].dated
    <3>1. records[i].last # "created" /\ ~ records[i].dated
      BY <1>1, <2>2 DEF ProvisionalOnce
    <3>2. CASE i = e.id
      BY <1>3, <1>4, <1>6, <1>9, <2>2, <3>2
    <3>3. CASE i # e.id
      BY <1>6, <1>8, <1>9, <3>1, <3>3
    <3> QED BY <3>2, <3>3
  <2> QED BY <2>1, <2>2 DEF ProvisionalOnce
<1>11. ASSUME DuesApart
       PROVE  /\ Tells(e.type) =>
                   \A i \in Ids : i[1] = e.timer /\ i # e.id
                                  => records'[i].last = "none"
              /\ \A i \in Ids : i[1] # e.timer => records'[i] = records[i]
  <2>1. \A j \in Ids : records[j].last = "created" /\ due[j[1]] = due[e.id[1]]
                       /\ dated => j[1] = e.timer
    <3> SUFFICES ASSUME NEW j \in Ids, records[j].last = "created",
                        due[j[1]] = due[e.id[1]], dated
                 PROVE  j[1] = e.timer
      OBVIOUS
    <3>1. j[1] \in Timers
      BY <1>1, IdIs DEF ProvisionalOnce
    <3>2. e.timer \in Timers
      BY <1>3, <1>4, IdIs
    <3> QED BY <1>3, <1>11, <3>1, <3>2 DEF DuesApart
  <2>2. \A i \in Ids : i[1] # e.timer => records'[i] = records[i]
    BY <1>1, <1>3, <1>7, <1>9, <2>1
  <2>3. ASSUME Tells(e.type), NEW i \in Ids, i[1] = e.timer, i # e.id
        PROVE  records'[i].last = "none"
    <3>1. CASE e.type = "created"
      <4>1. r = records
        BY <1>5, <3>1
      <4>2. records[i].last = "none"
        BY <1>2, <1>11, <2>3, <3>1 DEF CacheInv, Followed, CreatedFirst
      <4> QED BY <1>9, <2>3, <4>1, <4>2
    <3>2. CASE e.type # "created"
      <4>1. e.id = Own(e.timer) /\ i = Prov(e.timer)
        BY <1>3, <2>3, <3>2, IdIs
      <4>2. records[i].last \in {"none", "created"}
        BY <1>1, <1>3, <4>1 DEF ProvisionalOnce
      <4>3. CASE records[i].last = "none"
        BY <1>6, <1>8, <1>9, <2>3, <4>3
      <4>4. CASE records[i].last = "created"
        <5> DEFINE near == {j \in Ids \ {e.id} : records[j].last = "created"
                                 /\ DueOf(j) = DueOf(e.id)}
        <5>1. i \in near
          BY <1>3, <2>3, <4>4 DEF DueOf
        <5>2. dated
          BY <1>1, <1>3, <1>4, <2>3, <4>4, IdIs DEF ProvisionalOnce
        <5>3. PICK j \in near : r = [records EXCEPT ![j] = NoRecord]
          BY <1>5, <3>2, <5>1, <5>2 DEF WithoutProvisional
        <5>4. j \in Ids /\ j # e.id /\ j[1] = e.timer
          BY <2>1, <5>2 DEF DueOf
        <5>5. j = i
          BY <2>3, <4>1, <5>4, IdIs
        <5> QED BY <1>1, <1>6, <1>9, <2>3, <5>3, <5>5
      <4> QED BY <4>2, <4>3, <4>4
    <3> QED BY <3>1, <3>2
  <2> QED BY <2>2, <2>3
<1> QED BY <1>6, <1>9, <1>10, <1>11

(* The first event on its way is heard.                                    *)
LEMMA ReceiveStep == CacheInv /\ Receive => CacheInv'
<1> SUFFICES ASSUME CacheInv, Receive PROVE CacheInv'
  OBVIOUS
<1> DEFINE e == wire[1]
           n == Len(wire)
<1>0. TimerTypes /\ EventsNameIds /\ QueuedOnce /\ ProvisionalOnce
  BY DEF CacheInv, RequestsInv
<1>1. /\ wire \in Seq(Events) /\ wire # <<>> /\ records \in [Ids -> Records]
      /\ Len(tasks) < Pending /\ tasks \in Seq(Updates) /\ n <= Pending
      /\ wire' = Tail(wire) /\ Pending \in Nat /\ Len(tasks) \in Nat
      /\ UNCHANGED <<owner, due, denied, jobs, link, shown, untold>>
  BY <1>0, TimerAssumption, LenProperties DEF Receive, TimerTypes, TimerTypeOK
<1>2. /\ e \in Events /\ Head(wire) = e /\ n \in Nat \ {0}
      /\ wire' \in Seq(Events) /\ Len(wire') = n - 1
      /\ \A i \in 1 .. n - 1 : i + 1 \in 1 .. n /\ wire'[i] = wire[i + 1]
  BY <1>1, Taken
<1>3. /\ records' \in Updated(e)
      /\ tasks' = Append(tasks, [timers |-> ActiveIn(records'), stage |-> 1,
                                 screen |-> ScreenFor(e, ActiveIn(records'))])
  BY <1>2 DEF Receive
<1>4. /\ records' \in [Ids -> Records]
      /\ records'[e.id].last = e.type /\ ~ records'[e.id].lapsed
      /\ ProvisionalOnce'
      /\ DuesApart =>
           /\ Tells(e.type) =>
                \A i \in Ids : i[1] = e.timer /\ i # e.id
                               => records'[i].last = "none"
           /\ \A i \in Ids : i[1] # e.timer => records'[i] = records[i]
  BY <1>1, <1>3, RecordsUpdated
<1>5. e.timer \in Named /\ e.id \in Ids /\ e.id[1] = e.timer
      /\ e.type \in Kinds /\ (e.type # "created" => e.id = Own(e.timer))
  BY <1>0, <1>2 DEF Events, EventsNameIds
<1>6. tasks' \in Seq(Updates)
      /\ \A k \in DOMAIN tasks' : tasks'[k].stage \in 1 .. 2
                                  /\ tasks'[k].timers \subseteq Ids
  <2>1. [timers |-> ActiveIn(records'), stage |-> 1,
         screen |-> ScreenFor(e, ActiveIn(records'))] \in Updates
    BY DEF Updates, ActiveIn, ScreenFor
  <2>2. tasks' \in Seq(Updates)
    BY <1>1, <1>3, <2>1, AppendProperties
  <2>3. \A k \in DOMAIN tasks' : tasks'[k] \in Updates
    BY <2>2, ElementOfSeq, LenProperties
  <2> QED BY <2>2, <2>3 DEF Updates
<1>7. n - 1 <= Pending
  BY <1>1, <1>2
<1>8. TimerTypes'
  BY <1>0, <1>1, <1>2, <1>4, <1>6, <1>7 DEF TimerTypes, TimerTypeOK
<1>9. EventsNameIds' /\ QueuedOnce' /\ ProvisionalOnce'
  BY <1>0, <1>1, <1>2, <1>4 DEF EventsNameIds, QueuedOnce
<1>12. Running' = Running
  BY <1>1 DEF Running
<1>10. ASSUME DuesApart
       PROVE  JobsKnown' /\ Followed'
  <2>1. UnheardOf /\ CreatedFirst /\ OneRecord /\ LastWord /\ CacheAgrees
        /\ JobsKnown
    BY <1>10 DEF CacheInv, Followed
  <2>2. /\ Tells(e.type) =>
             \A i \in Ids : i[1] = e.timer /\ i # e.id
                            => records'[i].last = "none"
        /\ \A i \in Ids : i[1] # e.timer => records'[i] = records[i]
    BY <1>4, <1>10
  <2>3. UnheardOf'
    <3> SUFFICES ASSUME NEW t \in Timers, owner[t] = "none"
                 PROVE  /\ t \notin untold
                        /\ \A k \in 1 .. n - 1 : wire'[k].timer # t
                        /\ \A i \in Ids : i[1] = t => records'[i].last = "none"
      BY <1>1, <1>2 DEF UnheardOf
    <3>1. /\ t \notin untold /\ \A k \in 1 .. n : wire[k].timer # t
          /\ \A i \in Ids : i[1] = t => records[i].last = "none"
      BY <2>1 DEF UnheardOf
    <3>2. e.timer # t
      BY <1>2, <3>1
    <3> QED BY <1>2, <2>2, <3>1, <3>2
  <2>4. CreatedFirst'
    <3> SUFFICES ASSUME NEW k \in 1 .. n - 1, wire'[k].type = "created"
                 PROVE  /\ \A j \in 1 .. k - 1 :
                             wire'[j].timer = wire'[k].timer
                               => wire'[j] = wire'[k]
                        /\ \A i \in Ids :
                             i[1] = wire'[k].timer /\ i # wire'[k].id
                               => records'[i].last = "none"
      BY <1>2 DEF CreatedFirst
    <3>1. k + 1 \in 1 .. n /\ wire'[k] = wire[k + 1]
      BY <1>2
    <3>2. /\ \A j \in 1 .. k : wire[j].timer = wire[k + 1].timer
                               => wire[j] = wire[k + 1]
          /\ \A i \in Ids : i[1] = wire[k + 1].timer /\ i # wire[k + 1].id
                            => records[i].last = "none"
      BY <2>1, <3>1 DEF CreatedFirst
    <3>3. \A j \in 1 .. k - 1 : wire'[j] = wire[j + 1] /\ j + 1 \in 1 .. k
      BY <1>2
    <3>4. e.timer = wire'[k].timer => e = wire'[k] /\ Tells(e.type)
      BY <3>1, <3>2 DEF Tells
    <3> QED BY <2>2, <3>1, <3>2, <3>3, <3>4
  <2>5. OneRecord'
    <3> SUFFICES ASSUME NEW t \in Named, Tells(records'[Own(t)].last)
                 PROVE  records'[Prov(t)].last = "none"
      BY DEF OneRecord
    <3>1. /\ Own(t) \in Ids /\ Own(t)[1] = t
          /\ Prov(t) \in Ids /\ Prov(t)[1] = t /\ Prov(t) # Own(t)
      BY IdIs
    <3>2. CASE t # e.timer
      BY <2>1, <2>2, <3>1, <3>2 DEF OneRecord
    <3>3. CASE t = e.timer /\ e.id = Own(t)
      BY <1>4, <2>2, <3>1, <3>3
    <3>4. CASE t = e.timer /\ e.id # Own(t)
      <4>1. Tells(e.type)
        BY <1>5, <3>4 DEF Tells
      <4>2. records'[Own(t)].last = "none"
        BY <2>2, <3>1, <3>4, <4>1
      <4> QED BY <4>2 DEF Tells
    <3> QED BY <3>2, <3>3, <3>4
  <2>6. LastWord'
    <3>0. untold' = untold /\ Len(wire') = n - 1 /\ Running' = Running
      BY <1>1, <1>2, <1>12
    <3> SUFFICES ASSUME NEW t \in Named \ untold, NEW k \in 1 .. n - 1,
                        wire'[k].timer = t,
                        \A j \in k + 1 .. n - 1 : wire'[j].timer # t
                 PROVE  Tells(wire'[k].type)
                        /\ (t \in Running <=> wire'[k].type # "over")
      BY <3>0 DEF LastWord
    <3>1. k + 1 \in 1 .. n /\ wire'[k] = wire[k + 1]
      BY <1>2
    <3>2. \A j \in k + 2 .. n : wire[j].timer # t
      <4> SUFFICES ASSUME NEW j \in k + 2 .. n PROVE wire[j].timer # t
        OBVIOUS
      <4>1. n \in Nat /\ k \in Nat /\ j \in Nat
        BY <1>2
      <4>2. j - 1 \in k + 1 .. n - 1 /\ j - 1 \in 1 .. n - 1
            /\ (j - 1) + 1 = j
        BY <4>1
      <4> QED BY <1>2, <4>2
    <3>3. (k + 1) + 1 = k + 2
      OBVIOUS
    <3> QED BY <2>1, <3>1, <3>2, <3>3 DEF LastWord
  <2>7. CacheAgrees'
    <3> SUFFICES ASSUME NEW t \in Named \ untold,
                        \A k \in 1 .. n - 1 : wire'[k].timer # t
                 PROVE  /\ (\E i \in ActiveIn(records') : i[1] = t)
                             <=> t \in Running
                        /\ Tells(records'[Own(t)].last)
                           \/ records'[Own(t)].last = "none"
      BY <1>1, <1>2, <1>12 DEF CacheAgrees, Active
    <3>1. \A k \in 2 .. n : wire[k].timer # t
      <4> SUFFICES ASSUME NEW k \in 2 .. n PROVE wire[k].timer # t
        OBVIOUS
      <4>1. k - 1 \in 1 .. n - 1 /\ (k - 1) + 1 = k
        BY <1>2
      <4> QED BY <1>2, <4>1
    <3>2. Own(t) \in Ids /\ Own(t)[1] = t
      BY IdIs
    <3>3. CASE t = e.timer
      <4>1. Tells(e.type) /\ (t \in Running <=> e.type # "over")
        BY <1>2, <2>1, <3>1, <3>3 DEF LastWord
      <4>2. \A i \in Ids : i[1] = t /\ i # e.id => records'[i].last = "none"
        BY <2>2, <3>3, <4>1
      <4>3. \A i \in Ids : i[1] = t /\ i \in ActiveIn(records') => i = e.id
        BY <4>2 DEF ActiveIn, ActiveAfter
      <4>4. e.id \in ActiveIn(records') <=> e.type # "over"
        BY <1>4, <1>5, <4>1 DEF ActiveIn, ActiveAfter, Tells
      <4>5. ActiveIn(records') \subseteq Ids
        BY DEF ActiveIn
      <4>6. (\E i \in ActiveIn(records') : i[1] = t) <=> t \in Running
        BY <1>5, <3>3, <4>1, <4>3, <4>4, <4>5
      <4>7. Tells(records'[Own(t)].last) \/ records'[Own(t)].last = "none"
        BY <1>4, <3>2, <4>1, <4>2
      <4> QED BY <4>6, <4>7
    <3>4. CASE t # e.timer
      <4>1. \A k \in 1 .. n : wire[k].timer # t
        BY <3>1, <3>4, <1>2
      <4>2. /\ (\E i \in Active : i[1] = t) <=> t \in Running
            /\ Tells(records[Own(t)].last) \/ records[Own(t)].last = "none"
        BY <2>1, <4>1 DEF CacheAgrees
      <4>3. \A i \in Ids : i[1] = t => records'[i] = records[i]
        BY <2>2, <3>4
      <4>4. \A i \in Ids : i[1] = t =>
              (i \in Active <=> i \in ActiveIn(records'))
        BY <4>3 DEF Active, ActiveIn
      <4>5. Active \subseteq Ids /\ ActiveIn(records') \subseteq Ids
        BY DEF Active, ActiveIn
      <4>6. (\E i \in ActiveIn(records') : i[1] = t) <=> t \in Running
        BY <4>2, <4>4, <4>5
      <4> QED BY <3>2, <4>2, <4>3, <4>6
    <3> QED BY <3>3, <3>4
  <2>8. JobsKnown'
    BY <1>1, <2>1 DEF JobsKnown
  <2> QED BY <2>3, <2>4, <2>5, <2>6, <2>7, <2>8 DEF Followed
<1>11. DuesApart' => DuesApart
  BY <1>1 DEF DuesApart
<1> QED BY <1>8, <1>9, <1>10, <1>11 DEF CacheInv, RequestsInv

(* A step that leaves the timers, their events and their records alone.    *)
LEMMA KeptStep ==
  ASSUME CacheInv, RequestsInv',
         UNCHANGED <<owner, due, jobs, wire, records, untold>>
  PROVE  CacheInv'
<1>1. Running' = Running /\ Active' = Active /\ DuesApart' = DuesApart
  BY DEF Running, Active, ActiveIn, DuesApart
<1>2. DuesApart => JobsKnown' /\ Followed'
  BY <1>1 DEF CacheInv, JobsKnown, Followed, UnheardOf, CreatedFirst,
              OneRecord, LastWord, CacheAgrees
<1> QED BY <1>1, <1>2 DEF CacheInv

(* What is on its way when the connection drops is lost.                   *)
LEMMA LinkStep == CacheInv /\ (Subscribe \/ Disconnect) => CacheInv'
<1> SUFFICES ASSUME CacheInv, Subscribe \/ Disconnect PROVE CacheInv'
  OBVIOUS
<1>0. TimerTypes /\ EventsNameIds /\ QueuedOnce /\ ProvisionalOnce
  BY DEF CacheInv, RequestsInv
<1>1. wire \in Seq(Events) /\ Len(wire) \in Nat /\ DOMAIN wire = 1 .. Len(wire)
      /\ Pending \in Nat /\ link \in Nat
  BY <1>0, LenProperties, TimerAssumption DEF TimerTypes
<1>2. CASE Subscribe
  <2>1. link' = link + 1
        /\ UNCHANGED <<owner, due, denied, jobs, wire, records, tasks, shown>>
        /\ UNCHANGED untold
    BY <1>2 DEF Subscribe
  <2>2. RequestsInv'
    BY <1>0, <1>1, <2>1
       DEF RequestsInv, TimerTypes, TimerTypeOK, EventsNameIds, QueuedOnce,
           ProvisionalOnce
  <2> QED BY <2>1, <2>2, KeptStep
<1>3. CASE Disconnect
  <2>1. /\ link' = link + 1 /\ wire' = <<>>
        /\ untold' = untold \cup {wire[k].timer : k \in DOMAIN wire}
        /\ UNCHANGED <<owner, due, denied, jobs, records, tasks, shown>>
    BY <1>3 DEF Disconnect
  <2>2. wire' \in Seq(Events) /\ Len(wire') = 0
    BY <2>1, EmptySeq
  <2>3. \A k \in 1 .. Len(wire) : wire[k].timer \in Named
    <3>1. \A k \in 1 .. Len(wire) : wire[k] \in Events
      BY <1>1, ElementOfSeq
    <3> QED BY <3>1 DEF Events
  <2>4. untold' \subseteq Named
    BY <1>0, <1>1, <2>1, <2>3 DEF TimerTypes
  <2>5. RequestsInv'
    <3>1. 0 <= Pending /\ link + 1 \in Nat
      BY <1>1
    <3>2. TimerTypes'
      BY <1>0, <2>1, <2>2, <2>4, <3>1 DEF TimerTypes, TimerTypeOK
    <3>3. EventsNameIds' /\ QueuedOnce' /\ ProvisionalOnce'
      BY <1>0, <2>1, <2>2 DEF EventsNameIds, QueuedOnce, ProvisionalOnce
    <3> QED BY <3>2, <3>3 DEF RequestsInv
  <2>6. ASSUME DuesApart PROVE JobsKnown' /\ Followed'
    <3>1. UnheardOf /\ CreatedFirst /\ OneRecord /\ LastWord /\ CacheAgrees
          /\ JobsKnown
      BY <2>6 DEF CacheInv, Followed
    <3>2. UnheardOf'
      BY <1>1, <2>1, <2>2, <3>1 DEF UnheardOf
    <3>3. CreatedFirst' /\ OneRecord' /\ LastWord' /\ JobsKnown'
      BY <2>1, <2>2, <3>1
         DEF CreatedFirst, OneRecord, LastWord, JobsKnown
    <3>4. Running' = Running /\ Active' = Active
      BY <2>1 DEF Running, Active, ActiveIn
    <3>5. CacheAgrees'
      BY <1>1, <2>1, <3>1, <3>4 DEF CacheAgrees
    <3> QED BY <3>2, <3>3, <3>5 DEF Followed
  <2> QED BY <2>1, <2>5, <2>6 DEF CacheInv, DuesApart
<1> QED BY <1>2, <1>3

(* Time makes the record of a timer that does not run out of date.         *)
LEMMA LapseStep ==
  ASSUME CacheInv, NEW i \in Ids, Lapse(i) PROVE CacheInv'
<1>0. TimerTypes /\ EventsNameIds /\ QueuedOnce /\ ProvisionalOnce
  BY DEF CacheInv, RequestsInv
<1>1. /\ i \in Active /\ i[1] \notin Running
      /\ records' = [records EXCEPT ![i].lapsed = TRUE]
      /\ UNCHANGED <<owner, due, denied, jobs, link, wire, tasks, shown>>
      /\ UNCHANGED untold /\ records \in [Ids -> Records]
  BY <1>0 DEF Lapse, TimerTypes
<1>2. /\ records' \in [Ids -> Records]
      /\ \A j \in Ids : records'[j].last = records[j].last
                        /\ records'[j].dated = records[j].dated
      /\ \A j \in Ids : j # i => records'[j] = records[j]
      /\ records'[i].lapsed
  BY <1>1 DEF Records
<1>3. RequestsInv'
  BY <1>0, <1>1, <1>2, IdIs
     DEF RequestsInv, TimerTypes, TimerTypeOK, EventsNameIds, QueuedOnce,
         ProvisionalOnce
<1>4. ASSUME DuesApart PROVE JobsKnown' /\ Followed'
  <2>1. UnheardOf /\ CreatedFirst /\ OneRecord /\ LastWord /\ CacheAgrees
        /\ JobsKnown
    BY <1>4 DEF CacheInv, Followed
  <2>2. Active' = Active \ {i} /\ Running' = Running
    BY <1>1, <1>2 DEF Active, ActiveIn, Running
  <2>3. UnheardOf' /\ CreatedFirst' /\ OneRecord' /\ JobsKnown'
    BY <1>1, <1>2, <2>1, IdIs DEF UnheardOf, CreatedFirst, OneRecord, JobsKnown
  <2>4. LastWord'
    BY <1>1, <2>1, <2>2 DEF LastWord
  <2>5. CacheAgrees'
    <3> SUFFICES ASSUME NEW t \in Named \ untold,
                        \A k \in 1 .. Len(wire) : wire[k].timer # t
                 PROVE  /\ (\E j \in Active' : j[1] = t) <=> t \in Running
                        /\ Tells(records'[Own(t)].last)
                           \/ records'[Own(t)].last = "none"
      BY <1>1, <2>2 DEF CacheAgrees
    <3>1. /\ (\E j \in Active : j[1] = t) <=> t \in Running
          /\ Tells(records[Own(t)].last) \/ records[Own(t)].last = "none"
      BY <2>1 DEF CacheAgrees
    <3>2. i[1] # t
      BY <1>1, <3>1
    <3> QED BY <1>2, <2>2, <3>1, <3>2, IdIs
  <2> QED BY <2>3, <2>4, <2>5 DEF Followed
<1> QED BY <1>1, <1>3, <1>4 DEF CacheInv, DuesApart

-----------------------------------------------------------------------------
(* TimerEvents: the display *)

(* The coroutines that have sent the timers come first.                    *)
InStages ==
  \A j, k \in 1 .. Len(tasks) :
    j < k /\ tasks[j].stage = 1 => tasks[k].stage = 1

ScreenOf(timers) == IF timers = {} THEN "idle" ELSE "timer"

(* When every event has arrived, the last coroutine has the timers that    *)
(* are active, or it has sent them; or what is shown is out of date, and   *)
(* no coroutine is left that sends the timers.                             *)
LastTaskAgrees ==
  tasks # <<>> /\ LET l == tasks[Len(tasks)]
                  IN /\ l.timers = Active /\ l.screen = ScreenOf(Active)
                     /\ l.stage = 2 => shown.timers = Active

ShownAgrees ==
  tasks = <<>> /\ shown.timers = Active /\ shown.screen = ScreenOf(Active)

ShownStale == shown.stale /\ \A k \in 1 .. Len(tasks) : tasks[k].stage = 2

DisplayFollows ==
  Settled /\ untold = {} => ShownStale \/ LastTaskAgrees \/ ShownAgrees

DisplayInv == CacheInv /\ InStages /\ DisplayFollows

(* A coroutine that does not end here moves to the second stage; else it   *)
(* leaves, and what is shown may be out of date.                           *)
LEMMA ShowSteps ==
  ASSUME TimerTypes, NEW k \in 1 .. Pending, ShowTimers(k) \/ ShowScreen(k)
  PROVE  /\ k \in 1 .. Len(tasks) /\ tasks' \in Seq(Updates)
         /\ \A j \in 1 .. k - 1 : tasks[j].stage # tasks[k].stage
         /\ shown' \in [timers : SUBSET Ids, screen : {"idle", "timer"},
                        stale : BOOLEAN]
         /\ UNCHANGED <<owner, due, denied, jobs, link, wire, records, untold>>
         /\ \/ /\ tasks[k].stage = 1 /\ Len(tasks') = Len(tasks)
               /\ tasks'[k].stage = 2 /\ tasks'[k].timers = tasks[k].timers
               /\ tasks'[k].screen = tasks[k].screen
               /\ \A j \in 1 .. Len(tasks) : j # k => tasks'[j] = tasks[j]
               /\ shown'.timers = tasks[k].timers
            \/ /\ Len(tasks') = Len(tasks) - 1
               /\ \A j \in 1 .. Len(tasks) - 1 :
                    tasks'[j] = tasks[IF j < k THEN j ELSE j + 1]
               /\ \/ shown'.stale
                  \/ /\ tasks[k].stage = 2 /\ shown'.screen = tasks[k].screen
                     /\ shown'.timers = shown.timers
                     /\ shown'.stale = shown.stale
<1>1. /\ tasks \in Seq(Updates) /\ Len(tasks) \in Nat
      /\ DOMAIN tasks = 1 .. Len(tasks)
      /\ shown \in [timers : SUBSET Ids, screen : {"idle", "timer"},
                    stale : BOOLEAN]
  BY LenProperties DEF TimerTypes, TimerTypeOK
<1>2. /\ k \in 1 .. Len(tasks)
      /\ \A j \in 1 .. k - 1 : tasks[j].stage # tasks[k].stage
      /\ UNCHANGED <<owner, due, denied, jobs, link, wire, records, untold>>
  BY <1>1 DEF ShowTimers, ShowScreen, Runnable
<1>3. tasks[k] \in Updates
  BY <1>1, <1>2, ElementOfSeq
<1>4. /\ RemoveAt(tasks, k) \in Seq(Updates)
      /\ Len(RemoveAt(tasks, k)) = Len(tasks) - 1
      /\ \A i \in 1 .. Len(tasks) - 1 :
           RemoveAt(tasks, k)[i] = tasks[IF i < k THEN i ELSE i + 1]
  <2>1. tasks \in Seq(Updates) /\ k \in 1 .. Len(tasks)
    BY <1>1, <1>2
  <2> QED BY <2>1, Removed
<1>5. CASE Refused(k)
  <2>1. tasks' = RemoveAt(tasks, k)
        /\ shown' = [timers |-> {}, screen |-> "idle", stale |-> TRUE]
    BY <1>5 DEF Refused, Done
  <2> QED BY <1>2, <1>4, <2>1
<1>6. CASE /\ tasks[k].stage = 1
           /\ shown' = [shown EXCEPT !.timers = tasks[k].timers, !.stale = FALSE]
           /\ tasks' = [tasks EXCEPT ![k].stage = 2]
  <2> DEFINE v == [tasks[k] EXCEPT !.stage = 2]
  <2>1. v \in Updates /\ v.stage = 2 /\ v.timers = tasks[k].timers
        /\ v.screen = tasks[k].screen
    BY <1>3 DEF Updates
  <2>2. tasks' = [tasks EXCEPT ![k] = v]
    BY <1>6
  <2> HIDE DEF v
  <2>3. /\ tasks' \in Seq(Updates) /\ Len(tasks') = Len(tasks)
        /\ tasks'[k] = v
        /\ \A j \in 1 .. Len(tasks) : j # k => tasks'[j] = tasks[j]
    BY <1>1, <1>2, <2>1, <2>2, ExceptSeq
  <2>4. shown' \in [timers : SUBSET Ids, screen : {"idle", "timer"},
                    stale : BOOLEAN]
        /\ shown'.timers = tasks[k].timers
    BY <1>1, <1>3, <1>6 DEF Updates
  <2> QED BY <1>2, <1>6, <2>1, <2>3, <2>4
<1>7. CASE /\ tasks[k].stage = 2
           /\ shown' = [shown EXCEPT !.screen = tasks[k].screen]
           /\ Done(k)
  <2>1. tasks' = RemoveAt(tasks, k)
    BY <1>7 DEF Done
  <2>2. shown' \in [timers : SUBSET Ids, screen : {"idle", "timer"},
                    stale : BOOLEAN]
        /\ shown'.screen = tasks[k].screen /\ shown'.timers = shown.timers
        /\ shown'.stale = shown.stale
    BY <1>1, <1>3, <1>7 DEF Updates
  <2> QED BY <1>2, <1>4, <1>7, <2>1, <2>2
<1> QED BY <1>5, <1>6, <1>7 DEF ShowTimers, ShowScreen

LEMMA ShowCache ==
  ASSUME CacheInv, NEW k \in 1 .. Pending, ShowTimers(k) \/ ShowScreen(k)
  PROVE  CacheInv'
<1>1. TimerTypes /\ EventsNameIds /\ QueuedOnce /\ ProvisionalOnce
  BY DEF CacheInv, RequestsInv
<1>2. /\ tasks' \in Seq(Updates)
      /\ shown' \in [timers : SUBSET Ids, screen : {"idle", "timer"},
                     stale : BOOLEAN]
      /\ UNCHANGED <<owner, due, denied, jobs, link, wire, records, untold>>
  BY <1>1, ShowSteps
<1>3. \A j \in DOMAIN tasks' : tasks'[j].stage \in 1 .. 2
                               /\ tasks'[j].timers \subseteq Ids
  <2>1. \A j \in DOMAIN tasks' : tasks'[j] \in Updates
    BY <1>2, ElementOfSeq, LenProperties
  <2> QED BY <2>1 DEF Updates
<1>4. RequestsInv'
  BY <1>1, <1>2, <1>3
     DEF RequestsInv, TimerTypes, TimerTypeOK, EventsNameIds, QueuedOnce,
         ProvisionalOnce
<1> QED BY <1>2, <1>4, KeptStep

LEMMA CacheStep == CacheInv /\ [TimerNext]_tvars => CacheInv'
<1> SUFFICES ASSUME CacheInv, [TimerNext]_tvars PROVE CacheInv'
  OBVIOUS
<1>1. CASE \E t \in Timers : Complete(t)
  BY <1>1, CompleteStep
<1>2. CASE (\E t \in Timers : AskCreate(t))
           \/ AskStatus \/ AskControl \/ AskAdjust \/ AskSnooze
  BY <1>2, AskStep
<1>3. CASE Publish
  BY <1>3, PublishStep
<1>4. CASE Subscribe \/ Disconnect
  BY <1>4, LinkStep
<1>5. CASE Receive
  BY <1>5, ReceiveStep
<1>6. CASE \E i \in Ids : Lapse(i)
  BY <1>6, LapseStep
<1>7. CASE \E k \in 1 .. Pending : ShowTimers(k) \/ ShowScreen(k)
  BY <1>7, ShowCache
<1>8. CASE UNCHANGED tvars
  <2>1. UNCHANGED <<owner, due, denied, jobs, link, wire, records, tasks>>
        /\ UNCHANGED <<shown, untold>>
    BY <1>8 DEF tvars
  <2>2. RequestsInv'
    BY <2>1 DEF CacheInv, RequestsInv, TimerTypes, TimerTypeOK, EventsNameIds,
                QueuedOnce, ProvisionalOnce
  <2> QED BY <2>1, <2>2, KeptStep
<1> QED BY <1>1, <1>2, <1>3, <1>4, <1>5, <1>6, <1>7, <1>8 DEF TimerNext

(* A coroutine of the display takes its step.                              *)
LEMMA ShowDisplay ==
  ASSUME DisplayInv, NEW k \in 1 .. Pending, ShowTimers(k) \/ ShowScreen(k)
  PROVE  InStages' /\ DisplayFollows'
<1> DEFINE n == Len(tasks)
           Moved ==
             /\ tasks[k].stage = 1 /\ Len(tasks') = n
             /\ tasks'[k].stage = 2 /\ tasks'[k].timers = tasks[k].timers
             /\ tasks'[k].screen = tasks[k].screen
             /\ \A j \in 1 .. n : j # k => tasks'[j] = tasks[j]
             /\ shown'.timers = tasks[k].timers
           Left ==
             /\ Len(tasks') = n - 1
             /\ \A j \in 1 .. n - 1 :
                  tasks'[j] = tasks[IF j < k THEN j ELSE j + 1]
             /\ \/ shown'.stale
                \/ /\ tasks[k].stage = 2 /\ shown'.screen = tasks[k].screen
                   /\ shown'.timers = shown.timers
                   /\ shown'.stale = shown.stale
<1>1. TimerTypes /\ InStages /\ DisplayFollows
  BY DEF DisplayInv, CacheInv, RequestsInv
<1>2. /\ tasks \in Seq(Updates) /\ n \in Nat /\ k \in 1 .. n
      /\ \A j \in 1 .. n : tasks[j].stage \in 1 .. 2
      /\ \A j \in 1 .. k - 1 : tasks[j].stage # tasks[k].stage
      /\ tasks' \in Seq(Updates)
      /\ UNCHANGED <<due, wire, records, untold>>
  BY <1>1, ShowSteps, LenProperties DEF TimerTypes, TimerTypeOK
<1>3. Moved \/ Left
  BY <1>1, ShowSteps
<1>4. Active' = Active /\ (Settled' => Settled)
  BY <1>2 DEF Active, ActiveIn, Settled, DuesApart
<1>5. tasks[k].stage = 2 => k = 1
  <2> SUFFICES ASSUME tasks[k].stage = 2, k > 1 PROVE FALSE
    BY <1>2
  <2>1. 1 \in 1 .. k - 1 /\ 1 \in 1 .. n
    BY <1>2
  <2>2. tasks[1].stage = 1
    BY <1>2, <2>1
  <2> QED BY <1>1, <1>2, <2>1, <2>2 DEF InStages
<1>6. tasks # <<>> /\ n > 0
  BY <1>2, EmptySeq
<1>7. tasks[k].stage = 1 => \A j \in 1 .. k - 1 : tasks[j].stage = 2
  BY <1>2
<1>8. CASE Moved
  <2>1. /\ tasks[k].stage = 1 /\ Len(tasks') = n
        /\ tasks'[k].stage = 2 /\ tasks'[k].timers = tasks[k].timers
        /\ tasks'[k].screen = tasks[k].screen
        /\ \A j \in 1 .. n : j # k => tasks'[j] = tasks[j]
        /\ shown'.timers = tasks[k].timers
    BY <1>8
  <2>2. InStages'
    <3> SUFFICES ASSUME NEW i \in 1 .. n, NEW j \in 1 .. n, i < j,
                        tasks'[i].stage = 1
                 PROVE  tasks'[j].stage = 1
      BY <2>1 DEF InStages
    <3>1. i # k /\ tasks[i].stage = 1
      BY <2>1
    <3>2. i > k
      BY <1>2, <1>7, <2>1, <3>1
    <3>3. j # k
      BY <1>2, <3>2
    <3> QED BY <1>1, <2>1, <3>1, <3>3 DEF InStages
  <2>3. ASSUME Settled', untold' = {} PROVE LastTaskAgrees'
    <3>1. ShownStale \/ LastTaskAgrees \/ ShownAgrees
      BY <1>1, <1>2, <1>4, <2>3 DEF DisplayFollows
    <3>2. LastTaskAgrees
      BY <1>2, <1>6, <2>1, <3>1 DEF ShownStale, ShownAgrees
    <3>3. /\ tasks[n].timers = Active /\ tasks[n].screen = ScreenOf(Active)
          /\ tasks[n].stage = 2 => shown.timers = Active
      BY <3>2 DEF LastTaskAgrees
    <3>4. tasks' # <<>>
      BY <1>6, <2>1, EmptySeq
    <3>5. /\ tasks'[n].timers = Active /\ tasks'[n].screen = ScreenOf(Active)
          /\ tasks'[n].stage = 2 => shown'.timers = Active
      <4>1. CASE k = n
        BY <2>1, <3>3, <4>1
      <4>2. CASE k # n
        <5>1. n \in 1 .. n /\ k < n
          BY <1>2, <4>2
        <5>2. tasks[n].stage = 1
          BY <1>1, <1>2, <2>1, <5>1 DEF InStages
        <5> QED BY <2>1, <3>3, <5>1, <5>2
      <4> QED BY <4>1, <4>2
    <3> QED BY <1>4, <2>1, <3>4, <3>5 DEF LastTaskAgrees, ScreenOf
  <2> QED BY <2>2, <2>3 DEF DisplayFollows
<1>9. CASE Left
  <2>1. /\ Len(tasks') = n - 1
        /\ \A j \in 1 .. n - 1 :
             tasks'[j] = tasks[IF j < k THEN j ELSE j + 1]
        /\ \/ shown'.stale
           \/ /\ tasks[k].stage = 2 /\ shown'.screen = tasks[k].screen
              /\ shown'.timers = shown.timers /\ shown'.stale = shown.stale
    BY <1>9
  <2>2. \A j \in 1 .. n - 1 : IF j < k THEN j \in 1 .. n ELSE j + 1 \in 1 .. n
    BY <1>2
  <2>3. InStages'
    <3> SUFFICES ASSUME NEW i \in 1 .. n - 1, NEW j \in 1 .. n - 1, i < j,
                        tasks'[i].stage = 1
                 PROVE  tasks'[j].stage = 1
      BY <2>1 DEF InStages
    <3> DEFINE a == IF i < k THEN i ELSE i + 1
               b == IF j < k THEN j ELSE j + 1
    <3>1. a \in 1 .. n /\ b \in 1 .. n /\ a < b
      BY <1>2
    <3>2. tasks[a].stage = 1 /\ tasks'[j] = tasks[b]
      BY <2>1
    <3> HIDE DEF a, b
    <3> QED BY <1>1, <3>1, <3>2 DEF InStages
  <2>4. ASSUME Settled', untold' = {}
        PROVE  ShownStale' \/ LastTaskAgrees' \/ ShownAgrees'
    <3>1. ShownStale \/ LastTaskAgrees
      BY <1>1, <1>2, <1>4, <1>6, <2>4 DEF DisplayFollows, ShownAgrees
    <3>2. CASE ShownStale
      <4>1. shown.stale /\ \A j \in 1 .. n : tasks[j].stage = 2
        BY <3>2 DEF ShownStale
      <4>2. shown'.stale
        BY <2>1, <4>1
      <4>3. \A j \in 1 .. n - 1 : tasks'[j].stage = 2
        BY <2>1, <2>2, <4>1
      <4> QED BY <2>1, <4>2, <4>3 DEF ShownStale
    <3>3. CASE LastTaskAgrees
      <4>1. /\ tasks[n].timers = Active /\ tasks[n].screen = ScreenOf(Active)
            /\ tasks[n].stage = 2 => shown.timers = Active
        BY <3>3 DEF LastTaskAgrees
      <4>2. n \in 1 .. n /\ tasks[n].stage \in 1 .. 2
        BY <1>2, <1>6
      <4>3. CASE k = n /\ tasks[k].stage = 1
        <5>1. shown'.stale
          BY <2>1, <4>3
        <5>2. \A j \in 1 .. n - 1 : tasks'[j] = tasks[j] /\ tasks[j].stage = 2
          BY <1>2, <1>7, <2>1, <4>3
        <5> QED BY <2>1, <5>1, <5>2 DEF ShownStale
      <4>4. CASE k = n /\ tasks[k].stage = 2
        <5>1. n = 1 /\ tasks' = <<>>
          BY <1>2, <1>5, <2>1, <4>4, EmptySeq
        <5>2. CASE shown'.stale
          <6>1. 1 .. Len(tasks') = {}
            BY <2>1, <5>1
          <6> QED BY <5>2, <6>1 DEF ShownStale
        <5>3. CASE /\ shown'.screen = tasks[k].screen
                   /\ shown'.timers = shown.timers
          BY <1>4, <4>1, <4>4, <5>1, <5>3 DEF ShownAgrees, ScreenOf
        <5> QED BY <2>1, <5>2, <5>3
      <4>5. CASE k < n /\ tasks[n].stage = 1
        <5>1. n - 1 \in 1 .. n - 1 /\ ~ (n - 1 < k) /\ (n - 1) + 1 = n
          BY <1>2, <4>5
        <5>2. tasks'[Len(tasks')] = tasks[n] /\ tasks' # <<>>
          BY <2>1, <5>1, EmptySeq
        <5> QED BY <1>4, <4>1, <4>5, <5>2 DEF LastTaskAgrees, ScreenOf
      <4>6. CASE k < n /\ tasks[n].stage = 2
        <5>1. \A j \in 1 .. n : tasks[j].stage = 2
          BY <1>1, <1>2, <4>2, <4>6 DEF InStages
        <5>2. \A j \in 1 .. n - 1 : tasks'[j].stage = 2
          BY <2>1, <2>2, <5>1
        <5>3. CASE shown'.stale
          BY <2>1, <5>2, <5>3 DEF ShownStale
        <5>4. CASE shown'.timers = shown.timers
          <6>1. n - 1 \in 1 .. n - 1 /\ ~ (n - 1 < k) /\ (n - 1) + 1 = n
            BY <1>2, <4>6
          <6>2. tasks'[Len(tasks')] = tasks[n] /\ tasks' # <<>>
            BY <2>1, <6>1, EmptySeq
          <6> QED BY <1>4, <4>1, <4>6, <5>4, <6>2 DEF LastTaskAgrees, ScreenOf
        <5> QED BY <2>1, <5>3, <5>4
      <4>7. k < n \/ k = n
        BY <1>2
      <4> QED BY <1>2, <4>2, <4>3, <4>4, <4>5, <4>6, <4>7
    <3> QED BY <3>1, <3>2, <3>3
  <2> QED BY <2>3, <2>4 DEF DisplayFollows
<1> QED BY <1>3, <1>8, <1>9

(* An event is heard: the last coroutine has the timers active now.        *)
LEMMA ReceiveDisplay ==
  ASSUME DisplayInv, Receive PROVE InStages' /\ DisplayFollows'
<1> DEFINE n == Len(tasks)
           e == wire[1]
           now == ActiveIn(records')
           l == [timers |-> now, stage |-> 1, screen |-> ScreenFor(e, now)]
<1>1. TimerTypes /\ InStages
  BY DEF DisplayInv, CacheInv, RequestsInv
<1>2. /\ wire # <<>> /\ wire \in Seq(Events) /\ records' \in Updated(e)
      /\ tasks' = Append(tasks, l)
  BY <1>1, Taken DEF Receive, TimerTypes
<1>3. l \in Updates /\ tasks \in Seq(Updates) /\ n \in Nat
  BY <1>1, LenProperties DEF TimerTypes, Updates, ActiveIn, ScreenFor
<1>4. l.timers = now /\ l.stage = 1 /\ l.screen = ScreenFor(e, now)
  OBVIOUS
<1> HIDE DEF l
<1>5. /\ Len(tasks') = n + 1 /\ tasks'[n + 1] = l
      /\ \A k \in 1 .. n : tasks'[k] = tasks[k]
  BY <1>2, <1>3, AppendProperties
<1>6. InStages'
  <2>1. \A k \in 1 .. n + 1 : k \in 1 .. n \/ k = n + 1
    BY <1>3
  <2> SUFFICES ASSUME NEW j \in 1 .. n + 1, NEW k \in 1 .. n + 1, j < k,
                      tasks'[j].stage = 1
               PROVE  tasks'[k].stage = 1
    BY <1>5 DEF InStages
  <2>2. CASE k = n + 1
    BY <1>4, <1>5, <2>2
  <2>3. CASE k # n + 1
    <3>1. j \in 1 .. n /\ k \in 1 .. n
      BY <1>3, <2>3
    <3> QED BY <1>1, <1>5, <3>1 DEF InStages
  <2> QED BY <2>2, <2>3
<1>7. l.screen = ScreenOf(now)
  <2>1. e \in Events
    BY <1>2, Taken
  <2>2. /\ e.id \in Ids /\ records'[e.id].last = e.type
        /\ ~ records'[e.id].lapsed
    BY <1>2, <2>1, RecordsUpdated DEF DisplayInv, Events
  <2>3. ActiveAfter(e.type) => e.id \in now
    BY <2>2 DEF ActiveIn
  <2> QED BY <1>4, <2>3 DEF ScreenFor, ScreenOf
<1>8. LastTaskAgrees'
  BY <1>3, <1>4, <1>5, <1>7, EmptySeq DEF LastTaskAgrees, Active, ScreenOf
<1> QED BY <1>6, <1>8 DEF DisplayFollows

LEMMA DisplayStep == DisplayInv /\ [TimerNext]_tvars => DisplayInv'
<1> SUFFICES ASSUME DisplayInv, [TimerNext]_tvars PROVE DisplayInv'
  OBVIOUS
<1>0. CacheInv /\ TimerTypes /\ InStages /\ DisplayFollows
  BY DEF DisplayInv, CacheInv, RequestsInv
<1>1. CacheInv'
  BY <1>0, CacheStep
<1>2. CASE \E k \in 1 .. Pending : ShowTimers(k) \/ ShowScreen(k)
  BY <1>1, <1>2, ShowDisplay DEF DisplayInv
<1>3. CASE Receive
  BY <1>1, <1>3, ReceiveDisplay DEF DisplayInv
<1>4. ASSUME UNCHANGED <<due, wire, records, tasks, shown, untold>>
      PROVE  InStages' /\ DisplayFollows'
  BY <1>0, <1>4
     DEF InStages, DisplayFollows, Settled, DuesApart, ShownStale,
         LastTaskAgrees, ShownAgrees, ScreenOf, Active, ActiveIn
<1>5. CASE \/ \E t \in Timers : AskCreate(t)
           \/ AskStatus \/ AskControl \/ AskAdjust \/ AskSnooze \/ Subscribe
           \/ UNCHANGED tvars
  <2>1. UNCHANGED <<due, wire, records, tasks, shown, untold>>
    BY <1>5 DEF AskCreate, AskStatus, AskControl, AskAdjust, AskSnooze,
                Request, Subscribe, tvars
  <2> QED BY <1>1, <1>4, <2>1 DEF DisplayInv
<1>6. ASSUME NEW e \in Events, Emit(e), UNCHANGED <<due, records, tasks, shown>>
      PROVE  InStages' /\ DisplayFollows'
  <2>1. untold' # {} \/ Len(wire') > Len(wire)
    BY <1>0, <1>6, Sent
  <2>2. Len(wire) \in Nat
    BY <1>0, LenProperties DEF TimerTypes
  <2>3. ~ (Settled' /\ untold' = {})
    BY <2>1, <2>2, EmptySeq DEF Settled
  <2> QED BY <1>0, <1>6, <2>3 DEF InStages, DisplayFollows
<1>7. ASSUME NEW t \in Named, NEW y \in Kinds,
             NEW k \in {"own", "provisional"}
      PROVE  Event(y, t, <<t, k>>) \in Events
  BY EventIs DEF Ids
<1>8. CASE \E t \in Timers : Complete(t)
  BY <1>1, <1>6, <1>7, <1>8, IdIs DEF Complete, DisplayInv, Kinds
<1>9. CASE Publish
  <2>1. Head(jobs) \in Jobs /\ Head(jobs) = jobs[1] /\ 1 \in 1 .. Len(jobs)
    BY <1>0, <1>9, Taken DEF Publish, TimerTypes
  <2>2. /\ Head(jobs).act = "create" => Head(jobs).timer \in Timers
        /\ Head(jobs).timer \in Named \cup {Nothing}
        /\ Timers \subseteq Named /\ Session \in Named
    BY <1>0, <2>1, IdIs DEF CacheInv, RequestsInv, QueuedOnce, Jobs
  <2>3. UNCHANGED <<due, records, tasks, shown>>
    BY <1>9 DEF Publish
  <2>4. \/ UNCHANGED <<wire, untold>>
        \/ \E e \in Events : Emit(e)
    <3>1. \A may : \A then \in {"running", "over"} :
            Answered(Head(jobs), may, then) => \E e \in Events : Emit(e)
      BY <1>7, <2>2 DEF Answered, Kinds
    <3>2. CreateTimer(Head(jobs)) => \E e \in Events : Emit(e)
      BY <1>7, <2>2 DEF CreateTimer, Kinds
    <3>3. Denied(Head(jobs)) => \E e \in Events : Emit(e)
      <4>1. \A a \in DOMAIN FailureOf : FailureOf[a] \in Kinds
        BY DEF FailureOf, Kinds
      <4>2. \A b : (IF b THEN "active" ELSE "over") \in Kinds
        BY DEF Kinds
      <4> QED BY <1>7, <2>2, <4>1, <4>2 DEF Denied
    <3> QED
      BY <1>9, <3>1, <3>2, <3>3
         DEF Publish, TellStatus, ControlTimer, AdjustTimer, SnoozeTimer,
             NotPublished
  <2> QED BY <1>1, <1>4, <1>6, <2>3, <2>4 DEF DisplayInv
<1>10. CASE Disconnect
  <2>1. /\ wire' = <<>>
        /\ untold' = untold \cup {wire[k].timer : k \in DOMAIN wire}
        /\ UNCHANGED <<due, records, tasks, shown>>
    BY <1>10 DEF Disconnect
  <2>2. CASE wire = <<>>
    <3>1. DOMAIN wire = {}
      BY <1>0, <2>2, EmptySeq, LenProperties DEF TimerTypes
    <3>2. untold' = untold /\ wire' = wire
      BY <2>1, <2>2, <3>1
    <3> QED BY <1>1, <1>4, <2>1, <3>2 DEF DisplayInv
  <2>3. CASE wire # <<>>
    <3>1. 1 \in DOMAIN wire
      BY <1>0, <2>3, Taken, LenProperties DEF TimerTypes
    <3>2. untold' # {}
      BY <2>1, <3>1
    <3> QED BY <1>0, <1>1, <2>1, <3>2 DEF DisplayInv, InStages, DisplayFollows
  <2> QED BY <2>2, <2>3
<1>11. CASE \E i \in Ids : Lapse(i)
  <2>1. PICK i \in Ids : Lapse(i)
    BY <1>11
  <2>2. i \in Active /\ i[1] \notin Running /\ i[1] \in Named
        /\ UNCHANGED <<due, wire, tasks, shown, untold>>
    BY <2>1, IdIs DEF Lapse
  <2>3. ~ (Settled /\ untold = {})
    <3> SUFFICES ASSUME Settled, untold = {} PROVE FALSE
      OBVIOUS
    <3>1. CacheAgrees /\ 1 .. Len(wire) = {}
      BY <1>0, EmptySeq DEF CacheInv, Followed, Settled
    <3>2. i[1] \in Running
      BY <2>2, <3>1 DEF CacheAgrees
    <3> QED BY <2>2, <3>2
  <2>4. Settled' => Settled
    BY <2>2 DEF Settled, DuesApart
  <2> QED BY <1>0, <1>1, <2>2, <2>3, <2>4 DEF DisplayInv, InStages, DisplayFollows
<1> QED
  BY <1>2, <1>3, <1>5, <1>8, <1>9, <1>10, <1>11 DEF TimerNext

LEMMA DisplayInitInv == TimerInit => DisplayInv
<1> SUFFICES ASSUME TimerInit PROVE DisplayInv
  OBVIOUS
<1>1. CacheInv
  BY CacheInitInv
<1>2. tasks = <<>> /\ shown = [timers |-> {}, screen |-> "idle", stale |-> FALSE]
      /\ \A i \in Ids : records[i] = NoRecord
  BY DEF TimerInit
<1>3. Active = {}
  BY <1>2 DEF Active, ActiveIn, ActiveAfter, NoRecord
<1>4. InStages /\ ShownAgrees
  BY <1>2, <1>3, EmptySeq DEF InStages, ShownAgrees, ScreenOf
<1> QED BY <1>1, <1>4 DEF DisplayInv, DisplayFollows

-----------------------------------------------------------------------------
(* The four parts, of which a behaviour follows one *)

ReportsInv == SpeechInv /\ CaptureInv /\ DisplayInv

(* What the part a behaviour follows does, the others leave alone.         *)
LEMMA PartSteps ==
  [Next]_<<tvars, svars, wvars, cvars, part>>
    => [TimerNext]_tvars /\ [SpeechNext]_svars
       /\ [WeatherNext]_wvars /\ [CaptureNext]_cvars
BY DEF Next

LEMMA Reports == Spec => [](ReportsInv /\ WeatherTypes)
<1>1. Init => ReportsInv /\ WeatherTypes
  BY SpeechInitInv, CaptureInitInv, DisplayInitInv, WeatherInitInv
     DEF Init, ReportsInv, WeatherInv
<1>2. ReportsInv /\ WeatherTypes /\ [Next]_<<tvars, svars, wvars, cvars, part>>
        => ReportsInv' /\ WeatherTypes'
  BY PartSteps, SpeechStep, CaptureStep, DisplayStep, WeatherTypesStep
     DEF ReportsInv
<1> QED BY <1>1, <1>2, PTL DEF Spec

(* Every variable of the timers' events, what is heard of them and the two *)
(* cards keeps its type.                                                   *)
THEOREM EventTypes == Spec => []EventsTypeOK
<1>1. ReportsInv /\ WeatherTypes => EventsTypeOK
  BY DEF ReportsInv, EventsTypeOK, DisplayInv, CacheInv, RequestsInv,
         TimerTypes, SpeechInv, SpeechTypes, CaptureInv, WeatherTypes
<1> QED BY <1>1, Reports, PTL

(* An alarm rings once however often its event is delivered, and a timer   *)
(* whose request was answered in its turn is not announced as well         *)
(* (TimerAnnouncementMonitor), for any number of keys remembered.          *)
THEOREM AlarmsAreHeardOnce == Spec => []HeardOnce
<1>1. ReportsInv => HeardOnce
  BY DEF ReportsInv, SpeechInv
<1> QED BY <1>1, Reports, PTL

(* A weather request is answered once on the panel that asked, as long as  *)
(* no id of a result has been forgotten, and a prompt of the timer's       *)
(* dialogue opens the microphone once (p4_quick_actions.py).               *)
THEOREM PanelsAnswerOnce ==
  ASSUME FewResults
  PROVE  Spec => []PanelInv
<1>1. Init => WeatherInv
  BY WeatherInitInv DEF Init
<1>2. WeatherInv /\ [Next]_<<tvars, svars, wvars, cvars, part>> => WeatherInv'
  BY PartSteps, WeatherStep
<1>3. Spec => []WeatherInv
  BY <1>1, <1>2, PTL DEF Spec
<1>4. CaptureInv => OneListenPerPrompt
  <2> SUFFICES ASSUME CaptureInv, NEW p \in TouchPanels
               PROVE  listens[p] <= prompts[p]
    BY DEF OneListenPerPrompt
  <2>1. listens[p] \in Nat /\ prompts[p] \in Nat
    BY CaptureAssumption DEF CaptureInv, CaptureTypeOK
  <2> QED BY <2>1 DEF CaptureInv, ListensFollowPrompts
<1>5. WeatherInv /\ ReportsInv => PanelInv
  BY <1>4 DEF WeatherInv, ReportsInv, PanelInv
<1> QED BY <1>3, <1>5, Reports, PTL

(* In a settled cache, what is known of a timer whose last event told its  *)
(* state: it has a record, and one, exactly if it runs.                    *)
LEMMA SettledCache ==
  ASSUME CacheInv, Settled, NEW t \in Named \ untold
  PROVE  /\ (\E i \in Active : i[1] = t) <=> t \in Running
         /\ \A i, j \in Active : i[1] = t /\ j[1] = t => i = j
<1>1. /\ OneRecord /\ CacheAgrees /\ 1 .. Len(wire) = {}
  BY EmptySeq DEF CacheInv, Followed, Settled
<1>2. /\ (\E i \in Active : i[1] = t) <=> t \in Running
      /\ Tells(records[Own(t)].last) \/ records[Own(t)].last = "none"
  BY <1>1 DEF CacheAgrees
<1>3. records[Own(t)].last = "none" \/ records[Prov(t)].last = "none"
  BY <1>1, <1>2 DEF OneRecord
<1>4. \A i \in Active : i \in Ids /\ records[i].last # "none"
  BY DEF Active, ActiveIn, ActiveAfter
<1> QED BY <1>2, <1>3, <1>4, IdIs

(* When the events have arrived, TimerOwnershipCache offers a timer, once  *)
(* and under one id, exactly if it runs, whatever requests failed before   *)
(* and whatever was lost, unless its last event did not bring its state.   *)
THEOREM CacheFollowsTheNode == Spec => []CacheAgreesWhenSettled
<1>1. CacheInv => CacheAgreesWhenSettled
  <2> SUFFICES ASSUME CacheInv, Settled, NEW t \in Named \ untold
               PROVE  Cardinality({i \in Active : i[1] = t})
                        = IF t \in Running THEN 1 ELSE 0
    BY DEF CacheAgreesWhenSettled
  <2> DEFINE mine == {i \in Active : i[1] = t}
  <2>1. mine # {} <=> t \in Running
    BY SettledCache
  <2>2. \A i, j \in mine : i = j
    BY SettledCache
  <2> HIDE DEF mine
  <2>3. CASE t \in Running
    <3>1. PICK i \in mine : mine = {i}
      BY <2>1, <2>2, <2>3
    <3> QED BY <2>3, <3>1, FS_Singleton DEF mine
  <2>4. CASE t \notin Running
    BY <2>1, <2>4, FS_EmptySet DEF mine
  <2> QED BY <2>3, <2>4
<1>2. ReportsInv => CacheInv
  BY DEF ReportsInv, DisplayInv
<1> QED BY <1>1, <1>2, Reports, PTL

(* When the coroutines of push_timer_state have run too, in any order      *)
(* their sends came to an end, and every last event told the state, the    *)
(* endpoint lists the timers that run, each once, and shows the timer      *)
(* screen exactly when there is one.                                       *)
THEOREM DisplayFollowsTheCache == Spec => []DisplayAgreesWhenSettled
<1>1. DisplayInv => DisplayAgreesWhenSettled
  <2> SUFFICES ASSUME DisplayInv, Settled, untold = {}, tasks = <<>>,
                      ~ shown.stale
               PROVE  /\ {i[1] : i \in shown.timers} = Running
                      /\ \A i, j \in shown.timers : i[1] = j[1] => i = j
                      /\ (shown.screen = "timer") = (Running # {})
    BY DEF DisplayAgreesWhenSettled
  <2>1. shown.timers = Active /\ shown.screen = ScreenOf(Active)
    BY DEF DisplayInv, DisplayFollows, ShownStale, LastTaskAgrees, ShownAgrees
  <2>2. /\ \A t \in Named : (\E i \in Active : i[1] = t) <=> t \in Running
        /\ \A t \in Named : \A i, j \in Active :
             i[1] = t /\ j[1] = t => i = j
    BY SettledCache DEF DisplayInv
  <2>3. \A i \in Active : i[1] \in Named
    BY IdIs DEF Active, ActiveIn
  <2>4. Running \subseteq Named
    BY IdIs DEF Running
  <2> QED BY <2>1, <2>2, <2>3, <2>4 DEF ScreenOf
<1>2. ReportsInv => DisplayInv
  BY DEF ReportsInv
<1> QED BY <1>1, <1>2, Reports, PTL
=============================================================================
