----------------------- MODULE CommandTrackingProofs ------------------------
(***************************************************************************)
(* Proofs about CommandTracking for every set of requests and every depth  *)
(* of the media queue.  The verdicts in the records are true because the   *)
(* ones under way are, and those because a request is in one place at a    *)
(* time until it is finished, and then in none.                            *)
(***************************************************************************)
EXTENDS CommandTracking, SequenceTheorems, TLAPS

In(s) == {s[i] : i \in 1 .. Len(s)}

Distinct(s) == \A i, j \in 1 .. Len(s) : s[i] = s[j] => i = j

(* What the two tasks of the endpoint are at work on.                      *)
InHand == IF task.at \in {"received", "acknowledged"} THEN {task.req} ELSE {}

AtWork == IF worker = Resting THEN {} ELSE {worker.req}

Open == {r \in pushed : outcome[r] = "open"}

RecordsFollowSends ==
  \A r \in Requests :
    /\ record[r] # "none" => r \in pushed /\ r \notin sending
    /\ outcome[r] # "open" => r \in pushed

(* A request is in one place at a time, and its outcome still open.        *)
OnePlace ==
  /\ Distinct(down) /\ Distinct(queue)
  /\ In(down) \cap In(queue) = {}
  /\ InHand \cap (In(down) \cup In(queue) \cup AtWork) = {}
  /\ AtWork \cap (In(down) \cup In(queue)) = {}
  /\ In(down) \cup In(queue) \cup InHand \cup AtWork \subseteq Open
  /\ task.at = "queued" => task.req \notin Quick

(* What may still come of a request after its verdict.                     *)
MayFollow(answer, verdict) ==
  answer.status = verdict
    \/ (answer.status = "accepted" /\ answer.req \notin Quick)

AnswersAreTrue ==
  \A i \in 1 .. Len(up) :
    up[i].status \in Verdicts => outcome[up[i].req] = up[i].status

AnswersInOrder ==
  /\ \A i, j \in 1 .. Len(up) :
       i < j /\ up[i].req = up[j].req /\ up[i].status \in Verdicts
         => MayFollow(up[j], up[i].status)
  /\ \A j \in 1 .. Len(up) :
       record[up[j].req] \in Verdicts => MayFollow(up[j], record[up[j].req])

IInv == /\ TypeOK
        /\ RecordsFollowSends
        /\ OnePlace
        /\ AnswersAreTrue
        /\ VerdictsAreTrue
        /\ AnswersInOrder

(* A step that takes a verdict back does so as VerdictsOnlyLostToQueueAck  *)
(* allows.                                                                 *)
Losing ==
  \A r \in Requests :
    record[r] \in Verdicts /\ record'[r] # record[r]
      => r \notin Quick /\ record'[r] = "accepted"

(* The goal for every step.                                                *)
Preserved == IInv' /\ Losing
-----------------------------------------------------------------------------
(* Sequences *)

(* What appending does to the elements of a sequence.                      *)
LEMMA Appended ==
  ASSUME NEW S, NEW s \in Seq(S), NEW e \in S
  PROVE  /\ Append(s, e) \in Seq(S) /\ Len(Append(s, e)) = Len(s) + 1
         /\ \A i \in 1 .. Len(s) : Append(s, e)[i] = s[i]
         /\ Append(s, e)[Len(s) + 1] = e
         /\ In(Append(s, e)) = In(s) \cup {e}
         /\ Distinct(s) /\ e \notin In(s) => Distinct(Append(s, e))
<1> DEFINE t == Append(s, e)
<1>1. t \in Seq(S) /\ Len(t) = Len(s) + 1 /\ Len(s) \in Nat
  BY LenProperties, AppendProperties
<1>2. \A i \in 1 .. Len(s) : t[i] = s[i]
  BY AppendProperties
<1>3. t[Len(s) + 1] = e
  BY AppendProperties
<1> HIDE DEF t
<1>4. 1 .. Len(t) = (1 .. Len(s)) \cup {Len(s) + 1}
  BY <1>1
<1>5. In(t) = In(s) \cup {e}
  BY <1>2, <1>3, <1>4 DEF In
<1>6. ASSUME Distinct(s), e \notin In(s) PROVE Distinct(t)
  BY <1>1, <1>2, <1>3, <1>4, <1>6 DEF In, Distinct
<1> QED BY <1>1, <1>2, <1>3, <1>5, <1>6 DEF t

(* What is left when the head of a sequence is taken.                      *)
LEMMA Taken ==
  ASSUME NEW S, NEW s \in Seq(S), s # <<>>
  PROVE  /\ Head(s) \in S /\ Head(s) = s[1] /\ Len(s) \in Nat \ {0}
         /\ Tail(s) \in Seq(S) /\ Len(Tail(s)) = Len(s) - 1
         /\ \A i \in 1 .. Len(Tail(s)) :
              i + 1 \in 1 .. Len(s) /\ Tail(s)[i] = s[i + 1]
         /\ In(s) = In(Tail(s)) \cup {Head(s)}
         /\ Distinct(s) => Distinct(Tail(s)) /\ Head(s) \notin In(Tail(s))
<1> DEFINE t == Tail(s)
<1>1. /\ Len(s) \in Nat \ {0} /\ Head(s) \in S /\ Head(s) = s[1]
      /\ t \in Seq(S) /\ Len(t) = Len(s) - 1
  BY EmptySeq, LenProperties, HeadTailProperties
<1>2. \A i \in 1 .. Len(t) : i + 1 \in 1 .. Len(s) /\ t[i] = s[i + 1]
  BY <1>1, HeadTailProperties
<1> HIDE DEF t
<1>3. \A j \in 1 .. Len(s) : j = 1 \/ (j - 1 \in 1 .. Len(t) /\ s[j] = t[j - 1])
  BY <1>1, <1>2
<1>4. In(s) = In(t) \cup {Head(s)}
  <2>1. \A x \in In(s) : x \in In(t) \cup {Head(s)}
    BY <1>1, <1>3 DEF In
  <2>2. \A x \in In(t) : x \in In(s)
    BY <1>2 DEF In
  <2>3. Head(s) \in In(s)
    BY <1>1 DEF In
  <2> QED BY <2>1, <2>2, <2>3
<1>5. ASSUME Distinct(s) PROVE Distinct(t) /\ Head(s) \notin In(t)
  <2>1. Distinct(t)
    BY <1>1, <1>2, <1>5 DEF Distinct
  <2>2. Head(s) \notin In(t)
    BY <1>1, <1>2, <1>5 DEF In, Distinct
  <2> QED BY <2>1, <2>2
<1> QED BY <1>1, <1>2, <1>4, <1>5 DEF t

(* Nothing is in the empty sequence.                                       *)
LEMMA NothingIn == Len(<<>>) = 0 /\ In(<<>>) = {} /\ Distinct(<<>>)
BY DEF In, Distinct

-----------------------------------------------------------------------------
(* What is said about the requests *)

AnswersRight == AnswersAreTrue /\ VerdictsAreTrue /\ AnswersInOrder

(* What the elements of up are.                                            *)
LEMMA AnswerElements ==
  ASSUME TypeOK
  PROVE  /\ up \in Seq(Answers) /\ Len(up) \in Nat
         /\ \A i \in 1 .. Len(up) : up[i] \in Answers /\ up[i].req \in Requests
         /\ \A i \in 1 .. Len(up) :
              up[i].status \in {"accepted", "started", "succeeded", "failed"}
<1>1. up \in Seq(Answers) /\ Len(up) \in Nat
  BY LenProperties DEF TypeOK
<1>2. \A i \in 1 .. Len(up) : up[i] \in Answers
  BY <1>1, ElementOfSeq
<1> QED BY <1>1, <1>2 DEF Answers, Verdicts

(* A step without an answer: none sent, none heard, some perhaps lost.     *)
LEMMA SilenceIsRight ==
  ASSUME IInv, up' \in {up, <<>>}, UNCHANGED outcome,
         \A r \in Requests : record'[r] \in Verdicts => record'[r] = record[r]
  PROVE  AnswersRight'
<1>1. CASE up' = up
  <2>1. \A j \in 1 .. Len(up) : up[j].req \in Requests
    BY AnswerElements DEF IInv
  <2> QED BY <1>1, <2>1 DEF IInv, AnswersRight, AnswersAreTrue, VerdictsAreTrue,
                            AnswersInOrder, MayFollow
<1>2. CASE up' = <<>>
  <2>1. 1 .. Len(up') = {}
    BY <1>2, NothingIn
  <2> QED BY <2>1 DEF IInv, AnswersRight, AnswersAreTrue, VerdictsAreTrue,
                      AnswersInOrder
<1> QED BY <1>1, <1>2

(* Progress is only sent of what is not finished, or as the second         *)
(* acknowledgement of a transfer.                                          *)
LEMMA ProgressIsRight ==
  ASSUME IInv, UNCHANGED <<record, outcome>>,
         NEW r \in Requests, NEW status \in {"accepted", "started"},
         Send(r, status),
         outcome[r] = "open" \/ (status = "accepted" /\ r \notin Quick)
  PROVE  AnswersRight' /\ up' \in Seq(Answers)
<1> DEFINE e == [req |-> r, status |-> status]
<1>1. TypeOK /\ AnswersAreTrue /\ VerdictsAreTrue /\ AnswersInOrder
  BY DEF IInv
<1>2. /\ up \in Seq(Answers) /\ Len(up) \in Nat
      /\ \A i \in 1 .. Len(up) : up[i].req \in Requests
  BY <1>1, AnswerElements
<1>3. CASE up' = up
  BY <1>2, <1>3, SilenceIsRight
<1>4. CASE up' = Append(up, e)
  <2>1. e \in Answers /\ e.req = r /\ e.status = status
    BY DEF Answers
  <2> HIDE DEF e
  <2>2. /\ up' \in Seq(Answers) /\ Len(up') = Len(up) + 1
        /\ \A i \in 1 .. Len(up) : up'[i] = up[i]
        /\ up'[Len(up) + 1] = e
    BY <1>2, <1>4, <2>1, Appended
  <2>3. 1 .. Len(up') = (1 .. Len(up)) \cup {Len(up) + 1}
    BY <1>2, <2>2
  <2>4. status \notin Verdicts /\ "open" \notin Verdicts
    BY DEF Verdicts
  <2>5. AnswersAreTrue'
    BY <1>1, <2>1, <2>2, <2>3, <2>4 DEF AnswersAreTrue
  <2>6. \A i \in 1 .. Len(up) :
          up[i].req = r /\ up[i].status \in Verdicts
            => status = "accepted" /\ r \notin Quick
    BY <1>1, <2>4 DEF AnswersAreTrue
  <2>7. record[r] \in Verdicts => status = "accepted" /\ r \notin Quick
    BY <1>1, <2>4 DEF VerdictsAreTrue
  <2>8. ASSUME NEW i \in 1 .. Len(up'), NEW j \in 1 .. Len(up'),
               i < j, up'[i].req = up'[j].req, up'[i].status \in Verdicts
        PROVE  MayFollow(up'[j], up'[i].status)
    <3>1. i \in 1 .. Len(up) /\ up'[i] = up[i]
      BY <1>2, <2>2, <2>3, <2>8
    <3>2. CASE j \in 1 .. Len(up)
      BY <1>1, <2>2, <2>8, <3>1, <3>2 DEF AnswersInOrder
    <3>3. CASE j = Len(up) + 1
      BY <2>1, <2>2, <2>6, <2>8, <3>1, <3>3 DEF MayFollow
    <3> QED BY <2>3, <3>2, <3>3
  <2>9. ASSUME NEW j \in 1 .. Len(up'), record[up'[j].req] \in Verdicts
        PROVE  MayFollow(up'[j], record[up'[j].req])
    <3>1. CASE j \in 1 .. Len(up)
      BY <1>1, <2>2, <2>9, <3>1 DEF AnswersInOrder
    <3>2. CASE j = Len(up) + 1
      BY <2>1, <2>2, <2>7, <2>9, <3>2 DEF MayFollow
    <3> QED BY <2>3, <3>1, <3>2
  <2>10. AnswersInOrder'
    BY <2>8, <2>9 DEF AnswersInOrder, MayFollow
  <2> QED BY <1>1, <2>2, <2>5, <2>10 DEF AnswersRight, VerdictsAreTrue
<1> QED BY <1>3, <1>4 DEF Send

(* The verdict on a request is sent when it is reached, and only then.     *)
LEMMA VerdictIsRight ==
  ASSUME IInv, UNCHANGED record,
         NEW r \in Requests, NEW verdict \in Verdicts, Finish(r, verdict),
         outcome[r] = "open"
  PROVE  AnswersRight' /\ up' \in Seq(Answers)
<1> DEFINE e == [req |-> r, status |-> verdict]
<1>1. TypeOK /\ AnswersAreTrue /\ VerdictsAreTrue /\ AnswersInOrder
  BY DEF IInv
<1>2. /\ up \in Seq(Answers) /\ Len(up) \in Nat
      /\ \A i \in 1 .. Len(up) : up[i].req \in Requests
  BY <1>1, AnswerElements
<1>3. outcome'[r] = verdict /\ \A q \in Requests : q # r => outcome'[q] = outcome[q]
  BY <1>1 DEF Finish, TypeOK
<1>4. "open" \notin Verdicts
  BY DEF Verdicts
<1>5. /\ record[r] \notin Verdicts
      /\ \A i \in 1 .. Len(up) : up[i].req = r => up[i].status \notin Verdicts
  BY <1>1, <1>4 DEF VerdictsAreTrue, AnswersAreTrue
<1>6. VerdictsAreTrue'
  BY <1>1, <1>3, <1>5 DEF VerdictsAreTrue
<1>7. \A i \in 1 .. Len(up) :
        up[i].status \in Verdicts => outcome'[up[i].req] = up[i].status
  BY <1>1, <1>2, <1>3, <1>5 DEF AnswersAreTrue
<1>8. CASE up' = up
  BY <1>1, <1>2, <1>6, <1>7, <1>8
  DEF AnswersRight, AnswersAreTrue, AnswersInOrder, MayFollow
<1>9. CASE up' = Append(up, e)
  <2>1. e \in Answers /\ e.req = r /\ e.status = verdict
    BY DEF Answers
  <2> HIDE DEF e
  <2>2. /\ up' \in Seq(Answers) /\ Len(up') = Len(up) + 1
        /\ \A i \in 1 .. Len(up) : up'[i] = up[i]
        /\ up'[Len(up) + 1] = e
    BY <1>2, <1>9, <2>1, Appended
  <2>3. 1 .. Len(up') = (1 .. Len(up)) \cup {Len(up) + 1}
    BY <1>2, <2>2
  <2>4. AnswersAreTrue'
    BY <1>3, <1>7, <2>1, <2>2, <2>3 DEF AnswersAreTrue
  <2>5. ASSUME NEW i \in 1 .. Len(up'), NEW j \in 1 .. Len(up'),
               i < j, up'[i].req = up'[j].req, up'[i].status \in Verdicts
        PROVE  MayFollow(up'[j], up'[i].status)
    <3>1. i \in 1 .. Len(up) /\ up'[i] = up[i]
      BY <1>2, <2>2, <2>3, <2>5
    <3>2. up[i].req # r
      BY <1>5, <2>5, <3>1
    <3>3. j \in 1 .. Len(up)
      BY <2>1, <2>2, <2>3, <2>5, <3>1, <3>2
    <3> QED BY <1>1, <2>2, <2>5, <3>1, <3>3 DEF AnswersInOrder
  <2>6. ASSUME NEW j \in 1 .. Len(up'), record[up'[j].req] \in Verdicts
        PROVE  MayFollow(up'[j], record[up'[j].req])
    <3>1. j \in 1 .. Len(up)
      BY <1>5, <2>1, <2>2, <2>3, <2>6
    <3> QED BY <1>1, <2>2, <2>6, <3>1 DEF AnswersInOrder
  <2>7. AnswersInOrder'
    BY <2>5, <2>6 DEF AnswersInOrder, MayFollow
  <2> QED BY <1>6, <2>2, <2>4, <2>7 DEF AnswersRight
<1> QED BY <1>2, <1>8, <1>9 DEF Finish, Send

(* An answer that is heard.                                                *)
LEMMA HearingIsRight ==
  ASSUME IInv, HearAnswer
  PROVE  /\ AnswersRight' /\ Losing /\ up' \in Seq(Answers)
         /\ record' \in [Requests -> Statuses]
         /\ \A r \in Requests : record[r] = "none" => record'[r] = "none"
<1> DEFINE a == Head(up)
<1>1. TypeOK /\ AnswersAreTrue /\ VerdictsAreTrue /\ AnswersInOrder
  BY DEF IInv
<1>2. /\ up \in Seq(Answers) /\ up # <<>> /\ Len(up) \in Nat
      /\ \A i \in 1 .. Len(up) : up[i].req \in Requests
      /\ \A i \in 1 .. Len(up) :
           up[i].status \in {"accepted", "started", "succeeded", "failed"}
  BY <1>1, AnswerElements DEF HearAnswer
<1>3. /\ a = up[1] /\ Len(up) \in Nat \ {0}
      /\ up' \in Seq(Answers) /\ Len(up') = Len(up) - 1
      /\ \A i \in 1 .. Len(up') : i + 1 \in 1 .. Len(up) /\ up'[i] = up[i + 1]
  BY <1>2, Taken DEF HearAnswer
<1>4. 1 \in 1 .. Len(up)
  BY <1>3
<1>5. a.req \in Requests /\ a.status \in {"accepted", "started", "succeeded", "failed"}
  BY <1>2, <1>3, <1>4
<1>6. record' = [record EXCEPT ![a.req] = IF @ = "none" THEN "none" ELSE a.status]
      /\ UNCHANGED outcome
  BY DEF HearAnswer, Answered, endpointVars
<1> HIDE DEF a
<1>7. /\ record'[a.req] = IF record[a.req] = "none" THEN "none" ELSE a.status
      /\ \A r \in Requests : r # a.req => record'[r] = record[r]
  BY <1>1, <1>5, <1>6 DEF TypeOK
<1>8. record' \in [Requests -> Statuses]
  BY <1>1, <1>5, <1>6 DEF TypeOK, Statuses, Terminal, Verdicts
<1>9. "none" \notin Verdicts
  BY DEF Verdicts
<1>10. AnswersAreTrue'
  BY <1>1, <1>3, <1>6 DEF AnswersAreTrue
<1>11. VerdictsAreTrue'
  BY <1>1, <1>3, <1>4, <1>6, <1>7, <1>9 DEF VerdictsAreTrue, AnswersAreTrue
<1>12. ASSUME NEW i \in 1 .. Len(up'), NEW j \in 1 .. Len(up'),
              i < j, up'[i].req = up'[j].req, up'[i].status \in Verdicts
       PROVE  MayFollow(up'[j], up'[i].status)
  <2>1. i + 1 \in 1 .. Len(up) /\ j + 1 \in 1 .. Len(up) /\ i + 1 < j + 1
        /\ up'[i] = up[i + 1] /\ up'[j] = up[j + 1]
    BY <1>3, <1>12
  <2> QED BY <1>1, <1>12, <2>1 DEF AnswersInOrder
<1>13. ASSUME NEW j \in 1 .. Len(up'), record'[up'[j].req] \in Verdicts
       PROVE  MayFollow(up'[j], record'[up'[j].req])
  <2>1. j + 1 \in 1 .. Len(up) /\ 1 < j + 1 /\ up'[j] = up[j + 1]
        /\ up'[j].req \in Requests
    BY <1>2, <1>3
  <2>2. CASE up'[j].req = a.req
    <3>1. record'[a.req] = a.status /\ a.status \in Verdicts
      BY <1>7, <1>9, <1>13, <2>2
    <3> QED BY <1>1, <1>3, <1>4, <2>1, <2>2, <3>1 DEF AnswersInOrder
  <2>3. CASE up'[j].req # a.req
    BY <1>1, <1>7, <1>13, <2>1, <2>3 DEF AnswersInOrder
  <2> QED BY <2>2, <2>3
<1>14. AnswersInOrder'
  BY <1>12, <1>13 DEF AnswersInOrder, MayFollow
<1>15. Losing
  <2>1. record[a.req] \in Verdicts => MayFollow(a, record[a.req])
    BY <1>1, <1>3, <1>4 DEF AnswersInOrder
  <2> QED BY <1>7, <1>9, <2>1 DEF Losing, MayFollow
<1> QED BY <1>3, <1>7, <1>8, <1>10, <1>11, <1>14, <1>15 DEF AnswersRight

-----------------------------------------------------------------------------
(* The steps of the backend *)

(* Where the requests are does not change with the records.                *)
LEMMA PlacesStay ==
  ASSUME IInv, UNCHANGED <<pushed, down, endpointVars>>
  PROVE  OnePlace'
<1>1. UNCHANGED <<pushed, down, task, queue, worker, outcome>>
  BY DEF endpointVars
<1>2. /\ In(down)' = In(down) /\ In(queue)' = In(queue)
      /\ InHand' = InHand /\ AtWork' = AtWork /\ Open' = Open
  BY <1>1 DEF In, InHand, AtWork, Open
<1>3. Distinct(down)' = Distinct(down) /\ Distinct(queue)' = Distinct(queue)
  BY <1>1 DEF Distinct
<1> QED BY <1>1, <1>2, <1>3 DEF IInv, OnePlace

(* A command is sent once, and is nowhere else.                            *)
LEMMA PushIsSound ==
  ASSUME IInv, NEW r \in Requests, Push(r)
  PROVE  Preserved
<1>1. TypeOK /\ RecordsFollowSends /\ OnePlace
  BY DEF IInv
<1>2. /\ down' \in Seq(Requests)
      /\ In(down') = In(down) \cup {r}
      /\ Distinct(down) /\ r \notin In(down) => Distinct(down')
  BY <1>1, Appended DEF Push, TypeOK
<1>3. r \notin pushed /\ outcome[r] = "open"
  BY <1>1 DEF Push, RecordsFollowSends
<1>4. r \notin In(down) \cup In(queue) \cup InHand \cup AtWork
  BY <1>1, <1>3 DEF OnePlace, Open
<1>5. TypeOK'
  BY <1>1, <1>2 DEF Push, TypeOK, endpointVars
<1>6. RecordsFollowSends'
  BY <1>1, <1>3 DEF Push, RecordsFollowSends, endpointVars
<1>7. Open' = Open \cup {r}
  BY <1>1, <1>3 DEF Push, Open, endpointVars
<1>8. In(queue') = In(queue) /\ InHand' = InHand /\ AtWork' = AtWork
      /\ Distinct(queue') = Distinct(queue) /\ task' = task
  BY DEF Push, endpointVars, In, InHand, AtWork, Distinct
<1>9. OnePlace'
  BY <1>1, <1>2, <1>4, <1>7, <1>8 DEF OnePlace
<1>10. AnswersRight' /\ Losing
  BY SilenceIsRight DEF Push, endpointVars, Losing
<1> QED BY <1>5, <1>6, <1>9, <1>10 DEF Preserved, IInv, AnswersRight

(* The record is made when no verdict can be in it yet.                    *)
LEMMA MakeRecordIsSound ==
  ASSUME IInv, NEW r \in Requests, MakeRecord(r)
  PROVE  Preserved
<1>1. TypeOK /\ RecordsFollowSends
  BY DEF IInv
<1>2. /\ record'[r] = "pending"
      /\ \A q \in Requests : q # r => record'[q] = record[q]
      /\ record' \in [Requests -> Statuses]
  BY <1>1 DEF MakeRecord, TypeOK, Statuses
<1>3. record[r] = "none" /\ r \in pushed
  BY <1>1 DEF MakeRecord, RecordsFollowSends, TypeOK
<1>4. "none" \notin Verdicts /\ "pending" \notin Verdicts
  BY DEF Verdicts
<1>5. TypeOK'
  BY <1>1, <1>2 DEF MakeRecord, TypeOK, endpointVars
<1>6. RecordsFollowSends'
  BY <1>1, <1>2, <1>3 DEF MakeRecord, RecordsFollowSends, endpointVars
<1>7. OnePlace'
  BY PlacesStay DEF MakeRecord
<1>8. \A q \in Requests : record'[q] \in Verdicts => record'[q] = record[q]
  BY <1>2, <1>4
<1>9. AnswersRight'
  BY <1>8, SilenceIsRight DEF MakeRecord, endpointVars
<1>10. Losing
  BY <1>2, <1>3, <1>4 DEF Losing
<1> QED BY <1>5, <1>6, <1>7, <1>9, <1>10 DEF Preserved, IInv, AnswersRight

(* Without a record there is nothing to be wrong.                          *)
LEMMA PushFailsIsSound ==
  ASSUME IInv, NEW r \in Requests, PushFails(r)
  PROVE  Preserved
<1>1. TypeOK' /\ RecordsFollowSends'
  BY DEF IInv, PushFails, TypeOK, RecordsFollowSends, endpointVars
<1>2. OnePlace'
  BY PlacesStay DEF PushFails
<1>3. AnswersRight' /\ Losing
  BY SilenceIsRight DEF PushFails, endpointVars, Losing
<1> QED BY <1>1, <1>2, <1>3 DEF Preserved, IInv, AnswersRight

(* An answer is written into a record only if there is one.                *)
LEMMA HearAnswerIsSound ==
  ASSUME IInv, HearAnswer
  PROVE  Preserved
<1>1. /\ AnswersRight' /\ Losing /\ up' \in Seq(Answers)
      /\ record' \in [Requests -> Statuses]
      /\ \A r \in Requests : record[r] = "none" => record'[r] = "none"
  BY HearingIsRight
<1>2. TypeOK' /\ RecordsFollowSends'
  BY <1>1 DEF IInv, HearAnswer, TypeOK, RecordsFollowSends, endpointVars
<1>3. OnePlace'
  BY PlacesStay DEF HearAnswer
<1> QED BY <1>1, <1>2, <1>3 DEF Preserved, IInv, AnswersRight

(* Time passes for the records there are.                                  *)
LEMMA OverdueIsSound ==
  ASSUME IInv, NEW r \in Requests, Overdue(r)
  PROVE  Preserved
<1>1. TypeOK' /\ RecordsFollowSends'
  BY DEF IInv, Overdue, TypeOK, RecordsFollowSends, endpointVars
<1>2. OnePlace'
  BY PlacesStay DEF Overdue
<1>3. AnswersRight' /\ Losing
  BY SilenceIsRight DEF Overdue, endpointVars, Losing
<1> QED BY <1>1, <1>2, <1>3 DEF Preserved, IInv, AnswersRight

(* A verdict does not expire.                                              *)
LEMMA StatusPollIsSound ==
  ASSUME IInv, StatusPoll
  PROVE  Preserved
<1>1. TypeOK /\ RecordsFollowSends
  BY DEF IInv
<1>2. DOMAIN record = Requests
  BY <1>1 DEF TypeOK
<1>3. \A r \in Requests :
        record'[r] = IF r \in due /\ record[r] \notin Terminal \cup {"none"}
                       THEN "timed_out" ELSE record[r]
  BY <1>2 DEF StatusPoll, Expired
<1>4. record' \in [Requests -> Statuses]
  BY <1>1, <1>2 DEF StatusPoll, Expired, TypeOK, Statuses, Terminal
<1>5. "timed_out" \notin Verdicts /\ Verdicts \subseteq Terminal
  BY DEF Verdicts, Terminal
<1>6. TypeOK' /\ RecordsFollowSends'
  BY <1>1, <1>3, <1>4
  DEF StatusPoll, TypeOK, RecordsFollowSends, endpointVars
<1>7. OnePlace'
  BY PlacesStay DEF StatusPoll
<1>8. \A r \in Requests : record'[r] \in Verdicts => record'[r] = record[r]
  BY <1>3, <1>5
<1>9. AnswersRight'
  BY <1>8, SilenceIsRight DEF StatusPoll, endpointVars
<1>10. Losing
  BY <1>3, <1>5 DEF Losing
<1> QED BY <1>6, <1>7, <1>9, <1>10 DEF Preserved, IInv, AnswersRight

-----------------------------------------------------------------------------
(* The steps of the endpoint *)

(* What a task has in hand is a request.                                   *)
LEMMA Hands ==
  ASSUME TypeOK
  PROVE  /\ task.at # "idle" => task.req \in Requests
         /\ worker # Resting => worker.req \in Requests
         /\ \A at \in {"received", "acknowledged", "queued", "downloading"},
               r \in Requests :
              [at |-> at, req |-> r] \in TaskStates /\ [at |-> at, req |-> r] # Resting
         /\ Resting \in TaskStates /\ Resting.at = "idle"
BY CommandAssumption DEF TypeOK, TaskStates, Resting

(* What finishing a request does to the open ones.                         *)
LEMMA Finished ==
  ASSUME TypeOK, RecordsFollowSends, UNCHANGED backendVars,
         NEW r \in Open, NEW verdict \in Verdicts, Finish(r, verdict)
  PROVE  /\ outcome' \in [Requests -> Verdicts \cup {"open"}]
         /\ Open' = Open \ {r} /\ RecordsFollowSends' /\ Losing
<1>1. r \in Requests /\ r \in pushed /\ verdict # "open"
  BY DEF Open, TypeOK, Verdicts
<1>2. outcome' = [outcome EXCEPT ![r] = verdict]
  BY DEF Finish
<1>3. outcome' \in [Requests -> Verdicts \cup {"open"}]
  BY <1>2 DEF TypeOK
<1>4. Open' = Open \ {r}
  BY <1>1, <1>2 DEF Open, TypeOK, backendVars
<1>5. RecordsFollowSends'
  BY <1>1, <1>2 DEF RecordsFollowSends, TypeOK, backendVars
<1>6. Losing
  BY DEF Losing, backendVars
<1> QED BY <1>3, <1>4, <1>5, <1>6

(* A step that finishes nothing leaves what is open.                       *)
LEMMA StillOpen ==
  ASSUME RecordsFollowSends, UNCHANGED <<backendVars, outcome>>
  PROVE  Open' = Open /\ RecordsFollowSends' /\ Losing
BY DEF Open, RecordsFollowSends, Losing, backendVars

(* A command passes from the socket to the event task.                     *)
LEMMA ReceiveIsSound ==
  ASSUME IInv, Receive
  PROVE  Preserved
<1> DEFINE r == Head(down)
<1>1. TypeOK /\ RecordsFollowSends /\ OnePlace /\ task = Resting /\ task.at = "idle"
  BY Hands DEF IInv, Receive
<1>2. /\ r \in Requests /\ down' \in Seq(Requests)
      /\ In(down) = In(down') \cup {r}
      /\ Distinct(down') /\ r \notin In(down')
  BY <1>1, Taken DEF Receive, TypeOK, OnePlace
<1>3. task' = [at |-> "received", req |-> r]
  BY DEF Receive
<1> HIDE DEF r
<1>4. UNCHANGED <<linked, up, queue, worker, outcome>> /\ UNCHANGED backendVars
  BY DEF Receive
<1>5. TypeOK'
  BY <1>1, <1>2, <1>3, <1>4, Hands DEF TypeOK, backendVars, TaskStates
<1>6. Open' = Open /\ RecordsFollowSends' /\ Losing
  BY <1>1, <1>4, StillOpen
<1>7. InHand = {} /\ InHand' = {r}
  BY <1>1, <1>3 DEF InHand
<1>8. UNCHANGED <<AtWork, In(queue), Distinct(queue)>>
  BY <1>4 DEF AtWork, In, Distinct
<1>9. OnePlace'
  BY <1>1, <1>2, <1>3, <1>6, <1>7, <1>8 DEF OnePlace
<1>10. AnswersRight'
  BY <1>4, SilenceIsRight DEF backendVars
<1> QED BY <1>5, <1>6, <1>9, <1>10 DEF Preserved, IInv, AnswersRight

(* The receipt is acknowledged while nothing is decided.                   *)
LEMMA AckReceivedIsSound ==
  ASSUME IInv, AckReceived
  PROVE  Preserved
<1> DEFINE r == task.req
<1>1. TypeOK /\ RecordsFollowSends /\ OnePlace /\ task.at = "received"
  BY DEF IInv, AckReceived
<1>2. r \in Requests /\ outcome[r] = "open" /\ InHand = {r}
  BY <1>1, Hands DEF OnePlace, InHand, Open
<1>3. task' = [at |-> "acknowledged", req |-> r]
  BY <1>1 DEF AckReceived, TypeOK, TaskStates, Resting
<1>4. UNCHANGED <<linked, down, queue, worker, outcome>> /\ UNCHANGED backendVars
  BY DEF AckReceived
<1>5. AnswersRight' /\ up' \in Seq(Answers)
  BY <1>2, <1>4, ProgressIsRight DEF AckReceived, backendVars
<1> HIDE DEF r
<1>6. TypeOK'
  BY <1>1, <1>2, <1>3, <1>4, <1>5, Hands DEF TypeOK, backendVars, TaskStates
<1>7. Open' = Open /\ RecordsFollowSends' /\ Losing
  BY <1>1, <1>4, StillOpen
<1>8. InHand' = InHand
  BY <1>2, <1>3 DEF InHand
<1>9. UNCHANGED <<AtWork, In(down), In(queue), Distinct(down), Distinct(queue)>>
  BY <1>4 DEF AtWork, In, Distinct
<1>10. OnePlace'
  BY <1>1, <1>3, <1>7, <1>8, <1>9 DEF OnePlace
<1> QED BY <1>5, <1>6, <1>7, <1>10 DEF Preserved, IInv, AnswersRight

(* The event task runs a command, or refuses a transfer.                   *)
LEMMA EventTaskFinishes ==
  ASSUME IInv, RunQuick \/ RefuseTransfer
  PROVE  Preserved
<1> DEFINE r == task.req
<1>1. TypeOK /\ RecordsFollowSends /\ OnePlace /\ task.at = "acknowledged"
  BY DEF IInv, RunQuick, RefuseTransfer
<1>2. PICK verdict \in Verdicts : Finish(r, verdict)
  BY DEF RunQuick, RefuseTransfer, Verdicts
<1>3. InHand = {r} /\ r \in Open /\ r \in Requests
  BY <1>1, Hands DEF OnePlace, InHand
<1>4. /\ UNCHANGED <<linked, down, queue, worker>> /\ UNCHANGED backendVars
      /\ task' = Resting
  BY DEF RunQuick, RefuseTransfer
<1>5. AnswersRight' /\ up' \in Seq(Answers)
  BY <1>2, <1>3, <1>4, VerdictIsRight DEF Open, backendVars
<1>6. /\ outcome' \in [Requests -> Verdicts \cup {"open"}]
      /\ Open' = Open \ {r} /\ RecordsFollowSends' /\ Losing
  BY <1>1, <1>2, <1>3, <1>4, Finished
<1> HIDE DEF r
<1>7. TypeOK'
  BY <1>1, <1>4, <1>5, <1>6, Hands DEF TypeOK, backendVars, TaskStates
<1>8. InHand' = {} /\ task'.at # "queued"
  BY <1>4 DEF InHand, Resting
<1>9. UNCHANGED <<AtWork, In(down), In(queue), Distinct(down), Distinct(queue)>>
  BY <1>4 DEF AtWork, In, Distinct
<1>10. OnePlace'
  BY <1>1, <1>3, <1>6, <1>8, <1>9 DEF OnePlace
<1> QED BY <1>5, <1>6, <1>7, <1>10 DEF Preserved, IInv, AnswersRight

(* A transfer passes from the event task to the queue.                     *)
LEMMA QueueTransferIsSound ==
  ASSUME IInv, QueueTransfer
  PROVE  Preserved
<1> DEFINE r == task.req
<1>1. TypeOK /\ RecordsFollowSends /\ OnePlace /\ task.at = "acknowledged"
      /\ r \notin Quick /\ Len(queue) < QueueDepth
  BY DEF IInv, QueueTransfer
<1>2. r \in Requests /\ InHand = {r}
  BY <1>1, Hands DEF InHand
<1>3. /\ queue' \in Seq(Requests) /\ Len(queue') = Len(queue) + 1
      /\ In(queue') = In(queue) \cup {r}
      /\ Distinct(queue) /\ r \notin In(queue) => Distinct(queue')
  BY <1>1, <1>2, Appended DEF QueueTransfer, TypeOK
<1>4. task' = [at |-> "queued", req |-> r]
  BY <1>1 DEF QueueTransfer, TypeOK, TaskStates, Resting
<1> HIDE DEF r
<1>5. UNCHANGED <<linked, down, up, worker, outcome>> /\ UNCHANGED backendVars
  BY DEF QueueTransfer
<1>6. Len(queue) \in Nat /\ QueueDepth \in Nat
  BY <1>1, LenProperties, CommandAssumption DEF TypeOK
<1>7. Len(queue') <= QueueDepth
  BY <1>1, <1>3, <1>6
<1>8. TypeOK'
  BY <1>1, <1>2, <1>3, <1>4, <1>5, <1>7, Hands
  DEF TypeOK, backendVars, TaskStates
<1>9. Open' = Open /\ RecordsFollowSends' /\ Losing
  BY <1>1, <1>5, StillOpen
<1>10. InHand' = {}
  BY <1>4 DEF InHand
<1>11. UNCHANGED <<AtWork, In(down), Distinct(down)>>
  BY <1>5 DEF AtWork, In, Distinct
<1>12. OnePlace'
  BY <1>1, <1>2, <1>3, <1>4, <1>9, <1>10, <1>11 DEF OnePlace
<1>13. AnswersRight'
  BY <1>5, SilenceIsRight DEF backendVars
<1> QED BY <1>8, <1>9, <1>12, <1>13 DEF Preserved, IInv, AnswersRight

(* The second acknowledgement is of a transfer.                            *)
LEMMA AckQueuedIsSound ==
  ASSUME IInv, AckQueued
  PROVE  Preserved
<1> DEFINE r == task.req
<1>1. TypeOK /\ RecordsFollowSends /\ OnePlace /\ task.at = "queued"
  BY DEF IInv, AckQueued
<1>2. r \in Requests /\ r \notin Quick /\ InHand = {}
  BY <1>1, Hands DEF OnePlace, InHand
<1>3. /\ UNCHANGED <<linked, down, queue, worker, outcome>> /\ UNCHANGED backendVars
      /\ task' = Resting
  BY DEF AckQueued
<1>4. AnswersRight' /\ up' \in Seq(Answers)
  BY <1>2, <1>3, ProgressIsRight DEF AckQueued, backendVars
<1> HIDE DEF r
<1>5. TypeOK'
  BY <1>1, <1>3, <1>4, Hands DEF TypeOK, backendVars, TaskStates
<1>6. Open' = Open /\ RecordsFollowSends' /\ Losing
  BY <1>1, <1>3, StillOpen
<1>7. InHand' = {} /\ task'.at # "queued"
  BY <1>3 DEF InHand, Resting
<1>8. UNCHANGED <<AtWork, In(down), In(queue), Distinct(down), Distinct(queue)>>
  BY <1>3 DEF AtWork, In, Distinct
<1>9. OnePlace'
  BY <1>1, <1>2, <1>6, <1>7, <1>8 DEF OnePlace
<1> QED BY <1>4, <1>5, <1>6, <1>9 DEF Preserved, IInv, AnswersRight

(* A transfer passes from the queue to the worker.                         *)
LEMMA TakeTransferIsSound ==
  ASSUME IInv, TakeTransfer
  PROVE  Preserved
<1> DEFINE r == Head(queue)
<1>1. TypeOK /\ RecordsFollowSends /\ OnePlace /\ worker = Resting
  BY DEF IInv, TakeTransfer
<1>2. /\ r \in Requests /\ queue' \in Seq(Requests)
      /\ Len(queue) \in Nat /\ Len(queue') = Len(queue) - 1
      /\ In(queue) = In(queue') \cup {r}
      /\ Distinct(queue') /\ r \notin In(queue')
  BY <1>1, Taken DEF TakeTransfer, TypeOK, OnePlace
<1>3. worker' = [at |-> "taken", req |-> r]
  BY DEF TakeTransfer
<1> HIDE DEF r
<1>4. UNCHANGED <<linked, down, up, task, outcome>> /\ UNCHANGED backendVars
  BY DEF TakeTransfer
<1>5. Len(queue') <= QueueDepth
  BY <1>1, <1>2, CommandAssumption DEF TypeOK
<1>6. TypeOK'
  BY <1>1, <1>2, <1>3, <1>4, <1>5 DEF TypeOK, backendVars, TaskStates
<1>7. Open' = Open /\ RecordsFollowSends' /\ Losing
  BY <1>1, <1>4, StillOpen
<1>8. AtWork = {} /\ AtWork' = {r}
  BY <1>1, <1>3 DEF AtWork, Resting
<1>9. UNCHANGED <<InHand, In(down), Distinct(down)>>
  BY <1>4 DEF InHand, In, Distinct
<1>10. OnePlace'
  BY <1>1, <1>2, <1>4, <1>7, <1>8, <1>9 DEF OnePlace
<1>11. AnswersRight'
  BY <1>4, SilenceIsRight DEF backendVars
<1> QED BY <1>6, <1>7, <1>10, <1>11 DEF Preserved, IInv, AnswersRight

(* The worker reports its beginning while nothing is decided.              *)
LEMMA StartTransferIsSound ==
  ASSUME IInv, StartTransfer
  PROVE  Preserved
<1> DEFINE r == worker.req
<1>1. TypeOK /\ RecordsFollowSends /\ OnePlace /\ worker.at = "taken"
  BY DEF IInv, StartTransfer
<1>2. worker # Resting
  BY <1>1 DEF Resting
<1>3. r \in Requests /\ outcome[r] = "open" /\ AtWork = {r}
  BY <1>1, <1>2, Hands DEF OnePlace, AtWork, Open
<1>4. worker' = [at |-> "downloading", req |-> r]
  BY <1>1, <1>2 DEF StartTransfer, TypeOK, TaskStates
<1>5. UNCHANGED <<linked, down, task, queue, outcome>> /\ UNCHANGED backendVars
  BY DEF StartTransfer
<1>6. AnswersRight' /\ up' \in Seq(Answers)
  BY <1>3, <1>5, ProgressIsRight DEF StartTransfer, backendVars
<1> HIDE DEF r
<1>7. TypeOK'
  BY <1>1, <1>3, <1>4, <1>5, <1>6 DEF TypeOK, backendVars, TaskStates
<1>8. Open' = Open /\ RecordsFollowSends' /\ Losing
  BY <1>1, <1>5, StillOpen
<1>9. AtWork' = AtWork
  BY <1>3, <1>4 DEF AtWork, Resting
<1>10. UNCHANGED <<InHand, In(down), In(queue), Distinct(down), Distinct(queue)>>
  BY <1>5 DEF InHand, In, Distinct
<1>11. OnePlace'
  BY <1>1, <1>5, <1>8, <1>9, <1>10 DEF OnePlace
<1> QED BY <1>6, <1>7, <1>8, <1>11 DEF Preserved, IInv, AnswersRight

(* The worker finishes a transfer, one way or the other.                   *)
LEMMA WorkerFinishes ==
  ASSUME IInv, FailTransfer \/ StoreTransfer
  PROVE  Preserved
<1> DEFINE r == worker.req
<1>1. TypeOK /\ RecordsFollowSends /\ OnePlace
  BY DEF IInv
<1>2. worker # Resting
  BY DEF FailTransfer, StoreTransfer, Resting
<1>3. PICK verdict \in Verdicts : Finish(r, verdict)
  BY DEF FailTransfer, StoreTransfer, Verdicts
<1>4. AtWork = {r} /\ r \in Open /\ r \in Requests
  BY <1>1, <1>2, Hands DEF OnePlace, AtWork
<1>5. /\ UNCHANGED <<linked, down, task, queue>> /\ UNCHANGED backendVars
      /\ worker' = Resting
  BY DEF FailTransfer, StoreTransfer
<1>6. AnswersRight' /\ up' \in Seq(Answers)
  BY <1>3, <1>4, <1>5, VerdictIsRight DEF Open, backendVars
<1>7. /\ outcome' \in [Requests -> Verdicts \cup {"open"}]
      /\ Open' = Open \ {r} /\ RecordsFollowSends' /\ Losing
  BY <1>1, <1>3, <1>4, <1>5, Finished
<1> HIDE DEF r
<1>8. TypeOK'
  BY <1>1, <1>5, <1>6, <1>7, Hands DEF TypeOK, backendVars
<1>9. AtWork' = {}
  BY <1>5 DEF AtWork
<1>10. UNCHANGED <<InHand, In(down), In(queue), Distinct(down), Distinct(queue)>>
  BY <1>5 DEF InHand, In, Distinct
<1>11. OnePlace'
  BY <1>1, <1>4, <1>5, <1>7, <1>9, <1>10 DEF OnePlace
<1> QED BY <1>6, <1>7, <1>8, <1>11 DEF Preserved, IInv, AnswersRight

-----------------------------------------------------------------------------
(* The connection *)

(* Messages are lost, and with a restart everything the tasks had in hand. *)
LEMMA ConnectionIsSound ==
  ASSUME IInv, Connect \/ Disconnect \/ Reboot
  PROVE  Preserved
<1>1. TypeOK /\ RecordsFollowSends /\ OnePlace
  BY DEF IInv
<1>2. UNCHANGED <<backendVars, outcome>> /\ up' \in {up, <<>>}
  BY DEF Connect, Disconnect, Reboot, endpointVars
<1>3. Open' = Open /\ RecordsFollowSends' /\ Losing
  BY <1>1, <1>2, StillOpen
<1>4. AnswersRight'
  BY <1>2, SilenceIsRight DEF backendVars
<1>5. <<>> \in Seq(Requests) /\ <<>> \in Seq(Answers)
  BY EmptySeq
<1>6. QueueDepth \in Nat /\ Len(<<>>) = 0
  BY CommandAssumption
<1>7. TypeOK'
  <2>1. CASE Connect \/ Disconnect
    BY <1>1, <1>5, <2>1 DEF TypeOK, Connect, Disconnect, backendVars, endpointVars
  <2>2. CASE Reboot
    <3>1. task' \in TaskStates /\ worker' \in TaskStates /\ Len(queue') <= QueueDepth
      BY <1>6, <2>2 DEF Reboot, TaskStates
    <3>2. down' \in Seq(Requests) /\ up' \in Seq(Answers) /\ queue' \in Seq(Requests)
      BY <1>5, <2>2 DEF Reboot
    <3> QED BY <1>1, <2>2, <3>1, <3>2 DEF TypeOK, Reboot, backendVars
  <2> QED BY <2>1, <2>2
<1>8. OnePlace'
  <2>1. CASE Connect
    <3>1. UNCHANGED <<pushed, down, endpointVars>>
      BY <2>1 DEF Connect, backendVars
    <3> QED BY <3>1, PlacesStay
  <2>2. CASE Disconnect
    <3>1. UNCHANGED <<In(queue), Distinct(queue), InHand, AtWork, task>>
      BY <2>2 DEF Disconnect, endpointVars, In, Distinct, InHand, AtWork
    <3>2. In(down') = {} /\ Distinct(down')
      BY <2>2, NothingIn DEF Disconnect
    <3> QED BY <1>1, <1>3, <3>1, <3>2 DEF OnePlace
  <2>3. CASE Reboot
    <3>1. InHand' = {} /\ AtWork' = {} /\ task'.at # "queued"
      BY <2>3 DEF Reboot, InHand, AtWork, Resting
    <3>2. In(down') = {} /\ Distinct(down') /\ In(queue') = {} /\ Distinct(queue')
      BY <2>3, NothingIn DEF Reboot
    <3> QED BY <3>1, <3>2 DEF OnePlace
  <2> QED BY <2>1, <2>2, <2>3
<1> QED BY <1>3, <1>4, <1>7, <1>8 DEF Preserved, IInv, AnswersRight

(* A step of others.                                                       *)
LEMMA StutteringIsSound ==
  ASSUME IInv, UNCHANGED kvars
  PROVE  Preserved
<1>1. UNCHANGED <<record, due, pushed, sending, linked, down, up>>
      /\ UNCHANGED <<task, queue, worker, outcome>>
  BY DEF kvars, backendVars, endpointVars
<1>2. TypeOK' /\ RecordsFollowSends' /\ Losing
  BY <1>1 DEF IInv, TypeOK, RecordsFollowSends, Losing
<1>3. OnePlace'
  <2>1. UNCHANGED <<pushed, down, endpointVars>>
    BY <1>1 DEF endpointVars
  <2> QED BY <2>1, PlacesStay
<1>4. AnswersRight'
  BY <1>1, SilenceIsRight
<1> QED BY <1>2, <1>3, <1>4 DEF Preserved, IInv, AnswersRight

-----------------------------------------------------------------------------
(* The specification *)

(* It starts with nothing said and nothing under way.                      *)
LEMMA InitIsSound == Init => IInv
<1> SUFFICES ASSUME Init PROVE IInv
  OBVIOUS
<1>1. <<>> \in Seq(Requests) /\ <<>> \in Seq(Answers) /\ Resting \in TaskStates
  BY EmptySeq DEF TaskStates
<1>2. QueueDepth \in Nat /\ Len(<<>>) = 0 /\ 1 .. 0 = {}
  BY CommandAssumption
<1>3. TypeOK
  <2>1. record \in [Requests -> Statuses] /\ outcome \in [Requests -> Verdicts \cup {"open"}]
    BY DEF Init, Statuses
  <2>2. Len(queue) <= QueueDepth
    BY <1>2 DEF Init
  <2>3. /\ due \subseteq pushed /\ pushed \subseteq Requests
        /\ sending \subseteq pushed /\ linked \in BOOLEAN
    BY DEF Init
  <2>4. /\ down \in Seq(Requests) /\ queue \in Seq(Requests) /\ up \in Seq(Answers)
        /\ task \in TaskStates /\ worker \in TaskStates
    BY <1>1 DEF Init
  <2> QED BY <2>1, <2>2, <2>3, <2>4 DEF TypeOK
<1>4. RecordsFollowSends /\ VerdictsAreTrue
  BY DEF Init, RecordsFollowSends, VerdictsAreTrue, Verdicts
<1>5. InHand = {} /\ AtWork = {} /\ task.at # "queued"
  BY DEF Init, InHand, AtWork, Resting
<1>6. OnePlace
  BY <1>5, NothingIn DEF Init, OnePlace
<1>7. AnswersAreTrue /\ AnswersInOrder
  BY <1>2 DEF Init, AnswersAreTrue, AnswersInOrder
<1> QED BY <1>3, <1>4, <1>6, <1>7 DEF IInv

(* Every step keeps it.                                                    *)
LEMMA NextIsSound ==
  ASSUME IInv, [Next]_kvars
  PROVE  Preserved
<1>1. CASE Backend
  <2>1. CASE \E r \in Requests :
               Push(r) \/ MakeRecord(r) \/ PushFails(r) \/ Overdue(r)
    BY <2>1, PushIsSound, MakeRecordIsSound, PushFailsIsSound, OverdueIsSound
  <2>2. CASE HearAnswer \/ StatusPoll
    BY <2>2, HearAnswerIsSound, StatusPollIsSound
  <2> QED BY <1>1, <2>1, <2>2 DEF Backend
<1>2. CASE Endpoint
  BY <1>2, ReceiveIsSound, AckReceivedIsSound, EventTaskFinishes,
     QueueTransferIsSound, AckQueuedIsSound, TakeTransferIsSound,
     StartTransferIsSound, WorkerFinishes DEF Endpoint
<1>3. CASE Connect \/ Disconnect \/ Reboot
  BY <1>3, ConnectionIsSound
<1>4. CASE UNCHANGED kvars
  BY <1>4, StutteringIsSound
<1> QED BY <1>1, <1>2, <1>3, <1>4 DEF Next

(* The strengthened invariant holds in every reachable state.              *)
LEMMA AlwaysIInv == Spec => []IInv
<1>1. IInv /\ [Next]_kvars => IInv'
  BY NextIsSound DEF Preserved
<1> QED BY InitIsSound, <1>1, PTL DEF Spec

(* The state of both sides stays in its types, and the queue of the worker *)
(* within its depth, with any number of commands and transfers.            *)
THEOREM CommandTypes == Spec => []TypeOK
<1>1. IInv => TypeOK
  BY DEF IInv
<1> QED BY AlwaysIInv, <1>1, PTL

(* No record says succeeded or failed of a command the endpoint did not    *)
(* succeed or fail in, whatever is lost, late or restarted.                *)
THEOREM TrueVerdicts == Spec => []VerdictsAreTrue
<1>1. IInv => VerdictsAreTrue
  BY DEF IInv
<1> QED BY AlwaysIInv, <1>1, PTL

(* A verdict is taken back only by the late acknowledgement of a transfer, *)
(* never for a command the event task runs itself.                         *)
THEOREM VerdictsLostOnlyToQueueAck == Spec => VerdictsOnlyLostToQueueAck
<1>1. IInv /\ [Next]_kvars => [Losing]_kvars
  BY NextIsSound DEF Preserved
<1>2. [][Losing]_kvars => VerdictsOnlyLostToQueueAck
  BY PTL DEF VerdictsOnlyLostToQueueAck, Losing
<1>3. Spec => [][Next]_kvars
  BY PTL DEF Spec
<1> QED BY AlwaysIInv, <1>1, <1>2, <1>3, PTL
=============================================================================
