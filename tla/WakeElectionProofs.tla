------------------------- MODULE WakeElectionProofs -------------------------
(***************************************************************************)
(* Proofs about WakeElection for every set of ranks, every window and any  *)
(* number of candidates.  The strengthening that makes the invariants      *)
(* inductive is about ages: whatever is pending was received no later than *)
(* the active winner, so it cannot outlive the decision.                   *)
(***************************************************************************)
EXTENDS WakeElection, TLAPS

(* The stored decision: its winner strictly outranks every other stored    *)
(* candidate, all of them already named, and is not from the future.       *)
DecisionConsistent ==
  active # NoDecision =>
    /\ active.winner \in active.candidates
    /\ active.winner.at <= now
    /\ \A c \in active.candidates :
         /\ c.id <= count
         /\ c = active.winner \/ c.rank < active.winner.rank

(* The pending candidates expire no later than the active decision.        *)
PendingOlderThanWinner ==
  \A c \in pending :
    /\ c.at <= now
    /\ active # NoDecision => c.at <= active.winner.at
    /\ active = NoDecision => ~ PendingLive(c, now)

IInv == TypeOK /\ DecisionConsistent /\ PendingOlderThanWinner
               /\ WinnerOutranksRound

-----------------------------------------------------------------------------

(* choose_wake_election_winner on a stored decision and one newcomer: the  *)
(* newcomer wins exactly when it beats the incumbent strictly.             *)
LEMMA NewcomerWins ==
  ASSUME NEW cs \in SUBSET Candidate, NEW w \in cs, NEW c \in Candidate,
         \A d \in cs : d = w \/ d.rank < w.rank,
         \A d \in cs : d.id < c.id
  PROVE  SameCandidate(c, ElectionWinner(cs \cup {c})) <=> w.rank < c.rank
<1> DEFINE all == cs \cup {c}
           Best(b) == \A d \in all : \/ d.rank < b.rank
                                     \/ d.rank = b.rank /\ b.id <= d.id
           won == ElectionWinner(all)
<1>1. \A d \in all : d.id \in Nat /\ d.rank \in Nat
  BY ElectionAssumption DEF Candidate
<1>2. c.id \in Nat /\ c.rank \in Nat /\ w.id \in Nat /\ w.rank \in Nat
      /\ c \in all /\ w \in all /\ w.id < c.id
  BY <1>1
<1>3. CASE w.rank < c.rank
  <2>1. \A d \in cs : d.rank < c.rank
    BY <1>1, <1>2, <1>3
  <2>2. Best(c)
    BY <1>2, <2>1
  <2>3. won \in all /\ Best(won)
    BY <1>2, <2>2 DEF ElectionWinner
  <2>4. won = c
    <3>1. \A x \in cs : ~ Best(x)
      BY <1>1, <1>2, <2>1
    <3> HIDE DEF won, Best
    <3> QED BY <2>3, <3>1
  <2> QED BY <2>4, <1>3 DEF SameCandidate
<1>4. CASE ~ (w.rank < c.rank)
  <2>1. Best(w)
    BY <1>1, <1>2, <1>4
  <2>2. won \in all /\ Best(won)
    BY <1>2, <2>1 DEF ElectionWinner
  <2>3. won # c
    <3>1. ASSUME won = c PROVE FALSE
      <4>1. w.rank < c.rank \/ (w.rank = c.rank /\ c.id <= w.id)
        BY <1>2, <2>2, <3>1
      <4> QED BY <1>2, <1>4, <4>1
    <3> QED BY <3>1
  <2>4. won \in cs
    BY <2>2, <2>3
  <2>5. won.id < c.id /\ won.id \in Nat
    BY <1>1, <2>4
  <2> QED BY <1>2, <1>4, <2>5 DEF SameCandidate
<1> QED BY <1>3, <1>4

(* An expired or absent decision leaves nothing live in the pending list.  *)
LEMMA NothingLeftPending ==
  ASSUME IInv, LiveDecision(now) = NoDecision
  PROVE  LivePending(now) = {}
<1>1. \A c \in pending : c.at \in Nat
  BY DEF IInv, TypeOK, Candidate
<1>2. CASE active = NoDecision
  BY <1>2 DEF IInv, PendingOlderThanWinner, LivePending
<1>3. CASE active # NoDecision
  <2>1. ~ (now <= active.winner.at + Window) /\ active.winner.at \in Nat
    BY <1>3 DEF LiveDecision, DecisionIsActive, IInv, TypeOK, Decision,
                Candidate
  <2>2. \A c \in pending : ~ (now <= c.at + Window)
    BY <1>1, <1>3, <2>1, ElectionAssumption
       DEF IInv, PendingOlderThanWinner, TypeOK
  <2> QED BY <2>2 DEF LivePending, PendingLive
<1> QED BY <1>2, <1>3

-----------------------------------------------------------------------------

(* The invariant holds of an election nobody has entered.                  *)
LEMMA InitIInv == Init => IInv
  BY ElectionAssumption
     DEF Init, IInv, TypeOK, DecisionConsistent, PendingOlderThanWinner,
         WinnerOutranksRound, NoOutcome, Decision, Candidate

(* What a contest does, once the CHOOSE is out of the way.                 *)
LEMMA ContestStep ==
  ASSUME IInv, NEW r \in Ranks, Contest(NewCandidate(r))
  PROVE  LET c == NewCandidate(r) IN
         /\ active # NoDecision /\ DecisionIsActive(active, now)
         /\ c \in Candidate /\ c.at = now /\ c.rank = r /\ c.id = count + 1
         /\ active \in Decision
         /\ pending' = LivePending(now)
         /\ round' = round \cup {c}
         /\ \/ /\ active.winner.rank < r
               /\ active' = [winner |-> c,
                             candidates |-> active.candidates \cup {c}]
               /\ last' = [accepted |-> TRUE, rank |-> r]
            \/ /\ r <= active.winner.rank
               /\ active' = active
               /\ last' = [accepted |-> FALSE, rank |-> r]
<1> DEFINE c == NewCandidate(r)
<1>1. LiveDecision(now) # NoDecision
  BY DEF Contest
<1>2. active # NoDecision /\ DecisionIsActive(active, now)
      /\ LiveDecision(now) = active
  BY <1>1 DEF LiveDecision
<1>3. c \in Candidate /\ c.at = now /\ c.rank = r /\ c.id = count + 1
  BY DEF NewCandidate, Candidate, IInv, TypeOK
<1>4. active \in Decision
  BY <1>2 DEF IInv, TypeOK
<1>5. active.winner \in Candidate /\ active.candidates \in SUBSET Candidate
  BY <1>4 DEF Decision
<1>6. SameCandidate(c, ElectionWinner(active.candidates \cup {c}))
        <=> active.winner.rank < c.rank
  <2>1. \A d \in active.candidates : d.id < c.id
    BY <1>2, <1>3, <1>5 DEF IInv, DecisionConsistent, TypeOK, Candidate
  <2>2. \A d \in active.candidates :
          d = active.winner \/ d.rank < active.winner.rank
    BY <1>2 DEF IInv, DecisionConsistent
  <2>3. active.winner \in active.candidates
    BY <1>2 DEF IInv, DecisionConsistent
  <2> HIDE DEF c
  <2> QED BY <1>3, <1>5, <2>1, <2>2, <2>3, NewcomerWins
<1>7. r \in Nat /\ active.winner.rank \in Nat
  BY <1>5, ElectionAssumption DEF Candidate
<1>8. /\ pending' = LivePending(now) /\ round' = round \cup {c}
      /\ \/ /\ SameCandidate(c, ElectionWinner(active.candidates \cup {c}))
            /\ active' = [winner |-> c,
                          candidates |-> active.candidates \cup {c}]
            /\ last' = [accepted |-> TRUE, rank |-> c.rank]
         \/ /\ ~ SameCandidate(c, ElectionWinner(active.candidates \cup {c}))
            /\ active' = active
            /\ last' = [accepted |-> FALSE, rank |-> c.rank]
  <2> HIDE DEF c
  <2>1. Contest(c)
    BY DEF c
  <2>2. LiveDecision(now) = active
    BY <1>2
  <2>3. pending' = LivePending(now) /\ round' = round \cup {c}
    BY <2>1 DEF Contest
  <2>4. CASE SameCandidate(c, ElectionWinner(active.candidates \cup {c}))
    BY <2>1, <2>2, <2>3, <2>4, Zenon DEF Contest
  <2>5. CASE ~ SameCandidate(c, ElectionWinner(active.candidates \cup {c}))
    <3>1. SameCandidate(c, ElectionWinner(active.candidates \cup {c})) = FALSE
      BY <2>5 DEF SameCandidate
    <3>2. active' = active /\ last'.accepted = FALSE
          /\ last' = [accepted |->
                SameCandidate(c, ElectionWinner(active.candidates \cup {c})),
                      rank |-> c.rank]
      BY <2>1, <2>2, <3>1 DEF Contest
    <3> QED BY <2>3, <2>5, <3>1, <3>2
  <2> QED BY <2>4, <2>5
<1> HIDE DEF c
<1>9. \/ /\ active.winner.rank < r
         /\ active' = [winner |-> c,
                       candidates |-> active.candidates \cup {c}]
         /\ last' = [accepted |-> TRUE, rank |-> r]
      \/ /\ r <= active.winner.rank
         /\ active' = active
         /\ last' = [accepted |-> FALSE, rank |-> r]
  BY <1>3, <1>6, <1>7, <1>8
<1> QED BY <1>2, <1>3, <1>4, <1>8, <1>9 DEF c

(* What opening an election does: the newcomer always wins.                *)
LEMMA ElectStep ==
  ASSUME IInv, NEW r \in Ranks, Elect(NewCandidate(r))
  PROVE  LET c == NewCandidate(r) IN
         /\ c \in Candidate /\ c.at = now /\ c.rank = r /\ c.id = count + 1
         /\ pending' = {c}
         /\ round' = {c}
         /\ active' = [winner |-> c, candidates |-> {c}]
         /\ last' = [accepted |-> TRUE, rank |-> r]
<1> DEFINE c == NewCandidate(r)
<1>1. LiveDecision(now) = NoDecision /\ LivePending(now) = {}
  BY NothingLeftPending DEF Elect
<1>2. c \in Candidate /\ c.at = now /\ c.rank = r /\ c.id = count + 1
  BY DEF NewCandidate, Candidate, IInv, TypeOK
<1>3. ElectionWinner({c}) = c
  BY <1>2 DEF ElectionWinner, Candidate
<1>4. SameCandidate(c, ElectionWinner({} \cup {c})) /\ {} \cup {c} = {c}
  BY <1>3 DEF SameCandidate
<1> QED BY <1>1, <1>2, <1>4 DEF Elect

(* A submitted candidate keeps it, as a contester or as the elected.       *)
LEMMA SubmitIInv ==
  ASSUME IInv, NEW r \in Ranks, SubmitCandidate(r)
  PROVE  IInv'
<1> DEFINE c == NewCandidate(r)
<1>1. count' = count + 1 /\ now' = now /\ count \in Nat /\ now \in Nat
  BY DEF SubmitCandidate, IInv, TypeOK
<1>2. r \in Nat
  BY ElectionAssumption
<1>3. CASE Contest(c)
  <2>1. active # NoDecision /\ active \in Decision
        /\ c \in Candidate /\ c.at = now /\ c.rank = r /\ c.id = count + 1
        /\ pending' = LivePending(now) /\ round' = round \cup {c}
    BY <1>3, ContestStep
  <2>2. \/ /\ active.winner.rank < r
           /\ active' = [winner |-> c,
                         candidates |-> active.candidates \cup {c}]
           /\ last' = [accepted |-> TRUE, rank |-> r]
        \/ /\ r <= active.winner.rank
           /\ active' = active
           /\ last' = [accepted |-> FALSE, rank |-> r]
    BY <1>3, ContestStep
  <2>3. active.winner \in Candidate /\ active.candidates \in SUBSET Candidate
        /\ active.winner.rank \in Nat /\ active.winner.at \in Nat
    BY <2>1, ElectionAssumption DEF Decision, Candidate
  <2>4. /\ active' \in Decision /\ active' # NoDecision
        /\ \/ active'.winner = c
              /\ active'.candidates = active.candidates \cup {c}
              /\ active.winner.rank < r
           \/ active' = active /\ r <= active.winner.rank
        /\ last' \in [accepted : BOOLEAN, rank : Nat]
    <3> HIDE DEF c
    <3>1. last' \in [accepted : BOOLEAN, rank : Nat]
      <4>1. [accepted |-> TRUE, rank |-> r] \in [accepted : BOOLEAN, rank : Nat]
        BY <1>2
      <4>2. [accepted |-> FALSE, rank |-> r] \in [accepted : BOOLEAN, rank : Nat]
        BY <1>2
      <4> QED BY <2>2, <4>1, <4>2
    <3>2. [winner |-> c, candidates |-> active.candidates \cup {c}] \in Decision
      BY <2>1, <2>3 DEF Decision
    <3>3. NoDecision \notin Decision
      BY ElectionAssumption DEF Decision, Candidate
    <3>4. CASE active' = active
      BY <2>1, <2>2, <3>1, <3>4
    <3>5. CASE active' = [winner |-> c,
                          candidates |-> active.candidates \cup {c}]
      <4>1. active'.winner = c /\ active'.candidates = active.candidates \cup {c}
        BY <3>5
      <4>2. active' \in Decision
        BY <3>2, <3>5
      <4> QED BY <2>1, <2>2, <3>1, <3>3, <4>1, <4>2
    <3> QED BY <2>2, <3>4, <3>5
  <2> HIDE DEF c
  <2>5. TypeOK'
    BY <1>1, <2>1, <2>4 DEF TypeOK, IInv, LivePending
  <2>6. DecisionConsistent'
    <3>1. \A d \in active.candidates :
            d.id <= count' /\ d.rank \in Nat /\ d.id \in Nat
      <4>1. \A d \in active.candidates : d.rank \in Nat /\ d.id \in Nat
        BY <2>3, ElectionAssumption DEF Candidate
      <4>2. \A d \in active.candidates : d.id <= count
        BY <2>1 DEF IInv, DecisionConsistent
      <4> QED BY <1>1, <4>1, <4>2
    <3> QED BY <1>1, <1>2, <2>1, <2>3, <2>4, <3>1
            DEF DecisionConsistent, IInv
  <2>7. PendingOlderThanWinner'
    <3>1. \A d \in pending' :
            d \in pending /\ d.at \in Nat /\ d.at <= now
            /\ d.at <= active.winner.at
      BY <2>1 DEF LivePending, IInv, PendingOlderThanWinner, TypeOK, Candidate
    <3> QED BY <1>1, <2>1, <2>4, <3>1 DEF PendingOlderThanWinner
  <2>8. WinnerOutranksRound'
    <3>1. \A d \in round : d.rank \in Nat /\ d.rank <= active.winner.rank
      BY <2>1, ElectionAssumption
         DEF IInv, TypeOK, Candidate, WinnerOutranksRound
    <3> QED BY <1>2, <2>1, <2>3, <2>4, <3>1 DEF WinnerOutranksRound
  <2> QED BY <2>5, <2>6, <2>7, <2>8 DEF IInv
<1>4. CASE Elect(c)
  <2>1. /\ c \in Candidate /\ c.at = now /\ c.rank = r /\ c.id = count + 1
        /\ pending' = {c} /\ round' = {c}
        /\ active' = [winner |-> c, candidates |-> {c}]
        /\ last' = [accepted |-> TRUE, rank |-> r]
    BY <1>4, ElectStep
  <2>2. active' \in Decision /\ active' # NoDecision
        /\ active'.winner = c /\ active'.candidates = {c}
    <3> HIDE DEF c
    <3> QED BY <2>1, ElectionAssumption DEF Decision, Candidate
  <2> HIDE DEF c
  <2>3. TypeOK'
    BY <1>1, <1>2, <2>1, <2>2 DEF TypeOK
  <2>4. DecisionConsistent' /\ PendingOlderThanWinner' /\ WinnerOutranksRound'
    BY <1>1, <1>2, <2>1, <2>2
       DEF DecisionConsistent, PendingOlderThanWinner, WinnerOutranksRound
  <2> QED BY <2>3, <2>4 DEF IInv
<1> QED BY <1>3, <1>4 DEF SubmitCandidate

(* The status page only expires what is over.                              *)
LEMMA StatusIInv == IInv /\ Status => IInv'
<1> SUFFICES ASSUME IInv, Status PROVE IInv'
  OBVIOUS
<1>1. CASE LiveDecision(now) = NoDecision
  <2>1. active' = NoDecision /\ round' = {} /\ pending' = {}
    BY <1>1, NothingLeftPending DEF Status
  <2> QED BY <2>1 DEF Status, IInv, TypeOK, DecisionConsistent,
                      PendingOlderThanWinner, WinnerOutranksRound
<1>2. CASE LiveDecision(now) # NoDecision
  <2>1. active' = active /\ round' = round /\ pending' \subseteq pending
        /\ active # NoDecision /\ now' = now /\ count' = count /\ last' = last
    BY <1>2 DEF Status, LiveDecision, LivePending
  <2> QED BY <2>1 DEF IInv, TypeOK, DecisionConsistent,
                      PendingOlderThanWinner, WinnerOutranksRound
<1> QED BY <1>1, <1>2

(* Time passing makes nothing younger.                                     *)
LEMMA TickIInv == IInv /\ Tick => IInv'
<1> SUFFICES ASSUME IInv, Tick PROVE IInv'
  OBVIOUS
<1>1. now \in Nat /\ now' = now + 1 /\ pending' = pending
      /\ active' = active /\ count' = count /\ round' = round /\ last' = last
  BY DEF Tick, IInv, TypeOK
<1>2. TypeOK' /\ WinnerOutranksRound'
  BY <1>1 DEF IInv, TypeOK, WinnerOutranksRound
<1>3. DecisionConsistent'
  <2>1. active # NoDecision => active.winner.at \in Nat
    BY DEF IInv, TypeOK, Decision, Candidate
  <2> QED BY <1>1, <2>1 DEF IInv, DecisionConsistent
<1>4. PendingOlderThanWinner'
  <2>1. \A c \in pending : c.at \in Nat
    BY DEF IInv, TypeOK, Candidate
  <2> QED BY <1>1, <2>1, ElectionAssumption
          DEF IInv, PendingOlderThanWinner, PendingLive
<1> QED BY <1>2, <1>3, <1>4 DEF IInv

(* Nothing changes in a stutter.                                           *)
LEMMA UnchangedIInv == IInv /\ UNCHANGED evars => IInv'
  BY DEF evars, IInv, TypeOK, DecisionConsistent, PendingOlderThanWinner,
         WinnerOutranksRound, PendingLive

(* Every step preserves the invariant.                                     *)
LEMMA NextIInv == IInv /\ [Next]_evars => IInv'
  BY SubmitIInv, StatusIInv, TickIInv, UnchangedIInv DEF Next

(* The inductive invariant of the election: types, a consistent decision,  *)
(* pending candidates no younger than the winner, a winner that outranks   *)
(* its round.                                                              *)
THEOREM ElectionInvariant == Spec => []IInv
  BY InitIInv, NextIInv, PTL DEF Spec

(* Type correctness of _pending_candidates and _active_decision.           *)
THEOREM ElectionTypes == Spec => []TypeOK
<1>1. IInv => TypeOK
  BY DEF IInv
<1> QED BY <1>1, ElectionInvariant, PTL

(* _submit_candidate never keeps a winner weaker than a candidate of the   *)
(* same election, rejected ones included.                                  *)
THEOREM WinnerIsBestHeard == Spec => []WinnerOutranksRound
<1>1. IInv => WinnerOutranksRound
  BY DEF IInv
<1> QED BY <1>1, ElectionInvariant, PTL

(* Whenever _submit_candidate starts a new election, the expiry has left   *)
(* no pending candidate it could lose against.                             *)
THEOREM FreshElections == Spec => []FreshElectionStartsEmpty
<1>1. IInv => FreshElectionStartsEmpty
  BY NothingLeftPending DEF FreshElectionStartsEmpty
<1> QED BY <1>1, ElectionInvariant, PTL

(* A rejected endpoint always has a live winner to stand down for.         *)
THEOREM RejectionIsJustified == Spec => RejectedOnlyForALiveWinner
<1> DEFINE Justified ==
      count' # count /\ ~ last'.accepted
        => /\ active' # NoDecision
           /\ active'.winner.rank >= last'.rank
           /\ DecisionIsActive(active', now)
<1>1. IInv /\ [Next]_evars => [Justified]_evars
  <2> SUFFICES ASSUME IInv, Next PROVE Justified
    BY DEF evars
  <2>1. ASSUME NEW r \in Ranks, SubmitCandidate(r) PROVE Justified
    <3>1. CASE Contest(NewCandidate(r))
      <4>1. \/ last' = [accepted |-> TRUE, rank |-> r]
            \/ /\ last' = [accepted |-> FALSE, rank |-> r]
               /\ active' = active /\ active # NoDecision
               /\ DecisionIsActive(active, now)
               /\ r <= active.winner.rank
        BY <3>1, ContestStep
      <4>2. r \in Nat /\ (active # NoDecision => active.winner.rank \in Nat)
        BY ElectionAssumption DEF IInv, TypeOK, Decision, Candidate
      <4>3. CASE last' = [accepted |-> TRUE, rank |-> r]
        BY <4>3
      <4>4. CASE last' = [accepted |-> FALSE, rank |-> r] /\ active' = active
                 /\ active # NoDecision /\ DecisionIsActive(active, now)
                 /\ r <= active.winner.rank
        <5>1. last'.rank = r
          BY <4>4
        <5> QED BY <4>2, <4>4, <5>1
      <4> QED BY <4>1, <4>3, <4>4
    <3>2. CASE Elect(NewCandidate(r))
      <4>1. last' = [accepted |-> TRUE, rank |-> r]
        BY <3>2, ElectStep
      <4> QED BY <4>1
    <3> QED BY <2>1, <3>1, <3>2 DEF SubmitCandidate
  <2>2. ASSUME Status \/ Tick PROVE Justified
    BY <2>2 DEF Status, Tick
  <2> QED BY <2>1, <2>2 DEF Next
<1> QED BY <1>1, ElectionInvariant, PTL DEF Spec, RejectedOnlyForALiveWinner

-----------------------------------------------------------------------------

(* The refinement mapping of Arbiter, spelled out.                         *)
Leader == IF active = NoDecision THEN NoDecision ELSE active.winner.rank
Heard == IF active = NoDecision THEN {} ELSE {c.rank : c \in round}

(* A submitted candidate is one submission of the abstract arbiter.        *)
LEMMA SubmitRefines ==
  ASSUME IInv, NEW r \in Ranks, SubmitCandidate(r)
  PROVE  \/ Leader = NoDecision /\ Leader' = r /\ Heard' = {r}
         \/ /\ Leader # NoDecision /\ (\A h \in Heard : h < r)
            /\ Leader' = r /\ Heard' = Heard \cup {r}
         \/ /\ Leader # NoDecision /\ r <= Leader
            /\ Leader' = Leader /\ Heard' = Heard \cup {r}
         \/ Leader # NoDecision /\ Leader' = r /\ Heard' = {r}
<1> DEFINE c == NewCandidate(r)
<1>1. NoDecision \notin Nat /\ r \in Nat
  BY ElectionAssumption
<1>2. IInv'
  BY SubmitIInv
<1>3. active # NoDecision => active \in Decision /\ active.winner.rank \in Nat
  BY ElectionAssumption DEF IInv, TypeOK, Decision, Candidate
<1>4. active' # NoDecision => active'.winner.rank \in Nat
  BY <1>2, ElectionAssumption DEF IInv, TypeOK, Decision, Candidate
<1>5. CASE Contest(c)
  <2>1. /\ active # NoDecision /\ c.rank = r /\ round' = round \cup {c}
        /\ \/ /\ active.winner.rank < r
              /\ active' = [winner |-> c,
                            candidates |-> active.candidates \cup {c}]
           \/ r <= active.winner.rank /\ active' = active
    BY <1>5, ContestStep
  <2>2. Leader = active.winner.rank /\ Leader # NoDecision
        /\ Heard = {d.rank : d \in round}
    BY <1>1, <1>3, <2>1 DEF Leader, Heard
  <2>3. {d.rank : d \in round'} = Heard \cup {r}
    BY <2>1, <2>2
  <2>4. CASE active.winner.rank < r
             /\ active' = [winner |-> c,
                           candidates |-> active.candidates \cup {c}]
    <3>1. active' # NoDecision /\ active'.winner.rank = r
      <4>1. active' \in Decision
        <5>1. [winner |-> c, candidates |-> active.candidates \cup {c}]
                \in Decision
          BY <1>3, <2>1, <1>5, ContestStep DEF Decision
        <5> QED BY <2>4, <5>1
      <4> HIDE DEF c
      <4> QED BY <2>1, <2>4, <4>1, ElectionAssumption DEF Decision, Candidate
    <3>2. \A h \in Heard : h < r
      <4>1. \A d \in round : d.rank \in Nat /\ d.rank <= active.winner.rank
        BY <2>1, ElectionAssumption
           DEF IInv, TypeOK, Candidate, WinnerOutranksRound
      <4>2. \A d \in round : d.rank < r
        BY <1>1, <1>3, <2>1, <2>4, <4>1
      <4> QED BY <2>2, <4>2
    <3>3. Leader' = r /\ Heard' = Heard \cup {r}
      BY <2>3, <3>1 DEF Leader, Heard
    <3> QED BY <2>2, <3>2, <3>3
  <2>5. CASE r <= active.winner.rank /\ active' = active
    <3>1. Leader' = Leader /\ Heard' = Heard \cup {r}
      BY <2>1, <2>3, <2>5 DEF Leader, Heard
    <3> QED BY <2>2, <2>5, <3>1
  <2> QED BY <2>1, <2>4, <2>5
<1>6. CASE Elect(c)
  <2>1. c.rank = r /\ round' = {c} /\ c \in Candidate
        /\ active' = [winner |-> c, candidates |-> {c}]
    BY <1>6, ElectStep
  <2>2. active' # NoDecision /\ active'.winner.rank = r
    <3>1. active' \in Decision
      <4>1. [winner |-> c, candidates |-> {c}] \in Decision
        BY <2>1 DEF Decision
      <4> QED BY <2>1, <4>1
    <3> HIDE DEF c
    <3> QED BY <2>1, <3>1, ElectionAssumption DEF Decision, Candidate
  <2>3. Leader' = r /\ Heard' = {r}
    <3>1. {d.rank : d \in round'} = {r}
      BY <2>1
    <3> QED BY <2>2, <3>1 DEF Leader, Heard
  <2> QED BY <2>3
<1> QED BY <1>5, <1>6 DEF SubmitCandidate

(* Every behaviour of WakeCandidateElection is a behaviour of the abstract *)
(* arbiter: one leader per round, replaced only by a candidate better than *)
(* everybody heard, rejections only for an existing leader.                *)
THEOREM ElectionImplementsArbiter == Spec => ImplementsArbiter
<1>1. Init => Arbiter!AInit
  BY DEF Init, Arbiter!AInit
<1>2. IInv /\ [Next]_evars => [Arbiter!ANext]_(Arbiter!avars)
  <2> SUFFICES ASSUME IInv, [Next]_evars
               PROVE  [Arbiter!ANext]_(Arbiter!avars)
    OBVIOUS
  <2>1. ASSUME NEW r \in Ranks, SubmitCandidate(r) PROVE Arbiter!ANext
    BY <2>1, SubmitRefines
       DEF Leader, Heard, Arbiter!ANext, Arbiter!Open, Arbiter!Overtake,
           Arbiter!StandDown, Arbiter!Reopen
  <2>2. CASE Status
    <3>1. CASE active # NoDecision /\ LiveDecision(now) = NoDecision
      <4>1. active.winner.rank # NoDecision
        BY <3>1, ElectionAssumption DEF IInv, TypeOK, Decision, Candidate
      <4> QED BY <2>2, <3>1, <4>1
              DEF Status, Arbiter!ANext, Arbiter!Close
    <3>2. CASE active = NoDecision \/ LiveDecision(now) # NoDecision
      BY <2>2, <3>2 DEF Status, LiveDecision, Arbiter!avars
    <3> QED BY <3>1, <3>2
  <2>3. CASE Tick \/ UNCHANGED evars
    BY <2>3 DEF Tick, evars, Arbiter!avars
  <2> QED BY <2>1, <2>2, <2>3 DEF Next
<1> QED BY <1>1, <1>2, ElectionInvariant, PTL
        DEF Spec, ImplementsArbiter, Arbiter!ASpec
=============================================================================
