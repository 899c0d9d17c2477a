---------------------------- MODULE WakeArbiter ----------------------------
(***************************************************************************)
(* What a wake election promises, whatever data structure keeps it: one    *)
(* utterance heard by several endpoints is a ROUND of candidates, a round  *)
(* has one leader, the leader is at least as good as everybody heard in    *)
(* the round, it changes only for a strictly better candidate, and a       *)
(* candidate is turned away only in favour of a leader that exists.        *)
(***************************************************************************)
EXTENDS Naturals

CONSTANTS Ranks,    \* totally ordered strengths of a candidate
          Nobody    \* the leader when no round is open

VARIABLES leader,   \* rank of the round's leader, or Nobody
          heard     \* ranks of every candidate heard in the round

avars == <<leader, heard>>

AInit == leader = Nobody /\ heard = {}

Open(r) ==
  /\ leader = Nobody
  /\ leader' = r
  /\ heard' = {r}

Overtake(r) ==
  /\ leader # Nobody
  /\ \A h \in heard : h < r
  /\ leader' = r
  /\ heard' = heard \cup {r}

StandDown(r) ==
  /\ leader # Nobody
  /\ r <= leader
  /\ heard' = heard \cup {r}
  /\ UNCHANGED leader

Close ==
  /\ leader # Nobody
  /\ leader' = Nobody
  /\ heard' = {}

(* A candidate arriving after the window both closes the old round and     *)
(* opens the next one.                                                     *)
Reopen(r) ==
  /\ leader # Nobody
  /\ leader' = r
  /\ heard' = {r}

ANext ==
  \/ \E r \in Ranks : Open(r) \/ Overtake(r) \/ StandDown(r) \/ Reopen(r)
  \/ Close

ASpec == AInit /\ [][ANext]_avars
=============================================================================
