---------------------------- MODULE WakeElection ----------------------------
(***************************************************************************)
(* src/hexevoice/voice/wake_election.py: WakeCandidateElection.            *)
(*                                                                         *)
(* Several endpoints hear one wake word; each detection is submitted as a  *)
(* candidate and decided at once.  The class keeps a list of pending       *)
(* candidates and one active decision, both expired lazily by the window.  *)
(*                                                                         *)
(* Abstractions: rank_key() is a tuple compared lexicographically, so a    *)
(* candidate carries one number that orders it; the lists are only ever    *)
(* appended to and filtered, so they are sets whose ids keep the order;    *)
(* the clock counts fractions of the window and never runs backwards; the  *)
(* two bounded logs kept for the dashboard (recent candidates, recent      *)
(* decisions) are left out.  The lock makes every operation one step.      *)
(***************************************************************************)
EXTENDS Naturals

CONSTANTS Ranks,        \* values of rank_key(), in its order
          Window,       \* window_ms, in clock units
          NoDecision,   \* _active_decision is None
          MaxTime,      \* bound: the clock stops here
          MaxCandidates \* bound: candidates submitted in a behaviour

ASSUME ElectionAssumption ==
  /\ Ranks \subseteq Nat
  /\ Window \in Nat /\ MaxTime \in Nat /\ MaxCandidates \in Nat
  /\ NoDecision \notin Nat
  /\ NoDecision \notin
       [winner : [id : Nat, rank : Ranks, at : Nat],
        candidates : SUBSET [id : Nat, rank : Ranks, at : Nat]]

VARIABLES now,      \* the wall clock both received_at and status() read
          pending,  \* _pending_candidates
          active,   \* _active_decision
          count,    \* candidates submitted so far; names the next one
          round,    \* history: all candidates submitted under active's id
          last      \* history: the decision returned by the last submit

evars == <<now, pending, active, count, round, last>>

Candidate == [id : Nat, rank : Ranks, at : Nat]

Decision == [winner : Candidate, candidates : SUBSET Candidate]

NoOutcome == [accepted |-> TRUE, rank |-> 0]

-----------------------------------------------------------------------------

(* Mutant: the last of the candidates wins, whatever its rank.             *)
LastWins(cs) == CHOOSE c \in cs : \A d \in cs : d.id <= c.id

(* Python's max() over rank_key() returns the FIRST maximal element.       *)
ElectionWinner(cs) ==
  CHOOSE c \in cs :
    \A d \in cs : d.rank < c.rank \/ (d.rank = c.rank /\ c.id <= d.id)

SameCandidate(c, d) == c.id = d.id

(* Mutant: pending candidates outlive the decision they made.              *)
PendingStays(c, t) == t <= c.at + 2 * Window

(* `reference_at - candidate.received_at <= window', for pending ones.     *)
PendingLive(c, t) == t <= c.at + Window

LivePending(t) == {c \in pending : PendingLive(c, t)}

(* The window of a decision runs from the receipt of its current winner.   *)
DecisionIsActive(d, t) == t <= d.winner.at + Window

(* Mutant: the decision in force is not checked for expiry.                *)
KeptDecision(t) == active

LiveDecision(t) ==
  IF active # NoDecision /\ DecisionIsActive(active, t)
    THEN active ELSE NoDecision

-----------------------------------------------------------------------------

Init ==
  /\ now = 0
  /\ pending = {}
  /\ active = NoDecision
  /\ count = 0
  /\ round = {}
  /\ last = NoOutcome

(* Mutant: a candidate is stamped with the start of the window it ends.    *)
BackdatedCandidate(r) == [id |-> count + 1, rank |-> r, at |-> now - Window]

NewCandidate(r) == [id |-> count + 1, rank |-> r, at |-> now]

(* A decision is active: the candidate contests it.  A rejected candidate  *)
(* is not added to the stored decision.                                    *)
Contest(c) ==
  LET d   == LiveDecision(now)
      cs  == d.candidates \cup {c}
      won == SameCandidate(c, ElectionWinner(cs))
  IN /\ d # NoDecision
     /\ pending' = LivePending(now)
     /\ active' = IF won THEN [winner |-> c, candidates |-> cs] ELSE d
     /\ round' = round \cup {c}
     /\ last' = [accepted |-> won, rank |-> c.rank]

(* No decision is active: a new election among the pending candidates.     *)
Elect(c) ==
  LET cs  == LivePending(now) \cup {c}
      won == SameCandidate(c, ElectionWinner(cs))
  IN /\ LiveDecision(now) = NoDecision
     /\ pending' = cs
     /\ active' = IF won THEN [winner |-> c, candidates |-> cs]
                         ELSE NoDecision
     /\ round' = {c}
     /\ last' = [accepted |-> won, rank |-> c.rank]

SubmitCandidate(r) ==
  /\ count < MaxCandidates
  /\ count' = count + 1
  /\ Contest(NewCandidate(r)) \/ Elect(NewCandidate(r))
  /\ UNCHANGED now

(* status() expires before it reports; the dashboard may call it any time. *)
Status ==
  /\ pending' = LivePending(now)
  /\ active' = LiveDecision(now)
  /\ round' = IF LiveDecision(now) = NoDecision THEN {} ELSE round
  /\ UNCHANGED <<now, count, last>>

Tick ==
  /\ now < MaxTime
  /\ now' = now + 1
  /\ UNCHANGED <<pending, active, count, round, last>>

Next == (\E r \in Ranks : SubmitCandidate(r)) \/ Status \/ Tick

Spec == Init /\ [][Next]_evars

-----------------------------------------------------------------------------

(* Every variable stays in its type (the fields of the class and of        *)
(* WakeElectionDecision).                                                  *)
TypeOK ==
  /\ now \in Nat /\ count \in Nat
  /\ pending \subseteq Candidate
  /\ active \in Decision \cup {NoDecision}
  /\ round \subseteq Candidate
  /\ last \in [accepted : BOOLEAN, rank : Nat]

(* The winner of an election outranks everybody submitted under it, the    *)
(* rejected candidates included, although _submit_candidate drops those    *)
(* from the stored decision and compares later ones without them.          *)
WinnerOutranksRound ==
  active # NoDecision => \A c \in round : c.rank <= active.winner.rank

(* Nobody is told to stand down for a winner that is gone: the step that   *)
(* rejects a candidate leaves a decision whose winner is at least as good  *)
(* and still inside its window.  Otherwise every endpoint in the room      *)
(* could ignore the user.                                                  *)
RejectedOnlyForALiveWinner ==
  [][count' # count /\ ~ last'.accepted
       => /\ active' # NoDecision
          /\ active'.winner.rank >= last'.rank
          /\ DecisionIsActive(active', now)]_evars

(* The branch that rejects against merely pending candidates is dead: with *)
(* no active decision the expiry has emptied the pending list.             *)
FreshElectionStartsEmpty ==
  LiveDecision(now) = NoDecision => LivePending(now) = {}

-----------------------------------------------------------------------------

(* The election implements WakeArbiter.                                    *)
Arbiter ==
  INSTANCE WakeArbiter WITH
    Nobody <- NoDecision,
    leader <- IF active = NoDecision THEN NoDecision ELSE active.winner.rank,
    heard  <- IF active = NoDecision THEN {} ELSE {c.rank : c \in round}

(* Each submission is a legal step of the abstract arbiter: it opens a     *)
(* round, overtakes the whole round, stands down for a leader that exists, *)
(* or reopens after the window.                                            *)
ImplementsArbiter == Arbiter!ASpec
=============================================================================
