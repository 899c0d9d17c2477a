------------------------------ MODULE TrialBoot ------------------------------
(***************************************************************************)
(* What updating an endpoint over the air promises: a new version is       *)
(* tried, and either confirmed, when it is sound, or given up for the one  *)
(* confirmed before.  The confirmed version never goes back.               *)
(***************************************************************************)
EXTENDS Naturals

CONSTANTS Versions,   \* of the firmware, ordered
          Sound       \* those whose image passes its own start-up tests

VARIABLES confirmed,  \* the newest version known to work
          current     \* the version that runs

tvars == <<confirmed, current>>

TInit == confirmed \in Sound /\ current = confirmed

Try(v) ==
  /\ current = confirmed /\ v > confirmed
  /\ current' = v /\ UNCHANGED confirmed

Confirm ==
  /\ current \in Sound
  /\ confirmed' = current /\ UNCHANGED current

Revert == current' = confirmed /\ UNCHANGED confirmed

TNext == Confirm \/ Revert \/ \E v \in Versions : Try(v)

TSpec == TInit /\ [][TNext]_tvars
=============================================================================
