-------------------------- MODULE AdminMaintenance --------------------------
(***************************************************************************)
(* src/hexevoice/persistence/voice_admin_maintenance.py: the file that     *)
(* says which maintenance requests may be spoken, the passcode and the     *)
(* lock after wrong ones.  Every operation loads the file, clears a lock   *)
(* that has run out, and saves; all run on the event loop.                 *)
(***************************************************************************)
EXTENDS Naturals

CONSTANTS MaxFailed          \* MAX_FAILED_ATTEMPTS

ASSUME MaxFailedAssumption == MaxFailed \in Nat \ {0}

VARIABLES
  admin,     \* [enabled, known: the passcode is set, failed, lock]
  guesses    \* ghost: refusals for the code since the last reset or lock

avars == <<admin, guesses>>

Locks == {"open", "locked", "lapsed"}    \* lapsed: locked_until has passed

(* _clear_expired_lockout                                                  *)
Cleared(a) ==
  IF a.lock = "lapsed" THEN [a EXCEPT !.lock = "open", !.failed = 0] ELSE a

(* update_settings                                                         *)
UpdateSettings(on) ==
  /\ admin' = [Cleared(admin) EXCEPT !.enabled = on]
  /\ guesses' = IF admin.lock = "lapsed" THEN 0 ELSE guesses

(* set_passcode: a new code also opens the lock.                           *)
SetPasscode ==
  /\ admin' = [Cleared(admin) EXCEPT !.known = TRUE, !.failed = 0, !.lock = "open"]
  /\ guesses' = 0

(* The five minutes are over; nothing is saved until the next load.        *)
LockoutPasses ==
  /\ admin.lock = "locked"
  /\ admin' = [admin EXCEPT !.lock = "lapsed"] /\ UNCHANGED guesses

(* The checks of evaluate that follow the lock's, in their order.  The     *)
(* speaker is a configured one, eligible, and recognised with enough       *)
(* confidence; the audio has none of the warnings.                         *)
Refusal(a, code, known, clean) ==
  IF ~ a.known THEN "no_passcode"
  ELSE IF ~ known THEN "speaker"
  ELSE IF ~ clean THEN "audio"
  ELSE IF code = "none" THEN "missing"
  ELSE IF code = "wrong" THEN "wrong" ELSE "allowed"

(* Mutant: the lock is not looked at.                                      *)
VerdictUnlocked(a, code, known, clean) ==
  IF ~ a.enabled THEN "disabled" ELSE Refusal(a, code, known, clean)

Verdict(a, code, known, clean) ==
  IF ~ a.enabled THEN "disabled"
  ELSE IF a.lock = "locked" THEN "locked" ELSE Refusal(a, code, known, clean)

(* _failed_passcode                                                        *)
Failed(a) ==
  [a EXCEPT !.failed = @ + 1,
            !.lock = IF a.failed + 1 >= MaxFailed THEN "locked" ELSE "open"]

(* evaluate                                                                *)
Evaluate(verdict) ==
  LET a == Cleared(admin)
      count == IF admin.lock = "lapsed" THEN 0 ELSE guesses
  IN /\ admin' = IF verdict \in {"missing", "wrong"} THEN Failed(a)
                 ELSE IF verdict = "allowed" THEN [a EXCEPT !.failed = 0] ELSE a
     /\ guesses' = IF verdict \in {"missing", "wrong"} THEN count + 1
                   ELSE IF verdict = "allowed" THEN 0 ELSE count

AdminInit ==
  /\ admin \in [enabled : {TRUE}, known : BOOLEAN, failed : {0}, lock : {"open"}]
  /\ guesses = 0

AdminTypeOK ==
  /\ admin \in [enabled : BOOLEAN, known : BOOLEAN, failed : 0 .. MaxFailed,
                lock : Locks]
  /\ guesses \in Nat

(* However turns, lapsed locks, new codes and settings follow each other,  *)
(* the code is refused at most MAX_FAILED_ATTEMPTS times between two       *)
(* resets, and the lock is on from the last of them.                       *)
GuessesAreBounded ==
  /\ guesses <= MaxFailed
  /\ guesses = MaxFailed => admin.lock # "open"
=============================================================================
