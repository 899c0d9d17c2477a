--------------------------- MODULE IntentRegistry ---------------------------
(***************************************************************************)
(* The registry of voice intents (assistant/intent_registry.py) and what   *)
(* LocalIntentFinder finds in it (assistant/intents.py).  The intents API  *)
(* writes it on the event loop, turns count matches in threads of their    *)
(* own, and nothing locks it: a record is read, replaced in memory, the    *)
(* whole state copied, saved, and the copy made the state.                 *)
(*                                                                         *)
(* A text is the intents whose patterns it fits, with the slots it fills.  *)
(***************************************************************************)
EXTENDS Naturals, Sequences

CONSTANTS Builtins,     \* the sequence of built-in intents
          Admin, Confirmations, GlobalShort,
          Services,     \* intents that services may register
          Slotted,      \* intents that need a slot the text may lack
          Turns, Loop, NoIntentId,
          MaxUses       \* bound: matches counted of an intent

Ids == {Builtins[n] : n \in DOMAIN Builtins} \cup Services

ASSUME RegistryAssumption ==
  /\ Builtins \in Seq(Ids) /\ \A m, n \in DOMAIN Builtins : m # n => Builtins[m] # Builtins[n]
  /\ Admin \cup Confirmations \cup GlobalShort \cup Slotted \subseteq Ids
  /\ NoIntentId \notin Ids /\ Loop \notin Turns /\ MaxUses \in Nat

IntentStates == {"active", "disabled", "retired"}

(* Maintenance intents are built in switched off and need to know who      *)
(* speaks; no other built-in does.                                         *)
Builtin(i) == [id |-> i, status |-> IF i \in Admin THEN "disabled" ELSE "active",
               policy |-> IF i \in Admin THEN "required" ELSE "not_required", uses |-> 0]
Created == [n \in DOMAIN Builtins |-> Builtin(Builtins[n])]

NoRecord == [id |-> NoIntentId, status |-> "retired", policy |-> "use_if_ready", uses |-> 0]
AtRest == [pc |-> "idle", record |-> NoRecord, copy |-> <<>>]

VARIABLES
  registered,  \* VoiceIntentRegistry._state
  stored,      \* the file
  writing,     \* by thread, the write under way
  ordered,     \* history: the status the operator gave last, by intent
  match        \* by turn, what its text was found to mean

gvars == <<registered, stored, writing, ordered, match>>

Writers == Turns \cup {Loop}

RegistryInit ==
  /\ registered = Created /\ stored = Created
  /\ writing = [w \in Writers |-> AtRest]
  /\ ordered = [i \in Ids |-> IF \E n \in DOMAIN Created : Created[n].id = i THEN Builtin(i).status ELSE "retired"]
  /\ match = [t \in Turns |-> NoIntentId]

Has(state, i) == \E n \in DOMAIN state : state[n].id = i
RecordOf(state, i) == IF Has(state, i) THEN state[CHOOSE n \in DOMAIN state : state[n].id = i] ELSE NoRecord
Replaced(state, r) == [n \in DOMAIN state |-> IF state[n].id = r.id THEN r ELSE state[n]]

Unlocked(w) == writing[w] = AtRest
Begin(w, r) == writing' = [writing EXCEPT ![w] = [AtRest EXCEPT !.pc = "replace", !.record = r]]

-----------------------------------------------------------------------------
(* Writes.                                                                 *)

(* Mutant: an intent registered again after its end is put last.           *)
ReplaceLast(w) ==
  LET r == writing[w].record IN
  /\ writing[w].pc = "replace"
  /\ registered' = IF RecordOf(registered, r.id).status = "retired"
                   THEN Append(SelectSeq(registered, LAMBDA x : x.id # r.id), r) ELSE Replaced(registered, r)
  /\ ordered' = IF w = Loop THEN [ordered EXCEPT ![r.id] = r.status] ELSE ordered
  /\ writing' = [writing EXCEPT ![w].pc = "dump"] /\ UNCHANGED <<stored, match>>

(* _replace; a new intent goes to the end.                                 *)
Replace(w) ==
  LET r == writing[w].record IN
  /\ writing[w].pc = "replace"
  /\ registered' = IF Has(registered, r.id) THEN Replaced(registered, r)
                   ELSE IF w = Loop THEN Append(registered, r) ELSE registered
  /\ ordered' = IF w = Loop THEN [ordered EXCEPT ![r.id] = r.status] ELSE ordered
  /\ writing' = [writing EXCEPT ![w].pc = "dump"] /\ UNCHANGED <<stored, match>>

Dump(w) ==
  /\ writing[w].pc = "dump"
  /\ writing' = [writing EXCEPT ![w].pc = "store", ![w].copy = registered]
  /\ UNCHANGED <<registered, stored, ordered, match>>

(* A save that fails, for the disk's sake or because another took the      *)
(* temporary file away, leaves the change in memory.                       *)
StoreRecords(w) ==
  /\ writing[w].pc = "store"
  /\ \/ (stored' = writing[w].copy /\ writing' = [writing EXCEPT ![w].pc = "adopt"])
     \/ (UNCHANGED stored /\ writing' = [writing EXCEPT ![w] = AtRest])
  /\ UNCHANGED <<registered, ordered, match>>

Adopt(w) ==
  /\ writing[w].pc = "adopt" /\ registered' = writing[w].copy
  /\ writing' = [writing EXCEPT ![w] = AtRest]
  /\ UNCHANGED <<stored, ordered, match>>

-----------------------------------------------------------------------------
(* The API of intents, on the event loop.                                  *)

RegisterIntent ==
  \E i \in Ids, status \in IntentStates, policy \in {"required", "use_if_ready"} :
    /\ Unlocked(Loop) /\ RecordOf(registered, i).status = "retired"
    /\ Begin(Loop, [id |-> i, status |-> status, policy |-> policy, uses |-> 0])
    /\ UNCHANGED <<registered, stored, ordered, match>>

(* An update never takes back the policy resolved at registration, but may *)
(* state another.                                                          *)
UpdateIntent ==
  \E i \in Ids, policy \in {"required", "use_if_ready"} :
    /\ Unlocked(Loop) /\ Has(registered, i) /\ Begin(Loop, [RecordOf(registered, i) EXCEPT !.policy = policy])
    /\ UNCHANGED <<registered, stored, ordered, match>>

(* transition_intent, and review_intent, which may also leave it as it is. *)
Decide(i, status) ==
  /\ Unlocked(Loop) /\ Has(registered, i) /\ Begin(Loop, [RecordOf(registered, i) EXCEPT !.status = status])
  /\ UNCHANGED <<registered, stored, ordered, match>>
TransitionIntent == \E i \in Ids, status \in IntentStates : Decide(i, status)
ReviewIntent == \E i \in Ids : Decide(i, RecordOf(registered, i).status)

(* Saving the admin maintenance settings switches its intents on and off.  *)
SyncAdmin == \E i \in Admin, status \in {"active", "disabled"} : RecordOf(registered, i).status # status /\ Decide(i, status)

-----------------------------------------------------------------------------
(* Finding an intent.                                                      *)

(* active_intents: their places in the registry's order.                   *)
ActivePlaces == {n \in DOMAIN registered : registered[n].status = "active"}

Extracted(i, slot) == i \in Slotted => slot

(* A short utterance is matched only where a question is open, but for the *)
(* few intents that are global.                                            *)
Fits(i, fits, short, pending, slot) ==
  /\ i \in fits
  /\ (i \in Confirmations \/ (short /\ i \notin GlobalShort)) => pending
  /\ Extracted(i, slot)

FirstMatch(P) ==
  LET places == {n \in ActivePlaces : registered[n].id \in P} IN
  IF places = {} THEN NoIntentId
  ELSE registered[CHOOSE n \in places : \A m \in places : n <= m].id

(* find, match_ai_classification, match_declared_intent.                   *)
FindText(t) ==
  \E fits \in SUBSET Ids, short, pending, slot \in BOOLEAN :
    /\ Unlocked(t) /\ match[t] = NoIntentId
    /\ match' = [match EXCEPT ![t] = FirstMatch({i \in Ids : Fits(i, fits, short, pending, slot)})]
    /\ match'[t] # NoIntentId /\ UNCHANGED <<registered, stored, writing, ordered>>

(* The classifier's answer, or the command of a screen, names the intent.  *)
FindNamed(t) ==
  \E i \in Ids, slot \in BOOLEAN :
    /\ Unlocked(t) /\ match[t] = NoIntentId /\ RecordOf(registered, i).status = "active" /\ Extracted(i, slot)
    /\ match' = [match EXCEPT ![t] = i] /\ UNCHANGED <<registered, stored, writing, ordered>>

(* record_usage.                                                           *)
CountMatch(t) ==
  LET r == RecordOf(registered, match[t]) IN
  /\ Unlocked(t) /\ match[t] # NoIntentId /\ Has(registered, match[t]) /\ r.uses < MaxUses
  /\ Begin(t, [r EXCEPT !.uses = @ + 1]) /\ match' = [match EXCEPT ![t] = NoIntentId]
  /\ UNCHANGED <<registered, stored, ordered>>

RestartRegistry ==
  /\ registered' = stored /\ writing' = [w \in Writers |-> AtRest] /\ match' = [t \in Turns |-> NoIntentId]
  /\ ordered' = [i \in Ids |-> RecordOf(stored, i).status] /\ UNCHANGED stored

RegistryNext ==
  \/ RegisterIntent \/ UpdateIntent \/ TransitionIntent \/ ReviewIntent \/ SyncAdmin \/ RestartRegistry
  \/ \E w \in Writers : Replace(w) \/ Dump(w) \/ StoreRecords(w) \/ Adopt(w)
  \/ \E t \in Turns : FindText(t) \/ FindNamed(t) \/ CountMatch(t)

RegistrySpec == RegistryInit /\ [][RegistryNext]_gvars

-----------------------------------------------------------------------------
(* The types of the variables.                                             *)
RegistryTypeOK ==
  /\ \A n \in DOMAIN registered : registered[n].id \in Ids /\ registered[n].uses \in 0 .. MaxUses
  /\ \A w \in Writers : writing[w].pc \in {"idle", "replace", "dump", "store", "adopt"}
  /\ match \in [Turns -> Ids \cup {NoIntentId}]

(* Whatever threads write at once, the registry and its file hold every    *)
(* intent at most once and the built-in ones first and in their order, so  *)
(* that the words of a built-in intent are never answered by a service's.  *)
BuiltinsComeFirst ==
  \A state \in {registered, stored} :
    /\ \A n \in DOMAIN Builtins : n \in DOMAIN state /\ state[n].id = Builtins[n]
    /\ \A m, n \in DOMAIN state : m # n => state[m].id # state[n].id

(* An intent is active, disabled or retired as the operator last made it:  *)
(* "Disabled, retired, restricted, probation, review-due, or expired       *)
(* intents remain visible but do not dispatch."                            *)
StatusIsTheOperators == Unlocked(Loop) => \A i \in Ids : RecordOf(registered, i).status = ordered[i]
=============================================================================
