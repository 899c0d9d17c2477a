----------------------------- MODULE TimerEvents -----------------------------
(***************************************************************************)
(* src/hexevoice/timer_announcements.py, domain_events.py and the timer    *)
(* commands of voice/session_manager.py, for the timers of ONE endpoint.   *)
(*                                                                         *)
(* The timers live on another node.  A request goes through the queue of   *)
(* AsyncDomainEventPublisher and is published by its thread; what becomes  *)
(* of a timer comes back as an event.  The thread of the MQTT client keeps *)
(* TimerOwnershipCache and schedules coroutines on the loop: the display   *)
(* of the timers here, the alarm and the announcement in TimerSpeech.      *)
(*                                                                         *)
(* Abstractions: an event that tells the state of a timer also carries its *)
(* due time, as the docs ask, and a failure carries both or neither (the   *)
(* schema asks for neither).  A failure need not name a timer; those that  *)
(* do not share one session.  A timer is announced under its own id or, at *)
(* its creation, under another one (a provisional record); due times that  *)
(* differ are more than 30 s apart.  The overlapping topic filters deliver *)
(* an event once or twice in a row.                                        *)
(***************************************************************************)
EXTENDS Naturals, Sequences, FiniteSets, SequencesExt

CONSTANTS N,           \* bound: the timers ever created
          QueueSize,   \* AsyncDomainEventPublisher: queue_size
          Pending,     \* bound: events on the wire, and coroutines
          Links,       \* bound: connections made and lost to the broker
          Failures,    \* bound: failures that do not tell the state
          Nothing      \* no timer

ASSUME TimerAssumption ==
  /\ N \in Nat /\ Nothing \notin Nat
  /\ {QueueSize, Pending, Links} \subseteq Nat \ {0} /\ Failures \in Nat

Timers == 1 .. N

(* An event that names no timer is kept under the session of its request.  *)
Session == 0
Named == Timers \cup {Session}

(* The ids events go by.                                                   *)
Ids == Named \X {"own", "provisional"}

VARIABLES
  owner, due,   \* the timer node: each timer and its due time
  denied,       \* its failures so far that did not tell the state
  jobs,         \* AsyncDomainEventPublisher._queue
  link,         \* connections of the MQTT client made and lost so far
  wire,         \* events on their way to it
  records,      \* TimerOwnershipCache._records
  tasks,        \* coroutines scheduled on the loop, in order
  shown,        \* the endpoint: the timers it lists and its screen
  untold        \* those whose last event did not bring their state: it was
                \* lost, or is a failure that does not tell

tvars ==
  <<owner, due, denied, jobs, link, wire, records, tasks, shown, untold>>

subscribed == link % 2 = 1

Event(type, t, id) == [type |-> type, timer |-> t, id |-> id]

Running == {t \in Timers : owner[t] = "running"}

(* timer-response-event.schema.json: how the node says that it could not   *)
(* ("unmet": create_failed, status_failed and adjust_time_failed).         *)
FailureOf == [create |-> "unmet", status |-> "unmet", adjust |-> "unmet",
              stop |-> "stop_failed"]

Tells(type) == type \in {"created", "active", "over"}

-----------------------------------------------------------------------------

(* TimerOwnershipCache                                                     *)

(* [last: the last event about the timer; dated: its due time is known;    *)
(* lapsed: out of date].                                                   *)
NoRecord == [last |-> "none", dated |-> FALSE, lapsed |-> FALSE]

(* _timer_state_from_event: without a state in the data, the event type    *)
(* decides by its prefix, a failure like the success.                      *)
ActiveAfter(type) == type \in {"created", "active", "unmet"}

(* _is_active_timer_state and not _active_timer_record_expired.            *)
ActiveIn(recs) == {i \in Ids : ActiveAfter(recs[i].last) /\ ~ recs[i].lapsed}

Active == ActiveIn(records)
DueOf(i) == due[i[1]]

(* Mutant: the provisional record of a timer is kept beside its own.       *)
KeepProvisional(i, recs) == {recs}

(* _remove_matching_provisional: the nearest provisional record, if due    *)
(* within 30 s; min() over (difference, id) breaks ties by the id.         *)
WithoutProvisional(i, recs) ==
  LET near == {j \in Ids \ {i} : recs[j].last = "created"
                                 /\ DueOf(j) = DueOf(i)}
  IN IF near = {} THEN {recs}
     ELSE {[recs EXCEPT ![j] = NoRecord] : j \in near}

(* update_from_event and _update_one: the caches an event may leave.  An   *)
(* event without a due time leaves the one the record has.                 *)
Updated(e) ==
  LET dated == \/ Tells(e.type) /\ e.timer \in Timers
               \/ records[e.id].dated
  IN {[r EXCEPT ![e.id] = [last |-> e.type, dated |-> dated,
                           lapsed |-> FALSE]] :
        r \in IF e.type = "created" \/ ~ dated THEN {records}
              ELSE WithoutProvisional(e.id, records)}

(* select_timer: the only active timer, or the one strictly due first.     *)
Selected(i) ==
  \/ Active = {i}
  \/ /\ i \in Active /\ records[i].dated
     /\ \A j \in Active \ {i} : records[j].dated => DueOf(i) < DueOf(j)

Selections ==
  IF Active = {} THEN {Nothing} ELSE {i[1] : i \in {j \in Ids : Selected(j)}}

-----------------------------------------------------------------------------

(* Requests                                                                *)

(* Mutant: the queue has no bound.                                         *)
PutAnyway(job, queue) == Append(queue, job)

(* _enqueue: a full queue drops the event.                                 *)
Put(job, queue) == IF Len(queue) = QueueSize THEN queue ELSE Append(queue, job)

Request(job) ==
  /\ \A k \in DOMAIN jobs : jobs[k].act # job.act
  /\ jobs' = Put(job, jobs)
  /\ UNCHANGED <<owner, due, denied, link, wire, records, tasks, shown>>
  /\ UNCHANGED untold

(* AsyncDomainEventPublisher: what each request queues.                    *)
CreateJob(t) == [act |-> "create", timer |-> t]
StatusJob(t) == [act |-> "status", timer |-> t]
ControlJob(t) == [act |-> "stop", timer |-> t]
AdjustJob(t) == [act |-> "adjust", timer |-> t]
SnoozeJob(t) == [act |-> "snooze", timer |-> t]

AskCreate(t) == owner[t] = "none" /\ Request(CreateJob(t))

(* "Stop", "add a minute to", "snooze", "how long is left on the timer":   *)
(* an ambiguous selection is not dispatched, and the node chooses when no  *)
(* timer is named.                                                         *)
AskStatus == \E t \in Selections : Request(StatusJob(t))
AskControl == \E t \in Selections : Request(ControlJob(t))
AskAdjust == \E t \in Selections : Request(AdjustJob(t))
AskSnooze == \E t \in Selections : Request(SnoozeJob(t))

-----------------------------------------------------------------------------

(* The timer node and the broker                                           *)

(* A clean session: what is published while nobody listens is lost.        *)
Emit(e) ==
  /\ untold' = IF subscribed /\ Tells(e.type)
               THEN untold \ {e.timer} ELSE untold \cup {e.timer}
  /\ IF subscribed
     THEN \E n \in 1 .. 2 : /\ Len(wire) + n <= Pending
                            /\ wire' = wire \o [k \in 1 .. n |-> e]
     ELSE UNCHANGED wire

(* A request is published and the node does what it asks.                  *)
(* [may: the timers it may choose; then: what becomes of them].            *)
Answered(job, may, then) ==
  \E t \in Timers :
    /\ owner[t] = may /\ job.timer \in {t, Nothing}
    /\ owner' = [owner EXCEPT ![t] = then] /\ UNCHANGED denied
    /\ Emit(Event(IF then = "over" THEN "over" ELSE "active", t, <<t, "own">>))

(* The node cannot do what was asked, and says so: with the state of the   *)
(* timer, or without, of the timer or of the session alone.                *)
Denied(job) ==
  /\ job.act \in DOMAIN FailureOf
  /\ owner' = IF job.act = "create"
               THEN [owner EXCEPT ![job.timer] = "refused"] ELSE owner
  /\ \/ /\ job.timer # Nothing /\ UNCHANGED denied
        /\ Emit(Event(IF job.timer \in Running THEN "active" ELSE "over",
                      job.timer, <<job.timer, "own">>))
     \/ /\ denied < Failures /\ denied' = denied + 1
        /\ \E t \in {job.timer, Session} \ {Nothing} :
             Emit(Event(FailureOf[job.act], t, <<t, "own">>))

(* publish_timer_create, and the other requests of                         *)
(* HexeMqttTimerCreateEventPublisher.                                      *)
CreateTimer(job) ==
  /\ job.act = "create"
  /\ owner' = [owner EXCEPT ![job.timer] = "running"] /\ UNCHANGED denied
  /\ \E k \in {"own", "provisional"} :
       Emit(Event("created", job.timer, <<job.timer, k>>))

TellStatus(job) == job.act = "status" /\ Answered(job, "running", "running")
ControlTimer(job) == job.act = "stop" /\ Answered(job, "running", "over")
AdjustTimer(job) == job.act = "adjust" /\ Answered(job, "running", "running")
SnoozeTimer(job) == job.act = "snooze" /\ Answered(job, "over", "running")

(* Skipped (the node is not ready or not trusted any more) or failed (not  *)
(* confirmed in time): recorded, and not published again.  Or nobody       *)
(* answers it.                                                             *)
NotPublished == UNCHANGED <<owner, denied, wire, untold>>

(* AsyncDomainEventPublisher._run: its thread does one job at a time.      *)
Publish ==
  /\ jobs # <<>>
  /\ jobs' = Tail(jobs)
  /\ LET job == Head(jobs)
     IN \/ CreateTimer(job) \/ TellStatus(job) \/ ControlTimer(job)
        \/ AdjustTimer(job) \/ SnoozeTimer(job)
        \/ Denied(job) \/ NotPublished
  /\ UNCHANGED <<due, link, records, tasks, shown>>

Complete(t) ==
  /\ owner[t] = "running"
  /\ owner' = [owner EXCEPT ![t] = "over"]
  /\ Emit(Event("over", t, <<t, "own">>))
  /\ UNCHANGED <<due, denied, jobs, link, records, tasks, shown>>

(* start and _on_connect; _on_disconnect.                                  *)
Subscribe ==
  /\ ~ subscribed /\ link < Links
  /\ link' = link + 1
  /\ UNCHANGED <<owner, due, denied, jobs, wire, records, tasks, shown>>
  /\ UNCHANGED untold

Disconnect ==
  /\ subscribed /\ link < Links
  /\ link' = link + 1
  /\ wire' = <<>>
  /\ untold' = untold \cup {wire[k].timer : k \in DOMAIN wire}
  /\ UNCHANGED <<owner, due, denied, jobs, records, tasks, shown>>

(* Time passes: a record is past its due time and has not been refreshed   *)
(* for as long as it had left (_active_timer_record_expired).              *)
Lapse(i) ==
  /\ i \in Active /\ records[i].dated /\ i[1] \notin Running
  /\ records' = [records EXCEPT ![i].lapsed = TRUE]
  /\ UNCHANGED <<owner, due, denied, jobs, link, wire, tasks, shown, untold>>

-----------------------------------------------------------------------------

(* Mutant: the screen follows the event alone.                             *)
ScreenOfEvent(e, timers) ==
  IF ActiveAfter(e.type) THEN "timer" ELSE "idle"

(* push_timer_state: the first timer still active decides, and the event   *)
(* only when there is none.                                                *)
ScreenFor(e, timers) ==
  IF timers # {} \/ ActiveAfter(e.type) THEN "timer" ELSE "idle"

(* The MQTT thread, _on_message: the update is scheduled with the timers   *)
(* active now.                                                             *)
Receive ==
  /\ wire # <<>> /\ Len(tasks) < Pending
  /\ LET e == Head(wire)
     IN /\ records' \in Updated(e)
        /\ tasks' = LET active == ActiveIn(records')
                         IN Append(tasks,
                              [timers |-> active, stage |-> 1,
                               screen |-> ScreenFor(e, active)])
  /\ wire' = Tail(wire)
  /\ UNCHANGED <<owner, due, denied, jobs, link, shown, untold>>

-----------------------------------------------------------------------------

(* The event loop                                                          *)

(* Coroutines that suspend equally often resume in their order.            *)
Runnable(k) ==
  /\ k \in DOMAIN tasks
  /\ \A j \in 1 .. k - 1 : tasks[j].stage # tasks[k].stage

Done(k) == tasks' = RemoveAt(tasks, k)

(* A command that finds no connection is refused and not sent again: what  *)
(* the endpoint shows is out of date until the next update reaches it.     *)
Refused(k) ==
  Done(k) /\ shown' = [timers |-> {}, screen |-> "idle", stale |-> TRUE]

ShowTimers(k) ==
  /\ Runnable(k) /\ tasks[k].stage = 1
  /\ \/ /\ shown' = [shown EXCEPT !.timers = tasks[k].timers, !.stale = FALSE]
        /\ tasks' = [tasks EXCEPT ![k].stage = 2]
     \/ Refused(k)
  /\ UNCHANGED <<owner, due, denied, jobs, link, wire, records, untold>>

ShowScreen(k) ==
  /\ Runnable(k) /\ tasks[k].stage = 2
  /\ \/ /\ shown' = [shown EXCEPT !.screen = tasks[k].screen]
        /\ Done(k)
     \/ Refused(k)
  /\ UNCHANGED <<owner, due, denied, jobs, link, wire, records, untold>>

-----------------------------------------------------------------------------

TimerInit ==
  /\ owner = [t \in Timers |-> "none"]
  /\ due \in {d \in [Timers -> Timers] : \A t \in Timers : d[t] <= t}
  /\ jobs = <<>> /\ wire = <<>> /\ tasks = <<>> /\ link = 0
  /\ records = [i \in Ids |-> NoRecord]
  /\ shown = [timers |-> {}, screen |-> "idle", stale |-> FALSE]
  /\ untold = {} /\ denied = 0

TimerNext ==
  \/ \E t \in Timers : AskCreate(t) \/ Complete(t)
  \/ AskStatus \/ AskControl \/ AskAdjust \/ AskSnooze
  \/ Publish \/ Subscribe \/ Disconnect \/ Receive
  \/ \E i \in Ids : Lapse(i)
  \/ \E k \in 1 .. Pending : ShowTimers(k) \/ ShowScreen(k)

TimerSpec == TimerInit /\ [][TimerNext]_tvars

-----------------------------------------------------------------------------

TimerTypeOK ==
  /\ owner \in [Timers -> {"none", "running", "over", "refused"}]
  /\ denied \in 0 .. Failures
  /\ Len(jobs) <= QueueSize /\ Len(wire) <= Pending
  /\ \A k \in DOMAIN tasks : tasks[k].stage \in 1 .. 2
                             /\ tasks[k].timers \subseteq Ids
  /\ shown \in [timers : SUBSET Ids, screen : {"idle", "timer"},
               stale : BOOLEAN]

(* Due times far apart: the provisional record of one timer is never taken *)
(* for another's.                                                          *)
DuesApart == \A t, u \in Timers : due[t] = due[u] => t = u

Settled == wire = <<>> /\ DuesApart

(* When the events have arrived, the cache offers a timer, once and under  *)
(* one id, exactly if it runs: provisional records are replaced, and the   *)
(* next event that tells the state of a timer makes up for those that were *)
(* lost or were failures without a state.  Until that one comes the cache  *)
(* may be wrong: a stop that failed ends the record of a running timer, a  *)
(* creation or a question that failed leaves one of a timer that is none.  *)
CacheAgreesWhenSettled ==
  Settled => \A t \in Named \ untold :
    Cardinality({i \in Active : i[1] = t}) = IF t \in Running THEN 1 ELSE 0

(* When the coroutines have run too, in whatever order their sends came to *)
(* an end, and every last event told the state, the endpoint lists the     *)
(* timers that run, each once, and no other, and shows the timer screen    *)
(* exactly when there is one.                                              *)
DisplayAgreesWhenSettled ==
  Settled /\ untold = {} /\ tasks = <<>> /\ ~ shown.stale =>
    /\ {i[1] : i \in shown.timers} = Running
    /\ \A i, j \in shown.timers : i[1] = j[1] => i = j
    /\ (shown.screen = "timer") = (Running # {})
=============================================================================
