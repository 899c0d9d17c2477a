---------------------------- MODULE WeatherCards ----------------------------
(***************************************************************************)
(* The weather card of the touch panels (weather_snapshots.py,             *)
(* p4_quick_actions.py, radar_assets.py).  Interaction publishes prepared  *)
(* forecasts and the outcome of each weather request over MQTT.  The       *)
(* network thread keeps the newest forecast of a place and tells its       *)
(* listeners; everything shown is shown by coroutines of the event loop,   *)
(* which the network thread queues.  The two share the forecast and the    *)
(* table of results that wait for theirs without a lock.                   *)
(*                                                                         *)
(* A forecast stands for (snapshot_id, cache_revision) and the one event   *)
(* that carries it, so a forecast published twice is one event delivered   *)
(* again.  A result has one coroutine; `work` is where it is.              *)
(***************************************************************************)
EXTENDS Naturals, Sequences, FiniteSets, SequencesExt

CONSTANTS
    Forecasts,     \* the snapshots Interaction publishes
    Place,         \* location_id of a forecast
    FetchedAt,     \* fetched_at of a forecast
    NoForecast,    \* none yet; what a failed result names
    Results,       \* weather.current_succeeded and _failed events
    NamedBy,       \* the forecast a result names, NoForecast for a failure
    PanelOf,       \* the endpoint that asked
    Panels,        \* touch panels
    Waitless,      \* no result waits for a panel
    Pressed,       \* the empty entry a pressed button leaves
    MaxSeen        \* result ids remembered against duplicates (100)

ASSUME WeatherAssumption ==
    /\ NoForecast \notin Forecasts
    /\ FetchedAt \in [Forecasts -> Nat]
    /\ NamedBy \in [Results -> Forecasts \cup {NoForecast}]
    /\ PanelOf \in [Results -> Panels]
    /\ {Waitless, Pressed} \cap Results = {}
    /\ MaxSeen \in Nat \ {0}

VARIABLES
    feed,        \* the subscription: stopped, starting, connected, ...
    forecast,    \* _accepted, in memory and in weather_snapshot.json
    telling,     \* the forecast whose listeners are still to be called
    recalled,    \* _seen_result_ids, newest first
    awaiting,    \* _pending_weather_results of a panel
    work,        \* the coroutine of a result
    drawn,       \* the forecast a coroutine has read
    rendered,    \* radar assets in the cache directory
    online,      \* panels with a connection
    card,        \* the result and the forecast of the card on a panel
    answers      \* how often a result reached its panel's screen

wvars == <<feed, forecast, telling, recalled, awaiting, work, drawn, rendered,
           online, card, answers>>

NoCard == [result |-> Waitless, forecast |-> NoForecast]

WeatherTypeOK ==
    /\ feed \in {"stopped", "starting", "connected", "disconnected"}
    /\ forecast \in Forecasts \cup {NoForecast}
    /\ telling \in Forecasts \cup {NoForecast}
    /\ recalled \in Seq(Results) /\ Len(recalled) <= MaxSeen
    /\ awaiting \in [Panels -> Results \cup {Waitless, Pressed}]
    /\ work \in [Results -> {"none", "queued", "unmatched", "show", "render", "draw"}]
    /\ drawn \in [Results -> Forecasts \cup {NoForecast}]
    /\ rendered \subseteq Forecasts
    /\ online \subseteq Panels
    /\ card \in [Panels -> [result : Results \cup {Waitless}, forecast : Forecasts \cup {NoForecast}]]
    /\ answers \in [Results -> 0 .. 2]

WeatherInit ==
    /\ feed = "stopped" /\ forecast = NoForecast /\ telling = NoForecast
    /\ recalled = <<>>
    /\ awaiting = [p \in Panels |-> Waitless]
    /\ work = [r \in Results |-> "none"]
    /\ drawn = [r \in Results |-> NoForecast]
    /\ rendered = {} /\ online = {}
    /\ card = [p \in Panels |-> NoCard]
    /\ answers = [r \in Results |-> 0]

loopVars == <<awaiting, work, drawn, card, answers>>

-----------------------------------------------------------------------------
(* The subscription.                                                       *)

\* start(): once, and only on a trusted node with credentials of its own.
StartFeed ==
    /\ feed = "stopped"
    /\ feed' = "starting"
    /\ UNCHANGED <<forecast, telling, recalled, rendered, online, loopVars>>

\* The broker accepts the connection, or it is lost.
Subscribed ==
    /\ feed \in {"starting", "disconnected"}
    /\ feed' = "connected"
    /\ UNCHANGED <<forecast, telling, recalled, rendered, online, loopVars>>

Unsubscribed ==
    /\ feed = "connected"
    /\ telling = NoForecast
    /\ feed' = "disconnected"
    /\ UNCHANGED <<forecast, telling, recalled, rendered, online, loopVars>>

\* The network thread takes one message at a time.
Receiving == feed = "connected" /\ telling = NoForecast

\* An older forecast of the place in use is stale_snapshot, the one in use a
\* duplicate; of another place any forecast is taken.
IsNews(f) ==
    (forecast # NoForecast /\ Place[f] = Place[forecast])
        => (FetchedAt[f] >= FetchedAt[forecast] /\ f # forecast)

\* accept(): saved, made current, then the listeners.
AcceptForecast(f) ==
    /\ Receiving
    /\ IsNews(f)
    /\ forecast' = f
    /\ telling' = f
    /\ UNCHANGED <<feed, recalled, rendered, online, loopVars>>

\* The listener queues the results that waited for this forecast, and forgets
\* them; the forecast's picture is prepared in a coroutine of its own.
Matches(f, r) == r \in Results /\ NamedBy[r] = f

\* Mutant: the results that waited stay in the table.
TellAndKeep ==
    LET served == {p \in Panels : Matches(telling, awaiting[p])} IN
    /\ telling # NoForecast
    /\ work' = [r \in Results |->
                  IF \E p \in served : awaiting[p] = r THEN "show" ELSE work[r]]
    /\ telling' = NoForecast
    /\ UNCHANGED <<feed, forecast, recalled, rendered, online, awaiting, drawn, card, answers>>

TellListeners ==
    LET served == {p \in Panels : Matches(telling, awaiting[p])} IN
    /\ telling # NoForecast
    /\ awaiting' = [p \in Panels |-> IF p \in served THEN Waitless ELSE awaiting[p]]
    /\ work' = [r \in Results |->
                  IF \E p \in served : awaiting[p] = r THEN "show" ELSE work[r]]
    /\ telling' = NoForecast
    /\ UNCHANGED <<feed, forecast, recalled, rendered, online, drawn, card, answers>>

\* accept_result(): a known id is ignored, a new one queued for the loop.
\* A duplicate is delivered once the first one's coroutine has ended.
AcceptResult(r) ==
    /\ Receiving
    /\ work[r] = "none" /\ answers[r] < 2
    /\ ~ Contains(recalled, r)
    /\ recalled' = SubSeq(<<r>> \o recalled, 1,
                          IF Len(recalled) < MaxSeen THEN Len(recalled) + 1 ELSE MaxSeen)
    /\ work' = [work EXCEPT ![r] = "queued"]
    /\ UNCHANGED <<feed, forecast, telling, rendered, online, awaiting, drawn, card, answers>>

-----------------------------------------------------------------------------
(* Coroutines of the loop.                                                 *)

OnScreen(r, f) ==
    /\ card' = [card EXCEPT ![PanelOf[r]] = [result |-> r, forecast |-> f]]
    /\ answers' = [answers EXCEPT ![r] = IF @ < 2 THEN @ + 1 ELSE 2]

\* _handle_weather_result: nothing for a panel that is away, the message of a
\* failure; a result is compared with the forecast of that moment.
HandleResult(r) ==
    LET p == PanelOf[r] IN
    /\ work[r] = "queued"
    /\ \/ /\ p \notin online
          /\ work' = [work EXCEPT ![r] = "none"]
          /\ UNCHANGED <<awaiting, card, answers>>
       \/ /\ p \in online /\ NamedBy[r] = NoForecast
          /\ awaiting' = [awaiting EXCEPT ![p] = Waitless]
          /\ work' = [work EXCEPT ![r] = "none"]
          /\ OnScreen(r, NoForecast)
       \/ /\ p \in online /\ NamedBy[r] # NoForecast /\ Matches(forecast, r)
          /\ awaiting' = [awaiting EXCEPT ![p] = Waitless]
          /\ work' = [work EXCEPT ![r] = "show"]
          /\ UNCHANGED <<card, answers>>
       \/ /\ p \in online /\ NamedBy[r] # NoForecast /\ ~ Matches(forecast, r)
          /\ work' = [work EXCEPT ![r] = "unmatched"]
          /\ UNCHANGED <<awaiting, card, answers>>
    /\ UNCHANGED <<feed, forecast, telling, recalled, rendered, online, drawn>>

\* ... and entered in the table only then.
KeepWaiting(r) ==
    /\ work[r] = "unmatched"
    /\ awaiting' = [awaiting EXCEPT ![PanelOf[r]] = r]
    /\ work' = [work EXCEPT ![r] = "none"]
    /\ UNCHANGED <<feed, forecast, telling, recalled, rendered, online, drawn, card, answers>>

\* _show_weather reads the forecast of now, not the result's.
ShowWeather(r) ==
    /\ work[r] = "show"
    /\ drawn' = [drawn EXCEPT ![r] = forecast]
    /\ work' = [work EXCEPT ![r] = "render"]
    /\ UNCHANGED <<feed, forecast, telling, recalled, rendered, online, awaiting, card, answers>>

\* RadarAssetService.prepare: from the cache, or downloaded and composed; a
\* failed download, checksum or image ends the coroutine without a message.
RenderFor(r) ==
    /\ work[r] = "render"
    /\ \/ /\ rendered' = rendered \cup {drawn[r]}
          /\ work' = [work EXCEPT ![r] = "draw"]
          /\ UNCHANGED drawn
       \/ /\ drawn[r] \notin rendered
          /\ work' = [work EXCEPT ![r] = "none"]
          /\ drawn' = [drawn EXCEPT ![r] = NoForecast]
          /\ UNCHANGED rendered
    /\ UNCHANGED <<feed, forecast, telling, recalled, online, awaiting, card, answers>>

\* The picture, the layout and the speech are sent; a panel that is away
\* refuses the picture and ends it.
DrawCard(r) ==
    /\ work[r] = "draw"
    /\ work' = [work EXCEPT ![r] = "none"]
    /\ drawn' = [drawn EXCEPT ![r] = NoForecast]
    /\ IF PanelOf[r] \in online THEN OnScreen(r, drawn[r]) ELSE UNCHANGED <<card, answers>>
    /\ UNCHANGED <<feed, forecast, telling, recalled, rendered, online, awaiting>>

\* _prepare_radar_for_connected_endpoints, queued at each accepted forecast.
PrepareAhead ==
    /\ forecast # NoForecast /\ forecast \notin rendered
    /\ rendered' = rendered \cup {forecast}
    /\ UNCHANGED <<feed, forecast, telling, recalled, online, loopVars>>

\* The weather button: the owner is asked, and an empty entry reserved.
PressWeather(p) ==
    /\ p \in online /\ awaiting[p] = Waitless
    /\ awaiting' = [awaiting EXCEPT ![p] = Pressed]
    /\ UNCHANGED <<feed, forecast, telling, recalled, rendered, online, work, drawn, card, answers>>

PanelComes(p) ==
    /\ p \notin online
    /\ online' = online \cup {p}
    /\ UNCHANGED <<feed, forecast, telling, recalled, rendered, loopVars>>

\* A panel that goes loses its picture; its table entry stays.
PanelGoes(p) ==
    /\ p \in online
    /\ online' = online \ {p}
    /\ card' = [card EXCEPT ![p] = NoCard]
    /\ UNCHANGED <<feed, forecast, telling, recalled, rendered, awaiting, work, drawn, answers>>

WeatherNext ==
    \/ StartFeed \/ Subscribed \/ Unsubscribed \/ TellListeners \/ PrepareAhead
    \/ \E f \in Forecasts : AcceptForecast(f)
    \/ \E r \in Results :
         \/ AcceptResult(r) \/ HandleResult(r) \/ KeepWaiting(r)
         \/ ShowWeather(r) \/ RenderFor(r) \/ DrawCard(r)
    \/ \E p \in Panels : PressWeather(p) \/ PanelComes(p) \/ PanelGoes(p)

-----------------------------------------------------------------------------
(* A result reaches its panel's screen at most once, whichever of the      *)
(* paths takes it: at once, after waiting for its forecast, or delivered   *)
(* again by the broker (weather_snapshots.py accept_result and             *)
(* p4_quick_actions.py _on_weather_snapshot, _handle_weather_result).      *)
ResultsAnsweredOnce == \A r \in Results : answers[r] <= 1

(* "A successful result opens and speaks only the locally cached snapshot  *)
(* matching its snapshot_id and snapshot_revision"                         *)
(* (docs/waveshare-p4-7b-roadmap.md:282).                                  *)
OpensItsForecast ==
    \A p \in Panels : card[p].result \in Results =>
        card[p].forecast = NamedBy[card[p].result]
=============================================================================
