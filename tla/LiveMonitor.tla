----------------------------- MODULE LiveMonitor -----------------------------
(* The page of the monitor, App of src/frontend/src/App.tsx: the realtime
   connection of RealtimeStatus together with useLiveDashboardData of
   src/frontend/src/services/liveData.ts, which polls four routes of the cloud
   and puts the last realtime message on top of what it has.

   The cloud stores and sends the messages of Traffic one after the other.  A
   route answers about a prefix of Traffic, with the rows of the memory or of the
   database (see CloudQueries for both).  An item of the screen keeps what the
   properties tell apart; those of mockData.ts have the device None. *)
EXTENDS RealtimeStatus, Lists

CONSTANTS
    Traffic,          \* Message's members in the order in which they are stored
    Stored,           \* how many of them the cloud has when the page opens
    Token, GoodToken, \* what is typed into the token field, and what is valid
    None,
    DemoDevice,       \* the identifier of the devices in mockData.ts
    Opened,           \* the cloud's clock when the page opens
    Ticks,            \* bound: how many messages are sent when the clock moves on, and to what
    Span,             \* the range of the routes if none is asked for, an hour
    MaxRows,          \* the limit that the page asks the routes for, 100
    MaxShown,         \* the alerts and the readings that it keeps, 50
    MaxPolls,         \* bound: polls under way at once
    MaxFailures       \* bound: failed answers to a valid token

\* about is the level of an alert, the track of a track, the type of a sensor reading.
Types == {"alert", "track", "status", "lwt", "sensor"}
Fields == {"type", "device", "seq", "stamp", "about", "online", "named"}
ASSUME LiveAssumption ==
    /\ Traffic \in Seq(Message) /\ ToSet(Traffic) = Message /\ IsInjective(Traffic)
    /\ None \notin Nat
    /\ \A m \in Message : /\ DOMAIN m = Fields /\ m.type \in Types /\ m.device # None
                           /\ m.seq \in Nat /\ m.stamp \in Nat
    /\ Opened \in Nat /\ Ticks \subseteq Nat \X Nat /\ Span \in Nat
    /\ Stored \in 0 .. Len(Traffic) /\ GoodToken \in Token
    /\ MaxRows \in Nat \ {0} /\ MaxShown \in Nat \ {0}
    /\ MaxPolls \in Nat \ {0} /\ MaxFailures \in Nat

VARIABLES
    database,  \* whether the cloud has an InfluxDB, else it answers from memory
    now,       \* the database's clock
    sent,      \* how many messages the cloud has stored and sent
    moments,   \* history: the values that <<sent, now>> has had
    token,     \* apiToken
    polls,     \* the polls under way, in the order they began: [token, from, since]
    screen,    \* the state: [alerts, devices, vessels, sensors, mode, api]
    applied,   \* the lastMessage that the effect saw last
    failures

cloud == <<database, now, sent, moments>>
page == <<cloud, token, polls, screen, applied, failures>>
vars == <<realtime, page>>

Mapped(Op(_), list) == [k \in DOMAIN list |-> Op(list[k])]
Shown(list) == SubSeq(list, 1, Min({MaxShown, Len(list)}))
Item(id, items) == \E k \in DOMAIN items : items[k].id = id

\* The items of mockData.ts.
DemoState(api) ==
    [alerts  |-> <<[id |-> None, device |-> None, vessel |-> None, level |-> "high",
                    time |-> None]>>,
     devices |-> <<[id |-> DemoDevice, device |-> None, online |-> TRUE]>>,
     vessels |-> <<[id |-> None, device |-> None, at |-> 0, risk |-> "high"]>>,
     sensors |-> <<>>, mode |-> "demo", api |-> api]

-----------------------------------------------------------------------------
(* What the routes answer to a page that gives no range: query_alerts, query_tracks
   and query_sensors of the two writers, after n messages and at a time *)

OfType(type, n) == {k \in 1 .. n : Traffic[k].type = type}

\* InfluxWriter: the hour before the newest event of the type, the newest rows of it.
Held(type, n) ==
    {k \in OfType(type, n) :
       \A j \in OfType(type, n) : Traffic[j].stamp - Span <= Traffic[k].stamp}
LastRows(list) == SubSeq(list, Max({1, Len(list) - MaxRows + 1}), Len(list))
HeldRows(type, n) == LastRows(Picked(Traffic, Held(type, n)))

\* InfluxDBWriter: the last point of a series at a time, those of the hour before
\* now, and of each series the first rows; a row has no number.  The order between
\* series is the database's.
SameSeries(m, r) == m.device = r.device /\ m.about = r.about
Points(type, n) ==
    {k \in OfType(type, n) :
       \A j \in OfType(type, n) :
          SameSeries(Traffic[j], Traffic[k]) /\ Traffic[j].stamp = Traffic[k].stamp => j <= k}
Found(type, n, time) ==
    {k \in Points(type, n) : time - Span <= Traffic[k].stamp /\ Traffic[k].stamp < time}
Older(found, k) ==
    {j \in found : SameSeries(Traffic[j], Traffic[k]) /\ Traffic[j].stamp < Traffic[k].stamp}
Cut(found) == {k \in found : Cardinality(Older(found, k)) < MaxRows}
InTime(list) ==
    \A i, j \in DOMAIN list :
       /\ SameSeries(Traffic[list[i]], Traffic[list[j]])
       /\ Traffic[list[i]].stamp < Traffic[list[j]].stamp
       => i < j
Listing(places) ==
    CHOOSE list \in [1 .. Cardinality(places) -> places] : IsInjective(list) /\ InTime(list)
DatabaseRow(k) == [Traffic[k] EXCEPT !.seq = None]
FoundRows(type, n, time) == Mapped(DatabaseRow, Listing(Cut(Found(type, n, time))))

Rows(type, moment) ==
    IF database THEN FoundRows(type, moment[1], moment[2]) ELSE HeldRows(type, moment[1])

\* deviceFromApi of a row of the route, which has put the flag in the field online.
DeviceFromRow(device, online) == [id |-> device, device |-> device, online |-> online]

IsFirst(keys, k) == \A j \in 1 .. k - 1 : keys[j] # keys[k]
Firsts(keys)     == Upwards({k \in DOMAIN keys : IsFirst(keys, k)})

\* _latest_device_rows: every message makes a row, a status sets its flag.
DeviceRows(n) ==
    LET all == SubSeq(Traffic, 1, n)
        device(m) == m.device
        row(k)    == LET said == {j \in DOMAIN all : /\ all[j].type \in {"status", "lwt"}
                                                      /\ all[j].device = all[k].device}
                     IN DeviceFromRow(all[k].device, said # {} /\ all[Max(said)].online)
    IN Mapped(row, Firsts(Mapped(device, all)))

-----------------------------------------------------------------------------
(* What becomes of a row, or of the data of a realtime message *)

\* riskLevel: RISK_ORDER does not know "critical".
RiskLevel(level) == IF level \in {"low", "medium", "high"} THEN level ELSE "none"

\* An identifier is made of the number of the event, or, if there is none, as in a row
\* of the database, of its time.
Number(m) == IF m.seq # None THEN m.seq ELSE m.stamp

\* alertFromApi: neither a row nor an AlertView says which track it is about.
AlertFromApi(m) ==
    [id |-> <<m.device, Number(m)>>, device |-> m.device, vessel |-> m.device,
     level |-> RiskLevel(m.about), time |-> m.stamp]

\* deviceFromApi reads the field online alone; a status has it where the edge put it.
DeviceFromApi(m) == DeviceFromRow(m.device, m.named = "online" /\ m.online)
SensorFromApi(m) == [id |-> <<m.device, m.about, Number(m)>>, device |-> m.device]

\* vesselFromRows: the last row's position, the first alert of that vessel.
VesselFromRow(m, alerts) ==
    LET own == {k \in DOMAIN alerts : alerts[k].vessel = m.about}
    IN [id |-> m.about, device |-> m.device, at |-> m.stamp,
        risk |-> IF own = {} THEN "none" ELSE alerts[Min(own)].level]

\* vesselsFromTracks: one vessel for each device and track, in the order of
\* their first rows.
Latest(keys, k) == CHOOSE j \in DOMAIN keys :
                       /\ keys[j] = keys[k]
                       /\ \A i \in j + 1 .. Len(keys) : keys[i] # keys[k]

VesselsFromTracks(rows, alerts) ==
    LET key(m)    == <<m.device, m.about>>
        keys      == Mapped(key, rows)
        vessel(k) == VesselFromRow(rows[Latest(keys, k)], alerts)
    IN Mapped(vessel, Firsts(keys))

\* mergedState
UsesFallback(s) == s.alerts = <<>> \/ s.devices = <<>> \/ s.vessels = <<>>
HasLive(s) ==
    s.alerts # <<>> \/ s.devices # <<>> \/ s.sensors # <<>> \/ s.vessels # <<>>

MergedState(s) ==
    LET demo == DemoState("online")
        or(items, fallback) == IF items = <<>> THEN fallback ELSE items
    IN [alerts  |-> or(s.alerts, demo.alerts),   devices |-> or(s.devices, demo.devices),
        vessels |-> or(s.vessels, demo.vessels), sensors |-> s.sensors,
        api     |-> "online",
        mode    |-> CASE HasLive(s) /\ UsesFallback(s) -> "mixed"
                      [] HasLive(s) /\ ~UsesFallback(s) -> "live"
                      [] OTHER -> "demo"]

\* refresh, when the routes answered with these rows.
Answer(devices, alarms, tracks, sensors) ==
    LET alerts == Mapped(AlertFromApi, alarms)
    IN MergedState([alerts  |-> alerts, devices |-> devices,
                    vessels |-> VesselsFromTracks(tracks, alerts),
                    sensors |-> Mapped(SensorFromApi, sensors)])

-----------------------------------------------------------------------------
(* applyRealtimeMessage *)

\* upsertVessel, upsertDevice: in place, or first; upsertAlert: first.  The
\* faulty variant leaves the old alert.
Upsert(items, item) ==
    IF Item(item.id, items)
    THEN [k \in DOMAIN items |-> IF items[k].id = item.id THEN item ELSE items[k]]
    ELSE <<item>> \o items
AlertOnTop(items, item) == Shown(<<item>> \o items)
UpsertAlert(items, item) ==
    Shown(<<item>> \o Picked(items, {k \in DOMAIN items : items[k].id # item.id}))

ApplyRealtimeMessage(s, m) ==
    LET mixed == [s EXCEPT !.mode = IF @ = "live" THEN "live" ELSE "mixed"]
    IN CASE m.type = "track" ->
              [mixed EXCEPT !.vessels = Upsert(@, VesselFromRow(m, s.alerts))]
         [] m.type \in {"alert", "alarm"} ->
              [mixed EXCEPT !.alerts = UpsertAlert(@, AlertFromApi(m))]
         [] m.type \in {"status", "lwt"} ->
              [mixed EXCEPT !.devices = Upsert(@, DeviceFromApi(m))]
         [] m.type = "sensor" ->
              [mixed EXCEPT !.sensors = Shown(<<SensorFromApi(m)>> \o @)]
         [] OTHER -> s

-----------------------------------------------------------------------------
(* Actions *)

Init ==
    /\ RealtimeInit
    /\ database \in BOOLEAN /\ now = Opened
    /\ sent = Stored /\ moments = {<<Stored, Opened>>}
    /\ token \in Token
    /\ polls = <<[token |-> token, from |-> Stored, since |-> Opened]>>
    /\ screen = DemoState("idle") /\ applied = NoMessage
    /\ failures = 0

\* The cloud stores a message and sends it to the connections it knows: those
\* that are open, and maybe one that the page does not know to be open yet.
Send ==
    /\ sent < Len(Traffic)
    /\ sent' = sent + 1 /\ moments' = moments \cup {<<sent + 1, now>>}
    /\ \E early \in SUBSET {s \in Socket : sockets[s].phase = "connecting"} :
          sockets' = [s \in Socket |->
                        IF sockets[s].phase = "open" \/ s \in early
                        THEN [sockets[s] EXCEPT !.inbox = Append(@, Traffic[sent + 1])]
                        ELSE sockets[s]]
    /\ UNCHANGED <<status, mounts, database, now, token, polls, screen, applied, failures>>

\* Time passes, for the database, which is the only one to look at a clock.
Tick ==
    /\ database
    /\ \E tick \in Ticks :
          /\ tick[1] = sent /\ tick[2] > now
          /\ now' = tick[2] /\ moments' = moments \cup {tick}
    /\ UNCHANGED <<realtime, database, sent, token, polls, screen, applied, failures>>

\* refresh, by the timer; the faulty variant gives up after a failure.
StartPollUnlessOffline ==
    /\ screen.api # "offline" /\ Len(polls) < MaxPolls
    /\ polls' = Append(polls, [token |-> token, from |-> sent, since |-> now])
    /\ UNCHANGED <<realtime, cloud, token, screen, applied, failures>>
StartPoll ==
    /\ Len(polls) < MaxPolls
    /\ polls' = Append(polls, [token |-> token, from |-> sent, since |-> now])
    /\ UNCHANGED <<realtime, cloud, token, screen, applied, failures>>

\* The four answers of a poll are there, each made at some moment since it began.
MomentsOf(poll) == {moment \in moments : moment[1] >= poll.from /\ moment[2] >= poll.since}
Answers(type, poll) == {Rows(type, moment) : moment \in MomentsOf(poll)}
FinishPoll(k) ==
    /\ polls[k].token = GoodToken
    /\ \E devices \in {DeviceRows(moment[1]) : moment \in MomentsOf(polls[k])},
          alarms \in Answers("alert", polls[k]), tracks \in Answers("track", polls[k]),
          sensors \in Answers("sensor", polls[k]) :
          screen' = Answer(devices, alarms, tracks, sensors)
    /\ polls' = RemoveAt(polls, k)
    /\ UNCHANGED <<realtime, cloud, token, applied, failures>>

\* One of them was refused or did not arrive.
FailPoll(k) ==
    /\ polls[k].token = GoodToken => failures < MaxFailures
    /\ failures' = IF polls[k].token = GoodToken THEN failures + 1 ELSE failures
    /\ screen' = DemoState("offline")
    /\ polls' = RemoveAt(polls, k)
    /\ UNCHANGED <<realtime, cloud, token, applied>>

EndPoll(k) == FinishPoll(k) \/ FailPoll(k)

\* setApiToken, after which the effect of refresh starts a poll at once.  Bound: a
\* valid token is not replaced.
SetApiToken ==
    /\ token # GoodToken /\ Len(polls) < MaxPolls
    /\ \E t \in Token \ {token} :
          /\ token' = t
          /\ polls' = Append(polls, [token |-> t, from |-> sent, since |-> now])
    /\ UNCHANGED <<realtime, cloud, screen, applied, failures>>

\* The effect of lastMessage, after the page was rendered: what came before the
\* last message is never seen.  The faulty variant starts from the state that the
\* first run of the effect saw.
CapturedState == DemoState("idle")
CurrentState  == screen
Render ==
    /\ status.last \notin {applied, NoMessage}
    /\ screen' = ApplyRealtimeMessage(CurrentState, status.last)
    /\ applied' = status.last
    /\ UNCHANGED <<realtime, cloud, token, polls, failures>>

\* React runs all effects again, that of the last message too.
RunEffectsAgain ==
    /\ Remount
    /\ applied' = NoMessage
    /\ UNCHANGED <<cloud, token, polls, screen, failures>>

Next ==
    \/ Send \/ Tick \/ StartPoll \/ SetApiToken \/ Render \/ RunEffectsAgain
    \/ \E k \in DOMAIN polls : EndPoll(k)
    \/ /\ \/ \E m \in Mount : ReconnectFires(m) \/ StaleFires(m)
          \/ \E s \in Socket : Callback(s)
       /\ UNCHANGED page

Spec == Init /\ [][Next]_vars

\* The interval timer runs and every request ends: EndPoll, which answers or fails,
\* is what takes the oldest poll off the list, and can at any time.
FairSpec ==
    /\ Spec /\ RealtimeFairness
    /\ WF_vars(StartPoll) /\ WF_polls(polls # <<>> /\ polls' = Tail(polls))
    /\ WF_vars(Render)

-----------------------------------------------------------------------------
LiveItem(item) == item.device # None
Parts == {"alerts", "devices", "vessels"}

TypeOK ==
    /\ RealtimeTypeOK
    /\ database \in BOOLEAN /\ now \in Nat
    /\ sent \in 0 .. Len(Traffic) /\ token \in Token
    /\ moments \subseteq (0 .. sent) \X Nat
    /\ polls \in Seq([token : Token, from : 0 .. Len(Traffic), since : Nat])
    /\ Len(polls) <= MaxPolls
    /\ screen.mode \in {"demo", "mixed", "live"}
    /\ screen.api \in {"idle", "online", "offline"}
    /\ applied \in Message \cup {NoMessage}
    /\ failures \in 0 .. MaxFailures

\* What the page shows of an alert.
Shows(a) == <<a.device, a.level, a.time>>

\* In memory an alert is identified by its device and number: the cloud drops an
\* event whose device and number it remembers, but an edge that restarts numbers from
\* 0 again.  In the database it is a point, unless two levels look alike on the page.
SentAlerts == {m \in Message : m.type = "alert"}
NumbersDiffer ==
    \A m, n \in SentAlerts : m.device = n.device /\ m.seq = n.seq => m = n
PointsDiffer ==
    \A m, n \in SentAlerts :
       m.device = n.device /\ m.stamp = n.stamp /\ RiskLevel(m.about) = RiskLevel(n.about)
       => m.about = n.about
AlertsDiffer == IF database THEN PointsDiffer ELSE NumbersDiffer

\* A device is on the screen once, also when a poll and the realtime connection both
\* bring it (upsertDevice), and so is an alert if the cloud answers from memory
\* (upsertAlert).  The rows of the database lack the number that the realtime
\* connection identifies an alert by, so that it can be there twice, once under each
\* identifier, until the next poll.
EachThingOnce ==
    /\ \A i, j \in DOMAIN screen.devices :
          screen.devices[i].id = screen.devices[j].id => i = j
    /\ AlertsDiffer =>
          \A i, j \in DOMAIN screen.alerts :
             /\ screen.alerts[i].id = screen.alerts[j].id
             /\ database => Shows(screen.alerts[i]) = Shows(screen.alerts[j])
             => i = j

\* Through every order of polls, failures and messages nothing is shown more often
\* than that, nothing of the demonstration data as live, and nothing live as
\* demonstration data (mergedState, applyRealtimeMessage, demoState).
ScreenIsHonest ==
    /\ TypeOK
    /\ EachThingOnce
    /\ screen.mode = "live" =>
          \A part \in Parts : \A item \in ToSet(screen[part]) : LiveItem(item)
    /\ screen.mode = "demo" =>
          /\ screen.sensors = <<>>
          /\ \A part \in Parts : \A item \in ToSet(screen[part]) : ~LiveItem(item)

\* An alert goes from the screen, and no other one with its identifier takes its
\* place, only by a poll that failed or whose answer was made before the alert was
\* stored, or when it was out of the range of the routes: in memory more than an
\* hour older than the newest alert, in the database not of the hour before now.  Or
\* there are as many alerts as the routes answer or the page keeps.
There(a, items) ==
    \E k \in DOMAIN items : items[k].id = a.id \/ Shows(items[k]) = Shows(a)
InRange(k, moment) ==
    IF database THEN /\ moment[2] - Span <= Traffic[k].stamp
                     /\ Traffic[k].stamp < moment[2]
    ELSE \A j \in OfType("alert", moment[1]) : Traffic[j].stamp - Span <= Traffic[k].stamp
LeftOut(a, moment) ==
    \A k \in OfType("alert", moment[1]) :
       Shows(AlertFromApi(Traffic[k])) = Shows(a) => ~InRange(k, moment)
EndedWithout(a, k) ==
    /\ polls' = RemoveAt(polls, k)
    /\ screen'.api = "offline" \/ \E moment \in MomentsOf(polls[k]) : LeftOut(a, moment)
MayForget(a) == \/ Len(screen'.alerts) = MaxShown \/ Len(screen'.alerts) >= MaxRows
                \/ \E k \in DOMAIN polls : EndedWithout(a, k)
OnlyALatePollForgets ==
    [][\A a \in ToSet(screen.alerts) :
          LiveItem(a) /\ ~There(a, screen'.alerts) => MayForget(a)]_vars

\* Whatever was lost, overtaken or shown too late, in the end a page with a valid
\* token shows what the routes answer, and nothing else: what is stored and in their
\* range, with the items of mockData.ts in place of a list that is empty, and all of
\* that only as long as the clock does not move on.
Newest == Answer(DeviceRows(sent), Rows("alert", <<sent, now>>),
                 Rows("track", <<sent, now>>), Rows("sensor", <<sent, now>>))
ScreenCatchesUp == <>[](token = GoodToken) => <>[](screen = Newest)
==============================================================================
