---------------------------- MODULE CloudQueries ----------------------------
(* What the REST API answers about the stored events: the points and rows made
   of an event and the queries of the two writers (src/cloud/app/db/influx.py),
   the device rows and the summary (src/cloud/app/api/routes.py).  The answers
   are functions of what CloudConsumer keeps.

   A payload is a record with some of the fields an edge may send; a value is a
   string, so that the Boolean true is "true" and a null is None. *)
EXTENDS CloudConsumer, Integers

CONSTANTS None,
          MaxRows       \* the most rows of an answer, 1000 in the code

ASSUME RowsAssumption == MaxRows \in Nat \ {0} /\ None \notin Nat

\* _first_value.
FirstValue(payload, names, default) ==
    LET present == {i \in DOMAIN names : /\ names[i] \in DOMAIN payload
                                         /\ payload[names[i]] # None}
    IN IF present = {} THEN default ELSE payload[names[Min(present)]]

\* The writers and the routes ignore the case of an event's type, the consumer
\* does not: for it "Alarm" is no alarm.
TypeOf(m) == IF m.kind = "Alarm" THEN "alarm" ELSE m.kind
OfType(type) == Picked(stored, {k \in DOMAIN stored : TypeOf(stored[k]) = type})

LevelOf(payload)      == FirstValue(payload, <<"level", "risk_level">>, "none")
TrackOf(payload)      == FirstValue(payload, <<"trackId", "track_id", "id">>, "unknown")
SensorTypeOf(payload) == FirstValue(payload, <<"sensor_type", "type">>, "unknown")

\* _coerce_online_value, and the end of _online_from_payload.
CoerceOnline(value) == value \notin {"offline", "down", "false", "0", "no", ""}

\* _status_online_value of the writer.
StatusOnline(m) ==
    LET value == FirstValue(m.payload, <<"online", "status", "state">>, None)
    IN IF value = None THEN TypeOf(m) # "lwt" ELSE CoerceOnline(value)

\* _online_from_payload of the routes: a status that is there but null hides the
\* state.
OnlineFromPayload(m) ==
    LET get(name, default) == IF name \in DOMAIN m.payload THEN m.payload[name]
                              ELSE default
        online == get("online", None)
        value  == IF online # None THEN online ELSE get("status", get("state", None))
    IN IF value = None THEN TypeOf(m) # "lwt" ELSE CoerceOnline(value)

-----------------------------------------------------------------------------
(* InfluxWriter: the events in memory *)

\* What an event is about: in the rows of the memory and among the tags of the
\* database.
About(m) == CASE TypeOf(m) = "alarm"  -> LevelOf(m.payload)
              [] TypeOf(m) = "track"  -> TrackOf(m.payload)
              [] TypeOf(m) = "sensor" -> SensorTypeOf(m.payload)
              [] OTHER                -> None

\* event_to_alert_row, and the rows of tracks and sensors.  An alarm's row does
\* not say which track it is about.
RowOf(m) ==
    [device |-> m.device, stamp |-> m.stamp, seq |-> NumberOf(m), about |-> About(m)]

\* A bound of a range is none, <<>>, a duration <<"from", n>> or a time <<"at", n>>.
Bound(value, anchor) == IF value[1] = "from" THEN anchor + value[2] ELSE value[2]

\* _event_in_range: both ends belong to it.
InRange(m, start, stop, anchor) ==
    /\ start # <<>> => m.stamp >= Bound(start, anchor)
    /\ stop # <<>> => m.stamp <= Bound(stop, anchor)

\* Durations count from the newest event of the type, whatever its device.
Anchor(type) == Max({0} \cup {m.stamp : m \in ToSet(OfType(type))})

SafeLimit(limit) == Max({1, Min({limit, MaxRows})})

FirstOf(list, n) == SubSeq(list, 1, Min({n, Len(list)}))
LastOf(list, n) == SubSeq(list, Max({1, Len(list) - n + 1}), Len(list))

\* The filters of a question; the faulty variant forgets the second.
WantedOfDevice(row, device, about) == device # None => row.device = device
Wanted(row, device, about) ==
    /\ device # None => row.device = device
    /\ about # None => row.about = about

\* query_alerts, query_tracks and query_sensors.
Query(type, device, about, start, stop, limit) ==
    LET events == OfType(type)
        anchor == Anchor(type)
        hits   == {k \in DOMAIN events :
                     /\ InRange(events[k], start, stop, anchor)
                     /\ Wanted(RowOf(events[k]), device, about)}
        newest == LastOf(Picked(events, hits), SafeLimit(limit))
    IN [k \in DOMAIN newest |-> RowOf(newest[k])]

-----------------------------------------------------------------------------
(* InfluxDBWriter: points in the database *)

\* event_to_influx_point, of which the database keeps the last one with the same
\* measurement, tags and time.
Point(m) ==
    [measurement |-> IF TypeOf(m) = "lwt" THEN "status" ELSE TypeOf(m),
     tags        |-> <<m.device, About(m)>>,
     time        |-> m.stamp,
     online      |-> TypeOf(m) \in {"status", "lwt"} /\ StatusOnline(m)]

\* The database after the writes, in order.
SamePlace(p, q) ==
    p.measurement = q.measurement /\ p.tags = q.tags /\ p.time = q.time
Written(points, m) == {p \in points : ~SamePlace(p, Point(m))} \cup {Point(m)}
Points == FoldLeft(Written, {}, stored)

\* The rows of the database have no seq.
DatabaseRow(p) == [device |-> p.tags[1], stamp |-> p.time, about |-> p.tags[2]]

Older(rows, row) ==
    {r \in rows : r.device = row.device /\ r.about = row.about /\ r.stamp < row.stamp}

\* The Flux queries of query_alerts, query_tracks and query_sensors: durations
\* count from now, the end is open, and limit takes the first rows of each series.
\* A bound that is no duration is refused (_flux_range_value).
IsDuration(bound) == bound[1] = "from"
FluxQuery(points, type, device, about, start, stop, limit, now) ==
    LET end  == IF stop = <<>> THEN now ELSE Bound(stop, now)
        hits == {p \in points : /\ p.measurement = type
                                /\ Bound(start, now) <= p.time /\ p.time < end
                                /\ device # None => p.tags[1] = device
                                /\ about # None => p.tags[2] = about}
        rows == {DatabaseRow(p) : p \in hits}
        refused == ~IsDuration(start) \/ (stop # <<>> /\ ~IsDuration(stop))
    IN [refused |-> refused,
        rows    |-> IF refused THEN {}
                    ELSE {row \in rows : Cardinality(Older(rows, row)) < SafeLimit(limit)}]

-----------------------------------------------------------------------------
(* The rows of the routes *)

NoRow == [online |-> None, lastSeen |-> None, lastType |-> None, cpu |-> None]

\* _latest_device_rows, one event of a device after the other: last_seen goes by
\* time, the rest by the order of arrival.  In the faulty variant everything does.
WithArrival(row, m) ==
    [row EXCEPT !.online = IF TypeOf(m) \in {"status", "lwt"} THEN OnlineFromPayload(m)
                           ELSE @,
                !.lastSeen = m.stamp]
WithEvent(row, m) ==
    LET newer  == row.lastSeen = None \/ m.stamp >= row.lastSeen
        status == TypeOf(m) \in {"status", "lwt"}
    IN [online   |-> IF status THEN OnlineFromPayload(m) ELSE row.online,
        lastSeen |-> IF newer THEN m.stamp ELSE row.lastSeen,
        lastType |-> IF newer THEN m.kind ELSE row.lastType,
        cpu      |-> IF status /\ "cpu" \in DOMAIN m.payload THEN m.payload.cpu
                     ELSE row.cpu]

OfDevice(device) == Picked(stored, {k \in DOMAIN stored : stored[k].device = device})
DeviceRow(device) == FoldLeft(WithEvent, NoRow, OfDevice(device))

\* AlertView.from_event reads risk_level alone, as text, and _risk_counts counts it.
AlertLevel(m) ==
    IF "risk_level" \notin DOMAIN m.payload THEN "none"
    ELSE IF m.payload.risk_level = None THEN "None" ELSE m.payload.risk_level
RiskCount(level) ==
    Cardinality({k \in DOMAIN latest : AlertLevel(stored[latest[k]]) = level})

\* _summary_payload.
SummaryPayload ==
    LET devices == {m.device : m \in ToSet(stored)}
    IN [devices |-> Cardinality(devices),
        online  |-> Cardinality({d \in devices : DeviceRow(d).online = TRUE}),
        alerts  |-> Len(latest), tracks |-> Len(OfType("track")),
        sensors |-> Len(OfType("sensor"))]

-----------------------------------------------------------------------------
Types   == {"alarm", "track", "sensor"}
Devices == {m.device : m \in ToSet(stored)} \cup {None}
Abouts(type) == {About(m) : m \in ToSet(OfType(type))} \cup {None}
Ever    == <<"at", 0>>

\* What the routes can ask for: alarms of a level, tracks of a device, sensor
\* readings of a device and of a type.
Questions == {<<"alarm", None, level>> : level \in Abouts("alarm")}
             \cup {<<"track", device, None>> : device \in Devices}
             \cup {<<"sensor", device, about>> : device \in Devices, about \in Abouts("sensor")}
History(type) == Query(type, None, None, Ever, <<>>, MaxRows)

\* The routes and the writer read the same online flag in a status, unless it
\* holds a null status.
OnlineIsReadAlike ==
    \A m \in ToSet(stored) :
       /\ TypeOf(m) \in {"status", "lwt"}
       /\ "status" \in DOMAIN m.payload => m.payload.status # None
       => OnlineFromPayload(m) = StatusOnline(m)

\* The answer in memory, without its limit and what only it says.
Held(type, device, about, start, stop) ==
    LET held == Query(type, device, about, start, stop, MaxRows)
    IN {[device |-> held[k].device, stamp |-> held[k].stamp, about |-> held[k].about] :
          k \in DOMAIN held}

AnswersRelate(points, type, device, about, back, stop, limit) ==
    LET now  == Anchor(type) + 1
        held == {row \in Held(type, device, about, <<"from", -back>>, stop) :
                   row.stamp >= now - back}
        flux == FluxQuery(points, type, device, about, <<"from", -back>>, stop, limit, now)
    IN Len(OfType(type)) <= MaxRows =>
          /\ ~flux.refused
          /\ flux.rows = {row \in held : Cardinality(Older(held, row)) < SafeLimit(limit)}

\* How the answers of the database and of the memory relate (query_alerts,
\* query_tracks, query_sensors), for ranges in durations, asked for soon after the
\* newest event of the type: without a cut the database finds the rows that the
\* memory has of that time, all of them and no others, but for the seq; events
\* with the same device, time and level, track or sensor type are one row.  With a
\* cut it gives the oldest of each series, and so leaves out newer rows than the
\* limit of rows that it gives.  The point of a status and its device's row say the
\* same of it.
WritersAgree ==
    LET points == Points IN
    /\ OnlineIsReadAlike
    /\ \A q \in Questions, asked \in {<<1, <<>>, MaxRows>>, <<3, <<>>, 1>>,
                                    <<3, <<"from", -1>>, MaxRows>>} :
          AnswersRelate(points, q[1], q[2], q[3], asked[1], asked[2], asked[3])

\* A device was last seen at its newest event, however late that was stored; its
\* online flag is that of its newest status if its statuses came in order.
DeviceRowIsTheNewest ==
    \A device \in Devices \ {None} :
       LET mine     == OfDevice(device)
           statuses == Picked(mine, {k \in DOMAIN mine :
                                       TypeOf(mine[k]) \in {"status", "lwt"}})
           n        == Len(statuses)
       IN /\ DeviceRow(device).lastSeen = Max({m.stamp : m \in ToSet(mine)})
          /\ (n > 0 /\ \A k \in 2 .. n : statuses[k - 1].stamp <= statuses[k].stamp)
             => DeviceRow(device).online = OnlineFromPayload(statuses[n])

\* The counts of the summary are those of the newest alarms and of the histories
\* that the other routes answer, as long as these are not cut, and alarms are
\* written "alarm" and say their level, if any, in risk_level.  While the loop lists
\* an alarm, the list may lack this one, or hold one more.
Plain(m) == /\ m.kind # "Alarm"
            /\ "level" \notin DOMAIN m.payload
            /\ "risk_level" \in DOMAIN m.payload => m.payload.risk_level # None
SummaryMatchesHistory ==
    (/\ \A m \in ToSet(stored) : Plain(m)
     /\ \A type \in Types : Len(OfType(type)) <= MaxRows) =>
       LET alarms == History("alarm")
           listed == FirstOf(alarms, Len(alarms) - (IF step = "list" THEN 1 ELSE 0))
           newest == LastOf(listed, MaxAlerts + (IF step = "trim" THEN 1 ELSE 0))
       IN /\ \A level \in Abouts("alarm") :
                RiskCount(level) = Cardinality({k \in DOMAIN newest : newest[k].about = level})
          /\ SummaryPayload.alerts = Len(newest)
          /\ SummaryPayload.tracks = Len(History("track"))
          /\ SummaryPayload.sensors = Len(History("sensor"))

\* "Queries alarm events from InfluxDB when configured, or the in-memory writer
\* during local tests" (README.md:82): each alarm event has its point in the
\* database.
EveryAlarmHasItsPoint ==
    Cardinality({p \in Points : p.measurement = "alarm"}) = Len(OfType("alarm"))
=============================================================================
