-------------------------- MODULE MCCloudConsumer --------------------------
(* Instances of CloudConsumer and its queries for TLC. *)
EXTENDS CloudQueries

Event(seq, kind, stamp, payload) ==
  [device |-> "edge-01", seq |-> seq, kind |-> kind, valid |-> "yes", stamp |-> stamp,
   payload |-> payload]

LastWill == Event(NoSeq, "lwt", 3, <<>>)

\* Alarms, one of them with two levels and a type that the consumer does not
\* know, a track, a status, a sensor reading of another device, a last will, which
\* a status older than it may follow, and a message that is refused.  The last
\* will has the first alarm's key, as after a restart of the edge.
Traffic == {Event(0, "alarm", 1, [risk_level |-> "high"]),
            Event(1, "alarm", 2, [risk_level |-> "low"]),
            Event(2, "track", 3, [track_id |-> "t1"]),
            Event(0, "Alarm", 2, [level |-> "low", risk_level |-> "high"]),
            Event(1, "status", 2, [online |-> "no", status |-> "online", cpu |-> "1"]),
            [Event(1, "sensor", 1, [type |-> "fog"]) EXCEPT !.device = "edge-02"],
            LastWill,
            [Event(1, "track", 2, <<>>) EXCEPT !.valid = "no"],
            [Event(2, "track", 2, <<>>) EXCEPT !.valid = "not text"]}

\* A third alarm, for a list of two.
Third   == Event(2, "alarm", 3, [risk_level |-> "high"])
Alarms  == {m \in Message : m.kind = "alarm"}
AllSent == Traffic \cup {Third}

\* Two targets that raise an alarm in one frame.
OneFrame == {Event(0, "alarm", 1, [risk_level |-> "high"]),
             Event(1, "alarm", 1, [risk_level |-> "high"])}

\* One of two: all kinds of traffic, or alarms only and requests for the latest.
VARIABLE asked

MCInit == asked \in BOOLEAN /\ Init
MCNext == /\ UNCHANGED asked
          /\ \/ ~asked /\ \E m \in Message \ {Third} : OnMessage(m) \/ OnUndecodable(m)
             \/ asked /\ \E m \in Alarms : OnMessage(m)
             \/ asked /\ Serve
             \/ Ingest \/ Stop \/ EndLoop
MCSpec == MCInit /\ [][MCNext]_<<vars, asked>> /\ WF_vars(~stopped /\ Ingest)
=============================================================================
