--------------------------- MODULE MCLiveMonitor ---------------------------
(* An instance of LiveMonitor for TLC. *)
EXTENDS LiveMonitor

Said(seq, type, stamp, about, named) ==
  [seq |-> seq, type |-> type, device |-> "d1", stamp |-> stamp, about |-> about,
   online |-> TRUE, named |-> named]

\* A track that is there before the page opens, an alert, a status that says that the
\* device is up where the page does not look, and an alert more than an hour later.
MCTraffic == <<Said(1, "track", 11, "t1", "online"), Said(2, "alert", 11, "critical", "online"),
               Said(3, "status", 12, None, "status"), Said(4, "alert", 15, "high", "online")>>
MCTicks == {<<4, 16>>}
MCMessage == {MCTraffic[k] : k \in DOMAIN MCTraffic}
============================================================================
