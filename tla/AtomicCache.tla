---------------------------- MODULE AtomicCache ----------------------------
(***************************************************************************)
(* What OfflineEventCache promises to its callers: two files of cached     *)
(* events, changed one file at a time, each change applied to the content  *)
(* the file has at that moment.  Events are identified by their key        *)
(* (device_id, seq), the only thing the cache compares.                    *)
(***************************************************************************)
CONSTANTS Key,    \* deduplication keys of the events
          File    \* the persistent and the temporary file

VARIABLE content  \* content[f]: the keys of the events stored in file f

Init == content = [f \in File |-> {}]

\* append: the event's key joins one file.
Store(f, k) == content' = [content EXCEPT ![f] = @ \cup {k}]

\* remove_sent, applied to one of the two files.
Discard(f, S) == content' = [content EXCEPT ![f] = @ \ S]

\* clear, applied to one of the two files.
Empty(f) == content' = [content EXCEPT ![f] = {}]

Next == \E f \in File : \/ \E k \in Key : Store(f, k)
                        \/ \E S \in SUBSET Key : Discard(f, S)
                        \/ Empty(f)

Spec == Init /\ [][Next]_content
=============================================================================
