--------------------------- MODULE ListenerSession ---------------------------
(***************************************************************************)
(* NetListener seen by the callers of start and stop: its session as one   *)
(* of ListenerService. The session is there from the creation of the       *)
(* listener's thread to the end of stop's cleanup, and its request is what *)
(* the callback pointers and the cache's size say, never the argument of   *)
(* the latest start.                                                       *)
(***************************************************************************)
EXTENDS NetListener

Stage ==
  CASE pc[Api] = "callback" -> "delivering"
    [] pc[Api] \in {"clean", "stop_free"} -> "over"
    [] OTHER -> IF pc[Listener] # "none" \/ pc[Api] \in {"check", "args"}
                THEN "open" ELSE "closed"

InEffect == [packet_cb |-> user_cb, cache_cb |-> user_cache_cb,
             size |-> IF Caching THEN cache_size ELSE 0]

Installed == IF Stage = "closed" THEN NoCallback ELSE InEffect

RealtimeRequests == {r \in Requests : r.packet_cb # NoCallback}
CachedRequests == {r \in Requests : r.cache_cb # NoCallback}

Service == INSTANCE ListenerService
             WITH Realtime <- RealtimeRequests, Cached <- CachedRequests,
                  Nobody <- NoCallback,
                  installed <- Installed, stage <- Stage,
                  calling <- (pc[Listener] = "callback")

\* start and stop keep the promises the flows rely on: one session at a time with the
\* callbacks it was started with, the cache callback at most once and after the last
\* packet callback, nothing after the stop. Whatever fails, whoever else reads or clears.
ImplementsService == Service!Spec
=============================================================================
