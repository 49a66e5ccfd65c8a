--------------------------- MODULE ListenerService ---------------------------
(***************************************************************************)
(* What start and stop of dev/net_listener.c promise to the flows that     *)
(* call them. One session at a time: a start installs a request or leaves  *)
(* the session there is alone. Callbacks are those of the installed        *)
(* request. The packet callback runs on the listener's thread; the cache   *)
(* callback runs at most once, inside the stop, when no packet callback    *)
(* can follow; no callback runs when the stop is over.                     *)
(*                                                                         *)
(* Module ListenerSession shows that NetListener implements it; module     *)
(* SingleBeam builds its listener from these actions.                      *)
(***************************************************************************)
CONSTANTS
  Requests,  \* what a start can be asked for
  Realtime,  \* the requests with a packet callback
  Cached,    \* the requests with a cache callback
  Nobody     \* no request: installed while the session is closed

VARIABLES
  installed,  \* the session's request
  stage,      \* the session: open, inside the cache callback, past it, or closed
  calling     \* a packet callback is running

service == <<installed, stage, calling>>

Init == installed = Nobody /\ stage = "closed" /\ calling = FALSE

\* A successful start. One that fails, or that finds a session open, changes nothing.
Install(r) ==
  /\ stage = "closed"
  /\ installed' = r /\ stage' = "open"
  /\ UNCHANGED calling

PacketCall ==
  /\ stage = "open" /\ installed \in Realtime
  /\ calling' = TRUE
  /\ UNCHANGED <<installed, stage>>

PacketReturn ==
  /\ calling /\ calling' = FALSE
  /\ UNCHANGED <<installed, stage>>

\* A stop: with a cache callback, or without when there is none or nothing to deliver.
Deliver ==
  /\ stage = "open" /\ ~calling /\ installed \in Cached
  /\ stage' = "delivering"
  /\ UNCHANGED <<installed, calling>>

Delivered ==
  /\ stage = "delivering" /\ stage' = "over"
  /\ UNCHANGED <<installed, calling>>

CloseQuietly ==
  /\ stage = "open" /\ ~calling
  /\ stage' = "over"
  /\ UNCHANGED <<installed, calling>>

Remove ==
  /\ stage = "over" /\ stage' = "closed"
  /\ installed' = Nobody
  /\ UNCHANGED calling

Next ==
  \/ \E r \in Requests : Install(r)
  \/ PacketCall \/ PacketReturn
  \/ Deliver \/ Delivered \/ CloseQuietly \/ Remove

Spec == Init /\ [][Next]_service
=============================================================================
