---------------------------- MODULE MCNetListener ----------------------------
(***************************************************************************)
(* Small instances of NetListener. Caches of 3 and 6 bytes with one packet *)
(* per 2 bytes and at least 2 packets: in the small one both limits bind,  *)
(* frames of 1 and 2 bytes exhaust either first; the large one holds 3     *)
(* packets by BytesPerPacket.                                              *)
(***************************************************************************)
EXTENDS PacketDelivery, ListenerSession

CONSTANTS Realtime, CacheA, CacheB

RealtimeOnly == [packet_cb |-> Realtime, cache_cb |-> NoCallback, size |-> 0]
SmallCache == [packet_cb |-> NoCallback, cache_cb |-> CacheA, size |-> 3]
LargeCache == [packet_cb |-> Realtime, cache_cb |-> CacheB, size |-> 6]

AllRequests == {RealtimeOnly, SmallCache, LargeCache}
OneRequest == {SmallCache}
=============================================================================
