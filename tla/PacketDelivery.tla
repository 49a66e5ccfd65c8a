--------------------------- MODULE PacketDelivery ---------------------------
(***************************************************************************)
(* What the cache of NetListener holds and what stop hands to the cache    *)
(* callback, read the way the callback reads it: walk packet_lengths and   *)
(* cut the bytes of packet_cache into packets. The cache implements        *)
(* PacketStore.                                                            *)
(***************************************************************************)
EXTENDS NetListener, Sums

\* A frame as the bytes recv delivers.
Bytes(f) == [b \in 1..f.len |-> f.id]

\* The first count lengths of the array, and the packets they cut a buffer into.
FirstLengths(lengths, count) == [i \in 1..count |-> lengths[i - 1]]

Cut(buffer, lengths, count) ==
  [i \in 1..count |->
     LET offset == Sum(FirstLengths(lengths, i - 1))
     IN [b \in 1..lengths[i - 1] |-> buffer[offset + b - 1]]]

LengthsOf(count) == FirstLengths(packet_lengths, count)
Decoded(count) == Cut(packet_cache, packet_lengths, count)

\* The limits in use; the store is closed without a buffer, and a clear empties it at
\* once.
Limit == [bytes |-> cache_size, packets |-> max_packets]
StoreLimit == IF packet_cache = NULL THEN [bytes |-> 0, packets |-> 0] ELSE Limit
StoreDropped == IF InClear THEN 0 ELSE dropped_packets

Store == INSTANCE PacketStore WITH
  Packets <- {Bytes(f) : f \in FrameSet},
  Limits  <- {[bytes |-> r.size, packets |-> PacketLimit(r.size)] : r \in Requests},
  limit   <- StoreLimit,
  stored  <- Decoded(packet_count),
  dropped <- StoreDropped

\* The byte buffer, the length array and the counters together behave as a bounded
\* store of whole packets in order of arrival, through every interleaving of
\* listener, stop and the threads that read or clear the cache.
ImplementsPacketStore == Store!Spec

Offers == [i \in DOMAIN offered |-> Bytes(offered[i])]

\* Unless a clear ran during the delivery, the callback gets exactly the frames
\* that fitted, intact and in order, and a byte count that is the sum of the
\* lengths it gets.
DeliveryFaithful ==
  pc[Api] = "callback" /\ ~raced =>
    /\ handed.count > 0
    /\ handed.total = Sum(LengthsOf(handed.count))
    /\ Decoded(handed.count) = Store!Kept(Offers, Limit)

\* The callback's arguments agree with each other: README.md:102-104 names them the
\* number of packets, the number of bytes and the length of each packet.
ArgumentsAgree ==
  pc[Api] = "callback" =>
    handed.count > 0 /\ handed.total = Sum(LengthsOf(handed.count))

\* A frame that recv returned in a caching session reaches the cache even when stop
\* is called meanwhile: the frames offered are the last ones received, none missing.
ReceivedIsOffered ==
  pc[Listener] \in {"loop", "recv", "exited"} /\ Caching =>
    \A i \in DOMAIN offered :
       /\ offered[i].id = arrived - Len(sockq) - Len(offered) + i
=============================================================================
