----------------------------- MODULE PacketStore -----------------------------
(***************************************************************************)
(* What the packet cache of dev/net_listener.c promises, without buffers,  *)
(* offsets, a mutex or threads: while it is open it keeps the packets it   *)
(* is offered, whole and in order; a packet beyond either limit is counted *)
(* and nothing else, and a later, smaller one may still be kept.           *)
(***************************************************************************)
EXTENDS Sums

CONSTANTS
  Packets,  \* what may be offered: sequences of bytes
  Limits    \* what it may be opened with: [bytes, packets]

VARIABLES limit, stored, dropped
vars == <<limit, stored, dropped>>

Closed == [bytes |-> 0, packets |-> 0]

Size(packets) == Sum([i \in DOMAIN packets |-> Len(packets[i])])

Fits(p, packets, l) ==
  Len(packets) < l.packets /\ Size(packets) + Len(p) <= l.bytes

\* What a store opened with limits l keeps of the packets it is offered in turn.
Kept(offers, l) ==
  LET kept[i \in 0..Len(offers)] ==
        IF i = 0 THEN <<>>
        ELSE IF Fits(offers[i], kept[i - 1], l) THEN Append(kept[i - 1], offers[i])
        ELSE kept[i - 1]
  IN kept[Len(offers)]

Init == limit = Closed /\ stored = <<>> /\ dropped = 0

Open(l) ==
  /\ limit = Closed /\ limit' = l
  /\ stored' = <<>> /\ dropped' = 0

Keep(p) ==
  /\ Fits(p, stored, limit)
  /\ stored' = Append(stored, p)
  /\ UNCHANGED <<limit, dropped>>

Drop(p) ==
  /\ limit # Closed /\ ~Fits(p, stored, limit)
  /\ dropped' = dropped + 1
  /\ UNCHANGED <<limit, stored>>

Clear ==
  /\ stored' = <<>> /\ dropped' = 0
  /\ UNCHANGED limit

Close ==
  /\ limit' = Closed
  /\ stored' = <<>> /\ dropped' = 0

Next ==
  \/ \E l \in Limits : Open(l)
  \/ \E p \in Packets : Keep(p) \/ Drop(p)
  \/ Clear \/ Close

Spec == Init /\ [][Next]_vars
=============================================================================
