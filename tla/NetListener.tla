----------------------------- MODULE NetListener -----------------------------
(***************************************************************************)
(* dev/net_listener.c: the raw-socket listener and its packet cache.       *)
(*                                                                         *)
(* Threads: the caller of start and stop ("api"; core/sbeam.c has one),    *)
(* the thread that start creates and stop joins ("listener"), and Users,   *)
(* the threads that read the statistics or clear the cache at any time.    *)
(* The real-time callback may make those calls on the listener thread; it  *)
(* holds no lock there, so a user's step between two listener steps stands *)
(* for them too. net_listener_is_running changes nothing and has no action.*)
(*                                                                         *)
(* A step is a critical section of cache_mutex, or a part of one where     *)
(* code outside the mutex can see the difference, or the code between two  *)
(* blocking calls. A byte of the cache is labelled by the frame it is of.  *)
(***************************************************************************)
EXTENDS Integers, Sequences

CONSTANTS
  Users,          \* threads calling get_cache_stats and clear_cache
  Requests,       \* arguments that start is called with
  Lengths,        \* lengths of the frames on the wire, at most NET_BUFFER_SIZE
  MaxFrames,      \* bound: frames arriving during one session
  BytesPerPacket, \* 1024 in the code
  MinPackets,     \* 1000 in the code
  Word,           \* 2^32: the first value a uint32_t cannot hold
  NoCallback      \* a NULL function pointer

Api == "api"
Listener == "listener"
Free == "free"
Threads == {Api, Listener} \cup Users

ASSUME UsersAssumption == Users \cap {Api, Listener, Free} = {}

ASSUME NumbersAssumption ==
  /\ MaxFrames \in Nat /\ MinPackets \in Nat \ {0}
  /\ BytesPerPacket \in Nat \ {0} /\ Word \in Nat
  /\ Lengths \subseteq 1..(Word - 1)

\* core/sbeam.c passes either a callback and a size above 0, or NULL and 0;
\* core/sbeam.h:166 bounds the size by 50 MB, far from the end of a uint32_t.
ASSUME RequestFields ==
  \A r \in Requests :
     r = [packet_cb |-> r.packet_cb, cache_cb |-> r.cache_cb, size |-> r.size]
ASSUME RequestsAssumption ==
  \A r \in Requests :
     /\ r.size \in Nat
     /\ (r.cache_cb = NoCallback) <=> (r.size = 0)
     /\ \A n \in Lengths : r.size + n < Word

VARIABLES
  \* the statics of net_listener.c
  running, sockfd, user_cb, user_cache_cb, packet_cache, packet_lengths,
  cache_size, cache_used, packet_count, max_packets, total_bytes,
  dropped_packets, cache_mutex,
  \* locals: program counters, arguments and result of start, the listener's
  \* buffer, and the arguments of the cache callback as stop reads them
  pc, request, result, frame, handed,
  \* the kernel: the interface's promiscuous flag, the socket's receive queue
  promisc, sockq, arrived,
  \* history: the frames add_packet_to_cache has finished with since the cache
  \* was last emptied; whether a clear overlapped stop's delivery
  offered, raced

buffers  == <<packet_cache, packet_lengths, cache_size, max_packets>>
counters == <<cache_used, packet_count, total_bytes, dropped_packets, offered>>
session  == <<running, sockfd, user_cb, user_cache_cb, promisc>>
call     == <<request, result>>
delivery == <<handed, raced>>
wire     == <<sockq, arrived, frame>>
vars == <<buffers, counters, session, call, delivery, wire, cache_mutex, pc>>

FrameSet == [id : 1..MaxFrames, len : Lengths]
Junk == 0                              \* a byte or a length never written
NoFrame == [id |-> Junk, len |-> Junk] \* the listener's buffer before recv
Unread == -1                           \* an argument stop has not read yet
NoRequest == [packet_cb |-> NoCallback, cache_cb |-> NoCallback, size |-> 0]

\* A null pointer is memory of no cells.
NULL == [i \in {} |-> Junk]
Malloc(n) == [i \in 0..(n - 1) |-> Junk]

\* Thread t goes from one label to another. A Test changes nothing else; Lock
\* takes cache_mutex, Unlock gives it back.
data == <<buffers, counters, session, call, delivery, wire>>
Move(t, from, to) == pc[t] = from /\ pc' = [pc EXCEPT ![t] = to]
Test(t, from, to) == Move(t, from, to) /\ UNCHANGED <<data, cache_mutex>>
Lock(t, from, to) ==
  Move(t, from, to) /\ cache_mutex = Free /\ cache_mutex' = t /\ UNCHANGED data
Unlock(t, from, to) == Move(t, from, to) /\ cache_mutex' = Free

\* The sum of two uint32_t.
Add32(a, b) == IF a + b < Word THEN a + b ELSE a + b - Word

EmptyCounters ==
  /\ cache_used' = 0 /\ packet_count' = 0 /\ total_bytes' = 0
  /\ dropped_packets' = 0 /\ offered' = <<>>

ClosedCache ==
  /\ packet_cache' = NULL /\ packet_lengths' = NULL /\ cache_size' = 0
  /\ EmptyCounters
  /\ UNCHANGED max_packets

Init ==
  /\ running = FALSE /\ sockfd = "none" /\ promisc = FALSE
  /\ user_cb = NoCallback /\ user_cache_cb = NoCallback
  /\ packet_cache = NULL /\ packet_lengths = NULL
  /\ cache_size = 0 /\ max_packets = 0
  /\ cache_used = 0 /\ packet_count = 0 /\ total_bytes = 0
  /\ dropped_packets = 0 /\ offered = <<>>
  /\ cache_mutex = Free
  /\ pc = [t \in Threads |-> IF t = Listener THEN "none" ELSE "idle"]
  /\ request = NoRequest /\ result = 0 /\ frame = NoFrame
  /\ handed = [count |-> Unread, total |-> Unread] /\ raced = FALSE
  /\ sockq = <<>> /\ arrived = 0

-----------------------------------------------------------------------------
(* net_listener_start_with_cache *)

\* Mutated StartWhileRunning: the callback is assigned before running is tested.
InstallWhileRunning(r) ==
  /\ pc[Api] = "idle" /\ running
  /\ request' = r /\ result' = 0
  /\ user_cache_cb' = r.cache_cb
  /\ UNCHANGED <<buffers, counters, running, sockfd, user_cb, promisc, delivery, wire,
                 cache_mutex, pc>>

\* A start while the listener runs returns 0 and does nothing else.
StartWhileRunning(r) ==
  /\ pc[Api] = "idle" /\ running
  /\ request' = r /\ result' = 0
  /\ UNCHANGED <<buffers, counters, session, delivery, wire, cache_mutex, pc>>

StartBegin(r) ==
  /\ ~running
  /\ Move(Api, "idle",
          IF r.cache_cb # NoCallback /\ r.size > 0 THEN "init" ELSE "socket")
  /\ request' = r
  /\ user_cache_cb' = r.cache_cb
  /\ UNCHANGED <<buffers, counters, running, sockfd, user_cb, promisc, result,
                 delivery, wire, cache_mutex>>

InitLock == Lock(Api, "init", "malloc")

PacketLimit(size) ==
  LET n == size \div BytesPerPacket IN IF n < MinPackets THEN MinPackets ELSE n

InitCache ==
  /\ Unlock(Api, "malloc", "socket")
  /\ max_packets' = PacketLimit(request.size)
  /\ cache_size' = request.size
  /\ packet_cache' = Malloc(cache_size')
  /\ packet_lengths' = Malloc(max_packets')
  /\ EmptyCounters
  /\ UNCHANGED <<session, call, delivery, wire>>

\* Either malloc fails: start returns -1 at once, cache_size and user_cache_cb
\* keep their new values.
InitCacheFails ==
  /\ Unlock(Api, "malloc", "idle")
  /\ max_packets' = PacketLimit(request.size)
  /\ cache_size' = request.size
  /\ packet_cache' = NULL
  /\ packet_lengths' \in {packet_lengths, NULL}
  /\ result' = -1
  /\ UNCHANGED <<counters, session, request, delivery, wire>>

OpenSocket ==
  /\ Move(Api, "socket", "spawn")
  /\ sockfd' = "open" /\ promisc' = TRUE
  /\ user_cb' = request.packet_cb
  /\ running' = TRUE
  /\ UNCHANGED <<buffers, counters, user_cache_cb, call, delivery, wire, cache_mutex>>

\* socket() or SIOCSIFFLAGS fails, or a call after SIOCSIFFLAGS has switched the
\* interface to promiscuous mode; the descriptor is closed either way.
OpenSocketFails ==
  /\ Move(Api, "socket", "undo")
  /\ sockfd' = "none" /\ promisc' \in {promisc, TRUE}
  /\ UNCHANGED <<buffers, counters, running, user_cb, user_cache_cb, call,
                 delivery, wire, cache_mutex>>

\* pthread_create; the new thread starts with running already set.
Spawn ==
  /\ pc[Api] = "spawn"
  /\ pc' = [pc EXCEPT ![Api] = "idle", ![Listener] = "loop"]
  /\ result' = 0
  /\ UNCHANGED <<buffers, counters, session, request, delivery, wire, cache_mutex>>

SpawnFails ==
  /\ Move(Api, "spawn", "undo")
  /\ running' = FALSE
  /\ UNCHANGED <<buffers, counters, sockfd, user_cb, user_cache_cb, promisc, call,
                 delivery, wire, cache_mutex>>

UndoLock == Lock(Api, "undo", "undo_free")

\* The cleanup of a failed start; after a failed pthread_create the descriptor is
\* closed but its number stays in sockfd.
Undo ==
  /\ Unlock(Api, "undo_free", "idle")
  /\ ClosedCache
  /\ sockfd' = IF sockfd = "open" THEN "closed" ELSE sockfd
  /\ sockq' = <<>> /\ arrived' = 0
  /\ result' = -1
  /\ UNCHANGED <<running, user_cb, user_cache_cb, promisc, request, delivery, frame>>

-----------------------------------------------------------------------------
(* net_listener_stop_with_cache; it returns at once when nothing runs *)

\* Mutated StopBegin: the cache is delivered before the thread has been joined.
DeliverBeforeJoin ==
  /\ Move(Api, "idle", "check") /\ running
  /\ running' = FALSE
  /\ UNCHANGED <<buffers, counters, sockfd, user_cb, user_cache_cb, promisc, call,
                 delivery, wire, cache_mutex>>

StopBegin ==
  /\ Move(Api, "idle", "join") /\ running
  /\ running' = FALSE
  /\ UNCHANGED <<buffers, counters, sockfd, user_cb, user_cache_cb, promisc, call,
                 delivery, wire, cache_mutex>>

\* Mutated Join: the thread was detached and nobody waits for it.
CloseWithoutJoin ==
  /\ Move(Api, "join", "check")
  /\ promisc' \in {promisc, FALSE}
  /\ sockfd' = "none" /\ sockq' = <<>> /\ arrived' = 0
  /\ UNCHANGED <<buffers, counters, running, user_cb, user_cache_cb, call, delivery,
                 frame, cache_mutex>>

\* pthread_join ends the listener and its buffer, then the socket goes with
\* whatever is left in its queue.
Join ==
  /\ pc[Api] = "join" /\ pc[Listener] = "exited"
  /\ pc' = [pc EXCEPT ![Api] = "check", ![Listener] = "none"]
  /\ promisc' \in {promisc, FALSE}
  /\ sockfd' = "none" /\ sockq' = <<>> /\ arrived' = 0 /\ frame' = NoFrame
  /\ UNCHANGED <<buffers, counters, running, user_cb, user_cache_cb, call, delivery,
                 cache_mutex>>

\* The condition and the arguments of the cache callback are read without
\* cache_mutex, the two counters in an order the language leaves open.
StopCheck ==
  Test(Api, "check",
       IF user_cache_cb # NoCallback /\ packet_cache # NULL /\ packet_count > 0
       THEN "args" ELSE "clean")

ReadArgument ==
  /\ \/ /\ handed.count = Unread
        /\ handed' = [handed EXCEPT !.count = packet_count]
     \/ /\ handed.total = Unread
        /\ handed' = [handed EXCEPT !.total = total_bytes]
  /\ Move(Api, "args",
          IF Unread \in {handed'.count, handed'.total} THEN "args" ELSE "callback")
  /\ UNCHANGED <<buffers, counters, session, call, raced, wire, cache_mutex>>

\* user_cache_cb returns.
CacheCallback == Test(Api, "callback", "clean")

StopLock == Lock(Api, "clean", "stop_free")

StopCleanup ==
  /\ Unlock(Api, "stop_free", "idle")
  /\ ClosedCache
  /\ user_cache_cb' = NoCallback
  /\ handed' = [count |-> Unread, total |-> Unread] /\ raced' = FALSE
  /\ UNCHANGED <<running, sockfd, user_cb, promisc, call, wire>>

-----------------------------------------------------------------------------
(* listener_loop and add_packet_to_cache *)

\* Mutated ListenerLoop: the compiler reads running once, were it not volatile.
LoopWithoutTest == Test(Listener, "loop", "recv")

ListenerLoop == Test(Listener, "loop", IF running THEN "recv" ELSE "exited")

\* Mutated AfterCallback: a frame received while stop waits is not cached.
CacheOnlyWhileRunning ==
  IF user_cache_cb # NoCallback /\ running THEN "add" ELSE "loop"

AfterCallback == IF user_cache_cb # NoCallback THEN "add" ELSE "loop"

Recv ==
  /\ sockq # <<>>
  /\ Move(Listener, "recv",
          IF user_cb # NoCallback THEN "callback" ELSE AfterCallback)
  /\ frame' = Head(sockq) /\ sockq' = Tail(sockq)
  /\ UNCHANGED <<buffers, counters, session, call, delivery, arrived, cache_mutex>>

\* recv returns an error (the interface went down, a signal), then usleep(1000).
RecvFails == Test(Listener, "recv", "loop")

PacketCallback == Test(Listener, "callback", AfterCallback)

AddLock == Lock(Listener, "add", "room")

\* Mutated HasRoom: one packet too many; a full cache that refuses its last byte.
HasRoomPastCount(length) ==
  packet_count <= max_packets /\ Add32(cache_used, length) <= cache_size
HasRoomButLastByte(length) ==
  packet_count < max_packets /\ Add32(cache_used, length) < cache_size

HasRoom(length) ==
  /\ packet_count < max_packets
  /\ Add32(cache_used, length) <= cache_size

AddDrop ==
  /\ Unlock(Listener, "room", "loop") /\ ~HasRoom(frame.len)
  /\ dropped_packets' = dropped_packets + 1
  /\ offered' = Append(offered, frame)
  /\ UNCHANGED <<buffers, cache_used, packet_count, total_bytes, session, call,
                 delivery, wire>>

\* The bytes that memcpy writes.
Target == cache_used .. (cache_used + frame.len - 1)

\* Mutated AddStore: records where the packet ends.
StoreEndOffset ==
  /\ Move(Listener, "room", "account") /\ HasRoom(frame.len)
  /\ packet_cache' = [b \in DOMAIN packet_cache |->
                        IF b \in Target THEN frame.id ELSE packet_cache[b]]
  /\ packet_lengths' = [packet_lengths EXCEPT ![packet_count] = cache_used + frame.len]
  /\ UNCHANGED <<cache_size, max_packets, counters, session, call, delivery, wire,
                 cache_mutex>>

AddStore ==
  /\ Move(Listener, "room", "account") /\ HasRoom(frame.len)
  /\ packet_cache' = [b \in DOMAIN packet_cache |->
                        IF b \in Target THEN frame.id ELSE packet_cache[b]]
  /\ packet_lengths' = [packet_lengths EXCEPT ![packet_count] = frame.len]
  /\ UNCHANGED <<cache_size, max_packets, counters, session, call, delivery, wire,
                 cache_mutex>>

AddAccount ==
  /\ Unlock(Listener, "account", "loop")
  /\ cache_used' = Add32(cache_used, frame.len)
  /\ total_bytes' = total_bytes + frame.len
  /\ packet_count' = packet_count + 1
  /\ offered' = Append(offered, frame)
  /\ UNCHANGED <<buffers, dropped_packets, session, call, delivery, wire>>

\* The kernel queues a frame for the bound socket (any Ethernet frame: ETH_P_ALL).
Arrive(n) ==
  /\ sockfd = "open" /\ arrived < MaxFrames
  /\ arrived' = arrived + 1
  /\ sockq' = Append(sockq, [id |-> arrived', len |-> n])
  /\ UNCHANGED <<buffers, counters, session, call, delivery, frame, cache_mutex, pc>>

-----------------------------------------------------------------------------
(* net_listener_get_cache_stats and net_listener_clear_cache *)

\* Mutated StatsLock: reads without the mutex.
StatsWithoutLock(u) == Test(u, "idle", "stats")

\* get_cache_stats copies five statics into the caller's structure.
StatsLock(u) == Lock(u, "idle", "stats")

GetStats(u) == Unlock(u, "stats", "idle") /\ UNCHANGED data

ClearLock(u) == Lock(u, "idle", "clear")

\* stop reads packet_count and total_bytes without the mutex: the assignments are
\* two steps. Whether stop was between its check and the end of its callback:
Delivering == pc[Api] \in {"args", "callback"}

\* Mutated ClearUsed: the next packet goes behind the old ones.
ClearCountOnly(u) ==
  /\ Move(u, "clear", "clear_rest")
  /\ packet_count' = 0
  /\ raced' = (raced \/ Delivering)
  /\ UNCHANGED <<buffers, cache_used, total_bytes, dropped_packets, offered, session,
                 call, handed, wire, cache_mutex>>

ClearUsed(u) ==
  /\ Move(u, "clear", "clear_rest")
  /\ cache_used' = 0 /\ packet_count' = 0
  /\ raced' = (raced \/ Delivering)
  /\ UNCHANGED <<buffers, total_bytes, dropped_packets, offered, session, call, handed,
                 wire, cache_mutex>>

\* Mutated ClearRest: forgets the drops.
ClearKeepingDrops(u) ==
  /\ Unlock(u, "clear_rest", "idle")
  /\ total_bytes' = 0 /\ offered' = <<>>
  /\ raced' = (raced \/ Delivering)
  /\ UNCHANGED <<buffers, cache_used, packet_count, dropped_packets, session, call,
                 handed, wire>>

ClearRest(u) ==
  /\ Unlock(u, "clear_rest", "idle")
  /\ total_bytes' = 0 /\ dropped_packets' = 0 /\ offered' = <<>>
  /\ raced' = (raced \/ Delivering)
  /\ UNCHANGED <<buffers, cache_used, packet_count, session, call, handed, wire>>

-----------------------------------------------------------------------------
StartCall == \E r \in Requests : StartWhileRunning(r) \/ StartBegin(r)

ApiLock == InitLock \/ UndoLock \/ StopLock

ApiStep ==
  \/ InitCache \/ InitCacheFails \/ OpenSocket \/ OpenSocketFails
  \/ Spawn \/ SpawnFails \/ Undo
  \/ Join \/ StopCheck \/ ReadArgument \/ CacheCallback \/ StopCleanup

ListenerStep ==
  ListenerLoop \/ PacketCallback \/ AddDrop \/ AddStore \/ AddAccount

RecvReturns == Recv \/ RecvFails

UserLock(u) == StatsLock(u) \/ ClearLock(u)
UserStep(u) == GetStats(u) \/ ClearUsed(u) \/ ClearRest(u)

Next ==
  \/ StartCall \/ StopBegin \/ ApiLock \/ ApiStep
  \/ RecvReturns \/ AddLock \/ ListenerStep
  \/ \E n \in Lengths : Arrive(n)
  \/ \E u \in Users : UserLock(u) \/ UserStep(u)

Spec == Init /\ [][Next]_vars

\* A thread that can run does run, and a thread waiting for the mutex gets it in
\* the end even if others keep taking it: users pause between two calls
\* (app/fpga_udp_test.c:241 sleeps for 5 s) and the listener between two frames.
\* Nobody has to call start or stop, or to send a frame: recv has no timeout.
Scheduling ==
  /\ WF_vars(ApiStep) /\ SF_vars(ApiLock)
  /\ WF_vars(ListenerStep) /\ SF_vars(AddLock)
  /\ \A u \in Users : WF_vars(UserStep(u))

FairSpec == Spec /\ Scheduling

\* The same on an interface on which recv keeps returning.
BusySpec == FairSpec /\ WF_vars(RecvReturns)

-----------------------------------------------------------------------------
ApiLabels == {"idle", "init", "malloc", "socket", "spawn", "undo", "undo_free",
              "join", "check", "args", "callback", "clean", "stop_free"}
ListenerLabels == {"none", "loop", "recv", "callback", "add", "room", "account",
                   "exited"}
UserLabels == {"idle", "stats", "clear", "clear_rest"}
Callbacks == {NoCallback} \cup {r.packet_cb : r \in Requests}
                          \cup {r.cache_cb : r \in Requests}

\* The type invariant; a cell of packet_lengths holds the length of one frame, and
\* each allocation has the size that cache_size or max_packets says.
ControlTypeOK ==
  /\ pc \in [Threads -> ApiLabels \cup ListenerLabels \cup UserLabels]
  /\ pc[Api] \in ApiLabels /\ pc[Listener] \in ListenerLabels
  /\ \A u \in Users : pc[u] \in UserLabels
  /\ cache_mutex \in Threads \cup {Free}

SessionTypeOK ==
  /\ running \in BOOLEAN /\ promisc \in BOOLEAN
  /\ sockfd \in {"none", "open", "closed"}
  /\ user_cb \in Callbacks /\ user_cache_cb \in Callbacks
  /\ request \in Requests \cup {NoRequest} /\ result \in {0, -1}
  /\ handed \in [count : Nat \cup {Unread}, total : Nat \cup {Unread}]
  /\ raced \in BOOLEAN

CacheTypeOK ==
  /\ cache_size \in Nat /\ max_packets \in Nat
  /\ packet_cache \in {NULL} \cup [0..(cache_size - 1) -> 0..MaxFrames]
  /\ packet_lengths \in {NULL} \cup [0..(max_packets - 1) -> Lengths \cup {Junk}]
  /\ cache_used \in Nat /\ packet_count \in Nat
  /\ total_bytes \in Nat /\ dropped_packets \in Nat
  /\ offered \in Seq(FrameSet)

WireTypeOK ==
  /\ sockq \in Seq(FrameSet) /\ arrived \in 0..MaxFrames
  /\ frame \in FrameSet \cup {NoFrame}

TypeOK == ControlTypeOK /\ SessionTypeOK /\ CacheTypeOK /\ WireTypeOK

-----------------------------------------------------------------------------
(* What must hold of the session and of the cache's books *)

InClear == \E u \in Users : pc[u] = "clear_rest"

\* The books balance whenever no clear is half done: the cache's bytes are the
\* bytes accounted to its packets, both limits are kept, and each frame handed to
\* add_packet_to_cache since the cache was last emptied is a cached packet or a
\* counted drop. stop and every thread that takes a snapshot rely on it.
BooksBalance ==
  ~InClear => /\ cache_used = total_bytes
              /\ cache_used <= cache_size /\ packet_count <= max_packets
              /\ packet_count + dropped_packets = Len(offered)

\* get_cache_stats copies the five counters while they balance: no thread changes
\* them under it.
SnapshotConsistent ==
  \A u \in Users :
     pc[u] = "stats" =>
       /\ cache_mutex = u
       /\ ~InClear
       /\ pc[Listener] \notin {"room", "account"}
       /\ pc[Api] \notin {"malloc", "undo_free", "stop_free"}

Caching == user_cache_cb # NoCallback

\* The listener thread lives strictly inside its session: while it exists, the
\* socket it receives from is open and, when it caches, both buffers are allocated
\* with the sizes that the limits in use say. Nothing is freed or closed under it.
ListenerInsideSession ==
  pc[Listener] # "none" =>
    /\ sockfd = "open"
    /\ Caching => /\ DOMAIN packet_cache = 0..(cache_size - 1)
                  /\ DOMAIN packet_lengths = 0..(max_packets - 1)

\* When add_packet_to_cache has found room, memcpy and the length it records stay
\* inside the two allocations, which follow different limits.
StoreInBounds ==
  pc[Listener] = "room" /\ HasRoom(frame.len) =>
    Target \subseteq DOMAIN packet_cache /\ packet_count \in DOMAIN packet_lengths

\* From a successful start to its stop nothing redirects the session: its socket,
\* callbacks and limits stay, whatever start is called with meanwhile.
SessionFixed ==
  [][running /\ running' =>
       UNCHANGED <<sockfd, user_cb, user_cache_cb, cache_size, max_packets>>]_vars

\* A stop returns.
StopReturns == pc[Api] = "join" ~> pc[Api] = "idle"
=============================================================================
