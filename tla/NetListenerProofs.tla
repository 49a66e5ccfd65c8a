-------------------------- MODULE NetListenerProofs --------------------------
(***************************************************************************)
(* Proofs about NetListener for any threads, requests, frame lengths and   *)
(* bounds that satisfy the assumptions: types, the mutex, the listener's   *)
(* session, and the cache's books.                                         *)
(***************************************************************************)
EXTENDS NetListener, SequenceTheorems, TLAPS

-----------------------------------------------------------------------------
(* The inductive invariant *)

\* The labels between a lock and its unlock.
Critical == {"malloc", "undo_free", "stop_free", "room", "account",
             "stats", "clear", "clear_rest"}

\* The mutex is held by the thread inside a critical section and by no other.
MutexInv == \A t \in Threads : pc[t] \in Critical <=> cache_mutex = t

\* When running is set, and when the listener thread exists.
LifeInv ==
  /\ running => pc[Api] \in {"idle", "spawn"} /\ sockfd = "open"
  /\ pc[Api] = "spawn" => running
  /\ pc[Api] = "join" => sockfd = "open"
  /\ pc[Listener] # "none" <=> pc[Api] = "join" \/ (pc[Api] = "idle" /\ running)
  /\ pc[Api] \in {"init", "malloc", "socket", "spawn"} => request \in Requests

\* What start has allocated, from the end of init_cache to stop's cleanup.
Idle == pc[Api] \in {"init", "malloc"} \/ (pc[Api] = "idle" /\ ~running)
BuffersInv ==
  /\ Idle => packet_cache = NULL /\ packet_lengths = NULL
  /\ Caching /\ (running \/ pc[Api] \in {"socket", "join"}) =>
       /\ DOMAIN packet_cache = 0..(cache_size - 1)
       /\ DOMAIN packet_lengths = 0..(max_packets - 1)

\* Adding a frame's length to a cache that is full does not leave a uint32_t.
WidthInv == \A n \in Lengths : cache_size + n < Word

\* The books, also while a clear is half done and before init_cache sets limits.
BooksInv ==
  /\ BooksBalance
  /\ InClear => cache_used = 0 /\ packet_count = 0
  /\ Idle => cache_used = 0 /\ packet_count = 0
  /\ cache_used <= cache_size

\* What the listener carries from recv to the end of add_packet_to_cache.
FrameInv ==
  /\ pc[Listener] \in {"callback", "add", "room", "account"} => frame \in FrameSet
  /\ pc[Listener] \in {"add", "room", "account"} => Caching
  /\ pc[Listener] = "account" => HasRoom(frame.len)

IInv ==
  TypeOK /\ MutexInv /\ LifeInv /\ BuffersInv /\ WidthInv /\ BooksInv /\ FrameInv

-----------------------------------------------------------------------------
(* Each part of the invariant is kept by every step *)

\* A frame's length added to a cache within its size does not wrap around.
LEMMA NoWrap ==
  ASSUME NEW n \in Lengths, WidthInv, cache_used \in Nat, cache_size \in Nat,
         cache_used <= cache_size
  PROVE  n \in Nat /\ Add32(cache_used, n) = cache_used + n
<1>1. n \in Nat /\ cache_size + n < Word /\ Word \in Nat
  BY NumbersAssumption DEF WidthInv
<1> QED
  BY <1>1 DEF Add32

USE UsersAssumption, NumbersAssumption, RequestsAssumption
USE DEF Move, Test, Lock, Unlock, data, buffers, counters, session, call, delivery,
        wire, Threads, Api, Listener, Free

\* Threads move among their own labels.
LEMMA ControlTypeStep == IInv /\ [Next]_vars => ControlTypeOK'
<1> SUFFICES ASSUME IInv, [Next]_vars PROVE ControlTypeOK'
  OBVIOUS
<1> USE DEF IInv, TypeOK, ControlTypeOK, AfterCallback,
            ApiLabels, ListenerLabels, UserLabels
<1>1. CASE StartCall
  BY <1>1 DEF StartCall, StartWhileRunning, StartBegin
<1>2. CASE StopBegin
  BY <1>2 DEF StopBegin
<1>3. CASE ApiLock
  BY <1>3 DEF ApiLock, InitLock, UndoLock, StopLock
<1>4. CASE InitCache
  BY <1>4 DEF InitCache
<1>5. CASE InitCacheFails
  BY <1>5 DEF InitCacheFails
<1>6. CASE OpenSocket
  BY <1>6 DEF OpenSocket
<1>7. CASE OpenSocketFails
  BY <1>7 DEF OpenSocketFails
<1>8. CASE Spawn
  BY <1>8 DEF Spawn
<1>9. CASE SpawnFails
  BY <1>9 DEF SpawnFails
<1>10. CASE Undo
  BY <1>10 DEF Undo
<1>11. CASE Join
  BY <1>11 DEF Join
<1>12. CASE StopCheck \/ CacheCallback
  BY <1>12 DEF StopCheck, CacheCallback
<1>13. CASE ReadArgument
  BY <1>13 DEF ReadArgument
<1>14. CASE StopCleanup
  BY <1>14 DEF StopCleanup
<1>15. CASE ListenerLoop \/ RecvFails \/ PacketCallback
  BY <1>15 DEF ListenerLoop, RecvFails, PacketCallback
<1>16. CASE Recv
  BY <1>16 DEF Recv
<1>17. CASE AddLock
  BY <1>17 DEF AddLock
<1>18. CASE AddDrop
  BY <1>18 DEF AddDrop
<1>19. CASE AddStore
  BY <1>19 DEF AddStore
<1>20. CASE AddAccount
  BY <1>20 DEF AddAccount
<1>21. ASSUME NEW n \in Lengths, Arrive(n) PROVE ControlTypeOK'
  BY <1>21 DEF Arrive
<1>22. ASSUME NEW u \in Users, UserLock(u) PROVE ControlTypeOK'
  BY <1>22 DEF UserLock, StatsLock, ClearLock
<1>23. ASSUME NEW u \in Users, GetStats(u) PROVE ControlTypeOK'
  BY <1>23 DEF GetStats
<1>24. ASSUME NEW u \in Users, ClearUsed(u) PROVE ControlTypeOK'
  BY <1>24 DEF ClearUsed
<1>25. ASSUME NEW u \in Users, ClearRest(u) PROVE ControlTypeOK'
  BY <1>25 DEF ClearRest
<1>26. CASE UNCHANGED vars
  BY <1>26 DEF vars
<1> QED
  BY <1>1, <1>2, <1>3, <1>4, <1>5, <1>6, <1>7, <1>8, <1>9, <1>10, <1>11, <1>12, <1>13,
     <1>14, <1>15, <1>16, <1>17, <1>18, <1>19, <1>20, <1>21, <1>22, <1>23, <1>24, <1>25, <1>26
  DEF Next, ApiStep, ListenerStep, RecvReturns, UserStep

\* A thread enters a critical section by taking a free mutex and leaves by giving it
\* back.
LEMMA MutexStep == IInv /\ [Next]_vars => MutexInv'
<1> SUFFICES ASSUME IInv, [Next]_vars PROVE MutexInv'
  OBVIOUS
<1> USE DEF IInv, TypeOK, ControlTypeOK, MutexInv, Critical,
            AfterCallback, ApiLabels, ListenerLabels, UserLabels
<1>1. CASE StartCall
  BY <1>1 DEF StartCall, StartWhileRunning, StartBegin
<1>2. CASE StopBegin
  BY <1>2 DEF StopBegin
<1>3. CASE ApiLock
  BY <1>3 DEF ApiLock, InitLock, UndoLock, StopLock
<1>4. CASE InitCache
  BY <1>4 DEF InitCache
<1>5. CASE InitCacheFails
  BY <1>5 DEF InitCacheFails
<1>6. CASE OpenSocket
  BY <1>6 DEF OpenSocket
<1>7. CASE OpenSocketFails
  BY <1>7 DEF OpenSocketFails
<1>8. CASE Spawn
  <2>1. pc[Listener] = "none"
    BY <1>8 DEF Spawn, LifeInv
  <2> QED
    BY <1>8, <2>1 DEF Spawn
<1>9. CASE SpawnFails
  BY <1>9 DEF SpawnFails
<1>10. CASE Undo
  BY <1>10 DEF Undo
<1>11. CASE Join
  BY <1>11 DEF Join
<1>12. CASE StopCheck \/ CacheCallback
  BY <1>12 DEF StopCheck, CacheCallback
<1>13. CASE ReadArgument
  BY <1>13 DEF ReadArgument
<1>14. CASE StopCleanup
  BY <1>14 DEF StopCleanup
<1>15. CASE ListenerLoop \/ RecvFails \/ PacketCallback
  BY <1>15 DEF ListenerLoop, RecvFails, PacketCallback
<1>16. CASE Recv
  BY <1>16 DEF Recv
<1>17. CASE AddLock
  BY <1>17 DEF AddLock
<1>18. CASE AddDrop
  BY <1>18 DEF AddDrop
<1>19. CASE AddStore
  BY <1>19 DEF AddStore
<1>20. CASE AddAccount
  BY <1>20 DEF AddAccount
<1>21. ASSUME NEW n \in Lengths, Arrive(n) PROVE MutexInv'
  BY <1>21 DEF Arrive
<1>22. ASSUME NEW u \in Users, UserLock(u) PROVE MutexInv'
  BY <1>22 DEF UserLock, StatsLock, ClearLock
<1>23. ASSUME NEW u \in Users, GetStats(u) PROVE MutexInv'
  <2>1. /\ cache_mutex = u /\ cache_mutex' = Free
        /\ pc' = [pc EXCEPT ![u] = "idle"]
    BY <1>23 DEF GetStats
  <2> QED
    BY <2>1
<1>24. ASSUME NEW u \in Users, ClearUsed(u) PROVE MutexInv'
  BY <1>24 DEF ClearUsed
<1>25. ASSUME NEW u \in Users, ClearRest(u) PROVE MutexInv'
  BY <1>25 DEF ClearRest
<1>26. CASE UNCHANGED vars
  BY <1>26 DEF vars
<1> QED
  BY <1>1, <1>2, <1>3, <1>4, <1>5, <1>6, <1>7, <1>8, <1>9, <1>10, <1>11, <1>12, <1>13,
     <1>14, <1>15, <1>16, <1>17, <1>18, <1>19, <1>20, <1>21, <1>22, <1>23, <1>24, <1>25, <1>26
  DEF Next, ApiStep, ListenerStep, RecvReturns, UserStep

\* start creates the listener thread with its socket open, stop outlives it.
LEMMA LifeStep == IInv /\ [Next]_vars => LifeInv'
<1> SUFFICES ASSUME IInv, [Next]_vars PROVE LifeInv'
  OBVIOUS
<1> USE DEF IInv, TypeOK, ControlTypeOK, LifeInv, AfterCallback,
            ApiLabels, ListenerLabels, UserLabels
<1>1. CASE StartCall
  BY <1>1 DEF StartCall, StartWhileRunning, StartBegin
<1>2. CASE StopBegin
  BY <1>2 DEF StopBegin
<1>3. CASE ApiLock
  BY <1>3 DEF ApiLock, InitLock, UndoLock, StopLock
<1>4. CASE InitCache
  BY <1>4 DEF InitCache
<1>5. CASE InitCacheFails
  BY <1>5 DEF InitCacheFails
<1>6. CASE OpenSocket
  BY <1>6 DEF OpenSocket
<1>7. CASE OpenSocketFails
  BY <1>7 DEF OpenSocketFails
<1>8. CASE Spawn
  BY <1>8 DEF Spawn
<1>9. CASE SpawnFails
  BY <1>9 DEF SpawnFails
<1>10. CASE Undo
  BY <1>10 DEF Undo
<1>11. CASE Join
  BY <1>11 DEF Join
<1>12. CASE StopCheck \/ CacheCallback
  BY <1>12 DEF StopCheck, CacheCallback
<1>13. CASE ReadArgument
  BY <1>13 DEF ReadArgument
<1>14. CASE StopCleanup
  BY <1>14 DEF StopCleanup
<1>15. CASE ListenerLoop \/ RecvFails \/ PacketCallback
  BY <1>15 DEF ListenerLoop, RecvFails, PacketCallback
<1>16. CASE Recv
  BY <1>16 DEF Recv
<1>17. CASE AddLock
  BY <1>17 DEF AddLock
<1>18. CASE AddDrop
  BY <1>18 DEF AddDrop
<1>19. CASE AddStore
  BY <1>19 DEF AddStore
<1>20. CASE AddAccount
  BY <1>20 DEF AddAccount
<1>21. ASSUME NEW n \in Lengths, Arrive(n) PROVE LifeInv'
  BY <1>21 DEF Arrive
<1>22. ASSUME NEW u \in Users, UserLock(u) PROVE LifeInv'
  BY <1>22 DEF UserLock, StatsLock, ClearLock
<1>23. ASSUME NEW u \in Users, GetStats(u) PROVE LifeInv'
  BY <1>23 DEF GetStats
<1>24. ASSUME NEW u \in Users, ClearUsed(u) PROVE LifeInv'
  BY <1>24 DEF ClearUsed
<1>25. ASSUME NEW u \in Users, ClearRest(u) PROVE LifeInv'
  BY <1>25 DEF ClearRest
<1>26. CASE UNCHANGED vars
  BY <1>26 DEF vars
<1> QED
  BY <1>1, <1>2, <1>3, <1>4, <1>5, <1>6, <1>7, <1>8, <1>9, <1>10, <1>11, <1>12, <1>13,
     <1>14, <1>15, <1>16, <1>17, <1>18, <1>19, <1>20, <1>21, <1>22, <1>23, <1>24, <1>25, <1>26
  DEF Next, ApiStep, ListenerStep, RecvReturns, UserStep

\* Buffers are allocated when start succeeds and freed once the listener is gone.
LEMMA BuffersStep == IInv /\ [Next]_vars => BuffersInv'
<1> SUFFICES ASSUME IInv, [Next]_vars PROVE BuffersInv'
  OBVIOUS
<1> USE DEF IInv, TypeOK, ControlTypeOK, CacheTypeOK, LifeInv, BuffersInv,
            FrameInv, Idle, Caching, Malloc, PacketLimit, ClosedCache, EmptyCounters,
            AfterCallback, ApiLabels, ListenerLabels, UserLabels
<1>1. CASE StartCall
  BY <1>1 DEF StartCall, StartWhileRunning, StartBegin
<1>2. CASE StopBegin
  BY <1>2 DEF StopBegin
<1>3. CASE ApiLock
  BY <1>3 DEF ApiLock, InitLock, UndoLock, StopLock
<1>4. CASE InitCache
  BY <1>4 DEF InitCache
<1>5. CASE InitCacheFails
  BY <1>5 DEF InitCacheFails
<1>6. CASE OpenSocket
  BY <1>6 DEF OpenSocket
<1>7. CASE OpenSocketFails
  BY <1>7 DEF OpenSocketFails
<1>8. CASE Spawn
  BY <1>8 DEF Spawn
<1>9. CASE SpawnFails
  BY <1>9 DEF SpawnFails
<1>10. CASE Undo
  BY <1>10 DEF Undo
<1>11. CASE Join
  BY <1>11 DEF Join
<1>12. CASE StopCheck \/ CacheCallback
  BY <1>12 DEF StopCheck, CacheCallback
<1>13. CASE ReadArgument
  BY <1>13 DEF ReadArgument
<1>14. CASE StopCleanup
  BY <1>14 DEF StopCleanup
<1>15. CASE ListenerLoop \/ RecvFails \/ PacketCallback
  BY <1>15 DEF ListenerLoop, RecvFails, PacketCallback
<1>16. CASE Recv
  BY <1>16 DEF Recv
<1>17. CASE AddLock
  BY <1>17 DEF AddLock
<1>18. CASE AddDrop
  BY <1>18 DEF AddDrop
<1>19. CASE AddStore
  BY <1>19 DEF AddStore
<1>20. CASE AddAccount
  BY <1>20 DEF AddAccount
<1>21. ASSUME NEW n \in Lengths, Arrive(n) PROVE BuffersInv'
  BY <1>21 DEF Arrive
<1>22. ASSUME NEW u \in Users, UserLock(u) PROVE BuffersInv'
  BY <1>22 DEF UserLock, StatsLock, ClearLock
<1>23. ASSUME NEW u \in Users, GetStats(u) PROVE BuffersInv'
  BY <1>23 DEF GetStats
<1>24. ASSUME NEW u \in Users, ClearUsed(u) PROVE BuffersInv'
  BY <1>24 DEF ClearUsed
<1>25. ASSUME NEW u \in Users, ClearRest(u) PROVE BuffersInv'
  BY <1>25 DEF ClearRest
<1>26. CASE UNCHANGED vars
  BY <1>26 DEF vars
<1> QED
  BY <1>1, <1>2, <1>3, <1>4, <1>5, <1>6, <1>7, <1>8, <1>9, <1>10, <1>11, <1>12, <1>13,
     <1>14, <1>15, <1>16, <1>17, <1>18, <1>19, <1>20, <1>21, <1>22, <1>23, <1>24, <1>25, <1>26
  DEF Next, ApiStep, ListenerStep, RecvReturns, UserStep

\* Nobody changes the listener's frame, or the room it has found, before the frame is
\* accounted.
LEMMA FrameStep == IInv /\ [Next]_vars => FrameInv'
<1> SUFFICES ASSUME IInv, [Next]_vars PROVE FrameInv'
  OBVIOUS
<1> USE DEF IInv, TypeOK, ControlTypeOK, SessionTypeOK, WireTypeOK, MutexInv,
            LifeInv, FrameInv, HasRoom, Add32, Caching, FrameSet, Critical,
            AfterCallback, ApiLabels, ListenerLabels, UserLabels
<1>1. CASE StartCall
  BY <1>1 DEF StartCall, StartWhileRunning, StartBegin
<1>2. CASE StopBegin
  BY <1>2 DEF StopBegin
<1>3. CASE ApiLock
  BY <1>3 DEF ApiLock, InitLock, UndoLock, StopLock
<1>4. CASE InitCache
  BY <1>4 DEF InitCache
<1>5. CASE InitCacheFails
  BY <1>5 DEF InitCacheFails
<1>6. CASE OpenSocket
  BY <1>6 DEF OpenSocket
<1>7. CASE OpenSocketFails
  BY <1>7 DEF OpenSocketFails
<1>8. CASE Spawn
  BY <1>8 DEF Spawn
<1>9. CASE SpawnFails
  BY <1>9 DEF SpawnFails
<1>10. CASE Undo
  BY <1>10 DEF Undo
<1>11. CASE Join
  BY <1>11 DEF Join
<1>12. CASE StopCheck \/ CacheCallback
  BY <1>12 DEF StopCheck, CacheCallback
<1>13. CASE ReadArgument
  BY <1>13 DEF ReadArgument
<1>14. CASE StopCleanup
  BY <1>14 DEF StopCleanup
<1>15. CASE ListenerLoop \/ RecvFails \/ PacketCallback
  BY <1>15 DEF ListenerLoop, RecvFails, PacketCallback
<1>16. CASE Recv
  <2>1. sockq \in Seq(FrameSet) /\ sockq # <<>> /\ frame' = Head(sockq)
    BY <1>16 DEF Recv
  <2>2. frame' \in FrameSet
    BY <2>1, HeadTailProperties
  <2> QED
    BY <1>16, <2>2 DEF Recv
<1>17. CASE AddLock
  BY <1>17 DEF AddLock
<1>18. CASE AddDrop
  BY <1>18 DEF AddDrop
<1>19. CASE AddStore
  BY <1>19 DEF AddStore
<1>20. CASE AddAccount
  BY <1>20 DEF AddAccount
<1>21. ASSUME NEW n \in Lengths, Arrive(n) PROVE FrameInv'
  BY <1>21 DEF Arrive
<1>22. ASSUME NEW u \in Users, UserLock(u) PROVE FrameInv'
  BY <1>22 DEF UserLock, StatsLock, ClearLock
<1>23. ASSUME NEW u \in Users, GetStats(u) PROVE FrameInv'
  BY <1>23 DEF GetStats
<1>24. ASSUME NEW u \in Users, ClearUsed(u) PROVE FrameInv'
  BY <1>24 DEF ClearUsed
<1>25. ASSUME NEW u \in Users, ClearRest(u) PROVE FrameInv'
  BY <1>25 DEF ClearRest
<1>26. CASE UNCHANGED vars
  BY <1>26 DEF vars
<1> QED
  BY <1>1, <1>2, <1>3, <1>4, <1>5, <1>6, <1>7, <1>8, <1>9, <1>10, <1>11, <1>12, <1>13,
     <1>14, <1>15, <1>16, <1>17, <1>18, <1>19, <1>20, <1>21, <1>22, <1>23, <1>24, <1>25, <1>26
  DEF Next, ApiStep, ListenerStep, RecvReturns, UserStep

\* Every step keeps the books.
LEMMA BooksStep == IInv /\ [Next]_vars => BooksInv'
<1> SUFFICES ASSUME IInv, [Next]_vars PROVE BooksInv'
  OBVIOUS
<1> USE DEF IInv, TypeOK, ControlTypeOK, SessionTypeOK, CacheTypeOK, WireTypeOK,
            MutexInv, LifeInv, BuffersInv, WidthInv, FrameInv, BooksInv, BooksBalance,
            InClear, Idle, HasRoom, Add32, ClosedCache, EmptyCounters, PacketLimit,
            FrameSet, Critical, AfterCallback, ApiLabels, ListenerLabels, UserLabels
<1>1. CASE StartCall
  <2>1. ASSUME NEW r \in Requests, StartWhileRunning(r) PROVE BooksInv'
    BY <2>1 DEF StartWhileRunning
  <2>2. ASSUME NEW r \in Requests, StartBegin(r) PROVE BooksInv'
    BY <2>2 DEF StartBegin
  <2> QED
    BY <1>1, <2>1, <2>2 DEF StartCall
<1>2. CASE StopBegin
  BY <1>2 DEF StopBegin
<1>3. CASE ApiLock
  BY <1>3 DEF ApiLock, InitLock, UndoLock, StopLock
<1>4. CASE InitCache
  BY <1>4 DEF InitCache
<1>5. CASE InitCacheFails
  BY <1>5 DEF InitCacheFails
<1>6. CASE OpenSocket
  BY <1>6 DEF OpenSocket
<1>7. CASE OpenSocketFails
  BY <1>7 DEF OpenSocketFails
<1>8. CASE Spawn
  BY <1>8 DEF Spawn
<1>9. CASE SpawnFails
  BY <1>9 DEF SpawnFails
<1>10. CASE Undo
  BY <1>10 DEF Undo
<1>11. CASE Join
  BY <1>11 DEF Join
<1>12. CASE StopCheck \/ CacheCallback
  BY <1>12 DEF StopCheck, CacheCallback
<1>13. CASE ReadArgument
  BY <1>13 DEF ReadArgument
<1>14. CASE StopCleanup
  BY <1>14 DEF StopCleanup
<1>15. CASE ListenerLoop \/ RecvFails \/ PacketCallback
  BY <1>15 DEF ListenerLoop, RecvFails, PacketCallback
<1>16. CASE Recv
  BY <1>16 DEF Recv
<1>17. CASE AddLock
  BY <1>17 DEF AddLock
<1>18. CASE AddDrop
  BY <1>18 DEF AddDrop
<1>19. CASE AddStore
  BY <1>19 DEF AddStore
<1>20. CASE AddAccount
  <2>1. Len(offered') = Len(offered) + 1
    BY <1>20 DEF AddAccount
  <2>2. frame.len \in Lengths /\ HasRoom(frame.len)
    BY <1>20 DEF AddAccount
  <2>3. frame.len \in Nat /\ Add32(cache_used, frame.len) = cache_used + frame.len
    BY <2>2, NoWrap
  <2>4. cache_used' = cache_used + frame.len /\ cache_used' <= cache_size
    BY <1>20, <2>2, <2>3 DEF AddAccount
  <2>5. ~InClear
    BY <1>20 DEF AddAccount
  <2>6. ~InClear' /\ ~Idle'
    BY <1>20, <2>5 DEF AddAccount
  <2>7. /\ total_bytes' = total_bytes + frame.len /\ packet_count' = packet_count + 1
        /\ UNCHANGED <<dropped_packets, cache_size, max_packets>>
    BY <1>20 DEF AddAccount
  <2>8. packet_count < max_packets
    BY <2>2
  <2>9. cache_used' = total_bytes' /\ cache_used' <= cache_size'
    BY <2>4, <2>5, <2>7
  <2>10. packet_count' <= max_packets'
    BY <2>7, <2>8
  <2>11. packet_count' + dropped_packets' = Len(offered')
    <3>1. /\ packet_count \in Nat /\ dropped_packets \in Nat
          /\ packet_count + dropped_packets = Len(offered)
      BY <2>5
    <3> HIDE DEF IInv
    <3> QED
      BY <2>1, <2>7, <3>1
  <2>12. BooksBalance'
    BY <2>9, <2>10, <2>11
  <2> QED
    BY <2>4, <2>6, <2>7, <2>12
<1>21. ASSUME NEW n \in Lengths, Arrive(n) PROVE BooksInv'
  BY <1>21 DEF Arrive
<1>22. ASSUME NEW u \in Users, UserLock(u) PROVE BooksInv'
  BY <1>22 DEF UserLock, StatsLock, ClearLock
<1>23. ASSUME NEW u \in Users, GetStats(u) PROVE BooksInv'
  BY <1>23 DEF GetStats
<1>24. ASSUME NEW u \in Users, ClearUsed(u) PROVE BooksInv'
  BY <1>24 DEF ClearUsed
<1>25. ASSUME NEW u \in Users, ClearRest(u) PROVE BooksInv'
  BY <1>25 DEF ClearRest
<1>26. CASE UNCHANGED vars
  BY <1>26 DEF vars
<1> QED
  BY <1>1, <1>2, <1>3, <1>4, <1>5, <1>6, <1>7, <1>8, <1>9, <1>10, <1>11, <1>12, <1>13,
     <1>14, <1>15, <1>16, <1>17, <1>18, <1>19, <1>20, <1>21, <1>22, <1>23, <1>24, <1>25, <1>26
  DEF Next, ApiStep, ListenerStep, RecvReturns, UserStep

\* The actions that write the cache's statics.
LEMMA CacheWriters ==
  [Next]_vars => \/ UNCHANGED <<buffers, counters>>
                 \/ InitCache \/ InitCacheFails \/ Undo \/ StopCleanup
                 \/ AddDrop \/ AddStore \/ AddAccount
                 \/ \E u \in Users : ClearUsed(u) \/ ClearRest(u)
BY DEF Next, StartCall, StartWhileRunning, StartBegin, StopBegin, ApiLock, InitLock,
       UndoLock, StopLock, ApiStep, OpenSocket, OpenSocketFails, Spawn, SpawnFails,
       Join, StopCheck, ReadArgument, CacheCallback, RecvReturns, Recv, RecvFails,
       AddLock, ListenerStep, ListenerLoop, PacketCallback, Arrive, UserLock,
       StatsLock, ClearLock, UserStep, GetStats, vars

\* Buffers keep the sizes the limits say, counters stay natural numbers.
LEMMA CacheTypeStep == IInv /\ [Next]_vars => CacheTypeOK'
<1> SUFFICES ASSUME IInv, [Next]_vars PROVE CacheTypeOK'
  OBVIOUS
<1> USE DEF IInv, TypeOK, CacheTypeOK, Junk, EmptyCounters
<1> <<>> \in Seq(FrameSet)
  OBVIOUS
<1>1. CASE UNCHANGED <<buffers, counters>>
  BY <1>1
<1>2. CASE InitCache
  BY <1>2 DEF InitCache, LifeInv, Malloc, PacketLimit
<1>3. CASE InitCacheFails
  BY <1>3 DEF InitCacheFails, LifeInv, BuffersInv, Idle, PacketLimit
<1>4. CASE Undo \/ StopCleanup
  <2>1. ClosedCache
    BY <1>4 DEF Undo, StopCleanup
  <2>2. /\ packet_cache' = NULL /\ packet_lengths' = NULL /\ offered' = <<>>
        /\ cache_size' = 0 /\ max_packets' \in Nat
        /\ cache_used' = 0 /\ packet_count' = 0 /\ total_bytes' = 0
        /\ dropped_packets' = 0
    BY <2>1 DEF ClosedCache
  <2> QED
    BY <2>2
<1>5. CASE AddDrop
  BY <1>5, AppendProperties DEF AddDrop, FrameInv
<1>6. CASE AddStore
  <2>1. frame.id \in 0..MaxFrames /\ frame.len \in Lengths
    BY <1>6 DEF AddStore, FrameInv, FrameSet
  <2>2. /\ packet_cache \in [0..(cache_size - 1) -> 0..MaxFrames]
        /\ packet_lengths \in [0..(max_packets - 1) -> Lengths \cup {0}]
    <3>1. /\ DOMAIN packet_cache = 0..(cache_size - 1)
          /\ DOMAIN packet_lengths = 0..(max_packets - 1)
      BY <1>6 DEF AddStore, FrameInv, LifeInv, BuffersInv
    <3>2. packet_cache = NULL => packet_cache \in [0..(cache_size - 1) -> 0..MaxFrames]
      BY <3>1 DEF NULL
    <3>3. packet_lengths = NULL =>
            packet_lengths \in [0..(max_packets - 1) -> Lengths \cup {0}]
      BY <3>1 DEF NULL
    <3> QED
      BY <3>2, <3>3
  <2> QED
    BY <1>6, <2>1, <2>2 DEF AddStore
<1>7. CASE AddAccount
  <2>1. frame \in FrameSet /\ frame.len \in Lengths
    BY <1>7 DEF AddAccount, FrameInv, FrameSet
  <2>2. cache_used' = cache_used + frame.len /\ frame.len \in Nat
    BY <1>7, <2>1, NoWrap DEF AddAccount, BooksInv
  <2>3. offered' \in Seq(FrameSet)
    BY <1>7, <2>1, AppendProperties DEF AddAccount
  <2> QED
    BY <1>7, <2>2, <2>3 DEF AddAccount
<1>8. ASSUME NEW u \in Users, ClearUsed(u) PROVE CacheTypeOK'
  BY <1>8 DEF ClearUsed
<1>9. ASSUME NEW u \in Users, ClearRest(u) PROVE CacheTypeOK'
  BY <1>9 DEF ClearRest
<1> QED
  BY <1>1, <1>2, <1>3, <1>4, <1>5, <1>6, <1>7, <1>8, <1>9, CacheWriters

\* The size of the cache is 0 or a request's.
LEMMA WidthStep == IInv /\ [Next]_vars => WidthInv'
<1> SUFFICES ASSUME IInv, [Next]_vars PROVE WidthInv'
  OBVIOUS
<1>1. \/ UNCHANGED cache_size
      \/ cache_size' = 0
      \/ request \in Requests /\ cache_size' = request.size
  BY CacheWriters DEF IInv, LifeInv, InitCache, InitCacheFails, Undo, StopCleanup,
     ClosedCache, AddDrop, AddStore, AddAccount, ClearUsed, ClearRest
<1> QED
  BY <1>1 DEF IInv, WidthInv

\* The actions that write the session, the arguments and result of start, or the
\* arguments of the cache callback.
LEMMA SessionWriters ==
  [Next]_vars => \/ UNCHANGED <<session, call, delivery>>
                 \/ StartCall \/ StopBegin \/ InitCacheFails
                 \/ OpenSocket \/ OpenSocketFails \/ Spawn \/ SpawnFails \/ Undo
                 \/ Join \/ ReadArgument \/ StopCleanup
                 \/ \E u \in Users : ClearUsed(u) \/ ClearRest(u)
BY DEF Next, ApiLock, InitLock, UndoLock, StopLock, ApiStep, InitCache, StopCheck,
       CacheCallback, RecvReturns, Recv, RecvFails, AddLock, ListenerStep,
       ListenerLoop, PacketCallback, AddDrop, AddStore, AddAccount, Arrive, UserLock,
       StatsLock, ClearLock, UserStep, GetStats, vars

\* The session's statics and start's and stop's locals keep their types.
LEMMA SessionTypeStep == IInv /\ [Next]_vars => SessionTypeOK'
<1> SUFFICES ASSUME IInv, [Next]_vars PROVE SessionTypeOK'
  OBVIOUS
<1> USE DEF IInv, TypeOK, SessionTypeOK, Callbacks, Unread
<1>1. CASE UNCHANGED <<session, call, delivery>>
  BY <1>1
<1>2. CASE StartCall \/ StopBegin
  BY <1>2 DEF StartCall, StartWhileRunning, StartBegin, StopBegin
<1>3. CASE OpenSocket
  BY <1>3 DEF OpenSocket, LifeInv
<1>4. CASE InitCacheFails \/ OpenSocketFails \/ Spawn \/ SpawnFails \/ Undo
  BY <1>4 DEF InitCacheFails, OpenSocketFails, Spawn, SpawnFails, Undo
<1>5. CASE Join
  BY <1>5 DEF Join
<1>6. CASE StopCleanup
  BY <1>6 DEF StopCleanup
<1>7. CASE ReadArgument
  BY <1>7 DEF ReadArgument, CacheTypeOK
<1>8. CASE \E u \in Users : ClearUsed(u) \/ ClearRest(u)
  BY <1>8 DEF ClearUsed, ClearRest, Delivering
<1> QED
  BY <1>1, <1>2, <1>3, <1>4, <1>5, <1>7, <1>8, <1>6, SessionWriters

\* The socket's queue and the listener's buffer hold frames.
LEMMA WireTypeStep == IInv /\ [Next]_vars => WireTypeOK'
<1> SUFFICES ASSUME IInv, [Next]_vars PROVE WireTypeOK'
  OBVIOUS
<1> USE DEF IInv, TypeOK, WireTypeOK
<1>1. CASE Undo
  BY <1>1 DEF Undo
<1>2. CASE Join
  BY <1>2 DEF Join
<1>3. CASE Recv
  BY <1>3, HeadTailProperties DEF Recv
<1>4. ASSUME NEW n \in Lengths, Arrive(n) PROVE WireTypeOK'
  <2>1. arrived' = arrived + 1 /\ arrived' \in 1..MaxFrames
    BY <1>4 DEF Arrive
  <2>2. [id |-> arrived', len |-> n] \in FrameSet
    BY <2>1 DEF FrameSet
  <2> QED
    BY <1>4, <2>1, <2>2, AppendProperties DEF Arrive
<1>5. \/ UNCHANGED wire
      \/ Undo \/ Join \/ Recv
      \/ \E n \in Lengths : Arrive(n)
  BY DEF Next, StartCall, StartWhileRunning, StartBegin, StopBegin, ApiLock, InitLock,
     UndoLock, StopLock, ApiStep, InitCache, InitCacheFails, OpenSocket,
     OpenSocketFails, Spawn, SpawnFails, StopCheck, ReadArgument, CacheCallback,
     StopCleanup, RecvReturns, RecvFails, AddLock, ListenerStep, ListenerLoop,
     PacketCallback, AddDrop, AddStore, AddAccount, UserLock, StatsLock, ClearLock,
     UserStep, GetStats, ClearUsed, ClearRest, vars
<1> QED
  BY <1>1, <1>3, <1>4, <1>5, <1>2

-----------------------------------------------------------------------------
(* Theorems *)

\* The initial state satisfies the invariant.
LEMMA InitInv == Init => IInv
<1> SUFFICES ASSUME Init PROVE IInv
  OBVIOUS
<1> USE DEF Init
<1>1. TypeOK
  <2>1. ControlTypeOK
    BY DEF ControlTypeOK, ApiLabels, ListenerLabels, UserLabels
  <2>2. SessionTypeOK
    BY DEF SessionTypeOK, Callbacks, Unread
  <2>3. CacheTypeOK /\ WireTypeOK
    BY DEF CacheTypeOK, WireTypeOK
  <2> QED
    BY <2>1, <2>2, <2>3 DEF TypeOK
<1>2. MutexInv /\ LifeInv /\ FrameInv
  BY DEF MutexInv, LifeInv, FrameInv, Critical
<1>3. BuffersInv /\ WidthInv
  BY DEF BuffersInv, WidthInv, Caching
<1>4. BooksInv
  BY DEF BooksInv, BooksBalance
<1> QED
  BY <1>1, <1>2, <1>3, <1>4 DEF IInv

\* IInv is an invariant: each part by the lemma about it.
THEOREM Invariance == Spec => []IInv
<1>1. IInv /\ [Next]_vars => IInv'
  BY ControlTypeStep, SessionTypeStep, CacheTypeStep, WireTypeStep, MutexStep,
     LifeStep, BuffersStep, WidthStep, BooksStep, FrameStep DEF IInv, TypeOK
<1> QED
  BY InitInv, <1>1, PTL DEF Spec

\* Every variable keeps its type, for any number of threads, requests and frames.
THEOREM TypeCorrect == Spec => []TypeOK
BY Invariance, PTL DEF IInv

\* The byte, packet and drop counts of the cache always balance and never pass the
\* limits, whatever start, stop, the listener and the user threads do.
THEOREM BooksAlwaysBalance == Spec => []BooksBalance
<1>1. IInv => BooksBalance
  BY DEF IInv, BooksInv
<1> QED
  BY <1>1, Invariance, PTL

\* A snapshot of the statistics is never taken in the middle of a change.
THEOREM SnapshotsAreConsistent == Spec => []SnapshotConsistent
<1>1. IInv => SnapshotConsistent
  <2> SUFFICES ASSUME IInv, NEW u \in Users, pc[u] = "stats"
               PROVE  /\ cache_mutex = u
                      /\ ~InClear
                      /\ pc[Listener] \notin {"room", "account"}
                      /\ pc[Api] \notin {"malloc", "undo_free", "stop_free"}
    BY DEF SnapshotConsistent
  <2>1. cache_mutex = u
    BY DEF IInv, MutexInv, Critical
  <2>2. \A t \in Threads : pc[t] \in Critical => t = u
    BY <2>1 DEF IInv, MutexInv
  <2> QED
    BY <2>1, <2>2 DEF InClear, Critical
<1> QED
  BY <1>1, Invariance, PTL

\* The listener thread never outlives its socket or its buffers.
THEOREM ListenerStaysInsideSession == Spec => []ListenerInsideSession
<1>1. IInv => ListenerInsideSession
  BY DEF IInv, LifeInv, BuffersInv, ListenerInsideSession
<1> QED
  BY <1>1, Invariance, PTL

\* add_packet_to_cache writes inside its two allocations, for every size, limit and
\* frame length the assumptions allow.
THEOREM StoresStayInBounds == Spec => []StoreInBounds
<1>1. IInv => StoreInBounds
  <2> SUFFICES ASSUME IInv, pc[Listener] = "room", HasRoom(frame.len)
               PROVE  Target \subseteq DOMAIN packet_cache
                      /\ packet_count \in DOMAIN packet_lengths
    BY DEF StoreInBounds
  <2>1. /\ DOMAIN packet_cache = 0..(cache_size - 1)
        /\ DOMAIN packet_lengths = 0..(max_packets - 1)
    BY DEF IInv, LifeInv, FrameInv, BuffersInv
  <2>2. /\ cache_used \in Nat /\ cache_size \in Nat
        /\ packet_count \in Nat /\ max_packets \in Nat
        /\ cache_used <= cache_size
    BY DEF IInv, TypeOK, CacheTypeOK, BooksInv
  <2>3. frame.len \in Lengths
    BY DEF IInv, FrameInv, FrameSet
  <2>4. frame.len \in Nat /\ Add32(cache_used, frame.len) = cache_used + frame.len
    BY <2>2, <2>3, NoWrap DEF IInv
  <2> QED
    BY <2>1, <2>2, <2>4 DEF HasRoom, Target
<1> QED
  BY <1>1, Invariance, PTL

\* No call redirects a running session.
THEOREM SessionsAreFixed == Spec => SessionFixed
<1> DEFINE Fixed ==
      running /\ running' =>
        UNCHANGED <<sockfd, user_cb, user_cache_cb, cache_size, max_packets>>
<1>1. IInv /\ [Next]_vars => Fixed
  <2> SUFFICES ASSUME IInv, [Next]_vars, running, running'
               PROVE  UNCHANGED <<sockfd, user_cb, user_cache_cb, cache_size,
                                  max_packets>>
    OBVIOUS
  <2>1. UNCHANGED <<sockfd, user_cb, user_cache_cb>>
    BY SessionWriters DEF IInv, LifeInv, StartCall, StartWhileRunning, StartBegin,
       StopBegin, InitCacheFails, OpenSocket, OpenSocketFails, Spawn, SpawnFails, Undo,
       Join, ReadArgument, StopCleanup, ClearUsed, ClearRest
  <2>2. UNCHANGED <<cache_size, max_packets>>
    BY CacheWriters DEF IInv, LifeInv, InitCache, InitCacheFails, Undo, StopCleanup,
       AddDrop, AddStore, AddAccount, ClearUsed, ClearRest
  <2> QED
    BY <2>1, <2>2
<1> QED
  BY <1>1, Invariance, PTL DEF Spec, SessionFixed
=============================================================================
