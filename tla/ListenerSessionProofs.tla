------------------------ MODULE ListenerSessionProofs ------------------------
(***************************************************************************)
(* Proof that NetListener implements ListenerService, for any threads,     *)
(* requests, frame lengths and bounds that satisfy the assumptions.        *)
(***************************************************************************)
EXTENDS ListenerSession, NetListenerProofs

-----------------------------------------------------------------------------
(* The request in effect *)

\* From start's first assignment on, the callback pointers and the cache's size are
\* those of one request: the argument of the start under way, then the session's.
RequestInv ==
  /\ pc[Api] \in {"init", "malloc", "socket", "spawn"} => user_cache_cb = request.cache_cb
  /\ pc[Api] = "spawn" => user_cb = request.packet_cb
  /\ pc[Api] \in {"socket", "spawn"} /\ Caching => cache_size = request.size
  /\ Stage # "closed" => InEffect \in Requests
  /\ pc[Api] \in {"args", "callback"} => Caching

\* What start has set when it creates the thread is the request it was given.
LEMMA RequestTaken ==
  ASSUME IInv, RequestInv, pc[Api] = "spawn"
  PROVE  InEffect \in Requests
<1>1. request \in Requests
  BY DEF IInv, LifeInv
<1>2. /\ request = [packet_cb |-> request.packet_cb, cache_cb |-> request.cache_cb,
                    size |-> request.size]
      /\ request.cache_cb = NoCallback <=> request.size = 0
  BY <1>1, RequestFields, RequestsAssumption
<1>3. /\ user_cb = request.packet_cb /\ user_cache_cb = request.cache_cb
      /\ Caching => cache_size = request.size
  BY DEF RequestInv
<1>4. (IF Caching THEN cache_size ELSE 0) = request.size
  BY <1>2, <1>3 DEF Caching
<1> QED
  BY <1>1, <1>2, <1>3, <1>4 DEF InEffect

\* What a step must do for the invariant and for the refinement.
Same == UNCHANGED <<Installed, Stage, pc[Listener] = "callback">>
Implemented == RequestInv' /\ (Service!Next \/ Same)

\* The session is closed outside its life, and open while its thread lives.
LEMMA StageFromPc ==
  ASSUME IInv
  PROVE  /\ pc[Api] \in {"init", "malloc", "socket", "spawn", "undo", "undo_free"}
              => Stage = "closed" /\ pc[Listener] = "none"
         /\ pc[Api] = "idle" => Stage = IF running THEN "open" ELSE "closed"
         /\ pc[Api] = "idle" => (pc[Listener] # "none" <=> running)
         /\ pc[Api] = "join" => Stage = "open" /\ pc[Listener] # "none"
         /\ pc[Api] \in {"check", "args"} => Stage = "open" /\ pc[Listener] = "none"
         /\ pc[Api] = "callback" => Stage = "delivering" /\ pc[Listener] = "none"
         /\ pc[Api] \in {"clean", "stop_free"} => Stage = "over" /\ pc[Listener] = "none"
BY DEF IInv, LifeInv, Stage

\* Steps that touch neither the callback pointers nor the cache's size, and move no
\* thread between two stages.
LEMMA Unseen ==
  ASSUME IInv, RequestInv, Stage' = Stage,
         UNCHANGED <<user_cb, user_cache_cb, cache_size>>,
         (pc[Listener] = "callback") = (pc[Listener] = "callback")',
         pc'[Api] \in {"init", "malloc", "socket", "spawn", "args", "callback"}
           => (pc'[Api] = pc[Api] \/ (pc[Api] = "init" /\ pc'[Api] = "malloc"))
              /\ request' = request
  PROVE  Implemented
<1>1. InEffect' = InEffect /\ Caching' = Caching
  BY DEF InEffect, Caching
<1>2. Installed' = Installed
  BY <1>1 DEF Installed
<1>3. RequestInv'
  BY <1>1 DEF RequestInv
<1> QED
  BY <1>2, <1>3 DEF Implemented, Same

USE DEF Move, Test, Lock, Unlock, data, buffers, counters, session, call, delivery,
        wire, Threads, Api, Listener, Free

\* The steps of start.
LEMMA StartSteps ==
  ASSUME IInv, RequestInv,
         StartCall \/ InitLock \/ UndoLock \/ InitCache \/ InitCacheFails \/ OpenSocket
           \/ OpenSocketFails \/ Spawn \/ SpawnFails \/ Undo
  PROVE  Implemented
<1> USE StageFromPc, UsersAssumption DEF IInv, TypeOK, ControlTypeOK
<1>1. ASSUME NEW r \in Requests, StartWhileRunning(r) PROVE Implemented
  BY <1>1, Unseen DEF StartWhileRunning, Stage
<1>2. ASSUME NEW r \in Requests, StartBegin(r) PROVE Implemented
  <2>1. Stage = "closed" /\ Stage' = "closed" /\ pc'[Listener] = pc[Listener]
    BY <1>2 DEF StartBegin, Stage
  <2>2. pc[Api] = "idle" /\ pc'[Api] \in {"init", "socket"}
    BY <1>2 DEF StartBegin
  <2>3. user_cache_cb' = r.cache_cb /\ request' = r
    BY <1>2 DEF StartBegin
  <2>4. Caching' => r.cache_cb # NoCallback /\ r.size > 0
    BY <2>3, RequestsAssumption DEF Caching
  <2>5. Caching' => pc'[Api] = "init"
    BY <2>4, <1>2 DEF StartBegin
  <2> QED
    BY <2>1, <2>2, <2>3, <2>5 DEF Implemented, RequestInv, Same, Installed
<1>3. ASSUME InitCache PROVE Implemented
  <2>1. Stage = "closed" /\ Stage' = "closed" /\ pc'[Listener] = pc[Listener]
    BY <1>3 DEF InitCache, Stage
  <2>2. /\ pc[Api] = "malloc" /\ pc'[Api] = "socket" /\ cache_size' = request.size
        /\ UNCHANGED <<user_cb, user_cache_cb, request>>
    BY <1>3 DEF InitCache
  <2> QED
    BY <2>1, <2>2 DEF Implemented, RequestInv, Same, Installed
<1>4. ASSUME InitCacheFails PROVE Implemented
  <2>1. Stage = "closed" /\ Stage' = "closed" /\ pc'[Listener] = pc[Listener]
    BY <1>4 DEF InitCacheFails, Stage
  <2>2. pc'[Api] = "idle"
    BY <1>4 DEF InitCacheFails
  <2> QED
    BY <2>1, <2>2 DEF Implemented, RequestInv, Same, Installed
<1>5. ASSUME OpenSocket PROVE Implemented
  <2>1. Stage = "closed" /\ Stage' = "closed" /\ pc'[Listener] = pc[Listener]
    BY <1>5 DEF OpenSocket, Stage
  <2>2. /\ pc[Api] = "socket" /\ pc'[Api] = "spawn" /\ user_cb' = request.packet_cb
        /\ UNCHANGED <<cache_size, user_cache_cb, request>>
    BY <1>5 DEF OpenSocket
  <2> QED
    BY <2>1, <2>2 DEF Implemented, RequestInv, Same, Installed, Caching
<1>6. ASSUME Spawn PROVE Implemented
  <2>1. InEffect \in Requests
    BY <1>6, RequestTaken DEF Spawn
  <2>2. /\ Stage = "closed" /\ Stage' = "open" /\ InEffect' = InEffect
        /\ pc'[Api] = "idle" /\ pc[Listener] = "none" /\ pc'[Listener] = "loop"
    BY <1>6 DEF Spawn, Stage, InEffect, Caching
  <2>3. Service!Install(InEffect)
    BY <2>2 DEF Service!Install, Installed
  <2> QED
    BY <2>1, <2>2, <2>3 DEF Implemented, RequestInv, Service!Next
<1>7. ASSUME InitLock \/ UndoLock \/ OpenSocketFails \/ SpawnFails PROVE Implemented
  <2>1. Stage = "closed" /\ Stage' = "closed" /\ pc'[Listener] = pc[Listener]
    BY <1>7 DEF InitLock, UndoLock, OpenSocketFails, SpawnFails, Stage
  <2> QED
    BY <1>7, <2>1, Unseen DEF InitLock, UndoLock, OpenSocketFails, SpawnFails
<1>8. ASSUME Undo PROVE Implemented
  <2>1. Stage = "closed" /\ Stage' = "closed" /\ pc'[Listener] = pc[Listener]
    BY <1>8 DEF Undo, Stage
  <2>2. pc'[Api] = "idle"
    BY <1>8 DEF Undo
  <2> QED
    BY <2>1, <2>2 DEF Implemented, RequestInv, Same, Installed
<1> QED
  BY <1>1, <1>2, <1>3, <1>4, <1>5, <1>6, <1>7, <1>8 DEF StartCall

\* The steps of stop.
LEMMA StopSteps ==
  ASSUME IInv, RequestInv,
         StopBegin \/ Join \/ StopCheck \/ ReadArgument \/ CacheCallback \/ StopLock
           \/ StopCleanup
  PROVE  Implemented
<1> USE StageFromPc, UsersAssumption DEF IInv, TypeOK, ControlTypeOK
<1>1. ASSUME StopBegin PROVE Implemented
  <2>1. Stage = "open" /\ Stage' = "open" /\ pc'[Listener] = pc[Listener]
    BY <1>1 DEF StopBegin, Stage
  <2> QED
    BY <1>1, <2>1, Unseen DEF StopBegin
<1>2. ASSUME Join PROVE Implemented
  <2>1. /\ Stage = "open" /\ Stage' = "open"
        /\ pc[Listener] = "exited" /\ pc'[Listener] = "none"
    BY <1>2 DEF Join, Stage
  <2> QED
    BY <1>2, <2>1, Unseen DEF Join
<1>3. ASSUME StopCheck PROVE Implemented
  <2>1. /\ Stage = "open" /\ pc[Listener] = "none" /\ pc'[Listener] = "none"
        /\ pc[Api] = "check" /\ pc'[Api] \in {"args", "clean"}
        /\ pc'[Api] = "args" => Caching
        /\ UNCHANGED <<user_cb, user_cache_cb, cache_size, request>>
    BY <1>3 DEF StopCheck, Caching
  <2>2. InEffect' = InEffect /\ Caching' = Caching /\ InEffect \in Requests
    BY <2>1 DEF InEffect, Caching, RequestInv
  <2>3. CASE pc'[Api] = "args"
    <3>1. Stage' = "open"
      BY <2>3 DEF Stage
    <3> QED
      BY <2>1, <2>2, <2>3, <3>1 DEF Implemented, RequestInv, Same, Installed
  <2>4. CASE pc'[Api] = "clean"
    <3>1. Stage' = "over"
      BY <2>4 DEF Stage
    <3>2. Service!CloseQuietly
      BY <2>1, <2>2, <3>1 DEF Service!CloseQuietly, Installed
    <3> QED
      BY <2>2, <2>4, <3>2 DEF Implemented, RequestInv, Service!Next
  <2> QED
    BY <2>1, <2>3, <2>4
<1>4. ASSUME ReadArgument PROVE Implemented
  <2>1. /\ Stage = "open" /\ pc[Listener] = "none" /\ pc'[Listener] = "none"
        /\ pc[Api] = "args" /\ pc'[Api] \in {"args", "callback"}
        /\ UNCHANGED <<user_cb, user_cache_cb, cache_size, request>>
    BY <1>4 DEF ReadArgument
  <2>2. /\ InEffect' = InEffect /\ Caching' = Caching
        /\ InEffect \in Requests /\ Caching
    BY <2>1 DEF InEffect, Caching, RequestInv
  <2>3. CASE pc'[Api] = "args"
    <3>1. Stage' = "open"
      BY <2>3 DEF Stage
    <3> QED
      BY <2>1, <2>2, <2>3, <3>1 DEF Implemented, RequestInv, Same, Installed
  <2>4. CASE pc'[Api] = "callback"
    <3>1. Stage' = "delivering"
      BY <2>4 DEF Stage
    <3>2. InEffect \in CachedRequests
      BY <2>2 DEF CachedRequests, InEffect, Caching
    <3>3. Service!Deliver
      BY <2>1, <2>2, <3>1, <3>2 DEF Service!Deliver, Installed
    <3> QED
      BY <2>2, <2>4, <3>3 DEF Implemented, RequestInv, Service!Next
  <2> QED
    BY <2>1, <2>3, <2>4
<1>5. ASSUME CacheCallback PROVE Implemented
  <2>1. /\ Stage = "delivering" /\ Stage' = "over" /\ pc'[Api] = "clean"
        /\ pc[Listener] = "none" /\ pc'[Listener] = "none"
        /\ InEffect' = InEffect /\ InEffect \in Requests
    BY <1>5 DEF CacheCallback, Stage, InEffect, Caching, RequestInv
  <2>2. Service!Delivered
    BY <2>1 DEF Service!Delivered, Installed
  <2> QED
    BY <2>1, <2>2 DEF Implemented, RequestInv, Service!Next
<1>6. ASSUME StopLock PROVE Implemented
  <2>1. Stage = "over" /\ Stage' = "over" /\ pc'[Listener] = pc[Listener]
    BY <1>6 DEF StopLock, Stage
  <2> QED
    BY <1>6, <2>1, Unseen DEF StopLock
<1>7. ASSUME StopCleanup PROVE Implemented
  <2>1. /\ Stage = "over" /\ Stage' = "closed" /\ pc'[Api] = "idle"
        /\ pc[Listener] = "none" /\ pc'[Listener] = "none"
    BY <1>7 DEF StopCleanup, Stage
  <2>2. Service!Remove
    BY <2>1 DEF Service!Remove, Installed
  <2> QED
    BY <2>1, <2>2 DEF Implemented, RequestInv, Service!Next
<1> QED
  BY <1>1, <1>2, <1>3, <1>4, <1>5, <1>6, <1>7

\* The listener's steps, the wire's and the users'.
LEMMA OtherSteps ==
  ASSUME IInv, RequestInv,
         \/ RecvReturns \/ AddLock \/ ListenerStep
         \/ \E n \in Lengths : Arrive(n)
         \/ \E u \in Users : UserLock(u) \/ UserStep(u)
         \/ UNCHANGED vars
  PROVE  Implemented
<1> USE StageFromPc, UsersAssumption DEF IInv, TypeOK, ControlTypeOK
<1>1. ASSUME Recv PROVE Implemented
  <2>1. /\ Stage = "open" /\ Stage' = "open"
        /\ pc[Listener] = "recv" /\ pc'[Api] = pc[Api]
        /\ pc'[Listener] # "none"
        /\ UNCHANGED <<user_cb, user_cache_cb, cache_size, request>>
    BY <1>1 DEF Recv, AfterCallback, Stage, LifeInv
  <2>2. CASE user_cb = NoCallback
    BY <1>1, <2>1, <2>2, Unseen DEF Recv, AfterCallback
  <2>3. CASE user_cb # NoCallback
    <3>1. InEffect' = InEffect /\ Caching' = Caching /\ InEffect \in Requests
      BY <2>1 DEF InEffect, Caching, RequestInv
    <3>2. InEffect \in RealtimeRequests
      BY <3>1, <2>3 DEF RealtimeRequests, InEffect
    <3>3. pc'[Listener] = "callback"
      BY <1>1, <2>3 DEF Recv
    <3>4. Service!PacketCall
      BY <2>1, <3>1, <3>2, <3>3 DEF Service!PacketCall, Installed
    <3> QED
      BY <2>1, <3>1, <3>4 DEF Implemented, RequestInv, Service!Next
  <2> QED
    BY <2>2, <2>3
<1>2. ASSUME PacketCallback PROVE Implemented
  <2>1. /\ Stage = "open" /\ Stage' = "open" /\ pc'[Api] = pc[Api]
        /\ pc[Listener] = "callback" /\ pc'[Listener] \in {"add", "loop"}
        /\ UNCHANGED <<user_cb, user_cache_cb, cache_size, request>>
    BY <1>2 DEF PacketCallback, AfterCallback, Stage, LifeInv
  <2>2. InEffect' = InEffect /\ Caching' = Caching
    BY <2>1 DEF InEffect, Caching
  <2>3. Service!PacketReturn
    BY <2>1, <2>2 DEF Service!PacketReturn, Installed
  <2> QED
    BY <2>1, <2>2, <2>3 DEF Implemented, RequestInv, Service!Next
<1>3. ASSUME RecvFails \/ ListenerLoop \/ AddLock \/ AddDrop \/ AddStore \/ AddAccount
      PROVE Implemented
  <2>1. /\ Stage = "open" /\ Stage' = "open" /\ pc'[Api] = pc[Api]
        /\ pc[Listener] # "callback" /\ pc'[Listener] # "callback"
        /\ UNCHANGED <<user_cb, user_cache_cb, cache_size, request>>
    BY <1>3 DEF RecvFails, ListenerLoop, AddLock, AddDrop, AddStore, AddAccount, Stage,
                LifeInv
  <2> QED
    BY <2>1, Unseen
<1>4. ASSUME NEW u \in Users, UserLock(u) \/ UserStep(u) PROVE Implemented
  <2>1. /\ Stage' = Stage /\ pc'[Api] = pc[Api] /\ pc'[Listener] = pc[Listener]
        /\ UNCHANGED <<user_cb, user_cache_cb, cache_size, request>>
    BY <1>4 DEF UserLock, UserStep, StatsLock, ClearLock, GetStats, ClearUsed, ClearRest,
                Stage
  <2> QED
    BY <2>1, Unseen
<1>5. ASSUME NEW n \in Lengths, Arrive(n) PROVE Implemented
  BY <1>5, Unseen DEF Arrive, Stage
<1>6. ASSUME UNCHANGED vars PROVE Implemented
  BY <1>6, Unseen DEF vars, Stage
<1> QED
  BY <1>1, <1>2, <1>3, <1>4, <1>5, <1>6 DEF RecvReturns, ListenerStep

\* start and stop keep the promises of ListenerService.
THEOREM ListenerImplementsService == Spec => ImplementsService
<1>1. Init => RequestInv /\ Service!Init
  BY DEF Init, RequestInv, Service!Init, Stage, Installed, Threads, Api, Listener
<1>2. IInv /\ RequestInv /\ [Next]_vars => RequestInv' /\ [Service!Next]_(Service!service)
  <2>1. IInv /\ RequestInv /\ [Next]_vars => Implemented
    BY StartSteps, StopSteps, OtherSteps DEF Next, ApiLock, ApiStep
  <2> QED
    BY <2>1 DEF Implemented, Same, Service!service
<1> QED
  BY <1>1, <1>2, Invariance, PTL DEF Spec, ImplementsService, Service!Spec
=============================================================================
