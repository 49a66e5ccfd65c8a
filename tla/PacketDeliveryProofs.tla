------------------------- MODULE PacketDeliveryProofs -------------------------
(***************************************************************************)
(* Proofs about PacketDelivery for any threads, requests, frame lengths    *)
(* and bounds that satisfy the assumptions: every frame received reaches   *)
(* the cache, the callback gets what a bounded store would have kept, and  *)
(* the buffers implement PacketStore.                                      *)
(***************************************************************************)
EXTENDS PacketDelivery, NetListenerProofs, InductionLemmas

-----------------------------------------------------------------------------
(* Cutting a buffer into packets *)

\* One more length.
LEMMA FirstLengthsStep ==
  ASSUME NEW n \in Nat, NEW L
  PROVE  FirstLengths(L, n + 1) = Append(FirstLengths(L, n), L[n])
<1> DEFINE s == FirstLengths(L, n)
<1>1. s \in Seq({L[i] : i \in 0..n}) /\ Len(s) = n /\ \A i \in 1..n : s[i] = L[i - 1]
  BY DEF FirstLengths
<1>2. Append(s, L[n]) = [i \in 1..(n + 1) |-> IF i = n + 1 THEN L[n] ELSE s[i]]
  <2> HIDE DEF s
  <2> QED
    BY <1>1
<1> QED
  BY <1>1, <1>2 DEF FirstLengths

\* Offsets are natural numbers, grow by the packet's length and end at the last one's.
LEMMA Offsets ==
  ASSUME NEW n \in Nat, NEW L, \A i \in 0..(n - 1) : L[i] \in Nat
  PROVE  \A i \in 0..n : /\ Sum(FirstLengths(L, i)) \in Nat
                         /\ Sum(FirstLengths(L, i)) <= Sum(FirstLengths(L, n))
                         /\ i < n => Sum(FirstLengths(L, i + 1))
                                       = Sum(FirstLengths(L, i)) + L[i]
<1> DEFINE Offset(i) == Sum(FirstLengths(L, i))
           P == {k \in 0..n : /\ Offset(k) \in Nat
                              /\ \A i \in 0..k :
                                   Offset(i) \in Nat /\ Offset(i) <= Offset(k)}
<1>1. Offset(0) = 0
  <2>1. FirstLengths(L, 0) = << >>
    BY DEF FirstLengths
  <2> QED
    BY <2>1, SumEmpty
<1>2. ASSUME NEW i \in 0..(n - 1) PROVE Offset(i + 1) = Offset(i) + L[i]
  <2>1. FirstLengths(L, i) \in Seq(Int)
    BY DEF FirstLengths
  <2>2. L[i] \in Int
    OBVIOUS
  <2>3. Sum(Append(FirstLengths(L, i), L[i])) = Sum(FirstLengths(L, i)) + L[i]
    BY <2>1, <2>2, SumAppend
  <2>4. FirstLengths(L, i + 1) = Append(FirstLengths(L, i), L[i])
    BY FirstLengthsStep
  <2> QED
    BY <2>3, <2>4
<1> HIDE DEF Offset
<1>3. 0..n \subseteq P
  <2>1. 0 \in P
    BY <1>1
  <2>2. ASSUME NEW k \in 1..n, k - 1 \in P PROVE k \in P
    <3>1. Offset(k) = Offset(k - 1) + L[k - 1] /\ L[k - 1] \in Nat
      BY <1>2
    <3>2. \A i \in 0..k : i = k \/ i \in 0..(k - 1)
      OBVIOUS
    <3> QED
      BY <2>2, <3>1, <3>2
  <2> HIDE DEF P
  <2> QED
    BY <2>1, <2>2, Climb
<1>4. n \in P
  BY <1>3
<1>5. \A i \in 0..n : i < n => Offset(i + 1) = Offset(i) + L[i]
  BY <1>2
<1> QED
  BY <1>4, <1>5 DEF Offset

\* What lies behind the last packet does not matter.
LEMMA CutLocal ==
  ASSUME NEW n \in Nat, NEW L, NEW L2, NEW B, NEW B2,
         \A i \in 0..(n - 1) : L[i] \in Nat /\ L2[i] = L[i],
         \A b \in 0..(Sum(FirstLengths(L, n)) - 1) : B2[b] = B[b]
  PROVE  Cut(B2, L2, n) = Cut(B, L, n) /\ FirstLengths(L2, n) = FirstLengths(L, n)
<1>1. \A i \in 0..n : FirstLengths(L2, i) = FirstLengths(L, i)
  BY DEF FirstLengths
<1>2. ASSUME NEW i \in 1..n
      PROVE  [b \in 1..L2[i - 1] |-> B2[Sum(FirstLengths(L2, i - 1)) + b - 1]]
               = [b \in 1..L[i - 1] |-> B[Sum(FirstLengths(L, i - 1)) + b - 1]]
  <2> DEFINE o == Sum(FirstLengths(L, i - 1))
             e == Sum(FirstLengths(L, n))
  <2>1. /\ i - 1 \in 0..(n - 1) /\ i - 1 \in 0..n /\ i \in 0..n
        /\ i - 1 < n /\ (i - 1) + 1 = i
    OBVIOUS
  <2>2. o \in Nat /\ e \in Nat /\ o + L[i - 1] <= e
    <3>1. Sum(FirstLengths(L, i)) = o + L[i - 1] /\ Sum(FirstLengths(L, i)) <= e
      BY <2>1, Offsets
    <3>2. o \in Nat /\ n \in 0..n
      BY <2>1, Offsets
    <3>3. e \in Nat
      BY <3>2, Offsets
    <3> QED
      BY <3>1, <3>2, <3>3
  <2>3. FirstLengths(L2, i - 1) = FirstLengths(L, i - 1) /\ L2[i - 1] = L[i - 1]
        /\ L[i - 1] \in Nat
    BY <1>1, <2>1
  <2>4. \A b \in 0..(e - 1) : B2[b] = B[b]
    OBVIOUS
  <2> HIDE DEF o, e
  <2>5. \A b \in 1..L[i - 1] : o + b - 1 \in 0..(e - 1)
    BY <2>2, <2>3
  <2>6. \A b \in 1..L[i - 1] : B2[o + b - 1] = B[o + b - 1]
    BY <2>4, <2>5
  <2> QED
    BY <2>3, <2>6 DEF o
<1> QED
  BY <1>1, <1>2 DEF Cut

\* One more packet.
LEMMA CutStep ==
  ASSUME NEW n \in Nat, NEW L, NEW B
  PROVE  Cut(B, L, n + 1)
           = Append(Cut(B, L, n),
                    [b \in 1..L[n] |-> B[Sum(FirstLengths(L, n)) + b - 1]])
<1> DEFINE Piece(i) ==
             [b \in 1..L[i - 1] |-> B[Sum(FirstLengths(L, i - 1)) + b - 1]]
           s == [i \in 1..n |-> Piece(i)]
<1>1. Cut(B, L, n) = s /\ Cut(B, L, n + 1) = [i \in 1..(n + 1) |-> Piece(i)]
  BY DEF Cut
<1>2. Piece(n + 1) = [b \in 1..L[n] |-> B[Sum(FirstLengths(L, n)) + b - 1]]
  <2>1. (n + 1) - 1 = n
    OBVIOUS
  <2> QED
    BY <2>1
<1> HIDE DEF Piece
<1>3. s \in Seq({Piece(i) : i \in 1..n}) /\ Len(s) = n
  OBVIOUS
<1>4. Append(s, Piece(n + 1)) = [i \in 1..(n + 1) |-> Piece(i)]
  BY <1>3
<1> QED
  BY <1>1, <1>2, <1>4

\* The packets cut out are as many, and as long together, as the lengths say.
LEMMA CutSize ==
  ASSUME NEW n \in Nat, NEW L, NEW B, \A i \in 0..(n - 1) : L[i] \in Nat
  PROVE  /\ Cut(B, L, n) \in Seq({Cut(B, L, n)[i] : i \in 1..n})
         /\ Len(Cut(B, L, n)) = n
         /\ Store!Size(Cut(B, L, n)) = Sum(FirstLengths(L, n))
<1> DEFINE c == Cut(B, L, n)
<1>1. DOMAIN c = 1..n /\ Len(c) = n /\ c \in Seq({c[i] : i \in 1..n})
  <2> DEFINE Piece(i) ==
               [b \in 1..L[i - 1] |-> B[Sum(FirstLengths(L, i - 1)) + b - 1]]
  <2>1. c = [i \in 1..n |-> Piece(i)]
    BY DEF Cut
  <2> HIDE DEF Piece, c
  <2> QED
    BY <2>1
<1>2. ASSUME NEW i \in 1..n PROVE Len(c[i]) = L[i - 1]
  <2>1. i - 1 \in 0..(n - 1)
    OBVIOUS
  <2>2. L[i - 1] \in Nat
    BY <2>1
  <2>3. c[i] = [b \in 1..L[i - 1] |-> B[Sum(FirstLengths(L, i - 1)) + b - 1]]
    BY DEF Cut
  <2> QED
    BY <2>2, <2>3
<1>3. [i \in DOMAIN c |-> Len(c[i])] = FirstLengths(L, n)
  BY <1>1, <1>2 DEF FirstLengths
<1>4. Store!Size(c) = Store!Sum(FirstLengths(L, n))
  BY <1>3 DEF Store!Size
<1>5. \A s : Store!Sum(s) = Sum(s)
  BY DEF Store!Sum, Sum
<1> QED
  BY <1>1, <1>4, <1>5

-----------------------------------------------------------------------------
(* What a store keeps of a sequence of offers *)

\* What is kept of each prefix of the offers.
KeptOfPrefixes(S, offers, l) ==
  {f \in [0..Len(offers) -> Seq(S)] :
     /\ f[0] = << >>
     /\ \A i \in 1..Len(offers) :
          f[i] = IF Store!Fits(offers[i], f[i - 1], l)
                 THEN Append(f[i - 1], offers[i]) ELSE f[i - 1]
     /\ Store!Kept(offers, l) = f[Len(offers)]}

\* Kept is the last value of the function that its definition builds.
LEMMA KeptUnfold ==
  ASSUME NEW S, NEW offers \in Seq(S), NEW l
  PROVE  KeptOfPrefixes(S, offers, l) # {}
<1> DEFINE N == Len(offers)
           After(i, k) ==
             IF Store!Fits(offers[i], k, l) THEN Append(k, offers[i]) ELSE k
           body(f) == [i \in 0..N |-> IF i = 0 THEN << >> ELSE After(i, f[i - 1])]
           step == [i \in 1..N |-> [k \in Seq(S) |-> After(i, k)]]
<1>1. N \in Nat /\ \A i \in 1..N : offers[i] \in S
  OBVIOUS
<1>2. \A i \in 1..N : \A k \in Seq(S) : After(i, k) \in Seq(S)
  BY <1>1, AppendProperties
<1> HIDE DEF After, N
<1>3. step \in [1..N -> [Seq(S) -> Seq(S)]]
  BY <1>2
<1>4. << >> \in Seq(S)
  OBVIOUS
<1>5. Runs(N, Seq(S), << >>, step) # {}
  <2> HIDE DEF step
  <2> QED
    BY <1>1, <1>3, <1>4, Recursion
<1>6. PICK f \in [0..N -> Seq(S)] :
        f[0] = << >> /\ \A i \in 1..N : f[i] = After(i, f[i - 1])
  <2>1. PICK f \in [0..N -> Seq(S)] :
          f[0] = << >> /\ \A i \in 1..N : f[i] = step[i][f[i - 1]]
    <3> HIDE DEF step
    <3> QED
      BY <1>5 DEF Runs
  <2>2. ASSUME NEW i \in 1..N PROVE f[i] = After(i, f[i - 1])
    <3>1. i - 1 \in 0..N /\ i \in 1..N
      BY <1>1
    <3>2. f[i - 1] \in Seq(S)
      BY <2>1, <3>1
    <3> QED
      BY <2>1, <3>1, <3>2
  <2> QED
    BY <2>1, <2>2
<1>7. f = body(f)
  BY <1>6
<1> DEFINE u == CHOOSE h : h = body(h)
<1>8. u = body(u)
  BY <1>7
<1>9. Store!Kept(offers, l) = u[N]
  BY DEF Store!Kept, After, N
<1> HIDE DEF u
<1>10. u[0] = << >> /\ \A i \in 1..N : u[i] = After(i, u[i - 1])
  BY <1>1, <1>8
<1> DEFINE P == {i \in 0..N : u[i] = f[i]}
<1>11. 0..N \subseteq P
  <2>1. 0 \in P
    BY <1>1, <1>6, <1>10
  <2>2. \A i \in 1..N : i - 1 \in P => i \in P
    BY <1>1, <1>6, <1>10
  <2> HIDE DEF P
  <2> QED
    BY <1>1, <2>1, <2>2, Climb
<1> QED
  BY <1>1, <1>6, <1>9, <1>11 DEF After, N, KeptOfPrefixes

\* Nothing is kept of no offers.
LEMMA KeptNone == ASSUME NEW l PROVE Store!Kept(<< >>, l) = << >>
<1>1. << >> \in Seq({}) /\ Len(<< >>) = 0
  OBVIOUS
<1>2. KeptOfPrefixes({}, << >>, l) # {}
  BY <1>1, KeptUnfold
<1> QED
  BY <1>1, <1>2 DEF KeptOfPrefixes

\* One more offer is kept behind the others when it fits.
LEMMA KeptAppend ==
  ASSUME NEW S, NEW offers \in Seq(S), NEW p \in S, NEW l
  PROVE  Store!Kept(Append(offers, p), l)
           = IF Store!Fits(p, Store!Kept(offers, l), l)
             THEN Append(Store!Kept(offers, l), p) ELSE Store!Kept(offers, l)
<1> DEFINE t == Append(offers, p)
           N == Len(offers)
           After(o, k) == IF Store!Fits(o, k, l) THEN Append(k, o) ELSE k
<1>1. /\ t \in Seq(S) /\ Len(t) = N + 1 /\ N \in Nat /\ t[N + 1] = p
      /\ \A i \in 1..N : t[i] = offers[i]
  OBVIOUS
<1>2. PICK f \in [0..N -> Seq(S)] :
        /\ f[0] = << >>
        /\ \A i \in 1..N : f[i] = After(offers[i], f[i - 1])
        /\ Store!Kept(offers, l) = f[N]
  <2>1. KeptOfPrefixes(S, offers, l) # {}
    BY KeptUnfold
  <2> QED
    BY <2>1 DEF KeptOfPrefixes
<1> HIDE DEF t
<1>3. PICK g \in [0..(N + 1) -> Seq(S)] :
        /\ g[0] = << >>
        /\ \A i \in 1..(N + 1) : g[i] = After(t[i], g[i - 1])
        /\ Store!Kept(t, l) = g[N + 1]
  <2>1. KeptOfPrefixes(S, t, l) # {}
    BY KeptUnfold, <1>1
  <2> QED
    BY <1>1, <2>1 DEF KeptOfPrefixes
<1> HIDE DEF N, After
<1> DEFINE P == {i \in 0..N : g[i] = f[i]}
<1>4. 0..N \subseteq P
  <2>1. 0 \in P
    BY <1>1, <1>2, <1>3
  <2>2. \A i \in 1..N : i - 1 \in P => i \in P
    BY <1>1, <1>2, <1>3
  <2> HIDE DEF P
  <2> QED
    BY <1>1, <2>1, <2>2, Climb
<1>5. g[N + 1] = After(p, g[N])
  <2>1. N + 1 \in 1..(N + 1) /\ (N + 1) - 1 = N
    BY <1>1
  <2> QED
    BY <2>1, <1>1, <1>3
<1> QED
  BY <1>1, <1>2, <1>3, <1>4, <1>5 DEF t, After

-----------------------------------------------------------------------------
(* The inductive invariants *)

\* Nothing has been offered from a start's first step until its listener runs.
FreshInv ==
  pc[Listener] = "none" /\
  pc[Api] \notin {"check", "args", "callback", "clean", "stop_free"} =>
    offered = <<>>

\* The socket is open from start's last steps to the end of stop's join, and its queue
\* holds the frames that arrived last, numbered in order of arrival.
SocketInv ==
  /\ sockfd = "open" => \/ pc[Api] \in {"spawn", "join", "undo", "undo_free"}
                        \/ pc[Api] = "idle" /\ running
  /\ sockfd # "open" => sockq = <<>> /\ arrived = 0
  /\ \A i \in DOMAIN sockq : sockq[i].id = arrived - Len(sockq) + i

\* The frame in the listener's buffer is the one before those in the queue, and the
\* frames offered are the ones before that.
InHand == IF pc[Listener] \in {"callback", "add", "room", "account"} THEN 1 ELSE 0
ReceivedInv ==
  /\ InHand = 1 => frame.id = arrived - Len(sockq)
  /\ pc[Listener] # "none" /\ Caching =>
       \A i \in DOMAIN offered :
          offered[i].id = arrived - Len(sockq) - InHand - Len(offered) + i

\* A packet goes into the buffers before it is counted.
StoredInv ==
  pc[Listener] = "account" =>
    /\ packet_lengths[packet_count] = frame.len
    /\ \A b \in 1..frame.len : packet_cache[cache_used + b - 1] = frame.id

\* The packets in the buffers fill the bytes in use.
LengthsInv ==
  /\ \A i \in 0..(packet_count - 1) : packet_lengths[i] \in Lengths
  /\ cache_used = Sum(LengthsOf(packet_count))

\* The cache holds what a fresh store of its limits keeps of the frames offered.
KeptInv == ~InClear => Decoded(packet_count) = Store!Kept(Offers, Limit)

\* What stop has read of the counters while no clear overlapped.
HandedInv ==
  /\ ~Delivering /\ pc[Api] \notin {"clean", "stop_free"} =>
       handed = [count |-> Unread, total |-> Unread]
  /\ Delivering /\ ~raced =>
       /\ ~InClear /\ packet_count > 0
       /\ handed.count \in {Unread, packet_count}
       /\ handed.total \in {Unread, total_bytes}
  /\ pc[Api] = "callback" => handed.count # Unread /\ handed.total # Unread

\* A session that caches has a buffer of at least one byte.
SizeInv ==
  /\ pc[Api] \in {"init", "malloc"} => request.size > 0
  /\ Caching /\ (running \/ pc[Api] \in {"socket", "join"}) => cache_size > 0

\* The inductive invariant.
DInv ==
  /\ IInv /\ FreshInv /\ SocketInv /\ ReceivedInv /\ StoredInv /\ LengthsInv /\ KeptInv
  /\ HandedInv /\ SizeInv

USE UsersAssumption, NumbersAssumption, RequestsAssumption
USE DEF Move, Test, Lock, Unlock, data, buffers, counters, session, call, delivery,
        wire, Threads, Api, Listener, Free

-----------------------------------------------------------------------------
(* The frames and what stop reads *)

\* Only the listener adds to the history; stop empties the cache once it is gone.
LEMMA FreshStep == DInv /\ [Next]_vars => FreshInv'
<1> SUFFICES ASSUME DInv, [Next]_vars PROVE FreshInv'
  OBVIOUS
<1> USE DEF DInv, IInv, TypeOK, ControlTypeOK, LifeInv, AfterCallback, ApiLabels,
            ListenerLabels, UserLabels, FreshInv, ClosedCache, EmptyCounters
<1>1. CASE StartCall
  BY <1>1 DEF StartCall, StartWhileRunning, StartBegin
<1>2. CASE StopBegin \/ ApiLock
  BY <1>2 DEF StopBegin, ApiLock, InitLock, UndoLock, StopLock
<1>3. CASE InitCache \/ InitCacheFails
  BY <1>3 DEF InitCache, InitCacheFails
<1>4. CASE OpenSocket \/ OpenSocketFails
  BY <1>4 DEF OpenSocket, OpenSocketFails
<1>5. CASE Spawn
  BY <1>5 DEF Spawn
<1>6. CASE SpawnFails \/ Undo
  BY <1>6 DEF SpawnFails, Undo
<1>7. CASE Join
  BY <1>7 DEF Join
<1>8. CASE StopCheck \/ CacheCallback
  BY <1>8 DEF StopCheck, CacheCallback
<1>9. CASE ReadArgument \/ StopCleanup
  BY <1>9 DEF ReadArgument, StopCleanup
<1>10. CASE ListenerLoop \/ PacketCallback \/ RecvFails \/ AddLock
  BY <1>10 DEF ListenerLoop, PacketCallback, RecvFails, AddLock
<1>11. CASE Recv
  BY <1>11 DEF Recv
<1>12. CASE AddDrop
  BY <1>12 DEF AddDrop
<1>13. CASE AddStore
  BY <1>13 DEF AddStore
<1>14. CASE AddAccount
  BY <1>14 DEF AddAccount
<1>15. ASSUME NEW n \in Lengths, Arrive(n) PROVE FreshInv'
  BY <1>15 DEF Arrive
<1>16. ASSUME NEW u \in Users, UserLock(u) \/ GetStats(u) PROVE FreshInv'
  BY <1>16 DEF UserLock, StatsLock, ClearLock, GetStats
<1>17. ASSUME NEW u \in Users, ClearUsed(u) \/ ClearRest(u) PROVE FreshInv'
  BY <1>17 DEF ClearUsed, ClearRest
<1>18. CASE UNCHANGED vars
  BY <1>18 DEF vars
<1> QED
  BY <1>1, <1>2, <1>3, <1>4, <1>5, <1>6, <1>7, <1>8, <1>9, <1>10, <1>11, <1>12, <1>13,
     <1>14, <1>15, <1>16, <1>17, <1>18
  DEF Next, ApiStep, ListenerStep, RecvReturns, UserStep

\* The queue grows at its end and goes with the socket.
LEMMA SocketStep == DInv /\ [Next]_vars => SocketInv'
<1> SUFFICES ASSUME DInv, [Next]_vars PROVE SocketInv'
  OBVIOUS
<1> USE DEF DInv, IInv, TypeOK, ControlTypeOK, LifeInv, AfterCallback, ApiLabels,
            ListenerLabels, UserLabels, SocketInv, WireTypeOK
<1>1. CASE StartCall
  BY <1>1 DEF StartCall, StartWhileRunning, StartBegin
<1>2. CASE StopBegin \/ ApiLock
  BY <1>2 DEF StopBegin, ApiLock, InitLock, UndoLock, StopLock
<1>3. CASE InitCache \/ InitCacheFails
  BY <1>3 DEF InitCache, InitCacheFails
<1>4. CASE OpenSocket \/ OpenSocketFails
  BY <1>4 DEF OpenSocket, OpenSocketFails
<1>5. CASE Spawn
  BY <1>5 DEF Spawn
<1>6. CASE SpawnFails \/ Undo
  BY <1>6 DEF SpawnFails, Undo
<1>7. CASE Join
  BY <1>7 DEF Join
<1>8. CASE StopCheck \/ CacheCallback
  BY <1>8 DEF StopCheck, CacheCallback
<1>9. CASE ReadArgument \/ StopCleanup
  BY <1>9 DEF ReadArgument, StopCleanup
<1>10. CASE ListenerLoop \/ PacketCallback \/ RecvFails \/ AddLock
  BY <1>10 DEF ListenerLoop, PacketCallback, RecvFails, AddLock
<1>11. CASE Recv
  BY <1>11 DEF Recv
<1>12. CASE AddDrop
  BY <1>12 DEF AddDrop
<1>13. CASE AddStore
  BY <1>13 DEF AddStore
<1>14. CASE AddAccount
  BY <1>14 DEF AddAccount
<1>15. ASSUME NEW n \in Lengths, Arrive(n) PROVE SocketInv'
  BY <1>15 DEF Arrive
<1>16. ASSUME NEW u \in Users, UserLock(u) \/ GetStats(u) PROVE SocketInv'
  BY <1>16 DEF UserLock, StatsLock, ClearLock, GetStats
<1>17. ASSUME NEW u \in Users, ClearUsed(u) \/ ClearRest(u) PROVE SocketInv'
  BY <1>17 DEF ClearUsed, ClearRest
<1>18. CASE UNCHANGED vars
  BY <1>18 DEF vars
<1> QED
  BY <1>1, <1>2, <1>3, <1>4, <1>5, <1>6, <1>7, <1>8, <1>9, <1>10, <1>11, <1>12, <1>13,
     <1>14, <1>15, <1>16, <1>17, <1>18
  DEF Next, ApiStep, ListenerStep, RecvReturns, UserStep

\* A frame moves from the queue to the listener's buffer and from there to the history.
LEMMA ReceivedStep == DInv /\ [Next]_vars => ReceivedInv'
<1> SUFFICES ASSUME DInv, [Next]_vars PROVE ReceivedInv'
  OBVIOUS
<1> USE DEF DInv, IInv, TypeOK, ControlTypeOK, LifeInv, AfterCallback, ApiLabels,
            ListenerLabels, UserLabels, FreshInv, SocketInv, ReceivedInv, InHand,
            FrameInv, Caching, WireTypeOK, CacheTypeOK, ClosedCache, EmptyCounters
<1>1. CASE StartCall
  BY <1>1 DEF StartCall, StartWhileRunning, StartBegin
<1>2. CASE StopBegin \/ ApiLock
  BY <1>2 DEF StopBegin, ApiLock, InitLock, UndoLock, StopLock
<1>3. CASE InitCache \/ InitCacheFails
  BY <1>3 DEF InitCache, InitCacheFails
<1>4. CASE OpenSocket \/ OpenSocketFails
  BY <1>4 DEF OpenSocket, OpenSocketFails
<1>5. CASE Spawn
  BY <1>5 DEF Spawn
<1>6. CASE SpawnFails \/ Undo
  BY <1>6 DEF SpawnFails, Undo
<1>7. CASE Join
  BY <1>7 DEF Join
<1>8. CASE StopCheck \/ CacheCallback
  BY <1>8 DEF StopCheck, CacheCallback
<1>9. CASE ReadArgument \/ StopCleanup
  BY <1>9 DEF ReadArgument, StopCleanup
<1>10. CASE ListenerLoop \/ PacketCallback \/ RecvFails \/ AddLock
  BY <1>10 DEF ListenerLoop, PacketCallback, RecvFails, AddLock
<1>11. CASE Recv
  BY <1>11 DEF Recv
<1>12. CASE AddDrop
  <2>1. /\ offered' = Append(offered, frame)
        /\ pc[Listener] = "room" /\ pc'[Listener] = "loop"
        /\ UNCHANGED <<arrived, sockq, user_cache_cb>>
    BY <1>12 DEF AddDrop
  <2>2. /\ Len(offered') = Len(offered) + 1
        /\ \A i \in DOMAIN offered' :
             \/ i \in DOMAIN offered /\ offered'[i] = offered[i]
             \/ i = Len(offered) + 1 /\ offered'[i] = frame
    <3>1. offered \in Seq(FrameSet) /\ frame \in FrameSet
      BY <2>1 DEF FrameInv
    <3> QED
      BY <2>1, <3>1
  <2>3. /\ InHand = 1 /\ InHand' = 0 /\ frame.id = arrived - Len(sockq)
        /\ Caching
        /\ \A i \in DOMAIN offered :
             offered[i].id = arrived - Len(sockq) - 1 - Len(offered) + i
    BY <2>1 DEF FrameInv
  <2>4. Len(offered) \in Nat /\ Len(sockq) \in Nat /\ arrived \in Int
    OBVIOUS
  <2>5. \A i \in DOMAIN offered' :
          offered'[i].id = arrived - Len(sockq) - Len(offered') + i
    <3> TAKE i \in DOMAIN offered'
    <3>1. CASE i \in DOMAIN offered /\ offered'[i] = offered[i]
      <4>1. i \in Int
        BY <3>1
      <4> QED
        BY <2>2, <2>3, <2>4, <3>1, <4>1
    <3>2. CASE i = Len(offered) + 1 /\ offered'[i] = frame
      BY <2>2, <2>3, <2>4, <3>2
    <3> QED
      BY <2>2, <3>1, <3>2
  <2> QED
    BY <2>1, <2>3, <2>4, <2>5
<1>13. CASE AddStore
  BY <1>13 DEF AddStore
<1>14. CASE AddAccount
  <2>1. /\ offered' = Append(offered, frame)
        /\ pc[Listener] = "account" /\ pc'[Listener] = "loop"
        /\ UNCHANGED <<arrived, sockq, user_cache_cb>>
    BY <1>14 DEF AddAccount
  <2>2. /\ Len(offered') = Len(offered) + 1
        /\ \A i \in DOMAIN offered' :
             \/ i \in DOMAIN offered /\ offered'[i] = offered[i]
             \/ i = Len(offered) + 1 /\ offered'[i] = frame
    <3>1. offered \in Seq(FrameSet) /\ frame \in FrameSet
      BY <2>1 DEF FrameInv
    <3> QED
      BY <2>1, <3>1
  <2>3. /\ InHand = 1 /\ InHand' = 0 /\ frame.id = arrived - Len(sockq)
        /\ Caching
        /\ \A i \in DOMAIN offered :
             offered[i].id = arrived - Len(sockq) - 1 - Len(offered) + i
    BY <2>1 DEF FrameInv
  <2>4. Len(offered) \in Nat /\ Len(sockq) \in Nat /\ arrived \in Int
    OBVIOUS
  <2>5. \A i \in DOMAIN offered' :
          offered'[i].id = arrived - Len(sockq) - Len(offered') + i
    <3> TAKE i \in DOMAIN offered'
    <3>1. CASE i \in DOMAIN offered /\ offered'[i] = offered[i]
      <4>1. i \in Int
        BY <3>1
      <4> QED
        BY <2>2, <2>3, <2>4, <3>1, <4>1
    <3>2. CASE i = Len(offered) + 1 /\ offered'[i] = frame
      BY <2>2, <2>3, <2>4, <3>2
    <3> QED
      BY <2>2, <3>1, <3>2
  <2> QED
    BY <2>1, <2>3, <2>4, <2>5
<1>15. ASSUME NEW n \in Lengths, Arrive(n) PROVE ReceivedInv'
  BY <1>15 DEF Arrive
<1>16. ASSUME NEW u \in Users, UserLock(u) \/ GetStats(u) PROVE ReceivedInv'
  BY <1>16 DEF UserLock, StatsLock, ClearLock, GetStats
<1>17. ASSUME NEW u \in Users, ClearUsed(u) \/ ClearRest(u) PROVE ReceivedInv'
  <2>1. CASE ClearUsed(u)
    BY <2>1 DEF ClearUsed
  <2>2. CASE ClearRest(u)
    BY <2>2 DEF ClearRest
  <2> QED
    BY <1>17, <2>1, <2>2
<1>18. CASE UNCHANGED vars
  BY <1>18 DEF vars
<1> QED
  BY <1>1, <1>2, <1>3, <1>4, <1>5, <1>6, <1>7, <1>8, <1>9, <1>10, <1>11, <1>12, <1>13,
     <1>14, <1>15, <1>16, <1>17, <1>18
  DEF Next, ApiStep, ListenerStep, RecvReturns, UserStep

\* stop reads counters that only a clear could change under it, and notices it.
LEMMA HandedStep == DInv /\ [Next]_vars => HandedInv'
<1> SUFFICES ASSUME DInv, [Next]_vars PROVE HandedInv'
  OBVIOUS
<1> USE DEF DInv, IInv, TypeOK, ControlTypeOK, LifeInv, AfterCallback, ApiLabels,
            ListenerLabels, UserLabels, HandedInv, Delivering, InClear, BooksInv,
            SessionTypeOK, CacheTypeOK, BooksBalance, ClosedCache, EmptyCounters,
            Unread, MutexInv, Critical
<1>1. CASE StartCall
  BY <1>1 DEF StartCall, StartWhileRunning, StartBegin
<1>2. CASE StopBegin \/ ApiLock
  BY <1>2 DEF StopBegin, ApiLock, InitLock, UndoLock, StopLock
<1>3. CASE InitCache \/ InitCacheFails
  BY <1>3 DEF InitCache, InitCacheFails
<1>4. CASE OpenSocket \/ OpenSocketFails
  BY <1>4 DEF OpenSocket, OpenSocketFails
<1>5. CASE Spawn
  BY <1>5 DEF Spawn
<1>6. CASE SpawnFails \/ Undo
  BY <1>6 DEF SpawnFails, Undo
<1>7. CASE Join
  BY <1>7 DEF Join
<1>8. CASE StopCheck \/ CacheCallback
  <2>1. CASE CacheCallback
    BY <1>8, <2>1 DEF CacheCallback
  <2>2. CASE StopCheck /\ pc'[Api] = "args"
    <3>1. packet_count > 0 /\ UNCHANGED <<packet_count, handed>> /\ pc[Api] = "check"
      BY <2>2 DEF StopCheck
    <3>2. ~InClear
      BY <3>1
    <3>3. \A u \in Users : pc'[u] = pc[u]
      BY <2>2 DEF StopCheck
    <3> QED
      BY <2>2, <3>1, <3>2, <3>3
  <2>3. CASE StopCheck /\ pc'[Api] = "clean"
    BY <2>3 DEF StopCheck
  <2> QED
    BY <1>8, <2>1, <2>2, <2>3 DEF StopCheck
<1>9. CASE ReadArgument \/ StopCleanup
  BY <1>9 DEF ReadArgument, StopCleanup
<1>10. CASE ListenerLoop \/ PacketCallback \/ RecvFails \/ AddLock
  BY <1>10 DEF ListenerLoop, PacketCallback, RecvFails, AddLock
<1>11. CASE Recv
  BY <1>11 DEF Recv
<1>12. CASE AddDrop
  BY <1>12 DEF AddDrop
<1>13. CASE AddStore
  BY <1>13 DEF AddStore
<1>14. CASE AddAccount
  BY <1>14 DEF AddAccount
<1>15. ASSUME NEW n \in Lengths, Arrive(n) PROVE HandedInv'
  BY <1>15 DEF Arrive
<1>16. ASSUME NEW u \in Users, UserLock(u) \/ GetStats(u) PROVE HandedInv'
  BY <1>16 DEF UserLock, StatsLock, ClearLock, GetStats
<1>17. ASSUME NEW u \in Users, ClearUsed(u) \/ ClearRest(u) PROVE HandedInv'
  BY <1>17 DEF ClearUsed, ClearRest
<1>18. CASE UNCHANGED vars
  BY <1>18 DEF vars
<1> QED
  BY <1>1, <1>2, <1>3, <1>4, <1>5, <1>6, <1>7, <1>8, <1>9, <1>10, <1>11, <1>12, <1>13,
     <1>14, <1>15, <1>16, <1>17, <1>18
  DEF Next, ApiStep, ListenerStep, RecvReturns, UserStep

\* A cache is asked for with a size above 0.
LEMMA SizeStep == DInv /\ [Next]_vars => SizeInv'
<1> SUFFICES ASSUME DInv, [Next]_vars PROVE SizeInv'
  OBVIOUS
<1> USE DEF DInv, IInv, TypeOK, ControlTypeOK, LifeInv, AfterCallback, ApiLabels,
            ListenerLabels, UserLabels, SizeInv, Caching, CacheTypeOK, ClosedCache,
            EmptyCounters
<1>1. CASE StartCall
  BY <1>1 DEF StartCall, StartWhileRunning, StartBegin
<1>2. CASE StopBegin \/ ApiLock
  BY <1>2 DEF StopBegin, ApiLock, InitLock, UndoLock, StopLock
<1>3. CASE InitCache \/ InitCacheFails
  BY <1>3 DEF InitCache, InitCacheFails
<1>4. CASE OpenSocket \/ OpenSocketFails
  BY <1>4 DEF OpenSocket, OpenSocketFails
<1>5. CASE Spawn
  BY <1>5 DEF Spawn
<1>6. CASE SpawnFails \/ Undo
  BY <1>6 DEF SpawnFails, Undo
<1>7. CASE Join
  BY <1>7 DEF Join
<1>8. CASE StopCheck \/ CacheCallback
  BY <1>8 DEF StopCheck, CacheCallback
<1>9. CASE ReadArgument \/ StopCleanup
  BY <1>9 DEF ReadArgument, StopCleanup
<1>10. CASE ListenerLoop \/ PacketCallback \/ RecvFails \/ AddLock
  BY <1>10 DEF ListenerLoop, PacketCallback, RecvFails, AddLock
<1>11. CASE Recv
  BY <1>11 DEF Recv
<1>12. CASE AddDrop
  BY <1>12 DEF AddDrop
<1>13. CASE AddStore
  BY <1>13 DEF AddStore
<1>14. CASE AddAccount
  BY <1>14 DEF AddAccount
<1>15. ASSUME NEW n \in Lengths, Arrive(n) PROVE SizeInv'
  BY <1>15 DEF Arrive
<1>16. ASSUME NEW u \in Users, UserLock(u) \/ GetStats(u) PROVE SizeInv'
  BY <1>16 DEF UserLock, StatsLock, ClearLock, GetStats
<1>17. ASSUME NEW u \in Users, ClearUsed(u) \/ ClearRest(u) PROVE SizeInv'
  BY <1>17 DEF ClearUsed, ClearRest
<1>18. CASE UNCHANGED vars
  BY <1>18 DEF vars
<1> QED
  BY <1>1, <1>2, <1>3, <1>4, <1>5, <1>6, <1>7, <1>8, <1>9, <1>10, <1>11, <1>12, <1>13,
     <1>14, <1>15, <1>16, <1>17, <1>18
  DEF Next, ApiStep, ListenerStep, RecvReturns, UserStep

-----------------------------------------------------------------------------
(* The content of the cache *)

\* Steps that leave the cache alone and do not start the account of a packet.
Unmoved ==
  /\ UNCHANGED <<buffers, counters>>
  /\ InClear <=> InClear'
  /\ pc'[Listener] = "account" => pc[Listener] = "account" /\ frame' = frame

\* What a step may do to the cache.
Written ==
  \/ Unmoved
  \/ InitCache \/ InitCacheFails \/ Undo \/ StopCleanup
  \/ AddDrop \/ AddStore \/ AddAccount
  \/ \E u \in Users : ClearUsed(u) \/ ClearRest(u)

\* Every step leaves the cache alone or is one of its writers.
LEMMA ContentWriters == DInv /\ [Next]_vars => Written
<1> SUFFICES ASSUME DInv, [Next]_vars PROVE Written
  OBVIOUS
<1> USE DEF DInv, IInv, TypeOK, ControlTypeOK, LifeInv, AfterCallback, ApiLabels,
            ListenerLabels, UserLabels, InClear, Unmoved, Written
<1>1. CASE StartCall
  BY <1>1 DEF StartCall, StartWhileRunning, StartBegin
<1>2. CASE StopBegin \/ ApiLock
  BY <1>2 DEF StopBegin, ApiLock, InitLock, UndoLock, StopLock
<1>3. CASE InitCache \/ InitCacheFails
  BY <1>3 DEF InitCache, InitCacheFails
<1>4. CASE OpenSocket \/ OpenSocketFails
  BY <1>4 DEF OpenSocket, OpenSocketFails
<1>5. CASE Spawn
  BY <1>5 DEF Spawn
<1>6. CASE SpawnFails \/ Undo
  BY <1>6 DEF SpawnFails, Undo
<1>7. CASE Join
  BY <1>7 DEF Join
<1>8. CASE StopCheck \/ CacheCallback
  BY <1>8 DEF StopCheck, CacheCallback
<1>9. CASE ReadArgument \/ StopCleanup
  BY <1>9 DEF ReadArgument, StopCleanup
<1>10. CASE ListenerLoop \/ PacketCallback \/ RecvFails \/ AddLock
  BY <1>10 DEF ListenerLoop, PacketCallback, RecvFails, AddLock
<1>11. CASE Recv
  BY <1>11 DEF Recv
<1>12. CASE AddDrop
  BY <1>12 DEF AddDrop
<1>13. CASE AddStore
  BY <1>13 DEF AddStore
<1>14. CASE AddAccount
  BY <1>14 DEF AddAccount
<1>15. ASSUME NEW n \in Lengths, Arrive(n) PROVE Written
  BY <1>15 DEF Arrive
<1>16. ASSUME NEW u \in Users, UserLock(u) \/ GetStats(u) PROVE Written
  BY <1>16 DEF UserLock, StatsLock, ClearLock, GetStats
<1>17. ASSUME NEW u \in Users, ClearUsed(u) \/ ClearRest(u) PROVE Written
  BY <1>17 DEF ClearUsed, ClearRest
<1>18. CASE UNCHANGED vars
  BY <1>18 DEF vars
<1> QED
  BY <1>1, <1>2, <1>3, <1>4, <1>5, <1>6, <1>7, <1>8, <1>9, <1>10, <1>11, <1>12, <1>13,
     <1>14, <1>15, <1>16, <1>17, <1>18
  DEF Next, ApiStep, ListenerStep, RecvReturns, UserStep

\* The numbers in the cache's books and lengths are natural.
LEMMA SizesTyped ==
  ASSUME DInv
  PROVE  /\ packet_count \in Nat /\ cache_used \in Nat /\ max_packets \in Nat
         /\ cache_size \in Nat /\ dropped_packets \in Nat
         /\ \A i \in 0..(packet_count - 1) : packet_lengths[i] \in Nat
         /\ Lengths \subseteq Nat
<1>1. Lengths \subseteq Nat
  OBVIOUS
<1>2. \A i \in 0..(packet_count - 1) : packet_lengths[i] \in Lengths
  BY DEF DInv, LengthsInv
<1>3. /\ packet_count \in Nat /\ cache_used \in Nat /\ max_packets \in Nat
      /\ cache_size \in Nat /\ dropped_packets \in Nat
  BY DEF DInv, IInv, TypeOK, CacheTypeOK
<1> QED
  BY <1>1, <1>2, <1>3

\* An emptied cache holds nothing.
LEMMA EmptyLengths ==
  ASSUME packet_count' = 0, cache_used' = 0
  PROVE  LengthsInv' /\ Decoded(packet_count)' = << >>
<1>1. LengthsOf(packet_count)' = << >> /\ Decoded(packet_count)' = << >>
  BY DEF LengthsOf, Decoded, FirstLengths, Cut
<1> QED
  BY <1>1, SumEmpty DEF LengthsInv

\* It holds what a store keeps of no offers.
LEMMA EmptyContent ==
  ASSUME packet_count' = 0, cache_used' = 0, offered' = << >>, pc'[Listener] # "account"
  PROVE  StoredInv' /\ LengthsInv' /\ KeptInv'
<1>1. Offers' = << >>
  BY DEF Offers
<1> QED
  BY <1>1, EmptyLengths, KeptNone DEF StoredInv, KeptInv

\* The frame just received fits into the store when add_packet_to_cache finds room.
LEMMA RoomIsFit ==
  ASSUME DInv, frame \in FrameSet
  PROVE  Store!Fits(Bytes(frame), Decoded(packet_count), Limit) <=> HasRoom(frame.len)
<1>1. frame.len \in Lengths /\ frame.len \in Nat
  BY SizesTyped DEF FrameSet
<1>2. Len(Bytes(frame)) = frame.len
  BY <1>1 DEF Bytes
<1>3. Len(Decoded(packet_count)) = packet_count
      /\ Store!Size(Decoded(packet_count)) = cache_used
  BY SizesTyped, CutSize DEF Decoded, DInv, LengthsInv, LengthsOf
<1>4. Add32(cache_used, frame.len) = cache_used + frame.len
  BY <1>1, SizesTyped, NoWrap DEF DInv, IInv, BooksInv
<1>5. Limit.bytes = cache_size /\ Limit.packets = max_packets
  BY DEF Limit
<1> QED
  BY <1>2, <1>3, <1>4, <1>5 DEF Store!Fits, HasRoom

\* Append as a function of the index.
LEMMA AppendAsFunction ==
  ASSUME NEW S, NEW s \in Seq(S), NEW x
  PROVE  Append(s, x) = [i \in 1..(Len(s) + 1) |-> IF i = Len(s) + 1 THEN x ELSE s[i]]
<1>1. s \in Seq(S \cup {x}) /\ x \in S \cup {x} /\ Len(s) \in Nat
  OBVIOUS
<1>2. /\ Append(s, x) \in Seq(S \cup {x}) /\ Len(Append(s, x)) = Len(s) + 1
      /\ \A i \in 1..Len(s) : Append(s, x)[i] = s[i]
      /\ Append(s, x)[Len(s) + 1] = x
  BY <1>1, AppendProperties
<1> DEFINE t == Append(s, x)
           g == [i \in 1..(Len(s) + 1) |-> IF i = Len(s) + 1 THEN x ELSE s[i]]
<1>3. DOMAIN t = 1..(Len(s) + 1) /\ t = [i \in DOMAIN t |-> t[i]]
  <2>1. t \in Seq(S \cup {x}) /\ Len(t) = Len(s) + 1
    BY <1>2
  <2> HIDE DEF t
  <2> QED
    BY <1>1, <2>1
<1>4. \A i \in 1..(Len(s) + 1) : t[i] = g[i]
  BY <1>1, <1>2
<1>5. DOMAIN g = 1..(Len(s) + 1) /\ g = [i \in DOMAIN g |-> g[i]]
  OBVIOUS
<1> HIDE DEF t, g
<1>6. t = g
  BY <1>3, <1>4, <1>5
<1> QED
  BY <1>6 DEF t, g

\* What a store keeps once the frame just received has been offered too.
LEMMA KeptOfOffers ==
  ASSUME DInv, frame \in FrameSet, offered' = Append(offered, frame)
  PROVE  Store!Kept(Offers', Limit)
           = IF Store!Fits(Bytes(frame), Store!Kept(Offers, Limit), Limit)
             THEN Append(Store!Kept(Offers, Limit), Bytes(frame))
             ELSE Store!Kept(Offers, Limit)
<1> DEFINE S == {Bytes(f) : f \in FrameSet}
<1>1. offered \in Seq(FrameSet)
  BY DEF DInv, IInv, TypeOK, CacheTypeOK
<1>2. /\ Len(offered') = Len(offered) + 1 /\ DOMAIN offered = 1..Len(offered)
      /\ offered' \in Seq(FrameSet) /\ Len(offered) \in Nat
      /\ \A i \in 1..Len(offered) : offered'[i] = offered[i] /\ offered[i] \in FrameSet
      /\ offered'[Len(offered) + 1] = frame
  BY <1>1
<1> HIDE DEF Offers
<1>3. Offers = [i \in 1..Len(offered) |-> Bytes(offered[i])]
  BY <1>2 DEF Offers
<1>4. Offers \in Seq(S) /\ Len(Offers) = Len(offered) /\ Bytes(frame) \in S
  BY <1>2, <1>3
<1>5. Offers' = [i \in 1..(Len(offered) + 1) |-> Bytes(offered'[i])]
  BY <1>2 DEF Offers
<1>6. Append(Offers, Bytes(frame))
        = [i \in 1..(Len(offered) + 1) |-> IF i = Len(offered) + 1 THEN Bytes(frame)
                                           ELSE Offers[i]]
  <2> HIDE DEF S
  <2> QED
    BY <1>4, AppendAsFunction
<1>7. \A i \in 1..(Len(offered) + 1) :
        Bytes(offered'[i]) = IF i = Len(offered) + 1 THEN Bytes(frame) ELSE Offers[i]
  BY <1>2, <1>3
<1>8. Offers' = Append(Offers, Bytes(frame))
  BY <1>5, <1>6, <1>7
<1> HIDE DEF S
<1> QED
  BY <1>4, <1>8, KeptAppend

\* A dropped frame changes neither the buffers nor what a store would keep.
LEMMA DropContent ==
  ASSUME DInv, AddDrop
  PROVE  StoredInv' /\ LengthsInv' /\ KeptInv'
<1>1. /\ frame \in FrameSet /\ ~HasRoom(frame.len) /\ pc[Listener] = "room"
      /\ pc'[Listener] = "loop" /\ offered' = Append(offered, frame)
      /\ \A u \in Users : pc'[u] = pc[u]
      /\ UNCHANGED <<buffers, cache_used, packet_count>>
  BY DEF DInv, IInv, TypeOK, ControlTypeOK, FrameInv, AddDrop
<1>2. Decoded(packet_count)' = Decoded(packet_count) /\ Limit' = Limit
  BY <1>1 DEF Decoded, Limit
<1>3. ~InClear'  => Store!Kept(Offers, Limit) = Decoded(packet_count)
  BY <1>1 DEF DInv, KeptInv, InClear
<1>4. ~InClear' => Store!Kept(Offers', Limit) = Store!Kept(Offers, Limit)
  <2>1. Store!Kept(Offers', Limit)
          = IF Store!Fits(Bytes(frame), Store!Kept(Offers, Limit), Limit)
            THEN Append(Store!Kept(Offers, Limit), Bytes(frame))
            ELSE Store!Kept(Offers, Limit)
    BY <1>1, KeptOfOffers
  <2>2. ~Store!Fits(Bytes(frame), Decoded(packet_count), Limit)
    BY <1>1, RoomIsFit
  <2> QED
    BY <1>3, <2>1, <2>2
<1> QED
  BY <1>1, <1>2, <1>3, <1>4 DEF StoredInv, LengthsInv, LengthsOf, KeptInv, DInv

\* A packet is written behind those in the cache.
LEMMA StoreContent ==
  ASSUME DInv, AddStore
  PROVE  /\ StoredInv' /\ LengthsInv' /\ KeptInv'
         /\ Decoded(packet_count)' = Decoded(packet_count)
<1>1. /\ frame \in FrameSet /\ HasRoom(frame.len) /\ pc[Listener] = "room"
      /\ pc'[Listener] = "account" /\ sockfd = "open"
      /\ \A u \in Users : pc'[u] = pc[u]
      /\ UNCHANGED <<cache_size, max_packets, cache_used, packet_count, offered, frame>>
      /\ Caching
  BY DEF DInv, IInv, TypeOK, ControlTypeOK, FrameInv, LifeInv, AddStore
<1>2. /\ DOMAIN packet_cache = 0..(cache_size - 1)
      /\ DOMAIN packet_lengths = 0..(max_packets - 1)
  BY <1>1 DEF DInv, IInv, LifeInv, BuffersInv
<1>3. /\ frame.len \in Lengths /\ frame.len \in Nat
      /\ Add32(cache_used, frame.len) = cache_used + frame.len
  BY <1>1, SizesTyped, NoWrap DEF DInv, IInv, BooksInv, FrameSet
<1>4. cache_used + frame.len <= cache_size /\ packet_count < max_packets
  BY <1>1, <1>3 DEF HasRoom
<1>5. /\ packet_cache' = [b \in DOMAIN packet_cache |->
                            IF b \in Target THEN frame.id ELSE packet_cache[b]]
      /\ packet_lengths' = [packet_lengths EXCEPT ![packet_count] = frame.len]
  BY DEF AddStore
<1>6. \A b \in 1..frame.len : packet_cache'[cache_used + b - 1] = frame.id
  BY <1>2, <1>3, <1>4, <1>5, SizesTyped DEF Target
<1>7. \A b \in 0..(cache_used - 1) : packet_cache'[b] = packet_cache[b]
  BY <1>2, <1>3, <1>4, <1>5, SizesTyped DEF Target
<1>8. /\ packet_lengths'[packet_count] = frame.len
      /\ \A i \in 0..(packet_count - 1) : packet_lengths'[i] = packet_lengths[i]
  BY <1>2, <1>4, <1>5, SizesTyped
<1>9. StoredInv'
  BY <1>1, <1>6, <1>8 DEF StoredInv
<1>10. /\ Cut(packet_cache', packet_lengths', packet_count)
             = Cut(packet_cache, packet_lengths, packet_count)
       /\ FirstLengths(packet_lengths', packet_count)
             = FirstLengths(packet_lengths, packet_count)
  <2>1. cache_used = Sum(FirstLengths(packet_lengths, packet_count))
    BY DEF DInv, LengthsInv, LengthsOf
  <2> QED
    BY <1>7, <1>8, <2>1, SizesTyped, CutLocal
<1>11. LengthsInv'
  BY <1>1, <1>8, <1>10 DEF DInv, LengthsInv, LengthsOf
<1>12. KeptInv' /\ Decoded(packet_count)' = Decoded(packet_count)
  BY <1>1, <1>10 DEF DInv, KeptInv, Decoded, InClear, Offers, Limit
<1> QED
  BY <1>9, <1>11, <1>12

\* Once counted, the packet is the last one in the cache.
LEMMA AccountContent ==
  ASSUME DInv, AddAccount
  PROVE  /\ StoredInv' /\ LengthsInv' /\ KeptInv'
         /\ Decoded(packet_count)' = Append(Decoded(packet_count), Bytes(frame))
<1>1. /\ frame \in FrameSet /\ HasRoom(frame.len) /\ pc[Listener] = "account"
      /\ pc'[Listener] = "loop" /\ offered' = Append(offered, frame)
      /\ \A u \in Users : pc'[u] = pc[u]
      /\ UNCHANGED buffers
      /\ packet_count' = packet_count + 1 /\ cache_used' = Add32(cache_used, frame.len)
  BY DEF DInv, IInv, TypeOK, ControlTypeOK, FrameInv, AddAccount
<1>2. /\ frame.len \in Lengths /\ frame.len \in Nat
      /\ cache_used' = cache_used + frame.len
  BY <1>1, SizesTyped, NoWrap DEF DInv, IInv, BooksInv, FrameSet
<1>3. /\ packet_lengths[packet_count] = frame.len
      /\ \A b \in 1..frame.len : packet_cache[cache_used + b - 1] = frame.id
      /\ cache_used = Sum(FirstLengths(packet_lengths, packet_count))
  BY <1>1 DEF DInv, StoredInv, LengthsInv, LengthsOf
<1>4. Decoded(packet_count)' = Append(Decoded(packet_count), Bytes(frame))
  <2>1. Cut(packet_cache, packet_lengths, packet_count + 1)
          = Append(Cut(packet_cache, packet_lengths, packet_count),
                   [b \in 1..packet_lengths[packet_count] |->
                      packet_cache[Sum(FirstLengths(packet_lengths, packet_count))
                                     + b - 1]])
    BY CutStep, SizesTyped
  <2>2. Bytes(frame) = [b \in 1..frame.len |-> packet_cache[cache_used + b - 1]]
    BY <1>3 DEF Bytes
  <2> QED
    BY <1>1, <1>3, <2>1, <2>2 DEF Decoded
<1>5. LengthsInv'
  <2>1. FirstLengths(packet_lengths, packet_count + 1)
          = Append(FirstLengths(packet_lengths, packet_count), frame.len)
    BY <1>3, FirstLengthsStep, SizesTyped
  <2>2. FirstLengths(packet_lengths, packet_count) \in Seq(Int) /\ frame.len \in Int
    BY <1>2, SizesTyped DEF FirstLengths
  <2>3. Sum(FirstLengths(packet_lengths, packet_count + 1)) = cache_used + frame.len
    BY <1>3, <2>1, <2>2, SumAppend
  <2>4. \A i \in 0..packet_count : packet_lengths[i] \in Lengths
    BY <1>2, <1>3, SizesTyped DEF DInv, LengthsInv
  <2> QED
    BY <1>1, <1>2, <2>3, <2>4, SizesTyped DEF LengthsInv, LengthsOf
<1>6. KeptInv'
  <2>1. ~InClear' => Store!Kept(Offers, Limit) = Decoded(packet_count)
    BY <1>1 DEF DInv, KeptInv, InClear
  <2>2. ~InClear' =>
          Store!Kept(Offers', Limit) = Append(Decoded(packet_count), Bytes(frame))
    <3>1. Store!Kept(Offers', Limit)
            = IF Store!Fits(Bytes(frame), Store!Kept(Offers, Limit), Limit)
              THEN Append(Store!Kept(Offers, Limit), Bytes(frame))
              ELSE Store!Kept(Offers, Limit)
      BY <1>1, KeptOfOffers
    <3>2. Store!Fits(Bytes(frame), Decoded(packet_count), Limit)
      BY <1>1, RoomIsFit
    <3> QED
      BY <2>1, <3>1, <3>2
  <2>3. Limit' = Limit
    BY <1>1 DEF Limit
  <2> QED
    BY <1>4, <2>2, <2>3 DEF KeptInv
<1> QED
  BY <1>1, <1>4, <1>5, <1>6 DEF StoredInv

\* A clear holds the mutex, so no packet is half stored.
LEMMA ClearAlone ==
  ASSUME DInv, NEW u \in Users, ClearUsed(u) \/ ClearRest(u)
  PROVE  /\ pc[Listener] # "account" /\ pc'[Listener] = pc[Listener]
         /\ \A t \in Users : pc[t] = "clear_rest" => t = u
<1>1. pc[u] \in Critical
  BY DEF ClearUsed, ClearRest, Critical
<1>2. cache_mutex = u /\ u # Listener /\ u \in Threads
  BY <1>1 DEF DInv, IInv, MutexInv
<1>3. pc'[Listener] = pc[Listener]
  BY <1>2 DEF ClearUsed, ClearRest, DInv, IInv, TypeOK, ControlTypeOK
<1> QED
  BY <1>2, <1>3 DEF DInv, IInv, MutexInv, Critical

\* The buffers keep holding what a store would keep.
LEMMA ContentStep == DInv /\ [Next]_vars => StoredInv' /\ LengthsInv' /\ KeptInv'
<1> SUFFICES ASSUME DInv, [Next]_vars PROVE StoredInv' /\ LengthsInv' /\ KeptInv'
  OBVIOUS
<1>1. CASE Unmoved
  <2>1. /\ Decoded(packet_count)' = Decoded(packet_count) /\ Offers' = Offers
        /\ Limit' = Limit /\ LengthsOf(packet_count)' = LengthsOf(packet_count)
    BY <1>1 DEF Unmoved, Decoded, Offers, Limit, LengthsOf
  <2> QED
    BY <1>1, <2>1 DEF Unmoved, DInv, StoredInv, LengthsInv, KeptInv
<1>2. CASE InitCache \/ Undo \/ StopCleanup
  <2>1. pc[Listener] = "none" /\ pc'[Listener] = "none"
    BY <1>2 DEF InitCache, Undo, StopCleanup, DInv, IInv, LifeInv, TypeOK, ControlTypeOK
  <2>2. packet_count' = 0 /\ cache_used' = 0 /\ offered' = << >>
    BY <1>2 DEF InitCache, Undo, StopCleanup, ClosedCache, EmptyCounters
  <2> QED
    BY <2>1, <2>2, EmptyContent
<1>3. CASE InitCacheFails
  <2>1. pc[Listener] = "none" /\ pc'[Listener] = "none" /\ pc[Api] = "malloc"
    BY <1>3 DEF InitCacheFails, DInv, IInv, LifeInv, TypeOK, ControlTypeOK
  <2>2. ~InClear
    BY <2>1 DEF DInv, IInv, MutexInv, InClear, Critical, TypeOK, ControlTypeOK
  <2>3. packet_count' = 0 /\ cache_used' = 0 /\ offered' = << >>
    BY <1>3, <2>1 DEF InitCacheFails, DInv, FreshInv, IInv, BooksInv, Idle
  <2> QED
    BY <2>1, <2>3, EmptyContent
<1>4. CASE AddDrop
  BY <1>4, DropContent
<1>5. CASE AddStore
  BY <1>5, StoreContent
<1>6. CASE AddAccount
  BY <1>6, AccountContent
<1>7. ASSUME NEW u \in Users, ClearUsed(u) PROVE StoredInv' /\ LengthsInv' /\ KeptInv'
  <2>1. packet_count' = 0 /\ cache_used' = 0 /\ pc'[u] = "clear_rest"
    BY <1>7 DEF ClearUsed, DInv, IInv, TypeOK, ControlTypeOK
  <2>2. InClear'
    BY <2>1 DEF InClear
  <2> QED
    BY <1>7, <2>1, <2>2, ClearAlone, EmptyLengths DEF StoredInv, KeptInv
<1>8. ASSUME NEW u \in Users, ClearRest(u) PROVE StoredInv' /\ LengthsInv' /\ KeptInv'
  <2>1. packet_count' = 0 /\ cache_used' = 0 /\ offered' = << >>
    BY <1>8 DEF ClearRest, InClear, DInv, IInv, BooksInv
  <2> QED
    BY <1>8, <2>1, ClearAlone, EmptyContent
<1> QED
  BY ContentWriters, <1>1, <1>2, <1>3, <1>4, <1>5, <1>6, <1>7, <1>8 DEF Written

-----------------------------------------------------------------------------
(* Each step of the cache is a step of the store *)

\* A store opened with a size above 0 has a buffer, which is not the null pointer.
LEMMA NotNull ==
  ASSUME NEW n \in Nat, n > 0, NEW b, DOMAIN b = 0..(n - 1)
  PROVE  b # NULL
<1>1. 0 \in DOMAIN b
  OBVIOUS
<1> QED
  BY <1>1 DEF NULL

\* The listener adds to an open store.
LEMMA AddsToOpenStore ==
  ASSUME DInv, pc[Listener] \in {"room", "account"}
  PROVE  /\ packet_cache # NULL /\ DOMAIN packet_cache = 0..(cache_size - 1)
         /\ StoreLimit = Limit /\ StoreLimit # [bytes |-> 0, packets |-> 0]
         /\ ~InClear /\ frame \in FrameSet
         /\ Bytes(frame) \in {Bytes(f) : f \in FrameSet}
<1>1. Caching /\ (running \/ pc[Api] = "join") /\ frame \in FrameSet
  BY DEF DInv, IInv, LifeInv, FrameInv
<1>2. DOMAIN packet_cache = 0..(cache_size - 1) /\ cache_size > 0 /\ cache_size \in Nat
  BY <1>1, SizesTyped DEF DInv, IInv, BuffersInv, SizeInv
<1>3. packet_cache # NULL
  BY <1>2, NotNull
<1>4. StoreLimit = Limit /\ Limit.bytes # 0
  BY <1>2, <1>3 DEF StoreLimit, Limit
<1>5. ~InClear
  BY DEF DInv, IInv, MutexInv, Critical, InClear
<1> QED
  BY <1>1, <1>2, <1>3, <1>4, <1>5

\* init_cache opens the store.
LEMMA InitCacheOpens == ASSUME DInv, InitCache PROVE Store!Next
<1> DEFINE l == [bytes |-> request.size, packets |-> PacketLimit(request.size)]
<1>1. /\ pc[Api] = "malloc" /\ request \in Requests
      /\ request.size > 0 /\ request.size \in Nat
  BY DEF InitCache, DInv, IInv, LifeInv, SizeInv
<1>2. l \in {[bytes |-> r.size, packets |-> PacketLimit(r.size)] : r \in Requests}
  BY <1>1
<1>3. StoreLimit = [bytes |-> 0, packets |-> 0]
  BY <1>1 DEF StoreLimit, DInv, IInv, BuffersInv, Idle
<1>4. /\ packet_cache' = Malloc(request.size) /\ cache_size' = request.size
      /\ max_packets' = PacketLimit(request.size)
      /\ packet_count' = 0 /\ cache_used' = 0 /\ dropped_packets' = 0
  BY DEF InitCache, EmptyCounters
<1>5. packet_cache' # NULL
  BY <1>1, <1>4, NotNull DEF Malloc
<1>6. StoreLimit' = l
  BY <1>4, <1>5 DEF StoreLimit, Limit
<1>7. Decoded(packet_count)' = << >> /\ StoreDropped' = 0
  BY <1>4, EmptyLengths DEF StoreDropped
<1>8. Store!Open(l)
  BY <1>3, <1>6, <1>7 DEF Store!Open, Store!Closed
<1> QED
  BY <1>2, <1>8 DEF Store!Next

\* Both cleanups close it.
LEMMA CleanupCloses == ASSUME DInv, Undo \/ StopCleanup PROVE Store!Next
<1>1. /\ packet_cache' = NULL /\ packet_count' = 0 /\ cache_used' = 0
      /\ dropped_packets' = 0
  BY DEF Undo, StopCleanup, ClosedCache, EmptyCounters
<1>2. /\ StoreLimit' = [bytes |-> 0, packets |-> 0] /\ StoreDropped' = 0
      /\ Decoded(packet_count)' = << >>
  BY <1>1, EmptyLengths DEF StoreLimit, StoreDropped
<1> QED
  BY <1>2 DEF Store!Next, Store!Close, Store!Closed

\* A frame without room is dropped.
LEMMA AddDropDrops == ASSUME DInv, AddDrop PROVE Store!Next
<1>1. /\ pc[Listener] = "room" /\ ~HasRoom(frame.len)
      /\ dropped_packets' = dropped_packets + 1
      /\ \A u \in Users : pc'[u] = pc[u]
      /\ UNCHANGED <<buffers, packet_count>>
  BY DEF DInv, IInv, TypeOK, ControlTypeOK, AddDrop
<1>2. /\ ~InClear /\ ~InClear'
      /\ StoreLimit = Limit /\ StoreLimit # [bytes |-> 0, packets |-> 0]
  BY <1>1, AddsToOpenStore DEF InClear
<1>3. StoreDropped' = StoreDropped + 1 /\ StoreLimit' = StoreLimit
      /\ Decoded(packet_count)' = Decoded(packet_count)
  BY <1>1, <1>2 DEF StoreDropped, StoreLimit, Limit, Decoded
<1>4. ~Store!Fits(Bytes(frame), Decoded(packet_count), StoreLimit)
  BY <1>1, <1>2, AddsToOpenStore, RoomIsFit
<1>5. Store!Drop(Bytes(frame))
  BY <1>2, <1>3, <1>4 DEF Store!Drop, Store!Closed
<1> QED
  BY <1>1, <1>5, AddsToOpenStore DEF Store!Next

\* Writing a packet is not seen until it is counted.
LEMMA AddStoreStutters == ASSUME DInv, AddStore PROVE UNCHANGED Store!vars
<1>1. /\ pc[Listener] = "room" /\ \A u \in Users : pc'[u] = pc[u]
      /\ DOMAIN packet_cache' = DOMAIN packet_cache
      /\ UNCHANGED <<cache_size, max_packets, dropped_packets>>
  BY DEF DInv, IInv, TypeOK, ControlTypeOK, AddStore
<1>2. packet_cache # NULL /\ packet_cache' # NULL /\ cache_size > 0
  <2>1. /\ packet_cache # NULL /\ DOMAIN packet_cache = 0..(cache_size - 1)
        /\ cache_size > 0
    BY <1>1, AddsToOpenStore DEF DInv, IInv, LifeInv, FrameInv, SizeInv
  <2> QED
    BY <1>1, <2>1, NotNull, SizesTyped
<1>3. StoreLimit' = StoreLimit /\ StoreDropped' = StoreDropped
  BY <1>1, <1>2 DEF StoreLimit, Limit, StoreDropped, InClear
<1> QED
  BY <1>3, StoreContent DEF Store!vars

\* Counting it keeps it.
LEMMA AddAccountKeeps == ASSUME DInv, AddAccount PROVE Store!Next
<1>1. /\ pc[Listener] = "account" /\ HasRoom(frame.len)
      /\ \A u \in Users : pc'[u] = pc[u]
      /\ UNCHANGED <<buffers, dropped_packets>>
  BY DEF DInv, IInv, TypeOK, ControlTypeOK, FrameInv, AddAccount
<1>2. StoreLimit' = StoreLimit /\ StoreDropped' = StoreDropped
  BY <1>1 DEF StoreLimit, Limit, StoreDropped, InClear
<1>3. Store!Fits(Bytes(frame), Decoded(packet_count), StoreLimit)
  BY <1>1, AddsToOpenStore, RoomIsFit
<1>4. Store!Keep(Bytes(frame))
  BY <1>2, <1>3, AccountContent DEF Store!Keep
<1> QED
  BY <1>1, <1>4, AddsToOpenStore DEF Store!Next

\* The first assignment of a clear empties the store.
LEMMA ClearUsedClears ==
  ASSUME DInv, NEW u \in Users, ClearUsed(u) PROVE Store!Next
<1>1. /\ packet_count' = 0 /\ cache_used' = 0 /\ pc'[u] = "clear_rest"
      /\ UNCHANGED buffers
  BY DEF ClearUsed, DInv, IInv, TypeOK, ControlTypeOK
<1>2. /\ StoreDropped' = 0 /\ StoreLimit' = StoreLimit
      /\ Decoded(packet_count)' = << >>
  BY <1>1, EmptyLengths DEF StoreDropped, InClear, StoreLimit, Limit
<1> QED
  BY <1>2 DEF Store!Next, Store!Clear

\* Its other assignments are not seen.
LEMMA ClearRestStutters ==
  ASSUME DInv, NEW u \in Users, ClearRest(u) PROVE UNCHANGED Store!vars
<1>1. /\ pc[u] = "clear_rest" /\ dropped_packets' = 0
      /\ UNCHANGED <<buffers, packet_count>>
      /\ pc' = [pc EXCEPT ![u] = "idle"]
  BY DEF ClearRest
<1>2. InClear
  BY <1>1 DEF InClear
<1>3. StoreDropped = 0 /\ StoreDropped' = 0 /\ StoreLimit' = StoreLimit
  BY <1>1, <1>2 DEF StoreDropped, StoreLimit, Limit
<1>4. Decoded(packet_count)' = Decoded(packet_count)
  BY <1>1 DEF Decoded
<1> QED
  BY <1>3, <1>4 DEF Store!vars

\* Every step of the listener is a step of the store or none.
LEMMA StoreStep == DInv /\ [Next]_vars => Store!Next \/ UNCHANGED Store!vars
<1> SUFFICES ASSUME DInv, [Next]_vars PROVE Store!Next \/ UNCHANGED Store!vars
  OBVIOUS
<1>1. CASE Unmoved
  BY <1>1 DEF Unmoved, Store!vars, StoreLimit, Limit, StoreDropped, Decoded
<1>2. CASE InitCacheFails
  <2>1. /\ pc[Api] = "malloc" /\ packet_cache' = NULL
        /\ UNCHANGED <<packet_count, cache_used, dropped_packets>>
        /\ \A u \in Users : pc'[u] = pc[u]
    BY <1>2 DEF InitCacheFails, DInv, IInv, TypeOK, ControlTypeOK
  <2>2. packet_cache = NULL /\ packet_count = 0 /\ cache_used = 0
    BY <2>1 DEF DInv, IInv, BuffersInv, BooksInv, Idle
  <2>3. StoreLimit' = StoreLimit /\ StoreDropped' = StoreDropped
    BY <2>1, <2>2 DEF StoreLimit, StoreDropped, InClear
  <2>4. Decoded(packet_count)' = << >> /\ Decoded(packet_count) = << >>
    <3>1. Decoded(packet_count)' = << >>
      BY <2>1, <2>2, EmptyLengths
    <3>2. Decoded(packet_count) = << >>
      BY <2>2 DEF Decoded, Cut
    <3> QED
      BY <3>1, <3>2
  <2> QED
    BY <2>3, <2>4 DEF Store!vars
<1> QED
  BY ContentWriters, <1>1, <1>2, InitCacheOpens, CleanupCloses, AddDropDrops,
     AddStoreStutters, AddAccountKeeps, ClearUsedClears, ClearRestStutters DEF Written

-----------------------------------------------------------------------------
(* The theorems *)

\* Nothing is running or allocated at first.
LEMMA InitDelivery == Init => DInv /\ Store!Init
<1> SUFFICES ASSUME Init PROVE DInv /\ Store!Init
  OBVIOUS
<1>1. IInv
  BY InitInv
<1>2. FreshInv /\ SocketInv /\ ReceivedInv /\ StoredInv /\ HandedInv /\ SizeInv
  BY DEF Init, FreshInv, SocketInv, ReceivedInv, StoredInv, HandedInv, SizeInv, InHand,
         Delivering
<1>3. Decoded(packet_count) = << >> /\ LengthsOf(packet_count) = << >> /\ Offers = << >>
  BY DEF Init, Decoded, Cut, LengthsOf, FirstLengths, Offers
<1>4. LengthsInv /\ KeptInv
  BY <1>3, SumEmpty, KeptNone DEF Init, LengthsInv, KeptInv
<1>5. Store!Init
  BY <1>3 DEF Init, Store!Init, Store!Closed, StoreLimit, StoreDropped
<1> QED
  BY <1>1, <1>2, <1>4, <1>5 DEF DInv

\* DInv is an invariant.
THEOREM DeliveryInvariance == Spec => []DInv
<1>1. DInv /\ [Next]_vars => DInv'
  <2>1. IInv /\ [Next]_vars => IInv'
    BY ControlTypeStep, SessionTypeStep, CacheTypeStep, WireTypeStep, MutexStep,
       LifeStep, BuffersStep, WidthStep, BooksStep, FrameStep DEF IInv, TypeOK
  <2> QED
    BY <2>1, FreshStep, SocketStep, ReceivedStep, HandedStep, SizeStep, ContentStep
    DEF DInv
<1> QED
  BY <1>1, InitDelivery, PTL DEF Spec

\* In a caching session no frame that recv returned misses the cache, for any frames,
\* requests and threads, also when stop is called while one is in hand.
THEOREM NothingReceivedIsLost == Spec => []ReceivedIsOffered
<1>1. DInv => ReceivedIsOffered
  <2> SUFFICES ASSUME DInv, pc[Listener] \in {"loop", "recv", "exited"}, Caching,
                      NEW i \in DOMAIN offered
               PROVE  offered[i].id = arrived - Len(sockq) - Len(offered) + i
    BY DEF ReceivedIsOffered
  <2>1. InHand = 0 /\ offered[i].id = arrived - Len(sockq) - InHand - Len(offered) + i
    BY DEF DInv, ReceivedInv, InHand
  <2>2. Len(sockq) \in Nat /\ arrived \in Int
    BY DEF DInv, IInv, TypeOK, WireTypeOK
  <2> QED
    BY <2>1, <2>2
<1> QED
  BY <1>1, DeliveryInvariance, PTL

\* Unless a clear overlaps the delivery, the callback gets exactly the packets that a
\* store of these limits keeps of the frames offered, and arguments that agree.
THEOREM DeliveryIsFaithful == Spec => []DeliveryFaithful
<1>1. DInv => DeliveryFaithful
  <2> SUFFICES ASSUME DInv, pc[Api] = "callback", ~raced
               PROVE  /\ handed.count > 0
                      /\ handed.total = Sum(LengthsOf(handed.count))
                      /\ Decoded(handed.count) = Store!Kept(Offers, Limit)
    BY DEF DeliveryFaithful
  <2>1. /\ ~InClear /\ packet_count > 0
        /\ handed.count = packet_count /\ handed.total = total_bytes
    BY DEF DInv, HandedInv, Delivering
  <2>2. total_bytes = cache_used /\ cache_used = Sum(LengthsOf(packet_count))
    BY <2>1 DEF DInv, IInv, BooksInv, BooksBalance, LengthsInv
  <2> QED
    BY <2>1, <2>2 DEF DInv, KeptInv
<1> QED
  BY <1>1, DeliveryInvariance, PTL

\* The cache implements PacketStore: through every interleaving its buffers and counters
\* are those of a bounded store of whole packets.
THEOREM CacheImplementsStore == Spec => ImplementsPacketStore
<1>1. DInv /\ [Next]_vars => [Store!Next]_(Store!vars)
  BY StoreStep
<1> QED
  BY <1>1, InitDelivery, DeliveryInvariance, PTL
  DEF Spec, ImplementsPacketStore, Store!Spec
=============================================================================
