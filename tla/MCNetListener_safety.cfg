\* Two threads read the statistics and clear the cache beside start, stop and the
\* listener; every request, on an interface where recv keeps returning.
CONSTANTS
  Users = {u1, u2}
  Requests <- AllRequests
  Lengths = {1, 2}
  MaxFrames = 4
  BytesPerPacket = 2
  MinPackets = 2
  Word = 64
  NoCallback = NoCallback
  Realtime = Realtime
  CacheA = CacheA
  CacheB = CacheB
SPECIFICATION BusySpec
INVARIANTS
  TypeOK
  BooksBalance
  SnapshotConsistent
  ListenerInsideSession
  StoreInBounds
  DeliveryFaithful
  ReceivedIsOffered
PROPERTIES
  SessionFixed
  ImplementsPacketStore
  ImplementsService
  StopReturns
