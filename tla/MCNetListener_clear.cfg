\* clear_cache during stop's delivery.
CONSTANTS
  Users = {u1}
  Requests <- OneRequest
  Lengths = {1, 2}
  MaxFrames = 2
  BytesPerPacket = 2
  MinPackets = 2
  Word = 64
  NoCallback = NoCallback
  Realtime = Realtime
  CacheA = CacheA
  CacheB = CacheB
SPECIFICATION Spec
INVARIANTS
  ArgumentsAgree
