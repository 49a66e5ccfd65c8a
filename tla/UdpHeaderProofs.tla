--------------------------- MODULE UdpHeaderProofs ---------------------------
(***************************************************************************)
(* Proofs about UdpHeader, for any parameters and any number of failures:  *)
(* a complete call leaves its whole header in the registers, and its       *)
(* checksum is one that a receiver accepts, for any addresses.             *)
(***************************************************************************)
EXTENDS UdpHeader, InductionLemmas

-----------------------------------------------------------------------------
(* Arithmetic of the checksum *)

LEMMA FunctionIsSequence ==
  ASSUME NEW S, NEW n \in Nat, NEW f \in [1..n -> S]
  PROVE  f \in Seq(S) /\ Len(f) = n
OBVIOUS

\* A sequence of ten numbers adds up to what it should.
LEMMA SumOfTen ==
  ASSUME NEW s \in [1..10 -> Int]
  PROVE  Sum(s) = s[1] + s[2] + s[3] + s[4] + s[5] + s[6] + s[7] + s[8] + s[9] + s[10]
<1>1. s \in Seq(Int) /\ Len(s) = 10
  BY FunctionIsSequence
<1>2. PICK f \in [0..10 -> Int] :
        f[0] = 0 /\ (\A k \in 1..10 : f[k] = f[k - 1] + s[k]) /\ Sum(s) = f[10]
  BY <1>1, SumUnfold
<1>3. /\ f[1] = s[1] /\ f[2] = f[1] + s[2] /\ f[3] = f[2] + s[3] /\ f[4] = f[3] + s[4]
      /\ f[5] = f[4] + s[5] /\ f[6] = f[5] + s[6] /\ f[7] = f[6] + s[7]
      /\ f[8] = f[7] + s[8] /\ f[9] = f[8] + s[9] /\ f[10] = f[9] + s[10]
  BY <1>2
<1> QED
  BY <1>2, <1>3

\* Halfword without its definition, which the solver would write out.
LEMMA HalfwordBounds == \A x : x \in Halfword <=> x \in Int /\ 0 <= x /\ x <= 65535
<1> DEFINE top == 65535
<1>1. top \in Nat
  BY SMT
<1>2. Halfword = 0..top
  BY SMT DEF Halfword
<1>3. top = 65535
  OBVIOUS
<1> HIDE DEF top
<1>4. \A x : x \in 0..top <=> x \in Int /\ 0 <= x /\ x <= top
  BY SMT, <1>1
<1>5. \A x : x \in Halfword <=> x \in Int /\ 0 <= x /\ x <= top
  BY Zenon, <1>2, <1>4
<1> QED
  BY SMT, <1>3, <1>5

\* What the two bytes of a halfword become, and that 65535 is one less than 256 * 256.
LEMMA SwapInverts ==
  ASSUME NEW h \in Halfword
  PROVE  /\ Swap(h) \in Halfword
         /\ Swap(h) = 256 * h - 65535 * (h \div 256)
         /\ Swap(Swap(h)) = h
<1> DEFINE hi == h \div 256
           lo == h % 256
<1>1. hi \in 0..255 /\ lo \in 0..255 /\ h = 256 * hi + lo
  <2>1. h \in Int /\ 0 <= h /\ h <= 65535
    BY HalfwordBounds
  <2> QED
    BY <2>1
<1>2. Swap(h) = lo * 256 + hi
  BY DEF Swap
<1> HIDE DEF hi, lo
<1>3. Swap(h) \in Halfword
  <2>1. Swap(h) \in Int /\ 0 <= Swap(h) /\ Swap(h) <= 65535
    BY <1>1, <1>2
  <2> QED
    BY <2>1, HalfwordBounds
<1>4. Swap(h) % 256 = hi
  BY <1>1, <1>2
<1>5. Swap(h) \div 256 = lo
  BY <1>1, <1>2
<1>6. Swap(Swap(h)) = h
  BY <1>1, <1>4, <1>5 DEF Swap
<1> QED
  BY <1>1, <1>2, <1>3, <1>6 DEF hi

\* One round of the carries, and its value modulo 65535.
Folded(sum) == (sum % 65536) + (sum \div 65536)

LEMMA FoldedIsCongruent ==
  ASSUME NEW sum \in Nat, sum >= 65536
  PROVE  /\ Folded(sum) \in Nat /\ Folded(sum) > 0 /\ Folded(sum) < sum
         /\ (Folded(sum) - 1) % 65535 = (sum - 1) % 65535
         /\ sum = Folded(sum) + 65535 * (sum \div 65536)
<1> DEFINE q == sum \div 65536
           r == sum % 65536
<1>1. q \in Nat /\ q >= 1 /\ r \in Nat /\ r <= 65535 /\ sum = 65536 * q + r
  OBVIOUS
<1> HIDE DEF q, r
<1>2. Folded(sum) = q + r
  BY DEF Folded, q, r
<1>3. (q + r - 1) % 65535 = (65536 * q + r - 1) % 65535
  BY <1>1
<1> QED
  BY <1>1, <1>2, <1>3 DEF q

\* The loop of csum ends with what its definition says.
LEMMA CarryUnfolds ==
  ASSUME NEW sum \in Nat
  PROVE  Carry[sum] = IF sum < 65536 THEN sum ELSE Carry[Folded(sum)]
<1> DEFINE body(f) == [n \in Nat |-> IF n < 65536 THEN n ELSE f[(n % 65536) + (n \div 65536)]]
           g == [n \in Nat |-> IF n = 0 THEN 0 ELSE 1 + ((n - 1) % 65535)]
<1>1. ASSUME NEW n \in Nat
      PROVE  g[n] = IF n < 65536 THEN n ELSE g[(n % 65536) + (n \div 65536)]
  <2>1. CASE n < 65536
    BY <2>1
  <2>2. CASE n >= 65536
    BY <2>2, FoldedIsCongruent DEF Folded
  <2> QED
    BY <2>1, <2>2
<1>2. g = body(g)
  BY <1>1
<1> DEFINE u == CHOOSE f : f = body(f)
<1> HIDE DEF g
<1>3. u = body(u)
  BY <1>2
<1>4. Carry = u
  BY DEF Carry
<1> HIDE DEF u
<1> QED
  BY <1>3, <1>4 DEF Folded

\* The sum of ten halfwords carries at most twice. What is left has 16 bits and differs
\* from the sum by a multiple of 65535.
LEMMA CarryOfTen ==
  ASSUME NEW sum \in Nat, sum <= 10 * 65535
  PROVE  /\ Carry[sum] \in Halfword
         /\ (sum - Carry[sum]) % 65535 = 0
<1>1. CASE sum < 65536
  BY <1>1, CarryUnfolds, HalfwordBounds
<1>2. CASE sum >= 65536
  <2> DEFINE t == Folded(sum)
             a == sum \div 65536
  <2>1. t \in Nat /\ sum = t + 65535 * a /\ a \in 0..9 /\ t <= 65535 + 9
    BY <1>2, FoldedIsCongruent DEF Folded
  <2>2. Carry[sum] = Carry[t]
    BY <1>2, CarryUnfolds
  <2> HIDE DEF t, a
  <2>3. CASE t < 65536
    BY <2>1, <2>2, <2>3, CarryUnfolds, HalfwordBounds
  <2>4. CASE t >= 65536
    <3> DEFINE w == Folded(t)
    <3>1. w \in Nat /\ w < 65536 /\ t = w + 65535
      BY <2>1, <2>4 DEF Folded
    <3>2. Carry[t] = Carry[w]
      BY <2>1, <2>4, CarryUnfolds
    <3> HIDE DEF w
    <3>3. Carry[w] = w
      BY <3>1, CarryUnfolds
    <3> QED
      BY <2>1, <2>2, <3>1, <3>2, <3>3, HalfwordBounds
  <2> QED
    BY <2>1, <2>3, <2>4
<1> QED
  BY <1>1, <1>2
\* What the processor sums up is in the range of CarryOfTen.
LEMMA HostSumOfTen ==
  ASSUME NEW packet \in [1..10 -> Halfword]
  PROVE  /\ HostSum(packet) \in Nat /\ HostSum(packet) <= 10 * 65535
         /\ HostSum(packet) =
              Swap(packet[1]) + Swap(packet[2]) + Swap(packet[3]) + Swap(packet[4])
                + Swap(packet[5]) + Swap(packet[6]) + Swap(packet[7]) + Swap(packet[8])
                + Swap(packet[9]) + Swap(packet[10])
<1> DEFINE s == [k \in 1..10 |-> Swap(packet[k])]
<1>1. \A k \in 1..10 : s[k] = Swap(packet[k]) /\ s[k] \in Int /\ 0 <= s[k] /\ s[k] <= 65535
  <2> TAKE k \in 1..10
  <2>1. Swap(packet[k]) \in Halfword
    BY SwapInverts
  <2> QED
    BY <2>1, HalfwordBounds
<1>2. s \in [1..10 -> Int]
  BY <1>1
<1>3. HostSum(packet) = Sum(s)
  BY DEF HostSum
<1> HIDE DEF s
<1>4. Sum(s) = s[1] + s[2] + s[3] + s[4] + s[5] + s[6] + s[7] + s[8] + s[9] + s[10]
  BY <1>2, SumOfTen
<1> QED
  BY <1>1, <1>3, <1>4

LEMMA ChecksumIsHalfword ==
  ASSUME NEW packet \in [1..10 -> Halfword]
  PROVE  csum(packet) \in Halfword
<1> DEFINE carry == Carry[HostSum(packet)]
<1>1. carry \in Halfword
  BY HostSumOfTen, CarryOfTen
<1>2. csum(packet) = Swap(65535 - carry)
  BY DEF csum
<1> HIDE DEF carry
<1>3. 65535 - carry \in Halfword
  BY <1>1, HalfwordBounds
<1> QED
  BY <1>2, <1>3, SwapInverts

LEMMA IpcsumType ==
  ASSUME NEW ip \in [1..10 -> Halfword]
  PROVE  ipcsum(ip) \in [1..10 -> Halfword]
<1>1. 0 \in Halfword
  BY HalfwordBounds
<1>2. csum([ip EXCEPT ![6] = 0]) \in Halfword
  BY <1>1, ChecksumIsHalfword
<1> QED
  BY <1>2 DEF ipcsum

\* The checksum that csum computes in the byte order of the processor makes the sum in
\* the order of sending a multiple of 65535: swapping a halfword multiplies it by 256,
\* modulo 65535.
LEMMA ChecksumIsAccepted ==
  ASSUME NEW ip \in [1..10 -> Halfword], ip[1] # 0
  PROVE  Accepts(ipcsum(ip))
<1> DEFINE z == [ip EXCEPT ![6] = 0]
           sum == HostSum(z)
           carry == Carry[sum]
           w == ipcsum(ip)
           c == 65535 - carry
           hi(k) == Swap(ip[k]) \div 256
<1>1. 0 \in Halfword /\ z \in [1..10 -> Halfword]
  BY HalfwordBounds
<1>2. \A k \in 1..10 : k # 6 => w[k] = ip[k] /\ z[k] = ip[k]
  BY DEF ipcsum
<1>3. w[6] = Swap(c) /\ z[6] = 0
  BY DEF ipcsum, csum
<1>4. Swap(0) = 0
  BY SMT DEF Swap
<1>5. /\ carry \in Int /\ 0 <= carry /\ carry <= 65535 /\ sum \in Nat
      /\ (sum - carry) % 65535 = 0
  <2> HIDE DEF z
  <2>1. sum \in Nat /\ sum <= 10 * 65535
    BY <1>1, HostSumOfTen
  <2>2. carry \in Halfword /\ (sum - carry) % 65535 = 0
    BY <2>1, CarryOfTen
  <2> QED
    BY <2>1, <2>2, HalfwordBounds
<1>6. sum = Swap(ip[1]) + Swap(ip[2]) + Swap(ip[3]) + Swap(ip[4]) + Swap(ip[5])
              + Swap(ip[7]) + Swap(ip[8]) + Swap(ip[9]) + Swap(ip[10])
  <2>1. \A k \in 1..10 : Swap(ip[k]) \in Int
    BY SwapInverts, HalfwordBounds
  <2>2. sum = Swap(z[1]) + Swap(z[2]) + Swap(z[3]) + Swap(z[4]) + Swap(z[5]) + Swap(z[6])
                + Swap(z[7]) + Swap(z[8]) + Swap(z[9]) + Swap(z[10])
    <3> HIDE DEF z
    <3> QED
      BY <1>1, HostSumOfTen
  <2> HIDE DEF z, sum
  <2> QED
    BY <1>2, <1>3, <1>4, <2>1, <2>2
<1>7. w \in [1..10 -> Int] /\ \A k \in 1..10 : w[k] \in Int /\ 0 <= w[k]
  <2>1. w \in [1..10 -> Halfword]
    BY IpcsumType
  <2> HIDE DEF w
  <2>2. \A k \in 1..10 : w[k] \in Halfword
    BY <2>1
  <2>3. \A k \in 1..10 : w[k] \in Int /\ 0 <= w[k]
    BY <2>2, HalfwordBounds
  <2> QED
    BY <2>1, <2>3
<1> HIDE DEF w
<1>8. Sum(w) = w[1] + w[2] + w[3] + w[4] + w[5] + w[6] + w[7] + w[8] + w[9] + w[10]
  BY <1>7, SumOfTen
<1>9. \A k \in 1..10 : /\ Swap(ip[k]) \in Int /\ hi(k) \in Int
                       /\ ip[k] = 256 * Swap(ip[k]) - 65535 * hi(k)
  <2> TAKE k \in 1..10
  <2>1. Swap(ip[k]) \in Halfword /\ Swap(Swap(ip[k])) = ip[k]
    BY SwapInverts
  <2>2. ip[k] = 256 * Swap(ip[k]) - 65535 * (Swap(ip[k]) \div 256)
    BY <2>1, SwapInverts
  <2>3. Swap(ip[k]) \in Int
    BY <2>1, HalfwordBounds
  <2>4. Swap(ip[k]) \div 256 \in Int
    BY <2>3
  <2> QED
    BY <2>2, <2>3, <2>4
<1>10. c \div 256 \in Int /\ Swap(c) = 256 * c - 65535 * (c \div 256)
  <2>1. c \in Halfword
    BY <1>5, HalfwordBounds
  <2>2. Swap(c) = 256 * c - 65535 * (c \div 256)
    BY <2>1, SwapInverts
  <2> QED
    BY <1>5, <2>2
<1> DEFINE a == (sum - carry) \div 65535
           b == c \div 256
           m == 256 * a + 256 - hi(1) - hi(2) - hi(3) - hi(4) - hi(5) - b
                  - hi(7) - hi(8) - hi(9) - hi(10)
<1>11. a \in Int /\ sum = carry + 65535 * a
  BY <1>5
<1>12. b \in Int /\ w[6] = 256 * (65535 - carry) - 65535 * b
  BY <1>3, <1>10 DEF w
<1>13. m \in Int /\ Sum(w) = 65535 * m
  <2>1. /\ hi(1) \in Int /\ hi(2) \in Int /\ hi(3) \in Int /\ hi(4) \in Int /\ hi(5) \in Int
        /\ hi(7) \in Int /\ hi(8) \in Int /\ hi(9) \in Int /\ hi(10) \in Int
    BY <1>9
  <2>2. /\ w[1] = 256 * Swap(ip[1]) - 65535 * hi(1) /\ w[2] = 256 * Swap(ip[2]) - 65535 * hi(2)
        /\ w[3] = 256 * Swap(ip[3]) - 65535 * hi(3) /\ w[4] = 256 * Swap(ip[4]) - 65535 * hi(4)
        /\ w[5] = 256 * Swap(ip[5]) - 65535 * hi(5) /\ w[7] = 256 * Swap(ip[7]) - 65535 * hi(7)
        /\ w[8] = 256 * Swap(ip[8]) - 65535 * hi(8) /\ w[9] = 256 * Swap(ip[9]) - 65535 * hi(9)
        /\ w[10] = 256 * Swap(ip[10]) - 65535 * hi(10)
    BY <1>2, <1>9
  <2>3. /\ Swap(ip[1]) \in Int /\ Swap(ip[2]) \in Int /\ Swap(ip[3]) \in Int
        /\ Swap(ip[4]) \in Int /\ Swap(ip[5]) \in Int /\ Swap(ip[7]) \in Int
        /\ Swap(ip[8]) \in Int /\ Swap(ip[9]) \in Int /\ Swap(ip[10]) \in Int
    BY <1>9
  <2> HIDE DEF a, b, hi, sum, carry, c
  <2> QED
    BY <1>5, <1>6, <1>8, <1>11, <1>12, <2>1, <2>2, <2>3
<1>14. Sum(w) # 0
  <2>1. w[1] > 0
    BY <1>2, <1>7
  <2> QED
    BY <1>7, <1>8, <2>1
<1> HIDE DEF m
<1>15. Sum(w) % 65535 = 0
  BY <1>13
<1> QED
  BY <1>14, <1>15 DEF Accepts, w

-----------------------------------------------------------------------------
(* The header *)

LEMMA SequenceIsFunction ==
  ASSUME NEW S, NEW s \in Seq(S)
  PROVE  s \in [1..Len(s) -> S]
OBVIOUS

LEMMA Concatenation ==
  ASSUME NEW S, NEW s \in Seq(S), NEW t \in Seq(S)
  PROVE  s \o t \in Seq(S) /\ Len(s \o t) = Len(s) + Len(t)
OBVIOUS

LEMMA FirstOf ==
  ASSUME NEW S, NEW s \in Seq(S), NEW t \in Seq(S), Len(s) >= 1
  PROVE  (s \o t)[1] = s[1]
OBVIOUS

\* A part of a concatenation that lies in its front, and the whole of what follows.
LEMMA FrontPart ==
  ASSUME NEW S, NEW s \in Seq(S), NEW t \in Seq(S), NEW m \in Nat, NEW n \in Nat,
         1 <= m, m <= n, n <= Len(s)
  PROVE  SubSeq(s \o t, m, n) = SubSeq(s, m, n)
<1> DEFINE u == s \o t
<1>1. u \in Seq(S) /\ Len(u) = Len(s) + Len(t) /\ \A k \in 1..Len(s) : u[k] = s[k]
  OBVIOUS
<1> HIDE DEF u
<1>2. \A k \in m..n : u[k] = s[k] /\ u[k] \in S
  BY <1>1
<1>3. /\ SubSeq(u, m, n) \in Seq(S) /\ SubSeq(s, m, n) \in Seq(S)
      /\ Len(SubSeq(u, m, n)) = n - m + 1 /\ Len(SubSeq(s, m, n)) = n - m + 1
      /\ \A k \in 1..(n - m + 1) : /\ SubSeq(u, m, n)[k] = u[m + k - 1]
                                  /\ SubSeq(s, m, n)[k] = s[m + k - 1]
  BY <1>2, SubSeqProperties
<1>4. \A k \in 1..(n - m + 1) : SubSeq(u, m, n)[k] = SubSeq(s, m, n)[k]
  BY <1>2, <1>3
<1> QED
  BY <1>3, <1>4, SeqEqual DEF u

LEMMA BackPart ==
  ASSUME NEW S, NEW s \in Seq(S), NEW t \in Seq(S)
  PROVE  SubSeq(s \o t, Len(s) + 1, Len(s) + Len(t)) = t
<1> DEFINE u == s \o t
<1>1. /\ Len(s) \in Nat /\ Len(t) \in Nat /\ t = [k \in 1..Len(t) |-> t[k]]
      /\ \A k \in 1..Len(t) : u[Len(s) + k] = t[k]
  OBVIOUS
<1> HIDE DEF u
<1>2. \A k \in (Len(s) + 1)..(Len(s) + Len(t)) : u[k] = t[k - Len(s)] /\ u[k] \in S
  <2> TAKE k \in (Len(s) + 1)..(Len(s) + Len(t))
  <2> DEFINE j == k - Len(s)
  <2>1. j \in 1..Len(t) /\ k = Len(s) + j
    BY <1>1
  <2>2. t[j] \in S
    BY <2>1
  <2> HIDE DEF j
  <2>3. u[k] = t[j]
    BY <1>1, <2>1
  <2> QED
    BY <2>2, <2>3 DEF j
<1> DEFINE v == SubSeq(u, Len(s) + 1, Len(s) + Len(t))
<1>3. v \in Seq(S) /\ Len(v) = Len(t) /\ \A k \in 1..Len(t) : v[k] = u[Len(s) + k]
  BY <1>1, <1>2, SubSeqProperties
<1> HIDE DEF v
<1>4. \A k \in 1..Len(t) : v[k] = t[k]
  BY <1>1, <1>3
<1> QED
  BY <1>3, <1>4, SeqEqual DEF u, v

\* A header is 22 halfwords, and its IP header is one that a receiver accepts.
LEMMA HeaderIsGood ==
  ASSUME NEW p \in Params
  PROVE  /\ Header(p) \in Seq(Halfword) /\ Len(Header(p)) = 22
         /\ Accepts(SubSeq(Header(p), 8, 17))
<1>1. /\ p.dst_mac \in [1..3 -> Halfword] /\ p.src_mac \in [1..3 -> Halfword]
      /\ p.src_ip \in [1..2 -> Halfword] /\ p.dst_ip \in [1..2 -> Halfword]
      /\ p.src_port \in Halfword /\ p.dst_port \in Halfword
  BY ParamsAssumption
<1>2. /\ p.dst_mac \in Seq(Halfword) /\ Len(p.dst_mac) = 3
      /\ p.src_mac \in Seq(Halfword) /\ Len(p.src_mac) = 3
      /\ p.src_ip \in Seq(Halfword) /\ Len(p.src_ip) = 2
      /\ p.dst_ip \in Seq(Halfword) /\ Len(p.dst_ip) = 2
  BY <1>1, FunctionIsSequence
<1>3. {0, 17664, 1052, 32785, 2048, 1032} \subseteq Halfword
  BY HalfwordBounds
<1> DEFINE fixed == <<17664, 1052, 0, 0, 32785, 0>>
           udp   == <<p.src_port, p.dst_port, 1032, 0>>
           etype == <<2048>>
           pad   == <<0>>
<1>4. /\ fixed \in Seq(Halfword) /\ Len(fixed) = 6
      /\ udp \in Seq(Halfword) /\ Len(udp) = 4
      /\ etype \in Seq(Halfword) /\ Len(etype) = 1
      /\ pad \in Seq(Halfword) /\ Len(pad) = 1
  BY <1>1, <1>3
<1> HIDE DEF fixed, udp, etype, pad
<1>5. IpHeader(p) \in Seq(Halfword) /\ Len(IpHeader(p)) = 10
  <2> DEFINE front == fixed \o p.src_ip
             whole == front \o p.dst_ip
  <2>1. front \in Seq(Halfword) /\ Len(front) = Len(fixed) + Len(p.src_ip)
    BY <1>2, <1>4, Concatenation, Zenon
  <2> HIDE DEF front
  <2>2. whole \in Seq(Halfword) /\ Len(whole) = Len(front) + Len(p.dst_ip)
    BY <1>2, <2>1, Concatenation, Zenon
  <2>3. IpHeader(p) = whole
    BY DEF IpHeader, front, fixed
  <2> HIDE DEF whole
  <2> QED BY <1>2, <1>4, <2>1, <2>2, <2>3
<1>6. IpHeader(p) \in [1..10 -> Halfword] /\ IpHeader(p)[1] = 17664
  <2>1. IpHeader(p) \in [1..10 -> Halfword]
    BY <1>5, SequenceIsFunction
  <2>2. IpHeader(p)[1] = fixed[1]
    <3> DEFINE front == fixed \o p.src_ip
    <3>1. Len(fixed) >= 1
      BY <1>4
    <3>2. front[1] = fixed[1]
      BY <1>2, <1>4, <3>1, FirstOf, Zenon
    <3>3. front \in Seq(Halfword) /\ Len(front) = Len(fixed) + Len(p.src_ip)
      BY <1>2, <1>4, Concatenation, Zenon
    <3> HIDE DEF front
    <3>4. Len(front) >= 1
      BY <1>2, <1>4, <3>3
    <3>5. (front \o p.dst_ip)[1] = front[1]
      BY <1>2, <3>3, <3>4, FirstOf, Zenon
    <3>6. IpHeader(p) = front \o p.dst_ip
      BY DEF IpHeader, front, fixed
    <3> QED
      BY <3>2, <3>5, <3>6
  <2> QED
    BY <2>1, <2>2 DEF fixed
<1>7. /\ ipcsum(IpHeader(p)) \in [1..10 -> Halfword]
      /\ ipcsum(IpHeader(p))[1] = 17664
  <2>1. ipcsum(IpHeader(p)) \in [1..10 -> Halfword]
    BY <1>6, IpcsumType
  <2>2. ipcsum(IpHeader(p))[1] = IpHeader(p)[1]
    BY <1>6 DEF ipcsum
  <2> QED
    BY <1>6, <2>1, <2>2
<1>8. ipcsum(ipcsum(IpHeader(p))) \in [1..10 -> Halfword]
  BY <1>7, IpcsumType
<1> DEFINE ip == ipcsum(ipcsum(IpHeader(p)))
<1>9. ip \in Seq(Halfword) /\ Len(ip) = 10
  BY <1>8, FunctionIsSequence
<1>10. Accepts(ip)
  <2> DEFINE first == ipcsum(IpHeader(p))
  <2>1. first \in [1..10 -> Halfword] /\ first[1] # 0
    BY <1>7
  <2> HIDE DEF first
  <2>2. Accepts(ipcsum(first))
    BY <2>1, ChecksumIsAccepted
  <2> QED
    BY <2>2 DEF first
<1> HIDE DEF ip
<1> DEFINE h1 == p.dst_mac \o p.src_mac
           h2 == h1 \o etype
           h3 == h2 \o ip
           h4 == h3 \o udp
           h5 == h4 \o pad
<1>11. h1 \in Seq(Halfword) /\ Len(h1) = Len(p.dst_mac) + Len(p.src_mac)
  BY <1>2, Concatenation, Zenon
<1> HIDE DEF h1
<1>12. h2 \in Seq(Halfword) /\ Len(h2) = Len(h1) + Len(etype)
  BY <1>4, <1>11, Concatenation, Zenon
<1> HIDE DEF h2
<1>13. h3 \in Seq(Halfword) /\ Len(h3) = Len(h2) + Len(ip)
  BY <1>9, <1>12, Concatenation, Zenon
<1> HIDE DEF h3
<1>14. h4 \in Seq(Halfword) /\ Len(h4) = Len(h3) + Len(udp)
  BY <1>4, <1>13, Concatenation, Zenon
<1> HIDE DEF h4
<1>15. h5 \in Seq(Halfword) /\ Len(h5) = Len(h4) + Len(pad)
  BY <1>4, <1>14, Concatenation, Zenon
<1>16. Header(p) = h5
  BY Zenon DEF Header, h1, h2, h3, h4, ip, udp, etype, pad
<1> HIDE DEF h5
<1>17. Len(h2) = 7 /\ Len(h5) = 22 /\ SubSeq(h5, 8, 17) = ip
  <2>1. Len(h2) = 7 /\ Len(h3) = 17 /\ Len(h4) = 21 /\ Len(h5) = 22
    BY <1>2, <1>4, <1>9, <1>11, <1>12, <1>13, <1>14, <1>15
  <2>2. SubSeq(h5, 8, 17) = SubSeq(h4, 8, 17)
    <3>1. 8 \in Nat /\ 17 \in Nat /\ 1 <= 8 /\ 8 <= 17 /\ 17 <= Len(h4)
      BY <2>1
    <3> QED
      BY <1>4, <1>14, <3>1, FrontPart, Zenon DEF h5
  <2>3. SubSeq(h4, 8, 17) = SubSeq(h3, 8, 17)
    <3>1. 8 \in Nat /\ 17 \in Nat /\ 1 <= 8 /\ 8 <= 17 /\ 17 <= Len(h3)
      BY <2>1
    <3> QED
      BY <1>4, <1>13, <3>1, FrontPart, Zenon DEF h4
  <2>4. SubSeq(h3, 8, 17) = ip
    <3>1. SubSeq(h3, Len(h2) + 1, Len(h2) + Len(ip)) = ip
      BY <1>9, <1>12, BackPart DEF h3
    <3> QED
      BY <1>9, <2>1, <3>1
  <2> QED
    BY <2>1, <2>2, <2>3, <2>4
<1> HIDE DEF h5
<1> QED BY <1>9, <1>15, <1>16, <1>10, <1>17

-----------------------------------------------------------------------------
(* The inductive invariant *)

\* Register k holds its two halfwords of the header h.
Holds(k, h) == regs[REG_UDP_HDR_0 + k] = <<h[2 * k + 1], h[2 * k + 2]>>

\* What a call has written so far: a complete one leaves no register of the old
\* header behind the loop index.
IInv ==
  /\ TypeOK
  /\ i # Idle => pkg_hdr = given
  /\ complete => given \in {Header(p) : p \in Params}
  /\ complete => \A k \in 0 .. (header_dword_count - 1) :
                    (k < i \/ i = Idle) => Holds(k, given)

LEMMA HeaderType ==
  ASSUME NEW p \in Params
  PROVE  Header(p) \in [1..22 -> Halfword] /\ Header(p) # NoHeader
<1>1. Header(p) \in Seq(Halfword) /\ Len(Header(p)) = 22
  BY HeaderIsGood
<1>2. Header(p) \in [1..22 -> Halfword]
  BY <1>1, SequenceIsFunction
<1>3. Header(p) # << >>
  BY <1>1
<1> QED
  BY <1>2, <1>3 DEF NoHeader

LEMMA InitWhole == Init => IInv
<1> SUFFICES ASSUME Init PROVE IInv
  OBVIOUS
<1>1. regs \in [Addresses -> Halfword \X Halfword]
  <2>1. PICK v \in PowerUp : regs = [a \in Addresses |-> v]
    BY DEF Init
  <2>2. v \in Halfword \X Halfword
    BY ParamsAssumption
  <2> QED
    BY <2>1, <2>2
<1>2. MaxFaults \in Nat
  BY ParamsAssumption
<1>3. i = Idle /\ pkg_hdr = NoHeader /\ given = NoHeader /\ faults = 0 /\ ~complete
  BY DEF Init
<1>4. complete \in BOOLEAN
  BY Zenon DEF Init
<1>5. i \in Idle .. header_dword_count /\ faults \in 0 .. MaxFaults
  BY <1>2, <1>3 DEF Idle, header_dword_count
<1>6. TypeOK
  BY <1>1, <1>3, <1>4, <1>5, Zenon DEF TypeOK
<1> QED
  BY <1>3, <1>6, Zenon DEF IInv

\* Each step preserves the invariant: a write that works adds one register to
\* those that hold the new header, one that fails makes the call incomplete.
LEMMA NextWhole == IInv /\ [Next]_vars => IInv'
<1> SUFFICES ASSUME IInv, [Next]_vars PROVE IInv'
  OBVIOUS
<1> USE DEF IInv, TypeOK, Idle, header_dword_count
<1>0. MaxFaults \in Nat
  BY ParamsAssumption
<1>1. ASSUME NEW p \in Params, Initialize(p) PROVE IInv'
  BY <1>1, HeaderType DEF Initialize, Holds
<1>2. CASE WriteRegister
  <2>1. i \in 0..10 /\ i' = i + 1 /\ pkg_hdr' = pkg_hdr /\ given' = given
    BY <1>2 DEF WriteRegister
  <2>2. given = pkg_hdr /\ given # NoHeader /\ given \in [1..22 -> Halfword]
    BY <2>1
  <2>3. CASE /\ UNCHANGED <<faults, complete>>
             /\ regs' = [regs EXCEPT ![REG_UDP_HDR_0 + i] =
                           <<pkg_hdr[2 * i + 1], pkg_hdr[2 * i + 2]>>]
    <3>1. REG_UDP_HDR_0 + i \in Addresses
      BY <2>1 DEF REG_UDP_HDR_0, REG_UDP_HDR_9, Addresses
    <3>2. <<pkg_hdr[2 * i + 1], pkg_hdr[2 * i + 2]>> \in Halfword \X Halfword
      <4>1. 2 * i + 1 \in 1..22 /\ 2 * i + 2 \in 1..22
        BY <2>1
      <4> QED
        BY <2>2, <4>1
    <3>3. regs' \in [Addresses -> Halfword \X Halfword]
      BY <2>3, <3>1, <3>2
    <3>4. ASSUME NEW k \in 0..10, k < i', complete
          PROVE  Holds(k, given)'
      BY <2>1, <2>2, <2>3, <3>1, <3>4 DEF Holds, REG_UDP_HDR_0
    <3> QED
      BY <2>1, <2>2, <2>3, <3>3, <3>4
  <2>4. CASE /\ faults < MaxFaults /\ faults' = faults + 1
             /\ complete' = FALSE /\ UNCHANGED regs
    <3>1. complete' \in BOOLEAN /\ ~complete'
      BY <2>4, Zenon
    <3>2. faults' \in 0 .. MaxFaults
      BY <1>0, <2>4
    <3> QED
      BY <2>1, <2>2, <2>4, <3>1, <3>2
  <2> QED
    BY <1>2, <2>3, <2>4 DEF WriteRegister
<1>3. CASE Return
  <2>1. /\ i = 11 /\ i' = Idle /\ pkg_hdr' = NoHeader
        /\ regs' = regs /\ faults' = faults /\ given' = given /\ complete' = complete
    BY <1>3 DEF Return
  <2>2. ASSUME complete, NEW k \in 0..10 PROVE Holds(k, given)'
    <3>1. Holds(k, given)
      BY <2>1, <2>2
    <3> QED
      BY <2>1, <3>1 DEF Holds
  <2> QED
    BY <2>1, <2>2
<1>4. CASE Crash
  <2>1. complete' \in BOOLEAN /\ ~complete'
    BY <1>4, Zenon DEF Crash
  <2>2. faults' \in 0 .. MaxFaults
    BY <1>0, <1>4 DEF Crash
  <2>3. i' = Idle /\ pkg_hdr' = NoHeader /\ UNCHANGED <<regs, given>>
    BY <1>4 DEF Crash
  <2> QED
    BY <2>1, <2>2, <2>3
<1>5. CASE UNCHANGED vars
  BY <1>5 DEF vars, Holds
<1> QED
  BY <1>1, <1>2, <1>3, <1>4, <1>5 DEF Next

\* Eleven registers are enough: together they hold all 22 halfwords.
LEMMA WholeFromInvariant == IInv => HeaderWhole
<1> SUFFICES ASSUME IInv, i = Idle, complete PROVE Written = given
  BY DEF HeaderWhole
<1>1. ASSUME NEW k \in 1..22
      PROVE  regs[REG_UDP_HDR_0 + ((k - 1) \div 2)][IF k % 2 = 1 THEN 1 ELSE 2] = given[k]
  <2> DEFINE j == (k - 1) \div 2
  <2>1. j \in 0..10 /\ (IF k % 2 = 1 THEN k = 2 * j + 1 ELSE k = 2 * j + 2)
    OBVIOUS
  <2> HIDE DEF j
  <2>2. \A n \in 0..10 : Holds(n, given)
    BY DEF IInv, header_dword_count
  <2>3. regs[REG_UDP_HDR_0 + j] = <<given[2 * j + 1], given[2 * j + 2]>>
    BY <2>1, <2>2 DEF Holds
  <2>4. regs[REG_UDP_HDR_0 + j][IF k % 2 = 1 THEN 1 ELSE 2] = given[k]
    <3>1. CASE k % 2 = 1
      BY <2>1, <2>3, <3>1
    <3>2. CASE k % 2 # 1
      BY <2>1, <2>3, <3>2
    <3> QED
      BY <3>1, <3>2
  <2> QED
    BY <2>4 DEF j
<1>2. given \in [1..22 -> Halfword]
  BY HeaderType DEF IInv
<1> QED
  BY <1>1, <1>2 DEF Written

-----------------------------------------------------------------------------
(* The theorems *)

THEOREM Invariance == Spec => []IInv
<1>1. Init => IInv
  BY InitWhole
<1>2. IInv /\ [Next]_vars => IInv'
  BY NextWhole
<1> QED
  BY <1>1, <1>2, PTL DEF Spec

\* Headers and registers are halfwords: no carry of csum gets lost or is left over.
THEOREM TypeCorrect == Spec => []TypeOK
<1>1. IInv => TypeOK
  BY DEF IInv
<1> QED
  BY <1>1, Invariance, PTL

\* After a call none of whose writes failed the FPGA holds exactly the header
\* that fpga_initialize_udp_header built, whatever was in its registers.
THEOREM HeadersAreWhole == Spec => []HeaderWhole
BY WholeFromInvariant, Invariance, PTL

\* The IP header that csum completes, in the byte order of the processor, passes the
\* check of a receiver once it is in the registers, for all addresses.
THEOREM ChecksumsVerify == Spec => []ChecksumVerifies
<1>1. IInv => ChecksumVerifies
  <2> SUFFICES ASSUME IInv, i = Idle, complete PROVE Accepts(SubSeq(Written, 8, 17))
    BY DEF ChecksumVerifies
  <2>1. Written = given
    BY WholeFromInvariant DEF HeaderWhole
  <2>2. PICK p \in Params : given = Header(p)
    BY DEF IInv
  <2> QED
    BY <2>1, <2>2, HeaderIsGood
<1> QED
  BY <1>1, Invariance, PTL
=============================================================================
