------------------------------ MODULE UdpHeader ------------------------------
(***************************************************************************)
(* fpga_initialize_udp_header of dev/fpga.c: builds the Ethernet, IP and   *)
(* UDP header of the packets that the FPGA sends and writes it, four bytes *)
(* at a time, into the FPGA's registers over I2C.                          *)
(*                                                                         *)
(* The header's 44 bytes are 22 halfwords in the order they are sent: no   *)
(* field that the parameters fill starts at an odd byte. The checksum is   *)
(* computed by a little-endian processor, which sees each of them swapped. *)
(***************************************************************************)
EXTENDS Sums

CONSTANTS
  Params,    \* values of udp_header_params: MAC and IP addresses as halfwords
  PowerUp,   \* what a register may hold after power-up
  MaxFaults  \* bound: failed register writes and crashes

Halfword == 0..65535

ASSUME ParamsAssumption ==
  /\ MaxFaults \in Nat /\ PowerUp \subseteq Halfword \X Halfword
  /\ \A p \in Params :
        /\ DOMAIN p = {"dst_mac", "src_mac", "src_ip", "dst_ip", "src_port", "dst_port"}
        /\ p.dst_mac \in [1..3 -> Halfword] /\ p.src_mac \in [1..3 -> Halfword]
        /\ p.src_ip \in [1..2 -> Halfword] /\ p.dst_ip \in [1..2 -> Halfword]
        /\ p.src_port \in Halfword /\ p.dst_port \in Halfword

VARIABLES
  i,        \* the next register to write, or Idle
  pkg_hdr,  \* the header under construction
  regs,     \* the FPGA's registers by address
  faults,
  given,    \* history: the header of the last call
  complete  \* history: no write of the last call has failed, nor was it cut short

vars == <<i, pkg_hdr, regs, faults, given, complete>>

Idle == -1
REG_UDP_HDR_0 == 64
REG_UDP_HDR_9 == 80
Addresses == REG_UDP_HDR_0 .. REG_UDP_HDR_9
NoHeader == <<>>

-----------------------------------------------------------------------------
(* The header *)

Swap(h) == (h % 256) * 256 + (h \div 256)

\* while (sum >> 16) sum = (sum & 0xffff) + (sum >> 16);
Carry[sum \in Nat] ==
  IF sum < 65536 THEN sum ELSE Carry[(sum % 65536) + (sum \div 65536)]

\* What the processor adds up: the halfwords of the packet in its byte order.
HostSum(packet) == Sum([k \in DOMAIN packet |-> Swap(packet[k])])

\* Mutated csum: the carries are added once.
CsumCarriesOnce(packet) ==
  LET sum == HostSum(packet)
  IN  Swap(65535 - (((sum % 65536) + (sum \div 65536)) % 65536))

\* Mutated csum: the carries are never added.
CsumWithoutCarry(packet) == Swap(65535 - HostSum(packet))

\* The checksum as it lies in memory.
csum(packet) == Swap(65535 - Carry[HostSum(packet)])

\* ip_hdr.h_check is the sixth halfword; it is cleared before the sum.
ipcsum(ip) == [ip EXCEPT ![6] = csum([ip EXCEPT ![6] = 0])]

\* 0x4500: version 4, 20 bytes; 0x041c: total length; 0x8011: TTL and protocol.
IpHeader(p) == <<17664, 1052, 0, 0, 32785, 0>> \o p.src_ip \o p.dst_ip

\* The checksum is computed a second time before the writes. ip_total_len and
\* udp_data_len are not used. The last halfword is the padding.
Header(p) ==
  p.dst_mac \o p.src_mac \o <<2048>> \o ipcsum(ipcsum(IpHeader(p)))
    \o <<p.src_port, p.dst_port, 1032, 0>> \o <<0>>

\* Mutated header_dword_count: the registers that fpga.h names.
NamedRegisters == 10

header_dword_count == 22 \div 2

-----------------------------------------------------------------------------
Init ==
  /\ i = Idle /\ pkg_hdr = NoHeader /\ faults = 0
  /\ \E v \in PowerUp : regs = [a \in Addresses |-> v]
  /\ given = NoHeader /\ complete = FALSE

\* params is not NULL; with NULL the function returns -1 and does nothing else.
Initialize(p) ==
  /\ i = Idle
  /\ i' = 0 /\ pkg_hdr' = Header(p)
  /\ given' = Header(p) /\ complete' = TRUE
  /\ UNCHANGED <<regs, faults>>

\* fpga_reg_write_4Bytes; its result is ignored, the value read back only printed.
WriteRegister ==
  /\ i \in 0 .. (header_dword_count - 1)
  /\ i' = i + 1
  /\ \/ /\ regs' = [regs EXCEPT ![REG_UDP_HDR_0 + i] =
                      <<pkg_hdr[2 * i + 1], pkg_hdr[2 * i + 2]>>]
        /\ UNCHANGED <<faults, complete>>
     \/ /\ faults < MaxFaults /\ faults' = faults + 1
        /\ complete' = FALSE
        /\ UNCHANGED regs
  /\ UNCHANGED <<pkg_hdr, given>>

Return ==
  /\ i = header_dword_count
  /\ i' = Idle /\ pkg_hdr' = NoHeader
  /\ UNCHANGED <<regs, faults, given, complete>>

\* The process ends between two writes; the FPGA keeps its registers.
Crash ==
  /\ i # Idle /\ faults < MaxFaults /\ faults' = faults + 1
  /\ i' = Idle /\ pkg_hdr' = NoHeader /\ complete' = FALSE
  /\ UNCHANGED <<regs, given>>

Next ==
  \/ \E p \in Params : Initialize(p)
  \/ WriteRegister \/ Return \/ Crash

Spec == Init /\ [][Next]_vars

-----------------------------------------------------------------------------
(* Properties *)

\* The loop index, the registers and the history have their types, and a header
\* is under construction exactly between call and return.
TypeOK ==
  /\ i \in Idle .. header_dword_count
  /\ regs \in [Addresses -> Halfword \X Halfword]
  /\ faults \in 0 .. MaxFaults
  /\ complete \in BOOLEAN
  /\ \A h \in {pkg_hdr, given} : h = NoHeader \/ h \in [1..22 -> Halfword]
  /\ (i = Idle) <=> (pkg_hdr = NoHeader)

\* The halfwords in the registers that the loop writes, 0x40 to 0x4A, in its order. That
\* the FPGA reads a header there is the code's view; fpga.h names another layout.
Written == [k \in 1..22 |-> regs[REG_UDP_HDR_0 + ((k - 1) \div 2)][IF k % 2 = 1 THEN 1 ELSE 2]]

\* After a call whose writes all worked the registers of the loop hold the whole header
\* of that call and nothing of an earlier one, whatever failed writes and restarts left.
HeaderWhole == (i = Idle /\ complete) => Written = given

\* RFC 1071: a receiver adds up the halfwords in order, with end-around carry,
\* and accepts the header when the result is 0xffff.
Accepts(ip) == Sum(ip) # 0 /\ Sum(ip) % 65535 = 0

\* The IP header that a complete initialisation has written passes the receiver's check,
\* for any addresses, although csum adds in the byte order of the processor.
ChecksumVerifies == (i = Idle /\ complete) => Accepts(SubSeq(Written, 8, 17))

\* The two halfwords of a header that a register holds by its comment in fpga.h:17-26: the
\* source's MAC address first, and HDR_9 apart from the others at 0x50. HDR_2 is left out:
\* its comment names more fields than fit.
NamedFields ==
  {<<64, 4, 5>>, <<65, 6, 1>>, <<67, 9, 10>>, <<68, 11, 12>>, <<69, 13, 14>>,
   <<70, 15, 16>>, <<71, 17, 18>>, <<72, 19, 20>>, <<REG_UDP_HDR_9, 21, 22>>}

\* After a call whose writes all worked each register holds the fields that fpga.h names
\* for it.
RegistersAsNamed ==
  (i = Idle /\ complete) =>
    \A f \in NamedFields : regs[f[1]] = <<given[f[2]], given[f[3]]>>
=============================================================================
