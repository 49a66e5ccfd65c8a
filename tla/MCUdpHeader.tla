----------------------------- MODULE MCUdpHeader -----------------------------
(* An instance of UdpHeader for TLC. *)
EXTENDS UdpHeader

To(src, dst) ==
  [dst_mac |-> <<1, 515, 1029>>, src_mac |-> <<1543, 2057, 2571>>,
   src_ip |-> src, dst_ip |-> dst, src_port |-> 5000, dst_port |-> 65535]

\* The second are the library's own addresses. With the others the sum carries not
\* at all or twice, the checksum is 0, or 0xffff is added four times; the constant
\* part of the header adds up to 11721.
MCParams ==
  {To(<<0, 0>>, <<0, 0>>),
   To(<<43518, 38703>>, <<49320, 261>>),
   To(<<0, Swap(53814)>>, <<0, 0>>),
   To(<<65535, Swap(53815)>>, <<0, 0>>),
   To(<<0, 65535>>, <<Swap(53815), 0>>),
   To(<<65535, 65535>>, <<65535, 65535>>)}

MCPowerUp == {<<0, 0>>, <<65535, 65535>>}
=============================================================================
