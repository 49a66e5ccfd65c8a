---------------------------- MODULE MCSingleBeam ----------------------------
(***************************************************************************)
(* Small instances of SingleBeam: one or two sweep threads, at most one    *)
(* failing operation, every call or those that a question is about.        *)
(***************************************************************************)
EXTENDS SingleBeam

Generate == [fn |-> "generate", mode |-> "fixed"]
CallsOf(fn) == [fn : {fn}, mode : {"fixed", "sweep", "refused"}]

EveryCall == {Generate} \cup CallsOf("receive") \cup CallsOf("transmit")
Transmits == CallsOf("transmit")
GenerateAndReceive == {Generate} \cup CallsOf("receive")
ReceiveAndTransmit == CallsOf("receive") \cup CallsOf("transmit")
=============================================================================
