----------------------------- MODULE MCDac63001 -----------------------------
(***************************************************************************)
(* Small instances of Dac63001: gains and durations at the edges of their  *)
(* ranges, those where the search has the least choice, every reason for a *)
(* refusal, and what the program may be asked for beside the flows.        *)
(***************************************************************************)
EXTENDS Dac63001

Sweep(fn, start, end, duration) ==
  [fn |-> fn, start |-> start, end |-> end, duration |-> duration]
Fixed(voltage) == [fn |-> "fixed", voltage |-> voltage]

Spans == {<<0, 80>>, <<0, 12>>, <<3, 28>>, <<20, 50>>, <<68, 80>>, <<0, 1>>, <<78, 80>>, <<79, 80>>}
Durations == {1000, 1500, 154000, 250000}

Sweeps ==
  {Sweep("transmit", span[1], span[2], duration) : span \in Spans, duration \in Durations}
    \cup {Sweep("receive", 10, 60, 1000), Sweep("receive", 3, 53, 250000)}
Refusals == {Sweep("transmit", 40, 30, 5000), Sweep("transmit", 0, 81, 5000),
             Sweep("transmit", 0, 80, 999), Sweep("receive", 0, 80, 250001)}
FixedGains == {Sweep(fn, gain, gain, 0) : fn \in {"transmit", "receive"}, gain \in {0, 80, 100}}
Sawtooth(low) == [fn |-> "sawtooth", low |-> low, high |-> 1250000, step |-> 7, slew |-> 3]

EveryCall == Sweeps \cup Refusals \cup FixedGains
               \cup {Sawtooth(-100000), Sawtooth(100000), StopCall, Fixed(0), Fixed(DAC63001_EXT_REF_VOLTAGE)}
FixedVoltages == {Fixed(v) : v \in {0, 1, 500000, 1100000, DAC63001_EXT_REF_VOLTAGE}}
=============================================================================
