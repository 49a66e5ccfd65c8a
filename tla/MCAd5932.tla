------------------------------ MODULE MCAd5932 ------------------------------
(***************************************************************************)
(* Small instances of Ad5932: the three waveforms, both directions, a      *)
(* frequency word of more than 12 and of more than 23 bits, and counts     *)
(* below, at and above the ends of their ranges.                           *)
(***************************************************************************)
EXTENDS Ad5932

Config(start, delta, positive, n, mult, interval, wave) ==
  [start_freq |-> start, delta_freq |-> delta, positive_incr |-> positive, num_incr |-> n,
   mclk_mult |-> mult, interval_val |-> interval, wave_type |-> wave]

Sweeps == { Config(20000, 10000, TRUE, 2, 0, 5, 2),
            Config(40000, 1000, FALSE, 4095, 3, 2047, 0),
            Config(25000000, 49999999, FALSE, 0, -1, 0, 1),
            Config(1, 0, TRUE, 65535, 4, 65535, 9) }
=============================================================================
