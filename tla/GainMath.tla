------------------------------- MODULE GainMath -------------------------------
(***************************************************************************)
(* The arithmetic of dev/dac63001.c: from gains to control voltages, from  *)
(* voltages to 12-bit codes in 16-bit registers, and the search for the    *)
(* step and the slew rate that make a ramp last as long as asked.          *)
(*                                                                         *)
(* The floats of the source are integers here: voltages in microvolts,     *)
(* times per step in units of 10 ns, durations in microseconds. For every  *)
(* gain from 0 to 80 dB they give the code that the float computation      *)
(* gives; where a quotient is a whole number the float may fall one short. *)
(***************************************************************************)
EXTENDS Integers, Sequences, FiniteSetsExt

AD8338_GAIN_MAX_DB == 80
AD8338_VGAIN_MIN_V == 1100000        \* 0 dB
AD8338_VGAIN_MAX_V == 100000         \* 80 dB
DAC63001_EXT_REF_VOLTAGE == 1250000
DAC63001_CODE_MAX == 4096

slew_times == <<0, 400, 800, 1200, 1800, 2704, 4048, 6072, 9112, 13672, 23920, 41864,
                73256, 128200, 256396, 512792>>
code_steps == <<1, 2, 3, 4, 6, 8, 16, 32>>

SlewTime(slew) == slew_times[slew + 1]
CodeStep(step) == code_steps[step + 1]

Clamp(x, low, high) == IF x < low THEN low ELSE IF x > high THEN high ELSE x
Distance(a, b) == IF a < b THEN b - a ELSE a - b

-----------------------------------------------------------------------------
(* Gain, voltage, code, register *)

\* calculate_gain_offset in millionths of a dB: 20 log10(9500 / 500) - 26.
gain_offset == -424928

\* The more gain, the less voltage: 12.5 mV per dB.
ad8338_gain_to_voltage(gain) ==
  Clamp((80 * AD8338_VGAIN_MIN_V
           - (Clamp(gain, 0, AD8338_GAIN_MAX_DB) * 1000000 - gain_offset)) \div 80,
        AD8338_VGAIN_MAX_V, AD8338_VGAIN_MIN_V)

ad8338_voltage_to_gain(voltage) ==
  Clamp(((AD8338_VGAIN_MIN_V - Clamp(voltage, AD8338_VGAIN_MAX_V, AD8338_VGAIN_MIN_V)) * 80
           + gain_offset) \div 1000000,
        0, AD8338_GAIN_MAX_DB)

\* voltage * 4096 / 1.25 V, truncated.
Code(voltage) == (Clamp(voltage, 0, DAC63001_EXT_REF_VOLTAGE) * 256) \div 78125

\* Mutated voltage_to_dac_code: a register as wide as the code.
DacCodeUncut(voltage) == Code(voltage) * 16

\* The register takes 16 bits: a voltage at the reference has code 4096, shifted to 0.
voltage_to_dac_code(voltage) == (Code(voltage) * 16) % 65536

\* The voltage that the DAC puts out for a register.
Output(register) == ((register \div 16) * 78125) \div 256

\* The code range of a difference of voltages, at least 1; one less where the float
\* quotient falls short of a whole number.
CodeRanges(voltage_range) ==
  LET n == voltage_to_dac_code(voltage_range) \div 16
      least == IF (voltage_range * 256) % 78125 = 0 THEN n - 1 ELSE n
  IN  {Clamp(m, 1, DAC63001_CODE_MAX) : m \in {n, least}}

-----------------------------------------------------------------------------
(* The choice of step and slew rate *)

Combinations == 0..127
StepOf(choice) == choice % 8
SlewOf(choice) == choice \div 8

\* How long the search takes a ramp over the codes to last.
Estimate(codes, choice) ==
  LET step == CodeStep(StepOf(choice))
  IN  (((codes + step - 1) \div step) * SlewTime(SlewOf(choice))) \div 100

\* Mutated Error: the difference keeps its sign.
SignedError(duration, codes, choice) == Estimate(codes, choice) - duration

Error(duration, codes, choice) == Distance(Estimate(codes, choice), duration)

\* The two nested loops, slew rate outside, keep the first of the best choices. The
\* source compares the error in percent, a float, and makes the same choice. The least
\* error is at most the duration, for a slew rate of 0 takes no time, and the duration at
\* most 250000: a larger integer has a larger percentage even as a float, an equal one an
\* equal percentage. Estimates that the float product puts one off last over a second.
calculate_sweep_parameters(duration, codes) ==
  LET least == Min({Error(duration, codes, c) : c \in Combinations})
  IN  Min({c \in Combinations : Error(duration, codes, c) = least})

\* The period of the sawtooth between two registers: setup_sawtooth_wave's formula.
Period(high, low, choice) ==
  LET codes == (high \div 16) - (low \div 16) + 1
  IN  ((codes \div CodeStep(StepOf(choice))) * SlewTime(SlewOf(choice))) \div 100
=============================================================================
