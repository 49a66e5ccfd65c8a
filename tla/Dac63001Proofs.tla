--------------------------- MODULE Dac63001Proofs ---------------------------
(***************************************************************************)
(* Proofs about Dac63001 for any calls, any number of failed transfers and *)
(* kills between and inside them: nobody changes a ramp that runs, the     *)
(* gain is the one asked for, a successful call leaves no ramp running,    *)
(* every register has 16 bits. About the search for step and slew rate,    *)
(* for every gain and duration: the ramp takes about the time asked for,   *)
(* and outlasts the pulse that starts it.                                  *)
(***************************************************************************)
EXTENDS Dac63001, InductionLemmas

-----------------------------------------------------------------------------
(* Gains through the DAC *)

Encoded(gain) == voltage_to_dac_code(ad8338_gain_to_voltage(gain))

\* A gain written to a register comes out of the DAC within 1 dB.
LEMMA RoundTrip ==
  ASSUME NEW gain \in 0..80
  PROVE  WithinOne(Gain(Encoded(gain)), gain)
BY SMTT(60)
   DEF Encoded, WithinOne, Gain, Distance, Output, voltage_to_dac_code, Code, Clamp,
       ad8338_voltage_to_gain, ad8338_gain_to_voltage, gain_offset, AD8338_VGAIN_MIN_V,
       AD8338_VGAIN_MAX_V, AD8338_GAIN_MAX_DB, DAC63001_EXT_REF_VOLTAGE

\* More gain, less voltage.
LEMMA Falling ==
  ASSUME NEW low \in 0..80, NEW high \in 0..80, low < high
  PROVE  Output(Encoded(low)) > Output(Encoded(high))
BY SMTT(60)
   DEF Encoded, Output, voltage_to_dac_code, Code, Clamp, ad8338_gain_to_voltage,
       gain_offset, AD8338_VGAIN_MIN_V, AD8338_VGAIN_MAX_V, AD8338_GAIN_MAX_DB,
       DAC63001_EXT_REF_VOLTAGE

\* A gain above 80 dB is taken for 80 dB.
LEMMA Capped ==
  ASSUME NEW gain \in Nat
  PROVE  /\ Encoded(gain) = Encoded(Clamp(gain, 0, AD8338_GAIN_MAX_DB))
         /\ Clamp(gain, 0, AD8338_GAIN_MAX_DB) \in 0..80
<1>1. Clamp(gain, 0, AD8338_GAIN_MAX_DB) \in 0..80
  BY SMT DEF Clamp, AD8338_GAIN_MAX_DB
<1>2. Clamp(Clamp(gain, 0, AD8338_GAIN_MAX_DB), 0, AD8338_GAIN_MAX_DB)
        = Clamp(gain, 0, AD8338_GAIN_MAX_DB)
  BY SMT DEF Clamp, AD8338_GAIN_MAX_DB
<1> QED
  BY SMT, <1>1, <1>2 DEF Encoded, ad8338_gain_to_voltage

\* The voltage of a gain.
LEMMA Voltage ==
  ASSUME NEW g \in 0..80
  PROVE  ad8338_gain_to_voltage(g) = IF g = 80 THEN 100000 ELSE 1094688 - 12500 * g
BY SMTT(60) DEF Clamp, ad8338_gain_to_voltage, gain_offset, AD8338_VGAIN_MIN_V,
       AD8338_VGAIN_MAX_V, AD8338_GAIN_MAX_DB

\* The code of a voltage, no more than that of 1.1 V: the register does not wrap.
LEMMA CodeOfVoltage ==
  ASSUME NEW v \in Nat, v <= 1100000
  PROVE  /\ voltage_to_dac_code(v) \div 16 = (v * 256) \div 78125
         /\ (v * 256) \div 78125 \in Nat /\ (v * 256) \div 78125 <= 3605
<1> DEFINE code == (v * 256) \div 78125
<1>1. code \in Nat /\ code <= 3605 /\ Code(v) = code
  BY SMT DEF Code, Clamp, DAC63001_EXT_REF_VOLTAGE
<1> HIDE DEF code
<1>2. (code * 16) % 65536 = code * 16 /\ (code * 16) \div 16 = code
  BY SMT, <1>1
<1> QED
  BY SMT, <1>1, <1>2 DEF voltage_to_dac_code, code

Gap(start, end) == ad8338_gain_to_voltage(start) - ad8338_gain_to_voltage(end)

\* What the search takes for the codes of a sweep, against those between its registers.
Counted(start, end, codes) ==
  /\ codes \in Nat /\ codes >= 1 /\ codes <= 3300
  /\ start # 79 => codes >= 40
  /\ end - start >= 12 => codes >= 474
  /\ (Encoded(start) \div 16) - (Encoded(end) \div 16) \in {codes, codes + 1}

\* The two counts differ by one or two, whatever the gains.
LEMMA CodesOfSweep ==
  ASSUME NEW start \in 0..80, NEW end \in 0..80, start < end,
         NEW codes \in CodeRanges(Gap(start, end))
  PROVE  Counted(start, end, codes)
<1> DEFINE v1 == ad8338_gain_to_voltage(start)
           v2 == ad8338_gain_to_voltage(end)
           gap == v1 - v2
           n == (gap * 256) \div 78125
           d == (Encoded(start) \div 16) - (Encoded(end) \div 16)
<1>1. /\ v1 = 1094688 - 12500 * start
      /\ v2 = (IF end = 80 THEN 100000 ELSE 1094688 - 12500 * end)
  BY SMT, Voltage
<1>2. v1 \in Nat /\ v2 \in Nat /\ v1 <= 1100000 /\ v2 <= v1 /\ gap \in Nat /\ gap <= 1000000
  BY SMT, <1>1
<1>3. d = ((v1 * 256) \div 78125) - ((v2 * 256) \div 78125)
  BY SMT, <1>2, CodeOfVoltage DEF Encoded
<1>4. /\ voltage_to_dac_code(gap) \div 16 = n
      /\ n \in Nat
  BY SMT, <1>2, CodeOfVoltage
<1>5. codes \in {Clamp(m, 1, 4096) : m \in {n, IF (gap * 256) % 78125 = 0 THEN n - 1 ELSE n}}
  BY SMT, <1>4 DEF CodeRanges, Gap, DAC63001_CODE_MAX
<1>6. gap >= 7188 /\ (start # 79 => gap >= 12500) /\ (end - start >= 12 => gap >= 144688)
  BY SMT, <1>1
<1> HIDE DEF v1, v2
<1>7. n >= 23 /\ n <= 3276 /\ (start # 79 => n >= 40) /\ (end - start >= 12 => n >= 474)
  BY SMT, <1>2, <1>6
<1>8. d \in {n, n + 1} /\ ((gap * 256) % 78125 = 0 => d = n)
  <2> DEFINE a == v1 * 256
             b == v2 * 256
  <2>1. a \in Nat /\ b \in Nat /\ b <= a /\ gap * 256 = a - b
    BY SMT, <1>2
  <2> HIDE DEF a, b
  <2>2. (a \div 78125) - (b \div 78125) \in {(a - b) \div 78125, ((a - b) \div 78125) + 1}
    BY SMT, <2>1
  <2>3. (a - b) % 78125 = 0 => (a \div 78125) - (b \div 78125) = (a - b) \div 78125
    BY SMT, <2>1
  <2> QED
    BY SMT, <1>3, <2>1, <2>2, <2>3 DEF a, b
<1> HIDE DEF gap, d
\* A quotient that is whole is a multiple of 256.
<1>11. (gap * 256) % 78125 = 0 => n >= 256 /\ (n >= 474 => n >= 512)
  <2> SUFFICES ASSUME (gap * 256) % 78125 = 0 PROVE n >= 256 /\ (n >= 474 => n >= 512)
    OBVIOUS
  <2>1. n * 78125 = gap * 256
    BY SMT, <1>2
  <2> HIDE DEF n
  <2>2. n % 256 = 0
    BY SMT, <1>2, <1>4, <2>1
  <2> QED
    BY SMT, <1>4, <1>7, <2>2
<1>9. \E m \in {n, IF (gap * 256) % 78125 = 0 THEN n - 1 ELSE n} : codes = Clamp(m, 1, 4096)
  BY SMT, <1>5
<1> HIDE DEF n
<1>10. /\ codes \in Nat /\ codes <= n /\ n - 1 <= codes
       /\ (gap * 256) % 78125 # 0 => codes = n
  BY SMT, <1>4, <1>7, <1>9 DEF Clamp
<1> QED
  BY SMT, <1>4, <1>7, <1>8, <1>10, <1>11 DEF d, Counted

-----------------------------------------------------------------------------
(* What the search finds *)

\* The least element of a set of natural numbers.
LEMMA LeastIsMin ==
  ASSUME NEW S, S \subseteq Nat, S # {}
  PROVE  Min(S) \in S /\ \A x \in S : Min(S) <= x
<1>1. \E m \in S : \A k \in S : m <= k
  BY LeastNatural
<1> QED
  BY <1>1, Zenon DEF Min

\* No choice of step and slew rate comes nearer to the duration.
Best(number, duration, codes) ==
  /\ number \in Combinations
  /\ \A c \in Combinations : Error(duration, codes, number) <= Error(duration, codes, c)

\* The search compares natural numbers.
LEMMA ErrorIsNatural ==
  ASSUME NEW duration \in Nat, NEW codes \in Nat, NEW c \in Combinations
  PROVE  Error(duration, codes, c) \in Nat
<1>1. StepOf(c) \in 0..7 /\ SlewOf(c) \in 0..15
  BY SMT DEF StepOf, SlewOf, Combinations
<1>2. CodeStep(StepOf(c)) \in 1..32
  BY SMT, <1>1 DEF CodeStep, code_steps
<1>3. SlewTime(SlewOf(c)) \in Int
  BY SMT, <1>1 DEF SlewTime, slew_times
<1> QED
  BY SMT, <1>2, <1>3 DEF Error, Distance, Estimate

\* What the two loops return is a best choice.
LEMMA SearchIsBest ==
  ASSUME NEW duration \in Nat, NEW codes \in Nat
  PROVE  Best(calculate_sweep_parameters(duration, codes), duration, codes)
<1> DEFINE E(c) == Error(duration, codes, c)
           errors == {E(c) : c \in Combinations}
           least == Min(errors)
           firsts == {c \in Combinations : E(c) = least}
<1>1. \A c \in Combinations : E(c) \in Nat
  BY ErrorIsNatural
<1>2. 0 \in Combinations
  BY SMT DEF Combinations
<1> HIDE DEF E
<1>3. least \in errors /\ \A c \in Combinations : least <= E(c)
  <2>1. errors \subseteq Nat /\ errors # {}
    BY <1>1, <1>2
  <2>2. least \in errors /\ \A x \in errors : least <= x
    <3> HIDE DEF errors
    <3> QED
      BY <2>1, LeastIsMin
  <2> QED
    BY <2>2
<1> HIDE DEF least
<1>4. Min(firsts) \in firsts
  <2>1. firsts \subseteq Nat /\ firsts # {}
    BY <1>3 DEF Combinations
  <2> HIDE DEF firsts
  <2> QED
    BY <2>1, LeastIsMin
<1>5. calculate_sweep_parameters(duration, codes) = Min(firsts)
  BY DEF calculate_sweep_parameters, least, E
<1> HIDE DEF Combinations
<1> QED
  BY <1>3, <1>4, <1>5 DEF Best, E

\* For a sweep over twelve dB and more the search misses the duration by 21.5 % at most,
\* by 19 % between 0.44 and 380 microseconds for each code, and by 48 ms beyond. Thirty
\* choices show it, each for the durations around its own.
LEMMA Grid ==
  ASSUME NEW duration \in Nat, duration >= 1000, duration <= 250000,
         NEW codes \in Nat, codes >= 474, codes <= 3300,
         NEW number, Best(number, duration, codes)
  PROVE  /\ 1000 * Error(duration, codes, number) <= 215 * duration
         /\ 1000 * duration >= 440 * codes /\ 1000 * duration <= 380000 * codes =>
              1000 * Error(duration, codes, number) <= 190 * duration
         /\ 1000 * duration >= 380000 * codes => Error(duration, codes, number) <= 48000
<1> DEFINE least == Error(duration, codes, number)
<1>a. number \in Combinations
  BY DEF Best
<1>b. least \in Nat
  BY <1>a, ErrorIsNatural
<1>c. \A c \in 0..127 : least <= Distance(Estimate(codes, c), duration)
  BY DEF Best, Error, Combinations
<1> HIDE DEF least
<1> USE DEF Distance, Estimate, CodeStep, SlewTime, StepOf, SlewOf, code_steps, slew_times
<1>1. 1000 * duration <= 315 * codes =>
        1000 * least <= 215 * duration
  <2>1. least <= Distance(Estimate(codes, 14), duration)
    BY SMT, <1>c
  <2> QED
    BY SMT, <1>b, <2>1
<1>2. 315 * codes <= 1000 * duration /\ 1000 * duration <= 440 * codes =>
        1000 * least <= 215 * duration
  <2>1. least <= Distance(Estimate(codes, 31), duration)
    BY SMT, <1>c
  <2> QED
    BY SMT, <1>b, <2>1
<1>3. 440 * codes <= 1000 * duration /\ 1000 * duration <= 550 * codes =>
        1000 * least <= 190 * duration
  <2>1. least <= Distance(Estimate(codes, 13), duration)
    BY SMT, <1>c
  <2> QED
    BY SMT, <1>b, <2>1
<1>4. 550 * codes <= 1000 * duration /\ 1000 * duration <= 660 * codes =>
        1000 * least <= 190 * duration
  <2>1. least <= Distance(Estimate(codes, 39), duration)
    BY SMT, <1>c
  <2> QED
    BY SMT, <1>b, <2>1
<1>5. 660 * codes <= 1000 * duration /\ 1000 * duration <= 880 * codes =>
        1000 * least <= 190 * duration
  <2>1. least <= Distance(Estimate(codes, 30), duration)
    BY SMT, <1>c
  <2> QED
    BY SMT, <1>b, <2>1
<1>6. 880 * codes <= 1000 * duration /\ 1000 * duration <= 1200 * codes =>
        1000 * least <= 190 * duration
  <2>1. least <= Distance(Estimate(codes, 11), duration)
    BY SMT, <1>c
  <2> QED
    BY SMT, <1>b, <2>1
<1>7. 1200 * codes <= 1000 * duration /\ 1000 * duration <= 1400 * codes =>
        1000 * least <= 190 * duration
  <2>1. least <= Distance(Estimate(codes, 10), duration)
    BY SMT, <1>c
  <2> QED
    BY SMT, <1>b, <2>1
<1>8. 1400 * codes <= 1000 * duration /\ 1000 * duration <= 1800 * codes =>
        1000 * least <= 190 * duration
  <2>1. least <= Distance(Estimate(codes, 29), duration)
    BY SMT, <1>c
  <2> QED
    BY SMT, <1>b, <2>1
<1>9. 1800 * codes <= 1000 * duration /\ 1000 * duration <= 2200 * codes =>
        1000 * least <= 190 * duration
  <2>1. least <= Distance(Estimate(codes, 9), duration)
    BY SMT, <1>c
  <2> QED
    BY SMT, <1>b, <2>1
<1>10. 2200 * codes <= 1000 * duration /\ 1000 * duration <= 2600 * codes =>
        1000 * least <= 190 * duration
  <2>1. least <= Distance(Estimate(codes, 37), duration)
    BY SMT, <1>c
  <2> QED
    BY SMT, <1>b, <2>1
<1>11. 2600 * codes <= 1000 * duration /\ 1000 * duration <= 3500 * codes =>
        1000 * least <= 190 * duration
  <2>1. least <= Distance(Estimate(codes, 27), duration)
    BY SMT, <1>c
  <2> QED
    BY SMT, <1>b, <2>1
<1>12. 3500 * codes <= 1000 * duration /\ 1000 * duration <= 4200 * codes =>
        1000 * least <= 190 * duration
  <2>1. least <= Distance(Estimate(codes, 8), duration)
    BY SMT, <1>c
  <2> QED
    BY SMT, <1>b, <2>1
<1>13. 4200 * codes <= 1000 * duration /\ 1000 * duration <= 5300 * codes =>
        1000 * least <= 190 * duration
  <2>1. least <= Distance(Estimate(codes, 35), duration)
    BY SMT, <1>c
  <2> QED
    BY SMT, <1>b, <2>1
<1>14. 5300 * codes <= 1000 * duration /\ 1000 * duration <= 6500 * codes =>
        1000 * least <= 190 * duration
  <2>1. least <= Distance(Estimate(codes, 25), duration)
    BY SMT, <1>c
  <2> QED
    BY SMT, <1>b, <2>1
<1>15. 6500 * codes <= 1000 * duration /\ 1000 * duration <= 8000 * codes =>
        1000 * least <= 190 * duration
  <2>1. least <= Distance(Estimate(codes, 43), duration)
    BY SMT, <1>c
  <2> QED
    BY SMT, <1>b, <2>1
<1>16. 8000 * codes <= 1000 * duration /\ 1000 * duration <= 10500 * codes =>
        1000 * least <= 190 * duration
  <2>1. least <= Distance(Estimate(codes, 33), duration)
    BY SMT, <1>c
  <2> QED
    BY SMT, <1>b, <2>1
<1>17. 10500 * codes <= 1000 * duration /\ 1000 * duration <= 14000 * codes =>
        1000 * least <= 190 * duration
  <2>1. least <= Distance(Estimate(codes, 24), duration)
    BY SMT, <1>c
  <2> QED
    BY SMT, <1>b, <2>1
<1>18. 14000 * codes <= 1000 * duration /\ 1000 * duration <= 18000 * codes =>
        1000 * least <= 190 * duration
  <2>1. least <= Distance(Estimate(codes, 59), duration)
    BY SMT, <1>c
  <2> QED
    BY SMT, <1>b, <2>1
<1>19. 18000 * codes <= 1000 * duration /\ 1000 * duration <= 24000 * codes =>
        1000 * least <= 190 * duration
  <2>1. least <= Distance(Estimate(codes, 49), duration)
    BY SMT, <1>c
  <2> QED
    BY SMT, <1>b, <2>1
<1>20. 24000 * codes <= 1000 * duration /\ 1000 * duration <= 31000 * codes =>
        1000 * least <= 190 * duration
  <2>1. least <= Distance(Estimate(codes, 40), duration)
    BY SMT, <1>c
  <2> QED
    BY SMT, <1>b, <2>1
<1>21. 31000 * codes <= 1000 * duration /\ 1000 * duration <= 40000 * codes =>
        1000 * least <= 190 * duration
  <2>1. least <= Distance(Estimate(codes, 75), duration)
    BY SMT, <1>c
  <2> QED
    BY SMT, <1>b, <2>1
<1>22. 40000 * codes <= 1000 * duration /\ 1000 * duration <= 53000 * codes =>
        1000 * least <= 190 * duration
  <2>1. least <= Distance(Estimate(codes, 65), duration)
    BY SMT, <1>c
  <2> QED
    BY SMT, <1>b, <2>1
<1>23. 53000 * codes <= 1000 * duration /\ 1000 * duration <= 70000 * codes =>
        1000 * least <= 190 * duration
  <2>1. least <= Distance(Estimate(codes, 83), duration)
    BY SMT, <1>c
  <2> QED
    BY SMT, <1>b, <2>1
<1>24. 70000 * codes <= 1000 * duration /\ 1000 * duration <= 93000 * codes =>
        1000 * least <= 190 * duration
  <2>1. least <= Distance(Estimate(codes, 82), duration)
    BY SMT, <1>c
  <2> QED
    BY SMT, <1>b, <2>1
<1>25. 93000 * codes <= 1000 * duration /\ 1000 * duration <= 120000 * codes =>
        1000 * least <= 190 * duration
  <2>1. least <= Distance(Estimate(codes, 91), duration)
    BY SMT, <1>c
  <2> QED
    BY SMT, <1>b, <2>1
<1>26. 120000 * codes <= 1000 * duration /\ 1000 * duration <= 160000 * codes =>
        1000 * least <= 190 * duration
  <2>1. least <= Distance(Estimate(codes, 72), duration)
    BY SMT, <1>c
  <2> QED
    BY SMT, <1>b, <2>1
<1>27. 160000 * codes <= 1000 * duration /\ 1000 * duration <= 210000 * codes =>
        1000 * least <= 190 * duration
  <2>1. least <= Distance(Estimate(codes, 99), duration)
    BY SMT, <1>c
  <2> QED
    BY SMT, <1>b, <2>1
<1>28. 210000 * codes <= 1000 * duration /\ 1000 * duration <= 285000 * codes =>
        1000 * least <= 190 * duration
  <2>1. least <= Distance(Estimate(codes, 80), duration)
    BY SMT, <1>c
  <2> QED
    BY SMT, <1>b, <2>1
<1>29. 285000 * codes <= 1000 * duration /\ 1000 * duration <= 380000 * codes =>
        1000 * least <= 190 * duration
  <2>1. least <= Distance(Estimate(codes, 107), duration)
    BY SMT, <1>c
  <2> QED
    BY SMT, <1>b, <2>1
<1>30. 380000 * codes <= 1000 * duration /\ 1000 * duration <= 528000 * codes =>
        1000 * least <= 215 * duration
  <2>1. least <= Distance(Estimate(codes, 106), duration)
    BY SMT, <1>c
  <2> QED
    BY SMT, <1>b, <2>1
<1>31. 380000 * codes <= 1000 * duration => least <= 48000
  <2>1. least <= Distance(Estimate(codes, 106), duration)
    BY SMT, <1>c
  <2> QED
    BY SMT, <1>b, <2>1
<1> QED
  BY SMT, <1>b, <1>1, <1>2, <1>3, <1>4, <1>5, <1>6, <1>7, <1>8, <1>9, <1>10, <1>11, <1>12,
     <1>13, <1>14, <1>15, <1>16, <1>17, <1>18, <1>19, <1>20, <1>21, <1>22, <1>23, <1>24,
     <1>25, <1>26, <1>27, <1>28, <1>29, <1>30, <1>31 DEF least

\* The steps and slew rates of the chip.
Steps == {1, 2, 3, 4, 6, 8, 16, 32}
Times == {0, 400, 800, 1200, 1800, 2704, 4048, 6072, 9112, 13672, 23920, 41864, 73256, 128200,
          256396, 512792}

\* Every choice is one of these.
LEMMA Choice ==
  ASSUME NEW number \in Combinations
  PROVE  CodeStep(StepOf(number)) \in Steps /\ SlewTime(SlewOf(number)) \in Times
<1>1. StepOf(number) \in 0..7 /\ SlewOf(number) \in 0..15
  BY SMT DEF StepOf, SlewOf, Combinations
<1>2. CodeStep(StepOf(number)) \in Steps
  BY SMT, <1>1 DEF CodeStep, code_steps, Steps
<1>3. SlewTime(SlewOf(number)) \in Times
  BY SMT, <1>1 DEF SlewTime, slew_times, Times
<1> QED
  BY <1>2, <1>3

\* The steps that the search counts, rounded up, and those of the ramp, rounded down.
LEMMA Counts ==
  ASSUME NEW codes \in Nat, codes >= 1, NEW span \in {codes + 1, codes + 2}, NEW step \in Steps
  PROVE  /\ (codes + step - 1) \div step \in Nat /\ span \div step \in Nat
         /\ (span \div step) + 1 >= (codes + step - 1) \div step
         /\ step = 1 => (codes + step - 1) \div step = codes /\ span \div step = span
         /\ step = 2 => span \div step <= ((codes + step - 1) \div step) + 1
         /\ step > 2 => span \div step <= (codes + step - 1) \div step
         /\ ((codes + step - 1) \div step) * step >= codes
         /\ ((codes + step - 1) \div step) * step <= codes + step - 1
<1>1. CASE step = 1
  BY SMT, <1>1
<1>2. CASE step = 2
  BY SMT, <1>2
<1>3. CASE step = 3
  BY SMT, <1>3
<1>4. CASE step = 4
  BY SMT, <1>4
<1>5. CASE step = 6
  BY SMT, <1>5
<1>6. CASE step = 8
  BY SMT, <1>6
<1>7. CASE step = 16
  BY SMT, <1>7
<1>8. CASE step = 32
  BY SMT, <1>8
<1> QED
  BY <1>1, <1>2, <1>3, <1>4, <1>5, <1>6, <1>7, <1>8 DEF Steps

\* The period of a ramp over this many codes.
Lasts(span, number) ==
  ((span \div CodeStep(StepOf(number))) * SlewTime(SlewOf(number))) \div 100

\* A factor on both sides.
LEMMA Product ==
  ASSUME NEW k \in Nat, NEW p \in Nat, NEW t \in Nat, NEW a \in Nat, NEW b \in Nat,
         a * k <= b * p
  PROVE  a * (k * t) <= b * (p * t)
<1>1. \A x, y \in Nat : x <= y => x * t <= y * t
  BY SMT
<1>2. a * k \in Nat /\ b * p \in Nat
  BY SMT
<1>3. (a * k) * t <= (b * p) * t
  BY <1>1, <1>2
<1> QED
  BY SMT, <1>3

\* The ramp of a gain sweep over twelve dB and more lasts as asked within a quarter.
LEMMA NearAsked ==
  ASSUME NEW duration \in Nat, duration >= 1000, duration <= 250000,
         NEW codes \in Nat, codes >= 474, codes <= 3300,
         NEW number, Best(number, duration, codes), NEW span \in {codes + 1, codes + 2}
  PROVE  /\ 4 * Distance(Lasts(span, number), duration) <= duration
         /\ Lasts(span, number) <= duration + 50000
<1> DEFINE step == CodeStep(StepOf(number))
           t == SlewTime(SlewOf(number))
           k == (codes + step - 1) \div step
           p == span \div step
           T == k * t
           U == p * t
<1>1. step \in Steps /\ t \in Times
  BY Choice DEF Best
<1>2. /\ k \in Nat /\ p \in Nat /\ p + 1 >= k
      /\ step = 1 => k = codes /\ p = span
      /\ step = 2 => p <= k + 1
      /\ step > 2 => p <= k
      /\ k * step >= codes /\ k * step <= codes + step - 1
  BY <1>1, Counts
<1>3. Estimate(codes, number) = T \div 100 /\ Lasts(span, number) = U \div 100
  BY DEF Estimate, Lasts
<1>4. /\ 1000 * Distance(T \div 100, duration) <= 215 * duration
      /\ 1000 * duration >= 440 * codes /\ 1000 * duration <= 380000 * codes =>
           1000 * Distance(T \div 100, duration) <= 190 * duration
      /\ 1000 * duration >= 380000 * codes => Distance(T \div 100, duration) <= 48000
  BY <1>3, Grid DEF Error
<1>5. t \in Nat /\ t <= 512792
  BY SMT, <1>1 DEF Times
<1> HIDE DEF step, t
<1>6. T \in Nat /\ U \in Nat
  BY SMT, <1>2, <1>5
<1>7. k >= 15 /\ (step # 32 => k >= 29) /\ (step <= 2 => k >= 237) /\ (codes >= 929 => k >= 29)
  BY SMT, <1>1, <1>2 DEF Steps
<1> HIDE DEF k, p
\* One step less at worst, and for the smallest steps two in 474 more.
<1>8. 14 * T <= 15 * U /\ (k >= 29 => 28 * T <= 29 * U)
  <2>1. 14 * k <= 15 * p /\ (k >= 29 => 28 * k <= 29 * p)
    BY SMT, <1>2, <1>7
  <2> QED
    BY <2>1, <1>2, <1>5, Product
<1>9. 237 * U <= 238 * T
  <2>1. 237 * p <= 238 * k
    BY SMT, <1>1, <1>2, <1>7 DEF Steps
  <2> QED
    BY <2>1, <1>2, <1>5, Product
\* With the largest step the slowest ramp lasts 160.25 microseconds for each code.
<1>10. step = 32 => T <= 16025 * (codes + 31)
  <2> SUFFICES ASSUME step = 32 PROVE T <= 16025 * (codes + 31)
    OBVIOUS
  <2>1. 32 * k <= codes + 31
    BY SMT, <1>2
  <2>2. k * t <= k * 512800
    BY SMT, <1>2, <1>5
  <2> QED
    BY SMT, <1>2, <1>6, <2>1, <2>2
<1> HIDE DEF T, U
<1> DEFINE e == T \div 100
           u == U \div 100
<1>11. /\ e \in Nat /\ u \in Nat
       /\ 100 * e <= T /\ T <= 100 * e + 99 /\ 100 * u <= U /\ U <= 100 * u + 99
  BY SMT, <1>6
<1> HIDE DEF e, u
<1>12. 4 * Distance(u, duration) <= duration
  <2>1. CASE e >= duration
    BY SMT, <2>1, <1>4, <1>6, <1>8, <1>9, <1>11 DEF Distance, e
  <2>2. CASE e < duration /\ k >= 29
    BY SMT, <2>2, <1>4, <1>6, <1>8, <1>9, <1>11 DEF Distance, e
  <2>3. CASE e < duration /\ k < 29
    <3>1. step = 32 /\ codes <= 928
      BY SMT, <1>2, <1>7, <2>3
    <3>2. 1000 * duration >= 440 * codes
      BY SMT, <3>1
    <3>3. 785 * duration <= 1000 * e
      BY SMT, <1>4, <2>3, <1>11 DEF Distance, e
    <3>4. 1000 * duration <= 380000 * codes
      BY SMT, <3>1, <3>3, <1>6, <1>10, <1>11
    <3>5. 810 * duration <= 1000 * e
      BY SMT, <1>4, <2>3, <1>11, <3>2, <3>4 DEF Distance, e
    <3> QED
      BY SMT, <2>3, <3>5, <1>6, <1>8, <1>9, <1>11 DEF Distance
  <2> QED
    BY SMT, <1>2, <1>11, <2>1, <2>2, <2>3 DEF k
<1>13. u <= duration + 50000
  <2>1. CASE duration <= 200000
    BY SMT, <2>1, <1>12, <1>11 DEF Distance
  <2>2. CASE duration > 200000
    <3>1. 1000 * duration >= 440 * codes
      BY SMT, <2>2
    <3>2. e <= duration + 48000
      <4>1. CASE 1000 * duration <= 380000 * codes
        BY SMT, <4>1, <3>1, <1>4, <1>11 DEF Distance, e
      <4>2. CASE 1000 * duration >= 380000 * codes
        BY SMT, <4>2, <1>4, <1>11 DEF Distance, e
      <4> QED
        BY SMT, <4>1, <4>2
    <3> QED
      BY SMT, <3>2, <1>9, <1>11, <1>6
  <2> QED
    BY SMT, <2>1, <2>2
<1> QED
  BY <1>3, <1>12, <1>13 DEF u

\* Whatever is asked, the search finds a ramp that it takes to last more than 760
\* microseconds, and never one of two steps of 418.64.
LEMMA NotTooShort ==
  ASSUME NEW duration \in Nat, duration >= 1000,
         NEW codes \in Nat, codes >= 40, codes <= 3300,
         NEW number, Best(number, duration, codes)
  PROVE  /\ Estimate(codes, number) > 760
         /\ codes <= 62 => Estimate(codes, number) # 837
<1> DEFINE estimate == Estimate(codes, number)
<1>a. \A c \in 0..127 : Distance(estimate, duration) <= Distance(Estimate(codes, c), duration)
  BY DEF Best, Error, Combinations
<1>b. estimate \in Int
  <2>1. CodeStep(StepOf(number)) \in Steps /\ SlewTime(SlewOf(number)) \in Times
    BY Choice DEF Best
  <2> QED
    BY SMT, <2>1 DEF Estimate, Steps, Times
<1> HIDE DEF estimate
<1>c. ASSUME NEW found \in Int, found > 760, found < 1240,
             Distance(estimate, duration) <= Distance(found, duration)
      PROVE  estimate > 760
  BY SMT, <1>b, <1>c DEF Distance
<1>d. ASSUME NEW found \in Int, found > 837, found < 1163,
             Distance(estimate, duration) <= Distance(found, duration)
      PROVE  estimate # 837
  BY SMT, <1>b, <1>d DEF Distance
<1> USE DEF Estimate, CodeStep, SlewTime, StepOf, SlewOf, code_steps, slew_times
<1>1. 40 <= codes /\ codes <= 45 => estimate > 760
  <2> HAVE 40 <= codes /\ codes <= 45
  <2>1. Estimate(codes, 40) \in Int /\ Estimate(codes, 40) > 760 /\ Estimate(codes, 40) < 1240
    BY SMT
  <2>2. Distance(estimate, duration) <= Distance(Estimate(codes, 40), duration)
    BY SMT, <1>a
  <2> HIDE DEF Estimate
  <2> QED
    BY <1>c, <2>1, <2>2
<1>2. 46 <= codes /\ codes <= 68 => estimate > 760
  <2> HAVE 46 <= codes /\ codes <= 68
  <2>1. Estimate(codes, 32) \in Int /\ Estimate(codes, 32) > 760 /\ Estimate(codes, 32) < 1240
    BY SMT
  <2>2. Distance(estimate, duration) <= Distance(Estimate(codes, 32), duration)
    BY SMT, <1>a
  <2> HIDE DEF Estimate
  <2> QED
    BY <1>c, <2>1, <2>2
<1>3. 69 <= codes /\ codes <= 103 => estimate > 760
  <2> HAVE 69 <= codes /\ codes <= 103
  <2>1. Estimate(codes, 24) \in Int /\ Estimate(codes, 24) > 760 /\ Estimate(codes, 24) < 1240
    BY SMT
  <2>2. Distance(estimate, duration) <= Distance(Estimate(codes, 24), duration)
    BY SMT, <1>a
  <2> HIDE DEF Estimate
  <2> QED
    BY <1>c, <2>1, <2>2
<1>4. 104 <= codes /\ codes <= 154 => estimate > 760
  <2> HAVE 104 <= codes /\ codes <= 154
  <2>1. Estimate(codes, 16) \in Int /\ Estimate(codes, 16) > 760 /\ Estimate(codes, 16) < 1240
    BY SMT
  <2>2. Distance(estimate, duration) <= Distance(Estimate(codes, 16), duration)
    BY SMT, <1>a
  <2> HIDE DEF Estimate
  <2> QED
    BY <1>c, <2>1, <2>2
<1>5. 155 <= codes /\ codes <= 205 => estimate > 760
  <2> HAVE 155 <= codes /\ codes <= 205
  <2>1. Estimate(codes, 25) \in Int /\ Estimate(codes, 25) > 760 /\ Estimate(codes, 25) < 1240
    BY SMT
  <2>2. Distance(estimate, duration) <= Distance(Estimate(codes, 25), duration)
    BY SMT, <1>a
  <2> HIDE DEF Estimate
  <2> QED
    BY <1>c, <2>1, <2>2
<1>6. 206 <= codes /\ codes <= 309 => estimate > 760
  <2> HAVE 206 <= codes /\ codes <= 309
  <2>1. Estimate(codes, 8) \in Int /\ Estimate(codes, 8) > 760 /\ Estimate(codes, 8) < 1240
    BY SMT
  <2>2. Distance(estimate, duration) <= Distance(Estimate(codes, 8), duration)
    BY SMT, <1>a
  <2> HIDE DEF Estimate
  <2> QED
    BY <1>c, <2>1, <2>2
<1>7. 310 <= codes /\ codes <= 462 => estimate > 760
  <2> HAVE 310 <= codes /\ codes <= 462
  <2>1. Estimate(codes, 18) \in Int /\ Estimate(codes, 18) > 760 /\ Estimate(codes, 18) < 1240
    BY SMT
  <2>2. Distance(estimate, duration) <= Distance(Estimate(codes, 18), duration)
    BY SMT, <1>a
  <2> HIDE DEF Estimate
  <2> QED
    BY <1>c, <2>1, <2>2
<1>8. 463 <= codes /\ codes <= 618 => estimate > 760
  <2> HAVE 463 <= codes /\ codes <= 618
  <2>1. Estimate(codes, 9) \in Int /\ Estimate(codes, 9) > 760 /\ Estimate(codes, 9) < 1240
    BY SMT
  <2>2. Distance(estimate, duration) <= Distance(Estimate(codes, 9), duration)
    BY SMT, <1>a
  <2> HIDE DEF Estimate
  <2> QED
    BY <1>c, <2>1, <2>2
<1>9. 619 <= codes /\ codes <= 927 => estimate > 760
  <2> HAVE 619 <= codes /\ codes <= 927
  <2>1. Estimate(codes, 10) \in Int /\ Estimate(codes, 10) > 760 /\ Estimate(codes, 10) < 1240
    BY SMT
  <2>2. Distance(estimate, duration) <= Distance(Estimate(codes, 10), duration)
    BY SMT, <1>a
  <2> HIDE DEF Estimate
  <2> QED
    BY <1>c, <2>1, <2>2
<1>10. 928 <= codes /\ codes <= 1236 => estimate > 760
  <2> HAVE 928 <= codes /\ codes <= 1236
  <2>1. Estimate(codes, 11) \in Int /\ Estimate(codes, 11) > 760 /\ Estimate(codes, 11) < 1240
    BY SMT
  <2>2. Distance(estimate, duration) <= Distance(Estimate(codes, 11), duration)
    BY SMT, <1>a
  <2> HIDE DEF Estimate
  <2> QED
    BY <1>c, <2>1, <2>2
<1>11. 1237 <= codes /\ codes <= 1854 => estimate > 760
  <2> HAVE 1237 <= codes /\ codes <= 1854
  <2>1. Estimate(codes, 12) \in Int /\ Estimate(codes, 12) > 760 /\ Estimate(codes, 12) < 1240
    BY SMT
  <2>2. Distance(estimate, duration) <= Distance(Estimate(codes, 12), duration)
    BY SMT, <1>a
  <2> HIDE DEF Estimate
  <2> QED
    BY <1>c, <2>1, <2>2
<1>12. 1855 <= codes /\ codes <= 2472 => estimate > 760
  <2> HAVE 1855 <= codes /\ codes <= 2472
  <2>1. Estimate(codes, 13) \in Int /\ Estimate(codes, 13) > 760 /\ Estimate(codes, 13) < 1240
    BY SMT
  <2>2. Distance(estimate, duration) <= Distance(Estimate(codes, 13), duration)
    BY SMT, <1>a
  <2> HIDE DEF Estimate
  <2> QED
    BY <1>c, <2>1, <2>2
<1>13. 2473 <= codes /\ codes <= 3200 => estimate > 760
  <2> HAVE 2473 <= codes /\ codes <= 3200
  <2>1. Estimate(codes, 31) \in Int /\ Estimate(codes, 31) > 760 /\ Estimate(codes, 31) < 1240
    BY SMT
  <2>2. Distance(estimate, duration) <= Distance(Estimate(codes, 31), duration)
    BY SMT, <1>a
  <2> HIDE DEF Estimate
  <2> QED
    BY <1>c, <2>1, <2>2
<1>14. 3201 <= codes /\ codes <= 3300 => estimate > 760
  <2> HAVE 3201 <= codes /\ codes <= 3300
  <2>1. Estimate(codes, 14) \in Int /\ Estimate(codes, 14) > 760 /\ Estimate(codes, 14) < 1240
    BY SMT
  <2>2. Distance(estimate, duration) <= Distance(Estimate(codes, 14), duration)
    BY SMT, <1>a
  <2> HIDE DEF Estimate
  <2> QED
    BY <1>c, <2>1, <2>2
<1>15. 40 <= codes /\ codes <= 42 => estimate # 837
  <2> HAVE 40 <= codes /\ codes <= 42
  <2>1. Estimate(codes, 40) \in Int /\ Estimate(codes, 40) > 837 /\ Estimate(codes, 40) < 1163
    BY SMT
  <2>2. Distance(estimate, duration) <= Distance(Estimate(codes, 40), duration)
    BY SMT, <1>a
  <2> HIDE DEF Estimate
  <2> QED
    BY <1>d, <2>1, <2>2
<1>16. 43 <= codes /\ codes <= 46 => estimate # 837
  <2> HAVE 43 <= codes /\ codes <= 46
  <2>1. Estimate(codes, 58) \in Int /\ Estimate(codes, 58) > 837 /\ Estimate(codes, 58) < 1163
    BY SMT
  <2>2. Distance(estimate, duration) <= Distance(Estimate(codes, 58), duration)
    BY SMT, <1>a
  <2> HIDE DEF Estimate
  <2> QED
    BY <1>d, <2>1, <2>2
<1>17. 47 <= codes /\ codes <= 62 => estimate # 837
  <2> HAVE 47 <= codes /\ codes <= 62
  <2>1. Estimate(codes, 32) \in Int /\ Estimate(codes, 32) > 837 /\ Estimate(codes, 32) < 1163
    BY SMT
  <2>2. Distance(estimate, duration) <= Distance(Estimate(codes, 32), duration)
    BY SMT, <1>a
  <2> HIDE DEF Estimate
  <2> QED
    BY <1>d, <2>1, <2>2
<1> QED
  BY SMT, <1>1, <1>2, <1>3, <1>4, <1>5, <1>6, <1>7, <1>8, <1>9, <1>10, <1>11, <1>12, <1>13,
     <1>14, <1>15, <1>16, <1>17 DEF estimate

\* The ramp of a gain sweep is longer than the pulse of 500 microseconds.
LEMMA LongerThanPulse ==
  ASSUME NEW duration \in Nat, duration >= 1000,
         NEW codes \in Nat, codes >= 40, codes <= 3300,
         NEW number, Best(number, duration, codes), NEW span \in {codes + 1, codes + 2}
  PROVE  Lasts(span, number) > 500
<1> DEFINE step == CodeStep(StepOf(number))
           t == SlewTime(SlewOf(number))
           k == (codes + step - 1) \div step
           p == span \div step
           T == k * t
           U == p * t
<1>1. step \in Steps /\ t \in Times
  BY Choice DEF Best
<1>2. /\ k \in Nat /\ p \in Nat /\ p + 1 >= k
      /\ k * step >= codes /\ k * step <= codes + step - 1
  BY <1>1, Counts
<1>3. T \div 100 > 760 /\ (codes <= 62 => T \div 100 # 837)
  BY NotTooShort DEF Estimate
<1>4. Lasts(span, number) = U \div 100
  BY DEF Lasts
<1>5. k = 2 => step = 32
  BY SMT, <1>1, <1>2 DEF Steps
<1>6. k >= 2
  BY SMT, <1>1, <1>2 DEF Steps
<1>7. k = 2 /\ codes >= 63 => p = 2
  BY SMT, <1>1, <1>2, <1>5 DEF p, k
<1>8. t \in Nat
  BY SMT, <1>1 DEF Times
<1> HIDE DEF step, k, p
<1>9. T \in Nat /\ U \in Nat
  BY SMT, <1>2, <1>8
<1>10. T >= 76100
  <2> HIDE DEF T
  <2> QED
    BY SMT, <1>3, <1>9
<1>11. U > 50099
  <2>1. CASE k >= 3
    <3>1. 2 * k <= 3 * p
      BY SMT, <1>2, <2>1
    <3>2. 2 * T <= 3 * U
      BY <3>1, <1>2, <1>8, Product
    <3> QED
      BY SMT, <3>2, <1>10, <1>9
  <2>2. CASE k = 2 /\ p >= 2
    <3>1. 1 * k <= 1 * p
      BY SMT, <1>2, <2>2
    <3>2. 1 * T <= 1 * U
      BY <3>1, <1>2, <1>8, Product
    <3> QED
      BY SMT, <3>2, <1>10, <1>9
  <2>3. CASE k = 2 /\ p = 1
    <3>1. codes <= 62 /\ T = 2 * t /\ U = t
      BY SMT, <1>2, <1>7, <1>8, <2>3
    <3>2. t # 41864
      BY SMT, <3>1, <1>3
    <3>3. t > 41864
      BY SMT, <3>1, <3>2, <1>1, <1>10 DEF Times
    <3> QED
      BY SMT, <3>1, <3>3, <1>1 DEF Times
  <2> QED
    BY SMT, <1>2, <1>6, <2>1, <2>2, <2>3
<1> HIDE DEF U
<1> QED
  BY SMT, <1>4, <1>9, <1>11

-----------------------------------------------------------------------------
(* Calls *)

\* A call's function tells which fields it has.
LEMMA Kinds ==
  ASSUME NEW c \in Calls
  PROVE  /\ c.fn \in {"transmit", "receive", "fixed", "sawtooth", "stop"}
         /\ c.fn \in {"transmit", "receive"} =>
              c.start \in Nat /\ c.end \in Nat /\ c.duration \in Nat
<1> DEFINE kinds == \/ c \in GainCalls \cup FixedCalls \cup {StopCall}
                    \/ c \in SawtoothCalls
<1>1. kinds
  BY SMT, CallsAssumption
<1>2. c \in GainCalls => c.fn \in {"transmit", "receive"} /\ c.start \in Nat
                         /\ c.end \in Nat /\ c.duration \in Nat
  BY SMT DEF GainCalls
<1>3. c \in FixedCalls => c.fn = "fixed"
  BY SMT DEF FixedCalls
<1>4. c \in SawtoothCalls => c.fn = "sawtooth"
  BY SMT DEF SawtoothCalls
<1> QED
  BY SMT, <1>1, <1>2, <1>3, <1>4 DEF StopCall

\* A sweep that is not refused goes from one gain up to another.
LEMMA AcceptedGains ==
  ASSUME NEW c \in Calls, c.fn \in {"transmit", "receive"}, ~Refused(c)
  PROVE  c.start \in 0..80 /\ c.end \in 0..80 /\ c.start < c.end
<1>1. c.start \in Nat /\ c.end \in Nat /\ c.duration \in Nat
  BY SMT, Kinds
<1> QED
  BY SMT, <1>1 DEF Refused, AD8338_GAIN_MAX_DB

-----------------------------------------------------------------------------
(* The inductive invariant *)

Shape ==
  /\ reg = [r \in Registers |-> reg[r]]
  /\ pc \in Labels /\ wave \in {"off", "on", "last"}
  /\ call \in Calls \cup {NoCall} /\ (pc # "idle" => call \in Calls)
  /\ faults \in Nat /\ before \in Nat /\ before <= faults

Margins == {"high", "low", "func"}
Arming == {"gate_on", "timer", "gate_check", "gpio"}
Accepted == GainSweep /\ ~Refused(call)

\* Which calls reach which label.
Path ==
  /\ pc = "sweep" => GainSweep
  /\ pc = "stop" /\ GainSweep => Accepted
  /\ pc = "data" => FixedGain \/ call.fn = "fixed"
  /\ pc \in Margins \cup {"start"} => Accepted \/ call.fn = "sawtooth"
  /\ pc = "start" => ~Transmit
  /\ pc \in Arming => Transmit /\ Accepted
  /\ pc \in {"gate_off", "armed"} => Transmit
  /\ pc \in {"armed", "receiving"} => Flow /\ (FixedGain \/ Accepted)
  /\ pc \in {"gate_off", "left"} => FixedGain
  /\ pc = "stop_again" => Accepted
  /\ pc = "receiving" /\ FixedGain => Transmit

\* Once the stop has worked the function generator is off until the call itself, or the
\* pin, starts it.
Silent ==
  /\ pc \in Margins \cup Arming \cup {"data"} => wave # "on"
  /\ pc \in {"gate_off", "left", "armed", "receiving"} /\ Clean => wave # "on"

\* What the call has written so far.
Written ==
  /\ Accepted /\ pc \in {"low", "func", "start", "armed"} \cup Arming =>
       reg["high"] = Encoded(call.start)
  /\ Accepted /\ pc \in {"func", "start", "armed"} \cup Arming =>
       reg["low"] = Encoded(call.end)
  /\ pc \in {"gate_off", "armed", "receiving"} /\ FixedGain /\ Clean =>
       reg["data"] = Encoded(call.start)
  /\ pc = "armed" /\ FixedGain /\ Clean => reg["gate"] = 0
  /\ pc = "gpio" \/ (pc = "armed" /\ Accepted) => reg["gate"] = 1
  /\ pc = "armed" /\ Accepted => reg["gpio"] = StartStopPin

\* The ramp that the call has started.
Ramp ==
  /\ pc \notin {"idle", "stop_again", "receiving"} => ramp = NoRamp
  /\ pc = "receiving" /\ FixedGain /\ Clean => ramp = NoRamp
  /\ pc \in {"stop_again", "receiving"} /\ Accepted /\ Clean =>
       ramp.high = Encoded(call.start) /\ ramp.low = Encoded(call.end)

Inv ==
  /\ Shape /\ Path /\ Silent /\ Written /\ Ramp
  /\ pc # "idle" /\ Clean => open
  /\ QuietReturn

\* The two steps of the induction.
LEMMA InitInv == Init => Inv
BY SMT DEF Init, Inv, Shape, Path, Silent, Written, Ramp, QuietReturn, Clean, Flow, Transmit,
       FixedGain, GainSweep, Accepted, Margins, Arming, Labels, NoCall, Registers

USE DEF Shape, Path, Silent, Written, Ramp, QuietReturn, Clean, Flow, Transmit, FixedGain,
        GainSweep, Margins, Arming, Accepted, Labels, local, chip, Fault, BusFails, BusWorks,
        Return, Proceed, Goto, Set, Gone

LEMMA Step == Inv /\ [Next]_vars => Inv'
<1> SUFFICES ASSUME Inv, [Next]_vars PROVE Inv'
  OBVIOUS
<1> USE DEF Inv
<1>1. ASSUME NEW c \in Calls, Begin(c) PROVE Inv'
  BY SMT, <1>1 DEF Begin, NoCall
<1>2. CASE Killed
  BY SMT, <1>2 DEF Killed, NoCall
<1>3. CASE SetupCommon
  BY SMT, <1>3 DEF SetupCommon, Verified, Registers
<1>4. CASE SetupVout
  BY SMT, <1>4 DEF SetupVout, Verified, Registers
<1>5. CASE SetGainSweep
  BY SMT, <1>5 DEF SetGainSweep
<1>6. CASE Stop
  BY SMT, <1>6, Kinds DEF Stop, StopWave, SetupFails, Registers
<1>7. CASE SetData
  BY SMT, <1>7 DEF SetData, Verified, SetupFails, FixedVoltage, Encoded, Registers
<1>8. CASE SetHigh
  BY SMT, <1>8 DEF SetHigh, Write, SetupFails, MaxVoltage, Encoded, Registers
<1>9. CASE SetLow
  BY SMT, <1>9 DEF SetLow, Write, SetupFails, MinVoltage, Encoded, Registers
<1>10. CASE SetFunc
  BY SMT, <1>10 DEF SetFunc, Write, SetupFails, Registers
<1>11. CASE Start
  BY SMT, <1>11 DEF Start, RampNow, Registers
<1>12. CASE StopAgain
  BY SMT, <1>12 DEF StopAgain, StopWave, Registers
<1>13. CASE Left
  BY SMT, <1>13 DEF Left
<1>14. CASE GateOff
  BY SMT, <1>14 DEF GateOff, Switch, Registers
<1>15. CASE GateOn \/ SetTimer
  BY SMT, <1>15 DEF GateOn, SetTimer, Switch, Registers
<1>16. CASE GateCheck
  BY SMT, <1>16 DEF GateCheck, NoCall
<1>17. CASE SetGpio
  BY SMT, <1>17 DEF SetGpio, Write, SetupFails, Registers
<1>18. CASE SweepEnds
  BY SMT, <1>18 DEF SweepEnds, PinPulse, RampNow
<1>19. CASE WindowEnds \/ WaveEnds
  BY SMT, <1>19 DEF WindowEnds, WaveEnds
<1>20. CASE UNCHANGED vars
  BY SMT, <1>20 DEF vars
<1> QED
  BY <1>1, <1>2, <1>3, <1>4, <1>5, <1>6, <1>7, <1>8, <1>9, <1>10, <1>11, <1>12, <1>13,
     <1>14, <1>15, <1>16, <1>17, <1>18, <1>19, <1>20 DEF Next

\* The inductive invariant holds, for any calls and faults.
THEOREM Invariance == Spec => []Inv
<1>1. Init => Inv
  BY InitInv
<1>2. Inv /\ [Next]_vars => Inv'
  BY Step
<1> QED
  BY <1>1, <1>2, PTL DEF Spec

-----------------------------------------------------------------------------
(* What follows *)

\* The gain that the samples are taken with is the one asked for, for any calls and after
\* any failures.
THEOREM GainIsAsAsked == Spec => []GainAsAsked
<1>1. Inv => GainAsAsked
  <2> SUFFICES ASSUME Inv, pc = "receiving", Clean
               PROVE  IF GainSweep
                      THEN /\ WithinOne(Gain(ramp.high), call.start)
                           /\ WithinOne(Gain(ramp.low), call.end)
                           /\ Output(ramp.high) > Output(ramp.low)
                      ELSE /\ ramp = NoRamp /\ wave # "on"
                           /\ WithinOne(Gain(reg["data"]),
                                        Clamp(call.start, 0, AD8338_GAIN_MAX_DB))
    BY SMT DEF GainAsAsked
  <2>1. call \in Calls /\ Flow /\ (FixedGain \/ Accepted)
    BY SMT DEF Inv
  <2>2. CASE Accepted
    <3>1. call.start \in 0..80 /\ call.end \in 0..80 /\ call.start < call.end
      BY SMT, <2>1, <2>2, AcceptedGains
    <3>2. ramp.high = Encoded(call.start) /\ ramp.low = Encoded(call.end)
      BY SMT, <2>2 DEF Inv
    <3>3. WithinOne(Gain(Encoded(call.start)), call.start)
          /\ WithinOne(Gain(Encoded(call.end)), call.end)
      BY SMT, <3>1, RoundTrip
    <3>4. Output(Encoded(call.start)) > Output(Encoded(call.end))
      BY SMT, <3>1, Falling
    <3> QED
      BY SMT, <2>2, <3>2, <3>3, <3>4
  <2>3. CASE FixedGain
    <3>1. call.start \in Nat
      BY SMT, <2>1, Kinds
    <3>2. ramp = NoRamp /\ wave # "on" /\ reg["data"] = Encoded(call.start)
      BY SMT, <2>3 DEF Inv
    <3> DEFINE capped == Clamp(call.start, 0, AD8338_GAIN_MAX_DB)
    <3>3. Encoded(call.start) = Encoded(capped) /\ capped \in 0..80
      BY SMT, <3>1, Capped
    <3> HIDE DEF capped
    <3>4. WithinOne(Gain(Encoded(capped)), capped)
      BY SMT, <3>3, RoundTrip
    <3>5. WithinOne(Gain(reg["data"]), capped)
      BY SMT, <3>2, <3>3, <3>4
    <3> QED
      BY SMT, <2>3, <3>2, <3>5 DEF capped
  <2> QED
    BY SMT, <2>1, <2>2, <2>3
<1> QED
  BY <1>1, Invariance, PTL

\* A call that reports success leaves no function running.
THEOREM ReturnIsQuiet == Spec => []QuietReturn
<1>1. Inv => QuietReturn
  BY SMT DEF Inv
<1> QED
  BY <1>1, Invariance, PTL

\* While the function generator is on, margins and function stay as they are.
THEOREM OutputIsSteady == Spec => OutputSteady
<1> DEFINE Steady == wave = "on" => UNCHANGED <<reg["high"], reg["low"], reg["func"]>>
<1>1. Inv /\ [Next]_vars => [Steady]_vars
  <2> SUFFICES ASSUME Inv, Next PROVE Steady
    BY SMT
  <2> USE DEF Inv
  <2>1. ASSUME NEW c \in Calls, Begin(c) PROVE Steady
    BY SMT, <2>1 DEF Begin
  <2>2. CASE Killed \/ SetGainSweep \/ Left \/ GateCheck \/ SweepEnds \/ WindowEnds \/ WaveEnds
    BY SMT, <2>2 DEF Killed, SetGainSweep, Left, GateCheck, SweepEnds, PinPulse, WindowEnds,
       WaveEnds
  <2>3. CASE SetupCommon \/ SetupVout \/ SetData
    BY SMT, <2>3 DEF SetupCommon, SetupVout, SetData, Verified, Registers
  <2>4. CASE Stop \/ Start \/ StopAgain
    BY SMT, <2>4 DEF Stop, Start, StopAgain, Registers
  <2>5. CASE SetHigh \/ SetLow \/ SetFunc \/ SetGpio
    BY SMT, <2>5 DEF SetHigh, SetLow, SetFunc, SetGpio, Write, Registers
  <2>6. CASE GateOff \/ GateOn \/ SetTimer
    BY SMT, <2>6 DEF GateOff, GateOn, SetTimer, Switch, Registers
  <2> QED
    BY <2>1, <2>2, <2>3, <2>4, <2>5, <2>6 DEF Next
<1> QED
  BY <1>1, Invariance, PTL DEF Spec, OutputSteady

-----------------------------------------------------------------------------
(* The ramp's times *)

\* The search may have returned this number for this call.
Found(number) ==
  \E codes \in CodeRanges(Gap(call.start, call.end)) :
    number = calculate_sweep_parameters(call.duration, codes)

\* The step and the slew rate that the search found are those of the ramp, and the pulse
\* has its length.
Searched ==
  /\ pc = "stop_again" => ~Transmit
  /\ Accepted /\ pc \in {"stop", "start", "armed", "stop_again", "receiving"}
                         \cup Margins \cup Arming => Found(choice)
  /\ Accepted /\ pc \in {"start", "armed"} \cup Arming => reg["func"] = Function(choice)
  /\ Accepted /\ Clean /\ pc \in {"stop_again", "receiving"} => ramp.func = Function(choice)
  /\ Accepted /\ Clean /\ Transmit /\ pc \in {"gate_check", "gpio", "armed", "receiving"} =>
       reg["timer"] = 12500

\* The same for the search's results.
LEMMA InitSearched == Init => Searched
BY SMT DEF Init, Searched, Registers

LEMMA SearchedStep == Inv /\ Searched /\ [Next]_vars => Searched'
<1> SUFFICES ASSUME Inv, Searched, [Next]_vars PROVE Searched'
  OBVIOUS
<1> USE DEF Inv, Searched
<1>1. (call' = call /\ choice' = choice) => (Found(choice) <=> Found(choice)')
  BY DEF Found
<1>2. call' = call => (Accepted <=> Accepted')
  BY DEF Refused
<1>3. ASSUME NEW c \in Calls, Begin(c) PROVE Searched'
  BY SMT, <1>3 DEF Begin
<1>4. CASE Killed \/ Left \/ WindowEnds
  BY SMT, <1>4 DEF Killed, Left, WindowEnds, NoCall
<1>5. CASE SetupCommon \/ SetupVout \/ SetData
  BY SMT, <1>5, <1>1 DEF SetupCommon, SetupVout, SetData, Verified, SetupFails, Registers
<1>6. CASE SetGainSweep
  BY SMT, <1>6 DEF SetGainSweep, Found, Gap
<1>7. CASE Stop
  BY SMT, <1>7, <1>1 DEF Stop, StopWave, SetupFails, Registers
<1>8. CASE SetHigh \/ SetLow
  BY SMT, <1>8, <1>1 DEF SetHigh, SetLow, Write, SetupFails, Registers
<1>9. CASE SetFunc
  BY SMT, <1>9, <1>1 DEF SetFunc, Write, SetupFails, FunctionAsked, Registers
<1>10. CASE Start
  BY SMT, <1>10, <1>1 DEF Start, RampNow, Registers
<1>11. CASE StopAgain
  BY SMT, <1>11, <1>1 DEF StopAgain, StopWave, Registers
<1>12. CASE GateOff \/ GateOn
  BY SMT, <1>12, <1>1 DEF GateOff, GateOn, Switch, Registers
<1>13. CASE SetTimer
  BY SMT, <1>13, <1>1 DEF SetTimer, Switch, Registers
<1>14. CASE GateCheck
  BY SMT, <1>14, <1>1 DEF GateCheck, NoCall
<1>15. CASE SetGpio
  BY SMT, <1>15, <1>1 DEF SetGpio, Write, SetupFails, Registers
<1>16. CASE SweepEnds
  BY SMT, <1>16, <1>1 DEF SweepEnds, PinPulse, RampNow
<1>17. CASE WaveEnds
  BY SMT, <1>17, <1>1 DEF WaveEnds
<1>18. CASE UNCHANGED vars
  BY SMT, <1>18, <1>1 DEF vars
<1> QED
  BY <1>3, <1>4, <1>5, <1>6, <1>7, <1>8, <1>9, <1>10, <1>11, <1>12, <1>13, <1>14, <1>15,
     <1>16, <1>17, <1>18 DEF Next

\* The invariant of the ramp's times: what the search found is what the ramp runs with.
THEOREM SearchIsUsed == Spec => []Searched
<1>1. Init => Searched
  BY InitSearched
<1>2. Inv /\ Searched /\ [Next]_vars => Searched'
  BY SearchedStep
<1> QED
  BY <1>1, <1>2, Invariance, PTL DEF Spec

\* FUNC-CONFIG holds the choice.
LEMMA Decoded ==
  ASSUME NEW number \in Combinations
  PROVE  (Function(number) % 16) * 8 + ((Function(number) \div 16) % 8) = number
<1> DEFINE a == number \div 8
           b == number % 8
<1>1. a \in Nat /\ a <= 15 /\ b \in Nat /\ b <= 7 /\ number = 8 * a + b
  BY SMT DEF Combinations
<1>2. Function(number) = 512 + b * 16 + a
  BY DEF Function, StepOf, SlewOf
<1> HIDE DEF a, b
<1>3. (512 + b * 16 + a) % 16 = a /\ ((512 + b * 16 + a) \div 16) % 8 = b
  BY SMT, <1>1
<1> QED
  BY SMT, <1>1, <1>2, <1>3

\* The ramp of a reception lasts as long as that of the best choice.
LEMMA RampOfCall ==
  ASSUME Inv, Searched, pc = "receiving", Clean, GainSweep
  PROVE  /\ call.duration \in Nat /\ call.duration >= 1000 /\ call.duration <= 250000
         /\ \E codes \in Nat :
              /\ codes <= 3300
              /\ call.start # 79 => codes >= 40
              /\ call.end - call.start >= 12 => codes >= 474
              /\ Best(choice, call.duration, codes)
              /\ \E span \in {codes + 1, codes + 2} : RampPeriod = Lasts(span, choice)
<1>1. call \in Calls /\ Flow /\ Accepted
  BY SMT DEF Inv
<1>2. /\ call.start \in 0..80 /\ call.end \in 0..80 /\ call.start < call.end
      /\ call.duration \in Nat
  BY SMT, <1>1, AcceptedGains, Kinds
<1>3. call.duration >= 1000 /\ call.duration <= 250000
  BY SMT, <1>1, <1>2 DEF Refused
<1>4. PICK codes \in CodeRanges(Gap(call.start, call.end)) :
        choice = calculate_sweep_parameters(call.duration, codes)
  BY <1>1 DEF Searched, Found
<1> DEFINE d == (Encoded(call.start) \div 16) - (Encoded(call.end) \div 16)
<1>5. /\ codes \in Nat /\ codes <= 3300
      /\ call.start # 79 => codes >= 40
      /\ call.end - call.start >= 12 => codes >= 474
      /\ d \in {codes, codes + 1}
  <2>1. Counted(call.start, call.end, codes)
    BY <1>2, CodesOfSweep
  <2> QED
    BY SMT, <2>1 DEF Counted
<1>6. Best(choice, call.duration, codes)
  BY <1>2, <1>4, <1>5, SearchIsBest
<1>7. choice \in Combinations
  BY <1>6 DEF Best
<1>8. /\ ramp.high = Encoded(call.start) /\ ramp.low = Encoded(call.end)
      /\ ramp.func = Function(choice)
  BY SMT, <1>1 DEF Inv, Searched
<1>9. RampPeriod = Lasts(d + 1, choice)
  BY <1>7, <1>8, Decoded DEF RampPeriod, Period, Lasts
<1> HIDE DEF d
<1>10. d + 1 \in {codes + 1, codes + 2}
  BY SMT, <1>5
<1> QED
  BY <1>2, <1>3, <1>5, <1>6, <1>9, <1>10

\* The ramp of a gain sweep over 12 dB and more takes the asked time within a quarter,
\* for all gains and durations.
THEOREM RampIsNearAsked == Spec => []RampNearAsked
<1>1. Inv /\ Searched => RampNearAsked
  <2> SUFFICES ASSUME Inv, Searched, pc = "receiving", Clean, GainSweep,
                      call.end - call.start >= 12
               PROVE  /\ 4 * Distance(RampPeriod, call.duration) <= call.duration
                      /\ RampPeriod <= call.duration + 50000
    BY DEF RampNearAsked
  <2>1. call.duration \in Nat /\ call.duration >= 1000 /\ call.duration <= 250000
    BY RampOfCall
  <2>2. PICK codes \in Nat : /\ codes <= 3300 /\ codes >= 474
                             /\ Best(choice, call.duration, codes)
                             /\ \E span \in {codes + 1, codes + 2} :
                                  RampPeriod = Lasts(span, choice)
    BY RampOfCall
  <2> QED
    BY <2>1, <2>2, NearAsked
<1> QED
  BY <1>1, Invariance, SearchIsUsed, PTL

\* The trigger's pulse is over before the ramp, for all gains but 79 to 80 dB.
THEOREM OneRampIsEnough == Spec => []OneRampPerPulse
<1>1. Inv /\ Searched => OneRampPerPulse
  <2> SUFFICES ASSUME Inv, Searched, pc = "receiving", Clean, GainSweep, Transmit,
                      call.start # 79
               PROVE  reg["timer"] * 4 < RampPeriod * 100
    BY DEF OneRampPerPulse
  <2>1. call.duration \in Nat /\ call.duration >= 1000
    BY RampOfCall
  <2>2. PICK codes \in Nat : /\ codes <= 3300 /\ codes >= 40
                             /\ Best(choice, call.duration, codes)
                             /\ \E span \in {codes + 1, codes + 2} :
                                  RampPeriod = Lasts(span, choice)
    BY RampOfCall
  <2>3. RampPeriod > 500
    BY <2>1, <2>2, LongerThanPulse
  <2>4. reg["timer"] = 12500
    BY SMT DEF Inv, Searched
  <2>5. RampPeriod \in Int
    <3>1. CodeStep(StepOf(choice)) \in Steps /\ SlewTime(SlewOf(choice)) \in Times
      BY <2>2, Choice DEF Best
    <3> QED
      BY SMT, <2>2, <3>1 DEF Lasts, Steps, Times
  <2> QED
    BY SMT, <2>3, <2>4, <2>5
<1> QED
  BY <1>1, Invariance, SearchIsUsed, PTL

-----------------------------------------------------------------------------
(* Type correctness *)

\* Membership without a list of the members.
LEMMA UpToBounds ==
  ASSUME NEW top \in Nat, NEW n \in Nat
  PROVE  n \in UpTo(top) <=> n <= top
BY SMT DEF UpTo

\* What fits in sixteen bits.
LEMMA Sixteen ==
  ASSUME NEW n \in Nat, n <= 65535
  PROVE  n \in Bits16
BY SMT, UpToBounds DEF Bits16

\* The values that the code writes as they are.
LEMMA Constants ==
  ASSUME NEW n \in {0, 1, 275, 519, 12500}
  PROVE  n \in Bits16
BY SMT, Sixteen

\* A voltage's code does, cut to the register's width.
LEMMA CodeFits ==
  ASSUME NEW v \in Int
  PROVE  voltage_to_dac_code(v) \in Bits16
<1>1. Code(v) \in Nat
  BY SMT DEF Code, Clamp, DAC63001_EXT_REF_VOLTAGE
<1>2. voltage_to_dac_code(v) \in Nat /\ voltage_to_dac_code(v) <= 65535
  BY SMT, <1>1 DEF voltage_to_dac_code
<1> QED
  BY <1>2, Sixteen

\* A register keeps its width when a value of its width is written.
LEMMA RegisterKept ==
  ASSUME reg \in [Registers -> Bits16], NEW r \in Registers, NEW v \in Bits16,
         reg' = [reg EXCEPT ![r] = v]
  PROVE  reg' \in [Registers -> Bits16]
OBVIOUS

\* What a call writes.
LEMMA ArgumentsFit ==
  ASSUME Inv, choice \in Combinations, pc \in Labels
  PROVE  /\ pc = "data" => voltage_to_dac_code(FixedVoltage) \in Bits16
         /\ pc = "high" => voltage_to_dac_code(MaxVoltage) \in Bits16
         /\ pc = "low" => voltage_to_dac_code(MinVoltage) \in Bits16
         /\ pc = "func" => FunctionAsked \in Bits16
<1>1. pc # "idle" => call \in Calls
  BY SMT DEF Inv
<1>2. call \in Calls => /\ Flow => call.start \in Nat /\ call.end \in Nat
                        /\ call.fn = "fixed" => call.voltage \in Nat
                        /\ call.fn = "sawtooth" => /\ call.low \in Int /\ call.high \in Int
                                                   /\ call.step \in 0..7 /\ call.slew \in 0..15
  <2> SUFFICES ASSUME call \in Calls
               PROVE  /\ Flow => call.start \in Nat /\ call.end \in Nat
                      /\ call.fn = "fixed" => call.voltage \in Nat
                      /\ call.fn = "sawtooth" =>
                           /\ call.low \in Int /\ call.high \in Int
                           /\ call.step \in 0..7 /\ call.slew \in 0..15
    OBVIOUS
  <2>1. call \in GainCalls \/ call \in FixedCalls \/ call = StopCall \/ call \in SawtoothCalls
    BY SMT, CallsAssumption
  <2>2. call \in GainCalls => Flow /\ call.start \in Nat /\ call.end \in Nat
    BY SMT DEF GainCalls
  <2>3. call \in FixedCalls => call.fn = "fixed" /\ call.voltage \in Nat
    BY SMT DEF FixedCalls
  <2>4. call \in SawtoothCalls =>
          /\ call.fn = "sawtooth" /\ call.low \in Int /\ call.high \in Int
          /\ call.step \in 0..7 /\ call.slew \in 0..15
    BY SMT DEF SawtoothCalls
  <2> QED
    BY SMT, <2>1, <2>2, <2>3, <2>4 DEF StopCall
<1>3. \A gain \in Nat : ad8338_gain_to_voltage(gain) \in Int
  BY SMT DEF ad8338_gain_to_voltage, Clamp, gain_offset, AD8338_GAIN_MAX_DB,
     AD8338_VGAIN_MAX_V, AD8338_VGAIN_MIN_V
<1>4. pc = "data" => FixedVoltage \in Int
  BY SMT, <1>1, <1>2, <1>3 DEF Inv, FixedVoltage
<1>5. pc \in Margins => MaxVoltage \in Int /\ MinVoltage \in Int
  BY SMT, <1>1, <1>2, <1>3 DEF Inv, MaxVoltage, MinVoltage
<1>6. pc = "func" => FunctionAsked \in Nat /\ FunctionAsked <= 639
  <2>1. StepOf(choice) \in 0..7 /\ SlewOf(choice) \in 0..15
    BY SMT DEF StepOf, SlewOf, Combinations
  <2> QED
    BY SMT, <1>1, <1>2, <2>1 DEF Inv, FunctionAsked, Function
<1> QED
  BY SMT, <1>4, <1>5, <1>6, CodeFits, Sixteen

\* The variables that hold no registers.
Simple ==
  choice \in Combinations /\ result \in {0, -1} /\ faults <= MaxFaults

\* The initial values have their types, and a step keeps them.
LEMMA InitTypes == Init => TypeOK
<1> SUFFICES ASSUME Init PROVE TypeOK
  OBVIOUS
<1>1. 0 \in Bits16
  BY Constants
<1>2. reg \in [Registers -> Bits16]
  BY <1>1 DEF Init
<1>3. ramp \in [high : Bits16, low : Bits16, func : Bits16]
  BY <1>1 DEF Init, NoRamp
<1> QED
  <2>1. 0 \in Combinations /\ faults \in 0..MaxFaults /\ before \in 0..faults
    BY SMT, FaultsAssumption DEF Init, Combinations
  <2> QED
    BY <1>2, <1>3, <2>1 DEF Init, TypeOK

\* A step keeps these types.
LEMMA SimpleStep ==
  ASSUME Inv, Simple, Next, faults \in Nat
  PROVE  Simple'
<1>0. 0 \in Combinations
  BY SMT DEF Combinations
<1> USE DEF Simple
<1>1. ASSUME NEW c \in Calls, Begin(c) PROVE Simple'
  BY SMT, <1>0, <1>1, FaultsAssumption DEF Begin
<1>2. CASE Killed \/ Left \/ WindowEnds \/ WaveEnds
  BY SMT, <1>0, <1>2, FaultsAssumption DEF Killed, Left, WindowEnds, WaveEnds
<1>3. CASE SetupCommon \/ SetupVout \/ SetData
  BY SMT, <1>3, FaultsAssumption DEF SetupCommon, SetupVout, SetData, Verified, SetupFails
<1>4. CASE SetGainSweep
  <2>1. CASE Refused(call)
    BY SMT, <1>4, <2>1 DEF SetGainSweep
  <2>2. CASE ~Refused(call)
    <3>1. call \in Calls /\ GainSweep
      BY SMT, <1>4 DEF SetGainSweep, Inv
    <3>2. /\ call.start \in 0..80 /\ call.end \in 0..80 /\ call.start < call.end
          /\ call.duration \in Nat
      BY SMT, <2>2, <3>1, AcceptedGains, Kinds
    <3>3. PICK codes \in CodeRanges(Gap(call.start, call.end)) :
            choice' = calculate_sweep_parameters(call.duration, codes)
      BY <1>4, <2>2 DEF SetGainSweep, Gap
    <3>4. Counted(call.start, call.end, codes)
      BY <3>2, CodesOfSweep
    <3>5. codes \in Nat
      BY <3>4 DEF Counted
    <3>6. choice' \in Combinations
      BY <3>2, <3>3, <3>5, SearchIsBest DEF Best
    <3> QED
      BY SMT, <1>4, <2>2, <3>6 DEF SetGainSweep
  <2> QED
    BY <2>1, <2>2
<1>5. CASE Stop \/ StopAgain \/ Start
  BY SMT, <1>5, FaultsAssumption DEF Stop, StopAgain, Start, SetupFails
<1>6. CASE SetHigh \/ SetLow \/ SetFunc \/ SetGpio
  BY SMT, <1>6, FaultsAssumption DEF SetHigh, SetLow, SetFunc, SetGpio, Write, SetupFails
<1>7. CASE GateOff \/ GateOn \/ SetTimer
  BY SMT, <1>7, FaultsAssumption DEF GateOff, GateOn, SetTimer, Switch
<1>8. CASE GateCheck
  BY SMT, <1>0, <1>8, FaultsAssumption DEF GateCheck
<1>9. CASE SweepEnds
  BY SMT, <1>9 DEF SweepEnds
<1> QED
  BY <1>1, <1>2, <1>3, <1>4, <1>5, <1>6, <1>7, <1>8, <1>9 DEF Next

\* The bus is open or not.
LEMMA OpenStep ==
  ASSUME open \in BOOLEAN, Next
  PROVE  open' \in BOOLEAN
<1>1. open' = open \/ open' = TRUE \/ open' = FALSE
  <2>1. ASSUME NEW c \in Calls, Begin(c) PROVE open' = open \/ open' = TRUE
    BY Zenon, <2>1 DEF Begin
  <2>2. CASE Killed \/ SetGainSweep \/ Left \/ GateCheck \/ SweepEnds \/ WindowEnds \/ WaveEnds
    BY Zenon, <2>2 DEF Killed, SetGainSweep, Left, GateCheck, SweepEnds, WindowEnds, WaveEnds
  <2>3. CASE SetupCommon \/ SetupVout
    BY Zenon, <2>3 DEF SetupCommon, SetupVout, Verified
  <2>4. CASE SetData \/ Stop
    BY Zenon, <2>4 DEF SetData, Verified, SetupFails, Stop
  <2>5. CASE Start \/ StopAgain
    BY Zenon, <2>5 DEF Start, StopAgain
  <2>6. CASE SetHigh \/ SetLow \/ SetFunc \/ SetGpio
    BY Zenon, <2>6 DEF SetHigh, SetLow, SetFunc, SetGpio, Write, SetupFails
  <2>7. CASE GateOff \/ GateOn \/ SetTimer
    BY Zenon, <2>7 DEF GateOff, GateOn, SetTimer, Switch
  <2> QED
    BY <2>1, <2>2, <2>3, <2>4, <2>5, <2>6, <2>7 DEF Next
<1> QED
  BY <1>1

\* The registers, and the ramp that takes its values from them.
LEMMA WidthStep ==
  ASSUME Inv, TypeOK, Next
  PROVE  /\ reg' \in [Registers -> Bits16]
         /\ ramp' \in [high : Bits16, low : Bits16, func : Bits16]
<1>1. reg \in [Registers -> Bits16] /\ ramp \in [high : Bits16, low : Bits16, func : Bits16]
  BY DEF TypeOK
<1>2. choice \in Combinations /\ pc \in Labels
  BY DEF TypeOK
<1>3. /\ 0 \in Bits16 /\ 1 \in Bits16 /\ 519 \in Bits16 /\ 12500 \in Bits16
      /\ StartStopPin \in Bits16
  BY Constants DEF StartStopPin
<1> DEFINE Kept == reg' = reg
           Writes == \E r \in Registers, v \in Bits16 : reg' = [reg EXCEPT ![r] = v]
<1>4. Kept \/ Writes
  <2>1. ASSUME NEW c \in Calls, Begin(c) PROVE Kept
    BY <2>1 DEF Begin
  <2>2. CASE Killed \/ SetGainSweep \/ Left \/ GateCheck \/ SweepEnds \/ WindowEnds \/ WaveEnds
    BY <2>2 DEF Killed, SetGainSweep, Left, GateCheck, SweepEnds, PinPulse, WindowEnds,
       WaveEnds
  <2>3. CASE SetupCommon \/ SetupVout
    BY <1>3, <2>3 DEF SetupCommon, SetupVout, Verified, Registers
  <2>4. CASE Stop \/ Start \/ StopAgain
    BY <1>3, <2>4 DEF Stop, Start, StopAgain, Registers
  <2>5. CASE SetData
    BY <1>2, <2>5, ArgumentsFit DEF SetData, Verified, Registers
  <2>6. CASE SetHigh
    BY <1>2, <2>6, ArgumentsFit DEF SetHigh, Write, Registers
  <2>7. CASE SetLow
    BY <1>2, <2>7, ArgumentsFit DEF SetLow, Write, Registers
  <2>8. CASE SetFunc
    BY <1>2, <2>8, ArgumentsFit DEF SetFunc, Write, Registers
  <2>9. CASE SetGpio
    BY <1>3, <2>9 DEF SetGpio, Write, Registers
  <2>10. CASE GateOff \/ GateOn \/ SetTimer
    BY <1>3, <2>10 DEF GateOff, GateOn, SetTimer, Switch, Registers
  <2> QED
    BY <2>1, <2>2, <2>3, <2>4, <2>5, <2>6, <2>7, <2>8, <2>9, <2>10 DEF Next
<1>5. reg' \in [Registers -> Bits16]
  BY <1>1, <1>4, RegisterKept
<1>6. \/ ramp' = ramp \/ ramp' = NoRamp
      \/ ramp' = [high |-> reg["high"], low |-> reg["low"], func |-> reg["func"]]
  <2>1. ASSUME NEW c \in Calls, Begin(c) PROVE ramp' = NoRamp
    BY <2>1 DEF Begin
  <2>2. CASE Start \/ SweepEnds
    BY <2>2 DEF Start, SweepEnds, PinPulse, RampNow
  <2>3. CASE Killed \/ SetGainSweep \/ Left \/ GateCheck \/ WindowEnds \/ WaveEnds
    BY <2>3 DEF Killed, SetGainSweep, Left, GateCheck, WindowEnds, WaveEnds
  <2>4. CASE SetupCommon \/ SetupVout \/ SetData \/ Stop \/ StopAgain
    BY <2>4 DEF SetupCommon, SetupVout, SetData, Verified, Stop, StopAgain
  <2>5. CASE SetHigh \/ SetLow \/ SetFunc \/ SetGpio \/ GateOff \/ GateOn \/ SetTimer
    BY <2>5 DEF SetHigh, SetLow, SetFunc, SetGpio, Write, GateOff, GateOn, SetTimer, Switch
  <2> QED
    BY <2>1, <2>2, <2>3, <2>4, <2>5 DEF Next
<1>7. ramp' \in [high : Bits16, low : Bits16, func : Bits16]
  <2>1. reg["high"] \in Bits16 /\ reg["low"] \in Bits16 /\ reg["func"] \in Bits16
    BY <1>1 DEF Registers
  <2> QED
    BY <1>1, <1>3, <1>6, <2>1 DEF NoRamp
<1> QED
  BY <1>5, <1>7

\* Type correctness: every register of the DAC and the FPGA holds sixteen bits.
THEOREM TypeCorrect == Spec => []TypeOK
<1>1. Init => TypeOK
  BY InitTypes
<1>2. Inv /\ TypeOK /\ [Next]_vars => TypeOK'
  <2> SUFFICES ASSUME Inv, TypeOK, [Next]_vars PROVE TypeOK'
    OBVIOUS
  <2>1. CASE Next
    <3>1. Inv'
      BY <2>1, Step
    <3>2. Simple' /\ faults' \in Nat /\ before' \in Nat /\ before' <= faults'
      <4>1. Simple /\ faults \in Nat
        BY SMT, FaultsAssumption DEF TypeOK, Simple
      <4>2. Simple'
        BY <2>1, <4>1, SimpleStep
      <4> QED
        BY <3>1, <4>2 DEF Inv
    <3>3. /\ reg' \in [Registers -> Bits16]
          /\ ramp' \in [high : Bits16, low : Bits16, func : Bits16]
      BY <2>1, WidthStep
    <3>4. pc' \in Labels /\ call' \in Calls \cup {NoCall} /\ wave' \in {"off", "on", "last"}
      BY <3>1 DEF Inv
    <3>5. faults' \in 0..MaxFaults /\ before' \in 0..faults'
      BY SMT, <3>2, FaultsAssumption DEF Simple
    <3>6. open' \in BOOLEAN
      BY <2>1, OpenStep DEF TypeOK
    <3> QED
      BY <3>2, <3>3, <3>4, <3>5, <3>6 DEF TypeOK, Simple
  <2>2. CASE UNCHANGED vars
    BY <2>2 DEF vars, TypeOK
  <2> QED
    BY <2>1, <2>2
<1> QED
  BY <1>1, <1>2, Invariance, PTL DEF Spec
=============================================================================
