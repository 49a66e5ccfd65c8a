---------------------------- MODULE Ad5932Proofs ----------------------------
(***************************************************************************)
(* Proofs about Ad5932 for any configurations, any number of transfers     *)
(* that fail and of programs killed between any two words: the sweep that  *)
(* starts is the one asked for, and who waits for it waits for its end.    *)
(***************************************************************************)
EXTENDS Ad5932, TLAPS

-----------------------------------------------------------------------------
(* Words: address and data as the chip takes them apart *)

LEMMA FrequencyWords ==
  ASSUME NEW freq \in Nat
  PROVE  FrequencyWord(freq) \in Nat
BY SMTT(60) DEF FrequencyWord

LEMMA LowHalf ==
  ASSUME NEW f \in Nat, NEW address \in Nat
  PROVE  LET word == Register(address, f % 4096)
         IN  word \in Nat /\ Address(word) = address /\ Data(word) = f % 4096
BY SMTT(60) DEF Register, Address, Data

LEMMA StartHigh ==
  ASSUME NEW f \in Nat, NEW address \in Nat
  PROVE  LET word == Register(address, (f \div 4096) % 4096)
         IN  /\ word \in Nat /\ Address(word) = address
             /\ Data(word) * 4096 + (f % 4096) = f % 16777216
BY SMTT(60) DEF Register, Address, Data

LEMMA DeltaHigh ==
  ASSUME NEW f \in Nat, NEW positive \in BOOLEAN
  PROVE  LET word == Register(3, ((f \div 4096) % 2048) + (IF positive THEN 0 ELSE 2048))
             delta == Data(word) * 4096 + (f % 4096)
         IN  /\ word \in Nat /\ Address(word) = 3
             /\ delta \in Int /\ delta % 8388608 = f % 8388608
             /\ delta >= 8388608 <=> ~positive
<1>1. CASE positive
  BY SMTT(60), <1>1 DEF Register, Address, Data
<1>2. CASE ~positive
  BY SMTT(60), <1>2 DEF Register, Address, Data
<1> QED
  BY <1>1, <1>2

LEMMA Number ==
  ASSUME NEW n \in Nat
  PROVE  /\ NumberWord(n) \in Nat /\ Address(NumberWord(n)) = 1
         /\ Data(NumberWord(n)) = Clamp(n, 2, 4095)
BY SMTT(60) DEF NumberWord, Register, Address, Data, Clamp

LEMMA Interval ==
  ASSUME NEW mult \in Int, NEW interval \in Nat, NEW word, word = IntervalWord(mult, interval)
  PROVE  /\ word \in Nat /\ Address(word) \in 4..7
         /\ (word % 16384) % 2048 = Clamp(interval, 2, 2047)
         /\ ((word % 16384) \div 2048) % 4 = Clamp(mult, 0, 3)
         /\ ~Bit(word % 16384, 8192)
<1> DEFINE m == Clamp(mult, 0, 3)
           i == Clamp(interval, 2, 2047)
<1>1. m \in 0..3 /\ i \in 2..2047
  BY SMT DEF Clamp
<1> HIDE DEF m, i
<1>2. word = 16384 + m * 2048 + i
  <2>1. word = Register(4, m * 2048 + i)
    BY Zenon DEF IntervalWord, m, i
  <2> QED
    BY SMT, <1>1, <2>1 DEF Register
<1>3. m * 2048 + i < 8192
  BY SMT, <1>1
<1>4. (16384 + m * 2048 + i) % 16384 = m * 2048 + i
  BY SMT, <1>1, <1>3
<1>5. /\ (m * 2048 + i) % 2048 = i
      /\ (m * 2048 + i) \div 2048 = m
      /\ m % 4 = m
  BY SMT, <1>1
<1>6. (m * 2048 + i) \div 8192 = 0
  BY SMT, <1>1, <1>3
<1>7. (16384 + m * 2048 + i) \div 4096 \in 4..7
  BY SMT, <1>1, <1>3
<1>8. word \in Nat /\ Address(word) \in 4..7
  BY SMT, <1>1, <1>2, <1>7 DEF Address
<1>9. /\ (word % 16384) % 2048 = i
      /\ ((word % 16384) \div 2048) % 4 = m
      /\ ~Bit(word % 16384, 8192)
  BY SMT, <1>2, <1>4, <1>5, <1>6 DEF Bit
<1> QED
  BY <1>8, <1>9 DEF m, i

LEMMA Reset ==
  /\ ResetWord \in Nat /\ Address(ResetWord) = 0
  /\ Bit(Data(ResetWord), CTRL_B24)
BY SMT DEF ResetWord, Register, CTRL_BASE, CTRL_B24, Address, Data, Bit

Waves(control, wave_type) ==
  /\ Bit(control, CTRL_DAC_EN) <=> wave_type # 2
  /\ Bit(control, CTRL_MSBOUT_EN) <=> wave_type = 2
  /\ Bit(control, CTRL_SINE) <=> wave_type \notin {1, 2}
  /\ Bit(control, CTRL_SYNC_EN) /\ Bit(control, CTRL_SYNC_EOS)

LEMMA Waveform ==
  ASSUME NEW wave_type \in Int
  PROVE  LET word == WaveformWord(wave_type)
         IN  /\ word \in Nat /\ Address(word) = 0 /\ word # ResetWord
             /\ Waves(Data(word), wave_type) /\ Bit(Data(word), CTRL_B24)
<1> USE DEF WaveformWord, Waves, ResetWord, Register, CTRL_BASE, CTRL_B24, CTRL_DAC_EN,
            CTRL_SINE, CTRL_MSBOUT_EN, CTRL_SYNC_EOS, CTRL_SYNC_EN, Address, Data, Bit
<1>1. CASE wave_type = 1
  BY SMT, <1>1
<1>2. CASE wave_type = 2
  BY SMT, <1>2
<1>3. CASE wave_type \notin {1, 2}
  BY SMT, <1>3
<1> QED
  BY <1>1, <1>2, <1>3

-----------------------------------------------------------------------------
(* The inductive invariant *)

Chips == [control : Int, start : Int, delta : Int, number : Int, interval : Int]

Context ==
  /\ pc \in {"idle", "init", "write", "ctrl_low", "ctrl_high", "poll", "reset", "standby"}
  /\ chip \in Chips /\ half \in Int /\ sent \in Nat /\ (spi = TRUE \/ spi = FALSE)
  /\ faults \in Nat /\ before \in Nat /\ before <= faults
  /\ pc = "idle" => config = NoConfig
  /\ pc \in {"init", "write", "ctrl_low", "ctrl_high", "poll"} => config \in Configs
  /\ pc \in {"idle", "init"} => sent = 0
  /\ pc = "write" => sent < 8
  /\ pc \in {"ctrl_low", "ctrl_high", "poll"} => sent = 8

\* After n words: what they have set is there, a half waits for the next word.
Loaded(n) ==
  /\ n >= 1 => Bit(chip.control, CTRL_B24)
  /\ n = 2 => half = StartWords(config.start_freq)[1]
  /\ n >= 3 => chip.start = FrequencyWord(config.start_freq) % 16777216
  /\ n = 4 => half = DeltaWords(config.delta_freq, config.positive_incr)[1]
  /\ n >= 5 => /\ chip.delta % 8388608 = FrequencyWord(config.delta_freq) % 8388608
               /\ chip.delta >= 8388608 <=> ~config.positive_incr
  /\ n >= 6 => chip.number = Clamp(config.num_incr, 2, 4095)
  /\ n >= 7 => /\ chip.interval % 2048 = Clamp(config.interval_val, 2, 2047)
               /\ (chip.interval \div 2048) % 4 = Clamp(config.mclk_mult, 0, 3)
               /\ ~Bit(chip.interval, 8192)
  /\ n >= 8 => Waves(chip.control, config.wave_type)

Writing ==
  pc \in {"write", "ctrl_low", "ctrl_high", "poll"} /\ Clean => spi = TRUE /\ Loaded(sent)

Still == standby = FALSE /\ state # "running"

\* From a tidy start: no sweep until this program's pulse, no signal until its end.
Sweeping ==
  /\ tidy = TRUE /\ pc = "idle" => Still
  /\ tidy = TRUE /\ Clean =>
       /\ pc \in {"init", "write", "ctrl_low", "ctrl_high"} => Still
       /\ pc \in {"write", "ctrl_low", "ctrl_high"} /\ sent >= 1 => state = "reset"
       /\ pc = "poll" => state = "done" \/ (state = "running" /\ standby = FALSE)
       /\ pc = "reset" /\ config # NoConfig => state = "done"
  /\ Clean =>
       /\ pc = "ctrl_high" => ctrl = FALSE
       /\ pc = "standby" /\ spi = TRUE => state = "reset"

Inv == Context /\ Writing /\ Sweeping

LEMMA InitInv ==
  Init => Inv
BY SMT DEF Init, Inv, Context, Writing, Sweeping, Still, Chips, NoHalf, Clean

-----------------------------------------------------------------------------
(* One word *)

LEMMA NotReset ==
  ASSUME NEW word \in Nat, Address(word) # 0
  PROVE  word # ResetWord
BY Reset

LEMMA Effect ==
  ASSUME chip \in Chips, half \in Int, NEW word \in Nat, Receive(word), word # ResetWord
  PROVE  /\ chip' \in Chips /\ half' \in Int
         /\ state' = state /\ standby' = standby
         /\ Address(word) \in {2, 12} => chip' = chip /\ half' = word
         /\ Address(word) = 0 => chip' = [chip EXCEPT !.control = Data(word)]
         /\ Address(word) = 1 => chip' = [chip EXCEPT !.number = Data(word)]
         /\ Address(word) = 3 => chip' = [chip EXCEPT !.delta = Pair(word)]
         /\ Address(word) \in 4..7 => chip' = [chip EXCEPT !.interval = word % 16384]
         /\ Address(word) = 13 => chip' = [chip EXCEPT !.start = Pair(word)]
<1> DEFINE a == Address(word)
<1>1. a \in Int /\ Data(word) \in Int /\ word % 16384 \in Int /\ Pair(word) \in Int
  BY SMT DEF Address, Data, Pair, Unknown
<1>2. /\ chip' = IF a = 0 THEN [chip EXCEPT !.control = Data(word)] ELSE Load(word)
      /\ state' = state /\ standby' = standby
      /\ half' = IF IsLow(word) THEN word ELSE NoHalf
  BY DEF Receive
<1>3. half' \in Int /\ (a \in {2, 12} => half' = word)
  BY SMT, <1>2 DEF IsLow, NoHalf
<1> HIDE DEF a
<1>4. /\ a = 1 => Load(word) = [chip EXCEPT !.number = Data(word)]
      /\ a = 3 => Load(word) = [chip EXCEPT !.delta = Pair(word)]
      /\ a \in 4..7 => Load(word) = [chip EXCEPT !.interval = word % 16384]
      /\ a = 13 => Load(word) = [chip EXCEPT !.start = Pair(word)]
      /\ a \in {2, 12} => Load(word) = chip
  BY SMT, <1>1 DEF Load, a
<1>5. Load(word) \in Chips
  BY SMT, <1>1 DEF Load, a, Chips
<1>6. chip' \in Chips
  BY SMT, <1>1, <1>2, <1>5 DEF Chips
<1> QED
  BY SMT, <1>1, <1>2, <1>3, <1>4, <1>6 DEF a

LEMMA ResetEffect ==
  ASSUME chip \in Chips, Receive(ResetWord)
  PROVE  /\ chip' \in Chips /\ half' \in Int
         /\ Bit(chip'.control, CTRL_B24)
         /\ state' = "reset" /\ standby' \in {standby, FALSE}
<1>1. Data(ResetWord) \in Int
  BY SMT, Reset DEF Data
<1>2. /\ \/ chip' = [chip EXCEPT !.control = Data(ResetWord)]
         \/ chip' = [control |-> Data(ResetWord), start |-> 0, delta |-> 0, number |-> 0,
                     interval |-> 0]
      /\ state' = "reset" /\ standby' \in {standby, FALSE}
      /\ half' = IF IsLow(ResetWord) THEN ResetWord ELSE NoHalf
  BY DEF Receive, Control
<1>3. half' \in Int
  BY SMT, <1>2, Reset DEF NoHalf
<1>4. chip' \in Chips /\ chip'.control = Data(ResetWord)
  BY SMT, <1>1, <1>2 DEF Chips
<1> QED
  BY <1>2, <1>3, <1>4, Reset

LEMMA Fields ==
  ASSUME NEW c \in Configs
  PROVE  /\ c.start_freq \in Nat /\ c.delta_freq \in Nat /\ c.positive_incr \in BOOLEAN
         /\ c.num_incr \in Nat /\ c.mclk_mult \in Int /\ c.interval_val \in Nat
         /\ c.wave_type \in Int
<1>1. c \in DDSConfig
  BY ConfigsAssumption
<1> QED
  BY SMT, <1>1 DEF DDSConfig

LEMMA Loading ==
  ASSUME Inv, pc = "write", Clean, Receive(Words(config)[sent + 1]),
         config' = config, sent' = sent + 1
  PROVE  /\ chip' \in Chips /\ half' \in Int /\ Loaded(sent)'
         /\ sent = 0 => state' = "reset" /\ standby' \in {standby, FALSE}
         /\ sent # 0 => state' = state /\ standby' = standby
<1> DEFINE c == config
           word == Words(c)[sent + 1]
           first == StartWords(c.start_freq)
           step == DeltaWords(c.delta_freq, c.positive_incr)
<1>1. c \in Configs /\ chip \in Chips /\ half \in Int /\ sent \in Nat /\ sent < 8
  BY DEF Inv, Context
<1>2. Loaded(sent)
  BY DEF Inv, Writing
<1>3. FrequencyWord(c.start_freq) \in Nat /\ FrequencyWord(c.delta_freq) \in Nat
  BY <1>1, Fields, FrequencyWords
<1>4. CASE sent = 0
  <2>1. word = ResetWord
    BY SMT, <1>4 DEF Words
  <2>2. /\ chip' \in Chips /\ half' \in Int /\ Bit(chip'.control, CTRL_B24)
        /\ state' = "reset" /\ standby' \in {standby, FALSE}
    BY <1>1, <2>1, ResetEffect
  <2>3. Loaded(sent)'
    BY SMT, <1>4, <2>2 DEF Loaded
  <2> QED
    BY <1>4, <2>2, <2>3
<1>5. CASE sent = 1
  <2>1. word = Register(12, FrequencyWord(c.start_freq) % 4096) /\ word = first[1]
    BY SMT, <1>5 DEF Words, StartWords
  <2>2. word \in Nat /\ Address(word) = 12
    BY <1>3, <2>1, LowHalf
  <2>3. /\ chip' = chip /\ half' = word /\ state' = state /\ standby' = standby
    BY SMT, <1>1, <2>2, NotReset, Effect
  <2>4. half' = first[1] /\ Bit(chip'.control, CTRL_B24)
    BY SMT, <1>2, <1>5, <2>1, <2>3 DEF Loaded
  <2>5. half' \in Int /\ chip' \in Chips
    BY <1>1, <2>2, <2>3
  <2> QED
    BY SMT, <1>5, <2>3, <2>4, <2>5 DEF Loaded
<1>6. CASE sent = 2
  <2>1. /\ word = Register(13, (FrequencyWord(c.start_freq) \div 4096) % 4096)
        /\ half = Register(12, FrequencyWord(c.start_freq) % 4096)
    BY SMT, <1>2, <1>6 DEF Words, StartWords, Loaded
  <2>2. /\ word \in Nat /\ Address(word) = 13
        /\ Data(word) * 4096 + (FrequencyWord(c.start_freq) % 4096)
             = FrequencyWord(c.start_freq) % 16777216
    BY <1>3, <2>1, StartHigh
  <2>3. Address(half) = 12 /\ Data(half) = FrequencyWord(c.start_freq) % 4096
    BY <1>3, <2>1, LowHalf
  <2>4. Bit(chip.control, CTRL_B24)
    BY SMT, <1>2, <1>6 DEF Loaded
  <2>5. Pair(word) = FrequencyWord(c.start_freq) % 16777216
    BY SMT, <2>2, <2>3, <2>4 DEF Pair
  <2>6. /\ chip' \in Chips /\ half' \in Int /\ chip' = [chip EXCEPT !.start = Pair(word)]
        /\ state' = state /\ standby' = standby
    BY SMT, <1>1, <2>2, NotReset, Effect
  <2>7. chip'.start = Pair(word) /\ chip'.control = chip.control
    BY SMT, <1>1, <2>6 DEF Chips
  <2> QED
    BY SMT, <1>6, <2>4, <2>5, <2>6, <2>7 DEF Loaded
<1>7. CASE sent = 3
  <2>1. word = Register(2, FrequencyWord(c.delta_freq) % 4096) /\ word = step[1]
    BY SMT, <1>7 DEF Words, DeltaWords
  <2>2. word \in Nat /\ Address(word) = 2
    BY <1>3, <2>1, LowHalf
  <2>3. chip' = chip /\ half' = word /\ state' = state /\ standby' = standby
    BY SMT, <1>1, <2>2, NotReset, Effect
  <2> QED
    BY SMT, <1>1, <1>2, <1>7, <2>1, <2>2, <2>3 DEF Loaded
<1>8. CASE sent = 4
  <2>1. /\ word = Register(3, ((FrequencyWord(c.delta_freq) \div 4096) % 2048)
                                + (IF c.positive_incr THEN 0 ELSE 2048))
        /\ half = Register(2, FrequencyWord(c.delta_freq) % 4096)
    BY SMT, <1>2, <1>8 DEF Words, DeltaWords, Loaded
  <2> DEFINE delta == Data(word) * 4096 + (FrequencyWord(c.delta_freq) % 4096)
  <2>2. /\ word \in Nat /\ Address(word) = 3
        /\ delta % 8388608 = FrequencyWord(c.delta_freq) % 8388608
        /\ delta >= 8388608 <=> ~c.positive_incr
    BY <1>1, <1>3, <2>1, Fields, DeltaHigh
  <2>3. Address(half) = 2 /\ Data(half) = FrequencyWord(c.delta_freq) % 4096
    BY <1>3, <2>1, LowHalf
  <2>4. /\ Bit(chip.control, CTRL_B24)
        /\ chip.start = FrequencyWord(c.start_freq) % 16777216
    BY SMT, <1>2, <1>8 DEF Loaded
  <2>5. Pair(word) = delta
    BY SMT, <2>2, <2>3, <2>4 DEF Pair
  <2>6. /\ chip' \in Chips /\ half' \in Int /\ chip' = [chip EXCEPT !.delta = Pair(word)]
        /\ state' = state /\ standby' = standby
    BY SMT, <1>1, <2>2, NotReset, Effect
  <2>7. /\ chip'.delta = delta /\ chip'.control = chip.control /\ chip'.start = chip.start
    BY SMT, <1>1, <2>5, <2>6 DEF Chips
  <2> HIDE DEF delta
  <2> QED
    BY SMT, <1>8, <2>2, <2>4, <2>6, <2>7 DEF Loaded
<1>9. CASE sent = 5
  <2>1. word = NumberWord(c.num_incr)
    BY SMT, <1>9 DEF Words
  <2>2. /\ word \in Nat /\ Address(word) = 1 /\ Data(word) = Clamp(c.num_incr, 2, 4095)
    BY <1>1, <2>1, Fields, Number
  <2>3. /\ chip' \in Chips /\ half' \in Int /\ chip' = [chip EXCEPT !.number = Data(word)]
        /\ state' = state /\ standby' = standby
    BY SMT, <1>1, <2>2, NotReset, Effect
  <2>4. /\ chip'.number = Clamp(c.num_incr, 2, 4095) /\ chip'.control = chip.control
        /\ chip'.start = chip.start /\ chip'.delta = chip.delta
    BY SMT, <1>1, <2>2, <2>3 DEF Chips
  <2> QED
    BY SMT, <1>2, <1>9, <2>3, <2>4 DEF Loaded
<1>10. CASE sent = 6
  <2>1. word = IntervalWord(c.mclk_mult, c.interval_val)
    BY SMT, <1>10 DEF Words
  <2>2. /\ word \in Nat /\ Address(word) \in 4..7
        /\ (word % 16384) % 2048 = Clamp(c.interval_val, 2, 2047)
        /\ ((word % 16384) \div 2048) % 4 = Clamp(c.mclk_mult, 0, 3)
        /\ ~Bit(word % 16384, 8192)
    <3>1. c.mclk_mult \in Int /\ c.interval_val \in Nat
      BY <1>1, Fields
    <3> DEFINE mult == c.mclk_mult
               interval == c.interval_val
    <3> HIDE DEF word, mult, interval
    <3>2. word = IntervalWord(mult, interval)
      BY <2>1 DEF mult, interval
    <3>3. mult \in Int /\ interval \in Nat
      BY <3>1 DEF mult, interval
    <3>4. /\ word \in Nat /\ Address(word) \in 4..7
          /\ (word % 16384) % 2048 = Clamp(interval, 2, 2047)
          /\ ((word % 16384) \div 2048) % 4 = Clamp(mult, 0, 3)
          /\ ~Bit(word % 16384, 8192)
      BY <3>2, <3>3, Interval
    <3> QED
      BY <3>4 DEF mult, interval
  <2>3. /\ chip' \in Chips /\ half' \in Int /\ state' = state /\ standby' = standby
        /\ chip' = [chip EXCEPT !.interval = word % 16384]
    BY SMT, <1>1, <2>2, NotReset, Effect
  <2>4. /\ chip'.interval = word % 16384 /\ chip'.control = chip.control
        /\ chip'.start = chip.start /\ chip'.delta = chip.delta
        /\ chip'.number = chip.number
    BY SMT, <1>1, <2>3 DEF Chips
  <2> QED
    BY SMT, <1>2, <1>10, <2>2, <2>3, <2>4 DEF Loaded
<1>11. CASE sent = 7
  <2>1. word = WaveformWord(c.wave_type)
    BY SMT, <1>11 DEF Words
  <2>2. /\ word \in Nat /\ Address(word) = 0 /\ word # ResetWord
        /\ Waves(Data(word), c.wave_type) /\ Bit(Data(word), CTRL_B24)
    BY <1>1, <2>1, Fields, Waveform
  <2>3. /\ chip' \in Chips /\ half' \in Int /\ state' = state /\ standby' = standby
        /\ chip' = [chip EXCEPT !.control = Data(word)]
    BY SMT, <1>1, <2>2, Effect
  <2>4. /\ chip'.control = Data(word) /\ chip'.interval = chip.interval
        /\ chip'.start = chip.start /\ chip'.delta = chip.delta
        /\ chip'.number = chip.number
    BY SMT, <1>1, <2>3 DEF Chips
  <2>5. Waves(chip'.control, c.wave_type) /\ Bit(chip'.control, CTRL_B24)
    BY <2>2, <2>4
  <2> QED
    BY SMT, <1>2, <1>11, <2>3, <2>4, <2>5 DEF Loaded
<1>12. sent = 0 \/ sent = 1 \/ sent = 2 \/ sent = 3 \/ sent = 4 \/ sent = 5
         \/ sent = 6 \/ sent = 7
  BY SMT, <1>1
<1> QED
  BY <1>4, <1>5, <1>6, <1>7, <1>8, <1>9, <1>10, <1>11, <1>12

-----------------------------------------------------------------------------
(* Every step *)

\* After a reset word, or one that is lost, the registers have values of their kind.
LEMMA Sending ==
  ASSUME chip \in Chips, half \in Int, NEW word \in Nat, Send(word), faults \in Nat
  PROVE  /\ chip' \in Chips /\ half' \in Int
         /\ faults' \in Nat /\ faults <= faults'
         /\ spi = TRUE /\ faults' = faults => Receive(word)
<1>1. CASE Works /\ Receive(word)
  <2>1. chip' \in Chips /\ half' \in Int
    <3>1. CASE word = ResetWord
      BY <1>1, <3>1, ResetEffect
    <3>2. CASE word # ResetWord
      BY <1>1, <3>2, Effect
    <3> QED
      BY <3>1, <3>2
  <2>2. faults' = faults
    BY <1>1 DEF Works
  <2> QED
    BY SMT, <1>1, <2>1, <2>2
<1>2. CASE Fails /\ UNCHANGED <<dds, standby>>
  BY SMT, <1>2 DEF Fails, Fault, dds
<1> QED
  BY <1>1, <1>2 DEF Send

LEMMA WordsAreNumbers ==
  ASSUME NEW c \in Configs, NEW i \in 1..8
  PROVE  Words(c)[i] \in Nat
<1> DEFINE start == FrequencyWord(c.start_freq)
           delta == FrequencyWord(c.delta_freq)
           high == ((delta \div 4096) % 2048) + (IF c.positive_incr THEN 0 ELSE 2048)
<1>1. start \in Nat /\ delta \in Nat /\ c.positive_incr \in BOOLEAN /\ c.num_incr \in Nat
      /\ c.mclk_mult \in Int /\ c.interval_val \in Nat /\ c.wave_type \in Int
  BY Fields, FrequencyWords
<1>2. ResetWord \in Nat /\ WaveformWord(c.wave_type) \in Nat /\ NumberWord(c.num_incr) \in Nat
  BY <1>1, Reset, Waveform, Number
<1>3. IntervalWord(c.mclk_mult, c.interval_val) \in Nat
  BY SMT, <1>1 DEF IntervalWord, Register, Clamp
<1>4. Register(12, start % 4096) \in Nat /\ Register(2, delta % 4096) \in Nat
  BY <1>1, LowHalf
<1>5. Register(13, (start \div 4096) % 4096) \in Nat
  BY <1>1, StartHigh
<1>6. Register(3, high) \in Nat
  BY <1>1, DeltaHigh
<1> HIDE DEF start, delta, high
<1>7. Words(c) = << ResetWord, Register(12, start % 4096),
                    Register(13, (start \div 4096) % 4096), Register(2, delta % 4096),
                    Register(3, high), NumberWord(c.num_incr),
                    IntervalWord(c.mclk_mult, c.interval_val), WaveformWord(c.wave_type) >>
  BY SMT DEF Words, StartWords, DeltaWords, start, delta, high
<1>8. i = 1 \/ i = 2 \/ i = 3 \/ i = 4 \/ i = 5 \/ i = 6 \/ i = 7 \/ i = 8
  BY SMT
<1> DEFINE w == Words(c)
<1> HIDE DEF w
<1>9. /\ w[1] \in Nat /\ w[2] \in Nat /\ w[3] \in Nat /\ w[4] \in Nat
      /\ w[5] \in Nat /\ w[6] \in Nat /\ w[7] \in Nat /\ w[8] \in Nat
  BY SMT, <1>2, <1>3, <1>4, <1>5, <1>6, <1>7 DEF w
<1> QED
  BY <1>8, <1>9 DEF w

LEMMA ContextStep ==
  ASSUME Inv, [Next]_vars
  PROVE  Context'
<1> USE DEF Context
<1>1. Context
  BY DEF Inv
<1>2. ASSUME NEW c \in Configs, Begin(c) PROVE Context'
  BY SMT, <1>1, <1>2 DEF Begin, Goto, dds
<1>3. CASE ReceiveEnds
  BY SMT, <1>1, <1>3 DEF ReceiveEnds, Goto, dds
<1>4. CASE SpiInit
  BY SMT, <1>1, <1>4 DEF SpiInit, Goto, program, dds, Fine, Fault
<1>5. CASE WriteWord
  <2>1. sent + 1 \in 1..8 /\ config \in Configs
    BY SMT, <1>1, <1>5 DEF WriteWord
  <2>2. Words(config)[sent + 1] \in Nat
    BY <2>1, WordsAreNumbers
  <2>3. chip' \in Chips /\ half' \in Int /\ faults' \in Nat /\ faults <= faults'
    BY <1>1, <1>5, <2>2, Sending DEF WriteWord
  <2> QED
    BY SMT, <1>1, <1>5, <2>1, <2>3 DEF WriteWord, Goto, program
<1>6. CASE CtrlLow \/ CtrlHigh
  BY SMT, <1>1, <1>6 DEF CtrlLow, CtrlHigh, Goto, program, dds, Fine, Fault
<1>7. CASE Poll
  BY SMT, <1>1, <1>7 DEF Poll, Goto, Gone, program, dds, pins, Fine, Fault
<1>8. CASE ResetAfter
  <2>1. chip' \in Chips /\ half' \in Int /\ faults' \in Nat /\ faults <= faults'
    BY <1>1, <1>8, Reset, Sending DEF ResetAfter
  <2> QED
    BY SMT, <1>1, <1>8, <2>1 DEF ResetAfter, Goto, program
<1>9. CASE LowerStandby
  BY SMT, <1>1, <1>9 DEF LowerStandby, Goto, dds, Fine, Fault
<1>10. CASE Killed
  BY SMT, <1>1, <1>10 DEF Killed, Goto, Gone, dds, pins, Fault
<1>11. CASE SweepEnds
  BY SMT, <1>1, <1>11 DEF SweepEnds, program
<1>12. CASE UNCHANGED vars
  BY SMT, <1>1, <1>12 DEF vars, program, dds, pins
<1> QED
  BY <1>2, <1>3, <1>4, <1>5, <1>6, <1>7, <1>8, <1>9, <1>10, <1>11, <1>12 DEF Next, Steps

LEMMA WritingStep ==
  ASSUME Inv, [Next]_vars
  PROVE  Writing'
<1>1. Context /\ Context' /\ Writing
  BY ContextStep DEF Inv
<1>2. ASSUME NEW c \in Configs, Begin(c) PROVE Writing'
  BY SMT, <1>2 DEF Begin, Goto, Writing
<1>3. CASE ReceiveEnds
  BY SMT, <1>3 DEF ReceiveEnds, Goto, Writing
<1>4. CASE SpiInit
  BY SMT, <1>1, <1>4 DEF SpiInit, Goto, program, Fine, Fault, Clean, Writing, Context, Loaded
<1>5. CASE WriteWord
  <2> SUFFICES ASSUME Clean' PROVE spi' = TRUE /\ Loaded(sent)'
    BY DEF Writing
  <2>1. faults' = faults /\ Clean
    <3>1. faults <= faults' /\ before' = before
      <4>1. sent + 1 \in 1..8 /\ config \in Configs
        BY SMT, <1>1, <1>5 DEF WriteWord, Context
      <4> QED
        BY <1>1, <1>5, <4>1, WordsAreNumbers, Sending DEF WriteWord, program, Context
    <3> QED
      BY SMT, <1>1, <3>1 DEF Clean, Context
  <2>2. spi = TRUE
    BY <1>1, <1>5, <2>1 DEF Writing, WriteWord
  <2>3. Receive(Words(config)[sent + 1])
    BY SMT, <1>1, <1>5, <2>1, <2>2 DEF WriteWord, Send, Works, Fails, Fault, Context
  <2> QED
    BY <1>5, <2>1, <2>2, <2>3, Loading DEF WriteWord, program
<1>6. CASE CtrlLow \/ CtrlHigh
  BY SMT, <1>1, <1>6
     DEF CtrlLow, CtrlHigh, Goto, program, dds, Fine, Fault, Clean, Writing, Context, Loaded
<1>7. CASE Poll
  BY SMT, <1>1, <1>7
     DEF Poll, Goto, Gone, program, dds, Fine, Fault, Clean, Writing, Context, Loaded
<1>8. CASE ResetAfter \/ LowerStandby \/ Killed
  BY SMT, <1>8 DEF ResetAfter, LowerStandby, Killed, Gone, Goto, Writing
<1>9. CASE SweepEnds
  BY SMT, <1>1, <1>9 DEF SweepEnds, program, Clean, Writing, Loaded
<1>10. CASE UNCHANGED vars
  BY SMT, <1>1, <1>10 DEF vars, program, dds, Clean, Writing, Loaded
<1> QED
  BY <1>2, <1>3, <1>4, <1>5, <1>6, <1>7, <1>8, <1>9, <1>10 DEF Next, Steps

LEMMA SweepingStep ==
  ASSUME Inv, [Next]_vars
  PROVE  Sweeping'
<1> USE DEF Sweeping, Still
<1>1. Context /\ Context' /\ Sweeping
  BY ContextStep DEF Inv
<1>2. ASSUME NEW c \in Configs, Begin(c) PROVE Sweeping'
  BY SMT, <1>1, <1>2 DEF Begin, Goto, dds, pins, Context
<1>3. CASE ReceiveEnds
  BY SMT, <1>1, <1>3 DEF ReceiveEnds, Goto, dds, pins, Context
<1>4. CASE SpiInit
  BY SMT, <1>1, <1>4
     DEF SpiInit, Goto, program, dds, pins, Fine, Fault, Clean, Context
<1>5. CASE WriteWord
  <2> SUFFICES ASSUME Clean', tidy = TRUE
               PROVE  standby' = FALSE /\ state' = "reset"
    <3>1. /\ pc' \in {"write", "ctrl_low"} /\ tidy' = tidy
      BY SMT, <1>5 DEF WriteWord, Goto, program
    <3> QED
      BY <3>1
  <2>1. faults' = faults /\ Clean
    <3>1. faults <= faults' /\ before' = before
      <4>1. sent + 1 \in 1..8 /\ config \in Configs
        BY SMT, <1>1, <1>5 DEF WriteWord, Context
      <4> QED
        BY <1>1, <1>5, <4>1, WordsAreNumbers, Sending DEF WriteWord, program, Context
    <3> QED
      BY SMT, <1>1, <3>1 DEF Clean, Context
  <2>2. spi = TRUE
    BY <1>5, <2>1 DEF Inv, Writing, WriteWord
  <2>3. Receive(Words(config)[sent + 1])
    BY SMT, <1>1, <1>5, <2>1, <2>2 DEF WriteWord, Send, Works, Fails, Fault, Context
  <2>4. /\ sent = 0 => state' = "reset" /\ standby' \in {standby, FALSE}
        /\ sent # 0 => state' = state /\ standby' = standby
    BY <1>5, <2>1, <2>3, Loading DEF WriteWord, program
  <2>5. standby = FALSE /\ (sent >= 1 => state = "reset")
    BY <1>1, <1>5, <2>1 DEF WriteWord
  <2>6. sent = 0 \/ (sent # 0 /\ sent >= 1)
    BY SMT, <1>1 DEF Context
  <2> QED
    BY <2>4, <2>5, <2>6
<1>6. CASE CtrlLow
  BY SMT, <1>1, <1>6 DEF CtrlLow, Goto, program, dds, Fine, Fault, Clean, Context
<1>7. CASE CtrlHigh
  BY SMT, <1>1, <1>7 DEF CtrlHigh, Goto, program, Fine, Fault, Clean, Context
<1>8. CASE Poll
  BY SMT, <1>1, <1>8
     DEF Poll, Goto, Gone, program, dds, pins, Fine, Fault, Clean, Context
<1>9. CASE ResetAfter
  <2> SUFFICES ASSUME Clean', spi = TRUE PROVE state' = "reset"
    <3>1. pc' = "standby" /\ spi' = spi
      BY SMT, <1>9 DEF ResetAfter, Goto, program
    <3> QED
      BY <3>1
  <2>1. faults <= faults' /\ before' = before
    BY <1>1, <1>9, Reset, Sending DEF ResetAfter, program, Context
  <2>2. faults' = faults
    BY SMT, <1>1, <2>1 DEF Clean, Context
  <2>3. Receive(ResetWord)
    BY <1>1, <1>9, <2>2, Reset, Sending DEF ResetAfter, Context
  <2> QED
    BY <1>1, <2>3, ResetEffect DEF Context
<1>10. CASE LowerStandby
  <2>1. pc' = "idle" /\ state' = state /\ pc = "standby"
    BY SMT, <1>10 DEF LowerStandby, Goto, dds
  <2>2. CASE standby' = FALSE /\ tidy' = (Clean /\ spi)
    <3>1. tidy' = TRUE => Clean /\ spi = TRUE
      BY <1>1, <2>2 DEF Context
    <3>2. tidy' = TRUE => state' = "reset"
      BY <1>1, <2>1, <3>1
    <3> QED
      BY <2>1, <2>2, <3>2
  <2>3. CASE tidy' = FALSE
    BY <2>1, <2>3
  <2> QED
    BY <1>10, <2>2, <2>3 DEF LowerStandby
<1>11. CASE Killed
  BY SMT, <1>11 DEF Killed, Goto, Gone
<1>12. CASE SweepEnds
  BY SMT, <1>1, <1>12 DEF SweepEnds, program, Clean, Context
<1>13. CASE UNCHANGED vars
  BY SMT, <1>1, <1>13 DEF vars, program, dds, pins, Clean
<1> QED
  BY <1>2, <1>3, <1>4, <1>5, <1>6, <1>7, <1>8, <1>9, <1>10, <1>11, <1>12, <1>13
     DEF Next, Steps

-----------------------------------------------------------------------------
(* Widths *)

\* The sets of the widths by their bounds; the solver would write them out.
LEMMA UpToBounds ==
  ASSUME NEW top \in Nat
  PROVE  \A x : x \in UpTo(top) <=> x \in Int /\ 0 <= x /\ x <= top
BY SMT DEF UpTo

LEMMA Widths ==
  /\ \A x : x \in Bits12 <=> x \in Int /\ 0 <= x /\ x <= 4095
  /\ \A x : x \in Bits14 <=> x \in Int /\ 0 <= x /\ x <= 16383
  /\ \A x : x \in Bits16 <=> x \in Int /\ 0 <= x /\ x <= 65535
  /\ \A x : x \in Bits24 <=> x \in Int /\ 0 <= x /\ x <= 16777215
BY SMT, UpToBounds DEF Bits12, Bits14, Bits16, Bits24

\* An address of four bits and twelve bits of data are a word.
LEMMA RegisterWidth ==
  ASSUME NEW address \in 0..15, NEW bits \in Int, 0 <= bits, bits <= 4095
  PROVE  Register(address, bits) \in Bits16
<1>1. /\ Register(address, bits) \in Int /\ 0 <= Register(address, bits)
      /\ Register(address, bits) <= 65535
  BY SMT DEF Register
<1> QED
  BY SMT, <1>1, Widths

LEMMA ResetWidth == ResetWord \in Bits16
<1>1. CTRL_BASE + CTRL_B24 \in Int /\ 0 <= CTRL_BASE + CTRL_B24 /\ CTRL_BASE + CTRL_B24 <= 4095
  BY SMT DEF CTRL_BASE, CTRL_B24
<1> DEFINE bits == CTRL_BASE + CTRL_B24
<1> HIDE DEF bits
<1>2. bits \in Int /\ 0 <= bits /\ bits <= 4095
  BY <1>1 DEF bits
<1>3. Register(0, bits) \in Bits16
  BY SMT, <1>2, RegisterWidth
<1> QED
  BY <1>3 DEF ResetWord, bits

\* No field of a configuration spills over into the address of its word.
LEMMA WordWidths ==
  ASSUME NEW c \in Configs
  PROVE  \A i \in 1..8 : Words(c)[i] \in Bits16
<1> DEFINE start == FrequencyWord(c.start_freq)
           delta == FrequencyWord(c.delta_freq)
           high == ((delta \div 4096) % 2048) + (IF c.positive_incr THEN 0 ELSE 2048)
           number == Clamp(c.num_incr, 2, 4095)
           interval == Clamp(c.mclk_mult, 0, 3) * 2048 + Clamp(c.interval_val, 2, 2047)
           wave == CTRL_BASE + CTRL_B24 + CTRL_SYNC_EN + CTRL_SYNC_EOS
                     + (CASE c.wave_type = 1 -> CTRL_DAC_EN
                          [] c.wave_type = 2 -> CTRL_MSBOUT_EN
                          [] OTHER -> CTRL_DAC_EN + CTRL_SINE)
           reset == CTRL_BASE + CTRL_B24
<1>1. start \in Nat /\ delta \in Nat /\ c.positive_incr \in BOOLEAN /\ c.num_incr \in Nat
      /\ c.mclk_mult \in Int /\ c.interval_val \in Nat /\ c.wave_type \in Int
  BY Fields, FrequencyWords
<1>2. high \in Int /\ 0 <= high /\ high <= 4095
  BY SMT, <1>1
<1>3. number \in Int /\ 0 <= number /\ number <= 4095
  BY SMT, <1>1 DEF Clamp
<1>4. interval \in Int /\ 0 <= interval /\ interval <= 8191
  BY SMT, <1>1 DEF Clamp
<1>5. wave \in Int /\ 0 <= wave /\ wave <= 4095 /\ reset \in Int /\ 0 <= reset /\ reset <= 4095
  BY SMT, <1>1 DEF CTRL_BASE, CTRL_B24, CTRL_SYNC_EN, CTRL_SYNC_EOS, CTRL_DAC_EN,
     CTRL_MSBOUT_EN, CTRL_SINE
<1>6. /\ start % 4096 \in Int /\ 0 <= start % 4096 /\ start % 4096 <= 4095
      /\ delta % 4096 \in Int /\ 0 <= delta % 4096 /\ delta % 4096 <= 4095
      /\ (start \div 4096) % 4096 \in Int /\ 0 <= (start \div 4096) % 4096
      /\ (start \div 4096) % 4096 <= 4095
  BY SMT, <1>1
<1>7. Words(c) = << Register(0, reset), Register(12, start % 4096),
                    Register(13, (start \div 4096) % 4096), Register(2, delta % 4096),
                    Register(3, high), Register(1, number), Register(4, interval),
                    Register(0, wave) >>
  BY SMT DEF Words, StartWords, DeltaWords, NumberWord, IntervalWord, WaveformWord, ResetWord
<1> HIDE DEF start, delta, high, number, interval, wave, reset
<1>8. Register(4, interval) \in Bits16
  <2>1. /\ Register(4, interval) \in Int /\ 0 <= Register(4, interval)
        /\ Register(4, interval) <= 65535
    BY SMT, <1>4 DEF Register
  <2> QED
    BY SMT, <2>1, Widths
<1>9. /\ Register(0, reset) \in Bits16 /\ Register(12, start % 4096) \in Bits16
       /\ Register(13, (start \div 4096) % 4096) \in Bits16
       /\ Register(2, delta % 4096) \in Bits16 /\ Register(3, high) \in Bits16
       /\ Register(1, number) \in Bits16 /\ Register(0, wave) \in Bits16
  BY SMT, <1>2, <1>3, <1>5, <1>6, RegisterWidth
<1> DEFINE w == Words(c)
<1> HIDE DEF w
<1>10. /\ w[1] \in Bits16 /\ w[2] \in Bits16 /\ w[3] \in Bits16 /\ w[4] \in Bits16
       /\ w[5] \in Bits16 /\ w[6] \in Bits16 /\ w[7] \in Bits16 /\ w[8] \in Bits16
  BY SMT, <1>7, <1>8, <1>9 DEF w
<1>11. \A i \in 1..8 : w[i] \in Bits16
  <2> TAKE i \in 1..8
  <2>1. i = 1 \/ i = 2 \/ i = 3 \/ i = 4 \/ i = 5 \/ i = 6 \/ i = 7 \/ i = 8
    BY SMT
  <2> QED
    BY <1>10, <2>1
<1> QED
  BY <1>11 DEF w

\* The registers of the chip.
Fits == /\ chip.control \in Bits12 /\ chip.number \in Bits12 /\ chip.interval \in Bits14
        /\ IsFrequency(chip.start) /\ IsFrequency(chip.delta)
        /\ (half \in Bits16 \/ half = NoHalf) /\ state \in {"reset", "running", "done"}
        /\ standby \in BOOLEAN

\* A word leaves each register within its width.
LEMMA ReceiveFits ==
  ASSUME chip \in Chips, half \in Int, Fits, NEW word \in Bits16, Receive(word)
  PROVE  Fits'
<1>1. word \in Int /\ 0 <= word /\ word <= 65535
  BY SMT, Widths
<1>2. Data(word) \in Bits12 /\ word % 16384 \in Bits14 /\ IsFrequency(Pair(word))
  <2>1. Data(word) \in Int /\ 0 <= Data(word) /\ Data(word) <= 4095
    BY SMT, <1>1 DEF Data
  <2>2. Data(half) \in Int /\ 0 <= Data(half) /\ Data(half) <= 4095
    BY SMT DEF Data
  <2>3. word % 16384 \in Int /\ 0 <= word % 16384 /\ word % 16384 <= 16383
    BY SMT, <1>1
  <2> DEFINE pair == Data(word) * 4096 + Data(half)
  <2>4. pair \in Int /\ 0 <= pair /\ pair <= 16777215
    BY SMT, <2>1, <2>2
  <2>5. Pair(word) = pair \/ Pair(word) = Unknown
    BY DEF Pair
  <2> HIDE DEF pair
  <2>6. Data(word) \in Bits12
    BY SMT, <2>1, Widths
  <2>7. word % 16384 \in Bits14
    BY SMT, <2>3, Widths
  <2>8. IsFrequency(pair) /\ IsFrequency(Unknown)
    BY SMT, <2>4, Widths DEF IsFrequency
  <2> QED
    BY <2>5, <2>6, <2>7, <2>8
<1>3. half' \in Bits16 \/ half' = NoHalf
  BY DEF Receive
<1>4. CASE word = ResetWord
  <2>1. /\ \/ chip' = [chip EXCEPT !.control = Data(word)]
           \/ chip' = [control |-> Data(word), start |-> 0, delta |-> 0, number |-> 0,
                       interval |-> 0]
        /\ state' = "reset" /\ (standby' = standby \/ standby' = FALSE)
    <3>1. Receive(ResetWord)
      BY <1>4
    <3>2. /\ \/ chip' = [chip EXCEPT !.control = Data(ResetWord)]
             \/ chip' = [control |-> Data(ResetWord), start |-> 0, delta |-> 0, number |-> 0,
                         interval |-> 0]
          /\ state' = "reset" /\ standby' \in {standby, FALSE}
      BY <3>1 DEF Receive, Control
    <3> QED
      BY <1>4, <3>2, Zenon
  <2>2. 0 \in Bits12 /\ 0 \in Bits14 /\ IsFrequency(0)
    BY SMT, Widths DEF IsFrequency
  <2>3. /\ chip'.control \in Bits12 /\ chip'.number \in Bits12 /\ chip'.interval \in Bits14
        /\ IsFrequency(chip'.start) /\ IsFrequency(chip'.delta)
    BY SMT, <1>2, <2>1, <2>2 DEF Chips, Fits
  <2>4. standby' \in BOOLEAN
    <3>1. standby \in BOOLEAN
      BY Zenon DEF Fits
    <3>2. standby' = standby \/ standby' = FALSE
      BY Zenon, <2>1
    <3> QED
      BY Zenon, <3>1, <3>2
  <2> QED
    BY <1>3, <2>1, <2>3, <2>4 DEF Fits
<1>5. CASE word # ResetWord
  <2>1. /\ chip' = IF Address(word) = 0 THEN [chip EXCEPT !.control = Data(word)] ELSE Load(word)
        /\ state' = state /\ standby' = standby
    BY <1>5 DEF Receive
  <2>2. \/ chip' = chip
        \/ chip' = [chip EXCEPT !.control = Data(word)]
        \/ chip' = [chip EXCEPT !.number = Data(word)]
        \/ chip' = [chip EXCEPT !.interval = word % 16384]
        \/ chip' = [chip EXCEPT !.delta = Pair(word)]
        \/ chip' = [chip EXCEPT !.start = Pair(word)]
    BY SMT, <2>1 DEF Load
  <2>3. /\ chip'.control \in Bits12 /\ chip'.number \in Bits12 /\ chip'.interval \in Bits14
        /\ IsFrequency(chip'.start) /\ IsFrequency(chip'.delta)
    BY SMT, <1>2, <2>2 DEF Chips, Fits
  <2> QED
    BY <1>3, <2>1, <2>3 DEF Fits
<1> QED
  BY <1>4, <1>5

\* What belongs to the program.
Held ==
  /\ config \in Configs \cup {NoConfig} /\ sent \in 0..8
  /\ spi \in BOOLEAN /\ ctrl \in BOOLEAN /\ tidy \in BOOLEAN
  /\ faults \in 0..MaxFaults /\ before \in 0..faults

LEMMA TypeParts ==
  ASSUME Inv, Fits, Held
  PROVE  TypeOK
<1>1. pc = "write" => \A i \in 1..8 : Words(config)[i] \in Bits16
  BY WordWidths DEF Inv, Context
<1> QED
  BY <1>1, Zenon DEF TypeOK, Inv, Context, Fits, Held

LEMMA InitTyped == Init => Fits /\ Held
<1> SUFFICES ASSUME Init PROVE Fits /\ Held
  OBVIOUS
<1>1. 0 \in Bits12 /\ 0 \in Bits14 /\ IsFrequency(0)
  BY SMT, Widths DEF IsFrequency
<1>2. /\ chip = [control |-> 0, start |-> 0, delta |-> 0, number |-> 0, interval |-> 0]
      /\ half = NoHalf /\ state = "done"
  BY DEF Init
<1>3. standby \in BOOLEAN /\ spi \in BOOLEAN /\ ctrl \in BOOLEAN /\ tidy \in BOOLEAN
  BY Zenon DEF Init
<1>4. Fits
  <2>1. /\ chip.control = 0 /\ chip.start = 0 /\ chip.delta = 0 /\ chip.number = 0
        /\ chip.interval = 0
    BY SMT, <1>2
  <2> QED
    BY <1>1, <1>2, <1>3, <2>1 DEF Fits
<1>5. /\ config = NoConfig /\ sent \in 0..8 /\ faults \in 0..MaxFaults /\ before \in 0..faults
  BY SMT, FaultsAssumption DEF Init
<1> QED
  BY <1>3, <1>4, <1>5, Zenon DEF Held

\* Each step leaves the registers and pins within their widths.
LEMMA FitsStep ==
  ASSUME Inv, Fits, [Next]_vars
  PROVE  Fits'
<1>1. chip \in Chips /\ half \in Int /\ Context
  BY DEF Inv, Context
<1>2. ASSUME UNCHANGED <<dds, standby>> PROVE Fits'
  BY <1>2 DEF Fits, dds
<1>3. ASSUME NEW word \in Bits16, Send(word) PROVE Fits'
  BY <1>1, <1>2, <1>3, ReceiveFits DEF Send
<1>4. ASSUME NEW c \in Configs, Begin(c) PROVE Fits'
  BY <1>2, <1>4 DEF Begin, pins
<1>5. CASE ReceiveEnds \/ SpiInit \/ CtrlLow \/ Poll \/ Killed
  BY <1>2, <1>5 DEF ReceiveEnds, SpiInit, CtrlLow, Poll, Killed, pins
<1>6. CASE WriteWord
  <2>1. config \in Configs /\ sent + 1 \in 1..8
    BY SMT, <1>1, <1>6 DEF WriteWord, Context
  <2>2. Words(config)[sent + 1] \in Bits16
    BY <2>1, WordWidths
  <2> QED
    BY <1>3, <1>6, <2>2 DEF WriteWord
<1>7. CASE ResetAfter
  BY <1>3, <1>7, ResetWidth DEF ResetAfter
<1>8. CASE CtrlHigh
  <2>1. /\ chip' = chip /\ half' = half /\ standby' = standby
        /\ state' \in {"reset", "running", "done"}
    BY <1>8 DEF CtrlHigh, Fits
  <2> QED
    BY <2>1 DEF Fits
<1>9. CASE LowerStandby
  <2>1. /\ chip' = chip /\ half' = half /\ state' = state
        /\ standby' = FALSE \/ standby' = standby
    BY <1>9 DEF LowerStandby, dds
  <2>2. standby' \in BOOLEAN
    BY Zenon, <2>1 DEF Fits
  <2> QED
    BY <2>1, <2>2 DEF Fits
<1>10. CASE SweepEnds
  <2>1. chip' = chip /\ half' = half /\ state' = "done"
    BY <1>10 DEF SweepEnds
  <2>2. standby' \in BOOLEAN
    BY Zenon, <1>10 DEF SweepEnds, Fits
  <2> QED
    BY <2>1, <2>2 DEF Fits
<1>11. CASE UNCHANGED vars
  BY <1>2, <1>11 DEF vars, pins
<1> QED
  BY <1>4, <1>5, <1>6, <1>7, <1>8, <1>9, <1>10, <1>11 DEF Next, Steps

LEMMA HeldStep ==
  ASSUME Inv, Held, [Next]_vars
  PROVE  Held'
<1>1. Context /\ config \in Configs \cup {NoConfig} /\ sent \in 0..8
  BY DEF Inv, Held
<1>2. MaxFaults \in Nat /\ faults \in 0..MaxFaults /\ before \in 0..faults
  BY FaultsAssumption DEF Held
<1>3. spi \in BOOLEAN /\ ctrl \in BOOLEAN /\ tidy \in BOOLEAN
  BY Zenon DEF Held
\* The three groups of Held.
<1> DEFINE Numbers == faults \in 0..MaxFaults /\ before \in 0..faults
           Flags == spi \in BOOLEAN /\ ctrl \in BOOLEAN /\ tidy \in BOOLEAN
           Place == config \in Configs \cup {NoConfig} /\ sent \in 0..8
<1>4. ASSUME faults' = faults \/ Fault, before' = before \/ before' = faults
      PROVE  Numbers'
  BY SMT, <1>2, <1>4 DEF Fault
<1>5. Numbers'
  <2>1. ASSUME NEW word, Send(word) PROVE faults' = faults \/ Fault
    BY <2>1 DEF Send, Works, Fails
  <2>2. faults' = faults \/ Fault
    BY <2>1 DEF Next, Steps, Begin, ReceiveEnds, SpiInit, WriteWord, CtrlLow, CtrlHigh, Poll,
       ResetAfter, LowerStandby, Killed, SweepEnds, Fine, vars
  <2>3. before' = before \/ before' = faults
    BY DEF Next, Steps, Begin, ReceiveEnds, SpiInit, WriteWord, CtrlLow, CtrlHigh, Poll,
       ResetAfter, LowerStandby, Killed, Gone, SweepEnds, program, vars
  <2> QED
    BY <1>4, <2>2, <2>3
<1>6. Flags'
  <2>1. spi' = spi \/ spi' = TRUE \/ spi' = FALSE
    BY DEF Next, Steps, Begin, ReceiveEnds, SpiInit, WriteWord, CtrlLow, CtrlHigh, Poll,
       ResetAfter, LowerStandby, Killed, Gone, SweepEnds, vars
  <2>2. ctrl' = ctrl \/ ctrl' = TRUE \/ ctrl' = FALSE
    BY DEF Next, Steps, Begin, ReceiveEnds, SpiInit, WriteWord, CtrlLow, CtrlHigh, Poll,
       ResetAfter, LowerStandby, Killed, SweepEnds, pins, vars
  <2>3. tidy' = tidy \/ tidy' = FALSE \/ tidy' = (Clean /\ spi)
    BY DEF Next, Steps, Begin, ReceiveEnds, SpiInit, WriteWord, CtrlLow, CtrlHigh, Poll,
       ResetAfter, LowerStandby, Killed, Gone, SweepEnds, program, vars
  <2>4. spi' \in BOOLEAN
    BY Zenon, <1>3, <2>1
  <2>5. ctrl' \in BOOLEAN
    BY Zenon, <1>3, <2>2
  <2>6. tidy' \in BOOLEAN
    BY Zenon, <1>3, <2>3
  <2> QED
    BY <2>4, <2>5, <2>6
<1>7. Place'
  <2>1. ASSUME NEW c \in Configs, Begin(c) PROVE Place'
    BY <1>1, <2>1 DEF Begin
  <2>2. CASE WriteWord
    <3>1. sent' = sent + 1 /\ config' = config /\ sent < 8
      BY <1>1, <2>2 DEF WriteWord, program, Context
    <3> QED
      BY SMT, <1>1, <3>1
  <2>3. CASE ReceiveEnds \/ SpiInit \/ CtrlLow \/ CtrlHigh \/ ResetAfter \/ SweepEnds
               \/ UNCHANGED vars
    BY <1>1, <2>3 DEF ReceiveEnds, SpiInit, CtrlLow, CtrlHigh, ResetAfter, SweepEnds, program, vars
  <2>4. CASE Poll \/ Killed \/ LowerStandby
    <3>1. \/ config' = config /\ sent' = sent
          \/ config' = NoConfig /\ sent' = 0
      BY <2>4 DEF Poll, Killed, LowerStandby, Gone, program
    <3> QED
      BY <1>1, <3>1
  <2> QED
    BY <2>1, <2>2, <2>3, <2>4 DEF Next, Steps
<1> QED
  BY <1>5, <1>6, <1>7, Zenon DEF Held

-----------------------------------------------------------------------------
(* What holds of every behaviour *)

\* No fault, kill or order of programs leads out of the invariant.
THEOREM Invariance == Spec => []Inv
<1>1. Init => Inv
  BY InitInv
<1>2. Inv /\ [Next]_vars => Inv'
  BY ContextStep, WritingStep, SweepingStep DEF Inv
<1> QED
  BY <1>1, <1>2, PTL DEF Spec

\* Type correctness: every word has sixteen bits and every register its width, whatever
\* numbers a configuration has (the masks and clamps of ad5932.c).
THEOREM TypeCorrect == Spec => []TypeOK
<1>1. Init => Inv /\ Fits /\ Held
  BY InitInv, InitTyped
<1>2. (Inv /\ Fits /\ Held) /\ [Next]_vars => (Inv /\ Fits /\ Held)'
  BY ContextStep, WritingStep, SweepingStep, FitsStep, HeldStep DEF Inv
<1>3. Inv /\ Fits /\ Held => TypeOK
  BY TypeParts
<1> QED
  BY <1>1, <1>2, <1>3, PTL DEF Spec

\* The sweep a program starts has the frequencies, direction, counts and waveform of its
\* configuration, whatever of earlier programs' words the chip has kept
\* (ad5932_set_start_frequency and its companions, ad5932_start_sweep).
THEOREM SweepAsAsked == Spec => []SweepIsAsked
<1>1. Inv => SweepIsAsked
  <2> SUFFICES ASSUME Inv, pc = "poll", Clean PROVE Programmed(config)
    BY DEF SweepIsAsked
  <2>1. Loaded(8)
    BY DEF Inv, Writing, Context
  <2>2. /\ chip.start = FrequencyWord(config.start_freq) % 16777216
        /\ chip.delta % 8388608 = FrequencyWord(config.delta_freq) % 8388608
        /\ chip.delta >= 8388608 <=> ~config.positive_incr
        /\ chip.number = Clamp(config.num_incr, 2, 4095)
        /\ chip.interval % 2048 = Clamp(config.interval_val, 2, 2047)
        /\ (chip.interval \div 2048) % 4 = Clamp(config.mclk_mult, 0, 3)
        /\ ~Bit(chip.interval, 8192)
        /\ Waves(chip.control, config.wave_type)
    BY SMT, <2>1 DEF Loaded
  <2> QED
    BY SMT, <2>2 DEF Programmed, Waves
<1> QED
  BY <1>1, Invariance, PTL

\* A program that waits for the end signal goes on because its own sweep has ended, if
\* the program before it had the SPI open, reset the chip and lowered the pin.
THEOREM EndIsOwn == Spec => []OwnSweepDone
<1>1. Inv => OwnSweepDone
  BY DEF Inv, Sweeping, OwnSweepDone
<1> QED
  BY <1>1, Invariance, PTL
=============================================================================
