-------------------------------- MODULE Ad5932 --------------------------------
(***************************************************************************)
(* dev/ad5932.c: the words that program the AD5932 over SPI, the CTRL pin  *)
(* that starts its sweep and the pin that tells the end, driven the same   *)
(* way by transmit, by the sweep threads and by app/ad5932_main.c.         *)
(*                                                                         *)
(* Nobody looks at the result of a write: a word may be lost, and the      *)
(* program may be killed after any of them; the chip keeps what it has got *)
(* and the next program has to cope with it. Of the chip the module takes  *)
(* what ad5932.h says: how words are addressed, that in B24 mode two       *)
(* writes in a row make a frequency word, what the control bits do.        *)
(***************************************************************************)
EXTENDS Integers, Sequences

CONSTANTS
  Configs,    \* DDSConfig: what programs ask for
  MaxFaults   \* bound: transfers that fail, and kills

DDSConfig == [start_freq : Nat, delta_freq : Nat, positive_incr : BOOLEAN, num_incr : Nat,
              mclk_mult : Int, interval_val : Nat, wave_type : Int]

ASSUME ConfigsAssumption == Configs \subseteq DDSConfig
ASSUME FaultsAssumption == MaxFaults \in Nat

-----------------------------------------------------------------------------
(* Words *)

CTRL_BASE == 128 + 64 + 16 + 2 + 1
CTRL_B24 == 2048
CTRL_DAC_EN == 1024
CTRL_SINE == 512
CTRL_MSBOUT_EN == 256
CTRL_SYNC_EOS == 8
CTRL_SYNC_EN == 4

Register(address, bits) == address * 4096 + bits
Clamp(x, low, high) == IF x < low THEN low ELSE IF x > high THEN high ELSE x

\* freq * 2^24 / 50 MHz, truncated; in stages that fit 32-bit arithmetic.
FrequencyWord(freq) ==
  LET scaled == (freq % 390625) * 512
  IN  (freq \div 390625) * 131072
        + (scaled \div 390625) * 256 + ((scaled % 390625) * 256) \div 390625

ResetWord == Register(0, CTRL_BASE + CTRL_B24)

\* Mutated WaveformWord: the end of the sweep is not signalled for a square wave.
WaveformSilentSquare(wave_type) ==
  Register(0, CTRL_BASE + CTRL_B24
                + (CASE wave_type = 1 -> CTRL_DAC_EN + CTRL_SYNC_EN + CTRL_SYNC_EOS
                     [] wave_type = 2 -> CTRL_MSBOUT_EN
                     [] OTHER -> CTRL_DAC_EN + CTRL_SINE + CTRL_SYNC_EN + CTRL_SYNC_EOS))

WaveformWord(wave_type) ==
  Register(0, CTRL_BASE + CTRL_B24 + CTRL_SYNC_EN + CTRL_SYNC_EOS
                + (CASE wave_type = 1 -> CTRL_DAC_EN
                     [] wave_type = 2 -> CTRL_MSBOUT_EN
                     [] OTHER -> CTRL_DAC_EN + CTRL_SINE))

\* Mutated StartWords: the low half is not cut to its twelve bits.
StartWordsUncut(freq) ==
  << Register(12, FrequencyWord(freq)),
     Register(13, (FrequencyWord(freq) \div 4096) % 4096) >>

StartWords(freq) ==
  << Register(12, FrequencyWord(freq) % 4096),
     Register(13, (FrequencyWord(freq) \div 4096) % 4096) >>

\* 23 bits and a sign.
DeltaWords(freq, positive) ==
  << Register(2, FrequencyWord(freq) % 4096),
     Register(3, ((FrequencyWord(freq) \div 4096) % 2048) + (IF positive THEN 0 ELSE 2048)) >>

NumberWord(n) == Register(1, Clamp(n, 2, 4095))

\* mode is 0 in every call; the multiplier takes two bits above the eleven of the interval.
IntervalWord(mclk_mult, interval) ==
  Register(4, Clamp(mclk_mult, 0, 3) * 2048 + Clamp(interval, 2, 2047))

\* Mutated Words: the high half of the start frequency first.
WordsHighFirst(c) ==
  << ResetWord, StartWords(c.start_freq)[2], StartWords(c.start_freq)[1] >>
    \o DeltaWords(c.delta_freq, c.positive_incr)
    \o << NumberWord(c.num_incr), IntervalWord(c.mclk_mult, c.interval_val),
          WaveformWord(c.wave_type) >>

\* Everything that is sent between ad5932_init and ad5932_start_sweep, in order.
Words(c) ==
  << ResetWord, StartWords(c.start_freq)[1], StartWords(c.start_freq)[2],
     DeltaWords(c.delta_freq, c.positive_incr)[1],
     DeltaWords(c.delta_freq, c.positive_incr)[2],
     NumberWord(c.num_incr), IntervalWord(c.mclk_mult, c.interval_val),
     WaveformWord(c.wave_type) >>

-----------------------------------------------------------------------------
VARIABLES
  pc, config,
  sent,      \* the words of Words(config) that are behind the program
  spi,       \* spi_fd is an open descriptor
  chip,      \* the AD5932's registers
  half,      \* the low half of a frequency word, until the next write
  state,     \* the AD5932: reset, running, done
  ctrl,      \* REG_DDS_CTRL
  standby,   \* REG_DDS_STB, up when the chip signals the end of a sweep
  faults,
  before,    \* history: the faults before this program
  tidy       \* history: the program before ended with its transfers done

program == <<config, before, tidy>>
dds == <<chip, half, state>>
pins == <<ctrl, standby>>
vars == <<pc, program, sent, spi, dds, pins, faults>>

NoConfig == [start_freq |-> 0]
NoHalf == -1
Unknown == -1

\* After power-up the chip is not programmed.
Init ==
  /\ pc = "idle" /\ config = NoConfig /\ sent = 0 /\ spi = FALSE
  /\ chip = [control |-> 0, start |-> 0, delta |-> 0, number |-> 0, interval |-> 0]
  /\ half = NoHalf /\ state = "done"
  /\ ctrl = FALSE /\ standby = FALSE
  /\ faults = 0 /\ before = 0 /\ tidy = TRUE

Goto(label) == pc' = label
Fault == faults < MaxFaults /\ faults' = faults + 1
Fails == Fault \/ (~spi /\ UNCHANGED faults)
Works == spi /\ UNCHANGED faults
Fine == UNCHANGED faults

\* No transfer of this program has failed; those of earlier programs may have.
Clean == faults = before

Bit(word, bit) == (word \div bit) % 2 = 1

-----------------------------------------------------------------------------
(* What a word does to the chip *)

Address(word) == word \div 4096
Data(word) == word % 4096

\* In B24 mode a frequency word takes two writes in a row: the high half completes it.
IsLow(word) == Address(word) \in {2, 12}
Pair(word) == IF Bit(chip.control, CTRL_B24) /\ Address(half) = Address(word) - 1
              THEN Data(word) * 4096 + Data(half) ELSE Unknown

Load(word) ==
  CASE Address(word) = 1 -> [chip EXCEPT !.number = Data(word)]
    [] Address(word) \in 4..7 -> [chip EXCEPT !.interval = word % 16384]
    [] Address(word) = 3 -> [chip EXCEPT !.delta = Pair(word)]
    [] Address(word) = 13 -> [chip EXCEPT !.start = Pair(word)]
    [] OTHER -> chip

\* A control word stops the chip when it is the reset's; whether the other registers and
\* the pin go back as well the source leaves open.
Control(word) ==
  /\ chip' \in {[chip EXCEPT !.control = Data(word)],
                [control |-> Data(word), start |-> 0, delta |-> 0, number |-> 0,
                 interval |-> 0]}
  /\ state' = "reset"
  /\ standby' \in {standby, FALSE}

Receive(word) ==
  /\ IF word = ResetWord THEN Control(word)
     ELSE /\ chip' = IF Address(word) = 0 THEN [chip EXCEPT !.control = Data(word)]
                     ELSE Load(word)
          /\ UNCHANGED <<state, standby>>
  /\ half' = IF IsLow(word) THEN word ELSE NoHalf

\* ad5932_write
Send(word) ==
  \/ Works /\ Receive(word)
  \/ Fails /\ UNCHANGED <<dds, standby>>

-----------------------------------------------------------------------------
(* The program *)

Begin(c) ==
  /\ pc = "idle" /\ Goto("init")
  /\ config' = c /\ before' = faults
  /\ UNCHANGED <<sent, tidy, spi, dds, pins, faults>>

\* receive_single_beam_response resets the chip as it ends, without a word before.
ReceiveEnds ==
  /\ pc = "idle" /\ Goto("reset") /\ before' = faults
  /\ UNCHANGED <<config, tidy, sent, spi, dds, pins, faults>>

\* spi_hal_init: a new descriptor, or none when the open or a setting fails.
SpiInit ==
  /\ pc = "init" /\ Goto("write")
  /\ (spi' = TRUE /\ Fine) \/ (spi' = FALSE /\ Fault)
  /\ UNCHANGED <<program, sent, dds, pins>>

WriteWord ==
  /\ pc = "write"
  /\ Send(Words(config)[sent + 1])
  /\ sent' = sent + 1
  /\ Goto(IF sent + 1 < 8 THEN "write" ELSE "ctrl_low")
  /\ UNCHANGED <<program, spi, ctrl>>

\* ad5932_start_sweep
CtrlLow ==
  /\ pc = "ctrl_low" /\ Goto("ctrl_high")
  /\ (Fine /\ ctrl' = FALSE) \/ (Fault /\ UNCHANGED ctrl)
  /\ UNCHANGED <<program, sent, spi, dds, standby>>

\* The edge starts a chip that has been reset; of one whose sweep is over the source
\* says nothing. REG_DDS_CTRL goes back to 0 by itself (fpga.h:29) or stays high: the
\* code, which writes the 0 before the 1, relies on neither.
CtrlHigh ==
  /\ pc = "ctrl_high" /\ Goto("poll")
  /\ \/ /\ Fine /\ ctrl' \in BOOLEAN
        /\ state' \in (IF ctrl \/ state = "running" THEN {state}
                       ELSE IF state = "reset" THEN {"running"} ELSE {"done", "running"})
     \/ Fault /\ UNCHANGED <<ctrl, state>>
  /\ UNCHANGED <<program, sent, spi, chip, half, standby>>

Gone ==
  /\ Goto("idle") /\ config' = NoConfig /\ sent' = 0 /\ spi' = FALSE /\ tidy' = FALSE
  /\ UNCHANGED before

\* while (!ad5932_is_sweep_done()): a read that fails ends the process.
Poll ==
  /\ pc = "poll"
  /\ \/ Fine /\ standby /\ Goto("reset") /\ UNCHANGED <<program, sent, spi>>
     \/ Fine /\ ~standby /\ UNCHANGED <<pc, program, sent, spi>>
     \/ Fault /\ Gone
  /\ UNCHANGED <<dds, pins>>

ResetAfter ==
  /\ pc = "reset" /\ Goto("standby")
  /\ Send(ResetWord)
  /\ UNCHANGED <<program, sent, spi, ctrl>>

\* Mutated LowerStandby: set_standby(true).
RaiseStandby ==
  /\ pc = "standby" /\ Goto("idle") /\ config' = NoConfig /\ sent' = 0
  /\ \/ Fine /\ standby' = TRUE /\ tidy' = (Clean /\ spi)
     \/ Fault /\ UNCHANGED standby /\ tidy' = FALSE
  /\ UNCHANGED <<before, spi, dds, ctrl>>

\* ad5932_set_standby(false)
LowerStandby ==
  /\ pc = "standby" /\ Goto("idle") /\ config' = NoConfig /\ sent' = 0
  /\ \/ Fine /\ standby' = FALSE /\ tidy' = (Clean /\ spi)
     \/ Fault /\ UNCHANGED standby /\ tidy' = FALSE
  /\ UNCHANGED <<before, spi, dds, ctrl>>

\* The chip keeps what it has.
Killed == pc # "idle" /\ Fault /\ Gone /\ UNCHANGED <<dds, pins>>

\* The chip: a sweep comes to its end, and says so when its control word asks for it.
SweepEnds ==
  /\ state = "running" /\ state' = "done"
  /\ standby' = (standby \/ (Bit(chip.control, CTRL_SYNC_EN) /\ Bit(chip.control, CTRL_SYNC_EOS)))
  /\ UNCHANGED <<pc, program, sent, spi, chip, half, ctrl, faults>>

Steps == SpiInit \/ WriteWord \/ CtrlLow \/ CtrlHigh \/ Poll \/ ResetAfter \/ LowerStandby

Next == (\E c \in Configs : Begin(c)) \/ ReceiveEnds \/ Steps \/ Killed \/ SweepEnds

Spec == Init /\ [][Next]_vars

\* The program runs, a sweep is finite, no transfer has to fail.
FairSpec == Spec /\ WF_vars(Steps /\ faults' = faults) /\ WF_vars(SweepEnds)

-----------------------------------------------------------------------------
UpTo(top) == 0..top
Bits12 == UpTo(4095)
Bits14 == UpTo(16383)
Bits16 == UpTo(65535)
Bits24 == UpTo(16777215)

\* A frequency word of two halves, or what a half without the other has made.
IsFrequency(f) == f \in Bits24 \/ f = Unknown

\* The type invariant; words have 16 bits and the fields of the registers their widths.
TypeOK ==
  /\ pc \in {"idle", "init", "write", "ctrl_low", "ctrl_high", "poll", "reset", "standby"}
  /\ config \in Configs \cup {NoConfig} /\ sent \in 0..8
  /\ spi \in BOOLEAN /\ ctrl \in BOOLEAN /\ standby \in BOOLEAN /\ tidy \in BOOLEAN
  /\ chip.control \in Bits12 /\ chip.number \in Bits12 /\ chip.interval \in Bits14
  /\ IsFrequency(chip.start) /\ IsFrequency(chip.delta)
  /\ (half \in Bits16 \/ half = NoHalf) /\ state \in {"reset", "running", "done"}
  /\ pc = "write" => \A i \in 1..8 : Words(config)[i] \in Bits16
  /\ faults \in 0..MaxFaults /\ before \in 0..faults

\* What the registers are to hold for a configuration, field by field as the chip reads
\* them (ad5932.h:14-62). An interval of 0 or 1 becomes 2: ad5932.h:129 admits them,
\* sbeam.h:23 and the driver do not.
Programmed(c) ==
  /\ chip.start = FrequencyWord(c.start_freq) % 16777216
  /\ chip.delta % 8388608 = FrequencyWord(c.delta_freq) % 8388608
  /\ chip.delta >= 8388608 <=> ~c.positive_incr
  /\ chip.number = Clamp(c.num_incr, 2, 4095)
  /\ chip.interval % 2048 = Clamp(c.interval_val, 2, 2047)
  /\ (chip.interval \div 2048) % 4 = Clamp(c.mclk_mult, 0, 3)
  /\ ~Bit(chip.interval, 8192)
  /\ Bit(chip.control, CTRL_DAC_EN) <=> c.wave_type # 2
  /\ Bit(chip.control, CTRL_MSBOUT_EN) <=> c.wave_type = 2
  /\ Bit(chip.control, CTRL_SINE) <=> c.wave_type \notin {1, 2}
  /\ Bit(chip.control, CTRL_SYNC_EN) /\ Bit(chip.control, CTRL_SYNC_EOS)

\* The sweep that a program starts is the one it was asked for, whatever words earlier
\* programs have sent, lost, or not come to send.
SweepIsAsked == pc = "poll" /\ Clean => Programmed(config)

\* A program goes on because its own sweep is over, if the one before it has cleaned up:
\* reset the chip, which takes an open SPI, and lowered the pin.
OwnSweepDone == pc = "reset" /\ config # NoConfig /\ Clean /\ tidy => state = "done"

\* A program whose transfers work sees the end of its sweep, whatever earlier ones left.
EndIsSeen == (pc = "poll" /\ Clean) ~> pc # "poll"
=============================================================================
