------------------------------- MODULE Dac63001 -------------------------------
(***************************************************************************)
(* dev/dac63001.c on the DAC and on the FPGA's trigger: how transmit and   *)
(* receive of core/sbeam.c and the program app/dac63001_main.c set the     *)
(* gain, register by register.                                             *)
(*                                                                         *)
(* The registers outlive the process: a call finds what earlier calls, and *)
(* calls that failed or were killed half way, have left in them. Every     *)
(* transfer may fail. A ramp whose function is switched off runs to the    *)
(* end of its period (the source's trigger pulse of 0.5 ms for a ramp of   *)
(* 1 ms and more relies on it) or stops at once.                           *)
(***************************************************************************)
EXTENDS GainMath

CONSTANTS
  Calls,      \* what is called: the sets below
  MaxFaults   \* bound: transfers that fail on an open bus, and kills

GainCalls == [fn : {"transmit", "receive"}, start : Nat, end : Nat, duration : Nat]
FixedCalls == [fn : {"fixed"}, voltage : 0..DAC63001_EXT_REF_VOLTAGE]
SawtoothCalls == [fn : {"sawtooth"}, low : Int, high : Int, step : 0..7, slew : 0..15]
StopCall == [fn |-> "stop"]
NoCall == [fn |-> "none"]

ASSUME CallsAssumption ==
  \A c \in Calls : \/ c \in GainCalls \cup FixedCalls \cup {StopCall}
                   \/ c \in SawtoothCalls /\ c.low < c.high
                                          /\ c.high <= DAC63001_EXT_REF_VOLTAGE
ASSUME FaultsAssumption == MaxFaults \in Nat

VARIABLES
  pc, call, result,
  open,      \* the I2C bus is open
  choice,    \* the local code_step and slew_rate, as a number of GainMath
  reg,       \* the DAC's registers, and REG_DAC_CTRL_EN and REG_DAC_TIMER of the FPGA
  wave,      \* the function generator: off, on, or in the period after its stop
  ramp,      \* history: the first ramp of this call, as its registers made it
  faults,
  before     \* history: the faults before this call

local == <<call, choice, result, before>>
chip == <<reg, wave, ramp>>
vars == <<pc, local, open, chip, faults>>

Registers == {"common", "vout", "data", "high", "low", "func", "trig", "gpio", "gate", "timer"}
NoRamp == [high |-> 0, low |-> 0, func |-> 0]

\* After power-up the function generator is off. Other values do not matter: no ramp
\* starts before they are written.
Init ==
  /\ pc = "idle" /\ call = NoCall /\ choice = 0 /\ result = 0
  /\ open = FALSE /\ faults = 0 /\ before = 0
  /\ reg = [r \in Registers |-> 0]
  /\ wave = "off" /\ ramp = NoRamp

Goto(label) == pc' = label
Flow == call.fn \in {"transmit", "receive"}
Transmit == call.fn = "transmit"
FixedGain == Flow /\ call.start = call.end
GainSweep == Flow /\ call.start # call.end

Fault == faults < MaxFaults /\ faults' = faults + 1
BusFails == Fault \/ (~open /\ UNCHANGED faults)
BusWorks == open /\ UNCHANGED faults

\* dac63001_close, unless the caller returns without it.
Return(value) ==
  /\ Goto("idle") /\ result' = value
  /\ open' = FALSE
  /\ UNCHANGED <<call, choice, before>>

\* A transfer that works, and one that does not.
Proceed(label) == Goto(label) /\ UNCHANGED <<local, open>>

Set(register, value) == reg' = [reg EXCEPT ![register] = value]

-----------------------------------------------------------------------------
(* Calls *)

\* Opens the bus unless it is open.
Begin(c) ==
  /\ pc = "idle"
  /\ call' = c /\ choice' = 0 /\ result' = 0 /\ before' = faults
  /\ \/ open' = TRUE /\ UNCHANGED faults
     \/ ~open /\ Fault /\ UNCHANGED open
  /\ ramp' = NoRamp
  /\ Goto("common")
  /\ UNCHANGED <<reg, wave>>

\* The process is gone: the registers stay.
Gone ==
  /\ Goto("idle")
  /\ call' = NoCall /\ choice' = 0 /\ result' = 0 /\ open' = FALSE
  /\ UNCHANGED before

Killed == pc # "idle" /\ Fault /\ Gone /\ UNCHANGED chip

\* A write with a read-back whose value nobody compares: either transfer may fail.
Verified(register, value, label, failed) ==
  /\ \/ BusWorks /\ Set(register, value) /\ label
     \/ BusFails /\ failed /\ \/ UNCHANGED reg
                              \/ open /\ Set(register, value)
  /\ UNCHANGED <<wave, ramp>>

\* dac63001_setup_external_ref
SetupCommon ==
  /\ pc = "common"
  /\ Verified("common", 519, Proceed("vout"), Return(-1))

SetupVout ==
  /\ pc = "vout"
  /\ Verified("vout", 0, Proceed(IF GainSweep THEN "sweep" ELSE "stop"), Return(-1))

\* What dac63001_set_gain_sweep refuses.
Refused(c) ==
  \/ c.start >= c.end
  \/ c.duration < 1000 \/ c.duration > 250000
  \/ c.end > AD8338_GAIN_MAX_DB

SetGainSweep ==
  /\ pc = "sweep"
  /\ IF Refused(call) THEN Return(-1)
     ELSE /\ \E codes \in CodeRanges(ad8338_gain_to_voltage(call.start)
                                      - ad8338_gain_to_voltage(call.end)) :
                choice' = calculate_sweep_parameters(call.duration, codes)
          /\ Goto("stop")
          /\ UNCHANGED <<call, result, before, open>>
  /\ UNCHANGED <<chip, faults>>

-----------------------------------------------------------------------------
(* The output *)

MaxVoltage == IF Flow THEN ad8338_gain_to_voltage(call.start) ELSE call.high
MinVoltage == IF Flow THEN ad8338_gain_to_voltage(call.end) ELSE call.low
FixedVoltage == IF Flow THEN ad8338_gain_to_voltage(call.start) ELSE call.voltage

\* FUNC-CONFIG: the inverse sawtooth, step and slew rate.
Function(number) == 512 + StepOf(number) * 16 + SlewOf(number)
FunctionAsked == IF Flow THEN Function(choice) ELSE 512 + call.step * 16 + call.slew

\* A set-up that fails: receive and transmit ignore it for a fixed gain (receive then
\* returns without a close), the program starts the waveform nevertheless.
SetupFails ==
  CASE FixedGain -> IF Transmit THEN Proceed("gate_off") ELSE Proceed("left")
    [] call.fn = "sawtooth" -> /\ Goto("start") /\ result' = -1
                               /\ UNCHANGED <<call, choice, before, open>>
    [] OTHER -> Return(-1)

Write(register, value, label) ==
  /\ \/ BusWorks /\ Set(register, value) /\ Proceed(label)
     \/ BusFails /\ UNCHANGED reg /\ SetupFails
  /\ UNCHANGED <<wave, ramp>>

StopWave == wave' \in (IF wave = "on" THEN {"last", "off"} ELSE {wave})
RampNow ==
  ramp' = IF ramp = NoRamp
          THEN [high |-> reg["high"], low |-> reg["low"], func |-> reg["func"]] ELSE ramp

\* Mutated Stop: a set-up goes on although the stop failed.
StopIgnored ==
  /\ pc = "stop"
  /\ \/ BusWorks /\ Set("trig", 0) /\ StopWave
     \/ BusFails /\ UNCHANGED <<reg, wave>>
  /\ IF call.fn = "stop" THEN Return(0)
     ELSE Proceed(IF FixedGain \/ call.fn = "fixed" THEN "data" ELSE "high")
  /\ UNCHANGED ramp

\* Mutated Stop: a fixed voltage is set without it.
StopForSawtooth ==
  /\ pc = "stop"
  /\ IF FixedGain \/ call.fn = "fixed"
     THEN Proceed("data") /\ UNCHANGED <<chip, faults>>
     ELSE /\ \/ /\ BusWorks /\ Set("trig", 0) /\ StopWave
                /\ IF call.fn = "stop" THEN Return(0) ELSE Proceed("high")
             \/ BusFails /\ UNCHANGED <<reg, wave>> /\ SetupFails
          /\ UNCHANGED ramp

\* dac63001_stop_waveform, and 100 ms.
Stop ==
  /\ pc = "stop"
  /\ \/ /\ BusWorks /\ Set("trig", 0) /\ StopWave
        /\ IF call.fn = "stop" THEN Return(0)
           ELSE Proceed(IF FixedGain \/ call.fn = "fixed" THEN "data" ELSE "high")
     \/ BusFails /\ UNCHANGED <<reg, wave>> /\ SetupFails
  /\ UNCHANGED ramp

\* The end of dac63001_set_fixed_voltage.
SetData ==
  /\ pc = "data"
  /\ Verified("data", voltage_to_dac_code(FixedVoltage),
              IF FixedGain THEN Proceed(IF Transmit THEN "gate_off" ELSE "left") ELSE Return(0),
              SetupFails)

\* dac63001_setup_sawtooth_wave
SetHigh == pc = "high" /\ Write("high", voltage_to_dac_code(MaxVoltage), "low")
SetLow == pc = "low" /\ Write("low", voltage_to_dac_code(MinVoltage), "func")
SetFunc ==
  /\ pc = "func"
  /\ Write("func", FunctionAsked, IF Transmit THEN "gate_on" ELSE "start")

-----------------------------------------------------------------------------
(* Started by the call: receive and the program *)

\* receive ignores the result and stops 5 ms later; the program returns -1 when the
\* set-up and the start have failed, 0 otherwise.
Start ==
  /\ pc = "start"
  /\ \/ /\ BusWorks /\ Set("trig", 1) /\ wave' = "on" /\ RampNow
        /\ IF Flow THEN Proceed("stop_again") ELSE Return(0)
     \/ /\ BusFails /\ UNCHANGED chip
        /\ IF Flow THEN Proceed("stop_again") ELSE Return(result)

StopAgain ==
  /\ pc = "stop_again"
  /\ \/ BusWorks /\ Set("trig", 0) /\ StopWave
     \/ BusFails /\ UNCHANGED <<reg, wave>>
  /\ Proceed("receiving")
  /\ UNCHANGED ramp

\* receive with a fixed gain returns with the bus open.
Left ==
  /\ pc = "left"
  /\ Goto("idle") /\ result' = 0
  /\ UNCHANGED <<call, choice, before, open, chip, faults>>

-----------------------------------------------------------------------------
(* Started by the end of the sweep: transmit *)

\* FPGA register writes, their results ignored.
Switch(register, value, label) ==
  /\ \/ BusWorks /\ Set(register, value)
     \/ BusFails /\ UNCHANGED reg
  /\ Proceed(label)
  /\ UNCHANGED <<wave, ramp>>

\* Mutated GateOff: with a fixed gain the gate stays as it is. Mutated SetTimer: ten times
\* the pulse.
GateKept == pc = "gate_off" /\ Proceed("armed") /\ UNCHANGED <<chip, faults>>
SetTimerLong == pc = "timer" /\ Switch("timer", 125000, "gate_check")

GateOff == pc = "gate_off" /\ Switch("gate", 0, "armed")
GateOn == pc = "gate_on" /\ Switch("gate", 1, "timer")
SetTimer == pc = "timer" /\ Switch("timer", 12500, "gate_check")

\* The read that fails ends the process.
GateCheck ==
  /\ pc = "gate_check"
  /\ \/ BusWorks /\ IF reg["gate"] = 1 THEN Proceed("gpio") ELSE Return(-1)
     \/ BusFails /\ Gone
  /\ UNCHANGED chip

\* GPIO-CONFIG: input mode, start and stop of the waveform on channel 0.
StartStopPin == 1 + 9 * 2 + 8 * 32
SetGpio == pc = "gpio" /\ Write("gpio", StartStopPin, "armed")

\* The end of a sweep of the DDS pulses the pin when the gate is open, and the pin
\* starts and stops the function when the DAC is set to it. The pulse is over before
\* the process goes on.
PinPulse ==
  /\ IF reg["gate"] = 1 /\ reg["gpio"] = StartStopPin
     THEN wave' \in {"last", "off"} /\ RampNow
     ELSE UNCHANGED <<wave, ramp>>
  /\ UNCHANGED reg

SweepEnds ==
  /\ pc = "armed"
  /\ PinPulse
  /\ Proceed("receiving")
  /\ UNCHANGED faults

WindowEnds ==
  /\ pc = "receiving"
  /\ Return(0)
  /\ UNCHANGED <<chip, faults>>

WaveEnds ==
  /\ wave = "last" /\ wave' = "off"
  /\ UNCHANGED <<pc, local, open, reg, ramp, faults>>

Next ==
  \/ \E c \in Calls : Begin(c)
  \/ Killed
  \/ SetupCommon \/ SetupVout \/ SetGainSweep
  \/ Stop \/ SetData \/ SetHigh \/ SetLow \/ SetFunc
  \/ Start \/ StopAgain \/ Left
  \/ GateOff \/ GateOn \/ SetTimer \/ GateCheck \/ SetGpio
  \/ SweepEnds \/ WindowEnds \/ WaveEnds

Spec == Init /\ [][Next]_vars

-----------------------------------------------------------------------------
Labels == {"idle", "common", "vout", "sweep", "stop", "data", "high", "low", "func",
           "start", "stop_again", "left", "gate_off", "gate_on", "timer", "gate_check",
           "gpio", "armed", "receiving"}

UpTo(top) == 0..top
Bits16 == UpTo(65535)

\* The type invariant; every register holds 16 bits.
TypeOK ==
  /\ pc \in Labels /\ call \in Calls \cup {NoCall}
  /\ choice \in Combinations /\ result \in {0, -1}
  /\ open \in BOOLEAN /\ wave \in {"off", "on", "last"}
  /\ reg \in [Registers -> Bits16]
  /\ ramp \in [high : Bits16, low : Bits16, func : Bits16]
  /\ faults \in 0..MaxFaults /\ before \in 0..faults

\* No transfer of this call failed; those of earlier calls may have.
Clean == faults = before

Gain(register) == ad8338_voltage_to_gain(Output(register))
WithinOne(gain, asked) == Distance(gain, asked) <= 1
RampPeriod ==
  Period(ramp.high, ramp.low, (ramp.func % 16) * 8 + ((ramp.func \div 16) % 8))

\* The gain that the samples are taken with is the one asked for, whatever earlier calls
\* set, failed at or left half done: a sweep begins and ends within 1 dB of its gains and
\* rises, a fixed gain, at most 80 dB, is within 1 dB and no ramp runs over it.
GainAsAsked ==
  pc = "receiving" /\ Clean =>
    IF GainSweep
    THEN /\ WithinOne(Gain(ramp.high), call.start) /\ WithinOne(Gain(ramp.low), call.end)
         /\ Output(ramp.high) > Output(ramp.low)
    ELSE /\ ramp = NoRamp /\ wave # "on"
         /\ WithinOne(Gain(reg["data"]), Clamp(call.start, 0, AD8338_GAIN_MAX_DB))

\* The ramp of a gain sweep over 12 dB and more takes the asked time within a quarter, so
\* it ends within the reception, which goes on for 50 ms more (sbeam.c:252). Narrower
\* sweeps have too few codes for the times the chip offers.
RampNearAsked ==
  pc = "receiving" /\ Clean /\ GainSweep /\ call.end - call.start >= 12 =>
    /\ 4 * Distance(RampPeriod, call.duration) <= call.duration
    /\ RampPeriod <= call.duration + 50000

\* The pin's pulse, in units of 40 ns, is over before the ramp that it starts, which
\* would begin again otherwise (dac63001.c:163), for every sweep that is not refused but
\* that from 79 to 80 dB: its 25 codes are fewer than the largest step, one step for the
\* search (dac63001.c:326), none in setup_sawtooth_wave's formula (dac63001.c:139).
OneRampPerPulse ==
  pc = "receiving" /\ Clean /\ GainSweep /\ Transmit /\ call.start # 79 =>
    reg["timer"] * 4 < RampPeriod * 100

\* A call that reports success leaves no function running, not even one that an earlier
\* program left on.
QuietReturn ==
  pc = "idle" /\ Clean /\ result = 0 /\ call.fn \notin {"none", "sawtooth"} => wave # "on"

\* While the function generator is on nobody changes the ramp under it: a set-up goes on
\* only when its stop has worked.
OutputSteady ==
  [][wave = "on" => UNCHANGED <<reg["high"], reg["low"], reg["func"]>>]_vars

\* A fixed voltage from 0 to 1.25 V (dac63001.h:77) comes out within one step of the DAC.
VoltageAsAsked ==
  pc = "idle" /\ Clean /\ result = 0 /\ call.fn = "fixed" =>
    Distance(Output(reg["data"]), call.voltage) <= 306
=============================================================================
