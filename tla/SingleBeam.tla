------------------------------ MODULE SingleBeam ------------------------------
(***************************************************************************)
(* core/sbeam.c over dev/fpga.c, dev/dac63001.c, dev/ad5932.c and          *)
(* protocol/i2c_hal.c: the transmit, receive and generate flows of one     *)
(* program, the sweep threads that generate leaves in the background, and  *)
(* the hardware they share: one I2C descriptor, the FPGA's registers, the  *)
(* DAC and the DDS.                                                        *)
(*                                                                         *)
(* A step is one operation on the hardware or on the listener; the sleeps  *)
(* between them are where other threads run. A bus operation fails when    *)
(* the descriptor is closed, and otherwise at most MaxFaults times. The    *)
(* listener is the one ListenerService promises, which NetListener         *)
(* implements. The UDP header registers are left out.                      *)
(***************************************************************************)
EXTENDS Integers

CONSTANTS
  Sweepers,   \* bound: sweep threads alive at once
  Calls,      \* what the program may call: [fn, mode]
  Overlap,    \* whether it makes a call, or ends, while a sweep thread runs
  MaxFaults   \* bound: operations that fail on an open device

Main == "main"
None == "none"
Threads == {Main} \cup Sweepers

\* mode "fixed" is start_gain = end_gain, "sweep" a legal gain sweep, "refused" one
\* that dac63001_set_gain_sweep rejects (gain order or range, duration).
AllCalls == [fn : {"generate", "receive", "transmit"},
             mode : {"fixed", "sweep", "refused"}]
NoCall == [fn |-> None, mode |-> None]

ASSUME CallsAssumption == Calls \subseteq AllCalls
ASSUME SweepersAssumption == Main \notin Sweepers /\ None \notin Sweepers
ASSUME FaultsAssumption == MaxFaults \in Nat /\ Overlap \in BOOLEAN

VARIABLES
  pc, call, result,
  i2c,       \* i2c_fd >= 0
  spi,       \* spi_fd is an open descriptor
  installed, stage, calling,  \* the listener: see ListenerService
  acq,       \* REG_ACQ_EN
  gate,      \* REG_DAC_CTRL_EN: the end of a sweep triggers the gain waveform
  dac,       \* what the DAC is set up for
  ctrl,      \* REG_DDS_CTRL
  standby,   \* REG_DDS_STB, up when a sweep has ended
  dds,       \* the AD5932: its state, who programmed the two halves of its
             \* registers and who started its sweep
  faults,
  crashed    \* history: a thread has ended the process

\* A request is the call that starts the listener; which of the two callbacks it brings
\* makes no difference to the flows.
Service == INSTANCE ListenerService WITH
  Requests <- AllCalls, Realtime <- AllCalls, Cached <- AllCalls, Nobody <- NoCall

listener == <<installed, stage, calling>>
fpga == <<acq, gate>>
sweep == <<ctrl, standby, dds>>
hardware == <<fpga, dac, sweep>>
vars == <<pc, call, result, i2c, spi, listener, hardware, faults, crashed>>

Registers(state, freq, timing, by) ==
  [state |-> state, freq |-> freq, timing |-> timing, by |-> by]
IdleDds == Registers("idle", None, None, None)

Init ==
  /\ pc = [t \in Threads |-> IF t = Main THEN "idle" ELSE None]
  /\ call = NoCall /\ result = 0
  /\ i2c = FALSE /\ spi = FALSE /\ Service!Init
  /\ acq = FALSE /\ gate = FALSE /\ dac = None
  /\ ctrl = FALSE /\ standby = FALSE /\ dds = IdleDds
  /\ faults = 0 /\ crashed = FALSE

At(t, label) == pc[t] = label
Goto(t, label) == pc' = [pc EXCEPT ![t] = label]
Return(value) == Goto(Main, "idle") /\ result' = value
Proceed(label) == Goto(Main, label) /\ UNCHANGED result
Calling(fn) == call.fn = fn

\* An operation on an open device goes wrong.
Fault == faults < MaxFaults /\ faults' = faults + 1
BusFails == Fault \/ (~i2c /\ UNCHANGED faults)
BusWorks == i2c /\ UNCHANGED faults
SpiFails == Fault \/ (~spi /\ UNCHANGED faults)
SpiWorks == spi /\ UNCHANGED faults

\* A register write whose result the caller ignores.
Write(written, kept) == (BusWorks /\ written) \/ (BusFails /\ kept)

\* The process and its threads are gone, the hardware stays as it is. The user runs
\* the program again.
ProcessEnds ==
  /\ pc' = [t \in Threads |-> IF t = Main THEN "idle" ELSE None]
  /\ i2c' = FALSE /\ spi' = FALSE
  /\ installed' = NoCall /\ stage' = "closed" /\ calling' = FALSE
  /\ call' = NoCall /\ result' = 0

\* exit(-1) in any thread.
Exit == ProcessEnds /\ crashed' = TRUE

-----------------------------------------------------------------------------
(* The program: its calls, a stop of the listener of its own, its end *)

MayGoOn == At(Main, "idle") /\ (Overlap \/ \A s \in Sweepers : At(s, None))

Begin(c) ==
  /\ MayGoOn
  /\ c.fn = "generate" => \E s \in Sweepers : At(s, None)
  /\ call' = c
  /\ Proceed("init")
  /\ UNCHANGED <<i2c, spi, listener, hardware, faults, crashed>>

StopListener ==
  /\ MayGoOn
  /\ stage = "open" /\ Proceed("stop")
  /\ UNCHANGED <<call, i2c, spi, listener, hardware, faults, crashed>>

Quit == MayGoOn /\ ProcessEnds /\ UNCHANGED <<hardware, faults, crashed>>

-----------------------------------------------------------------------------
(* i2c_hal_init under fpga_init, the reset and the switches of the FPGA *)

\* Opens the bus unless it is open; a failure is ignored.
OpenBus == (i2c' = TRUE /\ UNCHANGED faults) \/ (~i2c /\ Fault /\ UNCHANGED i2c)

\* Mutated FpgaInit: trusts that an earlier call left the bus open.
FpgaInitSkipped ==
  /\ At(Main, "init")
  /\ Proceed(CASE Calling("generate") -> "acq_off"
               [] Calling("receive")  -> "soft_reset"
               [] Calling("transmit") -> "spi_init")
  /\ UNCHANGED <<call, i2c, spi, listener, hardware, faults, crashed>>

FpgaInit ==
  /\ At(Main, "init")
  /\ OpenBus
  /\ Proceed(CASE Calling("generate") -> "acq_off"
               [] Calling("receive")  -> "soft_reset"
               [] Calling("transmit") -> "spi_init")
  /\ UNCHANGED <<call, spi, listener, hardware, crashed>>

\* fpga_trigger_soft_reset: the registers keep what they hold, nobody releases it.
SoftReset ==
  /\ At(Main, "soft_reset")
  /\ \/ BusWorks /\ Proceed("acq_on") /\ UNCHANGED <<call, i2c, spi, listener, crashed>>
     \/ BusFails /\ Exit
  /\ UNCHANGED hardware

SetAcq(on) ==
  /\ Write(acq' = on, UNCHANGED acq)
  /\ UNCHANGED <<call, i2c, spi, listener, gate, dac, sweep, crashed>>

AcqOn ==
  /\ At(Main, "acq_on")
  /\ SetAcq(TRUE)
  /\ Proceed(IF Calling("receive") THEN "listen" ELSE "ctrl_low")

\* Mutated AcqOff: a generate leaves acquisition as it is.
AcqOffAfterSweep ==
  /\ At(Main, "acq_off")
  /\ IF Calling("generate")
     THEN /\ Proceed("gate_off")
          /\ UNCHANGED <<call, i2c, spi, listener, hardware, faults, crashed>>
     ELSE SetAcq(FALSE) /\ Proceed("unlisten")

\* Mutated AcqOff: only generate turns acquisition off.
AcqOffOfGenerate ==
  /\ At(Main, "acq_off")
  /\ IF Calling("generate") THEN SetAcq(FALSE) /\ Proceed("gate_off")
     ELSE /\ Proceed("unlisten")
          /\ UNCHANGED <<call, i2c, spi, listener, hardware, faults, crashed>>

AcqOff ==
  /\ At(Main, "acq_off")
  /\ SetAcq(FALSE)
  /\ Proceed(IF Calling("generate") THEN "gate_off" ELSE "unlisten")

-----------------------------------------------------------------------------
(* Gain: dac63001.c and the FPGA's trigger *)

\* dac63001_init and dac63001_setup_external_ref.
DacSetup ==
  /\ At(Main, "dac")
  /\ \/ i2c' = TRUE /\ UNCHANGED faults /\ Proceed("gain")
     \/ Fault /\ i2c' = FALSE /\ Return(-1)
  /\ UNCHANGED <<call, spi, listener, hardware, crashed>>

\* dac63001_set_fixed_voltage, its result ignored; receive returns here.
GainFixed ==
  /\ At(Main, "gain") /\ call.mode = "fixed"
  /\ Write(dac' = "fixed", dac' \in {dac, "fixed"})
  /\ IF Calling("receive") THEN Return(0) ELSE Proceed("gate_off")
  /\ UNCHANGED <<call, i2c, spi, listener, fpga, sweep, crashed>>

\* dac63001_set_gain_sweep; receive then starts and stops the waveform itself.
GainSweep ==
  /\ At(Main, "gain") /\ call.mode # "fixed"
  /\ \/ /\ call.mode = "sweep" /\ BusWorks
        /\ dac' = "sawtooth" /\ UNCHANGED i2c
        /\ Proceed(IF Calling("receive") THEN "acq_off" ELSE "gate_on")
     \/ /\ \/ call.mode = "refused" /\ UNCHANGED faults
           \/ BusFails
        /\ i2c' = FALSE /\ UNCHANGED dac
        /\ Return(-1)
  /\ UNCHANGED <<call, spi, listener, fpga, sweep, crashed>>

SetGate(on) ==
  /\ Write(gate' = on, UNCHANGED gate)
  /\ UNCHANGED <<call, i2c, spi, listener, acq, dac, sweep, crashed>>

\* Mutated GateOff: leaves the trigger as it is.
GateKept ==
  /\ At(Main, "gate_off")
  /\ Proceed(IF Calling("generate") THEN "spawn" ELSE "listen")
  /\ UNCHANGED <<call, i2c, spi, listener, hardware, faults, crashed>>

GateOff ==
  /\ At(Main, "gate_off")
  /\ SetGate(FALSE)
  /\ Proceed(IF Calling("generate") THEN "spawn" ELSE "listen")

\* dac63001_enable_gpio_start_stop_trigger: switch on, read back, configure the DAC.
GateOn == At(Main, "gate_on") /\ SetGate(TRUE) /\ Proceed("gate_check")

GateCheck ==
  /\ At(Main, "gate_check")
  /\ \/ BusWorks /\ gate /\ Proceed("trigger") /\ UNCHANGED <<call, i2c, spi, listener, crashed>>
     \/ BusWorks /\ ~gate /\ Return(-1) /\ i2c' = FALSE
        /\ UNCHANGED <<call, spi, listener, crashed>>
     \/ BusFails /\ Exit
  /\ UNCHANGED hardware

Trigger ==
  /\ At(Main, "trigger")
  /\ \/ BusWorks /\ Proceed("listen") /\ UNCHANGED i2c
     \/ BusFails /\ Return(-1) /\ i2c' = FALSE
  /\ UNCHANGED <<call, spi, listener, hardware, crashed>>

-----------------------------------------------------------------------------
(* The listener: a start while it runs changes nothing and returns 0 *)

Listen ==
  /\ At(Main, "listen")
  /\ \/ /\ Service!Install(call) \/ (stage = "open" /\ UNCHANGED listener)
        /\ Proceed(IF Calling("receive") THEN "dac" ELSE "acq_on")
        /\ UNCHANGED <<i2c, faults>>
     \/ /\ stage = "closed" /\ Fault
        /\ i2c' = (i2c /\ Calling("receive"))
        /\ Return(-1)
        /\ UNCHANGED listener
  /\ UNCHANGED <<call, spi, hardware, crashed>>

\* Mutated Stop: the listener is stopped only after a gain sweep.
StopAfterSweep(from, to) ==
  /\ At(Main, from) /\ Proceed(to)
  /\ IF call.mode = "sweep"
     THEN installed' = NoCall /\ stage' = "closed" /\ calling' = FALSE
     ELSE UNCHANGED listener
  /\ UNCHANGED <<call, i2c, spi, hardware, faults, crashed>>

\* sbeam_stop_listener_with_cache: from the join of the listener's thread on, the cache
\* callback between. Nothing when no session is open.
Stop(from, to) ==
  /\ At(Main, from)
  /\ \/ /\ \/ Service!Deliver \/ Service!Delivered
           \/ Service!CloseQuietly \/ Service!Remove
        /\ UNCHANGED <<pc, result>>
     \/ stage = "closed" /\ Proceed(to) /\ UNCHANGED listener
  /\ UNCHANGED <<call, i2c, spi, hardware, faults, crashed>>

\* The listener's thread, while a session is open.
PacketCallback ==
  /\ Service!PacketCall \/ Service!PacketReturn
  /\ UNCHANGED <<pc, call, result, i2c, spi, hardware, faults, crashed>>

Close ==
  /\ At(Main, "close")
  /\ i2c' = FALSE
  /\ Return(0)
  /\ UNCHANGED <<call, spi, listener, hardware, faults, crashed>>

\* pthread_create of a sweep thread, which nobody joins. A failure is ignored and the
\* thread identifier is detached uninitialized, which may end the process.
Spawn ==
  /\ At(Main, "spawn")
  /\ \/ /\ \E s \in Sweepers :
              /\ At(s, None)
              /\ pc' = [pc EXCEPT ![Main] = "idle", ![s] = "spi_init"]
        /\ result' = 0
        /\ UNCHANGED <<call, i2c, spi, listener, faults, crashed>>
     \/ Fault /\ Return(0) /\ UNCHANGED <<call, i2c, spi, listener, crashed>>
     \/ Fault /\ Exit
  /\ UNCHANGED hardware

-----------------------------------------------------------------------------
(* The DDS, driven by transmit and by the sweep threads alike *)

Frame == UNCHANGED <<call, result, i2c, listener, fpga, dac, crashed>>

\* ad5932_init: opens the device anew and ignores a failure, which loses the
\* descriptor of an earlier call.
SpiInit(t) ==
  /\ At(t, "spi_init")
  /\ (spi' = TRUE /\ UNCHANGED faults) \/ (spi' = FALSE /\ Fault)
  /\ Goto(t, "dds_reset")
  /\ Frame /\ UNCHANGED sweep

\* ad5932_reset over SPI. The source does not say whether a reset lowers the pin
\* that REG_DDS_STB shows.
Reset(t, from, to) ==
  /\ At(t, from)
  /\ \/ SpiWorks /\ dds' = IdleDds /\ (standby' = FALSE \/ UNCHANGED standby)
     \/ SpiFails /\ UNCHANGED <<dds, standby>>
  /\ Goto(t, to)
  /\ Frame /\ UNCHANGED <<spi, ctrl>>

\* The start, step and number of frequencies; then interval and waveform.
Program(t, half, from, to) ==
  /\ At(t, from)
  /\ \/ /\ SpiWorks
        /\ dds' = IF half = "freq" THEN Registers(dds.state, t, dds.timing, dds.by)
                  ELSE Registers(IF dds.state = "idle" THEN "ready" ELSE dds.state,
                                 dds.freq, t, dds.by)
     \/ SpiFails /\ UNCHANGED dds
  /\ Goto(t, to)
  /\ Frame /\ UNCHANGED <<spi, ctrl, standby>>

\* Mutated CtrlLow: the pulse is not cleared first.
CtrlStaysHigh(t) ==
  /\ At(t, "ctrl_low")
  /\ Goto(t, "ctrl_high")
  /\ Frame /\ UNCHANGED <<spi, sweep, faults>>

\* ad5932_start_sweep: CTRL low, 10 ms, CTRL high; the edge starts a programmed sweep.
\* fpga.h:29 says that the register goes back to 0 by itself after a 1; the code, which
\* writes the 0 itself, does not rely on it, and neither does the model: it may stay high.
CtrlLow(t) ==
  /\ At(t, "ctrl_low")
  /\ Write(ctrl' = FALSE, UNCHANGED ctrl)
  /\ Goto(t, "ctrl_high")
  /\ Frame /\ UNCHANGED <<spi, standby, dds>>

CtrlHigh(t) ==
  /\ At(t, "ctrl_high")
  /\ \/ /\ BusWorks
        /\ ctrl' \in BOOLEAN
        /\ dds' = IF ctrl \/ dds.state = "idle" THEN dds
                  ELSE Registers("running", dds.freq, dds.timing, t)
     \/ BusFails /\ UNCHANGED <<ctrl, dds>>
  /\ Goto(t, "poll")
  /\ Frame /\ UNCHANGED <<spi, standby>>

\* while (!ad5932_is_sweep_done()): a read that fails ends the process, one that finds
\* the pin low is followed by another.
Poll(t) ==
  /\ At(t, "poll")
  /\ \/ /\ BusWorks /\ standby
        /\ Goto(t, IF t = Main THEN "acq_off" ELSE "reset")
        /\ UNCHANGED <<call, result, i2c, spi, listener, crashed>>
     \/ /\ BusWorks /\ ~standby
        /\ UNCHANGED <<pc, call, result, i2c, spi, listener, crashed>>
     \/ BusFails /\ Exit
  /\ UNCHANGED hardware

\* Mutated LowerStandby: set_standby(true), and a sweep thread that ends like transmit.
RaiseStandby(t) ==
  /\ At(t, "standby")
  /\ Write(standby' = TRUE, UNCHANGED standby)
  /\ Goto(t, IF t = Main THEN "close" ELSE None)
  /\ Frame /\ UNCHANGED <<spi, ctrl, dds>>
LowerThenClose(t) ==
  /\ At(t, "standby")
  /\ Write(standby' = FALSE, UNCHANGED standby)
  /\ Goto(t, "close")
  /\ Frame /\ UNCHANGED <<spi, ctrl, dds>>

LowerStandby(t) ==
  /\ At(t, "standby")
  /\ Write(standby' = FALSE, UNCHANGED standby)
  /\ Goto(t, IF t = Main THEN "close" ELSE None)
  /\ Frame /\ UNCHANGED <<spi, ctrl, dds>>

Dds(t) ==
  \/ SpiInit(t)
  \/ Reset(t, "dds_reset", "dds_freq")
  \/ Program(t, "freq", "dds_freq", "dds_timing")
  \/ Program(t, "timing", "dds_timing", IF t = Main THEN "dac" ELSE "ctrl_low")
  \/ CtrlLow(t) \/ CtrlHigh(t) \/ Poll(t)
  \/ Reset(t, "reset", "standby")
  \/ LowerStandby(t)

\* The hardware: a running sweep ends and raises the pin.
SweepEnds ==
  /\ dds.state = "running"
  /\ dds' = Registers("done", dds.freq, dds.timing, dds.by)
  /\ standby' = TRUE
  /\ UNCHANGED <<pc, call, result, i2c, spi, listener, fpga, dac, ctrl, faults, crashed>>

-----------------------------------------------------------------------------
Flow ==
  \/ FpgaInit \/ SoftReset \/ AcqOn \/ AcqOff
  \/ DacSetup \/ GainFixed \/ GainSweep \/ GateOff \/ GateOn \/ GateCheck \/ Trigger
  \/ Listen \/ Stop("unlisten", "reset") \/ Stop("stop", "idle") \/ Close \/ Spawn

Next ==
  \/ \E c \in Calls : Begin(c)
  \/ StopListener \/ Quit
  \/ Flow
  \/ \E t \in Threads : Dds(t)
  \/ PacketCallback
  \/ SweepEnds

Spec == Init /\ [][Next]_vars

\* Threads run and a sweep of the DDS is finite; nothing has to fail, and reading a low
\* pin again and again is not progress. A stop waits for the packet callback that runs
\* and for no other (StopReturns of NetListener).
FairSpec ==
  /\ Spec
  /\ SF_vars(Flow /\ UNCHANGED faults) /\ WF_vars(SweepEnds)
  /\ WF_vars(PacketCallback /\ calling)
  /\ \A t \in Threads : WF_vars(Dds(t) /\ UNCHANGED faults)

-----------------------------------------------------------------------------
MainLabels == {"idle", "init", "soft_reset", "acq_on", "acq_off", "dac", "gain",
               "gate_off", "gate_on", "gate_check", "trigger", "listen", "unlisten", "stop",
               "close", "spawn", "spi_init", "dds_reset", "dds_freq", "dds_timing", "ctrl_low",
               "ctrl_high", "poll", "reset", "standby"}
SweeperLabels == {None, "spi_init", "dds_reset", "dds_freq", "dds_timing", "ctrl_low",
                  "ctrl_high", "poll", "reset", "standby"}

\* The type invariant; a sweep thread never reaches a step of the calls.
TypeOK ==
  /\ pc \in [Threads -> MainLabels \cup SweeperLabels]
  /\ pc[Main] \in MainLabels /\ \A s \in Sweepers : pc[s] \in SweeperLabels
  /\ call \in AllCalls \cup {NoCall} /\ result \in {0, -1}
  /\ installed \in AllCalls \cup {NoCall} /\ calling \in BOOLEAN
  /\ stage \in {"open", "delivering", "over", "closed"}
  /\ installed = NoCall <=> stage = "closed"
  /\ i2c \in BOOLEAN /\ spi \in BOOLEAN /\ acq \in BOOLEAN /\ gate \in BOOLEAN
  /\ ctrl \in BOOLEAN /\ standby \in BOOLEAN /\ crashed \in BOOLEAN
  /\ dac \in {None, "fixed", "sawtooth"}
  /\ dds \in [state : {"idle", "ready", "running", "done"},
              freq : Threads \cup {None}, timing : Threads \cup {None},
              by : Threads \cup {None}]
  /\ faults \in 0..MaxFaults

Sweeping(t) == dds.state = "running" /\ dds.by = t
Transmitting == call.fn = "transmit"

\* The listener, acquisition, the gain the call asked for, the trigger that the end of the
\* sweep pulls (on in sweep mode only), its frequencies and timing.
ReadyToSweep ==
  /\ Transmitting /\ stage = "open" /\ acq
  /\ gate <=> (call.mode = "sweep")
  /\ dac = (IF call.mode = "sweep" THEN "sawtooth" ELSE "fixed")
  /\ dds.freq = Main /\ dds.timing = Main

\* When transmit's own sweep runs, everything that has to be in place before the
\* signal is sent is: sbeam.h:91 promises it so that no packet is missed.
ReadyBeforeSweep == Sweeping(Main) /\ faults = 0 => ReadyToSweep

\* transmit leaves its poll because the sweep it programmed and started has ended, not
\* because of another thread's sweep or of a pin left high by an earlier one.
OwnSweep ==
  At(Main, "acq_off") /\ Transmitting /\ faults = 0 =>
    dds = Registers("done", Main, Main, Main)

\* A transmit that has returned holds nothing: not the bus on any exit, not the
\* listener after a success; and without failures the hardware is quiet again.
ReturnReleases ==
  At(Main, "idle") /\ Transmitting =>
    /\ ~i2c
    /\ result = 0 => stage = "closed" /\ ~calling
    /\ result = 0 /\ faults = 0 => ~acq /\ ~standby /\ dds = IdleDds

\* A program started after a failed operation has ended an earlier one (fpga.c:269) finds
\* acquisition, trigger, CTRL and perhaps a running sweep as that one left them. Its
\* transmits, in which nothing fails, are as ready when they send and leave the hardware
\* as quiet as those of a program that found it so.
CrashIsOvercome ==
  crashed /\ faults = 1 /\ Transmitting =>
    /\ At(Main, "poll") /\ Sweeping(Main) => ReadyToSweep
    /\ At(Main, "idle") /\ result = 0 => ~acq /\ ~standby /\ dds = IdleDds

\* The signal that generate leaves running triggers no gain waveform when it ends and
\* runs with acquisition off (sbeam.c:59 and 60).
BackgroundSweepIsPlain ==
  \A s \in Sweepers : Sweeping(s) /\ faults = 0 => ~gate /\ ~acq

\* The cache callback of a call gets its packets after the last of them: acquisition is
\* off and no sweep runs (sbeam.c:139 and 253, sbeam.c:143 and 257).
DeliveredAfterAcquisition ==
  stage = "delivering" /\ At(Main, "unlisten") /\ faults = 0 =>
    ~acq /\ dds.state # "running"

\* No thread ends the process when every device operation works.
NoUnforcedExit == crashed => faults > 0

\* The callbacks of a transmit are installed when its signal is sent (sbeam.h:91).
OwnCallbacks == Sweeping(Main) => installed = call

\* Every call returns, and every sweep thread that generate left behind ends: the end of
\* the sweep is announced to the thread that waits for it and to nobody too late.
ThreadsFinish ==
  \A t \in Threads : pc[t] \notin {"idle", None} ~> pc[t] \in {"idle", None}

\* The same as long as every device operation works.
ThreadsFinishUnlessFault == <>(faults > 0) \/ ThreadsFinish
=============================================================================
