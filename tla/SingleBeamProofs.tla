--------------------------- MODULE SingleBeamProofs ---------------------------
(***************************************************************************)
(* Proofs about SingleBeam: type correctness of every program, and the     *)
(* order that its flows keep for the programs that wait for the sweep      *)
(* thread of a generate before they go on (Overlap = FALSE), whatever they *)
(* call and in which order, for any number of sweep threads and of         *)
(* operations that fail.                                                   *)
(***************************************************************************)
EXTENDS SingleBeam, TLAPS

-----------------------------------------------------------------------------
(* The inductive invariant *)

Labels == MainLabels \cup SweeperLabels

\* TypeOK, in four parts.
Places ==
  /\ pc \in [Threads -> Labels]
  /\ pc[Main] \in MainLabels
  /\ \A s \in Sweepers : pc[s] \in SweeperLabels

Requested ==
  /\ call \in AllCalls \cup {NoCall} /\ result \in {0, -1}
  /\ installed \in AllCalls \cup {NoCall}
  /\ stage \in {"open", "delivering", "over", "closed"}
  /\ installed = NoCall <=> stage = "closed"

DdsStates == [state : {"idle", "ready", "running", "done"}, freq : Threads \cup {None},
              timing : Threads \cup {None}, by : Threads \cup {None}]

Devices ==
  /\ dac \in {None, "fixed", "sawtooth"}
  /\ dds \in DdsStates
  /\ faults \in 0..MaxFaults

Booleans ==
  /\ i2c \in BOOLEAN /\ spi \in BOOLEAN /\ acq \in BOOLEAN /\ gate \in BOOLEAN
  /\ ctrl \in BOOLEAN /\ standby \in BOOLEAN /\ crashed \in BOOLEAN
  /\ calling \in BOOLEAN

\* One thread at a time, a sweep thread only after a generate.
Alone ==
  /\ pc[Main] # "idle" \/ call.fn # "generate" => \A s \in Sweepers : pc[s] = None
  /\ \A s, r \in Sweepers : pc[s] # None /\ pc[r] # None => s = r

Programs == {"spi_init", "dds_reset", "dds_freq", "dds_timing"}
Sends == {"ctrl_low", "ctrl_high", "poll"}
Ends == {"reset", "standby", "close"}
GateLabels == {"gate_on", "gate_check", "trigger"}

\* Which call takes which step.
CallFits ==
  /\ pc[Main] \notin {"idle", "stop"} => call \in AllCalls
  /\ pc[Main] \in Programs \cup Sends \cup GateLabels => call.fn = "transmit"
  /\ pc[Main] \in GateLabels => call.mode = "sweep"
  /\ pc[Main] = "soft_reset" => call.fn = "receive"
  /\ pc[Main] = "spawn" => call.fn = "generate"
  /\ pc[Main] \in {"dac", "gain", "listen", "acq_on", "unlisten"} \cup Ends =>
       call.fn \in {"transmit", "receive"}
  /\ pc[Main] = "gate_off" => call.fn = "generate" \/ call.fn = "transmit"
  /\ call.fn = "transmit" =>
       /\ pc[Main] = "gate_off" => call.mode = "fixed"
       /\ pc[Main] \in {"listen", "acq_on"} \cup Sends => call.mode # "refused"

\* The session of the listener and what a transmit leaves behind.
Session ==
  /\ calling = TRUE => stage = "open"
  /\ pc[Main] \in Ends => stage = "closed"
  /\ pc[Main] \in {"idle", "stop"} /\ call.fn = "transmit" =>
       /\ i2c = FALSE
       /\ result = 0 => stage = "closed"

Rest == standby = FALSE /\ dds.state \in {"idle", "ready"}
Ready(t) == /\ spi = TRUE /\ standby = FALSE
            /\ dds = Registers("ready", t, t, None)
Done(t) == /\ spi = TRUE
           /\ dds = Registers("done", t, t, t)
Sweeps(t) == /\ spi = TRUE /\ standby = FALSE
             /\ dds = Registers("running", t, t, t)

\* The DDS as the thread that drives it knows it.
Drives(t) ==
  /\ pc[t] = "spi_init" => Rest
  /\ pc[t] = "dds_reset" => spi = TRUE /\ Rest
  /\ pc[t] = "dds_freq" => spi = TRUE /\ standby = FALSE /\ dds = IdleDds
  /\ pc[t] = "dds_timing" => /\ spi = TRUE /\ standby = FALSE
                             /\ dds = Registers("idle", t, None, None)
  /\ pc[t] = "ctrl_low" => Ready(t)
  /\ pc[t] = "ctrl_high" => Ready(t) /\ ctrl = FALSE
  /\ pc[t] = "poll" => Sweeps(t) \/ (Done(t) /\ standby = TRUE)

DrivesSweeper(s) ==
  /\ Drives(s)
  /\ pc[s] = "reset" => Done(s)
  /\ pc[s] = "standby" => dds = IdleDds
  /\ pc[s] # None => i2c = TRUE /\ acq = FALSE /\ gate = FALSE

Configured ==
  /\ dac = (IF call.mode = "sweep" THEN "sawtooth" ELSE "fixed")
  /\ gate = TRUE <=> call.mode = "sweep"

Setting == {"dac", "gain", "gate_off", "listen", "acq_on"} \cup GateLabels

\* While no operation has failed.
Smooth ==
  /\ crashed = FALSE
  /\ pc[Main] \notin {"idle", "stop", "init"} => i2c = TRUE
  /\ Drives(Main)
  /\ \A s \in Sweepers : DrivesSweeper(s)
  /\ pc[Main] \in {"idle", "stop"} /\ (\A s \in Sweepers : pc[s] = None) => Rest
  /\ pc[Main] \in {"init", "soft_reset", "spawn"} => Rest
  /\ pc[Main] \in Setting \cup {"acq_off", "unlisten"} \cup Ends /\ call.fn # "transmit" => Rest
  /\ pc[Main] \in {"gate_off", "spawn"} /\ call.fn = "generate" => acq = FALSE
  /\ pc[Main] = "spawn" => gate = FALSE
  /\ pc[Main] \in {"unlisten"} \cup Ends => acq = FALSE
  /\ call.fn = "transmit" =>
       /\ pc[Main] \in Setting => Ready(Main)
       /\ pc[Main] \in {"acq_off", "unlisten", "reset"} => Done(Main)
       /\ pc[Main] \in {"standby", "close"} => dds = IdleDds
       /\ pc[Main] = "close" => standby = FALSE
       /\ pc[Main] \in {"idle", "stop"} /\ result = 0 => acq = FALSE /\ dds = IdleDds
       /\ pc[Main] = "gate_off" => dac = "fixed"
       /\ pc[Main] \in GateLabels => dac = "sawtooth"
       /\ pc[Main] \in {"gate_check", "trigger"} => gate = TRUE
       /\ pc[Main] \in {"listen", "acq_on"} \cup Sends => Configured
       /\ pc[Main] \in {"acq_on"} \cup Sends => stage = "open"
       /\ pc[Main] \in Sends => acq = TRUE

\* The part about calls and their outcome.
Books == Requested /\ Devices /\ CallFits /\ Session

\* The program waits for a sweep thread before its next call.
Waits == Overlap = FALSE

\* The part about where the threads are.
Positions == Places /\ (Waits => Alone)

Inv == Positions /\ Booleans /\ Books /\ (Waits /\ faults = 0 => Smooth)

-----------------------------------------------------------------------------
(* Where the threads go *)

\* The program's thread is none of the sweep threads.
LEMMA TwoKinds ==
  /\ Main \in Threads /\ Sweepers \subseteq Threads /\ Main \notin Sweepers
  /\ None \notin Sweepers
BY SweepersAssumption DEF Threads

\* A step moves the thread that takes it and no other; an exit ends them all.
LEMMA Moves ==
  ASSUME Places
  PROVE  /\ \A l : Goto(Main, l) => pc'[Main] = l /\ \A s \in Sweepers : pc'[s] = pc[s]
         /\ \A s \in Sweepers : \A l : Goto(s, l) =>
              /\ pc'[s] = l /\ pc'[Main] = pc[Main]
              /\ \A r \in Sweepers : r # s => pc'[r] = pc[r]
         /\ ProcessEnds => pc'[Main] = "idle" /\ \A s \in Sweepers : pc'[s] = None
         /\ Main \in Threads
BY SMT, TwoKinds DEF Places, Goto, ProcessEnds, Threads

\* The two threads that a spawn moves.
LEMMA Spawned ==
  ASSUME Places, NEW s \in Sweepers, pc' = [pc EXCEPT ![Main] = "idle", ![s] = "spi_init"]
  PROVE  /\ Places' /\ pc'[Main] = "idle" /\ pc'[s] = "spi_init"
         /\ \A r \in Sweepers : r # s => pc'[r] = pc[r]
BY SMT, TwoKinds DEF Places, Labels, MainLabels, SweeperLabels

\* The labels of a thread of each kind are its own.
LEMMA Placed ==
  ASSUME Places
  PROVE  /\ \A l \in MainLabels : Goto(Main, l) => Places'
         /\ \A s \in Sweepers : \A l \in SweeperLabels : Goto(s, l) => Places'
         /\ ProcessEnds => Places'
         /\ UNCHANGED pc => Places'
<1>1. MainLabels \subseteq Labels /\ SweeperLabels \subseteq Labels
  BY DEF Labels
<1>2. ASSUME NEW l \in MainLabels, Goto(Main, l) PROVE Places'
  BY SMT, <1>1, <1>2, TwoKinds DEF Places, Goto
<1>3. ASSUME NEW s \in Sweepers, NEW l \in SweeperLabels, Goto(s, l) PROVE Places'
  BY SMT, <1>1, <1>3, TwoKinds DEF Places, Goto
<1>4. ASSUME ProcessEnds PROVE Places'
  BY SMT, <1>4, TwoKinds DEF Places, ProcessEnds, Labels, MainLabels, SweeperLabels
<1>5. ASSUME UNCHANGED pc PROVE Places'
  BY <1>5 DEF Places
<1> QED
  BY <1>2, <1>3, <1>4, <1>5

-----------------------------------------------------------------------------
(* Every step keeps it *)

\* Zenon reads Boolean variables better than SMT does.
LEMMA BooleansStep ==
  ASSUME Booleans, [Next]_vars
  PROVE  Booleans'
<1> USE DEF Booleans, Fault, BusFails, BusWorks, SpiFails, SpiWorks,
            Write, ProcessEnds, Exit, Frame, hardware, fpga, sweep, Return, Proceed,
            listener, Service!Install, Service!Deliver, Service!Delivered,
            Service!CloseQuietly, Service!Remove
<1>1. ASSUME NEW c \in Calls, Begin(c) PROVE Booleans'
  BY Zenon, <1>1 DEF Begin
<1>2. CASE StopListener \/ Quit
  BY Zenon, <1>2 DEF StopListener, Quit
<1>3. CASE Flow
  BY ZenonT(60), <1>3 DEF Flow, FpgaInit, OpenBus, SoftReset, AcqOn, AcqOff, SetAcq, DacSetup,
     GainFixed, GainSweep, GateOff, GateOn, SetGate, GateCheck, Trigger, Listen, Stop, Close,
     Spawn
<1>4. ASSUME NEW t \in Threads, Dds(t) PROVE Booleans'
  BY ZenonT(60), <1>4 DEF Dds, SpiInit, Reset, Program, CtrlLow, CtrlHigh, Poll, LowerStandby
<1>5. CASE PacketCallback
  BY Zenon, <1>5 DEF PacketCallback, Service!PacketCall, Service!PacketReturn
<1>6. CASE SweepEnds
  BY Zenon, <1>6 DEF SweepEnds
<1>7. CASE UNCHANGED vars
  BY Zenon, <1>7 DEF vars
<1> QED
  BY <1>1, <1>2, <1>3, <1>4, <1>5, <1>6, <1>7 DEF Next

\* Every step keeps the labels of the threads and, if the program waits, one at work.
LEMMA PositionsStep ==
  ASSUME Positions, CallFits, [Next]_vars
  PROVE  Positions'
<1> USE Placed, Moves
        DEF Positions, Waits, Alone, CallFits, AllCalls, NoCall, Calling, MayGoOn, Threads, At,
            Return, Proceed, Exit, Frame, None, Main, MainLabels, SweeperLabels
<1>1. ASSUME NEW c \in Calls, Begin(c) PROVE Positions'
  BY SMT, <1>1 DEF Begin
<1>2. CASE StopListener
  BY SMT, <1>2 DEF StopListener
<1>3. CASE Quit
  BY SMT, <1>3 DEF Quit
<1>4. CASE FpgaInit
  BY SMT, <1>4 DEF FpgaInit, OpenBus
<1>5. CASE SoftReset
  BY SMT, <1>5 DEF SoftReset
<1>6. CASE AcqOn
  BY SMT, <1>6 DEF AcqOn, SetAcq
<1>7. CASE AcqOff
  BY SMT, <1>7 DEF AcqOff, SetAcq
<1>8. CASE DacSetup
  BY SMT, <1>8 DEF DacSetup
<1>9. CASE GainFixed
  BY SMT, <1>9 DEF GainFixed
<1>10. CASE GainSweep
  BY SMT, <1>10 DEF GainSweep
<1>11. CASE GateOff
  BY SMT, <1>11 DEF GateOff, SetGate
<1>12. CASE GateOn
  BY SMT, <1>12 DEF GateOn, SetGate
<1>13. CASE GateCheck
  BY SMT, <1>13 DEF GateCheck
<1>14. CASE Trigger
  BY SMT, <1>14 DEF Trigger
<1>15. CASE Listen
  BY SMT, <1>15 DEF Listen
<1>16. CASE Stop("unlisten", "reset")
  BY SMT, <1>16 DEF Stop
<1>17. CASE Stop("stop", "idle")
  BY SMT, <1>17 DEF Stop
<1>18. CASE Close
  BY SMT, <1>18 DEF Close
<1>19. CASE Spawn
  <2>1. CASE \E s \in Sweepers : pc' = [pc EXCEPT ![Main] = "idle", ![s] = "spi_init"]
    <3>1. PICK s \in Sweepers : pc' = [pc EXCEPT ![Main] = "idle", ![s] = "spi_init"]
      BY <2>1
    <3>2. /\ Places' /\ pc'[Main] = "idle" /\ pc'[s] = "spi_init"
          /\ \A r \in Sweepers : r # s => pc'[r] = pc[r]
      BY <3>1, Spawned DEF Positions
    <3>3. call.fn = "generate" /\ pc[Main] = "spawn"
      BY <1>19 DEF Spawn
    <3>4. call' = call
      <4>1. ~ProcessEnds
        BY <3>2 DEF Positions
      <4> QED
        BY <1>19, <4>1 DEF Spawn
    <3>5. Waits => \A r \in Sweepers : pc[r] = None
      BY <3>3
    <3> HIDE DEF Places
    <3> QED
      BY SMT, <3>2, <3>3, <3>4, <3>5
  <2>2. CASE Return(0) \/ Exit
    BY SMT, <1>19, <2>2 DEF Spawn
  <2> QED
    BY <1>19, <2>1, <2>2 DEF Spawn
<1>20. ASSUME NEW t \in Threads, SpiInit(t) PROVE Positions'
  BY SMT, <1>20 DEF SpiInit
<1>21. ASSUME NEW t \in Threads, Reset(t, "dds_reset", "dds_freq") PROVE Positions'
  BY SMT, <1>21 DEF Reset
<1>22. ASSUME NEW t \in Threads, Program(t, "freq", "dds_freq", "dds_timing") PROVE Positions'
  BY SMT, <1>22 DEF Program
<1>23. ASSUME NEW t \in Threads, Program(t, "timing", "dds_timing",
                                    IF t = Main THEN "dac" ELSE "ctrl_low")
      PROVE Positions'
  BY SMT, <1>23 DEF Program
<1>24. ASSUME NEW t \in Threads, CtrlLow(t) PROVE Positions'
  BY SMT, <1>24 DEF CtrlLow
<1>25. ASSUME NEW t \in Threads, CtrlHigh(t) PROVE Positions'
  BY SMT, <1>25 DEF CtrlHigh
<1>26. ASSUME NEW t \in Threads, Poll(t) PROVE Positions'
  BY SMT, <1>26 DEF Poll
<1>27. ASSUME NEW t \in Threads, Reset(t, "reset", "standby") PROVE Positions'
  BY SMT, <1>27 DEF Reset
<1>28. ASSUME NEW t \in Threads, LowerStandby(t) PROVE Positions'
  BY SMT, <1>28 DEF LowerStandby
<1>29. CASE PacketCallback
  BY SMT, <1>29 DEF PacketCallback, Service!PacketCall, Service!PacketReturn
<1>30. CASE SweepEnds
  BY SMT, <1>30 DEF SweepEnds
<1>31. CASE UNCHANGED vars
  BY SMT, <1>31 DEF vars
<1> QED
  BY <1>1, <1>2, <1>3, <1>4, <1>5, <1>6, <1>7, <1>8, <1>9, <1>10, <1>11, <1>12, <1>13,
     <1>14, <1>15, <1>16, <1>17, <1>18, <1>19, <1>20, <1>21, <1>22, <1>23, <1>24, <1>25,
     <1>26, <1>27, <1>28, <1>29, <1>30, <1>31 DEF Next, Flow, Dds

\* Every step keeps which call takes which step, the session and the kinds of the rest.
LEMMA BooksStep ==
  ASSUME Places, Books, [Next]_vars
  PROVE  Books'
<1> USE CallsAssumption, SweepersAssumption, FaultsAssumption, Moves
        DEF Books, Requested, Devices, DdsStates, CallFits, Session, Programs, Sends,
            GateLabels, Ends, Main, None, NoCall, AllCalls, Threads, IdleDds, Registers,
            At, Return, Proceed, Exit, ProcessEnds, MayGoOn, Calling, Write, BusFails,
            BusWorks, SpiFails, SpiWorks, Fault, Frame, hardware, fpga, sweep, listener,
            Service!Install, Service!Deliver, Service!Delivered, Service!CloseQuietly,
            Service!Remove
<1>1. ASSUME NEW c \in Calls, Begin(c) PROVE Books'
  BY SMT, <1>1 DEF Begin
<1>2. CASE StopListener
  BY SMT, <1>2 DEF StopListener
<1>3. CASE Quit
  BY SMT, <1>3 DEF Quit
<1>4. CASE FpgaInit
  BY SMT, <1>4 DEF FpgaInit, OpenBus
<1>5. CASE SoftReset
  BY SMT, <1>5 DEF SoftReset
<1>6. CASE AcqOn
  BY SMT, <1>6 DEF AcqOn, SetAcq
<1>7. CASE AcqOff
  BY SMT, <1>7 DEF AcqOff, SetAcq
<1>8. CASE DacSetup
  BY SMT, <1>8 DEF DacSetup
<1>9. CASE GainFixed
  BY SMT, <1>9 DEF GainFixed
<1>10. CASE GainSweep
  BY SMT, <1>10 DEF GainSweep
<1>11. CASE GateOff
  BY SMT, <1>11 DEF GateOff, SetGate
<1>12. CASE GateOn
  BY SMT, <1>12 DEF GateOn, SetGate
<1>13. CASE GateCheck
  BY SMT, <1>13 DEF GateCheck
<1>14. CASE Trigger
  BY SMT, <1>14 DEF Trigger
<1>15. CASE Listen
  <2>1. /\ pc[Main] = "listen" /\ call \in AllCalls /\ call # NoCall
        /\ UNCHANGED <<call, spi, dac, dds>>
    BY SMT, <1>15 DEF Listen
  <2>2. CASE /\ Service!Install(call) \/ UNCHANGED listener
             /\ Proceed(IF Calling("receive") THEN "dac" ELSE "acq_on")
             /\ UNCHANGED <<i2c, faults>>
    BY SMT, <2>1, <2>2
  <2>3. CASE /\ UNCHANGED listener /\ Return(-1) /\ Fault
             /\ i2c' = (i2c /\ Calling("receive"))
    <3>1. call.fn = "transmit" => i2c' = FALSE
      BY <2>3 DEF Calling
    <3> QED
      BY SMT, <2>1, <2>3, <3>1
  <2> QED
    BY <1>15, <2>2, <2>3 DEF Listen
<1>16. CASE Stop("unlisten", "reset")
  BY SMT, <1>16 DEF Stop
<1>17. CASE Stop("stop", "idle")
  BY SMT, <1>17 DEF Stop
<1>18. CASE Close
  BY SMT, <1>18 DEF Close
<1>19. CASE Spawn
  <2>1. pc[Main] = "spawn" /\ pc'[Main] = "idle" /\ UNCHANGED <<dac, dds>>
    <3>1. CASE \E s \in Sweepers : pc' = [pc EXCEPT ![Main] = "idle", ![s] = "spi_init"]
      BY <1>19, <3>1, Spawned DEF Spawn, Books
    <3>2. CASE Return(0) \/ Exit
      BY SMT, <1>19, <3>2 DEF Spawn
    <3> QED
      BY <1>19, <3>1, <3>2 DEF Spawn
  <2>2. /\ result' = 0 /\ faults' \in 0..MaxFaults
        /\ \/ UNCHANGED <<call, listener>>
           \/ call' = NoCall /\ installed' = NoCall /\ stage' = "closed" /\ calling' = FALSE
    BY SMT, <1>19 DEF Spawn
  <2>3. call.fn = "generate"
    BY <2>1
  <2> QED
    BY SMT, <2>1, <2>2, <2>3
<1>20. ASSUME NEW t \in Threads, SpiInit(t) PROVE Books'
  BY SMT, <1>20 DEF SpiInit
<1>21. ASSUME NEW t \in Threads, Reset(t, "dds_reset", "dds_freq") PROVE Books'
  BY SMT, <1>21 DEF Reset
<1>22. ASSUME NEW t \in Threads, Program(t, "freq", "dds_freq", "dds_timing") PROVE Books'
  BY SMT, <1>22 DEF Program
<1>23. ASSUME NEW t \in Threads, Program(t, "timing", "dds_timing",
                                    IF t = Main THEN "dac" ELSE "ctrl_low")
      PROVE Books'
  BY SMT, <1>23 DEF Program
<1>24. ASSUME NEW t \in Threads, CtrlLow(t) PROVE Books'
  BY SMT, <1>24 DEF CtrlLow
<1>25. ASSUME NEW t \in Threads, CtrlHigh(t) PROVE Books'
  BY SMT, <1>25 DEF CtrlHigh
<1>26. ASSUME NEW t \in Threads, Poll(t) PROVE Books'
  BY SMT, <1>26 DEF Poll
<1>27. ASSUME NEW t \in Threads, Reset(t, "reset", "standby") PROVE Books'
  BY SMT, <1>27 DEF Reset
<1>28. ASSUME NEW t \in Threads, LowerStandby(t) PROVE Books'
  BY SMT, <1>28 DEF LowerStandby
<1>29. CASE PacketCallback
  BY SMT, <1>29 DEF PacketCallback, Service!PacketCall, Service!PacketReturn
<1>30. CASE SweepEnds
  BY SMT, <1>30 DEF SweepEnds
<1>31. CASE UNCHANGED vars
  BY SMT, <1>31 DEF vars
<1> QED
  BY <1>1, <1>2, <1>3, <1>4, <1>5, <1>6, <1>7, <1>8, <1>9, <1>10, <1>11, <1>12, <1>13,
     <1>14, <1>15, <1>16, <1>17, <1>18, <1>19, <1>20, <1>21, <1>22, <1>23, <1>24, <1>25,
     <1>26, <1>27, <1>28, <1>29, <1>30, <1>31 DEF Next, Flow, Dds

\* Every step of a program that waits keeps the order of the flows while nothing fails.
LEMMA SmoothStep ==
  ASSUME Places, Alone, Books, Smooth, Overlap = FALSE, faults = 0, faults' = 0, [Next]_vars
  PROVE  Smooth'
<1> USE CallsAssumption, SweepersAssumption, FaultsAssumption, Moves
        DEF Smooth, Drives, DrivesSweeper, Rest, Ready, Done, Sweeps, Configured, Setting,
            Books, CallFits, Session, Devices, Alone, Programs, Sends, GateLabels, Ends,
            Main, None, NoCall, AllCalls, Threads, IdleDds, Registers, At, Return, Proceed,
            Exit, ProcessEnds, MayGoOn, Calling, Write, BusFails, BusWorks, SpiFails,
            SpiWorks, Fault, Frame, hardware, fpga, sweep, listener, Service!Install,
            Service!Deliver, Service!Delivered, Service!CloseQuietly, Service!Remove
<1>1. ASSUME NEW c \in Calls, Begin(c) PROVE Smooth'
  BY SMT, <1>1 DEF Begin
<1>2. CASE StopListener
  BY SMT, <1>2 DEF StopListener
<1>3. CASE Quit
  BY SMT, <1>3 DEF Quit
<1>4. CASE FpgaInit
  BY SMT, <1>4 DEF FpgaInit, OpenBus
<1>5. CASE SoftReset
  BY SMT, <1>5 DEF SoftReset
<1>6. CASE AcqOn
  BY SMT, <1>6 DEF AcqOn, SetAcq
<1>7. CASE AcqOff
  BY SMT, <1>7 DEF AcqOff, SetAcq
<1>8. CASE DacSetup
  BY SMT, <1>8 DEF DacSetup
<1>9. CASE GainFixed
  BY SMT, <1>9 DEF GainFixed
<1>10. CASE GainSweep
  <2>1. /\ pc[Main] = "gain" /\ call' = call /\ i2c = TRUE
        /\ UNCHANGED <<spi, acq, gate, ctrl, standby, dds, stage, crashed>>
    BY SMT, <1>10 DEF GainSweep
  <2>2. CASE /\ call.mode = "sweep" /\ dac' = "sawtooth" /\ i2c' = i2c
             /\ Proceed(IF Calling("receive") THEN "acq_off" ELSE "gate_on")
    BY SMT, <2>1, <2>2
  <2>3. CASE /\ i2c' = FALSE /\ dac' = dac /\ Return(-1)
    BY SMT, <2>1, <2>3
  <2> QED
    BY <1>10, <2>2, <2>3 DEF GainSweep
<1>11. CASE GateOff
  BY SMT, <1>11 DEF GateOff, SetGate
<1>12. CASE GateOn
  BY SMT, <1>12 DEF GateOn, SetGate
<1>13. CASE GateCheck
  BY SMT, <1>13 DEF GateCheck
<1>14. CASE Trigger
  BY SMT, <1>14 DEF Trigger
<1>15. CASE Listen
  BY SMT, <1>15 DEF Listen
<1>16. CASE Stop("unlisten", "reset")
  BY SMT, <1>16 DEF Stop
<1>17. CASE Stop("stop", "idle")
  BY SMT, <1>17 DEF Stop
<1>18. CASE Close
  BY SMT, <1>18 DEF Close
<1>19. CASE Spawn
  <2>1. /\ pc[Main] = "spawn" /\ call' = call /\ i2c = TRUE
        /\ UNCHANGED <<i2c, spi, acq, gate, dac, ctrl, standby, dds, stage, crashed>>
    BY SMT, <1>19 DEF Spawn
  <2>2. PICK s \in Sweepers : /\ pc[s] = None
                             /\ pc' = [pc EXCEPT ![Main] = "idle", ![s] = "spi_init"]
    BY SMT, <1>19 DEF Spawn
  <2>3. /\ pc'[Main] = "idle" /\ pc'[s] = "spi_init"
        /\ \A r \in Sweepers : r # s => pc'[r] = pc[r]
    BY <2>2, Spawned
  <2> QED
    BY SMT, <2>1, <2>3
<1>20. ASSUME NEW t \in Threads, SpiInit(t) PROVE Smooth'
  BY SMT, <1>20 DEF SpiInit
<1>21. ASSUME NEW t \in Threads, Reset(t, "dds_reset", "dds_freq") PROVE Smooth'
  BY SMT, <1>21 DEF Reset
<1>22. ASSUME NEW t \in Threads, Program(t, "freq", "dds_freq", "dds_timing") PROVE Smooth'
  BY SMT, <1>22 DEF Program
<1>23. ASSUME NEW t \in Threads, Program(t, "timing", "dds_timing",
                                    IF t = Main THEN "dac" ELSE "ctrl_low")
      PROVE Smooth'
  BY SMT, <1>23 DEF Program
<1>24. ASSUME NEW t \in Threads, CtrlLow(t) PROVE Smooth'
  BY SMT, <1>24 DEF CtrlLow
<1>25. ASSUME NEW t \in Threads, CtrlHigh(t) PROVE Smooth'
  BY SMT, <1>25 DEF CtrlHigh
<1>26. ASSUME NEW t \in Threads, Poll(t) PROVE Smooth'
  BY SMT, <1>26 DEF Poll
<1>27. ASSUME NEW t \in Threads, Reset(t, "reset", "standby") PROVE Smooth'
  BY SMT, <1>27 DEF Reset
<1>28. ASSUME NEW t \in Threads, LowerStandby(t) PROVE Smooth'
  BY SMT, <1>28 DEF LowerStandby
<1>29. CASE PacketCallback
  BY SMT, <1>29 DEF PacketCallback, Service!PacketCall, Service!PacketReturn
<1>30. CASE SweepEnds
  BY SMT, <1>30 DEF SweepEnds
<1>31. CASE UNCHANGED vars
  BY SMT, <1>31 DEF vars
<1> QED
  BY <1>1, <1>2, <1>3, <1>4, <1>5, <1>6, <1>7, <1>8, <1>9, <1>10, <1>11, <1>12, <1>13,
     <1>14, <1>15, <1>16, <1>17, <1>18, <1>19, <1>20, <1>21, <1>22, <1>23, <1>24, <1>25,
     <1>26, <1>27, <1>28, <1>29, <1>30, <1>31 DEF Next, Flow, Dds

\* The initial states: everything off, every thread at its start.
LEMMA InitInv == Init => Inv
<1> SUFFICES ASSUME Init PROVE Inv
  OBVIOUS
<1>1. Places /\ pc[Main] = "idle" /\ \A s \in Sweepers : pc[s] = None
  BY SMT, TwoKinds DEF Init, Places, Labels, MainLabels, SweeperLabels
<1>2. Alone
  BY <1>1 DEF Alone
<1>3. Booleans
  BY DEF Init, Booleans, Service!Init
<1>4. Books
  <2>1. Requested /\ Devices
    BY SMT, FaultsAssumption DEF Init, Service!Init, Requested, Devices, DdsStates, IdleDds,
       Registers
  <2>2. CallFits /\ Session
    BY SMT, <1>1 DEF Init, Service!Init, CallFits, Session, NoCall, None, Programs, Sends,
       GateLabels, Ends
  <2> QED
    BY <2>1, <2>2 DEF Books
<1>5. Smooth
  BY SMT, <1>1 DEF Init, Smooth, Drives, DrivesSweeper, Rest, Configured, Setting, NoCall, None,
     IdleDds, Registers, Programs, Sends, GateLabels, Ends
<1> QED
  BY <1>1, <1>2, <1>3, <1>4, <1>5 DEF Inv, Positions

\* Operations that have failed are never forgotten: without one after the step there was
\* none before it.
LEMMA FaultsStay ==
  ASSUME faults \in Nat, [Next]_vars, faults' = 0
  PROVE  faults = 0
<1> USE DEF Fault, BusFails, BusWorks, SpiFails, SpiWorks, Write
<1>1. ASSUME NEW c \in Calls, Begin(c) PROVE faults = 0
  BY <1>1 DEF Begin
<1>2. CASE StopListener \/ Quit
  BY <1>2 DEF StopListener, Quit
<1>3. CASE Flow
  BY SMT, <1>3 DEF Flow, FpgaInit, OpenBus, SoftReset, AcqOn, AcqOff, SetAcq, DacSetup,
     GainFixed, GainSweep, GateOff, GateOn, SetGate, GateCheck, Trigger, Listen, Stop, Close,
     Spawn
<1>4. ASSUME NEW t \in Threads, Dds(t) PROVE faults = 0
  BY SMT, <1>4 DEF Dds, SpiInit, Reset, Program, CtrlLow, CtrlHigh, Poll, LowerStandby
<1>5. CASE PacketCallback \/ SweepEnds \/ UNCHANGED vars
  BY <1>5 DEF PacketCallback, SweepEnds, vars
<1> QED
  BY <1>1, <1>2, <1>3, <1>4, <1>5 DEF Next

\* The invariant is inductive.
LEMMA Invariance == Spec => []Inv
<1>1. ASSUME Inv, [Next]_vars PROVE Inv'
  <2>1. Positions' /\ Booleans' /\ Books'
    BY <1>1, PositionsStep, BooleansStep, BooksStep DEF Inv, Positions, Books
  <2>2. ASSUME Waits', faults' = 0 PROVE Smooth'
    <3>1. faults \in Nat
      BY SMT, <1>1, FaultsAssumption DEF Inv, Books, Devices
    <3>2. faults = 0 /\ Waits
      BY <1>1, <2>2, <3>1, FaultsStay DEF Waits
    <3> QED
      BY <1>1, <2>2, <3>2, SmoothStep DEF Inv, Positions, Waits
  <2> QED
    BY <2>1, <2>2 DEF Inv
<1> QED
  BY <1>1, InitInv, PTL DEF Spec

-----------------------------------------------------------------------------
(* The properties *)

\* A sweep runs only under the thread that programmed it, started it and polls for its end.
LEMMA OnlyPolled ==
  ASSUME Inv, Waits, faults = 0, dds.state = "running"
  PROVE  \E t \in Threads : pc[t] = "poll" /\ Sweeps(t)
<1> USE DEF Rest, Ready, Done, IdleDds, Registers
<1>1. Smooth /\ Places /\ Alone /\ CallFits
  BY DEF Inv, Positions, Books
<1>2. CASE \E s \in Sweepers : pc[s] # None
  <2>1. PICK s \in Sweepers : pc[s] # None
    BY <1>2
  <2>2. DrivesSweeper(s) /\ pc[s] \in SweeperLabels
    BY <1>1 DEF Smooth, Places
  <2>3. pc[s] = "poll" /\ Sweeps(s)
    BY SMT, <2>1, <2>2 DEF DrivesSweeper, Drives, SweeperLabels, None
  <2> QED
    BY <2>3, TwoKinds
<1>3. CASE \A s \in Sweepers : pc[s] = None
  <2>1. pc[Main] \in MainLabels
    BY <1>1 DEF Places
  <2>2. CASE pc[Main] \in Programs \cup Sends
    BY SMT, <1>1, <2>2, TwoKinds DEF Smooth, Drives, Programs, Sends
  <2>3. CASE pc[Main] \notin Programs \cup Sends
    BY SMT, <1>1, <1>3, <2>1, <2>3
       DEF Smooth, CallFits, MainLabels, Setting, Programs, Sends, Ends, GateLabels
  <2> QED
    BY <2>2, <2>3
<1> QED
  BY <1>2, <1>3

\* Whatever the program calls and however its threads overlap, the variables keep their
\* types and a sweep thread takes no step but those of sweep_thread (sbeam.c:31).
THEOREM TypeCorrect == Spec => []TypeOK
<1>1. Inv => TypeOK
  BY DEF Inv, Positions, Books, Places, Requested, Devices, DdsStates, Booleans, Labels, TypeOK
<1> QED
  BY <1>1, Invariance, PTL

\* When transmit's own sweep runs, the listener, acquisition, the gain, the trigger and the
\* DDS's registers are all in place (sbeam.h:91).
THEOREM ReadyToSend ==
  ASSUME Overlap = FALSE
  PROVE  Spec => []ReadyBeforeSweep
<1>1. Inv => ReadyBeforeSweep
  <2>1. ASSUME Inv, Sweeping(Main), faults = 0
        PROVE  pc[Main] = "poll" /\ Sweeps(Main) /\ Smooth /\ CallFits
    <3>1. PICK t \in Threads : pc[t] = "poll" /\ Sweeps(t)
      BY <2>1, OnlyPolled DEF Sweeping, Waits
    <3>2. t = Main
      BY <2>1, <3>1 DEF Sweeps, Sweeping, Registers
    <3> QED
      BY <2>1, <3>1, <3>2 DEF Inv, Positions, Waits, Books
  <2> QED
    <3>1. SUFFICES ASSUME Inv, Sweeping(Main), faults = 0
          PROVE  /\ Transmitting /\ stage = "open" /\ acq
                 /\ gate <=> (call.mode = "sweep")
                 /\ dac = (IF call.mode = "sweep" THEN "sawtooth" ELSE "fixed")
                 /\ dds.freq = Main /\ dds.timing = Main
      BY DEF ReadyBeforeSweep, ReadyToSweep
    <3>2. call.fn = "transmit"
      BY SMT, <2>1, <3>1 DEF CallFits, Sends
    <3>3. stage = "open" /\ acq = TRUE /\ Configured
      <4>1. pc[Main] = "poll" /\ Smooth
        BY <2>1, <3>1
      <4> QED
        BY <3>2, <4>1 DEF Smooth, Sends
    <3>4. gate \in BOOLEAN
      BY <3>1 DEF Inv, Booleans
    <3> QED
      BY <2>1, <3>1, <3>2, <3>3, <3>4 DEF Configured, Sweeps, Registers, Transmitting
<1> QED
  BY <1>1, Invariance, PTL

\* transmit leaves its poll for its own sweep's end (sbeam.c:246).
THEOREM SweepIsOwn ==
  ASSUME Overlap = FALSE
  PROVE  Spec => []OwnSweep
<1>1. Inv => OwnSweep
  BY SMT DEF Inv, Positions, Waits, Books, Smooth, OwnSweep, At, Transmitting, Done
<1> QED
  BY <1>1, Invariance, PTL

\* A transmit that has returned holds no bus and, after a success, no listener and no
\* running hardware.
THEOREM ReleasesAtReturn ==
  ASSUME Overlap = FALSE
  PROVE  Spec => []ReturnReleases
<1>1. Inv => ReturnReleases
  <2>1. ASSUME Inv, pc[Main] = "idle", call.fn = "transmit" PROVE i2c = FALSE
    BY <2>1 DEF Inv, Books, Session
  <2>2. ASSUME Inv, pc[Main] = "idle", call.fn = "transmit", result = 0
        PROVE  stage = "closed" /\ calling = FALSE
    BY <2>2 DEF Inv, Books, Session, Booleans
  <2>3. ASSUME Inv, pc[Main] = "idle", call.fn = "transmit", result = 0, faults = 0
        PROVE  acq = FALSE /\ standby = FALSE /\ dds = IdleDds
    <3>1. Smooth /\ Alone
      BY <2>3 DEF Inv, Positions, Waits
    <3>2. \A s \in Sweepers : pc[s] = None
      BY <2>3, <3>1 DEF Alone
    <3> QED
      BY <2>3, <3>1, <3>2 DEF Smooth, Rest
  <2> QED
    BY <2>1, <2>2, <2>3 DEF ReturnReleases, At, Transmitting
<1> QED
  BY <1>1, Invariance, PTL

\* The sweep that generate leaves running pulls no trigger and is not acquired.
THEOREM BackgroundIsPlain ==
  ASSUME Overlap = FALSE
  PROVE  Spec => []BackgroundSweepIsPlain
<1>1. Inv => BackgroundSweepIsPlain
  <2>1. ASSUME Inv, NEW s \in Sweepers, Sweeping(s), faults = 0
        PROVE  ~gate /\ ~acq
    <3>1. PICK t \in Threads : pc[t] = "poll" /\ Sweeps(t)
      BY <2>1, OnlyPolled DEF Sweeping, Waits
    <3>2. t = s
      BY <2>1, <3>1 DEF Sweeps, Sweeping, Registers
    <3>3. DrivesSweeper(s)
      BY <2>1 DEF Inv, Waits, Smooth
    <3> QED
      BY <3>1, <3>2, <3>3 DEF DrivesSweeper, None
  <2> QED
    BY <2>1 DEF BackgroundSweepIsPlain
<1> QED
  BY <1>1, Invariance, PTL

\* The cache callback of a call comes when acquisition is off and no sweep runs.
THEOREM DeliveryIsLast ==
  ASSUME Overlap = FALSE
  PROVE  Spec => []DeliveredAfterAcquisition
<1>1. Inv => DeliveredAfterAcquisition
  BY SMT DEF Inv, Waits, Books, CallFits, Smooth, Rest, Done, Registers, Ends,
     DeliveredAfterAcquisition, At
<1> QED
  BY <1>1, Invariance, PTL

\* No thread ends the process unless an operation of a device has failed.
THEOREM NobodyExits ==
  ASSUME Overlap = FALSE
  PROVE  Spec => []NoUnforcedExit
<1>1. Inv => NoUnforcedExit
  <2>1. ASSUME Inv, crashed, ~(faults > 0) PROVE FALSE
    BY SMT, <2>1, FaultsAssumption DEF Inv, Positions, Waits, Books, Devices, Smooth
  <2> QED
    BY <2>1 DEF NoUnforcedExit
<1> QED
  BY <1>1, Invariance, PTL

=============================================================================
