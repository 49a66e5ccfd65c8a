# singleBeam in TLA+

Specifications of the single-beam transmit/receive library: `core/sbeam.c`, the device
drivers under `dev/` and the bus access under `protocol/`. TLC checks small instances,
TLAPS proves, for every value of the constants, the listener's safety, what its cache
holds and delivers, and that it implements both the packet store and the service the
flows rely on; the gain of a reception and the time its ramp takes; the programming of
the AD5932; the UDP header in the FPGA and its checksum; and the safety of the flows for
programs that wait. Every safety property that a passing run checks is a theorem, but
for `CrashIsOvercome`.

## The system

| Part | State | Operations |
|---|---|---|
| Network listener (`dev/net_listener.c`) | `running`, the raw socket, two callbacks, the byte cache and the array of packet lengths, five counters, `cache_mutex` | start, stop (join, deliver, free), the listener thread (receive, call back, store), get statistics, clear |
| Flows (`core/sbeam.c`) | none of its own; a detached thread per `generate` | `generate`, `receive`, `transmit`, stop of the listener |
| FPGA (`dev/fpga.c`) | registers: acquisition, DAC trigger, DDS CTRL and STANDBY pins, soft reset, UDP header | single register accesses; a failed read ends the process |
| AD5932 (`dev/ad5932.c`) | frequency, timing and control registers of the chip | reset, program, start a sweep, read its end |
| DAC63001 and AD8338 (`dev/dac63001.c`) | DAC registers | fixed voltage, sawtooth, GPIO trigger; gain and sweep arithmetic |
| I2C, SPI (`protocol/`) | one static descriptor each | open, transfer, close |
| Test programs (`app/`), logging, build | | callers of the above |

Interaction. A flow calls the drivers in a fixed order with sleeps between the calls.
`generate` leaves a thread behind that drives the same AD5932, over the same I2C and SPI
descriptors, as the calls that follow; nothing locks them. A flow starts and stops the
listener; the listener thread runs user callbacks, the cache callback runs on the thread
that stops. Statistics and clear may be called from any thread and take `cache_mutex`;
the delivery in stop does not.

What is hard: the interleavings of stop, listener, clear and statistics; the two limits
of the cache; `recv` without a timeout; the background sweep thread beside the next
call; the order of setup before the signal is sent; error exits that release by hand
what was acquired; ignored results; hardware that keeps its state over a restart of the
program, half a frequency word included; arithmetic at the ends of its ranges.
`PROJECT.json` lists these hazards at their lines.

## Modules

| Module | Models | Role |
|---|---|---|
| `NetListener` | `dev/net_listener.c` | state machine: one caller of start and stop, the listener thread, any number of other threads |
| `PacketStore` | what the cache promises | abstract specification |
| `Sums` | the loop that adds up, in `csum` and in a callback's walk | operator |
| `PacketDelivery` | how a cache callback reads the buffers | extends `NetListener`; refinement of `PacketStore`, properties of the delivery |
| `ListenerService` | what start and stop promise to the flows | abstract specification |
| `ListenerSession` | who may call what back, and when | extends `NetListener`; refinement of `ListenerService` |
| `InductionLemmas` | | induction over an interval, recursively defined functions, what `Sum` computes |
| `NetListenerProofs`, `PacketDeliveryProofs`, `ListenerSessionProofs` | | inductive invariants and theorems; proofs of the two refinements |
| `SingleBeam` | `core/sbeam.c` over the drivers | state machine: the program's calls, the sweep threads, the shared hardware; its listener is an instance of `ListenerService` |
| `SingleBeamProofs` | | inductive invariant and theorems |
| `GainMath` | the arithmetic of `dev/dac63001.c` | operators: gain, voltage, code, register, choice of step and slew rate |
| `Dac63001` | `dev/dac63001.c`, driven by the flows and by `app/dac63001_main.c` | state machine over the registers of the DAC and of the FPGA's trigger |
| `Ad5932` | `dev/ad5932.c`, driven by the flows and by `app/ad5932_main.c` | register words, and a state machine over the chip and its pins |
| `Dac63001Proofs`, `Ad5932Proofs` | | inductive invariants and theorems |
| `UdpHeader` | `fpga_initialize_udp_header` of `dev/fpga.c` | checksum and layout as operators, the register writes as a state machine |
| `UdpHeaderProofs` | | what the checksum computes, inductive invariant and theorems |
| `MCNetListener`, `MCSingleBeam`, `MCDac63001`, `MCAd5932`, `MCUdpHeader` | | instances for TLC |

### NetListener

The variables are the statics of the file under their own names, program counters for
the threads, the locals that matter, and the kernel's part: the promiscuous flag and the
socket's queue. `offered` and `raced` are history. A byte of the cache carries the number
of the frame it belongs to, so a displaced or torn packet is visible; the content of
frames is left out.

The grain is a critical section of `cache_mutex`, or the code between two blocking
calls. It is finer where code outside the mutex can tell: stop reads its condition and
the two callback arguments in separate steps, the latter in either order; clear assigns
in two steps; storing a packet (`memcpy`, length) and accounting for it are two steps
under the lock. `malloc`, the socket calls, `recv` and `pthread_create` may fail.

| Code | Actions |
|---|---|
| `net_listener_start_with_cache` | `StartWhileRunning`, `StartBegin`, `InitLock`, `InitCache(Fails)`, `OpenSocket(Fails)`, `Spawn(Fails)`, `UndoLock`, `Undo` |
| `net_listener_stop_with_cache` | `StopBegin`, `Join`, `StopCheck`, `ReadArgument`, `CacheCallback`, `StopLock`, `StopCleanup` |
| `listener_loop` | `ListenerLoop`, `Recv(Fails)`, `PacketCallback` |
| `add_packet_to_cache` | `AddLock`, `AddDrop`, `AddStore`, `AddAccount` |
| `net_listener_get_cache_stats` | `StatsLock`, `GetStats` |
| `net_listener_clear_cache` | `ClearLock`, `ClearUsed`, `ClearRest` |
| the wire | `Arrive` |

Start and stop have one caller, as in `core/sbeam.c`. A request has either a callback and
a size above 0 or neither, which is how `core/sbeam.c` calls; its size plus one frame
stays below 2^32, which `core/sbeam.h:166` (50 MB at most) grants and the code does not
check. `running` is a volatile int that one thread writes and another reads; it is
modelled as an atomic variable.

### ListenerService and ListenerSession

The service is what a flow may count on: one session at a time, with the callbacks it was
installed with; packet callbacks while it is open, one at a time; the cache callback at
most once, inside the stop, when no packet callback can follow; nothing after the stop.
`ListenerSession` reads the session off the state of `NetListener`: it begins with
`pthread_create` and ends with stop's cleanup, and its request is what the statics say,
not the argument of the latest start. Two refinements meet here: `NetListener`
implements the service, and `SingleBeam` uses the service's actions as its listener.

### PacketStore and PacketDelivery

The store is a sequence of packets under a limit of bytes and one of packets.
`PacketDelivery` reads it off the byte cache the way a callback does: it walks
`packet_lengths` and cuts `packet_cache` into packets. `Store!Kept` says what a fresh
store would keep of a sequence of offers, taken from the first to the last.

### SingleBeam

A step is one operation on the hardware or on the listener. The calls run on one thread;
each `generate` adds a sweep thread, which takes the same steps on the DDS (`Dds(t)`) as
transmit does. A bus operation fails when its descriptor is closed and otherwise at most
`MaxFaults` times. `exit(-1)` ends every thread and leaves the hardware as it is; the
program may be started again, also after it has ended by itself (`Quit`). `Overlap` says
whether the program makes a call, or ends, while a sweep thread runs.

The DDS remembers who programmed the two halves of its registers and who started its
sweep. How the chip behaves is modelled from how the source uses it: a rising edge of
CTRL starts a programmed sweep, its end raises the pin that `REG_DDS_STB` shows, writing
0 there lowers it, and a reset may or may not (the source does not say). `REG_DDS_CTRL`
goes back to 0 by itself after a 1, as `fpga.h:29` says, or stays high: the code, which
writes the 0 before each 1, relies on neither, and an edge that never falls is the worse
case for its poll. The gain modes
are `fixed`, `sweep` and `refused`: arguments that `dac63001_set_gain_sweep` rejects.
The DAC's variable is the last configuration that was written completely, except that a
fixed voltage may be in place although the read-back failed.

The listener is `ListenerService`: packet callbacks run beside the flow, and a stop goes
from the join over the cache callback to the cleanup, each a step of its own. That stop
returns, which `NetListener` grants only on a busy interface. The UDP header registers
(see `UdpHeader`), the waveform that receive starts and stops by hand (see `Dac63001`),
the words for the DDS (see `Ad5932`), the sleeps, and the number of open SPI descriptors
are left out.

### GainMath and Dac63001

Floats are integers: microvolts, 10 ns, microseconds. For each gain from 0 to 80 dB the
code is the one the float computation gives. The search compares errors in percent, in
floats, and `calculate_sweep_parameters` the same errors as integers. The choice is the
same: the least error is at most the duration, since a slew rate of 0 takes no time, so
the errors that compete for it are integers up to 250000; division by one duration and
multiplication by 100 keep their order in single precision, and equal ones equal.
Estimates that the product of floats puts one off belong to ramps of over a second, which
never win. Where a quotient is a whole number (a span
of 25, 50 or 75 dB) the float may fall one short, and `CodeRanges` has both outcomes.

A step is one transfer. The registers outlive calls and processes, and each transfer may
fail or be the last before a kill: a call meets what others have left. `receive` starts
and stops the function itself; `transmit` opens the gate in the FPGA, and the end of the
DDS's sweep pulses the pin that starts and stops it. When a running function is switched
off, it finishes its period or stops at once: `dac63001.c:163` relies on the former, the
source does not say so of the register write. How long the last period goes on after a
stop, and whether the 100 ms of the set-up are enough for it, is not judged. `receive`
keeps the function on for 5 ms, so a shorter ramp repeats there; `OneRampPerPulse` is
about `transmit`.

`RampNearAsked` is about sweeps of 12 dB and more. Narrower ones have too few codes for
the times on offer: 78 to 80 dB in 246.5 ms gets a ramp of 338 ms, which outlasts the
reception of 300 ms, and 0 to 1 dB in 154 ms one of 215 ms. `sbeam.h:159`
admits 1 to 250 ms for each of them, and the code refuses none: from 79 to 80 dB no ramp
is longer than 128 ms, whatever is asked.

The source has two formulas for a ramp's time: the search rounds the number of steps up
(`dac63001.c:326`) and counts the codes of the difference of voltages,
`dac63001_setup_sawtooth_wave` rounds it down (`dac63001.c:139`) and counts those of its
registers, one or two more. The search's choice is judged by the second one, `Period`,
the shorter of the two but for the smallest steps. They part for good from 79 to 80 dB,
whose voltage is clamped and leaves 25 codes: for 96 durations between 1.27 and 2.56 ms
the search takes a step of 32 codes, one step of 1.28 or 2.56 ms, and the second formula
makes that no step at all. `OneRampPerPulse` therefore leaves that sweep out: what the
chip does with a margin narrower than its step the source does not say.

`SawtoothCalls` are what the program's parser admits: a step and a slew rate in their
ranges and a minimum below a maximum of at most the reference; a negative minimum becomes
0 in `voltage_to_dac_code`.

### Ad5932

The words are built as the driver builds them, with its clamps and masks. The chip is
what `ad5932.h` says of it: register addresses, control bits, and that in B24 mode two
writes in a row make a frequency word; a low half waits for the next write and a high
half without its low half makes an unknown frequency. The reset word may or may not
clear the registers and lower the pin. Words are lost without the program noticing, and
a kill leaves the chip with half a program. CTRL goes back to 0 by itself or stays high,
as in `SingleBeam`.

What a program asks for is what the driver's clamps and masks make of its configuration.
An interval of 0 or 1 becomes 2: `ad5932.h:129` admits 0 to 2047, `sbeam.h:23` and the
comment at `ad5932.c:189` only 2 to 2047.

The end of a sweep is a level that the next program may find high. `tidy` says that the
program before ended with its transfers done, `receive`'s reset included, which is sent
without opening SPI and does nothing if nothing has opened it: only then does
`OwnSweepDone` promise that a poll ends for the right reason.

### UdpHeader

The header is 22 halfwords in the order of `U_pkg_hdr`, and a register holds two of them.
`csum` adds the halfwords as a little-endian processor loads them, hence `Swap`; `Carry`
is its loop. A step of the machine writes one register; a write may fail, which the code
ignores, and the process may end between two writes, while the FPGA keeps its registers.
`Initialize(p)` takes any parameters of the program, since `udp_header_params` is a
variable that callers can change; `ip_total_len` and `udp_data_len` have no effect, as
in the code. The read-backs, which are only printed, are left out.

Two layouts of these registers are in the source. The loop writes the header from its
first byte, the destination's MAC address, to 0x40 to 0x4A in a row. `fpga.h:17-26`
begins with the source's MAC address, has the fields from the total length on one
register earlier than the loop, and puts the UDP checksum at 0x50, which nothing writes.
Which of the two the FPGA reads the source does not say. `HeaderWhole` and
`ChecksumVerifies` are about the registers the loop writes, in its order (`Written`):
that no call leaves a mixture behind and that the checksum in it is right. That they hold
says nothing of what the FPGA sends; `RegistersAsNamed` states the layout of `fpga.h`,
and `udp_registers` shows that the registers do not have it.

Definitions whose comment starts with "Mutated" are bugs a change to the code could
introduce. No specification uses them: put in the place of the definition they follow,
each makes TLC find one of the properties violated.

## Runs

| Run | Instance | Shows |
|---|---|---|
| `listener_safety` | 2 threads, 3 requests, 4 frames of 1 or 2 bytes, `BusySpec` | `TypeOK`, `BooksBalance`, `SnapshotConsistent`, `ListenerInsideSession`, `StoreInBounds`, `DeliveryFaithful`, `ReceivedIsOffered`, `SessionFixed` hold; the cache implements `PacketStore`, the session `ListenerService`; `StopReturns` while `recv` keeps returning |
| `listener_quiet` | 1 thread, 1 request, `FairSpec` | finding: on a silent interface it does not |
| `listener_clear` | 1 thread, 1 request | finding: a clear during the delivery garbles the callback's arguments |
| `beam_patient` | every call, no overlap, 1 fault, `FairSpec` | `TypeOK`, `ReadyBeforeSweep`, `OwnSweep`, `ReturnReleases`, `CrashIsOvercome`, `BackgroundSweepIsPlain`, `DeliveredAfterAcquisition`, `NoUnforcedExit` hold; until the first fault calls return and sweep threads end |
| `beam_exit` | generate and receive overlap | finding: the process ends although nothing failed |
| `beam_callbacks` | receive, then transmit | finding: a transmit runs with the callbacks of an earlier fixed-gain receive |
| `beam_hang` | transmit, 1 fault, `FairSpec` | finding: transmit polls for ever |
| `dac_gain` | 49 calls, 1 fault | `TypeOK`, `GainAsAsked`, `RampNearAsked`, `OneRampPerPulse`, `QuietReturn`, `OutputSteady` hold |
| `dac_fullscale` | 5 fixed voltages | finding: 1.25 V comes out as 0 V |
| `dds_program` | 4 configurations, 3 faults, `FairSpec` | `TypeOK`, `SweepIsAsked`, `OwnSweepDone`, `EndIsSeen` hold |
| `udp_header` | 6 parameter sets, 2 failures | `TypeOK`, `HeaderWhole`, `ChecksumVerifies` hold |
| `udp_registers` | as `udp_header` | finding: `fpga.h` names another layout than the code writes |

Bounds of the listener. The caches have 3 and 6 bytes with one packet per 2 bytes and at
least 2 packets (1024 and 1000 in the code). With frames of 1 and 2 bytes the small cache
runs out of packets first in one order and out of bytes first in another, a smaller frame
still fits after a larger one was dropped, and the large cache holds 3 packets, more than
the minimum. Four frames overfill both. Arrivals are bounded per session, sessions are
not. Two threads suffice for a clear beside a snapshot; no action tells one from another.

Bounds of the flows. One sweep thread is enough for the overlap found: beside a receive
the thread loses its bus (`beam_exit`). Beside a transmit the two share one DDS: with
`Overlap` and these two calls TLC finds `OwnSweep` violated, for the thread's reset or
programming falls between transmit's, which then sends a sweep that is not its own. An
error exit of a transmit leaves a listener that an earlier receive left running, although
`sbeam.h:178` says that it is closed, for the reason that `beam_callbacks` shows. With
one fault anywhere each error path runs, and the calls that follow meet what it left.
`beam_patient` covers every order of calls: the graph is finite without a bound on their
number. Where a property says `faults = 0` a failure voids it: transmit ignores most
results, so it waits in vain, which `beam_hang` shows, or returns 0 with the gain not as
asked, although `sbeam.h:172` promises -1 for both. `CrashIsOvercome` takes up where the
fault has ended the process: the acquisition, trigger, CTRL and sweep it left do not
change what a transmit of the next program has set up when it sends, nor how it leaves
the hardware. It does not say that its poll waits for its own sweep: a pin left high may
survive the reset.

Bounds of the gain. Spans from 1 to 80 dB, durations at the ends of their range and where
the search has the least choice, each reason for a refusal, fixed gains up to one above
80 dB, sawtooths of the program from below 0 V and up to the reference. A kill counts as
a fault: with one, a call meets registers left at any point of any other call. The
theorems below take away both bounds.

Bounds of the DDS. Frequency words of more than 12, and of more than 23 bits, both
directions, every waveform and an undefined one, counts and intervals below, at and above
their limits. Three faults make a program that lost a word, one that was killed between
the halves of a word, and one that did not lower the pin meet in every order.

Bounds of the header. Besides the library's own addresses the parameters are those for
which the sum carries never, once or twice, the checksum is 0, and every address halfword
is 0xffff; ten halfwords cannot carry more than twice. What the registers hold at
power-up is unknown to the code: all zeros or all ones. Each pair of an old and a new
header occurs, with up to two failed writes or crashes in between.

Fairness. `Scheduling`: a thread that can take a step takes one (weak fairness); a thread
that waits for the mutex gets it although others take it again and again (strong
fairness), which their sleeps between two calls justify. Nobody is obliged to start, to
stop or to send, so `recv` need not return; `BusySpec` adds that it does. In `SingleBeam`
threads take their steps and a sweep of the chip is finite; nobody has to call anything
and no operation has to fail, or a poll that waits in vain would be rescued by a fault.
The flow is strongly fair because a stop waits for the packet callback that runs, which
returns, and packets keep arriving before and after it: `StopReturns` shows of
`NetListener` that the join then ends. In `Ad5932` the program takes its steps without
failing and a sweep is finite.

## Proofs

### Listener

`NetListenerProofs` proves `Spec => []IInv` and from it the type invariant, four safety
invariants and one action property, for every set of threads, every request and frame
length within the named assumptions, and any number of frames. The invariant `IInv` is

- `TypeOK`;
- `MutexInv`: a thread is in a critical section exactly when it owns `cache_mutex`, so
  at most one is;
- `LifeInv`: where start and stop stand determines whether the listener exists, whether
  `running` is set, and the state of the socket. Without it a step of the listener
  could follow the free;
- `BuffersInv`: when buffers are allocated, and that a caching session has both with the
  sizes that the limits in use say;
- `WidthInv`: sums of counters stay below 2^32, so `Add32` is addition;
- `BooksInv`: `BooksBalance`, and what holds of the counters inside a half-done clear or
  between a store and its accounting;
- `FrameInv`: the listener has a frame in its hands between `recv` and the accounting,
  and there is room for it after the check.

`IInv` alone is inductive: `TypeOK` or `BooksBalance` is not, since a store is in bounds
only because the room test and the store run under one lock in a session whose buffers
exist. The proof has one lemma per conjunct or group of actions, and under it a step per
action that can disturb it.

Theorems: `Invariance`, `TypeCorrect`, `BooksAlwaysBalance`, `SnapshotsAreConsistent`,
`ListenerStaysInsideSession`, `StoresStayInBounds`, `SessionsAreFixed`. They rest on
`UsersAssumption`, `NumbersAssumption` and `RequestsAssumption`.

### Cache contents

`PacketDeliveryProofs` proves `ReceivedIsOffered`, `DeliveryFaithful` and that the cache
implements `PacketStore`, for any threads, requests, frames and limits. The three rest on
one invariant, `DInv`, which adds to `IInv`

- `SocketInv` and `ReceivedInv`: frames in the queue, in the listener's hands and in the
  history are numbered without a gap, so that none is missing between the wire and the
  cache;
- `StoredInv` and `LengthsInv`: a packet that is written but not yet counted lies behind
  the others, and the lengths add up to the bytes in use, so that the next packet begins
  where the last one ends;
- `KeptInv`: what is cut out of the buffers is what a store keeps of the frames offered;
  in the middle of a clear it need not be;
- `HandedInv`: what stop has read of the counters is still so, unless a clear came
  between (`raced`);
- `FreshInv`, `SizeInv`: the history is empty before the listener runs, and a session that
  caches has a buffer.

`Sum` and `Kept` are recursive functions, so the step from one packet to the next is an
induction over a sequence. The induction theorems of the library take an operator as an
argument, which the provers cannot instantiate; `InductionLemmas` states the same with
sets: a set of numbers that holds 0, and with each number the next one, holds all up to
N (`Climb`, from the least element of a set of natural numbers). A recursive definition
is a CHOOSE, so its equations hold once some function satisfies them (`Recursion`);
`SumAppend` and `KeptAppend` then say what one element more does.

In the refinement a store opens with `InitCache`, closes with either cleanup, keeps with
`AddAccount` (not with `AddStore`, which nobody sees), drops with `AddDrop`, and is
cleared by the first assignment of a clear; all else is a stutter.

### UDP header

The inductive invariant of `UdpHeaderProofs` is `TypeOK`, that the header given is that of
some parameters, and that, as long as no write of the current call has failed, the
registers below the loop index hold it. `HeaderIsGood` shows that this header has 22
halfwords with a checksum that fits, and eleven registers hold them all: `TypeCorrect` and
`HeadersAreWhole` follow, for any parameters and any number of failures, from
`ParamsAssumption`.

`ChecksumsVerify` is the arithmetic behind it, for all addresses. `csum` adds in the byte
order of the processor, a receiver in the order of sending; swapping the bytes of a
halfword multiplies it by 256 modulo 65535, and end-around carry keeps a sum modulo 65535.
Ten halfwords carry at most twice, so two unfoldings of `Carry` are enough (`CarryOfTen`);
that `Carry`, which is defined by recursion over all sums, has a value there is
`CarryUnfolds`.

### Session

`ListenerImplementsService` proves the refinement, from `IInv` and an invariant of its
own, `RequestInv`: from start's first assignment on, the callback pointers and the cache's
size are those of one request, which is the one in effect while the session lives. Each
action maps to one of the service's or to a stutter; the thread's join is where the packet
callback can no longer run.

### Gain

The invariant of `Dac63001Proofs` says, for each place in a call, which calls get there,
which registers hold what the call asked for, as long as no transfer of this call has
failed, and that the function generator is off from the call's stop until the call or the
pin starts it. It says nothing of what earlier calls left, which is why it holds after any
number of calls, failures and kills. `GainIsAsAsked` needs besides that the gain of the
code of a gain is within 1 dB, which is arithmetic over 0 to 80 dB.

`TypeCorrect` is about widths: whatever is written, the two expressions for a function
included, fits a register of 16 bits.

`RampIsNearAsked` and `OneRampIsEnough` are about the search over 128 combinations, for
every pair of gains and every duration. A second invariant, `Searched`, carries its
result from the search into the registers and the ramp. The argument about the search has
three steps:

- `SearchIsBest`: the number returned is at least as near to the duration as each of the
  128 (the minimum exists because the errors are natural numbers);
- `Grid`: for sweeps over 12 dB and more thirty of the combinations suffice to have one
  within 21.5 % of each duration for each number of codes, and within 19 % but at the
  fastest and the slowest end; so the best one is as near. `NotTooShort` does the same for
  all sweeps from 40 codes on, with combinations that last 761 to 1239 microseconds: a best
  choice is no shorter than that;
- `CodesOfSweep` and `Counts` bound the difference between the two formulas for a ramp's
  time; `NearAsked` and `LongerThanPulse` combine them. The quarter of `RampNearAsked` is
  tight: where the search is off by 20 % and the largest step leaves fifteen steps, one
  of them is 6 % more. So is the case of two steps of 418.64 microseconds, which would
  be too short and which the search never takes.

### AD5932

The invariant of `Ad5932Proofs` says that, as long as no word of this program was lost,
the chip's fields for the words sent so far hold what the configuration asks for, and
that a pending low half is the one just sent. `TypeCorrect` says that no word has more
than sixteen bits and no register more than its own, for any configuration. The lemmas
about words show that address and data of each fit together; `OwnSweepDone` rests on a
second part about pin and state under `tidy`.

### Single-beam flows

`SingleBeamProofs` proves type correctness of every program, and six safety properties of
`SingleBeam` that its passing run checks for programs that wait for a sweep thread before
their next call (`Overlap = FALSE`), for any calls, any number of sweep threads and any
number of failing operations. Without that assumption they need not hold: `beam_exit`
violates one, and a transmit beside a sweep thread another. The assumption is about the
program, not the library: no call lets a program find out that a sweep thread has ended.
The invariant says

- which label of which thread, and that at most one thread is at work (`Alone`);
- which call takes which step (`CallFits`) and what it holds of the listener (`Session`);
- as long as no operation has failed (`Smooth`), what the thread that drives the DDS knows
  of it (`Drives`), and what has been set up when transmit or a sweep thread is at a label.

A property like `OwnSweep` speaks of one label only; it follows because the DDS is the
driving thread's from `ad5932_init` to the reset at the end, which takes all labels
between. `OnlyPolled` is the step to the properties: a sweep runs only under the thread
that programmed it, started it and polls for its end.

### Model-checked only

Liveness stays with TLC, which is out of the prover's reach: `StopReturns`, the returns
of calls and the ends of sweep threads in `beam_patient`, `EndIsSeen`. So do the
findings, of which TLC shows a behaviour each, and `CrashIsOvercome`, since the invariant
of `SingleBeamProofs` speaks of calls before the first failure. That the integers of
`GainMath` stand for the floats of the source is argued in its section above, not proved.

## Not modelled

Bytes on the buses; leaked SPI descriptors (`app/ad5932_main.c:127` says SPI is closed,
which no call does); the promiscuous flag's restoration as a promise;
`calculate_sweep_parameters1`, which has no caller; the FPGA's read-only registers; the
test programs, among them the signal handler of `app/fpga_udp_test.c`, which stops the
listener on a thread that may hold `cache_mutex`; logging; wall-clock time, hence the
order of `sbeam.h:61` (durations up to 17 s) and `dac63001.h:127` (up to 5 s) against the
250 ms that the code admits.

## Plan

1. A signal that runs on a thread that holds the mutex (`app/fpga_udp_test.c`).
2. `Handles`: descriptors of I2C, SPI and the socket over calls, failures and restarts.
