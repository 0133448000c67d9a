# A TLA+ model of the Quad SERV SoC

The repository is a small FPGA system: a SERV RISC-V processor, a Wishbone bus
with a few peripherals, firmware, and a program on a PC. What is its own, as
opposed to taken from elsewhere, is a set of Verilog state machines that work
together cycle by cycle, the start-up and interrupt code of the firmware, a
packet protocol with a UDP server in C++, and example programs. This directory
holds a TLA+ model of these, TLC runs on small instances, and proofs.

## 1. Inventory

| Part | Source | State | Operations | Talks to |
|---|---|---|---|---|
| clock divider | `rtl/fastserial/clock_fastserial.v` | 16-bit counter | one tick per `i_clk` | FSCLK to everything below and to the chip |
| transmitter | `rtl/fastserial/tx_fastserial.v` | state, shift register, FSCTS synchroniser, `busy`, line, `wait_clk` | accept a byte; start, eight data bits, destination bit, done | feeder (write/busy), FTDI chip (FSDI, FSCTS) |
| receiver | `rtl/fastserial/rx_fastserial.v` | state, shift register, FSDO synchroniser, `rx_ready`, `wait_clk` | start, data bits, destination, hand over, clean up | FTDI chip (FSDO), receive FIFO |
| fast serial peripheral | `rtl/fastserial/fastserial_wb.v` | acknowledgement, read data, status bits, feeder state, two FIFOs | bus read, bus write, feeder, status | Wishbone, transmitter, receiver |
| FTDI chip | `tb/quadsoc_tb.cpp` (class `fastSerial`) | two state machines, a queue of bytes | reacts to the edges of FSCLK | the serial wires |
| timer | `rtl/quad_timer.v` | count, compare, status, prescaler, interrupt | count, match and reload, register access | Wishbone, (unconnected) interrupt |
| GPIO | `rtl/quad_gpio.v` | eight outputs | write, set, clear, toggle, read | Wishbone |
| example programs | `sw/exampleTimer`, `exampleLED`, `exampleFastSerial` | a deadline | poll the timer, toggle a light; echo bytes | the registers of the parts above |
| start-up, interrupts | `sw/crt0.S`, `sw/irq.h` | `mstatus`, `mie`, registers, stack, `.data` | copy data; save and restore; lock, unlock, enable | firmware, processor |
| packet protocol | `sw/c++_protocol/basicProtocol.h`, `ringBuffer.h`, `crc16.h` | ring buffer, callbacks | send, receive, register | transport and applications |
| read/write protocol | `readWriteProtocol.h` | (the memory it serves) | read, write, reply | packet protocol |
| UDP server | `udpServer.h`, `pcTestApp.cpp` | transmit queue and buffer, running flag, receive buffer, pending handlers | queue a reply, send, receive, fail, stop | packet protocol, socket |
| protothreads, code lock | `sw/protothread/pt-1.4` (`pt.h`, `lc-switch.h`, `example-codelock.c`) | continuations, timers, the last key and a flag | two threads called in turn | clock, user |
| memories, debug port | `rtl/ram.v`, `rtl/debug_output.v` | words; one byte and a strobe | read, write | Wishbone |
| SoC | `rtl/quadsoc.v`, `quadinterface.core` | wiring and address map | | SERV and `wb_intercon` (external) |
| reset | `rtl/cyc1000/soc_cyc1000.v` | shift register | release reset after PLL lock | everything |

What is hard here, and what would make each part correct:

* **The link towards the host.** The chip cannot slow a frame nor the
  transmitter stretch one, yet the transmitter waits for clear-to-send inside the
  frame, and sees it two cycles late. Correct: never a bit stretched, never a
  frame started while the chip is not ready, no byte lost, repeated or altered,
  and every byte eventually there.
* **The link from the host.** No flow control; a synchroniser between the wire
  and the strobe; a start bit that must not be taken for data.
* **The peripheral.** Registered flags used a cycle or two after they were true,
  FIFOs that do not protect themselves, an acknowledgement that waits for a FIFO
  to drain, a processor that may come at any phase of all of these.
* **Timer and GPIO.** Counting is suspended by accesses; increment, prescaler and
  reload may fall in one cycle; the counter wraps; a toggle must act in one cycle
  of an access of several. Correct: an exact period, a pulse for a match, no match
  lost, a polling program kept in time, each access done once.
* **Start-up and interrupts.** An interrupt between any two instructions, sections
  that nest, an isr() that locks too. Correct: the program does not notice, isr()
  stays out of its sections, and interrupts come back on.
* **Packets.** A frame is parsed out of a ring that holds less or more than one
  frame after a lost or extra byte. Correct: without a fault every request served
  once and in order; and a fault costs a bounded number of them, which this code
  keeps only as long as no byte of a CRC looks like the start or the end of a frame.
* **UDP server.** Completions, posted calls, receives and errors in any order.
  Correct: every reply leaves, once, in order, unaltered.
* **Code lock.** The clock is read several times in one call and time passes in
  between. Correct: it opens for the code, in time, and for nothing else.

`PROJECT.json` has the hazards line by line.

## 2. Modules

```
hardware
  ByteChannel            abstract: lossless first-in first-out channel
  OvertakingChannel      abstract: as above, but the oldest byte may be overtaken
  FastSerialData         bits, bytes, shift register, synchroniser
  ClockFastSerial        clock_fastserial.v
  TxFastSerial           tx_fastserial.v
  RxFastSerial           rx_fastserial.v
  FtdiStates
    FtdiReceiver         the chip taking bytes from the FPGA
    FtdiSender           the chip sending bytes to the FPGA
  FastSerialTxLink       ClockFastSerial + TxFastSerial + FtdiReceiver
  FastSerialRxLink       ClockFastSerial + RxFastSerial + FtdiSender
  Fifo                   the external fifo core
  FastSerialWb           fastserial_wb.v: clock, both machines, FIFOs, registers
  WishboneMaster         the processor's side of the data bus (external)
  FastSerialSystem       FastSerialWb + FtdiReceiver + FtdiSender + WishboneMaster
  QuadTimer              quad_timer.v
  QuadGpio               quad_gpio.v
  TimerSystem            QuadTimer + WishboneMaster
  GpioSystem             QuadGpio + WishboneMaster
  TimerExample           exampleTimer and exampleLED on QuadTimer + QuadGpio +
                         WishboneMaster
firmware
  IrqControl             irq.h
  Firmware               crt0.S + IrqControl + a program and an isr() (external)
PC program
  RemoteMemory           abstract: requests to a memory, carried out in order
  RingBuffer             ringBuffer.h
  Crc16                  crc16.h
  PacketFormat           what is in a frame, and how much of a window one takes
  BasicProtocol          basicProtocol.h: RingBuffer + Crc16 + PacketFormat
  ReadWriteProtocol      readWriteProtocol.h
  UdpServer              udpServer.h and the io_context that runs its handlers
  PcTestApp              pcTestApp.cpp: BasicProtocol + ReadWriteProtocol +
                         UdpServer, a client and a network (external)
protothreads
  Codelock               example-codelock.c with the macros of pt.h

MC*                      values for the constants, where a cfg cannot write them
*_proofs                 theorems, in a module beside the component's
```

### Hardware

**Time.** One step is one rising edge of `i_clk`: all registers of the Verilog
take their next value together, so an operator `...Tick` of a component is a
conjunct of the step of the whole. Wires are operators over the registers before
the edge. What the chip does is added to the same step: the test bench looks at
FSCLK after the registers have settled, so it sees `fsdi'`, and the registers see
what it drives in the next step.

**Components.** A component module declares its registers as variables and has
one action per state of its `case` statement (`TxStart`, `TxBit`, ...), with a
`...Hold` action for "not this state's moment". The guards are written from the
conditions of the source, so that exactly one action is enabled. State encodings
are kept where the code computes with them (`state + 1`).

**Data.** A byte is a function from bit number to bit, shifted as in the code:
that bits keep their places is one of the things shown. The four status bits are
a record. The debug register of the receiver, the unused address and data bits
and the trace output of the test bench are left out.

**The FTDI chip.** `FtdiReceiver` is `rxFromFPGA`. With `FtdiMayStall` it may stay
in `DONE` for any number of periods, holding FSCTS low, as the datasheet note at
the head of `tx_fastserial.v` allows; the test bench always answers at once.
`FtdiSender` has a variable `peer`, chosen from `Peers` at the start and never
changed: `"testbench"` is `txToFPGA` with the queue the test bench begins with;
`"datasheet"` puts each bit on the line for a full period, leaves gaps of any
length, has a source bit of either value, and its host goes on sending. The test
bench visits its machine twice per FSCLK edge; `TestBenchSrc` takes the two
visits together because the FPGA sees the wire only after the second.

**The processor.** External: `WishboneMaster`. A bus master that holds address and
data until it sees the acknowledgement and then lets go for a cycle; what it does
and when is left open, within `Accesses`. `TimerExample` gives it a `program`: the
accesses of one `main.cpp` or the other in their order, with up to `MaxGap` cycles
between them for the instructions that the model does not have (exampleLED's loop
that only counts is such a gap). Which slave sees `cyc` is decided by the address,
as `wb_intercon` does.

**Timer and GPIO.** `QuadTimer` has one action per branch of the `if` chain,
`TimerWrite`, `TimerRead` and `TimerCount`; the two assignments to `value` in one
cycle are one primed expression in which the reload wins. `Values` stands for 2^32
and arithmetic wraps there. The pins of `QuadGpio` are the set of those that are
high.

**The fifo core.** External; modelled from how `fastserial_wb.v` uses it: the
output register is loaded by `rd_en_i`, full and empty are combinational. Writing
when full or reading when empty would be an error of the user, so the model does
not mask it: `TypeOK` or TLC reports it.

**Undefined power-up values.** Registers without an initial value (`rx_data`,
`o_wb_ack`, `o_wb_dat`, FIFO outputs) start with any value (`PowerOnByte`).

### Firmware

`reset_vector`, `CopyWord` (one turn of the loop at TOP), `trap_vector` and
`trap_return` (the two halves around the call of `isr`) are the assembler; each
function of `irq.h` is one operator because it is one atomic instruction on a
control register. Between any two steps of the program an interrupt may be taken.
The program takes and gives back stack frames (`Calls`), nests sections to any
depth up to `MaxDepth`, chooses its interrupts; `isr()` may do what the calling
convention lets a function do (`Clobber`), lock and unlock, and serve what is
pending or not. What a register or a stack word holds matters only as far as whose
it is, so a register's own value is its name and the rest is `"program"` or
`"junk"`. The two words above the stack that `crt0.S` writes (section 6) are not
modelled.

### PC program

A handler of the `io_context` is one step, as one thread runs them all, except
`onRecv`: it is one step for each byte (`OnRecv`), with everything the byte sets off
(parsing, the callback, the memory, the reply queued), which shows the ring
between bytes. Nothing else runs before the datagram is done (`Idle`), and the
client and the network move only then: a handler does not look at the socket, so a
step of theirs in its middle could as well come before or after it.
`UdpServer` has the running flag, queue and buffer of the transmit side; a send in
progress, its completion, the `start_write` it posts, a receive, their errors, and
the signal that stops the program are actions in any order.

A word, and an address, is one byte; a memory has two words. Frames are 19 bytes
(`PayloadMax` = 12) instead of 128 and keep every field of the source. `PacketFormat!Consumed` is how
`postPacket` leaves the window: what each early return has popped by then, the end
byte, the length check, the unescaping as it is written. A function of the source
that ends without its return value has no effect here: no caller uses the value.
`PcDebug` is the macro PC_DEBUG. `pcTestApp` as it is built defines it: reads then
return the addresses and writes are printed. The run `pc_app` has it off, the server
as it would serve a memory; `escape` has it on.

Bytes beyond a buffer's end (a read of more than eight words, a datagram of length
zero) have no outcome to model: `ClientAssumption` and the guard of `Receive` keep
them out, by name.

### Code lock

`codelock_thread` and `input_thread` are called in turn. A call reads the clock
several times, on a PC with other processes in between, so a call is several steps
with one look at the clock each, and `Tick` lets 100 ms pass. Normally it passes
when both threads have waited in vain (`polled`); being held up, time passing while
a thread has work, happens at most `ScriptLate` or `KeyboardLate` times (`late`).
The keys are `input_thread`'s, or, in its place, any from `Keys` at any moment.
A timer is how long ago it was set, which is what the differences of the code give.

### History variables

`cur`, `sent`, `popping`, `readBytes`, and `received`'s parity bit, which flips with
each byte so that a byte repeated is visible; `reloads` and `since` in
`TimerSystem`, `want` in `GpioSystem`, `elapsed` and `toggles` in `TimerExample`,
`wanted` in `Firmware`, `sent`, `executed`, `faults`, `outbox` and `rxFailed` in the PC
stack, `pressed` and `quiet` in `Codelock`. In the program's actions no guard reads
them; the bounds on the environment (`MaxRequests`, `MaxFaults`) do.

## 3. Runs

| Run | Bounds | What it shows |
|---|---|---|
| `tx_link` | divider 8, two bytes, stalls of any length | frame and handshake properties, `ImplementsByteChannel`, `EveryByteArrives`; `IInv` as used by the proofs |
| `rx_link` | divider 8, three bytes, either peer, any gaps, any power-up value | the receiver samples settled bits and keeps alignment; `ImplementsByteChannel`, `EveryByteArrives`; `IInv` as used by the proofs |
| `system_rx` | divider 4, FIFO of 2, endless host, reads at any moment | what a read returns; every access is acknowledged; `ReadInv` as used by the proofs |
| `system_duplex` | divider 8, FIFO of 2, the test bench's peer with its one byte, reads and writes at any moment, stalls | FIFO, feeder and transmitter: once, in order, all of them, while bytes come in |
| `timer` | divider 2, six register values, every read and write at any moment | the count is exact, the period too, and an armed timer always interrupts again |
| `timer_example` | divider 3, 16 register values, a delay of 5 ticks, gaps up to 3 cycles, both programs | the delay across the counter's wrap; the light blinks for ever; each toggle acts once; `ImplementsGpio` |
| `pc_app` | frames of 19, ring of 38, four requests, pieces of 10 or 19 bytes, two datagrams in the socket, one fault (a lost datagram or a stray start byte), any error, any stop | `ImplementsRemoteMemory`; with no start or end byte in a CRC, a fault costs two requests at most (`FaultCostsTwo`) and the receiver finds the frames again (`ServedInTheEnd`); every reply leaves; the ring, the transmit side and the CRC |
| `firmware` | two interrupts, two data words, 36 stack words, frames of 1 and 3, sections nested twice | isr() and sections exclude each other; the program is undisturbed; interrupts are taken |
| `codelock` | script held up 6 times, keyboard of 5 keys held up once | it opens only for the code; keys are seen; the script opens it |
| `system_drain`, `escape`, `firmware_data` | | disagreements, section 6 |

*Divider.* The SoC is built with 8 (`quadinterface.core:74`; the Verilog default is
20). 8 gives four cycles in each phase, more than the two of a synchroniser, so
every ordering of strobe, settling and sampling occurs. `system_rx` uses 4, the
smallest that works.
*FIFO depth.* 256 in the source. With depth 2 empty, one, full and a write at full
all happen within a few frames, and nothing depends on the depth but the
comparison with it.
*Register width.* With 6 or 16 values the timer's counter wraps, is set above and
below compare, and reaches compare by counting and by being written, within a few
ticks; nothing depends on the width but the wrap. The delay of `timer_example` and
`Late`, how far the counter can run between two polls, are kept below half the
values, as one second is in 32 bits.
*Bytes.* `'0'`, `'5'` and `0xFF`, the bytes of the test bench plus the one that looks
like an idle line: neighbouring bits differ both ways. `system_duplex` sends one of
them only: that distinct bytes keep their order on the wire is `tx_link`'s to show,
and in the FIFO a loss or a repetition shows in the parity bit.
*Frames.* The PC stack's frame keeps its header, end and CRC; only the payload is
shorter, long enough for an escaped request. The ring is two frames, as in the
source; four requests go round it twice, and after a fault, which moves the frames
in it, it wraps in the middle of one. Pieces of 10 bytes cut a frame where its
payload is. One fault leaves the parser in the middle of a frame, from where it must
find the next one: the frame hit, the one after it and the ones that show whether it
was found make four requests. One request holds a byte to be escaped, and its frame
has a start byte in the CRC if it is the second to be sent, so both sides of
`MarkInCrc` are reached: without that exception TLC finds `FaultCostsTwo` and
`ServedInTheEnd` violated in this run. The proofs hold for any number of requests
and faults. The run has about 200,000 states.
*Stack.* 16 words for the frame of `trap_vector`, 16 below it for `isr()`, four for the
program's own frames.
*Hold-ups.* Each may fall on any read of the clock. The script types its code with at
most 5 units between two keys, where 10 are allowed: with six hold-ups it may miss,
and has to type the code again. Five keys of a keyboard are the code and one more.

The hardware runs check for deadlock, as a clocked circuit never stops. `pc_app`,
`escape`, `firmware`, `firmware_data` and `codelock` do not: the client is done, the
program has been stopped, the devices have asked for all they can, or `main` has
returned. That nothing waits that should not is what their liveness properties say.

**Type invariants.** Each component has a `TypeOK`. Those of the fast serial modules,
the timer, `TimerExample` and `Firmware` are proved (section 5) and not listed in the
runs by themselves; those of the two links are parts of their `IInv`.

**Fairness.** `WF_vars(Next)` in the hardware modules: the clock runs.
`SF_vars(FtdiAccepts)` in the transmit direction: a chip that could take a byte on
infinitely many rising edges does so on one; strong, because the chip is asked only
on rising edges, and needed only because `FtdiMayStall` lets it refuse. Nothing is
assumed of the processor, except in `TimerExample`, whose program goes on to its
next access within `MaxGap` cycles.
`Firmware`: the program's sections end (`WF` of `Unlock`, `SF` of the outermost one,
which a program that keeps opening inner sections could otherwise put off), and the
processor takes an interrupt that is possible again and again (`SF` of
`trap_vector`): it samples between instructions, and a program that locks and
unlocks for ever still runs some of them unlocked. Nothing is assumed of devices.
`PcTestApp`: the thread runs ready handlers (`Handling`, `SocketHandler`), and the
client sends the whole of a frame it has begun. Errors, faults and the signal are
never forced.
`Codelock`: the program runs and the clock advances; nothing is assumed of the user
of the keyboard.

## 4. Refinement

* `FastSerialTxLink` implements `ByteChannel` of capacity 2. The mapping, `InFlight`,
  is computed from the state: a byte the chip holds and has not yet delivered,
  then the byte in the transmitter. Proved.
* `FastSerialRxLink` implements `ByteChannel` with the history `sent`. Proved.
* `FastSerialSystem` implements, from the write to TX_REG to the host, `ByteChannel`,
  the transmit FIFO and the feeder being part of what is in flight (`TxInFlight`).
  Towards the program it implements only `OvertakingChannel`: section 6. Both are
  proved.
* `TimerExample` implements `GpioSystem` (`ImplementsGpio`): accesses to the timer are
  rests for the GPIO, and `want` is the parity of the toggles. Proved.
* `PcTestApp` implements `RemoteMemory` (`ImplementsRemoteMemory`). Until the first fault
  the requests are carried out in the order sent, none left out and none twice; at all
  times an answer carries the number and the words that its own operation found, and
  answers leave in order, none twice. What is on the way (the socket, the ring, the
  frame in pieces) is not visible there: `sent` and `done` are the histories, the
  answers are the replies in the socket, the buffer and the queue (`Replied`). A request,
  a word and an answer are taken as the framing lets them arrive (`Arrived`, `Blurred`:
  an escaped byte as 0x5D, the disagreement of the run `escape`), and with PC_DEBUG a
  write does nothing. After a fault `RemoteMemory` leaves open which operations are
  carried out, since a frame that arrives is not checked; what is true of them is
  `FaultCostsTwo` and `ServedInTheEnd`. Proved, under the bounds that the code does not
  check (section 5).

## 5. Proofs

`FastSerialTxLink_proofs`, for every divider from 2 to 65536 and every set of
bytes: `TypeCorrect`, `Invariance` (`Spec => []IInv`), the handshake properties
`NeverStretches` and `StartsClear`, and `LinkImplementsChannel`:
`Spec => Channel!Spec`. None of these is inductive alone. That a frame is not
stretched depends on FSCTS being low in both synchroniser stages by the DEST bit,
which depends on how far the chip is, which depends on the two machines moving in
lockstep:

    LockStep          the chip's state from the transmitter's and the clock phase
    CtsFollows        FSCTS from the chip's state, both flip-flops from its history
    RestsHigh         the line between frames, busy from state
    BitsAccountedFor  every bit of the byte is in the shift register, on the
                      wire, or in the chip

`IInv` is their conjunction with `TypeOK`. The step proof first finds who moves
(`WhoMoves`: the transmitter at the first cycle of the high phase, the chip one
cycle earlier), then preserves the parts one by one, and the refinement follows
by cases: a step that delivers, a step inside a frame, a step between frames.
Assumptions: `DividerAssumption`, `StallAssumption`, `PayloadAssumption`. The proof
needs no lower bound on the divider but 2: in this direction the circuit works at 2
where the receiver does not. The step proof speaks of what the machines do
(`StepEffect`, `EffectImplementsChannel`), apart from who offers the byte, so that the
peripheral can use it.

`FastSerialRxLink_proofs`: `Invariance`, `BitsTakenSettled` (`LineSettled`),
`StatesAligned` (`Aligned`), `TypeCorrect` and `LinkImplementsChannel`, for every set of
bytes and either peer, under `Settles`: a divider of at least 4, and, if the peer is the
test bench with its start bit of half a period, of at least 5 and with no more than the
one byte it sends (`tb/quadsoc_tb.cpp:77-79`); with a smaller divider a strobe falls
before the bit has left the synchroniser, and TLC finds the receiver astray. `IInv` says
what the receiver's registers are from where the chip is:

    Synchronised      each flip-flop of the synchroniser from the line and the phase
    OneStrobe         one strobe per period: wait_clk is set once a state has advanced
    InStep            the receiver's state from the chip's
    StartBits         the line is low in a start bit, and none is seen between two
    OneByte           the test bench's byte meets a receiver that has seen none
    Ready             rx_ready is up for the one state that hands the byte over
    BytesAccountedFor what was sent and not taken: every bit of it is in the chip, on
                      the line or in `rx_data`, at its place

The step proof goes through a frame (`FrameStarts`, `FrameGoesOn`, `FrameEnds`), with
lemmas that do not mention the history, which the peripheral does not have.

`FastSerialSystem_proofs`: both links are taken from their proof modules by `INSTANCE`,
and what is added is the peripheral. For writing, `WriteInv` says that the feeder's state,
the FIFO's output and the transmitter's `busy` belong together, and that `IInv` of the
transmit link holds with the feeder at its input (`LinkPreserved`); from it follow
`FeederStaysInStep` (`FeederInStep`), `WritesPushOnce` (`EachWriteOnce`), `TypeCorrect` and
`WritesReachHost` (`WritesReachHostInOrder`), in which a step is split into what the bus,
the feeder and the link do to the bytes on the way. For reading, `ReadInv` says that the
receive link works in the peripheral as on its own (`RxLink`), that only what the host sent
enters the FIFO (`PayloadArrives`) and that RX_READY, which the program gets with the
byte, says whether this access took one (`ReadyTellsPopped`); with it
`ReadsKeepOrder` (`ReadsReturnNewest`). The two directions share the bus and the clock
only, but every step moves both. Assumptions: those of the links and of the module, for
every depth of the FIFOs and every set of accesses; and for reading `Settles`, and
`OnlyReadsRxReg`, that RX_REG is not written to: `rx_data_enable_fifo` does not look at
`i_wb_we`, so that a write would take a byte which nobody gets. No program does that.

`TimerSystem_proofs`, for every divider from 1 to 65535, every word size and every
set of accesses: `CountIsExact` (`Spec => [](TypeOK /\ CountsSince)`). The key is that
the counter and the prescaler are together a number,
`value * (TimerDivider + 1) + dividerCnt`, that advances by one in every counted cycle
and in no other; at a reload it is one, because the prescaler is not reset with the
counter. `ExactPeriod` and `PulseIsShort` follow at the moment of a reload.

`TimerExample_proofs`, for every divider, word size, set of pins, delay and gap, of the
programs: `ExampleImplementsGpio`, by an invariant that says what the bus carries during an
access and one lemma for each thing the program may do with the GPIO in a cycle
(nothing, start, wait, finish); `ExampleIsAtomic` from what the port does in the cycle of a
toggle; `TypeCorrect`; and `DelayKept` (`DelayIsKept`). Its invariant, `DelayInv`, has two parts. The
counter and the deadline are as far apart as `elapsed` and the delay, up to a wrap
(`Aimed`), so that the sign of the 32-bit difference tells the truth as long as less than
half the range separates them (`ExpiredMeansLate`). And `elapsed` and the prescaler, as
one number of clock cycles, exceed the delay by no more than the cycles since the last
poll that found it running (`InTime`, `Cycles`), which are few ticks. Assumptions:
`TimerAssumption`, `DelayAssumption`, of which `Late < Values \div 2` is the program's own:
polled too seldom, the difference changes its sign again. The same module proves the port
alone, under any access (`Port`, an instance of `GpioSystem`): `GpioInvariance`, whose cases
are before, in and after the one cycle of an access that acts, and `Atomicity` from it.

`Firmware_proofs`, for every set of interrupts, nesting, stack of at least 32 words
and set of frames: `SectionsExclude` from `KeysInv` (of the keys on the way out only
the outermost may be 1, and it is what the program wants; none of isr()'s is), and
`InterruptsRestore` from `MachineInv` (below `sp` nothing is the program's; during
isr() the frame at `sp` holds each register at its slot, and the slots are distinct);
`TypeCorrect` from both and `DataInv`. Assumption: `FirmwareAssumption`.

`PcTestApp_proofs`, for every frame length, ring size, port count, request set and
number of faults: `RingInvariance` (head, tail and size agree; between two bytes the
ring holds less than a frame, so nothing is pushed on a full one), `RingIsWindow`
(each byte goes in at one end and what leaves at the other is what `postPacket` has
taken, wherever the ring wraps) and `NoLostWakeUp` (`TxInv`, strengthened by `TxIInv`:
the buffer is in use exactly while a send is pending, so that a waiting reply always
has a send or a posted `start_write` to wake it, and a receive is armed exactly while
none is handled). `RepliesLeaveInOrder` follows the replies themselves: an operation
that is answered adds its frame to `Replied`, once, no other step changes `Replied`, and
`outbox` grows along it. `AllButServingImplements` is the refinement of `RemoteMemory` for
every step but the one that gives the server a frame. Lemmas on the ring's operators,
`PushAppends` and `PopsDrop`, reduce index arithmetic modulo the size to sequences.
Assumptions: `RingAssumption`, `ClientAssumption` and the others named in the modules.

What is in a frame is recursive over the bytes, and its theorems rest on induction over
Nat (`Induction`, from the library's well-founded minimum) and on what a recursive function
unfolds to (`Recursion`). `CrcFollows` says of `crc16.h`, from its bits, that the register run
over bytes and over their own CRC ends in one fixed value (`Residue`): two registers that
differ by what is fed to them become equal in eight turns, so the value does not depend on
the bytes, and for no bytes it is computed. `PcInvariance` puts the parts together: bytes stay
bytes through cutting, escaping, parsing, serving and sending (`BytesArrive`, `EscapedType`,
`UnescapedType`, `OperationType`), and every reply is a frame with its CRC (`ServerInv`). It yields
`TypeCorrect` (`TypeOK`) and `FramesAreValid` (`FramesCarryTheirCrc`), both under
`RequestsInBounds`, that no request executed so far asked beyond the memory or for more words
than a request holds: the code checks neither (`readWriteProtocol.h:115-148`), and what a
frame made of two halves may ask is not for the client to decide.

Serving is proved for requests of any bytes, escaped or not, and for both builds. The framing
does not bring every byte through (section 6), so the proof says what it does bring:
`BlurredOnTheWay`, by induction over the payload, that unescaping what was escaped gives the
payload with each of 0x7D, 0x7E and 0x7F replaced by 0x5D; `OperationIs` and `AnswerIs` from
it, for a request on its way in and an answer on its way out. `ServiceInv` is the inductive
invariant, and as long as there was no fault it says: the operations executed are the first of
the requests sent, as they arrive, and what is in the ring, the receive buffer, the datagrams
and unsent are parts of one sequence of bytes (`OnTheWay`), that of the frames of the others
(`Carries`). A byte taken from the receive buffer makes the window longer (`ByteTaken`) or
fills it, and then the window is the next frame (`WindowIsFrame`), and it leaves the ring empty
(`FrameTaken`); a datagram, a piece and a new request move or add parts of the sequence
(`DatagramTaken`, `PieceLeaves`, `FrameAsked`). `ServiceInvariance` needs no assumption but those
on the constants; `ServedAsAsked` is what it says of the requests.

`ServedImplements` adds what serving does, after a fault too: `CarryOut` of the operation found
in the frame, with the memory of that moment (`WriteIs`, `ServedCarriesOut`), and before a fault
of the next request (`NextIsServed`). With the lemmas of `AllButServingImplements` this is
`ServiceInBounds`: every step of the stack is one of `RemoteMemory`, unless an operation has been
executed on words outside the memory. The code checks neither the size nor the address
(`readWriteProtocol.h:115-148`), and beyond its end there is nothing to say. `ServiceImplements` is the
same as a refinement, `Spec /\ []RequestsInBounds => ImplementsRemoteMemory`. In `FaultFree`, with
`MaxFaults = 0`, the condition is on the client alone: its requests are within the memory as they
arrive (`ArriveInBounds`; an address that must be escaped becomes another one). The constants
need what they have in the code: `MAX_PORTS` is not 0 (10), a frame fits the transmit buffer
(128 bytes and 512), a length needs no escape (8), and the client numbers fewer than 125
requests, because a number is a byte too.

`Codelock_proofs`, for every keyboard and any number of hold-ups: `TypeCorrect` (`TypeOK`),
`KeysAreSeen` (`EveryKeyIsSeen`) and `OpensOnCode` (`OpensOnlyOnCode`). `ControlInv` is about whose turn
it is: a key is pressed in the call of `input_thread`, and only codelock_thread's next call
looks at it, with no step of the other in between (`CallInv`, `UnseenInv`, `TimersInv`,
`CounterInv`). `MatchInv` says for each place in `codelock_thread` which keys at the end of
`pressed` are the first ones of the code and, without hold-ups, how long ago they came;
`DoneInv` the same of the final wait, with one key more for each time the process was held
up. For `input_thread` held up this is not enough, as a key may be overlooked, and the keys
found would not be the last: there `TypedInv` (the keys pressed are those above the line it has
come to) and `FoundInv` (two keys found means that it is past its first six lines, because an
earlier run of it has left nothing that is still in time) lead from the fourth key to the
three above it. Assumption: `LockAssumption`, the types of the constants.

Checked only by TLC, and why:

* Liveness (`EveryByteArrives`, `EveryAccessEnds`, `Blinks`, `ServedInTheEnd`, `ScriptOpens`, ...):
  fairness and `ENABLED` are out of the prover's reach.
* `FaultCostsTwo` and `ServedInTheEnd`, that is, which requests are carried out after a fault:
  it depends on where in the bytes of a frame the parser starts again, and on the bytes
  there. `ServiceInBounds` covers these steps, but says only that some operation is carried out
  and answered as it should be.

## 6. Disagreements

With a run:

* **Receive register** (`system_drain`). One read of RX_REG empties the FIFO and returns
  its last byte, so the loop of `sw/exampleFastSerial/main.cpp` loses what arrived
  while it was busy.
* **Escaping** (`escape`). `send_packet` escapes as RFC 1662 does; `postPacket` transforms
  the escape byte and drops the one after it, so that whatever was escaped arrives as
  one and the same byte.
* **Initialised data** (`firmware_data`). The copying loop of `crt0.S` sets its pointer
  from the end of the data, so all but the first word is left out.

Met while modelling, with no run of their own:

* `rx_fastserial.v:3-4` allows FSCLK at half of `i_clk`; there the receiver samples a
  bit before it has left the synchroniser. 4 is enough, or 5 for the test bench's short
  start bit; both are what `FastSerialRxLink_proofs` assumes.
* `sw/fastserial.h:11` has TX_FULL at bit 9; `fastserial_wb.v` puts the receive FIFO's flag
  there and the transmit FIFO's at 13.
* A tick of the timer is `timer_divider + 1` cycles, as `PeriodIsExact` says: with the 200 of
  `quadinterface.core`, 201 cycles for what comments call a microsecond. With a
  compare value of zero the interrupt stays high for whole ticks.
* `o_irq` of the timer is unconnected and `timer_irq` has no driver (`quadsoc.v:271`). An
  empty `isr()`, as the examples have, would otherwise be entered again and again.
* A start bit of the test bench lasts half a period; its one byte is received at
  divider 8, but a second right after it, the line commented out at
  `tb/quadsoc_tb.cpp:78`, would be taken shifted. The first comparison of
  `tb/quad_gpio_tb.v` (line 47) is inverted.
* `crt0.S:23-24` writes at and above `_fstack`.
* The receiver computes its CRC over other bytes than the sender, and ignores the
  result (`basicProtocol.h:272-275`).
* The CRC goes into the frame as it is (`basicProtocol.h:213-216`), the payload alone being
  escaped. A byte of it may be 0x7E or 0x7F, and then one fault may cost more than the
  two requests of `FaultCostsTwo`. Let the second piece of a frame be lost and the next frame
  have 0x7E as its second CRC byte: the window slides to that byte, takes it for a start, finds the end
  byte behind it to be no port, and drops three bytes, the start byte of the third
  frame among them (229-239), so that this one is lost as well. With such requests only,
  it goes on so for ever. With 0x7F in that place and a stray byte between its pieces, a
  frame that is a byte too long ends where it should, and what came after the stray byte
  is delivered shifted. `MarkInCrc` is the exception the two
  properties make for this. With no such byte, one fault cannot make the receiver deliver a
  frame made of two; two faults can, when the end of one and the beginning of the next
  are lost.
* The broadcast port is delivered to nobody, and registering it leaves the slot free.
* A datagram of length zero, and a read of more than eight words, go past a buffer.
  `m_sender_endpoint` is shared by the receive and by the replies still queued, which go
  to whoever sent last; the model has one client. The branch for a partial send adds
  the length twice, but UDP has no partial sends.
* The code lock overlooks a key that ended the final half second if it comes to look
  too late (line 234 asks the clock, lines 42-43 promise a lock that stays shut); with
  no hold-up it is right. After a wrong key the lock starts again without counting
  it, so 1, 1, 4, 2, 3 does not open.
* `example-buffer.c` works only because NUM_ITEMS is a multiple of BUFSIZE, and a thread
  that has ended begins again when it is called.

## 7. Not modelled, and what is left

* `rtl/ram.v`, `debug_output.v` and the address map of `quadsoc.v`: a `QuadSocBus` module would put
  all slaves behind one master and say that an access changes only its slave; the debug
  port never acknowledges. The address map itself is in `quadinterface.core`, the decoder is
  `wb_intercon`, which is generated. The reset shift register of `soc_cyc1000.v`.
* `packetNframer.h` differs from `basicProtocol.h` in comments and blank lines only.
  `nativeSerialPort.h` wraps system calls and no program includes it; `transport.cpp`
  includes a header that does not exist.
* `example-small.c` and `example-buffer.c` have neither clock nor input: they run in one way,
  and running them is the test. `pt-sem.h` and yielding and spawning in `pt.h` are used
  by nothing else.
* Two clients, and a second memory access in flight, are outside what the PC program
  is built for.
* Not proved: `FaultCostsTwo`, and liveness. Not bounded: what a fault costs where a CRC holds
  a start or an end byte.
* SERV, `servile`, `wb_intercon`, the fifo core and the PLL are not in the repository or are
  generated; build scripts and pin assignments have no behaviour at run time.
