# A TLA+ verification project for MLAB_MCU_edu

MLAB_MCU_edu is a small RISC-V microcontroller: an Ibex core, two SRAM blocks,
a shared Wishbone bus, an I2C master, a timer, a GPIO block and a UART, a boot
loader in hardware that fills the SRAM from an I2C EEPROM before the core is let
out of reset, and C drivers and test programs that run on it. These modules
model the parts in which several things happen at once, check them with TLC on
small instances and prove with TLAPS what holds for every size.

## 1. The system

| Part | Source | State | Operations | Talks to |
|---|---|---|---|---|
| Boot loader | `rtl/peripherals/bootloader_top.sv`, `i2c_access_fsm.sv`, `wb_access_fsm.sv` | three state registers, memory index, page index, EEPROM address, the word under way, core reset | load the image, write it back (`BOOT_WRITEBACK`), release the core | I2C master and SRAM over Wishbone; master 0 of the bus |
| I2C master | `rtl/peripherals/i2c_master_*.v` | control, transmit, command, shift registers, TIP, RXACK, IF, byte controller | register writes, START, byte, acknowledge, STOP | EEPROM over two wires; interrupt 17 |
| EEPROM | `tb/misc/24CS512.sv` | address pointer, page buffer, write cycle, memory | control byte, address bytes, page write, sequential read | I2C wires |
| Shared bus | `rtl/wb/wb_interconnect_sharedbus.sv`, `core2wb.sv` | outstanding counts, last master, last slave | arbitrate, route the answer | three masters, six slaves |
| Core ports | `rtl/core/ibex_load_store_unit.sv`, `ibex_prefetch_buffer.sv`, `ibex_fetch_fifo.sv` | load/store state, fetches in flight, FIFO | load, store, misaligned split, fetch, branch | `core2wb` |
| SRAM | `rtl/wb/wb_*.sv` | memory | read, write | bus |
| Timer | `rtl/peripherals/pit_*.v` | prescaler, counter, control and modulo registers, flag | count, raise the flag, interrupt | bus; core interrupt |
| GPIO | `rtl/peripherals/gpio_top.v` | synchroniser, edge capture, `INTS`, `OUT`, `OE` | capture edges, interrupt, drive pins | bus, pins, core interrupt |
| UART | `rtl/peripherals/wbuart_no_fifo.v` | one byte each way, flags, control register | receive, send, two interrupts | bus, lines, core interrupts |
| Drivers | `sw/ibex/common/drivers`, `sw/ibex/test/uart_simple/drivers` | handles (state, pointer, count), the timer's shadow register | blocking and interrupt-driven transfers, handlers, callbacks | device registers |
| Start-up, applications | `sw/ibex/common/crt0.S`, `sw/ibex/test`, `sw/ibex/other_test` | flags shared with handlers | vector table, bss, main loops | drivers |

What is hard here is timing between machines that do not wait for each other.
The I2C master raises TIP two clocks after it is given a command and clears its
command register when a command completes, whoever wrote it last; the EEPROM has
no reset line and answers nothing while it writes; the interconnect remembers
one request although one slave takes two cycles; a device may look at the bus
after the request is gone; drivers share handles and registers with handlers,
and change registers with a read and a write that a handler can come between.
`PROJECT.json` lists these hazards, each at its line, with the properties that
would catch them.

What makes each part correct:

- *boot loader*: the core starts, with the image of the EEPROM in memory and
  with the bus free; the copy it writes back is complete and the original intact;
- *I2C master and its users*: a command is neither lost nor taken for done early;
- *bus*: every access gets one answer, its own, and fetches are not starved;
- *I2C driver*: a transfer that is reported done has moved its bytes, all, once
  and in order; calls return; the wires are free afterwards;
- *UART and its driver*: a byte is handed over once and in order, a transfer ends
  and its callback sees it ended;
- *timer and its driver*: the flag rises every period exactly, and the driver's
  shadow of the control register is what the hardware does;
- *GPIO and its handler*: a press is reported once, and is followed by what the
  program does for it;
- *nested handlers*: each returns to what it interrupted, with interrupts as they
  were, and none waits for one it keeps from running.

## 2. Modules

| Module | What it models |
|---|---|
| `I2cMaster` | `i2c_master_top` and `i2c_master_byte_ctrl`, clock by clock |
| `Eeprom` | the 24CS512 at the level of bytes, START and STOP |
| `Bootloader` | the three machines of the boot loader composed with the two above and the SRAM |
| `BootSpec` | what booting promises: the abstract specification `Bootloader` implements |
| `BootloaderProofs`, `BootImageProofs` | theorems about `Bootloader`, the second module built on the first |
| `SharedBus` | core ports, converters, interconnect, acknowledge timing of the slaves |
| `I2cDriver` | the I2C driver's main thread and handler on `I2cMaster`, with the slaves on the wires |
| `FullPeripheral` | the test program of that name on `I2cDriver`, `I2cMaster` and `Eeprom` composed |
| `Uart` | registers, flags, interrupts and bus pipeline of `wbuart_no_fifo`, clock by clock |
| `UartDriver` | the UART driver's main thread, handlers and callbacks on `Uart`, with a peer |
| `Timer` | the PIT clock by clock, the timer driver, a main program and a handler |
| `IntervalTimer` | what the PIT promises: the abstract specification `Timer` implements |
| `Gpio` | input synchroniser, edge capture, interrupt handler and the program `test/gpio` |
| `NestedInterrupts` | the test program of that name: handlers that interrupt each other |
| `SharedBusProofs`, `I2cDriverProofs`, `UartProofs`, `TimerProofs`, `GpioProofs`, `NestedProofs` | theorems about the modules of those names (`UartDriver` for the third) |
| `MC...` | values for the constants |

### Boot loader

The hardware is synchronous, so one clock edge is one action, `Clock`, the
conjunction of one step per machine; each step is a disjunction with one
disjunct per transition. State names, register names and signal names are those
of the source. A state of `bootloader_top` is what `top` holds, `fsm` is that of
`i2c_access_fsm`, `wb` that of `wb_access_fsm`; the combinational signals
(`start`, `we`, `last_read`, `generate_STA`, `w_byte`, `command`, ...) are state
functions of the same names. `Clock` has two inputs: `core_ack` ends the I2C
phase under way and `wr_done` the EEPROM's write cycle. Both are left open, so a
phase may last any number of clocks; that covers every prescaler value. `Reset`
may strike at any clock, bounded by `MaxResets`; it resets what the reset line
reaches and leaves EEPROM and SRAM as they are. The EEPROM may be in the middle
of a command or of a write cycle at power-up.

What is abstracted:

- bytes are `0 .. Radix - 1` for a `Radix` smaller than 256, and an address is
  two of them; a command or status register is the set of its bits;
- the read data path (`dat_o` of the slave, `rdata` of the two lower machines)
  is one register for each kind of read, filled in the cycle the slave samples
  it. Nothing looks at it before the access is over;
- the bit controller is a phase with open duration for each of START, byte,
  acknowledge and STOP. The byte controller's `ST_ACK` is two phases, one for
  each direction;
- arbitration loss, the busy bit and clock stretching are not modelled: there is
  one master, and the EEPROM model does not stretch. One consequence is stated
  as a hazard: a reset while the EEPROM may drive SDA (`EepDrivesSda`: it reads out,
  or acknowledges a byte) is excluded from `Reset`;
- with `BOOT_SKIP` the boot loader only releases the core; the model is the
  build without it.

### Shared bus

A request is a record of the slave it is for, whether it writes, whether it
selects the whole word, and a tag that tells it from the others under way. A
wire or register that may hold one is a set of at most one element. `Cycle` is
one clock. The load/store unit issues one access at a time and, for a misaligned
one, pushes the second half right after the first; the prefetch buffer issues
fetches while its FIFO, counted in half words, has room. `take` and `keep`
stand for the instructions the core executes: how much of the FIFO they use, and
whether a branch overtook a fetch. The acknowledge timing of each slave follows
its source: SRAM and timer in the next cycle; I2C and GPIO in the next cycle
unless they acknowledge in this one; UART two cycles later. The timer's read
data follow the address lines of the answer's cycle and the I2C master writes in
that cycle, which is why the model keeps track of what the lines show.

The boot loader is the third master and has the highest priority; when the core
runs it is off the bus for good (theorem `BusFree`), so two masters are left.
The constants say what the program does: `Access` the accesses it makes,
`Misaligned` those it may make at an odd address (memory only), `FetchFrom`
where it executes. Accesses outside every slave are not made. An access that the
GPIO refuses ends in an error; `errors` counts them, since `core2wb` does not
count such an access down.

### I2C driver

`i2c_master.c` (v0.5) runs against the same `I2cMaster` as the boot loader. An
action is one clock of the device; in it the core either makes one step of the
program or waits. A register access takes two clocks, as the acknowledge of
`i2c_master_top` does: a read samples in the first, a write lands in the second.
`pc` holds where main and the handler are. `StartCall` is the guard of the four
transfers; the blocking ones are `BlockingStep` (send or read a byte, nop, poll,
look at the result), the others `IT_Enable`, `IT_State`, `IT_Fields` and then
the two `..._IT_Sequence` functions, which main runs once and the handler for
every interrupt (`AddressSequence`, `TransmitSequence`, `ReceiveSequence`). The
handler runs when `wb_inta_o` is up, between any two steps of main, and is not
interrupted itself (`mstatus.MIE` is 0 in it). A completion callback does
nothing or starts a transfer. `State` and `IT` are the handle; the data pointer
is the number of the byte it points at, and byte `i` of a transfer is `i`.

- The slaves are external: they may refuse any address or data byte, at most
  `MaxRefusals` in all.
- `Init` has the device as reset leaves it, or as the boot loader does: enabled,
  interrupt flag set, which the boot loader never acknowledges, and the
  acknowledge bit of its last byte, 1 after a load (its own NACK), 0 after a
  write-back (the EEPROM's).
- `ByteOutlasts`: a byte on the wires, 1800 clocks at 400 kHz and 80 MHz, does not
  end while the handler runs or is due, or within the few instructions with which main
  starts a transfer. A START or a STOP, a tenth of that, may. Without this
  assumption a handler could be overtaken by the byte it started.
- `Devices` are the addresses of the slaves. The programs of the repository have
  one, and so has `i2c_driver`; `i2c_two_devices` has two. Addresses are even: bit 0
  of the address byte is the direction, which the code sets with `Address | 0x01`.
- The prescaler writes are left out, and `OC_I2C_WAIT_BUSY` is a wait for the
  slaves to be idle.

### The full peripheral test

`FullPeripheral` extends `I2cDriver` and `Eeprom`: the blocking transfers of the
driver are the same definitions, but the slave is the EEPROM of the boot loader
with its page buffer and write cycle, so that the two are checked against each
other and not against a slave that may do anything. A case of the program's
`switch` is an action. Data byte `i` of a transfer is `i`, as in `I2cDriver`, and
the EEPROM takes the first two for the address. The interrupts of GPIO and timer
are single steps; what happens inside them is the subject of `Gpio` and `Timer`. So
is main's reaction to the button, test, clear and `CTRL = 0`: a press in between sets a
flag that nobody looks at again. The variable `slave` of `I2cDriver` serves as the busy bit here.

### UART

`Uart` has a byte under way on each line, which ends at an open time, and what
`wbuart_no_fifo.v` does with it: `rx_stage` is the path from the receiver to
`RX_DATA`. `UartDriver` makes register accesses of three clocks, as the two-stage
bus pipeline does. `CONTROL |= ...` is a read and a write with anything in
between. Main calls what `MainCall` lists in any order, the callbacks make one
call of `TxCallback` and `RxCallback`. Main does not poll for bytes
while the handler is to receive them; all other calls may overlap. `PROMPT` says
that a byte is read before the next has arrived (87 us at 115200 baud); `uart_late`
and `uart_overflow` drop it. Baud rate, parity and framing are left out.

### Timer

A step of `Timer` is a clock: the PIT counts, and the core does at most one load
or store. A driver function is the sequence of its loads and stores (`timer_set ==
{<<"load", "shadow", "MOD", "CTRL">>, ...}`), the shadow included, which is an
ordinary variable: where the compiler is free, both orders are taken. For
`timer_clear_ctrl` the order is that of the listing in
`test/full_peripheral/build`. `program`, which never changes, is what runs:
`other_test/timer`, whose handler restarts the timer, `test/full_peripheral`, whose
handler stops it, or the first with a main program that also calls `timer_set` and
`timer_en` while the timer counts. With that one the handler can come between a load
and a store of the shadow, which then differs from `CTRL`; `ShadowAgrees` leaves it out,
`ImplementsIntervalTimer` does not. `CNT_EN` and `ENA_INT` are one bit, as the driver
always writes them together.

`IntervalTimer` is a count-down: running, setting, period, clocks left, flag. The mapping
computes `left` from the prescaler's and the main counter; it holds in the first
period as well as later, for a modulo of 0, which counts as 1, and for counters that
a change of the settings put past their end, which count around their width. When
the setting of a running timer, prescaler and modulo, changes, the abstract timer
chooses its next end freely; from then on it is exact again. The setting is a
variable of its own because two settings may have the same period: a change from
one to the other moves the end although the period stays, which a run in which all
periods differ does not show and the proof did.

### GPIO

A step of `Gpio` is a clock, too: the pads go through two synchroniser registers
into `rgpio_in`, an edge into `INTS`, and `wb_inta_o` follows a clock later. A
write of `INTS` wins over an edge. The handler is `read`, `clear` and the two
tests of the callback; main is a loop of test, reset and sweep. `falls`,
`reports`, `owed` and `lost` are history variables; `lost` has the buttons whose last
press the handler cleared without having read it. The next press takes the button out
again, so `Served` excuses that press and no later one.

### Nested interrupts

A state is a stack of frames, main and the handlers that interrupted it, and the
registers `mepc` and `mstatus`. An interrupt pushes a frame when `MIE` is set; the
steps of a frame are the CSR instructions of the two macros in `int.c`, the
accesses of the handler, its waits, and `mret`. `mepc` is the number of the frame
to return to. An I2C transfer is a number of bytes with an interrupt after each. What
the program sends and receives is in the model, as its end depends on it: the control
byte and its acknowledge, the data (1, 2, ...), the EEPROM with the cells of one page,
its address pointer and its write cycle, and the comparison in the receive callback,
which stalls on a difference (`Matching`). A boot with write-back may have left the
EEPROM writing.

`slow`, which never changes, says that a byte does not end while a frame of the I2C
handler is on the stack or a GPIO interrupt waits to be taken, as holds at 400 kHz;
everything else, a change of `OE` or `OUT` included, it may interrupt. Without `slow` a
byte may end at any time.

Some things are coarser than in the code. `i2c_master_tx`, the blocking transfer of the
address in the callback, is one step, which waits until the EEPROM acknowledges. The
start of a transfer (State, interrupt enable, fields, address command) is one step, and
so is the command of a byte with `Data++` and `Size--`; a handler between those, which
only a fast byte could bring, is not represented here, no property depends on it, and
`I2cDriver` has these steps apart. And the STOP after a reception, which nobody polls,
ends like a byte.

## 3. Runs

| Run | Checks | What it shows |
|---|---|---|
| `boot_load` | `CoreStartsWithImage`, `PollOutlastsCommand`, `BusFreeWhenReleased`, `Boots` | Without write-back, from any state of the EEPROM and with a reset anywhere but while the EEPROM may drive SDA, for data or an acknowledge: the core starts, with the whole image in place and the bus free, and no poll ends before its command. |
| `boot_write_back` | `TypeOK`, `EepromInStep`, `ImageIntact`, `WriteBackComplete`, `ImplementsBootSpec`, `Boots` | With write-back: boot loader and EEPROM never disagree on the next byte, the copy is complete, the original untouched, and the whole implements `BootSpec`. |
| `shared_bus` | `TypeOK`, `CountsExact`, `AnswersInOrder`, `I2cWritesWhatWasAsked`, `AccessesEnd`, `FetchesGranted` | All six slaves, misaligned memory accesses and accesses that the GPIO refuses: every answer goes to the port that asked, in order, with the data asked for; accesses end, and the fixed priority does not starve fetches unless an access has ended in an error. |
| `i2c_driver` | `ResultIsFinal`, `TransmitDelivers`, `ReceiveDelivers`, `BusReleased`, `CallsReturn`, `TransfersEnd` | Transfers of both kinds in any order, the handler anywhere: what is reported done was done, the wires are free at rest unless a data byte of an interrupt-driven transmission was refused, and calls and transfers end. |
| `i2c_two_devices` (violation) | `ReachesDevice` | With two devices, an interrupt-driven transmission can go to the one that was addressed before, and be reported done. |
| `full_peripheral` | `ReadsBack`, `TestPasses` | The program reads back what it wrote, although the EEPROM is deaf for its write cycle when the second transfer starts, nothing else in the EEPROM changes, and it ends. |
| `uart_driver` | `ReceivedInOrder`, `SentInOrder`, `SentWhenDone`, `CallsReturn`, `TransmissionEnds`, `ReceptionEnds` | Transfers of both kinds in any order and overlapping, handlers anywhere, transfers from callbacks: bytes arrive once and in order, a transmission is on the wire when the driver says it is done, and calls and transfers end unless an interrupt was left on. |
| `uart_late` | `ReceivedOnce` | A program that polls too late, and enables, disables and resets the ports meanwhile, loses bytes but reads none twice. |
| `uart_overflow` (violation) | `OverflowFlagged` | A byte is overwritten and the overflow flag stays 0. |
| `timer` | `ShadowAgrees`, `ImplementsIntervalTimer`, `Expires` | Exact periods; shadow and hardware agree between calls, whichever clock the interrupt comes in, for the programs that change a timer only while it is off; a counter that was put past its end wraps, and the interrupt comes. |
| `gpio` | `ReportedOnce`, `Served` | Pads that change in any clock: no press is reported twice, and every press is followed by a sweep that began after it, but for one that falls between the handler's read and reset of `INTS`. |
| `nested` | `ReturnsToInterrupted`, `InterruptsRestored`, `BoundedNesting`, `Finishes` | Handlers on top of each other in any order, with and without the assumption on time: each returns where it came from, the depth is bounded by the edges, and whenever the button is pressed the test ends, with the data read back and all eight pins on, but for three situations that the property names (below). |

`TypeOK` of the driver and peripheral modules states what their variables hold; in
`Bootloader` and `SharedBus`, where it also bounds memory accesses and the fetch
FIFO, it is a property of the runs.

Three results are worth a comment. After its last read the boot loader writes the
STOP and does not poll it. With write-back the next command, START and control
byte, can be in the command register when the STOP completes, and is then
cleared with it. It is sent again only because RXACK still holds the
master's own not-acknowledge of the last read (`generate_NACK`); without that
the boot loader would go on with an EEPROM that never saw the START. And the
interconnect, which assumes one-cycle answers and remembers one request,
routes the UART's two-cycle answer correctly only because the count in
`core2wb` holds the bus cycle, and with it the grant, until the answer, and the
core waits for it before it uses the data port again. Last, the I2C driver: both
leftovers, the flag that `OC_I2C_Init` and `OC_I2C_Master_Receive` do not clear
and the START that a STOP still under way wipes, are survived in `i2c_driver` for
the same reason as in the boot loader. Whenever the flag is left set, the
acknowledge bit is the NACK of a last byte read, so a step taken too early finds
no acknowledge and sends the address again. There are two limits to that. It may be
the wrong address: the handler that the old flag triggers, as soon as
`OC_I2C_ENABLE_INT` lets it, runs before the handle has the new one, so it sends the
address of the transfer before. Main then stores the new address and, as RXACK is still
the NACK, writes it with STA and WR, too; but the old address byte is on the wires, and
its end wipes that command. The old device acknowledges, the handler takes that for the
answer to the new address and sends the data, and the callback says done.
With one device the address is the same; `i2c_two_devices` shows a
blocking receive followed by a transmission that the wrong device takes. And after a
boot with write-back the flag is set while the last acknowledge was the EEPROM's, not
a NACK: with `BOOT_WRITEBACK = TRUE` the first interrupt-driven transmission takes that
acknowledge for its address's and violates `TransmitDelivers`, with nothing delivered.
No run shows that, as it has the same cause; the theorems below exclude it by name.

Of the others: the UART's data survive more than its driver promises. When the
handler's "disable interrupt" is undone by a read-modify-write of `CONTROL` that it
interrupted, it runs for nothing, but finds a state in which it moves no byte; what
is lost is time, and main may get none (`LeftEnabled`). In the nested test the
macros save and restore more than they need; what matters is that `mepc` is saved
before interrupts are enabled and restored after they are disabled. Whether
the test ends depends on when the button is pressed, and `Finishes` says exactly how. It
hangs when the timer interrupts the GPIO handler before that has set its flag
(`WaitsForever`; the readme's "wait a bit" avoids it). A pin stays off when a handler sets
it between the read and the write of the frame it interrupted, or just before the GPIO
callback assigns `OE` and `OUT` (`LosesPin`). And a second edge before the callback has
disabled the pin's interrupt runs the callback again, which switches the pins off that
were on by then. Without any one of the three excuses `Finishes` is violated; with them
the test ends in every behaviour, also when the EEPROM is still writing as the address
is sent. In `test/gpio` the order of reset
and sweep is what keeps a press during a sweep; the handler's own two accesses to
`INTS` are the only place where one is lost.

Smaller differences between comments and code, which the models contain and no run
is about: the interconnect's comment has every response one cycle after its request,
and the UART takes two; `OC_I2C_Init` acknowledges an interrupt while the device is
disabled and ignores it, and `OC_I2C_Master_Receive` does so before the STOP that
sets the flag again; `UART_RX_Reset` leaves a waiting byte reported, which then
reads as 0; `UART_Transmit` leaves `gState` at READY, so `UART_Transmit_IT` in a
receive callback is accepted in the middle of it; `timer_set` after
`timer_ack_intrq` starts the timer again, since it writes the shadow with its enable
bit; and the GPIO handler of the nested test, whose loop says `!tx && !rx`, goes on
after the first of the two transfers it says it waits for.

### Bounds

Boot loader: two words of instruction and two of data memory, pages of two
words, so that loading crosses from one memory to the other and the write-back
crosses a page boundary; `Radix` 16, so that both address bytes matter; one
reset, which may fall anywhere, the write cycle it interrupts included. All bytes
of the image differ and none of its words is what the SRAM powers up with, so a
byte that is missing or in the wrong place is seen.

Bus: `NUM_REQS` is 2 as in the core, so the FIFO holds three words; all slaves,
reads and writes, and one store of less than a word to the GPIO, which refuses it.

I2C driver: three transfers of one or two bytes, so that a transfer may follow
another of any kind and be started from its callback, two refusals, so that an
address and a data byte, or an address twice, can be refused. The violation run has
two devices, three transfers of one byte and no refusals: an address for the old
transfer, a receive that leaves the flag, and the transmission.

Full peripheral test: an EEPROM of 16 bytes with pages of four; the data lie at
the end of a page. Two presses, the second a bounce.

UART: three calls and three bytes from the peer, so that a transfer may follow one
of either kind, and its callback start another. A reception that asks for more than
the peer sends does not end (`PeerSilent`).

Timer: three bits for each counter instead of 16 and 15, moduli 2 and 4 next to the 0
of reset, and prescalers that divide by 1 and by 4, so that a modulo and an end of the
prescaler can be set below the counter and two settings have the same period; nothing
bounds the length of a behaviour.

GPIO: two presses of each button and sweeps of two LEDs, so that a press can fall
in a sweep for the same and for the other button.

Nested interrupts: one address byte and two data bytes, so that there are bytes that
are not the last and data can come in the wrong order; two edges when bytes are slow,
so that the callback can be entered twice, and one when they may end at any time. There
an I2C handler may be interrupted by the next byte, and, as a refused control byte is
sent again, without end: `MaxNested` allows three of its frames on the stack.

### Fairness

`FairSpec` of `Bootloader` says that the clock runs, that an I2C phase lasts a
bounded number of clocks (the bit controller counts the prescaler down) and that
the EEPROM's write cycle ends (the part's tWC). `FairSpec` of `SharedBus` says
that the clock runs; that of `I2cDriver` that the clock runs, that the core
executes its next instruction when it is not waiting, and that an I2C phase
ends. Slaves acknowledge in the end because refusals are bounded: the driver
repeats an address for as long as it is refused. Nothing is assumed of the program: it may never load or
store, and it may always do so when it has an instruction. `FpFairSpec` of
`FullPeripheral` adds that the EEPROM's write cycle ends, that the button is
pressed once and that the timer, which `Expires` of `Timer` shows to expire,
interrupts. `FairSpec` of `UartDriver` says that the clock runs, the core makes
progress, a byte on the line ends and the peer goes on sending up to its bound; that of `Timer` and of `Gpio` that the core
executes its programs and takes an interrupt that stays requested; that of
`NestedInterrupts` that the frame on top makes its steps, that interrupts are
taken, that the timer, an I2C byte and the EEPROM's write cycle come to their end, and
that the button is pressed once; a second edge, the bounce, is never owed. `Served` has finitely many presses: without that bound the `else if` of
`test/gpio` lets one button starve the other.

## 4. Proofs

A proof holds for every value of the constants that satisfies the named assumptions
of the modules: memories, pages and EEPROMs of any size, counters of any width, any
image, any number of resets, edges, bytes or outstanding fetches. Every inductive
invariant was checked by TLC on the instance of the runs before it was proved.
`PROJECT.json` lists the theorems; this is how they are argued.

### Boot loader

All invariants of `Bootloader` and its refinement are proved, in five layers, each
inductive given the ones before.

1. `ControlInv` (`BootloaderProofs`): types, `IndexInRange` (`mem_index` is below the
   total wherever it addresses memory; type correctness is not inductive without it,
   as `WRITE_MEM` adds four) and `Handshake` (which states of the three machines go
   together and when an acknowledge can be outstanding). It gives `TypeCorrect` and
   `BusFree`.
2. `PollInv` (`BootloaderProofs`): how far the I2C master is in each state of
   `i2c_access_fsm`. `EngineInv` says which commands its phases belong to, `FsmTop`
   which byte the machine can be busy with, `CommandInv` that the master is quiet,
   has a command it has not begun, or is busy with it, and that a poll in flight
   which shows TIP low finds it quiet. The STOP after the read, which nobody polls,
   is the exception that runs through all three. It gives `PollCorrect`.
3. `AddressInv` and `SessionInv` (`BootImageProofs`, together `BootInv`): what the
   boot loader's counters say about EEPROM addresses, and the state and address
   pointer of the EEPROM in every phase of a byte. `Nacked` says where RXACK must
   still hold the master's own not-acknowledge: with it the proof needs no assumption
   on how long the unpolled STOP takes, and without it the invariant fails in the very
   place the comment in section 3 is about. It gives `InStep`.
4. `ImageInv` (`BootImageProofs`): `BufferInv` (a page buffer that can still be
   committed, by a STOP or by a write cycle that a reset did not end, lies in the
   copy), `ImageIntact` and `LoadInv` (each byte of the image on its way from the
   shift register through `rd_byte` and `data_word` to its place). It gives
   `ImageSafe`, `CoreHasImage` and `BootRefinement`: a clock stores one word of
   `BootSpec`, releases the core, or is a stutter.
5. `CopyInv` (`BootImageProofs`): `EffMem` is what the EEPROM holds when its write
   cycle, if one is under way, is over. The pages before the address pointer are in
   `EffMem`, the bytes of this page sent so far are in the page buffer, the word in
   hand is the image's, and after the STOP the whole page has moved from buffer to
   `EffMem`. It gives `CopyComplete`.

Assumptions: `ByteAssumption`, `EepromAssumption`, `BootAssumption` on sizes, and
`LayoutAssumption`, which states what `boot_defs.svh` chooses: the image fits, the
write address is aligned to a page ("must be aligned with page size"), the total is a
multiple of the page, and copy and image do not overlap. Without the last, `ImageSafe`
is false; without alignment a page would wrap onto itself.

### Shared bus

`Inv` of `SharedBusProofs` says where each request is: `UnderWay` ties the registers of
the interconnect, the acknowledges of the slaves and the ports' queues to the one
request they are about. The proof shows more than was asked: of both ports together at
most one request is granted and unanswered at any time (`OneAtATime`), because a port
is granted again only in the cycle of its answer and `core2wb` holds the bus until
then. So the states of the load/store unit for a second half granted before the first
is answered are never entered, the prefetch buffer never has two fetches in flight,
and a memory of one request is enough in the interconnect. `CountsCorrect`,
`AnswersCorrect`, `I2cCorrect` and `TypeCorrect` follow; `NUM_REQS`, the accesses of
the program and the slaves it fetches from are arbitrary.

### I2C driver

`IInv` of `I2cDriverProofs` says that the driver is always in one of a few situations,
each of which names the places of main and the handler, the write that is on the bus,
and how far the I2C master and the slaves are. There are nine: it starts up
(`StartsUp`), rests (`Rests`), is in the address, a sent byte or a read byte of a
blocking transfer (`CallsAddress`, `CallsSend`, `CallsRead`), or in the address (one
`Addressing` for each direction), the sent bytes (`ItSends`) or the read bytes
(`ItReads`) of an interrupt-driven one. Next to them stand what does not depend on the
situation: types, when `IEN` is set (`Enabled`), whose the handle is (`Owned`), and that
an interrupt the program sees has its flag (`Requests`).

What a command does between the clock in which it is written and the one in which its
end is seen is stated once per kind of byte (`AddressFly`, `SendFly`, `ReadFly`), with
lemmas that a clock keeps it; a situation refers to it. The two leftovers of section 3
are where the invariant is not obvious. `Between` and `StopTail` say that the STOP
nobody waits for may still be in the command register or on the wires at rest, and that
the acknowledge bit is then a NACK. `Addressing` has five alternatives: there was no
acknowledge (`NackAddress`, which covers the START wiped by that STOP and the handler
that runs on a half-filled handle: both send an address again), the address was not
asked for yet, is on its way, has just been answered, or the answer is being looked at.
The address on the wires may be the one of an earlier transfer, which is why
`Addressing` only says that it is an address of the right direction and belongs to some
device of the driver. `ResultFinal`, `TransmitCorrect`, `ReceiveCorrect` and
`ReleaseCorrect` follow, for any devices and sizes and any number of transfers and
refusals, and `ReachesTheOnlyDevice` for one device: with two, the same property is
violated.

Assumptions: `ByteAssumption`, `DriverAssumption` (addresses are even, there are devices
and sizes, and bytes for both), and `BOOT_WRITEBACK = FALSE`, a hypothesis of each theorem,
which cannot be dropped: with write-back `TransmitDelivers` is false.

### UART

What the UART's driver promises depends on the program that uses it, so the theorems
of `UartProofs` have the program as a hypothesis; calls, sizes and bytes are of any
number. `BaseInv` holds for every program: where main and the handler can be
(`FlowInv`), which access goes with which place and what the UART still has of it
(`BusInv`), and types (`DeviceInv`).

`PollsOnce` (`ReceivedOnce`) is for a program that receives by polling in main
(`PollsOnly`, which the calls of `uart_late` satisfy); it may poll late, lose bytes,
disable and reset. `LateInv` says that what is on the wire or flagged is newer than
all the program has, the byte in the CPU's register included. The exception is the
clock in which a byte arrives while the flags of a sampled one are cleared: the flag
is raised once more, but for the byte that was sampled, and the next clock clears it
(`Clearing`). A callback that receives is outside the hypothesis, as it can hand over a
later byte while main still holds an earlier one.

`AllInOrder` (`ReceivedInOrder`) is for a program that reads in time (`ReadsInTime`,
which the constants of `uart_driver` satisfy): each byte is read before the next has
arrived, the receiver is neither disabled nor reset, and the transmitter's callback,
which can run in the middle of a reception of main, starts none. Main may poll, the
handler may read, and the receiver's callback may do either. `OnInv` shows that no
interrupted read-modify-write of `CONTROL` takes `RX_EN` back, `OffInv` that nothing
interrupts before it is set, `ReaderInv` that main and handler never read at the same
time, and `InTimeInv` counts: the bytes that began are the ones handed over, held,
flagged and on the wire, each the next number. The handler, which does not look at
`RX_EMPTY`, is safe because an interrupt implies a flag that nobody else clears.

`SentWhole` (`SentInOrder`) and `SentByThen` (`SentWhenDone`) are for a program that
sends in turn (`SendsInTurn`, which the constants of `uart_driver` satisfy): the
transmitter is not disabled, which would lose a byte under way; the receiver's callback,
which can run in the middle of a transmission of main, starts none; the transmitter's
callback may call `UART_Transmit` but not `UART_Transmit_IT`, whose pointer and counter
the handler still moves after the callback; and sizes fit the 16 bits of `TxXferCount`.
The invariant has four parts. `TxOnInv`: no write of `CONTROL` takes `TX_EN` back, and
until it is set nothing interrupts. `WireInv`: at most one byte is between the program
and the wire, and the three clocks of its write go in step with `tx_empty_n` and
`tx_busy`; `Sent` is what has left, with that byte, so a byte is sent when it is written.
`SenderInv`: main sends, or the handler, or a call of its callback, one at a time, and
each knows which byte was the last (`Reached`); it has to say that a thread which has
read `TX_BUSY` as 0 still finds the transmitter empty when it writes, however long it
was interrupted (`Polled`), and that an interrupt of the transmitter finds it empty.
`SentInv`: the bytes of `Sent` follow each other, and what is done is on the wire.
`QuietOrSends` sorts the instructions into those with a part in a transmission, each
with a lemma of its own, and the others, which need one between them (`QuietKept`).

### Timer

`Refinement` proves that each clock is a step of `IntervalTimer`, from types alone: the
work is in the arithmetic of `Left` (lemmas on counting modulo a width, on a prescaler
that ends, and on one that goes around). `ShadowCorrect` needs `ShadowInv`, which
follows main and handler through the loads and stores of their calls: main is at rest
(`Calm`), has cleared the shadow and not yet the hardware (`Clearing`), changes a timer
that is off (`Setting`) or switches it on when no interrupt can come (`Starting`), and
the handler holds what it has loaded. `TimerAssumption` says that the counters are wide
enough for the end values in use, as 15 bits are for 20000.

### GPIO

`Accounted` counts, for each button, the reports made, the report in the handler's
copy, the bit in `INTS` and the falling edges in the three stages of the synchroniser;
together they never exceed the edges at the pad. A press in `INTS` and in the copy at
once, between the read and the clear, counts once (`CopyIsOld`). `NoDoubleReport`
follows.

### Nested interrupts

`Control` says what each frame has saved and what `mepc` and `mstatus` hold for the
frame on top: everything below the top was interrupted outside the entry and exit code,
where its own saved values are complete. `ReturnsRight` and `NeverLeftMasked` follow.
`NestingBounded` needs `Sources`, one reason per device why its handler does not come
back: the timer's interrupt stays off from its acknowledge to the end, each frame of the
GPIO handler has an edge of its own, and with slow bytes the I2C flag is down while its
handler runs.

### Only model-checked

- Liveness (`Boots`, `AccessesEnd`, `FetchesGranted`, `CallsReturn`, `TransfersEnd`,
  `TransmissionEnds`, `ReceptionEnds`, `TestPasses`, `Expires`, `Served`, `Finishes`):
  it rests on fairness and ENABLED, which the prover does not handle.
- `ReadsBack` of `FullPeripheral`. It would need an invariant of its own: the EEPROM's
  page buffer and write cycle in each situation of a blocking transfer.

## 5. Not modelled, and what is left

`PROJECT.json` lists every part with what is left out of it. Third-party
code the system does not instantiate (the crossbar, the FIFO variant of the
UART), the processor behind its bus ports, scripts and test benches stay out; so
do the older copies of the drivers that some tests carry, where they do the same
as the ones modelled, and the start-up code, which runs before any device may
interrupt.

Of the C sources in the repository three quarters are the headers of newlib, which
hold declarations and no logic of this system, and most of the rest are copies of
the same drivers and register definitions. The logic of the microcontroller itself
is in Verilog. The share of C lines that the map names is small for that reason.

The next proof, if the development is taken further, is that of `ReadsBack`: the lemmas
of `BootImageProofs` on the page buffer and those of `I2cDriverProofs` on the bytes of a
blocking transfer can be used again.
