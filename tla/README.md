# A TLA+ model of the SID bridge

This directory holds TLA+ specifications of `sid_bridge`: a SmartFusion2
design in which a Cortex-M3 plays a MOS 6581 (SID) sound chip through an
AHB-Lite bridge written in VHDL, and the vendor's firmware drivers for the
processor subsystem. The modules are checked with TLC, and some of their
theorems are proved with TLAPS. `PROJECT.json` maps every definition to the
lines it models.

## 1. The system

| Component | Source | State | Operations |
|---|---|---|---|
| SID bridge | `hdl/SID_BRIDGE.vhd` | one registered record: 16-state machine, `sid_freq`, divider, bus and pin registers | one edge of HCLK; synchronous reset |
| AHB-Lite fabric | `component/Actel/DirectCore/CoreAHBLite/5.2.100` | address register, data phase select, arbiter and `masterDataInProg` per slave | one edge of HCLK |
| SoC wiring | `component/work/SID_PLAYER*` | none | connects MSS, fabric, SDRAM, bridge and pins; two reset domains |
| SDRAM controller | `.../CORESDR_AHB/4.4.107` | vendored | a slave that waits |
| COMM_BLK driver | `firmware/drivers/mss_sys_services/mss_comblk.c` | five states, command and page progress, response buffer, handlers, `request_in_progress` | three senders, `ComBlk_IRQHandler` |
| System Services driver | `.../mss_sys_services.c` | its own `g_request_in_progress`, last length, buffers, saved clock registers, `g_mode` | forty services; in-system programming, which does not wait |
| HPDMA driver | `firmware/drivers/mss_hpdma` | `g_transfer`, `g_hpdma_current_desc`, `g_hpdma_end_desc` | start, pause, resume, abort, completion and error handler |
| UART driver | `firmware/drivers/mss_uart` | transmit buffer, index, sticky status, handlers; mode registers | polled and interrupt driven transmission, reception, settings, baud rate |
| eNVM driver | `firmware/drivers/mss_nvm` | `g_envm_ctrl_locks`, `g_do_not_lock_page`, frequency range | write, unlock, read the write count |
| RTC driver | `firmware/drivers/mss_rtc` | registers only | mode, count, alarm, start and stop, interrupts |
| Timer and GPIO drivers | `firmware/drivers/mss_timer`, `mss_gpio` | registers only | register accesses |
| System initialisation | `firmware/CMSIS` | clock registers, `SystemCoreClock` and the bus clocks | boot, `SystemCoreClockUpdate` |
| C library stubs, HAL | `firmware/CMSIS`, `firmware/hal` | heap end | `_sbrk`, register macros |
| Bus functional tests | `simulation/*.bfm` | | sequences of bus accesses |

There is no application `main` in the repository: the drivers are modelled with
every caller their headers allow, within the limits named below.

How the parts interact. The MSS is the only master of the fabric. It reaches
SDRAM in slot 0 and the bridge in slot 1; every other address goes to the
default slave. The bridge holds HREADYOUT low for the length of an access to
the chip, so that the processor waits. The System Services driver calls the
COMM_BLK driver, which calls back from its interrupt handler; at the other end
of two FIFOs the System Controller answers. Some services change the clock
dividers and the eNVM configuration first, and an event from the controller
gives them back. The HPDMA driver and its engine share four descriptors and two
interrupts. The UART driver shares one record and the registers of a UART with
its interrupt handler, and takes its frequency from `SystemCoreClockUpdate`. The
eNVM driver shares two flash controllers with a master in the fabric. The RTC
driver writes registers that a counter in another clock domain reads.

What is hard. In the hardware: pipelining of AHB-Lite (an address phase
overlaps the data phase before it), wait states of other slaves, a divider that
software may change at any time, reset in the middle of an access. In the
firmware: an interrupt handler that shares its state with the foreground,
events between the bytes of a response, buffers on the stack of callers,
counters of descriptors that wrap around, errors that overtake completions,
status registers that a read clears, registers written in halves while a
counter runs, a lock that another master never gives back, settings that
outlive the service they were made for. `PROJECT.json` lists each hazard at its
line.

What makes each part correct:

* the bridge never fights the chip on the data pads, holds the bus for a bounded
  time, and shows the chip each access exactly once over a stable bus;
* bridge, fabric and master together carry out every acknowledged access once,
  in order, with its own data;
* a service returns the status that answered it, and returns; buffers are
  written to only while their owner waits; what it changed around its exchange is
  given back;
* a DMA transfer moves each word once, in order, and reports success only when
  all are moved;
* a UART sends each byte once and in order, says that it is done only when it is,
  and loses no error; a setting is what the last call that names it asked for;
* a flash write changes the bytes it names and no other, reports what happened,
  and leaves no block behind;
* an alarm rings at what was asked for, and does ring;
* no handler is entered for an event of before the initialisation; a pin begins
  to drive with the level it was given.

## 2. Modules

| Module | Models | Notes |
|---|---|---|
| `SidBridge` | the bridge | `Clock(b)` is one edge with inputs `b`; one action per state of the VHDL `case`, each with the divider |
| `SidTiming` | the bridge under every input | adds two history variables, `stall` and `windows` |
| `AhbFabric` | CoreAHBLite as configured | `FabricClock` is one edge |
| `SidChip` | the 6581 (external) | latches at the fall of phi2 |
| `SidSystem` | master, fabric, SDRAM, bridge, chip | one step is one edge of HCLK for all of them |
| `SidProofs` | | theorems about `SidTiming` and `SidSystem` |
| `SidPort` | abstract: what software is promised | refined by `SidSystem` |
| `Comblk` | the COMM_BLK driver | one action per sender and per branch of the two halves of the handler |
| `SysServices` | the request on top, callbacks, System Controller (external) | extends `Comblk` |
| `SysServicesProofs` | | theorems about `SysServices` |
| `SysCatalogue` | every service as data | command, parameter block, response, what is prepared |
| `SysCalls` | what the services do around their exchange | extends `SysCatalogue` |
| `SysCallsProofs` | | theorems about `SysCalls` |
| `Hpdma` | the DMA driver and the engine (external) | one action per function; `MSS_HPDMA_start` and `MSS_HPDMA_abort` are taken apart into their loops |
| `HpdmaProofs` | | theorems about `Hpdma` |
| `Transfer` | abstract: a DMA transfer | refined by `Hpdma` |
| `Uart` | transfers and interrupts of the UART driver | one access of hardware or record a step, two contexts |
| `UartProofs` | | theorems about `Uart` |
| `ByteStream` | abstract: a stream of bytes | refined by `Uart` |
| `UartConfig` | settings and baud rate of a UART, clock registers | one call a step |
| `UartConfigProofs` | | theorems about the settings and the baud rate |
| `Nvm` | the eNVM driver, the flash and the other master (external) | pages, words and bytes with their own sizes |
| `NvmProofs` | | theorems about `Nvm` |
| `Rtc` | the RTC driver and the counter (external) | a call is the accesses it still has to make |
| `RtcProofs` | | theorems about `Rtc` |
| `Accesses` | kinds of register access | used by the two that follow |
| `MssTimer`, `MssGpio` | the timer and GPIO drivers | a function is the sequence of its accesses |
| `Board` | both, and `UartConfig`, on their processor | performs the accesses, with interrupts in between |
| `MC*` | | instances for TLC |

The names of variables and operators are those of the source where TLA+ allows
it. Some modules hold operators headed "Mutant": wrong versions of the operator
that follows. No specification uses them; they exist to show that each property
can fail.

### Correspondence

*Bridge.* The VHDL process computes `next_reg` from `reg` and the inputs and a
second process registers it, so that a step of the model is a rising edge.
Signals of one bit are 0 and 1, vectors are numbers; `sid_freq` keeps 8 bits
(`% 256`) and `sid_rst_n` one. `HTRANS`, `HREADYIN` and the rest of the bus that
the process never reads are absent, which is what two of the conditions on
callers below are about.

*Fabric.* Of the master stage: the address register and its two states, the data
phase select, the default slave. Of the slave stage: the arbiter's states for
master 0 and `masterDataInProg`. The decoder appears as the slave a transfer
names. Three masters that are not connected and locked transfers are left out.

*COMM_BLK and services.* The senders mask the interrupt: each is one step. The
handler reads STATUS once and serves reception and then transmission: one step
or two with nothing of the foreground in between (`isr`). Waiting loops are
guards. Callbacks leave `Comblk` through `called` and `event`. Bytes are
numbers, for the driver compares them; of commands and bitstreams only the
position of a byte is kept. A service is a record that says what it sends and
what it expects. `COMBLK_TX_DATA` is never entered, because every caller passes
no data, and is left out, as are the branches that only ASSERT.

*Catalogue and calls.* `SysCatalogue` has one definition per service: its
command byte, in which of the three forms it is sent, what is written at which
offset of the parameter block, the length of the response. `SysCalls` takes
the exchange itself for granted, which `SysServices` checks, and models the rest:
`clk_switching_fix` and `revert_clk_config` (all dividers at once on M2S010 to
M2S150, one bit of one divider at a time on M2S005, only a check that they are
alike on M2S060), the eNVM and clock
registers saved before a programming, `g_mode`, `asynchronous_event_handler`, the
request for the number of keys that unlocks eNVM-1. A function that goes through
several services is a sequence of them.

*HPDMA.* A chunk has `Max` words (`MAX_SIZE_PER_DMA_XFR` counts bytes, and the
driver treats it as the unit of the transfer size); there are four descriptors.
`MSS_HPDMA_start` is a step to set up the transfer, then for each descriptor one
to fill it and one to count it, because an interrupt may come between the two.
`MSS_HPDMA_abort` is a step for each descriptor it clears (`AbortOne`, counted by
`inc`) and one for the status behind them (`Abort`); handlers and engine go on in
between. The handlers are one step. The engine is not in the repository; what the
driver relies on is assumed of it: it serves valid descriptors in the order
they were made valid, `HPDMACR_DCP_CLR` empties a descriptor, and the interrupt
flag of a descriptor that is not enabled interrupts nobody. Of two pending
interrupts the completion (27) is taken before the error (28), by number.

*UART.* The foreground and the interrupt handler have a frame each (`ctx`): the
function, the place in it, its locals. `|=` on the sticky status is a load and a
store, with the read of LSR, which clears its error bits, in the step of the
load. Bytes are numbered in the order the application hands them over. The
handlers of the application send (`fill_tx_fifo`), read (`get_rx`) or read the
status that interrupted. In `UartConfig` a register is the set of its bits and a
setting is one step, since no handler writes those registers; arithmetic is on
the numbers of the code, with 32 bits where a product may need them, and the
clock of a UART is whatever `SystemCoreClockUpdate` last made of the clock
registers.

*eNVM.* The argument checks, the conversion of addresses, the protection table
and the request for both blocks are one step up to the first attempt to get
access; then each attempt, each page (filling the buffer, the command) and each
look at STATUS is a step. Offsets are bytes, pages have `BYTES_PER_PAGE` of them
and words `NB_OF_BYTES_IN_A_WORD`, as in the code, with smaller values. A
byte of the flash is the call that wrote it and its place in the data of that call.
The protection of a device is four nibbles under `PROTECT_USER_MASK`, 0x9999.

*RTC.* A function is a straight line of accesses, so that a call is the sequence
of accesses still to be made (`todo`); the counter, the upload of a count and
the stop of the counter take their own time. A 32-bit word is its four bytes.
Dates are those of a short list of instants in turn.

*Timer, GPIO.* As for the RTC, with the accesses of module `Accesses`: bit-band
writes are one access, a read-modify-write is two, and a register that clears
on writing 1 is written through a buffer that only a barrier waits for. `Board`
performs the accesses and interrupts them.

## 3. Runs

Each property of a passing run has a mutant of the code that breaks it.

| Run | Question | Instance |
|---|---|---|
| `bridge` | pads, pins, stall and windows, for every sequence of inputs and resets | `sid_freq` of 3 and 4 (260 in 8 bits), changed between accesses, all inputs each edge |
| `system_bus` | the bus implements `SidPort`; it never hangs | 8 bridge accesses, SDRAM, an unmapped address, up to 2 wait states |
| `services_calls` | services return what answered them, programming completes | FIFOs of 1, 2 and 3 items, pages of up to 3, three services, two status bytes, two events, power-on message |
| `services_clocks` | dividers, eNVM configuration and lock are given back | up to three of all forty services, seven devices of four families |
| `dma_transfer` | the driver implements `Transfer`; transfers end | sizes 1 to 16 with chunks of 2 |
| `dma_large` | finding | sizes 17 and 18: nine chunks |
| `uart` | `Uart` implements `ByteStream`; completion is true; reception is served | six applications, FIFO of 2, buffers of 1 and 3, up to 5 bytes |
| `uart_errors` | finding | the same |
| `nvm` | a call changes what it names, tells the truth, leaves nothing behind | two of 24 calls, pages of 4 bytes and words of 2, four devices, 2 attempts |
| `rtc` | alarms ring as asked, counts are read whole | up to four calls, three instants, counts up to 3 |
| `board` | timers, ports and settings | up to five timer or GPIO calls; up to three settings |
| `uart_loopback` | finding | with the loopback modes that switch off |

The bounds are enough for the following reasons. The divider behaves alike for every
`sid_freq` of 3 or more, except for how long it counts, and TLAPS proves the
properties of the bridge for all 256 values. Bus accesses are told apart by
slave, direction, register and byte; two registers and two bytes show an access
that takes the address or the data of another. Two wait states let an address
wait in the master stage for more than one edge. FIFOs of one item make every
command wait, those of two make a page span interrupts, those of three hold a
command. A service is disturbed by what the one before it left behind, and the
state that outlives a service is the same after any two, so that three calls of
`SysCalls` reach every combination of what is saved and what is in force; the
devices have dividers equal to, below and above the ones switched to. The
descriptors are the four of the source; sixteen words go through all of them
twice, chunks of two have a full and a partial size. In `Uart` a buffer of three
is longer than the FIFO, so that it needs a second interrupt, and one of one is
shorter. The calls of `Nvm` start and end on, before and behind every
boundary there is (word, page, block, protected area, reserved area, end); the
second call meets what the first left. Three instants are the end of a year,
where all fields change, and what follows; four calls are an initialisation, a
setting, an alarm and a start, or one of them repeated. Five calls of a small
driver are an initialisation, a load, an enable, a start and one more.

`CHECK_DEADLOCK FALSE` appears in the runs whose application makes a bounded
number of calls (services, `nvm`, `rtc`, `uart`, `board`): behind the last one
there is nothing left to do.

### Environments

A passing run may rest on a condition on the environment that the code does not
enforce. Each is a constant or a definition, and each was seen to be needed: the
property named fails without it.

* `Follows <- Careful` (`MCSidSystem`): the master pipelines neither behind a
  register write nor from another slave into the bridge. `st_write_reg` does not
  look at HSEL while HREADYOUT is high (`SID_BRIDGE.vhd:163`), so that an access
  behind it is acknowledged and has no effect; HTRANS and HREADYIN are not
  looked at (`:135`), so that an access behind a slave that waits starts early.
  `ImplementsPort` fails. The bus of the Cortex-M3 does pipeline; the condition
  is one on software.
* `SafeDivider` (`SidTiming`), by `SafeWords`: `sid_freq` is 3 or more. Below, the hold states
  outlast the low phase and the chip sees a second window (`OneWindow`).
* `Patient` (`SysServices`): the first service is called after the power-on
  messages have been read. Without it, the flags are read from a buffer the
  driver no longer writes to.
* `Orderly`: the controller answers a bitstream behind its end, or, ahead of it,
  when the FIFO is full, and takes nothing more before its answer has been read.
  Without it an answer whose two bytes are read in different states of the
  driver is lost (`IspCompletes`).
* `Payload <- Plain`: no response holds the byte 0xF1 (`mss_comblk.c:587`). One
  that does never completes (`CallsReturn`).
* The premises of `CallsReturn`. The driver is free: behind an in-system
  programming it never is again, for only one of the two flags
  `g_request_in_progress` is cleared (`mss_sys_services.c:1258`). The command
  fits into the FIFO: the rest of a longer one is left to an interrupt that
  `MSS_COMBLK_send_cmd` does not enable (`mss_comblk.c:257`).
* `Disabled` (`SysCalls`): the controller refuses no service that switches
  clocks. A refused Flash\*Freeze leaves the dividers as they are, because only
  the exit event gives them back (`ClocksRestored`). `spoilt` marks an M2S060
  whose dividers are not alike: a programming service then ends in
  `CLK_DIVISOR_ERROR` with the registers of programming in force.
* `Slow` (`Hpdma`): no chunk is moved before `MSS_HPDMA_start` is done. A
  completion while it is in its loop makes handler and loop fill the same
  descriptor (`mss_hpdma.c:175`, `InOrder`). While `MSS_HPDMA_abort` is in its
  loop the current descriptor may complete or fail at any place, but the engine
  does not get through to a chunk whose forerunner has been cleared: that chunk
  would be moved without the one in front of it.
* `Careful` (`Uart`): the application leaves the enables alone while it
  transmits, because `MSS_UART_enable_irq` and `MSS_UART_disable_irq` write back
  an IER in which `default_tx_handler` has cleared a bit (`AssertsHold`). It also
  hands over one buffer at a time. It does not disable interrupts in LIN
  mode: `MSS_UART_disable_irq` sets the bits of IEM (`mss_uart.c:506`), and an
  interrupt without a handler asserts (`LinApps`).
* `LoopbacksOn` (`MCBoard`): the settings that end a remote loopback or an echo
  are left to `uart_loopback`.
* `OneDriver` (`Board`): an application uses the timers as two of 32 bits or as
  one of 64 (`mss_timer.h:431`). Handlers only clear their source: one that sets
  a pin can have its change undone by the foreground, as `mss_gpio.h:299` warns
  of the register.
* A UART keeps its baud rate registers when the clock is switched: `BaudNearest`
  is stated of the clock at the time of the call.

What is assumed of hardware that is not in the repository: the RTC's start takes
effect at once, its wake-up is level-sensitive at the NVIC, and whether the
comparator looks at a count that was there before it was enabled is left open;
the flash reports status bits only behind the two reads that `wait_nvm_ready`
makes; a modem interrupt stays until its register is read, and a LIN or smartcard
interrupt until the handler has read which one it is.

### Fairness

`FairSystemSpec`: the clock runs. `FairServicesSpec`: weak fairness of the interrupt
handler, of the foreground within a service, and of the controller; nothing
obliges software to call a service. `FairSpec` of `Hpdma`: weak fairness of the
steps of `MSS_HPDMA_start`, of the loop of `MSS_HPDMA_abort` once it is entered,
of both handlers and of the engine on descriptors
that are not paused; nothing obliges the engine to fail nor software to abort,
and `TransferEnds` leaves out the transfer that stays paused. `FairSpec` of
`Uart`: the processor goes on with the context it is in, and the transmitter
shifts; bytes need not arrive. `FairNvmSpec`: the processor goes on, and a command
of the flash ends; nothing makes the other master give a block back, and a call
returns all the same. `FairSpec` of `Rtc`: the counter counts, stops when told to
and uploads; thread and handler go on.

## 4. Findings

Statements of the code's own documentation that its behaviour contradicts, each
with a run that shows it; `PROJECT.json` quotes the statements.

1. `mss_hpdma.c:334`: the ninth chunk goes to a fifth descriptor and is lost
   (`dma_large`).
2. `mss_uart.c:389`: an error that the interrupt handler keeps while the
   foreground keeps another is lost (`uart_errors`).
3. `mss_uart.c:587`: `MCR &= ~RLOOP_MASK` clears bits 1 and 2, not the two it
   names; remote loopback and echo stay on (`uart_loopback`).

The conditions under "Environments" that cite a line are further places where
what software may expect is more than the code does. Two more are in
the models as the code has them, and no property forbids them:

* `mss_hpdma.c:265`: the handler takes the cleared descriptor behind the current one
  for the end of the transfer. A completion while `MSS_HPDMA_abort` is in its loop
  can then call the handler of the application with `HPDMA_COMPLETED` for a transfer
  of which words are missing. `Transfer` allows this while an abort is under way
  (`Complete`) and not otherwise.
* `mss_nvm.c:966`, `1061` and `1244` set `g_do_not_lock_page` for `NVM_unlock` (387) and
  `NVM_read_page_write_count` (801) as well, and only `NVM_write` clears it (159,
  291). It stays set behind the other two; `NVM_write` is the only one that reads it,
  after it has cleared it.

Smaller differences met while reading, without a run:

* `mss_rtc.h` allows a prescaler up to 2^26; the code rejects 2^26 itself.
* `mss_rtc.h` swaps the names of the single-shot and the periodic alarm in the
  description of `MSS_RTC_set_binary_count_alarm`.
* A binary alarm of 2^43 or more is accepted and never rings.
* `MSS_RTC_init` clears the pending interrupt (`mss_rtc.c:102`) before its source
  (`:105`); `mss_rtc.h:221` says that it leaves none pending.
* `MSS_TIMx_clear_irq` is said to clear the NVIC too; the code clears the timer
  only. `MSS_TIM64_init` does not clear `TIM64_RIS`.
* The fraction written to DFR may be 64, when the divisor is just below an
  integer.
* `SystemCoreClockUpdate` reports the CCC2 ASCI clock as 1 MHz.

## 5. Theorems

Eight modules hold the theorems: `SidProofs`, `HpdmaProofs`, `UartProofs`,
`UartConfigProofs`, `SysServicesProofs`, `SysCallsProofs`, `NvmProofs` and `RtcProofs`;
`PROJECT.json` lists them. Constants are only assumed to be what the declaring
modules' named assumptions say, and every invariant was first checked by TLC,
which also evaluates those assumptions.

**The bridge** (`SidProofs`), for every set of addresses, words and pad
values within the widths of the bus, resets at any edge, and every value that
`sid_freq` has or is given:

* `Typing`: every register stays in its range.
* `PinsInvariant`: pins and HREADYOUT agree with the state. This one is
  inductive given the types, and `NoContentionAlways` follows from it: a state
  that drives the pads is a state of a write, and the chip drives in those of a
  read.
* `StallInvariant`, `StallBoundedAlways`: HREADYOUT is low for at most three
  phases of sid_clk and four edges. The bound itself is not inductive; the
  strengthening `StallBudget` adds to the edges waited the greatest number of
  edges still needed from the present state and divider (`Latency`), and this
  sum never grows.

Under `SafeDivider` (`sid_freq` is never below 3):

* `WindowsInvariant`: where the divider stands in each state, and the windows
  the chip has seen. From it follow `OneWindowAlways` (an access shows the chip
  exactly one window) and `PinsHeldAlways` (over a stable bus). The invariant is
  needed because both depend on the last states being passed within the low
  phase in which the window closed.

**The bus** (`SidProofs`), for every set of transfers, any number of wait
states of SDRAM and any answer of the chip, with a master and software that are
`Disciplined`: what `Follows` and `SafeDivider` ask for (section 4). The inductive
invariant `IInv` has four parts beside the types:

* `Phases`: the fabric knows the slave in the data phase and only that slave makes
  the master wait; hence no address is ever set aside (`addrRegSM` stays `IDLE`)
  and the slave that is addressed is ready when the master moves on.
* `Agreement`: the bridge is at work on the access in the data phase or on none,
  and one it is done with has its result on the bus. That the bridge takes an
  address only together with the master follows from both (`InTurn`); it is where
  `Disciplined` is needed, because the bridge looks neither at HTRANS nor at
  HREADY.
* `Windows`: where the divider stands in each state; the window closes in the third
  states only.
* `Data`: which byte is on the data lines, in the bridge and in the chip.

From it follow `AlwaysStartedInTurn` and, with one lemma for each kind of edge,
`PortImplemented`: `SystemSpec => ImplementsPort`, where the access is carried out
at the edge that closes its window. `SidPort` has no fairness, so this is the whole
refinement.

**The DMA driver** (`HpdmaProofs`), for every chunk size, every set of transfer
sizes and both addresses, under `Undisturbed`: `Slow`, and no transfer of more
than eight chunks, the condition that the finding of `dma_large` puts on callers.
The inductive invariant is `IInv == TypeOK /\ InOrder /\ Bookkeeping`. `InOrder`
speaks of the past and `NothingLost` of a sum; neither says where the next chunk
goes. `Bookkeeping` does. Outside an abort it is
`InTurn`:

* `Window(m)`: from `current_desc` on, around the ring, come `m` descriptors that
  have completed, then those in flight in the order of the engine's queue; the
  interrupt of a descriptor is enabled if and only if it is one of these.
* `Chain`: the first chunk in flight starts at the next word in order, each other
  one where its predecessor ends, and the last ends at what has been handed out.
* `Room(m)`: `end_desc` leads to a free descriptor. Here the bound of eight
  chunks is used: the remainder fits into the descriptors ahead of the index at
  which `end_desc` would leave the ring.

While `MSS_HPDMA_abort` runs it is `Aborting`: the descriptors with an interrupt
enabled are those in flight or completed, none of them below `inc`; the first of
the queue follow `current_desc` in order, each where its predecessor ends (`InLine`),
and those behind them come before `current_desc`. As the loop clears from 0 upwards,
these go first, a chunk that a completion still hands out goes to the descriptor it
comes from, and when the loop is over nothing is in flight.

There is one lemma for each action, and two for those that an abort lets through.
From `IInv` follow `Typing`,
`BookkeepingHolds`, `MovedInOrder`, `NothingIsLost` (the chain adds up),
`ErrorIsFound` (no completion pending means `m = 0`, so that the head of the
queue is the current descriptor), `EndIsIdle`, and `KeepsThePromise`: every step
is a step of `Transfer` or changes nothing that it speaks of, hence
`Spec => ImplementsTransfer`.

**The settings of a UART** (`UartConfigProofs`), for every set of baud rates, line
settings, time-outs and addresses, any number of calls, and every clock:
`SettingsAlwaysAsAsked`. The proof says where each of the sixteen settings is kept
(`Kept`) and that a setting stays where its bits and registers do (`Unaffected`); then
each function is shown to write one setting of the bits it shares (`Bits`, `Remote`,
`Values`, `TimeoutsOn`, `TimeoutsOff`), and `global_init` to leave nothing but the
line, the baud rate and RXRDY_TXRDYN_EN (`Opened`), whatever divisor it writes
(`DivisorsOnly`), to which the four initialisations add their mode (`Initialised`).
The invariant that carries this is only that the registers are the twelve there are.
The theorem assumes that the application does not call `MSS_UART_set_loopback` with
`REMOTE_LOOPBACK_OFF` or `AUTO_ECHO_OFF`, which is what the run `uart_loopback`
shows to be wrong; the run `board` leaves the two out likewise.

**The baud rate** (`UartConfigProofs`), for every state of the clock registers,
every baud rate and every bus clock below 2^29 Hz (`ClockFits`: eight times the
clock fits into the 32 bits of the code): `BaudNearestAlways`. `config_baud_divisors`
computes the divisor times 128, then 64ths of it, then the integral part and
the rest, each by a division that cuts off. The lemmas show that cutting twice
is cutting once, that integral part and fraction add up to the divisor in 64ths
rounded to the nearest, and hence that no multiple of 1/64 is nearer. A divisor
of 0 or 1 is written without its fraction and is left out of the property.

**UART transfers** (`UartProofs`), for every FIFO depth, all buffer sizes, any
number of bytes received and all applications that are `Considerate`: `Careful`
(they leave the enables alone while they transmit, because the driver reads
and writes them back), and where a multimode interrupt can be on, none has a
transmit handler of its own nor calls `MSS_UART_disable_irq`, which sets the bits
of `IEM` that it is to clear. What the property says of the past has to be recovered from where
the two contexts stand, so `IInv` has three groups of parts, each inductive only
with the others:

* Control: `Contexts` and `Entered` (which call, access and handler each context
  can be in; the handler an interrupt is in is the one registered), `Enabled`
  (which bits of `IEM` may be set), `Configuring`.
* Line: `Consecutive` (what was sent, the shift register and the FIFO are
  consecutive numbers that end at the last byte written), `Room` (a context
  that is about to fill the FIFO has seen it empty and nobody else has filled it).
* Who owns the rest of the buffer: the foreground while the interrupt is off
  (`Polling`, `FillingOnce`, `Handing`, `Registering`, `Idle`), the handler while
  it is on (`Sending`, `Serving`, `Quieted`, `Completing`), and never both.

From it follow `CompleteMeansSentAlways`, `AssertsAlwaysHold` (the driver's own
`ASSERT`s), `ReceivedInOrderAlways`, and `StreamOfBytes`: every step is one of
`ByteStream` or changes nothing it speaks of. This is the safety part of
`ImplementsStream`.

**A service and its answer** (`SysServicesProofs`), for every set of services, every
depth of the FIFO, every page, messages of the controller at any time, any bytes in
its responses (0xF1 as well) and any order in which it takes and answers
(`Orderly` or not). Only `Patient` is needed (section 4). An opcode stands for
commands of one length and is none of a message; a response has an opcode and a
status. `IInv` is `TypeOK` and `Turns`: foreground, driver and controller are
together at power-up, at rest, in a service (`Serving`) or in an in-system
programming (`Programming`). In these

* `Commanded(s)`: what the controller has of the frame and what is in the FIFO are,
  one behind the other, the command of `s` as far as it has been sent. Whether the
  foreground or the handler has sent it makes no difference.
* `Unanswered`, `OnItsWay`, `OpcodeHere`, `StatusHere`: where the answer to `s` is.
  The status is behind the opcode with messages at most in between, and messages
  are recognised in every state of the driver in which they can be read.

From it follow `CommandsArrive`, `ResultsAreAnswers` and `BuffersLive`.

**Around a service** (`SysCallsProofs`), for all devices, settings of the dividers
and requests. `IInv` says how callers and controller alternate (`Turns`), that the
registers of programming are set and given back in pairs (`Programmed`), and
where in its sequence each divider stands (`Designed`, `Divided`, `WalkingOut`,
`WalkingBack`). Whatever the controller refuses: `TurnsAreTaken`,
`BlocksAlwaysWellFormed`, `AlwaysPrepared`, `AlwaysOneBit`. `ClocksAlwaysRestored` holds
with a controller that refuses no service that switches clocks, and
`LockAlwaysReleased` with one that does not refuse
`MSS_SYS_puf_get_number_of_keys`: after such a refusal the functions return without
undoing what they did, and section 4 says so of the runs.

**The eNVM driver** (`NvmProofs`), for every page size, every set of pages,
protected pages and calls. Offsets and lengths are natural numbers: `offset +
length` does not wrap as it could in 32 bits, which a caller has to see to.
`IInv` gives, for each place of a call, the block it is to have and the lock
bookkeeping that goes with it (`Held`), the range done and left (`Position`,
`WithinRange`), what the device was told and said (`Commanded`, `Reported`,
`Permitted`) and what is in the assembly buffer and in the array (`Stored`,
`Opened`, and `Between`, by which the frequency range is that of the design whenever
no call is under way). `g_do_not_lock_page` is part of no invariant: it may be on or off
between calls (section 4). From it follow `ExclusiveAlways`, `NothingIsLeftBehind`,
`StatusIsAlwaysTrue`, `ProtectedUntouchedAlways`, and, as an action property,
`OnlyTheRangeAlways`.

**The real-time counter** (`RtcProofs`), for every radix and upper bound of the
binary count, every calendar, set of dates, alarms and counts, and any number of
calls, with the counter, the uploads and the handler between any two accesses.
Every function is a sequence of accesses, so that what a call will do is read off the
accesses it still has to make, and the parts of `IInv` speak of these and of the
registers together:

* `Setting`: the alarm is off when its registers are written (`OffFirst`), and where
  it is about to be turned on, that is the last access, and by then the registers
  hold the request (`Pledged`), including one that stops the counter to write the
  mode and so puts accesses in front of the rest.
* `Armed`: the alarm is on exactly when a request is in force, and the registers
  then hold the words and masks of its date, or of its count.
* `Awaited`: an upload is under way only while the call that asked for it waits for it.
* `Reading`: the bytes not yet read are still going to be, the first byte of the upper
  word last; no upload comes in between; and those that were read are, as long as the
  flag is clear, the bytes there are.

That each function is such a sequence is proved once for each (`Proper`); that four
applications of `add_alarm_cfg_values` make a mask and a value that match only dates
with the fields asked for is the lemma `FindsWhatIsAsked`. From `IInv` follow
`RingsAsAskedAlways` and `WholeReadAlways`.

Model-checked only, because liveness under fairness is beyond the prover:
`BusNeverHangs`, `CallsReturn`, `IspCompletes`, `TransferEnds`, `ReceptionServed`,
`NvmCallReturns`, `AlarmRings`, and the fairness in `ImplementsStream`.
Model-checked only for the present: the safety properties of `Board`,
`NoStaleInterrupt` and `DrivesAsAsked`.

## 6. Plan

In this order:

1. `NoStaleInterrupt` and `DrivesAsAsked` of `Board`, by what each access still to be
   made is a part of, as in `RtcProofs`. The loop of `MSS_GPIO_init` is a fold over
   the ports, about which nothing can be proved by induction here; it has to become
   a function of the index first.
2. A reset of the bridge in the middle of an access of `SidSystem`.

## 7. Not modelled

* The SDRAM controller beyond its wait states, the other DirectCore IP, the
  generated clocks and primitives (vendored or without logic); the HAL (macros);
  the C library stubs (I/O and a heap pointer).
* Start-up code: it copies and clears memory once, and every
  `CONFIG_BY_CORTEX` option of `sys_config.h` is 0, so that most of `SystemInit`
  is compiled out. What it does to the clock registers is in `UartConfig`.
* `SysCalls`: the write of `RTC_WAKEUP_CR` in `MSS_SYS_flash_freeze`, the wait for a
  clock switch inside `isp_page_read_handler`, and zeroization, which ends with
  the device erased (it is in the catalogue).
* DMA handlers that call the driver; a chunk that is cleared when it has been
  moved in part, which counts as not moved.
* UART: one that is set up again while it transmits, and
  `MSS_UART_set_loopback` from a handler.
* eNVM: devices whose version the driver does not know, for which it checks
  nothing.
* RTC: the value of the prescaler, beyond its check.
* GPIO: input values and the type of an input, which the driver only passes on.
* Timer: the count itself; of a load value only that it was written.
