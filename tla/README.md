# Verification of the CryptoLite-ICE firmware

This directory holds TLA+ models of the firmware in `src/mcu`, the TLC
configurations that check them on small instances, and TLAPS proofs of what
matters most for every value of the constants. The source is the reference:
each definition is translated from the lines `PROJECT.json` gives under `map`.

## 1. Inventory

The board is an RP2040 (the firmware, one thread, no interrupt handlers of its
own), an iCE40UP5K FPGA that delivers raw random bits, and a W25Q32 flash U6
that holds the FPGA's bitstream. RP2040, FPGA and flash share **one** SPI bus.
A USB host sends framed commands.

| Component | State it keeps | Operations | Talks to |
|---|---|---|---|
| `main.c` | the place in the boot and the loop | boot, then `tud_task`, `protocol_task`, `trng_task`, `rng_pipeline_task`, `led_status_task` for ever | calls everything |
| `protocol.c` | receive buffer `_rx`, `_rx_len` | drain the USB FIFO, peel frames, seven dispatch branches | every component below |
| `ice40.c` | CRESET, CDONE, clock, the direction of the SPI pins | init, claim, boot, reboot, attach | FPGA, SPI master |
| `flash_writer.c` | `_in_progress`, `_total_size` | begin, data, end | `ice40.c`, `spi_flash.c`, `trng.c`, `led_status.c` |
| `spi_flash.c` | the contents of U6 | init, unprotect, erase sector, program page | SPI master |
| `trng.c` | ring of 2048 bytes, `_initialised`, `_paused` | init, pause, task, read | SPI master |
| `rng_pipeline.c` | pool of 256 bytes | init, task (refill) | `trng.c`, `nist_health.c` |
| `nist_health.c` | status, run and window counters | reset, feed | none |
| `led_status.c` | `_state`, `_busy_until` | set, task | none |
| `sha256.c` | none between calls | one hash | none |
| `spi_pio.c`, `.pio` | PIO programme, shift registers, two FIFOs | init, write, read | bus |
| `usb_descriptors.c` | constants | none | TinyUSB |
| `host/cryptolite-ice.py` | leftover response bytes, timeouts | the commands, `update_fpga` | USB |
| `rtl/` | reset counter, shift register | one fresh bit per SCK edge | SPI |

### What is hard

There is no preemption, yet the program interleaves with three actors it does
not control: a **host** that may send any command in any state, stop in the
middle of a session, or never read an answer; an **FPGA** that configures
itself from the flash early, late (after the poll for CDONE has given up) or
never; and the **power**, which may fail in the middle of an erase. Handlers
that wait pump the USB stack, so time and the environment move inside them.
State is shared across components with no owner: the bus, the pause flag (set
by `flash_writer.c`, read by `trng.c` and `protocol.c`), the LED state (set by
four files, with a timer), the ring (consumed by `rng_pipeline_task` and by
GET_RANDOM), and the health verdict (computed in one place, used in another).

### What makes each component correct

* `nist_health.c`: the incremental counters give exactly the verdict the
  definition of the two SP 800-90B tests gives on the whole stream; statistics
  are what the header says, or it is known where they are not.
* `ice40.c`, `flash_writer.c`, `trng.c`: never two drivers on the bus; sampling
  only on an attached FPGA; the flash is touched only while the FPGA is in
  reset.
* `flash_writer.c`: an OK of FLASH_BEGIN, FLASH_DATA or FLASH_END means what
  the host takes it to mean; a failed session is visible.
* `rng_pipeline.c`, GET_RANDOM: no OK without a verdict; failures stick; the
  warm-up ends; a dead source is found.
* `led_status.c`: the pattern shown is the state of the board.
* `protocol.c`, `main.c`: frames reach their handlers whole, once and in order;
  every command ends.
* `spi_flash.c`: whatever the chip does, only what a call announces is erased
  and programmed, and every call returns.
* `trng.c`, `spi_pio.c`, `spi_trng_slave.v`: every bit is used once, and comes
  from the read it is returned by.
* `sha256.c`: no byte of a message is lost where blocks end.
* `cryptolite-ice.py`: "OK" is the truth, also for an update that reads answers
  earlier runs left behind; an update that meets none is told how it went, and a
  tool fails only when the board refuses what it asks.

`PROJECT.json` lists the hazards line by line, with the properties that watch
each of them.

## 2. Modules

```
HealthTests90B  <- (refinement) -  NistHealth

Ice40   LedStatus   EntropyPath  <- (refinement) -  RngPipeline
     \      |       /                                    |
       FlashWriter                                 RngPipelineMC
            |                                            |
        Firmware                                       Sha256

FrameQueue    <- (refinement) -  UsbFraming
FlashSession  <- (refinement) -  FlashDriver  <-  FlashDriverMC
                                      |
                                  FlashChip

HostTool      SpiTrng
```

Eight modules have their theorems in a module `X_proofs` that extends them:
`NistHealth`, `Firmware`, `Sha256`, `SpiTrng`, `UsbFraming`, `RngPipeline`,
`FlashDriver` and `HostTool` (section 4).

**`HealthTests90B`** is the abstract promise: over the whole history of
samples, the first position that completes a run of `RCT_CUTOFF` equal samples,
or the `APT_CUTOFF`-th occurrence of the first sample of an aligned window,
decides the verdict. It has none of the code's counters.

**`NistHealth`** is `nist_health.c`: one variable per static, `Reset`, and
`FeedBit` with one disjunct per way out of `nist_health_feed_bit` (already
latched; repetition failure; window opens; proportion failure; passes). `fed`
is a history variable.

**`Ice40`** is the pins: CRESET, CDONE, clock, and whether SCK/MOSI and SS_B
are driven by the RP2040. The FPGA's own action, `FpgaConfigures`, may happen
at any time after its release on a free bus, or never.

**`LedStatus`** is `led_status.c` with the clock reduced to the one comparison
the code makes: whether the BUSY hold is in effect.

**`EntropyPath`** is `trng.c` and `rng_pipeline.c`: sequences of bytes that are
`live` or `stuck`, with the capacities of the two masked buffers (one slot
always free), and the health tests seen at the grain of bytes. A failure means
the repetition test: a stuck run trips it (32 bits) long before the proportion
test could, and live bytes trip neither. `PathSpec` is what the two files
promise whoever calls them.

**`RngPipeline`** is the same two files as they are written: arrays with masked
head and tail, the refill loop round by round, and `rng_pipeline_get_bytes`
with its wait, its verdict and its partial digests. Its main-loop tasks and the
handlers run between two calls. Each byte written carries the raw block whose
digest it is from. It implements `EntropyPath!PathSpec`, so that what `Firmware`
takes from `EntropyPath` holds of the arrays.

**`Sha256`** is `sha256.c`, with 32-bit words as sets of bits. The chaining
value is represented by the bytes it has absorbed, and `Digest` computes it;
`RngPipelineMC` evaluates it on two examples of the standard.

**`FlashWriter`** is `flash_writer.c` with the erase and program operations of
`spi_flash.c`. Addresses count pages; a page is erased, holds the page of a
bootable image that belongs there, or junk. Programming only clears bits, so a
page that is not erased becomes junk unless it is given what it holds. Offsets
are 32-bit numbers: `Plus` is the sum of `flash_writer.c:68`, which wraps, and a
page at a wrapped offset is the one its three address bytes reach. `Operate` is a
command followed by `_wait_ready`: it ends in time, or the wait runs out and the
operation goes on (`overdue` is what it will leave, the pages are in doubt until
then), or the chip is still busy with an earlier one and ignores the command.
`gaveUp` is a history variable.

**`Firmware`** composes them along `main.c` and `protocol.c`. `pc` is where the
one thread is: a handler that waits or loops (GET_RANDOM, FLASH_BEGIN,
FLASH_DATA, FLASH_END, the two polls for CDONE) takes several steps, one per
chunk, sector or page, and the environment moves between them. `resp` is the
answer the last step sent. A handler that only tests and answers is one step.
`endless` holds the command of a frame whose header announces 65532 bytes: its
`total` is 0 (`protocol.c:273`), so that `Dispatch` takes it again and again and
never consumes it.

**`UsbFraming`** is the receive buffer of `protocol_task`, byte by byte: packets
of any size, the FIFO, the two loops, and the 16-bit sum of header and length.
**`FrameQueue`** is what it promises: a queue of frames, up to the first one
that does not fit or that the host abandons.

**`FlashDriver`** is `spi_flash.c` and the flash side of `flash_writer.c` in the
chip's transactions. `todo` holds those of the operation in hand; between any
two the chip may finish, and `_wait_ready` may give up. **`FlashChip`** is the
W25Q32 (external): write enable, block protection, deep power-down, busy, and
the wrap of a page program at the end of its page. **`FlashSession`** is the
promise, without commands: what each call erases and programs. The refinement
maps the contents of the flash to those that the call in hand will leave
(`Eventual`), so that a call takes effect where it begins. When a wait has run
out, `trust` falls to "region": the rest of the flash is still as promised.

**`HostTool`** is `cryptolite-ice.py` against a board: tools that are started one
after the other and may be killed anywhere. The byte pipe (the transmit FIFO,
the armed packet, and the rest of an answer that `_send_response` still holds)
outlives them, as do requests not yet handled, an open session and the flash.
The board comes blank or with an image, answers every request of its session
and refuses the others as the handlers do: BUSY, BAD_LENGTH, FLASH (which resets
the FPGA and pauses the sampling before it fails), and for GET_RANDOM any of
HEALTH_FAIL, HEALTH_WARMING and NO_ENTROPY, the last for certain without an FPGA.
It may refuse more often than the code would, as it does not see the inside of
the tests. The FPGA configures itself within the poll of FLASH_END, later
(`Configures`, while it is `released`) or never. `clean`, `few` and `told` are
history variables: whether the tool found a silent board, what that board has
answered it, and whether what the tools before it left to be read (`LeftBehind`:
bytes on their way, and the longest answer for every request) is no more than
`FEW`: the headers of the answers to an image, and 768 bytes. `few` falls when
`_send_response` gives an answer up.

**`SpiTrng`** is the way of a bit: the two instructions of `spi_pio.pio`, the
loop of `spi_pio_read` with its two timeouts, and on the other side of the wire
the synchroniser, edge detector and output register of `spi_trng_slave.v` with
the reset counter. The fabric's clock and the state machine's are independent;
a change of SCK may be seen in the cycle it happens in, or in the next one.

Definitions named `X_Suffix` are deliberately broken variants of `X`: each
property of a passing run is shown to fail when one of them replaces the
faithful definition.

## 3. Runs

| Run | Module, configuration | Distinct states | Properties | What it shows |
|---|---|---|---|---|
| `health_tests` | `NistHealth`, `NistHealth.cfg` | 8,191 | `TypeOK`, `CountersTrack`, `StatsExact`, `Implements90B` | over every stream of up to 12 bits, with resets, the counters are exact, the verdict is that of the declarative tests, and the statistics are those the header defines but for stated exceptions |
| `session` | `Firmware`, `FirmwareSession.cfg` | 645,992 | `TypeOK`, `SamplingIsSafe`, `ProgrammingIsSafe`, `ConfiguringIsSafe`, `BeginOkMeansErased`, `EndOkMeansRunning`, `RandomOkMeansHealthy`, `PausedIsSignalled`, `IdleMeansReady`, `FlashChangesOnlyWhenOwned`, `ErrorSticks`, `FailureSticks`, `LoopReturns` | any order of commands, a flash that is found or not and whose operations may outlast the driver's wait, offsets and headers that wrap, an FPGA that configures early, late or never, a source that may die, power that fails anywhere and again: who drives the bus, what the flash may become, what answers and LEDs promise, that a failed health test is not forgotten, that every handler ends, and that the loop comes round unless a header keeps it |
| `entropy` | `Firmware`, `FirmwareEntropy.cfg` | 54,516 | `WarmsUp`, `DeathSeenWhilePoolHasRoom` | the byte path under GET_RANDOM commands of up to two blocks and a source that may die at any byte: the warm-up ends, and a death is found while the pool has room, unless a header that wraps stops the loop |
| `framing` | `UsbFraming`, `UsbFraming.cfg` | 378,427 | `TypeOK`, `DispatchesFrames` | however packets are cut, every frame is dispatched whole, once, in order and in the end, until one is abandoned or does not fit |
| `flash_driver` | `FlashDriverMC`, `FlashDriver.cfg` | 168,846 | `TypeOK`, `PresentChipIsFound`, `WrittenVerifies`, `ImplementsSession`, `CallsReturn` | the transactions implement the byte-level session against a chip that may sleep, be locked, be absent or be late |
| `rng_api` | `RngPipelineMC`, `RngPipeline.cfg` | 615,330 | `TypeOK`, `AnswerIsGood`, `ImplementsPath`, `CallReturns` | the arrays implement the queues, an OK means all the bytes, any other status whole digests, no byte is from a stuck block, and every call comes back |
| `host_update` | `HostTool`, `HostTool.cfg` | 1,215,210 | `TypeOK`, `ToldOkIsTrue`, `UndisturbedSucceeds`, `UndisturbedIsTold`, `ToolReturns` | after any three tools that were killed anywhere, an update that met few bytes of theirs and prints OK has told the truth; a tool on a silent board fails only when it is refused, and an update there tells how it went |
| `spi_trng` | `SpiTrng`, `SpiTrng.cfg` | 111,128 | `TypeOK`, `BitsUsedOnce`, `OnlyTimeoutsSpoil`, `ReadEnds` | no bit is sampled twice in any phase of the clocks, only a timeout spoils a read, and every read ends |

Four more runs each check one statement of the repository's documentation and
end in a counterexample; they are discussed below.

### Bounds, and why they are enough

* `NistHealth`: cutoff 4, window 5, proportion cutoff 4, startup 6, at most 12
  bits between resets. Twelve bits cover two whole windows and a part of a
  third, so runs that straddle windows, windows that close under and over the
  cutoff, and failures before, at and after the end of warm-up all occur. The
  theorems cover all the other values.
* `FirmwareSession`: three pages in sectors of two and an image of two, so that
  sizes end inside a sector and the flash may end inside one too (which the
  W25Q32 does not, and the proofs do not ask); six offsets, so that the sum wraps
  at twice the flash; data of no page or one, and two behind a header that
  wraps, which then run over the top. One frame per `protocol_task` (handlers
  start from the loop in every state anyway), power that may fail in any state,
  any number of times, a chip that may outlast any wait, and buffers of one
  block, because here only the verdict and the flags of the entropy path matter:
  the tests pass or fail with the first bytes they get. STATUS and unknown
  commands change nothing and are left to `FirmwareEntropy`. All safety
  properties of this run are also proved without bounds.
* `FirmwareEntropy`: ring and pool of 16 (15 usable), chunks of 4, blocks of
  2, so that the ring's and the pool's capacity are not multiples of the chunk
  (as 2047 and 255 are not of 32), the pool fills up, and the warm-up (10
  bytes, less than the 12 the pool can take, as 128 is less than 224) ends
  just in time. Three frames of up to two blocks per loop let GET_RANDOM take
  more bytes from the ring than `trng_task` puts in.
* `UsbFraming`: a buffer of 4, a FIFO of 3 and a header of 2 units (command and
  length), so that a frame may need several packets and the FIFO may hold more
  than the buffer has room for. Announced lengths are 0, the largest that fits
  (2), one more (3), and one that wraps at 2^16, here 8, to a total of 0 (6).
  Three frames, so that one is peeled with the next behind it and a third
  arriving.
* `FlashDriver`: two sectors of two pages of two bytes of one bit, in one
  block; 32-bit offsets wrap at twice the flash. Totals at and beyond both
  ends (0, 3, 8, 9), offsets 0, 3 (inside a page) and the last before the wrap,
  data of two and three bytes that cross a page, a sector and the wrap.
* `RngPipeline`: ring and pool of 8 (7 usable) with chunks of 3, so that
  capacities are not multiples of the chunk and chunks straddle the end of the
  arrays; requests of 0 to 3 bytes from digests of 2, so that a request needs
  no block, one, a part of one, or two.
* `HostTool`: two images of two FLASH_DATA frames, so that the pipe may hold
  more stale bytes than the 8 of the headers (`few` is false) and less. FIFO
  and packet of five bytes hold one answer and part of a second, so that answers
  lie across the pieces. A real update has 409 frames, so that `few` means 768
  bytes or less, where FIFO and packet hold 576 and an answer has 260 at most.
  With the headers alone (1636 bytes) it would not do: a refusal with BUSY, read
  one byte off, announces a body of 768 bytes (the status as the upper byte of a
  length), in which the verdict of a tool before may lie.
  Without the condition the statement is false: once stale answers outnumber
  the frames of an image, the update reads another tool's answer where it expects
  that of FLASH_END. Four tools: three leave something behind, the fourth meets
  it. The two random values are a plain byte and one that reads as a command.
* `SpiTrng`: bytes of two bits, reads of three bytes, FIFOs of two, so that the
  read is longer than the FIFO. Half a period of SCK is at least `HALF = 4`
  cycles of the fabric: two for the synchroniser, one for the edge, and one in
  which a change may be missed. At 3 `BitsUsedOnce` fails. The real figure is
  24 (1 MHz against 48 MHz); at the 6.25 MHz that comments in `rtl/` speak of
  (`spi_trng_slave.v:27`, `cryptolite_trng_spi.v:56`) it would be 3.84.
* Pages per FLASH_DATA (`DATA_PAGES`, and `LONG_PAGES` behind a header that
  wraps) and blocks per GET_RANDOM (`MaxBlocks`, plus one for the refusal) are
  bounded by the quantifiers of `FlashData` and `GetRandom`; `MaxFrames`,
  `MaxSent`, `MaxAsked`, `MaxTools` and `MaxHalts` bound the frames found at once,
  the frames sent, the bytes asked for, the tools started and the stalls of the
  state machine. `PowerMayFail`, `ChipMayBeLate`, `HeaderMayWrap` and
  `SourceMayDie` switch a part of the environment off where a run is about
  something else; `PowerMayFail` is off in `FirmwareEntropy` because a board
  whose power fails again and again need not warm up.

Deadlock is checked in every passing run: no reachable state is without a step.

### Fairness

* `Firmware`: weak fairness of `Thread` (the processor executes while it has
  power) and of `TimePasses` (a BUSY hold of 300 ms ends). Nothing is assumed
  of the host, the FPGA, the source or the flash: `Configures` and
  `ChipReadyAtLast` may never happen. A wait with a deadline is an
  action that is always possible (`BootTimesOut`), or possible once the hold,
  which is shorter than the deadline, is over (`EndFails`, `RandomTimesOut`):
  that is what the 3 s of `ICE40_CDONE_TIMEOUT_MS` and the 2 s of GET_RANDOM
  against `BUSY_MIN_HOLD_MS` justify.
* `UsbFraming`: the loop runs, and USB delivers what there is room for. The host
  may stop sending.
* `FlashDriver`: the driver runs. The chip need not ever finish.
* `RngPipeline`: the call runs, and two seconds pass when the sampling is paused
  or has not been initialised (strong fairness of `TimesOut`, because the main
  loop's `SetPaused` is a handler that does not run inside a call and the wait
  comes back to the test of its deadline again and again).
* `HostTool`: the board and the tool run, and a read that finds nothing times
  out. Nobody need be killed, or power cycled, and no FPGA configures itself.
* `SpiTrng`: both clocks run and the loop of a read does. The state machine need
  not resume.

### What the counterexamples show

Each of these runs checks one sentence of the repository against the code, and
TLC answers with a behaviour in which the code does something else.

| Run | Property | The repository says | The behaviour found |
|---|---|---|---|
| `stuck_block` | `NoStuckBlockEmitted` | `protocol.c:129`: "16 raw bytes -> NIST health feed -> SHA-256" | line 153 hashes bytes of the ring that no test has seen: a source dies, and a block of nothing but stuck bytes goes out as OK before the pipeline finds the failure |
| `dead_source` | `DeadSourceIsDetected` | `protocol.c:155`: the tests "are still updated continuously by rng_pipeline_task()" | nothing the firmware calls takes bytes from the pool; once it is full nothing is tested, and a source that dies then is never found out |
| `late_init` | `AttachedMeansInitialised` | `trng.h:19-20`: `trng_init` "must be called once after the FPGA has been configured" | a board that boots blank and is then flashed attaches its FPGA, but `trng_init` is called only in `main.c:31-39`: GET_RANDOM answers NO_ENTROPY until the next power cycle |
| `cut_response` | `PrintedIsRandom` | `protocol.c:53-54`: "better to drop the response than to wedge the dispatcher"; `cryptolite-ice.py:204`: "read exactly n bytes" | an answer that does not drain is not dropped but cut: its beginning stays in the FIFO. Two killed `random` tools fill it, the answer to a third is cut off in its body, and the next tool reads the header of the answer behind it as random bytes |

`DeathSeenWhilePoolHasRoom` is what remains true of `dead_source`,
`RandomOkMeansHealthy` what remains true of `stuck_block` (and `AnswerIsGood`
shows that `rng_pipeline_get_bytes`, which GET_RANDOM bypasses, has no such
gap), `ToldOkIsTrue` and `UndisturbedSucceeds` what remains true of `cut_response`. `dead_source` runs
under `FairSpec`; the counterexample is an infinite run of the main loop, not a
board that stops.

The models also show where the code leaves other sentences of the repository, or
what no sentence denies plainly enough. These have no run of their own; the
property named states what the code does instead, and its comment quotes the line.

* `flash_writer.h:9` and 28-29 say that FLASH_BEGIN erases sectors 0 to size.
  `_wait_ready` gives up after 1 s and tells nobody (`spi_flash.c:143-158`): the
  commands behind it are ignored by the busy chip, and FLASH_BEGIN answers OK
  with sectors that are being erased or were never touched. `BeginOkMeansErased`
  holds of a session in which no wait has run out (`gaveUp`).
* `flash_writer.h:32-33` says that offset and length "must fit within total_size".
  The test at `flash_writer.c:68` is a 32-bit sum that wraps: data at an offset
  just below 2^32 are accepted and programmed at the top of the flash. `JobOK` (in
  `TypeOK` of `Firmware`) bounds the job by the wrapped sum only, and
  `ImplementsSession` stops promising anything of the flash at such an offset.
* A header that announces 65532 bytes makes `total` 0 (`protocol.c:273`):
  the loop at line 271 dispatches it for ever. `DispatchesFrames` promises
  nothing from such a frame on (`Wrapped`). `LoopReturns` excepts this loop, in
  which every single command still ends, and so do `WarmsUp` and
  `DeathSeenWhilePoolHasRoom`: nothing is tested any more. As FLASH_DATA such a
  frame carries 65528 bytes of RAM behind the buffer into the flash.
* `rng_pipeline.h:45-46` says that `rng_pipeline_get_bytes` "on health failure
  returns 0". A verdict that turns in the middle of a request ends it with
  HEALTH_FAIL and the count of the digests written before
  (`rng_pipeline.c:117-137`). `AnswerIsGood` says whole digests, not none.
* `nist_health.h:55` and 57 define `bits_seen` as "total bits fed" and `apt_max`
  over "any completed APT window", and `nist_health.c:51-52` stops the tests "so
  the user can inspect the offending values". The bit that trips a test and those
  after it are not counted; the window that the stream ends in is not in
  `apt_max` until another bit opens the next, so never if that bit trips the
  repetition test; and the count that failed the proportion test is in none
  (`nist_health.c:85` returns first). `StatsExact` lists these exceptions.
* A CDONE reported by FLASH_END means an FPGA that is attached and not paused,
  not one that is sampled: that is `late_init`, and `EndOkMeansRunning` says so.
* An FPGA that configures itself after the poll for CDONE has given up
  (`ice40.c:142-153`) runs the image that FLASH_END reported as failed, and is
  neither attached nor sampled. `UndisturbedIsTold` leaves it open after a warning.
* The 300 ms of the BUSY pattern end in IDLE also in the middle of a session
  (`led_status.c:79`), and after a GET_RANDOM on a board without an FPGA;
  `IdleMeansReady` holds outside of sessions on a board that was up once.
* Three hazards have no property that would catch them: the IDLE pattern in the
  cases just named, the frame that the rest of an oversized one is taken for
  (`DispatchesFrames` ends there), and the endless frame, which is modelled and
  excepted.
* An update that runs one answer behind ends in a false warning that the FPGA
  failed to configure (`cryptolite-ice.py:252`): the length 0 of a FLASH_DATA
  answer reads as no CDONE. `UndisturbedIsTold` holds without stale answers, and
  `ToldOkIsTrue` says that few of them never make it err on the other side. A session whose tool was killed
  answers BUSY to every update until a power cycle, as no tool sends FLASH_END
  before a FLASH_BEGIN of its own has succeeded.
* `flash_write` from an address inside a page programs across the ends of pages
  (`spi_flash.c:274-279`); `FlashSession` makes no promise about its region then.

## 4. Proofs

All proofs are checked by TLAPS, for every value of the constants under the
named assumptions of the modules, which TLC evaluates on every run:

| Assumption | It says | The code justifies it by |
|---|---|---|
| `CutoffAssumption` | cutoffs, window and startup length are positive, the proportion cutoff is above 1 | `nist_health.h:27-30`: 32, 512, 410, 1024 |
| `EntropyAssumption`, `PipelineAssumption` | sizes are positive, a block is no longer than a chunk; in `RngPipeline` a block is no shorter than the stuck run the tests allow | `rng_pipeline.c`: blocks of 16 bytes, chunks of 32, a run of 32 bits is 4 bytes |
| `FlashAssumption`, `GeometryAssumption` | an image fits in the flash, and the flash divides the 32-bit offsets and is smaller; in `FlashDriver` whole pages in a sector, sectors in a block, blocks in the flash | the W25Q32: 4 MiB |
| `FirmwareAssumption` | types of the bounds; no frame is as long as the offsets reach | at most 65528 bytes (`protocol.c:273`) |
| `DriverAssumption` | 32-bit offsets, of which the flash is a proper part that they are a multiple of; data no longer than what is left of them beside the flash | `protocol.c:27`: a frame has at most 512 bytes, and 2^32 bytes less 4 MiB are left |
| `FramingAssumption` | the buffer holds a header, and a length of 16 bits may exceed it | `protocol.c:26-27,272` |
| `SpiAssumption` | half a period of SCK is four cycles of the fabric or more | 24 cycles (section 3) |
| `HostAssumption` | no image is empty, no request asks for nothing, a random byte is a byte, and neither erased nor mixed-up flash nor the absence of an image is an image that configures the FPGA | `cryptolite-ice.py` |

The bounds `MaxBits`, `MaxFrames`, `MaxSent`, `MaxAsked`, `MaxTools` and
`MaxHalts` are constants too: the theorems hold for streams, bursts of frames,
requests and tools of any size, and with every switch of the environment on.

| Module | Theorem | Property |
|---|---|---|
| `NistHealth_proofs` | `TypeCorrect` | `TypeOK` |
| | `CountersAlwaysTrack` | `CountersTrack` |
| | `ImplementsTheTests` | `Implements90B` |
| | `StatsAlwaysExact` | `StatsExact` |
| `Firmware_proofs` | `SamplingAlwaysSafe` | `SamplingIsSafe` |
| | `ProgrammingAlwaysSafe` | `ProgrammingIsSafe` |
| | `ConfiguringAlwaysSafe` | `ConfiguringIsSafe` |
| | `TypeCorrect` | `TypeOK` |
| | `BeginOkAlwaysErased` | `BeginOkMeansErased` |
| | `EndOkAlwaysRunning` | `EndOkMeansRunning` |
| | `RandomOkAlwaysHealthy` | `RandomOkMeansHealthy` |
| | `PausedAlwaysSignalled` | `PausedIsSignalled` |
| | `IdleAlwaysReady` | `IdleMeansReady` |
| | `FlashSafe` | `FlashChangesOnlyWhenOwned` |
| | `ErrorAlwaysSticks` | `ErrorSticks` |
| | `FailureAlwaysSticks` | `FailureSticks` |
| `UsbFraming_proofs` | `TypeCorrect` | `TypeOK` |
| | `DispatchesInOrder` | the safety half of `DispatchesFrames` |
| `FlashDriver_proofs` | `TypeCorrect` | `TypeOK` |
| | `PresentChipAlwaysFound` | `PresentChipIsFound` |
| | `WrittenAlwaysVerifies` | `WrittenVerifies` |
| | `Implements` | `ImplementsSession` |
| `RngPipeline_proofs` | `TypeCorrect` | `TypeOK` |
| | `AnswerAlwaysGood` | `AnswerIsGood` |
| | `Implements` | `ImplementsPath` |
| `HostTool_proofs` | `TypeCorrect` | `TypeOK` |
| | `UndisturbedAlwaysSucceeds` | `UndisturbedSucceeds` |
| | `UndisturbedAlwaysTold` | `UndisturbedIsTold` |
| | `ToldOkAlwaysTrue` | `ToldOkIsTrue` |
| `SpiTrng_proofs` | `TypeCorrect` | `TypeOK` |
| | `BitsAlwaysUsedOnce` | `BitsUsedOnce` |
| | `OnlyTimeoutsEverSpoil` | `OnlyTimeoutsSpoil` |
| `Sha256_proofs` | `UpdateTracks`, `FinishPads`, `DigestsPadded` | (operators) |

**Health tests.** The verdict alone is not inductive: whether the next bit
trips depends on the counters. `IInv` ties each counter to the stream
(`CountersTrack`: the run counter is the length of the run the stream ends in,
the window counters are those of the aligned window in progress) and the status
to the first position that trips (`VerdictTracks`). From it every step of
`NistHealth` is a step of `HealthTests90B` with the same stream and status.
`StatsTrack` adds the statistics, as the largest of what the stream has shown
so far: a new bit adds one run and, where the next window opens, one count, and
neither changes what was tested before (`OldStatisticsStay`).

**Bus.** `BusInv` adds to the three properties that sampling which is
initialised and not paused is always on an attached FPGA, not only when it is
about to happen, and, in `PhaseInv`, what each place of the thread has already
done: the polls run with the FPGA released and no session open, FLASH_END polls
with sampling still paused, GET_RANDOM is not entered while paused. Without
`PhaseInv` a failed poll could be followed by anything.

**Types of the firmware.** `TypeOK` is inductive by itself because `JobOK` says
what the command in hand may still do: erase no more than the flash, and
program what ends, as a 32-bit number, inside the announced size. A job from an
offset near 2^32 keeps this on its way over the top, where `Plus` takes it to 0
(`PlusType`). That the ring and the pool never exceed their
capacity follows from lemmas on the operators `TrngTask`, `TakeRaw` and
`RngPipelineTask` are built from.

**Answers and LEDs.** `HostInv` collects what makes the answers true when they
are sent, and the LEDs true between commands. `RingInv`: nothing is in the ring
before the first sampling, so a block that GET_RANDOM reads proves that
`trng_init` was called. `CdoneInv`: the image a configured FPGA came from is
still in the flash and the chip ready: the flash changes only under reset, but
for the end of an operation that outlasted its wait, and on a chip that is still
busy with one the FPGA finds nothing to read. `EraseInv`: FLASH_BEGIN has erased
every page below its counter and the chip is ready, unless a wait has run out. `SignalInv` and
`ErrorInv`: ERROR is shown only while sampling is paused, where GET_RANDOM is
refused, which is the only thing that keeps its IDLE from replacing it. Only
three steps send an answer that promises something (`PromiseSteps`), and
whatever moves while it stands keeps it true.

`VerdictInv` says that the verdict is untested whenever the boot code runs: so the
reset in `rng_pipeline_init` clears nothing, and what `FailureSticks` says of each
step follows from the one place where the tests are fed.

**Framing.** `DispatchesInOrder` is the refinement of `FrameQueue`'s safety
part. Nothing in the buffer alone tells where frames begin, so `InStep` takes
buffer, FIFO and wire as one sequence of bytes and says that it is, until a
frame is lost, the frames sent and not yet dispatched, one behind the other
(`Row`); a packet, a drain and the shift after a dispatch move bytes inside of
it or take one whole frame off its head.

**Flash driver.** The invariant of `FlashDriver` has five parts: the types with
the shapes `todo` can have; the stages of a call; what the driver knows of the
chip while no wait has run out on it; where an operation may strike (`Aimed`:
inside the sectors of the announced size, however the call was cut into
pages and sectors); and what `flash_write` has left for `flash_verify`
(`Kept`). `Implements` maps the flash to `Eventual`, what it will hold when
`todo` is done. That a step leaves `Eventual` alone is where the write enable,
the lock bits, the busy flag and the wrap of a page program count; once a wait
has run out, only the part of the flash outside of the region is still claimed.
Units of sectors and pages meet in lemmas on division, because no prover
multiplies two variables.

**Entropy pipeline.** `WithIs`, `WithoutIs` and `OldestIs` show that an array
with a masked head and tail is a queue: what is written at the head of the array
is what is read at its tail, in the same order, and one slot stays free. On top of
them each step of `RngPipeline` is a step of `EntropyPath` on the queues, or
none; `RefillIs` does so for the whole of the refill loop, whose rounds are
cut by the test that fails. `AnswerIsGood` needs that the pool is `Clean` until
the tests have failed: no run of stuck bytes in it, the part of a run at its
end included, is as long as one that trips the tests. A block is no
shorter than that, so it has a live byte. The library's induction takes
an operator as a parameter, which these provers cannot instantiate;
`SetInduction` is induction over a *set* of numbers, proved by the pigeonhole
principle, and serves for the recursive functions of the model (`Fed`, the rounds
of the loop).

**Path of a bit.** `Clocked` says where the last edge of SCK is in the
synchroniser, as a function of the cycles since: with four cycles in half a
period it has come through before the state machine samples, in every phase of
the two clocks. `Balanced` counts what is under way between `spi_pio_read` and
the wires: one byte inside its loop and none outside, so that nothing outlives a
read that has not timed out.

**Host tool.** Bytes could be lost, cut or left over wherever an answer crosses
the pipe in pieces. `Stream` is what is on its way to the tool: what it has read
ahead, the packet, the FIFO, and what `_send_response` still holds. While `clean`
holds, the stream is empty and the request unanswered, or the stream is exactly
the answer, or the part of it that is still to be read, with the length the tool
counts on (`Undisturbed`). Every step of the pipe leaves the stream as it is
(`FlowReads`, `FlowIs`), the board writes at its end (`WriteIs`), the tool
takes from its head (`ConsumedIs`). A read that times out, or an answer that is
given up, would need a stream that is not there. That the board answers what the
tool counts on, or refuses, is `HandleIs`, command by command, and a tool fails on a
header only if it was refused (`told`). `UndisturbedIsTold` adds to the same
invariant what the board has of the image when each answer is sent, and that an
FPGA which configures itself later can only do so from there.

**An OK behind stale answers.** `ToldOkIsTrue` is about the other case: the
stream starts with bytes of other tools, which the update takes for its own
answers, headers and bodies out of step. Where an answer begins is then unknown,
but not how it ends: the board's last answers are to the update's own requests.
So `Foretold` says what a byte of the stream is by its *distance from the end* of
all that will be read: 4, 0, 0, 0 for each FLASH_DATA, and 5, 0, 1 and 0 or the
verdict for FLASH_END. `Bounded` is the count that makes it work: the update
reads a header at least for each request it sends, so the unread bytes (`Unread`:
the stream, and what requests not yet handled will add) fall by four where the
answer to the next adds four, and once it has sent FLASH_END no more is unread
than its own answers to FLASH_DATA and FLASH_END. The update can then only stop
reading among bytes that `Foretold` fixes, and of those a nonzero byte where it
looks for the verdict is the verdict itself: before any other one is the header of
an answer without a body, or one that announces more bytes than will come
(`Ending` and `Body`, by the distance modulo four). Whether the board has
opened a session for the update or refuses it (`open`) decides what its answers
are. Refused they have BUSY in place of the status: a tool in step fails on it,
and to one out of step they announce 768 bytes or more, which is more than is left
(`RefusedSays`, and why `FEW` is at most 768). `Written` and
`Finished` say that the flash then holds the image: FLASH_DATA writes the
update's image or makes junk, also in the session another tool has left open,
and junk does not configure the FPGA.

**Hashing.** `Tracks(ctx, m)` says that a context holds the message `m`: the
absorbed bytes followed by the buffer are `m`, the absorbed part is whole
blocks, the buffer less than one, and the bit count eight times the length.
`UpdateTracks` shows that `Update` keeps it for any bytes added, in each of the
three ways through `sha256_update`. `FinishPads` then shows that the blocks
compressed by `sha256_final` are the message, the mark, the zeros of FIPS 180-4
and the length, in one block or two. The compression is not proved about:
it is recursive over rounds, and the two examples of the standard are evaluated
instead.

## 5. Only model-checked

* Liveness: `WarmsUp`, `DeathSeenWhilePoolHasRoom`, `LoopReturns`,
  `CallsReturn`, `CallReturns`, `ToolReturns`, `ReadEnds`, and the liveness half
  of `DispatchesFrames`. Fairness and ENABLED are out of the prover's reach.
* What `ToldOkIsTrue` would say without its condition `few`, which is false for
  some sizes (section 3). Every invariant, action property and refinement
  that a passing run checks is a theorem, `DispatchesFrames` in its safety half.
* The compression of SHA-256, by the two examples.
* The violation runs are counterexamples and need no proof.

## 6. Not modelled, and why

* The clock edges of the bit-banged transfers of `spi_flash.c` (fixed sequences
  of pin writes), and stalls of `spi_pio_write`: a transaction with the flash is
  one step.
* Handlers inside `UsbFraming` and `HostTool`: there a frame is handled in one
  step, while `Firmware` has what happens inside. The two halves meet in the
  dispatch of whole frames.
* A flash chip that outlasts the driver's wait in `HostTool`: there FLASH_BEGIN
  and FLASH_DATA do what they say. That an update may then print OK only because
  the FPGA did configure is `EndOkMeansRunning`, in `Firmware`.
* `spi_pio_write_read`, `ice40_reset` and `led_blink`, which nothing calls.
* `update-rp2040` of the host tool: one request whose answer may be missing,
  then a file copy.
* The wrap of the millisecond clock, blink phases, diagnostics counters,
  descriptors, pins, build files, schematics, and the analogue ring oscillators.

## 7. What could follow

1. More of what a step may never do: the ring and the pool lose no byte but by
   `trng_init`, a tool never prints a byte twice.
2. `LedClock`: the LED timer over a wrapping 32-bit clock.
3. A firmware that knows its host: `HostTool` and `Firmware` in one module, with
   `HostTool`'s board as the abstraction that `Firmware` refines.
