-------------------------------- MODULE Firmware --------------------------------
(***************************************************************************)
(* The firmware as main.c and protocol.c compose it: one thread that boots *)
(* the FPGA and then repeats tud_task, protocol_task, trng_task,           *)
(* rng_pipeline_task and led_status_task for ever.  A command handler runs *)
(* to its end inside protocol_task; those that wait (for entropy, for the  *)
(* flash, for CDONE) pump the USB stack, which only fills its FIFO, so     *)
(* that the environment moves meanwhile but no second command runs.  pc    *)
(* says where the thread is.                                               *)
(*                                                                         *)
(* The environment: a host that sends any command at any time, behind any  *)
(* header, an FPGA that configures itself late or never, a flash chip that *)
(* is slower than its driver waits, a source that may die, time that ends  *)
(* the BUSY hold, and power that may fail at any step.                     *)
(***************************************************************************)
EXTENDS FlashWriter

CONSTANTS HostCommands,    \* the commands this host sends
          MaxFrames,       \* bound on the frames one protocol_task finds
          MaxBlocks,       \* RANDOM_PER_CALL_MAX / RNG_BLOCK_OUT_BYTES (8)
          DATA_PAGES,      \* (RX_BUF_BYTES - 8) / FLASH_PAGE_SIZE  (4)
          LONG_PAGES,      \* 65528 / FLASH_PAGE_SIZE, rounded up (256)
          PowerMayFail,    \* whether power may fail, at any step and any number of times
          SourceMayDie,    \* whether the entropy source may die
          HeaderMayWrap    \* whether a header may announce 65532 bytes

Commands == {"STATUS", "GET_RANDOM", "FLASH_BEGIN", "FLASH_DATA", "FLASH_END",
             "REBOOT_BOOTLOADER", "OTHER"}

ASSUME FirmwareAssumption ==
    /\ HostCommands \subseteq Commands
    /\ MaxFrames \in Nat /\ MaxBlocks \in Nat
    /\ DATA_PAGES \in 0 .. (OFFSETS - 1) /\ LONG_PAGES \in 0 .. (OFFSETS - 1)
    /\ {PowerMayFail, SourceMayDie, HeaderMayWrap} \subseteq BOOLEAN

VARIABLES pc,         \* where the thread is, see PC
          pending,    \* complete frames protocol_task has still to dispatch
          endless,    \* the command of a frame that is never consumed, or "none"
          job,        \* what the command in hand has still to do
          resp        \* the response the last step sent, if it sent one

vars == <<fpgaVars, ledVars, entropyVars, writerVars, pc, pending, endless, job, resp>>

PC == {"boot", "boot_poll",                     \* main before the loop
       "drain", "peel",                         \* protocol_task
       "random",                                \* _cmd_get_random
       "flash_init", "erase",                   \* flash_writer_begin
       "program",                               \* flash_writer_data
       "end_poll",                              \* flash_writer_end
       "trng", "pipeline", "led",               \* the rest of the loop
       "bootsel"}                               \* reset_usb_boot

Statuses == {"OK", "BAD_CMD", "BAD_LENGTH", "BUSY", "FLASH", "HEALTH_FAIL",
             "HEALTH_WARMING", "NO_ENTROPY"}

NoReply == [cmd |-> "none", status |-> "none", info |-> "none"]
NoJob   == [left |-> 0, at |-> 0, data |-> "none"]

(* What a payload says beyond the status: the CDONE byte of FLASH_END, and *)
(* whether GET_RANDOM hashed a block of nothing but stuck bytes.           *)
Infos == {"none", "cdone", "stuck"}

Reply(cmd, status, info) ==
    resp' = [cmd |-> cmd, status |-> status, info |-> info]
Silent == resp' = NoReply

Goto(from, to) == pc = from /\ pc' = to

(* What a command in hand may still do: erase no more than the flash, and  *)
(* program what ends inside the session's size, as 32-bit numbers have it: *)
(* from an offset below 2^32 the job may run over the top, and down there  *)
(* into the session.                                                       *)
JobOK ==
    /\ pc = "random" => job.data \in {"none", "stuck"}
    /\ pc \in {"flash_init", "erase"} => job.left \in 1 .. PAGES
    /\ pc = "program" => /\ job.data \in {"image", "junk"}
                         /\ job.at < OFFSETS /\ job.left < OFFSETS
                         /\ Plus(job.at, job.left) <= totalSize

TypeOK ==
    /\ Ice40TypeOK /\ LedTypeOK /\ EntropyTypeOK /\ WriterTypeOK
    /\ pc \in PC
    /\ pending \in 0 .. MaxFrames
    /\ endless \in Commands \cup {"none"}
    /\ job \in [left : Nat, at : Nat,
                data : {"none", "image", "junk", "stuck"}]
    /\ resp \in [cmd : Commands \cup {"none"}, status : Statuses \cup {"none"},
                 info : Infos]
    /\ JobOK

--------------------------------------------------------------------------------
(* main before the loop.  "boot" is the state ice40_init, led_status_init, *)
(* tusb_init and protocol_init leave, from power-on or after BOOTSEL.      *)

Init ==
    /\ Ice40Init /\ LedInit /\ EntropyInit
    /\ source = "live"
    /\ inProgress = FALSE /\ totalSize = 0
    /\ overdue = {} /\ gaveUp = FALSE
    /\ flash \in {[p \in Page |-> "erased"],
                  [p \in Page |-> IF p < IMAGE_PAGES THEN "image" ELSE "erased"]}
    /\ pc = "boot" /\ pending = 0 /\ endless = "none" /\ job = NoJob /\ resp = NoReply

(* ice40_claim_spi, then ice40_boot up to its poll *)
Boot ==
    /\ Goto("boot", "boot_poll")
    /\ BootRelease
    /\ Silent
    /\ UNCHANGED <<ledVars, entropyVars, writerVars, pending, job, endless>>

BootConfigured ==
    /\ Goto("boot_poll", "drain")
    /\ cdone
    /\ ClockStart
    /\ AttachSpiMaster
    /\ RngPipelineInit
    /\ LedSet("IDLE")
    /\ Silent
    /\ UNCHANGED <<writerVars, pending, job, endless>>

(* Broken variant: the poll for CDONE has no deadline. *)
BootTimesOut_NoDeadline ==
    /\ Goto("boot_poll", "drain")
    /\ cdone
    /\ ClockStart /\ UNCHANGED <<creset, cdone, spi, cs>>
    /\ LedSet("NO_FPGA")
    /\ Silent
    /\ UNCHANGED <<entropyVars, writerVars, pending, job, endless>>

(* Three seconds have passed.  CDONE may have risen since it was last read. *)
BootTimesOut ==
    /\ Goto("boot_poll", "drain")
    /\ ClockStart /\ UNCHANGED <<creset, cdone, spi, cs>>
    /\ LedSet("NO_FPGA")
    /\ Silent
    /\ UNCHANGED <<entropyVars, writerVars, pending, job, endless>>

--------------------------------------------------------------------------------
(* protocol_task: drain the FIFO once, then dispatch what is complete.     *)

Drain ==
    /\ Goto("drain", "peel")
    /\ pending' \in 0 .. MaxFrames
    /\ Silent
    /\ UNCHANGED <<fpgaVars, ledVars, entropyVars, writerVars, job, endless>>

PeelDone ==
    /\ Goto("peel", "trng")
    /\ pending = 0
    /\ Silent
    /\ UNCHANGED <<fpgaVars, ledVars, entropyVars, writerVars, pending, job, endless>>

(* HEADER_BYTES + plen is a 16-bit sum: of a header that announces 65532   *)
(* bytes it is 0, and the frame stays where it is.                         *)
Ordinary == endless = "none"

HeaderWraps(cmd) ==
    /\ HeaderMayWrap
    /\ pc = "peel" /\ pending > 0 /\ Ordinary
    /\ cmd \in HostCommands
    /\ endless' = cmd
    /\ Silent
    /\ UNCHANGED <<fpgaVars, ledVars, entropyVars, writerVars, pc, pending, job>>

(* The next complete frame holds this command. *)
Dispatch(cmd) ==
    /\ pc = "peel"
    /\ pending > 0
    /\ endless \in {"none", cmd}
    /\ pending' = IF Ordinary THEN pending - 1 ELSE pending
    /\ cmd \in HostCommands
    /\ UNCHANGED endless

(* A command answered on the spot, that changes nothing. *)
Refuse(cmd, status) ==
    /\ Dispatch(cmd)
    /\ pc' = pc
    /\ Reply(cmd, status, "none")
    /\ UNCHANGED <<fpgaVars, ledVars, entropyVars, writerVars, job>>

(* A header that announces more than the buffer holds drops all of it. *)
OversizedFrame(cmd) ==
    /\ Goto("peel", "trng")
    /\ pending > 0 /\ Ordinary
    /\ pending' = 0
    /\ cmd \in HostCommands
    /\ Reply(cmd, "BAD_LENGTH", "none")
    /\ UNCHANGED <<fpgaVars, ledVars, entropyVars, writerVars, job, endless>>

Status       == Refuse("STATUS", "OK")
OtherCommand == Refuse("OTHER", "BAD_CMD")

(* The payload of the three commands that have one is too short or long. *)
BadLength ==
    \/ \E cmd \in {"GET_RANDOM", "FLASH_BEGIN"} : Refuse(cmd, "BAD_LENGTH")
    \/ Ordinary /\ Refuse("FLASH_DATA", "BAD_LENGTH")

(* _cmd_reboot_bootloader, with reset_usb_boot *)
RebootBootloader ==
    /\ Dispatch("REBOOT_BOOTLOADER")
    /\ pc' = "bootsel"
    /\ Reply("REBOOT_BOOTLOADER", "OK", "none")
    /\ UNCHANGED <<fpgaVars, ledVars, entropyVars, writerVars, job>>

--------------------------------------------------------------------------------
(* _cmd_get_random for n blocks of 32 bytes, the last one perhaps partial. *)

RandomRefused(n) ==
    \/ Ordinary /\ (inProgress \/ paused) /\ Refuse("GET_RANDOM", "BUSY")
    \/ /\ Ordinary
       /\ ~ (inProgress \/ paused)
       /\ n \notin 1 .. MaxBlocks
       /\ Refuse("GET_RANDOM", "BAD_LENGTH")

(* Broken variant: only a session, not the pause, refuses the command. *)
RandomStarts_WhilePaused(n) ==
    /\ Dispatch("GET_RANDOM") /\ Ordinary
    /\ ~ inProgress
    /\ n \in 1 .. MaxBlocks
    /\ pc' = "random"
    /\ job' = [NoJob EXCEPT !.left = n]
    /\ LedSet("BUSY")
    /\ Silent
    /\ UNCHANGED <<fpgaVars, entropyVars, writerVars>>

RandomStarts(n) ==
    /\ Dispatch("GET_RANDOM") /\ Ordinary
    /\ ~ inProgress /\ ~ paused
    /\ n \in 1 .. MaxBlocks
    /\ pc' = "random"
    /\ job' = [NoJob EXCEPT !.left = n]
    /\ LedSet("BUSY")
    /\ Silent
    /\ UNCHANGED <<fpgaVars, entropyVars, writerVars>>

(* The wait for a raw block pumps trng_task. *)
RandomWaits ==
    /\ pc = "random" /\ ~ RawReady /\ TrngReady
    /\ TrngTask
    /\ Silent
    /\ UNCHANGED <<fpgaVars, ledVars, writerVars, pc, pending, job, endless>>

(* The command ends, back to the next frame, and asks for the IDLE pattern. *)
RandomEnds(status, info) ==
    /\ Goto("random", "peel")
    /\ job' = NoJob
    /\ LedSet("IDLE")
    /\ Reply("GET_RANDOM", status, info)
    /\ UNCHANGED <<fpgaVars, writerVars, pending, endless>>

(* Nothing was sampled for two seconds, longer than any BUSY hold. *)
RandomTimesOut ==
    /\ ~ RawReady /\ ~ TrngReady /\ ~ hold
    /\ RandomEnds("NO_ENTROPY", "none")
    /\ UNCHANGED entropyVars

(* A block is read and the verdict found bad: the block is lost. *)
RandomUnhealthy ==
    /\ TakeRaw
    /\ \/ health = "fail"    /\ RandomEnds("HEALTH_FAIL", "none")
       \/ health = "warming" /\ RandomEnds("HEALTH_WARMING", "none")

TaintWith(block) ==
    IF \A i \in DOMAIN block : block[i] = "stuck" THEN "stuck" ELSE job.data

(* A block is read and hashed, more are wanted. *)
RandomBlock ==
    /\ pc = "random" /\ job.left > 1
    /\ TakeRaw
    /\ health = "ok"
    /\ job' = [job EXCEPT !.left = @ - 1, !.data = TaintWith(RawBlock)]
    /\ Silent
    /\ UNCHANGED <<fpgaVars, ledVars, writerVars, pc, pending, endless>>

(* Broken variant: the verdict is not read before the answer. *)
RandomLastBlock_NoVerdict ==
    /\ pc = "random" /\ job.left = 1
    /\ TakeRaw
    /\ RandomEnds("OK", TaintWith(RawBlock))

RandomLastBlock ==
    /\ pc = "random" /\ job.left = 1
    /\ TakeRaw
    /\ health = "ok"
    /\ RandomEnds("OK", TaintWith(RawBlock))

GetRandom ==
    \/ \E n \in 0 .. (MaxBlocks + 1) : RandomRefused(n) \/ RandomStarts(n)
    \/ RandomWaits \/ RandomTimesOut \/ RandomUnhealthy
    \/ RandomBlock \/ RandomLastBlock

--------------------------------------------------------------------------------
(* _cmd_flash_begin *)

BeginRefused(total) ==
    \/ Ordinary /\ inProgress /\ Refuse("FLASH_BEGIN", "BUSY")
    \/ Ordinary /\ ~ inProgress /\ total \notin 1 .. PAGES /\ Refuse("FLASH_BEGIN", "BAD_LENGTH")

BeginStarts(total) ==
    /\ Dispatch("FLASH_BEGIN") /\ Ordinary
    /\ ~ inProgress
    /\ total \in 1 .. PAGES
    /\ pc' = "flash_init"
    /\ job' = [NoJob EXCEPT !.left = total]
    /\ BeginClaims
    /\ Silent

FlashNotFound ==
    /\ Goto("flash_init", "peel")
    /\ BeginFails
    /\ job' = NoJob
    /\ Reply("FLASH_BEGIN", "FLASH", "none")
    /\ UNCHANGED <<pending, endless>>

(* A busy chip does not tell what it is; then flash_unprotect. *)
FlashFound ==
    /\ Goto("flash_init", "erase")
    /\ ChipReady
    /\ Unprotect
    /\ Silent
    /\ UNCHANGED <<fpgaVars, ledVars, entropyVars, inProgress, totalSize,
                   pending, job, endless>>

EraseNext ==
    /\ pc = "erase" /\ job.at < job.left
    /\ EraseSector(job.at)
    /\ job' = [job EXCEPT !.at = @ + SECTOR_PAGES]
    /\ Silent
    /\ UNCHANGED <<fpgaVars, ledVars, entropyVars, inProgress, totalSize,
                   pc, pending, endless>>

(* Broken variant: the size is rounded down to whole sectors. *)
EraseDone_RoundsDown ==
    /\ Goto("erase", "peel")
    /\ job.at >= (job.left \div SECTOR_PAGES) * SECTOR_PAGES
    /\ BeginSucceeds(job.left)
    /\ job' = NoJob
    /\ Reply("FLASH_BEGIN", "OK", "none")
    /\ UNCHANGED <<pending, endless>>

EraseDone ==
    /\ Goto("erase", "peel")
    /\ job.at >= job.left
    /\ BeginSucceeds(job.left)
    /\ job' = NoJob
    /\ Reply("FLASH_BEGIN", "OK", "none")
    /\ UNCHANGED <<pending, endless>>

FlashBegin ==
    \/ \E total \in 0 .. (PAGES + 1) : BeginRefused(total) \/ BeginStarts(total)
    \/ FlashNotFound \/ FlashFound \/ EraseNext \/ EraseDone

--------------------------------------------------------------------------------
(* _cmd_flash_data of n pages at page a: the check is on a 32-bit sum.     *)

DataRefused(a, n) ==
    \/ ~ inProgress /\ Refuse("FLASH_DATA", "BUSY")
    \/ inProgress /\ Plus(a, n) > totalSize /\ Refuse("FLASH_DATA", "BAD_LENGTH")

(* Broken variant: the size of the session is not enforced. *)
DataStarts_NoRange(a, n, data) ==
    /\ Dispatch("FLASH_DATA")
    /\ inProgress
    /\ pc' = "program"
    /\ job' = [left |-> n, at |-> a, data |-> data]
    /\ Silent
    /\ UNCHANGED <<fpgaVars, ledVars, entropyVars, writerVars>>

(* Broken variant: data are taken after the session. *)
DataStarts_NoSession(a, n, data) ==
    /\ Dispatch("FLASH_DATA")
    /\ Plus(a, n) <= totalSize
    /\ pc' = "program"
    /\ job' = [left |-> n, at |-> a, data |-> data]
    /\ Silent
    /\ UNCHANGED <<fpgaVars, ledVars, entropyVars, writerVars>>

DataStarts(a, n, data) ==
    /\ Dispatch("FLASH_DATA")
    /\ inProgress
    /\ Plus(a, n) <= totalSize
    /\ pc' = "program"
    /\ job' = [left |-> n, at |-> a, data |-> data]
    /\ Silent
    /\ UNCHANGED <<fpgaVars, ledVars, entropyVars, writerVars>>

ProgramNext ==
    /\ pc = "program" /\ job.left > 0
    /\ ProgramPage(job.at, job.data)
    /\ job' = [job EXCEPT !.at = Plus(@, 1), !.left = @ - 1]
    /\ Silent
    /\ UNCHANGED <<fpgaVars, ledVars, entropyVars, inProgress, totalSize,
                   pc, pending, endless>>

ProgramDone ==
    /\ Goto("program", "peel")
    /\ job.left = 0
    /\ job' = NoJob
    /\ Reply("FLASH_DATA", "OK", "none")
    /\ UNCHANGED <<fpgaVars, ledVars, entropyVars, writerVars, pending, endless>>

(* Behind a header that wraps come 65528 bytes of whatever lies in RAM. *)
DataLengths == IF Ordinary THEN 0 .. DATA_PAGES ELSE {LONG_PAGES}
DataSent    == IF Ordinary THEN {"image", "junk"} ELSE {"junk"}

FlashData ==
    \/ \E a \in 0 .. (OFFSETS - 1) : \E n \in DataLengths :
         \/ DataRefused(a, n)
         \/ \E data \in DataSent : DataStarts(a, n, data)
    \/ ProgramNext \/ ProgramDone

--------------------------------------------------------------------------------
(* _cmd_flash_end; the CRC it carries is ignored. *)

EndRefused == ~ inProgress /\ Refuse("FLASH_END", "FLASH")

EndStarts ==
    /\ Dispatch("FLASH_END")
    /\ inProgress
    /\ pc' = "end_poll"
    /\ EndReleases
    /\ Silent
    /\ UNCHANGED job

EndSucceeds ==
    /\ Goto("end_poll", "peel")
    /\ cdone
    /\ EndConfigured
    /\ Reply("FLASH_END", "OK", "cdone")
    /\ UNCHANGED <<pending, job, endless>>

(* Three seconds have passed, longer than any BUSY hold; as at boot, CDONE *)
(* may just have risen.                                                    *)
EndFails ==
    /\ Goto("end_poll", "peel")
    /\ ~ hold
    /\ EndTimesOut
    /\ Reply("FLASH_END", "OK", "none")
    /\ UNCHANGED <<pending, job, endless>>

FlashEnd == EndRefused \/ EndStarts \/ EndSucceeds \/ EndFails

--------------------------------------------------------------------------------
(* The rest of the main loop. *)

Trng ==
    /\ Goto("trng", "pipeline")
    /\ TrngTask
    /\ Silent
    /\ UNCHANGED <<fpgaVars, ledVars, writerVars, pending, job, endless>>

Pipeline ==
    /\ Goto("pipeline", "led")
    /\ RngPipelineTask
    /\ Silent
    /\ UNCHANGED <<fpgaVars, ledVars, writerVars, pending, job, endless>>

Led ==
    /\ Goto("led", "drain")
    /\ LedTask
    /\ Silent
    /\ UNCHANGED <<fpgaVars, entropyVars, writerVars, pending, job, endless>>

--------------------------------------------------------------------------------
(* The environment. *)

Configures ==
    /\ FpgaConfigures(Bootable /\ ChipReady)
    /\ UNCHANGED <<ledVars, entropyVars, writerVars, pc, pending, job, resp, endless>>

TimePasses ==
    /\ HoldExpires
    /\ UNCHANGED <<fpgaVars, entropyVars, writerVars, pc, pending, job, resp, endless>>

(* The source dies in the course of a chunk that trng_task reads. *)
SourceDies ==
    /\ SourceMayDie
    /\ pc = "trng" \/ (pc = "random" /\ ~ RawReady)
    /\ \E k \in 0 .. (CHUNK - 1) : TrngTaskSourceDies(k)
    /\ pc' = IF pc = "trng" THEN "pipeline" ELSE pc
    /\ Silent
    /\ UNCHANGED <<fpgaVars, ledVars, writerVars, pending, job, endless>>

ChipReadyAtLast ==
    /\ ChipFinishes
    /\ UNCHANGED <<fpgaVars, ledVars, entropyVars, pc, pending, job, resp, endless>>

(* Everything but the flash and the source starts again from "boot". *)
RamLost ==
    /\ creset' = "low" /\ cdone' = FALSE /\ clock' = FALSE
    /\ spi' = "hiz" /\ cs' = "hiz"
    /\ led' = "BOOT" /\ hold' = FALSE
    /\ ring' = << >> /\ pool' = << >>
    /\ initialised' = FALSE /\ paused' = FALSE
    /\ health' = "warming" /\ warm' = 0 /\ stuckRun' = 0
    /\ inProgress' = FALSE /\ totalSize' = 0 /\ gaveUp' = FALSE
    /\ pc' = "boot" /\ pending' = 0 /\ endless' = "none" /\ job' = NoJob
    /\ Silent
    /\ UNCHANGED source

(* The pages an operation in progress when power fails leaves in doubt. *)
InFlight ==
    IF ~ ChipReady THEN {}
    ELSE IF pc = "erase" /\ job.at < job.left THEN Sector(job.at)
    ELSE IF pc = "program" /\ job.left > 0 THEN {job.at % PAGES}
    ELSE {}

PowerLoss ==
    /\ PowerMayFail
    /\ pc # "boot"
    /\ RamLost
    /\ overdue' = {}
    /\ UNCHANGED flash \/ SetPages(InFlight, "junk")

(* The bootloader starts the firmware again; U6 does not notice. *)
LeaveBootsel == pc = "bootsel" /\ RamLost /\ UNCHANGED <<flash, overdue>>

--------------------------------------------------------------------------------
Command ==
    Status \/ OtherCommand \/ BadLength \/ RebootBootloader
    \/ GetRandom \/ FlashBegin \/ FlashData \/ FlashEnd
    \/ \E cmd \in Commands : OversizedFrame(cmd) \/ HeaderWraps(cmd)

(* A step of the thread. *)
Thread ==
    Boot \/ BootConfigured \/ BootTimesOut \/ Drain \/ PeelDone \/ Command
    \/ Trng \/ Pipeline \/ Led

Environment ==
    Configures \/ TimePasses \/ ChipReadyAtLast \/ SourceDies \/ PowerLoss \/ LeaveBootsel

Next == Thread \/ Environment

Spec == Init /\ [][Next]_vars

(* The processor runs while it has power, and time passes.  Nothing is     *)
(* assumed of the FPGA, of the host or of the source.                      *)
FairSpec == Spec /\ WF_vars(Thread) /\ WF_vars(TimePasses)

--------------------------------------------------------------------------------
(* Properties: who drives the SPI bus.                                     *)

(* trng_task is about to be called: from the loop or from GET_RANDOM. *)
AboutToSample == pc = "trng" \/ (pc = "random" /\ ~ RawReady)

(* A programming session, from the reset of the FPGA to its release. *)
Programming == inProgress \/ pc \in {"flash_init", "erase", "program"}

(* trng_task clocks the bus only when the FPGA is running and attached and *)
(* the flash is de-selected (main.c:31-39, flash_writer.c:98-104): never   *)
(* in a session, after a failed one, or while the FPGA configures itself.  *)
SamplingIsSafe ==
    AboutToSample /\ initialised /\ ~ paused => Attached

(* From FLASH_BEGIN to FLASH_END the FPGA is in reset, the RP2040 alone on *)
(* the bus, and the sampling paused (flash_writer.c:30-39).                *)
ProgrammingIsSafe == Programming => OwnsFlash /\ ~ cdone /\ paused

(* Until it is configured an FPGA out of reset has the bus for itself      *)
(* (ice40.c:79-94, 120-137), also when the poll for CDONE has given up.    *)
ConfiguringIsSafe ==
    creset = "high" /\ ~ cdone => spi = "hiz" /\ cs = "hiz"

(* The flash is written to only while the RP2040 alone is on the bus: a    *)
(* command that is refused, or data that come after the session, must not  *)
(* reach it (flash_writer.c:65-70), and nor may whatever power failing     *)
(* leaves behind, unless it fails in the middle of a session.  What may    *)
(* still change it when the bus is no longer owned is the end of an        *)
(* operation that was begun when it was, and that _wait_ready gave up on   *)
(* (spi_flash.c:154): the flash then becomes what that operation makes it. *)
FlashChangesOnlyWhenOwned ==
    [][/\ flash' # flash => OwnsFlash \/ flash' \in overdue
       /\ ~ (overdue' \subseteq overdue) => OwnsFlash]_vars

--------------------------------------------------------------------------------
(* Properties: what the host is told.                                      *)

(* FLASH_BEGIN answers OK only when the chip is ready and every page of    *)
(* the announced size erased (flash_writer.c:49-61, with sizes that end    *)
(* inside a sector), or a wait for the chip has run out.  After such a     *)
(* wait it answers OK all the same, with sectors that are still being      *)
(* erased or were never touched: _wait_ready does not tell                 *)
(* (spi_flash.c:143-158), against flash_writer.h:9, "erase region          *)
(* 0..size".                                                               *)
BeginOkMeansErased ==
    resp.cmd = "FLASH_BEGIN" /\ resp.status = "OK" /\ ~ gaveUp =>
        ChipReady /\ \A p \in 0 .. (totalSize - 1) : flash[p] = "erased"

(* FLASH_END reports CDONE only if the FPGA is up from a bootable image,   *)
(* also when a wait has run out in the session, is attached, and the       *)
(* sampling is no longer paused (flash_writer.c:95-101).  It is sampled    *)
(* only if trng_init was called at boot, which the answer does not say:    *)
(* see AttachedMeansInitialised.                                           *)
EndOkMeansRunning ==
    resp.cmd = "FLASH_END" /\ resp.info = "cdone" =>
        Attached /\ Bootable /\ ChipReady /\ ~ paused /\ ~ inProgress

(* GET_RANDOM answers OK only on an attached FPGA outside of any session,  *)
(* with tests that have warmed up and not failed (protocol.c:118-170).     *)
RandomOkMeansHealthy ==
    resp.cmd = "GET_RANDOM" /\ resp.status = "OK" =>
        Attached /\ ~ inProgress /\ ~ paused /\ initialised /\ health = "ok"

(* When sampling is paused outside of a session, and GET_RANDOM answers    *)
(* BUSY for ever, the LEDs show why: the last session failed in BEGIN      *)
(* (ERROR) or in END (NO_FPGA), whatever commands came after               *)
(* (flash_writer.c:43, 103; the LED is also set by GET_RANDOM).            *)
PausedIsSignalled ==
    pc = "drain" /\ paused /\ ~ inProgress => led \in {"ERROR", "NO_FPGA"}

(* On a board whose FPGA was up once, the IDLE pattern ("FPGA ready",       *)
(* led_status.h:9) outside of a session means an FPGA that is attached and *)
(* sampled, whichever sessions failed and whatever was asked in between    *)
(* (the pattern is set by flash_writer.c:101, main.c:36, protocol.c:182    *)
(* and by the timer at led_status.c:79).                                   *)
IdleMeansReady ==
    pc = "drain" /\ led = "IDLE" /\ initialised /\ ~ inProgress =>
        Attached /\ ~ paused

(* "sticky error" (led_status.h:13): the ERROR pattern stays until the     *)
(* host tries to flash again or the board restarts.                        *)
ErrorSticks ==
    [][led = "ERROR" => led' \in {"ERROR", "PROGRAM"} \/ pc' = "boot"]_vars

(* A failed health test is not forgotten before the board restarts, also   *)
(* when a session configures the FPGA anew and resumes the sampling        *)
(* (nist_health.h:16-17 and rng_pipeline.h:28, "sticky"; the reset is      *)
(* called by rng_pipeline_init only, rng_pipeline.c:21-24).                *)
FailureSticks ==
    [][health = "fail" => health' = "fail" \/ pc' = "boot"]_vars

--------------------------------------------------------------------------------
(* Properties: progress.                                                   *)

(* Every command ends and the loop comes round again, unless the board     *)
(* waits in BOOTSEL or power fails again and again: every wait in a        *)
(* handler has a deadline (protocol.c:146, spi_flash.c:154, ice40.c:99,    *)
(* 142), whatever the FPGA, the flash and the source do.  The host has one *)
(* way to stop the loop: a header that announces 65532 bytes, whose frame  *)
(* is dispatched for ever (protocol.c:273-286).  Even then every single    *)
(* command ends and the frame is dispatched again.                         *)
LoopReturns ==
    []<>(pc \in {"drain", "boot", "bootsel"} \/ (pc = "peel" /\ ~ Ordinary))

(* Once the FPGA is attached and sampled, the tests leave the warm-up,     *)
(* although GET_RANDOM consumes raw bytes they never see and the pool they *)
(* fill is never drained (rng_pipeline.c:28-33, protocol.c:143-153); a     *)
(* loop that such a header has stopped no longer tests anything.           *)
WarmsUp ==
    initialised /\ health = "warming"
        ~> health # "warming" \/ pc = "bootsel" \/ ~ Ordinary

(* A source that dies while the pool has room for two more chunks than the *)
(* ring holds is found out: rng_pipeline_task keeps testing it until the   *)
(* pool, which nobody drains, is full (rng_pipeline.c:52-65), or a header  *)
(* that is never consumed stops the loop.                                  *)
DeathSeenWhilePoolHasRoom ==
    source = "stuck" /\ initialised /\ PoolFree >= Len(ring) + 2 * CHUNK
        ~> health = "fail" \/ pc = "bootsel" \/ ~ Ordinary

--------------------------------------------------------------------------------
(* Statements of the documentation that the code does not keep.            *)

(* trng.h:19-20: trng_init "must be called once after the FPGA has been    *)
(* configured and ice40_attach_spi_master() has been invoked".             *)
AttachedMeansInitialised == pc = "drain" /\ Attached => initialised

(* protocol.c:129: "16 raw bytes -> NIST health feed -> SHA-256": a block  *)
(* of nothing but stuck bytes, which fails the repetition test, is never   *)
(* hashed into an answer.                                                  *)
NoStuckBlockEmitted ==
    resp.cmd = "GET_RANDOM" /\ resp.status = "OK" => resp.info # "stuck"

(* protocol.c:155: "Health tests are still updated continuously by         *)
(* rng_pipeline_task() in the main loop": a source that has died while     *)
(* sampled is found out in the end.                                        *)
DeadSourceIsDetected ==
    source = "stuck" /\ initialised /\ ~ paused
        ~> health = "fail" \/ paused \/ pc \in {"boot", "bootsel"}

================================================================================
