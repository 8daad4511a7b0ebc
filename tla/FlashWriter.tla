------------------------------ MODULE FlashWriter ------------------------------
(***************************************************************************)
(* mcu/flash_writer.c and the erase and program operations of              *)
(* mcu/spi_flash.c: a programming session FLASH_BEGIN .. FLASH_DATA* ..    *)
(* FLASH_END over the configuration flash U6.  Addresses and sizes are     *)
(* counted in pages; the contents of a page is what matters to the FPGA:   *)
(* erased, the page of a bootable image that belongs there, or junk.       *)
(* Offsets are 32-bit numbers, whose sums wrap, and an operation of the    *)
(* chip may outlast the second that _wait_ready gives it.                  *)
(***************************************************************************)
EXTENDS Ice40, LedStatus, EntropyPath

CONSTANTS PAGES,           \* FLASH_TOTAL_SIZE / FLASH_PAGE_SIZE  (16384)
          SECTOR_PAGES,    \* FLASH_SECTOR_SIZE / FLASH_PAGE_SIZE    (16)
          IMAGE_PAGES,     \* the pages a bootable image occupies
          OFFSETS,         \* 2^32 / FLASH_PAGE_SIZE              (2^24)
          ChipMayBeLate    \* whether an operation may outlast _wait_ready

ASSUME FlashAssumption ==
    /\ PAGES \in Nat \ {0}
    /\ SECTOR_PAGES \in Nat \ {0}
    /\ IMAGE_PAGES \in 1 .. PAGES
    /\ OFFSETS \in Nat /\ OFFSETS > PAGES /\ OFFSETS % PAGES = 0
    /\ ChipMayBeLate \in BOOLEAN

VARIABLES inProgress,    \* _in_progress
          totalSize,     \* _total_size
          flash,         \* the contents of U6, the only state that outlives power
          overdue,       \* what the flash will hold when the operation U6 still
                         \* works on is done, or nothing when U6 is ready
          gaveUp         \* a history: a wait of the last session has run out

writerVars == <<inProgress, totalSize, flash, overdue, gaveUp>>

Page     == 0 .. (PAGES - 1)
Contents == {"erased", "image", "junk"}

WriterTypeOK ==
    /\ inProgress \in BOOLEAN
    /\ totalSize \in 0 .. PAGES
    /\ flash \in [Page -> Contents]
    /\ overdue \subseteq [Page -> Contents]
    /\ gaveUp \in BOOLEAN

(* Pages 0 .. IMAGE_PAGES - 1 hold an image the FPGA can boot from. *)
Bootable == \A p \in 0 .. (IMAGE_PAGES - 1) : flash[p] = "image"

--------------------------------------------------------------------------------
(* spi_flash.c *)

ChipReady == overdue = {}

SetPages(S, c) == flash' = [p \in Page |-> IF p \in S THEN c ELSE flash[p]]

(* One command that gives the pages S the contents in new, followed by     *)
(* _wait_ready, which neither reports nor repeats what it gave up on.      *)
Operate(S, new) ==
    \/ ChipReady /\ flash' = new /\ UNCHANGED <<overdue, gaveUp>>
    \/ \* the operation goes on after the wait: nothing can be said of S yet
       /\ ChipReady /\ ChipMayBeLate
       /\ SetPages(S, "junk") /\ overdue' = {new} /\ gaveUp' = TRUE
    \/ \* a chip that is busy ignores the command
       ~ ChipReady /\ gaveUp' = TRUE /\ UNCHANGED <<flash, overdue>>

(* The operation is done at last, whatever the firmware is at by then. *)
ChipFinishes ==
    /\ flash' \in overdue
    /\ overdue' = {}
    /\ UNCHANGED <<inProgress, totalSize, gaveUp>>

(* flash_unprotect: nothing but time passes. *)
Unprotect == Operate({}, flash)

(* flash_erase_sector(a) with a the first page of the sector *)
Sector(a) == {p \in Page : p \in a .. (a + SECTOR_PAGES - 1)}

EraseSector(a) ==
    Operate(Sector(a), [p \in Page |-> IF p \in Sector(a) THEN "erased" ELSE flash[p]])

(* flash_write_page: programming clears bits, it never sets one, so that a *)
(* page that is not erased keeps its data only if it is given the same.    *)
Programmed(old, new) ==
    IF old = "erased" \/ (old = "image" /\ new = "image") THEN new ELSE "junk"

(* The chip ignores the upper bits of an address. *)
ProgramPage(a, data) ==
    LET p == a % PAGES
    IN  Operate({p}, [flash EXCEPT ![p] = Programmed(@, data)])

--------------------------------------------------------------------------------
(* flash_writer.c *)

(* offset + len, in 32 bits *)
Plus(a, n) == IF a + n < OFFSETS THEN a + n ELSE a + n - OFFSETS

(* Broken variant: the sampling is not stopped. *)
BeginClaims_NotPaused ==
    /\ LedSet("PROGRAM")
    /\ ClaimSpi
    /\ gaveUp' = FALSE
    /\ UNCHANGED <<inProgress, totalSize, flash, overdue, entropyVars>>

(* flash_writer_begin up to flash_init *)
BeginClaims ==
    /\ SetPaused(TRUE)
    /\ LedSet("PROGRAM")
    /\ ClaimSpi
    /\ gaveUp' = FALSE
    /\ UNCHANGED <<inProgress, totalSize, flash, overdue>>

(* Broken variant: the failure is not shown. *)
BeginFails_NoLed ==
    /\ inProgress' = FALSE
    /\ UNCHANGED <<totalSize, flash, overdue, gaveUp, fpgaVars, ledVars, entropyVars>>

(* flash_init has not found the flash: FW_ERR_FLASH_ID *)
BeginFails ==
    /\ inProgress' = FALSE
    /\ LedSet("ERROR")
    /\ UNCHANGED <<totalSize, flash, overdue, gaveUp, fpgaVars, entropyVars>>

(* flash_writer_begin after the last sector *)
BeginSucceeds(total) ==
    /\ totalSize'  = total
    /\ inProgress' = TRUE
    /\ LedSet("BUSY")
    /\ UNCHANGED <<flash, overdue, gaveUp, fpgaVars, entropyVars>>

(* flash_writer_end up to the poll of CDONE in ice40_reboot *)
EndReleases ==
    /\ inProgress' = FALSE
    /\ RebootRelease
    /\ UNCHANGED <<totalSize, flash, overdue, gaveUp, entropyVars, ledVars>>

(* Broken variant: the sampling is not resumed. *)
EndConfigured_StaysPaused ==
    /\ ClockStart
    /\ AttachSpiMaster
    /\ LedSet("IDLE")
    /\ UNCHANGED <<writerVars, entropyVars>>

(* Broken variant: the pipeline starts anew, as after a boot. *)
EndConfigured_Reinitialises ==
    /\ ClockStart
    /\ AttachSpiMaster
    /\ RngPipelineInit
    /\ LedSet("IDLE")
    /\ UNCHANGED writerVars

(* flash_writer_end after the poll: CDONE seen, *)
EndConfigured ==
    /\ ClockStart
    /\ AttachSpiMaster
    /\ SetPaused(FALSE)
    /\ LedSet("IDLE")
    /\ UNCHANGED writerVars

(* or not: the bus stays released and the sampling paused. *)
EndTimesOut ==
    /\ ClockStart
    /\ UNCHANGED <<creset, cdone, spi, cs>>
    /\ LedSet("NO_FPGA")
    /\ UNCHANGED <<writerVars, entropyVars>>
================================================================================
