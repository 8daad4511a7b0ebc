--------------------------------- MODULE Ice40 ---------------------------------
(***************************************************************************)
(* mcu/ice40.c: the pins through which the RP2040 controls the iCE40 and   *)
(* shares one SPI bus with it and with the configuration flash U6.  The    *)
(* FPGA reads the flash by itself when it leaves reset with the bus        *)
(* released; afterwards the RP2040 may take the bus back and clock random  *)
(* bits out of the FPGA.                                                   *)
(***************************************************************************)
EXTENDS Naturals

VARIABLES creset,   \* CRESET_B: "low" holds the FPGA in reset, "high" lets it run
          cdone,    \* CDONE: the FPGA is configured
          clock,    \* the 48 MHz user clock on ICE_CLK runs
          spi,      \* who drives SCK and MOSI: "pio" (the RP2040) or "hiz"
          cs        \* SS_B: "high" (driven, flash de-selected) or "hiz"

fpgaVars == <<creset, cdone, clock, spi, cs>>

Ice40TypeOK ==
    /\ creset \in {"low", "high"}
    /\ cdone \in BOOLEAN
    /\ clock \in BOOLEAN
    /\ spi \in {"pio", "hiz"}
    /\ cs \in {"high", "hiz"}

(* ice40_init: held in reset, clock off, the SPI block not set up yet. *)
Ice40Init ==
    /\ creset = "low" /\ cdone = FALSE /\ clock = FALSE
    /\ spi = "hiz" /\ cs = "hiz"

(* Broken variant: the bus is taken while the FPGA keeps running. *)
ClaimSpi_NoReset ==
    /\ spi' = "pio"
    /\ cs'  = "high"
    /\ UNCHANGED <<creset, cdone, clock>>

(* ice40_claim_spi: reset the FPGA, drive the bus, de-select the flash. *)
ClaimSpi ==
    /\ creset' = "low"
    /\ cdone'  = FALSE
    /\ spi'    = "pio"
    /\ cs'     = "high"
    /\ UNCHANGED clock

(* ice40_boot up to the rising edge of CRESET. *)
BootRelease ==
    /\ creset' = "high"
    /\ cdone'  = FALSE
    /\ spi'    = "hiz"
    /\ cs'     = "hiz"
    /\ UNCHANGED clock

(* Broken variant: SS_B stays driven while the FPGA configures itself. *)
RebootRelease_CsDriven ==
    /\ creset' = "high"
    /\ cdone'  = FALSE
    /\ spi'    = "hiz"
    /\ cs'     = "high"
    /\ clock'  = FALSE

(* ice40_reboot up to the rising edge of CRESET: also stops the clock. *)
RebootRelease ==
    /\ creset' = "high"
    /\ cdone'  = FALSE
    /\ spi'    = "hiz"
    /\ cs'     = "hiz"
    /\ clock'  = FALSE

(* The end of either poll loop: the clock starts, CDONE seen or not. *)
ClockStart == clock' = TRUE

(* ice40_attach_spi_master: drive the bus again, the FPGA left running. *)
AttachSpiMaster ==
    /\ spi' = "pio"
    /\ cs'  = "high"
    /\ UNCHANGED <<creset, cdone>>

(* The FPGA, out of reset on a released bus, configures itself from a      *)
(* flash that holds a bootable image.  It may do so at any later time, or  *)
(* never: nothing in the firmware makes it.                                *)
FpgaConfigures(bootable) ==
    /\ creset = "high" /\ spi = "hiz" /\ cs = "hiz"
    /\ bootable
    /\ ~ cdone
    /\ cdone' = TRUE
    /\ UNCHANGED <<creset, clock, spi, cs>>

(* The RP2040 is clocking a running FPGA, with the flash de-selected. *)
Attached == creset = "high" /\ cdone /\ clock /\ spi = "pio" /\ cs = "high"

(* The RP2040 alone is on the bus with the flash: the FPGA is in reset. *)
OwnsFlash == creset = "low" /\ spi = "pio" /\ cs = "high"
================================================================================
