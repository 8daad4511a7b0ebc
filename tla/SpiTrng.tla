-------------------------------- MODULE SpiTrng --------------------------------
(***************************************************************************)
(* How random bits cross from the FPGA to the RP2040: spi_pio_read of      *)
(* mcu/spi_pio.c, the two instructions of mcu/spi_pio.pio that clock the   *)
(* bus, and rtl/spi_trng_slave.v with the reset of cryptolite_trng_spi.v.  *)
(* The FPGA's clock and the PIO's run against each other, with at least    *)
(* HALF cycles of the former in half a period of SCK.  A bit is known by   *)
(* where it comes from: "fresh" from ro_trng, the "reset" value of so_r,   *)
(* "used" once it has been sampled, and "late" once it has outlived the    *)
(* read it was sampled for.  The state machine may halt, when the bus is   *)
(* changed under it.                                                       *)
(***************************************************************************)
EXTENDS Integers, Sequences

CONSTANTS HALF,      \* cycles of the fabric in half a period of SCK (24 at 1 MHz)
          RESET,     \* cycles of reset after configuration (16)
          BITS,      \* bits of a byte (8)
          LENGTH,    \* bytes of a read (TRNG_READ_CHUNK, 32)
          DEPTH,     \* bytes a PIO FIFO holds (4)
          MaxHalts   \* bound on how often the state machine halts

(* Four cycles take a falling edge through the synchroniser into so_r.     *)
ASSUME SpiAssumption ==
    /\ HALF \in Nat /\ HALF >= 4
    /\ RESET \in Nat \ {0} /\ BITS \in Nat \ {0} /\ DEPTH \in Nat \ {0}
    /\ LENGTH \in Nat /\ MaxHalts \in Nat

VARIABLES sck, since,              \* the clock line, cycles since the PIO's last step
          reset_cnt, sck_sync, so, \* the FPGA: registers of the top and of the slave
          moved,                   \* whether SCK has moved in this cycle
          at, osr, isr, tx, rx,    \* the PIO: instruction, shift registers, FIFOs
          halted, halts,
          attached, late,          \* spi_pio_init done; a read has timed out since
          pc, dst, i               \* spi_pio_read

fpgaVars == <<reset_cnt, sck_sync, so, moved>>
pioVars  == <<at, osr, isr, tx, rx>>
cpuVars  == <<attached, late, pc, dst, i>>
vars == <<sck, since, fpgaVars, pioVars, halted, halts, cpuVars>>

Smaller(x, y) == IF x < y THEN x ELSE y

TypeOK ==
    /\ sck \in {0, 1} /\ since \in 0 .. HALF
    /\ reset_cnt \in 0 .. RESET /\ sck_sync \in [0 .. 2 -> {0, 1}]
    /\ so \in {"reset", "fresh", "used"} /\ moved \in BOOLEAN
    /\ at \in {"out", "in"} /\ osr \in 0 .. BITS /\ Len(isr) < BITS
    /\ tx \in 0 .. DEPTH /\ Len(rx) <= DEPTH
    /\ pc \in {"idle", "put", "get"} /\ i \in 1 .. (LENGTH + 1)
    /\ Len(dst) <= LENGTH

Init ==
    /\ sck = 0 /\ since = 0
    /\ reset_cnt = 0 /\ sck_sync = [k \in 0 .. 2 |-> 0] /\ so = "reset" /\ moved = FALSE
    /\ at = "out" /\ osr = 0 /\ isr = << >> /\ tx = 0 /\ rx = << >>
    /\ halted = FALSE /\ halts = 0
    /\ attached = FALSE /\ late = FALSE /\ pc = "idle" /\ dst = << >> /\ i = 1

--------------------------------------------------------------------------------
(* The FPGA, one cycle of its clock. *)

Resetn == reset_cnt = RESET

SckFalling == sck_sync[2] = 1 /\ sck_sync[1] = 0

Clk ==
    /\ reset_cnt' = Smaller(reset_cnt + 1, RESET)
    /\ \E level \in {sck} \cup (IF moved THEN {1 - sck} ELSE {}) :
         sck_sync' = IF Resetn THEN [k \in 0 .. 2 |-> IF k = 0 THEN level ELSE sck_sync[k - 1]]
                     ELSE [k \in 0 .. 2 |-> 0]
    /\ so' = IF ~ Resetn THEN "reset" ELSE IF SckFalling THEN "fresh" ELSE so
    /\ moved' = FALSE
    /\ since' = Smaller(since + 1, HALF)
    /\ UNCHANGED <<sck, pioVars, halted, halts, cpuVars>>

--------------------------------------------------------------------------------
(* The PIO state machine, one instruction. *)

(* Broken variant: the clock divider is one cycle short. *)
Due_Early == since >= HALF - 1
Due == since >= HALF

Step(level) ==
    /\ attached /\ ~ halted /\ Due
    /\ sck' = level /\ moved' = (sck # level) /\ since' = 0
    /\ UNCHANGED <<reset_cnt, sck_sync, halted, halts, cpuVars>>

(* out pins, 1 side 0: pulls a byte when it has none, waits while there is *)
(* none to pull, with SCK low in either case.                              *)
Out ==
    /\ at = "out" /\ Step(0)
    /\ sck = 1 \/ osr > 0 \/ tx > 0
    /\ IF osr > 0 THEN at' = "in" /\ osr' = osr - 1 /\ UNCHANGED tx
       ELSE IF tx > 0 THEN at' = "in" /\ osr' = BITS - 1 /\ tx' = tx - 1
       ELSE UNCHANGED <<at, osr, tx>>
    /\ UNCHANGED <<isr, rx, so>>

(* in pins, 1 side 1: samples on the rising edge, pushes a byte when full. *)
In ==
    /\ at = "in" /\ Step(1)
    /\ Len(isr) = BITS - 1 => Len(rx) < DEPTH
    /\ IF Len(isr) = BITS - 1
       THEN rx' = Append(rx, Append(isr, so)) /\ isr' = << >>
       ELSE isr' = Append(isr, so) /\ UNCHANGED rx
    /\ so' = "used" /\ at' = "out"
    /\ UNCHANGED <<osr, tx>>

Halt ==
    /\ ~ halted /\ halts < MaxHalts
    /\ halted' = TRUE /\ halts' = halts + 1
    /\ UNCHANGED <<sck, since, fpgaVars, pioVars, cpuVars>>

Resume ==
    /\ halted /\ halted' = FALSE
    /\ UNCHANGED <<sck, since, fpgaVars, pioVars, halts, cpuVars>>

--------------------------------------------------------------------------------
(* The RP2040 *)

Wires == UNCHANGED <<sck, since, fpgaVars, halted, halts>>

(* spi_pio_init from ice40_attach_spi_master: long after the clock of the  *)
(* FPGA was started, so that its reset is over.                            *)
Attach ==
    /\ ~ attached /\ Resetn
    /\ attached' = TRUE /\ late' = FALSE
    /\ sck' = 0 /\ moved' = (sck # 0) /\ since' = 0
    /\ at' = "out" /\ osr' = 0 /\ isr' = << >> /\ tx' = 0 /\ rx' = << >>
    /\ UNCHANGED <<reset_cnt, sck_sync, so, halted, halts, pc, dst, i>>

(* A programming session ends with the FPGA configured anew. *)
Reconfigure ==
    /\ attached /\ pc = "idle" /\ attached' = FALSE
    /\ reset_cnt' = 0 /\ sck_sync' = [k \in 0 .. 2 |-> 0] /\ so' = "reset"
    /\ UNCHANGED <<sck, since, moved, pioVars, halted, halts, late, pc, dst, i>>

Outlive(s) == [k \in 1 .. Len(s) |-> "late"]

(* spi_pio_read is called; dst is on the stack of trng_task. *)
Read ==
    /\ pc = "idle" /\ attached
    /\ pc' = "put" /\ i' = 1 /\ dst' = << >>
    /\ isr' = Outlive(isr) /\ rx' = [k \in 1 .. Len(rx) |-> Outlive(rx[k])]
    /\ UNCHANGED <<at, osr, tx, attached, late>> /\ Wires

(* Broken variant: nobody looks whether the FIFO is full. *)
TxRoom_Always == TRUE
TxRoom == tx < DEPTH

PutByte ==
    /\ pc = "put" /\ i <= LENGTH /\ TxRoom
    /\ tx' = tx + 1 /\ pc' = "get"
    /\ UNCHANGED <<at, osr, isr, rx, attached, late, dst, i>> /\ Wires

GetByte ==
    /\ pc = "get" /\ rx # << >>
    /\ dst' = Append(dst, Head(rx)) /\ rx' = Tail(rx)
    /\ i' = i + 1 /\ pc' = "put"
    /\ UNCHANGED <<at, osr, isr, tx, attached, late>> /\ Wires

Returned ==
    /\ pc = "put" /\ i > LENGTH
    /\ pc' = "idle" /\ i' = 1 /\ dst' = << >>
    /\ UNCHANGED <<pioVars, attached, late>> /\ Wires

(* Broken variant: the rest of the buffer stays as it was. *)
Zeros_Forgotten(n) == [k \in 1 .. n |-> <<"unset">>]
Zeros(n) == [k \in 1 .. n |-> <<"zero">>]

(* Broken variant: the time limit is never met. *)
TimesOut_Never == pc \in {"put", "get"} /\ halted /\ UNCHANGED vars

(* Five milliseconds pass with the state machine halted: what is left of   *)
(* dst is set to zero, but for the byte that get was waiting for.          *)
TimesOut ==
    /\ halted /\ i <= LENGTH
    /\ \/ pc = "put" /\ ~ TxRoom  /\ dst' = dst \o Zeros(LENGTH + 1 - i)
       \/ pc = "get" /\ rx = <<>> /\ dst' = dst \o << <<"unset">> >> \o Zeros(LENGTH - i)
    /\ pc' = "put" /\ i' = LENGTH + 1
    /\ late' = TRUE
    /\ UNCHANGED <<pioVars, attached>> /\ Wires

Cpu == Read \/ PutByte \/ GetByte \/ Returned \/ TimesOut

Next == Clk \/ Out \/ In \/ Halt \/ Resume \/ Attach \/ Reconfigure \/ Cpu

Spec == Init /\ [][Next]_vars

InRead == PutByte \/ GetByte \/ Returned \/ TimesOut

(* The clocks run, the code of a read does, and so does the time limit.    *)
FairSpec == Spec /\ WF_vars(Clk) /\ WF_vars(Out) /\ WF_vars(In) /\ WF_vars(InRead)

--------------------------------------------------------------------------------
(* Properties *)

Sampled == {isr} \cup {rx[k] : k \in 1 .. Len(rx)}
                 \cup {dst[k] : k \in 1 .. Len(dst)}

(* No bit is sampled twice: between two rising edges of SCK the slave has  *)
(* seen the falling edge through its synchroniser and latched another bit. *)
(* The only bit that is not random is the very first, so_r's reset value   *)
(* (spi_trng_slave.v:36-68, spi_pio.pio:14-17).                            *)
BitsUsedOnce == \A s \in Sampled : \A k \in 1 .. Len(s) : s[k] # "used"

Spoilt(byte) == \E b \in 1 .. Len(byte) : byte[b] \in {"late", "zero", "unset"}
Unset        == {k \in 1 .. Len(dst) : dst[k] = <<"unset">>}

(* Unless a read has timed out since spi_pio_init, every byte a read       *)
(* returns was sampled for that read; and the byte left unset, which       *)
(* trng_task stores like any other, is at most one (spi_pio.c:71-82).      *)
OnlyTimeoutsSpoil ==
    /\ ~ late => \A k \in 1 .. Len(dst) : ~ Spoilt(dst[k])
    /\ \A k, m \in Unset : k = m

(* A read ends, with the state machine halted or not (spi_pio.c:33-59).    *)
ReadEnds == (pc # "idle") ~> (pc = "idle")
================================================================================
