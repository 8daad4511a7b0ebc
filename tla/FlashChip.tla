------------------------------- MODULE FlashChip -------------------------------
(***************************************************************************)
(* The W25Q32 U6 as mcu/spi_flash.c uses it: one transaction is what is    *)
(* clocked between CS low and CS high.  The chip answers nothing while it  *)
(* sleeps, and only status reads while it is busy; it erases and programs  *)
(* only after a write enable and only when it is not write protected; a    *)
(* page program that runs past the end of its page wraps to its start.     *)
(***************************************************************************)
EXTENDS Integers, Sequences

CONSTANTS FLASH_BYTES, BLOCK, SECTOR, PAGE,    \* the geometry, in bytes
          Bits                                 \* the bits of a byte

ASSUME GeometryAssumption ==
    /\ {PAGE, SECTOR, BLOCK, FLASH_BYTES} \subseteq Nat \ {0}
    /\ SECTOR % PAGE = 0 /\ BLOCK % SECTOR = 0 /\ FLASH_BYTES % BLOCK = 0

VARIABLES mem,       \* the byte at each address, as the set of its 1 bits
          wel,       \* write enable latch
          locked,    \* block protection bits set
          asleep,    \* deep power down
          busy,      \* an erase, program or status write is under way
          present    \* soldered and powered

chipVars == <<mem, wel, locked, asleep, busy, present>>

Addr == 0 .. (FLASH_BYTES - 1)

ChipTypeOK ==
    /\ mem \in [Addr -> SUBSET Bits]
    /\ \A b \in {wel, locked, asleep, busy, present} : b \in BOOLEAN

ChipInit ==
    /\ mem = [x \in Addr |-> {}]
    /\ wel = FALSE /\ busy = FALSE
    /\ locked \in BOOLEAN /\ asleep \in BOOLEAN /\ present \in BOOLEAN

Listening == present /\ ~ asleep /\ ~ busy

(* The unit of n bytes around an address; upper address bits are ignored. *)
Unit(n, at) == {x \in Addr : x \div n = (at % FLASH_BYTES) \div n}

ErasedIn(S) == [x \in Addr |-> IF x \in S THEN Bits ELSE mem[x]]

ProgrammedAt(at, d) ==
    [x \in Addr |-> LET i == ((x - at) % PAGE) + 1
                    IN  IF x \in Unit(PAGE, at) /\ i \in DOMAIN d
                        THEN mem[x] \cap d[i] ELSE mem[x]]

(* What a command to change the memory or the status does. *)
Effect(t) ==
    CASE t.op = "ERASE_SECTOR" -> ErasedIn(Unit(SECTOR, t.at))
      [] t.op = "ERASE_BLOCK"  -> ErasedIn(Unit(BLOCK, t.at))
      [] t.op = "PROGRAM"      -> ProgrammedAt(t.at, t.data)
      [] OTHER                 -> mem

WriteEnable ==
    /\ wel' = (wel \/ Listening)
    /\ UNCHANGED <<mem, locked, asleep, busy, present>>

Execute(t) ==
    IF Listening /\ wel
    THEN /\ mem' = IF locked THEN mem ELSE Effect(t)
         /\ locked' = (locked /\ t.op # "WRITE_STATUS")
         /\ busy' = (~ locked \/ t.op = "WRITE_STATUS")
         /\ wel' = FALSE
         /\ UNCHANGED <<asleep, present>>
    ELSE UNCHANGED chipVars

ReleasePowerDown ==
    /\ asleep' = (asleep /\ busy)
    /\ UNCHANGED <<mem, wel, locked, busy, present>>

ChipFinishes == busy /\ busy' = FALSE /\ UNCHANGED <<mem, wel, locked, asleep, present>>
================================================================================
