------------------------------ MODULE FlashSession ------------------------------
(***************************************************************************)
(* What mcu/flash_writer.c and mcu/spi_flash.c promise of the flash, byte  *)
(* by byte and without the chip's commands: FLASH_BEGIN erases the sectors *)
(* of the announced size, FLASH_DATA clears bits inside that size, a write *)
(* of the driver erases and programs its range, and nothing else changes.  *)
(* When the chip is slower than the driver waits, or a write starts inside *)
(* a page, the promise is reduced to the rest of the flash; when an offset *)
(* wraps, there is none.                                                   *)
(***************************************************************************)
EXTENDS Integers, Sequences

CONSTANTS FLASH_BYTES, BLOCK, SECTOR, PAGE, Bits

VARIABLES content,    \* the byte at each address, as the set of its 1 bits
          open,       \* whether a session is open
          size,       \* the size it announced
          region,     \* the addresses the last erasing operation was about
          trust       \* "full", or only outside of the region, or "none"

svars == <<content, open, size, region, trust>>

Addr    == 0 .. (FLASH_BYTES - 1)
Payload == Seq(SUBSET Bits)

(* The addresses of the units of n bytes that lo .. hi-1 touches. *)
Units(n, lo, hi) == {x \in Addr : x \div n >= lo \div n /\ x \div n <= (hi - 1) \div n}

Wiped(c, S) == [x \in Addr |-> IF x \in S THEN Bits ELSE c[x]]

(* Programming clears bits, and never sets one. *)
Burnt(c, at, d) ==
    [x \in Addr |-> IF x - at + 1 \in DOMAIN d THEN c[x] \cap d[x - at + 1]
                    ELSE c[x]]

Init ==
    /\ content \in [Addr -> SUBSET Bits]
    /\ open = FALSE /\ size = 0 /\ region = {} /\ trust = "full"

Begin ==
    /\ ~ open /\ open' = TRUE
    /\ size' \in 1 .. FLASH_BYTES
    /\ region' = Units(SECTOR, 0, size')
    /\ content' = Wiped(content, region')
    /\ trust' = "full"

Data(at, d) ==
    /\ open /\ at + Len(d) <= size
    /\ content' = Burnt(content, at, d)
    /\ UNCHANGED <<open, size, region, trust>>

End ==
    /\ open /\ open' = FALSE
    /\ UNCHANGED <<content, size, region, trust>>

Write(at, d) ==
    /\ ~ open
    /\ region' = Units(SECTOR, at, at + Len(d))
    /\ content' = Burnt(Wiped(content, region'), at, d)
    /\ trust' = IF at % PAGE = 0 THEN "full" ELSE "region"
    /\ UNCHANGED <<open, size>>

EraseBlock(at) ==
    /\ ~ open
    /\ region' = Units(BLOCK, at, at + 1)
    /\ content' = Wiped(content, region')
    /\ trust' = "full"
    /\ UNCHANGED <<open, size>>

(* The chip is late, or an offset has wrapped. *)
Distrust ==
    /\ trust' \in {"region", "none"}
    /\ UNCHANGED <<content, open, size, region>>

Drift ==
    /\ trust # "full"
    /\ trust = "region" => \A x \in Addr \ region : content'[x] = content[x]
    /\ UNCHANGED <<open, size, region, trust>>

CONSTANTS Offsets, Datas    \* the operands that are tried
Next ==
    \/ Begin \/ End \/ Distrust \/ Drift
    \/ \E at \in Offsets : EraseBlock(at)
    \/ \E at \in Offsets, d \in Datas : Data(at, d) \/ Write(at, d)

Spec == Init /\ [][Next]_svars
================================================================================
