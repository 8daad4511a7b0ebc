----------------------------- MODULE FlashDriverMC -----------------------------
(* FlashDriver on a flash of two sectors of two pages of two bytes of one  *)
(* bit, with 32-bit offsets that wrap at 2 * FLASH_BYTES: sizes at and     *)
(* beyond both ends, and data that cross a page, a sector and the wrap.    *)
EXTENDS FlashDriver

MCTotals  == {0, 3, FLASH_BYTES, FLASH_BYTES + 1}
MCOffsets == {0, 3, U32 - 1}
MCDatas   == {<<{}, Bits, {}>>, <<Bits, {}>>}
================================================================================
