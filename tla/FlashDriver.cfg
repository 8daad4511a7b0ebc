SPECIFICATION FairSpec
CONSTANTS
  PAGE = 2
  SECTOR = 4
  BLOCK = 8
  FLASH_BYTES = 8
  Bits = {b0}
  U32 = 16
  Totals <- MCTotals
  Offsets <- MCOffsets
  Datas <- MCDatas
INVARIANTS TypeOK PresentChipIsFound WrittenVerifies
PROPERTIES ImplementsSession CallsReturn
