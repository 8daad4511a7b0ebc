---------------------------- MODULE Firmware_proofs ----------------------------
(***************************************************************************)
(* The firmware, for every size of the buffers and of the flash, any       *)
(* number of commands and any number of power losses, in three parts: who  *)
(* drives the SPI bus, the types and bounds of every variable, and what    *)
(* the host may rely on.                                                   *)
(***************************************************************************)
EXTENDS Firmware, FiniteSetTheorems, TLAPS

--------------------------------------------------------------------------------
(***************************************************************************)
(* Bus.  trng_task never clocks the bus unless the FPGA is attached, a     *)
(* session has the FPGA in reset throughout, and an FPGA that configures   *)
(* itself is left alone.  The three are not inductive: what makes them so  *)
(* is where in the boot and in the session the pause flag and the session  *)
(* flag may be set.                                                        *)
(***************************************************************************)

(* What the bus properties read. *)
busVars == <<fpgaVars, initialised, paused, inProgress>>

PhaseInv ==
    /\ pc \in {"boot", "boot_poll"} => ~ initialised /\ ~ inProgress
    /\ pc \in {"boot_poll", "end_poll"} => creset = "high" /\ ~ inProgress
    /\ pc = "end_poll" => paused
    /\ pc \in {"flash_init", "erase"} => ~ inProgress
    /\ pc = "random" => ~ paused /\ ~ inProgress

BusInv ==
    /\ initialised /\ ~ paused => Attached
    /\ ProgrammingIsSafe
    /\ ConfiguringIsSafe
    /\ PhaseInv

LEMMA InitBusInv == Init => BusInv
BY DEF Init, Ice40Init, EntropyInit, BusInv, ProgrammingIsSafe, Programming,
       ConfiguringIsSafe, PhaseInv

(* A step that leaves the pins and the flags alone, and stays clear of the *)
(* phases that constrain them.                                             *)
LEMMA PlainStep ==
    ASSUME BusInv, UNCHANGED busVars,
           pc' \in {"drain", "peel", "trng", "pipeline", "led", "bootsel"}
           \/ pc' = pc
    PROVE  BusInv'
BY DEF BusInv, busVars, fpgaVars, ProgrammingIsSafe, Programming, OwnsFlash,
       ConfiguringIsSafe, Attached, PhaseInv

(* A command answered on the spot. *)
LEMMA RefuseStep ==
    ASSUME BusInv, NEW cmd, NEW status, Refuse(cmd, status)
    PROVE  BusInv'
BY PlainStep DEF Refuse, busVars, entropyVars, writerVars

LEMMA BootSteps ==
    ASSUME BusInv, Boot \/ BootConfigured \/ BootTimesOut
    PROVE  BusInv'
<1>1. CASE Boot
  BY <1>1 DEF Boot, Goto, BootRelease, entropyVars, writerVars, BusInv,
              ProgrammingIsSafe, Programming, ConfiguringIsSafe, PhaseInv
<1>2. CASE BootConfigured
  BY <1>2 DEF BootConfigured, Goto, ClockStart, AttachSpiMaster,
              RngPipelineInit, writerVars, BusInv, Attached,
              ProgrammingIsSafe, Programming, ConfiguringIsSafe, PhaseInv
<1>3. CASE BootTimesOut
  BY <1>3 DEF BootTimesOut, Goto, ClockStart, entropyVars, writerVars, BusInv,
              ProgrammingIsSafe, Programming, ConfiguringIsSafe, PhaseInv
<1> QED  BY <1>1, <1>2, <1>3

LEMMA RandomSteps ==
    ASSUME BusInv, GetRandom
    PROVE  BusInv'
<1>1. ASSUME NEW n \in 0 .. (MaxBlocks + 1), RandomRefused(n)  PROVE BusInv'
  BY <1>1, RefuseStep DEF RandomRefused
<1>2. ASSUME NEW n \in 0 .. (MaxBlocks + 1), RandomStarts(n)  PROVE BusInv'
  BY <1>2 DEF RandomStarts, Dispatch, fpgaVars, entropyVars, writerVars, BusInv,
              ProgrammingIsSafe, Programming, OwnsFlash, ConfiguringIsSafe,
              Attached, PhaseInv
<1>3. CASE RandomWaits
  BY <1>3, PlainStep
     DEF RandomWaits, TrngTask, busVars, writerVars
<1>4. CASE RandomTimesOut
  BY <1>4, PlainStep
     DEF RandomTimesOut, RandomEnds, Goto, busVars, entropyVars, writerVars
<1>5. CASE RandomUnhealthy
  BY <1>5, PlainStep
     DEF RandomUnhealthy, RandomEnds, TakeRaw, Goto, busVars, writerVars
<1>6. CASE RandomBlock
  BY <1>6, PlainStep DEF RandomBlock, TakeRaw, busVars, writerVars
<1>7. CASE RandomLastBlock
  BY <1>7, PlainStep
     DEF RandomLastBlock, RandomEnds, TakeRaw, Goto, busVars, writerVars
<1> QED  BY <1>1, <1>2, <1>3, <1>4, <1>5, <1>6, <1>7 DEF GetRandom

LEMMA BeginSteps ==
    ASSUME BusInv, FlashBegin
    PROVE  BusInv'
<1> USE DEF BusInv, ProgrammingIsSafe, Programming, OwnsFlash,
            ConfiguringIsSafe, Attached, PhaseInv
<1>1. ASSUME NEW total \in 0 .. (PAGES + 1), BeginRefused(total)  PROVE BusInv'
  BY <1>1, RefuseStep DEF BeginRefused
<1>2. ASSUME NEW total \in 0 .. (PAGES + 1), BeginStarts(total)  PROVE BusInv'
  BY <1>2 DEF BeginStarts, Dispatch, BeginClaims, SetPaused, ClaimSpi, writerVars
<1>3. CASE FlashNotFound
  BY <1>3 DEF FlashNotFound, Goto, BeginFails, fpgaVars, entropyVars
<1>4. CASE FlashFound
  BY <1>4 DEF FlashFound, Goto, fpgaVars, entropyVars, writerVars
<1>5. CASE EraseNext
  BY <1>5, PlainStep DEF EraseNext, busVars, entropyVars
<1>6. CASE EraseDone
  BY <1>6 DEF EraseDone, Goto, BeginSucceeds, fpgaVars, entropyVars
<1> QED  BY <1>1, <1>2, <1>3, <1>4, <1>5, <1>6 DEF FlashBegin

LEMMA DataSteps ==
    ASSUME BusInv, FlashData
    PROVE  BusInv'
<1>1. ASSUME NEW a, NEW n, DataRefused(a, n)  PROVE BusInv'
  BY <1>1, RefuseStep DEF DataRefused
<1>2. ASSUME NEW a, NEW n, NEW data, DataStarts(a, n, data)  PROVE BusInv'
  BY <1>2 DEF DataStarts, Dispatch, fpgaVars, entropyVars, writerVars, BusInv,
              ProgrammingIsSafe, Programming, OwnsFlash, ConfiguringIsSafe,
              Attached, PhaseInv
<1>3. CASE ProgramNext
  BY <1>3, PlainStep DEF ProgramNext, busVars, entropyVars
<1>4. CASE ProgramDone
  BY <1>4, PlainStep DEF ProgramDone, Goto, busVars, entropyVars, writerVars
<1> QED  BY <1>1, <1>2, <1>3, <1>4 DEF FlashData

LEMMA EndSteps ==
    ASSUME BusInv, FlashEnd
    PROVE  BusInv'
<1> USE DEF BusInv, ProgrammingIsSafe, Programming, OwnsFlash,
            ConfiguringIsSafe, Attached, PhaseInv
<1>1. CASE EndRefused
  BY <1>1, RefuseStep DEF EndRefused
<1>2. CASE EndStarts
  BY <1>2 DEF EndStarts, Dispatch, EndReleases, RebootRelease, entropyVars
<1>3. CASE EndSucceeds
  BY <1>3 DEF EndSucceeds, Goto, EndConfigured, ClockStart, AttachSpiMaster,
              SetPaused, writerVars
<1>4. CASE EndFails
  BY <1>4 DEF EndFails, Goto, EndTimesOut, ClockStart, writerVars, entropyVars
<1> QED  BY <1>1, <1>2, <1>3, <1>4 DEF FlashEnd

LEMMA OtherCommands ==
    ASSUME BusInv,
           \/ Status \/ OtherCommand \/ BadLength \/ RebootBootloader
           \/ \E cmd \in Commands : OversizedFrame(cmd) \/ HeaderWraps(cmd)
    PROVE  BusInv'
<1>1. CASE Status \/ OtherCommand \/ BadLength
  BY <1>1, RefuseStep DEF Status, OtherCommand, BadLength
<1>2. CASE RebootBootloader
  BY <1>2, PlainStep
     DEF RebootBootloader, Dispatch, busVars, entropyVars, writerVars
<1>3. ASSUME NEW cmd, OversizedFrame(cmd) \/ HeaderWraps(cmd)  PROVE BusInv'
  BY <1>3, PlainStep DEF OversizedFrame, HeaderWraps, Goto, busVars, entropyVars, writerVars
<1> QED  BY <1>1, <1>2, <1>3

LEMMA LoopSteps ==
    ASSUME BusInv, Drain \/ PeelDone \/ Trng \/ Pipeline \/ Led
    PROVE  BusInv'
<1>1. CASE Drain
  BY <1>1, PlainStep DEF Drain, Goto, busVars, entropyVars, writerVars
<1>2. CASE PeelDone
  BY <1>2, PlainStep DEF PeelDone, Goto, busVars, entropyVars, writerVars
<1>3. CASE Trng
  BY <1>3, PlainStep DEF Trng, TrngTask, Goto, busVars, writerVars
<1>4. CASE Pipeline
  BY <1>4, PlainStep DEF Pipeline, RngPipelineTask, Goto, busVars, writerVars
<1>5. CASE Led
  BY <1>5, PlainStep DEF Led, Goto, busVars, entropyVars, writerVars
<1> QED  BY <1>1, <1>2, <1>3, <1>4, <1>5

LEMMA RamLostStep ==
    ASSUME RamLost
    PROVE  BusInv'
BY DEF RamLost, BusInv, ProgrammingIsSafe, Programming, ConfiguringIsSafe, PhaseInv

LEMMA EnvironmentSteps ==
    ASSUME BusInv, Environment
    PROVE  BusInv'
<1>1. CASE Configures
  BY <1>1 DEF Configures, FpgaConfigures, entropyVars, writerVars, BusInv,
              ProgrammingIsSafe, Programming, OwnsFlash, ConfiguringIsSafe,
              Attached, PhaseInv
<1>2. CASE TimePasses \/ ChipReadyAtLast
  BY <1>2, PlainStep
     DEF TimePasses, ChipReadyAtLast, ChipFinishes, busVars, entropyVars, writerVars
<1>3. CASE SourceDies
  BY <1>3, PlainStep
     DEF SourceDies, TrngTaskSourceDies, busVars, writerVars
<1>4. CASE PowerLoss  BY <1>4, RamLostStep DEF PowerLoss
<1>5. CASE LeaveBootsel  BY <1>5, RamLostStep DEF LeaveBootsel
<1> QED  BY <1>1, <1>2, <1>3, <1>4, <1>5 DEF Environment

LEMMA NextKeepsBusInv ==
    ASSUME BusInv, [Next]_vars
    PROVE  BusInv'
<1>1. CASE Thread
  BY <1>1, BootSteps, LoopSteps, OtherCommands, RandomSteps, BeginSteps,
     DataSteps, EndSteps DEF Thread, Command
<1>2. CASE Environment  BY <1>2, EnvironmentSteps
<1>3. CASE UNCHANGED vars
  BY <1>3, PlainStep DEF vars, busVars, entropyVars, writerVars
<1> QED  BY <1>1, <1>2, <1>3 DEF Next

(* trng_task clocks the bus only when the FPGA is running and attached:    *)
(* never in a session, after a failed one, or while the FPGA configures.   *)
THEOREM SamplingAlwaysSafe == Spec => []SamplingIsSafe
<1>1. BusInv => SamplingIsSafe  BY DEF BusInv, SamplingIsSafe
<1> QED  BY <1>1, InitBusInv, NextKeepsBusInv, PTL DEF Spec

(* From FLASH_BEGIN to FLASH_END the FPGA is in reset, the RP2040 alone on *)
(* the bus, and the sampling paused.                                       *)
THEOREM ProgrammingAlwaysSafe == Spec => []ProgrammingIsSafe
<1>1. BusInv => ProgrammingIsSafe  BY DEF BusInv
<1> QED  BY <1>1, InitBusInv, NextKeepsBusInv, PTL DEF Spec

(* An FPGA out of reset and not configured has the bus for itself. *)
THEOREM ConfiguringAlwaysSafe == Spec => []ConfiguringIsSafe
<1>1. BusInv => ConfiguringIsSafe  BY DEF BusInv
<1> QED  BY <1>1, InitBusInv, NextKeepsBusInv, PTL DEF Spec

--------------------------------------------------------------------------------
(***************************************************************************)
(* Types.  Beyond types the invariant says that neither ring nor pool      *)
(* overflows (they are taken from in blocks and filled in chunks, behind   *)
(* checks in different functions), that the counters of the health tests   *)
(* stay in range, and where FLASH_DATA may program: the end of a job, as a *)
(* 32-bit number, is inside the session, its pages need not be.            *)
(***************************************************************************)

(* What the operations of the components do to the components' types. *)

LEMMA KeptTypes ==
    /\ Ice40TypeOK /\ UNCHANGED fpgaVars => Ice40TypeOK'
    /\ LedTypeOK /\ UNCHANGED ledVars => LedTypeOK'
    /\ EntropyTypeOK /\ UNCHANGED entropyVars => EntropyTypeOK'
    /\ WriterTypeOK /\ UNCHANGED writerVars => WriterTypeOK'
<1>1. Ice40TypeOK /\ UNCHANGED fpgaVars => Ice40TypeOK'
  BY DEF Ice40TypeOK, fpgaVars
<1>2. LedTypeOK /\ UNCHANGED ledVars => LedTypeOK'
  BY DEF LedTypeOK, ledVars
<1>3. EntropyTypeOK /\ UNCHANGED entropyVars => EntropyTypeOK'
  BY DEF EntropyTypeOK, entropyVars
<1>4. WriterTypeOK /\ UNCHANGED writerVars => WriterTypeOK'
  BY DEF WriterTypeOK, writerVars
<1> QED  BY <1>1, <1>2, <1>3, <1>4

LEMMA LedSetTypes ==
    ASSUME LedTypeOK, NEW state \in LedState, LedSet(state)
    PROVE  LedTypeOK'
BY DEF LedTypeOK, LedSet

LEMMA LedTaskTypes ==
    ASSUME LedTypeOK, LedTask
    PROVE  LedTypeOK'
BY DEF LedTypeOK, LedTask, LedState

LEMMA EmptyType == << >> \in Seq(Byte) /\ Len(<< >>) = 0
OBVIOUS

LEMMA BytesType ==
    ASSUME NEW b \in Byte, NEW n \in Nat
    PROVE  Bytes(b, n) \in Seq(Byte) /\ Len(Bytes(b, n)) = n
BY DEF Bytes

(* trng_task adds a chunk only where there is room for it. *)
LEMMA TrngTaskTypes ==
    ASSUME EntropyTypeOK, TrngTask
    PROVE  EntropyTypeOK'
<1>1. Bytes(source, CHUNK) \in Seq(Byte) /\ Len(Bytes(source, CHUNK)) = CHUNK
  BY BytesType, EntropyAssumption DEF EntropyTypeOK
<1>2. ring' \in Seq(Byte) /\ Len(ring') < RING_BYTES
  BY <1>1, EntropyAssumption DEF EntropyTypeOK, TrngTask, TrngReady, RingFree
<1> QED  BY <1>2 DEF EntropyTypeOK, TrngTask

LEMMA SourceDiesTypes ==
    ASSUME EntropyTypeOK, NEW k \in 0 .. (CHUNK - 1), TrngTaskSourceDies(k)
    PROVE  EntropyTypeOK'
<1> DEFINE live  == Bytes("live", k)
           stuck == Bytes("stuck", CHUNK - k)
<1>1. CHUNK \in Nat /\ k \in Nat /\ CHUNK - k \in Nat
  BY EntropyAssumption
<1>2. /\ live \in Seq(Byte) /\ Len(live) = k
      /\ stuck \in Seq(Byte) /\ Len(stuck) = CHUNK - k
  BY <1>1, BytesType DEF Byte
<1>3. ring' = ring \o live \o stuck /\ ring \in Seq(Byte)
  BY DEF EntropyTypeOK, TrngTaskSourceDies
<1>4. ring' \in Seq(Byte) /\ Len(ring') = Len(ring) + k + (CHUNK - k)
  <2> HIDE DEF live, stuck
  <2> QED  BY <1>2, <1>3
<1>5. Len(ring') < RING_BYTES
  BY <1>1, <1>3, <1>4, EntropyAssumption
     DEF EntropyTypeOK, TrngTaskSourceDies, TrngReady, RingFree
<1> QED  BY <1>4, <1>5 DEF EntropyTypeOK, TrngTaskSourceDies, Byte

(* What is left of the ring after the first n bytes are taken. *)
LEMMA TakenTypes ==
    ASSUME NEW s \in Seq(Byte), NEW n \in 0 .. Len(s)
    PROVE  /\ SubSeq(s, 1, n) \in Seq(Byte) /\ Len(SubSeq(s, 1, n)) = n
           /\ SubSeq(s, n + 1, Len(s)) \in Seq(Byte)
           /\ Len(SubSeq(s, n + 1, Len(s))) = Len(s) - n
OBVIOUS

LEMMA TakeRawTypes ==
    ASSUME EntropyTypeOK, TakeRaw
    PROVE  EntropyTypeOK'
<1>1. RAW_BYTES \in 0 .. Len(ring)
  BY EntropyAssumption DEF EntropyTypeOK, TakeRaw, RawReady
<1>2. ring' \in Seq(Byte) /\ Len(ring') < RING_BYTES
  BY <1>1, TakenTypes, EntropyAssumption DEF EntropyTypeOK, TakeRaw
<1> QED  BY <1>2 DEF EntropyTypeOK, TakeRaw

LEMMA RunAfterType ==
    ASSUME NEW s
    PROVE  RunAfter(s) \in 0 .. RCT_BYTES
<1> DEFINE t == Stream(s)
           S == {n \in 1 .. RCT_BYTES :
                   n <= Len(t) /\ StuckAt(t, Len(t) - n + 1, n)}
<1>1. IsFiniteSet(1 .. RCT_BYTES) /\ Cardinality(1 .. RCT_BYTES) = RCT_BYTES
  BY FS_Interval, EntropyAssumption
<1>2. S \subseteq 1 .. RCT_BYTES
  OBVIOUS
<1>3. /\ IsFiniteSet(S)
      /\ Cardinality(S) <= Cardinality(1 .. RCT_BYTES)
  <2> HIDE DEF S
  <2> QED  BY <1>1, <1>2, FS_Subset
<1>4. Cardinality(S) \in Nat
  <2> HIDE DEF S
  <2> QED  BY <1>3, FS_CardinalityType
<1>5. RunAfter(s) = Cardinality(S)
  BY DEF RunAfter
<1> QED  BY <1>1, <1>3, <1>4, <1>5

LEMMA PassedType ==
    ASSUME NEW s \in Seq(Byte)
    PROVE  Passed(s) \in Nat
<1> DEFINE S == {k \in 1 .. Len(s) : ~ Trips(SubSeq(s, 1, k))}
<1>1. IsFiniteSet(1 .. Len(s))
  BY FS_Interval
<1>2. S \subseteq 1 .. Len(s)
  OBVIOUS
<1>3. IsFiniteSet(S)
  <2> HIDE DEF S
  <2> QED  BY <1>1, <1>2, FS_Subset
<1>4. Cardinality(S) \in Nat
  <2> HIDE DEF S
  <2> QED  BY <1>3, FS_CardinalityType
<1> QED  BY <1>4 DEF Passed

LEMMA FeedTypes ==
    ASSUME EntropyTypeOK, NEW s \in Seq(Byte), Feed(s)
    PROVE  /\ health' \in {"warming", "ok", "fail"}
           /\ warm' \in 0 .. STARTUP_BYTES
           /\ stuckRun' \in 0 .. RCT_BYTES
<1>1. /\ RunAfter(s) \in 0 .. RCT_BYTES /\ Passed(s) \in Nat
      /\ RCT_BYTES \in Nat /\ STARTUP_BYTES \in Nat
  BY RunAfterType, PassedType, EntropyAssumption
<1>2. CASE health = "fail"
  BY <1>2 DEF EntropyTypeOK, Feed
<1>3. CASE health # "fail"
  <2>1. warm' = Least(warm + Passed(s), STARTUP_BYTES)
    BY <1>3 DEF Feed
  <2>2. warm' \in 0 .. STARTUP_BYTES
    BY <2>1, <1>1 DEF EntropyTypeOK, Least
  <2>3. stuckRun' \in 0 .. RCT_BYTES
    BY <1>1, <1>3 DEF Feed
  <2>4. health' \in {"warming", "ok", "fail"}
    BY <1>3 DEF EntropyTypeOK, Feed
  <2> QED  BY <2>2, <2>3, <2>4
<1> QED  BY <1>2, <1>3

(* _refill_pool moves what the ring holds, and no more than the pool takes. *)
LEMMA MovedType ==
    ASSUME EntropyTypeOK
    PROVE  Moved \in 0 .. Len(ring) /\ Moved <= PoolFree
<1>1. PoolFree \in Nat
  BY EntropyAssumption DEF EntropyTypeOK, PoolFree
<1>2. Len(ring) \in Nat /\ CHUNK \in Nat \ {0}
  BY EntropyAssumption DEF EntropyTypeOK
<1>3. /\ PoolFree \div CHUNK \in Nat
      /\ CHUNK * (PoolFree \div CHUNK) <= PoolFree
      /\ CHUNK * (PoolFree \div CHUNK) \in Nat
  BY <1>1, <1>2
<1> QED  BY <1>1, <1>2, <1>3 DEF Moved, Least

LEMMA RngPipelineTaskTypes ==
    ASSUME EntropyTypeOK, RngPipelineTask
    PROVE  EntropyTypeOK'
<1> DEFINE moved == SubSeq(ring, 1, Moved)
<1>1. Moved \in 0 .. Len(ring) /\ Moved <= PoolFree
  BY MovedType
<1>2. /\ moved \in Seq(Byte) /\ Len(moved) = Moved
      /\ ring' \in Seq(Byte) /\ Len(ring') = Len(ring) - Moved
  BY <1>1, TakenTypes DEF EntropyTypeOK, RngPipelineTask
<1>3. pool' \in Seq(Byte) /\ Len(pool') < POOL_BYTES
  BY <1>1, <1>2, EntropyAssumption DEF EntropyTypeOK, RngPipelineTask, PoolFree
<1>4. Feed(moved)
  BY DEF RngPipelineTask
<1>5. /\ health' \in {"warming", "ok", "fail"}
      /\ warm' \in 0 .. STARTUP_BYTES
      /\ stuckRun' \in 0 .. RCT_BYTES
  BY <1>2, <1>4, FeedTypes
<1>6. Len(ring') < RING_BYTES
  BY <1>1, <1>2, EntropyAssumption DEF EntropyTypeOK
<1> QED  BY <1>2, <1>3, <1>5, <1>6 DEF EntropyTypeOK, RngPipelineTask

(* An operation of the chip, and its end. *)
LEMMA OperateTypes ==
    ASSUME WriterTypeOK, NEW S, NEW new \in [Page -> Contents], Operate(S, new),
           UNCHANGED <<inProgress, totalSize>>
    PROVE  WriterTypeOK'
BY DEF WriterTypeOK, Operate, SetPages, Contents

LEMMA UnprotectTypes ==
    ASSUME WriterTypeOK, Unprotect, UNCHANGED <<inProgress, totalSize>>
    PROVE  WriterTypeOK'
BY OperateTypes DEF Unprotect, WriterTypeOK

LEMMA EraseSectorTypes ==
    ASSUME WriterTypeOK, NEW a, EraseSector(a), UNCHANGED <<inProgress, totalSize>>
    PROVE  WriterTypeOK'
<1> DEFINE new == [p \in Page |-> IF p \in Sector(a) THEN "erased" ELSE flash[p]]
<1>1. new \in [Page -> Contents]
  BY DEF WriterTypeOK, Contents
<1> QED  BY <1>1, OperateTypes DEF EraseSector

LEMMA ProgramPageTypes ==
    ASSUME WriterTypeOK, NEW a, NEW data \in {"image", "junk"},
           ProgramPage(a, data), UNCHANGED <<inProgress, totalSize>>
    PROVE  WriterTypeOK'
<1> DEFINE page == a % PAGES
           new  == [flash EXCEPT ![page] = Programmed(@, data)]
<1>1. new \in [Page -> Contents]
  <2> HIDE DEF page
  <2> QED  BY DEF WriterTypeOK, Programmed, Contents
<1> QED  BY <1>1, OperateTypes DEF ProgramPage

LEMMA ChipFinishesTypes ==
    ASSUME WriterTypeOK, ChipFinishes
    PROVE  WriterTypeOK'
BY DEF WriterTypeOK, ChipFinishes

(* What a 32-bit sum is. *)
LEMMA PlusType ==
    ASSUME NEW a \in 0 .. (OFFSETS - 1), NEW n \in 0 .. (OFFSETS - 1)
    PROVE  Plus(a, n) \in 0 .. (OFFSETS - 1)
BY FlashAssumption DEF Plus

--------------------------------------------------------------------------------
(* What the steps of the thread do to all of it. *)

LEMMA InitTypes == Init => TypeOK
<1> SUFFICES ASSUME Init PROVE TypeOK
  OBVIOUS
<1>1. Ice40TypeOK /\ LedTypeOK
  BY DEF Init, Ice40Init, LedInit, Ice40TypeOK, LedTypeOK, LedState
<1>2. EntropyTypeOK
  <2>1. initialised \in BOOLEAN /\ paused \in BOOLEAN
    BY DEF Init, EntropyInit
  <2>2. /\ ring \in Seq(Byte) /\ Len(ring) < RING_BYTES
        /\ pool \in Seq(Byte) /\ Len(pool) < POOL_BYTES
        /\ health \in {"warming", "ok", "fail"}
        /\ warm \in 0 .. STARTUP_BYTES
        /\ stuckRun \in 0 .. RCT_BYTES
        /\ source \in Byte
    BY EmptyType, EntropyAssumption DEF Init, EntropyInit, Byte
  <2> QED  BY <2>1, <2>2 DEF EntropyTypeOK
<1>3. WriterTypeOK
  <2>1. inProgress \in BOOLEAN
    BY DEF Init
  <2>2. totalSize \in 0 .. PAGES /\ flash \in [Page -> Contents]
    BY FlashAssumption DEF Init, Contents
  <2>3. overdue \subseteq [Page -> Contents] /\ gaveUp \in BOOLEAN
    BY DEF Init
  <2> QED  BY <2>1, <2>2, <2>3 DEF WriterTypeOK
<1> QED
  BY <1>1, <1>2, <1>3, FirmwareAssumption
     DEF Init, TypeOK, JobOK, PC, NoJob, NoReply, Infos

LEMMA RefuseTypes ==
    ASSUME TypeOK, NEW cmd \in Commands, NEW status \in Statuses,
           Refuse(cmd, status)
    PROVE  TypeOK'
BY KeptTypes, FirmwareAssumption
   DEF TypeOK, Refuse, Dispatch, Reply, Infos, JobOK

LEMMA BootTypes ==
    ASSUME TypeOK, Boot \/ BootConfigured \/ BootTimesOut
    PROVE  TypeOK'
<1> USE DEF TypeOK, Goto, Silent, NoReply, Infos, PC, JobOK
<1>1. CASE Boot
  BY <1>1, KeptTypes DEF Boot, BootRelease, Ice40TypeOK
<1>2. CASE BootConfigured
  <2>1. Ice40TypeOK'
    BY <1>2 DEF BootConfigured, ClockStart, AttachSpiMaster, Ice40TypeOK
  <2>2. LedTypeOK'
    BY <1>2, LedSetTypes DEF BootConfigured, LedState
  <2>3. EntropyTypeOK'
    <3>1. initialised' \in BOOLEAN /\ paused' \in BOOLEAN
      BY <1>2 DEF BootConfigured, RngPipelineInit
    <3>2. /\ ring' \in Seq(Byte) /\ Len(ring') < RING_BYTES
          /\ health' \in {"warming", "ok", "fail"}
          /\ warm' \in 0 .. STARTUP_BYTES
          /\ stuckRun' \in 0 .. RCT_BYTES
          /\ pool' = pool /\ source' = source
      BY <1>2, EmptyType, EntropyAssumption DEF BootConfigured, RngPipelineInit
    <3> QED  BY <3>1, <3>2 DEF EntropyTypeOK
  <2> QED  BY <1>2, <2>1, <2>2, <2>3, KeptTypes DEF BootConfigured
<1>3. CASE BootTimesOut
  <2>1. Ice40TypeOK'
    BY <1>3 DEF BootTimesOut, ClockStart, Ice40TypeOK
  <2>2. LedTypeOK'
    BY <1>3, LedSetTypes DEF BootTimesOut, LedState
  <2> QED  BY <1>3, <2>1, <2>2, KeptTypes DEF BootTimesOut
<1> QED  BY <1>1, <1>2, <1>3

LEMMA LoopTypes ==
    ASSUME TypeOK, Drain \/ PeelDone \/ Trng \/ Pipeline \/ Led
    PROVE  TypeOK'
<1> USE DEF TypeOK, Goto, Silent, NoReply, Infos, PC, JobOK
<1>1. CASE Drain     BY <1>1, KeptTypes DEF Drain
<1>2. CASE PeelDone  BY <1>2, KeptTypes DEF PeelDone
<1>3. CASE Trng      BY <1>3, KeptTypes, TrngTaskTypes DEF Trng
<1>4. CASE Pipeline  BY <1>4, KeptTypes, RngPipelineTaskTypes DEF Pipeline
<1>5. CASE Led       BY <1>5, KeptTypes, LedTaskTypes DEF Led
<1> QED  BY <1>1, <1>2, <1>3, <1>4, <1>5

LEMMA CommandTypes ==
    ASSUME TypeOK,
           \/ Status \/ OtherCommand \/ BadLength \/ RebootBootloader
           \/ \E cmd \in Commands : OversizedFrame(cmd) \/ HeaderWraps(cmd)
    PROVE  TypeOK'
<1>1. CASE Status \/ OtherCommand \/ BadLength
  BY <1>1, RefuseTypes
     DEF Status, OtherCommand, BadLength, Commands, Statuses
<1>2. CASE RebootBootloader
  BY <1>2, KeptTypes, FirmwareAssumption
     DEF RebootBootloader, Dispatch, Reply, TypeOK, PC, JobOK, Infos, Commands,
         Statuses
<1>3. ASSUME NEW cmd \in Commands, OversizedFrame(cmd)  PROVE TypeOK'
  BY <1>3, KeptTypes, FirmwareAssumption
     DEF OversizedFrame, Goto, Reply, TypeOK, PC, JobOK, Infos, Statuses
<1>4. ASSUME NEW cmd \in Commands, HeaderWraps(cmd)  PROVE TypeOK'
  BY <1>4, KeptTypes
     DEF HeaderWraps, Silent, NoReply, TypeOK, JobOK, Infos, writerVars
<1> QED  BY <1>1, <1>2, <1>3, <1>4

(* Every way GET_RANDOM ends. *)
LEMMA RandomEndsTypes ==
    ASSUME TypeOK, EntropyTypeOK',
           NEW status \in Statuses, NEW info \in Infos,
           RandomEnds(status, info)
    PROVE  TypeOK'
<1>1. LedTypeOK'
  BY LedSetTypes DEF RandomEnds, TypeOK, LedState
<1> QED
  BY <1>1, KeptTypes
     DEF RandomEnds, Goto, Reply, TypeOK, PC, JobOK, NoJob, Commands

LEMMA RandomTypes ==
    ASSUME TypeOK, GetRandom
    PROVE  TypeOK'
<1>1. ASSUME NEW n, RandomRefused(n)  PROVE TypeOK'
  BY <1>1, RefuseTypes DEF RandomRefused, Commands, Statuses
<1>2. ASSUME NEW n, RandomStarts(n)  PROVE TypeOK'
  <2>1. LedTypeOK'
    BY <1>2, LedSetTypes DEF RandomStarts, TypeOK, LedState
  <2> QED
    BY <1>2, <2>1, KeptTypes, FirmwareAssumption
       DEF RandomStarts, Dispatch, Silent, NoReply, NoJob, TypeOK, PC, JobOK, Infos
<1>3. CASE RandomWaits
  BY <1>3, KeptTypes, TrngTaskTypes
     DEF RandomWaits, Silent, NoReply, TypeOK, JobOK, Infos
<1>4. CASE RandomTimesOut
  BY <1>4, KeptTypes, RandomEndsTypes
     DEF RandomTimesOut, TypeOK, Statuses, Infos
<1>5. CASE RandomUnhealthy
  BY <1>5, TakeRawTypes, RandomEndsTypes
     DEF RandomUnhealthy, TypeOK, Statuses, Infos
<1>6. CASE RandomBlock
  <2>1. TaintWith(RawBlock) \in {"none", "stuck"}
    BY <1>6 DEF RandomBlock, TaintWith, TypeOK, JobOK
  <2>2. job' \in [left : Nat, at : Nat, data : {"none", "image", "junk", "stuck"}]
        /\ job'.data = TaintWith(RawBlock)
    <3>1. PICK t \in {"none", "stuck"} : t = TaintWith(RawBlock)
      BY <2>1
    <3>2. job' = [job EXCEPT !.left = @ - 1, !.data = t] /\ job.left > 1
      BY <1>6, <3>1 DEF RandomBlock
    <3>3. job.left - 1 \in Nat /\ job.at \in Nat
      BY <3>2 DEF TypeOK
    <3>4. job' = [left |-> job.left - 1, at |-> job.at, data |-> t]
      BY <3>2 DEF TypeOK
    <3> QED  BY <3>1, <3>3, <3>4
  <2> QED
    BY <1>6, <2>1, <2>2, KeptTypes, TakeRawTypes
       DEF RandomBlock, Silent, NoReply, TypeOK, JobOK, Infos
<1>7. CASE RandomLastBlock
  <2>1. TaintWith(RawBlock) \in Infos
    BY <1>7 DEF RandomLastBlock, TaintWith, TypeOK, JobOK, Infos
  <2> QED
    BY <1>7, <2>1, TakeRawTypes, RandomEndsTypes
       DEF RandomLastBlock, TypeOK, Statuses
<1> QED  BY <1>1, <1>2, <1>3, <1>4, <1>5, <1>6, <1>7 DEF GetRandom

LEMMA BeginTypes ==
    ASSUME TypeOK, FlashBegin
    PROVE  TypeOK'
<1>1. ASSUME NEW total, BeginRefused(total)  PROVE TypeOK'
  BY <1>1, RefuseTypes DEF BeginRefused, Commands, Statuses
<1>2. ASSUME NEW total, BeginStarts(total)  PROVE TypeOK'
  <2>1. LedTypeOK'
    BY <1>2, LedSetTypes DEF BeginStarts, BeginClaims, TypeOK, LedState
  <2>2. Ice40TypeOK' /\ EntropyTypeOK'
    BY <1>2 DEF BeginStarts, BeginClaims, ClaimSpi, SetPaused, TypeOK,
                Ice40TypeOK, EntropyTypeOK
  <2>3. WriterTypeOK'
    BY <1>2 DEF BeginStarts, BeginClaims, TypeOK, WriterTypeOK
  <2> QED
    BY <1>2, <2>1, <2>2, <2>3, KeptTypes, FlashAssumption, FirmwareAssumption
       DEF BeginStarts, BeginClaims, Dispatch, Silent, NoReply, NoJob, TypeOK,
           PC, JobOK, Infos
<1>3. CASE FlashNotFound
  <2>1. LedTypeOK'
    BY <1>3, LedSetTypes DEF FlashNotFound, BeginFails, TypeOK, LedState
  <2>2. WriterTypeOK'
    BY <1>3 DEF FlashNotFound, BeginFails, TypeOK, WriterTypeOK
  <2> QED
    BY <1>3, <2>1, <2>2, KeptTypes
       DEF FlashNotFound, BeginFails, Goto, Reply, NoJob, TypeOK, PC, JobOK,
           Commands, Statuses, Infos
<1>4. CASE FlashFound
  BY <1>4, KeptTypes, UnprotectTypes
     DEF FlashFound, Goto, Silent, NoReply, TypeOK, PC, JobOK, Infos
<1>5. CASE EraseNext
  <2>1. WriterTypeOK'
    BY <1>5, EraseSectorTypes DEF EraseNext, TypeOK
  <2> QED
    BY <1>5, <2>1, KeptTypes, FlashAssumption
       DEF EraseNext, Silent, NoReply, TypeOK, PC, JobOK, Infos
<1>6. CASE EraseDone
  <2>1. LedTypeOK'
    BY <1>6, LedSetTypes DEF EraseDone, BeginSucceeds, TypeOK, LedState
  <2>2. WriterTypeOK'
    BY <1>6, FlashAssumption
       DEF EraseDone, Goto, BeginSucceeds, TypeOK, JobOK, WriterTypeOK
  <2> QED
    BY <1>6, <2>1, <2>2, KeptTypes
       DEF EraseDone, BeginSucceeds, Goto, Reply, NoJob, TypeOK, PC, JobOK,
           Commands, Statuses, Infos
<1> QED  BY <1>1, <1>2, <1>3, <1>4, <1>5, <1>6 DEF FlashBegin

LEMMA DataTypes ==
    ASSUME TypeOK, FlashData
    PROVE  TypeOK'
<1>1. ASSUME NEW a, NEW n, DataRefused(a, n)  PROVE TypeOK'
  BY <1>1, RefuseTypes DEF DataRefused, Commands, Statuses
<1>2. ASSUME NEW a \in 0 .. (OFFSETS - 1), NEW n \in DataLengths,
             NEW data \in DataSent, DataStarts(a, n, data)
      PROVE TypeOK'
  <2>1. n \in 0 .. (OFFSETS - 1) /\ a \in Nat /\ a < OFFSETS
    BY FlashAssumption, FirmwareAssumption DEF DataLengths
  <2>2. data \in {"image", "junk"}
    BY DEF DataSent
  <2>3. /\ job' = [left |-> n, at |-> a, data |-> data] /\ pc' = "program"
        /\ Plus(a, n) <= totalSize /\ totalSize' = totalSize
    BY <1>2 DEF DataStarts, writerVars
  <2>4. JobOK' /\ job' \in [left : Nat, at : Nat,
                              data : {"none", "image", "junk", "stuck"}]
    BY <2>1, <2>2, <2>3, FlashAssumption DEF JobOK, Plus
  <2>5. /\ Ice40TypeOK' /\ LedTypeOK' /\ EntropyTypeOK' /\ WriterTypeOK'
        /\ pending' \in 0 .. MaxFrames /\ endless' = endless
    BY <1>2, KeptTypes, FirmwareAssumption DEF DataStarts, Dispatch, TypeOK
  <2> QED  BY <1>2, <2>3, <2>4, <2>5 DEF DataStarts, Silent, NoReply, TypeOK, PC, Infos
<1>3. CASE ProgramNext
  <2>1. WriterTypeOK'
    BY <1>3, ProgramPageTypes DEF ProgramNext, TypeOK, JobOK
  <2> QED
    <3>1. job' \in [left : Nat, at : Nat,
                    data : {"none", "image", "junk", "stuck"}]
      <4>1. /\ job.left \in Nat /\ job.at \in Nat /\ job.left > 0
            /\ job.data \in {"none", "image", "junk", "stuck"}
        BY <1>3 DEF ProgramNext, TypeOK
      <4>2. job.left - 1 \in Nat /\ Plus(job.at, 1) \in Nat
        BY <1>3, <4>1, FlashAssumption DEF ProgramNext, TypeOK, JobOK, Plus
      <4>3. job' = [left |-> job.left - 1, at |-> Plus(job.at, 1), data |-> job.data]
        BY <1>3 DEF ProgramNext, TypeOK
      <4> QED  BY <4>1, <4>2, <4>3
    <3>2. JobOK'
      BY <1>3, FlashAssumption DEF ProgramNext, TypeOK, JobOK, WriterTypeOK, Plus
    <3> QED
      BY <1>3, <2>1, <3>1, <3>2, KeptTypes
         DEF ProgramNext, Silent, NoReply, TypeOK, Infos
<1>4. CASE ProgramDone
  BY <1>4, KeptTypes
     DEF ProgramDone, Goto, Reply, NoJob, TypeOK, PC, JobOK, Commands, Statuses,
         Infos
<1> QED  BY <1>1, <1>2, <1>3, <1>4 DEF FlashData

LEMMA EndTypes ==
    ASSUME TypeOK, FlashEnd
    PROVE  TypeOK'
<1> USE DEF TypeOK, Silent, NoReply, Reply, Goto, PC, JobOK, Commands, Statuses,
            Infos
<1>1. CASE EndRefused
  BY <1>1, RefuseTypes DEF EndRefused
<1>2. CASE EndStarts
  <2>1. Ice40TypeOK' /\ WriterTypeOK'
    BY <1>2 DEF EndStarts, EndReleases, RebootRelease, Ice40TypeOK, WriterTypeOK
  <2> QED
    BY <1>2, <2>1, KeptTypes, FirmwareAssumption
       DEF EndStarts, EndReleases, Dispatch
<1>3. CASE EndSucceeds
  <2>1. LedTypeOK'
    BY <1>3, LedSetTypes DEF EndSucceeds, EndConfigured, LedState
  <2>2. Ice40TypeOK' /\ EntropyTypeOK'
    BY <1>3 DEF EndSucceeds, EndConfigured, ClockStart, AttachSpiMaster,
                SetPaused, Ice40TypeOK, EntropyTypeOK
  <2> QED
    BY <1>3, <2>1, <2>2, KeptTypes DEF EndSucceeds, EndConfigured
<1>4. CASE EndFails
  <2>1. LedTypeOK'
    BY <1>4, LedSetTypes DEF EndFails, EndTimesOut, LedState
  <2>2. Ice40TypeOK'
    BY <1>4 DEF EndFails, EndTimesOut, ClockStart, Ice40TypeOK
  <2> QED
    BY <1>4, <2>1, <2>2, KeptTypes DEF EndFails, EndTimesOut
<1> QED  BY <1>1, <1>2, <1>3, <1>4 DEF FlashEnd

LEMMA RamLostTypes ==
    ASSUME TypeOK, RamLost, flash' \in [Page -> Contents],
           overdue' \subseteq overdue
    PROVE  TypeOK'
<1>1. Ice40TypeOK' /\ LedTypeOK'
  BY DEF RamLost, Ice40TypeOK, LedTypeOK, LedState
<1>2. EntropyTypeOK'
  <2>1. initialised' \in BOOLEAN /\ paused' \in BOOLEAN
    BY DEF RamLost
  <2>2. /\ ring' \in Seq(Byte) /\ Len(ring') < RING_BYTES
        /\ pool' \in Seq(Byte) /\ Len(pool') < POOL_BYTES
        /\ health' \in {"warming", "ok", "fail"}
        /\ warm' \in 0 .. STARTUP_BYTES
        /\ stuckRun' \in 0 .. RCT_BYTES
        /\ source' = source
    BY EmptyType, EntropyAssumption DEF RamLost
  <2> QED  BY <2>1, <2>2 DEF TypeOK, EntropyTypeOK
<1>3. WriterTypeOK'
  <2>1. inProgress' \in BOOLEAN
    BY DEF RamLost
  <2>2. totalSize' \in 0 .. PAGES
    BY FlashAssumption DEF RamLost
  <2>3. overdue' \subseteq [Page -> Contents] /\ gaveUp' \in BOOLEAN
    BY DEF RamLost, TypeOK, WriterTypeOK
  <2> QED  BY <2>1, <2>2, <2>3 DEF WriterTypeOK
<1> QED
  BY <1>1, <1>2, <1>3, FirmwareAssumption
     DEF RamLost, Silent, NoReply, NoJob, TypeOK, JobOK, PC, Infos

LEMMA EnvironmentTypes ==
    ASSUME TypeOK, Environment
    PROVE  TypeOK'
<1>1. CASE Configures
  BY <1>1, KeptTypes
     DEF Configures, FpgaConfigures, TypeOK, Ice40TypeOK, JobOK, writerVars
<1>2. CASE TimePasses
  BY <1>2, KeptTypes
     DEF TimePasses, HoldExpires, TypeOK, LedTypeOK, JobOK, writerVars
<1>3. CASE SourceDies
  <2>1. PICK k \in 0 .. (CHUNK - 1) : TrngTaskSourceDies(k)
    BY <1>3 DEF SourceDies
  <2>2. EntropyTypeOK'
    BY <2>1, SourceDiesTypes DEF TypeOK
  <2> QED
    BY <1>3, <2>2, KeptTypes
       DEF SourceDies, Silent, NoReply, TypeOK, PC, JobOK, Infos, writerVars
<1>4. CASE PowerLoss
  <2>1. flash' \in [Page -> Contents]
    BY <1>4 DEF PowerLoss, SetPages, TypeOK, WriterTypeOK, Contents
  <2>2. overdue' \subseteq overdue
    BY <1>4 DEF PowerLoss
  <2> QED  BY <1>4, <2>1, <2>2, RamLostTypes DEF PowerLoss
<1>5. CASE LeaveBootsel
  BY <1>5, RamLostTypes DEF LeaveBootsel, TypeOK, WriterTypeOK
<1>6. CASE ChipReadyAtLast
  BY <1>6, KeptTypes, ChipFinishesTypes
     DEF ChipReadyAtLast, ChipFinishes, TypeOK, JobOK
<1> QED  BY <1>1, <1>2, <1>3, <1>4, <1>5, <1>6 DEF Environment

LEMMA NextTypes ==
    ASSUME TypeOK, [Next]_vars
    PROVE  TypeOK'
<1>1. CASE Thread
  BY <1>1, BootTypes, LoopTypes, CommandTypes, RandomTypes, BeginTypes,
     DataTypes, EndTypes DEF Thread, Command
<1>2. CASE Environment  BY <1>2, EnvironmentTypes
<1>3. CASE UNCHANGED vars
  BY <1>3, KeptTypes DEF vars, TypeOK, JobOK, writerVars
<1> QED  BY <1>1, <1>2, <1>3 DEF Next

(* Every variable keeps its range: ring and pool never overflow, however   *)
(* trng_task, rng_pipeline_task and GET_RANDOM take turns on them          *)
(* (trng.c:63, rng_pipeline.c:54).  A FLASH_DATA job keeps what            *)
(* flash_writer.c:68 checks, that the 32-bit sum of its offset and length  *)
(* is within the announced size; as the sum wraps, a job may begin far     *)
(* beyond that size.                                                       *)
THEOREM TypeCorrect == Spec => []TypeOK
BY InitTypes, NextTypes, PTL DEF Spec

--------------------------------------------------------------------------------
(***************************************************************************)
(* Host.  What the OK of FLASH_BEGIN, FLASH_END and GET_RANDOM means, that *)
(* a board whose sampling stays paused shows it, that the ERROR pattern    *)
(* sticks, and that the flash is changed from inside a session only.       *)
(***************************************************************************)

LoopPC == {"drain", "peel", "trng", "pipeline", "led", "bootsel"}

(* Nothing is in the ring before the first sampling. *)
RingInv == ~ initialised => Len(ring) = 0

(* A configured FPGA came from the image that is still in the flash, and   *)
(* no operation of the chip is under way to change it.                     *)
CdoneInv == cdone => Bootable /\ ChipReady

(* How far FLASH_BEGIN has got, while every wait has ended in time. *)
EraseInv ==
    /\ pc = "flash_init" => job.at = 0
    /\ pc = "erase" /\ ~ gaveUp =>
         ChipReady /\ \A p \in Page : p < job.at => flash[p] = "erased"

(* Outside of a session, and between commands, a pause is shown. *)
SignalInv ==
    pc \in LoopPC \cup {"random", "program"} /\ paused /\ ~ inProgress
        => led \in {"ERROR", "NO_FPGA"}

(* The ERROR pattern is shown only where no command may replace it. *)
ErrorInv == led = "ERROR" => paused /\ ~ inProgress /\ pc \in LoopPC

Answers == BeginOkMeansErased /\ EndOkMeansRunning /\ RandomOkMeansHealthy

HostInv == RingInv /\ CdoneInv /\ EraseInv /\ SignalInv /\ ErrorInv /\ Answers

Inv == TypeOK /\ BusInv /\ HostInv

LEMMA InitHostInv == Init => HostInv
<1> SUFFICES ASSUME Init PROVE HostInv
  OBVIOUS
<1>1. RingInv  BY EmptyType DEF Init, EntropyInit, RingInv
<1>2. CdoneInv  BY DEF Init, Ice40Init, CdoneInv
<1>3. EraseInv /\ SignalInv  BY DEF Init, EraseInv, SignalInv, LoopPC
<1>4. ErrorInv  BY DEF Init, LedInit, ErrorInv
<1>5. Answers
  BY DEF Init, NoReply, Answers, BeginOkMeansErased, EndOkMeansRunning,
         RandomOkMeansHealthy
<1> QED  BY <1>1, <1>2, <1>3, <1>4, <1>5 DEF HostInv

--------------------------------------------------------------------------------
(* The ring. *)

LEMMA PipelineKeepsEmpty ==
    ASSUME EntropyTypeOK, RngPipelineTask, Len(ring) = 0
    PROVE  Len(ring') = 0
<1>1. Moved \in 0 .. Len(ring)
  BY MovedType
<1> QED  BY <1>1, TakenTypes DEF EntropyTypeOK, RngPipelineTask

LEMMA TakeRawNeedsRing ==
    ASSUME EntropyTypeOK, RingInv, TakeRaw
    PROVE  initialised
BY EntropyAssumption DEF EntropyTypeOK, RingInv, TakeRaw, RawReady

LEMMA RingStep ==
    ASSUME Inv, [Next]_vars
    PROVE  RingInv'
<1> SUFFICES ASSUME ~ initialised' PROVE Len(ring') = 0
  BY DEF RingInv
<1>1. CASE RamLost
  BY <1>1, EmptyType DEF RamLost
<1>2. CASE BootConfigured
  BY <1>2, EmptyType DEF BootConfigured, RngPipelineInit
<1>3. CASE TrngTask /\ UNCHANGED initialised
  BY <1>3 DEF Inv, HostInv, RingInv, TrngTask, TrngReady
<1>4. CASE TakeRaw /\ UNCHANGED initialised
  BY <1>4, TakeRawNeedsRing DEF Inv, TypeOK, HostInv
<1>5. CASE RngPipelineTask
  BY <1>5, PipelineKeepsEmpty DEF Inv, TypeOK, HostInv, RingInv, RngPipelineTask
<1>6. CASE SourceDies
  BY <1>6 DEF SourceDies, TrngTaskSourceDies, TrngReady
<1>7. CASE UNCHANGED <<ring, initialised>>
  BY <1>7 DEF Inv, HostInv, RingInv
<1>8. \/ RamLost
      \/ BootConfigured
      \/ (TrngTask /\ UNCHANGED initialised)
      \/ (TakeRaw /\ UNCHANGED initialised)
      \/ RngPipelineTask
      \/ SourceDies
      \/ UNCHANGED <<ring, initialised>>
  <2>1. CASE Thread
    <3>1. CASE GetRandom
      BY <3>1 DEF GetRandom, RandomRefused, Refuse, RandomStarts, RandomWaits,
                  RandomTimesOut, RandomUnhealthy, RandomBlock, RandomLastBlock,
                  TrngTask, TakeRaw, entropyVars
    <3>2. CASE FlashBegin
      BY <3>2 DEF FlashBegin, BeginRefused, Refuse, BeginStarts, BeginClaims,
                  SetPaused, FlashNotFound, BeginFails, FlashFound, EraseNext,
                  EraseDone, BeginSucceeds, entropyVars
    <3>3. CASE FlashData \/ FlashEnd
      BY <3>3 DEF FlashData, DataRefused, Refuse, DataStarts, ProgramNext,
                  ProgramDone, FlashEnd, EndRefused, EndStarts, EndReleases,
                  EndSucceeds, EndConfigured, SetPaused, EndFails, EndTimesOut,
                  entropyVars
    <3>4. CASE \/ Status \/ OtherCommand \/ BadLength \/ RebootBootloader
               \/ \E cmd \in Commands : OversizedFrame(cmd) \/ HeaderWraps(cmd)
      BY <3>4 DEF Status, OtherCommand, BadLength, Refuse, RebootBootloader,
                  OversizedFrame, HeaderWraps, entropyVars
    <3>5. CASE \/ Boot \/ BootConfigured \/ BootTimesOut \/ Drain \/ PeelDone
               \/ Trng \/ Pipeline \/ Led
      <4>1. CASE Boot \/ BootConfigured \/ BootTimesOut
        BY <4>1 DEF Boot, BootTimesOut, entropyVars
      <4>2. CASE Drain \/ PeelDone \/ Led
        BY <4>2 DEF Drain, PeelDone, Led, entropyVars
      <4>3. CASE Trng
        BY <4>3 DEF Trng, TrngTask
      <4>4. CASE Pipeline
        BY <4>4 DEF Pipeline
      <4> QED  BY <3>5, <4>1, <4>2, <4>3, <4>4
    <3> QED  BY <2>1, <3>1, <3>2, <3>3, <3>4, <3>5 DEF Thread, Command
  <2>2. CASE Environment
    <3>1. CASE Configures \/ TimePasses \/ ChipReadyAtLast
      BY <3>1 DEF Configures, TimePasses, ChipReadyAtLast, entropyVars
    <3>2. CASE PowerLoss
      BY <3>2 DEF PowerLoss
    <3>3. CASE LeaveBootsel
      BY <3>3 DEF LeaveBootsel
    <3> QED  BY <2>2, <3>1, <3>2, <3>3 DEF Environment
  <2>3. CASE UNCHANGED vars
    BY <2>3 DEF vars, entropyVars
  <2> QED  BY <2>1, <2>2, <2>3 DEF Next
<1> QED  BY <1>1, <1>2, <1>3, <1>4, <1>5, <1>6, <1>7, <1>8

--------------------------------------------------------------------------------
(* The flash and CDONE. *)

LEMMA FlashSteps ==
    ASSUME [Next]_vars
    PROVE  \/ FlashFound \/ EraseNext \/ ProgramNext \/ ChipReadyAtLast
           \/ PowerLoss
           \/ UNCHANGED <<flash, overdue>>
<1>1. CASE Thread
  <2>random. CASE GetRandom
    BY <2>random DEF GetRandom, RandomRefused, Refuse, RandomStarts, RandomWaits,
                RandomTimesOut, RandomUnhealthy, RandomBlock, RandomLastBlock,
                RandomEnds, writerVars
  <2>begin. CASE FlashBegin
    BY <2>begin DEF FlashBegin, BeginRefused, Refuse, BeginStarts, BeginClaims,
                FlashNotFound, BeginFails, EraseDone, BeginSucceeds, writerVars
  <2>session. CASE FlashData \/ FlashEnd
    BY <2>session DEF FlashData, DataRefused, Refuse, DataStarts, ProgramDone,
                FlashEnd, EndRefused, EndStarts, EndReleases, EndSucceeds,
                EndConfigured, EndFails, EndTimesOut, writerVars
  <2>short. CASE \/ Status \/ OtherCommand \/ BadLength \/ RebootBootloader
             \/ \E cmd \in Commands : OversizedFrame(cmd) \/ HeaderWraps(cmd)
    BY <2>short DEF Status, OtherCommand, BadLength, Refuse, RebootBootloader,
                OversizedFrame, HeaderWraps, writerVars
  <2>loop. CASE \/ Boot \/ BootConfigured \/ BootTimesOut \/ Drain \/ PeelDone
             \/ Trng \/ Pipeline \/ Led
    BY <2>loop DEF Boot, BootConfigured, BootTimesOut, Drain, PeelDone, Trng,
                Pipeline, Led, writerVars
  <2> QED  BY <1>1, <2>random, <2>begin, <2>session, <2>short, <2>loop DEF Thread, Command
<1>2. CASE Environment
  BY <1>2 DEF Environment, Configures, TimePasses, SourceDies, LeaveBootsel,
              writerVars
<1>3. CASE UNCHANGED vars
  BY <1>3 DEF vars, writerVars
<1> QED  BY <1>1, <1>2, <1>3 DEF Next

LEMMA CdoneSteps ==
    ASSUME [Next]_vars
    PROVE  cdone' = FALSE \/ UNCHANGED cdone \/ Configures
<1>1. CASE Thread
  <2>random. CASE GetRandom
    BY <2>random DEF GetRandom, RandomRefused, Refuse, RandomStarts, RandomWaits,
                RandomTimesOut, RandomUnhealthy, RandomBlock, RandomLastBlock,
                RandomEnds, fpgaVars
  <2>begin. CASE FlashBegin
    BY <2>begin DEF FlashBegin, BeginRefused, Refuse, BeginStarts, BeginClaims,
                ClaimSpi, FlashNotFound, BeginFails, FlashFound, EraseNext,
                EraseDone, BeginSucceeds, fpgaVars
  <2>session. CASE FlashData \/ FlashEnd
    BY <2>session DEF FlashData, DataRefused, Refuse, DataStarts, ProgramNext,
                ProgramDone, FlashEnd, EndRefused, EndStarts, EndReleases,
                RebootRelease, EndSucceeds, EndConfigured, AttachSpiMaster,
                EndFails, EndTimesOut, fpgaVars
  <2>short. CASE \/ Status \/ OtherCommand \/ BadLength \/ RebootBootloader
             \/ \E cmd \in Commands : OversizedFrame(cmd) \/ HeaderWraps(cmd)
    BY <2>short DEF Status, OtherCommand, BadLength, Refuse, RebootBootloader,
                OversizedFrame, HeaderWraps, fpgaVars
  <2>loop. CASE \/ Boot \/ BootConfigured \/ BootTimesOut \/ Drain \/ PeelDone
             \/ Trng \/ Pipeline \/ Led
    BY <2>loop DEF Boot, BootRelease, BootConfigured, AttachSpiMaster,
                BootTimesOut, Drain, PeelDone, Trng, Pipeline, Led, fpgaVars
  <2> QED  BY <1>1, <2>random, <2>begin, <2>session, <2>short, <2>loop DEF Thread, Command
<1>2. CASE Environment
  BY <1>2 DEF Environment, TimePasses, ChipReadyAtLast, SourceDies, PowerLoss,
              LeaveBootsel, RamLost, fpgaVars
<1>3. CASE UNCHANGED vars
  BY <1>3 DEF vars, fpgaVars
<1> QED  BY <1>1, <1>2, <1>3 DEF Next

(* What is begun on the flash is begun while it is the RP2040's alone; the *)
(* rest is an operation that ends late.                                    *)
LEMMA ChangeNeedsOwner ==
    ASSUME Inv, [Next]_vars
    PROVE  /\ flash' # flash => (OwnsFlash /\ ~ cdone) \/ flash' \in overdue
           /\ ~ (overdue' \subseteq overdue) => OwnsFlash /\ ~ cdone
<1>1. CASE FlashFound \/ EraseNext \/ ProgramNext
  BY <1>1 DEF Inv, BusInv, ProgrammingIsSafe, Programming, FlashFound, Goto,
              EraseNext, ProgramNext
<1>2. CASE ChipReadyAtLast
  BY <1>2 DEF ChipReadyAtLast, ChipFinishes
<1>3. CASE PowerLoss
  <2>1. CASE pc \in {"erase", "program"}
    BY <2>1 DEF Inv, BusInv, ProgrammingIsSafe, Programming
  <2>2. CASE pc \notin {"erase", "program"}
    <3>1. InFlight = {}
      BY <2>2 DEF InFlight
    <3>2. flash = [p \in Page |-> flash[p]]
      BY DEF Inv, TypeOK, WriterTypeOK
    <3> QED  BY <1>3, <3>1, <3>2 DEF PowerLoss, SetPages
  <2> QED  BY <2>1, <2>2
<1> QED  BY <1>1, <1>2, <1>3, FlashSteps

LEMMA CdoneStep ==
    ASSUME Inv, [Next]_vars
    PROVE  CdoneInv'
<1>1. CASE cdone' = FALSE
  BY <1>1 DEF CdoneInv
<1>2. CASE UNCHANGED cdone /\ cdone
  <2>1. Bootable /\ overdue = {}
    BY <1>2 DEF Inv, HostInv, CdoneInv, ChipReady
  <2>2. flash' = flash /\ overdue' = {}
    BY <1>2, <2>1, ChangeNeedsOwner
  <2> QED  BY <2>1, <2>2 DEF CdoneInv, Bootable, ChipReady
<1>3. CASE Configures
  BY <1>3 DEF Configures, FpgaConfigures, writerVars, CdoneInv, Bootable, ChipReady
<1>4. cdone \in BOOLEAN
  BY DEF Inv, TypeOK, Ice40TypeOK
<1> QED  BY <1>1, <1>2, <1>3, <1>4, CdoneSteps

--------------------------------------------------------------------------------
(* How far the erasing has got. *)

LEMMA BeginPhases ==
    ASSUME [Next]_vars
    PROVE  \/ pc' \notin {"flash_init", "erase"}
           \/ \E total \in 0 .. (PAGES + 1) : BeginStarts(total)
           \/ FlashFound
           \/ EraseNext
           \/ ChipReadyAtLast
           \/ UNCHANGED <<pc, job, flash, overdue, gaveUp>>
<1>1. CASE Thread
  <2>random. CASE GetRandom
    BY <2>random DEF GetRandom, RandomRefused, Refuse, Dispatch, RandomStarts,
                RandomWaits, RandomTimesOut, RandomUnhealthy, RandomBlock,
                RandomLastBlock, RandomEnds, Goto
  <2>begin. CASE FlashBegin
    BY <2>begin DEF FlashBegin, BeginRefused, Refuse, Dispatch, FlashNotFound,
                EraseDone, Goto
  <2>session. CASE FlashData \/ FlashEnd
    BY <2>session DEF FlashData, DataRefused, Refuse, Dispatch, DataStarts,
                ProgramNext, ProgramDone, FlashEnd, EndRefused, EndStarts,
                EndSucceeds, EndFails, Goto
  <2>short. CASE \/ Status \/ OtherCommand \/ BadLength \/ RebootBootloader
             \/ \E cmd \in Commands : OversizedFrame(cmd) \/ HeaderWraps(cmd)
    BY <2>short DEF Status, OtherCommand, BadLength, Refuse, Dispatch,
                RebootBootloader, OversizedFrame, HeaderWraps, Goto
  <2>loop. CASE \/ Boot \/ BootConfigured \/ BootTimesOut \/ Drain \/ PeelDone
             \/ Trng \/ Pipeline \/ Led
    BY <2>loop DEF Boot, BootConfigured, BootTimesOut, Drain, PeelDone, Trng,
                Pipeline, Led, Goto
  <2> QED  BY <1>1, <2>random, <2>begin, <2>session, <2>short, <2>loop DEF Thread, Command
<1>2. CASE Environment
  <2>1. CASE Configures \/ TimePasses
    BY <2>1 DEF Configures, TimePasses, writerVars
  <2>2. CASE SourceDies
    BY <2>2 DEF SourceDies
  <2>3. CASE PowerLoss \/ LeaveBootsel
    BY <2>3 DEF PowerLoss, LeaveBootsel, RamLost
  <2> QED  BY <1>2, <2>1, <2>2, <2>3 DEF Environment
<1>3. CASE UNCHANGED vars
  BY <1>3 DEF vars, writerVars
<1> QED  BY <1>1, <1>2, <1>3 DEF Next

LEMMA EraseStep ==
    ASSUME Inv, [Next]_vars
    PROVE  EraseInv'
<1>1. CASE pc' \notin {"flash_init", "erase"}
  BY <1>1 DEF EraseInv
<1>2. ASSUME NEW total \in 0 .. (PAGES + 1), BeginStarts(total)  PROVE EraseInv'
  BY <1>2 DEF BeginStarts, NoJob, EraseInv
<1>3. CASE FlashFound
  <2>1. pc' = "erase" /\ job' = job /\ job.at = 0
    BY <1>3 DEF FlashFound, Goto, Inv, HostInv, EraseInv
  <2>2. ~ gaveUp' => ChipReady'
    BY <1>3 DEF FlashFound, Unprotect, Operate, ChipReady
  <2> QED  BY <2>1, <2>2 DEF EraseInv, Page
<1>4. CASE EraseNext
  <2>1. pc = "erase" /\ pc' = pc /\ job.at \in Nat /\ job'.at = job.at + SECTOR_PAGES
    BY <1>4, FlashAssumption DEF EraseNext, Inv, TypeOK
  <2>2. ASSUME ~ gaveUp'
        PROVE  /\ ~ gaveUp /\ ChipReady'
               /\ flash' = [p \in Page |-> IF p \in Sector(job.at) THEN "erased"
                                          ELSE flash[p]]
    BY <1>4, <2>2 DEF EraseNext, EraseSector, Operate, ChipReady
  <2>3. ASSUME ~ gaveUp', NEW p \in Page, p < job'.at
        PROVE  flash'[p] = "erased"
    <3>1. CASE p < job.at
      BY <2>1, <2>2, <2>3, <3>1 DEF Inv, HostInv, EraseInv
    <3>2. CASE ~ (p < job.at)
      BY <2>1, <2>2, <2>3, <3>2, FlashAssumption DEF Sector, Page
    <3> QED  BY <3>1, <3>2
  <2> QED  BY <2>1, <2>2, <2>3 DEF EraseInv
<1>5. CASE ChipReadyAtLast
  <2>1. UNCHANGED <<pc, job, gaveUp>> /\ ~ ChipReady
    BY <1>5 DEF ChipReadyAtLast, ChipFinishes, ChipReady
  <2> QED  BY <2>1 DEF Inv, HostInv, EraseInv
<1>6. CASE UNCHANGED <<pc, job, flash, overdue, gaveUp>>
  BY <1>6 DEF Inv, HostInv, EraseInv, ChipReady
<1> QED  BY <1>1, <1>2, <1>3, <1>4, <1>5, <1>6, BeginPhases

--------------------------------------------------------------------------------
(* The LEDs. *)

(* A step that sets neither LED nor flags, and stays in the loop. *)
LEMMA LedsKept ==
    ASSUME Inv, UNCHANGED <<led, paused, inProgress>>,
           pc \in LoopPC \cup {"program", "random"} \/ pc' = pc,
           pc' \in LoopPC \/ pc' = pc
           \/ (pc' \in {"program", "end_poll"} /\ inProgress)
    PROVE  SignalInv' /\ ErrorInv'
BY DEF Inv, HostInv, SignalInv, ErrorInv, LoopPC

LEMMA RefuseLeds ==
    ASSUME Inv, NEW cmd, NEW status, Refuse(cmd, status)
    PROVE  SignalInv' /\ ErrorInv'
BY LedsKept DEF Refuse, ledVars, entropyVars, writerVars

LEMMA BootLeds ==
    ASSUME Inv, Boot \/ BootConfigured \/ BootTimesOut
    PROVE  SignalInv' /\ ErrorInv'
<1> USE DEF Inv, HostInv, SignalInv, ErrorInv, LoopPC, Goto, LedSet, Swallowed
<1>1. CASE Boot            BY <1>1 DEF Boot, ledVars
<1>2. CASE BootConfigured  BY <1>2 DEF BootConfigured, RngPipelineInit
<1>3. CASE BootTimesOut    BY <1>3 DEF BootTimesOut
<1> QED  BY <1>1, <1>2, <1>3

LEMMA RandomLeds ==
    ASSUME Inv, GetRandom
    PROVE  SignalInv' /\ ErrorInv'
<1> USE DEF Inv, BusInv, PhaseInv, SignalInv, ErrorInv
<1>1. ASSUME NEW n, RandomRefused(n)  PROVE SignalInv' /\ ErrorInv'
  BY <1>1, RefuseLeds DEF RandomRefused
<1>2. ASSUME NEW n, RandomStarts(n)  PROVE SignalInv' /\ ErrorInv'
  BY <1>2 DEF RandomStarts, LedSet, Swallowed, entropyVars, writerVars
<1>3. ASSUME NEW status, NEW info, RandomEnds(status, info), UNCHANGED paused
      PROVE SignalInv' /\ ErrorInv'
  BY <1>3 DEF RandomEnds, Goto, LedSet, Swallowed, writerVars, HostInv
<1>4. CASE RandomWaits
  BY <1>4, LedsKept DEF RandomWaits, TrngTask, ledVars, writerVars
<1>5. CASE RandomBlock
  BY <1>5, LedsKept DEF RandomBlock, TakeRaw, ledVars, writerVars
<1>6. CASE RandomTimesOut \/ RandomUnhealthy \/ RandomLastBlock
  BY <1>6, <1>3
     DEF RandomTimesOut, RandomUnhealthy, RandomLastBlock, TakeRaw, entropyVars
<1> QED  BY <1>1, <1>2, <1>4, <1>5, <1>6 DEF GetRandom

LEMMA BeginLeds ==
    ASSUME Inv, FlashBegin
    PROVE  SignalInv' /\ ErrorInv'
<1> USE DEF SignalInv, ErrorInv, LoopPC, LedSet, Swallowed, Goto
<1>1. ASSUME NEW total, BeginRefused(total)  PROVE SignalInv' /\ ErrorInv'
  BY <1>1, RefuseLeds DEF BeginRefused
<1>2. ASSUME NEW total, BeginStarts(total)  PROVE SignalInv' /\ ErrorInv'
  BY <1>2 DEF BeginStarts, BeginClaims
<1>3. CASE FlashNotFound
  <2>1. paused
    BY <1>3 DEF FlashNotFound, Inv, BusInv, ProgrammingIsSafe, Programming
  <2> QED  BY <1>3, <2>1 DEF FlashNotFound, BeginFails, entropyVars
<1>4. CASE FlashFound
  BY <1>4 DEF FlashFound, ledVars, Inv, HostInv
<1>5. CASE EraseNext
  BY <1>5, LedsKept DEF EraseNext, ledVars, entropyVars
<1>6. CASE EraseDone
  BY <1>6 DEF EraseDone, BeginSucceeds
<1> QED  BY <1>1, <1>2, <1>3, <1>4, <1>5, <1>6 DEF FlashBegin

LEMMA DataLeds ==
    ASSUME Inv, FlashData
    PROVE  SignalInv' /\ ErrorInv'
<1>1. ASSUME NEW a, NEW n, DataRefused(a, n)  PROVE SignalInv' /\ ErrorInv'
  BY <1>1, RefuseLeds DEF DataRefused
<1>2. ASSUME NEW a, NEW n, NEW data, DataStarts(a, n, data)
      PROVE SignalInv' /\ ErrorInv'
  BY <1>2, LedsKept
     DEF DataStarts, Dispatch, LoopPC, ledVars, entropyVars, writerVars
<1>3. CASE ProgramNext
  BY <1>3, LedsKept DEF ProgramNext, ledVars, entropyVars
<1>4. CASE ProgramDone
  BY <1>4, LedsKept
     DEF ProgramDone, Goto, LoopPC, ledVars, entropyVars, writerVars
<1> QED  BY <1>1, <1>2, <1>3, <1>4 DEF FlashData

LEMMA EndLeds ==
    ASSUME Inv, FlashEnd
    PROVE  SignalInv' /\ ErrorInv'
<1>1. CASE EndRefused
  BY <1>1, RefuseLeds DEF EndRefused
<1>2. CASE EndStarts
  BY <1>2 DEF EndStarts, Dispatch, EndReleases, ledVars, entropyVars, Inv,
              HostInv, SignalInv, ErrorInv, LoopPC
<1>3. CASE EndSucceeds
  BY <1>3 DEF EndSucceeds, EndConfigured, Goto, SetPaused, LedSet, Swallowed,
              SignalInv, ErrorInv, Inv, HostInv, LoopPC
<1>4. CASE EndFails
  BY <1>4 DEF EndFails, EndTimesOut, LedSet, Swallowed, SignalInv, ErrorInv
<1> QED  BY <1>1, <1>2, <1>3, <1>4 DEF FlashEnd

LEMMA OtherLeds ==
    ASSUME Inv,
           \/ Status \/ OtherCommand \/ BadLength \/ RebootBootloader
           \/ \E cmd \in Commands : OversizedFrame(cmd) \/ HeaderWraps(cmd)
    PROVE  SignalInv' /\ ErrorInv'
<1>1. CASE Status \/ OtherCommand \/ BadLength
  BY <1>1, RefuseLeds DEF Status, OtherCommand, BadLength
<1>2. CASE RebootBootloader
  BY <1>2, LedsKept
     DEF RebootBootloader, Dispatch, LoopPC, ledVars, entropyVars, writerVars
<1>3. ASSUME NEW cmd, OversizedFrame(cmd) \/ HeaderWraps(cmd)  PROVE SignalInv' /\ ErrorInv'
  BY <1>3, LedsKept
     DEF OversizedFrame, HeaderWraps, Goto, LoopPC, ledVars, entropyVars, writerVars
<1> QED  BY <1>1, <1>2, <1>3

LEMMA LoopLeds ==
    ASSUME Inv, Drain \/ PeelDone \/ Trng \/ Pipeline \/ Led
    PROVE  SignalInv' /\ ErrorInv'
<1> USE DEF Goto, LoopPC
<1>1. CASE Drain
  BY <1>1, LedsKept DEF Drain, ledVars, entropyVars, writerVars
<1>2. CASE PeelDone
  BY <1>2, LedsKept DEF PeelDone, ledVars, entropyVars, writerVars
<1>3. CASE Trng
  BY <1>3, LedsKept DEF Trng, TrngTask, ledVars, writerVars
<1>4. CASE Pipeline
  BY <1>4, LedsKept DEF Pipeline, RngPipelineTask, ledVars, writerVars
<1>5. CASE Led
  BY <1>5 DEF Led, LedTask, entropyVars, writerVars, Inv, HostInv, SignalInv,
              ErrorInv
<1> QED  BY <1>1, <1>2, <1>3, <1>4, <1>5

LEMMA EnvironmentLeds ==
    ASSUME Inv, Environment
    PROVE  SignalInv' /\ ErrorInv'
<1>1. CASE Configures
  BY <1>1, LedsKept DEF Configures, ledVars, entropyVars, writerVars
<1>2. CASE TimePasses \/ ChipReadyAtLast
  BY <1>2, LedsKept DEF TimePasses, HoldExpires, ChipReadyAtLast, ChipFinishes, ledVars,
                       entropyVars, writerVars
<1>3. CASE SourceDies
  BY <1>3, LedsKept
     DEF SourceDies, TrngTaskSourceDies, LoopPC, ledVars, writerVars
<1>4. CASE PowerLoss \/ LeaveBootsel
  BY <1>4 DEF PowerLoss, LeaveBootsel, RamLost, SignalInv, ErrorInv, LoopPC
<1> QED  BY <1>1, <1>2, <1>3, <1>4 DEF Environment

LEMMA LedStep ==
    ASSUME Inv, [Next]_vars
    PROVE  SignalInv' /\ ErrorInv'
<1>1. CASE Thread
  BY <1>1, BootLeds, LoopLeds, OtherLeds, RandomLeds, BeginLeds, DataLeds,
     EndLeds DEF Thread, Command
<1>2. CASE Environment  BY <1>2, EnvironmentLeds
<1>3. CASE UNCHANGED vars
  BY <1>3, LedsKept DEF vars, ledVars, entropyVars, writerVars
<1> QED  BY <1>1, <1>2, <1>3 DEF Next

--------------------------------------------------------------------------------
(* The answers. *)

(* An answer that promises nothing. *)
Promises == \/ resp.status = "OK" /\ resp.cmd \in {"GET_RANDOM", "FLASH_BEGIN"}
            \/ resp.cmd = "FLASH_END" /\ resp.info = "cdone"

LEMMA NoPromise == ~ Promises' => Answers'
BY DEF Promises, Answers, BeginOkMeansErased, EndOkMeansRunning,
       RandomOkMeansHealthy

(* Only three steps promise something, and only the FPGA and the LEDs'     *)
(* timer move while a promise stands.                                      *)
LEMMA PromiseSteps ==
    ASSUME [Next]_vars
    PROVE  \/ ~ Promises'
           \/ RandomLastBlock \/ EraseDone \/ EndSucceeds
           \/ Configures \/ TimePasses \/ ChipReadyAtLast \/ UNCHANGED vars
<1> USE DEF Promises, Reply, Silent, NoReply, Refuse
<1>1. CASE Thread
  <2>random. CASE GetRandom
    BY <2>random DEF GetRandom, RandomRefused, RandomStarts, RandomWaits,
                RandomTimesOut, RandomUnhealthy, RandomBlock, RandomEnds
  <2>begin. CASE FlashBegin
    BY <2>begin DEF FlashBegin, BeginRefused, BeginStarts, FlashNotFound,
                FlashFound, EraseNext
  <2>session. CASE FlashData \/ FlashEnd
    BY <2>session DEF FlashData, DataRefused, DataStarts, ProgramNext, ProgramDone,
                FlashEnd, EndRefused, EndStarts, EndFails
  <2>short. CASE \/ Status \/ OtherCommand \/ BadLength \/ RebootBootloader
             \/ \E cmd \in Commands : OversizedFrame(cmd) \/ HeaderWraps(cmd)
    BY <2>short DEF Status, OtherCommand, BadLength, RebootBootloader, OversizedFrame, HeaderWraps
  <2>loop. CASE \/ Boot \/ BootConfigured \/ BootTimesOut \/ Drain \/ PeelDone
             \/ Trng \/ Pipeline \/ Led
    BY <2>loop DEF Boot, BootConfigured, BootTimesOut, Drain, PeelDone, Trng,
                Pipeline, Led
  <2> QED  BY <1>1, <2>random, <2>begin, <2>session, <2>short, <2>loop DEF Thread, Command
<1>2. CASE Environment
  BY <1>2 DEF Environment, SourceDies, PowerLoss, LeaveBootsel, RamLost
<1> QED  BY <1>1, <1>2 DEF Next

(* GET_RANDOM reads a block only from a ring that was sampled into, so the *)
(* FPGA was configured and attached, and no session has begun since.       *)
LEMMA RandomAnswers ==
    ASSUME Inv, RandomLastBlock
    PROVE  Answers'
<1>1. initialised /\ ~ paused /\ ~ inProgress /\ health = "ok" /\ Attached
  <2>1. pc = "random" /\ health = "ok" /\ TakeRaw
    BY DEF RandomLastBlock
  <2>2. initialised
    BY <2>1, TakeRawNeedsRing DEF Inv, TypeOK, HostInv
  <2> QED  BY <2>1, <2>2 DEF Inv, BusInv, PhaseInv
<1>2. /\ resp' = [cmd |-> "GET_RANDOM", status |-> "OK",
                  info |-> TaintWith(RawBlock)]
      /\ UNCHANGED <<fpgaVars, writerVars, initialised, paused, health>>
  BY DEF RandomLastBlock, RandomEnds, Reply, TakeRaw
<1> QED
  BY <1>1, <1>2
     DEF Answers, BeginOkMeansErased, EndOkMeansRunning, RandomOkMeansHealthy,
         Attached, fpgaVars, writerVars

LEMMA BeginAnswers ==
    ASSUME Inv, EraseDone
    PROVE  Answers'
<1>1. /\ pc = "erase" /\ job.at >= job.left /\ totalSize' = job.left
      /\ flash' = flash /\ overdue' = overdue /\ gaveUp' = gaveUp
      /\ resp'.cmd = "FLASH_BEGIN"
  BY DEF EraseDone, Goto, BeginSucceeds, Reply
<1>2. job.left \in 1 .. PAGES /\ job.at \in Nat /\ PAGES \in Nat
  BY <1>1, FlashAssumption DEF Inv, TypeOK, JobOK
<1>3. ASSUME ~ gaveUp', NEW p \in 0 .. (totalSize' - 1)  PROVE flash'[p] = "erased"
  <2>1. p \in Page /\ p < job.at
    BY <1>1, <1>2 DEF Page
  <2> QED  BY <1>1, <1>3, <2>1 DEF Inv, HostInv, EraseInv
<1>4. ~ gaveUp' => ChipReady'
  BY <1>1 DEF Inv, HostInv, EraseInv, ChipReady
<1> QED
  BY <1>1, <1>3, <1>4
     DEF Answers, BeginOkMeansErased, EndOkMeansRunning, RandomOkMeansHealthy

LEMMA EndAnswers ==
    ASSUME Inv, EndSucceeds
    PROVE  Answers'
<1>1. creset = "high" /\ ~ inProgress /\ cdone /\ Bootable /\ ChipReady
  BY DEF EndSucceeds, Goto, Inv, BusInv, PhaseInv, HostInv, CdoneInv
<1>2. /\ resp'.cmd = "FLASH_END"
      /\ clock' = TRUE /\ spi' = "pio" /\ cs' = "high"
      /\ creset' = creset /\ cdone' = cdone
      /\ paused' = FALSE /\ inProgress' = inProgress
      /\ flash' = flash /\ overdue' = overdue
  BY DEF EndSucceeds, EndConfigured, ClockStart, AttachSpiMaster, SetPaused,
         writerVars, Reply
<1> QED
  BY <1>1, <1>2
     DEF Answers, BeginOkMeansErased, EndOkMeansRunning, RandomOkMeansHealthy,
         Attached, Bootable, ChipReady

(* An answer that stands is not made wrong by the environment. *)
LEMMA StandingAnswers ==
    ASSUME Inv, Configures \/ TimePasses \/ ChipReadyAtLast \/ UNCHANGED vars
    PROVE  Answers'
<1> USE DEF Inv, HostInv, Answers, BeginOkMeansErased, EndOkMeansRunning,
            RandomOkMeansHealthy, Attached, Bootable, ChipReady
<1>1. CASE Configures
  BY <1>1 DEF Configures, FpgaConfigures, entropyVars, writerVars
<1>2. CASE TimePasses
  BY <1>2 DEF TimePasses, fpgaVars, entropyVars, writerVars
<1>3. CASE UNCHANGED vars
  BY <1>3 DEF vars, fpgaVars, entropyVars, writerVars
<1>4. CASE ChipReadyAtLast
  BY <1>4 DEF ChipReadyAtLast, ChipFinishes, fpgaVars, entropyVars
<1> QED  BY <1>1, <1>2, <1>3, <1>4

LEMMA AnswerStep ==
    ASSUME Inv, [Next]_vars
    PROVE  Answers'
BY PromiseSteps, NoPromise, RandomAnswers, BeginAnswers, EndAnswers,
   StandingAnswers

(* Of the steps that may be taken while ERROR is shown only FLASH_BEGIN and *)
(* a restart replace it.                                                   *)
LEMMA ErrorLeaves ==
    ASSUME Inv, Next, led = "ERROR"
    PROVE  led' \in {"ERROR", "PROGRAM"} \/ pc' = "boot"
<1> USE DEF LoopPC, Goto
<1>1. paused /\ ~ inProgress /\ pc \in LoopPC
  BY DEF Inv, HostInv, ErrorInv
<1>2. CASE FlashBegin
  BY <1>1, <1>2 DEF FlashBegin, BeginRefused, Refuse, BeginStarts, BeginClaims,
     LedSet, Swallowed, FlashNotFound, FlashFound, EraseNext, EraseDone, ledVars
<1>3. CASE GetRandom
  BY <1>1, <1>3 DEF GetRandom, RandomRefused, Refuse, RandomStarts, RandomWaits,
     RandomTimesOut, RandomUnhealthy, RandomBlock, RandomLastBlock, RandomEnds,
     ledVars
<1>4. CASE FlashData \/ FlashEnd
  BY <1>1, <1>4 DEF FlashData, DataRefused, Refuse, DataStarts, ProgramNext,
     ProgramDone, FlashEnd, EndRefused, EndStarts, EndSucceeds, EndFails, ledVars
<1>5. CASE \/ Status \/ OtherCommand \/ BadLength \/ RebootBootloader
           \/ \E cmd \in Commands : OversizedFrame(cmd) \/ HeaderWraps(cmd)
  BY <1>5 DEF Status, OtherCommand, BadLength, RebootBootloader, OversizedFrame, HeaderWraps,
     Refuse, Dispatch, ledVars
<1>6. CASE \/ Boot \/ BootConfigured \/ BootTimesOut \/ Drain \/ PeelDone
           \/ Trng \/ Pipeline \/ Led
  BY <1>1, <1>6 DEF Boot, BootConfigured, BootTimesOut, Drain, PeelDone, Trng,
     Pipeline, Led, LedTask, ledVars
<1>7. CASE Environment
  BY <1>7 DEF Environment, Configures, TimePasses, HoldExpires, ChipReadyAtLast,
     SourceDies, PowerLoss, LeaveBootsel, RamLost, ledVars
<1> QED
  BY <1>2, <1>3, <1>4, <1>5, <1>6, <1>7 DEF Next, Thread, Command

(* The tests start anew only while nothing has been tested yet: whatever   *)
(* the sessions and the commands do, the verdict is the tests' own.        *)
VerdictInv == pc \in {"boot", "boot_poll"} => health = "warming"

LEMMA VerdictStep ==
    ASSUME VerdictInv, Next
    PROVE  /\ VerdictInv'
           /\ health = "fail" => health' = "fail" \/ pc' = "boot"
<1> USE DEF VerdictInv, Goto
<1>1. CASE BootConfigured  BY <1>1 DEF BootConfigured, RngPipelineInit
<1>2. CASE Pipeline  BY <1>2 DEF Pipeline, RngPipelineTask, Feed
<1>3. CASE PowerLoss \/ LeaveBootsel  BY <1>3 DEF PowerLoss, LeaveBootsel, RamLost
<1>4. CASE Boot  BY <1>4 DEF Boot, entropyVars
<1>5. ASSUME UNCHANGED health, pc' \notin {"boot", "boot_poll"} \/ pc' = pc
      PROVE  /\ VerdictInv'
             /\ health = "fail" => health' = "fail" \/ pc' = "boot"
  BY <1>5
<1>6. CASE BootTimesOut \/ Drain \/ PeelDone \/ Trng \/ Led
  BY <1>5, <1>6 DEF BootTimesOut, Drain, PeelDone, Trng, TrngTask, Led, entropyVars
<1>7. CASE Status \/ OtherCommand \/ BadLength \/ RebootBootloader
           \/ \E cmd \in Commands : OversizedFrame(cmd) \/ HeaderWraps(cmd)
  BY <1>5, <1>7 DEF Status, OtherCommand, BadLength, RebootBootloader, OversizedFrame, HeaderWraps,
     Refuse, Dispatch, entropyVars
<1>8. CASE GetRandom
  BY <1>5, <1>8 DEF GetRandom, RandomRefused, Refuse, RandomStarts, RandomWaits,
     RandomTimesOut, RandomUnhealthy, RandomBlock, RandomLastBlock, RandomEnds,
     TrngTask, TakeRaw, Dispatch, entropyVars
<1>9. CASE FlashBegin
  BY <1>5, <1>9 DEF FlashBegin, BeginRefused, Refuse, BeginStarts, BeginClaims, SetPaused,
     FlashNotFound, BeginFails, FlashFound, EraseNext, EraseDone, BeginSucceeds,
     Dispatch, entropyVars
<1>10. CASE FlashData
  BY <1>5, <1>10 DEF FlashData, DataRefused, Refuse, DataStarts, ProgramNext, ProgramDone,
     Dispatch, entropyVars
<1>11. CASE FlashEnd
  BY <1>5, <1>11 DEF FlashEnd, EndRefused, Refuse, EndStarts, EndReleases, EndSucceeds,
     EndConfigured, SetPaused, EndFails, EndTimesOut, Dispatch, entropyVars
<1>12. CASE Configures \/ TimePasses \/ ChipReadyAtLast \/ SourceDies
  BY <1>5, <1>12 DEF Configures, TimePasses, ChipReadyAtLast, SourceDies, TrngTaskSourceDies,
     entropyVars
<1> QED
  BY <1>1, <1>2, <1>3, <1>4, <1>6, <1>7, <1>8, <1>9, <1>10, <1>11, <1>12
  DEF Next, Thread, Command, Environment

--------------------------------------------------------------------------------
(* The theorems. *)

LEMMA InitInv == Init => Inv
BY InitTypes, InitBusInv, InitHostInv DEF Inv

LEMMA NextKeepsInv ==
    ASSUME Inv, [Next]_vars
    PROVE  Inv'
<1>1. TypeOK' /\ BusInv'
  BY NextTypes, NextKeepsBusInv DEF Inv
<1>2. HostInv'
  BY RingStep, CdoneStep, EraseStep, LedStep, AnswerStep DEF HostInv
<1> QED  BY <1>1, <1>2 DEF Inv

(* FLASH_BEGIN answers OK only when the chip is ready and every page of    *)
(* the announced size erased, also when the size ends inside a sector,     *)
(* or a wait for the chip has run out on the way.                          *)
THEOREM BeginOkAlwaysErased == Spec => []BeginOkMeansErased
<1>1. Inv => BeginOkMeansErased  BY DEF Inv, HostInv, Answers
<1> QED  BY <1>1, InitInv, NextKeepsInv, PTL DEF Spec

(* FLASH_END reports CDONE only if the FPGA runs a bootable image that is  *)
(* still in the flash and is attached, and the session and the pause of    *)
(* the sampling are over.                                                  *)
THEOREM EndOkAlwaysRunning == Spec => []EndOkMeansRunning
<1>1. Inv => EndOkMeansRunning  BY DEF Inv, HostInv, Answers
<1> QED  BY <1>1, InitInv, NextKeepsInv, PTL DEF Spec

(* GET_RANDOM answers OK only on an attached FPGA, outside of any session, *)
(* with tests that have warmed up and not failed.                          *)
THEOREM RandomOkAlwaysHealthy == Spec => []RandomOkMeansHealthy
<1>1. Inv => RandomOkMeansHealthy  BY DEF Inv, HostInv, Answers
<1> QED  BY <1>1, InitInv, NextKeepsInv, PTL DEF Spec

(* Sampling that stays paused outside of a session is shown on the LEDs.   *)
THEOREM PausedAlwaysSignalled == Spec => []PausedIsSignalled
<1>1. Inv => PausedIsSignalled
  BY DEF Inv, HostInv, SignalInv, PausedIsSignalled, LoopPC
<1> QED  BY <1>1, InitInv, NextKeepsInv, PTL DEF Spec

(* IDLE outside of a session, on a board whose FPGA was up once, is shown  *)
(* only with the FPGA attached and sampled.                                *)
THEOREM IdleAlwaysReady == Spec => []IdleMeansReady
<1>1. Inv => IdleMeansReady
  BY DEF Inv, BusInv, HostInv, SignalInv, IdleMeansReady, LoopPC
<1> QED  BY <1>1, InitInv, NextKeepsInv, PTL DEF Spec

(* The flash changes, and an operation on it begins, only while the RP2040 *)
(* alone is on the bus; what ends later ends as it was begun.              *)
THEOREM FlashSafe == Spec => FlashChangesOnlyWhenOwned
<1>1. Inv /\ [Next]_vars
        => [/\ flash' # flash => OwnsFlash \/ flash' \in overdue
            /\ ~ (overdue' \subseteq overdue) => OwnsFlash]_vars
  BY ChangeNeedsOwner
<1> QED  BY <1>1, InitInv, NextKeepsInv, PTL DEF Spec, FlashChangesOnlyWhenOwned

(* The ERROR pattern stays until the host tries to flash again or the      *)
(* board restarts.                                                         *)
THEOREM ErrorAlwaysSticks == Spec => ErrorSticks
<1>1. Inv /\ [Next]_vars
        => [led = "ERROR" => led' \in {"ERROR", "PROGRAM"} \/ pc' = "boot"]_vars
  BY ErrorLeaves
<1> QED  BY <1>1, InitInv, NextKeepsInv, PTL DEF Spec, ErrorSticks

(* A failed health test is not forgotten before the board restarts, also   *)
(* when a session configures the FPGA anew (nist_health.h:16-17,           *)
(* flash_writer.c:98-101).                                                 *)
THEOREM FailureAlwaysSticks == Spec => FailureSticks
<1>1. Init => VerdictInv  BY DEF Init, EntropyInit, VerdictInv
<1>2. VerdictInv /\ [Next]_vars => VerdictInv'
  <2>1. VerdictInv /\ UNCHANGED vars => VerdictInv'  BY DEF vars, entropyVars, VerdictInv
  <2> QED  BY <2>1, VerdictStep
<1>3. VerdictInv /\ [Next]_vars
        => [health = "fail" => health' = "fail" \/ pc' = "boot"]_vars
  BY VerdictStep
<1> QED  BY <1>1, <1>2, <1>3, PTL DEF Spec, FailureSticks
================================================================================
