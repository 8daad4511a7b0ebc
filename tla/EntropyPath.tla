------------------------------ MODULE EntropyPath ------------------------------
(***************************************************************************)
(* mcu/trng.c and mcu/rng_pipeline.c: raw bytes go from the FPGA into the  *)
(* ring (trng_task), and from the ring either through the health tests     *)
(* into the pool (rng_pipeline_task) or straight to a GET_RANDOM command   *)
(* (trng_read_bytes in protocol.c).  A byte is "live", or "stuck" when the *)
(* source has died and repeats one bit.  The health tests are those of     *)
(* NistHealth, seen at the grain of bytes: RCT_BYTES stuck bytes in a row  *)
(* fail the repetition test, live bytes fail none, and the startup phase   *)
(* lasts STARTUP_BYTES bytes.                                              *)
(***************************************************************************)
EXTENDS Integers, Sequences, FiniteSets

CONSTANTS RING_BYTES,      \* TRNG_BUFFER_BYTES   (2048 in trng.h)
          POOL_BYTES,      \* POOL_BYTES           (256 in rng_pipeline.c)
          CHUNK,           \* TRNG_READ_CHUNK and the refill buffer (32)
          RAW_BYTES,       \* RNG_BLOCK_RAW_BYTES   (16)
          RCT_BYTES,       \* NIST_RCT_CUTOFF / 8    (4)
          STARTUP_BYTES    \* NIST_STARTUP_BITS / 8 (128)

ASSUME EntropyAssumption ==
    /\ RING_BYTES    \in Nat \ {0}
    /\ POOL_BYTES    \in Nat \ {0}
    /\ CHUNK         \in Nat \ {0}
    /\ RAW_BYTES     \in 1 .. CHUNK
    /\ RCT_BYTES     \in Nat \ {0}
    /\ STARTUP_BYTES \in Nat \ {0}

VARIABLES ring, pool,       \* the bytes held, oldest first
          initialised,      \* trng.c _initialised
          paused,           \* trng.c _paused
          health,           \* "warming", "ok" or "fail"
          warm,             \* bytes counted since the reset, up to STARTUP_BYTES
          stuckRun,         \* length of the stuck run the tested stream ends in
          source            \* what the FPGA's oscillators deliver

entropyVars == <<ring, pool, initialised, paused, health, warm, stuckRun, source>>

Byte == {"live", "stuck"}

EntropyTypeOK ==
    /\ ring \in Seq(Byte) /\ Len(ring) < RING_BYTES
    /\ pool \in Seq(Byte) /\ Len(pool) < POOL_BYTES
    /\ initialised \in BOOLEAN /\ paused \in BOOLEAN
    /\ health \in {"warming", "ok", "fail"}
    /\ warm \in 0 .. STARTUP_BYTES
    /\ stuckRun \in 0 .. RCT_BYTES
    /\ source \in Byte

(* The statics after a reset of the RP2040: nothing sampled, nothing tested. *)
EntropyInit ==
    /\ ring = << >> /\ pool = << >>
    /\ initialised = FALSE /\ paused = FALSE
    /\ health = "warming" /\ warm = 0 /\ stuckRun = 0

--------------------------------------------------------------------------------
(* trng.c *)

RingFree == RING_BYTES - 1 - Len(ring)

(* Broken variant: no check for room. *)
TrngReady_NoRoomCheck == initialised /\ ~ paused

(* trng_task pulls a chunk only if it may drive the bus and has room. *)
TrngReady == initialised /\ ~ paused /\ RingFree >= CHUNK

Bytes(b, n) == [i \in 1 .. n |-> b]

(* trng_task: one chunk from a source that stays as it is. *)
TrngTask ==
    /\ ring' = IF TrngReady THEN ring \o Bytes(source, CHUNK) ELSE ring
    /\ UNCHANGED <<pool, initialised, paused, health, warm, stuckRun, source>>

(* trng_task: the source dies for good after k bytes of the chunk. *)
TrngTaskSourceDies(k) ==
    /\ TrngReady
    /\ source  = "live"
    /\ source' = "stuck"
    /\ ring'   = ring \o Bytes("live", k) \o Bytes("stuck", CHUNK - k)
    /\ UNCHANGED <<pool, initialised, paused, health, warm, stuckRun>>

(* trng_read_bytes of one block by GET_RANDOM, which has waited for it. *)
RawReady == Len(ring) >= RAW_BYTES
RawBlock == SubSeq(ring, 1, RAW_BYTES)

TakeRaw ==
    /\ RawReady
    /\ ring' = SubSeq(ring, RAW_BYTES + 1, Len(ring))
    /\ UNCHANGED <<pool, initialised, paused, health, warm, stuckRun, source>>

SetPaused(p) ==
    /\ paused' = p
    /\ UNCHANGED <<ring, pool, initialised, health, warm, stuckRun, source>>

(* rng_pipeline_init: trng_init and nist_health_reset.  The pool keeps its *)
(* bytes, but there are none: init runs once, before the main loop.        *)
RngPipelineInit ==
    /\ ring' = << >> /\ paused' = FALSE /\ initialised' = TRUE
    /\ health' = "warming" /\ warm' = 0 /\ stuckRun' = 0
    /\ UNCHANGED <<pool, source>>

--------------------------------------------------------------------------------
(* nist_health_feed of a sequence of bytes, at the grain of bytes. *)

(* The tested stream, from the start of the stuck run it ended in. *)
Stream(s) == Bytes("stuck", stuckRun) \o s

StuckAt(t, i, n) == \A j \in i .. (i + n - 1) : t[j] = "stuck"

Trips(s) ==
    LET t == Stream(s)
    IN  \E i \in 1 .. (Len(t) - RCT_BYTES + 1) : StuckAt(t, i, RCT_BYTES)

(* Its trailing stuck run, up to RCT_BYTES: the lengths n such that the    *)
(* last n bytes are stuck are those up to that of the run.                 *)
RunAfter(s) ==
    LET t == Stream(s)
    IN  Cardinality({n \in 1 .. RCT_BYTES :
                       n <= Len(t) /\ StuckAt(t, Len(t) - n + 1, n)})

(* The bytes that pass: a failure latches the counters where it finds them. *)
Passed(s) == Cardinality({k \in 1 .. Len(s) : ~ Trips(SubSeq(s, 1, k))})

Least(x, y) == IF x < y THEN x ELSE y

Feed(s) ==
    IF health = "fail"
    THEN UNCHANGED <<health, warm, stuckRun>>
    ELSE /\ warm'     = Least(warm + Passed(s), STARTUP_BYTES)
         /\ stuckRun' = IF Trips(s) THEN RCT_BYTES ELSE RunAfter(s)
         /\ health'   = IF Trips(s) THEN "fail"
                        ELSE IF warm' = STARTUP_BYTES THEN "ok" ELSE health

--------------------------------------------------------------------------------
(* rng_pipeline.c *)

PoolFree == POOL_BYTES - 1 - Len(pool)

(* What the loop of _refill_pool moves before it runs out of ring, or of   *)
(* room for another whole chunk.                                           *)
Moved == Least(Len(ring), CHUNK * (PoolFree \div CHUNK))

(* Broken variant: the bytes go into the pool untested. *)
RngPipelineTask_Untested ==
    /\ pool' = pool \o SubSeq(ring, 1, Moved)
    /\ ring' = SubSeq(ring, Moved + 1, Len(ring))
    /\ UNCHANGED <<health, warm, stuckRun, initialised, paused, source>>

(* Broken variant: nothing is moved, or tested, between requests. *)
RngPipelineTask_OnDemand == UNCHANGED entropyVars

(* rng_pipeline_task, that is _refill_pool *)
RngPipelineTask ==
    LET moved == SubSeq(ring, 1, Moved)
    IN  /\ Feed(moved)
        /\ pool' = pool \o moved
        /\ ring' = SubSeq(ring, Moved + 1, Len(ring))
        /\ UNCHANGED <<initialised, paused, source>>

(* rng_pipeline_get_block, when the pool holds a block and the verdict is  *)
(* good.  The firmware has no caller of it.                                *)
TakeBlock ==
    /\ health = "ok" /\ Len(pool) >= RAW_BYTES
    /\ pool' = SubSeq(pool, RAW_BYTES + 1, Len(pool))
    /\ UNCHANGED <<ring, initialised, paused, health, warm, stuckRun, source>>

(* What the files promise on their own, whoever calls them. *)
PathNext ==
    \/ TrngTask \/ \E k \in 0 .. (CHUNK - 1) : TrngTaskSourceDies(k)
    \/ TakeRaw \/ RngPipelineTask \/ TakeBlock
    \/ RngPipelineInit \/ \E p \in BOOLEAN : SetPaused(p)

PathSpec == EntropyInit /\ source \in Byte /\ [][PathNext]_entropyVars
================================================================================
