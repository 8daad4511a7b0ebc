------------------------------ MODULE RngPipeline ------------------------------
(***************************************************************************)
(* mcu/trng.c and mcu/rng_pipeline.c as they are written: the ring and the *)
(* pool are arrays with masked indices, _refill_pool is a loop, and a call *)
(* of rng_pipeline_get_bytes waits, reads the verdict and takes a block    *)
(* from the pool as often as it needs one.  The main loop and the command  *)
(* handlers run between two calls.  A byte is "live" or, from a dead       *)
(* source, "stuck": a source that dies at any byte marks every position.   *)
(* EntropyPath describes the same without arrays, for module Firmware.     *)
(***************************************************************************)
EXTENDS Integers, Sequences

CONSTANTS RING_BYTES, POOL_BYTES, CHUNK, RAW_BYTES,    \* as in EntropyPath
          RCT_BYTES, STARTUP_BYTES,
          OUT_BYTES,     \* RNG_BLOCK_OUT_BYTES (32), the size of a digest
          MaxAsked       \* bound on the bytes a caller asks for

(* A block is not shorter than the run that fails the repetition test.     *)
ASSUME PipelineAssumption ==
    /\ RING_BYTES \in Nat \ {0} /\ POOL_BYTES \in Nat \ {0} /\ CHUNK \in Nat \ {0}
    /\ RCT_BYTES \in Nat \ {0} /\ STARTUP_BYTES \in Nat \ {0}
    /\ RAW_BYTES \in RCT_BYTES .. CHUNK
    /\ OUT_BYTES \in Nat \ {0} /\ MaxAsked \in Nat

VARIABLES trngRing, pool,          \* _ring and _pool, each with its two indices
          initialised, paused,     \* of trng.c
          health, warm, stuckRun,  \* of nist_health.c, in bytes
          source,                  \* what the oscillators deliver
          pc,                      \* where get_bytes is, or "idle"
          asked, out, result       \* its n, its status, and for each byte written
                                   \* the raw block whose digest it is from

healthVars == <<health, warm, stuckRun>>
callVars   == <<pc, asked, out, result>>
vars == <<trngRing, pool, initialised, paused, healthVars, source, callVars>>

Byte == {"live", "stuck"}

Smaller(x, y) == IF x < y THEN x ELSE y

--------------------------------------------------------------------------------
(* The circular buffers of both files, of n bytes, one of them never used. *)

Used(f, n) == (f.head - f.tail) % n
Free(f, n) == n - 1 - Used(f, n)

Held(f, n)       == [i \in 1 .. Used(f, n) |-> f.buf[(f.tail + i - 1) % n]]
Oldest(f, n, k)  == SubSeq(Held(f, n), 1, Smaller(k, Used(f, n)))
Without(f, n, k) == [f EXCEPT !.tail = (@ + Smaller(k, Used(f, n))) % n]

(* What is written goes behind the head, and round the end. *)
With(f, n, s) ==
    [f EXCEPT !.buf  = [p \in DOMAIN @ |-> LET i == ((p - f.head) % n) + 1
                                           IN  IF i \in DOMAIN s THEN s[i] ELSE @[p]],
              !.head = (@ + Len(s)) % n]

Empty(n) == [buf |-> [p \in 0 .. (n - 1) |-> "live"], head |-> 0, tail |-> 0]

Labels == {"idle", "loop", "refill", "pumped", "verdict", "answer"}

TypeOK ==
    /\ trngRing.buf \in [0 .. (RING_BYTES - 1) -> Byte]
    /\ pool.buf \in [0 .. (POOL_BYTES - 1) -> Byte]
    /\ pc \in Labels
    /\ Len(out) <= asked
    /\ result \in {"OK", "NO_ENTROPY", "HEALTH_FAIL", "HEALTH_WARMING"}

Init ==
    /\ trngRing = Empty(RING_BYTES) /\ pool = Empty(POOL_BYTES)
    /\ initialised = FALSE /\ paused = FALSE
    /\ health = "warming" /\ warm = 0 /\ stuckRun = 0
    /\ source = "live"
    /\ pc = "idle" /\ asked = 0 /\ out = << >> /\ result = "OK"

--------------------------------------------------------------------------------
(* trng.c *)

Sampled(k) == [i \in 1 .. CHUNK |-> IF i <= k THEN source ELSE "stuck"]

(* trng_task, with a source that fails, if it does, after k bytes. *)
TrngTask ==
    /\ IF initialised /\ ~ paused /\ Free(trngRing, RING_BYTES) >= CHUNK
       THEN \E k \in {CHUNK} \cup (IF source = "live" THEN 0 .. (CHUNK - 1) ELSE {}) :
              /\ trngRing' = With(trngRing, RING_BYTES, Sampled(k))
              /\ source' = IF k < CHUNK THEN "stuck" ELSE source
       ELSE UNCHANGED <<trngRing, source>>
    /\ UNCHANGED <<pool, initialised, paused, healthVars>>

(* nist_health_feed of one byte; a failure latches every counter. *)
FeedByte(h, b) ==
    LET run == IF b = "stuck" THEN h.run + 1 ELSE 0
        n   == Smaller(h.warm + 1, STARTUP_BYTES)
    IN  IF h.health = "fail" THEN h
        ELSE IF run >= RCT_BYTES THEN [h EXCEPT !.run = run, !.health = "fail"]
        ELSE [run |-> run, warm |-> n, health |-> IF n = STARTUP_BYTES THEN "ok" ELSE h.health]

Fed(h, s) ==
    LET after[i \in 0 .. Len(s)] == IF i = 0 THEN h ELSE FeedByte(after[i - 1], s[i])
    IN  after[Len(s)]

(* Broken variant: a refill moves one chunk at most. *)
Rounds_One == 1

(* A round takes a byte at least, so that these are enough. *)
Rounds == POOL_BYTES

(* One round of the loop of _refill_pool, if there is one. *)
RefillRound(s) ==
    LET got == Oldest(s.ring, RING_BYTES, CHUNK)
    IN  IF Free(s.pool, POOL_BYTES) >= CHUNK /\ got # << >>
        THEN [ring |-> Without(s.ring, RING_BYTES, CHUNK), tests |-> Fed(s.tests, got),
              pool |-> With(s.pool, POOL_BYTES, got)]
        ELSE s

RefillPool ==
    LET after[i \in 0 .. Rounds] ==
          IF i = 0 THEN [ring |-> trngRing, pool |-> pool,
                         tests |-> [health |-> health, warm |-> warm, run |-> stuckRun]]
          ELSE RefillRound(after[i - 1])
        end == after[Rounds]
    IN  /\ trngRing' = end.ring /\ pool' = end.pool
        /\ health' = end.tests.health /\ warm' = end.tests.warm /\ stuckRun' = end.tests.run
        /\ UNCHANGED <<initialised, paused, source>>

--------------------------------------------------------------------------------
(* Between the calls: the main loop and the commands. *)

Between == pc = "idle" /\ UNCHANGED callVars

PipelineInit ==
    /\ Between /\ ~ initialised /\ initialised' = TRUE
    /\ trngRing' = [trngRing EXCEPT !.head = 0, !.tail = 0] /\ paused' = FALSE
    /\ health' = "warming" /\ warm' = 0 /\ stuckRun' = 0
    /\ UNCHANGED <<pool, source>>

LoopTrngTask     == Between /\ TrngTask
LoopPipelineTask == Between /\ RefillPool

(* GET_RANDOM has waited for a block and reads it from the ring. *)
GetRandom ==
    /\ Between /\ Used(trngRing, RING_BYTES) >= RAW_BYTES
    /\ trngRing' = Without(trngRing, RING_BYTES, RAW_BYTES)
    /\ UNCHANGED <<pool, initialised, paused, healthVars, source>>

(* A programming session begins, or ends. *)
SetPaused ==
    /\ Between /\ paused' = ~ paused
    /\ UNCHANGED <<trngRing, pool, initialised, healthVars, source>>

--------------------------------------------------------------------------------
(* rng_pipeline_get_bytes *)

Goto(from, to) == pc = from /\ pc' = to
Inside == UNCHANGED <<asked, out, result>>
Still  == UNCHANGED <<trngRing, pool, initialised, paused, healthVars, source>>

Call ==
    /\ Goto("idle", "loop")
    /\ asked' \in 0 .. MaxAsked
    /\ out' = << >> /\ result' = "OK"
    /\ Still

Return(status) ==
    /\ pc' = "answer" /\ result' = status
    /\ UNCHANGED <<asked, out>> /\ Still

(* The caller has its answer. *)
Leave ==
    /\ Goto("answer", "idle")
    /\ asked' = 0 /\ out' = << >> /\ result' = "OK"
    /\ Still

Done == pc = "loop" /\ Len(out) = asked /\ Return("OK")

(* _wait_for_pool looks at the pool before it pumps, and after it. *)
Waiting == (pc = "loop" /\ Len(out) < asked) \/ pc = "pumped"
Enough  == Used(pool, POOL_BYTES) >= RAW_BYTES

Ready  == Waiting /\ Enough   /\ pc' = "verdict" /\ Inside /\ Still
Sample == Waiting /\ ~ Enough /\ pc' = "refill"  /\ Inside /\ TrngTask
Refill == Goto("refill", "pumped") /\ Inside /\ RefillPool

(* Broken variant: the wait has no limit. *)
TimesOut_Never == pc = "pumped" /\ ~ Enough /\ Goto("pumped", "loop") /\ Inside /\ Still

(* Two seconds pass, which only a stopped sampling can take. *)
TimesOut ==
    /\ pc = "pumped" /\ ~ Enough
    /\ paused \/ ~ initialised
    /\ Return("NO_ENTROPY")

(* Broken variant: the verdict is not read. *)
Healthy_Unread == TRUE
Healthy == health = "ok"

Refused ==
    /\ pc = "verdict" /\ ~ Healthy
    /\ Return(IF health = "fail" THEN "HEALTH_FAIL" ELSE "HEALTH_WARMING")

(* Broken variant: every call of the loop writes a whole digest. *)
Wanted_Whole == OUT_BYTES
Wanted == Smaller(OUT_BYTES, asked - Len(out))

(* The digest of a block, cut to what is still wanted. *)
Digest(block) == [i \in 1 .. Wanted |-> block]

Block ==
    /\ Goto("verdict", "loop") /\ Healthy
    /\ out' = out \o Digest(Oldest(pool, POOL_BYTES, RAW_BYTES))
    /\ pool' = Without(pool, POOL_BYTES, RAW_BYTES)
    /\ UNCHANGED <<asked, result, trngRing, initialised, paused, healthVars, source>>

InCall == Done \/ Ready \/ Sample \/ Refill \/ TimesOut \/ Refused \/ Block \/ Leave

Next ==
    \/ PipelineInit \/ LoopTrngTask \/ LoopPipelineTask \/ GetRandom \/ SetPaused
    \/ Call \/ InCall

Spec == Init /\ [][Next]_vars

(* A call is code that runs: its program counter moves on, as some action  *)
(* of InCall can always make it.  And two seconds pass.                    *)
Advances == pc # "idle" /\ pc' \in Labels \ {pc}

FairSpec == Spec /\ WF_pc(Advances) /\ SF_vars(TimesOut)

--------------------------------------------------------------------------------
(* Properties *)

Path == INSTANCE EntropyPath WITH ring <- Held(trngRing, RING_BYTES),
                                  pool <- Held(pool, POOL_BYTES)

(* The arrays with their masked indices and the refill loop move the bytes *)
(* as the queues of EntropyPath do: none is overwritten, lost or passed    *)
(* on untested, and only a good verdict releases a block                   *)
(* (trng.c:57-91, rng_pipeline.c:41-77 and 97-115).                        *)
ImplementsPath == Path!PathSpec

WholeDigests == \E k \in 0 .. Len(out) : Len(out) = k * OUT_BYTES

(* The status is OK exactly if the caller has all the bytes it asked for.  *)
(* With any other status it has the whole digests written before, which    *)
(* need not be none: when the verdict turns in the middle of a request the *)
(* count is positive with HEALTH_FAIL (rng_pipeline.c:121-137), against    *)
(* rng_pipeline.h:45-46, "on health failure returns 0".  And no byte       *)
(* written, OK or not, is from a block of nothing but stuck bytes,         *)
(* whenever the source died (rng_pipeline.c:97-115; GET_RANDOM, which      *)
(* hashes bytes from the ring, promises no such thing).                    *)
AnswerIsGood ==
    /\ pc = "answer" => ((result = "OK") = (Len(out) = asked))
    /\ pc = "answer" /\ result # "OK" => WholeDigests
    /\ \A i \in 1 .. Len(out) : \E j \in 1 .. RAW_BYTES : out[i][j] = "live"

(* Every call comes back, with the sampling stopped and with a dead source *)
(* too (rng_pipeline.c:81-93 and 121-133).                                 *)
CallReturns == (pc # "idle") ~> (pc = "idle")
================================================================================
