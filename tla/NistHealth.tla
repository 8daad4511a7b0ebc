------------------------------ MODULE NistHealth ------------------------------
(***************************************************************************)
(* mcu/nist_health.c: the incremental Repetition Count and Adaptive        *)
(* Proportion tests the firmware runs on the raw bit stream.  Every        *)
(* variable is a static of the file except fed, a history variable that    *)
(* records the bits given to nist_health_feed_bit since the last reset,    *)
(* so that the counters can be compared with the definition of the tests.  *)
(***************************************************************************)
EXTENDS Integers, Sequences, FiniteSets

CONSTANTS RCT_CUTOFF, APT_WINDOW, APT_CUTOFF, STARTUP_BITS,
          MaxBits    \* bound on the bits fed between two resets

ASSUME CutoffAssumption ==
    /\ RCT_CUTOFF   \in Nat \ {0}
    /\ APT_WINDOW   \in Nat \ {0}
    /\ APT_CUTOFF   \in Nat \ {0, 1}
    /\ STARTUP_BITS \in Nat \ {0}
    /\ MaxBits      \in Nat

VARIABLES status, bits_seen,
          rct_last, rct_run, rct_max,
          apt_a, apt_count, apt_pos, apt_max,
          fed

rctVars == <<rct_last, rct_run, rct_max>>
aptVars == <<apt_a, apt_count, apt_pos, apt_max>>
vars    == <<status, bits_seen, rctVars, aptVars, fed>>

(* The definition of the tests over the fed bits. *)
Tests == INSTANCE HealthTests90B WITH samples <- fed, verdict <- status

Bit    == {0, 1}
NO_BIT == 255      \* 0xFF: "impossible value", no run can continue it
Failed == {"fail_rct", "fail_apt"}

Larger(x, y) == IF x > y THEN x ELSE y

--------------------------------------------------------------------------------
(* nist_health_reset *)
Init ==
    /\ status    = "warming"
    /\ bits_seen = 0
    /\ rct_last = NO_BIT /\ rct_run = 0 /\ rct_max = 0
    /\ apt_a = 0 /\ apt_count = 0 /\ apt_pos = APT_WINDOW /\ apt_max = 0
    /\ fed       = << >>

Reset ==
    /\ status'    = "warming"
    /\ bits_seen' = 0
    /\ rct_last' = NO_BIT /\ rct_run' = 0 /\ rct_max' = 0
    /\ apt_a' = 0 /\ apt_count' = 0 /\ apt_pos' = APT_WINDOW /\ apt_max' = 0
    /\ fed'       = << >>

--------------------------------------------------------------------------------
(* nist_health_feed_bit(bit), one disjunct per way out of the function. *)

(* Broken variant: the bit that starts a run is not counted. *)
RunWith_FromZero(bit) == IF bit = rct_last THEN rct_run + 1 ELSE 0

RunWith(bit) == IF bit = rct_last THEN rct_run + 1 ELSE 1

(* Broken variant: the maximum is taken before the run is counted. *)
RctStep_MaxBeforeCount(bit) ==
    /\ rct_last' = bit
    /\ rct_run'  = RunWith(bit)
    /\ rct_max'  = Larger(rct_max, rct_run)

RctStep(bit) ==
    /\ rct_last' = bit
    /\ rct_run'  = RunWith(bit)
    /\ rct_max'  = Larger(rct_max, RunWith(bit))

(* A latched failure freezes every counter. *)
StaysLatched ==
    /\ status \in Failed
    /\ UNCHANGED <<status, bits_seen, rctVars, aptVars>>

RctFails(bit) ==
    /\ status \notin Failed
    /\ RunWith(bit) >= RCT_CUTOFF
    /\ RctStep(bit)
    /\ status' = "fail_rct"
    /\ UNCHANGED <<bits_seen, aptVars>>

RctPasses(bit) ==
    /\ status \notin Failed
    /\ RunWith(bit) < RCT_CUTOFF
    /\ RctStep(bit)

(* The bookkeeping at the end: one more bit, and out of warm-up in time. *)
Counted ==
    /\ bits_seen' = bits_seen + 1
    /\ status' = IF status = "warming" /\ bits_seen' >= STARTUP_BITS
                 THEN "ok" ELSE status

(* Broken variant: the window is one sample too long. *)
WindowFull_Late == apt_pos > APT_WINDOW

WindowFull == apt_pos >= APT_WINDOW

(* Broken variant: the first sample of the window is not counted. *)
WindowOpens_CountsFromZero(bit) ==
    /\ RctPasses(bit)
    /\ WindowFull
    /\ apt_max' = Larger(apt_max, apt_count)
    /\ apt_a' = bit /\ apt_count' = 0 /\ apt_pos' = 1
    /\ Counted

(* The bit is the first of a new window; the finished window's count is    *)
(* folded into apt_max only now.                                           *)
WindowOpens(bit) ==
    /\ RctPasses(bit)
    /\ WindowFull
    /\ apt_max' = Larger(apt_max, apt_count)
    /\ apt_a' = bit /\ apt_count' = 1 /\ apt_pos' = 1
    /\ Counted

AptCountWith(bit) == IF bit = apt_a THEN apt_count + 1 ELSE apt_count

AptStep(bit) ==
    /\ ~ WindowFull
    /\ apt_count' = AptCountWith(bit)
    /\ apt_pos'   = apt_pos + 1
    /\ UNCHANGED <<apt_a, apt_max>>

AptFails(bit) ==
    /\ RctPasses(bit)
    /\ AptStep(bit)
    /\ AptCountWith(bit) >= APT_CUTOFF
    /\ status' = "fail_apt"
    /\ UNCHANGED bits_seen

AptPasses(bit) ==
    /\ RctPasses(bit)
    /\ AptStep(bit)
    /\ AptCountWith(bit) < APT_CUTOFF
    /\ Counted

FeedBit(bit) ==
    /\ Len(fed) < MaxBits
    /\ fed' = Append(fed, bit)
    /\ \/ StaysLatched
       \/ RctFails(bit)
       \/ WindowOpens(bit)
       \/ AptFails(bit)
       \/ AptPasses(bit)

Next == Reset \/ \E bit \in Bit : FeedBit(bit)

Spec == Init /\ [][Next]_vars

--------------------------------------------------------------------------------
(* Every counter stays in the range its test gives it. *)
TypeOK ==
    /\ status \in {"warming", "ok"} \cup Failed
    /\ bits_seen \in Nat
    /\ rct_last \in Bit \cup {NO_BIT}
    /\ rct_run \in 0 .. RCT_CUTOFF
    /\ rct_run = RCT_CUTOFF => status \in Failed
    /\ rct_max \in 0 .. RCT_CUTOFF
    /\ apt_a \in Bit
    /\ apt_pos \in 1 .. APT_WINDOW
    /\ apt_count \in 0 .. apt_pos
    /\ apt_max \in 0 .. APT_WINDOW
    /\ fed \in Seq(Bit)

(* Until a failure is latched the counters are what their names say, seen  *)
(* from the bits: rct_run is the length of the run the stream ends in, and *)
(* apt_count the occurrences of the window's first bit so far.  This is    *)
(* what makes the tests of nist_health_feed_bit exact.                     *)
RunTracks(n) ==
    /\ rct_last = fed[n]
    /\ rct_run \in 1 .. n
    /\ \A j \in (n - rct_run + 1) .. n : fed[j] = fed[n]
    /\ rct_run < n => fed[n - rct_run] # fed[n]

WindowTracks(n) ==
    /\ apt_pos   = ((n - 1) % APT_WINDOW) + 1
    /\ apt_a     = fed[Tests!WindowStart(n)]
    /\ apt_count = Tests!AptCountAt(fed, n)

CountersTrack ==
    status \notin Failed =>
        /\ bits_seen = Len(fed)
        /\ fed # << >> => RunTracks(Len(fed)) /\ WindowTracks(Len(fed))

(* The incremental code and the definition of the tests agree on every     *)
(* stream: the status nist_health_feed_bit leaves is the verdict of the    *)
(* first position that trips, however runs and windows straddle each other *)
(* (nist_health_feed_bit and nist_health_reset).                           *)
Implements90B == Tests!Spec

(* The statistics a STATUS command reports (nist_health_get_stats), in the *)
(* terms of nist_health.h:55-57 and of the bits fed.  The bits looked at   *)
(* are those up to the one that tripped a test.                            *)
TestedBits ==
    IF status \in Failed THEN CHOOSE i \in DOMAIN fed : Tests!FirstTrip(fed, i)
    ELSE Len(fed)

Run(i, j) == \A k \in i .. j : fed[k] = fed[i]

LongestRun(n) ==
    CHOOSE m \in 0 .. n :
        /\ m # 0 => \E i \in 1 .. (n - m + 1) : Run(i, i + m - 1)
        /\ \A i \in 1 .. n : \A j \in i .. n : Run(i, j) => j - i + 1 <= m

CompletedWindowEnds(n) == {i \in 1 .. n : i % APT_WINDOW = 0}

(* max is the largest count of the windows that end in E, or 0 of none. *)
LargestCount(max, E) ==
    /\ \A i \in E : Tests!AptCountAt(fed, i) <= max
    /\ max # 0 => \E i \in E : Tests!AptCountAt(fed, i) = max

(* The three are what the header says, but for these exceptions:           *)
(*   - bits_seen, "total bits fed since reset" (line 55), counts neither   *)
(*     the bit that trips a test nor what comes after it, and rct_max      *)
(*     (line 56) sees no run past that bit (nist_health.c:53-60, 73, 90);  *)
(*   - apt_max, "largest A-count observed in any completed APT window"     *)
(*     (line 57), leaves out the window that ends in the last bit the APT  *)
(*     saw: it is counted when another bit opens the next window           *)
(*     (nist_health.c:78-82), so never if that bit trips the RCT or the    *)
(*     window's own last bit the APT.                                      *)
(* In particular the window that fails the APT is in none of the three,    *)
(* against nist_health.c:51-52, "so the user can inspect the offending     *)
(* values via nist_health_get_stats()".                                    *)
StatsExact ==
    LET n == TestedBits
        m == IF status = "fail_rct" THEN n - 1 ELSE n
    IN  /\ bits_seen = IF status \in Failed THEN n - 1 ELSE n
        /\ rct_max = LongestRun(n)
        /\ LargestCount(apt_max, CompletedWindowEnds(m) \ {m})
================================================================================
