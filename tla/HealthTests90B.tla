---------------------------- MODULE HealthTests90B ----------------------------
(***************************************************************************)
(* What the two continuous health tests of SP 800-90B promise, stated over *)
(* the whole history of samples fed since the last reset and with none of  *)
(* the counters nist_health.c keeps: the Repetition Count Test fails when  *)
(* some RCT_CUTOFF consecutive samples are equal, the Adaptive Proportion  *)
(* Test when the first sample of an aligned window of APT_WINDOW samples   *)
(* occurs APT_CUTOFF times in it.  NistHealth is shown to implement this.  *)
(***************************************************************************)
EXTENDS Integers, Sequences, FiniteSets

CONSTANTS RCT_CUTOFF,     \* NIST_RCT_CUTOFF   (32 in nist_health.h)
          APT_WINDOW,     \* NIST_APT_WINDOW   (512)
          APT_CUTOFF,     \* NIST_APT_CUTOFF   (410)
          STARTUP_BITS    \* NIST_STARTUP_BITS (1024)

VARIABLES samples,    \* every sample fed since the last reset
          verdict     \* the status reported after the last of them

Bit == {0, 1}

(* The last RCT_CUTOFF samples up to position i of h are all equal. *)
RctAt(h, i) ==
    /\ i >= RCT_CUTOFF
    /\ \A j \in (i - RCT_CUTOFF + 1) .. i : h[j] = h[i]

(* First position of the aligned window that position i belongs to. *)
WindowStart(i) == i - ((i - 1) % APT_WINDOW)

(* Occurrences of the window's first sample from its start up to i. *)
AptCountAt(h, i) ==
    Cardinality({j \in WindowStart(i) .. i : h[j] = h[WindowStart(i)]})

AptAt(h, i) == AptCountAt(h, i) >= APT_CUTOFF

(* Position i is the first of the history to trip a test. *)
FirstTrip(h, i) ==
    /\ RctAt(h, i) \/ AptAt(h, i)
    /\ \A j \in 1 .. (i - 1) : ~ RctAt(h, j) /\ ~ AptAt(h, j)

(* The verdict on a history is that of the first position that trips a     *)
(* test, the Repetition Count Test winning a tie.                          *)
VerdictOn(h) ==
    IF \E i \in DOMAIN h : FirstTrip(h, i) /\ RctAt(h, i) THEN "fail_rct"
    ELSE IF \E i \in DOMAIN h : FirstTrip(h, i)           THEN "fail_apt"
    ELSE IF Len(h) >= STARTUP_BITS                         THEN "ok"
    ELSE "warming"

Init == samples = << >> /\ verdict = "warming"

Feed == \E b \in Bit :
           /\ samples' = Append(samples, b)
           /\ verdict' = VerdictOn(samples')

Reset == samples' = << >> /\ verdict' = "warming"

Next == Feed \/ Reset

Spec == Init /\ [][Next]_<<samples, verdict>>
================================================================================
