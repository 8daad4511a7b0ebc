--------------------------- MODULE NistHealth_proofs ---------------------------
(***************************************************************************)
(* nist_health.c implements the SP 800-90B tests, for every cutoff, window *)
(* length and startup length: Spec => Implements90B.  The argument is that *)
(* the counters track the history (CountersTrack), so that the two tests   *)
(* on the newest position are decided by the counters (RctDecides,         *)
(* AptDecides), while the verdict on older positions cannot change.        *)
(***************************************************************************)
EXTENDS NistHealth, FiniteSetTheorems, TLAPS

--------------------------------------------------------------------------------
(* Arithmetic of window positions. *)

(* Multiples of W are at least W apart. *)
LEMMA MultiplesApart ==
    ASSUME NEW W \in Nat \ {0}, NEW a \in Int, NEW b \in Int, a < b
    PROVE  W * a + W <= W * b
<1>1. PICK d \in Nat : b = a + 1 + d
  <2> WITNESS b - a - 1 \in Nat
  <2> QED OBVIOUS
<1>2. W * b = W * a + W + W * d  BY <1>1
<1>3. W * d >= 0  OBVIOUS
<1> QED  BY <1>2, <1>3

(* Remainders are unique. *)
LEMMA RemainderUnique ==
    ASSUME NEW W \in Nat \ {0}, NEW a \in Int, NEW b \in Int,
           NEW s \in 0 .. (W - 1), NEW t \in 0 .. (W - 1),
           W * a + s = W * b + t
    PROVE  s = t
<1>1. W * a \in Int /\ W * b \in Int  OBVIOUS
<1>2. CASE a < b
  <2>1. W * a + W <= W * b  BY <1>2, MultiplesApart
  <2> QED  BY <2>1, <1>1
<1>3. CASE b < a
  <2>1. W * b + W <= W * a  BY <1>3, MultiplesApart
  <2> QED  BY <2>1, <1>1
<1>4. CASE a = b  BY <1>4
<1> QED  BY <1>2, <1>3, <1>4

(* The successor of a position either stays in the window or opens one. *)
LEMMA NextRemainder ==
    ASSUME NEW W \in Nat \ {0}, NEW n \in Nat
    PROVE  /\ n % W \in 0 .. (W - 1)
           /\ n % W = W - 1 => (n + 1) % W = 0
           /\ n % W < W - 1 => (n + 1) % W = (n % W) + 1
<1> DEFINE q == n \div W
           r == n % W
           p == (n + 1) \div W
           s == (n + 1) % W
<1>1. r \in 0 .. (W - 1) /\ q \in Int /\ n = W * q + r  OBVIOUS
<1>2. s \in 0 .. (W - 1) /\ p \in Int /\ n + 1 = W * p + s  OBVIOUS
<1> HIDE DEF q, r, p, s
<1>3. ASSUME r = W - 1  PROVE s = 0
  <2>1. W * (q + 1) = W * q + W  BY <1>1
  <2>2. W * (q + 1) + 0 = W * p + s  BY <2>1, <1>1, <1>2, <1>3
  <2> QED  BY <2>2, <1>1, <1>2, RemainderUnique
<1>4. ASSUME r < W - 1  PROVE s = r + 1
  <2>1. W * q + (r + 1) = W * p + s  BY <1>1, <1>2
  <2> QED  BY <2>1, <1>1, <1>2, <1>4, RemainderUnique
<1> QED  BY <1>1, <1>3, <1>4 DEF r, s

(* A window starts at or before each of its positions. *)
LEMMA WindowStartRange ==
    ASSUME NEW i \in Nat \ {0}
    PROVE  Tests!WindowStart(i) \in 1 .. i
<1>1. i - 1 \in Nat  OBVIOUS
<1>2. (i - 1) % APT_WINDOW \in 0 .. (APT_WINDOW - 1)
  BY <1>1, NextRemainder, CutoffAssumption
<1>3. (i - 1) % APT_WINDOW <= i - 1
  BY <1>1, CutoffAssumption
<1> QED  BY <1>2, <1>3, CutoffAssumption DEF Tests!WindowStart

(* The window of the next position, seen from the position counter. *)
LEMMA NextWindow ==
    ASSUME NEW n \in Nat \ {0}
    PROVE  /\ ((n - 1) % APT_WINDOW) + 1 >= APT_WINDOW =>
                /\ n % APT_WINDOW = 0
                /\ Tests!WindowStart(n + 1) = n + 1
           /\ ((n - 1) % APT_WINDOW) + 1 < APT_WINDOW =>
                /\ n % APT_WINDOW = ((n - 1) % APT_WINDOW) + 1
                /\ Tests!WindowStart(n + 1) = Tests!WindowStart(n)
<1>1. n - 1 \in Nat /\ (n - 1) + 1 = n /\ (n + 1) - 1 = n  OBVIOUS
<1>2. /\ (n - 1) % APT_WINDOW \in 0 .. (APT_WINDOW - 1)
      /\ (n - 1) % APT_WINDOW = APT_WINDOW - 1 => n % APT_WINDOW = 0
      /\ (n - 1) % APT_WINDOW < APT_WINDOW - 1 =>
             n % APT_WINDOW = ((n - 1) % APT_WINDOW) + 1
  BY <1>1, NextRemainder, CutoffAssumption
<1> QED  BY <1>1, <1>2, CutoffAssumption DEF Tests!WindowStart

--------------------------------------------------------------------------------
(* Appending a sample leaves the tests of the earlier positions alone. *)

LEMMA OldPositionsKeepTheirCounts ==
    ASSUME NEW h \in Seq(Bit), NEW b \in Bit, NEW i \in 1 .. Len(h)
    PROVE  Tests!AptCountAt(Append(h, b), i) = Tests!AptCountAt(h, i)
<1> DEFINE ws == Tests!WindowStart(i)
<1>1. \A j \in 1 .. Len(h) : Append(h, b)[j] = h[j]  OBVIOUS
<1>2. ws \in 1 .. i  BY WindowStartRange
<1> HIDE DEF ws
<1>3. {j \in ws .. i : Append(h, b)[j] = Append(h, b)[ws]}
        = {j \in ws .. i : h[j] = h[ws]}
  BY <1>1, <1>2
<1> QED  BY <1>3 DEF Tests!AptCountAt, ws

LEMMA OldPositionsKeepTheirTests ==
    ASSUME NEW h \in Seq(Bit), NEW b \in Bit, NEW i \in 1 .. Len(h)
    PROVE  /\ Tests!RctAt(Append(h, b), i) <=> Tests!RctAt(h, i)
           /\ Tests!AptAt(Append(h, b), i) <=> Tests!AptAt(h, i)
<1>1. \A j \in 1 .. Len(h) : Append(h, b)[j] = h[j]  OBVIOUS
<1>2. Tests!RctAt(Append(h, b), i) <=> Tests!RctAt(h, i)
  <2>1. \A j \in (i - RCT_CUTOFF + 1) .. i :
           i >= RCT_CUTOFF => j \in 1 .. Len(h)
    BY CutoffAssumption
  <2> QED  BY <1>1, <2>1 DEF Tests!RctAt
<1> QED  BY <1>2, OldPositionsKeepTheirCounts DEF Tests!AptAt

LEMMA FirstTripIsStable ==
    ASSUME NEW h \in Seq(Bit), NEW b \in Bit, NEW i \in 1 .. Len(h)
    PROVE  Tests!FirstTrip(Append(h, b), i) <=> Tests!FirstTrip(h, i)
<1>1. \A j \in 1 .. (i - 1) : j \in 1 .. Len(h)  OBVIOUS
<1> QED  BY <1>1, OldPositionsKeepTheirTests DEF Tests!FirstTrip

--------------------------------------------------------------------------------
(* The inductive invariant. *)

NothingTripped ==
    \A i \in 1 .. Len(fed) : ~ Tests!RctAt(fed, i) /\ ~ Tests!AptAt(fed, i)

VerdictTracks ==
    /\ status \notin Failed =>
         /\ NothingTripped
         /\ fed = << >> => rct_last = NO_BIT /\ apt_pos = APT_WINDOW
         /\ status = IF Len(fed) >= STARTUP_BITS THEN "ok" ELSE "warming"
    /\ status = "fail_rct" => \E i \in 1 .. Len(fed) :
         Tests!FirstTrip(fed, i) /\ Tests!RctAt(fed, i)
    /\ status = "fail_apt" => \E i \in 1 .. Len(fed) :
         Tests!FirstTrip(fed, i) /\ ~ Tests!RctAt(fed, i)

IInv == TypeOK /\ CountersTrack /\ VerdictTracks

(* RunWith(b) is the length of the run the stream ends in once b is fed. *)
LEMMA RunWithTracks ==
    ASSUME IInv, status \notin Failed, NEW b \in Bit,
           NEW h, h = Append(fed, b), NEW n, n = Len(fed) + 1
    PROVE  /\ RunWith(b) \in 1 .. n
           /\ \A j \in (n - RunWith(b) + 1) .. n : h[j] = h[n]
           /\ RunWith(b) < n => h[n - RunWith(b)] # h[n]
<1> USE DEF IInv, TypeOK
<1>1. /\ fed \in Seq(Bit) /\ Len(fed) \in Nat /\ n \in Nat \ {0}
      /\ h[n] = b /\ \A j \in 1 .. (n - 1) : h[j] = fed[j]
  OBVIOUS
<1>2. CASE fed = << >>
  <2>1. n = 1 /\ rct_last = NO_BIT  BY <1>2 DEF VerdictTracks
  <2>2. RunWith(b) = 1  BY <2>1 DEF RunWith, NO_BIT, Bit
  <2> QED  BY <2>1, <2>2, <1>1
<1>3. CASE fed # << >>
  <2>1. Len(fed) = n - 1 /\ n - 1 >= 1  BY <1>1, <1>3
  <2>2. RunTracks(n - 1)  BY <1>3, <2>1 DEF CountersTrack
  <2>3. CASE b = rct_last
    <3>1. RunWith(b) = rct_run + 1  BY <2>3 DEF RunWith
    <3>2. /\ rct_run \in 1 .. (n - 1) /\ fed[n - 1] = b
          /\ \A j \in (n - rct_run) .. (n - 1) : fed[j] = b
          /\ rct_run < n - 1 => fed[(n - 1) - rct_run] # b
      BY <1>1, <2>1, <2>2, <2>3 DEF RunTracks
    <3>3. \A j \in (n - rct_run) .. n : h[j] = b  BY <1>1, <3>2
    <3>4. rct_run < n - 1 => h[(n - 1) - rct_run] # b  BY <1>1, <3>2
    <3> QED  BY <1>1, <3>1, <3>2, <3>3, <3>4, SMTT(30)
  <2>4. CASE b # rct_last
    <3>1. RunWith(b) = 1  BY <2>4 DEF RunWith
    <3>2. h[n - 1] # b  BY <1>1, <2>1, <2>2, <2>4 DEF RunTracks
    <3> QED  BY <1>1, <2>1, <3>1, <3>2
  <2> QED  BY <2>3, <2>4
<1> QED  BY <1>2, <1>3

(* The run counter decides the Repetition Count Test of the new position. *)
LEMMA RctDecides ==
    ASSUME IInv, status \notin Failed, NEW b \in Bit,
           NEW h, h = Append(fed, b), NEW n, n = Len(fed) + 1
    PROVE  Tests!RctAt(h, n) <=> RunWith(b) >= RCT_CUTOFF
<1>1. /\ RunWith(b) \in 1 .. n
      /\ \A j \in (n - RunWith(b) + 1) .. n : h[j] = h[n]
      /\ RunWith(b) < n => h[n - RunWith(b)] # h[n]
  BY RunWithTracks
<1>2. n \in Nat \ {0}  BY DEF IInv, TypeOK
<1>3. ASSUME RunWith(b) >= RCT_CUTOFF  PROVE Tests!RctAt(h, n)
  BY <1>1, <1>2, <1>3, CutoffAssumption DEF Tests!RctAt
<1>4. ASSUME RunWith(b) < RCT_CUTOFF, Tests!RctAt(h, n)  PROVE FALSE
  <2>1. n - RunWith(b) \in (n - RCT_CUTOFF + 1) .. n /\ RunWith(b) < n
    BY <1>1, <1>2, <1>4, CutoffAssumption DEF Tests!RctAt
  <2> QED  BY <1>1, <1>4, <2>1 DEF Tests!RctAt
<1> QED  BY <1>1, <1>2, <1>3, <1>4, CutoffAssumption

(* The instance's cardinality is the usual one. *)
LEMMA SameCardinality ==
    ASSUME NEW S
    PROVE  Tests!Cardinality(S) = Cardinality(S)
BY DEF Tests!Cardinality, Cardinality

(* A window that has just opened holds one copy of its first bit. *)
LEMMA NewWindowCountsOne ==
    ASSUME NEW h, NEW n \in Nat \ {0}, Tests!WindowStart(n) = n
    PROVE  Tests!AptCountAt(h, n) = 1
<1>1. {j \in n .. n : h[j] = h[n]} = {n}  OBVIOUS
<1>2. Cardinality({n}) = 1  BY FS_Singleton
<1> QED  BY <1>1, <1>2, SameCardinality DEF Tests!AptCountAt

(* Inside a window the count grows exactly by the new bit's match. *)
LEMMA OldWindowCountsOneMore ==
    ASSUME NEW h \in Seq(Bit), NEW b \in Bit, NEW n, n = Len(h), n >= 1,
           Tests!WindowStart(n + 1) = Tests!WindowStart(n)
    PROVE  /\ Tests!AptCountAt(h, n) \in Nat
           /\ Tests!AptCountAt(Append(h, b), n + 1)
                = IF b = h[Tests!WindowStart(n)] THEN Tests!AptCountAt(h, n) + 1
                  ELSE Tests!AptCountAt(h, n)
<1> DEFINE ws == Tests!WindowStart(n)
           g  == Append(h, b)
           S  == {j \in ws .. n : h[j] = h[ws]}
           T  == {j \in ws .. (n + 1) : g[j] = g[ws]}
<1>1. n \in Nat \ {0}  OBVIOUS
<1>2. ws \in 1 .. n  BY <1>1, WindowStartRange
<1>3. g[n + 1] = b /\ \A j \in 1 .. n : g[j] = h[j]  OBVIOUS
<1>4. IsFiniteSet(S)
  <2>1. IsFiniteSet(ws .. n)  BY <1>1, <1>2, FS_Interval
  <2> QED  BY <2>1, FS_Subset
<1>5. n + 1 \notin S  BY <1>1
<1> HIDE DEF ws
<1>6. b = h[ws] => T = S \cup {n + 1}  BY <1>1, <1>2, <1>3
<1>7. b # h[ws] => T = S  BY <1>1, <1>2, <1>3
<1> HIDE DEF S, T, g
<1>8. Cardinality(S) \in Nat /\ Cardinality(S \cup {n + 1}) = Cardinality(S) + 1
  BY <1>4, <1>5, FS_AddElement, FS_CardinalityType
<1>9. /\ Tests!AptCountAt(h, n) = Cardinality(S)
      /\ Tests!AptCountAt(g, n + 1) = Cardinality(T)
  BY SameCardinality DEF Tests!AptCountAt, S, T, ws
<1> QED  BY <1>6, <1>7, <1>8, <1>9 DEF ws, g

(* The window counters decide the Adaptive Proportion Test of the new      *)
(* position, and go on tracking its window.                                *)
LEMMA WindowDecides ==
    ASSUME IInv, status \notin Failed, NEW b \in Bit,
           NEW h, h = Append(fed, b), NEW n, n = Len(fed) + 1
    PROVE  /\ WindowFull =>
                /\ Tests!WindowStart(n) = n
                /\ Tests!AptCountAt(h, n) = 1
                /\ ((n - 1) % APT_WINDOW) + 1 = 1
           /\ ~ WindowFull =>
                /\ fed # << >>
                /\ h[Tests!WindowStart(n)] = apt_a
                /\ Tests!AptCountAt(h, n) = AptCountWith(b)
                /\ ((n - 1) % APT_WINDOW) + 1 = apt_pos + 1
<1> USE DEF IInv, TypeOK
<1>1. /\ fed \in Seq(Bit) /\ Len(fed) \in Nat /\ n \in Nat \ {0}
      /\ n - 1 = Len(fed) /\ \A j \in 1 .. Len(fed) : h[j] = fed[j]
  OBVIOUS
<1>2. CASE fed = << >>
  <2>1. n = 1 /\ apt_pos = APT_WINDOW  BY <1>2 DEF VerdictTracks
  <2>2. 0 % APT_WINDOW = 0  BY CutoffAssumption
  <2>start. Tests!WindowStart(n) = n  BY <2>1, <2>2 DEF Tests!WindowStart
  <2>4. WindowFull  BY <2>1, CutoffAssumption DEF WindowFull
  <2> QED  BY <2>1, <2>2, <2>start, <2>4, <1>1, NewWindowCountsOne
<1>3. CASE fed # << >>
  <2> DEFINE m == Len(fed)
  <2>1. m \in Nat \ {0} /\ n = m + 1  BY <1>1, <1>3
  <2>2. WindowTracks(m)  BY <1>3 DEF CountersTrack
  <2>3. CASE WindowFull
    <3>1. m % APT_WINDOW = 0 /\ Tests!WindowStart(n) = n
      BY <2>1, <2>2, <2>3, NextWindow DEF WindowFull, WindowTracks
    <3> QED  BY <2>1, <2>3, <3>1, <1>1, NewWindowCountsOne
  <2>4. CASE ~ WindowFull
    <3>1. ((m - 1) % APT_WINDOW) + 1 < APT_WINDOW
      BY <2>2, <2>4, CutoffAssumption DEF WindowFull, WindowTracks
    <3>2. /\ m % APT_WINDOW = apt_pos
          /\ Tests!WindowStart(n) = Tests!WindowStart(m)
      BY <2>1, <2>2, <3>1, NextWindow DEF WindowTracks
    <3>3. Tests!WindowStart(m) \in 1 .. m  BY <2>1, WindowStartRange
    <3>4. Tests!AptCountAt(h, n) = AptCountWith(b)
      BY <2>1, <2>2, <3>2, OldWindowCountsOneMore, SMTT(30)
         DEF WindowTracks, AptCountWith
    <3>5. h[Tests!WindowStart(n)] = apt_a
      BY <1>1, <2>1, <2>2, <3>2, <3>3 DEF WindowTracks
    <3> QED  BY <1>1, <1>3, <2>1, <2>4, <3>2, <3>4, <3>5
  <2> QED  BY <2>3, <2>4
<1> QED  BY <1>2, <1>3

--------------------------------------------------------------------------------
(* Type correctness, on its own inductive. *)

THEOREM TypeCorrect == Spec => []TypeOK
<1> USE CutoffAssumption DEF TypeOK, Bit, Failed, NO_BIT
<1>1. Init => TypeOK  BY DEF Init
<1>2. TypeOK /\ [Next]_vars => TypeOK'
  <2> SUFFICES ASSUME TypeOK, [Next]_vars  PROVE TypeOK'  OBVIOUS
  <2>1. CASE Reset  BY <2>1 DEF Reset
  <2>2. ASSUME NEW bit \in Bit, FeedBit(bit)  PROVE TypeOK'
    <3>1. fed' \in Seq(Bit)  BY <2>2 DEF FeedBit
    <3>2. CASE StaysLatched
      BY <3>1, <3>2 DEF StaysLatched, rctVars, aptVars
    <3>3. CASE RctFails(bit)
      BY <3>1, <3>3 DEF RctFails, RctStep, RunWith, Larger, aptVars
    <3>4. CASE WindowOpens(bit)
      BY <3>1, <3>4
         DEF WindowOpens, RctPasses, RctStep, RunWith, Larger, Counted
    <3>5. CASE AptFails(bit)
      BY <3>1, <3>5 DEF AptFails, RctPasses, RctStep, RunWith, Larger,
                        AptStep, AptCountWith, WindowFull
    <3>6. CASE AptPasses(bit)
      BY <3>1, <3>6 DEF AptPasses, RctPasses, RctStep, RunWith, Larger,
                        AptStep, AptCountWith, WindowFull, Counted
    <3> QED  BY <2>2, <3>2, <3>3, <3>4, <3>5, <3>6 DEF FeedBit
  <2>3. CASE UNCHANGED vars  BY <2>3 DEF vars, rctVars, aptVars
  <2> QED  BY <2>1, <2>2, <2>3 DEF Next
<1> QED  BY <1>1, <1>2, PTL DEF Spec

--------------------------------------------------------------------------------
(* The inductive invariant holds initially and is kept by every way out of *)
(* nist_health_feed_bit.                                                   *)

LEMMA InitIInv == Init => IInv
BY CutoffAssumption
   DEF Init, IInv, TypeOK, CountersTrack, VerdictTracks, NothingTripped,
       Bit, Failed, NO_BIT

(* A failure, once backed by evidence, stays backed by it. *)
LEMMA EvidenceStays ==
    ASSUME IInv, NEW bit \in Bit, fed' = Append(fed, bit),
           status \in Failed, status' = status
    PROVE  VerdictTracks'
<1>1. fed \in Seq(Bit) /\ Len(fed') = Len(fed) + 1  BY DEF IInv, TypeOK
<1>2. \A i \in 1 .. Len(fed) :
        /\ i \in 1 .. Len(fed')
        /\ Tests!FirstTrip(fed', i) <=> Tests!FirstTrip(fed, i)
        /\ Tests!RctAt(fed', i) <=> Tests!RctAt(fed, i)
  BY <1>1, FirstTripIsStable, OldPositionsKeepTheirTests
<1> QED  BY <1>2 DEF IInv, VerdictTracks

(* The first position to trip is the new one when none did before it. *)
LEMMA NewTripIsFirst ==
    ASSUME IInv, status \notin Failed, NEW bit \in Bit,
           fed' = Append(fed, bit), NEW n, n = Len(fed) + 1
    PROVE  /\ n \in 1 .. Len(fed') /\ Len(fed') = n
           /\ Tests!RctAt(fed', n) \/ Tests!AptAt(fed', n)
                => Tests!FirstTrip(fed', n)
           /\ ~ Tests!RctAt(fed', n) /\ ~ Tests!AptAt(fed', n)
                => NothingTripped'
<1>1. fed \in Seq(Bit) /\ Len(fed') = n /\ n \in Nat \ {0}
  BY DEF IInv, TypeOK
<1>2. \A i \in 1 .. (n - 1) :
        ~ Tests!RctAt(fed', i) /\ ~ Tests!AptAt(fed', i)
  BY <1>1, OldPositionsKeepTheirTests DEF IInv, VerdictTracks, NothingTripped
<1>3. \A i \in 1 .. n : i = n \/ i \in 1 .. (n - 1)  BY <1>1
<1> QED  BY <1>1, <1>2, <1>3 DEF Tests!FirstTrip, NothingTripped

LEMMA FailureIsTracked ==
    ASSUME IInv, TypeOK', status \notin Failed, NEW bit \in Bit,
           fed' = Append(fed, bit), RctFails(bit) \/ AptFails(bit)
    PROVE  IInv'
<1> DEFINE n == Len(fed) + 1
<1>1. /\ n \in 1 .. Len(fed')
      /\ Tests!RctAt(fed', n) \/ Tests!AptAt(fed', n)
           => Tests!FirstTrip(fed', n)
  BY NewTripIsFirst
<1>2. Tests!RctAt(fed', n) <=> RunWith(bit) >= RCT_CUTOFF  BY RctDecides
<1>3. ~ WindowFull => Tests!AptCountAt(fed', n) = AptCountWith(bit)
  BY WindowDecides
<1> HIDE DEF n
<1>4. CASE RctFails(bit)
  <2>1. Tests!FirstTrip(fed', n) /\ Tests!RctAt(fed', n)
    BY <1>1, <1>2, <1>4 DEF RctFails
  <2>2. status' = "fail_rct"  BY <1>4 DEF RctFails
  <2> QED  BY <1>1, <2>1, <2>2 DEF IInv, CountersTrack, VerdictTracks, Failed
<1>5. CASE AptFails(bit)
  <2>1. ~ (RunWith(bit) >= RCT_CUTOFF)
    <3>1. RunWith(bit) \in Nat  BY DEF RunWith, IInv, TypeOK
    <3> QED  BY <3>1, <1>5, CutoffAssumption DEF AptFails, RctPasses
  <2>2. Tests!AptAt(fed', n)
    BY <1>3, <1>5 DEF AptFails, AptStep, Tests!AptAt
  <2>3. status' = "fail_apt"  BY <1>5 DEF AptFails
  <2> QED
    BY <1>1, <1>2, <2>1, <2>2, <2>3
       DEF IInv, CountersTrack, VerdictTracks, Failed
<1> QED  BY <1>4, <1>5

LEMMA PassingIsTracked ==
    ASSUME IInv, TypeOK', status \notin Failed, NEW bit \in Bit,
           fed' = Append(fed, bit), WindowOpens(bit) \/ AptPasses(bit),
           NEW n, n = Len(fed) + 1
    PROVE  IInv'
<1>1. /\ fed' \in Seq(Bit) /\ Len(fed') = n /\ n \in Nat \ {0}
      /\ fed' # << >> /\ fed'[n] = bit
  <2>1. fed \in Seq(Bit) /\ Len(fed) \in Nat  BY DEF IInv, TypeOK
  <2>2. Append(fed, bit) \in Seq(Bit) /\ Len(Append(fed, bit)) = Len(fed) + 1
        /\ Append(fed, bit)[Len(fed) + 1] = bit
    BY <2>1
  <2> QED  BY <2>1, <2>2
<1>2. /\ RunWith(bit) \in 1 .. n
      /\ \A j \in (n - RunWith(bit) + 1) .. n : fed'[j] = fed'[n]
      /\ RunWith(bit) < n => fed'[n - RunWith(bit)] # fed'[n]
  <2>0. PICK h : h = Append(fed, bit)  OBVIOUS
  <2>1. /\ RunWith(bit) \in 1 .. n
        /\ \A j \in (n - RunWith(bit) + 1) .. n : h[j] = h[n]
        /\ RunWith(bit) < n => h[n - RunWith(bit)] # h[n]
    BY <2>0, RunWithTracks, SMTT(30)
  <2> QED  BY <2>0, <2>1
<1>3. Tests!RctAt(fed', n) <=> RunWith(bit) >= RCT_CUTOFF  BY RctDecides
<1>4. /\ WindowFull =>
           /\ Tests!WindowStart(n) = n
           /\ Tests!AptCountAt(fed', n) = 1
           /\ ((n - 1) % APT_WINDOW) + 1 = 1
      /\ ~ WindowFull =>
           /\ fed'[Tests!WindowStart(n)] = apt_a
           /\ Tests!AptCountAt(fed', n) = AptCountWith(bit)
           /\ ((n - 1) % APT_WINDOW) + 1 = apt_pos + 1
  BY WindowDecides
<1>5. ~ Tests!RctAt(fed', n) /\ ~ Tests!AptAt(fed', n) => NothingTripped'
  BY NewTripIsFirst
<1>6. /\ rct_last' = bit /\ rct_run' = RunWith(bit)
      /\ RunWith(bit) < RCT_CUTOFF
      /\ Counted
  BY DEF WindowOpens, AptPasses, RctPasses, RctStep
<1>7. bits_seen = Len(fed) /\ bits_seen' = n
  BY <1>6 DEF IInv, CountersTrack, Counted
<1>8. RunTracks(n)'  BY <1>1, <1>2, <1>6 DEF RunTracks
<1>9. WindowTracks(n)' /\ ~ Tests!AptAt(fed', n)
  <2>1. CASE WindowOpens(bit)
    BY <1>1, <1>4, <2>1, CutoffAssumption
       DEF WindowOpens, WindowTracks, Tests!AptAt
  <2>2. CASE AptPasses(bit)
    <3>1. AptCountWith(bit) \in Nat
      BY DEF AptCountWith, IInv, TypeOK
    <3>2. /\ ~ WindowFull /\ apt_a' = apt_a /\ apt_pos' = apt_pos + 1
          /\ apt_count' = AptCountWith(bit) /\ AptCountWith(bit) < APT_CUTOFF
      BY <2>2 DEF AptPasses, AptStep
    <3>3. WindowTracks(n)'  BY <1>4, <3>2 DEF WindowTracks
    <3>4. ~ Tests!AptAt(fed', n)
      BY <1>4, <3>1, <3>2, CutoffAssumption DEF Tests!AptAt
    <3> QED  BY <3>3, <3>4
  <2> QED  BY <2>1, <2>2
<1>10. NothingTripped'
  BY <1>2, <1>3, <1>5, <1>6, <1>9, CutoffAssumption
<1>11. CountersTrack'  BY <1>1, <1>7, <1>8, <1>9 DEF CountersTrack
<1>12. status' \notin Failed
       /\ status' = IF Len(fed') >= STARTUP_BITS THEN "ok" ELSE "warming"
  BY <1>1, <1>6, <1>7, CutoffAssumption
     DEF Counted, IInv, TypeOK, VerdictTracks, Failed
<1> QED  BY <1>1, <1>10, <1>11, <1>12 DEF IInv, VerdictTracks, Failed

LEMMA NextKeepsIInv ==
    ASSUME IInv, [Next]_vars, TypeOK'
    PROVE  IInv'
<1>1. CASE Reset
  BY <1>1, CutoffAssumption
     DEF Reset, IInv, TypeOK, CountersTrack, VerdictTracks, NothingTripped,
         Bit, Failed, NO_BIT
<1>2. ASSUME NEW bit \in Bit, FeedBit(bit)  PROVE IInv'
  <2>1. fed' = Append(fed, bit)  BY <1>2 DEF FeedBit
  <2>2. CASE StaysLatched
    <3>1. status \in Failed /\ status' = status  BY <2>2 DEF StaysLatched
    <3>2. VerdictTracks'  BY <2>1, <3>1, EvidenceStays
    <3> QED  BY <3>1, <3>2 DEF IInv, CountersTrack
  <2>3. CASE RctFails(bit)
    BY <2>1, <2>3, FailureIsTracked DEF RctFails
  <2>4. CASE WindowOpens(bit)
    BY <2>1, <2>4, PassingIsTracked DEF WindowOpens, RctPasses
  <2>5. CASE AptFails(bit)
    BY <2>1, <2>5, FailureIsTracked DEF AptFails, RctPasses
  <2>6. CASE AptPasses(bit)
    BY <2>1, <2>6, PassingIsTracked DEF AptPasses, RctPasses
  <2> QED  BY <1>2, <2>2, <2>3, <2>4, <2>5, <2>6 DEF FeedBit
<1>3. CASE UNCHANGED vars
  BY <1>3 DEF vars, rctVars, aptVars, IInv, TypeOK, CountersTrack, RunTracks,
              WindowTracks, VerdictTracks, NothingTripped
<1> QED  BY <1>1, <1>2, <1>3 DEF Next

(* The counters of nist_health.c always describe the bits fed so far: the  *)
(* run the stream ends in and the window it is in.                         *)
THEOREM CountersAlwaysTrack == Spec => [](IInv /\ CountersTrack)
<1>1. Init => IInv  BY InitIInv
<1>2. IInv /\ TypeOK' /\ [Next]_vars => IInv'  BY NextKeepsIInv
<1>3. IInv => CountersTrack  BY DEF IInv
<1> QED  BY <1>1, <1>2, <1>3, TypeCorrect, PTL DEF Spec

--------------------------------------------------------------------------------
(* The status is the verdict of the definition. *)

LEMMA VerdictIsDetermined ==
    ASSUME NEW h \in Seq(Bit), NEW s \in {"warming", "ok"} \cup Failed,
           s \notin Failed =>
             /\ \A i \in 1 .. Len(h) : ~ Tests!RctAt(h, i) /\ ~ Tests!AptAt(h, i)
             /\ s = IF Len(h) >= STARTUP_BITS THEN "ok" ELSE "warming",
           s = "fail_rct" => \E i \in 1 .. Len(h) :
             Tests!FirstTrip(h, i) /\ Tests!RctAt(h, i),
           s = "fail_apt" => \E i \in 1 .. Len(h) :
             Tests!FirstTrip(h, i) /\ ~ Tests!RctAt(h, i)
    PROVE  s = Tests!VerdictOn(h)
<1>1. DOMAIN h = 1 .. Len(h)  OBVIOUS
<1>2. ASSUME NEW i \in 1 .. Len(h), NEW j \in 1 .. Len(h),
             Tests!FirstTrip(h, i), Tests!FirstTrip(h, j)
      PROVE  i = j
  <2>1. ~ (i < j) /\ ~ (j < i)
    BY <1>2 DEF Tests!FirstTrip
  <2> QED  BY <2>1
<1>3. CASE s \notin Failed
  <2>1. \A i \in DOMAIN h : ~ Tests!FirstTrip(h, i)
    BY <1>1, <1>3 DEF Tests!FirstTrip
  <2> QED  BY <1>3, <2>1 DEF Tests!VerdictOn
<1>4. CASE s = "fail_rct"  BY <1>1, <1>4 DEF Tests!VerdictOn
<1>5. CASE s = "fail_apt"
  <2>1. PICK i \in 1 .. Len(h) : Tests!FirstTrip(h, i) /\ ~ Tests!RctAt(h, i)
    BY <1>5
  <2>2. ~ \E j \in DOMAIN h : Tests!FirstTrip(h, j) /\ Tests!RctAt(h, j)
    BY <1>1, <1>2, <2>1
  <2> QED  BY <1>1, <1>5, <2>1, <2>2 DEF Tests!VerdictOn
<1> QED  BY <1>3, <1>4, <1>5 DEF Failed

(* The incremental tests of nist_health.c implement the definition of the  *)
(* SP 800-90B tests: initially, and at every bit fed and every reset, the  *)
(* status is the definition's verdict on the bits fed since the reset.     *)
THEOREM ImplementsTheTests == Spec => Implements90B
<1>1. Init => Tests!Init  BY DEF Init, Tests!Init
<1>2. IInv' /\ [Next]_vars => [Tests!Next]_<<fed, status>>
  <2> SUFFICES ASSUME IInv', [Next]_vars
               PROVE  [Tests!Next]_<<fed, status>>
    OBVIOUS
  <2>1. status' = Tests!VerdictOn(fed')
    <3>1. fed' \in Seq(Bit) /\ status' \in {"warming", "ok"} \cup Failed
      BY DEF IInv, TypeOK
    <3> QED
      BY <3>1, VerdictIsDetermined DEF IInv, VerdictTracks, NothingTripped
  <2>2. CASE Reset  BY <2>2 DEF Reset, Tests!Next, Tests!Reset
  <2>3. ASSUME NEW bit \in Bit, FeedBit(bit)  PROVE Tests!Next
    BY <2>1, <2>3 DEF FeedBit, Tests!Next, Tests!Feed, Bit, Tests!Bit
  <2>4. CASE UNCHANGED vars  BY <2>4 DEF vars
  <2> QED  BY <2>2, <2>3, <2>4 DEF Next
<1> QED
  BY <1>1, <1>2, CountersAlwaysTrack, PTL DEF Spec, Implements90B, Tests!Spec

--------------------------------------------------------------------------------
(* The statistics. *)

(* What LongestRun chooses. *)
IsLongest(n, m) ==
    /\ m \in 0 .. n
    /\ m # 0 => \E i \in 1 .. (n - m + 1) : Run(i, i + m - 1)
    /\ \A i \in 1 .. n : \A j \in i .. n : Run(i, j) => j - i + 1 <= m

(* The windows completed before position n. *)
LeftWindowEnds(n) == {i \in 1 .. (n - 1) : i % APT_WINDOW = 0}

IsLargestCount(n) == LargestCount(apt_max, LeftWindowEnds(n))

(* What the counters say of the bits looked at. *)
SeenBits == IF status \in Failed THEN bits_seen + 1 ELSE bits_seen

WindowBits == IF status = "fail_rct" THEN SeenBits - 1 ELSE SeenBits

(* The inductive invariant of the statistics. *)
StatsTrack ==
    /\ status \notin Failed /\ fed = << >> => apt_count = 0
    /\ status \in Failed => /\ bits_seen + 1 <= Len(fed)
                            /\ Tests!FirstTrip(fed, bits_seen + 1)
    /\ IsLongest(SeenBits, rct_max)
    /\ IsLargestCount(WindowBits)

(* There is one longest run: the other candidate would be longer or shorter. *)
LEMMA LongestIsUnique ==
    ASSUME NEW n \in Nat, NEW m, IsLongest(n, m)
    PROVE  LongestRun(n) = m
<1>1. ASSUME NEW k \in 0 .. n, IsLongest(n, k)  PROVE k = m
  <2>1. ASSUME NEW x \in 0 .. n, NEW y \in 0 .. n, IsLongest(n, x), IsLongest(n, y)
        PROVE  x <= y
    <3>1. CASE x = 0  BY <3>1
    <3>2. CASE x # 0
      <4>1. PICK i \in 1 .. (n - x + 1) : Run(i, i + x - 1)
        BY <2>1, <3>2 DEF IsLongest
      <4>2. i \in 1 .. n /\ i + x - 1 \in i .. n /\ (i + x - 1) - i + 1 = x
        BY <3>2
      <4> QED  BY <2>1, <4>1, <4>2 DEF IsLongest
    <3> QED  BY <3>1, <3>2
  <2>2. m \in 0 .. n  BY DEF IsLongest
  <2>3. k <= m /\ m <= k  BY <1>1, <2>1, <2>2
  <2> QED  BY <2>2, <2>3
<1>2. m \in 0 .. n  BY DEF IsLongest
<1>3. LongestRun(n) = CHOOSE k \in 0 .. n : IsLongest(n, k)
  BY DEF LongestRun, IsLongest
<1> QED  BY <1>1, <1>2, <1>3

(* Appending a bit leaves the runs and the windows of old positions alone. *)
LEMMA OldStatisticsStay ==
    ASSUME fed \in Seq(Bit), NEW bit \in Bit, fed' = Append(fed, bit),
           NEW n \in 0 .. Len(fed), NEW m
    PROVE  /\ IsLongest(n, m) => IsLongest(n, m)'
           /\ apt_max' = apt_max /\ IsLargestCount(n) => IsLargestCount(n)'
<1>1. \A k \in 1 .. n : fed'[k] = fed[k]  OBVIOUS
<1>2. \A i \in 1 .. n : \A j \in i .. n : Run(i, j)' <=> Run(i, j)
  BY <1>1 DEF Run
<1>3. ASSUME IsLongest(n, m)  PROVE IsLongest(n, m)'
  <2>1. m \in 0 .. n  BY <1>3 DEF IsLongest
  <2>2. \A i \in 1 .. (n - m + 1) :
          m # 0 => i \in 1 .. n /\ (i + m - 1) \in i .. n
    BY <2>1
  <2>3. m # 0 => \E i \in 1 .. (n - m + 1) : Run(i, i + m - 1)'
    BY <1>2, <1>3, <2>2 DEF IsLongest
  <2> QED  BY <1>2, <1>3, <2>1, <2>3 DEF IsLongest
<1>4. \A i \in LeftWindowEnds(n) :
        Tests!AptCountAt(fed', i) = Tests!AptCountAt(fed, i)
  BY OldPositionsKeepTheirCounts DEF LeftWindowEnds
<1>5. LeftWindowEnds(n)' = LeftWindowEnds(n)  BY DEF LeftWindowEnds
<1> QED  BY <1>3, <1>4, <1>5 DEF IsLargestCount, LargestCount

(* With a bit that was tested for repetition the longest run is known. *)
LEMMA LongestGrows ==
    ASSUME IInv, StatsTrack, status \notin Failed, NEW bit \in Bit,
           fed' = Append(fed, bit), RctStep(bit), NEW n, n = Len(fed) + 1
    PROVE  IsLongest(n, rct_max)'
<1>0. PICK r, new : r = RunWith(bit) /\ new = rct_max'  OBVIOUS
<1>1. /\ fed \in Seq(Bit) /\ n \in Nat \ {0} /\ n - 1 = Len(fed)
      /\ rct_max \in Nat /\ fed' \in Seq(Bit)
  BY DEF IInv, TypeOK
<1>2. /\ r \in 1 .. n
      /\ \A j \in (n - r + 1) .. n : fed'[j] = fed'[n]
      /\ r < n => fed'[n - r] # fed'[n]
  <2>1. PICK h : h = Append(fed, bit)  OBVIOUS
  <2>2. /\ RunWith(bit) \in 1 .. n
        /\ \A j \in (n - RunWith(bit) + 1) .. n : h[j] = h[n]
        /\ RunWith(bit) < n => h[n - RunWith(bit)] # h[n]
    BY <2>1, RunWithTracks
  <2> QED  BY <1>0, <2>1, <2>2
<1>3. new = Larger(rct_max, r)  BY <1>0 DEF RctStep
<1>4. PICK old : old = rct_max  OBVIOUS
<1>5. IsLongest(n - 1, old)'
  <2>1. IsLongest(n - 1, old)
    BY <1>1, <1>4 DEF StatsTrack, SeenBits, IInv, CountersTrack
  <2> QED  BY <1>1, <2>1, OldStatisticsStay
<1>6. old \in 0 .. (n - 1) /\ new = IF old > r THEN old ELSE r
  BY <1>1, <1>3, <1>4, <1>5 DEF IsLongest, Larger
<1>7. new # 0 => \E i \in 1 .. (n - new + 1) : Run(i, i + new - 1)'
  <2>1. CASE old > r
    <3>1. PICK i \in 1 .. ((n - 1) - old + 1) : Run(i, i + old - 1)'
      BY <1>2, <1>5, <2>1 DEF IsLongest
    <3>2. i \in 1 .. (n - old + 1)  BY <1>1, <1>6
    <3> QED  BY <1>6, <2>1, <3>1, <3>2
  <2>2. CASE ~ (old > r)
    <3>1. n - r + 1 \in 1 .. (n - r + 1) /\ (n - r + 1) + r - 1 = n
      BY <1>1, <1>2
    <3>2. Run(n - r + 1, n)'  BY <1>1, <1>2 DEF Run
    <3>3. new = r  BY <1>6, <2>2
    <3> QED  BY <3>1, <3>2, <3>3
  <2> QED  BY <2>1, <2>2
<1>8. ASSUME NEW i \in 1 .. n, NEW j \in i .. n, Run(i, j)'
      PROVE  j - i + 1 <= new
  <2>1. CASE j < n
    <3>1. i \in 1 .. (n - 1) /\ j \in i .. (n - 1)  BY <1>1, <2>1
    <3>2. j - i + 1 <= old  BY <1>5, <1>8, <3>1 DEF IsLongest
    <3> QED  BY <1>1, <1>2, <1>6, <3>2
  <2>2. CASE j = n
    <3>1. ~ (i <= n - r)
      <4> SUFFICES ASSUME i <= n - r  PROVE FALSE  OBVIOUS
      <4>1. n - r \in i .. j /\ n \in i .. j /\ r < n  BY <1>1, <1>2, <2>2
      <4>2. fed'[n - r] = fed'[i] /\ fed'[n] = fed'[i]  BY <1>8, <4>1 DEF Run
      <4> QED  BY <1>2, <4>1, <4>2
    <3> QED  BY <1>1, <1>2, <1>6, <2>2, <3>1
  <2> QED  BY <1>1, <2>1, <2>2
<1> QED  BY <1>0, <1>1, <1>2, <1>6, <1>7, <1>8 DEF IsLongest

LEMMA CountIsNat ==
    ASSUME NEW h, NEW i \in Nat \ {0}
    PROVE  Tests!AptCountAt(h, i) \in Nat
<1>1. Tests!WindowStart(i) \in 1 .. i  BY WindowStartRange
<1>2. IsFiniteSet(Tests!WindowStart(i) .. i)  BY <1>1, FS_Interval
<1>3. {j \in Tests!WindowStart(i) .. i : h[j] = h[Tests!WindowStart(i)]}
        \in SUBSET (Tests!WindowStart(i) .. i)
  OBVIOUS
<1> QED  BY <1>2, <1>3, FS_Subset, FS_CardinalityType, SameCardinality DEF Tests!AptCountAt

(* A closed window's count is taken over when the next window opens. *)
LEMMA LargestGrows ==
    ASSUME IInv, StatsTrack, status \notin Failed, NEW bit \in Bit,
           fed' = Append(fed, bit), NEW n, n = Len(fed) + 1,
           WindowOpens(bit) \/ AptStep(bit)
    PROVE  IsLargestCount(n)'
<1>1. /\ fed \in Seq(Bit) /\ n \in Nat \ {0} /\ n - 1 = Len(fed)
      /\ apt_max \in Nat /\ apt_count \in Nat
  BY DEF IInv, TypeOK
<1>2. IsLargestCount(n - 1)
  BY <1>1 DEF StatsTrack, WindowBits, SeenBits, IInv, CountersTrack, Failed
<1>3. \A i \in LeftWindowEnds(n) :
        Tests!AptCountAt(fed', i) = Tests!AptCountAt(fed, i)
  BY <1>1, OldPositionsKeepTheirCounts DEF LeftWindowEnds
<1>4. fed # << >> =>
        /\ n - 1 \in Nat \ {0}
        /\ apt_pos = (((n - 1) - 1) % APT_WINDOW) + 1
        /\ apt_count = Tests!AptCountAt(fed, n - 1)
  BY <1>1 DEF IInv, CountersTrack, WindowTracks
<1>5. CASE WindowOpens(bit)
  <2>1. apt_max' = IF apt_max > apt_count THEN apt_max ELSE apt_count
    BY <1>5 DEF WindowOpens, Larger
  <2>2. CASE fed = << >>
    <3>1. LeftWindowEnds(n) = {} /\ LeftWindowEnds(n - 1) = {}
      BY <1>1, <2>2 DEF LeftWindowEnds
    <3>2. apt_max = 0 /\ apt_count = 0
      BY <1>2, <2>2, <3>1 DEF StatsTrack, IsLargestCount, LargestCount
    <3> QED  BY <2>1, <3>1, <3>2 DEF IsLargestCount, LargestCount, LeftWindowEnds
  <2>3. CASE fed # << >>
    <3>1. (n - 1) % APT_WINDOW = 0
      BY <1>4, <1>5, <2>3, NextWindow DEF WindowOpens, WindowFull
    <3>2. LeftWindowEnds(n) = LeftWindowEnds(n - 1) \cup {n - 1}
      BY <1>1, <1>4, <2>3, <3>1 DEF LeftWindowEnds
    <3>3. \A i \in LeftWindowEnds(n - 1) : Tests!AptCountAt(fed', i) <= apt_max
      BY <1>2, <1>3, <3>2 DEF IsLargestCount, LargestCount
    <3>4. Tests!AptCountAt(fed', n - 1) = apt_count  BY <1>3, <1>4, <2>3, <3>2
    <3>5. \A i \in LeftWindowEnds(n) : Tests!AptCountAt(fed', i) <= apt_max'
      <4>1. \A i \in LeftWindowEnds(n - 1) : Tests!AptCountAt(fed', i) \in Nat
        BY CountIsNat DEF LeftWindowEnds
      <4> QED  BY <1>1, <2>1, <3>2, <3>3, <3>4, <4>1
    <3>6. apt_max # 0 => \E i \in LeftWindowEnds(n) : Tests!AptCountAt(fed', i) = apt_max
      BY <1>2, <1>3, <3>2 DEF IsLargestCount, LargestCount
    <3>7. apt_max' # 0 => \E i \in LeftWindowEnds(n) : Tests!AptCountAt(fed', i) = apt_max'
      BY <2>1, <3>2, <3>4, <3>6
    <3> QED  BY <3>5, <3>7 DEF IsLargestCount, LargestCount, LeftWindowEnds
  <2> QED  BY <2>2, <2>3
<1>6. CASE AptStep(bit)
  <2>1. apt_max' = apt_max /\ ~ WindowFull  BY <1>6 DEF AptStep
  <2>2. fed # << >>
    BY <2>1, CutoffAssumption DEF WindowFull, IInv, TypeOK, VerdictTracks
  <2>3. (n - 1) % APT_WINDOW = (((n - 1) - 1) % APT_WINDOW) + 1
    BY <1>1, <1>4, <2>1, <2>2, NextWindow, CutoffAssumption DEF WindowFull
  <2>4. (n - 1) % APT_WINDOW # 0
    <3>1. (n - 1) - 1 \in Nat  BY <1>4, <2>2
    <3>2. ((n - 1) - 1) % APT_WINDOW \in Nat  BY <3>1, NextRemainder, CutoffAssumption
    <3> QED  BY <2>3, <3>2
  <2>5. LeftWindowEnds(n) = LeftWindowEnds(n - 1)
    BY <1>1, <2>4 DEF LeftWindowEnds
  <2> QED
    BY <1>2, <1>3, <2>1, <2>5 DEF IsLargestCount, LargestCount, LeftWindowEnds
<1> QED  BY <1>5, <1>6

(* The bit that latches a failure is the first to trip. *)
LEMMA LatchedByFirstTrip ==
    ASSUME IInv, IInv', NEW bit \in Bit, fed' = Append(fed, bit),
           status \notin Failed, status' \in Failed, NEW n, n = Len(fed) + 1
    PROVE  Tests!FirstTrip(fed', n)
<1>1. fed \in Seq(Bit) /\ Len(fed') = n /\ n \in Nat \ {0}
  BY DEF IInv, TypeOK
<1>2. PICK i \in 1 .. Len(fed') : Tests!FirstTrip(fed', i)
  BY DEF IInv, VerdictTracks, Failed
<1>3. CASE i \in 1 .. Len(fed)
  <2>1. Tests!FirstTrip(fed, i)  BY <1>1, <1>2, <1>3, FirstTripIsStable
  <2> QED
    BY <1>3, <2>1 DEF IInv, VerdictTracks, NothingTripped, Tests!FirstTrip
<1>4. CASE i = n  BY <1>2, <1>4
<1> QED  BY <1>1, <1>3, <1>4

LEMMA InitStatsTrack == Init => StatsTrack
BY CutoffAssumption
   DEF Init, StatsTrack, IsLongest, IsLargestCount, LargestCount, LeftWindowEnds,
       WindowBits, SeenBits, Failed

LEMMA NextKeepsStatsTrack ==
    ASSUME IInv, StatsTrack, [Next]_vars, IInv'
    PROVE  StatsTrack'
<1>1. CASE Reset
  <2>1. /\ status' = "warming" /\ bits_seen' = 0 /\ rct_max' = 0
        /\ apt_count' = 0 /\ apt_max' = 0
    BY <1>1 DEF Reset
  <2> QED
    BY <2>1 DEF StatsTrack, IsLongest, IsLargestCount, LargestCount, LeftWindowEnds,
                WindowBits, SeenBits, Failed
<1>2. ASSUME NEW bit \in Bit, FeedBit(bit)  PROVE StatsTrack'
  <2>1. /\ fed' = Append(fed, bit) /\ fed' # << >>
        /\ fed \in Seq(Bit) /\ Len(fed) \in Nat /\ Len(fed') = Len(fed) + 1
        /\ bits_seen \in Nat
    <3>1. fed' = Append(fed, bit)  BY <1>2 DEF FeedBit
    <3>2. fed \in Seq(Bit) /\ bits_seen \in Nat  BY DEF IInv, TypeOK
    <3> QED  BY <3>1, <3>2
  <2>2. PICK n : n = Len(fed) + 1  OBVIOUS
  <2>3. status \notin Failed => bits_seen = Len(fed)  BY DEF IInv, CountersTrack
  <2>4. CASE StaysLatched
    <3>1. status \in Failed /\ UNCHANGED <<status, bits_seen, rct_max, apt_max>>
      BY <2>4 DEF StaysLatched, rctVars, aptVars
    <3>2. PICK t, m, w : t = SeenBits /\ m = rct_max /\ w = WindowBits  OBVIOUS
    <3>3. t \in 0 .. Len(fed) /\ w \in 0 .. Len(fed)
      BY <2>1, <3>1, <3>2 DEF StatsTrack, SeenBits, WindowBits
    <3>4. IsLongest(t, m)' /\ IsLargestCount(w)'
      BY <2>1, <3>1, <3>2, <3>3, OldStatisticsStay DEF StatsTrack
    <3>5. t = SeenBits' /\ m = rct_max' /\ w = WindowBits'
      BY <3>1, <3>2 DEF SeenBits, WindowBits
    <3>6. bits_seen + 1 \in 1 .. Len(fed) /\ Tests!FirstTrip(fed, bits_seen + 1)
      BY <2>1, <3>1 DEF StatsTrack
    <3>7. Tests!FirstTrip(fed', bits_seen' + 1)
      BY <2>1, <3>1, <3>6, FirstTripIsStable
    <3> QED  BY <2>1, <3>1, <3>4, <3>5, <3>6, <3>7 DEF StatsTrack
  <2>5. CASE RctFails(bit)
    <3>1. /\ status \notin Failed /\ status' = "fail_rct" /\ RctStep(bit)
          /\ bits_seen' = bits_seen /\ apt_max' = apt_max
      BY <2>5 DEF RctFails, aptVars
    <3>2. IsLongest(n, rct_max)'  BY <2>1, <2>2, <3>1, LongestGrows
    <3>3. n - 1 \in 0 .. Len(fed) /\ n - 1 = WindowBits
      BY <2>1, <2>2, <2>3, <3>1 DEF WindowBits, SeenBits, Failed
    <3>4. IsLargestCount(n - 1)'
      BY <2>1, <3>1, <3>3, OldStatisticsStay DEF StatsTrack
    <3>5. n = SeenBits' /\ n - 1 = WindowBits'
      BY <2>1, <2>2, <2>3, <3>1 DEF SeenBits, WindowBits, Failed
    <3>6. Tests!FirstTrip(fed', n)
      BY <2>1, <2>2, <3>1, LatchedByFirstTrip DEF Failed
    <3> QED  BY <2>1, <2>2, <2>3, <3>1, <3>2, <3>4, <3>5, <3>6 DEF StatsTrack
  <2>6. CASE AptFails(bit)
    <3>1. /\ status \notin Failed /\ status' = "fail_apt" /\ RctStep(bit)
          /\ bits_seen' = bits_seen /\ AptStep(bit)
      BY <2>6 DEF AptFails, RctPasses
    <3>2. IsLongest(n, rct_max)'  BY <2>1, <2>2, <3>1, LongestGrows
    <3>3. IsLargestCount(n)'  BY <2>1, <2>2, <3>1, LargestGrows
    <3>4. n = SeenBits' /\ n = WindowBits'
      BY <2>1, <2>2, <2>3, <3>1 DEF SeenBits, WindowBits, Failed
    <3>5. Tests!FirstTrip(fed', n)
      BY <2>1, <2>2, <3>1, LatchedByFirstTrip DEF Failed
    <3> QED  BY <2>1, <2>2, <2>3, <3>1, <3>2, <3>3, <3>4, <3>5 DEF StatsTrack
  <2>7. CASE WindowOpens(bit) \/ AptPasses(bit)
    <3>1. /\ status \notin Failed /\ RctStep(bit) /\ Counted
          /\ WindowOpens(bit) \/ AptStep(bit)
      BY <2>7 DEF WindowOpens, AptPasses, RctPasses
    <3>2. IsLongest(n, rct_max)'  BY <2>1, <2>2, <3>1, LongestGrows
    <3>3. IsLargestCount(n)'  BY <2>1, <2>2, <3>1, LargestGrows
    <3>4. status' \notin Failed  BY <3>1 DEF Counted, Failed
    <3>5. n = SeenBits' /\ n = WindowBits'
      BY <2>1, <2>2, <2>3, <3>1, <3>4 DEF SeenBits, WindowBits, Counted, Failed
    <3> QED  BY <2>1, <3>2, <3>3, <3>4, <3>5 DEF StatsTrack
  <2> QED  BY <1>2, <2>4, <2>5, <2>6, <2>7 DEF FeedBit
<1>3. CASE UNCHANGED vars
  BY <1>3 DEF vars, rctVars, aptVars, StatsTrack, IsLongest, IsLargestCount, Run, LargestCount,
              LeftWindowEnds, WindowBits, SeenBits
<1> QED  BY <1>1, <1>2, <1>3 DEF Next

(* Only one bit can be the first to trip. *)
LEMMA SeenAreTested ==
    ASSUME IInv, StatsTrack
    PROVE  SeenBits = TestedBits
<1>1. CASE status \notin Failed
  BY <1>1 DEF IInv, CountersTrack, SeenBits, TestedBits
<1>2. CASE status \in Failed
  <2>1. fed \in Seq(Bit) /\ bits_seen \in Nat  BY DEF IInv, TypeOK
  <2>2. bits_seen + 1 \in 1 .. Len(fed) /\ DOMAIN fed = 1 .. Len(fed)
    BY <1>2, <2>1 DEF StatsTrack
  <2>3. Tests!FirstTrip(fed, bits_seen + 1)
    BY <1>2 DEF StatsTrack
  <2>4. ASSUME NEW i \in 1 .. Len(fed), Tests!FirstTrip(fed, i)
        PROVE  i = bits_seen + 1
    <3>1. ~ (i < bits_seen + 1) /\ ~ (bits_seen + 1 < i)
      BY <2>1, <2>2, <2>3, <2>4 DEF Tests!FirstTrip
    <3> QED  BY <2>1, <3>1
  <2> QED  BY <1>2, <2>2, <2>3, <2>4 DEF SeenBits, TestedBits
<1> QED  BY <1>1, <1>2

(* The statistics that STATUS reports are what nist_health.h:55-57 says,   *)
(* but for the exceptions StatsExact names: bits_seen stops short of the   *)
(* bit that trips a test, rct_max is the longest run up to that bit, and   *)
(* apt_max the largest count of the completed windows without the one that *)
(* ends in the last bit the APT saw.                                       *)
THEOREM StatsAlwaysExact == Spec => []StatsExact
<1>1. Init => StatsTrack  BY InitStatsTrack
<1>2. IInv /\ StatsTrack /\ IInv' /\ [Next]_vars => StatsTrack'
  BY NextKeepsStatsTrack
<1>3. IInv /\ StatsTrack => StatsExact
  <2> SUFFICES ASSUME IInv, StatsTrack  PROVE StatsExact  OBVIOUS
  <2>1. SeenBits \in Nat /\ bits_seen \in Nat  BY DEF SeenBits, IInv, TypeOK
  <2>2. rct_max = LongestRun(SeenBits)  BY <2>1, LongestIsUnique DEF StatsTrack
  <2>3. SeenBits = TestedBits  BY SeenAreTested
  <2>4. bits_seen = IF status \in Failed THEN SeenBits - 1 ELSE SeenBits
    BY <2>1 DEF SeenBits
  <2>5. WindowBits \in Int /\ LargestCount(apt_max, LeftWindowEnds(WindowBits))
    BY <2>1 DEF StatsTrack, IsLargestCount, WindowBits
  <2>6. LeftWindowEnds(WindowBits) = CompletedWindowEnds(WindowBits) \ {WindowBits}
    BY <2>5 DEF LeftWindowEnds, CompletedWindowEnds
  <2> QED  BY <2>2, <2>3, <2>4, <2>5, <2>6 DEF StatsExact, WindowBits
<1> QED  BY <1>1, <1>2, <1>3, CountersAlwaysTrack, PTL DEF Spec
================================================================================
