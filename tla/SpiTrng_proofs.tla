------------------------------ MODULE SpiTrng_proofs ------------------------------
(***************************************************************************)
(* The path of a bit from the FPGA to the RP2040, for every clock ratio    *)
(* from four cycles in half a period on, and every size of bytes, FIFOs    *)
(* and reads.  The argument has two parts.  Clocked says where the last    *)
(* edge of SCK is in the synchroniser as a function of the cycles since,   *)
(* so that a bit is latched anew before it is sampled.  Balanced counts    *)
(* what is under way between spi_pio_read and the wires: one byte inside   *)
(* get, none outside, so that nothing outlives a read that has not timed   *)
(* out.                                                                    *)
(***************************************************************************)
EXTENDS SpiTrng, TLAPS

Sample == {"reset", "fresh", "late"}
Filler == {"zero", "unset"}

(* What the buffers hold. *)
Contents ==
    /\ isr \in Seq(Sample) /\ rx \in Seq(Seq(Sample))
    /\ dst \in Seq(Seq(Sample \cup Filler))
    /\ Len(dst) = i - 1
    /\ i <= LENGTH => dst \in Seq(Seq(Sample))
    /\ pc = "get" => i <= LENGTH
    /\ pc = "idle" => i = 1
    /\ ~ attached => pc = "idle"

(* Where the last edge of SCK is. *)
HighSeen ==
    /\ since >= 2 => sck_sync[0] = 1
    /\ since >= 3 => sck_sync[1] = 1
    /\ since >= 4 => sck_sync[2] = 1

FallUnderWay ==
    /\ since <= 3 /\ sck_sync[2] = 1
    /\ since = 0 => sck_sync[0] = 1
    /\ since <= 1 => sck_sync[1] = 1
    /\ since >= 2 => sck_sync[0] = 0
    /\ since = 3 => sck_sync[1] = 0

Clocked ==
    /\ moved => since = 0
    /\ at = "in" => sck = 0
    /\ attached => Resetn
    /\ ~ attached => so # "used"
    /\ attached /\ sck = 1 => HighSeen
    /\ sck = 0 /\ so = "used" => FallUnderWay

(* What is under way between the CPU and the wires. *)
Nothing   == tx = 0 /\ osr = 0 /\ isr = << >> /\ at = "out" /\ rx = << >>
ByteToGo  == tx = 1 /\ osr = 0 /\ isr = << >> /\ at = "out" /\ rx = << >>
BitOut    == tx = 0 /\ rx = << >> /\ at = "in"  /\ osr + 1 + Len(isr) = BITS
BitIn     == tx = 0 /\ rx = << >> /\ at = "out" /\ osr + Len(isr) = BITS /\ osr > 0
ByteThere == tx = 0 /\ osr = 0 /\ isr = << >> /\ at = "out" /\ Len(rx) = 1

Current == Seq(Sample \ {"late"})

Balanced ==
    attached /\ ~ late =>
        /\ IF pc = "get" THEN ByteToGo \/ BitOut \/ BitIn \/ ByteThere ELSE Nothing
        /\ isr \in Current /\ rx \in Seq(Current) /\ dst \in Seq(Current)

IInv == TypeOK /\ Contents /\ Clocked /\ Balanced

--------------------------------------------------------------------------------
(* Initially *)

LEMMA EmptySequence == Len(<< >>) = 0 /\ \A S : << >> \in Seq(S)
OBVIOUS

LEMMA InitIInv == Init => IInv
<1> SUFFICES ASSUME Init  PROVE IInv  OBVIOUS
<1>2. TypeOK
  <2>1. Len(isr) = 0 /\ Len(rx) = 0 /\ Len(dst) = 0  BY EmptySequence DEF Init
  <2>2. sck_sync \in [0 .. 2 -> {0, 1}]  BY DEF Init
  <2>3. Len(isr) < BITS /\ Len(rx) <= DEPTH /\ Len(dst) <= LENGTH  BY <2>1, SpiAssumption
  <2>4. /\ osr \in 0 .. BITS /\ tx \in 0 .. DEPTH 
        /\ i \in 1 .. (LENGTH + 1) /\ since \in 0 .. HALF /\ reset_cnt \in 0 .. RESET
    BY SpiAssumption DEF Init
  <2> QED  BY <2>2, <2>3, <2>4 DEF Init, TypeOK
<1>3. Contents
  <2>1. isr \in Seq(Sample) /\ rx \in Seq(Seq(Sample))  BY EmptySequence DEF Init
  <2>2. dst \in Seq(Seq(Sample \cup Filler)) /\ dst \in Seq(Seq(Sample)) /\ Len(dst) = i - 1
    BY EmptySequence DEF Init
  <2> QED  BY <2>1, <2>2 DEF Init, Contents
<1>4. Clocked  BY DEF Init, Clocked
<1>5. Balanced  BY DEF Init, Balanced
<1> QED  BY <1>2, <1>3, <1>4, <1>5 DEF IInv

--------------------------------------------------------------------------------
(* The clocks: no action samples a bit twice. *)

LEMMA DueIsSettled ==
    ASSUME IInv, attached, Due
    PROVE  /\ sck = 1 => sck_sync[0] = 1 /\ sck_sync[1] = 1 /\ sck_sync[2] = 1
           /\ sck = 0 => so # "used"
BY SpiAssumption DEF IInv, TypeOK, Clocked, HighSeen, FallUnderWay, Due

LEMMA ClkKeepsClocked ==
    ASSUME IInv, Clk
    PROVE  Clocked'
<1> USE SpiAssumption DEF IInv, TypeOK
<1>1. /\ moved' = FALSE /\ since' = Smaller(since + 1, HALF)
      /\ UNCHANGED <<sck, at, attached>>
      /\ reset_cnt' = Smaller(reset_cnt + 1, RESET)
      /\ so' = IF ~ Resetn THEN "reset" ELSE IF SckFalling THEN "fresh" ELSE so
  BY DEF Clk, pioVars, cpuVars
<1>2. PICK level \in {sck} \cup (IF moved THEN {1 - sck} ELSE {}) :
        sck_sync' = IF Resetn THEN [k \in 0 .. 2 |-> IF k = 0 THEN level ELSE sck_sync[k - 1]]
                    ELSE [k \in 0 .. 2 |-> 0]
  BY DEF Clk
<1>3. Resetn => /\ sck_sync'[0] = level
                /\ sck_sync'[1] = sck_sync[0] /\ sck_sync'[2] = sck_sync[1]
  BY <1>2
<1>4. since > 0 => level = sck  BY <1>2 DEF Clocked
<1>5. since' = IF since = HALF THEN HALF ELSE since + 1  BY <1>1 DEF Smaller
<1>6. attached => Resetn /\ Resetn'  BY <1>1 DEF Clocked, Resetn, Smaller
<1>7. ~ attached => so' # "used"  BY <1>1 DEF Clocked
<1>8. attached /\ sck = 1 => HighSeen'
  BY <1>3, <1>4, <1>5, <1>6 DEF Clocked, HighSeen
<1>9. sck = 0 /\ so' = "used" => FallUnderWay'
  BY <1>1, <1>3, <1>4, <1>5, <1>6, SMTT(30) DEF Clocked, FallUnderWay, SckFalling
<1> QED  BY <1>1, <1>6, <1>7, <1>8, <1>9 DEF Clocked

LEMMA StepKeepsClocked ==
    ASSUME IInv, Out \/ In
    PROVE  Clocked'
<1> USE SpiAssumption DEF IInv, TypeOK
<1>1. CASE Out
  <2>1. /\ attached /\ Due /\ sck' = 0 /\ moved' = (sck # 0) /\ since' = 0
        /\ UNCHANGED <<reset_cnt, sck_sync, so, attached>>
    BY <1>1 DEF Out, Step, cpuVars
  <2> QED  BY <2>1, DueIsSettled DEF Clocked, FallUnderWay, Resetn
<1>2. CASE In
  <2>1. /\ attached /\ Due /\ sck' = 1 /\ moved' = (sck # 1) /\ since' = 0
        /\ at' = "out" /\ UNCHANGED <<reset_cnt, sck_sync, attached>>
    BY <1>2 DEF In, Step, cpuVars
  <2> QED  BY <2>1 DEF Clocked, HighSeen, Resetn
<1> QED  BY <1>1, <1>2

LEMMA OthersKeepClocked ==
    ASSUME IInv, Halt \/ Resume \/ Attach \/ Reconfigure \/ Cpu \/ UNCHANGED vars
    PROVE  Clocked'
<1>1. CASE Attach
  BY <1>1 DEF IInv, TypeOK, Attach, Clocked, Resetn
<1>2. CASE Reconfigure
  BY <1>2 DEF IInv, TypeOK, Reconfigure, Clocked, pioVars
<1>3. CASE Halt \/ Resume \/ Cpu \/ UNCHANGED vars
  <2>1. UNCHANGED <<sck, since, moved, at, reset_cnt, sck_sync, so, attached>>
    BY <1>3 DEF Halt, Resume, Cpu, Read, PutByte, GetByte, Returned, TimesOut, Wires,
                fpgaVars, pioVars, cpuVars, vars
  <2> QED  BY <2>1 DEF IInv, Clocked, HighSeen, FallUnderWay, Resetn
<1> QED  BY <1>1, <1>2, <1>3

--------------------------------------------------------------------------------
(* The buffers: what is in them and how much is under way. *)

LEMMA OutliveType ==
    ASSUME NEW S, NEW s \in Seq(S)
    PROVE  Outlive(s) \in Seq(Sample) /\ Len(Outlive(s)) = Len(s)
BY DEF Outlive, Sample

LEMMA ZerosType ==
    ASSUME NEW n \in Nat
    PROVE  Zeros(n) \in Seq(Seq(Sample \cup Filler)) /\ Len(Zeros(n)) = n
<1>1. <<"zero">> \in Seq(Sample \cup Filler)  BY DEF Filler
<1> QED  BY <1>1 DEF Zeros

LEMMA JoinedType ==
    ASSUME NEW S, NEW s \in Seq(S), NEW t \in Seq(S)
    PROVE  s \o t \in Seq(S) /\ Len(s \o t) = Len(s) + Len(t)
OBVIOUS

LEMMA ClkKeepsStore ==
    ASSUME IInv, Clk
    PROVE  TypeOK' /\ Contents' /\ Balanced'
<1>1. UNCHANGED <<sck, pioVars, halted, halts, cpuVars>>  BY DEF Clk
<1>2. sck_sync' \in [0 .. 2 -> {0, 1}]
  <2>1. PICK level \in {sck} \cup (IF moved THEN {1 - sck} ELSE {}) :
          sck_sync' = IF Resetn THEN [k \in 0 .. 2 |-> IF k = 0 THEN level ELSE sck_sync[k - 1]]
                      ELSE [k \in 0 .. 2 |-> 0]
    BY DEF Clk
  <2>2. level \in {0, 1}  BY DEF IInv, TypeOK
  <2> QED  BY <2>1, <2>2 DEF IInv, TypeOK
<1>3. TypeOK'
  <2>1. /\ since' = Smaller(since + 1, HALF) /\ reset_cnt' = Smaller(reset_cnt + 1, RESET)
        /\ so' \in {"reset", "fresh", so} /\ moved' = FALSE
    BY DEF Clk
  <2>2. since' \in 0 .. HALF /\ reset_cnt' \in 0 .. RESET
    BY <2>1, SpiAssumption DEF IInv, TypeOK, Smaller
  <2> QED  BY <1>1, <1>2, <2>1, <2>2 DEF IInv, TypeOK, pioVars, cpuVars
<1> QED  BY <1>1, <1>3 DEF IInv, Contents, Balanced, pioVars, cpuVars, Nothing, ByteToGo,
                            BitOut, BitIn, ByteThere

LEMMA OutKeepsStore ==
    ASSUME IInv, Out
    PROVE  TypeOK' /\ Contents' /\ Balanced'
<1>1. UNCHANGED <<isr, rx, so, reset_cnt, sck_sync, halted, halts, cpuVars>>
  BY DEF Out, Step
<1>2. TypeOK'
  BY <1>1, SpiAssumption, SMTT(30) DEF IInv, TypeOK, Out, Step, cpuVars
<1>3. Contents'  BY <1>1 DEF IInv, Contents, cpuVars
<1>4. Balanced'
  BY <1>1, SpiAssumption
     DEF IInv, TypeOK, Balanced, cpuVars, Out, Nothing, ByteToGo, BitOut, BitIn, ByteThere
<1> QED  BY <1>2, <1>3, <1>4

(* A bit is sampled, and it has not been sampled before. *)
LEMMA InKeepsStore ==
    ASSUME IInv, In
    PROVE  TypeOK' /\ Contents' /\ Balanced'
<1>1. /\ UNCHANGED <<tx, osr, reset_cnt, sck_sync, halted, halts, cpuVars>>
      /\ at = "in" /\ at' = "out" /\ attached /\ Due /\ so' = "used"
  BY DEF In, Step
<1>2. so \in Sample \ {"late"}
  BY <1>1, DueIsSettled DEF IInv, TypeOK, Clocked, Sample
<1>3. Len(isr) \in Nat /\ Len(isr) <= BITS - 1
  BY SpiAssumption DEF IInv, TypeOK, Contents
<1>4. CASE Len(isr) = BITS - 1
  <2>1. rx' = Append(rx, Append(isr, so)) /\ isr' = << >> /\ Len(rx) < DEPTH
    BY <1>4 DEF In
  <2>2. /\ Append(isr, so) \in Seq(Sample)
        /\ isr \in Current => Append(isr, so) \in Current
    BY <1>2 DEF IInv, Contents, Current
  <2>3. /\ rx' \in Seq(Seq(Sample)) /\ Len(rx') = Len(rx) + 1
        /\ isr \in Current /\ rx \in Seq(Current) => rx' \in Seq(Current)
    BY <2>1, <2>2 DEF IInv, Contents
  <2>4. Len(isr') = 0 /\ isr' \in Seq(Sample) /\ isr' \in Current
    BY <2>1, EmptySequence DEF Current
  <2>5. TypeOK'
    BY <1>1, <2>1, <2>3, <2>4, SpiAssumption DEF IInv, TypeOK, In, Step, cpuVars
  <2>6. Contents'  BY <1>1, <2>3, <2>4 DEF IInv, Contents, cpuVars
  <2>7. Balanced'
    <3> SUFFICES ASSUME attached', ~ late'  PROVE Balanced'  BY DEF Balanced
    <3>1. /\ pc = "get" /\ BitOut /\ pc' = pc /\ dst' = dst
          /\ isr \in Current /\ rx \in Seq(Current) /\ dst \in Seq(Current)
      BY <1>1 DEF IInv, Balanced, Nothing, ByteToGo, BitIn, ByteThere, BitOut, cpuVars
    <3>2. osr = 0 /\ Len(rx) = 0
      BY <1>4, <3>1, SpiAssumption, EmptySequence DEF BitOut, IInv, TypeOK
    <3>3. ByteThere'  BY <1>1, <2>1, <2>3, <3>1, <3>2 DEF BitOut, ByteThere
    <3> QED  BY <2>3, <2>4, <3>1, <3>3 DEF Balanced
  <2> QED  BY <2>5, <2>6, <2>7
<1>5. CASE Len(isr) # BITS - 1
  <2>1. isr' = Append(isr, so) /\ rx' = rx  BY <1>5 DEF In
  <2>2. /\ isr' \in Seq(Sample) /\ Len(isr') = Len(isr) + 1
        /\ isr \in Current => isr' \in Current
    BY <1>2, <2>1 DEF IInv, Contents, Current
  <2>3. TypeOK'
    BY <1>1, <1>3, <1>5, <2>1, <2>2, SpiAssumption DEF IInv, TypeOK, In, Step, cpuVars
  <2>4. Contents'  BY <1>1, <2>1, <2>2 DEF IInv, Contents, cpuVars
  <2>5. Balanced'
    <3> SUFFICES ASSUME attached', ~ late'  PROVE Balanced'  BY DEF Balanced
    <3>1. /\ pc = "get" /\ BitOut /\ pc' = pc /\ dst' = dst
          /\ isr \in Current /\ rx \in Seq(Current) /\ dst \in Seq(Current)
      BY <1>1 DEF IInv, Balanced, Nothing, ByteToGo, BitIn, ByteThere, BitOut, cpuVars
    <3>2. osr > 0
      BY <1>3, <1>5, <3>1, SpiAssumption DEF BitOut, IInv, TypeOK
    <3>3. BitIn'  BY <1>1, <1>3, <2>1, <2>2, <3>1, <3>2, SpiAssumption
                  DEF BitOut, BitIn, IInv, TypeOK
    <3> QED  BY <2>1, <2>2, <3>1, <3>3 DEF Balanced
  <2> QED  BY <2>3, <2>4, <2>5
<1> QED  BY <1>4, <1>5

(* Halting, resuming, attaching and reconfiguring. *)
LEMMA BusKeepsStore ==
    ASSUME IInv, Halt \/ Resume \/ Attach \/ Reconfigure \/ UNCHANGED vars
    PROVE  TypeOK' /\ Contents' /\ Balanced'
<1>1. CASE Halt \/ Resume \/ UNCHANGED vars
  <2>1. UNCHANGED <<sck, since, fpgaVars, pioVars, cpuVars>>
    BY <1>1 DEF Halt, Resume, vars
  <2>3. TypeOK'  BY <2>1 DEF IInv, TypeOK, fpgaVars, pioVars, cpuVars
  <2>4. Contents'  BY <2>1 DEF IInv, Contents, pioVars, cpuVars
  <2>5. Balanced'
    BY <2>1 DEF IInv, Balanced, pioVars, cpuVars, Nothing, ByteToGo, BitOut, BitIn, ByteThere
  <2> QED  BY <2>3, <2>4, <2>5
<1>2. CASE Attach
  <2>1. /\ UNCHANGED <<reset_cnt, sck_sync, so, halted, halts, pc, dst, i>>
        /\ sck' = 0 /\ moved' \in BOOLEAN /\ since' = 0 /\ attached' = TRUE /\ late' = FALSE
        /\ at' = "out" /\ osr' = 0 /\ isr' = << >> /\ tx' = 0 /\ rx' = << >>
    BY <1>2 DEF Attach
  <2>2. pc = "idle" /\ i = 1 /\ Len(dst) = 0
    BY <1>2 DEF Attach, IInv, Contents
  <2>3. dst = << >>  BY <2>2 DEF IInv, Contents
  <2>4. TypeOK'  BY <2>1, SpiAssumption, EmptySequence DEF IInv, TypeOK
  <2>5. Contents'
    <3>1. isr' \in Seq(Sample) /\ rx' \in Seq(Seq(Sample))  BY <2>1, EmptySequence
    <3> QED  BY <2>1, <3>1 DEF IInv, Contents
  <2>6. Balanced'
    <3>1. isr' \in Current /\ rx' \in Seq(Current) /\ dst' \in Seq(Current)
      BY <2>1, <2>3, EmptySequence DEF Current
    <3>2. Nothing'  BY <2>1 DEF Nothing
    <3> QED  BY <2>1, <2>2, <3>1, <3>2 DEF Balanced
  <2> QED  BY <2>4, <2>5, <2>6
<1>3. CASE Reconfigure
  <2>1. /\ UNCHANGED <<sck, since, moved, pioVars, halted, halts, late, pc, dst, i>>
        /\ pc = "idle" /\ attached' = FALSE
        /\ reset_cnt' = 0 /\ sck_sync' = [k \in 0 .. 2 |-> 0] /\ so' = "reset"
    BY <1>3 DEF Reconfigure
  <2>2. TypeOK'  BY <2>1, SpiAssumption DEF IInv, TypeOK, pioVars
  <2>3. Contents'  BY <2>1 DEF IInv, Contents, pioVars
  <2> QED  BY <2>1, <2>2, <2>3 DEF Balanced
<1> QED  BY <1>1, <1>2, <1>3

(* spi_pio_read *)
LEMMA ReadKeepsStore ==
    ASSUME IInv, Read
    PROVE  TypeOK' /\ Contents' /\ Balanced'
<1>1. /\ UNCHANGED <<sck, since, fpgaVars, halted, halts, at, osr, tx, attached, late>>
      /\ pc = "idle" /\ pc' = "put" /\ i' = 1 /\ dst' = << >> /\ attached
      /\ isr' = Outlive(isr) /\ rx' = [k \in 1 .. Len(rx) |-> Outlive(rx[k])]
  BY DEF Read, Wires
<1>2. isr' \in Seq(Sample) /\ Len(isr') = Len(isr)
  BY <1>1, OutliveType DEF IInv, Contents
<1>3. rx' \in Seq(Seq(Sample)) /\ Len(rx') = Len(rx)
  <2>1. rx \in Seq(Seq(Sample)) /\ Len(rx) \in Nat  BY DEF IInv, Contents
  <2>2. \A k \in 1 .. Len(rx) : Outlive(rx[k]) \in Seq(Sample)
    BY <2>1, OutliveType
  <2> QED  BY <1>1, <2>1, <2>2
<1>4. TypeOK'
  BY <1>1, <1>2, <1>3, SpiAssumption, EmptySequence DEF IInv, TypeOK, fpgaVars
<1>5. Contents'
  <2>1. dst' \in Seq(Seq(Sample \cup Filler)) /\ dst' \in Seq(Seq(Sample)) /\ Len(dst') = 0
    BY <1>1, EmptySequence
  <2> QED  BY <1>1, <1>2, <1>3, <2>1 DEF IInv, Contents
<1>6. Balanced'
  <2> SUFFICES ASSUME attached', ~ late'  PROVE Balanced'  BY DEF Balanced
  <2>1. Nothing  BY <1>1 DEF IInv, Balanced
  <2>2. isr' = << >> /\ rx' = << >>
    BY <1>2, <1>3, <2>1, EmptySequence DEF Nothing
  <2>3. Nothing'  BY <1>1, <2>1, <2>2 DEF Nothing
  <2> QED  BY <1>1, <2>2, <2>3, EmptySequence DEF Balanced, Current
<1> QED  BY <1>4, <1>5, <1>6

LEMMA PutKeepsStore ==
    ASSUME IInv, PutByte
    PROVE  TypeOK' /\ Contents' /\ Balanced'
<1>1. /\ UNCHANGED <<sck, since, fpgaVars, halted, halts, at, osr, isr, rx, attached, late,
                      dst, i>>
      /\ pc = "put" /\ i <= LENGTH /\ tx < DEPTH /\ tx' = tx + 1 /\ pc' = "get"
  BY DEF PutByte, TxRoom, Wires
<1>2. TypeOK'  BY <1>1, SpiAssumption DEF IInv, TypeOK, fpgaVars
<1>3. Contents'  BY <1>1 DEF IInv, Contents
<1>4. Balanced'  BY <1>1 DEF IInv, Balanced, Nothing, ByteToGo
<1> QED  BY <1>2, <1>3, <1>4

LEMMA GetKeepsStore ==
    ASSUME IInv, GetByte
    PROVE  TypeOK' /\ Contents' /\ Balanced'
<1>1. /\ UNCHANGED <<sck, since, fpgaVars, halted, halts, at, osr, isr, tx, attached, late>>
      /\ pc = "get" /\ pc' = "put" /\ rx # << >> /\ i' = i + 1
      /\ dst' = Append(dst, Head(rx)) /\ rx' = Tail(rx)
  BY DEF GetByte, Wires
<1>2. /\ rx \in Seq(Seq(Sample)) /\ dst \in Seq(Seq(Sample)) /\ i <= LENGTH
      /\ Len(dst) = i - 1 /\ dst \in Seq(Seq(Sample \cup Filler)) /\ i \in Nat
  BY <1>1 DEF IInv, Contents, TypeOK
<1>3. /\ Head(rx) \in Seq(Sample) /\ Tail(rx) \in Seq(Seq(Sample))
      /\ Len(Tail(rx)) = Len(rx) - 1 /\ Len(rx) \in Nat
  BY <1>1, <1>2
<1>4. /\ dst' \in Seq(Seq(Sample)) /\ Len(dst') = i' - 1
  BY <1>1, <1>2, <1>3
<1>5. dst' \in Seq(Seq(Sample \cup Filler))
  <2>1. Head(rx) \in Seq(Sample \cup Filler)  BY <1>3
  <2> QED  BY <1>1, <1>2, <2>1
<1>6. TypeOK'
  BY <1>1, <1>2, <1>3, <1>4, SpiAssumption DEF IInv, TypeOK, fpgaVars
<1>7. Contents'
  BY <1>1, <1>2, <1>3, <1>4, <1>5, SpiAssumption DEF IInv, Contents
<1>8. Balanced'
  <2> SUFFICES ASSUME attached', ~ late'  PROVE Balanced'  BY DEF Balanced
  <2>1. /\ ByteThere
        /\ isr \in Current /\ rx \in Seq(Current) /\ dst \in Seq(Current)
    BY <1>1 DEF IInv, Balanced, ByteToGo, BitOut, BitIn
  <2>2. rx' = << >>
    <3>1. rx' \in Seq(Seq(Sample)) /\ Len(rx') = 0
      BY <1>1, <1>3, <2>1 DEF ByteThere
    <3> QED  BY <3>1
  <2>3. Nothing'  BY <1>1, <2>1, <2>2 DEF ByteThere, Nothing
  <2>4. Head(rx) \in Current  BY <1>1, <2>1
  <2>5. dst' \in Seq(Current)  BY <1>1, <2>1, <2>4
  <2>6. rx' \in Seq(Current)  BY <2>2, EmptySequence
  <2> QED  BY <1>1, <2>1, <2>3, <2>5, <2>6 DEF Balanced
<1> QED  BY <1>6, <1>7, <1>8

LEMMA ReturnKeepsStore ==
    ASSUME IInv, Returned
    PROVE  TypeOK' /\ Contents' /\ Balanced'
<1>1. /\ UNCHANGED <<sck, since, fpgaVars, halted, halts, pioVars, attached, late>>
      /\ pc = "put" /\ pc' = "idle" /\ i' = 1 /\ dst' = << >>
  BY DEF Returned, Wires
<1>2. TypeOK'
  BY <1>1, SpiAssumption, EmptySequence DEF IInv, TypeOK, fpgaVars, pioVars
<1>3. Contents'
  <2>1. dst' \in Seq(Seq(Sample \cup Filler)) /\ dst' \in Seq(Seq(Sample)) /\ Len(dst') = 0
    BY <1>1, EmptySequence
  <2> QED  BY <1>1, <2>1 DEF IInv, Contents, pioVars
<1>4. Balanced'
  <2>1. dst' \in Seq(Current)  BY <1>1, EmptySequence
  <2> QED  BY <1>1, <2>1 DEF IInv, Balanced, Nothing, pioVars
<1> QED  BY <1>2, <1>3, <1>4

LEMMA TimeoutKeepsStore ==
    ASSUME IInv, TimesOut
    PROVE  TypeOK' /\ Contents' /\ Balanced'
<1>1. /\ UNCHANGED <<sck, since, fpgaVars, halted, halts, pioVars, attached>>
      /\ i <= LENGTH /\ pc \in {"put", "get"} /\ pc' = "put" /\ i' = LENGTH + 1 /\ late' = TRUE
      /\ \/ dst' = dst \o Zeros(LENGTH + 1 - i)
         \/ dst' = dst \o << <<"unset">> >> \o Zeros(LENGTH - i)
  BY DEF TimesOut, Wires
<1>2. dst \in Seq(Seq(Sample \cup Filler)) /\ Len(dst) = i - 1 /\ i \in 1 .. LENGTH
  BY <1>1, SpiAssumption DEF IInv, Contents, TypeOK
<1>3. dst' \in Seq(Seq(Sample \cup Filler)) /\ Len(dst') = LENGTH
  <2>1. CASE dst' = dst \o Zeros(LENGTH + 1 - i)
    <3>1. LENGTH + 1 - i \in Nat  BY <1>2, SpiAssumption
    <3>2. /\ Zeros(LENGTH + 1 - i) \in Seq(Seq(Sample \cup Filler))
          /\ Len(Zeros(LENGTH + 1 - i)) = LENGTH + 1 - i
      BY <3>1, ZerosType
    <3>3. /\ dst' \in Seq(Seq(Sample \cup Filler))
          /\ Len(dst') = Len(dst) + Len(Zeros(LENGTH + 1 - i))
      BY <1>2, <2>1, <3>2, JoinedType
    <3> QED  BY <1>2, <3>2, <3>3, SpiAssumption
  <2>2. CASE dst' = dst \o << <<"unset">> >> \o Zeros(LENGTH - i)
    <3>1. LENGTH - i \in Nat  BY <1>2, SpiAssumption
    <3>2. << <<"unset">> >> \in Seq(Seq(Sample \cup Filler)) /\ Len(<< <<"unset">> >>) = 1
      BY DEF Filler
    <3>3. dst \o << <<"unset">> >> \in Seq(Seq(Sample \cup Filler))
          /\ Len(dst \o << <<"unset">> >>) = i
      BY <1>2, <3>2
    <3>4. /\ Zeros(LENGTH - i) \in Seq(Seq(Sample \cup Filler))
          /\ Len(Zeros(LENGTH - i)) = LENGTH - i
      BY <3>1, ZerosType
    <3> QED  BY <1>2, <2>2, <3>3, <3>4, SpiAssumption
  <2> QED  BY <1>1, <2>1, <2>2
<1>4. TypeOK'  BY <1>1, <1>3, SpiAssumption DEF IInv, TypeOK, fpgaVars, pioVars
<1>5. Contents'  BY <1>1, <1>3, SpiAssumption DEF IInv, Contents, pioVars
<1> QED  BY <1>1, <1>4, <1>5 DEF Balanced

--------------------------------------------------------------------------------
(* The theorems. *)

LEMMA NextKeepsIInv ==
    ASSUME IInv, [Next]_vars
    PROVE  IInv'
<1>1. CASE Clk          BY <1>1, ClkKeepsClocked, ClkKeepsStore DEF IInv
<1>2. CASE Out          BY <1>2, StepKeepsClocked, OutKeepsStore DEF IInv
<1>3. CASE In           BY <1>3, StepKeepsClocked, InKeepsStore DEF IInv
<1>4. CASE Halt \/ Resume \/ Attach \/ Reconfigure \/ UNCHANGED vars
  BY <1>4, OthersKeepClocked, BusKeepsStore DEF IInv
<1>5. CASE Cpu
  <2>1. Clocked'  BY <1>5, OthersKeepClocked
  <2>2. CASE Read      BY <2>1, <2>2, ReadKeepsStore DEF IInv
  <2>3. CASE PutByte   BY <2>1, <2>3, PutKeepsStore DEF IInv
  <2>4. CASE GetByte   BY <2>1, <2>4, GetKeepsStore DEF IInv
  <2>5. CASE Returned  BY <2>1, <2>5, ReturnKeepsStore DEF IInv
  <2>6. CASE TimesOut  BY <2>1, <2>6, TimeoutKeepsStore DEF IInv
  <2> QED  BY <1>5, <2>2, <2>3, <2>4, <2>5, <2>6 DEF Cpu
<1> QED  BY <1>1, <1>2, <1>3, <1>4, <1>5 DEF Next

LEMMA AlwaysIInv == Spec => []IInv
BY InitIInv, NextKeepsIInv, PTL DEF Spec

(* The registers, FIFOs and indices of spi_trng_slave.v, of the PIO and of *)
(* spi_pio_read stay in their ranges.                                      *)
THEOREM TypeCorrect == Spec => []TypeOK
<1>1. IInv => TypeOK  BY DEF IInv
<1> QED  BY <1>1, AlwaysIInv, PTL

(* No bit of the slave's so_r is sampled twice, with the FPGA's clock and  *)
(* the PIO's in any phase, however often the state machine is halted.      *)
THEOREM BitsAlwaysUsedOnce == Spec => []BitsUsedOnce
<1>1. IInv => BitsUsedOnce
  <2> SUFFICES ASSUME IInv, NEW s \in Sampled, NEW k \in 1 .. Len(s)
               PROVE  s[k] # "used"
    BY DEF BitsUsedOnce
  <2>1. s \in Seq(Sample \cup Filler)
    <3>1. isr \in Seq(Sample \cup Filler)  BY DEF IInv, Contents
    <3>2. \A m \in 1 .. Len(rx) : rx[m] \in Seq(Sample \cup Filler)
      <4>1. \A m \in 1 .. Len(rx) : rx[m] \in Seq(Sample)  BY DEF IInv, Contents
      <4> QED  BY <4>1
    <3>3. \A m \in 1 .. Len(dst) : dst[m] \in Seq(Sample \cup Filler)
      BY DEF IInv, Contents
    <3> QED  BY <3>1, <3>2, <3>3 DEF Sampled
  <2>2. s[k] \in Sample \cup Filler  BY <2>1
  <2> QED  BY <2>2 DEF Sample, Filler
<1> QED  BY <1>1, AlwaysIInv, PTL

--------------------------------------------------------------------------------
(* The bytes a read returns. *)

OneUnset == \A k, m \in Unset : k = m

(* What was sampled is not the byte left unset. *)
LEMMA SampledIsSet ==
    ASSUME NEW d \in Seq(Seq(Sample))
    PROVE  \A k \in 1 .. Len(d) : d[k] # <<"unset">>
<1>1. \A k \in 1 .. Len(d) : d[k] \in Seq(Sample)  OBVIOUS
<1>2. <<"unset">> \notin Seq(Sample)  BY DEF Sample
<1> QED  BY <1>1, <1>2

(* Where an element is in two sequences that are joined. *)
LEMMA OnlyAt ==
    ASSUME NEW S, NEW s \in Seq(S), NEW t \in Seq(S), NEW x, NEW p \in Int,
           \A k \in 1 .. Len(s) : s[k] = x => k = p,
           \A k \in 1 .. Len(t) : t[k] = x => Len(s) + k = p
    PROVE  \A k \in 1 .. Len(s \o t) : (s \o t)[k] = x => k = p
<1> SUFFICES ASSUME NEW k \in 1 .. Len(s \o t), (s \o t)[k] = x  PROVE k = p
  OBVIOUS
<1>1. CASE k <= Len(s)  BY <1>1
<1>2. CASE k > Len(s)
  <2>1. k - Len(s) \in 1 .. Len(t) /\ (s \o t)[k] = t[k - Len(s)]  BY <1>2
  <2> QED  BY <1>2, <2>1
<1> QED  BY <1>1, <1>2

(* The byte that get was waiting for is the only one. *)
LEMMA TimeoutKeepsOneUnset ==
    ASSUME IInv, TimesOut
    PROVE  OneUnset'
<1> DEFINE AnyByte == Seq(Sample \cup Filler)
           none    == <<"unset">>
<1>1. /\ i <= LENGTH
      /\ \/ dst' = dst \o Zeros(LENGTH + 1 - i)
         \/ dst' = dst \o << none >> \o Zeros(LENGTH - i)
  BY DEF TimesOut
<1>2. dst \in Seq(AnyByte) /\ Len(dst) = i - 1 /\ i \in 1 .. LENGTH
  BY <1>1, SpiAssumption DEF IInv, Contents, TypeOK
<1>3. \A k \in 1 .. Len(dst) : dst[k] = none => k = i
  BY <1>1, SampledIsSet DEF IInv, Contents
<1>4. \A n \in Nat : Zeros(n) \in Seq(AnyByte) /\ Len(Zeros(n)) = n
  BY ZerosType
<1>5. \A n \in Nat : \A k \in 1 .. n : Zeros(n)[k] # none  BY DEF Zeros
<1>6. << none >> \in Seq(AnyByte) /\ Len(<< none >>) = 1  BY DEF Filler
<1> HIDE DEF AnyByte, none
<1>7. \A k \in 1 .. Len(dst') : dst'[k] = none => k = i
  <2>1. CASE dst' = dst \o Zeros(LENGTH + 1 - i)
    <3>1. LENGTH + 1 - i \in Nat  BY <1>2, SpiAssumption
    <3>2. PICK z \in Seq(AnyByte) :
            z = Zeros(LENGTH + 1 - i) /\ \A k \in 1 .. Len(z) : z[k] # none
      BY <1>4, <1>5, <3>1
    <3>3. \A k \in 1 .. Len(z) : z[k] = none => Len(dst) + k = i  BY <3>2
    <3>4. i \in Int  BY <1>2
    <3>5. \A k \in 1 .. Len(dst \o z) : (dst \o z)[k] = none => k = i
      BY <1>2, <1>3, <3>3, <3>4, OnlyAt
    <3> QED  BY <2>1, <3>2, <3>5
  <2>2. CASE dst' = dst \o << none >> \o Zeros(LENGTH - i)
    <3>1. LENGTH - i \in Nat  BY <1>2, SpiAssumption
    <3>2. PICK z \in Seq(AnyByte) :
            z = Zeros(LENGTH - i) /\ \A k \in 1 .. Len(z) : z[k] # none
      BY <1>4, <1>5, <3>1
    <3>3. PICK d : d = dst \o << none >>  OBVIOUS
    <3>4. d \in Seq(AnyByte) /\ Len(d) = i /\ i \in Int
      BY <1>2, <1>6, <3>3, JoinedType
    <3>5. \A k \in 1 .. Len(d) : d[k] = none => k = i
      <4>1. \A k \in 1 .. (i - 1) : d[k] = dst[k]  BY <1>2, <1>6, <3>3
      <4> QED  BY <1>2, <1>3, <3>4, <4>1
    <3>6. \A k \in 1 .. Len(z) : z[k] = none => Len(d) + k = i  BY <3>2
    <3>7. \A k \in 1 .. Len(d \o z) : (d \o z)[k] = none => k = i
      BY <3>4, <3>5, <3>6, OnlyAt
    <3> QED  BY <2>2, <3>2, <3>3, <3>7
  <2> QED  BY <1>1, <2>1, <2>2
<1> QED  BY <1>7 DEF OneUnset, Unset, none

LEMMA NextKeepsOneUnset ==
    ASSUME IInv, OneUnset, [Next]_vars
    PROVE  OneUnset'
<1>1. CASE TimesOut  BY <1>1, TimeoutKeepsOneUnset
<1>2. CASE GetByte
  <2>1. dst' \in Seq(Seq(Sample))
    <3>1. /\ dst \in Seq(Seq(Sample)) /\ rx \in Seq(Seq(Sample)) /\ rx # << >>
          /\ dst' = Append(dst, Head(rx))
      BY <1>2 DEF IInv, Contents, GetByte
    <3>2. Head(rx) \in Seq(Sample)  BY <3>1
    <3> QED  BY <3>1, <3>2
  <2>2. Unset' = {}  BY <2>1, SampledIsSet DEF Unset
  <2> QED  BY <2>2 DEF OneUnset
<1>3. CASE Read \/ Returned
  <2>1. dst' = << >>  BY <1>3 DEF Read, Returned
  <2> QED  BY <2>1, EmptySequence DEF OneUnset, Unset
<1>4. CASE Clk \/ Out \/ In \/ Halt \/ Resume \/ Attach \/ Reconfigure \/ PutByte
            \/ UNCHANGED vars
  <2>1. dst' = dst
    BY <1>4 DEF Clk, Out, In, Step, Halt, Resume, Attach, Reconfigure, PutByte, vars, cpuVars
  <2> QED  BY <2>1 DEF OneUnset, Unset
<1> QED  BY <1>1, <1>2, <1>3, <1>4 DEF Next, Cpu

(* A byte that is not random, or from an earlier read, is there only after *)
(* a read has timed out, and at most one byte of a read is left unset      *)
(* (spi_pio.c:71-82).                                                      *)
THEOREM OnlyTimeoutsEverSpoil == Spec => []OnlyTimeoutsSpoil
<1>1. Init => OneUnset  BY EmptySequence DEF Init, OneUnset, Unset
<1>2. IInv /\ OneUnset /\ [Next]_vars => OneUnset'  BY NextKeepsOneUnset
<1>3. IInv /\ OneUnset => OnlyTimeoutsSpoil
  <2> SUFFICES ASSUME IInv, ~ late, NEW k \in 1 .. Len(dst)
               PROVE  ~ Spoilt(dst[k])
    BY DEF OneUnset, OnlyTimeoutsSpoil
  <2>1. attached
    <3>1. ~ attached => Len(dst) = 0  BY DEF IInv, Contents
    <3> QED  BY <3>1
  <2>2. dst[k] \in Current  BY <2>1 DEF IInv, Balanced
  <2>3. \A b \in 1 .. Len(dst[k]) : dst[k][b] \in Sample \ {"late"}
    BY <2>2 DEF Current
  <2> QED  BY <2>3 DEF Spoilt, Sample
<1> QED  BY <1>1, <1>2, <1>3, AlwaysIInv, PTL DEF Spec
================================================================================
