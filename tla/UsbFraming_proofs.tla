---------------------------- MODULE UsbFraming_proofs ----------------------------
(***************************************************************************)
(* The framing of protocol_task, for buffers, FIFOs, lengths and payloads  *)
(* of every size.  What is on its way, in _rx, in the FIFO and on the      *)
(* wire, is a row of frames: as long as the device is in step, those the   *)
(* host has sent and the dispatcher not had, one behind the other.  The    *)
(* invariant keeps the places where they begin.                            *)
(***************************************************************************)
EXTENDS UsbFraming, SequenceTheorems, TLAPS

Byte == 0 .. (U16 - 1)
Sent == Frames \cup Stumps

(* The frames of s behind the first d, in the stream st from its start to  *)
(* its end; the k-th begins behind off[k].                                 *)
Offsets(off, st, d, s) ==
    /\ off \in [1 .. (Len(s) + 1) -> Int]
    /\ off[d + 1] = 0 /\ off[Len(s) + 1] = Len(st)
    /\ \A k \in (d + 1) .. Len(s) :
         /\ off[k + 1] = off[k] + Len(Bytes(s[k]))
         /\ \A j \in 1 .. Len(Bytes(s[k])) : st[off[k] + j] = Bytes(s[k])[j]
    /\ \A k, m \in (d + 1) .. (Len(s) + 1) : k <= m => off[k] <= off[m]

Row(st, d, s) == d \in 0 .. Len(s) /\ \E off : Offsets(off, st, d, s)

Stream == (rx \o fifo) \o wire

History ==
    /\ sent \in Seq(Sent)
    /\ done \in Seq([cmd : Byte, plen : Byte, data : Seq(Byte)])
    /\ lost \in BOOLEAN
    /\ wire # << >> => sent # << >> /\ sent[Len(sent)] \in Frames

InStep == ~ lost => Row(Stream, Len(done), sent)

IInv == TypeOK /\ History /\ InStep

--------------------------------------------------------------------------------
(* Frames *)

(* What a frame is, whole or not. *)
LEMMA FrameShape ==
    ASSUME NEW f \in Sent
    PROVE  /\ f.cmd = 1 /\ f.plen \in Announced /\ f.plen \in Byte
           /\ f.data \in Seq(Byte) /\ f = [cmd |-> 1, plen |-> f.plen, data |-> f.data]
           /\ f.cmd \in Byte
           /\ \E n \in 0 .. Held(f.plen), b \in Payload : f = Frame(f.plen, n, b)
<1>1. ASSUME NEW p \in Announced, NEW n \in 0 .. Held(p), NEW b \in Payload, f = Frame(p, n, b)
      PROVE  /\ f.cmd = 1 /\ f.plen \in Announced /\ f.plen \in Byte
             /\ f.data \in Seq(Byte) /\ f = [cmd |-> 1, plen |-> f.plen, data |-> f.data]
             /\ f.cmd \in Byte
             /\ \E n_1 \in 0 .. Held(f.plen), b_1 \in Payload : f = Frame(f.plen, n_1, b_1)
  <2>1. f.cmd = 1 /\ f.plen = p /\ f.data = [i \in 1 .. n |-> b]  BY <1>1 DEF Frame
  <2>2. p \in Byte /\ b \in Byte /\ 1 \in Byte /\ n \in Nat
    BY FramingAssumption DEF Byte, HEADER_BYTES, Held, Smaller
  <2>3. [i \in 1 .. n |-> b] \in Seq(Byte)  BY <2>2, IsASeq
  <2> QED  BY <1>1, <2>1, <2>2, <2>3 DEF Frame
<1>2. \E p \in Announced, b \in Payload : \E n \in 0 .. Held(p) : f = Frame(p, n, b)
  <2>1. \A p \in Announced : Held(p) \in Nat
    BY FramingAssumption DEF Held, Smaller, HEADER_BYTES
  <2>2. CASE f \in Frames  BY <2>1, <2>2 DEF Frames
  <2>3. CASE f \in Stumps
    <3>1. PICK p \in Announced : f \in {Frame(p, k, b) : k \in 0 .. (Held(p) - 1), b \in Payload}
      BY <2>3 DEF Stumps
    <3>2. PICK k \in 0 .. (Held(p) - 1), b \in Payload : f = Frame(p, k, b)  BY <3>1
    <3>3. k \in 0 .. Held(p)  BY <2>1
    <3> QED  BY <3>2, <3>3
  <2> QED  BY <2>2, <2>3 DEF Sent
<1> QED  BY <1>1, <1>2

LEMMA FrameBytes ==
    ASSUME NEW f \in Sent
    PROVE  /\ Bytes(f) \in Seq(Byte) /\ Len(Bytes(f)) = 2 + Len(f.data) /\ Len(f.data) \in Nat
           /\ Bytes(f)[1] = 1 /\ Bytes(f)[2] = f.plen
           /\ \A j \in 1 .. Len(f.data) : Bytes(f)[2 + j] = f.data[j]
<1> PICK d : d = f.data  OBVIOUS
<1> PICK h : h = <<f.cmd, f.plen>>  OBVIOUS
<1>1. f.cmd \in Byte /\ f.plen \in Byte /\ f.data \in Seq(Byte) /\ f.cmd = 1  BY FrameShape
<1>2. h \in Seq(Byte) /\ Len(h) = 2 /\ h[1] = f.cmd /\ h[2] = f.plen  BY <1>1
<1>3. Bytes(f) = h \o f.data  BY DEF Bytes
<1>4. Len(f.data) \in Nat  BY <1>1
<1>5. h \in Seq(Byte) /\ d \in Seq(Byte)  BY <1>1, <1>2
<1>6. /\ h \o d \in Seq(Byte) /\ Len(h \o d) = Len(h) + Len(d)
      /\ \A i \in 1 .. Len(h) + Len(d) :
            (h \o d)[i] = IF i <= Len(h) THEN h[i] ELSE d[i - Len(h)]
  BY <1>5, ConcatProperties
<1> QED  BY <1>1, <1>2, <1>3, <1>4, <1>6

(* A frame the host completes carries what it announces, or what the       *)
(* device holds of it; one it abandons carries less.                       *)
LEMMA WholeFrame ==
    ASSUME NEW f \in Frames
    PROVE  f \in Sent /\ Len(f.data) = Held(f.plen)
<1>1. PICK n \in Announced, b \in Payload : f = Frame(n, Held(n), b)  BY DEF Frames
<1>2. Held(n) \in Nat  BY FramingAssumption DEF Held, Smaller, HEADER_BYTES
<1> QED  BY <1>1, <1>2 DEF Frame, Sent

LEMMA StumpIsShort ==
    ASSUME NEW f \in Stumps
    PROVE  Len(f.data) < f.plen
<1>1. PICK p \in Announced : f \in {Frame(p, k, b) : k \in 0 .. (Held(p) - 1), b \in Payload}
  BY DEF Stumps
<1>2. PICK k \in 0 .. (Held(p) - 1), b \in Payload : f = Frame(p, k, b)  BY <1>1
<1>3. Held(p) \in Nat /\ Held(p) <= p /\ p \in Nat
  BY FramingAssumption DEF Held, Smaller, HEADER_BYTES
<1> QED  BY <1>2, <1>3 DEF Frame

LEMMA DataReplaced ==
    \A c, p, d, e : [[cmd |-> c, plen |-> p, data |-> d] EXCEPT !.data = e]
                        = [cmd |-> c, plen |-> p, data |-> e]
OBVIOUS

(* A whole frame that loses the end of its payload is a stump. *)
LEMMA Abandoned ==
    ASSUME NEW f \in Frames, NEW n \in Nat, n < Len(f.data)
    PROVE  /\ [f EXCEPT !.data = SubSeq(@, 1, n)] \in Stumps
           /\ [f EXCEPT !.data = SubSeq(@, 1, n)]
                = [cmd |-> f.cmd, plen |-> f.plen, data |-> SubSeq(f.data, 1, n)]
<1>1. PICK p \in Announced, b \in Payload : f = Frame(p, Held(p), b)  BY DEF Frames
<1>2. Held(p) \in Nat  BY FramingAssumption DEF Held, Smaller, HEADER_BYTES
<1>3. f.data = [i \in 1 .. Held(p) |-> b] /\ Len(f.data) = Held(p)  BY <1>1, <1>2 DEF Frame
<1>4. SubSeq([i \in 1 .. Held(p) |-> b], 1, n) = [i \in 1 .. n |-> b]  BY <1>2, <1>3
<1>5. PICK g : g = SubSeq(f.data, 1, n)  OBVIOUS
<1>6. [f EXCEPT !.data = g] = [cmd |-> 1, plen |-> p, data |-> g]
  BY <1>1, DataReplaced DEF Frame
<1>7. n \in 0 .. (Held(p) - 1)  BY <1>2, <1>3
<1>8. [cmd |-> 1, plen |-> p, data |-> g] = Frame(p, n, b)  BY <1>3, <1>4, <1>5 DEF Frame
<1>9. Frame(p, n, b) \in Stumps  BY <1>7 DEF Stumps
<1>10. f.cmd = 1 /\ f.plen = p  BY <1>1 DEF Frame
<1> QED  BY <1>5, <1>6, <1>8, <1>9, <1>10

--------------------------------------------------------------------------------
(* Rows of frames *)

LEMMA Suffix ==
    ASSUME NEW S, NEW s \in Seq(S), NEW n \in 0 .. Len(s)
    PROVE  /\ SubSeq(s, n + 1, Len(s)) \in Seq(S)
           /\ Len(SubSeq(s, n + 1, Len(s))) = Len(s) - n
           /\ \A i \in 1 .. (Len(s) - n) : SubSeq(s, n + 1, Len(s))[i] = s[n + i]
OBVIOUS

LEMMA Prefix ==
    ASSUME NEW S, NEW s \in Seq(S), NEW n \in 0 .. Len(s)
    PROVE  /\ SubSeq(s, 1, n) \in Seq(S)
           /\ Len(SubSeq(s, 1, n)) = n
           /\ \A i \in 1 .. n : SubSeq(s, 1, n)[i] = s[i]
OBVIOUS

LEMMA EmptyRow == Row(<< >>, 0, << >>)
<1>1. Len(<< >>) = 0  OBVIOUS
<1>2. Offsets([k \in 1 .. 1 |-> 0], << >>, 0, << >>)  BY <1>1 DEF Offsets
<1> QED  BY <1>1, <1>2 DEF Row

(* Behind a row there is room for one more frame. *)
LEMMA RowGrows ==
    ASSUME NEW st \in Seq(Byte), NEW s \in Seq(Sent), NEW d, Row(st, d, s), NEW f \in Sent
    PROVE  Row(st \o Bytes(f), d, Append(s, f))
<1>1. PICK off : Offsets(off, st, d, s)  BY DEF Row
<1>2. PICK n : n = Len(s)  OBVIOUS
<1>3. PICK b : b = Bytes(f)  OBVIOUS
<1>4. b \in Seq(Byte) /\ Len(b) \in Nat  BY <1>3, FrameBytes
<1>5. PICK t : t = Append(s, f)  OBVIOUS
<1>6. PICK u : u = st \o b  OBVIOUS
<1>7. /\ n \in Nat /\ Len(t) = n + 1 /\ t[n + 1] = f
      /\ \A k \in 1 .. n : t[k] = s[k]
  BY <1>2, <1>5
<1>8. /\ Len(st) \in Nat /\ Len(u) = Len(st) + Len(b)
      /\ \A i \in 1 .. Len(st) + Len(b) : u[i] = IF i <= Len(st) THEN st[i] ELSE b[i - Len(st)]
  BY <1>4, <1>6, ConcatProperties
<1>9. d \in 0 .. n  BY <1>2 DEF Row
<1>10. PICK new : new = [k \in 1 .. (n + 2) |-> IF k <= n + 1 THEN off[k] ELSE Len(u)]
  OBVIOUS
<1>11. /\ off \in [1 .. (n + 1) -> Int] /\ off[d + 1] = 0 /\ off[n + 1] = Len(st)
       /\ \A k \in (d + 1) .. n :
            /\ off[k + 1] = off[k] + Len(Bytes(s[k]))
            /\ \A j \in 1 .. Len(Bytes(s[k])) : st[off[k] + j] = Bytes(s[k])[j]
       /\ \A k, m \in (d + 1) .. (n + 1) : k <= m => off[k] <= off[m]
  BY <1>1, <1>2 DEF Offsets
<1>12. /\ new \in [1 .. (n + 2) -> Int] /\ new[n + 2] = Len(u)
       /\ \A k \in 1 .. (n + 1) : new[k] = off[k]
  <2>1. n \in Nat /\ Len(u) \in Int  BY <1>4, <1>7, <1>8
  <2>2. \A k \in 1 .. (n + 1) : off[k] \in Int  BY <1>11
  <2>3. \A k \in 1 .. (n + 2) : new[k] = IF k <= n + 1 THEN off[k] ELSE Len(u)
    BY <1>10
  <2>4. n + 2 \in 1 .. (n + 2) /\ ~ (n + 2 <= n + 1)
        /\ \A k \in 1 .. (n + 1) : k \in 1 .. (n + 2) /\ k <= n + 1
    BY <2>1
  <2>5. new[n + 2] = Len(u) /\ \A k \in 1 .. (n + 1) : new[k] = off[k]
    BY <2>3, <2>4
  <2>6. \A k \in 1 .. (n + 2) : (IF k <= n + 1 THEN off[k] ELSE Len(u)) \in Int
    BY <2>1, <2>2
  <2> QED  BY <2>5, <2>6, <1>10
<1>13. new[d + 1] = 0
  <2>1. d + 1 \in 1 .. (n + 1)  BY <1>7, <1>9
  <2> QED  BY <2>1, <1>11, <1>12
<1>14. ASSUME NEW k \in (d + 1) .. (n + 1)
       PROVE  /\ new[k + 1] = new[k] + Len(Bytes(t[k]))
              /\ \A j \in 1 .. Len(Bytes(t[k])) : u[new[k] + j] = Bytes(t[k])[j]
  <2>1. CASE k = n + 1
    <3>1. new[k] = Len(st) /\ new[k + 1] = Len(u) /\ Bytes(t[k]) = b
      BY <2>1, <1>3, <1>7, <1>11, <1>12
    <3>2. new[k + 1] = new[k] + Len(b)  BY <3>1, <1>8
    <3>3. ASSUME NEW j \in 1 .. Len(b)  PROVE u[Len(st) + j] = b[j]
      <4>1. Len(st) + j \in 1 .. (Len(st) + Len(b)) /\ ~ (Len(st) + j <= Len(st))
            /\ (Len(st) + j) - Len(st) = j
        BY <1>4, <1>8
      <4> QED  BY <4>1, <1>8
    <3> QED  BY <3>1, <3>2, <3>3
  <2>2. CASE k \in (d + 1) .. n
    <3>1. t[k] = s[k] /\ new[k] = off[k] /\ new[k + 1] = off[k + 1]
      <4>1. k \in 1 .. n /\ k \in 1 .. (n + 1) /\ k + 1 \in 1 .. (n + 1)  BY <2>2, <1>7, <1>9
      <4> QED  BY <4>1, <1>7, <1>12
    <3>2. PICK c : c = Bytes(s[k])  OBVIOUS
    <3>3. s[k] \in Sent  BY <2>2, <1>2, <1>9
    <3>4. Len(c) \in Nat  BY <3>2, <3>3, FrameBytes
    <3>5. off[k] \in Int /\ off[k] >= 0 /\ off[k + 1] <= Len(st)
      <4>1. /\ d + 1 \in (d + 1) .. (n + 1) /\ d + 1 <= k /\ k \in (d + 1) .. (n + 1)
            /\ n + 1 \in (d + 1) .. (n + 1) /\ k + 1 <= n + 1 /\ k + 1 \in (d + 1) .. (n + 1)
            /\ k \in 1 .. (n + 1)
        BY <2>2, <1>7, <1>9
      <4>2. off[d + 1] <= off[k] /\ off[k + 1] <= off[n + 1]  BY <4>1, <1>11
      <4>3. off[k] \in Int  BY <4>1, <1>11
      <4> QED  BY <4>2, <4>3, <1>11
    <3>8. off[k + 1] = off[k] + Len(c)  BY <2>2, <3>2, <1>11
    <3>6. \A j \in 1 .. Len(c) : off[k] + j \in 1 .. Len(st)
      BY <3>4, <3>5, <3>8, <1>8
    <3>7. \A j \in 1 .. Len(c) : u[off[k] + j] = st[off[k] + j]  BY <3>6, <1>4, <1>8
    <3> QED  BY <2>2, <3>1, <3>2, <3>7, <1>11, ZenonT(30)
  <2> QED  BY <2>1, <2>2, <1>7, <1>9
<1>15. ASSUME NEW k \in (d + 1) .. (n + 2), NEW m \in (d + 1) .. (n + 2), k <= m
       PROVE  new[k] <= new[m]
  <2>1. \A i \in (d + 1) .. (n + 1) : off[i] \in Int /\ off[i] <= Len(st)
    BY <1>7, <1>9, <1>11, SMTT(30)
  <2>2. CASE m = n + 2
    <3>1. Len(u) >= Len(st) /\ Len(u) \in Int /\ Len(st) \in Int  BY <1>4, <1>8
    <3>2. new[m] = Len(u)  BY <2>2, <1>12
    <3>3. CASE k = n + 2  BY <3>1, <3>2, <3>3, <1>12
    <3>4. CASE k \in (d + 1) .. (n + 1)
      <4>1. k \in 1 .. (n + 1)  BY <3>4, <1>7, <1>9
      <4> QED  BY <2>1, <3>1, <3>2, <3>4, <4>1, <1>12
    <3> QED  BY <3>3, <3>4, <1>7, <1>9
  <2>3. CASE m \in (d + 1) .. (n + 1)
    BY <1>15, <2>3, <1>7, <1>9, <1>11, <1>12, SMTT(30)
  <2> QED  BY <2>2, <2>3, <1>7, <1>9
<1>16. Len(t) + 1 = n + 2 /\ d \in 0 .. Len(t)  BY <1>7, <1>9
<1>17. Offsets(new, u, d, t)  BY <1>7, <1>12, <1>13, <1>14, <1>15, <1>16 DEF Offsets
<1> QED  BY <1>3, <1>5, <1>6, <1>16, <1>17 DEF Row

(* While anything is on its way, a frame is, and it is in front. *)
LEMMA FirstFrame ==
    ASSUME NEW st \in Seq(Byte), NEW s \in Seq(Sent), NEW d, Row(st, d, s), Len(st) > 0
    PROVE  /\ d \in Nat /\ d + 1 \in 1 .. Len(s) /\ d < Len(s)
           /\ Len(Bytes(s[d + 1])) <= Len(st)
           /\ \A j \in 1 .. Len(Bytes(s[d + 1])) : st[j] = Bytes(s[d + 1])[j]
<1>1. PICK off : Offsets(off, st, d, s)  BY DEF Row
<1>2. PICK n : n = Len(s)  OBVIOUS
<1>3. n \in Nat /\ d \in 0 .. n /\ Len(st) \in Nat  BY <1>2 DEF Row
<1>4. /\ off[d + 1] = 0 /\ off[n + 1] = Len(st)
      /\ \A k \in (d + 1) .. n :
            /\ off[k + 1] = off[k] + Len(Bytes(s[k]))
            /\ \A j \in 1 .. Len(Bytes(s[k])) : st[off[k] + j] = Bytes(s[k])[j]
      /\ \A k, m \in (d + 1) .. (n + 1) : k <= m => off[k] <= off[m]
  BY <1>1, <1>2 DEF Offsets
<1>5. d < n  BY <1>3, <1>4
<1>6. PICK c : c = Bytes(s[d + 1])  OBVIOUS
<1>7. s[d + 1] \in Sent  BY <1>2, <1>3, <1>5
<1>8. Len(c) \in Nat  BY <1>6, <1>7, FrameBytes
<1>9. d + 1 \in (d + 1) .. n /\ d + 2 \in (d + 1) .. (n + 1) /\ n + 1 \in (d + 1) .. (n + 1)
  BY <1>3, <1>5
<1>10. off[d + 2] = Len(c) /\ off[d + 2] <= Len(st)  BY <1>3, <1>4, <1>5, <1>6, <1>8, <1>9
<1>11. \A j \in 1 .. Len(c) : st[j] = c[j]  BY <1>4, <1>6, <1>8, <1>9
<1> QED  BY <1>2, <1>3, <1>5, <1>6, <1>10, <1>11

(* Without its first frame a row is one. *)
LEMMA RowMovesUp ==
    ASSUME NEW st \in Seq(Byte), NEW s \in Seq(Sent), NEW d, Row(st, d, s), Len(st) > 0,
           NEW n \in Nat, n = Len(Bytes(s[d + 1]))
    PROVE  Row(SubSeq(st, n + 1, Len(st)), d + 1, s)
<1>1. PICK off : Offsets(off, st, d, s)  BY DEF Row
<1>2. PICK e : e = Len(s)  OBVIOUS
<1>3. e \in Nat /\ d \in Nat /\ d < e /\ Len(st) \in Nat /\ n <= Len(st)
  BY <1>2, FirstFrame
<1>4. /\ off \in [1 .. (e + 1) -> Int]
      /\ off[d + 1] = 0 /\ off[e + 1] = Len(st)
      /\ \A k \in (d + 1) .. e :
            /\ off[k + 1] = off[k] + Len(Bytes(s[k]))
            /\ \A j \in 1 .. Len(Bytes(s[k])) : st[off[k] + j] = Bytes(s[k])[j]
      /\ \A k, m \in (d + 1) .. (e + 1) : k <= m => off[k] <= off[m]
  BY <1>1, <1>2 DEF Offsets
<1>5. d + 1 \in (d + 1) .. e  BY <1>3
<1>6. off[d + 2] = n  BY <1>3, <1>4, <1>5
<1>7. PICK u : u = SubSeq(st, n + 1, Len(st))  OBVIOUS
<1>8. Len(u) = Len(st) - n /\ \A i \in 1 .. (Len(st) - n) : u[i] = st[n + i]
  <2>1. n \in 0 .. Len(st)  BY <1>3
  <2> QED  BY <2>1, <1>7, Suffix
<1>9. PICK new : new = [k \in 1 .. (e + 1) |-> off[k] - n]  OBVIOUS
<1>10. /\ new \in [1 .. (e + 1) -> Int]
       /\ \A k \in 1 .. (e + 1) : new[k] = off[k] - n /\ off[k] \in Int
  BY <1>4, <1>9
<1>11. new[d + 2] = 0 /\ new[e + 1] = Len(u)
  <2>1. d + 2 \in 1 .. (e + 1) /\ e + 1 \in 1 .. (e + 1)  BY <1>3
  <2> QED  BY <2>1, <1>4, <1>6, <1>8, <1>10
<1>12. ASSUME NEW k \in (d + 2) .. e
       PROVE  /\ new[k + 1] = new[k] + Len(Bytes(s[k]))
              /\ \A j \in 1 .. Len(Bytes(s[k])) : u[new[k] + j] = Bytes(s[k])[j]
  <2>1. PICK c : c = Bytes(s[k])  OBVIOUS
  <2>2. s[k] \in Sent  BY <1>2, <1>3
  <2>3. Len(c) \in Nat  BY <2>1, <2>2, FrameBytes
  <2>4. /\ k \in (d + 1) .. e /\ k \in (d + 1) .. (e + 1) /\ k + 1 \in (d + 1) .. (e + 1)
        /\ d + 2 \in (d + 1) .. (e + 1) /\ e + 1 \in (d + 1) .. (e + 1)
        /\ k \in 1 .. (e + 1) /\ k + 1 \in 1 .. (e + 1) /\ k + 1 <= e + 1 /\ d + 2 <= k
    BY <1>3
  <2>5. off[k] >= n /\ off[k + 1] <= Len(st) /\ off[k + 1] = off[k] + Len(c)
    BY <2>1, <2>4, <1>4, <1>6
  <2>6. new[k] = off[k] - n /\ new[k + 1] = off[k + 1] - n /\ off[k] \in Int
    BY <2>4, <1>10
  <2>7. \A j \in 1 .. Len(c) : u[new[k] + j] = st[off[k] + j]
    <3>1. ASSUME NEW j \in 1 .. Len(c)  PROVE u[new[k] + j] = st[off[k] + j]
      <4>1. new[k] + j \in 1 .. (Len(st) - n) /\ n + (new[k] + j) = off[k] + j
        <5>1. PICK a, l, m : a = off[k] /\ l = Len(c) /\ m = Len(st)  OBVIOUS
        <5>2. /\ a \in Int /\ a >= n /\ l \in Nat /\ m \in Nat /\ a + l <= m
              /\ new[k] = a - n /\ j \in 1 .. l
          BY <5>1, <2>3, <2>5, <2>6, <1>3
        <5>3. (a - n) + j \in 1 .. (m - n) /\ n + ((a - n) + j) = a + j  BY <5>2
        <5> QED  BY <5>1, <5>2, <5>3
      <4> QED  BY <4>1, <1>8
    <3> QED  BY <3>1
  <2>8. \A j \in 1 .. Len(c) : st[off[k] + j] = c[j]  BY <2>1, <2>4, <1>4
  <2>9. new[k + 1] = new[k] + Len(c)  BY <2>3, <2>5, <2>6
  <2> QED  BY <2>1, <2>7, <2>8, <2>9
<1>13. ASSUME NEW k \in (d + 2) .. (e + 1), NEW m \in (d + 2) .. (e + 1), k <= m
       PROVE  new[k] <= new[m]
  <2>1. k \in 1 .. (e + 1) /\ m \in 1 .. (e + 1)
        /\ k \in (d + 1) .. (e + 1) /\ m \in (d + 1) .. (e + 1)
    BY <1>3
  <2>2. off[k] <= off[m]  BY <2>1, <1>4, <1>13
  <2>3. PICK a, b : a = off[k] /\ b = off[m]  OBVIOUS
  <2>4. a \in Int /\ b \in Int /\ a <= b /\ new[k] = a - n /\ new[m] = b - n
    BY <2>1, <2>2, <2>3, <1>10
  <2> QED  BY <2>4
<1>14. (d + 1) + 1 = d + 2 /\ d + 1 \in 0 .. Len(s)  BY <1>2, <1>3
<1>15. Offsets(new, u, d + 1, s)  BY <1>2, <1>10, <1>11, <1>12, <1>13, <1>14 DEF Offsets
<1> QED  BY <1>7, <1>14, <1>15 DEF Row

(* The end of the last frame may stay away. *)
LEMMA RowIsCutShort ==
    ASSUME NEW st \in Seq(Byte), NEW s \in Seq(Sent), NEW d, Row(st, d, s),
           d < Len(s), NEW n \in Nat, NEW f \in Sent, NEW g \in Sent,
           NEW p \in Seq(Byte), f = s[Len(s)],
           Len(p) = Len(st) - n, \A i \in 1 .. Len(p) : p[i] = st[i],
           Len(g.data) = Len(f.data) - n, g.plen = f.plen,
           \A i \in 1 .. Len(g.data) : g.data[i] = f.data[i]
    PROVE  Row(p, d, [s EXCEPT ![Len(s)] = g])
<1>1. PICK off : Offsets(off, st, d, s)  BY DEF Row
<1>2. PICK e : e = Len(s)  OBVIOUS
<1>3. e \in Nat /\ d \in Nat /\ d < e /\ Len(st) \in Nat /\ Len(p) \in Nat
  BY <1>2 DEF Row
<1>4. /\ off \in [1 .. (e + 1) -> Int]
      /\ off[d + 1] = 0 /\ off[e + 1] = Len(st)
      /\ \A k \in (d + 1) .. e :
            /\ off[k + 1] = off[k] + Len(Bytes(s[k]))
            /\ \A j \in 1 .. Len(Bytes(s[k])) : st[off[k] + j] = Bytes(s[k])[j]
      /\ \A k, m \in (d + 1) .. (e + 1) : k <= m => off[k] <= off[m]
  BY <1>1, <1>2 DEF Offsets
<1>5. PICK t : t = [s EXCEPT ![e] = g]  OBVIOUS
<1>6. /\ t \in Seq(Sent) /\ Len(t) = e /\ t[e] = g
      /\ \A k \in 1 .. (e - 1) : t[k] = s[k]
  BY <1>2, <1>3, <1>5
<1>7. PICK b, c : b = Bytes(f) /\ c = Bytes(g)  OBVIOUS
<1>8. /\ Len(b) = 2 + Len(f.data) /\ Len(c) = 2 + Len(g.data)
      /\ Len(g.data) \in Nat /\ Len(f.data) \in Nat
      /\ b[1] = 1 /\ c[1] = 1 /\ b[2] = f.plen /\ c[2] = g.plen
      /\ \A j \in 1 .. Len(f.data) : b[2 + j] = f.data[j]
      /\ \A j \in 1 .. Len(g.data) : c[2 + j] = g.data[j]
  BY <1>7, FrameBytes
<1>9. Len(c) = Len(b) - n /\ Len(c) \in Nat /\ Len(c) >= 2  BY <1>8
<1>10. ASSUME NEW j \in 1 .. Len(c)  PROVE c[j] = b[j]
  <2>1. CASE j = 1  BY <2>1, <1>8
  <2>2. CASE j = 2  BY <2>2, <1>8
  <2>3. CASE j > 2
    <3>1. PICK i : i = j - 2  OBVIOUS
    <3>2. i \in 1 .. Len(g.data) /\ i \in 1 .. Len(f.data) /\ 2 + i = j  BY <2>3, <3>1, <1>8
    <3> QED  BY <3>2, <1>8
  <2> QED  BY <2>1, <2>2, <2>3, <1>9
<1>11. /\ e \in (d + 1) .. e /\ e \in (d + 1) .. (e + 1) /\ e \in 1 .. (e + 1) 
       /\ e + 1 \in 1 .. (e + 1) /\ d + 1 \in 1 .. e
  BY <1>3
<1>12. off[e + 1] = off[e] + Len(b) /\ \A j \in 1 .. Len(b) : st[off[e] + j] = b[j]
  BY <1>2, <1>4, <1>7, <1>11
<1>13. PICK new : new = [off EXCEPT ![e + 1] = Len(p)]  OBVIOUS
<1>14. /\ new \in [1 .. (e + 1) -> Int] /\ new[e + 1] = Len(p)
       /\ \A k \in 1 .. e : new[k] = off[k] /\ off[k] \in Int
  BY <1>3, <1>4, <1>11, <1>13, SMTT(30)
<1>15. new[d + 1] = 0  BY <1>4, <1>11, <1>14
<1>16. off[e] + Len(c) = Len(p)
  <2>1. PICK x, lb, lc, lp, ls : /\ x = off[e] /\ lb = Len(b) /\ lc = Len(c)
                                 /\ lp = Len(p) /\ ls = Len(st)
    OBVIOUS
  <2>2. x \in Int /\ lb \in Nat /\ lc \in Nat /\ lp \in Nat /\ ls \in Nat
    <3>1. e \in 1 .. e  BY <1>3
    <3>2. x \in Int  BY <3>1, <2>1, <1>14
    <3>3. lb \in Nat /\ lc \in Nat  BY <2>1, <1>8
    <3> QED  BY <3>2, <3>3, <2>1, <1>3
  <2>3. ls = x + lb  BY <2>1, <1>4, <1>12
  <2>4. lp = ls - n  BY <2>1
  <2>5. lc = lb - n  BY <2>1, <1>9
  <2>6. x + lc = lp  BY <2>2, <2>3, <2>4, <2>5
  <2> QED  BY <2>1, <2>6
<1>17. ASSUME NEW k \in (d + 1) .. e
       PROVE  /\ new[k + 1] = new[k] + Len(Bytes(t[k]))
              /\ \A j \in 1 .. Len(Bytes(t[k])) : p[new[k] + j] = Bytes(t[k])[j]
  <2>1. PICK a : a = off[k]  OBVIOUS
  <2>2. d + 1 \in (d + 1) .. (e + 1) /\ k \in (d + 1) .. (e + 1) /\ d + 1 <= k /\ k \in 1 .. e
        /\ k + 1 \in (d + 1) .. (e + 1)
    BY <1>3
  <2>3. a \in Int /\ a >= 0 /\ new[k] = a  BY <2>1, <2>2, <1>4, <1>14
  <2>4. CASE k = e
    <3>1. Bytes(t[k]) = c  BY <2>4, <1>6, <1>7
    <3>2. new[k + 1] = new[k] + Len(c)  BY <2>1, <2>3, <2>4, <1>14, <1>16
    <3>3. ASSUME NEW j \in 1 .. Len(c)  PROVE p[a + j] = c[j]
      <4>1. a + j \in 1 .. Len(p) /\ j \in 1 .. Len(b)
        <5>1. PICK lb, lc, lp : lb = Len(b) /\ lc = Len(c) /\ lp = Len(p)  OBVIOUS
        <5>2. lc \in Nat /\ lp \in Nat /\ lb \in Nat /\ a + lc = lp /\ lc <= lb
          BY <5>1, <2>1, <2>4, <1>3, <1>8, <1>9, <1>16
        <5>3. j \in 1 .. lc  BY <5>1
        <5>4. a + j \in 1 .. lp /\ j \in 1 .. lb  BY <5>2, <5>3, <2>3
        <5> QED  BY <5>1, <5>4
      <4>2. p[a + j] = st[a + j]  BY <4>1
      <4>3. st[a + j] = b[j]  BY <4>1, <2>1, <2>4, <1>12
      <4> QED  BY <4>2, <4>3, <1>10
    <3> QED  BY <3>1, <3>2, <3>3, <2>3
  <2>5. CASE k < e
    <3>1. PICK l : l = Bytes(s[k])  OBVIOUS
    <3>2. k \in 1 .. (e - 1) /\ k + 1 \in 1 .. e /\ k + 1 <= e  BY <2>2, <2>5, <1>3
    <3>3. s[k] \in Sent  BY <2>2, <1>2
    <3>4. Len(l) \in Nat /\ t[k] = s[k]
      <4>1. Len(l) \in Nat  BY <3>1, <3>3, FrameBytes
      <4> QED  BY <4>1, <3>2, <1>6
    <3>5. off[k + 1] = a + Len(l) /\ \A j \in 1 .. Len(l) : st[a + j] = l[j]
      BY <2>1, <3>1, <1>4
    <3>6. off[k + 1] <= off[e]  BY <2>2, <3>2, <1>4, <1>11
    <3>7. a + Len(l) <= Len(p)
      <4>1. PICK x : x = off[e]  OBVIOUS
      <4>2. x \in Int /\ a + Len(l) <= x /\ x + Len(c) = Len(p)
        BY <4>1, <3>5, <3>6, <1>3, <1>14, <1>16
      <4>3. PICK lc, ll, lp : lc = Len(c) /\ ll = Len(l) /\ lp = Len(p)  OBVIOUS
      <4>4. lc \in Nat /\ ll \in Nat /\ lp \in Nat  BY <4>3, <3>4, <1>3, <1>9
      <4>5. a + ll <= x /\ x + lc = lp  BY <4>2, <4>3
      <4>6. a + ll <= lp  BY <4>2, <4>4, <4>5, <2>3
      <4> QED  BY <4>3, <4>6
    <3>8. ASSUME NEW j \in 1 .. Len(l)  PROVE p[a + j] = l[j]
      <4>1. a + j \in 1 .. Len(p)  BY <2>3, <3>4, <3>7, <1>3
      <4> QED  BY <4>1, <3>5
    <3>9. new[k + 1] = new[k] + Len(l)  BY <2>3, <3>2, <3>5, <1>14
    <3> QED  BY <3>1, <3>4, <3>8, <3>9, <2>3
  <2> QED  BY <2>4, <2>5, <1>3
<1>18. ASSUME NEW k \in (d + 1) .. (e + 1), NEW m \in (d + 1) .. (e + 1), k <= m
       PROVE  new[k] <= new[m]
  <2>1. CASE m <= e
    <3>1. k \in 1 .. e /\ m \in 1 .. e  BY <2>1, <1>18, <1>3
    <3> QED  BY <3>1, <1>4, <1>14, <1>18
  <2>2. CASE m = e + 1 /\ k <= e
    <3>1. k \in 1 .. e  BY <2>2, <1>3
    <3>2. PICK x, y : x = off[e] /\ y = off[k]  OBVIOUS
    <3>3. x \in Int /\ y \in Int /\ y <= x  BY <2>2, <3>1, <3>2, <1>4, <1>11, <1>14
    <3>4. x <= Len(p)
      <4>1. PICK lc, lp : lc = Len(c) /\ lp = Len(p)  OBVIOUS
      <4>2. lc \in Nat /\ lp \in Nat /\ x + lc = lp  BY <4>1, <3>2, <1>3, <1>9, <1>16
      <4>3. x <= lp  BY <4>2, <3>3
      <4> QED  BY <4>1, <4>3
    <3> QED  BY <2>2, <3>1, <3>2, <3>3, <3>4, <1>3, <1>14
  <2>3. CASE m = e + 1 /\ k = e + 1  BY <2>3, <1>3, <1>14
  <2> QED  BY <2>1, <2>2, <2>3, <1>3
<1>19. Len(t) = e /\ d \in 0 .. Len(t)  BY <1>3, <1>6
<1>20. Offsets(new, p, d, t)  BY <1>14, <1>15, <1>17, <1>18, <1>19 DEF Offsets
<1> QED  BY <1>2, <1>5, <1>19, <1>20 DEF Row

--------------------------------------------------------------------------------
(* Bytes on the move *)

LEMMA Moves ==
    ASSUME NEW S, NEW a \in Seq(S), NEW b \in Seq(S), NEW n \in 0 .. Len(b)
    PROVE  (a \o SubSeq(b, 1, n)) \o SubSeq(b, n + 1, Len(b)) = a \o b
<1>1. SubSeq(b, 1, n) \in Seq(S) /\ SubSeq(b, n + 1, Len(b)) \in Seq(S)  BY Prefix, Suffix
<1>2. 1 \in 1 .. (Len(b) + 1) /\ n \in (1 - 1) .. Len(b) /\ Len(b) \in n .. Len(b)  OBVIOUS
<1>3. SubSeq(b, 1, n) \o SubSeq(b, n + 1, Len(b)) = SubSeq(b, 1, Len(b))
  BY <1>2, ConcatAdjacentSubSeq
<1>4. SubSeq(b, 1, Len(b)) = b  BY SubSeqFull
<1>5. PICK c, e : c = SubSeq(b, 1, n) /\ e = SubSeq(b, n + 1, Len(b))  OBVIOUS
<1>6. c \in Seq(S) /\ e \in Seq(S)  BY <1>1, <1>5
<1>7. (a \o c) \o e = a \o (c \o e)  BY <1>6, ConcatAssociative, SMTT(30)
<1>8. c \o e = b  BY <1>3, <1>4, <1>5
<1> QED  BY <1>5, <1>7, <1>8

LEMMA BehindOf ==
    ASSUME NEW S, NEW a \in Seq(S), NEW b \in Seq(S), NEW n \in 0 .. Len(a)
    PROVE  SubSeq(a \o b, n + 1, Len(a \o b)) = SubSeq(a, n + 1, Len(a)) \o b
<1>1. PICK c, e : c = a \o b /\ e = SubSeq(a, n + 1, Len(a))  OBVIOUS
<1>2. /\ c \in Seq(S) /\ Len(c) = Len(a) + Len(b)
      /\ \A i \in 1 .. Len(a) + Len(b) : c[i] = IF i <= Len(a) THEN a[i] ELSE b[i - Len(a)]
  BY <1>1, ConcatProperties
<1>3. /\ e \in Seq(S) /\ Len(e) = Len(a) - n
      /\ \A i \in 1 .. (Len(a) - n) : e[i] = a[n + i]
  BY <1>1, Suffix
<1>4. n \in 0 .. Len(c) /\ Len(a) \in Nat /\ Len(b) \in Nat  BY <1>2
<1>5. PICK u : u = SubSeq(c, n + 1, Len(c))  OBVIOUS
<1>6. /\ u \in Seq(S) /\ Len(u) = Len(c) - n
      /\ \A i \in 1 .. (Len(c) - n) : u[i] = c[n + i]
  BY <1>2, <1>4, <1>5, Suffix
<1>7. PICK v : v = e \o b  OBVIOUS
<1>8. /\ v \in Seq(S) /\ Len(v) = Len(e) + Len(b)
      /\ \A i \in 1 .. Len(e) + Len(b) : v[i] = IF i <= Len(e) THEN e[i] ELSE b[i - Len(e)]
  BY <1>3, <1>7, ConcatProperties
<1>9. Len(u) = Len(v)  BY <1>2, <1>3, <1>4, <1>6, <1>8
<1>10. ASSUME NEW i \in 1 .. Len(u)  PROVE u[i] = v[i]
  <2>1. i \in 1 .. (Len(c) - n) /\ i \in 1 .. (Len(e) + Len(b)) /\ n + i \in 1 .. (Len(a) + Len(b))
        /\ i \in Int
    BY <1>2, <1>3, <1>4, <1>6
  <2>2. u[i] = c[n + i] /\ c[n + i] = IF n + i <= Len(a) THEN a[n + i] ELSE b[(n + i) - Len(a)]
    BY <2>1, <1>2, <1>6
  <2>3. v[i] = IF i <= Len(e) THEN e[i] ELSE b[i - Len(e)]  BY <2>1, <1>8
  <2>4. CASE n + i <= Len(a)
    <3>1. i <= Len(e) /\ i \in 1 .. (Len(a) - n)  BY <2>1, <2>4, <1>3, <1>4
    <3> QED  BY <2>2, <2>3, <2>4, <3>1, <1>3
  <2>5. CASE ~ (n + i <= Len(a))
    <3>1. ~ (i <= Len(e)) /\ i - Len(e) = (n + i) - Len(a)  BY <2>1, <2>5, <1>3, <1>4
    <3> QED  BY <2>2, <2>3, <2>5, <3>1
  <2> QED  BY <2>4, <2>5
<1>11. u = v  BY <1>6, <1>8, <1>9, <1>10, SeqEqual
<1> QED  BY <1>1, <1>5, <1>7, <1>11

LEMMA Joined ==
    ASSUME NEW S, NEW a \in Seq(S), NEW b \in Seq(S), NEW c \in Seq(S)
    PROVE  /\ (a \o b) \o c \in Seq(S)
           /\ Len((a \o b) \o c) = Len(a) + Len(b) + Len(c)
           /\ \A i \in 1 .. Len(a) : ((a \o b) \o c)[i] = a[i]
           /\ \A i \in 1 .. Len(a \o b) : ((a \o b) \o c)[i] = (a \o b)[i]
           /\ Len(a \o b) = Len(a) + Len(b) /\ a \o b \in Seq(S)
<1>1. PICK d : d = a \o b  OBVIOUS
<1>2. /\ d \in Seq(S) /\ Len(d) = Len(a) + Len(b)
      /\ \A i \in 1 .. Len(a) + Len(b) : d[i] = IF i <= Len(a) THEN a[i] ELSE b[i - Len(a)]
  BY <1>1, ConcatProperties
<1>3. PICK e : e = d \o c  OBVIOUS
<1>4. d \in Seq(S)  BY <1>2
<1>5. /\ e \in Seq(S) /\ Len(e) = Len(d) + Len(c)
       /\ \A i \in 1 .. Len(d) + Len(c) : e[i] = IF i <= Len(d) THEN d[i] ELSE c[i - Len(d)]
  BY <1>3, <1>4, ConcatProperties
<1>6. Len(a) \in Nat /\ Len(b) \in Nat /\ Len(c) \in Nat  OBVIOUS
<1>7. \A i \in 1 .. Len(d) : e[i] = d[i]  BY <1>2, <1>5, <1>6
<1>8. \A i \in 1 .. Len(a) : d[i] = a[i] /\ i \in 1 .. Len(d)  BY <1>2, <1>6
<1> QED  BY <1>1, <1>2, <1>3, <1>7, <1>8, <1>5

(* The length of a frame, as the device computes it. *)
LEMMA TotalLength ==
    ASSUME NEW n \in Byte
    PROVE  /\ HEADER_BYTES + n < U16 => (HEADER_BYTES + n) % U16 = HEADER_BYTES + n
           /\ HEADER_BYTES + n >= U16 => (HEADER_BYTES + n) % U16 \in {0, 1}
           /\ (HEADER_BYTES + n) % U16 \in Nat
BY FramingAssumption DEF Byte, HEADER_BYTES

--------------------------------------------------------------------------------
(* The steps *)

QueueStep == Queue!Next \/ UNCHANGED <<sent, done, lost>>

LEMMA InitIInv == Init => IInv
<1> SUFFICES ASSUME Init  PROVE IInv  OBVIOUS
<1>1. Len(<< >>) = 0 /\ \A S : << >> \in Seq(S)  OBVIOUS
<1>2. TypeOK  BY <1>1, FramingAssumption DEF Init, TypeOK
<1>3. History  BY <1>1 DEF Init, History
<1>4. Stream = << >>  BY DEF Init, Stream
<1>5. InStep  BY <1>1, <1>4, EmptyRow DEF Init, InStep
<1> QED  BY <1>2, <1>3, <1>5 DEF IInv

LEMMA Typed ==
    ASSUME IInv
    PROVE  /\ wire \in Seq(Byte) /\ fifo \in Seq(Byte) /\ rx \in Seq(Byte)
           /\ Len(wire) \in Nat /\ Len(fifo) \in Nat /\ Len(rx) \in Nat
           /\ Len(fifo) <= FIFO_BYTES /\ Len(rx) <= RX_BUF_BYTES
           /\ sent \in Seq(Sent) /\ Len(sent) \in Nat
           /\ done \in Seq([cmd : Byte, plen : Byte, data : Seq(Byte)]) /\ Len(done) \in Nat
           /\ Stream \in Seq(Byte) /\ Len(Stream) = Len(rx) + Len(fifo) + Len(wire)
           /\ \A i \in 1 .. Len(rx) : Stream[i] = rx[i]
<1>1. wire \in Seq(Byte) /\ fifo \in Seq(Byte) /\ rx \in Seq(Byte)
  BY DEF IInv, TypeOK, Byte
<1>2. Len(fifo) <= FIFO_BYTES /\ Len(rx) <= RX_BUF_BYTES  BY DEF IInv, TypeOK
<1>3. sent \in Seq(Sent) /\ done \in Seq([cmd : Byte, plen : Byte, data : Seq(Byte)])
  BY DEF IInv, History
<1>4. Len(wire) \in Nat /\ Len(fifo) \in Nat /\ Len(rx) \in Nat  BY <1>1
<1>5. Len(sent) \in Nat /\ Len(done) \in Nat  BY <1>3
<1>6. /\ Stream \in Seq(Byte) /\ Len(Stream) = Len(rx) + Len(fifo) + Len(wire)
      /\ \A i \in 1 .. Len(rx) : Stream[i] = rx[i]
  BY <1>1, Joined DEF Stream
<1> QED  BY <1>1, <1>2, <1>3, <1>4, <1>5, <1>6

LEMMA SendsStep ==
    ASSUME IInv, HostSends
    PROVE  IInv' /\ QueueStep
<1>1. PICK f \in Frames : sent' = Append(sent, f) /\ wire' = wire \o Bytes(f)
  BY DEF HostSends
<1>2. fifo' = fifo /\ rx' = rx /\ pc' = pc /\ done' = done /\ lost' = lost
  BY DEF HostSends
<1>3. f \in Sent  BY WholeFrame
<1>4. PICK b : b = Bytes(f)  OBVIOUS
<1>5. b \in Seq(Byte) /\ wire \in Seq(Byte)  BY <1>3, <1>4, FrameBytes, Typed
<1>6. wire \o b \in Seq(Byte)  BY <1>5, ConcatProperties
<1>7. TypeOK'
  BY <1>1, <1>2, <1>4, <1>6 DEF IInv, TypeOK, Byte
<1>8. sent' \in Seq(Sent) /\ Len(sent') = Len(sent) + 1 /\ sent'[Len(sent')] = f
      /\ Len(sent) \in Nat
  BY <1>1, <1>3, Typed
<1>9. History'
  <2>1. Len(<< >>) = 0  OBVIOUS
  <2>2. sent' # << >>  BY <2>1, <1>8
  <2> QED  BY <1>2, <1>8, <2>2 DEF IInv, History
<1>10. InStep'
  <2>1. PICK a : a = rx \o fifo  OBVIOUS
  <2>2. a \in Seq(Byte)  BY <2>1, Typed, ConcatProperties
  <2>3. (a \o wire) \o b = a \o (wire \o b)  BY <2>2, <1>5, ConcatAssociative, SMTT(30)
  <2>4. Stream' = Stream \o b  BY <2>1, <2>3, <1>1, <1>2, <1>4 DEF Stream
  <2>5. ASSUME ~ lost  PROVE Row(Stream', Len(done'), sent')
    <3>1. Row(Stream, Len(done), sent)  BY <2>5 DEF IInv, InStep
    <3>2. Stream \in Seq(Byte) /\ sent \in Seq(Sent)  BY Typed
    <3>3. Row(Stream \o Bytes(f), Len(done), Append(sent, f))  BY <3>1, <3>2, <1>3, RowGrows
    <3> QED  BY <3>3, <2>4, <1>1, <1>2, <1>4
  <2> QED  BY <2>5, <1>2 DEF InStep
<1>11. Queue!Send  BY <1>1, <1>2 DEF Queue!Send
<1> QED  BY <1>7, <1>9, <1>10, <1>11 DEF IInv, QueueStep, Queue!Next

LEMMA ArrivesStep ==
    ASSUME IInv, PacketArrives
    PROVE  IInv' /\ QueueStep
<1>1. PICK n \in 1 .. Smaller(Len(wire), FIFO_BYTES - Len(fifo)) :
        fifo' = fifo \o SubSeq(wire, 1, n) /\ wire' = SubSeq(wire, n + 1, Len(wire))
  BY DEF PacketArrives
<1>2. rx' = rx /\ pc' = pc /\ sent' = sent /\ done' = done /\ lost' = lost
  BY DEF PacketArrives
<1>3. n \in 0 .. Len(wire) /\ n <= FIFO_BYTES - Len(fifo) /\ n >= 1
  BY Typed, FramingAssumption DEF Smaller
<1>4. PICK b, c : b = SubSeq(wire, 1, n) /\ c = SubSeq(wire, n + 1, Len(wire))  OBVIOUS
<1>5. b \in Seq(Byte) /\ Len(b) = n /\ c \in Seq(Byte)
  BY <1>3, <1>4, Typed, Prefix, Suffix
<1>6. fifo \o b \in Seq(Byte) /\ Len(fifo \o b) = Len(fifo) + n
  BY <1>5, Typed, ConcatProperties
<1>7. Len(fifo \o b) <= FIFO_BYTES  BY <1>3, <1>6, Typed, FramingAssumption
<1>8. TypeOK'  BY <1>1, <1>2, <1>4, <1>5, <1>6, <1>7 DEF IInv, TypeOK, Byte
<1>9. wire # << >>
  <2>1. Len(<< >>) = 0  OBVIOUS
  <2> QED  BY <2>1, <1>3
<1>10. History'  BY <1>2, <1>9 DEF IInv, History
<1>11. Stream' = Stream
  <2>1. rx \in Seq(Byte) /\ fifo \in Seq(Byte) /\ b \in Seq(Byte)  BY <1>5, Typed
  <2>2. PICK a : a = rx \o fifo  OBVIOUS
  <2>3. a \in Seq(Byte)  BY <2>2, Typed, ConcatProperties
  <2>4. (a \o b) \o c = a \o wire  BY <2>3, <1>3, <1>4, Typed, Moves
  <2>5. rx \o (fifo \o b) = a \o b  BY <2>1, <2>2, ConcatAssociative, SMTT(30)
  <2> QED  BY <2>2, <2>4, <2>5, <1>1, <1>2, <1>4 DEF Stream
<1>12. InStep'  BY <1>2, <1>11 DEF IInv, InStep
<1>13. UNCHANGED <<sent, done, lost>>  BY <1>2
<1> QED  BY <1>8, <1>10, <1>12, <1>13 DEF IInv, QueueStep

LEMMA DrainStep ==
    ASSUME IInv, Drain
    PROVE  IInv' /\ QueueStep
<1>1. PICK n : n = Smaller(Len(fifo), Room)  OBVIOUS
<1>2. /\ rx' = rx \o SubSeq(fifo, 1, n) /\ fifo' = SubSeq(fifo, n + 1, Len(fifo))
      /\ wire' = wire /\ sent' = sent /\ done' = done /\ lost' = lost /\ pc' = "peel"
  BY <1>1 DEF Drain
<1>3. n \in 0 .. Len(fifo) /\ n <= RX_BUF_BYTES - Len(rx)
  BY <1>1, Typed, FramingAssumption DEF Smaller, Room
<1>4. PICK b, c : b = SubSeq(fifo, 1, n) /\ c = SubSeq(fifo, n + 1, Len(fifo))  OBVIOUS
<1>5. b \in Seq(Byte) /\ Len(b) = n /\ c \in Seq(Byte) /\ Len(c) = Len(fifo) - n
  BY <1>3, <1>4, Typed, Prefix, Suffix
<1>6. rx \o b \in Seq(Byte) /\ Len(rx \o b) = Len(rx) + n
  BY <1>5, Typed, ConcatProperties
<1>7. Len(rx \o b) <= RX_BUF_BYTES /\ Len(c) <= FIFO_BYTES
  BY <1>3, <1>5, <1>6, Typed, FramingAssumption
<1>8. TypeOK'  BY <1>2, <1>4, <1>5, <1>6, <1>7 DEF IInv, TypeOK, Byte
<1>9. History'  BY <1>2 DEF IInv, History
<1>10. Stream' = Stream
  <2>1. (rx \o b) \o c = rx \o fifo  BY <1>3, <1>4, Typed, Moves
  <2> QED  BY <2>1, <1>2, <1>4 DEF Stream
<1>11. InStep'  BY <1>2, <1>10 DEF IInv, InStep
<1>12. UNCHANGED <<sent, done, lost>>  BY <1>2
<1> QED  BY <1>8, <1>9, <1>11, <1>12 DEF IInv, QueueStep

LEMMA IncompleteStep ==
    ASSUME IInv, PeelIncomplete
    PROVE  IInv' /\ QueueStep
<1>1. /\ wire' = wire /\ fifo' = fifo /\ rx' = rx /\ pc' = "drain"
      /\ sent' = sent /\ done' = done /\ lost' = lost
  BY DEF PeelIncomplete
<1>2. TypeOK'  BY <1>1 DEF IInv, TypeOK
<1>3. History'  BY <1>1 DEF IInv, History
<1>4. InStep'  BY <1>1 DEF IInv, InStep, Stream
<1> QED  BY <1>1, <1>2, <1>3, <1>4 DEF IInv, QueueStep

LEMMA AbandonsStep ==
    ASSUME IInv, HostAbandons
    PROVE  IInv' /\ QueueStep
<1>1. PICK k, f, n : k = Len(sent) /\ f = sent[k] /\ n = Len(wire)  OBVIOUS
<1>2. k \in 1 .. Len(sent) /\ f \in Frames /\ f \in Sent /\ n \in Nat /\ n > 0
  <2>1. wire # << >>  BY DEF HostAbandons
  <2>2. sent # << >> /\ f \in Frames  BY <2>1, <1>1 DEF IInv, History
  <2>3. Len(sent) \in Nat \ {0}  BY <2>2, Typed
  <2>4. n \in Nat \ {0}  BY <2>1, <1>1, Typed
  <2> QED  BY <2>2, <2>3, <2>4, <1>1, WholeFrame
<1>3. PICK left : left = Len(f.data) - n  OBVIOUS
<1>4. /\ left >= 0 /\ sent' = [sent EXCEPT ![k].data = SubSeq(@, 1, left)]
      /\ wire' = << >>
      /\ fifo' = fifo /\ rx' = rx /\ pc' = pc /\ done' = done /\ lost' = lost
  BY <1>1, <1>3 DEF HostAbandons, Last
<1>5. Len(f.data) \in Nat  BY <1>2, FrameBytes
<1>6. left \in Nat /\ left < Len(f.data)  BY <1>2, <1>3, <1>4, <1>5
<1>7. PICK g : g = [f EXCEPT !.data = SubSeq(@, 1, left)]  OBVIOUS
<1>8. g \in Stumps /\ g = [cmd |-> f.cmd, plen |-> f.plen, data |-> SubSeq(f.data, 1, left)]
  BY <1>2, <1>6, <1>7, Abandoned
<1>9. sent' = [sent EXCEPT ![k] = g]  BY <1>1, <1>4, <1>7
<1>10. g \in Sent  BY <1>8 DEF Sent
<1>11. /\ sent' \in Seq(Sent) /\ Len(sent') = k
  BY <1>1, <1>2, <1>9, <1>10, Typed
<1>12. Len(<< >>) = 0 /\ << >> \in Seq(0 .. (U16 - 1)) /\ << >> \in Seq(Byte)  OBVIOUS
<1>13. TypeOK'  BY <1>4, <1>12 DEF IInv, TypeOK
<1>14. History'  BY <1>4, <1>11 DEF IInv, History
<1>15. ASSUME ~ lost  PROVE Row(Stream', Len(done), sent') /\ Len(done) < Len(sent)
  <2>row. Row(Stream, Len(done), sent)  BY <1>15 DEF IInv, InStep
  <2>names. PICK st, p : st = Stream /\ p = rx \o fifo  OBVIOUS
  <2>lengths. st \in Seq(Byte) /\ p \in Seq(Byte) /\ Len(st) = Len(p) + n /\ Len(p) \in Nat
        /\ \A i \in 1 .. Len(p) : p[i] = st[i]
    BY <2>names, <1>1, Typed, Joined DEF Stream
  <2>more. Len(st) > 0 /\ Len(p) = Len(st) - n  BY <2>lengths, <1>2
  <2>sent. sent \in Seq(Sent)  BY Typed
  <2>6. Len(done) < Len(sent)  BY <2>row, <2>names, <2>lengths, <2>more, <2>sent, FirstFrame
  <2>7. p \o << >> = p  BY <2>lengths, ConcatEmptySeq
  <2>8. Stream' = p  BY <2>names, <2>7, <1>4 DEF Stream
  <2>9. /\ g.plen = f.plen /\ Len(g.data) = Len(f.data) - n
        /\ \A i \in 1 .. Len(g.data) : g.data[i] = f.data[i]
    <3>1. PICK e : e = f.data  OBVIOUS
    <3>2. e \in Seq(Byte) /\ left \in 0 .. Len(e)  BY <3>1, <1>2, <1>5, <1>6, FrameShape
    <3>3. Len(SubSeq(e, 1, left)) = left /\ \A i \in 1 .. left : SubSeq(e, 1, left)[i] = e[i]
      BY <3>2, Prefix
    <3>4. g.plen = f.plen /\ g.data = SubSeq(e, 1, left)  BY <3>1, <1>8
    <3> QED  BY <3>1, <3>3, <3>4, <1>3
  <2>10. Row(st, Len(done), sent)  BY <2>row, <2>names
  <2>11. Row(p, Len(done), [sent EXCEPT ![Len(sent)] = g])
    BY <2>lengths, <2>more, <2>sent, <2>6, <2>9, <2>10, <1>1, <1>2, <1>10, RowIsCutShort
  <2> QED  BY <2>6, <2>8, <2>11, <1>1, <1>9
<1>16. InStep'  BY <1>4, <1>15 DEF InStep
<1>17. Queue!Abandon
  <2>1. lost \/ Len(done) < Len(sent)  BY <1>15
  <2>2. \E h \in Stumps \cup Wrapped : sent' = [sent EXCEPT ![Len(sent)] = h]
    BY <1>1, <1>8, <1>9
  <2> QED  BY <2>1, <2>2, <1>4 DEF Queue!Abandon
<1> QED  BY <1>13, <1>14, <1>16, <1>17 DEF IInv, QueueStep, Queue!Next

(* The front of the buffer, in step: the oldest frame not dispatched. *)
LEMMA InFront ==
    ASSUME IInv, ~ lost, Len(rx) >= HEADER_BYTES, NEW f, f = sent[Len(done) + 1]
    PROVE  /\ Len(done) < Len(sent) /\ f \in Sent
           /\ rx[1] = f.cmd /\ plen = f.plen
           /\ \A i \in 1 .. Len(f.data) :
                HEADER_BYTES + i <= Len(rx) => rx[HEADER_BYTES + i] = f.data[i]
<1>1. PICK st, s, d : st = Stream /\ s = sent /\ d = Len(done)  OBVIOUS
<1>2. st \in Seq(Byte) /\ s \in Seq(Sent) /\ Row(st, d, s)
  BY <1>1, Typed DEF IInv, InStep
<1>3. Len(st) > 0 /\ Len(rx) \in Nat /\ Len(rx) >= 2 /\ \A i \in 1 .. Len(rx) : st[i] = rx[i]
  BY <1>1, Typed DEF HEADER_BYTES
<1>4. PICK b : b = Bytes(f)  OBVIOUS
<1>5. /\ d + 1 \in 1 .. Len(s) /\ d < Len(s)
      /\ \A j \in 1 .. Len(b) : st[j] = b[j]
  BY <1>1, <1>2, <1>3, <1>4, FirstFrame
<1>6. f \in Sent  BY <1>1, <1>2, <1>5
<1>7. /\ Len(b) = 2 + Len(f.data) /\ Len(f.data) \in Nat /\ b[1] = 1 /\ b[2] = f.plen
      /\ \A j \in 1 .. Len(f.data) : b[2 + j] = f.data[j]
  BY <1>4, <1>6, FrameBytes
<1>8. 1 \in 1 .. Len(b) /\ 2 \in 1 .. Len(b) /\ 1 \in 1 .. Len(rx) /\ 2 \in 1 .. Len(rx)
  BY <1>3, <1>7
<1>9. rx[1] = f.cmd /\ rx[2] = f.plen  BY <1>3, <1>5, <1>6, <1>7, <1>8, FrameShape
<1>10. ASSUME NEW i \in 1 .. Len(f.data), 2 + i <= Len(rx)  PROVE rx[2 + i] = f.data[i]
  <2>1. 2 + i \in 1 .. Len(rx) /\ 2 + i \in 1 .. Len(b)  BY <1>3, <1>7, <1>10
  <2> QED  BY <2>1, <1>3, <1>5, <1>7
<1> QED  BY <1>1, <1>5, <1>6, <1>9, <1>10 DEF plen, HEADER_BYTES

LEMMA OversizedStep ==
    ASSUME IInv, PeelOversized
    PROVE  IInv' /\ QueueStep
<1>1. /\ Len(rx) >= HEADER_BYTES /\ total > RX_BUF_BYTES
      /\ rx' = << >> /\ pc' = "drain" /\ lost' = TRUE
      /\ wire' = wire /\ fifo' = fifo /\ sent' = sent /\ done' = done
  BY DEF PeelOversized, HasHeader
<1>2. Len(<< >>) = 0 /\ << >> \in Seq(0 .. (U16 - 1))  OBVIOUS
<1>3. TypeOK'  BY <1>1, <1>2, FramingAssumption DEF IInv, TypeOK
<1>4. History'  BY <1>1 DEF IInv, History
<1>5. InStep'  BY <1>1 DEF InStep
<1>6. CASE lost
  <2>1. Queue!OutOfStep  BY <1>1, <1>6 DEF Queue!OutOfStep, IInv, History
  <2> QED  BY <2>1, <1>3, <1>4, <1>5 DEF IInv, QueueStep, Queue!Next
<1>7. CASE ~ lost
  <2>1. PICK f : f = sent[Len(done) + 1]  OBVIOUS
  <2>2. Len(done) < Len(sent) /\ f \in Sent /\ plen = f.plen  BY <2>1, <1>1, <1>7, InFront
  <2>3. f.plen \in Byte  BY <2>2, FrameShape
  <2>4. total = (HEADER_BYTES + f.plen) % U16  BY <2>2 DEF total
  <2>5. HEADER_BYTES + f.plen < U16 /\ total = HEADER_BYTES + f.plen
    <3>1. f.plen \in Nat /\ HEADER_BYTES \in Nat  BY <2>3, FramingAssumption DEF Byte, HEADER_BYTES
    <3>2. ASSUME HEADER_BYTES + f.plen >= U16  PROVE FALSE
      <4>1. total \in {0, 1}  BY <2>3, <2>4, <3>2, TotalLength
      <4> QED  BY <4>1, <1>1, FramingAssumption DEF HEADER_BYTES
    <3>3. HEADER_BYTES + f.plen < U16  BY <3>1, <3>2, FramingAssumption
    <3> QED  BY <3>3, <2>3, <2>4, TotalLength
  <2>6. f \in TooLong  BY <2>2, <2>5, <1>1 DEF TooLong, Sent
  <2>7. f \notin Wrapped
    <3>1. f.plen \in Nat  BY <2>3, FramingAssumption DEF Byte
    <3> QED  BY <3>1, <2>5, FramingAssumption DEF Wrapped, HEADER_BYTES
  <2>8. Queue!Waiting /\ Queue!Oldest = f  BY <2>1, <2>2, <1>7 DEF Queue!Waiting, Queue!Oldest
  <2>9. Queue!Reject  BY <2>6, <2>7, <2>8, <1>1 DEF Queue!Reject
  <2> QED  BY <2>9, <1>3, <1>4, <1>5 DEF IInv, QueueStep, Queue!Next
<1> QED  BY <1>6, <1>7

(* What a whole frame in front looks like to the device. *)
LEMMA WholeInFront ==
    ASSUME IInv, ~ lost, Len(rx) >= HEADER_BYTES, total <= RX_BUF_BYTES, Len(rx) >= total,
           NEW f, f = sent[Len(done) + 1], f \in Frames \ Wrapped
    PROVE  total = HEADER_BYTES + plen /\ Dispatched = f
<1>1. f \in Sent /\ rx[1] = f.cmd /\ plen = f.plen
      /\ \A i \in 1 .. Len(f.data) :
            HEADER_BYTES + i <= Len(rx) => rx[HEADER_BYTES + i] = f.data[i]
  BY InFront
<1>2. f.plen \in Byte /\ f.plen \in Nat  BY <1>1, FrameShape, FramingAssumption DEF Byte
<1>3. HEADER_BYTES + f.plen < U16
  BY <1>2, FramingAssumption DEF Wrapped, HEADER_BYTES
<1>4. total = HEADER_BYTES + f.plen  BY <1>1, <1>2, <1>3, TotalLength DEF total
<1>5. Len(f.data) = f.plen
  <2>1. Len(f.data) = Held(f.plen)  BY WholeFrame
  <2> QED  BY <2>1, <1>2, <1>4, FramingAssumption DEF Held, Smaller, HEADER_BYTES
<1>6. PICK n, e : n = f.plen /\ e = SubSeq(rx, HEADER_BYTES + 1, HEADER_BYTES + n)  OBVIOUS
<1>7. Len(rx) \in Nat /\ n \in Nat /\ 2 + n <= Len(rx) /\ rx \in Seq(Byte)
  BY <1>2, <1>4, <1>6, Typed DEF HEADER_BYTES
<1>8. e \in Seq(Byte) /\ Len(e) = n /\ \A i \in 1 .. n : e[i] = rx[2 + i]
  <2>1. \A i \in 3 .. (2 + n) : rx[i] \in Byte  BY <1>7, ElementOfSeq
  <2>2. 3 \in Int /\ 2 + n \in Int /\ (2 + n) - 3 + 1 = n /\ e = SubSeq(rx, 3, 2 + n)
    BY <1>6, <1>7 DEF HEADER_BYTES
  <2>3. /\ e \in Seq(Byte) /\ Len(e) = (IF 3 <= 2 + n THEN (2 + n) - 3 + 1 ELSE 0)
        /\ \A i \in 1 .. ((2 + n) - 3 + 1) : e[i] = rx[3 + i - 1]
    BY <2>1, <2>2, SubSeqProperties
  <2>4. \A i \in 1 .. n : 3 + i - 1 = 2 + i  OBVIOUS
  <2>5. (IF 3 <= 2 + n THEN (2 + n) - 3 + 1 ELSE 0) = n  BY <1>7
  <2> QED  BY <2>2, <2>3, <2>4, <2>5
<1>9. PICK c : c = f.data  OBVIOUS
<1>10. c \in Seq(Byte) /\ Len(c) = n  BY <1>1, <1>5, <1>6, <1>9, FrameShape
<1>11. \A i \in 1 .. n : rx[2 + i] = c[i]
  <2>1. \A i \in 1 .. n : 2 + i <= Len(rx)  BY <1>7
  <2> QED  BY <2>1, <1>1, <1>9, <1>10 DEF HEADER_BYTES
<1>12. e = c  BY <1>8, <1>10, <1>11, SeqEqual
<1>13. Smaller(HEADER_BYTES + plen, Len(rx)) = HEADER_BYTES + n
  BY <1>1, <1>6, <1>7 DEF Smaller, HEADER_BYTES
<1>14. Dispatched = [cmd |-> f.cmd, plen |-> f.plen, data |-> c]
  BY <1>1, <1>6, <1>12, <1>13 DEF Dispatched
<1>15. f = [cmd |-> f.cmd, plen |-> f.plen, data |-> c]  BY <1>1, <1>9, FrameShape
<1> QED  BY <1>1, <1>4, <1>14, <1>15

LEMMA DispatchedType ==
    ASSUME IInv, Len(rx) >= HEADER_BYTES
    PROVE  /\ Dispatched \in [cmd : Byte, plen : Byte, data : Seq(Byte)]
           /\ HEADER_BYTES + plen <= Len(rx) => Len(Dispatched.data) = plen
           /\ plen \in Byte /\ plen \in Nat /\ total \in Nat
<1>1. rx \in Seq(Byte) /\ Len(rx) \in Nat /\ Len(rx) >= 2  BY Typed DEF HEADER_BYTES
<1>2. rx[1] \in Byte /\ rx[2] \in Byte  BY <1>1, ElementOfSeq
<1>3. plen \in Byte /\ plen \in Nat  BY <1>2, FramingAssumption DEF plen, HEADER_BYTES, Byte
<1>4. total \in Nat  BY <1>3, TotalLength DEF total
<1>5. PICK n, m : n = plen /\ m = Smaller(HEADER_BYTES + n, Len(rx))  OBVIOUS
<1>6. m \in Nat /\ m <= Len(rx) /\ (2 + n <= Len(rx) => m = 2 + n) /\ n \in Nat
  BY <1>1, <1>3, <1>5 DEF Smaller, HEADER_BYTES
<1>7. PICK e : e = SubSeq(rx, 3, m)  OBVIOUS
<1>8. e \in Seq(Byte) /\ Len(e) = (IF 3 <= m THEN m - 3 + 1 ELSE 0)
  <2>1. \A i \in 3 .. m : rx[i] \in Byte  BY <1>1, <1>6, ElementOfSeq
  <2>2. 3 \in Int /\ m \in Int  BY <1>6
  <2> QED  BY <2>1, <2>2, <1>7, SubSeqProperties
<1>9. Dispatched = [cmd |-> rx[1], plen |-> plen, data |-> e]
  BY <1>5, <1>7 DEF Dispatched, HEADER_BYTES
<1>10. Dispatched \in [cmd : Byte, plen : Byte, data : Seq(Byte)]  BY <1>2, <1>3, <1>8, <1>9
<1>11. 2 + n <= Len(rx) => Len(e) = n  BY <1>6, <1>8
<1> QED  BY <1>3, <1>4, <1>5, <1>9, <1>10, <1>11 DEF HEADER_BYTES

LEMMA FrameStep ==
    ASSUME IInv, PeelFrame
    PROVE  IInv' /\ QueueStep
<1>1. /\ Len(rx) >= HEADER_BYTES /\ total <= RX_BUF_BYTES /\ Len(rx) >= total
      /\ done' = (IF lost THEN done ELSE Append(done, Dispatched))
      /\ lost' = (lost \/ total # HEADER_BYTES + plen \/ Dispatched # sent[Len(done) + 1])
      /\ rx' = SubSeq(rx, total + 1, Len(rx))
      /\ wire' = wire /\ fifo' = fifo /\ pc' = pc /\ sent' = sent
  BY DEF PeelFrame, HasHeader, Behind
<1>2. PICK f, n : f = sent[Len(done) + 1] /\ n = total  OBVIOUS
<1>3. n \in 0 .. Len(rx) /\ n \in Nat /\ Len(rx) \in Nat  BY <1>1, <1>2, DispatchedType, Typed
<1>4. PICK r : r = SubSeq(rx, n + 1, Len(rx))  OBVIOUS
<1>5. r \in Seq(Byte) /\ Len(r) = Len(rx) - n  BY <1>3, <1>4, Typed, Suffix
<1>6. TypeOK'
  <2>1. Len(r) <= RX_BUF_BYTES  BY <1>3, <1>5, Typed, FramingAssumption
  <2> QED  BY <2>1, <1>1, <1>2, <1>4, <1>5 DEF IInv, TypeOK, Byte
<1>7. History'
  <2>1. PICK D : D = [cmd : Byte, plen : Byte, data : Seq(Byte)]  OBVIOUS
  <2>2. PICK x : x = Dispatched  OBVIOUS
  <2>3. x \in D /\ done \in Seq(D)  BY <2>1, <2>2, <1>1, DispatchedType, Typed
  <2>4. Append(done, x) \in Seq(D)  BY <2>3
  <2>5. done' \in Seq(D)  BY <2>2, <2>3, <2>4, <1>1
  <2>6. lost' \in BOOLEAN  BY <1>1
  <2> QED  BY <2>1, <2>5, <2>6, <1>1 DEF IInv, History
<1>8. CASE lost
  <2>1. lost = TRUE /\ lost' = TRUE /\ done' = done  BY <1>1, <1>8 DEF IInv, History
  <2>2. InStep'  BY <2>1 DEF InStep
  <2>3. Queue!OutOfStep  BY <2>1, <1>1 DEF Queue!OutOfStep
  <2> QED  BY <2>2, <2>3, <1>6, <1>7 DEF IInv, QueueStep, Queue!Next
<1>9. CASE ~ lost /\ ~ (n = HEADER_BYTES + plen /\ Dispatched = f)
  <2>1. lost' = TRUE  BY <1>1, <1>2, <1>9
  <2>2. InStep'  BY <2>1 DEF InStep
  <2>3. Len(done) < Len(sent) /\ f \in Sent  BY <1>1, <1>2, <1>9, InFront
  <2>4. f \notin Frames \ Wrapped  BY <1>1, <1>2, <1>9, WholeInFront
  <2>5. f \in Stumps \cup Wrapped  BY <2>3, <2>4 DEF Sent
  <2>6. Queue!Waiting /\ Queue!Oldest = f
    BY <2>3, <1>2, <1>9 DEF Queue!Waiting, Queue!Oldest
  <2>7. Queue!Confuse  BY <2>1, <2>5, <2>6, <1>1 DEF Queue!Confuse
  <2> QED  BY <2>2, <2>7, <1>6, <1>7 DEF IInv, QueueStep, Queue!Next
<1>10. CASE ~ lost /\ n = HEADER_BYTES + plen /\ Dispatched = f
  <2>1. lost' = lost /\ done' = Append(done, f)  BY <1>1, <1>2, <1>10 DEF IInv, History
  <2>2. /\ Len(done) < Len(sent) /\ f \in Sent /\ plen = f.plen
    BY <1>1, <1>2, <1>10, InFront
  <2>3. Len(f.data) = f.plen /\ f.plen \in Nat
    BY <2>2, <1>1, <1>2, <1>10, DispatchedType
  <2>4. f \notin Stumps  BY <2>3, StumpIsShort
  <2>5. f \in Frames \ (TooLong \ Wrapped)
    <3>1. ~ (HEADER_BYTES + f.plen > RX_BUF_BYTES)
      BY <2>2, <2>3, <1>1, <1>2, <1>10, FramingAssumption DEF HEADER_BYTES
    <3> QED  BY <3>1, <2>2, <2>4 DEF TooLong, Sent
  <2>6. Queue!Waiting /\ Queue!Oldest = f
    BY <2>2, <1>2, <1>10 DEF Queue!Waiting, Queue!Oldest
  <2>7. Queue!Dispatch  BY <2>1, <2>5, <2>6, <1>1 DEF Queue!Dispatch
  <2>8. n = Len(Bytes(f))  BY <2>2, <2>3, <1>10, FrameBytes DEF HEADER_BYTES
  <2>9. Stream' = SubSeq(Stream, n + 1, Len(Stream))
    <3>1. PICK a : a = rx \o fifo  OBVIOUS
    <3>2. rx \in Seq(Byte) /\ fifo \in Seq(Byte) /\ wire \in Seq(Byte)  BY Typed
    <3>3. a \in Seq(Byte) /\ Len(a) = Len(rx) + Len(fifo)  BY <3>1, <3>2, ConcatProperties
    <3>4. n \in 0 .. Len(a)  BY <3>3, <1>3, Typed
    <3>5. SubSeq(a, n + 1, Len(a)) = r \o fifo  BY <3>1, <3>2, <1>3, <1>4, BehindOf
    <3>6. SubSeq(a \o wire, n + 1, Len(a \o wire)) = SubSeq(a, n + 1, Len(a)) \o wire
      BY <3>2, <3>3, <3>4, BehindOf
    <3> QED  BY <3>1, <3>5, <3>6, <1>1, <1>2, <1>4 DEF Stream
  <2>10. Row(Stream', Len(done'), sent')
    <3>1. PICK st, d : st = Stream /\ d = Len(done)  OBVIOUS
    <3>2. st \in Seq(Byte) /\ sent \in Seq(Sent) /\ Len(st) > 0 /\ d \in Nat
      BY <3>1, <1>1, <1>3, Typed DEF HEADER_BYTES
    <3>3. Row(st, d, sent)  BY <3>1, <1>10 DEF IInv, InStep
    <3>4. n = Len(Bytes(sent[d + 1]))  BY <3>1, <2>8, <1>2
    <3>5. Row(SubSeq(st, n + 1, Len(st)), d + 1, sent)
      BY <3>2, <3>3, <3>4, <1>3, RowMovesUp
    <3>6. Len(done') = d + 1
      <4>1. PICK D : D = [cmd : Byte, plen : Byte, data : Seq(Byte)]  OBVIOUS
      <4>2. done \in Seq(D) /\ f \in D  BY <4>1, <1>1, <1>10, DispatchedType, Typed
      <4> QED  BY <4>2, <3>1, <2>1, AppendProperties
    <3> QED  BY <3>1, <3>5, <3>6, <2>9, <1>1
  <2>11. InStep'  BY <2>10 DEF InStep
  <2> QED  BY <2>7, <2>11, <1>6, <1>7 DEF IInv, QueueStep, Queue!Next
<1> QED  BY <1>8, <1>9, <1>10

LEMMA StutterStep ==
    ASSUME IInv, UNCHANGED vars
    PROVE  IInv' /\ QueueStep
<1>1. TypeOK'  BY DEF IInv, TypeOK, vars
<1>2. History'  BY DEF IInv, History, vars
<1>3. InStep'  BY DEF IInv, InStep, Stream, vars
<1> QED  BY <1>1, <1>2, <1>3 DEF IInv, QueueStep, vars

LEMMA NextStep ==
    ASSUME IInv, [Next]_vars
    PROVE  IInv' /\ QueueStep
BY SendsStep, AbandonsStep, ArrivesStep, DrainStep, OversizedStep, IncompleteStep,
   FrameStep, StutterStep DEF Next, Device

(* In every behaviour the stream is cut where frames begin, until the      *)
(* device has lost its place.                                              *)
THEOREM InvariantHolds == Spec => []IInv
<1>1. Init => IInv  BY InitIInv
<1>2. IInv /\ [Next]_vars => IInv'  BY NextStep
<1> QED  BY <1>1, <1>2, PTL DEF Spec

(* protocol_task's buffer and the FIFO of the USB stack hold bytes, and no *)
(* more of them than they have room for.                                   *)
THEOREM TypeCorrect == Spec => []TypeOK
<1>1. IInv => TypeOK  BY DEF IInv
<1> QED  BY <1>1, InvariantHolds, PTL

(* protocol_task dispatches the frames a host sends whole, once and in     *)
(* order, however they are cut into packets, until the host abandons one   *)
(* or sends one that does not fit: each step is one of the queue of        *)
(* frames, or leaves it alone.                                             *)
THEOREM DispatchesInOrder == Spec => Queue!Safe
<1>1. Init => Queue!Init  BY DEF Init, Queue!Init
<1>2. IInv /\ [Next]_vars => [Queue!Next]_(Queue!qvars)
  BY NextStep DEF QueueStep, Queue!qvars
<1> QED  BY <1>1, <1>2, InvariantHolds, PTL DEF Spec, Queue!Safe
================================================================================
