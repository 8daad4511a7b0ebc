----------------------------- MODULE HostTool_proofs -----------------------------
(***************************************************************************)
(* A tool of host/cryptolite-ice.py that finds a silent board gets its own *)
(* answers, whole and one by one, for pipes, images and requests of every  *)
(* size: it fails only when it is refused.                                 *)
(*                                                                         *)
(* Bytes are lost, cut or left over where an answer crosses the pipe in    *)
(* pieces.  The invariant follows them in one sequence, Stream: what the   *)
(* tool has read ahead, the packet, the FIFO and what _send_response holds.*)
(*                                                                         *)
(* An update that says OK has told the truth also when earlier tools have  *)
(* left a few bytes behind.  What a byte of the stream may be is told by   *)
(* its distance from the end of all that will be read.                     *)
(***************************************************************************)
EXTENDS HostTool, SequenceTheorems, TLAPS

PipeByte == [v : Nat, random : BOOLEAN]
Frames   == [cmd : {STATUS, GET_RANDOM, FLASH_BEGIN, FLASH_END}]
              \cup [cmd : {FLASH_DATA}, image : Images, at : 1 .. CHUNKS]

BoardTyped ==
    /\ session \in BOOLEAN
    /\ flash \in [1 .. CHUNKS -> Images \cup {"erased", "junk"}]
    /\ running \in Images \cup {"none"}
    /\ released \in BOOLEAN /\ paused \in BOOLEAN

Verdicts == {"nothing", "ok", "refused", "up", "down"}

Typed ==
    /\ requests \in Seq(Frames)
    /\ rest \in Seq(PipeByte) /\ fifo \in Seq(PipeByte)
    /\ packet \in Seq(PipeByte) /\ inbuf \in Seq(PipeByte)
    /\ Len(fifo) <= FIFO_BYTES /\ Len(packet) <= PACKET
    /\ BoardTyped /\ told \in Verdicts
    /\ tool \in Tools \cup {"none"}
    /\ pc \in {"off", "send", "header", "body", "ok", "warned", "failed"}
    /\ step \in 0 .. LastStep
    /\ need \in Nat /\ clean \in BOOLEAN
    /\ tool = "update" => image \in Images
    /\ tool = "none" => step = 0 /\ inbuf = << >> /\ ~ clean
    /\ pc # "off" <=> tool # "none"
    /\ pc = "header" => need = HEADER_BYTES

(* The bytes on their way to the tool, in order. *)
Stream == ((inbuf \o packet) \o fifo) \o rest

(* What the answer to the tool's request has behind its header. *)
BodyLen == CASE tool = "status" -> 1
             [] tool = "random" -> ASKED
             [] OTHER           -> IF step = CHUNKS + 1 THEN 1 ELSE 0

(* So many frames of the image are in the flash, and nothing else.         *)
Flashed(k) == \A c \in 1 .. CHUNKS : flash[c] = IF c <= k THEN image ELSE "erased"

(* How far an update has come: before the board handles the request of     *)
(* this step, and when it has not refused it.                              *)
Serving == tool = "update" /\ step > 0 => session /\ Flashed(step - 1)
Served  == tool = "update" => /\ session <=> step < CHUNKS + 1
                              /\ Flashed(step)
                              /\ step = CHUNKS + 1 => running \in {"none", image}

(* The byte that tells how an update ended.                                *)
Tells(b) == tool = "update" /\ step = CHUNKS + 1 =>
               /\ told = IF b.v # 0 THEN "up" ELSE "down"
               /\ b.v # 0 => running = image

Asked     == requests = <<Request>> /\ Stream = << >> /\ Serving
Answering == /\ requests = << >> /\ Served /\ Len(Stream) = HEADER_BYTES + BodyLen
             /\ Stream[1].v = Request.cmd /\ Stream[2].v = OK
             /\ Stream[3].v = BodyLen /\ Stream[4].v = 0
             /\ Tells(Stream[5])
Refused   == /\ requests = << >> /\ told = "refused"
             /\ Len(Stream) >= HEADER_BYTES /\ Stream[2].v # OK

Undisturbed ==
    clean => /\ pc = "failed" => told = "refused"
             /\ pc = "send" => requests = << >> /\ Stream = << >> /\ Serving
             /\ pc = "header" => Asked \/ Answering \/ Refused
             /\ pc = "body" => /\ requests = << >> /\ Served
                               /\ Len(Stream) = need /\ need = BodyLen /\ need > 0
                               /\ Tells(Stream[1])
             /\ pc \in {"ok", "warned", "failed"} => requests = << >>
             /\ pc \in {"ok", "warned"} /\ tool = "update" =>
                  /\ Flashed(CHUNKS)
                  /\ told = IF pc = "ok" THEN "up" ELSE "down"
                  /\ running \in IF pc = "ok" THEN {image} ELSE {"none", image}

IInv == Typed /\ Undisturbed
--------------------------------------------------------------------------------
(* Sequences. *)
Cat(x, y) == x \o y

LEMMA Associates ==
    ASSUME NEW S, NEW x \in Seq(S), NEW y \in Seq(S), NEW z \in Seq(S)
    PROVE  Cat(Cat(x, y), z) = Cat(x, Cat(y, z))
BY ConcatAssociative DEF Cat

LEMMA JoinedIs ==
    ASSUME NEW S, NEW x \in Seq(S), NEW y \in Seq(S)
    PROVE  /\ Cat(x, y) \in Seq(S) /\ Len(Cat(x, y)) = Len(x) + Len(y)
           /\ \A i \in 1 .. Len(x) : Cat(x, y)[i] = x[i]
<1>1. Len(x) \in Nat /\ Len(y) \in Nat  OBVIOUS
<1>2. /\ Cat(x, y) \in Seq(S) /\ Len(Cat(x, y)) = Len(x) + Len(y)
      /\ \A i \in 1 .. Len(x) + Len(y) :
            Cat(x, y)[i] = IF i <= Len(x) THEN x[i] ELSE y[i - Len(x)]
  BY ConcatProperties DEF Cat
<1>3. \A i \in 1 .. Len(x) : i \in 1 .. (Len(x) + Len(y)) /\ i <= Len(x)  BY <1>1
<1> QED  BY <1>2, <1>3

LEMMA JoinedRest ==
    ASSUME NEW S, NEW x \in Seq(S), NEW y \in Seq(S)
    PROVE  \A i \in 1 .. Len(y) : Cat(x, y)[Len(x) + i] = y[i]
<1>1. PICK m, n : m = Len(x) /\ n = Len(y)  OBVIOUS
<1>2. m \in Nat /\ n \in Nat  BY <1>1
<1>3. \A k \in 1 .. (m + n) : Cat(x, y)[k] = IF k <= m THEN x[k] ELSE y[k - m]
  BY <1>1, ConcatProperties DEF Cat
<1>4. ASSUME NEW i \in 1 .. n  PROVE Cat(x, y)[m + i] = y[i]
  <2>1. m + i \in 1 .. (m + n) /\ ~ (m + i <= m) /\ (m + i) - m = i  BY <1>2
  <2>2. Cat(x, y)[m + i] = y[(m + i) - m]  BY <1>3, <2>1
  <2> QED  BY <2>1, <2>2
<1> QED  BY <1>1, <1>4

LEMMA CutIs ==
    ASSUME NEW S, NEW d \in Seq(S), NEW n \in 0 .. Len(d)
    PROVE  /\ SubSeq(d, 1, n) \in Seq(S) /\ Len(SubSeq(d, 1, n)) = n
           /\ \A i \in 1 .. n : SubSeq(d, 1, n)[i] = d[i]
           /\ SubSeq(d, n + 1, Len(d)) \in Seq(S)
           /\ Len(SubSeq(d, n + 1, Len(d))) = Len(d) - n
           /\ Cat(SubSeq(d, 1, n), SubSeq(d, n + 1, Len(d))) = d
<1>1. PICK l, a, b : l = Len(d) /\ a = SubSeq(d, 1, n) /\ b = SubSeq(d, n + 1, l)  OBVIOUS
<1>2. l \in Nat /\ n \in Nat /\ n <= l /\ \A i \in 1 .. l : d[i] \in S  BY <1>1
<1>3. a \in Seq(S) /\ Len(a) = n /\ \A i \in 1 .. n : a[i] = d[i]
  BY <1>1, <1>2
<1>4. b \in Seq(S) /\ Len(b) = l - n /\ \A i \in 1 .. (l - n) : b[i] = d[n + i]
  BY <1>1, <1>2
<1>5. Cat(a, b) = d
  <2>1. /\ Cat(a, b) \in Seq(S) /\ Len(Cat(a, b)) = l
        /\ \A i \in 1 .. l : Cat(a, b)[i] = IF i <= n THEN a[i] ELSE b[i - n]
    <3>1. a \in Seq(S) /\ b \in Seq(S) /\ Len(a) = n /\ Len(b) = l - n /\ n + (l - n) = l
      BY <1>2, <1>3, <1>4
    <3>2. PICK z, k : z = Cat(a, b) /\ k = Len(a) + Len(b)  OBVIOUS
    <3>3. k = l  BY <3>1, <3>2
    <3>4. z \in Seq(S) /\ Len(z) = k
          /\ \A i \in 1 .. k : z[i] = IF i <= Len(a) THEN a[i] ELSE b[i - Len(a)]
      BY <3>1, <3>2, ConcatProperties DEF Cat
    <3> QED  BY <3>1, <3>2, <3>3, <3>4
  <2>2. ASSUME NEW i \in 1 .. l  PROVE Cat(a, b)[i] = d[i]
    <3>1. CASE i <= n
      <4>1. i \in 1 .. n  BY <3>1, <1>2
      <4> QED  BY <4>1, <3>1, <2>1, <1>3
    <3>2. CASE ~ (i <= n)
      <4>1. i - n \in 1 .. (l - n) /\ n + (i - n) = i  BY <3>2, <1>2
      <4>2. b[i - n] = d[n + (i - n)]  BY <4>1, <1>4
      <4> QED  BY <4>1, <4>2, <3>2, <2>1
    <3> QED  BY <3>1, <3>2
  <2>3. PICK z : z = Cat(a, b)  OBVIOUS
  <2>4. z \in Seq(S) /\ Len(z) = Len(d) /\ \A i \in 1 .. Len(d) : z[i] = d[i]
    BY <2>1, <2>2, <2>3, <1>1
  <2>5. z = d  BY <2>4, SeqEqual
  <2> QED  BY <2>3, <2>5
<1> QED  BY <1>1, <1>3, <1>4, <1>5

(* The stream, as an operator of its four parts. *)
Flow(a, b, c, d) == Cat(Cat(Cat(a, b), c), d)

Starts(z, x) == \A i \in 1 .. Len(x) : z[i] = x[i]

LEMMA FlowIs ==
    ASSUME NEW S, NEW a \in Seq(S), NEW b \in Seq(S), NEW c \in Seq(S), NEW d \in Seq(S)
    PROVE  /\ Flow(a, b, c, d) \in Seq(S)
           /\ Len(Flow(a, b, c, d)) = Len(a) + Len(b) + Len(c) + Len(d)
           /\ Starts(Flow(a, b, c, d), a)
           /\ Flow(a, b, c, d) = << >> <=> a = << >> /\ b = << >> /\ c = << >> /\ d = << >>
<1>1. PICK x, y, z : x = Cat(a, b) /\ y = Cat(x, c) /\ z = Cat(y, d)  OBVIOUS
<1>2. PICK la, lb, lc, ld : la = Len(a) /\ lb = Len(b) /\ lc = Len(c) /\ ld = Len(d)  OBVIOUS
<1>3. la \in Nat /\ lb \in Nat /\ lc \in Nat /\ ld \in Nat  BY <1>2
<1>4. x \in Seq(S) /\ Len(x) = la + lb /\ \A i \in 1 .. la : x[i] = a[i]
  BY <1>1, <1>2, JoinedIs
<1>5. y \in Seq(S) /\ Len(y) = (la + lb) + lc /\ \A i \in 1 .. (la + lb) : y[i] = x[i]
  <2>1. x \in Seq(S) /\ y = Cat(x, c)  BY <1>1, <1>4
  <2>2. y \in Seq(S) /\ Len(y) = Len(x) + Len(c) /\ \A i \in 1 .. Len(x) : y[i] = x[i]
    BY <2>1, JoinedIs
  <2> QED  BY <2>2, <1>2, <1>4
<1>6. z \in Seq(S) /\ Len(z) = ((la + lb) + lc) + ld
      /\ \A i \in 1 .. ((la + lb) + lc) : z[i] = y[i]
  <2>1. y \in Seq(S) /\ z = Cat(y, d)  BY <1>1, <1>5
  <2>2. z \in Seq(S) /\ Len(z) = Len(y) + Len(d) /\ \A i \in 1 .. Len(y) : z[i] = y[i]
    BY <2>1, JoinedIs
  <2> QED  BY <2>2, <1>2, <1>5
<1>7. \A i \in 1 .. la : z[i] = a[i]
  <2>1. \A i \in 1 .. la : i \in 1 .. (la + lb) /\ i \in 1 .. ((la + lb) + lc)  BY <1>3
  <2> QED  BY <2>1, <1>4, <1>5, <1>6
<1>8. z = << >> <=> a = << >> /\ b = << >> /\ c = << >> /\ d = << >>
  <2>1. z = << >> <=> ((la + lb) + lc) + ld = 0  BY <1>6, EmptySeq
  <2>2. /\ la = 0 <=> a = << >>
        /\ lb = 0 <=> b = << >>
        /\ lc = 0 <=> c = << >>
        /\ ld = 0 <=> d = << >>
    BY <1>2, EmptySeq
  <2>3. ((la + lb) + lc) + ld = 0 <=> la = 0 /\ lb = 0 /\ lc = 0 /\ ld = 0  BY <1>3
  <2> QED  BY <2>1, <2>2, <2>3
<1>9. Flow(a, b, c, d) = z  BY <1>1 DEF Flow
<1> QED  BY <1>2, <1>6, <1>7, <1>8, <1>9 DEF Starts

LEMMA StreamIs ==
    /\ Stream = Flow(inbuf, packet, fifo, rest)
    /\ Stream' = Flow(inbuf', packet', fifo', rest')
BY DEF Stream, Flow, Cat

(* A part that moves on to an empty place, or joins what is before it,     *)
(* leaves the stream as it is.                                             *)
LEMMA FlowReads ==
    ASSUME NEW S, NEW a \in Seq(S), NEW b \in Seq(S), NEW c \in Seq(S), NEW d \in Seq(S)
    PROVE  Flow(Cat(a, b), << >>, c, d) = Flow(a, b, c, d)
<1>1. Cat(a, b) \in Seq(S)  BY JoinedIs
<1>2. Cat(Cat(a, b), << >>) = Cat(a, b)  BY <1>1, ConcatEmptySeq DEF Cat
<1> QED  BY <1>2 DEF Flow

LEMMA FlowArms ==
    ASSUME NEW S, NEW a \in Seq(S), NEW c \in Seq(S), NEW d \in Seq(S),
           NEW x \in Seq(S), NEW y \in Seq(S), Cat(x, y) = c
    PROVE  Flow(a, x, y, d) = Flow(a, << >>, c, d)
<1>1. Cat(a, << >>) = a  BY ConcatEmptySeq DEF Cat
<1>2. Cat(Cat(a, x), y) = Cat(a, Cat(x, y))  BY Associates
<1> QED  BY <1>1, <1>2 DEF Flow

--------------------------------------------------------------------------------
(* The board: what it writes comes last in the stream. *)
LEMMA Sizes ==
    /\ CHUNKS \in Nat \ {0} /\ ASKED \in Nat \ {0} /\ FIFO_BYTES \in Nat /\ PACKET \in Nat
    /\ \A e \in Entropy : e \in Nat
BY HostAssumption

LEMMA StreamNow ==
    ASSUME Typed
    PROVE  /\ Stream \in Seq(PipeByte)
           /\ Len(Stream) = Len(inbuf) + Len(packet) + Len(fifo) + Len(rest)
           /\ Stream = << >> <=> inbuf = << >> /\ packet = << >> /\ fifo = << >> /\ rest = << >>
<1>1. PICK a, b, c, d : a = inbuf /\ b = packet /\ c = fifo /\ d = rest  OBVIOUS
<1>2. a \in Seq(PipeByte) /\ b \in Seq(PipeByte) /\ c \in Seq(PipeByte) /\ d \in Seq(PipeByte)
  BY <1>1 DEF Typed
<1>3. /\ Flow(a, b, c, d) \in Seq(PipeByte)
      /\ Len(Flow(a, b, c, d)) = Len(a) + Len(b) + Len(c) + Len(d)
      /\ Flow(a, b, c, d) = << >> <=> a = << >> /\ b = << >> /\ c = << >> /\ d = << >>
  BY <1>2, FlowIs
<1>4. Stream = Flow(a, b, c, d)  BY <1>1, StreamIs
<1> QED  BY <1>1, <1>3, <1>4

LEMMA WriteIs ==
    ASSUME Typed, NEW s \in Seq(PipeByte), Write(s), UNCHANGED inbuf
    PROVE  /\ fifo' \in Seq(PipeByte) /\ rest' \in Seq(PipeByte) /\ packet' = packet
           /\ Len(fifo') <= FIFO_BYTES
           /\ Stream' = Cat(Stream, s)
<1>1. PICK all, n, x, y : /\ all = Cat(rest, s) /\ n = Smaller(Room, Len(all))
                          /\ x = SubSeq(all, 1, n) /\ y = SubSeq(all, n + 1, Len(all))
  OBVIOUS
<1>2. fifo' = Cat(fifo, x) /\ rest' = y /\ packet' = packet  BY <1>1 DEF Write, Cat
<1>3. /\ rest \in Seq(PipeByte) /\ fifo \in Seq(PipeByte) /\ packet \in Seq(PipeByte)
      /\ inbuf \in Seq(PipeByte) /\ Len(fifo) <= FIFO_BYTES
  BY DEF Typed
<1>4. all \in Seq(PipeByte)  BY <1>1, <1>3, JoinedIs
<1>5. n \in 0 .. Len(all) /\ n <= FIFO_BYTES - Len(fifo)
  <2>1. PICK l, r : l = Len(all) /\ r = FIFO_BYTES - Len(fifo)  OBVIOUS
  <2>2. l \in Nat /\ r \in Nat
    <3>1. Len(all) \in Nat /\ Len(fifo) \in Nat  BY <1>3, <1>4
    <3> QED  BY <3>1, <2>1, <1>3, Sizes
  <2>3. n = IF r < l THEN r ELSE l  BY <2>1, <1>1 DEF Smaller, Room
  <2>4. n \in 0 .. l /\ n <= r  BY <2>2, <2>3
  <2> QED  BY <2>1, <2>4
<1>6. x \in Seq(PipeByte) /\ Len(x) = n /\ y \in Seq(PipeByte) /\ Cat(x, y) = Cat(rest, s)
  BY <1>1, <1>4, <1>5, CutIs
<1>7. fifo' \in Seq(PipeByte) /\ Len(fifo') <= FIFO_BYTES
  <2>1. Cat(fifo, x) \in Seq(PipeByte) /\ Len(Cat(fifo, x)) = Len(fifo) + n
    BY <1>3, <1>6, JoinedIs
  <2>2. PICK k : k = Len(fifo)  OBVIOUS
  <2>3. k \in Nat /\ n \in Nat /\ k + n <= FIFO_BYTES
    <3>1. k \in Nat  BY <2>2, <1>3
    <3>2. n \in Nat  BY <1>5
    <3> QED  BY <3>1, <3>2, <2>2, <1>5, Sizes
  <2> QED  BY <2>1, <2>2, <2>3, <1>2
<1>8. Flow(inbuf, packet, Cat(fifo, x), y) = Cat(Flow(inbuf, packet, fifo, rest), s)
  <2>1. PICK c, d, p, q : c = fifo /\ d = rest /\ p = Cat(inbuf, packet) /\ q = Cat(p, c)
    OBVIOUS
  <2>2. c \in Seq(PipeByte) /\ d \in Seq(PipeByte) /\ p \in Seq(PipeByte)
    BY <2>1, <1>3, JoinedIs
  <2>3. q \in Seq(PipeByte)  BY <2>1, <2>2, JoinedIs
  <2>4. Cat(p, Cat(c, x)) = Cat(q, x)  BY <2>1, <2>2, <1>6, Associates
  <2>5. Cat(Cat(q, x), y) = Cat(q, Cat(x, y))  BY <2>3, <1>6, Associates
  <2>6. Cat(Cat(q, d), s) = Cat(q, Cat(d, s))  BY <2>2, <2>3, Associates
  <2>7. Flow(inbuf, packet, Cat(fifo, x), y) = Cat(Cat(p, Cat(c, x)), y)  BY <2>1 DEF Flow
  <2>8. Flow(inbuf, packet, fifo, rest) = Cat(q, d)  BY <2>1 DEF Flow
  <2> QED  BY <2>1, <2>4, <2>5, <2>6, <2>7, <2>8, <1>6
<1> QED  BY <1>2, <1>6, <1>7, <1>8, StreamIs

(* The bytes of an answer. *)
Answer(cmd, status, body) == Cat(Plain(<<cmd, status, Len(body), 0>>), body)

LEMMA PlainIs ==
    ASSUME NEW s \in Seq(Nat)
    PROVE  /\ Plain(s) \in Seq(PipeByte) /\ Len(Plain(s)) = Len(s)
           /\ \A i \in 1 .. Len(s) : Plain(s)[i].v = s[i]
<1>1. PICK n : n = Len(s)  OBVIOUS
<1>2. n \in Nat /\ \A i \in 1 .. n : s[i] \in Nat  BY <1>1
<1>3. Plain(s) = [i \in 1 .. n |-> [v |-> s[i], random |-> FALSE]]  BY <1>1 DEF Plain
<1>4. \A i \in 1 .. n : [v |-> s[i], random |-> FALSE] \in PipeByte  BY <1>2 DEF PipeByte
<1> QED  BY <1>1, <1>2, <1>3, <1>4

LEMMA RandomIs ==
    ASSUME NEW r \in [1 .. ASKED -> Entropy]
    PROVE  Random(r) \in Seq(PipeByte) /\ Len(Random(r)) = ASKED
<1>1. PICK n : n = ASKED  OBVIOUS
<1>2. n \in Nat /\ \A i \in 1 .. n : r[i] \in Nat  BY <1>1, Sizes
<1>3. Len(r) = n  BY <1>1, <1>2
<1>4. Random(r) = [i \in 1 .. n |-> [v |-> r[i], random |-> TRUE]]  BY <1>3 DEF Random
<1>5. \A i \in 1 .. n : [v |-> r[i], random |-> TRUE] \in PipeByte  BY <1>2 DEF PipeByte
<1> QED  BY <1>1, <1>2, <1>4, <1>5

IsAnswer(a, c, s, b) ==
    /\ a \in Seq(PipeByte) /\ Len(a) = 4 + Len(b)
    /\ a[1].v = c /\ a[2].v = s /\ a[3].v = Len(b) /\ a[4].v = 0

LEMMA AnswerIs ==
    ASSUME NEW c \in Nat, NEW s \in Nat, NEW b \in Seq(PipeByte)
    PROVE  IsAnswer(Answer(c, s, b), c, s, b)
<1>1. PICK l, h : l = Len(b) /\ h = <<c, s, l, 0>>  OBVIOUS
<1>2. l \in Nat  BY <1>1
<1>3. h \in Seq(Nat) /\ Len(h) = 4 /\ h[1] = c /\ h[2] = s /\ h[3] = l /\ h[4] = 0
  BY <1>1, <1>2
<1>4. PICK p : p = Plain(h)  OBVIOUS
<1>5. p \in Seq(PipeByte) /\ Len(p) = 4 /\ \A i \in 1 .. 4 : p[i].v = h[i]
  BY <1>3, <1>4, PlainIs
<1>6. /\ Cat(p, b) \in Seq(PipeByte) /\ Len(Cat(p, b)) = 4 + l
      /\ \A i \in 1 .. 4 : Cat(p, b)[i] = p[i]
  <2>1. /\ Cat(p, b) \in Seq(PipeByte) /\ Len(Cat(p, b)) = Len(p) + Len(b)
        /\ \A i \in 1 .. Len(p) : Cat(p, b)[i] = p[i]
    <3>1. p \in Seq(PipeByte)  BY <1>5
    <3> QED  BY <3>1, JoinedIs
  <2> QED  BY <2>1, <1>1, <1>5
<1>7. 1 \in 1 .. 4 /\ 2 \in 1 .. 4 /\ 3 \in 1 .. 4 /\ 4 \in 1 .. 4  OBVIOUS
<1>8. Answer(c, s, b) = Cat(p, b)  BY <1>1, <1>4 DEF Answer
<1> QED  BY <1>1, <1>3, <1>5, <1>6, <1>7, <1>8 DEF IsAnswer

LEMMA BodyIs ==
    ASSUME NEW c \in Nat, NEW st \in Nat, NEW b \in Seq(PipeByte), Len(b) = 1
    PROVE  Answer(c, st, b)[5] = b[1]
<1>1. PICK h : h = Plain(<<c, st, Len(b), 0>>)  OBVIOUS
<1>2. h \in Seq(PipeByte) /\ Len(h) = 4
  <2>1. <<c, st, Len(b), 0>> \in Seq(Nat) /\ Len(<<c, st, Len(b), 0>>) = 4  OBVIOUS
  <2> QED  BY <1>1, <2>1, PlainIs
<1>5. h \in Seq(PipeByte)  BY <1>2
<1>3. \A i \in 1 .. Len(b) : Cat(h, b)[Len(h) + i] = b[i]  BY <1>5, JoinedRest
<1>4. Cat(h, b)[4 + 1] = b[1]  BY <1>2, <1>3
<1> QED  BY <1>1, <1>4 DEF Answer

LEMMA RespondIs ==
    ASSUME Typed, NEW c \in Nat, NEW st \in Nat, NEW b \in Seq(PipeByte), Respond(c, st, b),
           UNCHANGED inbuf
    PROVE  /\ fifo' \in Seq(PipeByte) /\ rest' \in Seq(PipeByte) /\ packet' = packet
           /\ Len(fifo') <= FIFO_BYTES
           /\ Stream' = Cat(Stream, Answer(c, st, b))
<1>1. PICK a : a = Answer(c, st, b)  OBVIOUS
<1>2. a \in Seq(PipeByte)  BY <1>1, AnswerIs DEF IsAnswer
<1>3. Write(a)  BY <1>1 DEF Respond, Answer, Cat
<1> QED  BY <1>1, <1>2, <1>3, WriteIs

LEMMA BootableIs ==
    ASSUME NEW g \in [1 .. CHUNKS -> Images \cup {"erased", "junk"}]
    PROVE  Bootable(g) \in Images \cup {"none"}
<1>1. 1 \in 1 .. CHUNKS  BY Sizes
<1>2. CASE \E i \in Images : \A c \in 1 .. CHUNKS : g[c] = i
  <2>1. PICK i \in Images : \A c \in 1 .. CHUNKS : g[c] = i  BY <1>2
  <2> QED  BY <1>1, <1>2, <2>1 DEF Bootable
<1>3. CASE ~ (\E i \in Images : \A c \in 1 .. CHUNKS : g[c] = i)
  BY <1>3 DEF Bootable
<1> QED  BY <1>2, <1>3

(* The request of each tool and step. *)
LEMMA RequestIs ==
    ASSUME Typed, tool # "none"
    PROVE  /\ Request \in Frames /\ Request.cmd \in Nat /\ BodyLen \in Nat
           /\ tool = "status" => Request.cmd = STATUS /\ BodyLen = 1
           /\ tool = "random" => Request.cmd = GET_RANDOM /\ BodyLen = ASKED
           /\ tool = "update" /\ step = 0 => Request.cmd = FLASH_BEGIN /\ BodyLen = 0
           /\ tool = "update" /\ step = CHUNKS + 1 => Request.cmd = FLASH_END /\ BodyLen = 1
           /\ tool = "update" /\ step # 0 /\ step # CHUNKS + 1
                => Request.cmd = FLASH_DATA /\ BodyLen = 0
<1> USE DEF Frames, STATUS, GET_RANDOM, FLASH_BEGIN, FLASH_DATA, FLASH_END
<1>1. tool \in {"status", "random", "update"}  BY DEF Typed, Tools
<1>2. CHUNKS \in Nat \ {0} /\ ASKED \in Nat  BY Sizes
<1>3. CASE tool = "status"  BY <1>3 DEF Request, BodyLen
<1>4. CASE tool = "random"  BY <1>4, <1>2 DEF Request, BodyLen
<1>5. CASE tool = "update"
  <2>1. step \in 0 .. CHUNKS + 1 /\ image \in Images  BY <1>5 DEF Typed, LastStep
  <2>2. CASE step = 0  BY <1>5, <2>2, <1>2 DEF Request, BodyLen
  <2>3. CASE step = CHUNKS + 1  BY <1>5, <2>3, <1>2 DEF Request, BodyLen
  <2>4. CASE step # 0 /\ step # CHUNKS + 1
    <3>1. step \in 1 .. CHUNKS  BY <2>1, <2>4, <1>2
    <3> QED  BY <1>5, <2>1, <2>4, <3>1 DEF Request, BodyLen
  <2> QED  BY <2>2, <2>3, <2>4
<1> QED  BY <1>1, <1>3, <1>4, <1>5

LEMMA PlainBody ==
    ASSUME NEW x \in {0, 1}
    PROVE  /\ Plain(<<x>>) \in Seq(PipeByte) /\ Len(Plain(<<x>>)) = 1 /\ 1 <= ASKED
           /\ Plain(<<x>>)[1].v = x
<1>1. <<x>> \in Seq(Nat) /\ Len(<<x>>) = 1 /\ <<x>>[1] = x  OBVIOUS
<1>2. 1 <= ASKED /\ 1 \in 1 .. 1  BY Sizes
<1> QED  BY <1>1, <1>2, PlainIs

(* What the board is asked as the tool's request, it refuses, or answers as*)
(* the tool expects.                                                       *)
Due(f) == tool # "none" /\ f = Request /\ Serving
Meets(b) == /\ Len(b) = BodyLen /\ Served'
            /\ tool = "update" /\ step = CHUNKS + 1 /\ b[1].v # 0 => running' = image

(* In a session the board accepts data, and tells how it ended; outside of *)
(* one it refuses both.                                                    *)
Fulfils(f, st, b) ==
    /\ f.cmd = FLASH_BEGIN => Len(b) = 0
    /\ f.cmd = FLASH_DATA => st = (IF session THEN OK ELSE BUSY) /\ Len(b) = 0
    /\ f.cmd = FLASH_END => /\ st = (IF session THEN OK ELSE FLASH) /\ Len(b) = 1
                            /\ b[1].v # 0 => session /\ running' # "none"

Answers(f) ==
    \E st \in Nat, b \in Seq(PipeByte) :
        /\ Respond(f.cmd, st, b) /\ Len(b) <= ASKED
        /\ Due(f) /\ st = OK => Meets(b)
        /\ Fulfils(f, st, b)

LEMMA ImageIs ==
    ASSUME NEW i \in Images  PROVE i # "none" /\ i # "erased" /\ i # "junk"
BY HostAssumption

(* A flash that an image fills configures it.                              *)
LEMMA FilledIs ==
    ASSUME NEW i \in Images, \A c \in 1 .. CHUNKS : flash[c] = i
    PROVE  Bootable(flash) = i
<1>1. 1 \in 1 .. CHUNKS  BY Sizes
<1> QED  BY <1>1 DEF Bootable

(* What the requests of an update do to the flash, when they are accepted. *)
LEMMA FlashIs ==
    ASSUME Typed, tool = "update", Serving, UNCHANGED toolVars,
           step = 0 => flash' = [c \in 1 .. CHUNKS |-> "erased"],
           step \in 1 .. CHUNKS
             => flash' = [flash EXCEPT ![step] = IF @ \in {"erased", image} THEN image ELSE "junk"],
           step = CHUNKS + 1 => flash' = flash /\ running' \in {"none", Bootable(flash)}
    PROVE  Flashed(step)' /\ (step = CHUNKS + 1 => running' \in {"none", image'})
<1>1. /\ step \in 0 .. CHUNKS + 1 /\ image \in Images
      /\ flash \in [1 .. CHUNKS -> Images \cup {"erased", "junk"}]
  BY DEF Typed, BoardTyped, LastStep
<1>2. UNCHANGED <<tool, step, image>>  BY DEF toolVars
<1>3. CASE step = 0
  BY <1>2, <1>3, Sizes DEF Flashed
<1>4. CASE step \in 1 .. CHUNKS
  <2>1. Flashed(step - 1)  BY <1>1, <1>4 DEF Serving
  <2>2. flash' = [flash EXCEPT ![step] = image]
    <3>1. flash[step] = "erased"  BY <2>1, <1>4, Sizes DEF Flashed
    <3> QED  BY <3>1, <1>4
  <2>3. ASSUME NEW c \in 1 .. CHUNKS  PROVE flash'[c] = IF c <= step THEN image ELSE "erased"
    <3>1. CASE c = step  BY <3>1, <2>2, <1>1, <1>4
    <3>2. CASE c # step
      <4>1. flash'[c] = flash[c]  BY <3>2, <2>2, <1>1
      <4>2. flash[c] = IF c <= step - 1 THEN image ELSE "erased"  BY <2>1 DEF Flashed
      <4>3. c <= step - 1 <=> c <= step  BY <3>2, <1>4, Sizes
      <4> QED  BY <4>1, <4>2, <4>3
    <3> QED  BY <3>1, <3>2
  <2> QED  BY <2>3, <1>2, <1>4, Sizes DEF Flashed
<1>5. CASE step = CHUNKS + 1
  <2>1. Flashed(CHUNKS)  BY <1>1, <1>5, Sizes DEF Serving
  <2>2. \A c \in 1 .. CHUNKS : flash[c] = image /\ c <= CHUNKS + 1
    BY <2>1, Sizes DEF Flashed
  <2>3. Bootable(flash) = image  BY <2>2, <1>1, FilledIs
  <2> QED  BY <2>2, <2>3, <1>2, <1>5 DEF Flashed
<1> QED  BY <1>1, <1>3, <1>4, <1>5, Sizes

LEMMA HandleIs ==
    ASSUME Typed, NEW f \in Frames, Handle(f), UNCHANGED toolVars
    PROVE  BoardTyped' /\ Answers(f)
<1> USE DEF STATUS, GET_RANDOM, FLASH_BEGIN, FLASH_DATA, FLASH_END
<1>1. BoardTyped  BY DEF Typed
<1>2. /\ f.cmd \in 1 .. 5
      /\ f.cmd = FLASH_DATA => f.image \in Images /\ f.at \in 1 .. CHUNKS
  BY DEF Frames
<1>3. UNCHANGED <<tool, step, image>>  BY DEF toolVars
<1>4. /\ << >> \in Seq(PipeByte) /\ Len(<< >>) = 0 /\ Len(<< >>) <= ASKED
      /\ OK \in Nat /\ BUSY \in Nat /\ FLASH \in Nat /\ BAD_LENGTH \in Nat
      /\ BUSY # OK /\ FLASH # OK /\ BAD_LENGTH # OK
      /\ \A st \in Unserved : st \in Nat /\ st # OK
  BY Sizes DEF OK, BUSY, FLASH, BAD_LENGTH, HEALTH_FAIL, HEALTH_WARMING, NO_ENTROPY, Unserved
<1>5. Due(f) =>
        /\ tool \in {"status", "random", "update"} /\ Serving
        /\ f.cmd = STATUS => tool = "status" /\ BodyLen = 1
        /\ f.cmd = GET_RANDOM => tool = "random" /\ BodyLen = ASKED
        /\ f.cmd = FLASH_BEGIN => tool = "update" /\ step = 0 /\ BodyLen = 0
        /\ f.cmd = FLASH_DATA
             => /\ tool = "update" /\ step \in 1 .. CHUNKS /\ BodyLen = 0
                /\ f.image = image /\ f.at = step
        /\ f.cmd = FLASH_END => tool = "update" /\ step = CHUNKS + 1 /\ BodyLen = 1
  <2> SUFFICES ASSUME Due(f)  PROVE
        /\ tool \in {"status", "random", "update"} /\ Serving
        /\ f.cmd = STATUS => tool = "status" /\ BodyLen = 1
        /\ f.cmd = GET_RANDOM => tool = "random" /\ BodyLen = ASKED
        /\ f.cmd = FLASH_BEGIN => tool = "update" /\ step = 0 /\ BodyLen = 0
        /\ f.cmd = FLASH_DATA
             => /\ tool = "update" /\ step \in 1 .. CHUNKS /\ BodyLen = 0
                /\ f.image = image /\ f.at = step
        /\ f.cmd = FLASH_END => tool = "update" /\ step = CHUNKS + 1 /\ BodyLen = 1
    OBVIOUS
  <2>1. tool # "none" /\ f = Request /\ f.cmd = Request.cmd /\ Serving  BY DEF Due
  <2>2. tool \in {"status", "random", "update"}  BY <2>1 DEF Typed, Tools
  <2>data. ASSUME f.cmd = FLASH_DATA
        PROVE  /\ tool = "update" /\ step \in 1 .. CHUNKS /\ BodyLen = 0
               /\ f.image = image /\ f.at = step
    <3>1. tool = "update" /\ step # 0 /\ step # CHUNKS + 1 /\ BodyLen = 0
      BY <2>1, <2>2, <2>data, RequestIs
    <3>2. step \in 1 .. CHUNKS
      <4>1. step \in 0 .. LastStep  BY DEF Typed
      <4> QED  BY <4>1, <3>1, Sizes DEF LastStep
    <3>3. f = [cmd |-> FLASH_DATA, image |-> image, at |-> step]  BY <2>1, <3>1 DEF Request
    <3> QED  BY <3>1, <3>2, <3>3
  <2> QED  BY <2>1, <2>2, <2>data, RequestIs
<1>flashed. ASSUME Due(f), tool = "update",
                   step = 0 => flash' = [c \in 1 .. CHUNKS |-> "erased"],
                   step \in 1 .. CHUNKS
                     => flash' = [flash EXCEPT ![step] = IF @ \in {"erased", image}
                                                         THEN image ELSE "junk"],
                   step = CHUNKS + 1 => flash' = flash /\ running' \in {"none", Bootable(flash)}
            PROVE  Flashed(step)' /\ (step = CHUNKS + 1 => running' \in {"none", image'})
  <2>1. Serving  BY <1>flashed, <1>5
  <2> QED  BY <2>1, <1>flashed, FlashIs
<1>6. CASE f.cmd = STATUS
  <2>1. PICK x \in {0, 1} : x = IF running = "none" THEN 0 ELSE 1  OBVIOUS
  <2>2. Respond(f.cmd, OK, Plain(<<x>>)) /\ UNCHANGED boardVars
    BY <1>6, <2>1 DEF Handle
  <2>3. Due(f) => Meets(Plain(<<x>>))
    BY <1>3, <1>5, <1>6, PlainBody DEF Meets, Served
  <2>4. Fulfils(f, OK, Plain(<<x>>)) /\ BoardTyped'
    BY <1>1, <1>6, <2>2 DEF Fulfils, BoardTyped, boardVars
  <2> QED  BY <1>4, <2>2, <2>3, <2>4, PlainBody DEF Answers
<1>7. CASE f.cmd = GET_RANDOM
  <2>1. GetRandom  BY <1>7 DEF Handle
  <2>2. BoardTyped'
    <3>1. UNCHANGED boardVars  BY <2>1 DEF GetRandom
    <3> QED  BY <3>1, <1>1 DEF BoardTyped, boardVars
  <2>3. CASE \E st \in Unserved \cup {BUSY} : Refuse(GET_RANDOM, st)
    <3>1. PICK st \in Unserved \cup {BUSY} : Refuse(GET_RANDOM, st)  BY <2>3
    <3>2. Respond(f.cmd, st, << >>) /\ st \in Nat /\ st # OK  BY <3>1, <1>4, <1>7 DEF Refuse
    <3>3. Fulfils(f, st, << >>)  BY <1>7 DEF Fulfils
    <3> QED  BY <1>4, <2>2, <3>2, <3>3 DEF Answers
  <2>4. CASE \E r \in [1 .. ASKED -> Entropy] : Respond(GET_RANDOM, OK, Random(r))
    <3>1. PICK r \in [1 .. ASKED -> Entropy] : Respond(f.cmd, OK, Random(r))
      BY <1>7, <2>4
    <3>2. Len(Random(r)) = ASKED /\ Random(r) \in Seq(PipeByte)  BY RandomIs
    <3>3. Due(f) => Meets(Random(r))  BY <3>2, <1>3, <1>5, <1>7 DEF Meets, Served
    <3>4. Fulfils(f, OK, Random(r))  BY <1>7 DEF Fulfils
    <3> QED  BY <1>4, <2>2, <3>1, <3>2, <3>3, <3>4, Sizes DEF Answers
  <2> QED  BY <2>1, <2>3, <2>4 DEF GetRandom
<1>8. CASE f.cmd = FLASH_BEGIN
  <2>1. FlashBegin  BY <1>8 DEF Handle
  <2>2. CASE \E st \in {BUSY, BAD_LENGTH, FLASH} :
               Refuse(FLASH_BEGIN, st) /\ UNCHANGED <<session, flash>>
             /\ (UNCHANGED boardVars \/ Claim)
    <3>1. PICK st \in {BUSY, BAD_LENGTH, FLASH} :
               Refuse(FLASH_BEGIN, st) /\ UNCHANGED <<session, flash>>
             /\ (UNCHANGED boardVars \/ Claim)
      BY <2>2
    <3>2. Respond(f.cmd, st, << >>) /\ st \in Nat /\ st # OK  BY <3>1, <1>4, <1>8 DEF Refuse
    <3>3. BoardTyped'  BY <3>1, <1>1 DEF BoardTyped, boardVars, Claim
    <3>4. Fulfils(f, st, << >>)  BY <1>4, <1>8 DEF Fulfils
    <3> QED  BY <1>4, <3>2, <3>3, <3>4 DEF Answers
  <2>3. CASE /\ Claim /\ Respond(FLASH_BEGIN, OK, << >>)
             /\ session' = TRUE /\ flash' = [c \in 1 .. CHUNKS |-> "erased"]
    <3>1. Due(f) => Meets(<< >>)
      <4>1. 0 < CHUNKS + 1 /\ 0 \notin 1 .. CHUNKS /\ 0 # CHUNKS + 1  BY Sizes
      <4>2. Due(f) => tool = "update" /\ step = 0 /\ BodyLen = 0  BY <1>5, <1>8
      <4>3. Due(f) => Flashed(step)'  BY <4>1, <4>2, <2>3, <1>flashed
      <4> SUFFICES ASSUME Due(f)  PROVE Meets(<< >>)
        OBVIOUS
      <4>4. step' = 0 /\ step' < CHUNKS + 1 /\ step' # CHUNKS + 1  BY <4>1, <4>2, <1>3
      <4>5. Served'  BY <4>3, <4>4, <2>3 DEF Served
      <4> QED  BY <4>1, <4>2, <4>5, <1>4 DEF Meets
    <3>2. Fulfils(f, OK, << >>)  BY <1>4, <1>8 DEF Fulfils
    <3>3. BoardTyped'  BY <2>3 DEF BoardTyped, Claim
    <3>4. Respond(f.cmd, OK, << >>)  BY <1>8, <2>3
    <3> QED  BY <1>4, <3>1, <3>2, <3>3, <3>4 DEF Answers
  <2> QED  BY <2>1, <2>2, <2>3 DEF FlashBegin, boardVars
<1>10. CASE f.cmd = FLASH_DATA
  <2>1. FlashData(f)  BY <1>10 DEF Handle
  <2>2. CASE session
    <3>1. /\ Respond(f.cmd, OK, << >>) /\ UNCHANGED <<session, running, released, paused>>
          /\ flash' = [flash EXCEPT ![f.at] = IF @ \in {"erased", f.image}
                                             THEN f.image ELSE "junk"]
      BY <1>10, <2>1, <2>2 DEF FlashData
    <3>2. BoardTyped'  BY <1>1, <1>2, <1>10, <3>1 DEF BoardTyped
    <3>3. Due(f) => Meets(<< >>)
      <4>1. \A k \in 1 .. CHUNKS : k < CHUNKS + 1 /\ k # CHUNKS + 1 /\ k # 0  BY Sizes
      <4>2. Due(f) => Flashed(step)'  BY <4>1, <3>1, <1>5, <1>10, <1>flashed
      <4> QED  BY <4>1, <4>2, <2>2, <3>1, <1>3, <1>4, <1>5, <1>10 DEF Meets, Served
    <3>4. Fulfils(f, OK, << >>)  BY <1>4, <1>10, <2>2 DEF Fulfils
    <3> QED  BY <1>4, <3>1, <3>2, <3>3, <3>4 DEF Answers
  <2>3. CASE ~ session
    <3>1. Respond(f.cmd, BUSY, << >>) /\ UNCHANGED boardVars
      BY <1>10, <2>1, <2>3 DEF FlashData, Refuse
    <3>2. Fulfils(f, BUSY, << >>) /\ BoardTyped'
      BY <1>1, <1>4, <1>10, <2>3, <3>1 DEF Fulfils, BoardTyped, boardVars
    <3> QED  BY <1>4, <3>1, <3>2 DEF Answers
  <2> QED  BY <2>2, <2>3
<1>11. CASE f.cmd = FLASH_END
  <2>1. FlashEnd  BY <1>11 DEF Handle
  <2>2. CASE session
    <3>1. PICK x \in {0, 1} : x = IF running' = "none" THEN 0 ELSE 1  OBVIOUS
    <3>2. /\ Respond(f.cmd, OK, Plain(<<x>>)) /\ flash' = flash
          /\ session' = FALSE /\ released' = TRUE
          /\ running' \in {"none", Bootable(flash)} /\ paused' = (running' = "none")
      BY <1>11, <2>1, <2>2, <3>1 DEF FlashEnd
    <3>3. BoardTyped'  BY <1>1, <3>2, BootableIs DEF BoardTyped
    <3>4. Due(f) => Meets(Plain(<<x>>))
      <4>1. CHUNKS + 1 \notin 1 .. CHUNKS /\ CHUNKS + 1 # 0 /\ ~ (CHUNKS + 1 < CHUNKS + 1)
        BY Sizes
      <4>2. Due(f) => Flashed(step)' /\ running' \in {"none", image}
        BY <4>1, <3>2, <1>3, <1>5, <1>11, <1>flashed
      <4> QED  BY <4>1, <4>2, <3>1, <3>2, <1>3, <1>5, <1>11, PlainBody DEF Meets, Served
    <3>5. Fulfils(f, OK, Plain(<<x>>))  BY <1>11, <2>2, <3>1, PlainBody DEF Fulfils
    <3> QED  BY <1>4, <3>2, <3>3, <3>4, <3>5, PlainBody DEF Answers
  <2>3. CASE ~ session
    <3>1. Respond(f.cmd, FLASH, Plain(<<0>>)) /\ UNCHANGED boardVars
      BY <1>11, <2>1, <2>3 DEF FlashEnd
    <3>2. Fulfils(f, FLASH, Plain(<<0>>)) /\ BoardTyped'
      BY <1>1, <1>11, <2>3, <3>1, PlainBody DEF Fulfils, BoardTyped, boardVars
    <3> QED  BY <1>4, <3>1, <3>2, PlainBody DEF Answers
  <2> QED  BY <2>2, <2>3
<1> QED  BY <1>2, <1>6, <1>7, <1>8, <1>10, <1>11

--------------------------------------------------------------------------------
(* The board's steps *)

(* A step that leaves the stream, the board and the tool alone. *)
LEMMA SameStream ==
    ASSUME Undisturbed, Stream' = Stream, UNCHANGED <<requests, boardVars, told>>,
           UNCHANGED <<tool, image, pc, step, need, clean>>
    PROVE  Undisturbed'
<1>1. UNCHANGED <<session, flash, running>>  BY DEF boardVars
<1>2. Request' = Request /\ BodyLen' = BodyLen  BY DEF Request, BodyLen
<1>3. (Serving' <=> Serving) /\ (Served' <=> Served) /\ (Flashed(CHUNKS)' <=> Flashed(CHUNKS))
  BY <1>1 DEF Serving, Served, Flashed
<1>4. (Asked' <=> Asked) /\ (Answering' <=> Answering) /\ (Refused' <=> Refused)
  BY <1>1, <1>2, <1>3 DEF Asked, Answering, Refused, Tells
<1> QED  BY <1>1, <1>2, <1>3, <1>4 DEF Undisturbed, Tells

(* What the board's steps leave of the types. *)
LEMMA SameTool ==
    ASSUME Typed, UNCHANGED toolVars, BoardTyped', told' \in Verdicts, requests' \in Seq(Frames),
           rest' \in Seq(PipeByte), fifo' \in Seq(PipeByte), packet' \in Seq(PipeByte),
           Len(fifo') <= FIFO_BYTES, Len(packet') <= PACKET
    PROVE  Typed'
BY DEF Typed, toolVars, LastStep

(* The steps that only move bytes on. *)
LEMMA PushMoves == ASSUME Typed, Push  PROVE Stream' = Stream
<1>1. Write(<< >>) /\ << >> \in Seq(PipeByte) /\ UNCHANGED inbuf  BY DEF Push, toolVars
<1>2. Stream' = Cat(Stream, << >>)  BY <1>1, WriteIs
<1>3. Stream \in Seq(PipeByte)  BY StreamNow
<1> QED  BY <1>2, <1>3, ConcatEmptySeq DEF Cat

LEMMA ArmMoves == ASSUME Typed, Arm  PROVE Stream' = Stream
<1>1. packet = << >> /\ UNCHANGED <<inbuf, rest>>  BY DEF Arm, toolVars
<1>2. PICK n, x, y : /\ n = Smaller(PACKET, Len(fifo))
                     /\ x = SubSeq(fifo, 1, n) /\ y = SubSeq(fifo, n + 1, Len(fifo))
                     /\ packet' = x /\ fifo' = y
  BY DEF Arm
<1>3. PICK a, d, c : a = inbuf /\ d = rest /\ c = fifo  OBVIOUS
<1>4. a \in Seq(PipeByte) /\ d \in Seq(PipeByte) /\ c \in Seq(PipeByte)  BY <1>3 DEF Typed
<1>5. n \in 0 .. Len(c)
  <2>1. PICK l : l = Len(c)  OBVIOUS
  <2>2. l \in Nat  BY <1>4, <2>1
  <2> QED  BY <2>1, <2>2, <1>2, <1>3, Sizes DEF Smaller
<1>6. x \in Seq(PipeByte) /\ y \in Seq(PipeByte) /\ Cat(x, y) = c
  BY <1>2, <1>3, <1>4, <1>5, CutIs
<1>7. Stream = Flow(a, << >>, c, d) /\ Stream' = Flow(a, x, y, d)
  BY <1>1, <1>2, <1>3, StreamIs
<1> QED  BY <1>4, <1>6, <1>7, FlowArms

LEMMA ReadMoves == ASSUME Typed, Read  PROVE Stream' = Stream
<1>1. /\ inbuf' = Cat(inbuf, packet) /\ packet' = << >> /\ UNCHANGED <<rest, fifo>>
  BY DEF Read, Cat
<1>2. PICK a, b, c, d : a = inbuf /\ b = packet /\ c = fifo /\ d = rest  OBVIOUS
<1>3. a \in Seq(PipeByte) /\ b \in Seq(PipeByte) /\ c \in Seq(PipeByte) /\ d \in Seq(PipeByte)
  BY <1>2 DEF Typed
<1>4. Stream = Flow(a, b, c, d) /\ Stream' = Flow(Cat(a, b), << >>, c, d)
  BY <1>1, <1>2, StreamIs
<1> QED  BY <1>3, <1>4, FlowReads

LEMMA PushKeeps == ASSUME IInv, Push  PROVE IInv'
<1>1. Typed /\ Undisturbed  BY DEF IInv
<1>2. UNCHANGED <<requests, boardVars, told, toolVars>> /\ Write(<< >>)  BY DEF Push
<1>3. << >> \in Seq(PipeByte) /\ UNCHANGED inbuf  BY <1>2 DEF toolVars
<1>4. /\ fifo' \in Seq(PipeByte) /\ rest' \in Seq(PipeByte) /\ packet' = packet
      /\ Len(fifo') <= FIFO_BYTES
      /\ Stream' = Cat(Stream, << >>)
  BY <1>1, <1>2, <1>3, WriteIs
<1>5. /\ BoardTyped' /\ told' \in Verdicts /\ requests' \in Seq(Frames)
      /\ packet' \in Seq(PipeByte) /\ Len(packet') <= PACKET
  BY <1>1, <1>2, <1>4 DEF Typed, BoardTyped, boardVars
<1>6. Stream' = Stream  BY <1>1, PushMoves
<1> QED  BY <1>1, <1>2, <1>4, <1>5, <1>6, SameTool, SameStream DEF IInv, toolVars

LEMMA ArmKeeps == ASSUME IInv, Arm  PROVE IInv'
<1>1. Typed /\ Undisturbed  BY DEF IInv
<1>2. UNCHANGED <<requests, rest, boardVars, told, toolVars>> /\ packet = << >>  BY DEF Arm
<1>3. PICK n, x, y : /\ n = Smaller(PACKET, Len(fifo))
                     /\ x = SubSeq(fifo, 1, n) /\ y = SubSeq(fifo, n + 1, Len(fifo))
                     /\ packet' = x /\ fifo' = y
  BY DEF Arm
<1>4. /\ rest \in Seq(PipeByte) /\ fifo \in Seq(PipeByte) /\ inbuf \in Seq(PipeByte)
      /\ Len(fifo) <= FIFO_BYTES
  BY <1>1 DEF Typed
<1>5. n \in 0 .. Len(fifo) /\ n <= PACKET
  <2>1. PICK l : l = Len(fifo)  OBVIOUS
  <2>2. l \in Nat  BY <1>4, <2>1
  <2> QED  BY <2>1, <2>2, <1>3, Sizes DEF Smaller
<1>6. /\ x \in Seq(PipeByte) /\ Len(x) = n
      /\ y \in Seq(PipeByte) /\ Len(y) = Len(fifo) - n /\ Cat(x, y) = fifo
  BY <1>3, <1>4, <1>5, CutIs
<1>7. /\ fifo' \in Seq(PipeByte) /\ packet' \in Seq(PipeByte) /\ Len(packet') <= PACKET
      /\ Len(fifo') <= FIFO_BYTES
  <2>1. PICK l : l = Len(fifo)  OBVIOUS
  <2>2. l \in Nat /\ n \in Nat /\ l - n <= l  BY <1>4, <1>5, <2>1
  <2>3. l - n <= FIFO_BYTES  BY <2>1, <2>2, <1>4, Sizes
  <2> QED  BY <1>3, <1>5, <1>6, <2>1, <2>3
<1>8. Stream' = Stream  BY <1>1, ArmMoves
<1>9. BoardTyped' /\ told' \in Verdicts /\ requests' \in Seq(Frames) /\ rest' \in Seq(PipeByte)
  BY <1>1, <1>2, <1>4 DEF Typed, BoardTyped, boardVars
<1> QED  BY <1>1, <1>2, <1>7, <1>8, <1>9, SameTool, SameStream DEF IInv, toolVars

(* A tool whose answer is dropped has no answer left to read, or was       *)
(* disturbed before.                                                       *)
LEMMA GiveUpKeeps == ASSUME IInv, GiveUp  PROVE IInv'
<1>1. Typed /\ Undisturbed  BY DEF IInv
<1>2. /\ UNCHANGED <<requests, fifo, packet, boardVars, told, tool, image, pc, step, inbuf, need, clean>>
      /\ rest # << >> /\ rest' = << >> /\ ~ Reading
  BY DEF GiveUp
<1>3. /\ BoardTyped' /\ told' \in Verdicts /\ requests' \in Seq(Frames) /\ rest' \in Seq(PipeByte)
      /\ fifo' \in Seq(PipeByte) /\ packet' \in Seq(PipeByte)
      /\ Len(fifo') <= FIFO_BYTES /\ Len(packet') <= PACKET
  BY <1>1, <1>2 DEF Typed, BoardTyped, boardVars
<1>4. Typed'  BY <1>1, <1>2, <1>3 DEF Typed, LastStep
<1>6. Stream # << >>  BY <1>1, <1>2, StreamNow
<1>5. UNCHANGED <<flash, running>>  BY <1>2 DEF boardVars
<1>7. Undisturbed'  BY <1>1, <1>2, <1>5, <1>6 DEF Undisturbed, Reading, Flashed
<1> QED  BY <1>4, <1>7 DEF IInv

LEMMA DispatchKeeps == ASSUME IInv, Dispatch  PROVE IInv'
<1>1. Typed /\ Undisturbed  BY DEF IInv
<1>2. PICK f : f = Head(requests)  OBVIOUS
<1>3. /\ requests # << >> /\ Handle(f) /\ requests' = Tail(requests)
      /\ UNCHANGED toolVars /\ UNCHANGED started
  BY <1>2 DEF Dispatch
<1>4. requests \in Seq(Frames) /\ f \in Frames /\ requests' \in Seq(Frames)
  BY <1>1, <1>2, <1>3 DEF Typed
<1>5. BoardTyped' /\ Answers(f)  BY <1>1, <1>3, <1>4, HandleIs
<1>6. PICK st \in Nat, b \in Seq(PipeByte) :
         /\ Respond(f.cmd, st, b)
         /\ Due(f) /\ st = OK => Meets(b)
         /\ Fulfils(f, st, b)
  BY <1>5 DEF Answers
<1>7. f.cmd \in Nat
  BY <1>4 DEF Frames, STATUS, GET_RANDOM, FLASH_BEGIN, FLASH_DATA, FLASH_END
<1>8. /\ fifo' \in Seq(PipeByte) /\ rest' \in Seq(PipeByte) /\ packet' = packet
      /\ Len(fifo') <= FIFO_BYTES
      /\ Stream' = Cat(Stream, Answer(f.cmd, st, b))
  <2>1. UNCHANGED inbuf  BY <1>3 DEF toolVars
  <2> QED  BY <2>1, <1>1, <1>6, <1>7, RespondIs
<1>verdict. told' \in Verdicts /\ (clean => told' = Verdict(f.cmd, st, b))
  BY <1>6 DEF Respond, Verdict, Verdicts
<1>9. Typed'
  <2>1. packet' \in Seq(PipeByte) /\ Len(packet') <= PACKET  BY <1>1, <1>8 DEF Typed
  <2> QED  BY <2>1, <1>1, <1>3, <1>4, <1>5, <1>8, <1>verdict, SameTool
<1>10. UNCHANGED <<tool, image, pc, step, need, clean>>  BY <1>3 DEF toolVars
<1>11. ASSUME clean
       PROVE  /\ pc \notin {"send", "body", "ok", "warned", "failed"}
              /\ pc = "header" => Answering' \/ Refused'
  <2>1. pc \notin {"send", "body", "ok", "warned", "failed"}
    BY <1>1, <1>3, <1>11 DEF Undisturbed
  <2>2. SUFFICES ASSUME pc = "header"  PROVE Answering' \/ Refused'
    BY <2>1
  <2>3. Asked /\ tool # "none"
    BY <1>1, <1>3, <1>11, <2>2 DEF Undisturbed, Answering, Refused, Typed
  <2>4. requests = <<Request>> /\ Stream = << >> /\ Serving  BY <2>3 DEF Asked
  <2>5. f = Request /\ requests' = << >>  BY <2>4, <1>2, <1>3
  <2>7. PICK c, a : c = f.cmd /\ a = Answer(c, st, b)  OBVIOUS
  <2>8. /\ a \in Seq(PipeByte) /\ Len(a) = 4 + Len(b)
        /\ a[1].v = f.cmd /\ a[2].v = st /\ a[3].v = Len(b) /\ a[4].v = 0
    <3>1. c \in Nat /\ st \in Nat /\ b \in Seq(PipeByte)  BY <2>7, <1>6, <1>7
    <3>2. IsAnswer(Answer(c, st, b), c, st, b)  BY <3>1, AnswerIs
    <3>3. IsAnswer(a, c, st, b)  BY <3>2, <2>7
    <3> QED  BY <3>3, <2>7 DEF IsAnswer
  <2>9. Stream' = a
    <3>1. Cat(<< >>, a) = a  BY <2>8, ConcatEmptySeq DEF Cat
    <3> QED  BY <3>1, <2>4, <2>7, <1>8
  <2>10. Request' = Request /\ BodyLen' = BodyLen  BY <1>10 DEF Request, BodyLen
  <2>refused. CASE st # OK
    <3>1. told' = "refused"  BY <2>refused, <1>verdict, <1>11 DEF Verdict
    <3>2. Len(a) >= 4
      <4>1. Len(b) \in Nat  BY <1>6
      <4> QED  BY <4>1, <2>8
    <3> QED  BY <3>1, <3>2, <2>refused, <2>5, <2>8, <2>9 DEF Refused, HEADER_BYTES
  <2>accepted. CASE st = OK
    <3>1. Meets(b)  BY <2>3, <2>4, <2>5, <2>accepted, <1>6 DEF Due
    <3>2. Tells(a[5])'
      <4> SUFFICES ASSUME tool = "update", step = CHUNKS + 1
                   PROVE  /\ told' = IF a[5].v # 0 THEN "up" ELSE "down"
                          /\ a[5].v # 0 => running' = image'
        BY <1>10 DEF Tells
      <4>1. f.cmd = FLASH_END /\ BodyLen = 1  BY <2>3, <2>5, <1>1, RequestIs
      <4>2. Len(b) = 1  BY <4>1, <3>1 DEF Meets
      <4>3. a[5] = b[1]  BY <4>2, <2>7, <1>6, <1>7, BodyIs
      <4>4. told' = IF b[1].v = 0 THEN "down" ELSE "up"
        BY <4>1, <2>accepted, <1>verdict, <1>11 DEF Verdict
      <4>5. b[1].v # 0 => running' = image  BY <3>1 DEF Meets
      <4> QED  BY <4>3, <4>4, <4>5, <1>10
    <3> QED  BY <3>1, <3>2, <2>5, <2>8, <2>9, <2>10, <2>accepted DEF Answering, Meets, HEADER_BYTES
  <2> QED  BY <2>refused, <2>accepted
<1>12. Undisturbed'  BY <1>10, <1>11 DEF Undisturbed
<1> QED  BY <1>9, <1>12 DEF IInv

(* An FPGA that configures itself late runs the image that fills the flash.*)
LEMMA ConfiguresKeeps == ASSUME IInv, Configures  PROVE IInv'
<1>1. Typed /\ Undisturbed  BY DEF IInv
<1>2. /\ running = "none" /\ running' = Bootable(flash)
      /\ UNCHANGED <<requests, pipeVars, session, flash, released, paused, told, toolVars>>
  BY DEF Configures
<1>3. UNCHANGED <<rest, fifo, packet, tool, image, pc, step, inbuf, need, clean>>
  BY <1>2 DEF pipeVars, toolVars
<1>4. BoardTyped'  BY <1>1, <1>2, BootableIs DEF Typed, BoardTyped
<1>5. Typed'  BY <1>1, <1>2, <1>3, <1>4, SameTool DEF Typed
<1>6. /\ Stream' = Stream /\ Request' = Request /\ BodyLen' = BodyLen
      /\ (Serving' <=> Serving) /\ (Asked' <=> Asked) /\ (Refused' <=> Refused)
  BY <1>2, <1>3 DEF Stream, Request, BodyLen, Serving, Asked, Refused, Flashed
<1>7. ASSUME tool = "update", \A c \in 1 .. CHUNKS : flash[c] = image
      PROVE  running' = image /\ image # "none"
  <2>1. image \in Images  BY <1>1, <1>7 DEF Typed
  <2> QED  BY <2>1, <1>2, <1>7, FilledIs, ImageIs
<1>8. Served => Served'
  <2> SUFFICES ASSUME Served, tool = "update", step = CHUNKS + 1
               PROVE  running' \in {"none", image'}
    BY <1>2, <1>3 DEF Served, Flashed
  <2>1. \A c \in 1 .. CHUNKS : flash[c] = image
    <3>1. \A c \in 1 .. CHUNKS : c <= CHUNKS + 1  BY Sizes
    <3> QED  BY <3>1 DEF Served, Flashed
  <2> QED  BY <2>1, <1>3, <1>7
<1>9. ASSUME NEW b, Tells(b)  PROVE Tells(b)'
  <2> SUFFICES ASSUME tool = "update", step = CHUNKS + 1
               PROVE  told = (IF b.v # 0 THEN "up" ELSE "down") /\ b.v = 0
    BY <1>2, <1>3 DEF Tells
  <2>1. image # "none"  BY <1>1, ImageIs DEF Typed
  <2> QED  BY <2>1, <1>2, <1>9 DEF Tells
<1>10. Answering => Answering'  BY <1>2, <1>3, <1>6, <1>8, <1>9 DEF Answering
<1>11. ASSUME clean, pc \in {"ok", "warned"}, tool = "update"
       PROVE  pc = "warned" /\ running' = image
  <2>1. Flashed(CHUNKS) /\ running \in IF pc = "ok" THEN {image} ELSE {"none", image}
    BY <1>1, <1>11 DEF Undisturbed
  <2>2. \A c \in 1 .. CHUNKS : flash[c] = image
    <3>1. \A c \in 1 .. CHUNKS : c <= CHUNKS  BY Sizes
    <3> QED  BY <3>1, <2>1 DEF Flashed
  <2>3. running' = image /\ image # "none"  BY <2>2, <1>7, <1>11
  <2> QED  BY <2>1, <2>3, <1>2, <1>11
<1>12. Undisturbed'
  <2> SUFFICES ASSUME clean  PROVE Undisturbed'
    BY <1>3 DEF Undisturbed
  <2>1. pc \in {"ok", "warned"} /\ tool = "update" => Flashed(CHUNKS)'
    BY <1>1, <1>2, <1>3 DEF Undisturbed, Flashed
  <2> QED  BY <2>1, <1>1, <1>2, <1>3, <1>6, <1>8, <1>9, <1>10, <1>11 DEF Undisturbed
<1> QED  BY <1>5, <1>12 DEF IInv

(* A replugged board has no tool. *)
LEMMA PowerCycleKeeps == ASSUME IInv, PowerCycle  PROVE IInv'
<1>1. Typed  BY DEF IInv
<1>2. /\ tool = "none" /\ requests' = << >> /\ rest' = << >> /\ fifo' = << >> /\ packet' = << >>
      /\ session' = FALSE /\ released' = TRUE /\ paused' = FALSE
      /\ running' \in {"none", Bootable(flash)} /\ UNCHANGED <<flash, told, toolVars>>
  BY DEF PowerCycle
<1>3. BoardTyped'  BY <1>1, <1>2, BootableIs DEF BoardTyped, Typed
<1>4. /\ requests' \in Seq(Frames) /\ rest' \in Seq(PipeByte)
      /\ fifo' \in Seq(PipeByte) /\ packet' \in Seq(PipeByte)
      /\ Len(fifo') <= FIFO_BYTES /\ Len(packet') <= PACKET
  BY <1>2, Sizes
<1>5. Typed'  BY <1>1, <1>2, <1>3, <1>4, SameTool DEF Typed
<1>6. ~ clean'  BY <1>1, <1>2 DEF Typed, toolVars
<1> QED  BY <1>5, <1>6 DEF IInv, Undisturbed

--------------------------------------------------------------------------------
(* The tool's steps *)

LEMMA StartKeeps == ASSUME IInv, NEW t \in Tools, Start(t)  PROVE IInv'
<1>1. Typed  BY DEF IInv
<1>2. /\ tool = "none" /\ tool' = t /\ pc' = "send"
      /\ image' \in IF t = "update" THEN Images ELSE {"none"}
      /\ clean' = Silent
      /\ UNCHANGED <<requests, pipeVars, boardVars, told, step, inbuf, need, printed>>
  BY DEF Start
<1>3. /\ UNCHANGED <<requests, rest, fifo, packet, session, flash, running, released, paused, step, inbuf, need>>
      /\ step = 0 /\ inbuf = << >> /\ t # "none"
  BY <1>1, <1>2 DEF Typed, pipeVars, boardVars, Tools
<1>4. 0 \in 0 .. LastStep'  BY <1>2, Sizes DEF LastStep
<1>5. clean' \in BOOLEAN  BY <1>2 DEF Silent
<1>6. Typed'  BY <1>1, <1>2, <1>3, <1>4, <1>5 DEF Typed, BoardTyped
<1>7. ASSUME clean'  PROVE requests' = << >> /\ Stream' = << >> /\ Serving'
  <2>1. requests = << >> /\ rest = << >> /\ fifo = << >> /\ packet = << >>
    BY <1>2, <1>7 DEF Silent
  <2>2. Stream' = << >>
    <3>1. Stream = << >>  BY <1>1, <1>3, <2>1, StreamNow
    <3> QED  BY <3>1, <1>3 DEF Stream
  <2>3. Serving'  BY <1>3 DEF Serving
  <2> QED  BY <2>1, <2>2, <2>3, <1>3
<1>8. Undisturbed'  BY <1>2, <1>7 DEF Undisturbed
<1> QED  BY <1>6, <1>8 DEF IInv

LEMMA SendKeeps == ASSUME IInv, Send  PROVE IInv'
<1>1. Typed /\ Undisturbed  BY DEF IInv
<1>2. /\ pc = "send" /\ pc' = "header" /\ need' = HEADER_BYTES
      /\ requests' = Append(requests, Request)
      /\ UNCHANGED <<tool, image, step, inbuf, clean, pipeVars, boardVars, told>>
  BY DEF Send, Outside
<1>3. UNCHANGED <<rest, fifo, packet, session, flash, running, released, paused, tool, image, step,
                  inbuf, clean>>
  BY <1>2 DEF pipeVars, boardVars
<1>4. requests \in Seq(Frames) /\ tool # "none"  BY <1>1, <1>2 DEF Typed
<1>5. requests' \in Seq(Frames)
  <2>1. PICK r : r = Request  OBVIOUS
  <2>2. r \in Frames  BY <2>1, <1>1, <1>4, RequestIs
  <2> QED  BY <2>1, <2>2, <1>2, <1>4
<1>6. Typed'
  BY <1>1, <1>2, <1>3, <1>5 DEF Typed, BoardTyped, LastStep, HEADER_BYTES
<1>7. ASSUME clean  PROVE Asked'
  <2>1. requests = << >> /\ Stream = << >> /\ Serving  BY <1>1, <1>2, <1>7 DEF Undisturbed
  <2>2. Stream' = Stream /\ Request' = Request /\ (Serving' <=> Serving)
    BY <1>3 DEF Stream, Request, Serving, Flashed
  <2>request. PICK r : r = Request  OBVIOUS
  <2>4. requests' = <<r>>  BY <2>1, <2>request, <1>2
  <2> QED  BY <2>1, <2>2, <2>request, <2>4 DEF Asked
<1>8. Undisturbed'  BY <1>2, <1>3, <1>7 DEF Undisturbed
<1> QED  BY <1>6, <1>8 DEF IInv

LEMMA ReadKeeps == ASSUME IInv, Read  PROVE IInv'
<1>1. Typed /\ Undisturbed  BY DEF IInv
<1>2. /\ Reading /\ inbuf' = Cat(inbuf, packet) /\ packet' = << >>
      /\ UNCHANGED <<requests, rest, fifo, boardVars, told, tool, image, pc, step, need, clean>>
  BY DEF Read, Cat
<1>3. UNCHANGED <<session, flash, running, released, paused>>  BY <1>2 DEF boardVars
<1>4. PICK a, b, c, d : a = inbuf /\ b = packet /\ c = fifo /\ d = rest  OBVIOUS
<1>5. a \in Seq(PipeByte) /\ b \in Seq(PipeByte) /\ c \in Seq(PipeByte) /\ d \in Seq(PipeByte)
  BY <1>1, <1>4 DEF Typed
<1>6. Cat(a, b) \in Seq(PipeByte)  BY <1>5, JoinedIs
<1>7. Typed'
  <2>1. inbuf' \in Seq(PipeByte)  BY <1>2, <1>4, <1>6
  <2>2. packet' \in Seq(PipeByte) /\ Len(packet') <= PACKET  BY <1>2, Sizes
  <2>3. tool # "none"  BY <1>1, <1>2 DEF Typed, Reading
  <2> QED  BY <2>1, <2>2, <2>3, <1>1, <1>2, <1>3 DEF Typed, BoardTyped, LastStep
<1>8. Stream' = Stream  BY <1>1, ReadMoves
<1>10. Undisturbed'  BY <1>1, <1>2, <1>8, SameStream
<1> QED  BY <1>7, <1>10 DEF IInv

(* What a read hands over are the first bytes of the stream, and the rest  *)
(* of the stream stays.                                                    *)
LEMMA ConsumedIs ==
    ASSUME Typed, Complete, Consumed, UNCHANGED <<rest, fifo, packet>>
    PROVE  /\ Got \in Seq(PipeByte) /\ Len(Got) = need
           /\ \A i \in 1 .. need : Got[i] = Stream[i]
           /\ inbuf' \in Seq(PipeByte)
           /\ Len(Stream) \in Nat /\ Len(Stream') = Len(Stream) - need
           /\ Stream' \in Seq(PipeByte) /\ Stream = Cat(Got, Stream')
<1>1. PICK a, b, c, d, n, e :
         a = inbuf /\ b = packet /\ c = fifo /\ d = rest /\ n = need /\ e = inbuf'
  OBVIOUS
<1>2. /\ a \in Seq(PipeByte) /\ b \in Seq(PipeByte) /\ c \in Seq(PipeByte) /\ d \in Seq(PipeByte)
      /\ n \in Nat
  BY <1>1 DEF Typed
<1>3. n \in 0 .. Len(a)
  <2>1. PICK l : l = Len(a)  OBVIOUS
  <2>2. l \in Nat /\ l >= n  BY <1>1, <1>2, <2>1 DEF Complete
  <2> QED  BY <1>2, <2>1, <2>2
<1>4. e = SubSeq(a, n + 1, Len(a)) /\ Got = SubSeq(a, 1, n)  BY <1>1 DEF Consumed, Got
<1>5. /\ Got \in Seq(PipeByte) /\ Len(Got) = n /\ \A i \in 1 .. n : Got[i] = a[i]
      /\ e \in Seq(PipeByte) /\ Len(e) = Len(a) - n
  BY <1>2, <1>3, <1>4, CutIs
<1>6. Stream = Flow(a, b, c, d) /\ Stream' = Flow(e, b, c, d)  BY <1>1, StreamIs
<1>7. /\ Len(Flow(a, b, c, d)) = Len(a) + Len(b) + Len(c) + Len(d)
      /\ \A i \in 1 .. Len(a) : Flow(a, b, c, d)[i] = a[i]
  <2> SUFFICES /\ Len(Flow(a, b, c, d)) = Len(a) + Len(b) + Len(c) + Len(d)
               /\ Starts(Flow(a, b, c, d), a)
    BY DEF Starts
  <2>1. a \in Seq(PipeByte) /\ b \in Seq(PipeByte) /\ c \in Seq(PipeByte) /\ d \in Seq(PipeByte)
    BY <1>2
  <2> QED  BY <2>1, FlowIs
<1>8. /\ Len(Flow(e, b, c, d)) = Len(e) + Len(b) + Len(c) + Len(d)
      /\ Flow(e, b, c, d) \in Seq(PipeByte)
  <2>1. b \in Seq(PipeByte) /\ c \in Seq(PipeByte) /\ d \in Seq(PipeByte) /\ e \in Seq(PipeByte)
    BY <1>2, <1>5
  <2> QED  BY <2>1, FlowIs
<1>9. Len(Stream) \in Nat /\ Len(Stream') = Len(Stream) - n
  <2>1. PICK la, lb, lc, ld, le :
           la = Len(a) /\ lb = Len(b) /\ lc = Len(c) /\ ld = Len(d) /\ le = Len(e)
    OBVIOUS
  <2>2. la \in Nat /\ lb \in Nat /\ lc \in Nat /\ ld \in Nat /\ le = la - n
    BY <2>1, <1>2, <1>5
  <2>3. Len(Stream) = la + lb + lc + ld /\ Len(Stream') = le + lb + lc + ld
    BY <2>1, <1>6, <1>7, <1>8
  <2> QED  BY <2>2, <2>3, <1>2
<1>10. \A i \in 1 .. n : Got[i] = Stream[i]
  <2>1. \A i \in 1 .. n : i \in 1 .. Len(a)
    <3>1. PICK l : l = Len(a)  OBVIOUS
    <3>2. n \in Nat /\ l \in Nat /\ n <= l  BY <1>2, <1>3, <3>1
    <3> QED  BY <3>1, <3>2
  <2> QED  BY <2>1, <1>5, <1>6, <1>7
<1>11. Stream' \in Seq(PipeByte)  BY <1>6, <1>8
<1>12. Stream = Cat(Got, Stream')
  <2>1. PICK g, x, y : g = Got /\ x = Cat(e, b) /\ y = Cat(x, c)  OBVIOUS
  <2>2. g \in Seq(PipeByte) /\ Cat(g, e) = a
    BY <2>1, <1>2, <1>3, <1>4, <1>5, CutIs
  <2>3. x \in Seq(PipeByte)  BY <2>1, <1>2, <1>5, JoinedIs
  <2>4. y \in Seq(PipeByte)  BY <2>1, <2>3, <1>2, JoinedIs
  <2>5. Cat(Cat(g, e), b) = Cat(g, x)  BY <2>1, <2>2, <1>2, <1>5, Associates
  <2>6. Cat(Cat(g, x), c) = Cat(g, y)  BY <2>1, <2>2, <2>3, <1>2, Associates
  <2>7. Cat(Cat(g, y), d) = Cat(g, Cat(y, d))  BY <2>2, <2>4, <1>2, Associates
  <2> QED  BY <2>1, <2>2, <2>5, <2>6, <2>7, <1>6 DEF Flow
<1> QED  BY <1>1, <1>5, <1>9, <1>10, <1>11, <1>12

(* Where Proceed leads. *)
LEMMA ProceedIs ==
    ASSUME Typed, NEW body, Proceed(body), UNCHANGED tool
    PROVE  /\ step' \in 0 .. LastStep' /\ need' \in Nat
           /\ pc' \in {"send", "ok", "warned", "failed"}
           /\ pc' = "send" => step < LastStep /\ step' = step + 1
           /\ pc' = "failed" => body = << >> /\ step >= LastStep
<1>1. step \in 0 .. LastStep /\ LastStep \in Nat /\ LastStep' = LastStep
  <2>1. step \in 0 .. LastStep  BY DEF Typed
  <2>2. CHUNKS \in Nat  BY Sizes
  <2>3. LastStep \in Nat  BY <2>2 DEF LastStep
  <2>4. LastStep' = LastStep  BY DEF LastStep
  <2> QED  BY <2>1, <2>3, <2>4
<1>2. CASE step < LastStep  BY <1>1, <1>2 DEF Proceed
<1>3. CASE ~ (step < LastStep)  BY <1>1, <1>3 DEF Proceed, Ends
<1> QED  BY <1>2, <1>3

(* The board serves the next step as well. *)
LEMMA ServesOn ==
    ASSUME Served, UNCHANGED <<session, flash, running, tool, image>>,
           step < LastStep, step' = step + 1, Typed
    PROVE  Serving'
<1>1. step \in Nat /\ step' - 1 = step  BY Sizes DEF Typed, LastStep
<1>2. tool = "update"
        => \A c \in 1 .. CHUNKS : flash'[c] = IF c <= step' - 1 THEN image' ELSE "erased"
  BY <1>1 DEF Served, Flashed
<1>3. tool = "update" => Flashed(step - 1)'  BY <1>2 DEF Flashed
<1> QED  BY <1>1, <1>3, Sizes DEF Served, Serving, LastStep

LEMMA ReadHeaderKeeps == ASSUME IInv, ReadHeader  PROVE IInv'
<1>1. Typed /\ Undisturbed  BY DEF IInv
<1>2. /\ pc = "header" /\ Complete /\ Consumed
      /\ UNCHANGED <<requests, tool, image, clean, pipeVars, boardVars, told>>
  BY DEF ReadHeader, Outside
<1>3. UNCHANGED <<rest, fifo, packet, session, flash, running, released, paused>>
  BY <1>2 DEF pipeVars, boardVars
<1>4. need = 4 /\ tool # "none"  BY <1>1, <1>2 DEF Typed, HEADER_BYTES
<1>5. PICK g : g = Got  OBVIOUS
<1>6. /\ g \in Seq(PipeByte) /\ Len(g) = 4 /\ \A i \in 1 .. 4 : g[i] = Stream[i]
      /\ inbuf' \in Seq(PipeByte) /\ Len(Stream) \in Nat /\ Len(Stream') = Len(Stream) - 4
      /\ Stream' \in Seq(PipeByte) /\ Stream = Cat(g, Stream')
  BY <1>1, <1>2, <1>3, <1>4, <1>5, ConsumedIs
<1>7. PICK length : length = g[3].v + 256 * g[4].v  OBVIOUS
<1>8. length \in Nat
  <2>1. g[3] \in PipeByte /\ g[4] \in PipeByte
    <3>1. g \in Seq(PipeByte) /\ 3 \in 1 .. Len(g) /\ 4 \in 1 .. Len(g)  BY <1>6
    <3> QED  BY <3>1, ElementOfSeq
  <2>2. PICK x, y : x = g[3].v /\ y = g[4].v  OBVIOUS
  <2>3. x \in Nat /\ y \in Nat  BY <2>1, <2>2 DEF PipeByte
  <2>4. length = x + 256 * y  BY <2>2, <1>7
  <2> QED  BY <2>3, <2>4
<1>13. tool' = tool  BY <1>2
<1>9. \/ ~ Accepts(g) /\ Ends("failed")
      \/ Accepts(g) /\ length = 0 /\ Proceed(<< >>)
      \/ Accepts(g) /\ length # 0 /\ pc' = "body" /\ need' = length /\ step' = step
  BY <1>5, <1>7 DEF ReadHeader
<1>10. Typed'
  <2>1. step' \in 0 .. LastStep' /\ need' \in Nat /\ pc' \in {"send", "body", "ok", "warned", "failed"}
    <3>1. step \in 0 .. LastStep /\ LastStep' = LastStep  BY <1>1, <1>2 DEF Typed, LastStep
    <3>2. CASE Proceed(<< >>)
      <4>1. PICK b : b = << >>  OBVIOUS
      <4>2. Proceed(b)  BY <4>1, <3>2
      <4> QED  BY <4>2, <1>1, <1>13, ProceedIs
    <3> QED  BY <3>1, <3>2, <1>8, <1>9 DEF Ends
  <2> QED  BY <2>1, <1>1, <1>2, <1>3, <1>4, <1>6 DEF Typed, BoardTyped
<1>11. ASSUME clean  PROVE Undisturbed'
  <2>refused. CASE Refused
    <3>1. g[2].v # OK
      <4>1. 2 \in 1 .. 4  OBVIOUS
      <4> QED  BY <4>1, <2>refused, <1>6 DEF Refused
    <3>2. pc' = "failed"  BY <3>1, <1>9 DEF Accepts, Ends
    <3> QED  BY <3>2, <2>refused, <1>2 DEF Undisturbed, Refused
  <2>answered. SUFFICES ASSUME ~ Refused  PROVE Undisturbed'
    BY <2>refused
  <2>1. Answering
    <3>1. Stream # << >>
      <4>1. Len(inbuf) >= 4  BY <1>2, <1>4 DEF Complete
      <4>2. inbuf # << >>  BY <4>1
      <4> QED  BY <4>2, <1>1, StreamNow
    <3> QED  BY <3>1, <2>answered, <1>1, <1>2, <1>11 DEF Undisturbed, Asked
  <2>2. /\ requests = << >> /\ Served /\ Len(Stream) = 4 + BodyLen
        /\ Stream[1].v = Request.cmd /\ Stream[2].v = OK
        /\ Stream[3].v = BodyLen /\ Stream[4].v = 0 /\ Tells(Stream[5])
    BY <2>1 DEF Answering, HEADER_BYTES
  <2>3. g[1].v = Request.cmd /\ g[2].v = OK /\ g[3].v = BodyLen /\ g[4].v = 0
    <3>1. 1 \in 1 .. 4 /\ 2 \in 1 .. 4 /\ 3 \in 1 .. 4 /\ 4 \in 1 .. 4  OBVIOUS
    <3> QED  BY <3>1, <2>2, <1>6
  <2>4. BodyLen \in Nat /\ (tool = "random" => BodyLen = ASKED)  BY <1>1, <1>4, RequestIs
  <2>5. length = BodyLen  BY <2>3, <2>4, <1>7
  <2>6. Accepts(g)  BY <2>3, <2>4 DEF Accepts
  <2>7. Len(Stream') = BodyLen
    <3>1. PICK l, k : l = Len(Stream) /\ k = BodyLen  OBVIOUS
    <3> QED  BY <3>1, <2>2, <2>4, <1>6
  <2>9. CASE length = 0
    <3>1. Proceed(<< >>)  BY <2>6, <2>9, <1>9
    <3>2. tool = "update" /\ step < LastStep
      <4>1. tool = "update" /\ step # CHUNKS + 1
        BY <2>5, <2>9, <1>1, <1>4, RequestIs, Sizes DEF Typed, Tools
      <4>2. step \in 0 .. LastStep /\ LastStep = CHUNKS + 1  BY <4>1, <1>1 DEF Typed, LastStep
      <4> QED  BY <4>1, <4>2, Sizes
    <3>3. pc' = "send" /\ step' = step + 1  BY <3>1, <3>2 DEF Proceed
    <3>4. Serving'  BY <3>2, <3>3, <2>2, <1>1, <1>2, <1>3, ServesOn
    <3>5. Stream' = << >>
      <4>1. PICK s : s = Stream'  OBVIOUS
      <4>2. s \in Seq(PipeByte) /\ Len(s) = 0  BY <4>1, <1>6, <2>5, <2>7, <2>9
      <4>3. s = << >>  BY <4>2, EmptySeq
      <4> QED  BY <4>1, <4>3
    <3> QED  BY <3>3, <3>4, <3>5, <2>2, <1>2 DEF Undisturbed
  <2>10. CASE length # 0
    <3>1. pc' = "body" /\ need' = length /\ step' = step  BY <2>6, <2>10, <1>9
    <3>2. BodyLen' = BodyLen /\ Served'
      BY <3>1, <2>2, <1>2, <1>3 DEF BodyLen, Served, Flashed
    <3>3. need' > 0  BY <3>1, <2>10, <1>8
    <3>5. Stream'[1] = Stream[5]
      <4>1. PICK s : s = Stream'  OBVIOUS
      <4>2. s \in Seq(PipeByte) /\ Stream = Cat(g, s)  BY <4>1, <1>6
      <4>3. 1 \in 1 .. Len(s)
        <5>1. Len(s) = length  BY <4>1, <2>5, <2>7
        <5> QED  BY <5>1, <2>10, <1>8
      <4>4. g \in Seq(PipeByte)  BY <1>6
      <4>5. \A i \in 1 .. Len(s) : Cat(g, s)[Len(g) + i] = s[i]  BY <4>2, <4>4, JoinedRest
      <4>6. Cat(g, s)[4 + 1] = s[1]  BY <4>3, <4>5, <1>6
      <4> QED  BY <4>1, <4>2, <4>6
    <3>6. Tells(Stream[1])'  BY <3>1, <3>5, <2>2, <1>2, <1>3 DEF Tells
    <3> QED  BY <3>1, <3>2, <3>3, <3>6, <2>2, <2>5, <2>7, <1>2 DEF Undisturbed
  <2> QED  BY <2>9, <2>10
<1>12. Undisturbed'  BY <1>2, <1>11 DEF Undisturbed
<1> QED  BY <1>10, <1>12 DEF IInv

LEMMA ReadBodyKeeps == ASSUME IInv, ReadBody  PROVE IInv'
<1>1. Typed /\ Undisturbed  BY DEF IInv
<1>2. PICK g : g = Got  OBVIOUS
<1>3. /\ pc = "body" /\ Complete /\ Consumed /\ Proceed(g)
      /\ UNCHANGED <<requests, tool, image, clean, pipeVars, boardVars, told>>
  BY <1>2 DEF ReadBody, Outside
<1>4. UNCHANGED <<rest, fifo, packet, session, flash, running, released, paused>> /\ tool' = tool
  BY <1>3 DEF pipeVars, boardVars
<1>5. /\ Len(g) = need /\ inbuf' \in Seq(PipeByte) /\ \A i \in 1 .. need : g[i] = Stream[i]
      /\ Len(Stream) \in Nat /\ Len(Stream') = Len(Stream) - need /\ Stream' \in Seq(PipeByte)
  BY <1>1, <1>2, <1>3, <1>4, ConsumedIs
<1>6. /\ step' \in 0 .. LastStep' /\ need' \in Nat
      /\ pc' \in {"send", "ok", "warned", "failed"}
      /\ pc' = "send" => step < LastStep /\ step' = step + 1
      /\ pc' = "failed" => g = << >>
  BY <1>1, <1>3, <1>4, ProceedIs
<1>7. Typed'
  <2>1. tool # "none"  BY <1>1, <1>3 DEF Typed
  <2> QED  BY <2>1, <1>1, <1>3, <1>4, <1>5, <1>6 DEF Typed, BoardTyped
<1>8. ASSUME clean  PROVE Undisturbed'
  <2>served. requests = << >> /\ Served /\ Len(Stream) = need /\ need > 0
    BY <1>1, <1>3, <1>8 DEF Undisturbed
  <2>accepted. pc' # "failed"
    <3>1. g # << >>  BY <2>served, <1>5
    <3> QED  BY <3>1, <1>6
  <2>read. Stream' = << >>
    <3>1. PICK l, s : l = Len(Stream) /\ s = Stream'  OBVIOUS
    <3>2. Len(s) = 0 /\ s \in Seq(PipeByte)  BY <3>1, <2>served, <1>5
    <3>3. s = << >>  BY <3>2, EmptySeq
    <3> QED  BY <3>1, <3>3
  <2>asks. ASSUME pc' = "send"  PROVE Serving'
    BY <2>served, <2>asks, <1>1, <1>3, <1>4, <1>6, ServesOn
  <2>told. ASSUME tool = "update", pc' \in {"ok", "warned"}
        PROVE  /\ Flashed(CHUNKS)'
               /\ told' = IF pc' = "ok" THEN "up" ELSE "down"
               /\ running' \in IF pc' = "ok" THEN {image'} ELSE {"none", image'}
    <3>1. /\ step \in 0 .. CHUNKS + 1 /\ LastStep = CHUNKS + 1 /\ image \in Images
          /\ running \in Images \cup {"none"}
      BY <2>told, <1>1 DEF Typed, BoardTyped, LastStep
    <3>2. ~ (step < LastStep)  BY <2>told, <1>3 DEF Proceed
    <3>3. step = CHUNKS + 1  BY <3>1, <3>2, Sizes
    <3>4. Flashed(CHUNKS + 1) /\ running \in {"none", image}  BY <2>served, <2>told, <3>3 DEF Served
    <3>5. Flashed(CHUNKS)'
      <4>1. \A c \in 1 .. CHUNKS : c <= CHUNKS /\ c <= CHUNKS + 1  BY Sizes
      <4> QED  BY <4>1, <3>4, <1>3, <1>4 DEF Flashed
    <3>6. pc' = "ok" <=> Configured(g)  BY <3>2, <2>told, <1>3 DEF Proceed, Ends
    <3>7. Configured(g) <=> Stream[1].v # 0
      <4>1. need \in Nat /\ 1 \in 1 .. need /\ g # << >>  BY <1>1, <1>5, <2>served DEF Typed
      <4> QED  BY <4>1, <1>5 DEF Configured
    <3>8. /\ told = IF Stream[1].v # 0 THEN "up" ELSE "down"
          /\ Stream[1].v # 0 => running = image
      BY <1>1, <1>3, <1>8, <2>told, <3>3 DEF Undisturbed, Tells
    <3> QED  BY <3>4, <3>5, <3>6, <3>7, <3>8, <1>3, <1>4
  <2> QED  BY <2>served, <2>accepted, <2>read, <2>asks, <2>told, <1>3, <1>4, <1>6 DEF Undisturbed
<1>9. Undisturbed'  BY <1>3, <1>8 DEF Undisturbed
<1> QED  BY <1>7, <1>9 DEF IInv

(* A tool that found a silent board is never left without its answer: what *)
(* it waits for is somewhere in the stream.                                *)
LEMMA TimesOutKeeps == ASSUME IInv, TimesOut  PROVE IInv'
<1>1. Typed /\ Undisturbed  BY DEF IInv
<1>2. /\ Reading /\ ~ Complete /\ Silent /\ pc' = "failed" /\ step' = step /\ need' = 0
      /\ UNCHANGED <<requests, tool, image, inbuf, clean, pipeVars, boardVars, told>>
  BY DEF TimesOut, Ends, Outside
<1>3. UNCHANGED <<rest, fifo, packet, session, flash, running, released, paused>>
  BY <1>2 DEF pipeVars, boardVars
<1>4. pc \in {"header", "body"} /\ tool # "none"  BY <1>1, <1>2 DEF Reading, Typed
<1>5. Typed'
  BY <1>1, <1>2, <1>3, <1>4 DEF Typed, BoardTyped, LastStep
<1>6. ~ clean
  <2> SUFFICES ASSUME clean  PROVE FALSE
    OBVIOUS
  <2>1. requests = << >> /\ rest = << >> /\ fifo = << >> /\ packet = << >>  BY <1>2 DEF Silent
  <2>2. /\ Len(Stream) = Len(inbuf) + Len(packet) + Len(fifo) + Len(rest)
        /\ inbuf \in Seq(PipeByte)
    BY <1>1, StreamNow DEF Typed
  <2>3. PICK l, n : l = Len(inbuf) /\ n = Len(Stream)  OBVIOUS
  <2>4. l \in Nat /\ n = l
    <3>1. Len(packet) = 0 /\ Len(fifo) = 0 /\ Len(rest) = 0  BY <2>1
    <3>2. l \in Nat  BY <2>2, <2>3
    <3>3. n = l + 0 + 0 + 0  BY <3>1, <2>2, <2>3
    <3> QED  BY <3>2, <3>3
  <2>5. l < need  BY <1>1, <1>2, <2>3, <2>4 DEF Complete, Typed
  <2>6. CASE pc = "header"
    <3>refused. CASE Refused
      <4>1. need = 4 /\ n >= 4
        BY <3>refused, <2>3, <2>6, <1>1 DEF Refused, Typed, HEADER_BYTES
      <4> QED  BY <4>1, <2>4, <2>5
    <3>answered. SUFFICES ASSUME ~ Refused  PROVE FALSE
      BY <3>refused
    <3>1. Answering  BY <3>answered, <2>1, <2>6, <1>1 DEF Undisturbed, Asked
    <3>2. need = 4 /\ n = 4 + BodyLen  BY <3>1, <2>3, <2>6, <1>1 DEF Answering, Typed, HEADER_BYTES
    <3>3. BodyLen \in Nat  BY <1>1, <1>4, RequestIs
    <3>4. PICK k : k = BodyLen  OBVIOUS
    <3> QED  BY <3>2, <3>3, <3>4, <2>4, <2>5
  <2>7. CASE pc = "body"
    <3>1. n = need  BY <2>3, <2>7, <1>1 DEF Undisturbed
    <3> QED  BY <3>1, <2>4, <2>5
  <2> QED  BY <2>6, <2>7, <1>4
<1>7. Undisturbed'  BY <1>2, <1>6 DEF Undisturbed
<1> QED  BY <1>5, <1>7 DEF IInv

LEMMA GoneKeeps == ASSUME IInv, Gone  PROVE IInv'
<1>1. Typed  BY DEF IInv
<1>2. /\ tool' = "none" /\ image' = "none" /\ pc' = "off" /\ step' = 0
      /\ inbuf' = << >> /\ need' = 0 /\ clean' = FALSE /\ told' = "nothing"
      /\ UNCHANGED <<requests, rest, fifo, packet, session, flash, running, released, paused>>
  BY DEF Gone, pipeVars, boardVars
<1>3. 0 \in 0 .. LastStep' /\ inbuf' \in Seq(PipeByte)  BY <1>2, Sizes DEF LastStep
<1> QED  BY <1>1, <1>2, <1>3 DEF IInv, Typed, BoardTyped, Verdicts, Undisturbed

LEMMA InitKeeps == ASSUME Init  PROVE IInv
<1>1. /\ requests = << >> /\ rest = << >> /\ fifo = << >> /\ packet = << >>
      /\ session = FALSE /\ released = TRUE /\ paused = FALSE /\ told = "nothing"
      /\ running \in {"none", Bootable(flash)}
      /\ tool = "none" /\ image = "none" /\ pc = "off" /\ step = 0
      /\ inbuf = << >> /\ need = 0 /\ clean = FALSE
  BY DEF Init
<1>2. flash \in [1 .. CHUNKS -> Images \cup {"erased", "junk"}]  BY DEF Init
<1>3. BoardTyped  BY <1>1, <1>2, BootableIs DEF BoardTyped
<1>4. 0 \in 0 .. LastStep  BY <1>1, Sizes DEF LastStep
<1>5. Typed
  <2>1. /\ requests \in Seq(Frames) /\ rest \in Seq(PipeByte) /\ fifo \in Seq(PipeByte)
        /\ packet \in Seq(PipeByte) /\ inbuf \in Seq(PipeByte)
        /\ Len(fifo) <= FIFO_BYTES /\ Len(packet) <= PACKET
    BY <1>1, Sizes
  <2> QED  BY <1>1, <1>3, <1>4, <2>1 DEF Typed, Verdicts
<1>6. Undisturbed  BY <1>1 DEF Undisturbed
<1> QED  BY <1>5, <1>6 DEF IInv

--------------------------------------------------------------------------------
(* An update that trusts answers of earlier tools is one answer or more    *)
(* behind, and sees its own answers cut in the wrong places.  Few bytes    *)
(* left behind mean that it has read all of them before it sends FLASH_END.*)
(* Whether the board has opened a session for it, or refused, decides what *)
(* its answers are.                                                        *)

(* The update's requests, and how many of them it has sent. *)
Own(k) == CASE k = 0          -> [cmd |-> FLASH_BEGIN]
            [] k = CHUNKS + 1 -> [cmd |-> FLASH_END]
            [] OTHER          -> [cmd |-> FLASH_DATA, image |-> image, at |-> k]
Sent  == IF pc = "send" THEN step ELSE step + 1
Whole == CHUNKS + 2

(* How many of them the board has handled, when none of an earlier tool is *)
(* left.                                                                   *)
Ahead == Sent - Len(requests)

(* What the answers to n requests, the last s of them the update's, will   *)
(* add to the stream at most, and exactly when all of them are its own.    *)
Owed(n)       == n * (HEADER_BYTES + ASKED)
Extra(n, s)   == IF s = Whole /\ n # 0 THEN 1 ELSE 0
Pending(n, s) == Extra(n, s) + (IF n <= s THEN 4 * n ELSE Owed(n - s) + 4 * s)

(* The update reads at least a header for each request it sends. *)
Cap == FEW + (CASE pc = "header" -> IF Sent = Whole THEN 5 ELSE 4
                       [] pc = "body"   -> IF Sent = Whole THEN 1 ELSE 0
                       [] OTHER         -> 0)

(* A byte, by its distance from the end of the last answer: those of       *)
(* FLASH_DATA are 4, 0, 0, 0 and that of FLASH_END is 5, 0, 1, 0 and what  *)
(* runs.  Refused, they have BUSY and FLASH for the first 0, and end in 0. *)
Says(v, i, s, r, open) ==
    IF s = Whole
    THEN /\ i \in 6 .. 4 * CHUNKS + 5
              => v = CASE i % 4 = 1            -> FLASH_DATA
                       [] i % 4 = 0 /\ ~ open  -> BUSY
                       [] OTHER                -> 0
         /\ i = 5 => v = FLASH_END
         /\ i = 4 => v = IF open THEN 0 ELSE FLASH
         /\ i = 3 => v = 1
         /\ i = 2 => v = 0
         /\ i = 1 /\ v # 0 => open /\ r # "none"
    ELSE i <= 4 * (s - 1)
              => v = CASE i % 4 = 0            -> FLASH_DATA
                       [] i % 4 = 3 /\ ~ open  -> BUSY
                       [] OTHER                -> 0

Foretold(z, n, s, r, open) ==
    \A j \in 1 .. Len(z) :
        Says(z[j].v, ((Len(z) - j) + 1) + (4 * n + Extra(n, s)), s, r, open)

LEMMA FewIs == FEW \in Nat /\ FEW <= 4 * CHUNKS /\ FEW <= 768
BY Sizes DEF FEW, Smaller, HEADER_BYTES, BUSY

LEMMA SaysOn ==
    ASSUME NEW v, NEW i \in Nat, i >= 1, NEW s \in 0 .. CHUNKS + 1, NEW r, NEW open \in BOOLEAN, Says(v, i, s, r, open)
    PROVE  /\ s + 1 # Whole => Says(v, i + 4, s + 1, r, open)
           /\ s + 1 = Whole => Says(v, i + 5, s + 1, r, open)
<1>1. CHUNKS \in Nat /\ s \in Nat /\ s # Whole /\ (s + 1) - 1 = s  BY Sizes DEF Whole
<1>2. i <= 4 * (s - 1)
        => v = CASE i % 4 = 0            -> FLASH_DATA
                 [] i % 4 = 3 /\ ~ open  -> BUSY
                 [] OTHER                -> 0
  BY <1>1 DEF Says
<1>3. /\ (i + 4) % 4 = i % 4
      /\ (i + 5) % 4 = 1 <=> i % 4 = 0
      /\ (i + 5) % 4 = 0 <=> i % 4 = 3
  OBVIOUS
<1>4. CASE s + 1 # Whole
  <2>1. i + 4 <= 4 * s => i <= 4 * (s - 1)  BY <1>1
  <2> QED  BY <1>1, <1>2, <1>3, <1>4, <2>1 DEF Says
<1>5. CASE s + 1 = Whole
  <2>1. i + 5 \in 6 .. 4 * CHUNKS + 5 => i <= 4 * (s - 1)  BY <1>1, <1>5 DEF Whole
  <2>2. i + 5 \notin {1, 2, 3, 4, 5}  OBVIOUS
  <2> QED  BY <1>2, <1>3, <1>5, <2>1, <2>2 DEF Says
<1> QED  BY <1>4, <1>5

(* What is foretold stays so when the update sends its next request, *)
LEMMA SendForetells ==
    ASSUME NEW z \in Seq(PipeByte), NEW n \in Nat, NEW s \in 0 .. CHUNKS + 1, NEW r,
           NEW open \in BOOLEAN,
           Foretold(z, n, s, r, open)
    PROVE  Foretold(z, n + 1, s + 1, r, open)
<1> SUFFICES ASSUME NEW j \in 1 .. Len(z)
             PROVE  Says(z[j].v, ((Len(z) - j) + 1) + (4 * (n + 1) + Extra(n + 1, s + 1)), s + 1, r, open)
  BY DEF Foretold
<1>1. PICK l, e, x : l = Len(z) /\ e = Extra(n + 1, s + 1) /\ x = z[j].v  OBVIOUS
<1>2. l \in Nat /\ j \in 1 .. l /\ CHUNKS \in Nat  BY <1>1, Sizes
<1>3. PICK i : i = ((l - j) + 1) + 4 * n  OBVIOUS
<1>4. i \in Nat /\ i >= 1  BY <1>2, <1>3
<1>5. Says(x, i, s, r, open)
  <2>1. Extra(n, s) = 0  BY Sizes DEF Extra, Whole
  <2>2. Says(x, ((l - j) + 1) + (4 * n + Extra(n, s)), s, r, open)  BY <1>1 DEF Foretold
  <2>3. ((l - j) + 1) + (4 * n + 0) = i  BY <1>2, <1>3
  <2> QED  BY <2>1, <2>2, <2>3
<1>6. e = IF s + 1 = Whole THEN 1 ELSE 0  BY <1>1 DEF Extra
<1>7. ((l - j) + 1) + (4 * (n + 1) + e) = IF s + 1 = Whole THEN i + 5 ELSE i + 4
  BY <1>2, <1>3, <1>6
<1>8. /\ s + 1 # Whole => Says(x, i + 4, s + 1, r, open)
      /\ s + 1 = Whole => Says(x, i + 5, s + 1, r, open)
  BY <1>4, <1>5, SaysOn
<1> QED  BY <1>1, <1>7, <1>8

(* when the tool takes the first bytes, *)
LEMMA ReadForetells ==
    ASSUME NEW g \in Seq(PipeByte), NEW z \in Seq(PipeByte), NEW n \in Nat, NEW s \in Nat, NEW r,
           NEW open \in BOOLEAN,
           Foretold(Cat(g, z), n, s, r, open)
    PROVE  Foretold(z, n, s, r, open)
<1> SUFFICES ASSUME NEW j \in 1 .. Len(z)
             PROVE  Says(z[j].v, ((Len(z) - j) + 1) + (4 * n + Extra(n, s)), s, r, open)
  BY DEF Foretold
<1>1. PICK l, m, e, y : l = Len(z) /\ m = Len(g) /\ e = 4 * n + Extra(n, s) /\ y = Cat(g, z)
  OBVIOUS
<1>2. l \in Nat /\ m \in Nat /\ j \in 1 .. l  BY <1>1
<1>3. Len(y) = m + l  BY <1>1, JoinedIs
<1>4. y[m + j] = z[j]  BY <1>1, JoinedRest
<1>5. m + j \in 1 .. Len(y) /\ ((m + l) - (m + j)) + 1 = (l - j) + 1  BY <1>2, <1>3
<1>6. Says(y[m + j].v, ((Len(y) - (m + j)) + 1) + e, s, r, open)  BY <1>1, <1>5 DEF Foretold
<1> QED  BY <1>1, <1>3, <1>4, <1>5, <1>6

(* and when the board handles the request of an earlier tool, or           *)
(* FLASH_BEGIN: no answer of the update that matters is there yet.         *)
LEMMA NoneForetold ==
    ASSUME NEW z \in Seq(PipeByte), NEW n \in Nat, NEW s \in 0 .. Whole, NEW r,
           NEW open \in BOOLEAN, n >= 1, s <= n
    PROVE  Foretold(z, n - 1, s, r, open)
<1> SUFFICES ASSUME NEW j \in 1 .. Len(z)
             PROVE  Says(z[j].v, ((Len(z) - j) + 1) + (4 * (n - 1) + Extra(n - 1, s)), s, r, open)
  BY DEF Foretold
<1>1. PICK l, e : l = Len(z) /\ e = Extra(n - 1, s)  OBVIOUS
<1>2. l \in Nat /\ j \in 1 .. l /\ CHUNKS \in Nat \ {0} /\ s \in Nat  BY <1>1, Sizes DEF Whole
<1>3. PICK i : i = ((l - j) + 1) + (4 * (n - 1) + e)  OBVIOUS
<1>4. CASE s = Whole
  <2>1. n - 1 # 0 /\ 4 * (n - 1) >= 4 * CHUNKS + 4  BY <1>2, <1>4 DEF Whole
  <2>2. e = 1  BY <1>1, <1>4, <2>1 DEF Extra
  <2>3. i > 4 * CHUNKS + 5 /\ i \in Nat  BY <1>2, <1>3, <2>1, <2>2
  <2>4. i \notin 6 .. 4 * CHUNKS + 5 /\ i \notin {1, 2, 3, 4, 5}  BY <1>2, <2>3
  <2> QED  BY <1>1, <1>3, <1>4, <2>4 DEF Says
<1>5. CASE s # Whole
  <2>1. e = 0  BY <1>1, <1>5 DEF Extra
  <2>2. ~ (i <= 4 * (s - 1))  BY <1>2, <1>3, <2>1
  <2> QED  BY <1>1, <1>3, <1>5, <2>2 DEF Says
<1> QED  BY <1>4, <1>5

(* When the board handles its FLASH_DATA or its FLASH_END, the answer is   *)
(* what was foretold.                                                      *)
LEMMA DataForetold ==
    ASSUME NEW z \in Seq(PipeByte), NEW n \in Nat, NEW s \in 0 .. Whole, NEW r,
           NEW open \in BOOLEAN, n >= 1, n < s,
           s = Whole => n # 1, Foretold(z, n, s, r, open),
           NEW b, Len(b) = 0, NEW a, IsAnswer(a, FLASH_DATA, IF open THEN OK ELSE BUSY, b)
    PROVE  Foretold(Cat(z, a), n - 1, s, r, open)
<1>1. PICK l, e, y : l = Len(z) /\ e = Extra(n, s) /\ y = Cat(z, a)  OBVIOUS
<1>2. l \in Nat /\ CHUNKS \in Nat \ {0} /\ s \in Nat  BY <1>1, Sizes DEF Whole
<1>3. e = (IF s = Whole THEN 1 ELSE 0) /\ Extra(n - 1, s) = e  BY <1>1 DEF Extra
<1>4. /\ a \in Seq(PipeByte) /\ Len(a) = 4
      /\ a[1].v = FLASH_DATA /\ a[2].v = (IF open THEN 0 ELSE BUSY) /\ a[3].v = 0 /\ a[4].v = 0
  BY DEF IsAnswer, OK
<1>5. /\ y \in Seq(PipeByte) /\ Len(y) = l + 4 /\ \A j \in 1 .. l : y[j] = z[j]
      /\ \A k \in 1 .. 4 : y[l + k] = a[k]
  <2>1. a \in Seq(PipeByte)  BY <1>4
  <2>2. /\ Cat(z, a) \in Seq(PipeByte) /\ Len(Cat(z, a)) = Len(z) + Len(a)
        /\ \A j \in 1 .. Len(z) : Cat(z, a)[j] = z[j]
    BY <2>1, JoinedIs
  <2>3. \A k \in 1 .. Len(a) : Cat(z, a)[Len(z) + k] = a[k]  BY <2>1, JoinedRest
  <2> QED  BY <2>2, <2>3, <1>1, <1>4
<1> SUFFICES ASSUME NEW j \in 1 .. l + 4
             PROVE  Says(y[j].v, (((l + 4) - j) + 1) + (4 * (n - 1) + e), s, r, open)
  BY <1>1, <1>3, <1>5 DEF Foretold
<1>7. CASE j <= l
  <2>1. j \in 1 .. l  BY <1>2, <1>7
  <2>2. Says(z[j].v, ((l - j) + 1) + (4 * n + e), s, r, open)  BY <2>1, <1>1 DEF Foretold
  <2>3. ((l - j) + 1) + (4 * n + e) = (((l + 4) - j) + 1) + (4 * (n - 1) + e)
    BY <2>1, <1>2, <1>3
  <2> QED  BY <2>1, <2>2, <2>3, <1>5
<1>8. CASE ~ (j <= l)
  <2>1. PICK k \in 1 .. 4 : j = l + k
    <3>1. j - l \in 1 .. 4 /\ j = l + (j - l)  BY <1>2, <1>8
    <3> QED  BY <3>1
  <2>2. PICK i : i = (((l + 4) - j) + 1) + (4 * (n - 1) + e)  OBVIOUS
  <2>3. i = (5 - k) + (4 * (n - 1) + e)  BY <2>1, <2>2, <1>2, <1>3
  <2>4. y[j].v = CASE k = 1           -> FLASH_DATA
                    [] k = 2 /\ ~ open -> BUSY
                    [] OTHER           -> 0
    BY <2>1, <1>4, <1>5
  <2>5. CASE s = Whole
    <3>1. i = 6 - k + 4 * (n - 1) /\ n - 1 >= 1  BY <2>3, <2>5, <1>3
    <3>2. i \notin {1, 2, 3, 4, 5} /\ (i % 4 = 1 <=> k = 1) /\ (i % 4 = 0 <=> k = 2)  BY <3>1
    <3> QED  BY <2>2, <2>4, <2>5, <3>2 DEF Says
  <2>6. CASE s # Whole
    <3>1. i = 5 - k + 4 * (n - 1)  BY <2>3, <2>6, <1>3
    <3>2. (i % 4 = 0 <=> k = 1) /\ (i % 4 = 3 <=> k = 2)  BY <3>1
    <3> QED  BY <2>2, <2>4, <2>6, <3>2 DEF Says
  <2> QED  BY <2>5, <2>6
<1> QED  BY <1>7, <1>8

LEMMA EndForetold ==
    ASSUME NEW z \in Seq(PipeByte), NEW r, NEW open \in BOOLEAN, Foretold(z, 1, Whole, r, open), NEW t,
           NEW b, Len(b) = 1, b[1].v # 0 => open /\ t # "none",
           NEW a, IsAnswer(a, FLASH_END, IF open THEN OK ELSE FLASH, b), a[5] = b[1]
    PROVE  Foretold(Cat(z, a), 0, Whole, t, open)
<1>1. PICK l, y : l = Len(z) /\ y = Cat(z, a)  OBVIOUS
<1>2. l \in Nat /\ CHUNKS \in Nat \ {0}  BY <1>1, Sizes
<1>3. Extra(1, Whole) = 1 /\ Extra(0, Whole) = 0  BY DEF Extra
<1>4. /\ a \in Seq(PipeByte) /\ Len(a) = 5
      /\ a[1].v = FLASH_END /\ a[2].v = (IF open THEN 0 ELSE FLASH) /\ a[3].v = 1 /\ a[4].v = 0
      /\ a[5].v # 0 => open /\ t # "none"
  BY DEF IsAnswer, OK
<1>5. /\ y \in Seq(PipeByte) /\ Len(y) = l + 5 /\ \A j \in 1 .. l : y[j] = z[j]
      /\ \A k \in 1 .. 5 : y[l + k] = a[k]
  <2>1. a \in Seq(PipeByte)  BY <1>4
  <2>2. /\ Cat(z, a) \in Seq(PipeByte) /\ Len(Cat(z, a)) = Len(z) + Len(a)
        /\ \A j \in 1 .. Len(z) : Cat(z, a)[j] = z[j]
    BY <2>1, JoinedIs
  <2>3. \A k \in 1 .. Len(a) : Cat(z, a)[Len(z) + k] = a[k]  BY <2>1, JoinedRest
  <2> QED  BY <2>2, <2>3, <1>1, <1>4
<1> SUFFICES ASSUME NEW j \in 1 .. l + 5
             PROVE  Says(y[j].v, (((l + 5) - j) + 1) + (4 * 0 + 0), Whole, t, open)
  BY <1>1, <1>3, <1>5 DEF Foretold
<1>7. CASE j <= l
  <2>1. j \in 1 .. l  BY <1>2, <1>7
  <2>2. Says(z[j].v, ((l - j) + 1) + (4 * 1 + 1), Whole, r, open)  BY <2>1, <1>1, <1>3 DEF Foretold
  <2>distance. PICK i : i = (((l + 5) - j) + 1) + (4 * 0 + 0)  OBVIOUS
  <2>4. i = ((l - j) + 1) + (4 * 1 + 1) /\ i \notin {1, 2, 3, 4, 5}  BY <2>1, <2>distance, <1>2
  <2> QED  BY <2>1, <2>2, <2>distance, <2>4, <1>5 DEF Says
<1>8. CASE ~ (j <= l)
  <2>1. PICK k \in 1 .. 5 : j = l + k
    <3>1. j - l \in 1 .. 5 /\ j = l + (j - l)  BY <1>2, <1>8
    <3> QED  BY <3>1
  <2>distance. PICK i : i = (((l + 5) - j) + 1) + (4 * 0 + 0)  OBVIOUS
  <2>3. i = 6 - k /\ i \notin 6 .. 4 * CHUNKS + 5  BY <2>1, <2>distance, <1>2
  <2>4. y[j] = a[k]  BY <2>1, <1>5
  <2> QED  BY <2>1, <2>distance, <2>3, <2>4, <1>4 DEF Says
<1> QED  BY <1>7, <1>8

(* Sizes of what is pending. *)
LEMMA OwedIs ==
    ASSUME NEW n \in Nat
    PROVE  Owed(n) \in Nat /\ Owed(0) = 0 /\ Owed(n + 1) = Owed(n) + (4 + ASKED)
BY Sizes DEF Owed, HEADER_BYTES

LEMMA SendPends ==
    ASSUME NEW n \in Nat, NEW s \in 0 .. CHUNKS + 1
    PROVE  /\ Pending(n, s) \in Nat
           /\ Pending(n + 1, s + 1) = Pending(n, s) + IF s + 1 = Whole THEN 5 ELSE 4
<1>1. s \in Nat /\ s # Whole /\ Extra(n, s) = 0 /\ n + 1 # 0
      /\ Extra(n + 1, s + 1) = IF s + 1 = Whole THEN 1 ELSE 0
  BY Sizes DEF Whole, Extra
<1>2. CASE n <= s  BY <1>1, <1>2 DEF Pending
<1>3. CASE ~ (n <= s)
  <2>1. PICK k : k = n - s  OBVIOUS
  <2>2. k \in Nat /\ (n + 1) - (s + 1) = k /\ ~ (n + 1 <= s + 1)  BY <2>1, <1>1, <1>3
  <2>3. Owed(k) \in Nat  BY <2>2, OwedIs
  <2>4. Pending(n, s) = 0 + (Owed(k) + 4 * s)  BY <2>1, <1>1, <1>3 DEF Pending
  <2>5. Pending(n + 1, s + 1) = Extra(n + 1, s + 1) + (Owed(k) + 4 * (s + 1))
    BY <2>2 DEF Pending
  <2>6. PICK o : o = Owed(k)  OBVIOUS
  <2> QED  BY <2>3, <2>4, <2>5, <2>6, <1>1
<1> QED  BY <1>2, <1>3

LEMMA AnswerPends ==
    ASSUME NEW n \in Nat, n >= 1, NEW s \in 0 .. Whole
    PROVE  /\ Pending(n, s) \in Nat /\ Pending(n - 1, s) \in Nat
           /\ n > s => Pending(n, s) = Pending(n - 1, s) + (4 + ASKED)
           /\ n <= s => Pending(n, s) = Pending(n - 1, s) + IF s = Whole /\ n = 1 THEN 5 ELSE 4
<1>1. s \in Nat /\ CHUNKS \in Nat \ {0} /\ n - 1 \in Nat /\ (n - 1 = 0 <=> n = 1)
  BY Sizes DEF Whole
<1>2. /\ Extra(n, s) = (IF s = Whole THEN 1 ELSE 0)
      /\ Extra(n - 1, s) = (IF s = Whole /\ n # 1 THEN 1 ELSE 0)
  BY <1>1 DEF Extra
<1>3. CASE n <= s
  <2>1. n - 1 <= s  BY <1>1, <1>3
  <2>2. Pending(n, s) = Extra(n, s) + 4 * n /\ Pending(n - 1, s) = Extra(n - 1, s) + 4 * (n - 1)
    BY <2>1, <1>3 DEF Pending
  <2> QED  BY <2>2, <1>1, <1>2, <1>3
<1>4. CASE n > s
  <2>1. PICK k : k = (n - 1) - s  OBVIOUS
  <2>2. k \in Nat /\ n - s = k + 1 /\ ~ (n <= s)  BY <2>1, <1>1, <1>4
  <2>3. Extra(n - 1, s) = Extra(n, s) /\ Extra(n, s) \in Nat
    <3>1. s = Whole => n # 1  BY <1>1, <1>4 DEF Whole
    <3> QED  BY <3>1, <1>2
  <2>4. Owed(k) \in Nat /\ Owed(0) = 0 /\ Owed(k + 1) = Owed(k) + (4 + ASKED)  BY <2>2, OwedIs
  <2>5. Pending(n, s) = Extra(n, s) + (Owed(k + 1) + 4 * s)  BY <2>2 DEF Pending
  <2>6. Pending(n - 1, s) = Extra(n, s) + (Owed(k) + 4 * s)
    <3>1. CASE n - 1 <= s
      <4>1. n - 1 = s /\ k = 0  BY <3>1, <2>1, <1>1, <1>4
      <4> QED  BY <3>1, <4>1, <2>3, <2>4, <1>1 DEF Pending
    <3>2. CASE ~ (n - 1 <= s)  BY <3>2, <2>1, <2>3 DEF Pending
    <3> QED  BY <3>1, <3>2
  <2>7. PICK o, e : o = Owed(k) /\ e = Extra(n, s)  OBVIOUS
  <2>8. ASKED \in Nat  BY Sizes
  <2> QED  BY <2>3, <2>4, <2>5, <2>6, <2>7, <2>8, <1>1, <1>4
<1> QED  BY <1>1, <1>3, <1>4

LEMMA PendsIs ==
    ASSUME NEW n \in Nat, NEW s \in 0 .. Whole
    PROVE  Pending(n, s) \in Nat
<1>1. CASE n = 0
  <2>1. Extra(0, s) = 0 /\ 0 <= s  BY Sizes DEF Extra, Whole
  <2> QED  BY <1>1, <2>1 DEF Pending
<1>2. CASE n # 0
  <2>1. n >= 1  BY <1>2
  <2> QED  BY <2>1, AnswerPends
<1> QED  BY <1>1, <1>2

(* Bounded as it is, what is outstanding when FLASH_END is sent are the    *)
(* answers to FLASH_DATA and FLASH_END.                                    *)
LEMMA EndPends ==
    ASSUME NEW n \in Nat, NEW u \in Nat, u + Pending(n, Whole) <= 4 * CHUNKS + 5
    PROVE  n < Whole /\ Pending(n, Whole) = 4 * n + Extra(n, Whole)
<1>1. CHUNKS \in Nat /\ Whole = CHUNKS + 2  BY Sizes DEF Whole
<1>2. CASE n <= Whole
  <2>1. Pending(n, Whole) = Extra(n, Whole) + 4 * n  BY <1>2 DEF Pending
  <2>2. Extra(n, Whole) \in {0, 1}  BY DEF Extra
  <2>3. n # Whole  BY <2>1, <2>2, <1>1
  <2> QED  BY <2>1, <2>2, <2>3, <1>1, <1>2
<1>3. CASE n > Whole
  <2>1. PICK k, o : k = n - Whole /\ o = Owed(k)  OBVIOUS
  <2>2. k \in Nat /\ ~ (n <= Whole)  BY <2>1, <1>1, <1>3
  <2>3. o \in Nat  BY <2>1, <2>2, OwedIs
  <2>4. Pending(n, Whole) = Extra(n, Whole) + (o + 4 * Whole)  BY <2>1, <2>2 DEF Pending
  <2>5. Extra(n, Whole) \in {0, 1}  BY DEF Extra
  <2> QED  BY <2>3, <2>4, <2>5, <1>1
<1> QED  BY <1>1, <1>2, <1>3

--------------------------------------------------------------------------------
(* The invariant *)

Queued   == \A p \in 1 .. Len(requests) :
               p + Ahead >= 1 => requests[p] = Own((p + Ahead) - 1)
Opened(open)   == Ahead \in 1 .. CHUNKS + 1 => session = open
Written(open)  == open => \A c \in 1 .. CHUNKS : c < Ahead => flash[c] \in {image, "junk"}
Finished(open) == open /\ Ahead = Whole /\ running # "none" => Updated

Unread  == Len(Stream) + Pending(Len(requests), Sent)
Bounded == Unread <= Cap
Content(open) == Foretold(Stream, Len(requests), Sent, running, open)

(* A body of m bytes that the tool takes for that of FLASH_END, with u     *)
(* bytes to come: it never comes, or starts with a 0, or is the right one. *)
Body(m, u, open) == \/ m > u
                    \/ open /\ \/ u > 5 /\ u % 4 # 1
                               \/ u \in {4, 2}
                               \/ u = 1 /\ m = 1
Ending(open) == pc = "body" /\ Sent = Whole => need > 0 /\ Body(need, Unread, open)

Following(open) == /\ Queued /\ Opened(open) /\ Written(open) /\ Finished(open)
                   /\ Bounded /\ Content(open) /\ Ending(open)

Followed ==
    few /\ tool = "update" =>
        /\ pc \in {"send", "header", "body"} => \E open \in BOOLEAN : Following(open)
        /\ pc = "ok" => requests = << >> /\ Updated

LEMMA NineMore ==
    ASSUME NEW i \in Nat
    PROVE  /\ (i + 9) % 4 = 2 <=> (i + 8) % 4 = 1
           /\ (i + 9) % 4 = 1 => (i + 7) % 4 # 1 /\ (i + 6) % 4 # 1
           /\ (i + 9) % 4 # 1 <=> (i + 5) % 4 # 1
           /\ i # 0 \/ (i + 9) % 4 = 1
           /\ i # 1 \/ (i + 9) % 4 = 2
<1>1. (i + 9) % 4 = 2 <=> (i + 8) % 4 = 1  OBVIOUS
<1>2. (i + 9) % 4 = 1 => (i + 7) % 4 # 1  OBVIOUS
<1>3. (i + 9) % 4 = 1 => (i + 6) % 4 # 1  OBVIOUS
<1>4. (i + 9) % 4 # 1 <=> (i + 5) % 4 # 1  OBVIOUS
<1>5. (0 + 9) % 4 = 1 /\ (1 + 9) % 4 = 2  OBVIOUS
<1> QED  BY <1>1, <1>2, <1>3, <1>4, <1>5

(* What a header out of the update's last answers may announce: when they  *)
(* are accepted,                                                           *)
LEMMA AcceptedSays ==
    ASSUME NEW u \in Nat, u >= 4, u <= 4 * CHUNKS + 5, NEW r, NEW open \in BOOLEAN, open,
           NEW x, Says(x, u - 1, Whole, r, open), NEW y, Says(y, u - 2, Whole, r, open),
           NEW w, Says(w, u - 3, Whole, r, open),
           x = 0, NEW length, length = y + 256 * w, length # 0
    PROVE  Body(length, u - 4, open)
<1>1. CASE u >= 9
  <2>1. u - 1 \in 6 .. 4 * CHUNKS + 5 /\ u - 2 \in 6 .. 4 * CHUNKS + 5 /\ u - 3 \in 6 .. 4 * CHUNKS + 5
    <3>1. PICK c : c = 4 * CHUNKS + 5  OBVIOUS
    <3>2. c \in Nat /\ u <= c  BY <3>1, Sizes
    <3>3. u - 1 \in 6 .. c /\ u - 2 \in 6 .. c /\ u - 3 \in 6 .. c  BY <3>2, <1>1
    <3> QED  BY <3>1, <3>3
  <2>2. /\ x = IF (u - 1) % 4 = 1 THEN 4 ELSE 0
        /\ y = IF (u - 2) % 4 = 1 THEN 4 ELSE 0
        /\ w = IF (u - 3) % 4 = 1 THEN 4 ELSE 0
    BY <2>1 DEF Says, FLASH_DATA
  <2>3. PICK i \in Nat : u = i + 9
    <3>1. u - 9 \in Nat /\ u = (u - 9) + 9  BY <1>1
    <3> QED  BY <3>1
  <2>4. /\ (i + 9) % 4 = 2 <=> (i + 8) % 4 = 1
        /\ (i + 9) % 4 = 1 => (i + 7) % 4 # 1 /\ (i + 6) % 4 # 1
        /\ (i + 9) % 4 # 1 <=> (i + 5) % 4 # 1
        /\ i # 0 \/ (i + 9) % 4 = 1
        /\ i # 1 \/ (i + 9) % 4 = 2
    BY NineMore
  <2>5. u - 1 = i + 8 /\ u - 2 = i + 7 /\ u - 3 = i + 6 /\ u - 4 = i + 5
    <3>1. (i + 9) - 1 = i + 8 /\ (i + 9) - 2 = i + 7 /\ (i + 9) - 3 = i + 6 /\ (i + 9) - 4 = i + 5
      OBVIOUS
    <3> QED  BY <3>1, <2>3
  <2>6. (i + 9) % 4 # 2
    <3>1. (i + 8) % 4 # 1  BY <2>2, <2>5
    <3> QED  BY <3>1, <2>4
  <2>7. (i + 9) % 4 # 1
    <3> SUFFICES ASSUME (i + 9) % 4 = 1  PROVE FALSE
      OBVIOUS
    <3>1. (i + 7) % 4 # 1 /\ (i + 6) % 4 # 1  BY <2>4
    <3>2. y = 0 /\ w = 0  BY <3>1, <2>2, <2>5
    <3> QED  BY <3>2
  <2>8. i # 0 /\ i # 1  BY <2>4, <2>6, <2>7
  <2>9. i + 5 > 5 /\ (i + 5) % 4 # 1  BY <2>4, <2>7, <2>8
  <2>10. u - 4 > 5 /\ (u - 4) % 4 # 1  BY <2>5, <2>9
  <2> QED  BY <2>10 DEF Body
<1>2. CASE u = 8
  <2>1. u - 4 = 4  BY <1>2
  <2> QED  BY <2>1 DEF Body
<1>3. CASE u = 7
  <2>at. u - 2 = 5 /\ u - 3 = 4  BY <1>3
  <2>1. Says(y, 5, Whole, r, open) /\ Says(w, 4, Whole, r, open)  BY <2>at, Zenon
  <2>2. y = 5 /\ w = 0  BY <2>1 DEF Says, FLASH_END
  <2>3. length = 5 /\ u - 4 = 3  BY <2>2, <1>3
  <2> QED  BY <2>3 DEF Body
<1>4. CASE u = 6
  <2>at. u - 1 = 5  BY <1>4
  <2>1. Says(x, 5, Whole, r, open)  BY <2>at, Zenon
  <2> QED  BY <2>1 DEF Says, FLASH_END
<1>5. CASE u = 5
  <2>at. u - 2 = 3 /\ u - 3 = 2  BY <1>5
  <2>1. Says(y, 3, Whole, r, open) /\ Says(w, 2, Whole, r, open)  BY <2>at, Zenon
  <2>2. y = 1 /\ w = 0  BY <2>1 DEF Says
  <2>3. length = 1 /\ u - 4 = 1  BY <2>2, <1>5
  <2> QED  BY <2>3 DEF Body
<1>6. CASE u = 4
  <2>at. u - 1 = 3  BY <1>6
  <2>1. Says(x, 3, Whole, r, open)  BY <2>at, Zenon
  <2>2. x = 1  BY <2>1 DEF Says
  <2> QED  BY <2>2
<1>7. u >= 9 \/ u = 8 \/ u = 7 \/ u = 6 \/ u = 5 \/ u = 4
  <2>1. ASSUME NEW v \in Nat, v >= 4
        PROVE  v >= 9 \/ v = 8 \/ v = 7 \/ v = 6 \/ v = 5 \/ v = 4
    BY <2>1
  <2> QED  BY <2>1
<1> QED  BY <1>1, <1>2, <1>3, <1>4, <1>5, <1>6, <1>7

(* and when they are refused: more than is left to read.                   *)
LEMMA RefusedSays ==
    ASSUME NEW u \in Nat, u >= 4, u <= 4 * CHUNKS + 5, u <= 773, NEW r,
           NEW open \in BOOLEAN, ~ open,
           NEW x, Says(x, u - 1, Whole, r, open), NEW y \in Nat, Says(y, u - 2, Whole, r, open),
           NEW w, Says(w, u - 3, Whole, r, open),
           x = 0, NEW length, length = y + 256 * w
    PROVE  Body(length, u - 4, open)
<1> SUFFICES length >= 770
  <2>1. u - 4 <= 769  OBVIOUS
  <2>2. ASSUME NEW m \in Nat, m >= 770  PROVE m > u - 4
    BY <2>1, <2>2
  <2>3. length \in Nat \/ ~ (length >= 770)  OBVIOUS
  <2> QED  BY <2>1, <2>2 DEF Body
<1>1. CASE u >= 9
  <2>1. u - 1 \in 6 .. 4 * CHUNKS + 5 /\ u - 2 \in 6 .. 4 * CHUNKS + 5 /\ u - 3 \in 6 .. 4 * CHUNKS + 5
    <3>1. PICK c : c = 4 * CHUNKS + 5  OBVIOUS
    <3>2. c \in Nat /\ u <= c  BY <3>1, Sizes
    <3>3. u - 1 \in 6 .. c /\ u - 2 \in 6 .. c /\ u - 3 \in 6 .. c  BY <3>2, <1>1
    <3> QED  BY <3>1, <3>3
  <2>2. /\ (u - 1) % 4 # 1 /\ (u - 1) % 4 # 0
        /\ (u - 3) % 4 = 1 => w = 4
        /\ (u - 3) % 4 = 0 => w = 3 /\ y = 4
    <3>1. /\ (u - 1) % 4 # 1 /\ (u - 1) % 4 # 0
          /\ (u - 3) % 4 = 1 => w = 4
      BY <2>1 DEF Says, FLASH_DATA, BUSY
    <3>2. (u - 3) % 4 = 0 => (u - 2) % 4 = 1 /\ (u - 3) % 4 # 1  OBVIOUS
    <3>3. (u - 3) % 4 = 0 => w = 3 /\ y = 4
      BY <3>2, <2>1 DEF Says, FLASH_DATA, BUSY
    <3> QED  BY <3>1, <3>3
  <2>3. (u - 3) % 4 = 1 \/ (u - 3) % 4 = 0
    <3>1. (u - 1) % 4 = 3 => (u - 3) % 4 = 1  OBVIOUS
    <3>2. (u - 1) % 4 = 2 => (u - 3) % 4 = 0  OBVIOUS
    <3>3. (u - 1) % 4 \in {0, 1, 2, 3}  OBVIOUS
    <3> QED  BY <3>1, <3>2, <3>3, <2>2
  <2> QED  BY <2>2, <2>3
<1>2. CASE u = 8
  <2>1. Says(w, 5, Whole, r, open)  BY <1>2
  <2>2. w = 5  BY <2>1 DEF Says, FLASH_END
  <2> QED  BY <2>2
<1>3. CASE u = 7
  <2>1. Says(y, 5, Whole, r, open) /\ Says(w, 4, Whole, r, open)  BY <1>3
  <2>2. y = 5 /\ w = 4  BY <2>1 DEF Says, FLASH_END, FLASH
  <2> QED  BY <2>2
<1>4. CASE u \in {4, 5, 6}
  <2>1. x = 5 \/ x = 4 \/ x = 1
    <3>1. CASE u = 6
      <4>1. Says(x, 5, Whole, r, open)  BY <3>1
      <4> QED  BY <4>1 DEF Says, FLASH_END
    <3>2. CASE u = 5
      <4>1. Says(x, 4, Whole, r, open)  BY <3>2
      <4> QED  BY <4>1 DEF Says, FLASH
    <3>3. CASE u = 4
      <4>1. Says(x, 3, Whole, r, open)  BY <3>3
      <4> QED  BY <4>1 DEF Says
    <3> QED  BY <3>1, <3>2, <3>3, <1>4
  <2> QED  BY <2>1
<1>5. u >= 9 \/ u = 8 \/ u = 7 \/ u \in {4, 5, 6}
  <2>1. ASSUME NEW v \in Nat, v >= 4
        PROVE  v >= 9 \/ v = 8 \/ v = 7 \/ v \in {4, 5, 6}
    BY <2>1
  <2> QED  BY <2>1
<1> QED  BY <1>1, <1>2, <1>3, <1>4, <1>5

LEMMA EndHeader ==
    ASSUME NEW z \in Seq(PipeByte), NEW n \in Nat, NEW r, NEW open \in BOOLEAN, NEW u, Len(z) >= 4,
           u = Len(z) + (4 * n + Extra(n, Whole)), u <= 4 * CHUNKS + 5, u <= 773,
           Foretold(z, n, Whole, r, open), NEW length, length = z[3].v + 256 * z[4].v,
           z[2].v = 0, length # 0
    PROVE  Body(length, u - 4, open)
<1>1. PICK l, e : l = Len(z) /\ e = 4 * n + Extra(n, Whole)  OBVIOUS
<1>2. l \in Nat /\ l >= 4 /\ e \in Nat /\ CHUNKS \in Nat /\ u = l + e
  BY <1>1, Sizes DEF Extra
<1>3. u \in Nat /\ u >= 4  BY <1>2
<1>4. ASSUME NEW k \in 1 .. 4  PROVE Says(z[k].v, (u - k) + 1, Whole, r, open)
  <2>1. k \in 1 .. l /\ ((l - k) + 1) + e = (u - k) + 1  BY <1>2
  <2> QED  BY <2>1, <1>1 DEF Foretold
<1>5. /\ Says(z[2].v, u - 1, Whole, r, open)
      /\ Says(z[3].v, u - 2, Whole, r, open)
      /\ Says(z[4].v, u - 3, Whole, r, open)
  <2>1. (u - 2) + 1 = u - 1 /\ (u - 3) + 1 = u - 2 /\ (u - 4) + 1 = u - 3  BY <1>3
  <2>2. 2 \in 1 .. 4 /\ 3 \in 1 .. 4 /\ 4 \in 1 .. 4  OBVIOUS
  <2>3. /\ Says(z[2].v, (u - 2) + 1, Whole, r, open)
        /\ Says(z[3].v, (u - 3) + 1, Whole, r, open)
        /\ Says(z[4].v, (u - 4) + 1, Whole, r, open)
    BY <2>2, <1>4
  <2> QED  BY <2>1, <2>3
<1>6. PICK x, y, w, v, c :
         x = z[2].v /\ y = z[3].v /\ w = z[4].v /\ v = u /\ c = length
  OBVIOUS
<1>7. v \in Nat /\ v >= 4 /\ v <= 4 * CHUNKS + 5 /\ v <= 773  BY <1>3, <1>6
<1>8. Says(x, v - 1, Whole, r, open) /\ Says(y, v - 2, Whole, r, open) /\ Says(w, v - 3, Whole, r, open)
  BY <1>5, <1>6, Zenon
<1>9. x = 0 /\ c = y + 256 * w /\ c # 0  BY <1>6, Zenon
<1>10. Body(c, v - 4, open)
  <2>1. CASE open  BY <2>1, <1>7, <1>8, <1>9, AcceptedSays, Zenon
  <2>2. CASE ~ open
    <3>1. y \in Nat
      <4>1. z[3] \in PipeByte  BY <1>1, <1>2
      <4> QED  BY <4>1, <1>6 DEF PipeByte
    <3> QED  BY <3>1, <2>2, <1>7, <1>8, <1>9, RefusedSays, SMTT(30)
  <2> QED  BY <2>1, <2>2
<1> QED  BY <1>6, <1>10, Zenon

LEMMA EndBody ==
    ASSUME NEW z \in Seq(PipeByte), NEW n \in Nat, NEW r, NEW open \in BOOLEAN, NEW u, NEW m \in Nat, m >= 1, m <= Len(z),
           u = Len(z) + (4 * n + Extra(n, Whole)), u <= 4 * CHUNKS + 5,
           Foretold(z, n, Whole, r, open), Body(m, u, open), z[1].v # 0
    PROVE  n = 0 /\ open /\ r # "none"
<1>1. PICK l, e, x : l = Len(z) /\ e = 4 * n + Extra(n, Whole) /\ x = z[1].v  OBVIOUS
<1>2. l \in Nat /\ l >= 1 /\ e \in Nat /\ e >= n /\ CHUNKS \in Nat /\ u = l + e /\ m <= l
  BY <1>1, Sizes DEF Extra
<1>3. u \in Nat /\ u >= 1 /\ ~ (m > u)  BY <1>2
<1>4. Says(x, u, Whole, r, open)
  <2>1. 1 \in 1 .. l /\ ((l - 1) + 1) + e = u  BY <1>2
  <2> QED  BY <2>1, <1>1 DEF Foretold
<1>open. open  BY <1>3 DEF Body
<1>5. ~ (u > 5 /\ u % 4 # 1)
  <2>1. u > 5 => u \in 6 .. 4 * CHUNKS + 5  BY <1>2, <1>3
  <2> QED  BY <2>1, <1>1, <1>4, <1>open DEF Says
<1>6. u \notin {4, 2}  BY <1>1, <1>4, <1>open DEF Says
<1>7. u = 1  BY <1>3, <1>5, <1>6 DEF Body
<1>8. n = 0  BY <1>2, <1>7
<1>9. r # "none"  BY <1>1, <1>4, <1>7 DEF Says
<1> QED  BY <1>open, <1>8, <1>9

--------------------------------------------------------------------------------
(* Its steps *)

(* Where the update stands. *)
LEMMA Stands ==
    ASSUME Typed, tool = "update"
    PROVE  /\ requests \in Seq(Frames) /\ Len(requests) \in Nat
           /\ LastStep = CHUNKS + 1 /\ step \in 0 .. CHUNKS + 1
           /\ Sent \in 0 .. Whole
           /\ image \in Images /\ CHUNKS \in Nat \ {0} /\ Whole = CHUNKS + 2
<1>1. step \in 0 .. CHUNKS + 1 /\ CHUNKS \in Nat \ {0}  BY Sizes DEF Typed, LastStep
<1>2. Sent \in 0 .. Whole  BY <1>1 DEF Sent, Whole
<1> QED  BY <1>1, <1>2 DEF Typed, LastStep, Whole

(* A step that only moves bytes on. *)
LEMMA SameFollowed ==
    ASSUME Followed, Stream' = Stream, UNCHANGED <<requests, boardVars>>,
           UNCHANGED <<tool, image, pc, step, need, few>>
    PROVE  Followed'
<1>1. UNCHANGED <<session, flash, running>>  BY DEF boardVars
<1>2. Sent' = Sent  BY DEF Sent
<1>3. Ahead' = Ahead /\ Unread' = Unread  BY <1>2 DEF Ahead, Unread
<1>4. Cap' = Cap  BY <1>2 DEF Cap
<1>5. (Queued' <=> Queued) /\ (Updated' <=> Updated) /\ (Bounded' <=> Bounded)
  BY <1>1, <1>3, <1>4 DEF Queued, Own, Updated, Bounded
<1>6. ASSUME NEW open \in BOOLEAN, Following(open)  PROVE Following(open)'
  <2>1. Opened(open) /\ Written(open) /\ Finished(open) /\ Content(open) /\ Ending(open)
    BY <1>6 DEF Following
  <2>2. Opened(open)' /\ Written(open)' /\ Finished(open)'
    BY <2>1, <1>1, <1>3, <1>5 DEF Opened, Written, Finished
  <2>3. Content(open)' /\ Ending(open)'  BY <2>1, <1>1, <1>2, <1>3 DEF Content, Ending
  <2> QED  BY <2>2, <2>3, <1>5, <1>6 DEF Following
<1> QED  BY <1>5, <1>6 DEF Followed

(* The update starts behind what earlier tools have left. *)
LEMMA StartFollows == ASSUME Typed, NEW t \in Tools, Start(t)  PROVE Followed'
<1>1. /\ tool = "none" /\ tool' = t /\ pc' = "send"
      /\ few' = (LeftBehind <= FEW)
      /\ UNCHANGED <<requests, pipeVars, boardVars, step, inbuf, need>>
  BY DEF Start
<1>2. UNCHANGED <<rest, fifo, packet>> /\ step = 0 /\ inbuf = << >> /\ requests \in Seq(Frames)
  BY <1>1 DEF Typed, pipeVars
<1> SUFFICES ASSUME few'  PROVE Following(TRUE)'
  BY <1>1 DEF Followed
<1>3. PICK n, l : n = Len(requests) /\ l = Len(Stream)  OBVIOUS
<1>4. /\ n \in Nat /\ l \in Nat /\ CHUNKS \in Nat \ {0} /\ ASKED \in Nat
      /\ Stream \in Seq(PipeByte)
  BY <1>2, <1>3, Sizes, StreamNow
<1>5. Sent' = 0 /\ Len(requests') = n /\ Stream' = Stream  BY <1>1, <1>2, <1>3 DEF Sent, Stream
<1>6. Ahead' = 0 - n  BY <1>5 DEF Ahead
<1>7. Queued'
  <2>1. \A p \in 1 .. n : ~ (p + (0 - n) >= 1)  BY <1>4
  <2> QED  BY <2>1, <1>5, <1>6 DEF Queued
<1>8. Opened(TRUE)' /\ Written(TRUE)' /\ Finished(TRUE)'
  <2>1. 0 - n \notin 1 .. CHUNKS + 1 /\ (\A c \in 1 .. CHUNKS : ~ (c < 0 - n)) /\ 0 - n # CHUNKS + 2
    BY <1>4
  <2> QED  BY <2>1, <1>6 DEF Opened, Written, Finished, Whole
<1>9. Bounded'
  <2>1. Pending(n, 0) = Owed(n)
    <3>1. Extra(n, 0) = 0  BY <1>4 DEF Extra, Whole
    <3>2. CASE n = 0  BY <3>1, <3>2, OwedIs DEF Pending
    <3>3. CASE n # 0
      <4>1. ~ (n <= 0) /\ n - 0 = n  BY <3>3, <1>4
      <4>2. Owed(n) \in Nat  BY <1>4, OwedIs
      <4>3. Pending(n, 0) = 0 + (Owed(n) + 4 * 0)  BY <3>1, <4>1 DEF Pending
      <4>4. PICK o : o = Owed(n)  OBVIOUS
      <4> QED  BY <4>2, <4>3, <4>4
    <3> QED  BY <3>2, <3>3
  <2>2. LeftBehind = l + Owed(n)
    <3>1. PICK b, c, d, o : /\ b = Len(packet) /\ c = Len(fifo) /\ d = Len(rest) /\ o = Owed(n)
                            /\ o = n * (HEADER_BYTES + ASKED)
      BY DEF Owed
    <3>5. Owed(n) \in Nat  BY <1>4, OwedIs
    <3>6. packet \in Seq(PipeByte) /\ fifo \in Seq(PipeByte) /\ rest \in Seq(PipeByte)
      BY DEF Typed
    <3>7. Len(packet) \in Nat /\ Len(fifo) \in Nat /\ Len(rest) \in Nat  BY <3>6
    <3>2. b \in Nat /\ c \in Nat /\ d \in Nat /\ o \in Nat  BY <3>1, <3>5, <3>7
    <3>3. Len(inbuf) = 0 /\ l = Len(inbuf) + b + c + d  BY <3>1, <1>2, <1>3, StreamNow
    <3>4. LeftBehind = b + c + d + o  BY <3>1, <1>3 DEF LeftBehind
    <3> QED  BY <3>1, <3>2, <3>3, <3>4
  <2>3. Unread' = l + Owed(n)  BY <2>1, <1>3, <1>5 DEF Unread
  <2>4. Cap' = FEW
    <3>1. pc' # "header" /\ pc' # "body"  BY <1>1
    <3>2. Cap' = FEW + 0  BY <3>1 DEF Cap, FEW
    <3> QED  BY <3>2, FewIs
  <2> QED  BY <2>2, <2>3, <2>4, <1>1 DEF Bounded
<1>10. Content(TRUE)'
  <2>1. Extra(n, 0) = 0 /\ 0 # Whole  BY <1>4 DEF Extra, Whole
  <2>2. ASSUME NEW j \in 1 .. l
        PROVE  Says(Stream[j].v, ((l - j) + 1) + (4 * n + 0), 0, running', TRUE)
    <3>1. ~ (((l - j) + 1) + (4 * n + 0) <= 4 * (0 - 1))  BY <1>4
    <3> QED  BY <3>1, <2>1 DEF Says
  <2> QED  BY <2>1, <2>2, <1>3, <1>5 DEF Content, Foretold
<1>11. Ending(TRUE)'  BY <1>1 DEF Ending
<1> QED  BY <1>7, <1>8, <1>9, <1>10, <1>11 DEF Following

LEMMA SendFollows == ASSUME Typed, Followed, Send  PROVE Followed'
<1>1. /\ pc = "send" /\ pc' = "header" /\ requests' = Append(requests, Request)
      /\ UNCHANGED <<rest, fifo, packet, session, flash, running, tool, image, step, inbuf, few>>
  BY DEF Send, Outside, pipeVars, boardVars
<1> SUFFICES ASSUME few, tool = "update"  PROVE \E open \in BOOLEAN : Following(open)'
  BY <1>1 DEF Followed
<1>open. PICK open \in BOOLEAN : Following(open)  BY <1>1 DEF Followed
<1>2. Queued /\ Opened(open) /\ Written(open) /\ Finished(open) /\ Bounded /\ Content(open)
  BY <1>open DEF Following
<1>3. PICK n, s, l : n = Len(requests) /\ s = step /\ l = Len(Stream)  OBVIOUS
<1>4. /\ n \in Nat /\ s \in 0 .. CHUNKS + 1 /\ l \in Nat /\ CHUNKS \in Nat \ {0}
      /\ Whole = CHUNKS + 2 /\ requests \in Seq(Frames) /\ Stream \in Seq(PipeByte)
  BY <1>3, Stands, StreamNow
<1>5. /\ Sent = s /\ Sent' = s + 1 /\ Stream' = Stream
      /\ Len(requests') = n + 1 /\ requests'[n + 1] = Request
      /\ \A p \in 1 .. n : requests'[p] = requests[p]
  <2>1. PICK r : r = Request  OBVIOUS
  <2>2. /\ Len(Append(requests, r)) = n + 1 /\ Append(requests, r)[n + 1] = r
        /\ \A p \in 1 .. n : Append(requests, r)[p] = requests[p]
    BY <1>3, <1>4, AppendProperties
  <2> QED  BY <2>1, <2>2, <1>1, <1>3 DEF Sent, Stream
<1>6. Ahead = s - n /\ Ahead' = s - n
  <2>1. (s + 1) - (n + 1) = s - n  BY <1>4
  <2> QED  BY <2>1, <1>3, <1>5 DEF Ahead
<1>7. Queued'
  <2> SUFFICES ASSUME NEW p \in 1 .. n + 1, p + (s - n) >= 1
               PROVE  requests'[p] = Own((p + (s - n)) - 1)'
    BY <1>5, <1>6 DEF Queued
  <2>1. Own((p + (s - n)) - 1)' = Own((p + (s - n)) - 1)  BY <1>1 DEF Own
  <2>2. CASE p = n + 1
    <3>1. (p + (s - n)) - 1 = s  BY <2>2, <1>4
    <3>2. Request = Own(s)  BY <1>3 DEF Request, Own
    <3> QED  BY <2>1, <2>2, <3>1, <3>2, <1>5
  <2>3. CASE p # n + 1
    <3>1. p \in 1 .. n  BY <2>3, <1>4
    <3> QED  BY <2>1, <3>1, <1>2, <1>3, <1>5, <1>6 DEF Queued
  <2> QED  BY <2>2, <2>3
<1>8. Opened(open)' /\ Written(open)' /\ Finished(open)'
  <2>1. s - n # Whole  BY <1>4
  <2> QED  BY <2>1, <1>1, <1>2, <1>6 DEF Opened, Written, Finished
<1>9. Bounded'
  <2>1. /\ Pending(n, s) \in Nat
        /\ Pending(n + 1, s + 1) = Pending(n, s) + IF s + 1 = Whole THEN 5 ELSE 4
    BY <1>4, SendPends
  <2>2. PICK x, y : x = Pending(n, s) /\ y = Pending(n + 1, s + 1)  OBVIOUS
  <2>3. Unread = l + x /\ Unread' = l + y  BY <2>2, <1>3, <1>5 DEF Unread
  <2>4. Cap = FEW + 0 /\ Cap' = FEW + (IF s + 1 = Whole THEN 5 ELSE 4)
    BY <1>1, <1>5 DEF Cap, FEW
  <2>5. l + x <= FEW + 0  BY <2>3, <2>4, <1>2 DEF Bounded
  <2>6. l + y <= FEW + (IF s + 1 = Whole THEN 5 ELSE 4)
    <3>1. x \in Nat /\ y = x + (IF s + 1 = Whole THEN 5 ELSE 4)  BY <2>1, <2>2
    <3>2. PICK c : c = FEW  OBVIOUS
    <3>3. l \in Nat /\ c \in Nat  BY <3>2, <1>4, FewIs
    <3> QED  BY <2>5, <3>1, <3>2, <3>3
  <2> QED  BY <2>3, <2>4, <2>6 DEF Bounded
<1>10. Content(open)'
  <2>1. Foretold(Stream, n, s, running, open)  BY <1>2, <1>3, <1>5 DEF Content
  <2>2. Foretold(Stream, n + 1, s + 1, running, open)  BY <2>1, <1>4, SendForetells
  <2> QED  BY <2>2, <1>1, <1>5 DEF Content
<1>11. Ending(open)'  BY <1>1 DEF Ending
<1> QED  BY <1>7, <1>8, <1>9, <1>10, <1>11 DEF Following

(* What a read hands over leaves the rest as it was foretold. *)
LEMMA ReadsOn ==
    ASSUME NEW open \in BOOLEAN, Following(open),
           UNCHANGED <<requests, session, flash, running, image>>, Sent' = Sent,
           Sent \in Nat, Len(requests) \in Nat,
           NEW g \in Seq(PipeByte), Stream = Cat(g, Stream'), Stream' \in Seq(PipeByte),
           Bounded', Ending(open)'
    PROVE  Following(open)'
<1>1. Ahead' = Ahead  BY DEF Ahead
<1>2. Queued' /\ Opened(open)' /\ Written(open)' /\ Finished(open)'
  BY <1>1 DEF Following, Queued, Own, Opened, Written, Finished, Updated
<1>3. Content(open)'
  <2>1. PICK z, n, s : z = Stream' /\ n = Len(requests) /\ s = Sent  OBVIOUS
  <2>2. Foretold(Cat(g, z), n, s, running, open)  BY <2>1 DEF Following, Content
  <2>3. Foretold(z, n, s, running, open)  BY <2>1, <2>2, ReadForetells
  <2> QED  BY <2>1, <2>3 DEF Content
<1> QED  BY <1>2, <1>3 DEF Following

(* What the board makes of the update's requests, in a session and outside *)
(* of one.                                                                 *)
LEMMA BeginOpens ==
    ASSUME Typed, NEW f \in Frames, f.cmd = FLASH_BEGIN, Handle(f)
    PROVE  session' \in BOOLEAN
<1> USE DEF STATUS, GET_RANDOM, FLASH_BEGIN, FLASH_DATA, FLASH_END
<1>1. FlashBegin  BY DEF Handle
<1>2. session' = session \/ session' = TRUE  BY <1>1 DEF FlashBegin, boardVars
<1> QED  BY <1>2 DEF Typed, BoardTyped

LEMMA DataWrites ==
    ASSUME Typed, NEW f, NEW k \in 1 .. CHUNKS, f.cmd = FLASH_DATA, f.image = image, f.at = k,
           Handle(f)
    PROVE  /\ session' = session /\ running' = running
           /\ session => /\ flash'[k] \in {image, "junk"}
                         /\ \A c \in 1 .. CHUNKS : c # k => flash'[c] = flash[c]
<1> USE DEF STATUS, GET_RANDOM, FLASH_BEGIN, FLASH_DATA, FLASH_END
<1>1. FlashData(f)  BY DEF Handle
<1>2. UNCHANGED <<session, running>>  BY <1>1 DEF FlashData, boardVars
<1>3. session => flash' = [flash EXCEPT ![f.at] = IF @ \in {"erased", f.image}
                                                 THEN f.image ELSE "junk"]
  BY <1>1 DEF FlashData
<1>4. flash \in [1 .. CHUNKS -> Images \cup {"erased", "junk"}]  BY DEF Typed, BoardTyped
<1> QED  BY <1>2, <1>3, <1>4

(* A flash written with the image, or mixed up, configures nothing else.   *)
LEMMA WrittenBoots ==
    ASSUME \A c \in 1 .. CHUNKS : flash[c] \in {image, "junk"}, Bootable(flash) # "none"
    PROVE  Bootable(flash) = image /\ \A c \in 1 .. CHUNKS : flash[c] = image
<1>1. PICK i \in Images : \A c \in 1 .. CHUNKS : flash[c] = i  BY DEF Bootable
<1>2. 1 \in 1 .. CHUNKS  BY Sizes
<1>3. i = image  BY <1>1, <1>2, ImageIs
<1> QED  BY <1>1, <1>3, FilledIs

LEMMA EndUpdates ==
    ASSUME Typed, tool = "update", NEW f, f.cmd = FLASH_END, Handle(f), session, UNCHANGED image,
           \A c \in 1 .. CHUNKS : flash[c] \in {image, "junk"}
    PROVE  flash' = flash /\ (running' # "none" => Updated')
<1> USE DEF STATUS, GET_RANDOM, FLASH_BEGIN, FLASH_DATA, FLASH_END
<1>1. FlashEnd  BY DEF Handle
<1>2. flash' = flash /\ running' \in {"none", Bootable(flash)}  BY <1>1 DEF FlashEnd
<1> QED  BY <1>2, WrittenBoots DEF Updated

LEMMA DispatchFollows == ASSUME Typed, Followed, Dispatch  PROVE Followed'
<1>1. PICK f : f = Head(requests)  OBVIOUS
<1>2. /\ requests # << >> /\ Handle(f) /\ requests' = Tail(requests) /\ UNCHANGED toolVars
  BY <1>1 DEF Dispatch
<1>3. UNCHANGED <<tool, image, pc, step, need, few, inbuf>>  BY <1>2 DEF toolVars
<1> SUFFICES ASSUME few, tool = "update", pc \in {"send", "header", "body"}
             PROVE  \E open \in BOOLEAN : Following(open)'
  BY <1>2, <1>3 DEF Followed
<1>open. PICK open \in BOOLEAN : Following(open)  BY DEF Followed
<1>4. /\ Queued /\ Opened(open) /\ Written(open) /\ Finished(open)
      /\ Bounded /\ Content(open) /\ Ending(open)
  BY <1>open DEF Following
<1>5. PICK n, s, l, z, r : /\ n = Len(requests) /\ s = Sent /\ l = Len(Stream)
                           /\ z = Stream /\ r = running
  OBVIOUS
<1>6. /\ n \in Nat /\ s \in 0 .. Whole /\ l \in Nat /\ CHUNKS \in Nat \ {0}
      /\ Whole = CHUNKS + 2 /\ z \in Seq(PipeByte) /\ requests \in Seq(Frames) /\ ASKED \in Nat
  BY <1>5, Stands, StreamNow, Sizes
<1>7. /\ n >= 1 /\ Len(requests') = n - 1
      /\ \A p \in 1 .. n - 1 : requests'[p] = requests[p + 1]
      /\ requests[1] = f /\ f \in Frames
  <2>1. n # 0  BY <1>2, <1>5, <1>6, EmptySeq
  <2>2. f = requests[1]  BY <1>1, <1>2, <1>6
  <2>frame. f \in Frames  BY <1>1, <1>2, <1>6
  <2>4. /\ Len(Tail(requests)) = n - 1
        /\ \A p \in 1 .. n - 1 : Tail(requests)[p] = requests[p + 1]
    BY <1>2, <1>5, <1>6, HeadTailProperties
  <2> QED  BY <2>1, <2>2, <2>frame, <2>4, <1>2, <1>6
<1>7a. n \in Nat /\ n >= 1 /\ s \in Nat /\ s <= CHUNKS + 2 /\ CHUNKS \in Nat /\ l \in Nat
  BY <1>6, <1>7
<1>8. Ahead = s - n /\ Ahead' = (s - n) + 1 /\ Sent' = s
  <2>1. Sent' = s  BY <1>3, <1>5 DEF Sent
  <2>2. s - (n - 1) = (s - n) + 1  BY <1>6
  <2> QED  BY <2>1, <2>2, <1>5, <1>7 DEF Ahead
<1>9. PICK st \in Nat, b \in Seq(PipeByte) :
         Respond(f.cmd, st, b) /\ Len(b) <= ASKED /\ Fulfils(f, st, b)
  <2>1. Answers(f)  BY <1>2, <1>7, HandleIs
  <2> QED  BY <2>1 DEF Answers
<1>10. f.cmd \in Nat
  BY <1>7 DEF Frames, STATUS, GET_RANDOM, FLASH_BEGIN, FLASH_DATA, FLASH_END
<1>11. PICK a : a = Answer(f.cmd, st, b)  OBVIOUS
<1>12. a \in Seq(PipeByte) /\ IsAnswer(a, f.cmd, st, b) /\ Len(a) = 4 + Len(b)
  <2>1. PICK c : c = f.cmd  OBVIOUS
  <2>2. c \in Nat  BY <2>1, <1>10
  <2>3. IsAnswer(Answer(c, st, b), c, st, b)  BY <2>2, AnswerIs
  <2>4. IsAnswer(a, c, st, b)  BY <2>1, <2>3, <1>11
  <2> QED  BY <2>1, <2>4 DEF IsAnswer
<1>13. Stream' = Cat(z, a)  BY <1>3, <1>5, <1>9, <1>10, <1>11, RespondIs
<1>14. Cat(z, a) \in Seq(PipeByte) /\ Len(Stream') = l + Len(a)
  <2>1. z \in Seq(PipeByte) /\ a \in Seq(PipeByte)  BY <1>6, <1>12
  <2>2. Cat(z, a) \in Seq(PipeByte) /\ Len(Cat(z, a)) = Len(z) + Len(a)  BY <2>1, JoinedIs
  <2> QED  BY <2>2, <1>5, <1>13
<1>15. Queued'
  <2> SUFFICES ASSUME NEW p \in 1 .. n - 1, p + ((s - n) + 1) >= 1
               PROVE  requests'[p] = Own((p + ((s - n) + 1)) - 1)'
    BY <1>7, <1>8 DEF Queued
  <2>1. p + 1 \in 1 .. n /\ (p + 1) + (s - n) = p + ((s - n) + 1)  BY <1>6
  <2>2. requests[p + 1] = Own((p + ((s - n) + 1)) - 1)  BY <2>1, <1>4, <1>5, <1>8 DEF Queued
  <2>3. Own((p + ((s - n) + 1)) - 1)' = Own((p + ((s - n) + 1)) - 1)  BY <1>3 DEF Own
  <2> QED  BY <2>2, <2>3, <1>7
<1>16. PICK x, y : x = Pending(n, s) /\ y = Pending(n - 1, s)  OBVIOUS
<1>17. /\ x \in Nat /\ y \in Nat
       /\ n > s => x = y + (4 + ASKED)
       /\ n <= s => x = y + IF s = Whole /\ n = 1 THEN 5 ELSE 4
  BY <1>6, <1>7, <1>16, AnswerPends
<1>18. Unread = l + x /\ Unread' = (l + Len(a)) + y /\ Cap' = Cap
  <2>1. Unread = l + x  BY <1>5, <1>16 DEF Unread
  <2>2. Unread' = (l + Len(a)) + y  BY <1>7, <1>8, <1>14, <1>16 DEF Unread
  <2>3. Cap' = Cap  BY <1>3, <1>5, <1>8 DEF Cap, FEW
  <2> QED  BY <2>1, <2>2, <2>3
<1>19. l + x <= Cap /\ Cap \in Nat /\ (pc = "body" /\ s = Whole => Cap <= 4 * CHUNKS + 1)
  <2>1. l + x <= Cap  BY <1>4, <1>18 DEF Bounded
  <2>2. PICK c : c = FEW  OBVIOUS
  <2>3. c \in Nat /\ c <= 4 * CHUNKS  BY <2>2, FewIs
  <2>4. Cap = c + (CASE pc = "header" -> IF s = Whole THEN 5 ELSE 4
                     [] pc = "body"   -> IF s = Whole THEN 1 ELSE 0
                     [] OTHER         -> 0)
    BY <2>2, <1>5 DEF Cap
  <2>5. Cap \in Nat  BY <2>3, <2>4
  <2>6. pc = "body" /\ s = Whole => Cap <= 4 * CHUNKS + 1  BY <2>3, <2>4, <1>6
  <2> QED  BY <2>1, <2>5, <2>6
<1>20. Len(b) \in Nat  BY <1>9
<1>21. ASSUME Len(a) + y <= x  PROVE Bounded'
  <2>1. PICK m, k : m = Len(a) /\ k = Cap  OBVIOUS
  <2>2. m \in Nat /\ k \in Nat  BY <2>1, <1>12, <1>19
  <2>3. l + x <= k /\ m + y <= x  BY <2>1, <1>19, <1>21
  <2>4. (l + m) + y <= k  BY <2>2, <2>3, <1>6, <1>17
  <2> QED  BY <2>1, <2>4, <1>18 DEF Bounded
<1>22. ASSUME pc = "body", s = Whole  PROVE n < s
  <2>1. l + Pending(n, Whole) <= 4 * CHUNKS + 5
    <3>1. PICK c : c = Cap  OBVIOUS
    <3>2. l + x <= c /\ c \in Nat /\ c <= 4 * CHUNKS + 1  BY <3>1, <1>19, <1>22
    <3>3. l + x <= 4 * CHUNKS + 5  BY <3>2, <1>6, <1>17
    <3> QED  BY <3>3, <1>16, <1>22
  <2> QED  BY <2>1, <1>6, <1>22, EndPends
<1>23. ASSUME Len(a) + y = x  PROVE Ending(open)'
  <2>1. (l + Len(a)) + y = l + x
    <3>1. PICK m : m = Len(a)  OBVIOUS
    <3>2. m \in Nat /\ m + y = x  BY <3>1, <1>12, <1>23
    <3>3. x \in Nat /\ y \in Nat  BY <1>17
    <3>4. (l + m) + y = l + x  BY <3>2, <3>3, <1>7a
    <3> QED  BY <3>1, <3>4
  <2>2. Unread' = Unread  BY <2>1, <1>18
  <2> QED  BY <2>2, <1>3, <1>4, <1>5, <1>8 DEF Ending
<1>24. CASE n > s
  <2>1. (s - n) + 1 <= 0  BY <1>6, <1>24
  <2>2. Opened(open)' /\ Written(open)' /\ Finished(open)'
    <3>1. /\ (s - n) + 1 \notin 1 .. CHUNKS + 1 /\ (s - n) + 1 # Whole
          /\ \A c \in 1 .. CHUNKS : ~ (c < (s - n) + 1)
      BY <2>1, <1>6
    <3> QED  BY <3>1, <1>8 DEF Opened, Written, Finished
  <2>3. Bounded'
    <3>1. Len(a) + y <= x
      <4>1. PICK m, k : m = Len(a) /\ k = Len(b)  OBVIOUS
      <4>2. k \in Nat /\ m = 4 + k /\ k <= ASKED  BY <4>1, <1>9, <1>12, <1>20
      <4> QED  BY <4>1, <4>2, <1>6, <1>17, <1>24
    <3> QED  BY <3>1, <1>21
  <2>4. Content(open)'
    <3>1. Foretold(Cat(z, a), n - 1, s, running', open)
      BY <1>6, <1>7, <1>14, <1>24, NoneForetold
    <3> QED  BY <3>1, <1>7, <1>8, <1>13 DEF Content
  <2>5. Ending(open)'
    <3>1. ~ (pc = "body" /\ s = Whole)  BY <1>22, <1>6, <1>24
    <3> QED  BY <3>1, <1>3, <1>8 DEF Ending
  <2>6. Following(open)'  BY <2>2, <2>3, <2>4, <2>5, <1>15 DEF Following
  <2> QED  BY <2>6
<1>25. CASE n = s
  <2>1. f = Own(0)
    <3>1. 1 \in 1 .. n /\ 1 + (s - n) >= 1 /\ (1 + (s - n)) - 1 = 0  BY <1>6, <1>7, <1>25
    <3>2. requests[1] = Own((1 + (s - n)) - 1)  BY <3>1, <1>4, <1>5, <1>8 DEF Queued
    <3> QED  BY <3>1, <3>2, <1>7
  <2>2. f.cmd = FLASH_BEGIN
    <3>1. 0 # CHUNKS + 1  BY <1>6
    <3>2. Own(0) = [cmd |-> FLASH_BEGIN]  BY <3>1 DEF Own
    <3> QED  BY <2>1, <3>2
  <2>3. PICK o \in BOOLEAN : o = session'  BY <2>2, <1>2, <1>7, BeginOpens
  <2>empty. Len(b) = 0  BY <2>2, <1>9 DEF Fulfils
  <2>4. Opened(o)' /\ Written(o)' /\ Finished(o)'
    <3>1. /\ (s - n) + 1 = 1 /\ 1 # Whole /\ \A c \in 1 .. CHUNKS : ~ (c < 1)
      BY <1>6, <1>25
    <3> QED  BY <2>3, <3>1, <1>8 DEF Opened, Written, Finished
  <2>5. Len(a) + y = x
    <3>1. Len(a) = 4  BY <2>empty, <1>12
    <3>2. x = y + 4  BY <1>6, <1>17, <1>25
    <3> QED  BY <3>1, <3>2, <1>17
  <2>6. Content(o)'
    <3>1. Foretold(Cat(z, a), n - 1, s, running', o)
      BY <1>6, <1>7, <1>14, <1>25, NoneForetold
    <3> QED  BY <3>1, <1>7, <1>8, <1>13 DEF Content
  <2>7. Bounded'  BY <2>5, <1>17, <1>21
  <2>8. Ending(o)'
    <3>1. ~ (pc = "body" /\ s = Whole)  BY <1>22, <1>6, <1>25
    <3> QED  BY <3>1, <1>3, <1>8 DEF Ending
  <2>9. Following(o)'  BY <2>4, <2>6, <2>7, <2>8, <1>15 DEF Following
  <2> QED  BY <2>9
<1>26. CASE n < s
  <2>1. PICK k : k = s - n  OBVIOUS
  <2>2. k \in 1 .. CHUNKS + 1 /\ (s - n) + 1 = k + 1  BY <2>1, <1>26, <1>7a
  <2>3. session = open  BY <2>1, <2>2, <1>4, <1>8 DEF Opened
  <2>4. f = Own(k)
    <3>1. 1 \in 1 .. n /\ 1 + (s - n) >= 1 /\ (1 + (s - n)) - 1 = k
      BY <2>1, <1>26, <1>7a
    <3>2. requests[1] = Own((1 + (s - n)) - 1)  BY <3>1, <1>4, <1>5, <1>8 DEF Queued
    <3> QED  BY <3>1, <3>2, <1>7
  <2>5. Foretold(z, n, s, r, open)  BY <1>4, <1>5 DEF Content
  <2>6. open => \A c \in 1 .. CHUNKS : c < k => flash[c] \in {image, "junk"}
    BY <2>1, <1>4, <1>8 DEF Written
  <2>7. CASE k \in 1 .. CHUNKS
    <3>1. f.cmd = FLASH_DATA /\ f.image = image /\ f.at = k
      <4>1. k # 0 /\ k # CHUNKS + 1  BY <2>7, <1>6
      <4> QED  BY <4>1, <2>4 DEF Own
    <3>2. /\ session' = open /\ running' = running
          /\ open => /\ flash'[k] \in {image, "junk"}
                     /\ \A c \in 1 .. CHUNKS : c # k => flash'[c] = flash[c]
      BY <3>1, <2>3, <2>7, <1>2, DataWrites
    <3>3. st = (IF open THEN OK ELSE BUSY) /\ Len(b) = 0
      BY <3>1, <2>3, <1>9 DEF Fulfils, FLASH_BEGIN, FLASH_DATA, FLASH_END
    <3>4. Opened(open)' /\ Written(open)' /\ Finished(open)'
      <4>1. k + 1 # Whole  BY <2>7, <1>6
      <4>2. \A c \in 1 .. CHUNKS : c < k + 1 => c = k \/ c < k  BY <2>7, <1>6
      <4>3. open => \A c \in 1 .. CHUNKS : c < k + 1 => flash'[c] \in {image, "junk"}
        BY <4>2, <3>2, <2>6
      <4> QED  BY <4>1, <4>3, <3>2, <2>2, <1>3, <1>8 DEF Opened, Written, Finished
    <3>5. ~ (s = Whole /\ n = 1)  BY <2>1, <2>7, <1>6
    <3>6. Len(a) + y = x
      <4>1. Len(a) = 4  BY <3>3, <1>12
      <4>2. x = y + 4  BY <3>5, <1>6, <1>17, <1>26
      <4> QED  BY <4>1, <4>2, <1>17
    <3>7. Content(open)'
      <4>1. IsAnswer(a, FLASH_DATA, IF open THEN OK ELSE BUSY, b)  BY <3>1, <3>3, <1>12
      <4>2. Foretold(Cat(z, a), n - 1, s, r, open)
        BY <4>1, <3>3, <3>5, <2>5, <1>6, <1>7, <1>26, DataForetold
      <4> QED  BY <4>2, <3>2, <1>5, <1>7, <1>8, <1>13 DEF Content
    <3>8. Bounded' /\ Ending(open)'  BY <3>6, <1>17, <1>21, <1>23
    <3>9. Following(open)'  BY <3>4, <3>7, <3>8, <1>15 DEF Following
    <3> QED  BY <3>9
  <2>8. CASE k = CHUNKS + 1
    <3>1. n = 1 /\ s = Whole /\ n - 1 = 0  BY <2>1, <2>8, <1>6, <1>7
    <3>2. f.cmd = FLASH_END  BY <2>4, <2>8, <1>6 DEF Own
    <3>3. /\ st = (IF open THEN OK ELSE FLASH) /\ Len(b) = 1
          /\ b[1].v # 0 => open /\ running' # "none"
      BY <3>2, <2>3, <1>9 DEF Fulfils, FLASH_BEGIN, FLASH_DATA, FLASH_END
    <3>4. open => \A c \in 1 .. CHUNKS : flash[c] \in {image, "junk"}
      <4>1. \A c \in 1 .. CHUNKS : c < k  BY <2>8, <1>6
      <4> QED  BY <4>1, <2>6
    <3>5. open => flash' = flash /\ (running' # "none" => Updated')
      BY <3>2, <3>4, <2>3, <1>2, <1>3, EndUpdates
    <3>6. Opened(open)' /\ Written(open)' /\ Finished(open)'
      <4>1. k + 1 = Whole /\ k + 1 \notin 1 .. CHUNKS + 1  BY <2>8, <1>6
      <4> QED  BY <4>1, <3>4, <3>5, <2>2, <1>3, <1>8 DEF Opened, Written, Finished
    <3>7. Len(a) + y = x
      <4>1. Len(a) = 5  BY <3>3, <1>12
      <4>2. x = y + 5  BY <3>1, <1>6, <1>17, <1>26
      <4> QED  BY <4>1, <4>2, <1>17
    <3>8. Content(open)'
      <4>1. IsAnswer(a, FLASH_END, IF open THEN OK ELSE FLASH, b)  BY <3>2, <3>3, <1>12
      <4>2. a[5] = b[1]  BY <3>3, <1>9, <1>10, <1>11, BodyIs
      <4>3. PICK t : t = running'  OBVIOUS
      <4>4. Foretold(z, 1, Whole, r, open) /\ (b[1].v # 0 => open /\ t # "none")  BY <4>3, <3>1, <3>3, <2>5
      <4>5. Foretold(Cat(z, a), 0, Whole, t, open)  BY <4>1, <4>2, <4>4, <3>3, <1>6, EndForetold
      <4> QED  BY <4>3, <4>5, <3>1, <1>7, <1>8, <1>13 DEF Content
    <3>9. Bounded' /\ Ending(open)'  BY <3>7, <1>17, <1>21, <1>23
    <3>10. Following(open)'  BY <3>6, <3>8, <3>9, <1>15 DEF Following
    <3> QED  BY <3>10
  <2> QED  BY <2>2, <2>7, <2>8, <1>6
<1> QED  BY <1>6, <1>24, <1>25, <1>26

(* The FPGA configures itself late: a byte that told so told the truth, and*)
(* it takes what the update has written.                                   *)
LEMMA ConfiguresFollows == ASSUME Typed, Followed, Configures  PROVE Followed'
<1>1. /\ running = "none" /\ running' = Bootable(flash) /\ Bootable(flash) # "none"
      /\ UNCHANGED <<requests, rest, fifo, packet, session, flash, tool, image, pc, step,
                     inbuf, need, few>>
  BY DEF Configures, pipeVars, toolVars
<1> SUFFICES ASSUME few, tool = "update"
             PROVE  /\ pc \in {"send", "header", "body"}
                         => \E open \in BOOLEAN : Following(open)'
                    /\ pc # "ok"
  BY <1>1 DEF Followed
<1>2. pc # "ok"
  <2>1. image # "none"  BY Stands, ImageIs
  <2> QED  BY <2>1, <1>1 DEF Followed, Updated
<1>3. ASSUME pc \in {"send", "header", "body"}  PROVE \E open \in BOOLEAN : Following(open)'
  <2>1. PICK open \in BOOLEAN : Following(open)  BY <1>3 DEF Followed
  <2>2. Stream' = Stream /\ Sent' = Sent  BY <1>1 DEF Stream, Sent
  <2>3. Ahead' = Ahead /\ Unread' = Unread /\ Cap' = Cap
    BY <1>1, <2>2 DEF Ahead, Unread, Cap, FEW
  <2>4. Queued' /\ Opened(open)' /\ Written(open)' /\ Bounded' /\ Ending(open)'
    <3>1. Queued /\ Opened(open) /\ Written(open) /\ Bounded /\ Ending(open)
      BY <2>1 DEF Following
    <3>2. Queued' /\ Opened(open)' /\ Written(open)' /\ Bounded'
      BY <3>1, <1>1, <2>3 DEF Queued, Own, Opened, Written, Bounded
    <3>3. Ending(open)'  BY <3>1, <1>1, <2>2, <2>3 DEF Ending
    <3> QED  BY <3>2, <3>3
  <2>5. Finished(open)'
    <3> SUFFICES ASSUME open, Ahead = Whole  PROVE Updated'
      BY <2>3 DEF Finished
    <3>1. \A c \in 1 .. CHUNKS : flash[c] \in {image, "junk"}
      <4>1. \A c \in 1 .. CHUNKS : c < Whole  BY Sizes DEF Whole
      <4> QED  BY <4>1, <2>1 DEF Following, Written
    <3> QED  BY <3>1, <1>1, WrittenBoots DEF Updated
  <2>6. Content(open)'
    <3>1. ASSUME NEW v, NEW i, Says(v, i, Sent, running, open)
          PROVE  Says(v, i, Sent, running', open)
      BY <3>1, <1>1 DEF Says
    <3>2. Foretold(Stream, Len(requests), Sent, running, open)  BY <2>1 DEF Following, Content
    <3>3. Foretold(Stream, Len(requests), Sent, running', open)  BY <3>1, <3>2 DEF Foretold
    <3> QED  BY <3>3, <1>1, <2>2 DEF Content
  <2>7. Following(open)'  BY <2>4, <2>5, <2>6 DEF Following
  <2> QED  BY <2>7
<1> QED  BY <1>2, <1>3

LEMMA ReadHeaderFollows == ASSUME Typed, Followed, ReadHeader  PROVE Followed'
<1>1. /\ pc = "header" /\ Complete /\ Consumed
      /\ UNCHANGED <<requests, rest, fifo, packet, session, flash, running, tool, image, few>>
  BY DEF ReadHeader, Outside, pipeVars, boardVars
<1> SUFFICES ASSUME few, tool = "update"
             PROVE  /\ pc' \in {"send", "header", "body"} => \E open \in BOOLEAN : Following(open)'
                    /\ pc' # "ok"
  BY <1>1 DEF Followed
<1>2. PICK open \in BOOLEAN : Following(open)  BY <1>1 DEF Followed
<1>3. PICK g, w : g = Got /\ w = Stream'  OBVIOUS
<1>4. need = 4  BY <1>1 DEF Typed, HEADER_BYTES
<1>5. /\ g \in Seq(PipeByte) /\ Len(g) = 4 /\ \A i \in 1 .. 4 : g[i] = Stream[i]
      /\ Len(Stream) \in Nat /\ Len(w) = Len(Stream) - 4
      /\ w \in Seq(PipeByte) /\ Stream = Cat(g, w)
  BY <1>1, <1>3, <1>4, ConsumedIs
<1>6. PICK length : length = g[3].v + 256 * g[4].v  OBVIOUS
<1>7. \/ ~ Accepts(g) /\ Ends("failed")
      \/ Accepts(g) /\ length = 0 /\ Proceed(<< >>)
      \/ Accepts(g) /\ length # 0 /\ pc' = "body" /\ need' = length /\ step' = step
  BY <1>3, <1>6 DEF ReadHeader
<1>8. PICK n, s, l, d : n = Len(requests) /\ s = step /\ l = Len(Stream) /\ d = Pending(n, Sent)
  OBVIOUS
<1>9. /\ n \in Nat /\ s \in 0 .. CHUNKS + 1 /\ l \in Nat /\ CHUNKS \in Nat \ {0}
      /\ Whole = CHUNKS + 2 /\ LastStep = CHUNKS + 1 /\ Stream \in Seq(PipeByte)
  BY <1>8, Stands, StreamNow
<1>10. Sent = s + 1 /\ Unread = l + d  BY <1>1, <1>8 DEF Sent, Unread
<1>few. PICK h : h = FEW /\ h \in Nat /\ h <= 4 * CHUNKS /\ h <= 768  BY FewIs
<1>11. /\ d \in Nat /\ l + d <= h + (IF s + 1 = Whole THEN 5 ELSE 4)
  <2>1. Cap = h + (IF s + 1 = Whole THEN 5 ELSE 4)  BY <1>1, <1>few, <1>10 DEF Cap
  <2>2. l + d <= h + (IF s + 1 = Whole THEN 5 ELSE 4)
    BY <2>1, <1>2, <1>10 DEF Following, Bounded
  <2>3. s + 1 \in 0 .. Whole  BY <1>9
  <2>4. d \in Nat  BY <2>3, <1>8, <1>9, <1>10, PendsIs
  <2> QED  BY <2>2, <2>4
<1>12. ASSUME Sent' = Sent, Bounded', Ending(open)'  PROVE Following(open)'
  <2>1. Sent \in Nat /\ Len(requests) \in Nat /\ Stream = Cat(g, Stream') /\ Stream' \in Seq(PipeByte)
    BY <1>3, <1>5, <1>8, <1>9, <1>10
  <2> QED  BY <2>1, <1>1, <1>2, <1>5, <1>12, ReadsOn
<1>13. Sent' = Sent => Unread' = (l - 4) + d  BY <1>1, <1>3, <1>5, <1>8 DEF Unread
<1>14. CASE Ends("failed")  BY <1>14 DEF Ends
<1>15. CASE Proceed(<< >>)
  <2>1. CASE s < CHUNKS + 1
    <3>1. pc' = "send" /\ step' = s + 1  BY <2>1, <1>8, <1>9, <1>15 DEF Proceed
    <3>2. Sent' = Sent  BY <3>1, <1>10 DEF Sent
    <3>3. s + 1 # Whole  BY <2>1, <1>9
    <3>4. Cap' = h + 0  BY <3>1, <1>few DEF Cap, FEW
    <3>5. (l - 4) + d <= h + 0  BY <3>3, <1>few, <1>9, <1>11
    <3>6. Bounded' /\ Ending(open)'  BY <3>1, <3>2, <3>4, <3>5, <1>13 DEF Bounded, Ending
    <3> QED  BY <3>1, <3>2, <3>6, <1>12
  <2>2. CASE ~ (s < CHUNKS + 1)
    <3>1. ~ Configured(<< >>)  BY DEF Configured
    <3>2. pc' = "warned"  BY <2>2, <3>1, <1>8, <1>9, <1>15 DEF Proceed, Ends
    <3> QED  BY <3>2
  <2> QED  BY <2>1, <2>2
<1>16. CASE Accepts(g) /\ length # 0 /\ pc' = "body" /\ need' = length /\ step' = step
  <2>1. Sent' = Sent  BY <1>16, <1>1 DEF Sent
  <2>2. Cap' = h + (IF s + 1 = Whole THEN 1 ELSE 0)  BY <2>1, <1>few, <1>10, <1>16 DEF Cap, FEW
  <2>3. (l - 4) + d <= h + (IF s + 1 = Whole THEN 1 ELSE 0)  BY <1>few, <1>9, <1>11
  <2>4. Bounded'  BY <2>1, <2>2, <2>3, <1>13 DEF Bounded
  <2>5. ASSUME Sent = Whole  PROVE length > 0 /\ Body(length, (l - 4) + d, open)
    <3>1. PICK u : u = l + d  OBVIOUS
    <3>2. u \in Nat /\ u <= 4 * CHUNKS + 5 /\ u <= 773 /\ (l - 4) + d = u - 4
      BY <3>1, <2>5, <1>few, <1>9, <1>10, <1>11
    <3>3. d = 4 * n + Extra(n, Whole)
      <4>1. l + Pending(n, Whole) <= 4 * CHUNKS + 5  BY <3>1, <3>2, <2>5, <1>8
      <4> QED  BY <4>1, <2>5, <1>8, <1>9, EndPends
    <3>4. PICK z, r : z = Stream /\ r = running  OBVIOUS
    <3>5. z \in Seq(PipeByte) /\ Len(z) >= 4
      <4>1. Len(w) \in Nat  BY <1>5
      <4> QED  BY <4>1, <3>4, <1>5, <1>8, <1>9
    <3>6. Foretold(z, n, Whole, r, open)  BY <3>4, <2>5, <1>2, <1>8 DEF Following, Content
    <3>7. length = z[3].v + 256 * z[4].v /\ z[2].v = 0
      <4>1. g[2].v = 0  BY <1>16 DEF Accepts, OK
      <4>2. 2 \in 1 .. 4 /\ 3 \in 1 .. 4 /\ 4 \in 1 .. 4  OBVIOUS
      <4> QED  BY <4>1, <4>2, <3>4, <1>5, <1>6
    <3>8. u = Len(z) + (4 * n + Extra(n, Whole))  BY <3>1, <3>3, <3>4, <1>8
    <3>9. Body(length, u - 4, open)  BY <3>2, <3>5, <3>6, <3>7, <3>8, <1>9, <1>16, EndHeader
    <3>10. length > 0
      <4>1. PICK x, y : x = g[3].v /\ y = g[4].v  OBVIOUS
      <4>2. g[3] \in PipeByte /\ g[4] \in PipeByte
        <5>1. 3 \in 1 .. Len(g) /\ 4 \in 1 .. Len(g)  BY <1>5
        <5> QED  BY <5>1, <1>5, ElementOfSeq
      <4>3. x \in Nat /\ y \in Nat  BY <4>1, <4>2 DEF PipeByte
      <4>4. length = x + 256 * y  BY <4>1, <1>6
      <4> QED  BY <4>3, <4>4, <1>16
    <3> QED  BY <3>2, <3>9, <3>10
  <2>6. Ending(open)'  BY <2>1, <2>5, <1>13, <1>16 DEF Ending
  <2> QED  BY <2>1, <2>4, <2>6, <1>12, <1>16
<1> QED  BY <1>7, <1>14, <1>15, <1>16

LEMMA ReadBodyFollows == ASSUME Typed, Followed, ReadBody  PROVE Followed'
<1>1. /\ pc = "body" /\ Complete /\ Consumed
      /\ UNCHANGED <<requests, rest, fifo, packet, session, flash, running, tool, image, few>>
  BY DEF ReadBody, Outside, pipeVars, boardVars
<1> SUFFICES ASSUME few, tool = "update"
             PROVE  /\ pc' \in {"send", "header", "body"} => \E open \in BOOLEAN : Following(open)'
                    /\ pc' = "ok" => requests = << >> /\ Updated'
  BY <1>1 DEF Followed
<1>2. PICK open \in BOOLEAN : Following(open)  BY <1>1 DEF Followed
<1>3. PICK g, w, m : g = Got /\ w = Stream' /\ m = need  OBVIOUS
<1>4. /\ g \in Seq(PipeByte) /\ Len(g) = m /\ m \in Nat
      /\ \A i \in 1 .. m : g[i] = Stream[i]
      /\ Len(Stream) \in Nat /\ Len(w) = Len(Stream) - m
      /\ w \in Seq(PipeByte) /\ Stream = Cat(g, w)
  BY <1>1, <1>3, ConsumedIs DEF Typed
<1>5. Proceed(g)  BY <1>3 DEF ReadBody
<1>6. PICK n, s, l, d : n = Len(requests) /\ s = step /\ l = Len(Stream) /\ d = Pending(n, Sent)
  OBVIOUS
<1>7. /\ n \in Nat /\ s \in 0 .. CHUNKS + 1 /\ l \in Nat /\ CHUNKS \in Nat \ {0}
      /\ Whole = CHUNKS + 2 /\ LastStep = CHUNKS + 1 /\ Stream \in Seq(PipeByte)
      /\ requests \in Seq(Frames)
  BY <1>6, Stands, StreamNow
<1>8. Sent = s + 1 /\ Unread = l + d  BY <1>1, <1>6 DEF Sent, Unread
<1>9. d \in Nat
  <2>1. s + 1 \in 0 .. Whole  BY <1>7
  <2> QED  BY <2>1, <1>6, <1>7, <1>8, PendsIs
<1>few. PICK h : h = FEW /\ h \in Nat /\ h <= 4 * CHUNKS  BY FewIs
<1>10. l + d <= h + (IF s + 1 = Whole THEN 1 ELSE 0)
  <2>1. Cap = h + (IF s + 1 = Whole THEN 1 ELSE 0)  BY <1>1, <1>few, <1>8 DEF Cap
  <2> QED  BY <2>1, <1>2, <1>8 DEF Following, Bounded
<1>11. CASE s < CHUNKS + 1
  <2>1. pc' = "send" /\ step' = s + 1  BY <1>5, <1>6, <1>7, <1>11 DEF Proceed
  <2>2. Sent' = Sent  BY <2>1, <1>8 DEF Sent
  <2>3. Unread' = (l - m) + d  BY <2>2, <1>1, <1>3, <1>4, <1>6 DEF Unread
  <2>4. Cap' = h + 0  BY <2>1, <1>few DEF Cap, FEW
  <2>5. (l - m) + d <= h + 0
    <3>1. s + 1 # Whole  BY <1>7, <1>11
    <3> QED  BY <3>1, <1>few, <1>4, <1>7, <1>9, <1>10
  <2>6. Bounded' /\ Ending(open)'  BY <2>1, <2>3, <2>4, <2>5 DEF Bounded, Ending
  <2>7. Sent \in Nat /\ Len(requests) \in Nat /\ Stream = Cat(g, Stream') /\ Stream' \in Seq(PipeByte)
    BY <1>3, <1>4, <1>6, <1>7, <1>8
  <2>8. Following(open)'  BY <2>2, <2>6, <2>7, <1>1, <1>2, <1>4, ReadsOn
  <2> QED  BY <2>1, <2>8
<1>12. CASE ~ (s < CHUNKS + 1)
  <2>1. Sent = Whole  BY <1>7, <1>8, <1>12
  <2>2. pc' = "ok" <=> Configured(g)  BY <1>5, <1>6, <1>7, <1>12 DEF Proceed, Ends
  <2>3. pc' \in {"ok", "warned"}  BY <1>5, <1>6, <1>7, <1>12 DEF Proceed, Ends
  <2>4. ASSUME Configured(g)  PROVE requests = << >> /\ Updated
    <3>1. PICK u : u = l + d  OBVIOUS
    <3>2. u \in Nat /\ u <= 4 * CHUNKS + 5  BY <3>1, <2>1, <1>few, <1>7, <1>8, <1>9, <1>10
    <3>3. d = 4 * n + Extra(n, Whole)
      <4>1. l + Pending(n, Whole) <= 4 * CHUNKS + 5  BY <3>1, <3>2, <2>1, <1>6
      <4> QED  BY <4>1, <2>1, <1>6, <1>7, EndPends
    <3>4. PICK z, r : z = Stream /\ r = running  OBVIOUS
    <3>5. m >= 1 /\ Body(m, u, open)
      <4>1. m > 0 /\ Body(m, u, open)
        BY <3>1, <2>1, <1>1, <1>2, <1>3, <1>8 DEF Following, Ending
      <4> QED  BY <4>1, <1>4
    <3>6. z \in Seq(PipeByte) /\ m <= Len(z)
      <4>1. Len(w) \in Nat  BY <1>4
      <4> QED  BY <4>1, <3>4, <1>4, <1>6, <1>7
    <3>7. Foretold(z, n, Whole, r, open)  BY <3>4, <2>1, <1>2, <1>6 DEF Following, Content
    <3>8. z[1].v # 0
      <4>1. 1 \in 1 .. m  BY <3>5, <1>4
      <4> QED  BY <4>1, <3>4, <2>4, <1>4 DEF Configured
    <3>9. u = Len(z) + (4 * n + Extra(n, Whole))  BY <3>1, <3>3, <3>4, <1>6
    <3>10. n = 0 /\ open /\ r # "none"
      BY <3>2, <3>5, <3>6, <3>7, <3>8, <3>9, <1>4, <1>7, EndBody
    <3>11. requests = << >>  BY <3>10, <1>6, <1>7, EmptySeq
    <3>12. Ahead = Whole
      <4>1. Ahead = Whole - 0  BY <3>10, <2>1, <1>6 DEF Ahead
      <4> QED  BY <4>1, <1>7
    <3> QED  BY <3>4, <3>10, <3>11, <3>12, <1>2 DEF Following, Finished
  <2>5. Updated' <=> Updated  BY <1>1 DEF Updated
  <2> QED  BY <2>2, <2>3, <2>4, <2>5
<1> QED  BY <1>11, <1>12

--------------------------------------------------------------------------------
(* Theorems *)

THEOREM Inductive == Spec => []IInv
<1>1. Init => IInv  BY InitKeeps
<1>2. IInv /\ [Next]_vars => IInv'
  <2> SUFFICES ASSUME IInv, [Next]_vars  PROVE IInv'
    OBVIOUS
  <2>push. CASE Push  BY <2>push, PushKeeps
  <2>giveUp. CASE GiveUp  BY <2>giveUp, GiveUpKeeps
  <2>arm. CASE Arm  BY <2>arm, ArmKeeps
  <2>dispatch. CASE Dispatch  BY <2>dispatch, DispatchKeeps
  <2>configures. CASE Configures  BY <2>configures, ConfiguresKeeps
  <2>power. CASE PowerCycle  BY <2>power, PowerCycleKeeps
  <2>start. ASSUME NEW t \in Tools, Start(t)  PROVE IInv'
    BY <2>start, StartKeeps
  <2>send. CASE Send  BY <2>send, SendKeeps
  <2>read. CASE Read  BY <2>read, ReadKeeps
  <2>header. CASE ReadHeader  BY <2>header, ReadHeaderKeeps
  <2>body. CASE ReadBody  BY <2>body, ReadBodyKeeps
  <2>leave. CASE Leave  BY <2>leave, GoneKeeps DEF Leave
  <2>timesOut. CASE TimesOut  BY <2>timesOut, TimesOutKeeps
  <2>killed. CASE Killed  BY <2>killed, GoneKeeps DEF Killed
  <2>stutter. CASE UNCHANGED vars
    <3>1. UNCHANGED <<requests, rest, fifo, packet, boardVars, told, toolVars>>
      BY <2>stutter DEF vars, pipeVars
    <3>2. Stream' = Stream  BY <3>1 DEF Stream, toolVars
    <3>3. Typed'
      <4>1. UNCHANGED <<session, flash, running, released, paused, told,
                        tool, image, pc, step, inbuf, need, clean>>
        BY <3>1 DEF boardVars, toolVars
      <4> QED  BY <3>1, <4>1 DEF IInv, Typed, BoardTyped, LastStep
    <3>4. UNCHANGED <<tool, image, pc, step, need, clean>>  BY <3>1 DEF toolVars
    <3> QED  BY <3>1, <3>2, <3>3, <3>4, SameStream DEF IInv
  <2> QED
    BY <2>push, <2>giveUp, <2>arm, <2>dispatch, <2>configures, <2>power, <2>start,
       <2>send, <2>read, <2>header, <2>body, <2>leave, <2>timesOut,
       <2>killed, <2>stutter
    DEF Next, Board, Tool
<1> QED  BY <1>1, <1>2, PTL DEF Spec

(* Neither the FIFO nor the endpoint's packet holds more than there is     *)
(* room for, and the flash, the running bitstream and the tool's step are  *)
(* among what the code can make of them (protocol.c:55-86,                 *)
(* cryptolite-ice.py:141-253).                                             *)
THEOREM TypeCorrect == Spec => []TypeOK
<1>1. IInv => TypeOK
  <2> SUFFICES ASSUME IInv  PROVE TypeOK
    OBVIOUS
  <2>1. step \in 0 .. (CHUNKS + 1)
    <3>1. step \in 0 .. LastStep /\ LastStep \in 0 .. (CHUNKS + 1)
      BY Sizes DEF IInv, Typed, LastStep
    <3> QED  BY <3>1, Sizes
  <2> QED  BY <2>1 DEF IInv, Typed, BoardTyped, Verdicts, TypeOK
<1> QED  BY <1>1, Inductive, PTL

(* A tool that finds a silent board fails only when the board has refused  *)
(* what it asked, for pipes, images and requests of every size             *)
(* (cryptolite-ice.py:141-253, protocol.c:55-86).                          *)
THEOREM UndisturbedAlwaysSucceeds == Spec => []UndisturbedSucceeds
<1>1. IInv => UndisturbedSucceeds  BY DEF IInv, Undisturbed, UndisturbedSucceeds
<1> QED  BY <1>1, Inductive, PTL

(* An update that found a silent board and ends has its image in the flash *)
(* and says OK or warns as FLASH_END was answered.  After OK the FPGA runs *)
(* that image, after a warning it runs nothing else                        *)
(* (cryptolite-ice.py:244-253 and 366-373, protocol.c:216-224,             *)
(* ice40.c:142-153).                                                       *)
THEOREM UndisturbedAlwaysTold == Spec => []UndisturbedIsTold
<1>1. IInv => UndisturbedIsTold
  <2> SUFFICES ASSUME IInv, clean, tool = "update", pc \in {"ok", "warned"}
               PROVE  /\ \A c \in 1 .. CHUNKS : flash[c] = image
                      /\ told = IF pc = "ok" THEN "up" ELSE "down"
                      /\ running \in IF pc = "ok" THEN {image} ELSE {"none", image}
    BY DEF UndisturbedIsTold
  <2>1. /\ Flashed(CHUNKS) /\ told = IF pc = "ok" THEN "up" ELSE "down"
        /\ running \in IF pc = "ok" THEN {image} ELSE {"none", image}
    BY DEF IInv, Undisturbed
  <2>2. \A c \in 1 .. CHUNKS : c <= CHUNKS  BY Sizes
  <2> QED  BY <2>1, <2>2 DEF Flashed
<1> QED  BY <1>1, Inductive, PTL

(* An update that ends in "OK - FPGA reconfigured" has told the truth,     *)
(* although it compares neither the commands nor the lengths of what it    *)
(* reads: for images, pipes and requests of every size, and whatever few   *)
(* bytes and requests, flash or open session earlier tools left behind, and*)
(* whichever requests the board refuses (cryptolite-ice.py:221-253 and     *)
(* 347-373).                                                               *)
THEOREM ToldOkAlwaysTrue == Spec => []ToldOkIsTrue
<1>1. Init => Followed  BY DEF Init, Followed
<1>2. Typed /\ Followed /\ [Next]_vars => Followed'
  <2> SUFFICES ASSUME Typed, Followed, [Next]_vars  PROVE Followed'
    OBVIOUS
  <2>push. CASE Push
    <3>1. Stream' = Stream  BY <2>push, PushMoves
    <3>2. UNCHANGED <<requests, boardVars, toolVars>>  BY <2>push DEF Push
    <3> QED  BY <3>1, <3>2, SameFollowed DEF toolVars
  <2>giveUp. CASE GiveUp  BY <2>giveUp DEF GiveUp, Followed
  <2>arm. CASE Arm
    <3>1. Stream' = Stream  BY <2>arm, ArmMoves
    <3>2. UNCHANGED <<requests, boardVars, toolVars>>  BY <2>arm DEF Arm
    <3> QED  BY <3>1, <3>2, SameFollowed DEF toolVars
  <2>dispatch. CASE Dispatch  BY <2>dispatch, DispatchFollows
  <2>configures. CASE Configures  BY <2>configures, ConfiguresFollows
  <2>power. CASE PowerCycle
    <3>1. tool' # "update"  BY <2>power DEF PowerCycle, toolVars
    <3> QED  BY <3>1 DEF Followed
  <2>start. ASSUME NEW t \in Tools, Start(t)  PROVE Followed'
    BY <2>start, StartFollows
  <2>send. CASE Send  BY <2>send, SendFollows
  <2>read. CASE Read
    <3>1. Stream' = Stream  BY <2>read, ReadMoves
    <3>2. UNCHANGED <<requests, boardVars, tool, image, pc, step, need, few>>
      BY <2>read DEF Read
    <3> QED  BY <3>1, <3>2, SameFollowed
  <2>header. CASE ReadHeader  BY <2>header, ReadHeaderFollows
  <2>body. CASE ReadBody  BY <2>body, ReadBodyFollows
  <2>gone. CASE Gone  BY <2>gone DEF Gone, Followed
  <2>timesOut. CASE TimesOut
    <3>1. pc' = "failed"  BY <2>timesOut DEF TimesOut, Ends
    <3> QED  BY <3>1 DEF Followed
  <2>stutter. CASE UNCHANGED vars
    <3>1. UNCHANGED <<requests, rest, fifo, packet, boardVars, told, toolVars>>
      BY <2>stutter DEF vars, pipeVars
    <3>2. Stream' = Stream  BY <3>1 DEF Stream, toolVars
    <3>3. UNCHANGED <<tool, image, pc, step, need, few>>  BY <3>1 DEF toolVars
    <3> QED  BY <3>1, <3>2, <3>3, SameFollowed
  <2> QED
    BY <2>push, <2>giveUp, <2>arm, <2>dispatch, <2>configures, <2>power, <2>start,
       <2>send, <2>read, <2>header, <2>body, <2>gone,
       <2>timesOut, <2>stutter
    DEF Next, Board, Tool, Leave, Killed
<1>3. IInv => Typed  BY DEF IInv
<1>4. Followed => ToldOkIsTrue  BY DEF Followed, ToldOkIsTrue
<1> QED  BY <1>1, <1>2, <1>3, <1>4, Inductive, PTL DEF Spec
================================================================================
