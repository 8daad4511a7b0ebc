--------------------------- MODULE RngPipeline_proofs ---------------------------
(***************************************************************************)
(* The entropy pipeline, for buffers, chunks, blocks and cutoffs of every  *)
(* size: the circular buffers of trng.c and rng_pipeline.c are queues, the *)
(* refill loop moves and tests what EntropyPath says, and a caller is told *)
(* OK only with bytes from tested blocks.                                  *)
(***************************************************************************)
EXTENDS RngPipeline, FiniteSetTheorems, SequenceTheorems, TLAPS

(* Induction, for a set of numbers: otherwise the numbers of the set below *)
(* one that is missing would be as many as those among them above zero.    *)
LEMMA SetInduction ==
    ASSUME NEW S, 0 \in S, \A n \in Nat : n \in S => n + 1 \in S
    PROVE  \A n \in Nat : n \in S
<1> SUFFICES ASSUME NEW n \in Nat, n \notin S  PROVE FALSE
  OBVIOUS
<1> DEFINE T == {i \in 0 .. n : i \in S}
           U == T \ {0}
           f == [i \in T |-> i + 1]
<1>1. IsFiniteSet(0 .. n)  BY FS_Interval
<1>2. IsFiniteSet(T)  BY <1>1, FS_Subset
<1>3. 0 \in T  OBVIOUS
<1>4. IsFiniteSet(U) /\ Cardinality(U) = Cardinality(T) - 1  BY <1>2, <1>3, FS_RemoveElement
<1>5. Cardinality(T) \in Nat  BY <1>2, FS_CardinalityType
<1>6. f \in [T -> U]  OBVIOUS
<1>7. \A x, y \in T : f[x] = f[y] => x = y  OBVIOUS
<1> HIDE DEF T, U, f
<1>8. Cardinality(U) < Cardinality(T)  BY <1>4, <1>5
<1>9. \E x, y \in T : x # y /\ f[x] = f[y]  BY <1>2, <1>4, <1>6, <1>8, FS_PigeonHole
<1> QED  BY <1>7, <1>9

--------------------------------------------------------------------------------
(* The circular buffers *)

Ring(n) == [buf : [0 .. (n - 1) -> Byte], head : 0 .. (n - 1), tail : 0 .. (n - 1)]

LEMMA Modulus ==
    ASSUME NEW n \in Nat \ {0}, NEW x \in Int
    PROVE  /\ 0 <= x /\ x < n => x % n = x
           /\ n <= x /\ x < 2 * n => x % n = x - n
           /\ 0 - n <= x /\ x < 0 => x % n = x + n
           /\ x % n \in 0 .. (n - 1)
OBVIOUS

LEMMA RingShape ==
    ASSUME NEW n \in Nat \ {0}, NEW f \in Ring(n)
    PROVE  /\ f.buf \in [0 .. (n - 1) -> Byte]
           /\ f.head \in 0 .. (n - 1) /\ f.tail \in 0 .. (n - 1)
           /\ f.head \in Int /\ f.tail \in Int
           /\ f = [buf |-> f.buf, head |-> f.head, tail |-> f.tail]
BY DEF Ring

LEMMA UsedIs ==
    ASSUME NEW n \in Nat \ {0}, NEW f \in Ring(n)
    PROVE  /\ Used(f, n) = IF f.head >= f.tail THEN f.head - f.tail ELSE f.head - f.tail + n
           /\ Used(f, n) \in Nat /\ Used(f, n) <= n - 1
           /\ Free(f, n) \in Nat /\ Free(f, n) = n - 1 - Used(f, n)
<1>1. PICK h, t : h = f.head /\ t = f.tail  OBVIOUS
<1>2. h \in 0 .. (n - 1) /\ t \in 0 .. (n - 1) /\ h \in Int /\ t \in Int  BY <1>1, RingShape
<1>3. (h - t) % n = IF h >= t THEN h - t ELSE h - t + n
  <2>1. h - t \in Int  BY <1>2
  <2>2. h >= t => 0 <= h - t /\ h - t < n  BY <1>2
  <2>3. ~ (h >= t) => 0 - n <= h - t /\ h - t < 0  BY <1>2
  <2> QED  BY <2>1, <2>2, <2>3, Modulus
<1>4. Used(f, n) = (h - t) % n  BY <1>1 DEF Used
<1>5. Used(f, n) \in Nat /\ Used(f, n) <= n - 1  BY <1>2, <1>3, <1>4
<1> QED  BY <1>1, <1>3, <1>4, <1>5 DEF Free

LEMMA HeldIs ==
    ASSUME NEW n \in Nat \ {0}, NEW f \in Ring(n)
    PROVE  /\ Held(f, n) \in Seq(Byte) /\ Len(Held(f, n)) = Used(f, n)
           /\ \A i \in 1 .. Used(f, n) : Held(f, n)[i] = f.buf[(f.tail + i - 1) % n]
<1>1. PICK u, b, t : u = Used(f, n) /\ b = f.buf /\ t = f.tail  OBVIOUS
<1>2. u \in Nat /\ b \in [0 .. (n - 1) -> Byte] /\ t \in Int  BY <1>1, UsedIs, RingShape
<1>3. \A i \in 1 .. u : b[(t + i - 1) % n] \in Byte
  <2> TAKE i \in 1 .. u
  <2>1. t + i - 1 \in Int  BY <1>2
  <2>2. (t + i - 1) % n \in 0 .. (n - 1)  BY <2>1, Modulus
  <2> QED  BY <2>2, <1>2
<1>4. Held(f, n) = [i \in 1 .. u |-> b[(t + i - 1) % n]]  BY <1>1 DEF Held
<1>5. [i \in 1 .. u |-> b[(t + i - 1) % n]] \in Seq(Byte)  BY <1>2, <1>3, IsASeq
<1>6. Len([i \in 1 .. u |-> b[(t + i - 1) % n]]) = u  BY <1>2
<1> QED  BY <1>1, <1>4, <1>5, <1>6

LEMMA SmallerIs ==
    ASSUME NEW x \in Nat, NEW y \in Nat
    PROVE  Smaller(x, y) \in Nat /\ Smaller(x, y) <= x /\ Smaller(x, y) <= y
           /\ (Smaller(x, y) = x \/ Smaller(x, y) = y)
BY DEF Smaller

LEMMA Suffix ==
    ASSUME NEW S, NEW s \in Seq(S), NEW n \in 0 .. Len(s)
    PROVE  /\ SubSeq(s, n + 1, Len(s)) \in Seq(S)
           /\ Len(SubSeq(s, n + 1, Len(s))) = Len(s) - n
           /\ \A i \in 1 .. (Len(s) - n) : SubSeq(s, n + 1, Len(s))[i] = s[n + i]
OBVIOUS

LEMMA Prefix ==
    ASSUME NEW S, NEW s \in Seq(S), NEW n \in 0 .. Len(s)
    PROVE  /\ SubSeq(s, 1, n) \in Seq(S)
           /\ Len(SubSeq(s, 1, n)) = n
           /\ \A i \in 1 .. n : SubSeq(s, 1, n)[i] = s[i]
OBVIOUS

(* What is read is the front of the queue. *)
LEMMA OldestIs ==
    ASSUME NEW n \in Nat \ {0}, NEW f \in Ring(n), NEW k \in Nat
    PROVE  /\ Smaller(k, Used(f, n)) \in 0 .. Len(Held(f, n))
           /\ Oldest(f, n, k) = SubSeq(Held(f, n), 1, Smaller(k, Used(f, n)))
           /\ Oldest(f, n, k) \in Seq(Byte)
           /\ Len(Oldest(f, n, k)) = Smaller(k, Used(f, n))
<1>1. Used(f, n) \in Nat  BY UsedIs
<1>2. Held(f, n) \in Seq(Byte) /\ Len(Held(f, n)) = Used(f, n)  BY HeldIs
<1>3. PICK m : m = Smaller(k, Used(f, n))  OBVIOUS
<1>4. m \in 0 .. Len(Held(f, n))  BY <1>1, <1>2, <1>3, SmallerIs
<1>5. Oldest(f, n, k) = SubSeq(Held(f, n), 1, m)  BY <1>3 DEF Oldest
<1>6. PICK q : q = Held(f, n)  OBVIOUS
<1>7. q \in Seq(Byte) /\ m \in 0 .. Len(q)  BY <1>2, <1>4, <1>6
<1>8. SubSeq(q, 1, m) \in Seq(Byte) /\ Len(SubSeq(q, 1, m)) = m  BY <1>7, Prefix
<1> QED  BY <1>3, <1>4, <1>5, <1>6, <1>8

(* And then gone from it. *)
LEMMA WithoutIs ==
    ASSUME NEW n \in Nat \ {0}, NEW f \in Ring(n), NEW k \in Nat
    PROVE  /\ Without(f, n, k) \in Ring(n)
           /\ Used(Without(f, n, k), n) = Used(f, n) - Smaller(k, Used(f, n))
           /\ Held(Without(f, n, k), n)
                = SubSeq(Held(f, n), Smaller(k, Used(f, n)) + 1, Len(Held(f, n)))
<1>1. PICK u, h, t, b : u = Used(f, n) /\ h = f.head /\ t = f.tail /\ b = f.buf  OBVIOUS
<1>2. /\ h \in 0 .. (n - 1) /\ t \in 0 .. (n - 1) /\ h \in Int /\ t \in Int
      /\ b \in [0 .. (n - 1) -> Byte] /\ f = [buf |-> b, head |-> h, tail |-> t]
  BY <1>1, RingShape
<1>3. u \in Nat /\ u <= n - 1 /\ u = IF h >= t THEN h - t ELSE h - t + n  BY <1>1, UsedIs
<1>4. PICK m : m = Smaller(k, u)  OBVIOUS
<1>5. m \in Nat /\ m <= u  BY <1>3, <1>4, SmallerIs
<1>6. PICK v : v = (t + m) % n  OBVIOUS
<1>7. v = IF t + m < n THEN t + m ELSE t + m - n
  <2>1. PICK x : x = t + m  OBVIOUS
  <2>2. x \in Int /\ 0 <= x /\ x < 2 * n /\ v = x % n  BY <2>1, <1>2, <1>3, <1>5, <1>6
  <2>3. x < n => v = x  BY <2>2, Modulus
  <2>4. n <= x => v = x - n  BY <2>2, Modulus
  <2>5. x \in Int  BY <2>2
  <2>6. x < n \/ n <= x  BY <2>5
  <2>7. v = IF x < n THEN x ELSE x - n  BY <2>3, <2>4, <2>5, <2>6
  <2> QED  BY <2>1, <1>2, <1>5, <2>7
<1>8. v \in 0 .. (n - 1) /\ v \in Int
  <2>1. t + m \in Int  BY <1>2, <1>5
  <2>2. v \in 0 .. (n - 1)  BY <2>1, <1>6, Modulus
  <2> QED  BY <2>2
<1>9. PICK g : g = Without(f, n, k)  OBVIOUS
<1>10. g = [buf |-> b, head |-> h, tail |-> v]
  <2>1. g = [f EXCEPT !.tail = v]  BY <1>1, <1>4, <1>6, <1>9 DEF Without
  <2> QED  BY <2>1, <1>2
<1>11. g \in Ring(n) /\ g.buf = b /\ g.head = h /\ g.tail = v  BY <1>2, <1>8, <1>10 DEF Ring
<1>12. Used(g, n) = IF h >= v THEN h - v ELSE h - v + n  BY <1>11, UsedIs
<1>13. Used(g, n) = u - m
  <2>1. PICK w : w = Used(g, n)  OBVIOUS
  <2>2. w = IF h >= v THEN h - v ELSE h - v + n  BY <2>1, <1>12
  <2>3. w = u - m  BY <2>2, <1>2, <1>3, <1>5, <1>7
  <2> QED  BY <2>1, <2>3
<1>14. PICK q, r : q = Held(f, n) /\ r = Held(g, n)  OBVIOUS
<1>15. /\ q \in Seq(Byte) /\ Len(q) = u /\ \A i \in 1 .. u : q[i] = b[(t + i - 1) % n]
  BY <1>1, <1>14, HeldIs
<1>16. /\ r \in Seq(Byte) /\ Len(r) = u - m /\ \A i \in 1 .. (u - m) : r[i] = b[(v + i - 1) % n]
  BY <1>11, <1>13, <1>14, HeldIs
<1>17. PICK s : s = SubSeq(q, m + 1, Len(q))  OBVIOUS
<1>18. s \in Seq(Byte) /\ Len(s) = u - m /\ \A i \in 1 .. (u - m) : s[i] = q[m + i]
  <2>1. m \in 0 .. Len(q)  BY <1>3, <1>5, <1>15
  <2> QED  BY <2>1, <1>15, <1>17, Suffix, ZenonT(30)
<1>19. ASSUME NEW i \in 1 .. (u - m)  PROVE r[i] = s[i]
  <2>1. i \in Int /\ m + i \in 1 .. u  BY <1>3, <1>5
  <2>2. (v + i - 1) % n = (t + (m + i) - 1) % n
    <3>1. PICK x : x = t + (m + i) - 1  OBVIOUS
    <3>2. x \in Int /\ 0 <= x /\ x < 2 * n  BY <2>1, <3>1, <1>2, <1>3, <1>5
    <3>3. CASE t + m < n  BY <3>1, <3>3, <2>1, <1>2, <1>5, <1>7
    <3>4. CASE ~ (t + m < n)
      <4>1. n <= x /\ v + i - 1 = x - n  BY <2>1, <3>1, <3>4, <1>2, <1>3, <1>5, <1>7
      <4>2. x - n \in Int /\ 0 <= x - n /\ x - n < n  BY <3>2, <4>1
      <4>3. x % n = x - n  BY <3>2, <4>1, Modulus
      <4>4. (x - n) % n = x - n  BY <4>2, Modulus
      <4> QED  BY <3>1, <4>1, <4>3, <4>4
    <3> QED  BY <3>3, <3>4
  <2>3. r[i] = b[(v + i - 1) % n]  BY <1>16
  <2>4. s[i] = q[m + i]  BY <1>18
  <2>5. q[m + i] = b[(t + (m + i) - 1) % n]  BY <2>1, <1>15
  <2> QED  BY <2>2, <2>3, <2>4, <2>5
<1>20. r = s
  <2>1. Len(r) = Len(s) /\ \A i \in 1 .. Len(r) : r[i] = s[i]  BY <1>16, <1>18, <1>19
  <2> QED  BY <2>1, <1>16, <1>18, SeqEqual
<1> QED  BY <1>1, <1>4, <1>9, <1>11, <1>13, <1>14, <1>17, <1>20

(* What is written goes to the end of the queue, if there is room. *)
LEMMA WithIs ==
    ASSUME NEW n \in Nat \ {0}, NEW f \in Ring(n), NEW s \in Seq(Byte), Len(s) <= Free(f, n)
    PROVE  /\ With(f, n, s) \in Ring(n)
           /\ Used(With(f, n, s), n) = Used(f, n) + Len(s)
           /\ Held(With(f, n, s), n) = Held(f, n) \o s
<1>1. PICK u, h, t, b, l : /\ u = Used(f, n) /\ h = f.head /\ t = f.tail /\ b = f.buf
                           /\ l = Len(s)
  OBVIOUS
<1>2. /\ h \in 0 .. (n - 1) /\ t \in 0 .. (n - 1) /\ h \in Int /\ t \in Int
      /\ b \in [0 .. (n - 1) -> Byte] /\ f = [buf |-> b, head |-> h, tail |-> t]
  BY <1>1, RingShape
<1>3. /\ u \in Nat /\ u <= n - 1 /\ l \in Nat /\ u + l <= n - 1
      /\ u = IF h >= t THEN h - t ELSE h - t + n
  BY <1>1, UsedIs
<1>4. PICK v : v = (h + l) % n  OBVIOUS
<1>5. v = IF h + l < n THEN h + l ELSE h + l - n
  <2>1. PICK x : x = h + l  OBVIOUS
  <2>2. x \in Int /\ 0 <= x /\ x < 2 * n /\ v = x % n  BY <2>1, <1>2, <1>3, <1>4
  <2>3. x < n => v = x  BY <2>2, Modulus
  <2>4. n <= x => v = x - n  BY <2>2, Modulus
  <2>5. x \in Int  BY <2>2
  <2>6. x < n \/ n <= x  BY <2>5
  <2>7. v = IF x < n THEN x ELSE x - n  BY <2>3, <2>4, <2>5, <2>6
  <2> QED  BY <2>1, <1>2, <1>3, <2>7
<1>6. v \in 0 .. (n - 1) /\ v \in Int
  <2>1. h + l \in Int  BY <1>2, <1>3
  <2>2. v \in 0 .. (n - 1)  BY <2>1, <1>4, Modulus
  <2> QED  BY <2>2
<1>7. PICK c : c = [p \in 0 .. (n - 1) |->
                      IF ((p - h) % n) + 1 \in 1 .. l THEN s[((p - h) % n) + 1] ELSE b[p]]
  OBVIOUS
<1>8. c \in [0 .. (n - 1) -> Byte]
  <2>1. \A i \in 1 .. l : s[i] \in Byte  BY <1>1, ElementOfSeq
  <2> QED  BY <2>1, <1>2, <1>7
<1>9. PICK g : g = With(f, n, s)  OBVIOUS
<1>10. g = [buf |-> c, head |-> v, tail |-> t]
  <2>1. DOMAIN b = 0 .. (n - 1) /\ DOMAIN s = 1 .. l  BY <1>1, <1>2
  <2>2. g = [f EXCEPT !.buf = c, !.head = v]  BY <2>1, <1>1, <1>4, <1>7, <1>9 DEF With
  <2> QED  BY <2>2, <1>2
<1>11. g \in Ring(n) /\ g.buf = c /\ g.head = v /\ g.tail = t  BY <1>2, <1>6, <1>8, <1>10 DEF Ring
<1>12. Used(g, n) = u + l
  <2>1. PICK w : w = Used(g, n)  OBVIOUS
  <2>2. w = IF v >= t THEN v - t ELSE v - t + n  BY <2>1, <1>11, UsedIs
  <2>3. w = u + l  BY <2>2, <1>2, <1>3, <1>5
  <2> QED  BY <2>1, <2>3
<1>13. PICK q, r : q = Held(f, n) /\ r = Held(g, n)  OBVIOUS
<1>14. /\ q \in Seq(Byte) /\ Len(q) = u /\ \A i \in 1 .. u : q[i] = b[(t + i - 1) % n]
  BY <1>1, <1>13, HeldIs
<1>15. /\ r \in Seq(Byte) /\ Len(r) = u + l /\ \A i \in 1 .. (u + l) : r[i] = c[(t + i - 1) % n]
  BY <1>11, <1>12, <1>13, HeldIs
<1>16. PICK e : e = q \o s  OBVIOUS
<1>17. /\ e \in Seq(Byte) /\ Len(e) = u + l
       /\ \A i \in 1 .. (u + l) : e[i] = IF i <= u THEN q[i] ELSE s[i - u]
  <2>1. /\ e \in Seq(Byte) /\ Len(e) = Len(q) + Len(s)
        /\ \A i \in 1 .. (Len(q) + Len(s)) : e[i] = IF i <= Len(q) THEN q[i] ELSE s[i - Len(q)]
    BY <1>14, <1>16, ConcatProperties
  <2> QED  BY <2>1, <1>1, <1>14
<1>18. ASSUME NEW i \in 1 .. (u + l)  PROVE r[i] = e[i]
  <2>1. PICK p : p = (t + i - 1) % n  OBVIOUS
  <2>2. i \in Int /\ t + i - 1 \in Int /\ 0 <= t + i - 1 /\ t + i - 1 < 2 * n
    BY <1>2, <1>3
  <2>3. p \in 0 .. (n - 1) /\ p \in Int
    <3>1. p \in 0 .. (n - 1)  BY <2>1, <2>2, Modulus
    <3> QED  BY <3>1
  <2>4. p = IF t + i - 1 < n THEN t + i - 1 ELSE t + i - 1 - n
    <3>1. PICK x : x = t + i - 1  OBVIOUS
    <3>2. x \in Int /\ 0 <= x /\ x < 2 * n /\ p = x % n  BY <2>1, <2>2, <3>1
    <3>3. x < n => p = x  BY <3>2, Modulus
    <3>4. n <= x => p = x - n  BY <3>2, Modulus
    <3>5. x \in Int  BY <3>2
    <3>6. x < n \/ n <= x  BY <3>5
    <3>7. p = IF x < n THEN x ELSE x - n  BY <3>3, <3>4, <3>5, <3>6
    <3> QED  BY <3>1, <2>2, <1>2, <3>7
  <2>5. PICK j : j = (p - h) % n  OBVIOUS
  <2>6. j = IF p >= h THEN p - h ELSE p - h + n
    <3>1. PICK x : x = p - h  OBVIOUS
    <3>2. x \in Int /\ 0 - n <= x /\ x < n /\ j = x % n  BY <2>3, <2>5, <3>1, <1>2
    <3>3. 0 <= x => j = x  BY <3>2, Modulus
    <3>4. x < 0 => j = x + n  BY <3>2, Modulus
    <3> QED  BY <2>3, <3>1, <3>2, <3>3, <3>4, <1>2
  <2>7. r[i] = IF j + 1 \in 1 .. l THEN s[j + 1] ELSE b[p]  BY <2>1, <2>3, <2>5, <1>7, <1>15
  <2>8. CASE i <= u
    <3>1. i \in 1 .. u  BY <2>2, <2>8
    <3>2. j + 1 = n + i - u  BY <2>2, <2>3, <2>4, <2>6, <2>8, <1>2, <1>3
    <3>3. ~ (j + 1 \in 1 .. l)  BY <3>2, <2>2, <1>3, SMTT(30)
    <3>4. r[i] = b[p]  BY <3>3, <2>7
    <3>5. e[i] = q[i] /\ q[i] = b[p]  BY <3>1, <2>1, <2>8, <1>14, <1>17
    <3> QED  BY <3>4, <3>5
  <2>9. CASE ~ (i <= u)
    <3>1. j + 1 = i - u  BY <2>2, <2>3, <2>4, <2>6, <2>9, <1>2, <1>3
    <3>2. j + 1 \in 1 .. l  BY <3>1, <2>2, <2>9, <1>3
    <3>3. r[i] = s[i - u]  BY <3>1, <3>2, <2>7
    <3>4. e[i] = s[i - u]  BY <2>9, <1>17
    <3> QED  BY <3>3, <3>4
  <2> QED  BY <2>8, <2>9
<1>19. r = e
  <2>1. Len(r) = Len(e) /\ \A i \in 1 .. Len(r) : r[i] = e[i]  BY <1>15, <1>17, <1>18
  <2> QED  BY <2>1, <1>15, <1>17, SeqEqual
<1> QED  BY <1>1, <1>9, <1>11, <1>12, <1>13, <1>16, <1>19

--------------------------------------------------------------------------------
(* Sequences of bytes, and the tests fed with them *)

LEMMA SeqInduction ==
    ASSUME NEW Q, << >> \in Q,
           \A s \in Seq(Byte), b \in Byte : s \in Q => Append(s, b) \in Q
    PROVE  \A s \in Seq(Byte) : s \in Q
<1> SUFFICES ASSUME NEW s \in Seq(Byte)  PROVE s \in Q
  OBVIOUS
<1> DEFINE S == {n \in Nat : n <= Len(s) => SubSeq(s, 1, n) \in Q}
<1>1. 0 \in S
  <2>1. SubSeq(s, 1, 0) = << >>  BY SubSeqEmpty
  <2> QED  BY <2>1
<1>2. ASSUME NEW n \in Nat, n \in S  PROVE n + 1 \in S
  <2> SUFFICES ASSUME n + 1 <= Len(s)  PROVE SubSeq(s, 1, n + 1) \in Q  OBVIOUS
  <2>1. Len(s) \in Nat /\ n \in 0 .. Len(s) /\ n + 1 \in 1 .. Len(s)  OBVIOUS
  <2>2. PICK p, b : p = SubSeq(s, 1, n) /\ b = s[n + 1]  OBVIOUS
  <2>3. p \in Seq(Byte) /\ b \in Byte /\ p \in Q
    BY <1>2, <2>1, <2>2, Prefix, ElementOfSeq
  <2>4. SubSeq(s, 1, n + 1) = Append(p, b)  BY <2>1, <2>2
  <2> QED  BY <2>3, <2>4
<1>3. \A n \in Nat : n \in S
  <2> HIDE DEF S
  <2> QED  BY <1>1, <1>2, SetInduction
<1>4. Len(s) \in S  BY <1>3
<1>5. SubSeq(s, 1, Len(s)) = s  BY SubSeqFull
<1>6. Len(s) <= Len(s)  OBVIOUS
<1>7. SubSeq(s, 1, Len(s)) \in Q  BY <1>4, <1>6
<1> QED  BY <1>5, <1>7

(* The recursive function of Fed is well defined. *)
Follows(g, h, s) == g = [i \in 0 .. Len(s) |-> IF i = 0 THEN h ELSE FeedByte(g[i - 1], s[i])]

LEMMA FedExists ==
    ASSUME NEW h, NEW s \in Seq(Byte)
    PROVE  \E g : Follows(g, h, s)
<1> DEFINE Upto(g, n) == g = [i \in 0 .. n |-> IF i = 0 THEN h ELSE FeedByte(g[i - 1], s[i])]
           S == {n \in Nat : \E g : Upto(g, n)}
<1>1. 0 \in S
  <2>1. Upto([i \in 0 .. 0 |-> h], 0)  OBVIOUS
  <2> QED  BY <2>1
<1>2. ASSUME NEW n \in Nat, n \in S  PROVE n + 1 \in S
  <2>1. PICK g : Upto(g, n)  BY <1>2
  <2>2. PICK f : f = [i \in 0 .. (n + 1) |-> IF i <= n THEN g[i] ELSE FeedByte(g[n], s[n + 1])]
    OBVIOUS
  <2>3. ASSUME NEW i \in 0 .. (n + 1)
        PROVE  f[i] = IF i = 0 THEN h ELSE FeedByte(f[i - 1], s[i])
    <3>1. CASE i = 0  BY <2>1, <2>2, <3>1
    <3>2. CASE i \in 1 .. n
      <4>1. i \in 0 .. n /\ i <= n /\ i - 1 \in 0 .. (n + 1) /\ i - 1 <= n /\ i # 0  BY <3>2
      <4>2. g[i] = FeedByte(g[i - 1], s[i])  BY <2>1, <4>1
      <4>3. f[i] = g[i] /\ f[i - 1] = g[i - 1]  BY <2>2, <4>1
      <4> QED  BY <4>1, <4>2, <4>3
    <3>3. CASE i = n + 1
      <4>1. ~ (i <= n) /\ i - 1 = n /\ n \in 0 .. (n + 1) /\ n <= n /\ i # 0  BY <3>3
      <4>2. f[i] = FeedByte(g[n], s[n + 1]) /\ f[n] = g[n]  BY <2>2, <4>1
      <4> QED  BY <3>3, <4>1, <4>2
    <3> QED  BY <3>1, <3>2, <3>3
  <2>4. Upto(f, n + 1)
    <3>1. PICK e : e = [i \in 0 .. (n + 1) |-> IF i = 0 THEN h ELSE FeedByte(f[i - 1], s[i])]
      OBVIOUS
    <3>2. DOMAIN f = DOMAIN e /\ \A i \in DOMAIN f : f[i] = e[i]
      <4>1. DOMAIN f = 0 .. (n + 1) /\ DOMAIN e = 0 .. (n + 1)  BY <2>2, <3>1
      <4>2. \A i \in 0 .. (n + 1) : e[i] = IF i = 0 THEN h ELSE FeedByte(f[i - 1], s[i])
        BY <3>1
      <4> QED  BY <4>1, <4>2, <2>3
    <3>3. f = [i \in DOMAIN f |-> f[i]] /\ e = [i \in DOMAIN e |-> e[i]]  BY <2>2, <3>1
    <3>4. f = e  BY <3>2, <3>3
    <3> QED  BY <3>1, <3>4
  <2>5. \E g_1 : Upto(g_1, n + 1)
    <3> HIDE DEF Upto
    <3> QED  BY <2>4
  <2>6. n + 1 \in Nat  OBVIOUS
  <2> HIDE DEF Upto
  <2> QED  BY <2>5, <2>6
<1>3. \A n \in Nat : n \in S
  <2> HIDE DEF S
  <2> QED  BY <1>1, <1>2, SetInduction
<1>4. Len(s) \in S  BY <1>3
<1> QED  BY <1>4 DEF Follows

Runs(g, h, s) ==
    /\ g[0] = h /\ Fed(h, s) = g[Len(s)]
    /\ \A i \in 1 .. Len(s) : g[i] = FeedByte(g[i - 1], s[i])

LEMMA FedFollows ==
    ASSUME NEW h, NEW s \in Seq(Byte)
    PROVE  \E g : Runs(g, h, s)
<1>1. PICK g : g = CHOOSE after : Follows(after, h, s)  OBVIOUS
<1>2. Follows(g, h, s)  BY <1>1, FedExists
<1>3. Fed(h, s) = g[Len(s)]  BY <1>1 DEF Fed, Follows
<1>4. Len(s) \in Nat  OBVIOUS
<1>5. \A i \in 0 .. Len(s) : g[i] = IF i = 0 THEN h ELSE FeedByte(g[i - 1], s[i])
  <2>1. PICK n : n = Len(s)  OBVIOUS
  <2>2. g = [i \in 0 .. n |-> IF i = 0 THEN h ELSE FeedByte(g[i - 1], s[i])]
    BY <1>2, <2>1 DEF Follows
  <2> QED  BY <2>1, <2>2
<1>6. g[0] = h  BY <1>4, <1>5
<1>7. \A i \in 1 .. Len(s) : g[i] = FeedByte(g[i - 1], s[i])  BY <1>4, <1>5
<1> QED  BY <1>3, <1>6, <1>7 DEF Runs

LEMMA FedEmpty == \A h : Fed(h, << >>) = h
<1> SUFFICES ASSUME NEW h, NEW s, s = << >>  PROVE Fed(h, s) = h  OBVIOUS
<1>1. s \in Seq(Byte)  OBVIOUS
<1>2. Len(s) = 0  OBVIOUS
<1>3. PICK g : Runs(g, h, s)  BY <1>1, FedFollows
<1> QED  BY <1>2, <1>3 DEF Runs

LEMMA AppendIs ==
    ASSUME NEW S, NEW s \in Seq(S), NEW b \in S
    PROVE  /\ Append(s, b) \in Seq(S) /\ Len(Append(s, b)) = Len(s) + 1 /\ Len(s) \in Nat
           /\ Append(s, b)[Len(s) + 1] = b
           /\ \A i \in 1 .. Len(s) : Append(s, b)[i] = s[i]
OBVIOUS

LEMMA FedAppend ==
    ASSUME NEW h, NEW s \in Seq(Byte), NEW b \in Byte
    PROVE  Fed(h, Append(s, b)) = FeedByte(Fed(h, s), b)
<1>1. PICK t, n : t = Append(s, b) /\ n = Len(s)  OBVIOUS
<1>2. t \in Seq(Byte) /\ Len(t) = n + 1 /\ n \in Nat /\ t[n + 1] = b
      /\ \A i \in 1 .. n : t[i] = s[i]
  BY <1>1, AppendIs
<1>11. PICK g : Runs(g, h, s)  BY FedFollows
<1>12. PICK f : Runs(f, h, t)
  <2>1. t \in Seq(Byte)  BY <1>2
  <2> QED  BY <2>1, FedFollows
<1>3. /\ g[0] = h /\ Fed(h, s) = g[Len(s)]
      /\ \A i \in 1 .. Len(s) : g[i] = FeedByte(g[i - 1], s[i])
  BY <1>11 DEF Runs
<1>4. /\ f[0] = h /\ Fed(h, t) = f[Len(t)]
      /\ \A i \in 1 .. Len(t) : f[i] = FeedByte(f[i - 1], t[i])
  BY <1>12 DEF Runs
<1> DEFINE S == {i \in Nat : i <= n => f[i] = g[i]}
<1>5. 0 \in S  BY <1>3, <1>4
<1>6. ASSUME NEW i \in Nat, i \in S  PROVE i + 1 \in S
  <2> SUFFICES ASSUME i + 1 <= n  PROVE f[i + 1] = g[i + 1]  OBVIOUS
  <2>1. i + 1 \in 1 .. n /\ i + 1 \in 1 .. Len(s) /\ i + 1 \in 1 .. Len(t) /\ (i + 1) - 1 = i
    BY <1>1, <1>2
  <2>2. f[i] = g[i]
    <3>1. i <= n  BY <2>1, <1>2
    <3> QED  BY <3>1, <1>6
  <2>3. f[i + 1] = FeedByte(f[i], t[i + 1])  BY <2>1, <1>4
  <2>4. g[i + 1] = FeedByte(g[i], s[i + 1])  BY <2>1, <1>3
  <2>5. t[i + 1] = s[i + 1]  BY <2>1, <1>2
  <2> QED  BY <2>2, <2>3, <2>4, <2>5
<1>7. \A i \in Nat : i \in S
  <2> HIDE DEF S
  <2> QED  BY <1>5, <1>6, SetInduction
<1>8. f[n] = g[n]
  <2>1. n \in S /\ n <= n  BY <1>2, <1>7
  <2> QED  BY <2>1
<1>9. f[n + 1] = FeedByte(f[n], b)
  <2>1. n + 1 \in 1 .. Len(t) /\ (n + 1) - 1 = n  BY <1>2
  <2> QED  BY <2>1, <1>2, <1>4
<1>10. Fed(h, t) = f[n + 1] /\ Fed(h, s) = g[n]  BY <1>1, <1>2, <1>3, <1>4
<1> QED  BY <1>1, <1>8, <1>9, <1>10

LEMMA ConcatAppend ==
    ASSUME NEW S, NEW s \in Seq(S), NEW t \in Seq(S), NEW b \in S
    PROVE  s \o Append(t, b) = Append(s \o t, b) /\ s \o t \in Seq(S)
OBVIOUS

LEMMA FedConcat ==
    ASSUME NEW h, NEW s \in Seq(Byte), NEW t \in Seq(Byte)
    PROVE  Fed(h, s \o t) = Fed(Fed(h, s), t)
<1> DEFINE Q == {u \in Seq(Byte) : Fed(h, s \o u) = Fed(Fed(h, s), u)}
<1>1. << >> \in Q
  <2>1. s \o << >> = s  BY ConcatEmptySeq
  <2>2. << >> \in Seq(Byte)  OBVIOUS
  <2> QED  BY <2>1, <2>2, FedEmpty
<1>2. ASSUME NEW u \in Seq(Byte), NEW b \in Byte, u \in Q  PROVE Append(u, b) \in Q
  <2>joined. s \o Append(u, b) = Append(s \o u, b) /\ s \o u \in Seq(Byte)  BY ConcatAppend
  <2>whole. Fed(h, Append(s \o u, b)) = FeedByte(Fed(h, s \o u), b)  BY <2>joined, FedAppend
  <2>parts. Fed(Fed(h, s), Append(u, b)) = FeedByte(Fed(Fed(h, s), u), b)  BY FedAppend
  <2>before. Fed(h, s \o u) = Fed(Fed(h, s), u)  BY <1>2
  <2>bytes. Append(u, b) \in Seq(Byte)  OBVIOUS
  <2> QED  BY <2>joined, <2>whole, <2>parts, <2>before, <2>bytes
<1>3. \A u \in Seq(Byte) : u \in Q
  <2> HIDE DEF Q
  <2> QED  BY <1>1, <1>2, SeqInduction
<1> QED  BY <1>3

--------------------------------------------------------------------------------
(* The repetition test *)

AllStuck(t, i, n) == \A j \in i .. (i + n - 1) : t[j] = "stuck"

(* A run that fails the test is in t, or t ends in one of m stuck bytes. *)
HasRun(t)    == \E i \in 1 .. (Len(t) - RCT_BYTES + 1) : AllStuck(t, i, RCT_BYTES)
EndsIn(t, m) == /\ m \in 0 .. Len(t) /\ AllStuck(t, Len(t) - m + 1, m)
                /\ m < Len(t) => t[Len(t) - m] = "live"

LEMMA RunGoesOn ==
    ASSUME NEW t \in Seq(Byte), NEW m, EndsIn(t, m), NEW b \in Byte
    PROVE  EndsIn(Append(t, b), IF b = "stuck" THEN m + 1 ELSE 0)
<1>1. PICK u, l : u = Append(t, b) /\ l = Len(t)  OBVIOUS
<1>2. /\ l \in Nat /\ Len(u) = l + 1 /\ u[l + 1] = b /\ \A i \in 1 .. l : u[i] = t[i]
  BY <1>1, AppendIs
<1>3. /\ m \in Nat /\ m <= l /\ \A j \in (l - m + 1) .. (l - m + 1 + m - 1) : t[j] = "stuck"
      /\ m < l => t[l - m] = "live"
  BY <1>1, <1>2 DEF EndsIn, AllStuck
<1>4. CASE b = "stuck"
  <2>1. m + 1 \in 0 .. Len(u) /\ Len(u) - (m + 1) + 1 = l - m + 1  BY <1>2, <1>3
  <2>2. ASSUME NEW j \in (l - m + 1) .. (l - m + 1 + (m + 1) - 1)  PROVE u[j] = "stuck"
    <3>1. j \in Int /\ (j = l + 1 \/ j \in (l - m + 1) .. (l - m + 1 + m - 1)) /\ j >= 1
      BY <1>2, <1>3
    <3>2. CASE j = l + 1  BY <3>2, <1>2, <1>4
    <3>3. CASE j \in (l - m + 1) .. (l - m + 1 + m - 1)
      <4>1. j \in 1 .. l  BY <3>1, <3>3, <1>2, <1>3
      <4> QED  BY <3>3, <4>1, <1>2, <1>3
    <3> QED  BY <3>1, <3>2, <3>3
  <2>3. ASSUME m + 1 < Len(u)  PROVE u[Len(u) - (m + 1)] = "live"
    <3>1. Len(u) - (m + 1) = l - m /\ l - m \in 1 .. l /\ m < l  BY <2>3, <1>2, <1>3
    <3> QED  BY <3>1, <1>2, <1>3
  <2>4. EndsIn(u, m + 1)  BY <2>1, <2>2, <2>3 DEF EndsIn, AllStuck
  <2> QED  BY <2>4, <1>1, <1>4
<1>5. CASE b # "stuck"
  <2>1. b = "live"  BY <1>5 DEF Byte
  <2>2. 0 \in 0 .. Len(u) /\ Len(u) - 0 = l + 1 /\ Len(u) - 0 + 1 = l + 2  BY <1>2
  <2>3. \A j \in (Len(u) - 0 + 1) .. (Len(u) - 0 + 1 + 0 - 1) : u[j] = "stuck"  BY <2>2, <1>2
  <2>4. EndsIn(u, 0)  BY <2>1, <2>2, <2>3, <1>2 DEF EndsIn, AllStuck
  <2> QED  BY <2>4, <1>1, <1>5
<1> QED  BY <1>4, <1>5

LEMMA RunStays ==
    ASSUME NEW t \in Seq(Byte), HasRun(t), NEW b \in Byte
    PROVE  HasRun(Append(t, b))
<1>1. PICK u, l : u = Append(t, b) /\ l = Len(t)  OBVIOUS
<1>2. /\ l \in Nat /\ Len(u) = l + 1 /\ u[l + 1] = b /\ \A i \in 1 .. l : u[i] = t[i]
  BY <1>1, AppendIs
<1>3. PICK i \in 1 .. (l - RCT_BYTES + 1) : AllStuck(t, i, RCT_BYTES)  BY <1>1 DEF HasRun
<1>4. RCT_BYTES \in Nat \ {0}  BY PipelineAssumption
<1>5. \A j \in i .. (i + RCT_BYTES - 1) : j \in 1 .. l  BY <1>2, <1>4
<1>6. AllStuck(u, i, RCT_BYTES)  BY <1>2, <1>3, <1>5 DEF AllStuck
<1>7. i \in 1 .. (Len(u) - RCT_BYTES + 1)  BY <1>2, <1>4
<1> QED  BY <1>1, <1>6, <1>7 DEF HasRun

LEMMA RunCompleted ==
    ASSUME NEW t \in Seq(Byte), ~ HasRun(t), NEW m, EndsIn(t, m), m < RCT_BYTES, NEW b \in Byte
    PROVE  HasRun(Append(t, b)) <=> b = "stuck" /\ m + 1 >= RCT_BYTES
<1>1. PICK u, l : u = Append(t, b) /\ l = Len(t)  OBVIOUS
<1>2. /\ l \in Nat /\ Len(u) = l + 1 /\ u[l + 1] = b /\ \A i \in 1 .. l : u[i] = t[i]
  BY <1>1, AppendIs
<1>3. /\ m \in Nat /\ m <= l /\ \A j \in (l - m + 1) .. (l - m + 1 + m - 1) : t[j] = "stuck"
      /\ m < l => t[l - m] = "live"
  BY <1>1, <1>2 DEF EndsIn, AllStuck
<1>4. RCT_BYTES \in Nat \ {0}  BY PipelineAssumption
<1>5. ASSUME b = "stuck", m + 1 >= RCT_BYTES  PROVE HasRun(u)
  <2>1. EndsIn(u, m + 1)  BY <1>1, <1>5, RunGoesOn
  <2>2. m + 1 = RCT_BYTES  BY <1>3, <1>4, <1>5
  <2>3. PICK i : i = Len(u) - RCT_BYTES + 1  OBVIOUS
  <2>4. AllStuck(u, i, RCT_BYTES)  BY <2>1, <2>2, <2>3 DEF EndsIn
  <2>5. i \in 1 .. (Len(u) - RCT_BYTES + 1)  BY <2>2, <2>3, <1>2, <1>3
  <2> QED  BY <2>4, <2>5 DEF HasRun
<1>6. ASSUME HasRun(u)  PROVE b = "stuck" /\ m + 1 >= RCT_BYTES
  <2>1. PICK i \in 1 .. (Len(u) - RCT_BYTES + 1) : AllStuck(u, i, RCT_BYTES)
    BY <1>6 DEF HasRun
  <2>2. i \in Nat /\ i >= 1 /\ i + RCT_BYTES - 1 <= l + 1  BY <2>1, <1>2, <1>4
  <2>3. i + RCT_BYTES - 1 = l + 1
    <3>1. SUFFICES ASSUME i + RCT_BYTES - 1 <= l  PROVE FALSE  BY <2>2, <1>2, <1>4
    <3>2. \A j \in i .. (i + RCT_BYTES - 1) : j \in 1 .. l  BY <3>1, <2>2, <1>2, <1>4
    <3>3. AllStuck(t, i, RCT_BYTES)  BY <2>1, <3>2, <1>2 DEF AllStuck
    <3>4. i \in 1 .. (l - RCT_BYTES + 1)  BY <3>1, <2>2, <1>2, <1>4
    <3> QED  BY <3>3, <3>4, <1>1 DEF HasRun
  <2>4. \A j \in i .. (l + 1) : u[j] = "stuck"  BY <2>1, <2>3 DEF AllStuck
  <2>5. b = "stuck"
    <3>1. l + 1 \in i .. (l + 1)  BY <2>2, <2>3, <1>2, <1>4
    <3> QED  BY <2>4, <3>1, <1>2
  <2>6. m + 1 >= RCT_BYTES
    <3>1. SUFFICES ASSUME m + 1 < RCT_BYTES  PROVE FALSE  BY <1>3, <1>4
    <3>2. l - m \in i .. (l + 1) /\ l - m \in 1 .. l /\ m < l
      BY <3>1, <2>2, <2>3, <1>2, <1>3, <1>4
    <3>3. u[l - m] = "stuck" /\ u[l - m] = t[l - m] /\ t[l - m] = "live"
      BY <3>2, <2>4, <1>2, <1>3
    <3> QED  BY <3>3
  <2> QED  BY <2>5, <2>6
<1> QED  BY <1>1, <1>5, <1>6

--------------------------------------------------------------------------------
(* What the tests have found after a sequence of bytes *)

Tests ==
    {h \in [health : {"warming", "ok", "fail"}, warm : 0 .. STARTUP_BYTES, run : 0 .. RCT_BYTES] :
       h.health # "fail" => /\ h.run < RCT_BYTES
                            /\ h.warm = STARTUP_BYTES => h.health = "ok"}

LEMMA TestsShape ==
    ASSUME NEW h \in Tests
    PROVE  /\ h.health \in {"warming", "ok", "fail"} /\ h.warm \in 0 .. STARTUP_BYTES
           /\ h.run \in 0 .. RCT_BYTES
           /\ h.health # "fail" => /\ h.run < RCT_BYTES
                                   /\ h.warm = STARTUP_BYTES => h.health = "ok"
           /\ h = [health |-> h.health, warm |-> h.warm, run |-> h.run]
BY DEF Tests

LEMMA FeedByteIs ==
    ASSUME NEW h \in Tests, NEW b \in Byte
    PROVE  /\ FeedByte(h, b) \in Tests
           /\ h.health = "fail" => FeedByte(h, b) = h
           /\ h.health # "fail" /\ b = "stuck" /\ h.run + 1 >= RCT_BYTES =>
                /\ FeedByte(h, b).health = "fail" /\ FeedByte(h, b).run = RCT_BYTES
                /\ FeedByte(h, b).warm = h.warm
           /\ h.health # "fail" /\ ~ (b = "stuck" /\ h.run + 1 >= RCT_BYTES) =>
                /\ FeedByte(h, b).run = IF b = "stuck" THEN h.run + 1 ELSE 0
                /\ FeedByte(h, b).warm = Smaller(h.warm + 1, STARTUP_BYTES)
                /\ FeedByte(h, b).health # "fail"
                /\ FeedByte(h, b).health
                     = IF FeedByte(h, b).warm = STARTUP_BYTES THEN "ok" ELSE h.health
<1>1. PICK e, w, r : e = h.health /\ w = h.warm /\ r = h.run  OBVIOUS
<1>2. /\ h = [health |-> e, warm |-> w, run |-> r]
      /\ e \in {"warming", "ok", "fail"} /\ w \in 0 .. STARTUP_BYTES /\ r \in 0 .. RCT_BYTES
      /\ e # "fail" => r < RCT_BYTES
  BY <1>1, TestsShape
<1>3. RCT_BYTES \in Nat \ {0} /\ STARTUP_BYTES \in Nat \ {0}  BY PipelineAssumption
<1>4. PICK g : g = FeedByte(h, b)  OBVIOUS
<1>5. CASE e = "fail"
  <2>1. g = h  BY <1>1, <1>4, <1>5 DEF FeedByte
  <2> QED  BY <2>1, <1>1, <1>4, <1>5
<1>6. CASE e # "fail" /\ b = "stuck" /\ r + 1 >= RCT_BYTES
  <2>1. r + 1 = RCT_BYTES  BY <1>2, <1>3, <1>6
  <2>2. g = [h EXCEPT !.run = r + 1, !.health = "fail"]
    BY <1>1, <1>4, <1>6 DEF FeedByte
  <2>3. g = [health |-> "fail", warm |-> w, run |-> RCT_BYTES]  BY <2>1, <2>2, <1>2
  <2>4. g \in Tests  BY <2>3, <1>2, <1>3 DEF Tests
  <2> QED  BY <2>3, <2>4, <1>1, <1>4, <1>6
<1>7. CASE e # "fail" /\ ~ (b = "stuck" /\ r + 1 >= RCT_BYTES)
  <2>1. PICK x, y : x = (IF b = "stuck" THEN r + 1 ELSE 0) /\ y = Smaller(w + 1, STARTUP_BYTES)
    OBVIOUS
  <2>2. x \in 0 .. RCT_BYTES /\ x < RCT_BYTES  BY <2>1, <1>2, <1>3, <1>7
  <2>3. y \in 0 .. STARTUP_BYTES  BY <2>1, <1>2, <1>3 DEF Smaller
  <2>4. ~ (x >= RCT_BYTES)  BY <2>2, <1>3
  <2>5. g = [run |-> x, warm |-> y, health |-> IF y = STARTUP_BYTES THEN "ok" ELSE e]
    BY <2>1, <2>4, <1>1, <1>4, <1>7 DEF FeedByte
  <2>6. g.run = x /\ g.warm = y /\ g.health = IF y = STARTUP_BYTES THEN "ok" ELSE e
    BY <2>5
  <2>7. g.health \in {"warming", "ok"} /\ (g.warm = STARTUP_BYTES => g.health = "ok")
    BY <2>6, <1>2, <1>7
  <2>8. g \in Tests  BY <2>2, <2>3, <2>5, <2>6, <2>7 DEF Tests
  <2> QED  BY <2>1, <2>6, <2>7, <2>8, <1>1, <1>4, <1>7
<1> QED  BY <1>1, <1>2, <1>5, <1>6, <1>7

LEMMA FedType ==
    ASSUME NEW h \in Tests, NEW s \in Seq(Byte)
    PROVE  Fed(h, s) \in Tests
<1> DEFINE Q == {u \in Seq(Byte) : Fed(h, u) \in Tests}
<1>1. << >> \in Q
  <2>1. << >> \in Seq(Byte)  OBVIOUS
  <2>2. Fed(h, << >>) = h  BY FedEmpty
  <2> QED  BY <2>1, <2>2
<1>2. ASSUME NEW u \in Seq(Byte), NEW b \in Byte, u \in Q  PROVE Append(u, b) \in Q
  <2>1. Append(u, b) \in Seq(Byte)  OBVIOUS
  <2>2. Fed(h, Append(u, b)) = FeedByte(Fed(h, u), b)  BY FedAppend
  <2>3. Fed(h, u) \in Tests  BY <1>2
  <2>4. FeedByte(Fed(h, u), b) \in Tests  BY <2>3, FeedByteIs
  <2> QED  BY <2>1, <2>2, <2>4
<1>3. \A u \in Seq(Byte) : u \in Q
  <2> HIDE DEF Q
  <2> QED  BY <1>1, <1>2, SeqInduction
<1> QED  BY <1>3

(* A failure stays. *)
LEMMA FedFailed ==
    ASSUME NEW h \in Tests, h.health = "fail", NEW s \in Seq(Byte)
    PROVE  Fed(h, s) = h
<1> DEFINE Q == {u \in Seq(Byte) : Fed(h, u) = h}
<1>1. << >> \in Q
  <2>1. << >> \in Seq(Byte)  OBVIOUS
  <2> QED  BY <2>1, FedEmpty
<1>2. ASSUME NEW u \in Seq(Byte), NEW b \in Byte, u \in Q  PROVE Append(u, b) \in Q
  <2>1. Append(u, b) \in Seq(Byte)  OBVIOUS
  <2>2. Fed(h, Append(u, b)) = FeedByte(Fed(h, u), b)  BY FedAppend
  <2>before. Fed(h, u) = h  BY <1>2
  <2>4. FeedByte(h, b) = h  BY FeedByteIs
  <2> QED  BY <2>1, <2>2, <2>before, <2>4
<1>3. \A u \in Seq(Byte) : u \in Q
  <2> HIDE DEF Q
  <2> QED  BY <1>1, <1>2, SeqInduction
<1> QED  BY <1>3

(* The tested stream from the start of the run of n stuck bytes it ended   *)
(* in, and the bytes of s before a run fails the test.                     *)
Line(n, s)    == [i \in 1 .. n |-> "stuck"] \o s
Passing(n, s) == {k \in 1 .. Len(s) : ~ HasRun(Line(n, SubSeq(s, 1, k)))}

LEMMA LineIs ==
    ASSUME NEW n \in Nat
    PROVE  /\ Line(n, << >>) \in Seq(Byte) /\ Len(Line(n, << >>)) = n
           /\ EndsIn(Line(n, << >>), n)
           /\ \A s \in Seq(Byte) : Line(n, s) \in Seq(Byte)
           /\ \A s \in Seq(Byte), b \in Byte : Line(n, Append(s, b)) = Append(Line(n, s), b)
<1>1. PICK e : e = [i \in 1 .. n |-> "stuck"]  OBVIOUS
<1>2. e \in Seq(Byte) /\ Len(e) = n
  <2>1. "stuck" \in Byte  BY DEF Byte
  <2>2. [i \in 1 .. n |-> "stuck"] \in Seq(Byte)  BY <2>1, IsASeq
  <2>3. Len([i \in 1 .. n |-> "stuck"]) = n  OBVIOUS
  <2> QED  BY <2>2, <2>3, <1>1
<1>3. e \o << >> = e  BY <1>2, ConcatEmptySeq
<1>4. EndsIn(e, n)
  <2>1. \A j \in 1 .. n : e[j] = "stuck"  BY <1>1
  <2>2. n \in 0 .. Len(e) /\ Len(e) - n + 1 = 1 /\ 1 + n - 1 = n  BY <1>2
  <2> QED  BY <2>1, <2>2, <1>2 DEF EndsIn, AllStuck
<1>5. \A s \in Seq(Byte) : e \o s \in Seq(Byte)  BY <1>2, ConcatProperties
<1>6. \A s \in Seq(Byte), b \in Byte : e \o Append(s, b) = Append(e \o s, b)
  BY <1>2, ConcatAppend
<1> QED  BY <1>1, <1>2, <1>3, <1>4, <1>5, <1>6 DEF Line

LEMMA PassingIs ==
    ASSUME NEW n \in Nat
    PROVE  /\ Passing(n, << >>) = {}
           /\ \A s \in Seq(Byte) : IsFiniteSet(Passing(n, s)) /\ Cardinality(Passing(n, s)) \in Nat
           /\ \A s \in Seq(Byte), b \in Byte :
                Cardinality(Passing(n, Append(s, b)))
                  = Cardinality(Passing(n, s))
                      + (IF HasRun(Line(n, Append(s, b))) THEN 0 ELSE 1)
<1>1. Passing(n, << >>) = {}
  <2>1. Len(<< >>) = 0  OBVIOUS
  <2> QED  BY <2>1 DEF Passing
<1>2. ASSUME NEW s \in Seq(Byte)
      PROVE  IsFiniteSet(Passing(n, s)) /\ Cardinality(Passing(n, s)) \in Nat
  <2>1. Len(s) \in Nat  OBVIOUS
  <2>2. IsFiniteSet(1 .. Len(s))  BY <2>1, FS_Interval
  <2>3. Passing(n, s) \in SUBSET (1 .. Len(s))  BY DEF Passing
  <2> QED  BY <2>2, <2>3, FS_Subset, FS_CardinalityType
<1>3. ASSUME NEW s \in Seq(Byte), NEW b \in Byte
      PROVE  Cardinality(Passing(n, Append(s, b)))
               = Cardinality(Passing(n, s)) + (IF HasRun(Line(n, Append(s, b))) THEN 0 ELSE 1)
  <2>1. PICK u, l : u = Append(s, b) /\ l = Len(s)  OBVIOUS
  <2>2. l \in Nat /\ Len(u) = l + 1 /\ u \in Seq(Byte)  BY <2>1, AppendIs
  <2>3. SubSeq(u, 1, l + 1) = u  BY <2>2, SubSeqFull
  <2>4. \A k \in 1 .. l : SubSeq(u, 1, k) = SubSeq(s, 1, k)  BY <2>1
  <2>5. PICK P, R : P = Passing(n, s) /\ R = Passing(n, u)  OBVIOUS
  <2>6. \A k : k \in P <=> k \in 1 .. l /\ ~ HasRun(Line(n, SubSeq(s, 1, k)))
    BY <2>1, <2>5 DEF Passing
  <2>7. \A k : k \in R <=> k \in 1 .. (l + 1) /\ ~ HasRun(Line(n, SubSeq(u, 1, k)))
    BY <2>2, <2>5 DEF Passing
  <2>8. l + 1 \notin P /\ l + 1 \in 1 .. (l + 1)
        /\ \A k : k \in 1 .. (l + 1) <=> k \in 1 .. l \/ k = l + 1
    BY <2>2, <2>6
  <2>9. IsFiniteSet(P) /\ Cardinality(P) \in Nat  BY <2>5, <1>2
  <2>10. CASE HasRun(Line(n, u))
    <3>1. \A k : k \in R <=> k \in P  BY <2>3, <2>4, <2>6, <2>7, <2>8, <2>10
    <3>2. R = P  BY <3>1
    <3> QED  BY <3>2, <2>1, <2>5, <2>9, <2>10
  <2>11. CASE ~ HasRun(Line(n, u))
    <3>1. \A k : k \in R <=> k \in P \/ k = l + 1  BY <2>3, <2>4, <2>6, <2>7, <2>8, <2>11
    <3>2. R = P \cup {l + 1}  BY <3>1
    <3>3. Cardinality(R) = Cardinality(P) + 1  BY <3>2, <2>8, <2>9, FS_AddElement
    <3> QED  BY <3>3, <2>1, <2>5, <2>11
  <2> QED  BY <2>10, <2>11
<1> QED  BY <1>1, <1>2, <1>3

(* The outcome of a sequence of bytes: a failure exactly if it completes a *)
(* run, with every byte before it counted; else the run it ends in.        *)
Outcome(h, s, g) ==
    LET line  == Line(h.run, s)
        count == Cardinality(Passing(h.run, s))
    IN  /\ g.warm = Smaller(h.warm + count, STARTUP_BYTES)
        /\ IF HasRun(line)
           THEN g.health = "fail" /\ g.run = RCT_BYTES
           ELSE /\ EndsIn(line, g.run)
                /\ g.health # "fail"
                /\ g.health = IF g.warm = STARTUP_BYTES THEN "ok" ELSE h.health

LEMMA FedOutcome ==
    ASSUME NEW h \in Tests, h.health # "fail", NEW s \in Seq(Byte)
    PROVE  Outcome(h, s, Fed(h, s))
<1>1. PICK n, w, e : n = h.run /\ w = h.warm /\ e = h.health  OBVIOUS
<1>2. /\ n \in Nat /\ n < RCT_BYTES /\ w \in 0 .. STARTUP_BYTES /\ e \in {"warming", "ok"}
      /\ w = STARTUP_BYTES => e = "ok"
  BY <1>1, TestsShape, PipelineAssumption
<1>3. RCT_BYTES \in Nat \ {0} /\ STARTUP_BYTES \in Nat \ {0}  BY PipelineAssumption
<1> DEFINE Q == {u \in Seq(Byte) : Outcome(h, u, Fed(h, u))}
<1>4. << >> \in Q
  <2>1. << >> \in Seq(Byte) /\ Fed(h, << >>) = h  BY FedEmpty
  <2>2. PICK t : t = Line(n, << >>)  OBVIOUS
  <2>3. Len(t) = n /\ EndsIn(t, n)  BY <2>2, <1>2, LineIs
  <2>4. ~ HasRun(t)  BY <2>3, <1>2, <1>3 DEF HasRun
  <2>5. Cardinality(Passing(n, << >>)) = 0  BY <1>2, PassingIs, FS_EmptySet
  <2>6. w = Smaller(w + 0, STARTUP_BYTES)  BY <1>2, <1>3 DEF Smaller
  <2>7. e # "fail" /\ e = IF w = STARTUP_BYTES THEN "ok" ELSE e  BY <1>2
  <2>8. Outcome(h, << >>, h)
    BY <2>2, <2>3, <2>4, <2>5, <2>6, <2>7, <1>1 DEF Outcome
  <2> QED  BY <2>1, <2>8
<1>5. ASSUME NEW u \in Seq(Byte), NEW b \in Byte, u \in Q  PROVE Append(u, b) \in Q
  <2>1. PICK v : v = Append(u, b)  OBVIOUS
  <2>2. v \in Seq(Byte)  BY <2>1, AppendIs
  <2>3. PICK g, f : g = Fed(h, u) /\ f = Fed(h, v)  OBVIOUS
  <2>4. g \in Tests /\ f = FeedByte(g, b)  BY <2>1, <2>3, FedType, FedAppend
  <2>5. PICK t, r : t = Line(n, u) /\ r = Line(n, v)  OBVIOUS
  <2>6. t \in Seq(Byte) /\ r = Append(t, b)  BY <2>1, <2>5, <1>2, LineIs
  <2>7. PICK c, d : c = Cardinality(Passing(n, u)) /\ d = Cardinality(Passing(n, v))  OBVIOUS
  <2>8. c \in Nat /\ d = c + (IF HasRun(r) THEN 0 ELSE 1)
    BY <2>1, <2>5, <2>7, <1>2, PassingIs
  <2>9. /\ g.warm = Smaller(w + c, STARTUP_BYTES)
        /\ HasRun(t) => g.health = "fail" /\ g.run = RCT_BYTES
        /\ ~ HasRun(t) => /\ EndsIn(t, g.run)
                          /\ g.health # "fail"
                          /\ g.health = IF g.warm = STARTUP_BYTES THEN "ok" ELSE e
    BY <1>1, <1>5, <2>3, <2>5, <2>7 DEF Outcome
  <2>10. /\ f.warm = Smaller(w + d, STARTUP_BYTES)
         /\ HasRun(r) => f.health = "fail" /\ f.run = RCT_BYTES
         /\ ~ HasRun(r) => /\ EndsIn(r, f.run)
                           /\ f.health # "fail"
                           /\ f.health = IF f.warm = STARTUP_BYTES THEN "ok" ELSE e
    <3>1. CASE HasRun(t)
      <4>1. HasRun(r)  BY <3>1, <2>6, RunStays
      <4>2. g.health = "fail" /\ f = g  BY <3>1, <2>4, <2>9, FeedByteIs
      <4>3. d = c  BY <4>1, <2>8
      <4> QED  BY <3>1, <4>1, <4>2, <4>3, <2>9
    <3>2. CASE ~ HasRun(t) /\ b = "stuck" /\ g.run + 1 >= RCT_BYTES
      <4>1. EndsIn(t, g.run) /\ g.health # "fail" /\ g.run < RCT_BYTES
        BY <3>2, <2>4, <2>9, TestsShape
      <4>2. HasRun(r)  BY <3>2, <4>1, <2>6, RunCompleted
      <4>3. f.health = "fail" /\ f.run = RCT_BYTES /\ f.warm = g.warm
        BY <3>2, <4>1, <2>4, FeedByteIs
      <4>4. d = c  BY <4>2, <2>8
      <4> QED  BY <4>2, <4>3, <4>4, <2>9
    <3>3. CASE ~ HasRun(t) /\ ~ (b = "stuck" /\ g.run + 1 >= RCT_BYTES)
      <4>1. /\ EndsIn(t, g.run) /\ g.health # "fail" /\ g.run < RCT_BYTES
            /\ g.warm = STARTUP_BYTES => g.health = "ok"
        BY <3>3, <2>4, <2>9, TestsShape
      <4>2. ~ HasRun(r)  BY <3>3, <4>1, <2>6, RunCompleted
      <4>3. /\ f.run = IF b = "stuck" THEN g.run + 1 ELSE 0
            /\ f.warm = Smaller(g.warm + 1, STARTUP_BYTES)
            /\ f.health # "fail"
            /\ f.health = IF f.warm = STARTUP_BYTES THEN "ok" ELSE g.health
        BY <3>3, <4>1, <2>4, FeedByteIs
      <4>4. EndsIn(r, f.run)  BY <4>1, <4>3, <2>6, RunGoesOn
      <4>5. d = c + 1  BY <4>2, <2>8
      <4>6. f.warm = Smaller(w + d, STARTUP_BYTES)
        <5>1. PICK x, y : x = g.warm /\ y = f.warm  OBVIOUS
        <5>2. x = Smaller(w + c, STARTUP_BYTES) /\ y = Smaller(x + 1, STARTUP_BYTES)
          BY <5>1, <4>3, <2>9
        <5>3. y = Smaller(w + d, STARTUP_BYTES)
          BY <5>2, <4>5, <2>8, <1>2, <1>3 DEF Smaller
        <5> QED  BY <5>1, <5>3
      <4>7. f.warm # STARTUP_BYTES => g.warm # STARTUP_BYTES
        <5>1. PICK x : x = g.warm  OBVIOUS
        <5>2. x = STARTUP_BYTES => Smaller(x + 1, STARTUP_BYTES) = STARTUP_BYTES
          BY <1>3 DEF Smaller
        <5> QED  BY <5>1, <5>2, <4>3
      <4>8. f.health = IF f.warm = STARTUP_BYTES THEN "ok" ELSE e
        BY <3>3, <4>3, <4>7, <2>9
      <4> QED  BY <4>2, <4>3, <4>4, <4>6, <4>8
    <3> QED  BY <3>1, <3>2, <3>3
  <2>11. Outcome(h, v, f)  BY <2>10, <2>5, <2>7, <1>1 DEF Outcome
  <2> QED  BY <2>1, <2>2, <2>3, <2>11
<1>6. \A u \in Seq(Byte) : u \in Q
  <2> HIDE DEF Q
  <2> QED  BY <1>4, <1>5, SeqInduction
<1> QED  BY <1>6

--------------------------------------------------------------------------------
(* The refill loop *)

LEMMA Slices ==
    ASSUME NEW S, NEW q \in Seq(S), NEW m \in 0 .. Len(q), NEW x \in 0 .. (Len(q) - m),
           NEW r, r = SubSeq(q, m + 1, Len(q))
    PROVE  /\ SubSeq(q, 1, m) \o SubSeq(r, 1, x) = SubSeq(q, 1, m + x)
           /\ SubSeq(r, x + 1, Len(r)) = SubSeq(q, m + x + 1, Len(q))
<1>1. PICK l : l = Len(q)  OBVIOUS
<1>2. l \in Nat /\ m \in Nat /\ x \in Nat /\ m + x <= l /\ m <= l  BY <1>1
<1>3. r \in Seq(S) /\ Len(r) = l - m /\ \A i \in 1 .. (l - m) : r[i] = q[m + i]
  BY <1>1, Suffix
<1>4. PICK a, b : a = SubSeq(r, 1, x) /\ b = SubSeq(q, m + 1, m + x)  OBVIOUS
<1>5. a = b
  <2>1. x \in 0 .. Len(r)  BY <1>2, <1>3
  <2>2. a \in Seq(S) /\ Len(a) = x /\ \A i \in 1 .. x : a[i] = r[i]
    BY <2>1, <1>3, <1>4, Prefix
  <2>3. \A i \in (m + 1) .. (m + x) : q[i] \in S
    <3>1. \A i \in (m + 1) .. (m + x) : i \in 1 .. Len(q)  BY <1>1, <1>2
    <3> QED  BY <3>1, ElementOfSeq
  <2>4. m + 1 \in Int /\ m + x \in Int  BY <1>2
  <2>5. /\ b \in Seq(S) /\ Len(b) = (IF m + 1 <= m + x THEN (m + x) - (m + 1) + 1 ELSE 0)
        /\ \A i \in 1 .. ((m + x) - (m + 1) + 1) : b[i] = q[(m + 1) + i - 1]
    BY <2>3, <2>4, <1>4, SubSeqProperties
  <2>6. Len(b) = x /\ (m + x) - (m + 1) + 1 = x /\ \A i \in 1 .. x : (m + 1) + i - 1 = m + i
    BY <2>5, <1>2
  <2>7. ASSUME NEW i \in 1 .. Len(a)  PROVE a[i] = b[i]
    <3>1. i \in 1 .. x /\ i \in 1 .. (l - m)  BY <2>2, <1>2
    <3> QED  BY <3>1, <2>2, <2>5, <2>6, <1>3
  <2> QED  BY <2>2, <2>5, <2>6, <2>7, SeqEqual
<1>6. SubSeq(q, 1, m) \o b = SubSeq(q, 1, m + x)
  <2>1. 1 \in 1 .. (Len(q) + 1) /\ m \in (1 - 1) .. Len(q) /\ m + x \in m .. Len(q)
    BY <1>1, <1>2
  <2> QED  BY <2>1, <1>4, ConcatAdjacentSubSeq
<1>7. PICK c, d : c = SubSeq(r, x + 1, Len(r)) /\ d = SubSeq(q, m + x + 1, Len(q))  OBVIOUS
<1>8. c = d
  <2>1. x \in 0 .. Len(r)  BY <1>2, <1>3
  <2>2. /\ c \in Seq(S) /\ Len(c) = Len(r) - x
        /\ \A i \in 1 .. (Len(r) - x) : c[i] = r[x + i]
    BY <2>1, <1>3, <1>7, Suffix, ZenonT(30)
  <2>3. PICK y : y = m + x  OBVIOUS
  <2>4. y \in 0 .. Len(q)  BY <2>3, <1>1, <1>2
  <2>5. /\ d \in Seq(S) /\ Len(d) = Len(q) - y
        /\ \A i \in 1 .. (Len(q) - y) : d[i] = q[y + i]
    BY <2>3, <2>4, <1>7, Suffix
  <2>6. Len(c) = Len(d) /\ Len(c) = l - y /\ l - y = (l - m) - x
    BY <2>2, <2>3, <2>5, <1>1, <1>2, <1>3
  <2>7. ASSUME NEW i \in 1 .. Len(c)  PROVE c[i] = d[i]
    <3>1. i \in 1 .. (Len(r) - x) /\ i \in 1 .. (Len(q) - y)  BY <2>2, <2>5, <2>6
    <3>2. x + i \in 1 .. (l - m) /\ m + (x + i) = y + i  BY <2>3, <2>6, <1>2
    <3>3. c[i] = r[x + i] /\ r[x + i] = q[m + (x + i)] /\ d[i] = q[y + i]
      BY <3>1, <3>2, <2>2, <2>5, <1>3
    <3> QED  BY <3>2, <3>3
  <2> QED  BY <2>2, <2>5, <2>6, <2>7, SeqEqual
<1> QED  BY <1>4, <1>5, <1>6, <1>7, <1>8

(* The state of the loop when m of the bytes q of the ring have been moved *)
(* behind the bytes p of the pool, and tested.                             *)
Loop == [ring : Ring(RING_BYTES), pool : Ring(POOL_BYTES), tests : Tests]

HasMoved(s, m, q, p, h) ==
    /\ s \in Loop
    /\ Held(s.ring, RING_BYTES) = SubSeq(q, m + 1, Len(q))
    /\ Held(s.pool, POOL_BYTES) = p \o SubSeq(q, 1, m)
    /\ s.tests = Fed(h, SubSeq(q, 1, m))

LEMMA RoundIs ==
    ASSUME NEW q \in Seq(Byte), NEW p \in Seq(Byte), NEW h \in Tests,
           NEW m \in 0 .. Len(q), NEW s, HasMoved(s, m, q, p, h)
    PROVE  HasMoved(RefillRound(s),
                    IF POOL_BYTES - 1 - Len(p) - m >= CHUNK
                    THEN m + Smaller(CHUNK, Len(q) - m) ELSE m, q, p, h)
<1>1. PICK R, P, C : R = RING_BYTES /\ P = POOL_BYTES /\ C = CHUNK  OBVIOUS
<1>2. R \in Nat \ {0} /\ P \in Nat \ {0} /\ C \in Nat \ {0}  BY <1>1, PipelineAssumption
<1>3. /\ s.ring \in Ring(R) /\ s.pool \in Ring(P) /\ s.tests \in Tests
      /\ s = [ring |-> s.ring, pool |-> s.pool, tests |-> s.tests]
  BY <1>1 DEF HasMoved, Loop
<1>4. PICK r, a : r = Held(s.ring, R) /\ a = SubSeq(q, 1, m)  OBVIOUS
<1>5. r = SubSeq(q, m + 1, Len(q)) /\ Held(s.pool, P) = p \o a /\ s.tests = Fed(h, a)
  BY <1>1, <1>4 DEF HasMoved
<1>6. Len(q) \in Nat /\ Len(p) \in Nat /\ m \in Nat /\ m <= Len(q)  OBVIOUS
<1>7. r \in Seq(Byte) /\ Len(r) = Len(q) - m  BY <1>5, Suffix
<1>8. a \in Seq(Byte) /\ Len(a) = m  BY <1>4, Prefix
<1>9. Used(s.ring, R) = Len(q) - m  BY <1>2, <1>3, <1>4, <1>7, HeldIs
<1>10. Free(s.pool, P) = P - 1 - Len(p) - m
  <2>1. p \o a \in Seq(Byte) /\ Len(p \o a) = Len(p) + Len(a)  BY <1>8, ConcatProperties
  <2>2. Used(s.pool, P) = Len(p) + m  BY <2>1, <1>2, <1>3, <1>5, <1>8, HeldIs
  <2>3. Free(s.pool, P) = P - 1 - (Len(p) + m)  BY <2>2, <1>2, <1>3, UsedIs
  <2> QED  BY <2>3, <1>2, <1>6
<1>11. PICK x, got : x = Smaller(C, Len(q) - m) /\ got = Oldest(s.ring, R, C)  OBVIOUS
<1>12. x \in 0 .. (Len(q) - m) /\ x <= C /\ x \in Nat
       /\ (x = 0 => Len(q) - m = 0)
  BY <1>2, <1>6, <1>11 DEF Smaller
<1>13. got = SubSeq(r, 1, x) /\ got \in Seq(Byte) /\ Len(got) = x
  BY <1>2, <1>3, <1>4, <1>9, <1>11, OldestIs
<1>14. CASE Free(s.pool, P) >= C /\ got # << >>
  <2>1. RefillRound(s) = [ring |-> Without(s.ring, R, C), tests |-> Fed(s.tests, got),
                          pool |-> With(s.pool, P, got)]
    BY <1>1, <1>11, <1>14 DEF RefillRound
  <2>2. Without(s.ring, R, C) \in Ring(R)
        /\ Held(Without(s.ring, R, C), R) = SubSeq(r, x + 1, Len(r))
    <3>1. PICK w : w = Without(s.ring, R, C)  OBVIOUS
    <3>2. w \in Ring(R)
          /\ Held(w, R) = SubSeq(Held(s.ring, R), Smaller(C, Used(s.ring, R)) + 1,
                                 Len(Held(s.ring, R)))
      BY <3>1, <1>2, <1>3, WithoutIs
    <3> QED  BY <3>1, <3>2, <1>4, <1>9, <1>11
  <2>3. Len(got) <= Free(s.pool, P)
    <3>1. PICK y, z : y = Len(got) /\ z = Free(s.pool, P)  OBVIOUS
    <3>2. y = x /\ z >= C  BY <3>1, <1>13, <1>14
    <3>3. z \in Int  BY <3>1, <1>2, <1>3, UsedIs
    <3>4. y <= z  BY <3>2, <3>3, <1>2, <1>12
    <3> QED  BY <3>1, <3>4
  <2>4. With(s.pool, P, got) \in Ring(P) /\ Held(With(s.pool, P, got), P) = (p \o a) \o got
    <3>1. got \in Seq(Byte) /\ s.pool \in Ring(P)  BY <1>3, <1>13
    <3>2. /\ With(s.pool, P, got) \in Ring(P)
          /\ Held(With(s.pool, P, got), P) = Held(s.pool, P) \o got
      BY <2>3, <3>1, <1>2, WithIs
    <3> QED  BY <3>2, <1>5
  <2>13. a \in Seq(Byte) /\ got \in Seq(Byte) /\ p \in Seq(Byte)  BY <1>8, <1>13
  <2>5. Fed(s.tests, got) = Fed(h, a \o got)
    <3>1. Fed(h, a \o got) = Fed(Fed(h, a), got)  BY <2>13, FedConcat
    <3>2. s.tests = Fed(h, a)  BY <1>5
    <3> QED  BY <3>1, <3>2
  <2>6. a \o got = SubSeq(q, 1, m + x) /\ SubSeq(r, x + 1, Len(r)) = SubSeq(q, m + x + 1, Len(q))
    BY <1>4, <1>5, <1>12, <1>13, Slices
  <2>7. (p \o a) \o got = p \o (a \o got)  BY <2>13, ConcatAssociative, SMTT(30)
  <2>8. Fed(s.tests, got) \in Tests  BY <1>3, <1>13, FedType
  <2>9. PICK u : u = RefillRound(s)  OBVIOUS
  <2>10. u.ring = Without(s.ring, R, C) /\ u.pool = With(s.pool, P, got)
         /\ u.tests = Fed(s.tests, got)
    BY <2>1, <2>9
  <2>11. u \in Loop  BY <2>1, <2>2, <2>4, <2>8, <2>9, <1>1 DEF Loop
  <2>12. HasMoved(u, m + x, q, p, h)
    BY <2>2, <2>4, <2>5, <2>6, <2>7, <2>10, <2>11, <1>1 DEF HasMoved
  <2> QED  BY <2>9, <2>12, <1>1, <1>10, <1>11, <1>14
<1>15. CASE ~ (Free(s.pool, P) >= C /\ got # << >>)
  <2>1. RefillRound(s) = s  BY <1>1, <1>11, <1>15 DEF RefillRound
  <2>2. CASE ~ (Free(s.pool, P) >= C)  BY <2>1, <2>2, <1>1, <1>10
  <2>3. CASE got = << >>
    <3>1. Len(got) = 0  BY <2>3
    <3>2. x = 0 /\ m + x = m  BY <3>1, <1>6, <1>13
    <3> QED  BY <2>1, <3>2, <1>1, <1>11
  <2> QED  BY <2>2, <2>3, <1>15
<1> QED  BY <1>14, <1>15

(* The recursive function of RefillPool is well defined. *)
Turns(g, s, n) == g = [i \in 0 .. n |-> IF i = 0 THEN s ELSE RefillRound(g[i - 1])]

LEMMA TurnsExist ==
    ASSUME NEW s, NEW n \in Nat
    PROVE  \E g : Turns(g, s, n)
<1> DEFINE S == {k \in Nat : \E g : Turns(g, s, k)}
<1>1. 0 \in S
  <2>1. Turns([i \in 0 .. 0 |-> s], s, 0)  BY DEF Turns
  <2> QED  BY <2>1
<1>2. ASSUME NEW k \in Nat, k \in S  PROVE k + 1 \in S
  <2>1. PICK g : Turns(g, s, k)  BY <1>2
  <2>2. PICK f : f = [i \in 0 .. (k + 1) |-> IF i <= k THEN g[i] ELSE RefillRound(g[k])]
    OBVIOUS
  <2>3. \A i \in 0 .. k : g[i] = IF i = 0 THEN s ELSE RefillRound(g[i - 1])
    BY <2>1 DEF Turns
  <2>4. ASSUME NEW i \in 0 .. (k + 1)
        PROVE  f[i] = IF i = 0 THEN s ELSE RefillRound(f[i - 1])
    <3>1. CASE i = 0  BY <2>2, <2>3, <3>1
    <3>2. CASE i \in 1 .. k
      <4>1. i \in 0 .. k /\ i <= k /\ i - 1 \in 0 .. (k + 1) /\ i - 1 <= k /\ i # 0  BY <3>2
      <4>2. g[i] = RefillRound(g[i - 1])  BY <2>3, <4>1
      <4>3. f[i] = g[i] /\ f[i - 1] = g[i - 1]  BY <2>2, <4>1
      <4> QED  BY <4>1, <4>2, <4>3
    <3>3. CASE i = k + 1
      <4>1. ~ (i <= k) /\ i - 1 = k /\ k \in 0 .. (k + 1) /\ k <= k /\ i # 0  BY <3>3
      <4>2. f[i] = RefillRound(g[k]) /\ f[k] = g[k]  BY <2>2, <4>1
      <4> QED  BY <3>3, <4>1, <4>2
    <3> QED  BY <3>1, <3>2, <3>3
  <2>5. PICK e : e = [i \in 0 .. (k + 1) |-> IF i = 0 THEN s ELSE RefillRound(f[i - 1])]
    OBVIOUS
  <2>6. DOMAIN f = DOMAIN e /\ \A i \in DOMAIN f : f[i] = e[i]
    <3>1. DOMAIN f = 0 .. (k + 1) /\ DOMAIN e = 0 .. (k + 1)  BY <2>2, <2>5
    <3>2. \A i \in 0 .. (k + 1) : e[i] = IF i = 0 THEN s ELSE RefillRound(f[i - 1])
      BY <2>5
    <3> QED  BY <3>1, <3>2, <2>4
  <2>7. f = [i \in DOMAIN f |-> f[i]] /\ e = [i \in DOMAIN e |-> e[i]]  BY <2>2, <2>5
  <2>8. f = e  BY <2>6, <2>7
  <2>9. Turns(f, s, k + 1)  BY <2>5, <2>8 DEF Turns
  <2>10. k + 1 \in Nat  OBVIOUS
  <2> QED  BY <2>9, <2>10
<1>3. \A k \in Nat : k \in S
  <2> HIDE DEF S
  <2> QED  BY <1>1, <1>2, SetInduction
<1> QED  BY <1>3

(* Bytes there are rounds for: whole chunks, while the pool has room. *)
LEMMA WholeChunks ==
    ASSUME NEW r \in Nat, NEW c \in Nat \ {0}
    PROVE  r \div c \in Nat /\ r \div c <= r /\ c * (r \div c) <= r /\ r < c * (r \div c) + c
OBVIOUS

LEMMA Multiples ==
    ASSUME NEW c \in Nat \ {0}, NEW k \in Nat, NEW n \in Nat
    PROVE  /\ c * k \in Nat /\ c * (k + 1) = c * k + c
           /\ k <= n => c * k <= c * n
OBVIOUS

MovedBy(i, q, p) ==
    Smaller(Len(q), CHUNK * Smaller(i, (POOL_BYTES - 1 - Len(p)) \div CHUNK))

(* What one more round makes of the bytes moved, with room for x + c bytes *)
(* or for less.                                                            *)
LEMMA OneMore ==
    ASSUME NEW r \in Nat, NEW c \in Nat \ {0}, NEW l \in Nat, NEW x \in Nat, NEW m,
           m = Smaller(l, x), NEW w, w = IF r - m >= c THEN m + Smaller(c, l - m) ELSE m
    PROVE  /\ x + c <= r => w = Smaller(l, x + c)
           /\ r < x + c  => w = Smaller(l, x)
<1>1. CASE l < x
  <2>1. m = l /\ l - m = 0  BY <1>1 DEF Smaller
  <2>2. Smaller(c, l - m) = 0 /\ Smaller(l, x + c) = l /\ Smaller(l, x) = l
    BY <1>1, <2>1 DEF Smaller
  <2> QED  BY <2>1, <2>2
<1>2. CASE ~ (l < x)
  <2>1. m = x  BY <1>2 DEF Smaller
  <2>2. x + Smaller(c, l - x) = Smaller(l, x + c) /\ Smaller(l, x) = x
    BY <1>2 DEF Smaller
  <2>3. PICK u : u = x + Smaller(c, l - x)  OBVIOUS
  <2>4. x + c <= r => r - x >= c  OBVIOUS
  <2>5. r < x + c => ~ (r - x >= c)  OBVIOUS
  <2> QED  BY <2>1, <2>2, <2>4, <2>5
<1> QED  BY <1>1, <1>2

LEMMA TurnsMove ==
    ASSUME NEW q \in Seq(Byte), NEW p \in Seq(Byte), Len(p) <= POOL_BYTES - 1, NEW h \in Tests,
           NEW s, HasMoved(s, 0, q, p, h), NEW n \in Nat, NEW g, Turns(g, s, n)
    PROVE  \A i \in 0 .. n : HasMoved(g[i], MovedBy(i, q, p), q, p, h)
<1>1. PICK r, c, l : r = POOL_BYTES - 1 - Len(p) /\ c = CHUNK /\ l = Len(q)  OBVIOUS
<1>2. r \in Nat /\ c \in Nat \ {0} /\ l \in Nat
  <2>1. Len(p) \in Nat /\ POOL_BYTES \in Nat \ {0}  BY PipelineAssumption
  <2>2. r \in Nat  BY <2>1, <1>1
  <2> QED  BY <2>2, <1>1, PipelineAssumption
<1>3. PICK k : k = r \div c  OBVIOUS
<1>4. k \in Nat /\ c * k <= r /\ r < c * k + c /\ c * k \in Nat
  BY <1>2, <1>3, WholeChunks, Multiples
<1>5. \A i : MovedBy(i, q, p) = Smaller(l, c * Smaller(i, k))  BY <1>1, <1>3 DEF MovedBy
<1>6. \A i \in 0 .. n : g[i] = IF i = 0 THEN s ELSE RefillRound(g[i - 1])  BY DEF Turns
<1> DEFINE S == {i \in Nat : i <= n => HasMoved(g[i], MovedBy(i, q, p), q, p, h)}
<1>7. 0 \in S
  <2>1. g[0] = s  BY <1>6
  <2>2. Smaller(0, k) = 0 /\ c * 0 = 0 /\ Smaller(l, 0) = 0  BY <1>2, <1>4 DEF Smaller
  <2>3. MovedBy(0, q, p) = 0  BY <2>2, <1>5
  <2> QED  BY <2>1, <2>3
<1>8. ASSUME NEW i \in Nat, i \in S  PROVE i + 1 \in S
  <2> SUFFICES ASSUME i + 1 <= n  PROVE HasMoved(g[i + 1], MovedBy(i + 1, q, p), q, p, h)
    OBVIOUS
  <2>1. i <= n /\ i + 1 \in 0 .. n /\ i + 1 # 0 /\ (i + 1) - 1 = i  OBVIOUS
  <2>2. g[i + 1] = RefillRound(g[i])  BY <2>1, <1>6
  <2>3. PICK x, y, m : /\ x = c * Smaller(i, k) /\ y = c * Smaller(i + 1, k)
                       /\ m = Smaller(l, x)
    OBVIOUS
  <2>4. x \in Nat /\ y \in Nat /\ m \in 0 .. l
    <3>1. Smaller(i, k) \in Nat /\ Smaller(i + 1, k) \in Nat  BY <1>4 DEF Smaller
    <3>2. x \in Nat /\ y \in Nat  BY <3>1, <2>3, <1>2, Multiples
    <3> QED  BY <3>2, <2>3, <1>2 DEF Smaller
  <2>5. HasMoved(g[i], m, q, p, h)  BY <2>1, <2>3, <1>5, <1>8
  <2>6. PICK w : w = IF r - m >= c THEN m + Smaller(c, l - m) ELSE m  OBVIOUS
  <2>7. HasMoved(g[i + 1], w, q, p, h)
    <3>1. m \in 0 .. Len(q)  BY <2>4, <1>1
    <3> QED  BY <3>1, <2>2, <2>5, <2>6, <1>1, RoundIs
  <2>10. /\ x + c <= r => w = Smaller(l, x + c)
         /\ r < x + c  => w = Smaller(l, x)
    <3>1. m = Smaller(l, x)  BY <2>3
    <3> QED  BY <3>1, <2>4, <2>6, <1>2, OneMore
  <2>8. w = Smaller(l, y)
    <3>1. CASE i < k
      <4>1. Smaller(i, k) = i /\ Smaller(i + 1, k) = i + 1  BY <3>1, <1>4 DEF Smaller
      <4>2. c * (i + 1) = c * i + c  BY <1>2, Multiples
      <4>3. c * (i + 1) <= c * k
        <5>1. i + 1 \in Nat /\ i + 1 <= k  BY <3>1, <1>4
        <5> QED  BY <5>1, <1>2, <1>4, Multiples
      <4>4. PICK z : z = c * k  OBVIOUS
      <4>5. y = x + c /\ y <= z /\ z <= r  BY <4>1, <4>2, <4>3, <4>4, <2>3, <1>4
      <4>6. z \in Nat  BY <4>4, <1>4
      <4>7. x + c <= r  BY <4>5, <4>6, <2>4, <1>2
      <4> QED  BY <4>5, <4>7, <2>10
    <3>2. CASE ~ (i < k)
      <4>1. Smaller(i, k) = k /\ Smaller(i + 1, k) = k  BY <3>2, <1>4 DEF Smaller
      <4>2. y = x /\ r < x + c  BY <4>1, <2>3, <1>4
      <4> QED  BY <4>2, <2>10
    <3> QED  BY <3>1, <3>2
  <2>9. MovedBy(i + 1, q, p) = Smaller(l, y)  BY <2>3, <1>5
  <2> QED  BY <2>7, <2>8, <2>9
<1>9. \A i \in Nat : i \in S
  <2> HIDE DEF S
  <2> QED  BY <1>7, <1>8, SetInduction
<1> QED  BY <1>9

(* _refill_pool: the loop ends when the ring is empty, or the pool has no  *)
(* room for another chunk.                                                 *)
Verdict   == [health |-> health, warm |-> warm, run |-> stuckRun]
RingBytes == Held(trngRing, RING_BYTES)
PoolBytes == Held(pool, POOL_BYTES)

MovedOf(q, p) == Smaller(Len(q), CHUNK * ((POOL_BYTES - 1 - Len(p)) \div CHUNK))

LEMMA RefillIs ==
    ASSUME NEW q, q = RingBytes, NEW p, p = PoolBytes, NEW h \in Tests, h = Verdict,
           trngRing \in Ring(RING_BYTES), pool \in Ring(POOL_BYTES),
           NEW m, m = MovedOf(q, p),
           RefillPool
    PROVE  /\ m \in 0 .. Len(q)
           /\ trngRing' \in Ring(RING_BYTES) /\ RingBytes' = SubSeq(q, m + 1, Len(q))
           /\ pool' \in Ring(POOL_BYTES) /\ PoolBytes' = p \o SubSeq(q, 1, m)
           /\ Verdict' = Fed(h, SubSeq(q, 1, m))
           /\ UNCHANGED <<initialised, paused, source>>
<1>1. PICK s : s = [ring |-> trngRing, pool |-> pool, tests |-> h]  OBVIOUS
<1>2. RING_BYTES \in Nat \ {0} /\ POOL_BYTES \in Nat \ {0} /\ CHUNK \in Nat \ {0}
  BY PipelineAssumption
<1>3. q \in Seq(Byte) /\ p \in Seq(Byte) /\ Len(p) <= POOL_BYTES - 1
  <2>1. q \in Seq(Byte)  BY <1>2, HeldIs DEF RingBytes
  <2>2. p \in Seq(Byte) /\ Len(p) = Used(pool, POOL_BYTES)  BY <1>2, HeldIs DEF PoolBytes
  <2>3. Used(pool, POOL_BYTES) <= POOL_BYTES - 1  BY <1>2, UsedIs
  <2> QED  BY <2>1, <2>2, <2>3
<1>4. HasMoved(s, 0, q, p, h)
  <2>1. SubSeq(q, 1, Len(q)) = q  BY <1>3, SubSeqFull
  <2>2. SubSeq(q, 1, 0) = << >>  BY <1>3
  <2>3. p \o << >> = p  BY <1>3, ConcatEmptySeq
  <2>4. s \in Loop  BY <1>1 DEF Loop
  <2>5. s.ring = trngRing /\ s.pool = pool /\ s.tests = h  BY <1>1
  <2>6. Fed(h, << >>) = h  BY FedEmpty
  <2>7. Held(s.ring, RING_BYTES) = q /\ Held(s.pool, POOL_BYTES) = p
    BY <2>5 DEF RingBytes, PoolBytes
  <2>8. SubSeq(q, 0 + 1, Len(q)) = q  BY <2>1
  <2>9. Held(s.pool, POOL_BYTES) = p \o SubSeq(q, 1, 0)  BY <2>2, <2>3, <2>7
  <2>10. s.tests = Fed(h, SubSeq(q, 1, 0))  BY <2>2, <2>5, <2>6
  <2> QED  BY <2>4, <2>7, <2>8, <2>9, <2>10 DEF HasMoved
<1>5. PICK g : g = CHOOSE after : Turns(after, s, Rounds)  OBVIOUS
<1>6. Rounds \in Nat  BY <1>2 DEF Rounds
<1>7. Turns(g, s, Rounds)  BY <1>5, <1>6, TurnsExist
<1>8. /\ trngRing' = g[Rounds].ring /\ pool' = g[Rounds].pool
      /\ health' = g[Rounds].tests.health /\ warm' = g[Rounds].tests.warm
      /\ stuckRun' = g[Rounds].tests.run
      /\ UNCHANGED <<initialised, paused, source>>
  BY <1>1, <1>5 DEF RefillPool, Turns, Verdict
<1>9. MovedBy(Rounds, q, p) = m
  <2>1. PICK r : r = POOL_BYTES - 1 - Len(p)  OBVIOUS
  <2>2. r \in Nat /\ r <= POOL_BYTES  BY <2>1, <1>2, <1>3
  <2>3. PICK k : k = r \div CHUNK  OBVIOUS
  <2>4. k \in Nat /\ k <= r  BY <2>2, <2>3, <1>2, WholeChunks
  <2>5. Smaller(Rounds, k) = k  BY <2>2, <2>4, <1>2 DEF Smaller, Rounds
  <2> QED  BY <2>1, <2>3, <2>5 DEF MovedBy, MovedOf
<1>10. HasMoved(g[Rounds], m, q, p, h)
  <2>1. \A i \in 0 .. Rounds : HasMoved(g[i], MovedBy(i, q, p), q, p, h)
    BY <1>3, <1>4, <1>6, <1>7, TurnsMove
  <2>2. Rounds \in 0 .. Rounds  BY <1>6
  <2> QED  BY <2>1, <2>2, <1>9
<1>11. m \in 0 .. Len(q)
  <2>1. PICK r : r = POOL_BYTES - 1 - Len(p)  OBVIOUS
  <2>2. r \in Nat  BY <2>1, <1>2, <1>3
  <2>3. PICK k : k = CHUNK * (r \div CHUNK)  OBVIOUS
  <2>4. k \in Nat  BY <2>2, <2>3, <1>2, WholeChunks, Multiples
  <2>5. m = Smaller(Len(q), k)  BY <2>1, <2>3 DEF MovedOf
  <2>6. Len(q) \in Nat  BY <1>3
  <2> QED  BY <2>4, <2>5, <2>6 DEF Smaller
<1>12. PICK e : e = g[Rounds]  OBVIOUS
<1>13. /\ e \in Loop /\ Held(e.ring, RING_BYTES) = SubSeq(q, m + 1, Len(q))
       /\ Held(e.pool, POOL_BYTES) = p \o SubSeq(q, 1, m)
       /\ e.tests = Fed(h, SubSeq(q, 1, m))
  BY <1>10, <1>12 DEF HasMoved
<1>14. e.ring \in Ring(RING_BYTES) /\ e.pool \in Ring(POOL_BYTES) /\ e.tests \in Tests
  BY <1>13 DEF Loop
<1>15. Verdict' = e.tests
  <2>1. e.tests = [health |-> e.tests.health, warm |-> e.tests.warm, run |-> e.tests.run]
    BY <1>14, TestsShape
  <2> QED  BY <2>1, <1>8, <1>12 DEF Verdict
<1>16. RingBytes' = Held(e.ring, RING_BYTES) /\ PoolBytes' = Held(e.pool, POOL_BYTES)
  BY <1>8, <1>12 DEF RingBytes, PoolBytes
<1> QED  BY <1>8, <1>11, <1>12, <1>13, <1>14, <1>15, <1>16

--------------------------------------------------------------------------------
(* What the pool holds has passed the tests *)

(* No run in t fails the test, and none that t ends in is longer than n.   *)
Clean(t, n) == ~ HasRun(t) /\ \E z \in 0 .. n : EndsIn(t, z)

LEMMA EmptyIsClean == Clean(<< >>, 0)
<1>1. RCT_BYTES \in Nat \ {0}  BY PipelineAssumption
<1>2. PICK e : e = << >>  OBVIOUS
<1>3. Len(e) = 0  BY <1>2
<1>4. ~ HasRun(e)  BY <1>1, <1>3 DEF HasRun
<1>5. EndsIn(e, 0)  BY <1>3 DEF EndsIn, AllStuck
<1>6. 0 \in 0 .. 0  OBVIOUS
<1> QED  BY <1>2, <1>4, <1>5, <1>6 DEF Clean

(* Bytes that do not fail the tests keep the pool clean. *)
LEMMA FedClean ==
    ASSUME NEW p \in Seq(Byte), NEW h \in Tests, h.health # "fail" => Clean(p, h.run),
           NEW s \in Seq(Byte), Fed(h, s).health # "fail"
    PROVE  Clean(p \o s, Fed(h, s).run)
<1> DEFINE Q == {u \in Seq(Byte) : Fed(h, u).health # "fail" => Clean(p \o u, Fed(h, u).run)}
<1>1. << >> \in Q
  <2>1. Fed(h, << >>) = h  BY FedEmpty
  <2>2. p \o << >> = p /\ << >> \in Seq(Byte)  BY ConcatEmptySeq
  <2> QED  BY <2>1, <2>2
<1>2. ASSUME NEW u \in Seq(Byte), NEW b \in Byte, u \in Q  PROVE Append(u, b) \in Q
  <2>1. Append(u, b) \in Seq(Byte)  BY AppendIs
  <2>2. Fed(h, Append(u, b)) = FeedByte(Fed(h, u), b)  BY FedAppend
  <2>3. PICK d, e : d = Fed(h, u) /\ e = FeedByte(d, b)  OBVIOUS
  <2>4. d \in Tests  BY <2>3, FedType
  <2> SUFFICES ASSUME e.health # "fail"  PROVE Clean(p \o Append(u, b), e.run)
    BY <2>1, <2>2, <2>3
  <2>5. d.health # "fail" /\ ~ (b = "stuck" /\ d.run + 1 >= RCT_BYTES)
        /\ e.run = IF b = "stuck" THEN d.run + 1 ELSE 0
    BY <2>3, <2>4, FeedByteIs, SMTT(30)
  <2>6. d.run \in Nat /\ d.run < RCT_BYTES /\ RCT_BYTES \in Nat \ {0}
    <3>1. d.run \in 0 .. RCT_BYTES /\ d.run < RCT_BYTES  BY <2>4, <2>5, TestsShape
    <3>2. RCT_BYTES \in Nat \ {0}  BY PipelineAssumption
    <3> QED  BY <3>1, <3>2
  <2>7. Clean(p \o u, d.run)  BY <2>3, <2>5, <1>2
  <2>8. PICK t : t = p \o u  OBVIOUS
  <2>9. p \o Append(u, b) = Append(t, b) /\ t \in Seq(Byte)  BY <2>8, ConcatAppend
  <2>10. ~ HasRun(t) /\ \E z \in 0 .. d.run : EndsIn(t, z)  BY <2>7, <2>8 DEF Clean
  <2>11. PICK z \in 0 .. d.run : EndsIn(t, z)  BY <2>10
  <2>12. PICK n : n = d.run  OBVIOUS
  <2>13. z \in 0 .. n /\ n < RCT_BYTES /\ n \in Nat /\ z < RCT_BYTES  BY <2>6, <2>11, <2>12
  <2>14. ~ HasRun(Append(t, b))
    <3>1. HasRun(Append(t, b)) <=> b = "stuck" /\ z + 1 >= RCT_BYTES
      BY <2>9, <2>10, <2>11, <2>13, RunCompleted
    <3> QED  BY <3>1, <2>5, <2>6, <2>12, <2>13
  <2>15. PICK y : y = IF b = "stuck" THEN z + 1 ELSE 0  OBVIOUS
  <2>16. EndsIn(Append(t, b), y)  BY <2>9, <2>11, <2>15, RunGoesOn
  <2>17. y \in 0 .. e.run
    <3>1. e.run = IF b = "stuck" THEN n + 1 ELSE 0  BY <2>5, <2>12
    <3> QED  BY <3>1, <2>13, <2>15
  <2> QED  BY <2>9, <2>14, <2>16, <2>17 DEF Clean
<1>3. \A u \in Seq(Byte) : u \in Q
  <2> HIDE DEF Q
  <2> QED  BY <1>1, <1>2, SeqInduction
<1> QED  BY <1>3

(* A block that is taken leaves the rest clean. *)
LEMMA RestIsClean ==
    ASSUME NEW t \in Seq(Byte), NEW n \in Nat, Clean(t, n), NEW k \in 0 .. Len(t)
    PROVE  Clean(SubSeq(t, k + 1, Len(t)), n)
<1>1. PICK u, l : u = SubSeq(t, k + 1, Len(t)) /\ l = Len(t)  OBVIOUS
<1>2. l \in Nat /\ k \in 0 .. l /\ Len(u) = l - k /\ \A i \in 1 .. (l - k) : u[i] = t[k + i]
  BY <1>1, Suffix
<1>3. RCT_BYTES \in Nat \ {0}  BY PipelineAssumption
<1>4. ~ HasRun(u)
  <2> SUFFICES ASSUME HasRun(u)  PROVE FALSE  OBVIOUS
  <2>1. PICK i \in 1 .. (Len(u) - RCT_BYTES + 1) : AllStuck(u, i, RCT_BYTES)  BY DEF HasRun
  <2>2. ASSUME NEW j \in (k + i) .. (k + i + RCT_BYTES - 1)  PROVE t[j] = "stuck"
    <3>1. PICK x : x = j - k  OBVIOUS
    <3>2. x \in i .. (i + RCT_BYTES - 1) /\ x \in 1 .. (l - k) /\ j = k + x
      BY <3>1, <2>1, <1>2, <1>3
    <3>3. u[x] = "stuck"  BY <3>2, <2>1 DEF AllStuck
    <3> QED  BY <3>2, <3>3, <1>2
  <2>3. AllStuck(t, k + i, RCT_BYTES)  BY <2>2 DEF AllStuck
  <2>4. k + i \in 1 .. (Len(t) - RCT_BYTES + 1)  BY <2>1, <1>1, <1>2, <1>3
  <2> QED  BY <2>3, <2>4 DEF HasRun, Clean
<1>5. PICK z \in 0 .. n : EndsIn(t, z)  BY DEF Clean
<1>6. /\ z \in 0 .. l /\ \A j \in (l - z + 1) .. (l - z + 1 + z - 1) : t[j] = "stuck"
      /\ z < l => t[l - z] = "live"
  BY <1>1, <1>5 DEF EndsIn, AllStuck
<1>7. PICK y : y = Smaller(z, l - k)  OBVIOUS
<1>8. y \in 0 .. (l - k) /\ y \in 0 .. n /\ y <= z /\ (y < l - k => y = z)
  BY <1>2, <1>5, <1>6, <1>7 DEF Smaller
<1>9. ASSUME NEW j \in (l - k - y + 1) .. (l - k - y + 1 + y - 1)  PROVE u[j] = "stuck"
  <2>1. j \in 1 .. (l - k) /\ k + j \in (l - z + 1) .. (l - z + 1 + z - 1)
    BY <1>2, <1>6, <1>8
  <2> QED  BY <2>1, <1>2, <1>6
<1>10. ASSUME y < l - k  PROVE u[l - k - y] = "live"
  <2>1. y = z /\ l - k - y \in 1 .. (l - k) /\ k + (l - k - y) = l - z /\ z < l
    BY <1>2, <1>6, <1>8, <1>10
  <2> QED  BY <2>1, <1>2, <1>6
<1>11. EndsIn(u, y)  BY <1>2, <1>8, <1>9, <1>10 DEF EndsIn, AllStuck
<1> QED  BY <1>1, <1>4, <1>8, <1>11 DEF Clean

(* A block of it is not of stuck bytes only. *)
LEMMA BlockIsLive ==
    ASSUME NEW t \in Seq(Byte), NEW n, Clean(t, n), RAW_BYTES <= Len(t)
    PROVE  \E j \in 1 .. RAW_BYTES : SubSeq(t, 1, RAW_BYTES)[j] = "live"
<1>1. PICK l, u : l = Len(t) /\ u = SubSeq(t, 1, RAW_BYTES)  OBVIOUS
<1>2. RCT_BYTES \in Nat \ {0} /\ RAW_BYTES \in Nat /\ RCT_BYTES <= RAW_BYTES
  BY PipelineAssumption
<1>3. l \in Nat /\ RAW_BYTES \in 0 .. Len(t)  BY <1>1, <1>2
<1>4. \A j \in 1 .. RAW_BYTES : u[j] = t[j] /\ t[j] \in Byte
  <2>1. \A j \in 1 .. RAW_BYTES : u[j] = t[j]  BY <1>1, <1>3, Prefix
  <2>2. \A j \in 1 .. Len(t) : t[j] \in Byte  OBVIOUS
  <2> QED  BY <2>1, <2>2, <1>3
<1> SUFFICES ASSUME \A j \in 1 .. RAW_BYTES : u[j] # "live"  PROVE FALSE
  BY <1>1
<1>5. \A j \in 1 .. RAW_BYTES : t[j] = "stuck"  BY <1>4 DEF Byte
<1>6. AllStuck(t, 1, RCT_BYTES)  BY <1>2, <1>5 DEF AllStuck
<1>7. 1 \in 1 .. (Len(t) - RCT_BYTES + 1)  BY <1>1, <1>2, <1>3
<1> QED  BY <1>6, <1>7 DEF HasRun, Clean

--------------------------------------------------------------------------------
(* The inductive invariant: the data of the two files, where a call is, and *)
(* what it has written so far.                                              *)
Data ==
    /\ trngRing \in Ring(RING_BYTES) /\ pool \in Ring(POOL_BYTES) /\ Verdict \in Tests
    /\ initialised \in BOOLEAN /\ paused \in BOOLEAN /\ source \in Byte
    /\ health # "fail" => Clean(PoolBytes, stuckRun)
    /\ ~ initialised => RingBytes = << >> /\ PoolBytes = << >>

CallState ==
    /\ pc \in Labels /\ asked \in Nat /\ out \in Seq(Seq(Byte)) /\ Len(out) <= asked
    /\ result \in {"OK", "NO_ENTROPY", "HEALTH_FAIL", "HEALTH_WARMING"}
    /\ pc \in {"refill", "pumped", "verdict"} => Len(out) < asked
    /\ pc = "verdict" => Enough
    /\ Len(out) < asked => WholeDigests

IInv == Data /\ CallState /\ AnswerIsGood

LEMMA Sizes ==
    /\ RING_BYTES \in Nat \ {0} /\ POOL_BYTES \in Nat \ {0} /\ CHUNK \in Nat \ {0}
    /\ RCT_BYTES \in Nat \ {0} /\ STARTUP_BYTES \in Nat \ {0} /\ RAW_BYTES \in Nat
    /\ RCT_BYTES <= RAW_BYTES /\ OUT_BYTES \in Nat \ {0}
BY PipelineAssumption

(* The two queues of a state, and the room in the ring. *)
LEMMA QueuesAre ==
    ASSUME Data
    PROVE  /\ RingBytes \in Seq(Byte) /\ Len(RingBytes) = Used(trngRing, RING_BYTES)
           /\ PoolBytes \in Seq(Byte) /\ Len(PoolBytes) = Used(pool, POOL_BYTES)
           /\ Free(trngRing, RING_BYTES) = RING_BYTES - 1 - Len(RingBytes)
           /\ Enough <=> RAW_BYTES <= Len(PoolBytes)
<1>1. trngRing \in Ring(RING_BYTES) /\ pool \in Ring(POOL_BYTES)  BY DEF Data
<1>2. RingBytes \in Seq(Byte) /\ Len(RingBytes) = Used(trngRing, RING_BYTES)
  BY <1>1, Sizes, HeldIs DEF RingBytes
<1>3. PoolBytes \in Seq(Byte) /\ Len(PoolBytes) = Used(pool, POOL_BYTES)
  BY <1>1, Sizes, HeldIs DEF PoolBytes
<1>4. Free(trngRing, RING_BYTES) = RING_BYTES - 1 - Used(trngRing, RING_BYTES)
  BY <1>1, Sizes, UsedIs
<1>5. Used(pool, POOL_BYTES) \in Nat  BY <1>1, Sizes, UsedIs
<1>6. Enough <=> RAW_BYTES <= Used(pool, POOL_BYTES)  BY <1>5, Sizes DEF Enough
<1> QED  BY <1>2, <1>3, <1>4, <1>6

(* A ring without a byte in it. *)
LEMMA EmptyRing ==
    ASSUME NEW n \in Nat \ {0}, NEW f \in Ring(n), f.head = f.tail
    PROVE  Held(f, n) = << >>
<1>1. PICK h, t : h = f.head /\ t = f.tail  OBVIOUS
<1>2. h \in Int /\ t \in Int /\ h = t  BY <1>1, RingShape
<1>3. Used(f, n) = IF h >= t THEN h - t ELSE h - t + n  BY <1>1, UsedIs
<1>4. Used(f, n) = 0  BY <1>2, <1>3
<1>5. PICK s : s = Held(f, n)  OBVIOUS
<1>6. s \in Seq(Byte) /\ Len(s) = 0  BY <1>4, <1>5, HeldIs
<1>7. s = << >>  BY <1>6
<1> QED  BY <1>5, <1>7

LEMMA StartIsEmpty ==
    ASSUME NEW n \in Nat \ {0}
    PROVE  Empty(n) \in Ring(n) /\ Held(Empty(n), n) = << >>
<1>1. Empty(n) \in Ring(n)  BY DEF Empty, Ring, Byte
<1>2. Empty(n).head = Empty(n).tail  BY DEF Empty
<1> QED  BY <1>1, <1>2, EmptyRing

LEMMA FreshTests == [health |-> "warming", warm |-> 0, run |-> 0] \in Tests
<1>1. RCT_BYTES \in Nat \ {0} /\ STARTUP_BYTES \in Nat \ {0}  BY Sizes
<1>2. 0 \in 0 .. STARTUP_BYTES /\ 0 \in 0 .. RCT_BYTES /\ 0 < RCT_BYTES /\ 0 # STARTUP_BYTES
  BY <1>1
<1> QED  BY <1>2 DEF Tests

LEMMA DataInit == Init => Data
<1> SUFFICES ASSUME Init  PROVE Data  OBVIOUS
<1>1. trngRing \in Ring(RING_BYTES) /\ RingBytes = << >>
  BY Sizes, StartIsEmpty DEF Init, RingBytes
<1>2. pool \in Ring(POOL_BYTES) /\ PoolBytes = << >>
  BY Sizes, StartIsEmpty DEF Init, PoolBytes
<1>3. Verdict \in Tests  BY FreshTests DEF Init, Verdict
<1>4. Clean(PoolBytes, stuckRun)  BY <1>2, EmptyIsClean DEF Init
<1>5. initialised \in BOOLEAN /\ paused \in BOOLEAN /\ source \in Byte  BY DEF Init, Byte
<1> QED  BY <1>1, <1>2, <1>3, <1>4, <1>5 DEF Data

(* trng_task: a chunk goes behind what the ring holds, if it has room. *)
Pulled(b, k) == [i \in 1 .. CHUNK |-> IF i <= k THEN b ELSE "stuck"]

LEMMA TrngTaskIs ==
    ASSUME Data, TrngTask
    PROVE  /\ trngRing' \in Ring(RING_BYTES) /\ source' \in Byte
           /\ UNCHANGED <<pool, initialised, paused, health, warm, stuckRun>>
           /\ IF initialised /\ ~ paused /\ Free(trngRing, RING_BYTES) >= CHUNK
              THEN \E k \in 0 .. CHUNK :
                     /\ RingBytes' = RingBytes \o Pulled(source, k)
                     /\ k # CHUNK => source = "live"
                     /\ source' = IF k < CHUNK THEN "stuck" ELSE source
              ELSE RingBytes' = RingBytes /\ source' = source
<1>1. trngRing \in Ring(RING_BYTES) /\ source \in Byte  BY DEF Data
<1>2. UNCHANGED <<pool, initialised, paused, health, warm, stuckRun>>
  BY DEF TrngTask, healthVars
<1>3. CASE initialised /\ ~ paused /\ Free(trngRing, RING_BYTES) >= CHUNK
  <2>1. PICK k \in {CHUNK} \cup (IF source = "live" THEN 0 .. (CHUNK - 1) ELSE {}) :
          /\ trngRing' = With(trngRing, RING_BYTES, Sampled(k))
          /\ source' = IF k < CHUNK THEN "stuck" ELSE source
    BY <1>3 DEF TrngTask
  <2>2. CHUNK \in Nat \ {0}  BY Sizes
  <2>3. k \in 0 .. CHUNK /\ (k # CHUNK => source = "live")
    <3>1. CASE source = "live"  BY <2>1, <2>2, <3>1
    <3>2. CASE source # "live"  BY <2>1, <2>2, <3>2
    <3> QED  BY <3>1, <3>2
  <2>4. PICK s : s = Sampled(k)  OBVIOUS
  <2>5. s \in Seq(Byte) /\ Len(s) = CHUNK
    <3>1. s = [i \in 1 .. CHUNK |-> IF i <= k THEN source ELSE "stuck"]  BY <2>4 DEF Sampled
    <3>2. \A i \in 1 .. CHUNK : (IF i <= k THEN source ELSE "stuck") \in Byte
      BY <1>1 DEF Byte
    <3> QED  BY <2>2, <3>1, <3>2
  <2>6. Len(s) <= Free(trngRing, RING_BYTES)
    <3>1. PICK z : z = Free(trngRing, RING_BYTES)  OBVIOUS
    <3>2. z \in Nat /\ z >= CHUNK  BY <3>1, <1>1, <1>3, Sizes, UsedIs
    <3> QED  BY <3>1, <3>2, <2>2, <2>5
  <2>7. PICK w : w = With(trngRing, RING_BYTES, s)  OBVIOUS
  <2>8. w \in Ring(RING_BYTES) /\ Held(w, RING_BYTES) = Held(trngRing, RING_BYTES) \o s
    BY <2>5, <2>6, <2>7, <1>1, Sizes, WithIs
  <2>9. trngRing' = w  BY <2>1, <2>4, <2>7
  <2>10. RingBytes' = RingBytes \o s  BY <2>8, <2>9 DEF RingBytes
  <2>11. s = Pulled(source, k)  BY <2>4 DEF Sampled, Pulled
  <2>12. source' \in Byte  BY <2>1, <1>1 DEF Byte
  <2> QED  BY <1>2, <1>3, <2>1, <2>3, <2>8, <2>9, <2>10, <2>11, <2>12
<1>4. CASE ~ (initialised /\ ~ paused /\ Free(trngRing, RING_BYTES) >= CHUNK)
  <2>1. trngRing' = trngRing /\ source' = source  BY <1>4 DEF TrngTask
  <2>2. RingBytes' = RingBytes  BY <2>1 DEF RingBytes
  <2> QED  BY <1>1, <1>2, <1>4, <2>1, <2>2
<1> QED  BY <1>3, <1>4

LEMMA DataTrngTask ==
    ASSUME Data, TrngTask
    PROVE  Data'
<1>1. /\ trngRing' \in Ring(RING_BYTES) /\ source' \in Byte
      /\ UNCHANGED <<pool, initialised, paused, health, warm, stuckRun>>
      /\ ~ initialised => RingBytes' = RingBytes
  BY TrngTaskIs
<1>2. PoolBytes' = PoolBytes /\ Verdict' = Verdict  BY <1>1 DEF PoolBytes, Verdict
<1> QED  BY <1>1, <1>2 DEF Data

LEMMA DataRefill ==
    ASSUME Data, RefillPool
    PROVE  Data'
<1>1. PICK q, p, h : q = RingBytes /\ p = PoolBytes /\ h = Verdict  OBVIOUS
<1>2. PICK m : m = MovedOf(q, p)  OBVIOUS
<1>3. /\ trngRing \in Ring(RING_BYTES) /\ pool \in Ring(POOL_BYTES) /\ h \in Tests
      /\ h.health # "fail" => Clean(p, h.run)
  BY <1>1 DEF Data, Verdict
<1>4. q \in Seq(Byte) /\ p \in Seq(Byte)  BY <1>1, QueuesAre
<1>5. /\ m \in 0 .. Len(q)
      /\ trngRing' \in Ring(RING_BYTES) /\ RingBytes' = SubSeq(q, m + 1, Len(q))
      /\ pool' \in Ring(POOL_BYTES) /\ PoolBytes' = p \o SubSeq(q, 1, m)
      /\ Verdict' = Fed(h, SubSeq(q, 1, m))
      /\ UNCHANGED <<initialised, paused, source>>
  BY <1>1, <1>2, <1>3, RefillIs
<1>6. PICK s : s = SubSeq(q, 1, m)  OBVIOUS
<1>7. s \in Seq(Byte)  BY <1>4, <1>5, <1>6, Prefix
<1>8. Verdict' \in Tests  BY <1>3, <1>5, <1>6, <1>7, FedType
<1>9. ASSUME health' # "fail"  PROVE Clean(PoolBytes', stuckRun')
  <2>1. Verdict'.health = health' /\ Verdict'.run = stuckRun'  BY DEF Verdict
  <2>2. Fed(h, s).health # "fail"  BY <2>1, <1>5, <1>6, <1>9
  <2>3. Clean(p \o s, Fed(h, s).run)  BY <2>2, <1>3, <1>4, <1>7, FedClean
  <2>4. Fed(h, s).run = stuckRun'  BY <2>1, <1>5, <1>6
  <2> QED  BY <2>3, <2>4, <1>5, <1>6
<1>10. ASSUME ~ initialised'  PROVE RingBytes' = << >> /\ PoolBytes' = << >>
  <2>1. q = << >> /\ p = << >>  BY <1>1, <1>5, <1>10 DEF Data
  <2>2. Len(q) = 0  BY <2>1
  <2>3. m = 0  BY <2>2, <1>5
  <2>4. s = << >>  BY <2>3, <1>4, <1>6
  <2>5. SubSeq(q, m + 1, Len(q)) = << >>  BY <2>2, <2>3, <1>4
  <2>6. p \o s = << >>  BY <2>1, <2>4
  <2> QED  BY <2>5, <2>6, <1>5, <1>6
<1>11. initialised' \in BOOLEAN /\ paused' \in BOOLEAN /\ source' \in Byte  BY <1>5 DEF Data
<1> QED  BY <1>5, <1>8, <1>9, <1>10, <1>11 DEF Data

(* A block is read from the ring or from the pool. *)
LEMMA TakenIs ==
    ASSUME NEW n \in Nat \ {0}, NEW f \in Ring(n), NEW k \in Nat, k <= Used(f, n)
    PROVE  /\ Without(f, n, k) \in Ring(n)
           /\ Held(Without(f, n, k), n) = SubSeq(Held(f, n), k + 1, Len(Held(f, n)))
           /\ Oldest(f, n, k) = SubSeq(Held(f, n), 1, k)
<1>1. Used(f, n) \in Nat  BY UsedIs
<1>2. Smaller(k, Used(f, n)) = k  BY <1>1 DEF Smaller
<1>3. /\ Without(f, n, k) \in Ring(n)
      /\ Held(Without(f, n, k), n)
           = SubSeq(Held(f, n), Smaller(k, Used(f, n)) + 1, Len(Held(f, n)))
  BY WithoutIs
<1>4. Oldest(f, n, k) = SubSeq(Held(f, n), 1, Smaller(k, Used(f, n)))  BY OldestIs
<1> QED  BY <1>2, <1>3, <1>4

LEMMA DataGetRandom ==
    ASSUME Data, GetRandom
    PROVE  Data' /\ RingBytes' = SubSeq(RingBytes, RAW_BYTES + 1, Len(RingBytes))
<1>1. /\ RAW_BYTES <= Used(trngRing, RING_BYTES)
      /\ trngRing' = Without(trngRing, RING_BYTES, RAW_BYTES)
      /\ UNCHANGED <<pool, initialised, paused, health, warm, stuckRun, source>>
  <2>1. Used(trngRing, RING_BYTES) \in Nat  BY Sizes, UsedIs DEF Data
  <2> QED  BY <2>1, Sizes DEF GetRandom, healthVars
<1>2. trngRing \in Ring(RING_BYTES)  BY DEF Data
<1>3. /\ trngRing' \in Ring(RING_BYTES)
      /\ RingBytes' = SubSeq(RingBytes, RAW_BYTES + 1, Len(RingBytes))
  <2>1. PICK w : w = Without(trngRing, RING_BYTES, RAW_BYTES)  OBVIOUS
  <2>2. w \in Ring(RING_BYTES)
        /\ Held(w, RING_BYTES) = SubSeq(Held(trngRing, RING_BYTES), RAW_BYTES + 1,
                                        Len(Held(trngRing, RING_BYTES)))
    BY <2>1, <1>1, <1>2, Sizes, TakenIs
  <2> QED  BY <2>1, <2>2, <1>1 DEF RingBytes
<1>4. PoolBytes' = PoolBytes /\ Verdict' = Verdict  BY <1>1 DEF PoolBytes, Verdict
<1>5. initialised
  <2> SUFFICES ASSUME ~ initialised  PROVE FALSE  BY DEF Data
  <2>1. Len(RingBytes) = 0  BY DEF Data
  <2>2. Used(trngRing, RING_BYTES) = 0  BY <2>1, QueuesAre
  <2> QED  BY <2>2, <1>1, Sizes
<1> QED  BY <1>1, <1>3, <1>4, <1>5 DEF Data

LEMMA DataBlock ==
    ASSUME Data, Enough, Block
    PROVE  /\ Data' /\ PoolBytes' = SubSeq(PoolBytes, RAW_BYTES + 1, Len(PoolBytes))
           /\ Oldest(pool, POOL_BYTES, RAW_BYTES) = SubSeq(PoolBytes, 1, RAW_BYTES)
<1>1. /\ RAW_BYTES <= Used(pool, POOL_BYTES)
      /\ pool' = Without(pool, POOL_BYTES, RAW_BYTES)
      /\ UNCHANGED <<trngRing, initialised, paused, health, warm, stuckRun, source>>
      /\ RAW_BYTES <= Len(PoolBytes) /\ RAW_BYTES \in 0 .. Len(PoolBytes)
  <2>1. RAW_BYTES <= Len(PoolBytes) /\ Len(PoolBytes) = Used(pool, POOL_BYTES)
        /\ PoolBytes \in Seq(Byte)
    BY QueuesAre
  <2>2. RAW_BYTES \in 0 .. Len(PoolBytes)  BY <2>1, Sizes
  <2>3. RAW_BYTES <= Used(pool, POOL_BYTES)  BY <2>1
  <2> QED  BY <2>1, <2>2, <2>3 DEF Block, healthVars
<1>2. pool \in Ring(POOL_BYTES)  BY DEF Data
<1>3. /\ pool' \in Ring(POOL_BYTES)
      /\ PoolBytes' = SubSeq(PoolBytes, RAW_BYTES + 1, Len(PoolBytes))
      /\ Oldest(pool, POOL_BYTES, RAW_BYTES) = SubSeq(PoolBytes, 1, RAW_BYTES)
  <2>1. PICK w : w = Without(pool, POOL_BYTES, RAW_BYTES)  OBVIOUS
  <2>2. /\ w \in Ring(POOL_BYTES)
        /\ Held(w, POOL_BYTES) = SubSeq(Held(pool, POOL_BYTES), RAW_BYTES + 1,
                                        Len(Held(pool, POOL_BYTES)))
        /\ Oldest(pool, POOL_BYTES, RAW_BYTES) = SubSeq(Held(pool, POOL_BYTES), 1, RAW_BYTES)
    BY <2>1, <1>1, <1>2, Sizes, TakenIs
  <2> QED  BY <2>1, <2>2, <1>1 DEF PoolBytes
<1>4. RingBytes' = RingBytes /\ Verdict' = Verdict  BY <1>1 DEF RingBytes, Verdict
<1>5. ASSUME health' # "fail"  PROVE Clean(PoolBytes', stuckRun')
  <2>1. PICK p, n : p = PoolBytes /\ n = stuckRun  OBVIOUS
  <2>2. Clean(p, n) /\ n \in Nat /\ p \in Seq(Byte)
    <3>1. Verdict.run = stuckRun  BY DEF Verdict
    <3>2. stuckRun \in 0 .. RCT_BYTES  BY <3>1, TestsShape DEF Data
    <3>3. p \in Seq(Byte)  BY <2>1, QueuesAre
    <3> QED  BY <3>2, <3>3, <2>1, <1>1, <1>5, Sizes DEF Data
  <2>3. RAW_BYTES \in 0 .. Len(p)  BY <2>1, <1>1
  <2>4. Clean(SubSeq(p, RAW_BYTES + 1, Len(p)), n)  BY <2>2, <2>3, RestIsClean
  <2> QED  BY <2>1, <2>4, <1>1, <1>3
<1>6. initialised
  <2> SUFFICES ASSUME ~ initialised  PROVE FALSE  BY DEF Data
  <2>1. Len(PoolBytes) = 0  BY DEF Data
  <2> QED  BY <2>1, <1>1, Sizes
<1> QED  BY <1>1, <1>3, <1>4, <1>5, <1>6 DEF Data

LEMMA DataPipelineInit ==
    ASSUME Data, PipelineInit
    PROVE  Data' /\ RingBytes' = << >> /\ PoolBytes' = PoolBytes
<1>1. /\ ~ initialised /\ initialised' = TRUE
      /\ trngRing' = [trngRing EXCEPT !.head = 0, !.tail = 0] /\ paused' = FALSE
      /\ health' = "warming" /\ warm' = 0 /\ stuckRun' = 0
      /\ UNCHANGED <<pool, source>>
  BY DEF PipelineInit
<1>2. PICK b, f : b = trngRing.buf /\ f = [buf |-> b, head |-> 0, tail |-> 0]  OBVIOUS
<1>3. f \in Ring(RING_BYTES) /\ trngRing' = f
  <2>1. b \in [0 .. (RING_BYTES - 1) -> Byte]
        /\ trngRing = [buf |-> b, head |-> trngRing.head, tail |-> trngRing.tail]
    BY <1>2, Sizes, RingShape DEF Data
  <2>2. 0 \in 0 .. (RING_BYTES - 1)  BY Sizes
  <2>3. f \in Ring(RING_BYTES)  BY <2>1, <2>2, <1>2 DEF Ring
  <2>4. PICK h, t : h = trngRing.head /\ t = trngRing.tail  OBVIOUS
  <2>5. PICK e : e = [buf |-> b, head |-> h, tail |-> t]  OBVIOUS
  <2>6. [e EXCEPT !.head = 0, !.tail = 0] = f
    <3>1. PICK d : d = [e EXCEPT !.head = 0, !.tail = 0]  OBVIOUS
    <3>2. DOMAIN e = {"buf", "head", "tail"} /\ e.buf = b  BY <2>5
    <3>3. d.buf = b /\ d.head = 0 /\ d.tail = 0 /\ DOMAIN d = {"buf", "head", "tail"}
      BY <3>1, <3>2
    <3>4. d = [x \in {"buf", "head", "tail"} |-> d[x]]  BY <3>1, <3>2
    <3>5. DOMAIN f = {"buf", "head", "tail"} /\ f = [x \in {"buf", "head", "tail"} |-> f[x]]
      BY <1>2
    <3>6. \A x \in {"buf", "head", "tail"} : d[x] = f[x]  BY <3>3, <1>2
    <3> QED  BY <3>1, <3>4, <3>5, <3>6
  <2>7. trngRing = e  BY <2>1, <2>4, <2>5
  <2> QED  BY <2>3, <2>6, <2>7, <1>1
<1>4. RingBytes' = << >>
  <2>1. f.head = f.tail  BY <1>2
  <2>2. Held(f, RING_BYTES) = << >>  BY <2>1, <1>3, Sizes, EmptyRing
  <2> QED  BY <2>2, <1>3 DEF RingBytes
<1>5. Verdict' \in Tests  BY <1>1, FreshTests DEF Verdict
<1>6. PoolBytes' = PoolBytes /\ PoolBytes = << >>  BY <1>1 DEF Data, PoolBytes
<1>7. Clean(PoolBytes', stuckRun')  BY <1>1, <1>6, EmptyIsClean
<1> QED  BY <1>1, <1>3, <1>4, <1>5, <1>6, <1>7 DEF Data

LEMMA DataStays ==
    ASSUME Data, UNCHANGED <<trngRing, pool, initialised, health, warm, stuckRun, source>>,
           paused' \in BOOLEAN
    PROVE  Data' /\ RingBytes' = RingBytes /\ PoolBytes' = PoolBytes
<1>1. RingBytes' = RingBytes /\ PoolBytes' = PoolBytes /\ Verdict' = Verdict
  BY DEF RingBytes, PoolBytes, Verdict
<1> QED  BY <1>1 DEF Data

(* The steps between the calls leave the call alone. *)
LEMMA BetweenKeeps ==
    ASSUME CallState, AnswerIsGood, Between
    PROVE  CallState' /\ AnswerIsGood'
<1>1. pc = "idle" /\ UNCHANGED <<pc, asked, out, result>>  BY DEF Between, callVars
<1>2. CallState'  BY <1>1 DEF CallState, WholeDigests
<1>3. AnswerIsGood'  BY <1>1 DEF AnswerIsGood, WholeDigests
<1> QED  BY <1>2, <1>3

(* A step inside a call that writes nothing and gives no answer. *)
LEMMA InsideKeeps ==
    ASSUME CallState, AnswerIsGood, Inside, pc' \in Labels \ {"answer"},
           pc' \in {"refill", "pumped", "verdict"} => Len(out) < asked,
           pc' = "verdict" => Enough'
    PROVE  CallState' /\ AnswerIsGood'
<1>1. UNCHANGED <<asked, out, result>>  BY DEF Inside
<1>2. CallState'  BY <1>1 DEF CallState, WholeDigests
<1>3. pc' # "answer"  OBVIOUS
<1>4. AnswerIsGood'  BY <1>1, <1>3 DEF AnswerIsGood
<1> QED  BY <1>2, <1>4

(* An answer, whose status is OK exactly if nothing is missing. *)
LEMMA ReturnKeeps ==
    ASSUME CallState, AnswerIsGood,
           NEW status \in {"OK", "NO_ENTROPY", "HEALTH_FAIL", "HEALTH_WARMING"},
           status = "OK" <=> Len(out) = asked, Return(status)
    PROVE  CallState' /\ AnswerIsGood'
<1>1. pc' = "answer" /\ result' = status /\ UNCHANGED <<asked, out>>  BY DEF Return
<1>2. CallState'  BY <1>1 DEF CallState, Labels, WholeDigests
<1>3. (result' = "OK") = (Len(out') = asked')  BY <1>1
<1>4. result' # "OK" => WholeDigests'
  <2>1. asked \in Nat /\ out \in Seq(Seq(Byte)) /\ Len(out) <= asked  BY DEF CallState
  <2>2. status # "OK" => Len(out) < asked  BY <2>1
  <2> QED  BY <1>1, <2>2 DEF CallState, WholeDigests
<1>5. AnswerIsGood'  BY <1>1, <1>3, <1>4 DEF AnswerIsGood
<1> QED  BY <1>2, <1>5

LEMMA WaitingWants ==
    ASSUME CallState, Waiting
    PROVE  Len(out) < asked
BY DEF CallState, Waiting

LEMMA BlockKeeps ==
    ASSUME IInv, Block
    PROVE  CallState' /\ AnswerIsGood'
<1>1. Data /\ CallState /\ AnswerIsGood  BY DEF IInv
<1>2. pc = "verdict" /\ pc' = "loop" /\ health = "ok" /\ UNCHANGED <<asked, result>>
  BY DEF Block, Goto, Healthy
<1>3. Enough /\ Len(out) < asked  BY <1>1, <1>2 DEF CallState
<1>4. PICK o, w, block : o = out /\ w = Wanted /\ block = Oldest(pool, POOL_BYTES, RAW_BYTES)
  OBVIOUS
<1>5. /\ o \in Seq(Seq(Byte)) /\ asked \in Nat /\ Len(o) \in Nat
      /\ w \in Nat /\ Len(o) + w <= asked
  <2>1. o \in Seq(Seq(Byte)) /\ asked \in Nat /\ Len(o) < asked  BY <1>1, <1>3, <1>4 DEF CallState
  <2>2. w = Smaller(OUT_BYTES, asked - Len(o))  BY <1>4 DEF Wanted
  <2>3. PICK l : l = Len(o)  OBVIOUS
  <2>4. l \in Nat /\ l < asked  BY <2>1, <2>3
  <2>5. w = Smaller(OUT_BYTES, asked - l)  BY <2>2, <2>3
  <2>6. w \in Nat /\ l + w <= asked  BY <2>1, <2>4, <2>5, Sizes DEF Smaller
  <2> QED  BY <2>1, <2>3, <2>4, <2>6
<1>6. block = SubSeq(PoolBytes, 1, RAW_BYTES) /\ PoolBytes \in Seq(Byte)
      /\ RAW_BYTES <= Len(PoolBytes)
  BY <1>1, <1>3, <1>4, DataBlock, QueuesAre
<1>7. block \in Seq(Byte)
  <2>1. PICK p : p = PoolBytes  OBVIOUS
  <2>2. p \in Seq(Byte) /\ RAW_BYTES \in 0 .. Len(p)  BY <2>1, <1>6, Sizes
  <2>3. SubSeq(p, 1, RAW_BYTES) \in Seq(Byte)  BY <2>2, Prefix
  <2> QED  BY <2>1, <2>3, <1>6
<1>8. \E j \in 1 .. RAW_BYTES : block[j] = "live"
  <2>1. PICK p, n : p = PoolBytes /\ n = stuckRun  OBVIOUS
  <2>2. Clean(p, n)  BY <2>1, <1>1, <1>2 DEF Data
  <2>3. p \in Seq(Byte) /\ RAW_BYTES <= Len(p)  BY <2>1, <1>6
  <2> QED  BY <2>1, <2>2, <2>3, <1>6, BlockIsLive
<1>9. PICK d : d = [i \in 1 .. w |-> block]  OBVIOUS
<1>10. d \in Seq(Seq(Byte)) /\ Len(d) = w /\ \A i \in 1 .. w : d[i] = block
  BY <1>5, <1>7, <1>9
<1>11. out' = o \o d  BY <1>4, <1>9 DEF Block, Digest
<1>12. PICK u : u = o \o d  OBVIOUS
<1>13. u \in Seq(Seq(Byte)) /\ Len(u) = Len(o) + Len(d)
       /\ \A i \in 1 .. Len(u) : u[i] = IF i <= Len(o) THEN o[i] ELSE d[i - Len(o)]
  BY <1>5, <1>10, <1>12, ConcatProperties, ZenonT(30)
<1>14. ASSUME NEW i \in 1 .. Len(u)  PROVE \E j \in 1 .. RAW_BYTES : u[i][j] = "live"
  <2>1. CASE i <= Len(o)
    <3>1. u[i] = o[i] /\ i \in 1 .. Len(o)  BY <2>1, <1>5, <1>13
    <3>2. \E j \in 1 .. RAW_BYTES : o[i][j] = "live"  BY <3>1, <1>1, <1>4 DEF AnswerIsGood
    <3> QED  BY <3>1, <3>2
  <2>2. CASE ~ (i <= Len(o))
    <3>1. i - Len(o) \in 1 .. w  BY <2>2, <1>5, <1>10, <1>13
    <3>2. u[i] = block  BY <2>2, <3>1, <1>10, <1>13
    <3> QED  BY <3>2, <1>8
  <2> QED  BY <2>1, <2>2
<1>15. Len(u) <= asked  BY <1>5, <1>10, <1>13
<1>16. out' = u  BY <1>11, <1>12
<1>17. CallState'
  <2>1. Len(u) < asked => \E k \in 0 .. Len(u) : Len(u) = k * OUT_BYTES
    <3>1. Len(o) < asked /\ w = Smaller(OUT_BYTES, asked - Len(o))
      BY <1>3, <1>4 DEF Wanted
    <3>2. PICK l : l = Len(o)  OBVIOUS
    <3>3. l \in Nat /\ l < asked /\ w = Smaller(OUT_BYTES, asked - l) /\ Len(u) = l + w
      BY <3>1, <3>2, <1>5, <1>10, <1>13
    <3>4. PICK k \in 0 .. l : l = k * OUT_BYTES
      BY <3>1, <3>2, <1>1, <1>4 DEF CallState, WholeDigests
    <3>5. l + OUT_BYTES = (k + 1) * OUT_BYTES /\ k + 1 \in 0 .. (l + OUT_BYTES)
      BY <3>3, <3>4, Sizes
    <3>6. l + w < asked => w = OUT_BYTES
      BY <3>3, <1>5, Sizes DEF Smaller
    <3> QED  BY <3>3, <3>5, <3>6
  <2> QED
    BY <2>1, <1>1, <1>2, <1>13, <1>15, <1>16 DEF CallState, Labels, WholeDigests
<1>18. AnswerIsGood'
  <2>1. pc' # "answer"  BY <1>2
  <2>2. \A i \in 1 .. Len(out') : \E j \in 1 .. RAW_BYTES : out'[i][j] = "live"
    BY <1>14, <1>16
  <2> QED  BY <2>1, <2>2 DEF AnswerIsGood
<1> QED  BY <1>17, <1>18

LEMMA InitIInv == Init => IInv
<1> SUFFICES ASSUME Init  PROVE IInv  OBVIOUS
<1>1. Data  BY DataInit
<1>2. out = << >> /\ asked = 0 /\ pc = "idle" /\ result = "OK"  BY DEF Init
<1>3. Len(out) = 0 /\ out \in Seq(Seq(Byte))  BY <1>2
<1>4. CallState  BY <1>2, <1>3 DEF CallState, Labels
<1>5. AnswerIsGood  BY <1>2, <1>3 DEF AnswerIsGood
<1> QED  BY <1>1, <1>4, <1>5 DEF IInv

LEMMA NextIInv == IInv /\ [Next]_vars => IInv'
<1> SUFFICES ASSUME IInv, [Next]_vars  PROVE IInv'  OBVIOUS
<1>1. Data /\ CallState /\ AnswerIsGood  BY DEF IInv
<1>2. paused \in BOOLEAN  BY <1>1 DEF Data
<1>3. CASE PipelineInit
  <2>1. Data'  BY <1>1, <1>3, DataPipelineInit
  <2>2. CallState' /\ AnswerIsGood'  BY <1>1, <1>3, BetweenKeeps DEF PipelineInit
  <2> QED  BY <2>1, <2>2 DEF IInv
<1>4. CASE LoopTrngTask
  <2>1. Data'  BY <1>1, <1>4, DataTrngTask DEF LoopTrngTask
  <2>2. CallState' /\ AnswerIsGood'  BY <1>1, <1>4, BetweenKeeps DEF LoopTrngTask
  <2> QED  BY <2>1, <2>2 DEF IInv
<1>5. CASE LoopPipelineTask
  <2>1. Data'  BY <1>1, <1>5, DataRefill DEF LoopPipelineTask
  <2>2. CallState' /\ AnswerIsGood'  BY <1>1, <1>5, BetweenKeeps DEF LoopPipelineTask
  <2> QED  BY <2>1, <2>2 DEF IInv
<1>6. CASE GetRandom
  <2>1. Data'  BY <1>1, <1>6, DataGetRandom
  <2>2. CallState' /\ AnswerIsGood'  BY <1>1, <1>6, BetweenKeeps DEF GetRandom
  <2> QED  BY <2>1, <2>2 DEF IInv
<1>7. CASE SetPaused
  <2>1. UNCHANGED <<trngRing, pool, initialised, health, warm, stuckRun, source>>
        /\ paused' \in BOOLEAN
    BY <1>2, <1>7 DEF SetPaused, healthVars
  <2>2. Data'  BY <1>1, <2>1, DataStays
  <2>3. CallState' /\ AnswerIsGood'  BY <1>1, <1>7, BetweenKeeps DEF SetPaused
  <2> QED  BY <2>2, <2>3 DEF IInv
<1>8. ASSUME Still  PROVE Data'
  <2>1. UNCHANGED <<trngRing, pool, initialised, paused, health, warm, stuckRun, source>>
    BY <1>8 DEF Still, healthVars
  <2> QED  BY <2>1, <1>1, <1>2, DataStays
<1>9. CASE Call \/ Leave
  <2>1. out' = << >> /\ asked' \in Nat /\ pc' \in {"loop", "idle"} /\ result' = "OK" /\ Still
    <3>1. CASE Call  BY <3>1, PipelineAssumption DEF Call, Goto
    <3>2. CASE Leave  BY <3>2 DEF Leave, Goto
    <3> QED  BY <3>1, <3>2, <1>9
  <2>2. Len(out') = 0 /\ out' \in Seq(Seq(Byte))  BY <2>1
  <2>3. CallState'
    <3>1. 0 \in 0 .. Len(out') /\ Len(out') = 0 * OUT_BYTES  BY <2>2, Sizes
    <3>2. WholeDigests'  BY <3>1 DEF WholeDigests
    <3> QED  BY <2>1, <2>2, <3>2 DEF CallState, Labels
  <2>4. AnswerIsGood'  BY <2>1, <2>2 DEF AnswerIsGood
  <2> QED  BY <2>1, <2>3, <2>4, <1>8 DEF IInv
<1>10. CASE Done
  <2>1. Len(out) = asked /\ Return("OK") /\ Still  BY <1>10 DEF Done, Return
  <2> QED  BY <2>1, <1>1, <1>8, ReturnKeeps DEF IInv
<1>11. CASE Ready
  <2>1. Waiting /\ Enough /\ pc' = "verdict" /\ Inside /\ Still  BY <1>11 DEF Ready
  <2>2. Enough'  BY <2>1 DEF Enough, Still
  <2>3. CallState' /\ AnswerIsGood'  BY <2>1, <2>2, <1>1, WaitingWants, InsideKeeps DEF Labels
  <2> QED  BY <2>1, <2>3, <1>8 DEF IInv
<1>12. CASE Sample
  <2>1. Waiting /\ pc' = "refill" /\ Inside /\ TrngTask  BY <1>12 DEF Sample
  <2>2. CallState' /\ AnswerIsGood'  BY <2>1, <1>1, WaitingWants, InsideKeeps DEF Labels
  <2> QED  BY <2>1, <2>2, <1>1, DataTrngTask DEF IInv
<1>13. CASE Refill
  <2>1. pc = "refill" /\ pc' = "pumped" /\ Inside /\ RefillPool  BY <1>13 DEF Refill, Goto
  <2>2. Len(out) < asked  BY <2>1, <1>1 DEF CallState
  <2>3. CallState' /\ AnswerIsGood'  BY <2>1, <2>2, <1>1, InsideKeeps DEF Labels
  <2> QED  BY <2>1, <2>3, <1>1, DataRefill DEF IInv
<1>14. CASE TimesOut
  <2>1. pc = "pumped" /\ Return("NO_ENTROPY") /\ Still  BY <1>14 DEF TimesOut, Return
  <2>2. Len(out) # asked
    <3>1. Len(out) < asked /\ asked \in Nat /\ out \in Seq(Seq(Byte))
      BY <2>1, <1>1 DEF CallState
    <3> QED  BY <3>1
  <2>3. CallState' /\ AnswerIsGood'  BY <2>1, <2>2, <1>1, ReturnKeeps
  <2> QED  BY <2>1, <2>3, <1>8 DEF IInv
<1>15. CASE Refused
  <2>1. PICK status : /\ status = IF health = "fail" THEN "HEALTH_FAIL" ELSE "HEALTH_WARMING"
                      /\ pc = "verdict" /\ Return(status) /\ Still
    BY <1>15 DEF Refused, Return
  <2>2. Len(out) # asked
    <3>1. Len(out) < asked /\ asked \in Nat /\ out \in Seq(Seq(Byte))
      BY <2>1, <1>1 DEF CallState
    <3> QED  BY <3>1
  <2>3. status \in {"HEALTH_FAIL", "HEALTH_WARMING"}  BY <2>1
  <2>4. CallState' /\ AnswerIsGood'  BY <2>1, <2>2, <2>3, <1>1, ReturnKeeps
  <2> QED  BY <2>1, <2>4, <1>8 DEF IInv
<1>16. CASE Block
  <2>1. Enough  BY <1>1, <1>16 DEF CallState, Block, Goto
  <2> QED  BY <2>1, <1>1, <1>16, DataBlock, BlockKeeps DEF IInv
<1>17. CASE UNCHANGED vars
  <2>1. UNCHANGED <<trngRing, pool, initialised, paused, health, warm, stuckRun, source>>
        /\ UNCHANGED <<pc, asked, out, result>>
    BY <1>17 DEF vars, healthVars, callVars
  <2>2. Data'  BY <2>1, <1>1, <1>2, DataStays
  <2>3. CallState'  BY <2>1, <1>1 DEF CallState, Enough, WholeDigests
  <2>4. AnswerIsGood'  BY <2>1, <1>1 DEF AnswerIsGood, WholeDigests
  <2> QED  BY <2>2, <2>3, <2>4 DEF IInv
<1> QED
  BY <1>3, <1>4, <1>5, <1>6, <1>7, <1>9, <1>10, <1>11, <1>12, <1>13, <1>14, <1>15, <1>16, <1>17
  DEF Next, InCall

LEMMA InvariantHolds == Spec => []IInv
<1>1. Init => IInv  BY InitIInv
<1>2. IInv /\ [Next]_vars => IInv'  BY NextIInv
<1> QED  BY <1>1, <1>2, PTL DEF Spec

(* Types of the arrays, the label, the output and the status. *)
THEOREM TypeCorrect == Spec => []TypeOK
<1>1. IInv => TypeOK
  <2> SUFFICES ASSUME IInv  PROVE TypeOK  OBVIOUS
  <2>1. trngRing.buf \in [0 .. (RING_BYTES - 1) -> Byte]
    BY Sizes, RingShape DEF IInv, Data
  <2>2. pool.buf \in [0 .. (POOL_BYTES - 1) -> Byte]
    BY Sizes, RingShape DEF IInv, Data
  <2> QED  BY <2>1, <2>2 DEF TypeOK, IInv, CallState
<1> QED  BY <1>1, InvariantHolds, PTL

(* The status of rng_pipeline_get_bytes is OK exactly if the caller has    *)
(* every byte it asked for; otherwise it has whole digests, not always     *)
(* none of them.  And no block of nothing but stuck bytes was hashed for   *)
(* it, at whatever byte the source died.                                   *)
THEOREM AnswerAlwaysGood == Spec => []AnswerIsGood
<1>1. IInv => AnswerIsGood  BY DEF IInv
<1> QED  BY <1>1, InvariantHolds, PTL

--------------------------------------------------------------------------------
(* EntropyPath implemented: its ring and pool are what the arrays hold. *)

(* The run a sequence ends in, counted as EntropyPath counts it. *)
LEMMA RunCounted ==
    ASSUME NEW t \in Seq(Byte), NEW z, EndsIn(t, z), z <= RCT_BYTES
    PROVE  Cardinality({n \in 1 .. RCT_BYTES : n <= Len(t) /\ AllStuck(t, Len(t) - n + 1, n)}) = z
<1>1. PICK l, c : l = Len(t) /\ c = RCT_BYTES  OBVIOUS
<1>2. l \in Nat /\ c \in Nat  BY <1>1, Sizes
<1>3. /\ z \in 0 .. l /\ z <= c /\ \A j \in (l - z + 1) .. (l - z + 1 + z - 1) : t[j] = "stuck"
      /\ z < l => t[l - z] = "live"
  BY <1>1 DEF EndsIn, AllStuck
<1>4. ASSUME NEW n \in 1 .. c
      PROVE  n \in 1 .. z <=> n <= l /\ AllStuck(t, l - n + 1, n)
  <2>1. CASE n <= z
    <3>1. n <= l /\ n \in 1 .. z  BY <2>1, <1>2, <1>3
    <3>2. \A j \in (l - n + 1) .. (l - n + 1 + n - 1) : t[j] = "stuck"
      BY <2>1, <1>2, <1>3
    <3> QED  BY <3>1, <3>2 DEF AllStuck
  <2>2. CASE ~ (n <= z)
    <3> SUFFICES ASSUME n <= l, AllStuck(t, l - n + 1, n)  PROVE FALSE
      BY <2>2, <1>2, <1>3
    <3>1. l - z \in (l - n + 1) .. (l - n + 1 + n - 1) /\ z < l  BY <2>2, <1>2, <1>3
    <3>2. t[l - z] = "stuck"  BY <3>1 DEF AllStuck
    <3> QED  BY <3>1, <3>2, <1>3
  <2> QED  BY <2>1, <2>2
<1>5. {n \in 1 .. c : n <= l /\ AllStuck(t, l - n + 1, n)} = 1 .. z
  <2>1. \A n : n \in 1 .. z => n \in 1 .. c  BY <1>2, <1>3
  <2> QED  BY <2>1, <1>4
<1>6. Cardinality(1 .. z) = z
  <2>1. z \in Int /\ 1 \in Int /\ z \in Nat  BY <1>2, <1>3
  <2>2. Cardinality(1 .. z) = IF 1 > z THEN 0 ELSE z - 1 + 1  BY <2>1, FS_Interval
  <2> QED  BY <2>1, <2>2
<1> QED  BY <1>1, <1>5, <1>6

(* EntropyPath counts with the same Cardinality. *)
LEMMA PathCounts == \A S : Path!Cardinality(S) = Cardinality(S)
BY DEF Path!Cardinality, Cardinality

(* nist_health_feed of a refill, at the grain of EntropyPath. *)
LEMMA FeedIs ==
    ASSUME Data, NEW s \in Seq(Byte), Verdict' = Fed(Verdict, s)
    PROVE  Path!Feed(s)
<1>1. PICK h, g, r, w, e : h = Verdict /\ g = Fed(h, s) /\ r = stuckRun /\ w = warm /\ e = health
  OBVIOUS
<1>2. h \in Tests /\ h.run = r /\ h.warm = w /\ h.health = e
  BY <1>1 DEF Data, Verdict
<1>3. g \in Tests  BY <1>1, <1>2, FedType
<1>4. stuckRun' = g.run /\ warm' = g.warm /\ health' = g.health
  <2>1. Verdict' = g  BY <1>1
  <2>2. Verdict'.run = stuckRun' /\ Verdict'.warm = warm' /\ Verdict'.health = health'
    BY DEF Verdict
  <2> QED  BY <2>1, <2>2
<1>5. r \in Nat  BY <1>2, TestsShape, Sizes
<1>6. \A u : Path!Trips(u) <=> HasRun(Line(r, u))
  BY <1>1 DEF Path!Trips, Path!Stream, Path!Bytes, Path!StuckAt, HasRun, AllStuck, Line
<1>7. Path!Passed(s) = Cardinality(Passing(r, s))
  <2>1. {k \in 1 .. Len(s) : ~ Path!Trips(SubSeq(s, 1, k))} = Passing(r, s)
    BY <1>6 DEF Passing
  <2>2. Path!Cardinality(Passing(r, s)) = Cardinality(Passing(r, s))  BY PathCounts
  <2> QED  BY <2>1, <2>2 DEF Path!Passed
<1>8. CASE e = "fail"
  <2>1. g = h  BY <1>1, <1>2, <1>8, FedFailed
  <2>2. UNCHANGED <<health, warm, stuckRun>>  BY <2>1, <1>1, <1>2, <1>4
  <2> QED  BY <2>2, <1>1, <1>8 DEF Path!Feed
<1>9. CASE e # "fail"
  <2>1. Outcome(h, s, g)  BY <1>1, <1>2, <1>9, FedOutcome
  <2>2. g.warm = Smaller(w + Cardinality(Passing(r, s)), STARTUP_BYTES)
    BY <2>1, <1>2 DEF Outcome
  <2>3. warm' = Path!Least(warm + Path!Passed(s), STARTUP_BYTES)
    BY <2>2, <1>1, <1>4, <1>7 DEF Smaller, Path!Least
  <2>4. CASE HasRun(Line(r, s))
    <3>1. g.health = "fail" /\ g.run = RCT_BYTES  BY <2>1, <2>4, <1>2 DEF Outcome
    <3>2. Path!Trips(s)  BY <2>4, <1>6
    <3> QED  BY <3>1, <3>2, <2>3, <1>1, <1>4, <1>9 DEF Path!Feed
  <2>5. CASE ~ HasRun(Line(r, s))
    <3>1. /\ EndsIn(Line(r, s), g.run) /\ g.health # "fail"
          /\ g.health = IF g.warm = STARTUP_BYTES THEN "ok" ELSE e
      BY <2>1, <2>5, <1>2 DEF Outcome
    <3>2. g.run <= RCT_BYTES  BY <1>3, TestsShape, Sizes
    <3>3. PICK t, z : t = Line(r, s) /\ z = g.run  OBVIOUS
    <3>4. t \in Seq(Byte)  BY <3>3, <1>5, LineIs
    <3>5. Cardinality({n \in 1 .. RCT_BYTES : n <= Len(t) /\ AllStuck(t, Len(t) - n + 1, n)}) = z
      BY <3>1, <3>2, <3>3, <3>4, RunCounted
    <3>6. Path!Stream(s) = t  BY <3>3, <1>1 DEF Path!Stream, Path!Bytes, Line
    <3>7. Path!RunAfter(s) = z
      <4>1. PICK N : N = {n \in 1 .. RCT_BYTES : n <= Len(t) /\ AllStuck(t, Len(t) - n + 1, n)}
        OBVIOUS
      <4>2. Path!RunAfter(s) = Path!Cardinality(N)
        BY <4>1, <3>6 DEF Path!RunAfter, Path!StuckAt, AllStuck
      <4>3. Path!Cardinality(N) = Cardinality(N)  BY PathCounts
      <4> QED  BY <4>1, <4>2, <4>3, <3>5
    <3>8. stuckRun' = Path!RunAfter(s)  BY <3>3, <3>7, <1>4
    <3>9. ~ Path!Trips(s)  BY <2>5, <1>6
    <3>10. health' = IF warm' = STARTUP_BYTES THEN "ok" ELSE health  BY <3>1, <1>1, <1>4
    <3> QED  BY <3>8, <3>9, <3>10, <2>3, <1>1, <1>9 DEF Path!Feed
  <2> QED  BY <2>4, <2>5
<1> QED  BY <1>8, <1>9

LEMMA RefillImplements ==
    ASSUME Data, RefillPool
    PROVE  Path!RngPipelineTask
<1>1. PICK q, p, h : q = RingBytes /\ p = PoolBytes /\ h = Verdict  OBVIOUS
<1>2. PICK m : m = MovedOf(q, p)  OBVIOUS
<1>3. trngRing \in Ring(RING_BYTES) /\ pool \in Ring(POOL_BYTES) /\ h \in Tests
  BY <1>1 DEF Data
<1>4. q \in Seq(Byte) /\ p \in Seq(Byte)  BY <1>1, QueuesAre
<1>5. /\ m \in 0 .. Len(q)
      /\ RingBytes' = SubSeq(q, m + 1, Len(q)) /\ PoolBytes' = p \o SubSeq(q, 1, m)
      /\ Verdict' = Fed(h, SubSeq(q, 1, m))
      /\ UNCHANGED <<initialised, paused, source>>
  BY <1>1, <1>2, <1>3, RefillIs
<1>6. Path!Moved = m
  BY <1>1, <1>2 DEF Path!Moved, Path!PoolFree, Path!Least, MovedOf, Smaller, RingBytes, PoolBytes
<1>7. PICK s : s = SubSeq(q, 1, m)  OBVIOUS
<1>8. s \in Seq(Byte)  BY <1>4, <1>5, <1>7, Prefix
<1>9. Path!Feed(s)  BY <1>1, <1>5, <1>7, <1>8, FeedIs
<1>10. SubSeq(Held(trngRing, RING_BYTES), 1, Path!Moved) = s
  BY <1>1, <1>6, <1>7 DEF RingBytes
<1> QED  BY <1>1, <1>5, <1>6, <1>7, <1>9, <1>10 DEF Path!RngPipelineTask, RingBytes, PoolBytes

LEMMA TrngTaskImplements ==
    ASSUME Data, TrngTask
    PROVE  Path!TrngTask \/ \E k \in 0 .. (CHUNK - 1) : Path!TrngTaskSourceDies(k)
<1>1. PICK q, b : q = RingBytes /\ b = source  OBVIOUS
<1>2. /\ UNCHANGED <<pool, initialised, paused, health, warm, stuckRun>>
      /\ IF initialised /\ ~ paused /\ Free(trngRing, RING_BYTES) >= CHUNK
         THEN \E k \in 0 .. CHUNK :
                /\ RingBytes' = RingBytes \o Pulled(source, k)
                /\ k # CHUNK => source = "live"
                /\ source' = IF k < CHUNK THEN "stuck" ELSE source
         ELSE RingBytes' = RingBytes /\ source' = source
  BY TrngTaskIs
<1>3. PoolBytes' = PoolBytes  BY <1>2 DEF PoolBytes
<1>4. CHUNK \in Nat \ {0}  BY Sizes
<1>5. Path!TrngReady <=> initialised /\ ~ paused /\ Free(trngRing, RING_BYTES) >= CHUNK
  BY QueuesAre DEF Path!TrngReady, Path!RingFree, RingBytes
<1>6. CASE ~ Path!TrngReady
  <2>1. RingBytes' = RingBytes /\ source' = source  BY <1>2, <1>5, <1>6
  <2> QED  BY <2>1, <1>2, <1>3, <1>6 DEF Path!TrngTask, RingBytes, PoolBytes
<1>7. CASE Path!TrngReady
  <2>1. PICK k \in 0 .. CHUNK : /\ RingBytes' = q \o Pulled(b, k)
                                /\ k # CHUNK => source = "live"
                                /\ source' = IF k < CHUNK THEN "stuck" ELSE source
    BY <1>1, <1>2, <1>5, <1>7
  <2>2. CASE k = CHUNK
    <3>1. Pulled(b, k) = Path!Bytes(b, CHUNK)
      <4>1. \A i \in 1 .. CHUNK : i <= k  BY <2>2, <1>4
      <4> QED  BY <4>1 DEF Pulled, Path!Bytes
    <3>2. source' = source  BY <2>1, <2>2, <1>4
    <3> QED
      BY <3>1, <3>2, <2>1, <1>1, <1>2, <1>3, <1>7 DEF Path!TrngTask, RingBytes, PoolBytes
  <2>3. CASE k # CHUNK
    <3>1. k \in 0 .. (CHUNK - 1) /\ k \in Nat /\ k < CHUNK /\ CHUNK - k \in Nat
      BY <2>1, <2>3, <1>4
    <3>2. source = "live" /\ b = "live" /\ source' = "stuck"  BY <3>1, <2>1, <2>3, <1>1
    <3>3. PICK u, v, c : /\ u = [i \in 1 .. k |-> "live"] /\ v = [i \in 1 .. (CHUNK - k) |-> "stuck"]
                         /\ c = CHUNK
      OBVIOUS
    <3>4. /\ u \in Seq(Byte) /\ v \in Seq(Byte) /\ Len(u) = k /\ Len(v) = c - k
          /\ c \in Nat /\ k < c
      BY <3>1, <3>3, <1>4 DEF Byte
    <3>5. PICK x, y : x = u \o v /\ y = Pulled("live", k)  OBVIOUS
    <3>6. x \in Seq(Byte) /\ Len(x) = k + (c - k)
          /\ \A i \in 1 .. Len(x) : x[i] = IF i <= k THEN u[i] ELSE v[i - k]
      <4>1. u \in Seq(Byte) /\ v \in Seq(Byte)  BY <3>4
      <4>2. /\ u \o v \in Seq(Byte) /\ Len(u \o v) = Len(u) + Len(v)
            /\ \A i \in 1 .. Len(u \o v) :
                 (u \o v)[i] = IF i <= Len(u) THEN u[i] ELSE v[i - Len(u)]
        BY <4>1, ConcatProperties
      <4> QED  BY <4>2, <3>4, <3>5
    <3>7. Len(x) = c /\ DOMAIN x = 1 .. c
      <4>1. Len(x) = c  BY <3>4, <3>6, <3>1
      <4> QED  BY <4>1, <3>6
    <3>8. DOMAIN y = 1 .. c /\ y = [i \in 1 .. c |-> y[i]]  BY <3>3, <3>5 DEF Pulled
    <3>9. ASSUME NEW i \in 1 .. c  PROVE x[i] = y[i]
      <4>1. y[i] = IF i <= k THEN "live" ELSE "stuck"  BY <3>3, <3>5 DEF Pulled
      <4>2. CASE i <= k
        <5>1. i \in 1 .. k  BY <4>2, <3>1
        <5>2. x[i] = u[i]  BY <4>2, <3>6, <3>7
        <5> QED  BY <4>1, <4>2, <5>1, <5>2, <3>3
      <4>3. CASE ~ (i <= k)
        <5>1. i - k \in 1 .. (c - k)  BY <4>3, <3>1, <3>4
        <5>2. x[i] = v[i - k]  BY <4>3, <3>6, <3>7
        <5>3. v[i - k] = "stuck"  BY <5>1, <3>3
        <5> QED  BY <4>1, <4>3, <5>2, <5>3
      <4> QED  BY <4>2, <4>3
    <3>10. x = y
      <4>1. x = [i \in 1 .. c |-> x[i]]  BY <3>6, <3>7
      <4> QED  BY <4>1, <3>8, <3>9
    <3>11. RingBytes' = (q \o u) \o v
      <4>1. q \in Seq(Byte)  BY <1>1, QueuesAre
      <4>3. u \in Seq(Byte) /\ v \in Seq(Byte)  BY <3>4
      <4>4. (q \o u) \o v = q \o (u \o v)  BY <4>1, <4>3, ConcatAssociative, SMTT(30)
      <4>2. (q \o u) \o v = q \o x  BY <4>4, <3>5
      <4> QED  BY <4>2, <3>2, <3>5, <3>10, <2>1
    <3>12. u = Path!Bytes("live", k) /\ v = Path!Bytes("stuck", CHUNK - k)
      BY <3>3 DEF Path!Bytes
    <3>13. Path!TrngTaskSourceDies(k)
      BY <3>2, <3>11, <3>12, <1>1, <1>2, <1>3, <1>7
      DEF Path!TrngTaskSourceDies, RingBytes, PoolBytes
    <3> QED  BY <3>1, <3>13
  <2> QED  BY <2>2, <2>3
<1> QED  BY <1>6, <1>7

LEMMA InitImplements == Init => Path!EntropyInit /\ source \in Path!Byte
<1> SUFFICES ASSUME Init  PROVE Path!EntropyInit /\ source \in Path!Byte  OBVIOUS
<1>1. Held(trngRing, RING_BYTES) = << >>  BY Sizes, StartIsEmpty DEF Init
<1>2. Held(pool, POOL_BYTES) = << >>  BY Sizes, StartIsEmpty DEF Init
<1> QED  BY <1>1, <1>2 DEF Init, Path!EntropyInit, Path!Byte

LEMMA NextImplements == IInv /\ [Next]_vars => [Path!PathNext]_(Path!entropyVars)
<1> SUFFICES ASSUME IInv, [Next]_vars  PROVE [Path!PathNext]_(Path!entropyVars)
  OBVIOUS
<1>1. Data /\ CallState  BY DEF IInv
<1>2. CASE PipelineInit
  <2>1. Held(trngRing, RING_BYTES)' = << >> /\ Held(pool, POOL_BYTES)' = Held(pool, POOL_BYTES)
    BY <1>1, <1>2, DataPipelineInit DEF RingBytes, PoolBytes
  <2>2. Path!RngPipelineInit  BY <2>1, <1>2 DEF PipelineInit, Path!RngPipelineInit
  <2> QED  BY <2>2 DEF Path!PathNext
<1>3. CASE LoopTrngTask \/ Sample
  <2>1. TrngTask  BY <1>3 DEF LoopTrngTask, Sample
  <2> QED  BY <2>1, <1>1, TrngTaskImplements DEF Path!PathNext
<1>4. CASE LoopPipelineTask \/ Refill
  <2>1. RefillPool  BY <1>4 DEF LoopPipelineTask, Refill
  <2> QED  BY <2>1, <1>1, RefillImplements DEF Path!PathNext
<1>5. CASE GetRandom
  <2>1. /\ RingBytes' = SubSeq(RingBytes, RAW_BYTES + 1, Len(RingBytes))
        /\ UNCHANGED <<pool, initialised, paused, health, warm, stuckRun, source>>
    BY <1>1, <1>5, DataGetRandom DEF GetRandom, healthVars
  <2>2. PoolBytes' = PoolBytes  BY <2>1 DEF PoolBytes
  <2>3. Path!RawReady
    BY <1>1, <1>5, QueuesAre DEF GetRandom, Path!RawReady, RingBytes
  <2>4. Path!TakeRaw  BY <2>1, <2>2, <2>3 DEF Path!TakeRaw, RingBytes, PoolBytes
  <2> QED  BY <2>4 DEF Path!PathNext
<1>6. CASE SetPaused
  <2>1. /\ paused' = ~ paused /\ paused' \in BOOLEAN
        /\ UNCHANGED <<trngRing, pool, initialised, health, warm, stuckRun, source>>
    BY <1>1, <1>6 DEF SetPaused, healthVars, Data
  <2>2. RingBytes' = RingBytes /\ PoolBytes' = PoolBytes  BY <2>1 DEF RingBytes, PoolBytes
  <2>3. Path!SetPaused(paused')  BY <2>1, <2>2 DEF Path!SetPaused, RingBytes, PoolBytes
  <2> QED  BY <2>1, <2>3 DEF Path!PathNext
<1>7. CASE Block
  <2>1. Enough  BY <1>1, <1>7 DEF CallState, Block, Goto
  <2>2. /\ PoolBytes' = SubSeq(PoolBytes, RAW_BYTES + 1, Len(PoolBytes))
        /\ health = "ok" /\ RAW_BYTES <= Len(PoolBytes)
        /\ UNCHANGED <<trngRing, initialised, paused, health, warm, stuckRun, source>>
    BY <2>1, <1>1, <1>7, DataBlock, QueuesAre DEF Block, Healthy, healthVars
  <2>3. RingBytes' = RingBytes  BY <2>2 DEF RingBytes
  <2>4. Len(PoolBytes) >= RAW_BYTES
    <3>1. PICK l : l = Len(PoolBytes)  OBVIOUS
    <3>2. l \in Nat /\ RAW_BYTES <= l
      <4>1. PoolBytes \in Seq(Byte)  BY <1>1, QueuesAre
      <4> QED  BY <4>1, <3>1, <2>2
    <3> QED  BY <3>1, <3>2, Sizes
  <2>5. Path!TakeBlock  BY <2>2, <2>3, <2>4 DEF Path!TakeBlock, RingBytes, PoolBytes
  <2> QED  BY <2>5 DEF Path!PathNext
<1>8. CASE Call \/ Leave \/ Done \/ Ready \/ TimesOut \/ Refused \/ UNCHANGED vars
  <2>1. UNCHANGED <<trngRing, pool, initialised, paused, health, warm, stuckRun, source>>
    BY <1>8 DEF Call, Leave, Done, Ready, TimesOut, Refused, Return, Still, vars, healthVars
  <2> QED  BY <2>1 DEF Path!entropyVars
<1> QED  BY <1>2, <1>3, <1>4, <1>5, <1>6, <1>7, <1>8 DEF Next, InCall

(* The arrays with their masked indices and the refill loop behave as the  *)
(* queues of EntropyPath: no byte is overwritten, lost, repeated or passed *)
(* on untested, for buffers, chunks and blocks of every size.              *)
THEOREM Implements == Spec => ImplementsPath
<1>1. Init => Path!EntropyInit /\ source \in Path!Byte  BY InitImplements
<1>2. IInv /\ [Next]_vars => [Path!PathNext]_(Path!entropyVars)  BY NextImplements
<1> QED
  BY <1>1, <1>2, InvariantHolds, PTL DEF Spec, ImplementsPath, Path!PathSpec
================================================================================
