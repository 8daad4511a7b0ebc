----------------------------- MODULE Sha256_proofs -----------------------------
(***************************************************************************)
(* That sha256_update and sha256_final of mcu/sha256.c, however the caller *)
(* cuts its message, compress the blocks that FIPS 180-4 pads it to.       *)
(***************************************************************************)
EXTENDS Sha256, SequenceTheorems, TLAPS

Byte    == 0 .. 255

(* The context after the bytes of m. *)
Tracks(ctx, m) ==
    /\ ctx \in Context
    /\ m = ctx.absorbed \o ctx.buf
    /\ Len(ctx.absorbed) % SHA256_BLOCK_BYTES = 0
    /\ Len(ctx.buf) < SHA256_BLOCK_BYTES
    /\ ctx.bit_len = 8 * Len(m)

(* FIPS 180-4, 5.1.1: a 1 bit, the least number of zeros that leaves eight *)
(* bytes in the last block, and the length of the message in bits.         *)
Padded(m) == m \o (<<128>> \o Zeros((55 - Len(m)) % 64) \o LengthBytes(8 * Len(m)))

--------------------------------------------------------------------------------
(* Concatenation, as an operator the provers need not look into. *)
Cat(x, y) == x \o y

LEMMA Joined ==
    ASSUME NEW x \in Seq(Byte), NEW y \in Seq(Byte)
    PROVE  Cat(x, y) \in Seq(Byte) /\ Len(Cat(x, y)) = Len(x) + Len(y) /\ Len(x) \in Nat
  BY ConcatProperties, LenProperties DEF Cat

LEMMA Associates ==
    ASSUME NEW x \in Seq(Byte), NEW y \in Seq(Byte), NEW z \in Seq(Byte)
    PROVE  Cat(Cat(x, y), z) = Cat(x, Cat(y, z))
  BY ConcatAssociative DEF Cat

LEMMA TracksRecord ==
    ASSUME NEW f \in Seq(Byte), NEW e \in Seq(Byte), NEW n \in Nat, NEW m,
           m = Cat(f, e), Len(f) % 64 = 0, Len(e) < 64, n = 8 * Len(m)
    PROVE  Tracks([absorbed |-> f, buf |-> e, bit_len |-> n], m)
  BY DEF Tracks, Context, Byte, SHA256_BLOCK_BYTES, Cat

LEMMA Regrouped ==
    ASSUME NEW a \in Seq(Byte), NEW b \in Seq(Byte), NEW x \in Seq(Byte), NEW y \in Seq(Byte)
    PROVE  /\ Cat(Cat(a, Cat(b, x)), y) = Cat(Cat(a, b), Cat(x, y))
           /\ Cat(a, Cat(b, x)) \in Seq(Byte)
           /\ Len(Cat(a, Cat(b, x))) = Len(a) + Len(b) + Len(x)
  <1>1. Cat(b, x) \in Seq(Byte) /\ Cat(x, y) \in Seq(Byte) /\ Len(Cat(b, x)) = Len(b) + Len(x)
    BY Joined
  <1>2. Len(a) \in Nat /\ Len(b) \in Nat /\ Len(x) \in Nat
    BY Joined
  <1>3. Cat(Cat(a, Cat(b, x)), y) = Cat(a, Cat(Cat(b, x), y))
    BY <1>1, Associates
  <1>4. Cat(a, Cat(b, Cat(x, y))) = Cat(Cat(a, b), Cat(x, y))
    BY <1>1, Associates
  <1>5. Cat(Cat(b, x), y) = Cat(b, Cat(x, y))
    BY Associates
  <1>6. Cat(a, Cat(b, x)) \in Seq(Byte) /\ Len(Cat(a, Cat(b, x))) = Len(a) + Len(Cat(b, x))
    BY <1>1, Joined
  <1> QED  BY <1>1, <1>2, <1>3, <1>4, <1>5, <1>6

(* A message is its first n bytes and the rest. *)
LEMMA Cut ==
    ASSUME NEW d \in Seq(Byte), NEW n \in 0 .. Len(d)
    PROVE  /\ SubSeq(d, 1, n) \in Seq(Byte) /\ Len(SubSeq(d, 1, n)) = n
           /\ SubSeq(d, n + 1, Len(d)) \in Seq(Byte)
           /\ Len(SubSeq(d, n + 1, Len(d))) = Len(d) - n
           /\ Cat(SubSeq(d, 1, n), SubSeq(d, n + 1, Len(d))) = d
  <1>1. Len(d) \in Nat /\ \A i \in 1 .. Len(d) : d[i] \in Byte
    BY LenProperties, ElementOfSeq
  <1>2. SubSeq(d, 1, n) \in Seq(Byte) /\ Len(SubSeq(d, 1, n)) = n
    <2>1. \A i \in 1 .. n : d[i] \in Byte
      BY <1>1
    <2> QED  BY <1>1, <2>1, SubSeqProperties
  <1>3. /\ SubSeq(d, n + 1, Len(d)) \in Seq(Byte)
        /\ Len(SubSeq(d, n + 1, Len(d))) = Len(d) - n
    <2>1. \A i \in (n + 1) .. Len(d) : d[i] \in Byte
      BY <1>1
    <2> QED  BY <1>1, <2>1, SubSeqProperties
  <1>4. Cat(SubSeq(d, 1, n), SubSeq(d, n + 1, Len(d))) = d
    <2> DEFINE L == Len(d)
    <2>1. d \in Seq(Byte)
      OBVIOUS
    <2>2. 1 \in 1 .. L + 1 /\ n \in 1 - 1 .. L /\ L \in n .. L
      BY <1>1
    <2>3. SubSeq(d, 1, n) \o SubSeq(d, n + 1, L) = SubSeq(d, 1, L)
      BY ONLY <2>1, <2>2, ConcatAdjacentSubSeq, Zenon
    <2>4. SubSeq(d, 1, L) = d
      BY <2>1, SubSeqFull, Zenon
    <2> QED  BY <2>3, <2>4 DEF Cat
  <1> QED  BY <1>2, <1>3, <1>4

(* The loop over whole blocks, from a block boundary, tracks what it adds. *)
LEMMA AbsorbTracks ==
    ASSUME NEW a \in Seq(Byte), NEW d \in Seq(Byte),
           Len(a) % SHA256_BLOCK_BYTES = 0
    PROVE  Tracks(AbsorbBlocks(a, d, 8 * (Len(a) + Len(d))), Cat(a, d))
  <1> DEFINE n == 8 * (Len(a) + Len(d))
  <1>1. Len(a) \in Nat /\ Len(d) \in Nat
    BY LenProperties
  <1>2. WholeBlocks(d) \in 0 .. Len(d) /\ WholeBlocks(d) % 64 = 0 /\ Len(d) - WholeBlocks(d) < 64
    BY <1>1 DEF WholeBlocks, SHA256_BLOCK_BYTES
  <1> DEFINE x == SubSeq(d, 1, WholeBlocks(d))
             y == SubSeq(d, WholeBlocks(d) + 1, Len(d))
             f == Cat(a, x)
  <1>3. /\ x \in Seq(Byte) /\ y \in Seq(Byte) /\ Cat(x, y) = d
        /\ Len(x) = WholeBlocks(d) /\ Len(y) = Len(d) - WholeBlocks(d)
    BY <1>2, Cut
  <1>4. AbsorbBlocks(a, d, n) = [absorbed |-> f, buf |-> y, bit_len |-> n]
    BY DEF AbsorbBlocks, Cat
  <1> HIDE DEF x, y
  <1>5. f \in Seq(Byte) /\ Len(f) = Len(a) + Len(x) /\ Len(Cat(a, d)) = Len(a) + Len(d)
    BY <1>3, Joined
  <1>6. Cat(a, d) = Cat(f, y)
    BY <1>3, Associates
  <1> HIDE DEF f
  <1>7. Len(f) % 64 = 0
    <2>1. Len(a) % 64 = 0
      BY DEF SHA256_BLOCK_BYTES
    <2>2. Len(f) = Len(a) + WholeBlocks(d)
      BY <1>3, <1>5
    <2>3. \A i, j \in Nat : i % 64 = 0 /\ j % 64 = 0 => (i + j) % 64 = 0
      OBVIOUS
    <2>4. WholeBlocks(d) \in Nat /\ WholeBlocks(d) % 64 = 0
      BY <1>1, <1>2
    <2> QED  BY <1>1, <2>1, <2>2, <2>3, <2>4, Zenon
  <1>8. Len(y) < 64 /\ n = 8 * Len(Cat(a, d)) /\ n \in Nat
    BY <1>1, <1>2, <1>3, <1>5
  <1> HIDE DEF n
  <1>9. Tracks([absorbed |-> f, buf |-> y, bit_len |-> n], Cat(a, d))
    BY <1>3, <1>5, <1>6, <1>7, <1>8, TracksRecord
  <1> QED  BY <1>4, <1>9 DEF n

(* So does the block that the new bytes fill, with what follows it. *)
LEMMA FilledTracks ==
    ASSUME NEW a \in Seq(Byte), NEW b \in Seq(Byte), NEW x \in Seq(Byte), NEW y \in Seq(Byte),
           Len(a) % 64 = 0, Len(b) + Len(x) = 64
    PROVE  Tracks(AbsorbBlocks(Cat(a, Cat(b, x)), y, 8 * (Len(a) + Len(b) + Len(x) + Len(y))),
                  Cat(Cat(a, b), Cat(x, y)))
  <1> DEFINE f == Cat(a, Cat(b, x))
  <1>1. Cat(f, y) = Cat(Cat(a, b), Cat(x, y))
    BY Regrouped
  <1>2. f \in Seq(Byte) /\ Len(f) = Len(a) + Len(b) + Len(x)
    BY Regrouped
  <1>3. Len(a) \in Nat /\ Len(b) \in Nat /\ Len(x) \in Nat /\ Len(y) \in Nat
    BY Joined
  <1> HIDE DEF f
  <1>4. Len(f) % 64 = 0
    <2>1. Len(f) = Len(a) + 64
      BY <1>2, <1>3
    <2>2. \A i \in Nat : i % 64 = 0 => (i + 64) % 64 = 0
      OBVIOUS
    <2> QED  BY <1>3, <2>1, <2>2, Zenon
  <1>5. Tracks(AbsorbBlocks(f, y, 8 * (Len(f) + Len(y))), Cat(f, y))
    BY <1>2, <1>4, AbsorbTracks DEF SHA256_BLOCK_BYTES
  <1>6. 8 * (Len(f) + Len(y)) = 8 * (Len(a) + Len(b) + Len(x) + Len(y))
    BY <1>2
  <1> QED  BY <1>1, <1>5, <1>6 DEF f

(* sha256_init starts a message. *)
LEMMA NewTracks == Tracks(NewContext, << >>)
  <1>1. << >> \in Seq(Byte) /\ Len(<< >>) = 0 /\ << >> \o << >> = << >>
    BY EmptySeq, ConcatEmptySeq
  <1> QED  BY <1>1 DEF Tracks, NewContext, Context, Byte, SHA256_BLOCK_BYTES

(* sha256_update (sha256.c:85-112) after any message, for any more bytes:  *)
(* whether they stay in the buffer, fill it or run past it, no byte is     *)
(* lost, repeated or compressed before its block is whole.                 *)
THEOREM UpdateTracks ==
    ASSUME NEW ctx, NEW m \in Seq(Byte), NEW d \in Seq(Byte), Tracks(ctx, m)
    PROVE  Tracks(Update(ctx, d), m \o d)
  <1>1. PICK a, b \in Seq(Byte) :
           /\ ctx = [absorbed |-> a, buf |-> b, bit_len |-> 8 * Len(m)]
           /\ m = Cat(a, b) /\ Len(a) % 64 = 0 /\ Len(b) < 64
    BY DEF Tracks, Context, Byte, SHA256_BLOCK_BYTES, Cat
  <1>2. Len(a) \in Nat /\ Len(b) \in Nat /\ Len(d) \in Nat /\ Len(m) = Len(a) + Len(b)
    BY <1>1, Joined
  <1> DEFINE bits == 8 * Len(m) + 8 * Len(d)
  <1>3. bits = 8 * (Len(a) + Len(b) + Len(d)) /\ bits \in Nat
    BY <1>2
  <1>4. CASE b = << >>
    <2>1. m = a /\ Len(b) = 0
      BY <1>1, <1>4, ConcatEmptySeq DEF Cat
    <2>2. Update(ctx, d) = AbsorbBlocks(a, d, bits) /\ bits = 8 * (Len(a) + Len(d))
      BY <1>1, <1>2, <1>3, <1>4, <2>1 DEF Update
    <2>3. Tracks(Update(ctx, d), Cat(m, d))
      BY <1>1, <2>1, <2>2, AbsorbTracks DEF SHA256_BLOCK_BYTES
    <2> QED  BY <2>3 DEF Cat
  <1>5. CASE b # << >> /\ Len(d) < 64 - Len(b)
    <2> DEFINE e == Cat(b, d)
    <2>1. e \in Seq(Byte) /\ Len(e) = Len(b) + Len(d) /\ Len(Cat(m, d)) = Len(m) + Len(d)
      BY Joined
    <2>2. Update(ctx, d) = [absorbed |-> a, buf |-> e, bit_len |-> bits]
      BY <1>1, <1>5 DEF Update, SHA256_BLOCK_BYTES, Cat
    <2>3. Cat(m, d) = Cat(a, e)
      BY <1>1, Associates
    <2> HIDE DEF e
    <2>4. Len(e) < 64 /\ bits = 8 * Len(Cat(m, d))
      BY <1>2, <1>5, <2>1
    <2> HIDE DEF bits
    <2>5. Tracks(Update(ctx, d), Cat(m, d))
      BY <1>1, <1>3, <2>1, <2>2, <2>3, <2>4, TracksRecord
    <2> QED  BY <2>5 DEF Cat
  <1>6. CASE b # << >> /\ ~ (Len(d) < 64 - Len(b))
    <2> DEFINE n == 64 - Len(b)
               x == SubSeq(d, 1, n)
               y == SubSeq(d, n + 1, Len(d))
               f == Cat(a, Cat(b, x))
    <2>1. n \in 0 .. Len(d)
      BY <1>1, <1>2, <1>6
    <2>2. Update(ctx, d) = AbsorbBlocks(f, y, bits)
      BY <1>1, <1>6 DEF Update, SHA256_BLOCK_BYTES, Cat
    <2>3. /\ x \in Seq(Byte) /\ y \in Seq(Byte) /\ Cat(x, y) = d
          /\ Len(x) = n /\ Len(y) = Len(d) - n
      <3> HIDE DEF n
      <3> QED  BY <2>1, Cut
    <2> HIDE DEF x, y
    <2>4. bits = 8 * (Len(a) + Len(b) + Len(x) + Len(y)) /\ Len(b) + Len(x) = 64
      BY <1>1, <1>2, <1>3, <2>3
    <2> HIDE DEF bits, n
    <2>5. Tracks(AbsorbBlocks(f, y, bits), Cat(Cat(a, b), Cat(x, y)))
      BY <1>1, <2>3, <2>4, FilledTracks
    <2>6. Tracks(Update(ctx, d), Cat(m, d))
      BY <1>1, <2>2, <2>3, <2>5
    <2> QED  BY <2>6 DEF Cat
  <1> QED  BY <1>4, <1>5, <1>6

--------------------------------------------------------------------------------
(* Of runs of zeros, and of the parts of a padded message. *)
LEMMA ZerosJoin ==
    ASSUME NEW i \in Nat, NEW j \in Nat
    PROVE  Cat(Zeros(i), Zeros(j)) = Zeros(i + j)
  <1>1. Zeros(i) \in Seq({0}) /\ Zeros(j) \in Seq({0}) /\ Len(Zeros(i)) = i /\ Len(Zeros(j)) = j
    BY DEF Zeros
  <1>2. Zeros(i + j) \in Seq({0}) /\ Len(Zeros(i + j)) = i + j
    BY DEF Zeros
  <1>3. Cat(Zeros(i), Zeros(j)) \in Seq({0}) /\ Len(Cat(Zeros(i), Zeros(j))) = i + j
    BY <1>1, ConcatProperties DEF Cat
  <1> QED  BY <1>2, <1>3, SeqEqual

(* Joining sequences is associative. *)
LEMMA CatAssociative ==
    ASSUME NEW S, NEW s \in Seq(S), NEW t \in Seq(S), NEW u \in Seq(S)
    PROVE  Cat(Cat(s, t), u) = Cat(s, Cat(t, u))
  <1>1. (s \o t) \o u = s \o (t \o u)
    BY ConcatAssociative
  <1> QED  BY <1>1 DEF Cat

LEMMA PartsJoin ==
    ASSUME NEW S, NEW a \in Seq(S), NEW b \in Seq(S), NEW o \in Seq(S),
           NEW y \in Seq(S), NEW z \in Seq(S), NEW l \in Seq(S)
    PROVE  /\ Cat(Cat(a, << >>), Cat(Cat(Cat(b, o), z), l)) = Cat(Cat(a, b), Cat(Cat(o, z), l))
           /\ Cat(Cat(a, Cat(Cat(b, o), y)), Cat(Cat(<< >>, z), l))
                  = Cat(Cat(a, b), Cat(Cat(o, Cat(y, z)), l))
  <1>1. \A s, t \in Seq(S) : Cat(s, t) \in Seq(S)
    BY ConcatProperties DEF Cat
  <1>2. \A s, t, u \in Seq(S) : Cat(Cat(s, t), u) = Cat(s, Cat(t, u))
    BY CatAssociative
  <1>3. Cat(a, << >>) = a /\ Cat(<< >>, z) = z
    BY ConcatEmptySeq DEF Cat
  <1>4. Cat(Cat(Cat(b, o), z), l) = Cat(b, Cat(Cat(o, z), l))
    BY <1>1, <1>2
  <1>5. Cat(a, Cat(b, Cat(Cat(o, z), l))) = Cat(Cat(a, b), Cat(Cat(o, z), l))
    BY <1>1, <1>2
  <1>6. Cat(Cat(a, Cat(Cat(b, o), y)), Cat(z, l)) = Cat(a, Cat(Cat(Cat(b, o), y), Cat(z, l)))
    BY <1>1, <1>2, SMTT(30)
  <1>7. Cat(Cat(Cat(b, o), y), Cat(z, l)) = Cat(b, Cat(o, Cat(y, Cat(z, l))))
    <2>1. Cat(z, l) \in Seq(S) /\ Cat(y, Cat(z, l)) \in Seq(S) /\ Cat(b, o) \in Seq(S)
      BY <1>1
    <2>2. Cat(Cat(Cat(b, o), y), Cat(z, l)) = Cat(Cat(b, o), Cat(y, Cat(z, l)))
      BY <1>2, <2>1
    <2>3. Cat(Cat(b, o), Cat(y, Cat(z, l))) = Cat(b, Cat(o, Cat(y, Cat(z, l))))
      BY <1>2, <2>1
    <2> QED  BY <2>2, <2>3
  <1>8. Cat(o, Cat(y, Cat(z, l))) = Cat(Cat(o, Cat(y, z)), l)
    BY <1>1, <1>2
  <1>9. Cat(a, Cat(b, Cat(Cat(o, Cat(y, z)), l))) = Cat(Cat(a, b), Cat(Cat(o, Cat(y, z)), l))
    BY <1>1, <1>2
  <1> QED  BY <1>3, <1>4, <1>5, <1>6, <1>7, <1>8, <1>9

LEMMA ZerosNeeded ==
    ASSUME NEW p \in Nat, NEW q \in Nat, p % 64 = 0, q < 64
    PROVE  /\ q <= 55 => (55 - (p + q)) % 64 = 55 - q
           /\ q > 55 => (55 - (p + q)) % 64 = (63 - q) + 56
  OBVIOUS

(* sha256_final (sha256.c:114-139) compresses the message padded as FIPS   *)
(* 180-4 has it, with the length in a block of its own when fewer than     *)
(* eight bytes are left behind the mark.                                   *)
THEOREM FinishPads ==
    ASSUME NEW ctx, NEW m \in Seq(Byte), Tracks(ctx, m)
    PROVE  Finish(ctx) = Padded(m)
  <1> DEFINE a == ctx.absorbed
             b == ctx.buf
             o == <<128>>
             l == LengthBytes(8 * Len(m))
             S == Byte \cup {l[i] : i \in 1 .. 8}
  <1>1. /\ a \in Seq(Byte) /\ b \in Seq(Byte) /\ m = Cat(a, b) /\ ctx.bit_len = 8 * Len(m)
        /\ Len(a) % 64 = 0 /\ Len(b) < 64
    BY DEF Tracks, Context, Byte, SHA256_BLOCK_BYTES, Cat
  <1>2. Len(a) \in Nat /\ Len(b) \in Nat /\ Len(m) = Len(a) + Len(b)
    BY <1>1, Joined
  <1>3. a \in Seq(S) /\ b \in Seq(S) /\ o \in Seq(S) /\ l \in Seq(S)
    <2>1. l = [i \in 1 .. 8 |-> l[i]]
      BY DEF LengthBytes
    <2>3. l \in Seq(S)
      <3>1. \A i \in 1 .. 8 : l[i] \in S
        OBVIOUS
      <3> HIDE DEF l, S
      <3> QED  BY <2>1, <3>1
    <2>2. Byte \subseteq S /\ 128 \in Byte
      BY DEF Byte
    <2> HIDE DEF S, l, a, b
    <2> QED  BY <1>1, <2>3, <2>2, SeqMonotonic
  <1>4. \A n \in Nat : Zeros(n) \in Seq(S)
    BY DEF Zeros, Byte
  <1>5. Append(b, 128) = Cat(b, o) /\ Len(Append(b, 128)) = Len(b) + 1
    <2>1. 128 \in Byte
      BY DEF Byte
    <2> HIDE DEF b
    <2>2. Append(b, 128) = Cat(b, o)
      BY <1>1, <2>1, AppendIsConcat DEF Cat
    <2>3. Len(Append(b, 128)) = Len(b) + 1
      BY <1>1, <2>1, AppendProperties
    <2> QED  BY <2>2, <2>3
  <1>6. Padded(m) = Cat(Cat(a, b), Cat(Cat(o, Zeros((55 - Len(m)) % 64)), l))
    BY <1>1 DEF Padded, Cat
  <1> DEFINE mark == Append(b, 128)
  <1>9. Finish(ctx) =
          IF Len(mark) > 56
          THEN Cat(Cat(a, Cat(mark, Zeros(64 - Len(mark)))), Cat(Cat(<< >>, Zeros(56 - Len(<< >>))), l))
          ELSE Cat(Cat(a, << >>), Cat(Cat(mark, Zeros(56 - Len(mark))), l))
    BY <1>1, ZenonT(30) DEF Finish, Cat, LENGTH_AT, SHA256_BLOCK_BYTES
  <1> HIDE DEF S, l, a, b, o, mark
  <1>10. Len(mark) = Len(b) + 1 /\ mark = Cat(b, o)
    BY <1>5 DEF mark
  <1>7. CASE Len(b) <= 55
    <2>1. (55 - Len(m)) % 64 = 55 - Len(b) /\ 56 - Len(mark) = 55 - Len(b)
      <3>1. (55 - (Len(a) + Len(b))) % 64 = 55 - Len(b)
        BY <1>1, <1>2, <1>7, ZerosNeeded
      <3> QED  BY <1>1, <1>2, <1>7, <1>10, <3>1
    <2>2. Finish(ctx) = Cat(Cat(a, << >>), Cat(Cat(Cat(b, o), Zeros(55 - Len(b))), l))
      BY <1>2, <1>7, <1>9, <1>10, <2>1
    <2>3. Zeros(55 - Len(b)) \in Seq(S)
      BY <1>2, <1>4, <1>7
    <2> QED  BY <1>3, <1>6, <2>1, <2>2, <2>3, PartsJoin
  <1>8. CASE Len(b) > 55
    <2>1. (55 - Len(m)) % 64 = (63 - Len(b)) + 56 /\ 64 - Len(mark) = 63 - Len(b)
      <3>1. (55 - (Len(a) + Len(b))) % 64 = (63 - Len(b)) + 56
        BY <1>1, <1>2, <1>8, ZerosNeeded
      <3> QED  BY <1>1, <1>2, <1>8, <1>10, <3>1
    <2>2. Finish(ctx) = Cat(Cat(a, Cat(Cat(b, o), Zeros(63 - Len(b)))),
                            Cat(Cat(<< >>, Zeros(56)), l))
      BY <1>2, <1>8, <1>9, <1>10, <2>1
    <2>3. Zeros(63 - Len(b)) \in Seq(S) /\ Zeros(56) \in Seq(S)
      <3>1. 63 - Len(b) \in Nat /\ 56 \in Nat
        BY <1>1, <1>2
      <3> QED  BY <3>1, <1>4, Zenon
    <2>4. Zeros((55 - Len(m)) % 64) = Cat(Zeros(63 - Len(b)), Zeros(56))
      BY <1>1, <1>2, <1>8, <2>1, ZerosJoin
    <2> QED  BY <1>3, <1>6, <2>2, <2>3, <2>4, PartsJoin, SMTT(30)
  <1> QED  BY <1>2, <1>7, <1>8

(* sha256 (sha256.c:141-146) is the digest of the padded message. *)
THEOREM DigestsPadded ==
    ASSUME NEW m \in Seq(Byte)
    PROVE  sha256(m) = Digest(Padded(m))
  <1>1. << >> \in Seq(Byte) /\ << >> \o m = m
    BY ConcatEmptySeq, EmptySeq
  <1>2. Tracks(Update(NewContext, m), << >> \o m)
    BY <1>1, NewTracks, UpdateTracks
  <1>3. Finish(Update(NewContext, m)) = Padded(m)
    BY <1>1, <1>2, FinishPads
  <1> QED  BY <1>3 DEF sha256

================================================================================
