--------------------------------- MODULE Sha256 ---------------------------------
(***************************************************************************)
(* mcu/sha256.c, the conditioning function of rng_pipeline.c.  A word of   *)
(* 32 bits is the set of its 1 bits.  The chaining value ctx->state is     *)
(* represented by the bytes it has absorbed, from which Digest computes    *)
(* it; everything else of the context is as in the code.                   *)
(***************************************************************************)
EXTENDS Integers, Sequences

SHA256_BLOCK_BYTES == 64
LENGTH_AT          == 56    \* where the length goes in the last block

(* A word of two halves of 16 bits, and of four bytes, most significant first. *)
BitsOf(n, low) == {low + i : i \in {j \in 0 .. 15 : (n \div 2 ^ j) % 2 = 1}}

Word(hi, lo) == BitsOf(hi, 16) \cup BitsOf(lo, 0)

BigEndian(b, at) == Word(256 * b[at] + b[at + 1], 256 * b[at + 2] + b[at + 3])

K == <<
      Word(\h428a, \h2f98), Word(\h7137, \h4491), Word(\hb5c0, \hfbcf), Word(\he9b5, \hdba5),
      Word(\h3956, \hc25b), Word(\h59f1, \h11f1), Word(\h923f, \h82a4), Word(\hab1c, \h5ed5),
      Word(\hd807, \haa98), Word(\h1283, \h5b01), Word(\h2431, \h85be), Word(\h550c, \h7dc3),
      Word(\h72be, \h5d74), Word(\h80de, \hb1fe), Word(\h9bdc, \h06a7), Word(\hc19b, \hf174),
      Word(\he49b, \h69c1), Word(\hefbe, \h4786), Word(\h0fc1, \h9dc6), Word(\h240c, \ha1cc),
      Word(\h2de9, \h2c6f), Word(\h4a74, \h84aa), Word(\h5cb0, \ha9dc), Word(\h76f9, \h88da),
      Word(\h983e, \h5152), Word(\ha831, \hc66d), Word(\hb003, \h27c8), Word(\hbf59, \h7fc7),
      Word(\hc6e0, \h0bf3), Word(\hd5a7, \h9147), Word(\h06ca, \h6351), Word(\h1429, \h2967),
      Word(\h27b7, \h0a85), Word(\h2e1b, \h2138), Word(\h4d2c, \h6dfc), Word(\h5338, \h0d13),
      Word(\h650a, \h7354), Word(\h766a, \h0abb), Word(\h81c2, \hc92e), Word(\h9272, \h2c85),
      Word(\ha2bf, \he8a1), Word(\ha81a, \h664b), Word(\hc24b, \h8b70), Word(\hc76c, \h51a3),
      Word(\hd192, \he819), Word(\hd699, \h0624), Word(\hf40e, \h3585), Word(\h106a, \ha070),
      Word(\h19a4, \hc116), Word(\h1e37, \h6c08), Word(\h2748, \h774c), Word(\h34b0, \hbcb5),
      Word(\h391c, \h0cb3), Word(\h4ed8, \haa4a), Word(\h5b9c, \hca4f), Word(\h682e, \h6ff3),
      Word(\h748f, \h82ee), Word(\h78a5, \h636f), Word(\h84c8, \h7814), Word(\h8cc7, \h0208),
      Word(\h90be, \hfffa), Word(\ha450, \h6ceb), Word(\hbef9, \ha3f7), Word(\hc671, \h78f2) >>

InitialState == <<
      Word(\h6a09, \he667), Word(\hbb67, \hae85), Word(\h3c6e, \hf372), Word(\ha54f, \hf53a),
      Word(\h510e, \h527f), Word(\h9b05, \h688c), Word(\h1f83, \hd9ab), Word(\h5be0, \hcd19) >>

--------------------------------------------------------------------------------
(* _compress *)

xor(x, y) == (x \cup y) \ (x \cap y)

rotr32(x, n) == {(i - n) % 32 : i \in x}

shr(x, n) == {i - n : i \in {j \in x : j >= n}}

(* Addition modulo 2^32: a carry reaches bit i from a bit below that both  *)
(* words have, through bits that one of them has.                          *)
add(x, y) ==
    LET carried == {i \in 1 .. 31 : \E j \in x \cap y :
                      j < i /\ \A k \in (j + 1) .. (i - 1) : k \in x \cup y}
    IN  xor(xor(x, y), carried)

(* The message schedule w, extended word by word from those of the block. *)
Schedule(block) ==
    LET w[n \in 16 .. 64] ==
          IF n = 16 THEN [i \in 1 .. 16 |-> BigEndian(block, 4 * i - 3)]
          ELSE LET v  == w[n - 1]
                   s0 == xor(xor(rotr32(v[n - 15], 7), rotr32(v[n - 15], 18)), shr(v[n - 15], 3))
                   s1 == xor(xor(rotr32(v[n - 2], 17), rotr32(v[n - 2], 19)), shr(v[n - 2], 10))
               IN  Append(v, add(add(v[n - 16], s0), add(v[n - 7], s1)))
    IN  w[64]

(* One round.  The eight words are four pairs, <<a, e>>, <<b, f>>, <<c, g>> *)
(* and <<d, h>>, of which a round makes a new first one and drops the last. *)
Round(p, q, r, s, k, w) ==
    LET S1 == xor(xor(rotr32(p[2], 6), rotr32(p[2], 11)), rotr32(p[2], 25))
        ch == xor(p[2] \cap q[2], r[2] \ p[2])
        t1 == add(add(add(s[2], S1), add(ch, k)), w)
        S0 == xor(xor(rotr32(p[1], 2), rotr32(p[1], 13)), rotr32(p[1], 22))
        mj == xor(xor(p[1] \cap q[1], p[1] \cap r[1]), q[1] \cap r[1])
    IN  <<add(t1, add(S0, mj)), add(s[1], t1)>>

compress(state, block) ==
    LET w == Schedule(block)
        rounds[n \in 0 .. 64] ==
          IF n = 0 THEN [i \in 1 .. 4 |-> <<state[5 - i], state[9 - i]>>]
          ELSE LET v == rounds[n - 1]
               IN  Append(v, Round(v[n + 3], v[n + 2], v[n + 1], v[n], K[n], w[n]))
        last == rounds[64]
    IN  [i \in 1 .. 8 |-> add(state[i], last[68 - ((i - 1) % 4)][1 + ((i - 1) \div 4)])]

(* The chaining value of a context that has absorbed these bytes. *)
Digest(bytes) ==
    LET s[n \in Nat] == IF n = 0 THEN InitialState
                        ELSE compress(s[n - 1], SubSeq(bytes, 64 * n - 63, 64 * n))
    IN  s[Len(bytes) \div 64]

--------------------------------------------------------------------------------
(* sha256_init, sha256_update, sha256_final and sha256 *)

Context == [absorbed : Seq(0 .. 255), buf : Seq(0 .. 255), bit_len : Nat]

NewContext == [absorbed |-> << >>, buf |-> << >>, bit_len |-> 0]

(* The loop over whole blocks, and what it leaves. *)
WholeBlocks(d) == SHA256_BLOCK_BYTES * (Len(d) \div SHA256_BLOCK_BYTES)

AbsorbBlocks(absorbed, d, bits) ==
    [absorbed |-> absorbed \o SubSeq(d, 1, WholeBlocks(d)),
     buf      |-> SubSeq(d, WholeBlocks(d) + 1, Len(d)),
     bit_len  |-> bits]

Update(ctx, d) ==
    LET need == SHA256_BLOCK_BYTES - Len(ctx.buf)
        bits == ctx.bit_len + 8 * Len(d)
    IN  IF ctx.buf = << >>
        THEN AbsorbBlocks(ctx.absorbed, d, bits)
        ELSE IF Len(d) < need
        THEN [absorbed |-> ctx.absorbed, buf |-> ctx.buf \o d, bit_len |-> bits]
        ELSE AbsorbBlocks(ctx.absorbed \o (ctx.buf \o SubSeq(d, 1, need)),
                          SubSeq(d, need + 1, Len(d)), bits)

Zeros(n) == [i \in 1 .. n |-> 0]

(* The eight bytes of the length, most significant first. *)
LengthBytes(n) ==
    LET above[k \in Nat] == IF k = 0 THEN n ELSE above[k - 1] \div 256
    IN  [i \in 1 .. 8 |-> above[8 - i] % 256]

(* What sha256_final has absorbed in the end. *)
Finish(ctx) ==
    LET marked == Append(ctx.buf, 128)
        full   == Len(marked) > LENGTH_AT
        first  == IF full THEN marked \o Zeros(SHA256_BLOCK_BYTES - Len(marked)) ELSE << >>
        last   == IF full THEN << >> ELSE marked
    IN  ctx.absorbed \o first
          \o (last \o Zeros(LENGTH_AT - Len(last)) \o LengthBytes(ctx.bit_len))

sha256(data) == Digest(Finish(Update(NewContext, data)))
================================================================================
