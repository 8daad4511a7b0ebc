----------------------------- MODULE RngPipelineMC -----------------------------
(***************************************************************************)
(* RngPipeline on small buffers, with the SHA-256 of module Sha256 checked *)
(* against the examples of FIPS 180-4: the digest of "abc", and that of a  *)
(* message of 56 bytes, whose padding needs a second block.                *)
(***************************************************************************)
EXTENDS RngPipeline

Hash == INSTANCE Sha256

Abc       == <<97, 98, 99>>
TwoBlocks == [i \in 1 .. 56 |-> 97 + ((i - 1) \div 4) + ((i - 1) % 4)]

(* Eight words of two halves each. *)
Words(h) == [i \in 1 .. 8 |-> Hash!Word(h[2 * i - 1], h[2 * i])]

ASSUME KnownDigests ==
    /\ Hash!sha256(Abc) = Words(<<
          \hba78, \h16bf, \h8f01, \hcfea, \h4141, \h40de, \h5dae, \h2223,
          \hb003, \h61a3, \h9617, \h7a9c, \hb410, \hff61, \hf200, \h15ad >>)
    /\ Hash!sha256(TwoBlocks) = Words(<<
          \h248d, \h6a61, \hd206, \h38b8, \he5c0, \h2693, \h0c3e, \h6039,
          \ha33c, \he459, \h64ff, \h2167, \hf6ec, \hedd4, \h19db, \h06c1 >>)
================================================================================
