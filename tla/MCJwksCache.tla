---------------------------- MODULE MCJwksCache ----------------------------
(***************************************************************************)
(* Two requests in flight, an old key and its successor, one failed fetch. *)
(* ttlMs is two minutes instead of ten and the clock counts minutes: what  *)
(* the code compares is only which of the two ages is passed.              *)
(***************************************************************************)
EXTENDS JwksCache, TLC

CONSTANTS r1, r2, old, new

Symmetry == Permutations({r1, r2})
=============================================================================
