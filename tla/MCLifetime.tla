----------------------------- MODULE MCLifetime -----------------------------
(* Small heaps for TLC: the objects are model values.                       *)
EXTENDS Lifetime
=============================================================================
