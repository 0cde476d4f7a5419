--------------------------- MODULE MCVisaSessions ---------------------------
(* One address: sessions of different addresses share nothing but the      *)
(* table.  Three threads, so that two connects and a disconnect or a lease *)
(* overlap.                                                                *)
EXTENDS VisaSessions, TLC

Symmetry == Permutations(Resources) \union Permutations(Threads)
=============================================================================
