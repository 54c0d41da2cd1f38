---------------------------- MODULE MCPagesSystem ----------------------------
(* Small instances of PagesSystem for TLC. *)
EXTENDS PagesSystem, TLC

CONSTANTS p1, p2, p3, l1, l2, a1, a2, m1, m2, f1, f2

Symmetry == Permutations({p1, p2, p3}) \cup Permutations({l1, l2})
               \cup Permutations({m1, m2}) \cup Permutations({a1, a2})
               \cup Permutations({f1, f2})
=============================================================================
