----------------------------- MODULE MCOciCache -----------------------------
(***************************************************************************)
(* A small registry for OciCache: two artifacts, one of which lacks a file *)
(* of the other.                                                           *)
(***************************************************************************)
EXTENDS OciCache, TLC

CONSTANTS d1, d2, p, q

TwoFiles == {"app", "gone"}
TwoFilesIn == [d \in {d1, d2} |-> IF d = d1 THEN TwoFiles ELSE {"app"}]

Alike == Permutations({p, q})

=============================================================================
