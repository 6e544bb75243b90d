--------------------------- MODULE MCProductCache ---------------------------
(* The instances of ProductCache for TLC: MCProductCache.cfg (an id that   *)
(* is seeded and one that is not), MCProductRemoved.cfg (one row, two      *)
(* fields).                                                                *)
EXTENDS ProductCache

(* Every body, or those without a column and those of a row: the id that   *)
(* is never seeded then fails in its UPDATE, the other one in its SELECT   *)
(* too as long as it has no row.                                           *)
AllBodies  == Products \X SUBSET Fields
SomeBodies == {b \in AllBodies : b[2] = {} \/ b[1] \in Rows}
=============================================================================
