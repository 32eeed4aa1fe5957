------------------------------ MODULE MCBtree -------------------------------
(* Model-checking instance of Btree: an order that grows to three levels;   *)
(* one that is read with the cursor while pages are split, freed and used   *)
(* again; two orders and a page of records that take over each other's      *)
(* pages, where the first order splits and where the second one does.       *)
EXTENDS Btree

Use(recno, name, seek, data, pages) ==
  [keys |-> [recno |-> recno, name |-> name], seek |-> seek, data |-> data, pages |-> pages]

MCUses == {Use(1..6, {}, FALSE, 0, 8), Use(1..4, {}, TRUE, 0, 5),
           Use(1..4, 1..3, FALSE, 1, 5), Use(1..1, 1..4, FALSE, 1, 4)}
=============================================================================
