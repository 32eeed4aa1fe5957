------------------------------- MODULE MCTable ------------------------------
(* Model-checking instance of Table: two processes that change and delete   *)
(* the records of a file; that append, delete and use records again; that   *)
(* insert keys.                                                             *)
EXTENDS Table

CONSTANTS p1, p2

Use(keys, a, b) == [op |-> [p \in Process |-> IF p = p1 THEN a ELSE b], keys |-> keys]

MCUses == {
  Use(<<1, 2>>, {"seek", "lock", "val", "key"}, {"goto", "lock", "val", "key", "delete", "crash"}),
  Use(<<1>>, {"append", "key", "delete"}, {"append", "lock", "delete", "crash"}),
  Use(<<2>>, {"insert", "delete", "crash"}, {"insert", "key", "lock", "delete"})}

(* Both processes insert.                                                   *)
MCInsert == {Use(<<>>, {"insert"}, {"insert"})}

(* Both write to a field, one of them without a lock.                       *)
MCUnlocked == {Use(<<1>>, {"val"}, {"lock", "val"})}
=============================================================================
