---------------------------- MODULE MCTransaction ---------------------------
(* Model-checking instance of Transaction: programs that change, append,    *)
(* insert, delete and synchronise records in nested transactions.           *)
EXTENDS Transaction

Use(ops, keys, pending) ==
  [op |-> ops \cup {"begin", "commit", "rollback", "goto", "lock"},
   keys |-> keys, pending |-> pending]

MCUses == {
  Use({"val", "key", "others"}, <<1>>, 3),
  Use({"mlock", "val", "free"}, <<1, 2>>, 2),
  Use({"key", "sync", "free", "others"}, <<1>>, 3),
  Use({"append", "key"}, <<>>, 2),
  Use({"append", "delete", "sync"}, <<>>, 2),
  Use({"insert", "delete", "free"}, <<2>>, 3),
  Use({"insert", "val", "sync"}, <<2>>, 2),
  Use({"key", "delete", "outside"}, <<1>>, 2)}

(* A record whose key has been changed, and an insert of the old key.       *)
MCWithdrawn == {Use({"insert", "key"}, <<1>>, 4)}
=============================================================================
