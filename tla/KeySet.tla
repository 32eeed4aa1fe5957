------------------------------- MODULE KeySet -------------------------------
(***************************************************************************)
(* What a B-tree file promises to the table object (tabobj/tbbtbtx): every *)
(* order is a set of keys, and a cursor steps through an order to the next *)
(* greater or the next smaller key, whatever was added or deleted since    *)
(* the cursor was set.                                                     *)
(***************************************************************************)
EXTENDS Integers, FiniteSets, FiniteSetsExt

CONSTANTS Ord, Key

VARIABLES
  keys,         (* the keys of every order                                 *)
  cur           (* the order and the key of the cursor, key 0: not set     *)

vars == <<keys, cur>>

Unset == [ord |-> "recno", key |-> 0]

Init ==
  /\ keys = [o \in Ord |-> {}]
  /\ cur = Unset

Put(o, k) ==
  /\ UNCHANGED cur
  /\ keys' = [keys EXCEPT ![o] = @ \cup {k}]

Delete(o, k) ==
  /\ UNCHANGED cur
  /\ keys' = [keys EXCEPT ![o] = @ \ {k}]

(* The cursor goes to one of candidates, or is lost when there is none.    *)
Go(o, candidates, best(_)) ==
  /\ cur' = IF candidates = {} THEN Unset ELSE [ord |-> o, key |-> best(candidates)]
  /\ UNCHANGED keys

Seek(o, k) == Go(o, {x \in keys[o] : x >= k}, Min)
First(o) == Go(o, keys[o], Min)
Last(o) == Go(o, keys[o], Max)

NextKey == cur.key # 0 /\ Go(cur.ord, {x \in keys[cur.ord] : x > cur.key}, Min)
PrevKey == cur.key # 0 /\ Go(cur.ord, {x \in keys[cur.ord] : x < cur.key}, Max)

(* An order is dropped with its keys; a new one starts empty.              *)
Clear(o) ==
  /\ UNCHANGED cur
  /\ keys' = [keys EXCEPT ![o] = {}]

Next ==
  \/ \E o \in Ord : \/ \E k \in Key : Put(o, k) \/ Delete(o, k) \/ Seek(o, k)
                    \/ First(o) \/ Last(o) \/ Clear(o)
  \/ NextKey \/ PrevKey

Spec == Init /\ [][Next]_vars
=============================================================================
