---------------------------- MODULE TableProofs ----------------------------
(***************************************************************************)
(* Proofs about Table: for any number of processes, keys and records, and  *)
(* whatever the programs do, the index matches the records, a process sees *)
(* the last version of a record it has locked, a commit finds the keys it  *)
(* deletes, and records are written under their locks.  Programs end when  *)
(* an error is raised (Recovers = FALSE).                                  *)
(*                                                                         *)
(* What a process knows of the file concerns the record it stands on and   *)
(* holds the lock of (Knows).  So the proof of a step of p is about p      *)
(* alone: nobody else can know anything of a record p may change (Own).    *)
(***************************************************************************)
EXTENDS Table, WellFoundedInduction, SequenceTheorems, TLAPS

FileOK(f) == /\ f \in File /\ Len(f.rec) <= MaxRec
             /\ f.recno \cup f.deleted \subseteq 1..Len(f.rec)

Entries(recs, S) == {Entry(recs[r].key, r) : r \in S}

Matches(f) ==
  /\ f.index = Entries(f.rec, f.recno)
  /\ \A r \in 1..Len(f.rec) : r \in f.recno <=> ~f.rec[r].del
  /\ f.deleted \cap f.recno = {}

(* What an object with something to commit has noted.                      *)
Noted(f, t) ==
  IF t.modifapp THEN t.modifkey /\ t.curkey = NoKey /\ t.pos \notin f.recno \cup f.deleted
  ELSE /\ t.pos \in f.recno
       /\ IF t.modifkey THEN t.curkey = f.rec[t.pos].key
          ELSE t.curkey = NoKey /\ t.buf.key = f.rec[t.pos].key

Clean(t) == ~t.modif /\ ~t.modifapp /\ ~t.modifkey /\ t.curkey = NoKey

(* Process p, with the locks l and the object t, stands on a record it has *)
(* the lock of.                                                            *)
Holds(l, t, p) == t.pos # 0 /\ l[t.pos] = p

(* What process p, its object t and its call c know of the file f under    *)
(* the locks l.                                                            *)
Knows(f, l, t, c, p) ==
  /\ t.pos <= Len(f.rec)
  /\ ~t.modif => Clean(t)
  /\ t.modif => Holds(l, t, p) /\ ~t.buf.del
  /\ t.modif /\ c.pc # "takeout" => Noted(f, t)
  /\ Holds(l, t, p) /\ ~t.modif /\ c.pc # "undelete" => t.buf = f.rec[t.pos]
  /\ c.pc = "undelete" => ~t.modif /\ t.pos # 0
  /\ c.pc = "takeout" => t.modif /\ t.modifapp /\ t.modifkey /\ t.curkey = NoKey
  /\ c.pc = "synchronize" => t.modif /\ c.rec = t.pos
  /\ c.pc \in {"append", "verify", "withdraw", "goto"} => ~t.modif
  /\ c.pc \in {"verify", "withdraw"} => c.rec \in f.recno /\ l[c.rec] = p

(* Nobody has a lock behind the end of the file.                           *)
Inside(f, l) == \A r \in Rec : l[r] # None => r <= Len(f.rec)

IInv ==
  /\ TypeOK /\ Matches(file) /\ Inside(file, lock)
  /\ \A p \in Process : Knows(file, lock, tab[p], call[p], p)

(* The file changes from f to g in no record but those p has the lock of,  *)
(* and the new ones.                                                       *)
Own(f, g, l, p) ==
  /\ Len(f.rec) <= Len(g.rec)
  /\ \A r \in 1..Len(f.rec) :
       l[r] # p => /\ g.rec[r] = f.rec[r]
                   /\ r \in g.recno <=> r \in f.recno
                   /\ r \in g.deleted <=> r \in f.deleted

(* From the locks l to m only those of p change.                           *)
OwnLocks(l, m, p) ==
  /\ m \in [Rec -> Process \cup {None}]
  /\ \A r \in Rec : l[r] = m[r] \/ (l[r] \in {None, p} /\ m[r] \in {None, p})

(* A step of process p.                                                    *)
Step(p) ==
  /\ FileOK(file') /\ Matches(file') /\ Own(file, file', lock, p)
  /\ OwnLocks(lock, lock', p) /\ Inside(file', lock')
  /\ tab' \in [Process -> Object] /\ \A q \in Process \ {p} : tab'[q] = tab[q]
  /\ call' \in [Process -> Progress] /\ \A q \in Process \ {p} : call'[q] = call[q]
  /\ Knows(file', lock', tab'[p], call'[p], p)
  /\ use' = use
-----------------------------------------------------------------------------
(* A set of numbers has a least one.                                       *)
LEMMA Least ==
  ASSUME NEW S \in SUBSET Nat, S # {}
  PROVE  \E n \in S : \A m \in S : n <= m
<1> DEFINE R == OpToRel(<, Nat)
<1>1. IsWellFoundedOn(R, Nat)
  BY NatLessThanWellFounded
<1>2. \A x, y \in Nat : y < x => <<y, x>> \in R
  BY DEF OpToRel
<1> HIDE DEF R
<1>3. PICK x \in S : \A y \in S : <<y, x>> \notin R
  BY <1>1, WFMin
<1>4. \A y \in S : ~(y < x)
  BY <1>2, <1>3
<1> QED
  BY <1>4

LEMMA Types ==
  /\ MaxRec \in Nat \ {0} /\ Rec = 1..MaxRec /\ Rec \subseteq Nat
  /\ KeyVal \subseteq Nat /\ 0 \in KeyVal /\ NoKey \notin KeyVal
  /\ Blank \in Record
BY MaxRecAssumption, KeyAssumption DEF Rec, KeyVal, NoKey, Blank, Record

(* What a process knows lasts as long as only others make steps.           *)
LEMMA KnowsStays ==
  ASSUME NEW p \in Process, NEW q \in Process \ {p},
         NEW f, NEW g, FileOK(f), FileOK(g), NEW l \in [Rec -> Process \cup {None}], NEW m,
         Own(f, g, l, p), OwnLocks(l, m, p),
         NEW t \in Object, NEW c \in Progress, Knows(f, l, t, c, q)
  PROVE  Knows(g, m, t, c, q)
<1>1. Len(f.rec) \in Nat /\ Len(g.rec) \in Nat /\ Len(f.rec) <= MaxRec /\ t.pos \in 0..MaxRec
  BY MaxRecAssumption DEF FileOK, File, Object
<1>2. \A r \in Rec : l[r] = q <=> m[r] = q
  BY ProcessAssumption DEF OwnLocks
<1>3. t.pos \in Rec \/ t.pos = 0
  BY <1>1 DEF Rec
<1>4. Holds(m, t, q) <=> Holds(l, t, q)
  BY <1>2, <1>3 DEF Holds
<1>5. t.pos <= Len(f.rec) /\ t.pos <= Len(g.rec)
  BY <1>1 DEF Knows, Own
<1>6. ASSUME NEW r \in 1..Len(f.rec), l[r] = q
      PROVE  /\ g.rec[r] = f.rec[r]
             /\ r \in g.recno <=> r \in f.recno
             /\ r \in g.deleted <=> r \in f.deleted
  BY <1>6 DEF Own
<1>7. Holds(l, t, q) => /\ g.rec[t.pos] = f.rec[t.pos]
                        /\ t.pos \in g.recno <=> t.pos \in f.recno
                        /\ t.pos \in g.deleted <=> t.pos \in f.deleted
  BY <1>1, <1>5, <1>6 DEF Holds
<1>8. t.modif /\ c.pc # "takeout" => Noted(g, t)
  BY <1>7 DEF Knows, Noted
<1>9. c.pc \in {"verify", "withdraw"} => c.rec \in g.recno /\ m[c.rec] = q
  BY <1>1, <1>2, <1>6 DEF Knows, FileOK, File
<1> QED
  BY <1>4, <1>5, <1>7, <1>8, <1>9 DEF Knows

LEMMA StepKeeps == ASSUME IInv, NEW p \in Process, Step(p) PROVE IInv'
<1>1. TypeOK'
  BY DEF IInv, TypeOK, Step, FileOK, OwnLocks
<1>2. FileOK(file) /\ lock \in [Rec -> Process \cup {None}]
  BY DEF IInv, TypeOK, FileOK
<1>3. ASSUME NEW q \in Process PROVE Knows(file', lock', tab'[q], call'[q], q)
  <2>1. CASE q = p
    BY <2>1 DEF Step
  <2>2. CASE q # p
    <3>1. tab[q] \in Object /\ call[q] \in Progress /\ Knows(file, lock, tab[q], call[q], q)
      BY DEF IInv, TypeOK
    <3>2. Knows(file', lock', tab[q], call[q], q)
      BY <1>2, <2>2, <3>1, KnowsStays DEF Step
    <3> QED
      BY <2>2, <3>2 DEF Step
  <2> QED
    BY <2>1, <2>2
<1> QED
  BY <1>1, <1>3 DEF IInv, Step, Matches
-----------------------------------------------------------------------------
(* What a commit makes of the file: nothing if there is nothing to commit; *)
(* otherwise the record, and its place in the orders.                      *)
LEMMA ReWrites ==
  ASSUME NEW f, FileOK(f), NEW t \in Object, t.pos \in 1..Len(f.rec)
  PROVE  /\ rewrite(f, t) \in File
         /\ Len(rewrite(f, t).rec) = Len(f.rec)
         /\ \A r \in 1..Len(f.rec) : rewrite(f, t).rec[r] = IF r = t.pos THEN t.buf ELSE f.rec[r]
         /\ rewrite(f, t).recno = f.recno /\ rewrite(f, t).deleted = f.deleted
         /\ rewrite(f, t).index = f.index
<1>1. f.rec \in Seq(Record) /\ t.buf \in Record
  BY DEF FileOK, File, Object
<1>2. /\ [f.rec EXCEPT ![t.pos] = t.buf] \in Seq(Record)
      /\ Len([f.rec EXCEPT ![t.pos] = t.buf]) = Len(f.rec)
      /\ \A r \in 1..Len(f.rec) :
           [f.rec EXCEPT ![t.pos] = t.buf][r] = IF r = t.pos THEN t.buf ELSE f.rec[r]
  BY <1>1, ExceptSeq
<1>3. rewrite(f, t) = [f EXCEPT !.rec = [f.rec EXCEPT ![t.pos] = t.buf]]
  BY DEF rewrite, FileOK, File
<1> QED
  BY <1>2, <1>3 DEF FileOK, File

(* The entries of a set of records without those of one of them, and with  *)
(* a new one for it.                                                       *)
LEMMA EntriesWithout ==
  ASSUME NEW recs, NEW S, NEW x \in S
  PROVE  Entries(recs, S) \ {Entry(recs[x].key, x)} = Entries(recs, S \ {x})
<1>1. ASSUME NEW r \in S, Entry(recs[r].key, r) = Entry(recs[x].key, x) PROVE r = x
  BY <1>1 DEF Entry
<1>2. ASSUME NEW e \in Entries(recs, S) \ {Entry(recs[x].key, x)} PROVE e \in Entries(recs, S \ {x})
  <2>1. PICK r \in S : e = Entry(recs[r].key, r)
    BY <1>2 DEF Entries
  <2> QED
    BY <1>2, <2>1 DEF Entries
<1>3. ASSUME NEW e \in Entries(recs, S \ {x}) PROVE e \in Entries(recs, S) \ {Entry(recs[x].key, x)}
  <2>1. PICK r \in S \ {x} : e = Entry(recs[r].key, r)
    BY <1>3 DEF Entries
  <2> QED
    BY <1>1, <2>1 DEF Entries
<1> QED
  BY <1>2, <1>3

LEMMA EntriesAll == ASSUME NEW recs, NEW S, NEW x, x \notin S
                    PROVE  Entries(recs, S \ {x}) = Entries(recs, S)
<1>1. S \ {x} = S
  OBVIOUS
<1> QED
  BY <1>1, Zenon

LEMMA EntriesSame ==
  ASSUME NEW recs, NEW recs2, NEW S, \A r \in S : recs2[r] = recs[r]
  PROVE  Entries(recs2, S) = Entries(recs, S)
BY DEF Entries

LEMMA EntriesWith ==
  ASSUME NEW recs, NEW S, NEW x \in S
  PROVE  Entries(recs, S) = Entries(recs, S \ {x}) \cup {Entry(recs[x].key, x)}
BY DEF Entries

(* The orders after each of the three changes of keys.                     *)
LEMMA Adds ==
  ASSUME NEW f \in File, NEW t \in Object, t.pos \in Rec
  PROVE  LET e == addkeys(f, t) IN
         /\ e \in File /\ e.rec = f.rec
         /\ e.recno = f.recno \cup {t.pos} /\ e.deleted = f.deleted
         /\ e.index = f.index \cup {Entry(t.buf.key, t.pos)}
<1>1. Entry(t.buf.key, t.pos) \in KeyVal \X Rec
  BY DEF Entry, Object, Record
<1> QED
  BY <1>1 DEF addkeys, File

LEMMA Deletes ==
  ASSUME NEW f \in File, NEW t \in Object, t.pos \in Rec
  PROVE  LET e == deletekeys(f, t) IN
         /\ e \in File /\ e.rec = f.rec
         /\ e.recno = f.recno \ {t.pos} /\ e.deleted = f.deleted \cup {t.pos}
         /\ e.index = f.index \ {Entry(IF t.curkey = NoKey THEN t.buf.key ELSE t.curkey, t.pos)}
BY DEF deletekeys, File

LEMMA Changes ==
  ASSUME NEW f \in File, NEW t \in Object, t.pos \in Rec
  PROVE  LET e == changekeys(f, t) IN
         /\ e \in File /\ e.rec = f.rec /\ e.recno = f.recno /\ e.deleted = f.deleted
         /\ e.index = (f.index \ {Entry(t.curkey, t.pos)}) \cup {Entry(t.buf.key, t.pos)}
<1>1. Entry(t.buf.key, t.pos) \in KeyVal \X Rec
  BY DEF Entry, Object, Record
<1> QED
  BY <1>1 DEF changekeys, File

(* The orders as the record will be: with its new key, or without it.      *)
Rest(f, t) == Entries(f.rec, f.recno \ {t.pos})

Ordered(f, e, t) ==
  /\ e \in File /\ e.rec = f.rec
  /\ \A r \in Rec \ {t.pos} : (r \in e.recno <=> r \in f.recno) /\ (r \in e.deleted <=> r \in f.deleted)
  /\ t.pos \in e.recno <=> ~t.buf.del
  /\ t.pos \in e.deleted => t.buf.del
  /\ e.index = IF t.buf.del THEN Rest(f, t) ELSE Rest(f, t) \cup {Entry(t.buf.key, t.pos)}

LEMMA Order ==
  ASSUME NEW f, FileOK(f), Matches(f), NEW t \in Object,
         t.modif, t.pos \in 1..Len(f.rec), Noted(f, t)
  PROVE  \E e : Written(f, t) = rewrite(e, t) /\ Ordered(f, e, t)
<1> DEFINE k == t.buf.key
           x == t.pos
           rest == Rest(f, t)
<1>1. /\ x \in Rec /\ f \in File /\ f.recno \cup f.deleted \subseteq Rec
      /\ f.index = Entries(f.rec, f.recno) /\ f.recno \cap f.deleted = {}
  BY Types DEF FileOK, File, Matches
<1>2. f.rec[x].key \in KeyVal
  <2>1. f.rec[x] \in Record
    BY ElementOfSeq DEF FileOK, File
  <2> QED
    BY <2>1 DEF Record
<1>3. CASE t.modifapp
  <2>1. x \notin f.recno \cup f.deleted
    BY <1>3 DEF Noted
  <2>2. rest = f.index
    BY <1>1, <2>1, EntriesAll DEF Rest
  <2>3. CASE t.buf.del
    <3>1. Ordered(f, f, t)
      BY <1>1, <2>2, <2>1, <2>3 DEF Ordered
    <3> QED
      BY <1>3, <2>3, <3>1 DEF Written
  <2>4. CASE ~t.buf.del
    <3>1. Ordered(f, addkeys(f, t), t)
      <4>1. addkeys(f, t).index = rest \cup {Entry(k, x)}
        BY <1>1, <2>2, Adds
      <4>2. /\ addkeys(f, t) \in File /\ addkeys(f, t).rec = f.rec
            /\ addkeys(f, t).recno = f.recno \cup {x} /\ addkeys(f, t).deleted = f.deleted
        BY <1>1, Adds
      <4> QED
        BY <2>1, <2>4, <4>1, <4>2 DEF Ordered
    <3> QED
      BY <1>3, <2>4, <3>1 DEF Written
  <2> QED
    BY <2>3, <2>4
<1>4. CASE ~t.modifapp
  <2>1. x \in f.recno /\ x \notin f.deleted
    BY <1>1, <1>4 DEF Noted
  <2>2. rest = f.index \ {Entry(f.rec[x].key, x)}
    BY <1>1, <2>1, EntriesWithout DEF Rest
  <2>3. CASE t.buf.del
    <3>1. f.rec[x].key = IF t.curkey = NoKey THEN k ELSE t.curkey
      BY <1>2, <1>4, Types DEF Noted
    <3>2. Ordered(f, deletekeys(f, t), t)
      <4>1. deletekeys(f, t).index = rest
        BY <1>1, <2>2, <3>1, Deletes
      <4> QED
        BY <1>1, <2>3, <4>1, Deletes DEF Ordered
    <3> QED
      BY <1>4, <2>3, <3>2 DEF Written
  <2>4. CASE ~t.buf.del /\ t.modifkey
    <3>1. Ordered(f, changekeys(f, t), t)
      <4>1. t.curkey = f.rec[x].key
        BY <1>4, <2>4 DEF Noted
      <4>2. changekeys(f, t).index = rest \cup {Entry(k, x)}
        BY <1>1, <2>2, <4>1, Changes
      <4>3. /\ changekeys(f, t) \in File /\ changekeys(f, t).rec = f.rec
            /\ changekeys(f, t).recno = f.recno /\ changekeys(f, t).deleted = f.deleted
        BY <1>1, Changes
      <4> QED
        BY <2>1, <2>4, <4>2, <4>3 DEF Ordered
    <3> QED
      BY <1>4, <2>4, <3>1 DEF Written
  <2>5. CASE ~t.buf.del /\ ~t.modifkey
    <3>1. k = f.rec[x].key
      BY <1>4, <2>5 DEF Noted
    <3>2. f.index = rest \cup {Entry(k, x)}
      <4>1. Entries(f.rec, f.recno) = Entries(f.rec, f.recno \ {x}) \cup {Entry(f.rec[x].key, x)}
        BY <2>1, EntriesWith
      <4> QED
        BY <1>1, <3>1, <4>1, Zenon DEF Rest
    <3>3. Ordered(f, f, t)
      BY <1>1, <2>1, <2>5, <3>2 DEF Ordered
    <3> QED
      BY <1>4, <2>5, <3>3 DEF Written
  <2> QED
    BY <2>3, <2>4, <2>5
<1> QED
  BY <1>3, <1>4

(* A commit of an object that knows what it has changed.                   *)
LEMMA Writes ==
  ASSUME NEW f, FileOK(f), Matches(f), NEW t \in Object,
         t.modif, t.pos \in 1..Len(f.rec), Noted(f, t)
  PROVE  LET g == Written(f, t) IN
         /\ FileOK(g) /\ Matches(g) /\ Len(g.rec) = Len(f.rec) /\ g.rec[t.pos] = t.buf
         /\ \A r \in 1..Len(f.rec) \ {t.pos} :
              /\ g.rec[r] = f.rec[r]
              /\ r \in g.recno <=> r \in f.recno
              /\ r \in g.deleted <=> r \in f.deleted
<1> DEFINE k == t.buf.key
           x == t.pos
           rest == Rest(f, t)
           g == Written(f, t)
<1>1. /\ x \in Rec /\ Len(f.rec) \in Nat /\ f \in File /\ f.recno \cup f.deleted \subseteq 1..Len(f.rec)
      /\ 1..Len(f.rec) \subseteq Rec
  BY Types DEF FileOK, File
<1>2. PICK e : g = rewrite(e, t) /\ Ordered(f, e, t)
  BY Order
<1> HIDE DEF g
<1>3. /\ e \in File /\ e.rec = f.rec
      /\ \A r \in Rec \ {x} : (r \in e.recno <=> r \in f.recno) /\ (r \in e.deleted <=> r \in f.deleted)
      /\ x \in e.recno <=> ~t.buf.del
      /\ x \in e.deleted => t.buf.del
      /\ e.index = IF t.buf.del THEN rest ELSE rest \cup {Entry(k, x)}
  BY <1>2 DEF Ordered
<1>4. e.recno \cup e.deleted \subseteq Rec
  BY <1>3 DEF File
<1>5. FileOK(e) /\ x \in 1..Len(e.rec)
  BY <1>1, <1>3, <1>4 DEF FileOK
<1>6. /\ g \in File /\ Len(g.rec) = Len(f.rec)
      /\ \A r \in 1..Len(f.rec) : g.rec[r] = IF r = x THEN t.buf ELSE f.rec[r]
      /\ g.recno = e.recno /\ g.deleted = e.deleted /\ g.index = e.index
  BY <1>2, <1>5, <1>3, ReWrites
<1>7. FileOK(g)
  BY <1>3, <1>5, <1>6 DEF FileOK
<1>8. g.index = Entries(g.rec, g.recno)
  <2>1. rest = Entries(g.rec, g.recno \ {x})
    <3>1. \A r \in f.recno \ {x} : g.rec[r] = f.rec[r]
      BY <1>1, <1>6
    <3>2. Entries(g.rec, f.recno \ {x}) = rest
      BY <3>1, EntriesSame DEF Rest
    <3>3. f.recno \ {x} = g.recno \ {x}
      BY <1>1, <1>3, <1>4, <1>6
    <3> QED
      BY <3>2, <3>3, Zenon
  <2>2. CASE t.buf.del
    <3>1. x \notin g.recno /\ g.index = rest
      BY <1>3, <1>6, <2>2
    <3> QED
      BY <2>1, <3>1, EntriesAll
  <2>3. CASE ~t.buf.del
    <3>1. x \in g.recno /\ g.rec[x].key = k
      BY <1>3, <1>4, <1>6, <2>3
    <3> QED
      BY <1>3, <1>4, <1>6, <2>1, <2>3, <3>1, EntriesWith
  <2> QED
    BY <2>2, <2>3
<1>9. \A r \in 1..Len(g.rec) : r \in g.recno <=> ~g.rec[r].del
  <2> SUFFICES ASSUME NEW r \in 1..Len(f.rec) PROVE r \in g.recno <=> ~g.rec[r].del
    BY <1>6
  <2>1. r \in f.recno <=> ~f.rec[r].del
    BY DEF Matches
  <2>2. CASE r = x
    BY <1>3, <1>6, <2>2
  <2>3. CASE r # x
    BY <1>1, <1>3, <1>6, <2>1, <2>3
  <2> QED
    BY <2>2, <2>3
<1>10. g.deleted \cap g.recno = {}
  <2>1. f.deleted \cap f.recno = {}
    BY DEF Matches
  <2> QED
    BY <1>3, <1>4, <1>6, <2>1
<1>11. Matches(g)
  BY <1>8, <1>9, <1>10 DEF Matches
<1> QED
  BY <1>1, <1>3, <1>6, <1>7, <1>11 DEF g
-----------------------------------------------------------------------------
(* Movement puts the object on a record and reads it.                      *)
Fresh(f, t) == /\ t \in Object /\ t.pos <= Len(f.rec) /\ Clean(t)
               /\ t.pos # 0 => t.buf = f.rec[t.pos]

LEMMA First ==
  ASSUME NEW S \in SUBSET (KeyVal \X Rec), S # {}
  PROVE  \E e \in S : \A g \in S : e = g \/ Before(e, g)
<1>1. \A e \in S : e = <<e[1], e[2]>> /\ e[1] \in Nat /\ e[2] \in Nat
  <2>1. \A e \in KeyVal \X Rec : e = <<e[1], e[2]>> /\ e[1] \in KeyVal /\ e[2] \in Rec
    OBVIOUS
  <2> QED
    BY <2>1, Types
<1>2. PICK k \in {e[1] : e \in S} : \A g \in S : k <= g[1]
  <2>1. {e[1] : e \in S} \in SUBSET Nat /\ {e[1] : e \in S} # {}
    BY <1>1
  <2>2. PICK k \in {e[1] : e \in S} : \A m \in {e[1] : e \in S} : k <= m
    BY <2>1, Least
  <2> QED
    BY <2>2
<1> DEFINE T == {e \in S : e[1] = k}
<1>3. PICK r \in {e[2] : e \in T} : \A g \in T : r <= g[2]
  <2>1. {e[2] : e \in T} \in SUBSET Nat /\ {e[2] : e \in T} # {}
    BY <1>1, <1>2
  <2>2. PICK r \in {e[2] : e \in T} : \A m \in {e[2] : e \in T} : r <= m
    BY <2>1, Least
  <2> QED
    BY <2>2
<1>4. PICK e \in T : e[2] = r
  BY <1>3
<1>5. ASSUME NEW g \in S PROVE e = g \/ Before(e, g)
  <2>1. CASE g[1] = k
    BY <1>1, <1>3, <1>4, <2>1 DEF Before
  <2>2. CASE g[1] # k
    BY <1>1, <1>2, <1>4, <2>2 DEF Before
  <2> QED
    BY <2>1, <2>2
<1> QED
  BY <1>4, <1>5

LEMMA ToEOF == ASSUME NEW f, FileOK(f), NEW t \in Object, Clean(t)
               PROVE  Fresh(f, GoEOF(t)) /\ GoEOF(t).pos = 0
<1>1. Len(f.rec) \in Nat
  BY DEF FileOK, File
<1>2. 0 \in 0..MaxRec /\ Blank \in Record /\ <<0, 0>> \in KeyVal \X (0..MaxRec)
  BY Types
<1>3. GoEOF(t) \in Object
  BY <1>2 DEF GoEOF, Object
<1>4. GoEOF(t).pos = 0 /\ Clean(GoEOF(t))
  BY DEF GoEOF, Object, Clean
<1> QED
  BY <1>1, <1>3, <1>4 DEF Fresh

LEMMA ToEntry ==
  ASSUME NEW f, FileOK(f), NEW t \in Object, Clean(t), NEW k \in KeyVal, NEW r \in f.recno
  PROVE  /\ Fresh(f, SetPos(f, t, Entry(k, r)))
         /\ SetPos(f, t, Entry(k, r)).pos = r
<1>1. r \in 1..Len(f.rec) /\ r \in 1..MaxRec /\ f.rec[r] \in Record /\ Len(f.rec) \in Nat
  BY ElementOfSeq, Types DEF FileOK, File
<1>2. SetPos(f, t, Entry(k, r)) = [t EXCEPT !.pos = r, !.buf = f.rec[r], !.at = <<k, r>>]
  BY DEF SetPos, Entry
<1>3. r \in 0..MaxRec /\ <<k, r>> \in KeyVal \X (0..MaxRec)
  BY <1>1, Types
<1>4. SetPos(f, t, Entry(k, r)) \in Object
  BY <1>1, <1>2, <1>3 DEF Object
<1>5. SetPos(f, t, Entry(k, r)).pos = r /\ SetPos(f, t, Entry(k, r)).buf = f.rec[r]
  BY <1>2 DEF Object
<1>6. Clean(SetPos(f, t, Entry(k, r)))
  BY <1>2 DEF Object, Clean
<1> QED
  BY <1>1, <1>4, <1>5, <1>6 DEF Fresh

LEMMA ToFirst ==
  ASSUME NEW f, FileOK(f), Matches(f), NEW t \in Object, Clean(t), NEW S \in SUBSET f.index
  PROVE  Fresh(f, GoFirst(f, t, S))
<1> DEFINE scope == {e \in S : ~f.rec[e[2]].del}
           first == CHOOSE e \in scope : \A g \in scope : e = g \/ Before(e, g)
<1>1. CASE scope = {}
  <2>1. GoFirst(f, t, S) = GoEOF(t)
    BY <1>1 DEF GoFirst
  <2> QED
    BY <2>1, ToEOF
<1>2. CASE scope # {}
  <2>1. GoFirst(f, t, S) = SetPos(f, t, first)
    BY <1>2 DEF GoFirst
  <2>2. scope \in SUBSET (KeyVal \X Rec)
    BY DEF FileOK, File
  <2>3. first \in scope
    BY <1>2, <2>2, First
  <2> HIDE DEF first
  <2>4. PICK r \in f.recno : first = Entry(f.rec[r].key, r)
    BY <2>3 DEF Matches, Entries
  <2>5. f.rec[r].key \in KeyVal
    <3>1. first \in KeyVal \X Rec
      BY <2>2, <2>3
    <3> QED
      BY <2>4, <3>1 DEF Entry
  <2> QED
    BY <2>1, <2>4, <2>5, ToEntry
<1> QED
  BY <1>1, <1>2

LEMMA Movement ==
  ASSUME NEW f, FileOK(f), Matches(f), NEW t \in Object, Clean(t)
  PROVE  /\ \A k : Fresh(f, tabSeek(f, t, k))
         /\ Fresh(f, tabGetNext(f, t))
         /\ \A r : Fresh(f, tabGoto(f, t, r)) /\ (r \in f.recno => tabGoto(f, t, r).pos = r)
<1>1. ASSUME NEW k PROVE Fresh(f, tabSeek(f, t, k))
  BY ToFirst DEF tabSeek
<1>2. Fresh(f, tabGetNext(f, t))
  BY ToFirst DEF tabGetNext
<1>3. ASSUME NEW r PROVE Fresh(f, tabGoto(f, t, r)) /\ (r \in f.recno => tabGoto(f, t, r).pos = r)
  <2>1. CASE r \in f.recno
    <3>1. f.rec[r] \in Record
      BY <2>1, ElementOfSeq DEF FileOK, File
    <3>2. f.rec[r].key \in KeyVal
      BY <3>1 DEF Record
    <3> QED
      BY <2>1, <3>2, ToEntry DEF tabGoto
  <2>2. CASE r \notin f.recno
    BY <2>2, ToEOF DEF tabGoto
  <2> QED
    BY <2>1, <2>2
<1> QED
  BY <1>1, <1>2, <1>3

LEMMA Opening == ASSUME NEW f, FileOK(f), Matches(f) PROVE Fresh(f, tabOpen(f))
<1>1. Unopened \in Object /\ Clean(Unopened)
  BY Types DEF Unopened, Object, Clean, NoKey
<1> QED
  BY <1>1, ToFirst DEF tabOpen
-----------------------------------------------------------------------------
(* The parts of a step of p.                                               *)
LEMMA MakeStep ==
  ASSUME IInv, NEW p \in Process, NEW t \in Object, NEW c \in Progress,
         FileOK(file'), Matches(file'), Own(file, file', lock, p),
         OwnLocks(lock, lock', p), Inside(file', lock'),
         tab' = [tab EXCEPT ![p] = t], call' = [call EXCEPT ![p] = c], use' = use,
         Knows(file', lock', t, c, p)
  PROVE  Step(p)
<1>1. tab \in [Process -> Object] /\ call \in [Process -> Progress]
  BY DEF IInv, TypeOK
<1>2. tab' \in [Process -> Object] /\ call' \in [Process -> Progress]
  BY <1>1
<1>3. /\ \A q \in Process \ {p} : tab'[q] = tab[q] /\ call'[q] = call[q]
      /\ tab'[p] = t /\ call'[p] = c
  BY <1>1
<1> QED
  BY <1>2, <1>3 DEF Step

(* What an object without changes has to know in a call that relies on no  *)
(* record.                                                                 *)
LEMMA CleanKnows ==
  ASSUME NEW f, NEW l, NEW p, NEW t \in Object, t.pos <= Len(f.rec), Clean(t),
         Holds(l, t, p) => t.buf = f.rec[t.pos],
         NEW c \in Progress, c.pc \in {"idle", "done", "append", "goto"}
  PROVE  Knows(f, l, t, c, p)
BY DEF Knows, Clean

LEMMA FreshKnows ==
  ASSUME NEW f, NEW l, NEW p, NEW t, Fresh(f, t),
         NEW c \in Progress, c.pc \in {"idle", "done", "append", "goto"}
  PROVE  Knows(f, l, t, c, p)
BY CleanKnows DEF Fresh, Holds

LEMMA OwnSame == ASSUME IInv, NEW p
                 PROVE  /\ FileOK(file) /\ Matches(file) /\ Inside(file, lock)
                        /\ Own(file, file, lock, p) /\ Len(file.rec) \in Nat
<1>1. Len(file.rec) \in Nat
  BY DEF IInv, TypeOK, File
<1> QED
  BY <1>1 DEF IInv, TypeOK, FileOK, Own

(* Every operation starts with a commit, which leaves an object that knows *)
(* the record it has the lock of.                                          *)
LEMMA Commit ==
  ASSUME IInv, NEW p \in Process, call[p].pc # "takeout"
  PROVE  LET g == Written(file, tab[p])
             u == Committed(tab[p])
         IN /\ FileOK(g) /\ Matches(g) /\ Own(file, g, lock, p) /\ Inside(g, lock)
            /\ Len(g.rec) = Len(file.rec)
            /\ u \in Object /\ u.pos = tab[p].pos /\ u.buf = tab[p].buf /\ Clean(u)
            /\ tab[p].modif => g.rec[u.pos] = u.buf /\ u.pos \in g.recno
            /\ Holds(lock, u, p) /\ call[p].pc # "undelete" => u.buf = g.rec[u.pos]
            /\ ~tab[p].modif => g = file
<1> DEFINE t == tab[p]
           g == Written(file, t)
           u == Committed(t)
<1>1. t \in Object /\ FileOK(file) /\ Matches(file) /\ Inside(file, lock)
      /\ Knows(file, lock, t, call[p], p) /\ Len(file.rec) \in Nat
  BY OwnSame DEF IInv, TypeOK, File
<1>2. CASE ~t.modif
  <2>1. g = file /\ u = t
    BY <1>2 DEF Written, Committed
  <2>2. Clean(t) /\ (Holds(lock, t, p) /\ call[p].pc # "undelete" => t.buf = file.rec[t.pos])
    BY <1>1, <1>2 DEF Knows
  <2> HIDE DEF g, u
  <2> QED
    BY <1>1, <1>2, <2>1, <2>2, OwnSame DEF g, u
<1>3. CASE t.modif
  <2>1. t.pos \in 1..Len(file.rec) /\ lock[t.pos] = p /\ ~t.buf.del /\ Noted(file, t)
    BY <1>1, <1>3 DEF Knows, Holds, Object
  <2> HIDE DEF g
  <2>2. /\ FileOK(g) /\ Matches(g) /\ Len(g.rec) = Len(file.rec) /\ g.rec[t.pos] = t.buf
        /\ \A r \in 1..Len(file.rec) \ {t.pos} :
             /\ g.rec[r] = file.rec[r]
             /\ r \in g.recno <=> r \in file.recno
             /\ r \in g.deleted <=> r \in file.deleted
    BY <1>1, <1>3, <2>1, Writes DEF g
  <2>3. Own(file, g, lock, p) /\ Inside(g, lock)
    BY <1>1, <2>1, <2>2 DEF Own, Inside
  <2>4. t.pos \in g.recno
    BY <2>1, <2>2 DEF Matches
  <2>5. u = [t EXCEPT !.modif = FALSE, !.modifkey = FALSE, !.modifapp = FALSE, !.curkey = NoKey,
                      !.at = IF t.modifkey /\ ~t.buf.del THEN Entry(t.buf.key, t.pos) ELSE @]
    BY <1>3 DEF Committed
  <2>6. Entry(t.buf.key, t.pos) \in KeyVal \X (0..MaxRec)
    BY <1>1 DEF Entry, Object, Record
  <2> HIDE DEF u
  <2>7. u \in Object /\ u.pos = t.pos /\ u.buf = t.buf /\ Clean(u)
    BY <1>1, <2>5, <2>6 DEF Object, Clean
  <2> QED
    BY <1>3, <2>2, <2>3, <2>4, <2>7 DEF g, u
<1> QED
  BY <1>2, <1>3

(* The locks of p are dropped, all but one it gets, or one of them; or one *)
(* more is added.                                                          *)
LEMMA Locks ==
  ASSUME IInv, NEW p \in Process
  PROVE  /\ OwnLocks(lock, lock, p)
         /\ OwnLocks(lock, Others(p), p) /\ \A r \in Rec : Others(p)[r] # p
         /\ \A f : Inside(f, lock) => Inside(f, Others(p))
<1>1. lock \in [Rec -> Process \cup {None}] /\ p # None
  BY ProcessAssumption DEF IInv, TypeOK
<1> QED
  BY <1>1 DEF OwnLocks, Others, Inside

LEMMA OneLock ==
  ASSUME IInv, NEW p \in Process, NEW l, OwnLocks(lock, l, p), NEW r \in Rec, lock[r] \in {None, p},
         NEW f, Inside(f, l), NEW a \in {None, p}, a # None => r <= Len(f.rec)
  PROVE  OwnLocks(lock, [l EXCEPT ![r] = a], p) /\ Inside(f, [l EXCEPT ![r] = a])
BY DEF OwnLocks, Inside

LEMMA IdleIsProgress == Idle \in Progress
BY Types DEF Idle, Progress

LEMMA MoveStep ==
  ASSUME IInv, NEW p \in Process, call[p].pc # "takeout", NEW t \in Object, NEW c \in Progress,
         Moves(p, t), call' = [call EXCEPT ![p] = c], Knows(Written(file, tab[p]), lock, t, c, p)
  PROVE  Step(p)
<1>1. file' = Written(file, tab[p]) /\ tab' = [tab EXCEPT ![p] = t] /\ lock' = lock /\ use' = use
  BY DEF Moves, Commits
<1>2. /\ FileOK(file') /\ Matches(file') /\ Own(file, file', lock, p) /\ Inside(file', lock')
      /\ OwnLocks(lock, lock', p) /\ Knows(file', lock', t, c, p)
  BY <1>1, Commit, Locks
<1> QED
  BY <1>1, <1>2, MakeStep

LEMMA EndStep ==
  ASSUME IInv, NEW p \in Process, Ends(p), UNCHANGED <<file, use>>
  PROVE  Step(p)
<1>1. FileOK(file) /\ Matches(file) /\ Own(file, file, lock, p) /\ Inside(file, lock)
  BY OwnSame DEF IInv
<1>2. Fresh(file, tabOpen(file))
  BY <1>1, Opening
<1>3. tabOpen(file) \in Object
  BY <1>2 DEF Fresh
<1>4. lock' = Others(p) /\ OwnLocks(lock, lock', p) /\ Inside(file', lock')
  BY <1>1, Locks DEF Ends
<1>5. Knows(file', lock', tabOpen(file), Idle, p)
  BY <1>2, IdleIsProgress, FreshKnows DEF Idle
<1> QED
  BY <1>1, <1>3, <1>4, <1>5, IdleIsProgress, MakeStep DEF Ends, Return
-----------------------------------------------------------------------------
LEMMA MovingStep ==
  ASSUME IInv, NEW p \in Process,
         \/ \E k \in Key : Seek(p, k)
         \/ \E r \in Rec : Goto(p, r)
         \/ GotoFound(p)
  PROVE  Step(p)
<1> DEFINE g == Written(file, tab[p])
           u == Committed(tab[p])
<1>1. call[p].pc # "takeout"
  BY DEF Seek, Goto, GotoFound, Calls
<1>2. FileOK(g) /\ Matches(g) /\ u \in Object /\ Clean(u)
  BY <1>1, Commit
<1>3. PICK t : Fresh(g, t) /\ Moves(p, t) /\ Return(p)
  <2>1. CASE \E k \in Key : Seek(p, k)
    BY <1>2, <2>1, Movement DEF Seek
  <2>2. CASE \E r \in Rec : Goto(p, r)
    BY <1>2, <2>2, Movement DEF Goto
  <2>3. CASE GotoFound(p)
    <3>1. ~tab[p].modif
      BY <2>3 DEF IInv, Knows, GotoFound
    <3>2. g = file /\ u = tab[p]
      BY <3>1 DEF Written, Committed
    <3> QED
      BY <1>2, <2>3, <3>2, Movement DEF GotoFound
  <2> QED
    BY <2>1, <2>2, <2>3
<1>4. t \in Object /\ Knows(g, lock, t, Idle, p)
  BY <1>3, IdleIsProgress, FreshKnows DEF Fresh, Idle
<1> QED
  BY <1>1, <1>3, <1>4, IdleIsProgress, MoveStep DEF Return

(* Locks: the object is read again where it gets the lock of its record.   *)
LEMMA LockingStep ==
  ASSUME IInv, NEW p \in Process,
         \/ tabRLock(p) \/ tabRLockFails(p) \/ tabUnlock(p)
         \/ \E r \in Rec : tabMLock(p, r) \/ tabUnlockOne(p, r)
  PROVE  Step(p)
<1> DEFINE g == Written(file, tab[p])
           u == Committed(tab[p])
<1>1. call[p].pc \notin {"takeout", "undelete"} /\ Return(p) /\ Commits(p) /\ use' = use
  BY DEF tabRLock, tabRLockFails, tabUnlock, tabMLock, tabUnlockOne, Calls
<1>2. /\ FileOK(g) /\ Matches(g) /\ Own(file, g, lock, p) /\ Inside(g, lock)
      /\ Len(g.rec) = Len(file.rec) /\ Len(file.rec) \in Nat
      /\ u \in Object /\ u.pos = tab[p].pos /\ Clean(u) /\ u.pos \in 0..Len(g.rec)
      /\ Holds(lock, u, p) => u.buf = g.rec[u.pos]
  <2>1. u.pos = tab[p].pos /\ u \in Object /\ Len(g.rec) = Len(file.rec)
    BY <1>1, Commit
  <2>2. tab[p].pos <= Len(file.rec) /\ Len(file.rec) \in Nat
    BY DEF IInv, Knows, TypeOK, File
  <2>3. u.pos \in 0..Len(g.rec)
    BY <2>1, <2>2 DEF Object
  <2> QED
    BY <1>1, <2>2, <2>3, Commit
<1>3. lock \in [Rec -> Process \cup {None}] /\ p # None
  BY ProcessAssumption DEF IInv, TypeOK
<1>4. u.pos # 0 => u.pos \in Rec /\ g.rec[u.pos] \in Record
  <2>1. 1..Len(g.rec) \subseteq Rec
    BY <1>2, Types DEF FileOK
  <2> QED
    BY <1>2, <2>1, ElementOfSeq DEF FileOK, File
<1> HIDE DEF g, u
<1>5. \E t \in Object : /\ tab' = [tab EXCEPT ![p] = t] /\ OwnLocks(lock, lock', p) /\ Inside(g, lock')
                        /\ t.pos = u.pos /\ Clean(t)
                        /\ Holds(lock', t, p) => t.buf = g.rec[t.pos]
  <2>1. file' = g
    BY <1>1 DEF g, Commits
  <2>2. u.pos # 0 =>
          LET t == ReRead(g, u) IN t \in Object /\ t.pos = u.pos /\ t.buf = g.rec[u.pos] /\ Clean(t)
    BY <1>2, <1>4 DEF ReRead, Object, Clean
  <2>3. CASE tabRLock(p)
    <3>1. u.pos # 0 /\ lock[u.pos] \in {None, p} /\ lock' = [Others(p) EXCEPT ![u.pos] = p]
          /\ tab' = [tab EXCEPT ![p] = ReRead(g, u)]
      BY <1>2, <2>1, <2>3 DEF tabRLock, Locked, u
    <3>2. OwnLocks(lock, lock', p) /\ Inside(g, lock')
      <4>1. OwnLocks(lock, Others(p), p) /\ Inside(g, Others(p))
        BY <1>2, Locks
      <4>2. u.pos \in Rec /\ u.pos <= Len(g.rec)
        BY <1>2, <1>4, <3>1
      <4> QED
        BY <3>1, <4>1, <4>2, OneLock
    <3> QED
      BY <2>2, <3>1, <3>2
  <2>4. CASE tabRLockFails(p)
    <3>1. lock' = (IF u.pos = 0 THEN lock ELSE Others(p)) /\ tab' = [tab EXCEPT ![p] = u]
      BY <1>2, <2>4 DEF tabRLockFails, u
    <3>2. OwnLocks(lock, lock', p) /\ Inside(g, lock')
      BY <1>2, <3>1, Locks
    <3>3. ~Holds(lock', u, p)
      BY <1>4, <3>1, Locks DEF Holds
    <3> QED
      BY <1>2, <3>1, <3>2, <3>3
  <2>5. CASE tabUnlock(p)
    <3>1. lock' = Others(p) /\ tab' = [tab EXCEPT ![p] = u]
      BY <1>2, <2>5 DEF tabUnlock, u
    <3>2. OwnLocks(lock, lock', p) /\ Inside(g, lock') /\ ~Holds(lock', u, p)
      BY <1>2, <1>4, <3>1, Locks DEF Holds
    <3> QED
      BY <1>2, <3>1, <3>2
  <2>6. CASE \E r \in Rec : tabMLock(p, r)
    <3>1. PICK r \in Rec : tabMLock(p, r)
      BY <2>6
    <3>2. CASE lock[r] = None
      <4>1. lock' = [lock EXCEPT ![r] = p] /\ r <= Len(g.rec)
            /\ tab' = [tab EXCEPT ![p] = IF r = u.pos THEN ReRead(g, u) ELSE u]
        BY <1>2, <2>1, <3>1, <3>2 DEF tabMLock, u
      <4>2. OwnLocks(lock, lock', p) /\ Inside(g, lock')
        BY <1>2, <3>2, <4>1, Locks, OneLock
      <4>3. CASE r = u.pos
        <5>1. u.pos # 0
          BY <4>3, Types
        <5> QED
          BY <2>2, <4>1, <4>2, <4>3, <5>1
      <4>4. CASE r # u.pos
        <5>1. Holds(lock', u, p) => Holds(lock, u, p)
          BY <1>3, <1>4, <4>1, <4>4 DEF Holds
        <5> QED
          BY <1>2, <4>1, <4>2, <4>4, <5>1
      <4> QED
        BY <4>3, <4>4
    <3>3. CASE lock[r] # None
      <4>1. lock' = lock /\ tab' = [tab EXCEPT ![p] = u]
        BY <1>3, <3>1, <3>3 DEF tabMLock, u
      <4> QED
        BY <1>2, <4>1, Locks
    <3> QED
      BY <3>2, <3>3
  <2>7. CASE \E r \in Rec : tabUnlockOne(p, r)
    <3>1. PICK r \in Rec : tabUnlockOne(p, r)
      BY <2>7
    <3>2. lock' = [lock EXCEPT ![r] = None] /\ lock[r] = p /\ tab' = [tab EXCEPT ![p] = u]
      BY <3>1 DEF tabUnlockOne, u
    <3>3. OwnLocks(lock, lock', p) /\ Inside(g, lock')
      BY <1>2, <3>2, Locks, OneLock
    <3>4. Holds(lock', u, p) => Holds(lock, u, p)
      BY <1>3, <1>4, <3>2 DEF Holds
    <3> QED
      BY <1>2, <3>2, <3>3, <3>4
  <2> QED
    BY <2>3, <2>4, <2>5, <2>6, <2>7
<1>6. PICK t \in Object : /\ tab' = [tab EXCEPT ![p] = t] /\ OwnLocks(lock, lock', p) /\ Inside(g, lock')
                          /\ t.pos = u.pos /\ Clean(t)
                          /\ Holds(lock', t, p) => t.buf = g.rec[t.pos]
  BY <1>5
<1>7. file' = g
  BY <1>1 DEF g, Commits
<1>8. Knows(g, lock', t, Idle, p)
  <2>1. t.pos <= Len(g.rec) /\ Idle.pc = "idle"
    BY <1>2, <1>6 DEF Idle
  <2> QED
    BY <1>6, <2>1, IdleIsProgress, CleanKnows
<1> QED
  BY <1>1, <1>2, <1>6, <1>7, <1>8, IdleIsProgress, MakeStep DEF Return
-----------------------------------------------------------------------------
(* Who may write has noted what a commit needs.                            *)
LEMMA Writable ==
  ASSUME IInv, NEW p \in Process, call[p].pc \in {"idle", "done"},
         tab[p].modif \/ (IsLocked(p) /\ ~tab[p].buf.del)
  PROVE  LET t == tab[p] IN
         /\ t \in Object /\ t.pos \in 1..Len(file.rec) /\ lock[t.pos] = p /\ ~t.buf.del
         /\ Noted(file, t)
<1> DEFINE t == tab[p]
<1>1. /\ t \in Object /\ Knows(file, lock, t, call[p], p) /\ Len(file.rec) \in Nat
      /\ FileOK(file) /\ Matches(file)
  BY OwnSame DEF IInv, TypeOK, File
<1>2. CASE t.modif
  BY <1>1, <1>2 DEF Knows, Holds, Object
<1>3. CASE ~t.modif
  <2>1. t.pos # 0 /\ lock[t.pos] = p /\ ~t.buf.del
    BY <1>3 DEF IsLocked
  <2>2. t.buf = file.rec[t.pos] /\ Clean(t) /\ t.pos \in 1..Len(file.rec)
    BY <1>1, <1>3, <2>1 DEF Knows, Holds, Object
  <2>3. t.pos \in file.recno
    BY <1>1, <2>1, <2>2 DEF Matches
  <2> QED
    BY <1>1, <2>1, <2>2, <2>3 DEF Noted, Clean
<1> QED
  BY <1>2, <1>3

(* A write changes the copy of the record.                                 *)
LEMMA WriteStep ==
  ASSUME IInv, NEW p \in Process, NEW t \in Object, t.modif, t.pos \in 1..Len(file.rec),
         lock[t.pos] = p, ~t.buf.del, Noted(file, t),
         tab' = [tab EXCEPT ![p] = t], Return(p), UNCHANGED <<file, lock, use>>
  PROVE  Step(p)
<1>1. FileOK(file) /\ Matches(file) /\ Own(file, file, lock, p) /\ Inside(file, lock)
      /\ OwnLocks(lock, lock, p) /\ Len(file.rec) \in Nat
  BY OwnSame, Locks
<1>2. Knows(file, lock, t, Idle, p)
  BY <1>1 DEF Knows, Holds, Idle
<1> QED
  BY <1>1, <1>2, IdleIsProgress, MakeStep DEF Return

LEMMA SetValStep == ASSUME IInv, NEW p \in Process, NEW v \in {0, 1}, SetVal(p, v) PROVE Step(p)
<1> DEFINE t == tab[p]
           b == [t.buf EXCEPT !.val = v]
           n == [t EXCEPT !.modif = TRUE, !.buf = b]
<1>1. /\ t \in Object /\ t.pos \in 1..Len(file.rec) /\ lock[t.pos] = p /\ ~t.buf.del
      /\ Noted(file, t)
  BY Writable DEF SetVal, Calls
<1>2. b \in Record /\ b.key = t.buf.key /\ b.del = t.buf.del
  BY <1>1 DEF Object, Record
<1> HIDE DEF b
<1>3. /\ n \in Object /\ n.modif /\ n.pos = t.pos /\ n.buf = b /\ n.modifapp = t.modifapp
      /\ n.modifkey = t.modifkey /\ n.curkey = t.curkey
  BY <1>1, <1>2 DEF Object
<1>4. tab' = [tab EXCEPT ![p] = n]
  BY DEF SetVal, b
<1> HIDE DEF n
<1>5. Noted(file, n)
  BY <1>1, <1>2, <1>3 DEF Noted
<1> QED
  BY <1>1, <1>2, <1>3, <1>4, <1>5, WriteStep DEF SetVal

LEMMA SetKeyStep == ASSUME IInv, NEW p \in Process, NEW k \in Key, SetKey(p, k) PROVE Step(p)
<1> DEFINE t == tab[p]
           b == [t.buf EXCEPT !.key = k]
           c == IF t.modifkey THEN t.curkey ELSE t.buf.key
           n == [t EXCEPT !.modif = TRUE, !.modifkey = TRUE, !.buf = b, !.curkey = c]
<1>1. /\ t \in Object /\ t.pos \in 1..Len(file.rec) /\ lock[t.pos] = p /\ ~t.buf.del
      /\ Noted(file, t)
  BY Writable DEF SetKey, Calls
<1>2. b \in Record /\ b.key = k /\ b.del = t.buf.del
  BY <1>1 DEF Object, Record, KeyVal
<1>3. c \in KeyVal \cup {NoKey}
  BY <1>1 DEF Object, Record
<1> HIDE DEF b, c
<1>4. /\ n \in Object /\ n.modif /\ n.pos = t.pos /\ n.buf = b /\ n.modifapp = t.modifapp
      /\ n.modifkey /\ n.curkey = c
  BY <1>1, <1>2, <1>3 DEF Object
<1>5. tab' = [tab EXCEPT ![p] = n]
  BY DEF SetKey, b, c
<1> HIDE DEF n
<1>6. Noted(file, n)
  BY <1>1, <1>4 DEF Noted, c
<1> QED
  BY <1>1, <1>2, <1>4, <1>5, <1>6, WriteStep DEF SetKey

LEMMA ErrorStep ==
  ASSUME IInv, Recovers = FALSE, NEW p \in Process, SetValFails(p) \/ TakeOutFails(p) \/ Crash(p)
  PROVE  Step(p)
<1>1. Ends(p) /\ UNCHANGED <<file, use>>
  BY DEF SetValFails, TakeOutFails, Crash, Fails
<1> QED
  BY <1>1, EndStep
-----------------------------------------------------------------------------
(* tabDelete of the record an object stands on and has the lock of: the    *)
(* record is marked and written, the lock dropped, the object goes on.     *)
LEMMA DeleteStep ==
  ASSUME IInv, NEW p \in Process, NEW t \in Object, t.pos \in 1..Len(file.rec), lock[t.pos] = p,
         Noted(file, t), DeleteHere(p, t, file),
         NEW c \in Progress, c.pc \in {"idle", "done", "append", "goto"},
         call' = [call EXCEPT ![p] = c], use' = use
  PROVE  Step(p)
<1> DEFINE b == [t.buf EXCEPT !.del = TRUE]
           d == [t EXCEPT !.modif = TRUE, !.buf = b]
           g == Written(file, d)
           u == Committed(d)
<1>1. FileOK(file) /\ Matches(file) /\ Len(file.rec) \in Nat /\ Inside(file, lock) /\ t.pos \in Rec
  BY OwnSame, Types DEF FileOK
<1>2. b \in Record /\ b.key = t.buf.key /\ b.del = TRUE
  BY DEF Object, Record
<1> HIDE DEF b
<1>3. /\ d \in Object /\ d.modif /\ d.pos = t.pos /\ d.buf = b /\ d.modifapp = t.modifapp
      /\ d.modifkey = t.modifkey /\ d.curkey = t.curkey
  BY <1>2 DEF Object
<1>4. /\ file' = Written(file, d) /\ lock' = [lock EXCEPT ![t.pos] = None]
      /\ \E n \in NextOf(file', d) : tab' = [tab EXCEPT ![p] = n]
  <2>1. [t EXCEPT !.modif = TRUE, !.buf.del = TRUE] = d
    BY DEF b, Object
  <2> HIDE DEF d
  <2> QED
    BY <2>1 DEF DeleteHere
<1> HIDE DEF d
<1>5. Noted(file, d)
  BY <1>2, <1>3 DEF Noted
<1>6. /\ FileOK(g) /\ Matches(g) /\ Len(g.rec) = Len(file.rec)
      /\ \A r \in 1..Len(file.rec) \ {t.pos} :
           /\ g.rec[r] = file.rec[r]
           /\ r \in g.recno <=> r \in file.recno
           /\ r \in g.deleted <=> r \in file.deleted
  BY <1>1, <1>3, <1>5, Writes
<1>7. u \in Object /\ Clean(u)
  <2>1. u = [d EXCEPT !.modif = FALSE, !.modifkey = FALSE, !.modifapp = FALSE, !.curkey = NoKey]
    BY <1>2, <1>3 DEF Committed, Object
  <2> HIDE DEF u
  <2> QED
    BY <1>3, <2>1 DEF Object, Clean
<1> HIDE DEF g
<1>8. file' = g /\ Own(file, file', lock, p) /\ Inside(g, lock)
  BY <1>1, <1>4, <1>6 DEF Own, Inside, g
<1>9. OwnLocks(lock, lock', p) /\ Inside(file', lock')
  BY <1>1, <1>4, <1>8, Locks, OneLock
<1>10. PICK n : Fresh(g, n) /\ tab' = [tab EXCEPT ![p] = n]
  <2>1. PICK n \in NextOf(g, d) : tab' = [tab EXCEPT ![p] = n]
    BY <1>4, <1>8
  <2>2. n \in {GoEOF(u)} \cup {SetPos(g, u, e) : e \in g.index} \cup {tabGetNext(g, u)}
    BY DEF NextOf
  <2> HIDE DEF u
  <2>3. CASE n = GoEOF(u)
    BY <1>6, <1>7, <2>1, <2>3, ToEOF
  <2>4. CASE n \in {SetPos(g, u, e) : e \in g.index}
    <3>1. PICK r \in g.recno : n = SetPos(g, u, Entry(g.rec[r].key, r))
      BY <1>6, <2>4 DEF Matches, Entries
    <3>2. g.rec[r] \in Record
      BY <1>6, ElementOfSeq DEF FileOK, File
    <3>3. g.rec[r].key \in KeyVal
      BY <3>2 DEF Record
    <3> QED
      BY <1>6, <1>7, <2>1, <3>1, <3>3, ToEntry
  <2>5. CASE n = tabGetNext(g, u)
    BY <1>6, <1>7, <2>1, <2>5, Movement
  <2> QED
    BY <2>2, <2>3, <2>4, <2>5
<1>11. n \in Object /\ Knows(file', lock', n, c, p)
  BY <1>8, <1>10, FreshKnows DEF Fresh
<1> QED
  BY <1>6, <1>8, <1>9, <1>10, <1>11, MakeStep

LEMMA DeletingStep == ASSUME IInv, NEW p \in Process, Delete(p) PROVE Step(p)
<1>1. /\ tab[p] \in Object /\ tab[p].pos \in 1..Len(file.rec) /\ lock[tab[p].pos] = p
      /\ Noted(file, tab[p])
  BY Writable DEF Delete, Calls
<1>2. DeleteHere(p, tab[p], file) /\ call' = [call EXCEPT ![p] = Idle] /\ use' = use
  BY DEF Delete, Return
<1> QED
  BY <1>1, <1>2, IdleIsProgress, DeleteStep DEF Idle

(* tabInsert finds another record with its key: the record it has appended *)
(* is still its own.                                                       *)
LEMMA WithdrawStep == ASSUME IInv, NEW p \in Process, Withdraw(p) PROVE Step(p)
<1> DEFINE t == tabGoto(file, tab[p], call[p].rec)
           c == [call[p] EXCEPT !.pc = "goto", !.rec = tab[p].pos]
<1>1. /\ call[p].pc = "withdraw" /\ tab[p] \in Object /\ call[p] \in Progress
      /\ Knows(file, lock, tab[p], call[p], p)
  BY DEF IInv, TypeOK, Withdraw
<1>2. Clean(tab[p]) /\ call[p].rec \in file.recno /\ lock[call[p].rec] = p
  BY <1>1 DEF Knows
<1>3. FileOK(file) /\ Matches(file) /\ Len(file.rec) \in Nat
  BY OwnSame
<1>4. Fresh(file, t) /\ t.pos = call[p].rec
  BY <1>1, <1>2, <1>3, Movement
<1>5. call[p].rec \in 1..Len(file.rec)
  BY <1>2, <1>3 DEF FileOK
<1>6. c \in Progress /\ c.pc = "goto" /\ call' = [call EXCEPT ![p] = c]
  BY <1>1 DEF Progress, Object, Withdraw
<1>7. DeleteHere(p, t, file) /\ use' = use
  BY DEF Withdraw
<1> HIDE DEF t, c
<1>8. Noted(file, t)
  BY <1>2, <1>4, <1>5 DEF Fresh, Noted, Clean
<1> QED
  BY <1>2, <1>4, <1>5, <1>6, <1>7, <1>8, DeleteStep DEF Fresh
-----------------------------------------------------------------------------
(* tabAppend and tabInsert.                                                *)
LEMMA BeginStep ==
  ASSUME IInv, NEW p \in Process, tabAppend(p) \/ \E k \in Key : tabInsert(p, k)
  PROVE  Step(p)
<1> DEFINE g == Written(file, tab[p])
           u == Committed(tab[p])
<1>1. call[p].pc \in {"idle", "done"}
  BY DEF tabAppend, tabInsert, Calls
<1>2. /\ FileOK(g) /\ Matches(g) /\ u \in Object /\ Clean(u) /\ u.pos <= Len(g.rec)
      /\ Holds(lock, u, p) => u.buf = g.rec[u.pos]
  BY <1>1, Commit DEF IInv, Knows
<1>3. CASE tabAppend(p)
  <2> DEFINE c == [Idle EXCEPT !.pc = "append"]
  <2>1. c \in Progress /\ c.pc = "append"
    BY IdleIsProgress DEF Idle, Progress
  <2> HIDE DEF c
  <2>2. Knows(g, lock, u, c, p)
    BY <1>2, <2>1, CleanKnows
  <2>3. Moves(p, u) /\ call' = [call EXCEPT ![p] = c]
    BY <1>3 DEF tabAppend, c
  <2> QED
    BY <1>1, <1>2, <2>1, <2>2, <2>3, MoveStep
<1>4. CASE \E k \in Key : tabInsert(p, k)
  <2>1. PICK k \in Key : tabInsert(p, k)
    BY <1>4
  <2> DEFINE t == tabSeek(g, u, k)
             c == [pc |-> IF tabFound(t, k) THEN "idle" ELSE "append",
                   insert |-> TRUE, key |-> k, rec |-> 0]
  <2>2. c \in Progress /\ c.pc \in {"idle", "append"}
    BY Types DEF Progress, KeyVal
  <2>3. Moves(p, t) /\ call' = [call EXCEPT ![p] = c]
    BY <2>1 DEF tabInsert
  <2> HIDE DEF c
  <2>4. Fresh(g, t)
    BY <1>2, Movement
  <2>5. t \in Object /\ Knows(g, lock, t, c, p)
    BY <2>2, <2>4, FreshKnows DEF Fresh
  <2> QED
    BY <1>1, <2>2, <2>3, <2>5, MoveStep
<1> QED
  BY <1>3, <1>4

LEMMA TryDeletedStep == ASSUME IInv, NEW p \in Process, TryDeleted(p) PROVE Step(p)
<1> DEFINE r == CHOOSE r \in Candidates(p) : \A s \in Candidates(p) : r <= s
           t == [tab[p] EXCEPT !.pos = r]
           c == [call[p] EXCEPT !.pc = "undelete", !.rec = r]
<1>1. /\ FileOK(file) /\ Matches(file) /\ Inside(file, lock) /\ Own(file, file, lock, p)
      /\ OwnLocks(lock, lock, p)
  BY OwnSame, Locks
<1>2. /\ call[p].pc = "append" /\ tab[p] \in Object /\ call[p] \in Progress
      /\ Knows(file, lock, tab[p], call[p], p)
  BY DEF IInv, TypeOK, TryDeleted
<1>3. Candidates(p) \subseteq 1..Len(file.rec) /\ Candidates(p) \in SUBSET Nat /\ Candidates(p) # {}
  BY <1>1, Types DEF FileOK, File, Candidates, TryDeleted
<1>4. r \in Candidates(p)
  BY <1>3, Least
<1>5. r \in 1..Len(file.rec) /\ r \in 0..MaxRec /\ Len(file.rec) \in Nat
  BY <1>1, <1>3, <1>4, OwnSame, Types DEF FileOK, File
<1>6. tab' = [tab EXCEPT ![p] = t] /\ call' = [call EXCEPT ![p] = c] /\ UNCHANGED <<file, lock, use>>
  <2>1. /\ tab' = [tab EXCEPT ![p].pos = r]
        /\ call' = [call EXCEPT ![p].pc = "undelete", ![p].rec = r]
        /\ UNCHANGED <<file, lock, use>>
    BY Zenon DEF TryDeleted
  <2> HIDE DEF r
  <2> QED
    BY <2>1
<1> HIDE DEF r
<1>7. t \in Object /\ t.pos = r /\ t.modif = tab[p].modif /\ t.modifapp = tab[p].modifapp
      /\ t.modifkey = tab[p].modifkey /\ t.curkey = tab[p].curkey
  BY <1>2, <1>5 DEF Object
<1>8. c \in Progress /\ c.pc = "undelete"
  BY <1>2, <1>5 DEF Progress
<1> HIDE DEF t, c
<1>9. Knows(file, lock, t, c, p)
  BY <1>2, <1>5, <1>7, <1>8 DEF Knows, Clean
<1> QED
  BY <1>1, <1>6, <1>7, <1>8, <1>9, MakeStep

LEMMA LockDeletedStep == ASSUME IInv, NEW p \in Process, LockDeleted(p) PROVE Step(p)
<1> DEFINE x == tab[p].pos
<1>1. /\ FileOK(file) /\ Matches(file) /\ Inside(file, lock) /\ Own(file, file, lock, p)
      /\ Len(file.rec) \in Nat
  BY OwnSame
<1>2. /\ call[p].pc = "undelete" /\ tab[p] \in Object /\ call[p] \in Progress
      /\ Knows(file, lock, tab[p], call[p], p) /\ file' = file /\ use' = use
  BY DEF IInv, TypeOK, LockDeleted
<1>3. x \in Rec /\ x <= Len(file.rec) /\ Clean(tab[p])
  <2>1. x # 0 /\ x <= Len(file.rec) /\ Clean(tab[p])
    BY <1>2 DEF Knows
  <2> QED
    BY <1>2, <2>1, Types DEF Object
<1>4. CASE lock[x] \in {None, p}
  <2> DEFINE t == [tab[p] EXCEPT !.modif = TRUE, !.modifkey = TRUE, !.modifapp = TRUE, !.buf = Blank]
             c == [call[p] EXCEPT !.pc = "takeout"]
  <2>1. lock' = [Others(p) EXCEPT ![x] = p]
        /\ tab' = [tab EXCEPT ![p] = t] /\ call' = [call EXCEPT ![p] = c]
    BY <1>4 DEF LockDeleted, Locked, Goes
  <2>2. t \in Object /\ t.pos = x /\ t.modif /\ t.modifkey /\ t.modifapp /\ t.buf = Blank
        /\ t.curkey = tab[p].curkey
    BY <1>2, Types DEF Object
  <2>3. c \in Progress /\ c.pc = "takeout"
    BY <1>2 DEF Progress
  <2> HIDE DEF t, c
  <2>4. OwnLocks(lock, lock', p) /\ Inside(file, lock')
    <3>1. OwnLocks(lock, Others(p), p) /\ Inside(file, Others(p))
      BY <1>1, Locks
    <3> QED
      BY <1>3, <1>4, <2>1, <3>1, OneLock
  <2>5. lock'[x] = p
    <3>1. Others(p) \in [Rec -> Process \cup {None}]
      BY Locks DEF OwnLocks
    <3> QED
      BY <1>3, <2>1, <3>1
  <2>6. Knows(file, lock', t, c, p)
    BY <1>3, <2>2, <2>3, <2>5, Types DEF Knows, Holds, Clean, Blank
  <2> QED
    BY <1>1, <1>2, <2>1, <2>2, <2>3, <2>4, <2>6, MakeStep
<1>5. CASE lock[x] \notin {None, p}
  <2> DEFINE c == [call[p] EXCEPT !.pc = "append"]
  <2>1. lock' = Others(p) /\ tab' = tab /\ call' = [call EXCEPT ![p] = c]
    BY <1>5 DEF LockDeleted, Goes
  <2>2. tab' = [tab EXCEPT ![p] = tab[p]]
    BY <2>1 DEF IInv, TypeOK
  <2>3. c \in Progress /\ c.pc = "append"
    BY <1>2 DEF Progress
  <2> HIDE DEF c
  <2>4. OwnLocks(lock, lock', p) /\ Inside(file, lock') /\ ~Holds(lock', tab[p], p)
    BY <1>1, <1>3, <2>1, Locks DEF Holds
  <2>5. Knows(file, lock', tab[p], c, p)
    BY <1>2, <1>3, <2>3, <2>4, CleanKnows
  <2> QED
    BY <1>1, <1>2, <2>1, <2>2, <2>3, <2>4, <2>5, MakeStep
<1> QED
  BY <1>4, <1>5

(* tabAppend returns an object with a new record to commit, into which     *)
(* tabInsert puts its key.                                                 *)
LEMMA AppendedStep ==
  ASSUME IInv, NEW p \in Process, NEW t \in Object, Appended(p, t), use' = use,
         FileOK(file'), Matches(file'), Own(file, file', lock, p), Len(file.rec) \in Nat,
         OwnLocks(lock, lock', p), Inside(file', lock'),
         t.modif, t.modifapp, Noted(file', t), ~t.buf.del, t.pos \in Rec, t.pos <= Len(file'.rec),
         lock'[t.pos] = p
  PROVE  Step(p)
<1>1. call[p] \in Progress
  BY DEF IInv, TypeOK
<1>2. t.pos # 0 /\ t.pos \in 0..MaxRec
  BY Types
<1>3. CASE call[p].insert
  <2> DEFINE b == [t.buf EXCEPT !.key = call[p].key]
             n == [t EXCEPT !.buf = b]
             c == [call[p] EXCEPT !.pc = "synchronize", !.rec = t.pos]
  <2>1. tab' = [tab EXCEPT ![p] = n] /\ call' = [call EXCEPT ![p] = c]
    BY <1>3 DEF Appended
  <2>2. b \in Record /\ b.del = t.buf.del
    BY <1>1 DEF Object, Record, Progress
  <2> HIDE DEF b
  <2>3. /\ n \in Object /\ n.modif = t.modif /\ n.pos = t.pos /\ n.buf = b /\ n.modifapp = t.modifapp
        /\ n.modifkey = t.modifkey /\ n.curkey = t.curkey
    BY <2>2 DEF Object
  <2>4. c \in Progress /\ c.pc = "synchronize" /\ c.rec = t.pos
    BY <1>1, <1>2 DEF Progress
  <2> HIDE DEF n, c
  <2>5. Noted(file', n)
    BY <2>3 DEF Noted
  <2>6. Knows(file', lock', n, c, p)
    BY <1>2, <2>2, <2>3, <2>4, <2>5 DEF Knows, Holds
  <2> QED
    BY <2>1, <2>3, <2>4, <2>6, MakeStep
<1>4. CASE ~call[p].insert
  <2>1. tab' = [tab EXCEPT ![p] = t] /\ call' = [call EXCEPT ![p] = Idle]
    BY <1>4 DEF Appended
  <2>2. Knows(file', lock', t, Idle, p)
    BY <1>2 DEF Knows, Holds, Idle
  <2> QED
    BY <2>1, <2>2, IdleIsProgress, MakeStep
<1> QED
  BY <1>3, <1>4

(* The record is taken out of the deleted ones.                            *)
LEMMA TakeOutStep == ASSUME IInv, NEW p \in Process, TakeOut(p) PROVE Step(p)
<1> DEFINE t == tab[p]
<1>1. /\ FileOK(file) /\ Matches(file) /\ Inside(file, lock) /\ Len(file.rec) \in Nat
      /\ OwnLocks(lock, lock, p)
  BY OwnSame, Locks
<1>2. /\ call[p].pc = "takeout" /\ t \in Object /\ Knows(file, lock, t, call[p], p)
      /\ t.pos \in file.deleted
  BY DEF IInv, TypeOK, TakeOut
<1>3. /\ t.modif /\ t.modifapp /\ t.modifkey /\ t.curkey = NoKey /\ ~t.buf.del
      /\ t.pos # 0 /\ lock[t.pos] = p /\ t.pos <= Len(file.rec) /\ t.pos \in Rec
  <2>1. t.pos # 0
    BY <1>2 DEF Knows, Holds
  <2> QED
    BY <1>2, <2>1, Types DEF Knows, Holds, Object
<1>4. file' = [file EXCEPT !.deleted = @ \ {t.pos}] /\ UNCHANGED <<lock, use>> /\ Appended(p, t)
  BY DEF TakeOut
<1>5. /\ file' \in File /\ file'.rec = file.rec /\ file'.recno = file.recno
      /\ file'.deleted = file.deleted \ {t.pos} /\ file'.index = file.index
  BY <1>1, <1>4 DEF FileOK, File
<1>6. FileOK(file') /\ Inside(file', lock')
  BY <1>1, <1>4, <1>5 DEF FileOK, Inside
<1>7. Matches(file')
  BY <1>1, <1>5 DEF Matches
<1>8. Own(file, file', lock, p)
  BY <1>1, <1>3, <1>5 DEF Own
<1>9. Noted(file', t)
  BY <1>1, <1>2, <1>3, <1>5 DEF Noted, Matches
<1> QED
  BY <1>1, <1>2, <1>3, <1>4, <1>5, <1>6, <1>7, <1>8, <1>9, AppendedStep

(* A new record at the end of the file, which nobody else knows yet.       *)
LEMMA AppendNewStep == ASSUME IInv, NEW p \in Process, AppendNew(p) PROVE Step(p)
<1> DEFINE n == Len(file.rec)
           new == [Blank EXCEPT !.del = TRUE]
           x == n + 1
           t == [tab[p] EXCEPT !.pos = x, !.buf = Blank, !.modif = TRUE,
                               !.modifkey = TRUE, !.modifapp = TRUE]
<1>1. FileOK(file) /\ Matches(file) /\ Inside(file, lock) /\ n \in Nat
  BY OwnSame
<1>2. /\ call[p].pc = "append" /\ tab[p] \in Object /\ Knows(file, lock, tab[p], call[p], p)
      /\ lock \in [Rec -> Process \cup {None}]
  BY DEF IInv, TypeOK, AppendNew
<1>3. Clean(tab[p])
  BY <1>2 DEF Knows
<1>4. /\ x <= MaxRec /\ file' = [file EXCEPT !.rec = Append(@, new)]
      /\ lock' = [Others(p) EXCEPT ![x] = p] /\ Appended(p, t) /\ use' = use
  BY DEF AppendNew, Locked
<1>5. x \in Rec /\ x \in 0..MaxRec
  BY <1>1, <1>4, Types
<1>6. new \in Record /\ new.del = TRUE
  BY Types DEF Blank, Record
<1> HIDE DEF new
<1>7. /\ Append(file.rec, new) \in Seq(Record) /\ Len(Append(file.rec, new)) = x
      /\ \A r \in 1..n : Append(file.rec, new)[r] = file.rec[r]
      /\ Append(file.rec, new)[x] = new
  BY <1>1, <1>6, AppendProperties DEF FileOK, File
<1>8. /\ file' \in File /\ file'.rec = Append(file.rec, new) /\ file'.recno = file.recno
      /\ file'.deleted = file.deleted /\ file'.index = file.index
  BY <1>1, <1>4, <1>7 DEF FileOK, File
<1>9. Len(file'.rec) = x /\ (\A r \in 1..n : file'.rec[r] = file.rec[r]) /\ file'.rec[x] = new
  BY <1>7, <1>8
<1>10. file.recno \cup file.deleted \subseteq 1..n
  BY <1>1 DEF FileOK
<1>11. FileOK(file')
  BY <1>1, <1>4, <1>8, <1>9, <1>10 DEF FileOK
<1>12. Matches(file')
  <2>1. Entries(file'.rec, file.recno) = Entries(file.rec, file.recno)
    BY <1>9, <1>10, EntriesSame
  <2>2. file'.index = Entries(file'.rec, file'.recno)
    BY <1>1, <1>8, <2>1 DEF Matches
  <2>3. \A r \in 1..Len(file'.rec) : r \in file'.recno <=> ~file'.rec[r].del
    BY <1>1, <1>6, <1>8, <1>9, <1>10 DEF Matches
  <2> QED
    BY <1>1, <1>8, <2>2, <2>3 DEF Matches
<1>13. Own(file, file', lock, p)
  BY <1>1, <1>8, <1>9 DEF Own
<1>14. lock[x] = None
  BY <1>1, <1>5 DEF Inside
<1>15. OwnLocks(lock, lock', p) /\ Inside(file', lock') /\ lock'[x] = p
  <2>1. OwnLocks(lock, Others(p), p) /\ Inside(file, Others(p))
    BY <1>1, Locks
  <2>2. Inside(file', Others(p)) /\ Others(p) \in [Rec -> Process \cup {None}]
    BY <1>1, <1>9, <2>1, Types DEF Inside, OwnLocks
  <2>3. p \in {None, p} /\ lock[x] \in {None, p} /\ (p # None => x <= Len(file'.rec))
    BY <1>1, <1>9, <1>14
  <2> DEFINE l == Others(p)
  <2> HIDE DEF l
  <2>4. /\ OwnLocks(lock, [l EXCEPT ![x] = p], p) /\ Inside(file', [l EXCEPT ![x] = p])
    BY <1>5, <2>1, <2>2, <2>3, OneLock DEF l
  <2>5. lock' = [l EXCEPT ![x] = p] /\ l \in [Rec -> Process \cup {None}]
    BY <1>4, <2>2 DEF l
  <2> QED
    BY <1>5, <2>4, <2>5
<1>16. /\ t \in Object /\ t.pos = x /\ t.buf = Blank /\ t.modif /\ t.modifkey /\ t.modifapp
       /\ t.curkey = tab[p].curkey
  BY <1>2, <1>5, Types DEF Object
<1> HIDE DEF t
<1>17. Noted(file', t)
  BY <1>1, <1>3, <1>8, <1>10, <1>16 DEF Noted, Clean
<1>18. ~t.buf.del /\ t.pos <= Len(file'.rec)
  BY <1>1, <1>9, <1>16 DEF Blank
<1> QED
  BY <1>1, <1>4, <1>5, <1>11, <1>12, <1>13, <1>15, <1>16, <1>17, <1>18, AppendedStep

(* The record of a tabInsert is committed and looked for again; its lock   *)
(* is kept.                                                                *)
LEMMA SynchronizeStep == ASSUME IInv, NEW p \in Process, Synchronize(p) PROVE Step(p)
<1> DEFINE g == Written(file, tab[p])
           u == Committed(tab[p])
           c == [call[p] EXCEPT !.pc = "verify"]
<1>1. /\ call[p].pc = "synchronize" /\ call[p] \in Progress /\ tab[p].modif /\ call[p].rec = tab[p].pos
      /\ lock[tab[p].pos] = p
  BY DEF IInv, TypeOK, Synchronize, Knows, Holds
<1>2. /\ u \in Object /\ u.pos = tab[p].pos /\ Clean(u) /\ u.buf = g.rec[u.pos] /\ u.pos \in g.recno
      /\ FileOK(g)
  BY <1>1, Commit
<1>3. c \in Progress /\ c.pc = "verify" /\ c.rec = call[p].rec
  BY <1>1 DEF Progress
<1>4. Moves(p, u) /\ call' = [call EXCEPT ![p] = c]
  BY DEF Synchronize, Goes
<1> HIDE DEF g, u, c
<1>5. u.pos <= Len(g.rec)
  BY <1>2 DEF FileOK, File
<1>6. Knows(g, lock, u, c, p)
  BY <1>1, <1>2, <1>3, <1>5 DEF Knows, Clean
<1> QED
  BY <1>1, <1>2, <1>3, <1>4, <1>6, MoveStep DEF g

LEMMA VerifyStep == ASSUME IInv, NEW p \in Process, Verify(p) PROVE Step(p)
<1> DEFINE t == tabSeek(file, tab[p], call[p].key)
           c == [call[p] EXCEPT !.pc = IF t.pos = call[p].rec THEN "done" ELSE "withdraw"]
<1>1. /\ call[p].pc = "verify" /\ call[p] \in Progress /\ tab[p] \in Object
      /\ Knows(file, lock, tab[p], call[p], p)
  BY DEF IInv, TypeOK, Verify
<1>2. ~tab[p].modif /\ Clean(tab[p]) /\ call[p].rec \in file.recno /\ lock[call[p].rec] = p
  BY <1>1 DEF Knows
<1>3. Written(file, tab[p]) = file
  BY <1>2 DEF Written
<1>4. Fresh(file, t)
  BY <1>1, <1>2, OwnSame, Movement
<1>5. Moves(p, t) /\ call' = [call EXCEPT ![p] = c]
  BY DEF Verify, Goes
<1>6. c \in Progress /\ c.pc \in {"done", "withdraw"} /\ c.rec = call[p].rec
  BY <1>1 DEF Progress
<1> HIDE DEF t, c
<1>7. t \in Object /\ Knows(file, lock, t, c, p)
  BY <1>2, <1>4, <1>6 DEF Fresh, Knows, Clean, Holds
<1> QED
  BY <1>1, <1>3, <1>5, <1>6, <1>7, MoveStep
-----------------------------------------------------------------------------
LEMMA InitIInv == Init => IInv
<1> SUFFICES ASSUME Init PROVE IInv
  OBVIOUS
<1> DEFINE keys == use.keys
           n == Len(keys)
<1>1. use \in Uses /\ keys \in Seq(Key) /\ n \in Nat /\ n <= MaxRec /\ DOMAIN keys = 1..n
  <2>1. use \in Uses /\ keys \in Seq(Key)
    BY UsesAssumption DEF Init
  <2> QED
    BY <2>1, LenProperties, MaxRecAssumption
<1>2. /\ file.rec = [r \in 1..n |-> [Blank EXCEPT !.key = keys[r]]]
      /\ file.recno = 1..n /\ file.deleted = {}
      /\ file.index = {Entry(keys[r], r) : r \in 1..n}
      /\ file = [rec |-> file.rec, recno |-> file.recno, deleted |-> file.deleted,
                 index |-> file.index]
  BY <1>1 DEF Init
<1> HIDE DEF n
<1>3. \A r \in 1..n : keys[r] \in Key
  BY <1>1, ElementOfSeq DEF n
<1> HIDE DEF keys
<1>4. \A r \in 1..n : /\ file.rec[r] \in Record /\ file.rec[r].key = keys[r]
                      /\ ~file.rec[r].del /\ Entry(keys[r], r) \in KeyVal \X Rec
  <2> SUFFICES ASSUME NEW r \in 1..n
               PROVE  /\ file.rec[r] \in Record /\ file.rec[r].key = keys[r]
                      /\ ~file.rec[r].del /\ Entry(keys[r], r) \in KeyVal \X Rec
    OBVIOUS
  <2>1. keys[r] \in KeyVal
    BY <1>3 DEF KeyVal
  <2>2. file.rec[r] = [Blank EXCEPT !.key = keys[r]]
    BY <1>2
  <2>3. r \in Rec
    BY <1>1, Types
  <2> QED
    BY <2>1, <2>2, <2>3 DEF Blank, Record, Entry
<1>5. file.rec \in Seq(Record) /\ Len(file.rec) = n
  <2>1. file.rec \in [1..n -> Record]
    BY <1>2, <1>4
  <2>2. file.rec \in Seq(Record)
    BY <1>1, <2>1, SeqDef
  <2> QED
    BY <1>1, <1>2, <2>2, LenProperties
<1>6. FileOK(file)
  <2>1. file.recno \subseteq Rec /\ file.deleted \subseteq Rec
    BY <1>1, <1>2, Types
  <2>2. file.index \subseteq KeyVal \X Rec
    BY <1>2, <1>4
  <2>3. file \in File
    BY <1>2, <1>5, <2>1, <2>2 DEF File
  <2> QED
    BY <1>1, <1>2, <1>5, <2>3 DEF FileOK
<1>7. Matches(file)
  <2>1. file.index = Entries(file.rec, file.recno)
    BY <1>2, <1>4 DEF Entries
  <2> QED
    BY <1>2, <1>4, <1>5, <2>1 DEF Matches
<1>8. lock \in [Rec -> Process \cup {None}] /\ \A r \in Rec : lock[r] = None
  BY DEF Init
<1>9. Inside(file, lock)
  BY <1>8 DEF Inside
<1>10. Fresh(file, tabOpen(file)) /\ tabOpen(file) \in Object
  BY <1>6, <1>7, Opening DEF Fresh
<1>11. /\ tab = [p \in Process |-> tabOpen(file)]
       /\ call = [p \in Process |-> Idle]
  BY DEF Init
<1>12. ASSUME NEW p \in Process PROVE Knows(file, lock, tab[p], call[p], p)
  <2>1. Idle.pc = "idle"
    BY DEF Idle
  <2> QED
    BY <1>10, <1>11, <2>1, IdleIsProgress, FreshKnows
<1>13. TypeOK
  BY <1>1, <1>6, <1>8, <1>10, <1>11, IdleIsProgress DEF TypeOK, FileOK
<1> QED
  BY <1>7, <1>9, <1>12, <1>13 DEF IInv

(* Every step is one of some process.                                      *)
LEMMA NextStep == ASSUME IInv, Recovers = FALSE, Next PROVE \E p \in Process : Step(p)
<1>1. PICK p \in Process :
    \/ \E k \in Key : Seek(p, k) \/ SetKey(p, k) \/ tabInsert(p, k)
    \/ \E r \in Rec : Goto(p, r) \/ tabMLock(p, r) \/ tabUnlockOne(p, r)
    \/ tabRLock(p) \/ tabRLockFails(p) \/ tabUnlock(p)
    \/ \E v \in {0, 1} : SetVal(p, v)
    \/ SetValFails(p) \/ Delete(p)
    \/ tabAppend(p) \/ TryDeleted(p) \/ LockDeleted(p) \/ TakeOut(p) \/ TakeOutFails(p)
    \/ AppendNew(p)
    \/ Synchronize(p) \/ Verify(p) \/ Withdraw(p) \/ GotoFound(p)
    \/ Crash(p)
  BY DEF Next
<1>2. CASE \/ \E k \in Key : Seek(p, k)
           \/ \E r \in Rec : Goto(p, r)
           \/ GotoFound(p)
  BY <1>2, MovingStep
<1>3. CASE \/ tabRLock(p) \/ tabRLockFails(p) \/ tabUnlock(p)
           \/ \E r \in Rec : tabMLock(p, r) \/ tabUnlockOne(p, r)
  BY <1>3, LockingStep
<1>4. CASE \/ \E k \in Key : SetKey(p, k)
           \/ \E v \in {0, 1} : SetVal(p, v)
  BY <1>4, SetKeyStep, SetValStep
<1>5. CASE SetValFails(p) \/ TakeOutFails(p) \/ Crash(p)
  BY <1>5, ErrorStep
<1>6. CASE tabAppend(p) \/ \E k \in Key : tabInsert(p, k)
  BY <1>6, BeginStep
<1>7. CASE Delete(p) \/ Withdraw(p)
  BY <1>7, DeletingStep, WithdrawStep
<1>8. CASE TryDeleted(p) \/ LockDeleted(p) \/ TakeOut(p)
  BY <1>8, TryDeletedStep, LockDeletedStep, TakeOutStep
<1>9. CASE AppendNew(p) \/ Synchronize(p) \/ Verify(p)
  BY <1>9, AppendNewStep, SynchronizeStep, VerifyStep
<1> QED
  BY <1>1, <1>2, <1>3, <1>4, <1>5, <1>6, <1>7, <1>8, <1>9

LEMMA NextIInv == ASSUME IInv, Recovers = FALSE, [Next]_vars PROVE IInv'
<1>1. CASE Next
  BY <1>1, NextStep, StepKeeps
<1>2. CASE UNCHANGED vars
  BY <1>2 DEF vars, IInv, TypeOK, Matches, Inside
<1> QED
  BY <1>1, <1>2

LEMMA Invariance == ASSUME Recovers = FALSE PROVE Spec => []IInv
<1>1. IInv /\ [Next]_vars => IInv'
  BY NextIInv
<1> QED
  BY <1>1, InitIInv, PTL DEF Spec
-----------------------------------------------------------------------------
(* Records, orders, locks and table objects keep their types, and no order *)
(* has a number behind the end of the file (dblock.prg, dbmodif.prg).      *)
THEOREM TypeCorrect == ASSUME Recovers = FALSE PROVE Spec => []TypeOK
<1>1. IInv => TypeOK
  BY DEF IInv
<1> QED
  BY <1>1, Invariance, PTL

(* Whatever the processes do and wherever they are killed, the index has   *)
(* the keys of the records that are not deleted and no others: writeback   *)
(* of dbmodif.prg deletes the key the record had and adds the new one.     *)
THEOREM IndexStays == ASSUME Recovers = FALSE PROVE Spec => []IndexMatches
<1>1. IInv => IndexMatches
  BY DEF IInv, Matches, Entries, IndexMatches
<1> QED
  BY <1>1, Invariance, PTL

(* A process that has locked the record it stands on sees its last version *)
(* until it writes itself, and has the lock while it has something to      *)
(* commit: tabRLock and tabMLock read the record again, tabUnlock commits  *)
(* first.                                                                  *)
THEOREM NoLostUpdate == ASSUME Recovers = FALSE PROVE Spec => []LockedIsFresh
<1>1. IInv => LockedIsFresh
  BY DEF IInv, Knows, Holds, IsLocked, LockedIsFresh
<1> QED
  BY <1>1, Invariance, PTL

(* The keys a commit deletes are there and those it adds are not, so it    *)
(* never stops half way ("failed deleting key" of dbmodif.prg).            *)
THEOREM CommitCompletes == ASSUME Recovers = FALSE PROVE Spec => []CommitFindsKeys
<1>1. ASSUME IInv PROVE CommitFindsKeys
  <2> SUFFICES ASSUME NEW p \in Process, tab[p].modif, call[p].pc # "takeout"
               PROVE  LET t == tab[p]
                          old == Entry(IF t.curkey = NoKey THEN t.buf.key ELSE t.curkey, t.pos)
                      IN IF t.modifapp THEN t.pos \notin file.recno \cup file.deleted
                         ELSE t.pos \in file.recno /\ old \in file.index
    BY DEF CommitFindsKeys
  <2> DEFINE x == tab[p].pos
  <2>1. Noted(file, tab[p])
    BY <1>1 DEF IInv, Knows
  <2>2. CASE tab[p].modifapp
    BY <2>1, <2>2 DEF Noted
  <2>3. CASE ~tab[p].modifapp
    <3>1. x \in file.recno
      BY <2>1, <2>3 DEF Noted
    <3>2. file.rec[x].key \in KeyVal
      <4>1. x \in 1..Len(file.rec) /\ file.rec \in Seq(Record)
        BY <1>1, <3>1 DEF IInv, TypeOK, File
      <4>2. file.rec[x] \in Record
        BY <4>1, ElementOfSeq
      <4> QED
        BY <4>2 DEF Record
    <3>3. file.rec[x].key = IF tab[p].curkey = NoKey THEN tab[p].buf.key ELSE tab[p].curkey
      BY <2>1, <2>3, <3>2, Types DEF Noted
    <3>4. Entry(file.rec[x].key, x) \in file.index
      BY <1>1, <3>1 DEF IInv, Matches, Entries
    <3> QED
      BY <2>3, <3>1, <3>3, <3>4
  <2> QED
    BY <2>2, <2>3
<1> QED
  BY <1>1, Invariance, PTL

(* A step changes no record, and no place of one in the orders "recno" and *)
(* "deleted", but under the lock of the process that makes the step:       *)
(* tabAppend, tabDelete and the commits of dbmodif.prg all have it.        *)
THEOREM UnderLock == ASSUME Recovers = FALSE PROVE Spec => WrittenUnderLock
<1> DEFINE Changed(r) == \/ file'.rec[r] # file.rec[r]
                         \/ (r \in file'.recno) # (r \in file.recno)
                         \/ (r \in file'.deleted) # (r \in file.deleted)
           Writer(r) == lock[r] # None /\ \A p \in Process : p # lock[r] => tab'[p] = tab[p]
           A == \A r \in 1..Len(file.rec) : Changed(r) => Writer(r)
<1>1. ASSUME IInv, Next PROVE A
  <2>1. PICK p \in Process : Step(p)
    BY <1>1, NextStep
  <2> SUFFICES ASSUME NEW r \in 1..Len(file.rec), Changed(r) PROVE Writer(r)
    OBVIOUS
  <2>2. lock[r] = p
    BY <2>1 DEF Step, Own
  <2> QED
    BY <2>1, <2>2, ProcessAssumption DEF Step
<1>2. IInv /\ [Next]_vars => [A]_vars
  BY <1>1
<1>3. Spec => [][A]_vars
  <2> HIDE DEF A
  <2> QED
    BY <1>2, Invariance, PTL DEF Spec
<1> QED
  BY <1>3 DEF WrittenUnderLock
=============================================================================
