------------------------- MODULE TransactionProofs -------------------------
(***************************************************************************)
(* Proofs about Transaction, for any keys, any number of records, levels   *)
(* and pending updates, and whatever a program of Uses calls.              *)
(*                                                                         *)
(* CommitFindsKeys is not inductive: an update that is pending was noted   *)
(* when the record had another key, and what is written, synchronised or   *)
(* forgotten before it may be any of the others.  The invariant says of    *)
(* the pending updates that they are a chain (Chain): each follows the     *)
(* last one of its record before it, or the file where there is none; and  *)
(* of the object with something to commit that it is the next link.  What  *)
(* a process sees of a record is the end of the chain (Shows).  An update  *)
(* may be added at the end (ChainAppend), forgotten there (ChainPrefix),   *)
(* and the first of a record may go to the file (ChainWrite, which leaves  *)
(* what is seen, ShowsWrite); locks keep the others from the records of    *)
(* the chain (ChainElsewhere).                                             *)
(*                                                                         *)
(* Sound(s, oth) is the invariant of a state s between two operators, so   *)
(* that there is a lemma for each operator of the model (...Sound) and a   *)
(* lemma for each action (...Step).                                        *)
(***************************************************************************)
EXTENDS Transaction, WellFoundedInduction, SequenceTheorems, TLAPS

-----------------------------------------------------------------------------
(* Smallest elements.                                                       *)

LEMMA Least ==
  ASSUME NEW S \in SUBSET Nat, S # {}
  PROVE  \E n \in S : \A m \in S : n <= m
<1> DEFINE R == OpToRel(<, Nat)
<1>1. IsWellFoundedOn(R, Nat)
  BY NatLessThanWellFounded
<1>2. \A x, y \in Nat : y < x => <<y, x>> \in R
  BY DEF OpToRel
<1> HIDE DEF R
<1>3. PICK x \in S : \A y \in S : <<y, x>> \notin R
  BY <1>1, WFMin
<1>4. \A y \in S : ~(y < x)
  BY <1>2, <1>3
<1> QED
  BY <1>4

LEMMA MinOf ==
  ASSUME NEW S \in SUBSET Nat, S # {}
  PROVE  Min(S) \in S /\ \A m \in S : Min(S) <= m
BY Least DEF Min

LEMMA Greatest ==
  ASSUME NEW N \in Nat, NEW S \in SUBSET (1..N), S # {}
  PROVE  \E n \in S : \A m \in S : m <= n
<1> DEFINE D == {N - x : x \in S}
<1>1. D \in SUBSET Nat /\ D # {}
  <2>1. \A x \in S : N - x \in Nat
    OBVIOUS
  <2> QED
    BY <2>1
<1>2. PICK t \in D : \A j \in D : t <= j
  BY <1>1, Least
<1>3. PICK x \in S : t = N - x
  OBVIOUS
<1>4. \A y \in S : N - x <= N - y
  BY <1>2, <1>3
<1>5. \A y \in S : y <= x
  BY <1>4
<1> QED
  BY <1>5

-----------------------------------------------------------------------------
(* The chain of updates.  rec and recno are of the file, q are the pending  *)
(* updates, T the places of those that are still to be written.             *)

(* Update u is right where the record is b before it, or not there yet.     *)
Follows(u, b, new) ==
  /\ u.modifapp <=> new
  /\ u.modifapp => u.curkey = NoKey
  /\ ~u.modifapp => /\ ~b.del
                    /\ u.modifkey => u.curkey = b.key
                    /\ ~u.modifkey => u.curkey = NoKey /\ u.buf.key = b.key

(* n is the last of the updates T of record r.                              *)
Latest(q, T, r, n) == n \in T /\ q[n].pos = r /\ \A m \in T : m > n => q[m].pos # r

(* None of the updates T is of record r.                                    *)
None(q, T, r) == \A m \in T : q[m].pos # r

(* Update u is right after the updates T.                                   *)
Continues(rec, recno, q, T, u) ==
  /\ None(q, T, u.pos) => Follows(u, rec[u.pos], u.pos \notin recno)
  /\ \A m \in T : q[m].pos = u.pos => ~q[m].buf.del
  /\ \A m \in T : Latest(q, T, u.pos, m) => Follows(u, q[m].buf, FALSE)

Below(T, n) == {m \in T : m < n}

(* Every update is right after those before it.                             *)
Chain(rec, recno, q, T) == \A n \in T : Continues(rec, recno, q, Below(T, n), q[n])

(* b is record r with the updates T.                                        *)
Shows(rec, q, T, r, b) ==
  /\ None(q, T, r) => b = rec[r]
  /\ \A m \in T : Latest(q, T, r, m) => b = q[m].buf

(* One more update.                                                         *)
LEMMA ChainAppend ==
  ASSUME NEW rec, NEW recno, NEW q, NEW T, NEW N \in Nat, T \subseteq 1..N, NEW w,
         \A n \in T : w[n] = q[n],
         Chain(rec, recno, q, T), Continues(rec, recno, q, T, w[N + 1])
  PROVE  Chain(rec, recno, w, T \cup {N + 1})
<1> SUFFICES ASSUME NEW n \in T \cup {N + 1}
             PROVE  Continues(rec, recno, w, Below(T \cup {N + 1}, n), w[n])
  BY DEF Chain
<1>1. CASE n \in T
  <2>1. Below(T \cup {N + 1}, n) = Below(T, n)
    BY <1>1 DEF Below
  <2>2. Continues(rec, recno, q, Below(T, n), q[n]) /\ w[n] = q[n]
    BY <1>1 DEF Chain
  <2>3. \A m \in Below(T, n) : w[m] = q[m]
    BY DEF Below
  <2> QED
    BY <2>1, <2>2, <2>3, ZenonT(30) DEF Continues, None, Latest
<1>2. CASE n = N + 1
  <2>1. Below(T \cup {N + 1}, n) = T
    <3>1. ~(N + 1 < N + 1) /\ \A m \in T : m < N + 1
      OBVIOUS
    <3> QED
      BY <1>2, <3>1 DEF Below
  <2> QED
    BY <1>2, <2>1, ZenonT(30) DEF Continues, None, Latest
<1> QED
  BY <1>1, <1>2

LEMMA ShowsAppend ==
  ASSUME NEW rec, NEW q, NEW T, NEW N \in Nat, T \subseteq 1..N, NEW w,
         \A n \in T : w[n] = q[n]
  PROVE  Shows(rec, w, T \cup {N + 1}, w[N + 1].pos, w[N + 1].buf)
<1> DEFINE U == T \cup {N + 1}
<1>1. \A m \in U : Latest(w, U, w[N + 1].pos, m) => m = N + 1
  BY DEF Latest
<1> QED
  BY <1>1 DEF Shows, None

(* The updates of the first k places.                                       *)
LEMMA ChainPrefix ==
  ASSUME NEW rec, NEW recno, NEW q, NEW T, T \subseteq Nat \ {0}, NEW k \in Nat, NEW w,
         \A n \in T : n <= k => w[n] = q[n],
         Chain(rec, recno, q, T)
  PROVE  Chain(rec, recno, w, T \cap 1..k)
<1> SUFFICES ASSUME NEW n \in T \cap 1..k
             PROVE  Continues(rec, recno, w, Below(T \cap 1..k, n), w[n])
  BY DEF Chain
<1>1. Below(T \cap 1..k, n) = Below(T, n)
  <2>1. \A m \in T : m < n => m \in 1..k
    OBVIOUS
  <2> QED
    BY <2>1 DEF Below
<1>2. Continues(rec, recno, q, Below(T, n), q[n]) /\ w[n] = q[n]
  BY DEF Chain
<1>3. \A m \in Below(T, n) : w[m] = q[m]
  BY DEF Below
<1> QED
  BY <1>1, <1>2, <1>3, ZenonT(30) DEF Continues, None, Latest

(* An update after the record that is seen, which is there and not deleted. *)
LEMMA ContinuesSeen ==
  ASSUME NEW rec, NEW recno, NEW q, NEW T, T \subseteq Nat, NEW u, NEW b,
         Chain(rec, recno, q, T), Shows(rec, q, T, u.pos, b), ~b.del,
         rec[u.pos].del \/ u.pos \in recno,
         Follows(u, b, FALSE)
  PROVE  Continues(rec, recno, q, T, u)
<1>1. ASSUME None(q, T, u.pos) PROVE Follows(u, rec[u.pos], u.pos \notin recno)
  <2>1. b = rec[u.pos]
    BY <1>1 DEF Shows
  <2> QED
    BY <2>1 DEF Follows
<1>2. ASSUME NEW m \in T, Latest(q, T, u.pos, m) PROVE Follows(u, q[m].buf, FALSE)
  BY <1>2 DEF Shows
<1>3. ASSUME NEW m \in T, q[m].pos = u.pos PROVE ~q[m].buf.del
  <2>1. CASE Latest(q, T, u.pos, m)
    BY <2>1 DEF Shows
  <2>2. CASE ~Latest(q, T, u.pos, m)
    <3>1. PICK k \in T : k > m /\ q[k].pos = u.pos
      BY <1>3, <2>2 DEF Latest
    <3>2. m \in Below(T, k)
      BY <3>1 DEF Below
    <3> QED
      BY <1>3, <3>1, <3>2 DEF Chain, Continues
  <2> QED
    BY <2>1, <2>2
<1> QED
  BY <1>1, <1>2, <1>3 DEF Continues

(* The same in another file where the records of the updates are the same.  *)
LEMMA ChainElsewhere ==
  ASSUME NEW rec, NEW recno, NEW q, NEW T, NEW rec2, NEW recno2,
         \A n \in T : /\ rec2[q[n].pos] = rec[q[n].pos]
                      /\ q[n].pos \in recno2 <=> q[n].pos \in recno,
         Chain(rec, recno, q, T)
  PROVE  Chain(rec2, recno2, q, T)
BY ZenonT(30) DEF Chain, Continues

(* The first update of its record goes to the file.                         *)
Moves(rec, recno, q, T, rec2, recno2, w, n) ==
  /\ T \subseteq Nat /\ n \in T
  /\ None(q, Below(T, n), q[n].pos)
  /\ \A m \in T \ {n} : w[m] = q[m]
  /\ \A r : r # q[n].pos => rec2[r] = rec[r] /\ (r \in recno2 <=> r \in recno)
  /\ rec2[q[n].pos] = q[n].buf
  /\ ~q[n].buf.del => q[n].pos \in recno2

LEMMA ChainWrite ==
  ASSUME NEW rec, NEW recno, NEW q, NEW T, NEW rec2, NEW recno2, NEW w, NEW n,
         Moves(rec, recno, q, T, rec2, recno2, w, n), Chain(rec, recno, q, T)
  PROVE  Chain(rec2, recno2, w, T \ {n})
<1> SUFFICES ASSUME NEW i \in T \ {n}
             PROVE  Continues(rec2, recno2, w, Below(T \ {n}, i), w[i])
  BY DEF Chain
<1>0. /\ T \subseteq Nat /\ n \in T /\ None(q, Below(T, n), q[n].pos) /\ \A m \in T \ {n} : w[m] = q[m]
      /\ \A r : r # q[n].pos => rec2[r] = rec[r] /\ (r \in recno2 <=> r \in recno)
      /\ rec2[q[n].pos] = q[n].buf /\ (~q[n].buf.del => q[n].pos \in recno2)
  BY DEF Moves
<1> USE <1>0
<1> DEFINE S == Below(T, i)
<1>1. Continues(rec, recno, q, S, q[i]) /\ w[i] = q[i] /\ S \subseteq T
  BY DEF Chain, Below
<1>2. Below(T \ {n}, i) = S \ {n}
  BY DEF Below
<1> HIDE DEF S
<1>3. \A m \in S \ {n} : w[m] = q[m]
  BY <1>1
<1>4. CASE q[i].pos # q[n].pos
  <2>1. None(w, S \ {n}, q[i].pos) <=> None(q, S, q[i].pos)
    BY <1>3, <1>4 DEF None
  <2>2. \A m \in S \ {n} : Latest(w, S \ {n}, q[i].pos, m) => Latest(q, S, q[i].pos, m)
    BY <1>3, <1>4 DEF Latest
  <2>3. rec2[q[i].pos] = rec[q[i].pos] /\ (q[i].pos \in recno2 <=> q[i].pos \in recno)
    BY <1>4
  <2>4. None(w, S \ {n}, w[i].pos) => Follows(w[i], rec2[w[i].pos], w[i].pos \notin recno2)
    BY <1>1, <2>1, <2>3 DEF Continues, Follows
  <2> QED
    BY <1>1, <1>2, <1>3, <2>2, <2>4, ZenonT(30) DEF Continues
<1>5. CASE q[i].pos = q[n].pos
  <2>1. n \in S
    <3>1. ~(i < n)
      BY <1>5 DEF None, Below
    <3>2. i \in Nat /\ n \in Nat /\ i # n
      BY <1>0
    <3>3. n < i
      BY <3>1, <3>2
    <3> QED
      BY <3>3 DEF S, Below
  <2>2. ~q[n].buf.del /\ q[n].pos \in recno2
    BY <1>1, <1>5, <2>1 DEF Continues
  <2>3. ASSUME None(w, S \ {n}, w[i].pos) PROVE Follows(w[i], rec2[w[i].pos], w[i].pos \notin recno2)
    <3>1. Latest(q, S, q[i].pos, n)
      BY <1>1, <1>3, <1>5, <2>1, <2>3 DEF Latest, None
    <3>2. Follows(q[i], q[n].buf, FALSE)
      BY <1>1, <2>1, <3>1 DEF Continues
    <3> QED
      BY <1>1, <1>5, <2>2, <3>2 DEF Follows
  <2>4. ASSUME NEW m \in S \ {n}, Latest(w, S \ {n}, w[i].pos, m) PROVE Follows(w[i], w[m].buf, FALSE)
    <3>1. ~(n > m)
      <4>1. q[m].pos = q[n].pos /\ m \in T
        BY <1>1, <1>3, <1>5, <2>4 DEF Latest
      <4> QED
        BY <4>1 DEF None, Below
    <3>2. Latest(q, S, q[i].pos, m)
      BY <1>1, <1>3, <2>4, <3>1 DEF Latest
    <3> QED
      BY <1>1, <1>3, <3>2 DEF Continues
  <2>5. ASSUME NEW m \in S \ {n}, w[m].pos = w[i].pos PROVE ~w[m].buf.del
    BY <1>1, <1>3, <2>5 DEF Continues
  <2> QED
    BY <1>2, <2>3, <2>4, <2>5 DEF Continues
<1> QED
  BY <1>4, <1>5

(* What is seen does not change thereby.                                    *)
LEMMA ShowsWrite ==
  ASSUME NEW rec, NEW recno, NEW q, NEW T, NEW rec2, NEW recno2, NEW w, NEW n, NEW r, NEW b,
         Moves(rec, recno, q, T, rec2, recno2, w, n), Shows(rec, q, T, r, b)
  PROVE  Shows(rec2, w, T \ {n}, r, b)
<1>0. /\ T \subseteq Nat /\ n \in T /\ None(q, Below(T, n), q[n].pos) /\ \A m \in T \ {n} : w[m] = q[m]
      /\ r # q[n].pos => rec2[r] = rec[r]
      /\ rec2[q[n].pos] = q[n].buf
  BY DEF Moves
<1> USE <1>0
<1>1. ASSUME None(w, T \ {n}, r) PROVE b = rec2[r]
  <2>1. CASE r = q[n].pos
    <3>1. \A m \in T : m > n => m \in T \ {n}
      OBVIOUS
    <3>2. \A m \in T \ {n} : q[m].pos # r
      BY <1>1 DEF None
    <3>3. Latest(q, T, r, n)
      BY <2>1, <3>1, <3>2 DEF Latest
    <3> QED
      BY <2>1, <3>3 DEF Shows
  <2>2. CASE r # q[n].pos
    BY <1>1, <2>2 DEF Shows, None
  <2> QED
    BY <2>1, <2>2
<1>2. ASSUME NEW m \in T \ {n}, Latest(w, T \ {n}, r, m) PROVE b = w[m].buf
  <2>1. ~(n > m /\ q[n].pos = r)
    BY <1>2 DEF None, Below, Latest
  <2>2. Latest(q, T, r, m)
    BY <1>2, <2>1 DEF Latest
  <2> QED
    BY <2>2 DEF Shows
<1> QED
  BY <1>1, <1>2 DEF Shows

-----------------------------------------------------------------------------
(* The file.                                                                *)

File == [rec : Seq(Record), recno : SUBSET Rec, deleted : SUBSET Rec, index : SUBSET (Nat \X Rec)]

Entries(rec, recno) == {Entry(rec[r].key, r) : r \in recno}

(* The index has the keys of the stored records, which are the ones not     *)
(* deleted; none of them is free for an append.                             *)
FileSound(f) ==
  /\ f \in File /\ Len(f.rec) <= MaxRec
  /\ f.recno \cup f.deleted \subseteq DOMAIN f.rec
  /\ f.index = Entries(f.rec, f.recno)
  /\ \A r \in DOMAIN f.rec : r \in f.recno <=> ~f.rec[r].del
  /\ f.deleted \cap f.recno = {}

(* g is f with the buffer of t written.                                     *)
Takes(g, f, t) ==
  /\ g.rec = [f.rec EXCEPT ![t.pos] = t.buf]
  /\ DOMAIN g.rec = DOMAIN f.rec /\ g.rec[t.pos] = t.buf
  /\ \A r : r # t.pos => /\ g.rec[r] = f.rec[r]
                         /\ r \in g.recno <=> r \in f.recno
                         /\ r \in g.deleted <=> r \in f.deleted
  /\ t.pos \in g.recno <=> ~t.buf.del
  /\ t.pos \in g.deleted => t.buf.del

LEMMA WrittenSound ==
  ASSUME NEW f, FileSound(f), NEW t, t.pos \in DOMAIN f.rec \ f.deleted, t.buf \in Record,
         t.modifapp \in BOOLEAN, t.modifkey \in BOOLEAN,
         Follows(t, f.rec[t.pos], t.pos \notin f.recno)
  PROVE  FileSound(Written(f, t)) /\ Takes(Written(f, t), f, t)
<1> DEFINE p == t.pos
           b == t.buf
           g == Written(f, t)
           rec2 == [f.rec EXCEPT ![p] = b]
           recno2 == IF b.del THEN f.recno \ {p} ELSE f.recno \cup {p}
           deleted2 == IF b.del /\ ~t.modifapp THEN f.deleted \cup {p} ELSE f.deleted
<1>1. /\ f \in File /\ f.rec \in Seq(Record) /\ Len(f.rec) <= MaxRec
      /\ f.recno \cup f.deleted \subseteq DOMAIN f.rec /\ f.index = Entries(f.rec, f.recno)
      /\ \A r \in DOMAIN f.rec : r \in f.recno <=> ~f.rec[r].del
      /\ f.deleted \cap f.recno = {}
      /\ DOMAIN f.rec = 1..Len(f.rec) /\ DOMAIN f.rec \subseteq Rec
  BY BoundAssumption DEF FileSound, File, Rec
<1>2. /\ rec2 \in Seq(Record) /\ Len(rec2) = Len(f.rec) /\ DOMAIN rec2 = DOMAIN f.rec /\ rec2[p] = b
      /\ \A r : r # p => rec2[r] = f.rec[r]
  BY <1>1
<1>3. /\ p \in DOMAIN f.rec /\ p \notin f.deleted /\ b \in Record /\ b.del \in BOOLEAN
      /\ f.rec[p] \in Record
      /\ t.modifapp <=> p \notin f.recno
      /\ ~t.modifapp => /\ ~f.rec[p].del
                        /\ t.modifkey => t.curkey = f.rec[p].key
                        /\ ~t.modifkey => t.curkey = NoKey /\ b.key = f.rec[p].key
  <2>1. p \in DOMAIN f.rec /\ p \notin f.deleted /\ b \in Record /\ f.rec[p] \in Record
    BY <1>1
  <2>2. b.del \in BOOLEAN
    BY <2>1 DEF Record
  <2> QED
    BY <2>1, <2>2 DEF Follows
<1> HIDE DEF rec2, p, b
<1>4. g = [rec |-> rec2, recno |-> recno2, deleted |-> deleted2, index |-> Entries(rec2, recno2)]
  <2> DEFINE old == IF t.curkey = NoKey THEN t.buf.key ELSE t.curkey
  <2>1. CASE t.modifapp /\ b.del
    <3>1. g = [f EXCEPT !.rec = rec2]
      BY <2>1 DEF Written, rec2, p, b
    <3>2. recno2 = f.recno /\ deleted2 = f.deleted
      BY <1>3, <2>1
    <3>3. Entries(rec2, f.recno) = Entries(f.rec, f.recno)
      BY <1>2, <1>3, <2>1 DEF Entries
    <3> QED
      BY <1>1, <3>1, <3>2, <3>3 DEF File
  <2>2. CASE t.modifapp /\ ~b.del
    <3>1. g = [[f EXCEPT !.recno = @ \cup {p}, !.index = @ \cup {Entry(b.key, p)}] EXCEPT !.rec = rec2]
      BY <2>2 DEF Written, rec2, p, b
    <3>2. recno2 = f.recno \cup {p} /\ deleted2 = f.deleted
      BY <1>3, <2>2
    <3>3. Entries(rec2, f.recno \cup {p}) = Entries(f.rec, f.recno) \cup {Entry(b.key, p)}
      BY <1>2, <1>3, <2>2 DEF Entries
    <3> QED
      BY <1>1, <3>1, <3>2, <3>3 DEF File
  <2>3. CASE ~t.modifapp /\ b.del
    <3>1. g = [[f EXCEPT !.deleted = @ \cup {p}, !.recno = @ \ {p}, !.index = @ \ {Entry(old, p)}] EXCEPT !.rec = rec2]
      BY <2>3 DEF Written, rec2, p, b
    <3>2. recno2 = f.recno \ {p} /\ deleted2 = f.deleted \cup {p}
      BY <1>3, <2>3
    <3>3. old = f.rec[p].key
      <4>1. f.rec[p].key # NoKey
        BY <1>3, KeyAssumption DEF Record, NoKey
      <4> QED
        BY <1>3, <2>3, <4>1 DEF b
    <3>4. Entries(rec2, f.recno \ {p}) = Entries(f.rec, f.recno) \ {Entry(f.rec[p].key, p)}
      BY <1>2, <1>3, <2>3 DEF Entries, Entry
    <3> QED
      BY <1>1, <3>1, <3>2, <3>3, <3>4 DEF File
  <2>4. CASE ~t.modifapp /\ ~b.del /\ t.modifkey
    <3>1. g = [[f EXCEPT !.index = (@ \ {Entry(t.curkey, p)}) \cup {Entry(b.key, p)}] EXCEPT !.rec = rec2]
      BY <2>4 DEF Written, rec2, p, b
    <3>2. recno2 = f.recno /\ deleted2 = f.deleted
      BY <1>3, <2>4
    <3>3. Entries(rec2, f.recno) = (Entries(f.rec, f.recno) \ {Entry(f.rec[p].key, p)}) \cup {Entry(b.key, p)}
      BY <1>2, <1>3, <2>4 DEF Entries, Entry
    <3> QED
      BY <1>1, <1>3, <2>4, <3>1, <3>2, <3>3 DEF File
  <2>5. CASE ~t.modifapp /\ ~b.del /\ ~t.modifkey
    <3>1. g = [f EXCEPT !.rec = rec2]
      BY <2>5 DEF Written, rec2, p, b
    <3>2. recno2 = f.recno /\ deleted2 = f.deleted
      BY <1>3, <2>5
    <3>3. Entries(rec2, f.recno) = Entries(f.rec, f.recno)
      BY <1>2, <1>3, <2>5 DEF Entries
    <3> QED
      BY <1>1, <3>1, <3>2, <3>3 DEF File
  <2> QED
    BY <1>3, <2>1, <2>2, <2>3, <2>4, <2>5
<1>5. g \in [rec : Seq(Record), recno : SUBSET Rec, deleted : SUBSET Rec, index : SUBSET (Nat \X Rec)]
  <2>1. recno2 \in SUBSET Rec /\ deleted2 \in SUBSET Rec /\ recno2 \subseteq DOMAIN rec2
    BY <1>1, <1>2, <1>3
  <2>2. \A r \in DOMAIN rec2 : rec2[r].key \in Nat
    <3>1. \A r \in DOMAIN rec2 : rec2[r] \in Record
      BY <1>2
    <3>2. \A x \in Record : x.key \in Nat
      <4>1. \A x \in Record : x.key \in Key \cup {0}
        BY DEF Record
      <4>2. Key \cup {0} \subseteq Nat
        BY KeyAssumption
      <4> QED
        BY <4>1, <4>2
    <3> QED
      BY <3>1, <3>2
  <2>3. Entries(rec2, recno2) \in SUBSET (Nat \X Rec)
    BY <2>1, <2>2 DEF Entries, Entry
  <2> HIDE DEF g, recno2, deleted2
  <2> QED
    BY <1>2, <1>4, <2>1, <2>3
<1>6. FileSound(g)
  <2>1. Len(g.rec) <= MaxRec /\ g.recno \cup g.deleted \subseteq DOMAIN g.rec
    BY <1>1, <1>2, <1>3, <1>4
  <2>2. \A r \in DOMAIN g.rec : r \in g.recno <=> ~g.rec[r].del
    BY <1>1, <1>2, <1>3, <1>4
  <2>3. g.deleted \cap g.recno = {}
    BY <1>1, <1>2, <1>3, <1>4
  <2> HIDE DEF g
  <2> QED
    BY <1>4, <1>5, <2>1, <2>2, <2>3 DEF FileSound, File
<1>7. Takes(g, f, t)
  <2> HIDE DEF g
  <2>1. g.rec = [f.rec EXCEPT ![t.pos] = t.buf] /\ DOMAIN g.rec = DOMAIN f.rec /\ g.rec[p] = b
    BY <1>2, <1>4 DEF rec2, p, b
  <2>2. \A r : r # p => /\ g.rec[r] = f.rec[r]
                        /\ r \in g.recno <=> r \in f.recno
                        /\ r \in g.deleted <=> r \in f.deleted
    BY <1>2, <1>4
  <2>3. (p \in g.recno <=> ~b.del) /\ (p \in g.deleted => b.del)
    BY <1>3, <1>4
  <2> QED
    BY <2>1, <2>2, <2>3 DEF Takes, p, b
<1> QED
  BY <1>6, <1>7

-----------------------------------------------------------------------------
(* The invariant of a state s of this process, with the records others have *)
(* locked.                                                                  *)

Object == [pos : 0..MaxRec, buf : Record, modif : BOOLEAN, modifkey : BOOLEAN, modifapp : BOOLEAN,
           curkey : Key \cup {0, NoKey}, locks : Seq(Rec), tranid : BOOLEAN, tranlock : Nat,
           trandel : SUBSET Rec]

Levels == [active : BOOLEAN, begins : Seq(Nat), pending : Seq(Update), writing : Nat,
           save : -1..MaxRec, failed : BOOLEAN]

State == [file : File, tab : Object, tran : Levels]

(* The updates that are still to be written.                                *)
Todo(p) == {n \in DOMAIN p.pending : n >= p.writing /\ p.pending[n] # Hole}

(* The pending updates are a chain on locked records.                       *)
UpdatesSound(f, p, locks) ==
  /\ Chain(f.rec, f.recno, p.pending, Todo(p))
  /\ \A n \in Todo(p) : p.pending[n].pos \in Range(locks) \ f.deleted

(* No record is locked twice.                                               *)
LocksSound(f, locks, oth) ==
  /\ Range(locks) \subseteq DOMAIN f.rec \ oth
  /\ oth \subseteq DOMAIN f.rec

(* A change to be committed is of a locked record and follows what is       *)
(* pending; without one the object has a locked record as the process       *)
(* sees it, but for the time a commit writes.                               *)
TabSound(f, t, p) ==
  /\ t.pos # 0 => t.pos \in DOMAIN f.rec
  /\ t.modif => /\ p.writing = 0 /\ t.pos \in Range(t.locks) \ f.deleted
                /\ Continues(f.rec, f.recno, p.pending, Todo(p), t) /\ (t.modifapp => t.modifkey)
  /\ ~t.modif => ~t.modifkey /\ ~t.modifapp /\ t.curkey = NoKey
  /\ ~t.modif /\ p.save = -1 /\ t.pos \in Range(t.locks) => Shows(f.rec, p.pending, Todo(p), t.pos, t.buf)

(* tranid says that there may be updates; the first one that is written     *)
(* notes the position.                                                      *)
IdSound(p, tranid) ==
  /\ p.writing = 0 => p.save = -1
  /\ p.pending # <<>> => p.active /\ (p.save = -1 => tranid)
  /\ p.save # -1 => ~tranid

(* A state of the process that every operator keeps.                        *)
Sound(s, oth) ==
  /\ s \in State
  /\ FileSound(s.file)
  /\ UpdatesSound(s.file, s.tran, s.tab.locks)
  /\ LocksSound(s.file, s.tab.locks, oth)
  /\ TabSound(s.file, s.tab, s.tran)
  /\ IdSound(s.tran, s.tab.tranid)

(* What a call outside the commit of a transaction leaves alone.            *)
SameLevels(v, s) ==
  /\ v.tran.active = s.tran.active /\ v.tran.begins = s.tran.begins /\ v.tran.writing = s.tran.writing
  /\ v.tran.save = s.tran.save /\ v.tran.failed = s.tran.failed
  /\ Len(s.tran.pending) <= Len(v.tran.pending)

(* The updates there are, with the one in the object.                       *)
Load(s) == Len(s.tran.pending) + (IF s.tab.modif THEN 1 ELSE 0)

-----------------------------------------------------------------------------
(* Moving in the table.                                                     *)

LEMMA StateFields ==
  ASSUME NEW s \in State
  PROVE  /\ s.file \in File /\ s.tab \in Object /\ s.tran \in Levels
         /\ s.file.rec \in Seq(Record) /\ s.tran.pending \in Seq(Update) /\ s.tab.locks \in Seq(Rec)
         /\ s.tab.pos \in 0..MaxRec /\ s.tab.buf \in Record /\ s.tran.writing \in Nat
         /\ s.tab.modif \in BOOLEAN /\ s.tab.modifkey \in BOOLEAN /\ s.tab.modifapp \in BOOLEAN
         /\ DOMAIN s.file.rec = 1..Len(s.file.rec) /\ Len(s.file.rec) \in Nat
         /\ DOMAIN s.tran.pending = 1..Len(s.tran.pending) /\ Len(s.tran.pending) \in Nat
BY DEF State, File, Object, Levels

(* The updates of a record that has one or none.                            *)
LEMMA UpdatesTodo ==
  ASSUME NEW s, s \in State, s.tran.writing = 0, NEW r \in Rec
  PROVE  UpdatesOf(s, r) = {n \in Todo(s.tran) : s.tran.pending[n].pos = r}
<1>1. \A n \in DOMAIN s.tran.pending : n \in Nat
  BY StateFields
<1>2. Hole.pos \notin Rec
  BY DEF Hole, Rec
<1> QED
  BY <1>1, <1>2 DEF UpdatesOf, Todo

LEMMA LastIn ==
  ASSUME NEW N \in Nat, NEW S \in SUBSET (1..N), S # {}
  PROVE  LastOf(S) \in S /\ \A m \in S : m <= LastOf(S)
BY Greatest DEF LastOf

LEMMA LastShows ==
  ASSUME NEW s, NEW oth, Sound(s, oth), s.tran.writing = 0, NEW r \in DOMAIN s.file.rec
  PROVE  /\ Shows(s.file.rec, s.tran.pending, Todo(s.tran), r, tranLastRecordUpdate(s, r))
         /\ tranLastRecordUpdate(s, r) \in Record
<1> DEFINE q == s.tran.pending
           T == Todo(s.tran)
           S == {n \in T : q[n].pos = r}
           N == Len(q)
           b == tranLastRecordUpdate(s, r)
<1>1. /\ s \in State /\ s.file.rec \in Seq(Record) /\ q \in Seq(Update) /\ N \in Nat /\ DOMAIN q = 1..N
      /\ s.tran.save = -1 /\ (q # <<>> => s.tab.tranid) /\ r \in Rec
  <2>1. s \in State /\ Len(s.file.rec) <= MaxRec /\ IdSound(s.tran, s.tab.tranid)
    BY DEF Sound, FileSound
  <2> QED
    BY <2>1, StateFields, BoundAssumption DEF IdSound, Rec
<1>2. UpdatesOf(s, r) = S
  BY <1>1, UpdatesTodo
<1>3. S \in SUBSET (1..N) /\ T \subseteq 1..N
  BY <1>1 DEF Todo
<1>4. CASE S = {}
  <2>1. b = s.file.rec[r]
    BY <1>2, <1>4 DEF tranLastRecordUpdate
  <2>2. \A m \in T : q[m].pos # r
    BY <1>4
  <2>3. s.file.rec[r] \in Record
    BY <1>1
  <2> HIDE DEF b, q, T
  <2>4. Shows(s.file.rec, q, T, r, b)
    BY <2>1, <2>2 DEF Shows, None, Latest
  <2> QED
    BY <2>1, <2>3, <2>4 DEF b, q, T
<1>5. CASE S # {}
  <2>1. s.tab.tranid
    <3>1. N # 0
      BY <1>3, <1>5
    <3> QED
      BY <1>1, <3>1
  <2> DEFINE n == LastOf(S)
  <2>2. b = q[n].buf
    BY <1>2, <1>5, <2>1 DEF tranLastRecordUpdate
  <2>3. n \in S /\ \A m \in S : m <= n
    BY <1>1, <1>3, <1>5, LastIn
  <2>4. q[n] \in Update
    <3>1. n \in 1..N
      BY <1>3, <2>3
    <3> HIDE DEF n, q
    <3> QED
      BY <1>1, <3>1
  <2>5. b \in Record
    BY <2>2, <2>4 DEF Update
  <2>6. n \in T /\ q[n].pos = r /\ \A m \in T : q[m].pos = r => m <= n
    BY <2>3
  <2> HIDE DEF n, b, q, T, S
  <2>7. \A m \in T : Latest(q, T, r, m) => m = n
    BY <1>3, <2>6 DEF Latest
  <2>8. ~None(q, T, r)
    BY <2>6 DEF None
  <2> QED
    BY <2>2, <2>5, <2>7, <2>8 DEF Shows, b, q, T
<1> QED
  BY <1>4, <1>5

(* The object stands on r.                                                  *)
Placed(s, r, b) == [s EXCEPT !.tab.pos = r, !.tab.buf = b]

On(t, r, b) == [t EXCEPT !.pos = r, !.buf = b]

LEMMA Moved ==
  ASSUME NEW s, NEW oth, Sound(s, oth), ~s.tab.modif, NEW r, NEW b \in Record,
         r = 0 \/ (r \in DOMAIN s.file.rec /\ Shows(s.file.rec, s.tran.pending, Todo(s.tran), r, b))
  PROVE  /\ Sound(Placed(s, r, b), oth) /\ Placed(s, r, b).file = s.file /\ Placed(s, r, b).tran = s.tran
         /\ Placed(s, r, b).tab = On(s.tab, r, b)
<1> DEFINE v == Placed(s, r, b)
           f == s.file
           t == s.tab
           p == s.tran
           t2 == On(t, r, b)
<1>1. /\ s \in State /\ FileSound(f) /\ UpdatesSound(f, p, t.locks) /\ LocksSound(f, t.locks, oth)
      /\ TabSound(f, t, p) /\ IdSound(p, t.tranid)
  BY DEF Sound
<1>2. f \in File /\ t \in Object /\ p \in Levels /\ f.rec \in Seq(Record) /\ Len(f.rec) <= MaxRec
  BY <1>1, StateFields DEF FileSound
<1>3. r \in 0..MaxRec
  BY <1>2, BoundAssumption
<1>4. v.file = f /\ v.tran = p /\ v.tab = t2
  BY <1>1 DEF State, Placed, On
<1>5. v \in State
  <2>1. t2 \in Object
    BY <1>2, <1>3 DEF Object, On
  <2> QED
    BY <1>1, <1>4, <2>1 DEF State, Placed
<1> HIDE DEF v
<1>6. /\ t2.pos = r /\ t2.buf = b /\ t2.modif = t.modif /\ t2.modifkey = t.modifkey /\ t2.modifapp = t.modifapp
      /\ t2.curkey = t.curkey /\ t2.locks = t.locks /\ t2.tranid = t.tranid
  BY <1>2 DEF Object, On
<1> HIDE DEF t2, f, t, p
<1>7. TabSound(f, t2, p)
  <2>1. r # 0 => r \in DOMAIN f.rec
    BY DEF f
  <2>2. t2.pos \in Range(t.locks) => r # 0
    BY <1>1, <1>6, <1>2 DEF LocksSound
  <2>3. r # 0 => Shows(f.rec, p.pending, Todo(p), r, b)
    BY DEF f, p
  <2> QED
    BY <1>1, <1>6, <2>1, <2>2, <2>3 DEF TabSound, t
<1> QED
  BY <1>1, <1>4, <1>5, <1>6, <1>7 DEF Sound, t2, f, t, p, v

(* v is s with the object on another record or on none.                     *)
Elsewhere(v, s, oth) ==
  /\ Sound(v, oth) /\ v.file = s.file /\ v.tran = s.tran
  /\ v.tab = On(s.tab, v.tab.pos, v.tab.buf)
  /\ ~v.tab.modif /\ v.tab.locks = s.tab.locks /\ v.tab.tranid = s.tab.tranid
  /\ v.tab.tranlock = s.tab.tranlock /\ v.tab.trandel = s.tab.trandel

LEMMA MovedElsewhere ==
  ASSUME NEW s, NEW oth, Sound(s, oth), ~s.tab.modif, NEW r, NEW b \in Record,
         r = 0 \/ (r \in DOMAIN s.file.rec /\ Shows(s.file.rec, s.tran.pending, Todo(s.tran), r, b))
  PROVE  /\ Elsewhere(Placed(s, r, b), s, oth) /\ Placed(s, r, b).tab.pos = r
         /\ Placed(s, r, b).tab.buf = b
<1> DEFINE t2 == On(s.tab, r, b)
           v == Placed(s, r, b)
<1>1. Sound(v, oth) /\ v.file = s.file /\ v.tran = s.tran /\ v.tab = t2
  BY Moved
<1>2. s.tab \in Object
  BY StateFields DEF Sound
<1>3. /\ t2.pos = r /\ t2.buf = b /\ t2.modif = s.tab.modif /\ t2.locks = s.tab.locks
      /\ t2.tranid = s.tab.tranid /\ t2.tranlock = s.tab.tranlock /\ t2.trandel = s.tab.trandel
  BY <1>2 DEF Object, On
<1>4. v.tab = On(s.tab, v.tab.pos, v.tab.buf)
  BY <1>1, <1>3
<1> HIDE DEF t2, v
<1> QED
  BY <1>1, <1>3, <1>4 DEF Elsewhere, v

LEMMA EOFSound ==
  ASSUME NEW s, NEW oth, Sound(s, oth), ~s.tab.modif
  PROVE  Elsewhere(GoEOF(s), s, oth) /\ GoEOF(s).tab.pos = 0
<1>1. Blank \in Record
  BY DEF Blank, Record
<1>2. GoEOF(s) = Placed(s, 0, Blank)
  BY DEF GoEOF, Placed
<1> QED
  BY <1>1, <1>2, MovedElsewhere

LEMMA SetPosSound ==
  ASSUME NEW s, NEW oth, Sound(s, oth), ~s.tab.modif, s.tran.writing = 0, NEW r \in DOMAIN s.file.rec
  PROVE  /\ Elsewhere(SetPos(s, r), s, oth) /\ SetPos(s, r).tab.pos = r
         /\ SetPos(s, r).tab.buf = tranLastRecordUpdate(s, r)
<1>1. /\ Shows(s.file.rec, s.tran.pending, Todo(s.tran), r, tranLastRecordUpdate(s, r))
      /\ tranLastRecordUpdate(s, r) \in Record
  BY LastShows
<1>2. SetPos(s, r) = Placed(s, r, tranLastRecordUpdate(s, r))
  BY DEF SetPos, Placed
<1> QED
  BY <1>1, <1>2, MovedElsewhere

LEMMA UpdatesInside ==
  ASSUME NEW s, NEW oth, Sound(s, oth), s.tran.writing = 0, NEW r \in Int, r # -1, UpdatesOf(s, r) # {}
  PROVE  r \in DOMAIN s.file.rec /\ r \in Range(s.tab.locks)
<1>1. PICK n \in DOMAIN s.tran.pending : s.tran.pending[n].pos = r
  BY DEF UpdatesOf
<1>2. s.tran.pending[n] # Hole
  BY <1>1 DEF Hole
<1>3. n \in Todo(s.tran)
  BY <1>1, <1>2, StateFields DEF Sound, Todo
<1> QED
  BY <1>1, <1>3 DEF Sound, UpdatesSound, LocksSound

LEMMA GotoSound ==
  ASSUME NEW s, NEW oth, Sound(s, oth), ~s.tab.modif, s.tran.writing = 0, NEW r \in 0..MaxRec
  PROVE  /\ Elsewhere(Goto(s, r), s, oth)
         /\ Goto(s, r).tab.pos \in {0, r}
         /\ r \in s.file.recno => /\ Goto(s, r).tab.pos = r
                                  /\ Goto(s, r).tab.buf = tranLastRecordUpdate(s, r)
<1>1. r \in s.file.recno => r \in DOMAIN s.file.rec
  BY DEF Sound, FileSound
<1>2. UpdatesOf(s, r) # {} => r \in DOMAIN s.file.rec
  BY UpdatesInside, BoundAssumption
<1>3. CASE r \in s.file.recno \/ (s.tab.tranid /\ UpdatesOf(s, r) # {})
  <2>1. Goto(s, r) = SetPos(s, r)
    BY <1>3 DEF Goto
  <2> QED
    BY <1>1, <1>2, <1>3, <2>1, SetPosSound
<1>4. CASE ~(r \in s.file.recno \/ (s.tab.tranid /\ UpdatesOf(s, r) # {}))
  <2>1. Goto(s, r) = GoEOF(s)
    BY <1>4 DEF Goto
  <2> QED
    BY <1>4, <2>1, EOFSound
<1> QED
  BY <1>3, <1>4

(* The entries of the index have a first one.                               *)
LEMMA FirstEntry ==
  ASSUME NEW S, S \subseteq Nat \X Nat, S # {}
  PROVE  \E g \in S : \A h \in S : g = h \/ Before(g, h)
<1> DEFINE K == {g[1] : g \in S}
<1>1. K \in SUBSET Nat /\ K # {}
  OBVIOUS
<1>2. PICK k \in K : \A j \in K : k <= j
  BY <1>1, Least
<1> DEFINE R == {g[2] : g \in {h \in S : h[1] = k}}
<1>3. R \in SUBSET Nat /\ R # {}
  BY <1>2
<1>4. PICK r \in R : \A j \in R : r <= j
  BY <1>3, Least
<1>5. PICK g \in S : g[1] = k /\ g[2] = r
  BY <1>4
<1>6. ASSUME NEW h \in S PROVE g = h \/ Before(g, h)
  <2>1. h[1] \in Nat /\ h[2] \in Nat /\ h = <<h[1], h[2]>> /\ g = <<g[1], g[2]>> /\ k \in Nat /\ r \in Nat
    BY <1>1, <1>2, <1>3, <1>4
  <2>2. k <= h[1]
    BY <1>2
  <2>3. h[1] = k => r <= h[2]
    BY <1>4
  <2> HIDE DEF K, R
  <2>4. g[1] < h[1] \/ g[1] = h[1]
    BY <1>5, <2>1, <2>2
  <2>5. g[1] = h[1] => g[2] < h[2] \/ g[2] = h[2]
    BY <1>5, <2>1, <2>3
  <2> QED
    BY <2>1, <2>4, <2>5 DEF Before
<1> QED
  BY <1>5, <1>6

LEMMA NextSound ==
  ASSUME NEW s, NEW oth, Sound(s, oth), ~s.tab.modif, s.tran.writing = 0, NEW e
  PROVE  Elsewhere(NextAfter(s, e), s, oth)
<1> DEFINE scope == {g \in s.file.index : Before(e, g) /\ ~tranLastRecordUpdate(s, g[2]).del}
           c == CHOOSE g \in scope : \A h \in scope : g = h \/ Before(g, h)
<1>1. CASE scope = {}
  <2>1. NextAfter(s, e) = GoEOF(s)
    BY <1>1 DEF NextAfter
  <2> QED
    BY <2>1, EOFSound
<1>2. CASE scope # {}
  <2>1. NextAfter(s, e) = SetPos(s, c[2])
    BY <1>2 DEF NextAfter
  <2>2. FileSound(s.file)
    BY DEF Sound
  <2>3. \A g \in s.file.index : g \in Nat \X Nat /\ g[2] \in DOMAIN s.file.rec
    BY <2>2, BoundAssumption DEF FileSound, File, Entries, Entry, Rec
  <2>4. \E g \in scope : \A h \in scope : g = h \/ Before(g, h)
    <3>1. scope \subseteq Nat \X Nat
      BY <2>3
    <3> HIDE DEF scope
    <3> QED
      BY <1>2, <3>1, FirstEntry
  <2>5. c \in scope
    <3> HIDE DEF scope
    <3> QED
      BY <2>4
  <2>6. c[2] \in DOMAIN s.file.rec
    BY <2>3, <2>5
  <2> QED
    BY <2>1, <2>6, SetPosSound
<1> QED
  BY <1>1, <1>2

-----------------------------------------------------------------------------
(* Committing.                                                              *)

(* v is s with the changes of the object committed.                         *)
Committed(v, s, oth) ==
  /\ Sound(v, oth) /\ SameLevels(v, s) /\ Load(v) <= Load(s) /\ ~v.tab.modif
  /\ v.tab.pos = s.tab.pos /\ v.tab.buf = s.tab.buf /\ v.tab.locks = s.tab.locks
  /\ v.tab.tranlock = s.tab.tranlock /\ v.tab.trandel = s.tab.trandel
  /\ DOMAIN v.file.rec = DOMAIN s.file.rec
  /\ s.tran.active => v.file = s.file
  /\ ~s.tran.active /\ s.tab.modif => Takes(v.file, s.file, s.tab)
  /\ ~s.tab.modif => v = s

NoteOf(t) == [pos |-> t.pos, buf |-> t.buf, modifkey |-> t.modifkey, modifapp |-> t.modifapp,
              curkey |-> t.curkey]

Kept(t) == [Clean(t) EXCEPT !.tranid = TRUE]

WithNote(p, u) == [p EXCEPT !.pending = Append(@, u)]

LEMMA LoadNat ==
  ASSUME NEW s \in State
  PROVE  Load(s) \in Nat
<1> DEFINE n == Len(s.tran.pending)
           d == IF s.tab.modif THEN 1 ELSE 0
<1>1. n \in Nat
  BY StateFields
<1>2. d \in Nat
  OBVIOUS
<1>3. Load(s) = n + d
  BY DEF Load
<1> HIDE DEF n, d
<1> QED
  BY <1>1, <1>2, <1>3

LEMMA LoadAdds ==
  ASSUME NEW s \in State, NEW v \in State, s.tab.modif, ~v.tab.modif,
         Len(v.tran.pending) = Len(s.tran.pending) + 1
  PROVE  Load(v) <= Load(s)
BY StateFields DEF Load

LEMMA AddSound ==
  ASSUME NEW s, NEW oth, Sound(s, oth), s.tab.modif, s.tran.active
  PROVE  Committed(tranAddToPendingUpdates(s), s, oth)
<1> DEFINE v == tranAddToPendingUpdates(s)
           f == s.file
           t == s.tab
           p == s.tran
           q == p.pending
           N == Len(q)
           T == Todo(p)
           u == NoteOf(t)
           t2 == Kept(t)
           p2 == WithNote(p, u)
<1>1. /\ s \in State /\ FileSound(f) /\ UpdatesSound(f, p, t.locks) /\ LocksSound(f, t.locks, oth)
      /\ TabSound(f, t, p) /\ IdSound(p, t.tranid)
  BY DEF Sound
<1>2. /\ f \in File /\ t \in Object /\ p \in Levels /\ q \in Seq(Update) /\ N \in Nat /\ DOMAIN q = 1..N
      /\ t.locks \in Seq(Rec) /\ t.pos \in 0..MaxRec /\ MaxRec \in Nat
  BY <1>1, StateFields, BoundAssumption
<1>3. v.file = f /\ v.tran = p2 /\ v.tab = t2
  BY <1>1 DEF State, tranAddToPendingUpdates, NoteOf, Kept, WithNote
<1>4. /\ p.writing = 0 /\ t.pos \in Range(t.locks) \ f.deleted /\ Continues(f.rec, f.recno, q, T, t)
      /\ p.save = -1
  BY <1>1 DEF TabSound, IdSound
<1>5. t.pos \in Rec
  BY <1>2, <1>4 DEF Range
<1>6. u \in Update /\ u # Hole /\ u.pos = t.pos /\ u.buf = t.buf
  <2>1. u # Hole /\ u.pos = t.pos /\ u.buf = t.buf
    BY <1>5 DEF NoteOf, Hole, Rec
  <2>2. u \in Update
    BY <1>2 DEF NoteOf, Update, Object
  <2> QED
    BY <2>1, <2>2
<1>7. /\ t2 \in Object /\ t2.pos = t.pos /\ t2.buf = t.buf /\ ~t2.modif /\ ~t2.modifkey /\ ~t2.modifapp
      /\ t2.curkey = NoKey /\ t2.locks = t.locks /\ t2.tranid /\ t2.tranlock = t.tranlock /\ t2.trandel = t.trandel
  BY <1>2 DEF Object, Kept, Clean
<1>8. /\ p2 \in Levels /\ p2.pending = Append(q, u) /\ p2.active = p.active /\ p2.begins = p.begins
      /\ p2.writing = p.writing /\ p2.save = p.save /\ p2.failed = p.failed
  <2>1. Append(q, u) \in Seq(Update)
    BY <1>2, <1>6
  <2> HIDE DEF u, p
  <2>2. p \in [active : BOOLEAN, begins : Seq(Nat), pending : Seq(Update), writing : Nat,
               save : -1..MaxRec, failed : BOOLEAN]
    BY <1>2 DEF Levels
  <2> QED
    BY <2>1, <2>2 DEF Levels, WithNote
<1> DEFINE w == Append(q, u)
<1>9. w \in Seq(Update) /\ Len(w) = N + 1 /\ w[N + 1] = u /\ DOMAIN w = 1..(N + 1) /\ \A n \in 1..N : w[n] = q[n]
  BY <1>2, <1>6
<1>10. v \in State
  BY <1>1, <1>3, <1>7, <1>8 DEF State, tranAddToPendingUpdates, NoteOf, Kept, WithNote
<1> HIDE DEF v, f, t, p, q, u, t2, p2, w
<1>11. T \subseteq 1..N /\ Todo(p2) = T \cup {N + 1}
  <2>1. T = {n \in 1..N : q[n] # Hole}
    BY <1>2, <1>4 DEF Todo, q
  <2>2. Todo(p2) = {n \in 1..(N + 1) : w[n] # Hole}
    <3>1. \A n \in 1..(N + 1) : n >= 0
      BY <1>2
    <3> QED
      BY <1>4, <1>8, <1>9, <3>1 DEF Todo, w
  <2>3. \A n \in 1..(N + 1) : n \in 1..N \/ n = N + 1
    BY <1>2
  <2>4. \A n : n \in Todo(p2) <=> n \in T \cup {N + 1}
    BY <1>2, <1>6, <1>9, <2>1, <2>2, <2>3
  <2> QED
    BY <2>1, <2>4
<1> HIDE DEF T
<1>12. Chain(f.rec, f.recno, w, T \cup {N + 1})
  <2>1. Chain(f.rec, f.recno, q, T)
    BY <1>1 DEF UpdatesSound, q, T
  <2>2. Continues(f.rec, f.recno, q, T, u)
    BY <1>4, <1>6, ZenonT(30) DEF Continues, Follows, u, NoteOf
  <2>3. \A n \in T : w[n] = q[n]
    BY <1>9, <1>11
  <2> QED
    BY <1>2, <1>9, <1>11, <2>1, <2>2, <2>3, ChainAppend
<1>13. UpdatesSound(v.file, v.tran, v.tab.locks)
  <2>1. \A n \in T \cup {N + 1} : w[n].pos \in Range(t.locks) \ f.deleted
    BY <1>1, <1>4, <1>6, <1>9, <1>11 DEF UpdatesSound, T, q
  <2> QED
    BY <1>3, <1>7, <1>8, <1>11, <1>12, <2>1 DEF UpdatesSound, w
<1>14. Shows(f.rec, w, T \cup {N + 1}, t.pos, t.buf)
  <2>1. \A n \in T : w[n] = q[n]
    BY <1>9, <1>11
  <2>2. Shows(f.rec, w, T \cup {N + 1}, w[N + 1].pos, w[N + 1].buf)
    BY <1>2, <1>11, <2>1, ShowsAppend
  <2> QED
    BY <1>6, <1>9, <2>2
<1>15. TabSound(v.file, v.tab, v.tran)
  BY <1>1, <1>3, <1>7, <1>8, <1>11, <1>14 DEF TabSound, w
<1>16. IdSound(v.tran, v.tab.tranid)
  BY <1>3, <1>4, <1>7, <1>8 DEF IdSound, p
<1>17. Sound(v, oth)
  BY <1>1, <1>3, <1>7, <1>10, <1>13, <1>15, <1>16 DEF Sound
<1>18. SameLevels(v, s)
  BY <1>2, <1>3, <1>8, <1>9 DEF SameLevels, p, q, w
<1>19. Load(v) <= Load(s)
  BY <1>1, <1>3, <1>7, <1>8, <1>9, <1>10, LoadAdds DEF t, q, p, w
<1> QED
  BY <1>3, <1>7, <1>17, <1>18, <1>19 DEF Committed, v, t, f, p

LEMMA NoUpdates ==
  ASSUME NEW s, NEW oth, Sound(s, oth), ~s.tran.active
  PROVE  s.tran.pending = <<>> /\ Todo(s.tran) = {}
<1>1. s.tran.pending = <<>>
  BY DEF Sound, IdSound
<1>2. DOMAIN s.tran.pending = {}
  BY <1>1
<1> QED
  BY <1>1, <1>2 DEF Todo

LEMMA WriteSound ==
  ASSUME NEW s, NEW oth, Sound(s, oth), s.tab.modif, ~s.tran.active
  PROVE  Committed(Write(s), s, oth)
<1> DEFINE v == Write(s)
           f == s.file
           t == s.tab
           p == s.tran
           g == Written(f, t)
           t2 == Clean(t)
<1>1. /\ s \in State /\ FileSound(f) /\ UpdatesSound(f, p, t.locks) /\ LocksSound(f, t.locks, oth)
      /\ TabSound(f, t, p) /\ IdSound(p, t.tranid)
  BY DEF Sound
<1>2. /\ f \in File /\ t \in Object /\ p \in Levels /\ t.locks \in Seq(Rec) /\ t.buf \in Record
      /\ t.modifapp \in BOOLEAN /\ t.modifkey \in BOOLEAN
  BY <1>1, StateFields
<1>3. v.file = g /\ v.tran = p /\ v.tab = t2
  BY <1>1 DEF State, Write
<1>4. p.pending = <<>> /\ Todo(p) = {}
  BY NoUpdates
<1>5. /\ p.writing = 0 /\ t.pos \in Range(t.locks) \ f.deleted /\ Continues(f.rec, f.recno, p.pending, {}, t)
      /\ p.save = -1
  BY <1>1, <1>4 DEF TabSound, IdSound
<1>6. t.pos \in DOMAIN f.rec \ f.deleted
  BY <1>1, <1>5 DEF LocksSound
<1>7. Follows(t, f.rec[t.pos], t.pos \notin f.recno)
  BY <1>5 DEF Continues, None
<1>8. FileSound(g) /\ Takes(g, f, t)
  BY <1>1, <1>2, <1>6, <1>7, WrittenSound
<1>9. /\ t2 \in Object /\ t2.pos = t.pos /\ t2.buf = t.buf /\ ~t2.modif /\ ~t2.modifkey /\ ~t2.modifapp
      /\ t2.curkey = NoKey /\ t2.locks = t.locks /\ t2.tranid = t.tranid /\ t2.tranlock = t.tranlock
      /\ t2.trandel = t.trandel
  BY <1>2 DEF Object, Clean
<1>10. v \in State
  <2>1. g \in File
    BY <1>8 DEF FileSound
  <2> HIDE DEF g, t2
  <2> QED
    BY <1>1, <1>9, <2>1 DEF State, Write, g, t2
<1>11. DOMAIN g.rec = DOMAIN f.rec /\ g.rec[t.pos] = t.buf
  BY <1>8 DEF Takes
<1> HIDE DEF v, f, t, p, g, t2
<1>12. UpdatesSound(g, p, t2.locks)
  BY <1>4 DEF UpdatesSound, Chain
<1>13. LocksSound(g, t2.locks, oth)
  BY <1>1, <1>9, <1>11 DEF LocksSound
<1>14. TabSound(g, t2, p)
  BY <1>1, <1>4, <1>9, <1>11 DEF TabSound, Shows
<1>15. IdSound(p, t2.tranid)
  BY <1>1, <1>9
<1>16. Sound(v, oth)
  BY <1>3, <1>8, <1>10, <1>12, <1>13, <1>14, <1>15 DEF Sound
<1>17. SameLevels(v, s)
  <2>1. Len(p.pending) \in Nat
    BY <1>1, StateFields DEF p
  <2> QED
    BY <1>3, <2>1 DEF SameLevels, p
<1>18. Load(v) <= Load(s)
  <2>1. Len(p.pending) \in Nat
    BY <1>1, StateFields DEF p
  <2> QED
    BY <1>3, <1>9, <2>1 DEF Load, p
<1> QED
  BY <1>3, <1>8, <1>9, <1>11, <1>16, <1>17, <1>18 DEF Committed, v, t, f, p

LEMMA CommitSound ==
  ASSUME NEW s, NEW oth, Sound(s, oth)
  PROVE  Committed(tabCommit(s), s, oth)
<1>1. CASE ~s.tab.modif
  <2>1. tabCommit(s) = s
    BY <1>1 DEF tabCommit
  <2>2. SameLevels(s, s) /\ Load(s) <= Load(s)
    BY StateFields DEF Sound, SameLevels, Load
  <2> QED
    BY <1>1, <2>1, <2>2 DEF Committed
<1>2. CASE s.tab.modif /\ s.tran.active
  <2>1. tabCommit(s) = tranAddToPendingUpdates(s)
    BY <1>2 DEF tabCommit
  <2> QED
    BY <1>2, <2>1, AddSound
<1>3. CASE s.tab.modif /\ ~s.tran.active
  <2>1. tabCommit(s) = Write(s)
    BY <1>3 DEF tabCommit
  <2> QED
    BY <1>3, <2>1, WriteSound
<1> QED
  BY <1>1, <1>2, <1>3

-----------------------------------------------------------------------------
(* Folds.  The module has two: one over the places of the pending updates,  *)
(* of which it writes some, one over the locks, of which it keeps some.     *)

WriteOut(a, n) == [CommitPending(a, n) EXCEPT !.tran.pending[n] = Hole]

Each(job, a, n) ==
  IF job.writes THEN IF n \in job.set THEN WriteOut(a, n) ELSE a
  ELSE IF job.locks[n] \in job.set THEN a ELSE Append(a, job.locks[n])

(* The function behind FoldFunction, for the places 1..N.                   *)
IsFold(f, job, base, N) ==
  f = [S \in SUBSET (1..N) |-> IF S = {} THEN base ELSE Each(job, f[S \ {Max(S)}], Max(S))]

LEMMA MaxIs ==
  ASSUME NEW k \in Nat, NEW S \in SUBSET (1..k), k \in S
  PROVE  Max(S) = k
<1>1. \A m \in S : k >= m
  OBVIOUS
<1>2. \E x \in S : \A m \in S : x >= m
  BY <1>1
<1>3. Max(S) \in S /\ \A m \in S : Max(S) >= m
  BY <1>2 DEF Max
<1> DEFINE x == Max(S)
<1>4. x >= k /\ x \in 1..k
  BY <1>3
<1> HIDE DEF x
<1>5. x = k
  BY <1>4
<1> QED
  BY <1>5 DEF x

LEMMA MaxIn ==
  ASSUME NEW N \in Nat, NEW S \in SUBSET (1..N), S # {}
  PROVE  Max(S) \in S
<1>1. PICK n \in S : \A m \in S : m <= n
  BY Greatest
<1>2. \A m \in S : n >= m
  BY <1>1
<1> QED
  BY <1>2 DEF Max

LEMMA FoldExists ==
  ASSUME NEW job, NEW base, NEW N \in Nat
  PROVE  \E f : IsFold(f, job, base, N)
<1> DEFINE H(d) == \E f : IsFold(f, job, base, d)
           D == {d \in 0..N : ~H(d)}
<1>1. H(0)
  <2> DEFINE f == [S \in SUBSET (1..0) |-> base]
  <2>1. \A S \in SUBSET (1..0) : S = {}
    OBVIOUS
  <2>2. IsFold(f, job, base, 0)
    BY <2>1 DEF IsFold
  <2> QED
    BY <2>2
<1>2. ASSUME NEW d \in Nat, H(d) PROVE H(d + 1)
  <2> DEFINE k == d + 1
             A == 1..d
             B == 1..k
  <2>1. PICK f : IsFold(f, job, base, d)
    BY <1>2
  <2>2. /\ k \in B /\ k \notin A /\ A \subseteq B /\ k \in Nat /\ d \in Nat
        /\ \A S \in SUBSET B : /\ k \notin S => S \in SUBSET A
                               /\ S \ {k} \in SUBSET A
    OBVIOUS
  <2>3. \A S \in SUBSET B : k \in S => Max(S) = k
    BY <2>2, MaxIs
  <2>4. \A S \in SUBSET A : S # {} => Max(S) \in S
    BY MaxIn
  <2>5. f = [S \in SUBSET A |-> IF S = {} THEN base ELSE Each(job, f[S \ {Max(S)}], Max(S))]
    BY <2>1 DEF IsFold
  <2> HIDE DEF A, B, k
  <2>6. \A S \in SUBSET A : f[S] = IF S = {} THEN base ELSE Each(job, f[S \ {Max(S)}], Max(S))
    BY <2>5
  <2> DEFINE g == [S \in SUBSET B |-> IF k \in S THEN Each(job, f[S \ {k}], k) ELSE f[S]]
  <2>7. \A S \in SUBSET A : g[S] = f[S]
    BY <2>2
  <2>8. \A S \in SUBSET B : g[S] = IF S = {} THEN base ELSE Each(job, g[S \ {Max(S)}], Max(S))
    <3> TAKE S \in SUBSET B
    <3>1. CASE k \in S
      <4>1. Max(S) = k /\ S # {} /\ S \ {k} \in SUBSET A
        BY <2>2, <2>3, <3>1
      <4>2. g[S \ {k}] = f[S \ {k}]
        BY <2>7, <4>1
      <4>3. g[S] = Each(job, f[S \ {k}], k)
        BY <3>1
      <4> HIDE DEF g
      <4> QED
        BY <4>1, <4>2, <4>3
    <3>2. CASE k \notin S
      <4>1. S \in SUBSET A /\ S \ {Max(S)} \in SUBSET A
        BY <2>2, <3>2
      <4>2. g[S] = f[S] /\ g[S \ {Max(S)}] = f[S \ {Max(S)}]
        BY <2>7, <4>1
      <4> HIDE DEF g
      <4> QED
        BY <2>6, <4>1, <4>2
    <3> QED
      BY <3>1, <3>2
  <2>9. g = [S \in SUBSET B |-> g[S]]
    OBVIOUS
  <2> HIDE DEF g
  <2>10. g = [S \in SUBSET B |-> IF S = {} THEN base ELSE Each(job, g[S \ {Max(S)}], Max(S))]
    BY <2>8, <2>9
  <2>11. IsFold(g, job, base, k)
    BY <2>10 DEF IsFold, B
  <2> QED
    BY <2>11 DEF k
<1>3. SUFFICES ASSUME ~H(N) PROVE FALSE
  OBVIOUS
<1>4. D \in SUBSET Nat /\ D # {}
  <2>1. N \in 0..N /\ 0..N \subseteq Nat
    OBVIOUS
  <2> HIDE DEF H
  <2> QED
    BY <1>3, <2>1
<1>5. PICK d \in D : \A j \in D : d <= j
  BY <1>4, Least
<1>6. d \in 0..N /\ ~H(d) /\ d # 0
  BY <1>1, <1>5
<1> HIDE DEF H
<1>7. d - 1 \in Nat /\ d - 1 \notin D /\ d - 1 \in 0..N /\ (d - 1) + 1 = d
  BY <1>5, <1>6
<1>8. H(d - 1)
  BY <1>7
<1> QED
  BY <1>2, <1>6, <1>7, <1>8

LEMMA FoldSteps ==
  ASSUME NEW job, NEW base, NEW N \in Nat, NEW f, IsFold(f, job, base, N)
  PROVE  /\ f[1..0] = base
         /\ \A k \in 1..N : f[1..k] = Each(job, f[1..(k - 1)], k)
<1>1. \A S \in SUBSET (1..N) : f[S] = IF S = {} THEN base ELSE Each(job, f[S \ {Max(S)}], Max(S))
  BY DEF IsFold
<1>2. 1..0 \in SUBSET (1..N) /\ 1..0 = {}
  OBVIOUS
<1>3. ASSUME NEW k \in 1..N PROVE f[1..k] = Each(job, f[1..(k - 1)], k)
  <2>1. 1..k \in SUBSET (1..N) /\ 1..k # {} /\ (1..k) \ {k} = 1..(k - 1)
    OBVIOUS
  <2>2. Max(1..k) = k
    <3>1. k \in Nat /\ 1..k \in SUBSET (1..k) /\ k \in 1..k
      OBVIOUS
    <3> QED
      BY <3>1, MaxIs
  <2>3. f[1..k] = Each(job, f[(1..k) \ {Max(1..k)}], Max(1..k))
    BY <1>1, <2>1
  <2> QED
    BY <2>1, <2>2, <2>3
<1> QED
  BY <1>1, <1>2, <1>3

(* Without leaves out what is in gone.                                      *)
LEMMA WithoutFolds ==
  ASSUME NEW locks \in Seq(Rec), NEW gone, NEW job,
         job = [writes |-> FALSE, set |-> gone, locks |-> locks]
  PROVE  \E f : IsFold(f, job, <<>>, Len(locks)) /\ Without(locks, gone) = f[1..Len(locks)]
<1> DEFINE N == Len(locks)
           P(g) == g = [S \in SUBSET (DOMAIN locks) |->
                          IF S = {} THEN <<>>
                          ELSE IF locks[Max(S)] \in gone THEN g[S \ {Max(S)}]
                               ELSE Append(g[S \ {Max(S)}], locks[Max(S)])]
           f == CHOOSE g : P(g)
<1>1. Without(locks, gone) = f[DOMAIN locks]
  BY DEF Without, FoldLeft, MapThenFoldSet
<1>2. DOMAIN locks = 1..N /\ N \in Nat
  OBVIOUS
<1>3. job.set = gone /\ job.locks = locks /\ ~job.writes
  OBVIOUS
<1>4. \A g : P(g) <=> IsFold(g, job, <<>>, N)
  BY <1>2, <1>3, Zenon DEF IsFold, Each
<1>5. \E g : P(g)
  BY <1>2, <1>4, FoldExists
<1>6. P(f)
  <2> HIDE DEF P
  <2> QED
    BY <1>5
<1>7. IsFold(f, job, <<>>, N)
  BY <1>4, <1>6
<1> HIDE DEF f
<1> QED
  BY <1>1, <1>2, <1>7

LEMMA WithoutIs ==
  ASSUME NEW locks \in Seq(Rec), NEW gone
  PROVE  /\ Without(locks, gone) \in Seq(Rec)
         /\ Range(Without(locks, gone)) \subseteq Range(locks) \ gone
<1> DEFINE N == Len(locks)
           job == [writes |-> FALSE, set |-> gone, locks |-> locks]
<1>1. PICK f : IsFold(f, job, <<>>, N) /\ Without(locks, gone) = f[1..N]
  BY WithoutFolds
<1>2. N \in Nat /\ DOMAIN locks = 1..N /\ job.set = gone /\ job.locks = locks /\ ~job.writes
  OBVIOUS
<1> HIDE DEF job
<1>3. /\ f[1..0] = <<>>
      /\ \A k \in 1..N : f[1..k] = Each(job, f[1..(k - 1)], k)
  BY <1>1, <1>2, FoldSteps
<1> DEFINE H(k) == f[1..k] \in Seq(Rec) /\ Range(f[1..k]) \subseteq Range(locks) \ gone
<1>4. H(0)
  BY <1>3 DEF Range
<1>5. ASSUME NEW k \in 1..N, H(k - 1) PROVE H(k)
  <2> DEFINE l == f[1..(k - 1)]
             r == locks[k]
  <2>1. f[1..k] = IF r \in gone THEN l ELSE Append(l, r)
    BY <1>2, <1>3 DEF Each
  <2>2. l \in Seq(Rec) /\ Range(l) \subseteq Range(locks) \ gone
    BY <1>5
  <2>3. r \in Rec /\ r \in Range(locks)
    BY <1>2 DEF Range
  <2> HIDE DEF l, r
  <2>4. Append(l, r) \in Seq(Rec) /\ Range(Append(l, r)) = Range(l) \cup {r}
    <3>1. DOMAIN l = 1..Len(l) /\ Len(l) \in Nat /\ DOMAIN Append(l, r) = 1..(Len(l) + 1)
      BY <2>2, <2>3
    <3>2. \A i \in 1..(Len(l) + 1) : Append(l, r)[i] = IF i <= Len(l) THEN l[i] ELSE r
      BY <2>2, <2>3
    <3>3. \A x : x \in Range(Append(l, r)) <=> x \in Range(l) \/ x = r
      <4>1. \A i \in 1..(Len(l) + 1) : i \in 1..Len(l) \/ i = Len(l) + 1
        BY <3>1
      <4>2. Len(l) + 1 \in 1..(Len(l) + 1) /\ ~(Len(l) + 1 <= Len(l))
        BY <3>1
      <4>3. \A i \in 1..Len(l) : i <= Len(l) /\ i \in 1..(Len(l) + 1)
        BY <3>1
      <4> QED
        BY <3>1, <3>2, <4>1, <4>2, <4>3 DEF Range
    <3> QED
      BY <2>2, <2>3, <3>3
  <2> QED
    BY <2>1, <2>2, <2>3, <2>4
<1> DEFINE D == {k \in 0..N : ~H(k)}
<1>6. D = {}
  <2> SUFFICES ASSUME D # {} PROVE FALSE
    OBVIOUS
  <2>1. D \in SUBSET Nat
    OBVIOUS
  <2>2. PICK k \in D : \A j \in D : k <= j
    <3> HIDE DEF D
    <3> QED
      BY <2>1, Least
  <2> HIDE DEF H
  <2>3. k \in 0..N /\ ~H(k) /\ k # 0
    BY <1>4, <2>2
  <2>4. k \in 1..N /\ k - 1 \in 0..N /\ k - 1 \notin D
    BY <2>2, <2>3
  <2> QED
    BY <1>5, <2>3, <2>4
<1>7. H(N)
  <2> HIDE DEF H
  <2> QED
    BY <1>2, <1>6
<1> QED
  BY <1>1, <1>7
-----------------------------------------------------------------------------
(* One pending update goes to the file.                                     *)

Carry(t, u) == [t EXCEPT !.pos = u.pos, !.buf = u.buf, !.modifkey = u.modifkey,
                         !.modifapp = u.modifapp, !.curkey = u.curkey]

LEMMA CommitPendingIs ==
  ASSUME NEW s \in State, NEW n \in DOMAIN s.tran.pending,
         ~s.tab.modif, ~s.tab.modifkey, ~s.tab.modifapp, s.tab.curkey = NoKey
  PROVE  LET u == s.tran.pending[n]
             t == Carry(s.tab, u)
         IN /\ u \in Update
            /\ t.pos = u.pos /\ t.buf = u.buf /\ t.modifkey = u.modifkey /\ t.modifapp = u.modifapp
            /\ t.curkey = u.curkey
            /\ CommitPending(s, n) = [file |-> Written(s.file, t), tab |-> On(s.tab, u.pos, u.buf),
                                      tran |-> s.tran]
<1> DEFINE u == s.tran.pending[n]
           t == Carry(s.tab, u)
           c == [s EXCEPT !.tab = t]
<1>1. s.tab \in Object /\ s.tran.pending \in Seq(Update)
  BY StateFields
<1>2. u \in Update
  BY <1>1
<1>3. /\ t.pos = u.pos /\ t.buf = u.buf /\ t.modifkey = u.modifkey /\ t.modifapp = u.modifapp
      /\ t.curkey = u.curkey
  BY <1>1 DEF Object, Carry
<1>4. Clean(t) = On(s.tab, u.pos, u.buf)
  <2> HIDE DEF u
  <2> QED
    BY <1>1 DEF Object, Carry, Clean, On
<1>5. CommitPending(s, n) = Write(c)
  BY DEF CommitPending, Carry
<1>6. c \in [file : File, tab : {t}, tran : {s.tran}] /\ c.file = s.file
  BY DEF State
<1> HIDE DEF t, u, c
<1>7. Write(c) \in [file : {Written(s.file, t)}, tab : {Clean(t)}, tran : {s.tran}]
  BY <1>6 DEF Write
<1> QED
  BY <1>2, <1>3, <1>4, <1>5, <1>7 DEF t, u

(* p2 are the updates p without the one at n.                               *)
Less(p2, p, n) ==
  /\ Todo(p2) = Todo(p) \ {n}
  /\ \A m \in Todo(p2) : p2.pending[m] = p.pending[m]

(* The update at n is the first one of its record, t has its fields.        *)
Due(f, p, locks, oth, n, t) ==
  LET u == p.pending[n]
  IN /\ FileSound(f) /\ p \in Levels /\ UpdatesSound(f, p, locks) /\ LocksSound(f, locks, oth)
     /\ n \in Todo(p) /\ u \in Update /\ None(p.pending, Below(Todo(p), n), u.pos)
     /\ t.pos = u.pos /\ t.buf = u.buf /\ t.modifkey = u.modifkey /\ t.modifapp = u.modifapp
     /\ t.curkey = u.curkey

LEMMA UpdateWritten ==
  ASSUME NEW f, NEW p, NEW locks, NEW oth, NEW n, NEW t, Due(f, p, locks, oth, n, t),
         NEW p2, Less(p2, p, n)
  PROVE  LET g == Written(f, t)
         IN /\ FileSound(g) /\ Takes(g, f, t) /\ LocksSound(g, locks, oth) /\ UpdatesSound(g, p2, locks)
            /\ \A r, b : Shows(f.rec, p.pending, Todo(p), r, b)
                          => Shows(g.rec, p2.pending, Todo(p2), r, b)
<1> DEFINE u == p.pending[n]
<1>0. /\ FileSound(f) /\ p \in Levels /\ UpdatesSound(f, p, locks) /\ LocksSound(f, locks, oth)
      /\ n \in Todo(p) /\ u \in Update /\ None(p.pending, Below(Todo(p), n), u.pos)
      /\ t.pos = u.pos /\ t.buf = u.buf /\ t.modifkey = u.modifkey /\ t.modifapp = u.modifapp
      /\ t.curkey = u.curkey
  BY DEF Due
<1> USE <1>0
<1> DEFINE g == Written(f, t)
           q == p.pending
           T == Todo(p)
<1>1. /\ Chain(f.rec, f.recno, q, T) /\ \A m \in T : q[m].pos \in Range(locks) \ f.deleted
      /\ Range(locks) \subseteq DOMAIN f.rec \ oth /\ oth \subseteq DOMAIN f.rec
  BY DEF UpdatesSound, LocksSound
<1>2. T \subseteq Nat /\ n \in T
  <2>1. q \in Seq(Update)
    BY DEF Levels
  <2> QED
    BY <2>1 DEF Todo
<1>3. q[n] = u
  OBVIOUS
<1> HIDE DEF u
<1>4. t.pos \in DOMAIN f.rec \ f.deleted /\ t.buf \in Record /\ t.modifapp \in BOOLEAN /\ t.modifkey \in BOOLEAN
  BY <1>1, <1>2, <1>3 DEF Update
<1>5. Follows(t, f.rec[t.pos], t.pos \notin f.recno)
  <2>1. Continues(f.rec, f.recno, q, Below(T, n), u)
    BY <1>1, <1>2, <1>3 DEF Chain
  <2>2. Follows(u, f.rec[u.pos], u.pos \notin f.recno)
    BY <2>1 DEF Continues
  <2> QED
    BY <2>2 DEF Follows
<1>6. FileSound(g) /\ Takes(g, f, t)
  BY <1>4, <1>5, WrittenSound
<1> HIDE DEF g, q, T
<1>7. /\ DOMAIN g.rec = DOMAIN f.rec /\ g.rec[u.pos] = u.buf
      /\ \A r : r # u.pos => /\ g.rec[r] = f.rec[r]
                             /\ r \in g.recno <=> r \in f.recno
                             /\ r \in g.deleted <=> r \in f.deleted
      /\ u.pos \in g.recno <=> ~u.buf.del
      /\ u.pos \in g.deleted => u.buf.del
  BY <1>6 DEF Takes
<1>8. LocksSound(g, locks, oth)
  BY <1>1, <1>7 DEF LocksSound
<1>9. /\ UpdatesSound(g, p2, locks)
      /\ \A r, b : Shows(f.rec, q, T, r, b) => Shows(g.rec, p2.pending, Todo(p2), r, b)
  <2> DEFINE w == p2.pending
  <2>1. Todo(p2) = T \ {n} /\ \A m \in T \ {n} : w[m] = q[m]
    BY DEF Less, T, q
  <2> HIDE DEF w
  <2>2. None(q, Below(T, n), q[n].pos)
    BY <1>3 DEF q, T
  <2>3. Moves(f.rec, f.recno, q, T, g.rec, g.recno, w, n)
    BY <1>2, <1>3, <1>7, <2>1, <2>2 DEF Moves
  <2>10. Chain(g.rec, g.recno, w, T \ {n})
    BY <1>1, <2>3, ChainWrite
  <2>4. ASSUME NEW m \in T \ {n} PROVE w[m].pos \in Range(locks) \ g.deleted
    <3>1. w[m] = q[m] /\ q[m].pos \in Range(locks) \ f.deleted
      BY <1>1, <2>1
    <3>2. CASE q[m].pos # u.pos
      BY <1>7, <3>1, <3>2
    <3>3. CASE q[m].pos = u.pos
      <4>1. m \notin Below(T, n)
        BY <1>3, <2>2, <3>3 DEF None
      <4>2. n \in Below(T, m)
        <5>1. n \in T
          BY <1>2
        <5>2. m \in T /\ m # n
          OBVIOUS
        <5>3. m \in Nat /\ n \in Nat
          BY <1>2, <5>1, <5>2
        <5>4. ~(m < n)
          BY <4>1, <5>2 DEF Below
        <5>5. n < m
          BY <5>2, <5>3, <5>4
        <5> QED
          BY <5>1, <5>5 DEF Below
      <4>3. ~u.buf.del
        BY <1>1, <1>3, <3>3, <4>2 DEF Chain, Continues
      <4> QED
        BY <1>7, <3>1, <3>3, <4>3
    <3> QED
      BY <3>2, <3>3
  <2>5. UpdatesSound(g, p2, locks)
    BY <2>1, <2>4, <2>10 DEF UpdatesSound, w
  <2>6. ASSUME NEW r, NEW b, Shows(f.rec, q, T, r, b) PROVE Shows(g.rec, w, T \ {n}, r, b)
    BY <2>3, <2>6, ShowsWrite
  <2> QED
    BY <2>1, <2>5, <2>6 DEF w
<1> QED
  BY <1>6, <1>8, <1>9 DEF g, q, T

-----------------------------------------------------------------------------
(* Synchronising a record.                                                  *)

Emptied(p, n) == [p EXCEPT !.pending = [@ EXCEPT ![n] = Hole]]

LEMMA EmptiedIs ==
  ASSUME NEW p \in Levels, NEW n \in DOMAIN p.pending, p.writing = 0
  PROVE  LET p2 == Emptied(p, n)
         IN /\ p2 \in Levels /\ p2.active = p.active /\ p2.begins = p.begins /\ p2.writing = p.writing
            /\ p2.save = p.save /\ p2.failed = p.failed /\ Len(p2.pending) = Len(p.pending)
            /\ DOMAIN p2.pending = DOMAIN p.pending
            /\ p2.pending[n] = Hole /\ \A m \in DOMAIN p.pending : m # n => p2.pending[m] = p.pending[m]
            /\ Less(p2, p, n)
<1> DEFINE p2 == Emptied(p, n)
           w == [p.pending EXCEPT ![n] = Hole]
<1>1. Hole \in Update
  BY BoundAssumption DEF Hole, Update, Blank, Record
<1>2. p.pending \in Seq(Update)
  BY DEF Levels
<1>3. w \in Seq(Update) /\ Len(w) = Len(p.pending) /\ DOMAIN w = DOMAIN p.pending
  BY <1>1, <1>2
<1>4. w[n] = Hole /\ \A m \in DOMAIN p.pending : m # n => w[m] = p.pending[m]
  OBVIOUS
<1> HIDE DEF w
<1>5. /\ p2 \in Levels /\ p2.active = p.active /\ p2.begins = p.begins /\ p2.writing = p.writing
      /\ p2.save = p.save /\ p2.failed = p.failed /\ p2.pending = w
  BY <1>3 DEF Levels, Emptied, w
<1> HIDE DEF p2
<1>6. Less(p2, p, n)
  <2>1. \A m : m \in Todo(p2) <=> m \in Todo(p) \ {n}
    BY <1>3, <1>4, <1>5 DEF Todo
  <2>2. Todo(p2) = Todo(p) \ {n}
    BY <2>1
  <2>3. \A m \in Todo(p) \ {n} : m \in DOMAIN p.pending /\ m # n
    BY DEF Todo
  <2> QED
    BY <1>4, <1>5, <2>2, <2>3 DEF Less
<1> QED
  BY <1>3, <1>4, <1>5, <1>6 DEF p2

(* a is c with the updates of its record up to k written.                   *)
Partly(a, c, oth, k) ==
  LET r == c.tab.pos
      q == c.tran.pending
  IN /\ a \in State
     /\ FileSound(a.file) /\ UpdatesSound(a.file, a.tran, c.tab.locks) /\ LocksSound(a.file, c.tab.locks, oth)
     /\ DOMAIN a.file.rec = DOMAIN c.file.rec
     /\ a.tab = On(c.tab, r, a.tab.buf)
     /\ SameLevels(a, c) /\ Len(a.tran.pending) = Len(q)
     /\ \A m \in DOMAIN q : a.tran.pending[m] = IF m <= k /\ q[m].pos = r THEN Hole ELSE q[m]
     /\ r \in Range(c.tab.locks) => Shows(a.file.rec, a.tran.pending, Todo(a.tran), r, c.tab.buf)
     /\ a = c \/ (r \in Range(c.tab.locks) /\ a.tab.buf = a.file.rec[r])

(* The object with another buffer.                                          *)
LEMMA OnIs ==
  ASSUME NEW t \in Object, NEW r, NEW b
  PROVE  LET v == On(t, r, b)
         IN /\ v.pos = r /\ v.buf = b /\ v.modif = t.modif /\ v.modifkey = t.modifkey
            /\ v.modifapp = t.modifapp /\ v.curkey = t.curkey /\ v.locks = t.locks
            /\ v.tranid = t.tranid /\ v.tranlock = t.tranlock /\ v.trandel = t.trandel
            /\ r \in 0..MaxRec /\ b \in Record => v \in Object
            /\ \A r2, b2 : On(v, r2, b2) = On(t, r2, b2)
            /\ On(t, t.pos, t.buf) = t
BY DEF Object, On

LEMMA CleanFlags ==
  ASSUME NEW s, NEW oth, Sound(s, oth), ~s.tab.modif
  PROVE  ~s.tab.modifkey /\ ~s.tab.modifapp /\ s.tab.curkey = NoKey
BY DEF Sound, TabSound

LEMMA PartlyStep ==
  ASSUME NEW c, NEW oth, Sound(c, oth), ~c.tab.modif, c.tran.writing = 0,
         NEW k \in DOMAIN c.tran.pending, c.tran.pending[k].pos = c.tab.pos,
         NEW a, Partly(a, c, oth, k - 1)
  PROVE  Partly(WriteOut(a, k), c, oth, k)
<1> DEFINE r == c.tab.pos
           q == c.tran.pending
           L == c.tab.locks
           v == WriteOut(a, k)
           u == a.tran.pending[k]
           t == Carry(a.tab, u)
           g == Written(a.file, t)
           p2 == Emptied(a.tran, k)
           t2 == On(c.tab, r, u.buf)
<1>1. /\ c \in State /\ c.tab \in Object /\ q \in Seq(Update) /\ r \in 0..MaxRec
      /\ DOMAIN q = 1..Len(q) /\ Len(q) \in Nat /\ k \in 1..Len(q)
  BY StateFields DEF Sound
<1>2. /\ a \in State
      /\ FileSound(a.file) /\ UpdatesSound(a.file, a.tran, L) /\ LocksSound(a.file, L, oth)
      /\ DOMAIN a.file.rec = DOMAIN c.file.rec
      /\ a.tab = On(c.tab, r, a.tab.buf)
      /\ SameLevels(a, c) /\ Len(a.tran.pending) = Len(q)
      /\ \A m \in DOMAIN q : a.tran.pending[m] = IF m <= k - 1 /\ q[m].pos = r THEN Hole ELSE q[m]
      /\ r \in Range(L) => Shows(a.file.rec, a.tran.pending, Todo(a.tran), r, c.tab.buf)
  BY DEF Partly
<1>3. /\ a.tran \in Levels /\ DOMAIN a.tran.pending = DOMAIN q /\ a.tran.writing = 0 /\ a.tab \in Object
  BY <1>1, <1>2, StateFields DEF SameLevels
<1>4. /\ ~a.tab.modif /\ ~a.tab.modifkey /\ ~a.tab.modifapp /\ a.tab.curkey = NoKey
  BY <1>1, <1>2, CleanFlags, OnIs
<1>5. u = q[k] /\ u.pos = r /\ r # -1
  <2>1. ~(k <= k - 1)
    BY <1>1
  <2> QED
    BY <1>1, <1>2, <2>1
<1>6. /\ u \in Update /\ t.pos = u.pos /\ t.buf = u.buf /\ t.modifkey = u.modifkey /\ t.modifapp = u.modifapp
      /\ t.curkey = u.curkey
      /\ CommitPending(a, k) = [file |-> g, tab |-> On(a.tab, u.pos, u.buf), tran |-> a.tran]
  BY <1>2, <1>3, <1>4, CommitPendingIs
<1>7. On(a.tab, u.pos, u.buf) = t2
  BY <1>1, <1>2, <1>5, OnIs
<1>8. /\ p2 \in Levels /\ p2.active = a.tran.active /\ p2.begins = a.tran.begins /\ p2.writing = a.tran.writing
      /\ p2.save = a.tran.save /\ p2.failed = a.tran.failed /\ Len(p2.pending) = Len(a.tran.pending)
      /\ DOMAIN p2.pending = DOMAIN a.tran.pending
      /\ p2.pending[k] = Hole /\ \A m \in DOMAIN a.tran.pending : m # k => p2.pending[m] = a.tran.pending[m]
      /\ Less(p2, a.tran, k)
  BY <1>3, EmptiedIs
<1>9. k \in Todo(a.tran)
  <2>1. u # Hole
    BY <1>5 DEF Hole
  <2> QED
    BY <1>1, <1>3, <2>1 DEF Todo
<1>10. None(a.tran.pending, Below(Todo(a.tran), k), u.pos)
  <2> SUFFICES ASSUME NEW m \in Below(Todo(a.tran), k), a.tran.pending[m].pos = r PROVE FALSE
    BY <1>5 DEF None
  <2>1. m \in DOMAIN q /\ m < k /\ a.tran.pending[m] # Hole
    BY <1>3 DEF Below, Todo
  <2>2. m <= k - 1
    BY <1>1, <2>1
  <2> QED
    BY <1>2, <2>1, <2>2
<1> HIDE DEF t, u, g, p2
<1>11. v = [file |-> g, tab |-> t2, tran |-> p2]
  <2>1. v = [[file |-> g, tab |-> t2, tran |-> a.tran] EXCEPT !.tran.pending[k] = Hole]
    BY <1>6, <1>7 DEF WriteOut
  <2>2. p2 = [a.tran EXCEPT !.pending[k] = Hole]
    BY DEF p2, Emptied
  <2> HIDE DEF t2
  <2> QED
    BY <2>1, <2>2
<1> HIDE DEF v
<1>12. r \in Range(L)
  BY <1>2, <1>5, <1>9 DEF UpdatesSound, u
<1>13. /\ FileSound(g) /\ Takes(g, a.file, t) /\ LocksSound(g, L, oth) /\ UpdatesSound(g, p2, L)
       /\ Shows(g.rec, p2.pending, Todo(p2), r, c.tab.buf)
  <2>1. Due(a.file, a.tran, L, oth, k, t)
    BY <1>2, <1>3, <1>6, <1>9, <1>10 DEF Due, u
  <2>2. Less(p2, a.tran, k)
    BY <1>8
  <2>3. /\ FileSound(g) /\ Takes(g, a.file, t) /\ LocksSound(g, L, oth) /\ UpdatesSound(g, p2, L)
        /\ \A i, b : Shows(a.file.rec, a.tran.pending, Todo(a.tran), i, b)
                      => Shows(g.rec, p2.pending, Todo(p2), i, b)
    BY <2>1, <2>2, UpdateWritten DEF g
  <2> QED
    BY <1>2, <1>12, <2>3
<1>14. DOMAIN g.rec = DOMAIN c.file.rec /\ g.rec[r] = u.buf
  BY <1>2, <1>5, <1>6, <1>13 DEF Takes
<1>15. t2 \in Object /\ t2.buf = u.buf /\ t2 = On(c.tab, r, t2.buf)
  BY <1>1, <1>6, OnIs DEF Update
<1>16. v \in State
  BY <1>8, <1>11, <1>13, <1>15 DEF State, FileSound
<1>17. SameLevels(v, c) /\ Len(v.tran.pending) = Len(q)
  BY <1>1, <1>2, <1>8, <1>11 DEF SameLevels
<1>18. \A m \in DOMAIN q : p2.pending[m] = IF m <= k /\ q[m].pos = r THEN Hole ELSE q[m]
  <2> TAKE m \in DOMAIN q
  <2>1. m # k => (m <= k <=> m <= k - 1)
    BY <1>1
  <2>2. m = k => m <= k /\ q[m].pos = r
    BY <1>1
  <2> QED
    BY <1>2, <1>3, <1>8, <2>1, <2>2
<1>19. v.file = g /\ v.tab = t2 /\ v.tran = p2
  BY <1>11
<1> HIDE DEF t2
<1>20. v.tab = On(c.tab, r, v.tab.buf) /\ v.tab.buf = v.file.rec[r]
  BY <1>14, <1>15, <1>19
<1>21. /\ FileSound(v.file) /\ UpdatesSound(v.file, v.tran, L) /\ LocksSound(v.file, L, oth)
       /\ Shows(v.file.rec, v.tran.pending, Todo(v.tran), r, c.tab.buf)
       /\ DOMAIN v.file.rec = DOMAIN c.file.rec
  BY <1>13, <1>14, <1>19
<1>22. \A m \in DOMAIN q : v.tran.pending[m] = IF m <= k /\ q[m].pos = r THEN Hole ELSE q[m]
  BY <1>18, <1>19
<1>23. Partly(v, c, oth, k)
  BY <1>12, <1>16, <1>17, <1>20, <1>21, <1>22 DEF Partly
<1> QED
  BY <1>23 DEF v

LEMMA SyncFolds ==
  ASSUME NEW s, tabCommit(s) \in State, s.tran.active,
         NEW job, job.writes, job.set = UpdatesOf(tabCommit(s), tabCommit(s).tab.pos)
  PROVE  \E f : /\ IsFold(f, job, tabCommit(s), Len(tabCommit(s).tran.pending))
                /\ tranSynchronizeRecord(s) = f[1..Len(tabCommit(s).tran.pending)]
<1> DEFINE c == tabCommit(s)
           N == Len(c.tran.pending)
           ns == UpdatesOf(c, c.tab.pos)
           q == [n \in DOMAIN c.tran.pending |-> n]
           each(a, n) == IF n \in ns THEN [CommitPending(a, n) EXCEPT !.tran.pending[n] = Hole] ELSE a
           P(g) == g = [S \in SUBSET (DOMAIN q) |->
                          IF S = {} THEN c
                          ELSE IF q[Max(S)] \in ns
                               THEN [CommitPending(g[S \ {Max(S)}], q[Max(S)])
                                       EXCEPT !.tran.pending[q[Max(S)]] = Hole]
                               ELSE g[S \ {Max(S)}]]
           f == CHOOSE g : P(g)
<1>1. tranSynchronizeRecord(s) = FoldLeft(each, c, q)
  BY DEF tranSynchronizeRecord
<1>2. FoldLeft(each, c, q) = f[DOMAIN q]
  BY DEF FoldLeft, MapThenFoldSet
<1>3. DOMAIN q = 1..N /\ N \in Nat
  BY StateFields
<1>4. \A S \in SUBSET (1..N) : S # {} => q[Max(S)] = Max(S)
  <2>1. \A S \in SUBSET (1..N) : S # {} => Max(S) \in 1..N
    BY <1>3, MaxIn
  <2> QED
    BY <1>3, <2>1
<1>5. \A g : P(g) <=> IsFold(g, job, c, N)
  <2> TAKE g
  <2> DEFINE left(S) == IF S = {} THEN c
                        ELSE IF q[Max(S)] \in ns
                             THEN [CommitPending(g[S \ {Max(S)}], q[Max(S)])
                                     EXCEPT !.tran.pending[q[Max(S)]] = Hole]
                             ELSE g[S \ {Max(S)}]
             right(S) == IF S = {} THEN c ELSE Each(job, g[S \ {Max(S)}], Max(S))
  <2>1. ASSUME NEW S \in SUBSET (1..N) PROVE left(S) = right(S)
    <3> DEFINE m == Max(S)
               h == g[S \ {m}]
    <3>1. CASE S = {}
      BY <3>1
    <3>2. CASE S # {}
      <4>1. q[m] = m
        BY <1>4, <3>2
      <4>2. left(S) = IF q[m] \in ns THEN WriteOut(h, q[m]) ELSE h
        BY <3>2 DEF WriteOut
      <4>3. right(S) = IF m \in ns THEN WriteOut(h, m) ELSE h
        BY <3>2 DEF Each
      <4> HIDE DEF left, right, m, h, q, ns
      <4> QED
        BY <4>1, <4>2, <4>3
    <3> QED
      BY <3>1, <3>2
  <2>2. P(g) <=> g = [S \in SUBSET (1..N) |-> left(S)]
    BY <1>3
  <2>3. IsFold(g, job, c, N) <=> g = [S \in SUBSET (1..N) |-> right(S)]
    BY DEF IsFold
  <2> HIDE DEF left, right, P
  <2>4. [S \in SUBSET (1..N) |-> left(S)] = [S \in SUBSET (1..N) |-> right(S)]
    BY <2>1
  <2> QED
    BY <2>2, <2>3, <2>4
<1>6. P(f)
  <2>1. \E g : P(g)
    BY <1>3, <1>5, FoldExists
  <2> HIDE DEF P
  <2> QED
    BY <2>1
<1>7. IsFold(f, job, c, N)
  BY <1>5, <1>6
<1> HIDE DEF f
<1> QED
  BY <1>1, <1>2, <1>3, <1>7

(* v is s with its record synchronised.                                     *)
Synced(v, s, oth) ==
  /\ Sound(v, oth) /\ SameLevels(v, s) /\ Load(v) <= Load(s) /\ ~v.tab.modif
  /\ v.tab.pos = s.tab.pos /\ v.tab.buf = s.tab.buf /\ v.tab.locks = s.tab.locks
  /\ v.tab.tranlock = s.tab.tranlock /\ v.tab.trandel = s.tab.trandel
  /\ DOMAIN v.file.rec = DOMAIN s.file.rec
  /\ None(v.tran.pending, Todo(v.tran), s.tab.pos)
  /\ s.tab.pos \in Range(s.tab.locks) => v.file.rec[s.tab.pos] = s.tab.buf

LEMMA PartlyStart ==
  ASSUME NEW c, NEW oth, Sound(c, oth), ~c.tab.modif, c.tran.writing = 0
  PROVE  Partly(c, c, oth, 0)
<1>1. c \in State /\ c.tab \in Object /\ DOMAIN c.tran.pending = 1..Len(c.tran.pending)
  BY StateFields DEF Sound
<1>2. c.tab = On(c.tab, c.tab.pos, c.tab.buf)
  BY <1>1, OnIs
<1>3. SameLevels(c, c)
  BY <1>1, StateFields DEF SameLevels
<1>4. \A m \in DOMAIN c.tran.pending : ~(m <= 0)
  BY <1>1
<1>5. c.tab.pos \in Range(c.tab.locks)
        => Shows(c.file.rec, c.tran.pending, Todo(c.tran), c.tab.pos, c.tab.buf)
  BY DEF Sound, TabSound, IdSound
<1> QED
  BY <1>1, <1>2, <1>3, <1>4, <1>5 DEF Partly, Sound

LEMMA PartlySkip ==
  ASSUME NEW c, c \in State, NEW oth, NEW k \in DOMAIN c.tran.pending, c.tran.pending[k].pos # c.tab.pos,
         NEW a, Partly(a, c, oth, k - 1)
  PROVE  Partly(a, c, oth, k)
<1>1. DOMAIN c.tran.pending = 1..Len(c.tran.pending)
  BY StateFields
<1>2. \A m \in DOMAIN c.tran.pending : m # k => (m <= k <=> m <= k - 1)
  BY <1>1
<1>3. \A m \in DOMAIN c.tran.pending :
        a.tran.pending[m] = IF m <= k /\ c.tran.pending[m].pos = c.tab.pos THEN Hole ELSE c.tran.pending[m]
  BY <1>2 DEF Partly
<1> QED
  BY <1>3 DEF Partly

LEMMA PartlyEnd ==
  ASSUME NEW c, NEW oth, Sound(c, oth), ~c.tab.modif, c.tran.writing = 0,
         NEW a, Partly(a, c, oth, Len(c.tran.pending))
  PROVE  Synced(a, c, oth)
<1> DEFINE r == c.tab.pos
           q == c.tran.pending
           L == c.tab.locks
           w == a.tran.pending
<1>1. /\ c \in State /\ c.tab \in Object /\ q \in Seq(Update) /\ r \in 0..MaxRec
      /\ DOMAIN q = 1..Len(q) /\ Len(q) \in Nat
  BY StateFields DEF Sound
<1>2. /\ a \in State
      /\ FileSound(a.file) /\ UpdatesSound(a.file, a.tran, L) /\ LocksSound(a.file, L, oth)
      /\ DOMAIN a.file.rec = DOMAIN c.file.rec
      /\ a.tab = On(c.tab, r, a.tab.buf)
      /\ SameLevels(a, c) /\ Len(w) = Len(q)
      /\ \A m \in DOMAIN q : w[m] = IF m <= Len(q) /\ q[m].pos = r THEN Hole ELSE q[m]
      /\ r \in Range(L) => Shows(a.file.rec, w, Todo(a.tran), r, c.tab.buf)
      /\ a = c \/ (r \in Range(c.tab.locks) /\ a.tab.buf = a.file.rec[r])
  BY DEF Partly
<1>3. /\ a.tab.pos = r /\ a.tab.modif = c.tab.modif /\ a.tab.modifkey = c.tab.modifkey
      /\ a.tab.modifapp = c.tab.modifapp /\ a.tab.curkey = c.tab.curkey /\ a.tab.locks = L
      /\ a.tab.tranid = c.tab.tranid /\ a.tab.tranlock = c.tab.tranlock /\ a.tab.trandel = c.tab.trandel
  BY <1>1, <1>2, OnIs
<1>4. None(w, Todo(a.tran), r)
  <2> SUFFICES ASSUME NEW m \in Todo(a.tran), w[m].pos = r PROVE FALSE
    BY DEF None
  <2>1. m \in DOMAIN q /\ m <= Len(q) /\ w[m] # Hole
    BY <1>1, <1>2, StateFields DEF Todo
  <2> QED
    BY <1>2, <2>1
<1>5. r \in Range(L) => c.tab.buf = a.file.rec[r]
  BY <1>2, <1>4 DEF Shows
<1>6. a.tab.buf = c.tab.buf
  BY <1>2, <1>5
<1>7. /\ Sound(a, oth)
      /\ Load(a) <= Load(c)
  <2>1. TabSound(a.file, a.tab, a.tran)
    <3>1. TabSound(c.file, c.tab, c.tran)
      BY DEF Sound
    <3>2. a.tab.pos \in Range(a.tab.locks) => Shows(a.file.rec, w, Todo(a.tran), r, a.tab.buf)
      BY <1>2, <1>3, <1>6
    <3> HIDE DEF r, L, w
    <3> QED
      BY <1>2, <1>3, <3>1, <3>2 DEF TabSound, r, w
  <2>2. IdSound(a.tran, a.tab.tranid)
    <3>1. IdSound(c.tran, c.tab.tranid)
      BY DEF Sound
    <3>2. w # <<>> => q # <<>>
      BY <1>1, <1>2, StateFields
    <3> QED
      BY <1>2, <1>3, <3>1, <3>2 DEF IdSound, SameLevels
  <2>3. Load(a) <= Load(c)
    BY <1>1, <1>2, <1>3 DEF Load
  <2> QED
    BY <1>2, <1>3, <2>1, <2>2, <2>3 DEF Sound
<1> QED
  BY <1>2, <1>3, <1>4, <1>5, <1>6, <1>7 DEF Synced

LEMMA SyncSound ==
  ASSUME NEW s, NEW oth, Sound(s, oth), s.tran.writing = 0
  PROVE  Synced(tranSynchronizeRecord(s), s, oth)
<1> DEFINE c == tabCommit(s)
           v == tranSynchronizeRecord(s)
           q == c.tran.pending
           N == Len(q)
           r == c.tab.pos
<1>1. Committed(c, s, oth)
  BY CommitSound
<1> HIDE DEF c
<1>2. Sound(c, oth) /\ ~c.tab.modif /\ c.tran.writing = 0 /\ SameLevels(c, s) /\ Load(c) <= Load(s)
  BY <1>1 DEF Committed, SameLevels
<1>3. c \in State /\ s \in State /\ DOMAIN q = 1..N /\ N \in Nat
  BY <1>2, StateFields DEF Sound
<1>4. Synced(v, c, oth)
  <2>1. CASE ~s.tran.active
    <3>1. v = c
      BY <2>1 DEF tranSynchronizeRecord, c
    <3>2. q = <<>> /\ Todo(c.tran) = {}
      BY <1>2, <2>1, NoUpdates DEF SameLevels
    <3>3. r \in Range(c.tab.locks) => c.file.rec[r] = c.tab.buf
      BY <1>2, <3>2 DEF Sound, TabSound, IdSound, Shows, None
    <3>4. SameLevels(c, c) /\ Load(c) <= Load(c)
      BY <1>3 DEF SameLevels, Load
    <3> QED
      BY <1>2, <3>1, <3>2, <3>3, <3>4 DEF Synced, None
  <2>2. CASE s.tran.active
    <3> DEFINE job == [writes |-> TRUE, set |-> UpdatesOf(c, r), locks |-> <<>>]
    <3>1. job.writes /\ job.set = UpdatesOf(c, r)
      OBVIOUS
    <3> HIDE DEF job
    <3>2. PICK f : IsFold(f, job, c, N) /\ v = f[1..N]
      BY <1>3, <2>2, <3>1, SyncFolds DEF c
    <3>3. f[1..0] = c /\ \A k \in 1..N : f[1..k] = Each(job, f[1..(k - 1)], k)
      <4> HIDE DEF N, q, r
      <4> QED
        BY <1>3, <3>2, FoldSteps
    <3> DEFINE H(k) == Partly(f[1..k], c, oth, k)
    <3>4. H(0)
      BY <1>2, <3>3, PartlyStart
    <3>5. ASSUME NEW k \in 1..N, H(k - 1) PROVE H(k)
      <4> DEFINE a == f[1..(k - 1)]
      <4>1. f[1..k] = IF k \in UpdatesOf(c, r) THEN WriteOut(a, k) ELSE a
        BY <3>1, <3>3 DEF Each
      <4>2. Partly(a, c, oth, k - 1)
        BY <3>5
      <4> HIDE DEF a
      <4>3. k \in DOMAIN q /\ (k \in UpdatesOf(c, r) <=> q[k].pos = r)
        BY <1>3 DEF UpdatesOf
      <4>4. CASE q[k].pos = r
        BY <1>2, <4>1, <4>2, <4>3, <4>4, PartlyStep
      <4>5. CASE q[k].pos # r
        BY <1>3, <4>1, <4>2, <4>3, <4>5, PartlySkip
      <4> QED
        BY <4>4, <4>5
    <3> DEFINE D == {k \in 0..N : ~H(k)}
    <3>6. D = {}
      <4> SUFFICES ASSUME D # {} PROVE FALSE
        OBVIOUS
      <4>1. D \in SUBSET Nat
        BY <1>3
      <4>2. PICK k \in D : \A j \in D : k <= j
        <5> HIDE DEF D
        <5> QED
          BY <4>1, Least
      <4> HIDE DEF H
      <4>3. k \in 0..N /\ ~H(k) /\ k # 0
        BY <3>4, <4>2
      <4>4. k \in 1..N /\ k - 1 \in 0..N /\ k - 1 \notin D
        BY <1>3, <4>2, <4>3
      <4> QED
        BY <3>5, <4>3, <4>4
    <3>7. H(N)
      <4> HIDE DEF H
      <4> QED
        BY <1>3, <3>6
    <3> QED
      BY <1>2, <3>2, <3>7, PartlyEnd
  <2> QED
    BY <2>1, <2>2
<1>5. Len(s.tran.pending) <= Len(q) /\ Len(q) <= Len(v.tran.pending)
  BY <1>2, <1>4 DEF SameLevels, Synced
<1>6. v \in State
  BY <1>4 DEF Synced, Sound
<1>7. Load(v) <= Load(s)
  <2>1. Load(v) <= Load(c) /\ Load(c) <= Load(s)
    BY <1>2, <1>4 DEF Synced
  <2> HIDE DEF v
  <2>2. Load(v) \in Nat /\ Load(c) \in Nat /\ Load(s) \in Nat
    BY <1>3, <1>6, LoadNat
  <2> QED
    BY <2>1, <2>2
<1>8. SameLevels(v, s)
  <2>1. Len(v.tran.pending) \in Nat /\ Len(s.tran.pending) \in Nat
    BY <1>3, <1>6, StateFields
  <2> HIDE DEF v
  <2>2. Len(s.tran.pending) <= Len(v.tran.pending)
    BY <1>3, <1>5, <2>1
  <2> QED
    BY <1>2, <1>4, <2>2 DEF SameLevels, Synced
<1> QED
  BY <1>1, <1>4, <1>7, <1>8 DEF Synced, Committed
-----------------------------------------------------------------------------
(* Changing the record.                                                     *)

Retabbed(s, t) == [s EXCEPT !.tab = t]

LEMMA RetabbedSound ==
  ASSUME NEW s, NEW oth, Sound(s, oth), NEW t \in Object,
         Range(s.tab.locks) \subseteq Range(t.locks), Range(t.locks) \subseteq DOMAIN s.file.rec \ oth,
         TabSound(s.file, t, s.tran), IdSound(s.tran, t.tranid)
  PROVE  /\ Sound(Retabbed(s, t), oth) /\ Retabbed(s, t).file = s.file /\ Retabbed(s, t).tran = s.tran
         /\ Retabbed(s, t).tab = t
<1> DEFINE v == Retabbed(s, t)
<1>1. /\ s \in State /\ FileSound(s.file) /\ UpdatesSound(s.file, s.tran, s.tab.locks)
      /\ LocksSound(s.file, s.tab.locks, oth)
  BY DEF Sound
<1>2. v \in State /\ v.file = s.file /\ v.tran = s.tran /\ v.tab = t
  BY <1>1 DEF State, Retabbed
<1> HIDE DEF v
<1>3. UpdatesSound(s.file, s.tran, t.locks)
  BY <1>1 DEF UpdatesSound
<1>4. LocksSound(s.file, t.locks, oth)
  BY <1>1 DEF LocksSound
<1> QED
  BY <1>1, <1>2, <1>3, <1>4 DEF Sound, v

(* t2 is t with another change of the record.                               *)
Alters(t2, t) ==
  /\ t2.pos = t.pos /\ t2.locks = t.locks /\ t2.tranid = t.tranid /\ t2.modif
  /\ t2.modifapp = t.modifapp
  /\ \/ t2.modifkey = t.modifkey /\ t2.curkey = t.curkey /\ t2.buf.key = t.buf.key
     \/ t2.modifkey /\ t2.curkey = (IF t.modifkey THEN t.curkey ELSE t.buf.key)

LEMMA FollowsAltered ==
  ASSUME NEW t2, NEW t, Alters(t2, t), NEW b, NEW new, Follows(t, b, new),
         t.modifapp \in BOOLEAN, t.modifkey \in BOOLEAN, t.modifapp => t.modifkey, t2.modifkey \in BOOLEAN
  PROVE  Follows(t2, b, new)
<1>1. CASE t2.modifkey = t.modifkey /\ t2.curkey = t.curkey /\ t2.buf.key = t.buf.key
  BY <1>1 DEF Alters, Follows
<1>2. CASE t2.modifkey /\ t2.curkey = (IF t.modifkey THEN t.curkey ELSE t.buf.key)
  BY <1>2 DEF Alters, Follows
<1> QED
  BY <1>1, <1>2 DEF Alters

(* What is locked and not deleted for this process is not in the order      *)
(* "deleted".                                                               *)
LEMMA SeenNotDeleted ==
  ASSUME NEW s, NEW oth, Sound(s, oth), NEW r \in DOMAIN s.file.rec, NEW b, ~b.del,
         Shows(s.file.rec, s.tran.pending, Todo(s.tran), r, b)
  PROVE  r \notin s.file.deleted
<1>1. CASE None(s.tran.pending, Todo(s.tran), r)
  <2>1. b = s.file.rec[r]
    BY <1>1 DEF Shows
  <2> QED
    BY <2>1 DEF Sound, FileSound
<1>2. CASE ~None(s.tran.pending, Todo(s.tran), r)
  BY <1>2 DEF None, Sound, UpdatesSound
<1> QED
  BY <1>1, <1>2

LEMMA AlterSound ==
  ASSUME NEW s, NEW oth, Sound(s, oth), s.tran.writing = 0,
         s.tab.modif \/ (s.tab.pos \in Range(s.tab.locks) /\ ~s.tab.buf.del),
         NEW t2 \in Object, Alters(t2, s.tab)
  PROVE  /\ Sound(Retabbed(s, t2), oth) /\ Retabbed(s, t2).file = s.file /\ Retabbed(s, t2).tran = s.tran
         /\ Retabbed(s, t2).tab = t2 /\ Load(Retabbed(s, t2)) <= Len(s.tran.pending) + 1
         /\ t2.pos \in Range(t2.locks)
<1> DEFINE f == s.file
           t == s.tab
           p == s.tran
           q == p.pending
           T == Todo(p)
<1>1. /\ s \in State /\ FileSound(f) /\ UpdatesSound(f, p, t.locks) /\ LocksSound(f, t.locks, oth)
      /\ TabSound(f, t, p) /\ IdSound(p, t.tranid)
  BY DEF Sound
<1>2. /\ f \in File /\ t \in Object /\ p \in Levels /\ q \in Seq(Update) /\ t.modifapp \in BOOLEAN
      /\ t.modifkey \in BOOLEAN /\ t2.modifkey \in BOOLEAN /\ p.save = -1 /\ Len(q) \in Nat
  BY <1>1, StateFields DEF Object, IdSound
<1>3. /\ t2.pos = t.pos /\ t2.locks = t.locks /\ t2.tranid = t.tranid /\ t2.modif /\ t2.modifapp = t.modifapp
  BY DEF Alters
<1>4. t.pos \in Range(t.locks) \ f.deleted /\ Continues(f.rec, f.recno, q, T, t2)
  <2>1. CASE t.modif
    <3>1. t.pos \in Range(t.locks) \ f.deleted /\ Continues(f.rec, f.recno, q, T, t) /\ (t.modifapp => t.modifkey)
      BY <1>1, <2>1 DEF TabSound
    <3>2. \A b, new : Follows(t, b, new) => Follows(t2, b, new)
      <4> HIDE DEF t
      <4> QED
        BY <1>2, <3>1, FollowsAltered DEF t
    <3> HIDE DEF t, q, T, f
    <3> QED
      BY <1>3, <3>1, <3>2 DEF Continues
  <2>2. CASE ~t.modif
    <3>1. t.pos \in Range(t.locks) /\ ~t.buf.del /\ ~t.modifkey /\ ~t.modifapp /\ t.curkey = NoKey
      BY <1>1, <2>2 DEF TabSound
    <3>2. Shows(f.rec, q, T, t.pos, t.buf)
      BY <1>1, <1>2, <2>2, <3>1 DEF TabSound
    <3>3. t.pos \in DOMAIN f.rec
      BY <1>1, <3>1 DEF LocksSound
    <3>4. t.pos \notin f.deleted
      BY <3>1, <3>2, <3>3, SeenNotDeleted
    <3>5. Follows(t2, t.buf, FALSE)
      BY <1>2, <1>3, <3>1 DEF Alters, Follows
    <3>6. f.rec[t.pos].del \/ t.pos \in f.recno
      BY <1>1, <3>3 DEF FileSound
    <3>7. Chain(f.rec, f.recno, q, T)
      BY <1>1 DEF UpdatesSound
    <3>8. T \subseteq Nat
      BY <1>2 DEF Todo
    <3> HIDE DEF t, q, T, f
    <3> QED
      BY <1>3, <3>1, <3>2, <3>4, <3>5, <3>6, <3>7, <3>8, ContinuesSeen
  <2> QED
    BY <2>1, <2>2
<1>5. t2.modifapp => t2.modifkey
  <2>1. t.modifapp => t.modifkey
    BY <1>1 DEF TabSound
  <2> QED
    BY <2>1 DEF Alters
<1>6. TabSound(f, t2, p)
  BY <1>1, <1>3, <1>4, <1>5 DEF TabSound
<1>7. Range(t2.locks) = Range(t.locks) /\ Range(t2.locks) \subseteq DOMAIN f.rec \ oth
  BY <1>1, <1>3 DEF LocksSound
<1>8. IdSound(p, t2.tranid)
  BY <1>1, <1>3
<1> DEFINE v == Retabbed(s, t2)
<1>9. Sound(v, oth) /\ v.file = f /\ v.tran = p /\ v.tab = t2
  BY <1>6, <1>7, <1>8, RetabbedSound
<1> HIDE DEF v
<1>10. Load(v) <= Len(q) + 1
  BY <1>2, <1>9 DEF Load
<1> QED
  BY <1>3, <1>4, <1>9, <1>10 DEF v

-----------------------------------------------------------------------------
(* Locks.                                                                   *)

LEMMA AppendRange ==
  ASSUME NEW S, NEW l \in Seq(S), NEW r \in S
  PROVE  Append(l, r) \in Seq(S) /\ Range(Append(l, r)) = Range(l) \cup {r}
<1>1. DOMAIN l = 1..Len(l) /\ Len(l) \in Nat /\ DOMAIN Append(l, r) = 1..(Len(l) + 1)
  OBVIOUS
<1>2. \A i \in 1..(Len(l) + 1) : Append(l, r)[i] = IF i <= Len(l) THEN l[i] ELSE r
  OBVIOUS
<1>3. \A i \in 1..(Len(l) + 1) : i \in 1..Len(l) \/ i = Len(l) + 1
  BY <1>1
<1>4. Len(l) + 1 \in 1..(Len(l) + 1) /\ ~(Len(l) + 1 <= Len(l))
  BY <1>1
<1>5. \A i \in 1..Len(l) : i <= Len(l) /\ i \in 1..(Len(l) + 1)
  BY <1>1
<1>6. \A x : x \in Range(Append(l, r)) <=> x \in Range(l) \/ x = r
  BY <1>1, <1>2, <1>3, <1>4, <1>5 DEF Range
<1> QED
  BY <1>6

LEMMA SubSeqRange ==
  ASSUME NEW S, NEW l \in Seq(S), NEW n \in Int, n <= Len(l)
  PROVE  SubSeq(l, 1, n) \in Seq(S) /\ Range(SubSeq(l, 1, n)) \subseteq Range(l)
<1>1. DOMAIN l = 1..Len(l) /\ Len(l) \in Nat
  OBVIOUS
<1>2. CASE n < 1
  <2>1. SubSeq(l, 1, n) = <<>>
    BY <1>2
  <2> QED
    BY <2>1 DEF Range
<1>3. CASE n >= 1
  <2>1. SubSeq(l, 1, n) \in Seq(S) /\ Len(SubSeq(l, 1, n)) = n
    BY <1>1, <1>3
  <2>2. DOMAIN SubSeq(l, 1, n) = 1..n
    BY <2>1
  <2>3. \A i \in 1..n : SubSeq(l, 1, n)[i] = l[i] /\ i \in 1..Len(l)
    BY <1>1, <1>3
  <2> QED
    BY <1>1, <2>1, <2>2, <2>3 DEF Range
<1> QED
  BY <1>2, <1>3

LEMMA RemoveFirstIs ==
  ASSUME NEW l \in Seq(Rec), NEW r
  PROVE  /\ RemoveFirst(l, r) \in Seq(Rec) /\ Range(RemoveFirst(l, r)) \subseteq Range(l)
         /\ \A x \in Range(l) : x # r => x \in Range(RemoveFirst(l, r))
<1>1. DOMAIN l = 1..Len(l) /\ Len(l) \in Nat
  OBVIOUS
<1>2. CASE ~\E i \in 1..Len(l) : l[i] = r
  BY <1>2 DEF RemoveFirst
<1>3. CASE \E i \in 1..Len(l) : l[i] = r
  <2> DEFINE J == {i \in 1..Len(l) : l[i] = r}
             j == Min(J)
             m == RemoveAt(l, j)
  <2>1. RemoveFirst(l, r) = m
    <3>1. SelectInSeq(l, LAMBDA v : v = r) = j
      BY <1>3 DEF SelectInSeq
    <3> QED
      BY <1>3, <3>1 DEF RemoveFirst
  <2>2. j \in J
    <3>1. J \in SUBSET Nat /\ J # {}
      BY <1>3
    <3> HIDE DEF J
    <3> QED
      BY <3>1, MinOf
  <2>3. j \in 1..Len(l) /\ l[j] = r
    BY <2>2
  <2> HIDE DEF j, J
  <2> DEFINE a == SubSeq(l, 1, j - 1)
             b == SubSeq(l, j + 1, Len(l))
             n == Len(l)
  <2>4. a \in Seq(Rec) /\ b \in Seq(Rec) /\ Len(a) = j - 1 /\ Len(b) = n - j
    <3>1. n \in Nat /\ j \in 1..n /\ \A i \in 1..n : l[i] \in Rec
      BY <1>1, <2>3
    <3> HIDE DEF n
    <3>2. SubSeq(l, 1, j - 1) \in Seq(Rec) /\ Len(SubSeq(l, 1, j - 1)) = IF 1 <= j - 1 THEN j - 1 - 1 + 1 ELSE 0
      <4>1. \A i \in 1..(j - 1) : l[i] \in Rec
        BY <3>1
      <4>2. 1 \in Int /\ j - 1 \in Int
        BY <3>1
      <4> QED
        BY <4>1, <4>2, SubSeqProperties
    <3>3. SubSeq(l, j + 1, n) \in Seq(Rec) /\ Len(SubSeq(l, j + 1, n)) = IF j + 1 <= n THEN n - (j + 1) + 1 ELSE 0
      <4>1. \A i \in (j + 1)..n : l[i] \in Rec
        BY <3>1
      <4>2. j + 1 \in Int /\ n \in Int
        BY <3>1
      <4> QED
        BY <4>1, <4>2, SubSeqProperties
    <3>4. a = SubSeq(l, 1, j - 1) /\ b = SubSeq(l, j + 1, n)
      BY DEF n
    <3> HIDE DEF a, b
    <3>5. Len(a) = j - 1
      BY <3>1, <3>2, <3>4
    <3>6. Len(b) = n - j
      BY <3>1, <3>3, <3>4
    <3> QED
      BY <3>2, <3>3, <3>4, <3>5, <3>6
  <2>5. /\ \A i \in 1..(j - 1) : a[i] = l[i]
        /\ \A i \in 1..(n - j) : b[i] = l[i + j]
    BY <1>1, <2>3
  <2>6. m = a \o b
    BY DEF RemoveAt
  <2> HIDE DEF a, b, m
  <2>7. m \in Seq(Rec) /\ Len(m) = n - 1 /\ DOMAIN m = 1..(n - 1)
    <3>1. n \in Nat /\ j \in 1..n
      BY <1>1, <2>3
    <3> HIDE DEF n
    <3>2. m \in Seq(Rec) /\ Len(m) = Len(a) + Len(b)
      BY <2>4, <2>6, ConcatProperties
    <3>3. Len(m) = n - 1
      BY <2>4, <3>1, <3>2
    <3> QED
      BY <3>2, <3>3
  <2>8. \A i \in 1..(n - 1) : m[i] = IF i <= j - 1 THEN l[i] ELSE l[i + 1]
    <3> TAKE i \in 1..(n - 1)
    <3>1. m[i] = IF i <= j - 1 THEN a[i] ELSE b[i - (j - 1)]
      BY <1>1, <2>3, <2>4, <2>6
    <3>2. CASE i <= j - 1
      <4>1. i \in 1..(j - 1)
        BY <1>1, <2>3, <3>2
      <4> QED
        BY <2>5, <3>1, <3>2, <4>1
    <3>3. CASE ~(i <= j - 1)
      <4>1. i - (j - 1) \in 1..(n - j) /\ (i - (j - 1)) + j = i + 1
        BY <1>1, <2>3, <3>3
      <4> QED
        BY <2>5, <3>1, <3>3, <4>1
    <3> QED
      BY <3>2, <3>3
  <2>9. Range(m) \subseteq Range(l)
    <3>1. \A i \in 1..(n - 1) : i \in 1..n /\ i + 1 \in 1..n
      BY <1>1
    <3>2. \A i \in 1..(n - 1) : m[i] \in Range(l)
      BY <1>1, <2>8, <3>1 DEF Range
    <3> QED
      BY <2>7, <3>2 DEF Range
  <2>10. ASSUME NEW x \in Range(l), x # r PROVE x \in Range(m)
    <3>1. PICK i \in 1..n : l[i] = x
      BY <1>1 DEF Range
    <3>2. i # j
      BY <2>3, <2>10, <3>1
    <3>3. CASE i < j
      <4>1. i \in 1..(n - 1) /\ i <= j - 1
        BY <1>1, <2>3, <3>3
      <4> QED
        BY <2>7, <2>8, <3>1, <4>1 DEF Range
    <3>4. CASE i > j
      <4> DEFINE h == i - 1
      <4>1. h \in 1..(n - 1) /\ ~(h <= j - 1) /\ h + 1 = i
        BY <1>1, <2>3, <3>4
      <4> HIDE DEF h
      <4>2. m[h] = x
        BY <2>8, <3>1, <4>1
      <4> QED
        BY <2>7, <4>1, <4>2 DEF Range
    <3> QED
      BY <1>1, <2>3, <3>2, <3>3, <3>4
  <2> QED
    BY <2>1, <2>7, <2>9, <2>10
<1> QED
  BY <1>2, <1>3

(* The object with other locks.                                             *)
WithLocks(t, l) == [t EXCEPT !.locks = l]

LEMMA WithLocksIs ==
  ASSUME NEW t \in Object, NEW l \in Seq(Rec)
  PROVE  LET v == WithLocks(t, l)
         IN /\ v \in Object /\ v.pos = t.pos /\ v.buf = t.buf /\ v.modif = t.modif
            /\ v.modifkey = t.modifkey /\ v.modifapp = t.modifapp /\ v.curkey = t.curkey
            /\ v.locks = l /\ v.tranid = t.tranid /\ v.tranlock = t.tranlock /\ v.trandel = t.trandel
BY DEF Object, WithLocks

(* Some locks are dropped, but none of a record with an update.             *)
Dropped(v, s, oth) ==
  /\ Sound(v, oth) /\ v.file = s.file /\ v.tran = s.tran /\ ~v.tab.modif /\ v.tab.pos = s.tab.pos
  /\ v.tab.buf = s.tab.buf /\ v.tab.trandel = s.tab.trandel

LEMMA DroppedSound ==
  ASSUME NEW s, NEW oth, Sound(s, oth), ~s.tab.modif, NEW l \in Seq(Rec),
         Range(l) \subseteq Range(s.tab.locks),
         \A n \in Todo(s.tran) : s.tran.pending[n].pos \in Range(l)
  PROVE  Dropped(Retabbed(s, WithLocks(s.tab, l)), s, oth)
<1> DEFINE t == WithLocks(s.tab, l)
           v == Retabbed(s, t)
<1>1. /\ s \in State /\ FileSound(s.file) /\ UpdatesSound(s.file, s.tran, s.tab.locks)
      /\ LocksSound(s.file, s.tab.locks, oth) /\ TabSound(s.file, s.tab, s.tran)
      /\ IdSound(s.tran, s.tab.tranid)
  BY DEF Sound
<1>2. /\ t \in Object /\ t.pos = s.tab.pos /\ t.buf = s.tab.buf /\ t.modif = s.tab.modif
      /\ t.modifkey = s.tab.modifkey /\ t.modifapp = s.tab.modifapp /\ t.curkey = s.tab.curkey
      /\ t.locks = l /\ t.tranid = s.tab.tranid /\ t.trandel = s.tab.trandel
  BY <1>1, StateFields, WithLocksIs
<1>3. v \in State /\ v.file = s.file /\ v.tran = s.tran /\ v.tab = t
  BY <1>1, <1>2 DEF State, Retabbed
<1> HIDE DEF v, t
<1>4. UpdatesSound(s.file, s.tran, l)
  BY <1>1 DEF UpdatesSound
<1>5. LocksSound(s.file, l, oth)
  BY <1>1 DEF LocksSound
<1>6. TabSound(s.file, t, s.tran)
  BY <1>1, <1>2 DEF TabSound
<1> QED
  BY <1>1, <1>2, <1>3, <1>4, <1>5, <1>6 DEF Sound, Dropped, v, t

LEMMA UnlockedSound ==
  ASSUME NEW s, NEW oth, Sound(s, oth), ~s.tab.modif, NEW r, None(s.tran.pending, Todo(s.tran), r)
  PROVE  Dropped(Unlocked(s, r), s, oth)
<1> DEFINE l == RemoveFirst(s.tab.locks, r)
<1>1. s.tab.locks \in Seq(Rec)
  BY StateFields DEF Sound
<1>2. /\ l \in Seq(Rec) /\ Range(l) \subseteq Range(s.tab.locks)
      /\ \A x \in Range(s.tab.locks) : x # r => x \in Range(l)
  BY <1>1, RemoveFirstIs
<1>3. Unlocked(s, r) = Retabbed(s, WithLocks(s.tab, l))
  BY DEF Unlocked, Retabbed, WithLocks
<1> HIDE DEF l
<1>4. \A n \in Todo(s.tran) : s.tran.pending[n].pos \in Range(l)
  BY <1>2 DEF None, Sound, UpdatesSound
<1> QED
  BY <1>2, <1>3, <1>4, DroppedSound

(* r is locked.                                                             *)
LockedAt(v, s, oth, r) ==
  /\ Sound(v, oth) /\ v.file = s.file /\ v.tran = s.tran /\ ~v.tab.modif /\ v.tab.pos = s.tab.pos
  /\ v.tab.trandel = s.tab.trandel /\ r \in Range(v.tab.locks)

(* The object with one lock more.                                           *)
OneMore(t, r, active, b) ==
  [t EXCEPT !.locks = Append(@, r), !.tranid = @ \/ active,
            !.tranlock = IF active /\ @ = 0 THEN Len(t.locks) + 1 ELSE @,
            !.buf = IF t.pos = r THEN b ELSE @]

Grown(v, t, r, b) ==
  /\ v \in Object /\ v.pos = t.pos /\ v.buf = (IF t.pos = r THEN b ELSE t.buf)
  /\ v.modif = t.modif /\ v.modifkey = t.modifkey /\ v.modifapp = t.modifapp
  /\ v.curkey = t.curkey /\ v.locks = Append(t.locks, r) /\ v.trandel = t.trandel
  /\ t.tranid => v.tranid

LEMMA OneMoreIs ==
  ASSUME NEW t \in Object, NEW r \in Rec, NEW active \in BOOLEAN, NEW b \in Record
  PROVE  Grown(OneMore(t, r, active, b), t, r, b)
<1> DEFINE v == OneMore(t, r, active, b)
           n == IF active /\ t.tranlock = 0 THEN Len(t.locks) + 1 ELSE t.tranlock
           l == Append(t.locks, r)
           c == IF t.pos = r THEN b ELSE t.buf
           d == t.tranid \/ active
<1>1. t.locks \in Seq(Rec) /\ t.tranlock \in Nat /\ t.buf \in Record /\ t.tranid \in BOOLEAN
  BY DEF Object
<1>2. n \in Nat /\ l \in Seq(Rec) /\ c \in Record /\ d \in BOOLEAN
  <2>1. Len(t.locks) + 1 \in Nat
    BY <1>1
  <2> QED
    BY <1>1, <2>1
<1>3. v = [t EXCEPT !.locks = l, !.tranid = d, !.tranlock = n, !.buf = c]
  BY DEF OneMore
<1> HIDE DEF v, n, l, c, d
<1>4. /\ v \in Object /\ v.pos = t.pos /\ v.buf = c
      /\ v.modif = t.modif /\ v.modifkey = t.modifkey /\ v.modifapp = t.modifapp
      /\ v.curkey = t.curkey /\ v.locks = l /\ v.trandel = t.trandel
      /\ v.tranid = d
  BY <1>2, <1>3 DEF Object
<1> QED
  BY <1>2, <1>4 DEF v, l, c, d, Grown

LEMMA LockPositionSound ==
  ASSUME NEW s, NEW oth, Sound(s, oth), ~s.tab.modif, s.tran.writing = 0,
         NEW r \in DOMAIN s.file.rec \ oth
  PROVE  LockedAt(lockPosition(s, r), s, oth, r)
<1>1. CASE r \in Range(s.tab.locks)
  <2>1. lockPosition(s, r) = s
    BY <1>1 DEF lockPosition
  <2> QED
    BY <1>1, <2>1 DEF LockedAt
<1>2. CASE r \notin Range(s.tab.locks)
  <2> DEFINE f == s.file
             t == s.tab
             p == s.tran
             t2 == OneMore(t, r, p.active, f.rec[r])
             v == Retabbed(s, t2)
  <2>1. /\ s \in State /\ FileSound(f) /\ UpdatesSound(f, p, t.locks) /\ LocksSound(f, t.locks, oth)
        /\ TabSound(f, t, p) /\ IdSound(p, t.tranid)
    BY DEF Sound
  <2>2. lockPosition(s, r) = v
    BY <1>2 DEF lockPosition, Retabbed, OneMore
  <2>3. /\ t \in Object /\ p \in Levels /\ p.active \in BOOLEAN /\ t.locks \in Seq(Rec) /\ f.rec \in Seq(Record)
        /\ f.rec[r] \in Record /\ r \in Rec
    <3>1. t \in Object /\ p \in Levels /\ t.locks \in Seq(Rec) /\ f.rec \in Seq(Record) /\ p.active \in BOOLEAN
      BY <2>1, StateFields DEF Levels
    <3>2. Len(f.rec) <= MaxRec
      BY <2>1 DEF FileSound
    <3> QED
      BY <3>1, <3>2, BoundAssumption DEF Rec
  <2>4. /\ t2 \in Object /\ t2.pos = t.pos /\ t2.buf = (IF t.pos = r THEN f.rec[r] ELSE t.buf)
        /\ t2.modif = t.modif /\ t2.modifkey = t.modifkey /\ t2.modifapp = t.modifapp
        /\ t2.curkey = t.curkey /\ t2.locks = Append(t.locks, r) /\ t2.trandel = t.trandel
        /\ (t.tranid => t2.tranid)
    <3>1. Grown(t2, t, r, f.rec[r])
      BY <2>3, OneMoreIs
    <3> HIDE DEF t2
    <3> QED
      BY <3>1 DEF Grown
  <2> HIDE DEF t2
  <2>5. Range(t2.locks) = Range(t.locks) \cup {r}
    BY <2>3, <2>4, AppendRange
  <2>6. Range(t2.locks) \subseteq DOMAIN f.rec \ oth
    BY <2>1, <2>5 DEF LocksSound
  <2>7. TabSound(f, t2, p)
    <3>1. ~t2.modif /\ ~t2.modifkey /\ ~t2.modifapp /\ t2.curkey = NoKey /\ p.save = -1
      BY <2>1, <2>4 DEF TabSound, IdSound
    <3>2. ASSUME t2.pos \in Range(t2.locks) PROVE Shows(f.rec, p.pending, Todo(p), t2.pos, t2.buf)
      <4>1. CASE t.pos = r
        <5>1. None(p.pending, Todo(p), r)
          BY <1>2, <2>1 DEF None, UpdatesSound
        <5>2. \A m \in Todo(p) : ~Latest(p.pending, Todo(p), r, m)
          BY <5>1 DEF None, Latest
        <5> QED
          BY <2>4, <4>1, <5>1, <5>2 DEF Shows
      <4>2. CASE t.pos # r
        <5>1. t.pos \in Range(t.locks)
          BY <2>4, <2>5, <3>2, <4>2
        <5>2. Shows(f.rec, p.pending, Todo(p), t.pos, t.buf)
          BY <2>1, <3>1, <5>1 DEF TabSound
        <5> QED
          BY <2>4, <4>2, <5>2
      <4> QED
        BY <4>1, <4>2
    <3>3. t2.pos # 0 => t2.pos \in DOMAIN f.rec
      BY <2>1, <2>4 DEF TabSound
    <3> HIDE DEF f, p
    <3> QED
      BY <3>1, <3>2, <3>3 DEF TabSound
  <2>8. IdSound(p, t2.tranid)
    BY <2>1, <2>4 DEF IdSound
  <2>9. Range(t.locks) \subseteq Range(t2.locks)
    BY <2>5
  <2>10. Sound(v, oth) /\ v.file = f /\ v.tran = p /\ v.tab = t2
    BY <2>4, <2>6, <2>7, <2>8, <2>9, RetabbedSound
  <2> HIDE DEF v
  <2> QED
    BY <2>2, <2>4, <2>5, <2>10 DEF LockedAt
<1> QED
  BY <1>1, <1>2

(* Only the current record is locked, outside transactions.                 *)
OnlyLock(t, r, b) == [t EXCEPT !.locks = <<r>>, !.buf = b]

Only(v, t, r, b) ==
  /\ v \in Object /\ v.pos = t.pos /\ v.buf = b
  /\ v.modif = t.modif /\ v.modifkey = t.modifkey /\ v.modifapp = t.modifapp
  /\ v.curkey = t.curkey /\ v.trandel = t.trandel /\ v.tranid = t.tranid
  /\ v.locks = <<r>> /\ Range(v.locks) = {r}

LEMMA OnlyLockIs ==
  ASSUME NEW t \in Object, NEW r \in Rec, NEW b \in Record
  PROVE  Only(OnlyLock(t, r, b), t, r, b)
<1> DEFINE l == <<r>>
           v == [t EXCEPT !.locks = l, !.buf = b]
<1>1. l \in Seq(Rec) /\ Range(l) = {r}
  <2>1. DOMAIN l = {1} /\ l[1] = r
    OBVIOUS
  <2> QED
    BY <2>1 DEF Range
<1> HIDE DEF l
<1>2. /\ v \in Object /\ v.pos = t.pos /\ v.buf = b
      /\ v.modif = t.modif /\ v.modifkey = t.modifkey /\ v.modifapp = t.modifapp
      /\ v.curkey = t.curkey /\ v.trandel = t.trandel /\ v.tranid = t.tranid
      /\ v.locks = l
  BY <1>1 DEF Object
<1>3. OnlyLock(t, r, b) = v
  BY DEF OnlyLock, l
<1> QED
  BY <1>1, <1>2, <1>3 DEF l, Only

LEMMA LockCurrentSound ==
  ASSUME NEW s, NEW oth, Sound(s, oth), ~s.tab.modif, s.tran.writing = 0,
         s.tab.pos \in DOMAIN s.file.rec \ oth
  PROVE  LockedAt(lockCurrent(s), s, oth, s.tab.pos)
<1> DEFINE r == s.tab.pos
<1>1. CASE s.tran.active
  <2>1. lockCurrent(s) = lockPosition(s, r)
    BY <1>1 DEF lockCurrent
  <2> QED
    BY <2>1, LockPositionSound
<1>2. CASE ~s.tran.active
  <2> DEFINE f == s.file
             t == s.tab
             p == s.tran
             t2 == OnlyLock(t, r, f.rec[r])
             v == Retabbed(s, t2)
  <2>1. /\ s \in State /\ FileSound(f) /\ UpdatesSound(f, p, t.locks) /\ LocksSound(f, t.locks, oth)
        /\ TabSound(f, t, p) /\ IdSound(p, t.tranid)
    BY DEF Sound
  <2>2. lockCurrent(s) = v
    BY <1>2 DEF lockCurrent, Retabbed, OnlyLock
  <2>3. t \in Object /\ f.rec[r] \in Record /\ r \in Rec
    <3>1. t \in Object /\ f.rec \in Seq(Record) /\ Len(f.rec) <= MaxRec
      BY <2>1, StateFields DEF FileSound
    <3> QED
      BY <3>1, BoundAssumption DEF Rec
  <2>4. /\ t2 \in Object /\ t2.pos = r /\ t2.buf = f.rec[r]
        /\ t2.modif = t.modif /\ t2.modifkey = t.modifkey /\ t2.modifapp = t.modifapp
        /\ t2.curkey = t.curkey /\ t2.trandel = t.trandel /\ t2.tranid = t.tranid
        /\ Range(t2.locks) = {r}
    <3>1. Only(t2, t, r, f.rec[r])
      BY <2>3, OnlyLockIs
    <3> HIDE DEF t2
    <3> QED
      BY <3>1 DEF Only
  <2>5. Todo(p) = {} /\ p.pending = <<>>
    BY <1>2, NoUpdates
  <2>6. v \in State /\ v.file = f /\ v.tran = p /\ v.tab = t2
    BY <2>1, <2>4 DEF State, Retabbed
  <2> HIDE DEF t2, v
  <2>7. UpdatesSound(f, p, t2.locks)
    BY <2>5 DEF UpdatesSound, Chain
  <2>8. LocksSound(f, t2.locks, oth)
    BY <2>1, <2>4 DEF LocksSound
  <2>9. TabSound(f, t2, p)
    <3>1. ~t2.modif /\ ~t2.modifkey /\ ~t2.modifapp /\ t2.curkey = NoKey
      BY <2>1, <2>4 DEF TabSound
    <3>2. Shows(f.rec, p.pending, Todo(p), t2.pos, t2.buf)
      BY <2>4, <2>5 DEF Shows
    <3> QED
      BY <2>4, <3>1, <3>2 DEF TabSound
  <2> QED
    BY <2>1, <2>2, <2>4, <2>6, <2>7, <2>8, <2>9 DEF Sound, LockedAt
<1> QED
  BY <1>1, <1>2

-----------------------------------------------------------------------------
(* Appending, deleting, inserting.                                          *)

(* v is the object t with r locked, whatever else becomes of its buffer.    *)
Holds(v, t, r, active) ==
  /\ v \in Object /\ v.pos = t.pos /\ v.curkey = t.curkey /\ v.trandel = t.trandel
  /\ t.tranid => v.tranid
  /\ r \in Range(v.locks) /\ Range(v.locks) \subseteq Range(t.locks) \cup {r}
  /\ active => Range(t.locks) \subseteq Range(v.locks)

LEMMA LockHolds ==
  ASSUME NEW x \in State, x.tab.pos \in Rec, x.tab.pos \in DOMAIN x.file.rec
  PROVE  /\ lockCurrent(x) \in State /\ lockCurrent(x).file = x.file /\ lockCurrent(x).tran = x.tran
         /\ Holds(lockCurrent(x).tab, x.tab, x.tab.pos, x.tran.active)
<1> DEFINE r == x.tab.pos
           t == x.tab
           b == x.file.rec[r]
           l == lockCurrent(x)
<1>1. t \in Object /\ t.locks \in Seq(Rec) /\ r \in Rec /\ b \in Record /\ x.tran.active \in BOOLEAN
  BY StateFields DEF Levels
<1>2. CASE x.tran.active /\ r \in Range(t.locks)
  <2>1. l = x
    BY <1>2 DEF lockCurrent, lockPosition
  <2> QED
    BY <1>1, <1>2, <2>1 DEF Holds
<1>3. CASE x.tran.active /\ r \notin Range(t.locks)
  <2> DEFINE t2 == OneMore(t, r, x.tran.active, b)
  <2>1. l = Retabbed(x, t2)
    BY <1>3 DEF lockCurrent, lockPosition, Retabbed, OneMore
  <2>2. Grown(t2, t, r, b)
    BY <1>1, OneMoreIs
  <2> HIDE DEF t2, l
  <2>3. /\ t2 \in Object /\ t2.pos = t.pos /\ t2.curkey = t.curkey /\ t2.trandel = t.trandel
        /\ (t.tranid => t2.tranid) /\ t2.locks = Append(t.locks, r)
    BY <2>2 DEF Grown
  <2>4. l \in State /\ l.file = x.file /\ l.tran = x.tran /\ l.tab = t2
    BY <2>1, <2>3 DEF State, Retabbed
  <2>5. Range(t2.locks) = Range(t.locks) \cup {r}
    BY <1>1, <2>3, AppendRange
  <2> QED
    BY <2>3, <2>4, <2>5 DEF Holds, l
<1>4. CASE ~x.tran.active
  <2> DEFINE t2 == OnlyLock(t, r, b)
  <2>1. l = Retabbed(x, t2)
    BY <1>4 DEF lockCurrent, Retabbed, OnlyLock
  <2>2. /\ t2 \in Object /\ t2.pos = t.pos /\ t2.curkey = t.curkey /\ t2.trandel = t.trandel
        /\ t2.tranid = t.tranid /\ Range(t2.locks) = {r}
    <3>1. Only(t2, t, r, b)
      BY <1>1, OnlyLockIs
    <3> HIDE DEF t2, b
    <3> QED
      BY <3>1 DEF Only
  <2> HIDE DEF t2, l
  <2>3. l \in State /\ l.file = x.file /\ l.tran = x.tran /\ l.tab = t2
    BY <2>1, <2>2 DEF State, Retabbed
  <2> QED
    BY <1>4, <2>2, <2>3 DEF Holds, l
<1> QED
  BY <1>2, <1>3, <1>4

(* A record of its own for the next append.                                 *)
Free(f, oth, r) == r \in f.deleted \ oth \/ (r = Len(f.rec) + 1 /\ r <= MaxRec)

WithRecord(f, r) == [f EXCEPT !.rec = IF r \in DOMAIN @ THEN @ ELSE Append(@, Gone), !.deleted = @ \ {r}]

LEMMA WithRecordSound ==
  ASSUME NEW f, FileSound(f), NEW oth, oth \subseteq DOMAIN f.rec, NEW r, Free(f, oth, r)
  PROVE  LET g == WithRecord(f, r)
         IN /\ FileSound(g) /\ r \in Rec /\ r \in DOMAIN g.rec \ (oth \cup g.deleted \cup g.recno)
            /\ DOMAIN f.rec \subseteq DOMAIN g.rec /\ \A x \in DOMAIN f.rec : g.rec[x] = f.rec[x]
            /\ g.recno = f.recno /\ g.deleted = f.deleted \ {r}
            /\ r \in f.deleted \/ r \notin DOMAIN f.rec
<1> DEFINE g == WithRecord(f, r)
           rec2 == IF r \in DOMAIN f.rec THEN f.rec ELSE Append(f.rec, Gone)
           n == Len(f.rec)
<1>1. /\ f \in File /\ f.rec \in Seq(Record) /\ n <= MaxRec
      /\ f.recno \cup f.deleted \subseteq DOMAIN f.rec /\ f.index = Entries(f.rec, f.recno)
      /\ \A x \in DOMAIN f.rec : x \in f.recno <=> ~f.rec[x].del
      /\ f.deleted \cap f.recno = {}
      /\ DOMAIN f.rec = 1..n /\ n \in Nat /\ MaxRec \in Nat \ {0}
  BY BoundAssumption DEF FileSound, File
<1>2. /\ g.rec = rec2 /\ g.recno = f.recno /\ g.deleted = f.deleted \ {r} /\ g.index = f.index
      /\ (rec2 \in Seq(Record) => g \in File)
  BY <1>1 DEF File, WithRecord
<1>3. Gone \in Record /\ Gone.del
  BY DEF Gone, Blank, Record
<1>4. r \in Rec
  BY <1>1 DEF Free, Rec
<1>5. CASE r \in DOMAIN f.rec
  <2>1. rec2 = f.rec
    BY <1>5
  <2>2. r \in f.deleted \ oth
    BY <1>1, <1>5 DEF Free
  <2> HIDE DEF g, rec2
  <2>3. FileSound(g)
    BY <1>1, <1>2, <2>1 DEF FileSound
  <2> QED
    BY <1>1, <1>2, <1>4, <2>1, <2>2, <2>3 DEF g
<1>6. CASE r \notin DOMAIN f.rec
  <2>1. rec2 = Append(f.rec, Gone) /\ r = n + 1 /\ r <= MaxRec
    BY <1>1, <1>6 DEF Free
  <2> HIDE DEF rec2, n
  <2>2. rec2 \in Seq(Record) /\ Len(rec2) = n + 1 /\ DOMAIN rec2 = 1..(n + 1)
    BY <1>1, <1>3, <2>1 DEF n
  <2>3. rec2[r] = Gone /\ \A x \in DOMAIN f.rec : rec2[x] = f.rec[x]
    BY <1>1, <2>1 DEF n
  <2>4. DOMAIN f.rec \subseteq DOMAIN rec2 /\ r \in DOMAIN rec2 /\ \A x \in DOMAIN rec2 : x = r \/ x \in DOMAIN f.rec
    BY <1>1, <2>1, <2>2
  <2> HIDE DEF g
  <2>5. Entries(rec2, f.recno) = Entries(f.rec, f.recno)
    <3>1. \A x \in f.recno : rec2[x].key = f.rec[x].key
      BY <1>1, <2>3
    <3> QED
      BY <3>1 DEF Entries
  <2>6. FileSound(g)
    <3>1. \A x \in DOMAIN rec2 : x \in f.recno <=> ~rec2[x].del
      BY <1>1, <1>3, <1>6, <2>3, <2>4
    <3> QED
      BY <1>1, <1>2, <2>1, <2>2, <2>4, <2>5, <3>1 DEF FileSound
  <2>7. r \notin oth /\ r \notin g.recno /\ r \notin g.deleted
    BY <1>1, <1>2, <1>6
  <2> QED
    BY <1>2, <1>4, <1>6, <2>3, <2>4, <2>6, <2>7 DEF g
<1> QED
  BY <1>5, <1>6

Fresh(t) == [t EXCEPT !.buf = Blank, !.modif = TRUE, !.modifkey = TRUE, !.modifapp = TRUE]

LEMMA FreshIs ==
  ASSUME NEW t \in Object
  PROVE  LET v == Fresh(t)
         IN /\ v \in Object /\ v.pos = t.pos /\ v.buf = Blank /\ v.modif /\ v.modifkey /\ v.modifapp
            /\ v.curkey = t.curkey /\ v.locks = t.locks /\ v.tranid = t.tranid /\ v.trandel = t.trandel
<1>1. Blank \in Record
  BY DEF Blank, Record
<1> QED
  BY <1>1 DEF Object, Fresh

(* v is s with a new record r, locked and yet to be written.                *)
Added(v, s, oth, r) ==
  /\ Sound(v, oth) /\ v.tran = s.tran /\ v.tab.pos = r /\ v.tab.buf = Blank /\ v.tab.modif /\ v.tab.modifkey
  /\ v.tab.modifapp /\ v.tab.curkey = NoKey /\ r \in Range(v.tab.locks) /\ v.tab.trandel = s.tab.trandel
  /\ r \in Rec /\ Load(v) = Len(s.tran.pending) + 1

LEMMA AppendedSound ==
  ASSUME NEW s, NEW oth, Sound(s, oth), ~s.tab.modif, s.tran.writing = 0, NEW r, Free(s.file, oth, r)
  PROVE  Added(Appended(s, r), s, oth, r)
<1> DEFINE f == s.file
           t == s.tab
           p == s.tran
           q == p.pending
           T == Todo(p)
           g == WithRecord(f, r)
           t1 == [t EXCEPT !.pos = r]
           x == [file |-> g, tab |-> t1, tran |-> p]
           l == lockCurrent(x)
           t2 == Fresh(l.tab)
           v == Appended(s, r)
<1>1. /\ s \in State /\ FileSound(f) /\ UpdatesSound(f, p, t.locks) /\ LocksSound(f, t.locks, oth)
      /\ TabSound(f, t, p) /\ IdSound(p, t.tranid)
  BY DEF Sound
<1>2. f \in File /\ t \in Object /\ p \in Levels /\ Len(q) \in Nat
  BY <1>1, StateFields
<1>3. /\ FileSound(g) /\ r \in Rec /\ r \in DOMAIN g.rec \ (oth \cup g.deleted \cup g.recno)
      /\ DOMAIN f.rec \subseteq DOMAIN g.rec /\ \A y \in DOMAIN f.rec : g.rec[y] = f.rec[y]
      /\ g.recno = f.recno /\ g.deleted = f.deleted \ {r}
      /\ r \in f.deleted \/ r \notin DOMAIN f.rec
  BY <1>1, WithRecordSound DEF LocksSound
<1>4. g \in File
  BY <1>3 DEF FileSound
<1>5. t1 \in Object /\ t1.pos = r /\ t1.curkey = NoKey /\ t1.trandel = t.trandel /\ t1.locks = t.locks /\ t1.tranid = t.tranid
  <2>1. r \in 0..MaxRec /\ t.curkey = NoKey
    BY <1>1, <1>3, BoundAssumption DEF Rec, TabSound
  <2> QED
    BY <1>2, <2>1 DEF Object
<1>6. v = [l EXCEPT !.tab = t2]
  <2>1. [s EXCEPT !.file = WithRecord(f, r), !.tab.pos = r] = x
    <3> DEFINE y == [s EXCEPT !.file = g, !.tab.pos = r]
    <3> HIDE DEF g
    <3>1. y \in [file : {g}, tab : {t1}, tran : {p}]
      BY <1>1 DEF State
    <3> HIDE DEF y, t1, p
    <3>2. y = [file |-> g, tab |-> t1, tran |-> p]
      BY <3>1
    <3> QED
      BY <3>2 DEF y, g, x
  <2> HIDE DEF x
  <2> QED
    BY <2>1 DEF Appended, Fresh, WithRecord
<1> HIDE DEF g, t1
<1>7. x \in State /\ x.file = g /\ x.tab = t1 /\ x.tran = p
  BY <1>2, <1>4, <1>5 DEF State
<1> HIDE DEF x
<1>8. /\ l \in State /\ l.file = g /\ l.tran = p /\ Holds(l.tab, t1, r, p.active)
  BY <1>3, <1>5, <1>7, LockHolds
<1> HIDE DEF l
<1>9. /\ l.tab \in Object /\ l.tab.pos = r /\ l.tab.curkey = NoKey /\ l.tab.trandel = t.trandel
      /\ (t.tranid => l.tab.tranid)
      /\ r \in Range(l.tab.locks) /\ Range(l.tab.locks) \subseteq Range(t.locks) \cup {r}
      /\ (p.active => Range(t.locks) \subseteq Range(l.tab.locks))
  BY <1>5, <1>8 DEF Holds
<1>10. /\ t2 \in Object /\ t2.pos = r /\ t2.buf = Blank /\ t2.modif /\ t2.modifkey /\ t2.modifapp
       /\ t2.curkey = NoKey /\ t2.locks = l.tab.locks /\ t2.tranid = l.tab.tranid /\ t2.trandel = t.trandel
  BY <1>9, FreshIs
<1> HIDE DEF t2, v
<1>11. v \in State /\ v.file = g /\ v.tab = t2 /\ v.tran = p
  BY <1>6, <1>8, <1>10 DEF State
<1> HIDE DEF f, t, p, q, T
<1>12. \A n \in T : q[n].pos \in Range(t.locks) /\ q[n].pos \in DOMAIN f.rec /\ q[n].pos # r
  BY <1>1, <1>3 DEF UpdatesSound, LocksSound, T, q
<1>13. p.active \/ T = {}
  BY NoUpdates DEF p, T
<1>14. UpdatesSound(g, p, t2.locks)
  <2>1. Chain(f.rec, f.recno, q, T)
    BY <1>1 DEF UpdatesSound, T, q
  <2>2. Chain(g.rec, g.recno, q, T)
    <3>1. \A n \in T : g.rec[q[n].pos] = f.rec[q[n].pos] /\ (q[n].pos \in g.recno <=> q[n].pos \in f.recno)
      BY <1>3, <1>12
    <3> QED
      BY <2>1, <3>1, ChainElsewhere
  <2>3. \A n \in T : q[n].pos \in Range(t2.locks) \ g.deleted
    <3>1. \A n \in T : q[n].pos \notin f.deleted
      BY <1>1 DEF UpdatesSound, T, q
    <3> QED
      BY <1>3, <1>9, <1>10, <1>12, <1>13, <3>1
  <2> QED
    BY <2>2, <2>3 DEF UpdatesSound, T, q
<1>15. LocksSound(g, t2.locks, oth)
  BY <1>1, <1>3, <1>9, <1>10 DEF LocksSound
<1>16. TabSound(g, t2, p)
  <2>1. None(q, T, r) /\ \A m \in T : ~Latest(q, T, r, m)
    BY <1>12 DEF None, Latest
  <2>2. Follows(t2, g.rec[r], r \notin g.recno)
    BY <1>3, <1>10 DEF Follows
  <2>3. Continues(g.rec, g.recno, q, T, t2)
    BY <1>10, <1>12, <2>1, <2>2 DEF Continues
  <2>4. p.writing = 0
    BY DEF p
  <2> QED
    BY <1>3, <1>9, <1>10, <2>3, <2>4 DEF TabSound, q, T
<1>17. IdSound(p, t2.tranid)
  <2>1. p.writing = 0
    BY DEF p
  <2> QED
    BY <1>1, <1>9, <1>10, <2>1 DEF IdSound
<1>18. Sound(v, oth)
  BY <1>3, <1>11, <1>14, <1>15, <1>16, <1>17 DEF Sound
<1>19. Load(v) = Len(q) + 1
  BY <1>2, <1>10, <1>11 DEF Load, q
<1> QED
  BY <1>3, <1>9, <1>10, <1>11, <1>18, <1>19 DEF Added, v, p, q, t

LEMMA LevelsTransitive ==
  ASSUME NEW s \in State, NEW v \in State, NEW w \in State, SameLevels(v, s), SameLevels(w, v)
  PROVE  SameLevels(w, s)
<1>1. Len(s.tran.pending) \in Nat /\ Len(v.tran.pending) \in Nat /\ Len(w.tran.pending) \in Nat
  BY StateFields
<1> QED
  BY <1>1 DEF SameLevels

(* v is where calls have brought s, with at most n updates more.            *)
Reached(v, s, oth, n) ==
  Sound(v, oth) /\ SameLevels(v, s) /\ ~v.tab.modif /\ Load(v) <= Len(s.tran.pending) + n

LEMMA LoadClean ==
  ASSUME NEW s \in State, ~s.tab.modif
  PROVE  Load(s) = Len(s.tran.pending)
<1>1. Len(s.tran.pending) \in Nat
  BY StateFields
<1> QED
  BY <1>1 DEF Load

LEMMA ElsewhereReached ==
  ASSUME NEW s, NEW v, NEW oth, Elsewhere(v, s, oth), NEW w, NEW n, Reached(s, w, oth, n), w \in State
  PROVE  Reached(v, w, oth, n)
<1>1. /\ Sound(v, oth) /\ ~v.tab.modif /\ v.tran = s.tran /\ Sound(s, oth) /\ SameLevels(s, w) /\ ~s.tab.modif
      /\ Load(s) <= Len(w.tran.pending) + n
  BY DEF Elsewhere, Reached
<1>2. v \in State /\ s \in State
  BY <1>1 DEF Sound
<1>3. Load(v) = Load(s)
  BY <1>1, <1>2, LoadClean
<1>4. SameLevels(v, w)
  BY <1>1 DEF SameLevels
<1> QED
  BY <1>1, <1>3, <1>4 DEF Reached

LEMMA DeletedSound ==
  ASSUME NEW s, NEW oth, Sound(s, oth), s.tran.writing = 0, s.tab.pos \in Range(s.tab.locks), ~s.tab.buf.del
  PROVE  Reached(Deleted(s), s, oth, 1)
<1> DEFINE t2 == [s.tab EXCEPT !.modif = TRUE, !.buf.del = TRUE]
           x == Retabbed(s, t2)
           d == tabCommit(x)
<1>1. s \in State /\ s.tab \in Object /\ s.tab.buf \in Record /\ Len(s.tran.pending) \in Nat
  BY StateFields DEF Sound
<1>2. t2 \in Object /\ Alters(t2, s.tab)
  <2> DEFINE b == [s.tab.buf EXCEPT !.del = TRUE]
  <2>1. b \in Record /\ b.key = s.tab.buf.key
    BY <1>1 DEF Record
  <2>2. t2 = [s.tab EXCEPT !.modif = TRUE, !.buf = b]
    OBVIOUS
  <2> HIDE DEF t2, b
  <2>3. /\ t2 \in Object /\ t2.buf = b /\ t2.pos = s.tab.pos /\ t2.locks = s.tab.locks /\ t2.tranid = s.tab.tranid
        /\ t2.modif /\ t2.modifapp = s.tab.modifapp /\ t2.modifkey = s.tab.modifkey /\ t2.curkey = s.tab.curkey
    BY <1>1, <2>1, <2>2 DEF Object
  <2> QED
    BY <2>1, <2>3 DEF Alters
<1>3. [s EXCEPT !.tab.modif = TRUE, !.tab.buf.del = TRUE] = x
  BY DEF Retabbed
<1> HIDE DEF t2, x
<1>4. Sound(x, oth) /\ x.tran = s.tran /\ Load(x) <= Len(s.tran.pending) + 1
  BY <1>2, AlterSound DEF x
<1>5. Committed(d, x, oth)
  BY <1>4, CommitSound
<1>6. Deleted(s) = IF s.tran.active THEN d ELSE Unlocked(d, s.tab.pos)
  BY <1>3 DEF Deleted
<1> HIDE DEF d
<1>7. Reached(d, s, oth, 1)
  <2>1. Sound(d, oth) /\ SameLevels(d, x) /\ Load(d) <= Load(x) /\ ~d.tab.modif
    BY <1>5 DEF Committed
  <2>2. SameLevels(d, s)
    BY <1>4, <2>1 DEF SameLevels
  <2>3. Load(d) \in Nat /\ Load(x) \in Nat
    BY <1>4, <2>1, LoadNat DEF Sound
  <2>4. Load(d) <= Len(s.tran.pending) + 1
    BY <1>1, <1>4, <2>1, <2>3
  <2> QED
    BY <2>1, <2>2, <2>4 DEF Reached
<1>8. CASE s.tran.active
  BY <1>6, <1>7, <1>8
<1>9. CASE ~s.tran.active
  <2> DEFINE v == Unlocked(d, s.tab.pos)
  <2>1. Sound(d, oth) /\ SameLevels(d, s) /\ ~d.tab.modif /\ Load(d) <= Len(s.tran.pending) + 1
    BY <1>7 DEF Reached
  <2>2. ~d.tran.active
    BY <1>9, <2>1 DEF SameLevels
  <2>3. None(d.tran.pending, Todo(d.tran), s.tab.pos)
    BY <2>1, <2>2, NoUpdates DEF None
  <2>4. Dropped(v, d, oth)
    BY <2>1, <2>3, UnlockedSound
  <2> HIDE DEF v
  <2>5. Sound(v, oth) /\ v.tran = d.tran /\ ~v.tab.modif
    BY <2>4 DEF Dropped
  <2>6. Load(v) = Load(d)
    BY <2>1, <2>5, LoadClean DEF Sound
  <2>7. SameLevels(v, s)
    BY <2>1, <2>5 DEF SameLevels
  <2> QED
    BY <1>6, <1>9, <2>1, <2>5, <2>6, <2>7 DEF Reached, v
<1> QED
  BY <1>8, <1>9

(* The object with r among the records that were put in.                    *)
WithInsert(t, r) == [t EXCEPT !.tranid = TRUE, !.trandel = @ \cup {r}]

LEMMA WithInsertSound ==
  ASSUME NEW c, NEW oth, Sound(c, oth), c.tran.writing = 0, NEW r \in Rec
  PROVE  LET v == [c EXCEPT !.tab.tranid = TRUE, !.tab.trandel = @ \cup {r}]
         IN /\ Sound(v, oth) /\ v.file = c.file /\ v.tran = c.tran /\ v.tab.modif = c.tab.modif
<1> DEFINE t2 == WithInsert(c.tab, r)
           v == [c EXCEPT !.tab.tranid = TRUE, !.tab.trandel = @ \cup {r}]
<1>1. /\ c \in State /\ c.tab \in Object /\ LocksSound(c.file, c.tab.locks, oth)
      /\ TabSound(c.file, c.tab, c.tran) /\ IdSound(c.tran, c.tab.tranid)
  BY StateFields DEF Sound
<1>2. v = Retabbed(c, t2)
  BY DEF Retabbed, WithInsert
<1>3. /\ t2 \in Object /\ t2.pos = c.tab.pos /\ t2.buf = c.tab.buf /\ t2.modif = c.tab.modif
      /\ t2.modifkey = c.tab.modifkey /\ t2.modifapp = c.tab.modifapp /\ t2.curkey = c.tab.curkey
      /\ t2.locks = c.tab.locks /\ t2.tranid
  <2>1. c.tab.trandel \cup {r} \in SUBSET Rec
    BY <1>1 DEF Object
  <2> QED
    BY <1>1, <2>1 DEF Object, WithInsert
<1> HIDE DEF t2, v
<1>4. TabSound(c.file, t2, c.tran)
  <2> DEFINE p == c.tran
             f == c.file
             q == p.pending
             T == Todo(p)
  <2>1. t2.modif => Continues(f.rec, f.recno, q, T, t2)
    <3>1. t2.modif => Continues(f.rec, f.recno, q, T, c.tab)
      BY <1>1, <1>3 DEF TabSound
    <3> HIDE DEF f, q, T
    <3> QED
      BY <1>3, <3>1 DEF Continues, Follows
  <2> HIDE DEF p, f
  <2> QED
    BY <1>1, <1>3, <2>1 DEF TabSound, p, f
<1>5. IdSound(c.tran, t2.tranid)
  BY <1>1, <1>3 DEF IdSound
<1>6. Range(c.tab.locks) \subseteq Range(t2.locks) /\ Range(t2.locks) \subseteq DOMAIN c.file.rec \ oth
  BY <1>1, <1>3 DEF LocksSound
<1>7. Sound(Retabbed(c, t2), oth) /\ Retabbed(c, t2).file = c.file /\ Retabbed(c, t2).tran = c.tran
      /\ Retabbed(c, t2).tab = t2
  BY <1>3, <1>4, <1>5, <1>6, RetabbedSound
<1> QED
  BY <1>2, <1>3, <1>7 DEF v

LEMMA ReachedTransitive ==
  ASSUME NEW s \in State, NEW v, NEW w, NEW oth, NEW m \in Nat, NEW n \in Nat,
         Reached(v, s, oth, m), Reached(w, v, oth, n)
  PROVE  Reached(w, s, oth, m + n)
<1>1. /\ Sound(v, oth) /\ SameLevels(v, s) /\ ~v.tab.modif /\ Load(v) <= Len(s.tran.pending) + m
      /\ Sound(w, oth) /\ SameLevels(w, v) /\ ~w.tab.modif /\ Load(w) <= Len(v.tran.pending) + n
  BY DEF Reached
<1>2. v \in State /\ w \in State
  BY <1>1 DEF Sound
<1>3. SameLevels(w, s)
  BY <1>1, <1>2, LevelsTransitive
<1>4. Load(v) = Len(v.tran.pending)
  BY <1>1, <1>2, LoadClean
<1>5. Load(w) \in Nat /\ Len(v.tran.pending) \in Nat /\ Len(s.tran.pending) \in Nat
  BY <1>2, LoadNat, StateFields
<1>6. Load(w) <= Len(s.tran.pending) + (m + n)
  <2> DEFINE x == Load(w)
             y == Len(v.tran.pending)
             z == Len(s.tran.pending)
  <2>1. x \in Nat /\ y \in Nat /\ z \in Nat /\ x <= y + n /\ y <= z + m
    BY <1>1, <1>4, <1>5
  <2> HIDE DEF x, y, z
  <2>2. x <= z + (m + n)
    BY <2>1
  <2> QED
    BY <2>2 DEF x, z
<1> QED
  BY <1>1, <1>3, <1>6 DEF Reached

LEMMA MovedReached ==
  ASSUME NEW s, NEW v, NEW oth, Sound(s, oth), Elsewhere(v, s, oth)
  PROVE  Reached(v, s, oth, 0)
<1>1. Sound(v, oth) /\ ~v.tab.modif /\ v.tran = s.tran
  BY DEF Elsewhere
<1>2. v \in State /\ s \in State
  BY <1>1 DEF Sound
<1>3. Len(s.tran.pending) \in Nat
  BY <1>2, StateFields
<1>4. Load(v) = Len(s.tran.pending)
  BY <1>1, <1>2, LoadClean
<1> QED
  BY <1>1, <1>3, <1>4 DEF Reached, SameLevels

(* The new record r is in the file.                                         *)
Stored(b, s, oth, r) ==
  /\ Reached(b, s, oth, 1) /\ b.tran.writing = 0 /\ r \in Rec
  /\ r \in Range(b.tab.locks) /\ r \in b.file.recno
  /\ None(b.tran.pending, Todo(b.tran), r) /\ ~b.file.rec[r].del

LEMMA StoredSound ==
  ASSUME NEW s, NEW oth, Sound(s, oth), ~s.tab.modif, s.tran.writing = 0, NEW r, Free(s.file, oth, r),
         NEW k \in Key
  PROVE  Stored(tranSynchronizeRecord([Appended(s, r) EXCEPT !.tab.buf.key = k]), s, oth, r)
<1> DEFINE a == Appended(s, r)
           t1 == [a.tab EXCEPT !.buf.key = k]
           x == Retabbed(a, t1)
           b == tranSynchronizeRecord(x)
<1>1. Added(a, s, oth, r)
  BY AppendedSound
<1>2. [a EXCEPT !.tab.buf.key = k] = x
  BY DEF Retabbed
<1> HIDE DEF a
<1>3. /\ Sound(a, oth) /\ a.tran = s.tran /\ a.tab.pos = r /\ a.tab.buf = Blank /\ a.tab.modif
      /\ a.tab.modifkey /\ a.tab.modifapp /\ a.tab.curkey = NoKey /\ r \in Range(a.tab.locks) /\ r \in Rec
  BY <1>1 DEF Added
<1>4. a \in State /\ s \in State /\ a.tab \in Object /\ Len(s.tran.pending) \in Nat
  BY <1>3, StateFields DEF Sound
<1>5. t1 \in Object /\ Alters(t1, a.tab) /\ ~t1.buf.del
  <2> DEFINE d == [Blank EXCEPT !.key = k]
  <2>1. d \in Record /\ ~d.del
    BY DEF Blank, Record
  <2>2. t1 = [a.tab EXCEPT !.buf = d]
    BY <1>3
  <2> HIDE DEF t1, d
  <2>3. /\ t1 \in Object /\ t1.buf = d /\ t1.pos = a.tab.pos /\ t1.locks = a.tab.locks /\ t1.tranid = a.tab.tranid
        /\ t1.modif = a.tab.modif /\ t1.modifapp = a.tab.modifapp /\ t1.modifkey = a.tab.modifkey
        /\ t1.curkey = a.tab.curkey
    BY <1>4, <2>1, <2>2 DEF Object
  <2> QED
    BY <1>3, <2>1, <2>3 DEF Alters
<1> HIDE DEF t1
<1>6. /\ Sound(x, oth) /\ x.tran = s.tran /\ x.tab = t1 /\ Load(x) <= Len(s.tran.pending) + 1
      /\ x.tab.pos = r /\ r \in Range(x.tab.locks)
  <2>1. /\ Sound(x, oth) /\ x.tran = a.tran /\ x.tab = t1 /\ Load(x) <= Len(a.tran.pending) + 1
        /\ t1.pos \in Range(t1.locks)
    BY <1>3, <1>5, AlterSound
  <2>2. t1.pos = r
    BY <1>3, <1>5 DEF Alters
  <2> QED
    BY <1>3, <2>1, <2>2
<1> HIDE DEF x
<1>7. Synced(b, x, oth)
  BY <1>6, SyncSound
<1> HIDE DEF b
<1>8. /\ Sound(b, oth) /\ SameLevels(b, x) /\ Load(b) <= Load(x) /\ ~b.tab.modif /\ b.tab.locks = x.tab.locks
      /\ DOMAIN b.file.rec = DOMAIN x.file.rec /\ None(b.tran.pending, Todo(b.tran), r)
      /\ b.file.rec[r] = t1.buf
  BY <1>6, <1>7 DEF Synced
<1>9. Reached(b, s, oth, 1)
  <2>1. SameLevels(b, s)
    BY <1>6, <1>8 DEF SameLevels
  <2>2. Load(b) \in Nat /\ Load(x) \in Nat
    BY <1>6, <1>8, LoadNat DEF Sound
  <2>3. Load(b) <= Len(s.tran.pending) + 1
    BY <1>4, <1>6, <1>8, <2>2
  <2> QED
    BY <1>8, <2>1, <2>3 DEF Reached
<1>10. r \in DOMAIN b.file.rec
  BY <1>6, <1>8 DEF Sound, LocksSound
<1>11. r \in b.file.recno
  BY <1>5, <1>8, <1>10 DEF Sound, FileSound
<1>12. b.tran.writing = 0
  BY <1>6, <1>8 DEF SameLevels
<1> QED
  BY <1>2, <1>3, <1>5, <1>6, <1>8, <1>9, <1>11, <1>12 DEF Stored, b, a

LEMMA InsertedSound ==
  ASSUME NEW s, NEW oth, Sound(s, oth), ~s.tab.modif, s.tran.writing = 0, NEW r, Free(s.file, oth, r),
         NEW k \in Key
  PROVE  Reached(Inserted(s, r, k), s, oth, 2)
<1> DEFINE a == Appended(s, r)
           b == tranSynchronizeRecord([a EXCEPT !.tab.buf.key = k])
           c == tabSeek(b, k)
           g == Goto(c, r)
           h == Deleted(g)
           d == NextAfter(h, Entry(k, r))
           y == tranSynchronizeRecord(d)
           v == Goto(y, c.tab.pos)
           w == [c EXCEPT !.tab.tranid = TRUE, !.tab.trandel = @ \cup {r}]
<1>1. Inserted(s, r, k) = IF c.tab.pos # r THEN v ELSE IF s.tran.active THEN w ELSE c
  BY DEF Inserted
<1>2. Stored(b, s, oth, r)
  BY StoredSound
<1> HIDE DEF b
<1>3. /\ Reached(b, s, oth, 1) /\ b.tran.writing = 0 /\ r \in Rec /\ r \in Range(b.tab.locks) /\ r \in b.file.recno
      /\ None(b.tran.pending, Todo(b.tran), r) /\ ~b.file.rec[r].del /\ Sound(b, oth) /\ ~b.tab.modif
      /\ s \in State
  BY <1>2 DEF Stored, Reached, Sound
<1>4. Elsewhere(c, b, oth)
  <2>1. c = NextAfter(b, Entry(k, 0))
    BY <1>3 DEF tabSeek, tabCommit
  <2> HIDE DEF c
  <2> QED
    BY <1>3, <2>1, NextSound
<1> HIDE DEF c
<1>5. Reached(c, s, oth, 1)
  BY <1>3, <1>4, ElsewhereReached
<1>6. /\ Sound(c, oth) /\ ~c.tab.modif /\ c.file = b.file /\ c.tran = b.tran /\ c.tab.locks = b.tab.locks
      /\ c \in State /\ c.tab.pos \in 0..MaxRec
  BY <1>4, StateFields DEF Elsewhere, Sound
<1>7. CASE c.tab.pos # r
  <2>1. /\ Elsewhere(g, c, oth) /\ g.tab.pos = r /\ g.tab.buf = tranLastRecordUpdate(c, r)
    BY <1>3, <1>6, GotoSound, BoundAssumption DEF Rec
  <2> HIDE DEF g
  <2>2. ~g.tab.buf.del
    <3>1. r \in DOMAIN c.file.rec
      BY <1>3, <1>6 DEF Sound, FileSound
    <3>2. Shows(c.file.rec, c.tran.pending, Todo(c.tran), r, tranLastRecordUpdate(c, r))
      BY <1>3, <1>6, <3>1, LastShows
    <3> QED
      BY <1>3, <1>6, <2>1, <3>2 DEF Shows
  <2>3. Sound(g, oth) /\ g.tran.writing = 0 /\ g.tab.pos \in Range(g.tab.locks)
    BY <1>3, <1>6, <2>1 DEF Elsewhere
  <2>4. Reached(h, g, oth, 1)
    BY <2>2, <2>3, DeletedSound
  <2> HIDE DEF h
  <2>5. Reached(g, s, oth, 1)
    BY <1>3, <1>5, <2>1, ElsewhereReached
  <2>6. Reached(h, s, oth, 2)
    <3>1. Reached(h, s, oth, 1 + 1)
      BY <1>3, <2>4, <2>5, ReachedTransitive
    <3> QED
      BY <3>1
  <2>7. Sound(h, oth) /\ ~h.tab.modif /\ h.tran.writing = 0
    BY <2>3, <2>4 DEF Reached, SameLevels
  <2>8. Elsewhere(d, h, oth)
    BY <2>7, NextSound
  <2> HIDE DEF d
  <2>9. Reached(d, s, oth, 2) /\ Sound(d, oth) /\ d.tran.writing = 0 /\ ~d.tab.modif
    <3>1. Reached(d, s, oth, 2)
      BY <1>3, <2>6, <2>8, ElsewhereReached
    <3> QED
      BY <2>7, <2>8, <3>1 DEF Elsewhere
  <2>10. Synced(y, d, oth)
    BY <2>9, SyncSound
  <2> HIDE DEF y
  <2>11. Reached(y, s, oth, 2) /\ y.tran.writing = 0
    <3>1. Sound(y, oth) /\ SameLevels(y, d) /\ Load(y) <= Load(d) /\ ~y.tab.modif
      BY <2>10 DEF Synced
    <3>2. SameLevels(d, s) /\ Load(d) <= Len(s.tran.pending) + 2
      BY <2>9 DEF Reached
    <3>3. y \in State /\ d \in State
      BY <2>9, <3>1 DEF Sound
    <3>4. SameLevels(y, s)
      BY <1>3, <3>1, <3>2, <3>3, LevelsTransitive
    <3>5. Load(y) \in Nat /\ Load(d) \in Nat /\ Len(s.tran.pending) \in Nat
      BY <1>3, <3>3, LoadNat, StateFields
    <3>6. Load(y) <= Len(s.tran.pending) + 2
      BY <3>1, <3>2, <3>5
    <3>7. y.tran.writing = 0
      BY <2>9, <3>1 DEF SameLevels
    <3> QED
      BY <3>1, <3>4, <3>6, <3>7 DEF Reached
  <2>12. Elsewhere(v, y, oth)
    BY <1>6, <2>11, GotoSound DEF Reached
  <2> HIDE DEF v
  <2>13. Reached(v, s, oth, 2)
    BY <1>3, <2>11, <2>12, ElsewhereReached
  <2> QED
    BY <1>1, <1>7, <2>13
<1>8. CASE c.tab.pos = r
  <2>1. Sound(w, oth) /\ w.file = c.file /\ w.tran = c.tran /\ w.tab.modif = c.tab.modif
    BY <1>3, <1>6, WithInsertSound
  <2> HIDE DEF w
  <2>2. Load(w) = Load(c)
    BY <2>1 DEF Load
  <2>3. Load(c) \in Nat /\ Len(s.tran.pending) \in Nat
    BY <1>3, <1>6, LoadNat, StateFields
  <2>4. SameLevels(c, s) /\ Load(c) <= Len(s.tran.pending) + 2
    BY <1>5, <2>3 DEF Reached
  <2>5. SameLevels(w, s)
    BY <2>1, <2>4 DEF SameLevels
  <2>6. Reached(c, s, oth, 2) /\ Reached(w, s, oth, 2)
    BY <1>6, <2>1, <2>2, <2>4, <2>5 DEF Reached
  <2> QED
    BY <1>1, <1>8, <2>6
<1> QED
  BY <1>7, <1>8

(* The record tabAppend takes.                                              *)
LEMMA FreeRecSound ==
  ASSUME NEW s, NEW oth, Sound(s, oth), oth = others, FreeRec(s) \in Rec
  PROVE  Free(s.file, oth, FreeRec(s))
<1> DEFINE d == s.file.deleted \ others
<1>1. CASE d = {}
  <2>1. FreeRec(s) = Len(s.file.rec) + 1
    BY <1>1 DEF FreeRec
  <2> QED
    BY <2>1 DEF Free, Rec
<1>2. CASE d # {}
  <2>1. FreeRec(s) = Min(d)
    BY <1>2 DEF FreeRec
  <2>2. d \in SUBSET Nat
    BY BoundAssumption, StateFields DEF Sound, State, File, Rec
  <2>3. Min(d) \in d
    BY <1>2, <2>2, MinOf
  <2> QED
    BY <2>1, <2>3 DEF Free
<1> QED
  BY <1>1, <1>2

-----------------------------------------------------------------------------
(* Levels.                                                                  *)

Of(f, t, p) == [file |-> f, tab |-> t, tran |-> p]

LEMMA OfIs ==
  ASSUME NEW s \in State
  PROVE  /\ s = Of(s.file, s.tab, s.tran)
         /\ \A p : [s EXCEPT !.tran = p] = Of(s.file, s.tab, p)
         /\ \A f, t, p : Of(f, t, p).file = f /\ Of(f, t, p).tab = t /\ Of(f, t, p).tran = p
BY DEF State, Of

LEMMA OfSound ==
  ASSUME NEW s, NEW oth, Sound(s, oth), NEW t \in Object, t.locks = s.tab.locks, NEW p \in Levels,
         UpdatesSound(s.file, p, t.locks), TabSound(s.file, t, p), IdSound(p, t.tranid)
  PROVE  Sound(Of(s.file, t, p), oth)
<1>1. s \in State /\ FileSound(s.file) /\ LocksSound(s.file, s.tab.locks, oth)
  BY DEF Sound
<1> DEFINE v == Of(s.file, t, p)
<1>2. v \in State /\ v.file = s.file /\ v.tab = t /\ v.tran = p
  BY <1>1, OfIs DEF State, Of
<1> HIDE DEF v
<1> QED
  BY <1>1, <1>2 DEF Sound, v

(* The levels change, what is to be written does not.                       *)
LEMMA RelevelSound ==
  ASSUME NEW s, NEW oth, Sound(s, oth), ~s.tab.modif, NEW p \in Levels, p.pending = s.tran.pending,
         Todo(p) = Todo(s.tran), p.save = -1, s.tran.save = -1, p.pending # <<>> => p.active
  PROVE  Sound([s EXCEPT !.tran = p], oth) /\ [s EXCEPT !.tran = p] = Of(s.file, s.tab, p)
<1>1. /\ s \in State /\ UpdatesSound(s.file, s.tran, s.tab.locks) /\ TabSound(s.file, s.tab, s.tran)
      /\ IdSound(s.tran, s.tab.tranid) /\ s.tab \in Object
  BY StateFields DEF Sound
<1>2. UpdatesSound(s.file, p, s.tab.locks)
  BY <1>1 DEF UpdatesSound
<1>3. TabSound(s.file, s.tab, p)
  BY <1>1 DEF TabSound
<1>4. IdSound(p, s.tab.tranid)
  BY <1>1 DEF IdSound
<1>5. Sound(Of(s.file, s.tab, p), oth)
  BY <1>1, <1>2, <1>3, <1>4, OfSound
<1> QED
  BY <1>1, <1>5, OfIs

(* The object stands on r, the levels are those of p.                       *)
LEMMA PlacedSound ==
  ASSUME NEW s, NEW oth, Sound(s, oth), ~s.tab.modif, NEW p \in Levels,
         UpdatesSound(s.file, p, s.tab.locks), IdSound(p, s.tab.tranid), NEW r, NEW b \in Record,
         r = 0 \/ (r \in DOMAIN s.file.rec /\ Shows(s.file.rec, p.pending, Todo(p), r, b))
  PROVE  Sound(Of(s.file, On(s.tab, r, b), p), oth)
<1> DEFINE t == On(s.tab, r, b)
<1>1. /\ s \in State /\ FileSound(s.file) /\ LocksSound(s.file, s.tab.locks, oth) /\ s.tab \in Object
      /\ TabSound(s.file, s.tab, s.tran) /\ s.file.rec \in Seq(Record) /\ Len(s.file.rec) <= MaxRec
  BY StateFields DEF Sound, FileSound
<1>2. r \in 0..MaxRec
  BY <1>1, BoundAssumption
<1>3. /\ t \in Object /\ t.pos = r /\ t.buf = b /\ t.modif = s.tab.modif /\ t.modifkey = s.tab.modifkey
      /\ t.modifapp = s.tab.modifapp /\ t.curkey = s.tab.curkey /\ t.locks = s.tab.locks
      /\ t.tranid = s.tab.tranid
  BY <1>1, <1>2, OnIs
<1> HIDE DEF t
<1>4. r \in Range(t.locks) => r # 0
  <2>1. 0 \notin DOMAIN s.file.rec
    BY <1>1
  <2> QED
    BY <1>1, <1>3, <2>1 DEF LocksSound
<1>5. TabSound(s.file, t, p)
  BY <1>1, <1>3, <1>4 DEF TabSound
<1> QED
  BY <1>3, <1>5, OfSound DEF t

(* The next record after one is deleted.                                    *)
LEMMA AnyPlace ==
  ASSUME NEW s, NEW oth, Sound(s, oth), ~s.tab.modif, s.tran.writing = 0,
         NEW n \in {GoEOF(s)} \cup {SetPos(s, e[2]) : e \in s.file.index}
  PROVE  Elsewhere(n, s, oth)
<1>1. CASE n = GoEOF(s)
  BY <1>1, EOFSound
<1>2. CASE n \in {SetPos(s, e[2]) : e \in s.file.index}
  <2>1. PICK e \in s.file.index : n = SetPos(s, e[2])
    BY <1>2
  <2>2. e[2] \in DOMAIN s.file.rec
    BY BoundAssumption DEF Sound, FileSound, File, Entries, Entry, Rec
  <2> QED
    BY <2>1, <2>2, SetPosSound
<1> QED
  BY <1>1, <1>2

(* All locks are given back, outside transactions.                          *)
LEMMA UnlockAllSound ==
  ASSUME NEW s, NEW oth, Sound(s, oth), ~s.tab.modif, ~s.tran.active
  PROVE  Dropped([s EXCEPT !.tab.locks = <<>>], s, oth)
<1> DEFINE l == <<>>
<1>1. [s EXCEPT !.tab.locks = l] = Retabbed(s, WithLocks(s.tab, l))
  BY DEF Retabbed, WithLocks
<1>2. l \in Seq(Rec) /\ Range(l) = {}
  BY DEF Range
<1> HIDE DEF l
<1>3. Todo(s.tran) = {}
  BY NoUpdates
<1>4. Range(l) \subseteq Range(s.tab.locks) /\ \A n \in Todo(s.tran) : s.tran.pending[n].pos \in Range(l)
  BY <1>2, <1>3
<1>5. Dropped(Retabbed(s, WithLocks(s.tab, l)), s, oth)
  BY <1>2, <1>4, DroppedSound
<1> QED
  BY <1>1, <1>5 DEF l

-----------------------------------------------------------------------------
(* The end of a transaction.                                                *)

Cleared(t, l) == [t EXCEPT !.locks = l, !.tranid = FALSE, !.tranlock = 0, !.trandel = {}]

LEMMA ClearedIs ==
  ASSUME NEW t \in Object, NEW l \in Seq(Rec)
  PROVE  LET v == Cleared(t, l)
         IN /\ v \in Object /\ v.pos = t.pos /\ v.buf = t.buf /\ v.modif = t.modif
            /\ v.modifkey = t.modifkey /\ v.modifapp = t.modifapp /\ v.curkey = t.curkey
            /\ v.locks = l /\ ~v.tranid
<1>1. {} \in SUBSET Rec /\ 0 \in Nat
  OBVIOUS
<1> QED
  BY <1>1 DEF Object, Cleared

(* The file with the records gone deleted.                                  *)
Purged(f, gone) ==
  [f EXCEPT !.rec = [r \in DOMAIN @ |-> IF r \in gone THEN [@[r] EXCEPT !.del = TRUE] ELSE @[r]],
            !.recno = @ \ gone, !.deleted = @ \cup gone,
            !.index = {e \in @ : e[2] \notin gone}]

LEMMA PurgedSound ==
  ASSUME NEW f, FileSound(f), NEW gone, gone \subseteq f.recno
  PROVE  LET g == Purged(f, gone)
         IN /\ FileSound(g) /\ DOMAIN g.rec = DOMAIN f.rec
            /\ \A r \in DOMAIN f.rec : r \notin gone => g.rec[r] = f.rec[r]
            /\ gone = {} => g = f
<1> DEFINE rec == [r \in DOMAIN f.rec |-> IF r \in gone THEN [f.rec[r] EXCEPT !.del = TRUE] ELSE f.rec[r]]
           g == Purged(f, gone)
           ix == {e \in f.index : e[2] \notin gone}
<1>1. /\ f \in File /\ f.rec \in Seq(Record) /\ Len(f.rec) \in Nat /\ DOMAIN f.rec = 1..Len(f.rec)
      /\ f.recno \subseteq Rec /\ f.deleted \subseteq Rec
      /\ f.index \in SUBSET (Nat \X Rec) /\ gone \subseteq DOMAIN f.rec
  BY DEF FileSound, File
<1>2. /\ rec \in Seq(Record) /\ DOMAIN rec = DOMAIN f.rec /\ Len(rec) = Len(f.rec)
      /\ \A r \in DOMAIN f.rec : rec[r] = IF r \in gone THEN [f.rec[r] EXCEPT !.del = TRUE] ELSE f.rec[r]
  <2>1. \A r \in DOMAIN f.rec : (IF r \in gone THEN [f.rec[r] EXCEPT !.del = TRUE] ELSE f.rec[r]) \in Record
    <3>1. \A b \in Record : [b EXCEPT !.del = TRUE] \in Record
      BY DEF Record
    <3> QED
      BY <1>1, <3>1
  <2>2. rec \in [1..Len(f.rec) -> Record]
    BY <1>1, <2>1
  <2>3. rec \in Seq(Record)
    BY <1>1, <2>2, SeqDef
  <2> HIDE DEF rec
  <2>4. Len(rec) = Len(f.rec)
    BY <1>1, <2>2, <2>3
  <2> QED
    BY <2>3, <2>4 DEF rec
<1>3. g = [f EXCEPT !.rec = rec, !.recno = @ \ gone, !.deleted = @ \cup gone, !.index = ix]
  BY DEF Purged
<1> HIDE DEF rec, ix, g
<1>4. /\ g \in File /\ g.rec = rec /\ g.recno = f.recno \ gone /\ g.deleted = f.deleted \cup gone
      /\ g.index = ix
  <2>1. ix \in SUBSET (Nat \X Rec) /\ f.recno \ gone \in SUBSET Rec /\ f.deleted \cup gone \in SUBSET Rec
    BY <1>1 DEF ix, FileSound
  <2> QED
    BY <1>1, <1>2, <1>3, <2>1 DEF File
<1>5. \A r \in DOMAIN f.rec : /\ r \notin gone => rec[r] = f.rec[r]
                              /\ r \in gone => rec[r].del
  <2> SUFFICES ASSUME NEW r \in DOMAIN f.rec
               PROVE  (r \notin gone => rec[r] = f.rec[r]) /\ (r \in gone => rec[r].del)
    OBVIOUS
  <2> DEFINE b == f.rec[r]
  <2>1. b \in Record
    BY <1>1
  <2>2. rec[r] = IF r \in gone THEN [b EXCEPT !.del = TRUE] ELSE b
    BY <1>2
  <2> HIDE DEF b
  <2>3. [b EXCEPT !.del = TRUE].del
    BY <2>1 DEF Record
  <2> QED
    BY <2>2, <2>3 DEF b
<1>6. g.index = Entries(g.rec, g.recno)
  <2>1. f.index = Entries(f.rec, f.recno)
    BY DEF FileSound
  <2>2. \A r \in f.recno \ gone : rec[r] = f.rec[r]
    BY <1>5 DEF FileSound
  <2>3. \A e \in ix : e \in Entries(rec, f.recno \ gone)
    <3> SUFFICES ASSUME NEW e \in ix PROVE e \in Entries(rec, f.recno \ gone)
      OBVIOUS
    <3>1. PICK r \in f.recno : e = Entry(f.rec[r].key, r)
      BY <2>1 DEF ix, Entries
    <3>2. r \notin gone
      BY <3>1 DEF ix, Entry
    <3> QED
      BY <2>2, <3>1, <3>2 DEF Entries
  <2>4. \A e \in Entries(rec, f.recno \ gone) : e \in ix
    <3> SUFFICES ASSUME NEW e \in Entries(rec, f.recno \ gone) PROVE e \in ix
      OBVIOUS
    <3>1. PICK r \in f.recno \ gone : e = Entry(rec[r].key, r)
      BY DEF Entries
    <3>2. e = Entry(f.rec[r].key, r) /\ e[2] = r
      BY <2>2, <3>1 DEF Entry
    <3>3. e \in f.index
      BY <2>1, <3>2 DEF Entries
    <3> QED
      BY <3>2, <3>3 DEF ix
  <2> QED
    BY <1>4, <2>3, <2>4
<1>7. FileSound(g)
  <2>1. Len(g.rec) <= MaxRec
    BY <1>2, <1>4 DEF FileSound
  <2>2. g.recno \cup g.deleted \subseteq DOMAIN g.rec
    BY <1>1, <1>2, <1>4 DEF FileSound
  <2>3. \A r \in DOMAIN g.rec : r \in g.recno <=> ~g.rec[r].del
    BY <1>2, <1>4, <1>5 DEF FileSound
  <2>4. g.deleted \cap g.recno = {}
    BY <1>4 DEF FileSound
  <2> QED
    BY <1>4, <1>6, <2>1, <2>2, <2>3, <2>4 DEF FileSound
<1>8. gone = {} => g = f
  <2> SUFFICES ASSUME gone = {} PROVE g = f
    OBVIOUS
  <2>1. rec = f.rec
    <3>1. \A r \in DOMAIN f.rec : rec[r] = f.rec[r]
      BY <1>5
    <3> QED
      BY <1>1, <1>2, <3>1
  <2>2. ix = f.index
    BY DEF ix
  <2> QED
    BY <1>1, <1>4, <2>1, <2>2 DEF File
<1> QED
  BY <1>2, <1>4, <1>5, <1>7, <1>8 DEF g

(* The locks that tranClearTransactionID leaves.                            *)
Remaining(t, gone) ==
  LET kept == Without(t.locks, gone) IN
  IF t.tranlock = 0 THEN kept ELSE SubSeq(kept, 1, Min({t.tranlock - 1, Len(kept)}))

LEMMA LocksLeft ==
  ASSUME NEW t \in Object, NEW gone
  PROVE  Remaining(t, gone) \in Seq(Rec) /\ Range(Remaining(t, gone)) \subseteq Range(t.locks) \ gone
<1> DEFINE kept == Without(t.locks, gone)
           S == {t.tranlock - 1, Len(kept)}
<1>1. t.locks \in Seq(Rec) /\ t.tranlock \in Nat
  BY DEF Object
<1>2. kept \in Seq(Rec) /\ Range(kept) \subseteq Range(t.locks) \ gone
  BY <1>1, WithoutIs
<1> HIDE DEF kept
<1>3. CASE t.tranlock = 0
  <2>1. Remaining(t, gone) = kept
    BY <1>3 DEF Remaining, kept
  <2> QED
    BY <1>2, <2>1
<1>4. CASE t.tranlock # 0
  <2>1. Len(kept) \in Nat
    BY <1>2
  <2>2. S \in SUBSET Nat /\ S # {}
    BY <1>1, <1>4, <2>1
  <2>3. Min(S) \in S /\ \A m \in S : Min(S) <= m
    <3> HIDE DEF S
    <3> QED
      BY <2>2, MinOf
  <2>4. Min(S) \in Int /\ Min(S) <= Len(kept)
    BY <2>2, <2>3
  <2> HIDE DEF S
  <2>5. SubSeq(kept, 1, Min(S)) \in Seq(Rec) /\ Range(SubSeq(kept, 1, Min(S))) \subseteq Range(kept)
    BY <1>2, <2>4, SubSeqRange
  <2>6. Remaining(t, gone) = SubSeq(kept, 1, Min(S))
    BY <1>4 DEF Remaining, kept, S
  <2> QED
    BY <1>2, <2>5, <2>6
<1> QED
  BY <1>3, <1>4

(* c is z with the marks of the transaction taken away.                     *)
Ended(c, z, oth, rb) ==
  /\ Sound(c, oth) /\ ~c.tab.modif /\ c.tran.active = z.tran.active /\ c.tran.begins = z.tran.begins
  /\ c.tran.pending = z.tran.pending /\ c.tran.writing = z.tran.writing /\ c.tran.save = z.tran.save
  /\ ~rb => c.file = z.file /\ c.tran = z.tran

LEMMA ClearSound ==
  ASSUME NEW z, NEW oth, Sound(z, oth), ~z.tab.modif, z.tran.pending = <<>>, z.tran.save = -1,
         NEW rb \in BOOLEAN
  PROVE  Ended(tranClearTransactionID(z, rb), z, oth, rb)
<1> DEFINE gone == IF rb THEN z.tab.trandel \cap z.file.recno ELSE {}
           l == Remaining(z.tab, gone)
           f == z.file
           g == Purged(f, gone)
           t == Cleared(z.tab, l)
           p == z.tran
           c == tranClearTransactionID(z, rb)
<1>1. /\ z \in State /\ FileSound(f) /\ LocksSound(f, z.tab.locks, oth)
      /\ TabSound(f, z.tab, p) /\ IdSound(p, z.tab.tranid) /\ z.tab \in Object /\ p \in Levels /\ f \in File
  BY StateFields DEF Sound
<1>2. gone \subseteq f.recno
  OBVIOUS
<1>3. l \in Seq(Rec) /\ Range(l) \subseteq Range(z.tab.locks) \ gone
  BY <1>1, LocksLeft
<1>4. Todo(p) = {}
  <2>1. DOMAIN p.pending = {}
    OBVIOUS
  <2> QED
    BY <2>1 DEF Todo
<1>5. CASE ~(gone \subseteq Range(z.tab.locks))
  <2> DEFINE p2 == [p EXCEPT !.failed = TRUE]
  <2>1. c = [z EXCEPT !.tran = p2]
    BY <1>5 DEF tranClearTransactionID
  <2>2. /\ p2 \in Levels /\ p2.active = p.active /\ p2.begins = p.begins /\ p2.pending = p.pending
        /\ p2.writing = p.writing /\ p2.save = p.save
    BY <1>1 DEF Levels
  <2> HIDE DEF p2, c, gone
  <2>3. Todo(p2) = Todo(p)
    BY <2>2 DEF Todo
  <2>4. /\ Sound([z EXCEPT !.tran = p2], oth) /\ [z EXCEPT !.tran = p2] = Of(z.file, z.tab, p2)
    BY <2>2, <2>3, RelevelSound
  <2>5. c.tab = z.tab /\ c.tran = p2 /\ Sound(c, oth)
    BY <1>1, <2>1, <2>4, OfIs
  <2>6. rb
    BY <1>5 DEF gone
  <2> QED
    BY <2>2, <2>5, <2>6 DEF Ended, c
<1>6. CASE gone \subseteq Range(z.tab.locks)
  <2>1. c = [z EXCEPT !.file = g, !.tab = t]
    BY <1>6 DEF tranClearTransactionID, Purged, Cleared, Remaining
  <2> HIDE DEF gone
  <2>2. /\ FileSound(g) /\ DOMAIN g.rec = DOMAIN f.rec
        /\ \A r \in DOMAIN f.rec : r \notin gone => g.rec[r] = f.rec[r]
        /\ gone = {} => g = f
    BY <1>1, <1>2, PurgedSound
  <2> HIDE DEF l, c
  <2>3. /\ t \in Object /\ t.pos = z.tab.pos /\ t.buf = z.tab.buf /\ t.modif = z.tab.modif
        /\ t.modifkey = z.tab.modifkey /\ t.modifapp = z.tab.modifapp /\ t.curkey = z.tab.curkey
        /\ t.locks = l /\ ~t.tranid
    BY <1>1, <1>3, ClearedIs
  <2> HIDE DEF g, t
  <2>4. c \in State /\ c.file = g /\ c.tab = t /\ c.tran = p
    <3>1. g \in File
      BY <2>2 DEF FileSound
    <3> QED
      BY <1>1, <2>1, <2>3, <3>1 DEF State
  <2>5. UpdatesSound(g, p, t.locks)
    BY <1>4 DEF UpdatesSound, Chain
  <2>6. LocksSound(g, t.locks, oth)
    BY <1>1, <1>3, <2>2, <2>3 DEF LocksSound
  <2>7. t.pos \in Range(t.locks) => Shows(g.rec, p.pending, Todo(p), t.pos, t.buf)
    <3> SUFFICES ASSUME t.pos \in Range(t.locks) PROVE Shows(g.rec, p.pending, Todo(p), t.pos, t.buf)
      OBVIOUS
    <3>1. t.pos \in Range(z.tab.locks) /\ t.pos \notin gone
      BY <1>3, <2>3
    <3>2. t.pos \in DOMAIN f.rec
      BY <1>1, <3>1 DEF LocksSound
    <3>3. Shows(f.rec, p.pending, Todo(p), t.pos, t.buf)
      BY <1>1, <2>3, <3>1 DEF TabSound
    <3>4. g.rec[t.pos] = f.rec[t.pos]
      BY <2>2, <3>1, <3>2
    <3> QED
      BY <1>4, <3>3, <3>4 DEF Shows, None
  <2>8. TabSound(g, t, p)
    BY <1>1, <2>2, <2>3, <2>7 DEF TabSound
  <2>9. IdSound(p, t.tranid)
    BY <1>1, <2>3 DEF IdSound
  <2>10. Sound(c, oth)
    BY <2>2, <2>4, <2>5, <2>6, <2>8, <2>9 DEF Sound
  <2>11. ~rb => gone = {}
    BY DEF gone
  <2> QED
    BY <2>2, <2>3, <2>4, <2>10, <2>11 DEF Ended, c, f, p
<1> QED
  BY <1>5, <1>6

-----------------------------------------------------------------------------
(* Rolling back.                                                            *)

LEMMA PlacedIs ==
  ASSUME NEW s \in State, NEW r, NEW b
  PROVE  Placed(s, r, b) = Of(s.file, On(s.tab, r, b), s.tran)
<1> DEFINE t == On(s.tab, r, b)
<1>1. Placed(s, r, b) = [s EXCEPT !.tab = t]
  BY DEF Placed, On
<1> HIDE DEF t
<1>2. [s EXCEPT !.tab = t] = Of(s.file, t, s.tran)
  BY DEF State, Of
<1> QED
  BY <1>1, <1>2 DEF t

(* Where the object goes does not depend on where it is.                    *)
LEMMA GotoSame ==
  ASSUME NEW x \in State, NEW r
  PROVE  Goto(Placed(x, 0, Blank), r) = Goto(x, r)
<1> DEFINE y == Placed(x, 0, Blank)
           b == tranLastRecordUpdate(x, r)
<1>1. x.tab \in Object /\ Blank \in Record /\ 0 \in 0..MaxRec
  BY StateFields, BoundAssumption DEF Blank, Record
<1>2. y = Of(x.file, On(x.tab, 0, Blank), x.tran)
  BY PlacedIs
<1>3. /\ On(x.tab, 0, Blank) \in Object /\ On(x.tab, 0, Blank).tranid = x.tab.tranid
      /\ \A r2, b2 : On(On(x.tab, 0, Blank), r2, b2) = On(x.tab, r2, b2)
  BY <1>1, OnIs
<1>4. /\ y \in State /\ y.file = x.file /\ y.tran = x.tran /\ y.tab.tranid = x.tab.tranid
      /\ \A r2, b2 : On(y.tab, r2, b2) = On(x.tab, r2, b2)
  BY <1>2, <1>3, OfIs DEF State, Of
<1> HIDE DEF y
<1>5. \A r2, b2 : Placed(y, r2, b2) = Placed(x, r2, b2)
  BY <1>4, PlacedIs
<1>6. UpdatesOf(y, r) = UpdatesOf(x, r)
  BY <1>4 DEF UpdatesOf
<1>7. tranLastRecordUpdate(y, r) = b
  BY <1>4, <1>6 DEF tranLastRecordUpdate
<1>8. SetPos(y, r) = Placed(y, r, b) /\ SetPos(x, r) = Placed(x, r, b)
  BY <1>7 DEF SetPos, Placed
<1>9. GoEOF(y) = Placed(y, 0, Blank) /\ GoEOF(x) = Placed(x, 0, Blank)
  BY DEF GoEOF, Placed
<1> HIDE DEF b
<1>10. Goto(y, r) = Goto(x, r)
  BY <1>4, <1>5, <1>6, <1>8, <1>9 DEF Goto
<1> QED
  BY <1>10 DEF y

Cut(p, m, j) == [p EXCEPT !.pending = SubSeq(@, 1, m), !.begins = SubSeq(@, 1, j)]

(* What Cut leaves.                                                         *)
Short(c, p, m, j) ==
  /\ c \in Levels /\ c.active = p.active /\ c.writing = p.writing /\ c.save = p.save
  /\ c.failed = p.failed /\ Len(c.pending) = m /\ Len(c.begins) = j
  /\ DOMAIN c.pending = 1..m /\ DOMAIN c.begins = 1..j
  /\ \A i \in 1..m : c.pending[i] = p.pending[i]
  /\ \A i \in 1..j : c.begins[i] = p.begins[i]
  /\ Todo(c) = Todo(p) \cap 1..m

LEMMA CutIs ==
  ASSUME NEW p \in Levels, NEW m \in 0..Len(p.pending), NEW j \in 0..Len(p.begins), p.writing = 0
  PROVE  Short(Cut(p, m, j), p, m, j)
<1> DEFINE q == SubSeq(p.pending, 1, m)
           b == SubSeq(p.begins, 1, j)
           c == Cut(p, m, j)
<1>1. p.pending \in Seq(Update) /\ p.begins \in Seq(Nat) /\ m \in Nat /\ j \in Nat
  BY DEF Levels
<1>2. /\ q \in Seq(Update) /\ Len(q) = m /\ DOMAIN q = 1..m
      /\ \A i \in 1..m : q[i] = p.pending[i] /\ i \in DOMAIN p.pending
  BY <1>1
<1>3. /\ b \in Seq(Nat) /\ Len(b) = j /\ DOMAIN b = 1..j
      /\ \A i \in 1..j : b[i] = p.begins[i]
  BY <1>1
<1>4. c = [p EXCEPT !.pending = q, !.begins = b]
  BY DEF Cut
<1> HIDE DEF q, b, c
<1>5. /\ c \in Levels /\ c.active = p.active /\ c.writing = p.writing /\ c.save = p.save
      /\ c.failed = p.failed /\ c.pending = q /\ c.begins = b
  BY <1>2, <1>3, <1>4 DEF Levels
<1>6. Todo(c) = Todo(p) \cap 1..m
  <2>1. \A i : i \in Todo(c) <=> i \in Todo(p) \cap 1..m
    BY <1>2, <1>5 DEF Todo
  <2> QED
    BY <2>1
<1> QED
  BY <1>2, <1>3, <1>5, <1>6 DEF c, Short

(* f is s without the updates after m.                                      *)
Forgotten(f, s, oth, m, j) ==
  /\ Sound(f, oth) /\ f.file = s.file /\ ~f.tab.modif /\ f.tran = Cut(s.tran, m, j)

LEMMA ForgetSound ==
  ASSUME NEW s, NEW oth, Sound(s, oth), ~s.tab.modif, s.tran.writing = 0, NEW tx \in DOMAIN s.tran.begins,
         s.tran.begins[tx] \in 1..(Len(s.tran.pending) + 1)
  PROVE  Forgotten(Reposition(Forget(s, tx)), s, oth, s.tran.begins[tx] - 1, tx - 1)
<1> DEFINE p == s.tran
           f == s.file
           t == s.tab
           m == p.begins[tx] - 1
           p2 == Cut(p, m, tx - 1)
           x == Forget(s, tx)
           y == Placed(x, 0, Blank)
           v == Reposition(x)
<1>1. /\ s \in State /\ FileSound(f) /\ UpdatesSound(f, p, t.locks) /\ LocksSound(f, t.locks, oth)
      /\ TabSound(f, t, p) /\ IdSound(p, t.tranid)
  BY DEF Sound
<1>2. /\ t \in Object /\ p \in Levels /\ f \in File /\ p.pending \in Seq(Update) /\ Len(p.pending) \in Nat
      /\ p.begins \in Seq(Nat) /\ t.pos \in 0..MaxRec /\ p.save = -1 /\ DOMAIN p.pending = 1..Len(p.pending)
  BY <1>1, StateFields DEF Levels, IdSound
<1>3. m \in 0..Len(p.pending) /\ tx - 1 \in 0..Len(p.begins) /\ m \in Nat
  <2>1. DOMAIN p.begins = 1..Len(p.begins) /\ Len(p.begins) \in Nat
    BY <1>2
  <2> DEFINE e == p.begins[tx]
             L == Len(p.pending)
             K == Len(p.begins)
  <2>2. e \in 1..(L + 1) /\ L \in Nat /\ tx \in 1..K /\ K \in Nat
    BY <1>2, <2>1
  <2>3. m = e - 1
    OBVIOUS
  <2> HIDE DEF e, L, K, m
  <2>4. m \in 0..L /\ tx - 1 \in 0..K /\ m \in Nat
    BY <2>2, <2>3
  <2> QED
    BY <2>4 DEF L, K
<1>4. x = Of(f, t, p2)
  <2>1. x = [s EXCEPT !.tran = p2]
    BY DEF Forget, Cut
  <2> HIDE DEF x, p2
  <2> QED
    BY <1>1, <2>1, OfIs
<1>5. /\ p2 \in Levels /\ p2.active = p.active /\ p2.writing = p.writing /\ p2.save = p.save
      /\ Len(p2.pending) = m /\ \A i \in 1..m : p2.pending[i] = p.pending[i]
      /\ Todo(p2) = Todo(p) \cap 1..m
  <2>1. Short(p2, p, m, tx - 1)
    BY <1>2, <1>3, CutIs
  <2> HIDE DEF p2, m
  <2> QED
    BY <2>1 DEF Short
<1> HIDE DEF p2, x, m
<1>6. x \in State /\ x.file = f /\ x.tab = t /\ x.tran = p2
  BY <1>1, <1>2, <1>4, <1>5 DEF State, Of
<1>7. Todo(p) \subseteq Nat \ {0}
  BY <1>2 DEF Todo
<1>8. UpdatesSound(f, p2, t.locks)
  <2>1. Chain(f.rec, f.recno, p.pending, Todo(p))
    BY <1>1 DEF UpdatesSound
  <2>2. \A n \in Todo(p) : n <= m => p2.pending[n] = p.pending[n]
    BY <1>3, <1>5, <1>7
  <2>3. Chain(f.rec, f.recno, p2.pending, Todo(p) \cap 1..m)
    BY <1>3, <1>7, <2>1, <2>2, ChainPrefix
  <2>4. \A n \in Todo(p2) : p2.pending[n].pos \in Range(t.locks) \ f.deleted
    BY <1>1, <1>5 DEF UpdatesSound
  <2> QED
    BY <1>5, <2>3, <2>4 DEF UpdatesSound
<1>9. p2.pending # <<>> => p.pending # <<>>
  <2>1. p.pending = <<>> => m = 0
    BY <1>2, <1>3
  <2>2. m = 0 => p2.pending = <<>>
    BY <1>5 DEF Levels
  <2> QED
    BY <2>1, <2>2
<1>10. IdSound(p2, t.tranid)
  BY <1>1, <1>2, <1>5, <1>9 DEF IdSound
<1>11. Sound(y, oth) /\ y.file = f /\ y.tran = p2 /\ y.tab.tranid = t.tranid /\ ~y.tab.modif
  <2>1. Blank \in Record
    BY DEF Blank, Record
  <2>2. Sound(Of(f, On(t, 0, Blank), p2), oth)
    BY <1>5, <1>8, <1>10, <2>1, PlacedSound
  <2>3. y = Of(f, On(t, 0, Blank), p2)
    BY <1>6, PlacedIs
  <2>4. On(t, 0, Blank).tranid = t.tranid /\ On(t, 0, Blank).modif = t.modif
    BY <1>2, OnIs
  <2> QED
    BY <1>1, <2>2, <2>3, <2>4, OfIs
<1>12. CASE ~t.tranid
  <2>1. v = x
    BY <1>6, <1>12 DEF Reposition
  <2>2. p.pending = <<>>
    BY <1>1, <1>2, <1>12 DEF IdSound
  <2>3. Todo(p) = {} /\ p2.pending = <<>> /\ Todo(p2) = {}
    <3>1. DOMAIN p.pending = {}
      BY <2>2
    <3> QED
      BY <1>5, <1>9, <2>2, <3>1 DEF Todo
  <2>4. TabSound(f, t, p2)
    BY <1>1, <1>2, <1>5, <2>2, <2>3 DEF TabSound
  <2>5. Sound(Of(f, t, p2), oth)
    BY <1>2, <1>5, <1>8, <1>10, <2>4, OfSound
  <2> QED
    BY <1>1, <1>4, <1>6, <2>1, <2>5, CleanFlags DEF Forgotten, p2, m, x
<1>13. CASE t.tranid
  <2> DEFINE g == Goto(x, t.pos)
  <2>1. g = Goto(y, t.pos)
    BY <1>6, GotoSame
  <2>2. Elsewhere(g, y, oth)
    BY <1>2, <1>5, <1>11, <2>1, GotoSound
  <2>3. v = IF g.tab.buf.del THEN GoEOF(g) ELSE g
    BY <1>6, <1>13 DEF Reposition
  <2> HIDE DEF g, y, v
  <2>4. Sound(g, oth) /\ ~g.tab.modif /\ g.file = f /\ g.tran = p2
    BY <1>11, <2>2 DEF Elsewhere
  <2>5. Elsewhere(GoEOF(g), g, oth)
    BY <2>4, EOFSound
  <2>6. Forgotten(g, s, oth, m, tx - 1)
    BY <2>4 DEF Forgotten, p2
  <2>7. Forgotten(GoEOF(g), s, oth, m, tx - 1)
    BY <2>4, <2>5 DEF Forgotten, Elsewhere, p2
  <2> QED
    BY <2>3, <2>6, <2>7 DEF v, m, x
<1> QED
  BY <1>12, <1>13

-----------------------------------------------------------------------------
(* The outermost commit.                                                    *)

Onward(p, n, r) == [p EXCEPT !.writing = n + 1, !.save = r]

(* p2 is p with the writing gone on after n.                                *)
Went(p2, p, n) ==
  /\ p2 \in Levels /\ p2.active = p.active /\ p2.begins = p.begins /\ p2.pending = p.pending
  /\ p2.failed = p.failed /\ p2.writing = n + 1

LEMMA OnwardIs ==
  ASSUME NEW p \in Levels, NEW n \in Nat, NEW r \in -1..MaxRec
  PROVE  Went(Onward(p, n, r), p, n) /\ Onward(p, n, r).save = r
<1>1. n + 1 \in Nat
  OBVIOUS
<1> DEFINE m == n + 1
<1> HIDE DEF m
<1>2. /\ [p EXCEPT !.writing = m, !.save = r] \in Levels
      /\ [p EXCEPT !.writing = m, !.save = r].active = p.active
      /\ [p EXCEPT !.writing = m, !.save = r].begins = p.begins
      /\ [p EXCEPT !.writing = m, !.save = r].pending = p.pending
      /\ [p EXCEPT !.writing = m, !.save = r].failed = p.failed
      /\ [p EXCEPT !.writing = m, !.save = r].writing = m
      /\ [p EXCEPT !.writing = m, !.save = r].save = r
  BY <1>1 DEF Levels, m
<1> QED
  BY <1>2 DEF Went, Onward, m

WithId(t, d) == [t EXCEPT !.tranid = d]

LEMMA WithIdIs ==
  ASSUME NEW t \in Object, NEW d \in BOOLEAN
  PROVE  LET v == WithId(t, d)
         IN /\ v \in Object /\ v.pos = t.pos /\ v.buf = t.buf /\ v.modif = t.modif
            /\ v.modifkey = t.modifkey /\ v.modifapp = t.modifapp /\ v.curkey = t.curkey
            /\ v.locks = t.locks /\ v.tranid = d
BY DEF Object, WithId

(* v is s with the update at n written.                                     *)
WrittenOut(v, s, oth, n) ==
  /\ Sound(v, oth) /\ ~v.tab.modif /\ Went(v.tran, s.tran, n)
  /\ DOMAIN v.file.rec = DOMAIN s.file.rec
  /\ \A r, b : Shows(s.file.rec, s.tran.pending, Todo(s.tran), r, b)
                => Shows(v.file.rec, v.tran.pending, Todo(v.tran), r, b)

LEMMA NextWritten ==
  ASSUME NEW s, NEW oth, Sound(s, oth), s.tran.writing > 0, NEW n \in Todo(s.tran),
         \A j \in Todo(s.tran) : n <= j
  PROVE  WrittenOut([CommitPending(s, n) EXCEPT !.tab.tranid = FALSE, !.tran.writing = n + 1,
                       !.tran.save = IF s.tab.tranid THEN s.tab.pos ELSE @], s, oth, n)
<1> DEFINE f == s.file
           t == s.tab
           p == s.tran
           u == p.pending[n]
           t0 == Carry(t, u)
           g == Written(f, t0)
           t1 == On(t, u.pos, u.buf)
           c == CommitPending(s, n)
           save == IF t.tranid THEN t.pos ELSE p.save
           p2 == Onward(p, n, save)
           t2 == WithId(t1, FALSE)
           v == [c EXCEPT !.tab.tranid = FALSE, !.tran.writing = n + 1,
                          !.tran.save = IF t.tranid THEN t.pos ELSE @]
<1>1. /\ s \in State /\ FileSound(f) /\ UpdatesSound(f, p, t.locks) /\ LocksSound(f, t.locks, oth)
      /\ TabSound(f, t, p) /\ IdSound(p, t.tranid)
  BY DEF Sound
<1>2. /\ f \in File /\ t \in Object /\ p \in Levels /\ p.pending \in Seq(Update) /\ Len(p.pending) \in Nat
      /\ DOMAIN p.pending = 1..Len(p.pending) /\ t.pos \in 0..MaxRec /\ p.writing \in Nat
  BY <1>1, StateFields
<1>3. n \in DOMAIN p.pending /\ n \in Nat /\ p.pending # <<>>
  BY <1>2 DEF Todo
<1>4. ~t.modif /\ ~t.modifkey /\ ~t.modifapp /\ t.curkey = NoKey
  BY <1>1 DEF TabSound
<1>5. /\ u \in Update
      /\ t0.pos = u.pos /\ t0.buf = u.buf /\ t0.modifkey = u.modifkey /\ t0.modifapp = u.modifapp
      /\ t0.curkey = u.curkey
      /\ c = Of(g, t1, p)
  BY <1>1, <1>3, <1>4, CommitPendingIs DEF Of
<1>6. None(p.pending, Below(Todo(p), n), u.pos)
  <2>1. \A j \in Todo(p) : j \in Nat
    BY <1>2 DEF Todo
  <2>2. Below(Todo(p), n) = {}
    BY <1>3, <2>1 DEF Below
  <2> QED
    BY <2>2 DEF None
<1>7. save \in -1..MaxRec /\ save # -1
  <2>1. p.save \in -1..MaxRec
    BY <1>2 DEF Levels
  <2>2. t.pos \in -1..MaxRec /\ t.pos # -1
    BY <1>2
  <2>3. ~t.tranid => p.save # -1
    BY <1>1, <1>3 DEF IdSound
  <2> QED
    BY <2>1, <2>2, <2>3
<1>8. v.file = g /\ v.tab = t2 /\ v.tran = p2
  <2>1. c.file = g /\ c.tab = t1 /\ c.tran = p /\ c \in [file : {g}, tab : {t1}, tran : {p}]
    BY <1>5 DEF Of
  <2> HIDE DEF g, t1, p, c
  <2>2. v.file = c.file /\ v.tab = [c.tab EXCEPT !.tranid = FALSE]
        /\ v.tran = [c.tran EXCEPT !.writing = n + 1, !.save = IF t.tranid THEN t.pos ELSE @]
    BY <2>1
  <2>3. [c.tran EXCEPT !.writing = n + 1, !.save = IF t.tranid THEN t.pos ELSE @] = p2
    BY <2>1 DEF Onward, p
  <2> QED
    BY <2>1, <2>2, <2>3 DEF WithId
<1>9. v \in [file : {g}, tab : {t2}, tran : {p2}]
  <2>1. c \in [file : {g}, tab : {t1}, tran : {p}]
    BY <1>5 DEF Of
  <2> HIDE DEF g, t1, p, c, t2, p2
  <2> DEFINE a == [c.tab EXCEPT !.tranid = FALSE]
             b == [c.tran EXCEPT !.writing = n + 1, !.save = IF t.tranid THEN t.pos ELSE @]
  <2>2. v = [c EXCEPT !.tab = a, !.tran = b]
    BY <2>1
  <2> HIDE DEF v, a, b
  <2>3. v \in [file : {g}, tab : {a}, tran : {b}]
    BY <2>1, <2>2
  <2> QED
    BY <1>8, <2>3
<1>10. u.pos \in 0..MaxRec /\ u.buf \in Record /\ u.pos \in DOMAIN f.rec /\ u.pos \in Range(t.locks)
  <2>1. u.pos \in Range(t.locks) /\ u.pos \in DOMAIN f.rec
    BY <1>1 DEF UpdatesSound, LocksSound
  <2>2. DOMAIN f.rec \subseteq 0..MaxRec
    <3>1. DOMAIN f.rec = 1..Len(f.rec) /\ Len(f.rec) \in Nat /\ Len(f.rec) <= MaxRec
      BY <1>1, StateFields DEF FileSound
    <3> QED
      BY <3>1, BoundAssumption
  <2>3. u.buf \in Record
    BY <1>5 DEF Update
  <2> QED
    BY <2>1, <2>2, <2>3
<1>11. /\ t1 \in Object /\ t1.pos = u.pos /\ t1.modif = t.modif /\ t1.modifkey = t.modifkey
       /\ t1.modifapp = t.modifapp /\ t1.curkey = t.curkey /\ t1.locks = t.locks
  BY <1>2, <1>10, OnIs
<1> HIDE DEF t1
<1>12. /\ t2 \in Object /\ t2.pos = u.pos /\ ~t2.modif /\ ~t2.modifkey
       /\ ~t2.modifapp /\ t2.curkey = NoKey /\ t2.locks = t.locks /\ ~t2.tranid
  BY <1>4, <1>11, WithIdIs
<1> HIDE DEF t2, t0, save
<1>13. Went(p2, p, n) /\ p2.save = save
  BY <1>2, <1>3, <1>7, OnwardIs
<1> HIDE DEF p2
<1>14. /\ p2 \in Levels /\ p2.active = p.active /\ p2.pending = p.pending /\ p2.writing = n + 1
  BY <1>13 DEF Went
<1>15. Less(p2, p, n)
  <2>1. \A j \in Todo(p) : j \in DOMAIN p.pending /\ j \in Nat /\ n <= j /\ j >= p.writing /\ p.pending[j] # Hole
    BY <1>2 DEF Todo
  <2>2. \A j \in DOMAIN p.pending : j \in Nat
    BY <1>2
  <2>3. \A j : j \in Todo(p2) => j \in Todo(p) /\ j # n
    <3> SUFFICES ASSUME NEW j \in Todo(p2) PROVE j \in Todo(p) /\ j # n
      OBVIOUS
    <3>1. j \in DOMAIN p.pending /\ j \in Nat /\ j >= n + 1 /\ p.pending[j] # Hole
      BY <1>14, <2>2 DEF Todo
    <3>2. n >= p.writing
      BY <2>1
    <3>3. j >= p.writing /\ j # n
      BY <1>2, <1>3, <3>1, <3>2
    <3> QED
      BY <3>1, <3>3 DEF Todo
  <2>4. \A j : j \in Todo(p) /\ j # n => j \in Todo(p2)
    <3> SUFFICES ASSUME NEW j \in Todo(p), j # n PROVE j \in Todo(p2)
      OBVIOUS
    <3>1. j >= n + 1
      BY <1>3, <2>1
    <3> QED
      BY <1>14, <2>1, <3>1 DEF Todo
  <2> QED
    BY <1>14, <2>3, <2>4 DEF Less
<1>16. Due(f, p, t.locks, oth, n, t0)
  BY <1>1, <1>2, <1>5, <1>6 DEF Due
<1> HIDE DEF u, f
<1>17. /\ FileSound(g) /\ Takes(g, f, t0) /\ LocksSound(g, t.locks, oth) /\ UpdatesSound(g, p2, t.locks)
       /\ \A r, b : Shows(f.rec, p.pending, Todo(p), r, b) => Shows(g.rec, p2.pending, Todo(p2), r, b)
  BY <1>15, <1>16, UpdateWritten
<1>18. DOMAIN g.rec = DOMAIN f.rec
  BY <1>17 DEF Takes
<1> HIDE DEF g, v, c
<1>19. v \in State
  <2>1. g \in File
    BY <1>17 DEF FileSound
  <2> QED
    BY <1>9, <1>12, <1>14, <2>1 DEF State
<1>20. TabSound(g, t2, p2)
  BY <1>7, <1>10, <1>12, <1>13, <1>18 DEF TabSound
<1>21. IdSound(p2, t2.tranid)
  BY <1>1, <1>3, <1>7, <1>12, <1>13, <1>14 DEF IdSound
<1>22. Sound(v, oth)
  BY <1>8, <1>12, <1>17, <1>19, <1>20, <1>21 DEF Sound
<1> QED
  BY <1>8, <1>12, <1>13, <1>17, <1>18, <1>22 DEF WrittenOut, v, c, f, p

Finished(p) == [p EXCEPT !.active = FALSE, !.pending = <<>>, !.writing = 0, !.save = -1]

LEMMA FinishedIs ==
  ASSUME NEW p \in Levels
  PROVE  LET c == Finished(p)
         IN /\ c \in Levels /\ ~c.active /\ c.begins = p.begins /\ c.pending = <<>> /\ c.writing = 0
            /\ c.save = -1 /\ c.failed = p.failed
<1>1. <<>> \in Seq(Update) /\ -1 \in -1..MaxRec /\ 0 \in Nat
  BY BoundAssumption
<1> QED
  BY <1>1 DEF Levels, Finished

LEMMA ClearSame ==
  ASSUME NEW x \in State, NEW p
  PROVE  [tranClearTransactionID(x, FALSE) EXCEPT !.tran = p]
           = tranClearTransactionID(Of(x.file, x.tab, p), FALSE)
<1> DEFINE z == Of(x.file, x.tab, p)
           g == Purged(x.file, {})
           t == Cleared(x.tab, Remaining(x.tab, {}))
<1>1. tranClearTransactionID(x, FALSE) = [x EXCEPT !.file = g, !.tab = t]
  BY DEF tranClearTransactionID, Purged, Cleared, Remaining
<1>2. z.file = x.file /\ z.tab = x.tab /\ z.tran = p /\ z \in [file : {x.file}, tab : {x.tab}, tran : {p}]
  BY DEF Of
<1> HIDE DEF z
<1>3. tranClearTransactionID(z, FALSE) = [z EXCEPT !.file = g, !.tab = t]
  BY <1>2 DEF tranClearTransactionID, Purged, Cleared, Remaining
<1> HIDE DEF g, t
<1>4. [z EXCEPT !.file = g, !.tab = t] = Of(g, t, p)
  <2> DEFINE y == [z EXCEPT !.file = g, !.tab = t]
  <2>1. y \in [file : {g}, tab : {t}, tran : {p}]
    BY <1>2
  <2> HIDE DEF y
  <2>2. y = Of(g, t, p)
    BY <2>1 DEF Of
  <2> QED
    BY <2>2 DEF y
<1>5. [[x EXCEPT !.file = g, !.tab = t] EXCEPT !.tran = p] = Of(g, t, p)
  <2> DEFINE w == [x EXCEPT !.file = g, !.tab = t]
             y == [w EXCEPT !.tran = p]
  <2>1. w \in [file : {g}, tab : {t}, tran : Levels]
    BY DEF State
  <2> HIDE DEF w
  <2>2. y \in [file : {g}, tab : {t}, tran : {p}]
    BY <2>1
  <2> HIDE DEF y
  <2>3. y = Of(g, t, p)
    BY <2>2 DEF Of
  <2> QED
    BY <2>3 DEF y, w
<1> QED
  BY <1>1, <1>3, <1>4, <1>5 DEF z

(* v is s when the commit is over.                                          *)
CommitOver(v, s, oth) ==
  Sound(v, oth) /\ v.file = s.file /\ ~v.tab.modif /\ v.tran = Finished(s.tran)

LEMMA EndSound ==
  ASSUME NEW s, NEW oth, Sound(s, oth), s.tran.writing > 0, Todo(s.tran) = {}
  PROVE  CommitOver([tranClearTransactionID(IF s.tran.save = -1 THEN s ELSE Goto(s, s.tran.save), FALSE)
                       EXCEPT !.tran = Finished(s.tran)], s, oth)
<1> DEFINE f == s.file
           t == s.tab
           p == s.tran
           r == p.save
           p2 == Finished(p)
           x == IF r = -1 THEN s ELSE Goto(s, r)
           z == Of(f, x.tab, p2)
           v == tranClearTransactionID(z, FALSE)
<1>1. /\ s \in State /\ FileSound(f) /\ UpdatesSound(f, p, t.locks) /\ LocksSound(f, t.locks, oth)
      /\ TabSound(f, t, p) /\ IdSound(p, t.tranid)
  BY DEF Sound
<1>2. f \in File /\ t \in Object /\ p \in Levels /\ r \in -1..MaxRec /\ p.writing \in Nat
  BY <1>1, StateFields DEF Levels
<1>3. /\ p2 \in Levels /\ ~p2.active /\ p2.begins = p.begins /\ p2.pending = <<>> /\ p2.writing = 0
      /\ p2.save = -1 /\ p2.failed = p.failed
  BY <1>2, FinishedIs
<1> HIDE DEF p2
<1>4. Todo(p2) = {}
  <2>1. DOMAIN p2.pending = {}
    BY <1>3
  <2> QED
    BY <2>1 DEF Todo
<1>5. ~t.modif /\ UpdatesSound(f, p2, t.locks) /\ IdSound(p2, t.tranid)
  BY <1>1, <1>2, <1>3, <1>4 DEF TabSound, UpdatesSound, Chain, IdSound
<1>6. ASSUME r = -1
      PROVE  x \in State /\ x.file = f /\ ~x.tab.modif /\ Sound(z, oth)
  <2>1. x = s
    BY <1>6
  <2>2. TabSound(f, t, p2)
    <3>1. t.pos \in Range(t.locks) => Shows(f.rec, p.pending, {}, t.pos, t.buf)
      BY <1>1, <1>5, <1>6 DEF TabSound
    <3>2. t.pos \in Range(t.locks) => Shows(f.rec, p2.pending, Todo(p2), t.pos, t.buf)
      BY <1>4, <3>1 DEF Shows, None
    <3> QED
      BY <1>1, <1>5, <3>2 DEF TabSound
  <2>3. Sound(Of(f, t, p2), oth)
    BY <1>2, <1>3, <1>5, <2>2, OfSound
  <2> QED
    BY <1>1, <1>5, <2>1, <2>3
<1>7. ASSUME r # -1
      PROVE  x \in State /\ x.file = f /\ ~x.tab.modif /\ Sound(z, oth)
  <2> DEFINE a == IF r \in f.recno THEN r ELSE 0
             b == IF r \in f.recno THEN f.rec[r] ELSE Blank
             t1 == On(t, a, b)
  <2>1. ~t.tranid
    BY <1>1, <1>7 DEF IdSound
  <2>2. x = Placed(s, a, b)
    BY <1>7, <2>1 DEF Goto, SetPos, GoEOF, Placed, tranLastRecordUpdate
  <2>3. b \in Record /\ (a # 0 => a \in DOMAIN f.rec /\ b = f.rec[a]) /\ a \in 0..MaxRec
    <3>1. Blank \in Record
      BY DEF Blank, Record
    <3>2. r \in f.recno => r \in DOMAIN f.rec
      BY <1>1 DEF FileSound
    <3>3. f.rec \in Seq(Record)
      BY <1>1, StateFields
    <3>4. r \in 0..MaxRec
      BY <1>2, <1>7
    <3> QED
      BY <3>1, <3>2, <3>3, <3>4, BoundAssumption
  <2> HIDE DEF a, b, x
  <2>4. a = 0 \/ (a \in DOMAIN f.rec /\ Shows(f.rec, p2.pending, Todo(p2), a, b))
    BY <1>4, <2>3 DEF Shows
  <2>5. Sound(Of(f, t1, p2), oth)
    BY <1>3, <1>5, <2>3, <2>4, PlacedSound
  <2>6. x = Of(f, t1, p)
    BY <1>1, <2>2, PlacedIs
  <2>7. t1 \in Object /\ t1.modif = t.modif
    BY <1>2, <2>3, OnIs
  <2> HIDE DEF t1
  <2>8. x.file = f /\ x.tab = t1 /\ x.tran = p /\ x \in State
    BY <1>2, <2>6, <2>7 DEF Of, State
  <2> QED
    BY <1>5, <2>5, <2>7, <2>8
<1>8. x \in State /\ x.file = f /\ ~x.tab.modif /\ Sound(z, oth)
  BY <1>6, <1>7
<1> HIDE DEF x
<1>9. z.file = f /\ z.tab = x.tab /\ z.tran = p2
  BY DEF Of
<1> HIDE DEF z
<1>10. Ended(v, z, oth, FALSE)
  BY <1>3, <1>8, <1>9, ClearSound
<1>11. [tranClearTransactionID(x, FALSE) EXCEPT !.tran = p2] = v
  <2>1. [tranClearTransactionID(x, FALSE) EXCEPT !.tran = p2]
          = tranClearTransactionID(Of(x.file, x.tab, p2), FALSE)
    BY <1>8, ClearSame
  <2> QED
    BY <1>8, <2>1 DEF z
<1> HIDE DEF v
<1>12. Sound(v, oth) /\ v.file = f /\ ~v.tab.modif /\ v.tran = p2
  BY <1>9, <1>10 DEF Ended
<1> QED
  BY <1>11, <1>12 DEF CommitOver, x, p2

-----------------------------------------------------------------------------
(* The invariant of the specification.                                      *)

History == [saves : Seq([Rec -> Record]), held : SUBSET Rec]

(* The levels begin one after the other among the pending updates.          *)
BeginsSound(p) ==
  /\ \A i \in DOMAIN p.begins : p.begins[i] \in 1..(Len(p.pending) + 1)
  /\ \A i \in DOMAIN p.begins : p.begins[1] = 1
  /\ \A i, j \in DOMAIN p.begins : i <= j => p.begins[i] <= p.begins[j]

(* The levels, what was noted for them, and the room for updates.           *)
LevelsSound(s, h, u) ==
  LET p == s.tran IN
  /\ u \in Uses /\ h \in History
  /\ p.writing = 0 => /\ p.active => p.begins # <<>>
                      /\ ~p.active => p.begins = <<>>
                      /\ Len(h.saves) = Len(p.begins)
  /\ p.writing > 0 => /\ p.active /\ p.begins = <<>>
                      /\ Len(h.saves) = 1
                      /\ p.writing <= Len(p.pending) + 1
  /\ BeginsSound(p)
  /\ p.active => Load(s) <= u.pending

(* The records are what the process saw when it called the commit.          *)
SavesHold(s, h) ==
  s.tran.writing > 0 =>
    \A r \in Rec :
      /\ r \notin DOMAIN s.file.rec => h.saves[1][r] = Gone
      /\ r \in DOMAIN s.file.rec =>
           \E b : /\ Shows(s.file.rec, s.tran.pending, Todo(s.tran), r, b)
                  /\ h.saves[1][r] = IF b.del THEN Gone ELSE b

IInv == Sound(St, others) /\ LevelsSound(St, hist, use) /\ SavesHold(St, hist)

LEMMA StIs ==
  /\ St.file = file /\ St.tab = tab /\ St.tran = tran
  /\ St = Of(file, tab, tran)
BY DEF St, Of

LEMMA BecomesIs ==
  ASSUME NEW n \in State, Becomes(n)
  PROVE  St' = n
<1>1. n = Of(n.file, n.tab, n.tran)
  BY OfIs
<1> QED
  BY <1>1 DEF Becomes, St, Of

LEMMA NotedSound ==
  ASSUME NEW h \in History, NEW from, NEW r, NEW b \in Record
  PROVE  /\ [h EXCEPT !.saves = Noted(@, from, r, b)] \in History
         /\ Noted(h.saves, from, r, b) \in Seq([Rec -> Record])
         /\ Len(Noted(h.saves, from, r, b)) = Len(h.saves)
         /\ [h EXCEPT !.saves = Noted(@, from, r, b)].saves = Noted(h.saves, from, r, b)
<1> DEFINE l == h.saves
           w == Noted(l, from, r, b)
           N == Len(l)
<1>1. l \in Seq([Rec -> Record]) /\ N \in Nat /\ DOMAIN l = 1..N
  BY DEF History
<1>2. \A i \in 1..N : (IF i < from THEN l[i] ELSE [l[i] EXCEPT ![r] = b]) \in [Rec -> Record]
  <2>1. \A g \in [Rec -> Record] : [g EXCEPT ![r] = b] \in [Rec -> Record]
    OBVIOUS
  <2>2. \A i \in 1..N : l[i] \in [Rec -> Record]
    BY <1>1
  <2> QED
    BY <2>1, <2>2
<1>3. w \in [1..N -> [Rec -> Record]]
  BY <1>1, <1>2 DEF Noted
<1>4. w \in Seq([Rec -> Record])
  BY <1>1, <1>3, SeqDef
<1> HIDE DEF w
<1>5. Len(w) = N
  BY <1>1, <1>3, <1>4
<1>6. [h EXCEPT !.saves = Noted(@, from, r, b)] = [h EXCEPT !.saves = w]
  BY DEF w
<1>7. [h EXCEPT !.saves = w] \in History /\ [h EXCEPT !.saves = w].saves = w
  BY <1>4 DEF History
<1> QED
  BY <1>4, <1>5, <1>6, <1>7 DEF w

LEMMA ViewIs ==
  ASSUME NEW s, NEW oth, Sound(s, oth), s.tran.writing = 0
  PROVE  /\ View(s) \in [Rec -> Record]
         /\ \A r \in Rec :
              /\ r \notin DOMAIN s.file.rec => View(s)[r] = Gone
              /\ r \in DOMAIN s.file.rec =>
                   \E b : /\ Shows(s.file.rec, s.tran.pending, Todo(s.tran), r, b)
                          /\ View(s)[r] = IF b.del THEN Gone ELSE b
<1>1. Gone \in Record
  BY DEF Gone, Blank, Record
<1>2. ASSUME NEW r \in Rec
      PROVE  /\ View(s)[r] \in Record
             /\ r \notin DOMAIN s.file.rec => View(s)[r] = Gone
             /\ r \in DOMAIN s.file.rec =>
                  \E b : /\ Shows(s.file.rec, s.tran.pending, Todo(s.tran), r, b)
                         /\ View(s)[r] = IF b.del THEN Gone ELSE b
  <2> DEFINE b == tranLastRecordUpdate(s, r)
             f == s.file
             lost == r \notin f.recno /\ UpdatesOf(s, r) = {}
  <2>1. View(s)[r] = IF lost THEN Gone ELSE IF b.del THEN Gone ELSE b
    BY DEF View
  <2>2. r \in Int /\ r # -1
    BY BoundAssumption DEF Rec
  <2>3. ~lost => r \in DOMAIN f.rec
    BY <2>2, UpdatesInside DEF Sound, FileSound
  <2>4. r \in DOMAIN f.rec => Shows(f.rec, s.tran.pending, Todo(s.tran), r, b) /\ b \in Record
    BY LastShows
  <2>5. r \in DOMAIN f.rec /\ lost => b.del
    <3> SUFFICES ASSUME r \in DOMAIN f.rec, lost PROVE b.del
      OBVIOUS
    <3>1. b = f.rec[r]
      BY DEF tranLastRecordUpdate
    <3> QED
      BY <3>1 DEF Sound, FileSound
  <2> HIDE DEF b, lost
  <2>6. r \in DOMAIN f.rec => View(s)[r] = IF b.del THEN Gone ELSE b
    BY <2>1, <2>5
  <2> QED
    BY <1>1, <2>1, <2>3, <2>4, <2>6
<1>3. View(s) = [r \in Rec |-> View(s)[r]]
  BY DEF View
<1>4. View(s) \in [Rec -> Record]
  <2> DEFINE w == View(s)
  <2>1. w = [r \in Rec |-> w[r]] /\ \A r \in Rec : w[r] \in Record
    BY <1>2, <1>3
  <2> HIDE DEF w
  <2>2. w \in [Rec -> Record]
    BY <2>1
  <2> QED
    BY <2>2 DEF w
<1> QED
  BY <1>2, <1>4

(* The levels stay as they are.                                             *)
LEMMA LevelsKept ==
  ASSUME NEW s \in State, NEW v \in State, NEW h, NEW h2 \in History, NEW u, LevelsSound(s, h, u),
         s.tran.writing = 0, SameLevels(v, s), Len(h2.saves) = Len(h.saves),
         s.tran.active => Load(v) <= u.pending
  PROVE  LevelsSound(v, h2, u)
<1> DEFINE p == s.tran
           w == v.tran
           m == Len(p.pending)
           n == Len(w.pending)
<1>1. /\ w.active = p.active /\ w.begins = p.begins /\ w.writing = p.writing /\ m <= n /\ m \in Nat /\ n \in Nat
      /\ p.writing = 0
  BY StateFields DEF SameLevels
<1>2. BeginsSound(p)
  BY DEF LevelsSound
<1>3. BeginsSound(w)
  <2>1. \A i \in DOMAIN p.begins : p.begins[i] \in 1..(m + 1)
    BY <1>2 DEF BeginsSound
  <2> HIDE DEF m, n
  <2>2. \A x \in 1..(m + 1) : x \in 1..(n + 1)
    BY <1>1
  <2>3. \A i \in DOMAIN w.begins : w.begins[i] \in 1..(n + 1)
    BY <1>1, <2>1, <2>2
  <2> QED
    BY <1>1, <1>2, <2>3 DEF BeginsSound, n
<1> HIDE DEF p, w
<1> QED
  BY <1>1, <1>3 DEF LevelsSound, p, w

LEMMA CallStep ==
  ASSUME IInv, NEW n, Becomes(n), Sound(n, others), SameLevels(n, St), tran.writing = 0,
         tran.active => Load(n) <= use.pending,
         hist' \in History, Len(hist'.saves) = Len(hist.saves), UNCHANGED <<others, use>>
  PROVE  IInv'
<1>1. St' = n
  BY BecomesIs DEF Sound
<1>2. St \in State /\ n \in State /\ St.tran = tran
  BY StIs DEF IInv, Sound
<1>3. LevelsSound(n, hist', use)
  BY <1>2, LevelsKept DEF IInv
<1>4. n.tran.writing = 0
  BY <1>2 DEF SameLevels
<1>5. SavesHold(n, hist')
  <2>1. ~(n.tran.writing > 0)
    BY <1>4
  <2> QED
    BY <2>1 DEF SavesHold
<1> QED
  BY <1>1, <1>3, <1>5 DEF IInv

(* What a call starts with: the changes of the object are committed.        *)
LEMMA CommitFirst ==
  ASSUME IInv, tran.writing = 0
  PROVE  LET s == tabCommit(St)
         IN /\ s \in State /\ Sound(s, others) /\ SameLevels(s, St) /\ ~s.tab.modif /\ s.tran.writing = 0
            /\ s.tab.pos = tab.pos /\ s.tab.buf = tab.buf /\ s.tab.locks = tab.locks
            /\ DOMAIN s.file.rec = DOMAIN file.rec
            /\ Len(s.tran.pending) <= Load(St) /\ s.tran.active = tran.active
<1> DEFINE s == tabCommit(St)
<1>1. Committed(s, St, others)
  BY CommitSound DEF IInv
<1>2. St.tab = tab /\ St.tran = tran /\ St.file = file
  BY StIs
<1> HIDE DEF s
<1>3. /\ Sound(s, others) /\ SameLevels(s, St) /\ Load(s) <= Load(St) /\ ~s.tab.modif
      /\ s.tab.pos = tab.pos /\ s.tab.buf = tab.buf /\ s.tab.locks = tab.locks
      /\ DOMAIN s.file.rec = DOMAIN file.rec
  BY <1>1, <1>2 DEF Committed
<1>4. s \in State
  BY <1>3 DEF Sound
<1>5. Load(s) = Len(s.tran.pending)
  BY <1>3, <1>4, LoadClean
<1>6. s.tran.writing = 0 /\ s.tran.active = tran.active
  BY <1>2, <1>3 DEF SameLevels
<1> QED
  BY <1>3, <1>4, <1>5, <1>6 DEF s

(* v is where a call ends that adds at most n updates.                      *)
Arrived(v, n) ==
  Sound(v, others) /\ SameLevels(v, St) /\ Load(v) <= Load(St) + n

LEMMA ReachedArrives ==
  ASSUME IInv, tran.writing = 0, NEW n \in Nat, NEW v, Reached(v, tabCommit(St), others, n)
  PROVE  Arrived(v, n)
<1> DEFINE s == tabCommit(St)
<1>1. s \in State /\ SameLevels(s, St) /\ Len(s.tran.pending) <= Load(St)
  BY CommitFirst
<1> HIDE DEF s
<1>2. Sound(v, others) /\ SameLevels(v, s) /\ Load(v) <= Len(s.tran.pending) + n
  BY DEF Reached, s
<1>3. v \in State /\ St \in State
  BY <1>2 DEF IInv, Sound
<1>4. SameLevels(v, St)
  BY <1>1, <1>2, <1>3, LevelsTransitive
<1> DEFINE x == Load(v)
           y == Len(s.tran.pending)
           z == Load(St)
<1>5. x \in Nat /\ y \in Nat /\ z \in Nat
  BY <1>1, <1>3, LoadNat, StateFields
<1>6. x <= y + n /\ y <= z
  BY <1>1, <1>2
<1> HIDE DEF x, y, z
<1>7. x <= z + n
  BY <1>5, <1>6
<1> QED
  BY <1>2, <1>4, <1>7 DEF Arrived, x, z

LEMMA RoomLoad ==
  ASSUME IInv, NEW n \in Nat, Room(n), tran.active
  PROVE  Load(St) + n <= use.pending
<1> DEFINE d == IF tab.modif THEN 1 ELSE 0
           y == Len(tran.pending)
<1>1. y \in Nat /\ d \in Nat /\ use.pending \in Nat
  BY StIs, StateFields, UsesAssumption DEF IInv, Sound, LevelsSound
<1>2. y + n + d <= use.pending /\ Load(St) = y + d
  BY StIs DEF Room, Load
<1> HIDE DEF y, d
<1>3. (y + d) + n <= use.pending
  BY <1>1, <1>2
<1> QED
  BY <1>2, <1>3

(* A call that adds at most n updates, for which there is room.             *)
LEMMA ArrivedStep ==
  ASSUME IInv, NEW v, Becomes(v), NEW n \in Nat, Arrived(v, n), tran.writing = 0, n = 0 \/ Room(n),
         hist' \in History, Len(hist'.saves) = Len(hist.saves), UNCHANGED <<others, use>>
  PROVE  IInv'
<1>1. Sound(v, others) /\ SameLevels(v, St) /\ Load(v) <= Load(St) + n
  BY DEF Arrived
<1>2. v \in State /\ St \in State
  BY <1>1 DEF IInv, Sound
<1>3. Load(v) \in Nat /\ Load(St) \in Nat
  BY <1>2, LoadNat
<1>4. use.pending \in Nat
  BY UsesAssumption DEF IInv, LevelsSound
<1>5. tran.active => Load(St) + n <= use.pending
  <2>1. tran.active => Load(St) <= use.pending
    BY StIs DEF IInv, LevelsSound
  <2> QED
    BY <1>3, <2>1, RoomLoad
<1>6. tran.active => Load(v) <= use.pending
  <2> DEFINE x == Load(v)
             z == Load(St)
  <2> HIDE DEF x, z
  <2>1. tran.active => x <= use.pending
    BY <1>1, <1>3, <1>4, <1>5 DEF x, z
  <2> QED
    BY <2>1 DEF x
<1> QED
  BY <1>1, <1>6, CallStep

(* A call that leaves the history alone.                                    *)
LEMMA ReachedStep ==
  ASSUME IInv, NEW v, Becomes(v), NEW n \in Nat, Reached(v, tabCommit(St), others, n),
         tran.writing = 0, n = 0 \/ Room(n), UNCHANGED <<others, use, hist>>
  PROVE  IInv'
<1>1. Arrived(v, n)
  BY ReachedArrives
<1>2. hist' \in History /\ Len(hist'.saves) = Len(hist.saves)
  BY DEF IInv, LevelsSound
<1> QED
  BY <1>1, <1>2, ArrivedStep

LEMMA GotoStep ==
  ASSUME IInv, NEW r \in Rec, tabGoto(r)
  PROVE  IInv'
<1> DEFINE s == tabCommit(St)
           v == Goto(s, r)
<1>1. tran.writing = 0 /\ Becomes(v) /\ UNCHANGED <<others, use, hist>>
  BY DEF tabGoto, Calls
<1>2. Sound(s, others) /\ ~s.tab.modif /\ s.tran.writing = 0
  BY <1>1, CommitFirst
<1>3. r \in 0..MaxRec
  BY BoundAssumption DEF Rec
<1>4. Elsewhere(v, s, others)
  BY <1>2, <1>3, GotoSound
<1>5. Reached(v, s, others, 0)
  BY <1>2, <1>4, MovedReached
<1> HIDE DEF v
<1> QED
  BY <1>1, <1>5, ReachedStep

(* A lock taken is a step that adds no update.                              *)
LEMMA LockedReached ==
  ASSUME NEW s, NEW v, NEW oth, NEW r, Sound(s, oth), LockedAt(v, s, oth, r)
  PROVE  Reached(v, s, oth, 0)
<1>1. Sound(v, oth) /\ v.tran = s.tran /\ ~v.tab.modif
  BY DEF LockedAt
<1>2. v \in State /\ s \in State
  BY <1>1 DEF Sound
<1>3. Load(v) = Len(s.tran.pending) /\ Len(s.tran.pending) \in Nat
  BY <1>1, <1>2, LoadClean, StateFields
<1> QED
  BY <1>1, <1>3 DEF Reached, SameLevels

LEMMA DroppedReached ==
  ASSUME NEW s, NEW v, NEW oth, Sound(s, oth), Dropped(v, s, oth)
  PROVE  Reached(v, s, oth, 0)
<1>1. Sound(v, oth) /\ v.tran = s.tran /\ ~v.tab.modif
  BY DEF Dropped
<1>2. v \in State /\ s \in State
  BY <1>1 DEF Sound
<1>3. Load(v) = Len(s.tran.pending) /\ Len(s.tran.pending) \in Nat
  BY <1>1, <1>2, LoadClean, StateFields
<1> QED
  BY <1>1, <1>3 DEF Reached, SameLevels

LEMMA RLockStep ==
  ASSUME IInv, tabRLock
  PROVE  IInv'
<1> DEFINE s == tabCommit(St)
           v == lockCurrent(s)
<1>1. /\ tran.writing = 0 /\ Becomes(v) /\ UNCHANGED <<others, use, hist>>
      /\ tab.pos \notin others /\ tab.pos # 0
  BY DEF tabRLock, Calls
<1>2. Sound(s, others) /\ ~s.tab.modif /\ s.tran.writing = 0 /\ s.tab.pos = tab.pos
  BY <1>1, CommitFirst
<1> HIDE DEF s
<1>3. s.tab.pos \in DOMAIN s.file.rec \ others
  BY <1>1, <1>2 DEF Sound, TabSound
<1>4. Reached(v, s, others, 0)
  BY <1>2, <1>3, LockCurrentSound, LockedReached
<1> HIDE DEF v
<1> QED
  BY <1>1, <1>4, ReachedStep DEF s

LEMMA MLockStep ==
  ASSUME IInv, NEW r \in Rec, tabMLock(r)
  PROVE  IInv'
<1> DEFINE s == tabCommit(St)
           v == lockPosition(s, r)
<1>1. /\ tran.writing = 0 /\ Becomes(v) /\ UNCHANGED <<others, use, hist>>
      /\ r \in file.recno \ others
  BY DEF tabMLock, Calls
<1>2. Sound(s, others) /\ ~s.tab.modif /\ s.tran.writing = 0 /\ DOMAIN s.file.rec = DOMAIN file.rec
  BY <1>1, CommitFirst
<1>3. r \in DOMAIN file.rec
  BY <1>1, StIs DEF IInv, Sound, FileSound
<1> HIDE DEF s
<1>4. LockedAt(v, s, others, r)
  BY <1>1, <1>2, <1>3, LockPositionSound
<1>5. Reached(v, s, others, 0)
  BY <1>2, <1>4, LockedReached
<1> HIDE DEF v
<1> QED
  BY <1>1, <1>5, ReachedStep DEF s

LEMMA UnlockStep ==
  ASSUME IInv, tabUnlock
  PROVE  IInv'
<1> DEFINE s == tabCommit(St)
           w == [s EXCEPT !.tab.locks = <<>>]
           v == IF tran.active THEN s ELSE w
<1>1. /\ tran.writing = 0 /\ Becomes(v) /\ UNCHANGED <<others, use, hist>>
  BY DEF tabUnlock, Calls
<1>2. Sound(s, others) /\ ~s.tab.modif /\ s.tran.writing = 0 /\ s.tran.active = tran.active /\ s \in State
  BY <1>1, CommitFirst
<1> HIDE DEF s
<1>3. Reached(s, s, others, 0)
  <2>1. Load(s) = Len(s.tran.pending) /\ Len(s.tran.pending) \in Nat
    BY <1>2, LoadClean, StateFields
  <2> QED
    BY <1>2, <2>1 DEF Reached, SameLevels
<1>4. ~tran.active => Reached(w, s, others, 0)
  BY <1>2, UnlockAllSound, DroppedReached
<1>5. Reached(v, s, others, 0)
  BY <1>3, <1>4
<1> HIDE DEF v
<1> QED
  BY <1>1, <1>5, ReachedStep DEF s

LEMMA AlterStep ==
  ASSUME IInv, NEW t2 \in Object, Alters(t2, tab), tran.writing = 0,
         tab.modif \/ (IsLocked(St) /\ ~tab.buf.del /\ Room(1)),
         tab' = t2, UNCHANGED <<file, tran, others, use, hist>>
  PROVE  IInv'
<1> DEFINE v == Retabbed(St, t2)
<1>1. St.file = file /\ St.tab = tab /\ St.tran = tran /\ Sound(St, others)
  BY StIs DEF IInv
<1>2. tab.modif \/ (tab.pos \in Range(tab.locks) /\ ~tab.buf.del)
  BY <1>1 DEF IsLocked
<1>3. Sound(v, others) /\ v.file = file /\ v.tran = tran /\ v.tab = t2 /\ Load(v) <= Len(tran.pending) + 1
  BY <1>1, <1>2, AlterSound
<1> HIDE DEF v
<1>4. Becomes(v)
  BY <1>3 DEF Becomes
<1>5. v \in State /\ St \in State
  BY <1>1, <1>3 DEF Sound
<1>6. SameLevels(v, St)
  <2>1. Len(tran.pending) \in Nat
    BY <1>1, <1>5, StateFields
  <2> QED
    BY <1>1, <1>3, <2>1 DEF SameLevels
<1>7. Load(v) \in Nat /\ Len(tran.pending) \in Nat /\ Load(St) \in Nat
  BY <1>1, <1>5, LoadNat, StateFields
<1>8. tab.modif => Load(St) = Len(tran.pending) + 1
  BY <1>1 DEF Load
<1>9. ~tab.modif => Load(St) = Len(tran.pending)
  BY <1>1, <1>5, LoadClean
<1>10. hist' \in History /\ Len(hist'.saves) = Len(hist.saves)
  BY DEF IInv, LevelsSound
<1>11. CASE tab.modif
  <2>1. Load(v) <= Load(St) + 0
    BY <1>3, <1>7, <1>8, <1>11
  <2>2. Arrived(v, 0)
    BY <1>3, <1>6, <2>1 DEF Arrived
  <2> QED
    BY <1>4, <1>10, <2>2, ArrivedStep
<1>12. CASE ~tab.modif
  <2>1. Load(v) <= Load(St) + 1
    BY <1>3, <1>7, <1>9, <1>12
  <2>2. Arrived(v, 1)
    BY <1>3, <1>6, <2>1 DEF Arrived
  <2>3. Room(1)
    BY <1>12
  <2> QED
    BY <1>4, <1>10, <2>2, <2>3, ArrivedStep
<1> QED
  BY <1>11, <1>12

LEMMA SetValStep ==
  ASSUME IInv, NEW v \in {0, 1}, SetVal(v)
  PROVE  IInv'
<1> DEFINE b == [tab.buf EXCEPT !.val = v]
           t2 == [tab EXCEPT !.modif = TRUE, !.buf = b]
<1>1. tab \in Object /\ tab.buf \in Record
  BY StIs, StateFields DEF IInv, Sound
<1>2. /\ tab' = t2 /\ tran.writing = 0 /\ UNCHANGED <<file, tran, others, use, hist>>
      /\ tab.modif \/ (IsLocked(St) /\ ~tab.buf.del /\ Room(1))
  BY DEF SetVal, Writes, Calls
<1>3. b \in Record /\ b.key = tab.buf.key
  BY <1>1 DEF Record
<1> HIDE DEF b
<1>4. /\ t2 \in Object /\ t2.pos = tab.pos /\ t2.locks = tab.locks /\ t2.tranid = tab.tranid /\ t2.modif
      /\ t2.modifapp = tab.modifapp /\ t2.modifkey = tab.modifkey /\ t2.curkey = tab.curkey /\ t2.buf = b
  BY <1>1, <1>3 DEF Object
<1> HIDE DEF t2
<1>5. Alters(t2, tab)
  BY <1>3, <1>4 DEF Alters
<1> QED
  BY <1>2, <1>4, <1>5, AlterStep

LEMMA SetKeyStep ==
  ASSUME IInv, NEW k \in Key, SetKey(k)
  PROVE  IInv'
<1> DEFINE b == [tab.buf EXCEPT !.key = k]
           c == IF tab.modifkey THEN tab.curkey ELSE tab.buf.key
           t2 == [tab EXCEPT !.modif = TRUE, !.modifkey = TRUE, !.buf = b, !.curkey = c]
<1>1. tab \in Object /\ tab.buf \in Record /\ tab.curkey \in Key \cup {0, NoKey}
  BY StIs, StateFields DEF IInv, Sound, Object
<1>2. /\ tab' = t2 /\ tran.writing = 0 /\ UNCHANGED <<file, tran, others, use, hist>>
      /\ tab.modif \/ (IsLocked(St) /\ ~tab.buf.del /\ Room(1))
  BY DEF SetKey, Writes, Calls
<1>3. b \in Record /\ c \in Key \cup {0, NoKey}
  BY <1>1 DEF Record
<1> HIDE DEF b, c
<1>4. /\ t2 \in Object /\ t2.pos = tab.pos /\ t2.locks = tab.locks /\ t2.tranid = tab.tranid /\ t2.modif
      /\ t2.modifapp = tab.modifapp /\ t2.modifkey /\ t2.curkey = c
  BY <1>1, <1>3 DEF Object
<1> HIDE DEF t2
<1>5. Alters(t2, tab)
  BY <1>4 DEF Alters, c
<1> QED
  BY <1>2, <1>4, <1>5, AlterStep

LEMMA ReachedFromHere ==
  ASSUME IInv, NEW n \in Nat, NEW v, Reached(v, St, others, n)
  PROVE  Arrived(v, n)
<1>1. Sound(v, others) /\ SameLevels(v, St) /\ Load(v) <= Len(St.tran.pending) + n
  BY DEF Reached
<1>2. v \in State /\ St \in State
  BY <1>1 DEF IInv, Sound
<1> DEFINE d == IF St.tab.modif THEN 1 ELSE 0
           y == Len(St.tran.pending)
           x == Load(v)
<1>3. d \in Nat /\ y \in Nat /\ x \in Nat /\ Load(St) = y + d /\ x <= y + n
  BY <1>1, <1>2, LoadNat, StateFields DEF Load
<1> HIDE DEF d, y, x
<1>4. x <= Load(St) + n
  BY <1>3
<1> QED
  BY <1>1, <1>4 DEF Arrived, x

LEMMA DeleteStep ==
  ASSUME IInv, tabDelete
  PROVE  IInv'
<1> DEFINE d == Deleted(St)
<1>1. /\ tran.writing = 0 /\ IsLocked(St) /\ ~tab.buf.del /\ Room(1) /\ UNCHANGED <<others, use, hist>>
      /\ \E n \in {GoEOF(d)} \cup {SetPos(d, e[2]) : e \in d.file.index} : Becomes(n)
  BY DEF tabDelete, Calls
<1>2. PICK n \in {GoEOF(d)} \cup {SetPos(d, e[2]) : e \in d.file.index} : Becomes(n)
  BY <1>1
<1>3. /\ Sound(St, others) /\ St.tran.writing = 0 /\ St.tab.pos \in Range(St.tab.locks)
      /\ ~St.tab.buf.del /\ St \in State
  BY <1>1, StIs DEF IInv, IsLocked, Sound
<1>4. Reached(d, St, others, 1)
  BY <1>3, DeletedSound
<1> HIDE DEF d
<1>5. Sound(d, others) /\ ~d.tab.modif /\ d.tran.writing = 0
  BY <1>3, <1>4 DEF Reached, SameLevels
<1>6. Elsewhere(n, d, others)
  BY <1>5, AnyPlace
<1>7. Reached(n, St, others, 1)
  BY <1>3, <1>4, <1>6, ElsewhereReached
<1>8. Arrived(n, 1)
  BY <1>7, ReachedFromHere
<1>9. hist' \in History /\ Len(hist'.saves) = Len(hist.saves)
  BY <1>1 DEF IInv, LevelsSound
<1> QED
  BY <1>1, <1>2, <1>8, <1>9, ArrivedStep

LEMMA AppendStep ==
  ASSUME IInv, tabAppend
  PROVE  IInv'
<1> DEFINE s == tabCommit(St)
           r == FreeRec(s)
           v == Appended(s, r)
<1>1. tran.writing = 0 /\ Room(1) /\ r \in Rec /\ Becomes(v) /\ UNCHANGED <<others, use, hist>>
  BY DEF tabAppend, Calls
<1>2. /\ Sound(s, others) /\ ~s.tab.modif /\ s.tran.writing = 0 /\ s \in State /\ SameLevels(s, St)
      /\ Len(s.tran.pending) <= Load(St)
  BY <1>1, CommitFirst
<1> HIDE DEF s
<1>3. Free(s.file, others, r)
  BY <1>1, <1>2, FreeRecSound
<1> HIDE DEF r
<1>4. Added(v, s, others, r)
  BY <1>2, <1>3, AppendedSound
<1> HIDE DEF v
<1>5. Sound(v, others) /\ v.tran = s.tran /\ Load(v) = Len(s.tran.pending) + 1
  BY <1>4 DEF Added
<1>6. St \in State /\ Load(St) \in Nat /\ Len(s.tran.pending) \in Nat
  BY <1>2, LoadNat, StateFields DEF IInv, Sound
<1>7. Load(v) <= Load(St) + 1
  <2> DEFINE y == Len(s.tran.pending)
             z == Load(St)
  <2>1. y \in Nat /\ z \in Nat /\ y <= z /\ Load(v) = y + 1
    BY <1>2, <1>5, <1>6
  <2> HIDE DEF y, z
  <2>2. Load(v) <= z + 1
    BY <2>1
  <2> QED
    BY <2>2 DEF z
<1>8. SameLevels(v, St)
  BY <1>2, <1>5 DEF SameLevels
<1>9. Arrived(v, 1)
  BY <1>5, <1>7, <1>8 DEF Arrived
<1>10. hist' \in History /\ Len(hist'.saves) = Len(hist.saves)
  BY <1>1 DEF IInv, LevelsSound
<1> QED
  BY <1>1, <1>9, <1>10, ArrivedStep DEF r, s, v

LEMMA InsertStep ==
  ASSUME IInv, NEW k \in Key, tabInsert(k)
  PROVE  IInv'
<1> DEFINE c == tabCommit(St)
           s == tabSeek(St, k)
           r == FreeRec(s)
           i == Inserted(s, r, k)
           v == IF tabFound(s, k) THEN s ELSE i
           b == [Blank EXCEPT !.key = k]
<1>1. /\ tran.writing = 0 /\ Room(2) /\ r \in Rec /\ Becomes(v) /\ UNCHANGED <<others, use>>
      /\ hist' = hist \/ hist' = [hist EXCEPT !.saves = Noted(@, 2, r, b)]
  BY DEF tabInsert, Calls
<1>2. /\ Sound(c, others) /\ ~c.tab.modif /\ c.tran.writing = 0 /\ c \in State
  BY <1>1, CommitFirst
<1>3. s = NextAfter(c, Entry(k, 0))
  BY DEF tabSeek
<1> HIDE DEF s
<1>4. Elsewhere(s, c, others)
  BY <1>2, <1>3, NextSound
<1>5. Reached(s, c, others, 0) /\ Sound(s, others) /\ ~s.tab.modif /\ s.tran.writing = 0
  BY <1>2, <1>4, MovedReached DEF Elsewhere
<1>6. Free(s.file, others, r)
  BY <1>1, <1>5, FreeRecSound
<1> HIDE DEF r, c
<1>7. Reached(i, s, others, 2)
  BY <1>5, <1>6, InsertedSound
<1> HIDE DEF i
<1>8. Reached(i, c, others, 2)
  <2>1. Reached(i, c, others, 0 + 2)
    BY <1>2, <1>5, <1>7, ReachedTransitive
  <2> QED
    BY <2>1
<1>9. Reached(s, c, others, 2)
  <2> DEFINE x == Load(s)
             y == Len(c.tran.pending)
  <2>1. x \in Nat /\ y \in Nat /\ x <= y + 0
    BY <1>2, <1>5, LoadNat, StateFields DEF Reached, Sound
  <2> HIDE DEF x, y
  <2>2. x <= y + 2
    BY <2>1
  <2> QED
    BY <1>5, <2>2 DEF Reached, x, y
<1>10. Reached(v, c, others, 2)
  BY <1>8, <1>9
<1> HIDE DEF v
<1>11. Arrived(v, 2)
  BY <1>1, <1>10, ReachedArrives DEF c
<1>12. hist \in History /\ b \in Record
  BY DEF IInv, LevelsSound, Blank, Record
<1> HIDE DEF b
<1>13. hist' \in History /\ Len(hist'.saves) = Len(hist.saves)
  <2> DEFINE h2 == [hist EXCEPT !.saves = Noted(@, 2, r, b)]
  <2>1. h2 \in History /\ Len(h2.saves) = Len(hist.saves)
    <3>1. h2 \in History /\ h2.saves = Noted(hist.saves, 2, r, b)
      BY <1>12, NotedSound
    <3>2. Len(Noted(hist.saves, 2, r, b)) = Len(hist.saves)
      BY <1>12, NotedSound
    <3> HIDE DEF h2
    <3> QED
      BY <3>1, <3>2
  <2>2. hist' = hist \/ hist' = h2
    BY <1>1
  <2> HIDE DEF h2
  <2> QED
    BY <1>12, <2>1, <2>2
<1> QED
  BY <1>1, <1>11, <1>13, ArrivedStep

LEMMA SynchronizeStep ==
  ASSUME IInv, Synchronize
  PROVE  IInv'
<1> DEFINE v == tranSynchronizeRecord(St)
           c == tabCommit(St)
           from == IF tab.pos \in tab.trandel THEN 2 ELSE 1
           b == View(c)[tab.pos]
           h2 == [hist EXCEPT !.saves = Noted(@, from, tab.pos, b)]
<1>1. /\ tran.writing = 0 /\ Becomes(v) /\ UNCHANGED <<others, use>>
      /\ hist' = IF tab.pos = 0 THEN hist ELSE h2
  BY DEF Synchronize, Calls
<1>2. Sound(St, others) /\ St.tran.writing = 0 /\ tab.pos \in 0..MaxRec /\ hist \in History
  BY <1>1, StIs, StateFields DEF IInv, Sound, LevelsSound
<1>3. Synced(v, St, others)
  BY <1>2, SyncSound
<1> HIDE DEF v
<1>4. Sound(v, others) /\ SameLevels(v, St) /\ Load(v) <= Load(St)
  BY <1>3 DEF Synced
<1>5. Arrived(v, 0)
  <2>1. Load(v) \in Nat /\ Load(St) \in Nat
    BY <1>2, <1>4, LoadNat DEF Sound
  <2>2. Load(v) <= Load(St) + 0
    BY <1>4, <2>1
  <2> QED
    BY <1>4, <2>2 DEF Arrived
<1>6. tab.pos # 0 => b \in Record
  <2>1. Sound(c, others) /\ c.tran.writing = 0
    BY <1>1, CommitFirst
  <2>2. View(c) \in [Rec -> Record]
    BY <2>1, ViewIs
  <2>3. tab.pos # 0 => tab.pos \in Rec
    BY <1>2, BoundAssumption DEF Rec
  <2> QED
    BY <2>2, <2>3
<1> HIDE DEF b, from
<1>7. tab.pos # 0 => h2 \in History /\ Len(h2.saves) = Len(hist.saves)
  <2> SUFFICES ASSUME tab.pos # 0 PROVE h2 \in History /\ Len(h2.saves) = Len(hist.saves)
    OBVIOUS
  <2>1. h2 \in History /\ h2.saves = Noted(hist.saves, from, tab.pos, b)
    BY <1>2, <1>6, NotedSound
  <2>2. Len(Noted(hist.saves, from, tab.pos, b)) = Len(hist.saves)
    BY <1>2, <1>6, NotedSound
  <2> HIDE DEF h2
  <2> QED
    BY <2>1, <2>2
<1> HIDE DEF h2
<1>8. hist' \in History /\ Len(hist'.saves) = Len(hist.saves)
  BY <1>1, <1>2, <1>7
<1> QED
  BY <1>1, <1>5, <1>8, ArrivedStep

LEMMA SynchronizeFreeStep ==
  ASSUME IInv, SynchronizeFree
  PROVE  IInv'
<1> DEFINE r == tab.pos
           w == tranSynchronizeRecord(St)
           v == Unlocked(w, r)
           c == tabCommit(St)
           b == View(c)[r]
           l == Noted(hist.saves, 1, r, b)
<1>1. /\ tran.writing = 0 /\ Becomes(v) /\ UNCHANGED <<others, use>> /\ IsLocked(St)
      /\ hist' = [saves |-> l, held |-> hist.held \ {r}]
  BY DEF SynchronizeFree, Calls
<1>2. /\ Sound(St, others) /\ St.tran.writing = 0 /\ r \in Rec /\ hist \in History /\ St.tab.pos = r
      /\ St \in State
  <2>1. r \in 0..MaxRec /\ r # 0
    BY <1>1, StIs, StateFields DEF IInv, Sound, IsLocked
  <2>2. r \in Rec
    BY <2>1, BoundAssumption DEF Rec
  <2> QED
    BY <1>1, <2>2, StIs DEF IInv, Sound, LevelsSound
<1>3. Synced(w, St, others)
  BY <1>2, SyncSound
<1> HIDE DEF w
<1>4. /\ Sound(w, others) /\ SameLevels(w, St) /\ Load(w) <= Load(St) /\ ~w.tab.modif /\ w \in State
      /\ None(w.tran.pending, Todo(w.tran), r)
  BY <1>2, <1>3 DEF Synced, Sound
<1>5. Dropped(v, w, others)
  BY <1>4, UnlockedSound
<1> HIDE DEF v
<1>6. Sound(v, others) /\ v.tran = w.tran /\ ~v.tab.modif /\ v \in State
  BY <1>5 DEF Dropped, Sound
<1>7. Load(v) = Load(w)
  BY <1>4, <1>6, LoadClean
<1>8. Arrived(v, 0)
  <2>1. Load(v) \in Nat /\ Load(St) \in Nat
    BY <1>2, <1>6, LoadNat
  <2>2. Load(v) <= Load(St) + 0
    BY <1>4, <1>7, <2>1
  <2>3. SameLevels(v, St)
    BY <1>4, <1>6 DEF SameLevels
  <2> QED
    BY <1>6, <2>2, <2>3 DEF Arrived
<1>9. b \in Record
  <2>1. Sound(c, others) /\ c.tran.writing = 0
    BY <1>1, CommitFirst
  <2>2. View(c) \in [Rec -> Record]
    BY <2>1, ViewIs
  <2> QED
    BY <1>2, <2>2
<1> HIDE DEF b, r
<1>10. l \in Seq([Rec -> Record]) /\ Len(l) = Len(hist.saves)
  BY <1>2, <1>9, NotedSound
<1> HIDE DEF l
<1>11. hist' \in History /\ Len(hist'.saves) = Len(hist.saves)
  BY <1>1, <1>2, <1>10 DEF History
<1>12. tran.writing = 0 /\ Becomes(v) /\ UNCHANGED <<others, use>>
  BY <1>1
<1> QED
  BY <1>8, <1>11, <1>12, ArrivedStep

LEMMA OtherLocksStep ==
  ASSUME IInv, NEW r \in Rec, OtherLocks(r)
  PROVE  IInv'
<1>1. /\ r \in DOMAIN file.rec \ (others \cup Range(tab.locks)) /\ others' = others \cup {r}
      /\ UNCHANGED <<file, tab, tran, use, hist>>
  BY DEF OtherLocks
<1>2. St' = St
  BY <1>1 DEF St
<1>3. Sound(St, others')
  BY <1>1, StIs DEF IInv, Sound, LocksSound
<1> QED
  BY <1>1, <1>2, <1>3 DEF IInv

LEMMA OtherUnlocksStep ==
  ASSUME IInv, NEW r \in Rec, OtherUnlocks(r)
  PROVE  IInv'
<1>1. others' = others \ {r} /\ UNCHANGED <<file, tab, tran, use, hist>>
  BY DEF OtherUnlocks
<1>2. St' = St
  BY <1>1 DEF St
<1>3. Sound(St, others')
  BY <1>1, StIs DEF IInv, Sound, LocksSound
<1> QED
  BY <1>1, <1>2, <1>3 DEF IInv

(* Another record changes in the file.                                      *)
LEMMA ContinuesElsewhere ==
  ASSUME NEW rec, NEW recno, NEW q, NEW T, NEW u, NEW rec2, NEW recno2,
         rec2[u.pos] = rec[u.pos], u.pos \in recno2 <=> u.pos \in recno,
         Continues(rec, recno, q, T, u)
  PROVE  Continues(rec2, recno2, q, T, u)
BY ZenonT(30) DEF Continues

LEMMA OtherWritesStep ==
  ASSUME IInv, NEW r \in Rec, NEW b \in Record, OtherWrites(r, b)
  PROVE  IInv'
<1> DEFINE f == file
           t == tab
           p == tran
           q == p.pending
           T == Todo(p)
           u == [pos |-> r, buf |-> b, modifapp |-> FALSE, modifkey |-> TRUE, curkey |-> f.rec[r].key]
           g == Written(f, u)
           oth == others \ {r}
           d == IF b.del THEN Gone ELSE b
           h2 == [hist EXCEPT !.saves = Noted(@, 1, r, d)]
<1>1. /\ r \in others \cap f.recno /\ file' = g /\ hist' = h2 /\ others' = oth
      /\ UNCHANGED <<tab, tran, use>>
  BY DEF OtherWrites
<1>2. /\ St \in State /\ FileSound(f) /\ UpdatesSound(f, p, t.locks) /\ LocksSound(f, t.locks, others)
      /\ TabSound(f, t, p) /\ IdSound(p, t.tranid)
  BY StIs DEF IInv, Sound
<1>3. St = Of(f, t, p) /\ St' = Of(g, t, p)
  BY <1>1 DEF St, Of
<1>4. /\ u.pos = r /\ u.buf = b /\ ~u.modifapp /\ u.modifkey /\ u.curkey = f.rec[r].key
      /\ u.modifapp \in BOOLEAN /\ u.modifkey \in BOOLEAN
  OBVIOUS
<1> HIDE DEF u
<1>5. r \in DOMAIN f.rec \ f.deleted /\ Follows(u, f.rec[r], r \notin f.recno) /\ r \notin Range(t.locks)
  <2>1. r \in DOMAIN f.rec \ f.deleted /\ ~f.rec[r].del
    BY <1>1, <1>2 DEF FileSound
  <2>2. Follows(u, f.rec[r], r \notin f.recno)
    BY <1>1, <1>4, <2>1 DEF Follows
  <2> QED
    BY <1>1, <1>2, <2>1, <2>2 DEF LocksSound
<1>6. FileSound(g) /\ Takes(g, f, u)
  BY <1>2, <1>4, <1>5, WrittenSound
<1> HIDE DEF g
<1>7. /\ DOMAIN g.rec = DOMAIN f.rec /\ g.rec[r] = b
      /\ \A x : x # r => /\ g.rec[x] = f.rec[x]
                         /\ x \in g.recno <=> x \in f.recno
                         /\ x \in g.deleted <=> x \in f.deleted
  BY <1>4, <1>6 DEF Takes
<1>8. \A n \in T : q[n].pos \in Range(t.locks) \ f.deleted /\ q[n].pos # r
  BY <1>2, <1>5 DEF UpdatesSound
<1>9. UpdatesSound(g, p, t.locks)
  <2>1. Chain(f.rec, f.recno, q, T)
    BY <1>2 DEF UpdatesSound
  <2>2. \A n \in T : g.rec[q[n].pos] = f.rec[q[n].pos] /\ (q[n].pos \in g.recno <=> q[n].pos \in f.recno)
    BY <1>7, <1>8
  <2> HIDE DEF q, T
  <2>3. Chain(g.rec, g.recno, q, T)
    BY <2>1, <2>2, ChainElsewhere
  <2>4. \A n \in T : q[n].pos \in Range(t.locks) \ g.deleted
    BY <1>7, <1>8
  <2> QED
    BY <2>3, <2>4 DEF UpdatesSound, q, T
<1>10. LocksSound(g, t.locks, oth)
  BY <1>2, <1>7 DEF LocksSound
<1>11. \A x, y : x # r /\ Shows(f.rec, q, T, x, y) => Shows(g.rec, q, T, x, y)
  BY <1>7 DEF Shows
<1>12. TabSound(g, t, p)
  <2>1. t.modif => t.pos \in Range(t.locks) \ f.deleted /\ Continues(f.rec, f.recno, q, T, t)
    BY <1>2 DEF TabSound
  <2>2. t.modif => t.pos # r
    BY <1>5, <2>1
  <2>3. t.modif => Continues(g.rec, g.recno, q, T, t)
    <3> SUFFICES ASSUME t.modif PROVE Continues(g.rec, g.recno, q, T, t)
      OBVIOUS
    <3>1. g.rec[t.pos] = f.rec[t.pos] /\ (t.pos \in g.recno <=> t.pos \in f.recno)
      BY <1>7, <2>2
    <3> HIDE DEF q, T, f, t
    <3> QED
      BY <2>1, <3>1, ContinuesElsewhere
  <2>4. t.modif => t.pos \notin g.deleted
    BY <1>7, <2>1, <2>2
  <2>5. ~t.modif /\ p.save = -1 /\ t.pos \in Range(t.locks) => Shows(g.rec, q, T, t.pos, t.buf)
    <3>1. ~t.modif /\ p.save = -1 /\ t.pos \in Range(t.locks) => Shows(f.rec, q, T, t.pos, t.buf)
      BY <1>2 DEF TabSound
    <3> QED
      BY <1>5, <1>11, <3>1
  <2>6. t.pos # 0 => t.pos \in DOMAIN g.rec
    BY <1>2, <1>7 DEF TabSound
  <2> HIDE DEF f, t, p
  <2> QED
    BY <1>2, <2>1, <2>3, <2>4, <2>5, <2>6 DEF TabSound
<1> DEFINE v == Of(g, t, p)
<1>13. v \in State /\ v.file = g /\ v.tab = t /\ v.tran = p
  BY <1>2, <1>3, <1>6 DEF State, Of, FileSound
<1> HIDE DEF v
<1>14. Sound(v, oth)
  BY <1>2, <1>6, <1>9, <1>10, <1>12, <1>13 DEF Sound
<1>15. d \in Record /\ hist \in History
  BY DEF Gone, Blank, Record, IInv, LevelsSound
<1>16. h2 \in History /\ h2.saves = Noted(hist.saves, 1, r, d) /\ Len(Noted(hist.saves, 1, r, d)) = Len(hist.saves)
  <2> HIDE DEF d
  <2>1. h2 \in History /\ h2.saves = Noted(hist.saves, 1, r, d)
    BY <1>15, NotedSound
  <2>2. Len(Noted(hist.saves, 1, r, d)) = Len(hist.saves)
    BY <1>15, NotedSound
  <2> QED
    BY <2>1, <2>2
<1> HIDE DEF h2
<1>17. LevelsSound(v, h2, use)
  <2>1. LevelsSound(St, hist, use) /\ St.tran = p /\ St.tab = t
    BY StIs DEF IInv
  <2>2. Load(v) = Load(St) /\ v.tran = St.tran
    BY <1>13, <2>1 DEF Load
  <2>3. Len(h2.saves) = Len(hist.saves)
    BY <1>16
  <2> QED
    BY <1>16, <2>1, <2>2, <2>3 DEF LevelsSound
<1>18. SavesHold(v, h2)
  <2> SUFFICES ASSUME p.writing > 0, NEW x \in Rec
               PROVE  /\ x \notin DOMAIN g.rec => h2.saves[1][x] = Gone
                      /\ x \in DOMAIN g.rec => \E y : /\ Shows(g.rec, q, T, x, y)
                                                      /\ h2.saves[1][x] = IF y.del THEN Gone ELSE y
    BY <1>13 DEF SavesHold
  <2>1. /\ x \notin DOMAIN f.rec => hist.saves[1][x] = Gone
        /\ x \in DOMAIN f.rec => \E y : /\ Shows(f.rec, q, T, x, y)
                                        /\ hist.saves[1][x] = IF y.del THEN Gone ELSE y
    BY StIs DEF IInv, SavesHold
  <2>2. Len(hist.saves) = 1 /\ hist.saves \in Seq([Rec -> Record])
    BY <1>15, StIs DEF IInv, LevelsSound, History
  <2>3. h2.saves[1] = [hist.saves[1] EXCEPT ![r] = d] /\ hist.saves[1] \in [Rec -> Record]
    <3>1. 1 \in DOMAIN hist.saves /\ ~(1 < 1)
      BY <2>2
    <3> HIDE DEF d
    <3> QED
      BY <1>16, <2>2, <3>1 DEF Noted
  <2>4. CASE x = r
    <3>1. h2.saves[1][x] = d
      BY <2>3, <2>4
    <3>2. None(q, T, r)
      BY <1>8 DEF None
    <3>3. Shows(g.rec, q, T, x, b)
      <4>1. \A m \in T : ~Latest(q, T, r, m)
        BY <1>8 DEF Latest
      <4> QED
        BY <1>7, <2>4, <4>1 DEF Shows
    <3>4. x \in DOMAIN g.rec
      BY <1>5, <1>7, <2>4
    <3> QED
      BY <3>1, <3>3, <3>4
  <2>5. CASE x # r
    <3>1. h2.saves[1][x] = hist.saves[1][x]
      <4> HIDE DEF d
      <4> QED
        BY <2>3, <2>5
    <3> QED
      BY <1>7, <1>11, <2>1, <2>5, <3>1
  <2> QED
    BY <2>4, <2>5
<1> QED
  BY <1>1, <1>3, <1>14, <1>17, <1>18 DEF IInv, v

LEMMA CommitLevels ==
  ASSUME IInv, tran.writing = 0
  PROVE  LevelsSound(tabCommit(St), hist, use)
<1> DEFINE s == tabCommit(St)
<1>1. s \in State /\ SameLevels(s, St) /\ ~s.tab.modif /\ Len(s.tran.pending) <= Load(St)
  BY CommitFirst
<1> HIDE DEF s
<1>2. /\ LevelsSound(St, hist, use) /\ St \in State /\ hist \in History /\ St.tran = tran
      /\ tran.active => Load(St) <= use.pending
  BY StIs DEF IInv, Sound, LevelsSound
<1>3. tran.active => Load(s) <= use.pending
  <2>1. /\ Load(s) = Len(s.tran.pending) /\ Len(s.tran.pending) \in Nat /\ Load(St) \in Nat
        /\ use.pending \in Nat
    BY <1>1, <1>2, LoadClean, StateFields, LoadNat, UsesAssumption DEF LevelsSound
  <2> DEFINE x == Load(s)
             z == Load(St)
  <2>2. x \in Nat /\ z \in Nat /\ x <= z
    BY <1>1, <2>1
  <2> HIDE DEF x, z
  <2>3. tran.active => x <= use.pending
    BY <1>2, <2>1, <2>2 DEF z
  <2> QED
    BY <2>3 DEF x
<1>4. LevelsSound(s, hist, use)
  BY <1>1, <1>2, <1>3, LevelsKept
<1> QED
  BY <1>4 DEF s

Begun(p) == [p EXCEPT !.active = TRUE, !.begins = Append(@, Len(p.pending) + 1)]

LEMMA BegunIs ==
  ASSUME NEW p \in Levels, BeginsSound(p), p.begins = <<>> => p.pending = <<>>
  PROVE  LET c == Begun(p)
         IN /\ c \in Levels /\ c.active /\ c.pending = p.pending /\ c.writing = p.writing
            /\ c.save = p.save /\ c.failed = p.failed
            /\ c.begins # <<>> /\ Len(c.begins) = Len(p.begins) + 1
            /\ BeginsSound(c)
<1> DEFINE c == Begun(p)
           L == Len(p.pending)
           n == Len(p.begins)
           b == Append(p.begins, L + 1)
<1>1. p.begins \in Seq(Nat) /\ p.pending \in Seq(Update)
  BY DEF Levels
<1>2. L \in Nat /\ n \in Nat /\ DOMAIN p.begins = 1..n
  BY <1>1
<1>3. /\ b \in Seq(Nat) /\ Len(b) = n + 1 /\ DOMAIN b = 1..(n + 1) /\ b # <<>>
      /\ \A i \in 1..n : b[i] = p.begins[i]
      /\ b[n + 1] = L + 1
  <2>1. L + 1 \in Nat
    BY <1>2
  <2> HIDE DEF L
  <2> QED
    BY <1>1, <2>1
<1>4. c = [p EXCEPT !.active = TRUE, !.begins = b]
  BY DEF Begun
<1> HIDE DEF b, c
<1>5. /\ c \in Levels /\ c.active /\ c.pending = p.pending /\ c.writing = p.writing
      /\ c.save = p.save /\ c.failed = p.failed /\ c.begins = b
  BY <1>3, <1>4 DEF Levels
<1>6. /\ \A i \in 1..n : p.begins[i] \in 1..(L + 1)
      /\ \A i \in 1..n : p.begins[1] = 1
      /\ \A i, j \in 1..n : i <= j => p.begins[i] <= p.begins[j]
  BY <1>2 DEF BeginsSound
<1>7. n = 0 => L = 0
  <2>1. n = 0 => p.begins = <<>>
    BY <1>1
  <2> QED
    BY <2>1
<1> HIDE DEF L, n
<1>8. \A i \in 1..(n + 1) : i \in 1..n \/ i = n + 1
  BY <1>2
<1>9. \A i \in 1..(n + 1) : b[i] \in 1..(L + 1)
  <2>1. L + 1 \in 1..(L + 1)
    BY <1>2
  <2> QED
    BY <1>3, <1>6, <1>8, <2>1
<1>10. b[1] = 1
  <2>1. CASE n = 0
    BY <1>3, <1>7, <2>1
  <2>2. CASE n # 0
    <3>1. 1 \in 1..n
      BY <1>2, <2>2
    <3> QED
      BY <1>3, <1>6, <3>1
  <2> QED
    BY <2>1, <2>2
<1>11. \A i, j \in 1..(n + 1) : i <= j => b[i] <= b[j]
  <2> SUFFICES ASSUME NEW i \in 1..(n + 1), NEW j \in 1..(n + 1), i <= j PROVE b[i] <= b[j]
    OBVIOUS
  <2>1. CASE j \in 1..n
    <3>1. i \in 1..n
      BY <1>2, <2>1
    <3> QED
      BY <1>3, <1>6, <2>1, <3>1
  <2>2. CASE j = n + 1
    <3>1. b[i] \in 1..(L + 1)
      BY <1>9
    <3> QED
      BY <1>2, <1>3, <2>2, <3>1
  <2> QED
    BY <1>8, <2>1, <2>2
<1>12. BeginsSound(c)
  BY <1>3, <1>5, <1>9, <1>10, <1>11 DEF BeginsSound, L
<1> QED
  BY <1>3, <1>5, <1>12 DEF c, n

LEMMA BeginStep ==
  ASSUME IInv, tranBegin
  PROVE  IInv'
<1> DEFINE s == tabCommit(St)
           p == s.tran
           p2 == Begun(p)
           v == [s EXCEPT !.tran = p2]
           w == View(s)
           held == IF tran.active THEN hist.held ELSE Range(tab.locks)
           h2 == [saves |-> Append(hist.saves, w), held |-> held]
<1>1. tran.writing = 0 /\ hist' = h2 /\ UNCHANGED <<others, use>>
  BY DEF tranBegin, Calls
<1>2. Becomes(v)
  <2>1. v = [s EXCEPT !.tran.active = TRUE, !.tran.begins = Append(@, Len(s.tran.pending) + 1)]
    BY DEF Begun
  <2> HIDE DEF v
  <2> QED
    BY <2>1 DEF tranBegin
<1>3. /\ Sound(s, others) /\ ~s.tab.modif /\ p.writing = 0 /\ s \in State
      /\ LevelsSound(s, hist, use)
  BY <1>1, CommitFirst, CommitLevels
<1>4. /\ p \in Levels /\ BeginsSound(p) /\ (p.active => p.begins # <<>>) /\ Len(hist.saves) = Len(p.begins)
      /\ (p.active => Load(s) <= use.pending) /\ use \in Uses /\ hist \in History
      /\ IdSound(p, s.tab.tranid)
  BY <1>3, StateFields DEF LevelsSound, Sound
<1>5. p.begins = <<>> => p.pending = <<>>
  BY <1>4 DEF IdSound
<1>6. w \in [Rec -> Record]
  BY <1>3, ViewIs
<1> HIDE DEF w, s, p
<1>7. /\ p2 \in Levels /\ p2.active /\ p2.pending = p.pending /\ p2.writing = p.writing
      /\ p2.save = p.save /\ p2.failed = p.failed
      /\ p2.begins # <<>> /\ Len(p2.begins) = Len(p.begins) + 1
      /\ BeginsSound(p2)
  BY <1>4, <1>5, BegunIs
<1> HIDE DEF p2
<1>8. Sound(v, others) /\ v = Of(s.file, s.tab, p2)
  <2>1. Todo(p2) = Todo(p) /\ p.save = -1
    BY <1>3, <1>4, <1>7 DEF Todo, IdSound
  <2> QED
    BY <1>3, <1>7, <2>1, RelevelSound DEF p
<1> HIDE DEF v
<1>9. v \in State /\ v.tran = p2 /\ v.tab = s.tab
  BY <1>8 DEF Sound, Of
<1>10. held \in SUBSET Rec
  <2>1. Range(tab.locks) \subseteq Rec
    <3>1. tab.locks \in Seq(Rec)
      BY StIs, StateFields DEF IInv, Sound
    <3> QED
      BY <3>1 DEF Range
  <2> QED
    BY <1>4, <2>1 DEF History
<1> HIDE DEF held
<1>11. h2 \in History /\ Len(h2.saves) = Len(hist.saves) + 1
  <2>1. hist.saves \in Seq([Rec -> Record])
    BY <1>4 DEF History
  <2>2. Append(hist.saves, w) \in Seq([Rec -> Record]) /\ Len(Append(hist.saves, w)) = Len(hist.saves) + 1
    BY <1>6, <2>1
  <2> QED
    BY <1>10, <2>2 DEF History
<1> HIDE DEF h2
<1>12. Load(v) <= use.pending
  <2>1. Load(v) = Len(p2.pending) /\ Load(s) = Len(p.pending) /\ Len(p.pending) \in Nat
    BY <1>3, <1>9, LoadClean, StateFields DEF p
  <2>2. ~p.active => p.pending = <<>>
    BY <1>4 DEF IdSound
  <2>3. use.pending \in Nat
    BY <1>4, UsesAssumption
  <2>4. CASE p.active
    BY <1>4, <1>7, <2>1, <2>4
  <2>5. CASE ~p.active
    <3>1. Len(p.pending) = 0
      BY <2>2, <2>5
    <3> QED
      BY <1>7, <2>1, <2>3, <3>1
  <2> QED
    BY <2>4, <2>5
<1>13. LevelsSound(v, h2, use)
  <2>1. p2.writing = 0 /\ Len(h2.saves) = Len(p2.begins)
    BY <1>3, <1>4, <1>7, <1>11
  <2> QED
    BY <1>4, <1>7, <1>9, <1>11, <1>12, <2>1 DEF LevelsSound
<1>14. SavesHold(v, h2)
  <2>1. ~(v.tran.writing > 0)
    BY <1>3, <1>7, <1>9
  <2> QED
    BY <2>1 DEF SavesHold
<1>15. St' = v
  BY <1>2, <1>9, BecomesIs
<1> QED
  BY <1>1, <1>8, <1>13, <1>14, <1>15 DEF IInv

LEMMA SavesCut ==
  ASSUME NEW h \in History, NEW j \in 0..Len(h.saves)
  PROVE  /\ SubSeq(h.saves, 1, j) \in Seq([Rec -> Record]) /\ Len(SubSeq(h.saves, 1, j)) = j
         /\ [h EXCEPT !.saves = SubSeq(@, 1, j)] \in History
         /\ [h EXCEPT !.saves = SubSeq(@, 1, j)].saves = SubSeq(h.saves, 1, j)
<1> DEFINE l == SubSeq(h.saves, 1, j)
<1>1. h.saves \in Seq([Rec -> Record])
  BY DEF History
<1>2. l \in Seq([Rec -> Record]) /\ Len(l) = j
  BY <1>1
<1> HIDE DEF l
<1>3. [h EXCEPT !.saves = l] \in History /\ [h EXCEPT !.saves = l].saves = l
  BY <1>2 DEF History
<1> QED
  BY <1>2, <1>3 DEF l

(* The first j levels are left, with m updates.                             *)
LEMMA BeginsCut ==
  ASSUME NEW p \in Levels, BeginsSound(p), NEW c \in Levels, NEW j \in 0..Len(p.begins), Len(c.begins) = j,
         \A i \in 1..j : c.begins[i] = p.begins[i] /\ p.begins[i] <= Len(c.pending) + 1
  PROVE  BeginsSound(c)
<1> DEFINE n == Len(p.begins)
           L == Len(p.pending)
           m == Len(c.pending)
<1>1. n \in Nat /\ L \in Nat /\ m \in Nat /\ j \in Nat /\ DOMAIN p.begins = 1..n /\ DOMAIN c.begins = 1..j
  BY DEF Levels
<1>2. /\ \A i \in 1..n : p.begins[i] \in 1..(L + 1)
      /\ \A i \in 1..n : p.begins[1] = 1
      /\ \A i1, i2 \in 1..n : i1 <= i2 => p.begins[i1] <= p.begins[i2]
  BY <1>1 DEF BeginsSound
<1>3. \A i \in 1..j : c.begins[i] = p.begins[i] /\ p.begins[i] <= m + 1
  OBVIOUS
<1>4. j <= n
  OBVIOUS
<1> HIDE DEF n, L, m
<1>5. \A i \in 1..j : i \in 1..n
  BY <1>1, <1>4
<1>6. \A i \in 1..j : c.begins[i] \in 1..(m + 1)
  BY <1>1, <1>2, <1>3, <1>5
<1>7. \A i \in 1..j : c.begins[1] = 1
  <2> SUFFICES ASSUME NEW i \in 1..j PROVE c.begins[1] = 1
    OBVIOUS
  <2>1. 1 \in 1..j
    BY <1>1
  <2> QED
    BY <1>2, <1>3, <1>5, <2>1
<1>8. \A i1, i2 \in 1..j : i1 <= i2 => c.begins[i1] <= c.begins[i2]
  BY <1>2, <1>3, <1>5
<1> QED
  BY <1>1, <1>6, <1>7, <1>8 DEF BeginsSound, m

Shallow(p, j) == [p EXCEPT !.begins = SubSeq(@, 1, j)]

LEMMA ShallowIs ==
  ASSUME NEW p \in Levels, NEW j \in 0..Len(p.begins)
  PROVE  LET c == Shallow(p, j)
         IN /\ c \in Levels /\ c.active = p.active /\ c.pending = p.pending /\ c.writing = p.writing
            /\ c.save = p.save /\ c.failed = p.failed
            /\ Len(c.begins) = j /\ \A i \in 1..j : c.begins[i] = p.begins[i]
<1> DEFINE b == SubSeq(p.begins, 1, j)
           c == Shallow(p, j)
<1>1. p.begins \in Seq(Nat) /\ j \in Nat
  BY DEF Levels
<1>2. b \in Seq(Nat) /\ Len(b) = j /\ \A i \in 1..j : b[i] = p.begins[i]
  BY <1>1
<1>3. c = [p EXCEPT !.begins = b]
  BY DEF Shallow
<1> HIDE DEF b, c
<1>4. /\ c \in Levels /\ c.active = p.active /\ c.pending = p.pending /\ c.writing = p.writing
      /\ c.save = p.save /\ c.failed = p.failed /\ c.begins = b
  BY <1>2, <1>3 DEF Levels
<1> QED
  BY <1>2, <1>4 DEF c

(* Only the levels change, which stay active.                               *)
LEMMA RelevelStep ==
  ASSUME IInv, tran.writing = 0, NEW p \in Levels, p.pending = tabCommit(St).tran.pending,
         Todo(p) = Todo(tabCommit(St).tran), p.save = tabCommit(St).tran.save, p.active, tran.active,
         Becomes([tabCommit(St) EXCEPT !.tran = p]), hist' \in History,
         p.writing = 0 => p.begins # <<>> /\ Len(hist'.saves) = Len(p.begins),
         p.writing > 0 => /\ p.begins = <<>> /\ p.writing <= Len(p.pending) + 1
                          /\ Len(hist'.saves) = 1,
         BeginsSound(p), SavesHold([tabCommit(St) EXCEPT !.tran = p], hist'), UNCHANGED <<others, use>>
  PROVE  IInv'
<1> DEFINE s == tabCommit(St)
           v == [s EXCEPT !.tran = p]
<1>1. /\ Sound(s, others) /\ ~s.tab.modif /\ s.tran.writing = 0 /\ s \in State
      /\ LevelsSound(s, hist, use) /\ s.tran.active = tran.active
  BY CommitFirst, CommitLevels
<1> HIDE DEF s
<1>2. s.tran.save = -1
  BY <1>1 DEF Sound, IdSound
<1>3. Sound(v, others) /\ v = Of(s.file, s.tab, p)
  BY <1>1, <1>2, RelevelSound DEF s
<1>4. Becomes(v) /\ SavesHold(v, hist')
  BY DEF s
<1> HIDE DEF v
<1>5. v \in State /\ v.tran = p /\ v.tab = s.tab
  BY <1>3 DEF Sound, Of
<1>6. Load(v) = Load(s)
  BY <1>5 DEF Load, s
<1>7. LevelsSound(v, hist', use)
  BY <1>1, <1>5, <1>6 DEF LevelsSound
<1>8. St' = v
  BY <1>4, <1>5, BecomesIs
<1> QED
  BY <1>3, <1>4, <1>7, <1>8 DEF IInv

LEMMA CommitLevelStep ==
  ASSUME IInv, NEW tx \in 1..MaxDepth, CommitLevel(tx)
  PROVE  IInv'
<1> DEFINE s == tabCommit(St)
           p == s.tran
           j == tx - 1
           p2 == Shallow(p, j)
           v == [s EXCEPT !.tran = p2]
           h2 == [hist EXCEPT !.saves = SubSeq(@, 1, j)]
<1>1. tran.writing = 0 /\ hist' = h2 /\ UNCHANGED <<others, use>> /\ tx \in 2..Len(tran.begins)
  BY DEF CommitLevel, Calls, Depth
<1>2. Becomes(v)
  <2>1. v = [s EXCEPT !.tran.begins = SubSeq(@, 1, j)]
    BY DEF Shallow
  <2> HIDE DEF v
  <2> QED
    BY <2>1 DEF CommitLevel
<1>3. /\ Sound(s, others) /\ p.writing = 0 /\ s \in State /\ SameLevels(s, St)
      /\ LevelsSound(s, hist, use)
  BY <1>1, CommitFirst, CommitLevels
<1>4. /\ p \in Levels /\ BeginsSound(p) /\ Len(hist.saves) = Len(p.begins) /\ hist \in History
      /\ (~p.active => p.begins = <<>>) /\ p.begins = tran.begins /\ p.active = tran.active
      /\ Len(p.pending) \in Nat /\ p.begins \in Seq(Nat)
  BY <1>3, StIs, StateFields DEF LevelsSound, Sound, SameLevels, Levels
<1> HIDE DEF v, s, p
<1>5. j \in 0..Len(p.begins) /\ j \in Nat /\ j >= 1 /\ Len(p.begins) \in Nat /\ tran.active
  <2>1. Len(p.begins) \in Nat /\ tx \in 2..Len(p.begins)
    BY <1>1, <1>4
  <2>2. p.begins # <<>>
    BY <2>1
  <2> DEFINE K == Len(p.begins)
  <2> HIDE DEF K
  <2>3. j \in 0..K /\ j \in Nat /\ j >= 1
    BY <2>1 DEF K
  <2> QED
    BY <1>4, <2>1, <2>2, <2>3 DEF K
<1>6. /\ p2 \in Levels /\ p2.active = p.active /\ p2.pending = p.pending /\ p2.writing = p.writing
      /\ p2.save = p.save /\ Len(p2.begins) = j /\ \A i \in 1..j : p2.begins[i] = p.begins[i]
  BY <1>4, <1>5, ShallowIs
<1> HIDE DEF p2
<1>7. BeginsSound(p2)
  <2>1. \A i \in 1..j : p.begins[i] <= Len(p.pending) + 1
    <3>1. \A i \in DOMAIN p.begins : p.begins[i] \in 1..(Len(p.pending) + 1)
      BY <1>4 DEF BeginsSound
    <3>2. DOMAIN p.begins = 1..Len(p.begins)
      BY <1>4
    <3> DEFINE K == Len(p.begins)
    <3> HIDE DEF K
    <3>3. \A i \in 1..j : i \in 1..K
      BY <1>5 DEF K
    <3>4. \A i \in 1..j : p.begins[i] \in 1..(Len(p.pending) + 1)
      BY <3>1, <3>2, <3>3 DEF K
    <3> DEFINE L == Len(p.pending)
    <3>5. L \in Nat /\ \A i \in 1..j : p.begins[i] \in 1..(L + 1)
      BY <1>4, <3>4
    <3> HIDE DEF L, j
    <3>6. \A i \in 1..j : p.begins[i] <= L + 1
      BY <3>5
    <3> QED
      BY <3>6 DEF L
  <2> HIDE DEF j
  <2> QED
    BY <1>4, <1>5, <1>6, <2>1, BeginsCut
<1>8. h2 \in History /\ Len(h2.saves) = j
  <2> HIDE DEF j
  <2>1. j \in 0..Len(hist.saves)
    BY <1>4, <1>5
  <2>2. h2 \in History /\ h2.saves = SubSeq(hist.saves, 1, j) /\ Len(SubSeq(hist.saves, 1, j)) = j
    BY <1>4, <2>1, SavesCut
  <2> HIDE DEF h2
  <2> QED
    BY <2>2
<1> HIDE DEF h2, j
<1>9. Todo(p2) = Todo(p)
  BY <1>6 DEF Todo
<1>10. p2.begins # <<>> /\ p2.writing = 0
  BY <1>3, <1>5, <1>6
<1>11. SavesHold(v, h2)
  <2>1. v.tran = p2
    BY <1>3, OfIs DEF v, Of
  <2>2. ~(v.tran.writing > 0)
    BY <1>10, <2>1
  <2> QED
    BY <2>2 DEF SavesHold
<1>12. /\ p2.pending = tabCommit(St).tran.pending /\ Todo(p2) = Todo(tabCommit(St).tran)
       /\ p2.save = tabCommit(St).tran.save /\ p2.active /\ Becomes([tabCommit(St) EXCEPT !.tran = p2])
       /\ SavesHold([tabCommit(St) EXCEPT !.tran = p2], hist')
  BY <1>1, <1>2, <1>4, <1>5, <1>6, <1>9, <1>11 DEF v, p, s
<1>13. hist' \in History /\ Len(hist'.saves) = Len(p2.begins) /\ ~(p2.writing > 0)
  BY <1>1, <1>6, <1>8, <1>10
<1> QED
  BY <1>1, <1>5, <1>6, <1>7, <1>10, <1>12, <1>13, RelevelStep

Outermost(p) == [p EXCEPT !.begins = <<>>, !.writing = 1]

LEMMA OutermostIs ==
  ASSUME NEW p \in Levels, p.writing = 0
  PROVE  LET c == Outermost(p)
         IN /\ c \in Levels /\ c.active = p.active /\ c.pending = p.pending /\ c.writing = 1
            /\ c.save = p.save /\ c.failed = p.failed /\ c.begins = <<>> /\ BeginsSound(c)
            /\ Todo(c) = Todo(p)
<1> DEFINE c == Outermost(p)
<1>1. <<>> \in Seq(Nat) /\ 1 \in Nat
  OBVIOUS
<1>2. /\ c \in Levels /\ c.active = p.active /\ c.pending = p.pending /\ c.writing = 1
      /\ c.save = p.save /\ c.failed = p.failed /\ c.begins = <<>>
  BY <1>1 DEF Levels, Outermost
<1> HIDE DEF c
<1>3. BeginsSound(c)
  <2>1. DOMAIN c.begins = {}
    BY <1>2
  <2> QED
    BY <2>1 DEF BeginsSound
<1>4. \A n \in DOMAIN p.pending : n >= 1 /\ n >= 0
  BY DEF Levels
<1>5. Todo(c) = Todo(p)
  BY <1>2, <1>4 DEF Todo
<1> QED
  BY <1>2, <1>3, <1>5 DEF c

LEMMA CommitStep ==
  ASSUME IInv, tranCommit
  PROVE  IInv'
<1> DEFINE s == tabCommit(St)
           p == s.tran
           p2 == Outermost(p)
           v == [s EXCEPT !.tran = p2]
           w == View(s)
           h2 == [hist EXCEPT !.saves = <<w>>]
<1>1. tran.writing = 0 /\ hist' = h2 /\ UNCHANGED <<others, use>> /\ Len(tran.begins) > 0
  BY DEF tranCommit, Calls, Depth
<1>2. Becomes(v)
  <2>1. v = [s EXCEPT !.tran.begins = <<>>, !.tran.writing = 1]
    BY DEF Outermost
  <2> HIDE DEF v
  <2> QED
    BY <2>1 DEF tranCommit
<1>3. /\ Sound(s, others) /\ p.writing = 0 /\ s \in State /\ SameLevels(s, St)
      /\ LevelsSound(s, hist, use)
  BY <1>1, CommitFirst, CommitLevels
<1>4. /\ p \in Levels /\ hist \in History /\ (~p.active => p.begins = <<>>) /\ p.begins = tran.begins
      /\ p.active = tran.active /\ Len(p.pending) \in Nat
  BY <1>3, StIs, StateFields DEF LevelsSound, Sound, SameLevels
<1>5. /\ w \in [Rec -> Record]
      /\ \A r \in Rec :
           /\ r \notin DOMAIN s.file.rec => w[r] = Gone
           /\ r \in DOMAIN s.file.rec =>
                \E b : /\ Shows(s.file.rec, p.pending, Todo(p), r, b)
                       /\ w[r] = IF b.del THEN Gone ELSE b
  BY <1>3, ViewIs
<1> HIDE DEF v, s, p, w
<1>6. tran.active
  <2>1. tran.begins # <<>>
    BY <1>1
  <2> QED
    BY <1>4, <2>1
<1>7. /\ p2 \in Levels /\ p2.active = p.active /\ p2.pending = p.pending /\ p2.writing = 1
      /\ p2.save = p.save /\ p2.begins = <<>> /\ BeginsSound(p2) /\ Todo(p2) = Todo(p)
  BY <1>3, <1>4, OutermostIs
<1> HIDE DEF p2
<1>8. h2 \in History /\ h2.saves = <<w>> /\ Len(h2.saves) = 1 /\ h2.saves[1] = w
  <2>1. <<w>> \in Seq([Rec -> Record]) /\ Len(<<w>>) = 1 /\ <<w>>[1] = w
    BY <1>5
  <2> DEFINE l == <<w>>
  <2> HIDE DEF l
  <2>2. [hist EXCEPT !.saves = l] \in History /\ [hist EXCEPT !.saves = l].saves = l
    BY <1>4, <2>1 DEF History, l
  <2> QED
    BY <2>1, <2>2 DEF l
<1> HIDE DEF h2
<1>9. SavesHold(v, h2)
  <2>1. v.tran = p2 /\ v.file = s.file
    BY <1>3, OfIs DEF v, Of
  <2> QED
    BY <1>5, <1>7, <1>8, <2>1 DEF SavesHold
<1>10. 1 <= Len(p2.pending) + 1
  BY <1>4, <1>7
<1>11. p2.writing > 0 /\ p2.writing # 0
  BY <1>7
<1> QED
  BY <1>1, <1>2, <1>4, <1>6, <1>7, <1>8, <1>9, <1>10, <1>11, RelevelStep DEF v, p, s

LEMMA WriteStep ==
  ASSUME IInv, WritePending
  PROVE  IInv'
<1> DEFINE n == CHOOSE i \in ToWrite : \A j \in ToWrite : i <= j
           v == [CommitPending(St, n) EXCEPT !.tab.tranid = FALSE, !.tran.writing = n + 1,
                   !.tran.save = IF St.tab.tranid THEN St.tab.pos ELSE @]
           T == Todo(tran)
<1>1. ToWrite # {} /\ UNCHANGED <<others, use, hist>>
  BY DEF WritePending
<1>2. Becomes(v)
  BY DEF WritePending, St
<1>3. tran.writing > 0 /\ ToWrite = T
  BY <1>1 DEF ToWrite, Todo
<1>4. St.file = file /\ St.tab = tab /\ St.tran = tran /\ Sound(St, others) /\ St \in State
  BY StIs DEF IInv, Sound
<1>5. /\ tran \in Levels /\ DOMAIN tran.pending = 1..Len(tran.pending) /\ Len(tran.pending) \in Nat
      /\ tran.writing \in Nat
  BY <1>4, StateFields
<1>6. T \in SUBSET Nat /\ T # {}
  BY <1>1, <1>3, <1>5 DEF Todo
<1>7. n \in T /\ \A j \in T : n <= j
  <2> HIDE DEF T
  <2>1. \E i \in T : \A j \in T : i <= j
    BY <1>6, Least
  <2> QED
    BY <1>3, <2>1
<1> HIDE DEF n
<1>8. WrittenOut(v, St, others, n)
  BY <1>3, <1>4, <1>7, NextWritten
<1> HIDE DEF v
<1>9. /\ Sound(v, others) /\ ~v.tab.modif /\ DOMAIN v.file.rec = DOMAIN file.rec
      /\ \A r, b : Shows(file.rec, tran.pending, T, r, b) => Shows(v.file.rec, v.tran.pending, Todo(v.tran), r, b)
      /\ v.tran \in Levels /\ v.tran.active = tran.active /\ v.tran.begins = tran.begins
      /\ v.tran.pending = tran.pending /\ v.tran.writing = n + 1
  BY <1>4, <1>8 DEF WrittenOut, Went
<1>10. n \in 1..Len(tran.pending)
  BY <1>5, <1>7 DEF Todo
<1>11. /\ ~tab.modif /\ v \in State
  BY <1>3, <1>4, <1>9 DEF Sound, TabSound
<1>12. LevelsSound(v, hist, use)
  <2>1. LevelsSound(St, hist, use)
    BY DEF IInv
  <2>2. Load(v) = Load(St)
    BY <1>4, <1>9, <1>11 DEF Load
  <2>3. n + 1 > 0 /\ n + 1 <= Len(tran.pending) + 1 /\ n + 1 # 0
    <3> DEFINE L == Len(tran.pending)
    <3>1. L \in Nat /\ n \in 1..L
      BY <1>5, <1>10
    <3> HIDE DEF L
    <3>2. n + 1 > 0 /\ n + 1 <= L + 1 /\ n + 1 # 0
      BY <3>1
    <3> QED
      BY <3>2 DEF L
  <2>4. BeginsSound(v.tran)
    BY <1>4, <1>9, <2>1 DEF LevelsSound, BeginsSound
  <2> QED
    BY <1>3, <1>4, <1>9, <2>1, <2>2, <2>3, <2>4 DEF LevelsSound
<1>13. SavesHold(v, hist)
  <2>1. SavesHold(St, hist)
    BY DEF IInv
  <2> HIDE DEF T
  <2>2. \A r \in Rec :
          /\ r \notin DOMAIN file.rec => hist.saves[1][r] = Gone
          /\ r \in DOMAIN file.rec => \E b : /\ Shows(file.rec, tran.pending, T, r, b)
                                             /\ hist.saves[1][r] = IF b.del THEN Gone ELSE b
    BY <1>3, <1>4, <2>1 DEF SavesHold, T
  <2> QED
    BY <1>9, <2>2 DEF SavesHold
<1>14. St' = v
  BY <1>2, <1>11, BecomesIs
<1> QED
  BY <1>1, <1>9, <1>12, <1>13, <1>14 DEF IInv

(* Where nothing is pending the process sees the file.                      *)
LEMMA FileViewed ==
  ASSUME NEW v, NEW oth, Sound(v, oth), v.tran.writing = 0, Todo(v.tran) = {}, NEW r \in Rec
  PROVE  View(v)[r] = IF r \notin DOMAIN v.file.rec THEN Gone
                      ELSE IF v.file.rec[r].del THEN Gone ELSE v.file.rec[r]
<1>1. r \notin DOMAIN v.file.rec => View(v)[r] = Gone
  BY ViewIs
<1>2. ASSUME r \in DOMAIN v.file.rec
      PROVE  View(v)[r] = IF v.file.rec[r].del THEN Gone ELSE v.file.rec[r]
  <2>1. PICK b : /\ Shows(v.file.rec, v.tran.pending, {}, r, b)
                 /\ View(v)[r] = IF b.del THEN Gone ELSE b
    BY <1>2, ViewIs
  <2>2. b = v.file.rec[r]
    BY <2>1 DEF Shows, None
  <2> QED
    BY <2>1, <2>2
<1> QED
  BY <1>1, <1>2

LEMMA EndStep ==
  ASSUME IInv, EndCommit
  PROVE  IInv' /\ View(St)' = hist.saves[1]
<1> DEFINE v == [tranClearTransactionID(IF St.tran.save = -1 THEN St ELSE Goto(St, St.tran.save), FALSE)
                   EXCEPT !.tran = Finished(St.tran)]
           h2 == [saves |-> <<>>, held |-> {}]
<1>1. tran.writing > 0 /\ ToWrite = {} /\ hist' = h2 /\ UNCHANGED <<others, use>>
  BY DEF EndCommit
<1>2. Becomes(v)
  BY DEF EndCommit, Finished, St
<1>3. /\ St.file = file /\ St.tab = tab /\ St.tran = tran /\ Sound(St, others) /\ St \in State
      /\ tran \in Levels
  BY StIs, StateFields DEF IInv, Sound
<1>4. Todo(tran) = {}
  BY <1>1 DEF ToWrite, Todo
<1>5. CommitOver(v, St, others)
  BY <1>1, <1>3, <1>4, EndSound
<1> HIDE DEF v
<1>6. Sound(v, others) /\ v.file = file /\ ~v.tab.modif /\ v.tran = Finished(tran) /\ v \in State
  BY <1>3, <1>5 DEF CommitOver, Sound
<1>7. /\ ~v.tran.active /\ v.tran.begins = tran.begins /\ v.tran.pending = <<>> /\ v.tran.writing = 0
  BY <1>3, <1>6, FinishedIs
<1>8. tran.begins = <<>> /\ use \in Uses /\ hist \in History /\ Len(hist.saves) = 1
  BY <1>1, <1>3 DEF IInv, LevelsSound
<1>9. h2 \in History /\ Len(h2.saves) = 0
  BY DEF History
<1> HIDE DEF h2
<1>10. LevelsSound(v, h2, use)
  <2>1. DOMAIN v.tran.begins = {}
    BY <1>7, <1>8
  <2>2. BeginsSound(v.tran)
    BY <2>1 DEF BeginsSound
  <2>3. Len(v.tran.begins) = 0
    BY <1>7, <1>8
  <2> QED
    BY <1>7, <1>8, <1>9, <2>2, <2>3 DEF LevelsSound
<1>11. SavesHold(v, h2)
  BY <1>7 DEF SavesHold
<1>12. St' = v
  BY <1>2, <1>6, BecomesIs
<1>13. IInv'
  BY <1>1, <1>6, <1>10, <1>11, <1>12 DEF IInv
<1>14. View(v) = hist.saves[1]
  <2>1. Todo(v.tran) = {}
    <3>1. DOMAIN v.tran.pending = {}
      BY <1>7
    <3> QED
      BY <3>1 DEF Todo
  <2>2. ASSUME NEW r \in Rec PROVE View(v)[r] = hist.saves[1][r]
    <3>1. View(v)[r] = IF r \notin DOMAIN file.rec THEN Gone
                       ELSE IF file.rec[r].del THEN Gone ELSE file.rec[r]
      BY <1>6, <1>7, <2>1, FileViewed
    <3>2. /\ r \notin DOMAIN file.rec => hist.saves[1][r] = Gone
          /\ r \in DOMAIN file.rec => \E b : /\ Shows(file.rec, tran.pending, {}, r, b)
                                             /\ hist.saves[1][r] = IF b.del THEN Gone ELSE b
      BY <1>1, <1>3, <1>4 DEF IInv, SavesHold
    <3>3. \A b : Shows(file.rec, tran.pending, {}, r, b) => b = file.rec[r]
      BY DEF Shows, None
    <3> QED
      BY <3>1, <3>2, <3>3
  <2>3. View(v) \in [Rec -> Record]
    BY <1>6, <1>7, ViewIs
  <2>4. hist.saves[1] \in [Rec -> Record]
    <3>1. hist.saves \in Seq([Rec -> Record])
      BY <1>8 DEF History
    <3> QED
      BY <1>8, <3>1
  <2> DEFINE a == View(v)
             b == hist.saves[1]
  <2>5. a \in [Rec -> Record] /\ b \in [Rec -> Record] /\ \A r \in Rec : a[r] = b[r]
    BY <2>2, <2>3, <2>4
  <2> HIDE DEF a, b
  <2>6. a = b
    BY <2>5
  <2> QED
    BY <2>6 DEF a, b
<1>15. View(St)' = View(v)
  <2>1. View(St)' = View(St')
    BY DEF View, UpdatesOf, tranLastRecordUpdate, LastOf
  <2> QED
    BY <1>12, <2>1
<1> QED
  BY <1>13, <1>14, <1>15

(* What is left of the levels when level j + 1 has been rolled back.        *)
Back(f, s, m, j) ==
  /\ Forgotten(f, s, others, m, j) /\ Short(f.tran, s.tran, m, j) /\ f.tran.writing = 0 /\ f.tran.save = -1
  /\ f \in State /\ BeginsSound(f.tran) /\ f.tran.active
  /\ Len(f.tran.begins) = j /\ Len(f.tran.pending) = m
  /\ Load(f) <= use.pending /\ use \in Uses /\ hist \in History /\ j \in 0..Len(hist.saves)
  /\ j = 0 => m = 0

LEMMA RolledBack ==
  ASSUME IInv, tran.writing = 0, NEW tx \in 1..Depth
  PROVE  LET s == tabCommit(St)
         IN Back(Reposition(Forget(s, tx)), s, s.tran.begins[tx] - 1, tx - 1)
<1> DEFINE s == tabCommit(St)
           p == s.tran
           m == p.begins[tx] - 1
           j == tx - 1
           f == Reposition(Forget(s, tx))
<1>1. /\ Sound(s, others) /\ ~s.tab.modif /\ p.writing = 0 /\ s \in State /\ SameLevels(s, St)
      /\ LevelsSound(s, hist, use)
  BY CommitFirst, CommitLevels
<1>2. /\ p \in Levels /\ BeginsSound(p) /\ Len(hist.saves) = Len(p.begins) /\ hist \in History
      /\ (~p.active => p.begins = <<>>) /\ p.begins = tran.begins /\ use \in Uses
      /\ Len(p.pending) \in Nat /\ p.begins \in Seq(Nat) /\ p.save = -1
      /\ p.active => Load(s) <= use.pending
  BY <1>1, StIs, StateFields DEF LevelsSound, Sound, SameLevels, Levels, IdSound
<1>3. tx \in DOMAIN p.begins /\ DOMAIN p.begins = 1..Len(p.begins) /\ Len(p.begins) \in Nat /\ tx \in Nat
  BY <1>2 DEF Depth
<1>4. p.begins[tx] \in 1..(Len(p.pending) + 1)
  BY <1>2, <1>3 DEF BeginsSound
<1>5. Forgotten(f, s, others, m, j)
  BY <1>1, <1>3, <1>4, ForgetSound
<1>6. p.active
  <2>1. p.begins # <<>>
    BY <1>3
  <2> QED
    BY <1>2, <2>1
<1> HIDE DEF s, f
<1>7. m \in 0..Len(p.pending) /\ j \in 0..Len(p.begins) /\ j \in Nat /\ m \in Nat
  <2> DEFINE x == p.begins[tx]
             L == Len(p.pending)
             B == Len(p.begins)
  <2>1. L \in Nat /\ B \in Nat /\ x \in 1..(L + 1) /\ tx \in 1..B
    BY <1>2, <1>3, <1>4
  <2> HIDE DEF x, L, B
  <2>2. x - 1 \in 0..L /\ tx - 1 \in 0..B /\ tx - 1 \in Nat /\ x - 1 \in Nat
    BY <2>1
  <2> QED
    BY <2>2 DEF x, L, B
<1>8. Short(f.tran, p, m, j)
  <2> HIDE DEF p, m, j
  <2>1. Short(Cut(p, m, j), p, m, j)
    BY <1>1, <1>2, <1>7, CutIs
  <2>2. f.tran = Cut(p, m, j)
    BY <1>5 DEF Forgotten, p
  <2> QED
    BY <2>1, <2>2
<1>9. Sound(f, others) /\ f \in State /\ ~f.tab.modif
  BY <1>5 DEF Forgotten, Sound
<1>10. BeginsSound(f.tran)
  <2>1. \A i \in 1..j : f.tran.begins[i] = p.begins[i]
    BY <1>8 DEF Short
  <2>2. \A i \in 1..j : p.begins[i] <= Len(f.tran.pending) + 1
    <3>1. Len(f.tran.pending) = m
      BY <1>8 DEF Short
    <3>2. \A i \in 1..j : i \in DOMAIN p.begins /\ i <= tx
      <4> DEFINE B == Len(p.begins)
      <4>1. B \in Nat /\ tx \in 1..B
        BY <1>3
      <4> HIDE DEF B
      <4>2. \A i \in 1..(tx - 1) : i \in 1..B /\ i <= tx
        BY <4>1
      <4> QED
        BY <1>3, <4>2 DEF B
    <3>3. \A i \in 1..j : p.begins[i] <= p.begins[tx]
      BY <1>2, <1>3, <3>2 DEF BeginsSound
    <3>4. p.begins[tx] = m + 1
      BY <1>4
    <3> QED
      BY <3>1, <3>3, <3>4
  <2>3. f.tran \in Levels /\ Len(f.tran.begins) = j
    BY <1>8 DEF Short
  <2> HIDE DEF j, m, p
  <2> QED
    BY <1>2, <1>7, <2>1, <2>2, <2>3, BeginsCut
<1>11. Load(f) <= use.pending
  <2>1. Load(f) = m
    <3>1. Load(f) = Len(f.tran.pending)
      BY <1>9, LoadClean
    <3>2. Len(f.tran.pending) = m
      BY <1>8 DEF Short
    <3> QED
      BY <3>1, <3>2
  <2>2. Load(s) = Len(p.pending)
    BY <1>1, LoadClean
  <2>3. use.pending \in Nat
    BY <1>2, UsesAssumption
  <2>4. Len(p.pending) <= use.pending
    BY <1>2, <1>6, <2>2
  <2> DEFINE L == Len(p.pending)
  <2>5. L \in Nat /\ m \in 0..L /\ L <= use.pending
    BY <1>2, <1>7, <2>4
  <2> HIDE DEF L, m
  <2> QED
    BY <2>1, <2>3, <2>5
<1>12. j = 0 => m = 0
  <2>1. ASSUME j = 0 PROVE m = 0
    <3>1. tx = 1
      BY <1>3, <2>1
    <3>2. p.begins[1] = 1
      BY <1>2, <1>3 DEF BeginsSound
    <3> QED
      BY <3>1, <3>2
  <2> QED
    BY <2>1
<1>13. f.tran.writing = 0 /\ f.tran.save = -1 /\ f.tran.active /\ Len(f.tran.begins) = j /\ Len(f.tran.pending) = m
  BY <1>1, <1>2, <1>6, <1>8 DEF Short
<1>14. j \in 0..Len(hist.saves)
  <2> HIDE DEF j
  <2> QED
    BY <1>2, <1>7
<1> HIDE DEF m, j
<1>15. Back(f, s, m, j)
  BY <1>2, <1>5, <1>8, <1>9, <1>10, <1>11, <1>12, <1>13, <1>14 DEF Back, p
<1> QED
  BY <1>15 DEF m, j, p, f, s

Left(p) == [p EXCEPT !.active = FALSE]

LEMMA LeftIs ==
  ASSUME NEW p \in Levels
  PROVE  LET c == Left(p)
         IN /\ c \in Levels /\ ~c.active /\ c.begins = p.begins /\ c.pending = p.pending
            /\ c.writing = p.writing /\ c.save = p.save /\ Todo(c) = Todo(p)
<1> DEFINE c == Left(p)
<1>1. /\ c \in Levels /\ ~c.active /\ c.begins = p.begins /\ c.pending = p.pending
      /\ c.writing = p.writing /\ c.save = p.save
  BY DEF Left, Levels
<1> HIDE DEF c
<1>2. Todo(c) = Todo(p)
  BY <1>1 DEF Todo
<1> QED
  BY <1>1, <1>2 DEF c

(* The outermost level is gone.                                             *)
LEMMA LeftSound ==
  ASSUME NEW f, Sound(f, others), ~f.tab.modif, Len(f.tran.pending) = 0, Len(f.tran.begins) = 0,
         f.tran.writing = 0, f.tran.save = -1
  PROVE  LET c == tranClearTransactionID([f EXCEPT !.tran.active = FALSE], TRUE)
         IN /\ Sound(c, others) /\ ~c.tab.modif /\ ~c.tran.active /\ c.tran.begins = <<>>
            /\ c.tran.pending = <<>> /\ c.tran.writing = 0
<1> DEFINE p == f.tran
           p2 == Left(p)
           z == [f EXCEPT !.tran = p2]
           c == tranClearTransactionID(z, TRUE)
<1>1. z = [f EXCEPT !.tran.active = FALSE]
  BY DEF Left
<1>2. p \in Levels /\ f \in State /\ p.pending \in Seq(Update) /\ p.begins \in Seq(Nat)
  BY StateFields DEF Sound, Levels
<1>3. p.pending = <<>> /\ p.begins = <<>>
  BY <1>2
<1>4. /\ p2 \in Levels /\ ~p2.active /\ p2.begins = p.begins /\ p2.pending = p.pending
      /\ p2.writing = p.writing /\ p2.save = p.save /\ Todo(p2) = Todo(p)
  BY <1>2, LeftIs
<1> HIDE DEF p2
<1>5. Sound(z, others) /\ z = Of(f.file, f.tab, p2)
  BY <1>3, <1>4, RelevelSound
<1> HIDE DEF z
<1>6. z.tran = p2 /\ z.tab = f.tab
  BY <1>5 DEF Of
<1>7. Ended(c, z, others, TRUE)
  BY <1>3, <1>4, <1>5, <1>6, ClearSound
<1> HIDE DEF c
<1>8. /\ Sound(c, others) /\ ~c.tab.modif /\ ~c.tran.active /\ c.tran.begins = <<>>
      /\ c.tran.pending = <<>> /\ c.tran.writing = 0
  BY <1>3, <1>4, <1>6, <1>7 DEF Ended
<1> QED
  BY <1>1, <1>8 DEF c

LEMMA RollbackStep ==
  ASSUME IInv, NEW tx \in 1..MaxDepth, tranRollback(tx)
  PROVE  IInv'
<1> DEFINE s == tabCommit(St)
           f == Reposition(Forget(s, tx))
           m == s.tran.begins[tx] - 1
           j == tx - 1
           c == tranClearTransactionID([f EXCEPT !.tran.active = FALSE], TRUE)
           l2 == SubSeq(hist.saves, 1, j)
           h2 == [saves |-> l2, held |-> IF tx > 1 THEN hist.held ELSE {}]
<1>1. tran.writing = 0 /\ hist' = h2 /\ UNCHANGED <<others, use>> /\ tx \in 1..Depth
  BY DEF tranRollback, Calls
<1>2. IF tx > 1 THEN Becomes(f)
      ELSE IF c.file = f.file THEN Becomes(c)
      ELSE \E n \in {GoEOF(c)} \cup {SetPos(c, e[2]) : e \in c.file.index} : Becomes(n)
  BY DEF tranRollback
<1>3. Back(f, s, m, j)
  BY <1>1, RolledBack
<1> HIDE DEF s, f, m
<1>4. /\ Sound(f, others) /\ ~f.tab.modif /\ f.tran.writing = 0 /\ f.tran.save = -1 /\ f \in State
      /\ BeginsSound(f.tran) /\ f.tran.active /\ Len(f.tran.begins) = j /\ Len(f.tran.pending) = m
      /\ Load(f) <= use.pending /\ use \in Uses /\ hist \in History /\ j \in 0..Len(hist.saves)
      /\ j = 0 => m = 0
  BY <1>3 DEF Back, Forgotten
<1>5. l2 \in Seq([Rec -> Record]) /\ Len(l2) = j
  <2> HIDE DEF j
  <2> QED
    BY <1>4, SavesCut
<1> HIDE DEF l2
<1>6. h2 \in History /\ h2.saves = l2
  BY <1>4, <1>5 DEF History
<1> HIDE DEF h2
<1>7. tx \in Nat \ {0}
  BY BoundAssumption
<1>8. CASE tx > 1
  <2>1. f.tran.begins # <<>>
    BY <1>4, <1>7, <1>8
  <2>2. LevelsSound(f, h2, use)
    <3> HIDE DEF j
    <3> QED
      BY <1>4, <1>5, <1>6, <2>1 DEF LevelsSound
  <2>3. SavesHold(f, h2)
    BY <1>4 DEF SavesHold
  <2>4. St' = f
    BY <1>2, <1>4, <1>8, BecomesIs
  <2> QED
    BY <1>1, <1>4, <2>2, <2>3, <2>4 DEF IInv
<1>9. CASE ~(tx > 1)
  <2>1. j = 0
    BY <1>7, <1>9
  <2>2. Len(f.tran.pending) = 0 /\ Len(f.tran.begins) = 0
    BY <1>4, <2>1
  <2>3. /\ Sound(c, others) /\ ~c.tab.modif /\ ~c.tran.active /\ c.tran.begins = <<>>
        /\ c.tran.pending = <<>> /\ c.tran.writing = 0
    BY <1>4, <2>2, LeftSound
  <2> HIDE DEF c
  <2>4. \E n : n \in State /\ Becomes(n) /\ Sound(n, others) /\ n.tran = c.tran
    <3>1. CASE Becomes(c)
      BY <2>3, <3>1 DEF Sound
    <3>2. CASE ~Becomes(c)
      <4>1. PICK n \in {GoEOF(c)} \cup {SetPos(c, e[2]) : e \in c.file.index} : Becomes(n)
        BY <1>2, <1>9, <3>2
      <4>2. Elsewhere(n, c, others)
        BY <2>3, AnyPlace
      <4> QED
        BY <4>1, <4>2 DEF Elsewhere, Sound
    <3> QED
      BY <3>1, <3>2
  <2>5. PICK n : n \in State /\ Becomes(n) /\ Sound(n, others) /\ n.tran = c.tran
    BY <2>4
  <2>6. LevelsSound(n, h2, use)
    <3>1. DOMAIN n.tran.begins = {} /\ Len(n.tran.begins) = 0
      BY <2>3, <2>5
    <3>2. BeginsSound(n.tran)
      BY <3>1 DEF BeginsSound
    <3> QED
      BY <1>4, <1>5, <1>6, <2>1, <2>3, <2>5, <3>1, <3>2 DEF LevelsSound
  <2>7. SavesHold(n, h2)
    BY <2>3, <2>5 DEF SavesHold
  <2>8. St' = n
    BY <2>5, BecomesIs
  <2> QED
    BY <1>1, <2>5, <2>6, <2>7, <2>8 DEF IInv
<1> QED
  BY <1>8, <1>9

(* The file that a run starts with.                                         *)
LEMMA FirstFile ==
  ASSUME NEW keys \in Seq(Key), Len(keys) <= MaxRec, NEW f,
         f = [rec |-> [r \in DOMAIN keys |-> [Blank EXCEPT !.key = keys[r]]],
              recno |-> DOMAIN keys, deleted |-> {},
              index |-> {Entry(keys[r], r) : r \in DOMAIN keys}]
  PROVE  FileSound(f)
<1> DEFINE rec == [r \in DOMAIN keys |-> [Blank EXCEPT !.key = keys[r]]]
<1>1. /\ DOMAIN keys = 1..Len(keys) /\ Len(keys) \in Nat /\ MaxRec \in Nat
      /\ \A r \in DOMAIN keys : keys[r] \in Key /\ keys[r] \in Nat
  BY KeyAssumption, BoundAssumption
<1>2. f.rec = rec /\ f.recno = DOMAIN keys /\ f.deleted = {} /\ f.index = {Entry(keys[r], r) : r \in DOMAIN keys}
  OBVIOUS
<1>3. /\ DOMAIN rec = DOMAIN keys
      /\ \A r \in DOMAIN keys : rec[r] \in Record /\ rec[r].key = keys[r] /\ ~rec[r].del
  BY <1>1 DEF Blank, Record
<1> HIDE DEF rec
<1>4. rec \in Seq(Record) /\ Len(rec) = Len(keys)
  <2>1. rec \in [1..Len(keys) -> Record]
    <3>1. rec = [r \in DOMAIN keys |-> rec[r]]
      BY <1>3 DEF rec
    <3> QED
      BY <1>1, <1>3, <3>1
  <2> QED
    BY <1>1, <2>1
<1>5. DOMAIN keys \subseteq Rec
  <2> DEFINE L == Len(keys)
  <2>1. L \in Nat /\ L <= MaxRec
    BY <1>1
  <2> HIDE DEF L
  <2>2. 1..L \subseteq 1..MaxRec
    BY <1>1, <2>1
  <2> QED
    BY <1>1, <2>2 DEF L, Rec
<1>6. f.index = Entries(f.rec, f.recno)
  <2>1. \A r \in DOMAIN keys : Entry(f.rec[r].key, r) = Entry(keys[r], r)
    BY <1>2, <1>3
  <2> QED
    BY <1>2, <2>1 DEF Entries
<1>7. f.index \in SUBSET (Nat \X Rec)
  BY <1>1, <1>2, <1>5 DEF Entry
<1>8. f \in File
  BY <1>2, <1>4, <1>5, <1>7 DEF File
<1> QED
  BY <1>2, <1>3, <1>4, <1>6, <1>8 DEF FileSound

(* Where the program starts.                                                *)
LEMMA InitInv ==
  ASSUME Init
  PROVE  IInv
<1> DEFINE none == <<>>
<1>1. none \in Seq(Rec) /\ none \in Seq(Nat) /\ none \in Seq(Update) /\ none \in Seq([Rec -> Record])
      /\ Len(none) = 0 /\ DOMAIN none = {} /\ Range(none) = {}
  BY DEF Range
<1>2. /\ use \in Uses /\ others = {} /\ hist = [saves |-> none, held |-> {}]
      /\ tab = [pos |-> 0, buf |-> Blank, modif |-> FALSE, modifkey |-> FALSE, modifapp |-> FALSE,
                curkey |-> NoKey, locks |-> none, tranid |-> FALSE, tranlock |-> 0, trandel |-> {}]
      /\ tran = [active |-> FALSE, begins |-> none, pending |-> none, writing |-> 0, save |-> -1,
                 failed |-> FALSE]
  BY DEF Init
<1> HIDE DEF none
<1>3. FileSound(file)
  <2>1. use.keys \in Seq(Key) /\ Len(use.keys) <= MaxRec
    BY <1>2, UsesAssumption, BoundAssumption
  <2> QED
    BY <2>1, FirstFile DEF Init
<1>4. Blank \in Record /\ MaxRec \in Nat \ {0} /\ MaxDepth \in Nat
  BY BoundAssumption DEF Blank, Record
<1>5. tab \in Object
  BY <1>1, <1>2, <1>4 DEF Object
<1>6. tran \in Levels
  BY <1>1, <1>2, <1>4 DEF Levels
<1>7. /\ tab.pos = 0 /\ ~tab.modif /\ ~tab.modifkey /\ ~tab.modifapp /\ tab.curkey = NoKey /\ tab.locks = none
      /\ tran.begins = none /\ tran.pending = none /\ tran.writing = 0 /\ tran.save = -1 /\ ~tran.active
      /\ hist.saves = none /\ hist \in History
  BY <1>1, <1>2 DEF History
<1>8. Todo(tran) = {}
  BY <1>1, <1>7 DEF Todo
<1>9. tran.pending = <<>> /\ tran.begins = <<>>
  BY <1>7 DEF none
<1>10. 0 \notin Range(tab.locks)
  BY <1>1, <1>7
<1>11. UpdatesSound(file, tran, tab.locks)
  BY <1>8 DEF UpdatesSound, Chain
<1>12. LocksSound(file, tab.locks, others)
  BY <1>1, <1>2, <1>7 DEF LocksSound
<1>13. TabSound(file, tab, tran)
  BY <1>7, <1>10 DEF TabSound
<1>14. IdSound(tran, tab.tranid)
  BY <1>7, <1>9 DEF IdSound
<1>15. St \in State /\ St.file = file /\ St.tab = tab /\ St.tran = tran
  BY <1>3, <1>5, <1>6 DEF St, State, FileSound
<1>16. Sound(St, others)
  BY <1>3, <1>11, <1>12, <1>13, <1>14, <1>15 DEF Sound
<1>17. BeginsSound(tran)
  BY <1>1, <1>7 DEF BeginsSound
<1>18. LevelsSound(St, hist, use)
  <2>1. Load(St) = 0 /\ Len(hist.saves) = Len(tran.begins) /\ ~(tran.writing > 0)
    BY <1>1, <1>7, <1>15 DEF Load
  <2>2. tran.begins = <<>> /\ ~tran.active /\ St.tran = tran /\ use \in Uses /\ hist \in History
    BY <1>2, <1>7, <1>9, <1>15
  <2> QED
    BY <1>17, <2>1, <2>2 DEF LevelsSound
<1>19. SavesHold(St, hist)
  BY <1>7, <1>15 DEF SavesHold
<1> QED
  BY <1>16, <1>18, <1>19 DEF IInv

(* Every step keeps the invariant.                                          *)
LEMMA NextInv ==
  ASSUME IInv, [Next]_vars
  PROVE  IInv'
<1>1. CASE UNCHANGED vars
  <2>1. St' = St /\ others' = others /\ hist' = hist /\ use' = use
    BY <1>1 DEF vars, St
  <2> QED
    BY <2>1 DEF IInv
<1>2. CASE tranBegin
  BY <1>2, BeginStep
<1>3. CASE tabRLock
  BY <1>3, RLockStep
<1>4. CASE tabUnlock
  BY <1>4, UnlockStep
<1>5. CASE tabDelete
  BY <1>5, DeleteStep
<1>6. CASE tabAppend
  BY <1>6, AppendStep
<1>7. ASSUME NEW r \in Rec, tabGoto(r) PROVE IInv'
  BY <1>7, GotoStep
<1>8. ASSUME NEW r \in Rec, tabMLock(r) PROVE IInv'
  BY <1>8, MLockStep
<1>9. ASSUME NEW v \in {0, 1}, SetVal(v) PROVE IInv'
  BY <1>9, SetValStep
<1>10. ASSUME NEW k \in Key, SetKey(k) PROVE IInv'
  BY <1>10, SetKeyStep
<1>11. ASSUME NEW k \in Key, tabInsert(k) PROVE IInv'
  BY <1>11, InsertStep
<1>12. CASE Synchronize
  BY <1>12, SynchronizeStep
<1>13. CASE SynchronizeFree
  BY <1>13, SynchronizeFreeStep
<1>14. ASSUME NEW tx \in 1..MaxDepth, CommitLevel(tx) PROVE IInv'
  BY <1>14, CommitLevelStep
<1>15. ASSUME NEW tx \in 1..MaxDepth, tranRollback(tx) PROVE IInv'
  BY <1>15, RollbackStep
<1>16. CASE tranCommit
  BY <1>16, CommitStep
<1>17. CASE WritePending
  BY <1>17, WriteStep
<1>18. CASE EndCommit
  BY <1>18, EndStep
<1>19. ASSUME NEW r \in Rec, OtherLocks(r) PROVE IInv'
  BY <1>19, OtherLocksStep
<1>20. ASSUME NEW r \in Rec, OtherUnlocks(r) PROVE IInv'
  BY <1>20, OtherUnlocksStep
<1>21. ASSUME NEW r \in Rec, NEW b \in Record, OtherWrites(r, b) PROVE IInv'
  BY <1>21, OtherWritesStep
<1> QED
  BY <1>1, <1>2, <1>3, <1>4, <1>5, <1>6, <1>7, <1>8, <1>9, <1>10, <1>11, <1>12, <1>13, <1>14, <1>15,
     <1>16, <1>17, <1>18, <1>19, <1>20, <1>21 DEF Next

(* The type invariant.                                                      *)
LEMMA InvType ==
  ASSUME IInv
  PROVE  TypeOK
<1>1. /\ St.file = file /\ St.tab = tab /\ St.tran = tran /\ Sound(St, others) /\ LevelsSound(St, hist, use)
      /\ St \in State
  BY StIs DEF IInv, Sound
<1>2. file \in File /\ tab \in Object /\ tran \in Levels /\ FileSound(file)
  BY <1>1, StateFields DEF Sound
<1>3. file.rec \in Seq(Record) /\ Len(file.rec) <= MaxRec /\ file.recno \cup file.deleted \subseteq DOMAIN file.rec
  BY <1>2 DEF FileSound, File
<1>4. file.index \subseteq (Key \cup {0}) \X DOMAIN file.rec
  <2>1. \A r \in file.recno : file.rec[r].key \in Key \cup {0} /\ r \in DOMAIN file.rec
    <3>1. \A r \in DOMAIN file.rec : file.rec[r] \in Record
      BY <1>3
    <3>2. \A b \in Record : b.key \in Key \cup {0}
      BY DEF Record
    <3> QED
      BY <1>3, <3>1, <3>2
  <2>2. file.index = Entries(file.rec, file.recno)
    BY <1>2 DEF FileSound
  <2> QED
    BY <2>1, <2>2 DEF Entries, Entry
<1>5. use \in Uses /\ use.pending \in Nat /\ hist \in History
  BY <1>1, UsesAssumption DEF LevelsSound
<1>6. DOMAIN tran.pending = 1..Len(tran.pending) /\ Len(tran.pending) \in Nat
  BY <1>1, StateFields
<1>7. tran.active => Len(tran.pending) <= use.pending
  <2>1. Load(St) = Len(tran.pending) + (IF tab.modif THEN 1 ELSE 0)
    BY <1>1 DEF Load
  <2>2. tran.active => Load(St) <= use.pending
    BY <1>1 DEF LevelsSound
  <2> DEFINE L == Len(tran.pending)
             k == IF tab.modif THEN 1 ELSE 0
  <2>3. L \in Nat /\ k \in Nat /\ (tran.active => L + k <= use.pending)
    BY <1>6, <2>1, <2>2
  <2> HIDE DEF L, k
  <2>4. tran.active => L <= use.pending
    BY <1>5, <2>3
  <2> QED
    BY <2>4 DEF L
<1>8. tran.begins \in Seq(1..use.pending + 1)
  <2>1. tran.begins \in Seq(Nat) /\ DOMAIN tran.begins = 1..Len(tran.begins) /\ Len(tran.begins) \in Nat
    BY <1>2 DEF Levels
  <2>2. CASE tran.begins = <<>>
    BY <2>2
  <2>3. CASE tran.begins # <<>>
    <3>1. tran.active
      <4>1. tran.writing = 0 \/ tran.writing > 0
        BY <1>2 DEF Levels
      <4> QED
        BY <1>1, <2>3, <4>1 DEF LevelsSound
    <3>2. \A i \in 1..Len(tran.begins) : tran.begins[i] \in 1..(Len(tran.pending) + 1)
      BY <1>1, <2>1 DEF LevelsSound, BeginsSound
    <3> DEFINE L == Len(tran.pending)
               B == Len(tran.begins)
    <3>3. L \in Nat /\ B \in Nat /\ L <= use.pending
      BY <1>6, <1>7, <2>1, <3>1
    <3>4. \A i \in 1..B : tran.begins[i] \in 1..(L + 1)
      BY <3>2
    <3> HIDE DEF L
    <3>5. 1..(L + 1) \subseteq 1..use.pending + 1
      BY <1>5, <3>3
    <3>6. \A i \in 1..B : tran.begins[i] \in 1..use.pending + 1
      BY <3>4, <3>5
    <3> DEFINE S == 1..use.pending + 1
    <3>7. \A i \in 1..B : tran.begins[i] \in S
      BY <3>6
    <3>8. tran.begins = [i \in 1..B |-> tran.begins[i]]
      BY <2>1
    <3> HIDE DEF S
    <3>9. tran.begins \in [1..B -> S]
      BY <3>7, <3>8
    <3>10. tran.begins \in Seq(S)
      BY <3>3, <3>9
    <3> QED
      BY <3>10 DEF S
  <2> QED
    BY <2>2, <2>3
<1>9. tran.writing \in 0..use.pending + 1
  <2>1. tran.writing \in Nat
    BY <1>2 DEF Levels
  <2>2. tran.writing > 0 => tran.active /\ tran.writing <= Len(tran.pending) + 1
    BY <1>1 DEF LevelsSound
  <2> DEFINE L == Len(tran.pending)
             w == tran.writing
  <2>3. L \in Nat /\ w \in Nat /\ (w > 0 => w <= L + 1 /\ L <= use.pending)
    BY <1>6, <1>7, <2>1, <2>2
  <2> HIDE DEF L, w
  <2>4. w \in 0..use.pending + 1
    BY <1>5, <2>3
  <2> QED
    BY <2>4 DEF w
<1>10. tran \in [active : BOOLEAN, begins : Seq(1..use.pending + 1), pending : Seq(Update),
                 writing : 0..use.pending + 1, save : -1..MaxRec, failed : BOOLEAN]
  BY <1>2, <1>8, <1>9 DEF Levels
<1>11. others \subseteq DOMAIN file.rec
  BY <1>1 DEF Sound, LocksSound
<1>12. hist.saves \in Seq([Rec -> Record]) /\ hist.held \subseteq Rec
  BY <1>5 DEF History
<1> QED
  BY <1>2, <1>3, <1>4, <1>5, <1>10, <1>11, <1>12 DEF TypeOK, Object

(* The index is part of it.                                                 *)
LEMMA InvMatches ==
  ASSUME IInv
  PROVE  IndexMatches
<1>1. FileSound(file)
  BY StIs DEF IInv, Sound
<1> QED
  BY <1>1 DEF FileSound, Entries, IndexMatches

(* What is written or read under a lock.                                    *)
LEMMA InvReads ==
  ASSUME IInv
  PROVE  ReadsOwnUpdates
<1> SUFFICES ASSUME tran.writing = 0, ~tran.failed
             PROVE  /\ \A n \in DOMAIN tran.pending : tran.pending[n] # Hole =>
                         tran.pending[n].pos \in Range(tab.locks)
                    /\ tab.modif => IsLocked(St)
                    /\ IsLocked(St) /\ ~tab.modif =>
                         tab.buf = IF UpdatesOf(St, tab.pos) = {} THEN file.rec[tab.pos]
                                   ELSE tran.pending[LastOf(UpdatesOf(St, tab.pos))].buf
  BY DEF ReadsOwnUpdates
<1> DEFINE T == Todo(tran)
<1>1. /\ St.file = file /\ St.tab = tab /\ St.tran = tran /\ Sound(St, others) /\ St \in State
  BY StIs DEF IInv, Sound
<1>2. /\ UpdatesSound(file, tran, tab.locks) /\ TabSound(file, tab, tran) /\ tran.save = -1
      /\ Range(tab.locks) \subseteq DOMAIN file.rec
      /\ DOMAIN tran.pending = 1..Len(tran.pending) /\ Len(tran.pending) \in Nat
      /\ file.rec \in Seq(Record) /\ Len(file.rec) \in Nat /\ Len(file.rec) <= MaxRec
      /\ DOMAIN file.rec = 1..Len(file.rec)
  BY <1>1, StateFields DEF Sound, IdSound, LocksSound, FileSound
<1>3. \A n \in DOMAIN tran.pending : tran.pending[n] # Hole => n \in T
  <2>1. \A n \in DOMAIN tran.pending : n >= 0
    BY <1>2
  <2> QED
    BY <2>1 DEF Todo
<1>4. \A n \in T : tran.pending[n].pos \in Range(tab.locks)
  BY <1>2 DEF UpdatesSound
<1>5. DOMAIN file.rec \subseteq Rec
  <2> DEFINE L == Len(file.rec)
  <2>1. L \in Nat /\ L <= MaxRec /\ MaxRec \in Nat
    BY <1>2, BoundAssumption
  <2> HIDE DEF L
  <2>2. 1..L \subseteq 1..MaxRec
    BY <2>1
  <2> QED
    BY <1>2, <2>2 DEF L, Rec
<1>6. tab.modif => IsLocked(St)
  <2>1. tab.modif => tab.pos \in Range(tab.locks)
    BY <1>2 DEF TabSound
  <2>2. 0 \notin Rec
    BY BoundAssumption DEF Rec
  <2> QED
    BY <1>1, <1>2, <1>5, <2>1, <2>2 DEF IsLocked
<1>7. ASSUME IsLocked(St), ~tab.modif
      PROVE  tab.buf = IF UpdatesOf(St, tab.pos) = {} THEN file.rec[tab.pos]
                       ELSE tran.pending[LastOf(UpdatesOf(St, tab.pos))].buf
  <2> DEFINE r == tab.pos
             U == UpdatesOf(St, r)
             N == Len(tran.pending)
  <2>1. r \in Range(tab.locks) /\ r \in DOMAIN file.rec /\ r \in Rec
    BY <1>1, <1>2, <1>5, <1>7 DEF IsLocked
  <2>2. Shows(file.rec, tran.pending, T, r, tab.buf)
    BY <1>2, <1>7, <2>1 DEF TabSound
  <2>3. U = {n \in T : tran.pending[n].pos = r}
    BY <1>1, <2>1, UpdatesTodo
  <2>4. U \in SUBSET (1..N) /\ N \in Nat
    BY <1>2, <2>3 DEF Todo
  <2> HIDE DEF T, U, N
  <2>5. CASE U = {}
    <3>1. None(tran.pending, T, r)
      BY <2>3, <2>5 DEF None
    <3>2. tab.buf = file.rec[r]
      BY <2>2, <3>1 DEF Shows
    <3> QED
      BY <2>5, <3>2 DEF U
  <2>6. CASE U # {}
    <3>1. LastOf(U) \in U /\ \A m \in U : m <= LastOf(U)
      BY <2>4, <2>6, LastIn
    <3>2. \A m \in T : m \in Int
      BY <1>2 DEF T, Todo
    <3> DEFINE n == LastOf(U)
    <3>3. n \in T /\ tran.pending[n].pos = r /\ n \in Int /\ \A m \in U : m <= n
      BY <2>3, <3>1, <3>2
    <3> HIDE DEF n
    <3>4. Latest(tran.pending, T, r, n)
      <4>1. \A m \in T : m > n => m \notin U
        BY <3>2, <3>3
      <4> QED
        BY <2>3, <3>3, <4>1 DEF Latest
    <3>5. tab.buf = tran.pending[n].buf
      BY <2>2, <3>3, <3>4 DEF Shows
    <3> QED
      BY <2>6, <3>5 DEF U, n
  <2> QED
    BY <2>5, <2>6
<1> QED
  BY <1>3, <1>4, <1>6, <1>7

(* The last of the earlier updates of a record is the latest one below.     *)
LEMMA LastBelow ==
  ASSUME NEW N \in Nat, NEW T, T \subseteq 1..N, NEW q, NEW n \in T, NEW r, NEW E,
         E = {m \in T : m < n /\ q[m].pos = r}, E # {}
  PROVE  Latest(q, Below(T, n), r, LastOf(E))
<1>1. E \in SUBSET (1..N)
  OBVIOUS
<1>2. LastOf(E) \in E /\ \A m \in E : m <= LastOf(E)
  BY <1>1, LastIn
<1> DEFINE k == LastOf(E)
<1>3. k \in E /\ \A m \in E : m <= k
  BY <1>2
<1> HIDE DEF k
<1>4. \A m \in T : m \in Int
  OBVIOUS
<1>5. k \in T /\ k < n /\ q[k].pos = r /\ k \in Int
  BY <1>3, <1>4
<1>6. \A m \in Below(T, n) : m > k => q[m].pos # r
  <2>1. ASSUME NEW m \in T, m < n, m > k PROVE q[m].pos # r
    <3>1. m \notin E
      BY <1>3, <1>4, <1>5, <2>1
    <3> QED
      BY <2>1, <3>1
  <2> QED
    BY <2>1 DEF Below
<1>7. k \in Below(T, n)
  BY <1>5 DEF Below
<1> QED
  BY <1>6, <1>7, <1>5 DEF Latest, k

(* What is known of an update is what its commit will find.                 *)
LEMMA InvFinds ==
  ASSUME IInv
  PROVE  CommitFindsKeys
<1> DEFINE todo == IF tran.writing = 0 THEN {n \in DOMAIN tran.pending : tran.pending[n] # Hole} ELSE ToWrite
           T == Todo(tran)
           q == tran.pending
           N == Len(q)
           earlier(n) == {m \in todo : m < n /\ q[m].pos = q[n].pos}
           stored(n) == q[n].pos \in file.recno
           found(n) == IF earlier(n) = {} THEN file.rec[q[n].pos] ELSE q[LastOf(earlier(n))].buf
           Good(n) == /\ q[n].modifapp <=> earlier(n) = {} /\ ~stored(n)
                      /\ ~q[n].modifapp => ~found(n).del
                      /\ q[n].modifkey /\ ~q[n].modifapp => q[n].curkey = found(n).key
                      /\ ~q[n].modifkey /\ ~q[n].modifapp => q[n].buf.key = found(n).key
<1>1. /\ St.file = file /\ St.tab = tab /\ St.tran = tran /\ Sound(St, others) /\ St \in State
  BY StIs DEF IInv, Sound
<1>2. /\ Chain(file.rec, file.recno, q, T) /\ DOMAIN q = 1..N /\ N \in Nat /\ tran.writing \in Nat
      /\ q \in Seq(Update)
  BY <1>1, StateFields DEF Sound, UpdatesSound
<1>3. todo = T
  <2>1. \A n \in DOMAIN q : n \in Nat
    BY <1>2
  <2>2. CASE tran.writing = 0
    <3>1. \A n \in DOMAIN q : n >= tran.writing
      BY <2>1, <2>2
    <3> QED
      BY <2>2, <3>1 DEF Todo
  <2>3. CASE tran.writing # 0
    <3>1. tran.writing > 0
      BY <1>2, <2>3
    <3> QED
      BY <2>3, <3>1 DEF Todo, ToWrite
  <2> QED
    BY <2>2, <2>3
<1>4. T \subseteq 1..N
  BY <1>2 DEF Todo
<1> HIDE DEF todo, T, N
<1>5. ASSUME NEW n \in T PROVE Good(n)
  <2> DEFINE u == q[n]
             E == {m \in T : m < n /\ q[m].pos = q[n].pos}
             b == IF E = {} THEN file.rec[q[n].pos] ELSE q[LastOf(E)].buf
  <2>1. earlier(n) = E /\ found(n) = b
    BY <1>3
  <2>2. Continues(file.rec, file.recno, q, Below(T, n), u)
    BY <1>2 DEF Chain
  <2>3. u \in Update
    BY <1>2, <1>4
  <2>4. u.modifapp \in BOOLEAN /\ u.modifkey \in BOOLEAN
    BY <2>3 DEF Update
  <2> HIDE DEF E
  <2>5. Follows(u, b, E = {} /\ u.pos \notin file.recno)
    <3>1. CASE E = {}
      <4>1. None(q, Below(T, n), u.pos)
        BY <3>1 DEF None, Below, E
      <4>2. Follows(u, file.rec[u.pos], u.pos \notin file.recno)
        BY <2>2, <4>1 DEF Continues
      <4>3. b = file.rec[u.pos]
        BY <3>1
      <4> HIDE DEF b, u
      <4> QED
        BY <3>1, <4>2, <4>3 DEF Follows
    <3>2. CASE E # {}
      <4>1. Latest(q, Below(T, n), u.pos, LastOf(E))
        BY <1>2, <1>4, <3>2, LastBelow DEF E
      <4>2. LastOf(E) \in Below(T, n)
        BY <4>1 DEF Latest
      <4>3. Follows(u, q[LastOf(E)].buf, FALSE)
        BY <2>2, <4>1, <4>2 DEF Continues
      <4>4. b = q[LastOf(E)].buf
        BY <3>2
      <4> HIDE DEF b, u
      <4> QED
        BY <3>2, <4>3, <4>4 DEF Follows
    <3> QED
      BY <3>1, <3>2
  <2> HIDE DEF b
  <2>6. /\ u.modifapp <=> E = {} /\ u.pos \notin file.recno
        /\ ~u.modifapp => ~b.del
        /\ u.modifkey /\ ~u.modifapp => u.curkey = b.key
        /\ ~u.modifkey /\ ~u.modifapp => u.buf.key = b.key
    BY <2>4, <2>5 DEF Follows
  <2> HIDE DEF earlier, found
  <2> QED
    BY <2>1, <2>6
<1> HIDE DEF Good, T
<1>6. \A n \in todo : Good(n)
  BY <1>3, <1>5
<1> QED
  BY <1>1, <1>6 DEF CommitFindsKeys, Good, todo

-----------------------------------------------------------------------------
(* The object, the pending updates and the file are always sound, and the   *)
(* last of the updates left shows what the process saw when it committed.   *)
THEOREM TransactionInductive == Spec => []IInv
<1>1. Init => IInv
  BY InitInv
<1>2. IInv /\ [Next]_vars => IInv'
  BY NextInv
<1> QED
  BY <1>1, <1>2, PTL DEF Spec

(* Every variable keeps its type, and the bound of the pending updates is   *)
(* never passed.                                                            *)
THEOREM TransactionType == Spec => []TypeOK
<1>1. IInv => TypeOK
  BY InvType
<1> QED
  BY <1>1, TransactionInductive, PTL

(* The index has exactly the keys of the stored records, also in the middle *)
(* of a commit, after every synchronisation and rollback.                   *)
THEOREM IndexAlwaysMatches == Spec => []IndexMatches
<1>1. IInv => IndexMatches
  BY InvMatches
<1> QED
  BY <1>1, TransactionInductive, PTL

(* No pending update fails half way when it is written: it deletes a key    *)
(* that is there and adds one that is not.                                  *)
THEOREM UpdatesFindKeys == Spec => []CommitFindsKeys
<1>1. IInv => CommitFindsKeys
  BY InvFinds
<1> QED
  BY <1>1, TransactionInductive, PTL

(* Under a lock the process reads its own last update, or the file.         *)
THEOREM OwnUpdatesRead == Spec => []ReadsOwnUpdates
<1>1. IInv => ReadsOwnUpdates
  BY InvReads
<1> QED
  BY <1>1, TransactionInductive, PTL

(* When a commit is over the file holds what the process saw at its begin.  *)
THEOREM CommitKeepsTheView == Spec => CommitKeepsView
<1>1. IInv /\ [Next]_vars => [EndCommit => View(St)' = hist.saves[1]]_vars
  BY EndStep
<1> QED
  BY <1>1, TransactionInductive, PTL DEF Spec, CommitKeepsView

=============================================================================
