----------------------------- MODULE Transaction ----------------------------
(***************************************************************************)
(* Transactions of one process (tabobj/common.src/transact.prg) over a     *)
(* table object of tabobj/tbbtbtx.                                         *)
(*                                                                         *)
(* In a transaction a commit of a record only appends the buffer and the   *)
(* notes on its keys to the pending updates; reading a record shows the    *)
(* last of them; locks are added and never dropped.  The outermost commit  *)
(* writes the pending updates one after the other, a rollback forgets      *)
(* those of its level.  What is synchronised goes to the file at once, and *)
(* so does what tabInsert puts in, which the outermost rollback deletes.   *)
(* Other processes change the records that are not locked.                 *)
(***************************************************************************)
EXTENDS Integers, Sequences, FiniteSets, SequencesExt

CONSTANTS
  Key,          (* values of the key field, 0 is blank                     *)
  Uses,         (* what the program does with which file, see use          *)
  MaxRec,       (* bound: records of the file                              *)
  MaxDepth      (* bound: nested transactions                              *)

Op == {"begin", "goto", "lock", "mlock", "val", "key", "delete", "append", "insert", "sync",
       "free", "freeany", "commit", "rollback", "outside", "others"}

ASSUME KeyAssumption == Key \subseteq Nat \ {0}
ASSUME UsesAssumption == Uses \subseteq [op : SUBSET Op, keys : Seq(Key), pending : Nat]
ASSUME BoundAssumption == /\ {MaxRec, MaxDepth} \subseteq Nat \ {0}
                          /\ \A u \in Uses : Len(u.keys) <= MaxRec

VARIABLES
  file,         (* rec, the records, and the orders recno, deleted, index  *)
  tab,          (* the table object                                        *)
  tran,         (* activetransaction, tranindex, pendingupdate             *)
  others,       (* the records other processes have locked                 *)
  use,          (* the operations, the keys at the start, and the bound of *)
                (* the pending updates; never changes                      *)
  hist          (* what the levels have found, for the properties          *)

vars == <<file, tab, tran, others, use, hist>>

Rec == 1..MaxRec
Blank == [del |-> FALSE, key |-> 0, val |-> 0]
Gone == [Blank EXCEPT !.del = TRUE]
NoKey == -1     (* IND_CURKEY is NIL                                       *)
Hole == [pos |-> -1, buf |-> Blank, modifkey |-> FALSE, modifapp |-> FALSE, curkey |-> NoKey]

-----------------------------------------------------------------------------
(* Operators on s = [file, tab, tran] give what a call makes of it.        *)

St == [file |-> file, tab |-> tab, tran |-> tran]

Becomes(s) == file' = s.file /\ tab' = s.tab /\ tran' = s.tran

Entry(k, r) == <<k, r>>

(* The object without the flags of a change.                               *)
Clean(t) == [t EXCEPT !.modif = FALSE, !.modifkey = FALSE, !.modifapp = FALSE, !.curkey = NoKey]

(* A commit that goes to the file, under the lock of its header.           *)
Written(f, t) ==
  LET old == IF t.curkey = NoKey THEN t.buf.key ELSE t.curkey
      new == Entry(t.buf.key, t.pos)
      g == IF t.modifapp
           THEN IF t.buf.del THEN f ELSE [f EXCEPT !.recno = @ \cup {t.pos}, !.index = @ \cup {new}]
           ELSE IF t.buf.del
           THEN [f EXCEPT !.deleted = @ \cup {t.pos}, !.recno = @ \ {t.pos},
                          !.index = @ \ {Entry(old, t.pos)}]
           ELSE IF t.modifkey THEN [f EXCEPT !.index = (@ \ {Entry(t.curkey, t.pos)}) \cup {new}]
           ELSE f
  IN [g EXCEPT !.rec[t.pos] = t.buf]

Write(s) == [s EXCEPT !.file = Written(s.file, s.tab), !.tab = Clean(s.tab)]

(* Mutant: the notes on the keys are left in the table object.             *)
tranAddToPendingUpdatesKept(s) ==
  LET t == s.tab IN
  [s EXCEPT
    !.tran.pending = Append(@, [pos |-> t.pos, buf |-> t.buf, modifkey |-> t.modifkey,
                                modifapp |-> t.modifapp, curkey |-> t.curkey]),
    !.tab = [t EXCEPT !.modif = FALSE, !.tranid = TRUE]]

tranAddToPendingUpdates(s) ==
  LET t == s.tab IN
  [s EXCEPT
    !.tran.pending = Append(@, [pos |-> t.pos, buf |-> t.buf, modifkey |-> t.modifkey,
                                modifapp |-> t.modifapp, curkey |-> t.curkey]),
    !.tab = [Clean(t) EXCEPT !.tranid = TRUE]]

tabCommit(s) ==
  IF ~s.tab.modif THEN s
  ELSE IF s.tran.active THEN tranAddToPendingUpdates(s)
  ELSE Write(s)

(* tabCommit(table,pup): the pending update n goes to the file.            *)
CommitPending(s, n) ==
  LET pup == s.tran.pending[n] IN
  Write([s EXCEPT !.tab = [@ EXCEPT !.pos = pup.pos, !.buf = pup.buf, !.modifkey = pup.modifkey,
                                    !.modifapp = pup.modifapp, !.curkey = pup.curkey]])

UpdatesOf(s, r) == {n \in DOMAIN s.tran.pending : s.tran.pending[n].pos = r}

LastOf(ns) == CHOOSE n \in ns : \A m \in ns : m <= n

(* Mutant: the first update of the record instead of the last.             *)
tranLastRecordUpdateFirst(s, r) ==
  IF s.tab.tranid /\ UpdatesOf(s, r) # {} THEN s.tran.pending[Min(UpdatesOf(s, r))].buf
  ELSE s.file.rec[r]

(* tranLastRecordUpdate: the buffer of record r as this process sees it.   *)
tranLastRecordUpdate(s, r) ==
  IF s.tab.tranid /\ UpdatesOf(s, r) # {} THEN s.tran.pending[LastOf(UpdatesOf(s, r))].buf
  ELSE s.file.rec[r]

GoEOF(s) == [s EXCEPT !.tab.pos = 0, !.tab.buf = Blank]

SetPos(s, r) == [s EXCEPT !.tab.pos = r, !.tab.buf = tranLastRecordUpdate(s, r)]

(* tabGoto, with nothing to commit: a record appended in the transaction   *)
(* is found by its pending update, any other by "recno".                   *)
Goto(s, r) ==
  IF r \in s.file.recno \/ (s.tab.tranid /\ UpdatesOf(s, r) # {}) THEN SetPos(s, r) ELSE GoEOF(s)

(* The first entry of the index after e whose record is not deleted.       *)
Before(e, g) == e[1] < g[1] \/ (e[1] = g[1] /\ e[2] < g[2])

NextAfter(s, e) ==
  LET scope == {g \in s.file.index : Before(e, g) /\ ~tranLastRecordUpdate(s, g[2]).del} IN
  IF scope = {} THEN GoEOF(s)
  ELSE SetPos(s, (CHOOSE g \in scope : \A h \in scope : g = h \/ Before(g, h))[2])

tabSeek(s, k) == NextAfter(tabCommit(s), Entry(k, 0))

tabFound(s, k) == s.tab.pos # 0 /\ s.tab.buf.key <= k

IsLocked(s) == s.tab.pos # 0 /\ s.tab.pos \in Range(s.tab.locks)

lockPosition(s, r) ==
  IF r \in Range(s.tab.locks) THEN s
  ELSE [s EXCEPT
         !.tab = [s.tab EXCEPT
                   !.locks = Append(@, r),
                   !.tranid = @ \/ s.tran.active,
                   !.tranlock = IF s.tran.active /\ @ = 0 THEN Len(s.tab.locks) + 1 ELSE @,
                   !.buf = IF s.tab.pos = r THEN s.file.rec[r] ELSE @]]

lockCurrent(s) ==
  LET r == s.tab.pos IN
  IF s.tran.active THEN lockPosition(s, r)
  ELSE [s EXCEPT !.tab.locks = <<r>>, !.tab.buf = s.file.rec[r]]

Unlocked(s, r) == [s EXCEPT !.tab.locks = RemoveFirst(@, r)]

(* The rest of tabDelete: mark, and tabUnlock, which keeps the lock in a   *)
(* transaction.                                                            *)
Deleted(s) ==
  LET d == tabCommit([s EXCEPT !.tab.modif = TRUE, !.tab.buf.del = TRUE]) IN
  IF s.tran.active THEN d ELSE Unlocked(d, s.tab.pos)

(* Mutant: the updates of the record are written but stay pending.         *)
tranSynchronizeRecordKept(s) ==
  LET c == tabCommit(s)
      ns == UpdatesOf(c, c.tab.pos)
      each(a, n) == IF n \in ns THEN CommitPending(a, n) ELSE a
  IN IF ~s.tran.active THEN c
     ELSE FoldLeft(each, c, [n \in DOMAIN c.tran.pending |-> n])

(* The updates of the record go to the file in their order, and leave      *)
(* holes among the pending ones.                                           *)
tranSynchronizeRecord(s) ==
  LET c == tabCommit(s)
      ns == UpdatesOf(c, c.tab.pos)
      each(a, n) == IF n \in ns THEN [CommitPending(a, n) EXCEPT !.tran.pending[n] = Hole] ELSE a
  IN IF ~s.tran.active THEN c
     ELSE FoldLeft(each, c, [n \in DOMAIN c.tran.pending |-> n])

(* A record of its own for tabAppend: a deleted one is taken out of the    *)
(* order "deleted" at once, or a new one is written at the end, marked as  *)
(* deleted until its keys are there.                                       *)
FreeRec(s) ==
  LET d == s.file.deleted \ others IN IF d = {} THEN Len(s.file.rec) + 1 ELSE Min(d)

Appended(s, r) ==
  LET l == lockCurrent([s EXCEPT
             !.file = [s.file EXCEPT !.rec = IF r \in DOMAIN @ THEN @ ELSE Append(@, Gone),
                                     !.deleted = @ \ {r}],
             !.tab.pos = r])
  IN [l EXCEPT !.tab = [@ EXCEPT !.buf = Blank, !.modif = TRUE, !.modifkey = TRUE,
                                 !.modifapp = TRUE]]

(* tabInsert after its first seek: append, fill in the key, synchronise,   *)
(* seek again.  Where that finds another record, the new one is deleted    *)
(* (in a transaction: the deletion is pending, and what is synchronised is *)
(* the record the object has moved to).                                    *)
Inserted(s, r, k) ==
  LET a == Appended(s, r)
      c == tabSeek(tranSynchronizeRecord([a EXCEPT !.tab.buf.key = k]), k)
      d == NextAfter(Deleted(Goto(c, r)), Entry(k, r))
  IN IF c.tab.pos # r THEN Goto(tranSynchronizeRecord(d), c.tab.pos)
     ELSE IF s.tran.active THEN [c EXCEPT !.tab.tranid = TRUE, !.tab.trandel = @ \cup {r}]
     ELSE c

(* Mutant: all locks are dropped.                                          *)
tranClearTransactionIDAll(s, rb) ==
  LET gone == IF rb THEN s.tab.trandel \cap s.file.recno ELSE {}
      f == [s.file EXCEPT
             !.rec = [r \in DOMAIN @ |-> IF r \in gone THEN [@[r] EXCEPT !.del = TRUE] ELSE @[r]],
             !.recno = @ \ gone, !.deleted = @ \cup gone,
             !.index = {e \in @ : e[2] \notin gone}]
  IN [s EXCEPT
       !.file = f,
       !.tab = [@ EXCEPT !.locks = <<>>, !.tranid = FALSE, !.tranlock = 0, !.trandel = {}]]

Without(locks, gone) == FoldLeft(LAMBDA l, r : IF r \in gone THEN l ELSE Append(l, r), <<>>, locks)

(* tranClearTransactionID: a rollback deletes what tabInsert has put in;   *)
(* the locks from the first one taken in the transaction on are dropped.   *)
(* Deleting a record whose lock has been given back fails half way.        *)
tranClearTransactionID(s, rb) ==
  LET gone == IF rb THEN s.tab.trandel \cap s.file.recno ELSE {}
      f == [s.file EXCEPT
             !.rec = [r \in DOMAIN @ |-> IF r \in gone THEN [@[r] EXCEPT !.del = TRUE] ELSE @[r]],
             !.recno = @ \ gone, !.deleted = @ \cup gone,
             !.index = {e \in @ : e[2] \notin gone}]
      kept == Without(s.tab.locks, gone)
  IN IF ~(gone \subseteq Range(s.tab.locks)) THEN [s EXCEPT !.tran.failed = TRUE]
     ELSE [s EXCEPT
            !.file = f,
            !.tab = [@ EXCEPT
                      !.locks = IF s.tab.tranlock = 0 THEN kept
                                ELSE SubSeq(kept, 1, Min({s.tab.tranlock - 1, Len(kept)})),
                      !.tranid = FALSE, !.tranlock = 0, !.trandel = {}]]

-----------------------------------------------------------------------------
Depth == Len(tran.begins)

(* What the records are for this process, deleted ones being all alike.    *)
View(s) ==
  [r \in Rec |->
    IF r \notin s.file.recno /\ UpdatesOf(s, r) = {} THEN Gone
    ELSE LET b == tranLastRecordUpdate(s, r) IN IF b.del THEN Gone ELSE b]

(* Record r of the file is b now, whatever becomes of the transaction.     *)
Noted(saves, from, r, b) == [i \in DOMAIN saves |-> IF i < from THEN saves[i] ELSE [saves[i] EXCEPT ![r] = b]]

Init ==
  /\ use \in Uses
  /\ file = [rec |-> [r \in DOMAIN use.keys |-> [Blank EXCEPT !.key = use.keys[r]]],
             recno |-> DOMAIN use.keys, deleted |-> {},
             index |-> {Entry(use.keys[r], r) : r \in DOMAIN use.keys}]
  /\ tab = [pos |-> 0, buf |-> Blank, modif |-> FALSE, modifkey |-> FALSE, modifapp |-> FALSE,
            curkey |-> NoKey, locks |-> <<>>, tranid |-> FALSE, tranlock |-> 0, trandel |-> {}]
  /\ tran = [active |-> FALSE, begins |-> <<>>, pending |-> <<>>, writing |-> 0, save |-> -1,
             failed |-> FALSE]
  /\ others = {}
  /\ hist = [saves |-> <<>>, held |-> {}]

(* Outside transactions (module Table) the program changes nothing but     *)
(* where use says so.                                                      *)
Calls(o) ==
  /\ o \in use.op /\ tran.writing = 0 /\ ~tran.failed
  /\ tran.active \/ o \in {"begin", "goto", "lock", "mlock"} \/ "outside" \in use.op

(* Bound: room for the updates a call may add.                             *)
Room(n) == ~tran.active \/ Len(tran.pending) + n + (IF tab.modif THEN 1 ELSE 0) <= use.pending

tranBegin ==
  LET s == tabCommit(St) IN
  /\ Calls("begin") /\ Depth < MaxDepth
  /\ Becomes([s EXCEPT !.tran.active = TRUE,
                       !.tran.begins = Append(@, Len(s.tran.pending) + 1)])
  /\ hist' = [saves |-> Append(hist.saves, View(s)),
              held |-> IF tran.active THEN hist.held ELSE Range(tab.locks)]
  /\ UNCHANGED <<others, use>>

tabGoto(r) ==
  /\ Calls("goto")
  /\ Becomes(Goto(tabCommit(St), r))
  /\ UNCHANGED <<others, use, hist>>

tabRLock ==
  /\ Calls("lock")
  /\ tab.pos \notin others \cup {0}
  /\ Becomes(lockCurrent(tabCommit(St)))
  /\ UNCHANGED <<others, use, hist>>

(* A program locks records it knows of, not deleted ones.                  *)
tabMLock(r) ==
  /\ Calls("mlock")
  /\ r \in file.recno \ others
  /\ Becomes(lockPosition(tabCommit(St), r))
  /\ UNCHANGED <<others, use, hist>>

tabUnlock ==
  LET s == tabCommit(St) IN
  /\ Calls("lock")
  /\ Becomes(IF tran.active THEN s ELSE [s EXCEPT !.tab.locks = <<>>])
  /\ UNCHANGED <<others, use, hist>>

(* A program tests tabDeleted after it has locked a record.                *)
Writes(o) == Calls(o) /\ (tab.modif \/ (IsLocked(St) /\ ~tab.buf.del /\ Room(1)))

SetVal(v) ==
  /\ Writes("val")
  /\ tab' = [tab EXCEPT !.modif = TRUE, !.buf.val = v]
  /\ UNCHANGED <<file, tran, others, use, hist>>

SetKey(k) ==
  /\ Writes("key")
  /\ tab' = [tab EXCEPT !.modif = TRUE, !.modifkey = TRUE, !.buf.key = k,
                        !.curkey = IF tab.modifkey THEN @ ELSE tab.buf.key]
  /\ UNCHANGED <<file, tran, others, use, hist>>

(* The cursor may be lost, so the next record may be any.                  *)
tabDelete ==
  LET d == Deleted(St) IN
  /\ Calls("delete") /\ IsLocked(St) /\ ~tab.buf.del /\ Room(1)
  /\ \E n \in {GoEOF(d)} \cup {SetPos(d, e[2]) : e \in d.file.index} :
       (n.tab.pos # 0 => ~n.tab.buf.del) /\ Becomes(n)
  /\ UNCHANGED <<others, use, hist>>

tabAppend ==
  LET s == tabCommit(St) IN
  /\ Calls("append") /\ Room(1)
  /\ FreeRec(s) \in Rec
  /\ Becomes(Appended(s, FreeRec(s)))
  /\ UNCHANGED <<others, use, hist>>

tabInsert(k) ==
  LET s == tabSeek(St, k)
      r == FreeRec(s)
      n == IF tabFound(s, k) THEN s ELSE Inserted(s, r, k)
  IN
  /\ Calls("insert") /\ Room(2)
  /\ r \in Rec
  /\ Becomes(n)
  /\ hist' = IF r \in tab'.trandel \ tab.trandel
             THEN [hist EXCEPT !.saves = Noted(@, 2, r, [Blank EXCEPT !.key = k])]
             ELSE hist
  /\ UNCHANGED <<others, use>>

Synchronize ==
  /\ Calls("sync")
  /\ Becomes(tranSynchronizeRecord(St))
  /\ hist' = IF tab.pos = 0 THEN hist
             ELSE [hist EXCEPT !.saves = Noted(@, IF tab.pos \in tab.trandel THEN 2 ELSE 1, tab.pos,
                                       View(tabCommit(St))[tab.pos])]
  /\ UNCHANGED <<others, use>>

(* With lockflag the lock of the record is given back; a careful program   *)
(* does so with a record it has locked in the transaction and has not      *)
(* inserted in it.                                                         *)
SynchronizeFree ==
  LET r == tab.pos IN
  /\ tran.active /\ IsLocked(St)
  /\ \/ Calls("freeany")
     \/ Calls("free") /\ r \notin hist.held \cup tab.trandel
  /\ Becomes(Unlocked(tranSynchronizeRecord(St), r))
  /\ hist' = [saves |-> Noted(hist.saves, 1, r, View(tabCommit(St))[r]),
              held |-> hist.held \ {r}]
  /\ UNCHANGED <<others, use>>

(* The end of level tx, with those inside it, but not of the outermost.    *)
CommitLevel(tx) ==
  LET s == tabCommit(St) IN
  /\ Calls("commit") /\ tx \in 2..Depth
  /\ Becomes([s EXCEPT !.tran.begins = SubSeq(@, 1, tx - 1)])
  /\ hist' = [hist EXCEPT !.saves = SubSeq(@, 1, tx - 1)]
  /\ UNCHANGED <<others, use>>

tranCommit ==
  LET s == tabCommit(St) IN
  /\ Calls("commit") /\ Depth > 0
  /\ Becomes([s EXCEPT !.tran.begins = <<>>, !.tran.writing = 1])
  /\ hist' = [hist EXCEPT !.saves = <<View(s)>>]
  /\ UNCHANGED <<others, use>>

ToWrite == {n \in DOMAIN tran.pending : tran.writing > 0 /\ n >= tran.writing /\ tran.pending[n] # Hole}

(* Mutant: the updates are written last first.                             *)
WritePendingLast ==
  LET n == CHOOSE i \in ToWrite : \A j \in ToWrite : i >= j
      s == CommitPending(St, n) IN
  /\ ToWrite # {}
  /\ Becomes([s EXCEPT !.tab.tranid = FALSE,
                       !.tran.pending[n] = Hole,
                       !.tran.save = IF tab.tranid THEN tab.pos ELSE @])
  /\ UNCHANGED <<others, use, hist>>

(* One of the pending updates; the first one notes the position.           *)
WritePending ==
  LET n == CHOOSE i \in ToWrite : \A j \in ToWrite : i <= j
      s == CommitPending(St, n) IN
  /\ ToWrite # {}
  /\ Becomes([s EXCEPT !.tab.tranid = FALSE,
                       !.tran.writing = n + 1,
                       !.tran.save = IF tab.tranid THEN tab.pos ELSE @])
  /\ UNCHANGED <<others, use, hist>>

EndCommit ==
  LET s == IF tran.save = -1 THEN St ELSE Goto(St, tran.save) IN
  /\ tran.writing > 0 /\ ToWrite = {}
  /\ Becomes([tranClearTransactionID(s, FALSE) EXCEPT
               !.tran = [tran EXCEPT !.active = FALSE, !.pending = <<>>, !.writing = 0, !.save = -1]])
  /\ hist' = [saves |-> <<>>, held |-> {}]
  /\ UNCHANGED <<others, use>>

(* Mutant: the update before those of the level is forgotten too.          *)
ForgetOver(s, tx) ==
  LET n == s.tran.begins[tx] - 1 IN
  [s EXCEPT !.tran.pending = SubSeq(@, 1, IF n > 0 THEN n - 1 ELSE n),
            !.tran.begins = SubSeq(@, 1, tx - 1)]

Forget(s, tx) ==
  [s EXCEPT !.tran.pending = SubSeq(@, 1, s.tran.begins[tx] - 1),
            !.tran.begins = SubSeq(@, 1, tx - 1)]

(* The record is read again, as it is without the updates forgotten.       *)
Reposition(s) ==
  LET g == Goto(s, s.tab.pos) IN
  IF ~s.tab.tranid THEN s ELSE IF g.tab.buf.del THEN GoEOF(g) ELSE g

tranRollback(tx) ==
  LET f == Reposition(Forget(tabCommit(St), tx))
      c == tranClearTransactionID([f EXCEPT !.tran.active = FALSE], TRUE) IN
  /\ Calls("rollback") /\ tx \in 1..Depth
  /\ IF tx > 1 THEN Becomes(f)
     ELSE IF c.file = f.file THEN Becomes(c)
     ELSE \E n \in {GoEOF(c)} \cup {SetPos(c, e[2]) : e \in c.file.index} : Becomes(n)
  /\ hist' = [saves |-> SubSeq(hist.saves, 1, tx - 1),
              held |-> IF tx > 1 THEN hist.held ELSE {}]
  /\ UNCHANGED <<others, use>>

-----------------------------------------------------------------------------
(* The other processes.                                                    *)

OtherLocks(r) ==
  /\ "others" \in use.op
  /\ r \in DOMAIN file.rec \ (others \cup Range(tab.locks))
  /\ others' = others \cup {r}
  /\ UNCHANGED <<file, tab, tran, use, hist>>

(* One of them changes or deletes a record it has locked, and unlocks it.  *)
OtherWrites(r, b) ==
  /\ r \in others \cap file.recno
  /\ file' = Written(file, [pos |-> r, buf |-> b, modifapp |-> FALSE, modifkey |-> TRUE,
                            curkey |-> file.rec[r].key])
  /\ hist' = [hist EXCEPT !.saves = Noted(@, 1, r, IF b.del THEN Gone ELSE b)]
  /\ others' = others \ {r}
  /\ UNCHANGED <<tab, tran, use>>

OtherUnlocks(r) ==
  /\ r \in others
  /\ others' = others \ {r}
  /\ UNCHANGED <<file, tab, tran, use, hist>>

Record == [del : BOOLEAN, key : Key \cup {0}, val : {0, 1}]

Next ==
  \/ tranBegin \/ tabRLock \/ tabUnlock \/ tabDelete \/ tabAppend
  \/ \E r \in Rec : tabGoto(r) \/ tabMLock(r)
  \/ \E v \in {0, 1} : SetVal(v)
  \/ \E k \in Key : SetKey(k) \/ tabInsert(k)
  \/ Synchronize \/ SynchronizeFree
  \/ \E tx \in 1..MaxDepth : CommitLevel(tx) \/ tranRollback(tx)
  \/ tranCommit \/ WritePending \/ EndCommit
  \/ \E r \in Rec : OtherLocks(r) \/ OtherUnlocks(r) \/ \E b \in Record : OtherWrites(r, b)

Spec == Init /\ [][Next]_vars

-----------------------------------------------------------------------------
(* Properties.                                                             *)

Update == [pos : -1..MaxRec, buf : Record, modifkey : BOOLEAN, modifapp : BOOLEAN,
           curkey : Key \cup {0, NoKey}]

(* Type invariant.                                                         *)
TypeOK ==
  /\ file.rec \in Seq(Record) /\ Len(file.rec) <= MaxRec
  /\ file.recno \cup file.deleted \subseteq DOMAIN file.rec
  /\ file.index \subseteq (Key \cup {0}) \X DOMAIN file.rec
  /\ tab \in [pos : 0..MaxRec, buf : Record, modif : BOOLEAN, modifkey : BOOLEAN,
              modifapp : BOOLEAN, curkey : Key \cup {0, NoKey}, locks : Seq(Rec),
              tranid : BOOLEAN, tranlock : Nat, trandel : SUBSET Rec]
  /\ tran \in [active : BOOLEAN, begins : Seq(1..use.pending + 1), pending : Seq(Update),
               writing : 0..use.pending + 1, save : -1..MaxRec, failed : BOOLEAN]
  /\ others \subseteq DOMAIN file.rec
  /\ hist.saves \in Seq([Rec -> Record]) /\ hist.held \subseteq Rec
  /\ use \in Uses

(* The index has the key of every record of "recno" and of no other, also  *)
(* between the updates a commit writes: each finds the file as the chain   *)
(* of notes on old keys says.                                              *)
IndexMatches ==
  /\ file.index = {Entry(file.rec[r].key, r) : r \in file.recno}
  /\ \A r \in DOMAIN file.rec : r \in file.recno <=> ~file.rec[r].del
  /\ file.deleted \cap file.recno = {}

(* Every pending update will find the keys it deletes and will not find    *)
(* those it adds, whatever is written, synchronised or forgotten before:   *)
(* otherwise a commit ends half way, with the header locked.               *)
CommitFindsKeys ==
  LET s == St
      todo == IF tran.writing = 0 THEN {n \in DOMAIN tran.pending : tran.pending[n] # Hole} ELSE ToWrite
      earlier(n) == {m \in todo : m < n /\ tran.pending[m].pos = tran.pending[n].pos}
      stored(n) == tran.pending[n].pos \in file.recno
      found(n) == IF earlier(n) = {} THEN file.rec[tran.pending[n].pos]
                  ELSE tran.pending[LastOf(earlier(n))].buf
  IN \A n \in todo :
       LET u == tran.pending[n] IN
       /\ u.modifapp <=> earlier(n) = {} /\ ~stored(n)
       /\ ~u.modifapp => ~found(n).del
       /\ u.modifkey /\ ~u.modifapp => u.curkey = found(n).key
       /\ ~u.modifkey /\ ~u.modifapp => u.buf.key = found(n).key

(* A record with a pending update stays locked, and what the process has   *)
(* locked and stands on it sees as it is: with its own last update, or as  *)
(* the file has it.                                                        *)
ReadsOwnUpdates ==
  tran.writing = 0 /\ ~tran.failed =>
    /\ \A n \in DOMAIN tran.pending : tran.pending[n] # Hole =>
         tran.pending[n].pos \in Range(tab.locks)
    /\ tab.modif => IsLocked(St)
    /\ IsLocked(St) /\ ~tab.modif =>
         tab.buf = IF UpdatesOf(St, tab.pos) = {} THEN file.rec[tab.pos]
                   ELSE tran.pending[LastOf(UpdatesOf(St, tab.pos))].buf

(* After a rollback the records are what they were at the begin of the     *)
(* level, but for what was synchronised and what other processes did; no   *)
(* record that tabInsert put in is left when the outermost level is rolled *)
(* back.                                                                   *)
RollbackRestores ==
  [][\A tx \in 1..MaxDepth : tranRollback(tx) => View(St)' = hist.saves[tx]]_vars

(* When a commit is over, the file has what the process saw when it called *)
(* it, with what other processes did to other records meanwhile.           *)
CommitKeepsView == [][EndCommit => View(St)' = hist.saves[1]]_vars

(* "A tranzakcio vegen (commit/rollback) pontosan azok a lockok szunnek    *)
(* meg, amik a tranzakcio kozben jottek letre" (common.hu.ver:44-45):      *)
(* those held before and not given back since are held, and no other.  The *)
(* exception is a record that was deleted with its lock held from before   *)
(* and is used again by a tabInsert that is rolled back.                   *)
LocksExact ==
  [][tran.active /\ ~tran.active' /\ tab.trandel \cap hist.held = {}
       => Range(tab.locks)' = hist.held]_vars
=============================================================================
