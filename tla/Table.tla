------------------------------- MODULE Table --------------------------------
(***************************************************************************)
(* Records of a table shared by several processes (tabobj/tbbtbtx:         *)
(* dblock.prg, dbmodif.prg, dbmove.prg), outside transactions.             *)
(*                                                                         *)
(* Every process has one table object on the same file: a position, a copy *)
(* of the record there, and flags that tell what the next commit has to    *)
(* write.  The file has the records, the orders "recno" and "deleted" and  *)
(* one index.  A call is one step where it touches the file once or under  *)
(* the lock of its header; tabAppend and tabInsert, which do not, are      *)
(* taken apart.  A record has one key field, one other field and the mark  *)
(* of deletion; an index key is the key field with the record number.      *)
(***************************************************************************)
EXTENDS Integers, Sequences, FiniteSets

CONSTANTS
  Process,
  Key,          (* values of the key field, 0 is blank                     *)
  None,         (* no process                                              *)
  Reusers,      (* processes with tabKeepDeleted()=0: they use the records *)
                (* deleted today again, the others never do                *)
  Recovers,     (* a program goes on after an error; otherwise it ends     *)
  Uses,         (* what the programs do with which file, see use           *)
  MaxRec        (* bound: records of the file                              *)

Op == {"seek", "goto", "lock", "val", "key", "delete", "append", "insert", "crash"}

ASSUME KeyAssumption == Key \subseteq Nat \ {0}
ASSUME ProcessAssumption == Reusers \subseteq Process /\ None \notin Process
ASSUME RecoversAssumption == Recovers \in BOOLEAN
ASSUME UsesAssumption == Uses \subseteq [op : [Process -> SUBSET Op], keys : Seq(Key)]
ASSUME MaxRecAssumption == /\ MaxRec \in Nat \ {0}
                           /\ \A u \in Uses : Len(u.keys) <= MaxRec

VARIABLES
  file,         (* rec, the records, and the orders recno, deleted, index  *)
  lock,         (* the process that holds the lock of a record, or None    *)
  tab,          (* the table objects                                       *)
  call,         (* how far a tabAppend or tabInsert has got, or its result *)
  use           (* the operations of each process and the keys of the      *)
                (* records at the start; never changes                     *)

vars == <<file, lock, tab, call, use>>

Rec == 1..MaxRec
Blank == [del |-> FALSE, key |-> 0, val |-> 0]
NoKey == -1     (* IND_CURKEY is NIL                                       *)

(* pos 0 is EOF; at is the cursor of the index, <<0, 0>> when it is lost.  *)
Unopened == [pos |-> 0, buf |-> Blank, at |-> <<0, 0>>,
             modif |-> FALSE, modifkey |-> FALSE, modifapp |-> FALSE, curkey |-> NoKey]

Idle == [pc |-> "idle", insert |-> FALSE, key |-> 0, rec |-> 0]

-----------------------------------------------------------------------------
(* What a commit writes, in one step: it holds the header while it changes *)
(* keys, and the lock of the record.                                       *)

Entry(k, r) == <<k, r>>

(* Mutant: deletes the key the record has now, not the one it had.         *)
deletekeysNew(f, t) ==
  [f EXCEPT !.deleted = @ \cup {t.pos}, !.recno = @ \ {t.pos},
            !.index = @ \ {Entry(t.buf.key, t.pos)}]

deletekeys(f, t) ==
  [f EXCEPT !.deleted = @ \cup {t.pos}, !.recno = @ \ {t.pos},
            !.index = @ \ {Entry(IF t.curkey = NoKey THEN t.buf.key ELSE t.curkey, t.pos)}]

addkeys(f, t) ==
  [f EXCEPT !.recno = @ \cup {t.pos}, !.index = @ \cup {Entry(t.buf.key, t.pos)}]

changekeys(f, t) ==
  [f EXCEPT !.index = (@ \ {Entry(t.curkey, t.pos)}) \cup {Entry(t.buf.key, t.pos)}]

rewrite(f, t) == [f EXCEPT !.rec[t.pos] = t.buf]

(* A record that was appended and deleted before it was committed has no   *)
(* keys to delete and gets none.                                           *)
Written(f, t) ==
  IF ~t.modif THEN f
  ELSE rewrite(IF t.modifapp THEN IF t.buf.del THEN f ELSE addkeys(f, t)
               ELSE IF t.buf.del THEN deletekeys(f, t)
               ELSE IF t.modifkey THEN changekeys(f, t)
               ELSE f, t)

Committed(t) ==
  IF ~t.modif THEN t
  ELSE [t EXCEPT !.modif = FALSE, !.modifkey = FALSE, !.modifapp = FALSE, !.curkey = NoKey,
                 !.at = IF t.modifkey /\ ~t.buf.del THEN Entry(t.buf.key, t.pos) ELSE @]

-----------------------------------------------------------------------------
(* Movement, in a file where the object t has nothing to commit.           *)

GoEOF(t) == [t EXCEPT !.pos = 0, !.buf = Blank, !.at = <<0, 0>>]

SetPos(f, t, e) == [t EXCEPT !.pos = e[2], !.buf = f.rec[e[2]], !.at = e]

Before(e, g) == e[1] < g[1] \/ (e[1] = g[1] /\ e[2] < g[2])

GoFirst(f, t, entries) ==
  LET scope == {e \in entries : ~f.rec[e[2]].del} IN
  IF scope = {} THEN GoEOF(t)
  ELSE SetPos(f, t, CHOOSE e \in scope : \A g \in scope : e = g \/ Before(e, g))

tabSeek(f, t, k) == GoFirst(f, t, {e \in f.index : e[1] >= k})

tabGetNext(f, t) == GoFirst(f, t, {e \in f.index : Before(t.at, e)})

tabGoto(f, t, r) == IF r \in f.recno THEN SetPos(f, t, Entry(f.rec[r].key, r)) ELSE GoEOF(t)

tabOpen(f) == GoFirst(f, Unopened, f.index)

tabFound(t, k) == t.pos # 0 /\ t.buf.key = k

-----------------------------------------------------------------------------
Init ==
  /\ use \in Uses
  /\ file = [rec |-> [r \in DOMAIN use.keys |-> [Blank EXCEPT !.key = use.keys[r]]],
             recno |-> DOMAIN use.keys, deleted |-> {},
             index |-> {Entry(use.keys[r], r) : r \in DOMAIN use.keys}]
  /\ lock = [r \in Rec |-> None]
  /\ tab = [p \in Process |-> tabOpen(file)]
  /\ call = [p \in Process |-> Idle]

(* Process p calls an operation of the kind o.                             *)
Calls(p, o) ==
  /\ o \in use.op[p]
  /\ call[p].pc \in {"idle", "done"}

Return(p) == call' = [call EXCEPT ![p] = Idle]

(* Every operation starts with a commit.                                   *)
Commits(p) == file' = Written(file, tab[p])

Moves(p, t) ==
  /\ Commits(p)
  /\ tab' = [tab EXCEPT ![p] = t]
  /\ UNCHANGED <<lock, use>>

Seek(p, k) ==
  /\ Calls(p, "seek")
  /\ Moves(p, tabSeek(Written(file, tab[p]), Committed(tab[p]), k))
  /\ Return(p)

Goto(p, r) ==
  /\ Calls(p, "goto")
  /\ Moves(p, tabGoto(Written(file, tab[p]), Committed(tab[p]), r))
  /\ Return(p)

(* Mutant: the record is not read again.                                   *)
ReReadNot(f, t) == t

ReRead(f, t) == [t EXCEPT !.buf = f.rec[t.pos]]

Others(p) == [r \in Rec |-> IF lock[r] = p THEN None ELSE lock[r]]

(* tabRLock, and tabRecLock as tabAppend calls it: the other locks go      *)
(* first, whether this one succeeds or not.                                *)
Locked(p, r) == lock' = [Others(p) EXCEPT ![r] = p]

tabRLock(p) ==
  LET r == tab[p].pos IN
  /\ Calls(p, "lock")
  /\ r # 0 /\ lock[r] \in {None, p}
  /\ Commits(p)
  /\ Locked(p, r)
  /\ tab' = [tab EXCEPT ![p] = ReRead(file', Committed(tab[p]))]
  /\ Return(p)
  /\ UNCHANGED use

tabRLockFails(p) ==
  LET r == tab[p].pos IN
  /\ Calls(p, "lock")
  /\ r # 0 => lock[r] \notin {None, p}
  /\ Commits(p)
  /\ lock' = IF r = 0 THEN lock ELSE Others(p)
  /\ tab' = [tab EXCEPT ![p] = Committed(tab[p])]
  /\ Return(p)
  /\ UNCHANGED use

(* tabMLock: the lock of any record is added to those held.                *)
tabMLock(p, r) ==
  LET t == Committed(tab[p]) IN
  /\ Calls(p, "lock")
  /\ r <= Len(file.rec)
  /\ Commits(p)
  /\ lock' = [lock EXCEPT ![r] = IF @ = None THEN p ELSE @]
  /\ tab' = [tab EXCEPT ![p] = IF lock[r] = None /\ r = t.pos THEN ReRead(file', t) ELSE t]
  /\ Return(p)
  /\ UNCHANGED use

tabUnlock(p) ==
  /\ Calls(p, "lock")
  /\ Commits(p)
  /\ lock' = Others(p)
  /\ tab' = [tab EXCEPT ![p] = Committed(@)]
  /\ Return(p)
  /\ UNCHANGED use

tabUnlockOne(p, r) ==
  /\ Calls(p, "lock")
  /\ lock[r] = p
  /\ Commits(p)
  /\ lock' = [lock EXCEPT ![r] = None]
  /\ tab' = [tab EXCEPT ![p] = Committed(@)]
  /\ Return(p)
  /\ UNCHANGED use

(* The operating system drops the locks of a program that ends; it may be  *)
(* started again.                                                          *)
Ends(p) ==
  /\ lock' = Others(p)
  /\ tab' = [tab EXCEPT ![p] = tabOpen(file)]
  /\ Return(p)

(* An error leaves the object t to a program that catches it.              *)
Fails(p, t) ==
  IF Recovers THEN tab' = [tab EXCEPT ![p] = t] /\ Return(p) /\ UNCHANGED lock
  ELSE Ends(p)

IsLocked(p) == tab[p].pos # 0 /\ lock[tab[p].pos] = p

(* Writing to the field that is no key.  A program looks at tabDeleted     *)
(* after it has locked.                                                    *)
SetVal(p, v) ==
  /\ Calls(p, "val")
  /\ tab[p].modif \/ (IsLocked(p) /\ ~tab[p].buf.del)
  /\ tab' = [tab EXCEPT ![p].modif = TRUE, ![p].buf.val = v]
  /\ Return(p)
  /\ UNCHANGED <<file, lock, use>>

(* Without a lock the write fails with "record lock required".             *)
SetValFails(p) ==
  /\ Calls(p, "val")
  /\ tab[p].pos # 0 /\ ~tab[p].modif /\ ~IsLocked(p)
  /\ Fails(p, [tab[p] EXCEPT !.modif = TRUE])
  /\ UNCHANGED <<file, use>>

(* Mutant: every write to the key field notes the key it replaces.         *)
SetKeyEach(p, k) ==
  LET t == tab[p] IN
  /\ Calls(p, "key")
  /\ t.modif \/ (IsLocked(p) /\ ~t.buf.del)
  /\ tab' = [tab EXCEPT ![p] = [t EXCEPT !.modif = TRUE, !.modifkey = TRUE, !.buf.key = k,
                                         !.curkey = t.buf.key]]
  /\ Return(p)
  /\ UNCHANGED <<file, lock, use>>

(* Writing to the key field: the first time it notes the old key.          *)
SetKey(p, k) ==
  LET t == tab[p] IN
  /\ Calls(p, "key")
  /\ t.modif \/ (IsLocked(p) /\ ~t.buf.del)
  /\ tab' = [tab EXCEPT ![p] = [t EXCEPT
               !.modif = TRUE, !.modifkey = TRUE, !.buf.key = k,
               !.curkey = IF t.modifkey THEN @ ELSE t.buf.key]]
  /\ Return(p)
  /\ UNCHANGED <<file, lock, use>>

(* Where tabGetNext may go: the cursor is not on a record that was appended *)
(* and not yet committed, then it may be anywhere.                         *)
NextOf(f, d) ==
  LET t == Committed(d) IN
  IF d.modifapp THEN {GoEOF(t)} \cup {SetPos(f, t, e) : e \in f.index}
  ELSE {tabGetNext(f, t)}

(* The rest of tabDelete, for an object positioned on a record it has      *)
(* locked: mark, commit, unlock, step to the next record.                  *)
DeleteHere(p, t, f) ==
  LET d == [t EXCEPT !.modif = TRUE, !.buf.del = TRUE] IN
  /\ file' = Written(f, d)
  /\ lock' = [lock EXCEPT ![t.pos] = None]
  /\ \E n \in NextOf(file', d) : tab' = [tab EXCEPT ![p] = n]

Delete(p) ==
  /\ Calls(p, "delete")
  /\ IsLocked(p) /\ ~tab[p].buf.del
  /\ DeleteHere(p, tab[p], file)
  /\ Return(p)
  /\ UNCHANGED use

-----------------------------------------------------------------------------
(* tabAppend: a record deleted before is taken (undelete), or a new one is *)
(* written at the end of the file.                                         *)

(* Bound: there is room for the records that are being appended.           *)
Room == Len(file.rec) + Cardinality({p \in Process : call[p].pc \notin {"idle", "done"}}) < MaxRec

Goes(p, pc) == call' = [call EXCEPT ![p].pc = pc]

tabAppend(p) ==
  /\ Calls(p, "append") /\ Room
  /\ Moves(p, Committed(tab[p]))
  /\ call' = [call EXCEPT ![p] = [Idle EXCEPT !.pc = "append"]]

(* The next of the deleted records, in the order of their numbers.         *)
Candidates(p) == {r \in file.deleted : r > call[p].rec}

TryDeleted(p) ==
  LET r == CHOOSE r \in Candidates(p) : \A s \in Candidates(p) : r <= s IN
  /\ call[p].pc = "append"
  /\ p \in Reusers /\ Candidates(p) # {}
  /\ tab' = [tab EXCEPT ![p].pos = r]
  /\ call' = [call EXCEPT ![p].pc = "undelete", ![p].rec = r]
  /\ UNCHANGED <<file, lock, use>>

(* Mutant: the record is taken without its lock.                           *)
LockDeletedNot(p) ==
  /\ call[p].pc = "undelete"
  /\ tab' = [tab EXCEPT ![p] = [@ EXCEPT !.modif = TRUE, !.modifkey = TRUE,
                                         !.modifapp = TRUE, !.buf = Blank]]
  /\ Goes(p, "takeout")
  /\ UNCHANGED <<file, lock, use>>

LockDeleted(p) ==
  LET r == tab[p].pos IN
  /\ call[p].pc = "undelete"
  /\ IF lock[r] \in {None, p}
     THEN /\ Locked(p, r)
          /\ tab' = [tab EXCEPT ![p] = [@ EXCEPT !.modif = TRUE, !.modifkey = TRUE,
                                                 !.modifapp = TRUE, !.buf = Blank]]
          /\ Goes(p, "takeout")
     ELSE /\ lock' = Others(p)
          /\ Goes(p, "append")
          /\ UNCHANGED tab
  /\ UNCHANGED <<file, use>>

(* What tabInsert does as soon as tabAppend has returned: it fills in the  *)
(* key.                                                                    *)
Appended(p, t) ==
  LET c == call[p] IN
  /\ tab' = [tab EXCEPT ![p] = IF c.insert THEN [t EXCEPT !.buf.key = c.key] ELSE t]
  /\ call' = [call EXCEPT ![p] = IF c.insert THEN [c EXCEPT !.pc = "synchronize", !.rec = t.pos]
                                 ELSE Idle]

TakeOut(p) ==
  /\ call[p].pc = "takeout"
  /\ tab[p].pos \in file.deleted
  /\ file' = [file EXCEPT !.deleted = @ \ {tab[p].pos}]
  /\ Appended(p, tab[p])
  /\ UNCHANGED <<lock, use>>

(* Another process took the record between the reading of its key and the  *)
(* lock: deleting the key fails.                                           *)
TakeOutFails(p) ==
  /\ call[p].pc = "takeout"
  /\ tab[p].pos \notin file.deleted
  /\ Fails(p, tab[p])
  /\ UNCHANGED <<file, use>>

AppendNew(p) ==
  LET r == Len(file.rec) + 1 IN
  /\ call[p].pc = "append"
  /\ p \in Reusers => Candidates(p) = {}
  /\ r <= MaxRec
  /\ file' = [file EXCEPT !.rec = Append(@, [Blank EXCEPT !.del = TRUE])]
  /\ Locked(p, r)
  /\ Appended(p, [tab[p] EXCEPT !.pos = r, !.buf = Blank, !.modif = TRUE,
                                !.modifkey = TRUE, !.modifapp = TRUE])
  /\ UNCHANGED use

-----------------------------------------------------------------------------
(* tabInsert: look for the key, append, commit, look again.                *)

tabInsert(p, k) ==
  LET t == tabSeek(Written(file, tab[p]), Committed(tab[p]), k) IN
  /\ Calls(p, "insert") /\ Room
  /\ Moves(p, t)
  /\ call' = [call EXCEPT ![p] = [pc |-> IF tabFound(t, k) THEN "idle" ELSE "append",
                                  insert |-> TRUE, key |-> k, rec |-> 0]]

Synchronize(p) ==
  /\ call[p].pc = "synchronize"
  /\ Moves(p, Committed(tab[p]))
  /\ Goes(p, "verify")

(* The record is the first of its key, or it is deleted again.             *)
Verify(p) ==
  LET t == tabSeek(file, tab[p], call[p].key) IN
  /\ call[p].pc = "verify"
  /\ Moves(p, t)
  /\ Goes(p, IF t.pos = call[p].rec THEN "done" ELSE "withdraw")

Withdraw(p) ==
  LET found == tab[p].pos
      t == tabGoto(file, tab[p], call[p].rec) IN
  /\ call[p].pc = "withdraw"
  /\ DeleteHere(p, t, file)
  /\ call' = [call EXCEPT ![p].pc = "goto", ![p].rec = found]
  /\ UNCHANGED use

GotoFound(p) ==
  /\ call[p].pc = "goto"
  /\ Moves(p, tabGoto(file, tab[p], call[p].rec))
  /\ Return(p)

(* A program may be killed at any time but within a commit, which disables *)
(* signals.                                                                *)
Crash(p) ==
  /\ "crash" \in use.op[p]
  /\ Ends(p)
  /\ UNCHANGED <<file, use>>

Next ==
  \E p \in Process :
    \/ \E k \in Key : Seek(p, k) \/ SetKey(p, k) \/ tabInsert(p, k)
    \/ \E r \in Rec : Goto(p, r) \/ tabMLock(p, r) \/ tabUnlockOne(p, r)
    \/ tabRLock(p) \/ tabRLockFails(p) \/ tabUnlock(p)
    \/ \E v \in {0, 1} : SetVal(p, v)
    \/ SetValFails(p) \/ Delete(p)
    \/ tabAppend(p) \/ TryDeleted(p) \/ LockDeleted(p) \/ TakeOut(p) \/ TakeOutFails(p)
    \/ AppendNew(p)
    \/ Synchronize(p) \/ Verify(p) \/ Withdraw(p) \/ GotoFound(p)
    \/ Crash(p)

Spec == Init /\ [][Next]_vars

-----------------------------------------------------------------------------
(* Properties.                                                             *)

KeyVal == Key \cup {0}

Record == [del : BOOLEAN, key : KeyVal, val : {0, 1}]

File == [rec : Seq(Record), recno : SUBSET Rec, deleted : SUBSET Rec,
         index : SUBSET (KeyVal \X Rec)]

Object == [pos : 0..MaxRec, buf : Record, at : KeyVal \X (0..MaxRec),
           modif : BOOLEAN, modifkey : BOOLEAN, modifapp : BOOLEAN,
           curkey : KeyVal \cup {NoKey}]

Progress == [pc : {"idle", "append", "undelete", "takeout", "synchronize",
                   "verify", "withdraw", "goto", "done"},
             insert : BOOLEAN, key : KeyVal, rec : 0..MaxRec]

(* Type invariant; the orders have no number behind the end of the file.   *)
TypeOK ==
  /\ file \in File /\ Len(file.rec) <= MaxRec
  /\ file.recno \cup file.deleted \subseteq 1..Len(file.rec)
  /\ lock \in [Rec -> Process \cup {None}]
  /\ tab \in [Process -> Object]
  /\ call \in [Process -> Progress]
  /\ use \in Uses

(* The index has the key of every record that "recno" has and of no other, *)
(* and these are the records that are not marked as deleted; those to be   *)
(* used again are marked.  It takes the locks of all processes, the notes  *)
(* of old keys and the three steps of undelete to keep it so, also when a  *)
(* program is killed.                                                      *)
IndexMatches ==
  /\ file.index = {Entry(file.rec[r].key, r) : r \in file.recno}
  /\ \A r \in 1..Len(file.rec) : r \in file.recno <=> ~file.rec[r].del
  /\ file.deleted \cap file.recno = {}

(* A process that has locked the record it stands on sees its last version *)
(* until it writes itself, and has the lock for as long as it has          *)
(* something to commit: no update of another process is ever overwritten.  *)
LockedIsFresh ==
  \A p \in Process :
    LET t == tab[p] IN
    /\ t.modif => IsLocked(p)
    /\ IsLocked(p) /\ ~t.modif /\ call[p].pc # "undelete" => t.buf = file.rec[t.pos]

(* No commit meets a key that is missing or one that is there already,     *)
(* which would end it half way, with the header locked ("failed deleting   *)
(* key", "failed writing key").                                            *)
CommitFindsKeys ==
  \A p \in Process :
    LET t == tab[p]
        old == Entry(IF t.curkey = NoKey THEN t.buf.key ELSE t.curkey, t.pos)
    IN t.modif /\ call[p].pc # "takeout" =>
         IF t.modifapp THEN t.pos \notin file.recno \cup file.deleted
         ELSE t.pos \in file.recno /\ old \in file.index

(* A record is changed, or goes to or from an order, only by the process   *)
(* that has its lock.                                                      *)
WrittenUnderLock ==
  [][\A r \in 1..Len(file.rec) :
       \/ file'.rec[r] # file.rec[r]
       \/ (r \in file'.recno) # (r \in file.recno)
       \/ (r \in file'.deleted) # (r \in file.deleted)
       => lock[r] # None /\ \A p \in Process : p # lock[r] => tab'[p] = tab[p]]_vars

(* tabInsert puts no key into the table that another tabInsert has put     *)
(* there, as its comment says (dbmodif.prg:487-493).                       *)
UniqueInsert ==
  \A p, q \in Process :
    p # q /\ call[p].pc = "done" /\ call[q].pc = "done" => call[p].key # call[q].key
=============================================================================
