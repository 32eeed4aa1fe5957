----------------------------- MODULE ValueLock -----------------------------
(***************************************************************************)
(* The striped locks of the runtime (usr/include/varlock.h) and what is    *)
(* read and written under them (push.cpp, variable.cpp, array.cpp,         *)
(* asort.cpp, blkenv.cpp, xmethod6.cpp).                                   *)
(*                                                                         *)
(* A VALUE is two words, its type and its data, read and written one after *)
(* the other.  A variable captured by reference is itself a reference, its *)
(* value lives in a vref.  Variables are accessed under the mutex their    *)
(* address hashes to, and so are elements, but the array functions move    *)
(* elements under the mark mutex of their array; a thread pushes numbers   *)
(* and NIL on its stack without a mutex.  Mutex 0 is taken first by        *)
(* whoever needs a second value mutex; the collector takes all of them,    *)
(* and the mutexes of the tables, while it scans the stacks.               *)
(*                                                                         *)
(* push_symbol and assign read and write the value of a vref under the     *)
(* mutex of the variable: the second lock of push.cpp:52 and 151 is not    *)
(* compiled, FINE_GRAINED_LOCK is defined in variable.cpp only.            *)
(*                                                                         *)
(* Every thread executes a program of primitive instructions; an operation *)
(* of the runtime is the sequence it consists of.  The mutexes of the mark *)
(* stack, the sweep and the counters are left out: nobody waits for        *)
(* another mutex while holding one of them.                                *)
(***************************************************************************)
EXTENDS Integers, Sequences

CONSTANTS
  Mutator,      (* the threads of the program                              *)
  Collector,    (* the collector thread                                    *)
  NoOne,        (* owner of a mutex nobody holds                           *)
  Var,          (* variables, those in the environment of blocks included  *)
  Elem,         (* array elements and attributes; never references         *)
  Cell,         (* the values of vrefs                                     *)
  Arr,          (* arrays and blocks                                       *)
  ArrOf,        (* the array of an element                                 *)
  Scalar,       (* the types but TYPE_REF                                  *)
  Datum,        (* the data words that are not addresses of vrefs          *)
  PRIME,        (* how many mutexes beside mutex 0                         *)
  Stripe,       (* which mutex an address hashes to                        *)
  Marksync,     (* CCC_MARKSYNC=enabled                                    *)
  Ops           (* which of AllOps the program uses                        *)

AllOps == {"push", "env", "symbol", "assign", "assign2", "index", "method",
           "capture", "top", "new", "aadd", "ains", "asize", "asort"}

Actor == Mutator \cup {Collector}

(* A thread as a location is the top slot of its stack.                     *)
Loc == Var \cup Elem \cup Cell \cup Mutator
Hashed == Loc \cup Arr
Type == Scalar \cup {"ref"}
Data == Datum \cup Cell

ASSUME NameAssumption == /\ Collector \notin Mutator
                         /\ NoOne \notin Actor
                         /\ "ref" \notin Scalar /\ Scalar # {}
                         /\ Datum \cap Cell = {} /\ Datum # {}
                         /\ Cell # {} /\ Arr # {}
(* A location is of one kind.                                               *)
ASSUME LocAssumption == /\ Mutator \cap (Var \cup Elem \cup Cell) = {}
                        /\ Cell \cap (Var \cup Elem) = {}
                        /\ Var \cap Elem = {}
                        /\ ArrOf \in [Elem -> Arr]
ASSUME StripeAssumption == /\ PRIME \in Nat \ {0}
                           /\ Stripe \in [Hashed -> 1..PRIME]
ASSUME ModeAssumption == /\ Marksync \in BOOLEAN
                         /\ Ops \subseteq AllOps

(* mutx_value, mutx_mark, sync_oreftab and sync_vreftab.                    *)
Mutex == {<<"value", i>> : i \in 0..PRIME} \cup {<<"mark", i>> : i \in 1..PRIME}
         \cup {<<"oref", 0>>, <<"vref", 0>>}

VARIABLES
  owner,        (* who holds each mutex                                    *)
  val,          (* the value at each location: type and data               *)
  code          (* the instructions each thread has still to execute       *)

vars == <<owner, val, code>>

IsRef(l) == val[l].type = "ref"

(* Every variable may have been captured; a vref never holds a reference.   *)
Init ==
  /\ owner = [m \in Mutex |-> NoOne]
  /\ val \in {f \in [Loc -> [type : Scalar, data : Datum] \cup
                            [type : {"ref"}, data : Cell]] :
                \A l \in Loc \ Var : f[l].type # "ref"}
  /\ code = [a \in Actor |-> <<>>]

-----------------------------------------------------------------------------
(* Instructions and the operations made of them; m is the thread.           *)

Lock0 == <<<<"lock", <<"value", 0>>>>>>

Free0 == <<<<"free", <<"value", 0>>>>>>

Lock(l) == <<<<"lock", <<"value", Stripe[l]>>>>>>

MarkLock(o) == <<<<"lock", <<"mark", Stripe[o]>>>>>>

MarkFree(o) == <<<<"free", <<"mark", Stripe[o]>>>>>>

Unlock == <<<<"unlock">>>>

(* to->type=from->type; to->data=from->data                                 *)
Move(to, from) == <<<<"type", to, from>>, <<"data", to, from>>>>

(* varlock::lock(p1,p2)                                                     *)
LockPair(l, k) ==
  IF Stripe[l] = Stripe[k] THEN Lock(l)
  ELSE Lock0 \o (IF Stripe[l] < Stripe[k] THEN Lock(l) \o Lock(k)
                                          ELSE Lock(k) \o Lock(l)) \o Free0

(* varlock::lock(p,x1): one more mutex.                                     *)
LockMore(l, have) == IF Stripe[l] = have THEN <<>> ELSE Lock(l)

(* Mutant of LockAll: the loop stops at x<prime.                            *)
LockAllButLast == [i \in 1..PRIME |-> <<"lock", <<"value", i-1>>>>]

LockAll == [i \in 1..PRIME+1 |-> <<"lock", <<"value", i-1>>>>]

FreeAll == [i \in 1..PRIME+1 |-> <<"free", <<"value", i-1>>>>]

LockTables == <<<<"lock", <<"oref", 0>>>>, <<"lock", <<"vref", 0>>>>>>

FreeTables == <<<<"free", <<"vref", 0>>>>, <<"free", <<"oref", 0>>>>>>

(* Mutant of copy: the mutexes are locked in the order of the operands.     *)
copyUnordered(to, from) ==
  (IF Stripe[to] = Stripe[from] THEN Lock(to) ELSE Lock(to) \o Lock(from))
  \o Move(to, from) \o Unlock

(* VALUE::operator=                                                         *)
copy(to, from) == LockPair(to, from) \o Move(to, from) \o Unlock

PUSH(m, v) == Lock(v) \o Move(m, v) \o Unlock

(* A captured variable in a block: v->data.vref->value.                     *)
push_blkenv(m, c) == PUSH(m, c)

push_symbol(m, v) == Lock0 \o Lock(v) \o <<<<"test", "load", v>>>>

assign(m, v) == Lock0 \o Lock(v) \o <<<<"test", "store", v>>>>

assign2(m, v) == Lock(v) \o Move(v, m) \o Unlock

(* idxr: *TOP()=*(ARRAYPTR(a)+idx-1)                                        *)
idxr(m, v) == copy(m, v)

(* _method_::eval of an attribute, with a value to store in it.             *)
method(m, v) == Lock(v) \o Move(v, m) \o Move(m, v) \o Unlock

push_symbol_ref(m, v) == PUSH(m, v) \o <<<<"capture", v>>>>

(* PUSHNIL, _ret; blkenv(blk)                                               *)
PUSHNIL(m, t) == <<<<"put", "type", m, t>>>>

(* number, logical, date, pointer: the type, then the data.                 *)
number(m, t, d) == PUSHNIL(m, t) \o <<<<"put", "data", m, d>>>>

(* blkenv(blk,arr): blk->data.block.oref=arr->data.block.oref               *)
blkenv(m, d) == <<<<"put", "data", m, d>>>>

(* The new object is pushed under the lock of the table.                    *)
oref_new(m, t, d) ==
  <<<<"lock", <<"oref", 0>>>>>> \o number(m, t, d) \o <<<<"free", <<"oref", 0>>>>>>

vref_new(m) == <<<<"lock", <<"vref", 0>>>>, <<"take">>>>

(* TOP() becomes a reference to the vref c.                                 *)
Refer(m, c) ==
  <<<<"data", c, m>>, <<"type", c, m>>,
    <<"put", "type", m, "ref">>, <<"put", "data", m, c>>>>

(* Mutant of Taken: the table is unlocked before TOP() is changed.          *)
TakenUnlocked(m, c) == <<<<"free", <<"vref", 0>>>>>> \o Refer(m, c)

(* The rest of vref_new when the slot c has been taken off the free list.   *)
Taken(m, c) == Refer(m, c) \o <<<<"free", <<"vref", 0>>>>>>

(* aadd: the element is written and *base=*v returned.                      *)
aadd(m, e) ==
  MarkLock(ArrOf[e]) \o Move(e, m) \o MarkFree(ArrOf[e]) \o copy(m, m)

(* ains, adel: elements are moved, one becomes NIL; *base=*a.               *)
ains(m, e, f, t) ==
  MarkLock(ArrOf[e]) \o Move(e, f) \o <<<<"put", "type", f, t>>>>
  \o MarkFree(ArrOf[e]) \o copy(m, m)

(* asize in place: the new elements become NIL.                             *)
asize(e, t) == MarkLock(ArrOf[e]) \o <<<<"put", "type", e, t>>>> \o MarkFree(ArrOf[e])

(* asort, asortkey: the number of the mutex and the block are pushed with   *)
(* the array locked; the compare function unlocks it, pushes the elements,  *)
(* runs the block and locks it again.                                       *)
asort(m, blk, e, f, t, d) ==
  MarkLock(ArrOf[e]) \o number(m, t, d) \o push_symbol(m, blk)
  \o MarkFree(ArrOf[e]) \o push_symbol(m, e) \o push_symbol(m, f)
  \o MarkLock(ArrOf[e]) \o Move(e, f) \o MarkFree(ArrOf[e])

(* What push_symbol and assign do with the variable or its vref.            *)
Access(m, how, l) == IF how = "load" THEN Move(m, l) ELSE Move(l, m)

(* The rest of push_symbol, assign, vartab_shade_lk and vartab_shade when   *)
(* the type of v has been read.                                             *)
Tested(m, how, v) ==
  CASE how = "mark" -> IF IsRef(v) THEN <<<<"follow", how, v>>>> ELSE <<>>
    [] how = "shade" -> IF IsRef(v) THEN <<<<"follow", how, v>>>>
                        ELSE Free0 \o Unlock
    [] OTHER -> Free0 \o (IF IsRef(v) THEN <<<<"follow", how, v>>>>
                          ELSE Access(m, how, v) \o Unlock)

(* Mutant of Followed: mutex 0 is released before the second mutex is       *)
(* taken.                                                                   *)
FollowedEarly(m, how, v, c) ==
  CASE how = "mark" -> <<>>
    [] how = "shade" -> Free0 \o LockMore(c, Stripe[v]) \o Unlock
    [] OTHER -> Access(m, how, c) \o Unlock

(* The same when v is a reference, and c the vref found in its data.        *)
Followed(m, how, v, c) ==
  CASE how = "mark" -> <<>>
    [] how = "shade" -> LockMore(c, Stripe[v]) \o Unlock \o Free0
    [] OTHER -> Access(m, how, c) \o Unlock

vartab_shade_lk(v) == Lock0 \o Lock(v) \o <<<<"test", "shade", v>>>>

vartab_shade(v) == <<<<"test", "mark", v>>>>

(* One value of the stacks, one element of the object o while the program   *)
(* runs, one of it with the locks held again: each stands for many.         *)
vartab_mark(o) ==
  LockAll \o LockTables \o <<<<"scan">>>>
  \o (IF Marksync
      THEN FreeTables \o FreeAll
           \o MarkLock(o) \o <<<<"visit", "shade", o>>>> \o MarkFree(o)
           \o LockAll \o LockTables
      ELSE <<>>)
  \o MarkLock(o) \o <<<<"visit", "mark", o>>>> \o MarkFree(o)
  \o FreeTables \o FreeAll

-----------------------------------------------------------------------------
Is(op) == op \in Ops

Pairs == {p \in Elem \X Elem : ArrOf[p[1]] = ArrOf[p[2]]}

(* The operations a thread can begin.  What is stored in an element is no   *)
(* reference; only operator= copies references.                             *)
Operations(m) ==
  {PUSH(m, v) : v \in {v \in Var \cup Elem : Is("push")}} \cup
  {push_blkenv(m, c) : c \in {c \in Cell : Is("env")}} \cup
  {push_symbol(m, v) : v \in {v \in Var : Is("symbol")}} \cup
  {idxr(m, e) : e \in {e \in Elem : Is("index")}} \cup
  {push_symbol_ref(m, v) : v \in {v \in Var : Is("capture")}} \cup
  {PUSHNIL(m, t) : t \in {t \in Scalar : Is("top")}} \cup
  {number(m, t, d) : t \in {t \in Scalar : Is("top")}, d \in Datum} \cup
  {oref_new(m, t, d) : t \in {t \in Scalar : Is("new")}, d \in Datum} \cup
  {ains(m, p[1], p[2], t) : p \in {p \in Pairs : Is("ains")}, t \in Scalar} \cup
  {asize(e, t) : e \in {e \in Elem : Is("asize")}, t \in Scalar} \cup
  {asort(m, v, p[1], p[2], t, d) : v \in {v \in Var : Is("asort")},
                                   p \in Pairs, t \in Scalar, d \in Datum}

(* Those that store what is on top of the stack, which is no reference.     *)
Stores(m) ==
  {assign(m, v) : v \in {v \in Var : Is("assign")}} \cup
  {assign2(m, e) : e \in {e \in Elem : Is("assign2")}} \cup
  {method(m, e) : e \in {e \in Elem : Is("method")}} \cup
  {aadd(m, e) : e \in {e \in Elem : Is("aadd")}} \cup
  {blkenv(m, d) : d \in {d \in Datum : Is("top")}}

Begin(m) ==
  /\ code[m] = <<>>
  /\ \E s \in Operations(m) \cup (IF IsRef(m) THEN {} ELSE Stores(m)) :
       code' = [code EXCEPT ![m] = s]
  /\ UNCHANGED <<owner, val>>

BeginMark ==
  /\ code[Collector] = <<>>
  /\ \E o \in Arr : code' = [code EXCEPT ![Collector] = vartab_mark(o)]
  /\ UNCHANGED <<owner, val>>

At(a, instr) == code[a] # <<>> /\ Head(code[a])[1] = instr
Arg(a, i) == Head(code[a])[i]
Continue(a, s) == code' = [code EXCEPT ![a] = s \o Tail(@)]

DoLock(a) ==
  /\ At(a, "lock")
  /\ owner[Arg(a, 2)] = NoOne
  /\ owner' = [owner EXCEPT ![Arg(a, 2)] = a]
  /\ Continue(a, <<>>)
  /\ UNCHANGED val

DoFree(a) ==
  /\ At(a, "free")
  /\ owner' = [owner EXCEPT ![Arg(a, 2)] = NoOne]
  /\ Continue(a, <<>>)
  /\ UNCHANGED val

(* assign_unlock(lkx): the one or two mutexes of lkx.                       *)
DoUnlock(a) ==
  /\ At(a, "unlock")
  /\ owner' = [m \in Mutex |->
       IF m[1] = "value" /\ m[2] > 0 /\ owner[m] = a THEN NoOne ELSE owner[m]]
  /\ Continue(a, <<>>)
  /\ UNCHANGED val

DoType(a) ==
  /\ At(a, "type")
  /\ val' = [val EXCEPT ![Arg(a, 2)].type = val[Arg(a, 3)].type]
  /\ Continue(a, <<>>)
  /\ UNCHANGED owner

DoData(a) ==
  /\ At(a, "data")
  /\ val' = [val EXCEPT ![Arg(a, 2)].data = val[Arg(a, 3)].data]
  /\ Continue(a, <<>>)
  /\ UNCHANGED owner

DoPut(m) ==
  /\ At(m, "put")
  /\ val' = [val EXCEPT ![Arg(m, 3)] =
              IF Arg(m, 2) = "type" THEN [@ EXCEPT !.type = Arg(m, 4)]
                                    ELSE [@ EXCEPT !.data = Arg(m, 4)]]
  /\ Continue(m, <<>>)
  /\ UNCHANGED owner

DoTest(a) ==
  /\ At(a, "test")
  /\ Continue(a, Tested(a, Arg(a, 2), Arg(a, 3)))
  /\ UNCHANGED <<owner, val>>

(* What is no vref is read as if it were one, whatever is found there.      *)
DoFollow(a) ==
  /\ At(a, "follow")
  /\ \E c \in Cell :
       /\ val[Arg(a, 3)].data \in Cell => c = val[Arg(a, 3)].data
       /\ Continue(a, Followed(a, Arg(a, 2), Arg(a, 3), c))
  /\ UNCHANGED <<owner, val>>

(* if( TOP()->type!=TYPE_REF ){ vref_new(); *v=*TOP(); }                    *)
DoCapture(m) ==
  /\ At(m, "capture")
  /\ Continue(m, IF IsRef(m) THEN <<>> ELSE vref_new(m) \o copy(Arg(m, 2), m))
  /\ UNCHANGED <<owner, val>>

(* A vref is free when nothing refers to it and no thread is on the way to  *)
(* it.  There may be none: sync_vreftab.wait unlocks the table for a while. *)
Mentions(i, c) ==
  \/ i[1] \in {"type", "data"} /\ c \in {i[2], i[3]}
  \/ i[1] = "put" /\ i[4] = c

InUse(c) ==
  \/ \E l \in Loc : val[l] = [type |-> "ref", data |-> c]
  \/ \E a \in Actor : \E j \in 1..Len(code[a]) : Mentions(code[a][j], c)

DoTake(m) ==
  /\ At(m, "take")
  /\ \/ \E c \in Cell : ~InUse(c) /\ Continue(m, Taken(m, c))
     \/ (\A c \in Cell : InUse(c))
          /\ Continue(m, <<<<"free", <<"vref", 0>>>>>> \o vref_new(m))
  /\ UNCHANGED <<owner, val>>

(* vartab_shade(sp) of a value on some stack.                               *)
DoScan ==
  /\ At(Collector, "scan")
  /\ \E v \in Var \cup Mutator : Continue(Collector, vartab_shade(v))
  /\ UNCHANGED <<owner, val>>

(* A variable is in the environment of a block.                             *)
DoVisit ==
  /\ At(Collector, "visit")
  /\ \E v \in Var \cup {e \in Elem : ArrOf[e] = Arg(Collector, 3)} :
       Continue(Collector, IF Arg(Collector, 2) = "shade" THEN vartab_shade_lk(v)
                                                          ELSE vartab_shade(v))
  /\ UNCHANGED <<owner, val>>

Next ==
  \/ BeginMark \/ DoScan \/ DoVisit
  \/ \E m \in Mutator : Begin(m) \/ DoPut(m) \/ DoCapture(m) \/ DoTake(m)
  \/ \E a \in Actor : DoLock(a) \/ DoFree(a) \/ DoUnlock(a) \/ DoTest(a) \/ DoFollow(a)
  \/ \E m \in Mutator : DoType(m) \/ DoData(m)

Spec == Init /\ [][Next]_vars

-----------------------------------------------------------------------------
Accesses == {"load", "store", "shade", "mark"}

Instruction ==
  {"lock", "free"} \X Mutex \cup {<<"unlock">>, <<"take">>, <<"scan">>}
  \cup {"type", "data"} \X Loc \X Loc
  \cup {"put"} \X {"type"} \X Loc \X Type
  \cup {"put"} \X {"data"} \X Loc \X Data
  \cup {"test", "follow"} \X Accesses \X Loc
  \cup {"capture"} \X Var
  \cup {"visit"} \X {"shade", "mark"} \X Arr

TypeOK ==
  /\ owner \in [Mutex -> Actor \cup {NoOne}]
  /\ val \in [Loc -> [type : Type, data : Data]]
  /\ code \in [Actor -> Seq(Instruction)]

(* The collector has the tables locked, which it does to scan the stacks.   *)
Scanning == owner[<<"oref", 0>>] = Collector /\ owner[<<"vref", 0>>] = Collector

(* While the collector scans, the variables, the values of vrefs and the    *)
(* elements of the object it visits do not change, although the threads go  *)
(* on with what needs none of the locked mutexes: elements of other arrays  *)
(* are moved, numbers are pushed (variable.cpp:367-371, 469).               *)
Visited(o) == owner[<<"mark", Stripe[o]>>] = Collector
Frozen == Var \cup Cell \cup {e \in Elem : Visited(ArrOf[e])}
ScanFrozen == [][Scanning => \A l \in Frozen : val'[l] = val[l]]_vars

(* Whoever follows the reference in a variable, having read its type, finds *)
(* the address of a vref; and so does the collector on the stacks, between  *)
(* two of whose steps a reference is never half written.                    *)
Whole(x) == x.type = "ref" => x.data \in Cell
RefsWhole ==
  /\ \A a \in Actor : At(a, "follow") /\ Arg(a, 3) \in Var =>
       IsRef(Arg(a, 3)) /\ Whole(val[Arg(a, 3)])
  /\ Scanning => \A l \in Var \cup Mutator : Whole(val[l])

(* No threads wait for each other in a circle.                              *)
WaitsFor(a, S) == At(a, "lock") /\ owner[Arg(a, 2)] \in S
NoDeadlock ==
  \A S \in (SUBSET Actor) \ {{}} : \E a \in S : ~WaitsFor(a, S)

(* "lockol egy plusz mutexet (fogni kell mutex[0]-t)" (varlock.h:41): who   *)
(* takes a mutex while it holds another one of the same kind holds mutex 0. *)
ZeroHeld ==
  \A a \in Actor :
    At(a, "lock") /\ Arg(a, 2)[1] = "value"
      /\ (\E i \in 1..PRIME : owner[<<"value", i>>] = a)
      => owner[<<"value", 0>>] = a
=============================================================================
